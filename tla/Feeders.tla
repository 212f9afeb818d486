------------------------------- MODULE Feeders -------------------------------
(***************************************************************************)
(* What the storage daemons have in common (storage/feeders/__init__.py):  *)
(* how a message is taken apart into reports, each with its context; and   *)
(* the daemons for influxdb, redis and carbon.  Those for postgres and     *)
(* mongodb have modules of their own.                                      *)
(*                                                                         *)
(* A message is [context, data, keys, at]: its context, a sequence of rows *)
(* (functions from fields to values), its key_name, and the pair that the  *)
(* name of its group carries (`group@vlan=3'), or None.                    *)
(***************************************************************************)
EXTENDS Integers, Sequences, FiniteSets, SequencesExt

CONSTANTS
    Messages,
    None,
    Instances,      \* carbon_instances: records [host, port]
    PortOffset,     \* carbon_port_offset
    ShardOf,        \* the hash ring: metric -> its instance
    Chunks,         \* influxdb_chunks
    MaxPoints,      \* bound: what influxdb is sent
    MaxFaults,      \* bound: failures
    MaxTime         \* bound: the time, for redis

FeedersAssumption ==
    /\ PortOffset \in Nat /\ Chunks \in Nat \ {0} /\ {MaxPoints, MaxFaults, MaxTime} \subseteq Nat
    /\ IsFiniteSet(Instances)
    /\ \A i \in Instances : i = [host |-> i.host, port |-> i.port] /\ i.port \in Nat

Over(f, g) == [k \in DOMAIN f \cup DOMAIN g |-> IF k \in DOMAIN g THEN g[k] ELSE f[k]]
Only(f, keys) == [k \in (DOMAIN f) \cap keys |-> f[k]]
Without(f, keys) == [k \in DOMAIN f \ keys |-> f[k]]

-----------------------------------------------------------------------------
(* extract and _process_task *)

\* The context of the whole message: with the pair that the group carries.
WholeContext(m) == IF m.at = None THEN m.context ELSE Over(m.context, [k \in {m.at[1]} |-> m.at[2]])

\* _extract: the fields that belong to the context.
KeyNames(m) == DOMAIN WholeContext(m) \cup m.keys

\* extract_context: what of the context a row replaces makes it another bulk.
BulkContext(m, row) == Over(WholeContext(m), Only(row, DOMAIN WholeContext(m)))

\* The bulks of a message: context -> the positions of its rows.
Bulks(m) ==
    LET ctx(i) == BulkContext(m, m.data[i])
    IN  [c \in {ctx(i) : i \in DOMAIN m.data} |-> {i \in DOMAIN m.data : ctx(i) = c}]

\* _process_task: the report that save gets for a row.
ReportOf(m, i) ==
    [ctx |-> Over(BulkContext(m, m.data[i]), Only(m.data[i], KeyNames(m))),
     data |-> Without(m.data[i], KeyNames(m))]

Reports(m) == {ReportOf(m, i) : i \in DOMAIN m.data}

\* What is stored of messages in carbon: rows of fields; the ring has a place for
\* each of them that is not part of the context.
MessagesAssumption ==
    \A m \in Messages :
        /\ IsFiniteSet(DOMAIN m.data)
        /\ \A i \in DOMAIN m.data : IsFiniteSet(DOMAIN m.data[i])
        /\ \A i \in DOMAIN m.data : \A k \in DOMAIN m.data[i] \ KeyNames(m) :
              ShardOf[k] \in Instances

-----------------------------------------------------------------------------
(* carbon: supervisors split messages by metrics *)

\* get_carbon_key, and the metric: the context makes the path.
CarbonKey(ctx, metric) == [path |-> ctx, metric |-> metric]

\* The worker that a message is for: its key names the port without the offset.
WorkerKey(instance) == [instance EXCEPT !.port = (@ + PortOffset) - PortOffset]

\* Mutated: the keys of the row stay behind.
Keyless(m, report, metric) == Only(report.data, {metric})

\* What is put into a message for a worker: the metric, and the keys of the row.
Partial(m, report, metric) ==
    Over(Only(report.ctx, KeyNames(m)), Only(report.data, {metric}))

\* MultiCarbonSupervisor.process_task: the message for the worker of an instance.
Part(m, instance) == [context |-> m.context, keys |-> KeyNames(m), at |-> None,
    data |-> SetToSeq(UNION {{Partial(m, r, k) : k \in {x \in DOMAIN r.data : ShardOf[x] = instance}} :
                              r \in Reports(m)})]

\* CarbonStorer.save: the data points sent for a message.
Points(m) ==
    UNION {{[key |-> CarbonKey(r.ctx, k), value |-> r.data[k]] : k \in DOMAIN r.data} : r \in Reports(m)}

\* What the worker that listens with the key of an instance sends.
SentBy(m, instance) ==
    UNION {Points(Part(m, i)) : i \in {j \in Instances : WorkerKey(j) = instance}}

-----------------------------------------------------------------------------
VARIABLES
    storer,     \* which daemon was started
    message,    \* the message at hand
    workers,    \* carbon: instance -> "none", "dead" or "alive" (its slot)
    processes,  \* carbon: instance -> the number of workers that listen
    cache,      \* influxdb: points not sent yet
    received,   \* influxdb: points the server has
    points,     \* influxdb: how many points were taken
    hash,       \* redis: key -> [fields, updated, expires]
    clock,
    faults

carbon == <<workers, processes>>
influx == <<cache, received, points>>
redis == <<hash, clock>>
vars == <<storer, message, carbon, influx, redis, faults>>

-----------------------------------------------------------------------------
(* carbon: MultiCarbonManager.start *)

\* Slots that get a worker: no worker yet (None), or a dead one (False).
Startable(i) == workers[i] # "alive"

\* One turn of the loop: slots whose worker is dead get a new one.  The slot is
\* filled before the worker is started, which may fail.
Loop ==
    /\ storer = "carbon"
    /\ LET due == {i \in Instances : Startable(i)}
       IN  \E started \in SUBSET due :
          /\ faults' = faults + Cardinality(due \ started)
          /\ faults' <= MaxFaults
          /\ workers' = [i \in Instances |->
                IF i \in started THEN "alive" ELSE IF i \in due THEN "dead" ELSE workers[i]]
          /\ processes' = [i \in Instances |-> processes[i] + IF i \in started THEN 1 ELSE 0]
    /\ UNCHANGED <<storer, message, influx, redis>>

\* A worker ends (it did all the tasks it may, or it crashed).
Dies(i) ==
    /\ storer = "carbon" /\ workers[i] = "alive" /\ faults < MaxFaults /\ faults' = faults + 1
    /\ workers' = [workers EXCEPT ![i] = "dead"]
    /\ processes' = [processes EXCEPT ![i] = @ - 1]
    /\ UNCHANGED <<storer, message, influx, redis>>

-----------------------------------------------------------------------------
(* influxdb *)

\* Mutated: the cache is emptied whatever comes of the request.
AlwaysEmptied(sent, arrived) == <<>>

\* The cache after a request: it stays when urlopen raises.  (The status of the
\* answer does not count: it is overwritten with 200.)
LeftOver(sent, arrived) == IF arrived = "answered" THEN <<>> ELSE sent

\* save: the point is cached, and the cache is sent when it is large enough.
InfluxSave ==
    LET all == Append(cache, points + 1)
    IN  /\ storer = "influxdb" /\ points < MaxPoints /\ points' = points + 1
        /\ \/ /\ Len(all) < Chunks
              /\ cache' = all /\ UNCHANGED <<received, faults>>
           \/ /\ Len(all) >= Chunks
              /\ \E arrived \in {"answered", "unanswered", "lost"} :
                    /\ faults' = faults + (IF arrived = "answered" THEN 0 ELSE 1)
                    /\ faults' <= MaxFaults
                    /\ cache' = LeftOver(all, arrived)
                    /\ received' = IF arrived = "lost" THEN received ELSE received \cup ToSet(all)
        /\ UNCHANGED <<storer, message, carbon, redis>>

-----------------------------------------------------------------------------
(* redis *)

\* The key of a report: made of its context by the template of its table.
RedisKey(r) == r.ctx

\* A bulk: in one transaction the fields of all its reports are set (those that
\* were there remain) and, if the table is configured so, their time to live.
\* Nothing is stored for a table that has no options.
RedisBulk(m, bulk, ttl) ==
    LET reports == {ReportOf(m, i) : i \in bulk}
        here == {RedisKey(r) : r \in reports}
        old(k) == IF k \in DOMAIN hash THEN hash[k].fields ELSE <<>>
        fields(k) == FoldLeft(LAMBDA f, r : IF RedisKey(r) = k THEN Over(f, r.data) ELSE f,
                              old(k), SetToSeq(reports))
    IN  hash' = [k \in here \cup DOMAIN hash |->
                    IF k \notin here THEN hash[k]
                    ELSE [fields |-> fields(k), updated |-> clock,
                          expires |-> IF ttl # None THEN clock + ttl
                                      ELSE IF k \in DOMAIN hash THEN hash[k].expires ELSE None]]

\* A bulk of the message, or nothing of it if the transaction fails.
RedisSave ==
    /\ storer = "redis"
    /\ \E ctx \in DOMAIN Bulks(message), ttl \in {None, 1} :
          RedisBulk(message, Bulks(message)[ctx], ttl)
    /\ UNCHANGED <<storer, message, clock, carbon, influx, faults>>

\* Time goes by; keys expire.
Tick ==
    /\ storer = "redis" /\ clock < MaxTime /\ clock' = clock + 1
    /\ LET gone == {k \in DOMAIN hash : hash[k].expires # None /\ hash[k].expires < clock + 1}
       IN  hash' = [k \in DOMAIN hash \ gone |-> hash[k]]
    /\ UNCHANGED <<storer, message, carbon, influx, faults>>

-----------------------------------------------------------------------------
Init ==
    /\ storer \in {"carbon", "influxdb", "redis"} /\ message \in Messages
    /\ workers = [i \in Instances |-> "none"] /\ processes = [i \in Instances |-> 0]
    /\ cache = <<>> /\ received = {} /\ points = 0
    /\ hash = <<>> /\ clock = 0 /\ faults = 0

Next ==
    \/ Loop \/ \E i \in Instances : Dies(i)
    \/ InfluxSave
    \/ RedisSave \/ Tick

Spec == Init /\ [][Next]_vars

-----------------------------------------------------------------------------
(* Properties *)

\* A report says of a row what the row says, and of its context what the row and
\* otherwise the message says: nothing of another row, and nothing is lost.
RowsApart ==
    \A i \in DOMAIN message.data :
        LET r == ReportOf(message, i)
            row == message.data[i]
        IN  /\ DOMAIN r.ctx \cap DOMAIN r.data = {}
            /\ Over(r.ctx, r.data) = Over(WholeContext(message), row)
            /\ DOMAIN r.ctx \subseteq KeyNames(message)

\* The workers send all data points of a message, each by one worker: that of the
\* instance its metric hashes to.  They arrive at the same carbon keys, from the
\* parts that supervisors send them, that they would have from the whole message.
PartsMakeTheWhole ==
    /\ UNION {SentBy(message, i) : i \in Instances} = Points(message)
    /\ \A i \in Instances : \A p \in SentBy(message, i) : ShardOf[p.key.metric] = i

\* A point that was taken is at the server or in the cache, whatever fails.
PointsAccounted == 1 .. points \subseteq received \cup ToSet(cache)

\* After a turn of the manager's loop in which all workers could be started, every
\* instance has one worker, whichever of them died or failed to start before.
EveryShardServed ==
    [][Loop /\ faults' = faults => \A i \in Instances : processes'[i] = 1]_vars
=============================================================================
