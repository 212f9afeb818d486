------------------------------ MODULE Capacity ------------------------------
(***************************************************************************)
(* How full the ports are (lib/ptolemy/analyse/capacity.py).               *)
(*                                                                         *)
(* Workers take the reports of the ports' counters, of their speeds and of *)
(* their neighbours from one queue.  In redis they keep, for each port,    *)
(* its counters (a sorted set: the member is the counter, the score the    *)
(* time), its speed and whether it has a neighbour; and the scoreboards,   *)
(* one for each range: the average use of a port over so many minutes.     *)
(*                                                                         *)
(* One direction is modelled, the other has keys of its own.  The          *)
(* scoreboard of a device is the part of the one of all ports that is its  *)
(* own: the same transaction writes both.                                  *)
(***************************************************************************)
EXTENDS Integers, Sequences, FiniteSets, FiniteSetsExt, Functions

CONSTANTS
    Workers, Ports,
    Ranges,         \* in minutes
    Minute,         \* the length of a minute; every poll is at a multiple of it
    Older,          \* remove_older_than, in units of time
    Speeds,         \* what the speed of a port may be
    Steps,          \* what may be counted between two polls
    Width,          \* of a counter
    Unit,           \* a use of 1 is so many
    LowPass,        \* a use that is alerted about, of Unit
    None,
    MaxReports,     \* bound: reports
    MaxQueue,       \* bound: reports that wait
    MaxClock        \* bound: the time

CapacityAssumption ==
    /\ Ranges \subseteq Nat /\ Speeds \subseteq Nat /\ Steps \subseteq Nat
    /\ \E longest \in Ranges : \A r \in Ranges : r <= longest
    /\ {Minute, Older, Width, Unit, LowPass, MaxReports, MaxQueue, MaxClock} \subseteq Nat
    /\ Width > 0 /\ Older >= Minute

VARIABLES
    clock,
    counter,        \* the ports' counters
    queue,          \* the reports: [spec, time, port, value]
    samples,        \* in redis: port -> (counter -> when it was read)
    cap, peer,      \* in redis: the speed, and whether there is a neighbour
    boards,         \* in redis: "all" or "uplinks" -> range -> port -> use
    work,           \* worker -> [pc, port, now, cap, use, peer]
    alerts,         \* the ports alerts were sent about
    told,           \* port -> the reports of its counter: [time, count] (history)
    crossed         \* the ports two workers had reports of at the same time (history)

redis == <<samples, cap, peer, boards>>
vars == <<clock, counter, queue, redis, work, alerts, told, crossed>>

Idle == [pc |-> "idle", port |-> None, now |-> None, cap |-> None,
         use |-> [r \in Ranges |-> None], peer |-> FALSE]
Quiet == queue = <<>> /\ \A w \in Workers : work[w].pc = "idle"

-----------------------------------------------------------------------------

Tick == clock < MaxClock /\ clock' = clock + 1
        /\ UNCHANGED <<counter, queue, redis, work, alerts, told, crossed>>

\* What the poller sends.
PortStats(p) ==
    /\ Len(queue) < MaxQueue /\ Cardinality(told[p]) < MaxReports /\ clock % Minute = 0
    /\ \A r \in told[p] : r.time # clock
    /\ \E n \in Steps :
          LET c == (counter[p] + n) % Width
          IN  /\ counter' = [counter EXCEPT ![p] = c]
              /\ told' = [told EXCEPT ![p] = @ \cup {[time |-> clock, count |-> c]}]
              /\ queue' = Append(queue, [spec |-> "port_stats", time |-> clock, port |-> p,
                                         value |-> c])
    /\ UNCHANGED <<clock, redis, work, alerts, crossed>>

PortMeta(p) ==
    /\ Len(queue) < MaxQueue
    /\ \E spec \in {"ports", "layer1_peer"}, s \in Speeds :
          /\ IF spec = "ports" THEN cap[p] = None ELSE ~peer[p]
          /\ \A i \in DOMAIN queue : queue[i].spec # spec \/ queue[i].port # p
          /\ queue' = Append(queue, [spec |-> spec, time |-> clock, port |-> p, value |-> s])
    /\ UNCHANGED <<clock, counter, redis, work, alerts, told, crossed>>

-----------------------------------------------------------------------------
(* What is read off the samples *)

\* rate: nothing without a speed, or between a sample and itself.
Rate(latest, oldest, capacity) ==
    IF oldest = None \/ capacity = 0 \/ latest.time = oldest.time THEN None
    ELSE (8 * (latest.count - oldest.count) * Unit) \div (capacity * (latest.time - oldest.time))

\* analyse: a sample that will do for a range.
InWindow(x, now, r) ==
    x.time < now - r * Minute /\ x.time > now - r * Minute - Minute

\* analyse: the samples are gone through from the latest on.
Latest(S) ==
    CHOOSE x \in S : \A y \in S : y.time < x.time \/ (y.time = x.time /\ y.count <= x.count)

Analyse(sample, now, capacity) ==
    LET data == {[time |-> sample[c], count |-> c] : c \in DOMAIN sample}
        at(r) == LET fit == {x \in data : InWindow(x, now, r)}
                 IN  IF fit = {} THEN None ELSE Latest(fit)
    IN  [r \in Ranges |-> IF data = {} THEN None ELSE Rate(Latest(data), at(r), capacity)]

-----------------------------------------------------------------------------
(* A report *)

\* pre_bulk_process, save, and the first pipe.execute of post_bulk_process.  Only
\* the counters lead to more.
Take(w) ==
    LET m == Head(queue) IN
    /\ work[w].pc = "idle" /\ queue # <<>> /\ queue' = Tail(queue)
    /\ \/ /\ m.spec = "port_stats"
          /\ samples' = [samples EXCEPT ![m.port] =
                [c \in DOMAIN @ \cup {m.value} |-> IF c = m.value THEN m.time ELSE @[c]]]
          /\ work' = [work EXCEPT ![w] = [Idle EXCEPT !.pc = "capacity", !.port = m.port,
                                                      !.now = clock]]
          /\ crossed' = IF \E x \in Workers : work[x].port = m.port THEN crossed \cup {m.port}
                        ELSE crossed
          /\ UNCHANGED <<cap, peer>>
       \/ /\ m.spec = "ports" /\ cap' = [cap EXCEPT ![m.port] = m.value]
          /\ UNCHANGED <<samples, peer, work, crossed>>
       \/ /\ m.spec = "layer1_peer" /\ peer' = [peer EXCEPT ![m.port] = TRUE]
          /\ UNCHANGED <<samples, cap, work, crossed>>
    /\ UNCHANGED <<clock, counter, boards, alerts, told>>

GetCapacities(w) ==
    /\ work[w].pc = "capacity"
    /\ work' = [work EXCEPT ![w].pc = "utilisation", ![w].cap = cap[work[w].port]]
    /\ UNCHANGED <<clock, counter, queue, redis, alerts, told, crossed>>

\* A port whose speed is not known has no scores.
GetUtilisations(w) ==
    /\ work[w].pc = "utilisation"
    /\ work' = [work EXCEPT ![w].pc = "peers", ![w].use =
          IF work[w].cap = None THEN @
          ELSE Analyse(samples[work[w].port], work[w].now, work[w].cap)]
    /\ UNCHANGED <<clock, counter, queue, redis, alerts, told, crossed>>

GetLayer1Peers(w) ==
    /\ work[w].pc = "peers"
    /\ work' = [work EXCEPT ![w].pc = "rank", ![w].peer = peer[work[w].port]]
    /\ UNCHANGED <<clock, counter, queue, redis, alerts, told, crossed>>

\* Mutated: the uplinks have no part in the other scoreboard.
RankedOnce(w, b) == work[w].peer <=> b = "uplinks"

\* rank_utilisations: whether the port has a place on a scoreboard.
RankedOn(w, b) == b = "all" \/ work[w].peer

\* rank_utilisations, its first pipe.execute.  What is not known leaves the
\* scoreboard as it was.
Rank(w) ==
    LET p == work[w].port IN
    /\ work[w].pc = "rank"
    /\ boards' = [b \in DOMAIN boards |-> [r \in Ranges |->
          IF work[w].use[r] = None \/ ~RankedOn(w, b) THEN boards[b][r]
          ELSE [boards[b][r] EXCEPT ![p] = work[w].use[r]]]]
    /\ work' = [work EXCEPT ![w].pc = "trim"]
    /\ UNCHANGED <<clock, counter, queue, samples, cap, peer, alerts, told, crossed>>

\* rank_utilisations: what is removed.
Before(now) == now - Max(Ranges) * Minute - Older

\* The second pipe.execute, and process_alert.
Trim(w) ==
    LET p == work[w].port IN
    /\ work[w].pc = "trim"
    /\ samples' = [samples EXCEPT ![p] =
          Restrict(@, {c \in DOMAIN @ : @[c] > Before(work[w].now)})]
    /\ alerts' = alerts \cup (IF \E r \in Ranges : work[w].use[r] # None /\ work[w].use[r] > LowPass
                              THEN {p} ELSE {})
    /\ work' = [work EXCEPT ![w] = Idle]
    /\ UNCHANGED <<clock, counter, queue, cap, peer, boards, told, crossed>>

-----------------------------------------------------------------------------

Init ==
    /\ clock = 0 /\ queue = <<>> /\ alerts = {} /\ crossed = {}
    /\ counter = [p \in Ports |-> 0] /\ told = [p \in Ports |-> {}]
    /\ samples = [p \in Ports |-> <<>>]
    /\ cap = [p \in Ports |-> None] /\ peer = [p \in Ports |-> FALSE]
    /\ boards = [b \in {"all", "uplinks"} |-> [r \in Ranges |-> [p \in Ports |-> None]]]
    /\ work = [w \in Workers |-> Idle]

Next ==
    \/ Tick
    \/ \E p \in Ports : PortStats(p) \/ PortMeta(p)
    \/ \E w \in Workers :
          Take(w) \/ GetCapacities(w) \/ GetUtilisations(w) \/ GetLayer1Peers(w) \/ Rank(w) \/ Trim(w)

Spec == Init /\ [][Next]_vars

-----------------------------------------------------------------------------
(* Properties *)

\* Every place on a scoreboard is the average between two reports of the port, less
\* than a minute further apart than the range of the scoreboard unless another
\* worker's report came in between, at one of its speeds.
RanksAreReal ==
    \A r \in Ranges, p \in Ports : boards["all"][r][p] # None =>
        \E x, y \in told[p], s \in Speeds :
            /\ x.time > y.time /\ (x.time - y.time < (r + 1) * Minute \/ p \in crossed)
            /\ boards["all"][r][p] = (8 * (x.count - y.count) * Unit) \div (s * (x.time - y.time))

\* A port with a place among the uplinks has one among all, and a port whose place
\* says that it is too full has been alerted about.
RanksAgree ==
    \A r \in Ranges, p \in Ports :
        /\ boards["uplinks"][r][p] # None => boards["all"][r][p] # None
        /\ Quiet /\ boards["all"][r][p] # None /\ boards["all"][r][p] > LowPass => p \in alerts

\* No report that a range still needs is lost, unless the counter was the same
\* later: it is there until it is older than the longest range.
SamplesKept ==
    \A p \in Ports : \A x \in told[p] :
        \/ \E i \in DOMAIN queue : queue[i].port = p /\ queue[i].time = x.time
        \/ x.time + (Max(Ranges) + 1) * Minute <= clock
        \/ x.count \in DOMAIN samples[p]

=============================================================================
