----------------------------- MODULE SubnetScan -----------------------------
(***************************************************************************)
(* The subnet scanner (lib/ptolemy/watcher).  A supervisor listens to the  *)
(* subnets the pollers report and puts those it is to watch on its         *)
(* schedule; the schedule has every subnet scanned about once a minute; a  *)
(* scanner pings all addresses of the subnet and publishes a summary.      *)
(*                                                                         *)
(* The schedule itself is the heap of module Schedule; here only how often *)
(* a subnet is on it counts.                                               *)
(***************************************************************************)
EXTENDS Integers, Sequences, FiniteSets, SequencesExt

CONSTANTS
    Subnets,
    Reports,        \* report -> the subnets of its rows, in their order
    Local,          \* the subnets whose rows say 'local'
    HostBits,       \* those whose prefix has host bits set (ValueError)
    Within,         \* subnet -> the configured networks it is in, with a length in range
    Prefetch,       \* prefetch_count
    Lost,           \* '-' in the output of fping
    Rtts,           \* the round trip times that are told apart
    Addresses,      \* the number of addresses of a subnet
    MaxQueue,       \* bound: reports that wait
    MaxRequests,    \* bound: requests for a scan that wait
    MaxAge,         \* 60 seconds, in ticks
    MaxRestarts     \* bound: restarts of the supervisor

ScanAssumption ==
    /\ Reports \in Seq(Seq(Subnets)) /\ Local \subseteq Subnets /\ HostBits \subseteq Subnets
    /\ Prefetch \in Nat \ {0} /\ Rtts \subseteq Nat /\ Lost \notin Nat
    /\ Addresses \in Nat \ {0} /\ {MaxQueue, MaxRequests, MaxAge, MaxRestarts} \subseteq Nat

VARIABLES
    queue,      \* the supervisor's work queue: reports
    nodes,      \* parser.nodes
    heap,       \* subnet -> how many tests of it are on the schedule
    requests,   \* requests for a scan: [subnet, age]
    published,  \* the subnets a summary of which was published
    restarts

vars == <<queue, nodes, heap, requests, published, restarts>>

-----------------------------------------------------------------------------
(* The supervisor *)

\* A subnet to put on the schedule.
IsNew(s) == s \in Local \ (nodes \cup HostBits) /\ Within[s] # {}

\* Mutated: prefixes with host bits are not let pass.
ValueErrorRaised(report) ==
    IF \E i \in DOMAIN report : report[i] \in HostBits THEN {}
    ELSE {i \in DOMAIN report : IsNew(report[i])}

\* The rows of a report with a subnet for the schedule.
NewRows(report) == {i \in DOMAIN report : IsNew(report[i])}

\* parser.add, and return.
Added(s) == [heap EXCEPT ![s] = @ + 1]

\* process_work_queue: goes through the reports that wait until it finds a new
\* subnet, and returns: what else is in that report is dropped.  Of the others
\* that were prefetched (up to the k-th), the queue may take some back.
ProcessWorkQueue ==
    LET n == IF Len(queue) < Prefetch THEN Len(queue) ELSE Prefetch
        fresh == {j \in 1 .. n : NewRows(queue[j]) # {}}
        first(S) == CHOOSE i \in S : \A j \in S : i <= j
    IN  /\ n > 0
        /\ \/ /\ fresh = {}
              /\ queue' = SubSeq(queue, n + 1, Len(queue))
              /\ UNCHANGED <<nodes, heap>>
           \/ /\ fresh # {}
              /\ LET j == first(fresh)
                     s == queue[j][first(NewRows(queue[j]))]
                 IN  /\ nodes' = nodes \cup {s}
                     /\ heap' = Added(s)
                     /\ \E k \in j .. n : queue' = SubSeq(queue, k + 1, Len(queue))
        /\ UNCHANGED <<requests, published, restarts>>

\* A poller reports the subnets of a router.
Report(r) ==
    /\ Len(queue) < MaxQueue
    /\ queue' = Append(queue, Reports[r])
    /\ UNCHANGED <<nodes, heap, requests, published, restarts>>

\* The test of a subnet is due: a request, with the prefix as message_context
\* takes it from the name of the node.
Publish(s) ==
    /\ heap[s] > 0 /\ Len(requests) < MaxRequests
    /\ requests' = Append(requests, [subnet |-> s, age |-> 0])
    /\ UNCHANGED <<queue, nodes, heap, published, restarts>>

\* The supervisor is started anew: it knows nothing.
Restart ==
    /\ restarts < MaxRestarts /\ restarts' = restarts + 1
    /\ nodes' = {} /\ heap' = [s \in Subnets |-> 0]
    /\ UNCHANGED <<queue, requests, published>>

-----------------------------------------------------------------------------
(* The scanner.  The last two of the three pings an address gets count. *)

Answers == [1 .. Addresses -> (Rtts \cup {Lost}) \X (Rtts \cup {Lost})]

\* FPing.parse: a row per address; but a row without an ipdv (one of the answers
\* is missing) is given up, by the exception that deleting from a dictionary that
\* is gone through raises.
Parsed(answers) ==
    SelectSeq([i \in 1 .. Addresses |-> [addr |-> i, r |-> answers[i]]],
              LAMBDA row : Lost \notin {row.r[1], row.r[2]})

\* The first and the last row are ignored, if there are more than two.
Considered(rows) == IF Len(rows) > 2 THEN SubSeq(rows, 2, Len(rows) - 1) ELSE rows

\* One row is most likely that of the gateway: it is counted, but not analysed.
Analysed(rows) == 1 < Len(rows)

\* SubnetScanner.do.  All rows left have a loss of 0; ipdv is twice the median.
Summary(answers) ==
    LET rows == Considered(Parsed(answers))
        n == Len(rows)
        rtts == UNION {{rows[i].r[1], rows[i].r[2]} : i \in 1 .. n}
        sorted == SortSeq([i \in 1 .. n |-> rows[i].r[2] - rows[i].r[1]], <)
    IN  [count |-> n,
         loss  |-> IF n = 0 THEN 1 ELSE 0,
         rtt   |-> IF Analysed(rows) THEN {x \in rtts : \A y \in rtts : x <= y} ELSE {},
         ipdv  |-> IF Analysed(rows) THEN {sorted[(n + 1) \div 2] + sorted[n \div 2 + 1]} ELSE {}]

\* Scanner.process_task: a request, unless it is too old.
Scan ==
    /\ requests # <<>>
    /\ requests' = Tail(requests)
    /\ published' = published \cup
         (IF Head(requests).age > MaxAge THEN {} ELSE {Head(requests).subnet})
    /\ UNCHANGED <<queue, nodes, heap, restarts>>

Tick ==
    /\ \E i \in DOMAIN requests : requests[i].age <= MaxAge
    /\ requests' = [i \in DOMAIN requests |->
                     [requests[i] EXCEPT !.age = IF @ <= MaxAge THEN @ + 1 ELSE @]]
    /\ UNCHANGED <<queue, nodes, heap, published, restarts>>

Init ==
    /\ queue = <<>> /\ nodes = {} /\ heap = [s \in Subnets |-> 0]
    /\ requests = <<>> /\ published = {} /\ restarts = 0

Next ==
    \/ ProcessWorkQueue \/ Restart \/ Scan \/ Tick
    \/ \E r \in DOMAIN Reports : Report(r)
    \/ \E s \in Subnets : Publish(s)

\* Routers are polled again and again, and the supervisor looks at its queue
\* between two tests, as long as the schedule keeps up.
Fairness ==
    /\ WF_vars(ProcessWorkQueue)
    /\ \A r \in DOMAIN Reports : SF_vars(Report(r))

Spec == Init /\ [][Next]_vars
FairSpec == Spec /\ Fairness

-----------------------------------------------------------------------------
(* Properties *)

\* A subnet the supervisor knows has one test on the schedule, and a subnet it
\* does not know has none, however often and by however many routers it is
\* reported, and whatever networks it is in.
ScheduledOnce == \A s \in Subnets : heap[s] = IF s \in nodes THEN 1 ELSE 0

\* Every subnet that is to be watched is on the schedule in the end, although a
\* call of process_work_queue takes one subnet and drops the rest of the report.
AllWatched ==
    <>[](\A s \in Subnets :
            (Within[s] # {} /\ s \in Local \ HostBits /\ \E r \in DOMAIN Reports : s \in ToSet(Reports[r]))
               => heap[s] = 1)

\* The summary of a subnet whose hosts answered thus: the minimum of the times
\* is published when more than one host counts, and only then; no host whose
\* answers count was faster.
TimeOfTheFastest(answers) ==
    LET rows == Considered(Parsed(answers))
        sum == Summary(answers)
    IN  /\ (sum.rtt # {}) <=> (sum.count > 1)
        /\ \A t \in sum.rtt, i \in DOMAIN rows : t <= rows[i].r[1] /\ t <= rows[i].r[2]

=============================================================================
