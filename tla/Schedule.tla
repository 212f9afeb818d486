------------------------------- MODULE Schedule -------------------------------
(***************************************************************************)
(* One process of the distributed scheduler: its configuration, the heap   *)
(* of tests that are due, and the loop that takes them in turn             *)
(* (lib/ptolemy/scheduler/scheduler.py and process_task of                 *)
(* scheduler/managers.py).                                                 *)
(*                                                                         *)
(* The heap is a bag of entries.  An entry carries the time that is left   *)
(* until it is due, which Tick counts down: below zero when the process    *)
(* lags behind.  Sleeping until the earliest entry is due is nothing but   *)
(* the passing of that time.  The configuration files can be edited at any *)
(* time and are read again on a reload, which is a signal and interrupts   *)
(* the sleep.                                                              *)
(***************************************************************************)
EXTENDS Integers, Bags

CONSTANTS
    Items,          \* the tests: <node>:<spec>
    None,           \* a test that is not configured
    Periods,        \* the periods a test can be given; zero switches it off
    Delays,         \* Delays[p]: what `p +- dt' can give, for p other than 0
    Factor,         \* the first delay is uniform in 0 .. Factor * delay
    MaxLate,        \* bound: how far the process may lag behind
    MaxEntries      \* bound: the size of the heap at which reloads stop

VARIABLES
    file,           \* the configuration in the files
    nodes,          \* the configuration loaded
    heap,           \* the schedule
    pc,             \* "starting", "loop" or "stopped"
    promise,        \* how long each test should not be polled (history)
    returned        \* tests that were configured again while an entry of theirs was
                    \* still waiting (history)

vars == <<file, nodes, heap, pc, promise, returned>>

Configuration == [Items -> Periods \cup {None}]

ASSUME ScheduleAssumption ==
    /\ Periods \subseteq Nat /\ None \notin Periods
    /\ Delays \in [Periods \ {0} -> SUBSET (Nat \ {0})]
    /\ \A p \in DOMAIN Delays : Delays[p] # {}
    /\ Factor \in Nat \ {0} /\ MaxLate \in Nat /\ MaxEntries \in Nat

-----------------------------------------------------------------------------
(* The parser *)

\* The tests `add' puts on the heap: it refuses an unknown node, a spec the
\* node does not have, and a period of zero.
Scheduled(conf) == {i \in Items : conf[i] \notin {None, 0}}

Entry(i, due) == [item |-> i, due |-> due]

\* One entry for every test in the domain of `due'.
Entries(due) == SetToBag({Entry(i, due[i]) : i \in DOMAIN due})

FirstDelays(p) == UNION {0 .. Factor * d : d \in Delays[p]}

\* The delays that D allows for the tests of S: a function for each choice.
Choices(S, D) == {due \in [S -> UNION {D[i] : i \in S}] : \A i \in S : due[i] \in D[i]}

\* Mutated: the heap is ordered the wrong way round.
Latest(e) ==
    /\ BagIn(e, heap)
    /\ \A f \in BagToSet(heap) : e.due >= f.due

\* An entry that heapq may pop.
Earliest(e) ==
    /\ BagIn(e, heap)
    /\ \A f \in BagToSet(heap) : e.due <= f.due

Waiting == {e.item : e \in BagToSet(heap)}

-----------------------------------------------------------------------------
(* The process *)

\* process_task begins: init_schedule.
Start ==
    /\ pc = "starting"
    /\ \E due \in Choices(Scheduled(nodes),
                          [i \in Scheduled(nodes) |-> FirstDelays(nodes[i])]) :
        heap' = heap (+) Entries(due)
    /\ pc' = "loop"
    /\ UNCHANGED <<file, nodes, promise, returned>>

\* Mutated: the test is pushed back with a first delay.
PopAndSpread(i) ==
    \E e \in BagToSet(heap) :
        /\ e.item = i /\ Earliest(e) /\ e.due <= 0
        /\ IF i \in Scheduled(nodes)
           THEN \E d \in FirstDelays(nodes[i]) :
                    heap' = (heap (-) SetToBag({e})) (+) SetToBag({Entry(i, d)})
           ELSE heap' = heap (-) SetToBag({e})

\* Mutated: the test is pushed back whether it is still scheduled or not.
PopAndKeep(i) ==
    \E e \in BagToSet(heap), d \in UNION {Delays[p] : p \in DOMAIN Delays} :
        /\ e.item = i /\ Earliest(e) /\ e.due <= 0
        /\ heap' = (heap (-) SetToBag({e})) (+) SetToBag({Entry(i, d)})

\* next(): pop an entry that is due and push the test back with a new delay,
\* unless it is no longer scheduled.
PopAndReadd(i) ==
    \E e \in BagToSet(heap) :
        /\ e.item = i /\ Earliest(e) /\ e.due <= 0
        /\ IF i \in Scheduled(nodes)
           THEN \E d \in Delays[nodes[i]] :
                    heap' = (heap (-) SetToBag({e})) (+) SetToBag({Entry(i, d)})
           ELSE heap' = heap (-) SetToBag({e})

ShortestDelay(i) ==
    IF i \in Scheduled(nodes)
    THEN CHOOSE d \in Delays[nodes[i]] : \A x \in Delays[nodes[i]] : d <= x
    ELSE 0

\* The loop finds that test i is due and takes its turn: a poll request is
\* published, if the ring gives the test to this scheduler.
Poll(i) ==
    /\ pc = "loop"
    /\ PopAndReadd(i)
    /\ promise' = [promise EXCEPT ![i] = ShortestDelay(i)]
    /\ UNCHANGED <<file, nodes, pc, returned>>

\* The queue refuses the request: the exception ends the loop.
PublishFails(i) ==
    /\ pc = "loop"
    /\ PopAndReadd(i)
    /\ pc' = "stopped"
    /\ UNCHANGED <<file, nodes, promise, returned>>

\* `empty schedule' ends the loop.
EmptySchedule ==
    /\ pc = "loop" /\ heap = EmptyBag
    /\ pc' = "stopped"
    /\ UNCHANGED <<file, nodes, heap, promise, returned>>

\* Mutated: what is configured is looked up after the files are loaded.
NewAfterLoad == {i \in Scheduled(file) : file[i] = None}

\* Mutated: everything counts as new.
NewAll == Scheduled(file)

\* What a reload has to add: what was not configured before.  Whether it has
\* an entry in the heap is not looked at.
New == {i \in Scheduled(file) : nodes[i] = None}

\* load(): the files replace the configuration.
Loaded == file

\* reload(): reset_schedule.
Reload ==
    /\ pc = "loop" /\ BagCardinality(heap) < MaxEntries
    /\ nodes' = Loaded
    /\ \E due \in Choices(New, [i \in New |-> Delays[file[i]]]) :
        heap' = heap (+) Entries(due)
    /\ returned' = returned \cup {i \in Waiting : nodes[i] = None /\ file[i] # None}
    /\ UNCHANGED <<file, pc, promise>>

\* A file cannot be read: load() raises in the middle of the loop.
ReloadFails ==
    /\ pc = "loop"
    /\ pc' = "stopped"
    /\ UNCHANGED <<file, nodes, heap, promise, returned>>

\* A new process reads the files and has an empty heap.
Restart ==
    /\ pc = "stopped"
    /\ nodes' = Loaded /\ heap' = EmptyBag /\ pc' = "starting"
    /\ promise' = [i \in Items |-> 0] /\ returned' = {}
    /\ UNCHANGED file

-----------------------------------------------------------------------------
(* What surrounds it *)

\* Somebody edits a configuration file.
Edit(i) ==
    /\ \E p \in Periods \cup {None} : file' = [file EXCEPT ![i] = p]
    /\ UNCHANGED <<nodes, heap, pc, promise, returned>>

\* A unit of time passes.
Tick ==
    /\ pc = "loop"
    /\ \A e \in BagToSet(heap) : e.due > -MaxLate
    /\ heap' = [e \in {Entry(f.item, f.due - 1) : f \in DOMAIN heap} |->
                    heap[Entry(e.item, e.due + 1)]]
    /\ promise' = [i \in Items |-> IF promise[i] > 0 THEN promise[i] - 1 ELSE 0]
    /\ UNCHANGED <<file, nodes, pc, returned>>

-----------------------------------------------------------------------------
Init ==
    /\ file \in Configuration /\ nodes = file
    /\ heap = EmptyBag /\ pc = "starting"
    /\ promise = [i \in Items |-> 0] /\ returned = {}

Loop == (\E i \in Items : Poll(i)) \/ EmptySchedule

Next ==
    \/ Start \/ Loop \/ Reload \/ ReloadFails \/ Restart \/ Tick
    \/ \E i \in Items : PublishFails(i) \/ Edit(i)

Spec == Init /\ [][Next]_vars

\* The process runs and time passes.  Nobody has to edit, reload or restart.
Fairness == WF_vars(Start) /\ WF_vars(Loop) /\ WF_vars(Tick)

FairSpec == Spec /\ Fairness

-----------------------------------------------------------------------------
(* Properties *)

TypeOK ==
    /\ file \in Configuration /\ nodes \in Configuration
    /\ IsABag(heap) /\ DOMAIN heap \subseteq [item : Items, due : Int]
    /\ pc \in {"starting", "loop", "stopped"}
    /\ promise \in [Items -> Nat]
    /\ returned \subseteq Items

\* Every test the process believes it schedules has an entry in the heap:
\* whatever is edited and reloaded, nothing that is configured is forgotten.
NothingForgotten == pc = "loop" => Scheduled(nodes) \subseteq Waiting

\* A test has at most one entry in the heap, unless it was removed and came
\* back before its old entry expired: `removed items will just expire at next
\* iteration'.
OneEntryEach ==
    \A e, f \in DOMAIN heap :
        e.item = f.item /\ e.item \notin returned => e = f /\ heap[e] = 1

\* A test is not polled before its period is over, however the files are
\* edited and reloaded, unless it came back before its old entry expired.
NoneEarly == \A i \in Items \ returned : Poll(i) => promise[i] = 0

PeriodKept == [][NoneEarly]_vars

\* A test that stays configured is polled again and again while the process
\* lives.
KeepsPolling ==
    \A i \in Items :
        <>[](pc = "loop" /\ i \in Scheduled(nodes)) => []<><<Poll(i)>>_vars

\* What is no longer configured disappears from the heap.
RemovedExpires ==
    \A i \in Items :
        <>[](pc = "loop" /\ i \notin Scheduled(nodes)) => <>[](i \notin Waiting)

===============================================================================
