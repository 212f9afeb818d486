----------------------------- MODULE ScheduleRing -----------------------------
(***************************************************************************)
(* How the schedulers divide the tests among themselves                    *)
(* (DistributedScheduleManager of lib/ptolemy/scheduler/managers.py).      *)
(*                                                                         *)
(* Every scheduler runs the whole schedule and publishes only the tests    *)
(* that its own consistent hash ring gives to its own host.  Every         *)
(* update period it fetches one record from memcached, the time each host  *)
(* was last heard of, puts its own time in, brings its ring up to date and *)
(* stores the record: two calls, between which others can store theirs.    *)
(*                                                                         *)
(* Times are kept as ages, which Tick advances.                            *)
(***************************************************************************)
EXTENDS Integers

CONSTANTS
    Hosts,
    Items,          \* the tests
    None,           \* a record memcached does not have
    Rank,           \* Rank[i]: the order in which the hash ring offers test i
                    \* to the hosts
    UpdatePeriod,   \* period of update_ring
    DeadTime,       \* dead_time
    Forgetful       \* whether memcached may lose the record

VARIABLES
    pc,             \* each host: "down", "idle" or "storing"
    age,            \* the time since each host's last_update_time
    ring,           \* each host's ring
    copy,           \* the record each host has fetched
    states,         \* the record in memcached
    silent          \* the time since each host last stored (history)

vars == <<pc, age, ring, copy, states, silent>>

\* An age beyond the dead time is not told apart from a greater one.
Age == 0 .. DeadTime + 1
Record == UNION {[H -> Age] : H \in SUBSET Hosts}
NoEntries == [h \in {} |-> 0]

ASSUME RingAssumption ==
    /\ None \notin Record
    /\ Rank \in [Items -> [Hosts -> Nat]]
    /\ \A i \in Items : \A g, h \in Hosts : Rank[i][g] = Rank[i][h] => g = h
    /\ UpdatePeriod \in Nat /\ DeadTime \in Nat /\ Forgetful \in BOOLEAN

Running(h) == pc[h] # "down"

-----------------------------------------------------------------------------
(* The hash ring, a library *)

\* get_node: adding or removing a host moves only the tests of that host.
Owner(R, i) == CHOOSE h \in R : \A g \in R : Rank[i][h] <= Rank[i][g]

\* Host h publishes test i when its turn comes.
Serves(h, i) == Running(h) /\ ring[h] # {} /\ Owner(ring[h], i) = h

Served(i) == \E h \in Hosts : Serves(h, i)

-----------------------------------------------------------------------------
(* update_ring *)

\* `if states == None: states = {}'
Fetched == IF states = None THEN NoEntries ELSE states

\* Ask memcached: the first half of update_ring.
Asked(h) ==
    /\ copy' = [copy EXCEPT ![h] = Fetched]
    /\ age' = [age EXCEPT ![h] = 0]
    /\ pc' = [pc EXCEPT ![h] = "storing"]
    /\ UNCHANGED <<ring, states, silent>>

\* A process starts, with an update.
Start(h) == pc[h] = "down" /\ Asked(h)

\* The update period is over.
Fetch(h) == pc[h] = "idle" /\ age[h] >= UpdatePeriod /\ Asked(h)

\* The record a host stores: `states[self.host_id] = t'.
Stamped(h) ==
    [g \in DOMAIN copy[h] \cup {h} |-> IF g = h THEN 0 ELSE copy[h][g]]

\* Mutated: everybody in the record is in the ring.
RingOfAll(h) == ring[h] \cup DOMAIN copy[h] \cup {h}

\* Mutated: a host is added while it is young and never removed.
RingOfYoung(h) == ring[h] \cup {g \in DOMAIN Stamped(h) : Stamped(h)[g] <= DeadTime}

\* Mutated: the ring is built before the host puts its own time in.
RingOfOthers(h) ==
    {g \in Hosts :
        IF g \in DOMAIN copy[h] THEN copy[h][g] <= DeadTime ELSE g \in ring[h]}

\* Hosts heard of within the dead time are in the ring and the others are
\* not.  Hosts that have no entry stay as they are.
RingOf(h) ==
    {g \in Hosts :
        IF g \in DOMAIN Stamped(h) THEN Stamped(h)[g] <= DeadTime
        ELSE g \in ring[h]}

Store(h) ==
    /\ pc[h] = "storing"
    /\ ring' = [ring EXCEPT ![h] = RingOf(h)]
    /\ states' = Stamped(h)
    /\ silent' = [silent EXCEPT ![h] = 0]
    /\ copy' = [copy EXCEPT ![h] = NoEntries]
    /\ pc' = [pc EXCEPT ![h] = "idle"]
    /\ UNCHANGED age

-----------------------------------------------------------------------------
(* What surrounds it *)

\* The process ends, wherever it is.
Crash(h) ==
    /\ Running(h)
    /\ pc' = [pc EXCEPT ![h] = "down"]
    /\ age' = [age EXCEPT ![h] = 0]
    /\ ring' = [ring EXCEPT ![h] = {}]
    /\ copy' = [copy EXCEPT ![h] = NoEntries]
    /\ UNCHANGED <<states, silent>>

\* memcached is restarted, evicts the record or cannot be reached.
LoseStates ==
    /\ Forgetful /\ states # None
    /\ states' = None
    /\ UNCHANGED <<pc, age, ring, copy, silent>>

Older(n) == IF n > DeadTime THEN n ELSE n + 1
Aged(r) == [h \in DOMAIN r |-> Older(r[h])]

Tick ==
    /\ age' = [h \in Hosts |->
                IF pc[h] = "idle" /\ age[h] < UpdatePeriod THEN age[h] + 1 ELSE age[h]]
    /\ copy' = [h \in Hosts |-> Aged(copy[h])]
    /\ states' = IF states = None THEN None ELSE Aged(states)
    /\ silent' = Aged(silent)
    /\ UNCHANGED <<pc, ring>>

-----------------------------------------------------------------------------
Init ==
    /\ pc = [h \in Hosts |-> "down"]
    /\ age = [h \in Hosts |-> 0]
    /\ ring = [h \in Hosts |-> {}]
    /\ copy = [h \in Hosts |-> NoEntries]
    /\ states = None
    /\ silent = [h \in Hosts |-> DeadTime + 1]

Next ==
    \/ \E h \in Hosts : Fetch(h) \/ Store(h) \/ Start(h) \/ Crash(h)
    \/ LoseStates
    \/ Tick

Spec == Init /\ [][Next]_vars

\* A running scheduler goes on updating its ring, at its own pace, and time
\* passes.  Nobody has to start.
Fairness ==
    /\ WF_vars(Tick)
    /\ \A h \in Hosts : WF_vars(Fetch(h)) /\ WF_vars(Store(h))

FairSpec == Spec /\ Fairness

-----------------------------------------------------------------------------
(* Properties *)

TypeOK ==
    /\ pc \in [Hosts -> {"down", "idle", "storing"}]
    /\ age \in [Hosts -> 0 .. UpdatePeriod]
    /\ ring \in [Hosts -> SUBSET Hosts]
    /\ copy \in [Hosts -> Record]
    /\ states \in Record \cup {None}
    /\ silent \in [Hosts -> Age]

\* As long as no ring holds a host that is down, every test is published by
\* somebody, however much the rings disagree: all hosts use the same hash.
NoneNeglected ==
    LET ready == {h \in Hosts : ring[h] # {}} IN
    ready # {} /\ (\A h \in ready : ring[h] \subseteq ready)
        => \A i \in Items : Served(i)

\* A host is taken into a ring only if it has been heard of within the dead
\* time, whatever old copies of the record are stored over newer ones.
NewcomersAlive ==
    [][\A g, h \in Hosts :
        g \in ring'[h] \ ring[h] => silent'[g] <= DeadTime]_vars

\* A host that is down for good leaves the rings.
DeadLeave ==
    \A g \in Hosts : <>[](~Running(g)) => <>[](\A h \in Hosts : g \notin ring[h])

\* Once the hosts stop coming and going, and one is left, every test is
\* published by somebody: `do not delete from state: others won't know about
\* and so won't remove from ring'.
Covered ==
    \A H \in SUBSET Hosts \ {{}} :
        <>[]({h \in Hosts : Running(h)} = H) => <>[](\A i \in Items : Served(i))

===============================================================================
