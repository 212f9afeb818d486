------------------------------ MODULE HostWatch ------------------------------
(***************************************************************************)
(* The host watcher (lib/ptolemy/watcher/workers.py, redis_mixins.py).     *)
(* Workers take messages with hosts that were seen, note the time of each  *)
(* in a sorted set in redis, and report hosts that are new; after every    *)
(* message they look for hosts that were not seen for a while, report them *)
(* as gone and remove them from the set.                                   *)
(*                                                                         *)
(* What is said of hosts (mac addresses) holds for arps too: they have a   *)
(* set of their own, which is treated likewise.                            *)
(***************************************************************************)
EXTENDS Integers, FiniteSets

CONSTANTS
    Watchers,       \* the workers
    Hosts,
    ExpireAt,       \* expire_at
    None,
    MaxClock,       \* bound: the time
    MaxLate,        \* bound: how much older than the newest message one can be
    MaxReports      \* bound: how often a host is reported new, and gone

ASSUME WatchAssumption ==
    /\ ExpireAt \in Nat /\ MaxClock \in Nat /\ MaxLate \in Nat /\ MaxReports \in Nat
    /\ None \notin Int /\ IsFiniteSet(Watchers)

VARIABLES
    clock,
    score,          \* the sorted set: host -> time, None if it is not in the set
    stage,          \* per worker: "idle", "adding", "reading" or "removing"
    message,        \* per worker: [time, hosts]
    old,            \* per worker: what zrangebyscore returned
    newest,         \* the latest time of a message taken in (history)
    seen,           \* host -> the latest time it was seen (history)
    news, departures,  \* host -> how often it was reported new, gone (history)
    hasty           \* hosts reported gone although seen recently (history)

worker == <<stage, message, old>>
vars == <<clock, score, worker, newest, seen, news, departures, hasty>>

Nothing == [time |-> 0, hosts |-> {}]
Present == {h \in Hosts : score[h] # None}

\* process_task: a message.  Without hosts (post_bulk_process runs even for one
\* that pre_bulk_process turned down) it is only the time that counts.
Take(w) ==
    /\ stage[w] = "idle"
    /\ \E t \in 0 .. clock, hosts \in SUBSET Hosts :
          message' = [message EXCEPT ![w] = [time |-> t, hosts |-> hosts]]
    /\ stage' = [stage EXCEPT ![w] = "adding"]
    /\ UNCHANGED <<clock, score, old, newest, seen, news, departures, hasty>>

\* zadd sets the time, even if it was later before.
Score(h, t) == t

\* zadd returns 1 for what was not in the set.
New(hosts) == hosts \ Present

\* zstore_add: one transaction, whose answers tell the new hosts.
Add(w) ==
    LET t == message[w].time
        hosts == message[w].hosts
    IN  /\ stage[w] = "adding" /\ newest - t <= MaxLate
        /\ \A h \in New(hosts) : news[h] < MaxReports
        /\ score' = [h \in Hosts |-> IF h \in hosts THEN Score(h, t) ELSE score[h]]
        /\ news' = [h \in Hosts |-> news[h] + IF h \in New(hosts) THEN 1 ELSE 0]
        /\ seen' = [h \in Hosts |-> IF h \in hosts /\ seen[h] < t THEN t ELSE seen[h]]
        /\ newest' = IF t > newest THEN t ELSE newest
        /\ stage' = [stage EXCEPT ![w] = "reading"]
        /\ UNCHANGED <<clock, message, old, departures, hasty>>

Cut(w) == message[w].time - ExpireAt

\* zstore_expire: what was last seen at the time of the cut, or before.  The
\* hosts are reported as gone one by one.
Read(w) ==
    /\ stage[w] = "reading"
    /\ LET gone == {h \in Present : score[h] <= Cut(w)}
       IN  /\ \A h \in gone : departures[h] < MaxReports
           /\ old' = [old EXCEPT ![w] = gone]
           /\ departures' = [h \in Hosts |-> departures[h] + IF h \in gone THEN 1 ELSE 0]
           /\ hasty' = hasty \cup {h \in gone : seen[h] > message[w].time - ExpireAt + MaxLate}
    /\ stage' = [stage EXCEPT ![w] = "removing"]
    /\ UNCHANGED <<clock, score, message, newest, seen, news>>

\* Mutated: whatever is old by the time of the removal is removed
\* (zremrangebyscore instead of zrem).
RemovedByScore(w) == {h \in Present : score[h] <= clock - ExpireAt}

\* What zrem removes.
Removed(w) == old[w]

\* The removals are queued, and executed after the last report.  A host seen in
\* between is removed all the same.
Remove(w) ==
    /\ stage[w] = "removing"
    /\ score' = [h \in Hosts |-> IF h \in Removed(w) THEN None ELSE score[h]]
    /\ stage' = [stage EXCEPT ![w] = "idle"]
    /\ message' = [message EXCEPT ![w] = Nothing]
    /\ old' = [old EXCEPT ![w] = {}]
    /\ UNCHANGED <<clock, newest, seen, news, departures, hasty>>

\* The connection to redis is lost: the rest of the message is given up.
Broken(w) ==
    /\ stage[w] \in {"adding", "removing"}
    /\ stage' = [stage EXCEPT ![w] = "idle"]
    /\ message' = [message EXCEPT ![w] = Nothing]
    /\ old' = [old EXCEPT ![w] = {}]
    /\ UNCHANGED <<clock, score, newest, seen, news, departures, hasty>>

Tick ==
    /\ clock < MaxClock /\ clock' = clock + 1
    /\ UNCHANGED <<score, worker, newest, seen, news, departures, hasty>>

Init ==
    /\ clock = 0 /\ score = [h \in Hosts |-> None]
    /\ stage = [w \in Watchers |-> "idle"]
    /\ message = [w \in Watchers |-> Nothing] /\ old = [w \in Watchers |-> {}]
    /\ newest = 0 /\ seen = [h \in Hosts |-> 0]
    /\ news = [h \in Hosts |-> 0] /\ departures = [h \in Hosts |-> 0] /\ hasty = {}

Next ==
    \/ \E w \in Watchers : Take(w) \/ Add(w) \/ Read(w) \/ Remove(w) \/ Broken(w)
    \/ Tick

Spec == Init /\ [][Next]_vars

-----------------------------------------------------------------------------
(* Properties *)

\* A host is reported new again only after it was reported gone, and every host
\* that left the set was reported gone, however the workers interleave: the
\* reports of departures never fall behind.
DeparturesReported ==
    \A h \in Hosts : news[h] <= departures[h] + (IF h \in Present THEN 1 ELSE 0)

\* A host is reported gone only if it was not seen for ExpireAt: messages that
\* come out of order, or race, cost no more than the time they are late.
NotHasty == hasty = {}

\* Both: departures are reported, and not too early.
DeparturesTrue == DeparturesReported /\ NotHasty
=============================================================================
