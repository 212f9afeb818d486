----------------------------- MODULE Telephones -----------------------------
(***************************************************************************)
(* Telephones (lib/ptolemy/analyse/telephones.py).                         *)
(*                                                                         *)
(* The reports on the neighbours of the ports of a switch tell which       *)
(* phones are there.  Workers, which share one queue, keep in redis when a *)
(* phone was last seen (a sorted set whose score is the time of the report)*)
(* and where (a key of its own, which never expires); they send mail about *)
(* phones that are new, that moved or that were not seen for some time.    *)
(* Every command to redis is a step.                                       *)
(***************************************************************************)
EXTENDS Integers, Sequences, FiniteSets

CONSTANTS
    Workers,        \* of the telephones
    Phones, Places, \* a place is a switch with the port
    Together,       \* the sets of phones a report may be about
    Delta,          \* not seen for so long: gone
    None,
    MaxClock,       \* bound: the time
    MaxReports,     \* bound: reports
    MaxQueue,       \* bound: reports that wait
    MaxRestarts     \* bound: workers that are started again

TelephonesAssumption ==
    /\ {Delta, MaxClock, MaxReports, MaxQueue, MaxRestarts} \subseteq Nat
    /\ Together \subseteq SUBSET Phones /\ None \notin Int

VARIABLES
    clock,
    queue,          \* the reports: [time, place, phones]
    seen,           \* in redis: phone -> when, None if it is not in the set
    where,          \* in redis: phone -> place
    work,           \* worker -> [pc, m: the report, todo, phone, last]
    restarts, reports,
    untold,         \* phone -> how often its place changed less how often that was told (history)
    gone,           \* phone -> the score it was last said to be gone with (history)
    late, crossed   \* the phones a report of which came after Delta, or two reports of
                    \* which were in work at the same time (history)

phones == <<seen, where, work>>
history == <<untold, gone, late, crossed>>
vars == <<clock, queue, phones, restarts, reports, history>>

Idle == [pc |-> "idle", m |-> [time |-> 0, place |-> None, phones |-> {}], todo |-> {},
         phone |-> None, last |-> None]
Step(w, now) == work' = [work EXCEPT ![w] = now]

-----------------------------------------------------------------------------

Tick == clock < MaxClock /\ clock' = clock + 1 /\ UNCHANGED <<queue, phones, restarts, history, reports>>

\* What the poller sends.  No two places report the same phone at the same time.
Report(p, S) ==
    /\ Len(queue) < MaxQueue /\ reports < MaxReports /\ reports' = reports + 1
    /\ \A i \in DOMAIN queue : queue[i].phones \cap S = {} \/ queue[i].time < clock
    /\ queue' = Append(queue, [time |-> clock, place |-> p, phones |-> S])
    /\ UNCHANGED <<clock, phones, restarts, history>>

-----------------------------------------------------------------------------
(* A report *)

\* setup: "prevent flood of emails when we haven't analysed anything in a while".
\* What redis returns is a string, and a string is not less than any number.
TooLong(lastRun) == FALSE

\* post_bulk_process: whether the mails are held back; a number and None, or an
\* exception.
HeldBack == TooLong("last_run")

\* A report without phones changes nothing.
Take(w) ==
    LET m == Head(queue) IN
    /\ work[w].pc = "idle" /\ queue # <<>> /\ queue' = Tail(queue)
    /\ Step(w, IF m.phones = {} THEN Idle
               ELSE [Idle EXCEPT !.pc = "rows", !.m = m, !.todo = m.phones])
    /\ crossed' = crossed \cup {p \in m.phones : \E x \in Workers : p \in work[x].m.phones}
    /\ UNCHANGED <<clock, seen, where, restarts, untold, gone, late, reports>>

\* save: where the phone was.
LastSeenAt(p) == where[p]

Look(w) ==
    /\ work[w].pc = "rows" /\ \E p \in work[w].todo :
          Step(w, [work[w] EXCEPT !.pc = "add", !.phone = p, !.last = LastSeenAt(p),
                                  !.todo = @ \ {p}])
    /\ UNCHANGED <<clock, queue, seen, where, restarts, history, reports>>

\* save: zadd, which takes the time of the report even if it is older.
Add(w) ==
    LET p == work[w].phone  t == work[w].m.time IN
    /\ work[w].pc = "add"
    /\ seen' = [seen EXCEPT ![p] = t]
    /\ late' = IF clock - t >= Delta THEN late \cup {p} ELSE late
    /\ Step(w, [work[w] EXCEPT !.pc = "set"])
    /\ UNCHANGED <<clock, queue, where, restarts, untold, gone, crossed, reports>>

\* save: set, and mail about a phone that is new or moved.
Put(w) ==
    LET p == work[w].phone  here == work[w].m.place IN
    /\ work[w].pc = "set"
    /\ where' = [where EXCEPT ![p] = here]
    /\ untold' = [untold EXCEPT ![p] =
          @ + (IF where[p] # here THEN 1 ELSE 0) - (IF work[w].last # here THEN 1 ELSE 0)]
    /\ Step(w, [work[w] EXCEPT !.pc = IF work[w].todo = {} THEN "post" ELSE "rows"])
    /\ UNCHANGED <<clock, queue, seen, restarts, gone, late, crossed, reports>>

\* post_bulk_process: those who were not seen for some time before the report.
List(w) ==
    LET delta == work[w].m.time - Delta
        lost == {p \in Phones : seen[p] # None /\ seen[p] < delta}
    IN  /\ work[w].pc = "post"
        /\ gone' = [p \in Phones |-> IF p \in lost THEN seen[p] ELSE gone[p]]
        /\ Step(w, IF HeldBack THEN Idle ELSE [work[w] EXCEPT !.pc = "remove"])
        /\ UNCHANGED <<clock, queue, seen, where, restarts, untold, late, crossed, reports>>

\* Mutated: all that the list went through.
UpToTheReport(m) == {p \in Phones : seen[p] # None /\ seen[p] <= m.time}

\* zremrangebyscore, which includes its bound.
Vanished(m) == {p \in Phones : seen[p] # None /\ seen[p] <= m.time - Delta}

Remove(w) ==
    /\ work[w].pc = "remove"
    /\ seen' = [p \in Phones |-> IF p \in Vanished(work[w].m) THEN None ELSE seen[p]]
    /\ Step(w, Idle)
    /\ UNCHANGED <<clock, queue, where, restarts, history, reports>>

\* A worker stops where it is, and is started again (setup): the rest of the report
\* is not dealt with.
Restart(w) ==
    /\ restarts < MaxRestarts /\ restarts' = restarts + 1
    /\ work[w].pc # "idle" /\ Step(w, Idle)
    /\ UNCHANGED <<clock, queue, seen, where, history, reports>>

-----------------------------------------------------------------------------

Init ==
    /\ clock = 0 /\ queue = <<>> /\ restarts = 0 /\ reports = 0
    /\ seen = [p \in Phones |-> None] /\ where = [p \in Phones |-> None]
    /\ work = [w \in Workers |-> Idle]
    /\ untold = [p \in Phones |-> 0]
    /\ gone = [p \in Phones |-> None]
    /\ late = {} /\ crossed = {}

Next ==
    \/ Tick
    \/ \E p \in Places, S \in Together : Report(p, S)
    \/ \E w \in Workers : Take(w) \/ Look(w) \/ Add(w) \/ Put(w) \/ List(w) \/ Remove(w)
          \/ Restart(w)

Spec == Init /\ [][Next]_vars

-----------------------------------------------------------------------------
(* Properties *)

\* A phone is forgotten only if it was said to be gone since it was last seen, for
\* all the workers' commands in between; but for one that was seen exactly Delta
\* ago, or was reported late.
ForgottenIsTold ==
    \A p \in Phones : seen[p] # None /\ seen'[p] = None =>
        \/ gone[p] = seen[p] \/ p \in late
        \/ \E w \in Workers : work[w].pc = "remove" /\ seen[p] = work[w].m.time - Delta

GoneIsTold == [][ForgottenIsTold]_vars

\* Every change of the place of a phone is told, once, unless two reports of the
\* phone were in work at the same time.
MovesTold == \A p \in Phones \ crossed : untold[p] = 0

=============================================================================
