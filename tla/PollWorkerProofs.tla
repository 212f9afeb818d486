--------------------------- MODULE PollWorkerProofs ---------------------------
(***************************************************************************)
(* Theorems about a poll worker and what it is made of.  The worker, for   *)
(* any lists of drivers, any time limit and any behaviour of the device:   *)
(* its steps are those the supervisors assume, it publishes the results of *)
(* one driver only, and it is done in time.  The walks of its agent, for   *)
(* any table, any order of columns and any size of an answer.  The values, *)
(* for any number of octets, banks, ports and keys.  The tree of a         *)
(* device's entities, for any number of them, whatever their parents.      *)
(***************************************************************************)
EXTENDS Polling, SequenceTheorems, WellFoundedInduction, TLAPS

-----------------------------------------------------------------------------
(* The inductive invariant *)

\* d is one of the drivers of the current job.
OfJob(d) == \E i \in DOMAIN job : job[i] = d

JobInv ==
    /\ job \in Lists \cup {None}
    /\ job = None <=> stage = "idle"
    /\ left \in Seq(Drivers)
    /\ job # None => \A i \in DOMAIN left : OfJob(left[i])
    /\ stage \in {"collecting", "iterating", "formatting"} =>
            trying \in Drivers /\ OfJob(trying)

\* What the job's data tell fetch: once a driver has been reported, the next
\* call of fetch fails.
SuccessInv ==
    /\ success \in Drivers \cup {None}
    /\ named \in BOOLEAN
    /\ job # None => (named <=> success # None)
    /\ Waiting => success = None
    /\ stage = "formatting" => success = trying
    /\ sources \subseteq {success} \ {None}

WorkerInv == JobInv /\ SuccessInv

LEMMA WorkerInit == Init => WorkerInv
  <1> SUFFICES ASSUME Init PROVE JobInv /\ SuccessInv
    BY DEF WorkerInv
  <1>1. <<>> \in Seq(Drivers)
    OBVIOUS
  <1>2. JobInv
    BY <1>1 DEF Init, JobInv
  <1>3. SuccessInv
    BY DEF Init, SuccessInv, Waiting
  <1> QED BY <1>2, <1>3

\* Ending a job keeps the invariant.
LEMMA FinishInv ==
    ASSUME WorkerInv, NEW result, Finish(result)
    PROVE  WorkerInv'
  <1>1. <<>> \in Seq(Drivers)
    OBVIOUS
  <1>2. JobInv'
    BY <1>1 DEF JobInv, Finish
  <1>3. SuccessInv'
    BY DEF WorkerInv, SuccessInv, Finish, Waiting
  <1> QED BY <1>2, <1>3 DEF WorkerInv

\* Going on to the next driver keeps it.
LEMMA NextDriverInv ==
    ASSUME WorkerInv, NextDriver, stage # "idle"
    PROVE  WorkerInv'
  BY DEF WorkerInv, JobInv, SuccessInv, NextDriver, Waiting, OfJob

\* So does a time limit.
LEMMA TimedOutInv ==
    ASSUME WorkerInv, TimedOut, stage # "idle"
    PROVE  WorkerInv'
  BY FinishInv, NextDriverInv DEF TimedOut

\* So does a success.
LEMMA FetchedInv ==
    ASSUME WorkerInv, Fetched, Waiting
    PROVE  WorkerInv'
  BY WorkerAssumption DEF WorkerInv, JobInv, SuccessInv, Fetched, Waiting, OfJob

\* One step per action.
LEMMA WorkerStep == WorkerInv /\ [Next]_vars => WorkerInv'
  <1> SUFFICES ASSUME WorkerInv, [Next]_vars PROVE WorkerInv'
    OBVIOUS
  <1>1. CASE Take
    <2>1. job' \in Seq(Drivers) /\ job' \in Lists /\ job' # None
      BY <1>1, WorkerAssumption DEF Take
    <2> QED
      BY <1>1, <2>1 DEF Take, WorkerInv, JobInv, SuccessInv, Waiting, OfJob
  <1>2. CASE TooOld \/ Exhausted \/ NameNotFound \/ Completed
    BY <1>2, FinishInv DEF TooOld, Exhausted, NameNotFound, Completed
  <1>3. CASE Try
    <2>1. Head(left) \in Drivers /\ OfJob(Head(left))
      BY <1>3 DEF Try, WorkerInv, JobInv
    <2>2. /\ Tail(left) \in Seq(Drivers)
          /\ \A i \in DOMAIN Tail(left) : OfJob(Tail(left)[i])
      <3>1. left \in Seq(Drivers) /\ left # <<>> /\ job # None
        BY <1>3 DEF Try, WorkerInv, JobInv
      <3>2. \A i \in DOMAIN Tail(left) :
                i + 1 \in DOMAIN left /\ Tail(left)[i] = left[i + 1]
        BY <3>1
      <3> QED BY <3>1, <3>2 DEF WorkerInv, JobInv
    <2>3. job' = job /\ success' = success /\ named' = named /\ sources' = sources
      BY <1>3 DEF Try
    <2>4. stage' = "collecting" => ~named
      BY <1>3 DEF Try, Calls
    <2>5. stage' \in {"collecting", "next"} /\ trying' = Head(left) /\ left' = Tail(left)
      BY <1>3 DEF Try
    <2>6. stage # "idle"
      BY <1>3 DEF Try
    <2>7. JobInv'
      BY <2>1, <2>2, <2>3, <2>5, <2>6 DEF WorkerInv, JobInv, OfJob
    <2>8. SuccessInv'
      BY <2>3, <2>4, <2>5, <2>6 DEF WorkerInv, JobInv, SuccessInv, Waiting
    <2> QED BY <2>7, <2>8 DEF WorkerInv
  <1>4. CASE Collected
    <2>1. CASE Fetched
      BY <1>4, <2>1, FetchedInv DEF Collected, Waiting
    <2>2. CASE /\ stage' = "iterating" /\ stage = "collecting"
               /\ UNCHANGED <<job, success, left, trying, named, sources>>
      BY <2>2 DEF WorkerInv, JobInv, SuccessInv, Waiting, OfJob
    <2> QED BY <1>4, <2>1, <2>2 DEF Collected
  <1>5. CASE Iterated
    <2>1. CASE Failed
      BY <1>5, <2>1, NextDriverInv DEF Iterated, Failed
    <2>2. CASE UNCHANGED <<job, success, progress, sources>>
      BY <2>2 DEF WorkerInv, JobInv, SuccessInv, Waiting, OfJob, progress
    <2> QED BY <1>5, <2>1, <2>2 DEF Iterated
  <1>6. CASE IterationDone
    <2>1. CASE Fetched
      BY <1>6, <2>1, FetchedInv DEF IterationDone, Waiting
    <2>2. CASE Failed
      BY <1>6, <2>2, NextDriverInv DEF IterationDone, Failed
    <2> QED BY <1>6, <2>1, <2>2 DEF IterationDone
  <1>7. CASE FetchFails \/ FormatFails
    BY <1>7, NextDriverInv DEF FetchFails, FormatFails, Failed
  <1>8. CASE AgentGivesUp \/ Alarm
    BY <1>8, TimedOutInv, NextDriverInv DEF AgentGivesUp, Alarm, Waiting
  <1>9. CASE Tick
    BY <1>9 DEF Tick, WorkerInv, JobInv, SuccessInv, Waiting, OfJob
  <1>10. CASE FormatGroup
    <2>1. success # None /\ trying = success
      BY <1>10, WorkerAssumption DEF FormatGroup, WorkerInv, JobInv, SuccessInv
    <2> QED
      BY <1>10, <2>1 DEF FormatGroup, progress, WorkerInv, JobInv, SuccessInv, Waiting,
                         OfJob
  <1>11. CASE UNCHANGED vars
    BY <1>11 DEF vars, WorkerInv, JobInv, SuccessInv, Waiting, OfJob
  <1> QED
    BY <1>1, <1>2, <1>3, <1>4, <1>5, <1>6, <1>7, <1>8, <1>9, <1>10, <1>11 DEF Next, Own

\* Whatever else answers or fails, all results published for a job are those of
\* the driver that was reported to work.
THEOREM OneSourceOnly == Spec => []OneSource
  <1>1. WorkerInv => OneSource
    BY DEF WorkerInv, SuccessInv, OneSource
  <1> QED BY <1>1, WorkerInit, WorkerStep, PTL DEF Spec

-----------------------------------------------------------------------------
(* The contract *)

\* A success reported by fetch is the success of the contract.
LEMMA FetchedReports ==
    ASSUME WorkerInv, Fetched, Waiting
    PROVE  Contract!ReportSuccess
  <1>1. job # None /\ success = None /\ OfJob(trying)
    BY DEF WorkerInv, JobInv, SuccessInv, Waiting
  <1> QED
    BY <1>1 DEF Fetched, Contract!ReportSuccess, OfJob

\* Ending a job is its end in the contract.
LEMMA FinishFinishes ==
    ASSUME WorkerInv, stage # "idle", NEW result, Finish(result),
           \/ result \in {NoDriver, OtherError}
           \/ success # None /\ result = Complete
    PROVE  Contract!Finish
  BY DEF WorkerInv, JobInv, Finish, Contract!Finish, NoDriver, OtherError, Complete,
         Contract!NoDriver, Contract!OtherError, Contract!Complete

\* Every step of the worker is one of the contract, or leaves it alone.
LEMMA StepAllowed == WorkerInv /\ [Next]_vars => [Contract!Next]_(Contract!vars)
  <1> SUFFICES ASSUME WorkerInv, [Next]_vars
               PROVE  Contract!Next \/ UNCHANGED <<job, success, verdict>>
    BY DEF Contract!vars
  <1> USE DEF Contract!Next
  <1>1. CASE Take
    BY <1>1 DEF Take, Contract!Take, WorkerInv, JobInv
  <1>2. CASE TooOld \/ Exhausted \/ NameNotFound
    BY <1>2, FinishFinishes DEF TooOld, Exhausted, NameNotFound
  <1>3. CASE Completed
    <2>1. success # None
      BY <1>3, WorkerAssumption DEF Completed, WorkerInv, JobInv, SuccessInv
    <2> QED BY <1>3, <2>1, FinishFinishes DEF Completed
  <1>4. CASE Try \/ Tick \/ FormatGroup
    BY <1>4 DEF Try, Tick, FormatGroup
  <1>5. CASE Collected \/ IterationDone
    <2>1. CASE Fetched
      BY <1>5, <2>1, FetchedReports DEF Collected, IterationDone, Waiting
    <2>2. CASE UNCHANGED <<job, success, verdict>>
      BY <2>2
    <2> QED
      BY <1>5, <2>1, <2>2 DEF Collected, IterationDone, Failed, NextDriver
  <1>6. CASE Iterated \/ FetchFails \/ FormatFails
    BY <1>6 DEF Iterated, FetchFails, FormatFails, Failed, NextDriver
  <1>7. CASE AgentGivesUp \/ Alarm
    <2>1. CASE TimedOut
      BY <1>7, <2>1, FinishFinishes
         DEF AgentGivesUp, Alarm, Waiting, TimedOut, NextDriver
    <2>2. CASE NextDriver
      BY <2>2 DEF NextDriver
    <2> QED BY <1>7, <2>1, <2>2 DEF AgentGivesUp, Alarm
  <1>8. CASE UNCHANGED vars
    BY <1>8 DEF vars
  <1> QED
    BY <1>1, <1>2, <1>3, <1>4, <1>5, <1>6, <1>7, <1>8 DEF Next, Own

\* poll() keeps the promises the supervisors rely on, as far as they are about
\* safety: one success at most, with a driver of the job, and `complete' only
\* after it.
THEOREM KeepsContract == Spec => Contract!Safe
  <1>1. Init => Contract!Init
    BY DEF Init, Contract!Init
  <1> QED
    BY <1>1, WorkerInit, WorkerStep, StepAllowed, PTL DEF Spec, Contract!Safe

-----------------------------------------------------------------------------
(* Time *)

\* The time that the alarm has left is not spent yet.
TimeInv ==
    /\ alarm \in Nat \cup {None} /\ elapsed \in Nat
    /\ Waiting <=> alarm # None
    /\ job # None =>
        elapsed + (IF alarm = None THEN 0 ELSE alarm)
            <= Timeout * (Len(job) - Len(left))

LEMMA TimeInit == Init => TimeInv
  BY WorkerAssumption DEF Init, TimeInv, Waiting

LEMMA TimeStep == WorkerInv /\ TimeInv /\ [Next]_vars => TimeInv'
  <1> SUFFICES ASSUME WorkerInv, TimeInv, [Next]_vars PROVE TimeInv'
    OBVIOUS
  <1> DEFINE budget == Timeout * (Len(job) - Len(left))
  <1>1. ASSUME NextDriver, stage # "idle" PROVE TimeInv'
    <2>1. job # None /\ Len(job) \in Nat /\ Len(left) \in Nat
      BY <1>1, WorkerAssumption DEF WorkerInv, JobInv
    <2>2. budget \in Int
      BY <2>1, WorkerAssumption
    <2>3. elapsed <= budget
      BY <2>1, <2>2, WorkerAssumption DEF TimeInv
    <2> QED BY <1>1, <2>3 DEF NextDriver, TimeInv, Waiting
  <1>2. ASSUME NEW result, Finish(result) PROVE TimeInv'
    BY <1>2 DEF Finish, TimeInv, Waiting
  <1>3. ASSUME TimedOut, stage # "idle" PROVE TimeInv'
    BY <1>1, <1>2, <1>3 DEF TimedOut
  <1>4. ASSUME Fetched, stage # "idle" PROVE TimeInv'
    <2>1. job # None /\ Len(job) \in Nat /\ Len(left) \in Nat
      BY <1>4, WorkerAssumption DEF WorkerInv, JobInv
    <2>2. budget \in Int
      BY <2>1, WorkerAssumption
    <2>3. elapsed <= budget
      BY <2>1, <2>2, WorkerAssumption DEF TimeInv
    <2> QED BY <1>4, <2>3 DEF Fetched, TimeInv, Waiting
  <1>5. CASE Take
    <2>1. Len(job') \in Nat /\ left' = job' /\ elapsed' = 0 /\ alarm' = alarm
      BY <1>5, WorkerAssumption DEF Take
    <2>2. alarm = None
      BY <1>5 DEF Take, TimeInv, Waiting
    <2> QED BY <1>5, <2>1, <2>2, WorkerAssumption DEF Take, TimeInv, Waiting
  <1>6. CASE TooOld \/ Exhausted \/ NameNotFound \/ Completed
    BY <1>2, <1>6 DEF TooOld, Exhausted, NameNotFound, Completed
  <1>7. CASE Try
    <2>1. /\ job # None /\ Len(job) \in Nat /\ Len(left) \in Nat
          /\ left # <<>> /\ left \in Seq(Drivers)
      BY <1>7, WorkerAssumption DEF Try, WorkerInv, JobInv
    <2>2. Len(left') = Len(left) - 1 /\ job' = job /\ elapsed' = elapsed
      BY <1>7, <2>1 DEF Try
    <2>3. Timeout * (Len(job) - (Len(left) - 1)) = budget + Timeout
      BY <2>1, WorkerAssumption
    <2>4. alarm = None
      BY <1>7 DEF Try, TimeInv, Waiting
    <2>5. elapsed <= budget
      BY <2>1, <2>4, WorkerAssumption DEF TimeInv
    <2>6. \/ stage' = "collecting" /\ alarm' = Timeout
          \/ stage' = "next" /\ alarm' = None
      BY <1>7, <2>4 DEF Try, AlarmForFetch
    <2>7. budget \in Int /\ Timeout \in Nat
      BY <2>1, WorkerAssumption
    <2>8. elapsed + Timeout <= Timeout * (Len(job') - Len(left'))
      <3> HIDE DEF budget
      <3>1. Timeout * (Len(job') - Len(left')) = budget + Timeout
        BY <2>2, <2>3
      <3> QED BY <2>5, <2>7, <3>1 DEF TimeInv
    <2>9. elapsed <= Timeout * (Len(job') - Len(left'))
      <3> HIDE DEF budget
      <3>1. Timeout * (Len(job') - Len(left')) = budget + Timeout
        BY <2>2, <2>3
      <3> QED BY <2>5, <2>7, <3>1 DEF TimeInv
    <2> QED
      BY <2>2, <2>6, <2>7, <2>8, <2>9, WorkerAssumption DEF TimeInv, Waiting
  <1>8. CASE Collected
    <2>1. CASE Fetched
      BY <1>4, <1>8, <2>1 DEF Collected
    <2>2. CASE /\ stage' = "iterating" /\ stage = "collecting"
               /\ UNCHANGED <<job, left, alarm, elapsed>>
      BY <2>2 DEF TimeInv, Waiting
    <2> QED BY <1>8, <2>1, <2>2 DEF Collected
  <1>9. CASE Iterated
    <2>1. CASE Failed
      BY <1>1, <1>9, <2>1 DEF Iterated, Failed
    <2>2. CASE UNCHANGED <<job, progress, elapsed>>
      BY <2>2 DEF TimeInv, Waiting, progress
    <2> QED BY <1>9, <2>1, <2>2 DEF Iterated
  <1>10. CASE IterationDone
    BY <1>1, <1>4, <1>10 DEF IterationDone, Failed
  <1>11. CASE FetchFails \/ FormatFails
    BY <1>1, <1>11 DEF FetchFails, FormatFails, Failed
  <1>12. CASE AgentGivesUp \/ Alarm
    BY <1>1, <1>3, <1>12 DEF AgentGivesUp, Alarm, Waiting
  <1>13. CASE Tick
    <2>1. alarm \in Nat /\ alarm # None /\ alarm' = alarm - 1 /\ alarm > 0
          /\ elapsed' = elapsed + 1 /\ elapsed \in Nat
      BY <1>13, WorkerAssumption DEF Tick, TimeInv
    <2>2. alarm' \in Nat /\ alarm' # None
      BY <2>1, WorkerAssumption
    <2>3. elapsed' + alarm' = elapsed + alarm
      BY <2>1
    <2> QED BY <1>13, <2>1, <2>2, <2>3 DEF Tick, TimeInv, Waiting
  <1>14. CASE FormatGroup
    BY <1>14 DEF FormatGroup, progress, TimeInv, Waiting
  <1>15. CASE UNCHANGED vars
    BY <1>15 DEF vars, TimeInv, Waiting
  <1> QED
    BY <1>5, <1>6, <1>7, <1>8, <1>9, <1>10, <1>11, <1>12, <1>13, <1>14, <1>15
       DEF Next, Own

\* However the drivers fail, a poll of n of them has waited for the device no
\* longer than n time limits.
THEOREM AlwaysInTime == Spec => []InTime
  <1>1. WorkerInv /\ TimeInv => InTime
    <2> SUFFICES ASSUME WorkerInv, TimeInv, job # None
                 PROVE  elapsed <= Timeout * (Len(job) - Len(left))
      BY DEF InTime
    <2>1. Len(job) \in Nat /\ Len(left) \in Nat
      BY WorkerAssumption DEF WorkerInv, JobInv
    <2>2. Timeout * (Len(job) - Len(left)) \in Int
      BY <2>1, WorkerAssumption
    <2> QED BY <2>2, WorkerAssumption DEF TimeInv
  <1> QED
    BY <1>1, WorkerInit, WorkerStep, TimeInit, TimeStep, PTL DEF Spec

-----------------------------------------------------------------------------
(* What the report says *)

\* The worker has a reason to report that no driver suits: one that failed, or
\* one whose agent hid that it was slow.
Reason ==
    \/ \E d \in Drivers : <<d, "failed">> \in ends
    \/ \E d \in NetConfig : <<d, "late">> \in ends

\* There is one before the report, when nothing is left to try; the report on a
\* job is made only when the worker is done with it.
ReportInv ==
    /\ verdict = NoDriver => stage = "idle" /\ Reason
    /\ stage = "next" /\ left = <<>> => Reason

LEMMA ReportInit == Init => ReportInv
  BY WorkerAssumption DEF Init, ReportInv

\* A driver that failed is a reason.
LEMMA FailedIsReason ==
    ASSUME WorkerInv, Failed, stage \in {"collecting", "iterating", "formatting"}
    PROVE  Reason'
  <1>1. trying \in Drivers /\ <<trying, "failed">> \in ends'
    BY DEF WorkerInv, JobInv, Failed, Ended
  <1> QED BY <1>1 DEF Reason

\* A turn that ends in a failure keeps the invariant.
LEMMA FailedReports ==
    ASSUME WorkerInv, ReportInv, Failed,
           stage \in {"collecting", "iterating", "formatting"}
    PROVE  ReportInv'
  <1>1. Reason'
    BY FailedIsReason
  <1> QED BY <1>1 DEF ReportInv, Failed, NextDriver

\* So does one that ends in a time limit, which is hidden only while there is
\* another driver to try.
LEMMA TimedOutReports ==
    ASSUME WorkerInv, ReportInv, TimedOut, stage # "idle"
    PROVE  ReportInv'
  <1>1. CASE left = <<>>
    BY <1>1 DEF TimedOut, Finish, ReportInv, OtherError, NoDriver
  <1>2. CASE left # <<>>
    BY <1>2 DEF TimedOut, NextDriver, ReportInv
  <1> QED BY <1>1, <1>2

\* One step per action.
LEMMA ReportStep == WorkerInv /\ ReportInv /\ [Next]_vars => ReportInv'
  <1> SUFFICES ASSUME WorkerInv, ReportInv, [Next]_vars PROVE ReportInv'
    OBVIOUS
  <1>1. ASSUME stage # "idle", verdict' = verdict, stage' \notin {"idle", "next"}
        PROVE  ReportInv'
    BY <1>1 DEF ReportInv
  <1>2. CASE Take
    BY <1>2, WorkerAssumption DEF Take, ReportInv
  <1>3. CASE TooOld \/ NameNotFound \/ Completed
    BY <1>3 DEF TooOld, NameNotFound, Completed, Finish, ReportInv, OtherError,
                Complete, NoDriver
  <1>4. CASE Try
    <2>1. CASE stage' = "collecting" /\ verdict' = verdict /\ stage # "idle"
      BY <1>1, <2>1
    <2>2. CASE /\ stage' = "next" /\ verdict' = verdict /\ stage # "idle"
               /\ <<Head(left), "failed">> \in ends'
      <3>1. Head(left) \in Drivers
        BY <1>4 DEF Try, WorkerInv, JobInv
      <3>2. Reason'
        BY <2>2, <3>1 DEF Reason
      <3> QED BY <2>2, <3>2 DEF ReportInv
    <2> QED BY <1>4, <2>1, <2>2 DEF Try
  <1>5. CASE Exhausted
    BY <1>5 DEF Exhausted, Finish, ReportInv, Reason
  <1>6. CASE Collected
    BY <1>1, <1>6 DEF Collected, Fetched
  <1>7. CASE Iterated
    <2>1. CASE Failed
      BY <1>7, <2>1, FailedReports DEF Iterated
    <2>2. CASE UNCHANGED <<verdict, progress>>
      BY <1>1, <1>7, <2>2 DEF Iterated, progress
    <2> QED BY <1>7, <2>1, <2>2 DEF Iterated
  <1>8. CASE IterationDone
    BY <1>1, <1>8, FailedReports DEF IterationDone, Fetched
  <1>9. CASE FetchFails \/ FormatFails
    BY <1>9, FailedReports DEF FetchFails, FormatFails
  <1>10. CASE AgentGivesUp
    BY <1>10, TimedOutReports DEF AgentGivesUp
  <1>11. CASE Alarm
    <2>1. CASE TimedOut
      BY <1>11, <2>1, TimedOutReports DEF Alarm, Waiting
    <2>2. CASE trying \in NetConfig /\ NextDriver /\ Ended("late")
      <3>1. Reason'
        BY <2>2 DEF Reason, Ended
      <3>2. stage # "idle"
        BY <1>11 DEF Alarm, Waiting
      <3> QED BY <2>2, <3>1, <3>2 DEF ReportInv, NextDriver
    <2> QED BY <1>11, <2>1, <2>2 DEF Alarm
  <1>12. CASE Tick
    BY <1>1, <1>12 DEF Tick, Waiting
  <1>13. CASE FormatGroup
    BY <1>1, <1>13 DEF FormatGroup, progress
  <1>14. CASE UNCHANGED vars
    BY <1>14 DEF vars, ReportInv, Reason
  <1> QED
    BY <1>2, <1>3, <1>4, <1>5, <1>6, <1>7, <1>8, <1>9, <1>10, <1>11, <1>12, <1>13,
       <1>14 DEF Next, Own

\* `no suitable driver found' is said only of drivers one of which failed: a
\* time limit is reported as one, unless NetConfig hides it.
THEOREM SlowAlwaysReported == Spec => []SlowIsReported
  <1>1. ReportInv => SlowIsReported
    BY DEF ReportInv, Reason, SlowIsReported
  <1> QED
    BY <1>1, WorkerInit, WorkerStep, ReportInit, ReportStep, PTL DEF Spec

-----------------------------------------------------------------------------
(* Walks: numbers, and what folds and recursive functions compute *)

\* A set of naturals has a smallest one.
LEMMA SmallestNat ==
    ASSUME NEW S \in SUBSET Nat, S # {}
    PROVE  \E d \in S : \A x \in S : d <= x
  <1>1. PICK d \in S : \A x \in S : <<x, d>> \notin OpToRel(<, Nat)
    BY Zenon, NatLessThanWellFounded, WFMin
  <1>2. \A x \in S : ~(x < d)
    BY Zenon, <1>1 DEF OpToRel
  <1> QED BY <1>2

\* And a largest, if it is bounded.
LEMMA Largest ==
    ASSUME NEW n \in Nat, NEW S \in SUBSET (1 .. n), S # {}
    PROVE  Walk!Max(S) \in S /\ \A x \in S : Walk!Max(S) >= x
  <1> DEFINE T == {n - x : x \in S}
  <1>1. T \in SUBSET Nat /\ T # {}
    <2>1. \A x \in S : n - x \in Nat
      OBVIOUS
    <2> QED BY Zenon, <2>1
  <1>2. PICK d \in T : \A x \in T : d <= x
    BY <1>1, SmallestNat
  <1>3. PICK m \in S : d = n - m
    BY <1>2
  <1>4. \A x \in S : m >= x
    BY <1>2, <1>3
  <1> QED BY <1>3, <1>4 DEF Walk!Max

\* The largest of an interval is its end.
LEMMA LargestOfInterval == ASSUME NEW k \in Nat \ {0} PROVE Walk!Max(1 .. k) = k
  <1>1. 1 .. k \in SUBSET (1 .. k) /\ k \in 1 .. k
    OBVIOUS
  <1>2. Walk!Max(1 .. k) \in 1 .. k /\ Walk!Max(1 .. k) >= k
    BY <1>1, Largest
  <1> QED BY <1>2

\* The items of an answer, one by one: the first is named after o, each other one after the
\* one before it.
ItemsOf(h, o, n) == h = [k \in 1 .. n |-> Walk!Named(IF k = 1 THEN o ELSE h[k - 1].oid)]

LEMMA SuccessorsAreItems ==
    ASSUME NEW o, NEW n \in Nat
    PROVE  ItemsOf(Walk!Successors(o, n), o, n)
  <1> DEFINE Has(k) == \E h : ItemsOf(h, o, k)
  <1>1. Has(0)
    <2> DEFINE h == [k \in 1 .. 0 |-> o]
    <2>1. h = [k \in 1 .. 0 |-> Walk!Named(IF k = 1 THEN o ELSE h[k - 1].oid)]
      OBVIOUS
    <2> QED BY <2>1 DEF ItemsOf
  <1>2. ASSUME NEW k \in 0 .. n, k # n, Has(k) PROVE Has(k + 1)
    <2>1. PICK g : g = [i \in 1 .. k |-> Walk!Named(IF i = 1 THEN o ELSE g[i - 1].oid)]
      BY <1>2 DEF ItemsOf
    <2> DEFINE h == [i \in 1 .. k + 1 |->
                        IF i = k + 1 THEN Walk!Named(IF i = 1 THEN o ELSE g[i - 1].oid) ELSE g[i]]
    <2>2. ASSUME NEW i \in 1 .. k + 1
          PROVE  h[i] = Walk!Named(IF i = 1 THEN o ELSE h[i - 1].oid)
      <3>1. i # 1 => i - 1 \in 1 .. k + 1 /\ i - 1 # k + 1 /\ h[i - 1] = g[i - 1]
        OBVIOUS
      <3>2. CASE i = k + 1
        <4>1. h[i] = Walk!Named(IF i = 1 THEN o ELSE g[i - 1].oid)
          BY <3>2
        <4> HIDE DEF h
        <4> QED BY <3>1, <4>1
      <3>3. CASE i # k + 1
        <4>1. i \in 1 .. k /\ h[i] = g[i]
          BY <3>3
        <4>2. g[i] = Walk!Named(IF i = 1 THEN o ELSE g[i - 1].oid)
          BY <2>1, <4>1
        <4> HIDE DEF h
        <4> QED BY <3>1, <4>1, <4>2
      <3> QED BY <3>2, <3>3
    <2>3. h = [i \in 1 .. k + 1 |-> Walk!Named(IF i = 1 THEN o ELSE h[i - 1].oid)]
      BY <2>2
    <2> QED BY <2>3 DEF ItemsOf
  <1>3. Has(n)
    <2> HIDE DEF Has
    <2> SUFFICES ASSUME ~Has(n) PROVE FALSE
      OBVIOUS
    <2> DEFINE Bad == {k \in 0 .. n : ~Has(k)}
    <2>1. n \in Bad /\ Bad \in SUBSET Nat
      OBVIOUS
    <2>2. PICK d \in Bad : \A x \in Bad : d <= x
      BY <2>1, SmallestNat
    <2>3. d # 0 /\ d \in 0 .. n
      BY <1>1, <2>2
    <2>4. d - 1 \in 0 .. n /\ d - 1 \notin Bad /\ d - 1 # n
      BY <2>2, <2>3
    <2>5. Has((d - 1) + 1)
      BY <1>2, <2>4
    <2> QED BY <2>2, <2>3, <2>5
  <1> DEFINE answer == CHOOSE h : h = [k \in 1 .. n |-> Walk!Named(IF k = 1 THEN o ELSE h[k - 1].oid)]
  <1>4. answer = [k \in 1 .. n |-> Walk!Named(IF k = 1 THEN o ELSE answer[k - 1].oid)]
    BY <1>3 DEF ItemsOf
  <1>5. Walk!Successors(o, n) = answer
    BY DEF Walk!Successors
  <1> QED BY <1>4, <1>5 DEF ItemsOf

\* What the fold over an answer has, on each set of positions.
TakenBody(g, s, r, p) == IF p = {} THEN s ELSE Walk!Taken(g[p \ {Walk!Max(p)}], r[Walk!Max(p)])
TakenOn(g, s, r, n) == g = [p \in SUBSET (1 .. n) |-> TakenBody(g, s, r, p)]

LEMMA TakenUnfolds ==
    ASSUME NEW s, NEW r, NEW n \in Nat, DOMAIN r = 1 .. n
    PROVE  \E g : TakenOn(g, s, r, n) /\ Walk!FoldLeft(Walk!Taken, s, r) = g[1 .. n]
  <1> DEFINE Has(k) == \E g : TakenOn(g, s, r, k)
  <1>1. Has(0)
    <2> DEFINE g == [p \in SUBSET (1 .. 0) |-> s]
    <2>1. g = [p \in SUBSET (1 .. 0) |-> TakenBody(g, s, r, p)]
      BY DEF TakenBody
    <2> QED BY <2>1 DEF TakenOn
  <1>2. ASSUME NEW k \in 0 .. n, k # n, Has(k) PROVE Has(k + 1)
    <2>1. PICK g : g = [p \in SUBSET (1 .. k) |-> TakenBody(g, s, r, p)]
      BY <1>2 DEF TakenOn
    <2> DEFINE h == [p \in SUBSET (1 .. k + 1) |->
                        IF k + 1 \in p THEN Walk!Taken(g[p \ {k + 1}], r[k + 1]) ELSE g[p]]
    <2>2. ASSUME NEW p \in SUBSET (1 .. k + 1) PROVE h[p] = TakenBody(h, s, r, p)
      <3>1. CASE k + 1 \in p
        <4>1. Walk!Max(p) = k + 1
          <5>1. k + 1 \in Nat /\ p # {}
            BY <3>1
          <5>2. Walk!Max(p) \in p /\ \A x \in p : Walk!Max(p) >= x
            BY <5>1, Largest
          <5>3. Walk!Max(p) \in 1 .. k + 1 /\ Walk!Max(p) >= k + 1
            BY <3>1, <5>2
          <5> QED BY <5>3
        <4>2. h[p] = Walk!Taken(g[p \ {k + 1}], r[k + 1])
          BY <3>1
        <4>3. p \ {k + 1} \in SUBSET (1 .. k + 1) /\ k + 1 \notin p \ {k + 1}
          OBVIOUS
        <4>4. h[p \ {k + 1}] = g[p \ {k + 1}]
          BY <4>3
        <4> HIDE DEF h
        <4> QED BY <3>1, <4>1, <4>2, <4>4 DEF TakenBody
      <3>2. CASE k + 1 \notin p
        <4>1. p \in SUBSET (1 .. k)
          BY <3>2
        <4>2. h[p] = TakenBody(g, s, r, p)
          BY <2>1, <3>2, <4>1
        <4>3. CASE p = {}
          BY <4>2, <4>3 DEF TakenBody
        <4>4. CASE p # {}
          <5>1. p \ {Walk!Max(p)} \in SUBSET (1 .. k + 1) /\ k + 1 \notin p \ {Walk!Max(p)}
            BY <3>2
          <5>2. h[p \ {Walk!Max(p)}] = g[p \ {Walk!Max(p)}]
            BY <5>1
          <5> HIDE DEF h
          <5> QED BY <4>2, <4>4, <5>2 DEF TakenBody
        <4> QED BY <4>3, <4>4
      <3> QED BY <3>1, <3>2
    <2>3. h = [p \in SUBSET (1 .. k + 1) |-> TakenBody(h, s, r, p)]
      <3> HIDE DEF TakenBody
      <3> QED BY <2>2
    <2> QED BY <2>3 DEF TakenOn
  <1>3. Has(n)
    <2> HIDE DEF Has
    <2> SUFFICES ASSUME ~Has(n) PROVE FALSE
      OBVIOUS
    <2> DEFINE Bad == {k \in 0 .. n : ~Has(k)}
    <2>1. n \in Bad /\ Bad \in SUBSET Nat
      OBVIOUS
    <2>2. PICK d \in Bad : \A x \in Bad : d <= x
      BY <2>1, SmallestNat
    <2>3. d # 0 /\ d \in 0 .. n
      BY <1>1, <2>2
    <2>4. d - 1 \in 0 .. n /\ d - 1 \notin Bad /\ d - 1 # n
      BY <2>2, <2>3
    <2>5. Has((d - 1) + 1)
      BY <1>2, <2>4
    <2> QED BY <2>2, <2>3, <2>5
  <1> DEFINE it == CHOOSE g : g = [p \in SUBSET (1 .. n) |-> TakenBody(g, s, r, p)]
  <1>4. it = [p \in SUBSET (1 .. n) |-> TakenBody(it, s, r, p)]
    BY <1>3 DEF TakenOn
  <1>5. Walk!FoldLeft(Walk!Taken, s, r) = it[1 .. n]
    BY DEF Walk!FoldLeft, Walk!MapThenFoldSet, TakenBody
  <1> QED BY <1>4, <1>5 DEF TakenOn

\* At no position, and at one more.
LEMMA TakenFirst ==
    ASSUME NEW s, NEW r, NEW n \in Nat, NEW g, TakenOn(g, s, r, n)
    PROVE  g[1 .. 0] = s
  <1>1. 1 .. 0 = {} /\ {} \in SUBSET (1 .. n)
    OBVIOUS
  <1> QED BY <1>1 DEF TakenOn, TakenBody

LEMMA TakenNext ==
    ASSUME NEW s, NEW r, NEW n \in Nat, NEW g, TakenOn(g, s, r, n)
    PROVE  \A k \in 0 .. n : k # n => g[1 .. k + 1] = Walk!Taken(g[1 .. k], r[k + 1])
  <1> TAKE k \in 0 .. n
  <1> HAVE k # n
  <1>1. /\ k + 1 \in Nat \ {0}
        /\ 1 .. k + 1 \in SUBSET (1 .. n) /\ 1 .. k + 1 # {}
    OBVIOUS
  <1>2. Walk!Max(1 .. k + 1) = k + 1
    BY <1>1, LargestOfInterval
  <1>3. (1 .. k + 1) \ {k + 1} = 1 .. k
    BY <1>1
  <1> QED BY <1>1, <1>2, <1>3 DEF TakenBody, TakenOn

-----------------------------------------------------------------------------
(* Walks: the cursor and what is collected up to it *)

Rows == DOMAIN device.value
ColumnOf(columns, f) == Walk!At(columns, f, <<>>)

\* Part of a column of the table: instances it has, with their values where nothing is
\* marked.
PartOf(columns, f) ==
    LET col == ColumnOf(columns, f)
        whole == Walk!Column(f)
    IN  /\ col = [i \in DOMAIN col |-> col[i]]
        /\ DOMAIN col \subseteq DOMAIN whole
        /\ \A i \in DOMAIN col : <<f, i>> \notin Walk!Marked(f) => col[i] = device.value[<<f, i>>]

Whole(columns, f) == ColumnOf(columns, f) = Walk!Column(f)

\* The cursor c stands in the column f: at its head or at one of its rows.
InColumn(c, f) == c = <<f, 0>> \/ (c \in Rows /\ c[1] = f)

\* Everything up to the cursor is collected; the last instance seen is the cursor's; an
\* error is the end of the view.
UpTo(s, f) ==
    /\ InColumn(s.oid, f)
    /\ \A o \in Rows : o[1] = f /\ (o = s.oid \/ Walk!Less(o, s.oid)) => o[2] \in DOMAIN ColumnOf(s.out, f)
    /\ s.oid \in Rows => s.lastIid = s.oid[2]
    /\ s.oid \notin Rows => s.lastIid \in {None, 0}
    /\ s.errored \in BOOLEAN
    /\ s.errored => s.oid \notin DOMAIN device.next /\ Whole(s.out, f)

WalkedTo(s, f) ==
    /\ PartOf(s.out, f)
    /\ IF s.thisF = f THEN UpTo(s, f) ELSE Whole(s.out, f)

-----------------------------------------------------------------------------
(* Walks: the rows of a conforming device *)

\* Columns and instances are numbers; what is named is named in order.
Sound(f) ==
    /\ Walk!Conforming /\ f \in Nat /\ f \in Walk!Range(wanted)
    /\ Rows \subseteq Nat \X (Nat \ {0}) /\ None \notin Nat

LEMMA RowIsPair ==
    ASSUME NEW f, Sound(f), NEW o \in Rows
    PROVE  o = <<o[1], o[2]>> /\ o[1] \in Nat /\ o[2] \in Nat /\ o[2] > 0
  BY DEF Sound

\* With a later row the cursor has a successor, the first of them.
LEMMA NextIsFirst ==
    ASSUME NEW f, Sound(f), NEW c \in DOMAIN device.next
    PROVE  /\ device.next[c] \in Rows /\ Walk!Less(c, device.next[c])
           /\ \A p \in Rows : Walk!Less(c, p) => p = device.next[c] \/ Walk!Less(device.next[c], p)
  BY DEF Sound, Walk!Conforming, Walk!Later, Rows

LEMMA LaterHasNext ==
    ASSUME NEW f, Sound(f), NEW c, c = <<f, 0>> \/ c \in Rows, NEW p \in Rows, Walk!Less(c, p)
    PROVE  c \in DOMAIN device.next
  BY DEF Sound, Walk!Conforming, Walk!Later, Rows

\* The marks are in the column's first place, or rows after which there is none.
LEMMA MarkedIsLast ==
    ASSUME NEW f, Sound(f), NEW o \in Walk!Marked(f)
    PROVE  \/ <<f, 0>> \notin DOMAIN device.next /\ o = <<f, 0>>
           \/ o \in Rows /\ o[1] = f /\ o \notin DOMAIN device.next
  BY DEF Walk!Marked, Walk!LastOfView, Rows

LEMMA WholeDomain ==
    ASSUME NEW f, NEW i
    PROVE  i \in DOMAIN Walk!Column(f)
             <=> \E o \in Walk!Instances(f) \cup Walk!Marked(f) : i = o[2]
  BY DEF Walk!Column

LEMMA WholeAt ==
    ASSUME NEW f, NEW i \in DOMAIN Walk!Column(f)
    PROVE  Walk!Column(f)[i] = IF <<f, i>> \in Walk!Marked(f) THEN NoMoreMib
                               ELSE device.value[<<f, i>>]
  BY DEF Walk!Column

LEMMA WholeIsFunction ==
    ASSUME NEW f
    PROVE  Walk!Column(f) = [i \in DOMAIN Walk!Column(f) |-> Walk!Column(f)[i]]
  BY DEF Walk!Column

\* A part that has all instances, and the marks with their value, is the whole.
LEMMA PartIsWhole ==
    ASSUME NEW columns, NEW f, PartOf(columns, f),
           \A o \in Walk!Instances(f) \cup Walk!Marked(f) : o[2] \in DOMAIN ColumnOf(columns, f),
           \A o \in Walk!Marked(f) : o = <<f, o[2]>> /\ ColumnOf(columns, f)[o[2]] = NoMoreMib
    PROVE  Whole(columns, f)
  <1> DEFINE col == ColumnOf(columns, f)
             whole == Walk!Column(f)
  <1>1. col = [i \in DOMAIN col |-> col[i]] /\ DOMAIN col \subseteq DOMAIN whole
    BY DEF PartOf
  <1>2. ASSUME NEW i \in DOMAIN whole PROVE i \in DOMAIN col
    <2>1. PICK o \in Walk!Instances(f) \cup Walk!Marked(f) : i = o[2]
      BY Zenon, <1>2, WholeDomain
    <2> QED BY Zenon, <2>1
  <1>3. ASSUME NEW i \in DOMAIN whole PROVE col[i] = whole[i]
    <2>1. CASE <<f, i>> \in Walk!Marked(f)
      <3>1. whole[i] = NoMoreMib
        BY Zenon, <2>1, <1>3, WholeAt
      <3>2. <<f, i>>[2] = i
        OBVIOUS
      <3> QED BY <2>1, <3>1, <3>2
    <2>2. CASE <<f, i>> \notin Walk!Marked(f)
      <3>1. whole[i] = device.value[<<f, i>>]
        BY Zenon, <2>2, <1>3, WholeAt
      <3> QED BY <1>2, <2>2, <1>3, <3>1 DEF PartOf
    <2> QED BY <2>1, <2>2
  <1>4. whole = [i \in DOMAIN whole |-> whole[i]]
    BY Zenon, WholeIsFunction
  <1> HIDE DEF col, whole
  <1>5. DOMAIN col = DOMAIN whole
    BY <1>1, <1>2
  <1>6. col = whole
    BY <1>1, <1>3, <1>4, <1>5
  <1> QED BY <1>6 DEF Whole, col, whole

\* Collecting a value changes one column, at one instance.
LEMMA CollectedAt ==
    ASSUME NEW columns, NEW f, NEW iid, NEW v
    PROVE  /\ ColumnOf(Walk!Collected(columns, f, iid, v), f)
                = Walk!With(ColumnOf(columns, f), iid, v)
           /\ \A g : g # f => ColumnOf(Walk!Collected(columns, f, iid, v), g) = ColumnOf(columns, g)
  BY DEF ColumnOf, Walk!Collected, Walk!With, Walk!At

\* A part stays one if an instance is added, with its value or where there is a mark.
LEMMA PartGrows ==
    ASSUME NEW columns, NEW f, PartOf(columns, f), NEW iid \in DOMAIN Walk!Column(f), NEW v,
           <<f, iid>> \notin Walk!Marked(f) => v = device.value[<<f, iid>>]
    PROVE  PartOf(Walk!Collected(columns, f, iid, v), f)
  <1> DEFINE col == ColumnOf(columns, f)
             more == ColumnOf(Walk!Collected(columns, f, iid, v), f)
  <1>1. more = Walk!With(col, iid, v)
    BY CollectedAt
  <1>2. /\ col = [i \in DOMAIN col |-> col[i]] /\ DOMAIN col \subseteq DOMAIN Walk!Column(f)
        /\ \A i \in DOMAIN col : <<f, i>> \notin Walk!Marked(f) => col[i] = device.value[<<f, i>>]
    BY DEF PartOf
  <1> HIDE DEF col, more
  <1>3. more = [i \in DOMAIN more |-> more[i]]
    BY <1>1 DEF Walk!With
  <1>4. DOMAIN more = DOMAIN col \cup {iid} /\ more[iid] = v
        /\ \A i \in DOMAIN col : i # iid => more[i] = col[i]
    BY <1>1 DEF Walk!With
  <1>5. DOMAIN more \subseteq DOMAIN Walk!Column(f)
    BY <1>2, <1>4
  <1>6. \A i \in DOMAIN more : <<f, i>> \notin Walk!Marked(f) => more[i] = device.value[<<f, i>>]
    BY <1>2, <1>4
  <1> QED BY Zenon, <1>3, <1>5, <1>6 DEF PartOf, more

\* The whole is a part of itself.
LEMMA WholeIsPart == ASSUME NEW columns, NEW f, Whole(columns, f) PROVE PartOf(columns, f)
  BY WholeAt, WholeIsFunction DEF Whole, PartOf

\* The record that the items of an answer are folded into.
IsCursor(s) ==
    s = [oid |-> s.oid, thisF |-> s.thisF, lastIid |-> s.lastIid, errored |-> s.errored,
         out |-> s.out]

\* The record s when the identifier c was the last one named.
Stands(s, c) ==
    /\ IsCursor(s) /\ WalkedTo(s, name)
    /\ s.thisF = name => c = s.oid
    /\ s.thisF # name => c \in Rows /\ c[1] > name

\* Only the column that is walked is written.
SameElsewhere(new, old) == \A g : g # name => ColumnOf(new, g) = ColumnOf(old, g)

\* An item of the column.
LEMMA TakenInColumn ==
    ASSUME Sound(name), NEW s, IsCursor(s), WalkedTo(s, name), s.thisF = name,
           s.oid \in DOMAIN device.next, device.next[s.oid][1] = name
    PROVE  /\ Stands(Walk!Taken(s, Walk!Named(s.oid)), Walk!Named(s.oid).oid)
           /\ SameElsewhere(Walk!Taken(s, Walk!Named(s.oid)).out, s.out)
  <1> DEFINE c == s.oid
             p == device.next[c]
             n == Walk!Taken(s, Walk!Named(c))
  <1>1. p \in Rows /\ Walk!Less(c, p)
        /\ \A o \in Rows : Walk!Less(c, o) => o = p \/ Walk!Less(p, o)
    BY Zenon, NextIsFirst
  <1>2. UpTo(s, name) /\ PartOf(s.out, name)
    BY DEF WalkedTo
  <1>3. p = <<name, p[2]>> /\ p[2] \in Nat /\ p[2] > 0 /\ name \in Nat
    BY <1>1, RowIsPair DEF Sound
  <1>4. InColumn(c, name) /\ c[1] = name /\ c[2] \in Nat
    BY <1>2, RowIsPair DEF UpTo, InColumn, Sound
  <1>5. c[2] < p[2] /\ p[1] = name
    BY <1>1, <1>3, <1>4 DEF Walk!Less
  <1>6. Walk!Named(c) = [oid |-> p, value |-> device.value[p]]
    BY DEF Walk!Named
  <1>7. s.lastIid # p[2]
    BY <1>2, <1>3, <1>5 DEF UpTo, Sound
  <1>8. n = [oid |-> p, thisF |-> name, lastIid |-> p[2], errored |-> s.errored,
             out |-> Walk!Collected(s.out, name, p[2], device.value[p])]
    <2>1. n = [s EXCEPT !.thisF = name, !.oid = p, !.lastIid = p[2],
                        !.errored = s.errored \/ s.lastIid = p[2],
                        !.out = Walk!Collected(s.out, name, p[2], device.value[p])]
      BY <1>5, <1>6 DEF Walk!Taken
    <2>2. (s.errored \/ s.lastIid = p[2]) = s.errored
      BY <1>2, <1>7 DEF UpTo
    <2> HIDE DEF n, p, c
    <2> QED BY <2>1, <2>2 DEF IsCursor
  <1>9. p \in Walk!Instances(name) /\ p[2] \in DOMAIN Walk!Column(name)
    BY <1>1, <1>5, WholeDomain DEF Walk!Instances, Rows
  <1>10. PartOf(n.out, name)
    <2>1. n.out = Walk!Collected(s.out, name, p[2], device.value[p])
      BY <1>8
    <2>2. <<name, p[2]>> = p
      BY <1>3
    <2> HIDE DEF n, p, c
    <2>3. PartOf(Walk!Collected(s.out, name, p[2], device.value[p]), name)
      BY Zenon, <1>2, <1>9, <2>2, PartGrows
    <2> QED BY <2>1, <2>3
  <1>11. /\ n.oid = p /\ n.thisF = name /\ n.lastIid = p[2] /\ n.errored = FALSE
         /\ n.out = Walk!Collected(s.out, name, p[2], device.value[p]) /\ IsCursor(n)
    <2>1. ~s.errored /\ s.errored \in BOOLEAN
      BY <1>2 DEF UpTo
    <2> HIDE DEF n, p, c
    <2> QED BY <1>8, <2>1 DEF IsCursor
  <1>12. p[2] \in DOMAIN ColumnOf(n.out, name)
         /\ DOMAIN ColumnOf(s.out, name) \subseteq DOMAIN ColumnOf(n.out, name)
    <2>1. ColumnOf(n.out, name) = Walk!With(ColumnOf(s.out, name), p[2], device.value[p])
      BY <1>11, CollectedAt
    <2> HIDE DEF n, p, c
    <2> QED BY <2>1 DEF Walk!With
  <1>13. ASSUME NEW o \in Rows, o[1] = name, o = p \/ Walk!Less(o, p)
         PROVE  o[2] \in DOMAIN ColumnOf(n.out, name)
    <2>1. CASE o = c \/ Walk!Less(o, c)
      BY <1>2, <1>12, <1>13, <2>1 DEF UpTo
    <2>2. CASE ~(o = c \/ Walk!Less(o, c))
      <3>1. o = <<o[1], o[2]>> /\ o[2] \in Nat
        BY RowIsPair
      <3>2. c = <<c[1], c[2]>>
        BY <1>4, RowIsPair DEF InColumn
      <3>3. Walk!Less(c, o)
        BY <1>3, <1>4, <1>13, <2>2, <3>1, <3>2 DEF Walk!Less
      <3>4. o = p \/ Walk!Less(p, o)
        BY <1>1, <3>3
      <3>5. ~Walk!Less(p, o) \/ ~Walk!Less(o, p)
        BY <1>3, <1>13, <3>1 DEF Walk!Less
      <3>6. o = p
        BY <1>3, <1>13, <3>1, <3>4, <3>5 DEF Walk!Less
      <3> QED BY <1>12, <3>6
    <2> QED BY <2>1, <2>2
  <1>14. InColumn(p, name)
    BY <1>1, <1>5 DEF InColumn
  <1> HIDE DEF n, p, c
  <1>15. UpTo(n, name)
    BY <1>1, <1>11, <1>13, <1>14 DEF UpTo
  <1>16. WalkedTo(n, name)
    BY <1>10, <1>11, <1>15 DEF WalkedTo
  <1>17. Stands(n, p)
    BY <1>11, <1>16 DEF Stands
  <1>18. \A g : g # name => ColumnOf(n.out, g) = ColumnOf(s.out, g)
    BY <1>11, CollectedAt
  <1>19. Walk!Named(c).oid = p
    BY <1>6
  <1> QED BY <1>17, <1>18, <1>19 DEF n, p, c, SameElsewhere

\* The first item of a later column: this one is whole, and nothing of it is marked.
LEMMA TakenLeaves ==
    ASSUME Sound(name), NEW s, IsCursor(s), WalkedTo(s, name), s.thisF = name,
           s.oid \in DOMAIN device.next, device.next[s.oid][1] # name
    PROVE  /\ Stands(Walk!Taken(s, Walk!Named(s.oid)), Walk!Named(s.oid).oid)
           /\ SameElsewhere(Walk!Taken(s, Walk!Named(s.oid)).out, s.out)
  <1> DEFINE c == s.oid
             p == device.next[c]
             n == Walk!Taken(s, Walk!Named(c))
  <1>1. p \in Rows /\ Walk!Less(c, p)
        /\ \A o \in Rows : Walk!Less(c, o) => o = p \/ Walk!Less(p, o)
    BY Zenon, NextIsFirst
  <1>2. UpTo(s, name) /\ PartOf(s.out, name)
    BY DEF WalkedTo
  <1>3. p = <<p[1], p[2]>> /\ p[1] \in Nat /\ p[2] \in Nat /\ p[2] > 0 /\ name \in Nat
    BY <1>1, RowIsPair DEF Sound
  <1>4. InColumn(c, name) /\ c = <<name, c[2]>> /\ c[1] = name /\ c[2] \in Nat
    BY <1>2, RowIsPair DEF UpTo, InColumn, Sound
  <1>5. p[1] > name
    BY <1>1, <1>3, <1>4 DEF Walk!Less
  <1>6. n = [s EXCEPT !.thisF = p[1]] /\ Walk!Named(c).oid = p
    BY DEF Walk!Taken, Walk!Named
  <1>7. n.thisF = p[1] /\ n.out = s.out /\ IsCursor(n)
    <2> HIDE DEF n, p, c
    <2> QED BY <1>6 DEF IsCursor
  <1>8. ASSUME NEW o \in Rows, o[1] = name
        PROVE  o[2] \in DOMAIN ColumnOf(s.out, name) /\ o \in DOMAIN device.next
    <2>1. o = <<o[1], o[2]>> /\ o[2] \in Nat
      BY RowIsPair
    <2>2. ~(Walk!Less(c, o))
      BY <1>1, <1>3, <1>5, <1>8, <2>1 DEF Walk!Less
    <2>3. o = c \/ Walk!Less(o, c)
      BY <1>4, <1>8, <2>1, <2>2 DEF Walk!Less
    <2>4. Walk!Less(o, p)
      BY <1>3, <1>5, <1>8, <2>1 DEF Walk!Less
    <2> QED BY <1>1, <1>2, <1>8, <2>3, <2>4, LaterHasNext DEF UpTo
  <1>9. <<name, 0>> \in DOMAIN device.next
    <2>1. Walk!Less(<<name, 0>>, p)
      BY <1>3, <1>5 DEF Walk!Less
    <2> QED BY <1>1, <2>1, LaterHasNext
  <1>10. Walk!Marked(name) = {}
    BY <1>8, <1>9 DEF Walk!Marked, Walk!LastOfView, Rows
  <1>11. Whole(s.out, name)
    <2>1. \A o \in Walk!Instances(name) : o[2] \in DOMAIN ColumnOf(s.out, name)
      BY <1>8 DEF Walk!Instances, Rows
    <2> QED BY <1>2, <1>10, <2>1, PartIsWhole
  <1> HIDE DEF n, p, c
  <1>12. Stands(n, p)
    BY <1>1, <1>2, <1>3, <1>5, <1>7, <1>11 DEF Stands, WalkedTo
  <1>13. SameElsewhere(n.out, s.out)
    BY <1>7 DEF SameElsewhere
  <1> QED BY <1>6, <1>12, <1>13 DEF n, p, c

\* After the last row of all there is nothing: the cursor is named again, with the mark.
LEMMA TakenAtEnd ==
    ASSUME Sound(name), NEW s, IsCursor(s), WalkedTo(s, name), s.thisF = name,
           s.oid \notin DOMAIN device.next
    PROVE  /\ Stands(Walk!Taken(s, Walk!Named(s.oid)), Walk!Named(s.oid).oid)
           /\ SameElsewhere(Walk!Taken(s, Walk!Named(s.oid)).out, s.out)
  <1> DEFINE c == s.oid
             n == Walk!Taken(s, Walk!Named(c))
  <1>1. UpTo(s, name) /\ PartOf(s.out, name)
    BY DEF WalkedTo
  <1>2. InColumn(c, name) /\ c = <<name, c[2]>> /\ c[1] = name /\ c[2] \in Nat /\ name \in Nat
    BY <1>1, RowIsPair DEF UpTo, InColumn, Sound
  <1>3. \A p \in Rows : ~Walk!Less(c, p)
    BY <1>2, LaterHasNext DEF InColumn
  <1>4. Walk!Named(c) = [oid |-> c, value |-> NoMoreMib]
    BY DEF Walk!Named
  <1>5. n = [s EXCEPT !.thisF = name, !.oid = c, !.lastIid = c[2],
                      !.errored = s.errored \/ s.lastIid = c[2],
                      !.out = Walk!Collected(s.out, name, c[2], NoMoreMib)]
    BY <1>2, <1>4 DEF Walk!Taken
  <1>6. /\ n.oid = c /\ n.thisF = name /\ n.lastIid = c[2] /\ n.errored \in BOOLEAN
        /\ n.out = Walk!Collected(s.out, name, c[2], NoMoreMib) /\ IsCursor(n)
    <2> HIDE DEF n, c
    <2> QED BY <1>5 DEF IsCursor
  <1>7. Walk!Marked(name) = {c}
    <2>1. CASE c = <<name, 0>>
      BY <2>1 DEF Walk!Marked
    <2>2. CASE c # <<name, 0>>
      <3>1. c \in Rows /\ c[2] > 0
        BY <1>2, <2>2, RowIsPair DEF InColumn
      <3>2. Walk!Less(<<name, 0>>, c)
        BY <1>2, <3>1 DEF Walk!Less
      <3>3. <<name, 0>> \in DOMAIN device.next
        BY <3>1, <3>2, LaterHasNext
      <3>4. ASSUME NEW o \in Rows, o[1] = name, o \notin DOMAIN device.next PROVE o = c
        <4>1. o = <<o[1], o[2]>> /\ o[2] \in Nat
          BY RowIsPair
        <4>2. ~Walk!Less(o, c)
          BY <3>1, <3>4, LaterHasNext
        <4>3. ~Walk!Less(c, o)
          BY <1>3
        <4> QED BY <1>2, <3>4, <4>1, <4>2, <4>3 DEF Walk!Less
      <3>5. Walk!Marked(name) = {o \in Walk!LastOfView : o[1] = name}
        BY <3>3 DEF Walk!Marked
      <3>6. c \in Walk!LastOfView
        BY <3>1 DEF Walk!LastOfView, Rows
      <3> QED BY <1>2, <3>4, <3>5, <3>6 DEF Walk!LastOfView, Rows
    <2> QED BY <2>1, <2>2
  <1>8. c[2] \in DOMAIN Walk!Column(name)
    BY <1>7, WholeDomain
  <1>9. PartOf(n.out, name)
    <2>1. <<name, c[2]>> \in Walk!Marked(name)
      BY <1>2, <1>7
    <2> HIDE DEF n, c
    <2>2. PartOf(Walk!Collected(s.out, name, c[2], NoMoreMib), name)
      BY Zenon, <1>1, <1>8, <2>1, PartGrows
    <2> QED BY <1>6, <2>2
  <1>10. /\ DOMAIN ColumnOf(n.out, name) = DOMAIN ColumnOf(s.out, name) \cup {c[2]}
         /\ ColumnOf(n.out, name)[c[2]] = NoMoreMib
    <2>1. ColumnOf(n.out, name) = Walk!With(ColumnOf(s.out, name), c[2], NoMoreMib)
      BY <1>6, CollectedAt
    <2> HIDE DEF n, c
    <2> QED BY <2>1 DEF Walk!With
  <1>11. ASSUME NEW o \in Rows, o[1] = name PROVE o[2] \in DOMAIN ColumnOf(n.out, name)
    <2>1. o = <<o[1], o[2]>> /\ o[2] \in Nat
      BY RowIsPair
    <2>2. o = c \/ Walk!Less(o, c)
      BY <1>2, <1>3, <1>11, <2>1 DEF Walk!Less
    <2>3. o[2] \in DOMAIN ColumnOf(s.out, name)
      BY <1>1, <1>11, <2>2 DEF UpTo
    <2> QED BY <1>10, <2>3
  <1>12. Whole(n.out, name)
    <2>1. \A o \in Walk!Instances(name) \cup Walk!Marked(name) :
              o[2] \in DOMAIN ColumnOf(n.out, name)
      BY <1>7, <1>10, <1>11 DEF Walk!Instances, Rows
    <2>2. \A o \in Walk!Marked(name) :
              o = <<name, o[2]>> /\ ColumnOf(n.out, name)[o[2]] = NoMoreMib
      BY <1>2, <1>7, <1>10
    <2> QED BY <1>9, <2>1, <2>2, PartIsWhole
  <1> HIDE DEF n
  <1>13. UpTo(n, name)
    <2>1. n.oid \notin Rows => n.lastIid \in {None, 0}
      BY <1>2, <1>6 DEF InColumn
    <2> HIDE DEF c
    <2> QED BY <1>2, <1>6, <1>11, <1>12, <2>1 DEF UpTo, c
  <1>14. Stands(n, c)
    BY <1>6, <1>9, <1>13 DEF Stands, WalkedTo
  <1>15. SameElsewhere(n.out, s.out)
    BY <1>6, CollectedAt DEF SameElsewhere
  <1>16. Walk!Named(c).oid = c
    BY <1>4
  <1> QED BY <1>14, <1>15, <1>16 DEF n, c

\* Past the column, items are only looked at, and never come back to it.
LEMMA TakenBeyond ==
    ASSUME Sound(name), NEW s, NEW c, Stands(s, c), s.thisF # name
    PROVE  /\ Stands(Walk!Taken(s, Walk!Named(c)), Walk!Named(c).oid)
           /\ SameElsewhere(Walk!Taken(s, Walk!Named(c)).out, s.out)
  <1> DEFINE p == Walk!Named(c).oid
             n == Walk!Taken(s, Walk!Named(c))
  <1>1. c \in Rows /\ c[1] > name /\ IsCursor(s) /\ WalkedTo(s, name)
    BY DEF Stands
  <1>2. c[1] \in Nat /\ name \in Nat
    BY <1>1, RowIsPair DEF Sound
  <1>3. p \in Rows /\ p[1] > name /\ p[1] \in Nat
    <2>1. CASE c \in DOMAIN device.next
      <3>1. p = device.next[c]
        BY <2>1 DEF Walk!Named
      <3>2. p \in Rows /\ Walk!Less(c, p)
        BY Zenon, <2>1, <3>1, NextIsFirst
      <3>3. p[1] \in Nat
        BY <3>2, RowIsPair
      <3> QED BY <1>1, <1>2, <3>2, <3>3 DEF Walk!Less
    <2>2. CASE c \notin DOMAIN device.next
      <3>1. p = c
        BY <2>2 DEF Walk!Named
      <3> QED BY <1>1, <1>2, <3>1
    <2> QED BY <2>1, <2>2
  <1>4. n = [s EXCEPT !.thisF = p[1]]
    BY <1>2, <1>3 DEF Walk!Taken
  <1>5. n.thisF = p[1] /\ n.out = s.out /\ IsCursor(n)
    <2> HIDE DEF n, p
    <2> QED BY <1>1, <1>4 DEF IsCursor
  <1> HIDE DEF n, p
  <1>6. Stands(n, p)
    BY <1>1, <1>2, <1>3, <1>5 DEF Stands, WalkedTo
  <1> QED BY <1>5, <1>6 DEF SameElsewhere, n, p

LEMMA TakenStep ==
    ASSUME Sound(name), NEW s, NEW c, Stands(s, c)
    PROVE  /\ Stands(Walk!Taken(s, Walk!Named(c)), Walk!Named(c).oid)
           /\ SameElsewhere(Walk!Taken(s, Walk!Named(c)).out, s.out)
  <1>1. CASE s.thisF # name
    BY <1>1, TakenBeyond
  <1>2. CASE s.thisF = name
    <2>1. c = s.oid /\ IsCursor(s) /\ WalkedTo(s, name)
      BY <1>2 DEF Stands
    <2>2. CASE s.oid \notin DOMAIN device.next
      BY Zenon, <1>2, <2>1, <2>2, TakenAtEnd
    <2>3. CASE s.oid \in DOMAIN device.next /\ device.next[s.oid][1] = name
      BY Zenon, <1>2, <2>1, <2>3, TakenInColumn
    <2>4. CASE s.oid \in DOMAIN device.next /\ device.next[s.oid][1] # name
      BY Zenon, <1>2, <2>1, <2>4, TakenLeaves
    <2> QED BY <2>2, <2>3, <2>4
  <1> QED BY <1>1, <1>2

\* A whole answer.
LEMMA AnswerTaken ==
    ASSUME Sound(name), NEW s, Stands(s, s.oid), NEW n \in Nat
    PROVE  LET t == Walk!FoldLeft(Walk!Taken, s, Walk!Successors(s.oid, n))
           IN  IsCursor(t) /\ WalkedTo(t, name) /\ SameElsewhere(t.out, s.out)
  <1> DEFINE r == Walk!Successors(s.oid, n)
  <1>1. r = [k \in 1 .. n |-> Walk!Named(IF k = 1 THEN s.oid ELSE r[k - 1].oid)]
    BY SuccessorsAreItems DEF ItemsOf
  <1>2. DOMAIN r = 1 .. n
    BY <1>1
  <1> HIDE DEF r
  <1>3. PICK g : TakenOn(g, s, r, n) /\ Walk!FoldLeft(Walk!Taken, s, r) = g[1 .. n]
    BY <1>2, TakenUnfolds
  <1> DEFINE last(k) == IF k = 0 THEN s.oid ELSE r[k].oid
             Ok(k) == Stands(g[1 .. k], last(k)) /\ SameElsewhere(g[1 .. k].out, s.out)
  <1>4. Ok(0)
    <2>1. g[1 .. 0] = s
      BY <1>3, TakenFirst
    <2>2. last(0) = s.oid
      OBVIOUS
    <2>3. SameElsewhere(s.out, s.out)
      BY DEF SameElsewhere
    <2> HIDE DEF last
    <2> QED BY ONLY Zenon, Stands(s, s.oid), <2>1, <2>2, <2>3
  <1>5. ASSUME NEW k \in 0 .. n, k # n, Ok(k) PROVE Ok(k + 1)
    <2>1. g[1 .. k + 1] = Walk!Taken(g[1 .. k], r[k + 1])
      <3>1. \A j \in 0 .. n : j # n => g[1 .. j + 1] = Walk!Taken(g[1 .. j], r[j + 1])
        BY <1>3, TakenNext
      <3> QED BY ONLY Zenon, <1>5, <3>1
    <2>2. r[k + 1] = Walk!Named(last(k))
      <3>1. k + 1 \in 1 .. n /\ (k + 1) - 1 = k /\ (k + 1 = 1 <=> k = 0)
        BY <1>5
      <3> QED BY <1>1, <3>1
    <2>3. last(k + 1) = r[k + 1].oid
      BY <1>5
    <2> HIDE DEF last
    <2>4. /\ Stands(Walk!Taken(g[1 .. k], Walk!Named(last(k))), Walk!Named(last(k)).oid)
          /\ SameElsewhere(Walk!Taken(g[1 .. k], Walk!Named(last(k))).out, g[1 .. k].out)
      BY Zenon, <1>5, TakenStep
    <2> QED BY <1>5, <2>1, <2>2, <2>3, <2>4 DEF SameElsewhere
  <1>6. Ok(n)
    <2> HIDE DEF Ok
    <2> SUFFICES ASSUME ~Ok(n) PROVE FALSE
      OBVIOUS
    <2> DEFINE Bad == {k \in 0 .. n : ~Ok(k)}
    <2>1. n \in Bad /\ Bad \in SUBSET Nat
      OBVIOUS
    <2>2. PICK d \in Bad : \A x \in Bad : d <= x
      BY <2>1, SmallestNat
    <2>3. d # 0 /\ d \in 0 .. n
      BY <1>4, <2>2
    <2>4. d - 1 \in 0 .. n /\ d - 1 \notin Bad /\ d - 1 # n
      BY <2>2, <2>3
    <2>5. Ok((d - 1) + 1)
      BY <1>5, <2>4
    <2> QED BY <2>2, <2>3, <2>5
  <1> QED BY <1>3, <1>6 DEF Stands, r

-----------------------------------------------------------------------------
(* Walks: the inductive invariant *)

Cursor == [oid |-> oid, thisF |-> thisF, lastIid |-> lastIid, errored |-> errored, out |-> out]

\* Variables are walked in turn; those neither to be walked nor being walked are.
ToWalk == /\ todo \in Seq(Nat) /\ Walk!Range(todo) \subseteq Walk!Range(wanted)
          /\ wanted \in Seq(Nat)
          /\ name \in Walk!Range(wanted) \cup {None}
          /\ stage = "ended" => todo = <<>> /\ name = None

ColumnsWalked ==
    Walk!Conforming =>
        /\ \A f \in Walk!Range(wanted) : PartOf(out, f)
        /\ \A f \in Walk!Range(wanted) \ (Walk!Range(todo) \cup {name}) : Whole(out, f)
        /\ name # None => WalkedTo(Cursor, name)

WalkInv == device \in Devices /\ ToWalk /\ ColumnsWalked

LEMMA WalkInit == Walk!Init => WalkInv
  <1> SUFFICES ASSUME Walk!Init PROVE WalkInv
    OBVIOUS
  <1>1. wanted \in Seq(Nat) /\ todo = wanted /\ name = None /\ out = <<>> /\ stage = "closed"
        /\ device \in Devices
    BY PollingAssumption DEF Walk!Init, Walk!WalkAssumption
  <1>2. ASSUME NEW f PROVE PartOf(out, f)
    <2>1. ColumnOf(out, f) = <<>>
      BY <1>1 DEF ColumnOf, Walk!At
    <2> QED BY <2>1 DEF PartOf
  <1>3. ToWalk
    BY <1>1 DEF ToWalk
  <1>4. ColumnsWalked
    BY <1>1, <1>2 DEF ColumnsWalked
  <1> QED BY <1>1, <1>3, <1>4 DEF WalkInv

\* In the invariant, the columns walked are those of a table in order.
LEMMA WalkedIsSound ==
    ASSUME WalkInv, Walk!Conforming, NEW f \in Walk!Range(wanted)
    PROVE  Sound(f)
  <1>1. f \in Nat
    BY DEF WalkInv, ToWalk, Walk!Range
  <1>2. Rows \subseteq Nat \X (Nat \ {0}) /\ None \notin Nat
    BY PollingAssumption DEF WalkInv, Rows, Walk!WalkAssumption
  <1> QED BY <1>1, <1>2 DEF Sound

\* The head and the rest of what is left.
LEMMA HeadAndTail ==
    ASSUME NEW q \in Seq(Nat), q # <<>>
    PROVE  /\ Head(q) \in Walk!Range(q) /\ Tail(q) \in Seq(Nat)
           /\ Walk!Range(q) = Walk!Range(Tail(q)) \cup {Head(q)}
  <1>1. /\ Len(q) \in Nat \ {0} /\ DOMAIN q = 1 .. Len(q) /\ Head(q) = q[1]
        /\ Tail(q) \in Seq(Nat) /\ DOMAIN Tail(q) = 1 .. Len(q) - 1
        /\ \A i \in 1 .. Len(q) - 1 : Tail(q)[i] = q[i + 1]
    OBVIOUS
  <1>2. 1 \in DOMAIN q
    BY <1>1
  <1>3. ASSUME NEW x \in Walk!Range(q) PROVE x \in Walk!Range(Tail(q)) \cup {Head(q)}
    <2>1. PICK i \in DOMAIN q : x = q[i]
      BY <1>3 DEF Walk!Range
    <2>2. CASE i = 1
      BY <1>1, <2>1, <2>2
    <2>3. CASE i # 1
      <3>1. i - 1 \in 1 .. Len(q) - 1 /\ (i - 1) + 1 = i
        BY <1>1, <2>3
      <3> QED BY <1>1, <2>1, <3>1 DEF Walk!Range
    <2> QED BY <2>2, <2>3
  <1>4. ASSUME NEW x \in Walk!Range(Tail(q)) PROVE x \in Walk!Range(q)
    <2>1. PICK i \in 1 .. Len(q) - 1 : x = Tail(q)[i]
      BY <1>1, <1>4 DEF Walk!Range
    <2>2. i + 1 \in DOMAIN q
      BY <1>1, <2>1
    <2> QED BY <1>1, <2>1, <2>2 DEF Walk!Range
  <1>5. Head(q) \in Walk!Range(q)
    BY <1>1, <1>2 DEF Walk!Range
  <1> QED BY <1>1, <1>3, <1>4, <1>5

\* As long as the device is the same, what is said of columns is said of the same table.
LEMMA SameTable ==
    ASSUME device' = device, wanted' = wanted
    PROVE  /\ Walk!Conforming' <=> Walk!Conforming
           /\ \A g : PartOf(out, g)' <=> PartOf(out', g)
           /\ \A g : Whole(out, g)' <=> Whole(out', g)
           /\ WalkedTo(Cursor, name)' <=> WalkedTo(Cursor', name')
  <1> USE DEF ColumnOf, Walk!Column, Walk!Marked, Walk!Instances, Walk!LastOfView, Rows
  <1>1. Walk!Conforming' <=> Walk!Conforming
    BY DEF Walk!Conforming, Walk!Later
  <1>2. \A g : PartOf(out, g)' <=> PartOf(out', g)
    BY DEF PartOf
  <1>3. \A g : Whole(out, g)' <=> Whole(out', g)
    BY DEF Whole
  <1>4. WalkedTo(Cursor, name)' <=> WalkedTo(Cursor', name')
    BY DEF WalkedTo, UpTo, InColumn, PartOf, Whole, Cursor
  <1> QED BY <1>1, <1>2, <1>3, <1>4

\* Steps that leave the table and what is collected alone.
LEMMA SameColumns ==
    ASSUME WalkInv, device' = device, wanted' = wanted, out' = out, Walk!Conforming'
    PROVE  /\ Walk!Conforming
           /\ \A g \in Walk!Range(wanted) : PartOf(out, g)'
           /\ \A g \in Walk!Range(wanted) \ (Walk!Range(todo) \cup {name}) : Whole(out, g)'
  BY SameTable DEF WalkInv, ColumnsWalked

LEMMA BeginKeeps == WalkInv /\ Walk!Begin => WalkInv'
  <1> SUFFICES ASSUME WalkInv, Walk!Begin PROVE WalkInv'
    OBVIOUS
  <1> DEFINE f == Head(todo)
  <1>1. /\ stage = "open" /\ stage' = stage /\ name = None /\ todo # <<>> /\ todo' = Tail(todo)
        /\ name' = f /\ thisF' = f /\ oid' = <<f, 0>> /\ lastIid' = None /\ errored' = FALSE
        /\ device' = device /\ wanted' = wanted /\ out' = out
    BY DEF Walk!Begin
  <1>2. todo \in Seq(Nat) /\ Walk!Range(todo) \subseteq Walk!Range(wanted) /\ wanted \in Seq(Nat)
    BY DEF WalkInv, ToWalk
  <1>3. /\ f \in Walk!Range(todo) /\ Tail(todo) \in Seq(Nat)
        /\ Walk!Range(todo) = Walk!Range(Tail(todo)) \cup {f}
    BY <1>1, <1>2, HeadAndTail
  <1>4. ToWalk'
    BY <1>1, <1>2, <1>3 DEF ToWalk, Walk!Range
  <1>5. ASSUME Walk!Conforming'
        PROVE  /\ \A g \in Walk!Range(wanted') : PartOf(out, g)'
               /\ \A g \in Walk!Range(wanted') \ (Walk!Range(todo') \cup {name'}) : Whole(out, g)'
               /\ WalkedTo(Cursor, name)'
    <2>1. /\ Walk!Conforming
          /\ \A g \in Walk!Range(wanted) : PartOf(out, g)'
          /\ \A g \in Walk!Range(wanted) \ (Walk!Range(todo) \cup {name}) : Whole(out, g)'
      BY Zenon, <1>1, <1>5, SameColumns
    <2>2. Sound(f)
      BY <1>2, <1>3, <2>1, WalkedIsSound
    <2>3. None \notin Walk!Range(wanted)
      BY <1>2, <2>2 DEF Sound, Walk!Range
    <2>4. PartOf(out', f)
      BY <1>1, <1>2, <1>3, <2>1, SameTable
    <2>5. UpTo(Cursor', f)
      <3>1. /\ Cursor'.oid = <<f, 0>> /\ Cursor'.lastIid = None /\ Cursor'.errored = FALSE
            /\ Cursor'.thisF = f /\ Cursor'.out = out'
        BY <1>1 DEF Cursor
      <3>2. ASSUME NEW o \in Rows PROVE o # <<f, 0>> /\ ~(o[1] = f /\ Walk!Less(o, <<f, 0>>))
        <4>1. o = <<o[1], o[2]>> /\ o[2] \in Nat /\ o[2] > 0 /\ o[1] \in Nat
          BY <2>2, RowIsPair
        <4> QED BY <4>1, <2>2 DEF Walk!Less, Sound
      <3> QED BY <3>1, <3>2 DEF UpTo, InColumn
    <2>6. WalkedTo(Cursor', f)
      BY <1>1, <2>4, <2>5 DEF WalkedTo, Cursor
    <2>7. Walk!Range(wanted') \ (Walk!Range(todo') \cup {name'})
             = Walk!Range(wanted) \ (Walk!Range(todo) \cup {name})
      BY <1>1, <1>3, <2>3 DEF Walk!Range
    <2> QED BY <1>1, <2>1, <2>6, <2>7, SameTable
  <1>6. ColumnsWalked'
    BY <1>5 DEF ColumnsWalked, Walk!Range
  <1> QED BY <1>1, <1>4, <1>6 DEF WalkInv

LEMMA RequestKeeps == WalkInv /\ Walk!Request => WalkInv'
  <1> SUFFICES ASSUME WalkInv, Walk!Request PROVE WalkInv'
    OBVIOUS
  <1>1. /\ stage' = stage /\ name # None /\ name' = name /\ thisF = name /\ errored = FALSE
        /\ device' = device /\ wanted' = wanted /\ todo' = todo
    BY DEF Walk!Request, WalkInv
  <1>2. ToWalk'
    BY <1>1 DEF WalkInv, ToWalk, Walk!Range
  <1>3. ASSUME Walk!Conforming'
        PROVE  /\ \A g \in Walk!Range(wanted) : PartOf(out, g)'
               /\ \A g \in Walk!Range(wanted) \ (Walk!Range(todo) \cup {name}) : Whole(out, g)'
               /\ WalkedTo(Cursor, name)'
    <2>1. Walk!Conforming /\ WalkedTo(Cursor, name) /\ name \in Walk!Range(wanted)
      BY <1>1, <1>3, SameTable DEF WalkInv, ColumnsWalked, ToWalk
    <2>2. Sound(name)
      BY <2>1, WalkedIsSound
    <2>3. IsCursor(Cursor) /\ Cursor.thisF = name /\ Cursor.oid = oid /\ Cursor.out = out
      BY <1>1 DEF IsCursor, Cursor
    <2>4. Stands(Cursor, Cursor.oid)
      BY <2>1, <2>3 DEF Stands
    <2>5. PICK n \in Nat : Walk!Successors(oid, n) \in Walk!Responses(oid) /\
             LET s == Walk!FoldLeft(Walk!Taken, Cursor, Walk!Successors(oid, n))
             IN  /\ oid' = s.oid /\ thisF' = s.thisF /\ lastIid' = s.lastIid
                 /\ errored' = s.errored /\ out' = s.out
      <3>1. oid \notin device.mute
        BY <2>1 DEF Walk!Conforming
      <3>2. Walk!Responses(oid) = {Walk!Successors(oid, n) : n \in 1 .. MaxRepeaters}
        BY <3>1 DEF Walk!Responses
      <3>3. PICK r \in Walk!Responses(oid) :
               LET s == Walk!FoldLeft(Walk!Taken, Cursor, r)
               IN  /\ oid' = s.oid /\ thisF' = s.thisF /\ lastIid' = s.lastIid
                   /\ errored' = s.errored /\ out' = s.out
        BY DEF Walk!Request, Cursor
      <3>4. PICK n \in 1 .. MaxRepeaters : r = Walk!Successors(oid, n)
        BY <3>2, <3>3
      <3> QED BY <3>2, <3>3, <3>4
    <2> DEFINE s == Walk!FoldLeft(Walk!Taken, Cursor, Walk!Successors(oid, n))
    <2>6. IsCursor(s) /\ WalkedTo(s, name) /\ SameElsewhere(s.out, out)
      BY <2>2, <2>3, <2>4, AnswerTaken
    <2>7. Cursor' = s /\ out' = s.out
      <3>1. Cursor' = [oid |-> s.oid, thisF |-> s.thisF, lastIid |-> s.lastIid,
                       errored |-> s.errored, out |-> s.out] /\ out' = s.out
        BY <2>5 DEF Cursor
      <3> HIDE DEF s
      <3> QED BY <3>1, <2>6 DEF IsCursor
    <2> HIDE DEF s
    <2>8. /\ \A g \in Walk!Range(wanted) : PartOf(out, g)
          /\ \A g \in Walk!Range(wanted) \ (Walk!Range(todo) \cup {name}) : Whole(out, g)
      BY <2>1 DEF WalkInv, ColumnsWalked
    <2>9. ASSUME NEW g \in Walk!Range(wanted) PROVE PartOf(out', g)
      <3>1. CASE g = name
        BY <2>6, <2>7, <3>1 DEF WalkedTo
      <3>2. CASE g # name
        <4>1. ColumnOf(out', g) = ColumnOf(out, g)
          BY <2>6, <2>7, <3>2 DEF SameElsewhere
        <4> QED BY <2>8, <4>1 DEF PartOf
      <3> QED BY <3>1, <3>2
    <2>10. ASSUME NEW g \in Walk!Range(wanted) \ (Walk!Range(todo) \cup {name})
           PROVE  Whole(out', g)
      <3>1. ColumnOf(out', g) = ColumnOf(out, g)
        BY <2>6, <2>7 DEF SameElsewhere
      <3> QED BY <2>8, <3>1 DEF Whole
    <2>11. WalkedTo(Cursor', name')
      BY <1>1, <2>6, <2>7
    <2> QED BY <1>1, <2>9, <2>10, <2>11, SameTable
  <1>4. ColumnsWalked'
    BY <1>1, <1>3 DEF ColumnsWalked, Walk!Range
  <1> QED BY <1>1, <1>2, <1>4 DEF WalkInv

LEMMA WalkedKeeps == WalkInv /\ Walk!Walked => WalkInv'
  <1> SUFFICES ASSUME WalkInv, Walk!Walked PROVE WalkInv'
    OBVIOUS
  <1>1. /\ stage' = stage /\ stage = "open" /\ name # None /\ name' = None /\ out' = out
        /\ device' = device /\ wanted' = wanted /\ todo' = todo /\ (thisF # name \/ errored)
    BY DEF Walk!Walked
  <1>2. ToWalk'
    BY <1>1 DEF WalkInv, ToWalk, Walk!Range
  <1>3. ASSUME Walk!Conforming'
        PROVE  /\ \A g \in Walk!Range(wanted) : PartOf(out, g)'
               /\ \A g \in Walk!Range(wanted) \ Walk!Range(todo) : Whole(out, g)'
    <2>1. /\ Walk!Conforming
          /\ \A g \in Walk!Range(wanted) : PartOf(out, g)'
          /\ \A g \in Walk!Range(wanted) \ (Walk!Range(todo) \cup {name}) : Whole(out, g)'
      BY Zenon, <1>1, <1>3, SameColumns
    <2>2. WalkedTo(Cursor, name)
      BY <1>1, <2>1 DEF WalkInv, ColumnsWalked
    <2>3. Whole(out, name)
      BY <1>1, <2>2 DEF WalkedTo, UpTo, Cursor
    <2>4. ASSUME NEW g \in Walk!Range(wanted) \ Walk!Range(todo) PROVE Whole(out, g)'
      <3>1. CASE g # name
        BY <2>1, <3>1
      <3>2. CASE g = name
        <4>1. Whole(out', g)
          BY <1>1, <2>3, <3>2
        <4> QED BY <1>1, <4>1, SameTable
      <3> QED BY <3>1, <3>2
    <2> QED BY <2>1, <2>4
  <1>4. ColumnsWalked'
    BY <1>1, <1>3 DEF ColumnsWalked, Walk!Range
  <1> QED BY <1>1, <1>2, <1>4 DEF WalkInv

\* The other agents know their variables as a whole: their devices are not walked.
LEMMA ComponentKeeps == WalkInv /\ Walk!Component => WalkInv'
  <1> SUFFICES ASSUME WalkInv, Walk!Component PROVE WalkInv'
    OBVIOUS
  <1>1. /\ stage' = stage /\ stage = "open" /\ name' = name /\ device' = device /\ wanted' = wanted
        /\ device.agent = "NetConfig" /\ todo # <<>> /\ (todo' = Tail(todo) \/ todo' = <<>>)
    BY DEF Walk!Component, Walk!walk
  <1>2. todo \in Seq(Nat) /\ Walk!Range(todo) \subseteq Walk!Range(wanted)
    BY DEF WalkInv, ToWalk
  <1>3. todo' \in Seq(Nat) /\ Walk!Range(todo') \subseteq Walk!Range(todo)
    <2>1. CASE todo' = Tail(todo)
      BY <1>1, <1>2, <2>1, HeadAndTail
    <2>2. CASE todo' = <<>>
      BY <2>2 DEF Walk!Range
    <2> QED BY <1>1, <2>1, <2>2
  <1>4. ToWalk'
    BY <1>1, <1>2, <1>3 DEF WalkInv, ToWalk, Walk!Range
  <1>5. ~Walk!Conforming'
    BY <1>1 DEF Walk!Conforming
  <1> QED BY <1>1, <1>4, <1>5 DEF WalkInv, ColumnsWalked

LEMMA CommandKeeps == WalkInv /\ Walk!Command => WalkInv'
  <1> SUFFICES ASSUME WalkInv, Walk!Command PROVE WalkInv'
    OBVIOUS
  <1>1. /\ stage' = stage /\ stage = "open" /\ name' = name /\ device' = device /\ wanted' = wanted
        /\ device.agent = "CommandLine" /\ todo' = <<>>
    BY DEF Walk!Command, Walk!walk
  <1>2. ToWalk'
    BY <1>1 DEF WalkInv, ToWalk, Walk!Range
  <1>3. ~Walk!Conforming'
    BY <1>1 DEF Walk!Conforming
  <1> QED BY <1>1, <1>2, <1>3 DEF WalkInv, ColumnsWalked

\* Opening, ending and failing.
LEMMA StageKeeps ==
    ASSUME WalkInv, UNCHANGED <<device, wanted, todo, name, oid, thisF, lastIid, errored, out>>,
           stage' = "ended" => todo = <<>> /\ name = None
    PROVE  WalkInv'
  <1>1. ToWalk'
    BY DEF WalkInv, ToWalk, Walk!Range
  <1>2. ColumnsWalked'
    <2>1. Cursor' = Cursor
      BY DEF Cursor
    <2> QED BY <2>1, SameTable DEF WalkInv, ColumnsWalked, Walk!Range
  <1> QED BY <1>1, <1>2 DEF WalkInv

LEMMA WalkStep == WalkInv /\ [Walk!Next]_(Walk!vars) => WalkInv'
  <1> SUFFICES ASSUME WalkInv, [Walk!Next]_(Walk!vars) PROVE WalkInv'
    OBVIOUS
  <1>1. CASE Walk!Begin
    BY <1>1, BeginKeeps
  <1>2. CASE Walk!Request
    BY <1>2, RequestKeeps
  <1>3. CASE Walk!Walked
    BY <1>3, WalkedKeeps
  <1>4. CASE Walk!Component
    BY <1>4, ComponentKeeps
  <1>5. CASE Walk!Command
    BY <1>5, CommandKeeps
  <1>6. CASE Walk!Open
    BY <1>6, StageKeeps DEF Walk!Open, Walk!walk
  <1>7. CASE Walk!End
    BY <1>7, StageKeeps DEF Walk!End, Walk!walk
  <1>8. CASE Walk!Fails
    BY <1>8, StageKeeps DEF Walk!Fails, Walk!Failed, Walk!walk
  <1>9. CASE UNCHANGED Walk!vars
    BY <1>9, StageKeeps DEF Walk!vars, Walk!walk, WalkInv, ToWalk
  <1> QED
    BY <1>1, <1>2, <1>3, <1>4, <1>5, <1>6, <1>7, <1>8, <1>9
    DEF Walk!Next, Walk!Work, Walk!Finished

\* Whatever the sizes of the answers, and whatever is asked for in whatever order, however
\* often: a walk of a conforming device that ends has returned the table (NetSNMP.fetch,
\* agent.py).
THEOREM WalksAlwaysTables == Walk!Spec => []WalkIsTable
  <1>1. ASSUME WalkInv PROVE WalkIsTable
    <2> SUFFICES ASSUME stage = "ended", Walk!Conforming, NEW f \in Walk!Range(wanted)
                 PROVE  Whole(out, f)
      BY DEF WalkIsTable, Walk!WalkIsTable, Whole, ColumnOf
    <2>1. todo = <<>> /\ name = None
      BY <1>1 DEF WalkInv, ToWalk
    <2>2. Walk!Range(todo) = {}
      BY <2>1 DEF Walk!Range
    <2>3. f # None
      BY <1>1, WalkedIsSound DEF Sound
    <2> QED BY <1>1, <2>1, <2>2, <2>3 DEF WalkInv, ColumnsWalked
  <1> QED BY <1>1, WalkInit, WalkStep, PTL DEF Walk!Spec

-----------------------------------------------------------------------------
(* Values: quotients and remainders *)

LEMMA Divided ==
    ASSUME NEW b \in Nat \ {0}, NEW a \in Nat
    PROVE  a \div b \in Nat /\ a % b \in 0 .. b - 1 /\ a = b * (a \div b) + (a % b)
  OBVIOUS

LEMMA DividedSmall ==
    ASSUME NEW b \in Nat \ {0}, NEW a \in Nat, a < b
    PROVE  a \div b = 0 /\ a % b = a
  OBVIOUS

LEMMA DividedBack ==
    ASSUME NEW b \in Nat \ {0}, NEW q \in Nat, NEW r \in 0 .. b - 1, NEW a \in Nat, a = b * q + r
    PROVE  a \div b = q /\ a % b = r
  OBVIOUS

LEMMA NatInterval == ASSUME NEW b \in Nat \ {0}, NEW x \in 0 .. b - 1 PROVE x \in Nat
  OBVIOUS

LEMMA MultiplesApart ==
    ASSUME NEW b \in Nat \ {0}, NEW p \in Nat, NEW q \in Nat, p < q
    PROVE  b * p + b <= b * q
  OBVIOUS

-----------------------------------------------------------------------------
(* Values: addresses, channels and vlans *)

\* What the functions are called with, and what they return of it.
ValueInv == Values!Given /\ (made = None \/ made = Values!Result)

LEMMA ValueInit == Values!GivenInit => ValueInv
  BY DEF Values!GivenInit, ValueInv

LEMMA ValueStep == ValueInv /\ [Values!Make]_(Values!valueVars) => ValueInv'
  <1> SUFFICES ASSUME ValueInv, [Values!Make]_(Values!valueVars) PROVE ValueInv'
    OBVIOUS
  <1>1. given' = given
    BY DEF Values!Make, Values!valueVars
  <1>2. Values!Given' <=> Values!Given
    BY <1>1 DEF Values!Given
  <1>3. Values!Result' = Values!Result
    BY <1>1 DEF Values!Result
  <1> QED BY <1>2, <1>3 DEF ValueInv, Values!Make, Values!valueVars

ValueBounds ==
    /\ Base \in Nat \ {0} /\ Octets \in Nat \ {0} /\ Bits \in Nat \ {0} /\ Banks \in Nat \ {0}
    /\ Modulus \in Nat \ {0} /\ Slots \subseteq 0 .. Modulus - 1
    /\ None \notin Aps /\ None # "trunk"

LEMMA Bounds == ValueBounds
  BY PollingAssumption DEF Values!ValuesAssumption, ValueBounds

\* A zero, and then a digit.
LEMMA ZeroBefore ==
    ASSUME NEW y \in Nat, NEW s \in Seq(Nat), Len(s) = 1, s[1] = 0
    PROVE  s \o <<y>> = <<0, y>>
  <1> DEFINE one == <<y>>
             c == s \o one
             d == <<0, y>>
  <1>1. one \in Seq(Nat) /\ Len(one) = 1 /\ one[1] = y
    OBVIOUS
  <1>2. d \in Seq(Nat) /\ Len(d) = 2 /\ d[1] = 0 /\ d[2] = y
    OBVIOUS
  <1> HIDE DEF one, d
  <1>3. /\ c \in Seq(Nat) /\ Len(c) = Len(s) + Len(one)
        /\ \A i \in 1 .. Len(s) + Len(one) : c[i] = IF i <= Len(s) THEN s[i] ELSE one[i - Len(s)]
    BY Zenon, <1>1, ConcatProperties
  <1> HIDE DEF c
  <1>4. Len(c) = 2 /\ c[1] = 0 /\ c[2] = y
    BY <1>1, <1>3
  <1>5. \A i \in 1 .. Len(c) : c[i] = d[i]
    BY <1>2, <1>4
  <1>6. c = d
    BY Zenon, <1>2, <1>3, <1>4, <1>5, SeqEqual
  <1> QED BY <1>6 DEF c, d, one

LEMMA Surrounded ==
    ASSUME NEW S, NEW n \in Nat, NEW d \in [1 .. n -> S], NEW e \in S
    PROVE  Len(<<e>> \o d \o <<e>>) = n + 2
  <1>1. d \in Seq(S) /\ Len(d) = n /\ <<e>> \in Seq(S) /\ Len(<<e>>) = 1
    OBVIOUS
  <1> QED BY <1>1

\* Two digits stay as they are, one gets a zero before it.
LEMMA FilledDigits ==
    ASSUME NEW x \in Nat, NEW y \in Nat
    PROVE  Values!Filled(<<x, y>>) = <<x, y>> /\ Values!Filled(<<y>>) = <<0, y>>
  <1>1. Values!Max({0, 2 - 2}) = 0
    <2>1. \A m \in {0, 2 - 2} : m = 0
      OBVIOUS
    <2> QED BY <2>1 DEF Values!Max
  <1>2. Values!Max({0, 2 - 1}) = 1
    <2>1. 1 \in {0, 2 - 1} /\ \A m \in {0, 2 - 1} : 1 >= m
      OBVIOUS
    <2>2. \A m \in {0, 2 - 1} : m >= 1 => m = 1
      OBVIOUS
    <2> QED BY <2>1, <2>2 DEF Values!Max
  <1>3. [i \in 1 .. 0 |-> 0] \o <<x, y>> = <<x, y>>
    OBVIOUS
  <1>4. [i \in 1 .. 1 |-> 0] \o <<y>> = <<0, y>>
    <2>1. [i \in 1 .. 1 |-> 0] \in Seq(Nat) /\ Len([i \in 1 .. 1 |-> 0]) = 1
          /\ [i \in 1 .. 1 |-> 0][1] = 0
      OBVIOUS
    <2> QED BY Zenon, <2>1, ZeroBefore
  <1> QED BY <1>1, <1>2, <1>3, <1>4 DEF Values!Filled

LEMMA DigitsFilled ==
    ASSUME NEW d \in Nat
    PROVE  /\ Values!Digits(d) \in Nat \X Nat
           /\ Values!Filled(Values!Digits(d)) = Values!Digits(d)
           /\ Values!Filled(Values!Unpadded(d)) = Values!Digits(d)
  <1>1. Base \in Nat \ {0}
    BY Bounds DEF ValueBounds
  <1>2. d \div Base \in Nat /\ d % Base \in Nat
    BY Zenon, <1>1, Divided, NatInterval
  <1>3. CASE d < Base
    <2>1. d \div Base = 0 /\ d % Base = d
      BY Zenon, <1>1, <1>3, DividedSmall
    <2> QED BY <1>2, <1>3, <2>1, FilledDigits DEF Values!Digits, Values!Unpadded
  <1>4. CASE ~(d < Base)
    BY <1>2, <1>4, FilledDigits DEF Values!Digits, Values!Unpadded
  <1> QED BY <1>3, <1>4

\* Addresses.
LEMMA AddressesRead ==
    ASSUME NEW a \in [1 .. Octets -> Values!Bytes], NEW notation \in Values!Notations
    PROVE  Values!MacAddress(Values!Parts(a, notation)) =
             IF notation \in {"binary", "integers"} THEN [i \in 1 .. Octets |-> Values!Digits(a[i])]
             ELSE None
  <1>1. Octets \in Nat \ {0} /\ Base \in Nat \ {0} /\ DOMAIN a = 1 .. Octets /\ Len(a) = Octets
    BY Bounds DEF ValueBounds
  <1>2. ASSUME NEW i \in 1 .. Octets PROVE a[i] \in Nat
    <2>1. a[i] \in 0 .. Base * Base - 1
      BY DEF Values!Bytes
    <2> QED BY <1>1, <2>1
  <1>3. CASE notation = "binary"
    <2> DEFINE parts == [i \in 1 .. Octets |-> Values!Digits(a[i])]
    <2>1. Values!Parts(a, notation) = parts
      BY <1>1, <1>3 DEF Values!Parts
    <2>2. Len(parts) = Octets /\ DOMAIN parts = 1 .. Octets
      BY <1>1
    <2>3. \A i \in 1 .. Octets : Values!Filled(parts[i]) = Values!Digits(a[i])
      BY <1>2, DigitsFilled
    <2>4. Values!MacAddress(parts) = [i \in 1 .. Octets |-> Values!Filled(parts[i])]
      BY <2>2 DEF Values!MacAddress
    <2> HIDE DEF parts
    <2> QED BY <1>3, <2>1, <2>3, <2>4
  <1>4. CASE notation = "integers"
    <2> DEFINE parts == [i \in 1 .. Octets |-> Values!Unpadded(a[i])]
    <2>1. Values!Parts(a, notation) = parts
      BY <1>1, <1>4 DEF Values!Parts
    <2>2. Len(parts) = Octets /\ DOMAIN parts = 1 .. Octets
      BY <1>1
    <2>3. ASSUME NEW i \in 1 .. Octets PROVE Values!Filled(parts[i]) = Values!Digits(a[i])
      <3>1. parts[i] = Values!Unpadded(a[i])
        OBVIOUS
      <3> QED BY <1>2, <3>1, DigitsFilled
    <2>4. Values!MacAddress(parts) = [i \in 1 .. Octets |-> Values!Filled(parts[i])]
      BY <2>2 DEF Values!MacAddress
    <2> HIDE DEF parts
    <2> QED BY <1>4, <2>1, <2>3, <2>4
  <1>5. CASE notation = "quoted"
    <2> DEFINE digits == [i \in 1 .. Octets |-> Values!Digits(a[i])]
               parts == <<<<>>>> \o digits \o <<<<>>>>
    <2>1. Values!Parts(a, notation) = parts
      BY <1>1, <1>5 DEF Values!Parts
    <2>2. digits \in [1 .. Octets -> {<<>>} \cup Nat \X Nat] /\ <<>> \in {<<>>} \cup Nat \X Nat
      BY <1>1, <1>2, DigitsFilled
    <2>3. Len(parts) = Octets + 2
      <3> HIDE DEF digits
      <3>1. Octets \in Nat
        BY <1>1
      <3> QED BY Zenon, <2>2, <3>1, Surrounded
    <2> HIDE DEF parts
    <2> QED BY <1>1, <1>5, <2>1, <2>3 DEF Values!MacAddress
  <1>6. CASE notation = "groups"
    <2>1. Values!Parts(a, notation)
            = [i \in 1 .. Octets \div 2 |-> Values!Digits(a[2 * i - 1]) \o Values!Digits(a[2 * i])]
      BY <1>1, <1>6 DEF Values!Parts
    <2>2. Octets \div 2 \in Nat /\ Octets \div 2 # Octets
      BY <1>1
    <2>3. Len(Values!Parts(a, notation)) = Octets \div 2
      BY <2>1, <2>2
    <2> QED BY <1>6, <2>2, <2>3 DEF Values!MacAddress
  <1> QED BY <1>3, <1>4, <1>5, <1>6 DEF Values!Notations

\* Channels: the two bytes of a number are put together, and the number is taken apart.
LEMMA ChannelRead ==
    ASSUME NEW n \in Nat, NEW ports \in [1 .. n -> Slots \X Slots]
    PROVE  Values!DecodeChannel(Values!Sent(ports)) = ports
  <1> DEFINE B == Base * Base
             number(i) == ports[(i - 3) \div 2][1] * Modulus + ports[(i - 3) \div 2][2]
             sent == Values!Sent(ports)
  <1>1. Base \in Nat \ {0} /\ Modulus \in Nat \ {0} /\ Slots \subseteq 0 .. Modulus - 1
    BY Bounds DEF ValueBounds
  <1>2. B \in Nat \ {0}
    BY <1>1
  <1>3. Len(ports) = n /\ DOMAIN ports = 1 .. n
    OBVIOUS
  <1>4. sent = [i \in 1 .. 2 * n + 4 |->
                   CASE i <= 4 -> IF i = 2 THEN n ELSE 0
                     [] i > 4 /\ i % 2 = 1 -> number(i) \div B
                     [] i > 4 /\ i % 2 = 0 -> number(i) % B]
    BY <1>3 DEF Values!Sent
  <1>5. Len(sent) = 2 * n + 4 /\ Len(sent) \div 2 - 2 = n
    <2>1. Len(sent) = 2 * n + 4
      BY <1>4
    <2> HIDE DEF sent
    <2> QED BY <2>1
  <1>6. ASSUME NEW i \in 1 .. n
        PROVE  LET h == B * sent[2 * (i + 2) - 1] + sent[2 * (i + 2)]
               IN  <<h \div Modulus, h % Modulus>> = ports[i]
    <2> DEFINE h == ports[i][1] * Modulus + ports[i][2]
    <2>1. ports[i] = <<ports[i][1], ports[i][2]>> /\ ports[i][1] \in Nat
          /\ ports[i][2] \in 0 .. Modulus - 1
      <3>1. ports[i] \in Slots \X Slots
        OBVIOUS
      <3>2. PICK s \in Slots, m \in Slots : ports[i] = <<s, m>>
        BY <3>1
      <3>3. s \in 0 .. Modulus - 1 /\ m \in 0 .. Modulus - 1
        BY <1>1
      <3>4. ports[i][1] = s /\ ports[i][2] = m
        BY <3>2
      <3> QED BY <1>1, <3>2, <3>3, <3>4
    <2>2. h \in Nat
      BY <1>1, <2>1
    <2>3. sent[2 * i + 3] = h \div B
      <3>1. 2 * i + 3 \in 1 .. 2 * n + 4 /\ ~(2 * i + 3 <= 4) /\ (2 * i + 3) % 2 = 1
            /\ ((2 * i + 3) - 3) \div 2 = i
        OBVIOUS
      <3> HIDE DEF sent, B
      <3> QED BY <1>4, <3>1
    <2>4. sent[2 * i + 4] = h % B
      <3>1. 2 * i + 4 \in 1 .. 2 * n + 4 /\ ~(2 * i + 4 <= 4) /\ (2 * i + 4) % 2 = 0
            /\ ((2 * i + 4) - 3) \div 2 = i
        OBVIOUS
      <3> HIDE DEF sent, B
      <3> QED BY <1>4, <3>1
    <2>5. 2 * (i + 2) - 1 = 2 * i + 3 /\ 2 * (i + 2) = 2 * i + 4
      OBVIOUS
    <2> HIDE DEF sent, B, h
    <2>6. B * (h \div B) + (h % B) = h
      BY <1>2, <2>2, Divided
    <2>7. h \div Modulus = ports[i][1] /\ h % Modulus = ports[i][2]
      <3>1. h = Modulus * ports[i][1] + ports[i][2]
        BY <1>1, <2>1 DEF h
      <3>2. ports[i][1] \in Nat /\ ports[i][2] \in 0 .. Modulus - 1 /\ Modulus \in Nat \ {0}
        BY <1>1, <2>1
      <3>3. ASSUME NEW q \in Nat, NEW r \in 0 .. Modulus - 1
            PROVE  (Modulus * q + r) \div Modulus = q /\ (Modulus * q + r) % Modulus = r
        BY ONLY <3>2, <3>3
      <3> QED BY ONLY Zenon, <3>1, <3>2, <3>3
    <2> QED BY <2>1, <2>3, <2>4, <2>5, <2>6, <2>7
  <1> HIDE DEF sent
  <1>7. Values!DecodeChannel(sent)
          = [i \in 1 .. n |-> <<(B * sent[2 * (i + 2) - 1] + sent[2 * (i + 2)]) \div Modulus,
                                (B * sent[2 * (i + 2) - 1] + sent[2 * (i + 2)]) % Modulus>>]
    BY <1>5 DEF Values!DecodeChannel
  <1>8. ports = [i \in 1 .. n |-> ports[i]]
    OBVIOUS
  <1> HIDE DEF B
  <1> QED BY <1>6, <1>7, <1>8 DEF sent


\* A vlan is in the mask of the bank it belongs to, and in no other.
LEMMA VlansRead ==
    ASSUME NEW masks \in [1 .. Banks -> Values!Masks \cup {None}], NEW v \in 0 .. Bits * Banks - 1
    PROVE  LET m == masks[v \div Bits + 1] IN
           v \in Values!TrunkedVlans(masks) <=>
              /\ m # None /\ v % Bits \in m.bits \ Ignored
              /\ Values!HasRun(m) => m.len = Short
  <1> DEFINE Of(b) == Values!DecodeVlans(masks[b])
             bank == v \div Bits + 1
  <1>1. Bits \in Nat \ {0} /\ Banks \in Nat \ {0} /\ Bits * Banks \in Nat
    BY Bounds DEF ValueBounds
  <1>2. v \in Nat /\ v < Bits * Banks
    BY <1>1
  <1>3. v \div Bits \in Nat /\ v % Bits \in 0 .. Bits - 1 /\ v = Bits * (v \div Bits) + (v % Bits)
    BY Zenon, <1>1, <1>2, Divided
  <1>4. bank \in 1 .. Banks /\ bank - 1 = v \div Bits
    <2> DEFINE q == v \div Bits
    <2>1. q \in Nat /\ Bits * q <= v
      BY <1>1, <1>3
    <2> HIDE DEF q
    <2>2. CASE q < Banks
      BY <1>1, <2>1, <2>2 DEF q
    <2>3. CASE Banks <= q
      <3>1. Bits * Banks <= Bits * q
        BY <1>1, <2>1, <2>3
      <3> QED BY <1>1, <1>2, <2>1, <3>1
    <2> QED BY <1>1, <2>1, <2>2, <2>3
  <1>5. v \in Values!TrunkedVlans(masks)
          <=> \E b \in 1 .. Banks : masks[b] # None /\ \E n \in Of(b) : v = n + Bits * (b - 1)
    BY DEF Values!TrunkedVlans, Values!Offset
  <1>6. ASSUME NEW b \in 1 .. Banks, masks[b] # None PROVE Of(b) \subseteq 0 .. Bits - 1
    <2>1. masks[b] \in Values!Masks
      BY <1>6
    <2>2. masks[b].bits \subseteq 0 .. Bits - 1
      <3>1. PICK k \in {Short, Bits}, S \in SUBSET (0 .. Bits - 1) : masks[b] = [len |-> k, bits |-> S]
        BY <2>1 DEF Values!Masks
      <3> QED BY <3>1
    <2> QED BY <2>2 DEF Values!DecodeVlans
  <1>7. ASSUME NEW b \in 1 .. Banks, masks[b] # None, NEW n \in Of(b), v = n + Bits * (b - 1)
        PROVE  b = bank /\ n = v % Bits
    <2>1. b - 1 \in Nat /\ n \in 0 .. Bits - 1
      BY <1>6, <1>7
    <2>2. v = Bits * (b - 1) + n
      BY <1>1, <1>7, <2>1
    <2>3. ASSUME NEW q \in Nat, NEW r \in 0 .. Bits - 1
          PROVE  (Bits * q + r) \div Bits = q /\ (Bits * q + r) % Bits = r
      BY ONLY <1>1, <2>3
    <2>4. v \div Bits = b - 1 /\ v % Bits = n
      BY ONLY Zenon, <2>1, <2>2, <2>3
    <2> QED BY <2>1, <2>4
  <1>8. v \in Values!TrunkedVlans(masks) <=> masks[bank] # None /\ v % Bits \in Of(bank)
    <2> HIDE DEF Of
    <2>1. ASSUME v \in Values!TrunkedVlans(masks) PROVE masks[bank] # None /\ v % Bits \in Of(bank)
      <3>1. PICK b \in 1 .. Banks : masks[b] # None /\ \E n \in Of(b) : v = n + Bits * (b - 1)
        BY <1>5, <2>1
      <3>2. PICK n \in Of(b) : v = n + Bits * (b - 1)
        BY <3>1
      <3>3. b = bank /\ n = v % Bits
        BY <1>7, <3>1, <3>2
      <3> QED BY <3>1, <3>2, <3>3
    <2>2. ASSUME masks[bank] # None, v % Bits \in Of(bank) PROVE v \in Values!TrunkedVlans(masks)
      <3>1. v = (v % Bits) + Bits * (bank - 1)
        BY <1>1, <1>3, <1>4
      <3> QED BY <1>4, <1>5, <2>2, <3>1
    <2> QED BY <2>1, <2>2
  <1>9. v % Bits \in Of(bank)
          <=> v % Bits \in masks[bank].bits \ Ignored /\ (Values!HasRun(masks[bank]) => masks[bank].len = Short)
    BY Zenon DEF Values!DecodeVlans
  <1> HIDE DEF Of
  <1> QED BY Zenon, <1>8, <1>9

\* In every state, what was made of an input has its value.
LEMMA Readable == ValueInv => ValuesReadBack
  <1> SUFFICES ASSUME ValueInv, made # None PROVE ValuesReadBack
    BY DEF ValuesReadBack, Values!ValuesReadBack
  <1>1. Values!Given /\ made = Values!Result
    BY DEF ValueInv
  <1>2. ASSUME given.kind = "mac"
        PROVE  made.mac = IF given.notation \in {"binary", "integers"}
                          THEN [i \in 1 .. Octets |-> Values!Digits(given.a[i])] ELSE None
    <2>1. PICK a \in [1 .. Octets -> Values!Bytes], n \in Values!Notations :
             given = [kind |-> "mac", a |-> a, notation |-> n]
      BY <1>1, <1>2 DEF Values!Given
    <2>2. made = [mac |-> Values!MacAddress(Values!Parts(a, n))]
      BY <1>1, <2>1 DEF Values!Result
    <2> QED BY <2>1, <2>2, AddressesRead
  <1>3. ASSUME given.kind = "channel" PROVE made.ports = given.ports
    <2>1. PICK n \in 0 .. MaxKeys : \E c \in [1 .. n -> Slots \X Slots] :
             given = [kind |-> "channel", ports |-> c]
      BY <1>1, <1>3 DEF Values!Given
    <2>2. PICK c \in [1 .. n -> Slots \X Slots] : given = [kind |-> "channel", ports |-> c]
      BY <2>1
    <2>3. made = [ports |-> Values!DecodeChannel(Values!Sent(c))]
      BY <1>1, <2>2 DEF Values!Result
    <2>4. n \in Nat
      OBVIOUS
    <2> QED BY <2>2, <2>3, <2>4, ChannelRead
  <1>4. ASSUME given.kind = "vlans"
        PROVE  /\ \A v \in 0 .. Bits * Banks - 1 :
                     LET m == given.masks[v \div Bits + 1] IN
                     v \in made.vlans <=>
                        /\ m # None /\ v % Bits \in m.bits \ Ignored
                        /\ Values!HasRun(m) => m.len = Short
               /\ made.function = "trunk" <=> made.vlans # {}
    <2>1. PICK masks \in [1 .. Banks -> Values!Masks \cup {None}], native \in {None, 1} :
             given = [kind |-> "vlans", masks |-> masks, native |-> native]
      BY <1>1, <1>4 DEF Values!Given
    <2>2. made = [vlans |-> Values!TrunkedVlans(masks),
                  function |-> Values!PortFunction(Values!TrunkedVlans(masks), native)]
      BY <1>1, <2>1 DEF Values!Result
    <2>3. made.vlans = Values!TrunkedVlans(masks) /\ given.masks = masks
          /\ made.function = Values!PortFunction(made.vlans, native)
      BY <2>1, <2>2
    <2>4. made.function = "trunk" <=> made.vlans # {}
      BY <2>3, Bounds DEF Values!PortFunction, ValueBounds
    <2> QED BY <2>3, <2>4, VlansRead
  <1> QED BY <1>2, <1>3, <1>4 DEF ValuesReadBack, Values!ValuesReadBack

(* An address is the same in whatever notation it comes (binary_to_hex,           *)
(* integers_to_hex and normalise_mac_address), or is refused; the ports of a      *)
(* channel (decode_port_channels) are those the device sent; a port has the       *)
(* vlans of its masks (decode_vlanVlansOnPort, merge_trunking_vlans), whichever   *)
(* of the banks the device has.  For every number of octets, banks and ports.     *)
THEOREM ValuesAlwaysReadBack == Values!ValueSpec => []ValuesReadBack
  <1>1. ValueInv => ValuesReadBack
    BY Readable
  <1> QED BY <1>1, ValueInit, ValueStep, PTL DEF Values!ValueSpec

-----------------------------------------------------------------------------
(* Values: the rows of the radios *)

LEMMA LargestValue ==
    ASSUME NEW n \in Nat, NEW S \in SUBSET (1 .. n), S # {}
    PROVE  Values!Max(S) \in S /\ \A x \in S : Values!Max(S) >= x
  <1>1. Values!Max(S) = Walk!Max(S)
    BY DEF Values!Max, Walk!Max
  <1> QED BY <1>1, Largest

LEMMA LargestValueOfInterval == ASSUME NEW k \in Nat \ {0} PROVE Values!Max(1 .. k) = k
  BY LargestOfInterval DEF Values!Max, Walk!Max

\* The rows, one by one, as those of an answer are (above).
NoRows == [x |-> None, rows |-> {}, raised |-> FALSE]
RowBody(g, r, aps, p) ==
    IF p = {} THEN NoRows ELSE Values!RadioRow(g[p \ {Values!Max(p)}], r[Values!Max(p)], aps)
RowOn(g, r, aps, n) == g = [p \in SUBSET (1 .. n) |-> RowBody(g, r, aps, p)]

LEMMA RowsUnfold ==
    ASSUME NEW r, NEW aps, NEW n \in Nat, DOMAIN r = 1 .. n
    PROVE  \E g : RowOn(g, r, aps, n) /\ Values!RadioRows(r, aps) = g[1 .. n]
  <1> DEFINE Has(k) == \E g : RowOn(g, r, aps, k)
  <1>1. Has(0)
    <2> DEFINE g == [p \in SUBSET (1 .. 0) |-> NoRows]
    <2>1. g = [p \in SUBSET (1 .. 0) |-> RowBody(g, r, aps, p)]
      BY DEF RowBody
    <2> QED BY <2>1 DEF RowOn
  <1>2. ASSUME NEW k \in 0 .. n, k # n, Has(k) PROVE Has(k + 1)
    <2>1. PICK g : g = [p \in SUBSET (1 .. k) |-> RowBody(g, r, aps, p)]
      BY <1>2 DEF RowOn
    <2> DEFINE h == [p \in SUBSET (1 .. k + 1) |->
                        IF k + 1 \in p THEN Values!RadioRow(g[p \ {k + 1}], r[k + 1], aps) ELSE g[p]]
    <2>2. ASSUME NEW p \in SUBSET (1 .. k + 1) PROVE h[p] = RowBody(h, r, aps, p)
      <3>1. CASE k + 1 \in p
        <4>1. Values!Max(p) = k + 1
          <5>1. k + 1 \in Nat /\ p # {}
            BY <3>1
          <5>2. Values!Max(p) \in p /\ \A x \in p : Values!Max(p) >= x
            BY <5>1, LargestValue
          <5>3. Values!Max(p) \in 1 .. k + 1 /\ Values!Max(p) >= k + 1
            BY <3>1, <5>2
          <5> QED BY <5>3
        <4>2. h[p] = Values!RadioRow(g[p \ {k + 1}], r[k + 1], aps)
          BY <3>1
        <4>3. p \ {k + 1} \in SUBSET (1 .. k + 1) /\ k + 1 \notin p \ {k + 1}
          OBVIOUS
        <4>4. h[p \ {k + 1}] = g[p \ {k + 1}]
          BY <4>3
        <4> HIDE DEF h
        <4> QED BY <3>1, <4>1, <4>2, <4>4 DEF RowBody
      <3>2. CASE k + 1 \notin p
        <4>1. p \in SUBSET (1 .. k)
          BY <3>2
        <4>2. h[p] = RowBody(g, r, aps, p)
          BY <2>1, <3>2, <4>1
        <4>3. CASE p = {}
          BY <4>2, <4>3 DEF RowBody
        <4>4. CASE p # {}
          <5>1. p \ {Values!Max(p)} \in SUBSET (1 .. k + 1) /\ k + 1 \notin p \ {Values!Max(p)}
            BY <3>2
          <5>2. h[p \ {Values!Max(p)}] = g[p \ {Values!Max(p)}]
            BY <5>1
          <5> HIDE DEF h
          <5> QED BY <4>2, <4>4, <5>2 DEF RowBody
        <4> QED BY <4>3, <4>4
      <3> QED BY <3>1, <3>2
    <2>3. h = [p \in SUBSET (1 .. k + 1) |-> RowBody(h, r, aps, p)]
      <3> HIDE DEF RowBody
      <3> QED BY <2>2
    <2> QED BY <2>3 DEF RowOn
  <1>3. Has(n)
    <2> HIDE DEF Has
    <2> SUFFICES ASSUME ~Has(n) PROVE FALSE
      OBVIOUS
    <2> DEFINE Bad == {k \in 0 .. n : ~Has(k)}
    <2>1. n \in Bad /\ Bad \in SUBSET Nat
      OBVIOUS
    <2>2. PICK d \in Bad : \A x \in Bad : d <= x
      BY <2>1, SmallestNat
    <2>3. d # 0 /\ d \in 0 .. n
      BY <1>1, <2>2
    <2>4. d - 1 \in 0 .. n /\ d - 1 \notin Bad /\ d - 1 # n
      BY <2>2, <2>3
    <2>5. Has((d - 1) + 1)
      BY <1>2, <2>4
    <2> QED BY <2>2, <2>3, <2>5
  <1> DEFINE it == CHOOSE g : g = [p \in SUBSET (1 .. n) |-> RowBody(g, r, aps, p)]
  <1>4. it = [p \in SUBSET (1 .. n) |-> RowBody(it, r, aps, p)]
    BY <1>3 DEF RowOn
  <1>5. Values!RadioRows(r, aps) = it[1 .. n]
    BY DEF Values!RadioRows, Values!FoldLeft, Values!MapThenFoldSet, RowBody, NoRows
  <1> QED BY <1>4, <1>5 DEF RowOn

\* At no position, and at one more.
LEMMA RowFirst ==
    ASSUME NEW r, NEW aps, NEW n \in Nat, NEW g, RowOn(g, r, aps, n)
    PROVE  g[1 .. 0] = NoRows
  <1>1. 1 .. 0 = {} /\ {} \in SUBSET (1 .. n)
    OBVIOUS
  <1> QED BY <1>1 DEF RowOn, RowBody

LEMMA RowNext ==
    ASSUME NEW r, NEW aps, NEW n \in Nat, NEW g, RowOn(g, r, aps, n)
    PROVE  \A k \in 0 .. n : k # n => g[1 .. k + 1] = Values!RadioRow(g[1 .. k], r[k + 1], aps)
  <1> TAKE k \in 0 .. n
  <1> HAVE k # n
  <1>1. /\ k + 1 \in Nat \ {0}
        /\ 1 .. k + 1 \in SUBSET (1 .. n) /\ 1 .. k + 1 # {}
    OBVIOUS
  <1>2. Values!Max(1 .. k + 1) = k + 1
    BY <1>1, LargestValueOfInterval
  <1>3. (1 .. k + 1) \ {k + 1} = 1 .. k
    BY <1>1
  <1> QED BY <1>1, <1>2, <1>3 DEF RowBody, RowOn


\* What the rows of the first m keys are: none of another key, and, as long as no key
\* with more than a digit came, a row with the name of its own access point for every
\* key whose access point is known.
Plain(keys, m) == \A j \in 1 .. m : keys[j].tail # "more"
Joined(keys, aps, m, acc) ==
    /\ acc \in [x : Aps \cup {None}, rows : SUBSET [key : Values!RadioKeys, device : Aps], raised : BOOLEAN]
    /\ \A row \in acc.rows : \E j \in 1 .. m : row.key = keys[j]
    /\ Plain(keys, m) => ~acc.raised
    /\ \A i \in 1 .. m : Plain(keys, i) =>
          \A d \in Aps : ([key |-> keys[i], device |-> d] \in acc.rows) <=> (d = keys[i].ap /\ d \in aps)

LEMMA JoinedStep ==
    ASSUME NEW n \in Nat, NEW keys \in [1 .. n -> Values!RadioKeys], Values!IsInjective(keys),
           NEW aps \in SUBSET Aps, NEW m \in 0 .. n, m # n, NEW acc, Joined(keys, aps, m, acc)
    PROVE  Joined(keys, aps, m + 1, Values!RadioRow(acc, keys[m + 1], aps))
  <1> DEFINE k == keys[m + 1]
             x == Values!LookedUp(k, aps, acc.x)
             next == Values!RadioRow(acc, k, aps)
             Acc == [x : Aps \cup {None}, rows : SUBSET [key : Values!RadioKeys, device : Aps],
                     raised : BOOLEAN]
  <1>1. m \in Nat /\ m + 1 \in 1 .. n /\ k \in Values!RadioKeys /\ None \notin Aps
    BY Bounds DEF ValueBounds
  <1>2. k.ap \in Aps
    BY <1>1 DEF Values!RadioKeys
  <1>3. acc \in Acc
    BY DEF Joined
  <1>4. x \in Aps \cup {None} /\ (k.tail # "more" => x = k.ap)
    BY <1>2, <1>3 DEF Values!LookedUp
  <1>5. ASSUME NEW i \in 1 .. m PROVE i \in 1 .. n /\ keys[i] # k
    <2>1. i \in 1 .. n /\ i # m + 1
      BY <1>1
    <2> QED BY <1>1, <2>1 DEF Values!IsInjective
  <1>6. Plain(keys, m + 1) <=> Plain(keys, m) /\ k.tail # "more"
    <2>1. \A j : j \in 1 .. m + 1 <=> j \in 1 .. m \/ j = m + 1
      BY <1>1
    <2> QED BY <2>1 DEF Plain
  <1>7. CASE acc.raised \/ x = None
    <2>1. next = [acc EXCEPT !.raised = TRUE]
      BY <1>7 DEF Values!RadioRow
    <2>2. next \in Acc /\ next.rows = acc.rows
      BY <1>3, <2>1
    <2>3. ~Plain(keys, m + 1)
      BY <1>1, <1>2, <1>4, <1>6, <1>7 DEF Joined
    <2> HIDE DEF next, k
    <2>4. \A row \in next.rows : \E j \in 1 .. m + 1 : row.key = keys[j]
      BY <1>1, <2>2 DEF Joined
    <2>5. ASSUME NEW i \in 1 .. m + 1, Plain(keys, i), NEW d \in Aps
          PROVE  ([key |-> keys[i], device |-> d] \in next.rows) <=> (d = keys[i].ap /\ d \in aps)
      <3>1. i # m + 1
        BY <2>3, <2>5
      <3>2. i \in 1 .. m
        BY <1>1, <3>1
      <3> QED BY <2>2, <2>5, <3>2 DEF Joined
    <2> QED BY <2>2, <2>3, <2>4, <2>5 DEF Joined, next, k
  <1>8. CASE ~acc.raised /\ x \in Aps
    <2> DEFINE row == [key |-> k, device |-> x]
               new == IF x \in aps THEN {row} ELSE {}
    <2>1. next = [acc EXCEPT !.x = x, !.rows = acc.rows \cup new]
      BY <1>1, <1>8 DEF Values!RadioRow
    <2>2. row \in [key : Values!RadioKeys, device : Aps]
      BY <1>1, <1>8
    <2>3. next \in Acc /\ next.rows = acc.rows \cup new /\ ~next.raised
      <3>1. new \in SUBSET [key : Values!RadioKeys, device : Aps]
        BY <2>2
      <3> HIDE DEF new, next, x, row
      <3>2. acc.rows \cup new \in SUBSET [key : Values!RadioKeys, device : Aps]
        BY <1>3, <3>1
      <3>3. x \in Aps \cup {None} /\ acc.raised = FALSE
        BY <1>3, <1>4, <1>8
      <3> QED BY <1>3, <2>1, <3>2, <3>3
    <2>4. row.key = k /\ row.device = x
      OBVIOUS
    <2> HIDE DEF next, k, x, Acc, row
    <2>5. \A r \in next.rows : \E j \in 1 .. m + 1 : r.key = keys[j]
      <3>1. \A r \in acc.rows : \E j \in 1 .. m : r.key = keys[j]
        BY DEF Joined
      <3>2. \A j \in 1 .. m : j \in 1 .. m + 1
        BY <1>1
      <3>3. m + 1 \in 1 .. m + 1
        BY <1>1
      <3> QED BY <2>3, <2>4, <3>1, <3>2, <3>3 DEF k
    <2>6. ASSUME NEW i \in 1 .. m + 1, Plain(keys, i), NEW d \in Aps
          PROVE  ([key |-> keys[i], device |-> d] \in next.rows) <=> (d = keys[i].ap /\ d \in aps)
      <3> DEFINE r == [key |-> keys[i], device |-> d]
      <3>1. r.key = keys[i] /\ r.device = d
        OBVIOUS
      <3>2. CASE i \in 1 .. m
        <4>1. r # row
          BY <1>5, <2>4, <3>1, <3>2
        <4>2. r \in next.rows <=> r \in acc.rows
          BY <2>3, <4>1
        <4> QED BY <2>6, <3>2, <4>2 DEF Joined
      <3>3. CASE i = m + 1
        <4>1. x = k.ap
          BY <1>4, <1>6, <2>6, <3>3
        <4>2. r \notin acc.rows
          <5>1. \A y \in acc.rows : \E j \in 1 .. m : y.key = keys[j]
            BY DEF Joined
          <5>2. \A j \in 1 .. m : r.key # keys[j]
            BY <1>5, <3>1, <3>3 DEF k
          <5> HIDE DEF r
          <5> QED BY <5>1, <5>2
        <4>3. r = row <=> d = x
          BY <3>1, <2>4, <3>3 DEF row, k
        <4>4. keys[i].ap = x
          BY <3>3, <4>1 DEF k
        <4> HIDE DEF r
        <4>5. r \in next.rows <=> d = x /\ x \in aps
          BY <2>3, <4>2, <4>3
        <4> QED BY <4>4, <4>5 DEF r
      <3> QED BY <1>1, <3>2, <3>3
    <2> QED BY <2>3, <2>5, <2>6 DEF Joined, Acc, next, k
  <1> QED BY <1>3, <1>4, <1>7, <1>8

LEMMA RadioJoined ==
    ASSUME NEW n \in Nat, NEW keys \in [1 .. n -> Values!RadioKeys], Values!IsInjective(keys),
           NEW aps \in SUBSET Aps
    PROVE  Joined(keys, aps, n, Values!RadioRows(keys, aps))
  <1>1. PICK g : RowOn(g, keys, aps, n) /\ Values!RadioRows(keys, aps) = g[1 .. n]
    <2>1. DOMAIN keys = 1 .. n
      OBVIOUS
    <2> QED BY ONLY Zenon, <2>1, n \in Nat, RowsUnfold
  <1>3. Joined(keys, aps, 0, g[1 .. 0])
    <2>1. g[1 .. 0] = NoRows
      BY Zenon, <1>1, RowFirst
    <2>2. \A i : i \notin 1 .. 0
      OBVIOUS
    <2> QED BY <2>1, <2>2 DEF Joined, NoRows
  <1>4. ASSUME NEW m \in 0 .. n, m # n, Joined(keys, aps, m, g[1 .. m])
        PROVE  Joined(keys, aps, m + 1, g[1 .. m + 1])
    <2>1. g[1 .. m + 1] = Values!RadioRow(g[1 .. m], keys[m + 1], aps)
      <3>1. \A j \in 0 .. n : j # n => g[1 .. j + 1] = Values!RadioRow(g[1 .. j], keys[j + 1], aps)
        BY <1>1, RowNext
      <3> QED BY ONLY Zenon, <1>4, <3>1
    <2> QED BY <1>4, <2>1, JoinedStep
  <1>5. Joined(keys, aps, n, g[1 .. n])
    <2> SUFFICES ASSUME ~Joined(keys, aps, n, g[1 .. n]) PROVE FALSE
      OBVIOUS
    <2> DEFINE Bad == {m \in 0 .. n : ~Joined(keys, aps, m, g[1 .. m])}
    <2>1. n \in Bad /\ Bad \in SUBSET Nat
      OBVIOUS
    <2>2. PICK d \in Bad : \A y \in Bad : d <= y
      BY <2>1, SmallestNat
    <2>3. d # 0 /\ d \in 0 .. n
      BY <1>3, <2>2
    <2>4. d - 1 \in 0 .. n /\ d - 1 \notin Bad /\ d - 1 # n /\ (d - 1) + 1 = d
      BY <2>2, <2>3
    <2>5. Joined(keys, aps, d - 1, g[1 .. d - 1])
      BY <2>4
    <2>6. Joined(keys, aps, (d - 1) + 1, g[1 .. (d - 1) + 1])
      BY <1>4, <2>4, <2>5
    <2> QED BY <2>2, <2>4, <2>6
  <1> QED BY <1>1, <1>5

LEMMA AlwaysJoined == ValueInv => RowsJoined
  <1> SUFFICES ASSUME ValueInv, made # None PROVE RowsJoined
    BY DEF RowsJoined, Values!RowsJoined
  <1>1. Values!Given /\ made = Values!Result
    BY DEF ValueInv
  <1>2. ASSUME given.kind = "radio", NEW i \in DOMAIN given.keys,
               \A j \in 1 .. i : given.keys[j].tail # "more", NEW d \in Aps
        PROVE  ([key |-> given.keys[i], device |-> d] \in made.rows)
               <=> (d = given.keys[i].ap /\ d \in given.aps)
    <2>1. PICK n \in 0 .. MaxKeys : \E ks \in [1 .. n -> Values!RadioKeys], A \in SUBSET Aps :
             Values!IsInjective(ks) /\ given = [kind |-> "radio", keys |-> ks, aps |-> A]
      BY <1>1, <1>2 DEF Values!Given
    <2>2. PICK ks \in [1 .. n -> Values!RadioKeys], A \in SUBSET Aps :
             Values!IsInjective(ks) /\ given = [kind |-> "radio", keys |-> ks, aps |-> A]
      BY <2>1
    <2>3. given.keys = ks /\ given.aps = A /\ given.kind = "radio" /\ n \in Nat
      BY <2>2
    <2>4. made = Values!RadioRows(ks, A)
      BY <1>1, <2>3 DEF Values!Result
    <2>5. Joined(ks, A, n, made)
      BY <2>2, <2>3, <2>4, RadioJoined
    <2> QED BY <1>2, <2>3, <2>5 DEF Joined, Plain
  <1>3. ASSUME given.kind = "bsn", made.meta.device # None
        PROVE  \E i \in DOMAIN given.rows : given.rows[i].serial = given.serial
                                            /\ given.rows[i].device = made.meta.device
    <2> DEFINE Row == [serial : Serials, device : Aps, mac : Serials]
    <2>1. PICK rws \in Values!BsnRows, serial \in Serials :
             given = [kind |-> "bsn", rows |-> rws, serial |-> serial]
      BY <1>1, <1>3 DEF Values!Given
    <2>2. PICK n \in 0 .. MaxKeys : rws \in [1 .. n -> Row]
      BY <2>1 DEF Values!BsnRows
    <2>3. given.rows = rws /\ given.serial = serial /\ n \in Nat /\ DOMAIN rws = 1 .. n
      BY <2>1, <2>2
    <2>4. made.meta = Values!MetaRow(2, serial, rws)
      BY <1>1, <1>3, <2>3 DEF Values!Result
    <2> DEFINE mine == {i \in DOMAIN rws : rws[i].serial = serial}
    <2>5. serial \in DOMAIN Values!Bsn(rws) /\ made.meta.device = Values!Bsn(rws)[serial]
      BY <1>3, <2>4 DEF Values!MetaRow
    <2>6. serial \in {rws[i].serial : i \in DOMAIN rws} /\ made.meta.device = rws[Values!Max(mine)].device
      BY <2>5 DEF Values!Bsn
    <2>7. mine \in SUBSET (1 .. n) /\ mine # {}
      BY <2>3, <2>6
    <2>8. Values!Max(mine) \in mine
      BY <2>3, <2>7, LargestValue
    <2> QED BY <2>3, <2>6, <2>8
  <1> QED BY <1>2, <1>3 DEF RowsJoined, Values!RowsJoined

(* A radio gets the name of its own access point, if that is known, and no other,    *)
(* until a key with more than a digit comes (post_merge_wireless_apname_on_radio,   *)
(* where a name that was looked up stays for the next key); an access point gets a   *)
(* name that goes with its serial number (post_merge_wireless_meta_bsn).  For every  *)
(* number of keys and of access points.                                              *)
THEOREM RowsAlwaysJoined == Values!ValueSpec => []RowsJoined
  <1>1. ValueInv => RowsJoined
    BY AlwaysJoined
  <1> QED BY <1>1, ValueInit, ValueStep, PTL DEF Values!ValueSpec

-----------------------------------------------------------------------------
(* Branches: the least set that has a node and what is below its members *)

\* A branch has its node,
LEMMA BranchHasNode == ASSUME NEW node, NEW t PROVE node \in Tree!Branch(node, t)
  BY DEF Tree!Branch

\* and what hangs from a member;
LEMMA BranchDown ==
    ASSUME NEW node, NEW t, NEW c \in DOMAIN t, t[c] \in Tree!Branch(node, t)
    PROVE  c \in Tree!Branch(node, t)
  BY DEF Tree!Branch

\* it is part of every set with both properties,
LEMMA BranchLeast ==
    ASSUME NEW node, NEW t, NEW X, node \in X, \A c \in DOMAIN t : t[c] \in X => c \in X
    PROVE  Tree!Branch(node, t) \subseteq X
  <1> DEFINE nodes == DOMAIN t \cup {node}
             Y == X \cap nodes
  <1>1. Y \in SUBSET nodes /\ node \in Y /\ \A c \in DOMAIN t : t[c] \in Y => c \in Y
    OBVIOUS
  <1> QED BY <1>1 DEF Tree!Branch

\* and all but the node itself are nodes of the tree.
LEMMA BranchNodes ==
    ASSUME NEW node, NEW t PROVE Tree!Branch(node, t) \subseteq DOMAIN t \cup {node}
  BY DEF Tree!Branch

\* All but the node itself hang from a member.
LEMMA BranchUp ==
    ASSUME NEW node, NEW t, NEW n \in Tree!Branch(node, t), n # node
    PROVE  n \in DOMAIN t /\ t[n] \in Tree!Branch(node, t)
  <1> DEFINE X == {m \in Tree!Branch(node, t) : m = node \/ (m \in DOMAIN t /\ t[m] \in Tree!Branch(node, t))}
  <1>1. node \in X
    BY BranchHasNode
  <1>2. \A c \in DOMAIN t : t[c] \in X => c \in X
    BY BranchDown
  <1>3. Tree!Branch(node, t) \subseteq X
    <2> HIDE DEF X
    <2> QED BY <1>1, <1>2, BranchLeast
  <1> QED BY <1>3

\* A branch of a member is part of the branch.
LEMMA BranchWithin ==
    ASSUME NEW node, NEW t, NEW c \in Tree!Branch(node, t)
    PROVE  Tree!Branch(c, t) \subseteq Tree!Branch(node, t)
  <1> DEFINE X == Tree!Branch(node, t)
  <1>1. c \in X /\ \A m \in DOMAIN t : t[m] \in X => m \in X
    BY BranchDown
  <1> QED
    <2> HIDE DEF X
    <2>1. Tree!Branch(c, t) \subseteq X
      BY <1>1, BranchLeast
    <2> QED BY <2>1 DEF X

-----------------------------------------------------------------------------
(* Grounded trees: every node hangs, over some way, from the top *)

Grounded(t) == Tree!Top \notin DOMAIN t /\ DOMAIN t \subseteq Tree!Branch(Tree!Top, t)

\* What it takes to show it: whatever has the top, and what is below its members, has all nodes.
LEMMA GroundedIf ==
    ASSUME NEW t, Tree!Top \notin DOMAIN t,
           \A X : Tree!Top \in X /\ (\A c \in DOMAIN t : t[c] \in X => c \in X) => DOMAIN t \subseteq X
    PROVE  Grounded(t)
  <1> DEFINE X == Tree!Branch(Tree!Top, t)
  <1>1. Tree!Top \in X /\ \A c \in DOMAIN t : t[c] \in X => c \in X
    BY BranchHasNode, BranchDown
  <1> HIDE DEF X
  <1>2. DOMAIN t \subseteq X
    BY <1>1
  <1> QED BY <1>2 DEF Grounded, X

\* And what it gives.
LEMMA GroundedHas ==
    ASSUME NEW t, Grounded(t), NEW X, Tree!Top \in X, \A c \in DOMAIN t : t[c] \in X => c \in X
    PROVE  DOMAIN t \subseteq X
  BY BranchLeast DEF Grounded

\* Each node hangs from the top or from another one.
LEMMA GroundedUp ==
    ASSUME NEW t, Grounded(t), NEW n \in DOMAIN t
    PROVE  t[n] = Tree!Top \/ t[n] \in DOMAIN t
  <1>1. n \in Tree!Branch(Tree!Top, t) /\ n # Tree!Top
    BY DEF Grounded
  <1>2. t[n] \in Tree!Branch(Tree!Top, t)
    BY <1>1, BranchUp
  <1> QED BY <1>2, BranchNodes

\* No node is below itself.
LEMMA NotBelow ==
    ASSUME NEW t, Grounded(t), NEW n \in DOMAIN t
    PROVE  t[n] \notin Tree!Branch(n, t)
  <1> SUFFICES ASSUME t[n] \in Tree!Branch(n, t) PROVE FALSE
    OBVIOUS
  <1> DEFINE X == (DOMAIN t \cup {Tree!Top}) \ Tree!Branch(n, t)
  <1>1. Tree!Top \in X
    BY BranchNodes DEF Grounded
  <1>2. ASSUME NEW c \in DOMAIN t, t[c] \in X PROVE c \in X
    <2> SUFFICES ASSUME c \in Tree!Branch(n, t) PROVE FALSE
      OBVIOUS
    <2>1. c # n
      BY <1>2
    <2>2. t[c] \in Tree!Branch(n, t)
      BY <2>1, BranchUp
    <2> QED BY <1>2, <2>2
  <1>3. DOMAIN t \subseteq X
    <2> HIDE DEF X
    <2> QED BY <1>1, <1>2, GroundedHas
  <1> QED BY <1>3, BranchHasNode

\* The top is in no branch but its own.
LEMMA TopNotBelow ==
    ASSUME NEW t, Grounded(t), NEW n, n # Tree!Top
    PROVE  Tree!Top \notin Tree!Branch(n, t)
  BY BranchNodes DEF Grounded

-----------------------------------------------------------------------------
(* Sets of entities that reach the root *)

\* What reaches the root over those: by its own link, or over one that does;
LEMMA ReachedIn ==
    ASSUME NEW those, NEW i \in Tree!Entities, 
           given[i].parent \in {Tree!Root} \cup those
           \/ (given[i].parent \in Tree!Reached(those) /\ given[i].parent < i)
    PROVE  i \in Tree!Reached(those)
  BY DEF Tree!Reached

\* it is part of every set that has all these;
LEMMA ReachedLeast ==
    ASSUME NEW those, NEW X \in SUBSET Tree!Entities,
           \A i \in Tree!Entities : given[i].parent \in {Tree!Root} \cup those
                               \/ (given[i].parent \in X /\ given[i].parent < i) => i \in X
    PROVE  Tree!Reached(those) \subseteq X
  BY DEF Tree!Reached

\* and there is no other way.
LEMMA ReachedFrom ==
    ASSUME NEW those, NEW i \in Tree!Reached(those)
    PROVE  /\ i \in Tree!Entities
           /\ \/ given[i].parent \in {Tree!Root} \cup those
              \/ given[i].parent \in Tree!Reached(those) /\ given[i].parent < i
  <1> DEFINE X == {e \in Tree!Reached(those) :
                     \/ given[e].parent \in {Tree!Root} \cup those
                     \/ given[e].parent \in Tree!Reached(those) /\ given[e].parent < e}
  <1>1. Tree!Reached(those) \subseteq Tree!Entities
    BY DEF Tree!Reached
  <1>2. X \in SUBSET Tree!Entities
    BY <1>1
  <1>3. \A e \in Tree!Entities : given[e].parent \in {Tree!Root} \cup those
                            \/ (given[e].parent \in X /\ given[e].parent < e) => e \in X
    BY ReachedIn
  <1>4. Tree!Reached(those) \subseteq X
    <2> HIDE DEF X
    <2> QED BY <1>2, <1>3, ReachedLeast
  <1> QED BY <1>1, <1>4

\* A set of entities that has those has all that reach the root from there, if with a
\* parent it has each later child.
LEMMA ReachedInduction ==
    ASSUME Last \in Nat, NEW those, NEW X,
           \A i \in Tree!Reached(those) :
              given[i].parent \in {Tree!Root} \cup those
              \/ (given[i].parent \in Tree!Reached(those) \cap X /\ given[i].parent < i) => i \in X
    PROVE  Tree!Reached(those) \subseteq X
  <1> SUFFICES ASSUME Tree!Reached(those) \ X # {} PROVE FALSE
    OBVIOUS
  <1>1. Tree!Reached(those) \ X \in SUBSET Nat
    BY ReachedFrom DEF Tree!Entities
  <1>2. PICK i \in Tree!Reached(those) \ X : \A e \in Tree!Reached(those) \ X : i <= e
    BY <1>1, SmallestNat
  <1>3. given[i].parent \in Tree!Reached(those) /\ given[i].parent < i /\ given[i].parent \notin X
    BY <1>2, ReachedFrom
  <1>4. given[i].parent \in Nat /\ i \in Nat
    BY <1>1, <1>2, <1>3
  <1> QED BY <1>2, <1>3, <1>4

\* What hangs from the root, or from what reaches it, reaches it.
LEMMA RootedIn ==
    ASSUME NEW i \in Tree!Entities, given[i].parent \in {Tree!Root} \cup Tree!Rooted
    PROVE  i \in Tree!Rooted
  BY DEF Tree!Rooted

-----------------------------------------------------------------------------
(* What the operations on a grounded tree leave grounded *)

\* A new node at its parent, or at the top.
LEMMA AttachedGrounded ==
    ASSUME NEW t, Grounded(t), NEW n, n # Tree!Top, n \notin DOMAIN t, NEW parent
    PROVE  Grounded(Tree!Attached(n, parent, t))
  <1> DEFINE u == Tree!Attached(n, parent, t)
  <1>1. /\ DOMAIN u = DOMAIN t \cup {n}
        /\ \A m \in DOMAIN t : u[m] = t[m]
        /\ u[n] \in DOMAIN t \cup {Tree!Top}
    BY DEF Tree!Attached, Tree!Found
  <1> HIDE DEF u
  <1>2. ASSUME NEW X, Tree!Top \in X, \A c \in DOMAIN u : u[c] \in X => c \in X
        PROVE  DOMAIN u \subseteq X
    <2>1. DOMAIN t \subseteq X
      <3>1. \A c \in DOMAIN t : t[c] \in X => c \in X
        BY <1>1, <1>2
      <3> QED BY <1>2, <3>1, GroundedHas
    <2>2. n \in X
      BY <1>1, <1>2, <2>1
    <2> QED BY <1>1, <2>1, <2>2
  <1>3. Tree!Top \notin DOMAIN u
    BY <1>1 DEF Grounded
  <1>4. Grounded(u)
    BY <1>2, <1>3, GroundedIf
  <1> QED BY <1>4 DEF u

\* The tree with a branch of another one below one of its nodes.
Joint(t, s, parent, others) ==
    [n \in DOMAIN t \cup Tree!Branch(s, others) |->
        IF n = s THEN parent ELSE IF n \in Tree!Branch(s, others) THEN others[n] ELSE t[n]]

\* A branch of one tree moved to a node of another.
LEMMA JointGrounded ==
    ASSUME NEW t, Grounded(t), NEW others, NEW s \in DOMAIN others, NEW parent \in DOMAIN t,
           DOMAIN t \cap DOMAIN others = {}, Tree!Top \notin DOMAIN others
    PROVE  Grounded(Joint(t, s, parent, others))
  <1> DEFINE u == Joint(t, s, parent, others)
             B == Tree!Branch(s, others)
  <1>1. B \subseteq DOMAIN others /\ s \in B
    BY BranchNodes, BranchHasNode
  <1>2. /\ DOMAIN u = DOMAIN t \cup B /\ u[s] = parent
        /\ \A n \in B : n # s => u[n] = others[n]
        /\ \A n \in DOMAIN t : u[n] = t[n]
    BY <1>1 DEF Joint
  <1> HIDE DEF u
  <1>3. ASSUME NEW X, Tree!Top \in X, \A c \in DOMAIN u : u[c] \in X => c \in X
        PROVE  DOMAIN u \subseteq X
    <2>1. DOMAIN t \subseteq X
      <3>1. \A c \in DOMAIN t : t[c] \in X => c \in X
        BY <1>2, <1>3
      <3> QED BY <1>3, <3>1, GroundedHas
    <2>2. s \in X
      BY <1>1, <1>2, <1>3, <2>1
    <2> DEFINE Y == B \cap X
    <2>3. s \in Y
      BY <1>1, <2>2
    <2>4. ASSUME NEW c \in DOMAIN others, others[c] \in Y PROVE c \in Y
      <3>1. c \in B
        BY <2>4, BranchDown
      <3>2. CASE c = s
        BY <2>3, <3>2
      <3>3. CASE c # s
        BY <1>2, <1>3, <2>4, <3>1, <3>3
      <3> QED BY <3>2, <3>3
    <2>5. B \subseteq Y
      <3> HIDE DEF Y
      <3>1. Tree!Branch(s, others) \subseteq Y
        BY <2>3, <2>4, BranchLeast
      <3> QED BY <3>1
    <2> QED BY <1>2, <2>1, <2>5
  <1>4. Tree!Top \notin DOMAIN u
    BY <1>1, <1>2 DEF Grounded
  <1>5. Grounded(u)
    BY <1>3, <1>4, GroundedIf
  <1> QED BY <1>5 DEF u

\* A tree without some branches.
LEMMA WithoutGrounded ==
    ASSUME NEW t, Grounded(t), NEW S, \A c \in DOMAIN t : t[c] \in S => c \in S, Tree!Top \notin S
    PROVE  Grounded(Tree!Without(t, S))
  <1> DEFINE u == Tree!Without(t, S)
  <1>1. DOMAIN u = DOMAIN t \ S /\ \A n \in DOMAIN u : u[n] = t[n]
    BY DEF Tree!Without, Tree!Restrict
  <1> HIDE DEF u
  <1>2. ASSUME NEW X, Tree!Top \in X, \A c \in DOMAIN u : u[c] \in X => c \in X
        PROVE  DOMAIN u \subseteq X
    <2>1. DOMAIN t \subseteq X \cup S
      <3> DEFINE Y == X \cup S
      <3>1. Tree!Top \in Y /\ \A c \in DOMAIN t : t[c] \in Y => c \in Y
        BY <1>1, <1>2
      <3> HIDE DEF Y
      <3>2. DOMAIN t \subseteq Y
        BY <3>1, GroundedHas
      <3> QED BY <3>2 DEF Y
    <2> QED BY <1>1, <2>1
  <1>3. Tree!Top \notin DOMAIN u
    BY <1>1 DEF Grounded
  <1>4. Grounded(u)
    BY <1>2, <1>3, GroundedIf
  <1> QED BY <1>4 DEF u

\* regraft, where the tree has the parent.
Kept(node, known, t) == Tree!ChildrenIn(node, t) \cap known
Branches(node, known, t) == UNION {Tree!Branch(c, t) : c \in Kept(node, known, t)}

\* The branches of the children that are kept are whole branches of the node.
LEMMA KeptBranches ==
    ASSUME NEW t, NEW node, NEW known
    PROVE  /\ Branches(node, known, t) \subseteq DOMAIN t
           /\ Branches(node, known, t) \subseteq Tree!Branch(node, t)
           /\ Kept(node, known, t) \subseteq Branches(node, known, t)
           /\ \A c \in DOMAIN t : t[c] \in Branches(node, known, t) => c \in Branches(node, known, t)
           /\ \A n \in Branches(node, known, t) :
                 n \in Kept(node, known, t) \/ t[n] \in Branches(node, known, t)
  <1>1. \A c \in Kept(node, known, t) : c \in DOMAIN t /\ c \in Tree!Branch(node, t)
    <2> TAKE c \in Kept(node, known, t)
    <2>1. c \in DOMAIN t /\ t[c] = node
      BY DEF Kept, Tree!ChildrenIn
    <2> QED BY <2>1, BranchHasNode, BranchDown
  <1>2. ASSUME NEW n \in Branches(node, known, t)
        PROVE  n \in DOMAIN t /\ n \in Tree!Branch(node, t)
    <2>1. PICK c \in Kept(node, known, t) : n \in Tree!Branch(c, t)
      BY DEF Branches
    <2> QED BY <1>1, <2>1, BranchNodes, BranchWithin
  <1>3. Kept(node, known, t) \subseteq Branches(node, known, t)
    BY BranchHasNode DEF Branches
  <1>4. ASSUME NEW c \in DOMAIN t, t[c] \in Branches(node, known, t)
        PROVE  c \in Branches(node, known, t)
    BY <1>4, BranchDown DEF Branches
  <1>5. ASSUME NEW n \in Branches(node, known, t), n \notin Kept(node, known, t)
        PROVE  t[n] \in Branches(node, known, t)
    <2>1. PICK c \in Kept(node, known, t) : n \in Tree!Branch(c, t)
      BY DEF Branches
    <2>2. n # c
      BY <1>5
    <2>3. t[n] \in Tree!Branch(c, t)
      BY <2>1, <2>2, BranchUp
    <2> QED BY <2>3 DEF Branches
  <1> QED BY <1>2, <1>3, <1>4, <1>5

\* regraft, point by point: where the tree has the parent,
LEMMA RegraftedIs ==
    ASSUME NEW t, NEW node, NEW parent, NEW known, Tree!Found(parent, t)
    PROVE  /\ DOMAIN Tree!Regrafted(node, parent, known, t)
                = DOMAIN t \ (Tree!Branch(node, t) \ Branches(node, known, t))
           /\ \A n \in DOMAIN Tree!Regrafted(node, parent, known, t) :
                 Tree!Regrafted(node, parent, known, t)[n]
                    = IF n \in Kept(node, known, t) THEN parent ELSE t[n]
  BY DEF Tree!Regrafted, Kept, Branches

\* and where it does not.
LEMMA NotRegrafted ==
    ASSUME NEW t, NEW node, NEW parent, NEW known, ~Tree!Found(parent, t)
    PROVE  Tree!Regrafted(node, parent, known, t) = Tree!Without(t, Branches(node, known, t))
  BY DEF Tree!Regrafted, Kept, Branches

\* regraft leaves the tree grounded.
LEMMA RegraftedGrounded ==
    ASSUME NEW t, Grounded(t), NEW node \in DOMAIN t, NEW parent, NEW known,
           Tree!Found(parent, t) => t[node] = parent
    PROVE  Grounded(Tree!Regrafted(node, parent, known, t))
  <1> DEFINE B == Tree!Branch(node, t)
             kept == Kept(node, known, t)
             bs == Branches(node, known, t)
             u == Tree!Regrafted(node, parent, known, t)
  <1>1. /\ bs \subseteq DOMAIN t /\ bs \subseteq B /\ kept \subseteq bs
        /\ \A c \in DOMAIN t : t[c] \in bs => c \in bs
        /\ \A n \in bs : n \in kept \/ t[n] \in bs
    BY KeptBranches
  <1>2. node \in B /\ B \subseteq DOMAIN t /\ \A c \in DOMAIN t : t[c] \in B => c \in B
    BY BranchHasNode, BranchDown, BranchNodes
  <1>3. \A n \in B : n # node => t[n] \in B
    BY BranchUp
  <1>4. Tree!Top \notin DOMAIN t /\ Tree!Top \notin bs
    BY <1>1 DEF Grounded
  <1>5. CASE Tree!Found(parent, t)
    <2>1. /\ DOMAIN u = DOMAIN t \ (B \ bs)
          /\ \A n \in DOMAIN u : u[n] = IF n \in kept THEN parent ELSE t[n]
      BY <1>5, RegraftedIs
    <2>2. parent \in DOMAIN t /\ parent \notin B /\ t[node] = parent
      BY <1>5, NotBelow DEF Tree!Found
    <2>3. \A n \in DOMAIN t : t[n] = Tree!Top \/ t[n] \in DOMAIN t
      BY GroundedUp
    <2> HIDE DEF u, B, kept, bs
    <2>4. ASSUME NEW X, Tree!Top \in X, \A c \in DOMAIN u : u[c] \in X => c \in X
          PROVE  DOMAIN u \subseteq X
      <3> DEFINE Y == {n \in DOMAIN t \cup {Tree!Top} : /\ n \in DOMAIN u \cup {Tree!Top} => n \in X
                                                        /\ n \in B => parent \in X}
      <3>1. Tree!Top \in Y
        BY <1>2, <1>4, <2>4
      <3>2. ASSUME NEW c \in DOMAIN t, t[c] \in Y PROVE c \in Y
        <4>1. c \in B => parent \in X
          <5>1. CASE c = node
            BY <2>1, <2>2, <3>2, <5>1
          <5>2. CASE c # node
            BY <1>3, <3>2, <5>2
          <5> QED BY <5>1, <5>2
        <4>2. c \in DOMAIN u => c \in X
          <5> SUFFICES ASSUME c \in DOMAIN u PROVE c \in X
            OBVIOUS
          <5>1. CASE c \in kept
            BY <1>1, <2>1, <2>4, <4>1, <5>1
          <5>2. CASE c \notin kept
            <6>1. u[c] = t[c]
              BY <2>1, <5>2
            <6>2. t[c] \in DOMAIN u \cup {Tree!Top}
              <7>1. CASE c \in bs
                BY <1>1, <2>1, <5>2, <7>1
              <7>2. CASE c \notin bs
                <8>1. c \notin B
                  BY <2>1, <7>2
                <8> QED BY <1>2, <2>1, <2>3, <8>1
              <7> QED BY <7>1, <7>2
            <6> QED BY <2>4, <3>2, <6>1, <6>2
          <5> QED BY <5>1, <5>2
        <4> QED BY <1>4, <4>1, <4>2
      <3>3. DOMAIN t \subseteq Y
        <4> HIDE DEF Y
        <4> QED BY <3>1, <3>2, GroundedHas
      <3> QED BY <2>1, <3>3
    <2>5. Tree!Top \notin DOMAIN u
      BY <1>4, <2>1
    <2>6. Grounded(u)
      BY <2>4, <2>5, GroundedIf
    <2> QED BY <2>6 DEF u
  <1>6. CASE ~Tree!Found(parent, t)
    <2>1. Grounded(Tree!Without(t, bs))
      <3> HIDE DEF bs
      <3> QED BY <1>1, <1>4, WithoutGrounded
    <2> QED BY <1>6, <2>1, NotRegrafted
  <1> QED BY <1>5, <1>6

\* And so does reattach_as.
LEMMA RenamedGrounded ==
    ASSUME NEW t, Grounded(t), NEW node, NEW new, NEW parent,
           new # Tree!Top, node # Tree!Top, new \notin DOMAIN t, parent # node,
           node \in DOMAIN t /\ Tree!Found(parent, t) => t[node] = parent
    PROVE  Grounded(Tree!Renamed(node, new, parent, t))
  <1> DEFINE u == Tree!Renamed(node, new, parent, t)
  <1>1. CASE ~Tree!Found(parent, t)
    BY <1>1 DEF Tree!Renamed
  <1>2. CASE Tree!Found(parent, t)
    <2>1. /\ DOMAIN u = (DOMAIN t \ {node}) \cup {new}
          /\ u[new] = parent
          /\ \A n \in DOMAIN u : n # new => u[n] = IF t[n] = node THEN new ELSE t[n]
      BY <1>2 DEF Tree!Renamed
    <2>2. parent \in DOMAIN t
      BY <1>2 DEF Tree!Found
    <2> HIDE DEF u
    <2>3. ASSUME NEW X, Tree!Top \in X, \A c \in DOMAIN u : u[c] \in X => c \in X
          PROVE  DOMAIN u \subseteq X
      <3> DEFINE Y == {n \in DOMAIN t \cup {Tree!Top} : (n # node => n \in X) /\ (n = node => new \in X)}
      <3>1. Tree!Top \in Y
        BY <2>3, <2>2 DEF Grounded
      <3>2. ASSUME NEW c \in DOMAIN t, t[c] \in Y PROVE c \in Y
        <4>1. CASE c = node
          <5>1. parent \in X
            BY <1>2, <3>2, <4>1
          <5> QED BY <2>1, <2>3, <4>1, <5>1
        <4>2. CASE c # node
          <5>1. c \in DOMAIN u /\ c # new
            BY <2>1, <4>2
          <5> QED BY <2>1, <2>3, <3>2, <4>2, <5>1
        <4> QED BY <4>1, <4>2
      <3>3. DOMAIN t \subseteq Y
        <4> HIDE DEF Y
        <4> QED BY <3>1, <3>2, GroundedHas
      <3>4. new \in X
        BY <2>1, <2>2, <2>3, <3>3
      <3> QED BY <2>1, <3>3, <3>4
    <2>4. Tree!Top \notin DOMAIN u
      BY <2>1 DEF Grounded
    <2>5. Grounded(u)
      BY <2>3, <2>4, GroundedIf
    <2> QED BY <2>5 DEF u
  <1> QED BY <1>1, <1>2

-----------------------------------------------------------------------------
(* The inductive invariant: what is reported *)

\* What a device reports.
Given ==
    given \in [Tree!Entities ->
                 [type : Tree!Types, serial : BOOLEAN, port : Ports \cup {None}, rev : BOOLEAN,
                  parent : Tree!Entities \cup {Tree!Root, Missing}]]

\* What is known of an entity, its parent replaced or not.
EntityRow == [type : Tree!Types, serial : BOOLEAN, port : Ports \cup {None}, rev : BOOLEAN,
              parent : Tree!Entities \cup Ports \cup {Tree!Root, Missing, None}]

\* p describes the transceiver, or something in it.
Describes(t, p) == \E c \in {t} \cup Tree!In(t) : given[c].port = p

-----------------------------------------------------------------------------
(* The inductive invariant: while the tree is built *)

\* Of entities in the tree: each hangs from its parent, or from the top if that is the root.
Hung ==
    /\ Grounded(tree) /\ DOMAIN tree \subseteq Tree!Entities
    /\ \A n \in DOMAIN tree : given[n].parent = IF tree[n] = Tree!Top THEN Tree!Root ELSE tree[n]

\* Of strays: each hangs from its parent, or else from the top, and then it came before the
\* parent, if that comes at all.
Strayed ==
    /\ DOMAIN strays \subseteq Tree!Entities /\ DOMAIN tree \cap DOMAIN strays = {}
    /\ \A n \in DOMAIN strays :
          /\ given[n].parent # Tree!Root
          /\ \/ strays[n] = Tree!Top /\ ~(given[n].parent \in Tree!Entities /\ given[n].parent < n)
             \/ strays[n] = given[n].parent /\ strays[n] \in DOMAIN strays

\* No loop has run yet.
Nothing == items = given /\ remap = <<>> /\ chassis = {}

\* The entities before `at' are in the tree, or are strays.
Placing ==
    /\ Nothing /\ Hung /\ Strayed /\ DOMAIN tree \subseteq Tree!Rooted
    /\ at \in 1 .. Last + 1
    /\ DOMAIN tree \cup DOMAIN strays = 1 .. at - 1
    /\ \A i \in Tree!Reached({}) : i < at => i \in DOMAIN tree

\* Those that are in the tree after as many rounds, and those that this round adds.
After(those) == /\ those \subseteq DOMAIN tree
                /\ \A j \in Tree!StrayTops : given[j].parent \in those => j \in unseen

\* All of them are, and each round adds those one link further.
Moving ==
    /\ Nothing /\ Hung /\ Strayed /\ DOMAIN tree \subseteq Tree!Rooted
    /\ DOMAIN tree \cup DOMAIN strays = Tree!Entities
    /\ unseen \subseteq Tree!StrayTops
    /\ \/ rounds = 2 /\ unseen = {} /\ Tree!ReachesRoot(0) \subseteq DOMAIN tree
       \/ rounds = 1 /\ After(Tree!ReachesRoot(0))
       \/ rounds = 0 /\ After(Tree!ReachesRoot(1))

-----------------------------------------------------------------------------
(* The inductive invariant: the first loop *)

\* The transceivers before some entity that are to get the name of a port.
Remapped(before) ==
    /\ DOMAIN remap \subseteq Tree!Transceivers
    /\ \A t \in DOMAIN remap : t < before /\ remap[t] \in Ports /\ Describes(t, remap[t])

\* A chassis found is one.
ChassisOnly == chassis \subseteq {c \in Tree!Entities : given[c].type = "chassis"}

\* Only what transceivers tell has changed, and what they are told.
Scanning ==
    /\ Hung /\ Strayed /\ DOMAIN tree \cup DOMAIN strays = Tree!Entities
    /\ Tree!ReachesRoot(2) \subseteq DOMAIN tree /\ DOMAIN tree \subseteq Tree!Rooted
    /\ at \in 1 .. Last + 1
    /\ items \in [Tree!Entities -> EntityRow]
    /\ \A i \in Tree!Entities :
          /\ items[i].type = given[i].type /\ items[i].serial = given[i].serial
          /\ items[i].port = given[i].port
          /\ items[i].parent = IF i \in DOMAIN tree /\ tree[i] \in Tree!Transceivers /\ tree[i] < at
                               THEN given[i].port ELSE given[i].parent
    /\ \A t \in Tree!Transceivers : t < at => t \in DOMAIN tree
    /\ Remapped(at) /\ ChassisOnly
    /\ \A t \in Tree!Transceivers : Tree!Plain(t) /\ t < at =>
          \A c \in Tree!ChildrenIn(t, tree) : given[c].port # None =>
              t \in DOMAIN remap /\ remap[t] = given[c].port

-----------------------------------------------------------------------------
(* The inductive invariant: the second loop *)

\* What is left: of the entities that are not, each has a name that is, or is of no use.
Left ==
    /\ DOMAIN items \subseteq Tree!Entities \cup Ports
    /\ \A i \in DOMAIN items : items[i] \in EntityRow
    /\ \A i \in Tree!Entities :
          IF i \in DOMAIN items
          THEN items[i].type = given[i].type /\ items[i].serial = given[i].serial
          ELSE /\ i < at
               /\ \/ i \in DOMAIN remap /\ remap[i] \in DOMAIN items
                  \/ ~given[i].serial /\ given[i].type # "fan" /\ given[i].parent # Tree!Root

\* Ports come with the transceivers that were renamed.
Names ==
    /\ DOMAIN tree \subseteq Tree!Entities \cup Ports
    /\ \A p \in Ports : p \in DOMAIN tree \cup DOMAIN items =>
          p \in DOMAIN items /\ \E t \in DOMAIN remap : t < at /\ remap[t] = p

\* The entities that are in the tree and in the data.
Reported == DOMAIN tree \cap DOMAIN items

\* The tree has an entity where its data say: if it has the parent.
InPlace == \A x \in Reported \cap Tree!Entities : items[x].parent \in DOMAIN tree => tree[x] = items[x].parent

\* And if not: where a transceiver told it what it describes, or at the top.
Elsewhere == {Tree!Top} \cup Ports \cup Tree!Transceivers
OutOfPlace ==
    /\ \A x \in Reported \cap Tree!Entities : tree[x] # items[x].parent => tree[x] \in Elsewhere
    /\ \A x \in DOMAIN tree \ DOMAIN items : tree[x] \in Elsewhere

\* A transceiver tells all that the tree has below it, which is in it as reported.
InTransceivers ==
    /\ DOMAIN strays \subseteq Tree!Entities \ Tree!Transceivers
    /\ DOMAIN tree \cap DOMAIN strays = {}
    /\ \A x \in DOMAIN items : items[x].parent \in Tree!Transceivers => x \in DOMAIN strays
    /\ \A x \in DOMAIN tree : tree[x] \in Tree!Transceivers => x \in Tree!Entities /\ given[x].parent = tree[x]

\* What has a port for a parent is below it, or below the transceiver the port describes.
BelowPorts ==
    \A x \in Reported \cap Tree!Entities : items[x].parent \in Ports =>
        \/ tree[x] = items[x].parent
        \/ /\ items[x].parent \notin DOMAIN tree
           /\ \E t \in Tree!Transceivers :
                 /\ Describes(t, items[x].parent)
                 /\ tree[x] = t \/ (t \in DOMAIN remap /\ tree[x] = remap[t])

AtRoot ==
    \A c \in DOMAIN items \cap Tree!Entities :
        /\ given[c].parent = Tree!Root <=> items[c].parent = Tree!Root
        /\ items[c].parent = Tree!Root /\ c \in DOMAIN tree => tree[c] = Tree!Top

\* What holds nothing never will.
Leaves ==
    \A x \in Tree!Entities : Tree!In(x) = {} =>
        /\ \A y \in DOMAIN items : items[y].parent # x
        /\ \A y \in DOMAIN tree : tree[y] # x

\* If the tree had all entities, and transceivers are plain.
AllPlain == strays = <<>> /\ \A t \in Tree!Transceivers : Tree!Plain(t)

\* An entity has its parent, in the data as in the tree.
WithParents ==
    \A x \in DOMAIN items :
        /\ items[x].parent # Missing
        /\ items[x].parent \in Tree!Entities =>
              x \in DOMAIN tree /\ tree[x] = items[x].parent /\ items[x].parent \in DOMAIN items

\* A port is reported, or its transceiver will be renamed, if it is not removed and what
\* was told its port told again.
WithPorts ==
    \A x \in DOMAIN items :
        /\ items[x].parent \in Ports \cup {None} => x \in Tree!Entities \ Tree!Transceivers /\ Tree!In(x) = {}
        /\ items[x].parent \in Ports =>
              \/ items[x].parent \in DOMAIN items
              \/ /\ x \in DOMAIN tree /\ tree[x] \in DOMAIN remap /\ tree[x] >= at
                 /\ remap[tree[x]] = items[x].parent

\* What the tree has that is not reported has nothing below it, or is at the top.
Remains == \A x \in DOMAIN tree \ DOMAIN items : tree[x] = Tree!Top \/ Tree!ChildrenIn(x, tree) = {}

TreeSound == AllPlain => WithParents /\ WithPorts /\ Remains

\* All parts.
Cleaning ==
    /\ at \in 1 .. Last + 1 /\ Remapped(Last + 1) /\ ChassisOnly
    /\ Grounded(tree) /\ Left /\ Names /\ InPlace /\ OutOfPlace /\ InTransceivers
    /\ BelowPorts /\ AtRoot /\ Leaves /\ TreeSound

-----------------------------------------------------------------------------
(* The inductive invariant *)

\* What holds at each stage of an inventory.
TreeInv ==
    /\ Given /\ Tree!PortsApart
    /\ stage \in {"placing", "moving", "scanning", "cleaning", "reported", "lost"}
    /\ stage = "placing" => Placing
    /\ stage = "moving" => Moving
    /\ stage = "scanning" => Scanning
    /\ stage = "cleaning" => Cleaning
    /\ stage = "reported" => Tree!HardwareKept /\ Tree!ParentsReported
    /\ stage = "lost" => Tree!LostForAReason

-----------------------------------------------------------------------------
(* What it starts with *)

\* A device reports rows of their types.
LEMMA GivenTypes == ASSUME Tree!EntityAssumption, Tree!Init PROVE Given
  <1> SUFFICES ASSUME NEW i \in Tree!Entities
               PROVE  given[i] \in [type : Tree!Types, serial : BOOLEAN, port : Ports \cup {None},
                                    rev : BOOLEAN, parent : Tree!Entities \cup {Tree!Root, Missing}]
    BY DEF Tree!Init, Tree!Reports, Given
  <1>1. PICK k \in Kinds, p \in Tree!Entities \cup {Tree!Root, Missing} :
           given[i] = [type |-> k.type, serial |-> k.serial, port |-> k.port, rev |-> k.rev, parent |-> p]
    BY DEF Tree!Init, Tree!Reports
  <1>2. k \in [type : Tree!Types, serial : BOOLEAN, port : Ports \cup {None}, rev : BOOLEAN]
    BY DEF Tree!EntityAssumption
  <1> QED BY <1>1, <1>2

\* Entities, ports, and what is none of them.
LEMMA Apart ==
    ASSUME Tree!EntityAssumption
    PROVE  /\ Last \in Nat /\ \A i \in Tree!Entities : i \in Nat /\ i >= 1 /\ i <= Last
           /\ Tree!Root \notin Tree!Entities /\ Tree!Top \notin Tree!Entities
           /\ Missing \notin Tree!Entities /\ None \notin Tree!Entities
           /\ Tree!Entities \cap Ports = {} /\ Tree!Root \notin Ports /\ Tree!Top \notin Ports
           /\ Missing \notin Ports /\ None \notin Ports
           /\ Missing # None /\ Missing # Tree!Root /\ None # Tree!Root /\ Tree!Root # Tree!Top
           /\ Missing # Tree!Top /\ None # Tree!Top
  BY DEF Tree!EntityAssumption, Tree!Entities, Tree!Root, Tree!Top

\* Before the first entity is placed there is no tree.
LEMMA TreeInit == ASSUME Tree!EntityAssumption, Tree!Init PROVE TreeInv
  <1>1. Given
    BY GivenTypes
  <1>2. DOMAIN tree = {} /\ DOMAIN strays = {}
    BY DEF Tree!Init
  <1>3. Hung /\ Strayed /\ DOMAIN tree \subseteq Tree!Rooted
    BY <1>2 DEF Hung, Strayed, Grounded
  <1>4. at = 1 /\ 1 .. at - 1 = {} /\ at \in 1 .. Last + 1
    <2>1. at = 1
      BY DEF Tree!Init
    <2>2. Last \in Nat
      BY Apart
    <2> QED BY <2>1, <2>2
  <1>5. \A i \in Tree!Reached({}) : ~(i < at)
    <2>1. Tree!Reached({}) \subseteq Tree!Entities
      BY DEF Tree!Reached
    <2>2. \A i \in Tree!Entities : i \in Nat /\ i >= 1
      BY Apart
    <2> QED BY <1>4, <2>1, <2>2
  <1>6. Placing
    BY <1>2, <1>3, <1>4, <1>5 DEF Placing, Nothing, Tree!Init
  <1> QED BY <1>1, <1>6 DEF TreeInv, Tree!Init

-----------------------------------------------------------------------------
(* Placing and moving *)

\* An entity is placed: it reaches the root if its parent did.
LEMMA PlaceInv ==
    ASSUME Tree!EntityAssumption, Given, Placing, Tree!Place PROVE Placing'
  <1> DEFINE parent == given[at].parent
  <1>1. /\ at \in Tree!Entities /\ at' = at + 1 /\ at' \in 1 .. Last + 1
        /\ 1 .. at' - 1 = (1 .. at - 1) \cup {at}
        /\ items = given /\ items' = given' /\ given' = given /\ remap' = remap
        /\ chassis' = chassis
    <2>1. at <= Last /\ at \in 1 .. Last + 1 /\ Last \in Nat /\ at' = at + 1
      BY DEF Tree!Place, Placing, Tree!EntityAssumption
    <2> QED BY <2>1 DEF Tree!Place, Placing, Nothing, Tree!Entities
  <1>2. Nothing'
    BY <1>1 DEF Placing, Nothing
  <1>3. at \notin DOMAIN tree /\ at \notin DOMAIN strays
    BY <1>1 DEF Placing
  <1>4. parent \in Tree!Entities \cup {Tree!Root, Missing}
    BY <1>1 DEF Given
  <1>5. Tree!Reached({})' = Tree!Reached({}) /\ Tree!Rooted' = Tree!Rooted
    BY <1>1 DEF Tree!Reached, Tree!Rooted
  <1>6. Tree!Root \notin DOMAIN tree /\ Tree!Top \notin DOMAIN tree /\ Tree!Top \notin DOMAIN strays
    BY Apart DEF Placing, Hung, Strayed
  <1>7. CASE parent = Tree!Root \/ Tree!Found(parent, tree)
    <2>1. tree' = Tree!Attached(at, parent, tree) /\ strays' = strays
      BY <1>1, <1>7 DEF Tree!Place
    <2>2. /\ DOMAIN tree' = DOMAIN tree \cup {at} /\ \A n \in DOMAIN tree : tree'[n] = tree[n]
          /\ tree'[at] = IF Tree!Found(parent, tree) THEN parent ELSE Tree!Top
      BY <1>3, <2>1 DEF Tree!Attached
    <2>3. Grounded(tree)'
      <3>1. Grounded(Tree!Attached(at, parent, tree))
        BY <1>1, <1>3, Apart, AttachedGrounded DEF Placing, Hung
      <3> QED BY <2>1, <3>1
    <2>4. Hung'
      BY <1>1, <1>6, <1>7, <2>2, <2>3 DEF Hung, Placing, Tree!Found
    <2>5. Strayed'
      BY <1>1, <1>3, <2>1, <2>2 DEF Strayed, Placing
    <2>6. at \in Tree!Rooted
      BY <1>1, <1>7, RootedIn DEF Placing, Tree!Found
    <2>7. \A i \in Tree!Reached({}) : i < at' => i \in DOMAIN tree'
      <3> TAKE i \in Tree!Reached({})
      <3>1. i \in Nat /\ at \in Nat
        BY <1>1, ReachedFrom, Apart
      <3> QED BY <1>1, <2>2, <3>1 DEF Placing
    <2>8. DOMAIN tree' \cup DOMAIN strays' = 1 .. at' - 1
      BY <1>1, <2>1, <2>2 DEF Placing
    <2> QED BY <1>1, <1>2, <1>5, <2>2, <2>4, <2>5, <2>6, <2>7, <2>8 DEF Placing
  <1>8. CASE ~(parent = Tree!Root \/ Tree!Found(parent, tree))
    <2>1. strays' = Tree!Attached(at, parent, strays) /\ tree' = tree
      BY <1>1, <1>8 DEF Tree!Place
    <2>2. /\ DOMAIN strays' = DOMAIN strays \cup {at}
          /\ \A n \in DOMAIN strays : strays'[n] = strays[n]
          /\ strays'[at] = IF Tree!Found(parent, strays) THEN parent ELSE Tree!Top
      BY <1>3, <2>1 DEF Tree!Attached
    <2>3. Hung'
      BY <1>1, <2>1 DEF Hung, Placing
    <2>4. parent \in Tree!Entities /\ parent < at => parent \in DOMAIN strays
      <3> SUFFICES ASSUME parent \in Tree!Entities, parent < at PROVE parent \in DOMAIN strays
        OBVIOUS
      <3>1. parent \in 1 .. at - 1
        BY <1>1, Apart
      <3> QED BY <1>8, <3>1 DEF Placing, Tree!Found
    <2>5. Strayed'
      BY <1>1, <1>3, <1>8, <2>1, <2>2, <2>4 DEF Strayed, Placing, Tree!Found
    <2>6. at \notin Tree!Reached({})
      <3> SUFFICES ASSUME at \in Tree!Reached({}) PROVE FALSE
        OBVIOUS
      <3>1. parent \in Tree!Reached({}) /\ parent < at
        BY <1>8, ReachedFrom
      <3> QED BY <1>8, <3>1 DEF Placing, Tree!Found
    <2>7. \A i \in Tree!Reached({}) : i < at' => i \in DOMAIN tree'
      <3> TAKE i \in Tree!Reached({})
      <3>1. i \in Nat /\ at \in Nat /\ i # at
        BY <1>1, <2>6, ReachedFrom, Apart
      <3> QED BY <1>1, <2>1, <3>1 DEF Placing
    <2>8. DOMAIN tree' \cup DOMAIN strays' = 1 .. at' - 1
      BY <1>1, <2>1, <2>2 DEF Placing
    <2> QED BY <1>1, <1>2, <1>5, <2>1, <2>3, <2>5, <2>7, <2>8 DEF Placing
  <1> QED BY <1>7, <1>8

\* All entities are placed.
LEMMA PlacedInv ==
    ASSUME Tree!EntityAssumption, Given, Placing, Tree!Placed PROVE Moving'
  <1>1. at = Last + 1 /\ 1 .. at - 1 = Tree!Entities
    <2>1. at > Last /\ at \in 1 .. Last + 1 /\ Last \in Nat
      BY DEF Tree!Placed, Placing, Tree!EntityAssumption
    <2> QED BY <2>1 DEF Tree!Entities
  <1>2. /\ given' = given /\ items' = items /\ tree' = tree /\ strays' = strays
        /\ remap' = remap /\ chassis' = chassis /\ rounds' = 2 /\ unseen' = {}
    BY DEF Tree!Placed, Tree!Rounds
  <1>3. Nothing' /\ Hung' /\ Strayed' /\ (DOMAIN tree \subseteq Tree!Rooted)'
    <2>1. Nothing'
      BY <1>2 DEF Placing, Nothing
    <2>2. Hung'
      BY <1>2 DEF Placing, Hung, Grounded
    <2>3. Strayed'
      BY <1>2 DEF Placing, Strayed
    <2>4. Tree!Rooted' = Tree!Rooted
      BY <1>2 DEF Tree!Rooted
    <2> QED BY <1>2, <2>1, <2>2, <2>3, <2>4 DEF Placing
  <1>4. Tree!ReachesRoot(0) \subseteq DOMAIN tree
    <2>1. Tree!ReachesRoot(0) = Tree!Reached({})
      BY DEF Tree!ReachesRoot
    <2>2. \A i \in Tree!Reached({}) : i < at
      <3>1. Tree!Reached({}) \subseteq Tree!Entities
        BY DEF Tree!Reached
      <3>2. Last \in Nat /\ \A i \in Tree!Entities : i \in Nat /\ i <= Last
        BY Apart
      <3> QED BY <1>1, <3>1, <3>2
    <2> QED BY <2>1, <2>2 DEF Placing
  <1>5. Tree!ReachesRoot(0)' = Tree!ReachesRoot(0)
    BY <1>2 DEF Tree!ReachesRoot, Tree!Reached
  <1> QED BY <1>1, <1>2, <1>3, <1>4, <1>5 DEF Moving, Placing

\* At the end of a round the tree has what reaches, over timely links, what it had at its
\* beginning.
LEMMA RoundEnds ==
    ASSUME Tree!EntityAssumption, Given, Moving, unseen = {}, NEW those, After(those)
    PROVE  Tree!Reached(those) \subseteq DOMAIN tree
  <1> SUFFICES ASSUME NEW i \in Tree!Reached(those), i \notin DOMAIN tree,
                      given[i].parent \in {Tree!Root} \cup those
                      \/ (given[i].parent \in Tree!Reached(those) \cap DOMAIN tree /\ given[i].parent < i)
               PROVE  FALSE
    BY ReachedInduction DEF Tree!EntityAssumption
  <1>1. i \in Tree!Entities /\ i \in DOMAIN strays
    BY ReachedFrom DEF Moving
  <1>2. given[i].parent # Tree!Root /\ DOMAIN tree \cap DOMAIN strays = {}
    BY <1>1 DEF Moving, Strayed
  <1>3. CASE strays[i] = Tree!Top
    <2>1. i \in Tree!StrayTops
      BY <1>1, <1>3 DEF Tree!StrayTops, Tree!ChildrenIn
    <2>2. given[i].parent \notin those
      BY <2>1 DEF After
    <2>3. given[i].parent \in DOMAIN tree /\ given[i].parent < i
      BY <1>2, <2>2
    <2>4. given[i].parent \in Tree!Entities
      BY <2>3 DEF Moving, Hung
    <2> QED BY <1>1, <1>3, <2>3, <2>4, Apart DEF Moving, Strayed
  <1>4. CASE strays[i] # Tree!Top
    <2>1. given[i].parent \in DOMAIN strays
      BY <1>1, <1>4 DEF Moving, Strayed
    <2>2. those \subseteq DOMAIN tree
      BY DEF After
    <2> QED BY <1>2, <2>1, <2>2
  <1> QED BY <1>3, <1>4

\* A round begins: what the last one was to add is in the tree.
LEMMA RoundInv ==
    ASSUME Tree!EntityAssumption, Given, Moving, Tree!Round PROVE Moving'
  <1>1. /\ unseen = {} /\ unseen' = Tree!StrayTops /\ rounds' = rounds - 1 /\ rounds > 0
        /\ given' = given /\ items' = items /\ tree' = tree /\ strays' = strays
        /\ remap' = remap /\ chassis' = chassis
    BY DEF Tree!Round
  <1>2. /\ Nothing' /\ Hung' /\ Strayed' /\ (DOMAIN tree \subseteq Tree!Rooted)'
        /\ (DOMAIN tree \cup DOMAIN strays = Tree!Entities)' /\ (unseen \subseteq Tree!StrayTops)'
    BY <1>1 DEF Moving, Nothing, Hung, Strayed, Tree!Rooted, Grounded, Tree!StrayTops
  <1>3. Tree!ReachesRoot(0)' = Tree!ReachesRoot(0) /\ Tree!ReachesRoot(1)' = Tree!ReachesRoot(1)
    BY <1>1 DEF Tree!ReachesRoot, Tree!Reached
  <1>4. CASE rounds = 2
    <2>1. Tree!ReachesRoot(0) \subseteq DOMAIN tree /\ rounds' = 1
      BY <1>1, <1>4 DEF Moving
    <2>2. After(Tree!ReachesRoot(0))'
      BY <1>1, <1>3, <2>1 DEF After, Tree!StrayTops
    <2> QED BY <1>2, <2>1, <2>2 DEF Moving
  <1>5. CASE rounds = 1
    <2>1. After(Tree!ReachesRoot(0)) /\ rounds' = 0
      BY <1>1, <1>5 DEF Moving
    <2>2. Tree!Reached(Tree!ReachesRoot(0)) \subseteq DOMAIN tree
      BY <1>1, <2>1, RoundEnds
    <2>3. Tree!Reached(Tree!ReachesRoot(0)) = Tree!ReachesRoot(1)
      BY DEF Tree!ReachesRoot
    <2>4. After(Tree!ReachesRoot(1))'
      BY <1>1, <1>3, <2>2, <2>3 DEF After, Tree!StrayTops
    <2> QED BY <1>2, <2>1, <2>4 DEF Moving
  <1>6. CASE rounds = 0
    BY <1>1, <1>6
  <1> QED BY <1>4, <1>5, <1>6 DEF Moving

\* A stray branch is moved below its parent, if the tree has that.
LEMMA MoveInv ==
    ASSUME Tree!EntityAssumption, Given, Moving, Tree!Move PROVE Moving'
  <1>1. /\ given' = given /\ items' = items /\ rounds' = rounds /\ remap' = remap
        /\ chassis' = chassis
        /\ items = given
    BY DEF Tree!Move, Moving, Nothing
  <1>2. PICK s \in unseen :
          /\ unseen' = unseen \ {s}
          /\ IF Tree!Found(items[s].parent, tree)
             THEN /\ tree' = [n \in DOMAIN tree \cup Tree!Branch(s, strays) |->
                                     IF n = s THEN items[s].parent
                                     ELSE IF n \in Tree!Branch(s, strays) THEN strays[n] ELSE tree[n]]
                  /\ strays' = Tree!Without(strays, Tree!Branch(s, strays))
             ELSE UNCHANGED <<tree, strays>>
    BY DEF Tree!Move
  <1> DEFINE parent == given[s].parent
             B == Tree!Branch(s, strays)
  <1>3. s \in DOMAIN strays /\ strays[s] = Tree!Top /\ s \in Tree!Entities
    BY DEF Moving, Tree!StrayTops, Tree!ChildrenIn, Strayed
  <1>4. Nothing'
    BY <1>1, <1>2 DEF Moving, Nothing
  <1>5. /\ Tree!Rooted' = Tree!Rooted
        /\ Tree!ReachesRoot(0)' = Tree!ReachesRoot(0) /\ Tree!ReachesRoot(1)' = Tree!ReachesRoot(1)
    BY <1>1 DEF Tree!ReachesRoot, Tree!Reached, Tree!Rooted
  <1>6. /\ DOMAIN tree \subseteq Tree!Entities /\ DOMAIN strays \subseteq Tree!Entities
        /\ DOMAIN tree \cap DOMAIN strays = {} /\ DOMAIN tree \cup DOMAIN strays = Tree!Entities
        /\ Tree!Top \notin Tree!Entities /\ Tree!Root \notin Tree!Entities
    BY Apart DEF Moving, Hung, Strayed
  <1>7. CASE Tree!Found(parent, tree)
    <2>1. B \subseteq DOMAIN strays /\ s \in B /\ \A n \in B : n # s => strays[n] \in B
      BY <1>3, BranchNodes, BranchHasNode, BranchUp
    <2>2. tree' = Joint(tree, s, parent, strays) /\ strays' = Tree!Without(strays, B)
      BY <1>1, <1>2, <1>7 DEF Joint
    <2>3. parent \in DOMAIN tree
      BY <1>7 DEF Tree!Found
    <2>4. /\ DOMAIN tree' = DOMAIN tree \cup B /\ tree'[s] = parent
          /\ \A n \in B : n # s => tree'[n] = strays[n]
          /\ \A n \in DOMAIN tree : tree'[n] = tree[n]
      BY <1>6, <2>1, <2>2 DEF Joint
    <2>5. DOMAIN strays' = DOMAIN strays \ B /\ \A n \in DOMAIN strays' : strays'[n] = strays[n]
      BY <2>2 DEF Tree!Without, Tree!Restrict
    <2> HIDE DEF B
    <2>6. Grounded(tree)'
      <3>1. Grounded(Joint(tree, s, parent, strays))
        BY <1>3, <1>6, <2>3, JointGrounded DEF Moving, Hung
      <3> QED BY <2>2, <3>1
    <2>7. \A n \in B : n # s => strays[n] # Tree!Top /\ given[n].parent = strays[n] /\ given[n].parent # Tree!Root
      BY <1>6, <2>1 DEF Moving, Strayed
    <2>8. Hung'
      <3>1. \A n \in DOMAIN tree' : given[n].parent = IF tree'[n] = Tree!Top THEN Tree!Root ELSE tree'[n]
        <4> TAKE n \in DOMAIN tree'
        <4>1. CASE n \in DOMAIN tree
          BY <2>4, <4>1 DEF Moving, Hung
        <4>2. CASE n = s
          BY <1>6, <2>3, <2>4, <4>2
        <4>3. CASE n \in B /\ n # s
          BY <2>4, <2>7, <4>3
        <4> QED BY <2>4, <4>1, <4>2, <4>3
      <3> QED BY <1>1, <1>6, <2>1, <2>4, <2>6, <3>1 DEF Hung
    <2>9. Strayed'
      <3>1. ASSUME NEW n \in DOMAIN strays', strays[n] \in DOMAIN strays
            PROVE  strays[n] \in DOMAIN strays'
        BY <2>5, <3>1, BranchDown DEF B
      <3> QED BY <1>1, <1>6, <2>1, <2>4, <2>5, <3>1 DEF Strayed, Moving
    <2>10. DOMAIN tree' \subseteq Tree!Rooted
      <3>1. DOMAIN tree \subseteq Tree!Rooted
        BY DEF Moving
      <3>2. s \in Tree!Rooted
        BY <1>3, <2>3, <3>1, RootedIn
      <3>3. \A c \in DOMAIN strays : strays[c] \in Tree!Rooted => c \in Tree!Rooted
        <4> TAKE c \in DOMAIN strays
        <4> HAVE strays[c] \in Tree!Rooted
        <4>1. Tree!Rooted \subseteq Tree!Entities
          BY DEF Tree!Rooted
        <4>2. given[c].parent = strays[c]
          BY <1>6, <4>1 DEF Moving, Strayed
        <4> QED BY <1>6, <4>2, RootedIn
      <3>4. B \subseteq Tree!Rooted
        BY <3>2, <3>3, BranchLeast DEF B
      <3> QED BY <2>4, <3>1, <3>4
    <2>11. DOMAIN tree' \cup DOMAIN strays' = Tree!Entities
      BY <1>6, <2>1, <2>4, <2>5
    <2>12. Tree!StrayTops' = Tree!StrayTops \ {s}
      <3>1. \A j \in Tree!StrayTops : j # s => j \notin B
        BY <1>6, <2>1 DEF Tree!StrayTops, Tree!ChildrenIn
      <3> QED BY <2>1, <2>5, <3>1 DEF Tree!StrayTops, Tree!ChildrenIn
    <2>13. unseen' \subseteq Tree!StrayTops'
      BY <1>2, <2>12 DEF Moving
    <2>14. ASSUME NEW those, After(those)
           PROVE  /\ those \subseteq DOMAIN tree'
                  /\ \A j \in Tree!StrayTops' : given[j].parent \in those => j \in unseen'
      <3>1. those \subseteq DOMAIN tree'
        BY <2>4, <2>14 DEF After
      <3>2. ASSUME NEW j \in Tree!StrayTops', given[j].parent \in those PROVE j \in unseen'
        <4>1. j \in Tree!StrayTops /\ j # s
          BY <2>12, <3>2
        <4> QED BY <1>2, <2>14, <3>2, <4>1 DEF After
      <3> QED BY <3>1, <3>2
    <2>15. /\ After(Tree!ReachesRoot(0)) => After(Tree!ReachesRoot(0))'
           /\ After(Tree!ReachesRoot(1)) => After(Tree!ReachesRoot(1))'
      BY <1>1, <1>5, <2>14 DEF After
    <2>16. \/ rounds = 1 /\ After(Tree!ReachesRoot(0))
           \/ rounds = 0 /\ After(Tree!ReachesRoot(1))
      BY <1>2 DEF Moving
    <2> QED BY <1>1, <1>4, <1>5, <2>8, <2>9, <2>10, <2>11, <2>13, <2>15, <2>16 DEF Moving
  <1>8. CASE ~Tree!Found(parent, tree)
    <2>1. tree' = tree /\ strays' = strays
      BY <1>1, <1>2, <1>8
    <2>2. /\ Hung' /\ Strayed' /\ (DOMAIN tree \subseteq Tree!Rooted)'
          /\ (DOMAIN tree \cup DOMAIN strays = Tree!Entities)' /\ (unseen \subseteq Tree!StrayTops)'
      BY <1>1, <1>2, <1>5, <2>1 DEF Moving, Hung, Strayed, Grounded, Tree!StrayTops
    <2>3. ASSUME NEW those, After(those)
           PROVE  /\ those \subseteq DOMAIN tree'
                  /\ \A j \in Tree!StrayTops' : given[j].parent \in those => j \in unseen'
      BY <1>2, <1>8, <2>1, <2>3 DEF After, Tree!StrayTops, Tree!Found
    <2>4. /\ After(Tree!ReachesRoot(0)) => After(Tree!ReachesRoot(0))'
          /\ After(Tree!ReachesRoot(1)) => After(Tree!ReachesRoot(1))'
      BY <1>1, <1>5, <2>3 DEF After
    <2>5. \/ rounds = 1 /\ After(Tree!ReachesRoot(0))
          \/ rounds = 0 /\ After(Tree!ReachesRoot(1))
      BY <1>2 DEF Moving
    <2> QED BY <1>1, <1>4, <1>5, <2>2, <2>4, <2>5 DEF Moving
  <1> QED BY <1>7, <1>8

\* The rounds are over, or there is no stray left.
LEMMA TreeBuiltInv ==
    ASSUME Tree!EntityAssumption, Given, Moving, Tree!TreeBuilt PROVE Scanning'
  <1>1. /\ unseen = {} /\ at' = 1 /\ given' = given /\ items' = items /\ tree' = tree
        /\ strays' = strays
        /\ remap' = remap /\ chassis' = chassis /\ (strays = <<>> \/ rounds = 0)
    BY DEF Tree!TreeBuilt
  <1>2. /\ Hung' /\ Strayed' /\ (DOMAIN tree \subseteq Tree!Rooted)'
        /\ (DOMAIN tree \cup DOMAIN strays = Tree!Entities)'
    BY <1>1 DEF Moving, Hung, Strayed, Tree!Rooted, Grounded
  <1>3. Tree!ReachesRoot(2) \subseteq DOMAIN tree
    <2>1. CASE rounds = 0
      <3>1. After(Tree!ReachesRoot(1))
        BY <2>1 DEF Moving
      <3>2. Tree!Reached(Tree!ReachesRoot(1)) \subseteq DOMAIN tree
        BY <1>1, <3>1, RoundEnds
      <3>3. Tree!Reached(Tree!ReachesRoot(1)) = Tree!ReachesRoot(2)
        BY DEF Tree!ReachesRoot
      <3> QED BY <3>2, <3>3
    <2>2. CASE strays = <<>>
      <3>1. DOMAIN tree = Tree!Entities
        BY <2>2 DEF Moving
      <3>2. Tree!ReachesRoot(2) \subseteq Tree!Entities
        BY DEF Tree!ReachesRoot, Tree!Reached
      <3> QED BY <3>1, <3>2
    <2> QED BY <1>1, <2>1, <2>2
  <1>4. (Tree!ReachesRoot(2) \subseteq DOMAIN tree)'
    <2>1. Tree!ReachesRoot(2)' = Tree!ReachesRoot(2)
      BY <1>1 DEF Tree!ReachesRoot, Tree!Reached
    <2> QED BY <1>1, <1>3, <2>1
  <1>5. items' = given /\ remap' = <<>> /\ chassis' = {} /\ DOMAIN remap' = {}
    BY <1>1 DEF Moving, Nothing
  <1>6. \A i \in Tree!Entities : ~(i < 1) /\ 1 \in 1 .. Last + 1
    BY Apart
  <1>7. \A n \in DOMAIN tree : ~(tree[n] \in Tree!Transceivers /\ tree[n] < 1)
    BY <1>6 DEF Tree!Transceivers
  <1>8. items' \in [Tree!Entities -> EntityRow]
    BY <1>5 DEF Given, EntityRow
  <1>9. Remapped(at)' /\ ChassisOnly'
    BY <1>5 DEF Remapped, ChassisOnly
  <1>10. \A t \in Tree!Transceivers' : ~(t < at')
    BY <1>1, <1>6 DEF Tree!Transceivers
  <1>11. Tree!Transceivers' = Tree!Transceivers
    BY <1>1 DEF Tree!Transceivers
  <1>12. (\A i \in Tree!Entities :
          /\ items[i].type = given[i].type /\ items[i].serial = given[i].serial
          /\ items[i].port = given[i].port
          /\ items[i].parent = IF i \in DOMAIN tree /\ tree[i] \in Tree!Transceivers /\ tree[i] < at
                               THEN given[i].port ELSE given[i].parent)'
    BY <1>1, <1>5, <1>7, <1>11
  <1>13. (\A t \in Tree!Transceivers : t < at => t \in DOMAIN tree)'
    BY <1>10
  <1>14. (\A t \in Tree!Transceivers : Tree!Plain(t) /\ t < at =>
            \A c \in Tree!ChildrenIn(t, tree) : given[c].port # None =>
                t \in DOMAIN remap /\ remap[t] = given[c].port)'
    BY <1>10
  <1>15. (at \in 1 .. Last + 1)'
    BY <1>1, Apart
  <1> QED BY <1>2, <1>4, <1>8, <1>9, <1>12, <1>13, <1>14, <1>15 DEF Scanning

-----------------------------------------------------------------------------
(* The first loop *)

\* A row with another parent is a row.
LEMMA RowParent ==
    ASSUME NEW r \in EntityRow, NEW p \in Tree!Entities \cup Ports \cup {Tree!Root, Missing, None}
    PROVE  /\ [r EXCEPT !.parent = p] \in EntityRow /\ [r EXCEPT !.parent = p].parent = p
           /\ [r EXCEPT !.parent = p].type = r.type /\ [r EXCEPT !.parent = p].serial = r.serial
           /\ [r EXCEPT !.parent = p].port = r.port
  BY DEF EntityRow

\* Entities in the tree hang from their parents, other nodes from the top.
LEMMA HungIn ==
    ASSUME Tree!EntityAssumption, Hung, NEW c \in DOMAIN tree, tree[c] \in Tree!Entities
    PROVE  given[c].parent = tree[c] /\ c \in Tree!In(tree[c])
  BY Apart DEF Hung, Tree!In

\* The first loop fails at a transceiver that no timely link connects.
LEMMA ScanLost ==
    ASSUME Tree!EntityAssumption, Given, Scanning, Tree!Scan, stage' # stage
    PROVE  stage' = "lost" /\ Tree!LostForAReason'
  <1>1. Tree!Lost /\ items[at].type = "transceiver" /\ at \notin DOMAIN tree /\ at <= Last
    BY DEF Tree!Scan, Tree!Found
  <1>2. at \in Tree!Entities
    BY <1>1, Apart DEF Scanning, Tree!Entities
  <1>3. at \in Tree!Transceivers /\ at \notin Tree!ReachesRoot(2)
    BY <1>1, <1>2 DEF Scanning, Tree!Transceivers
  <1>4. stage' = "lost" /\ given' = given
    BY <1>1 DEF Tree!Lost
  <1>5. Tree!Transceivers' = Tree!Transceivers /\ Tree!ReachesRoot(2)' = Tree!ReachesRoot(2)
    BY <1>4 DEF Tree!Transceivers, Tree!ReachesRoot, Tree!Reached
  <1> QED BY <1>3, <1>4, <1>5 DEF Tree!LostForAReason

\* What a transceiver is told, and what it tells the entities in it.
LEMMA NamePortIs ==
    ASSUME Tree!EntityAssumption, Given, Scanning, at \in Tree!Transceivers, at \in DOMAIN tree,
           Tree!NamePort(at)
    PROVE  /\ items' \in [Tree!Entities -> EntityRow]
           /\ \A i \in Tree!Entities :
                 /\ items'[i].type = items[i].type /\ items'[i].serial = items[i].serial
                 /\ items'[i].port = items[i].port
                 /\ items'[i].parent = IF i \in Tree!ChildrenIn(at, tree) THEN given[i].port ELSE items[i].parent
           /\ \E port \in Ports \cup {None} :
                 /\ port # None => Describes(at, port)
                 /\ Tree!Plain(at) => \A c \in Tree!ChildrenIn(at, tree) : given[c].port # None => port = given[c].port
                 /\ remap' = IF port = None THEN remap
                             ELSE [i \in DOMAIN remap \cup {at} |-> IF i = at THEN port ELSE remap[i]]
  <1> DEFINE children == Tree!ChildrenIn(at, tree)
  <1>1. at \in Tree!Entities /\ items \in [Tree!Entities -> EntityRow] /\ Hung
    BY DEF Scanning, Tree!Transceivers
  <1>2. children \subseteq DOMAIN tree /\ \A c \in children : tree[c] = at
    BY DEF Tree!ChildrenIn
  <1>3. \A c \in children : c \in Tree!In(at) /\ c \in Tree!Entities
    BY <1>1, <1>2, HungIn DEF Hung
  <1>4. \A i \in Tree!Entities : items[i].port = given[i].port /\ given[i].port \in Ports \cup {None}
    BY DEF Scanning, Given
  <1>5. PICK last \in IF children = {} THEN {at} ELSE children :
           /\ items' = [i \in DOMAIN items |->
                              IF i \in children THEN [items[i] EXCEPT !.parent = items[i].port]
                              ELSE items[i]]
           /\ remap' = IF (IF items[last].port # None THEN items[last].port ELSE items[at].port) = None
                       THEN remap
                       ELSE [i \in DOMAIN remap \cup {at} |->
                                IF i = at THEN (IF items[last].port # None THEN items[last].port
                                                ELSE items[at].port)
                                ELSE remap[i]]
    BY DEF Tree!NamePort
  <1> DEFINE port == IF items[last].port # None THEN items[last].port ELSE items[at].port
  <1>6. last \in Tree!Entities /\ last \in {at} \cup Tree!In(at)
    BY <1>1, <1>3, <1>5
  <1>7. \A i \in Tree!Entities :
           /\ items'[i] = IF i \in children THEN [items[i] EXCEPT !.parent = items[i].port] ELSE items[i]
           /\ items[i] \in EntityRow
    BY <1>1, <1>5
  <1>8. ASSUME NEW i \in Tree!Entities
        PROVE  /\ items'[i] \in EntityRow
               /\ items'[i].type = items[i].type /\ items'[i].serial = items[i].serial
               /\ items'[i].port = items[i].port
               /\ items'[i].parent = IF i \in children THEN given[i].port ELSE items[i].parent
    <2>1. CASE i \in children
      <3>1. items'[i] = [items[i] EXCEPT !.parent = given[i].port] /\ items[i] \in EntityRow
            /\ given[i].port \in Tree!Entities \cup Ports \cup {Tree!Root, Missing, None}
        BY <1>4, <1>7, <2>1
      <3> QED BY <2>1, <3>1, RowParent
    <2>2. CASE i \notin children
      BY <1>7, <2>2
    <2> QED BY <2>1, <2>2
  <1>9. items' \in [Tree!Entities -> EntityRow]
    BY <1>1, <1>5, <1>8
  <1>10. port \in Ports \cup {None} /\ (port # None => Describes(at, port))
    BY <1>1, <1>4, <1>6 DEF Describes
  <1>11. ASSUME Tree!Plain(at), NEW c \in children, given[c].port # None PROVE port = given[c].port
    <2>1. last \in Tree!In(at)
      BY <1>3, <1>5
    <2>2. given[last].port = given[c].port
      BY <1>3, <1>11, <2>1 DEF Tree!Plain
    <2> QED BY <1>4, <1>6, <1>11, <2>2
  <1>12. remap' = IF port = None THEN remap
                  ELSE [i \in DOMAIN remap \cup {at} |-> IF i = at THEN port ELSE remap[i]]
    BY <1>5
  <1> HIDE DEF port
  <1> QED BY <1>8, <1>9, <1>10, <1>11, <1>12

\* An entity is looked at in the first loop.
LEMMA ScanInv ==
    ASSUME Tree!EntityAssumption, Given, Scanning, Tree!Scan, stage' = stage, stage = "scanning"
    PROVE  Scanning'
  <1>1. /\ at' = at + 1 /\ given' = given /\ tree' = tree /\ strays' = strays
        /\ IF items[at].type = "transceiver" THEN Tree!NamePort(at) ELSE UNCHANGED <<items, remap>>
        /\ chassis' = IF items[at].type = "chassis" THEN chassis \cup {at} ELSE chassis
        /\ items[at].type = "transceiver" => at \in DOMAIN tree
        /\ at <= Last
    BY DEF Tree!Scan, Tree!Lost, Tree!Found
  <1>2. at \in Tree!Entities /\ at' \in 1 .. Last + 1 /\ items[at].type = given[at].type
        /\ \A i \in Tree!Entities : i < at' <=> (i < at \/ i = at)
    <2>1. at \in 1 .. Last + 1 /\ Last \in Nat
      BY Apart DEF Scanning
    <2>2. at \in Tree!Entities
      BY <1>1, <2>1 DEF Tree!Entities
    <2> QED BY <1>1, <2>1, <2>2, Apart DEF Scanning
  <1>3. /\ Tree!Transceivers' = Tree!Transceivers /\ Tree!ReachesRoot(2)' = Tree!ReachesRoot(2)
        /\ Tree!Rooted' = Tree!Rooted
        /\ \A t : Tree!Plain(t)' <=> Tree!Plain(t)
        /\ \A t : Tree!ChildrenIn(t, tree)' = Tree!ChildrenIn(t, tree)
        /\ \A t, p : Describes(t, p)' <=> Describes(t, p)
    BY <1>1 DEF Tree!Transceivers, Tree!ReachesRoot, Tree!Reached, Tree!Rooted, Tree!Plain, Tree!In,
       Describes, Tree!ChildrenIn
  <1>4. Hung' /\ Strayed'
    BY <1>1 DEF Scanning, Hung, Strayed, Grounded
  <1>5. /\ (DOMAIN tree \cup DOMAIN strays = Tree!Entities)'
        /\ (Tree!ReachesRoot(2) \subseteq DOMAIN tree)'
        /\ (DOMAIN tree \subseteq Tree!Rooted)' /\ (at \in 1 .. Last + 1)'
    BY <1>1, <1>2, <1>3 DEF Scanning
  <1>6. ChassisOnly'
    BY <1>1, <1>2 DEF ChassisOnly, Scanning
  <1>7. Tree!Transceivers \subseteq Tree!Entities /\ (at \in Tree!Transceivers <=> items[at].type = "transceiver")
    BY <1>2 DEF Tree!Transceivers
  <1>8. (\A t \in Tree!Transceivers : t < at => t \in DOMAIN tree)'
    BY <1>1, <1>2, <1>3, <1>7 DEF Scanning
  <1>9. CASE at \notin Tree!Transceivers
    <2>1. items' = items /\ remap' = remap
      BY <1>1, <1>7, <1>9
    <2>2. Remapped(at)'
      BY <1>1, <1>2, <1>3, <1>7, <2>1 DEF Scanning, Remapped
    <2>3. ASSUME NEW i \in Tree!Entities'
          PROVE  (/\ items[i].type = given[i].type /\ items[i].serial = given[i].serial
                  /\ items[i].port = given[i].port
                  /\ items[i].parent = IF i \in DOMAIN tree /\ tree[i] \in Tree!Transceivers /\ tree[i] < at
                                       THEN given[i].port ELSE given[i].parent)'
      <3>1. i \in DOMAIN tree /\ tree[i] \in Tree!Transceivers => (tree[i] < at' <=> tree[i] < at)
        BY <1>2, <1>7, <1>9
      <3> QED BY <1>1, <1>3, <2>1, <3>1 DEF Scanning, Tree!Entities
    <2>4. (\A t \in Tree!Transceivers : Tree!Plain(t) /\ t < at =>
            \A c \in Tree!ChildrenIn(t, tree) : given[c].port # None =>
                t \in DOMAIN remap /\ remap[t] = given[c].port)'
      BY <1>1, <1>2, <1>3, <1>7, <1>9, <2>1 DEF Scanning
    <2>5. (items \in [Tree!Entities -> EntityRow])'
      BY <2>1 DEF Scanning, Tree!Entities, EntityRow
    <2> QED BY <1>4, <1>5, <1>6, <1>8, <2>2, <2>3, <2>4, <2>5 DEF Scanning
  <1>10. CASE at \in Tree!Transceivers
    <2>1. Tree!NamePort(at) /\ at \in DOMAIN tree
      BY <1>1, <1>7, <1>10
    <2>2. /\ items' \in [Tree!Entities -> EntityRow]
          /\ \A i \in Tree!Entities :
                 /\ items'[i].type = items[i].type /\ items'[i].serial = items[i].serial
                 /\ items'[i].port = items[i].port
                 /\ items'[i].parent = IF i \in Tree!ChildrenIn(at, tree) THEN given[i].port ELSE items[i].parent
          /\ \E port \in Ports \cup {None} :
                 /\ port # None => Describes(at, port)
                 /\ Tree!Plain(at) => \A c \in Tree!ChildrenIn(at, tree) : given[c].port # None => port = given[c].port
                 /\ remap' = IF port = None THEN remap
                             ELSE [i \in DOMAIN remap \cup {at} |-> IF i = at THEN port ELSE remap[i]]
      BY <1>10, <2>1, NamePortIs
    <2>3. PICK port \in Ports \cup {None} :
                 /\ port # None => Describes(at, port)
                 /\ Tree!Plain(at) => \A c \in Tree!ChildrenIn(at, tree) : given[c].port # None => port = given[c].port
                 /\ remap' = IF port = None THEN remap
                             ELSE [i \in DOMAIN remap \cup {at} |-> IF i = at THEN port ELSE remap[i]]
      BY <2>2
    <2>4. /\ DOMAIN remap' = IF port = None THEN DOMAIN remap ELSE DOMAIN remap \cup {at}
          /\ \A t \in DOMAIN remap' : remap'[t] = IF port # None /\ t = at THEN port ELSE remap[t]
      BY <2>3
    <2>5. Remapped(at)'
      BY <1>1, <1>2, <1>3, <1>7, <1>10, <2>3, <2>4 DEF Scanning, Remapped
    <2>6. ASSUME NEW i \in Tree!Entities'
          PROVE  (/\ items[i].type = given[i].type /\ items[i].serial = given[i].serial
                  /\ items[i].port = given[i].port
                  /\ items[i].parent = IF i \in DOMAIN tree /\ tree[i] \in Tree!Transceivers /\ tree[i] < at
                                       THEN given[i].port ELSE given[i].parent)'
      <3>1. i \in Tree!Entities
        BY DEF Tree!Entities
      <3>2. i \in DOMAIN tree /\ tree[i] \in Tree!Transceivers
            => (tree[i] < at' <=> (tree[i] < at \/ i \in Tree!ChildrenIn(at, tree)))
        BY <1>2, <1>7, <1>10 DEF Tree!ChildrenIn
      <3>3. i \in Tree!ChildrenIn(at, tree) => i \in DOMAIN tree /\ tree[i] \in Tree!Transceivers
        BY <1>10 DEF Tree!ChildrenIn
      <3> QED BY <1>1, <1>3, <2>2, <3>1, <3>2, <3>3 DEF Scanning
    <2>7. ASSUME NEW t \in Tree!Transceivers, Tree!Plain(t), t < at',
                 NEW c \in Tree!ChildrenIn(t, tree), given[c].port # None
          PROVE  t \in DOMAIN remap' /\ remap'[t] = given[c].port
      <3>1. CASE t = at
        BY <2>3, <2>4, <2>7, <3>1
      <3>2. CASE t # at
        <4>1. t < at
          BY <1>2, <1>7, <2>7, <3>2
        <4>2. t \in DOMAIN remap /\ remap[t] = given[c].port
          BY <2>7, <4>1 DEF Scanning
        <4> QED BY <2>4, <3>2, <4>2
      <3> QED BY <3>1, <3>2
    <2>8. (\A t \in Tree!Transceivers : Tree!Plain(t) /\ t < at =>
            \A c \in Tree!ChildrenIn(t, tree) : given[c].port # None =>
                t \in DOMAIN remap /\ remap[t] = given[c].port)'
      BY <1>1, <1>3, <2>7
    <2>9. (items \in [Tree!Entities -> EntityRow])'
      BY <2>2 DEF Tree!Entities, EntityRow
    <2> QED BY <1>4, <1>5, <1>6, <1>8, <2>5, <2>6, <2>8, <2>9 DEF Scanning
  <1> QED BY <1>9, <1>10

\* The second loop begins with what the first has left.
LEMMA ScannedInv ==
    ASSUME Tree!EntityAssumption, Given, Scanning, Tree!Scanned PROVE Cleaning'
  <1>1. /\ at' = 1 /\ given' = given /\ items' = items /\ tree' = tree /\ strays' = strays
        /\ remap' = remap /\ chassis' = chassis /\ at > Last
    BY DEF Tree!Scanned
  <1>2. Last \in Nat /\ \A i \in Tree!Entities : i < at /\ i < Last + 1 /\ i \in Nat /\ i >= 1
    BY <1>1, Apart DEF Scanning
  <1>3. /\ Tree!Entities \cap Ports = {} /\ Tree!Root \notin Tree!Entities
        /\ Tree!Top \notin Tree!Entities /\ Tree!Top \notin Ports
        /\ None \notin Ports /\ None # Tree!Root /\ Tree!Root \notin Ports /\ Missing \notin Ports
        /\ None \notin Tree!Entities /\ Missing \notin Tree!Entities /\ Missing # None
        /\ Missing # Tree!Root
    BY Apart
  <1>4. Tree!Transceivers \subseteq Tree!Entities /\ DOMAIN items = Tree!Entities /\ DOMAIN tree \subseteq Tree!Entities
    BY DEF Tree!Transceivers, Scanning, Hung
  <1>5. ASSUME NEW i \in Tree!Entities
        PROVE  /\ items[i] \in EntityRow
               /\ items[i].type = given[i].type /\ items[i].serial = given[i].serial
               /\ items[i].parent = IF i \in DOMAIN tree /\ tree[i] \in Tree!Transceivers
                                    THEN given[i].port ELSE given[i].parent
               /\ given[i].port \in Ports \cup {None}
               /\ given[i].parent \in Tree!Entities \cup {Tree!Root, Missing}
    <2>1. i \in DOMAIN tree /\ tree[i] \in Tree!Transceivers => tree[i] < at
      BY <1>2, <1>4
    <2> QED BY <2>1 DEF Scanning, Given
  <1>6. ASSUME NEW i \in DOMAIN tree
        PROVE  /\ given[i].parent = IF tree[i] = Tree!Top THEN Tree!Root ELSE tree[i]
               /\ tree[i] = Tree!Top \/ tree[i] \in DOMAIN tree
    BY <1>6, GroundedUp DEF Scanning, Hung
  <1>7. Tree!Transceivers \subseteq DOMAIN tree
    BY <1>2, <1>4 DEF Scanning
  <1>8. /\ Tree!Transceivers' = Tree!Transceivers /\ Reported' = DOMAIN tree
        /\ \A t : Tree!In(t)' = Tree!In(t) /\ (Tree!Plain(t)' <=> Tree!Plain(t))
        /\ \A t : Tree!ChildrenIn(t, tree)' = Tree!ChildrenIn(t, tree)
        /\ \A t, p : Describes(t, p)' <=> Describes(t, p)
    <2>1. Tree!Transceivers' = Tree!Transceivers /\ \A t : Tree!In(t)' = Tree!In(t)
      BY <1>1 DEF Tree!Transceivers, Tree!In, Tree!Entities
    <2>2. \A t : Tree!Plain(t)' <=> Tree!Plain(t)
      BY <1>1, <2>1 DEF Tree!Plain
    <2>3. \A t : Tree!ChildrenIn(t, tree)' = Tree!ChildrenIn(t, tree)
      BY <1>1 DEF Tree!ChildrenIn
    <2>4. \A t, p : Describes(t, p)' <=> Describes(t, p)
      BY <1>1, <2>1 DEF Describes
    <2>5. Reported' = DOMAIN tree
      BY <1>1, <1>4 DEF Reported
    <2> QED BY <2>1, <2>2, <2>3, <2>4, <2>5
  <1>9. (at \in 1 .. Last + 1)' /\ Grounded(tree)' /\ ChassisOnly'
    BY <1>1, <1>2 DEF Scanning, Hung, Grounded, ChassisOnly
  <1>10. Remapped(Last + 1)'
    BY <1>1, <1>2, <1>4, <1>8 DEF Scanning, Remapped
  <1>11. Left'
    BY <1>1, <1>4, <1>5 DEF Left, EntityRow, Tree!Entities
  <1>12. Names'
    BY <1>1, <1>3, <1>4 DEF Names
  <1>13. InPlace'
    BY <1>1, <1>3, <1>4, <1>5, <1>6, <1>8 DEF InPlace
  <1>14. OutOfPlace'
    BY <1>1, <1>3, <1>4, <1>5, <1>6, <1>8 DEF OutOfPlace, Elsewhere
  <1>15. InTransceivers'
    <2>1. /\ DOMAIN tree \cap DOMAIN strays = {} /\ DOMAIN tree \cup DOMAIN strays = Tree!Entities
          /\ DOMAIN strays \subseteq Tree!Entities
      BY DEF Scanning, Strayed
    <2>2. \A x \in Tree!Entities : items[x].parent \in Tree!Transceivers => x \in DOMAIN strays
      <3> TAKE x \in Tree!Entities
      <3> HAVE items[x].parent \in Tree!Transceivers
      <3>1. ~(x \in DOMAIN tree /\ tree[x] \in Tree!Transceivers) /\ items[x].parent = given[x].parent
        BY <1>3, <1>4, <1>5
      <3>2. x \notin DOMAIN tree
        BY <1>3, <1>4, <1>6, <3>1
      <3> QED BY <2>1, <3>2
    <2>3. \A x \in DOMAIN tree : tree[x] \in Tree!Transceivers => x \in Tree!Entities /\ given[x].parent = tree[x]
      BY <1>3, <1>4, <1>6
    <2> QED BY <1>1, <1>4, <1>7, <1>8, <2>1, <2>2, <2>3 DEF InTransceivers, Tree!Entities
  <1>16. BelowPorts'
    <2>1. ASSUME NEW x \in DOMAIN tree, items[x].parent \in Ports
          PROVE  /\ items[x].parent \notin DOMAIN tree /\ tree[x] \in Tree!Transceivers
                 /\ Describes(tree[x], items[x].parent)
      <3>1. tree[x] \in Tree!Transceivers /\ items[x].parent = given[x].port
        BY <1>3, <1>4, <1>5, <2>1
      <3>2. x \in Tree!In(tree[x])
        BY <1>3, <1>4, <1>6, <3>1 DEF Tree!In
      <3> QED BY <1>3, <1>4, <2>1, <3>1, <3>2 DEF Describes
    <2> QED BY <1>1, <1>8, <2>1 DEF BelowPorts
  <1>17. AtRoot'
    <2>1. ASSUME NEW c \in Tree!Entities
          PROVE  /\ given[c].parent = Tree!Root <=> items[c].parent = Tree!Root
                 /\ items[c].parent = Tree!Root /\ c \in DOMAIN tree => tree[c] = Tree!Top
      <3>1. CASE c \in DOMAIN tree
        BY <1>3, <1>4, <1>5, <1>6, <3>1
      <3>2. CASE c \notin DOMAIN tree
        BY <1>5, <3>2
      <3> QED BY <3>1, <3>2
    <2> QED BY <1>1, <1>4, <2>1 DEF AtRoot, Tree!Entities
  <1>18. Leaves'
    <2>1. ASSUME NEW x \in Tree!Entities, Tree!In(x) = {}
          PROVE  (\A y \in Tree!Entities : items[y].parent # x) /\ (\A y \in DOMAIN tree : tree[y] # x)
      <3>1. \A y \in Tree!Entities : given[y].parent # x
        BY <2>1 DEF Tree!In
      <3> QED BY <1>3, <1>4, <1>5, <1>6, <3>1
    <2> QED BY <1>1, <1>4, <1>8, <2>1 DEF Leaves, Tree!Entities
  <1>19. TreeSound'
    <2>1. SUFFICES ASSUME AllPlain PROVE (WithParents /\ WithPorts /\ Remains)'
      BY <1>1, <1>8 DEF TreeSound, AllPlain
    <2>2. DOMAIN tree = Tree!Entities
      BY <2>1 DEF AllPlain, Scanning
    <2>3. ASSUME NEW x \in Tree!Entities
          PROVE  \/ /\ tree[x] \in Tree!Transceivers /\ items[x].parent = given[x].port
                    /\ x \in Tree!In(tree[x]) /\ x \in Tree!ChildrenIn(tree[x], tree)
                 \/ /\ tree[x] \notin Tree!Transceivers /\ tree[x] \in Tree!Entities /\ items[x].parent = tree[x]
                 \/ tree[x] = Tree!Top /\ items[x].parent = Tree!Root
      BY <1>3, <1>4, <1>5, <1>6, <2>2 DEF Tree!In, Tree!ChildrenIn
    <2>4. \A x \in Tree!Entities : given[x].port \in Ports \cup {None}
      BY <1>5
    <2>5. WithParents'
      BY <1>1, <1>3, <1>4, <2>2, <2>3, <2>4 DEF WithParents, Tree!Entities
    <2>6. ASSUME NEW x \in Tree!Entities, items[x].parent \in Ports \cup {None}
          PROVE  /\ x \in Tree!Entities \ Tree!Transceivers /\ Tree!In(x) = {}
                 /\ items[x].parent \in Ports => 
                       /\ tree[x] \in DOMAIN remap /\ tree[x] >= 1
                       /\ remap[tree[x]] = items[x].parent
      <3>1. /\ tree[x] \in Tree!Transceivers /\ items[x].parent = given[x].port
            /\ x \in Tree!In(tree[x]) /\ x \in Tree!ChildrenIn(tree[x], tree)
        BY <1>3, <2>3, <2>6
      <3>2. Tree!Plain(tree[x])
        BY <2>1, <3>1 DEF AllPlain
      <3>3. x \notin Tree!Transceivers /\ Tree!In(x) = {}
        BY <3>1, <3>2 DEF Tree!Plain
      <3>4. given[x].port # None => tree[x] \in DOMAIN remap /\ remap[tree[x]] = given[x].port
        BY <1>2, <1>4, <3>1, <3>2 DEF Scanning
      <3> QED BY <1>2, <1>3, <1>4, <3>1, <3>3, <3>4
    <2>7. WithPorts'
      BY <1>1, <1>4, <1>8, <2>2, <2>6 DEF WithPorts, Tree!Entities
    <2>8. Remains'
      BY <1>1, <1>4 DEF Remains
    <2> QED BY <2>5, <2>7, <2>8
  <1> QED BY <1>9, <1>10, <1>11, <1>12, <1>13, <1>14, <1>15, <1>16, <1>17, <1>18, <1>19 DEF Cleaning

-----------------------------------------------------------------------------
(* The second loop: an entity that is removed *)

\* What the second loop leaves alone, and what that leaves alone.
Beside ==
    /\ given' = given /\ strays' = strays /\ remap' = remap /\ chassis' = chassis
    /\ at' = at + 1 /\ at \in Tree!Entities /\ at \in DOMAIN items /\ items[at] \in EntityRow
    /\ at' \in 1 .. Last + 1 /\ \A i \in Tree!Entities : i < at' <=> (i < at \/ i = at)
    /\ Tree!Transceivers' = Tree!Transceivers /\ Tree!Transceivers \subseteq Tree!Entities
    /\ (AllPlain' <=> AllPlain)
    /\ \A t : Tree!In(t)' = Tree!In(t)
    /\ \A t, p : Describes(t, p)' <=> Describes(t, p)

\* What a step of the second loop leaves alone.
LEMMA CleanBeside ==
    ASSUME Tree!EntityAssumption, Given, Cleaning, at <= Last, at' = at + 1,
           given' = given, strays' = strays, remap' = remap, chassis' = chassis
    PROVE  Beside
  <1>1. at \in 1 .. Last + 1 /\ Last \in Nat
    BY Apart DEF Cleaning
  <1>2. at \in Tree!Entities /\ at' \in 1 .. Last + 1
    BY <1>1 DEF Tree!Entities
  <1>3. at \in DOMAIN items /\ items[at] \in EntityRow
    <2>1. at \in DOMAIN items
      BY <1>1, <1>2 DEF Cleaning, Left
    <2> QED BY <2>1 DEF Cleaning, Left
  <1>4. \A i \in Tree!Entities : i < at' <=> (i < at \/ i = at)
    BY <1>1, Apart
  <1>5. /\ Tree!Transceivers' = Tree!Transceivers /\ Tree!Transceivers \subseteq Tree!Entities
        /\ (AllPlain' <=> AllPlain)
        /\ \A t : Tree!In(t)' = Tree!In(t)
        /\ \A t, p : Describes(t, p)' <=> Describes(t, p)
    BY DEF Tree!Transceivers, Tree!Plain, Tree!In, Describes, AllPlain
  <1> QED BY <1>2, <1>3, <1>4, <1>5 DEF Beside

\* A step that removes, node by node and row by row.
Removal ==
    LET parent == items[at].parent
        children == Tree!ChildrenIn(at, tree)
        kept == Kept(at, DOMAIN items, tree)
    IN  /\ Beside /\ Tree!Useless(at)
        /\ children # {} => at \in DOMAIN tree
        /\ at \in DOMAIN tree => at \notin DOMAIN strays /\ tree[at] # at
                                 /\ (parent \in DOMAIN tree => tree[at] = parent)
        /\ DOMAIN tree' \subseteq DOMAIN tree
        /\ \A n \in DOMAIN tree' : tree'[n] = IF n \in kept THEN parent ELSE tree[n]
        /\ \A n \in DOMAIN tree' : n \in kept => parent \in DOMAIN tree
        /\ \A n \in DOMAIN tree' : tree[n] = at /\ parent \in DOMAIN tree => n \in kept
        /\ at \in DOMAIN tree' => parent \notin DOMAIN tree
        /\ Grounded(tree) /\ Grounded(tree)'
        /\ DOMAIN items' = DOMAIN items \ {at}
        /\ \A c \in DOMAIN items' :
              /\ items'[c] \in EntityRow
              /\ items'[c].type = items[c].type /\ items'[c].serial = items[c].serial
              /\ items'[c].parent = IF c \in kept THEN parent ELSE items[c].parent

\* An entity that is removed, point by point.
LEMMA RemoveIs ==
    ASSUME Tree!EntityAssumption, Given, Cleaning, Beside, Tree!Useless(at), Tree!Remove(at)
    PROVE  Removal
  <1> DEFINE parent == items[at].parent
             children == Tree!ChildrenIn(at, tree)
             kept == Kept(at, DOMAIN items, tree)
             bs == Branches(at, DOMAIN items, tree)
  <1>1. Grounded(tree) /\ at \in Tree!Entities /\ at \in DOMAIN items /\ at # Tree!Top
        /\ parent \in Tree!Entities \cup Ports \cup {Tree!Root, Missing, None}
    BY Apart DEF Cleaning, Beside, EntityRow
  <1>2. children # {} => at \in DOMAIN tree
    BY <1>1, GroundedUp DEF Tree!ChildrenIn
  <1>3. ASSUME at \in DOMAIN tree
        PROVE  at \notin DOMAIN strays /\ tree[at] # at /\ (parent \in DOMAIN tree => tree[at] = parent)
    <2>1. tree[at] \notin Tree!Branch(at, tree) /\ at \in Tree!Branch(at, tree)
      BY <1>1, <1>3, NotBelow, BranchHasNode
    <2> QED BY <1>1, <1>3, <2>1 DEF Cleaning, InPlace, InTransceivers, Reported
  <1>4. /\ DOMAIN items' = DOMAIN items \ {at}
        /\ \A c \in DOMAIN items' :
              items'[c] = IF c \in children THEN [items[c] EXCEPT !.parent = parent] ELSE items[c]
    BY DEF Tree!Remove
  <1>5. ASSUME NEW c \in DOMAIN items'
        PROVE  /\ items'[c] \in EntityRow
               /\ items'[c].type = items[c].type /\ items'[c].serial = items[c].serial
               /\ items'[c].parent = IF c \in kept THEN parent ELSE items[c].parent
    <2>1. items[c] \in EntityRow /\ (c \in kept <=> c \in children)
      BY <1>4 DEF Cleaning, Left, Kept
    <2>2. CASE c \in children
      <3>1. items'[c] = [items[c] EXCEPT !.parent = parent]
        BY <1>4, <2>2
      <3> QED BY ONLY <1>1, <2>1, <2>2, <3>1, RowParent
    <2>3. CASE c \notin children
      BY <1>4, <2>1, <2>3
    <2> QED BY <2>2, <2>3
  <1>6. CASE at \notin DOMAIN tree
    <2>1. tree' = tree
      BY <1>6 DEF Tree!Remove, Tree!Found
    <2>2. kept = {}
      BY <1>2, <1>6 DEF Kept
    <2>3. \A n \in DOMAIN tree : tree[n] # at
      BY <1>2, <1>6 DEF Tree!ChildrenIn
    <2>4. Grounded(tree)'
      BY <1>1, <2>1 DEF Grounded
    <2> QED BY <1>1, <1>2, <1>4, <1>5, <1>6, <2>1, <2>2, <2>3, <2>4 DEF Removal
  <1>7. CASE at \in DOMAIN tree
    <2>1. tree' = Tree!Regrafted(at, parent, DOMAIN items, tree)
      BY <1>7 DEF Tree!Remove, Tree!Found
    <2>2. Grounded(tree)'
      <3>1. Grounded(Tree!Regrafted(at, parent, DOMAIN items, tree))
        BY <1>1, <1>3, <1>7, RegraftedGrounded DEF Tree!Found
      <3> QED BY <2>1, <3>1
    <2>3. /\ bs \subseteq DOMAIN tree /\ kept \subseteq bs
          /\ \A n \in bs : n \in kept \/ tree[n] \in bs
      BY KeptBranches
    <2>4. at \notin bs
      <3> SUFFICES ASSUME at \in bs PROVE FALSE
        OBVIOUS
      <3>1. PICK c \in kept : at \in Tree!Branch(c, tree)
        BY DEF Branches
      <3>2. c \in DOMAIN tree /\ tree[c] = at
        BY DEF Kept, Tree!ChildrenIn
      <3> QED BY <1>1, <3>1, <3>2, NotBelow
    <2>5. CASE Tree!Found(parent, tree)
      <3>1. /\ DOMAIN tree' = DOMAIN tree \ (Tree!Branch(at, tree) \ bs)
            /\ \A n \in DOMAIN tree' : tree'[n] = IF n \in kept THEN parent ELSE tree[n]
        <4>1. /\ DOMAIN Tree!Regrafted(at, parent, DOMAIN items, tree) = DOMAIN tree \ (Tree!Branch(at, tree) \ bs)
              /\ \A n \in DOMAIN Tree!Regrafted(at, parent, DOMAIN items, tree) :
                    Tree!Regrafted(at, parent, DOMAIN items, tree)[n] = IF n \in kept THEN parent ELSE tree[n]
          BY ONLY Zenon, <2>5, RegraftedIs
        <4> QED BY ONLY Zenon, <2>1, <4>1
      <3>2. at \notin DOMAIN tree'
        BY <2>4, <3>1, BranchHasNode
      <3>3. \A n \in DOMAIN tree' : tree[n] = at => n \in kept
        <4> TAKE n \in DOMAIN tree'
        <4> HAVE tree[n] = at
        <4>1. n \in Tree!Branch(at, tree)
          BY <3>1, BranchHasNode, BranchDown
        <4>2. n \in bs
          BY <3>1, <4>1
        <4> QED BY <2>3, <2>4, <4>2
      <3> HIDE DEF kept, bs
      <3> QED BY <1>1, <1>2, <1>3, <1>4, <1>5, <1>7, <2>2, <2>5, <3>1, <3>2, <3>3
                 DEF Removal, Tree!Found, kept
    <2>6. CASE ~Tree!Found(parent, tree)
      <3>1. DOMAIN tree' = DOMAIN tree \ bs /\ \A n \in DOMAIN tree' : tree'[n] = tree[n]
        <4>1. tree' = Tree!Without(tree, bs)
          BY ONLY Zenon, <2>1, <2>6, NotRegrafted
        <4> HIDE DEF bs
        <4> QED BY <4>1 DEF Tree!Without, Tree!Restrict
      <3>2. \A n \in DOMAIN tree' : n \notin kept
        BY <2>3, <3>1
      <3> HIDE DEF kept, bs
      <3> QED BY <1>1, <1>2, <1>3, <1>4, <1>5, <1>7, <2>2, <2>6, <3>1, <3>2
                 DEF Removal, Tree!Found, kept
    <2> QED BY <2>5, <2>6
  <1> QED BY <1>6, <1>7

\* The invariant but for what holds of plain transceivers only.
Cleaned ==
    /\ at \in 1 .. Last + 1 /\ Remapped(Last + 1) /\ ChassisOnly
    /\ Grounded(tree) /\ Left /\ Names /\ InPlace /\ OutOfPlace /\ InTransceivers
    /\ BelowPorts /\ AtRoot /\ Leaves

\* Removing an entity keeps all parts of the invariant but the last,
LEMMA RemovalInv ==
    ASSUME Tree!EntityAssumption, Given, Cleaning, Removal PROVE Cleaned'
  <1> DEFINE parent == items[at].parent
             kept == Kept(at, DOMAIN items, tree)
  <1>1. /\ given' = given /\ strays' = strays /\ remap' = remap /\ chassis' = chassis
        /\ at' = at + 1 /\ at \in Tree!Entities /\ at \in DOMAIN items /\ items[at] \in EntityRow
        /\ at' \in 1 .. Last + 1 /\ \A i \in Tree!Entities : i < at' <=> (i < at \/ i = at)
        /\ Tree!Transceivers' = Tree!Transceivers /\ Tree!Transceivers \subseteq Tree!Entities
        /\ \A t : Tree!In(t)' = Tree!In(t)
        /\ \A t, p : Describes(t, p)' <=> Describes(t, p)
    BY DEF Removal, Beside
  <1>2. /\ Tree!Entities \cap Ports = {} /\ Tree!Top \notin Tree!Entities /\ Tree!Top \notin Ports
        /\ Tree!Root \notin Tree!Entities
        /\ Tree!Root \notin Ports /\ Tree!Entities' = Tree!Entities
    BY Apart DEF Tree!Entities
  <1>3. /\ parent # Tree!Root /\ ~items[at].serial /\ items[at].type # "fan"
        /\ items[at].type = given[at].type /\ items[at].serial = given[at].serial
        /\ given[at].parent # Tree!Root
    BY <1>1, <1>2 DEF Removal, Tree!Useless, Cleaning, Left, AtRoot
  <1>4. /\ DOMAIN tree' \subseteq DOMAIN tree
        /\ \A n \in DOMAIN tree' : tree'[n] = IF n \in kept THEN parent ELSE tree[n]
        /\ \A n \in DOMAIN tree' : n \in kept => parent \in DOMAIN tree
        /\ \A n \in DOMAIN tree' : tree[n] = at /\ parent \in DOMAIN tree => n \in kept
        /\ at \in DOMAIN tree' => parent \notin DOMAIN tree
        /\ Grounded(tree) /\ Grounded(tree)'
        /\ at \in DOMAIN tree => at \notin DOMAIN strays /\ tree[at] # at
                                 /\ (parent \in DOMAIN tree => tree[at] = parent)
    BY DEF Removal
  <1>5. /\ DOMAIN items' = DOMAIN items \ {at}
        /\ \A c \in DOMAIN items' :
              /\ items'[c] \in EntityRow
              /\ items'[c].type = items[c].type /\ items'[c].serial = items[c].serial
              /\ items'[c].parent = IF c \in kept THEN parent ELSE items[c].parent
    BY DEF Removal
  <1>6. \A n \in kept : n \in DOMAIN tree /\ tree[n] = at /\ at \in DOMAIN tree /\ n # at /\ n \in DOMAIN items
    <2>1. \A n \in kept : n \in DOMAIN tree /\ tree[n] = at /\ n \in DOMAIN items
      BY DEF Kept, Tree!ChildrenIn
    <2>2. kept # {} => at \in DOMAIN tree
      BY DEF Removal, Kept
    <2> QED BY <1>4, <2>1, <2>2
  <1> HIDE DEF kept
  <1>7. Remapped(Last + 1)' /\ ChassisOnly'
    BY <1>1, <1>2 DEF Cleaning, Remapped, ChassisOnly
  <1>8. Left'
    <2>1. DOMAIN items' \subseteq Tree!Entities \cup Ports /\ \A i \in DOMAIN items' : items'[i] \in EntityRow
      BY <1>5 DEF Cleaning, Left
    <2>2. ASSUME NEW i \in Tree!Entities
          PROVE  IF i \in DOMAIN items'
                 THEN items'[i].type = given[i].type /\ items'[i].serial = given[i].serial
                 ELSE /\ i < at'
                      /\ \/ i \in DOMAIN remap /\ remap[i] \in DOMAIN items'
                         \/ ~given[i].serial /\ given[i].type # "fan" /\ given[i].parent # Tree!Root
      <3>1. CASE i = at
        BY <1>1, <1>3, <1>5, <3>1
      <3>2. CASE i # at
        <4>1. i \in DOMAIN remap => remap[i] # at
          BY <1>1, <1>2 DEF Cleaning, Remapped
        <4> QED BY <1>1, <1>5, <3>2, <4>1 DEF Cleaning, Left
      <3> QED BY <3>1, <3>2
    <2> QED BY <1>1, <1>2, <2>1, <2>2 DEF Left, EntityRow
  <1>9. Names'
    <2>1. \A t \in DOMAIN remap : t \in Tree!Entities
      BY <1>1 DEF Cleaning, Remapped
    <2> QED BY <1>1, <1>2, <1>4, <1>5, <2>1 DEF Cleaning, Names
  <1>10. \A x \in Reported' : x \in Reported /\ x # at
    BY <1>4, <1>5 DEF Reported
  <1>11. ASSUME NEW x \in Reported'
         PROVE  /\ x \in kept => items'[x].parent = parent /\ tree'[x] = parent
                /\ x \notin kept => items'[x].parent = items[x].parent /\ tree'[x] = tree[x]
    BY <1>4, <1>5 DEF Reported
  <1>12. InPlace'
    BY <1>2, <1>4, <1>10, <1>11 DEF Cleaning, InPlace
  <1>13. OutOfPlace'
    <2>1. \A x \in Reported' \cap Tree!Entities : tree'[x] # items'[x].parent => tree'[x] \in Elsewhere
      BY <1>10, <1>11 DEF Cleaning, OutOfPlace
    <2>2. ASSUME NEW x \in DOMAIN tree' \ DOMAIN items' PROVE tree'[x] \in Elsewhere
      <3>1. CASE x = at
        <4>1. parent \notin DOMAIN tree /\ at \in DOMAIN tree /\ tree'[at] = tree[at]
          BY <1>4, <1>6, <3>1
        <4>2. tree[at] = Tree!Top \/ tree[at] \in DOMAIN tree
          BY <1>4, <4>1, GroundedUp
        <4>3. tree[at] # parent \/ tree[at] = Tree!Top
          BY <4>1, <4>2
        <4>4. at \in Reported \cap Tree!Entities
          BY <1>1, <4>1 DEF Reported
        <4> QED BY <3>1, <4>1, <4>3, <4>4 DEF Cleaning, OutOfPlace, Elsewhere
      <3>2. CASE x # at
        <4>1. x \in DOMAIN tree \ DOMAIN items /\ x \notin kept
          BY <1>4, <1>5, <1>6, <3>2
        <4> QED BY <1>4, <4>1 DEF Cleaning, OutOfPlace
      <3> QED BY <3>1, <3>2
    <2>3. Elsewhere' = Elsewhere
      BY <1>1 DEF Elsewhere
    <2> QED BY <1>2, <2>1, <2>2, <2>3 DEF OutOfPlace
  <1>14. kept # {} => parent \notin Tree!Transceivers
    BY <1>1, <1>4, <1>6 DEF Cleaning, InTransceivers
  <1>15. InTransceivers'
    BY <1>1, <1>2, <1>4, <1>5, <1>14 DEF Cleaning, InTransceivers
  <1>16. BelowPorts'
    <2>1. ASSUME NEW x \in Reported' \cap Tree!Entities, items'[x].parent \in Ports,
                 tree'[x] # items'[x].parent
          PROVE  /\ items'[x].parent \notin DOMAIN tree'
                 /\ \E t \in Tree!Transceivers :
                       /\ Describes(t, items'[x].parent)
                       /\ tree'[x] = t \/ (t \in DOMAIN remap /\ tree'[x] = remap[t])
      <3>1. x \notin kept /\ x \in Reported \cap Tree!Entities
        BY <1>10, <1>11, <2>1
      <3> QED BY <1>4, <1>11, <2>1, <3>1 DEF Cleaning, BelowPorts
    <2> QED BY <1>1, <1>2, <2>1 DEF BelowPorts
  <1>17. AtRoot'
    <2>1. ASSUME NEW c \in DOMAIN items' \cap Tree!Entities
          PROVE  /\ given[c].parent = Tree!Root <=> items'[c].parent = Tree!Root
                 /\ items'[c].parent = Tree!Root /\ c \in DOMAIN tree' => tree'[c] = Tree!Top
      <3>1. /\ c \in DOMAIN items \cap Tree!Entities
            /\ given[c].parent = Tree!Root <=> items[c].parent = Tree!Root
            /\ items[c].parent = Tree!Root /\ c \in DOMAIN tree => tree[c] = Tree!Top
        BY <1>5 DEF Cleaning, AtRoot
      <3>2. c \in kept => items[c].parent # Tree!Root
        BY <1>1, <1>2, <1>6, <3>1
      <3> QED BY <1>3, <1>4, <1>5, <3>1, <3>2
    <2> QED BY <1>1, <1>2, <2>1 DEF AtRoot
  <1>18. Leaves'
    <2>1. ASSUME NEW x \in Tree!Entities, Tree!In(x) = {}
          PROVE  (\A y \in DOMAIN items' : items'[y].parent # x) /\ (\A y \in DOMAIN tree' : tree'[y] # x)
      <3>1. (\A y \in DOMAIN items : items[y].parent # x) /\ (\A y \in DOMAIN tree : tree[y] # x)
        BY <2>1 DEF Cleaning, Leaves
      <3> QED BY <1>1, <1>4, <1>5, <3>1
    <2> QED BY <1>1, <1>2, <2>1 DEF Leaves
  <1>19. (at \in 1 .. Last + 1)' /\ Grounded(tree)'
    BY <1>1, <1>4
  <1> QED BY <1>7, <1>8, <1>9, <1>12, <1>13, <1>15, <1>16, <1>17, <1>18, <1>19 DEF Cleaned

\* Nothing that is reported is lost from the tree.
LEMMA RemovalKeeps ==
    ASSUME Tree!EntityAssumption, Given, Cleaning, Beside, Removal, Tree!Remove(at), AllPlain
    PROVE  /\ \A x \in Reported : x # at => x \in DOMAIN tree'
           /\ Tree!ChildrenIn(at, tree) # {} =>
                 /\ items[at].parent \in Tree!Entities /\ items[at].parent \in DOMAIN items
                 /\ items[at].parent \in DOMAIN tree
  <1> DEFINE parent == items[at].parent
             children == Tree!ChildrenIn(at, tree)
             kept == Kept(at, DOMAIN items, tree)
             bs == Branches(at, DOMAIN items, tree)
  <1>1. WithParents /\ WithPorts /\ Remains /\ Grounded(tree)
    BY DEF Cleaning, TreeSound
  <1>2. /\ at \in Tree!Entities /\ at \in DOMAIN items /\ items[at] \in EntityRow
        /\ parent # Tree!Root /\ at # Tree!Top
        /\ Tree!Top \notin Tree!Entities
    BY Apart DEF Beside, Removal, Tree!Useless
  <1>3. ASSUME children # {}
        PROVE  /\ parent \in Tree!Entities /\ parent \in DOMAIN items
               /\ parent \in DOMAIN tree /\ at \in DOMAIN tree
    <2>1. PICK c \in DOMAIN tree : tree[c] = at
      BY <1>3 DEF Tree!ChildrenIn
    <2>2. Tree!In(at) # {}
      BY <1>2, <2>1 DEF Cleaning, Leaves
    <2>3. parent \notin Ports \cup {None} /\ parent # Missing
      BY <1>1, <1>2, <2>2 DEF WithParents, WithPorts
    <2>4. parent \in Tree!Entities
      BY <1>2, <2>3 DEF EntityRow
    <2>5. at \in DOMAIN tree /\ tree[at] = parent /\ parent \in DOMAIN items
      BY <1>1, <1>2, <2>4 DEF WithParents
    <2>6. parent # Tree!Top
      BY <1>2, <2>4
    <2> QED BY <1>1, <2>4, <2>5, <2>6, GroundedUp
  <1>4. /\ kept \subseteq bs /\ \A c \in DOMAIN tree : tree[c] \in bs => c \in bs
    BY KeptBranches
  <1>5. ASSUME at \in DOMAIN tree, NEW x \in Tree!Branch(at, tree), x \in DOMAIN items
        PROVE  x = at \/ x \in bs
    <2> DEFINE Y == {n \in Tree!Branch(at, tree) :
                        \/ n = at \/ n \in bs
                        \/ n \in DOMAIN tree \ DOMAIN items /\ Tree!ChildrenIn(n, tree) = {}}
    <2>1. at \in Y
      BY BranchHasNode
    <2>2. ASSUME NEW c \in DOMAIN tree, tree[c] \in Y PROVE c \in Y
      <3>1. c \in Tree!Branch(at, tree)
        BY <2>2, BranchDown
      <3>2. CASE tree[c] = at
        <4>1. CASE c \in DOMAIN items
          BY <1>4, <3>1, <3>2, <4>1 DEF Kept, Tree!ChildrenIn
        <4>2. CASE c \notin DOMAIN items
          BY <1>1, <1>2, <3>1, <3>2, <4>2 DEF Remains
        <4> QED BY <4>1, <4>2
      <3>3. CASE tree[c] \in bs
        BY <1>4, <3>1, <3>3
      <3>4. CASE tree[c] # at /\ tree[c] \notin bs
        BY <2>2, <3>4 DEF Tree!ChildrenIn
      <3> QED BY <3>2, <3>3, <3>4
    <2>3. Tree!Branch(at, tree) \subseteq Y
      <3> HIDE DEF Y
      <3> QED BY <2>1, <2>2, BranchLeast
    <2> QED BY <1>5, <2>3
  <1>6. ASSUME NEW x \in Reported, x # at PROVE x \in DOMAIN tree'
    <2>0. x \in DOMAIN tree /\ x \in DOMAIN items
      BY DEF Reported
    <2>1. CASE at \notin DOMAIN tree
      BY <2>0, <2>1 DEF Tree!Remove, Tree!Found
    <2>2. CASE at \in DOMAIN tree
      <3>1. tree' = Tree!Regrafted(at, parent, DOMAIN items, tree)
        BY <2>2 DEF Tree!Remove, Tree!Found
      <3>2. CASE Tree!Found(parent, tree)
        <4>1. DOMAIN Tree!Regrafted(at, parent, DOMAIN items, tree) = DOMAIN tree \ (Tree!Branch(at, tree) \ bs)
          BY ONLY Zenon, <3>2, RegraftedIs
        <4> QED BY <1>5, <1>6, <2>0, <2>2, <3>1, <4>1
      <3>3. CASE ~Tree!Found(parent, tree)
        <4>1. children = {}
          BY <1>3, <3>3 DEF Tree!Found
        <4>2. bs = {}
          BY <4>1 DEF Branches, Kept
        <4>3. tree' = Tree!Without(tree, bs)
          BY ONLY Zenon, <3>1, <3>3, NotRegrafted
        <4> HIDE DEF bs
        <4> QED BY <2>0, <4>2, <4>3 DEF Tree!Without, Tree!Restrict
      <3> QED BY <3>2, <3>3
    <2> QED BY <2>1, <2>2
  <1> QED BY <1>3, <1>6

\* and the last: no entity loses its parent.
LEMMA RemovalSound ==
    ASSUME Tree!EntityAssumption, Given, Cleaning, Beside, Removal, Tree!Remove(at) PROVE TreeSound'
  <1> SUFFICES ASSUME AllPlain PROVE (WithParents /\ WithPorts /\ Remains)'
    BY DEF TreeSound, Beside
  <1> DEFINE parent == items[at].parent
             kept == Kept(at, DOMAIN items, tree)
  <1>1. WithParents /\ WithPorts /\ Remains
    BY DEF Cleaning, TreeSound
  <1>2. /\ remap' = remap /\ at' = at + 1 /\ at \in Tree!Entities /\ at \in Nat
        /\ Tree!Transceivers' = Tree!Transceivers
        /\ Tree!Transceivers \subseteq Tree!Entities /\ \A t : Tree!In(t)' = Tree!In(t)
        /\ Tree!Entities' = Tree!Entities /\ Tree!Entities \cap Ports = {}
        /\ Tree!Top \notin Tree!Entities /\ None \notin Tree!Entities
        /\ \A i \in Tree!Entities : i \in Nat
    BY Apart DEF Beside, Tree!Entities
  <1>3. /\ DOMAIN tree' \subseteq DOMAIN tree
        /\ \A n \in DOMAIN tree' : tree'[n] = IF n \in kept THEN parent ELSE tree[n]
        /\ \A n \in DOMAIN tree' : tree[n] = at /\ parent \in DOMAIN tree => n \in kept
        /\ at \in DOMAIN tree' => parent \notin DOMAIN tree
        /\ at \in DOMAIN tree => tree[at] # at /\ (parent \in DOMAIN tree => tree[at] = parent)
        /\ DOMAIN items' = DOMAIN items \ {at}
        /\ \A c \in DOMAIN items' : items'[c].parent = IF c \in kept THEN parent ELSE items[c].parent
    BY DEF Removal
  <1>4. /\ \A x \in Reported : x # at => x \in DOMAIN tree'
        /\ Tree!ChildrenIn(at, tree) # {} => parent \in Tree!Entities /\ parent \in DOMAIN items /\ parent \in DOMAIN tree
    BY RemovalKeeps
  <1>5. /\ \A n \in kept : n \in DOMAIN tree /\ tree[n] = at /\ n \in DOMAIN items /\ n \in Reported
        /\ \A n \in Reported : tree[n] = at => n \in kept
    BY DEF Kept, Tree!ChildrenIn, Reported
  <1>6. ASSUME kept # {}
        PROVE  /\ parent \in Tree!Entities /\ parent \in DOMAIN items /\ parent \in DOMAIN tree
               /\ parent # at
    <2>1. Tree!ChildrenIn(at, tree) # {} /\ at \in DOMAIN tree
      BY <1>6 DEF Kept, Removal
    <2> QED BY <1>3, <1>4, <2>1
  <1> HIDE DEF kept
  <1>7. ASSUME NEW x \in DOMAIN items'
        PROVE  /\ items'[x].parent # Missing
               /\ items'[x].parent \in Tree!Entities =>
                     x \in DOMAIN tree' /\ tree'[x] = items'[x].parent /\ items'[x].parent \in DOMAIN items'
    <2>1. CASE x \in kept
      <3>1. x \in DOMAIN tree' /\ tree'[x] = parent /\ items'[x].parent = parent
        BY <1>3, <1>4, <1>5, <2>1
      <3>2. parent # Missing
        BY <1>6, <2>1, Apart
      <3> QED BY <1>3, <1>6, <2>1, <3>1, <3>2
    <2>2. CASE x \notin kept
      <3>1. x \in DOMAIN items /\ x # at /\ items'[x].parent = items[x].parent
        BY <1>3, <2>2
      <3>2. items[x].parent # Missing
        BY <1>1, <3>1 DEF WithParents
      <3>3. ASSUME items[x].parent \in Tree!Entities
            PROVE  x \in DOMAIN tree' /\ tree'[x] = items[x].parent /\ items[x].parent \in DOMAIN items'
        <4>1. x \in DOMAIN tree /\ tree[x] = items[x].parent /\ items[x].parent \in DOMAIN items
          BY <1>1, <3>1, <3>3 DEF WithParents
        <4>2. x \in Reported
          BY <3>1, <4>1 DEF Reported
        <4> QED BY <1>3, <1>4, <1>5, <2>2, <3>1, <4>1, <4>2
      <3> QED BY <3>1, <3>2, <3>3
    <2> QED BY <2>1, <2>2
  <1>8. WithParents'
    BY <1>2, <1>7, Apart DEF WithParents
  <1>9. ASSUME NEW x \in DOMAIN items', items'[x].parent \in Ports \cup {None}
        PROVE  /\ x \in Tree!Entities \ Tree!Transceivers /\ Tree!In(x) = {}
               /\ items'[x].parent \in Ports =>
                     \/ items'[x].parent \in DOMAIN items'
                     \/ /\ x \in DOMAIN tree' /\ tree'[x] \in DOMAIN remap /\ tree'[x] >= at'
                        /\ remap[tree'[x]] = items'[x].parent
    <2>1. x \notin kept
      BY <1>2, <1>3, <1>6, <1>9
    <2>2. x \in DOMAIN items /\ x # at /\ items'[x].parent = items[x].parent
      BY <1>3, <2>1
    <2>3. x \in Tree!Entities \ Tree!Transceivers /\ Tree!In(x) = {}
      BY <1>1, <1>9, <2>2 DEF WithPorts
    <2>4. ASSUME items[x].parent \in Ports, items[x].parent \notin DOMAIN items'
          PROVE  /\ x \in DOMAIN tree' /\ tree'[x] \in DOMAIN remap /\ tree'[x] >= at'
                 /\ remap[tree'[x]] = items'[x].parent
      <3>1. items[x].parent \notin DOMAIN items
        BY <1>2, <1>3, <2>4
      <3>2. /\ x \in DOMAIN tree /\ tree[x] \in DOMAIN remap /\ tree[x] >= at
            /\ remap[tree[x]] = items[x].parent
        BY <1>1, <2>2, <2>4, <3>1 DEF WithPorts
      <3>3. x \in Reported /\ tree[x] # at
        BY <1>5, <2>1, <2>2, <3>2 DEF Reported
      <3>4. tree[x] \in Nat
        BY <1>2, <3>2 DEF Cleaning, Remapped
      <3> QED BY <1>2, <1>3, <1>4, <2>1, <2>2, <3>2, <3>3, <3>4
    <2> QED BY <2>2, <2>3, <2>4
  <1>10. WithPorts'
    BY <1>2, <1>9 DEF WithPorts
  <1>11. ASSUME NEW x \in DOMAIN tree' \ DOMAIN items', tree'[x] # Tree!Top, NEW n \in DOMAIN tree',
                tree'[n] = x
         PROVE  FALSE
    <2>1. CASE x = at
      <3>1. n \notin kept
        BY <1>6, <1>3, <1>11, <2>1
      <3>2. tree[n] = at
        BY <1>3, <1>11, <2>1, <3>1
      <3>3. Tree!ChildrenIn(at, tree) # {}
        BY <1>3, <3>2 DEF Tree!ChildrenIn
      <3> QED BY <1>3, <1>4, <1>11, <2>1, <3>3
    <2>2. CASE x # at
      <3>1. x \in DOMAIN tree \ DOMAIN items
        BY <1>3, <1>11, <2>2
      <3>2. tree'[x] = tree[x] /\ n \notin kept
        BY <1>3, <1>5, <1>6, <1>11, <3>1
      <3>3. n \in Tree!ChildrenIn(x, tree)
        BY <1>3, <1>11, <3>2 DEF Tree!ChildrenIn
      <3> QED BY <1>1, <1>11, <3>1, <3>2, <3>3 DEF Remains
    <2> QED BY <2>1, <2>2
  <1>12. Remains'
    BY <1>11 DEF Remains, Tree!ChildrenIn
  <1> QED BY <1>8, <1>10, <1>12

-----------------------------------------------------------------------------
(* The second loop: an entity that is renamed *)

\* A port is described by one transceiver.
LEMMA DescribesOne ==
    ASSUME Tree!EntityAssumption, Tree!PortsApart, NEW t \in Tree!Transceivers,
           NEW u \in Tree!Transceivers, NEW p \in Ports,
           Describes(t, p), Describes(u, p)
    PROVE  t = u
  <1>1. PICK i \in {t} \cup Tree!In(t), j \in {u} \cup Tree!In(u) : given[i].port = p /\ given[j].port = p
    BY DEF Describes
  <1>2. p # None
    BY Apart
  <1> QED BY <1>1, <1>2 DEF Tree!PortsApart

\* A step that renames, node by node and row by row.
Renaming ==
    LET parent == items[at].parent
        new == remap[at]
        children == Tree!ChildrenIn(at, tree)
    IN  /\ Beside /\ at \in DOMAIN remap /\ at \in Tree!Transceivers
        /\ parent \notin Tree!Transceivers
        /\ at \in DOMAIN tree /\ parent \in DOMAIN tree => tree[at] = parent
        /\ new \in Ports /\ new \notin DOMAIN tree /\ new \notin DOMAIN items /\ Describes(at, new)
        /\ \A t \in Tree!Transceivers : Describes(t, new) => t = at
        /\ \/ /\ parent \in DOMAIN tree
              /\ DOMAIN tree' = (DOMAIN tree \ {at}) \cup {new} /\ tree'[new] = parent
              /\ \A n \in DOMAIN tree : n # at => tree'[n] = IF tree[n] = at THEN new ELSE tree[n]
              /\ \A c \in DOMAIN items : c # at => items'[c] = items[c]
           \/ /\ parent \notin DOMAIN tree /\ tree' = tree
              /\ \A c \in DOMAIN items : c # at /\ c \notin children => items'[c] = items[c]
              /\ children \subseteq DOMAIN items
              /\ \A c \in children :
                    /\ c # at /\ items'[c] \in EntityRow
                    /\ items'[c].type = items[c].type /\ items'[c].serial = items[c].serial
                    /\ items'[c].parent = new
        /\ Grounded(tree) /\ Grounded(tree)'
        /\ DOMAIN items' = (DOMAIN items \ {at}) \cup {new}
        /\ items'[new] = items[at]

\* A transceiver that is renamed, point by point.
LEMMA RenameIs ==
    ASSUME Tree!EntityAssumption, Given, Tree!PortsApart, Cleaning, Beside, at \in DOMAIN remap,
           Tree!Told(at) \subseteq DOMAIN items, Tree!Rename(at, remap[at])
    PROVE  Renaming
  <1> DEFINE parent == items[at].parent
             new == remap[at]
             children == Tree!ChildrenIn(at, tree)
  <1>1. /\ at \in Tree!Transceivers /\ new \in Ports /\ Describes(at, new)
        /\ at \in Tree!Entities /\ at \in DOMAIN items /\ at \in Nat /\ Grounded(tree)
    BY Apart DEF Cleaning, Remapped, Beside
  <1>2. parent \notin Tree!Transceivers
    BY <1>1 DEF Cleaning, InTransceivers
  <1>3. at \in DOMAIN tree /\ parent \in DOMAIN tree => tree[at] = parent
    BY <1>1 DEF Cleaning, InPlace, Reported
  <1>4. \A t \in Tree!Transceivers : Describes(t, new) => t = at
    BY <1>1, DescribesOne
  <1>5. new \notin DOMAIN tree /\ new \notin DOMAIN items
    <2> SUFFICES ASSUME new \in DOMAIN tree \cup DOMAIN items PROVE FALSE
      OBVIOUS
    <2>1. PICK t \in DOMAIN remap : t < at /\ remap[t] = new
      BY <1>1 DEF Cleaning, Names
    <2>2. t \in Tree!Transceivers /\ Describes(t, new)
      BY <2>1 DEF Cleaning, Remapped
    <2> QED BY <1>1, <1>4, <2>1, <2>2
  <1>6. new # Tree!Top /\ at # Tree!Top /\ parent # at /\ at # new
    BY <1>1, <1>2, <1>5, Apart
  <1>7. Grounded(tree)'
    <2>1. Grounded(Tree!Renamed(at, new, parent, tree))
      BY <1>1, <1>3, <1>5, <1>6, RenamedGrounded DEF Tree!Found
    <2> QED BY <2>1 DEF Tree!Rename
  <1>8. /\ DOMAIN items' = (DOMAIN items \ {at}) \cup {new} /\ items'[new] = items[at]
        /\ \A c \in DOMAIN items : c # at => items'[c] = IF c \in Tree!Told(at) THEN [items[c] EXCEPT !.parent = new]
                                                         ELSE items[c]
    BY <1>5 DEF Tree!Rename
  <1>9. CASE parent \in DOMAIN tree
    <2>1. Tree!Told(at) = {}
      BY <1>9 DEF Tree!Told, Tree!Found
    <2>2. /\ DOMAIN tree' = (DOMAIN tree \ {at}) \cup {new} /\ tree'[new] = parent
          /\ \A n \in DOMAIN tree : n # at => tree'[n] = IF tree[n] = at THEN new ELSE tree[n]
      BY <1>5, <1>9 DEF Tree!Rename, Tree!Renamed, Tree!Found
    <2> QED BY <1>1, <1>2, <1>3, <1>4, <1>5, <1>7, <1>8, <1>9, <2>1, <2>2 DEF Renaming
  <1>10. CASE parent \notin DOMAIN tree
    <2>1. Tree!Told(at) = children /\ tree' = tree
      BY <1>10 DEF Tree!Told, Tree!Found, Tree!Rename, Tree!Renamed
    <2>2. ASSUME NEW c \in children
          PROVE  /\ c # at /\ items'[c] \in EntityRow
                 /\ items'[c].type = items[c].type /\ items'[c].serial = items[c].serial
                 /\ items'[c].parent = new
      <3>1. c \in DOMAIN tree /\ tree[c] = at
        BY DEF Tree!ChildrenIn
      <3>2. c # at
        BY <1>1, <3>1, NotBelow, BranchHasNode
      <3>3. c \in DOMAIN items /\ items[c] \in EntityRow
        BY <2>1 DEF Cleaning, Left
      <3>4. items'[c] = [items[c] EXCEPT !.parent = new]
        BY <1>8, <2>1, <3>2, <3>3
      <3> QED BY ONLY <1>1, <3>2, <3>3, <3>4, RowParent
    <2>3. children \subseteq DOMAIN items
      BY <2>1
    <2>4. \A c \in DOMAIN items : c # at /\ c \notin children => items'[c] = items[c]
      BY <1>8, <2>1
    <2> HIDE DEF children
    <2> QED BY <1>1, <1>2, <1>3, <1>4, <1>5, <1>7, <1>8, <1>10, <2>1, <2>2, <2>3, <2>4
               DEF Renaming, children
  <1> QED BY <1>9, <1>10

\* Renaming a transceiver keeps all parts of the invariant but the last,
LEMMA RenamingInv ==
    ASSUME Tree!EntityAssumption, Given, Cleaning, Renaming PROVE Cleaned'
  <1> DEFINE parent == items[at].parent
             new == remap[at]
             children == Tree!ChildrenIn(at, tree)
  <1>1. /\ given' = given /\ strays' = strays /\ remap' = remap /\ chassis' = chassis
        /\ at' = at + 1 /\ at \in Tree!Entities /\ at \in DOMAIN items /\ items[at] \in EntityRow
        /\ at' \in 1 .. Last + 1 /\ \A i \in Tree!Entities : i < at' <=> (i < at \/ i = at)
        /\ Tree!Transceivers' = Tree!Transceivers /\ Tree!Transceivers \subseteq Tree!Entities
        /\ \A t : Tree!In(t)' = Tree!In(t)
        /\ \A t, p : Describes(t, p)' <=> Describes(t, p)
    BY DEF Renaming, Beside
  <1>2. /\ Tree!Entities \cap Ports = {} /\ Tree!Top \notin Tree!Entities /\ Tree!Top \notin Ports
        /\ Tree!Root \notin Tree!Entities
        /\ Tree!Root \notin Ports /\ Tree!Entities' = Tree!Entities /\ Elsewhere' = Elsewhere
    BY <1>1, Apart DEF Tree!Entities, Elsewhere
  <1>3. /\ at \in DOMAIN remap /\ at \in Tree!Transceivers /\ parent \notin Tree!Transceivers
        /\ at \in DOMAIN tree /\ parent \in DOMAIN tree => tree[at] = parent
        /\ new \in Ports /\ new \notin DOMAIN tree /\ new \notin DOMAIN items /\ Describes(at, new)
        /\ \A t \in Tree!Transceivers : Describes(t, new) => t = at
        /\ Grounded(tree) /\ Grounded(tree)'
        /\ DOMAIN items' = (DOMAIN items \ {at}) \cup {new} /\ items'[new] = items[at]
    BY DEF Renaming
  <1>4. \/ /\ parent \in DOMAIN tree
           /\ DOMAIN tree' = (DOMAIN tree \ {at}) \cup {new} /\ tree'[new] = parent
           /\ \A n \in DOMAIN tree : n # at => tree'[n] = IF tree[n] = at THEN new ELSE tree[n]
           /\ \A c \in DOMAIN items : c # at => items'[c] = items[c]
        \/ /\ parent \notin DOMAIN tree /\ tree' = tree
           /\ \A c \in DOMAIN items : c # at /\ c \notin children => items'[c] = items[c]
           /\ children \subseteq DOMAIN items
           /\ \A c \in children :
                 /\ c # at /\ items'[c] \in EntityRow
                 /\ items'[c].type = items[c].type /\ items'[c].serial = items[c].serial
                 /\ items'[c].parent = new
    BY DEF Renaming
  <1>5. \A c \in children : c \in DOMAIN tree /\ tree[c] = at
    BY DEF Tree!ChildrenIn
  <1>6. \A n \in DOMAIN tree : tree[n] = at => n \in children
    BY DEF Tree!ChildrenIn
  <1>7. parent # at /\ at # new /\ new \notin Tree!Entities
    BY <1>1, <1>2, <1>3
  <1> HIDE DEF children
  <1>8. Remapped(Last + 1)' /\ ChassisOnly'
    BY <1>1, <1>2 DEF Cleaning, Remapped, ChassisOnly
  <1>9. ASSUME NEW c \in DOMAIN items', c # new
        PROVE  /\ c \in DOMAIN items /\ c # at /\ items'[c] \in EntityRow
               /\ items'[c].type = items[c].type /\ items'[c].serial = items[c].serial
    BY <1>3, <1>4, <1>9 DEF Cleaning, Left
  <1>10. Left'
    <2>1. DOMAIN items' \subseteq Tree!Entities \cup Ports /\ \A i \in DOMAIN items' : items'[i] \in EntityRow
      BY <1>1, <1>3, <1>9 DEF Cleaning, Left
    <2>2. ASSUME NEW i \in Tree!Entities
          PROVE  IF i \in DOMAIN items'
                 THEN items'[i].type = given[i].type /\ items'[i].serial = given[i].serial
                 ELSE /\ i < at'
                      /\ \/ i \in DOMAIN remap /\ remap[i] \in DOMAIN items'
                         \/ ~given[i].serial /\ given[i].type # "fan" /\ given[i].parent # Tree!Root
      <3>1. CASE i = at
        BY <1>1, <1>3, <1>7, <3>1
      <3>2. CASE i # at
        <4>1. i \in DOMAIN remap => remap[i] # at
          BY <1>1, <1>2 DEF Cleaning, Remapped
        <4>2. i # new /\ (i \in DOMAIN items' <=> i \in DOMAIN items)
          BY <1>3, <1>7, <3>2
        <4>3. CASE i \in DOMAIN items
          BY <1>9, <4>2, <4>3 DEF Cleaning, Left
        <4>4. CASE i \notin DOMAIN items
          BY <1>1, <1>3, <4>1, <4>2, <4>4 DEF Cleaning, Left
        <4> QED BY <4>3, <4>4
      <3> QED BY <3>1, <3>2
    <2> QED BY <1>1, <1>2, <2>1, <2>2 DEF Left, EntityRow
  <1>11. Names'
    <2>1. \A t \in DOMAIN remap : t \in Tree!Entities
      BY <1>1 DEF Cleaning, Remapped
    <2>2. DOMAIN tree' \subseteq DOMAIN tree \cup {new}
      BY <1>4
    <2>3. ASSUME NEW p \in Ports, p \in DOMAIN tree' \cup DOMAIN items'
          PROVE  p \in DOMAIN items' /\ \E t \in DOMAIN remap : t < at' /\ remap[t] = p
      <3>1. CASE p = new
        BY <1>1, <1>3, <3>1
      <3>2. CASE p # new
        <4>1. p \in DOMAIN tree \cup DOMAIN items /\ p # at
          BY <1>1, <1>2, <1>3, <2>2, <2>3, <3>2
        <4> QED BY <1>1, <1>3, <2>1, <4>1 DEF Cleaning, Names
      <3> QED BY <3>1, <3>2
    <2>4. DOMAIN tree' \subseteq Tree!Entities \cup Ports
      BY <1>3, <2>2 DEF Cleaning, Names
    <2> QED BY <1>1, <1>2, <2>3, <2>4 DEF Names
  <1>12. ASSUME NEW x \in Reported' \cap Tree!Entities
         PROVE  /\ x \in Reported \cap Tree!Entities /\ x # at
                /\ \/ /\ parent \in DOMAIN tree /\ items'[x] = items[x]
                      /\ tree'[x] = IF tree[x] = at THEN new ELSE tree[x]
                   \/ /\ parent \notin DOMAIN tree /\ tree'[x] = tree[x]
                      /\ tree[x] # at /\ items'[x] = items[x]
                   \/ /\ parent \notin DOMAIN tree /\ tree'[x] = tree[x]
                      /\ tree[x] = at /\ items'[x].parent = new
    <2>1. x \in DOMAIN items /\ x # at /\ x \in Tree!Entities /\ x # new
      BY <1>3, <1>7 DEF Reported
    <2>2. x \in DOMAIN tree
      BY <1>4, <2>1 DEF Reported
    <2> QED BY <1>4, <1>5, <1>6, <2>1, <2>2 DEF Reported
  <1>13. \A x \in DOMAIN tree : tree[x] # new
    BY <1>2, <1>3, GroundedUp
  <1>14. ASSUME NEW x \in Reported \cap Tree!Entities, items[x].parent = new PROVE tree[x] = at
    <2>1. \E t \in Tree!Transceivers :
             /\ Describes(t, items[x].parent)
             /\ tree[x] = t \/ (t \in DOMAIN remap /\ tree[x] = remap[t])
      BY <1>3, <1>13, <1>14 DEF Cleaning, BelowPorts, Reported
    <2> QED BY <1>3, <1>13, <1>14, <2>1 DEF Reported
  <1>15. InPlace'
    <2>1. ASSUME NEW x \in Reported' \cap Tree!Entities, items'[x].parent \in DOMAIN tree'
          PROVE  tree'[x] = items'[x].parent
      <3>1. CASE parent \in DOMAIN tree
        <4>1. items'[x] = items[x] /\ tree'[x] = IF tree[x] = at THEN new ELSE tree[x]
          BY <1>12, <3>1
        <4>2. CASE items[x].parent = new
          BY <1>12, <1>14, <4>1, <4>2
        <4>3. CASE items[x].parent # new
          <5>1. items[x].parent \in DOMAIN tree /\ items[x].parent # at
            BY <1>4, <2>1, <3>1, <4>1, <4>3, <1>7
          <5>2. tree[x] = items[x].parent
            BY <1>12, <5>1 DEF Cleaning, InPlace
          <5> QED BY <4>1, <5>1, <5>2
        <4> QED BY <4>2, <4>3
      <3>2. CASE parent \notin DOMAIN tree
        <4>1. tree' = tree
          BY <1>4, <3>2
        <4>2. items'[x] = items[x]
          BY <1>3, <1>12, <2>1, <3>2, <4>1
        <4> QED BY <1>12, <2>1, <4>1, <4>2 DEF Cleaning, InPlace
      <3> QED BY <3>1, <3>2
    <2> QED BY <1>2, <2>1 DEF InPlace
  <1>16. OutOfPlace'
    <2>1. ASSUME NEW x \in Reported' \cap Tree!Entities, tree'[x] # items'[x].parent
          PROVE  tree'[x] \in Elsewhere
      BY <1>3, <1>12, <2>1 DEF Cleaning, OutOfPlace, Elsewhere
    <2>2. ASSUME NEW x \in DOMAIN tree' \ DOMAIN items' PROVE tree'[x] \in Elsewhere
      <3>1. CASE x = at
        <4>1. parent \notin DOMAIN tree /\ tree' = tree
          BY <1>4, <1>7, <3>1
        <4>2. tree[at] = Tree!Top \/ tree[at] \in DOMAIN tree
          BY <1>3, <3>1, <4>1, GroundedUp
        <4>3. at \in Reported \cap Tree!Entities
          BY <1>1, <3>1, <4>1 DEF Reported
        <4> QED BY <3>1, <4>1, <4>2, <4>3 DEF Cleaning, OutOfPlace, Elsewhere
      <3>2. CASE x # at
        <4>1. x # new /\ x \in DOMAIN tree \ DOMAIN items
          BY <1>3, <1>4, <3>2
        <4>2. tree'[x] \in {new, tree[x]}
          BY <1>4, <3>2, <4>1
        <4> QED BY <1>3, <4>1, <4>2 DEF Cleaning, OutOfPlace, Elsewhere
      <3> QED BY <3>1, <3>2
    <2> QED BY <1>2, <2>1, <2>2 DEF OutOfPlace
  <1>17. InTransceivers'
    <2>1. /\ DOMAIN strays \subseteq Tree!Entities \ Tree!Transceivers
          /\ DOMAIN tree \cap DOMAIN strays = {}
          /\ \A x \in DOMAIN items : items[x].parent \in Tree!Transceivers => x \in DOMAIN strays
          /\ \A x \in DOMAIN tree : tree[x] \in Tree!Transceivers => x \in Tree!Entities /\ given[x].parent = tree[x]
      BY DEF Cleaning, InTransceivers
    <2>2. new \notin DOMAIN strays /\ new \notin Tree!Transceivers
      BY <1>1, <1>7, <2>1
    <2>3. DOMAIN tree' \cap DOMAIN strays = {}
      BY <1>4, <2>1, <2>2
    <2>4. ASSUME NEW x \in DOMAIN items', items'[x].parent \in Tree!Transceivers
          PROVE  x \in DOMAIN strays
      <3>1. x # new
        BY <1>3, <2>4
      <3>2. x \in DOMAIN items /\ x # at
        BY <1>9, <3>1
      <3>3. items'[x] = items[x]
        BY <1>4, <2>2, <2>4, <3>2
      <3> QED BY <2>1, <2>4, <3>2, <3>3
    <2>5. ASSUME NEW x \in DOMAIN tree', tree'[x] \in Tree!Transceivers
          PROVE  x \in Tree!Entities /\ given[x].parent = tree'[x]
      <3>1. x \in DOMAIN tree /\ tree'[x] = tree[x]
        BY <1>3, <1>4, <2>2, <2>5
      <3> QED BY <2>1, <2>5, <3>1
    <2> QED BY <1>1, <1>2, <2>1, <2>3, <2>4, <2>5 DEF InTransceivers
  <1>18. BelowPorts'
    <2>1. ASSUME NEW x \in Reported' \cap Tree!Entities, items'[x].parent \in Ports,
                 tree'[x] # items'[x].parent
          PROVE  /\ items'[x].parent \notin DOMAIN tree'
                 /\ \E t \in Tree!Transceivers :
                       /\ Describes(t, items'[x].parent)
                       /\ tree'[x] = t \/ (t \in DOMAIN remap /\ tree'[x] = remap[t])
      <3>1. x \in Reported \cap Tree!Entities /\ x # at
        BY <1>12
      <3>2. CASE parent \notin DOMAIN tree /\ tree[x] = at
        BY <1>3, <1>4, <1>12, <3>2
      <3>3. CASE ~(parent \notin DOMAIN tree /\ tree[x] = at)
        <4>1. items'[x] = items[x]
          BY <1>12, <3>3
        <4>2. tree[x] # items[x].parent
          <5> SUFFICES ASSUME tree[x] = items[x].parent PROVE FALSE
            OBVIOUS
          <5>1. tree[x] # at
            BY <1>1, <1>2, <2>1, <4>1
          <5> QED BY <1>12, <2>1, <4>1, <5>1
        <4>3. PICK t \in Tree!Transceivers :
                 /\ items[x].parent \notin DOMAIN tree
                 /\ Describes(t, items[x].parent)
                 /\ tree[x] = t \/ (t \in DOMAIN remap /\ tree[x] = remap[t])
          BY <2>1, <3>1, <4>1, <4>2 DEF Cleaning, BelowPorts
        <4>4. items[x].parent # new
          BY <1>12, <1>14, <2>1, <3>1, <3>3, <4>1
        <4>5. items[x].parent \notin DOMAIN tree'
          BY <1>4, <4>3, <4>4
        <4>6. tree'[x] = IF tree[x] = at THEN new ELSE tree[x]
          BY <1>12, <3>3
        <4>7. tree[x] = at => t = at
          BY <1>1, <1>2, <4>3 DEF Cleaning, Remapped
        <4> QED BY <1>3, <4>1, <4>3, <4>5, <4>6, <4>7
      <3> QED BY <3>2, <3>3
    <2> QED BY <1>1, <1>2, <2>1 DEF BelowPorts
  <1>19. AtRoot'
    <2>1. ASSUME NEW c \in DOMAIN items' \cap Tree!Entities
          PROVE  /\ given[c].parent = Tree!Root <=> items'[c].parent = Tree!Root
                 /\ items'[c].parent = Tree!Root /\ c \in DOMAIN tree' => tree'[c] = Tree!Top
      <3>1. c \in DOMAIN items \cap Tree!Entities /\ c # at /\ c # new
        BY <1>3, <1>7
      <3>2. /\ given[c].parent = Tree!Root <=> items[c].parent = Tree!Root
            /\ items[c].parent = Tree!Root /\ c \in DOMAIN tree => tree[c] = Tree!Top
        BY <3>1 DEF Cleaning, AtRoot
      <3>3. c \in children => items[c].parent # Tree!Root
        BY <1>1, <1>2, <1>5, <3>2
      <3>4. c \in DOMAIN tree' => c \in DOMAIN tree /\ (tree[c] = Tree!Top => tree'[c] = Tree!Top)
        BY <1>1, <1>2, <1>4, <3>1
      <3> QED BY <1>2, <1>3, <1>4, <3>1, <3>2, <3>3, <3>4
    <2> QED BY <1>1, <1>2, <2>1 DEF AtRoot
  <1>20. Leaves'
    <2>1. ASSUME NEW x \in Tree!Entities, Tree!In(x) = {}
          PROVE  (\A y \in DOMAIN items' : items'[y].parent # x) /\ (\A y \in DOMAIN tree' : tree'[y] # x)
      <3>1. (\A y \in DOMAIN items : items[y].parent # x) /\ (\A y \in DOMAIN tree : tree[y] # x)
        BY <2>1 DEF Cleaning, Leaves
      <3>2. new # x /\ parent # x
        BY <1>1, <1>7, <3>1
      <3> QED BY <1>3, <1>4, <3>1, <3>2
    <2> QED BY <1>1, <1>2, <2>1 DEF Leaves
  <1>21. (at \in 1 .. Last + 1)' /\ Grounded(tree)'
    BY <1>1, <1>3
  <1> QED BY <1>8, <1>10, <1>11, <1>15, <1>16, <1>17, <1>18, <1>19, <1>20, <1>21 DEF Cleaned

\* and the last: what is told of a port has it for a parent.
LEMMA RenamingSound ==
    ASSUME Tree!EntityAssumption, Given, Cleaning, Renaming PROVE TreeSound'
  <1> SUFFICES ASSUME AllPlain PROVE (WithParents /\ WithPorts /\ Remains)'
    BY DEF TreeSound, Renaming, Beside
  <1> DEFINE parent == items[at].parent
             new == remap[at]
             children == Tree!ChildrenIn(at, tree)
  <1>1. WithParents /\ WithPorts /\ Remains /\ strays = <<>> /\ DOMAIN strays = {}
    BY DEF Cleaning, TreeSound, AllPlain
  <1>2. /\ remap' = remap /\ at' = at + 1 /\ at \in Tree!Entities /\ at \in Nat
        /\ Tree!Transceivers' = Tree!Transceivers
        /\ Tree!Transceivers \subseteq Tree!Entities /\ \A t : Tree!In(t)' = Tree!In(t)
        /\ Tree!Entities' = Tree!Entities /\ Tree!Entities \cap Ports = {}
        /\ Tree!Top \notin Tree!Entities /\ None \notin Tree!Entities
        /\ \A i \in Tree!Entities : i \in Nat
        /\ Tree!Top \notin Ports /\ Missing \notin Ports /\ None \notin Ports
        /\ Tree!Root \notin Tree!Entities
        /\ Missing \notin Tree!Entities /\ None # Missing
        /\ at \in DOMAIN items /\ items[at] \in EntityRow
    BY Apart DEF Renaming, Beside, Tree!Entities
  <1>3. /\ at \in DOMAIN remap /\ at \in Tree!Transceivers /\ parent \notin Tree!Transceivers
        /\ at \in DOMAIN tree /\ parent \in DOMAIN tree => tree[at] = parent
        /\ new \in Ports /\ new \notin DOMAIN tree /\ new \notin DOMAIN items
        /\ Grounded(tree)
        /\ DOMAIN items' = (DOMAIN items \ {at}) \cup {new} /\ items'[new] = items[at]
    BY DEF Renaming
  <1>4. \/ /\ parent \in DOMAIN tree
           /\ DOMAIN tree' = (DOMAIN tree \ {at}) \cup {new} /\ tree'[new] = parent
           /\ \A n \in DOMAIN tree : n # at => tree'[n] = IF tree[n] = at THEN new ELSE tree[n]
           /\ \A c \in DOMAIN items : c # at => items'[c] = items[c]
        \/ /\ parent \notin DOMAIN tree /\ tree' = tree
           /\ \A c \in DOMAIN items : c # at /\ c \notin children => items'[c] = items[c]
           /\ children \subseteq DOMAIN items
           /\ \A c \in children : c # at /\ items'[c].parent = new
    BY DEF Renaming
  <1>5. \A c \in DOMAIN tree : tree[c] = at <=> c \in children
    BY DEF Tree!ChildrenIn
  <1>6. \A c \in children : c \in DOMAIN tree /\ tree[c] = at /\ c \in Tree!Entities \ Tree!Transceivers /\ Tree!In(c) = {}
    <2> TAKE c \in children
    <2>1. c \in DOMAIN tree /\ tree[c] = at
      BY DEF Tree!ChildrenIn
    <2>2. c \in Tree!Entities /\ given[c].parent = at
      BY <1>3, <2>1 DEF Cleaning, InTransceivers
    <2>3. c \in Tree!In(at)
      BY <2>2 DEF Tree!In
    <2> QED BY <1>3, <2>1, <2>2, <2>3 DEF AllPlain, Tree!Plain
  <1>7. parent \in Tree!Entities \cup {Tree!Root} /\ parent # at /\ new # at
    <2>1. parent \notin Ports \cup {None} /\ parent # Missing
      BY <1>1, <1>2, <1>3 DEF WithPorts, WithParents
    <2> QED BY <1>2, <1>3, <2>1 DEF EntityRow
  <1>8. parent \in Tree!Entities => /\ at \in DOMAIN tree /\ parent \in DOMAIN tree /\ parent \in DOMAIN items
    <2> SUFFICES ASSUME parent \in Tree!Entities
                 PROVE  at \in DOMAIN tree /\ parent \in DOMAIN tree /\ parent \in DOMAIN items
      OBVIOUS
    <2>1. at \in DOMAIN tree /\ tree[at] = parent /\ parent \in DOMAIN items
      BY <1>1, <1>2 DEF WithParents
    <2> QED BY <1>2, <1>3, <2>1, GroundedUp
  <1>9. Tree!Root \notin DOMAIN tree
    BY <1>2, Apart DEF Cleaning, Names
  <1> HIDE DEF children
  <1>10. ASSUME NEW x \in DOMAIN items', x # new
         PROVE  /\ x \in DOMAIN items /\ x # at
                /\ \/ items'[x] = items[x] /\ (parent \in DOMAIN tree \/ x \notin children)
                   \/ items'[x].parent = new /\ x \in children /\ parent \notin DOMAIN tree
    BY <1>3, <1>4, <1>10
  <1>11. ASSUME NEW x \in DOMAIN items'
         PROVE  /\ items'[x].parent # Missing
                /\ items'[x].parent \in Tree!Entities =>
                      x \in DOMAIN tree' /\ tree'[x] = items'[x].parent /\ items'[x].parent \in DOMAIN items'
    <2>1. CASE x = new
      BY <1>2, <1>3, <1>4, <1>7, <1>8, <2>1, Apart
    <2>2. CASE x # new /\ items'[x].parent = new
      BY <1>2, <1>3, <2>2
    <2>3. CASE x # new /\ items'[x].parent # new
      <3>1. x \in DOMAIN items /\ x # at /\ items'[x] = items[x]
        BY <1>10, <2>3
      <3>2. items[x].parent # Missing
        BY <1>1, <3>1 DEF WithParents
      <3>3. ASSUME items[x].parent \in Tree!Entities
            PROVE  x \in DOMAIN tree' /\ tree'[x] = items[x].parent /\ items[x].parent \in DOMAIN items'
        <4>1. x \in DOMAIN tree /\ tree[x] = items[x].parent /\ items[x].parent \in DOMAIN items
          BY <1>1, <3>1, <3>3 DEF WithParents
        <4>2. items[x].parent # at
          BY <1>1, <1>3, <3>1 DEF Cleaning, InTransceivers
        <4> QED BY <1>3, <1>4, <3>1, <4>1, <4>2
      <3> QED BY <3>1, <3>2, <3>3
    <2> QED BY <2>1, <2>2, <2>3
  <1>12. WithParents'
    BY <1>2, <1>11 DEF WithParents
  <1>13. ASSUME NEW x \in DOMAIN items', items'[x].parent \in Ports \cup {None}
         PROVE  /\ x \in Tree!Entities \ Tree!Transceivers /\ Tree!In(x) = {}
                /\ items'[x].parent \in Ports =>
                      \/ items'[x].parent \in DOMAIN items'
                      \/ /\ x \in DOMAIN tree' /\ tree'[x] \in DOMAIN remap /\ tree'[x] >= at'
                         /\ remap[tree'[x]] = items'[x].parent
    <2>1. x # new
      BY <1>2, <1>3, <1>7, <1>13, Apart
    <2>2. CASE items'[x].parent = new /\ x \in children
      BY <1>3, <1>6, <2>2
    <2>3. CASE items'[x] = items[x]
      <3>1. x \in DOMAIN items /\ x # at /\ x \in Tree!Entities \ Tree!Transceivers /\ Tree!In(x) = {}
        BY <1>1, <1>10, <1>13, <2>1, <2>3 DEF WithPorts
      <3>2. ASSUME items[x].parent \in Ports, items[x].parent \notin DOMAIN items'
            PROVE  /\ x \in DOMAIN tree' /\ tree'[x] \in DOMAIN remap /\ tree'[x] >= at'
                   /\ remap[tree'[x]] = items'[x].parent
        <4>1. items[x].parent \notin DOMAIN items /\ items[x].parent # new
          BY <1>2, <1>3, <3>2
        <4>2. /\ x \in DOMAIN tree /\ tree[x] \in DOMAIN remap /\ tree[x] >= at
              /\ remap[tree[x]] = items[x].parent
          BY <1>1, <3>1, <3>2, <4>1 DEF WithPorts
        <4>3. tree[x] # at /\ tree[x] \in Nat
          BY <1>2, <4>1, <4>2 DEF Cleaning, Remapped
        <4> QED BY <1>2, <1>4, <2>3, <3>1, <4>2, <4>3
      <3> QED BY <2>3, <3>1, <3>2
    <2> QED BY <1>10, <2>1, <2>2, <2>3
  <1>14. WithPorts'
    BY <1>2, <1>13 DEF WithPorts
  <1>15. ASSUME NEW x \in DOMAIN tree' \ DOMAIN items', tree'[x] # Tree!Top, NEW n \in DOMAIN tree',
                tree'[n] = x
         PROVE  FALSE
    <2>1. CASE parent \in DOMAIN tree
      <3>1. parent \in DOMAIN items
        BY <1>7, <1>8, <1>9, <2>1
      <3>2. x \in DOMAIN tree \ DOMAIN items /\ x # new /\ x # at
        BY <1>3, <1>4, <1>15, <2>1
      <3>3. n # new
        BY <1>3, <1>4, <1>15, <2>1, <3>1, <3>2
      <3>4. n \in DOMAIN tree /\ tree[n] = x
        BY <1>3, <1>4, <1>15, <2>1, <3>2, <3>3
      <3>5. tree[x] # Tree!Top
        BY <1>2, <1>4, <1>15, <2>1, <3>2
      <3> QED BY <1>1, <3>2, <3>4, <3>5 DEF Remains, Tree!ChildrenIn
    <2>2. CASE parent \notin DOMAIN tree
      <3>1. tree' = tree
        BY <1>4, <2>2
      <3>2. CASE x = at
        <4>1. parent = Tree!Root
          BY <1>7, <1>8, <2>2
        <4>2. tree[at] = Tree!Top
          BY <1>2, <1>15, <3>1, <3>2, <4>1 DEF Cleaning, AtRoot
        <4> QED BY <1>15, <3>1, <3>2, <4>2
      <3>3. CASE x # at
        BY <1>1, <1>3, <1>15, <3>1, <3>3 DEF Remains, Tree!ChildrenIn
      <3> QED BY <3>2, <3>3
    <2> QED BY <2>1, <2>2
  <1>16. Remains'
    BY <1>15 DEF Remains, Tree!ChildrenIn
  <1> QED BY <1>12, <1>14, <1>16

-----------------------------------------------------------------------------
(* All steps of the second loop, and the end *)

\* A step of the second loop that does not fail.
LEMMA CleanInv ==
    ASSUME Tree!EntityAssumption, Given, Tree!PortsApart, Cleaning, Tree!Clean, stage = "cleaning",
           stage' = stage
    PROVE  Cleaning'
  <1>1. /\ at <= Last /\ at' = at + 1 /\ given' = given /\ strays' = strays /\ remap' = remap
        /\ chassis' = chassis
        /\ ~Tree!Useless(at) /\ at \in DOMAIN remap => Tree!Told(at) \subseteq DOMAIN items
        /\ \/ Tree!Useless(at) /\ Tree!Remove(at)
           \/ ~Tree!Useless(at) /\ at \in DOMAIN remap /\ Tree!Rename(at, remap[at])
           \/ at \notin DOMAIN remap /\ items' = items /\ tree' = tree
    BY DEF Tree!Clean, Tree!Lost
  <1>2. Beside
    BY <1>1, CleanBeside
  <1>3. Cleaned' /\ TreeSound' => Cleaning'
    BY DEF Cleaned, Cleaning
  <1>4. CASE Tree!Useless(at) /\ Tree!Remove(at)
    <2>1. Removal
      BY <1>2, <1>4, RemoveIs
    <2>2. Cleaned' /\ TreeSound'
      BY <1>2, <1>4, <2>1, RemovalInv, RemovalSound
    <2> QED BY <1>3, <2>2
  <1>5. CASE ~Tree!Useless(at) /\ at \in DOMAIN remap /\ Tree!Rename(at, remap[at])
    <2>1. Renaming
      BY <1>1, <1>2, <1>5, RenameIs
    <2>2. Cleaned' /\ TreeSound'
      BY <2>1, RenamingInv, RenamingSound
    <2> QED BY <1>3, <2>2
  <1>6. CASE at \notin DOMAIN remap /\ items' = items /\ tree' = tree
    <2>1. /\ at' \in 1 .. Last + 1 /\ \A i \in Tree!Entities : i < at' <=> (i < at \/ i = at)
          /\ Tree!Transceivers' = Tree!Transceivers /\ (AllPlain' <=> AllPlain)
          /\ \A t : Tree!In(t)' = Tree!In(t)
          /\ \A t, p : Describes(t, p)' <=> Describes(t, p)
          /\ Tree!Entities' = Tree!Entities /\ EntityRow' = EntityRow
          /\ \A i \in Tree!Entities : i \in Nat
          /\ at \in DOMAIN items /\ at \in Tree!Entities
      BY <1>2, Apart DEF Beside, Tree!Entities, EntityRow
    <2>2. /\ Reported' = Reported /\ Elsewhere' = Elsewhere
          /\ \A t : Tree!ChildrenIn(t, tree)' = Tree!ChildrenIn(t, tree)
      BY <1>6, <2>1 DEF Reported, Elsewhere, Tree!ChildrenIn
    <2>3. (at \in 1 .. Last + 1)' /\ Remapped(Last + 1)' /\ ChassisOnly' /\ Grounded(tree)'
      BY <1>1, <1>6, <2>1 DEF Cleaning, Remapped, ChassisOnly, Grounded
    <2>4. Left'
      BY <1>1, <1>6, <2>1 DEF Cleaning, Left
    <2>5. Names'
      <3>1. \A t \in DOMAIN remap : t \in Tree!Entities
        BY DEF Cleaning, Remapped, Tree!Transceivers
      <3> QED BY <1>1, <1>6, <2>1, <3>1 DEF Cleaning, Names
    <2>6. InPlace' /\ OutOfPlace' /\ InTransceivers'
      BY <1>1, <1>6, <2>1, <2>2 DEF Cleaning, InPlace, OutOfPlace, InTransceivers
    <2>7. BelowPorts' /\ AtRoot' /\ Leaves'
      BY <1>1, <1>6, <2>1, <2>2 DEF Cleaning, BelowPorts, AtRoot, Leaves
    <2>8. ASSUME AllPlain PROVE WithParents' /\ WithPorts' /\ Remains'
      <3>1. WithParents /\ WithPorts /\ Remains
        BY <2>8 DEF Cleaning, TreeSound
      <3>2. WithParents' /\ Remains'
        BY <1>6, <2>1, <2>2, <3>1 DEF WithParents, Remains
      <3>3. \A t \in DOMAIN remap : t >= at => t >= at'
        <4>1. \A t \in DOMAIN remap : t \in Nat /\ t # at
          BY <1>6, <2>1 DEF Cleaning, Remapped, Tree!Transceivers
        <4> QED BY <1>1, <2>1, <4>1
      <3>4. WithPorts'
        BY <1>1, <1>6, <2>1, <3>1, <3>3 DEF WithPorts
      <3> QED BY <3>2, <3>4
    <2>9. TreeSound'
      BY <2>1, <2>8 DEF TreeSound
    <2> QED BY <2>3, <2>4, <2>5, <2>6, <2>7, <2>9 DEF Cleaning
  <1> QED BY <1>1, <1>4, <1>5, <1>6

\* One that fails: a child of a transceiver was removed or renamed before it.
LEMMA CleanLost ==
    ASSUME Tree!EntityAssumption, Given, Cleaning, Tree!Clean, stage' # stage
    PROVE  stage' = "lost" /\ Tree!LostForAReason'
  <1>1. Tree!Lost /\ at \in DOMAIN remap /\ ~(Tree!Told(at) \subseteq DOMAIN items)
    BY DEF Tree!Clean
  <1>2. given' = given /\ stage' = "lost"
    BY <1>1 DEF Tree!Lost
  <1>3. PICK c \in Tree!Told(at) : c \notin DOMAIN items
    BY <1>1
  <1>4. c \in DOMAIN tree /\ tree[c] = at /\ at \in Tree!Transceivers
    BY <1>1, <1>3 DEF Tree!Told, Tree!ChildrenIn, Cleaning, Remapped
  <1>5. c \in Tree!Entities /\ c \in Tree!In(at)
    BY <1>4 DEF Cleaning, InTransceivers, Tree!In
  <1>6. c < at /\ (c \in Tree!Transceivers \/ (~given[c].serial /\ given[c].type # "fan"))
    BY <1>3, <1>5 DEF Cleaning, Left, Remapped
  <1>7. Tree!Transceivers' = Tree!Transceivers /\ \A t : Tree!In(t)' = Tree!In(t)
    BY <1>2 DEF Tree!Transceivers, Tree!In
  <1> QED BY <1>2, <1>4, <1>5, <1>6, <1>7 DEF Tree!LostForAReason

\* The end fails if a chassis, or what hangs from it, was removed.
LEMMA ChassisLost ==
    ASSUME Tree!EntityAssumption, Given, Cleaning, Tree!Chassis, stage' # "reported"
    PROVE  stage' = "lost" /\ Tree!LostForAReason'
  <1>1. Tree!Lost /\ \E c \in chassis : Tree!ChassisMissing(c)
    BY DEF Tree!Chassis
  <1>2. given' = given /\ stage' = "lost"
    BY <1>1 DEF Tree!Lost
  <1>3. PICK c \in chassis : Tree!ChassisMissing(c)
    BY <1>1
  <1>4. c \in Tree!Entities /\ given[c].type = "chassis" /\ c \notin Tree!Transceivers
    BY DEF Cleaning, ChassisOnly, Tree!Transceivers
  <1>5. Tree!ChildrenIn(c, tree) \subseteq DOMAIN items
    <2> SUFFICES ASSUME NEW x \in DOMAIN tree \ DOMAIN items, tree[x] = c PROVE FALSE
      BY DEF Tree!ChildrenIn
    <2>1. c \in Elsewhere
      BY DEF Cleaning, OutOfPlace
    <2> QED BY <1>4, <2>1, Apart DEF Elsewhere
  <1>6. c \notin DOMAIN items
    BY <1>3, <1>5 DEF Tree!ChassisMissing
  <1>7. ~given[c].serial /\ given[c].parent # Tree!Root
    BY <1>4, <1>6 DEF Cleaning, Left, Remapped
  <1> QED BY <1>2, <1>4, <1>7 DEF Tree!LostForAReason

\* And else all that is to be reported is.
LEMMA ChassisInv ==
    ASSUME Tree!EntityAssumption, Given, Cleaning, Tree!Chassis, stage' = "reported"
    PROVE  Tree!HardwareKept' /\ Tree!ParentsReported'
  <1>1. /\ items' = Tree!Revised /\ given' = given /\ tree' = tree /\ strays' = strays
        /\ remap' = remap
        /\ at > Last
    BY DEF Tree!Chassis, Tree!Lost
  <1>2. at = Last + 1
    BY <1>1, Apart DEF Cleaning
  <1>3. DOMAIN items' = DOMAIN items /\ \A i \in DOMAIN items : items'[i].parent = items[i].parent
    <2>1. \A i \in DOMAIN items : items[i] \in EntityRow
      BY DEF Cleaning, Left
    <2> QED BY <1>1, <2>1 DEF Tree!Revised, EntityRow
  <1>4. Tree!HardwareKept'
    BY <1>1, <1>3 DEF Tree!HardwareKept, Cleaning, Left, Tree!Entities
  <1>5. ASSUME AllPlain, NEW i \in DOMAIN items
        PROVE  items[i].parent \in DOMAIN items \cup {Tree!Root, None}
    <2>1. WithParents /\ WithPorts
      BY <1>5 DEF Cleaning, TreeSound
    <2>2. items[i].parent \in Tree!Entities \cup Ports \cup {Tree!Root, Missing, None}
      BY DEF Cleaning, Left, EntityRow
    <2>3. items[i].parent \in Tree!Entities => items[i].parent \in DOMAIN items
      BY <2>1 DEF WithParents
    <2>4. items[i].parent \in Ports => items[i].parent \in DOMAIN items
      <3> SUFFICES ASSUME tree[i] \in DOMAIN remap, tree[i] >= at PROVE FALSE
        BY <2>1 DEF WithPorts
      <3>1. tree[i] < at /\ tree[i] \in Nat
        BY <1>2, Apart DEF Cleaning, Remapped, Tree!Transceivers
      <3> QED BY <1>2, <3>1, Apart
    <2> QED BY <2>1, <2>2, <2>3, <2>4 DEF WithParents
  <1>6. (\A t \in Tree!Transceivers : Tree!Plain(t))' <=> (\A t \in Tree!Transceivers : Tree!Plain(t))
    BY <1>1 DEF Tree!Transceivers, Tree!Plain, Tree!In
  <1>7. Tree!ParentsReported'
    BY <1>1, <1>3, <1>5, <1>6 DEF Tree!ParentsReported, AllPlain
  <1> QED BY <1>4, <1>7

-----------------------------------------------------------------------------
(* The theorem *)

\* Every step keeps the invariant.
LEMMA TreeStep == TreeInv /\ [Tree!Next]_(Tree!vars) => TreeInv'
  <1> SUFFICES ASSUME TreeInv, [Tree!Next]_(Tree!vars) PROVE TreeInv'
    OBVIOUS
  <1>0. Tree!EntityAssumption
    BY PollingAssumption DEF PollingAssumption
  <1>1. ASSUME UNCHANGED Tree!vars PROVE TreeInv'
    <2>1. /\ given' = given /\ items' = items /\ tree' = tree /\ strays' = strays
          /\ rounds' = rounds
          /\ unseen' = unseen /\ at' = at /\ remap' = remap /\ chassis' = chassis /\ stage' = stage
      BY <1>1 DEF Tree!vars
    <2>2. /\ Tree!Transceivers' = Tree!Transceivers /\ Tree!Rooted' = Tree!Rooted
          /\ Tree!Entities' = Tree!Entities
          /\ Tree!ReachesRoot(0)' = Tree!ReachesRoot(0)
          /\ Tree!ReachesRoot(1)' = Tree!ReachesRoot(1)
          /\ Tree!ReachesRoot(2)' = Tree!ReachesRoot(2) /\ Tree!Reached({})' = Tree!Reached({})
          /\ \A t : Tree!In(t)' = Tree!In(t) /\ (Tree!Plain(t)' <=> Tree!Plain(t))
          /\ \A t, p : Describes(t, p)' <=> Describes(t, p)
          /\ EntityRow' = EntityRow /\ Tree!StrayTops' = Tree!StrayTops /\ Reported' = Reported
          /\ Elsewhere' = Elsewhere /\ \A t : Tree!ChildrenIn(t, tree)' = Tree!ChildrenIn(t, tree)
          /\ Grounded(tree)' = Grounded(tree)
      BY <2>1 DEF Tree!Transceivers, Tree!Rooted, Tree!Entities, Tree!ReachesRoot, Tree!Reached,
         Tree!In, Tree!Plain, Describes, EntityRow,
                  Tree!StrayTops, Reported, Elsewhere, Tree!ChildrenIn, Grounded
    <2>3. (Given <=> Given') /\ (Tree!PortsApart <=> Tree!PortsApart')
      BY <2>1, <2>2 DEF Given, Tree!PortsApart
    <2>4. (Hung <=> Hung') /\ (Strayed <=> Strayed') /\ (Nothing <=> Nothing')
      BY <2>1, <2>2 DEF Hung, Strayed, Nothing
    <2>5. Placing <=> Placing'
      BY <2>1, <2>2, <2>4 DEF Placing
    <2>6. Moving <=> Moving'
      BY <2>1, <2>2, <2>4 DEF Moving, After
    <2>7. (Remapped(at) <=> Remapped(at)') /\ (Remapped(Last + 1) <=> Remapped(Last + 1)')
          /\ (ChassisOnly <=> ChassisOnly')
      BY <2>1, <2>2 DEF Remapped, ChassisOnly
    <2>8. Scanning <=> Scanning'
      BY <2>1, <2>2, <2>4, <2>7 DEF Scanning
    <2>9. (Left <=> Left') /\ (Names <=> Names') /\ (InPlace <=> InPlace') /\ (OutOfPlace <=> OutOfPlace')
      BY <2>1, <2>2 DEF Left, Names, InPlace, OutOfPlace
    <2>10. (InTransceivers <=> InTransceivers') /\ (BelowPorts <=> BelowPorts') /\ (AtRoot <=> AtRoot')
           /\ (Leaves <=> Leaves')
      BY <2>1, <2>2 DEF InTransceivers, BelowPorts, AtRoot, Leaves
    <2>11. TreeSound <=> TreeSound'
      BY <2>1, <2>2 DEF TreeSound, AllPlain, WithParents, WithPorts, Remains
    <2>12. Cleaning <=> Cleaning'
      BY <2>1, <2>2, <2>7, <2>9, <2>10, <2>11 DEF Cleaning
    <2>13. (Tree!HardwareKept <=> Tree!HardwareKept') /\ (Tree!ParentsReported <=> Tree!ParentsReported')
           /\ (Tree!LostForAReason <=> Tree!LostForAReason')
      BY <2>1, <2>2 DEF Tree!HardwareKept, Tree!ParentsReported, Tree!LostForAReason
    <2> QED BY <2>1, <2>3, <2>5, <2>6, <2>8, <2>12, <2>13 DEF TreeInv
  <1>2. Given' /\ Tree!PortsApart'
    <2>1. given' = given
      BY DEF Tree!Next, Tree!Place, Tree!Placed, Tree!Round, Tree!Move, Tree!TreeBuilt, Tree!Scan,
         Tree!Scanned, Tree!Clean, Tree!Chassis, Tree!Lost, Tree!Finished, Tree!vars
    <2> QED BY <2>1 DEF TreeInv, Given, Tree!PortsApart, Tree!Transceivers, Tree!In, Tree!Entities
  <1>3. Given /\ Tree!PortsApart
    BY DEF TreeInv
  <1>4. ASSUME Tree!Place PROVE TreeInv'
    <2>1. stage = "placing" /\ stage' = "placing"
      BY <1>4 DEF Tree!Place
    <2>2. Placing'
      BY <1>0, <1>3, <1>4, <2>1, PlaceInv DEF TreeInv
    <2> QED BY <1>2, <2>1, <2>2 DEF TreeInv
  <1>5. ASSUME Tree!Placed PROVE TreeInv'
    <2>1. stage = "placing" /\ stage' = "moving"
      BY <1>5 DEF Tree!Placed
    <2>2. Moving'
      BY <1>0, <1>3, <1>5, <2>1, PlacedInv DEF TreeInv
    <2> QED BY <1>2, <2>1, <2>2 DEF TreeInv
  <1>6. ASSUME Tree!Round PROVE TreeInv'
    <2>1. stage = "moving" /\ stage' = "moving"
      BY <1>6 DEF Tree!Round
    <2>2. Moving'
      BY <1>0, <1>3, <1>6, <2>1, RoundInv DEF TreeInv
    <2> QED BY <1>2, <2>1, <2>2 DEF TreeInv
  <1>7. ASSUME Tree!Move PROVE TreeInv'
    <2>1. stage = "moving" /\ stage' = "moving"
      BY <1>7 DEF Tree!Move
    <2>2. Moving'
      BY <1>0, <1>3, <1>7, <2>1, MoveInv DEF TreeInv
    <2> QED BY <1>2, <2>1, <2>2 DEF TreeInv
  <1>8. ASSUME Tree!TreeBuilt PROVE TreeInv'
    <2>1. stage = "moving" /\ stage' = "scanning"
      BY <1>8 DEF Tree!TreeBuilt
    <2>2. Scanning'
      BY <1>0, <1>3, <1>8, <2>1, TreeBuiltInv DEF TreeInv
    <2> QED BY <1>2, <2>1, <2>2 DEF TreeInv
  <1>9. ASSUME Tree!Scan PROVE TreeInv'
    <2>1. stage = "scanning" /\ Scanning
      BY <1>9 DEF Tree!Scan, TreeInv
    <2>2. CASE stage' = stage
      <3>1. Scanning'
        BY <1>0, <1>3, <1>9, <2>1, <2>2, ScanInv
      <3> QED BY <1>2, <2>1, <2>2, <3>1 DEF TreeInv
    <2>3. CASE stage' # stage
      <3>1. stage' = "lost" /\ Tree!LostForAReason'
        BY <1>0, <1>3, <1>9, <2>1, <2>3, ScanLost
      <3> QED BY <1>2, <3>1 DEF TreeInv
    <2> QED BY <2>2, <2>3
  <1>10. ASSUME Tree!Scanned PROVE TreeInv'
    <2>1. stage = "scanning" /\ stage' = "cleaning"
      BY <1>10 DEF Tree!Scanned
    <2>2. Cleaning'
      BY <1>0, <1>3, <1>10, <2>1, ScannedInv DEF TreeInv
    <2> QED BY <1>2, <2>1, <2>2 DEF TreeInv
  <1>11. ASSUME Tree!Clean PROVE TreeInv'
    <2>1. stage = "cleaning" /\ Cleaning
      BY <1>11 DEF Tree!Clean, TreeInv
    <2>2. CASE stage' = stage
      <3>1. Cleaning'
        BY <1>0, <1>3, <1>11, <2>1, <2>2, CleanInv
      <3> QED BY <1>2, <2>1, <2>2, <3>1 DEF TreeInv
    <2>3. CASE stage' # stage
      <3>1. stage' = "lost" /\ Tree!LostForAReason'
        BY <1>0, <1>3, <1>11, <2>1, <2>3, CleanLost
      <3> QED BY <1>2, <3>1 DEF TreeInv
    <2> QED BY <2>2, <2>3
  <1>12. ASSUME Tree!Chassis PROVE TreeInv'
    <2>1. stage = "cleaning" /\ Cleaning
      BY <1>12 DEF Tree!Chassis, TreeInv
    <2>2. CASE stage' = "reported"
      <3>1. Tree!HardwareKept' /\ Tree!ParentsReported'
        BY <1>0, <1>3, <1>12, <2>1, <2>2, ChassisInv
      <3> QED BY <1>2, <2>2, <3>1 DEF TreeInv
    <2>3. CASE stage' # "reported"
      <3>1. stage' = "lost" /\ Tree!LostForAReason'
        BY <1>0, <1>3, <1>12, <2>1, <2>3, ChassisLost
      <3> QED BY <1>2, <3>1 DEF TreeInv
    <2> QED BY <2>2, <2>3
  <1> QED BY <1>1, <1>4, <1>5, <1>6, <1>7, <1>8, <1>9, <1>10, <1>11, <1>12
             DEF Tree!Next, Tree!Finished

\* The invariant is enough.
LEMMA TreeInvReports == TreeInv => TreeReported
  BY DEF TreeInv, TreeReported, Tree!TreeReported, Tree!TreeComplete, Scanning,
     Tree!ParentsReported, Tree!HardwareKept, Tree!LostForAReason

(* For every number of entities, whatever their parents and in whatever order the   *)
(* strays are taken: build_tree hangs each entity that reaches the root over links   *)
(* of which no more than two are to later ones, and no other than those that reach   *)
(* it; and when post_normalise_entities has removed what is of no use and renamed    *)
(* transceivers, the hardware is all there, under its parents if transceivers are     *)
(* plain and no entity strayed, unless the group is lost for one of three reasons.    *)
THEOREM TreeAlwaysReported == Tree!Spec => []TreeReported
  <1>1. Tree!Init => TreeInv
    BY PollingAssumption, TreeInit DEF PollingAssumption
  <1> QED BY <1>1, TreeStep, TreeInvReports, PTL DEF Tree!Spec
===============================================================================
