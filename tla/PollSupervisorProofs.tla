------------------------- MODULE PollSupervisorProofs -------------------------
(***************************************************************************)
(* What holds of PollSupervisor for any number of keys, supervisors,       *)
(* workers and drivers, and any throttle times; and what holds of it when  *)
(* there is only one supervisor.                                           *)
(***************************************************************************)
EXTENDS PollSupervisor, TLAPS

-----------------------------------------------------------------------------
(* Types *)

\* What validate_task commits is a state: the clock arithmetic and the
\* forced driver stay within the record's types.
LEMMA ValidatedType ==
    ASSUME NEW st \in State, NEW k \in Keys, NEW t \in Nat,
           NEW delay \in ReprobeDelays
    PROVE  Validated(st, k, t, delay) \in State
<1> DEFINE r == IF Throttled(st, t) THEN st.recvd ELSE t
           u == IF ~Rejected(st, t) /\ Overdue(st, t) THEN None ELSE st.started
           n == IF ProbeDue(st, t) THEN t + delay ELSE st.next_probe
           f == IF k \in DOMAIN ForcedDrivers THEN ForcedDrivers[k]
                ELSE st.force_driver
<1>1. t + delay \in Int /\ t \in Int
    BY ConstantsAssumption
<1>2. k \in DOMAIN ForcedDrivers => ForcedDrivers[k] \in Drivers
    BY ConstantsAssumption
<1>3. /\ r \in Maybe(Time) /\ u \in Maybe(Time) /\ n \in Maybe(Time)
      /\ f \in Maybe(Drivers)
    BY <1>1, <1>2 DEF State, Maybe, Time
<1>4. Validated(st, k, t, delay) =
        [st EXCEPT !.recvd = r, !.started = u, !.next_probe = n,
                   !.force_driver = f]
    BY DEF Validated
<1> HIDE DEF r, u, n, f
<1> QED
    BY Zenon, <1>3, <1>4 DEF State

\* What process_log commits is a state.
LEMMA LoggedType ==
    ASSUME NEW st \in State, NEW m \in Message, NEW t \in Nat
    PROVE  Logged(st, m, t) \in State
<1>1. t \in Time
    BY DEF Time
<1>2. m.driver \in Maybe(Drivers)
    BY DEF Message
<1> QED
    BY Zenon, <1>1, <1>2 DEF Logged, State, Maybe

\* An accepted request that need not be probed names a driver: validate_task
\* never queues a job for the driver None.
LEMMA KnownJobType ==
    ASSUME NEW st \in State, NEW k \in Keys, NEW t \in Nat,
           NEW delay \in ReprobeDelays,
           ~Reprobe(st, Validated(st, k, t, delay), t)
    PROVE  KnownJob(k, Validated(st, k, t, delay)) \in Job
<1> DEFINE st2 == Validated(st, k, t, delay)
<1>1. st2 \in State
    BY ValidatedType
<1>2. st2.last_successful_driver = st.last_successful_driver
    BY DEF Validated, State
<1>3. st2.force_driver # None \/ st2.last_successful_driver # None
    BY <1>2 DEF Reprobe
<1>4. (IF st2.force_driver # None THEN st2.force_driver
       ELSE st2.last_successful_driver) \in Drivers
    BY <1>1, <1>3 DEF State, Maybe
<1> HIDE DEF st2
<1>5. KnownJob(k, st2) \in Job
    BY <1>4 DEF KnownJob, Job
<1> QED
    BY <1>5 DEF st2

\* A probe lists the registered drivers.
LEMMA ProbeJobType ==
    ASSUME NEW k \in Keys, k \in DOMAIN Priorities
    PROVE  ProbeJob(k) \in Job
BY ConstantsAssumption DEF ProbeJob, Job

\* The messages the workers and the scheduler send.
LEMMA MessageTypes ==
    ASSUME NEW k \in Keys
    PROVE  /\ Request(k) \in Message
           /\ \A st \in StartStates : Notice(k, st) \in Message
           /\ Notice(k, "COMPLETE") \in Message
           /\ \A d \in Drivers : Success(k, d) \in Message
           /\ \A e \in {NoDriver, OtherError} : Failure(k, e) \in Message
BY DEF Request, Notice, Success, Failure, Message, Maybe

\* A new cache entry is well typed.
LEMMA InitialStateType == initial_state \in State
BY DEF initial_state, State, Maybe

\* Updating one key's history keeps every history typed.
LEMMA HistoryType ==
    ASSUME NEW hist \in [Keys -> History], NEW k \in Keys
    PROVE  /\ \A t \in Maybe(Int) :
                /\ [hist EXCEPT ![k].dispatched = t] \in [Keys -> History]
                /\ [hist EXCEPT ![k].finished = t] \in [Keys -> History]
           /\ \A r \in Maybe(Drivers) :
                [hist EXCEPT ![k].report = r] \in [Keys -> History]
           /\ \A D \in SUBSET Drivers :
                [hist EXCEPT ![k].ordered = @ \cup D] \in [Keys -> History]
           /\ \A r \in Maybe(Drivers), D \in SUBSET Drivers :
                [hist EXCEPT ![k].report = r, ![k].succeeded = @ \cup D]
                    \in [Keys -> History]
<1>1. hist[k] \in History
    OBVIOUS
<1>2. ASSUME NEW t \in Maybe(Int)
      PROVE  /\ [hist EXCEPT ![k].dispatched = t] \in [Keys -> History]
             /\ [hist EXCEPT ![k].finished = t] \in [Keys -> History]
    <2>1. /\ [hist[k] EXCEPT !.dispatched = t] \in History
          /\ [hist[k] EXCEPT !.finished = t] \in History
        BY <1>1 DEF History, Time
    <2> QED
        BY <2>1
<1>3. ASSUME NEW r \in Maybe(Drivers)
      PROVE  [hist EXCEPT ![k].report = r] \in [Keys -> History]
    <2>1. [hist[k] EXCEPT !.report = r] \in History
        BY <1>1 DEF History
    <2> QED
        BY <2>1
<1>4. ASSUME NEW D \in SUBSET Drivers
      PROVE  [hist EXCEPT ![k].ordered = @ \cup D] \in [Keys -> History]
    <2>1. [hist[k] EXCEPT !.ordered = @ \cup D] \in History
        BY <1>1 DEF History
    <2> QED
        BY <2>1
<1>5. ASSUME NEW r \in Maybe(Drivers), NEW D \in SUBSET Drivers
      PROVE  [hist EXCEPT ![k].report = r, ![k].succeeded = @ \cup D]
                \in [Keys -> History]
    <2> DEFINE h == [hist EXCEPT ![k].report = r]
    <2>1. h \in [Keys -> History]
        BY <1>3
    <2> HIDE DEF h
    <2>2. [h[k] EXCEPT !.succeeded = @ \cup D] \in History
        BY <2>1 DEF History
    <2>3. [h EXCEPT ![k].succeeded = @ \cup D] \in [Keys -> History]
        BY <2>1, <2>2
    <2> QED
        BY <2>3 DEF h
<1> QED
    BY Zenon, <1>2, <1>3, <1>4, <1>5

\* The system starts well typed.
LEMMA TypeInit == Init => TypeOK
BY DEF Init, TypeOK, History, Maybe

\* One step per action: a step of any process keeps every variable typed.
LEMMA TypeStep == TypeOK /\ [Next]_vars => TypeOK'
<1> SUFFICES ASSUME TypeOK, [Next]_vars
             PROVE  TypeOK'
    OBVIOUS
<1>1. ASSUME NEW s \in Supervisors, Take(s)
      PROVE  TypeOK'
    <2>1. Head(workQueue) \in Message /\ Tail(workQueue) \in Seq(Message)
        BY <1>1 DEF Take, TypeOK
    <2> QED
        BY <1>1, <2>1 DEF Take, TypeOK, Maybe
<1>2. ASSUME NEW s \in Supervisors, GetState(s)
      PROVE  TypeOK'
    <2>1. msg[s].key \in Keys
        BY <1>2 DEF GetState, TypeOK, Message
    <2>2. (IF cache[msg[s].key] = None THEN initial_state
           ELSE cache[msg[s].key]) \in State
        BY <2>1, InitialStateType DEF TypeOK, Maybe
    <2> QED
        BY <1>2, <2>2 DEF GetState, TypeOK, Maybe
<1>3. ASSUME NEW s \in Supervisors, DropLog(s)
      PROVE  TypeOK'
    BY <1>3 DEF DropLog, Idle, TypeOK, Maybe
<1>4. ASSUME NEW s \in Supervisors, ValidateTask(s)
      PROVE  TypeOK'
    <2> DEFINE k == msg[s].key
    <2>1. k \in Keys /\ local[s] \in State /\ now[s] \in Nat
        BY <1>4 DEF ValidateTask, TypeOK, Message
    <2>2. PICK delay \in ReprobeDelays :
            LET st2 == Validated(local[s], k, now[s], delay)
                job == IF Reprobe(local[s], st2, now[s]) THEN ProbeJob(k)
                       ELSE KnownJob(k, st2)
            IN  /\ Commit(k, st2)
                /\ IF \/ Rejected(local[s], now[s])
                      \/ Reprobe(local[s], st2, now[s]) /\ k \notin DOMAIN Priorities
                   THEN UNCHANGED <<pollQueue, history>>
                   ELSE /\ pollQueue' = Append(pollQueue, job)
                        /\ history' = [history EXCEPT ![k].dispatched = now[s]]
        BY <1>4 DEF ValidateTask
    <2> DEFINE st2 == Validated(local[s], k, now[s], delay)
               job == IF Reprobe(local[s], st2, now[s]) THEN ProbeJob(k)
                      ELSE KnownJob(k, st2)
    <2>3. st2 \in State
        BY <2>1, ValidatedType
    <2>4. cache' \in [Keys -> Maybe(State)]
        <3> HIDE DEF st2
        <3> QED
            BY <2>1, <2>2, <2>3 DEF st2, Commit, TypeOK, Maybe
    <2>5. pollQueue' \in Seq(Job) /\ history' \in [Keys -> History]
        <3>1. CASE UNCHANGED <<pollQueue, history>>
            BY <3>1 DEF TypeOK
        <3>2. CASE /\ ~(Reprobe(local[s], st2, now[s]) /\ k \notin DOMAIN Priorities)
                   /\ pollQueue' = Append(pollQueue, job)
                   /\ history' = [history EXCEPT ![k].dispatched = now[s]]
            <4>1. job \in Job
                BY <2>1, <3>2, KnownJobType, ProbeJobType
            <4>2. pollQueue' \in Seq(Job)
                <5> HIDE DEF job
                <5> QED
                    BY <3>2, <4>1 DEF TypeOK
            <4>3. history' \in [Keys -> History]
                <5>1. history \in [Keys -> History] /\ now[s] \in Maybe(Int)
                    BY <2>1 DEF TypeOK, Maybe
                <5> HIDE DEF k
                <5> QED
                    BY Zenon, <2>1, <3>2, <5>1, HistoryType
            <4> QED
                BY <4>2, <4>3
        <3> QED
            BY <2>2, <3>1, <3>2
    <2>6. /\ pc' = [pc EXCEPT ![s] = "idle"]
          /\ msg' = [msg EXCEPT ![s] = None]
          /\ now' = [now EXCEPT ![s] = 0]
          /\ local' = [local EXCEPT ![s] = None]
          /\ UNCHANGED <<clock, requests, workQueue, running, edit>>
        BY <1>4 DEF ValidateTask, Idle
    <2> QED
        BY <2>4, <2>5, <2>6 DEF TypeOK, Maybe
<1>5. ASSUME NEW s \in Supervisors, ProcessLog(s)
      PROVE  TypeOK'
    <2> DEFINE st2 == Logged(local[s], msg[s], now[s])
    <2>1. msg[s] \in Message /\ msg[s].key \in Keys /\ now[s] \in Nat
        BY Zenon, <1>5 DEF ProcessLog, TypeOK, Message
    <2>2. st2 \in State
        BY <1>5, <2>1, LoggedType DEF ProcessLog, TypeOK
    <2>3. cache' = [cache EXCEPT ![msg[s].key] = st2]
        BY <1>5 DEF ProcessLog, Commit
    <2>4. history' \in [Keys -> History]
        <3> DEFINE t == IF msg[s].state \in {"COMPLETE", "ERRORED"}
                        THEN now[s] ELSE history[msg[s].key].finished
        <3>1. t \in Maybe(Int)
            BY <2>1 DEF TypeOK, History, Maybe, Time
        <3>2. history' = [history EXCEPT ![msg[s].key].finished = t]
            BY <1>5 DEF ProcessLog
        <3> HIDE DEF t
        <3> QED
            BY Zenon, <2>1, <3>1, <3>2, HistoryType DEF TypeOK, Maybe
    <2> HIDE DEF st2
    <2>5. cache' \in [Keys -> Maybe(State)]
        BY <2>1, <2>2, <2>3 DEF TypeOK, Maybe
    <2> QED
        BY <1>5, <2>4, <2>5 DEF ProcessLog, Idle, TypeOK, Maybe
<1>6. ASSUME NEW w \in Workers, StartPoll(w)
      PROVE  TypeOK'
    <2>1. Head(pollQueue) \in Job /\ Tail(pollQueue) \in Seq(Job)
        BY <1>6 DEF StartPoll, TypeOK
    <2>2. Head(pollQueue).key \in Keys
        BY <2>1 DEF Job
    <2>3. workQueue' \in Seq(Message)
        <3>1. PICK st \in StartNotices :
                workQueue' = Append(workQueue, Notice(Head(pollQueue).key, st))
            BY <1>6 DEF StartPoll
        <3>2. Notice(Head(pollQueue).key, st) \in Message
            BY <2>2, MessageTypes, ConstantsAssumption
        <3>3. workQueue \in Seq(Message)
            BY DEF TypeOK
        <3> QED
            BY <3>1, <3>2, <3>3
    <2>4. [job |-> Head(pollQueue), reported |-> FALSE] \in Poll
        BY <2>1 DEF Poll
    <2>5. running' \in [Workers -> Maybe(Poll)]
        BY <1>6, <2>4 DEF StartPoll, TypeOK, Maybe
    <2> QED
        BY <1>6, <2>1, <2>3, <2>5 DEF StartPoll, supervisorVars, TypeOK
<1>7. ASSUME NEW w \in Workers, ReportSuccess(w)
      PROVE  TypeOK'
    <2>1. PICK i \in DOMAIN running[w].job.drivers :
            /\ workQueue' = Append(workQueue, Success(running[w].job.key,
                                            running[w].job.drivers[i]))
            /\ running' = [running EXCEPT ![w].reported = TRUE]
            /\ history' = [history EXCEPT
                    ![running[w].job.key].report = running[w].job.drivers[i],
                    ![running[w].job.key].succeeded =
                        @ \cup {running[w].job.drivers[i]}]
        BY Zenon, <1>7 DEF ReportSuccess
    <2>2. running[w] \in Poll
        BY <1>7 DEF ReportSuccess, TypeOK, Maybe
    <2>3. running[w].job.key \in Keys /\ running[w].job.drivers[i] \in Drivers
        BY <2>1, <2>2 DEF Poll, Job
    <2>4. workQueue' \in Seq(Message)
        BY <2>1, <2>3, MessageTypes DEF TypeOK
    <2>5. running' \in [Workers -> Maybe(Poll)]
        BY Zenon, <2>1, <2>2 DEF TypeOK, Maybe, Poll
    <2>6. history' \in [Keys -> History]
        <3> DEFINE d == running[w].job.drivers[i]
        <3>1. /\ history \in [Keys -> History]
              /\ d \in Maybe(Drivers) /\ {d} \in SUBSET Drivers
            BY <2>3 DEF TypeOK, Maybe
        <3>2. history' = [history EXCEPT ![running[w].job.key].report = d,
                            ![running[w].job.key].succeeded = @ \cup {d}]
            BY <2>1
        <3> HIDE DEF d
        <3> QED
            BY <2>3, <3>1, <3>2, HistoryType
    <2>7. UNCHANGED <<clock, requests, pollQueue, cache, pc, msg, now, local, edit>>
        BY <1>7 DEF ReportSuccess, supervisorVars
    <2>8. (/\ clock \in Nat /\ requests \in Nat /\ pollQueue \in Seq(Job)
           /\ cache \in [Keys -> Maybe(State)] /\ edit \in Maybe([key : Keys, state : State])
           /\ pc \in [Supervisors -> {"idle", "read", "commit"}]
           /\ msg \in [Supervisors -> Maybe(Message)]
           /\ now \in [Supervisors -> Nat] /\ local \in [Supervisors -> Maybe(State)]
           /\ \A s \in Supervisors : /\ pc[s] # "idle" => msg[s] \in Message
                                     /\ pc[s] = "commit" => local[s] \in State)'
        BY <2>7 DEF TypeOK
    <2> QED
        BY Zenon, <2>4, <2>5, <2>6, <2>8 DEF TypeOK
<1>8. ASSUME NEW w \in Workers, FinishPoll(w)
      PROVE  TypeOK'
    <2>1. running[w].job.key \in Keys
        BY <1>8 DEF FinishPoll, TypeOK, Maybe, Poll, Job
    <2>2. PICK m \in Message, r \in Maybe(Drivers) :
            /\ workQueue' = Append(workQueue, m)
            /\ history' = history
                \/ history' = [history EXCEPT ![running[w].job.key].report = r]
        <3>1. history[running[w].job.key].report \in Maybe(Drivers)
            BY <2>1 DEF TypeOK, History
        <3>2. None \in Maybe(Drivers)
            BY DEF Maybe
        <3> QED
            BY Zenon, <1>8, <2>1, <3>1, <3>2, MessageTypes DEF FinishPoll
    <2>3. history' \in [Keys -> History] /\ workQueue' \in Seq(Message)
        <3>1. history \in [Keys -> History] /\ workQueue \in Seq(Message)
            BY DEF TypeOK
        <3>2. [history EXCEPT ![running[w].job.key].report = r]
                \in [Keys -> History]
            BY <2>1, <3>1, HistoryType
        <3> QED
            BY <2>2, <3>1, <3>2
    <2> QED
        BY <1>8, <2>3 DEF FinishPoll, supervisorVars, TypeOK, Maybe
<1>9. ASSUME NEW w \in Workers, LosePoll(w)
      PROVE  TypeOK'
    BY <1>9 DEF LosePoll, supervisorVars, TypeOK, Maybe
<1>10. ASSUME NEW k \in Keys, MakeRequest(k)
       PROVE  TypeOK'
    BY <1>10, MessageTypes DEF MakeRequest, supervisorVars, TypeOK
<1>11. ASSUME NEW k \in Keys, LoseState(k)
       PROVE  TypeOK'
    BY <1>11 DEF LoseState, Commit, supervisorVars, TypeOK, Maybe
<1>12. ASSUME NEW k \in Keys, FetchToEdit(k)
       PROVE  TypeOK'
    BY <1>12 DEF FetchToEdit, supervisorVars, TypeOK, Maybe
<1>13. CASE StoreEdit
    <2>1. PICK d \in Maybe(Drivers) :
            /\ Commit(edit.key, [edit.state EXCEPT !.force_driver = d])
            /\ history' = [history EXCEPT
                            ![edit.key].ordered = @ \cup ({d} \ {None})]
        BY Zenon, <1>13 DEF StoreEdit
    <2>2. edit.key \in Keys /\ edit.state \in State
        BY <1>13 DEF StoreEdit, TypeOK, Maybe
    <2>3. [edit.state EXCEPT !.force_driver = d] \in State
        BY <2>2 DEF State
    <2>4. cache' \in [Keys -> Maybe(State)]
        BY <2>1, <2>2, <2>3 DEF Commit, TypeOK, Maybe
    <2>5. history' \in [Keys -> History]
        <3> DEFINE D == {d} \ {None}
        <3>1. history \in [Keys -> History] /\ D \in SUBSET Drivers
            BY DEF TypeOK, Maybe
        <3>2. history' = [history EXCEPT ![edit.key].ordered = @ \cup D]
            BY <2>1
        <3> HIDE DEF D
        <3> QED
            BY Zenon, <2>2, <3>1, <3>2, HistoryType
    <2> QED
        BY <1>13, <2>4, <2>5 DEF StoreEdit, supervisorVars, TypeOK, Maybe
<1>14. CASE Tick
    BY <1>14 DEF Tick, supervisorVars, TypeOK
<1>15. CASE UNCHANGED vars
    BY <1>15 DEF vars, TypeOK
<1> QED
    BY <1>1, <1>2, <1>3, <1>4, <1>5, <1>6, <1>7, <1>8, <1>9, <1>10, <1>11,
       <1>12, <1>13, <1>14, <1>15 DEF Next, SupervisorStep, WorkerStep

\* Every state is well typed; in particular no job names the driver None.
THEOREM TypeCorrect == Spec => []TypeOK
<1> QED
    BY TypeInit, TypeStep, PTL DEF Spec

-----------------------------------------------------------------------------
(* What the steps change *)

\* Who changes what is shared.
LEMMA SharedChanges ==
    ASSUME [Next]_vars
    PROVE  /\ clock' = clock \/ clock' = clock + 1
           /\ edit' = edit \/ StoreEdit \/ \E k \in Keys : FetchToEdit(k)
           /\ \/ cache' = cache \/ StoreEdit \/ \E k \in Keys : LoseState(k)
              \/ \E s \in Supervisors : ValidateTask(s) \/ ProcessLog(s)
           /\ \/ pollQueue' = pollQueue \/ \E s \in Supervisors : ValidateTask(s)
              \/ \E w \in Workers : StartPoll(w)
           /\ \/ workQueue' = workQueue \/ \E s \in Supervisors : Take(s)
              \/ \E w \in Workers : StartPoll(w) \/ FinishPoll(w) \/ ReportSuccess(w)
              \/ \E k \in Keys : MakeRequest(k)
           /\ UNCHANGED supervisorVars \/ \E s \in Supervisors : SupervisorStep(s)
<1>1. CASE UNCHANGED vars
    BY <1>1 DEF vars, supervisorVars
<1>2. ASSUME NEW s \in Supervisors, SupervisorStep(s)
      PROVE  /\ UNCHANGED <<clock, edit>>
             /\ cache' = cache \/ ValidateTask(s) \/ ProcessLog(s)
             /\ pollQueue' = pollQueue \/ ValidateTask(s)
             /\ workQueue' = workQueue \/ Take(s)
    <2>1. CASE Take(s)
        BY <2>1 DEF Take
    <2>2. CASE GetState(s)
        BY <2>2 DEF GetState
    <2>3. CASE DropLog(s)
        BY <2>3 DEF DropLog
    <2>4. CASE ValidateTask(s)
        <3>1. UNCHANGED <<clock, workQueue, edit>>
            BY Zenon, <2>4 DEF ValidateTask
        <3> QED
            BY <2>4, <3>1
    <2>5. CASE ProcessLog(s)
        BY <2>5 DEF ProcessLog
    <2> QED
        BY <1>2, <2>1, <2>2, <2>3, <2>4, <2>5 DEF SupervisorStep
<1>3. ASSUME NEW w \in Workers, WorkerStep(w)
      PROVE  /\ UNCHANGED <<clock, edit, cache, supervisorVars>>
             /\ pollQueue' = pollQueue \/ StartPoll(w)
             /\ workQueue' = workQueue \/ StartPoll(w) \/ FinishPoll(w) \/ ReportSuccess(w)
    <2>1. CASE StartPoll(w)
        <3>1. UNCHANGED <<clock, edit, cache, supervisorVars>>
            BY <2>1 DEF StartPoll
        <3> QED
            BY <2>1, <3>1
    <2>2. CASE ReportSuccess(w)
        <3>1. UNCHANGED <<clock, edit, cache, supervisorVars, pollQueue>>
            BY <2>2 DEF ReportSuccess
        <3> QED
            BY <2>2, <3>1
    <2>3. CASE FinishPoll(w)
        <3>1. UNCHANGED <<clock, edit, cache, supervisorVars, pollQueue>>
            BY <2>3 DEF FinishPoll
        <3> QED
            BY <2>3, <3>1
    <2>4. CASE LosePoll(w)
        BY <2>4 DEF LosePoll
    <2> QED
        BY <1>3, <2>1, <2>2, <2>3, <2>4 DEF WorkerStep
<1>4. ASSUME NEW k \in Keys, MakeRequest(k)
      PROVE  UNCHANGED <<clock, edit, cache, pollQueue, supervisorVars>>
    BY <1>4 DEF MakeRequest
<1>5. ASSUME NEW k \in Keys, LoseState(k)
      PROVE  UNCHANGED <<clock, edit, pollQueue, workQueue, supervisorVars>>
    BY <1>5 DEF LoseState
<1>6. ASSUME NEW k \in Keys, FetchToEdit(k)
      PROVE  UNCHANGED <<clock, cache, pollQueue, workQueue, supervisorVars>>
    BY <1>6 DEF FetchToEdit
<1>7. CASE StoreEdit
    <2>1. UNCHANGED <<clock, pollQueue, workQueue, supervisorVars>>
        BY <1>7 DEF StoreEdit
    <2> QED
        BY <1>7, <2>1
<1>8. CASE Tick
    BY <1>8 DEF Tick
<1>9. CASE \E s \in Supervisors : SupervisorStep(s)
    BY <1>2, <1>9
<1>10. CASE \E w \in Workers : WorkerStep(w)
    BY <1>3, <1>10
<1>11. CASE \E k \in Keys : MakeRequest(k) \/ LoseState(k) \/ FetchToEdit(k)
    BY <1>4, <1>5, <1>6, <1>11
<1> QED
    BY <1>1, <1>7, <1>8, <1>9, <1>10, <1>11 DEF Next

\* A supervisor notices nothing of what others do.
LEMMA ContextChanges ==
    ASSUME TypeOK, [Next]_vars, NEW s \in Supervisors
    PROVE  \/ pc'[s] = pc[s] /\ msg'[s] = msg[s] /\ now'[s] = now[s] /\ local'[s] = local[s]
           \/ Take(s) \/ GetState(s)
           \/ /\ pc'[s] = "idle" /\ now'[s] = 0
              /\ DropLog(s) \/ ValidateTask(s) \/ ProcessLog(s)
<1>1. /\ DOMAIN pc = Supervisors /\ DOMAIN msg = Supervisors
      /\ DOMAIN now = Supervisors /\ DOMAIN local = Supervisors
    BY DEF TypeOK
<1>2. ASSUME NEW v \in Supervisors, v # s, SupervisorStep(v)
      PROVE  pc'[s] = pc[s] /\ msg'[s] = msg[s] /\ now'[s] = now[s] /\ local'[s] = local[s]
    <2>1. CASE Take(v)
        BY <1>1, <1>2, <2>1 DEF Take
    <2>2. CASE GetState(v)
        BY <1>1, <1>2, <2>2 DEF GetState
    <2>3. CASE Idle(v)
        BY <1>1, <1>2, <2>3 DEF Idle
    <2>4. DropLog(v) \/ ValidateTask(v) \/ ProcessLog(v) => Idle(v)
        BY DEF DropLog, ValidateTask, ProcessLog
    <2> QED
        BY <1>2, <2>1, <2>2, <2>3, <2>4 DEF SupervisorStep
<1>3. ASSUME DropLog(s) \/ ValidateTask(s) \/ ProcessLog(s)
      PROVE  pc'[s] = "idle" /\ now'[s] = 0
    <2>1. Idle(s)
        BY <1>3 DEF DropLog, ValidateTask, ProcessLog
    <2> QED
        BY <1>1, <2>1 DEF Idle
<1>4. CASE SupervisorStep(s)
    BY <1>3, <1>4 DEF SupervisorStep
<1>5. CASE UNCHANGED supervisorVars
    BY <1>5 DEF supervisorVars
<1> QED
    BY <1>2, <1>4, <1>5, SharedChanges

\* A state is written for the message at hand.
LEMMA CacheChanges ==
    ASSUME TypeOK, [Next]_vars, NEW k \in Keys
    PROVE  \/ cache'[k] = cache[k] \/ cache'[k] = None
           \/ \E s \in Supervisors : ValidateTask(s) /\ msg[s].key = k
           \/ \E s \in Supervisors : ProcessLog(s) /\ msg[s].key = k
           \/ StoreEdit /\ edit.key = k
<1>1. ASSUME NEW j, NEW st, j # k, Commit(j, st)
      PROVE  cache'[k] = cache[k]
    BY <1>1 DEF Commit, TypeOK
<1>2. ASSUME NEW s \in Supervisors, ValidateTask(s) \/ ProcessLog(s)
      PROVE  \E st : Commit(msg[s].key, st)
    BY Zenon, <1>2 DEF ValidateTask, ProcessLog
<1>3. StoreEdit => \E st : Commit(edit.key, st)
    BY Zenon DEF StoreEdit
<1>4. ASSUME NEW j \in Keys, LoseState(j)
      PROVE  cache'[k] \in {cache[k], None}
    <2>1. cache' = [cache EXCEPT ![j] = None] /\ DOMAIN cache = Keys
        BY <1>4 DEF LoseState, Commit, TypeOK
    <2> QED
        BY <2>1
<1>5. ASSUME NEW s \in Supervisors, ValidateTask(s) \/ ProcessLog(s), msg[s].key # k
      PROVE  cache'[k] = cache[k]
    BY <1>1, <1>2, <1>5
<1>6. StoreEdit /\ edit.key # k => cache'[k] = cache[k]
    BY <1>1, <1>3
<1> QED
    BY <1>4, <1>5, <1>6, SharedChanges

-----------------------------------------------------------------------------
(* Where the jobs in flight come from *)

\* Only validate_task adds a job.
LEMMA JobsKept ==
    ASSUME TypeOK,
           \/ \E s \in Supervisors :
                Take(s) \/ GetState(s) \/ DropLog(s) \/ ProcessLog(s)
           \/ \E w \in Workers : WorkerStep(w)
           \/ \E k \in Keys : MakeRequest(k) \/ LoseState(k) \/ FetchToEdit(k)
           \/ StoreEdit \/ Tick \/ UNCHANGED vars
    PROVE  JobsInFlight' \subseteq JobsInFlight
<1>1. ASSUME pollQueue' = pollQueue, running' = running
      PROVE  JobsInFlight' \subseteq JobsInFlight
    BY <1>1 DEF JobsInFlight
<1>2. ASSUME NEW w \in Workers, StartPoll(w)
      PROVE  JobsInFlight' \subseteq JobsInFlight
    <2> DEFINE q == pollQueue
    <2>1. q \in Seq(Job) /\ q # <<>>
        BY <1>2 DEF StartPoll, TypeOK
    <2>2. \A i \in DOMAIN Tail(q) : i+1 \in DOMAIN q /\ Tail(q)[i] = q[i+1]
        BY <2>1
    <2>3. 1 \in DOMAIN q /\ Head(q) = q[1]
        BY <2>1
    <2>4. /\ pollQueue' = Tail(q)
          /\ running' = [running EXCEPT ![w] = [job |-> Head(q), reported |-> FALSE]]
        BY <1>2 DEF StartPoll
    <2>5. \A v \in Workers : running'[v] =
            IF v = w THEN [job |-> Head(q), reported |-> FALSE] ELSE running[v]
        BY <2>4 DEF TypeOK
    <2>6. \A i \in DOMAIN pollQueue' : pollQueue'[i] \in JobsInFlight
        BY <2>2, <2>4 DEF JobsInFlight
    <2>7. \A v \in Workers : running'[v] # None => running'[v].job \in JobsInFlight
        <3>1. Head(q) \in JobsInFlight
            BY <2>3 DEF JobsInFlight
        <3>2. \A v \in Workers : running[v] # None => running[v].job \in JobsInFlight
            BY DEF JobsInFlight
        <3> QED
            BY <2>5, <3>1, <3>2
    <2> QED
        BY <2>6, <2>7 DEF JobsInFlight
<1>3. ASSUME NEW w \in Workers,
             ReportSuccess(w) \/ FinishPoll(w) \/ LosePoll(w)
      PROVE  JobsInFlight' \subseteq JobsInFlight
    <2>1. pollQueue' = pollQueue /\ running[w] # None
        BY Zenon, <1>3 DEF ReportSuccess, FinishPoll, LosePoll
    <2>2. running' \in {[running EXCEPT ![w].reported = TRUE],
                        [running EXCEPT ![w] = None]}
        BY Zenon, <1>3 DEF ReportSuccess, FinishPoll, LosePoll
    <2>3. running[w] \in Poll
        BY <2>1 DEF TypeOK, Maybe
    <2>4. \A v \in Workers : running'[v] # None =>
            running[v] # None /\ running'[v].job = running[v].job
        <3>1. DOMAIN running = Workers
            BY DEF TypeOK
        <3>2. [running[w] EXCEPT !.reported = TRUE].job = running[w].job
            BY <2>3 DEF Poll
        <3>3. ASSUME NEW v \in Workers, v # w PROVE running'[v] = running[v]
            BY <2>2, <3>1, <3>3
        <3>4. running'[w] \in {[running[w] EXCEPT !.reported = TRUE], None}
            BY <2>2, <3>1
        <3> QED
            BY Zenon, <2>1, <3>2, <3>3, <3>4
    <2> QED
        BY <2>1, <2>4 DEF JobsInFlight
<1> QED
    BY Zenon, <1>1, <1>2, <1>3 DEF Take, GetState, DropLog, ProcessLog, WorkerStep,
        MakeRequest, LoseState, FetchToEdit, StoreEdit, Tick, vars

\* The job an accepted request becomes.
NewJob(s, delay) ==
    LET k == msg[s].key
        st2 == Validated(local[s], k, now[s], delay)
    IN  IF Reprobe(local[s], st2, now[s]) THEN ProbeJob(k) ELSE KnownJob(k, st2)

\* Accepting a request adds at most the job it becomes to those in flight.
LEMMA JobsAdded ==
    ASSUME TypeOK, NEW s \in Supervisors, ValidateTask(s)
    PROVE  \E delay \in ReprobeDelays :
             /\ JobsInFlight' \subseteq JobsInFlight \cup {NewJob(s, delay)}
             /\ Commit(msg[s].key, Validated(local[s], msg[s].key, now[s], delay))
<1>1. PICK delay \in ReprobeDelays :
        /\ Commit(msg[s].key, Validated(local[s], msg[s].key, now[s], delay))
        /\ pollQueue' = pollQueue \/ pollQueue' = Append(pollQueue, NewJob(s, delay))
    BY DEF ValidateTask, NewJob
<1>2. running' = running
    BY DEF ValidateTask
<1>3. CASE pollQueue' = pollQueue
    BY <1>1, <1>2, <1>3 DEF JobsInFlight
<1>4. CASE pollQueue' = Append(pollQueue, NewJob(s, delay))
    <2>1. \A i \in DOMAIN pollQueue' :
            \/ i \in DOMAIN pollQueue /\ pollQueue'[i] = pollQueue[i]
            \/ pollQueue'[i] = NewJob(s, delay)
        BY <1>4 DEF TypeOK
    <2> QED
        BY <1>1, <1>2, <2>1 DEF JobsInFlight
<1> QED
    BY <1>1, <1>3, <1>4

\* After validate_task's `finally' block a forced key has its forced driver.
LEMMA ValidatedFields ==
    ASSUME NEW st \in State, NEW k \in Keys, NEW t \in Nat,
           NEW delay \in ReprobeDelays
    PROVE  LET st2 == Validated(st, k, t, delay) IN
           /\ st2.force_driver = IF k \in DOMAIN ForcedDrivers
                                 THEN ForcedDrivers[k] ELSE st.force_driver
           /\ st2.last_successful_driver = st.last_successful_driver
           /\ st2.recvd = IF Throttled(st, t) THEN st.recvd ELSE t
           /\ st2.started \in {st.started, None}
           /\ st2.next_probe = IF ProbeDue(st, t) THEN t + delay ELSE st.next_probe
           /\ st2.complete = st.complete /\ st2.last_failed = st.last_failed
BY DEF Validated, State

-----------------------------------------------------------------------------
(* Forced drivers *)

\* A new job of a forced key carries the forced driver.
LEMMA NewJobForced ==
    ASSUME TypeOK, NEW s \in Supervisors, ValidateTask(s),
           NEW delay \in ReprobeDelays
    PROVE  NewJob(s, delay).key \in DOMAIN ForcedDrivers =>
             NewJob(s, delay).drivers = << ForcedDrivers[NewJob(s, delay).key] >>
<1> DEFINE k == msg[s].key
           st2 == Validated(local[s], k, now[s], delay)
<1>1. k \in Keys /\ local[s] \in State /\ now[s] \in Nat
    BY DEF ValidateTask, TypeOK, Message
<1>2. NewJob(s, delay).key = k
    BY DEF NewJob, ProbeJob, KnownJob
<1>3. SUFFICES ASSUME k \in DOMAIN ForcedDrivers
               PROVE  NewJob(s, delay).drivers = <<ForcedDrivers[k]>>
    BY <1>2
<1>4. ForcedDrivers[k] \in Drivers /\ ForcedDrivers[k] # None
    BY <1>3, ConstantsAssumption
<1>5. st2.force_driver = ForcedDrivers[k]
    BY <1>1, <1>3, ValidatedFields
<1>6. ~Reprobe(local[s], st2, now[s])
    BY <1>4, <1>5 DEF Reprobe
<1>7. NewJob(s, delay) = KnownJob(k, st2)
    BY <1>6 DEF NewJob
<1> HIDE DEF st2, k
<1> QED
    BY <1>4, <1>5, <1>7 DEF KnownJob

\* The file of forced drivers wins, however the cache is raced for, lost or
\* edited.
THEOREM ForcedDriverAlwaysWins == Spec => []ForcedDriverWins
<1>1. Init => ForcedDriverWins
    BY DEF Init, ForcedDriverWins, JobsInFlight
<1>2. TypeOK /\ ForcedDriverWins /\ [Next]_vars => ForcedDriverWins'
    <2> SUFFICES ASSUME TypeOK, ForcedDriverWins, [Next]_vars
                 PROVE  ForcedDriverWins'
        OBVIOUS
    <2>1. ASSUME NEW s \in Supervisors, ValidateTask(s)
          PROVE  ForcedDriverWins'
        BY <2>1, JobsAdded, NewJobForced DEF ForcedDriverWins
    <2>2. ASSUME JobsInFlight' \subseteq JobsInFlight
          PROVE  ForcedDriverWins'
        BY <2>2 DEF ForcedDriverWins
    <2> QED
        BY <2>1, <2>2, JobsKept DEF Next, SupervisorStep
<1> QED
    BY <1>1, <1>2, TypeCorrect, PTL DEF Spec

-----------------------------------------------------------------------------
(* Where the drivers of the jobs come from *)

\* The drivers recorded in a state, or reported by a log, are in J.
Within(st, J) == {st.last_successful_driver, st.force_driver} \subseteq J \cup {None}
Reports(m, J) == m.state = "INFO" => m.driver \in J

\* The inductive invariant: a stale copy may be written back at any time, so
\* every copy of a state has to be justified, and every report under way.
CacheSourced == \A k \in Keys : cache[k] # None => Within(cache[k], Justified(k))
LocalSourced ==
    \A s \in Supervisors :
        pc[s] = "commit" => Within(local[s], Justified(msg[s].key))
EditSourced == edit # None => Within(edit.state, Justified(edit.key))
QueueSourced ==
    \A i \in DOMAIN workQueue : Reports(workQueue[i], Justified(workQueue[i].key))
TakenSourced ==
    \A s \in Supervisors : pc[s] # "idle" => Reports(msg[s], Justified(msg[s].key))

ProvenanceInv ==
    /\ CacheSourced /\ LocalSourced /\ EditSourced
    /\ QueueSourced /\ TakenSourced /\ DriverProvenance

\* What was once a reason to use a driver remains one.
LEMMA JustifiedGrows ==
    ASSUME TypeOK, [Next]_vars, NEW k \in Keys
    PROVE  Justified(k) \subseteq Justified(k)'
<1> DEFINE Grows == /\ history[k].succeeded \subseteq history'[k].succeeded
                    /\ history[k].ordered \subseteq history'[k].ordered
<1>1. history \in [Keys -> History] /\ history[k] \in History
    BY DEF TypeOK
<1>2. ASSUME NEW s \in Supervisors, SupervisorStep(s)
      PROVE  Grows
    <2>1. Take(s) \/ GetState(s) \/ DropLog(s) => UNCHANGED history
        BY DEF Take, GetState, DropLog
    <2>2. ValidateTask(s) =>
            history' = history \/ \E kk, t : history' = [history EXCEPT ![kk].dispatched = t]
        BY Zenon DEF ValidateTask
    <2>3. ProcessLog(s) =>
            history' = [history EXCEPT ![msg[s].key].finished =
                            IF msg[s].state \in {"COMPLETE", "ERRORED"} THEN now[s] ELSE @]
        BY DEF ProcessLog
    <2>4. \A kk, t : history' = [history EXCEPT ![kk].dispatched = t] => Grows
        BY <1>1 DEF History
    <2>5. \A kk, t : history' = [history EXCEPT ![kk].finished = t] => Grows
        BY <1>1 DEF History
    <2>6. UNCHANGED history => Grows
        OBVIOUS
    <2> HIDE DEF Grows
    <2>7. ValidateTask(s) => Grows
        BY Zenon, <2>2, <2>4, <2>6
    <2>8. ProcessLog(s) => Grows
        BY Zenon, <2>3, <2>5
    <2> QED
        BY Zenon, <1>2, <2>1, <2>6, <2>7, <2>8 DEF SupervisorStep
<1>3. ASSUME NEW w \in Workers, ReportSuccess(w)
      PROVE  Grows
    <2>1. PICK kk, d : history' = [history EXCEPT
                            ![kk].report = d, ![kk].succeeded = @ \cup {d}]
        BY Zenon, <1>3 DEF ReportSuccess
    <2> DEFINE h == [history EXCEPT ![kk].report = d]
    <2>2. /\ h \in [Keys -> [dispatched : Maybe(Time), finished : Maybe(Time),
                        report : Maybe(Drivers) \cup {d},
                        succeeded : SUBSET Drivers, ordered : SUBSET Drivers]]
          /\ h[k].succeeded = history[k].succeeded
          /\ h[k].ordered = history[k].ordered
        BY Zenon, <1>1 DEF History
    <2>3. history' = [h EXCEPT ![kk].succeeded = @ \cup {d}]
        BY <2>1
    <2> HIDE DEF h
    <2> QED
        BY <2>2, <2>3
<1>4. ASSUME NEW w \in Workers, FinishPoll(w)
      PROVE  Grows
    <2>1. \/ history' = history
          \/ \E kk, r : history' = [history EXCEPT ![kk].report = r]
        BY Zenon, <1>4 DEF FinishPoll
    <2> QED
        BY <1>1, <2>1 DEF History
<1>5. StoreEdit => Grows
    <2> SUFFICES ASSUME StoreEdit PROVE Grows
        OBVIOUS
    <2>1. PICK kk, D : history' = [history EXCEPT ![kk].ordered = @ \cup D]
        BY Zenon DEF StoreEdit
    <2> QED
        BY <1>1, <2>1 DEF History
<1>6. ASSUME UNCHANGED history
      PROVE  Grows
    BY <1>6
<1>7. Grows
    <2> HIDE DEF Grows
    <2> QED
        BY <1>2, <1>3, <1>4, <1>5, <1>6 DEF Next, WorkerStep, StartPoll,
            LosePoll, MakeRequest, LoseState, FetchToEdit, Tick, vars
<1> QED
    BY <1>7 DEF Justified

\* What was justified by the drivers in J is justified by more of them.
LEMMA WithinGrows ==
    ASSUME NEW st, NEW m, NEW J, NEW K, J \subseteq K
    PROVE  /\ Within(st, J) => Within(st, K)
           /\ Reports(m, J) => Reports(m, K)
BY DEF Within, Reports

\* A job that is justified stays so as more drivers are seen.
LEMMA JustifiedJobStays ==
    ASSUME TypeOK, [Next]_vars, DriverProvenance, NEW job \in JobsInFlight,
           ~job.probe
    PROVE  \E d \in Justified(job.key)' : job.drivers = <<d>>
<1>1. job.key \in Keys
    <2>1. \A i \in DOMAIN pollQueue : pollQueue[i] \in Job
        BY DEF TypeOK
    <2>2. \A w \in Workers : running[w] # None => running[w].job \in Job
        BY DEF TypeOK, Maybe, Poll
    <2>3. job \in Job
        BY <2>1, <2>2 DEF JobsInFlight
    <2> QED
        BY <2>3 DEF Job
<1> QED
    BY <1>1, JustifiedGrows DEF DriverProvenance

\* What validate_task commits is justified if what it fetched was.
LEMMA ValidatedSourced ==
    ASSUME NEW st \in State, NEW k \in Keys, NEW t \in Nat,
           NEW delay \in ReprobeDelays, Within(st, Justified(k))
    PROVE  Within(Validated(st, k, t, delay), Justified(k))
BY ValidatedFields DEF Within, Justified

\* What process_log commits is justified if the state and the log were.
LEMMA LoggedSourced ==
    ASSUME NEW st \in State, NEW m \in Message, NEW t \in Nat, NEW J,
           Within(st, J), Reports(m, J)
    PROVE  Within(Logged(st, m, t), J)
<1>1. Logged(st, m, t).force_driver = st.force_driver
    BY DEF Logged, State
<1>2. \/ Logged(st, m, t).last_successful_driver \in
            {st.last_successful_driver, None}
      \/ /\ m.state = "INFO"
         /\ Logged(st, m, t).last_successful_driver = m.driver
    BY DEF Logged, State
<1> QED
    BY <1>1, <1>2 DEF Within, Reports

\* A job that is not a probe names a justified driver.
LEMMA NewJobSourced ==
    ASSUME TypeOK, NEW s \in Supervisors, ValidateTask(s),
           NEW delay \in ReprobeDelays, Within(local[s], Justified(msg[s].key)),
           ~NewJob(s, delay).probe
    PROVE  /\ NewJob(s, delay).key = msg[s].key
           /\ \E d \in Justified(msg[s].key) : NewJob(s, delay).drivers = <<d>>
<1> DEFINE k == msg[s].key
           st2 == Validated(local[s], k, now[s], delay)
           d == IF st2.force_driver # None THEN st2.force_driver
                ELSE st2.last_successful_driver
<1>1. k \in Keys /\ local[s] \in State /\ now[s] \in Nat
    BY DEF ValidateTask, TypeOK, Message
<1>2. ~Reprobe(local[s], st2, now[s]) /\ NewJob(s, delay) = KnownJob(k, st2)
    BY DEF NewJob, ProbeJob
<1>3. Within(st2, Justified(k))
    BY <1>1, ValidatedSourced
<1>4. st2.last_successful_driver = local[s].last_successful_driver
    BY <1>1, ValidatedFields
<1>5. d \in Justified(k)
    BY <1>2, <1>3, <1>4 DEF Reprobe, Within
<1>6. NewJob(s, delay).key = k /\ NewJob(s, delay).drivers = <<d>>
    BY <1>2 DEF KnownJob
<1> QED
    BY <1>5, <1>6

\* Nothing is claimed about drivers at the start.
LEMMA ProvenanceInit == Init => ProvenanceInv
BY DEF Init, ProvenanceInv, DriverProvenance, JobsInFlight, CacheSourced,
    LocalSourced, EditSourced, QueueSourced, TakenSourced

\* One step per part of the invariant, and in it the actions that disturb it.
LEMMA ProvenanceStep == TypeOK /\ ProvenanceInv /\ [Next]_vars => ProvenanceInv'
<1> SUFFICES ASSUME TypeOK, ProvenanceInv, [Next]_vars
             PROVE  ProvenanceInv'
    OBVIOUS
<1>1. \A k \in Keys : Justified(k) \subseteq Justified(k)'
    BY JustifiedGrows
<1>2. /\ CacheSourced /\ LocalSourced /\ EditSourced
      /\ QueueSourced /\ TakenSourced /\ DriverProvenance
    BY DEF ProvenanceInv
<1>3. \A s \in Supervisors : pc[s] # "idle" => msg[s] \in Message /\ msg[s].key \in Keys
    BY Zenon DEF TypeOK, Message
<1>4. TypeOK'
    BY TypeStep
<1>5. CacheSourced'
    <2> SUFFICES ASSUME NEW k \in Keys, cache'[k] # None
                 PROVE  Within(cache'[k], Justified(k)')
        BY DEF CacheSourced
    <2>1. CASE cache'[k] = cache[k]
        BY <1>1, <1>2, <2>1, WithinGrows DEF CacheSourced
    <2>2. ASSUME NEW s \in Supervisors, ValidateTask(s), msg[s].key = k
          PROVE  Within(cache'[k], Justified(k)')
        <3>1. PICK delay \in ReprobeDelays :
                Commit(k, Validated(local[s], k, now[s], delay))
            BY <2>2, JobsAdded
        <3>2. cache'[k] = Validated(local[s], k, now[s], delay)
            BY <3>1 DEF Commit, TypeOK
        <3>3. Within(local[s], Justified(k))
            BY <1>2, <2>2 DEF LocalSourced, ValidateTask
        <3>4. local[s] \in State /\ now[s] \in Nat
            BY <2>2 DEF ValidateTask, TypeOK
        <3>5. Within(cache'[k], Justified(k))
            BY <3>2, <3>3, <3>4, ValidatedSourced
        <3> QED
            BY <1>1, <3>5, WithinGrows
    <2>3. ASSUME NEW s \in Supervisors, ProcessLog(s), msg[s].key = k
          PROVE  Within(cache'[k], Justified(k)')
        <3>1. cache'[k] = Logged(local[s], msg[s], now[s])
            BY <2>3 DEF ProcessLog, Commit, TypeOK
        <3>2. Within(local[s], Justified(k)) /\ Reports(msg[s], Justified(k))
            BY <1>2, <2>3 DEF LocalSourced, TakenSourced, ProcessLog
        <3>3. local[s] \in State /\ now[s] \in Nat /\ msg[s] \in Message
            BY <2>3 DEF ProcessLog, TypeOK
        <3>4. Within(cache'[k], Justified(k))
            BY <3>1, <3>2, <3>3, LoggedSourced
        <3> QED
            BY <1>1, <3>4, WithinGrows
    <2>4. ASSUME StoreEdit, edit.key = k
          PROVE  Within(cache'[k], Justified(k)')
        <3>1. PICK d \in Maybe(Drivers) :
                /\ Commit(edit.key, [edit.state EXCEPT !.force_driver = d])
                /\ history' = [history EXCEPT
                                ![edit.key].ordered = @ \cup ({d} \ {None})]
            BY Zenon, <2>4 DEF StoreEdit
        <3>2. edit.state \in State /\ Within(edit.state, Justified(k))
            BY <1>2, <2>4 DEF StoreEdit, TypeOK, Maybe, EditSourced
        <3>3. cache'[k] = [edit.state EXCEPT !.force_driver = d]
            BY <2>4, <3>1 DEF Commit, TypeOK
        <3>4. d = None \/ d \in history'[k].ordered
            BY <2>4, <3>1 DEF TypeOK, History
        <3>5. d \in Justified(k)' \cup {None}
            BY <3>4 DEF Justified
        <3>6. /\ cache'[k].force_driver = d
              /\ cache'[k].last_successful_driver = edit.state.last_successful_driver
            BY <3>2, <3>3 DEF State
        <3> QED
            BY <1>1, <3>2, <3>5, <3>6 DEF Within
    <2>5. \/ cache'[k] = cache[k] \/ cache'[k] = None
          \/ \E s \in Supervisors : ValidateTask(s) /\ msg[s].key = k
          \/ \E s \in Supervisors : ProcessLog(s) /\ msg[s].key = k
          \/ StoreEdit /\ edit.key = k
        BY CacheChanges
    <2> QED
        BY <2>1, <2>2, <2>3, <2>4, <2>5
<1>6. LocalSourced'
    <2> SUFFICES ASSUME NEW s \in Supervisors, pc'[s] = "commit",
                        NEW k, k = msg'[s].key
                 PROVE  Within(local'[s], Justified(k)')
        BY DEF LocalSourced, Justified
    <2>1. CASE pc[s] = "commit" /\ local'[s] = local[s] /\ msg'[s] = msg[s]
        <3>1. Within(local[s], Justified(k)) /\ k \in Keys
            BY <1>2, <1>3, <2>1 DEF LocalSourced
        <3> QED
            BY <1>1, <2>1, <3>1, WithinGrows
    <2>2. CASE GetState(s)
        <3>1. /\ k = msg[s].key /\ k \in Keys
              /\ local'[s] = IF cache[k] = None THEN initial_state ELSE cache[k]
            BY <1>3, <2>2 DEF GetState, TypeOK
        <3>2. Within(initial_state, Justified(k))
            BY DEF Within, initial_state
        <3>3. Within(local'[s], Justified(k))
            BY <1>2, <3>1, <3>2 DEF CacheSourced
        <3> QED
            BY <1>1, <3>1, <3>3, WithinGrows
    <2>3. \/ pc[s] = "commit" /\ local'[s] = local[s] /\ msg'[s] = msg[s]
          \/ GetState(s)
        <3>1. DOMAIN pc = Supervisors /\ (Take(s) => pc'[s] = "read")
            BY DEF Take, TypeOK
        <3> QED
            BY <3>1, ContextChanges
    <2> QED
        BY <2>1, <2>2, <2>3
<1>7. EditSourced'
    <2> SUFFICES ASSUME edit' # None, NEW k, k = edit'.key
                 PROVE  Within(edit'.state, Justified(k)')
        BY DEF EditSourced, Justified
    <2>1. CASE edit' = edit
        <3>1. Within(edit.state, Justified(k)) /\ k \in Keys
            BY <1>2, <2>1 DEF TypeOK, Maybe, EditSourced
        <3> QED
            BY <1>1, <2>1, <3>1, WithinGrows
    <2>2. ASSUME NEW kk \in Keys, FetchToEdit(kk)
          PROVE  Within(edit'.state, Justified(k)')
        <3>1. k = kk /\ edit'.state = cache[k] /\ cache[k] # None
            BY <2>2 DEF FetchToEdit
        <3>2. Within(edit'.state, Justified(k)) /\ k \in Keys
            BY <1>2, <2>2, <3>1 DEF CacheSourced
        <3> QED
            BY <1>1, <3>2, WithinGrows
    <2>3. edit' = edit \/ \E kk \in Keys : FetchToEdit(kk)
        BY SharedChanges DEF StoreEdit
    <2> QED
        BY <2>1, <2>2, <2>3
<1>8. QueueSourced'
    <2> SUFFICES ASSUME NEW i \in DOMAIN workQueue', NEW kk, NEW m,
                        m = workQueue'[i], kk = m.key
                 PROVE  Reports(m, Justified(kk)')
        BY DEF QueueSourced, Justified
    <2>1. CASE \E j \in DOMAIN workQueue : workQueue'[i] = workQueue[j]
        <3>1. PICK j \in DOMAIN workQueue : m = workQueue[j]
            BY <2>1
        <3>2. workQueue[j] \in Message
            BY DEF TypeOK
        <3>3. kk \in Keys
            BY <3>1, <3>2 DEF Message
        <3>4. Reports(m, Justified(kk))
            BY <1>2, <3>1 DEF QueueSourced
        <3> QED
            BY <1>1, <3>3, <3>4, WithinGrows
    <2>2. CASE m.state # "INFO"
        BY <2>2 DEF Reports
    <2>3. ASSUME NEW w \in Workers, ReportSuccess(w),
                 workQueue' = Append(workQueue, m)
          PROVE  Reports(m, Justified(kk)')
        <3>1. PICK x \in DOMAIN running[w].job.drivers :
                /\ workQueue' = Append(workQueue, Success(running[w].job.key,
                                                running[w].job.drivers[x]))
                /\ history' = [history EXCEPT
                    ![running[w].job.key].report = running[w].job.drivers[x],
                    ![running[w].job.key].succeeded =
                        @ \cup {running[w].job.drivers[x]}]
            BY Zenon, <2>3 DEF ReportSuccess
        <3> DEFINE k == running[w].job.key
                   d == running[w].job.drivers[x]
        <3>2. k \in Keys
            BY <2>3 DEF ReportSuccess, TypeOK, Maybe, Poll, Job
        <3>3. m = Success(k, d) /\ kk = k
            <4>1. workQueue \in Seq(Message)
                BY DEF TypeOK
            <4>2. /\ workQueue' = Append(workQueue, m)
                  /\ workQueue' = Append(workQueue, Success(k, d))
                BY <2>3, <3>1
            <4>3. m = Success(k, d)
                BY <4>1, <4>2
            <4> QED
                BY <4>3 DEF Success
        <3>4. d \in history'[k].succeeded
            <4> DEFINE h == [history EXCEPT ![k].report = d]
            <4>1. h \in [Keys -> [dispatched : Maybe(Time), finished : Maybe(Time),
                        report : Maybe(Drivers) \cup {d},
                        succeeded : SUBSET Drivers, ordered : SUBSET Drivers]]
                <5>1. history \in [Keys -> History]
                    BY DEF TypeOK
                <5> HIDE DEF k, d
                <5> QED
                    BY SMT, <3>2, <5>1 DEF History
            <4>2. history' = [h EXCEPT ![k].succeeded = @ \cup {d}]
                BY <3>1
            <4> HIDE DEF h, k, d
            <4> QED
                BY <3>2, <4>1, <4>2
        <3> HIDE DEF k, d
        <3>5. m.driver = d
            BY <3>3 DEF Success
        <3>6. m.driver \in Justified(kk)'
            BY <3>3, <3>4, <3>5 DEF Justified
        <3> DEFINE J == Justified(kk)'
        <3>7. m.driver \in J
            BY <3>6
        <3> HIDE DEF J
        <3>8. Reports(m, J)
            BY <3>7 DEF Reports
        <3> QED
            BY Zenon, <3>8 DEF J
    <2>4. \/ \E j \in DOMAIN workQueue : workQueue'[i] = workQueue[j]
          \/ m.state # "INFO"
          \/ \E w \in Workers : ReportSuccess(w) /\ workQueue' = Append(workQueue, m)
        <3>1. workQueue \in Seq(Message)
            BY DEF TypeOK
        <3>2. ASSUME NEW s \in Supervisors, Take(s)
              PROVE  \E j \in DOMAIN workQueue : workQueue'[i] = workQueue[j]
            <4>1. workQueue' = Tail(workQueue) /\ workQueue # <<>>
                BY <3>2 DEF Take
            <4>2. i+1 \in DOMAIN workQueue /\ workQueue'[i] = workQueue[i+1]
                BY <3>1, <4>1
            <4> QED
                BY <4>2
        <3>3. ASSUME NEW x, workQueue' = Append(workQueue, x)
              PROVE  \/ \E j \in DOMAIN workQueue : workQueue'[i] = workQueue[j]
                     \/ m = x
            BY <3>1, <3>3
        <3>4. \A k, e : Failure(k, e).state # "INFO"
            BY DEF Failure
        <3>5. \A k, st : st # "INFO" => Notice(k, st).state # "INFO"
            BY DEF Notice
        <3>6. ASSUME NEW w \in Workers, StartPoll(w)
              PROVE  \E x : workQueue' = Append(workQueue, x) /\ x.state # "INFO"
            BY Zenon, <3>5, <3>6, ConstantsAssumption DEF StartPoll, StartStates
        <3>7. ASSUME NEW w \in Workers, FinishPoll(w)
              PROVE  \E x : workQueue' = Append(workQueue, x) /\ x.state # "INFO"
            BY <3>4, <3>5, <3>7 DEF FinishPoll
        <3>8. ASSUME NEW k \in Keys, MakeRequest(k)
              PROVE  \E x : workQueue' = Append(workQueue, x) /\ x.state # "INFO"
            BY <3>8 DEF MakeRequest, Request
        <3>9. ASSUME NEW w \in Workers, ReportSuccess(w)
              PROVE  \E x : workQueue' = Append(workQueue, x)
            BY <3>9 DEF ReportSuccess
        <3>10. \/ workQueue' = workQueue
               \/ \E s \in Supervisors : Take(s)
               \/ \E w \in Workers : StartPoll(w) \/ FinishPoll(w) \/ ReportSuccess(w)
               \/ \E k \in Keys : MakeRequest(k)
            BY SharedChanges
        <3> QED
            BY <3>2, <3>3, <3>6, <3>7, <3>8, <3>9, <3>10
    <2> QED
        BY <2>1, <2>2, <2>3, <2>4
<1>9. TakenSourced'
    <2> SUFFICES ASSUME NEW s \in Supervisors, pc'[s] # "idle",
                        NEW m, m = msg'[s], NEW k, k = m.key
                 PROVE  Reports(m, Justified(k)')
        BY DEF TakenSourced, Justified
    <2>1. CASE pc[s] # "idle" /\ msg'[s] = msg[s]
        <3>1. Reports(m, Justified(k)) /\ k \in Keys
            BY <1>2, <1>3, <2>1 DEF TakenSourced
        <3> QED
            BY <1>1, <3>1, WithinGrows
    <2>2. CASE Take(s)
        <3>1. m = workQueue[1] /\ 1 \in DOMAIN workQueue
            BY <2>2 DEF Take, TypeOK
        <3>2. workQueue[1] \in Message
            BY <3>1 DEF TypeOK
        <3>3. k \in Keys /\ Reports(m, Justified(k))
            BY <1>2, <3>1, <3>2 DEF Message, QueueSourced
        <3> QED
            BY <1>1, <3>3, WithinGrows
    <2>3. (pc[s] # "idle" /\ msg'[s] = msg[s]) \/ Take(s)
        <3>1. GetState(s) => pc[s] = "read" /\ msg' = msg
            BY DEF GetState
        <3> QED
            BY <3>1, ContextChanges
    <2> QED
        BY <2>1, <2>2, <2>3
<1>10. DriverProvenance'
    <2> SUFFICES ASSUME NEW job \in JobsInFlight', ~job.probe
                 PROVE  \E d \in Justified(job.key)' : job.drivers = <<d>>
        BY DEF DriverProvenance
    <2>1. CASE job \in JobsInFlight
        BY <1>2, <2>1, JustifiedJobStays
    <2>2. ASSUME NEW s \in Supervisors, ValidateTask(s), job \notin JobsInFlight
          PROVE  \E d \in Justified(job.key)' : job.drivers = <<d>>
        <3>1. PICK delay \in ReprobeDelays : job = NewJob(s, delay)
            BY <2>2, JobsAdded
        <3>2. Within(local[s], Justified(msg[s].key)) /\ msg[s].key \in Keys
            BY <1>2, <1>3, <2>2 DEF LocalSourced, ValidateTask
        <3> QED
            BY <1>1, <2>2, <3>1, <3>2, NewJobSourced
    <2> QED
        BY <2>1, <2>2, JobsKept DEF Next, SupervisorStep
<1> QED
    BY <1>5, <1>6, <1>7, <1>8, <1>9, <1>10 DEF ProvenanceInv

\* A worker is only ever given, without a probe, a driver that was seen to
\* work for that test or was forced for it.
THEOREM DriversAreJustified == Spec => []DriverProvenance
<1>1. ProvenanceInv => DriverProvenance
    BY DEF ProvenanceInv
<1> QED
    BY <1>1, ProvenanceInit, ProvenanceStep, TypeCorrect, PTL DEF Spec

-----------------------------------------------------------------------------
(* Recorded times *)

\* A supervisor's notion of the present may be late, never early.
TimesInv == TimesBounded /\ \A s \in Supervisors : now[s] <= clock

\* Time passing loosens the bound.
LEMMA BoundedLater ==
    ASSUME NEW st \in State, NEW t \in Nat, NEW u \in Nat, t <= u, Bounded(st, t)
    PROVE  Bounded(st, u)
<1>1. ASSUME NEW x \in Maybe(Time), x # None => x <= t
      PROVE  x # None => x <= u
    BY <1>1 DEF Maybe, Time
<1>2. /\ st.recvd \in Maybe(Time) /\ st.started \in Maybe(Time)
      /\ st.complete \in Maybe(Time) /\ st.last_failed \in Maybe(Time)
      /\ st.next_probe \in Maybe(Time)
    BY DEF State
<1>3. \A x \in {st.recvd, st.started, st.complete, st.last_failed} :
        x # None => x <= u
    BY <1>1, <1>2 DEF Bounded
<1>4. st.next_probe # None =>
        \E delay \in ReprobeDelays : st.next_probe <= u + delay
    <2> SUFFICES ASSUME st.next_probe # None
                 PROVE  \E delay \in ReprobeDelays : st.next_probe <= u + delay
        OBVIOUS
    <2>1. PICK delay \in ReprobeDelays : st.next_probe <= t + delay
        BY DEF Bounded
    <2>2. st.next_probe \in Int /\ delay \in Nat
        BY <1>2, ConstantsAssumption DEF Maybe, Time
    <2> QED
        BY <2>1, <2>2
<1> QED
    BY <1>3, <1>4 DEF Bounded

\* validate_task records no later time than its own present.
LEMMA ValidatedBounded ==
    ASSUME NEW st \in State, NEW k \in Keys, NEW t \in Nat, NEW u \in Nat,
           NEW delay \in ReprobeDelays, t <= u, Bounded(st, u)
    PROVE  Bounded(Validated(st, k, t, delay), u)
<1> DEFINE st2 == Validated(st, k, t, delay)
<1>1. /\ st2.recvd = IF Throttled(st, t) THEN st.recvd ELSE t
      /\ st2.started \in {st.started, None}
      /\ st2.next_probe = IF ProbeDue(st, t) THEN t + delay ELSE st.next_probe
      /\ st2.complete = st.complete /\ st2.last_failed = st.last_failed
    BY ValidatedFields
<1>2. t + delay <= u + delay
    BY ConstantsAssumption
<1> HIDE DEF st2
<1>3. Bounded(st2, u)
    BY <1>1, <1>2 DEF Bounded
<1> QED
    BY <1>3 DEF st2

\* Processing a log records no time in the future.
LEMMA LoggedBounded ==
    ASSUME NEW st \in State, NEW m \in Message, NEW t \in Nat, NEW u \in Nat,
           t <= u, Bounded(st, u)
    PROVE  Bounded(Logged(st, m, t), u)
<1>1. /\ Logged(st, m, t).recvd = st.recvd
      /\ Logged(st, m, t).started \in {st.started, None, t}
      /\ Logged(st, m, t).complete \in {st.complete, t}
      /\ Logged(st, m, t).last_failed \in {st.last_failed, t}
      /\ Logged(st, m, t).next_probe = st.next_probe
    BY DEF Logged, State
<1> QED
    BY <1>1 DEF Bounded

\* No step of supervisors, workers or the clock breaks the bounds.
LEMMA TimesStep == TypeOK /\ TimesInv /\ [Next]_vars => TimesInv'
<1> SUFFICES ASSUME TypeOK, TimesInv, [Next]_vars
             PROVE  TimesInv'
    OBVIOUS
<1>1. clock \in Nat /\ clock' \in Nat /\ clock <= clock'
    <2>1. clock' = clock \/ clock' = clock + 1
        BY SharedChanges
    <2>2. clock \in Nat
        BY DEF TypeOK
    <2> QED
        BY <2>1, <2>2
<1>2. \A s \in Supervisors : now'[s] <= clock'
    <2> SUFFICES ASSUME NEW s \in Supervisors
                 PROVE  now'[s] <= clock'
        OBVIOUS
    <2>1. now[s] \in Nat /\ now[s] <= clock
        BY DEF TypeOK, TimesInv
    <2>2. now'[s] = now[s] \/ now'[s] = 0 \/ now'[s] = clock
        <3>1. Take(s) => now'[s] = clock
            BY DEF Take, TypeOK
        <3>2. GetState(s) => now'[s] = now[s]
            BY DEF GetState
        <3> QED
            BY <3>1, <3>2, ContextChanges
    <2> QED
        BY <1>1, <2>1, <2>2
<1>3. \A st \in State : Bounded(st, clock) => Bounded(st, clock')
    BY <1>1, BoundedLater
<1>4. /\ \A k \in Keys : cache[k] # None =>
            cache[k] \in State /\ Bounded(cache[k], clock)
      /\ \A s \in Supervisors : pc[s] = "commit" =>
            local[s] \in State /\ Bounded(local[s], clock)
      /\ edit # None => edit.state \in State /\ Bounded(edit.state, clock)
    BY DEF TimesInv, TimesBounded, TypeOK, Maybe
<1>5. \A k \in Keys : cache'[k] # None => Bounded(cache'[k], clock')
    <2> SUFFICES ASSUME NEW k \in Keys, cache'[k] # None
                 PROVE  Bounded(cache'[k], clock')
        OBVIOUS
    <2>1. CASE cache'[k] = cache[k]
        BY <1>3, <1>4, <2>1
    <2>2. ASSUME NEW s \in Supervisors, ValidateTask(s), msg[s].key = k
          PROVE  Bounded(cache'[k], clock')
        <3>1. PICK delay \in ReprobeDelays :
                Commit(k, Validated(local[s], k, now[s], delay))
            BY <2>2, JobsAdded
        <3>2. cache'[k] = Validated(local[s], k, now[s], delay)
            BY <3>1 DEF Commit, TypeOK
        <3>3. now[s] \in Nat /\ now[s] <= clock /\ pc[s] = "commit"
            BY <2>2 DEF ValidateTask, TypeOK, TimesInv
        <3>4. Bounded(cache'[k], clock)
            BY <1>1, <1>4, <3>2, <3>3, ValidatedBounded
        <3>5. cache'[k] \in State
            BY <1>4, <3>2, <3>3, ValidatedType
        <3> QED
            BY <1>3, <3>4, <3>5
    <2>3. ASSUME NEW s \in Supervisors, ProcessLog(s), msg[s].key = k
          PROVE  Bounded(cache'[k], clock')
        <3>1. cache'[k] = Logged(local[s], msg[s], now[s])
            BY <2>3 DEF ProcessLog, Commit, TypeOK
        <3>2. /\ now[s] \in Nat /\ now[s] <= clock /\ pc[s] = "commit"
              /\ msg[s] \in Message
            BY <2>3 DEF ProcessLog, TypeOK, TimesInv
        <3>3. Bounded(cache'[k], clock)
            BY <1>1, <1>4, <3>1, <3>2, LoggedBounded
        <3>4. cache'[k] \in State
            BY <1>4, <3>1, <3>2, LoggedType
        <3> QED
            BY <1>3, <3>3, <3>4
    <2>4. ASSUME StoreEdit, edit.key = k
          PROVE  Bounded(cache'[k], clock')
        <3>1. PICK d \in Maybe(Drivers) :
                Commit(edit.key, [edit.state EXCEPT !.force_driver = d])
            BY <2>4 DEF StoreEdit
        <3>2. cache'[k] = [edit.state EXCEPT !.force_driver = d]
            BY <2>4, <3>1 DEF Commit, TypeOK
        <3>3. edit.state \in State /\ Bounded(edit.state, clock')
            BY <1>3, <1>4, <2>4 DEF StoreEdit
        <3> QED
            BY <3>2, <3>3 DEF Bounded, State
    <2>5. \/ cache'[k] = cache[k] \/ cache'[k] = None
          \/ \E s \in Supervisors : ValidateTask(s) /\ msg[s].key = k
          \/ \E s \in Supervisors : ProcessLog(s) /\ msg[s].key = k
          \/ StoreEdit /\ edit.key = k
        BY CacheChanges
    <2> QED
        BY <2>1, <2>2, <2>3, <2>4, <2>5
<1>6. \A s \in Supervisors : pc'[s] = "commit" => Bounded(local'[s], clock')
    <2> SUFFICES ASSUME NEW s \in Supervisors, pc'[s] = "commit"
                 PROVE  Bounded(local'[s], clock')
        OBVIOUS
    <2>1. CASE pc[s] = "commit" /\ local'[s] = local[s]
        BY <1>3, <1>4, <2>1
    <2>2. CASE GetState(s)
        <3>1. /\ msg[s].key \in Keys
              /\ local'[s] = IF cache[msg[s].key] = None THEN initial_state
                             ELSE cache[msg[s].key]
            BY <2>2 DEF GetState, TypeOK, Message
        <3>2. Bounded(initial_state, clock')
            BY DEF Bounded, initial_state
        <3> QED
            BY <1>3, <1>4, <3>1, <3>2
    <2>3. (pc[s] = "commit" /\ local'[s] = local[s]) \/ GetState(s)
        <3>1. Take(s) => pc'[s] = "read"
            BY DEF Take, TypeOK
        <3> QED
            BY <3>1, ContextChanges
    <2> QED
        BY <2>1, <2>2, <2>3
<1>7. edit' # None => Bounded(edit'.state, clock')
    <2>1. CASE edit' = edit
        BY <1>3, <1>4, <2>1
    <2>2. ASSUME NEW k \in Keys, FetchToEdit(k)
          PROVE  Bounded(edit'.state, clock')
        <3>1. edit'.state = cache[k] /\ cache[k] # None
            BY <2>2 DEF FetchToEdit
        <3> QED
            BY <1>3, <1>4, <3>1
    <2>3. edit' = edit \/ edit' = None \/ \E k \in Keys : FetchToEdit(k)
        BY SharedChanges DEF StoreEdit
    <2> QED
        BY <2>1, <2>2, <2>3
<1> QED
    BY <1>2, <1>5, <1>6, <1>7 DEF TimesInv, TimesBounded

\* Whatever supervisors, operators and lost entries do, no recorded time is in
\* the future and no probe is put off beyond one delay from the present.
THEOREM TimesAlwaysBounded == Spec => []TimesBounded
<1>1. Init => TimesInv
    BY DEF Init, TimesInv, TimesBounded
<1>2. TimesInv => TimesBounded
    BY DEF TimesInv
<1> QED
    BY <1>1, <1>2, TimesStep, TypeCorrect, PTL DEF Spec

-----------------------------------------------------------------------------
(* One supervisor, whose memcached forgets nothing *)

\* The hypotheses under which the throttles and the settled state hold: with
\* two supervisors, or a state lost or edited meanwhile, they do not.
Alone ==
    /\ \E s \in Supervisors : Supervisors = {s}
    /\ ~CacheLoss /\ ~Operator

\* What is not in the cache is the state of a test never asked for.
StateOf(k) == IF cache[k] = None THEN initial_state ELSE cache[k]

\* The supervisor's copy is the state, and nobody else may write it.
LocalIsState ==
    \A s \in Supervisors : pc[s] = "commit" => local[s] = StateOf(msg[s].key)

\* Every dispatch, and every result, is remembered in the state, and was made
\* before the supervisor's present.
Remembered(k) ==
    LET h == history[k] IN
    /\ h.dispatched # None =>
        /\ StateOf(k).recvd # None /\ h.dispatched <= StateOf(k).recvd
        /\ h.dispatched <= clock
        /\ \A s \in Supervisors : pc[s] # "idle" => h.dispatched <= now[s]
    /\ h.finished # None => StateOf(k).complete = h.finished

ThrottleInv == edit = None /\ LocalIsState /\ \A k \in Keys : Remembered(k)

\* What happened to a test, as far as the throttles go by it.
Times(k) == <<history[k].dispatched, history[k].finished>>

\* Reports of the workers and edits of an operator do not touch those times.
LEMMA ReportsKeepTimes ==
    ASSUME NEW hist \in [Keys -> History], NEW k \in Keys
    PROVE  /\ \A kk, r : /\ [hist EXCEPT ![kk].report = r][k].dispatched = hist[k].dispatched
                         /\ [hist EXCEPT ![kk].report = r][k].finished = hist[k].finished
           /\ \A kk, r, D :
                LET new == [hist EXCEPT ![kk].report = r, ![kk].succeeded = @ \cup D] IN
                /\ new[k].dispatched = hist[k].dispatched
                /\ new[k].finished = hist[k].finished
<1>1. hist[k] \in History
    OBVIOUS
<1>2. ASSUME NEW kk, NEW r
      PROVE  /\ [hist EXCEPT ![kk].report = r][k].dispatched = hist[k].dispatched
             /\ [hist EXCEPT ![kk].report = r][k].finished = hist[k].finished
    BY <1>1 DEF History
<1>3. ASSUME NEW kk, NEW r, NEW D
      PROVE  LET new == [hist EXCEPT ![kk].report = r, ![kk].succeeded = @ \cup D] IN
             /\ new[k].dispatched = hist[k].dispatched
             /\ new[k].finished = hist[k].finished
    <2> DEFINE h == [hist EXCEPT ![kk].report = r]
               new == [h EXCEPT ![kk].succeeded = @ \cup D]
    <2>1. new = [hist EXCEPT ![kk].report = r, ![kk].succeeded = @ \cup D]
        OBVIOUS
    <2>2. k \in DOMAIN h /\ h[k] \in [dispatched : Maybe(Time), finished : Maybe(Time),
                        report : Maybe(Drivers) \cup {r},
                        succeeded : SUBSET Drivers, ordered : SUBSET Drivers]
        BY <1>1 DEF History
    <2>3. h[k].dispatched = hist[k].dispatched /\ h[k].finished = hist[k].finished
        BY <1>2
    <2> HIDE DEF h
    <2>4. new[k].dispatched = h[k].dispatched /\ new[k].finished = h[k].finished
        BY <2>2
    <2> HIDE DEF new
    <2> QED
        BY <2>1, <2>3, <2>4
<1> QED
    BY Zenon, <1>2, <1>3

\* Who writes a state, and who the times that are kept of it.
LEMMA Writers ==
    ASSUME Alone, TypeOK, [Next]_vars, edit = None, NEW k \in Keys
    PROVE  \/ cache'[k] = cache[k] /\ Times(k)' = Times(k)
           \/ \E s \in Supervisors :
                msg[s].key = k /\ (ValidateTask(s) \/ ProcessLog(s))
<1>1. ASSUME NEW s \in Supervisors, ValidateTask(s) \/ ProcessLog(s),
             msg[s].key # k
      PROVE  cache'[k] = cache[k] /\ Times(k)' = Times(k)
    <2>1. \E st : Commit(msg[s].key, st)
        BY Zenon, <1>1 DEF ValidateTask, ProcessLog
    <2>2. \/ history' = history
          \/ \E t : history' = [history EXCEPT ![msg[s].key].dispatched = t]
          \/ \E t : history' = [history EXCEPT ![msg[s].key].finished = t]
        <3>1. ValidateTask(s) =>
                \/ history' = history
                \/ \E t : history' = [history EXCEPT ![msg[s].key].dispatched = t]
            BY Zenon DEF ValidateTask
        <3>2. ProcessLog(s) =>
                \E t : history' = [history EXCEPT ![msg[s].key].finished = t]
            BY Zenon DEF ProcessLog
        <3> QED
            BY <1>1, <3>1, <3>2
    <2>3. cache'[k] = cache[k] /\ history'[k] = history[k]
        BY Zenon, <1>1, <2>1, <2>2 DEF Commit, TypeOK
    <2> QED
        BY <2>3 DEF Times
<1>2. ASSUME NEW w \in Workers, WorkerStep(w)
      PROVE  cache' = cache /\ Times(k)' = Times(k)
    <2>1. cache' = cache
        BY <1>2 DEF WorkerStep, StartPoll, ReportSuccess, FinishPoll, LosePoll
    <2>2. history \in [Keys -> History]
        BY DEF TypeOK
    <2>3. CASE ReportSuccess(w)
        <3>1. PICK kk, d : history' = [history EXCEPT
                            ![kk].report = d, ![kk].succeeded = @ \cup {d}]
            BY Zenon, <2>3 DEF ReportSuccess
        <3> QED
            BY <2>1, <2>2, <3>1, ReportsKeepTimes DEF Times
    <2>4. CASE FinishPoll(w)
        <3>1. \/ history' = history
              \/ \E kk, r : history' = [history EXCEPT ![kk].report = r]
            BY Zenon, <2>4 DEF FinishPoll
        <3>2. CASE history' = history
            BY <2>1, <3>2 DEF Times
        <3>3. ASSUME NEW kk, NEW r, history' = [history EXCEPT ![kk].report = r]
              PROVE  Times(k)' = Times(k)
            BY <2>2, <3>3, ReportsKeepTimes DEF Times
        <3> QED
            BY <2>1, <3>1, <3>2, <3>3
    <2>5. CASE StartPoll(w) \/ LosePoll(w)
        BY <2>1, <2>5 DEF StartPoll, LosePoll, Times
    <2> QED
        BY <1>2, <2>3, <2>4, <2>5 DEF WorkerStep
<1>3. CASE UNCHANGED <<cache, history>>
    BY <1>3 DEF Times
<1> QED
    BY <1>1, <1>2, <1>3 DEF Alone, Next, SupervisorStep, Take, GetState, DropLog,
        MakeRequest, LoseState, FetchToEdit, StoreEdit, Tick, vars

\* What the one supervisor does, as seen from its own variables.
LEMMA SupervisorMoves ==
    ASSUME Alone, TypeOK, [Next]_vars, NEW s \in Supervisors
    PROVE  \/ Take(s)
           \/ GetState(s)
           \/ pc'[s] = "idle" /\ (DropLog(s) \/ ValidateTask(s) \/ ProcessLog(s))
           \/ UNCHANGED <<pc, msg, now, local>>
<1>1. \A v \in Supervisors : v = s
    BY DEF Alone
<1>2. SupervisorStep(s) \/ UNCHANGED <<pc, msg, now, local>>
    BY <1>1, SharedChanges DEF supervisorVars
<1>3. DropLog(s) \/ ValidateTask(s) \/ ProcessLog(s) => pc'[s] = "idle"
    BY DEF DropLog, ValidateTask, ProcessLog, Idle, TypeOK
<1> QED
    BY <1>2, <1>3 DEF SupervisorStep

\* While the one supervisor has a copy of a state, the state is the copy.
LEMMA LocalStays ==
    ASSUME Alone, TypeOK, LocalIsState, edit = None, [Next]_vars
    PROVE  edit' = None /\ LocalIsState'
<1>1. edit' = None
    BY SharedChanges DEF Alone, FetchToEdit, StoreEdit
<1>2. ASSUME NEW s \in Supervisors, pc'[s] = "commit", NEW k, k = msg'[s].key
      PROVE  local'[s] = StateOf(k)'
    <2>1. CASE GetState(s)
        BY <1>2, <2>1 DEF GetState, StateOf, TypeOK
    <2>2. CASE UNCHANGED <<pc, msg, now, local>>
        <3>1. local[s] = StateOf(k) /\ k \in Keys
            BY <1>2, <2>2 DEF LocalIsState, TypeOK, Message
        <3>2. \A v \in Supervisors : ~ValidateTask(v) /\ ~ProcessLog(v)
            BY <1>2, <2>2 DEF Alone, ValidateTask, ProcessLog, Idle, TypeOK
        <3>3. cache'[k] = cache[k]
            BY <3>1, <3>2, Writers
        <3> QED
            BY <2>2, <3>1, <3>3 DEF StateOf
    <2>3. ~Take(s)
        BY <1>2 DEF Take, TypeOK
    <2> QED
        BY <1>2, <2>1, <2>2, <2>3, SupervisorMoves
<1> QED
    BY <1>1, <1>2 DEF LocalIsState, StateOf

\* The state of the key a supervisor deals with, after it has dealt with it.
LEMMA StateWritten ==
    ASSUME Alone, TypeOK, LocalIsState, NEW s \in Supervisors, NEW k \in Keys,
           k = msg[s].key
    PROVE  /\ ValidateTask(s) => \E delay \in ReprobeDelays :
                StateOf(k)' = Validated(StateOf(k), k, now[s], delay)
           /\ ProcessLog(s) => StateOf(k)' = Logged(StateOf(k), msg[s], now[s])
<1>1. None \notin State
    BY ConstantsAssumption
<1>2. ASSUME ValidateTask(s)
      PROVE  \E delay \in ReprobeDelays :
                StateOf(k)' = Validated(StateOf(k), k, now[s], delay)
    <2>1. PICK delay \in ReprobeDelays :
            Commit(k, Validated(local[s], k, now[s], delay))
        BY <1>2, JobsAdded
    <2>2. /\ local[s] = StateOf(k) /\ local[s] \in State /\ now[s] \in Nat
        BY <1>2 DEF ValidateTask, LocalIsState, TypeOK
    <2>3. cache'[k] = Validated(local[s], k, now[s], delay)
        BY <2>1 DEF Commit, TypeOK
    <2>4. cache'[k] \in State
        BY <2>2, <2>3, ValidatedType
    <2> QED
        BY <1>1, <2>2, <2>3, <2>4 DEF StateOf
<1>3. ASSUME ProcessLog(s)
      PROVE  StateOf(k)' = Logged(StateOf(k), msg[s], now[s])
    <2>1. /\ local[s] = StateOf(k) /\ local[s] \in State /\ now[s] \in Nat
          /\ msg[s] \in Message
        BY <1>3 DEF ProcessLog, LocalIsState, TypeOK
    <2>2. cache'[k] = Logged(local[s], msg[s], now[s])
        BY <1>3 DEF ProcessLog, Commit, TypeOK
    <2>3. cache'[k] \in State
        BY <2>1, <2>2, LoggedType
    <2> QED
        BY <1>1, <2>1, <2>2, <2>3 DEF StateOf
<1> QED
    BY <1>2, <1>3

\* A state that is not in the cache is the one a request starts from.
LEMMA StateOfType ==
    ASSUME TypeOK, NEW k \in Keys
    PROVE  StateOf(k) \in State
BY InitialStateType DEF StateOf, TypeOK, Maybe

\* A request is handed on only if neither throttle forbids it.
LEMMA Accepted ==
    ASSUME TypeOK, NEW s \in Supervisors, ValidateTask(s),
           pollQueue' # pollQueue \/ history' # history
    PROVE  ~ReceivedRecently(local[s], now[s]) /\ ~CompletedRecently(local[s], now[s])
BY DEF ValidateTask, Rejected, Throttled

\* The times the history has of a test that validate_task deals with.
LEMMA ValidateTimes ==
    ASSUME TypeOK, NEW s \in Supervisors, ValidateTask(s), NEW k \in Keys,
           k = msg[s].key
    PROVE  /\ history'[k].finished = history[k].finished
           /\ \/ history' = history
              \/ history'[k].dispatched = now[s]
<1>1. history \in [Keys -> History] /\ history[k] \in History
    BY DEF TypeOK
<1>2. history' = history \/ history' = [history EXCEPT ![k].dispatched = now[s]]
    BY DEF ValidateTask
<1> QED
    BY <1>1, <1>2 DEF History

\* ... and of one that process_log deals with.
LEMMA LogTimes ==
    ASSUME TypeOK, NEW s \in Supervisors, ProcessLog(s), NEW k \in Keys,
           k = msg[s].key
    PROVE  /\ history'[k].dispatched = history[k].dispatched
           /\ history'[k].finished = IF msg[s].state \in {"COMPLETE", "ERRORED"}
                                     THEN now[s] ELSE history[k].finished
<1>1. history \in [Keys -> History] /\ history[k] \in History
    BY DEF TypeOK
<1>2. history' = [history EXCEPT ![k].finished =
                    IF msg[s].state \in {"COMPLETE", "ERRORED"} THEN now[s] ELSE @]
    BY DEF ProcessLog
<1> QED
    BY <1>1, <1>2 DEF History

\* Time does not go back, for the clock and for the one supervisor.
LEMMA Later ==
    ASSUME Alone, TypeOK, [Next]_vars
    PROVE  /\ clock \in Nat /\ clock' \in Nat /\ clock <= clock'
           /\ \A s \in Supervisors : pc'[s] # "idle" =>
                now'[s] = clock \/ (pc[s] # "idle" /\ now'[s] = now[s])
<1>1. clock \in Nat /\ clock' \in Nat /\ clock <= clock'
    <2>1. clock' = clock \/ clock' = clock + 1
        BY SharedChanges
    <2>2. clock \in Nat
        BY DEF TypeOK
    <2> QED
        BY <2>1, <2>2
<1>2. ASSUME NEW s \in Supervisors, pc'[s] # "idle"
      PROVE  now'[s] = clock \/ (pc[s] # "idle" /\ now'[s] = now[s])
    BY Zenon, <1>2, SupervisorMoves DEF Take, GetState, TypeOK
<1> QED
    BY <1>1, <1>2

\* The throttles' memory is true after every step.
LEMMA ThrottleStep ==
    ASSUME Alone, TypeOK, TimesInv, ThrottleInv, [Next]_vars
    PROVE  ThrottleInv'
<1>1. edit' = None /\ LocalIsState'
    BY LocalStays DEF ThrottleInv
<1>2. ASSUME NEW k \in Keys
      PROVE  Remembered(k)'
    <2> DEFINE d == history[k].dispatched
               f == history[k].finished
    <2>1. /\ d \in Maybe(Int) /\ f \in Maybe(Int)
          /\ StateOf(k) \in State
          /\ StateOf(k).recvd \in Maybe(Int) /\ StateOf(k).complete \in Maybe(Int)
        BY Zenon, StateOfType DEF TypeOK, History, State, Time
    <2>2. Remembered(k) /\ edit = None /\ LocalIsState
        BY DEF ThrottleInv
    <2>3. TypeOK'
        BY TypeStep
    <2>4. CASE cache'[k] = cache[k] /\ Times(k)' = Times(k)
        <3>1. /\ StateOf(k)' = StateOf(k) /\ history'[k].dispatched = d
              /\ history'[k].finished = f
            BY <2>4 DEF StateOf, Times
        <3>2. d # None => d <= clock'
            BY <2>1, <2>2, Later, ConstantsAssumption DEF Remembered, Maybe
        <3>3. ASSUME d # None, NEW s \in Supervisors, pc'[s] # "idle"
              PROVE  d <= now'[s]
            BY <2>2, <3>3, Later DEF Remembered
        <3> QED
            BY <2>2, <3>1, <3>2, <3>3 DEF Remembered
    <2>5. ASSUME NEW s \in Supervisors, msg[s].key = k, ValidateTask(s)
          PROVE  Remembered(k)'
        <3>1. PICK delay \in ReprobeDelays :
                StateOf(k)' = Validated(StateOf(k), k, now[s], delay)
            BY <2>2, <2>5, StateWritten
        <3>2. /\ now[s] \in Nat /\ clock \in Nat /\ now[s] <= clock /\ pc[s] = "commit"
              /\ local[s] = StateOf(k)
            BY <2>2, <2>5 DEF ValidateTask, TypeOK, TimesInv, LocalIsState
        <3>3. /\ StateOf(k)'.recvd = IF Throttled(StateOf(k), now[s])
                                     THEN StateOf(k).recvd ELSE now[s]
              /\ StateOf(k)'.complete = StateOf(k).complete
            BY <2>1, <3>1, <3>2, ValidatedFields
        <3>4. pc'[s] = "idle" /\ clock' = clock /\ \A v \in Supervisors : v = s
            BY <2>5 DEF ValidateTask, Idle, TypeOK, Alone
        <3>5. /\ history'[k].finished = f
              /\ history' = history \/ history'[k].dispatched = now[s]
            BY <2>5, ValidateTimes
        <3>6. history' # history => ~Throttled(StateOf(k), now[s])
            BY <2>5, <3>2, Accepted DEF Throttled
        <3>7. d # None => d <= now[s] /\ d <= clock /\ d <= StateOf(k).recvd
                            /\ StateOf(k).recvd # None
            BY <2>2, <3>2 DEF Remembered
        <3>8. now[s] # None
            BY <3>2, ConstantsAssumption
        <3>9. history'[k].dispatched # None =>
                /\ StateOf(k)'.recvd # None
                /\ history'[k].dispatched <= StateOf(k)'.recvd
                /\ history'[k].dispatched <= clock'
            BY <3>2, <3>3, <3>4, <3>5, <3>6, <3>7, <3>8
        <3> QED
            BY <2>2, <3>3, <3>4, <3>5, <3>9 DEF Remembered
    <2>6. ASSUME NEW s \in Supervisors, msg[s].key = k, ProcessLog(s)
          PROVE  Remembered(k)'
        <3>1. StateOf(k)' = Logged(StateOf(k), msg[s], now[s])
            BY <2>2, <2>6, StateWritten
        <3>2. pc'[s] = "idle" /\ clock' = clock /\ \A v \in Supervisors : v = s
            BY <2>6 DEF ProcessLog, Idle, TypeOK, Alone
        <3>3. /\ StateOf(k)'.recvd = StateOf(k).recvd
              /\ StateOf(k)'.complete =
                    IF msg[s].state \in {"COMPLETE", "ERRORED"} THEN now[s]
                    ELSE StateOf(k).complete
            BY <2>1, <2>6, <3>1 DEF ProcessLog, Logged, State, TypeOK, Message
        <3> QED
            BY <2>2, <2>6, <3>2, <3>3, LogTimes DEF Remembered
    <2> QED
        BY <2>2, <2>4, <2>5, <2>6, Writers
<1> QED
    BY <1>1, <1>2 DEF ThrottleInv

\* A job is only handed to the workers by the supervisor that accepts a request
\* for it.
LEMMA DispatchIsAccepted ==
    ASSUME Alone, TypeOK, [Next]_vars, NEW s \in Supervisors, Dispatches(s)
    PROVE  ValidateTask(s) /\ pollQueue' # pollQueue
<1>1. Len(pollQueue') > Len(pollQueue)
    BY DEF Dispatches
<1>2. pollQueue' # pollQueue
    <2>1. Len(pollQueue) \in Nat
        BY DEF TypeOK
    <2> QED
        BY <1>1, <2>1
<1>3. \A w \in Workers : ~StartPoll(w)
    <2> SUFFICES ASSUME NEW w \in Workers, StartPoll(w)
                 PROVE  FALSE
        OBVIOUS
    <2>1. pollQueue \in Seq(Job) /\ pollQueue # <<>> /\ pollQueue' = Tail(pollQueue)
        BY DEF StartPoll, TypeOK
    <2> QED
        BY <1>1, <2>1
<1>4. \A v \in Supervisors : v = s
    BY DEF Alone
<1> QED
    BY <1>2, <1>3, <1>4, SharedChanges

\* One supervisor polls no test twice within received_throttle_time, and none
\* within complete_throttle_time of its last result, however requests, results
\* and the deaths of workers are ordered.
THEOREM ThrottlesAlwaysRespected ==
    ASSUME Alone
    PROVE  Spec => ThrottlesRespected
<1>1. Init => ThrottleInv
    BY DEF Init, ThrottleInv, LocalIsState, Remembered
<1>2. Init => TimesInv
    BY DEF Init, TimesInv, TimesBounded
<1>3. TypeOK /\ TimesInv /\ ThrottleInv /\ [Next]_vars => ThrottleInv'
    BY ThrottleStep
<1>4. TypeOK /\ ThrottleInv /\ [Next]_vars =>
        [ReceivedThrottleKept]_vars /\ [CompleteThrottleKept]_vars
    <2> SUFFICES ASSUME TypeOK, ThrottleInv, [Next]_vars,
                        NEW s \in Supervisors, Dispatches(s)
                 PROVE  LET h == history[msg[s].key] IN
                        /\ h.dispatched # None =>
                            now[s] - h.dispatched >= ReceivedThrottle
                        /\ h.finished # None =>
                            now[s] - h.finished >= CompleteThrottle
        BY DEF ReceivedThrottleKept, CompleteThrottleKept
    <2> DEFINE k == msg[s].key
               st == local[s]
               h == history[k]
    <2>1. ~ReceivedRecently(st, now[s]) /\ ~CompletedRecently(st, now[s])
        BY DispatchIsAccepted, Accepted
    <2>2. /\ k \in Keys /\ now[s] \in Nat /\ st = StateOf(k)
          /\ h \in History /\ st \in State
        BY DEF Dispatches, TypeOK, Message, ThrottleInv, LocalIsState
    <2>3. Remembered(k)
        BY <2>2 DEF ThrottleInv
    <2>4. /\ h.dispatched # None => st.recvd # None /\ h.dispatched <= st.recvd
          /\ h.finished # None => st.complete = h.finished
        BY <2>2, <2>3 DEF Remembered
    <2>5. /\ h.dispatched \in Maybe(Int) /\ h.finished \in Maybe(Int)
          /\ st.recvd \in Maybe(Int) /\ st.complete \in Maybe(Int)
        BY <2>2 DEF History, State, Time
    <2>6. /\ st.recvd # None => now[s] - st.recvd >= ReceivedThrottle
          /\ st.complete # None => now[s] - st.complete >= CompleteThrottle
        BY <2>1, <2>2, <2>5, ConstantsAssumption
            DEF ReceivedRecently, CompletedRecently, Maybe
    <2> HIDE DEF k, st, h
    <2>7. /\ h.dispatched # None => now[s] - h.dispatched >= ReceivedThrottle
          /\ h.finished # None => now[s] - h.finished >= CompleteThrottle
        BY <2>2, <2>4, <2>5, <2>6, ConstantsAssumption DEF Maybe
    <2> QED
        BY <2>7 DEF h, k
<1> QED
    BY <1>1, <1>2, <1>3, <1>4, TimesStep, TypeCorrect, PTL
        DEF Spec, ThrottlesRespected, ReceivedThrottleRespected,
            CompleteThrottleRespected

-----------------------------------------------------------------------------
(* The settled state *)

\* Only a test that was asked for is polled and logged.
LogsAreKnown(k) ==
    cache[k] = None =>
        /\ history[k].report = None
        /\ \A i \in DOMAIN workQueue :
            workQueue[i].key = k => workQueue[i].state = "TASK"
        /\ \A s \in Supervisors :
            pc[s] # "idle" /\ msg[s].key = k => msg[s].state = "TASK"
        /\ \A job \in JobsInFlight : job.key # k

\* Whether a message says which driver works for k, and what it says.
Tells(m, k) ==
    m.key = k /\ (m.state = "INFO" \/ (m.state = "ERRORED" /\ m.error = NoDriver))
Told(m) == IF m.state = "INFO" THEN m.driver ELSE None

Silent(q, k) == \A i \in DOMAIN q : ~Tells(q[i], k)

\* The last message of q that says which driver works says d.
LastSays(q, k, d) ==
    \A i \in DOMAIN q :
        /\ Tells(q[i], k)
        /\ \A j \in DOMAIN q : j > i => ~Tells(q[j], k)
        => Told(q[i]) = d

\* The last message that says which driver works, be it in the queue, in the
\* hands of the supervisor or in the cache already, says what was reported last.
LastTold(k) ==
    /\ LastSays(workQueue, k, history[k].report)
    /\ Silent(workQueue, k) =>
        \A s \in Supervisors :
            IF pc[s] # "idle" /\ Tells(msg[s], k)
            THEN Told(msg[s]) = history[k].report
            ELSE StateOf(k).last_successful_driver = history[k].report

Starts(m, k) == m.key = k /\ m.state = "PROCESSING"
Ends(m, k) == m.key = k /\ m.state \in {"COMPLETE", "ERRORED"}
Active(k) == \E w \in Workers : running[w] # None /\ running[w].job.key = k

EndsIn(q, k) == \E j \in DOMAIN q : Ends(q[j], k)
StartsFollowed(q, k, active) ==
    \A i \in DOMAIN q : Starts(q[i], k) =>
        active \/ \E j \in DOMAIN q : j > i /\ Ends(q[j], k)

\* Every notice of a start, and every mark one has left, has an end of a poll of
\* the same test behind it, or a worker that will send one.
StartsEnd(k) ==
    /\ StartsFollowed(workQueue, k, Active(k))
    /\ \A s \in Supervisors :
        \/ pc[s] # "idle" /\ Starts(msg[s], k)
        \/ StateOf(k).started # None /\ ~(pc[s] # "idle" /\ Ends(msg[s], k))
        => Active(k) \/ EndsIn(workQueue, k)

SettleInv ==
    /\ edit = None /\ LocalIsState
    /\ \A k \in Keys : LogsAreKnown(k) /\ LastTold(k) /\ StartsEnd(k)

\* A queue that loses its head.
LEMMA TailFacts ==
    ASSUME NEW q \in Seq(Message), q # <<>>
    PROVE  /\ 1 \in DOMAIN q /\ Head(q) = q[1]
           /\ \A i \in DOMAIN Tail(q) : i+1 \in DOMAIN q /\ Tail(q)[i] = q[i+1]
           /\ \A i \in DOMAIN q : i # 1 =>
                i-1 \in DOMAIN Tail(q) /\ Tail(q)[i-1] = q[i]
           /\ DOMAIN q \subseteq Nat /\ DOMAIN Tail(q) \subseteq Nat
           /\ \A i \in DOMAIN q : i >= 1
OBVIOUS

\* A queue that gets one more message.
LEMMA AppendFacts ==
    ASSUME NEW q \in Seq(Message), NEW x
    PROVE  \E n \in Nat :
            /\ DOMAIN Append(q, x) = DOMAIN q \cup {n}
            /\ Append(q, x)[n] = x
            /\ \A i \in DOMAIN q : i \in Nat /\ i < n /\ Append(q, x)[i] = q[i]
<1>1. Len(q) + 1 \in Nat
    OBVIOUS
<1> QED
    BY <1>1

\* What is told by a queue without its head.
LEMMA TellsTail ==
    ASSUME NEW q \in Seq(Message), q # <<>>, NEW k, NEW d, LastSays(q, k, d)
    PROVE  /\ LastSays(Tail(q), k, d)
           /\ Silent(Tail(q), k) =>
                IF Tells(Head(q), k) THEN Told(Head(q)) = d ELSE Silent(q, k)
<1>1. LastSays(Tail(q), k, d)
    <2> SUFFICES ASSUME NEW i \in DOMAIN Tail(q), Tells(Tail(q)[i], k),
                        \A j \in DOMAIN Tail(q) : j > i => ~Tells(Tail(q)[j], k)
                 PROVE  Told(Tail(q)[i]) = d
        BY DEF LastSays
    <2>1. i \in Nat /\ i+1 \in DOMAIN q /\ Tail(q)[i] = q[i+1]
        BY TailFacts
    <2>2. ASSUME NEW j \in DOMAIN q, j > i+1
          PROVE  ~Tells(q[j], k)
        <3>1. j \in Nat /\ j # 1 /\ j-1 > i
            BY <2>1, <2>2, TailFacts
        <3>2. j-1 \in DOMAIN Tail(q) /\ Tail(q)[j-1] = q[j]
            BY Zenon, <3>1, TailFacts
        <3> QED
            BY <3>1, <3>2
    <2> QED
        BY <2>1, <2>2 DEF LastSays
<1>2. ASSUME Silent(Tail(q), k)
      PROVE  \A j \in DOMAIN q : j # 1 => ~Tells(q[j], k)
    BY Zenon, <1>2, TailFacts DEF Silent
<1>3. ASSUME Silent(Tail(q), k), Tells(Head(q), k)
      PROVE  Told(Head(q)) = d
    <2>1. \A j \in DOMAIN q : j > 1 => ~Tells(q[j], k)
        BY <1>2, <1>3
    <2> QED
        BY <1>3, <2>1, TailFacts DEF LastSays
<1>4. ASSUME Silent(Tail(q), k), ~Tells(Head(q), k)
      PROVE  Silent(q, k)
    BY <1>2, <1>4, TailFacts DEF Silent
<1> QED
    BY <1>1, <1>3, <1>4

\* What is told by a queue with one more message.
LEMMA TellsAppend ==
    ASSUME NEW q \in Seq(Message), NEW x, NEW k, NEW d, LastSays(q, k, d)
    PROVE  /\ Tells(x, k) => /\ LastSays(Append(q, x), k, Told(x))
                             /\ ~Silent(Append(q, x), k)
           /\ ~Tells(x, k) => /\ LastSays(Append(q, x), k, d)
                              /\ Silent(Append(q, x), k) => Silent(q, k)
<1> DEFINE r == Append(q, x)
<1>1. PICK n \in Nat :
        /\ DOMAIN r = DOMAIN q \cup {n} /\ r[n] = x
        /\ \A i \in DOMAIN q : i \in Nat /\ i < n /\ r[i] = q[i]
    BY AppendFacts
<1> HIDE DEF r
<1>2. ASSUME Tells(x, k)
      PROVE  LastSays(r, k, Told(x)) /\ ~Silent(r, k)
    <2>1. \A i \in DOMAIN r : Tells(r[i], k) /\
            (\A j \in DOMAIN r : j > i => ~Tells(r[j], k)) => i = n
        BY <1>1, <1>2
    <2> QED
        BY <1>1, <1>2, <2>1 DEF LastSays, Silent
<1>3. ASSUME ~Tells(x, k)
      PROVE  LastSays(r, k, d) /\ (Silent(r, k) => Silent(q, k))
    <2>1. Silent(r, k) => Silent(q, k)
        BY <1>1 DEF Silent
    <2>2. ASSUME NEW i \in DOMAIN r, Tells(r[i], k),
                 \A j \in DOMAIN r : j > i => ~Tells(r[j], k)
          PROVE  Told(r[i]) = d
        <3>1. i \in DOMAIN q /\ r[i] = q[i]
            BY <1>1, <1>3, <2>2
        <3>2. \A j \in DOMAIN q : j > i => ~Tells(q[j], k)
            BY <1>1, <2>2
        <3> QED
            BY <2>2, <3>1, <3>2 DEF LastSays
    <2> QED
        BY <2>1, <2>2 DEF LastSays
<1> QED
    BY <1>2, <1>3 DEF r

\* Starts and ends in a queue without its head ...
LEMMA EndsTail ==
    ASSUME NEW q \in Seq(Message), q # <<>>, NEW k, NEW active \in BOOLEAN,
           StartsFollowed(q, k, active)
    PROVE  /\ StartsFollowed(Tail(q), k, active)
           /\ Starts(Head(q), k) => active \/ EndsIn(Tail(q), k)
           /\ EndsIn(q, k) => Ends(Head(q), k) \/ EndsIn(Tail(q), k)
<1>1. ASSUME NEW i \in DOMAIN Tail(q), Starts(Tail(q)[i], k), ~active
      PROVE  \E j \in DOMAIN Tail(q) : j > i /\ Ends(Tail(q)[j], k)
    <2>1. i+1 \in DOMAIN q /\ Starts(q[i+1], k) /\ i \in Nat
        BY <1>1, TailFacts
    <2>2. PICK j \in DOMAIN q : j > i+1 /\ Ends(q[j], k)
        BY <1>1, <2>1 DEF StartsFollowed
    <2>3. j-1 \in DOMAIN Tail(q) /\ Tail(q)[j-1] = q[j] /\ j-1 > i
        BY <2>1, <2>2, TailFacts
    <2> QED
        BY <2>2, <2>3
<1>2. ASSUME Starts(Head(q), k), ~active
      PROVE  EndsIn(Tail(q), k)
    <2>1. PICK j \in DOMAIN q : j > 1 /\ Ends(q[j], k)
        BY <1>2, TailFacts DEF StartsFollowed
    <2>2. j # 1
        BY <2>1, TailFacts
    <2>3. j-1 \in DOMAIN Tail(q) /\ Tail(q)[j-1] = q[j]
        BY <2>2, TailFacts
    <2> QED
        BY <2>1, <2>3 DEF EndsIn
<1>3. ASSUME EndsIn(q, k), ~Ends(Head(q), k)
      PROVE  EndsIn(Tail(q), k)
    <2>1. PICK j \in DOMAIN q : Ends(q[j], k)
        BY <1>3 DEF EndsIn
    <2>2. j # 1
        BY <1>3, <2>1, TailFacts
    <2>3. j-1 \in DOMAIN Tail(q) /\ Tail(q)[j-1] = q[j]
        BY <2>2, TailFacts
    <2> QED
        BY <2>1, <2>3 DEF EndsIn
<1> QED
    BY <1>1, <1>2, <1>3 DEF StartsFollowed

\* ... and with one more message, after which a poll may be active or not.
LEMMA EndsAppend ==
    ASSUME NEW q \in Seq(Message), NEW x, NEW k, NEW active \in BOOLEAN,
           NEW later \in BOOLEAN, StartsFollowed(q, k, active),
           active => later \/ Ends(x, k), Starts(x, k) => later
    PROVE  /\ StartsFollowed(Append(q, x), k, later)
           /\ active \/ EndsIn(q, k) => later \/ EndsIn(Append(q, x), k)
<1> DEFINE r == Append(q, x)
           n == Len(q) + 1
<1>1. /\ n \in Nat /\ DOMAIN r = DOMAIN q \cup {n} /\ r[n] = x
      /\ \A i \in DOMAIN q : i \in Nat /\ i < n /\ r[i] = q[i]
    OBVIOUS
<1> HIDE DEF r, n
<1>2. ASSUME NEW i \in DOMAIN r, Starts(r[i], k), ~later
      PROVE  \E j \in DOMAIN r : j > i /\ Ends(r[j], k)
    <2>1. i \in DOMAIN q /\ Starts(q[i], k) /\ i < n
        BY <1>1, <1>2
    <2>2. CASE Ends(x, k)
        BY <1>1, <2>1, <2>2
    <2>3. CASE ~active
        BY <1>1, <2>1, <2>3 DEF StartsFollowed
    <2> QED
        BY <1>2, <2>2, <2>3
<1>3. active \/ EndsIn(q, k) => later \/ EndsIn(r, k)
    BY <1>1 DEF EndsIn
<1> QED
    BY <1>2, <1>3 DEF StartsFollowed, r

\* What a message that is sent means for the test k.
Sends(x, k) ==
    /\ workQueue' = Append(workQueue, x)
    /\ UNCHANGED <<cache, pc, msg>>
    /\ history'[k].report = IF Tells(x, k) THEN Told(x) ELSE history[k].report
    /\ Active(k) => Active(k)' \/ Ends(x, k)
    /\ Starts(x, k) => Active(k)'
    /\ x.state # "TASK" => \E job \in JobsInFlight : job.key = x.key

Undone ==
    UNCHANGED <<workQueue, running, pollQueue, cache, pc, msg, history>>

\* A report changes what was last reported, of one test.
LEMMA ReportFields ==
    ASSUME NEW hist \in [Keys -> History], NEW k \in Keys, NEW kk \in Keys
    PROVE  /\ \A r : [hist EXCEPT ![kk].report = r][k].report =
                        IF k = kk THEN r ELSE hist[k].report
           /\ \A r, D : [hist EXCEPT ![kk].report = r,
                                     ![kk].succeeded = @ \cup D][k].report =
                        IF k = kk THEN r ELSE hist[k].report
<1>1. hist[k] \in History /\ hist[kk] \in History
    OBVIOUS
<1>2. ASSUME NEW r
      PROVE  [hist EXCEPT ![kk].report = r][k].report =
                IF k = kk THEN r ELSE hist[k].report
    BY <1>1 DEF History
<1>3. ASSUME NEW r, NEW D
      PROVE  [hist EXCEPT ![kk].report = r, ![kk].succeeded = @ \cup D][k].report =
                IF k = kk THEN r ELSE hist[k].report
    <2> DEFINE h == [hist EXCEPT ![kk].report = r]
               new == [h EXCEPT ![kk].succeeded = @ \cup D]
    <2>1. new = [hist EXCEPT ![kk].report = r, ![kk].succeeded = @ \cup D]
        OBVIOUS
    <2>2. k \in DOMAIN h /\ h[k] \in [dispatched : Maybe(Time), finished : Maybe(Time),
                        report : Maybe(Drivers) \cup {r},
                        succeeded : SUBSET Drivers, ordered : SUBSET Drivers]
        BY <1>1 DEF History
    <2>3. h[k].report = IF k = kk THEN r ELSE hist[k].report
        BY <1>2
    <2> HIDE DEF h
    <2>4. new[k].report = h[k].report
        BY <2>2
    <2> HIDE DEF new
    <2> QED
        BY <2>1, <2>3, <2>4
<1> QED
    BY Zenon, <1>2, <1>3

\* What a worker's step means for a test.
LEMMA WorkerSends ==
    ASSUME ~WorkerLoss, TypeOK, NEW w \in Workers, WorkerStep(w), NEW k \in Keys
    PROVE  \E x \in Message : Sends(x, k)
<1>1. history \in [Keys -> History]
    BY DEF TypeOK
<1>2. CASE StartPoll(w)
    <2> DEFINE job == Head(pollQueue)
    <2>1. job \in Job /\ job.key \in Keys /\ job = pollQueue[1] /\ 1 \in DOMAIN pollQueue
        <3>1. pollQueue \in Seq(Job) /\ pollQueue # <<>>
            BY <1>2 DEF StartPoll, TypeOK
        <3>2. job \in Job /\ job = pollQueue[1] /\ 1 \in DOMAIN pollQueue
            BY <3>1
        <3> QED
            BY <3>2 DEF Job
    <2>2. PICK st \in StartNotices : workQueue' = Append(workQueue, Notice(job.key, st))
        BY <1>2 DEF StartPoll
    <2>3. st \in StartStates
        BY ConstantsAssumption
    <2>4. /\ running[w] = None
          /\ running' = [running EXCEPT ![w] = [job |-> job, reported |-> FALSE]]
          /\ UNCHANGED <<cache, pc, msg, history>>
        BY <1>2 DEF StartPoll, supervisorVars
    <2>5. [job |-> job, reported |-> FALSE] # None
        <3>1. [job |-> job, reported |-> FALSE] \in Poll
            BY <2>1 DEF Poll
        <3> QED
            BY Zenon, <3>1, ConstantsAssumption
    <2> HIDE DEF job
    <2>6. job \in JobsInFlight
        BY <2>1 DEF JobsInFlight
    <2>7. running'[w] # None /\ running'[w].job = job
        BY <2>4, <2>5 DEF TypeOK
    <2>8. Active(k) => Active(k)'
        BY <2>4 DEF Active, TypeOK
    <2>9. job.key = k => Active(k)'
        BY <2>7 DEF Active
    <2>10. ~Tells(Notice(job.key, st), k)
        BY <2>3 DEF Tells, Notice, StartStates
    <2>11. Starts(Notice(job.key, st), k) => job.key = k
        BY DEF Starts, Notice
    <2>12. Notice(job.key, st) \in Message /\ Notice(job.key, st).key = job.key
        BY Zenon, <2>1, <2>3, MessageTypes DEF Notice
    <2> DEFINE x == Notice(job.key, st)
    <2>13. /\ Active(k) => Active(k)' \/ Ends(x, k)
           /\ Starts(x, k) => Active(k)'
           /\ \E j \in JobsInFlight : j.key = x.key
        BY Zenon, <2>6, <2>8, <2>9, <2>11, <2>12
    <2> QED
        BY Zenon, <2>2, <2>4, <2>10, <2>12, <2>13 DEF Sends
<1>3. CASE ReportSuccess(w)
    <2> DEFINE kk == running[w].job.key
    <2>1. PICK i \in DOMAIN running[w].job.drivers :
            /\ workQueue' = Append(workQueue, Success(kk, running[w].job.drivers[i]))
            /\ running' = [running EXCEPT ![w].reported = TRUE]
            /\ history' = [history EXCEPT
                    ![kk].report = running[w].job.drivers[i],
                    ![kk].succeeded = @ \cup {running[w].job.drivers[i]}]
        BY Zenon, <1>3 DEF ReportSuccess
    <2> DEFINE d == running[w].job.drivers[i]
    <2>2. running[w] \in Poll /\ running[w] # None
        BY <1>3 DEF ReportSuccess, TypeOK, Maybe
    <2>3. kk \in Keys /\ d \in Drivers
        BY <2>1, <2>2 DEF Poll, Job
    <2>4. running[w].job \in JobsInFlight
        BY <2>2 DEF JobsInFlight
    <2>5. Active(k) => Active(k)'
        <3>1. ASSUME NEW v \in Workers, running[v] # None
              PROVE  running'[v] # None /\ running'[v].job = running[v].job
            <4>1. CASE v = w
                <5>1. running'[w] = [running[w] EXCEPT !.reported = TRUE]
                    BY <2>1 DEF TypeOK
                <5>2. running'[w] \in Poll /\ running'[w].job = running[w].job
                    BY Zenon, <2>2, <5>1 DEF Poll
                <5> QED
                    BY <4>1, <5>2, ConstantsAssumption
            <4>2. CASE v # w
                BY <2>1, <3>1, <4>2 DEF TypeOK
            <4> QED
                BY <4>1, <4>2
        <3> QED
            BY <3>1 DEF Active
    <2>6. UNCHANGED <<cache, pc, msg>>
        BY <1>3 DEF ReportSuccess, supervisorVars
    <2>7. Success(kk, d) \in Message
        BY <2>3, MessageTypes
    <2>8. history'[k].report = IF k = kk THEN d ELSE history[k].report
        <3>1. history' = [history EXCEPT ![kk].report = d, ![kk].succeeded = @ \cup {d}]
            BY <2>1
        <3> HIDE DEF d, kk
        <3> QED
            BY <1>1, <2>3, <3>1, ReportFields
    <2>9. /\ Tells(Success(kk, d), k) <=> k = kk
          /\ Told(Success(kk, d)) = d
          /\ ~Starts(Success(kk, d), k) /\ Success(kk, d).key = kk
        BY DEF Tells, Told, Success, Starts
    <2> DEFINE x == Success(kk, d)
    <2>10. workQueue' = Append(workQueue, x)
        BY <2>1
    <2> HIDE DEF x, kk, d
    <2>11. history'[k].report = IF Tells(x, k) THEN Told(x) ELSE history[k].report
        BY <2>8, <2>9 DEF x
    <2>12. Active(k) => Active(k)' \/ Ends(x, k)
        BY Zenon, <2>5
    <2>13. ~Starts(x, k) /\ \E job \in JobsInFlight : job.key = x.key
        BY Zenon, <2>4, <2>9 DEF x, kk
    <2>14. x \in Message
        BY Zenon, <2>7 DEF x
    <2> QED
        BY Zenon, <2>6, <2>10, <2>11, <2>12, <2>13, <2>14 DEF Sends
<1>4. CASE FinishPoll(w)
    <2> DEFINE kk == running[w].job.key
    <2>1. /\ running[w] \in Poll /\ running[w] # None /\ UNCHANGED <<cache, pc, msg>>
          /\ running' = [running EXCEPT ![w] = None]
        BY <1>4 DEF FinishPoll, TypeOK, Maybe, supervisorVars
    <2>2. kk \in Keys
        BY <2>1 DEF Poll, Job
    <2>3. running[w].job \in JobsInFlight
        BY <2>1 DEF JobsInFlight
    <2>4. Active(k) => Active(k)' \/ kk = k
        BY <2>1 DEF Active, TypeOK
    <2>5. CASE /\ workQueue' = Append(workQueue, Notice(kk, "COMPLETE"))
               /\ UNCHANGED history
        <3>1. /\ ~Tells(Notice(kk, "COMPLETE"), k) /\ ~Starts(Notice(kk, "COMPLETE"), k)
              /\ Ends(Notice(kk, "COMPLETE"), k) <=> kk = k
              /\ Notice(kk, "COMPLETE").key = kk
            BY DEF Tells, Starts, Ends, Notice
        <3>2. Notice(kk, "COMPLETE") \in Message
            BY <2>2, MessageTypes
        <3> QED
            BY <2>1, <2>3, <2>4, <2>5, <3>1, <3>2 DEF Sends
    <2>6. ASSUME NEW e \in {NoDriver, OtherError},
                 workQueue' = Append(workQueue, Failure(kk, e)),
                 history' = [history EXCEPT ![kk].report =
                                IF e = NoDriver THEN None ELSE @]
          PROVE  \E x \in Message : Sends(x, k)
        <3>1. /\ Tells(Failure(kk, e), k) <=> (k = kk /\ e = NoDriver)
              /\ Told(Failure(kk, e)) = None
              /\ ~Starts(Failure(kk, e), k)
              /\ Ends(Failure(kk, e), k) <=> kk = k
              /\ Failure(kk, e).key = kk
            BY DEF Tells, Told, Starts, Ends, Failure
        <3>2. Failure(kk, e) \in Message
            BY <2>2, MessageTypes
        <3>3. history'[k].report = IF k = kk
                    THEN (IF e = NoDriver THEN None ELSE history[kk].report)
                    ELSE history[k].report
            <4> DEFINE r == IF e = NoDriver THEN None ELSE history[kk].report
            <4>1. history' = [history EXCEPT ![kk].report = r]
                BY <2>6
            <4> HIDE DEF r, kk
            <4>2. history'[k].report = IF k = kk THEN r ELSE history[k].report
                BY <1>1, <2>2, <4>1, ReportFields
            <4> QED
                BY <4>2 DEF r
        <3> QED
            BY <2>1, <2>3, <2>4, <2>6, <3>1, <3>2, <3>3 DEF Sends
    <2> QED
        BY <1>4, <2>5, <2>6 DEF FinishPoll
<1>5. ~LosePoll(w)
    BY DEF LosePoll
<1> QED
    BY <1>2, <1>3, <1>4, <1>5 DEF WorkerStep

\* The kinds of steps.
LEMMA Kinds ==
    ASSUME Alone, ~WorkerLoss, TypeOK, edit = None, [Next]_vars, NEW k \in Keys
    PROVE  \/ \E s \in Supervisors : SupervisorStep(s)
           \/ \E x \in Message : Sends(x, k)
           \/ Undone
<1>1. ASSUME NEW kk \in Keys, MakeRequest(kk)
      PROVE  \E x \in Message : Sends(x, k)
    <2>1. Request(kk) \in Message
        BY MessageTypes
    <2>2. ~Tells(Request(kk), k) /\ ~Starts(Request(kk), k) /\ Request(kk).state = "TASK"
        BY DEF Tells, Starts, Request
    <2>3. Active(k)' = Active(k)
        BY <1>1 DEF MakeRequest, Active
    <2> QED
        BY <1>1, <2>1, <2>2, <2>3 DEF MakeRequest, Sends, supervisorVars
<1>2. Tick \/ UNCHANGED vars => Undone
    BY DEF Tick, Undone, vars, supervisorVars
<1>3. ~StoreEdit /\ \A kk \in Keys : ~LoseState(kk) /\ ~FetchToEdit(kk)
    BY DEF StoreEdit, LoseState, FetchToEdit, Alone
<1> QED
    BY <1>1, <1>2, <1>3, WorkerSends DEF Next

\* Taking a message changes nothing but the queue and the supervisor.
LEMMA Taken ==
    ASSUME Alone, TypeOK, NEW s \in Supervisors, Take(s)
    PROVE  /\ workQueue \in Seq(Message) /\ workQueue # <<>>
           /\ workQueue' = Tail(workQueue)
           /\ \A v \in Supervisors :
                pc[v] = "idle" /\ pc'[v] # "idle" /\ msg'[v] = Head(workQueue)
           /\ UNCHANGED <<cache, running, pollQueue, history>>
BY DEF Alone, Take, TypeOK

\* What the other steps of the supervisor leave alone.
LEMMA Supervised ==
    ASSUME Alone, TypeOK, NEW s \in Supervisors, SupervisorStep(s), ~Take(s),
           NEW k \in Keys
    PROVE  /\ UNCHANGED <<workQueue, running>>
           /\ history'[k].report = history[k].report
           /\ Active(k)' = Active(k)
           /\ pc[s] # "idle" /\ msg[s].key \in Keys
           /\ \/ GetState(s)
              \/ pc'[s] = "idle" /\ (DropLog(s) \/ ValidateTask(s) \/ ProcessLog(s))
<1>1. UNCHANGED <<workQueue, running>>
    BY DEF SupervisorStep, GetState, DropLog, ValidateTask, ProcessLog
<1>2. pc[s] # "idle" /\ msg[s].key \in Keys
    BY DEF SupervisorStep, GetState, DropLog, ValidateTask, ProcessLog, TypeOK,
        Message
<1>3. history'[k].report = history[k].report
    BY <1>2 DEF SupervisorStep, GetState, DropLog, ValidateTask, ProcessLog,
        TypeOK, History
<1>4. pc'[s] = "idle" \/ GetState(s)
    BY DEF SupervisorStep, DropLog, ValidateTask, ProcessLog, Idle, TypeOK
<1> QED
    BY <1>1, <1>2, <1>3, <1>4 DEF SupervisorStep, Active

\* The state of a key after a step of the supervisor that is not its own.
LEMMA StateKept ==
    ASSUME Alone, TypeOK, NEW s \in Supervisors, SupervisorStep(s),
           NEW k \in Keys, k # msg[s].key \/ Take(s) \/ GetState(s) \/ DropLog(s)
    PROVE  cache'[k] = cache[k] /\ StateOf(k)' = StateOf(k)
<1>1. cache'[k] = cache[k]
    BY DEF SupervisorStep, Take, GetState, DropLog, ValidateTask, ProcessLog,
        Commit, TypeOK
<1> QED
    BY <1>1 DEF StateOf

\* A state that was committed is in the cache.
LEMMA CacheWritten ==
    ASSUME TypeOK, NEW s \in Supervisors, ValidateTask(s) \/ ProcessLog(s)
    PROVE  cache'[msg[s].key] # None
<1> DEFINE k == msg[s].key
<1>1. /\ k \in Keys /\ local[s] \in State /\ now[s] \in Nat /\ msg[s] \in Message
    BY Zenon DEF ValidateTask, ProcessLog, TypeOK, Message
<1>2. \/ \E delay \in ReprobeDelays :
            cache'[k] = Validated(local[s], k, now[s], delay)
      \/ cache'[k] = Logged(local[s], msg[s], now[s])
    BY <1>1 DEF ValidateTask, ProcessLog, Commit, TypeOK
<1>3. cache'[k] \in State
    BY <1>1, <1>2, ValidatedType, LoggedType
<1> QED
    BY <1>3, ConstantsAssumption

\* A job keeps its test.
LEMMA JobKeys ==
    ASSUME Alone, ~WorkerLoss, TypeOK, edit = None, [Next]_vars, NEW k \in Keys,
           cache'[k] = None, \A job \in JobsInFlight : job.key # k
    PROVE  \A job \in JobsInFlight' : job.key # k
<1>1. ASSUME NEW s \in Supervisors, ValidateTask(s)
      PROVE  \A job \in JobsInFlight' : job.key # k
    <2>1. msg[s].key # k
        BY <1>1, CacheWritten
    <2>2. PICK delay \in ReprobeDelays :
            JobsInFlight' \subseteq JobsInFlight \cup {NewJob(s, delay)}
        BY <1>1, JobsAdded
    <2>3. NewJob(s, delay).key = msg[s].key
        BY DEF NewJob, ProbeJob, KnownJob
    <2> QED
        BY <2>1, <2>2, <2>3
<1>2. CASE JobsInFlight' \subseteq JobsInFlight
    BY <1>2
<1> QED
    BY <1>1, <1>2, JobsKept DEF Next, SupervisorStep

\* The logs of a test nobody asked for do not come.
LEMMA LogsStep ==
    ASSUME Alone, ~WorkerLoss, TypeOK, edit = None, [Next]_vars, NEW k \in Keys,
           LogsAreKnown(k)
    PROVE  LogsAreKnown(k)'
<1> SUFFICES ASSUME cache'[k] = None
             PROVE  LogsAreKnown(k)'
    BY DEF LogsAreKnown
<1>1. cache[k] = None
    <2>1. \A s \in Supervisors :
            ~(msg[s].key = k /\ (ValidateTask(s) \/ ProcessLog(s)))
        BY CacheWritten
    <2> QED
        BY <2>1, Writers
<1>2. /\ history[k].report = None
      /\ \A i \in DOMAIN workQueue :
            workQueue[i].key = k => workQueue[i].state = "TASK"
      /\ \A s \in Supervisors :
            pc[s] # "idle" /\ msg[s].key = k => msg[s].state = "TASK"
      /\ \A job \in JobsInFlight : job.key # k
    BY <1>1 DEF LogsAreKnown
<1>3. \A job \in JobsInFlight' : job.key # k
    BY <1>2, JobKeys
<1>4. ASSUME NEW s \in Supervisors, Take(s)
      PROVE  LogsAreKnown(k)'
    <2>1. Head(workQueue).key = k => Head(workQueue).state = "TASK"
        BY <1>2, <1>4, Taken, TailFacts
    <2>2. \A i \in DOMAIN Tail(workQueue) :
            Tail(workQueue)[i].key = k => Tail(workQueue)[i].state = "TASK"
        BY <1>2, <1>4, Taken, TailFacts
    <2> QED
        BY <1>2, <1>3, <1>4, <2>1, <2>2, Taken DEF LogsAreKnown
<1>5. ASSUME NEW s \in Supervisors, SupervisorStep(s), ~Take(s)
      PROVE  LogsAreKnown(k)'
    <2>1. /\ workQueue' = workQueue /\ history'[k].report = history[k].report
          /\ pc[s] # "idle"
          /\ GetState(s) \/ pc'[s] = "idle"
        BY <1>5, Supervised
    <2>2. \A v \in Supervisors : v = s
        BY DEF Alone
    <2>3. GetState(s) => msg' = msg
        BY DEF GetState
    <2> QED
        BY <1>2, <1>3, <2>1, <2>2, <2>3 DEF LogsAreKnown
<1>6. ASSUME NEW x \in Message, Sends(x, k)
      PROVE  LogsAreKnown(k)'
    <2>1. x.key = k => x.state = "TASK"
        BY <1>2, <1>6 DEF Sends
    <2>2. history'[k].report = None
        BY <1>2, <1>6, <2>1 DEF Sends, Tells
    <2>3. workQueue \in Seq(Message) /\ workQueue' = Append(workQueue, x)
        BY <1>6 DEF TypeOK, Sends
    <2>4. \A i \in DOMAIN workQueue' :
            workQueue'[i].key = k => workQueue'[i].state = "TASK"
        BY <1>2, <2>1, <2>3, AppendFacts
    <2> QED
        BY <1>2, <1>3, <1>6, <2>2, <2>4 DEF Sends, LogsAreKnown
<1>7. CASE Undone
    BY <1>2, <1>3, <1>7 DEF Undone, LogsAreKnown
<1> QED
    BY <1>4, <1>5, <1>6, <1>7, Kinds

\* Processing a log that tells of a driver makes the state say what it tells.
LEMMA LoggedTells ==
    ASSUME NEW st \in State, NEW m \in Message, NEW t \in Nat, NEW k \in Keys,
           m.key = k, m.state # "TASK"
    PROVE  /\ Logged(st, m, t).last_successful_driver =
                IF Tells(m, k) THEN Told(m) ELSE st.last_successful_driver
           /\ Logged(st, m, t).started =
                IF Starts(m, k) THEN t ELSE IF Ends(m, k) THEN None ELSE st.started
<1>1. m.state \in {"RECEIVED", "PROCESSING", "INFO", "COMPLETE", "ERRORED"}
    BY DEF Message, StartStates
<1> QED
    BY <1>1 DEF Logged, Tells, Told, Starts, Ends, State

\* What the supervisor's steps make of the state of a test.
LEMMA StateMoves ==
    ASSUME Alone, TypeOK, LocalIsState, NEW s \in Supervisors, SupervisorStep(s),
           NEW k \in Keys, LogsAreKnown(k)
    PROVE  IF pc'[s] = "idle" /\ msg[s].key = k /\ msg[s].state # "TASK"
           THEN /\ StateOf(k)'.last_successful_driver =
                    IF Tells(msg[s], k) THEN Told(msg[s])
                    ELSE StateOf(k).last_successful_driver
                /\ Ends(msg[s], k) => StateOf(k)'.started = None
                /\ ~Ends(msg[s], k) /\ ~Starts(msg[s], k) =>
                    StateOf(k)'.started = StateOf(k).started
           ELSE /\ StateOf(k)'.last_successful_driver =
                    StateOf(k).last_successful_driver
                /\ StateOf(k)'.started \in {StateOf(k).started, None}
<1>1. StateOf(k) \in State
    BY StateOfType
<1>2. CASE Take(s) \/ GetState(s)
    <2>1. pc'[s] # "idle"
        BY <1>2 DEF Take, GetState, TypeOK
    <2> QED
        BY <1>2, <2>1, StateKept
<1>3. CASE DropLog(s)
    <2>1. msg[s].key # k
        BY <1>3 DEF DropLog, LogsAreKnown
    <2> QED
        BY <1>3, <2>1, StateKept
<1>4. CASE ValidateTask(s)
    <2>1. msg[s].state = "TASK" /\ now[s] \in Nat
        BY <1>4 DEF ValidateTask, TypeOK
    <2>2. CASE msg[s].key # k
        BY <2>1, <2>2, StateKept
    <2>3. CASE msg[s].key = k
        BY <1>1, <1>4, <2>1, <2>3, StateWritten, ValidatedFields
    <2> QED
        BY <2>2, <2>3
<1>5. CASE ProcessLog(s)
    <2>1. /\ msg[s].state # "TASK" /\ now[s] \in Nat /\ msg[s] \in Message
          /\ pc'[s] = "idle"
        BY <1>5 DEF ProcessLog, Idle, TypeOK
    <2>2. CASE msg[s].key # k
        BY <2>1, <2>2, StateKept
    <2>3. CASE msg[s].key = k
        <3>1. StateOf(k)' = Logged(StateOf(k), msg[s], now[s])
            BY <1>5, <2>3, StateWritten
        <3> DEFINE new == Logged(StateOf(k), msg[s], now[s])
        <3>2. /\ new.last_successful_driver = IF Tells(msg[s], k) THEN Told(msg[s])
                                        ELSE StateOf(k).last_successful_driver
              /\ new.started = IF Starts(msg[s], k) THEN now[s]
                               ELSE IF Ends(msg[s], k) THEN None
                               ELSE StateOf(k).started
            BY <1>1, <2>1, <2>3, LoggedTells
        <3>3. Ends(msg[s], k) => ~Starts(msg[s], k)
            BY DEF Ends, Starts
        <3> HIDE DEF new
        <3>4. /\ Ends(msg[s], k) => new.started = None
              /\ ~Ends(msg[s], k) /\ ~Starts(msg[s], k) =>
                    new.started = StateOf(k).started
            BY <3>2, <3>3
        <3> QED
            BY <2>1, <2>3, <3>1, <3>2, <3>4 DEF new
    <2> QED
        BY <2>2, <2>3
<1> QED
    BY <1>2, <1>3, <1>4, <1>5 DEF SupervisorStep

\* The last report stays the one that will be believed.
LEMMA ToldStep ==
    ASSUME Alone, ~WorkerLoss, TypeOK, edit = None, LocalIsState, [Next]_vars,
           NEW k \in Keys, LogsAreKnown(k), LastTold(k)
    PROVE  LastTold(k)'
<1> DEFINE d == history[k].report
<1>1. workQueue \in Seq(Message) /\ LastSays(workQueue, k, d)
    BY DEF TypeOK, LastTold
<1>2. ASSUME NEW s \in Supervisors, Take(s)
      PROVE  LastTold(k)'
    <2>1. /\ workQueue # <<>> /\ workQueue' = Tail(workQueue)
          /\ \A v \in Supervisors :
                pc[v] = "idle" /\ pc'[v] # "idle" /\ msg'[v] = Head(workQueue)
          /\ UNCHANGED <<cache, history>>
        BY <1>2, Taken
    <2>2. /\ LastSays(Tail(workQueue), k, d)
          /\ Silent(Tail(workQueue), k) =>
                IF Tells(Head(workQueue), k) THEN Told(Head(workQueue)) = d
                ELSE Silent(workQueue, k)
        BY <1>1, <2>1, TellsTail
    <2>3. Silent(workQueue, k) => StateOf(k).last_successful_driver = d
        BY <2>1 DEF LastTold, Alone
    <2>4. StateOf(k)' = StateOf(k)
        BY <2>1 DEF StateOf
    <2> QED
        BY <2>1, <2>2, <2>3, <2>4 DEF LastTold, LastSays, Silent
<1>3. ASSUME NEW s \in Supervisors, SupervisorStep(s), ~Take(s)
      PROVE  LastTold(k)'
    <2>1. /\ workQueue' = workQueue /\ history'[k].report = d /\ pc[s] # "idle"
          /\ \A v \in Supervisors : v = s
        BY <1>3, Supervised DEF Alone
    <2>2. Silent(workQueue, k) =>
            IF Tells(msg[s], k) THEN Told(msg[s]) = d
            ELSE StateOf(k).last_successful_driver = d
        BY <2>1 DEF LastTold
    <2>3. \A v \in Supervisors : Silent(workQueue, k) =>
            IF pc'[v] # "idle" /\ Tells(msg'[v], k) THEN Told(msg'[v]) = d
            ELSE StateOf(k)'.last_successful_driver = d
        <3>1. CASE GetState(s)
            <4>1. msg' = msg /\ pc'[s] # "idle" /\ StateOf(k)' = StateOf(k)
                BY Zenon, <1>3, <3>1, StateKept DEF GetState, TypeOK
            <4> QED
                BY <2>1, <2>2, <4>1
        <3>2. CASE pc'[s] = "idle"
            <4>1. StateOf(k)'.last_successful_driver =
                    IF msg[s].key = k /\ msg[s].state # "TASK" /\ Tells(msg[s], k)
                    THEN Told(msg[s]) ELSE StateOf(k).last_successful_driver
                BY <1>3, <3>2, StateMoves
            <4>2. Tells(msg[s], k) => msg[s].key = k /\ msg[s].state # "TASK"
                BY DEF Tells
            <4> QED
                BY <2>1, <2>2, <3>2, <4>1, <4>2
        <3> QED
            BY <1>3, <3>1, <3>2, Supervised
    <2> QED
        BY <1>1, <2>1, <2>3 DEF LastTold, LastSays, Silent
<1>4. ASSUME NEW x \in Message, Sends(x, k)
      PROVE  LastTold(k)'
    <2>1. /\ workQueue' = Append(workQueue, x) /\ UNCHANGED <<cache, pc, msg>>
          /\ history'[k].report = IF Tells(x, k) THEN Told(x) ELSE d
        BY <1>4 DEF Sends
    <2>2. StateOf(k)' = StateOf(k)
        BY <2>1 DEF StateOf
    <2>3. CASE Tells(x, k)
        <3>1. /\ LastSays(Append(workQueue, x), k, Told(x))
              /\ ~Silent(Append(workQueue, x), k)
            BY <1>1, <2>3, TellsAppend
        <3> QED
            BY <2>1, <2>3, <3>1 DEF LastTold, LastSays, Silent
    <2>4. CASE ~Tells(x, k)
        <3>1. /\ LastSays(Append(workQueue, x), k, d)
              /\ Silent(Append(workQueue, x), k) => Silent(workQueue, k)
            BY <1>1, <2>4, TellsAppend
        <3>2. Silent(workQueue, k) =>
                \A v \in Supervisors :
                    IF pc[v] # "idle" /\ Tells(msg[v], k) THEN Told(msg[v]) = d
                    ELSE StateOf(k).last_successful_driver = d
            BY DEF LastTold
        <3> QED
            BY <2>1, <2>2, <2>4, <3>1, <3>2 DEF LastTold, LastSays, Silent
    <2> QED
        BY <2>3, <2>4
<1>5. CASE Undone
    BY <1>5 DEF Undone, LastTold, LastSays, Silent, StateOf
<1> QED
    BY <1>2, <1>3, <1>4, <1>5, Kinds

\* Every start keeps an end behind it.
LEMMA StartsStep ==
    ASSUME Alone, ~WorkerLoss, TypeOK, edit = None, LocalIsState, [Next]_vars,
           NEW k \in Keys, LogsAreKnown(k), StartsEnd(k)
    PROVE  StartsEnd(k)'
<1>1. /\ workQueue \in Seq(Message) /\ StartsFollowed(workQueue, k, Active(k))
      /\ Active(k) \in BOOLEAN /\ Active(k)' \in BOOLEAN
    BY Zenon DEF TypeOK, StartsEnd, Active
<1>2. ASSUME NEW s \in Supervisors, Take(s)
      PROVE  StartsEnd(k)'
    <2>1. /\ workQueue # <<>> /\ workQueue' = Tail(workQueue)
          /\ \A v \in Supervisors :
                pc[v] = "idle" /\ pc'[v] # "idle" /\ msg'[v] = Head(workQueue)
          /\ UNCHANGED <<cache, running>>
        BY <1>2, Taken
    <2>2. /\ StartsFollowed(Tail(workQueue), k, Active(k))
          /\ Starts(Head(workQueue), k) => Active(k) \/ EndsIn(Tail(workQueue), k)
          /\ EndsIn(workQueue, k) =>
                Ends(Head(workQueue), k) \/ EndsIn(Tail(workQueue), k)
        BY <1>1, <2>1, EndsTail
    <2>3. StateOf(k).started # None => Active(k) \/ EndsIn(workQueue, k)
        BY <2>1 DEF StartsEnd, Alone
    <2>4. StateOf(k)' = StateOf(k) /\ Active(k)' = Active(k)
        BY <2>1 DEF StateOf, Active
    <2> QED
        BY <2>1, <2>2, <2>3, <2>4 DEF StartsEnd, StartsFollowed, EndsIn
<1>3. ASSUME NEW s \in Supervisors, SupervisorStep(s), ~Take(s)
      PROVE  StartsEnd(k)'
    <2>1. /\ workQueue' = workQueue /\ Active(k)' = Active(k) /\ pc[s] # "idle"
          /\ \A v \in Supervisors : v = s
        BY <1>3, Supervised DEF Alone
    <2>2. \/ Starts(msg[s], k)
          \/ StateOf(k).started # None /\ ~Ends(msg[s], k)
          => Active(k) \/ EndsIn(workQueue, k)
        BY <2>1 DEF StartsEnd
    <2>3. \A v \in Supervisors :
            \/ pc'[v] # "idle" /\ Starts(msg'[v], k)
            \/ StateOf(k)'.started # None /\ ~(pc'[v] # "idle" /\ Ends(msg'[v], k))
            => Active(k) \/ EndsIn(workQueue, k)
        <3>1. CASE GetState(s)
            <4>1. msg' = msg /\ pc'[s] # "idle" /\ StateOf(k)' = StateOf(k)
                BY Zenon, <1>3, <3>1, StateKept DEF GetState, TypeOK
            <4> QED
                BY <2>1, <2>2, <4>1
        <3>2. CASE pc'[s] = "idle"
            <4>1. StateOf(k)'.started # None =>
                    \/ Starts(msg[s], k)
                    \/ StateOf(k).started # None /\ ~Ends(msg[s], k)
                <5>1. Starts(msg[s], k) \/ Ends(msg[s], k) =>
                        msg[s].key = k /\ msg[s].state # "TASK"
                    BY DEF Starts, Ends
                <5> QED
                    BY <1>3, <3>2, <5>1, StateMoves
            <4> QED
                BY <2>1, <2>2, <3>2, <4>1
        <3> QED
            BY <1>3, <3>1, <3>2, Supervised
    <2> QED
        BY <1>1, <2>1, <2>3 DEF StartsEnd, StartsFollowed, EndsIn
<1>4. ASSUME NEW x \in Message, Sends(x, k)
      PROVE  StartsEnd(k)'
    <2>1. /\ workQueue' = Append(workQueue, x) /\ UNCHANGED <<cache, pc, msg>>
          /\ Active(k) => Active(k)' \/ Ends(x, k)
          /\ Starts(x, k) => Active(k)'
        BY <1>4 DEF Sends
    <2>2. StateOf(k)' = StateOf(k)
        BY <2>1 DEF StateOf
    <2>3. /\ Active(k)' => StartsFollowed(Append(workQueue, x), k, TRUE)
          /\ ~Active(k)' => StartsFollowed(Append(workQueue, x), k, FALSE)
        BY Zenon, <1>1, <2>1, EndsAppend
    <2>4. Active(k) \/ EndsIn(workQueue, k) =>
            Active(k)' \/ EndsIn(Append(workQueue, x), k)
        <3>1. CASE ~Active(k)'
            BY <1>1, <2>1, <3>1, EndsAppend
        <3> QED
            BY <3>1
    <2>5. \A v \in Supervisors :
            \/ pc[v] # "idle" /\ Starts(msg[v], k)
            \/ StateOf(k).started # None /\ ~(pc[v] # "idle" /\ Ends(msg[v], k))
            => Active(k) \/ EndsIn(workQueue, k)
        BY DEF StartsEnd
    <2> QED
        BY <2>1, <2>2, <2>3, <2>4, <2>5 DEF StartsEnd, StartsFollowed, EndsIn
<1>5. CASE Undone
    BY <1>5 DEF Undone, StartsEnd, StartsFollowed, EndsIn, StateOf, Active
<1> QED
    BY <1>2, <1>3, <1>4, <1>5, Kinds

\* With one supervisor, workers that finish what they take and a memcached that
\* forgets nothing, what is cached of a test agrees with what was last reported
\* of it whenever nothing about it is under way, however polls overlap.
THEOREM AlwaysSettled ==
    ASSUME Alone, ~WorkerLoss
    PROVE  Spec => []SettledState
<1>1. Init => SettleInv
    BY DEF Init, SettleInv, LocalIsState, LogsAreKnown, LastTold, LastSays, Silent,
        StartsEnd, StartsFollowed, EndsIn, StateOf, initial_state, JobsInFlight
<1>2. TypeOK /\ SettleInv /\ [Next]_vars => SettleInv'
    <2> SUFFICES ASSUME TypeOK, SettleInv, [Next]_vars
                 PROVE  SettleInv'
        OBVIOUS
    <2>1. edit = None /\ LocalIsState
        BY DEF SettleInv
    <2>2. ASSUME NEW k \in Keys
          PROVE  LogsAreKnown(k)' /\ LastTold(k)' /\ StartsEnd(k)'
        <3>1. LogsAreKnown(k) /\ LastTold(k) /\ StartsEnd(k)
            BY DEF SettleInv
        <3> QED
            BY <2>1, <3>1, LogsStep, ToldStep, StartsStep
    <2>3. edit' = None /\ LocalIsState'
        BY <2>1, LocalStays
    <2> QED
        BY <2>2, <2>3 DEF SettleInv
<1>3. TypeOK /\ SettleInv => SettledState
    <2> SUFFICES ASSUME TypeOK, SettleInv, NEW k \in Keys, Quiet(k), cache[k] # None
                 PROVE  /\ cache[k].last_successful_driver = history[k].report
                        /\ cache[k].started = None
        BY DEF SettledState
    <2>1. LastTold(k) /\ StartsEnd(k) /\ StateOf(k) = cache[k]
        BY DEF SettleInv, StateOf
    <2>2. Silent(workQueue, k) /\ ~EndsIn(workQueue, k)
        BY DEF Quiet, Silent, EndsIn, Tells, Ends
    <2>3. ~Active(k)
        BY DEF Active, Quiet, JobsInFlight
    <2>4. PICK s \in Supervisors : TRUE
        BY DEF Alone
    <2>5. ~(pc[s] # "idle" /\ Tells(msg[s], k)) /\ ~(pc[s] # "idle" /\ Ends(msg[s], k))
        BY DEF Quiet, Tells, Ends
    <2> QED
        BY <2>1, <2>2, <2>3, <2>5 DEF LastTold, StartsEnd
<1> QED
    BY <1>1, <1>2, <1>3, TypeCorrect, PTL DEF Spec

===============================================================================
