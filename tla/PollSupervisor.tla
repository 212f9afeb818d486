---------------------------- MODULE PollSupervisor ----------------------------
(***************************************************************************)
(* The supervisors of the polling daemon (lib/ptolemy/poller/managers.py). *)
(*                                                                         *)
(* Poll requests from the scheduler and log messages from the poll workers *)
(* arrive in one work queue.  Several supervisors consume it.  Each takes  *)
(* a message, notes the time, fetches the state of the test (one record    *)
(* per <device>:<spec> key) from memcached, computes, and writes the whole *)
(* record back: validate_task for a request, process_log for a log.  The   *)
(* fetch and the write are separate calls, so another supervisor, or the   *)
(* `polld cache` command, can write the record between them.               *)
(*                                                                         *)
(* The poll workers are modelled by what they report: a notice that a job  *)
(* was started, at most one 'success with driver', and one final result.   *)
(***************************************************************************)
EXTENDS Integers, Sequences

CONSTANTS
    Keys,             \* the tests: <device>:<spec>
    Supervisors,      \* supervisor processes (at least two in production)
    Workers,          \* poll workers
    Drivers,
    None,             \* Python's None, and a missing cache entry
    Priorities,       \* driver_priorities: a list of drivers for each key
                      \* whose spec is registered
    ForcedDrivers,    \* forced_drivers: a driver for some of the keys
    ReceivedThrottle, \* received_throttle_time
    CompleteThrottle, \* complete_throttle_time
    InvalidTime,      \* frequency * invalid_time_multiplier
    ReprobeDelays,    \* the delays reprobe_period +/- spread can give
    StartNotices,     \* the states a worker reports when it takes a job
    CacheLoss,        \* may memcached lose an entry?
    Operator,         \* may `polld cache set` be run?
    WorkerLoss,       \* may a worker die in a poll?
    MaxClock,         \* bound: the time at which a behaviour stops
    MaxRequests       \* bound: how many requests are made

VARIABLES
    clock,            \* the time of day
    requests,         \* how many requests have been made
    workQueue,        \* supervised_poll: requests and logs, in order
    pollQueue,        \* the jobs waiting for a worker
    running,          \* the job of each worker
    cache,            \* memcached: the state of each key
    pc, msg, now, local, \* each supervisor's progress, message, time of
                      \* receipt and copy of the state
    edit,             \* the state `polld cache set` has fetched
    history           \* what happened to each key (never read by the code)

supervisorVars == <<pc, msg, now, local>>
vars == <<clock, requests, workQueue, pollQueue, running, cache,
          pc, msg, now, local, edit, history>>

-----------------------------------------------------------------------------
(* Data *)

Time == Int
Maybe(S) == S \cup {None}

\* The cached record.  last_timed_out is written and never read: left out.
State == [recvd : Maybe(Time), started : Maybe(Time), complete : Maybe(Time),
          next_probe : Maybe(Time), last_failed : Maybe(Time),
          last_successful_driver : Maybe(Drivers),
          force_driver : Maybe(Drivers)]

initial_state ==
    [recvd |-> None, started |-> None, complete |-> None,
     next_probe |-> None, last_failed |-> None,
     last_successful_driver |-> None, force_driver |-> None]

NoDriver == "no suitable driver found"
\* Every other error text: 'timed out', 'old test', a failed name lookup.
\* process_log treats them alike.
OtherError == "error"

StartStates == {"RECEIVED", "PROCESSING"}

\* A request has state "TASK"; every other state is that of a log.
Message == [key : Keys,
            state : StartStates \cup {"TASK", "INFO", "COMPLETE", "ERRORED"},
            driver : Maybe(Drivers),
            error : Maybe({NoDriver, OtherError})]

Request(k) == [key |-> k, state |-> "TASK", driver |-> None, error |-> None]
Notice(k, st) == [key |-> k, state |-> st, driver |-> None, error |-> None]
Success(k, d) == [key |-> k, state |-> "INFO", driver |-> d, error |-> None]
Failure(k, e) == [key |-> k, state |-> "ERRORED", driver |-> None, error |-> e]

Job == [key : Keys, drivers : Seq(Drivers), probe : BOOLEAN]
Poll == [job : Job, reported : BOOLEAN]

History == [dispatched : Maybe(Time),  \* validation time of the last dispatch
            finished : Maybe(Time),    \* when the last result was processed
            report : Maybe(Drivers),   \* what the last report sent says
            succeeded : SUBSET Drivers,\* drivers a worker reported
            ordered : SUBSET Drivers]  \* drivers an operator forced

ASSUME ConstantsAssumption ==
    /\ None \notin Int /\ None \notin Drivers
    /\ None \notin {NoDriver, OtherError}
    /\ None \notin State /\ None \notin Poll
    /\ DOMAIN Priorities \subseteq Keys
    /\ Priorities \in [DOMAIN Priorities -> Seq(Drivers)]
    /\ DOMAIN ForcedDrivers \subseteq Keys
    /\ ForcedDrivers \in [DOMAIN ForcedDrivers -> Drivers]
    /\ ReceivedThrottle \in Nat /\ CompleteThrottle \in Nat
    /\ InvalidTime \in Nat
    /\ ReprobeDelays \subseteq Nat /\ ReprobeDelays # {}
    /\ StartNotices \subseteq StartStates
    /\ {CacheLoss, Operator, WorkerLoss} \subseteq BOOLEAN
    /\ MaxClock \in Nat /\ MaxRequests \in Nat

-----------------------------------------------------------------------------
(* Mutated forms of the definitions below, each a plausible slip in the     *)
(* code: the properties have to tell them from the real ones.               *)

\* Throttle on the start of the running poll instead of on the last request.
ReceivedSinceStart(st, t) ==
    st.started # None /\ t - st.started < ReceivedThrottle

\* Move the next probe on from the last one, at every request.
ProbePushedBack(st, k, t, delay) ==
    [st EXCEPT
        !.recvd = t,
        !.next_probe = IF @ = None THEN t + delay ELSE @ + delay,
        !.force_driver = IF k \in DOMAIN ForcedDrivers
                         THEN ForcedDrivers[k] ELSE @]

\* Forget the forced drivers.
ReprobeUnlessKnown(st, st2, t) ==
    st.next_probe = None \/ st.next_probe < t \/ st.last_successful_driver = None

\* Fall back on the list of priorities.
KnownByPriority(k, st2) ==
    [key |-> k, probe |-> FALSE, drivers |-> <<Priorities[k][1]>>]

\* Keep the last driver when no driver is found suitable any more.
LoggedKeepingDriver(st, m, t) ==
    CASE m.state = "PROCESSING" -> [st EXCEPT !.started = t]
      [] m.state = "COMPLETE" -> [st EXCEPT !.started = None, !.complete = t]
      [] m.state = "ERRORED" ->
            [st EXCEPT !.started = None, !.complete = t, !.last_failed = t]
      [] m.state = "INFO" -> [st EXCEPT !.last_successful_driver = m.driver]
      [] OTHER -> st

\* Treat an error like a warning, which does not end a poll.
LoggedErrorAsWarning(st, m, t) ==
    CASE m.state = "PROCESSING" -> [st EXCEPT !.started = t]
      [] m.state = "COMPLETE" -> [st EXCEPT !.started = None, !.complete = t]
      [] m.state = "ERRORED" ->
            [st EXCEPT !.last_failed = t,
                       !.last_successful_driver =
                            IF m.error = NoDriver THEN None ELSE @]
      [] m.state = "INFO" -> [st EXCEPT !.last_successful_driver = m.driver]
      [] OTHER -> st

-----------------------------------------------------------------------------
(* validate_task: the decisions, each a function of the fetched state *)

\* 1e) nothing is known to work and it is too early to probe again
Ineffective(st, t) ==
    /\ st.complete # None /\ st.last_successful_driver = None
    /\ st.next_probe # None /\ st.next_probe > t

\* 1c) and 1a)
CompletedRecently(st, t) ==
    st.complete # None /\ t - st.complete < CompleteThrottle
ReceivedRecently(st, t) ==
    st.recvd # None /\ t - st.recvd < ReceivedThrottle

\* Only these two rejections leave recvd alone.
Throttled(st, t) ==
    ~Ineffective(st, t) /\ (CompletedRecently(st, t) \/ ReceivedRecently(st, t))

Rejected(st, t) == Ineffective(st, t) \/ Throttled(st, t)

\* 1b) the previous poll has been active for too long
Overdue(st, t) == st.started # None /\ t - st.started > InvalidTime

ProbeDue(st, t) == st.next_probe = None \/ st.next_probe < t

\* What the `finally' block commits, for accepted and rejected requests.
Validated(st, k, t, delay) ==
    [st EXCEPT
        !.recvd = IF Throttled(st, t) THEN @ ELSE t,
        !.started = IF ~Rejected(st, t) /\ Overdue(st, t) THEN None ELSE @,
        !.next_probe = IF ProbeDue(st, t) THEN t + delay ELSE @,
        !.force_driver = IF k \in DOMAIN ForcedDrivers
                         THEN ForcedDrivers[k] ELSE @]

\* The job an accepted request becomes: st is the fetched state, st2 the
\* committed one.
Reprobe(st, st2, t) ==
    /\ ProbeDue(st, t) \/ st.last_successful_driver = None
    /\ st2.force_driver = None

ProbeJob(k) == [key |-> k, drivers |-> Priorities[k], probe |-> TRUE]

KnownJob(k, st2) ==
    [key |-> k, probe |-> FALSE,
     drivers |-> << IF st2.force_driver # None THEN st2.force_driver
                    ELSE st2.last_successful_driver >>]

-----------------------------------------------------------------------------
(* process_log *)

\* `started - recvd' raises TypeError for a RECEIVED notice of a test that
\* has not started; the state is committed unchanged all the same.
Logged(st, m, t) ==
    CASE m.state = "PROCESSING" -> [st EXCEPT !.started = t]
      [] m.state = "COMPLETE" -> [st EXCEPT !.started = None, !.complete = t]
      [] m.state = "ERRORED" ->
            [st EXCEPT !.started = None, !.complete = t, !.last_failed = t,
                       !.last_successful_driver =
                            IF m.error = NoDriver THEN None ELSE @]
      [] m.state = "INFO" -> [st EXCEPT !.last_successful_driver = m.driver]
      [] OTHER -> st

-----------------------------------------------------------------------------
(* The supervisors *)

Idle(s) ==
    /\ pc' = [pc EXCEPT ![s] = "idle"]
    /\ msg' = [msg EXCEPT ![s] = None]
    /\ now' = [now EXCEPT ![s] = 0]
    /\ local' = [local EXCEPT ![s] = None]

Commit(k, st) == cache' = [cache EXCEPT ![k] = st]

\* A supervisor receives a message and notes the time, before it asks
\* memcached for anything.
Take(s) ==
    /\ pc[s] = "idle" /\ workQueue # <<>>
    /\ msg' = [msg EXCEPT ![s] = Head(workQueue)]
    /\ workQueue' = Tail(workQueue)
    /\ now' = [now EXCEPT ![s] = clock]
    /\ pc' = [pc EXCEPT ![s] = "read"]
    /\ UNCHANGED <<clock, requests, pollQueue, running, cache, local, edit,
                   history>>

\* get_state; a request for an unknown key starts from initial_state().
GetState(s) ==
    LET st == cache[msg[s].key] IN
    /\ pc[s] = "read"
    /\ st # None \/ msg[s].state = "TASK"
    /\ local' = [local EXCEPT ![s] = IF st = None THEN initial_state ELSE st]
    /\ pc' = [pc EXCEPT ![s] = "commit"]
    /\ UNCHANGED <<clock, requests, workQueue, pollQueue, running, cache,
                   msg, now, edit, history>>

\* A log for a key memcached does not know: `initial_state( now )' raises
\* TypeError before the try block, so nothing is committed.
DropLog(s) ==
    /\ pc[s] = "read" /\ msg[s].state # "TASK" /\ cache[msg[s].key] = None
    /\ Idle(s)
    /\ UNCHANGED <<clock, requests, workQueue, pollQueue, running, cache,
                   edit, history>>

\* The rest of validate_task: decide, commit, and hand the job on unless the
\* request was rejected or has to be probed and its spec is not registered.
ValidateTask(s) ==
    LET k == msg[s].key
        st == local[s]
        t == now[s]
    IN
    /\ pc[s] = "commit" /\ msg[s].state = "TASK"
    /\ \E delay \in ReprobeDelays :
        LET st2 == Validated(st, k, t, delay)
            job == IF Reprobe(st, st2, t) THEN ProbeJob(k) ELSE KnownJob(k, st2)
        IN
        /\ Commit(k, st2)
        /\ IF Rejected(st, t) \/ (Reprobe(st, st2, t) /\ k \notin DOMAIN Priorities)
           THEN UNCHANGED <<pollQueue, history>>
           ELSE /\ pollQueue' = Append(pollQueue, job)
                /\ history' = [history EXCEPT ![k].dispatched = t]
    /\ Idle(s)
    /\ UNCHANGED <<clock, requests, workQueue, running, edit>>

\* The rest of process_log.
ProcessLog(s) ==
    LET k == msg[s].key
        m == msg[s]
    IN
    /\ pc[s] = "commit" /\ m.state # "TASK"
    /\ Commit(k, Logged(local[s], m, now[s]))
    /\ history' = [history EXCEPT ![k].finished =
                        IF m.state \in {"COMPLETE", "ERRORED"} THEN now[s] ELSE @]
    /\ Idle(s)
    /\ UNCHANGED <<clock, requests, workQueue, pollQueue, running, edit>>

-----------------------------------------------------------------------------
(* What surrounds the supervisors *)

\* The scheduler publishes a request for a key.
MakeRequest(k) ==
    /\ requests < MaxRequests
    /\ requests' = requests + 1
    /\ workQueue' = Append(workQueue, Request(k))
    /\ UNCHANGED <<clock, pollQueue, running, cache, supervisorVars, edit,
                   history>>

\* A worker takes a job and says so.
StartPoll(w) ==
    /\ running[w] = None /\ pollQueue # <<>>
    /\ running' = [running EXCEPT
                    ![w] = [job |-> Head(pollQueue), reported |-> FALSE]]
    /\ pollQueue' = Tail(pollQueue)
    /\ \E st \in StartNotices :
        workQueue' = Append(workQueue, Notice(Head(pollQueue).key, st))
    /\ UNCHANGED <<clock, requests, cache, supervisorVars, edit, history>>

\* One of the job's drivers works: 'success with driver ...'.
ReportSuccess(w) ==
    /\ running[w] # None /\ ~running[w].reported
    /\ \E i \in DOMAIN running[w].job.drivers :
        LET k == running[w].job.key
            d == running[w].job.drivers[i]
        IN
        /\ workQueue' = Append(workQueue, Success(k, d))
        /\ running' = [running EXCEPT ![w].reported = TRUE]
        /\ history' = [history EXCEPT ![k].report = d,
                                      ![k].succeeded = @ \cup {d}]
    /\ UNCHANGED <<clock, requests, pollQueue, cache, supervisorVars, edit>>

\* The poll ends.  A poll that reported success can still fail while it
\* formats its results.
FinishPoll(w) ==
    LET k == running[w].job.key IN
    /\ running[w] # None
    /\ running' = [running EXCEPT ![w] = None]
    /\ \/ /\ running[w].reported
          /\ workQueue' = Append(workQueue, Notice(k, "COMPLETE"))
          /\ UNCHANGED history
       \/ \E e \in {NoDriver, OtherError} :
            /\ workQueue' = Append(workQueue, Failure(k, e))
            /\ history' = [history EXCEPT ![k].report =
                                IF e = NoDriver THEN None ELSE @]
    /\ UNCHANGED <<clock, requests, pollQueue, cache, supervisorVars, edit>>

\* A worker dies in a poll: no final report.
LosePoll(w) ==
    /\ WorkerLoss /\ running[w] # None
    /\ running' = [running EXCEPT ![w] = None]
    /\ UNCHANGED <<clock, requests, workQueue, pollQueue, cache,
                   supervisorVars, edit, history>>

\* memcached evicts or loses an entry, or `polld cache delete' removes it.
LoseState(k) ==
    /\ CacheLoss /\ cache[k] # None
    /\ Commit(k, None)
    /\ UNCHANGED <<clock, requests, workQueue, pollQueue, running,
                   supervisorVars, edit, history>>

\* `polld cache set <key> --force_driver': fetch, change one field, store.
FetchToEdit(k) ==
    /\ Operator /\ edit = None /\ cache[k] # None
    /\ edit' = [key |-> k, state |-> cache[k]]
    /\ UNCHANGED <<clock, requests, workQueue, pollQueue, running, cache,
                   supervisorVars, history>>

StoreEdit ==
    /\ edit # None
    /\ \E d \in Maybe(Drivers) :
        /\ Commit(edit.key, [edit.state EXCEPT !.force_driver = d])
        /\ history' = [history EXCEPT ![edit.key].ordered = @ \cup ({d} \ {None})]
    /\ edit' = None
    /\ UNCHANGED <<clock, requests, workQueue, pollQueue, running,
                   supervisorVars>>

Tick ==
    /\ clock < MaxClock
    /\ clock' = clock + 1
    /\ UNCHANGED <<requests, workQueue, pollQueue, running, cache,
                   supervisorVars, edit, history>>

-----------------------------------------------------------------------------
Init ==
    /\ clock = 0 /\ requests = 0
    /\ workQueue = <<>> /\ pollQueue = <<>>
    /\ running = [w \in Workers |-> None]
    /\ cache = [k \in Keys |-> None]
    /\ pc = [s \in Supervisors |-> "idle"]
    /\ msg = [s \in Supervisors |-> None]
    /\ now = [s \in Supervisors |-> 0]
    /\ local = [s \in Supervisors |-> None]
    /\ edit = None
    /\ history = [k \in Keys |->
                    [dispatched |-> None, finished |-> None, report |-> None,
                     succeeded |-> {}, ordered |-> {}]]

SupervisorStep(s) ==
    Take(s) \/ GetState(s) \/ DropLog(s) \/ ValidateTask(s) \/ ProcessLog(s)

WorkerStep(w) ==
    StartPoll(w) \/ ReportSuccess(w) \/ FinishPoll(w) \/ LosePoll(w)

Next ==
    \/ \E s \in Supervisors : SupervisorStep(s)
    \/ \E w \in Workers : WorkerStep(w)
    \/ \E k \in Keys : MakeRequest(k) \/ LoseState(k) \/ FetchToEdit(k)
    \/ StoreEdit
    \/ Tick

Spec == Init /\ [][Next]_vars

\* The processes keep running; nobody has to make a request, time need not
\* pass, and the operator may leave.
Fairness ==
    /\ \A s \in Supervisors : WF_vars(SupervisorStep(s))
    /\ \A w \in Workers : WF_vars(StartPoll(w)) /\ WF_vars(FinishPoll(w))

-----------------------------------------------------------------------------
(* Properties *)

TypeOK ==
    /\ clock \in Nat /\ requests \in Nat
    /\ workQueue \in Seq(Message) /\ pollQueue \in Seq(Job)
    /\ running \in [Workers -> Maybe(Poll)]
    /\ cache \in [Keys -> Maybe(State)]
    /\ pc \in [Supervisors -> {"idle", "read", "commit"}]
    /\ msg \in [Supervisors -> Maybe(Message)]
    /\ now \in [Supervisors -> Nat]
    /\ local \in [Supervisors -> Maybe(State)]
    /\ \A s \in Supervisors : /\ pc[s] # "idle" => msg[s] \in Message
                              /\ pc[s] = "commit" => local[s] \in State
    /\ edit \in Maybe([key : Keys, state : State])
    /\ history \in [Keys -> History]

\* A step in which supervisor s hands a job to the workers.
Dispatches(s) ==
    pc[s] = "commit" /\ pc'[s] = "idle" /\ Len(pollQueue') > Len(pollQueue)

\* Two polls of a test are never requested of the workers within
\* received_throttle_time of each other (1a).
ReceivedThrottleKept ==
    \A s \in Supervisors : Dispatches(s) =>
        LET last == history[msg[s].key].dispatched
        IN  last # None => now[s] - last >= ReceivedThrottle

ReceivedThrottleRespected == [][ReceivedThrottleKept]_vars

\* A test whose result has been processed is not polled again within
\* complete_throttle_time (1c).
CompleteThrottleKept ==
    \A s \in Supervisors : Dispatches(s) =>
        LET last == history[msg[s].key].finished
        IN  last # None => now[s] - last >= CompleteThrottle

CompleteThrottleRespected == [][CompleteThrottleKept]_vars

\* With one supervisor, neither throttle lets a poll through.
ThrottlesRespected == ReceivedThrottleRespected /\ CompleteThrottleRespected

JobsInFlight ==
    {pollQueue[i] : i \in DOMAIN pollQueue}
        \cup {running[w].job : w \in {v \in Workers : running[v] # None}}

\* The drivers there is a reason to use for k without probing.
Justified(k) ==
    history[k].succeeded \cup history[k].ordered
        \cup {ForcedDrivers[x] : x \in DOMAIN ForcedDrivers \cap {k}}

\* A job that names its driver names one that a worker has seen work on that
\* test, or that was forced for it; whatever supervisors and operators race.
DriverProvenance ==
    \A job \in JobsInFlight :
        ~job.probe => \E d \in Justified(job.key) : job.drivers = <<d>>

\* The file of forced drivers wins over the cache, over probing and over an
\* operator's `polld cache set'.
ForcedDriverWins ==
    \A job \in JobsInFlight : job.key \in DOMAIN ForcedDrivers =>
        job.drivers = <<ForcedDrivers[job.key]>>

\* Nothing of k is on its way to the cache.
Quiet(k) ==
    /\ \A i \in DOMAIN workQueue : workQueue[i].key # k
    /\ \A job \in JobsInFlight : job.key # k
    /\ \A s \in Supervisors : pc[s] # "idle" => msg[s].key # k

\* With nothing on its way, the cached state says what the workers' last
\* report said, and no poll is marked as active.
SettledState ==
    \A k \in Keys : Quiet(k) /\ cache[k] # None =>
        /\ cache[k].last_successful_driver = history[k].report
        /\ cache[k].started = None

\* A poll marked as active is eventually no longer so marked: `we must ensure
\* that the 'start' is nullified on completing'.
StartNullified ==
    \A k \in Keys :
        (cache[k] # None /\ cache[k].started # None)
            ~> (cache[k] = None \/ cache[k].started = None)

\* No recorded time is later than the clock, and the next probe is at most
\* one longest delay away: no race, restore or edit can throttle a test, or
\* put off its next probe, for longer than a request made now could.
Bounded(st, t) ==
    /\ \A x \in {st.recvd, st.started, st.complete, st.last_failed} :
        x # None => x <= t
    /\ st.next_probe # None =>
        \E delay \in ReprobeDelays : st.next_probe <= t + delay

TimesBounded ==
    /\ \A k \in Keys : cache[k] # None => Bounded(cache[k], clock)
    /\ \A s \in Supervisors : pc[s] = "commit" => Bounded(local[s], clock)
    /\ edit # None => Bounded(edit.state, clock)

===============================================================================
