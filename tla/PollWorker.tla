------------------------------ MODULE PollWorker ------------------------------
(***************************************************************************)
(* A poll worker (lib/ptolemy/poller/workers.py): poll() tries the drivers *)
(* of a job in turn, and the gatherer talks to the device with one driver  *)
(* under a time limit, an alarm signal.                                    *)
(*                                                                         *)
(* A device may answer, fail or hang at any point.  Time passes only while *)
(* the worker waits for it.  A driver with iterative groups first collects *)
(* the values to iterate on, then collects again for each of them.         *)
(***************************************************************************)
EXTENDS Integers, Sequences

CONSTANTS
    Drivers,
    None,
    Lists,          \* the lists of drivers a job can name
    Iterative,      \* the drivers with iterative groups
    NetConfig,      \* the drivers whose agent, NetConfig, turns every exception
                    \* in a conversation into one of its own, the alarm's too
    Timeout,        \* min(frequency, 900)
    MaxValues,      \* bound: how many values an iteration has
    MaxGroups       \* bound: how many groups a result has

VARIABLES
    job,            \* the list of drivers of the current job
    success,        \* the driver reported to work on the latest job
    verdict,        \* the final report on the latest job
    stage,          \* "idle", "taken", "next", "collecting", "iterating" or
                    \* "formatting"
    left,           \* drivers: those not tried yet
    trying,         \* d: the driver being tried
    named,          \* whether the job's data, which become the arguments of
                    \* fetch, hold a driver
    alarm,          \* the time left until the alarm signal, None if not set
    todo, failed, got, total, \* values to iterate on: left, without a reference,
                    \* with results, all of them
    groups,         \* groups of the result not formatted yet
    elapsed,        \* the time spent on the job (history)
    sources,        \* the drivers whose results were published (history)
    ends            \* how the driver's turns ended: <<driver, "failed">> or
                    \* <<driver, "late">> (history)

progress == <<stage, left, trying, named, alarm>>
iteration == <<todo, failed, got, total>>
vars == <<job, success, verdict, stage, left, trying, named, alarm,
          todo, failed, got, total, groups, elapsed, sources, ends>>

Complete == "complete"
NoDriver == "no suitable driver found"
OtherError == "error"

ASSUME WorkerAssumption ==
    /\ None \notin Int /\ None \notin Drivers
    /\ None \notin {Complete, NoDriver, OtherError}
    /\ Lists \subseteq Seq(Drivers) /\ None \notin Lists
    /\ <<>> \notin Lists
    /\ Iterative \subseteq Drivers /\ NetConfig \subseteq Drivers
    /\ Iterative \cap NetConfig = {}
    /\ Timeout \in Nat \ {0} /\ MaxValues \in Nat /\ MaxGroups \in Nat

Waiting == stage \in {"collecting", "iterating"}

-----------------------------------------------------------------------------
(* How a driver's turn, or the poll, ends *)

\* The generator ends or raises: the worker makes the final report.
Finish(result) ==
    /\ verdict' = result
    /\ job' = None /\ stage' = "idle"
    /\ left' = <<>> /\ trying' = None /\ named' = FALSE /\ alarm' = None
    /\ UNCHANGED <<success, iteration, groups, elapsed, sources>>

\* On to the next driver.  fetch has switched the alarm off.
NextDriver ==
    /\ stage' = "next" /\ alarm' = None
    /\ UNCHANGED <<job, success, verdict, left, trying, named, groups, elapsed, sources>>

Ended(how) == ends' = ends \cup {<<trying, how>>}

\* `except Exception'
Failed == NextDriver /\ Ended("failed")

\* Mutated: a driver that was too slow is tried again.
TriedAgain ==
    /\ stage' = "next" /\ alarm' = None /\ left' = <<trying>> \o left
    /\ Ended("late")
    /\ UNCHANGED <<job, success, verdict, trying, named, iteration, groups, elapsed,
                   sources>>

\* Mutated: a time limit is like any other failure.
LateIsFailed == NextDriver /\ Ended("late") /\ UNCHANGED iteration

\* `except TimedOut': reported if there is nothing left to try.
TimedOut ==
    /\ IF left = <<>> THEN Finish(OtherError) ELSE NextDriver /\ UNCHANGED iteration
    /\ Ended("late")

-----------------------------------------------------------------------------
(* poll() *)

\* The worker takes a job.  A driver the job names is deleted from its data.
Take ==
    /\ stage = "idle"
    /\ job' \in Lists
    /\ success' = None /\ verdict' = None
    /\ stage' = "taken" /\ left' = job' /\ named' = FALSE
    /\ elapsed' = 0 /\ sources' = {} /\ ends' = {}
    /\ UNCHANGED <<trying, alarm, iteration, groups>>

\* 'old test'
TooOld == stage = "taken" /\ Finish(OtherError) /\ UNCHANGED ends

\* Mutated: fetch does not mind a second driver among its arguments.
CallsWithTwo == TRUE

\* The call of fetch fails if `driver' is given twice.
Calls == ~named

\* Mutated: there is one alarm for the whole job.
AlarmForJob == IF stage = "taken" THEN Timeout ELSE alarm

\* The alarm is set anew for every driver.
AlarmForFetch == Timeout

\* The next driver, whose file may not load.
Try ==
    /\ stage \in {"taken", "next"} /\ left # <<>>
    /\ trying' = Head(left) /\ left' = Tail(left)
    /\ \/ /\ Calls
          /\ stage' = "collecting" /\ alarm' = AlarmForFetch
          /\ UNCHANGED ends
       \/ /\ stage' = "next"
          /\ ends' = ends \cup {<<Head(left), "failed">>}
          /\ UNCHANGED alarm
    /\ UNCHANGED <<job, success, verdict, named, iteration, groups, elapsed, sources>>

\* `no suitable driver found'
Exhausted == stage = "next" /\ left = <<>> /\ Finish(NoDriver) /\ UNCHANGED ends

-----------------------------------------------------------------------------
(* The gatherer *)

\* What fetch hands over: the alarm is off, the success is reported, and the
\* driver is left in the job's data.
Fetched ==
    /\ stage' = "formatting" /\ alarm' = None
    /\ success' = trying /\ named' = TRUE
    /\ groups' \in 0 .. MaxGroups
    /\ UNCHANGED <<job, verdict, left, trying, iteration, elapsed, sources, ends>>

\* The device answers.
Collected ==
    /\ stage = "collecting"
    /\ \/ trying \notin Iterative /\ Fetched
       \/ /\ trying \in Iterative
          /\ stage' = "iterating"
          /\ total' \in 0 .. MaxValues
          /\ todo' = total' /\ failed' = 0 /\ got' = 0
          /\ UNCHANGED <<job, success, verdict, left, trying, named, alarm,
                         groups, elapsed, sources, ends>>

\* One more value: results, a failure that is only logged, or a reference that
\* is not found.  If no value has its references, the driver is bad.
Iterated ==
    /\ stage = "iterating" /\ todo > 0
    /\ todo' = todo - 1
    /\ \/ /\ got' = got + 1
          /\ UNCHANGED <<job, success, verdict, progress, failed, groups, elapsed,
                         sources, ends>>
       \/ UNCHANGED <<job, success, verdict, progress, failed, got, groups, elapsed,
                      sources, ends>>
       \/ /\ failed' = failed + 1 /\ failed' < total
          /\ UNCHANGED <<job, success, verdict, progress, got, groups, elapsed,
                         sources, ends>>
       \/ /\ failed' = failed + 1 /\ failed' = total
          /\ Failed /\ UNCHANGED got
    /\ UNCHANGED total

\* All values are done: one at least must have given results.
IterationDone ==
    /\ stage = "iterating" /\ todo = 0
    /\ IF got > 0 THEN Fetched ELSE Failed /\ UNCHANGED iteration

\* The device, the agent or the processing of what they gave fails.
FetchFails ==
    /\ \/ stage = "collecting"
       \/ stage = "iterating" /\ todo = 0
    /\ Failed /\ UNCHANGED iteration

\* An exception without a text is taken for a failed name lookup.
NameNotFound == stage = "collecting" /\ Finish(OtherError) /\ Ended("failed")

\* The agent gives up before the alarm: `TimedOut( agent )'.
AgentGivesUp == stage = "collecting" /\ TimedOut

\* The alarm signal, which NetConfig can turn into an error of its own.
Alarm ==
    /\ Waiting /\ alarm = 0
    /\ \/ TimedOut
       \/ trying \in NetConfig /\ NextDriver /\ Ended("late") /\ UNCHANGED iteration

\* Time passes while the worker waits for the device.
Tick ==
    /\ Waiting /\ alarm # None /\ alarm > 0
    /\ alarm' = alarm - 1 /\ elapsed' = elapsed + 1
    /\ UNCHANGED <<job, success, verdict, stage, left, trying, named, iteration,
                   groups, sources, ends>>

-----------------------------------------------------------------------------
(* The messages *)

FormatGroup ==
    /\ stage = "formatting" /\ groups > 0
    /\ groups' = groups - 1 /\ sources' = sources \cup {trying}
    /\ UNCHANGED <<job, success, verdict, progress, iteration, elapsed, ends>>

\* A group without a key: the handler of the loop over drivers takes over.
FormatFails ==
    /\ stage = "formatting" /\ groups > 0
    /\ Failed /\ UNCHANGED iteration

Completed == stage = "formatting" /\ groups = 0 /\ Finish(Complete) /\ UNCHANGED ends

-----------------------------------------------------------------------------
Init ==
    /\ job = None /\ success = None /\ verdict = None
    /\ stage = "idle" /\ left = <<>> /\ trying = None /\ named = FALSE
    /\ alarm = None
    /\ todo = 0 /\ failed = 0 /\ got = 0 /\ total = 0 /\ groups = 0
    /\ elapsed = 0 /\ sources = {} /\ ends = {}

\* Steps that wait for nobody.
Own ==
    Try \/ Exhausted \/ IterationDone \/ Alarm \/ FormatGroup \/ Completed

Next ==
    \/ Take \/ TooOld \/ Own \/ Collected \/ Iterated \/ FetchFails \/ NameNotFound
    \/ AgentGivesUp \/ Tick \/ FormatFails

Spec == Init /\ [][Next]_vars

\* The worker runs and time passes: nothing is assumed of the device.
FairSpec == Spec /\ WF_vars(Own) /\ WF_vars(Tick)

-----------------------------------------------------------------------------
(* Properties *)

TypeOK ==
    /\ job \in Lists \cup {None}
    /\ success \in Drivers \cup {None}
    /\ verdict \in {None, Complete, NoDriver, OtherError}
    /\ stage \in {"idle", "taken", "next", "collecting", "iterating", "formatting"}
    /\ left \in Seq(Drivers) /\ trying \in Drivers \cup {None}
    /\ named \in BOOLEAN
    /\ alarm \in 0 .. Timeout \cup {None}
    /\ {todo, failed, got, total} \subseteq 0 .. MaxValues
    /\ groups \in 0 .. MaxGroups
    /\ elapsed \in Nat /\ sources \subseteq Drivers
    /\ ends \subseteq Drivers \X {"failed", "late"}

\* Whatever the device does, the supervisors see a worker as PollSupervisor
\* assumes it: one success at most, with a driver of the job, `complete' only
\* after it, and a final report for every job.
Contract == INSTANCE PollContract WITH job <- job, success <- success, verdict <- verdict
ImplementsContract == Contract!Spec

\* A poll takes no longer than the time limit for each driver tried.
InTime == job # None => elapsed <= Timeout * (Len(job) - Len(left))

\* Results are published only from the driver that is reported to work, however
\* many drivers answer before and after.
OneSource == sources \subseteq {success}

\* The same but for NetConfig, which hides that it was slow.
SlowIsReported ==
    verdict = NoDriver =>
        \/ \E d \in Drivers : <<d, "failed">> \in ends
        \/ \E d \in NetConfig : <<d, "late">> \in ends

===============================================================================
