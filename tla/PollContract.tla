----------------------------- MODULE PollContract -----------------------------
(***************************************************************************)
(* What the supervisors rely on of a poll worker: the worker of            *)
(* PollSupervisor, taken by itself.  A job names drivers in the order in   *)
(* which they are to be tried.  For each job there is at most one report   *)
(* of success, with one of its drivers, and then one final report, which   *)
(* is `complete' only after a success.                                     *)
(***************************************************************************)
EXTENDS Sequences

CONSTANTS
    Drivers,
    None,           \* no job, no driver, no verdict
    Lists           \* the lists of drivers a job can name

VARIABLES
    job,            \* the list of drivers of the current job
    success,        \* the driver reported to work on the latest job
    verdict         \* the final report on the latest job

Complete == "complete"
NoDriver == "no suitable driver found"
OtherError == "error"

vars == <<job, success, verdict>>

Init == job = None /\ success = None /\ verdict = None

Take ==
    /\ job = None
    /\ job' \in Lists
    /\ success' = None /\ verdict' = None

ReportSuccess ==
    /\ job # None /\ success = None
    /\ \E i \in DOMAIN job : success' = job[i]
    /\ UNCHANGED <<job, verdict>>

Finish ==
    /\ job # None
    /\ job' = None
    /\ \/ verdict' \in {NoDriver, OtherError}
       \/ success # None /\ verdict' = Complete
    /\ UNCHANGED success

Next == Take \/ ReportSuccess \/ Finish

Safe == Init /\ [][Next]_vars

\* Every job is finished.
Spec == Safe /\ WF_vars(Finish)

===============================================================================
