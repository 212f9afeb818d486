---------------------------- MODULE MCPollSupervisor ----------------------------
(* Constants of PollSupervisor for TLC. *)
EXTENDS PollSupervisor

CONSTANTS k1, k2, d1, d2

\* Both specs are registered; k1's list has two drivers.
MCPriorities == [k \in Keys |-> IF k = k1 THEN <<d1, d2>> ELSE <<d1>>]

\* k2's spec is not registered.
MCUnregistered == [k \in Keys \ {k2} |-> <<d1, d2>>]

NothingForced == [k \in {} |-> d1]
ForcedForK2 == [k \in {k2} |-> d2]

\* Next where nothing is lost, nobody edits and no worker dies: what needs one of
\* these (DropLog a lost state, StoreEdit an edit) has no step, and is left out.
Undisturbed ==
    \/ \E s \in Supervisors :
          Take(s) \/ GetState(s) \/ ValidateTask(s) \/ ProcessLog(s)
    \/ \E w \in Workers : StartPoll(w) \/ ReportSuccess(w) \/ FinishPoll(w)
    \/ \E k \in Keys : MakeRequest(k)
    \/ Tick

UndisturbedSpec == Init /\ [][Undisturbed]_vars /\ Fairness
===============================================================================
