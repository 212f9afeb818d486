------------------------------- MODULE MCRacing -------------------------------
(* What may go wrong while a test is polled, of two kinds that a behaviour does not
   mix: two supervisors race for the state of a test that memcached may lose; or one
   supervisor works while an operator edits the state of a test, which may be in the
   file of forced drivers, and workers die. *)
EXTENDS MCPollSupervisor

CONSTANTS s1, s2

VARIABLES
    operated,   \* whether it is of the second kind
    test        \* the test

Kept == UNCHANGED <<operated, test>>
Racing == ~operated /\ Kept
Operated == operated /\ Kept

\* What a supervisor does when memcached has the state.
Supervises(s) == Take(s) \/ GetState(s) \/ ValidateTask(s) \/ ProcessLog(s)

SupervisorMoves(s) == Supervises(s) /\ (operated => s = s1) /\ Kept
SupervisorDrops(s) == DropLog(s) /\ Racing
WorkerMoves(w) == (StartPoll(w) \/ ReportSuccess(w) \/ FinishPoll(w)) /\ Kept
WorkerDies(w) == LosePoll(w) /\ Operated
TestIsDue == MakeRequest(test) /\ Kept
StateIsLost == LoseState(test) /\ Racing
OperatorFetches == FetchToEdit(test) /\ Operated
OperatorStores == StoreEdit /\ Operated
TimePasses == Tick /\ (operated => clock = 0) /\ Kept

MCInit ==
    /\ Init
    /\ \/ operated = FALSE /\ test = k1
       \/ operated = TRUE /\ test \in Keys

MCNext ==
    \/ \E s \in Supervisors : SupervisorMoves(s) \/ SupervisorDrops(s)
    \/ \E w \in Workers : WorkerMoves(w) \/ WorkerDies(w)
    \/ TestIsDue \/ StateIsLost \/ OperatorFetches \/ OperatorStores \/ TimePasses

MCSpec == MCInit /\ [][MCNext]_<<vars, operated, test>>
===============================================================================
