------------------------------ MODULE MCSchedule ------------------------------
(* Constants of Schedule for TLC. *)
EXTENDS Schedule

\* A period of one is kept exactly, one of two can take three.
MCDelays == [p \in Periods \ {0} |-> IF p = 1 THEN {1} ELSE {2, 3}]
===============================================================================
