---------------------------- MODULE MCScheduleRing ----------------------------
(* Constants of ScheduleRing for TLC, with a test for every order in which a hash ring
   can offer one to the hosts; and behaviours in which memcached loses nothing next to
   those in which it may, if it may at all. *)
EXTENDS ScheduleRing, FiniteSets

VARIABLE loses

MCItems ==
    {i \in [Hosts -> 1 .. Cardinality(Hosts)] :
        \A g, h \in Hosts : i[g] = i[h] => g = h}

MCRank == [i \in Items |-> i]

MCInit == Init /\ loses \in {FALSE, Forgetful}

MCNext ==
    /\ Next /\ UNCHANGED loses
    /\ states # None /\ states' = None => loses

MCSpec == MCInit /\ [][MCNext]_<<vars, loses>> /\ Fairness

\* A host that is down for good leaves the rings, if the record is not lost: the others
\* know about it from there.
DeadLeaveUnlessLost == ~loses => DeadLeave

\* Every test is published by somebody in the end, if the record is not lost.
CoveredUnlessLost == ~loses => Covered
===============================================================================
