------------------------------ MODULE MCAnalysis ------------------------------
(* The parts of module Analysis, with small values.  A behaviour explores one of them,
   `which'. *)
EXTENDS Analysis, TLC

CONSTANTS w1, w2, near, wide, far, odd, sw, SW, p1, p2, c1, rtr, swh, term

VARIABLES
    which,
    answers                                 \* of the hosts of a subnet

-----------------------------------------------------------------------------
(* Subnets: one of this site, one of two of its networks, one of none, and one with
   host bits set *)

MCReports == <<<<odd, far, near, wide>>, <<wide>>>>
MCWithin == (near :> {1}) @@ (wide :> {1, 2}) @@ (far :> {}) @@ (odd :> {1})

-----------------------------------------------------------------------------
(* Ports that hosts are seen at: a port, a part of it, a vlan, a channel *)

MCHostPorts ==
    ("gi1" :> [of |-> "gi1", kind |-> "port", vlan |-> None]) @@
    ("gi1.5" :> [of |-> "gi1", kind |-> "port", vlan |-> 5]) @@
    ("vl5" :> [of |-> "vl5", kind |-> "VL", vlan |-> 5]) @@
    ("po1" :> [of |-> "po1", kind |-> "PO", vlan |-> None])
MCBulks ==
    {{[mac |-> "m1", ip |-> i, device |-> d, port |-> p],
      [mac |-> "m2", ip |-> None, device |-> sw, port |-> "gi1"]} :
        i \in {None, "10.0.0.1"}, d \in {sw, SW}, p \in DOMAIN MCHostPorts \cup {None}}
MCUplinks == {sw, SW} \X {"gi1"}
MCLower == (sw :> sw) @@ (SW :> sw)

-----------------------------------------------------------------------------
(* Alerts of a device: outages are noted, and mail is sent *)

OnD == {"d"}
Noted(states, before, kind) ==
    [context |-> ("device" :> OnD), states |-> states, last |-> before, by |-> kind]
Notes == <<Noted({"met"}, {FALSE}, "new"), Noted({"met"}, {TRUE}, "continual"),
           Noted({"unmet"}, {TRUE}, "end")>>
Mail == [context |-> <<>>, states |-> {"met"}, last |-> {TRUE, FALSE}, by |-> "mail"]
MailOfPort == [Mail EXCEPT !.context = "port" :> {"p"}]
MailElsewhere == [Mail EXCEPT !.context = "device" :> {"e"}]
MCDirectives == {[op |-> op, low |-> 1, high |-> 1] : op \in {"ne", "outside"}}
MCConfigs == {<<Mail>> \o Notes \o <<MailElsewhere>>, Notes \o <<MailOfPort, Mail>>}
MCContext == "device" :> "d"
MCIgnores == {"device" :> {"e"}}

-----------------------------------------------------------------------------
(* Links of two ports of a channel; telephones, one at a time *)

MCMemberOf == (p1 :> c1) @@ (p2 :> c1)
MCFullName == ("Core" :> "core.slac") @@ ("edge.slac" :> "edge.slac")
MCTogether == {{p} : p \in Phones}

-----------------------------------------------------------------------------
(* Three devices in two categories, one of them a terminal server *)

In(names, others) == [name |-> names, exclude |-> others]
MCRules ==
    {(rtr :> In({"core"}, {})) @@ (swh :> In({"edge"}, {"core"})) @@ (term :> In({"edge"}, {})),
     (rtr :> In({"core"}, {})) @@ (swh :> In({"core", "edge"}, {"core"}))
        @@ (term :> In({"core"}, {"core"}))}

-----------------------------------------------------------------------------
(* One of them at work.  All begin, and stay, as they are started; of what is configured
   one is enough there. *)

watchOnly == <<score, worker, newest, seen, news, departures, hasty>>
scanOnly == <<waiting, nodes, heap, requests, published>>
placeOnly == <<placeCache, bulk, uplinks, step, sent, known>>
alertsOnly == <<directive, stanzas, key, work, alerts, manager, at, cached, rows, faults,
                watched, last, outages, disturbed, mailed, early>>
rankOnly == <<counter, samples, cap, peer, boards, portWork, busy, told>>
phoneOnly == <<phoneSeen, where, phoneWork, untold, gone, late>>
linkOnly == <<time, linkCache, pipes, linked>>
fileOnly == <<registry, rules, files, toldStore, items, todo, fileAt, current, changes,
              updates, crashes, wanted>>
allVars == <<which, answers, watchOnly, scanOnly, placeOnly, alertsOnly, rankOnly, phoneOnly, linkOnly,
             fileOnly, clock, queue, restarts, reports, crossed>>

MCInit ==
    /\ Init /\ Scanner!Init /\ Place!PlaceInit /\ Alerts!Init /\ Ranking!Init /\ Followed!Init
    /\ Remembered!LinkInit /\ Written!FilesInit
    /\ which \in {"hosts", "subnets", "answers", "places", "states", "ports", "telephones",
                  "links", "files"}
    /\ answers \in IF which = "answers" THEN Scanner!Answers ELSE {<<>>}
    /\ which # "states" =>
          /\ directive = CHOOSE d \in Directives : TRUE
          /\ stanzas = CHOOSE s \in Configs : TRUE
    /\ which # "files" => rules = CHOOSE r \in Rules : TRUE

MCNext ==
    /\ UNCHANGED <<which, answers>>
    /\ \/ /\ which = "hosts" /\ Next
          /\ UNCHANGED <<scanOnly, placeOnly, alertsOnly, rankOnly, phoneOnly, linkOnly, fileOnly,
                         queue, restarts, reports, crossed>>
       \/ /\ which = "subnets" /\ Scanner!Next
          /\ UNCHANGED <<watchOnly, placeOnly, alertsOnly, rankOnly, phoneOnly, linkOnly, fileOnly,
                         clock, queue, reports, crossed>>
       \/ /\ which = "places" /\ Place!PlaceNext
          /\ UNCHANGED <<watchOnly, scanOnly, alertsOnly, rankOnly, phoneOnly, linkOnly, fileOnly,
                         clock, queue, restarts, reports, crossed>>
       \/ /\ which = "states" /\ Alerts!Next
          /\ UNCHANGED <<watchOnly, scanOnly, placeOnly, rankOnly, phoneOnly, linkOnly, fileOnly,
                         queue, restarts, crossed>>
       \/ /\ which = "ports" /\ Ranking!Next
          /\ UNCHANGED <<watchOnly, scanOnly, placeOnly, alertsOnly, phoneOnly, linkOnly, fileOnly,
                         restarts, reports>>
       \/ /\ which = "telephones" /\ Followed!Next
          /\ UNCHANGED <<watchOnly, scanOnly, placeOnly, alertsOnly, rankOnly, linkOnly, fileOnly>>
       \/ /\ which = "links" /\ Remembered!LinkNext
          /\ UNCHANGED <<watchOnly, scanOnly, placeOnly, alertsOnly, rankOnly, phoneOnly, fileOnly,
                         clock, queue, restarts, reports, crossed>>
       \/ /\ which = "files" /\ Written!FilesNext
          /\ UNCHANGED <<watchOnly, scanOnly, placeOnly, alertsOnly, rankOnly, phoneOnly, linkOnly,
                         clock, queue, restarts, reports, crossed>>

MCSpec == MCInit /\ [][MCNext]_allVars /\ (which = "subnets" => Scanner!Fairness)

\* Workers are alike.  The scan of subnets, the only part with a property about what must
\* happen in the end, has none of them.
Symmetry == Permutations(Workers)

\* Subnets: each is watched by one test in the end, and what is published of it is the
\* time of the fastest host.
SubnetsWatched ==
    /\ []Scanner!ScheduledOnce /\ (which = "subnets" => Scanner!AllWatched)
    /\ [](which = "answers" => Scanner!TimeOfTheFastest(answers))
===============================================================================
