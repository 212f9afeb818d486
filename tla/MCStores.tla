------------------------------- MODULE MCStores -------------------------------
(* The daemons of module Stores, with small values.  A behaviour explores one of them,
   `which'. *)
EXTENDS Stores, TLC

CONSTANTS f1, f2, c1, c2, subnet, switch, router, s1, s2

VARIABLE which

Up == "status" :> "up"
Down == "status" :> "down"
MCValues == {Up, Down}

-----------------------------------------------------------------------------
(* postgres: two interfaces of a switch, and a subnet that is not ours *)

MCDevice == (c1 :> switch) @@ (c2 :> switch) @@ (subnet :> router)

UpFast == Up @@ ("speed" :> "1")
DownFast == Down @@ ("speed" :> "1")
Fast1 == "speed" :> "1"
Is(c, d) == [ctx |-> c, data |-> d]

MCBodies == {<<<<Is(c1, Up)>>>>, <<<<Is(c1, DownFast)>>>>, <<<<Is(c1, Fast1), Is(c2, <<>>)>>>>,
             <<<<Is(c1, Down), Is(c2, UpFast)>>>>, <<<<Is(subnet, Up)>>, <<Is(c2, Up)>>>>}
MCMetas == {{}, {"just_insert"}, {"ignore_data", "update_recent"},
            {"merge_data", "merge_context"}}

-----------------------------------------------------------------------------
(* The older workers: reports on the ports of a switch, on its learned addresses, one
   per vlan, and on a subnet *)

Port(p, d) == ("port" :> p) @@ d
Fast == Up @@ ("speed" :> "fast")
Ports(items) == [group |-> "ports", keys |-> {"port"}, context |-> "device" :> "switch",
                 sub |-> <<>>, data |-> items]
MCOldMessages ==
    {Ports(<<Port(1, Up)>>), Ports(<<Port(1, Fast)>>), Ports(<<Port(2, Up), Port(1, Down)>>),
     Ports(<<Port(1, Down), Port(1, Fast)>>),
     [group |-> "macs", keys |-> {}, context |-> "device" :> "switch", sub |-> "vlan" :> 7,
      data |-> <<Up>>],
     [group |-> "subnets", keys |-> {"prefix"}, context |-> "device" :> "switch", sub |-> <<>>,
      data |-> <<("prefix" :> "far") @@ Up, ("prefix" :> "near") @@ Up>>]}

MCPartitions == "macs" :> "vlan"

-----------------------------------------------------------------------------
(* Messages of two rows, or none, and two carbon instances *)

Row(in, out) == ("in" :> in) @@ ("out" :> out)
OfPort(row, p) == row @@ ("port" :> p)
Body(context, keys, pair, data) == [context |-> context, keys |-> keys, at |-> pair, data |-> data]
Switch == "device" :> "s"
Empty == Body(Switch, {}, None, <<>>)

MCMessages ==
    {Empty,
     Body(Switch, {"port"}, None, <<OfPort(Row(1, 2), 1), OfPort(Row(3, 4), 2)>>),
     Body(Switch, {"port"}, None, <<OfPort(Row(1, 2), 1), Row(3, 4)>>),
     Body(Switch, {"port"}, <<"vlan", 3>>, <<OfPort(Row(1, 2), 1), Row(3, 3) @@ ("vlan" :> 4)>>),
     Body(Switch @@ ("port" :> 1), {}, None, <<Row(1, 2), OfPort(Row(3, 4), 2)>>),
     Body(Switch, {"port", "vlan"}, None,
          <<OfPort(Row(1, 2), 1) @@ ("vlan" :> 4), OfPort(Row(3, 4), 2)>>)}
InstanceA == [host |-> "a", port |-> 2]
InstanceB == [host |-> "b", port |-> 2]
MCInstances == {InstanceA, InstanceB}

MCShardOf == ("in" :> InstanceA) @@ ("out" :> InstanceB)

-----------------------------------------------------------------------------
(* One of them at work *)

postgresOnly == <<config, db, f_, reports>>
olderOnly == <<rows, history, exist, feeder, stale>>
othersOnly == <<storer, message, workers, processes, cache, received, points, hash>>
mongoOnly == <<docs, past, now, at, crashes>>
allVars == <<which, postgresOnly, olderOnly, othersOnly, mongoOnly, clock, nextId, faults>>

\* All begin, and stay, as they are started; of what is configured one is enough there.
OnePostgres == meta = {} /\ ~prefetched /\ ~deferred
OneOther == storer = "redis" /\ message = Empty

\* Without flags, the two queries of messages are made together, or not at all; with
\* them, it is the lookup of bulks that tells most.
Configured == IF meta = {} THEN prefetched = deferred ELSE ~prefetched /\ ~deferred

MCInit ==
    /\ Init /\ Older!Init /\ Others!Init /\ Mongo!Init
    /\ \/ which = "postgres" /\ Configured /\ OneOther
       \/ which \in {"older", "mongo"} /\ OnePostgres /\ OneOther
       \/ which = "others" /\ OnePostgres

MCNext ==
    /\ UNCHANGED which
    /\ \/ which = "postgres" /\ Next /\ UNCHANGED <<olderOnly, othersOnly, mongoOnly>>
       \/ which = "older" /\ Older!Next /\ UNCHANGED <<postgresOnly, othersOnly, mongoOnly>>
       \/ which = "others" /\ Others!Next
          /\ UNCHANGED <<postgresOnly, olderOnly, mongoOnly, nextId>>
       \/ which = "mongo" /\ Mongo!Next
          /\ UNCHANGED <<postgresOnly, olderOnly, othersOnly, clock, faults>>

MCSpec == MCInit /\ [][MCNext]_allVars

Symmetry == Permutations(Feeders) \cup Permutations({s1, s2})
===============================================================================
