------------------------------- MODULE Analysis -------------------------------
(***************************************************************************)
(* What becomes of the results of polls, and what is kept of devices: the  *)
(* parts, each of them a module, over one set of constants and variables,  *)
(* and what is promised of them.  Hosts are watched (module HostWatch) and *)
(* placed (HostPlace), subnets scanned (SubnetScan), states alerted about  *)
(* (StateAlerts), ports ranked (Capacity), telephones followed             *)
(* (Telephones) and links remembered (Layer1); the files of devices are    *)
(* written (DeviceFiles).                                                  *)
(*                                                                         *)
(* The parts take their reports from queues of their own and keep what     *)
(* they know under keys of their own: they share no state.  Variables and  *)
(* bounds of the same name are shared, for no two of them are at work in   *)
(* the same behaviour.                                                     *)
(***************************************************************************)
EXTENDS HostWatch, Sequences

CONSTANTS
    Workers,                                                    \* of all analyses
    Subnets, ScanReports, Local, HostBits, Within, Prefetch, Lost, Rtts, Addresses,
    ScanQueue, MaxRequests, MaxAge,                                         \* SubnetScan
    Bulks, HostPorts, Uplinks, Lower,                                       \* HostPlace
    Directives, Values, Configs, Context, Ignores, Limit, AlertClock, MaxFaults,
                                                                            \* StateAlerts
    Ports, Ranges, Minute, Older, Speeds, Steps, Width, Unit, LowPass, RankClock,
                                                                            \* Capacity
    Phones, Places, Together, Delta,                                        \* Telephones
    Links, Channels, MemberOf, Peers, FullName, Expiration, MaxTime,        \* Layer1
    Devices, Terminals, Excluded, Rules, Categories, MaxChanges, MaxRuns, MaxCrashes,
                                                                            \* DeviceFiles
    MaxQueue, MaxRestarts

VARIABLES
    waiting, nodes, heap, requests, published, restarts,                    \* SubnetScan
    placeCache, bulk, uplinks, step, sent, known,                           \* HostPlace
    directive, stanzas, key, work, alerts, manager, at, cached, rows, reports, faults,
    watched, last, outages, disturbed, mailed, early,                       \* StateAlerts
    counter, queue, samples, cap, peer, boards, portWork, busy, told, crossed,     \* Capacity
    phoneSeen, where, phoneWork, untold, gone, late,                        \* Telephones
    time, linkCache, pipes, linked,                                         \* Layer1
    registry, rules, files, toldStore, items, todo, fileAt, current, changes, updates,
    crashes, wanted                                                         \* DeviceFiles

Scanner == INSTANCE SubnetScan WITH Reports <- ScanReports, MaxQueue <- ScanQueue, queue <- waiting
Place == INSTANCE HostPlace WITH Ports <- HostPorts, Links <- Uplinks, cache <- placeCache
Alerts == INSTANCE StateAlerts WITH MaxClock <- AlertClock
Ranking == INSTANCE Capacity WITH MaxClock <- RankClock, work <- portWork, alerts <- busy
Followed == INSTANCE Telephones WITH seen <- phoneSeen, work <- phoneWork
Remembered == INSTANCE Layer1 WITH cache <- linkCache
Written == INSTANCE DeviceFiles WITH told <- toldStore, at <- fileAt

ASSUME AnalysisAssumption ==
    /\ Scanner!ScanAssumption /\ Alerts!AlertsAssumption /\ Ranking!CapacityAssumption
    /\ Followed!TelephonesAssumption /\ Remembered!Layer1Assumption /\ Written!FilesAssumption

-----------------------------------------------------------------------------
(* What is promised, of each part what its module says of it *)

\* Hosts: departures are reported, and not too early (DeparturesTrue, of HostWatch).

\* Hosts are not placed at links to other switches.
NotAtUplinks == Place!NotAtUplinks

\* Alerts: outages are told in full, mails are apart, and only what is watched raises any.
AlertsTrue == [](Alerts!OutagesTold /\ Alerts!MailsApart) /\ Alerts!WatchedOnly

\* Ports: the places on the scoreboards are real, agree, and rest on all samples.
RanksTrue == Ranking!RanksAreReal /\ Ranking!RanksAgree /\ Ranking!SamplesKept

\* Telephones: moves and departures are told.
TelephonesTold == []Followed!MovesTold /\ Followed!GoneIsTold

\* Links: the peer of a channel is one of a member.
ChannelFollows == Remembered!ChannelFollows

\* Files: what people wrote is kept by each step, and what is listed follows what is registered.
FilesTrue == [][Written!CustomisationsKept']_(Written!fvars) /\ Written!FilesFollow
NoneOutOfUse == Written!NoneOutOfUse
===============================================================================
