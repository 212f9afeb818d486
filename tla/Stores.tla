-------------------------------- MODULE Stores --------------------------------
(***************************************************************************)
(* The storage daemons, each of them a module, over one set of constants   *)
(* and variables, and what is promised of them: with postgres (module      *)
(* PostgresStore, whose names are those of this one), its older workers    *)
(* (HstoreStore), what all have in common and those for influxdb, redis    *)
(* and carbon (Feeders), and mongodb (MongoStore).                         *)
(*                                                                         *)
(* The daemons have databases and queues of their own.  Variables and      *)
(* bounds of the same name are shared, for no two of them are at work in   *)
(* the same behaviour.                                                     *)
(***************************************************************************)
EXTENDS PostgresStore

CONSTANTS
    None,
    OldMessages, Partitions, Ours, OldMax,                                  \* HstoreStore
    Messages, Instances, ShardOf, PortOffset, Chunks, MaxPoints, MaxErrors, MaxTime,
                                                                            \* Feeders
    Storers, Subjects, Values, ArchiveAfter, MaxReports, MaxCrashes         \* MongoStore

VARIABLES
    rows, history, exist, feeder, stale,                                    \* HstoreStore
    storer, message, workers, processes, cache, received, points, hash,     \* Feeders
    docs, past, now, at, crashes                                            \* MongoStore

Older == INSTANCE HstoreStore WITH Messages <- OldMessages, MaxMessages <- OldMax
Others == INSTANCE Feeders WITH MaxFaults <- MaxErrors
Mongo == INSTANCE MongoStore WITH Contexts <- Subjects

ASSUME StoresAssumption ==
    /\ Older!HstoreAssumption /\ Mongo!MongoAssumption
    /\ Others!FeedersAssumption /\ Others!MessagesAssumption

-----------------------------------------------------------------------------
(* What is promised, of each what its module says of it *)

\* postgres: replaced values are in the archive, and rows of one context are made one;
\* whatever happens at once, see KeepsContract of PostgresStore.
RowsFollow == ReplacedIsArchived /\ Consolidated

\* The older workers: messages are stored in full, and histories have no gaps.
HistoryTiles == Older!HistoryTiles
StoredInFull == Older!StoredInFull
FineIfItExists == Older!FineIfItExists

\* influxdb: no point is lost.
PointsAccounted == Others!PointsAccounted

\* All: the rows of a message are kept apart; and, with carbon, shared out in full to
\* workers that are there.
MessagesServed ==
    [](Others!RowsApart /\ Others!PartsMakeTheWhole) /\ Others!EveryShardServed

\* mongodb: each step leaves histories that can be gone through, and each report one
\* document of its context.
DocumentsLinked == [][Mongo!LinksResolve']_(Mongo!vars) /\ Mongo!OneDocument
===============================================================================
