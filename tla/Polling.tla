------------------------------- MODULE Polling -------------------------------
(***************************************************************************)
(* A poll worker (module PollWorker, whose names are those of this one),   *)
(* the agent that walks the tables of the device for it (BulkWalk), the    *)
(* functions that make sense of their values (DeviceValues), the driver    *)
(* that makes rows of them (Driver), and the tree of a device's entities   *)
(* (EntityTree), over one set of constants and variables.                  *)
(*                                                                         *)
(* A walk is part of one call of the worker's driver, within one step of   *)
(* the worker, and so are a function, the rows and the tree: variables of  *)
(* the same name are shared, for no two of them are at work in the same    *)
(* behaviour.                                                              *)
(***************************************************************************)
EXTENDS PollWorker

CONSTANTS
    Devices, WalkLists, MaxRepeaters, NoMoreMib,                            \* BulkWalk
    Base, Octets, Bits, Short, Run, Nibble, Ignored, Banks, Modulus, Slots, Aps, Serials,
    MaxKeys,                                                                \* DeviceValues
    Makers, Collections, Parent,                                            \* Driver
    Last, Missing, Ports, Kinds                                             \* EntityTree

VARIABLES
    device, wanted, name, oid, thisF, lastIid, errored, out, open,          \* BulkWalk
    given, made,                                                            \* DeviceValues
    driver, collected, data, group, defs, count, copies, table, rows, results,  \* Driver
    items, tree, strays, rounds, unseen, at, remap, chassis                 \* EntityTree

Walk == INSTANCE BulkWalk WITH Lists <- WalkLists
Values == INSTANCE DeviceValues
Maker == INSTANCE Driver WITH Drivers <- Makers
Tree == INSTANCE EntityTree

ASSUME PollingAssumption ==
    /\ Walk!WalkAssumption /\ Values!ValuesAssumption
    /\ Maker!DriverAssumption /\ Tree!EntityAssumption

\* A walk returns the columns of the table.
WalkIsTable == Walk!WalkIsTable

\* What a value was made from can be read back, and rows are joined where they belong.
ValuesReadBack == Values!ValuesReadBack
RowsJoined == Values!RowsJoined

\* Every field is what its own definition says, and every row is published once,
\* where its own field says.
ResultsSound == Maker!ResultsSound

\* Every entity that is to be reported is, at its place.
TreeReported == Tree!TreeReported
===============================================================================
