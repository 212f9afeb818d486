------------------------------ MODULE MCPolling ------------------------------
(* A poll worker and what it is made of: the worker itself (module PollWorker), the
   agent that walks the tables of the device (BulkWalk), the driver that makes results
   of them (Driver), the tree of entities (EntityTree), and the values that need
   decoding (DeviceValues).  A behaviour explores one of them, `which'; variables of
   the same name are shared. *)
EXTENDS Polling, FiniteSets, TLC

CONSTANTS d1, d2, d3, p1, a1, a2, s1, s2

VARIABLE which

-----------------------------------------------------------------------------
(* The worker: a job that names its driver, and jobs that probe *)

MCLists == {<<d1>>, <<d1, d2, d3>>, <<d3>>, <<d3, d1>>}

-----------------------------------------------------------------------------
(* Entities *)

MCPorts == {p1}
MCKinds ==
    {[type |-> "module", serial |-> TRUE, port |-> None, rev |-> TRUE],
     [type |-> "container", serial |-> FALSE, port |-> p1, rev |-> FALSE],
     [type |-> "transceiver", serial |-> TRUE, port |-> p1, rev |-> FALSE],
     [type |-> "transceiver", serial |-> FALSE, port |-> None, rev |-> FALSE],
     [type |-> "fan", serial |-> FALSE, port |-> None, rev |-> FALSE],
     [type |-> "chassis", serial |-> FALSE, port |-> None, rev |-> FALSE]}

-----------------------------------------------------------------------------
(* Drivers: one for each map, and some of several groups *)

Def(field, ref, maps) ==
    [field |-> field, ref |-> ref, required |-> TRUE, clean |-> FALSE, maps |-> maps]
Optional(field, ref, maps) == [Def(field, ref, maps) EXCEPT !.required = FALSE]
Group(list, post) == [defs |-> list, post |-> post, keep |-> TRUE, byKey |-> TRUE]
One(list, post) == [groups |-> ("g" :> Group(list, post))]

ByName == [by |-> "key_sub", ref |-> "name"]
ValueBy(from, ref, to, other) ==
    [by |-> "value_sub", from |-> from, ref |-> ref, to |-> to, other |-> other]
Translated == ValueBy("dict", None, ("u" :> "up"), "other")
Shift == [by |-> "regexp", to |-> ("1" :> "2") @@ ("2" :> "3")]
Call == [by |-> "function", to |-> ("1" :> "1") @@ ("2" :> "1")]
ExtractedKey == [by |-> "extract_from_key", field |-> "vlan", part |-> ("1" :> "v"),
              to |-> ("1" :> "3")]
Merged == [by |-> "merge_defs", without |-> ("x" :> {}) @@ ("y" :> {"u"})]
Filtered == [by |-> "filter", on |-> "value", keep |-> ("u" :> FALSE), other |-> TRUE]
Function == [by |-> "port_function", ports |-> "x", trunk |-> "y", access |-> "s",
             names |-> <<"trunk", "access">>]
RemoveRows == [by |-> "post_remove", field |-> "y", value |-> "u"]
Default == [by |-> "post_default_value", field |-> "y", value |-> "d"]
Rename == [by |-> "post_key_rename", field |-> "x", value |-> "z"]
Clean == [by |-> "post_clean", field |-> "x"]
Named == [by |-> "post_new_group_from_field", field |-> "x"]
Raises == [by |-> "post_function", field |-> "none", group |-> "g"]
FanLookup == [by |-> "post_function", group |-> "map", field |-> "x"]
PostExtract == [by |-> "post_extract", field |-> "x",
                parts |-> ("u" :> (("port" :> "1") @@ ("ip" :> "i"))) @@ ("v" :> ("x" :> "w"))]
Lookup == [by |-> "post_key_sub", field |-> "port", group |-> "meta", ref |-> "y"]
Meta(list) == [Group(list, <<>>) EXCEPT !.keep = FALSE, !.byKey = FALSE]

MCDrivers ==
    {One(<<Def("x", "r", <<ByName>>), Def("y", "s", <<ByName, Translated>>)>>, <<Default>>),
     One(<<Def("x", "r", <<>>), Optional("y", "r", <<Translated>>),
           Optional("z", "r", <<Filtered>>)>>,
         <<Raises, Named>>),
     One(<<Def("r", "r", <<ByName>>), Def("y", "r", <<>>)>>, <<Rename>>),
     One(<<Def("x", "r", <<Shift>>), Optional("y", "s", <<Call, ByName>>)>>, <<RemoveRows, Clean>>),
     One(<<Def("x", "r", <<ExtractedKey>>), Optional("y", "s", <<>>),
           Def("w", None, <<Merged>>), Def("f", None, <<Function>>)>>, <<>>),
     One(<<Def("x", "r", <<ValueBy("ref", "name", <<>>, None)>>),
           [Def("y", "s", <<ValueBy("parent_ref", "parent", <<>>, None)>>) EXCEPT !.clean = TRUE]>>,
         <<Named, Default>>),
     [groups |-> ("g" :> Group(<<Def("x", "r", <<>>)>>, <<PostExtract, Lookup>>)) @@
                 ("meta" :> Meta(<<Optional("y", "s", <<>>), Optional("z", "name", <<>>)>>))],
     [groups |-> ("meta" :> Meta(<<[Optional("x", "s", <<>>) EXCEPT !.clean = TRUE],
                                   Def("y", "r", <<>>)>>))],
     [groups |-> ("g" :> Group(<<Def("x", "r", <<>>)>>, <<FanLookup>>)) @@
                 ("map" :> [Group(<<Def("position", "s", <<>>),
                                   Def("class", "name", <<>>)>>, <<>>) EXCEPT !.keep = FALSE])],
     [groups |-> ("g" :> Group(<<Def("x", "r", <<>>)>>, <<Default, Named>>)) @@
                 ("h" :> [Group(<<Def("x", "s", <<>>)>>, <<>>) EXCEPT !.keep = FALSE])],
     [groups |-> ("g" :> Group(<<Def("x", "r", <<>>), Def("y", "r", <<>>)>>, <<>>)) @@
                 ("h" :> Group(<<Def("z", "s", <<>>), Def("w", "s", <<ByName>>)>>, <<Rename>>))],
     [groups |-> ("g" :> Group(<<Def("x", "r", <<>>)>>, <<>>)) @@
                 ("h" :> Group(<<Def("y", "r", <<>>)>>, <<>>))]}

Columns == UNION {[ks -> {"u", None, "v"}] : ks \in {{"1"}, {"1", "2"}}}

MCCollections ==
    {("r" :> c) @@ ("name" :> (("1" :> "p") @@ ("2" :> "q"))) : c \in Columns} \cup
    {("r" :> c) @@ ("s" :> d) @@ ("name" :> (("1" :> "p") @@ ("2" :> "p"))) : c, d \in Columns} \cup
    {("r" :> c) @@ ("s" :> c) : c \in Columns}

MCParent == "parent" :> ("u" :> "w")

-----------------------------------------------------------------------------
(* Walks *)

Before(o, p) == o[1] < p[1] \/ (o[1] = p[1] /\ o[2] < p[2])
Table == {<<1, 1>>, <<1, 2>>, <<1, 3>>, <<2, 1>>, <<2, 2>>, <<3, 1>>}
Objects == {<<f, 0>> : f \in 1 .. 4}

\* The successors in a view.
InOrder(view) ==
    LET later(o) == {p \in view : Before(o, p)}
    IN  [o \in {o \in view \cup Objects : later(o) # {}} |->
           CHOOSE p \in later(o) : \A q \in later(o) : q = p \/ Before(p, q)]

Device(agent, view, next, mute) ==
    [agent |-> agent, next |-> next, mute |-> mute, value |-> [o \in view |-> o[1] * 10 + o[2]]]

Conform(view) == Device("SNMP", view, InOrder(view), {})

\* A device that names an instance again, one that goes round two of them, one
\* that reports an error.
Stuck == Device("SNMP", Table, [InOrder(Table) EXCEPT ![<<1, 2>>] = <<1, 2>>], {})
Round == Device("SNMP", Table, [InOrder(Table) EXCEPT ![<<1, 3>>] = <<1, 2>>], {})
Mute == Device("SNMP", Table, InOrder(Table), {<<1, 0>>, <<2, 1>>})

MCDevices ==
    {Conform(view) : view \in SUBSET Table} \cup {Stuck, Round, Mute} \cup
    {Device(agent, view, <<>>, {}) : agent \in {"NetConfig", "CommandLine"},
                                     view \in {Table, {<<2, 1>>}}}
MCWalkLists == {<<1>>, <<2, 1>>, <<1, 3>>, <<4>>, <<3, 2, 1>>}

-----------------------------------------------------------------------------
(* One of them moves *)

workerOnly == <<job, success, verdict, left, trying, named, alarm, failed, got, total,
                elapsed, sources, ends>>
walkOnly == <<device, wanted, name, oid, thisF, lastIid, errored, out, open>>
driverOnly == <<driver, collected, data, group, defs, count, copies, table, rows, results>>
treeOnly == <<items, tree, strays, rounds, unseen, at, remap, chassis>>
allVars == <<which, workerOnly, walkOnly, driverOnly, treeOnly, made, given, stage, groups, todo>>

NoWorker == /\ job = None /\ success = None /\ verdict = None /\ left = <<>> /\ trying = None
            /\ named = FALSE /\ alarm = None /\ failed = 0 /\ got = 0 /\ total = 0
            /\ elapsed = 0 /\ sources = {} /\ ends = {}
NoWalk == /\ device = None /\ wanted = None /\ name = None /\ oid = None /\ thisF = None
          /\ lastIid = None /\ errored = None /\ out = None /\ open = None
NoMaker == /\ driver = None /\ collected = None /\ data = None /\ group = None /\ defs = None
           /\ count = None /\ copies = None /\ table = None /\ rows = None /\ results = None
NoTree == /\ items = None /\ tree = None /\ strays = None /\ rounds = None /\ unseen = None
          /\ at = None /\ remap = None /\ chassis = None

MCInit ==
    \/ /\ which = "worker" /\ Init /\ NoWalk /\ NoMaker /\ NoTree /\ given = None /\ made = None
    \/ /\ which = "walk" /\ Walk!Init /\ NoWorker /\ NoMaker /\ NoTree
       /\ given = None /\ made = None /\ groups = 0
    \/ /\ which = "driver" /\ Maker!Init /\ NoWorker /\ NoWalk /\ NoTree
       /\ given = None /\ made = None /\ todo = 0
    \/ /\ which = "tree" /\ Tree!Init /\ NoWorker /\ NoWalk /\ NoMaker
       /\ made = None /\ groups = 0 /\ todo = 0
    \/ /\ which = "values" /\ Values!GivenInit /\ NoWorker /\ NoWalk /\ NoMaker /\ NoTree
       /\ stage = "idle" /\ groups = 0 /\ todo = 0

MCNext ==
    /\ UNCHANGED which
    /\ \/ /\ which = "worker" /\ Next
          /\ UNCHANGED <<walkOnly, driverOnly, treeOnly, made, given>>
       \/ /\ which = "walk" /\ Walk!Next
          /\ UNCHANGED <<workerOnly, driverOnly, treeOnly, made, given, groups>>
       \/ /\ which = "driver" /\ Maker!Next
          /\ UNCHANGED <<workerOnly, walkOnly, treeOnly, made, given, todo>>
       \/ /\ which = "tree" /\ Tree!Next
          /\ UNCHANGED <<workerOnly, walkOnly, driverOnly, made, groups, todo>>
       \/ /\ which = "values" /\ Values!Make
          /\ UNCHANGED <<workerOnly, walkOnly, driverOnly, treeOnly, stage, groups, todo>>

MCSpec ==
    /\ MCInit /\ [][MCNext]_allVars
    /\ which = "worker" => WF_vars(Own) /\ WF_vars(Tick)
    /\ which = "walk" => WF_<<Walk!vars>>(Walk!Work)

-----------------------------------------------------------------------------
(* What is checked: of the worker, what PollWorker says; of the rest, what Polling says *)

\* A walk ends.
WalkEnds == which = "walk" => Walk!WalkEnds
=============================================================================
