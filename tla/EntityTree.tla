------------------------------ MODULE EntityTree ------------------------------
(***************************************************************************)
(* The inventory of a device (lib/ptolemy/poller/driver.py): the entities  *)
(* it reports name their parents, and post_normalise_entities builds the   *)
(* tree of them, drops the entities that are of no use, hangs their        *)
(* children one level up, and gives a transceiver the name of its port.    *)
(*                                                                         *)
(* An entity is known by a number, in the order the loops take them, a     *)
(* port by its name.  A tree (a dictionary of dictionaries) is the         *)
(* function from its nodes to the nodes above them.                        *)
(***************************************************************************)
EXTENDS Integers, Functions

CONSTANTS
    Last,           \* the entities are 1 .. Last
    Missing,        \* a parent the device does not report
    Ports,          \* the names of physical ports
    None,
    Kinds           \* what an entity can be: records [type, serial, port, rev]

Root == 0           \* the parent of an entity at the top
Top == -1           \* where the nodes without a parent in the tree hang

Entities == 1 .. Last
Types == {"chassis", "module", "transceiver", "container", "fan"}

EntityAssumption ==
    /\ Last \in Nat /\ Missing \notin Int /\ None \notin Int
    /\ Missing \notin Ports /\ None \notin Ports /\ Missing # None
    /\ Ports \cap Int = {}
    /\ Kinds \subseteq [type : Types, serial : BOOLEAN, port : Ports \cup {None},
                        rev : BOOLEAN]

VARIABLES
    given,          \* what the device reported (history)
    items,          \* data[g], as far as processed
    tree, strays,   \* topology and the branches that are not part of it
    rounds,         \* rounds over the strays left
    unseen,         \* strays not looked at in this round
    at,             \* the entity the loop has come to
    remap,          \* the transceivers to rename
    chassis,        \* the chassis found
    stage           \* "placing", "moving", "scanning", "cleaning", "chassis",
                    \* "reported" or "lost"

vars == <<given, items, tree, strays, rounds, unseen, at, remap, chassis, stage>>

-----------------------------------------------------------------------------
(* Operators on trees *)

\* walk_to finds the node.
Found(node, t) == node \in DOMAIN t

\* attach: below the parent if the tree has it, else at the top.
Attached(node, parent, t) ==
    [n \in DOMAIN t \cup {node} |-> IF n # node THEN t[n]
                                    ELSE IF Found(parent, t) THEN parent ELSE Top]

ChildrenIn(node, t) == {c \in DOMAIN t : t[c] = node}

\* node and everything below it: what is in every set that has node, and with a node
\* those below it.
Branch(node, t) ==
    LET nodes == DOMAIN t \cup {node}
        whole(X) == node \in X /\ \A c \in DOMAIN t : t[c] \in X => c \in X
    IN  {n \in nodes : \A X \in SUBSET nodes : whole(X) => n \in X}

Without(t, nodes) == Restrict(t, DOMAIN t \ nodes)

\* The tree after regraft.  The children that still have data hang from the parent, and
\* node goes with what else is below it; if the tree does not have the parent, the
\* branches of those children are dropped, and node stays.  (If it does, node is below
\* it: PollWorkerProofs, InPlace.)
Regrafted(node, parent, known, t) ==
    LET kept == ChildrenIn(node, t) \cap known
        branches == UNION {Branch(c, t) : c \in kept}
    IN  IF Found(parent, t)
        THEN [n \in DOMAIN t \ (Branch(node, t) \ branches) |-> IF n \in kept THEN parent ELSE t[n]]
        ELSE Without(t, branches)

\* The tree after reattach_as: new, with the children of node, in place of node.
Renamed(node, new, parent, t) ==
    IF Found(parent, t)
    THEN [n \in (DOMAIN t \ {node}) \cup {new} |->
             IF n = new THEN parent ELSE IF t[n] = node THEN new ELSE t[n]]
    ELSE t

-----------------------------------------------------------------------------
(* build_tree *)

\* Entities in turn: below the parent, or at the top if there is none to have
\* (add_if_orphan is False), or else with the strays.
Place ==
    /\ stage = "placing" /\ at <= Last
    /\ LET parent == items[at].parent
       IN  IF parent = Root \/ Found(parent, tree)
           THEN tree' = Attached(at, parent, tree) /\ UNCHANGED strays
           ELSE strays' = Attached(at, parent, strays) /\ UNCHANGED tree
    /\ at' = at + 1
    /\ UNCHANGED <<given, items, rounds, unseen, remap, chassis, stage>>

\* Mutated: one round over the strays.
OneRound == 1

Rounds == 2

StrayTops == ChildrenIn(Top, strays)

Placed ==
    /\ stage = "placing" /\ at > Last
    /\ stage' = "moving" /\ rounds' = Rounds /\ unseen' = {}
    /\ UNCHANGED <<given, items, tree, strays, at, remap, chassis>>

\* `while len(strays.keys()) and iterations > 0'
Round ==
    /\ stage = "moving" /\ unseen = {} /\ strays # <<>> /\ rounds > 0
    /\ unseen' = StrayTops /\ rounds' = rounds - 1
    /\ UNCHANGED <<given, items, tree, strays, at, remap, chassis, stage>>

\* A stray branch, in the order of a dictionary: none to rely on.
Move ==
    /\ stage = "moving"
    /\ \E s \in unseen :
          LET parent == items[s].parent
              branch == Branch(s, strays)
          IN  /\ unseen' = unseen \ {s}
              /\ IF Found(parent, tree)
                 THEN /\ tree' = [n \in DOMAIN tree \cup branch |->
                                     IF n = s THEN parent
                                     ELSE IF n \in branch THEN strays[n] ELSE tree[n]]
                      /\ strays' = Without(strays, branch)
                 ELSE UNCHANGED <<tree, strays>>
    /\ UNCHANGED <<given, items, rounds, at, remap, chassis, stage>>

TreeBuilt ==
    /\ stage = "moving" /\ unseen = {} /\ (strays = <<>> \/ rounds = 0)
    /\ stage' = "scanning" /\ at' = 1
    /\ UNCHANGED <<given, items, tree, strays, rounds, unseen, remap, chassis>>

-----------------------------------------------------------------------------
(* post_normalise_entities *)

\* An exception in a post function: the group is not reported at all.
Lost ==
    /\ stage' = "lost"
    /\ UNCHANGED <<given, items, tree, strays, rounds, unseen, at, remap, chassis>>

\* A transceiver is to get the name of the port that the last of its children
\* describes, or it itself; each child is told already what it describes.
NamePort(node) ==
    LET children == ChildrenIn(node, tree)
    IN  \E last \in IF children = {} THEN {node} ELSE children :
           LET port == IF items[last].port # None THEN items[last].port
                       ELSE items[node].port
           IN  /\ items' = [i \in DOMAIN items |->
                              IF i \in children THEN [items[i] EXCEPT !.parent = items[i].port]
                              ELSE items[i]]
               /\ remap' = IF port = None THEN remap
                           ELSE [i \in DOMAIN remap \cup {node} |->
                                    IF i = node THEN port ELSE remap[i]]

\* The first loop.  A transceiver that is not part of the tree is an exception.
Scan ==
    /\ stage = "scanning" /\ at <= Last
    /\ IF items[at].type = "transceiver" /\ ~Found(at, tree) THEN Lost
       ELSE /\ at' = at + 1
            /\ IF items[at].type = "transceiver" THEN NamePort(at)
               ELSE UNCHANGED <<items, remap>>
            /\ chassis' = IF items[at].type = "chassis" THEN chassis \cup {at} ELSE chassis
            /\ UNCHANGED <<given, tree, strays, rounds, unseen, stage>>

Scanned ==
    /\ stage = "scanning" /\ at > Last
    /\ stage' = "cleaning" /\ at' = 1
    /\ UNCHANGED <<given, items, tree, strays, rounds, unseen, remap, chassis>>

\* Without a serial number, and neither a fan nor at the top.
Useless(i) ==
    items[i].parent # Root /\ ~items[i].serial /\ items[i].type # "fan"

\* regraft, then the entry is deleted.
Remove(i) ==
    LET parent == items[i].parent
        children == ChildrenIn(i, tree)
    IN  /\ tree' = IF Found(i, tree) THEN Regrafted(i, parent, DOMAIN items, tree) ELSE tree
        /\ items' = [c \in DOMAIN items \ {i} |->
                       IF c \in children THEN [items[c] EXCEPT !.parent = parent]
                       ELSE items[c]]

\* reattach_as.  The children are told the new name only if the node is still in the
\* tree under the old one, which is so if its parent is not.
Told(i) == IF Found(items[i].parent, tree) THEN {} ELSE ChildrenIn(i, tree)

Rename(i, new) ==
    /\ tree' = Renamed(i, new, items[i].parent, tree)
    /\ items' = [c \in (DOMAIN items \ {i}) \cup {new} |->
                   IF c = new THEN items[i]
                   ELSE IF c \in Told(i) THEN [items[c] EXCEPT !.parent = new]
                   ELSE items[c]]

\* The second loop.  To tell a child that was removed is an exception.
Clean ==
    /\ stage = "cleaning" /\ at <= Last
    /\ IF ~Useless(at) /\ at \in DOMAIN remap /\ ~(Told(at) \subseteq DOMAIN items) THEN Lost
       ELSE /\ at' = at + 1
            /\ CASE Useless(at) -> Remove(at)
                 [] ~Useless(at) /\ at \in DOMAIN remap -> Rename(at, remap[at])
                 [] OTHER -> UNCHANGED <<items, tree>>
            /\ UNCHANGED <<given, strays, rounds, unseen, remap, chassis, stage>>

\* A chassis without a software version takes that of its supervisor modules if
\* they agree (here: if there is one), or of its module if there are several chassis.
OnlyOne(S) == \E x \in S : S = {x}
Modules(c) ==
    IF OnlyOne(chassis) THEN {m \in Entities : given[m].type = "module" /\ given[m].rev}
    ELSE {m \in ChildrenIn(c, tree) \cap DOMAIN items : items[m].type = "module"}

Revised ==
    [i \in DOMAIN items |->
        IF i \in chassis
        THEN [items[i] EXCEPT !.rev = @ \/ (OnlyOne(Modules(i)) /\ \A m \in Modules(i) :
                                               (IF m \in DOMAIN items THEN items ELSE given)[m].rev)]
        ELSE items[i]]

\* The only chassis, or a chassis with one module, that was removed is an exception, and
\* so is, below one of several, a node that was.
ChassisMissing(c) ==
    \/ c \notin DOMAIN items /\ (OnlyOne(chassis) \/ OnlyOne(Modules(c)))
    \/ ~OnlyOne(chassis) /\ ~(ChildrenIn(c, tree) \subseteq DOMAIN items)

Chassis ==
    /\ stage = "cleaning" /\ at > Last
    /\ IF \E c \in chassis : ChassisMissing(c) THEN Lost
       ELSE /\ items' = Revised /\ stage' = "reported"
            /\ UNCHANGED <<given, tree, strays, rounds, unseen, at, remap, chassis>>

-----------------------------------------------------------------------------
(* What a device reports *)

Reports ==
    [Entities -> {[type |-> k.type, serial |-> k.serial, port |-> k.port, rev |-> k.rev,
                   parent |-> p] : k \in Kinds, p \in Entities \cup {Root, Missing}}]

Transceivers == {i \in Entities : given[i].type = "transceiver"}
In(i) == {c \in Entities : given[c].parent = i}

\* No two transceivers describe the same port.
PortsApart ==
    \A t, u \in Transceivers : t # u =>
        \A i \in {t} \cup In(t), j \in {u} \cup In(u) : given[i].port # None => given[i].port # given[j].port

Init ==
    /\ given \in Reports /\ PortsApart /\ items = given
    /\ tree = <<>> /\ strays = <<>>
    /\ rounds = 0 /\ unseen = {} /\ at = 1
    /\ remap = <<>> /\ chassis = {} /\ stage = "placing"

Finished == stage \in {"reported", "lost"} /\ UNCHANGED vars

Next ==
    \/ Place \/ Placed \/ Round \/ Move \/ TreeBuilt
    \/ Scan \/ Scanned \/ Clean \/ Chassis
    \/ Finished

Spec == Init /\ [][Next]_vars

-----------------------------------------------------------------------------
(* Properties *)

\* The entities that reach the root over links to an earlier entity, or over a link to one
\* of those given (and before it over links to an earlier one).
Reached(those) ==
    LET whole(X) == \A i \in Entities :
            given[i].parent \in {Root} \cup those \/ (given[i].parent \in X /\ given[i].parent < i)
                => i \in X
    IN  {i \in Entities : \A X \in SUBSET Entities : whole(X) => i \in X}

\* Those that reach it over at most n links to a later entity; and those that reach it.
ReachesRoot(n) ==
    CASE n = 0 -> Reached({})
      [] n = 1 -> Reached(Reached({}))
      [] n = 2 -> Reached(Reached(Reached({})))

Rooted ==
    LET whole(X) == \A i \in Entities : given[i].parent \in {Root} \cup X => i \in X
    IN  {i \in Entities : \A X \in SUBSET Entities : whole(X) => i \in X}

\* build_tree promises that the order of the input does not matter much: an
\* entity is part of the tree if it reaches the root over no more than two links
\* to a later entity, in whatever order a dictionary returns the strays; and an
\* entity that does not reach the root never is.
TreeComplete ==
    stage = "scanning" =>
        /\ ReachesRoot(2) \subseteq DOMAIN tree
        /\ DOMAIN tree \subseteq Rooted

\* A transceiver that holds, if anything, what describes one and the same port and
\* neither is a transceiver nor holds anything.
Plain(t) ==
    \A c \in In(t) : /\ c \notin Transceivers /\ In(c) = {}
                     /\ \A d \in In(t) : given[c].port = given[d].port

\* The dangling links are the device's own: whatever is removed, renamed and
\* regrafted, the parent of an entity that is reported is reported with it,
\* provided that the tree held all entities and transceivers are plain.  What has
\* no description of a port is told `no parent' by the code; these are the links None.
ParentsReported ==
    stage = "reported" /\ strays = <<>> /\ (\A t \in Transceivers : Plain(t)) =>
        \A i \in DOMAIN items :
            items[i].parent \in DOMAIN items \cup {Root, None}

\* Cleaning is not to lose hardware: what has a serial number, and each fan, is
\* reported, by its number or by the port it was renamed to.
HardwareKept ==
    stage = "reported" =>
        \A i \in Entities : given[i].serial \/ given[i].type = "fan" =>
            i \in DOMAIN items \/ (i \in DOMAIN remap /\ remap[i] \in DOMAIN items)

\* The group as a whole is lost for three reasons only: a transceiver that is not
\* connected to the root over timely links, one after something in it that is removed
\* or renamed, or a useless chassis.
LostForAReason ==
    stage = "lost" =>
        \/ ~(Transceivers \subseteq ReachesRoot(2))
        \/ \E t \in Transceivers : \E c \in In(t) :
              c < t /\ (c \in Transceivers \/ (~given[c].serial /\ given[c].type # "fan"))
        \/ \E c \in Entities : given[c].type = "chassis" /\ ~given[c].serial /\ given[c].parent # Root

\* All of this: what is reported of the entities is what the device has, hung together.
TreeReported == TreeComplete /\ ParentsReported /\ HardwareKept /\ LostForAReason
=============================================================================
