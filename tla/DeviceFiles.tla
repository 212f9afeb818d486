----------------------------- MODULE DeviceFiles -----------------------------
(***************************************************************************)
(* The update of what is polled from the registry of devices (ipam): every *)
(* registered network device is put in a category; the store is told, and  *)
(* the file of each category, which the scheduler takes the hosts to poll  *)
(* from, is read, brought up to date and written again.  Operators edit    *)
(* the same files, to poll a host in another way than the rest.            *)
(***************************************************************************)
EXTENDS Integers, FiniteSets, Functions, FiniteSetsExt

CONSTANTS
    Devices,
    Terminals,      \* devices that are terminal servers: not polled
    Excluded,       \* devices that match exclude_devices
    Rules,          \* the category files there may be: device -> [name, exclude], the
                    \* categories it matches by name and by exclusion
    Categories,     \* their names, with "other"
    MaxChanges,     \* bound: changes of the registry, the rules and the files by people
    MaxRuns, MaxCrashes

FilesAssumption ==
    /\ Terminals \subseteq Devices /\ "other" \in Categories
    /\ Rules \subseteq [Devices -> [name : SUBSET Categories, exclude : SUBSET Categories]]
    /\ {"idle", "files"} \cap Categories = {}      \* what `at' can be besides
    /\ MaxChanges \in Nat /\ MaxRuns \in Nat /\ MaxCrashes \in Nat

VARIABLES
    registry, rules,    \* what is registered, and how it is categorised
    files,              \* category -> NoFile, or its hosts, each with its customisation
    told,               \* device -> the categories the store was told last
    items, todo,        \* of an update: category -> devices; the categories left
    at,                 \* the category whose file is in hand, and how far the update is
    current,            \* what was read from it
    changes, updates, crashes,
    wanted              \* (history) the customisations as pairs of a category and a device

fvars == <<registry, rules, files, told, items, todo, at, current, changes, updates, crashes,
           wanted>>

File(hosts) == [is |-> "there", hosts |-> hosts]
NoFile == [is |-> "none", hosts |-> <<>>]
Empty == [is |-> "empty", hosts |-> <<>>]       \* one that was opened to be written only
Plain == "None"                 \* a host without customisation
Custom == "customised"

There(c) == files[c].is = "there"

\* Categoriser.get: the categories that match by name or by exclusion, but not by both.
CategoriesOf(d) ==
    LET r == rules[d]
        c == (r.name \cup r.exclude) \ (r.name \cap r.exclude)
    IN  IF c = {} THEN {"other"} ELSE c

\* A device is listed under one of its categories.
Chosen(d) == CHOOSE c \in CategoriesOf(d) : TRUE

Kept == {d \in registry : d \notin Excluded}

\* update_store and the lists of the categories, as the registry is now.
Collect ==
    /\ at = "idle" /\ updates < MaxRuns
    /\ updates' = updates + 1
    /\ told' = [d \in Devices |-> IF d \in Kept THEN CategoriesOf(d) ELSE told[d]]
    /\ items' = [c \in {Chosen(d) : d \in Kept} |-> {d \in Kept : Chosen(d) = c}]
    /\ todo' = {Chosen(d) : d \in Kept}
    /\ at' = IF Kept = {} THEN "idle" ELSE "files"
    /\ UNCHANGED <<registry, rules, files, current, changes, crashes, wanted>>

\* The file of a category is read; without one, a new one is begun.  There is nothing to
\* search for hosts in an empty one: a TypeError ends the update.
ReadFile(c) ==
    /\ at = "files" /\ c \in todo
    /\ IF files[c] = Empty THEN at' = "idle" /\ UNCHANGED current
       ELSE at' = c /\ current' = files[c].hosts
    /\ UNCHANGED <<registry, rules, files, told, items, todo, changes, updates, crashes, wanted>>

\* Mutated: every device of the category is written as a new one.
ListedAnew(c) == [d \in items[c] \ Terminals |-> Plain]

\* The devices of the category, except terminal servers, with the customisations there
\* are; and the terminal servers that somebody put there.
Listed(c) ==
    [d \in (items[c] \ Terminals) \cup (DOMAIN current \cap items[c]) |->
        IF d \in DOMAIN current THEN current[d] ELSE Plain]

\* Opened to be written, a file is empty.
Truncate(c) ==
    /\ at = c /\ c \in todo /\ files[c] # Empty
    /\ files' = [files EXCEPT ![c] = Empty]
    /\ UNCHANGED <<registry, rules, told, items, todo, at, current, changes, updates, crashes,
                   wanted>>

Dump(c) ==
    /\ at = c /\ c \in todo /\ files[c] = Empty
    /\ files' = [files EXCEPT ![c] = File(Listed(c))]
    /\ todo' = todo \ {c}
    /\ at' = IF todo = {c} THEN "idle" ELSE "files"
    /\ wanted' = {w \in wanted : w[1] = c => w[2] \in items[c]}
    /\ UNCHANGED <<registry, rules, told, items, current, changes, updates, crashes>>

\* The command is interrupted.
Crash ==
    /\ at # "idle" /\ crashes < MaxCrashes
    /\ crashes' = crashes + 1
    /\ at' = "idle"
    /\ UNCHANGED <<registry, rules, files, told, items, todo, current, changes, updates, wanted>>

\* People: a device is registered or no longer; the rules are others; a host is polled in
\* another way, unless the update has the file in hand (its edit would be overwritten: see
\* the README); a broken file is removed.
Counted == changes < MaxChanges /\ changes' = changes + 1

Register ==
    /\ Counted
    /\ \E d \in Devices : registry' = IF d \in registry THEN registry \ {d} ELSE registry \cup {d}
    /\ UNCHANGED <<rules, files, told, items, todo, at, current, updates, crashes, wanted>>

Recategorise ==
    /\ Counted
    /\ rules' \in Rules \ {rules}
    /\ UNCHANGED <<registry, files, told, items, todo, at, current, updates, crashes, wanted>>

\* The hosts of a file, one of them polled in another way.
Customised(hosts, d) == [x \in DOMAIN hosts \cup {d} |-> IF x = d THEN Custom ELSE hosts[x]]

Customise ==
    /\ Counted
    /\ \E c \in Categories \ {at} : \E d \in Devices :
          /\ There(c)
          /\ d \in DOMAIN files[c].hosts \/ d \in Terminals
          /\ files' = [files EXCEPT ![c].hosts = Customised(@, d)]
          /\ wanted' = wanted \cup {<<c, d>>}
    /\ UNCHANGED <<registry, rules, told, items, todo, at, current, updates, crashes>>

Repair ==
    /\ \E c \in Categories \ {at} :
          /\ files[c] = Empty
          /\ files' = [files EXCEPT ![c] = NoFile]
          /\ wanted' = {w \in wanted : w[1] # c}
    /\ UNCHANGED <<registry, rules, told, items, todo, at, current, changes, updates, crashes>>

FilesInit ==
    /\ registry = {} /\ rules \in Rules /\ files = [c \in Categories |-> NoFile]
    /\ told = [d \in Devices |-> {}] /\ items = <<>> /\ todo = {} /\ at = "idle"
    /\ current = <<>> /\ changes = 0 /\ updates = 0 /\ crashes = 0 /\ wanted = {}

FilesNext ==
    \/ Collect \/ Crash
    \/ \E c \in Categories : ReadFile(c) \/ Truncate(c) \/ Dump(c)
    \/ Register \/ Recategorise \/ Customise \/ Repair

FilesSpec == FilesInit /\ [][FilesNext]_fvars

-----------------------------------------------------------------------------
(* Properties *)

\* What an operator wrote for a host stays in the file of the category for as long as
\* the device is of the category, through any updates and interrupted updates.
CustomisationsKept ==
    \A w \in wanted :
        There(w[1]) => w[2] \in DOMAIN files[w[1]].hosts /\ files[w[1]].hosts[w[2]] = Custom

Ends == \E c \in todo : at = c /\ todo = {c} /\ todo' = {}

\* When an update ends, the files of the categories that have devices list those it
\* found, and the store was told the same categories.
EndsTrue ==
    Ends => \A c \in DOMAIN items :
        /\ items[c] \ Terminals \subseteq DOMAIN files'[c].hosts
        /\ DOMAIN files'[c].hosts \ Terminals \subseteq items[c]
        /\ \A d \in items[c] : c \in told[d]

FilesFollow == [][EndsTrue]_fvars

\* commands.py:201 "# remove hosts no longer in use": when an update ends, no file lists
\* a host that was not found in its category.  Violated: only the files of categories
\* that still have devices are written.
NoneOutOfUse ==
    [][Ends => \A c \in Categories :
          DOMAIN files'[c].hosts \ Terminals \subseteq UNION {items[k] : k \in DOMAIN items \cap {c}}]_fvars
=============================================================================
