-------------------------------- MODULE Driver --------------------------------
(***************************************************************************)
(* How a driver turns what an agent collected into rows                    *)
(* (lib/ptolemy/poller/driver.py, and process of the Gatherer,             *)
(* lib/ptolemy/poller/workers.py).                                         *)
(*                                                                         *)
(* Collected data are columns: for every variable of the device, a         *)
(* function from keys to values.  A driver has groups of definitions; a    *)
(* definition makes a field out of a variable, its `ref', by renaming the  *)
(* column and mapping its keys and values.  The rows of a group then go    *)
(* through the group's post maps.                                          *)
(*                                                                         *)
(* The order of a dictionary is arbitrary: the groups are taken in any     *)
(* order, and so are the keys of a column.                                 *)
(***************************************************************************)
EXTENDS Integers, Sequences, FiniteSets, Functions, SequencesExt

CONSTANTS
    Drivers,        \* the drivers: [groups : name -> group]
    Collections,    \* what agents may collect
    Parent,         \* columns of the groups that an iteration refers to
    None

\* Refs are names or None; a definition says whether its ref is required.  A column
\* that was collected has entries: collect makes it for the first one.
DriverAssumption ==
    /\ \A d \in Drivers : \A g \in DOMAIN d.groups :
          /\ d.groups[g].defs \in Seq(Range(d.groups[g].defs))
          /\ d.groups[g].post \in Seq(Range(d.groups[g].post))
          /\ \A def \in Range(d.groups[g].defs) :
                /\ DOMAIN def = {"field", "ref", "required", "clean", "maps"}
                /\ def.maps \in Seq(Range(def.maps))
          /\ \A m \in Range(d.groups[g].post) :
                m.by \in {"post_remove", "post_default_value", "post_key_rename", "post_clean",
                          "post_extract", "post_key_sub", "post_function",
                          "post_new_group_from_field"}
    /\ \A c \in Collections : \A x \in DOMAIN c :
          c[x] = [k \in DOMAIN c[x] |-> c[x][k]] /\ DOMAIN c[x] # {}

VARIABLES
    driver,
    collected,      \* what the agent returned (history)
    data,           \* result, the columns
    groups,         \* groups not started yet
    group, defs,    \* the group at work, and its definitions left
    count, copies,  \* wanted_refs_count, wanted_refs
    table,          \* new_result: group -> key -> row
    rows,           \* rows not post-processed yet: <<group, key>>
    results,        \* what is published: group, or new group, -> list of rows
    stage           \* "processing", "posting", "done" or the exception

vars == <<driver, collected, data, groups, group, defs, count, copies, table, rows,
          results, stage>>

RefNotFound == "RefNotFound"
KeyError == "KeyError"

With(f, x, y) == [z \in DOMAIN f \cup {x} |-> IF z = x THEN y ELSE f[z]]
Without(f, xs) == Restrict(f, DOMAIN f \ xs)
At(f, x, default) == IF x \in DOMAIN f THEN f[x] ELSE default

-----------------------------------------------------------------------------
(* Maps: each returns the set of its outcomes, [data, stop] *)

Goes(columns) == [data |-> columns, stop |-> "no"]
Stops(columns, why) == [data |-> columns, stop |-> why]

\* Of the values that end at the same key, the last one written stays.
Regrouped(column, new) ==
    LET keys == DOMAIN column \cap DOMAIN new
    IN  {c \in [{new[k] : k \in keys} -> Range(column)] :
            \A j \in DOMAIN c : \E k \in keys : new[k] = j /\ column[k] = c[j]}

\* key_sub: the new keys are the values of another column; a key it does not
\* have goes.
KeySub(m, name, columns) ==
    IF m.ref \notin DOMAIN columns THEN {Stops(columns, RefNotFound)}
    ELSE IF name \notin DOMAIN columns THEN {Stops(columns, KeyError)}
    ELSE {Goes(With(columns, name, c)) : c \in Regrouped(columns[name], columns[m.ref])}

Mapped(column, to, other) ==
    [k \in DOMAIN column |-> At(to, column[k], IF other = None THEN column[k] ELSE other)]

\* value_sub by a dictionary (or set, prefix, value_math, function), by a column,
\* by a column of the parent's data.
ValueSub(m, name, columns) ==
    LET there == CASE m.from = "ref" -> columns [] m.from = "parent_ref" -> Parent
                   [] OTHER -> [x \in {m.ref} |-> m.to]
    IN  IF m.from # "dict" /\ m.ref \notin DOMAIN there THEN {Stops(columns, RefNotFound)}
        ELSE IF name \notin DOMAIN columns THEN {Stops(columns, KeyError)}
        ELSE {Goes(With(columns, name, Mapped(columns[name], there[m.ref], m.other)))}

\* regexp and function on keys: one by one, in the column itself.  A key that is
\* both an old and a new one is overwritten or deleted, whichever comes last.
\* For a function a key that stays is not touched.
Renamed(column, to, same) ==
    LET step(c, k) == IF k \notin DOMAIN to \/ (same /\ to[k] = k) THEN c
                      ELSE With(Without(c, {k}), to[k], column[k])
    IN  {FoldLeft(step, column, order) : order \in SetToSeqs(DOMAIN column)}

Keys(m, name, columns) ==
    IF name \notin DOMAIN columns THEN {Stops(columns, KeyError)}
    ELSE {Goes(With(columns, name, c)) : c \in Renamed(columns[name], m.to, m.by = "function")}

\* extract_from_key: parts of the keys become columns of their own.
Extract(m, name, columns) ==
    IF name \notin DOMAIN columns THEN {Stops(columns, KeyError)}
    ELSE LET matched == DOMAIN columns[name] \cap DOMAIN m.part
             key(k) == At(m.to, k, k)
             old == At(columns, m.field, <<>>)
         IN  {Goes(IF matched = {} THEN columns ELSE With(columns, m.field, c)) :
                c \in {[j \in DOMAIN old \cup DOMAIN new |-> At(new, j, At(old, j, None))] :
                         new \in Regrouped([k \in matched |-> m.part[k]],
                                           [k \in matched |-> key(k)])}}

\* merge_defs: the entries of other columns, without those excluded.  A single
\* source replaces the column, several ones are added to it.
MergeDefs(m, name, columns) ==
    LET excluded(k) == IF m.without[k] = {} THEN {None} ELSE m.without[k]
        taken == [k \in DOMAIN m.without |->
                    IF k \notin DOMAIN columns THEN <<>>
                    ELSE Restrict(columns[k], {i \in DOMAIN columns[k] :
                                                 columns[k][i] \notin excluded(k)})]
        sources == {k \in DOMAIN taken : taken[k] # <<>>}
        add(c, k) == [i \in DOMAIN c \cup DOMAIN taken[k] |-> At(taken[k], i, At(c, i, None))]
    IN  IF sources = {} THEN {Goes(columns)}
        ELSE {Goes(With(columns, name,
                        FoldLeft(add, IF Cardinality(sources) = 1 THEN <<>>
                                      ELSE At(columns, name, <<>>), order))) :
                order \in SetToSeqs(sources)}

\* filter: entries whose key or value the mapping, or its `other', turns off.
Filter(m, name, columns) ==
    IF name \notin DOMAIN columns THEN {Stops(columns, KeyError)}
    ELSE LET of(k) == IF m.on = "key" THEN k ELSE columns[name][k]
         IN  {Goes(With(columns, name, Restrict(columns[name],
                {k \in DOMAIN columns[name] : At(m.keep, of(k), m.other)})))}

\* function on the group: determine_port_function.  Its exceptions are logged.
PortFunction(m, name, columns) ==
    LET trunk == DOMAIN At(columns, m.trunk, <<>>)
        access == DOMAIN At(columns, m.access, <<>>)
    IN  {Goes(IF m.ports \notin DOMAIN columns THEN columns
              ELSE With(columns, name,
                   [p \in DOMAIN columns[m.ports] \cap (trunk \cup access) |->
                      IF p \in trunk THEN m.names[1] ELSE m.names[2]]))}

MapOutcomes(m, name, columns) ==
    CASE m.by = "key_sub" -> KeySub(m, name, columns)
      [] m.by = "value_sub" -> ValueSub(m, name, columns)
      [] m.by \in {"regexp", "function"} -> Keys(m, name, columns)
      [] m.by = "extract_from_key" -> Extract(m, name, columns)
      [] m.by = "merge_defs" -> MergeDefs(m, name, columns)
      [] m.by = "filter" -> Filter(m, name, columns)
      [] m.by = "port_function" -> PortFunction(m, name, columns)

-----------------------------------------------------------------------------
(* remap: one definition *)

\* A column of nothing but null entries is no better than none.
Present(ref, columns) == ref \in DOMAIN columns /\ Range(columns[ref]) \ {None} # {}

\* The column changes its name; what had that name is overwritten.
FieldRename(d, columns) ==
    IF d.ref = d.field \/ d.ref \notin DOMAIN columns THEN columns
    ELSE With(Without(columns, {d.ref}), d.field, columns[d.ref])

\* One map more.  A KeyError ends the maps of the definition and is forgotten.
Applied(name, outcomes, m) ==
    UNION {IF o.stop = "no" THEN MapOutcomes(m, name, o.data) ELSE {o} : o \in outcomes}

\* All of them, from some outcomes on.
AppliedAll(name, outcomes, maps) ==
    FoldLeft(LAMBDA before, m : Applied(name, before, m), outcomes, maps)

Remap(d, columns) ==
    IF d.ref # None /\ ~Present(d.ref, columns) /\ d.required
    THEN {Stops(columns, RefNotFound)}
    ELSE AppliedAll(d.field, {Goes(IF d.ref = None THEN columns ELSE FieldRename(d, columns))},
                    d.maps)

-----------------------------------------------------------------------------
(* process *)

Groups == DOMAIN driver.groups
Defs(g) == driver.groups[g].defs
Refs(g) == {d.ref : d \in Range(Defs(g))} \ {None}
Uses(g, ref) == Cardinality({i \in DOMAIN Defs(g) : Defs(g)[i].ref = ref})

Raised(why) ==
    /\ stage' = why
    /\ UNCHANGED <<driver, collected, data, groups, group, defs, count, copies, table, rows,
                   results>>

\* The refs that several definitions use, as counted so far.
Shared == {r \in DOMAIN count' : count'[r] > 1}

StartGroup ==
    /\ stage = "processing" /\ defs = <<>>
    /\ \E g \in groups :
          /\ count' = [r \in DOMAIN count \cup Refs(g) |-> At(count, r, 0) + Uses(g, r)]
          /\ IF Shared \subseteq DOMAIN data
             THEN /\ copies' = [r \in DOMAIN copies \cup Shared |->
                                  IF r \in Shared THEN data[r] ELSE copies[r]]
                  /\ groups' = groups \ {g} /\ group' = g /\ defs' = Defs(g)
                  /\ UNCHANGED stage
             ELSE stage' = RefNotFound /\ UNCHANGED <<copies, groups, group, defs>>
    /\ UNCHANGED <<driver, collected, data, table, rows, results>>

\* Mutated: the copy is put back once only.
RestoredOnce(ref, columns) ==
    IF ref \in DOMAIN count /\ count[ref] = 2 THEN With(columns, ref, copies[ref]) ELSE columns

\* A ref that is still wanted gets its entries back, beside those it may have.
Restored(ref, columns) ==
    IF ref = None \/ count[ref] <= 1 THEN columns
    ELSE With(columns, ref,
              [k \in DOMAIN copies[ref] \cup DOMAIN At(columns, ref, <<>>) |->
                 At(copies[ref], k, At(At(columns, ref, <<>>), k, None))])

Define ==
    /\ stage = "processing" /\ defs # <<>>
    /\ LET d == Head(defs)
       IN  \E o \in Remap(d, data) :
             IF o.stop = RefNotFound THEN Raised(RefNotFound)
             ELSE /\ data' = Restored(d.ref, o.data)
                  /\ count' = IF d.ref = None THEN count ELSE [count EXCEPT ![d.ref] = @ - 1]
                  /\ defs' = Tail(defs)
                  /\ UNCHANGED <<driver, collected, groups, group, copies, table, rows,
                                 results, stage>>

Cleaned(g) == {d.field : d \in {x \in Range(Defs(g)) : x.clean}}

\* The rows: field by field, in every group that defines a field of that name.
\* Fields marked as to be cleaned leave, and so do rows without fields.  A group
\* that is not by key keeps its columns, for others to look keys up.
Rows(g) ==
    LET names == {d.field : d \in Range(Defs(g))} \cap DOMAIN data
        fields(k) == {f \in names : k \in DOMAIN data[f]}
        row(k) == [f \in fields(k) \ Cleaned(g) |-> data[f][k]]
        keys == {k \in UNION {DOMAIN data[f] : f \in names} : Cleaned(g) = {} \/ row(k) # <<>>}
    IN  IF driver.groups[g].byKey THEN [k \in keys |-> row(k)]
        ELSE [f \in names \ Cleaned(g) |-> data[f]]

\* To clean a column that is not there is an exception.
CleansNothing(g) == ~driver.groups[g].byKey /\ ~(Cleaned(g) \subseteq DOMAIN data)

Reorganise ==
    /\ stage = "processing" /\ defs = <<>> /\ groups = {}
    /\ IF \E g \in Groups : CleansNothing(g) THEN Raised(KeyError)
       ELSE /\ table' = [g \in Groups |-> Rows(g)]
            /\ rows' = UNION {{<<g, k>> : k \in DOMAIN Rows(g)} : g \in Groups}
            /\ stage' = "posting" /\ group' = None
            /\ UNCHANGED <<driver, collected, data, groups, defs, count, copies, results>>

-----------------------------------------------------------------------------
(* post_remap: one row, [group, row].  The columns that rows look keys up in   *)
(* belong to groups without post maps.                                         *)

\* None in place of a row is as good as a row without fields.
Removed == [group |-> None, row |-> <<>>]

\* post_extract: the parts of a value that matches become fields; the field
\* itself goes unless it is one of the parts.
Extracted(m, row) ==
    IF m.field \notin DOMAIN row \/ row[m.field] \notin DOMAIN m.parts THEN row
    ELSE LET parts == m.parts[row[m.field]]
             rest == Without(row, {m.field})
         IN  [f \in DOMAIN rest \cup DOMAIN parts |-> At(parts, f, At(rest, f, None))]

\* post_key_sub: the value is a key of a column of another group.
LookedUp(m, row) ==
    IF m.field \in DOMAIN row /\ m.ref \in DOMAIN table[m.group]
       /\ row[m.field] \in DOMAIN table[m.group][m.ref]
    THEN [row EXCEPT ![m.field] = table[m.group][m.ref][@]] ELSE row

\* post_fan_physical_index_lookup: the index of the fan in that position.  A fan
\* of the other group has an index once that group is post-processed, and none
\* before: an exception, as is a fan without a position.
FanRaises(m) ==
    \E k \in DOMAIN table[m.group] :
        LET fan == table[m.group][k]
        IN  "class" \notin DOMAIN fan
            \/ (fan["class"] # None /\ (<<m.group, k>> \in rows \/ "position" \notin DOMAIN fan))

Fans(m, row) ==
    {[row EXCEPT ![m.field] = k] : k \in
        {k \in DOMAIN table[m.group] : table[m.group][k]["class"] # None
                                        /\ table[m.group][k]["position"] = row[m.field]}}

\* Mutated: the row stays in the group it came from.
NewGroupIsOld(g, m, row) == <<g>>

NewGroup(g, m, row) == <<g, m.field, row[m.field]>>

\* A post map: it yields rows, the last of which counts.  If it yields nothing,
\* as a function that raises does, the row stays as it is.
PostMap(m, g, s) ==
    CASE m.by = "post_remove" ->
            IF m.field \notin DOMAIN s.row \/ s.row[m.field] = m.value THEN Removed
            ELSE [group |-> <<g>>, row |-> s.row]
      [] m.by = "post_default_value" ->
            [group |-> <<g>>, row |-> With(s.row, m.field, At(s.row, m.field, m.value))]
      [] m.by = "post_key_rename" ->
            [group |-> <<g>>, row |-> IF m.field \in DOMAIN s.row
                                  THEN Without(With(s.row, m.value, s.row[m.field]), {m.field})
                                  ELSE s.row]
      [] m.by = "post_clean" -> [group |-> <<g>>, row |-> Without(s.row, {m.field})]
      [] m.by = "post_extract" -> [group |-> <<g>>, row |-> Extracted(m, s.row)]
      [] m.by = "post_key_sub" -> [group |-> <<g>>, row |-> LookedUp(m, s.row)]
      [] m.by = "post_function" ->
            IF m.field \notin DOMAIN s.row \/ FanRaises(m) THEN s
            ELSE IF Fans(m, s.row) = {} THEN Removed
            ELSE [group |-> <<g>>, row |-> CHOOSE r \in Fans(m, s.row) : TRUE]
      [] m.by = "post_new_group_from_field" ->
            IF m.field \in DOMAIN s.row
            THEN [group |-> NewGroup(g, m, s.row), row |-> Without(s.row, {m.field})]
            ELSE s

\* One map more, if there is a row.  A map after the one that made the new group
\* brings back the old one.
Posted(g, s, m) == IF s.row = <<>> THEN s ELSE PostMap(m, g, s)

PostMaps(g) == driver.groups[g].post

\* A row, with its key among its fields, after each of the maps.
PostRow(g, k) ==
    LET post == PostMaps(g)
        after[i \in 0 .. Len(post)] ==
            IF i = 0
            THEN [group |-> <<g>>,
                  row |-> With(table[g][k], "index", At(table[g][k], "index", k))]
            ELSE Posted(g, after[i - 1], post[i])
    IN  after[Len(post)]

\* A group is finished before another is begun.
Post ==
    /\ stage = "posting"
    /\ \E r \in rows :
          LET s == PostRow(r[1], r[2])
          IN  /\ r[1] = group \/ \A q \in rows : q[1] # group
              /\ group' = r[1]
              /\ rows' = rows \ {r}
              /\ results' = IF s.row = <<>> THEN results
                            ELSE With(results, s.group,
                                      Append(At(results, s.group, <<>>), s.row))
    /\ UNCHANGED <<driver, collected, data, groups, defs, count, copies, table, stage>>

\* fetch: groups that only served others are deleted.
Publish ==
    /\ stage = "posting" /\ rows = {}
    /\ results' = Without(results, {<<g>> : g \in {h \in Groups : ~driver.groups[h].keep}})
    /\ stage' = "done"
    /\ UNCHANGED <<driver, collected, data, groups, group, defs, count, copies, table, rows>>

-----------------------------------------------------------------------------

Init ==
    /\ driver \in Drivers /\ collected \in Collections /\ data = collected
    /\ groups = Groups /\ group = None /\ defs = <<>>
    /\ count = <<>> /\ copies = <<>>
    /\ table = <<>> /\ rows = {} /\ results = <<>> /\ stage = "processing"

Finished == stage \in {"done", RefNotFound, KeyError} /\ UNCHANGED vars

Next == StartGroup \/ Define \/ Reorganise \/ Post \/ Publish \/ Finished

Spec == Init /\ [][Next]_vars

-----------------------------------------------------------------------------
(* Properties *)

AllDefs == UNION {Range(Defs(g)) : g \in Groups}

\* Maps that look up another column, and what they look up.
LooksUp(m) == m.by = "key_sub" \/ (m.by = "value_sub" /\ m.from = "ref")
MapRefs(d) == {m.ref : m \in {m \in Range(d.maps) : LooksUp(m)}}

\* A driver whose definitions do not get in each other's way: no two of one
\* field, none named like a variable that others use, a variable used in one
\* group only and not both as a ref and inside of maps, and no maps that make
\* columns of other columns.
WellMade ==
    /\ \A g, h \in Groups : \A i \in DOMAIN Defs(g), j \in DOMAIN Defs(h) :
          LET d == Defs(g)[i]
              e == Defs(h)[j]
          IN  <<g, i>> # <<h, j>> =>
                  /\ d.field \notin ({e.field, e.ref} \cup MapRefs(e))
                  /\ (d.ref = e.ref /\ d.ref # None) => g = h
    /\ \A d, e \in AllDefs : d.ref \notin MapRefs(e)
    /\ \A d \in AllDefs : \A m \in Range(d.maps) :
          m.by \in {"key_sub", "value_sub", "regexp", "function", "filter"}

Column(g, f) ==
    IF ~driver.groups[g].byKey THEN At(table[g], f, <<>>)
    ELSE [k \in {k \in DOMAIN table[g] : f \in DOMAIN table[g][k]} |-> table[g][k][f]]

\* The same keys, with the same values.
Same(c1, c2) == DOMAIN c1 = DOMAIN c2 /\ \A k \in DOMAIN c1 : c1[k] = c2[k]

\* Renaming takes a column away from the definitions to come, and the counts and
\* copies give it back: in a well-made driver every field is reported as if its
\* definition were the only one, whatever the order of groups and keys.
AsIfAlone ==
    stage = "posting" /\ WellMade =>
        \A g \in Groups : \A d \in {d \in Range(Defs(g)) : ~d.clean} :
            \E o \in Remap(d, collected) :
                o.stop # RefNotFound /\ Same(Column(g, d.field), At(o.data, d.field, <<>>))

\* The device, or the parent, does not have what a definition needs.
Lacks(d) ==
    \/ d.required /\ d.ref # None /\ ~Present(d.ref, collected)
    \/ \E m \in Range(d.maps) :
          \/ LooksUp(m) /\ m.ref \notin DOMAIN collected
          \/ m.by = "value_sub" /\ m.from = "parent_ref" /\ m.ref \notin DOMAIN Parent

\* A well-made driver is refused, for the next one to be tried, only for a
\* variable that the device does not have.
RefusedForAReason ==
    stage = RefNotFound /\ WellMade =>
        \E g \in Groups : \E d \in Range(Defs(g)) :
            \/ Lacks(d)
            \/ d.ref # None /\ d.ref \notin DOMAIN collected /\ Uses(g, d.ref) > 1

\* Both: what a well-made driver says of a device is what its definitions say, field
\* by field, or it lacks a variable.
FieldsSound == AsIfAlone /\ RefusedForAReason

\* The fields that a post map may change, but for the one that makes new groups.
Touched(m) ==
    CASE m.by \in {"post_default_value", "post_clean", "post_key_sub"} -> {m.field}
      [] m.by = "post_key_rename" -> {m.field, m.value}
      [] m.by = "post_extract" -> {m.field} \cup UNION {DOMAIN m.parts[v] : v \in DOMAIN m.parts}
      [] OTHER -> {}

\* The fields that new groups are named by.
Naming(g) == {m.field : m \in {m \in Range(PostMaps(g)) : m.by = "post_new_group_from_field"}}

\* A group that gives up no row: no map removes rows, the one that makes new groups
\* is the last (PostRow forgets it otherwise), and neither what names a group nor
\* the key is changed by another one.
KeepsRows(g) ==
    /\ \A i \in DOMAIN PostMaps(g) :
          LET m == PostMaps(g)[i]
          IN  /\ m.by \notin {"post_remove", "post_function"}
              /\ m.by = "post_new_group_from_field" => i = Len(PostMaps(g))
              /\ Touched(m) \cap ({"index"} \cup Naming(g)) = {}
    /\ "index" \notin Naming(g)
    /\ \A k \in DOMAIN table[g] : "index" \notin DOMAIN table[g][k]

\* The group that a row is to be published in.
NameOf(g, k) ==
    LET names == Naming(g) \cap DOMAIN table[g][k]
    IN  IF names = {} THEN <<g>>
        ELSE LET f == CHOOSE f \in names : TRUE IN <<g, f, table[g][k][f]>>

\* Where the row of a key is published.
Places(g, k) ==
    {x \in UNION {{n} \X DOMAIN results[n] : n \in DOMAIN results} :
        x[1][1] = g /\ results[x[1]][x[2]]["index"] = k}

\* Every row is published once, in the group that its own field names, whatever the
\* order of groups and rows, unless its group only serves others.
PublishedOnce ==
    stage = "done" =>
        \A g \in Groups : KeepsRows(g) =>
            \A k \in DOMAIN table[g] :
                driver.groups[g].keep \/ NameOf(g, k) # <<g>> =>
                    \E x \in Places(g, k) : x[1] = NameOf(g, k) /\ Places(g, k) = {x}

\* The results are sound: their fields, and the places of their rows.
ResultsSound == FieldsSound /\ PublishedOnce
=============================================================================
