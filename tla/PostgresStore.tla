---------------------------- MODULE PostgresStore ----------------------------
(***************************************************************************)
(* The storage daemon with a postgres database (storage/feeders).  Several *)
(* feeders take messages from one queue; a message holds reports on things *)
(* (the `context', here an atom) each with its `data'.  A feeder looks up  *)
(* the rows of the contexts, decides for each report whether to insert a   *)
(* row, to update it, to note the change in the archive, or to touch its   *)
(* time stamp only, and commits at the end of the message.                 *)
(*                                                                         *)
(* A statement acts on the transaction of its feeder; it becomes visible   *)
(* to the others when the feeder commits (read committed: an update waits  *)
(* for the lock of a row, and then changes what was committed last).       *)
(***************************************************************************)
EXTENDS Integers, Sequences, FiniteSets, SequencesExt

CONSTANTS
    Feeders,
    Contexts,
    Device,         \* context -> its device
    Elsewhere,      \* contexts of layer3 subnets outside the configured ones
    Bodies,         \* what messages hold: sequences of bulks, which are sequences of [ctx, data]
    Metas,          \* the flags of the messages of a table (sets of their names)
    MaxMessages,    \* bound: the number of messages
    MaxFaults       \* bound: the number of statements that fail, and of restarts

ASSUME StoreAssumption ==
    /\ Elsewhere \subseteq Contexts /\ DOMAIN Device = Contexts
    /\ MaxMessages \in Nat /\ MaxFaults \in Nat

Bulks == UNION {ToSet(body) : body \in Bodies}
Reports == UNION {ToSet(bulk) : bulk \in Bulks}
ContextsOf(bulk) == {x.ctx : x \in ToSet(bulk)}

\* The reports of a message are grouped by what makes up the context of the message:
\* no two bulks have a context in common, and a bulk is of one device.
ASSUME BodiesAssumption ==
    /\ Bodies \subseteq Seq(Bulks) /\ Bulks \subseteq Seq(Reports)
    /\ {x.ctx : x \in Reports} \subseteq Contexts
    /\ \A body \in Bodies : \A i, j \in DOMAIN body :
          i # j => ContextsOf(body[i]) \cap ContextsOf(body[j]) = {}
    /\ \A bulk \in Bulks : \A x, y \in ToSet(bulk) : Device[x.ctx] = Device[y.ctx]

VARIABLES
    meta, prefetched, deferred,
                    \* how the table is configured: the flags of its messages, and whether
                    \* it is in pre_msg_process and in post_msg_process
    table, archive, \* what is committed
    tables,         \* which of the two exist
    clock,          \* messages so far: each has its own time
    nextId,         \* the SERIAL of the table
    f_,             \* feeder -> its state, see Idle
    reports, born,  \* (history) what was reported; context -> the ids it ever had
    faults

db == <<table, archive, tables, born>>
config == <<meta, prefetched, deferred>>
vars == <<config, db, clock, nextId, f_, reports, faults>>

\* pc; the message: its bulks that are left, the items of the current bulk that
\* are left, its time and all its contexts; cache, queried: the rows looked up
\* and whether pre_msg_process found some; touched, doomed: update_ids and
\* delete_ids; ops: the statements of the transaction; broken: it is aborted;
\* known: the known_tables; pending: post_msg_data, as pairs of a time and an id;
\* alone: no other feeder was at work during the message (history).
Idle == [pc |-> "idle", bulks |-> <<>>, items |-> <<>>, time |-> 0, cache |-> <<>>,
         queried |-> FALSE, touched |-> {}, doomed |-> {}, ops |-> <<>>, broken |-> FALSE,
         known |-> {}, pending |-> {}, body |-> <<>>, alone |-> FALSE]

Idlers == {f \in Feeders : f_[f].pc = "idle"}

-----------------------------------------------------------------------------
(* Statements *)

\* What a statement does to the rows of a table.
Execute(rows, op) ==
    IF op.do = "insert" THEN rows \cup {op.row}
    ELSE IF op.do = "delete" THEN {r \in rows : r.id \notin op.ids}
    ELSE IF op.do = "update" THEN
        {IF r.id = op.id
         THEN [r EXCEPT !.updated = op.time, !.data = op.data, !.ctx = op.ctx,
                        !.created = IF op.restart THEN op.time ELSE @]
         ELSE r : r \in rows}
    ELSE IF op.do = "touch" THEN
        {IF r.id \in op.ids THEN [r EXCEPT !.updated = op.time] ELSE r : r \in rows}
    ELSE rows

\* The rows after some statements.
After(rows, ops) == FoldLeft(Execute, rows, ops)

Archived(ops) == {ops[i].entry : i \in {j \in DOMAIN ops : ops[j].do = "archive"}}

\* What a feeder sees of the table.
View(s) == After(table, s.ops)

\* Commits the transaction, or ends it without effect if it is aborted.
CommitOf(s, exist) ==
    LET rows == IF s.broken THEN table ELSE After(table, s.ops)
    IN  /\ table' = rows
        /\ archive' = IF s.broken THEN archive ELSE archive \cup Archived(s.ops)
        /\ tables' = exist
        /\ born' = [c \in Contexts |-> born[c] \cup {r.id : r \in {x \in rows : x.ctx = c}}]

\* A feeder's state with a further statement.
Do(s, op) == [s EXCEPT !.ops = Append(@, op)]

-----------------------------------------------------------------------------
(* A message *)

\* The rows found are added to what the cache holds already.
Cached(cache, rows) == cache \o SetToSeq(rows)

\* pre_msg_process: forgets the last message; if the table is configured for it,
\* one query finds the rows of all contexts of the message, and a transaction
\* that is still aborted is rolled back.
PreMsgProcess(s, body) ==
    LET ctxs == UNION {{body[i][j].ctx : j \in DOMAIN body[i]} : i \in DOMAIN body}
        found == {r \in table : r.ctx \in ctxs}
        fresh == [s EXCEPT !.touched = {}, !.doomed = {}, !.cache = <<>>, !.queried = FALSE]
    IN  IF ~prefetched THEN fresh
        ELSE IF s.broken THEN [fresh EXCEPT !.broken = FALSE, !.ops = <<>>]
        ELSE [fresh EXCEPT !.cache = SetToSeq(found), !.queried = found # {}]

\* A feeder takes a message.
Start(f) ==
    /\ f_[f].pc = "idle" /\ clock < MaxMessages
    /\ clock' = clock + 1
    /\ \E body \in Bodies :
          /\ reports' = reports \cup
                UNION {{[ctx |-> body[i][j].ctx, data |-> body[i][j].data, time |-> clock + 1] :
                          j \in DOMAIN body[i]} : i \in DOMAIN body}
          /\ f_' = [g \in Feeders |->
                IF g = f
                THEN [PreMsgProcess(f_[f], body) EXCEPT
                        !.pc = "bulk", !.bulks = body, !.time = clock + 1, !.body = body,
                        !.alone = (Idlers = Feeders /\ ~f_[f].broken)]
                ELSE [f_[g] EXCEPT !.alone = FALSE]]
    /\ UNCHANGED <<config, db, nextId, faults>>

\* ensure_table: the table is created unless it is there; in either case what was
\* done so far in the message is committed, if the feeder did not know it.
EnsureTable(f) ==
    LET s == f_[f]
    IN  /\ s.pc = "bulk" /\ s.bulks # <<>> /\ "main" \notin s.known
        /\ CommitOf(s, tables \cup {"main"})
        /\ f_' = [f_ EXCEPT ![f].known = @ \cup {"main"}, ![f].ops = <<>>, ![f].broken = FALSE]
        /\ UNCHANGED <<config, clock, nextId, reports, faults>>

\* The rows that the lookup of a bulk may find: those of the device, but a newest of
\* the context if the messages are to update the most recent row.
Found(s) ==
    LET ctx == Head(s.bulks)[1].ctx
        mine == {r \in View(s) : r.ctx = ctx}
        newest == {r \in mine : \A q \in mine : q.created <= r.created}
    IN  IF "just_insert" \in meta \/ s.queried THEN {{}}
        ELSE IF "update_recent" \notin meta THEN {{r \in View(s) : Device[r.ctx] = Device[ctx]}}
        ELSE IF mine = {} THEN {{}} ELSE {{r} : r \in newest}

\* pre_bulk_process.  On an aborted transaction the query raises: the bulk is lost.
PreBulkProcess(f) ==
    LET s == f_[f]
    IN  /\ s.pc = "bulk" /\ s.bulks # <<>> /\ "main" \in s.known
        /\ IF s.broken /\ "just_insert" \notin meta /\ ~s.queried
           THEN f_' = [f_ EXCEPT ![f].bulks = Tail(@)]
           ELSE \E found \in Found(s) :
                   f_' = [f_ EXCEPT ![f].pc = "saving", ![f].items = Head(s.bulks),
                                    ![f].bulks = Tail(@), ![f].cache = Cached(@, found)]
        /\ UNCHANGED <<config, db, clock, nextId, reports, faults>>

-----------------------------------------------------------------------------
(* save *)

\* Mutated: a new field that is come upon after a value that differs makes the
\* difference a minor one (no break).
LastCounts(row, data) ==
    LET common == DOMAIN data \cap DOMAIN row.data
    IN  IF DOMAIN data # common THEN "more"
        ELSE IF \E k \in common : data[k] # row.data[k] THEN "changed"
        ELSE IF DOMAIN row.data # common THEN "changed" ELSE "same"

\* different: "changed" (True) if a value differs or fields are missing, "more"
\* (None) if there are only new fields, "same" (False) otherwise.
Different(row, data) ==
    LET common == DOMAIN data \cap DOMAIN row.data
    IN  IF \E k \in common : data[k] # row.data[k] THEN "changed"
        ELSE IF DOMAIN data \ DOMAIN row.data # {} THEN "more"
        ELSE IF DOMAIN row.data # common THEN "changed" ELSE "same"

Merged(old, new) ==
    [k \in DOMAIN old \cup DOMAIN new |-> IF k \in DOMAIN new THEN new[k] ELSE old[k]]

\* How a report on a row that is known is dealt with: the difference after the
\* flags of the message were considered, and the data to store.
Decision(row, data) ==
    LET first == Different(row, data)
        second == IF meta \cap {"ignore_data", "merge_context"} # {} THEN "more" ELSE first
        news == \E k \in DOMAIN data : k \notin DOMAIN row.data \/ row.data[k] # data[k]
    IN  IF "merge_data" \notin meta THEN [diff |-> second, data |-> data]
        ELSE [diff |-> IF news THEN "more" ELSE second, data |-> Merged(row.data, data)]

\* Statements on the one row of a context.  A touch is put off: see PostBulkProcess.
UpdateRow(s, row, ctx, data) ==
    LET d == Decision(row, data)
        update == [do |-> "update", id |-> row.id, ctx |-> ctx, time |-> s.time, data |-> d.data,
                   restart |-> "ignore_data" \notin meta]
        entry == [do |-> "archive", entry |-> [id |-> row.id, created |-> row.created,
                  updated |-> s.time, data |-> d.data, was |-> row.data]]
    IN  IF d.diff = "same" THEN [s EXCEPT !.touched = @ \cup {row.id}]
        ELSE IF d.diff = "more" THEN Do(s, update)
        ELSE Do(Do(s, entry), update)

\* The rows to delete when a context has several.
Doom(s, docs, oldest) == (s.doomed \cup {s.cache[i].id : i \in docs}) \ {oldest}

\* Mutated: the rows of the device are taken for those of the context.
DocsOfDevice(s, ctx) == {i \in DOMAIN s.cache : Device[s.cache[i].ctx] = Device[ctx]}

\* Where the rows of a context are in the cache (which may hold a row twice).
Docs(s, ctx) == {i \in DOMAIN s.cache : s.cache[i].ctx = ctx}

\* The archive is known, or the report will not change it.
ArchiveReady(s, docs, data) ==
    \A i \in docs : docs = {i} =>
        "archive" \in s.known \/ Decision(s.cache[i], data).diff # "changed"

\* _process_task, save.  On an aborted transaction only what needs no statement
\* is done; the exception of the others is logged.
Save(f) ==
    LET s == f_[f]
        item == Head(s.items)
        docs == Docs(s, item.ctx)
        next == [s EXCEPT !.items = Tail(@)]
        oldest == {i \in docs : \A j \in docs : s.cache[i].created <= s.cache[j].created}
        go(t) == f_' = [f_ EXCEPT ![f] = t]
    IN  /\ s.pc = "saving" /\ s.items # <<>>
        /\ \/ item.ctx \in Elsewhere /\ go(next) /\ UNCHANGED nextId
           \/ /\ item.ctx \notin Elsewhere /\ docs = {}
              /\ go(Do(next, [do |-> "insert", row |->
                       [id |-> nextId, ctx |-> item.ctx, created |-> s.time, updated |-> s.time,
                        data |-> item.data]]))
              /\ nextId' = nextId + 1
           \/ /\ item.ctx \notin Elsewhere /\ ArchiveReady(s, docs, item.data)
              /\ \E i \in docs : /\ docs = {i}
                                 /\ go(UpdateRow(next, s.cache[i], item.ctx, item.data))
              /\ UNCHANGED nextId
           \/ /\ item.ctx \notin Elsewhere /\ Cardinality(docs) > 1
              /\ \E i \in oldest : go([next EXCEPT !.doomed = Doom(s, docs, s.cache[i].id)])
              /\ UNCHANGED nextId
        /\ UNCHANGED <<config, db, clock, reports, faults>>

\* ensure_table for the archive, in the middle of save: this commits too.
EnsureArchive(f) ==
    LET s == f_[f]
        docs == Docs(s, Head(s.items).ctx)
    IN  /\ s.pc = "saving" /\ s.items # <<>> /\ Head(s.items).ctx \notin Elsewhere
        /\ ~ArchiveReady(s, docs, Head(s.items).data)
        /\ CommitOf(s, tables \cup {"archive"})
        /\ f_' = [f_ EXCEPT ![f].known = @ \cup {"archive"}, ![f].ops = <<>>, ![f].broken = FALSE]
        /\ UNCHANGED <<config, clock, nextId, reports, faults>>

\* post_bulk_process: the rows to touch are touched now, or at the end of the
\* message, with those of the messages before (nothing is ever removed there).
PostBulkProcess(f) ==
    LET s == f_[f]
        touch == [do |-> "touch", ids |-> s.touched, time |-> s.time]
        done == [s EXCEPT !.pc = "bulk", !.touched = IF s.broken /\ ~deferred THEN @ ELSE {}]
    IN  /\ s.pc = "saving" /\ s.items = <<>>
        /\ f_' = [f_ EXCEPT ![f] =
              IF s.touched = {} THEN done
              ELSE IF deferred THEN [done EXCEPT !.pending = @ \cup ({s.time} \X s.touched)]
              ELSE Do(done, touch)]
        /\ UNCHANGED <<config, db, clock, nextId, reports, faults>>

\* The orders in which post_msg_process goes through the times are those of a
\* dictionary: which time of a row comes last may be any.
Touches(s) ==
    LET ids == {p[2] : p \in s.pending}
        last == {g \in [ids -> {p[1] : p \in s.pending}] : \A i \in ids : <<g[i], i>> \in s.pending}
    IN  {SetToSeq({[do |-> "touch", ids |-> {i}, time |-> g[i]] : i \in ids}) : g \in last}

\* The statements at the end of a message.
Ended(s, touches) ==
    [s EXCEPT !.ops = @ \o (IF s.doomed = {} THEN <<>> ELSE <<[do |-> "delete", ids |-> s.doomed]>>)
                        \o touches]

\* post_msg_process, commit.  If the transaction is aborted and there is anything
\* to do, this raises before the commit: the transaction remains aborted.
PostMsgProcess(f) ==
    LET s == f_[f]
        idle(t) == [Idle EXCEPT !.known = t.known, !.pending = t.pending, !.broken = t.broken,
                                !.ops = t.ops]
    IN  /\ s.pc = "bulk" /\ s.bulks = <<>>
        /\ \/ /\ s.broken /\ (s.doomed # {} \/ s.pending # {})
              /\ f_' = [f_ EXCEPT ![f] = idle(s)]
              /\ UNCHANGED db
           \/ /\ ~(s.broken /\ (s.doomed # {} \/ s.pending # {}))
              /\ \E touches \in Touches(s) : CommitOf(Ended(s, touches), tables)
              /\ f_' = [f_ EXCEPT ![f] = idle([s EXCEPT !.broken = FALSE, !.ops = <<>>])]
        /\ UNCHANGED <<config, clock, nextId, reports, faults>>

-----------------------------------------------------------------------------
(* Faults *)

\* A statement fails (a deadlock, say): the transaction is aborted, and whatever
\* is still to be done for the message fails too.
Fail(f) ==
    /\ faults < MaxFaults /\ faults' = faults + 1
    /\ f_[f].pc = "saving" /\ ~f_[f].broken
    /\ f_' = [f_ EXCEPT ![f].broken = TRUE, ![f].alone = FALSE]
    /\ UNCHANGED <<config, db, clock, nextId, reports>>

\* A feeder is started anew (setup): the connection, and what was not committed,
\* are lost.
Restart(f) ==
    /\ faults < MaxFaults /\ faults' = faults + 1
    /\ f_' = [f_ EXCEPT ![f] = Idle]
    /\ UNCHANGED <<config, db, clock, nextId, reports>>

Init ==
    /\ meta \in Metas /\ prefetched \in BOOLEAN /\ deferred \in BOOLEAN
    /\ table = {} /\ archive = {} /\ tables = {}
    /\ clock = 0 /\ nextId = 1 /\ f_ = [f \in Feeders |-> Idle]
    /\ reports = {} /\ born = [c \in Contexts |-> {}] /\ faults = 0

Next ==
    \E f \in Feeders :
        \/ Start(f) \/ EnsureTable(f) \/ PreBulkProcess(f)
        \/ Save(f) \/ EnsureArchive(f) \/ PostBulkProcess(f) \/ PostMsgProcess(f)
        \/ Fail(f) \/ Restart(f)

Spec == Init /\ [][Next]_vars

-----------------------------------------------------------------------------
(* Properties *)

\* Whatever the feeders do at once, and whatever fails: see StoreContract.
Contract == INSTANCE StoreContract WITH rows <- table, history <- archive
KeepsContract == Contract!Spec

\* The feeder f ends a message (and not by a fault) that it dealt with while no
\* other was at work.
EndsAlone(f) ==
    /\ f_[f].pc = "bulk" /\ f_'[f].pc = "idle" /\ faults' = faults /\ f_[f].alone

\* Where the reports of a message on a context are.
Places(body, c) == UNION {{<<i, j>> : j \in {k \in DOMAIN body[i] : body[i][k].ctx = c}} :
                            i \in DOMAIN body}
Once(body, c) == \E p \in Places(body, c) : Places(body, c) = {p}
RowsOf(rows, c) == {r \in rows : r.ctx = c}

\* Rows that feeders inserted for the same context at once do not last: once a
\* message with the context is dealt with while no other is, there is one row of
\* it (save where each report is to have a row, or only the most recent one counts).
Consolidated ==
    [][\A f \in Feeders :
          EndsAlone(f) /\ meta \cap {"just_insert", "update_recent"} = {} =>
          \A c \in Contexts \ Elsewhere :
              Once(f_[f].body, c) => \E r \in table' : RowsOf(table', c) = {r}]_vars

\* A row holds another value than before, or less than before and nothing else.  (Of a
\* report that says less and has new fields, different makes a minor change.)
Replaces(r, q) ==
    \/ \E k \in DOMAIN q.data \cap DOMAIN r.data : r.data[k] # q.data[k]
    \/ DOMAIN r.data \subseteq DOMAIN q.data /\ DOMAIN r.data # DOMAIN q.data

\* A value that is replaced leaves a note in the archive, unless messages are to
\* be merged, or what they say ignored.
ReplacedIsArchived ==
    [][\A f \in Feeders :
          EndsAlone(f) /\ meta \cap {"ignore_data", "merge_context", "merge_data"} = {} =>
          \A q \in table, r \in table' :
              (q.id = r.id /\ Once(f_[f].body, q.ctx) /\ Replaces(r, q))
                 => \E h \in archive' : h.id = r.id /\ h.updated = f_[f].time]_vars

=============================================================================
