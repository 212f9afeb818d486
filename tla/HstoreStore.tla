----------------------------- MODULE HstoreStore -----------------------------
(***************************************************************************)
(* The older storage workers with a postgres database (PostgresStorer and  *)
(* its base, Feeder, in storage/workers.py).  A message is unfolded into   *)
(* documents, each a context and its data; the rows of the context's       *)
(* device are looked up once, and every document is then inserted, noted   *)
(* in the history and changed, or has its time stamp updated with all      *)
(* others at the end of the message.                                       *)
(*                                                                         *)
(* A CREATE TABLE of a table that is there fails, and a statement that     *)
(* fails aborts the transaction: its commit then takes back what the       *)
(* message did so far.                                                     *)
(***************************************************************************)
EXTENDS Integers, Sequences, FiniteSets, Functions, SequencesExt, TLC

CONSTANTS
    Feeders,
    Messages,       \* [group, keys, context, sub, data]: see Documents
    Partitions,     \* group -> the key it is partitioned on
    Ours,           \* the prefixes that overlap with a configured subnet
    MaxMessages, MaxFaults      \* bounds: messages; statements that fail, and restarts

\* The data of a message is a list (of one, where it is a dict).
HstoreAssumption ==
    /\ MaxMessages \in Nat /\ MaxFaults \in Nat
    /\ \A m \in Messages : m.data \in Seq({m.data[i] : i \in DOMAIN m.data})

VARIABLES rows, history,    \* what is committed
          exist,            \* the tables of the database
          clock, nextId,    \* messages so far, each has its own time; the SERIAL
          feeder,           \* see Fresh
          faults,
          stale             \* (history) rows changed from a state that was not their
                            \* present one: see Outdated

hvars == <<rows, history, exist, clock, nextId, feeder, faults, stale>>

\* A feeder that just started: the tables it knows; whether its transaction is
\* aborted and the statements of it; of the message: the documents left, the rows
\* found (cache), the rows to touch (update_ids) and, as history, whether no other
\* feeder was at work, and whether statements of it were taken back.
Fresh == [pc |-> "idle", known |-> {}, aborted |-> FALSE, ops |-> <<>>,
          group |-> "", table |-> <<>>, time |-> 0, docs |-> <<>>, cache |-> {},
          touch |-> {}, body |-> <<>>, alone |-> FALSE, undone |-> FALSE]

Historic(group) == <<group, "_history">>

-----------------------------------------------------------------------------
(* The documents of a message *)

\* extract: the context of all documents; the key and value that an iterative group
\* carries in its name are part of it.
Extracted(m) == m.sub @@ m.context

\* _process_task: of a document, the keys the message names are context.
Document(m, item) ==
    LET names == m.keys \cup DOMAIN Extracted(m)
    IN  [context |-> Restrict(item, DOMAIN item \cap names) @@ Extracted(m),
         data |-> Restrict(item, DOMAIN item \ names)]

\* process_task: one document for a dict, one for each element of a list.
Documents(m) == [i \in DOMAIN m.data |-> Document(m, m.data[i])]

\* What the rows of the message are found by: the device if there is one.
Looked(context) ==
    IF "device" \in DOMAIN context THEN Restrict(context, {"device"}) ELSE context

Matches(row, context) ==
    \A k \in DOMAIN context : k \in DOMAIN row.context /\ row.context[k] = context[k]

\* Mutated: A value that the row has no key for is not noticed.
DifferentWhereBoth(row, data) ==
    \E k \in DOMAIN data \cap DOMAIN row.data : row.data[k] # data[k]

\* different: a reported value that the row does not have; what is only in the row
\* does not count.
Different(row, data) ==
    \E k \in DOMAIN data : \A j \in DOMAIN row.data \cap {k} : row.data[j] # data[k]

-----------------------------------------------------------------------------
(* Transactions *)

Replacements(ops) == {i \in DOMAIN ops : ops[i].do = "replace"}
Replaced(ops) == {ops[i] : i \in Replacements(ops)}

Execute(rs, op) ==
    IF op.do = "insert" THEN rs \cup {op.row}
    ELSE IF op.do = "touch" THEN
        {IF r.id \in op.ids THEN [r EXCEPT !.updated = op.time] ELSE r : r \in rs}
    ELSE {IF r.id = op.row.id
          THEN [r EXCEPT !.created = op.time, !.updated = op.time, !.context = op.doc.context,
                         !.data = op.doc.data]
          ELSE r : r \in rs}

\* Mutated: The entry ends when the row was last seen.
EntryUntilSeen(op) == [id |-> op.row.id, created |-> op.row.created, updated |-> op.row.updated,
                       context |-> op.doc.context, data |-> op.doc.data]

\* archive_and_update copies the new document with the times of the row it replaces.
Entry(op) == [id |-> op.row.id, created |-> op.row.created, updated |-> op.time,
              context |-> op.doc.context, data |-> op.doc.data]

\* Whether what a statement replaces is no longer what was looked up, as another feeder,
\* or another document of the same message, has replaced it as well.
Outdated(ops, i) ==
    \/ \A r \in rows : r.id = ops[i].row.id => r.created # ops[i].row.created
    \/ \E j \in Replacements(ops) \ {i} : ops[j].row.id = ops[i].row.id

\* The statements take effect.
Commit(ops) ==
    /\ rows' = FoldLeft(Execute, rows, ops)
    /\ history' = history \cup {Entry(op) : op \in Replaced(ops)}
    /\ stale' = stale \cup {ops[i].row.id : i \in {j \in Replacements(ops) : Outdated(ops, j)}}

Locked(f, ids) ==
    \E g \in Feeders \ {f} : \E op \in Replaced(feeder[g].ops) : op.row.id \in ids

-----------------------------------------------------------------------------
(* A message *)

TableName(m) ==
    IF m.group \in DOMAIN Partitions
    THEN <<m.group, Extracted(m)[Partitions[m.group]]>> ELSE <<m.group>>

\* table_name: the context of a message must hold the key its group is partitioned on.
Partitionable(m) ==
    m.group \in DOMAIN Partitions => Partitions[m.group] \in DOMAIN Extracted(m)

\* ensure_table: what is there when a feeder has created the table, and the table it
\* inherits from.  A partition is created anew for each message; if it is there, the
\* feeder must know it: to say so for one it does not know is a NameError.
Ensured(s, m) == s.known \cup {<<m.group>>, TableName(m)}
Ensurable(s, m) ==
    m.group \in DOMAIN Partitions /\ TableName(m) \in exist => TableName(m) \in s.known

\* query: there is no statement to look rows up by an empty context.
Queryable(m) == DOMAIN Extracted(m) # {}

\* What table_name, ensure_table and query need to go through.
Processable(s, m) == ~s.aborted /\ Partitionable(m) /\ Ensurable(s, m) /\ Queryable(m)

\* pre_bulk_process: the table and its indexes, and the rows there are.
PreBulkProcess(s, m) ==
    [s EXCEPT !.pc = "documents", !.known = Ensured(s, m), !.ops = <<>>, !.touch = {},
              !.group = m.group, !.table = TableName(m), !.time = clock + 1,
              !.docs = Documents(m), !.body = Documents(m),
              !.cache = {r \in rows : r.table = TableName(m)
                                        /\ Matches(r, Looked(Extracted(m)))},
              !.alone = \A f \in Feeders : feeder[f].pc = "idle", !.undone = FALSE]

Others(f) == [g \in Feeders |-> [feeder[g] EXCEPT !.alone = FALSE]]

Take(f, m) ==
    LET s == feeder[f]
    IN  /\ s.pc = "idle" /\ clock < MaxMessages
        /\ Processable(s, m)
        /\ clock' = clock + 1
        /\ exist' = exist \cup Ensured(s, m)
        /\ feeder' = [Others(f) EXCEPT ![f] = PreBulkProcess(s, m)]
        /\ UNCHANGED <<rows, history, nextId, faults, stale>>

\* process_task ends with an exception of pre_bulk_process: the message is lost.  The
\* failed CREATE of a partition leaves the transaction aborted, and every statement
\* on an aborted transaction fails: so does the next message.
Refuse(f, m) ==
    LET s == feeder[f]
    IN  /\ s.pc = "idle" /\ clock < MaxMessages
        /\ ~Processable(s, m)
        /\ clock' = clock + 1
        /\ LET creates == ~s.aborted /\ Partitionable(m)
           IN  /\ exist' = IF creates THEN exist \cup {<<m.group>>} ELSE exist
               /\ feeder' = [feeder EXCEPT
                    ![f].aborted = s.aborted \/ Partitionable(m),
                    ![f].known = IF creates THEN @ \cup {<<m.group>>} ELSE @]
        /\ UNCHANGED <<rows, history, nextId, faults, stale>>

Doc(s) == Head(s.docs)
Found(s) == {r \in s.cache : r.context = Doc(s).context}
Next_(s) == [s EXCEPT !.docs = Tail(@)]

\* save skips the subnets that are not ours.
Foreign(s) ==
    s.group = "subnets" /\ Doc(s).context["prefix"] \notin Ours

AtDocument(f) ==
    feeder[f].pc = "documents" /\ feeder[f].docs # <<>>

\* A document is skipped: a subnet of others, one with several rows already, one on an
\* aborted transaction; and a change to a row of a partition, as archive_and_update
\* asks for the table of an empty context.
Skip(f) ==
    LET s == feeder[f]
    IN  /\ AtDocument(f)
        /\ \/ Foreign(s)
           \/ Cardinality(Found(s)) > 1
           \/ Cardinality(Found(s)) = 0 /\ s.aborted
           \/ \E r \in Found(s) : /\ Different(r, Doc(s).data)
                                  /\ s.aborted \/ s.group \in DOMAIN Partitions
        /\ feeder' = [feeder EXCEPT ![f] = Next_(s)]
        /\ UNCHANGED <<rows, history, exist, clock, nextId, faults, stale>>

Insert(f) ==
    LET s == feeder[f]
        row == [id |-> nextId, table |-> s.table, created |-> s.time, updated |-> s.time,
                context |-> Doc(s).context, data |-> Doc(s).data]
    IN  /\ AtDocument(f) /\ ~Foreign(s) /\ Found(s) = {} /\ ~s.aborted
        /\ nextId' = nextId + 1
        /\ feeder' = [feeder EXCEPT
                ![f] = [Next_(s) EXCEPT !.ops = Append(@, [do |-> "insert", row |-> row])]]
        /\ UNCHANGED <<rows, history, exist, clock, faults, stale>>

\* The row says the same: its time stamp is updated with the others'.
Touch(f) ==
    LET s == feeder[f]
    IN  /\ AtDocument(f) /\ ~Foreign(s)
        /\ \E r \in Found(s) :
              /\ Found(s) = {r} /\ ~Different(r, Doc(s).data)
              /\ feeder' = [feeder EXCEPT ![f] = [Next_(s) EXCEPT !.touch = @ \cup {r.id}]]
        /\ UNCHANGED <<rows, history, exist, clock, nextId, faults, stale>>

\* archive_and_update.  The history table is asked for first: if the feeder does not
\* know it, what the message did so far is committed, or, if the table is there and
\* its creation fails, taken back.
ArchiveAndUpdate(f) ==
    LET s == feeder[f]
        h == Historic(s.group)
        stranger == h \notin s.known
        change(r) == [do |-> "replace", row |-> r, doc |-> Doc(s), time |-> s.time]
    IN  /\ AtDocument(f) /\ ~Foreign(s) /\ ~s.aborted /\ s.group \notin DOMAIN Partitions
        /\ \E r \in Found(s) :
              /\ Found(s) = {r} /\ Different(r, Doc(s).data) /\ ~Locked(f, {r.id})
              /\ feeder' = [feeder EXCEPT
                    ![f] = [Next_(s) EXCEPT
                              !.known = @ \cup {h},
                              !.undone = @ \/ (stranger /\ h \in exist /\ s.ops # <<>>),
                              !.ops = Append(IF stranger THEN <<>> ELSE @, change(r))]]
        /\ exist' = exist \cup {h}
        /\ IF stranger /\ h \notin exist THEN Commit(s.ops)
           ELSE UNCHANGED <<rows, history, stale>>
        /\ UNCHANGED <<clock, nextId, faults>>

\* A statement of save fails, by an error of the database or for the lock of a row:
\* the document is given up, and the transaction is aborted.
Fail(f) ==
    /\ AtDocument(f) /\ ~feeder[f].aborted
    /\ ~Foreign(feeder[f]) /\ Cardinality(Found(feeder[f])) < 2
    /\ \A r \in Found(feeder[f]) : Different(r, Doc(feeder[f]).data)
    /\ faults < MaxFaults
    /\ faults' = faults + 1
    /\ feeder' = [feeder EXCEPT ![f] = [Next_(feeder[f]) EXCEPT !.aborted = TRUE,
                                                             !.undone = TRUE]]
    /\ UNCHANGED <<rows, history, exist, clock, nextId, stale>>

\* post_bulk_process: bulk_update and the commit; both end an aborted transaction only
\* if there is nothing to update, for the update fails on it and is not caught.
Stamp(s) == IF s.touch = {} THEN <<>> ELSE <<[do |-> "touch", ids |-> s.touch, time |-> s.time]>>

PostBulkProcess(f) ==
    LET s == feeder[f]
    IN  /\ s.pc = "documents" /\ s.docs = <<>> /\ ~Locked(f, s.touch)
        /\ feeder' = [feeder EXCEPT
              ![f] = [Fresh EXCEPT !.known = s.known,
                                   !.aborted = s.aborted /\ s.touch # {}]]
        /\ IF s.aborted THEN UNCHANGED <<rows, history, stale>>
           ELSE Commit(s.ops \o Stamp(s))
        /\ UNCHANGED <<exist, clock, nextId, faults>>

\* The worker dies, and another is started in its place.
Restart(f) ==
    /\ faults < MaxFaults /\ faults' = faults + 1
    /\ feeder[f] # Fresh
    /\ feeder' = [feeder EXCEPT ![f] = Fresh]
    /\ UNCHANGED <<rows, history, exist, clock, nextId, stale>>

Init ==
    /\ rows = {} /\ history = {} /\ exist = {} /\ clock = 0 /\ nextId = 1
    /\ feeder = [f \in Feeders |-> Fresh] /\ faults = 0 /\ stale = {}

Next ==
    \E f \in Feeders :
        \/ \E m \in Messages : Take(f, m) \/ Refuse(f, m)
        \/ Skip(f) \/ Insert(f) \/ Touch(f) \/ ArchiveAndUpdate(f) \/ Fail(f)
        \/ PostBulkProcess(f) \/ Restart(f)

Spec == Init /\ [][Next]_hvars

-----------------------------------------------------------------------------
(* Properties *)

\* The database says what a document says: one of the rows of its context, as of the
\* time of the message, has all of its data.
Says(rs, doc, table, time) ==
    \E r \in rs : /\ r.table = table /\ r.context = doc.context /\ r.updated = time
                    /\ \A k \in DOMAIN doc.data : k \in DOMAIN r.data /\ r.data[k] = doc.data[k]

\* A document that could be stored: one of ours, with at most one row until now, and
\* not a change to a row of a partition.
Storable(s, doc) ==
    LET mine == {r \in s.cache : r.context = doc.context}
    IN  /\ s.group = "subnets" => doc.context["prefix"] \in Ours
        /\ Cardinality(mine) < 2
        /\ s.group \in DOMAIN Partitions => \A r \in mine : ~Different(r, doc.data)

Ends(f) ==
    /\ feeder[f].pc = "documents" /\ feeder[f].docs = <<>> /\ feeder'[f].pc = "idle"
    /\ faults' = faults

\* No other document of the message is of the same context: save compares each of them
\* with what was looked up before all.
OnlyOne(s, i) == \A j \in DOMAIN s.body \ {i} : s.body[j].context # s.body[i].context

StoredBy(s) ==
    \A i \in DOMAIN s.body :
        Storable(s, s.body[i]) /\ OnlyOne(s, i) => Says(rows', s.body[i], s.table, s.time)

\* When a feeder that had the database for itself ends a message of which nothing was
\* taken back, everything in it is in the database, the changes of several documents
\* and the time stamps of others alike; but for documents of one context (OnlyOne).
StoredInFull ==
    [][\A f \in Feeders :
          Ends(f) /\ feeder[f].alone /\ ~feeder[f].undone /\ ~feeder[f].aborted
            => StoredBy(feeder[f])]_hvars

\* workers.py:635 "# its fine if the table already exists" (of the table a row is
\* archived in): a message that meets no failure is stored in full.  Violated: to find
\* out that the table exists takes back what the message did before.
FineIfItExists ==
    [][\A f \in Feeders :
          Ends(f) /\ feeder[f].alone /\ ~feeder[f].aborted => StoredBy(feeder[f])]_hvars

\* The history of a row, unless it was changed from a state that was not its present one,
\* has no gap and no overlap: its entries follow each other in time, the last one until
\* the row's present state; across restarts, failures and the commits in the middle of
\* a message.
HistoryTiles ==
    \A r \in {x \in rows : x.id \notin stale} :
        LET entries == {e \in history : e.id = r.id}
        IN  /\ \A e \in entries : e.updated = r.created
                                    \/ \E d \in entries : d.created = e.updated /\ d # e
            /\ \A d, e \in entries : d.created = e.created => d = e
=============================================================================
