----------------------------- MODULE MongoStore -----------------------------
(***************************************************************************)
(* The storage daemon with mongodb (MongoStorer of storage/workers.py;     *)
(* ipam and property control store their data with it, too).  A report on  *)
(* a context updates the time stamp of its document; or, if it differs,    *)
(* moves the document to an archive and puts a new one in its place, which *)
(* refers to the old one.  There are no transactions: storers interleave,  *)
(* and may stop, between any two statements.                               *)
(***************************************************************************)
EXTENDS Integers, FiniteSets

CONSTANTS
    Storers,
    Contexts,
    Values,         \* what is reported of a context
    None,
    ArchiveAfter,   \* time_delta: archive_after of the message, or None
    MaxReports,     \* bound: the number of reports
    MaxCrashes      \* bound: the number of storers that stop in between

MongoAssumption ==
    ArchiveAfter \in Nat \cup {None} /\ MaxReports \in Nat /\ MaxCrashes \in Nat

VARIABLES
    docs,       \* the collection: [id, ctx, value, first, last, previous]
    past,       \* its archive
    now,        \* reports so far: each has its own time
    nextId,
    at,         \* storer -> [pc, ctx, value, time, found, doc, alone]
    crashes

vars == <<docs, past, now, nextId, at, crashes>>

Idle == [pc |-> "idle", ctx |-> None, value |-> None, time |-> 0, found |-> {}, doc |-> None,
         left |-> {}, alone |-> FALSE]
Nobody == \A s \in Storers : at[s].pc = "idle"

\* save: looks for the documents of the context.
Find(s) ==
    /\ at[s].pc = "idle" /\ now < MaxReports /\ now' = now + 1
    /\ \E c \in Contexts, v \in Values :
          LET found == {d \in docs : d.ctx = c}
          IN  at' = [t \in Storers |->
                IF t # s THEN [at[t] EXCEPT !.alone = FALSE]
                ELSE [pc |-> "found", ctx |-> c, value |-> v, time |-> now + 1, found |-> found,
                      doc |-> None, left |-> found, alone |-> Nobody]]
    /\ UNCHANGED <<docs, past, nextId, crashes>>

\* Several documents are made one (of which it is open whose id and value it
\* has), and removed one by one, unless they were changed meanwhile.
Reduce(s) ==
    /\ at[s].pc = "found" /\ Cardinality(at[s].found) > 1 /\ at[s].left # {}
    /\ \E d \in at[s].left :
          /\ docs' = docs \ {d}
          /\ at' = [at EXCEPT ![s].left = @ \ {d}]
    /\ UNCHANGED <<past, now, nextId, crashes>>

Lowest(S) == CHOOSE x \in S : \A y \in S : x <= y
Highest(S) == CHOOSE x \in S : \A y \in S : x >= y

\* The document the report is compared with.
Candidates(s) ==
    LET found == at[s].found
    IN  IF Cardinality(found) = 1 THEN found
        ELSE {[d EXCEPT !.first = Lowest({e.first : e \in found}),
                        !.last = Highest({e.last : e \in found})] : d \in found}

\* The report differs from the document, or the document is too old.
Differs(s, d) ==
    \/ d.value # at[s].value
    \/ ArchiveAfter # None /\ d.last + ArchiveAfter < at[s].time

\* What is to be done: see the following actions.
Decide(s) ==
    /\ at[s].pc = "found" /\ (Cardinality(at[s].found) > 1 => at[s].left = {})
    /\ \/ /\ at[s].found = {}
          /\ at' = [at EXCEPT ![s].pc = "insert"]
       \/ \E d \in Candidates(s) :
             at' = [at EXCEPT ![s].doc = d, ![s].pc = IF Differs(s, d) THEN "remove" ELSE "update"]
    /\ UNCHANGED <<docs, past, now, nextId, crashes>>

\* 1a) The time stamp of a document that is still as it was found.
Update(s) ==
    /\ at[s].pc = "update"
    /\ docs' = {IF d = at[s].doc THEN [d EXCEPT !.last = at[s].time] ELSE d : d \in docs}
    /\ at' = [at EXCEPT ![s] = Idle]
    /\ UNCHANGED <<past, now, nextId, crashes>>

\* What is left without the document.
Removed(d) == {e \in docs : e.id # d.id}

\* Mutated: the new document is inserted before the old one is in the archive.
NewFirst(s) ==
    IF at[s].pc = "remove" THEN "insert"
    ELSE IF at[s].pc = "insert" /\ at[s].doc # None THEN "archive" ELSE "idle"

\* 1b) The document is removed, then archived, then the new one is inserted.
After(s) ==
    IF at[s].pc = "remove" THEN "archive" ELSE IF at[s].pc = "archive" THEN "insert" ELSE "idle"

Proceed(s) ==
    at' = [at EXCEPT ![s] = IF After(s) = "idle" THEN Idle ELSE [@ EXCEPT !.pc = After(s)]]

Remove(s) ==
    /\ at[s].pc = "remove"
    /\ docs' = Removed(at[s].doc)
    /\ Proceed(s)
    /\ UNCHANGED <<past, now, nextId, crashes>>

\* A document that is in the archive already is not inserted again.
Archive(s) ==
    /\ at[s].pc = "archive"
    /\ past' = IF at[s].doc.id \in {d.id : d \in past} THEN past ELSE past \cup {at[s].doc}
    /\ Proceed(s)
    /\ UNCHANGED <<docs, now, nextId, crashes>>

\* 2) The new document.
Insert(s) ==
    /\ at[s].pc = "insert"
    /\ docs' = docs \cup
         {[id |-> nextId, ctx |-> at[s].ctx, value |-> at[s].value, first |-> at[s].time,
           last |-> at[s].time, previous |-> IF at[s].doc = None THEN None ELSE at[s].doc.id]}
    /\ nextId' = nextId + 1
    /\ Proceed(s)
    /\ UNCHANGED <<past, now, crashes>>

\* A storer stops between two statements.
Crash(s) ==
    /\ at[s].pc # "idle" /\ crashes < MaxCrashes /\ crashes' = crashes + 1
    /\ at' = [at EXCEPT ![s] = Idle]
    /\ UNCHANGED <<docs, past, now, nextId>>

Init ==
    /\ docs = {} /\ past = {} /\ now = 0 /\ nextId = 1 /\ crashes = 0
    /\ at = [s \in Storers |-> Idle]

Next ==
    \E s \in Storers :
        \/ Find(s) \/ Reduce(s) \/ Decide(s) \/ Update(s)
        \/ Remove(s) \/ Archive(s) \/ Insert(s) \/ Crash(s)

Spec == Init /\ [][Next]_vars

-----------------------------------------------------------------------------
(* Properties *)

\* The history can be gone through: what a document refers to as its predecessor
\* is in the archive, wherever a storer stops and whatever the others do.
LinksResolve ==
    \A d \in docs \cup past : d.previous # None => d.previous \in {e.id : e \in past}

\* A storer is at the end of a report, and no other was at work during it.
EndsAlone(s) ==
    /\ at[s].pc \in {"update", "insert", "archive"} /\ at'[s].pc = "idle"
    /\ at[s].alone /\ crashes' = crashes

\* A report dealt with alone leaves one document of its context, which says what
\* was reported, if there was not more than one before.
ReportKept ==
    \A s \in Storers : EndsAlone(s) /\ Cardinality(at[s].found) <= 1 =>
        LET mine == {d \in docs' : d.ctx = at[s].ctx}
        IN  /\ Cardinality(mine) = 1
            /\ \A d \in mine : d.value = at[s].value /\ d.last = at[s].time
OneDocument == [][ReportKept]_vars

=============================================================================
