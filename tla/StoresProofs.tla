---------------------------- MODULE StoresProofs ----------------------------
(***************************************************************************)
(* Theorems about the storage daemons that module Stores brings together   *)
(* (of postgres, see also PostgresStoreProofs): the histories that storers *)
(* keep with mongodb, for any number of storers and contexts, and wherever *)
(* storers stop; the points sent to influxdb; the rows of a message, whole *)
(* and in parts for carbon; and the histories of the older workers, and    *)
(* what they store of a message.                                           *)
(***************************************************************************)
EXTENDS Stores, PostgresStoreProofs, FiniteSetTheorems, TLAPS

-----------------------------------------------------------------------------
(* postgres *)

\* Once a feeder that was the only one at work has ended a message, a value that was
\* replaced is noted in the archive, and each context that is in one report of the message
\* has one row (storage/feeders/postgres.py), for any feeders, messages and flags.
THEOREM RowsAlwaysFollow == Spec => RowsFollow
  BY AloneFollows, PTL DEF RowsFollow

-----------------------------------------------------------------------------
(* mongodb: histories can be gone through *)

\* Whether an identifier can be followed.
InArchive(id) == id = None \/ id \in {e.id : e \in past}

\* A document, in the database or in the memory of a storer, whose predecessor
\* is in the archive.
Follows(d) == {"id", "previous"} \subseteq DOMAIN d /\ InArchive(d.previous)

StorerFields == {"pc", "found", "left", "doc"}

\* What a storer knows can be written back at any time; and what it is about to
\* refer to is in the archive.
StorerSound(s) ==
    /\ StorerFields \subseteq DOMAIN at[s]
    /\ \A d \in at[s].found \cup at[s].left : Follows(d)
    /\ at[s].doc # None \/ at[s].pc \in {"remove", "archive"} => Follows(at[s].doc)
    /\ at[s].pc = "found" => at[s].doc = None
    /\ at[s].pc = "insert" /\ at[s].doc # None => InArchive(at[s].doc.id)

MongoInv ==
    /\ DOMAIN at = Storers
    /\ \A d \in docs \cup past : Follows(d)
    /\ \A s \in Storers : StorerSound(s)

-----------------------------------------------------------------------------
(* mongodb: steps *)

\* Nothing leaves the archive: whatever could be followed still can.
LEMMA StillArchived ==
    ASSUME past \subseteq past'
    PROVE  /\ \A id : InArchive(id) => InArchive(id)'
           /\ \A d : Follows(d) => Follows(d)'
  BY DEF InArchive, Follows

\* A storer that does not move stays sound.
LEMMA OtherStorersSound ==
    ASSUME past \subseteq past', NEW s \in Storers, StorerSound(s), at'[s] = at[s]
    PROVE  StorerSound(s)'
  BY StillArchived DEF StorerSound

\* A storer that has nothing to do is sound.
LEMMA IdleStorerSound ==
    ASSUME NEW s \in Storers, at'[s] = Mongo!Idle
    PROVE  StorerSound(s)'
  BY DEF Mongo!Idle, StorerSound, StorerFields

\* Of the candidates, too, the predecessors are archived.
LEMMA CandidatesFollow ==
    ASSUME NEW s \in Storers, StorerSound(s), NEW d \in Mongo!Candidates(s)
    PROVE  Follows(d)
  <1>1. CASE d \in at[s].found
    BY <1>1 DEF StorerSound
  <1>2. CASE d \notin at[s].found
    <2> DEFINE Reduced(e) == [e EXCEPT !.first = Mongo!Lowest({x.first : x \in at[s].found}),
                                      !.last = Mongo!Highest({x.last : x \in at[s].found})]
    <2>1. PICK e \in at[s].found : d = Reduced(e)
      BY <1>2 DEF Mongo!Candidates
    <2>2. Follows(e)
      BY DEF StorerSound
    <2>3. DOMAIN d = DOMAIN e
      BY <2>1
    <2>4. d.previous = e.previous
      BY <2>1, <2>2 DEF Follows
    <2> QED BY <2>2, <2>3, <2>4 DEF Follows
  <1> QED BY <1>1, <1>2

\* Every step keeps the invariant.
LEMMA MongoInvKept == MongoInv /\ [Mongo!Next]_(Mongo!vars) => MongoInv'
  <1> SUFFICES ASSUME MongoInv, [Mongo!Next]_(Mongo!vars) PROVE MongoInv'
    OBVIOUS
  <1> USE DEF MongoInv
  <1>1. ASSUME NEW s \in Storers, Mongo!Find(s) PROVE MongoInv'
    <2>1. past' = past /\ docs' = docs
      BY <1>1 DEF Mongo!Find
    <2>2. DOMAIN at' = Storers
      BY <1>1 DEF Mongo!Find
    <2>3. ASSUME NEW t \in Storers PROVE StorerSound(t)'
      <3>1. CASE t = s
        <4>1. at'[s].pc = "found" /\ at'[s].doc = None
              /\ at'[s].found \subseteq docs /\ at'[s].left \subseteq docs
              /\ StorerFields \subseteq DOMAIN at'[s]
          BY <1>1 DEF Mongo!Find, StorerFields
        <4> QED BY <2>1, <3>1, <4>1, StillArchived DEF StorerSound
      <3>2. CASE t # s
        <4>1. at'[t] = [at[t] EXCEPT !.alone = FALSE]
          BY <1>1, <3>2 DEF Mongo!Find
        <4>2. DOMAIN at'[t] = DOMAIN at[t]
          BY <4>1
        <4>3. at'[t].pc = at[t].pc /\ at'[t].found = at[t].found
              /\ at'[t].left = at[t].left /\ at'[t].doc = at[t].doc
          BY <4>1 DEF StorerSound, StorerFields
        <4> QED BY <2>1, <4>2, <4>3, StillArchived DEF StorerSound
      <3> QED BY <3>1, <3>2
    <2> QED BY <2>1, <2>2, <2>3, StillArchived
  <1>2. ASSUME NEW s \in Storers, Mongo!Reduce(s) PROVE MongoInv'
    <2>1. past' = past /\ docs' \subseteq docs
      BY <1>2 DEF Mongo!Reduce
    <2>2. PICK d \in at[s].left : at' = [at EXCEPT ![s].left = @ \ {d}]
      BY <1>2 DEF Mongo!Reduce
    <2>3. /\ DOMAIN at'[s] = DOMAIN at[s] /\ at'[s].left \subseteq at[s].left
          /\ at'[s].pc = at[s].pc /\ at'[s].found = at[s].found /\ at'[s].doc = at[s].doc
      BY <2>2 DEF StorerSound, StorerFields
    <2>4. StorerSound(s)'
      BY <2>1, <2>3, StillArchived DEF StorerSound
    <2>5. ASSUME NEW t \in Storers, t # s PROVE StorerSound(t)'
      BY <2>1, <2>2, <2>5, OtherStorersSound
    <2> QED BY <2>1, <2>2, <2>4, <2>5, StillArchived
  <1>3. ASSUME NEW s \in Storers, Mongo!Decide(s) PROVE MongoInv'
    <2>1. past' = past /\ docs' = docs
      BY <1>3 DEF Mongo!Decide
    <2>2. DOMAIN at' = Storers /\ \A t \in Storers \ {s} : at'[t] = at[t]
      BY <1>3 DEF Mongo!Decide
    <2>3. at[s].pc = "found"
      BY <1>3 DEF Mongo!Decide
    <2>4. StorerSound(s)'
      <3>1. CASE at' = [at EXCEPT ![s].pc = "insert"] /\ at[s].found = {}
        <4>1. /\ DOMAIN at'[s] = DOMAIN at[s] /\ at'[s].pc = "insert" /\ at'[s].doc = at[s].doc
              /\ at'[s].found = at[s].found /\ at'[s].left = at[s].left
          BY <3>1 DEF StorerSound, StorerFields
        <4>2. at[s].doc = None
          BY <2>3 DEF StorerSound
        <4> QED BY <2>1, <4>1, <4>2, StillArchived DEF StorerSound
      <3>2. ASSUME NEW d \in Mongo!Candidates(s),
                   at' = [at EXCEPT ![s].doc = d,
                                    ![s].pc = IF Mongo!Differs(s, d) THEN "remove" ELSE "update"]
            PROVE  StorerSound(s)'
        <4>1. DOMAIN at'[s] = DOMAIN at[s] /\ at'[s].doc = d
              /\ at'[s].pc \in {"remove", "update"}
              /\ at'[s].found = at[s].found /\ at'[s].left = at[s].left
          BY <3>2 DEF StorerSound, StorerFields
        <4>2. Follows(d)
          BY CandidatesFollow
        <4> QED BY <2>1, <4>1, <4>2, StillArchived DEF StorerSound
      <3> QED BY <1>3, <3>1, <3>2 DEF Mongo!Decide
    <2> QED BY <2>1, <2>2, <2>4, OtherStorersSound, StillArchived
  <1>4. ASSUME NEW s \in Storers, Mongo!Update(s) PROVE MongoInv'
    <2>1. past' = past /\ at' = [at EXCEPT ![s] = Mongo!Idle]
      BY <1>4 DEF Mongo!Update
    <2>2. ASSUME NEW d \in docs' PROVE Follows(d)
      <3>1. CASE d \in docs
        BY <3>1
      <3>2. CASE d \notin docs
        <4>1. PICK e \in docs : d = [e EXCEPT !.last = at[s].time]
          BY <1>4, <3>2 DEF Mongo!Update
        <4>2. DOMAIN d = DOMAIN e
          BY <4>1
        <4>3. d.previous = e.previous
          BY <4>1 DEF Follows
        <4> QED BY <4>2, <4>3 DEF Follows
      <3> QED BY <3>1, <3>2
    <2> QED BY <2>1, <2>2, OtherStorersSound, IdleStorerSound, StillArchived
  <1>5. ASSUME NEW s \in Storers, Mongo!Remove(s) PROVE MongoInv'
    <2>1. past' = past /\ docs' \subseteq docs
      BY <1>5 DEF Mongo!Remove, Mongo!Removed
    <2>2. at' = [at EXCEPT ![s] = [@ EXCEPT !.pc = "archive"]]
      BY <1>5 DEF Mongo!Remove, Mongo!Proceed, Mongo!After
    <2>3. /\ DOMAIN at'[s] = DOMAIN at[s] /\ at'[s].pc = "archive" /\ at'[s].doc = at[s].doc
          /\ at'[s].found = at[s].found /\ at'[s].left = at[s].left
      BY <2>2 DEF StorerSound, StorerFields
    <2>4. StorerSound(s)'
      BY <1>5, <2>1, <2>3, StillArchived DEF Mongo!Remove, StorerSound
    <2> QED BY <2>1, <2>2, <2>4, OtherStorersSound, StillArchived
  <1>6. ASSUME NEW s \in Storers, Mongo!Archive(s) PROVE MongoInv'
    <2>1. docs' = docs /\ past \subseteq past' /\ past' \subseteq past \cup {at[s].doc}
      BY <1>6 DEF Mongo!Archive
    <2>2. at[s].doc.id \in {e.id : e \in past'}
      BY <1>6 DEF Mongo!Archive
    <2>3. at' = [at EXCEPT ![s] = [@ EXCEPT !.pc = "insert"]]
      BY <1>6 DEF Mongo!Archive, Mongo!Proceed, Mongo!After
    <2>4. /\ DOMAIN at'[s] = DOMAIN at[s] /\ at'[s].pc = "insert" /\ at'[s].doc = at[s].doc
          /\ at'[s].found = at[s].found /\ at'[s].left = at[s].left
      BY <2>3 DEF StorerSound, StorerFields
    <2>5. StorerSound(s)'
      <3>1. InArchive(at[s].doc.id)'
        BY <2>2, <2>4 DEF InArchive
      <3> QED BY <2>1, <2>4, <3>1, StillArchived DEF StorerSound
    <2>6. Follows(at[s].doc)
      BY <1>6 DEF Mongo!Archive, StorerSound
    <2>7. \A t \in Storers \ {s} : StorerSound(t)'
      BY <2>1, <2>3, OtherStorersSound
    <2>8. \A d \in docs' \cup past' : Follows(d)'
      BY <2>1, <2>6, StillArchived
    <2>9. DOMAIN at' = Storers
      BY <2>3
    <2> QED BY <2>5, <2>7, <2>8, <2>9
  <1>7. ASSUME NEW s \in Storers, Mongo!Insert(s) PROVE MongoInv'
    <2>1. past' = past /\ at' = [at EXCEPT ![s] = Mongo!Idle]
      BY <1>7 DEF Mongo!Insert, Mongo!Proceed, Mongo!After
    <2>2. ASSUME NEW d \in docs' \ docs PROVE Follows(d)
      <3>1. d.previous = IF at[s].doc = None THEN None ELSE at[s].doc.id
        BY <1>7 DEF Mongo!Insert
      <3>2. {"id", "previous"} \subseteq DOMAIN d
        BY <1>7 DEF Mongo!Insert
      <3>3. InArchive(d.previous)
        BY <1>7, <3>1 DEF Mongo!Insert, StorerSound, InArchive
      <3> QED BY <3>2, <3>3 DEF Follows
    <2> QED BY <2>1, <2>2, OtherStorersSound, IdleStorerSound, StillArchived
  <1>8. ASSUME NEW s \in Storers, Mongo!Crash(s) PROVE MongoInv'
    <2>1. past' = past /\ docs' = docs /\ at' = [at EXCEPT ![s] = Mongo!Idle]
      BY <1>8 DEF Mongo!Crash
    <2> QED BY <2>1, OtherStorersSound, IdleStorerSound, StillArchived
  <1>9. CASE UNCHANGED Mongo!vars
    <2>1. past' = past /\ docs' = docs /\ at' = at
      BY <1>9 DEF Mongo!vars
    <2> QED BY <2>1, OtherStorersSound, StillArchived
  <1> HIDE DEF MongoInv
  <1> QED BY Zenon, <1>1, <1>2, <1>3, <1>4, <1>5, <1>6, <1>7, <1>8, <1>9 DEF Mongo!Next

-----------------------------------------------------------------------------
(* mongodb: a report dealt with alone *)

DocFields == {"id", "ctx", "value", "first", "last", "previous"}

MongoType ==
    /\ crashes \in Nat /\ DOMAIN at = Storers /\ IsFiniteSet(docs)
    /\ \A d \in docs : DOMAIN d = DocFields
    /\ \A s \in Storers : DOMAIN at[s] = DOMAIN Mongo!Idle /\ IsFiniteSet(at[s].found)

\* The documents of the context that a storer is at.
Mine(s) == {d \in docs : d.ctx = at[s].ctx}

\* What a storer that found no more than one document relies on.
Unchanged(s) ==
    /\ at[s].pc = "found" => Mine(s) = at[s].found
    /\ at[s].pc \in {"update", "remove"} => Mine(s) = {at[s].doc}
    /\ at[s].pc \in {"archive", "insert"} => Mine(s) = {}
    /\ at[s].pc = "update" => at[s].doc.value = at[s].value

AloneSound(s) ==
    at[s].alone /\ at[s].pc # "idle" =>
        /\ \A t \in Storers \ {s} : at[t].pc = "idle"
        /\ Cardinality(at[s].found) <= 1 => Unchanged(s)

OneInv == MongoType /\ \A s \in Storers : AloneSound(s)

\* FiniteSets, which MongoStore extends, is that of this module.
LEMMA SameCardinality == ASSUME NEW S PROVE Mongo!Cardinality(S) = Cardinality(S)
  BY Zenon DEF Mongo!Cardinality, Cardinality

\* A set of no more than one element.
LEMMA AtMostOne ==
    ASSUME NEW S, IsFiniteSet(S), Cardinality(S) <= 1
    PROVE  S = {} \/ (Cardinality(S) = 1 /\ \E d : S = {d})
  <1>1. Cardinality(S) \in Nat
    BY FS_CardinalityType
  <1>2. CASE Cardinality(S) = 0
    BY <1>2, FS_EmptySet
  <1>3. CASE Cardinality(S) = 1
    BY <1>3, FS_Singleton
  <1> QED BY <1>1, <1>2, <1>3

\* A storer that is at work is the only one that can be alone.
LEMMA NobodyElse ==
    ASSUME OneInv, NEW s \in Storers, at[s].pc # "idle", MongoType',
           \A t \in Storers \ {s} : at'[t] = at[t], AloneSound(s)'
    PROVE  OneInv'
  <1>1. ASSUME NEW t \in Storers \ {s} PROVE AloneSound(t)'
    BY <1>1 DEF OneInv, AloneSound
  <1> QED BY <1>1 DEF OneInv

\* A step of a storer that goes on with what it found.
LEMMA GoesOn ==
    ASSUME OneInv, NEW s \in Storers, at[s].pc # "idle",
           \A t \in Storers \ {s} : at'[t] = at[t],
           at'[s].alone => at[s].alone, at'[s].found = at[s].found,
           at[s].alone /\ Cardinality(at[s].found) <= 1 /\ Unchanged(s) => Unchanged(s)'
    PROVE  AloneSound(s)'
  BY DEF OneInv, AloneSound

\* The document that is inserted.
LEMMA NewDocument ==
    ASSUME NEW s \in Storers, Mongo!Insert(s)
    PROVE  \E new : /\ docs' = docs \cup {new} /\ DOMAIN new = DocFields
                    /\ new.ctx = at[s].ctx /\ new.value = at[s].value /\ new.last = at[s].time
  <1> DEFINE new == [id |-> nextId, ctx |-> at[s].ctx, value |-> at[s].value,
                     first |-> at[s].time, last |-> at[s].time,
                     previous |-> IF at[s].doc = None THEN None ELSE at[s].doc.id]
  <1>1. docs' = docs \cup {new}
    BY DEF Mongo!Insert
  <1>2. /\ DOMAIN new = DocFields
        /\ new.ctx = at[s].ctx /\ new.value = at[s].value /\ new.last = at[s].time
    BY DEF DocFields
  <1> HIDE DEF new
  <1> QED BY <1>1, <1>2

\* What becomes of a storer that proceeds.
LEMMA Proceeded ==
    ASSUME MongoType, NEW s \in Storers, Mongo!Proceed(s), at[s].pc \in {"remove", "archive"}
    PROVE  /\ DOMAIN at' = Storers /\ \A t \in Storers \ {s} : at'[t] = at[t]
           /\ DOMAIN at'[s] = DOMAIN Mongo!Idle /\ at'[s].pc = Mongo!After(s)
           /\ at'[s].alone = at[s].alone /\ at'[s].found = at[s].found
           /\ at'[s].ctx = at[s].ctx /\ at'[s].doc = at[s].doc /\ at'[s].value = at[s].value
  <1>1. Mongo!After(s) # "idle"
    BY DEF Mongo!After
  <1>2. at' = [at EXCEPT ![s] = [@ EXCEPT !.pc = Mongo!After(s)]]
    BY <1>1 DEF Mongo!Proceed
  <1>3. DOMAIN at[s] = DOMAIN Mongo!Idle /\ DOMAIN at = Storers
    BY DEF MongoType
  <1>4. at'[s] = [at[s] EXCEPT !.pc = Mongo!After(s)]
    BY <1>2, <1>3
  <1> QED BY <1>2, <1>3, <1>4 DEF Mongo!Idle

LEMMA TypeKept ==
    ASSUME MongoType, NEW s \in Storers, crashes' \in Nat, DOMAIN at' = Storers,
           IsFiniteSet(docs'), \A d \in docs' : DOMAIN d = DocFields,
           DOMAIN at'[s] = DOMAIN Mongo!Idle, IsFiniteSet(at'[s].found),
           \A t \in Storers \ {s} : DOMAIN at'[t] = DOMAIN at[t] /\ at'[t].found = at[t].found
    PROVE  MongoType'
  BY DEF MongoType, Mongo!Idle

LEMMA FindOne ==
    ASSUME OneInv, NEW s \in Storers, Mongo!Find(s)
    PROVE  OneInv'
  <1>1. PICK c \in Subjects, v \in Values :
          at' = [t \in Storers |->
            IF t # s THEN [at[t] EXCEPT !.alone = FALSE]
            ELSE [pc |-> "found", ctx |-> c, value |-> v, time |-> now + 1,
                  found |-> {d \in docs : d.ctx = c}, doc |-> None,
                  left |-> {d \in docs : d.ctx = c}, alone |-> Mongo!Nobody]]
    BY DEF Mongo!Find
  <1>2. docs' = docs /\ crashes' = crashes /\ MongoType
    BY DEF Mongo!Find, OneInv
  <1>3. /\ DOMAIN at' = Storers
        /\ at'[s] = [pc |-> "found", ctx |-> c, value |-> v, time |-> now + 1,
                     found |-> {d \in docs : d.ctx = c}, doc |-> None,
                     left |-> {d \in docs : d.ctx = c}, alone |-> Mongo!Nobody]
        /\ \A t \in Storers \ {s} : at'[t] = [at[t] EXCEPT !.alone = FALSE]
    BY <1>1
  <1>4. /\ DOMAIN at'[s] = DOMAIN Mongo!Idle /\ at'[s].pc = "found" /\ at'[s].ctx = c
        /\ at'[s].found = {d \in docs : d.ctx = c} /\ at'[s].alone = Mongo!Nobody
    BY <1>3 DEF Mongo!Idle
  <1>5. ASSUME NEW t \in Storers \ {s}
        PROVE  /\ DOMAIN at'[t] = DOMAIN at[t] /\ at'[t].found = at[t].found
               /\ at'[t].pc = at[t].pc /\ at'[t].alone = FALSE
    BY <1>2, <1>3 DEF MongoType, Mongo!Idle
  <1>6. MongoType'
    <2>1. IsFiniteSet(at'[s].found)
      BY <1>2, <1>4, FS_Subset DEF MongoType
    <2> QED BY <1>2, <1>3, <1>4, <1>5, <2>1, TypeKept DEF MongoType
  <1>7. Unchanged(s)'
    BY <1>2, <1>4 DEF Unchanged, Mine
  <1>8. AloneSound(s)'
    <2>1. at'[s].alone => \A t \in Storers \ {s} : at'[t].pc = "idle"
      <3>1. ASSUME Mongo!Nobody, NEW t \in Storers \ {s} PROVE at'[t].pc = "idle"
        BY <1>5, <3>1 DEF Mongo!Nobody
      <3> QED BY <1>4, <3>1
    <2> QED BY <1>7, <2>1 DEF AloneSound
  <1>9. \A t \in Storers \ {s} : AloneSound(t)'
    BY <1>5 DEF AloneSound
  <1> QED BY <1>6, <1>8, <1>9 DEF OneInv

LEMMA ReduceOne ==
    ASSUME OneInv, NEW s \in Storers, Mongo!Reduce(s)
    PROVE  OneInv'
  <1>1. PICK d \in at[s].left : docs' = docs \ {d} /\ at' = [at EXCEPT ![s].left = @ \ {d}]
    BY DEF Mongo!Reduce
  <1>2. /\ at[s].pc = "found" /\ Cardinality(at[s].found) > 1 /\ crashes' = crashes
        /\ MongoType
    <2>1. at[s].pc = "found" /\ Mongo!Cardinality(at[s].found) > 1 /\ crashes' = crashes
      BY Zenon DEF Mongo!Reduce
    <2> QED BY <2>1, SameCardinality DEF OneInv
  <1>3. DOMAIN at' = Storers /\ \A t \in Storers \ {s} : at'[t] = at[t]
    BY <1>1, <1>2 DEF MongoType
  <1>4. /\ DOMAIN at'[s] = DOMAIN Mongo!Idle /\ at'[s].alone = at[s].alone
        /\ at'[s].found = at[s].found
    BY <1>1, <1>2 DEF MongoType, Mongo!Idle
  <1>5. MongoType'
    <2>1. IsFiniteSet(docs')
      BY <1>1, <1>2, FS_Subset DEF MongoType
    <2> QED BY <1>1, <1>2, <1>3, <1>4, <2>1, TypeKept DEF MongoType
  <1>6. ~(Cardinality(at[s].found) <= 1)
    <2>1. Cardinality(at[s].found) \in Nat
      BY <1>2, FS_CardinalityType DEF MongoType
    <2> QED BY <1>2, <2>1
  <1>7. AloneSound(s)'
    BY <1>2, <1>3, <1>4, <1>6, GoesOn
  <1> QED BY <1>2, <1>3, <1>5, <1>7, NobodyElse

LEMMA DecideOne ==
    ASSUME OneInv, NEW s \in Storers, Mongo!Decide(s)
    PROVE  OneInv'
  <1>1. /\ at[s].pc = "found" /\ docs' = docs /\ crashes' = crashes /\ MongoType
    BY DEF Mongo!Decide, OneInv
  <1>2. \/ at[s].found = {} /\ at' = [at EXCEPT ![s].pc = "insert"]
        \/ \E d \in Mongo!Candidates(s) :
              at' = [at EXCEPT ![s].doc = d,
                               ![s].pc = IF Mongo!Differs(s, d) THEN "remove" ELSE "update"]
    BY DEF Mongo!Decide
  <1>3. DOMAIN at' = Storers /\ \A t \in Storers \ {s} : at'[t] = at[t]
    BY <1>1, <1>2 DEF MongoType
  <1>4. /\ DOMAIN at'[s] = DOMAIN Mongo!Idle /\ at'[s].alone = at[s].alone
        /\ at'[s].found = at[s].found /\ at'[s].ctx = at[s].ctx /\ at'[s].value = at[s].value
        /\ \/ at[s].found = {} /\ at'[s].pc = "insert"
           \/ /\ at'[s].doc \in Mongo!Candidates(s)
              /\ \/ at'[s].pc = "remove"
                 \/ at'[s].pc = "update" /\ ~Mongo!Differs(s, at'[s].doc)
    <2>1. CASE at[s].found = {} /\ at' = [at EXCEPT ![s].pc = "insert"]
      <3>1. at'[s] = [at[s] EXCEPT !.pc = "insert"]
        BY <1>1, <2>1 DEF MongoType
      <3> QED BY <1>1, <2>1, <3>1 DEF MongoType, Mongo!Idle
    <2>2. ASSUME NEW d \in Mongo!Candidates(s),
                 at' = [at EXCEPT ![s].doc = d,
                                  ![s].pc = IF Mongo!Differs(s, d) THEN "remove" ELSE "update"]
          PROVE  /\ DOMAIN at'[s] = DOMAIN Mongo!Idle /\ at'[s].alone = at[s].alone
                 /\ at'[s].found = at[s].found /\ at'[s].ctx = at[s].ctx
                 /\ at'[s].value = at[s].value /\ at'[s].doc = d
                 /\ at'[s].pc = IF Mongo!Differs(s, d) THEN "remove" ELSE "update"
      BY <1>1, <2>2 DEF MongoType, Mongo!Idle
    <2> QED BY <1>2, <2>1, <2>2
  <1>5. MongoType'
    <2>1. IsFiniteSet(at'[s].found)
      BY <1>1, <1>4 DEF MongoType
    <2> QED BY <1>1, <1>3, <1>4, <2>1, TypeKept DEF MongoType
  <1>6. ASSUME Cardinality(at[s].found) <= 1, Unchanged(s) PROVE Unchanged(s)'
    <2>1. Mine(s) = at[s].found /\ Mine(s)' = Mine(s)
      BY <1>1, <1>4, <1>6 DEF Unchanged, Mine
    <2>2. IsFiniteSet(at[s].found)
      BY <1>1 DEF MongoType
    <2>3. CASE at[s].found = {} /\ at'[s].pc = "insert"
      BY <2>1, <2>3 DEF Unchanged
    <2>4. CASE at'[s].doc \in Mongo!Candidates(s) /\ at'[s].pc \in {"remove", "update"}
      <3>1. at[s].found # {}
        <4>1. Cardinality({}) # 1
          BY FS_EmptySet
        <4> QED BY <2>4, <4>1 DEF Mongo!Candidates
      <3>2. Cardinality(at[s].found) = 1 /\ \E d : at[s].found = {d}
        BY <1>6, <2>2, <3>1, AtMostOne
      <3>3. Mongo!Candidates(s) = at[s].found
        <4>1. Mongo!Cardinality(at[s].found) = 1 => Mongo!Candidates(s) = at[s].found
          BY Zenon DEF Mongo!Candidates
        <4> QED BY <3>2, <4>1, SameCardinality
      <3>4. at[s].found = {at'[s].doc}
        BY <2>4, <3>2, <3>3
      <3>5. at'[s].pc = "update" => at'[s].doc.value = at[s].value
        BY <1>4 DEF Mongo!Differs
      <3> QED BY <1>4, <2>1, <2>4, <3>4, <3>5 DEF Unchanged
    <2> QED BY <1>4, <2>3, <2>4
  <1>7. AloneSound(s)'
    BY <1>1, <1>3, <1>4, <1>6, GoesOn
  <1> QED BY <1>1, <1>3, <1>5, <1>7, NobodyElse

\* A storer that has nothing to do any more.
LEMMA RestsOne ==
    ASSUME OneInv, NEW s \in Storers, at[s].pc # "idle", at' = [at EXCEPT ![s] = Mongo!Idle],
           crashes' \in Nat, IsFiniteSet(docs'), \A d \in docs' : DOMAIN d = DocFields
    PROVE  OneInv'
  <1>1. MongoType
    BY DEF OneInv
  <1>2. DOMAIN at' = Storers /\ at'[s] = Mongo!Idle /\ \A t \in Storers \ {s} : at'[t] = at[t]
    BY <1>1 DEF MongoType
  <1>3. MongoType'
    <2>1. IsFiniteSet(at'[s].found)
      BY <1>2, FS_EmptySet DEF Mongo!Idle
    <2> QED BY <1>1, <1>2, <2>1, TypeKept DEF MongoType
  <1>4. AloneSound(s)'
    BY <1>2 DEF AloneSound, Mongo!Idle
  <1> QED BY <1>2, <1>3, <1>4, NobodyElse

LEMMA UpdateOne ==
    ASSUME OneInv, NEW s \in Storers, Mongo!Update(s)
    PROVE  OneInv'
  <1> DEFINE Stamped(d) == IF d = at[s].doc THEN [d EXCEPT !.last = at[s].time] ELSE d
  <1>1. at[s].pc = "update" /\ at' = [at EXCEPT ![s] = Mongo!Idle] /\ crashes' = crashes
    BY Zenon DEF Mongo!Update
  <1>2. docs' = {Stamped(d) : d \in docs}
    BY Zenon DEF Mongo!Update
  <1>3. MongoType
    BY DEF OneInv
  <1>4. \A d \in docs : DOMAIN Stamped(d) = DocFields
    BY <1>3 DEF MongoType
  <1> HIDE DEF Stamped
  <1>5. IsFiniteSet(docs')
    <2> DEFINE f == [d \in docs |-> Stamped(d)]
    <2>1. f \in Surjection(docs, docs')
      BY <1>2 DEF Surjection
    <2> QED BY <1>3, <2>1, FS_Surjection DEF MongoType
  <1>6. \A d \in docs' : DOMAIN d = DocFields
    BY <1>2, <1>4
  <1>7. crashes' \in Nat
    BY <1>1, <1>3 DEF MongoType
  <1> QED BY <1>1, <1>5, <1>6, <1>7, RestsOne

LEMMA RemoveOne ==
    ASSUME OneInv, NEW s \in Storers, Mongo!Remove(s)
    PROVE  OneInv'
  <1>1. /\ at[s].pc = "remove" /\ docs' = Mongo!Removed(at[s].doc) /\ Mongo!Proceed(s)
        /\ crashes' = crashes
    BY Zenon DEF Mongo!Remove
  <1>2. MongoType /\ Mongo!After(s) = "archive" /\ docs' \subseteq docs
    BY <1>1 DEF OneInv, Mongo!After, Mongo!Removed
  <1>3. MongoType'
    <2>1. IsFiniteSet(docs')
      BY <1>2, FS_Subset DEF MongoType
    <2> QED BY <1>1, <1>2, <2>1, Proceeded, TypeKept DEF MongoType
  <1>4. ASSUME Unchanged(s) PROVE Unchanged(s)'
    <2>1. Mine(s) = {at[s].doc} /\ at'[s].ctx = at[s].ctx /\ at'[s].pc = "archive"
      BY <1>1, <1>2, <1>4, Proceeded DEF Unchanged
    <2>2. at[s].doc \notin docs'
      BY <1>1 DEF Mongo!Removed
    <2>3. Mine(s)' = {}
      BY <1>2, <2>1, <2>2 DEF Mine
    <2> QED BY <2>1, <2>3 DEF Unchanged
  <1>5. AloneSound(s)'
    BY <1>1, <1>2, <1>4, Proceeded, GoesOn
  <1> QED BY <1>1, <1>2, <1>3, <1>5, Proceeded, NobodyElse

LEMMA ArchiveOne ==
    ASSUME OneInv, NEW s \in Storers, Mongo!Archive(s)
    PROVE  OneInv'
  <1>1. at[s].pc = "archive" /\ docs' = docs /\ Mongo!Proceed(s) /\ crashes' = crashes
    BY Zenon DEF Mongo!Archive
  <1>2. MongoType /\ Mongo!After(s) = "insert"
    BY <1>1 DEF OneInv, Mongo!After
  <1>3. MongoType'
    BY <1>1, <1>2, Proceeded, TypeKept DEF MongoType
  <1>4. ASSUME Unchanged(s) PROVE Unchanged(s)'
    <2>1. Mine(s) = {} /\ at'[s].ctx = at[s].ctx /\ at'[s].pc = "insert"
      BY <1>1, <1>2, <1>4, Proceeded DEF Unchanged
    <2>2. Mine(s)' = {}
      BY <1>1, <2>1 DEF Mine
    <2> QED BY <2>1, <2>2 DEF Unchanged
  <1>5. AloneSound(s)'
    BY <1>1, <1>2, <1>4, Proceeded, GoesOn
  <1> QED BY <1>1, <1>2, <1>3, <1>5, Proceeded, NobodyElse

LEMMA InsertOne ==
    ASSUME OneInv, NEW s \in Storers, Mongo!Insert(s)
    PROVE  OneInv'
  <1>1. at[s].pc = "insert" /\ Mongo!Proceed(s) /\ crashes' = crashes
    BY Zenon DEF Mongo!Insert
  <1>2. at' = [at EXCEPT ![s] = Mongo!Idle]
    BY <1>1 DEF Mongo!Proceed, Mongo!After
  <1>3. PICK new : docs' = docs \cup {new} /\ DOMAIN new = DocFields
    BY NewDocument
  <1>4. crashes' \in Nat /\ IsFiniteSet(docs') /\ \A d \in docs' : DOMAIN d = DocFields
    BY <1>1, <1>3, FS_AddElement DEF OneInv, MongoType
  <1> QED BY <1>1, <1>2, <1>4, RestsOne

LEMMA CrashOne ==
    ASSUME OneInv, NEW s \in Storers, Mongo!Crash(s)
    PROVE  OneInv'
  <1>1. /\ at[s].pc # "idle" /\ at' = [at EXCEPT ![s] = Mongo!Idle]
        /\ docs' = docs /\ crashes' = crashes + 1
    BY Zenon DEF Mongo!Crash
  <1>2. crashes' \in Nat /\ IsFiniteSet(docs') /\ \A d \in docs' : DOMAIN d = DocFields
    BY <1>1 DEF OneInv, MongoType
  <1> QED BY <1>1, <1>2, RestsOne

LEMMA OneKept == OneInv /\ [Mongo!Next]_(Mongo!vars) => OneInv'
  <1> SUFFICES ASSUME OneInv, [Mongo!Next]_(Mongo!vars) PROVE OneInv'
    OBVIOUS
  <1>1. CASE Mongo!Next
    BY Zenon, <1>1, FindOne, ReduceOne, DecideOne, UpdateOne, RemoveOne, ArchiveOne, InsertOne,
       CrashOne DEF Mongo!Next
  <1>2. CASE UNCHANGED Mongo!vars
    BY <1>2 DEF OneInv, MongoType, AloneSound, Unchanged, Mine, Mongo!vars
  <1> QED BY <1>1, <1>2

\* What a step leaves of the context of a storer that was at the end of a report.
OneLeft(s) ==
    LET mine == {d \in docs' : d.ctx = at[s].ctx}
    IN  Cardinality(mine) = 1 /\ \A d \in mine : d.value = at[s].value /\ d.last = at[s].time

\* A set of one document that says what was reported.
LEMMA OneDocumentLeft ==
    ASSUME NEW s, NEW new, {d \in docs' : d.ctx = at[s].ctx} = {new},
           new.value = at[s].value, new.last = at[s].time
    PROVE  OneLeft(s)
  <1>1. Cardinality({new}) = 1
    BY FS_Singleton
  <1> QED BY <1>1 DEF OneLeft

LEMMA LeftByUpdate ==
    ASSUME OneInv, NEW s \in Storers, Mongo!Update(s), Mine(s) = {at[s].doc},
           at[s].doc.value = at[s].value
    PROVE  OneLeft(s)
  <1> DEFINE new == [at[s].doc EXCEPT !.last = at[s].time]
             Stamped(d) == IF d = at[s].doc THEN new ELSE d
  <1>1. docs' = {Stamped(d) : d \in docs}
    BY Zenon DEF Mongo!Update
  <1>2. at[s].doc \in docs /\ at[s].doc.ctx = at[s].ctx
    BY DEF Mine
  <1>3. DOMAIN at[s].doc = DocFields
    BY <1>2 DEF OneInv, MongoType
  <1>4. new.ctx = at[s].ctx /\ new.value = at[s].value /\ new.last = at[s].time
    BY <1>2, <1>3 DEF DocFields
  <1> HIDE DEF new
  <1>5. {d \in docs' : d.ctx = at[s].ctx} = {new}
    <2>1. new \in docs'
      BY <1>1, <1>2
    <2>2. ASSUME NEW d \in docs', d.ctx = at[s].ctx PROVE d = new
      BY <1>1, <2>2 DEF Mine
    <2> QED BY <1>4, <2>1, <2>2
  <1> QED BY <1>4, <1>5, OneDocumentLeft

LEMMA LeftByInsert ==
    ASSUME NEW s \in Storers, Mongo!Insert(s), Mine(s) = {}
    PROVE  OneLeft(s)
  <1>1. PICK new : /\ docs' = docs \cup {new}
                   /\ new.ctx = at[s].ctx /\ new.value = at[s].value /\ new.last = at[s].time
    BY NewDocument
  <1>2. {d \in docs' : d.ctx = at[s].ctx} = {new}
    BY <1>1 DEF Mine
  <1> QED BY <1>1, <1>2, OneDocumentLeft

\* A storer that ends a report alone does it with a step of its own: of Update or Insert.
LEMMA EndedByUpdateOrInsert ==
    ASSUME OneInv, Mongo!Next, NEW s \in Storers, Mongo!EndsAlone(s)
    PROVE  Mongo!Update(s) \/ Mongo!Insert(s)
  <1>1. /\ at[s].pc \in {"update", "insert", "archive"} /\ at'[s].pc = "idle"
        /\ at[s].alone /\ crashes' = crashes /\ MongoType
    BY DEF Mongo!EndsAlone, OneInv
  <1>2. \A t \in Storers \ {s} : at[t].pc = "idle"
    BY <1>1 DEF OneInv, AloneSound
  <1>3. ASSUME NEW t \in Storers, Mongo!Find(t) PROVE FALSE
    <2>1. at[t].pc = "idle"
      BY Zenon, <1>3 DEF Mongo!Find
    <2>2. at'[s] = [at[s] EXCEPT !.alone = FALSE]
      BY <1>1, <1>3, <2>1 DEF Mongo!Find
    <2>3. at'[s].pc = at[s].pc
      BY <1>1, <2>2 DEF MongoType, Mongo!Idle
    <2> QED BY <1>1, <2>3
  <1>4. ASSUME NEW t \in Storers, Mongo!Reduce(t) \/ Mongo!Decide(t) \/ Mongo!Remove(t)
        PROVE  FALSE
    <2>1. at[t].pc \in {"found", "remove"}
      BY Zenon, <1>4 DEF Mongo!Reduce, Mongo!Decide, Mongo!Remove
    <2> QED BY <1>1, <1>2, <2>1
  <1>5. ASSUME NEW t \in Storers, Mongo!Archive(t) PROVE FALSE
    <2>1. at[t].pc = "archive" /\ Mongo!Proceed(t)
      BY Zenon, <1>5 DEF Mongo!Archive
    <2>2. t = s
      BY <1>2, <2>1
    <2>3. at'[s].pc = "insert"
      BY <1>1, <2>1, <2>2, Proceeded DEF Mongo!After
    <2> QED BY <1>1, <2>3
  <1>6. ASSUME NEW t \in Storers, Mongo!Crash(t) PROVE FALSE
    <2>1. crashes' = crashes + 1
      BY Zenon, <1>6 DEF Mongo!Crash
    <2> QED BY <1>1, <2>1 DEF MongoType
  <1>7. ASSUME NEW t \in Storers, Mongo!Update(t) \/ Mongo!Insert(t) PROVE t = s
    <2>1. at[t].pc \in {"update", "insert"}
      BY Zenon, <1>7 DEF Mongo!Update, Mongo!Insert
    <2> QED BY <1>2, <2>1
  <1> QED BY Zenon, <1>3, <1>4, <1>5, <1>6, <1>7 DEF Mongo!Next

LEMMA ReportsKept == OneInv /\ [Mongo!Next]_(Mongo!vars) => [Mongo!ReportKept]_(Mongo!vars)
  <1> SUFFICES ASSUME OneInv, Mongo!Next PROVE Mongo!ReportKept
    OBVIOUS
  <1>1. ASSUME NEW s \in Storers, Mongo!EndsAlone(s), Cardinality(at[s].found) <= 1
        PROVE  OneLeft(s)
    <2>1. Unchanged(s)
      BY <1>1 DEF OneInv, AloneSound, Mongo!EndsAlone
    <2>2. CASE Mongo!Update(s)
      <3>1. at[s].pc = "update"
        BY Zenon, <2>2 DEF Mongo!Update
      <3> QED BY <2>1, <2>2, <3>1, LeftByUpdate DEF Unchanged
    <2>3. CASE Mongo!Insert(s)
      <3>1. at[s].pc = "insert"
        BY Zenon, <2>3 DEF Mongo!Insert
      <3> QED BY <2>1, <2>3, <3>1, LeftByInsert DEF Unchanged
    <2> QED BY <1>1, <2>2, <2>3, EndedByUpdateOrInsert
  <1> QED BY <1>1, SameCardinality DEF OneLeft, Mongo!ReportKept

\* Wherever a storer stops, and whatever the others do, documents refer to documents of
\* the archive; and a report dealt with alone leaves one document of its context, which
\* says what was reported: of MongoStorer.save (storage/workers.py), with any number of
\* storers, contexts and reports.
THEOREM DocumentsAlwaysLinked == Mongo!Spec => DocumentsLinked
  <1>1. Mongo!Init => MongoInv
    BY DEF Mongo!Init, Mongo!Idle, MongoInv, StorerSound, StorerFields
  <1>2. Mongo!Init => OneInv
    <2> SUFFICES ASSUME Mongo!Init PROVE OneInv
      OBVIOUS
    <2>1. /\ docs = {} /\ crashes = 0 /\ DOMAIN at = Storers
          /\ \A s \in Storers : at[s] = Mongo!Idle
      BY DEF Mongo!Init
    <2>2. \A s \in Storers : IsFiniteSet(at[s].found) /\ at[s].pc = "idle"
      BY <2>1, FS_EmptySet DEF Mongo!Idle
    <2>3. MongoType
      BY <2>1, <2>2, FS_EmptySet DEF MongoType
    <2> QED BY <2>2, <2>3 DEF OneInv, AloneSound
  <1>3. MongoInv /\ [Mongo!Next]_(Mongo!vars) => [Mongo!LinksResolve']_(Mongo!vars)
    <2>1. MongoInv' => Mongo!LinksResolve'
      BY DEF MongoInv, Mongo!LinksResolve, Follows, InArchive
    <2> QED BY <2>1, MongoInvKept
  <1> QED BY <1>1, <1>2, <1>3, MongoInvKept, OneKept, ReportsKept, PTL
          DEF Mongo!Spec, DocumentsLinked, Mongo!OneDocument

-----------------------------------------------------------------------------
(* influxdb: no point is lost *)

PointsInv == points \in Nat /\ cache \in Seq(Nat) /\ Others!PointsAccounted

LEMMA PointSaved ==
    ASSUME PointsInv, Others!InfluxSave
    PROVE  PointsInv'
  <1>1. PICK all : all = Append(cache, points + 1)
    OBVIOUS
  <1>2. /\ points \in Nat /\ cache \in Seq(Nat)
        /\ 1 .. points \subseteq received \cup Others!ToSet(cache)
    BY DEF PointsInv, Others!PointsAccounted
  <1>3. all \in Seq(Nat) /\ Others!ToSet(all) = Others!ToSet(cache) \cup {points + 1}
    BY <1>1, <1>2 DEF Others!ToSet
  <1>4. points' = points + 1
    BY Zenon DEF Others!InfluxSave
  <1>5. \/ cache' = all /\ received' = received
        \/ \E arrived \in {"answered", "unanswered", "lost"} :
              /\ cache' = Others!LeftOver(all, arrived)
              /\ received' = IF arrived = "lost" THEN received ELSE received \cup Others!ToSet(all)
    BY Zenon, <1>1 DEF Others!InfluxSave
  <1>6. /\ received \subseteq received' /\ cache' \in Seq(Nat)
        /\ Others!ToSet(all) \subseteq received' \cup Others!ToSet(cache')
    <2>1. CASE cache' = all /\ received \subseteq received'
      BY <1>3, <2>1 DEF Others!ToSet
    <2>2. CASE cache' = <<>> /\ received' = received \cup Others!ToSet(all)
      BY <2>2
    <2>3. \/ cache' = all /\ received \subseteq received'
          \/ cache' = <<>> /\ received' = received \cup Others!ToSet(all)
      BY <1>5 DEF Others!LeftOver
    <2> QED BY <2>1, <2>2, <2>3
  <1>7. 1 .. points + 1 = (1 .. points) \cup {points + 1}
    BY <1>2
  <1>8. 1 .. points' \subseteq received' \cup Others!ToSet(cache')
    BY <1>2, <1>3, <1>4, <1>6, <1>7
  <1> QED BY <1>2, <1>4, <1>6, <1>8 DEF PointsInv, Others!PointsAccounted

\* A point that was taken is at the server or in the cache, whatever fails: of
\* InfluxdbStorer.save (storage/feeders/influxdb.py), for chunks of any size.
THEOREM PointsAlwaysAccounted == Others!Spec => []PointsAccounted
  <1>1. Others!Init => PointsInv
    BY DEF Others!Init, PointsInv, Others!PointsAccounted
  <1>2. PointsInv /\ [Others!Next]_(Others!vars) => PointsInv'
    <2> SUFFICES ASSUME PointsInv, [Others!Next]_(Others!vars) PROVE PointsInv'
      OBVIOUS
    <2>1. Others!InfluxSave \/ UNCHANGED Others!influx
      BY Zenon DEF Others!Next, Others!Loop, Others!Dies, Others!RedisSave, Others!Tick,
                   Others!vars, Others!influx, Others!redis
    <2>2. CASE UNCHANGED Others!influx
      BY <2>2 DEF Others!influx, PointsInv, Others!PointsAccounted, Others!ToSet
    <2> QED BY <2>1, <2>2, PointSaved
  <1>3. PointsInv => PointsAccounted
    BY DEF PointsInv, PointsAccounted
  <1> QED BY <1>1, <1>2, <1>3, PTL DEF Others!Spec

-----------------------------------------------------------------------------
(* Messages: rows are kept apart *)

\* What joins agree on makes them the same.
LEMMA SameJoin ==
    ASSUME NEW f, NEW g, NEW h, NEW j, DOMAIN f \cup DOMAIN g = DOMAIN h \cup DOMAIN j,
           \A k \in DOMAIN f \cup DOMAIN g : Others!Over(f, g)[k] = Others!Over(h, j)[k]
    PROVE  Others!Over(f, g) = Others!Over(h, j)
  <1> DEFINE At(d, e, k) == IF k \in DOMAIN e THEN e[k] ELSE d[k]
             S == DOMAIN f \cup DOMAIN g
  <1>1. Others!Over(f, g) = [k \in S |-> At(f, g, k)]
    BY DEF Others!Over
  <1>2. Others!Over(h, j) = [k \in S |-> At(h, j, k)]
    BY DEF Others!Over
  <1>3. \A k \in S : At(f, g, k) = At(h, j, k)
    BY <1>1, <1>2
  <1> HIDE DEF At, S
  <1> QED BY <1>1, <1>2, <1>3

\* What a report, of this context and data, says of a row.
SaysOfRow(ctx, data, row, whole, keys) ==
    /\ DOMAIN ctx = DOMAIN whole \cup (DOMAIN row \cap keys)
    /\ DOMAIN data = DOMAIN row \ keys
    /\ \A k \in DOMAIN ctx : ctx[k] = IF k \in DOMAIN row THEN row[k] ELSE whole[k]
    /\ \A k \in DOMAIN data : data[k] = row[k]

LEMMA ReportSays ==
    ASSUME NEW m, NEW i
    PROVE  SaysOfRow(Others!ReportOf(m, i).ctx, Others!ReportOf(m, i).data, m.data[i],
                     Others!WholeContext(m), Others!KeyNames(m))
  <1> DEFINE row == m.data[i]
             whole == Others!WholeContext(m)
             keys == Others!KeyNames(m)
             named == Others!Only(row, DOMAIN whole)
             bulk == Others!BulkContext(m, row)
             mine == Others!Only(row, keys)
             ctx == Others!ReportOf(m, i).ctx
             data == Others!ReportOf(m, i).data
  <1>1. ctx = Others!Over(bulk, mine) /\ data = Others!Without(row, keys)
    BY DEF Others!ReportOf
  <1>2. bulk = Others!Over(whole, named) /\ DOMAIN whole \subseteq keys
    BY DEF Others!BulkContext, Others!KeyNames
  <1> HIDE DEF row, whole, keys, bulk, mine, named, ctx, data
  <1>3. DOMAIN named = DOMAIN row \cap DOMAIN whole /\ \A k \in DOMAIN named : named[k] = row[k]
    BY DEF named, Others!Only
  <1>4. DOMAIN mine = DOMAIN row \cap keys /\ \A k \in DOMAIN mine : mine[k] = row[k]
    BY DEF mine, Others!Only
  <1>5. DOMAIN data = DOMAIN row \ keys /\ \A k \in DOMAIN data : data[k] = row[k]
    BY <1>1 DEF Others!Without
  <1>6. /\ DOMAIN bulk = DOMAIN whole
        /\ \A k \in DOMAIN bulk : bulk[k] = IF k \in DOMAIN row THEN row[k] ELSE whole[k]
    BY <1>2, <1>3 DEF Others!Over
  <1>7. DOMAIN ctx = DOMAIN bulk \cup DOMAIN mine
        /\ \A k \in DOMAIN ctx : ctx[k] = IF k \in DOMAIN mine THEN mine[k] ELSE bulk[k]
    BY <1>1 DEF Others!Over
  <1>8. \A k \in DOMAIN ctx : ctx[k] = IF k \in DOMAIN row THEN row[k] ELSE whole[k]
    BY <1>2, <1>4, <1>6, <1>7
  <1>9. SaysOfRow(ctx, data, row, whole, keys)
    BY <1>4, <1>5, <1>6, <1>7, <1>8 DEF SaysOfRow
  <1> QED BY <1>9 DEF row, whole, keys, ctx, data

\* Of any message, whatever its rows.
LEMMA RowsKeptApart == Others!RowsApart
  <1> SUFFICES ASSUME NEW i \in DOMAIN message.data
               PROVE  LET r == Others!ReportOf(message, i)
                          row == message.data[i]
                      IN  /\ DOMAIN r.ctx \cap DOMAIN r.data = {}
                          /\ Others!Over(r.ctx, r.data)
                               = Others!Over(Others!WholeContext(message), row)
                          /\ DOMAIN r.ctx \subseteq Others!KeyNames(message)
    BY DEF Others!RowsApart
  <1> DEFINE ctx == Others!ReportOf(message, i).ctx
             data == Others!ReportOf(message, i).data
             row == message.data[i]
             whole == Others!WholeContext(message)
             keys == Others!KeyNames(message)
  <1>1. SaysOfRow(ctx, data, row, whole, keys)
    BY ReportSays
  <1>2. DOMAIN whole \subseteq keys
    BY DEF Others!KeyNames
  <1> HIDE DEF ctx, data, row, whole, keys
  <1>3. DOMAIN ctx \cap DOMAIN data = {} /\ DOMAIN ctx \subseteq keys
        /\ DOMAIN ctx \cup DOMAIN data = DOMAIN whole \cup DOMAIN row
    BY <1>1, <1>2 DEF SaysOfRow
  <1>4. \A k \in DOMAIN ctx \cup DOMAIN data :
            Others!Over(ctx, data)[k] = Others!Over(whole, row)[k]
    BY <1>1, <1>3 DEF SaysOfRow, Others!Over
  <1>5. Others!Over(ctx, data) = Others!Over(whole, row)
    BY <1>3, <1>4, SameJoin
  <1> QED BY <1>3, <1>5 DEF ctx, data, row, whole, keys

-----------------------------------------------------------------------------
(* carbon: the parts of a message *)

\* SequencesExt, which Feeders extends, is that of this module.
LEMMA SameSetToSeq == ASSUME NEW S PROVE Others!SetToSeq(S) = SetToSeq(S)
  BY Zenon DEF Others!SetToSeq, SetToSeq, Others!Cardinality, Cardinality,
               Others!IsInjective, IsInjective

LEMMA ImageFinite ==
    ASSUME NEW S, IsFiniteSet(S), NEW f, DOMAIN f = S
    PROVE  IsFiniteSet({f[x] : x \in S})
  <1> DEFINE g == [x \in S |-> f[x]]
  <1>1. g \in Surjection(S, {f[x] : x \in S})
    BY DEF Surjection
  <1> QED BY <1>1, FS_Surjection

\* The domain and the values of a function are what it is.
LEMMA SameFunction ==
    ASSUME NEW f, NEW g, f = [k \in DOMAIN f |-> f[k]], g = [k \in DOMAIN g |-> g[k]],
           DOMAIN f = DOMAIN g, \A k \in DOMAIN f : f[k] = g[k]
    PROVE  f = g
  OBVIOUS

LEMMA ReportFunctions ==
    ASSUME NEW m, NEW i
    PROVE  LET ctx == Others!ReportOf(m, i).ctx IN ctx = [k \in DOMAIN ctx |-> ctx[k]]
  <1>1. PICK f, g : Others!ReportOf(m, i).ctx = Others!Over(f, g)
    BY DEF Others!ReportOf
  <1> QED BY <1>1 DEF Others!Over

\* The rows of the message for a worker.
PartialRows(m, n) ==
    UNION {{Others!Partial(m, r, k) : k \in {x \in DOMAIN r.data : ShardOf[x] = n}} :
            r \in Others!Reports(m)}

\* What such a row is made of.
MadeOf(p, ctx, data, k) ==
    /\ DOMAIN p = DOMAIN ctx \cup {k} /\ p[k] = data[k]
    /\ \A x \in DOMAIN ctx : p[x] = ctx[x]

LEMMA PartialMadeOf ==
    ASSUME NEW m, NEW i, NEW k \in DOMAIN Others!ReportOf(m, i).data
    PROVE  MadeOf(Others!Partial(m, Others!ReportOf(m, i), k),
                  Others!ReportOf(m, i).ctx, Others!ReportOf(m, i).data, k)
  <1> DEFINE ctx == Others!ReportOf(m, i).ctx
             data == Others!ReportOf(m, i).data
             p == Others!Partial(m, Others!ReportOf(m, i), k)
             whole == Others!WholeContext(m)
             keys == Others!KeyNames(m)
             row == m.data[i]
             f == Others!Only(ctx, keys)
             g == Others!Only(data, {k})
  <1>1. p = Others!Over(f, g)
    BY DEF Others!Partial
  <1>2. SaysOfRow(ctx, data, row, whole, keys)
    BY ReportSays
  <1>3. DOMAIN whole \subseteq keys
    BY DEF Others!KeyNames
  <1>4. k \in DOMAIN data
    OBVIOUS
  <1> HIDE DEF ctx, data, row, whole, keys, f, g, p
  <1>5. DOMAIN ctx \subseteq keys /\ k \notin DOMAIN ctx
    BY <1>2, <1>3, <1>4 DEF SaysOfRow
  <1>6. DOMAIN f = DOMAIN ctx /\ \A x \in DOMAIN ctx : f[x] = ctx[x]
    BY <1>5 DEF f, Others!Only
  <1>7. DOMAIN g = {k} /\ g[k] = data[k]
    BY <1>4 DEF g, Others!Only
  <1>8. DOMAIN p = DOMAIN ctx \cup {k} /\ p[k] = data[k]
    BY <1>1, <1>6, <1>7 DEF Others!Over
  <1>9. \A x \in DOMAIN ctx : p[x] = ctx[x]
    BY <1>1, <1>5, <1>6, <1>7 DEF Others!Over
  <1>10. MadeOf(p, ctx, data, k)
    BY <1>8, <1>9 DEF MadeOf
  <1> QED BY <1>10 DEF p, ctx, data

\* What the worker makes of it is what the supervisor made of the row it is from.
LEMMA ReadBack ==
    ASSUME NEW m, NEW n, NEW i, NEW k \in DOMAIN Others!ReportOf(m, i).data,
           NEW j, Others!Part(m, n).data[j] = Others!Partial(m, Others!ReportOf(m, i), k)
    PROVE  /\ Others!ReportOf(Others!Part(m, n), j).ctx = Others!ReportOf(m, i).ctx
           /\ DOMAIN Others!ReportOf(Others!Part(m, n), j).data = {k}
           /\ Others!ReportOf(Others!Part(m, n), j).data[k] = Others!ReportOf(m, i).data[k]
  <1> DEFINE ctx == Others!ReportOf(m, i).ctx
             data == Others!ReportOf(m, i).data
             row == m.data[i]
             whole == Others!WholeContext(m)
             keys == Others!KeyNames(m)
             part == Others!Part(m, n)
             p == part.data[j]
             ctx2 == Others!ReportOf(part, j).ctx
             data2 == Others!ReportOf(part, j).data
  <1>1. SaysOfRow(ctx, data, row, whole, keys) /\ k \in DOMAIN data
    BY ReportSays
  <1>2. MadeOf(p, ctx, data, k)
    BY PartialMadeOf
  <1>3. SaysOfRow(ctx2, data2, p, Others!WholeContext(part), Others!KeyNames(part))
    BY ReportSays
  <1>4. DOMAIN m.context \subseteq DOMAIN whole /\ DOMAIN whole \subseteq keys
    BY DEF Others!WholeContext, Others!Over, Others!KeyNames
  <1>5. part.context = m.context /\ part.keys = keys /\ part.at = None
    BY DEF Others!Part
  <1>6. ctx = [x \in DOMAIN ctx |-> ctx[x]] /\ ctx2 = [x \in DOMAIN ctx2 |-> ctx2[x]]
    BY ReportFunctions
  <1> HIDE DEF ctx, data, row, whole, keys, part, p, ctx2, data2
  <1>7. Others!WholeContext(part) = m.context /\ Others!KeyNames(part) = keys
    BY <1>4, <1>5 DEF Others!WholeContext, Others!KeyNames
  <1>8. DOMAIN ctx \subseteq keys /\ DOMAIN m.context \subseteq DOMAIN ctx /\ k \notin keys
    BY <1>1, <1>4 DEF SaysOfRow
  <1>9. DOMAIN ctx2 = DOMAIN ctx /\ \A x \in DOMAIN ctx2 : ctx2[x] = ctx[x]
    BY <1>2, <1>3, <1>7, <1>8 DEF SaysOfRow, MadeOf
  <1>10. DOMAIN data2 = {k} /\ data2[k] = data[k]
    BY <1>2, <1>3, <1>7, <1>8 DEF SaysOfRow, MadeOf
  <1>11. ctx2 = ctx
    BY <1>6, <1>9, SameFunction
  <1> QED BY <1>10, <1>11 DEF ctx, data, ctx2, data2, part

\* The data point of a field of a report.
PointOf(m, i, k) ==
    [key |-> Others!CarbonKey(Others!ReportOf(m, i).ctx, k),
     value |-> Others!ReportOf(m, i).data[k]]

LEMMA PointsAre ==
    ASSUME NEW m, NEW p
    PROVE  p \in Others!Points(m) <=>
             \E i \in DOMAIN m.data : \E k \in DOMAIN Others!ReportOf(m, i).data :
                p = PointOf(m, i, k)
  <1>1. p \in Others!Points(m) <=> \E r \in Others!Reports(m) : \E k \in DOMAIN r.data :
            p = [key |-> Others!CarbonKey(r.ctx, k), value |-> r.data[k]]
    BY DEF Others!Points
  <1> QED BY <1>1 DEF Others!Reports, PointOf

LEMMA PartialRowsAre ==
    ASSUME NEW m, NEW n, NEW p
    PROVE  p \in PartialRows(m, n) <=>
             \E i \in DOMAIN m.data : \E k \in DOMAIN Others!ReportOf(m, i).data :
                ShardOf[k] = n /\ p = Others!Partial(m, Others!ReportOf(m, i), k)
  <1>1. p \in PartialRows(m, n) <=> \E r \in Others!Reports(m) : \E k \in DOMAIN r.data :
            ShardOf[k] = n /\ p = Others!Partial(m, r, k)
    BY DEF PartialRows
  <1> QED BY <1>1 DEF Others!Reports

\* There are finitely many of them.
LEMMA PartialRowsFinite ==
    ASSUME NEW m \in Messages, NEW n
    PROVE  IsFiniteSet(PartialRows(m, n))
  <1> DEFINE Row(r, k) == Others!Partial(m, r, k)
             Fields(r) == {x \in DOMAIN r.data : ShardOf[x] = n}
             Rows(r) == {Row(r, k) : k \in Fields(r)}
             report == [i \in DOMAIN m.data |-> Others!ReportOf(m, i)]
             byReport == [r \in Others!Reports(m) |-> Rows(r)]
  <1>1. IsFiniteSet(DOMAIN m.data) /\ \A i \in DOMAIN m.data : IsFiniteSet(DOMAIN m.data[i])
    BY StoresAssumption DEF Others!MessagesAssumption, Others!IsFiniteSet, IsFiniteSet
  <1>2. Others!Reports(m) = {report[i] : i \in DOMAIN m.data}
    BY Zenon DEF Others!Reports
  <1>3. IsFiniteSet(Others!Reports(m))
    <2>1. DOMAIN report = DOMAIN m.data
      OBVIOUS
    <2> HIDE DEF report
    <2> QED BY <1>1, <1>2, <2>1, ImageFinite
  <1>4. ASSUME NEW r \in Others!Reports(m) PROVE IsFiniteSet(Rows(r))
    <2>1. PICK i \in DOMAIN m.data : r = Others!ReportOf(m, i)
      BY DEF Others!Reports
    <2>2. SaysOfRow(r.ctx, r.data, m.data[i], Others!WholeContext(m), Others!KeyNames(m))
      BY <2>1, ReportSays
    <2>3. Fields(r) \subseteq DOMAIN m.data[i]
      BY <2>2 DEF SaysOfRow
    <2>4. IsFiniteSet(Fields(r))
      BY <1>1, <2>3, FS_Subset
    <2> DEFINE row == [k \in Fields(r) |-> Row(r, k)]
    <2>5. DOMAIN row = Fields(r) /\ Rows(r) = {row[k] : k \in Fields(r)}
      OBVIOUS
    <2> HIDE DEF row, Rows, Fields
    <2> QED BY <2>4, <2>5, ImageFinite
  <1>5. PartialRows(m, n) = UNION {byReport[r] : r \in Others!Reports(m)}
    BY DEF PartialRows
  <1>6. DOMAIN byReport = Others!Reports(m) /\ \A r \in Others!Reports(m) : byReport[r] = Rows(r)
    OBVIOUS
  <1> HIDE DEF byReport, Rows
  <1>7. IsFiniteSet({byReport[r] : r \in Others!Reports(m)})
    BY <1>3, <1>6, ImageFinite
  <1> QED BY <1>4, <1>5, <1>6, <1>7, FS_UNION

\* What a worker sends of its part: the points of the message whose fields are its own.
LEMMA PartPoints ==
    ASSUME NEW m \in Messages, NEW n, NEW p
    PROVE  p \in Others!Points(Others!Part(m, n)) <=>
             \E i \in DOMAIN m.data : \E k \in DOMAIN Others!ReportOf(m, i).data :
                ShardOf[k] = n /\ p = PointOf(m, i, k)
  <1> DEFINE part == Others!Part(m, n)
  <1>1. part.data = SetToSeq(PartialRows(m, n))
    BY SameSetToSeq DEF Others!Part, PartialRows
  <1>2. \A x : x \in PartialRows(m, n) <=> \E j \in DOMAIN part.data : part.data[j] = x
    BY <1>1, PartialRowsFinite, AllInSequence
  <1>3. ASSUME NEW i \in DOMAIN m.data, NEW k \in DOMAIN Others!ReportOf(m, i).data, NEW j,
               part.data[j] = Others!Partial(m, Others!ReportOf(m, i), k)
        PROVE  /\ DOMAIN Others!ReportOf(part, j).data = {k}
               /\ PointOf(part, j, k) = PointOf(m, i, k)
    BY <1>3, ReadBack DEF PointOf
  <1> HIDE DEF part
  <1>4. ASSUME p \in Others!Points(part)
        PROVE  \E i \in DOMAIN m.data : \E k \in DOMAIN Others!ReportOf(m, i).data :
                 ShardOf[k] = n /\ p = PointOf(m, i, k)
    <2>1. PICK j \in DOMAIN part.data :
                \E l \in DOMAIN Others!ReportOf(part, j).data : p = PointOf(part, j, l)
      BY Zenon, <1>4, PointsAre
    <2>2. part.data[j] \in PartialRows(m, n)
      BY <1>2
    <2>3. PICK i \in DOMAIN m.data : \E k \in DOMAIN Others!ReportOf(m, i).data :
                ShardOf[k] = n /\ part.data[j] = Others!Partial(m, Others!ReportOf(m, i), k)
      BY <2>2, PartialRowsAre
    <2>4. PICK k \in DOMAIN Others!ReportOf(m, i).data :
                ShardOf[k] = n /\ part.data[j] = Others!Partial(m, Others!ReportOf(m, i), k)
      BY <2>3
    <2>5. /\ DOMAIN Others!ReportOf(part, j).data = {k}
          /\ PointOf(part, j, k) = PointOf(m, i, k)
      BY <1>3, <2>4
    <2>6. p = PointOf(part, j, k)
      BY <2>1, <2>5
    <2> QED BY Zenon, <2>4, <2>5, <2>6
  <1>5. ASSUME NEW i \in DOMAIN m.data, NEW k \in DOMAIN Others!ReportOf(m, i).data,
               ShardOf[k] = n, p = PointOf(m, i, k)
        PROVE  p \in Others!Points(part)
    <2>1. Others!Partial(m, Others!ReportOf(m, i), k) \in PartialRows(m, n)
      BY Zenon, <1>5, PartialRowsAre
    <2>2. PICK j \in DOMAIN part.data :
                part.data[j] = Others!Partial(m, Others!ReportOf(m, i), k)
      BY <1>2, <2>1
    <2>3. k \in DOMAIN Others!ReportOf(part, j).data /\ PointOf(part, j, k) = PointOf(m, i, k)
      BY <1>3, <2>2
    <2> QED BY Zenon, <1>5, <2>3, PointsAre
  <1> QED BY Zenon, <1>4, <1>5 DEF part

\* A worker gets the messages of its instance only.
LEMMA OwnPart ==
    ASSUME NEW m, NEW n \in Instances
    PROVE  Others!SentBy(m, n) = Others!Points(Others!Part(m, n))
  <1>1. ASSUME NEW j \in Instances PROVE Others!WorkerKey(j) = j
    <2>1. j = [host |-> j.host, port |-> j.port] /\ j.port \in Nat /\ PortOffset \in Nat
      BY StoresAssumption DEF Others!FeedersAssumption
    <2>2. (j.port + PortOffset) - PortOffset = j.port
      BY <2>1
    <2>3. Others!WorkerKey(j) = [j EXCEPT !.port = j.port]
      BY <2>2 DEF Others!WorkerKey
    <2> QED BY <2>1, <2>3
  <1>2. {j \in Instances : Others!WorkerKey(j) = n} = {n}
    BY <1>1
  <1> QED BY <1>2 DEF Others!SentBy

\* The parts of any message make the whole of it.
LEMMA PartsOfMessage == ASSUME message \in Messages PROVE Others!PartsMakeTheWhole
  <1> DEFINE IsOf(p, n) == \E i \in DOMAIN message.data :
                             \E k \in DOMAIN Others!ReportOf(message, i).data :
                                ShardOf[k] = n /\ p = PointOf(message, i, k)
  <1>1. \A n \in Instances : \A p : p \in Others!SentBy(message, n) <=> IsOf(p, n)
    BY OwnPart, PartPoints
  <1>2. ASSUME NEW i \in DOMAIN message.data,
               NEW k \in DOMAIN Others!ReportOf(message, i).data
        PROVE  ShardOf[k] \in Instances
    <2>1. SaysOfRow(Others!ReportOf(message, i).ctx, Others!ReportOf(message, i).data,
                    message.data[i], Others!WholeContext(message), Others!KeyNames(message))
      BY ReportSays
    <2>2. k \in DOMAIN message.data[i] \ Others!KeyNames(message)
      BY <2>1 DEF SaysOfRow
    <2> QED BY <2>2, StoresAssumption DEF Others!MessagesAssumption
  <1>3. ASSUME NEW p PROVE p \in Others!Points(message) <=> \E n \in Instances : IsOf(p, n)
    BY <1>2, PointsAre
  <1>4. UNION {Others!SentBy(message, n) : n \in Instances} = Others!Points(message)
    <2> HIDE DEF IsOf
    <2> QED BY <1>1, <1>3
  <1>5. ASSUME NEW n \in Instances, NEW p \in Others!SentBy(message, n)
        PROVE  ShardOf[p.key.metric] = n
    <2>1. PICK k : ShardOf[k] = n /\ \E i : p = PointOf(message, i, k)
      BY <1>1
    <2>2. p.key.metric = k
      BY <2>1 DEF PointOf, Others!CarbonKey
    <2> QED BY <2>1, <2>2
  <1> QED BY <1>4, <1>5 DEF Others!PartsMakeTheWhole

-----------------------------------------------------------------------------
(* carbon: the workers *)

\* A slot is alive if its one worker is.
ShardInv ==
    /\ message \in Messages /\ faults \in Nat
    /\ DOMAIN workers = Instances /\ DOMAIN processes = Instances
    /\ \A i \in Instances : processes[i] = IF workers[i] = "alive" THEN 1 ELSE 0

\* What a turn of the manager's loop does.
LEMMA LoopServes ==
    ASSUME ShardInv, Others!Loop
    PROVE  /\ ShardInv'
           /\ faults' = faults => \A i \in Instances : processes'[i] = 1
  <1> DEFINE due == {i \in Instances : workers[i] # "alive"}
  <1>1. PICK started \in SUBSET due :
          /\ faults' = faults + Cardinality(due \ started)
          /\ workers' = [i \in Instances |->
                IF i \in started THEN "alive" ELSE IF i \in due THEN "dead" ELSE workers[i]]
          /\ processes' = [i \in Instances |-> processes[i] + IF i \in started THEN 1 ELSE 0]
    <2>1. \A S : Others!Cardinality(S) = Cardinality(S)
      BY Zenon DEF Others!Cardinality, Cardinality
    <2>2. \E started \in SUBSET due :
            /\ faults' = faults + Others!Cardinality(due \ started)
            /\ workers' = [i \in Instances |->
                  IF i \in started THEN "alive" ELSE IF i \in due THEN "dead" ELSE workers[i]]
            /\ processes' = [i \in Instances |-> processes[i] + IF i \in started THEN 1 ELSE 0]
      BY Zenon DEF Others!Loop, Others!Startable
    <2> HIDE DEF due
    <2> QED BY <2>1, <2>2
  <1>2. message' = message
    BY Zenon DEF Others!Loop
  <1>3. IsFiniteSet(due \ started) /\ Cardinality(due \ started) \in Nat
    <2>1. IsFiniteSet(Instances)
      BY Zenon, StoresAssumption DEF Others!FeedersAssumption, Others!IsFiniteSet, IsFiniteSet
    <2>2. due \ started \subseteq Instances
      OBVIOUS
    <2> QED BY <2>1, <2>2, FS_Subset, FS_CardinalityType
  <1>4. faults' \in Nat /\ (faults' = faults => due \ started = {})
    BY <1>1, <1>3, FS_EmptySet DEF ShardInv
  <1>5. \A i \in Instances : processes'[i] = IF workers'[i] = "alive" THEN 1 ELSE 0
    BY <1>1 DEF ShardInv
  <1>6. DOMAIN workers' = Instances /\ DOMAIN processes' = Instances
    BY <1>1
  <1>7. faults' = faults => \A i \in Instances : workers'[i] = "alive"
    BY <1>1, <1>4
  <1> QED BY <1>2, <1>4, <1>5, <1>6, <1>7 DEF ShardInv

LEMMA ShardStep ==
    ShardInv /\ [Others!Next]_(Others!vars) =>
        ShardInv' /\ [Others!Loop /\ faults' = faults
                        => \A i \in Instances : processes'[i] = 1]_(Others!vars)
  <1> SUFFICES ASSUME ShardInv, [Others!Next]_(Others!vars)
               PROVE  ShardInv' /\ (Others!Loop /\ faults' = faults
                                      => \A i \in Instances : processes'[i] = 1)
    OBVIOUS
  <1>1. ASSUME NEW i \in Instances, Others!Dies(i) PROVE ShardInv'
    <2>1. /\ workers[i] = "alive" /\ faults' = faults + 1 /\ message' = message
          /\ workers' = [workers EXCEPT ![i] = "dead"]
          /\ processes' = [processes EXCEPT ![i] = @ - 1]
      BY Zenon, <1>1 DEF Others!Dies
    <2> QED BY <2>1 DEF ShardInv
  <1>2. ASSUME Others!InfluxSave PROVE ShardInv'
    <2>1. faults' \in Nat
      <3>1. \/ faults' = faults
            \/ \E arrived \in {"answered", "unanswered", "lost"} :
                  faults' = faults + (IF arrived = "answered" THEN 0 ELSE 1)
        BY Zenon, <1>2 DEF Others!InfluxSave
      <3> QED BY <3>1 DEF ShardInv
    <2>2. message' = message /\ workers' = workers /\ processes' = processes
      BY Zenon, <1>2 DEF Others!InfluxSave, Others!carbon
    <2> QED BY <2>1, <2>2 DEF ShardInv
  <1>3. ASSUME message' = message, workers' = workers, processes' = processes, faults' = faults
        PROVE  ShardInv'
    BY <1>3 DEF ShardInv
  <1>4. Others!RedisSave \/ Others!Tick \/ UNCHANGED Others!vars =>
          message' = message /\ workers' = workers /\ processes' = processes /\ faults' = faults
    BY Zenon DEF Others!RedisSave, Others!Tick, Others!vars, Others!carbon
  <1>5. ShardInv'
    BY Zenon, <1>1, <1>2, <1>3, <1>4, LoopServes DEF Others!Next
  <1> QED BY <1>5, LoopServes

\* Of any messages: their rows are kept apart, the parts for the workers of carbon make
\* the whole, and each instance has one worker after a turn of the manager's loop without
\* a failure (Feeder._process_task, MultiCarbonSupervisor.process_task and
\* MultiCarbonManager.start), for any instances and any hash ring.
THEOREM MessagesAlwaysServed == Others!Spec => MessagesServed
  <1>1. Others!Init => ShardInv
    BY DEF Others!Init, ShardInv
  <1>2. ShardInv => Others!RowsApart /\ Others!PartsMakeTheWhole
    BY RowsKeptApart, PartsOfMessage DEF ShardInv
  <1> QED BY <1>1, <1>2, ShardStep, PTL
          DEF Others!Spec, MessagesServed, Others!EveryShardServed

-----------------------------------------------------------------------------
(* The older workers: the rows after some statements *)

\* What a fold over the positions of a sequence computes, on each set of them: g is the
\* function that Commit folds with.
OldBody(g, rs, ops, s) ==
    IF s = {} THEN rs ELSE Older!Execute(g[s \ {Max(s)}], ops[Max(s)])
OldUnfolds(g, rs, ops, n) == g = [s \in SUBSET (1 .. n) |-> OldBody(g, rs, ops, s)]

LEMMA SameMax == ASSUME NEW S PROVE Older!Max(S) = Max(S)
  BY Zenon DEF Older!Max, Max

LEMMA FoldUnfolds ==
    ASSUME NEW rs, NEW ops, NEW n \in Nat, DOMAIN ops = 1 .. n
    PROVE  \E g : OldUnfolds(g, rs, ops, n) /\ Older!FoldLeft(Older!Execute, rs, ops) = g[1 .. n]
  <1> DEFINE HasIter(k) == \E g : OldUnfolds(g, rs, ops, k)
  <1>1. HasIter(0)
    <2> DEFINE g == [s \in SUBSET (1 .. 0) |-> rs]
    <2>1. g = [s \in SUBSET (1 .. 0) |-> OldBody(g, rs, ops, s)]
      BY DEF OldBody
    <2> QED BY <2>1 DEF OldUnfolds
  <1>2. ASSUME NEW k \in 0 .. n, k # n, HasIter(k) PROVE HasIter(k + 1)
    <2>1. PICK g : g = [s \in SUBSET (1 .. k) |-> OldBody(g, rs, ops, s)]
      BY <1>2 DEF OldUnfolds
    <2> DEFINE h == [s \in SUBSET (1 .. k + 1) |->
                        IF k + 1 \in s THEN Older!Execute(g[s \ {k + 1}], ops[k + 1]) ELSE g[s]]
    <2>2. ASSUME NEW s \in SUBSET (1 .. k + 1) PROVE h[s] = OldBody(h, rs, ops, s)
      <3>1. CASE k + 1 \in s
        <4>1. Max(s) = k + 1
          <5>1. k + 1 \in Nat /\ s # {}
            BY <3>1
          <5>2. Max(s) \in s /\ \A x \in s : Max(s) >= x
            BY <5>1, Largest
          <5>3. Max(s) \in 1 .. k + 1 /\ Max(s) >= k + 1
            BY <3>1, <5>2
          <5> QED BY <5>3
        <4>2. h[s] = Older!Execute(g[s \ {k + 1}], ops[k + 1])
          BY <3>1
        <4>3. s \ {k + 1} \in SUBSET (1 .. k + 1) /\ k + 1 \notin s \ {k + 1}
          OBVIOUS
        <4>4. h[s \ {k + 1}] = g[s \ {k + 1}]
          BY <4>3
        <4> HIDE DEF h
        <4> QED BY <3>1, <4>1, <4>2, <4>4 DEF OldBody
      <3>2. CASE k + 1 \notin s
        <4>1. s \in SUBSET (1 .. k)
          BY <3>2
        <4>2. h[s] = OldBody(g, rs, ops, s)
          BY <2>1, <3>2, <4>1
        <4>3. CASE s = {}
          BY <4>2, <4>3 DEF OldBody
        <4>4. CASE s # {}
          <5>1. s \ {Max(s)} \in SUBSET (1 .. k + 1) /\ k + 1 \notin s \ {Max(s)}
            BY <3>2
          <5>2. h[s \ {Max(s)}] = g[s \ {Max(s)}]
            BY <5>1
          <5> HIDE DEF h
          <5> QED BY <4>2, <4>4, <5>2 DEF OldBody
        <4> QED BY <4>3, <4>4
      <3> QED BY <3>1, <3>2
    <2>3. h = [s \in SUBSET (1 .. k + 1) |-> OldBody(h, rs, ops, s)]
      <3> HIDE DEF OldBody
      <3> QED BY <2>2
    <2> QED BY <2>3 DEF OldUnfolds
  <1>3. HasIter(n)
    <2> HIDE DEF HasIter
    <2> SUFFICES ASSUME ~HasIter(n) PROVE FALSE
      OBVIOUS
    <2> DEFINE Bad == {k \in 0 .. n : ~HasIter(k)}
    <2>1. n \in Bad /\ Bad \in SUBSET Nat
      OBVIOUS
    <2>2. PICK d \in Bad : \A x \in Bad : d <= x
      BY <2>1, SmallestNat
    <2>3. d # 0 /\ d \in 0 .. n
      BY <1>1, <2>2
    <2>4. d - 1 \in 0 .. n /\ d - 1 \notin Bad /\ d - 1 # n
      BY <2>2, <2>3
    <2>5. HasIter(d)
      <3>1. HasIter((d - 1) + 1)
        BY <1>2, <2>4
      <3> QED BY <2>3, <3>1
    <2> QED BY <2>2, <2>5
  <1>4. Older!FoldLeft(Older!Execute, rs, ops)
          = (CHOOSE g : g = [s \in SUBSET (1 .. n) |-> OldBody(g, rs, ops, s)])[1 .. n]
    BY SameMax DEF Older!FoldLeft, Older!MapThenFoldSet, OldBody
  <1> DEFINE it == CHOOSE g : g = [s \in SUBSET (1 .. n) |-> OldBody(g, rs, ops, s)]
  <1>5. it = [s \in SUBSET (1 .. n) |-> OldBody(it, rs, ops, s)]
    BY <1>3 DEF OldUnfolds
  <1> QED BY <1>4, <1>5 DEF OldUnfolds

\* What the fold has at the first k + 1 positions.
LEMMA OldUnfoldsNext ==
    ASSUME NEW rs, NEW ops, NEW n \in Nat, NEW g, OldUnfolds(g, rs, ops, n),
           NEW k \in 0 .. n, k # n
    PROVE  g[1 .. k + 1] = Older!Execute(g[1 .. k], ops[k + 1])
  <1>1. /\ k \in Nat /\ k + 1 \in Nat /\ k + 1 \in 1 .. n
        /\ 1 .. k + 1 \in SUBSET (1 .. n) /\ 1 .. k + 1 # {}
    OBVIOUS
  <1>2. Max(1 .. k + 1) = k + 1
    <2>1. \A S \in SUBSET (1 .. k + 1) :
              S # {} => Max(S) \in S /\ \A x \in S : Max(S) >= x
      BY <1>1, Largest
    <2>2. k + 1 \in 1 .. k + 1
      BY <1>1
    <2>3. Max(1 .. k + 1) \in 1 .. k + 1 /\ Max(1 .. k + 1) >= k + 1
      BY <2>1, <2>2
    <2> QED BY <1>1, <2>3
  <1>3. (1 .. k + 1) \ {k + 1} = 1 .. k
    BY <1>1
  <1> QED BY <1>1, <1>2, <1>3 DEF OldBody, OldUnfolds

\* And at none of them.
LEMMA OldUnfoldsFirst ==
    ASSUME NEW rs, NEW ops, NEW n \in Nat, NEW g, OldUnfolds(g, rs, ops, n)
    PROVE  g[1 .. 0] = rs
  <1>1. 1 .. 0 = {} /\ {} \in SUBSET (1 .. n)
    OBVIOUS
  <1> QED BY <1>1 DEF OldBody, OldUnfolds

\* Rows that can be told apart, and their ids.
OldRow(r) == DOMAIN r = {"id", "table", "created", "updated", "context", "data"}
IdsOf(rs) == {r.id : r \in rs}
Apart(rs) == \A q, r \in rs : q.id = r.id => q = r

\* A statement of a message of some time: it inserts a row with an id of its own, touches
\* rows or replaces one that there is.
OldOp(op, time) ==
    \/ /\ op.do = "insert" /\ OldRow(op.row)
       /\ op.row.id \notin IdsOf(rows) /\ op.row.created = time
    \/ op.do = "touch"
    \/ op.do = "replace" /\ op.row.id \in IdsOf(rows) /\ op.time = time

InsertedBy(ops) == {ops[i].row.id : i \in Insertions(ops)}

OldOps(ops, time) ==
    /\ IsSeq(ops)
    /\ \A i \in DOMAIN ops : OldOp(ops[i], time)
    /\ \A i, j \in Insertions(ops) : ops[i].row.id = ops[j].row.id => i = j

\* What became of the rows by the first k statements: a row was inserted, is of the
\* same time of creation as one there was before, or has been replaced.
Inserted(r, ops, k, time) ==
    r.created = time /\ \E i \in Insertions(ops) : i <= k /\ ops[i].row.id = r.id
ReplacedUpTo(id, ops, k) ==
    \E i \in Older!Replacements(ops) : i <= k /\ ops[i].row.id = id
Kept(r, ops, k, time) ==
    \E q \in rows : /\ q.id = r.id
                    /\ IF ReplacedUpTo(r.id, ops, k) THEN r.created = time
                       ELSE r.created = q.created

OldBecome(rs, ops, k, time) ==
    /\ Apart(rs) /\ IsFiniteSet(rs)
    /\ \A r \in rs : OldRow(r) /\ (Inserted(r, ops, k, time) \/ Kept(r, ops, k, time))
    /\ IdsOf(rs) = IdsOf(rows) \cup {ops[i].row.id : i \in {j \in Insertions(ops) : j <= k}}

\* A statement that changes rows where they are.
LEMMA ChangedRows ==
    ASSUME NEW ops, NEW time, OldOps(ops, time), NEW k \in Nat, k + 1 \in DOMAIN ops,
           ops[k + 1].do # "insert",
           NEW rs, OldBecome(rs, ops, k, time), NEW g, g = [r \in rs |-> g[r]],
           \A r \in rs : OldRow(g[r]) /\ g[r].id = r.id,
           \A r \in rs : g[r].created = IF /\ ops[k + 1].do = "replace"
                                           /\ ops[k + 1].row.id = r.id
                                        THEN time ELSE r.created
    PROVE  OldBecome({g[r] : r \in rs}, ops, k + 1, time)
  <1> DEFINE after == {g[r] : r \in rs}
  <1>1. Apart(after)
    BY DEF OldBecome, Apart
  <1>2. IdsOf(after) = IdsOf(rs)
    BY DEF IdsOf
  <1>3. {j \in Insertions(ops) : j <= k + 1} = {j \in Insertions(ops) : j <= k}
    <2>1. k + 1 \notin Insertions(ops) /\ Insertions(ops) \subseteq Nat
      BY DEF Insertions, OldOps, IsSeq
    <2> QED BY <2>1
  <1>4. IdsOf(after) = IdsOf(rows) \cup {ops[i].row.id : i \in {j \in Insertions(ops) : j <= k + 1}}
    BY <1>2, <1>3 DEF OldBecome
  <1>5. ASSUME NEW r \in rs
        PROVE  Inserted(g[r], ops, k + 1, time) \/ Kept(g[r], ops, k + 1, time)
    <2>1. CASE Inserted(r, ops, k, time)
      <3>1. PICK i \in Insertions(ops) : i <= k /\ ops[i].row.id = r.id
        BY <2>1 DEF Inserted
      <3>2. r.id \notin IdsOf(rows) /\ i \in Nat
        BY <3>1 DEF OldOps, OldOp, Insertions, IsSeq
      <3>3. ops[k + 1].do = "replace" => ops[k + 1].row.id # r.id
        BY <3>2 DEF OldOps, OldOp
      <3>4. g[r].id = r.id /\ g[r].created = time /\ i <= k + 1
        BY <2>1, <3>1, <3>2, <3>3 DEF Inserted
      <3> QED BY <3>1, <3>4 DEF Inserted
    <2>2. CASE Kept(r, ops, k, time)
      <3>1. PICK q \in rows : /\ q.id = r.id
                              /\ IF ReplacedUpTo(r.id, ops, k) THEN r.created = time
                                 ELSE r.created = q.created
        BY <2>2 DEF Kept
      <3>2. Older!Replacements(ops) \subseteq Nat
        BY DEF Older!Replacements, OldOps, IsSeq
      <3>3. ReplacedUpTo(r.id, ops, k + 1)
              <=> \/ ReplacedUpTo(r.id, ops, k)
                  \/ ops[k + 1].do = "replace" /\ ops[k + 1].row.id = r.id
        BY <3>2 DEF ReplacedUpTo, Older!Replacements
      <3>4. g[r].id = r.id
        OBVIOUS
      <3>5. IF ReplacedUpTo(r.id, ops, k + 1) THEN g[r].created = time
            ELSE g[r].created = q.created
        BY <3>1, <3>3
      <3> QED BY <3>1, <3>4, <3>5 DEF Kept
    <2> QED BY <2>1, <2>2 DEF OldBecome
  <1>6. IsFiniteSet(after)
    BY ImageFinite DEF OldBecome
  <1> QED BY <1>1, <1>4, <1>5, <1>6 DEF OldBecome

\* A new row.
LEMMA InsertedRow ==
    ASSUME NEW ops, NEW time, OldOps(ops, time), NEW k \in Nat, k + 1 \in DOMAIN ops,
           ops[k + 1].do = "insert", NEW rs, OldBecome(rs, ops, k, time)
    PROVE  OldBecome(rs \cup {ops[k + 1].row}, ops, k + 1, time)
  <1> DEFINE row == ops[k + 1].row
  <1>1. /\ OldRow(row) /\ row.id \notin IdsOf(rows) /\ row.created = time
        /\ k + 1 \in Insertions(ops) /\ Insertions(ops) \subseteq Nat
    BY DEF OldOps, OldOp, Insertions, IsSeq
  <1>2. \A i \in Insertions(ops) : ops[i].row.id = row.id => i = k + 1
    BY <1>1 DEF OldOps
  <1>3. row.id \notin IdsOf(rs)
    BY <1>1, <1>2 DEF OldBecome
  <1>4. IdsOf(rs \cup {row}) = IdsOf(rs) \cup {row.id}
    BY DEF IdsOf
  <1>5. {j \in Insertions(ops) : j <= k + 1} = {j \in Insertions(ops) : j <= k} \cup {k + 1}
    BY <1>1
  <1>6. Apart(rs \cup {row})
    BY <1>3 DEF OldBecome, Apart, IdsOf
  <1>7. ASSUME NEW r \in rs
        PROVE  Inserted(r, ops, k + 1, time) \/ Kept(r, ops, k + 1, time)
    <2>1. CASE Inserted(r, ops, k, time)
      BY <1>1, <2>1 DEF Inserted
    <2>2. CASE Kept(r, ops, k, time)
      <3>1. ReplacedUpTo(r.id, ops, k + 1) <=> ReplacedUpTo(r.id, ops, k)
        <4>1. k + 1 \notin Older!Replacements(ops) /\ Older!Replacements(ops) \subseteq Nat
          BY DEF Older!Replacements, OldOps, IsSeq
        <4> QED BY <4>1 DEF ReplacedUpTo
      <3> QED BY <2>2, <3>1 DEF Kept
    <2> QED BY <2>1, <2>2 DEF OldBecome
  <1>8. Inserted(row, ops, k + 1, time)
    BY <1>1 DEF Inserted
  <1>9. IdsOf(rs \cup {row})
          = IdsOf(rows) \cup {ops[i].row.id : i \in {j \in Insertions(ops) : j <= k + 1}}
    BY <1>4, <1>5 DEF OldBecome
  <1>10. IsFiniteSet(rs \cup {row})
    BY FS_AddElement DEF OldBecome
  <1> HIDE DEF row
  <1> QED BY <1>1, <1>6, <1>7, <1>8, <1>9, <1>10 DEF OldBecome, row

LEMMA ExecutedOps ==
    ASSUME NEW ops, NEW time, OldOps(ops, time), NEW k \in Nat, k + 1 \in DOMAIN ops,
           NEW rs, OldBecome(rs, ops, k, time)
    PROVE  OldBecome(Older!Execute(rs, ops[k + 1]), ops, k + 1, time)
  <1> DEFINE op == ops[k + 1]
  <1>1. OldOp(op, time) /\ \A r \in rs : OldRow(r)
    BY DEF OldOps, OldBecome
  <1>2. CASE op.do = "insert"
    BY <1>2, InsertedRow DEF Older!Execute
  <1>3. CASE op.do = "touch"
    <2> DEFINE g == [r \in rs |->
                       IF r.id \in op.ids THEN [r EXCEPT !.updated = op.time] ELSE r]
    <2>1. ASSUME NEW r \in rs
          PROVE  OldRow(g[r]) /\ g[r].id = r.id /\ g[r].created = r.created
      BY <1>1 DEF OldRow
    <2>2. g = [r \in rs |-> g[r]]
      OBVIOUS
    <2>3. Older!Execute(rs, op) = {g[r] : r \in rs}
      BY <1>3 DEF Older!Execute
    <2> HIDE DEF g
    <2> QED BY <1>3, <2>1, <2>2, <2>3, ChangedRows
  <1>4. CASE op.do = "replace"
    <2> DEFINE g == [r \in rs |->
                       IF r.id = op.row.id
                       THEN [r EXCEPT !.created = op.time, !.updated = op.time,
                                      !.context = op.doc.context, !.data = op.doc.data]
                       ELSE r]
    <2>1. ASSUME NEW r \in rs
          PROVE  /\ OldRow(g[r]) /\ g[r].id = r.id
                 /\ g[r].created = IF op.row.id = r.id THEN time ELSE r.created
      BY <1>1, <1>4 DEF OldRow, OldOp
    <2>2. g = [r \in rs |-> g[r]]
      OBVIOUS
    <2>3. Older!Execute(rs, op) = {g[r] : r \in rs}
      BY <1>4 DEF Older!Execute
    <2> HIDE DEF g
    <2> QED BY <1>4, <2>1, <2>2, <2>3, ChangedRows
  <1> QED BY <1>1, <1>2, <1>3, <1>4 DEF OldOp

\* The rows as a transaction sees them, and leaves them.
Pending(rs, ops) == Older!FoldLeft(Older!Execute, rs, ops)

LEMMA OldViewed ==
    ASSUME Apart(rows), IsFiniteSet(rows), \A r \in rows : OldRow(r),
           NEW ops, NEW time, OldOps(ops, time)
    PROVE  OldBecome(Pending(rows, ops), ops, Len(ops), time)
  <1> DEFINE n == Len(ops)
  <1>1. n \in Nat /\ DOMAIN ops = 1 .. n
    BY DEF OldOps, IsSeq
  <1> HIDE DEF n
  <1>2. PICK g : OldUnfolds(g, rows, ops, n) /\ Pending(rows, ops) = g[1 .. n]
    BY <1>1, FoldUnfolds DEF Pending
  <1> DEFINE Ok(k) == OldBecome(g[1 .. k], ops, k, time)
  <1>3. Ok(0)
    <2>1. g[1 .. 0] = rows
      BY <1>1, <1>2, OldUnfoldsFirst
    <2>2. \A i \in DOMAIN ops : i \in Nat /\ ~(i <= 0)
      BY <1>1
    <2>3. {j \in Insertions(ops) : j <= 0} = {} /\ \A id : ~ReplacedUpTo(id, ops, 0)
      BY <2>2 DEF Insertions, ReplacedUpTo, Older!Replacements
    <2> QED BY <2>1, <2>3 DEF OldBecome, Kept
  <1>4. ASSUME NEW k \in 0 .. n, k # n, Ok(k) PROVE Ok(k + 1)
    <2>1. g[1 .. k + 1] = Older!Execute(g[1 .. k], ops[k + 1])
      BY <1>1, <1>2, <1>4, OldUnfoldsNext
    <2>2. k \in Nat /\ k + 1 \in DOMAIN ops
      BY <1>1, <1>4
    <2>3. OldBecome(Older!Execute(g[1 .. k], ops[k + 1]), ops, k + 1, time)
      BY <1>4, <2>2, ExecutedOps
    <2> QED BY <2>1, <2>3
  <1>5. Ok(n)
    <2> HIDE DEF Ok
    <2> SUFFICES ASSUME ~Ok(n) PROVE FALSE
      OBVIOUS
    <2> DEFINE Bad == {k \in 0 .. n : ~Ok(k)}
    <2>1. n \in Bad /\ Bad \in SUBSET Nat
      BY <1>1
    <2>2. PICK d \in Bad : \A x \in Bad : d <= x
      BY <2>1, SmallestNat
    <2>3. d # 0 /\ d \in 0 .. n
      BY <1>3, <2>2
    <2>4. d - 1 \in 0 .. n /\ d - 1 \notin Bad /\ d - 1 # n
      BY <1>1, <2>2, <2>3
    <2>5. Ok((d - 1) + 1)
      BY <1>4, <2>4
    <2> QED BY <2>2, <2>3, <2>5
  <1> QED BY <1>2, <1>5 DEF n

LEMMA OldCommitted ==
    ASSUME Apart(rows), IsFiniteSet(rows), \A r \in rows : OldRow(r),
           NEW ops, NEW time, OldOps(ops, time), Older!Commit(ops)
    PROVE  OldBecome(rows', ops, Len(ops), time)
  BY OldViewed DEF Pending, Older!Commit

-----------------------------------------------------------------------------
(* The older workers: the inductive invariant *)

OldRowsSound ==
    /\ clock \in Nat /\ nextId \in Nat /\ Apart(rows) /\ IsFiniteSet(rows)
    /\ \A r \in rows : /\ OldRow(r) /\ r.id \in Nat /\ r.id < nextId
                       /\ r.created \in Nat /\ r.created <= clock

\* The entries of a row tile the time until it was created anew.
TiledTo(id, time) ==
    /\ \A e \in history : e.id = id =>
          /\ e.created \in Nat /\ e.created < time
          /\ e.updated = time
                \/ \E d \in history : d.id = id /\ d.created = e.updated /\ d # e
    /\ \A d, e \in history : d.id = id /\ e.id = id /\ d.created = e.created => d = e

HistorySound ==
    /\ \A e \in history : e.id \in IdsOf(rows)
    /\ \A r \in rows : r.id \notin stale => TiledTo(r.id, r.created)

\* What a feeder looked up is from before its message, and what it is to do, whenever it
\* commits, is to rows of its own or to some that it looked up.
Known(s, c) == OldRow(c) /\ c.id \in IdsOf(rows) /\ c.created \in Nat /\ c.created < s.time

OldFeederFields == DOMAIN Older!Fresh
OldFeederSound(f) ==
    LET s == feeder[f] IN
    /\ DOMAIN s = OldFeederFields
    /\ s.pc = "idle" => s.ops = <<>>
    /\ s.time \in Nat /\ s.time <= clock
    /\ \A c \in s.cache : Known(s, c)
    /\ OldOps(s.ops, s.time)
    /\ \A i \in Insertions(s.ops) : s.ops[i].row.id \in Nat /\ s.ops[i].row.id < nextId
    /\ \A i \in Older!Replacements(s.ops) : s.ops[i].row \in s.cache

\* No two feeders are to insert rows of the same id.
OwnRows ==
    \A f, g \in Feeders :
        InsertedBy(feeder[f].ops) \cap InsertedBy(feeder[g].ops) # {} => f = g

OldInv ==
    /\ OldRowsSound /\ HistorySound
    /\ DOMAIN feeder = Feeders /\ (\A f \in Feeders : OldFeederSound(f)) /\ OwnRows

-----------------------------------------------------------------------------
(* The older workers: a commit *)

\* What the statements of a feeder do to the history of a row.
NewEntries(id, ops) == {Older!Entry(ops[i]) : i \in {j \in Older!Replacements(ops) :
                                                        ops[j].row.id = id}}

LEMMA EntriesOf ==
    ASSUME NEW ops, Older!Commit(ops), NEW e
    PROVE  /\ e \in history' <=> e \in history \/ e \in NewEntries(e.id, ops)
           /\ e \in NewEntries(e.id, ops) =>
                \E i \in Older!Replacements(ops) : ops[i].row.id = e.id /\ e = Older!Entry(ops[i])
  <1>1. history' = history \cup {Older!Entry(op) : op \in Older!Replaced(ops)}
    BY DEF Older!Commit
  <1>2. \A i \in Older!Replacements(ops) : Older!Entry(ops[i]).id = ops[i].row.id
    BY DEF Older!Entry
  <1>3. {Older!Entry(op) : op \in Older!Replaced(ops)}
          = {Older!Entry(ops[i]) : i \in Older!Replacements(ops)}
    BY DEF Older!Replaced
  <1> QED BY <1>1, <1>2, <1>3 DEF NewEntries

\* A row that no statement replaces keeps its history.
LEMMA NotReplaced ==
    ASSUME NEW ops, Older!Commit(ops), NEW id, NEW time,
           \A i \in Older!Replacements(ops) : ops[i].row.id # id,
           TiledTo(id, time)
    PROVE  TiledTo(id, time)'
  <1>1. \A e : e.id = id => (e \in history' <=> e \in history)
    BY EntriesOf
  <1> QED BY <1>1 DEF TiledTo

\* The one statement that replaces a row in the state it is in adds the entry that was
\* missing.
LEMMA ReplacedOnce ==
    ASSUME NEW ops, Older!Commit(ops), NEW i \in Older!Replacements(ops), NEW time \in Nat,
           ops[i].time = time, ops[i].row.created \in Nat, ops[i].row.created < time,
           \A j \in Older!Replacements(ops) : ops[j].row.id = ops[i].row.id => j = i,
           TiledTo(ops[i].row.id, ops[i].row.created)
    PROVE  TiledTo(ops[i].row.id, time)'
  <1> DEFINE id == ops[i].row.id
             n == Older!Entry(ops[i])
  <1>1. n.id = id /\ n.created = ops[i].row.created /\ n.updated = time
    BY DEF Older!Entry
  <1>2. n \in NewEntries(id, ops)
    BY DEF NewEntries
  <1>3. n \in history'
    BY <1>1, <1>2, EntriesOf
  <1>4. \A e : e.id = id => (e \in history' <=> e \in history \/ e = n)
    BY <1>3, EntriesOf
  <1> DEFINE was == ops[i].row.created
  <1> HIDE DEF n, id
  <1>5. /\ \A e \in history : e.id = id =>
              /\ e.created \in Nat /\ e.created < was
              /\ e.updated = was
                    \/ \E d \in history : d.id = id /\ d.created = e.updated /\ d # e
        /\ \A d, e \in history : d.id = id /\ e.id = id /\ d.created = e.created => d = e
    BY DEF TiledTo, id
  <1>6. was \in Nat /\ was < time /\ n.created = was
    BY <1>1
  <1> HIDE DEF was
  <1>7. ASSUME NEW e \in history', e.id = id
        PROVE  /\ e.created \in Nat /\ e.created < time
               /\ e.updated = time
                    \/ \E d \in history' : d.id = id /\ d.created = e.updated /\ d # e
    <2>1. CASE e = n
      BY <1>1, <1>6, <2>1
    <2>2. CASE e # n
      <3>1. e \in history
        BY <1>4, <1>7, <2>2
      <3>2. e.created \in Nat /\ e.created < was
        BY <1>5, <1>7, <3>1
      <3>3. CASE e.updated = was
        BY <1>1, <1>3, <1>6, <2>2, <3>2, <3>3
      <3>4. CASE e.updated # was
        <4>1. PICK d \in history : d.id = id /\ d.created = e.updated /\ d # e
          BY <1>5, <1>7, <3>1, <3>4
        <4>2. d \in history'
          BY <1>4, <4>1
        <4> QED BY <1>6, <3>2, <4>1, <4>2
      <3> QED BY <3>3, <3>4
    <2> QED BY <2>1, <2>2
  <1>8. ASSUME NEW d \in history', NEW e \in history', d.id = id, e.id = id,
               d.created = e.created
        PROVE  d = e
    <2>1. \A x \in history : x.id = id => x.created # was
      BY <1>5, <1>6
    <2>2. (d \in history \/ d = n) /\ (e \in history \/ e = n)
      BY <1>4, <1>8
    <2> QED BY <1>5, <1>6, <1>8, <2>1, <2>2
  <1> QED BY <1>7, <1>8 DEF TiledTo, id

LEMMA CommitTiles ==
    ASSUME OldRowsSound, HistorySound, NEW ops, NEW time \in Nat, time <= clock,
           OldOps(ops, time), Older!Commit(ops), clock' = clock, nextId' = nextId,
           \A i \in Insertions(ops) : ops[i].row.id \in Nat /\ ops[i].row.id < nextId,
           \A i \in Older!Replacements(ops) :
              ops[i].row.created \in Nat /\ ops[i].row.created < time
    PROVE  OldRowsSound' /\ HistorySound' /\ IdsOf(rows') = IdsOf(rows) \cup InsertedBy(ops)
  <1> DEFINE n == Len(ops)
  <1>1. OldBecome(rows', ops, n, time)
    BY OldCommitted DEF OldRowsSound
  <1>2. Insertions(ops) \subseteq 1 .. n /\ Older!Replacements(ops) \subseteq 1 .. n /\ n \in Nat
    BY DEF Insertions, Older!Replacements, OldOps, IsSeq
  <1> HIDE DEF n
  <1>3. IdsOf(rows') = IdsOf(rows) \cup InsertedBy(ops)
    <2>1. {j \in Insertions(ops) : j <= n} = Insertions(ops)
      BY <1>2
    <2> QED BY <1>1, <2>1 DEF OldBecome, InsertedBy
  <1>4. ASSUME NEW r \in rows', Inserted(r, ops, n, time)
        PROVE  r.id \in Nat /\ r.id < nextId /\ r.created = time /\ r.id \notin IdsOf(rows)
    <2>1. PICK i \in Insertions(ops) : ops[i].row.id = r.id
      BY <1>4 DEF Inserted
    <2>2. r.id \notin IdsOf(rows)
      BY <2>1 DEF OldOps, OldOp, Insertions
    <2> QED BY <1>4, <2>1, <2>2 DEF Inserted
  <1>5. ASSUME NEW r \in rows', Kept(r, ops, n, time)
        PROVE  \E q \in rows :
                  /\ q.id = r.id
                  /\ \/ /\ r.created = q.created
                        /\ \A i \in Older!Replacements(ops) : ops[i].row.id # r.id
                     \/ /\ r.created = time
                        /\ \E i \in Older!Replacements(ops) : ops[i].row.id = r.id
    <2>1. ReplacedUpTo(r.id, ops, n) <=> \E i \in Older!Replacements(ops) : ops[i].row.id = r.id
      BY <1>2 DEF ReplacedUpTo
    <2> QED BY <1>5, <2>1 DEF Kept
  <1>6. OldRowsSound'
    <2>1. Apart(rows') /\ IsFiniteSet(rows')
      BY <1>1 DEF OldBecome
    <2>2. ASSUME NEW r \in rows'
          PROVE  /\ OldRow(r) /\ r.id \in Nat /\ r.id < nextId
                 /\ r.created \in Nat /\ r.created <= clock
      <3>1. CASE Inserted(r, ops, n, time)
        BY <1>1, <1>4, <3>1 DEF OldBecome
      <3>2. CASE Kept(r, ops, n, time)
        BY <1>1, <1>5, <3>2 DEF OldBecome, OldRowsSound
      <3> QED BY <1>1, <3>1, <3>2 DEF OldBecome
    <2> QED BY <2>1, <2>2 DEF OldRowsSound
  <1>7. ASSUME NEW e \in history' PROVE e.id \in IdsOf(rows')
    <2>1. CASE e \in history
      BY <1>3, <2>1 DEF HistorySound
    <2>2. CASE e \in NewEntries(e.id, ops)
      <3>1. PICK i \in Older!Replacements(ops) : ops[i].row.id = e.id
        BY <2>2, EntriesOf
      <3> QED BY <1>3, <3>1 DEF OldOps, OldOp, Older!Replacements
    <2> QED BY <2>1, <2>2, EntriesOf
  <1>8. ASSUME NEW r \in rows', r.id \notin stale' PROVE TiledTo(r.id, r.created)'
    <2>1. r.id \notin stale
          /\ \A i \in Older!Replacements(ops) : ops[i].row.id = r.id => ~Older!Outdated(ops, i)
      BY <1>8 DEF Older!Commit
    <2>2. CASE Inserted(r, ops, n, time)
      <3>1. r.id \notin IdsOf(rows)
        BY <1>4, <2>2
      <3>2. \A i \in Older!Replacements(ops) : ops[i].row.id # r.id
        BY <3>1 DEF OldOps, OldOp, Older!Replacements
      <3>3. TiledTo(r.id, r.created)
        BY <3>1 DEF HistorySound, TiledTo
      <3> QED BY <3>2, <3>3, NotReplaced
    <2>3. CASE Kept(r, ops, n, time)
      <3>1. PICK q \in rows :
                  /\ q.id = r.id
                  /\ \/ /\ r.created = q.created
                        /\ \A i \in Older!Replacements(ops) : ops[i].row.id # r.id
                     \/ /\ r.created = time
                        /\ \E i \in Older!Replacements(ops) : ops[i].row.id = r.id
        BY <1>5, <2>3
      <3>2. TiledTo(r.id, q.created)
        BY <2>1, <3>1 DEF HistorySound
      <3>3. CASE \A i \in Older!Replacements(ops) : ops[i].row.id # r.id
        BY <3>1, <3>2, <3>3, NotReplaced
      <3>4. ASSUME NEW i \in Older!Replacements(ops), ops[i].row.id = r.id, r.created = time
            PROVE  TiledTo(r.id, r.created)'
        <4>1. ~Older!Outdated(ops, i)
          BY <2>1, <3>4
        <4>2. \A j \in Older!Replacements(ops) : ops[j].row.id = ops[i].row.id => j = i
          BY <4>1 DEF Older!Outdated
        <4>3. ops[i].row.created = q.created
          <5>1. PICK x \in rows : x.id = ops[i].row.id /\ x.created = ops[i].row.created
            BY <4>1 DEF Older!Outdated
          <5>2. x = q
            BY <3>1, <3>4, <5>1 DEF OldRowsSound, Apart
          <5> QED BY <5>1, <5>2
        <4>4. ops[i].time = time
          BY DEF OldOps, OldOp, Older!Replacements
        <4>5. TiledTo(ops[i].row.id, ops[i].row.created)
          BY <3>2, <3>4, <4>3
        <4>6. TiledTo(ops[i].row.id, time)'
          BY <4>2, <4>4, <4>5, ReplacedOnce
        <4> QED BY <3>4, <4>6
      <3> QED BY <3>1, <3>3, <3>4
    <2> QED BY <1>1, <2>2, <2>3 DEF OldBecome
  <1>9. HistorySound'
    BY <1>7, <1>8 DEF HistorySound
  <1> QED BY <1>3, <1>6, <1>9

-----------------------------------------------------------------------------
(* The older workers: steps *)

\* What a step may do to the rest: rows, clock and ids only grow.
Onwards ==
    /\ clock' \in Nat /\ nextId' \in Nat /\ clock <= clock' /\ nextId <= nextId'
    /\ IdsOf(rows) \subseteq IdsOf(rows')

\* A feeder that does not move, but may no longer be alone.
AtRest(g) ==
    /\ DOMAIN feeder'[g] = DOMAIN feeder[g]
    /\ feeder'[g].pc = feeder[g].pc /\ feeder'[g].time = feeder[g].time
    /\ feeder'[g].cache = feeder[g].cache /\ feeder'[g].ops = feeder[g].ops

LEMMA AtRestSound ==
    ASSUME OldRowsSound, Onwards, NEW g, OldFeederSound(g), AtRest(g),
           InsertedBy(feeder[g].ops) \cap IdsOf(rows') = {}
    PROVE  OldFeederSound(g)'
  <1> DEFINE s == feeder[g]
  <1>1. /\ DOMAIN s' = DOMAIN s /\ s'.pc = s.pc /\ s'.time = s.time
        /\ s'.cache = s.cache /\ s'.ops = s.ops
    BY DEF AtRest
  <1>2. /\ DOMAIN s = OldFeederFields /\ (s.pc = "idle" => s.ops = <<>>)
        /\ s.time \in Nat /\ s.time <= clock
        /\ \A c \in s.cache : Known(s, c)
        /\ OldOps(s.ops, s.time)
        /\ \A i \in Insertions(s.ops) : s.ops[i].row.id \in Nat /\ s.ops[i].row.id < nextId
        /\ \A i \in Older!Replacements(s.ops) : s.ops[i].row \in s.cache
    BY DEF OldFeederSound
  <1>3. \A i \in Insertions(s.ops) : s.ops[i].row.id \notin IdsOf(rows')
    BY DEF InsertedBy
  <1> HIDE DEF s
  <1>4. s'.time \in Nat /\ s'.time <= clock'
    BY <1>1, <1>2 DEF OldRowsSound, Onwards
  <1>5. ASSUME NEW c \in s'.cache PROVE Known(s, c)'
    BY <1>1, <1>2 DEF Known, Onwards
  <1>6. OldOps(s.ops, s.time)'
    <2>1. \A i \in DOMAIN s.ops : OldOp(s.ops[i], s.time)
      BY <1>2 DEF OldOps
    <2>2. ASSUME NEW i \in DOMAIN s.ops
          PROVE  \/ /\ s.ops[i].do = "insert" /\ OldRow(s.ops[i].row)
                    /\ s.ops[i].row.id \notin IdsOf(rows') /\ s.ops[i].row.created = s.time
                 \/ s.ops[i].do = "touch"
                 \/ /\ s.ops[i].do = "replace" /\ s.ops[i].row.id \in IdsOf(rows')
                    /\ s.ops[i].time = s.time
      BY <1>3, <2>1 DEF OldOp, Onwards, Insertions
    <2> QED BY <1>1, <1>2, <2>2 DEF OldOps, OldOp
  <1>7. \A i \in Insertions(s'.ops) : s'.ops[i].row.id \in Nat /\ s'.ops[i].row.id < nextId'
    BY <1>1, <1>2 DEF OldRowsSound, Onwards
  <1>8. \A i \in Older!Replacements(s'.ops) : s'.ops[i].row \in s'.cache
    BY <1>1, <1>2
  <1> QED BY <1>1, <1>2, <1>4, <1>5, <1>6, <1>7, <1>8 DEF OldFeederSound, s

\* A step of one feeder, while the others are at rest.
LEMMA OneFeederMoves ==
    ASSUME OldInv, Onwards, OldRowsSound', HistorySound',
           NEW f \in Feeders, DOMAIN feeder' = Feeders, \A g \in Feeders \ {f} : AtRest(g),
           OldFeederSound(f)',
           InsertedBy(feeder'[f].ops) \subseteq InsertedBy(feeder[f].ops) \cup {nextId},
           IdsOf(rows') \subseteq IdsOf(rows) \cup InsertedBy(feeder[f].ops)
    PROVE  OldInv'
  <1>1. ASSUME NEW g \in Feeders PROVE \A id \in InsertedBy(feeder[g].ops) :
                                          id \in Nat /\ id < nextId /\ id \notin IdsOf(rows)
    BY DEF OldInv, OldFeederSound, OldOps, OldOp, InsertedBy, Insertions
  <1>2. ASSUME NEW g \in Feeders \ {f} PROVE OldFeederSound(g)'
    <2>1. InsertedBy(feeder[g].ops) \cap InsertedBy(feeder[f].ops) = {}
      BY DEF OldInv, OwnRows
    <2>2. InsertedBy(feeder[g].ops) \cap IdsOf(rows') = {}
      BY <1>1, <2>1
    <2>3. OldRowsSound /\ OldFeederSound(g) /\ AtRest(g)
      BY DEF OldInv
    <2> QED BY <2>2, <2>3, AtRestSound
  <1>3. OwnRows'
    <2>1. ASSUME NEW g \in Feeders \ {f}
          PROVE  InsertedBy(feeder'[g].ops) \cap InsertedBy(feeder'[f].ops) = {}
      <3>1. InsertedBy(feeder[g].ops) \cap InsertedBy(feeder[f].ops) = {}
        BY DEF OldInv, OwnRows
      <3>2. nextId \notin InsertedBy(feeder[g].ops)
        BY <1>1 DEF OldInv, OldRowsSound
      <3> QED BY <3>1, <3>2 DEF AtRest
    <2>2. ASSUME NEW g \in Feeders \ {f}, NEW h \in Feeders \ {f}, g # h
          PROVE  InsertedBy(feeder'[g].ops) \cap InsertedBy(feeder'[h].ops) = {}
      BY <2>2 DEF AtRest, OldInv, OwnRows
    <2> QED BY <2>1, <2>2 DEF OwnRows
  <1> QED BY <1>2, <1>3 DEF OldInv

\* What a feeder is to do, with one more statement.
OneMore(more, ops, op, time) ==
    /\ OldOps(more, time)
    /\ \A i \in DOMAIN more : (i \in DOMAIN ops /\ more[i] = ops[i]) \/ more[i] = op
    /\ \A i \in Insertions(more) :
           \/ i \in Insertions(ops) /\ more[i] = ops[i]
           \/ op.do = "insert" /\ more[i] = op
    /\ \A i \in Older!Replacements(more) :
           \/ i \in Older!Replacements(ops) /\ more[i] = ops[i]
           \/ op.do = "replace" /\ more[i] = op
    /\ InsertedBy(more) \subseteq InsertedBy(ops)
                                \cup (IF op.do = "insert" THEN {op.row.id} ELSE {})

LEMMA OneMoreOp ==
    ASSUME NEW ops, NEW time, OldOps(ops, time), NEW op, OldOp(op, time),
           op.do = "insert" => op.row.id \notin InsertedBy(ops)
    PROVE  OneMore(Append(ops, op), ops, op, time)
  <1> DEFINE more == Append(ops, op)
             n == Len(ops)
  <1>1. /\ IsSeq(more) /\ n \in Nat /\ DOMAIN ops = 1 .. n /\ DOMAIN more = 1 .. n + 1
        /\ (\A i \in DOMAIN ops : more[i] = ops[i]) /\ more[n + 1] = op
    BY Appended DEF OldOps
  <1> HIDE DEF more, n
  <1>2. \A i \in DOMAIN more :
           (i \in DOMAIN ops /\ more[i] = ops[i]) \/ (i = n + 1 /\ more[i] = op)
    BY <1>1
  <1>3. ASSUME NEW i \in Insertions(more)
        PROVE  \/ i \in Insertions(ops) /\ more[i] = ops[i]
               \/ i = n + 1 /\ op.do = "insert" /\ more[i] = op
    BY <1>2 DEF Insertions
  <1>4. ASSUME NEW i \in Older!Replacements(more)
        PROVE  \/ i \in Older!Replacements(ops) /\ more[i] = ops[i]
               \/ op.do = "replace" /\ more[i] = op
    BY <1>2 DEF Older!Replacements
  <1>5. \A i, j \in Insertions(more) : more[i].row.id = more[j].row.id => i = j
    BY <1>3 DEF OldOps, InsertedBy
  <1>6. \A i \in DOMAIN more : OldOp(more[i], time)
    BY <1>2 DEF OldOps
  <1>7. InsertedBy(more)
          \subseteq InsertedBy(ops) \cup (IF op.do = "insert" THEN {op.row.id} ELSE {})
    BY <1>3 DEF InsertedBy
  <1> QED BY <1>1, <1>2, <1>3, <1>4, <1>5, <1>6, <1>7 DEF OldOps, OneMore, more

LEMMA NoOps ==
    ASSUME NEW time
    PROVE  /\ OldOps(<<>>, time) /\ Insertions(<<>>) = {} /\ Older!Replacements(<<>>) = {}
           /\ InsertedBy(<<>>) = {}
  BY DEF OldOps, IsSeq, Insertions, Older!Replacements, InsertedBy

\* Steps at which neither rows nor history change.
LEMMA NothingCommitted ==
    ASSUME OldInv, UNCHANGED <<rows, history, stale>>,
           clock' \in Nat, clock <= clock', nextId' \in Nat, nextId <= nextId'
    PROVE  Onwards /\ OldRowsSound' /\ HistorySound' /\ IdsOf(rows') = IdsOf(rows)
  <1>1. OldRowsSound /\ HistorySound
    BY DEF OldInv
  <1>2. OldRowsSound'
    BY <1>1 DEF OldRowsSound
  <1>3. HistorySound'
    BY <1>1 DEF HistorySound, TiledTo
  <1> QED BY <1>2, <1>3 DEF Onwards

LEMMA TakeTiles == ASSUME OldInv, NEW f \in Feeders, NEW m, Older!Take(f, m) PROVE OldInv'
  <1> DEFINE s == feeder[f]
  <1>0. PICK t : t = Older!PreBulkProcess(s, m)
    OBVIOUS
  <1>1. /\ UNCHANGED <<rows, history, nextId, stale>> /\ clock' = clock + 1
        /\ feeder' = [Older!Others(f) EXCEPT ![f] = t] /\ s.pc = "idle"
    BY <1>0 DEF Older!Take
  <1>2. clock \in Nat /\ nextId \in Nat /\ DOMAIN feeder = Feeders /\ DOMAIN s = OldFeederFields
        /\ s.ops = <<>> /\ \A r \in rows : OldRow(r) /\ r.created \in Nat /\ r.created <= clock
    BY <1>1 DEF OldInv, OldRowsSound, OldFeederSound
  <1>3. Onwards /\ OldRowsSound' /\ HistorySound' /\ IdsOf(rows') = IdsOf(rows)
    BY <1>1, <1>2, NothingCommitted
  <1>4. DOMAIN feeder' = Feeders /\ feeder'[f] = t
    BY <1>1, <1>2 DEF Older!Others
  <1>5. ASSUME NEW g \in Feeders \ {f} PROVE AtRest(g)
    <2>1. feeder'[g] = [feeder[g] EXCEPT !.alone = FALSE]
      BY <1>1, <1>2 DEF Older!Others
    <2>2. DOMAIN feeder[g] = OldFeederFields
      BY DEF OldInv, OldFeederSound
    <2> QED BY <2>1, <2>2 DEF AtRest, OldFeederFields, Older!Fresh
  <1>6. /\ DOMAIN t = OldFeederFields /\ t.pc = "documents" /\ t.ops = <<>>
        /\ t.time = clock + 1 /\ t.cache \subseteq rows
    BY <1>0, <1>2 DEF Older!PreBulkProcess, OldFeederFields, Older!Fresh
  <1>7. ASSUME NEW c \in t.cache PROVE Known(t, c)'
    BY <1>1, <1>2, <1>3, <1>6 DEF Known, IdsOf
  <1>8. OldFeederSound(f)'
    <2>1. OldOps(t.ops, t.time)' /\ Insertions(t.ops) = {} /\ Older!Replacements(t.ops) = {}
      BY <1>6, NoOps DEF OldOps, OldOp
    <2>2. t.time \in Nat /\ t.time <= clock'
      BY <1>1, <1>2, <1>6
    <2> QED BY <1>4, <1>6, <1>7, <2>1, <2>2 DEF OldFeederSound
  <1>9. InsertedBy(feeder'[f].ops) = {}
    BY <1>4, <1>6, NoOps
  <1> QED BY <1>3, <1>4, <1>5, <1>8, <1>9, OneFeederMoves

\* Feeders that do nothing that matters here: what they know, have touched or still have
\* to deal with changes, or a transaction is aborted.
LEMMA IdlyMoves ==
    ASSUME OldInv, NEW f \in Feeders, UNCHANGED <<rows, history, nextId, stale>>,
           clock' \in Nat, clock <= clock',
           DOMAIN feeder' = Feeders, \A g \in Feeders : AtRest(g)
    PROVE  OldInv'
  <1>1. nextId \in Nat /\ nextId' = nextId
    BY DEF OldInv, OldRowsSound
  <1>2. Onwards /\ OldRowsSound' /\ HistorySound' /\ IdsOf(rows') = IdsOf(rows)
    BY <1>1, NothingCommitted
  <1>3. OldFeederSound(f)'
    <2>1. InsertedBy(feeder[f].ops) \cap IdsOf(rows) = {} /\ OldFeederSound(f) /\ OldRowsSound
      BY DEF OldInv, OldFeederSound, OldOps, OldOp, InsertedBy, Insertions
    <2> QED BY <1>2, <2>1, AtRestSound
  <1>4. InsertedBy(feeder'[f].ops) = InsertedBy(feeder[f].ops)
    BY DEF AtRest
  <1> QED BY <1>2, <1>3, <1>4, OneFeederMoves

\* A feeder's fields can be read and set.
LEMMA FeederFieldsThere ==
    ASSUME OldInv, NEW f \in Feeders
    PROVE  /\ clock \in Nat /\ nextId \in Nat /\ DOMAIN feeder = Feeders
           /\ DOMAIN feeder[f] = OldFeederFields
           /\ {"pc", "known", "aborted", "ops", "group", "table", "time", "docs", "cache",
               "touch", "body", "alone", "undone"} = OldFeederFields
  BY DEF OldInv, OldRowsSound, OldFeederSound, OldFeederFields, Older!Fresh

LEMMA NextDocument ==
    ASSUME NEW s, DOMAIN s = OldFeederFields
    PROVE  LET t == Older!Next_(s) IN
           /\ DOMAIN t = DOMAIN s /\ t.pc = s.pc /\ t.time = s.time
           /\ t.cache = s.cache /\ t.ops = s.ops
  BY DEF Older!Next_, OldFeederFields, Older!Fresh

\* What such a step changes.
MovesIdly(f) ==
    /\ UNCHANGED <<rows, history, nextId, stale>> /\ clock' \in Nat /\ clock <= clock'
    /\ DOMAIN feeder' = Feeders /\ \A g \in Feeders \ {f} : feeder'[g] = feeder[g]
    /\ AtRest(f)

LEMMA IdleStepsTile ==
    ASSUME OldInv, NEW f \in Feeders,
           \/ \E m \in OldMessages : Older!Refuse(f, m)
           \/ Older!Skip(f) \/ Older!Touch(f) \/ Older!Fail(f)
    PROVE  OldInv'
  <1> DEFINE s == feeder[f]
  <1>1. /\ clock \in Nat /\ nextId \in Nat /\ DOMAIN feeder = Feeders
        /\ DOMAIN s = OldFeederFields
        /\ {"pc", "known", "aborted", "ops", "time", "cache", "touch", "undone"}
              \subseteq OldFeederFields
    BY FeederFieldsThere
  <1>2. DOMAIN Older!Next_(s) = DOMAIN s /\ Older!Next_(s).pc = s.pc
        /\ Older!Next_(s).time = s.time /\ Older!Next_(s).cache = s.cache
        /\ Older!Next_(s).ops = s.ops
    BY <1>1, NextDocument
  <1>3. MovesIdly(f)
    <2>1. ASSUME NEW m \in OldMessages, Older!Refuse(f, m) PROVE MovesIdly(f)
      <3>1. /\ UNCHANGED <<rows, history, nextId, stale>> /\ clock' = clock + 1
            /\ \E a, k : feeder' = [feeder EXCEPT ![f].aborted = a, ![f].known = k]
        BY <2>1 DEF Older!Refuse
      <3> QED BY <1>1, <3>1 DEF MovesIdly, AtRest
    <2>2. CASE Older!Skip(f)
      <3>1. /\ UNCHANGED <<rows, history, clock, nextId, stale>>
            /\ feeder' = [feeder EXCEPT ![f] = Older!Next_(s)]
        BY <2>2 DEF Older!Skip
      <3> QED BY <1>1, <1>2, <3>1 DEF MovesIdly, AtRest
    <2>3. CASE Older!Touch(f)
      <3>1. /\ UNCHANGED <<rows, history, clock, nextId, stale>>
            /\ \E r : feeder' = [feeder EXCEPT
                                    ![f] = [Older!Next_(s) EXCEPT !.touch = @ \cup {r.id}]]
        BY <2>3 DEF Older!Touch
      <3> QED BY <1>1, <1>2, <3>1 DEF MovesIdly, AtRest
    <2>4. CASE Older!Fail(f)
      <3>1. /\ UNCHANGED <<rows, history, clock, nextId, stale>>
            /\ feeder' = [feeder EXCEPT ![f] = [Older!Next_(s) EXCEPT !.aborted = TRUE,
                                                                      !.undone = TRUE]]
        BY <2>4 DEF Older!Fail
      <3> QED BY <1>1, <1>2, <3>1 DEF MovesIdly, AtRest
    <2> QED BY <2>1, <2>2, <2>3, <2>4
  <1>4. \A g \in Feeders : AtRest(g)
    BY <1>3 DEF MovesIdly, AtRest
  <1> QED BY <1>3, <1>4, IdlyMoves DEF MovesIdly

LEMMA InsertTiles == ASSUME OldInv, NEW f \in Feeders, Older!Insert(f) PROVE OldInv'
  <1> DEFINE s == feeder[f]
  <1>1. PICK t, op : /\ feeder' = [feeder EXCEPT ![f] = t]
                     /\ t = [Older!Next_(s) EXCEPT !.ops = Append(@, op)]
                     /\ op.do = "insert" /\ OldRow(op.row) /\ op.row.id = nextId
                     /\ op.row.created = s.time
    <2> DEFINE row == [id |-> nextId, table |-> s.table, created |-> s.time,
                       updated |-> s.time, context |-> Older!Doc(s).context,
                       data |-> Older!Doc(s).data]
               op == [do |-> "insert", row |-> row]
    <2>1. feeder' = [feeder EXCEPT ![f] = [Older!Next_(s) EXCEPT !.ops = Append(@, op)]]
      BY DEF Older!Insert
    <2>2. op.do = "insert" /\ OldRow(op.row) /\ op.row.id = nextId /\ op.row.created = s.time
      BY DEF OldRow
    <2> HIDE DEF op
    <2> QED BY <2>1, <2>2
  <1>2. /\ UNCHANGED <<rows, history, clock, stale>> /\ nextId' = nextId + 1
        /\ s.pc = "documents"
    BY DEF Older!Insert, Older!AtDocument
  <1>3. /\ clock \in Nat /\ nextId \in Nat /\ DOMAIN feeder = Feeders
        /\ DOMAIN s = OldFeederFields /\ {"ops", "pc", "time", "cache"} \subseteq OldFeederFields
    BY FeederFieldsThere
  <1>4. Onwards /\ OldRowsSound' /\ HistorySound' /\ IdsOf(rows') = IdsOf(rows)
    BY <1>2, <1>3, NothingCommitted
  <1>5. /\ DOMAIN t = OldFeederFields /\ t.pc = s.pc /\ t.time = s.time
        /\ t.cache = s.cache /\ t.ops = Append(s.ops, op)
    BY <1>1, <1>3, NextDocument
  <1>6. DOMAIN feeder' = Feeders /\ feeder'[f] = t
        /\ \A g \in Feeders \ {f} : feeder'[g] = feeder[g]
    BY <1>1, <1>3
  <1>7. /\ s.time \in Nat /\ s.time <= clock /\ OldOps(s.ops, s.time)
        /\ \A c \in s.cache : Known(s, c)
        /\ \A i \in Insertions(s.ops) : s.ops[i].row.id \in Nat /\ s.ops[i].row.id < nextId
        /\ \A i \in Older!Replacements(s.ops) : s.ops[i].row \in s.cache
    BY DEF OldInv, OldFeederSound
  <1>8. nextId \notin IdsOf(rows) /\ nextId \notin InsertedBy(s.ops)
    BY <1>3, <1>7 DEF OldInv, OldRowsSound, IdsOf, InsertedBy
  <1>9. OldOp(op, s.time) /\ op.row.id \notin InsertedBy(s.ops)
    BY <1>1, <1>8 DEF OldOp
  <1>10. /\ OldOps(t.ops, s.time)
         /\ \A i \in Insertions(t.ops) :
                 (i \in Insertions(s.ops) /\ t.ops[i] = s.ops[i]) \/ t.ops[i] = op
         /\ \A i \in Older!Replacements(t.ops) :
                 i \in Older!Replacements(s.ops) /\ t.ops[i] = s.ops[i]
         /\ InsertedBy(t.ops) \subseteq InsertedBy(s.ops) \cup {nextId}
    <2>1. OneMore(Append(s.ops, op), s.ops, op, s.time)
      BY <1>7, <1>9, OneMoreOp
    <2>2. OneMore(t.ops, s.ops, op, s.time) /\ op.do = "insert" /\ op.row.id = nextId
      BY <1>1, <1>5, <2>1
    <2> QED BY <2>2 DEF OneMore
  <1>11. OldFeederSound(f)'
    <2>1. \A c \in t.cache : Known(t, c)'
      BY <1>2, <1>5, <1>7 DEF Known
    <2>2. OldOps(t.ops, t.time)'
      <3>1. OldOps(t.ops, t.time) /\ rows' = rows
        BY <1>2, <1>5, <1>10
      <3> QED BY <3>1 DEF OldOps, OldOp
    <2>3. ASSUME NEW i \in Insertions(t.ops)
          PROVE  t.ops[i].row.id \in Nat /\ t.ops[i].row.id < nextId'
      <3>1. op.row.id = nextId /\ nextId' = nextId + 1 /\ nextId \in Nat
        BY <1>1, <1>2, <1>3
      <3>2. CASE t.ops[i] = op
        BY <3>1, <3>2
      <3>3. CASE i \in Insertions(s.ops) /\ t.ops[i] = s.ops[i]
        BY <1>7, <3>1, <3>3
      <3> QED BY <1>10, <3>2, <3>3
    <2>4. \A i \in Older!Replacements(t.ops) : t.ops[i].row \in t.cache
      BY <1>5, <1>7, <1>10
    <2> QED BY <1>2, <1>5, <1>6, <1>7, <2>1, <2>2, <2>3, <2>4 DEF OldFeederSound
  <1>12. \A g \in Feeders \ {f} : AtRest(g)
    BY <1>6 DEF AtRest
  <1>13. IdsOf(rows') \subseteq IdsOf(rows) \cup InsertedBy(s.ops)
         /\ InsertedBy(feeder'[f].ops) \subseteq InsertedBy(s.ops) \cup {nextId}
    BY <1>4, <1>6, <1>10
  <1> QED BY <1>4, <1>6, <1>11, <1>12, <1>13, OneFeederMoves

LEMMA RestartTiles == ASSUME OldInv, NEW f \in Feeders, Older!Restart(f) PROVE OldInv'
  <1>1. /\ UNCHANGED <<rows, history, clock, nextId, stale>>
        /\ feeder' = [feeder EXCEPT ![f] = Older!Fresh]
    BY DEF Older!Restart
  <1>2. clock \in Nat /\ nextId \in Nat /\ DOMAIN feeder = Feeders
    BY FeederFieldsThere
  <1>3. Onwards /\ OldRowsSound' /\ HistorySound' /\ IdsOf(rows') = IdsOf(rows)
    BY <1>1, <1>2, NothingCommitted
  <1>4. DOMAIN feeder' = Feeders /\ feeder'[f] = Older!Fresh
        /\ \A g \in Feeders \ {f} : feeder'[g] = feeder[g]
    BY <1>1, <1>2
  <1>5. Older!Fresh.ops = <<>> /\ Older!Fresh.time = 0 /\ Older!Fresh.cache = {}
    BY DEF Older!Fresh
  <1>6. OldFeederSound(f)' /\ InsertedBy(feeder'[f].ops) = {}
    BY <1>1, <1>2, <1>4, <1>5, NoOps DEF OldFeederSound, OldFeederFields, OldOps, OldOp
  <1>7. \A g \in Feeders \ {f} : AtRest(g)
    BY <1>4 DEF AtRest
  <1> QED BY <1>3, <1>4, <1>6, <1>7, OneFeederMoves

\* The statements of a feeder, as its commit needs them.
ReadyToCommit(ops, time) ==
    /\ time \in Nat /\ time <= clock /\ OldOps(ops, time)
    /\ \A i \in Insertions(ops) : ops[i].row.id \in Nat /\ ops[i].row.id < nextId
    /\ \A i \in Older!Replacements(ops) :
          ops[i].row.created \in Nat /\ ops[i].row.created < time

LEMMA FeederReady ==
    ASSUME OldInv, NEW f \in Feeders PROVE ReadyToCommit(feeder[f].ops, feeder[f].time)
  BY DEF OldInv, OldFeederSound, Known, ReadyToCommit

LEMMA FeederCommits ==
    ASSUME OldInv, NEW ops, NEW time, ReadyToCommit(ops, time), Older!Commit(ops),
           clock' = clock, nextId' = nextId
    PROVE  /\ Onwards /\ OldRowsSound' /\ HistorySound'
           /\ IdsOf(rows') = IdsOf(rows) \cup InsertedBy(ops)
  <1>1. OldRowsSound /\ HistorySound
    BY DEF OldInv
  <1>2. /\ OldRowsSound' /\ HistorySound'
        /\ IdsOf(rows') = IdsOf(rows) \cup InsertedBy(ops)
    BY <1>1, CommitTiles DEF ReadyToCommit
  <1> QED BY <1>1, <1>2 DEF Onwards, OldRowsSound

LEMMA ArchiveTiles ==
    ASSUME OldInv, NEW f \in Feeders, Older!ArchiveAndUpdate(f) PROVE OldInv'
  <1> DEFINE s == feeder[f]
  <1>1. PICK r, base, op, t :
            /\ r \in s.cache /\ op.do = "replace" /\ op.row = r /\ op.time = s.time
            /\ base = <<>> \/ (base = s.ops /\ UNCHANGED <<rows, history, stale>>)
            /\ feeder' = [feeder EXCEPT ![f] = t]
            /\ DOMAIN t = DOMAIN Older!Next_(s) /\ t.pc = Older!Next_(s).pc
            /\ t.time = Older!Next_(s).time /\ t.cache = Older!Next_(s).cache
            /\ t.ops = Append(base, op)
    <2> DEFINE h == Older!Historic(s.group)
               stranger == h \notin s.known
               base == IF stranger THEN <<>> ELSE s.ops
               change(r) == [do |-> "replace", row |-> r, doc |-> Older!Doc(s), time |-> s.time]
               next(r) == [Older!Next_(s) EXCEPT
                              !.known = @ \cup {h},
                              !.undone = @ \/ (stranger /\ h \in exist /\ s.ops # <<>>),
                              !.ops = Append(IF stranger THEN <<>> ELSE @, change(r))]
    <2>1. PICK r \in Older!Found(s) : feeder' = [feeder EXCEPT ![f] = next(r)]
      BY DEF Older!ArchiveAndUpdate
    <2>2. r \in s.cache
      BY DEF Older!Found
    <2>3. base = <<>> \/ (base = s.ops /\ UNCHANGED <<rows, history, stale>>)
      BY DEF Older!ArchiveAndUpdate
    <2>4. /\ DOMAIN next(r) = DOMAIN Older!Next_(s) /\ next(r).pc = Older!Next_(s).pc
          /\ next(r).time = Older!Next_(s).time /\ next(r).cache = Older!Next_(s).cache
          /\ next(r).ops = Append(base, change(r))
      <3>1. DOMAIN s = OldFeederFields /\ {"ops", "known", "undone"} \subseteq OldFeederFields
        BY FeederFieldsThere
      <3>2. DOMAIN Older!Next_(s) = OldFeederFields /\ Older!Next_(s).ops = s.ops
        BY <3>1, NextDocument
      <3> QED BY <3>1, <3>2
    <2>5. change(r).do = "replace" /\ change(r).row = r /\ change(r).time = s.time
      OBVIOUS
    <2> HIDE DEF next, change, base
    <2> QED BY <2>1, <2>2, <2>3, <2>4, <2>5
  <1>2. clock' = clock /\ nextId' = nextId /\ s.pc = "documents"
    BY DEF Older!ArchiveAndUpdate, Older!AtDocument
  <1>3. /\ clock \in Nat /\ nextId \in Nat /\ DOMAIN feeder = Feeders
        /\ DOMAIN s = OldFeederFields
    BY FeederFieldsThere
  <1>4. /\ s.time \in Nat /\ s.time <= clock /\ OldOps(s.ops, s.time)
        /\ \A c \in s.cache : Known(s, c)
        /\ \A i \in Insertions(s.ops) : s.ops[i].row.id \in Nat /\ s.ops[i].row.id < nextId
        /\ \A i \in Older!Replacements(s.ops) : s.ops[i].row \in s.cache
    BY DEF OldInv, OldFeederSound
  <1>5. /\ Onwards /\ OldRowsSound' /\ HistorySound'
        /\ IdsOf(rows') \subseteq IdsOf(rows) \cup InsertedBy(s.ops)
    <2>1. CASE Older!Commit(s.ops)
      BY <1>2, <2>1, FeederReady, FeederCommits
    <2>2. CASE UNCHANGED <<rows, history, stale>>
      BY <1>2, <1>3, <2>2, NothingCommitted
    <2> QED BY <2>1, <2>2 DEF Older!ArchiveAndUpdate
  <1>6. /\ DOMAIN t = OldFeederFields /\ t.pc = "documents" /\ t.time = s.time
        /\ t.cache = s.cache /\ t.ops = Append(base, op)
        /\ op.do = "replace" /\ op.row \in s.cache /\ op.time = s.time
    BY <1>1, <1>2, <1>3, NextDocument
  <1>7. DOMAIN feeder' = Feeders /\ feeder'[f] = t
        /\ \A g \in Feeders \ {f} : feeder'[g] = feeder[g]
    BY <1>1, <1>3
  <1>8. base = <<>> \/ (base = s.ops /\ rows' = rows)
    BY <1>1
  <1>9. PICK time : time = s.time
    OBVIOUS
  <1>10. OldOps(base, time) /\ OldOp(op, time)
    BY <1>4, <1>6, <1>8, <1>9, NoOps DEF OldOp, Known
  <1>11. OldOps(base, time)'
    <2>1. CASE base = <<>>
      BY <2>1, NoOps DEF OldOps, OldOp
    <2>2. CASE rows' = rows
      BY <1>10, <2>2 DEF OldOps, OldOp
    <2> QED BY <1>8, <2>1, <2>2
  <1>12. OldOp(op, time)'
    BY <1>5, <1>6, <1>10 DEF OldOp, Onwards
  <1>13. OneMore(t.ops, base, op, time) /\ OldOps(t.ops, time)'
    <2>1. OneMore(Append(base, op), base, op, time)
      BY <1>6, <1>10, OneMoreOp
    <2>2. OneMore(t.ops, base, op, time)
      BY <1>6, <2>1
    <2>3. \A i \in DOMAIN t.ops : OldOp(t.ops[i], time)'
      BY <1>11, <1>12, <2>2 DEF OneMore, OldOps
    <2> QED BY <2>2, <2>3 DEF OneMore, OldOps
  <1>14. /\ \A i \in Insertions(t.ops) : i \in Insertions(base) /\ t.ops[i] = base[i]
         /\ \A i \in Older!Replacements(t.ops) :
               \/ i \in Older!Replacements(base) /\ t.ops[i] = base[i]
               \/ t.ops[i] = op
         /\ InsertedBy(t.ops) \subseteq InsertedBy(base)
    BY <1>6, <1>13 DEF OneMore
  <1>15. /\ \A i \in Insertions(base) : base[i].row.id \in Nat /\ base[i].row.id < nextId
         /\ \A i \in Older!Replacements(base) : base[i].row \in s.cache
         /\ InsertedBy(base) \subseteq InsertedBy(s.ops)
    BY <1>4, <1>8, NoOps
  <1>16. OldFeederSound(f)'
    <2>1. \A c \in t.cache : Known(t, c)'
      BY <1>4, <1>5, <1>6 DEF Known, Onwards
    <2>2. OldOps(t.ops, t.time)'
      BY <1>6, <1>9, <1>13
    <2>3. \A i \in Insertions(t.ops) : t.ops[i].row.id \in Nat /\ t.ops[i].row.id < nextId'
      BY <1>2, <1>14, <1>15
    <2>4. \A i \in Older!Replacements(t.ops) : t.ops[i].row \in t.cache
      BY <1>6, <1>14, <1>15
    <2>5. t.time \in Nat /\ t.time <= clock'
      BY <1>2, <1>4, <1>6
    <2> QED BY <1>6, <1>7, <2>1, <2>2, <2>3, <2>4, <2>5 DEF OldFeederSound
  <1>17. \A g \in Feeders \ {f} : AtRest(g)
    BY <1>7 DEF AtRest
  <1>18. InsertedBy(feeder'[f].ops) \subseteq InsertedBy(s.ops) \cup {nextId}
    BY <1>7, <1>14, <1>15
  <1> QED BY <1>5, <1>7, <1>16, <1>17, <1>18, OneFeederMoves

LEMMA PostBulkTiles ==
    ASSUME OldInv, NEW f \in Feeders, Older!PostBulkProcess(f) PROVE OldInv'
  <1> DEFINE s == feeder[f]
             stamp == Older!Stamp(s)
             ops == s.ops \o stamp
  <1>1. PICK t : /\ feeder' = [feeder EXCEPT ![f] = t]
                 /\ DOMAIN t = OldFeederFields /\ t.ops = <<>> /\ t.time = 0 /\ t.cache = {}
    <2> DEFINE t == [Older!Fresh EXCEPT !.known = s.known,
                                        !.aborted = s.aborted /\ s.touch # {}]
    <2>1. feeder' = [feeder EXCEPT ![f] = t]
      BY DEF Older!PostBulkProcess
    <2>2. DOMAIN t = OldFeederFields /\ t.ops = <<>> /\ t.time = 0 /\ t.cache = {}
      BY DEF OldFeederFields, Older!Fresh
    <2> QED BY <2>1, <2>2
  <1>2. clock' = clock /\ nextId' = nextId
    BY DEF Older!PostBulkProcess
  <1>3. /\ clock \in Nat /\ nextId \in Nat /\ DOMAIN feeder = Feeders
    BY FeederFieldsThere
  <1>4. ReadyToCommit(ops, s.time) /\ InsertedBy(ops) = InsertedBy(s.ops)
    <2>1. ReadyToCommit(s.ops, s.time)
      BY FeederReady
    <2>2. IsSeq(stamp) /\ \A i \in DOMAIN stamp : stamp[i].do = "touch"
      <3>1. CASE stamp = <<>>
        BY <3>1 DEF IsSeq
      <3>2. CASE \E x : stamp = <<x>> /\ x.do = "touch"
        <4>1. PICK x : stamp = <<x>> /\ x.do = "touch"
          BY <3>2
        <4>2. <<x>> = Append(<<>>, x) /\ IsSeq(<<>>)
          BY DEF IsSeq
        <4>3. IsSeq(<<x>>)
          <5>1. IsSeq(Append(<<>>, x))
            BY Zenon, <4>2, Appended
          <5> QED BY <4>2, <5>1
        <4>4. \A i \in DOMAIN <<x>> : <<x>>[i].do = "touch"
          BY <4>1
        <4> QED BY <4>1, <4>3, <4>4
      <3> QED BY <3>1, <3>2 DEF Older!Stamp
    <2>3. IsSeq(s.ops)
      BY <2>1 DEF ReadyToCommit, OldOps
    <2> HIDE DEF stamp
    <2>4. /\ IsSeq(ops) /\ Len(s.ops) \in Nat /\ DOMAIN s.ops = 1 .. Len(s.ops)
          /\ DOMAIN s.ops \subseteq DOMAIN ops
          /\ \A i \in DOMAIN ops :
                IF i \in DOMAIN s.ops THEN ops[i] = s.ops[i] ELSE ops[i].do = "touch"
      <3>1. /\ IsSeq(ops) /\ Len(s.ops) \in Nat /\ DOMAIN s.ops = 1 .. Len(s.ops)
            /\ \A i \in DOMAIN ops :
                  IF i \in DOMAIN s.ops THEN ops[i] = s.ops[i]
                  ELSE i - Len(s.ops) \in DOMAIN stamp /\ ops[i] = stamp[i - Len(s.ops)]
        BY Zenon, <2>2, <2>3, Concatenation
      <3>2. DOMAIN s.ops \subseteq DOMAIN ops
        <4>1. PICK all : s.ops \in Seq(all) /\ stamp \in Seq(all)
          <5>1. s.ops \in Seq(ToSet(s.ops) \cup ToSet(stamp))
            BY <2>3 DEF IsSeq
          <5>2. stamp \in Seq(ToSet(s.ops) \cup ToSet(stamp))
            BY <2>2 DEF IsSeq
          <5> QED BY <5>1, <5>2
        <4> QED BY <4>1
      <3> HIDE DEF ops
      <3> QED BY <2>2, <3>1, <3>2
    <2> HIDE DEF ops
    <2>5. /\ Insertions(ops) = Insertions(s.ops)
          /\ Older!Replacements(ops) = Older!Replacements(s.ops)
          /\ \A i \in Insertions(ops) \cup Older!Replacements(ops) : ops[i] = s.ops[i]
      BY <2>4 DEF Insertions, Older!Replacements
    <2>6. OldOps(ops, s.time)
      <3>1. \A i \in DOMAIN s.ops : OldOp(s.ops[i], s.time)
        BY <2>1 DEF ReadyToCommit, OldOps
      <3>2. \A i \in DOMAIN ops : OldOp(ops[i], s.time)
        BY <2>4, <3>1 DEF OldOp
      <3>3. \A i, j \in Insertions(ops) : ops[i].row.id = ops[j].row.id => i = j
        BY <2>1, <2>5 DEF ReadyToCommit, OldOps
      <3> QED BY <2>4, <3>2, <3>3 DEF OldOps
    <2> QED BY <2>1, <2>5, <2>6 DEF ReadyToCommit, InsertedBy
  <1>5. /\ Onwards /\ OldRowsSound' /\ HistorySound'
        /\ IdsOf(rows') \subseteq IdsOf(rows) \cup InsertedBy(s.ops)
    <2>1. CASE Older!Commit(ops)
      BY <1>2, <1>4, <2>1, FeederCommits
    <2>2. CASE UNCHANGED <<rows, history, stale>>
      BY <1>2, <1>3, <2>2, NothingCommitted
    <2> QED BY <2>1, <2>2 DEF Older!PostBulkProcess
  <1>6. DOMAIN feeder' = Feeders /\ feeder'[f] = t
        /\ \A g \in Feeders \ {f} : feeder'[g] = feeder[g]
    BY <1>1, <1>3
  <1>7. OldFeederSound(f)' /\ InsertedBy(feeder'[f].ops) = {}
    BY <1>1, <1>2, <1>3, <1>6, NoOps DEF OldFeederSound, OldOps, OldOp
  <1>8. \A g \in Feeders \ {f} : AtRest(g)
    BY <1>6 DEF AtRest
  <1> QED BY <1>5, <1>6, <1>7, <1>8, OneFeederMoves

\* Every step keeps the invariant.
LEMMA OldInvKept == OldInv /\ [Older!Next]_(Older!hvars) => OldInv'
  <1> SUFFICES ASSUME OldInv, [Older!Next]_(Older!hvars) PROVE OldInv'
    OBVIOUS
  <1>1. CASE Older!Next
    <2>1. PICK f \in Feeders :
            \/ \E m \in OldMessages : Older!Take(f, m)
            \/ Older!Insert(f) \/ Older!ArchiveAndUpdate(f) \/ Older!PostBulkProcess(f)
            \/ Older!Restart(f)
            \/ \E m \in OldMessages : Older!Refuse(f, m)
            \/ Older!Skip(f) \/ Older!Touch(f) \/ Older!Fail(f)
      BY <1>1 DEF Older!Next
    <2> QED BY <2>1, TakeTiles, InsertTiles, ArchiveTiles, PostBulkTiles, RestartTiles,
               IdleStepsTile
  <1>2. CASE UNCHANGED Older!hvars
    BY <1>2 DEF Older!hvars, OldInv, OldRowsSound, HistorySound, TiledTo, OldFeederSound,
                Known, OldOps, OldOp, OwnRows
  <1> QED BY <1>1, <1>2

LEMMA OldInvFirst == Older!Init => OldInv
  <1> SUFFICES ASSUME Older!Init PROVE OldInv
    OBVIOUS
  <1>1. /\ rows = {} /\ history = {} /\ clock = 0 /\ nextId = 1
        /\ feeder = [f \in Feeders |-> Older!Fresh]
    BY DEF Older!Init
  <1>2. Older!Fresh.ops = <<>> /\ Older!Fresh.time = 0 /\ Older!Fresh.cache = {}
    BY DEF Older!Fresh
  <1>3. OldRowsSound /\ HistorySound
    BY <1>1, FS_EmptySet DEF OldRowsSound, HistorySound, Apart
  <1>4. \A f \in Feeders : OldFeederSound(f) /\ InsertedBy(feeder[f].ops) = {}
    BY <1>1, <1>2, NoOps DEF OldFeederSound, OldFeederFields
  <1> QED BY <1>1, <1>3, <1>4 DEF OldInv, OwnRows

\* Histories have no gap and no overlap (PostgresStorer.save and archive_and_update), for
\* any feeders and messages, partitions, failures and restarts.
THEOREM HistoriesAlwaysTile == Older!Spec => []HistoryTiles
  <1>1. OldInv => HistoryTiles
    BY DEF OldInv, HistorySound, TiledTo, HistoryTiles, Older!HistoryTiles
  <1> QED BY <1>1, OldInvFirst, OldInvKept, PTL DEF Older!Spec

-----------------------------------------------------------------------------
(* The older workers: what a transaction sees, statement by statement *)

LEMMA NothingPending == ASSUME NEW rs PROVE Pending(rs, <<>>) = rs
  <1>1. 0 \in Nat /\ DOMAIN <<>> = 1 .. 0
    OBVIOUS
  <1>2. PICK g : OldUnfolds(g, rs, <<>>, 0) /\ Pending(rs, <<>>) = g[1 .. 0]
    BY <1>1, FoldUnfolds DEF Pending
  <1> QED BY <1>1, <1>2, OldUnfoldsFirst

LEMMA OneMorePending ==
    ASSUME NEW rs, NEW ops, IsSeq(ops), NEW op
    PROVE  Pending(rs, Append(ops, op)) = Older!Execute(Pending(rs, ops), op)
  <1> DEFINE more == Append(ops, op)
             n == Len(ops)
  <1>1. /\ n \in Nat /\ n + 1 \in Nat /\ DOMAIN ops = 1 .. n /\ DOMAIN more = 1 .. n + 1
        /\ (\A i \in 1 .. n : more[i] = ops[i]) /\ more[n + 1] = op
    BY Appended
  <1> HIDE DEF more, n
  <1>2. PICK g : OldUnfolds(g, rs, more, n + 1) /\ Pending(rs, more) = g[1 .. n + 1]
    BY <1>1, FoldUnfolds DEF Pending
  <1>3. PICK h : OldUnfolds(h, rs, ops, n) /\ Pending(rs, ops) = h[1 .. n]
    BY <1>1, FoldUnfolds DEF Pending
  <1> DEFINE Same(k) == g[1 .. k] = h[1 .. k]
  <1>4. Same(0)
    BY <1>1, <1>2, <1>3, OldUnfoldsFirst
  <1>5. ASSUME NEW k \in 0 .. n, k # n, Same(k) PROVE Same(k + 1)
    <2>1. k \in 0 .. n + 1 /\ k # n + 1 /\ more[k + 1] = ops[k + 1]
      BY <1>1, <1>5
    <2>2. g[1 .. k + 1] = Older!Execute(g[1 .. k], more[k + 1])
      BY <1>1, <1>2, <2>1, OldUnfoldsNext
    <2>3. h[1 .. k + 1] = Older!Execute(h[1 .. k], ops[k + 1])
      BY <1>1, <1>3, <1>5, OldUnfoldsNext
    <2> QED BY <1>5, <2>1, <2>2, <2>3
  <1>6. Same(n)
    <2> HIDE DEF Same
    <2> SUFFICES ASSUME ~Same(n) PROVE FALSE
      OBVIOUS
    <2> DEFINE Bad == {k \in 0 .. n : ~Same(k)}
    <2>1. n \in Bad /\ Bad \in SUBSET Nat
      BY <1>1
    <2>2. PICK d \in Bad : \A x \in Bad : d <= x
      BY <2>1, SmallestNat
    <2>3. d # 0 /\ d \in 0 .. n
      BY <1>4, <2>2
    <2>4. d - 1 \in 0 .. n /\ d - 1 \notin Bad /\ d - 1 # n
      BY <1>1, <2>2, <2>3
    <2>5. Same((d - 1) + 1)
      BY <1>5, <2>4
    <2> QED BY <2>2, <2>3, <2>5
  <1>7. g[1 .. n + 1] = Older!Execute(g[1 .. n], more[n + 1])
    <2>1. n \in 0 .. n + 1 /\ n # n + 1
      BY <1>1
    <2> QED BY <1>1, <1>2, <2>1, OldUnfoldsNext
  <1> QED BY <1>1, <1>2, <1>3, <1>6, <1>7 DEF more

-----------------------------------------------------------------------------
(* The older workers: a feeder that has the database for itself *)

\* A row that says what a document does, now or once the rows to touch are.
Tells(r, doc) == \A k \in DOMAIN doc.data : k \in DOMAIN r.data /\ r.data[k] = doc.data[k]
Held(s, rs, doc) ==
    \E r \in rs : /\ r.table = s.table /\ r.context = doc.context /\ Tells(r, doc)
                  /\ r.updated = s.time \/ r.id \in s.touch

\* How many documents of its message it has dealt with; the others are left.
Dealt(s) == Len(s.body) - Len(s.docs)
BodySound(s) ==
    /\ IsSeq(s.docs) /\ IsSeq(s.body) /\ Len(s.docs) <= Len(s.body)
    /\ \A i \in DOMAIN s.docs : s.docs[i] = s.body[i + Dealt(s)]

\* The rows it looked up are there, of the same context, and but for those that one of
\* these documents was about as they were.
LookedUpSound(s, rs) ==
    /\ IsFiniteSet(s.cache)
    /\ \A c \in s.cache : c.table = s.table /\ c.id \in IdsOf(rs)
    /\ \A r \in rs, c \in s.cache : r.id = c.id => r.table = c.table /\ r.context = c.context
    /\ \A c \in s.cache : c \in rs \/ \E j \in 1 .. Dealt(s) : s.body[j].context = c.context

DealtSound(s, rs) ==
    /\ BodySound(s) /\ LookedUpSound(s, rs)
    /\ \A j \in 1 .. Dealt(s) :
          Older!Storable(s, s.body[j]) /\ Older!OnlyOne(s, j) => Held(s, rs, s.body[j])

Lone(s) == s.pc = "documents" /\ s.alone /\ ~s.undone /\ ~s.aborted
FullInv ==
    /\ faults \in Nat
    /\ \A f, g \in Feeders : f # g /\ feeder[f].alone => feeder[g].pc = "idle"
    /\ \A f \in Feeders :
          Lone(feeder[f]) => DealtSound(feeder[f], Pending(rows, feeder[f].ops))

\* What is the same of a feeder that is at the next document.
AtNext(s, t) ==
    /\ t.body = s.body /\ t.docs = Tail(s.docs) /\ t.cache = s.cache /\ t.table = s.table
    /\ t.time = s.time /\ t.group = s.group /\ s.touch \subseteq t.touch

\* The next document.
LEMMA HeadOfBody ==
    ASSUME NEW s, BodySound(s), s.docs # <<>>
    PROVE  /\ Dealt(s) \in Nat /\ Dealt(s) + 1 \in DOMAIN s.body
           /\ Head(s.docs) = s.body[Dealt(s) + 1]
  <1>1. /\ s.docs \in Seq(ToSet(s.docs)) /\ s.body \in Seq(ToSet(s.body))
        /\ Len(s.docs) <= Len(s.body)
        /\ \A i \in DOMAIN s.docs : s.docs[i] = s.body[i + Dealt(s)]
    BY DEF BodySound, IsSeq
  <1> DEFINE n == Len(s.body)
             k == Len(s.docs)
  <1>2. /\ n \in Nat /\ k \in Nat /\ k <= n /\ k # 0 /\ DOMAIN s.docs = 1 .. k
        /\ DOMAIN s.body = 1 .. n /\ Head(s.docs) = s.docs[1] /\ Dealt(s) = n - k
    BY <1>1 DEF Dealt
  <1> HIDE DEF n, k
  <1>3. 1 \in DOMAIN s.docs /\ n - k \in Nat /\ (n - k) + 1 \in 1 .. n /\ 1 + (n - k) = (n - k) + 1
    BY <1>2
  <1> QED BY <1>1, <1>2, <1>3

LEMMA Rest ==
    ASSUME NEW S, NEW q \in Seq(S), q # <<>>
    PROVE  /\ IsSeq(Tail(q)) /\ Len(q) \in Nat \ {0} /\ DOMAIN q = 1 .. Len(q)
           /\ Len(Tail(q)) = Len(q) - 1 /\ DOMAIN Tail(q) = 1 .. Len(q) - 1
           /\ \A i \in 1 .. Len(q) - 1 : Tail(q)[i] = q[i + 1]
  <1>1. PICK r : r = Tail(q)
    OBVIOUS
  <1>2. r \in Seq(S) /\ Len(r) = Len(q) - 1
    BY <1>1
  <1>3. r \in Seq(ToSet(r))
    BY <1>2 DEF ToSet
  <1> QED BY <1>1, <1>2, <1>3 DEF IsSeq

LEMMA NextOfBody ==
    ASSUME NEW s, NEW t, BodySound(s), s.docs # <<>>, AtNext(s, t)
    PROVE  BodySound(t) /\ Dealt(t) = Dealt(s) + 1
  <1>1. /\ s.docs \in Seq(ToSet(s.docs)) /\ s.body \in Seq(ToSet(s.body))
        /\ Len(s.docs) <= Len(s.body)
        /\ \A i \in DOMAIN s.docs : s.docs[i] = s.body[i + Dealt(s)]
    BY DEF BodySound, IsSeq
  <1> DEFINE n == Len(s.body)
             k == Len(s.docs)
  <1>2. /\ n \in Nat /\ k \in Nat /\ k <= n /\ k # 0 /\ DOMAIN s.docs = 1 .. k
        /\ IsSeq(Tail(s.docs)) /\ Len(Tail(s.docs)) = k - 1
        /\ \A i \in 1 .. k - 1 : Tail(s.docs)[i] = s.docs[i + 1]
        /\ DOMAIN Tail(s.docs) = 1 .. k - 1
    <2>1. IsSeq(Tail(s.docs)) /\ k \in Nat \ {0} /\ DOMAIN s.docs = 1 .. k
          /\ Len(Tail(s.docs)) = k - 1 /\ DOMAIN Tail(s.docs) = 1 .. k - 1
          /\ \A i \in 1 .. k - 1 : Tail(s.docs)[i] = s.docs[i + 1]
      BY <1>1, Rest
    <2> QED BY <1>1, <2>1
  <1>3. t.docs = Tail(s.docs) /\ t.body = s.body
    BY DEF AtNext
  <1>4. IsSeq(t.docs)
    BY <1>2, <1>3
  <1>5. Dealt(s) = n - k /\ Dealt(t) = n - (k - 1)
    BY <1>2, <1>3 DEF Dealt
  <1> HIDE DEF n, k
  <1>6. ASSUME NEW i \in 1 .. k - 1 PROVE Tail(s.docs)[i] = s.body[i + (n - (k - 1))]
    <2>1. i + 1 \in 1 .. k /\ (i + 1) + (n - k) = i + (n - (k - 1))
      BY <1>2
    <2> QED BY <1>1, <1>2, <1>5, <2>1
  <1>7. n - (k - 1) = (n - k) + 1 /\ k - 1 <= n
    BY <1>2
  <1> QED BY <1>2, <1>3, <1>4, <1>5, <1>6, <1>7 DEF BodySound, n


\* A document is dealt with: rows of its context may have changed, others have not, and it
\* is in one of them if it is one that could be stored.
LEMMA OneMoreDealt ==
    ASSUME NEW s, NEW t, NEW rs, NEW ts, DealtSound(s, rs), s.docs # <<>>, AtNext(s, t),
           NEW doc, doc = Head(s.docs),
           \A r \in rs : r \in ts \/ r.context = doc.context,
           \A c \in s.cache : c.id \in IdsOf(ts),
           \A r \in ts, c \in s.cache : r.id = c.id => r.table = c.table /\ r.context = c.context,
           /\ Older!Storable(s, doc)
           /\ \A j \in 1 .. Dealt(s) : s.body[j].context # doc.context
           => Held(t, ts, doc)
    PROVE  DealtSound(t, ts)
  <1> DEFINE n == Dealt(s)
  <1>1. BodySound(s) /\ LookedUpSound(s, rs)
    BY DEF DealtSound
  <1>2. n \in Nat /\ n + 1 \in DOMAIN s.body /\ doc = s.body[n + 1]
    BY <1>1, HeadOfBody
  <1>3. BodySound(t) /\ Dealt(t) = n + 1
    BY <1>1, NextOfBody
  <1>4. /\ t.body = s.body /\ t.cache = s.cache /\ t.table = s.table /\ t.time = s.time
        /\ t.group = s.group /\ s.touch \subseteq t.touch
    BY DEF AtNext
  <1>5. DOMAIN s.body \subseteq Int /\ 1 .. n \subseteq DOMAIN s.body
    <2>1. DOMAIN s.body = 1 .. Len(s.body) /\ Len(s.body) \in Nat
      BY <1>1 DEF BodySound, IsSeq
    <2> QED BY <1>2, <2>1
  <1>6. \A x : Older!Storable(t, x) <=> Older!Storable(s, x)
    BY <1>4 DEF Older!Storable
  <1>7. \A j : Older!OnlyOne(t, j) <=> Older!OnlyOne(s, j)
    BY <1>4 DEF Older!OnlyOne
  <1> HIDE DEF n
  <1>8. LookedUpSound(t, ts)
    <2>1. ASSUME NEW c \in s.cache
          PROVE  c \in ts \/ \E j \in 1 .. n + 1 : s.body[j].context = c.context
      <3>1. CASE c \in rs
        <4>1. n + 1 \in 1 .. n + 1
          BY <1>2
        <4> QED BY <1>2, <3>1, <4>1
      <3>2. CASE \E j \in 1 .. n : s.body[j].context = c.context
        <4>1. 1 .. n \subseteq 1 .. n + 1
          BY <1>2
        <4> QED BY <3>2, <4>1
      <3> QED BY <1>1, <3>1, <3>2 DEF LookedUpSound, n
    <2>2. IsFiniteSet(s.cache) /\ \A c \in s.cache : c.table = s.table
      BY <1>1 DEF LookedUpSound
    <2> QED BY <1>3, <1>4, <2>1, <2>2 DEF LookedUpSound
  <1>9. ASSUME NEW j \in 1 .. n + 1, Older!Storable(s, s.body[j]), Older!OnlyOne(s, j)
        PROVE  Held(t, ts, s.body[j])
    <2>1. CASE j = n + 1
      <3>1. \A i \in 1 .. n : i \in DOMAIN s.body \ {j}
        BY <1>2, <1>5, <2>1
      <3>2. \A i \in 1 .. n : s.body[i].context # doc.context
        BY <1>2, <1>9, <2>1, <3>1 DEF Older!OnlyOne
      <3> QED BY <1>2, <1>9, <2>1, <3>2 DEF n
    <2>2. CASE j # n + 1
      <3>1. j \in 1 .. n /\ n + 1 \in DOMAIN s.body \ {j}
        BY <1>2, <2>2
      <3>2. doc.context # s.body[j].context
        BY <1>2, <1>9, <3>1 DEF Older!OnlyOne
      <3>3. Held(s, rs, s.body[j])
        BY <1>9, <3>1 DEF DealtSound, n
      <3> QED BY <1>4, <3>2, <3>3 DEF Held
    <2> QED BY <2>1, <2>2
  <1> QED BY <1>3, <1>4, <1>6, <1>7, <1>8, <1>9 DEF DealtSound

\* A row with nothing to change says what the document does.
LEMMA SameTells ==
    ASSUME NEW r, NEW doc, ~Older!Different(r, doc.data)
    PROVE  Tells(r, doc)
  BY DEF Older!Different, Tells


\* The fields of a feeder at its next document.
LEMMA NextFields ==
    ASSUME NEW s, DOMAIN s = OldFeederFields
    PROVE  LET t == Older!Next_(s) IN
           /\ DOMAIN t = OldFeederFields /\ AtNext(s, t) /\ t.pc = s.pc /\ t.ops = s.ops
           /\ t.alone = s.alone /\ t.undone = s.undone /\ t.aborted = s.aborted
           /\ t.touch = s.touch /\ t.known = s.known
  BY DEF Older!Next_, OldFeederFields, Older!Fresh, AtNext

\* One feeder moves, and commits nothing if it is idle.
LEMMA LoneMoves ==
    ASSUME FullInv, NEW f \in Feeders, faults' \in Nat,
           \A g \in Feeders \ {f} : feeder'[g] = feeder[g],
           feeder'[f].alone => feeder[f].alone,
           feeder[f].pc = "idle" => feeder'[f].pc = "idle" /\ rows' = rows,
           Lone(feeder'[f]) => DealtSound(feeder'[f], Pending(rows', feeder'[f].ops))
    PROVE  FullInv'
  <1>1. ASSUME NEW g \in Feeders, NEW h \in Feeders, g # h, feeder'[g].alone
        PROVE  feeder'[h].pc = "idle"
    <2>1. feeder[g].alone
      BY <1>1
    <2>2. feeder[h].pc = "idle"
      BY <1>1, <2>1 DEF FullInv
    <2> QED BY <2>2
  <1>2. ASSUME NEW g \in Feeders \ {f}, Lone(feeder'[g])
        PROVE  DealtSound(feeder'[g], Pending(rows', feeder'[g].ops))
    <2>1. feeder'[g] = feeder[g] /\ Lone(feeder[g])
      BY <1>2
    <2>2. feeder[f].pc = "idle"
      BY <2>1 DEF FullInv, Lone
    <2>3. DealtSound(feeder[g], Pending(rows, feeder[g].ops))
      BY <2>1 DEF FullInv
    <2> QED BY <2>1, <2>2, <2>3
  <1>3. ASSUME NEW g \in Feeders, Lone(feeder'[g])
        PROVE  DealtSound(feeder'[g], Pending(rows', feeder'[g].ops))
    BY <1>2, <1>3
  <1> QED BY <1>1, <1>3 DEF FullInv, Lone

\* The rows that a transaction sees have all fields, and what was looked up is not new.
LEMMA Seen ==
    ASSUME OldInv, NEW f \in Feeders
    PROVE  /\ IsSeq(feeder[f].ops) /\ \A r \in Pending(rows, feeder[f].ops) : OldRow(r)
           /\ \A c \in feeder[f].cache : c.id # nextId
  <1>1. /\ OldOps(feeder[f].ops, feeder[f].time) /\ Apart(rows) /\ IsFiniteSet(rows)
        /\ nextId \in Nat /\ \A r \in rows : OldRow(r) /\ r.id \in Nat /\ r.id < nextId
        /\ \A c \in feeder[f].cache : c.id \in IdsOf(rows)
    BY DEF OldInv, OldRowsSound, OldFeederSound, Known
  <1>2. OldBecome(Pending(rows, feeder[f].ops), feeder[f].ops, Len(feeder[f].ops), feeder[f].time)
    BY <1>1, OldViewed
  <1> QED BY <1>1, <1>2 DEF OldBecome, OldOps, IdsOf

LEMMA InsertStores ==
    ASSUME OldInv, FullInv, NEW f \in Feeders, Older!Insert(f) PROVE FullInv'
  <1> DEFINE s == feeder[f]
             doc == Older!Doc(s)
             seen == Pending(rows, s.ops)
  <1>1. PICK row, op, t :
           /\ row = [id |-> nextId, table |-> s.table, created |-> s.time,
                     updated |-> s.time, context |-> doc.context, data |-> doc.data]
           /\ op = [do |-> "insert", row |-> row]
           /\ t = [Older!Next_(s) EXCEPT !.ops = Append(@, op)]
           /\ feeder' = [feeder EXCEPT ![f] = t]
    BY DEF Older!Insert
  <1>2. UNCHANGED <<rows, faults>> /\ s.pc = "documents" /\ s.docs # <<>>
    BY DEF Older!Insert, Older!AtDocument
  <1>3. DOMAIN feeder = Feeders /\ DOMAIN s = OldFeederFields /\ "ops" \in OldFeederFields
    BY FeederFieldsThere
  <1>4. /\ feeder'[f] = t /\ AtNext(s, t) /\ t.pc = s.pc /\ t.ops = Append(s.ops, op)
        /\ t.alone = s.alone /\ t.undone = s.undone /\ t.aborted = s.aborted
        /\ t.touch = s.touch
    <2>1. LET n == Older!Next_(s) IN
          /\ DOMAIN n = OldFeederFields /\ AtNext(s, n) /\ n.pc = s.pc /\ n.ops = s.ops
          /\ n.alone = s.alone /\ n.undone = s.undone /\ n.aborted = s.aborted
          /\ n.touch = s.touch
      BY <1>3, NextFields
    <2> QED BY <1>1, <1>3, <2>1 DEF AtNext
  <1>5. /\ IsSeq(s.ops) /\ (\A r \in seen : OldRow(r)) /\ \A c \in s.cache : c.id # nextId
    BY Seen
  <1>6. Pending(rows', t.ops) = seen \cup {row}
    <2>1. Pending(rows, t.ops) = Older!Execute(seen, op)
      BY <1>4, <1>5, OneMorePending
    <2>2. op.do = "insert" /\ op.row = row
      BY <1>1
    <2> QED BY <1>2, <2>1, <2>2 DEF Older!Execute
  <1> HIDE DEF seen
  <1>7. ASSUME Lone(t) PROVE DealtSound(t, seen \cup {row})
    <2>1. DealtSound(s, seen)
      BY <1>4, <1>7 DEF FullInv, Lone, seen
    <2>2. \A c \in s.cache : c.id \in IdsOf(seen \cup {row})
      BY <2>1 DEF DealtSound, LookedUpSound, IdsOf
    <2>3. ASSUME NEW r \in seen \cup {row}, NEW c \in s.cache, r.id = c.id
          PROVE  r.table = c.table /\ r.context = c.context
      BY <1>1, <1>5, <2>1, <2>3 DEF DealtSound, LookedUpSound
    <2>4. Held(t, seen \cup {row}, doc)
      BY <1>1, <1>4 DEF Held, Tells, AtNext
    <2>5. doc = Head(s.docs)
      BY DEF Older!Doc
    <2> HIDE DEF doc
    <2> QED BY <1>2, <1>4, <2>1, <2>2, <2>3, <2>4, <2>5, OneMoreDealt
  <1>8. faults' \in Nat
    BY <1>2 DEF FullInv
  <1>9. \A g \in Feeders \ {f} : feeder'[g] = feeder[g]
    BY <1>1, <1>3
  <1> QED BY <1>2, <1>4, <1>6, <1>7, <1>8, <1>9, LoneMoves


LEMMA SameCount == ASSUME NEW S PROVE Older!Cardinality(S) = Cardinality(S)
  BY Zenon DEF Older!Cardinality, Cardinality

\* A document that is skipped is not one that could be stored.
LEMMA SkippedUnstorable ==
    ASSUME NEW f \in Feeders, Older!Skip(f), ~feeder[f].aborted, IsFiniteSet(feeder[f].cache)
    PROVE  ~Older!Storable(feeder[f], Older!Doc(feeder[f]))
  <1> DEFINE s == feeder[f]
             found == Older!Found(s)
  <1>1. found = {r \in s.cache : r.context = Older!Doc(s).context}
    BY DEF Older!Found
  <1>2. Older!Cardinality(found) \in Nat
    <2>1. IsFiniteSet(found)
      BY <1>1, FS_Subset
    <2> QED BY <2>1, FS_CardinalityType, SameCount
  <1>3. CASE Older!Foreign(s)
    BY <1>3 DEF Older!Foreign, Older!Storable
  <1>4. CASE Older!Cardinality(found) > 1
    BY <1>1, <1>2, <1>4 DEF Older!Storable
  <1>5. CASE \E r \in found :
                Older!Different(r, Older!Doc(s).data) /\ s.group \in DOMAIN Partitions
    BY <1>1, <1>5 DEF Older!Storable
  <1> QED BY <1>3, <1>4, <1>5 DEF Older!Skip

LEMMA SkipStores ==
    ASSUME OldInv, FullInv, NEW f \in Feeders, Older!Skip(f) PROVE FullInv'
  <1> DEFINE s == feeder[f]
             t == Older!Next_(s)
             doc == Older!Doc(s)
             seen == Pending(rows, s.ops)
  <1>1. /\ feeder' = [feeder EXCEPT ![f] = t] /\ UNCHANGED <<rows, faults>>
        /\ s.pc = "documents" /\ s.docs # <<>>
    BY DEF Older!Skip, Older!AtDocument
  <1>2. DOMAIN feeder = Feeders /\ DOMAIN s = OldFeederFields
    BY FeederFieldsThere
  <1>3. /\ feeder'[f] = t /\ AtNext(s, t) /\ t.pc = s.pc /\ t.ops = s.ops
        /\ t.alone = s.alone /\ t.undone = s.undone /\ t.aborted = s.aborted
    BY <1>1, <1>2, NextFields
  <1> HIDE DEF seen, t
  <1>4. ASSUME Lone(t) PROVE DealtSound(t, seen)
    <2>1. DealtSound(s, seen) /\ ~s.aborted
      BY <1>3, <1>4 DEF FullInv, Lone, seen
    <2>2. /\ \A c \in s.cache : c.id \in IdsOf(seen)
          /\ \A r \in seen, c \in s.cache :
                r.id = c.id => r.table = c.table /\ r.context = c.context
          /\ IsFiniteSet(s.cache)
      BY <2>1 DEF DealtSound, LookedUpSound
    <2>3. ~Older!Storable(s, doc)
      BY <2>1, <2>2, SkippedUnstorable
    <2>4. doc = Head(s.docs)
      BY DEF Older!Doc
    <2> HIDE DEF doc
    <2> QED BY <1>1, <1>3, <2>1, <2>2, <2>3, <2>4, OneMoreDealt
  <1>5. faults' \in Nat
    BY <1>1 DEF FullInv
  <1>6. \A g \in Feeders \ {f} : feeder'[g] = feeder[g]
    BY <1>1, <1>2
  <1> QED BY <1>1, <1>3, <1>4, <1>5, <1>6, LoneMoves DEF seen

LEMMA TouchStores ==
    ASSUME OldInv, FullInv, NEW f \in Feeders, Older!Touch(f) PROVE FullInv'
  <1> DEFINE s == feeder[f]
             doc == Older!Doc(s)
             seen == Pending(rows, s.ops)
  <1>1. PICK q, t :
           /\ q \in Older!Found(s) /\ ~Older!Different(q, doc.data)
           /\ t = [Older!Next_(s) EXCEPT !.touch = @ \cup {q.id}]
           /\ feeder' = [feeder EXCEPT ![f] = t]
    BY DEF Older!Touch
  <1>2. UNCHANGED <<rows, faults>> /\ s.pc = "documents" /\ s.docs # <<>>
    BY DEF Older!Touch, Older!AtDocument
  <1>3. DOMAIN feeder = Feeders /\ DOMAIN s = OldFeederFields /\ "touch" \in OldFeederFields
    BY FeederFieldsThere
  <1>4. /\ feeder'[f] = t /\ AtNext(s, t) /\ t.pc = s.pc /\ t.ops = s.ops
        /\ t.alone = s.alone /\ t.undone = s.undone /\ t.aborted = s.aborted
        /\ q.id \in t.touch
    <2>1. LET n == Older!Next_(s) IN
          /\ DOMAIN n = OldFeederFields /\ AtNext(s, n) /\ n.pc = s.pc /\ n.ops = s.ops
          /\ n.alone = s.alone /\ n.undone = s.undone /\ n.aborted = s.aborted
          /\ n.touch = s.touch
      BY <1>3, NextFields
    <2> QED BY <1>1, <1>3, <2>1 DEF AtNext
  <1>5. q \in s.cache /\ q.context = doc.context
    BY <1>1 DEF Older!Found
  <1> HIDE DEF seen
  <1>6. ASSUME Lone(t) PROVE DealtSound(t, seen)
    <2>1. DealtSound(s, seen)
      BY <1>4, <1>6 DEF FullInv, Lone, seen
    <2>2. /\ \A c \in s.cache : c.id \in IdsOf(seen)
          /\ \A r \in seen, c \in s.cache :
                r.id = c.id => r.table = c.table /\ r.context = c.context
          /\ q.table = s.table
          /\ q \in seen \/ \E j \in 1 .. Dealt(s) : s.body[j].context = q.context
      BY <1>5, <2>1 DEF DealtSound, LookedUpSound
    <2>3. ASSUME \A j \in 1 .. Dealt(s) : s.body[j].context # doc.context
          PROVE  Held(t, seen, doc)
      <3>1. Tells(q, doc) /\ t.table = s.table
        BY <1>1, <1>4, SameTells DEF AtNext
      <3> QED BY <1>4, <1>5, <2>2, <2>3, <3>1 DEF Held
    <2>4. doc = Head(s.docs)
      BY DEF Older!Doc
    <2> HIDE DEF doc
    <2> QED BY <1>2, <1>4, <2>1, <2>2, <2>3, <2>4, OneMoreDealt
  <1>7. faults' \in Nat
    BY <1>2 DEF FullInv
  <1>8. \A g \in Feeders \ {f} : feeder'[g] = feeder[g]
    BY <1>1, <1>3
  <1> QED BY <1>2, <1>4, <1>6, <1>7, <1>8, LoneMoves DEF seen

LEMMA OthersStore ==
    ASSUME OldInv, FullInv, NEW f \in Feeders,
           \/ \E m \in OldMessages : Older!Refuse(f, m)
           \/ Older!Fail(f) \/ Older!Restart(f)
    PROVE  FullInv'
  <1> DEFINE s == feeder[f]
  <1>1. /\ faults \in Nat /\ DOMAIN feeder = Feeders /\ DOMAIN s = OldFeederFields
        /\ {"pc", "known", "aborted", "undone", "alone"} \subseteq OldFeederFields
    BY FeederFieldsThere DEF FullInv
  <1>2. ASSUME NEW m \in OldMessages, Older!Refuse(f, m) PROVE FullInv'
    <2>1. /\ UNCHANGED <<rows, faults>> /\ s.pc = "idle"
          /\ \E a, k : feeder' = [feeder EXCEPT ![f].aborted = a, ![f].known = k]
      BY <1>2 DEF Older!Refuse
    <2>2. /\ feeder'[f].pc = "idle" /\ feeder'[f].alone = s.alone
          /\ \A g \in Feeders \ {f} : feeder'[g] = feeder[g]
      BY <1>1, <2>1
    <2> QED BY <1>1, <2>1, <2>2, LoneMoves DEF Lone
  <1>3. CASE Older!Fail(f)
    <2>1. /\ rows' = rows /\ faults' = faults + 1 /\ s.pc = "documents"
          /\ feeder' = [feeder EXCEPT ![f] = [Older!Next_(s) EXCEPT !.aborted = TRUE,
                                                                    !.undone = TRUE]]
      BY <1>3 DEF Older!Fail, Older!AtDocument
    <2>2. LET n == Older!Next_(s) IN DOMAIN n = OldFeederFields /\ n.alone = s.alone
      BY <1>1, NextFields
    <2>3. /\ feeder'[f].aborted = TRUE /\ feeder'[f].alone = s.alone
          /\ \A g \in Feeders \ {f} : feeder'[g] = feeder[g]
      BY <1>1, <2>1, <2>2
    <2> QED BY <1>1, <2>1, <2>3, LoneMoves DEF Lone
  <1>4. CASE Older!Restart(f)
    <2>1. rows' = rows /\ faults' = faults + 1 /\ feeder' = [feeder EXCEPT ![f] = Older!Fresh]
      BY <1>4 DEF Older!Restart
    <2>2. /\ feeder'[f] = Older!Fresh /\ Older!Fresh.pc = "idle" /\ Older!Fresh.alone = FALSE
          /\ \A g \in Feeders \ {f} : feeder'[g] = feeder[g]
      BY <1>1, <2>1 DEF Older!Fresh
    <2> QED BY <1>1, <2>1, <2>2, LoneMoves DEF Lone
  <1> QED BY <1>2, <1>3, <1>4


\* The documents of a message are a sequence.
LEMMA DocumentsInSequence ==
    ASSUME NEW m \in OldMessages
    PROVE  IsSeq(Older!Documents(m))
  <1>1. m.data \in Seq({m.data[i] : i \in DOMAIN m.data})
    BY StoresAssumption DEF Older!HstoreAssumption
  <1>2. PICK n \in Nat : DOMAIN m.data = 1 .. n
    BY <1>1
  <1>3. PICK d : d = Older!Documents(m)
    OBVIOUS
  <1>4. d = [i \in 1 .. n |-> Older!Document(m, m.data[i])]
    BY <1>2, <1>3 DEF Older!Documents
  <1>5. d = [i \in 1 .. n |-> d[i]]
    BY <1>4
  <1>6. d \in Seq(ToSet(d))
    BY <1>5 DEF ToSet
  <1> QED BY <1>3, <1>6 DEF IsSeq

LEMMA TakeStores ==
    ASSUME OldInv, FullInv, NEW f \in Feeders, NEW m \in OldMessages, Older!Take(f, m)
    PROVE  FullInv'
  <1> DEFINE s == feeder[f]
  <1>0. PICK t : t = Older!PreBulkProcess(s, m)
    OBVIOUS
  <1>1. UNCHANGED <<rows, faults>> /\ feeder' = [Older!Others(f) EXCEPT ![f] = t]
    BY <1>0 DEF Older!Take
  <1>2. DOMAIN feeder = Feeders /\ \A g \in Feeders : DOMAIN feeder[g] = OldFeederFields
    BY FeederFieldsThere
  <1>3. feeder'[f] = t /\ \A g \in Feeders \ {f} :
                             feeder'[g].alone = FALSE /\ feeder'[g].pc = feeder[g].pc
    BY <1>1, <1>2 DEF Older!Others, OldFeederFields, Older!Fresh
  <1>4. /\ t.docs = Older!Documents(m) /\ t.body = Older!Documents(m) /\ t.ops = <<>>
        /\ t.alone = (\A g \in Feeders : feeder[g].pc = "idle")
        /\ t.cache \subseteq rows /\ \A c \in t.cache : c.table = t.table
    BY <1>0, <1>2 DEF Older!PreBulkProcess, OldFeederFields, Older!Fresh
  <1>5. BodySound(t) /\ Dealt(t) = 0
    <2>1. PICK d : d = Older!Documents(m)
      OBVIOUS
    <2>2. d \in Seq(ToSet(d)) /\ IsSeq(d)
      BY <2>1, DocumentsInSequence DEF IsSeq
    <2>3. Len(d) \in Nat /\ Len(d) - Len(d) = 0 /\ DOMAIN d \subseteq Int
      BY <2>2
    <2>4. t.docs = d /\ t.body = d
      BY <1>4, <2>1
    <2> QED BY <2>2, <2>3, <2>4 DEF BodySound, Dealt
  <1>6. LookedUpSound(t, rows)
    <2>1. IsFiniteSet(rows) /\ Apart(rows)
      BY DEF OldInv, OldRowsSound
    <2>2. IsFiniteSet(t.cache)
      BY <1>4, <2>1, FS_Subset
    <2> QED BY <1>4, <2>1, <2>2 DEF LookedUpSound, Apart, IdsOf
  <1>7. DealtSound(t, Pending(rows, t.ops))
    BY <1>4, <1>5, <1>6, NothingPending DEF DealtSound
  <1>8. ASSUME NEW g \in Feeders, NEW h \in Feeders, g # h, feeder'[g].alone
        PROVE  feeder'[h].pc = "idle"
    <2>1. g = f /\ h \in Feeders \ {f}
      BY <1>3, <1>8
    <2> QED BY <1>3, <1>4, <1>8, <2>1
  <1>9. ASSUME NEW g \in Feeders, Lone(feeder'[g])
        PROVE  DealtSound(feeder'[g], Pending(rows', feeder'[g].ops))
    <2>1. g = f
      BY <1>3, <1>9 DEF Lone
    <2> QED BY <1>1, <1>3, <1>7, <2>1
  <1> QED BY <1>1, <1>8, <1>9 DEF FullInv, Lone

\* What a transaction sees once it has changed a row that was looked up.
LEMMA ChangeStores ==
    ASSUME NEW s, NEW t, NEW rs, NEW q \in s.cache, NEW op, NEW doc, doc = Head(s.docs),
           DealtSound(s, rs), \A r \in rs : OldRow(r), s.docs # <<>>, AtNext(s, t),
           op.do = "replace", op.row = q, op.doc = doc, op.time = s.time,
           q.context = doc.context
    PROVE  DealtSound(t, Older!Execute(rs, op))
  <1> DEFINE ts == Older!Execute(rs, op)
             changed(r) == [r EXCEPT !.created = op.time, !.updated = op.time,
                                     !.context = op.doc.context, !.data = op.doc.data]
             after(r) == IF r.id = q.id THEN changed(r) ELSE r
  <1>1. ts = {after(r) : r \in rs}
    BY DEF Older!Execute
  <1>2. ASSUME NEW r \in rs
        PROVE  /\ changed(r).id = r.id /\ changed(r).table = r.table
               /\ changed(r).updated = s.time /\ changed(r).context = doc.context
               /\ changed(r).data = doc.data
    BY DEF OldRow
  <1>3. /\ \A c \in s.cache : c.table = s.table /\ c.id \in IdsOf(rs)
        /\ \A r \in rs, c \in s.cache : r.id = c.id => r.table = c.table /\ r.context = c.context
    BY DEF DealtSound, LookedUpSound
  <1> HIDE DEF ts, changed
  <1>4. \A r \in rs : r \in ts \/ r.context = doc.context
    BY <1>1, <1>3
  <1>5. \A c \in s.cache : c.id \in IdsOf(ts)
    <2>1. ASSUME NEW c \in s.cache PROVE c.id \in IdsOf(ts)
      <3>1. PICK r \in rs : r.id = c.id
        BY <1>3 DEF IdsOf
      <3>2. after(r) \in ts /\ after(r).id = c.id
        BY <1>1, <1>2, <3>1
      <3> QED BY <3>2 DEF IdsOf
    <2> QED BY <2>1
  <1>6. ASSUME NEW r \in ts, NEW c \in s.cache, r.id = c.id
        PROVE  r.table = c.table /\ r.context = c.context
    <2>1. PICK x \in rs : r = after(x)
      BY <1>1
    <2>2. x.id = c.id
      BY <1>2, <1>6, <2>1
    <2> QED BY <1>2, <1>3, <2>1, <2>2
  <1>7. Held(t, ts, doc)
    <2>1. PICK r \in rs : r.id = q.id /\ r.table = s.table
      BY <1>3 DEF IdsOf
    <2>2. changed(r) \in ts
      BY <1>1, <2>1
    <2>3. Tells(changed(r), doc)
      BY <1>2 DEF Tells
    <2>4. t.table = s.table /\ t.time = s.time
      BY DEF AtNext
    <2> QED BY <1>2, <2>1, <2>2, <2>3, <2>4 DEF Held
  <1> QED BY <1>4, <1>5, <1>6, <1>7, OneMoreDealt DEF ts


LEMMA ArchiveStores ==
    ASSUME OldInv, FullInv, NEW f \in Feeders, Older!ArchiveAndUpdate(f) PROVE FullInv'
  <1> DEFINE s == feeder[f]
             doc == Older!Doc(s)
             seen == Pending(rows, s.ops)
             h == Older!Historic(s.group)
             stranger == h \notin s.known
             base == IF stranger THEN <<>> ELSE s.ops
  <1>1. PICK q, op, t :
           /\ q \in Older!Found(s)
           /\ op = [do |-> "replace", row |-> q, doc |-> doc, time |-> s.time]
           /\ t = [Older!Next_(s) EXCEPT
                     !.known = @ \cup {h},
                     !.undone = @ \/ (stranger /\ h \in exist /\ s.ops # <<>>),
                     !.ops = Append(IF stranger THEN <<>> ELSE @, op)]
           /\ feeder' = [feeder EXCEPT ![f] = t]
    BY DEF Older!ArchiveAndUpdate
  <1>2. /\ faults' = faults /\ s.pc = "documents" /\ s.docs # <<>>
        /\ IF stranger /\ h \notin exist THEN rows' = seen ELSE rows' = rows
    BY DEF Older!ArchiveAndUpdate, Older!AtDocument, Older!Commit, Pending
  <1>3. /\ DOMAIN feeder = Feeders /\ DOMAIN s = OldFeederFields
        /\ {"ops", "known", "undone"} \subseteq OldFeederFields
    BY FeederFieldsThere
  <1>4. /\ feeder'[f] = t /\ AtNext(s, t) /\ t.pc = s.pc /\ t.ops = Append(base, op)
        /\ t.alone = s.alone /\ t.aborted = s.aborted
        /\ t.undone = (s.undone \/ (stranger /\ h \in exist /\ s.ops # <<>>))
    <2>1. PICK n : n = Older!Next_(s)
      OBVIOUS
    <2>2. /\ DOMAIN n = OldFeederFields /\ AtNext(s, n) /\ n.pc = s.pc /\ n.ops = s.ops
          /\ n.alone = s.alone /\ n.undone = s.undone /\ n.aborted = s.aborted
      BY <1>3, <2>1, NextFields
    <2>3. PICK known, undone, more :
            /\ undone = (s.undone \/ (stranger /\ h \in exist /\ s.ops # <<>>))
            /\ more = Append(base, op)
            /\ t = [n EXCEPT !.known = known, !.undone = undone, !.ops = more]
      BY <1>1, <2>1, <2>2
    <2> HIDE DEF h, base
    <2>4. {"undone", "ops"} \subseteq DOMAIN n
      BY <1>3, <2>2
    <2>5. /\ t.body = n.body /\ t.docs = n.docs /\ t.cache = n.cache /\ t.table = n.table
          /\ t.time = n.time /\ t.group = n.group /\ t.touch = n.touch /\ t.pc = n.pc
          /\ t.alone = n.alone /\ t.aborted = n.aborted
          /\ t.undone = undone /\ t.ops = more
      BY <2>3, <2>4
    <2>6. feeder'[f] = t
      BY <1>1, <1>3
    <2> QED BY <2>2, <2>3, <2>5, <2>6 DEF AtNext
  <1>5. IsSeq(s.ops) /\ \A r \in seen : OldRow(r)
    BY Seen
  <1>6. q \in s.cache /\ q.context = doc.context
    BY <1>1 DEF Older!Found
  <1>7. ASSUME Lone(t) PROVE Pending(rows', base) = seen
    <2>1. CASE ~stranger
      BY <1>2, <2>1
    <2>2. CASE stranger /\ h \notin exist
      BY <1>2, <2>2, NothingPending
    <2>3. CASE stranger /\ h \in exist
      <3>1. ~t.undone
        BY <1>7 DEF Lone
      <3>2. s.ops = <<>>
        BY Zenon, <1>4, <2>3, <3>1
      <3> QED BY <1>2, <2>3, <3>2
    <2> QED BY <2>1, <2>2, <2>3
  <1>8. IsSeq(base)
    <2>1. IsSeq(<<>>)
      BY DEF IsSeq
    <2> QED BY <1>5, <2>1
  <1> HIDE DEF seen, base, h
  <1>9. ASSUME Lone(t) PROVE DealtSound(t, Pending(rows', t.ops))
    <2>1. DealtSound(s, seen)
      BY <1>4, <1>9 DEF FullInv, Lone, seen
    <2>2. Pending(rows', t.ops) = Older!Execute(seen, op)
      <3>1. Pending(rows', Append(base, op)) = Older!Execute(Pending(rows', base), op)
        BY <1>8, OneMorePending
      <3> QED BY <1>4, <1>7, <1>9, <3>1
    <2>3. doc = Head(s.docs)
      BY DEF Older!Doc
    <2>4. op.do = "replace" /\ op.row = q /\ op.doc = doc /\ op.time = s.time
      BY <1>1
    <2> HIDE DEF doc, s
    <2>5. DealtSound(t, Older!Execute(seen, op))
      BY <1>2, <1>4, <1>5, <1>6, <2>1, <2>3, <2>4, ChangeStores
    <2> QED BY <2>2, <2>5
  <1>10. faults' \in Nat
    BY <1>2 DEF FullInv
  <1>11. \A g \in Feeders \ {f} : feeder'[g] = feeder[g]
    BY <1>1, <1>3
  <1> QED BY <1>2, <1>4, <1>9, <1>10, <1>11, LoneMoves

\* At the end, feeders are idle.
LEMMA EndStores ==
    ASSUME OldInv, FullInv, NEW f \in Feeders, Older!PostBulkProcess(f) PROVE FullInv'
  <1>1. PICK t : /\ feeder' = [feeder EXCEPT ![f] = t] /\ t.pc = "idle" /\ t.alone = FALSE
    <2> DEFINE t == [Older!Fresh EXCEPT !.known = feeder[f].known,
                        !.aborted = feeder[f].aborted /\ feeder[f].touch # {}]
    <2>1. feeder' = [feeder EXCEPT ![f] = t]
      BY DEF Older!PostBulkProcess
    <2>2. t.pc = "idle" /\ t.alone = FALSE
      BY DEF Older!Fresh
    <2> QED BY <2>1, <2>2
  <1>2. DOMAIN feeder = Feeders /\ faults' = faults /\ feeder[f].pc = "documents"
    BY FeederFieldsThere DEF Older!PostBulkProcess
  <1>3. /\ feeder'[f] = t /\ faults' \in Nat
        /\ \A g \in Feeders \ {f} : feeder'[g] = feeder[g]
    BY <1>1, <1>2 DEF FullInv
  <1> QED BY <1>1, <1>2, <1>3, LoneMoves DEF Lone

\* Every step keeps the invariant.
LEMMA FullInvKept == OldInv /\ FullInv /\ [Older!Next]_(Older!hvars) => FullInv'
  <1> SUFFICES ASSUME OldInv, FullInv, [Older!Next]_(Older!hvars) PROVE FullInv'
    OBVIOUS
  <1>1. CASE Older!Next
    <2>1. PICK f \in Feeders :
            \/ \E m \in OldMessages : Older!Take(f, m)
            \/ Older!Insert(f) \/ Older!ArchiveAndUpdate(f) \/ Older!PostBulkProcess(f)
            \/ Older!Skip(f) \/ Older!Touch(f)
            \/ \E m \in OldMessages : Older!Refuse(f, m)
            \/ Older!Fail(f) \/ Older!Restart(f)
      BY <1>1 DEF Older!Next
    <2> QED BY <2>1, TakeStores, InsertStores, ArchiveStores, EndStores, SkipStores,
               TouchStores, OthersStore
  <1>2. CASE UNCHANGED Older!hvars
    BY <1>2 DEF Older!hvars, FullInv
  <1> QED BY <1>1, <1>2

LEMMA OneAppended ==
    ASSUME NEW q, IsSeq(q), NEW x
    PROVE  q \o <<x>> = Append(q, x)
  <1> DEFINE all == ToSet(q) \cup {x}
             n == Len(q)
  <1>1. q \in Seq(all) /\ <<x>> \in Seq(all) /\ x \in all
    BY DEF IsSeq
  <1>2. n \in Nat /\ DOMAIN q = 1 .. n /\ Len(<<x>>) = 1
    BY <1>1
  <1> HIDE DEF all, n
  <1>3. q \o <<x>> \in Seq(all) /\ Append(q, x) \in Seq(all)
    BY <1>1
  <1>4. DOMAIN (q \o <<x>>) = 1 .. n + 1 /\ DOMAIN Append(q, x) = 1 .. n + 1
    BY <1>1, <1>2 DEF n
  <1>5. ASSUME NEW i \in 1 .. n + 1 PROVE (q \o <<x>>)[i] = Append(q, x)[i]
    BY <1>1, <1>2 DEF n
  <1>6. PICK a, b : a = q \o <<x>> /\ b = Append(q, x)
    OBVIOUS
  <1>7. a = [i \in 1 .. n + 1 |-> a[i]] /\ b = [i \in 1 .. n + 1 |-> b[i]]
    <2>1. /\ a \in Seq(all) /\ b \in Seq(all)
          /\ DOMAIN a = 1 .. n + 1 /\ DOMAIN b = 1 .. n + 1
      BY <1>3, <1>4, <1>6
    <2>2. a = [i \in DOMAIN a |-> a[i]] /\ b = [i \in DOMAIN b |-> b[i]]
      BY <2>1
    <2> QED BY <2>1, <2>2
  <1>8. \A i \in 1 .. n + 1 : a[i] = b[i]
    BY <1>5, <1>6
  <1>9. a = b
    BY <1>7, <1>8
  <1> QED BY <1>6, <1>9

\* With the time stamps, at the end, what it holds is said.
LEMMA StampedSays ==
    ASSUME OldInv, NEW f \in Feeders, Older!Commit(feeder[f].ops \o Older!Stamp(feeder[f])),
           NEW doc, Held(feeder[f], Pending(rows, feeder[f].ops), doc)
    PROVE  Older!Says(rows', doc, feeder[f].table, feeder[f].time)
  <1> DEFINE s == feeder[f]
             seen == Pending(rows, s.ops)
  <1>1. rows' = Pending(rows, s.ops \o Older!Stamp(s))
    BY DEF Older!Commit, Pending
  <1>2. IsSeq(s.ops) /\ \A r \in seen : OldRow(r)
    BY Seen
  <1>3. PICK r \in seen : /\ r.table = s.table /\ r.context = doc.context /\ Tells(r, doc)
                          /\ r.updated = s.time \/ r.id \in s.touch
    BY DEF Held
  <1>4. CASE s.touch = {}
    <2>1. Older!Stamp(s) = <<>>
      BY <1>4 DEF Older!Stamp
    <2>2. s.ops \o <<>> = s.ops
      BY <1>2 DEF IsSeq
    <2>3. rows' = seen
      BY <1>1, <2>1, <2>2
    <2> QED BY <1>3, <1>4, <2>3 DEF Older!Says, Tells
  <1>5. CASE s.touch # {}
    <2>1. PICK op : op = [do |-> "touch", ids |-> s.touch, time |-> s.time]
      OBVIOUS
    <2>2. Older!Stamp(s) = <<op>>
      BY <1>5, <2>1 DEF Older!Stamp
    <2>3. s.ops \o <<op>> = Append(s.ops, op)
      BY <1>2, OneAppended
    <2>4. rows' = Older!Execute(seen, op)
      <3>1. Pending(rows, Append(s.ops, op)) = Older!Execute(seen, op)
        BY <1>2, OneMorePending
      <3> QED BY <1>1, <2>2, <2>3, <3>1
    <2> HIDE DEF seen
    <2>5. rows' = {IF x.id \in s.touch THEN [x EXCEPT !.updated = s.time] ELSE x : x \in seen}
      BY <2>1, <2>4 DEF Older!Execute
    <2>6. CASE r.id \in s.touch
      <3> DEFINE n == [r EXCEPT !.updated = s.time]
      <3>1. n \in rows'
        BY <2>5, <2>6
      <3>2. /\ n.table = r.table /\ n.context = r.context /\ n.data = r.data
            /\ n.updated = s.time
        BY <1>2 DEF OldRow
      <3> HIDE DEF n
      <3> QED BY <1>3, <3>1, <3>2 DEF Older!Says, Tells
    <2>7. CASE r.id \notin s.touch
      <3>1. r \in rows'
        BY <2>5, <2>7
      <3> QED BY <1>3, <2>7, <3>1 DEF Older!Says, Tells
    <2> QED BY <2>6, <2>7
  <1> QED BY <1>4, <1>5

\* A feeder that ends its message has ended it itself, and without a restart.
LEMMA EndedItself ==
    ASSUME OldInv, FullInv, [Older!Next]_(Older!hvars), NEW f \in Feeders, Older!Ends(f)
    PROVE  Older!PostBulkProcess(f)
  <1> DEFINE s == feeder[f]
  <1>1. /\ s.pc = "documents" /\ s.docs = <<>> /\ feeder'[f].pc = "idle" /\ faults' = faults
        /\ faults \in Nat /\ DOMAIN feeder = Feeders
        /\ \A g \in Feeders : DOMAIN feeder[g] = OldFeederFields
    BY FeederFieldsThere DEF Older!Ends, FullInv
  <1>2. Older!Next
    BY <1>1 DEF Older!hvars
  <1>3. PICK g \in Feeders :
          \/ \E m \in OldMessages : Older!Take(g, m) \/ Older!Refuse(g, m)
          \/ Older!Skip(g) \/ Older!Insert(g) \/ Older!Touch(g) \/ Older!ArchiveAndUpdate(g)
          \/ Older!Fail(g) \/ Older!PostBulkProcess(g) \/ Older!Restart(g)
    BY <1>2 DEF Older!Next
  <1>4. ~Older!Restart(g)
    BY <1>1 DEF Older!Restart
  <1>5. ASSUME NEW m \in OldMessages, Older!Take(g, m) PROVE FALSE
    <2>1. g # f /\ \E t : feeder' = [Older!Others(g) EXCEPT ![g] = t]
      BY <1>1, <1>5 DEF Older!Take
    <2>2. feeder'[f].pc = s.pc
      BY <1>1, <2>1 DEF Older!Others, OldFeederFields, Older!Fresh
    <2> QED BY <1>1, <2>2
  <1>6. g = f
    <2> SUFFICES ASSUME g # f PROVE FALSE
      OBVIOUS
    <2>1. feeder'[f] = feeder[f]
      BY <1>1, <1>3, <1>4, <1>5
         DEF Older!Refuse, Older!Skip, Older!Insert, Older!Touch, Older!ArchiveAndUpdate,
             Older!Fail, Older!PostBulkProcess
    <2> QED BY <1>1, <2>1
  <1> QED BY <1>1, <1>3, <1>4, <1>5, <1>6
          DEF Older!Refuse, Older!AtDocument, Older!Skip, Older!Insert, Older!Touch,
              Older!ArchiveAndUpdate, Older!Fail

LEMMA AllDealt ==
    ASSUME OldInv, FullInv, [Older!Next]_(Older!hvars), NEW f \in Feeders,
           Older!Ends(f), feeder[f].alone, ~feeder[f].undone, ~feeder[f].aborted
    PROVE  Older!StoredBy(feeder[f])
  <1> DEFINE s == feeder[f]
             seen == Pending(rows, s.ops)
  <1>1. s.pc = "documents" /\ s.docs = <<>> /\ Older!PostBulkProcess(f)
    BY EndedItself DEF Older!Ends
  <1>2. DealtSound(s, seen)
    BY <1>1 DEF FullInv, Lone
  <1>3. Older!Commit(s.ops \o Older!Stamp(s))
    BY <1>1 DEF Older!PostBulkProcess
  <1>4. DOMAIN s.body = 1 .. Dealt(s)
    <2>1. s.body \in Seq(ToSet(s.body)) /\ Len(s.docs) = 0
      BY <1>1, <1>2 DEF DealtSound, BodySound, IsSeq
    <2>2. DOMAIN s.body = 1 .. Len(s.body) /\ Len(s.body) \in Nat
      BY <2>1
    <2> QED BY <2>1, <2>2 DEF Dealt
  <1>5. ASSUME NEW i \in DOMAIN s.body,
               Older!Storable(s, s.body[i]) /\ Older!OnlyOne(s, i)
        PROVE  Older!Says(rows', s.body[i], s.table, s.time)
    <2>1. Held(s, seen, s.body[i])
      BY <1>2, <1>4, <1>5 DEF DealtSound
    <2> QED BY <1>3, <2>1, StampedSays
  <1> QED BY <1>5 DEF Older!StoredBy


\* A message is stored in full (PostgresStorer, bulk_update and post_bulk_process), by any
\* feeder that had the database for itself and of whose statements none was taken back:
\* for any messages, groups, partitions and prefixes, whatever came before.
THEOREM MessagesAlwaysStored == Older!Spec => StoredInFull
  <1>1. Older!Init => OldInv /\ FullInv
    <2> SUFFICES ASSUME Older!Init PROVE FullInv
      BY OldInvFirst
    <2>1. faults = 0 /\ \A f \in Feeders : feeder[f] = Older!Fresh
      BY DEF Older!Init
    <2>2. Older!Fresh.pc = "idle" /\ Older!Fresh.alone = FALSE
      BY DEF Older!Fresh
    <2> QED BY <2>1, <2>2 DEF FullInv, Lone
  <1>2. OldInv /\ FullInv /\ [Older!Next]_(Older!hvars) =>
          [\A f \in Feeders :
              Older!Ends(f) /\ feeder[f].alone /\ ~feeder[f].undone /\ ~feeder[f].aborted
                => Older!StoredBy(feeder[f])]_(Older!hvars)
    BY AllDealt
  <1> QED BY <1>1, <1>2, OldInvKept, FullInvKept, PTL
          DEF Older!Spec, StoredInFull, Older!StoredInFull

===============================================================================
