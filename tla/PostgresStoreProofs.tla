-------------------------- MODULE PostgresStoreProofs --------------------------
(***************************************************************************)
(* The feeders of postgres keep the contract of the storage daemon         *)
(* (StoreContract): for any number of feeders, contexts and messages, any  *)
(* flags, and whatever statements and feeders fail.                        *)
(***************************************************************************)
EXTENDS PostgresStore, FiniteSetTheorems, TLAPS

-----------------------------------------------------------------------------
(* The inductive invariant *)

\* A time at which the context was reported; and values that were.
Reported(c, time) == \E p \in reports : p.ctx = c /\ p.time = time
ValuesReported(c, data) ==
    \A k \in DOMAIN data :
        \E p \in reports : p.ctx = c /\ k \in DOMAIN p.data /\ p.data[k] = data[k]

\* Rows that exist or existed: of a context that was reported at some time, or one
\* of several of their context.
BornAt(id, time) == \E c \in Contexts : id \in born[c] /\ Reported(c, time)
Several(id) == \E c \in Contexts : id \in born[c] /\ \E other \in born[c] : other # id

RowFields == {"id", "ctx", "created", "updated", "data"}

SoundRow(r) ==
    /\ DOMAIN r = RowFields /\ r.ctx \in Contexts /\ r.id \in born[r.ctx]
    /\ Reported(r.ctx, r.updated) /\ ValuesReported(r.ctx, r.data)

TableSound ==
    /\ \A r \in table : SoundRow(r)
    /\ \A q, r \in table : q.id = r.id => q = r
    /\ IsFiniteSet(table)

BornSound ==
    /\ nextId \in Nat \ {0}
    /\ DOMAIN born = Contexts
    /\ \A c \in Contexts : born[c] \subseteq 1 .. nextId - 1
    /\ \A c, d \in Contexts : born[c] \cap born[d] # {} => c = d

\* What a statement does, whenever it is executed, is sound.
NewRow(r) ==
    /\ DOMAIN r = RowFields /\ r.ctx \in Contexts /\ r.id \in 1 .. nextId - 1
    /\ \A c \in Contexts : r.id \notin born[c]
    /\ r.created = r.updated /\ Reported(r.ctx, r.updated) /\ ValuesReported(r.ctx, r.data)

OpSound(op) ==
    /\ op.do = "insert" => NewRow(op.row)
    /\ op.do = "delete" => \A id \in op.ids : Several(id)
    /\ op.do = "update" => /\ op.ctx \in Contexts /\ op.id \in born[op.ctx]
                           /\ Reported(op.ctx, op.time) /\ ValuesReported(op.ctx, op.data)
    /\ op.do = "touch" => \A id \in op.ids : BornAt(id, op.time)

IsSeq(q) == q \in Seq(ToSet(q))

\* The positions of the insertions.
Insertions(ops) == {i \in DOMAIN ops : ops[i].do = "insert"}

\* The reports of its message that a feeder still has to deal with, and their contexts.
ItemsLeft(s) == ToSet(s.items) \cup UNION {ToSet(s.bulks[i]) : i \in DOMAIN s.bulks}
Awaited(s) == {x.ctx : x \in ItemsLeft(s)}

MessageSound(f) ==
    LET s == f_[f] IN
    /\ s.bulks \in Seq(Bulks) /\ s.items \in Seq(Reports)
    /\ \A i, j \in DOMAIN s.bulks :
          i # j => ContextsOf(s.bulks[i]) \cap ContextsOf(s.bulks[j]) = {}
    /\ \A i \in DOMAIN s.bulks : ContextsOf(s.items) \cap ContextsOf(s.bulks[i]) = {}
    /\ \A x \in ItemsLeft(s) : [ctx |-> x.ctx, data |-> x.data, time |-> s.time] \in reports
    /\ s.pc # "saving" => s.items = <<>>

CacheSound(f) ==
    LET s == f_[f] IN
    /\ IsSeq(s.cache)
    /\ \A i \in DOMAIN s.cache : s.cache[i].ctx \in Awaited(s) =>
          /\ s.cache[i].id \in born[s.cache[i].ctx]
          /\ ValuesReported(s.cache[i].ctx, s.cache[i].data)

OpsSound(f) ==
    LET s == f_[f] IN
    /\ IsSeq(s.ops)
    /\ \A i \in DOMAIN s.ops : OpSound(s.ops[i])
    /\ \A i, j \in Insertions(s.ops) : s.ops[i].row.id = s.ops[j].row.id => i = j
    /\ ~s.broken => \A i \in Insertions(s.ops), j \in DOMAIN s.bulks :
                        s.ops[i].row.ctx \notin ContextsOf(s.bulks[j])
    /\ s.pc = "idle" /\ ~s.broken => s.ops = <<>>

PutOffSound(f) ==
    LET s == f_[f] IN
    /\ \A id \in s.touched : BornAt(id, s.time)
    /\ \A id \in s.doomed : Several(id)
    /\ \A p \in s.pending : BornAt(p[2], p[1])

FeederFields == DOMAIN Idle
FeederSound(f) ==
    /\ DOMAIN f_[f] = FeederFields
    /\ MessageSound(f) /\ CacheSound(f) /\ OpsSound(f) /\ PutOffSound(f)

\* No two feeders are to insert the same row.
InsertedIds(f) == {f_[f].ops[i].row.id : i \in Insertions(f_[f].ops)}
OwnIds == \A f, g \in Feeders : InsertedIds(f) \cap InsertedIds(g) # {} => f = g

StoreInv ==
    /\ TableSound /\ BornSound
    /\ DOMAIN f_ = Feeders /\ (\A f \in Feeders : FeederSound(f)) /\ OwnIds

-----------------------------------------------------------------------------
(* The rows after some statements *)

\* A set of natural numbers has a least element.
LEMMA SmallestNat ==
    ASSUME NEW S \in SUBSET Nat, S # {}
    PROVE  \E d \in S : \A x \in S : d <= x
  <1>1. PICK d \in S : \A x \in S : <<x, d>> \notin OpToRel(<, Nat)
    BY Zenon, NatLessThanWellFounded, WFMin
  <1>2. \A x \in S : ~(x < d)
    BY Zenon, <1>1 DEF OpToRel
  <1> QED BY <1>2

\* And a largest, if it is bounded.
LEMMA Largest ==
    ASSUME NEW n \in Nat, NEW S \in SUBSET (1 .. n), S # {}
    PROVE  Max(S) \in S /\ \A x \in S : Max(S) >= x
  <1> DEFINE T == {n - x : x \in S}
  <1>1. T \in SUBSET Nat /\ T # {}
    <2>1. \A x \in S : n - x \in Nat
      OBVIOUS
    <2> QED BY Zenon, <2>1
  <1>2. PICK d \in T : \A x \in T : d <= x
    BY <1>1, SmallestNat
  <1>3. PICK m \in S : d = n - m
    BY <1>2
  <1>4. \A x \in S : m >= x
    BY <1>2, <1>3
  <1> QED BY <1>3, <1>4 DEF Max

\* What a fold over the positions of a sequence computes, on each set of them: g is the
\* function that After folds with.
Body(g, rows, ops, s) == IF s = {} THEN rows ELSE Execute(g[s \ {Max(s)}], ops[Max(s)])
Unfolds(g, rows, ops, n) == g = [s \in SUBSET (1 .. n) |-> Body(g, rows, ops, s)]

LEMMA AfterUnfolds ==
    ASSUME NEW rows, NEW ops, NEW n \in Nat, DOMAIN ops = 1 .. n
    PROVE  \E g : Unfolds(g, rows, ops, n) /\ After(rows, ops) = g[1 .. n]
  <1> DEFINE HasIter(k) == \E g : g = [s \in SUBSET (1 .. k) |-> Body(g, rows, ops, s)]
  <1>1. HasIter(0)
    <2> DEFINE g == [s \in SUBSET (1 .. 0) |-> rows]
    <2>1. g = [s \in SUBSET (1 .. 0) |-> Body(g, rows, ops, s)]
      BY DEF Body
    <2> QED BY <2>1
  <1>2. ASSUME NEW k \in 0 .. n, k # n, HasIter(k) PROVE HasIter(k + 1)
    <2>1. PICK g : g = [s \in SUBSET (1 .. k) |-> Body(g, rows, ops, s)]
      BY <1>2
    <2> DEFINE h == [s \in SUBSET (1 .. k + 1) |->
                        IF k + 1 \in s THEN Execute(g[s \ {k + 1}], ops[k + 1]) ELSE g[s]]
    <2>2. ASSUME NEW s \in SUBSET (1 .. k + 1) PROVE h[s] = Body(h, rows, ops, s)
      <3>1. CASE k + 1 \in s
        <4>1. Max(s) = k + 1
          <5>1. k + 1 \in Nat /\ s # {}
            BY <3>1
          <5>2. Max(s) \in s /\ \A x \in s : Max(s) >= x
            BY <5>1, Largest
          <5>3. Max(s) \in 1 .. k + 1 /\ Max(s) >= k + 1
            BY <3>1, <5>2
          <5> QED BY <5>3
        <4>2. h[s] = Execute(g[s \ {k + 1}], ops[k + 1])
          BY <3>1
        <4>3. s \ {k + 1} \in SUBSET (1 .. k + 1) /\ k + 1 \notin s \ {k + 1}
          OBVIOUS
        <4>4. h[s \ {k + 1}] = g[s \ {k + 1}]
          BY <4>3
        <4> HIDE DEF h
        <4> QED BY <3>1, <4>1, <4>2, <4>4 DEF Body
      <3>2. CASE k + 1 \notin s
        <4>1. s \in SUBSET (1 .. k)
          BY <3>2
        <4>2. h[s] = Body(g, rows, ops, s)
          BY <2>1, <3>2, <4>1
        <4>3. CASE s = {}
          BY <4>2, <4>3 DEF Body
        <4>4. CASE s # {}
          <5>1. s \ {Max(s)} \in SUBSET (1 .. k + 1) /\ k + 1 \notin s \ {Max(s)}
            BY <3>2
          <5>2. h[s \ {Max(s)}] = g[s \ {Max(s)}]
            BY <5>1
          <5> HIDE DEF h
          <5> QED BY <4>2, <4>4, <5>2 DEF Body
        <4> QED BY <4>3, <4>4
      <3> QED BY <3>1, <3>2
    <2>3. h = [s \in SUBSET (1 .. k + 1) |-> Body(h, rows, ops, s)]
      <3> HIDE DEF Body
      <3> QED BY <2>2
    <2> QED BY <2>3
  <1>3. HasIter(n)
    <2> HIDE DEF HasIter
    <2> SUFFICES ASSUME ~HasIter(n) PROVE FALSE
      OBVIOUS
    <2> DEFINE Bad == {k \in 0 .. n : ~HasIter(k)}
    <2>1. n \in Bad /\ Bad \in SUBSET Nat
      OBVIOUS
    <2>2. PICK d \in Bad : \A x \in Bad : d <= x
      BY <2>1, SmallestNat
    <2>3. d # 0 /\ d \in 0 .. n
      BY <1>1, <2>2
    <2>4. d - 1 \in 0 .. n /\ d - 1 \notin Bad /\ d - 1 # n
      BY <2>2, <2>3
    <2>5. HasIter(d)
      <3>1. HasIter((d - 1) + 1)
        BY <1>2, <2>4
      <3> QED BY <2>3, <3>1
    <2> QED BY <2>2, <2>5
  <1>4. After(rows, ops)
          = (CHOOSE g : g = [s \in SUBSET (1 .. n) |-> Body(g, rows, ops, s)])[1 .. n]
    BY DEF After, FoldLeft, MapThenFoldSet, Body
  <1> DEFINE it == CHOOSE g : g = [s \in SUBSET (1 .. n) |-> Body(g, rows, ops, s)]
  <1>5. it = [s \in SUBSET (1 .. n) |-> Body(it, rows, ops, s)]
    BY <1>3
  <1> QED BY <1>4, <1>5 DEF Unfolds

\* What the fold has at the first k + 1 positions.
LEMMA UnfoldsNext ==
    ASSUME NEW rows, NEW ops, NEW n \in Nat, NEW g, Unfolds(g, rows, ops, n),
           NEW k \in 0 .. n, k # n
    PROVE  g[1 .. k + 1] = Execute(g[1 .. k], ops[k + 1])
  <1>1. /\ k \in Nat /\ k + 1 \in Nat /\ k + 1 \in 1 .. n
        /\ 1 .. k + 1 \in SUBSET (1 .. n) /\ 1 .. k + 1 # {}
    OBVIOUS
  <1>2. Max(1 .. k + 1) = k + 1
    <2>1. \A S \in SUBSET (1 .. k + 1) :
              S # {} => Max(S) \in S /\ \A x \in S : Max(S) >= x
      BY <1>1, Largest
    <2>2. k + 1 \in 1 .. k + 1
      BY <1>1
    <2>3. Max(1 .. k + 1) \in 1 .. k + 1 /\ Max(1 .. k + 1) >= k + 1
      BY <2>1, <2>2
    <2> QED BY <1>1, <2>3
  <1>3. (1 .. k + 1) \ {k + 1} = 1 .. k
    BY <1>1
  <1> QED BY <1>1, <1>2, <1>3 DEF Body, Unfolds

\* And at none of them.
LEMMA UnfoldsFirst ==
    ASSUME NEW rows, NEW ops, NEW n \in Nat, NEW g, Unfolds(g, rows, ops, n)
    PROVE  g[1 .. 0] = rows
  <1>1. 1 .. 0 = {} /\ {} \in SUBSET (1 .. n)
    OBVIOUS
  <1> QED BY <1>1 DEF Body, Unfolds

\* A row that comes from a row of the table, or from one of the first k statements.
FromTable(r) ==
    \E q \in table : /\ q.id = r.id /\ q.ctx = r.ctx /\ DOMAIN r = RowFields
                     /\ r = q \/ Contract!Stamped(q, r)
FromOps(r, ops, k) == \E i \in Insertions(ops) : i <= k /\ r = ops[i].row

\* What the first k statements of a transaction may have made of the table.
Descends(rows, ops, k) ==
    /\ IsFiniteSet(rows)
    /\ \A q, r \in rows : q.id = r.id => q = r
    /\ \A r \in rows : FromTable(r) \/ FromOps(r, ops, k)
    /\ \A q \in table : q.id \in {r.id : r \in rows} \/ Several(q.id)

\* Sound statements.
SoundOps(ops) ==
    /\ IsSeq(ops)
    /\ \A i \in DOMAIN ops : OpSound(ops[i])
    /\ \A i, j \in Insertions(ops) : ops[i].row.id = ops[j].row.id => i = j

LEMMA RowsFromTable ==
    ASSUME TableSound, BornSound, NEW r, FromTable(r)
    PROVE  SoundRow(r)
  BY DEF TableSound, FromTable, SoundRow, Contract!Stamped, Contract!Of, Reported, ValuesReported

\* The ids of new rows are those of no other row.
LEMMA NewOrOld ==
    ASSUME TableSound, BornSound, NEW r, NEW q, NEW c \in Contexts, FromTable(q), NewRow(r)
    PROVE  r.id \notin born[c] /\ q.id # r.id
  <1>1. SoundRow(q)
    BY RowsFromTable
  <1> QED BY <1>1 DEF SoundRow, NewRow

LEMMA InsertDescends ==
    ASSUME TableSound, BornSound, NEW ops, SoundOps(ops), NEW k \in Nat, k + 1 \in DOMAIN ops,
           NEW rows, Descends(rows, ops, k), ops[k + 1].do = "insert"
    PROVE  Descends(rows \cup {ops[k + 1].row}, ops, k + 1)
  <1> DEFINE new == ops[k + 1].row
             next == rows \cup {new}
  <1>1. NewRow(new) /\ k + 1 \in Insertions(ops)
    BY DEF SoundOps, OpSound, Insertions
  <1>2. IsFiniteSet(next)
    BY FS_AddElement DEF Descends
  <1>3. ASSUME NEW q \in rows PROVE q.id # new.id
    <2>1. CASE FromTable(q)
      BY <2>1, <1>1, NewOrOld DEF TableSound, FromTable, SoundRow
    <2>2. CASE FromOps(q, ops, k)
      <3>1. PICK i \in Insertions(ops) : i <= k /\ q = ops[i].row
        BY <2>2 DEF FromOps
      <3>2. i \in Nat /\ i # k + 1
        BY <3>1 DEF Insertions, SoundOps, IsSeq
      <3> QED BY <3>1, <3>2, <1>1 DEF SoundOps
    <2> QED BY <2>1, <2>2 DEF Descends
  <1>4. \A q, r \in next : q.id = r.id => q = r
    BY <1>3 DEF Descends
  <1>5. \A r \in next : FromTable(r) \/ FromOps(r, ops, k + 1)
    <2>1. \A r : FromOps(r, ops, k) => FromOps(r, ops, k + 1)
      BY DEF FromOps, Insertions, SoundOps, IsSeq
    <2>2. FromOps(new, ops, k + 1)
      BY <1>1 DEF FromOps
    <2> QED BY <2>1, <2>2 DEF Descends
  <1>6. \A q \in table : q.id \in {r.id : r \in next} \/ Several(q.id)
    BY DEF Descends
  <1> QED BY <1>2, <1>4, <1>5, <1>6 DEF Descends

\* Rows that come from the first statements come from the first and another.
LEMMA StillDescend ==
    ASSUME NEW ops, SoundOps(ops), NEW k \in Nat, NEW r, FromOps(r, ops, k)
    PROVE  FromOps(r, ops, k + 1)
  BY DEF FromOps, Insertions, SoundOps, IsSeq

LEMMA DeleteDescends ==
    ASSUME NEW ops, SoundOps(ops), NEW k \in Nat, NEW rows, Descends(rows, ops, k),
           NEW ids, \A id \in ids : Several(id)
    PROVE  Descends({r \in rows : r.id \notin ids}, ops, k + 1)
  <1> DEFINE next == {r \in rows : r.id \notin ids}
  <1>1. IsFiniteSet(next)
    BY FS_Subset DEF Descends
  <1>2. \A q \in table : q.id \in {r.id : r \in next} \/ Several(q.id)
    BY DEF Descends
  <1> QED BY <1>1, <1>2, StillDescend DEF Descends

\* Rows that are changed each for itself.
LEMMA ChangeDescends ==
    ASSUME NEW ops, SoundOps(ops), NEW k \in Nat, NEW rows, Descends(rows, ops, k),
           NEW g, g = [r \in rows |-> g[r]],
           \A r \in rows : /\ g[r].id = r.id
                           /\ g[r] = r \/ (FromTable(r) /\ FromTable(g[r]))
    PROVE  Descends({g[r] : r \in rows}, ops, k + 1)
  <1> DEFINE next == {g[r] : r \in rows}
  <1>1. IsFiniteSet(next)
    <2>1. g \in Surjection(rows, next)
      BY DEF Surjection
    <2> QED BY <2>1, FS_Surjection DEF Descends
  <1>2. \A q, r \in next : q.id = r.id => q = r
    BY DEF Descends
  <1>3. \A r \in next : FromTable(r) \/ FromOps(r, ops, k + 1)
    BY StillDescend DEF Descends
  <1>4. \A q \in table : q.id \in {r.id : r \in next} \/ Several(q.id)
    BY DEF Descends
  <1> QED BY <1>1, <1>2, <1>3, <1>4 DEF Descends

\* A row with another time stamp, reported of its context.
LEMMA TouchedFromTable ==
    ASSUME TableSound, BornSound, NEW r, FromTable(r), NEW time, BornAt(r.id, time)
    PROVE  FromTable([r EXCEPT !.updated = time])
  <1> DEFINE t == [r EXCEPT !.updated = time]
  <1>1. SoundRow(r)
    BY RowsFromTable
  <1>2. PICK q \in table : /\ q.id = r.id /\ q.ctx = r.ctx /\ DOMAIN r = RowFields
                           /\ r = q \/ Contract!Stamped(q, r)
    BY DEF FromTable
  <1>3. PICK c \in Contexts : r.id \in born[c] /\ Reported(c, time)
    BY DEF BornAt
  <1>4. c = r.ctx
    BY <1>1, <1>3 DEF SoundRow, BornSound
  <1>5. /\ DOMAIN t = RowFields /\ t.id = r.id /\ t.ctx = r.ctx /\ t.created = r.created
        /\ t.updated = time /\ t.data = r.data
    BY <1>2 DEF RowFields
  <1>6. Contract!Stamped(q, t)
    <2>1. \E p \in reports : Contract!Of(t, p)
      BY <1>3, <1>4, <1>5 DEF Reported, Contract!Of
    <2>2. t.created = q.created \/ \E p \in reports : p.ctx = t.ctx /\ p.time = t.created
      BY <1>2, <1>5 DEF Contract!Stamped
    <2>3. \A k \in DOMAIN t.data :
              \E p \in reports : p.ctx = t.ctx /\ k \in DOMAIN p.data /\ p.data[k] = t.data[k]
      BY <1>1, <1>5 DEF SoundRow, ValuesReported
    <2> HIDE DEF t
    <2> QED BY <1>2, <1>5, <2>1, <2>2, <2>3 DEF Contract!Stamped
  <1> HIDE DEF t
  <1>7. FromTable(t)
    BY <1>2, <1>5, <1>6 DEF FromTable
  <1> QED BY <1>7 DEF t

\* What an update makes of a row of its context.
LEMMA UpdatedFromTable ==
    ASSUME TableSound, BornSound, NEW r, FromTable(r), NEW op, op.do = "update", OpSound(op),
           r.id = op.id
    PROVE  FromTable([r EXCEPT !.updated = op.time, !.data = op.data, !.ctx = op.ctx,
                               !.created = IF op.restart THEN op.time ELSE @])
  <1> DEFINE t == [r EXCEPT !.updated = op.time, !.data = op.data, !.ctx = op.ctx,
                            !.created = IF op.restart THEN op.time ELSE @]
  <1>1. SoundRow(r)
    BY RowsFromTable
  <1>2. PICK q \in table : /\ q.id = r.id /\ q.ctx = r.ctx /\ DOMAIN r = RowFields
                           /\ r = q \/ Contract!Stamped(q, r)
    BY DEF FromTable
  <1>3. /\ op.ctx \in Contexts /\ op.id \in born[op.ctx]
        /\ Reported(op.ctx, op.time) /\ ValuesReported(op.ctx, op.data)
    BY DEF OpSound
  <1>4. op.ctx = r.ctx
    BY <1>1, <1>3 DEF SoundRow, BornSound
  <1>5. /\ DOMAIN t = RowFields /\ t.id = r.id /\ t.ctx = r.ctx
        /\ t.created = r.created \/ t.created = op.time
        /\ t.updated = op.time /\ t.data = op.data
    BY <1>2, <1>4 DEF RowFields
  <1>6. Contract!Stamped(q, t)
    <2> HIDE DEF t
    <2>1. \E p \in reports : Contract!Of(t, p)
      BY <1>3, <1>4, <1>5 DEF Reported, Contract!Of
    <2>2. t.created = q.created \/ \E p \in reports : p.ctx = t.ctx /\ p.time = t.created
      BY <1>2, <1>3, <1>4, <1>5 DEF Contract!Stamped, Reported
    <2>3. \A k \in DOMAIN t.data :
              \E p \in reports : p.ctx = t.ctx /\ k \in DOMAIN p.data /\ p.data[k] = t.data[k]
      BY <1>3, <1>4, <1>5 DEF ValuesReported
    <2> QED BY <1>2, <1>5, <2>1, <2>2, <2>3 DEF Contract!Stamped
  <1> HIDE DEF t
  <1>7. FromTable(t)
    BY <1>2, <1>5, <1>6 DEF FromTable
  <1> QED BY <1>7 DEF t

\* Rows whose ids were born come from the table.
LEMMA BornFromTable ==
    ASSUME TableSound, BornSound, NEW ops, SoundOps(ops), NEW k, NEW rows,
           Descends(rows, ops, k), NEW r \in rows, NEW c \in Contexts, r.id \in born[c]
    PROVE  FromTable(r)
  <1>1. ~FromOps(r, ops, k)
    BY DEF FromOps, SoundOps, OpSound, NewRow, Insertions
  <1> QED BY <1>1 DEF Descends

LEMMA ExecuteDescends ==
    ASSUME TableSound, BornSound, NEW ops, SoundOps(ops), NEW k \in Nat, k + 1 \in DOMAIN ops,
           NEW rows, Descends(rows, ops, k)
    PROVE  Descends(Execute(rows, ops[k + 1]), ops, k + 1)
  <1> DEFINE op == ops[k + 1]
  <1>1. OpSound(op)
    BY DEF SoundOps
  <1>2. CASE op.do = "insert"
    BY <1>2, InsertDescends DEF Execute
  <1>3. CASE op.do = "delete"
    <2>1. Execute(rows, op) = {r \in rows : r.id \notin op.ids}
      BY <1>3 DEF Execute
    <2>2. \A id \in op.ids : Several(id)
      BY <1>1, <1>3 DEF OpSound
    <2> QED BY <2>1, <2>2, DeleteDescends
  <1>4. CASE op.do = "update"
    <2> DEFINE g == [r \in rows |->
                       IF r.id = op.id
                       THEN [r EXCEPT !.updated = op.time, !.data = op.data, !.ctx = op.ctx,
                                      !.created = IF op.restart THEN op.time ELSE @]
                       ELSE r]
    <2>1. ASSUME NEW r \in rows
          PROVE  g[r].id = r.id /\ (g[r] = r \/ (FromTable(r) /\ FromTable(g[r])))
      <3>1. CASE r.id = op.id
        <4>1. FromTable(r)
          BY <1>1, <1>4, <3>1, BornFromTable DEF OpSound
        <4>2. FromTable(g[r])
          BY <1>1, <1>4, <3>1, <4>1, UpdatedFromTable
        <4>3. g[r].id = r.id
          BY <4>1, <3>1 DEF FromTable, RowFields
        <4> QED BY <4>1, <4>2, <4>3
      <3>2. CASE r.id # op.id
        BY <3>2
      <3> QED BY <3>1, <3>2
    <2>2. g = [r \in rows |-> g[r]]
      OBVIOUS
    <2>3. Execute(rows, op) = {g[r] : r \in rows}
      BY <1>4 DEF Execute
    <2> HIDE DEF g
    <2> QED BY <2>1, <2>2, <2>3, ChangeDescends
  <1>5. CASE op.do = "touch"
    <2> DEFINE g == [r \in rows |->
                       IF r.id \in op.ids THEN [r EXCEPT !.updated = op.time] ELSE r]
    <2>1. ASSUME NEW r \in rows
          PROVE  g[r].id = r.id /\ (g[r] = r \/ (FromTable(r) /\ FromTable(g[r])))
      <3>1. CASE r.id \in op.ids
        <4>1. BornAt(r.id, op.time)
          BY <1>1, <1>5, <3>1 DEF OpSound
        <4>2. FromTable(r)
          BY <4>1, BornFromTable DEF BornAt
        <4>3. FromTable(g[r])
          BY <3>1, <4>1, <4>2, TouchedFromTable
        <4>4. g[r].id = r.id
          BY <4>2, <3>1 DEF FromTable, RowFields
        <4> QED BY <4>2, <4>3, <4>4
      <3>2. CASE r.id \notin op.ids
        BY <3>2
      <3> QED BY <3>1, <3>2
    <2>2. g = [r \in rows |-> g[r]]
      OBVIOUS
    <2>3. Execute(rows, op) = {g[r] : r \in rows}
      BY <1>5 DEF Execute
    <2> HIDE DEF g
    <2> QED BY <2>1, <2>2, <2>3, ChangeDescends
  <1>6. CASE op.do \notin {"insert", "delete", "update", "touch"}
    <2>1. Execute(rows, op) = rows
      BY <1>6 DEF Execute
    <2> QED BY <2>1, StillDescend DEF Descends
  <1> QED BY <1>2, <1>3, <1>4, <1>5, <1>6

LEMMA AfterDescends ==
    ASSUME TableSound, BornSound, NEW ops, SoundOps(ops)
    PROVE  Descends(After(table, ops), ops, Len(ops))
  <1> DEFINE n == Len(ops)
  <1>1. n \in Nat /\ DOMAIN ops = 1 .. n
    BY DEF SoundOps, IsSeq
  <1> HIDE DEF n
  <1>2. PICK g : Unfolds(g, table, ops, n) /\ After(table, ops) = g[1 .. n]
    BY <1>1, AfterUnfolds
  <1> DEFINE Ok(k) == Descends(g[1 .. k], ops, k)
  <1>3. Ok(0)
    <2>1. g[1 .. 0] = table
      BY <1>1, <1>2, UnfoldsFirst
    <2> QED BY <2>1 DEF Descends, TableSound, FromTable, SoundRow
  <1>4. ASSUME NEW k \in 0 .. n, k # n, Ok(k) PROVE Ok(k + 1)
    <2>1. g[1 .. k + 1] = Execute(g[1 .. k], ops[k + 1])
      BY <1>1, <1>2, <1>4, UnfoldsNext
    <2>2. k \in Nat /\ k + 1 \in DOMAIN ops
      BY <1>1, <1>4
    <2>3. Descends(Execute(g[1 .. k], ops[k + 1]), ops, k + 1)
      BY <1>4, <2>2, ExecuteDescends
    <2> QED BY <2>1, <2>3
  <1>5. Ok(n)
    <2> HIDE DEF Ok
    <2> SUFFICES ASSUME ~Ok(n) PROVE FALSE
      OBVIOUS
    <2> DEFINE Bad == {k \in 0 .. n : ~Ok(k)}
    <2>1. n \in Bad /\ Bad \in SUBSET Nat
      BY <1>1
    <2>2. PICK d \in Bad : \A x \in Bad : d <= x
      BY <2>1, SmallestNat
    <2>3. d # 0 /\ d \in 0 .. n
      BY <1>3, <2>2
    <2>4. d - 1 \in 0 .. n /\ d - 1 \notin Bad /\ d - 1 # n
      BY <1>1, <2>2, <2>3
    <2>5. Ok((d - 1) + 1)
      BY <1>4, <2>4
    <2> QED BY <2>2, <2>3, <2>5
  <1> QED BY <1>2, <1>5 DEF n

-----------------------------------------------------------------------------
(* Sequences *)

LEMMA EmptySound == SoundOps(<<>>) /\ Insertions(<<>>) = {}
  BY DEF SoundOps, IsSeq, Insertions

\* The elements of a set as a sequence.
LEMMA SetAsSeq ==
    ASSUME NEW S, IsFiniteSet(S)
    PROVE  IsSeq(SetToSeq(S)) /\ ToSet(SetToSeq(S)) \subseteq S
  <1> DEFINE n == Cardinality(S)
  <1>1. n \in Nat /\ ExistsBijection(1 .. n, S)
    BY FS_CardinalityType
  <1>2. \E q \in [1 .. n -> S] : IsInjective(q)
    BY <1>1 DEF ExistsBijection, Bijection, Injection
  <1>3. SetToSeq(S) \in [1 .. n -> S]
    BY <1>2 DEF SetToSeq
  <1>4. SetToSeq(S) \in Seq(S) /\ DOMAIN SetToSeq(S) = 1 .. n
    BY <1>1, <1>3
  <1>5. SetToSeq(S) \in [1 .. n -> ToSet(SetToSeq(S))]
    BY <1>3, <1>4 DEF ToSet
  <1> QED BY <1>1, <1>3, <1>5 DEF IsSeq, ToSet

\* A sequence of the elements of a set has all of them.
LEMMA AllInSequence ==
    ASSUME NEW S, IsFiniteSet(S)
    PROVE  \A x : x \in S <=> \E j \in DOMAIN SetToSeq(S) : SetToSeq(S)[j] = x
  <1>1. Cardinality(S) \in Nat /\ ExistsBijection(1 .. Cardinality(S), S)
    BY FS_CardinalityType
  <1>2. \E q \in [1 .. Cardinality(S) -> S] : IsInjective(q)
    BY <1>1 DEF ExistsBijection, Bijection, Injection
  <1>3. SetToSeq(S) \in Injection(1 .. Cardinality(S), S)
    BY <1>2 DEF SetToSeq, Injection
  <1>4. Cardinality(1 .. Cardinality(S)) = Cardinality(S)
    BY <1>1, FS_Interval
  <1>5. SetToSeq(S) \in Surjection(1 .. Cardinality(S), S)
    BY <1>3, <1>4, FS_Injection
  <1>6. PICK q : q = SetToSeq(S)
    OBVIOUS
  <1> QED BY <1>5, <1>6 DEF Surjection

LEMMA Concatenation ==
    ASSUME NEW p, NEW q, IsSeq(p), IsSeq(q)
    PROVE  /\ IsSeq(p \o q) /\ Len(p) \in Nat /\ DOMAIN p = 1 .. Len(p)
           /\ \A i \in DOMAIN (p \o q) :
                 IF i \in DOMAIN p THEN (p \o q)[i] = p[i]
                 ELSE i - Len(p) \in DOMAIN q /\ (p \o q)[i] = q[i - Len(p)]
  <1> DEFINE all == ToSet(p) \cup ToSet(q)
  <1>1. p \in Seq(all) /\ q \in Seq(all)
    BY DEF IsSeq
  <1>2. p \o q \in Seq(all) /\ Len(p \o q) = Len(p) + Len(q)
    BY <1>1
  <1>3. \A i \in 1 .. Len(p) + Len(q) :
           (p \o q)[i] = IF i <= Len(p) THEN p[i] ELSE q[i - Len(p)]
    BY <1>1
  <1>4. p \o q \in Seq(ToSet(p \o q))
    <2> DEFINE r == p \o q
    <2>1. r \in Seq(all)
      BY <1>2
    <2> HIDE DEF r, all
    <2>2. r \in Seq(ToSet(r))
      BY <2>1 DEF ToSet
    <2> QED BY <2>2 DEF r
  <1> QED BY <1>1, <1>2, <1>3, <1>4 DEF IsSeq

LEMMA Appended ==
    ASSUME NEW q, NEW x, IsSeq(q)
    PROVE  /\ IsSeq(Append(q, x)) /\ Len(q) \in Nat /\ DOMAIN q = 1 .. Len(q)
           /\ DOMAIN Append(q, x) = 1 .. Len(q) + 1 /\ Len(Append(q, x)) = Len(q) + 1
           /\ \A i \in DOMAIN q : Append(q, x)[i] = q[i]
           /\ Append(q, x)[Len(q) + 1] = x
  <1> DEFINE all == ToSet(q) \cup {x}
  <1>1. q \in Seq(all) /\ x \in all
    BY DEF IsSeq
  <1>2. Append(q, x) \in Seq(all) /\ Len(Append(q, x)) = Len(q) + 1
    BY <1>1
  <1>3. Append(q, x) \in Seq(ToSet(Append(q, x)))
    <2>1. PICK r : r = Append(q, x)
      OBVIOUS
    <2>2. r \in Seq(all)
      BY <1>2, <2>1
    <2> HIDE DEF all
    <2>3. r \in Seq(ToSet(r))
      BY <2>2 DEF ToSet
    <2> QED BY <2>1, <2>3
  <1> QED BY <1>1, <1>2, <1>3 DEF IsSeq

-----------------------------------------------------------------------------
(* A transaction *)

\* A row that may go away is not the only one its context ever had.
LEMMA NotTheOnly ==
    ASSUME TableSound, BornSound, NEW q \in table, Several(q.id)
    PROVE  \E id \in born[q.ctx] : id # q.id
  <1>1. PICK c \in Contexts : q.id \in born[c] /\ \E other \in born[c] : other # q.id
    BY DEF Several
  <1>2. c = q.ctx
    BY <1>1 DEF TableSound, SoundRow, BornSound
  <1> QED BY <1>1, <1>2

LEMMA CommitSound ==
    ASSUME TableSound, BornSound, NEW t, t.broken \/ SoundOps(t.ops), NEW exist,
           CommitOf(t, exist), reports' = reports, nextId' = nextId
    PROVE  /\ Contract!Transaction
           /\ TableSound' /\ BornSound'
           /\ \A c \in Contexts : born[c] \subseteq born'[c]
           /\ \A c \in Contexts : \A id \in born'[c] : id \in born[c]
                 \/ (~t.broken /\ id \in {t.ops[i].row.id : i \in Insertions(t.ops)})
  <1> DEFINE ops == IF t.broken THEN <<>> ELSE t.ops
             k == Len(ops)
  <1>1. Descends(table', ops, k)
    <2>1. CASE t.broken
      BY <2>1 DEF CommitOf, Descends, TableSound, FromTable, SoundRow
    <2>2. CASE ~t.broken
      BY <2>2, AfterDescends DEF CommitOf
    <2> QED BY <2>1, <2>2
  <1>2. SoundOps(ops) /\ (t.broken => Insertions(ops) = {})
    BY EmptySound
  <1>3. born' = [c \in Contexts |-> born[c] \cup {r.id : r \in {x \in table' : x.ctx = c}}]
    BY DEF CommitOf
  <1>4. t.broken \/ ops = t.ops
    OBVIOUS
  <1> HIDE DEF ops, k
  <1>5. ASSUME NEW r \in table'
        PROVE  (SoundRow(r) /\ FromTable(r)) \/ (NewRow(r) /\ FromOps(r, ops, k))
    <2>1. CASE FromTable(r)
      BY <2>1, RowsFromTable
    <2>2. CASE FromOps(r, ops, k)
      BY <1>2, <2>2 DEF FromOps, SoundOps, OpSound, Insertions
    <2> QED BY <1>1, <2>1, <2>2 DEF Descends
  <1>6. \A c \in Contexts : \A id \in born'[c] : id \in born[c]
           \/ \E r \in table' : r.id = id /\ r.ctx = c /\ NewRow(r) /\ FromOps(r, ops, k)
    BY <1>3, <1>5 DEF SoundRow
  <1>7. Contract!Transaction
    <2>1. ASSUME NEW r \in table' \ table
          PROVE  \/ r.id \notin UNION {born[c] : c \in Contexts} /\ Contract!Begun(r)
                 \/ \E q \in table : q.id = r.id /\ Contract!Stamped(q, r)
      <3>1. CASE FromTable(r)
        BY <3>1 DEF FromTable
      <3>2. CASE NewRow(r)
        <4> DEFINE q == [r EXCEPT !.created = r.updated]
        <4>1. q.ctx = r.ctx /\ q.created = r.created
          BY <3>2 DEF NewRow, RowFields
        <4> HIDE DEF q
        <4>2. Contract!Stamped(q, r)
          BY <3>2, <4>1 DEF NewRow, Reported, ValuesReported, Contract!Stamped, Contract!Of
        <4> QED BY <3>2, <4>2 DEF NewRow, Contract!Begun, q
      <3> QED BY <1>5, <3>1, <3>2
    <2>2. ASSUME NEW q \in table, q.id \notin {r.id : r \in table'}
          PROVE  \E id \in born[q.ctx] : id # q.id
      BY <1>1, <2>2, NotTheOnly DEF Descends
    <2>3. archive \subseteq archive'
      BY DEF CommitOf
    <2>4. \A r, s \in table' : r.id = s.id => r = s
      BY <1>1 DEF Descends
    <2> QED BY Zenon, <1>3, <2>1, <2>2, <2>3, <2>4 DEF Contract!Transaction
  <1>8. TableSound'
    <2>1. ASSUME NEW r \in table' PROVE SoundRow(r)'
      BY <1>3, <1>5 DEF SoundRow, NewRow, Reported, ValuesReported
    <2> QED BY <1>1, <2>1 DEF TableSound, Descends
  <1>9. BornSound'
    <2>1. DOMAIN born' = Contexts
      BY <1>3
    <2>2. ASSUME NEW c \in Contexts PROVE born'[c] \subseteq 1 .. nextId' - 1
      BY <1>6 DEF BornSound, NewRow
    <2>3. ASSUME NEW c \in Contexts, NEW d \in Contexts, NEW id \in born'[c], id \in born'[d]
          PROVE  c = d
      <3>1. CASE id \in born[c] /\ id \in born[d]
        BY <3>1 DEF BornSound
      <3>2. CASE id \in born[c] /\ id \notin born[d]
        BY <1>6, <2>3, <3>2 DEF NewRow
      <3>3. CASE id \notin born[c] /\ id \in born[d]
        BY <1>6, <2>3, <3>3 DEF NewRow
      <3>4. CASE id \notin born[c] /\ id \notin born[d]
        BY <1>1, <1>6, <2>3, <3>4 DEF Descends
      <3> QED BY <3>1, <3>2, <3>3, <3>4
    <2>4. nextId' \in Nat \ {0}
      BY DEF BornSound
    <2> QED BY <2>1, <2>2, <2>3, <2>4 DEF BornSound
  <1>10. \A c \in Contexts : born[c] \subseteq born'[c]
    BY <1>3
  <1>11. \A c \in Contexts : \A id \in born'[c] : id \in born[c]
            \/ (~t.broken /\ id \in {t.ops[i].row.id : i \in Insertions(t.ops)})
    <2> SUFFICES ASSUME NEW c \in Contexts, NEW id \in born'[c], id \notin born[c]
                 PROVE  ~t.broken /\ id \in {t.ops[i].row.id : i \in Insertions(t.ops)}
      OBVIOUS
    <2>1. \A r : FromOps(r, ops, k) =>
             ~t.broken /\ r.id \in {t.ops[i].row.id : i \in Insertions(t.ops)}
      BY <1>2, <1>4 DEF FromOps
    <2>2. PICK r \in table' : r.id = id /\ FromOps(r, ops, k)
      BY <1>6
    <2> QED BY Zenon, <2>1, <2>2
  <1> QED BY <1>7, <1>8, <1>9, <1>10, <1>11

-----------------------------------------------------------------------------
(* What stays true while others go on *)

\* Reports, and the ids of the rows of each context, only become more.
Grows ==
    /\ reports \subseteq reports' /\ nextId \in Nat /\ nextId' \in Nat /\ nextId <= nextId'
    /\ \A c \in Contexts : born[c] \subseteq born'[c]

LEMMA SoundStays ==
    ASSUME Grows
    PROVE  /\ \A c, time : Reported(c, time) => Reported(c, time)'
           /\ \A c, data : ValuesReported(c, data) => ValuesReported(c, data)'
           /\ \A id, time : BornAt(id, time) => BornAt(id, time)'
           /\ \A id : Several(id) => Several(id)'
  <1>1. \A c, time : Reported(c, time) => Reported(c, time)'
    BY DEF Grows, Reported
  <1>2. \A c, data : ValuesReported(c, data) => ValuesReported(c, data)'
    BY DEF Grows, ValuesReported
  <1>3. \A id, time : BornAt(id, time) => BornAt(id, time)'
    BY <1>1 DEF Grows, BornAt
  <1>4. \A id : Several(id) => Several(id)'
    BY DEF Grows, Several
  <1> QED BY <1>1, <1>2, <1>3, <1>4

\* A statement stays sound as long as the row it is to insert is not there.
LEMMA OpStays ==
    ASSUME Grows, NEW op, OpSound(op),
           op.do = "insert" => \A c \in Contexts : op.row.id \notin born'[c]
    PROVE  OpSound(op)'
  <1>1. op.do = "insert" => NewRow(op.row)'
    BY SoundStays DEF OpSound, NewRow, Grows
  <1>2. op.do = "update" => op.id \in born'[op.ctx]
    BY DEF OpSound, Grows
  <1> QED BY <1>1, <1>2, SoundStays DEF OpSound

\* A transaction after something was added to it, at most one insertion as the last.
LEMMA OpsGrow ==
    ASSUME Grows, NEW f \in Feeders, OpsSound(f),
           \A id \in InsertedIds(f) : \A c \in Contexts : id \notin born'[c],
           NEW q, IsSeq(q), f_'[f].ops = q,
           \A i \in DOMAIN q :
              \/ i \in DOMAIN f_[f].ops /\ q[i] = f_[f].ops[i]
              \/ /\ OpSound(q[i])'
                 /\ q[i].do = "insert" =>
                      /\ i = Len(q) /\ q[i].row.id \notin InsertedIds(f)
                      /\ \A j \in DOMAIN f_[f].bulks :
                            q[i].row.ctx \notin ContextsOf(f_[f].bulks[j]),
           f_'[f].broken \/ ~f_[f].broken,
           \A j \in DOMAIN f_'[f].bulks :
              \E i \in DOMAIN f_[f].bulks : f_'[f].bulks[j] = f_[f].bulks[i],
           f_'[f].pc # "idle"
    PROVE  OpsSound(f)'
  <1>1. ASSUME NEW i \in DOMAIN q PROVE OpSound(q[i])'
    BY OpStays DEF OpsSound, InsertedIds, Insertions
  <1>2. \A i, j \in Insertions(q) : q[i].row.id = q[j].row.id => i = j
    BY DEF OpsSound, InsertedIds, Insertions
  <1>3. ASSUME ~f_'[f].broken, NEW i \in Insertions(q), NEW j \in DOMAIN f_'[f].bulks
        PROVE  q[i].row.ctx \notin ContextsOf(f_'[f].bulks[j])
    BY <1>3 DEF OpsSound, Insertions
  <1> QED BY <1>1, <1>2, <1>3 DEF OpsSound

LEMMA OpsStay ==
    ASSUME Grows, NEW f \in Feeders, OpsSound(f),
           \A id \in InsertedIds(f) : \A c \in Contexts : id \notin born'[c],
           f_'[f].ops = f_[f].ops, f_'[f].broken \/ ~f_[f].broken,
           f_'[f].broken \/ \A j \in DOMAIN f_'[f].bulks :
              \E i \in DOMAIN f_[f].bulks : f_'[f].bulks[j] = f_[f].bulks[i],
           f_'[f].pc # "idle" \/ f_'[f].pc = f_[f].pc \/ f_'[f].broken
    PROVE  OpsSound(f)'
  <1> DEFINE same(q) == q = f_[f].ops /\ q = f_'[f].ops
  <1>1. PICK q : same(q)
    OBVIOUS
  <1>2. ASSUME NEW i \in DOMAIN q PROVE OpSound(q[i])'
    <2>1. OpSound(q[i]) /\ (q[i].do = "insert" => q[i].row.id \in InsertedIds(f))
      BY <1>1 DEF OpsSound, InsertedIds, Insertions
    <2> QED BY <2>1, OpStays
  <1>3. ASSUME ~f_'[f].broken, NEW i \in Insertions(q), NEW j \in DOMAIN f_'[f].bulks
        PROVE  q[i].row.ctx \notin ContextsOf(f_'[f].bulks[j])
    BY <1>1, <1>3 DEF OpsSound
  <1> QED BY <1>1, <1>2, <1>3 DEF OpsSound

\* A feeder that has the same, or some, of its message left.
Proceeds(f) ==
    /\ f_'[f].time = f_[f].time
    /\ ItemsLeft(f_'[f]) \subseteq ItemsLeft(f_[f])
    /\ \A j \in DOMAIN f_'[f].bulks :
          \E i \in DOMAIN f_[f].bulks : f_'[f].bulks[j] = f_[f].bulks[i]

LEMMA MessageStays ==
    ASSUME Grows, NEW f \in Feeders, MessageSound(f),
           f_'[f].bulks = f_[f].bulks, f_'[f].time = f_[f].time,
           \/ f_'[f].items = f_[f].items
           \/ f_[f].items # <<>> /\ f_'[f].items = Tail(f_[f].items),
           f_'[f].pc = "saving" \/ f_'[f].pc = f_[f].pc \/ f_[f].items = <<>>
    PROVE  MessageSound(f)' /\ Proceeds(f)
  <1> DEFINE s == f_[f]
             t == f_'[f]
  <1>1. t.items \in Seq(Reports) /\ ToSet(t.items) \subseteq ToSet(s.items)
    <2>1. CASE t.items = s.items
      BY <2>1 DEF MessageSound
    <2>2. CASE s.items # <<>> /\ t.items = Tail(s.items)
      <3>1. \A q \in Seq(Reports) : q # <<>> =>
               Tail(q) \in Seq(Reports) /\ ToSet(Tail(q)) \subseteq ToSet(q)
        BY DEF ToSet
      <3> QED BY <2>2, <3>1 DEF MessageSound
    <2> QED BY <2>1, <2>2
  <1>2. ItemsLeft(t) \subseteq ItemsLeft(s) /\ ContextsOf(t.items) \subseteq ContextsOf(s.items)
    BY <1>1 DEF ItemsLeft, ContextsOf
  <1>3. t.pc # "saving" => t.items = <<>>
    BY <1>1 DEF MessageSound, ToSet
  <1>4. MessageSound(f)'
    BY <1>1, <1>2, <1>3 DEF MessageSound, Grows
  <1> QED BY <1>2, <1>4 DEF Proceeds

\* A feeder goes on to the next bulk, or leaves it out.
LEMMA MessageAdvances ==
    ASSUME Grows, NEW f \in Feeders, MessageSound(f), f_[f].bulks # <<>>,
           f_'[f].bulks = Tail(f_[f].bulks), f_'[f].time = f_[f].time,
           \/ f_'[f].items = f_[f].items /\ f_'[f].pc = f_[f].pc
           \/ f_'[f].items = Head(f_[f].bulks) /\ f_'[f].pc = "saving"
    PROVE  MessageSound(f)' /\ Proceeds(f)
  <1> DEFINE s == f_[f]
             t == f_'[f]
  <1>1. \A q \in Seq(Bulks) : q # <<>> =>
           /\ Tail(q) \in Seq(Bulks) /\ Head(q) = q[1] /\ 1 \in DOMAIN q /\ Head(q) \in Bulks
           /\ \A i \in DOMAIN Tail(q) : /\ i + 1 \in DOMAIN q /\ i + 1 # 1 /\ i \in Nat
                                        /\ Tail(q)[i] = q[i + 1]
    OBVIOUS
  <1>2. /\ t.bulks \in Seq(Bulks) /\ Head(s.bulks) = s.bulks[1] /\ 1 \in DOMAIN s.bulks
        /\ Head(s.bulks) \in Bulks
        /\ \A i \in DOMAIN t.bulks : /\ i + 1 \in DOMAIN s.bulks /\ i + 1 # 1 /\ i \in Nat
                                     /\ t.bulks[i] = s.bulks[i + 1]
    BY <1>1 DEF MessageSound
  <1>3. t.items \in Seq(Reports)
    BY <1>2, BodiesAssumption DEF MessageSound
  <1>4. ItemsLeft(t) \subseteq ItemsLeft(s)
    <2>1. ToSet(t.items) \subseteq ItemsLeft(s)
      BY <1>2 DEF ItemsLeft
    <2>2. UNION {ToSet(t.bulks[i]) : i \in DOMAIN t.bulks} \subseteq ItemsLeft(s)
      BY <1>2 DEF ItemsLeft
    <2> QED BY <2>1, <2>2 DEF ItemsLeft
  <1>5. \A i, j \in DOMAIN t.bulks :
           i # j => ContextsOf(t.bulks[i]) \cap ContextsOf(t.bulks[j]) = {}
    <2>1. \A i, j \in DOMAIN s.bulks :
             i # j => ContextsOf(s.bulks[i]) \cap ContextsOf(s.bulks[j]) = {}
      BY DEF MessageSound
    <2> SUFFICES ASSUME NEW i \in DOMAIN t.bulks, NEW j \in DOMAIN t.bulks, i # j
                 PROVE  ContextsOf(t.bulks[i]) \cap ContextsOf(t.bulks[j]) = {}
      OBVIOUS
    <2>2. i + 1 # j + 1 /\ i + 1 \in DOMAIN s.bulks /\ j + 1 \in DOMAIN s.bulks
      BY <1>2
    <2> QED BY <1>2, <2>1, <2>2
  <1>6. \A i \in DOMAIN t.bulks : ContextsOf(t.items) \cap ContextsOf(t.bulks[i]) = {}
    BY <1>2 DEF MessageSound
  <1>7. MessageSound(f)'
    <2>1. t.pc # "saving" => t.items = <<>>
      BY DEF MessageSound
    <2> QED BY <1>2, <1>3, <1>4, <1>5, <1>6, <2>1 DEF MessageSound, Grows
  <1>8. \A j \in DOMAIN t.bulks : \E i \in DOMAIN s.bulks : t.bulks[j] = s.bulks[i]
    BY <1>2
  <1> QED BY <1>4, <1>7, <1>8 DEF Proceeds

LEMMA AwaitedContexts ==
    ASSUME NEW s, s.items \in Seq(Reports), s.bulks \in Seq(Bulks)
    PROVE  Awaited(s) \subseteq Contexts
  <1>1. \A q \in Seq(Reports) : ToSet(q) \subseteq Reports
    BY DEF ToSet
  <1>2. \A q \in Seq(Bulks) : \A i \in DOMAIN q : q[i] \in Seq(Reports)
    BY BodiesAssumption
  <1>3. ItemsLeft(s) \subseteq Reports
    BY <1>1, <1>2 DEF ItemsLeft
  <1> QED BY <1>3, BodiesAssumption DEF Awaited

LEMMA CacheStays ==
    ASSUME Grows, NEW f \in Feeders, CacheSound(f), Proceeds(f), f_'[f].cache = f_[f].cache,
           MessageSound(f)'
    PROVE  CacheSound(f)'
  <1>1. Awaited(f_'[f]) \subseteq Awaited(f_[f])
    BY DEF Awaited, Proceeds
  <1>2. Awaited(f_'[f]) \subseteq Contexts
    BY AwaitedContexts DEF MessageSound
  <1> QED BY <1>1, <1>2, SoundStays DEF CacheSound, Grows

LEMMA PutOffStays ==
    ASSUME Grows, NEW f \in Feeders, PutOffSound(f),
           NEW time, f_[f].time = time, f_'[f].time = time,
           \A id \in f_'[f].touched : id \in f_[f].touched \/ BornAt(id, time)',
           \A id \in f_'[f].doomed : id \in f_[f].doomed \/ Several(id)',
           f_'[f].pending = f_[f].pending
    PROVE  PutOffSound(f)'
  BY SoundStays DEF PutOffSound

\* A feeder that another takes a step beside: it may learn that it is not alone.
LEMMA FeederStays ==
    ASSUME Grows, NEW f \in Feeders, FeederSound(f),
           f_'[f] = f_[f] \/ f_'[f] = [f_[f] EXCEPT !.alone = FALSE],
           \A id \in InsertedIds(f) : \A c \in Contexts : id \notin born'[c]
    PROVE  FeederSound(f)' /\ InsertedIds(f)' = InsertedIds(f)
  <1>1. DOMAIN f_[f] = FeederFields
    BY DEF FeederSound
  <1>2. /\ DOMAIN f_'[f] = FeederFields
        /\ f_'[f].pc = f_[f].pc /\ f_'[f].bulks = f_[f].bulks /\ f_'[f].items = f_[f].items
        /\ f_'[f].time = f_[f].time /\ f_'[f].cache = f_[f].cache
        /\ f_'[f].touched = f_[f].touched /\ f_'[f].doomed = f_[f].doomed
        /\ f_'[f].ops = f_[f].ops /\ f_'[f].broken = f_[f].broken
        /\ f_'[f].pending = f_[f].pending
    BY <1>1 DEF FeederFields, Idle
  <1>3. MessageSound(f)' /\ Proceeds(f)
    BY <1>2, MessageStays DEF FeederSound
  <1>4. CacheSound(f)'
    BY <1>2, <1>3, CacheStays DEF FeederSound
  <1>5. OpsSound(f)'
    BY <1>2, OpsStay DEF FeederSound
  <1>6. PutOffSound(f)'
    BY <1>2, PutOffStays DEF FeederSound
  <1>7. InsertedIds(f)' = InsertedIds(f)
    BY <1>2 DEF InsertedIds
  <1> QED BY <1>2, <1>3, <1>4, <1>5, <1>6, <1>7 DEF FeederSound, FeederFields

\* A feeder that has nothing of a message, but what is pending, to take care of.
LEMMA IdleSound ==
    ASSUME Grows, NEW f \in Feeders, DOMAIN f_'[f] = FeederFields, OpsSound(f)',
           f_'[f].bulks = <<>>, f_'[f].items = <<>>, f_'[f].cache = <<>>,
           f_'[f].touched = {}, f_'[f].doomed = {},
           \A p \in f_'[f].pending : BornAt(p[2], p[1])
    PROVE  FeederSound(f)'
  <1>1. DOMAIN <<>> = {} /\ ToSet(<<>>) = {} /\ <<>> \in Seq(Bulks) /\ <<>> \in Seq(Reports)
    BY DEF ToSet
  <1>2. MessageSound(f)'
    BY <1>1 DEF MessageSound, ItemsLeft
  <1>3. CacheSound(f)'
    BY <1>1 DEF CacheSound, IsSeq
  <1>4. PutOffSound(f)'
    BY SoundStays DEF PutOffSound
  <1> QED BY <1>2, <1>3, <1>4 DEF FeederSound, FeederFields

\* What a feeder does without a commit.
LEMMA DbStays ==
    ASSUME TableSound, BornSound, UNCHANGED db, reports \subseteq reports',
           nextId' = nextId \/ nextId' = nextId + 1
    PROVE  TableSound' /\ BornSound' /\ Grows
  <1>1. Grows
    BY DEF Grows, BornSound, db
  <1>2. TableSound'
    BY <1>1, SoundStays DEF TableSound, SoundRow, db
  <1>3. BornSound'
    BY DEF BornSound, db
  <1> QED BY <1>1, <1>2, <1>3

\* The parts of the invariant after a step.
LEMMA Assembled ==
    ASSUME TableSound', BornSound', DOMAIN f_' = Feeders, \A f \in Feeders : FeederSound(f)',
           OwnIds'
    PROVE  StoreInv'
  BY DEF StoreInv

\* The invariant after a step of a feeder.
LEMMA OfAll ==
    ASSUME StoreInv, NEW f \in Feeders, DOMAIN f_' = Feeders, TableSound', BornSound', Grows,
           FeederSound(f)',
           \A g \in Feeders \ {f} : f_'[g] = f_[g] \/ f_'[g] = [f_[g] EXCEPT !.alone = FALSE],
           \A c \in Contexts : \A id \in born'[c] : id \in born[c] \/ id \in InsertedIds(f),
           \A id \in InsertedIds(f)' : id \in InsertedIds(f) \/ id = nextId
    PROVE  StoreInv'
  <1>1. ASSUME NEW g \in Feeders, NEW id \in InsertedIds(g)
        PROVE  id # nextId /\ \A c \in Contexts : id \notin born[c]
    BY DEF StoreInv, FeederSound, OpsSound, OpSound, NewRow, InsertedIds, Insertions, BornSound
  <1>2. ASSUME NEW g \in Feeders \ {f} PROVE FeederSound(g)' /\ InsertedIds(g)' = InsertedIds(g)
    <2>1. \A id \in InsertedIds(g) : \A c \in Contexts : id \notin born'[c]
      BY <1>1 DEF StoreInv, OwnIds
    <2> QED BY <2>1, FeederStays DEF StoreInv
  <1>3. ASSUME NEW g \in Feeders, NEW h \in Feeders, NEW id \in InsertedIds(g)',
               id \in InsertedIds(h)'
        PROVE  g = h
    <2>1. CASE g # f /\ h # f
      BY <1>2, <1>3, <2>1 DEF StoreInv, OwnIds
    <2>2. CASE g = f /\ h # f
      BY <1>1, <1>2, <1>3, <2>2 DEF StoreInv, OwnIds
    <2>3. CASE g # f /\ h = f
      BY <1>1, <1>2, <1>3, <2>3 DEF StoreInv, OwnIds
    <2> QED BY <2>1, <2>2, <2>3
  <1>4. OwnIds'
    BY <1>3 DEF OwnIds
  <1>5. \A g \in Feeders : FeederSound(g)'
    BY <1>2
  <1> QED BY <1>4, <1>5, Assembled

\* A step of a feeder without a commit.
LEMMA WithoutCommit ==
    ASSUME StoreInv, NEW f \in Feeders, DOMAIN f_' = Feeders, UNCHANGED db,
           reports \subseteq reports', nextId' = nextId \/ nextId' = nextId + 1,
           FeederSound(f)',
           \A g \in Feeders \ {f} : f_'[g] = f_[g] \/ f_'[g] = [f_[g] EXCEPT !.alone = FALSE],
           \A id \in InsertedIds(f)' : id \in InsertedIds(f) \/ id = nextId
    PROVE  StoreInv'
  <1>1. TableSound' /\ BornSound' /\ Grows
    BY DbStays DEF StoreInv
  <1>2. \A c \in Contexts : \A id \in born'[c] : id \in born[c] \/ id \in InsertedIds(f)
    BY DEF db
  <1> QED BY <1>1, <1>2, OfAll

\* A feeder's own rows are not there before it commits.
LEMMA Unborn ==
    ASSUME StoreInv, UNCHANGED db, NEW f \in Feeders, NEW id \in InsertedIds(f),
           NEW c \in Contexts
    PROVE  id \notin born'[c] /\ id \notin born[c] /\ id # nextId
  BY DEF db, StoreInv, FeederSound, OpsSound, OpSound, NewRow, InsertedIds, Insertions, BornSound

LEMMA NothingToInsert ==
    ASSUME NEW f \in Feeders, f_'[f].ops = <<>>
    PROVE  OpsSound(f)' /\ InsertedIds(f)' = {}
  <1>1. Insertions(<<>>) = {} /\ IsSeq(<<>>) /\ DOMAIN <<>> = {}
    BY EmptySound DEF SoundOps
  <1>2. OpsSound(f)'
    BY <1>1 DEF OpsSound
  <1> QED BY <1>1, <1>2 DEF InsertedIds

-----------------------------------------------------------------------------
(* Steps *)

LEMMA StartKeeps ==
    ASSUME StoreInv, NEW f \in Feeders, Start(f)
    PROVE  StoreInv'
  <1> DEFINE s == f_[f]
             t == f_'[f]
  <1>1. PICK body \in Bodies :
          /\ reports' = reports \cup
                UNION {{[ctx |-> body[i][j].ctx, data |-> body[i][j].data, time |-> clock + 1] :
                          j \in DOMAIN body[i]} : i \in DOMAIN body}
          /\ f_' = [g \in Feeders |->
                IF g = f
                THEN [PreMsgProcess(f_[f], body) EXCEPT
                        !.pc = "bulk", !.bulks = body, !.time = clock + 1, !.body = body,
                        !.alone = (Idlers = Feeders /\ ~f_[f].broken)]
                ELSE [f_[g] EXCEPT !.alone = FALSE]]
    BY DEF Start
  <1>2. s.pc = "idle" /\ UNCHANGED <<db, nextId>> /\ DOMAIN s = FeederFields /\ FeederSound(f)
    BY DEF Start, StoreInv, FeederSound
  <1>3. TableSound' /\ BornSound' /\ Grows
    BY <1>1, <1>2, DbStays DEF StoreInv
  <1> DEFINE ctxs == UNION {{body[i][j].ctx : j \in DOMAIN body[i]} : i \in DOMAIN body}
             found == {r \in table : r.ctx \in ctxs}
  <1>4. /\ DOMAIN t = FeederFields /\ t.pc = "bulk" /\ t.bulks = body /\ t.time = clock + 1
        /\ t.items = s.items /\ t.touched = {} /\ t.doomed = {} /\ t.pending = s.pending
        /\ t.cache = <<>> \/ t.cache = SetToSeq(found)
        /\ (t.ops = s.ops /\ t.broken = s.broken) \/ (t.ops = <<>> /\ t.broken = FALSE)
    BY <1>1, <1>2 DEF PreMsgProcess, FeederFields, Idle
  <1>5. MessageSound(f)'
    <2>1. body \in Seq(Bulks)
      BY BodiesAssumption
    <2>2. s.items = <<>> /\ s.items \in Seq(Reports)
      BY <1>2 DEF FeederSound, MessageSound
    <2>3. ItemsLeft(t) = UNION {ToSet(body[i]) : i \in DOMAIN body}
      BY <1>4, <2>2 DEF ItemsLeft, ToSet
    <2>4. \A x \in ItemsLeft(t) : [ctx |-> x.ctx, data |-> x.data, time |-> t.time] \in reports'
      BY <1>1, <1>4, <2>3 DEF ToSet
    <2>5. ContextsOf(s.items) = {}
      BY <2>2 DEF ContextsOf, ToSet
    <2> QED BY <1>4, <2>1, <2>2, <2>4, <2>5, BodiesAssumption DEF MessageSound
  <1>6. CacheSound(f)'
    <2>1. CASE t.cache = <<>>
      BY <2>1, EmptySound DEF CacheSound, SoundOps
    <2>2. CASE t.cache = SetToSeq(found)
      <3>1. IsFiniteSet(found)
        BY FS_Subset DEF StoreInv, TableSound
      <3>2. IsSeq(t.cache) /\ ToSet(t.cache) \subseteq found
        BY <2>2, <3>1, SetAsSeq
      <3>3. \A i \in DOMAIN t.cache : SoundRow(t.cache[i])
        BY <3>2 DEF StoreInv, TableSound, ToSet
      <3> QED BY <1>3, <3>2, <3>3, SoundStays DEF CacheSound, SoundRow, Grows
    <2> QED BY <1>4, <2>1, <2>2
  <1>7. OpsSound(f)' /\ InsertedIds(f)' \subseteq InsertedIds(f)
    <2>1. CASE t.ops = <<>>
      BY <1>4, <2>1, NothingToInsert
    <2>2. CASE t.ops # <<>>
      <3>1. t.ops = s.ops /\ t.broken = s.broken /\ s.broken
        BY <1>2, <1>4, <2>2 DEF FeederSound, OpsSound
      <3>2. \A id \in InsertedIds(f) : \A c \in Contexts : id \notin born'[c]
        BY <1>2, Unborn
      <3>3. OpsSound(f)'
        BY <1>2, <1>3, <1>4, <3>1, <3>2, OpsStay DEF FeederSound
      <3> QED BY <3>1, <3>3 DEF InsertedIds
    <2> QED BY <2>1, <2>2
  <1>8. PutOffSound(f)'
    BY <1>2, <1>3, <1>4, SoundStays DEF FeederSound, PutOffSound
  <1>9. FeederSound(f)'
    BY <1>4, <1>5, <1>6, <1>7, <1>8 DEF FeederSound, FeederFields
  <1>10. /\ DOMAIN f_' = Feeders /\ reports \subseteq reports'
         /\ \A g \in Feeders \ {f} : f_'[g] = [f_[g] EXCEPT !.alone = FALSE]
    BY <1>1
  <1> HIDE DEF s, t
  <1> QED BY <1>2, <1>7, <1>9, <1>10, WithoutCommit

\* A commit, after which the feeder has nothing to insert.
LEMMA CommitKeeps ==
    ASSUME StoreInv, NEW f \in Feeders, NEW t, t.broken \/ SoundOps(t.ops),
           {t.ops[i].row.id : i \in Insertions(t.ops)} \subseteq InsertedIds(f) \/ t.broken,
           NEW exist, CommitOf(t, exist), UNCHANGED <<nextId, reports>>
    PROVE  /\ Contract!Transaction /\ TableSound' /\ BornSound' /\ Grows
           /\ \A c \in Contexts : \A id \in born'[c] : id \in born[c] \/ id \in InsertedIds(f)
  <1>1. /\ Contract!Transaction
        /\ TableSound' /\ BornSound'
        /\ \A c \in Contexts : born[c] \subseteq born'[c]
        /\ \A c \in Contexts : \A id \in born'[c] : id \in born[c]
              \/ (~t.broken /\ id \in {t.ops[i].row.id : i \in Insertions(t.ops)})
    BY CommitSound DEF StoreInv
  <1>2. Grows
    BY <1>1 DEF Grows, StoreInv, BornSound
  <1> QED BY <1>1, <1>2

LEMMA EnsureKeeps ==
    ASSUME StoreInv, NEW f \in Feeders, NEW exist, CommitOf(f_[f], exist),
           UNCHANGED <<nextId, reports>>, NEW kind,
           f_' = [f_ EXCEPT ![f].known = @ \cup {kind}, ![f].ops = <<>>, ![f].broken = FALSE]
    PROVE  StoreInv' /\ Contract!Transaction
  <1> DEFINE s == f_[f]
             t == f_'[f]
  <1>1. DOMAIN f_ = Feeders /\ DOMAIN s = FeederFields /\ FeederSound(f)
    BY DEF StoreInv, FeederSound
  <1>2. /\ DOMAIN f_' = Feeders /\ \A g \in Feeders \ {f} : f_'[g] = f_[g]
        /\ t = [s EXCEPT !.known = @ \cup {kind}, !.ops = <<>>, !.broken = FALSE]
    BY <1>1
  <1>3. /\ DOMAIN t = FeederFields /\ t.pc = s.pc /\ t.bulks = s.bulks /\ t.items = s.items
        /\ t.time = s.time /\ t.cache = s.cache /\ t.touched = s.touched /\ t.doomed = s.doomed
        /\ t.ops = <<>> /\ t.pending = s.pending
    BY <1>1, <1>2 DEF FeederFields, Idle
  <1>4. /\ Contract!Transaction /\ TableSound' /\ BornSound' /\ Grows
        /\ \A c \in Contexts : \A id \in born'[c] : id \in born[c] \/ id \in InsertedIds(f)
    <2>1. SoundOps(s.ops)
      BY <1>1 DEF FeederSound, OpsSound, SoundOps
    <2> QED BY <2>1, CommitKeeps DEF InsertedIds
  <1>5. MessageSound(f)' /\ Proceeds(f)
    BY <1>1, <1>3, <1>4, MessageStays DEF FeederSound
  <1>6. CacheSound(f)'
    BY <1>1, <1>3, <1>4, <1>5, CacheStays DEF FeederSound
  <1>7. OpsSound(f)' /\ InsertedIds(f)' = {}
    BY <1>3, NothingToInsert
  <1>8. PutOffSound(f)'
    BY <1>1, <1>3, <1>4, PutOffStays DEF FeederSound
  <1>9. FeederSound(f)'
    BY <1>3, <1>5, <1>6, <1>7, <1>8 DEF FeederSound, FeederFields
  <1> HIDE DEF s, t
  <1> QED BY <1>2, <1>4, <1>7, <1>9, OfAll

LEMMA EnsureTableKeeps ==
    ASSUME StoreInv, NEW f \in Feeders, EnsureTable(f)
    PROVE  StoreInv' /\ Contract!Transaction
  BY EnsureKeeps DEF EnsureTable

LEMMA EnsureArchiveKeeps ==
    ASSUME StoreInv, NEW f \in Feeders, EnsureArchive(f)
    PROVE  StoreInv' /\ Contract!Transaction
  BY EnsureKeeps DEF EnsureArchive

LEMMA FailKeeps ==
    ASSUME StoreInv, NEW f \in Feeders, Fail(f)
    PROVE  StoreInv'
  <1> DEFINE s == f_[f]
             t == f_'[f]
  <1>1. DOMAIN f_ = Feeders /\ DOMAIN s = FeederFields /\ FeederSound(f)
    BY DEF StoreInv, FeederSound
  <1>2. /\ DOMAIN f_' = Feeders /\ \A g \in Feeders \ {f} : f_'[g] = f_[g]
        /\ t = [s EXCEPT !.broken = TRUE, !.alone = FALSE] /\ UNCHANGED <<db, nextId, reports>>
    BY <1>1 DEF Fail
  <1>3. /\ DOMAIN t = FeederFields /\ t.pc = s.pc /\ t.bulks = s.bulks /\ t.items = s.items
        /\ t.time = s.time /\ t.cache = s.cache /\ t.touched = s.touched /\ t.doomed = s.doomed
        /\ t.ops = s.ops /\ t.pending = s.pending /\ t.broken = TRUE
    BY <1>1, <1>2 DEF FeederFields, Idle
  <1>4. Grows /\ \A id \in InsertedIds(f) : \A c \in Contexts : id \notin born'[c]
    BY <1>2, DbStays, Unborn DEF StoreInv
  <1>5. MessageSound(f)' /\ Proceeds(f)
    BY <1>1, <1>3, <1>4, MessageStays DEF FeederSound
  <1>6. CacheSound(f)'
    BY <1>1, <1>3, <1>4, <1>5, CacheStays DEF FeederSound
  <1>7. OpsSound(f)' /\ InsertedIds(f)' = InsertedIds(f)
    BY <1>1, <1>3, <1>4, OpsStay DEF FeederSound, InsertedIds
  <1>8. PutOffSound(f)'
    BY <1>1, <1>3, <1>4, PutOffStays DEF FeederSound
  <1>9. FeederSound(f)'
    BY <1>3, <1>5, <1>6, <1>7, <1>8 DEF FeederSound, FeederFields
  <1> HIDE DEF s, t
  <1> QED BY <1>2, <1>7, <1>9, WithoutCommit

LEMMA RestartKeeps ==
    ASSUME StoreInv, NEW f \in Feeders, Restart(f)
    PROVE  StoreInv'
  <1>1. /\ DOMAIN f_' = Feeders /\ \A g \in Feeders \ {f} : f_'[g] = f_[g]
        /\ f_'[f] = Idle /\ UNCHANGED <<db, nextId, reports>>
    BY DEF StoreInv, Restart
  <1>2. /\ DOMAIN f_'[f] = FeederFields /\ f_'[f].bulks = <<>> /\ f_'[f].items = <<>>
        /\ f_'[f].cache = <<>> /\ f_'[f].touched = {} /\ f_'[f].doomed = {}
        /\ f_'[f].pending = {} /\ f_'[f].ops = <<>>
    BY <1>1 DEF FeederFields, Idle
  <1>3. Grows
    BY <1>1, DbStays DEF StoreInv
  <1>4. OpsSound(f)' /\ InsertedIds(f)' = {}
    BY <1>2, NothingToInsert
  <1>5. FeederSound(f)'
    BY <1>2, <1>3, <1>4, IdleSound
  <1> QED BY <1>1, <1>4, <1>5, WithoutCommit

\* What a feeder sees of a context that it has not inserted a row of yet.
LEMMA ViewSound ==
    ASSUME StoreInv, NEW f \in Feeders
    PROVE  /\ IsFiniteSet(View(f_[f]))
           /\ ~f_[f].broken => \A r \in View(f_[f]), j \in DOMAIN f_[f].bulks :
                 r.ctx \in ContextsOf(f_[f].bulks[j]) =>
                    r.id \in born[r.ctx] /\ ValuesReported(r.ctx, r.data)
  <1> DEFINE s == f_[f]
             n == Len(s.ops)
  <1>1. OpsSound(f) /\ TableSound /\ BornSound
    BY DEF StoreInv, FeederSound
  <1>2. SoundOps(s.ops)
    BY <1>1 DEF OpsSound, SoundOps
  <1>3. Descends(View(s), s.ops, n)
    BY <1>1, <1>2, AfterDescends DEF View
  <1> HIDE DEF n
  <1>4. ASSUME ~s.broken, NEW r \in View(s), NEW j \in DOMAIN s.bulks,
               r.ctx \in ContextsOf(s.bulks[j])
        PROVE  r.id \in born[r.ctx] /\ ValuesReported(r.ctx, r.data)
    <2>1. ~FromOps(r, s.ops, n)
      BY <1>1, <1>4 DEF FromOps, OpsSound
    <2>2. SoundRow(r)
      BY <1>1, <1>3, <2>1, RowsFromTable DEF Descends
    <2> QED BY <2>2 DEF SoundRow
  <1> QED BY <1>3, <1>4 DEF Descends

LEMMA FoundInView ==
    ASSUME NEW s, NEW found \in Found(s)
    PROVE  /\ found \subseteq View(s)
           /\ "just_insert" \in meta \/ s.queried => found = {}
  BY DEF Found

\* After the lookup, the cache is sound for what is still to be stored.
LEMMA LookupKeepsCache ==
    ASSUME StoreInv, NEW f \in Feeders, Grows, MessageSound(f)', Proceeds(f),
           NEW found, found \subseteq View(f_[f]), f_[f].broken => found = {},
           f_'[f].cache = Cached(f_[f].cache, found),
           \A c \in Awaited(f_'[f]) : \E j \in DOMAIN f_[f].bulks : c \in ContextsOf(f_[f].bulks[j])
    PROVE  CacheSound(f)'
  <1> DEFINE s == f_[f]
             t == f_'[f]
             more == SetToSeq(found)
  <1>1. CacheSound(f) /\ IsSeq(s.cache)
    BY DEF StoreInv, FeederSound, CacheSound
  <1>2. IsSeq(more) /\ ToSet(more) \subseteq found
    BY ViewSound, FS_Subset, SetAsSeq
  <1>3. Awaited(t) \subseteq Awaited(s) /\ Awaited(t) \subseteq Contexts
    BY AwaitedContexts DEF Awaited, Proceeds, MessageSound
  <1>4. \A i \in DOMAIN more : more[i] \in found
    BY <1>2 DEF ToSet
  <1> HIDE DEF more
  <1>5. IsSeq(t.cache) /\ \A i \in DOMAIN t.cache :
           \/ \E j \in DOMAIN s.cache : t.cache[i] = s.cache[j]
           \/ t.cache[i] \in found
    <2>1. t.cache = s.cache \o more
      BY DEF Cached, more
    <2> HIDE DEF s, t
    <2> DEFINE all == s.cache \o more
    <2>2. /\ IsSeq(all)
          /\ \A i \in DOMAIN all :
                IF i \in DOMAIN s.cache THEN all[i] = s.cache[i]
                ELSE i - Len(s.cache) \in DOMAIN more /\ all[i] = more[i - Len(s.cache)]
      BY <1>1, <1>2, Concatenation
    <2> HIDE DEF all
    <2>3. \A i \in DOMAIN all : (\E j \in DOMAIN s.cache : all[i] = s.cache[j]) \/ all[i] \in found
      BY <1>4, <2>2
    <2>4. t.cache = all
      BY <2>1 DEF all
    <2> QED BY <2>2, <2>3, <2>4
  <1>6. ASSUME NEW r \in found, r.ctx \in Awaited(t)
        PROVE  r.id \in born[r.ctx] /\ ValuesReported(r.ctx, r.data)
    BY <1>6, ViewSound
  <1>7. ASSUME NEW i \in DOMAIN t.cache, t.cache[i].ctx \in Awaited(t)
        PROVE  /\ t.cache[i].id \in born[t.cache[i].ctx]
               /\ ValuesReported(t.cache[i].ctx, t.cache[i].data)
    BY <1>1, <1>3, <1>5, <1>6, <1>7 DEF CacheSound
  <1> QED BY <1>3, <1>5, <1>7, SoundStays DEF CacheSound, Grows

LEMMA PreBulkKeeps ==
    ASSUME StoreInv, NEW f \in Feeders, PreBulkProcess(f)
    PROVE  StoreInv'
  <1> DEFINE s == f_[f]
             t == f_'[f]
  <1>1. DOMAIN f_ = Feeders /\ DOMAIN s = FeederFields /\ FeederSound(f)
    BY DEF StoreInv, FeederSound
  <1>2. s.pc = "bulk" /\ s.bulks # <<>> /\ UNCHANGED <<db, nextId, reports>>
    BY DEF PreBulkProcess
  <1>3. /\ DOMAIN f_' = Feeders /\ \A g \in Feeders \ {f} : f_'[g] = f_[g]
        /\ DOMAIN t = FeederFields /\ t.bulks = Tail(s.bulks) /\ t.time = s.time
        /\ t.touched = s.touched /\ t.doomed = s.doomed /\ t.ops = s.ops
        /\ t.broken = s.broken /\ t.pending = s.pending /\ t.pc # "idle"
        /\ \/ t.items = s.items /\ t.pc = s.pc /\ t.cache = s.cache
           \/ /\ t.items = Head(s.bulks) /\ t.pc = "saving"
              /\ \E found \in Found(s) : t.cache = Cached(s.cache, found)
              /\ ~s.broken \/ "just_insert" \in meta \/ s.queried
    <2>1. CASE s.broken /\ "just_insert" \notin meta /\ ~s.queried
      <3>1. f_' = [f_ EXCEPT ![f].bulks = Tail(@)]
        BY <2>1 DEF PreBulkProcess
      <3>2. t = [s EXCEPT !.bulks = Tail(@)]
        BY <1>1, <3>1
      <3> QED BY <1>1, <1>2, <3>1, <3>2 DEF FeederFields, Idle
    <2>2. CASE ~(s.broken /\ "just_insert" \notin meta /\ ~s.queried)
      <3>1. PICK found \in Found(s) :
               f_' = [f_ EXCEPT ![f].pc = "saving", ![f].items = Head(s.bulks),
                                ![f].bulks = Tail(@), ![f].cache = Cached(@, found)]
        BY <2>2 DEF PreBulkProcess
      <3>2. t = [s EXCEPT !.pc = "saving", !.items = Head(s.bulks), !.bulks = Tail(@),
                          !.cache = Cached(@, found)]
        BY <1>1, <3>1
      <3>3. DOMAIN f_' = Feeders /\ \A g \in Feeders \ {f} : f_'[g] = f_[g]
        BY <1>1, <3>1
      <3> QED BY <1>1, <2>2, <3>2, <3>3 DEF FeederFields, Idle
    <2> QED BY <2>1, <2>2
  <1>4. Grows /\ \A id \in InsertedIds(f) : \A c \in Contexts : id \notin born'[c]
    BY <1>2, DbStays, Unborn DEF StoreInv
  <1>5. MessageSound(f)' /\ Proceeds(f)
    BY <1>1, <1>2, <1>3, <1>4, MessageAdvances DEF FeederSound
  <1>6. OpsSound(f)'
    <2>1. \A j \in DOMAIN t.bulks : \E i \in DOMAIN s.bulks : t.bulks[j] = s.bulks[i]
      BY <1>5 DEF Proceeds
    <2>2. OpsSound(f)
      BY <1>1 DEF FeederSound
    <2> QED BY Zenon, <1>3, <1>4, <2>1, <2>2, OpsStay
  <1>7. CacheSound(f)'
    <2>1. CASE t.cache = s.cache
      BY <1>1, <1>4, <1>5, <2>1, CacheStays DEF FeederSound
    <2>2. CASE t.cache # s.cache
      <3>1. PICK found \in Found(s) : t.cache = Cached(s.cache, found)
        BY <1>3, <2>2
      <3>2. t.items = Head(s.bulks) /\ (~s.broken \/ "just_insert" \in meta \/ s.queried)
        BY <1>3, <2>2
      <3>3. found \subseteq View(s) /\ (s.broken => found = {})
        BY <3>2, FoundInView
      <3>4. \A q \in Seq(Bulks) : q # <<>> =>
               /\ Head(q) = q[1] /\ 1 \in DOMAIN q
               /\ \A i \in DOMAIN Tail(q) : i + 1 \in DOMAIN q /\ Tail(q)[i] = q[i + 1]
        OBVIOUS
      <3>5. \A c \in Awaited(t) : \E j \in DOMAIN s.bulks : c \in ContextsOf(s.bulks[j])
        <4>1. /\ t.items = s.bulks[1] /\ 1 \in DOMAIN s.bulks
              /\ \A i \in DOMAIN t.bulks :
                    i + 1 \in DOMAIN s.bulks /\ t.bulks[i] = s.bulks[i + 1]
          BY <1>1, <1>2, <1>3, <3>2, <3>4 DEF FeederSound, MessageSound
        <4> QED BY <4>1 DEF Awaited, ItemsLeft, ContextsOf
      <3> QED BY <1>4, <1>5, <3>1, <3>3, <3>5, LookupKeepsCache
    <2> QED BY <2>1, <2>2
  <1>8. PutOffSound(f)'
    BY <1>1, <1>3, <1>4, PutOffStays DEF FeederSound
  <1>9. FeederSound(f)'
    BY <1>3, <1>5, <1>6, <1>7, <1>8 DEF FeederSound, FeederFields
  <1>10. InsertedIds(f)' = InsertedIds(f)
    BY <1>3 DEF InsertedIds
  <1> HIDE DEF s, t
  <1> QED BY <1>2, <1>3, <1>9, <1>10, WithoutCommit

-----------------------------------------------------------------------------
(* Steps: a report is stored *)

\* What all ways to deal with a report have in common.
LEMMA ReportDone ==
    ASSUME StoreInv, NEW f \in Feeders, UNCHANGED <<db, reports>>,
           nextId' = nextId \/ nextId' = nextId + 1,
           f_[f].items # <<>>, f_[f].pc = "saving",
           NEW t, f_' = [f_ EXCEPT ![f] = t], DOMAIN t = FeederFields,
           t.pc = f_[f].pc, t.bulks = f_[f].bulks, t.time = f_[f].time,
           t.cache = f_[f].cache, t.pending = f_[f].pending, t.broken = f_[f].broken,
           t.items = Tail(f_[f].items),
           \A id \in t.touched : id \in f_[f].touched \/ BornAt(id, f_[f].time),
           \A id \in t.doomed : id \in f_[f].doomed \/ Several(id),
           IsSeq(t.ops),
           \A i \in DOMAIN t.ops :
              \/ i \in DOMAIN f_[f].ops /\ t.ops[i] = f_[f].ops[i]
              \/ /\ OpSound(t.ops[i])'
                 /\ t.ops[i].do = "insert" =>
                      /\ i = Len(t.ops) /\ nextId' = nextId + 1 /\ t.ops[i].row.id = nextId
                      /\ \A j \in DOMAIN f_[f].bulks :
                            t.ops[i].row.ctx \notin ContextsOf(f_[f].bulks[j])
    PROVE  StoreInv'
  <1> DEFINE s == f_[f]
  <1>1. DOMAIN f_ = Feeders /\ BornSound /\ FeederSound(f) /\ OpsSound(f)
    BY DEF StoreInv, FeederSound
  <1>2. DOMAIN f_' = Feeders /\ f_'[f] = t /\ \A g \in Feeders \ {f} : f_'[g] = f_[g]
    BY <1>1
  <1>3. Grows
    BY DbStays DEF StoreInv
  <1>4. ASSUME NEW id \in InsertedIds(f)
        PROVE  id # nextId /\ \A c \in Contexts : id \notin born'[c]
    <2>1. UNCHANGED db
      OBVIOUS
    <2>2. \A c \in Contexts : id \notin born'[c]
      BY <2>1, Unborn
    <2>3. id # nextId
      BY <1>1, SMT DEF OpsSound, OpSound, NewRow, InsertedIds, Insertions, BornSound
    <2> QED BY <2>2, <2>3
  <1>5. MessageSound(f)' /\ Proceeds(f)
    BY <1>1, <1>2, <1>3, MessageStays DEF FeederSound
  <1>6. CacheSound(f)'
    BY <1>1, <1>2, <1>3, <1>5, CacheStays DEF FeederSound
  <1>7. OpsSound(f)'
    <2>1. \A j \in DOMAIN t.bulks : \E i \in DOMAIN s.bulks : t.bulks[j] = s.bulks[i]
      OBVIOUS
    <2>2. OpsSound(f)
      BY <1>1 DEF FeederSound
    <2>a. \A i \in DOMAIN t.ops : t.ops[i].row.id = nextId => t.ops[i].row.id \notin InsertedIds(f)
      BY Zenon, <1>4
    <2>3. \A i \in DOMAIN t.ops :
              \/ i \in DOMAIN f_[f].ops /\ t.ops[i] = f_[f].ops[i]
              \/ /\ OpSound(t.ops[i])'
                 /\ t.ops[i].do = "insert" =>
                      /\ i = Len(t.ops) /\ t.ops[i].row.id \notin InsertedIds(f)
                      /\ \A j \in DOMAIN f_[f].bulks :
                            t.ops[i].row.ctx \notin ContextsOf(f_[f].bulks[j])
      BY Zenon, <2>a
    <2>4. \A id \in InsertedIds(f) : \A c \in Contexts : id \notin born'[c]
      BY <1>4
    <2>5. /\ f_'[f].ops = t.ops /\ (f_'[f].broken \/ ~f_[f].broken) /\ f_'[f].pc # "idle"
          /\ \A j \in DOMAIN f_'[f].bulks :
                \E i \in DOMAIN f_[f].bulks : f_'[f].bulks[j] = f_[f].bulks[i]
      BY <1>2, <2>1
    <2> QED BY Zenon, <1>3, <2>2, <2>3, <2>4, <2>5, OpsGrow
  <1>8. PutOffSound(f)'
    <2>1. \A id \in t.touched : id \in s.touched \/ BornAt(id, s.time)'
      BY <1>3, SoundStays
    <2>2. \A id \in t.doomed : id \in s.doomed \/ Several(id)'
      BY <1>3, SoundStays
    <2>3. PICK time : time = s.time /\ time = t.time
      OBVIOUS
    <2>4. \A id \in t.touched : id \in s.touched \/ BornAt(id, time)'
      BY <1>3, <2>3, SoundStays
    <2> QED BY <1>1, <1>2, <1>3, <2>2, <2>3, <2>4, PutOffStays DEF FeederSound
  <1>9. FeederSound(f)'
    BY <1>2, <1>5, <1>6, <1>7, <1>8 DEF FeederSound, FeederFields
  <1>10. \A id \in InsertedIds(f)' : id \in InsertedIds(f) \/ id = nextId
    BY <1>2 DEF InsertedIds, Insertions
  <1> QED BY <1>2, <1>9, <1>10, WithoutCommit

\* The report at hand.
LEMMA ItemReported ==
    ASSUME StoreInv, NEW f \in Feeders, f_[f].items # <<>>, NEW item, item = Head(f_[f].items)
    PROVE  /\ DOMAIN f_[f] = FeederFields /\ IsSeq(f_[f].ops)
           /\ item.ctx \in Contexts /\ item.ctx \in Awaited(f_[f])
           /\ Reported(item.ctx, f_[f].time) /\ ValuesReported(item.ctx, item.data)
           /\ \A j \in DOMAIN f_[f].bulks : item.ctx \notin ContextsOf(f_[f].bulks[j])
  <1> DEFINE s == f_[f]
  <1>1. DOMAIN s = FeederFields /\ IsSeq(s.ops) /\ MessageSound(f)
    BY DEF StoreInv, FeederSound, OpsSound
  <1>2. \A q \in Seq(Reports) : q # <<>> => Head(q) \in ToSet(q)
    BY DEF ToSet
  <1>3. item \in ToSet(s.items)
    BY <1>1, <1>2 DEF MessageSound
  <1>4. item.ctx \in Awaited(s) /\ item \in ItemsLeft(s) /\ item.ctx \in ContextsOf(s.items)
    BY <1>3 DEF Awaited, ItemsLeft, ContextsOf
  <1>5. item.ctx \in Contexts
    BY <1>1, <1>4, AwaitedContexts DEF MessageSound
  <1>6. PICK p \in reports : p = [ctx |-> item.ctx, data |-> item.data, time |-> s.time]
    BY <1>1, <1>4 DEF MessageSound
  <1>7. Reported(item.ctx, s.time) /\ ValuesReported(item.ctx, item.data)
    BY <1>6 DEF Reported, ValuesReported
  <1>8. \A j \in DOMAIN s.bulks : item.ctx \notin ContextsOf(s.bulks[j])
    BY <1>1, <1>4 DEF MessageSound
  <1> QED BY <1>1, <1>4, <1>5, <1>7, <1>8

\* The cached rows of its context.
LEMMA DocsSound ==
    ASSUME StoreInv, NEW f \in Feeders, NEW c \in Awaited(f_[f]), NEW i \in Docs(f_[f], c)
    PROVE  f_[f].cache[i].id \in born[c] /\ ValuesReported(c, f_[f].cache[i].data)
  BY DEF Docs, StoreInv, FeederSound, CacheSound

LEMMA DecisionReported ==
    ASSUME NEW c, NEW row, NEW data, ValuesReported(c, row.data), ValuesReported(c, data)
    PROVE  ValuesReported(c, Decision(row, data).data)
  BY DEF Decision, Merged, ValuesReported

LEMMA SkipKeeps ==
    ASSUME StoreInv, NEW f \in Feeders, UNCHANGED <<db, reports, nextId>>,
           f_[f].items # <<>>, f_[f].pc = "saving",
           f_' = [f_ EXCEPT ![f] = [f_[f] EXCEPT !.items = Tail(@)]]
    PROVE  StoreInv'
  <1> DEFINE s == f_[f]
  <1>1. PICK t : t = [s EXCEPT !.items = Tail(@)]
    OBVIOUS
  <1>2. DOMAIN s = FeederFields /\ IsSeq(s.ops)
    BY ItemReported
  <1>3. /\ DOMAIN t = FeederFields /\ t.pc = s.pc /\ t.bulks = s.bulks /\ t.time = s.time
        /\ t.cache = s.cache /\ t.pending = s.pending /\ t.broken = s.broken
        /\ t.items = Tail(s.items) /\ t.touched = s.touched /\ t.doomed = s.doomed
        /\ t.ops = s.ops
    BY <1>1, <1>2 DEF FeederFields, Idle
  <1> QED BY <1>1, <1>2, <1>3, ReportDone

\* A feeder with a further statement.
LEMMA DoAdds ==
    ASSUME NEW s, DOMAIN s = FeederFields, IsSeq(s.ops), NEW op, NEW t, t = Do(s, op)
    PROVE  /\ DOMAIN t = FeederFields /\ t.pc = s.pc /\ t.bulks = s.bulks /\ t.items = s.items
           /\ t.time = s.time /\ t.cache = s.cache /\ t.pending = s.pending
           /\ t.broken = s.broken /\ t.touched = s.touched /\ t.doomed = s.doomed
           /\ IsSeq(t.ops)
           /\ \A i \in DOMAIN t.ops :
                 \/ i \in DOMAIN s.ops /\ t.ops[i] = s.ops[i]
                 \/ i = Len(t.ops) /\ t.ops[i] = op
  <1>1. /\ DOMAIN t = FeederFields /\ t.pc = s.pc /\ t.bulks = s.bulks /\ t.items = s.items
        /\ t.time = s.time /\ t.cache = s.cache /\ t.pending = s.pending
        /\ t.broken = s.broken /\ t.touched = s.touched /\ t.doomed = s.doomed
        /\ t.ops = Append(s.ops, op)
    BY DEF FeederFields, Idle, Do
  <1>2. PICK q : q = s.ops
    OBVIOUS
  <1>3. PICK r : r = t.ops
    OBVIOUS
  <1>4. IsSeq(q) /\ r = Append(q, op)
    BY <1>1, <1>2, <1>3
  <1>5. /\ IsSeq(r)
        /\ \A i \in DOMAIN r : (i \in DOMAIN q /\ r[i] = q[i]) \/ (i = Len(r) /\ r[i] = op)
    BY <1>4, Appended
  <1> QED BY <1>1, <1>2, <1>3, <1>5

LEMMA InsertKeeps ==
    ASSUME StoreInv, NEW f \in Feeders, UNCHANGED <<db, reports>>, nextId' = nextId + 1,
           f_[f].items # <<>>, f_[f].pc = "saving", NEW row,
           row = [id |-> nextId, ctx |-> Head(f_[f].items).ctx, created |-> f_[f].time,
                  updated |-> f_[f].time, data |-> Head(f_[f].items).data],
           f_' = [f_ EXCEPT ![f] = Do([f_[f] EXCEPT !.items = Tail(@)],
                                      [do |-> "insert", row |-> row])]
    PROVE  StoreInv'
  <1> DEFINE s == f_[f]
  <1>1. PICK op : op = [do |-> "insert", row |-> row]
    OBVIOUS
  <1>2. PICK t : t = Do([s EXCEPT !.items = Tail(@)], op)
    OBVIOUS
  <1>3. PICK item : item = Head(s.items)
    OBVIOUS
  <1>4. /\ DOMAIN s = FeederFields /\ IsSeq(s.ops)
        /\ item.ctx \in Contexts
        /\ Reported(item.ctx, s.time) /\ ValuesReported(item.ctx, item.data)
        /\ \A j \in DOMAIN s.bulks : item.ctx \notin ContextsOf(s.bulks[j])
    BY <1>3, ItemReported
  <1>5. /\ DOMAIN t = FeederFields /\ t.pc = s.pc /\ t.bulks = s.bulks /\ t.time = s.time
        /\ t.cache = s.cache /\ t.pending = s.pending /\ t.broken = s.broken
        /\ t.items = Tail(s.items) /\ t.touched = s.touched /\ t.doomed = s.doomed
        /\ IsSeq(t.ops)
        /\ \A i \in DOMAIN t.ops :
              \/ i \in DOMAIN s.ops /\ t.ops[i] = s.ops[i]
              \/ i = Len(t.ops) /\ t.ops[i] = op
    <2>1. PICK u : u = [s EXCEPT !.items = Tail(@)]
      OBVIOUS
    <2>2. /\ DOMAIN u = FeederFields /\ u.pc = s.pc /\ u.bulks = s.bulks /\ u.time = s.time
          /\ u.cache = s.cache /\ u.pending = s.pending /\ u.broken = s.broken
          /\ u.items = Tail(s.items) /\ u.touched = s.touched /\ u.doomed = s.doomed
          /\ u.ops = s.ops
      BY <1>4, <2>1 DEF FeederFields, Idle
    <2>3. t = Do(u, op)
      BY <1>2, <2>1
    <2> QED BY <1>4, <2>2, <2>3, DoAdds
  <1>6. /\ DOMAIN row = RowFields /\ row.id = nextId /\ row.ctx = item.ctx
        /\ row.created = s.time /\ row.updated = s.time /\ row.data = item.data
    BY <1>3 DEF RowFields
  <1>7. Grows
    BY DbStays DEF StoreInv
  <1>8. NewRow(row)'
    <2>1. nextId \in Nat \ {0} /\ \A c \in Contexts : nextId \notin born'[c]
      BY DEF StoreInv, BornSound, db
    <2>2. Reported(row.ctx, row.updated) /\ ValuesReported(row.ctx, row.data)
      BY <1>4, <1>6
    <2> QED BY <1>4, <1>6, <1>7, <2>1, <2>2, SoundStays DEF NewRow
  <1>9. OpSound(op)'
    BY <1>1, <1>8 DEF OpSound
  <1>10. op.do = "insert" /\ op.row = row
    BY <1>1
  <1>11. \A i \in DOMAIN t.ops :
              \/ i \in DOMAIN s.ops /\ t.ops[i] = s.ops[i]
              \/ /\ OpSound(t.ops[i])'
                 /\ t.ops[i].do = "insert" =>
                      /\ i = Len(t.ops) /\ nextId' = nextId + 1 /\ t.ops[i].row.id = nextId
                      /\ \A j \in DOMAIN s.bulks : t.ops[i].row.ctx \notin ContextsOf(s.bulks[j])
    BY <1>4, <1>5, <1>6, <1>9, <1>10
  <1>12. f_' = [f_ EXCEPT ![f] = t]
    BY <1>1, <1>2
  <1> QED BY <1>5, <1>11, <1>12, ReportDone

LEMMA DoomKeeps ==
    ASSUME StoreInv, NEW f \in Feeders, UNCHANGED <<db, reports, nextId>>,
           f_[f].items # <<>>, f_[f].pc = "saving", NEW docs,
           docs = Docs(f_[f], Head(f_[f].items).ctx), NEW oldest \in docs,
           f_' = [f_ EXCEPT ![f] = [[f_[f] EXCEPT !.items = Tail(@)] EXCEPT
                                      !.doomed = Doom(f_[f], docs, f_[f].cache[oldest].id)]]
    PROVE  StoreInv'
  <1> DEFINE s == f_[f]
  <1>1. PICK item : item = Head(s.items)
    OBVIOUS
  <1>2. PICK doomed : doomed = Doom(s, docs, s.cache[oldest].id)
    OBVIOUS
  <1>3. PICK t : t = [[s EXCEPT !.items = Tail(@)] EXCEPT !.doomed = doomed]
    OBVIOUS
  <1>4. /\ DOMAIN s = FeederFields /\ IsSeq(s.ops)
        /\ item.ctx \in Contexts /\ item.ctx \in Awaited(s)
    BY <1>1, ItemReported
  <1>5. /\ DOMAIN t = FeederFields /\ t.pc = s.pc /\ t.bulks = s.bulks /\ t.time = s.time
        /\ t.cache = s.cache /\ t.pending = s.pending /\ t.broken = s.broken
        /\ t.items = Tail(s.items) /\ t.touched = s.touched /\ t.doomed = doomed
        /\ t.ops = s.ops
    BY <1>3, <1>4 DEF FeederFields, Idle
  <1>6. \A i \in docs : s.cache[i].id \in born[item.ctx]
    BY <1>1, <1>4, DocsSound
  <1>7. \A id \in doomed : id \in s.doomed \/ Several(id)
    <2>1. \A id \in doomed : id \in s.doomed
             \/ (id \in {s.cache[i].id : i \in docs} /\ id # s.cache[oldest].id)
      BY <1>2 DEF Doom
    <2> QED BY <1>4, <1>6, <2>1 DEF Several
  <1>8. f_' = [f_ EXCEPT ![f] = t]
    BY <1>2, <1>3
  <1> QED BY <1>4, <1>5, <1>7, <1>8, ReportDone

\* What becomes of a feeder that deals with a report on the one row of its context.
UpdatesTo(u, row, c, data, t) == t = UpdateRow(u, row, c, data)

LEMMA UpdateRowSound ==
    ASSUME NEW u, DOMAIN u = FeederFields, IsSeq(u.ops), NEW row, NEW c \in Contexts, NEW data,
           row.id \in born[c], Reported(c, u.time),
           ValuesReported(c, row.data), ValuesReported(c, data),
           NEW t, UpdatesTo(u, row, c, data, t)
    PROVE  /\ DOMAIN t = FeederFields /\ t.pc = u.pc /\ t.bulks = u.bulks /\ t.time = u.time
           /\ t.cache = u.cache /\ t.pending = u.pending /\ t.broken = u.broken
           /\ t.items = u.items /\ t.doomed = u.doomed
           /\ \A id \in t.touched : id \in u.touched \/ BornAt(id, u.time)
           /\ IsSeq(t.ops)
           /\ \A j \in DOMAIN t.ops :
                 \/ j \in DOMAIN u.ops /\ t.ops[j] = u.ops[j]
                 \/ OpSound(t.ops[j]) /\ t.ops[j].do # "insert"
  <1>1. PICK d : d = Decision(row, data)
    OBVIOUS
  <1>2. ValuesReported(c, d.data)
    BY <1>1, DecisionReported
  <1>3. PICK update :
          update = [do |-> "update", id |-> row.id, ctx |-> c, time |-> u.time,
                    data |-> d.data, restart |-> "ignore_data" \notin meta]
    OBVIOUS
  <1>4. PICK entry :
          entry = [do |-> "archive", entry |-> [id |-> row.id, created |-> row.created,
                   updated |-> u.time, data |-> d.data, was |-> row.data]]
    OBVIOUS
  <1>5. /\ OpSound(update) /\ update.do = "update" /\ OpSound(entry) /\ entry.do = "archive"
        /\ BornAt(row.id, u.time)
    BY <1>2, <1>3, <1>4 DEF OpSound, BornAt
  <1>6. \/ t = [u EXCEPT !.touched = @ \cup {row.id}]
        \/ t = Do(u, update)
        \/ t = Do(Do(u, entry), update)
    BY <1>1, <1>3, <1>4 DEF UpdatesTo, UpdateRow
  <1>7. CASE t = [u EXCEPT !.touched = @ \cup {row.id}]
    <2>1. /\ DOMAIN t = FeederFields /\ t.pc = u.pc /\ t.bulks = u.bulks /\ t.time = u.time
          /\ t.cache = u.cache /\ t.pending = u.pending /\ t.broken = u.broken
          /\ t.items = u.items /\ t.doomed = u.doomed
          /\ t.touched = u.touched \cup {row.id} /\ t.ops = u.ops
      BY <1>7 DEF FeederFields, Idle
    <2> QED BY <1>5, <2>1
  <1>8. CASE t = Do(u, update)
    BY <1>5, <1>8, DoAdds
  <1>9. CASE t = Do(Do(u, entry), update)
    <2>1. PICK v : v = Do(u, entry)
      OBVIOUS
    <2>2. /\ DOMAIN v = FeederFields /\ v.pc = u.pc /\ v.bulks = u.bulks /\ v.time = u.time
          /\ v.cache = u.cache /\ v.pending = u.pending /\ v.broken = u.broken
          /\ v.items = u.items /\ v.doomed = u.doomed /\ v.touched = u.touched
          /\ IsSeq(v.ops)
          /\ \A j \in DOMAIN v.ops :
                (j \in DOMAIN u.ops /\ v.ops[j] = u.ops[j]) \/ v.ops[j] = entry
      BY <2>1, DoAdds
    <2>3. t = Do(v, update)
      BY <1>9, <2>1
    <2> QED BY <1>5, <2>2, <2>3, DoAdds
  <1> QED BY <1>6, <1>7, <1>8, <1>9

\* What the feeder is after the report item on the row at i of its cache.
Updated(f, item, i, t) ==
    t = UpdateRow([f_[f] EXCEPT !.items = Tail(@)], f_[f].cache[i], item.ctx, item.data)
Becomes(f, t) == f_' = [f_ EXCEPT ![f] = t]

LEMMA UpdateKeeps ==
    ASSUME StoreInv, NEW f \in Feeders, UNCHANGED <<db, reports, nextId>>,
           f_[f].items # <<>>, f_[f].pc = "saving", NEW item, item = Head(f_[f].items),
           NEW i \in Docs(f_[f], item.ctx), NEW t, Updated(f, item, i, t), Becomes(f, t)
    PROVE  StoreInv'
  <1> DEFINE s == f_[f]
  <1>1. PICK u : u = [s EXCEPT !.items = Tail(@)]
    OBVIOUS
  <1>2. PICK row : row = s.cache[i]
    OBVIOUS
  <1>3. /\ DOMAIN s = FeederFields /\ IsSeq(s.ops)
        /\ item.ctx \in Contexts /\ item.ctx \in Awaited(s)
        /\ Reported(item.ctx, s.time) /\ ValuesReported(item.ctx, item.data)
    BY ItemReported
  <1>4. /\ DOMAIN u = FeederFields /\ u.pc = s.pc /\ u.bulks = s.bulks /\ u.time = s.time
        /\ u.cache = s.cache /\ u.pending = s.pending /\ u.broken = s.broken
        /\ u.items = Tail(s.items) /\ u.touched = s.touched /\ u.doomed = s.doomed
        /\ u.ops = s.ops
    BY <1>1, <1>3 DEF FeederFields, Idle
  <1>5. row.id \in born[item.ctx] /\ ValuesReported(item.ctx, row.data)
    BY <1>2, <1>3, DocsSound
  <1>6. UpdatesTo(u, row, item.ctx, item.data, t)
    BY <1>1, <1>2 DEF Updated, UpdatesTo
  <1>7. /\ DOMAIN t = FeederFields /\ t.pc = s.pc /\ t.bulks = s.bulks /\ t.time = s.time
        /\ t.cache = s.cache /\ t.pending = s.pending /\ t.broken = s.broken
        /\ t.items = Tail(s.items) /\ t.doomed = s.doomed
        /\ \A id \in t.touched : id \in s.touched \/ BornAt(id, s.time)
        /\ IsSeq(t.ops)
        /\ \A j \in DOMAIN t.ops :
              \/ j \in DOMAIN s.ops /\ t.ops[j] = s.ops[j]
              \/ OpSound(t.ops[j]) /\ t.ops[j].do # "insert"
    <2>1. IsSeq(u.ops) /\ Reported(item.ctx, u.time)
      BY <1>3, <1>4
    <2>2. /\ DOMAIN t = FeederFields /\ t.pc = u.pc /\ t.bulks = u.bulks /\ t.time = u.time
          /\ t.cache = u.cache /\ t.pending = u.pending /\ t.broken = u.broken
          /\ t.items = u.items /\ t.doomed = u.doomed
          /\ \A id \in t.touched : id \in u.touched \/ BornAt(id, u.time)
          /\ IsSeq(t.ops)
          /\ \A j \in DOMAIN t.ops :
                \/ j \in DOMAIN u.ops /\ t.ops[j] = u.ops[j]
                \/ OpSound(t.ops[j]) /\ t.ops[j].do # "insert"
      BY <1>3, <1>4, <1>5, <1>6, <2>1, UpdateRowSound
    <2> HIDE DEF s
    <2> QED BY <1>4, <2>2
  <1>8. \A op : OpSound(op) /\ op.do # "insert" => OpSound(op)'
    <2>1. Grows
      BY DbStays DEF StoreInv
    <2> QED BY <2>1, OpStays
  <1>9. \A j \in DOMAIN t.ops :
           \/ j \in DOMAIN s.ops /\ t.ops[j] = s.ops[j]
           \/ OpSound(t.ops[j])' /\ t.ops[j].do # "insert"
    BY <1>7, <1>8
  <1>10. f_' = [f_ EXCEPT ![f] = t]
    BY DEF Becomes
  <1> QED BY <1>7, <1>9, <1>10, ReportDone

LEMMA SaveKeeps ==
    ASSUME StoreInv, NEW f \in Feeders, Save(f)
    PROVE  StoreInv'
  <1> DEFINE s == f_[f]
  <1>1. s.pc = "saving" /\ s.items # <<>> /\ UNCHANGED <<db, reports>>
    BY Zenon DEF Save
  <1>2. PICK item : item = Head(s.items)
    OBVIOUS
  <1>3. PICK docs : docs = Docs(s, item.ctx)
    OBVIOUS
  <1>4. PICK next : next = [s EXCEPT !.items = Tail(@)]
    OBVIOUS
  <1> DEFINE oldest == {i \in docs : \A j \in docs : s.cache[i].created <= s.cache[j].created}
             Skips == f_' = [f_ EXCEPT ![f] = next] /\ UNCHANGED nextId
             Inserts ==
                /\ f_' = [f_ EXCEPT ![f] = Do(next, [do |-> "insert", row |->
                       [id |-> nextId, ctx |-> item.ctx, created |-> s.time, updated |-> s.time,
                        data |-> item.data]])]
                /\ nextId' = nextId + 1
             Updates(i) ==
                /\ \E t : Updated(f, item, i, t) /\ Becomes(f, t)
                /\ UNCHANGED nextId
             Dooms(i) ==
                /\ f_' = [f_ EXCEPT ![f] = [next EXCEPT !.doomed = Doom(s, docs, s.cache[i].id)]]
                /\ UNCHANGED nextId
  <1>5. Skips \/ Inserts \/ (\E i \in docs : Updates(i)) \/ (\E i \in oldest : Dooms(i))
    BY <1>2, <1>3, <1>4, Zenon DEF Save, Updated, Becomes
  <1>6. CASE Skips
    BY <1>1, <1>4, <1>6, SkipKeeps
  <1>7. CASE Inserts
    BY <1>1, <1>2, <1>4, <1>7, InsertKeeps
  <1>8. ASSUME NEW i \in docs, Updates(i) PROVE StoreInv'
    BY <1>1, <1>2, <1>3, <1>8, UpdateKeeps
  <1>9. ASSUME NEW i \in docs, Dooms(i) PROVE StoreInv'
    BY <1>1, <1>2, <1>3, <1>4, <1>9, DoomKeeps
  <1>10. oldest \subseteq docs
    OBVIOUS
  <1> HIDE DEF oldest, Skips, Inserts, Updates, Dooms
  <1> QED BY <1>5, <1>6, <1>7, <1>8, <1>9, <1>10

-----------------------------------------------------------------------------
(* Steps: the end of a bulk, and of a message *)

LEMMA PostBulkKeeps ==
    ASSUME StoreInv, NEW f \in Feeders, PostBulkProcess(f)
    PROVE  StoreInv'
  <1> DEFINE s == f_[f]
  <1>1. /\ DOMAIN f_ = Feeders /\ DOMAIN s = FeederFields /\ FeederSound(f) /\ IsSeq(s.ops)
        /\ s.pc = "saving" /\ s.items = <<>> /\ UNCHANGED <<db, nextId, reports>>
    BY DEF StoreInv, FeederSound, OpsSound, PostBulkProcess
  <1>2. Grows /\ \A id \in InsertedIds(f) : \A c \in Contexts : id \notin born'[c]
    BY <1>1, DbStays, Unborn DEF StoreInv
  <1>3. PICK touch : touch = [do |-> "touch", ids |-> s.touched, time |-> s.time]
    OBVIOUS
  <1>4. OpSound(touch) /\ touch.do = "touch" /\ \A id \in s.touched : BornAt(id, s.time)
    BY <1>1, <1>3 DEF OpSound, FeederSound, PutOffSound
  <1>5. OpSound(touch)'
    BY <1>2, <1>4, OpStays
  <1>6. PICK done : done = [s EXCEPT !.pc = "bulk",
                                     !.touched = IF s.broken /\ ~deferred THEN @ ELSE {}]
    OBVIOUS
  <1>7. /\ DOMAIN done = FeederFields /\ done.pc = "bulk" /\ done.bulks = s.bulks
        /\ done.items = s.items /\ done.time = s.time /\ done.cache = s.cache
        /\ done.pending = s.pending /\ done.broken = s.broken /\ done.touched \subseteq s.touched
        /\ done.doomed = s.doomed /\ done.ops = s.ops
    BY <1>1, <1>6 DEF FeederFields, Idle
  <1>8. PICK t : t = IF s.touched = {} THEN done
                     ELSE IF deferred THEN [done EXCEPT !.pending = @ \cup ({s.time} \X s.touched)]
                     ELSE Do(done, touch)
    OBVIOUS
  <1>9. /\ DOMAIN t = FeederFields /\ t.pc = "bulk" /\ t.bulks = s.bulks /\ t.items = s.items
        /\ t.time = s.time /\ t.cache = s.cache /\ t.broken = s.broken
        /\ t.touched \subseteq s.touched /\ t.doomed = s.doomed
        /\ t.pending \subseteq s.pending \cup ({s.time} \X s.touched)
        /\ IsSeq(t.ops)
        /\ \A j \in DOMAIN t.ops : (j \in DOMAIN s.ops /\ t.ops[j] = s.ops[j]) \/ t.ops[j] = touch
    <2>1. CASE t = done
      BY <1>1, <1>7, <2>1
    <2>2. CASE t = [done EXCEPT !.pending = @ \cup ({s.time} \X s.touched)]
      <3>1. /\ DOMAIN t = FeederFields /\ t.pc = done.pc /\ t.bulks = done.bulks
            /\ t.items = done.items /\ t.time = done.time /\ t.cache = done.cache
            /\ t.broken = done.broken /\ t.touched = done.touched /\ t.doomed = done.doomed
            /\ t.pending = done.pending \cup ({s.time} \X s.touched) /\ t.ops = done.ops
        BY <1>7, <2>2 DEF FeederFields, Idle
      <3> QED BY <1>1, <1>7, <3>1
    <2>3. CASE t = Do(done, touch)
      BY <1>1, <1>7, <2>3, DoAdds
    <2> QED BY <1>8, <2>1, <2>2, <2>3
  <1>10. f_' = [f_ EXCEPT ![f] = t]
    BY <1>3, <1>6, <1>8 DEF PostBulkProcess
  <1>11. DOMAIN f_' = Feeders /\ f_'[f] = t /\ \A g \in Feeders \ {f} : f_'[g] = f_[g]
    BY <1>1, <1>10
  <1>12. MessageSound(f)' /\ Proceeds(f)
    BY <1>1, <1>2, <1>9, <1>11, MessageStays DEF FeederSound
  <1>13. CacheSound(f)'
    BY <1>1, <1>2, <1>9, <1>11, <1>12, CacheStays DEF FeederSound
  <1>14. OpsSound(f)'
    <2>1. \A j \in DOMAIN t.ops :
              \/ j \in DOMAIN s.ops /\ t.ops[j] = s.ops[j]
              \/ OpSound(t.ops[j])' /\ t.ops[j].do # "insert"
      BY <1>4, <1>5, <1>9
    <2>2. /\ f_'[f].ops = t.ops /\ (f_'[f].broken \/ ~f_[f].broken) /\ f_'[f].pc # "idle"
          /\ \A j \in DOMAIN f_'[f].bulks :
                \E i \in DOMAIN f_[f].bulks : f_'[f].bulks[j] = f_[f].bulks[i]
      BY <1>9, <1>11
    <2>3. OpsSound(f) /\ IsSeq(t.ops)
      BY <1>1, <1>9 DEF FeederSound
    <2> QED BY Zenon, <1>2, <2>1, <2>2, <2>3, OpsGrow
  <1>15. PutOffSound(f)'
    <2>1. PutOffSound(f)
      BY <1>1 DEF FeederSound
    <2>2. \A p \in t.pending : BornAt(p[2], p[1])'
      <3>1. \A p \in s.pending : BornAt(p[2], p[1])
        BY <2>1 DEF PutOffSound
      <3>2. \A p \in {s.time} \X s.touched : BornAt(p[2], p[1])
        BY <1>4
      <3> QED BY <1>2, <1>9, <3>1, <3>2, SoundStays
    <2> QED BY <1>2, <1>9, <1>11, <2>1, <2>2, SoundStays DEF PutOffSound
  <1>16. FeederSound(f)'
    BY <1>9, <1>11, <1>12, <1>13, <1>14, <1>15 DEF FeederSound, FeederFields
  <1>17. \A id \in InsertedIds(f)' : id \in InsertedIds(f)
    BY <1>4, <1>9, <1>11 DEF InsertedIds, Insertions
  <1> HIDE DEF s
  <1> QED BY <1>1, <1>11, <1>16, <1>17, WithoutCommit

\* A transaction that goes on with statements that insert nothing.
LEMMA JoinedSound ==
    ASSUME NEW p, NEW q, SoundOps(p), IsSeq(q),
           \A i \in DOMAIN q : OpSound(q[i]) /\ q[i].do # "insert"
    PROVE  /\ SoundOps(p \o q)
           /\ \A i \in Insertions(p \o q) : i \in Insertions(p) /\ (p \o q)[i] = p[i]
  <1> DEFINE r == p \o q
  <1>1. /\ IsSeq(r)
        /\ \A i \in DOMAIN r :
              (i \in DOMAIN p /\ r[i] = p[i]) \/ (OpSound(r[i]) /\ r[i].do # "insert")
    <2>1. /\ IsSeq(p \o q)
          /\ \A i \in DOMAIN (p \o q) :
                IF i \in DOMAIN p THEN (p \o q)[i] = p[i]
                ELSE i - Len(p) \in DOMAIN q /\ (p \o q)[i] = q[i - Len(p)]
      BY Concatenation DEF SoundOps
    <2>2. /\ IsSeq(r)
          /\ \A i \in DOMAIN r :
                IF i \in DOMAIN p THEN r[i] = p[i]
                ELSE i - Len(p) \in DOMAIN q /\ r[i] = q[i - Len(p)]
      BY <2>1
    <2> HIDE DEF r
    <2> QED BY <2>2
  <1> HIDE DEF r
  <1>2. \A i \in Insertions(r) : i \in Insertions(p) /\ r[i] = p[i]
    BY <1>1 DEF Insertions
  <1>3. SoundOps(r)
    BY <1>1, <1>2 DEF SoundOps
  <1> QED BY <1>2, <1>3 DEF r

LEMMA TouchesSound ==
    ASSUME BornSound, NEW s, \A p \in s.pending : BornAt(p[2], p[1]),
           NEW touches \in Touches(s)
    PROVE  IsSeq(touches) /\ \A i \in DOMAIN touches :
             OpSound(touches[i]) /\ touches[i].do = "touch" /\ touches[i].do # "insert"
  <1> DEFINE ids == {p[2] : p \in s.pending}
             OfId(g, i) == [do |-> "touch", ids |-> {i}, time |-> g[i]]
  <1>1. PICK g \in [ids -> {p[1] : p \in s.pending}] :
           /\ \A i \in ids : <<g[i], i>> \in s.pending
           /\ touches = SetToSeq({OfId(g, i) : i \in ids})
    BY DEF Touches
  <1>2. IsFiniteSet(ids)
    <2>1. ids \subseteq 1 .. nextId - 1
      BY DEF BornAt, BornSound
    <2>2. IsFiniteSet(1 .. nextId - 1)
      BY FS_Interval DEF BornSound
    <2> QED BY <2>1, <2>2, FS_Subset
  <1> DEFINE all == {OfId(g, i) : i \in ids}
  <1>3. IsFiniteSet(all)
    <2> DEFINE h == [i \in ids |-> OfId(g, i)]
    <2>1. h \in Surjection(ids, all)
      BY DEF Surjection
    <2> HIDE DEF h, all, ids
    <2> QED BY <1>2, <2>1, FS_Surjection
  <1>4. \A op \in all : OpSound(op) /\ op.do = "touch" /\ op.do # "insert"
    <2> SUFFICES ASSUME NEW i \in ids PROVE OpSound(OfId(g, i)) /\ OfId(g, i).do = "touch"
      OBVIOUS
    <2>1. BornAt(i, g[i])
      BY <1>1
    <2> QED BY <2>1 DEF OpSound
  <1>5. IsSeq(touches) /\ ToSet(touches) \subseteq all
    <2>1. touches = SetToSeq(all)
      BY <1>1
    <2> HIDE DEF all
    <2> QED BY <1>3, <2>1, SetAsSeq
  <1> HIDE DEF all
  <1> QED BY <1>4, <1>5 DEF ToSet

LEMMA EndedSound ==
    ASSUME BornSound, NEW f, OpsSound(f), PutOffSound(f), DOMAIN f_[f] = FeederFields,
           NEW touches \in Touches(f_[f]), NEW t, t = Ended(f_[f], touches)
    PROVE  /\ SoundOps(t.ops) /\ t.broken = f_[f].broken
           /\ {t.ops[i].row.id : i \in Insertions(t.ops)} \subseteq InsertedIds(f)
  <1> DEFINE s == f_[f]
             op == [do |-> "delete", ids |-> s.doomed]
  <1>1. PICK del : del = IF s.doomed = {} THEN <<>> ELSE <<op>>
    OBVIOUS
  <1>2. PICK mid : mid = s.ops \o del
    OBVIOUS
  <1>3. t.ops = mid \o touches /\ t.broken = s.broken
    <2>1. t = [s EXCEPT !.ops = mid \o touches]
      <3>1. t = [s EXCEPT !.ops = (s.ops \o del) \o touches]
        BY <1>1 DEF Ended
      <3> QED BY <1>2, <3>1
    <2> QED BY <2>1 DEF FeederFields, Idle
  <1>4. SoundOps(s.ops)
    BY DEF OpsSound, SoundOps
  <1>5. IsSeq(del) /\ \A i \in DOMAIN del : OpSound(del[i]) /\ del[i].do # "insert"
    <2>1. OpSound(op) /\ op.do # "insert"
      BY DEF PutOffSound, OpSound
    <2> HIDE DEF op
    <2>2. CASE del = <<>>
      BY <2>2, EmptySound DEF SoundOps
    <2>3. CASE del = <<op>>
      <3>1. <<op>> \in Seq({op}) /\ DOMAIN <<op>> = {1} /\ <<op>>[1] = op
        OBVIOUS
      <3>2. ToSet(<<op>>) = {op}
        BY <3>1 DEF ToSet
      <3> QED BY <2>1, <2>3, <3>1, <3>2 DEF IsSeq
    <2> QED BY <1>1, <2>2, <2>3
  <1>6. SoundOps(mid) /\ \A i \in Insertions(mid) : i \in Insertions(s.ops) /\ mid[i] = s.ops[i]
    BY <1>2, <1>4, <1>5, JoinedSound
  <1>7. IsSeq(touches) /\ \A i \in DOMAIN touches : OpSound(touches[i]) /\ touches[i].do # "insert"
    BY TouchesSound DEF PutOffSound
  <1>8. PICK all : all = mid \o touches
    OBVIOUS
  <1>9. SoundOps(all) /\ \A i \in Insertions(all) : i \in Insertions(mid) /\ all[i] = mid[i]
    BY <1>6, <1>7, <1>8, JoinedSound
  <1>10. t.ops = all /\ t.broken = s.broken
    BY <1>3, <1>8
  <1>11. {all[i].row.id : i \in Insertions(all)} \subseteq InsertedIds(f)
    BY <1>6, <1>9 DEF InsertedIds
  <1> QED BY Zenon, <1>9, <1>10, <1>11

LEMMA PostMsgKeeps ==
    ASSUME StoreInv, NEW f \in Feeders, PostMsgProcess(f)
    PROVE  StoreInv' /\ (Contract!Transaction \/ UNCHANGED <<db, reports>>)
  <1> DEFINE s == f_[f]
             t == f_'[f]
             idle(u) == [Idle EXCEPT !.known = u.known, !.pending = u.pending,
                                     !.broken = u.broken, !.ops = u.ops]
             raises == s.broken /\ (s.doomed # {} \/ s.pending # {})
  <1>1. /\ DOMAIN f_ = Feeders /\ DOMAIN s = FeederFields /\ FeederSound(f)
        /\ TableSound /\ BornSound
    BY DEF StoreInv, FeederSound
  <1>2. \A p \in s.pending : BornAt(p[2], p[1])
    BY <1>1 DEF FeederSound, PutOffSound
  <1>3. CASE raises /\ f_' = [f_ EXCEPT ![f] = idle(s)] /\ UNCHANGED <<db, nextId, reports>>
    <2>1. DOMAIN f_' = Feeders /\ t = idle(s) /\ \A g \in Feeders \ {f} : f_'[g] = f_[g]
      BY <1>1, <1>3
    <2>2. /\ DOMAIN t = FeederFields /\ t.bulks = <<>> /\ t.items = <<>> /\ t.cache = <<>>
          /\ t.touched = {} /\ t.doomed = {} /\ t.pending = s.pending
          /\ t.ops = s.ops /\ t.broken
      BY <1>3, <2>1 DEF FeederFields, Idle
    <2>3. Grows /\ \A id \in InsertedIds(f) : \A c \in Contexts : id \notin born'[c]
      BY <1>1, <1>3, DbStays, Unborn
    <2>4. OpsSound(f)'
      BY <1>1, <2>2, <2>3, OpsStay DEF FeederSound
    <2>5. FeederSound(f)'
      <3>1. \A p \in t.pending : BornAt(p[2], p[1])
        BY <1>2, <2>2
      <3> QED BY <2>2, <2>3, <2>4, <3>1, IdleSound
    <2>6. InsertedIds(f)' = InsertedIds(f)
      BY <2>2 DEF InsertedIds
    <2> HIDE DEF s, t, idle, raises
    <2>7. StoreInv'
      BY <1>3, <2>1, <2>5, <2>6, WithoutCommit
    <2> QED BY <1>3, <2>7
  <1>4. ASSUME NEW touches \in Touches(s), CommitOf(Ended(s, touches), tables),
               f_' = [f_ EXCEPT ![f] = idle([s EXCEPT !.broken = FALSE, !.ops = <<>>])],
               UNCHANGED <<nextId, reports>>
        PROVE  StoreInv' /\ Contract!Transaction
    <2>1. PICK u : u = Ended(s, touches)
      OBVIOUS
    <2>2. /\ SoundOps(u.ops)
          /\ {u.ops[i].row.id : i \in Insertions(u.ops)} \subseteq InsertedIds(f)
      BY <1>1, <2>1, EndedSound DEF FeederSound
    <2>3. /\ Contract!Transaction /\ TableSound' /\ BornSound' /\ Grows
          /\ \A c \in Contexts : \A id \in born'[c] : id \in born[c] \/ id \in InsertedIds(f)
      BY <1>4, <2>1, <2>2, CommitKeeps
    <2>4. /\ DOMAIN f_' = Feeders /\ \A g \in Feeders \ {f} : f_'[g] = f_[g]
          /\ t = idle([s EXCEPT !.broken = FALSE, !.ops = <<>>])
      BY <1>1, <1>4
    <2>5. /\ DOMAIN t = FeederFields /\ t.bulks = <<>> /\ t.items = <<>> /\ t.cache = <<>>
          /\ t.touched = {} /\ t.doomed = {} /\ t.pending = s.pending
          /\ t.ops = <<>>
      BY <1>1, <2>4 DEF FeederFields, Idle
    <2>6. OpsSound(f)' /\ InsertedIds(f)' = {}
      BY <2>5, NothingToInsert
    <2>7. FeederSound(f)'
      <3>1. \A p \in t.pending : BornAt(p[2], p[1])
        BY <1>2, <2>5
      <3> QED BY <2>3, <2>5, <2>6, <3>1, IdleSound
    <2> HIDE DEF s, t, idle
    <2>8. StoreInv'
      BY <2>3, <2>4, <2>6, <2>7, OfAll
    <2> QED BY <2>3, <2>8
  <1>5. \/ raises /\ f_' = [f_ EXCEPT ![f] = idle(s)] /\ UNCHANGED <<db, nextId, reports>>
        \/ /\ \E touches \in Touches(s) : CommitOf(Ended(s, touches), tables)
           /\ f_' = [f_ EXCEPT ![f] = idle([s EXCEPT !.broken = FALSE, !.ops = <<>>])]
           /\ UNCHANGED <<nextId, reports>>
    BY DEF PostMsgProcess
  <1> HIDE DEF s, idle, raises
  <1> QED BY <1>3, <1>4, <1>5

-----------------------------------------------------------------------------
(* The contract *)

LEMMA InitSound == Init => StoreInv
  <1> SUFFICES ASSUME Init PROVE StoreInv
    OBVIOUS
  <1>1. TableSound
    BY FS_EmptySet DEF Init, TableSound
  <1>2. BornSound
    BY DEF Init, BornSound
  <1>3. ASSUME NEW f \in Feeders
        PROVE  FeederSound(f) /\ InsertedIds(f) = {}
    <2>1. /\ DOMAIN f_[f] = FeederFields /\ f_[f].bulks = <<>> /\ f_[f].items = <<>>
          /\ f_[f].cache = <<>> /\ f_[f].touched = {} /\ f_[f].doomed = {}
          /\ f_[f].pending = {} /\ f_[f].ops = <<>>
      <3>1. f_[f] = Idle
        BY DEF Init
      <3> QED BY <3>1 DEF FeederFields, Idle
    <2>2. Insertions(<<>>) = {} /\ IsSeq(<<>>) /\ DOMAIN <<>> = {} /\ ToSet(<<>>) = {}
      BY EmptySound DEF SoundOps, ToSet
    <2>3. <<>> \in Seq(Bulks) /\ <<>> \in Seq(Reports)
      OBVIOUS
    <2>4. MessageSound(f)
      BY <2>1, <2>2, <2>3 DEF MessageSound, ItemsLeft
    <2>5. CacheSound(f) /\ OpsSound(f) /\ PutOffSound(f)
      BY <2>1, <2>2 DEF CacheSound, OpsSound, PutOffSound
    <2> QED BY <2>1, <2>2, <2>4, <2>5 DEF FeederSound, InsertedIds
  <1>4. DOMAIN f_ = Feeders
    BY DEF Init
  <1>5. OwnIds
    BY <1>3 DEF OwnIds
  <1> QED BY <1>1, <1>2, <1>3, <1>4, <1>5 DEF StoreInv

LEMMA StutterKeeps ==
    ASSUME StoreInv, UNCHANGED <<table, born, nextId, f_, reports>>
    PROVE  StoreInv'
  <1>1. /\ \A c, time : Reported(c, time)' = Reported(c, time)
        /\ \A c, data : ValuesReported(c, data)' = ValuesReported(c, data)
    BY DEF Reported, ValuesReported
  <1>2. \A id, time : BornAt(id, time)' = BornAt(id, time)
    BY DEF BornAt, Reported
  <1>3. \A id : Several(id)' = Several(id)
    BY DEF Several
  <1>4. TableSound'
    <2>1. \A r : SoundRow(r)' = SoundRow(r)
      BY <1>1 DEF SoundRow
    <2> QED BY <2>1 DEF StoreInv, TableSound
  <1>5. BornSound'
    BY DEF StoreInv, BornSound
  <1>6. ASSUME NEW f \in Feeders PROVE FeederSound(f)'
    <2>1. MessageSound(f)'
      BY DEF StoreInv, FeederSound, MessageSound
    <2>2. CacheSound(f)'
      BY <1>1 DEF StoreInv, FeederSound, CacheSound
    <2>3. OpsSound(f)'
      <3>1. \A r : NewRow(r)' = NewRow(r)
        BY <1>1 DEF NewRow
      <3>2. \A op : OpSound(op) => OpSound(op)'
        BY <1>1, <1>2, <1>3, <3>1 DEF OpSound
      <3> QED BY <3>2 DEF StoreInv, FeederSound, OpsSound
    <2>4. PutOffSound(f)'
      BY <1>2, <1>3 DEF StoreInv, FeederSound, PutOffSound
    <2> QED BY <2>1, <2>2, <2>3, <2>4 DEF StoreInv, FeederSound, FeederFields
  <1>7. OwnIds'
    <2>1. \A f \in Feeders : InsertedIds(f)' = InsertedIds(f)
      BY Zenon DEF InsertedIds
    <2> QED BY Zenon, <2>1 DEF StoreInv, OwnIds
  <1> QED BY <1>4, <1>5, <1>6, <1>7 DEF StoreInv

\* Every step keeps the invariant, and is one that the contract allows.
LEMMA StepSound ==
    ASSUME StoreInv, [Next]_vars
    PROVE  StoreInv' /\ [Contract!Next]_(Contract!vars)
  <1>1. CASE UNCHANGED vars
    <2>1. UNCHANGED <<table, archive, born, nextId, f_, reports>>
      BY <1>1 DEF vars, db
    <2> QED BY <2>1, StutterKeeps DEF Contract!vars
  <1>2. ASSUME UNCHANGED <<db, reports>> PROVE UNCHANGED Contract!vars
    BY <1>2 DEF db, Contract!vars
  <1>3. ASSUME NEW f \in Feeders, Start(f) PROVE StoreInv' /\ Contract!Next
    <2>1. reports \subseteq reports' /\ UNCHANGED db
      BY <1>3 DEF Start
    <2>2. Contract!Report
      BY <2>1 DEF db, Contract!Report
    <2> QED BY <1>3, <2>2, StartKeeps DEF Contract!Next
  <1>4. ASSUME NEW f \in Feeders, EnsureTable(f) \/ EnsureArchive(f)
        PROVE  StoreInv' /\ Contract!Next
    <2>1. StoreInv' /\ Contract!Transaction
      BY <1>4, EnsureTableKeeps, EnsureArchiveKeeps
    <2> QED BY <2>1 DEF Contract!Next
  <1>5. ASSUME NEW f \in Feeders, PreBulkProcess(f) PROVE StoreInv' /\ UNCHANGED <<db, reports>>
    <2>1. UNCHANGED <<db, reports>>
      BY Zenon, <1>5 DEF PreBulkProcess
    <2> QED BY <1>5, <2>1, PreBulkKeeps
  <1>6. ASSUME NEW f \in Feeders, Save(f) PROVE StoreInv' /\ UNCHANGED <<db, reports>>
    <2>1. UNCHANGED <<db, reports>>
      BY Zenon, <1>6 DEF Save
    <2> QED BY <1>6, <2>1, SaveKeeps
  <1>7. ASSUME NEW f \in Feeders, PostBulkProcess(f) PROVE StoreInv' /\ UNCHANGED <<db, reports>>
    <2>1. UNCHANGED <<db, reports>>
      BY Zenon, <1>7 DEF PostBulkProcess
    <2> QED BY <1>7, <2>1, PostBulkKeeps
  <1>8. ASSUME NEW f \in Feeders, PostMsgProcess(f)
        PROVE  StoreInv' /\ (Contract!Next \/ UNCHANGED <<db, reports>>)
    BY <1>8, PostMsgKeeps DEF Contract!Next
  <1>9. ASSUME NEW f \in Feeders, Fail(f) \/ Restart(f)
        PROVE  StoreInv' /\ UNCHANGED <<db, reports>>
    <2>1. UNCHANGED <<db, reports>>
      BY <1>9 DEF Fail, Restart
    <2> QED BY <1>9, <2>1, FailKeeps, RestartKeeps
  <1>10. Next \/ UNCHANGED vars
    OBVIOUS
  <1> QED BY Zenon, <1>1, <1>2, <1>3, <1>4, <1>5, <1>6, <1>7, <1>8, <1>9, <1>10 DEF Next

\* The storage daemon of postgres (storage/feeders/postgres.py) implements what is
\* promised of its table, however many feeders store messages at once and whatever
\* fails: every row was reported, and the time and the values it has; ids are not used
\* twice; the archive is only added to; and only one of several rows of a context goes.
THEOREM ContractKept == Spec => KeepsContract
  <1>1. Init => Contract!Init
    BY DEF Init, Contract!Init
  <1>2. StoreInv /\ [Next]_vars => StoreInv' /\ [Contract!Next]_(Contract!vars)
    BY StepSound
  <1> QED BY <1>1, <1>2, InitSound, PTL DEF Spec, KeepsContract, Contract!Spec

-----------------------------------------------------------------------------
(* A feeder that is alone.  What is said of it is about its view of the     *)
(* table, V, and about the table as it is committed, T: the view changes    *)
(* with each statement, the table with each commit.  F are the flags.       *)

\* The context is in one report of the message, and that is not dealt with yet.
Ahead(s, c) == Once(s.body, c) /\ c \in Awaited(s)

\* Its bulks are those of the message, and the items the end of one of them.
Progress(s) ==
    /\ \A j \in DOMAIN s.bulks : \E n \in DOMAIN s.body : s.bulks[j] = s.body[n]
    /\ s.items # <<>> => \E n \in DOMAIN s.body, m \in Nat :
          /\ \A j \in DOMAIN s.items : j + m \in DOMAIN s.body[n] /\ s.items[j] = s.body[n][j + m]

\* Rows that say the same of the same thing.
Alike(q, r) == q.id = r.id /\ q.ctx = r.ctx /\ q.data = r.data

\* What the message has not come to is as it was committed.
StillAsCommitted(s, V, T) ==
    \A q \in T, r \in V : q.id = r.id /\ Ahead(s, r.ctx) => r.data = q.data

\* What was replaced since is in the archive when the transaction is.
Keeps(F) == F \cap {"ignore_data", "merge_context", "merge_data"} = {}
Noted(s, id) ==
    \E i \in DOMAIN s.ops : /\ s.ops[i].do = "archive" /\ s.ops[i].entry.id = id
                            /\ s.ops[i].entry.updated = s.time
ChangesNoted(F, s, V, T) ==
    Keeps(F) => \A q \in T, r \in V :
                   q.id = r.id /\ Once(s.body, q.ctx) /\ Replaces(r, q) => Noted(s, r.id)

\* The cache has rows of the view, and all rows of the contexts it is about to need.
CacheTrue(s, V) ==
    \A i \in DOMAIN s.cache : Ahead(s, s.cache[i].ctx) => \E r \in V : Alike(s.cache[i], r)
Joins(F) == F \cap {"just_insert", "update_recent"} = {}
CacheFull(F, s, V) ==
    Joins(F) => \A r \in V : Ahead(s, r.ctx) /\ (s.queried \/ r.ctx \in ContextsOf(s.items)) =>
                   \E i \in DOMAIN s.cache : s.cache[i].id = r.id /\ s.cache[i].ctx = r.ctx

\* No row is to be deleted before its context is dealt with, and then all but one.
Spared(s, V) == \A r \in V : Ahead(s, r.ctx) => r.id \notin s.doomed
OneOf(V, c, doomed) ==
    \E r \in V : /\ r.ctx = c /\ r.id \notin doomed
                 /\ \A q \in V : q.ctx = c /\ q.id \notin doomed => q.id = r.id
MadeOne(F, s, V) ==
    Joins(F) => \A c \in Contexts \ Elsewhere :
                   Once(s.body, c) /\ c \notin Awaited(s) => OneOf(V, c, s.doomed)

Steady(F, s, V, T) ==
    /\ Progress(s) /\ StillAsCommitted(s, V, T) /\ ChangesNoted(F, s, V, T)
    /\ CacheTrue(s, V) /\ CacheFull(F, s, V) /\ Spared(s, V) /\ MadeOne(F, s, V)

LoneSound(f) ==
    f_[f].alone =>
        /\ f_[f].pc # "idle" /\ ~f_[f].broken /\ \A g \in Feeders \ {f} : f_[g].pc = "idle"
        /\ Steady(meta, f_[f], View(f_[f]), table)

LoneInv == StoreInv /\ \A f \in Feeders : LoneSound(f)

-----------------------------------------------------------------------------
(* What statements make of the rows *)

\* What is so for the first, and for each if for the one before, is so for all.
LEMMA UpToAll ==
    ASSUME NEW n \in Nat, NEW S, 0 \in S, \A k \in 0 .. n : k # n /\ k \in S => k + 1 \in S
    PROVE  n \in S
  <1> SUFFICES ASSUME n \notin S PROVE FALSE
    OBVIOUS
  <1> DEFINE Bad == {k \in 0 .. n : k \notin S}
  <1>1. n \in Bad /\ Bad \in SUBSET Nat
    OBVIOUS
  <1>2. PICK d \in Bad : \A x \in Bad : d <= x
    BY <1>1, SmallestNat
  <1>3. d # 0 /\ d \in 0 .. n
    BY <1>2
  <1>4. d - 1 \in 0 .. n /\ d - 1 \notin Bad /\ d - 1 # n
    BY <1>2, <1>3
  <1>5. (d - 1) + 1 \in S
    BY <1>4
  <1> QED BY <1>2, <1>3, <1>5

\* A fold begins as that over the statements the others follow.
LEMMA FoldBegins ==
    ASSUME NEW rows, NEW ops, NEW all, IsSeq(ops), IsSeq(all), Len(ops) <= Len(all),
           \A i \in DOMAIN ops : all[i] = ops[i],
           NEW g, Unfolds(g, rows, all, Len(all))
    PROVE  g[1 .. Len(ops)] = After(rows, ops)
  <1> DEFINE n == Len(ops)
             m == Len(all)
  <1>1. n \in Nat /\ m \in Nat /\ DOMAIN ops = 1 .. n /\ n <= m
    BY DEF IsSeq
  <1>2. Unfolds(g, rows, all, m)
    OBVIOUS
  <1> HIDE DEF n, m
  <1>3. PICK h : Unfolds(h, rows, ops, n) /\ After(rows, ops) = h[1 .. n]
    BY <1>1, AfterUnfolds
  <1> DEFINE Same == {k \in 0 .. n : g[1 .. k] = h[1 .. k]}
  <1>4. 0 \in Same
    <2>1. g[1 .. 0] = rows /\ h[1 .. 0] = rows
      BY <1>1, <1>2, <1>3, UnfoldsFirst
    <2> QED BY <1>1, <2>1
  <1>5. ASSUME NEW k \in 0 .. n, k # n, k \in Same PROVE k + 1 \in Same
    <2>1. k \in 0 .. m /\ k # m /\ k + 1 \in DOMAIN ops
      BY <1>1, <1>5
    <2>2. g[1 .. k + 1] = Execute(g[1 .. k], all[k + 1])
      BY <1>1, <1>2, <2>1, UnfoldsNext
    <2>3. h[1 .. k + 1] = Execute(h[1 .. k], ops[k + 1])
      BY <1>1, <1>3, <1>5, UnfoldsNext
    <2> QED BY <1>1, <1>5, <2>1, <2>2, <2>3
  <1>6. n \in Same
    <2> HIDE DEF Same
    <2> QED BY <1>1, <1>4, <1>5, UpToAll
  <1> QED BY <1>3, <1>6 DEF n

LEMMA AfterNone == \A rows : After(rows, <<>>) = rows
  <1> TAKE rows
  <1>1. DOMAIN <<>> = 1 .. 0
    OBVIOUS
  <1>2. PICK g : Unfolds(g, rows, <<>>, 0) /\ After(rows, <<>>) = g[1 .. 0]
    BY <1>1, AfterUnfolds
  <1> QED BY <1>2, UnfoldsFirst

\* One statement more.
LEMMA AfterOneMore ==
    ASSUME NEW rows, NEW ops, NEW op, IsSeq(ops)
    PROVE  After(rows, Append(ops, op)) = Execute(After(rows, ops), op)
  <1>1. PICK all : all = Append(ops, op)
    OBVIOUS
  <1> DEFINE n == Len(ops)
  <1>2. /\ IsSeq(all) /\ n \in Nat /\ DOMAIN ops = 1 .. n /\ DOMAIN all = 1 .. n + 1
        /\ Len(all) = n + 1 /\ (\A i \in DOMAIN ops : all[i] = ops[i]) /\ all[n + 1] = op
    BY <1>1, Appended
  <1>3. PICK g : Unfolds(g, rows, all, n + 1) /\ After(rows, all) = g[1 .. n + 1]
    BY <1>2, AfterUnfolds
  <1>4. g[1 .. n] = After(rows, ops)
    <2>1. Len(ops) <= Len(all) /\ Unfolds(g, rows, all, Len(all))
      BY <1>2, <1>3
    <2> QED BY <1>2, <2>1, FoldBegins
  <1>5. g[1 .. n + 1] = Execute(g[1 .. n], all[n + 1])
    <2>1. n \in Nat
      BY <1>2
    <2> HIDE DEF n
    <2>2. PICK m : m = n + 1
      OBVIOUS
    <2>3. m \in Nat /\ n \in 0 .. m /\ n # m
      BY <2>1, <2>2
    <2>4. Unfolds(g, rows, all, m)
      BY <1>3, <2>2
    <2> QED BY <2>3, <2>4, UnfoldsNext
  <1> QED BY <1>1, <1>2, <1>3, <1>4, <1>5

\* Views that hold the same, but for the times.
SameRows(V, W) == (\A r \in V : \E q \in W : Alike(r, q)) /\ (\A q \in W : \E r \in V : Alike(r, q))

\* Touches change nothing but times.
LEMMA TouchKeeps ==
    ASSUME NEW V, \A r \in V : DOMAIN r = RowFields, NEW op, op.do = "touch"
    PROVE  SameRows(V, Execute(V, op)) /\ \A r \in Execute(V, op) : DOMAIN r = RowFields
  <1> DEFINE touched(r) == IF r.id \in op.ids THEN [r EXCEPT !.updated = op.time] ELSE r
  <1>1. Execute(V, op) = {touched(r) : r \in V}
    BY DEF Execute
  <1>2. ASSUME NEW r \in V PROVE Alike(r, touched(r)) /\ DOMAIN touched(r) = RowFields
    BY DEF Alike, RowFields
  <1> HIDE DEF touched
  <1> QED BY <1>1, <1>2 DEF SameRows

LEMMA SameAndSame ==
    ASSUME NEW U, NEW V, NEW W, SameRows(U, V), SameRows(V, W)
    PROVE  SameRows(U, W)
  BY DEF SameRows, Alike

LEMMA TouchesKeep ==
    ASSUME NEW rows, NEW ops, NEW touches, IsSeq(ops), IsSeq(touches),
           \A i \in DOMAIN touches : touches[i].do = "touch",
           \A r \in After(rows, ops) : DOMAIN r = RowFields
    PROVE  SameRows(After(rows, ops), After(rows, ops \o touches))
  <1> DEFINE n == Len(ops)
             t == Len(touches)
             V == After(rows, ops)
  <1>1. PICK all : all = ops \o touches
    OBVIOUS
  <1>2. /\ n \in Nat /\ t \in Nat /\ DOMAIN ops = 1 .. n /\ DOMAIN touches = 1 .. t
        /\ Len(all) = n + t /\ DOMAIN all = 1 .. n + t /\ IsSeq(all)
        /\ \A i \in DOMAIN ops : all[i] = ops[i]
        /\ \A i \in 1 .. t : all[n + i] = touches[i]
    <2>1. IsSeq(all)
      BY <1>1, Concatenation
    <2> DEFINE both == ToSet(ops) \cup ToSet(touches)
    <2>2. ops \in Seq(both) /\ touches \in Seq(both)
      BY DEF IsSeq
    <2> HIDE DEF both
    <2> QED BY <1>1, <2>1, <2>2
  <1>3. PICK g : Unfolds(g, rows, all, n + t) /\ After(rows, all) = g[1 .. n + t]
    BY <1>2, AfterUnfolds
  <1>4. g[1 .. n] = V
    <2>1. Len(ops) <= Len(all) /\ Unfolds(g, rows, all, Len(all))
      BY <1>2, <1>3
    <2>2. IsSeq(all) /\ \A i \in DOMAIN ops : all[i] = ops[i]
      BY <1>2
    <2> QED BY <2>1, <2>2, FoldBegins
  <1> DEFINE Ok(k) == SameRows(V, g[1 .. n + k]) /\ \A r \in g[1 .. n + k] : DOMAIN r = RowFields
             Same == {k \in 0 .. t : Ok(k)}
  <1>5. 0 \in Same
    BY <1>2, <1>4 DEF SameRows, Alike
  <1> HIDE DEF V, n, t
  <1>6. ASSUME NEW k \in 0 .. t, k # t, k \in Same PROVE k + 1 \in Same
    <2>1. PICK p : p = n + k
      OBVIOUS
    <2>2. PICK m : m = n + t
      OBVIOUS
    <2>3. /\ p \in 0 .. m /\ p # m /\ m \in Nat /\ k + 1 \in 1 .. t
          /\ n + (k + 1) = p + 1 /\ k + 1 \in 0 .. t
      BY <1>2, <1>6, <2>1, <2>2
    <2>4. g[1 .. p + 1] = Execute(g[1 .. p], all[p + 1])
      <3>1. Unfolds(g, rows, all, m)
        BY <1>3, <2>2
      <3> QED BY <2>3, <3>1, UnfoldsNext
    <2>5. all[p + 1].do = "touch"
      <3>1. all[n + (k + 1)] = touches[k + 1] /\ k + 1 \in DOMAIN touches
        BY <1>2, <2>3
      <3> QED BY <2>3, <3>1
    <2>6. SameRows(V, g[1 .. p]) /\ \A r \in g[1 .. p] : DOMAIN r = RowFields
      BY <1>6, <2>1
    <2>7. SameRows(g[1 .. p], g[1 .. p + 1]) /\ \A r \in g[1 .. p + 1] : DOMAIN r = RowFields
      <3>1. PICK U : U = g[1 .. p]
        OBVIOUS
      <3>2. PICK op : op = all[p + 1]
        OBVIOUS
      <3>3. SameRows(U, Execute(U, op)) /\ \A r \in Execute(U, op) : DOMAIN r = RowFields
        BY <2>5, <2>6, <3>1, <3>2, TouchKeeps
      <3> QED BY <2>4, <3>1, <3>2, <3>3
    <2>8. SameRows(V, g[1 .. p + 1])
      BY <2>6, <2>7, SameAndSame
    <2> QED BY <2>3, <2>7, <2>8
  <1>7. t \in Same
    <2> HIDE DEF Same
    <2> QED BY <1>2, <1>5, <1>6, UpToAll
  <1>8. SameRows(V, g[1 .. n + t])
    BY <1>7
  <1> QED BY <1>1, <1>3, <1>8 DEF V

\* The rows a feeder sees have ids of their own, and those of the table their contexts'.
SoundView(V) ==
    /\ \A r \in V : /\ DOMAIN r = RowFields /\ r.id \in 1 .. nextId - 1
                    /\ \A c \in Contexts : r.id \in born[c] => r.ctx = c
    /\ \A q, r \in V : q.id = r.id => q = r

LEMMA ViewIsSound ==
    ASSUME StoreInv, NEW f \in Feeders
    PROVE  SoundView(View(f_[f]))
  <1> DEFINE s == f_[f]
             n == Len(s.ops)
  <1>1. OpsSound(f) /\ TableSound /\ BornSound
    BY DEF StoreInv, FeederSound
  <1>2. SoundOps(s.ops)
    BY <1>1 DEF OpsSound, SoundOps
  <1>3. Descends(View(s), s.ops, n)
    BY <1>1, <1>2, AfterDescends DEF View
  <1> HIDE DEF n
  <1>4. ASSUME NEW r \in View(s)
        PROVE  /\ DOMAIN r = RowFields /\ r.id \in 1 .. nextId - 1
               /\ \A c \in Contexts : r.id \in born[c] => r.ctx = c
    <2>1. CASE FromTable(r)
      <3>1. SoundRow(r)
        BY <1>1, <2>1, RowsFromTable
      <3> QED BY <1>1, <3>1 DEF SoundRow, BornSound
    <2>2. CASE FromOps(r, s.ops, n)
      <3>1. NewRow(r)
        BY <1>2, <2>2 DEF FromOps, SoundOps, OpSound, Insertions
      <3> QED BY <3>1 DEF NewRow
    <2> QED BY <1>3, <2>1, <2>2 DEF Descends
  <1> QED BY <1>3, <1>4 DEF Descends, SoundView

-----------------------------------------------------------------------------
(* A report of a feeder that is alone *)

\* What is known of the parts of the message.
Parts(s) ==
    /\ s.bulks \in Seq(Bulks) /\ s.items \in Seq(Reports)
    /\ \A i \in DOMAIN s.bulks : ContextsOf(s.items) \cap ContextsOf(s.bulks[i]) = {}

\* The report that comes first, on c, is dealt with.
Deals(s, t, c) ==
    /\ s.items # <<>> /\ c = Head(s.items).ctx /\ t.items = Tail(s.items)
    /\ t.body = s.body /\ t.bulks = s.bulks /\ t.cache = s.cache /\ t.queried = s.queried
    /\ t.time = s.time

LEMMA PlaceOf ==
    ASSUME NEW body, NEW n \in DOMAIN body, NEW j \in DOMAIN body[n]
    PROVE  <<n, j>> \in Places(body, body[n][j].ctx)
  BY DEF Places

\* A context in one report only does not come again.
LEMMA ItemLeaves ==
    ASSUME NEW s, NEW t, NEW c, Parts(s), Progress(s), Deals(s, t, c)
    PROVE  /\ Progress(t) /\ c \in Awaited(s) /\ c \in ContextsOf(s.items)
           /\ Awaited(t) \subseteq Awaited(s) /\ Awaited(s) \subseteq Awaited(t) \cup {c}
           /\ ContextsOf(t.items) \subseteq ContextsOf(s.items)
           /\ \A x : Ahead(t, x) => Ahead(s, x) /\ x # c
  <1>1. PICK items : items = s.items
    OBVIOUS
  <1>2. /\ items \in Seq(Reports) /\ items # <<>> /\ t.items = Tail(items) /\ c = items[1].ctx
        /\ 1 \in DOMAIN items
    BY <1>1 DEF Parts, Deals
  <1>3. /\ \A j \in DOMAIN t.items :
              j \in Nat /\ j + 1 \in DOMAIN items /\ t.items[j] = items[j + 1]
        /\ \A j \in DOMAIN items : j = 1 \/ (j - 1 \in DOMAIN t.items /\ t.items[j - 1] = items[j])
    BY <1>2
  <1>4. ContextsOf(t.items) \subseteq ContextsOf(s.items) /\ c \in ContextsOf(s.items)
    BY <1>1, <1>2, <1>3 DEF ContextsOf, ToSet
  <1>5. /\ ContextsOf(s.items) \subseteq Awaited(s)
        /\ \A x : x \in Awaited(s) <=> x \in ContextsOf(s.items)
                      \/ \E i \in DOMAIN s.bulks : x \in ContextsOf(s.bulks[i])
        /\ \A x : x \in Awaited(t) <=> x \in ContextsOf(t.items)
                      \/ \E i \in DOMAIN s.bulks : x \in ContextsOf(s.bulks[i])
    BY DEF Awaited, ItemsLeft, ContextsOf, Deals
  <1>6. ContextsOf(s.items) \subseteq ContextsOf(t.items) \cup {c}
    <2>1. \A j \in DOMAIN t.items : t.items[j].ctx \in ContextsOf(t.items)
      BY DEF ContextsOf, ToSet
    <2>2. \A j \in DOMAIN items : items[j].ctx = c \/ items[j].ctx \in ContextsOf(t.items)
      BY <1>2, <1>3, <2>1
    <2> QED BY <1>1, <2>2 DEF ContextsOf, ToSet
  <1>7. Progress(t)
    <2>1. t.items # <<>> => \E n \in DOMAIN t.body, m \in Nat :
             \A j \in DOMAIN t.items : j + m \in DOMAIN t.body[n] /\ t.items[j] = t.body[n][j + m]
      <3>1. PICK n \in DOMAIN s.body, m \in Nat :
               \A j \in DOMAIN items : j + m \in DOMAIN s.body[n] /\ items[j] = s.body[n][j + m]
        BY <1>1, <1>2 DEF Progress
      <3>2. m + 1 \in Nat /\ n \in DOMAIN t.body /\ t.body = s.body
        BY <3>1 DEF Deals
      <3>3. \A j \in DOMAIN t.items :
               j + (m + 1) \in DOMAIN t.body[n] /\ t.items[j] = t.body[n][j + (m + 1)]
        <4> SUFFICES ASSUME NEW j \in DOMAIN t.items
                     PROVE j + (m + 1) \in DOMAIN t.body[n] /\ t.items[j] = t.body[n][j + (m + 1)]
          OBVIOUS
        <4>1. j + (m + 1) = (j + 1) + m
          BY <1>3
        <4> QED BY <1>3, <3>1, <3>2, <4>1
      <3> QED BY <3>2, <3>3
    <2> QED BY <2>1 DEF Progress, Deals
  <1>8. ASSUME Ahead(t, c) PROVE FALSE
    <2>1. Once(s.body, c) /\ c \in Awaited(t)
      BY <1>8 DEF Ahead, Deals
    <2>2. c \in ContextsOf(t.items)
      BY <1>4, <1>5, <2>1 DEF Parts
    <2>3. PICK j \in DOMAIN t.items : t.items[j].ctx = c
      BY <2>2 DEF ContextsOf, ToSet
    <2>4. PICK n \in DOMAIN s.body, m \in Nat :
             \A k \in DOMAIN items : k + m \in DOMAIN s.body[n] /\ items[k] = s.body[n][k + m]
      BY <1>1, <1>2 DEF Progress
    <2>5. /\ 1 + m \in DOMAIN s.body[n] /\ s.body[n][1 + m].ctx = c
          /\ (j + 1) + m \in DOMAIN s.body[n] /\ s.body[n][(j + 1) + m].ctx = c
          /\ 1 + m # (j + 1) + m
      BY <1>2, <1>3, <2>3, <2>4
    <2>6. <<n, 1 + m>> \in Places(s.body, c) /\ <<n, (j + 1) + m>> \in Places(s.body, c)
      BY <2>5, PlaceOf
    <2> QED BY <2>1, <2>5, <2>6 DEF Once
  <1>9. \A x : Ahead(t, x) => Ahead(s, x) /\ x # c
    <2>1. Awaited(t) \subseteq Awaited(s)
      BY <1>4, <1>5
    <2> QED BY <1>8, <2>1 DEF Ahead, Deals
  <1> QED BY <1>4, <1>5, <1>6, <1>7, <1>9

\* Of contexts other than c, both hold the same rows.
SameElsewhere(V, W, c) ==
    /\ \A r \in V : r.ctx # c => \E q \in W : Alike(r, q)
    /\ \A q \in W : q.ctx # c => \E r \in V : Alike(r, q)

\* A feeder stays steady if it does what it should to the rows of the context it deals with,
\* and nothing to the others.
LEMMA DealtSteadily ==
    ASSUME NEW F, NEW s, NEW t, NEW V, NEW W, NEW T, NEW c, Parts(s), Steady(F, s, V, T),
           Deals(s, t, c), SameElsewhere(V, W, c),
           \A i \in DOMAIN s.ops : i \in DOMAIN t.ops /\ t.ops[i] = s.ops[i],
           \A r \in V : r.ctx # c => (r.id \in t.doomed <=> r.id \in s.doomed),
           Keeps(F) => \A q \in T, r \in W :
              q.id = r.id /\ r.ctx = c /\ Once(s.body, q.ctx) /\ Replaces(r, q) => Noted(t, r.id),
           Joins(F) /\ c \notin Elsewhere /\ Once(s.body, c) => OneOf(W, c, t.doomed)
    PROVE  Steady(F, t, W, T)
  <1>1. /\ Progress(t) /\ ContextsOf(t.items) \subseteq ContextsOf(s.items)
        /\ Awaited(s) \subseteq Awaited(t) \cup {c}
        /\ \A x : Ahead(t, x) => Ahead(s, x) /\ x # c
    BY ItemLeaves DEF Steady
  <1>2. /\ t.body = s.body /\ t.cache = s.cache /\ t.queried = s.queried /\ t.time = s.time
    BY DEF Deals
  <1>3. \A id : Noted(s, id) => Noted(t, id)
    BY <1>2 DEF Noted
  <1>4. StillAsCommitted(t, W, T)
    BY <1>1 DEF Steady, StillAsCommitted, SameElsewhere, Alike
  <1>5. ChangesNoted(F, t, W, T)
    <2> SUFFICES ASSUME Keeps(F), NEW q \in T, NEW r \in W, q.id = r.id, Once(s.body, q.ctx),
                        Replaces(r, q)
                 PROVE  Noted(t, r.id)
      BY <1>2 DEF ChangesNoted
    <2>1. CASE r.ctx # c
      <3>1. PICK p \in V : Alike(p, r)
        BY <2>1 DEF SameElsewhere
      <3>2. Replaces(p, q) /\ p.id = r.id
        BY <3>1 DEF Alike, Replaces
      <3>3. Noted(s, r.id)
        BY <3>2 DEF Steady, ChangesNoted
      <3> QED BY <1>3, <3>3
    <2> QED BY <2>1
  <1>6. CacheTrue(t, W)
    <2> SUFFICES ASSUME NEW i \in DOMAIN s.cache, Ahead(t, s.cache[i].ctx)
                 PROVE  \E q \in W : Alike(s.cache[i], q)
      BY <1>2 DEF CacheTrue
    <2>1. PICK r \in V : Alike(s.cache[i], r)
      BY <1>1 DEF Steady, CacheTrue
    <2>2. r.ctx # c
      BY <1>1, <2>1 DEF Alike
    <2> QED BY <2>1, <2>2 DEF SameElsewhere, Alike
  <1>7. CacheFull(F, t, W)
    <2> SUFFICES ASSUME Joins(F), NEW r \in W, Ahead(t, r.ctx),
                        s.queried \/ r.ctx \in ContextsOf(t.items)
                 PROVE  \E i \in DOMAIN s.cache : s.cache[i].id = r.id /\ s.cache[i].ctx = r.ctx
      BY <1>2 DEF CacheFull
    <2>1. PICK q \in V : Alike(q, r)
      BY <1>1 DEF SameElsewhere
    <2>2. Ahead(s, q.ctx) /\ (s.queried \/ q.ctx \in ContextsOf(s.items))
      BY <1>1, <2>1 DEF Alike
    <2> QED BY <2>1, <2>2 DEF Steady, CacheFull, Alike
  <1>8. Spared(t, W)
    <2> SUFFICES ASSUME NEW r \in W, Ahead(t, r.ctx) PROVE r.id \notin t.doomed
      BY DEF Spared
    <2>1. PICK q \in V : Alike(q, r)
      BY <1>1 DEF SameElsewhere
    <2>2. Ahead(s, q.ctx) /\ q.ctx # c /\ q.id = r.id
      BY <1>1, <2>1 DEF Alike
    <2> QED BY <2>2 DEF Steady, Spared
  <1>9. MadeOne(F, t, W)
    <2> SUFFICES ASSUME Joins(F), NEW x \in Contexts \ Elsewhere, Once(s.body, x),
                        x \notin Awaited(t)
                 PROVE  OneOf(W, x, t.doomed)
      BY <1>2 DEF MadeOne
    <2>1. CASE x # c
      <3>1. OneOf(V, x, s.doomed)
        BY <1>1, <2>1 DEF Steady, MadeOne
      <3>2. PICK r \in V : /\ r.ctx = x /\ r.id \notin s.doomed
                           /\ \A q \in V : q.ctx = x /\ q.id \notin s.doomed => q.id = r.id
        BY <3>1 DEF OneOf
      <3>3. PICK w \in W : Alike(r, w)
        BY <2>1, <3>2 DEF SameElsewhere
      <3>4. w.ctx = x /\ w.id = r.id /\ w.id \notin t.doomed
        BY <2>1, <3>2, <3>3 DEF Alike
      <3>5. ASSUME NEW q \in W, q.ctx = x, q.id \notin t.doomed PROVE q.id = w.id
        <4>1. PICK v \in V : Alike(v, q)
          BY <2>1, <3>5 DEF SameElsewhere
        <4>2. v.ctx = x /\ v.id = q.id /\ v.id \notin s.doomed
          BY <2>1, <3>5, <4>1 DEF Alike
        <4> QED BY <3>2, <3>4, <4>2
      <3> QED BY <3>4, <3>5 DEF OneOf
    <2> QED BY <2>1
  <1> QED BY <1>1, <1>4, <1>5, <1>6, <1>7, <1>8, <1>9 DEF Steady

\* An update changes a row of its context.
LEMMA UpdateChanges ==
    ASSUME NEW V, SoundView(V), NEW op, op.do = "update", op.ctx \in Contexts,
           op.id \in born[op.ctx], NEW W, W = Execute(V, op)
    PROVE  /\ SameElsewhere(V, W, op.ctx)
           /\ \A w \in W : \E v \in V : /\ v.id = w.id /\ v.ctx = w.ctx
                                        /\ w.data = IF v.id = op.id THEN op.data ELSE v.data
           /\ \A v \in V : \E w \in W : v.id = w.id /\ v.ctx = w.ctx
  <1> DEFINE new(r) == IF r.id = op.id
                       THEN [r EXCEPT !.updated = op.time, !.data = op.data, !.ctx = op.ctx,
                                      !.created = IF op.restart THEN op.time ELSE @]
                       ELSE r
  <1>1. W = {new(r) : r \in V}
    BY DEF Execute
  <1>2. ASSUME NEW r \in V
        PROVE  /\ new(r).id = r.id /\ new(r).ctx = r.ctx
               /\ new(r).data = IF r.id = op.id THEN op.data ELSE r.data
               /\ r.ctx # op.ctx => new(r) = r
    <2>1. DOMAIN r = RowFields /\ (r.id = op.id => r.ctx = op.ctx)
      BY DEF SoundView
    <2> QED BY <2>1 DEF RowFields
  <1> HIDE DEF new
  <1> QED BY <1>1, <1>2 DEF SameElsewhere, Alike

\* Rows with the same ids and contexts are as much one.
LEMMA OneStays ==
    ASSUME NEW V, NEW W, NEW c, NEW doomed, OneOf(V, c, doomed),
           \A w \in W : \E v \in V : v.id = w.id /\ v.ctx = w.ctx,
           \A v \in V : \E w \in W : v.id = w.id /\ v.ctx = w.ctx
    PROVE  OneOf(W, c, doomed)
  <1>1. PICK r \in V : /\ r.ctx = c /\ r.id \notin doomed
                       /\ \A q \in V : q.ctx = c /\ q.id \notin doomed => q.id = r.id
    BY DEF OneOf
  <1>2. PICK w \in W : w.id = r.id /\ w.ctx = c
    BY <1>1
  <1>3. ASSUME NEW q \in W, q.ctx = c, q.id \notin doomed PROVE q.id = w.id
    BY <1>1, <1>2, <1>3
  <1> QED BY <1>1, <1>2, <1>3 DEF OneOf

\* The row that the cache has of a context is the only one there is.
LEMMA OneCached ==
    ASSUME NEW F, NEW s, NEW V, NEW T, Steady(F, s, V, T), Joins(F), NEW c, Ahead(s, c),
           c \in ContextsOf(s.items), NEW i, Docs(s, c) = {i}
    PROVE  OneOf(V, c, s.doomed)
  <1>1. i \in DOMAIN s.cache /\ s.cache[i].ctx = c
    BY DEF Docs
  <1>2. PICK r \in V : r.id = s.cache[i].id /\ r.ctx = c
    BY <1>1 DEF Steady, CacheTrue, Alike
  <1>3. r.id \notin s.doomed
    BY <1>2 DEF Steady, Spared
  <1>4. ASSUME NEW q \in V, q.ctx = c PROVE q.id = r.id
    <2>1. PICK j \in DOMAIN s.cache : s.cache[j].id = q.id /\ s.cache[j].ctx = c
      BY <1>4 DEF Steady, CacheFull
    <2>2. j = i
      BY <2>1 DEF Docs
    <2> QED BY <1>2, <2>1, <2>2
  <1> QED BY <1>2, <1>3, <1>4 DEF OneOf

\* Nothing is done to the rows.
LEMMA DealtInPlace ==
    ASSUME NEW F, NEW s, NEW t, NEW V, NEW T, NEW c, Parts(s), Steady(F, s, V, T),
           Deals(s, t, c), t.ops = s.ops,
           \A r \in V : r.ctx # c => (r.id \in t.doomed <=> r.id \in s.doomed),
           Joins(F) /\ c \notin Elsewhere /\ Once(s.body, c) => OneOf(V, c, t.doomed)
    PROVE  Steady(F, t, V, T)
  <1>1. SameElsewhere(V, V, c)
    BY DEF SameElsewhere, Alike
  <1>2. ASSUME Keeps(F), NEW q \in T, NEW r \in V, q.id = r.id, Once(s.body, q.ctx),
               Replaces(r, q)
        PROVE  Noted(t, r.id)
    <2>1. Noted(s, r.id)
      BY <1>2 DEF Steady, ChangesNoted
    <2> QED BY <2>1 DEF Noted, Deals
  <1> QED BY <1>1, <1>2, DealtSteadily

\* An update after which the view is W; what it replaces is noted, or it replaces nothing.
LEMMA DealtByUpdate ==
    ASSUME NEW s, NEW t, NEW V, NEW W, NEW T, NEW c \in Contexts, Parts(s),
           Steady(meta, s, V, T), Deals(s, t, c), SoundView(V),
           \A q \in T : q.ctx \in Contexts /\ q.id \in born[q.ctx],
           NEW op, op.do = "update", op.ctx = c, op.id \in born[c], W = Execute(V, op),
           \A i \in DOMAIN s.ops : i \in DOMAIN t.ops /\ t.ops[i] = s.ops[i],
           t.doomed = s.doomed, NEW i, Docs(s, c) = {i}, op.id = s.cache[i].id,
           \/ Noted(t, op.id)
           \/ Keeps(meta) => \A q : q.data = s.cache[i].data =>
                                \A r : r.data = op.data => ~Replaces(r, q)
    PROVE  Steady(meta, t, W, T)
  <1>1. c \in Awaited(s) /\ c \in ContextsOf(s.items)
    BY ItemLeaves DEF Steady
  <1>2. /\ SameElsewhere(V, W, c)
        /\ \A w \in W : \E v \in V : /\ v.id = w.id /\ v.ctx = w.ctx
                                     /\ w.data = IF v.id = op.id THEN op.data ELSE v.data
        /\ \A v \in V : \E w \in W : v.id = w.id /\ v.ctx = w.ctx
    BY UpdateChanges
  <1>3. ASSUME Keeps(meta), NEW q \in T, NEW r \in W, q.id = r.id, r.ctx = c,
               Once(s.body, q.ctx), Replaces(r, q)
        PROVE  Noted(t, r.id)
    <2>1. PICK v \in V : /\ v.id = r.id /\ v.ctx = c
                         /\ r.data = IF v.id = op.id THEN op.data ELSE v.data
      BY <1>2, <1>3
    <2>2. CASE v.id # op.id
      <3>1. Replaces(v, q)
        BY <1>3, <2>1, <2>2 DEF Replaces
      <3>2. Noted(s, v.id)
        BY <1>3, <2>1, <3>1 DEF Steady, ChangesNoted
      <3> QED BY <2>1, <3>2 DEF Noted, Deals
    <2>3. CASE v.id = op.id /\ ~Noted(t, op.id)
      <3>1. q.ctx = c
        BY <1>3, <2>1 DEF SoundView
      <3>2. Ahead(s, c)
        BY <1>1, <1>3, <3>1 DEF Ahead
      <3>3. q.data = v.data
        BY <1>3, <2>1, <3>2 DEF Steady, StillAsCommitted
      <3>4. i \in DOMAIN s.cache /\ s.cache[i].ctx = c
        BY DEF Docs
      <3>5. PICK p \in V : Alike(s.cache[i], p)
        BY <3>2, <3>4 DEF Steady, CacheTrue
      <3>6. p = v
        BY <2>3, <3>5 DEF SoundView, Alike
      <3>7. q.data = s.cache[i].data /\ r.data = op.data
        BY <2>1, <2>3, <3>3, <3>5, <3>6 DEF Alike
      <3> QED BY <1>3, <2>3, <3>7
    <2> QED BY <2>1, <2>2, <2>3
  <1>4. ASSUME Joins(meta), Once(s.body, c) PROVE OneOf(W, c, t.doomed)
    <2>1. OneOf(V, c, s.doomed)
      BY <1>1, <1>4, OneCached DEF Ahead
    <2> QED BY <1>2, <2>1, OneStays
  <1> QED BY <1>2, <1>3, <1>4, DealtSteadily

LEMMA DealtByInsert ==
    ASSUME NEW F, NEW s, NEW t, NEW V, NEW W, NEW T, NEW c, Parts(s), Steady(F, s, V, T),
           Deals(s, t, c), NEW row, row.ctx = c, W = V \cup {row},
           \A r \in V : r.id # row.id, \A q \in T : q.id # row.id, row.id \notin s.doomed,
           \A i \in DOMAIN s.ops : i \in DOMAIN t.ops /\ t.ops[i] = s.ops[i],
           t.doomed = s.doomed, Docs(s, c) = {}
    PROVE  Steady(F, t, W, T)
  <1>1. c \in Awaited(s) /\ c \in ContextsOf(s.items)
    BY ItemLeaves DEF Steady
  <1>2. SameElsewhere(V, W, c)
    BY DEF SameElsewhere, Alike
  <1>3. ASSUME Keeps(F), NEW q \in T, NEW r \in W, q.id = r.id, Once(s.body, q.ctx),
               Replaces(r, q)
        PROVE  Noted(t, r.id)
    <2>1. r \in V
      BY <1>3
    <2>2. Noted(s, r.id)
      BY <1>3, <2>1 DEF Steady, ChangesNoted
    <2> QED BY <2>2 DEF Noted, Deals
  <1>4. ASSUME Joins(F), Once(s.body, c) PROVE OneOf(W, c, t.doomed)
    <2>1. \A q \in V : q.ctx # c
      BY <1>1, <1>4 DEF Steady, CacheFull, Docs, Ahead
    <2> QED BY <2>1 DEF OneOf
  <1> QED BY <1>2, <1>3, <1>4, DealtSteadily

LEMMA DealtByDoom ==
    ASSUME NEW F, NEW s, NEW t, NEW V, NEW T, NEW c \in Contexts, Parts(s), Steady(F, s, V, T),
           Deals(s, t, c), t.ops = s.ops, SoundView(V),
           \A j \in Docs(s, c) : s.cache[j].id \in born[c],
           NEW i \in Docs(s, c), t.doomed = Doom(s, Docs(s, c), s.cache[i].id)
    PROVE  Steady(F, t, V, T)
  <1>1. c \in Awaited(s) /\ c \in ContextsOf(s.items)
    BY ItemLeaves DEF Steady
  <1>2. /\ \A j \in Docs(s, c) : j \in DOMAIN s.cache /\ s.cache[j].ctx = c
        /\ \A j \in DOMAIN s.cache : s.cache[j].ctx = c => j \in Docs(s, c)
    BY DEF Docs
  <1>3. ASSUME NEW r \in V, r.ctx # c PROVE r.id \in t.doomed <=> r.id \in s.doomed
    <2>1. \A j \in Docs(s, c) : s.cache[j].id # r.id
      BY <1>3 DEF SoundView
    <2> QED BY <2>1 DEF Doom
  <1>4. ASSUME Joins(F), Once(s.body, c) PROVE OneOf(V, c, t.doomed)
    <2>1. Ahead(s, c)
      BY <1>1, <1>4 DEF Ahead
    <2>2. PICK r \in V : r.id = s.cache[i].id /\ r.ctx = c
      BY <1>2, <2>1 DEF Steady, CacheTrue, Alike
    <2>3. ASSUME NEW q \in V, q.ctx = c, q.id \notin t.doomed PROVE q.id = r.id
      <3>1. PICK j \in DOMAIN s.cache : s.cache[j].id = q.id /\ s.cache[j].ctx = c
        BY <1>1, <1>4, <2>1, <2>3 DEF Steady, CacheFull
      <3>2. j \in Docs(s, c)
        BY <1>2, <3>1
      <3> QED BY <2>2, <2>3, <3>1, <3>2 DEF Doom
    <2>4. r.id \notin t.doomed
      BY <2>2 DEF Doom
    <2> QED BY <2>2, <2>3, <2>4 DEF OneOf
  <1> QED BY <1>3, <1>4, DealtInPlace

-----------------------------------------------------------------------------
(* The steps of a feeder that is alone *)

\* What StoreInv says that is used of it.
LEMMA LoneFacts ==
    ASSUME StoreInv, NEW f \in Feeders
    PROVE  /\ DOMAIN f_ = Feeders /\ DOMAIN f_[f] = FeederFields
           /\ Parts(f_[f]) /\ SoundView(View(f_[f])) /\ IsSeq(f_[f].ops) /\ IsSeq(f_[f].cache)
           /\ \A id \in f_[f].doomed : id \in 1 .. nextId - 1
           /\ \A q \in table :
                 q.ctx \in Contexts /\ q.id \in born[q.ctx] /\ q.id \in 1 .. nextId - 1
           /\ \A q, r \in table : q.id = r.id => q = r
           /\ nextId \in Nat
           /\ \A i \in DOMAIN f_[f].cache : f_[f].cache[i].ctx \in Awaited(f_[f]) =>
                 f_[f].cache[i].id \in born[f_[f].cache[i].ctx]
           /\ Awaited(f_[f]) \subseteq Contexts
           /\ f_[f].pc # "saving" => f_[f].items = <<>>
  <1>1. FeederSound(f) /\ TableSound /\ BornSound /\ DOMAIN f_ = Feeders
    BY DEF StoreInv
  <1>2. DOMAIN f_[f] = FeederFields /\ Parts(f_[f]) /\ IsSeq(f_[f].ops)
    BY <1>1 DEF FeederSound, MessageSound, Parts, OpsSound
  <1>3. \A id \in f_[f].doomed : id \in 1 .. nextId - 1
    BY <1>1 DEF FeederSound, PutOffSound, Several, BornSound
  <1>4. /\ \A q \in table : q.ctx \in Contexts /\ q.id \in born[q.ctx] /\ q.id \in 1 .. nextId - 1
        /\ \A q, r \in table : q.id = r.id => q = r
        /\ nextId \in Nat
    BY <1>1 DEF TableSound, SoundRow, BornSound
  <1>5. /\ IsSeq(f_[f].cache)
        /\ \A i \in DOMAIN f_[f].cache : f_[f].cache[i].ctx \in Awaited(f_[f]) =>
                 f_[f].cache[i].id \in born[f_[f].cache[i].ctx]
    BY <1>1 DEF FeederSound, CacheSound
  <1>6. Awaited(f_[f]) \subseteq Contexts /\ (f_[f].pc # "saving" => f_[f].items = <<>>)
    BY <1>1, AwaitedContexts DEF FeederSound, MessageSound
  <1> QED BY <1>1, <1>2, <1>3, <1>4, <1>5, <1>6, ViewIsSound

\* A statement more, and nothing else.
Does(s, t, op) ==
    /\ DOMAIN t = FeederFields /\ IsSeq(t.ops)
    /\ \A i \in DOMAIN s.ops : i \in DOMAIN t.ops /\ t.ops[i] = s.ops[i]
    /\ \E i \in DOMAIN t.ops : t.ops[i] = op
    /\ t.items = s.items /\ t.body = s.body /\ t.bulks = s.bulks /\ t.cache = s.cache
    /\ t.queried = s.queried /\ t.time = s.time /\ t.doomed = s.doomed
    /\ t.pc = s.pc /\ t.broken = s.broken
    /\ \A rows : After(rows, t.ops) = Execute(After(rows, s.ops), op)

LEMMA DoesAlso ==
    ASSUME NEW s, DOMAIN s = FeederFields, IsSeq(s.ops), NEW op, NEW t, t = Do(s, op)
    PROVE  Does(s, t, op)
  <1>1. t = [s EXCEPT !.ops = Append(@, op)]
    BY DEF Do
  <1>2. /\ DOMAIN t = FeederFields /\ t.ops = Append(s.ops, op)
        /\ t.items = s.items /\ t.body = s.body /\ t.bulks = s.bulks /\ t.cache = s.cache
        /\ t.queried = s.queried /\ t.time = s.time /\ t.doomed = s.doomed
        /\ t.pc = s.pc /\ t.broken = s.broken
    BY <1>1 DEF FeederFields, Idle
  <1>3. PICK q : q = Append(s.ops, op)
    OBVIOUS
  <1>4. /\ IsSeq(q) /\ (\A i \in DOMAIN s.ops : i \in DOMAIN q /\ q[i] = s.ops[i])
        /\ (\E i \in DOMAIN q : q[i] = op)
    <2>1. /\ IsSeq(q) /\ Len(s.ops) \in Nat /\ DOMAIN s.ops = 1 .. Len(s.ops)
          /\ DOMAIN q = 1 .. Len(s.ops) + 1
          /\ (\A i \in DOMAIN s.ops : q[i] = s.ops[i]) /\ q[Len(s.ops) + 1] = op
      BY <1>3, Appended
    <2> QED BY <2>1
  <1>5. \A rows : After(rows, q) = Execute(After(rows, s.ops), op)
    BY <1>3, AfterOneMore
  <1> QED BY <1>2, <1>3, <1>4, <1>5 DEF Does

\* A feeder takes the next item, and deals with it by a statement, if by any.
Takes(s, next) == next = [s EXCEPT !.items = Tail(@)]
Took(s, next, c) ==
    /\ DOMAIN next = FeederFields /\ next.ops = s.ops /\ next.doomed = s.doomed
    /\ next.pc = s.pc /\ next.broken = s.broken /\ Deals(s, next, c)
Did(s, t, c, op) ==
    /\ DOMAIN t = FeederFields /\ IsSeq(t.ops)
    /\ \A i \in DOMAIN s.ops : i \in DOMAIN t.ops /\ t.ops[i] = s.ops[i]
    /\ \E i \in DOMAIN t.ops : t.ops[i] = op
    /\ Deals(s, t, c) /\ t.doomed = s.doomed /\ t.pc = s.pc /\ t.broken = s.broken
    /\ \A rows : After(rows, t.ops) = Execute(After(rows, s.ops), op)

LEMMA TakesItem ==
    ASSUME NEW s, DOMAIN s = FeederFields, s.items # <<>>, NEW next, Takes(s, next)
    PROVE  Took(s, next, Head(s.items).ctx)
  BY DEF FeederFields, Idle, Deals, Takes, Took

LEMMA DealsAndDoes ==
    ASSUME NEW s, IsSeq(s.ops), NEW next, NEW c, Took(s, next, c), NEW op,
           NEW t, t = Do(next, op)
    PROVE  Did(s, t, c, op)
  <1>1. DOMAIN next = FeederFields /\ next.ops = s.ops /\ IsSeq(next.ops)
    BY DEF Took
  <1>2. Does(next, t, op)
    BY <1>1, DoesAlso
  <1> QED BY <1>2 DEF Deals, Does, Took, Did

\* A feeder that is steady, at work, and in no transaction that is aborted.
Works(t) == t.pc # "idle" /\ ~t.broken /\ Steady(meta, t, After(table, t.ops), table)

LEMMA InsertSteady ==
    ASSUME LoneInv, NEW f \in Feeders, f_[f].alone, f_[f].items # <<>>,
           NEW next, Takes(f_[f], next), NEW c, c = Head(f_[f].items).ctx,
           NEW row, row.ctx = c, row.id = nextId, Docs(f_[f], c) = {},
           NEW op, op.do = "insert", op.row = row, NEW t, t = Do(next, op)
    PROVE  Works(t)
  <1>0. PICK s, V, W : s = f_[f] /\ V = View(s) /\ W = V \cup {row}
    OBVIOUS
  <1>1. /\ DOMAIN s = FeederFields /\ Parts(s) /\ SoundView(V) /\ IsSeq(s.ops)
        /\ \A id \in s.doomed : id \in 1 .. nextId - 1
        /\ \A q \in table : q.id \in 1 .. nextId - 1
        /\ nextId \in Nat
    BY <1>0, LoneFacts DEF LoneInv
  <1>2. s.pc # "idle" /\ ~s.broken /\ Steady(meta, s, V, table)
    BY <1>0 DEF LoneInv, LoneSound
  <1>4. Did(s, t, c, op)
    BY <1>0, <1>1, TakesItem, DealsAndDoes
  <1>5. /\ (\A i \in DOMAIN s.ops : i \in DOMAIN t.ops /\ t.ops[i] = s.ops[i])
        /\ Deals(s, t, c) /\ t.doomed = s.doomed /\ t.pc = s.pc /\ t.broken = s.broken
        /\ \A rows : After(rows, t.ops) = Execute(After(rows, s.ops), op)
    BY <1>4 DEF Did
  <1>6. After(table, t.ops) = W
    BY <1>0, <1>5 DEF Execute, View
  <1>7. /\ \A r \in V : r.id # row.id
        /\ \A q \in table : q.id # row.id
        /\ row.id \notin s.doomed
    BY <1>1 DEF SoundView
  <1>8. Steady(meta, t, W, table)
    BY <1>0, <1>1, <1>2, <1>5, <1>7, DealtByInsert
  <1> QED BY <1>2, <1>5, <1>6, <1>8 DEF Works

LEMMA DoomSteady ==
    ASSUME LoneInv, NEW f \in Feeders, f_[f].alone, f_[f].items # <<>>,
           NEW next, Takes(f_[f], next),
           NEW c, c = Head(f_[f].items).ctx, NEW i \in Docs(f_[f], c),
           NEW t, t = [next EXCEPT !.doomed = Doom(f_[f], Docs(f_[f], c), f_[f].cache[i].id)]
    PROVE  Works(t)
  <1> DEFINE s == f_[f]
  <1>1. /\ DOMAIN s = FeederFields /\ Parts(s) /\ SoundView(View(s))
        /\ Awaited(s) \subseteq Contexts
        /\ \A j \in DOMAIN s.cache : s.cache[j].ctx \in Awaited(s) =>
                 s.cache[j].id \in born[s.cache[j].ctx]
    BY LoneFacts DEF LoneInv
  <1>2. s.pc # "idle" /\ ~s.broken /\ Steady(meta, s, View(s), table)
    BY DEF LoneInv, LoneSound
  <1>3. /\ DOMAIN next = FeederFields /\ next.ops = s.ops /\ next.doomed = s.doomed
        /\ next.pc = s.pc /\ next.broken = s.broken /\ Deals(s, next, c)
    BY <1>1, TakesItem DEF Took
  <1>4. /\ t.ops = s.ops /\ t.doomed = Doom(s, Docs(s, c), s.cache[i].id)
        /\ t.pc = s.pc /\ t.broken = s.broken /\ Deals(s, t, c)
    BY <1>3 DEF FeederFields, Idle, Deals
  <1>5. c \in Awaited(s)
    BY <1>1, <1>2, <1>3, ItemLeaves DEF Steady
  <1>6. c \in Contexts /\ \A j \in Docs(s, c) : s.cache[j].id \in born[c]
    BY <1>1, <1>5 DEF Docs
  <1>7. Steady(meta, t, View(s), table)
    BY <1>1, <1>2, <1>4, <1>6, DealtByDoom
  <1> QED BY <1>2, <1>4, <1>7 DEF Works, View

\* Of messages that are neither merged nor ignored, a minor change replaces nothing.
LEMMA MinorReplacesNothing ==
    ASSUME Keeps(meta), NEW row, NEW data, Decision(row, data).diff = "more",
           NEW q, q.data = row.data, NEW r, r.data = Decision(row, data).data
    PROVE  ~Replaces(r, q)
  <1>1. "merge_data" \notin meta /\ meta \cap {"ignore_data", "merge_context"} = {}
    BY DEF Keeps
  <1>2. Decision(row, data) = [diff |-> Different(row, data), data |-> data]
    BY <1>1 DEF Decision
  <1>3. Different(row, data) = "more" /\ r.data = data
    BY <1>2
  <1>4. /\ \A k \in DOMAIN data \cap DOMAIN row.data : data[k] = row.data[k]
        /\ ~(DOMAIN data \subseteq DOMAIN row.data)
    BY <1>3 DEF Different
  <1> QED BY <1>3, <1>4 DEF Replaces

LEMMA UpdateSteady ==
    ASSUME LoneInv, NEW f \in Feeders, f_[f].alone, f_[f].items # <<>>,
           NEW next, Takes(f_[f], next), NEW c, c = Head(f_[f].items).ctx,
           NEW i, Docs(f_[f], c) = {i}, NEW data, NEW t, UpdatesTo(next, f_[f].cache[i], c, data, t)
    PROVE  Works(t)
  <1>1. PICK s, V, row, d : s = f_[f] /\ V = View(s) /\ row = s.cache[i] /\ d = Decision(row, data)
    OBVIOUS
  <1>2. /\ DOMAIN s = FeederFields /\ Parts(s) /\ SoundView(V) /\ IsSeq(s.ops)
        /\ \A q \in table : q.ctx \in Contexts /\ q.id \in born[q.ctx]
        /\ \A j \in DOMAIN s.cache : s.cache[j].ctx \in Awaited(s) =>
                 s.cache[j].id \in born[s.cache[j].ctx]
        /\ Awaited(s) \subseteq Contexts
    BY <1>1, LoneFacts DEF LoneInv
  <1>3. s.pc # "idle" /\ ~s.broken /\ Steady(meta, s, V, table)
    BY <1>1 DEF LoneInv, LoneSound
  <1>4. Took(s, next, c)
    BY <1>1, <1>2, TakesItem
  <1>5. c \in Awaited(s) /\ c \in ContextsOf(s.items)
    BY <1>2, <1>3, <1>4, ItemLeaves DEF Steady, Took
  <1>6. c \in Contexts /\ row.id \in born[c] /\ Docs(s, c) = {i}
    BY <1>1, <1>2, <1>5 DEF Docs
  <1>7. PICK update :
           update = [do |-> "update", id |-> row.id, ctx |-> c, time |-> next.time,
                     data |-> d.data, restart |-> "ignore_data" \notin meta]
    OBVIOUS
  <1>8. PICK entry :
           entry = [do |-> "archive", entry |-> [id |-> row.id, created |-> row.created,
                    updated |-> next.time, data |-> d.data, was |-> row.data]]
    OBVIOUS
  <1>9. IF d.diff = "same" THEN t = [next EXCEPT !.touched = @ \cup {row.id}]
        ELSE IF d.diff = "more" THEN t = Do(next, update)
        ELSE t = Do(Do(next, entry), update)
    BY <1>1, <1>7, <1>8 DEF UpdatesTo, UpdateRow
  <1>10. /\ update.do = "update" /\ update.ctx = c /\ update.id = row.id /\ update.data = d.data
         /\ entry.do = "archive" /\ entry.entry.id = row.id /\ entry.entry.updated = s.time
    BY <1>4, <1>7, <1>8 DEF Took, Deals
  <1>11. PICK W : W = Execute(V, update)
    OBVIOUS
  <1>12. ASSUME t = [next EXCEPT !.touched = @ \cup {row.id}] PROVE Works(t)
    <2>1. /\ t.ops = s.ops /\ t.doomed = s.doomed /\ t.pc = s.pc /\ t.broken = s.broken
          /\ Deals(s, t, c)
      BY <1>4, <1>12 DEF Took, Deals, FeederFields, Idle
    <2>2. ASSUME Joins(meta), Once(s.body, c) PROVE OneOf(V, c, t.doomed)
      BY <1>3, <1>5, <1>6, <2>1, <2>2, OneCached DEF Ahead
    <2>3. Steady(meta, t, V, table)
      BY <1>2, <1>3, <2>1, <2>2, DealtInPlace
    <2> QED BY <1>1, <1>3, <2>1, <2>3 DEF Works, View
  <1>13. ASSUME t = Do(next, update), d.diff = "more" PROVE Works(t)
    <2>1. Did(s, t, c, update)
      BY <1>2, <1>4, <1>13, DealsAndDoes
    <2>2. After(table, t.ops) = W
      BY <1>1, <1>11, <2>1 DEF Did, View
    <2>3. Keeps(meta) => \A q : q.data = row.data => \A r : r.data = update.data => ~Replaces(r, q)
      BY <1>1, <1>10, <1>13, MinorReplacesNothing
    <2>4. /\ \A k \in DOMAIN s.ops : k \in DOMAIN t.ops /\ t.ops[k] = s.ops[k]
          /\ t.doomed = s.doomed /\ Deals(s, t, c) /\ t.pc = s.pc /\ t.broken = s.broken
      BY <2>1 DEF Did
    <2>5. Steady(meta, t, W, table)
      BY <1>1, <1>2, <1>3, <1>6, <1>10, <1>11, <2>3, <2>4, DealtByUpdate
    <2> QED BY <1>3, <2>2, <2>4, <2>5 DEF Works
  <1>14. ASSUME t = Do(Do(next, entry), update) PROVE Works(t)
    <2>1. PICK u : u = Do(next, entry)
      OBVIOUS
    <2>2. Did(s, u, c, entry)
      BY <1>2, <1>4, <2>1, DealsAndDoes
    <2>3. Does(u, t, update)
      BY <1>14, <2>1, <2>2, DoesAlso DEF Did
    <2>4. /\ \A k \in DOMAIN s.ops : k \in DOMAIN t.ops /\ t.ops[k] = s.ops[k]
          /\ t.doomed = s.doomed /\ Deals(s, t, c) /\ t.pc = s.pc /\ t.broken = s.broken
      BY <2>2, <2>3 DEF Did, Does, Deals
    <2>5. After(table, t.ops) = W
      <3>1. Execute(V, entry) = V
        BY <1>10 DEF Execute
      <3> QED BY <1>1, <1>11, <2>2, <2>3, <3>1 DEF Did, Does, View
    <2>6. Noted(t, update.id)
      <3>1. PICK k \in DOMAIN u.ops : u.ops[k] = entry
        BY <2>2 DEF Did
      <3>2. k \in DOMAIN t.ops /\ t.ops[k] = entry /\ t.time = s.time
        BY <2>3, <2>4, <3>1 DEF Deals, Does
      <3> QED BY <1>10, <3>2 DEF Noted
    <2>7. Steady(meta, t, W, table)
      BY <1>1, <1>2, <1>3, <1>6, <1>10, <1>11, <2>4, <2>6, DealtByUpdate
    <2> QED BY <1>3, <2>4, <2>5, <2>7 DEF Works
  <1> QED BY <1>9, <1>12, <1>13, <1>14

-----------------------------------------------------------------------------
(* The invariant about feeders that are alone *)

\* A feeder that was at work goes on; any other is not alone, or is this one.
LEMMA LoneGoesOn ==
    ASSUME LoneInv, StoreInv', NEW f \in Feeders, f_[f].pc # "idle", NEW t, Becomes(f, t),
           t.alone => /\ f_[f].alone /\ t.pc # "idle" /\ ~t.broken
                      /\ Steady(meta', t, After(table', t.ops), table')
    PROVE  LoneInv'
  <1>1. f_'[f] = t /\ \A g \in Feeders \ {f} : f_'[g] = f_[g]
    BY LoneFacts DEF LoneInv, Becomes
  <1>2. ASSUME NEW g \in Feeders PROVE LoneSound(g)'
    <2>1. CASE g # f
      <3>1. ~f_[g].alone
        BY <2>1 DEF LoneInv, LoneSound
      <3> QED BY <1>1, <2>1, <3>1 DEF LoneSound
    <2>2. CASE g = f /\ t.alone
      <3>1. \A h \in Feeders \ {f} : f_[h].pc = "idle"
        BY <2>2 DEF LoneInv, LoneSound
      <3>2. View(f_[f])' = After(table', t.ops)
        BY <1>1 DEF View
      <3> QED BY <1>1, <2>2, <3>1, <3>2 DEF LoneSound
    <2>3. CASE g = f /\ ~t.alone
      BY <1>1, <2>3 DEF LoneSound
    <2> QED BY <2>1, <2>2, <2>3
  <1> QED BY <1>2 DEF LoneInv

\* Neither the table nor the flags change.
LEMMA LoneWorksOn ==
    ASSUME LoneInv, StoreInv', NEW f \in Feeders, f_[f].pc # "idle", NEW t, Becomes(f, t),
           UNCHANGED <<table, meta>>, t.alone => f_[f].alone, f_[f].alone => Works(t)
    PROVE  LoneInv'
  BY LoneGoesOn DEF Works

LEMMA UpdateRowAlone ==
    ASSUME NEW u, DOMAIN u = FeederFields, NEW row, NEW c, NEW data, NEW t,
           UpdatesTo(u, row, c, data, t)
    PROVE  t.alone = u.alone
  <1>1. \A v, op : DOMAIN v = FeederFields =>
           DOMAIN Do(v, op) = FeederFields /\ Do(v, op).alone = v.alone
    BY DEF Do, FeederFields, Idle
  <1>2. [u EXCEPT !.touched = @ \cup {row.id}].alone = u.alone
    BY DEF FeederFields, Idle
  <1> QED BY <1>1, <1>2 DEF UpdatesTo, UpdateRow

LEMMA SaveLone ==
    ASSUME LoneInv, StoreInv', NEW f \in Feeders, Save(f)
    PROVE  LoneInv'
  <1>1. PICK s, item, next : s = f_[f] /\ item = Head(s.items) /\ Takes(s, next)
    BY DEF Takes
  <1>2. PICK c, docs : c = item.ctx /\ docs = Docs(s, c)
    OBVIOUS
  <1> DEFINE oldest == {i \in docs : \A j \in docs : s.cache[i].created <= s.cache[j].created}
             row == [id |-> nextId, ctx |-> item.ctx, created |-> s.time, updated |-> s.time,
                     data |-> item.data]
             Inserts(t) == docs = {} /\ t = Do(next, [do |-> "insert", row |-> row])
             Updates(t) ==
                \E i \in docs : docs = {i} /\ UpdatesTo(next, s.cache[i], c, item.data, t)
             Dooms(t) == \E i \in oldest : t = [next EXCEPT !.doomed = Doom(s, docs, s.cache[i].id)]
  <1>3. /\ s.pc = "saving" /\ s.items # <<>> /\ UNCHANGED <<table, meta>>
        /\ \E t : /\ Becomes(f, t)
                  /\ (c \in Elsewhere /\ t = next) \/ Inserts(t) \/ Updates(t) \/ Dooms(t)
    <2>1. /\ s.pc = "saving" /\ s.items # <<>> /\ UNCHANGED <<table, meta>>
      BY <1>1 DEF Save, db, config
    <2>2. next = [s EXCEPT !.items = Tail(@)]
      BY <1>1 DEF Takes
    <2>3. \/ c \in Elsewhere /\ f_' = [f_ EXCEPT ![f] = next]
          \/ docs = {} /\ f_' = [f_ EXCEPT ![f] = Do(next, [do |-> "insert", row |-> row])]
          \/ \E i \in docs : docs = {i} /\
                f_' = [f_ EXCEPT ![f] = UpdateRow(next, s.cache[i], c, item.data)]
          \/ \E i \in oldest :
                f_' = [f_ EXCEPT ![f] = [next EXCEPT !.doomed = Doom(s, docs, s.cache[i].id)]]
      BY <1>1, <1>2, <2>2, Zenon DEF Save
    <2> HIDE DEF row, oldest
    <2> QED BY <2>1, <2>3, Zenon DEF Becomes, UpdatesTo
  <1>4. PICK t : /\ Becomes(f, t)
                 /\ (c \in Elsewhere /\ t = next) \/ Inserts(t) \/ Updates(t) \/ Dooms(t)
    BY <1>3
  <1>5. /\ DOMAIN s = FeederFields /\ Parts(s) /\ IsSeq(s.ops)
    BY <1>1, LoneFacts DEF LoneInv
  <1>6. /\ Took(s, next, c) /\ DOMAIN next = FeederFields /\ next.alone = s.alone
    <2>1. Took(s, next, c)
      BY <1>1, <1>2, <1>3, <1>5, TakesItem
    <2>2. next.alone = s.alone
      BY <1>1, <1>5 DEF Takes, FeederFields, Idle
    <2> QED BY <2>1, <2>2 DEF Took
  <1>7. t.alone = s.alone
    <2>1. CASE Inserts(t)
      BY <1>6, <2>1 DEF Do, FeederFields, Idle
    <2>2. CASE Updates(t)
      BY <1>6, <2>2, UpdateRowAlone
    <2>3. CASE Dooms(t)
      BY <1>6, <2>3 DEF FeederFields, Idle
    <2> QED BY <1>4, <1>6, <2>1, <2>2, <2>3
  <1>8. ASSUME s.alone PROVE Works(t)
    <2>1. CASE c \in Elsewhere /\ t = next
      <3>1. s.pc # "idle" /\ ~s.broken /\ Steady(meta, s, View(s), table)
        BY <1>1, <1>8 DEF LoneInv, LoneSound
      <3>2. /\ t.ops = s.ops /\ t.doomed = s.doomed /\ Deals(s, t, c) /\ t.pc = s.pc
            /\ t.broken = s.broken
        BY <1>6, <2>1 DEF Took
      <3>3. Steady(meta, t, View(s), table)
        BY <1>5, <2>1, <3>1, <3>2, DealtInPlace
      <3> QED BY <3>1, <3>2, <3>3 DEF Works, View
    <2>2. CASE Inserts(t)
      <3>1. PICK r, op : r = row /\ op = [do |-> "insert", row |-> r]
        OBVIOUS
      <3>2. /\ r.ctx = c /\ r.id = nextId /\ op.do = "insert" /\ op.row = r
            /\ t = Do(next, op) /\ Docs(f_[f], c) = {}
        BY <1>1, <1>2, <2>2, <3>1
      <3> HIDE DEF row, oldest, Inserts, Updates, Dooms
      <3> QED BY <1>1, <1>2, <1>3, <1>8, <3>2, InsertSteady
    <2>3. CASE Updates(t)
      <3>1. PICK i : Docs(f_[f], c) = {i} /\ UpdatesTo(next, f_[f].cache[i], c, item.data, t)
        BY <1>1, <1>2, <2>3
      <3> HIDE DEF row, oldest, Inserts, Updates, Dooms
      <3> QED BY <1>1, <1>2, <1>3, <1>8, <3>1, UpdateSteady
    <2>4. CASE Dooms(t)
      <3>1. PICK i \in Docs(f_[f], c) :
                t = [next EXCEPT !.doomed = Doom(f_[f], Docs(f_[f], c), f_[f].cache[i].id)]
        BY <1>1, <1>2, <2>4
      <3> HIDE DEF row, oldest, Inserts, Updates, Dooms
      <3> QED BY <1>1, <1>2, <1>3, <1>8, <3>1, DoomSteady
    <2> QED BY <1>4, <2>1, <2>2, <2>3, <2>4
  <1> HIDE DEF row, oldest, Inserts, Updates, Dooms
  <1> QED BY <1>1, <1>3, <1>4, <1>7, <1>8, LoneWorksOn

\* What a lookup adds to the cache, it adds whole, and behind what is there.
LEMMA LookupAdds ==
    ASSUME NEW cache, IsSeq(cache), NEW found, IsFiniteSet(found),
           NEW all, all = Cached(cache, found)
    PROVE  /\ \A i \in DOMAIN all : (\E j \in DOMAIN cache : all[i] = cache[j]) \/ all[i] \in found
           /\ \A j \in DOMAIN cache : j \in DOMAIN all /\ all[j] = cache[j]
           /\ \A r \in found : \E i \in DOMAIN all : all[i] = r
  <1>1. PICK more : more = SetToSeq(found)
    OBVIOUS
  <1>2. IsSeq(more) /\ \A x : x \in found <=> \E j \in DOMAIN more : more[j] = x
    BY <1>1, SetAsSeq, AllInSequence
  <1>3. all = cache \o more
    BY <1>1 DEF Cached
  <1>4. /\ Len(cache) \in Nat /\ DOMAIN cache = 1 .. Len(cache)
        /\ \A i \in DOMAIN all :
              IF i \in DOMAIN cache THEN all[i] = cache[i]
              ELSE i - Len(cache) \in DOMAIN more /\ all[i] = more[i - Len(cache)]
    BY <1>2, <1>3, Concatenation
  <1>5. /\ Len(more) \in Nat /\ DOMAIN more = 1 .. Len(more)
        /\ DOMAIN all = 1 .. Len(cache) + Len(more)
    <2> DEFINE both == ToSet(cache) \cup ToSet(more)
    <2>1. cache \in Seq(both) /\ more \in Seq(both)
      BY <1>2 DEF IsSeq
    <2> HIDE DEF both
    <2> QED BY <1>3, <2>1
  <1>6. ASSUME NEW r \in found PROVE \E i \in DOMAIN all : all[i] = r
    <2>1. PICK j \in DOMAIN more : more[j] = r
      BY <1>2
    <2>2. PICK i : i = Len(cache) + j
      OBVIOUS
    <2>3. i \in DOMAIN all /\ i \notin DOMAIN cache /\ i - Len(cache) = j
      BY <1>4, <1>5, <2>1, <2>2
    <2> QED BY <1>4, <2>1, <2>3
  <1>7. \A j \in DOMAIN cache : j \in DOMAIN all
    BY <1>4, <1>5
  <1> QED BY <1>2, <1>4, <1>6, <1>7

\* A feeder goes on to the next bulk, with what its lookup found.
LooksUp(s, t, found) ==
    /\ s.bulks # <<>> /\ s.items = <<>>
    /\ t.items = Head(s.bulks) /\ t.bulks = Tail(s.bulks) /\ t.cache = Cached(s.cache, found)
    /\ t.body = s.body /\ t.queried = s.queried /\ t.time = s.time
    /\ t.ops = s.ops /\ t.doomed = s.doomed

LEMMA NextBulk ==
    ASSUME NEW s, NEW t, NEW found, Parts(s), LooksUp(s, t, found), Progress(s)
    PROVE  Progress(t) /\ Awaited(t) = Awaited(s) /\ Head(s.bulks) \in Bulks
  <1>1. PICK bulks : bulks = s.bulks
    OBVIOUS
  <1>2. bulks \in Seq(Bulks) /\ bulks # <<>>
    BY <1>1 DEF Parts, LooksUp
  <1>3. /\ t.items = bulks[1] /\ 1 \in DOMAIN bulks /\ bulks[1] \in Bulks
        /\ \A i \in DOMAIN t.bulks :
              i \in Nat /\ i + 1 \in DOMAIN bulks /\ t.bulks[i] = bulks[i + 1]
        /\ \A i \in DOMAIN bulks : i = 1 \/ (i - 1 \in DOMAIN t.bulks /\ t.bulks[i - 1] = bulks[i])
    BY <1>1, <1>2 DEF LooksUp
  <1>4. ItemsLeft(t) = ItemsLeft(s)
    <2>1. \A x : x \in ItemsLeft(s) <=> \E i \in DOMAIN bulks : x \in ToSet(bulks[i])
      BY <1>1 DEF ItemsLeft, LooksUp, ToSet
    <2>2. \A x : x \in ItemsLeft(t) <=> x \in ToSet(bulks[1])
                    \/ \E i \in DOMAIN t.bulks : x \in ToSet(t.bulks[i])
      BY <1>3 DEF ItemsLeft
    <2>3. ASSUME NEW x, x \in ItemsLeft(t) PROVE x \in ItemsLeft(s)
      BY <1>3, <2>1, <2>2, <2>3
    <2>4. ASSUME NEW x, x \in ItemsLeft(s) PROVE x \in ItemsLeft(t)
      <3>1. PICK i \in DOMAIN bulks : x \in ToSet(bulks[i])
        BY <2>1, <2>4
      <3>2. CASE i = 1
        BY <2>2, <3>1, <3>2
      <3>3. CASE i - 1 \in DOMAIN t.bulks /\ t.bulks[i - 1] = bulks[i]
        BY <2>2, <3>1, <3>3
      <3> QED BY <1>3, <3>2, <3>3
    <2> QED BY <2>3, <2>4
  <1>5. Progress(t)
    <2>1. PICK n \in DOMAIN s.body : bulks[1] = s.body[n]
      BY <1>1, <1>3 DEF Progress
    <2>2. \A j \in DOMAIN t.items : j + 0 \in DOMAIN t.body[n] /\ t.items[j] = t.body[n][j + 0]
      <3>1. t.items = t.body[n] /\ \A j \in DOMAIN bulks[1] : j + 0 = j
        <4>1. bulks[1] \in Seq(Reports)
          BY <1>3, BodiesAssumption
        <4>2. DOMAIN bulks[1] \subseteq Nat
          BY <4>1
        <4> QED BY <1>3, <2>1, <4>2 DEF LooksUp
      <3> QED BY <1>3, <3>1
    <2>3. n \in DOMAIN t.body /\ 0 \in Nat
      BY <2>1 DEF LooksUp
    <2>4. \A j \in DOMAIN t.bulks : \E k \in DOMAIN t.body : t.bulks[j] = t.body[k]
      BY <1>1, <1>3 DEF Progress, LooksUp
    <2> QED BY <2>2, <2>3, <2>4 DEF Progress
  <1> QED BY <1>1, <1>2, <1>3, <1>4, <1>5 DEF Awaited

LEMMA LookupSteady ==
    ASSUME StoreInv, NEW f \in Feeders, NEW s, s = f_[f], NEW V, V = View(s), NEW T,
           Steady(meta, s, V, T), NEW found \in Found(s), NEW t, LooksUp(s, t, found)
    PROVE  Steady(meta, t, V, T)
  <1>1. Parts(s) /\ IsSeq(s.cache)
    BY LoneFacts
  <1>2. Progress(t) /\ Awaited(t) = Awaited(s) /\ Head(s.bulks) \in Bulks
    BY <1>1, NextBulk DEF Steady
  <1>3. \A x : Ahead(t, x) <=> Ahead(s, x)
    BY <1>2 DEF Ahead, LooksUp
  <1>4. found \subseteq V /\ IsFiniteSet(found)
    BY FoundInView, ViewSound, FS_Subset
  <1>5. PICK all : all = t.cache
    OBVIOUS
  <1>6. /\ \A i \in DOMAIN all : (\E j \in DOMAIN s.cache : all[i] = s.cache[j]) \/ all[i] \in found
        /\ \A j \in DOMAIN s.cache : j \in DOMAIN all /\ all[j] = s.cache[j]
        /\ \A r \in found : \E i \in DOMAIN all : all[i] = r
    BY <1>1, <1>4, <1>5, LookupAdds DEF LooksUp
  <1>7. StillAsCommitted(t, V, T) /\ ChangesNoted(meta, t, V, T)
    <2>1. \A id : Noted(t, id) <=> Noted(s, id)
      BY DEF Noted, LooksUp
    <2>2. StillAsCommitted(t, V, T)
      BY <1>3 DEF Steady, StillAsCommitted
    <2>3. ChangesNoted(meta, t, V, T)
      BY <2>1 DEF Steady, ChangesNoted, LooksUp
    <2> QED BY <2>2, <2>3
  <1>8. CacheTrue(t, V)
    <2> SUFFICES ASSUME NEW i \in DOMAIN all, Ahead(s, all[i].ctx)
                 PROVE  \E r \in V : Alike(all[i], r)
      BY <1>3, <1>5 DEF CacheTrue
    <2>1. CASE all[i] \in found
      BY <1>4, <2>1 DEF Alike
    <2>2. CASE \E j \in DOMAIN s.cache : all[i] = s.cache[j]
      BY <2>2 DEF Steady, CacheTrue
    <2> QED BY <1>6, <2>1, <2>2
  <1>9. CacheFull(meta, t, V)
    <2> SUFFICES ASSUME Joins(meta), NEW r \in V, Ahead(s, r.ctx),
                        s.queried \/ r.ctx \in ContextsOf(t.items)
                 PROVE  \E i \in DOMAIN all : all[i].id = r.id /\ all[i].ctx = r.ctx
      BY <1>3, <1>5 DEF CacheFull, LooksUp
    <2>1. CASE s.queried
      BY <1>6, <2>1 DEF Steady, CacheFull
    <2>2. CASE ~s.queried
      <3>1. PICK bulk : bulk = Head(s.bulks) /\ bulk = t.items /\ bulk \in Bulks
        BY <1>2 DEF LooksUp
      <3>2. found = {q \in V : Device[q.ctx] = Device[bulk[1].ctx]}
        BY <2>2, <3>1 DEF Found, Joins
      <3>3. PICK x \in ToSet(bulk) : x.ctx = r.ctx
        BY <2>2, <3>1 DEF ContextsOf
      <3>4. bulk[1] \in ToSet(bulk)
        <4>1. bulk \in Seq(Reports)
          BY <3>1, BodiesAssumption
        <4>2. PICK j \in DOMAIN bulk : x = bulk[j]
          BY <3>3 DEF ToSet
        <4>3. 1 \in DOMAIN bulk
          BY <4>1, <4>2
        <4> QED BY <4>3 DEF ToSet
      <3>5. r \in found
        BY <3>1, <3>2, <3>3, <3>4, BodiesAssumption
      <3> QED BY <1>6, <3>5
    <2> QED BY <2>1, <2>2
  <1>10. Spared(t, V) /\ MadeOne(meta, t, V)
    <2>1. Spared(t, V)
      BY <1>3 DEF Steady, Spared, LooksUp
    <2>2. MadeOne(meta, t, V)
      BY <1>2 DEF Steady, MadeOne, LooksUp
    <2> QED BY <2>1, <2>2
  <1> QED BY <1>2, <1>7, <1>8, <1>9, <1>10 DEF Steady

LEMMA PreBulkLone ==
    ASSUME LoneInv, StoreInv', NEW f \in Feeders, PreBulkProcess(f)
    PROVE  LoneInv'
  <1>1. PICK s : s = f_[f]
    OBVIOUS
  <1>2. /\ DOMAIN s = FeederFields /\ DOMAIN f_ = Feeders
        /\ s.pc = "bulk" /\ s.bulks # <<>> /\ s.items = <<>> /\ UNCHANGED <<table, meta>>
    BY <1>1, LoneFacts DEF LoneInv, PreBulkProcess, db, config
  <1>3. CASE s.broken /\ "just_insert" \notin meta /\ ~s.queried
    <2>1. PICK t : t = [s EXCEPT !.bulks = Tail(@)]
      OBVIOUS
    <2>2. Becomes(f, t)
      BY <1>1, <1>2, <1>3, <2>1 DEF PreBulkProcess, Becomes
    <2>3. t.alone = s.alone
      BY <1>2, <2>1 DEF FeederFields, Idle
    <2>4. ~s.alone
      BY <1>1, <1>3 DEF LoneInv, LoneSound
    <2> QED BY <1>1, <1>2, <2>2, <2>3, <2>4, LoneWorksOn
  <1>4. CASE ~(s.broken /\ "just_insert" \notin meta /\ ~s.queried)
    <2>1. PICK found \in Found(s) :
             f_' = [f_ EXCEPT ![f].pc = "saving", ![f].items = Head(s.bulks),
                              ![f].bulks = Tail(@), ![f].cache = Cached(@, found)]
      BY <1>1, <1>4 DEF PreBulkProcess
    <2>2. PICK t : t = [s EXCEPT !.pc = "saving", !.items = Head(s.bulks), !.bulks = Tail(@),
                                 !.cache = Cached(@, found)]
      OBVIOUS
    <2>3. Becomes(f, t)
      BY <1>1, <1>2, <2>1, <2>2 DEF Becomes
    <2>4. LooksUp(s, t, found) /\ t.alone = s.alone /\ t.pc = "saving" /\ t.broken = s.broken
      BY <1>2, <2>2 DEF LooksUp, FeederFields, Idle
    <2>5. ASSUME s.alone PROVE Works(t)
      <3>1. ~s.broken /\ Steady(meta, s, View(s), table)
        BY <1>1, <2>5 DEF LoneInv, LoneSound
      <3>2. Steady(meta, t, View(s), table)
        BY <1>1, <2>4, <3>1, LookupSteady DEF LoneInv
      <3>3. View(s) = After(table, t.ops)
        BY <2>4 DEF View, LooksUp
      <3> QED BY <2>4, <3>1, <3>2, <3>3 DEF Works
    <2> QED BY <1>1, <1>2, <2>3, <2>4, <2>5, LoneWorksOn
  <1> QED BY <1>3, <1>4

\* What a feeder knows of its message stays as it is.
SameMessage(s, t) ==
    /\ t.items = s.items /\ t.bulks = s.bulks /\ t.body = s.body /\ t.cache = s.cache
    /\ t.queried = s.queried /\ t.time = s.time /\ t.doomed = s.doomed

LEMMA SameAhead ==
    ASSUME NEW s, NEW t, SameMessage(s, t)
    PROVE  /\ Awaited(t) = Awaited(s) /\ \A x : Ahead(t, x) <=> Ahead(s, x)
           /\ Progress(s) => Progress(t)
  <1>1. Awaited(t) = Awaited(s)
    BY DEF Awaited, ItemsLeft, SameMessage
  <1>2. \A x : Ahead(t, x) <=> Ahead(s, x)
    BY <1>1 DEF Ahead, SameMessage
  <1>3. Progress(s) => Progress(t)
    BY DEF Progress, SameMessage
  <1> QED BY <1>1, <1>2, <1>3

\* After a commit, what is committed is what the feeder sees.
LEMMA CommittedSteady ==
    ASSUME NEW F, NEW s, NEW V, NEW T, Steady(F, s, V, T), \A q, r \in V : q.id = r.id => q = r,
           NEW t, SameMessage(s, t)
    PROVE  Steady(F, t, V, V)
  <1>1. Awaited(t) = Awaited(s) /\ (\A x : Ahead(t, x) <=> Ahead(s, x)) /\ Progress(t)
    BY SameAhead DEF Steady
  <1>2. StillAsCommitted(t, V, V) /\ ChangesNoted(F, t, V, V)
    BY DEF StillAsCommitted, ChangesNoted, Replaces
  <1>3. CacheTrue(t, V)
    BY <1>1 DEF Steady, CacheTrue, SameMessage
  <1>4. CacheFull(F, t, V)
    BY <1>1 DEF Steady, CacheFull, SameMessage
  <1>5. Spared(t, V)
    BY <1>1 DEF Steady, Spared, SameMessage
  <1>6. MadeOne(F, t, V)
    BY <1>1 DEF Steady, MadeOne, SameMessage
  <1> QED BY <1>1, <1>2, <1>3, <1>4, <1>5, <1>6 DEF Steady

LEMMA EnsureLone ==
    ASSUME LoneInv, StoreInv', NEW f \in Feeders, f_[f].pc # "idle", UNCHANGED meta,
           NEW exist, CommitOf(f_[f], exist), NEW kind,
           f_' = [f_ EXCEPT ![f].known = @ \cup {kind}, ![f].ops = <<>>, ![f].broken = FALSE]
    PROVE  LoneInv'
  <1>1. PICK s : s = f_[f]
    OBVIOUS
  <1>2. DOMAIN s = FeederFields /\ DOMAIN f_ = Feeders /\ SoundView(View(s))
    BY <1>1, LoneFacts DEF LoneInv
  <1>3. PICK t : t = [s EXCEPT !.known = @ \cup {kind}, !.ops = <<>>, !.broken = FALSE]
    OBVIOUS
  <1>4. Becomes(f, t)
    BY <1>1, <1>2, <1>3 DEF Becomes
  <1>5. SameMessage(s, t) /\ t.alone = s.alone /\ t.pc = s.pc /\ t.ops = <<>> /\ t.broken = FALSE
    BY <1>2, <1>3 DEF SameMessage, FeederFields, Idle
  <1>6. ASSUME s.alone PROVE Steady(meta', t, After(table', t.ops), table')
    <2>1. ~s.broken /\ Steady(meta, s, View(s), table)
      BY <1>1, <1>6 DEF LoneInv, LoneSound
    <2>2. table' = View(s)
      BY <1>1, <2>1 DEF CommitOf, View
    <2>3. After(table', t.ops) = View(s)
      BY <1>5, <2>2, AfterNone
    <2>4. Steady(meta, t, View(s), View(s))
      BY <1>2, <1>5, <2>1, CommittedSteady DEF SoundView
    <2> QED BY <2>2, <2>3, <2>4
  <1> QED BY <1>1, <1>4, <1>5, <1>6, LoneGoesOn

\* Nothing changes but times.
LEMMA TouchedSteady ==
    ASSUME NEW F, NEW s, NEW V, NEW T, Steady(F, s, V, T), NEW W, SameRows(V, W),
           NEW t, SameMessage(s, t),
           \A i \in DOMAIN s.ops : i \in DOMAIN t.ops /\ t.ops[i] = s.ops[i]
    PROVE  Steady(F, t, W, T)
  <1>1. Awaited(t) = Awaited(s) /\ (\A x : Ahead(t, x) <=> Ahead(s, x)) /\ Progress(t)
    BY SameAhead DEF Steady
  <1>2. \A r \in W : \E q \in V : Alike(q, r)
    BY DEF SameRows
  <1>3. StillAsCommitted(t, W, T)
    BY <1>1, <1>2 DEF Steady, StillAsCommitted, Alike
  <1>4. ChangesNoted(F, t, W, T)
    <2> SUFFICES ASSUME Keeps(F), NEW q \in T, NEW r \in W, q.id = r.id, Once(s.body, q.ctx),
                        Replaces(r, q)
                 PROVE  Noted(t, r.id)
      BY DEF ChangesNoted, SameMessage
    <2>1. PICK v \in V : Alike(v, r)
      BY <1>2
    <2>2. Replaces(v, q) /\ v.id = r.id
      BY <2>1 DEF Alike, Replaces
    <2>3. Noted(s, r.id)
      BY <2>2 DEF Steady, ChangesNoted
    <2> QED BY <2>3 DEF Noted, SameMessage
  <1>5. CacheTrue(t, W)
    <2> SUFFICES ASSUME NEW i \in DOMAIN s.cache, Ahead(s, s.cache[i].ctx)
                 PROVE  \E w \in W : Alike(s.cache[i], w)
      BY <1>1 DEF CacheTrue, SameMessage
    <2>1. PICK v \in V : Alike(s.cache[i], v)
      BY DEF Steady, CacheTrue
    <2>2. PICK w \in W : Alike(v, w)
      BY DEF SameRows
    <2> QED BY <2>1, <2>2 DEF Alike
  <1>6. CacheFull(F, t, W)
    <2> SUFFICES ASSUME Joins(F), NEW r \in W, Ahead(s, r.ctx),
                        s.queried \/ r.ctx \in ContextsOf(s.items)
                 PROVE  \E i \in DOMAIN s.cache : s.cache[i].id = r.id /\ s.cache[i].ctx = r.ctx
      BY <1>1 DEF CacheFull, SameMessage
    <2>1. PICK v \in V : Alike(v, r)
      BY <1>2
    <2> QED BY <2>1 DEF Steady, CacheFull, Alike
  <1>7. Spared(t, W)
    <2> SUFFICES ASSUME NEW r \in W, Ahead(s, r.ctx) PROVE r.id \notin s.doomed
      BY <1>1 DEF Spared, SameMessage
    <2>1. PICK v \in V : Alike(v, r)
      BY <1>2
    <2> QED BY <2>1 DEF Steady, Spared, Alike
  <1>8. MadeOne(F, t, W)
    <2> SUFFICES ASSUME Joins(F), NEW c \in Contexts \ Elsewhere, Once(s.body, c),
                        c \notin Awaited(s)
                 PROVE  OneOf(W, c, s.doomed)
      BY <1>1 DEF MadeOne, SameMessage
    <2>1. OneOf(V, c, s.doomed)
      BY DEF Steady, MadeOne
    <2>2. /\ \A w \in W : \E v \in V : v.id = w.id /\ v.ctx = w.ctx
          /\ \A v \in V : \E w \in W : v.id = w.id /\ v.ctx = w.ctx
      BY DEF SameRows, Alike
    <2> QED BY <2>1, <2>2, OneStays
  <1> QED BY <1>1, <1>3, <1>4, <1>5, <1>6, <1>7, <1>8 DEF Steady

LEMMA PostBulkLone ==
    ASSUME LoneInv, StoreInv', NEW f \in Feeders, PostBulkProcess(f)
    PROVE  LoneInv'
  <1>1. PICK s, touch : s = f_[f] /\ touch = [do |-> "touch", ids |-> s.touched, time |-> s.time]
    OBVIOUS
  <1>2. /\ DOMAIN s = FeederFields /\ DOMAIN f_ = Feeders /\ SoundView(View(s)) /\ IsSeq(s.ops)
        /\ s.pc = "saving" /\ UNCHANGED <<table, meta>>
    BY <1>1, LoneFacts DEF LoneInv, PostBulkProcess, db, config
  <1>3. PICK done : done = [s EXCEPT !.pc = "bulk",
                                     !.touched = IF s.broken /\ ~deferred THEN @ ELSE {}]
    OBVIOUS
  <1>4. PICK t : t = IF s.touched = {} THEN done
                     ELSE IF deferred THEN [done EXCEPT !.pending = @ \cup ({s.time} \X s.touched)]
                     ELSE Do(done, touch)
    OBVIOUS
  <1>5. Becomes(f, t)
    BY <1>1, <1>3, <1>4 DEF PostBulkProcess, Becomes
  <1>6. /\ DOMAIN done = FeederFields /\ SameMessage(s, done) /\ done.ops = s.ops
        /\ done.pc = "bulk" /\ done.broken = s.broken /\ done.alone = s.alone
    BY <1>2, <1>3 DEF SameMessage, FeederFields, Idle
  <1>7. \/ /\ SameMessage(s, t) /\ t.ops = s.ops
           /\ t.pc = "bulk" /\ t.broken = s.broken /\ t.alone = s.alone
        \/ t = Do(done, touch)
    <2>1. CASE t = done
      BY <1>6, <2>1
    <2>2. CASE t = [done EXCEPT !.pending = @ \cup ({s.time} \X s.touched)]
      BY <1>6, <2>2 DEF SameMessage, FeederFields, Idle
    <2> QED BY <1>4, <2>1, <2>2
  <1>8. CASE SameMessage(s, t) /\ t.ops = s.ops /\ t.pc = "bulk" /\ t.broken = s.broken
             /\ t.alone = s.alone
    <2>1. ASSUME s.alone PROVE Works(t)
      <3>1. ~s.broken /\ Steady(meta, s, View(s), table)
        BY <1>1, <2>1 DEF LoneInv, LoneSound
      <3>2. SameRows(View(s), View(s))
        BY DEF SameRows, Alike
      <3>3. \A i \in DOMAIN s.ops : i \in DOMAIN t.ops /\ t.ops[i] = s.ops[i]
        BY <1>8
      <3>4. Steady(meta, t, View(s), table)
        BY <1>8, <3>1, <3>2, <3>3, TouchedSteady
      <3> QED BY <1>8, <3>1, <3>4 DEF Works, View
    <2> QED BY <1>1, <1>2, <1>5, <1>8, <2>1, LoneWorksOn
  <1>9. CASE t = Do(done, touch)
    <2>1. Does(done, t, touch) /\ t.alone = s.alone
      <3>1. t.alone = done.alone
        BY <1>6, <1>9 DEF Do, FeederFields, Idle
      <3> QED BY <1>2, <1>6, <1>9, <3>1, DoesAlso
    <2>2. /\ SameMessage(s, t) /\ t.pc = "bulk" /\ t.broken = s.broken
          /\ \A i \in DOMAIN s.ops : i \in DOMAIN t.ops /\ t.ops[i] = s.ops[i]
          /\ After(table, t.ops) = Execute(View(s), touch)
      BY <1>6, <2>1 DEF Does, SameMessage, View
    <2>3. SameRows(View(s), Execute(View(s), touch))
      BY <1>1, <1>2, TouchKeeps DEF SoundView
    <2>4. ASSUME s.alone PROVE Works(t)
      <3>1. ~s.broken /\ Steady(meta, s, View(s), table)
        BY <1>1, <2>4 DEF LoneInv, LoneSound
      <3>2. Steady(meta, t, After(table, t.ops), table)
        BY <2>2, <2>3, <3>1, TouchedSteady
      <3> QED BY <2>2, <3>1, <3>2 DEF Works
    <2> QED BY <1>1, <1>2, <1>5, <2>1, <2>4, LoneWorksOn
  <1> QED BY <1>7, <1>8, <1>9

\* A feeder is idle again, or no longer alone: nothing is to be said of it. If it was idle
\* already, the others are where they were.
LEMMA NotAloneNow ==
    ASSUME LoneInv, StoreInv', NEW f \in Feeders, NEW t, Becomes(f, t), ~t.alone,
           f_[f].pc # "idle" \/ (t.pc = "idle" /\ UNCHANGED <<table, meta>>)
    PROVE  LoneInv'
  <1>1. DOMAIN f_ = Feeders /\ f_'[f] = t /\ \A g \in Feeders \ {f} : f_'[g] = f_[g]
    BY LoneFacts DEF LoneInv, Becomes
  <1>2. CASE f_[f].pc # "idle"
    BY <1>2, LoneGoesOn
  <1>3. CASE f_[f].pc = "idle" /\ t.pc = "idle" /\ UNCHANGED <<table, meta>>
    <2>1. ASSUME NEW g \in Feeders PROVE LoneSound(g)'
      <3>1. CASE g = f
        BY <1>1, <3>1 DEF LoneSound
      <3>2. CASE g # f
        <4>1. LoneSound(g) /\ View(f_[g])' = View(f_[g])
          BY <1>1, <1>3, <3>2 DEF LoneInv, View
        <4> QED BY <1>1, <1>3, <3>2, <4>1 DEF LoneSound
      <3> QED BY <3>1, <3>2
    <2> QED BY <2>1 DEF LoneInv
  <1> QED BY <1>2, <1>3

LEMMA FaultsLone ==
    ASSUME LoneInv, StoreInv', NEW f \in Feeders, Fail(f) \/ Restart(f)
    PROVE  LoneInv'
  <1>1. DOMAIN f_ = Feeders /\ DOMAIN f_[f] = FeederFields /\ UNCHANGED <<table, meta>>
    BY LoneFacts DEF LoneInv, Fail, Restart, db, config
  <1>2. CASE Fail(f)
    <2>1. PICK t : t = [f_[f] EXCEPT !.broken = TRUE, !.alone = FALSE]
      OBVIOUS
    <2>2. Becomes(f, t) /\ f_[f].pc # "idle"
      BY <1>1, <1>2, <2>1 DEF Fail, Becomes
    <2>3. ~t.alone
      BY <1>1, <2>1 DEF FeederFields, Idle
    <2> QED BY <2>2, <2>3, NotAloneNow
  <1>3. CASE Restart(f)
    <2>1. Becomes(f, Idle) /\ ~Idle.alone /\ Idle.pc = "idle"
      BY <1>3 DEF Restart, Becomes, Idle
    <2> QED BY <1>1, <2>1, NotAloneNow
  <1> QED BY <1>2, <1>3

LEMMA PostMsgLone ==
    ASSUME LoneInv, StoreInv', NEW f \in Feeders, PostMsgProcess(f)
    PROVE  LoneInv'
  <1> DEFINE idle(u) == [Idle EXCEPT !.known = u.known, !.pending = u.pending,
                                     !.broken = u.broken, !.ops = u.ops]
  <1>1. \A u : ~idle(u).alone
    BY DEF Idle
  <1>2. f_[f].pc # "idle" /\ \E t : Becomes(f, t) /\ ~t.alone
    <2>1. f_[f].pc = "bulk" /\ \E u : f_' = [f_ EXCEPT ![f] = idle(u)]
      BY Zenon DEF PostMsgProcess
    <2> HIDE DEF idle
    <2> QED BY <1>1, <2>1 DEF Becomes
  <1> QED BY <1>2, NotAloneNow

\* A message has just been taken, and its rows were looked up, or not.
Begins(t, body, found) ==
    /\ t.bulks = body /\ t.body = body /\ t.items = <<>> /\ t.doomed = {}
    /\ \/ t.cache = <<>> /\ t.queried = FALSE
       \/ t.cache = SetToSeq(found) /\ t.queried = (found # {})

LEMMA BeginsSteady ==
    ASSUME NEW F, NEW T, IsFiniteSet(T), \A q, r \in T : q.id = r.id => q = r,
           NEW body \in Bodies, NEW ctxs,
           ctxs = UNION {{body[i][j].ctx : j \in DOMAIN body[i]} : i \in DOMAIN body},
           NEW found, found = {r \in T : r.ctx \in ctxs}, NEW t, Begins(t, body, found)
    PROVE  Steady(F, t, T, T)
  <1>1. Progress(t)
    BY DEF Progress, Begins
  <1>2. StillAsCommitted(t, T, T) /\ ChangesNoted(F, t, T, T)
    BY DEF StillAsCommitted, ChangesNoted, Replaces
  <1>3. Awaited(t) = ctxs
    <2>1. \A x : x \in ItemsLeft(t) <=> \E i \in DOMAIN body : x \in ToSet(body[i])
      BY DEF ItemsLeft, Begins, ToSet
    <2>2. \A i : \A x : x \in ToSet(body[i]) <=> \E j \in DOMAIN body[i] : x = body[i][j]
      BY DEF ToSet
    <2>3. ASSUME NEW c \in Awaited(t) PROVE c \in ctxs
      <3>1. PICK x \in ItemsLeft(t) : c = x.ctx
        BY DEF Awaited
      <3>2. PICK i \in DOMAIN body : x \in ToSet(body[i])
        BY <2>1
      <3>3. PICK j \in DOMAIN body[i] : c = body[i][j].ctx
        BY <3>1, <3>2 DEF ToSet
      <3>4. c \in {body[i][k].ctx : k \in DOMAIN body[i]}
        BY <3>3
      <3> QED BY <3>2, <3>4
    <2>4. ASSUME NEW c \in ctxs PROVE c \in Awaited(t)
      <3>1. PICK i \in DOMAIN body : \E j \in DOMAIN body[i] : c = body[i][j].ctx
        OBVIOUS
      <3>2. PICK j \in DOMAIN body[i] : c = body[i][j].ctx
        BY <3>1
      <3>3. body[i][j] \in ItemsLeft(t)
        BY <2>1, <2>2
      <3> QED BY <3>2, <3>3 DEF Awaited
    <2> QED BY <2>3, <2>4
  <1>4. IsFiniteSet(found)
    BY FS_Subset
  <1>5. /\ \A i \in DOMAIN t.cache : t.cache[i] \in found
        /\ t.queried => \A r \in found : \E i \in DOMAIN t.cache : t.cache[i] = r
    <2>1. CASE t.cache = <<>> /\ t.queried = FALSE
      BY <2>1
    <2>2. CASE t.cache = SetToSeq(found)
      <3>1. \A x : x \in found <=> \E j \in DOMAIN SetToSeq(found) : SetToSeq(found)[j] = x
        BY <1>4, AllInSequence
      <3>2. PICK q : q = SetToSeq(found)
        OBVIOUS
      <3>3. t.cache = q /\ \A x : x \in found <=> \E j \in DOMAIN q : q[j] = x
        BY <2>2, <3>1, <3>2
      <3> QED BY <3>3
    <2> QED BY <2>1, <2>2 DEF Begins
  <1>6. CacheTrue(t, T)
    BY <1>5 DEF CacheTrue, Alike
  <1>7. CacheFull(F, t, T)
    <2> SUFFICES ASSUME NEW r \in T, Ahead(t, r.ctx), t.queried \/ r.ctx \in ContextsOf(t.items)
                 PROVE  \E i \in DOMAIN t.cache : t.cache[i].id = r.id /\ t.cache[i].ctx = r.ctx
      BY DEF CacheFull
    <2>1. t.queried
      BY DEF ContextsOf, ToSet, Begins
    <2>2. r \in found
      BY <1>3 DEF Ahead
    <2> QED BY <1>5, <2>1, <2>2
  <1>8. Spared(t, T)
    BY DEF Spared, Begins
  <1>9. MadeOne(F, t, T)
    <2> SUFFICES ASSUME NEW c, Once(t.body, c) PROVE c \in Awaited(t)
      BY DEF MadeOne
    <2>1. PICK p : p \in Places(body, c)
      BY DEF Once, Begins
    <2>2. PICK i \in DOMAIN body : \E j \in DOMAIN body[i] : body[i][j].ctx = c
      BY <2>1 DEF Places
    <2> QED BY <1>3, <2>2
  <1> QED BY <1>1, <1>2, <1>6, <1>7, <1>8, <1>9 DEF Steady

LEMMA StartLone ==
    ASSUME LoneInv, StoreInv', NEW f \in Feeders, Start(f)
    PROVE  LoneInv'
  <1>1. PICK s : s = f_[f]
    OBVIOUS
  <1>2. PICK body \in Bodies :
          f_' = [g \in Feeders |->
                IF g = f
                THEN [PreMsgProcess(f_[f], body) EXCEPT
                        !.pc = "bulk", !.bulks = body, !.time = clock + 1, !.body = body,
                        !.alone = (Idlers = Feeders /\ ~f_[f].broken)]
                ELSE [f_[g] EXCEPT !.alone = FALSE]]
    BY DEF Start
  <1>3. s.pc = "idle" /\ DOMAIN s = FeederFields /\ UNCHANGED <<table, meta>> /\ s.items = <<>>
    BY <1>1, LoneFacts DEF LoneInv, Start, db, config
  <1> DEFINE ctxs == UNION {{body[i][j].ctx : j \in DOMAIN body[i]} : i \in DOMAIN body}
  <1>4. PICK found : found = {r \in table : r.ctx \in ctxs}
    OBVIOUS
  <1>5. PICK m : m = PreMsgProcess(s, body)
    OBVIOUS
  <1>6. /\ DOMAIN m = FeederFields /\ m.items = <<>> /\ m.doomed = {}
        /\ \/ m.cache = <<>> /\ m.queried = FALSE
           \/ m.cache = SetToSeq(found) /\ m.queried = (found # {})
        /\ m.ops = s.ops \/ m.ops = <<>>
        /\ ~s.broken => ~m.broken
    BY <1>3, <1>4, <1>5 DEF PreMsgProcess, FeederFields, Idle
  <1>7. PICK t : t = [m EXCEPT !.pc = "bulk", !.bulks = body, !.time = clock + 1, !.body = body,
                               !.alone = (Idlers = Feeders /\ ~s.broken)]
    OBVIOUS
  <1>8. f_'[f] = t /\ \A g \in Feeders \ {f} : f_'[g] = [f_[g] EXCEPT !.alone = FALSE]
    BY <1>1, <1>2, <1>5, <1>7
  <1>9. /\ Begins(t, body, found) /\ t.pc = "bulk" /\ t.ops = m.ops /\ t.broken = m.broken
        /\ t.alone => Idlers = Feeders /\ ~s.broken
    <2> HIDE DEF ctxs
    <2> QED BY <1>6, <1>7 DEF Begins, FeederFields, Idle
  <1>10. ASSUME NEW g \in Feeders \ {f}
         PROVE  ~f_'[g].alone /\ f_'[g].pc = f_[g].pc
    <2>1. DOMAIN f_[g] = FeederFields
      BY LoneFacts DEF LoneInv
    <2> QED BY <1>8, <2>1 DEF FeederFields, Idle
  <1>11. ASSUME t.alone PROVE LoneSound(f)'
    <2>1. \A g \in Feeders : f_[g].pc = "idle"
      BY <1>9, <1>11 DEF Idlers
    <2>2. OpsSound(f) /\ TableSound
      BY DEF LoneInv, StoreInv, FeederSound
    <2>3. t.ops = <<>> /\ ~t.broken
      BY <1>1, <1>3, <1>6, <1>9, <1>11, <2>2 DEF OpsSound
    <2>4. Steady(meta, t, table, table)
      <3>1. PICK all : all = ctxs
        OBVIOUS
      <3>2. IsFiniteSet(table) /\ \A q, r \in table : q.id = r.id => q = r
        BY <2>2 DEF TableSound
      <3> QED BY <1>4, <1>9, <3>1, <3>2, BeginsSteady
    <2>5. View(f_[f])' = table
      BY <1>3, <1>8, <2>3, AfterNone DEF View
    <2> QED BY <1>3, <1>8, <1>9, <1>10, <2>1, <2>3, <2>4, <2>5 DEF LoneSound
  <1>12. \A g \in Feeders : LoneSound(g)'
    BY <1>8, <1>10, <1>11 DEF LoneSound
  <1> QED BY <1>12 DEF LoneInv

LEMMA InitLone == Init => LoneInv
  <1>1. ASSUME Init, NEW f \in Feeders PROVE LoneSound(f)
    BY <1>1 DEF Init, LoneSound, Idle
  <1> QED BY <1>1, InitSound DEF LoneInv

LEMMA StepLone == LoneInv /\ [Next]_vars => LoneInv'
  <1> SUFFICES ASSUME LoneInv, [Next]_vars PROVE LoneInv'
    OBVIOUS
  <1>1. StoreInv'
    BY StepSound DEF LoneInv
  <1>2. CASE UNCHANGED vars
    <2>1. UNCHANGED <<f_, table, meta>>
      BY <1>2 DEF vars, db, config
    <2>2. ASSUME NEW f \in Feeders PROVE LoneSound(f)'
      <3>1. View(f_[f])' = View(f_[f]) /\ LoneSound(f)
        BY <2>1 DEF View, LoneInv
      <3>2. UNCHANGED <<f_[f].alone, f_[f].pc, f_[f].broken, f_[f]>>
        BY <2>1
      <3>3. \A g \in Feeders : f_'[g] = f_[g]
        BY <2>1
      <3> QED BY <2>1, <3>1, <3>2, <3>3 DEF LoneSound
    <2> QED BY <1>1, <2>2 DEF LoneInv
  <1>3. ASSUME NEW f \in Feeders, EnsureTable(f) \/ EnsureArchive(f) PROVE LoneInv'
    <2>1. f_[f].pc # "idle" /\ UNCHANGED meta
      BY <1>3 DEF EnsureTable, EnsureArchive, config
    <2> QED BY <1>1, <1>3, <2>1, EnsureLone DEF EnsureTable, EnsureArchive
  <1>4. \A f \in Feeders : Start(f) \/ PreBulkProcess(f) \/ Save(f) => LoneInv'
    BY <1>1, StartLone, PreBulkLone, SaveLone
  <1>5. \A f \in Feeders : PostBulkProcess(f) \/ PostMsgProcess(f) => LoneInv'
    BY <1>1, PostBulkLone, PostMsgLone
  <1>6. \A f \in Feeders : Fail(f) \/ Restart(f) => LoneInv'
    BY <1>1, FaultsLone
  <1> QED BY Zenon, <1>2, <1>3, <1>4, <1>5, <1>6 DEF Next

-----------------------------------------------------------------------------
(* The end of a message of a feeder that is alone *)

\* The statements of the message, and what they make of the rows: those to delete are
\* gone, and of the rest only times changed.
EndsIn(s, t) ==
    /\ t.broken = s.broken
    /\ \A i \in DOMAIN s.ops : i \in DOMAIN t.ops /\ t.ops[i] = s.ops[i]
    /\ SameRows({r \in View(s) : r.id \notin s.doomed}, After(table, t.ops))

LEMMA EndedRows ==
    ASSUME StoreInv, NEW f \in Feeders, NEW s, s = f_[f], NEW touches \in Touches(s),
           NEW t, t = Ended(s, touches)
    PROVE  EndsIn(s, t)
  <1>1. DOMAIN s = FeederFields /\ IsSeq(s.ops) /\ SoundView(View(s))
    BY LoneFacts
  <1>2. PICK op : op = [do |-> "delete", ids |-> s.doomed]
    OBVIOUS
  <1>3. PICK del : del = IF s.doomed = {} THEN <<>> ELSE <<op>>
    OBVIOUS
  <1>4. PICK mid : mid = s.ops \o del
    OBVIOUS
  <1>5. t.ops = mid \o touches /\ t.broken = s.broken
    <2>1. t = [s EXCEPT !.ops = (s.ops \o del) \o touches]
      BY <1>2, <1>3 DEF Ended
    <2> QED BY <1>1, <1>4, <2>1 DEF FeederFields, Idle
  <1>6. /\ IsSeq(mid) /\ \A i \in DOMAIN s.ops : i \in DOMAIN mid /\ mid[i] = s.ops[i]
        /\ After(table, mid) = {r \in View(s) : r.id \notin s.doomed}
    <2>1. PICK ops : ops = s.ops
      OBVIOUS
    <2>2. ops \in Seq(ToSet(ops))
      BY <1>1, <2>1 DEF IsSeq
    <2>3. CASE s.doomed = {}
      <3>1. mid = ops
        BY <1>3, <1>4, <2>1, <2>2, <2>3
      <3> QED BY <1>1, <2>1, <2>3, <3>1 DEF View
    <2>4. CASE s.doomed # {}
      <3>1. mid = Append(ops, op)
        <4>1. \A S : \A x \in S : \A q \in Seq(S) : q \o <<x>> = Append(q, x)
          OBVIOUS
        <4>2. PICK S : S = ToSet(ops) \cup {op}
          OBVIOUS
        <4>3. ops \in Seq(S) /\ op \in S
          BY <2>2, <4>2
        <4> QED BY <1>3, <1>4, <2>1, <2>4, <4>1, <4>3
      <3>2. /\ IsSeq(mid) /\ Len(ops) \in Nat /\ DOMAIN ops = 1 .. Len(ops)
            /\ DOMAIN mid = 1 .. Len(ops) + 1 /\ \A i \in DOMAIN ops : mid[i] = ops[i]
        BY <1>1, <2>1, <3>1, Appended
      <3>3. After(table, mid) = Execute(View(s), op)
        BY <1>1, <2>1, <3>1, AfterOneMore DEF View
      <3>4. Execute(View(s), op) = {r \in View(s) : r.id \notin s.doomed}
        BY <1>2 DEF Execute
      <3> QED BY <2>1, <3>2, <3>3, <3>4
    <2> QED BY <2>3, <2>4
  <1>7. IsSeq(touches) /\ \A i \in DOMAIN touches : touches[i].do = "touch"
    <2>1. BornSound /\ \A p \in s.pending : BornAt(p[2], p[1])
      BY DEF StoreInv, FeederSound, PutOffSound
    <2> QED BY <2>1, TouchesSound
  <1>8. SameRows(After(table, mid), After(table, mid \o touches))
    BY <1>1, <1>6, <1>7, TouchesKeep DEF SoundView
  <1>9. \A i \in DOMAIN mid : i \in DOMAIN t.ops /\ t.ops[i] = mid[i]
    <2> DEFINE both == ToSet(mid) \cup ToSet(touches)
    <2>1. mid \in Seq(both) /\ touches \in Seq(both)
      BY <1>6, <1>7 DEF IsSeq
    <2> HIDE DEF both
    <2> QED BY <1>5, <2>1
  <1> QED BY <1>5, <1>6, <1>8, <1>9 DEF EndsIn

\* The faults are counted.
Counted == LoneInv /\ faults \in Nat

LEMMA StepCounted == Counted /\ [Next]_vars => Counted'
  <1> SUFFICES ASSUME Counted, [Next]_vars PROVE faults' \in Nat
    BY StepLone DEF Counted
  <1>1. faults \in Nat
    BY DEF Counted
  <1>2. CASE UNCHANGED vars
    BY <1>1, <1>2 DEF vars
  <1>3. ASSUME NEW f \in Feeders, Fail(f) \/ Restart(f) PROVE faults' \in Nat
    BY <1>1, <1>3 DEF Fail, Restart
  <1>4. ASSUME NEW f \in Feeders,
               \/ Start(f) \/ EnsureTable(f) \/ PreBulkProcess(f) \/ Save(f)
               \/ EnsureArchive(f) \/ PostBulkProcess(f) \/ PostMsgProcess(f)
        PROVE  faults' = faults
    BY Zenon, <1>4 DEF Start, EnsureTable, PreBulkProcess, Save, EnsureArchive,
                       PostBulkProcess, PostMsgProcess
  <1> QED BY Zenon, <1>1, <1>2, <1>3, <1>4 DEF Next

\* Only the feeder's own post_msg_process ends its message.
LEMMA EndsByItself ==
    ASSUME Counted, [Next]_vars, NEW f \in Feeders, EndsAlone(f)
    PROVE  PostMsgProcess(f)
  <1>1. /\ f_[f].pc = "bulk" /\ f_'[f].pc = "idle" /\ faults' = faults /\ faults \in Nat
        /\ StoreInv /\ DOMAIN f_ = Feeders /\ f_[f].alone
    BY LoneFacts DEF EndsAlone, Counted, LoneInv
  <1>2. ~UNCHANGED vars
    BY <1>1 DEF vars
  <1>3. ASSUME NEW g \in Feeders PROVE ~Fail(g) /\ ~Restart(g)
    BY <1>1 DEF Fail, Restart
  <1>4. ASSUME NEW g \in Feeders, Start(g) PROVE f_'[f].pc # "idle"
    <2>1. g = f \/ f_'[f] = [f_[f] EXCEPT !.alone = FALSE]
      BY <1>1, <1>4 DEF Start
    <2>2. g # f /\ DOMAIN f_[f] = FeederFields
      BY <1>1, <1>4, LoneFacts DEF Start
    <2> QED BY <1>1, <2>1, <2>2 DEF FeederFields, Idle
  <1>5. ASSUME NEW g \in Feeders, g # f,
               \/ EnsureTable(g) \/ PreBulkProcess(g) \/ Save(g)
               \/ EnsureArchive(g) \/ PostBulkProcess(g) \/ PostMsgProcess(g)
        PROVE  FALSE
    <2>1. f_[g].pc # "idle"
      BY <1>5 DEF EnsureTable, PreBulkProcess, Save, EnsureArchive, PostBulkProcess,
                  PostMsgProcess
    <2>2. LoneSound(f) /\ f_[f].alone
      BY <1>1 DEF Counted, LoneInv
    <2>3. \A h \in Feeders \ {f} : f_[h].pc = "idle"
      BY <2>2 DEF LoneSound
    <2> QED BY <1>5, <2>1, <2>3
  <1>6. EnsureTable(f) => f_'[f].pc # "idle"
    <2>1. DOMAIN f_[f] = FeederFields
      BY <1>1, LoneFacts
    <2> QED BY <1>1, <2>1 DEF EnsureTable, FeederFields, Idle
  <1>7. PreBulkProcess(f) => f_'[f].pc # "idle"
    <2> SUFFICES ASSUME PreBulkProcess(f) PROVE f_'[f].pc # "idle"
      OBVIOUS
    <2>1. DOMAIN f_[f] = FeederFields
      BY <1>1, LoneFacts
    <2>2. \/ f_' = [f_ EXCEPT ![f].bulks = Tail(@)]
          \/ \E found : f_' = [f_ EXCEPT ![f].pc = "saving", ![f].items = Head(f_[f].bulks),
                                         ![f].bulks = Tail(@), ![f].cache = Cached(@, found)]
      BY Zenon DEF PreBulkProcess
    <2> QED BY <1>1, <2>1, <2>2 DEF FeederFields, Idle
  <1>8. ~Save(f) /\ ~EnsureArchive(f) /\ ~PostBulkProcess(f)
    BY <1>1 DEF Save, EnsureArchive, PostBulkProcess
  <1>9. PICK g \in Feeders :
           \/ Start(g) \/ EnsureTable(g) \/ PreBulkProcess(g) \/ Save(g) \/ EnsureArchive(g)
           \/ PostBulkProcess(g) \/ PostMsgProcess(g) \/ Fail(g) \/ Restart(g)
    BY <1>2 DEF Next
  <1> QED BY Zenon, <1>1, <1>3, <1>4, <1>5, <1>6, <1>7, <1>8, <1>9

\* What a feeder that was alone leaves at the end of its message.
Settles(f) ==
    /\ Keeps(meta) =>
          \A q \in table, r \in table' :
             q.id = r.id /\ Once(f_[f].body, q.ctx) /\ Replaces(r, q)
                => \E h \in archive' : h.id = r.id /\ h.updated = f_[f].time
    /\ Joins(meta) =>
          \A c \in Contexts \ Elsewhere :
             Once(f_[f].body, c) => \E r \in table' : RowsOf(table', c) = {r}

LEMMA SettlesAlone ==
    ASSUME Counted, StoreInv', NEW f \in Feeders, EndsAlone(f), PostMsgProcess(f)
    PROVE  Settles(f)
  <1>1. PICK s, V : s = f_[f] /\ V = View(s)
    OBVIOUS
  <1>2. /\ s.pc = "bulk" /\ s.bulks = <<>> /\ s.items = <<>> /\ ~s.broken
        /\ Steady(meta, s, V, table)
    BY <1>1, LoneFacts DEF Counted, LoneInv, LoneSound, EndsAlone, PostMsgProcess
  <1>3. PICK touches \in Touches(s) : CommitOf(Ended(s, touches), tables)
    BY <1>1, <1>2 DEF PostMsgProcess
  <1>4. PICK t : t = Ended(s, touches)
    OBVIOUS
  <1>5. PICK W : W = {r \in V : r.id \notin s.doomed}
    OBVIOUS
  <1>6. /\ ~t.broken /\ SameRows(W, After(table, t.ops))
        /\ \A i \in DOMAIN s.ops : i \in DOMAIN t.ops /\ t.ops[i] = s.ops[i]
    <2>1. StoreInv /\ s = f_[f] /\ ~s.broken /\ touches \in Touches(s)
      BY <1>1, <1>2 DEF Counted, LoneInv
    <2>2. EndsIn(s, t)
      BY <1>4, <2>1, EndedRows
    <2> QED BY <1>1, <1>5, <2>1, <2>2 DEF EndsIn
  <1>7. table' = After(table, t.ops) /\ archive' = archive \cup Archived(t.ops)
    BY <1>3, <1>4, <1>6 DEF CommitOf
  <1>8. ASSUME Keeps(meta), NEW q \in table, NEW r \in table', q.id = r.id,
               Once(s.body, q.ctx), Replaces(r, q)
        PROVE  \E h \in archive' : h.id = r.id /\ h.updated = s.time
    <2>1. PICK w \in W : Alike(w, r)
      BY <1>6, <1>7 DEF SameRows
    <2>2. w \in V /\ w.id = r.id /\ Replaces(w, q)
      BY <1>5, <1>8, <2>1 DEF Alike, Replaces
    <2>3. Noted(s, r.id)
      BY <1>2, <1>8, <2>2 DEF Steady, ChangesNoted
    <2>4. PICK i \in DOMAIN t.ops : /\ t.ops[i].do = "archive" /\ t.ops[i].entry.id = r.id
                                    /\ t.ops[i].entry.updated = s.time
      BY <1>6, <2>3 DEF Noted
    <2>5. t.ops[i].entry \in Archived(t.ops)
      BY <2>4 DEF Archived
    <2> QED BY <1>7, <2>4, <2>5
  <1>9. ASSUME Joins(meta), NEW c \in Contexts \ Elsewhere, Once(s.body, c)
        PROVE  \E r \in table' : RowsOf(table', c) = {r}
    <2>1. c \notin Awaited(s)
      BY <1>2 DEF Awaited, ItemsLeft, ToSet
    <2>2. OneOf(V, c, s.doomed)
      BY <1>2, <1>9, <2>1 DEF Steady, MadeOne
    <2>3. PICK r \in W : r.ctx = c /\ \A q \in W : q.ctx = c => q.id = r.id
      BY <1>5, <2>2 DEF OneOf
    <2>4. PICK w \in table' : w.ctx = c /\ w.id = r.id
      BY <1>6, <1>7, <2>3 DEF SameRows, Alike
    <2>5. ASSUME NEW q \in table', q.ctx = c PROVE q = w
      <3>1. PICK v \in W : v.ctx = c /\ v.id = q.id
        BY <1>6, <1>7, <2>5 DEF SameRows, Alike
      <3>2. q.id = w.id
        BY <2>3, <2>4, <3>1
      <3> QED BY <3>2 DEF StoreInv, TableSound
    <2> QED BY <2>4, <2>5 DEF RowsOf
  <1> QED BY <1>1, <1>8, <1>9 DEF Settles

\* Values that were replaced are noted in the archive, and the rows of a context are made
\* one, by a feeder that is the only one at work (PostgresStorer.save, post_msg_process).
LEMMA AloneFollows == Spec => ReplacedIsArchived /\ Consolidated
  <1>1. Init => Counted
    BY InitLone DEF Init, Counted
  <1>2. Counted /\ [Next]_vars => Counted'
    BY StepCounted
  <1>3. Counted /\ [Next]_vars => \A f \in Feeders : EndsAlone(f) => Settles(f)
    <2> SUFFICES ASSUME Counted, [Next]_vars, NEW f \in Feeders, EndsAlone(f) PROVE Settles(f)
      OBVIOUS
    <2>1. StoreInv'
      BY StepSound DEF Counted, LoneInv
    <2>2. PostMsgProcess(f)
      BY EndsByItself
    <2> QED BY <2>1, <2>2, SettlesAlone
  <1>4. Counted /\ [Next]_vars =>
        [\A f \in Feeders :
          EndsAlone(f) /\ meta \cap {"ignore_data", "merge_context", "merge_data"} = {} =>
          \A q \in table, r \in table' :
              (q.id = r.id /\ Once(f_[f].body, q.ctx) /\ Replaces(r, q))
                 => \E h \in archive' : h.id = r.id /\ h.updated = f_[f].time]_vars
    BY <1>3 DEF Settles, Keeps
  <1>5. Counted /\ [Next]_vars =>
        [\A f \in Feeders :
          EndsAlone(f) /\ meta \cap {"just_insert", "update_recent"} = {} =>
          \A c \in Contexts \ Elsewhere :
              Once(f_[f].body, c) => \E r \in table' : RowsOf(table', c) = {r}]_vars
    BY <1>3 DEF Settles, Joins
  <1> QED BY <1>1, <1>2, <1>4, <1>5, PTL DEF Spec, ReplacedIsArchived, Consolidated
=============================================================================
