----------------------------- MODULE DriverProofs -----------------------------
(***************************************************************************)
(* Theorems about the driver of a poll, for any drivers and collections    *)
(* that meet Maker!DriverAssumption, any order of the groups and of the    *)
(* keys: what it says of a device is what its definitions say, and each    *)
(* row is published once.                                                  *)
(***************************************************************************)
EXTENDS Polling, FiniteSetTheorems, WellFoundedInduction, TLAPS

-----------------------------------------------------------------------------
(* The maps of a definition, one by one *)

\* A set of naturals has a smallest one.
LEMMA SmallestNat ==
    ASSUME NEW S \in SUBSET Nat, S # {}
    PROVE  \E d \in S : \A x \in S : d <= x
  <1>1. PICK d \in S : \A x \in S : <<x, d>> \notin OpToRel(<, Nat)
    BY Zenon, NatLessThanWellFounded, WFMin
  <1>2. \A x \in S : ~(x < d)
    BY Zenon, <1>1 DEF OpToRel
  <1> QED BY <1>2

\* And a largest, if it is bounded.
LEMMA Largest ==
    ASSUME NEW n \in Nat, NEW S \in SUBSET (1 .. n), S # {}
    PROVE  Maker!Max(S) \in S /\ \A x \in S : Maker!Max(S) >= x
  <1> DEFINE T == {n - x : x \in S}
  <1>1. T \in SUBSET Nat /\ T # {}
    <2>1. \A x \in S : n - x \in Nat
      OBVIOUS
    <2> QED BY Zenon, <2>1
  <1>2. PICK d \in T : \A x \in T : d <= x
    BY <1>1, SmallestNat
  <1>3. PICK m \in S : d = n - m
    BY <1>2
  <1>4. \A x \in S : m >= x
    BY <1>2, <1>3
  <1> QED BY <1>3, <1>4 DEF Maker!Max

\* Of an interval, it is its end.
LEMMA LargestOfInterval == ASSUME NEW k \in Nat \ {0} PROVE Maker!Max(1 .. k) = k
  <1>1. 1 .. k \in SUBSET (1 .. k) /\ k \in 1 .. k
    OBVIOUS
  <1>2. Maker!Max(1 .. k) \in 1 .. k /\ Maker!Max(1 .. k) >= k
    BY <1>1, Largest
  <1> QED BY <1>2

\* What the fold over maps has, on each set of positions.
MapsBody(g, s, r, dest, p) == IF p = {} THEN s ELSE Maker!Applied(dest, g[p \ {Maker!Max(p)}], r[Maker!Max(p)])
MapsOn(g, s, r, dest, n) == g = [p \in SUBSET (1 .. n) |-> MapsBody(g, s, r, dest, p)]

\* There is such a function, and what it has for all positions is what all maps make.
LEMMA MapsUnfold ==
    ASSUME NEW s, NEW r, NEW dest, NEW n \in Nat, DOMAIN r = 1 .. n
    PROVE  \E g : /\ MapsOn(g, s, r, dest, n)
                  /\ Maker!AppliedAll(dest, s, r) = g[1 .. n]
  <1> DEFINE Has(k) == \E g : MapsOn(g, s, r, dest, k)
  <1>1. Has(0)
    <2> DEFINE g == [p \in SUBSET (1 .. 0) |-> s]
    <2>1. g = [p \in SUBSET (1 .. 0) |-> MapsBody(g, s, r, dest, p)]
      BY DEF MapsBody
    <2> QED BY <2>1 DEF MapsOn
  <1>2. ASSUME NEW k \in 0 .. n, k # n, Has(k) PROVE Has(k + 1)
    <2>1. PICK g : g = [p \in SUBSET (1 .. k) |-> MapsBody(g, s, r, dest, p)]
      BY <1>2 DEF MapsOn
    <2> DEFINE h == [p \in SUBSET (1 .. k + 1) |->
                        IF k + 1 \in p THEN Maker!Applied(dest, g[p \ {k + 1}], r[k + 1]) ELSE g[p]]
    <2>2. ASSUME NEW p \in SUBSET (1 .. k + 1) PROVE h[p] = MapsBody(h, s, r, dest, p)
      <3>1. CASE k + 1 \in p
        <4>1. Maker!Max(p) = k + 1
          <5>1. k + 1 \in Nat /\ p # {}
            BY <3>1
          <5>2. Maker!Max(p) \in p /\ \A x \in p : Maker!Max(p) >= x
            BY <5>1, Largest
          <5>3. Maker!Max(p) \in 1 .. k + 1 /\ Maker!Max(p) >= k + 1
            BY <3>1, <5>2
          <5> QED BY <5>3
        <4>2. h[p] = Maker!Applied(dest, g[p \ {k + 1}], r[k + 1])
          BY <3>1
        <4>3. p \ {k + 1} \in SUBSET (1 .. k + 1) /\ k + 1 \notin p \ {k + 1}
          OBVIOUS
        <4>4. h[p \ {k + 1}] = g[p \ {k + 1}]
          BY <4>3
        <4> HIDE DEF h
        <4> QED BY <3>1, <4>1, <4>2, <4>4 DEF MapsBody
      <3>2. CASE k + 1 \notin p
        <4>1. p \in SUBSET (1 .. k)
          BY <3>2
        <4>2. h[p] = MapsBody(g, s, r, dest, p)
          BY <2>1, <3>2, <4>1
        <4>3. CASE p = {}
          BY <4>2, <4>3 DEF MapsBody
        <4>4. CASE p # {}
          <5>1. p \ {Maker!Max(p)} \in SUBSET (1 .. k + 1) /\ k + 1 \notin p \ {Maker!Max(p)}
            BY <3>2
          <5>2. h[p \ {Maker!Max(p)}] = g[p \ {Maker!Max(p)}]
            BY <5>1
          <5> HIDE DEF h
          <5> QED BY <4>2, <4>4, <5>2 DEF MapsBody
        <4> QED BY <4>3, <4>4
      <3> QED BY <3>1, <3>2
    <2>3. h = [p \in SUBSET (1 .. k + 1) |-> MapsBody(h, s, r, dest, p)]
      <3> HIDE DEF MapsBody
      <3> QED BY <2>2
    <2> QED BY <2>3 DEF MapsOn
  <1>3. Has(n)
    <2> HIDE DEF Has
    <2> SUFFICES ASSUME ~Has(n) PROVE FALSE
      OBVIOUS
    <2> DEFINE Bad == {k \in 0 .. n : ~Has(k)}
    <2>1. n \in Bad /\ Bad \in SUBSET Nat
      OBVIOUS
    <2>2. PICK d \in Bad : \A x \in Bad : d <= x
      BY <2>1, SmallestNat
    <2>3. d # 0 /\ d \in 0 .. n
      BY <1>1, <2>2
    <2>4. d - 1 \in 0 .. n /\ d - 1 \notin Bad /\ d - 1 # n
      BY <2>2, <2>3
    <2>5. Has((d - 1) + 1)
      BY <1>2, <2>4
    <2> QED BY <2>2, <2>3, <2>5
  <1> DEFINE it == CHOOSE g : g = [p \in SUBSET (1 .. n) |-> MapsBody(g, s, r, dest, p)]
  <1>4. it = [p \in SUBSET (1 .. n) |-> MapsBody(it, s, r, dest, p)]
    BY <1>3 DEF MapsOn
  <1>5. Maker!AppliedAll(dest, s, r) = it[1 .. n]
    BY DEF Maker!AppliedAll, Maker!FoldLeft, Maker!MapThenFoldSet, MapsBody
  <1> QED BY <1>4, <1>5 DEF MapsOn

\* The outcomes of the first k of the maps.
Stages(h, s, r, dest, n) ==
    h[0] = s /\ \A k \in 0 .. n : k # n => h[k + 1] = Maker!Applied(dest, h[k], r[k + 1])

\* So the maps are applied one by one.
LEMMA MapsOneByOne ==
    ASSUME NEW s, NEW r, NEW dest, NEW n \in Nat, DOMAIN r = 1 .. n
    PROVE  \E h : /\ Stages(h, s, r, dest, n)
                  /\ Maker!AppliedAll(dest, s, r) = h[n]
  <1>1. PICK g : /\ MapsOn(g, s, r, dest, n)
                 /\ Maker!AppliedAll(dest, s, r) = g[1 .. n]
    BY MapsUnfold
  <1> DEFINE h == [k \in 0 .. n |-> g[1 .. k]]
  <1>2. h[0] = s
    <2>1. 1 .. 0 = {} /\ {} \in SUBSET (1 .. n)
      OBVIOUS
    <2>2. g[1 .. 0] = s
      BY <1>1, <2>1 DEF MapsOn, MapsBody
    <2> QED BY <2>2
  <1>3. ASSUME NEW k \in 0 .. n, k # n PROVE h[k + 1] = Maker!Applied(dest, h[k], r[k + 1])
    <2>1. /\ k + 1 \in Nat \ {0}
          /\ 1 .. k + 1 \in SUBSET (1 .. n) /\ 1 .. k + 1 # {}
      BY <1>3
    <2>2. Maker!Max(1 .. k + 1) = k + 1
      BY <2>1, LargestOfInterval
    <2>3. (1 .. k + 1) \ {k + 1} = 1 .. k
      BY <2>1
    <2>4. g[1 .. k + 1] = Maker!Applied(dest, g[1 .. k], r[k + 1])
      BY <1>1, <2>1, <2>2, <2>3 DEF MapsBody, MapsOn
    <2> QED BY <1>3, <2>4
  <1>4. h[n] = g[1 .. n]
    OBVIOUS
  <1> HIDE DEF h
  <1> QED BY <1>1, <1>2, <1>3, <1>4 DEF Stages

-----------------------------------------------------------------------------
(* What a map does with a field depends on the field and on what it looks up *)

\* Two collections have the same column of that name, or none.
Agree(c1, c2, x) ==
    /\ x \in DOMAIN c1 <=> x \in DOMAIN c2
    /\ x \in DOMAIN c1 => c1[x] = c2[x]

\* A map of a well-made driver.
Simple(m) == m.by \in {"key_sub", "value_sub", "regexp", "function", "filter"}

\* Outcomes that differ in what they do not concern only.
Alike(o1, o2, x) == o1.stop = o2.stop /\ Agree(o1.data, o2.data, x)

\* An outcome that leaves all other columns alone.
OnlyField(o, c, dest) ==
    /\ DOMAIN c \subseteq DOMAIN o.data
    /\ \A x : x # dest => Agree(o.data, c, x)

\* A map that lacks the column it looks up.
Fails(m, c) ==
    \/ Maker!LooksUp(m) /\ m.ref \notin DOMAIN c
    \/ m.by = "value_sub" /\ m.from = "parent_ref" /\ m.ref \notin DOMAIN Parent

\* A collection with a new column: the column,
LEMMA WithThere == ASSUME NEW c, NEW x, NEW y PROVE Maker!With(c, x, y)[x] = y
  BY DEF Maker!With

\* the names there are,
LEMMA WithNames ==
    ASSUME NEW c, NEW x, NEW y PROVE DOMAIN Maker!With(c, x, y) = DOMAIN c \cup {x}
  BY DEF Maker!With

\* the other columns,
LEMMA WithElse ==
    ASSUME NEW c, NEW x, NEW y, NEW z, z # x
    PROVE  Agree(Maker!With(c, x, y), c, z)
  BY DEF Maker!With, Agree

\* and the same column in two collections.
LEMMA WithLike ==
    ASSUME NEW c1, NEW c2, NEW x, NEW y
    PROVE  Agree(Maker!With(c1, x, y), Maker!With(c2, x, y), x)
  BY DEF Maker!With, Agree

\* Two outcomes of a map that goes on, with the same new column.
LEMMA GoesAlike ==
    ASSUME NEW c1, NEW c2, NEW dest, NEW y
    PROVE  /\ Alike(Maker!Goes(Maker!With(c1, dest, y)), Maker!Goes(Maker!With(c2, dest, y)), dest)
           /\ OnlyField(Maker!Goes(Maker!With(c1, dest, y)), c1, dest)
           /\ Maker!Goes(Maker!With(c1, dest, y)).stop = "no"
  <1>1. \A c : Maker!Goes(c).data = c /\ Maker!Goes(c).stop = "no"
    BY DEF Maker!Goes
  <1>2. Agree(Maker!With(c1, dest, y), Maker!With(c2, dest, y), dest)
    BY WithLike
  <1>3. DOMAIN c1 \subseteq DOMAIN Maker!With(c1, dest, y)
    <2>1. DOMAIN Maker!With(c1, dest, y) = DOMAIN c1 \cup {dest}
      BY WithNames
    <2> QED BY <2>1
  <1>4. \A z : z # dest => Agree(Maker!With(c1, dest, y), c1, z)
    BY WithElse
  <1> QED BY <1>1, <1>2, <1>3, <1>4 DEF Alike, OnlyField

\* Two outcomes of one that does not.
LEMMA StopsAlike ==
    ASSUME NEW c1, NEW c2, NEW dest, NEW why, Agree(c1, c2, dest)
    PROVE  /\ Alike(Maker!Stops(c1, why), Maker!Stops(c2, why), dest)
           /\ OnlyField(Maker!Stops(c1, why), c1, dest)
           /\ Maker!Stops(c1, why).stop = why
  BY DEF Alike, OnlyField, Maker!Stops, Agree

\* What is said of a map, from here on.
MapSound(m, dest, c1, c2) ==
    \A o1 \in Maker!MapOutcomes(m, dest, c1) :
        /\ \E o2 \in Maker!MapOutcomes(m, dest, c2) : Alike(o1, o2, dest)
        /\ OnlyField(o1, c1, dest)
        /\ o1.stop = Maker!RefNotFound => Fails(m, c1)

\* A map that only looks at one column, and perhaps looks up another, makes the same of it
\* in two collections that have these columns, and touches no other.
LEMMA MapLocal ==
    ASSUME NEW m, Simple(m), NEW dest, NEW c1, NEW c2,
           Agree(c1, c2, dest), Maker!LooksUp(m) => Agree(c1, c2, m.ref)
    PROVE  MapSound(m, dest, c1, c2)
  <1> SUFFICES ASSUME NEW o1 \in Maker!MapOutcomes(m, dest, c1)
               PROVE  /\ \E o2 \in Maker!MapOutcomes(m, dest, c2) : Alike(o1, o2, dest)
                      /\ OnlyField(o1, c1, dest)
                      /\ o1.stop = Maker!RefNotFound => Fails(m, c1)
    BY DEF MapSound
  <1>0. "no" # Maker!RefNotFound /\ Maker!KeyError # Maker!RefNotFound
    BY DEF Maker!RefNotFound, Maker!KeyError
  <1>1. CASE m.by = "key_sub"
    <2>1. \A c : Maker!MapOutcomes(m, dest, c) = Maker!KeySub(m, dest, c)
      BY <1>1 DEF Maker!MapOutcomes
    <2>2. Agree(c1, c2, m.ref)
      BY <1>1 DEF Maker!LooksUp
    <2>3. CASE m.ref \notin DOMAIN c1
      <3>1. o1 = Maker!Stops(c1, Maker!RefNotFound) /\ Maker!Stops(c2, Maker!RefNotFound) \in Maker!MapOutcomes(m, dest, c2)
        BY <2>1, <2>2, <2>3 DEF Maker!KeySub, Agree
      <3> QED BY <3>1, <1>1, <2>3, StopsAlike DEF Fails, Maker!LooksUp
    <2>4. CASE m.ref \in DOMAIN c1 /\ dest \notin DOMAIN c1
      <3>1. o1 = Maker!Stops(c1, Maker!KeyError) /\ Maker!Stops(c2, Maker!KeyError) \in Maker!MapOutcomes(m, dest, c2)
        BY <2>1, <2>2, <2>4 DEF Maker!KeySub, Agree
      <3> QED BY <3>1, <1>0, StopsAlike
    <2>5. CASE m.ref \in DOMAIN c1 /\ dest \in DOMAIN c1
      <3>1. PICK c \in Maker!Regrouped(c1[dest], c1[m.ref]) : o1 = Maker!Goes(Maker!With(c1, dest, c))
        BY <2>1, <2>5 DEF Maker!KeySub
      <3>2. c1[dest] = c2[dest] /\ c1[m.ref] = c2[m.ref]
            /\ m.ref \in DOMAIN c2 /\ dest \in DOMAIN c2
        BY <2>2, <2>5 DEF Agree
      <3>3. Maker!Goes(Maker!With(c2, dest, c)) \in Maker!MapOutcomes(m, dest, c2)
        BY <2>1, <3>1, <3>2 DEF Maker!KeySub
      <3> QED BY <3>1, <3>3, <1>0, GoesAlike
    <2> QED BY <2>3, <2>4, <2>5
  <1>2. CASE m.by = "value_sub"
    <2> DEFINE There(c) == CASE m.from = "ref" -> c [] m.from = "parent_ref" -> Parent
                             [] OTHER -> [x \in {m.ref} |-> m.to]
    <2>1. \A c : Maker!MapOutcomes(m, dest, c) =
                    IF m.from # "dict" /\ m.ref \notin DOMAIN There(c)
                    THEN {Maker!Stops(c, Maker!RefNotFound)}
                    ELSE IF dest \notin DOMAIN c THEN {Maker!Stops(c, Maker!KeyError)}
                    ELSE {Maker!Goes(Maker!With(c, dest, Maker!Mapped(c[dest], There(c)[m.ref], m.other)))}
      BY <1>2 DEF Maker!MapOutcomes, Maker!ValueSub
    <2>2. Agree(There(c1), There(c2), m.ref)
      BY <1>2 DEF Maker!LooksUp, Agree
    <2>3. m.from # "dict" /\ m.ref \notin DOMAIN There(c1) => Fails(m, c1)
      BY <1>2 DEF Fails, Maker!LooksUp
    <2>4. m.from = "dict" => m.ref \in DOMAIN There(c1)
      OBVIOUS
    <2> HIDE DEF There
    <2>5. CASE m.from # "dict" /\ m.ref \notin DOMAIN There(c1)
      <3>1. o1 = Maker!Stops(c1, Maker!RefNotFound) /\ Maker!Stops(c2, Maker!RefNotFound) \in Maker!MapOutcomes(m, dest, c2)
        BY <2>1, <2>2, <2>5 DEF Agree
      <3> QED BY <3>1, <2>3, <2>5, StopsAlike
    <2>6. CASE m.ref \in DOMAIN There(c1) /\ dest \notin DOMAIN c1
      <3>1. o1 = Maker!Stops(c1, Maker!KeyError) /\ Maker!Stops(c2, Maker!KeyError) \in Maker!MapOutcomes(m, dest, c2)
        BY <2>1, <2>2, <2>6 DEF Agree
      <3> QED BY <3>1, <1>0, StopsAlike
    <2>7. CASE m.ref \in DOMAIN There(c1) /\ dest \in DOMAIN c1
      <3> DEFINE c == Maker!Mapped(c1[dest], There(c1)[m.ref], m.other)
      <3>1. o1 = Maker!Goes(Maker!With(c1, dest, c))
        BY <2>1, <2>7
      <3>2. c1[dest] = c2[dest] /\ There(c1)[m.ref] = There(c2)[m.ref]
            /\ m.ref \in DOMAIN There(c2) /\ dest \in DOMAIN c2
        BY <2>2, <2>7 DEF Agree
      <3>3. Maker!Goes(Maker!With(c2, dest, c)) \in Maker!MapOutcomes(m, dest, c2)
        BY <2>1, <3>2
      <3> HIDE DEF c
      <3> QED BY <3>1, <3>3, <1>0, GoesAlike
    <2> QED BY <2>4, <2>5, <2>6, <2>7
  <1>3. CASE m.by \in {"regexp", "function"}
    <2>1. \A c : Maker!MapOutcomes(m, dest, c) = Maker!Keys(m, dest, c)
      BY <1>3 DEF Maker!MapOutcomes
    <2>2. CASE dest \notin DOMAIN c1
      <3>1. o1 = Maker!Stops(c1, Maker!KeyError) /\ Maker!Stops(c2, Maker!KeyError) \in Maker!MapOutcomes(m, dest, c2)
        BY <2>1, <2>2 DEF Maker!Keys, Agree
      <3> QED BY <3>1, <1>0, StopsAlike
    <2>3. CASE dest \in DOMAIN c1
      <3>1. PICK c \in Maker!Renamed(c1[dest], m.to, m.by = "function") : o1 = Maker!Goes(Maker!With(c1, dest, c))
        BY <2>1, <2>3 DEF Maker!Keys
      <3>2. c1[dest] = c2[dest] /\ dest \in DOMAIN c2
        BY <2>3 DEF Agree
      <3>3. Maker!Goes(Maker!With(c2, dest, c)) \in Maker!MapOutcomes(m, dest, c2)
        BY <2>1, <3>1, <3>2 DEF Maker!Keys
      <3> QED BY <3>1, <3>3, <1>0, GoesAlike
    <2> QED BY <2>2, <2>3
  <1>4. CASE m.by = "filter"
    <2>1. \A c : Maker!MapOutcomes(m, dest, c) = Maker!Filter(m, dest, c)
      BY <1>4 DEF Maker!MapOutcomes
    <2>2. CASE dest \notin DOMAIN c1
      <3>1. o1 = Maker!Stops(c1, Maker!KeyError) /\ Maker!Stops(c2, Maker!KeyError) \in Maker!MapOutcomes(m, dest, c2)
        BY <2>1, <2>2 DEF Maker!Filter, Agree
      <3> QED BY <3>1, <1>0, StopsAlike
    <2>3. CASE dest \in DOMAIN c1
      <3> DEFINE of(f, k) == IF m.on = "key" THEN k ELSE f[k]
                 kept(f) == Maker!Restrict(f, {k \in DOMAIN f : Maker!At(m.keep, of(f, k), m.other)})
      <3>1. c1[dest] = c2[dest] /\ dest \in DOMAIN c2
        BY <2>3 DEF Agree
      <3>2. /\ Maker!Filter(m, dest, c1) = {Maker!Goes(Maker!With(c1, dest, kept(c1[dest])))}
            /\ Maker!Filter(m, dest, c2) = {Maker!Goes(Maker!With(c2, dest, kept(c2[dest])))}
        BY <2>3, <3>1 DEF Maker!Filter
      <3> DEFINE c == kept(c1[dest])
      <3>3. o1 = Maker!Goes(Maker!With(c1, dest, c)) /\ Maker!Goes(Maker!With(c2, dest, c)) \in Maker!MapOutcomes(m, dest, c2)
        BY <2>1, <3>1, <3>2
      <3> HIDE DEF c
      <3> QED BY <3>3, <1>0, GoesAlike
    <2> QED BY <2>2, <2>3
  <1> QED BY <1>1, <1>2, <1>3, <1>4 DEF Simple

-----------------------------------------------------------------------------
(* And so does a definition *)

\* A definition whose maps are simple, and none of which looks up its own ref.
SimpleDef(d) ==
    /\ d.maps \in Seq(Maker!Range(d.maps))
    /\ \A m \in Maker!Range(d.maps) : Simple(m)
    /\ d.ref \notin Maker!MapRefs(d)

\* The columns that a definition reads.
Wants(d) == {d.field} \cup ({d.ref} \ {None}) \cup Maker!MapRefs(d)

Wanting(d, c1, c2) == \A x \in Wants(d) : Agree(c1, c2, x)

\* Where the maps of a definition begin.
Begin(d, c) == IF d.ref = None THEN c ELSE Maker!FieldRename(d, c)

\* So does the renaming that comes before the maps.
LEMMA BeginLocal ==
    ASSUME NEW d, SimpleDef(d), NEW c1, NEW c2, Wanting(d, c1, c2)
    PROVE  /\ \A x \in {d.field} \cup Maker!MapRefs(d) : Agree(Begin(d, c1), Begin(d, c2), x)
           /\ \A x : x \notin {d.field, d.ref} => Agree(Begin(d, c1), c1, x)
           /\ d.ref = None => Begin(d, c1) = c1
           /\ d.ref # None /\ d.ref # d.field => d.ref \notin DOMAIN Begin(d, c1)
           /\ \A x \in Maker!MapRefs(d) : x \notin DOMAIN Begin(d, c1) => x \notin DOMAIN c1
  <1>1. CASE d.ref = None
    BY <1>1 DEF Begin, Wanting, Wants, Agree
  <1>2. CASE d.ref # None /\ (d.ref = d.field \/ d.ref \notin DOMAIN c1)
    <2>1. d.ref = d.field \/ d.ref \notin DOMAIN c2
      BY <1>2 DEF Wanting, Wants, Agree
    <2>2. Begin(d, c1) = c1 /\ Begin(d, c2) = c2
      BY <1>2, <2>1 DEF Begin, Maker!FieldRename
    <2> QED BY <1>2, <2>2 DEF Wanting, Wants, Agree
  <1>3. CASE d.ref # None /\ d.ref # d.field /\ d.ref \in DOMAIN c1
    <2>1. d.ref \in DOMAIN c2 /\ c1[d.ref] = c2[d.ref]
      BY <1>3 DEF Wanting, Wants, Agree
    <2> DEFINE w1 == Maker!Without(c1, {d.ref})
               w2 == Maker!Without(c2, {d.ref})
    <2>2. /\ Begin(d, c1) = Maker!With(w1, d.field, c1[d.ref])
          /\ Begin(d, c2) = Maker!With(w2, d.field, c1[d.ref])
      BY <1>3, <2>1 DEF Begin, Maker!FieldRename
    <2>3. /\ DOMAIN w1 = DOMAIN c1 \ {d.ref} /\ \A x : x # d.ref => Agree(w1, c1, x)
          /\ DOMAIN w2 = DOMAIN c2 \ {d.ref} /\ \A x : x # d.ref => Agree(w2, c2, x)
      BY DEF Maker!Without, Maker!Restrict, Agree
    <2> HIDE DEF w1, w2
    <2>4. Agree(Begin(d, c1), Begin(d, c2), d.field)
      BY <2>2, WithLike
    <2>5. ASSUME NEW x, x # d.field, x # d.ref
          PROVE  Agree(Begin(d, c1), c1, x) /\ Agree(Begin(d, c2), c2, x)
      <3>1. Agree(Begin(d, c1), w1, x) /\ Agree(Begin(d, c2), w2, x)
        BY <2>2, <2>5, WithElse
      <3> QED BY <2>3, <2>5, <3>1 DEF Agree
    <2>6. ASSUME NEW x \in Maker!MapRefs(d), x # d.field PROVE Agree(Begin(d, c1), Begin(d, c2), x)
      <3>1. x # d.ref /\ Agree(c1, c2, x)
        BY <2>6 DEF SimpleDef, Wanting, Wants
      <3> QED BY <2>5, <2>6, <3>1 DEF Agree
    <2>7. DOMAIN Begin(d, c1) = (DOMAIN c1 \ {d.ref}) \cup {d.field}
      <3>1. DOMAIN Maker!With(w1, d.field, c1[d.ref]) = DOMAIN w1 \cup {d.field}
        BY WithNames
      <3> QED BY <2>2, <2>3, <3>1
    <2> QED BY <1>3, <2>4, <2>5, <2>6, <2>7 DEF SimpleDef
  <1> QED BY <1>1, <1>2, <1>3

\* What a definition says of an outcome, its field done up to some map.
Said(d, o, b) ==
    /\ OnlyField(o, b, d.field)
    /\ o.stop = Maker!RefNotFound => \E m \in Maker!Range(d.maps) : Fails(m, b)

\* One map more.
LEMMA AppliedLocal ==
    ASSUME NEW d, SimpleDef(d), NEW b1, NEW b2, NEW s1, NEW s2, NEW m \in Maker!Range(d.maps),
           \A x \in {d.field} \cup Maker!MapRefs(d) : Agree(b1, b2, x),
           \A o \in s2 : OnlyField(o, b2, d.field),
           \A o1 \in s1 : Said(d, o1, b1) /\ \E o2 \in s2 : Alike(o1, o2, d.field)
    PROVE  \A o1 \in Maker!Applied(d.field, s1, m) :
                Said(d, o1, b1) /\ \E o2 \in Maker!Applied(d.field, s2, m) : Alike(o1, o2, d.field)
  <1> SUFFICES ASSUME NEW o1 \in Maker!Applied(d.field, s1, m)
               PROVE  Said(d, o1, b1)
                      /\ \E o2 \in Maker!Applied(d.field, s2, m) : Alike(o1, o2, d.field)
    OBVIOUS
  <1>1. PICK p1 \in s1 : o1 \in IF p1.stop = "no" THEN Maker!MapOutcomes(m, d.field, p1.data) ELSE {p1}
    BY DEF Maker!Applied
  <1>2. PICK p2 \in s2 : Alike(p1, p2, d.field)
    OBVIOUS
  <1>3. Said(d, p1, b1) /\ OnlyField(p2, b2, d.field)
    OBVIOUS
  <1>4. CASE p1.stop # "no"
    <2>1. o1 = p1 /\ p2.stop # "no"
      BY <1>1, <1>2, <1>4 DEF Alike
    <2>2. p2 \in Maker!Applied(d.field, s2, m)
      BY <2>1 DEF Maker!Applied
    <2> QED BY <1>2, <1>3, <2>1, <2>2
  <1>5. CASE p1.stop = "no"
    <2>1. o1 \in Maker!MapOutcomes(m, d.field, p1.data) /\ p2.stop = "no"
      BY <1>1, <1>2, <1>5 DEF Alike
    <2>2. Simple(m) /\ (Maker!LooksUp(m) => m.ref \in Maker!MapRefs(d))
      BY DEF SimpleDef, Maker!MapRefs
    <2>3. Agree(p1.data, p2.data, d.field)
      BY <1>2 DEF Alike
    <2>4. Maker!LooksUp(m) => Agree(p1.data, p2.data, m.ref)
      <3> SUFFICES ASSUME Maker!LooksUp(m), m.ref # d.field PROVE Agree(p1.data, p2.data, m.ref)
        BY <2>3
      <3>1. Agree(b1, b2, m.ref) /\ Agree(p1.data, b1, m.ref) /\ Agree(p2.data, b2, m.ref)
        BY <1>3, <2>2 DEF Said, OnlyField
      <3> QED BY <3>1 DEF Agree
    <2>5. MapSound(m, d.field, p1.data, p2.data)
      BY <2>2, <2>3, <2>4, MapLocal
    <2>6. PICK o2 \in Maker!MapOutcomes(m, d.field, p2.data) : Alike(o1, o2, d.field)
      BY <2>1, <2>5 DEF MapSound
    <2>7. o2 \in Maker!Applied(d.field, s2, m)
      BY <2>1, <2>6 DEF Maker!Applied
    <2>8. OnlyField(o1, p1.data, d.field) /\ OnlyField(p1, b1, d.field)
      BY <1>3, <2>1, <2>5 DEF MapSound, Said
    <2>9. OnlyField(o1, b1, d.field)
      BY <2>8 DEF OnlyField, Agree
    <2>10. o1.stop = Maker!RefNotFound => Fails(m, b1)
      <3>1. Fails(m, p1.data) => Fails(m, b1)
        BY <2>8 DEF Fails, OnlyField
      <3> QED BY <2>1, <2>5, <3>1 DEF MapSound
    <2> QED BY <2>6, <2>7, <2>9, <2>10 DEF Said
  <1> QED BY <1>4, <1>5

\* What a definition needs is not there.
LacksIn(d, c) ==
    \/ d.required /\ d.ref # None /\ ~Maker!Present(d.ref, c)
    \/ \E m \in Maker!Range(d.maps) : Fails(m, c)

\* And so does a whole definition: what it makes, and whether it is refused, depends on what
\* it wants.
LEMMA RemapLocal ==
    ASSUME NEW d, SimpleDef(d), NEW c1, NEW c2, Wanting(d, c1, c2)
    PROVE  \A o1 \in Maker!Remap(d, c1) :
              /\ \E o2 \in Maker!Remap(d, c2) : Alike(o1, o2, d.field)
              /\ o1.stop = Maker!RefNotFound => LacksIn(d, c1)
              /\ o1.stop # Maker!RefNotFound => OnlyField(o1, Begin(d, c1), d.field)
  <1> SUFFICES ASSUME NEW o1 \in Maker!Remap(d, c1)
               PROVE  /\ \E o2 \in Maker!Remap(d, c2) : Alike(o1, o2, d.field)
                      /\ o1.stop = Maker!RefNotFound => LacksIn(d, c1)
                      /\ o1.stop # Maker!RefNotFound => OnlyField(o1, Begin(d, c1), d.field)
    OBVIOUS
  <1> DEFINE Absent(c) == d.ref # None /\ ~Maker!Present(d.ref, c) /\ d.required
             b1 == Begin(d, c1)
             b2 == Begin(d, c2)
             n == Len(d.maps)
             first1 == {Maker!Goes(b1)}
             first2 == {Maker!Goes(b2)}
  <1>1. Absent(c1) <=> Absent(c2)
    BY DEF Wanting, Wants, Agree, Maker!Present
  <1>2. Agree(c1, c2, d.field)
    BY DEF Wanting, Wants
  <1>3. CASE Absent(c1)
    <2>1. o1 = Maker!Stops(c1, Maker!RefNotFound) /\ Maker!Stops(c2, Maker!RefNotFound) \in Maker!Remap(d, c2)
      BY <1>1, <1>3 DEF Maker!Remap
    <2>2. Alike(o1, Maker!Stops(c2, Maker!RefNotFound), d.field) /\ o1.stop = Maker!RefNotFound
      BY <1>2, <2>1, StopsAlike
    <2> QED BY <1>3, <2>1, <2>2 DEF LacksIn
  <1>4. CASE ~Absent(c1)
    <2>1. n \in Nat /\ DOMAIN d.maps = 1 .. n
      BY DEF SimpleDef
    <2>2. /\ o1 \in Maker!AppliedAll(d.field, first1, d.maps)
          /\ Maker!Remap(d, c2) = Maker!AppliedAll(d.field, first2, d.maps)
      BY <1>1, <1>4 DEF Maker!Remap, Begin
    <2> HIDE DEF b1, b2, n, first1, first2
    <2>3. PICK h1 : /\ Stages(h1, first1, d.maps, d.field, n)
                    /\ Maker!AppliedAll(d.field, first1, d.maps) = h1[n]
      BY <2>1, MapsOneByOne
    <2>4. PICK h2 : /\ Stages(h2, first2, d.maps, d.field, n)
                    /\ Maker!AppliedAll(d.field, first2, d.maps) = h2[n]
      BY <2>1, MapsOneByOne
    <2>5. \A x \in {d.field} \cup Maker!MapRefs(d) : Agree(b1, b2, x)
      BY BeginLocal DEF b1, b2
    <2> DEFINE Has(k) == /\ \A o \in h2[k] : Said(d, o, b2)
                         /\ \A o \in h1[k] : Said(d, o, b1)
                                             /\ \E p \in h2[k] : Alike(o, p, d.field)
    <2>6. Has(0)
      <3>1. h1[0] = {Maker!Goes(b1)} /\ h2[0] = {Maker!Goes(b2)}
        BY <2>3, <2>4 DEF Stages, first1, first2
      <3>2. Said(d, Maker!Goes(b1), b1) /\ Said(d, Maker!Goes(b2), b2) /\ Alike(Maker!Goes(b1), Maker!Goes(b2), d.field)
        BY <2>5 DEF Said, OnlyField, Agree, Alike, Maker!Goes, Maker!RefNotFound
      <3> QED BY <3>1, <3>2
    <2>7. ASSUME NEW k \in 0 .. n, k # n, Has(k) PROVE Has(k + 1)
      <3>1. /\ h1[k + 1] = Maker!Applied(d.field, h1[k], d.maps[k + 1])
            /\ h2[k + 1] = Maker!Applied(d.field, h2[k], d.maps[k + 1])
        BY <2>3, <2>4, <2>7 DEF Stages
      <3>2. d.maps[k + 1] \in Maker!Range(d.maps)
        BY <2>1, <2>7 DEF Maker!Range
      <3>3. \A o \in h2[k] : OnlyField(o, b2, d.field) /\ Alike(o, o, d.field)
        BY <2>7 DEF Said, Alike, Agree
      <3>4. \A x \in {d.field} \cup Maker!MapRefs(d) : Agree(b2, b2, x)
        BY DEF Agree
      <3> DEFINE s1 == h1[k]
                 s2 == h2[k]
                 m == d.maps[k + 1]
      <3>5. /\ \A o \in s1 : Said(d, o, b1) /\ \E p \in s2 : Alike(o, p, d.field)
            /\ \A o \in s2 : Said(d, o, b2) /\ \E p \in s2 : Alike(o, p, d.field)
            /\ \A o \in s2 : OnlyField(o, b2, d.field)
            /\ m \in Maker!Range(d.maps)
        BY <2>7, <3>2, <3>3
      <3> HIDE DEF s1, s2, m, Has
      <3>6. \A o \in Maker!Applied(d.field, s1, m) :
                Said(d, o, b1) /\ \E p \in Maker!Applied(d.field, s2, m) : Alike(o, p, d.field)
        BY <2>5, <3>5, AppliedLocal
      <3>7. \A o \in Maker!Applied(d.field, s2, m) :
                Said(d, o, b2) /\ \E p \in Maker!Applied(d.field, s2, m) : Alike(o, p, d.field)
        BY <3>4, <3>5, AppliedLocal
      <3> QED BY <3>1, <3>6, <3>7 DEF Has, s1, s2, m
    <2>8. Has(n)
      <3> HIDE DEF Has
      <3> SUFFICES ASSUME ~Has(n) PROVE FALSE
        OBVIOUS
      <3> DEFINE Bad == {k \in 0 .. n : ~Has(k)}
      <3>1. n \in Bad /\ Bad \in SUBSET Nat
        BY <2>1
      <3>2. PICK k \in Bad : \A x \in Bad : k <= x
        BY <3>1, SmallestNat
      <3>3. k # 0 /\ k \in 0 .. n
        BY <2>6, <3>2
      <3>4. k - 1 \in 0 .. n /\ k - 1 \notin Bad /\ k - 1 # n
        BY <2>1, <3>2, <3>3
      <3>5. Has((k - 1) + 1)
        BY <2>7, <3>4
      <3> QED BY <3>2, <3>3, <3>5
    <2>9. Said(d, o1, b1) /\ \E o2 \in Maker!Remap(d, c2) : Alike(o1, o2, d.field)
      BY <2>2, <2>3, <2>4, <2>8
    <2>10. ASSUME NEW m \in Maker!Range(d.maps), Fails(m, b1) PROVE Fails(m, c1)
      <3>1. Maker!LooksUp(m) => m.ref \in Maker!MapRefs(d)
        BY DEF Maker!MapRefs
      <3>2. \A x \in Maker!MapRefs(d) : x \notin DOMAIN b1 => x \notin DOMAIN c1
        BY BeginLocal DEF b1
      <3> QED BY <2>10, <3>1, <3>2 DEF Fails
    <2> QED BY <2>9, <2>10 DEF Said, LacksIn, b1
  <1> QED BY <1>3, <1>4

-----------------------------------------------------------------------------
(* The inductive invariant *)

\* The definitions of a group that are done, and those to come.
DoneOf(g) ==
    IF g \in groups THEN 0
    ELSE IF g = group THEN Len(Maker!Defs(g)) - Len(defs)
    ELSE Len(Maker!Defs(g))

Pending(g) == {i \in DOMAIN Maker!Defs(g) : i > DoneOf(g)}
Users(g, r) == {i \in Pending(g) : Maker!Defs(g)[i].ref = r}

\* What the variables range over: the definitions left are the last of the group at work.
DriverType ==
    /\ driver \in Makers
    /\ collected \in Collections
    /\ groups \subseteq Maker!Groups
    /\ defs \in Seq(Maker!AllDefs)
    /\ defs # <<>> =>
          /\ group \in Maker!Groups \ groups
          /\ Len(defs) <= Len(Maker!Defs(group))
          /\ \A j \in 1 .. Len(defs) : defs[j] = Maker!Defs(group)[Len(Maker!Defs(group)) - Len(defs) + j]

\* What the definitions to come read is what was collected.
Fresh ==
    \A g \in Maker!Groups : \A i \in Pending(g) : Wanting(Maker!Defs(g)[i], data, collected)

\* A field that is done is what its definition makes of what was collected.
Alone(d) ==
    \E o \in Maker!Remap(d, collected) : o.stop # Maker!RefNotFound /\ Agree(data, o.data, d.field)

MadeAlone == \A g \in Maker!Groups : \A i \in DOMAIN Maker!Defs(g) \ Pending(g) : Alone(Maker!Defs(g)[i])

\* The refs of the groups begun are counted: the uses to come.
Counted ==
    /\ DOMAIN count = UNION {Maker!Refs(g) : g \in Maker!Groups \ groups}
    /\ \A g \in Maker!Groups \ groups : \A r \in Maker!Refs(g) : count[r] = Cardinality(Users(g, r))

\* The copy of a ref with several uses is what was collected.
Copied ==
    \A r \in DOMAIN count : count[r] > 1 =>
        r \in DOMAIN collected /\ r \in DOMAIN copies /\ copies[r] = collected[r]

\* What holds while definitions are worked on.
Remapping == stage = "processing" => Fresh /\ MadeAlone /\ Counted /\ Copied

\* When rows are gone through, no definition is to come.
Posting == stage = "posting" => defs = <<>>

\* All of it.
MakerInv == DriverType /\ Posting /\ (Maker!WellMade => Remapping) /\ Maker!FieldsSound

-----------------------------------------------------------------------------
(* What is known of definitions *)

\* The definitions of a group are a sequence.
LEMMA DefsKnown ==
    ASSUME driver \in Makers, NEW g \in Maker!Groups
    PROVE  /\ Maker!Defs(g) \in Seq(Maker!Range(Maker!Defs(g))) /\ Len(Maker!Defs(g)) \in Nat
           /\ DOMAIN Maker!Defs(g) = 1 .. Len(Maker!Defs(g))
           /\ \A i \in DOMAIN Maker!Defs(g) : Maker!Defs(g)[i] \in Maker!Range(Maker!Defs(g))
           /\ Maker!Range(Maker!Defs(g)) \subseteq Maker!AllDefs
           /\ \A d \in Maker!Range(Maker!Defs(g)) : \E i \in DOMAIN Maker!Defs(g) : d = Maker!Defs(g)[i]
  <1>1. Maker!Defs(g) \in Seq(Maker!Range(Maker!Defs(g)))
    BY PollingAssumption DEF PollingAssumption, Maker!DriverAssumption, Maker!Defs, Maker!Groups
  <1>2. Maker!Range(Maker!Defs(g)) \subseteq Maker!AllDefs
    BY DEF Maker!AllDefs
  <1>3. /\ \A i \in DOMAIN Maker!Defs(g) : Maker!Defs(g)[i] \in Maker!Range(Maker!Defs(g))
        /\ \A d \in Maker!Range(Maker!Defs(g)) : \E i \in DOMAIN Maker!Defs(g) : d = Maker!Defs(g)[i]
    BY DEF Maker!Range
  <1> QED BY <1>1, <1>2, <1>3

\* Those of a well-made driver have simple maps.
LEMMA DefsSimple ==
    ASSUME driver \in Makers, Maker!WellMade, NEW g \in Maker!Groups,
           NEW d \in Maker!Range(Maker!Defs(g))
    PROVE  SimpleDef(d)
  <1>1. d \in Maker!AllDefs
    BY DefsKnown
  <1>2. d.maps \in Seq(Maker!Range(d.maps))
    BY PollingAssumption DEF PollingAssumption, Maker!DriverAssumption, Maker!Defs, Maker!Groups
  <1>3. /\ \A m \in Maker!Range(d.maps) : m.by \in {"key_sub", "value_sub", "regexp", "function", "filter"}
        /\ d.ref \notin Maker!MapRefs(d)
    BY <1>1 DEF Maker!WellMade
  <1> QED BY <1>2, <1>3 DEF SimpleDef, Simple

\* Two definitions of a well-made driver.
LEMMA DefsApart ==
    ASSUME driver \in Makers, Maker!WellMade, NEW g \in Maker!Groups, NEW h \in Maker!Groups,
           NEW i \in DOMAIN Maker!Defs(g), NEW j \in DOMAIN Maker!Defs(h), <<g, i>> # <<h, j>>
    PROVE  /\ Maker!Defs(g)[i].field # Maker!Defs(h)[j].field
           /\ Maker!Defs(g)[i].field # Maker!Defs(h)[j].ref
           /\ Maker!Defs(g)[i].field \notin Maker!MapRefs(Maker!Defs(h)[j])
           /\ Maker!Defs(g)[i].ref = Maker!Defs(h)[j].ref /\ Maker!Defs(g)[i].ref # None => g = h
           /\ Maker!Defs(g)[i].ref \notin Maker!MapRefs(Maker!Defs(h)[j])
  <1>1. Maker!Defs(g)[i] \in Maker!AllDefs /\ Maker!Defs(h)[j] \in Maker!AllDefs
    BY DefsKnown
  <1>2. Maker!Defs(g)[i].ref \notin Maker!MapRefs(Maker!Defs(h)[j])
    BY <1>1 DEF Maker!WellMade
  <1>3. /\ Maker!Defs(g)[i].field \notin ({Maker!Defs(h)[j].field, Maker!Defs(h)[j].ref} \cup Maker!MapRefs(Maker!Defs(h)[j]))
        /\ Maker!Defs(g)[i].ref = Maker!Defs(h)[j].ref /\ Maker!Defs(g)[i].ref # None => g = h
    BY DEF Maker!WellMade
  <1> QED BY <1>2, <1>3

\* The refs of a group are those of its definitions.
LEMMA RefsKnown ==
    ASSUME driver \in Makers, NEW g \in Maker!Groups, NEW r
    PROVE  r \in Maker!Refs(g) <=> r # None /\ \E i \in DOMAIN Maker!Defs(g) : Maker!Defs(g)[i].ref = r
  BY DefsKnown DEF Maker!Refs

\* A variable is used in one group.
LEMMA RefsApart ==
    ASSUME driver \in Makers, Maker!WellMade, NEW g \in Maker!Groups, NEW h \in Maker!Groups,
           NEW r \in Maker!Refs(g),
           r \in Maker!Refs(h)
    PROVE  g = h
  <1>1. PICK i \in DOMAIN Maker!Defs(g) : Maker!Defs(g)[i].ref = r
    BY RefsKnown
  <1>2. PICK j \in DOMAIN Maker!Defs(h) : Maker!Defs(h)[j].ref = r
    BY RefsKnown
  <1>3. r # None
    BY RefsKnown
  <1> QED BY <1>1, <1>2, <1>3, DefsApart

\* The cardinality of Driver is that of the theorems about finite sets.
LEMMA SameCardinality == ASSUME NEW S PROVE Maker!Cardinality(S) = Cardinality(S)
  BY Zenon DEF Maker!Cardinality, Cardinality

\* The uses of a ref, counted so,
LEMMA UsesCounts ==
    \A g, r : Maker!Uses(g, r) =
                Cardinality({i \in DOMAIN Maker!Defs(g) : Maker!Defs(g)[i].ref = r})
  BY SameCardinality DEF Maker!Uses

\* by naturals.
LEMMA UsersFinite ==
    ASSUME driver \in Makers, NEW g \in Maker!Groups, NEW S \in SUBSET DOMAIN Maker!Defs(g)
    PROVE  IsFiniteSet(S) /\ Cardinality(S) \in Nat
  <1>1. IsFiniteSet(DOMAIN Maker!Defs(g))
    BY DefsKnown, FS_Interval
  <1> QED BY <1>1, FS_Subset, FS_CardinalityType

\* At first all definitions are to come, and read what was collected.
LEMMA InitMakes == Maker!Init => MakerInv
  <1> SUFFICES ASSUME Maker!Init PROVE MakerInv
    OBVIOUS
  <1>1. DriverType
    BY DEF Maker!Init, DriverType
  <1>2. stage = "processing" /\ groups = Maker!Groups /\ data = collected /\ count = <<>>
    BY DEF Maker!Init
  <1>3. Fresh
    BY <1>2 DEF Fresh, Wanting, Agree
  <1>4. MadeAlone
    <2>1. \A g \in Maker!Groups : \A i \in DOMAIN Maker!Defs(g) : i \in Pending(g)
      BY <1>1, <1>2, DefsKnown DEF Pending, DoneOf, DriverType
    <2> QED BY <2>1 DEF MadeAlone
  <1>5. Counted /\ Copied
    BY <1>2 DEF Counted, Copied
  <1>6. Maker!FieldsSound
    BY <1>2 DEF Maker!FieldsSound, Maker!AsIfAlone, Maker!RefusedForAReason, Maker!RefNotFound
  <1> QED BY <1>1, <1>2, <1>3, <1>4, <1>5, <1>6 DEF MakerInv, Posting, Remapping

-----------------------------------------------------------------------------
(* A group is begun *)

\* A group is begun: its definitions are to come,
LEMMA StartType == DriverType /\ Maker!StartGroup => DriverType'
  <1> SUFFICES ASSUME DriverType, Maker!StartGroup PROVE DriverType'
    OBVIOUS
  <1>1. /\ UNCHANGED <<driver, collected>>
        /\ defs = <<>>
        /\ \/ UNCHANGED <<groups, group, defs>>
           \/ \E g \in groups : groups' = groups \ {g} /\ group' = g /\ defs' = Maker!Defs(g)
    BY DEF Maker!StartGroup
  <1>2. Maker!Groups' = Maker!Groups /\ Maker!AllDefs' = Maker!AllDefs /\ \A g : Maker!Defs(g)' = Maker!Defs(g)
    BY <1>1 DEF Maker!Groups, Maker!AllDefs, Maker!Defs
  <1>3. CASE UNCHANGED <<groups, group, defs>>
    BY <1>1, <1>2, <1>3 DEF DriverType
  <1>4. ASSUME NEW g \in groups, groups' = groups \ {g}, group' = g, defs' = Maker!Defs(g)
        PROVE  DriverType'
    <2>1. g \in Maker!Groups /\ driver \in Makers
      BY <1>4 DEF DriverType
    <2>2. Maker!Defs(g) \in Seq(Maker!AllDefs) /\ Len(Maker!Defs(g)) \in Nat
      BY <2>1, DefsKnown
    <2> QED BY <1>1, <1>2, <1>4, <2>1, <2>2 DEF DriverType
  <1> QED BY <1>1, <1>3, <1>4

\* Before a group is begun, the definitions of those begun are done.
LEMMA NonePending ==
    ASSUME DriverType, defs = <<>>
    PROVE  \A h \in Maker!Groups \ groups : Pending(h) = {}
  <1> TAKE h \in Maker!Groups \ groups
  <1>1. DoneOf(h) = Len(Maker!Defs(h)) /\ DOMAIN Maker!Defs(h) = 1 .. Len(Maker!Defs(h)) /\ Len(Maker!Defs(h)) \in Nat
    BY DefsKnown DEF DoneOf, DriverType
  <1> QED BY <1>1 DEF Pending

\* its refs are counted, and those used more than once are copied.
LEMMA StartMakes ==
    DriverType /\ (Maker!WellMade => Remapping) /\ Maker!FieldsSound /\ Maker!StartGroup
       => MakerInv'
  <1> SUFFICES ASSUME DriverType, Maker!WellMade => Remapping, Maker!FieldsSound, Maker!StartGroup PROVE MakerInv'
    OBVIOUS
  <1>1. stage = "processing" /\ defs = <<>> /\ UNCHANGED <<driver, collected, data, table>>
    BY DEF Maker!StartGroup
  <1>2. /\ Maker!Groups' = Maker!Groups
        /\ \A g : Maker!Defs(g)' = Maker!Defs(g) /\ Maker!Refs(g)' = Maker!Refs(g)
        /\ Maker!WellMade' = Maker!WellMade
    BY <1>1 DEF Maker!Groups, Maker!AllDefs, Maker!Defs, Maker!Refs, Maker!WellMade
  <1>3. DriverType'
    BY StartType
  <1>4. PICK g \in groups :
          /\ count' = [r \in DOMAIN count \cup Maker!Refs(g) |-> Maker!At(count, r, 0) + Maker!Uses(g, r)]
          /\ IF Maker!Shared \subseteq DOMAIN data
             THEN /\ copies' = [r \in DOMAIN copies \cup Maker!Shared |->
                                  IF r \in Maker!Shared THEN data[r] ELSE copies[r]]
                  /\ groups' = groups \ {g} /\ group' = g /\ defs' = Maker!Defs(g)
                  /\ UNCHANGED stage
             ELSE stage' = Maker!RefNotFound /\ UNCHANGED <<copies, groups, group, defs>>
    BY DEF Maker!StartGroup
  <1>5. g \in Maker!Groups /\ driver \in Makers
    BY DEF DriverType
  <1>6. CASE ~Maker!WellMade
    <2>1. stage' # "posting"
      BY <1>1, <1>4 DEF Maker!RefNotFound
    <2> QED BY <1>2, <1>3, <1>6, <2>1 DEF MakerInv, Posting, Maker!FieldsSound,
         Maker!AsIfAlone, Maker!RefusedForAReason
  <1>7. CASE Maker!WellMade
    <2>1. Fresh /\ MadeAlone /\ Counted /\ Copied
      BY <1>1, <1>7 DEF Remapping
    <2>2. \A h \in Maker!Groups \ groups : Pending(h) = {}
      BY <1>1, NonePending
    <2>3. \A r : Maker!At(count, r, 0) = 0
      <3> SUFFICES ASSUME NEW r \in DOMAIN count PROVE count[r] = 0
        BY DEF Maker!At
      <3>1. PICK h \in Maker!Groups \ groups : r \in Maker!Refs(h)
        BY <2>1 DEF Counted
      <3>2. Users(h, r) = {}
        BY <2>2 DEF Users
      <3> QED BY <2>1, <3>1, <3>2, FS_EmptySet DEF Counted
    <2>4. \A r : Maker!Uses(g, r) \in Nat
      BY <1>5, UsersFinite, UsesCounts
    <2>5. /\ DOMAIN count' = DOMAIN count \cup Maker!Refs(g)
          /\ \A r \in DOMAIN count' : count'[r] = Maker!Uses(g, r)
      BY <1>4, <2>3, <2>4
    <2>6. ASSUME NEW r, r \notin Maker!Refs(g), r # None PROVE Maker!Uses(g, r) = 0
      <3>1. {i \in DOMAIN Maker!Defs(g) : Maker!Defs(g)[i].ref = r} = {}
        BY <1>5, <2>6, RefsKnown
      <3> QED BY <3>1, FS_EmptySet, UsesCounts
    <2>7. ASSUME NEW r \in Maker!Shared
          PROVE  /\ r \in Maker!Refs(g) /\ Maker!Uses(g, r) > 1
                 /\ Agree(data, collected, r)
                 /\ \E i \in DOMAIN Maker!Defs(g) : Maker!Defs(g)[i].ref = r /\ r # None
      <3>1. r \in DOMAIN count' /\ Maker!Uses(g, r) > 1
        BY <2>5 DEF Maker!Shared
      <3>2. r # None
        BY <1>5, <2>1, <2>5, <3>1, RefsKnown DEF Counted, DriverType
      <3>3. r \in Maker!Refs(g)
        BY <2>6, <3>1, <3>2
      <3>4. PICK i \in DOMAIN Maker!Defs(g) : Maker!Defs(g)[i].ref = r
        BY <1>5, <3>3, RefsKnown
      <3>5. i \in Pending(g)
        BY <1>5, DefsKnown DEF Pending, DoneOf
      <3>6. r \in Wants(Maker!Defs(g)[i])
        BY <3>2, <3>4 DEF Wants
      <3>7. Agree(data, collected, r)
        BY <1>5, <2>1, <3>5, <3>6 DEF Fresh, Wanting
      <3> QED BY <3>1, <3>2, <3>3, <3>4, <3>7
    <2>8. CASE ~(Maker!Shared \subseteq DOMAIN data)
      <3>1. stage' = Maker!RefNotFound
        BY <1>4, <2>8
      <3>2. PICK r \in Maker!Shared : r \notin DOMAIN data
        BY <2>8
      <3>3. PICK i \in DOMAIN Maker!Defs(g) : Maker!Defs(g)[i].ref = r /\ r # None
        BY <2>7
      <3>4. r \notin DOMAIN collected /\ Maker!Uses(g, r) > 1
        BY <2>7, <3>2 DEF Agree
      <3>5. Maker!Defs(g)[i] \in Maker!Range(Maker!Defs(g))
        BY <1>5, DefsKnown
      <3>6. Maker!RefusedForAReason'
        <4>1. Maker!Uses(g, r)' = Maker!Uses(g, r)
          BY <1>2 DEF Maker!Uses
        <4> QED BY <1>1, <1>2, <1>5, <3>3, <3>4, <3>5, <4>1 DEF Maker!RefusedForAReason
      <3>7. stage' # "processing" /\ stage' # "posting"
        BY <3>1 DEF Maker!RefNotFound
      <3> QED BY <1>3, <3>6, <3>7 DEF MakerInv, Posting, Remapping, Maker!FieldsSound,
           Maker!AsIfAlone
    <2>9. CASE Maker!Shared \subseteq DOMAIN data
      <3>1. /\ copies' = [r \in DOMAIN copies \cup Maker!Shared |->
                                  IF r \in Maker!Shared THEN data[r] ELSE copies[r]]
            /\ groups' = groups \ {g} /\ group' = g /\ defs' = Maker!Defs(g)
            /\ stage' = "processing"
        BY <1>1, <1>4, <2>9
      <3>2. Pending(g)' = DOMAIN Maker!Defs(g)
        <4>1. DOMAIN Maker!Defs(g) = 1 .. Len(Maker!Defs(g)) /\ Len(Maker!Defs(g)) \in Nat
          BY <1>5, DefsKnown
        <4>2. DoneOf(g)' = 0
          BY <1>2, <3>1, <4>1 DEF DoneOf
        <4>3. Maker!Defs(g)' = Maker!Defs(g)
          BY <1>2
        <4> QED BY <4>1, <4>2, <4>3 DEF Pending
      <3>3. Pending(g) = DOMAIN Maker!Defs(g)
        <4>1. DOMAIN Maker!Defs(g) = 1 .. Len(Maker!Defs(g)) /\ Len(Maker!Defs(g)) \in Nat
          BY <1>5, DefsKnown
        <4>2. DoneOf(g) = 0
          BY DEF DoneOf
        <4> QED BY <4>1, <4>2 DEF Pending
      <3>4. \A h \in Maker!Groups : Pending(h)' = Pending(h)
        <4> SUFFICES ASSUME NEW h \in Maker!Groups, h # g PROVE Pending(h)' = Pending(h)
          BY <3>2, <3>3
        <4>1. CASE h \in groups
          BY <1>2, <3>1, <4>1 DEF Pending, DoneOf
        <4>2. CASE h \notin groups
          <5>1. DoneOf(h)' = Len(Maker!Defs(h)) /\ DOMAIN Maker!Defs(h) = 1 .. Len(Maker!Defs(h))
                /\ Len(Maker!Defs(h)) \in Nat
            BY <1>2, <1>5, <3>1, <4>2, DefsKnown DEF DoneOf
          <5>2. Pending(h)' = {}
            BY <1>2, <5>1 DEF Pending
          <5> QED BY <2>2, <4>2, <5>2
        <4> QED BY <4>1, <4>2
      <3>5. Fresh'
        BY <1>1, <1>2, <2>1, <3>4 DEF Fresh, Wanting
      <3>6. MadeAlone'
        <4>1. \A d : Alone(d) => Alone(d)'
          BY <1>1 DEF Alone
        <4> QED BY <1>2, <2>1, <3>4, <4>1 DEF MadeAlone
      <3>7. Counted'
        <4>1. Maker!Groups \ groups' = (Maker!Groups \ groups) \cup {g}
          BY <1>5, <3>1
        <4>2. (DOMAIN count)' = UNION {Maker!Refs(h) : h \in Maker!Groups \ groups'}
          BY <2>1, <2>5, <4>1 DEF Counted
        <4>3. ASSUME NEW h \in (Maker!Groups \ groups) \cup {g}, NEW r \in Maker!Refs(h)
              PROVE  count'[r] = Cardinality(Users(h, r)')
          <5>1. r \in DOMAIN count' /\ count'[r] = Maker!Uses(g, r)
            BY <2>5, <4>2, <4>1, <4>3
          <5>2. CASE h = g
            <6>1. Users(g, r)' = {i \in DOMAIN Maker!Defs(g) : Maker!Defs(g)[i].ref = r}
              BY <1>2, <3>2 DEF Users
            <6> QED BY <5>1, <5>2, <6>1, UsesCounts
          <5>3. CASE h # g
            <6>1. h \in Maker!Groups /\ h \notin groups
              BY <5>3
            <6>2. Users(h, r)' = {}
              BY <1>2, <2>2, <3>4, <6>1 DEF Users
            <6>3. r \notin Maker!Refs(g) /\ r # None
              BY <1>5, <1>7, <5>3, <6>1, RefsApart, RefsKnown
            <6> QED BY <2>6, <5>1, <6>2, <6>3, FS_EmptySet
          <5> QED BY <5>2, <5>3
        <4> QED BY <1>2, <4>1, <4>2, <4>3 DEF Counted
      <3>8. Copied'
        <4> SUFFICES ASSUME NEW r \in DOMAIN count', count'[r] > 1
                     PROVE  r \in DOMAIN collected /\ r \in DOMAIN copies'
                            /\ copies'[r] = collected[r]
          BY <1>1 DEF Copied
        <4>1. r \in Maker!Shared
          BY DEF Maker!Shared
        <4>2. r \in DOMAIN data /\ Agree(data, collected, r)
          BY <2>7, <2>9, <4>1
        <4> QED BY <3>1, <4>1, <4>2 DEF Agree
      <3>9. Maker!FieldsSound'
        BY <3>1 DEF Maker!FieldsSound, Maker!AsIfAlone, Maker!RefusedForAReason,
             Maker!RefNotFound
      <3> QED BY <1>3, <3>1, <3>5, <3>6, <3>7, <3>8, <3>9 DEF MakerInv, Posting, Remapping
    <2> QED BY <2>8, <2>9
  <1> QED BY <1>6, <1>7

-----------------------------------------------------------------------------
(* A definition is done *)

\* The definition at work, and its place in its group.
Current == Head(defs)
Here == DoneOf(group) + 1

\* It is the first that is pending.
LEMMA CurrentIs ==
    ASSUME DriverType, defs # <<>>
    PROVE  /\ group \in Maker!Groups \ groups
           /\ DoneOf(group) = Len(Maker!Defs(group)) - Len(defs)
           /\ Here \in Pending(group) /\ Here \in DOMAIN Maker!Defs(group)
           /\ Maker!Defs(group)[Here] = Current
           /\ Current \in Maker!Range(Maker!Defs(group))
  <1>1. /\ group \in Maker!Groups \ groups /\ driver \in Makers
        /\ defs \in Seq(Maker!AllDefs) /\ Len(defs) <= Len(Maker!Defs(group))
        /\ \A j \in 1 .. Len(defs) : defs[j] = Maker!Defs(group)[Len(Maker!Defs(group)) - Len(defs) + j]
    BY DEF DriverType
  <1>2. /\ Len(defs) \in Nat \ {0} /\ Head(defs) = defs[1]
    BY <1>1
  <1>3. Len(Maker!Defs(group)) \in Nat /\ DOMAIN Maker!Defs(group) = 1 .. Len(Maker!Defs(group))
    BY <1>1, DefsKnown
  <1>4. DoneOf(group) = Len(Maker!Defs(group)) - Len(defs)
    BY <1>1 DEF DoneOf
  <1>5. Here \in DOMAIN Maker!Defs(group) /\ Here > DoneOf(group)
    BY <1>1, <1>2, <1>3, <1>4 DEF Here
  <1>6. Maker!Defs(group)[Here] = Current
    BY <1>1, <1>2, <1>4 DEF Here, Current
  <1>7. Current \in Maker!Range(Maker!Defs(group))
    BY <1>5, <1>6 DEF Maker!Range
  <1> QED BY <1>1, <1>4, <1>5, <1>6, <1>7 DEF Pending

\* One definition less is to come.
LEMMA DefineDone ==
    ASSUME DriverType, defs # <<>>, defs' = Tail(defs), UNCHANGED <<driver, collected, groups,
           group>>
    PROVE  /\ DriverType'
           /\ Pending(group)' = Pending(group) \ {Here}
           /\ \A h \in Maker!Groups : h # group => Pending(h)' = Pending(h)
  <1>1. /\ group \in Maker!Groups \ groups /\ driver \in Makers
        /\ defs \in Seq(Maker!AllDefs) /\ Len(defs) <= Len(Maker!Defs(group))
        /\ \A j \in 1 .. Len(defs) : defs[j] = Maker!Defs(group)[Len(Maker!Defs(group)) - Len(defs) + j]
    BY CurrentIs DEF DriverType
  <1>2. Maker!Groups' = Maker!Groups /\ Maker!AllDefs' = Maker!AllDefs /\ \A g : Maker!Defs(g)' = Maker!Defs(g)
    BY DEF Maker!Groups, Maker!AllDefs, Maker!Defs
  <1>3. /\ defs' \in Seq(Maker!AllDefs) /\ Len(defs') = Len(defs) - 1 /\ Len(defs) \in Nat
        /\ \A j \in 1 .. Len(defs') : defs'[j] = defs[j + 1]
    BY <1>1
  <1>4. Len(Maker!Defs(group)) \in Nat /\ DOMAIN Maker!Defs(group) = 1 .. Len(Maker!Defs(group))
    BY <1>1, DefsKnown
  <1>5. Len(Maker!Defs(group))' = Len(Maker!Defs(group)) /\ Maker!Defs(group)' = Maker!Defs(group)
    BY <1>2
  <1>6. DriverType'
    <2>1. ASSUME NEW j \in 1 .. Len(defs')
          PROVE  defs'[j] = Maker!Defs(group)[Len(Maker!Defs(group)) - Len(defs') + j]
      <3>1. j + 1 \in 1 .. Len(defs)
        BY <1>3
      <3>2. defs'[j] = Maker!Defs(group)[Len(Maker!Defs(group)) - Len(defs) + (j + 1)]
        BY <1>1, <1>3, <3>1
      <3>3. Len(Maker!Defs(group)) - Len(defs) + (j + 1) = Len(Maker!Defs(group)) - Len(defs') + j
        BY <1>3, <1>4
      <3> QED BY <3>2, <3>3
    <2>2. Len(defs') <= Len(Maker!Defs(group))
      BY <1>1, <1>3, <1>4
    <2> QED BY <1>1, <1>2, <1>3, <1>5, <2>1, <2>2 DEF DriverType
  <1>7. Pending(group)' = Pending(group) \ {Here}
    <2>1. DoneOf(group) = Len(Maker!Defs(group)) - Len(defs)
      BY CurrentIs
    <2>2. DoneOf(group)' = Len(Maker!Defs(group)) - Len(defs')
      BY <1>1, <1>5 DEF DoneOf
    <2>3. DoneOf(group)' = DoneOf(group) + 1 /\ DoneOf(group) \in Int
      BY <1>3, <1>4, <2>1, <2>2
    <2>4. \A i \in DOMAIN Maker!Defs(group) : i > DoneOf(group) + 1 <=> i > DoneOf(group) /\ i # Here
      BY <1>4, <2>3 DEF Here
    <2> QED BY <1>5, <2>3, <2>4 DEF Pending
  <1>8. \A h \in Maker!Groups : h # group => Pending(h)' = Pending(h)
    BY <1>2 DEF Pending, DoneOf
  <1> QED BY <1>6, <1>7, <1>8

\* A ref is restored while others are to use it.
LEMMA SharedIs ==
    ASSUME DriverType, defs # <<>>, Counted, Current.ref # None
    PROVE  /\ Current.ref \in Maker!Refs(group) /\ Current.ref \in DOMAIN count
           /\ count[Current.ref] \in Nat \ {0}
           /\ count[Current.ref] - 1 = Cardinality(Users(group, Current.ref) \ {Here})
           /\ count[Current.ref] > 1 <=>
                  \E j \in Pending(group) : j # Here /\ Maker!Defs(group)[j].ref = Current.ref
  <1> DEFINE U == Users(group, Current.ref)
  <1>1. /\ group \in Maker!Groups \ groups /\ driver \in Makers
        /\ Here \in Pending(group) /\ Here \in DOMAIN Maker!Defs(group)
        /\ Maker!Defs(group)[Here] = Current
    BY CurrentIs DEF DriverType
  <1>2. Current.ref \in Maker!Refs(group)
    BY <1>1, RefsKnown
  <1>3. Current.ref \in DOMAIN count /\ count[Current.ref] = Cardinality(U)
    BY <1>1, <1>2 DEF Counted
  <1>4. U \in SUBSET DOMAIN Maker!Defs(group) /\ Here \in U
    BY <1>1 DEF Users, Pending
  <1> HIDE DEF U
  <1>5. IsFiniteSet(U) /\ Cardinality(U) \in Nat
    BY <1>1, <1>4, UsersFinite
  <1>6. /\ IsFiniteSet(U \ {Here}) /\ Cardinality(U \ {Here}) = Cardinality(U) - 1
        /\ Cardinality(U \ {Here}) \in Nat
    BY <1>4, <1>5, FS_RemoveElement, FS_CardinalityType
  <1>7. Cardinality(U \ {Here}) = 0 <=> U \ {Here} = {}
    BY <1>6, FS_EmptySet
  <1>8. U \ {Here} # {} <=>
            \E j \in Pending(group) : j # Here /\ Maker!Defs(group)[j].ref = Current.ref
    BY DEF U, Users
  <1> QED BY <1>2, <1>3, <1>5, <1>6, <1>7, <1>8 DEF U

\* The columns after a definition, name by name.
LEMMA DefineData ==
    ASSUME DriverType, defs # <<>>, Maker!WellMade, Fresh, Counted, Copied,
           NEW o \in Maker!Remap(Current, data), o.stop # Maker!RefNotFound,
           data' = Maker!Restored(Current.ref, o.data)
    PROVE  /\ Agree(data', o.data, Current.field)
           /\ \A x : x # Current.field /\ (Current.ref = None \/ x # Current.ref)
                        => Agree(data', data, x)
           /\ Current.ref # None /\ count[Current.ref] > 1
                => Agree(data', collected, Current.ref)
  <1> DEFINE d == Current
  <1>1. /\ group \in Maker!Groups /\ driver \in Makers /\ group \in Maker!Groups \ groups
        /\ Here \in Pending(group) /\ Here \in DOMAIN Maker!Defs(group)
        /\ Maker!Defs(group)[Here] = d /\ d \in Maker!Range(Maker!Defs(group))
    BY CurrentIs DEF DriverType
  <1>2. SimpleDef(d)
    BY <1>1, DefsSimple
  <1>3. Wanting(d, data, collected)
    BY <1>1 DEF Fresh
  <1> HIDE DEF d
  <1>4. /\ \A x : x \notin {d.field, d.ref} => Agree(Begin(d, data), data, x)
        /\ d.ref = None => Begin(d, data) = data
        /\ d.ref # None /\ d.ref # d.field => d.ref \notin DOMAIN Begin(d, data)
    BY <1>2, <1>3, BeginLocal
  <1>5. OnlyField(o, Begin(d, data), d.field)
    BY <1>2, <1>3, RemapLocal DEF d
  <1>6. ASSUME NEW x, x # d.field, d.ref = None \/ x # d.ref
        PROVE  Agree(o.data, data, x)
    <2>1. Agree(o.data, Begin(d, data), x)
      BY <1>5, <1>6 DEF OnlyField
    <2>2. Agree(Begin(d, data), data, x)
      <3>1. CASE d.ref = None
        BY <1>4, <3>1 DEF Agree
      <3>2. CASE d.ref # None
        BY <1>4, <1>6, <3>2
      <3> QED BY <3>1, <3>2
    <2> QED BY <2>1, <2>2 DEF Agree
  <1>7. CASE d.ref = None \/ count[d.ref] <= 1
    <2>1. data' = o.data
      BY <1>7 DEF Maker!Restored, d
    <2>2. d.ref # None => ~(count[d.ref] > 1)
      BY <1>7, SharedIs DEF d
    <2> QED BY <1>6, <2>1, <2>2 DEF Agree, d
  <1>8. CASE d.ref # None /\ count[d.ref] > 1
    <2>1. PICK j \in Pending(group) : j # Here /\ Maker!Defs(group)[j].ref = d.ref
      BY <1>8, SharedIs DEF d
    <2>2. d.field # d.ref
      <3>1. j \in DOMAIN Maker!Defs(group)
        BY DEF Pending
      <3>2. Maker!Defs(group)[Here].field # Maker!Defs(group)[j].ref
        BY <1>1, <2>1, <3>1, DefsApart
      <3> QED BY <1>1, <2>1, <3>2
    <2>3. d.ref \notin DOMAIN o.data
      BY <1>4, <1>5, <1>8, <2>2 DEF OnlyField, Agree
    <2>4. d.ref \in DOMAIN count /\ ~(count[d.ref] <= 1)
      BY <1>8, SharedIs DEF d
    <2>5. d.ref \in DOMAIN collected /\ copies[d.ref] = collected[d.ref]
      BY <1>8, <2>4 DEF Copied
    <2>6. collected[d.ref] = [k \in DOMAIN collected[d.ref] |-> collected[d.ref][k]]
      BY <2>5, PollingAssumption DEF PollingAssumption, Maker!DriverAssumption, DriverType
    <2> DEFINE c == [k \in DOMAIN copies[d.ref] \cup DOMAIN Maker!At(o.data, d.ref, <<>>) |->
                        Maker!At(copies[d.ref], k, Maker!At(Maker!At(o.data, d.ref, <<>>), k, None))]
    <2>7. data' = Maker!With(o.data, d.ref, c)
      BY <1>8, <2>4 DEF Maker!Restored, d
    <2>8. c = collected[d.ref]
      <3>1. Maker!At(o.data, d.ref, <<>>) = <<>>
        BY <2>3 DEF Maker!At
      <3>2. DOMAIN c = DOMAIN collected[d.ref]
        BY <2>5, <3>1
      <3>3. \A k \in DOMAIN c : c[k] = collected[d.ref][k]
        BY <2>5, <3>1, <3>2 DEF Maker!At
      <3>4. c = [k \in DOMAIN c |-> c[k]]
        OBVIOUS
      <3> HIDE DEF c
      <3> QED BY <2>6, <3>2, <3>3, <3>4
    <2> HIDE DEF c
    <2>9. \A x : x # d.ref => Agree(data', o.data, x)
      BY <2>7, WithElse
    <2>10. Agree(data', collected, d.ref)
      <3>1. data'[d.ref] = c /\ d.ref \in DOMAIN data'
        <4>1. DOMAIN Maker!With(o.data, d.ref, c) = DOMAIN o.data \cup {d.ref}
          BY WithNames
        <4>2. Maker!With(o.data, d.ref, c)[d.ref] = c
          BY WithThere
        <4> QED BY <2>7, <4>1, <4>2
      <3> QED BY <2>5, <2>8, <3>1 DEF Agree
    <2> QED BY <1>6, <1>8, <2>2, <2>9, <2>10 DEF Agree, d
  <1>9. d.ref # None => count[d.ref] \in Nat
    BY SharedIs DEF d
  <1> QED BY <1>7, <1>8, <1>9

\* What the definitions to come read was not touched, or was put back.
LEMMA DefineFresh ==
    ASSUME DriverType, defs # <<>>, Maker!WellMade, Fresh, Counted, Copied,
           NEW o \in Maker!Remap(Current, data), o.stop # Maker!RefNotFound,
           data' = Maker!Restored(Current.ref, o.data), defs' = Tail(defs),
           UNCHANGED <<driver, collected, groups, group>>
    PROVE  Fresh'
  <1> DEFINE d == Current
  <1>1. /\ group \in Maker!Groups /\ driver \in Makers
        /\ Here \in DOMAIN Maker!Defs(group) /\ Maker!Defs(group)[Here] = d
    BY CurrentIs DEF DriverType
  <1>2. Maker!Groups' = Maker!Groups /\ \A g : Maker!Defs(g)' = Maker!Defs(g)
    BY DEF Maker!Groups, Maker!Defs
  <1>3. SUFFICES ASSUME NEW h \in Maker!Groups, NEW j \in Pending(h)', NEW x \in Wants(Maker!Defs(h)[j])
                 PROVE  Agree(data', collected, x)
    BY <1>2 DEF Fresh, Wanting
  <1> DEFINE e == Maker!Defs(h)[j]
  <1>4. j \in Pending(h) /\ j \in DOMAIN Maker!Defs(h) /\ <<group, Here>> # <<h, j>>
        /\ (h = group => j # Here)
    <2>1. j \in Pending(h) /\ (h = group => j # Here)
      BY <1>3, DefineDone
    <2> QED BY <2>1 DEF Pending
  <1>5. Agree(data, collected, x)
    BY <1>3, <1>4 DEF Fresh, Wanting
  <1>6. /\ d.field \notin Wants(e) /\ e.field # d.ref /\ d.ref \notin Maker!MapRefs(e)
        /\ (d.ref = e.ref /\ d.ref # None => h = group)
    <2>1. /\ d.field # e.field /\ d.field # e.ref /\ d.field \notin Maker!MapRefs(e)
          /\ d.ref = e.ref /\ d.ref # None => group = h
          /\ d.ref \notin Maker!MapRefs(e)
      BY <1>1, <1>3, <1>4, DefsApart
    <2>2. e.field # d.ref
      BY <1>1, <1>3, <1>4, DefsApart
    <2> QED BY <2>1, <2>2 DEF Wants
  <1>7. CASE d.ref = None \/ x # d.ref
    <2>1. x # d.field
      BY <1>3, <1>6
    <2>2. Agree(data', data, x)
      BY <1>7, <2>1, DefineData
    <2> QED BY <1>5, <2>2 DEF Agree
  <1>8. CASE d.ref # None /\ x = d.ref
    <2>1. x = e.ref
      BY <1>3, <1>6, <1>8 DEF Wants
    <2>2. h = group /\ j # Here
      BY <1>4, <1>6, <1>8, <2>1
    <2>3. count[d.ref] > 1
      BY <1>4, <1>8, <2>1, <2>2, SharedIs
    <2> QED BY <1>8, <2>3, DefineData
  <1> QED BY <1>7, <1>8

\* What the definitions before have made was not touched.
LEMMA DefineAlone ==
    ASSUME DriverType, defs # <<>>, Maker!WellMade, Fresh, MadeAlone, Counted, Copied,
           NEW o \in Maker!Remap(Current, data), o.stop # Maker!RefNotFound,
           data' = Maker!Restored(Current.ref, o.data), defs' = Tail(defs),
           UNCHANGED <<driver, collected, groups, group>>
    PROVE  MadeAlone'
  <1> DEFINE d == Current
  <1>1. /\ group \in Maker!Groups /\ driver \in Makers /\ Here \in Pending(group)
        /\ Here \in DOMAIN Maker!Defs(group) /\ Maker!Defs(group)[Here] = d
        /\ d \in Maker!Range(Maker!Defs(group))
    BY CurrentIs DEF DriverType
  <1>2. Maker!Groups' = Maker!Groups /\ \A g : Maker!Defs(g)' = Maker!Defs(g)
    BY DEF Maker!Groups, Maker!Defs
  <1>3. SUFFICES ASSUME NEW h \in Maker!Groups, NEW j \in DOMAIN Maker!Defs(h), j \notin Pending(h)'
                 PROVE  \E p \in Maker!Remap(Maker!Defs(h)[j], collected) :
                            p.stop # Maker!RefNotFound /\ Agree(data', p.data, Maker!Defs(h)[j].field)
    BY <1>2 DEF MadeAlone, Alone
  <1>4. CASE h = group /\ j = Here
    <2>1. SimpleDef(d) /\ Wanting(d, data, collected)
      BY <1>1, DefsSimple DEF Fresh
    <2>2. PICK p \in Maker!Remap(d, collected) : Alike(o, p, d.field)
      BY <2>1, RemapLocal
    <2>3. Agree(data', o.data, d.field)
      BY DefineData
    <2> QED BY <1>1, <1>4, <2>2, <2>3 DEF Alike, Agree
  <1>5. CASE <<group, Here>> # <<h, j>>
    <2>1. j \notin Pending(h)
      BY <1>3, <1>5, DefineDone
    <2>2. PICK p \in Maker!Remap(Maker!Defs(h)[j], collected) :
                p.stop # Maker!RefNotFound /\ Agree(data, p.data, Maker!Defs(h)[j].field)
      BY <2>1 DEF MadeAlone, Alone
    <2>3. Maker!Defs(h)[j].field # d.field /\ Maker!Defs(h)[j].field # d.ref
      BY <1>1, <1>5, DefsApart
    <2>4. Agree(data', data, Maker!Defs(h)[j].field)
      BY <2>3, DefineData
    <2> QED BY <2>2, <2>4 DEF Agree
  <1> QED BY <1>4, <1>5

\* The ref has one use less.
LEMMA DefineCounts ==
    ASSUME DriverType, defs # <<>>, Maker!WellMade, Counted, Copied, defs' = Tail(defs),
           count' = IF Current.ref = None THEN count ELSE [count EXCEPT ![Current.ref] = @ - 1],
           UNCHANGED <<driver, collected, groups, group, copies>>
    PROVE  Counted' /\ Copied'
  <1> DEFINE d == Current
  <1>1. /\ group \in Maker!Groups \ groups /\ driver \in Makers
        /\ Here \in DOMAIN Maker!Defs(group) /\ Maker!Defs(group)[Here] = d
    BY CurrentIs DEF DriverType
  <1>2. Maker!Groups' = Maker!Groups /\ \A g : Maker!Defs(g)' = Maker!Defs(g) /\ Maker!Refs(g)' = Maker!Refs(g)
    BY DEF Maker!Groups, Maker!Defs, Maker!Refs
  <1>3. DOMAIN count' = DOMAIN count
    OBVIOUS
  <1>4. d.ref # None => /\ d.ref \in DOMAIN count /\ count[d.ref] \in Nat
                        /\ count'[d.ref] = count[d.ref] - 1
    BY SharedIs
  <1>5. \A r \in DOMAIN count : r # d.ref => count'[r] = count[r]
    OBVIOUS
  <1>6. None \notin DOMAIN count
    BY <1>1, RefsKnown DEF Counted
  <1>7. ASSUME NEW h \in Maker!Groups \ groups, NEW r \in Maker!Refs(h)
        PROVE  count'[r] = Cardinality(Users(h, r)')
    <2>1. count[r] = Cardinality(Users(h, r)) /\ r \in DOMAIN count /\ r # None
      BY <1>6 DEF Counted
    <2>2. CASE r = d.ref
      <3>1. d.ref \in Maker!Refs(group)
        BY <2>1, <2>2, SharedIs
      <3>2. h = group
        BY <1>1, <1>7, <2>2, <3>1, RefsApart
      <3>3. Users(h, r)' = Users(h, r) \ {Here}
        <4>1. Pending(h)' = Pending(h) \ {Here}
          BY <3>2, DefineDone
        <4>2. Users(h, r)' = {i \in Pending(h)' : Maker!Defs(h)[i].ref = r}
          BY <1>2 DEF Users
        <4> QED BY <4>1, <4>2 DEF Users
      <3>4. Users(h, r)' = Users(group, d.ref) \ {Here}
        BY <2>2, <3>2, <3>3
      <3> QED BY <1>4, <2>1, <2>2, <3>4, SharedIs
    <2>3. CASE r # d.ref
      <3>1. Users(h, r)' = {i \in Pending(h)' : Maker!Defs(h)[i].ref = r}
        BY <1>2 DEF Users
      <3>2. Users(h, r)' = Users(h, r)
        BY <1>1, <2>3, <3>1, DefineDone DEF Users
      <3> QED BY <1>5, <2>1, <2>3, <3>2
    <2> QED BY <2>2, <2>3
  <1>8. Counted'
    BY <1>2, <1>3, <1>7 DEF Counted
  <1>9. Copied'
    <2> SUFFICES ASSUME NEW r \in DOMAIN count', count'[r] > 1 PROVE count[r] > 1
      BY <1>3 DEF Copied
    <2>1. CASE r = d.ref
      BY <1>3, <1>4, <1>6, <2>1
    <2>2. CASE r # d.ref
      BY <1>3, <1>5, <2>2
    <2> QED BY <2>1, <2>2
  <1> QED BY <1>8, <1>9

\* The property says it of what was collected.
LEMMA LacksSame == \A d : LacksIn(d, collected) <=> Maker!Lacks(d)
  BY DEF LacksIn, Maker!Lacks, Fails

\* A definition: it is refused for what the device lacks, or its field is made.
LEMMA DefineMakes ==
    DriverType /\ (Maker!WellMade => Remapping) /\ Maker!FieldsSound /\ Maker!Define
       => MakerInv'
  <1> SUFFICES ASSUME DriverType, Maker!WellMade => Remapping, Maker!FieldsSound, Maker!Define PROVE MakerInv'
    OBVIOUS
  <1>1. stage = "processing" /\ defs # <<>>
    BY DEF Maker!Define
  <1>2. PICK o \in Maker!Remap(Current, data) :
          IF o.stop = Maker!RefNotFound THEN Maker!Raised(Maker!RefNotFound)
          ELSE /\ data' = Maker!Restored(Current.ref, o.data)
               /\ count' = IF Current.ref = None THEN count
                           ELSE [count EXCEPT ![Current.ref] = @ - 1]
               /\ defs' = Tail(defs)
               /\ UNCHANGED <<driver, collected, groups, group, copies, table, rows,
                              results, stage>>
    BY DEF Maker!Define, Current
  <1>3. Maker!WellMade => Fresh /\ MadeAlone /\ Counted /\ Copied
    BY <1>1 DEF Remapping
  <1>4. UNCHANGED <<driver, collected, groups, group>>
    BY <1>2 DEF Maker!Raised
  <1>5. Maker!Groups' = Maker!Groups /\ Maker!WellMade' = Maker!WellMade /\ \A g : Maker!Defs(g)' = Maker!Defs(g)
    BY <1>4 DEF Maker!Groups, Maker!AllDefs, Maker!Defs, Maker!WellMade
  <1>6. CASE o.stop = Maker!RefNotFound
    <2>1. stage' = Maker!RefNotFound /\ UNCHANGED <<driver, collected, groups, group, defs>>
      BY <1>2, <1>6 DEF Maker!Raised
    <2>2. DriverType'
      BY <1>5, <2>1 DEF DriverType, Maker!AllDefs
    <2>3. Maker!WellMade => Maker!Lacks(Current)
      <3> SUFFICES ASSUME Maker!WellMade PROVE Maker!Lacks(Current)
        OBVIOUS
      <3>1. SimpleDef(Current) /\ Wanting(Current, data, collected)
        BY <1>1, <1>3, CurrentIs, DefsSimple DEF Fresh, DriverType
      <3>2. PICK p \in Maker!Remap(Current, collected) : Alike(o, p, Current.field)
        BY <3>1, RemapLocal
      <3>3. p.stop = Maker!RefNotFound /\ Wanting(Current, collected, collected)
        BY <1>6, <3>2 DEF Alike, Wanting, Agree
      <3>4. LacksIn(Current, collected)
        BY <3>1, <3>3, RemapLocal
      <3> QED BY <3>4, LacksSame
    <2>4. group \in Maker!Groups /\ Current \in Maker!Range(Maker!Defs(group))
      BY <1>1, CurrentIs
    <2>5. Maker!RefusedForAReason'
      <3>1. Maker!Lacks(Current)' <=> Maker!Lacks(Current)
        BY <2>1 DEF Maker!Lacks, Current
      <3>2. Current' = Current
        BY <2>1 DEF Current
      <3> QED BY <1>5, <2>1, <2>3, <2>4, <3>1, <3>2 DEF Maker!RefusedForAReason
    <2>6. stage' # "processing" /\ stage' # "posting"
      BY <2>1 DEF Maker!RefNotFound
    <2> QED BY <2>2, <2>5, <2>6 DEF MakerInv, Posting, Remapping, Maker!FieldsSound,
         Maker!AsIfAlone
  <1>7. CASE o.stop # Maker!RefNotFound
    <2>1. /\ data' = Maker!Restored(Current.ref, o.data)
          /\ count' = IF Current.ref = None THEN count
                      ELSE [count EXCEPT ![Current.ref] = @ - 1]
          /\ defs' = Tail(defs) /\ stage' = "processing"
          /\ UNCHANGED <<driver, collected, groups, group, copies>>
      BY <1>1, <1>2, <1>7
    <2>2. DriverType'
      BY <1>1, <1>4, <2>1, DefineDone
    <2>3. Maker!WellMade => Fresh' /\ MadeAlone'
      BY <1>1, <1>3, <1>7, <2>1, DefineFresh, DefineAlone
    <2>4. Maker!WellMade => Counted' /\ Copied'
      BY <1>1, <1>3, <2>1, DefineCounts
    <2>5. Maker!FieldsSound'
      BY <2>1 DEF Maker!FieldsSound, Maker!AsIfAlone, Maker!RefusedForAReason, Maker!RefNotFound
    <2> QED BY <1>5, <2>1, <2>2, <2>3, <2>4, <2>5 DEF MakerInv, Posting, Remapping
  <1> QED BY <1>6, <1>7

-----------------------------------------------------------------------------
(* The rows are made of the columns, and stay *)

\* The names of the columns of a group, the fields of a row, and the row.
NamesOf(g) == {d.field : d \in Maker!Range(Maker!Defs(g))} \cap DOMAIN data
FieldsAt(g, k) == {f \in NamesOf(g) : k \in DOMAIN data[f]}
RowAt(g, k) == [f \in FieldsAt(g, k) \ Maker!Cleaned(g) |-> data[f][k]]
KeysOf(g) ==
    {k \in UNION {DOMAIN data[f] : f \in NamesOf(g)} : Maker!Cleaned(g) = {} \/ RowAt(g, k) # <<>>}

\* The rows, in these terms.
LEMMA RowsAre ==
    ASSUME NEW g
    PROVE  Maker!Rows(g) = IF driver.groups[g].byKey THEN [k \in KeysOf(g) |-> RowAt(g, k)]
                     ELSE [f \in NamesOf(g) \ Maker!Cleaned(g) |-> data[f]]
  BY DEF Maker!Rows, NamesOf, FieldsAt, RowAt, KeysOf

\* A column of the rows is the column.
LEMMA ColumnKept ==
    ASSUME driver \in Makers, Maker!WellMade, NEW g \in Maker!Groups,
           NEW i \in DOMAIN Maker!Defs(g),
           ~Maker!Defs(g)[i].clean, table' = [h \in Maker!Groups |-> Maker!Rows(h)], driver' = driver
    PROVE  Maker!Same(Maker!Column(g, Maker!Defs(g)[i].field)', Maker!At(data, Maker!Defs(g)[i].field, <<>>))
  <1> DEFINE f == Maker!Defs(g)[i].field
  <1>1. f \notin Maker!Cleaned(g)
    <2> SUFFICES ASSUME f \in Maker!Cleaned(g) PROVE FALSE
      OBVIOUS
    <2>1. PICK d \in Maker!Range(Maker!Defs(g)) : d.clean /\ d.field = f
      BY DEF Maker!Cleaned
    <2>2. PICK j \in DOMAIN Maker!Defs(g) : d = Maker!Defs(g)[j]
      BY DefsKnown
    <2>3. j # i
      BY <2>1, <2>2
    <2> QED BY <2>1, <2>2, <2>3, DefsApart
  <1>2. f \in NamesOf(g) <=> f \in DOMAIN data
    <2>1. Maker!Defs(g)[i] \in Maker!Range(Maker!Defs(g))
      BY DefsKnown
    <2> QED BY <2>1 DEF NamesOf
  <1>3. f' = f
    BY DEF Maker!Defs
  <1> DEFINE T == Maker!Rows(g)
  <1>4. Maker!Column(g, f)' = IF ~driver.groups[g].byKey THEN Maker!At(T, f, <<>>)
                        ELSE [k \in {k \in DOMAIN T : f \in DOMAIN T[k]} |-> T[k][f]]
    <2>1. table'[g] = T
      OBVIOUS
    <2> HIDE DEF T, f
    <2> QED BY <1>3, <2>1 DEF Maker!Column
  <1> HIDE DEF f
  <1>5. CASE ~driver.groups[g].byKey
    <2>1. T = [x \in NamesOf(g) \ Maker!Cleaned(g) |-> data[x]]
      BY <1>5, RowsAre
    <2> HIDE DEF T
    <2>2. Maker!At(T, f, <<>>) = Maker!At(data, f, <<>>)
      BY <1>1, <1>2, <2>1 DEF Maker!At
    <2> QED BY <1>4, <1>5, <2>2 DEF Maker!Same, f
  <1>6. CASE driver.groups[g].byKey
    <2>1. T = [k \in KeysOf(g) |-> RowAt(g, k)]
      BY <1>6, RowsAre
    <2> DEFINE column == Maker!At(data, f, <<>>)
               names == {k \in DOMAIN T : f \in DOMAIN T[k]}
    <2>2. \A k : f \in DOMAIN RowAt(g, k) <=> f \in DOMAIN data /\ k \in DOMAIN data[f]
      BY <1>1, <1>2 DEF RowAt, FieldsAt
    <2>3. \A k : f \in DOMAIN RowAt(g, k) => RowAt(g, k)[f] = data[f][k]
      BY DEF RowAt
    <2>4. \A k : f \in DOMAIN RowAt(g, k) => k \in KeysOf(g)
      <3> SUFFICES ASSUME NEW k, f \in DOMAIN RowAt(g, k) PROVE k \in KeysOf(g)
        OBVIOUS
      <3>1. f \in NamesOf(g) /\ k \in DOMAIN data[f]
        BY <1>2, <2>2
      <3>2. RowAt(g, k) # <<>>
        <4>1. DOMAIN <<>> = {}
          OBVIOUS
        <4> QED BY <4>1
      <3> QED BY <3>1, <3>2 DEF KeysOf
    <2>5. \A k : k \in names <=> f \in DOMAIN RowAt(g, k)
      BY <2>1, <2>4
    <2>6. \A k \in names : T[k][f] = RowAt(g, k)[f]
      BY <2>1
    <2>7. \A k : k \in DOMAIN column <=> f \in DOMAIN data /\ k \in DOMAIN data[f]
      BY DEF Maker!At
    <2>8. \A k \in DOMAIN column : column[k] = data[f][k]
      BY <2>7 DEF Maker!At
    <2> HIDE DEF T, column, names
    <2>9. names = DOMAIN column
      BY <2>2, <2>5, <2>7
    <2>10. \A k \in names : T[k][f] = column[k]
      BY <2>3, <2>5, <2>6, <2>8, <2>9
    <2>11. Maker!Same([k \in names |-> T[k][f]], column)
      BY <2>9, <2>10 DEF Maker!Same
    <2>12. Maker!Column(g, f)' = [k \in names |-> T[k][f]]
      BY <1>4, <1>6 DEF names
    <2> QED BY <2>11, <2>12 DEF column, f
  <1> QED BY <1>5, <1>6

\* The rows are made: what is said of the columns is said of the fields.
LEMMA ReorganiseMakes ==
    DriverType /\ (Maker!WellMade => Remapping) /\ Maker!FieldsSound /\ Maker!Reorganise => MakerInv'
  <1> SUFFICES ASSUME DriverType, Maker!WellMade => Remapping, Maker!FieldsSound, Maker!Reorganise PROVE MakerInv'
    OBVIOUS
  <1>1. /\ stage = "processing" /\ defs = <<>> /\ groups = {}
        /\ UNCHANGED <<driver, collected, groups, defs, data>>
    BY DEF Maker!Reorganise, Maker!Raised
  <1>2. /\ Maker!Groups' = Maker!Groups /\ Maker!AllDefs' = Maker!AllDefs
        /\ Maker!WellMade' = Maker!WellMade
        /\ \A g : Maker!Defs(g)' = Maker!Defs(g)
    BY <1>1 DEF Maker!Groups, Maker!AllDefs, Maker!Defs, Maker!WellMade
  <1>3. DriverType'
    BY <1>1, <1>2 DEF DriverType
  <1>4. CASE stage' = Maker!KeyError
    BY <1>1, <1>3, <1>4 DEF Maker!KeyError, Maker!RefNotFound, MakerInv, Remapping,
         Maker!FieldsSound, Maker!AsIfAlone,
                      Maker!RefusedForAReason, Posting
  <1>5. CASE stage' = "posting" /\ table' = [g \in Maker!Groups |-> Maker!Rows(g)]
    <2>1. ASSUME Maker!WellMade, NEW g \in Maker!Groups, NEW d \in Maker!Range(Maker!Defs(g)),
                 ~d.clean
          PROVE  \E o \in Maker!Remap(d, collected) :
                    o.stop # Maker!RefNotFound /\ Maker!Same(Maker!Column(g, d.field)', Maker!At(o.data, d.field, <<>>))
      <3>1. PICK i \in DOMAIN Maker!Defs(g) : d = Maker!Defs(g)[i]
        BY <2>1, DefsKnown DEF DriverType
      <3>2. i \notin Pending(g)
        BY <1>1, NonePending
      <3>3. MadeAlone
        BY <1>1, <2>1 DEF Remapping
      <3>4. PICK o \in Maker!Remap(d, collected) :
                    o.stop # Maker!RefNotFound /\ Agree(data, o.data, d.field)
        BY <3>1, <3>2, <3>3 DEF MadeAlone, Alone
      <3>5. Maker!At(data, d.field, <<>>) = Maker!At(o.data, d.field, <<>>)
        BY <3>4 DEF Agree, Maker!At
      <3>6. Maker!Same(Maker!Column(g, Maker!Defs(g)[i].field)', Maker!At(data, Maker!Defs(g)[i].field, <<>>))
        BY <1>1, <1>5, <2>1, <3>1, ColumnKept DEF DriverType
      <3>7. Maker!Column(g, d.field)' = Maker!Column(g, Maker!Defs(g)[i].field)'
        BY <1>2, <3>1
      <3> QED BY <3>1, <3>4, <3>5, <3>6, <3>7
    <2>2. Maker!AsIfAlone'
      BY <1>1, <1>2, <2>1 DEF Maker!AsIfAlone
    <2>3. Maker!RefusedForAReason'
      BY <1>5 DEF Maker!RefusedForAReason, Maker!RefNotFound
    <2> QED BY <1>1, <1>3, <1>5, <2>2, <2>3 DEF MakerInv, Posting, Remapping, Maker!FieldsSound
  <1> QED BY <1>4, <1>5 DEF Maker!Reorganise, Maker!Raised

\* What is said of fields depends on the driver, the collection, the stage and the rows.
LEMMA FieldsStay ==
    ASSUME MakerInv, UNCHANGED <<driver, collected, table, groups, defs>>,
           \/ stage = "posting" /\ stage' \in {"posting", "done"}
           \/ UNCHANGED <<stage, group, data, count, copies>>
    PROVE  MakerInv'
  <1>1. /\ Maker!Groups' = Maker!Groups /\ Maker!AllDefs' = Maker!AllDefs
        /\ Maker!WellMade' = Maker!WellMade
        /\ \A g : Maker!Defs(g)' = Maker!Defs(g)
    BY DEF Maker!Groups, Maker!AllDefs, Maker!Defs, Maker!WellMade
  <1>2. DriverType' /\ Posting'
    BY <1>1 DEF MakerInv, DriverType, Posting
  <1>3. \A g, f : Maker!Column(g, f)' = Maker!Column(g, f)
    BY DEF Maker!Column
  <1>4. stage' \in {"posting", "done"} \/ stage' = stage
    OBVIOUS
  <1>5. Maker!AsIfAlone'
    <2> SUFFICES ASSUME stage' = "posting", Maker!WellMade PROVE Maker!AsIfAlone'
      BY <1>1 DEF Maker!AsIfAlone
    <2>1. stage = "posting"
      OBVIOUS
    <2> QED BY <1>1, <1>3, <2>1 DEF Maker!AsIfAlone, MakerInv, Maker!FieldsSound
  <1>6. Maker!RefusedForAReason'
    <2> SUFFICES ASSUME stage' = Maker!RefNotFound, Maker!WellMade PROVE Maker!RefusedForAReason'
      BY <1>1 DEF Maker!RefusedForAReason
    <2>1. stage = Maker!RefNotFound
      BY DEF Maker!RefNotFound
    <2>2. \A d : Maker!Lacks(d)' <=> Maker!Lacks(d)
      BY DEF Maker!Lacks
    <2>3. \A g, r : Maker!Uses(g, r)' = Maker!Uses(g, r)
      BY <1>1 DEF Maker!Uses
    <2> QED BY <1>1, <2>1, <2>2, <2>3 DEF Maker!RefusedForAReason, MakerInv, Maker!FieldsSound
  <1>7. Maker!WellMade => Remapping'
    <2>1. CASE stage' = "processing"
      <3>1. UNCHANGED <<stage, group, data, count, copies>>
        BY <2>1
      <3>2. \A g : Pending(g)' = Pending(g)
        BY <1>1, <3>1 DEF Pending, DoneOf
      <3>3. (Maker!WellMade => Remapping) => (Maker!WellMade => Remapping')
        <4>1. /\ \A g, r : Users(g, r)' = Users(g, r)
              /\ \A g : Maker!Refs(g)' = Maker!Refs(g)
          BY <1>1, <3>2 DEF Users, Maker!Refs
        <4>2. \A d : Alone(d)' <=> Alone(d)
          BY <3>1 DEF Alone
        <4>3. Fresh => Fresh'
          BY <1>1, <3>1, <3>2 DEF Fresh, Wanting
        <4>4. MadeAlone => MadeAlone'
          BY <1>1, <3>2, <4>2 DEF MadeAlone
        <4>5. Counted => Counted'
          BY <1>1, <3>1, <4>1 DEF Counted
        <4>6. Copied => Copied'
          BY <3>1 DEF Copied
        <4> QED BY <2>1, <3>1, <4>3, <4>4, <4>5, <4>6 DEF Remapping
      <3> QED BY <3>3 DEF MakerInv
    <2> QED BY <2>1 DEF Remapping
  <1> QED BY <1>1, <1>2, <1>5, <1>6, <1>7 DEF MakerInv, Maker!FieldsSound

\* Every step keeps the invariant.
LEMMA FieldsStep == MakerInv /\ [Maker!Next]_(Maker!vars) => MakerInv'
  <1> SUFFICES ASSUME MakerInv, [Maker!Next]_(Maker!vars) PROVE MakerInv'
    OBVIOUS
  <1>1. CASE Maker!StartGroup
    BY <1>1, StartMakes DEF MakerInv
  <1>2. CASE Maker!Define
    BY <1>2, DefineMakes DEF MakerInv
  <1>3. CASE Maker!Reorganise
    BY <1>3, ReorganiseMakes DEF MakerInv
  <1>4. CASE Maker!Post
    <2>1. /\ UNCHANGED <<driver, collected, table, groups, defs>>
          /\ stage = "posting" /\ stage' = stage
      BY <1>4 DEF Maker!Post
    <2> QED BY <2>1, FieldsStay
  <1>5. CASE Maker!Publish
    <2>1. /\ UNCHANGED <<driver, collected, table, groups, defs>>
          /\ stage = "posting" /\ stage' = "done"
      BY <1>5 DEF Maker!Publish
    <2> QED BY <2>1, FieldsStay
  <1>6. CASE UNCHANGED Maker!vars
    BY <1>6, FieldsStay DEF Maker!vars
  <1> QED BY <1>1, <1>2, <1>3, <1>4, <1>5, <1>6 DEF Maker!Next, Maker!Finished

\* Whatever the device and the driver, and in whatever order groups and keys are taken: a field
\* of a well-made driver is what its definition makes of what was collected, and the driver is
\* refused only for what the device lacks (Driver.remap, with the counts and copies of process).
THEOREM FieldsAlwaysSound == Maker!Spec => []Maker!FieldsSound
  <1>1. MakerInv => Maker!FieldsSound
    BY DEF MakerInv
  <1> QED BY InitMakes, FieldsStep, <1>1, PTL DEF Maker!Spec

-----------------------------------------------------------------------------
(* The post maps of a row, one by one *)

\* What a row is after the first i maps, where h has it after each of them.
RowAfter(h, g, k, i) ==
    IF i = 0
    THEN [group |-> <<g>>, row |-> Maker!With(table[g][k], "index", Maker!At(table[g][k], "index", k))]
    ELSE Maker!Posted(g, h[i - 1], Maker!PostMaps(g)[i])
IsAfter(h, g, k, n) == h = [i \in 0 .. n |-> RowAfter(h, g, k, i)]

\* There is such a function, and what it has last is the row that is published.
LEMMA PostOneByOne ==
    ASSUME NEW g, NEW k, NEW n \in Nat, n = Len(Maker!PostMaps(g))
    PROVE  \E h : IsAfter(h, g, k, n) /\ Maker!PostRow(g, k) = h[n]
  <1> DEFINE Has(i) == \E h : IsAfter(h, g, k, i)
  <1>1. Has(0)
    <2> DEFINE h == [i \in 0 .. 0 |-> RowAfter(<<>>, g, k, 0)]
    <2>1. \A i \in 0 .. 0 : RowAfter(h, g, k, i) = RowAfter(<<>>, g, k, 0)
      BY DEF RowAfter
    <2>2. h = [i \in 0 .. 0 |-> RowAfter(h, g, k, i)]
      <3> HIDE DEF RowAfter
      <3> QED BY <2>1
    <2> QED BY <2>2 DEF IsAfter
  <1>2. ASSUME NEW i \in 0 .. n, i # n, Has(i) PROVE Has(i + 1)
    <2>1. PICK f : f = [j \in 0 .. i |-> RowAfter(f, g, k, j)]
      BY <1>2 DEF IsAfter
    <2> DEFINE h == [j \in 0 .. i + 1 |->
                        IF j = i + 1 THEN Maker!Posted(g, f[i], Maker!PostMaps(g)[i + 1]) ELSE f[j]]
    <2>2. ASSUME NEW j \in 0 .. i + 1 PROVE h[j] = RowAfter(h, g, k, j)
      <3>1. CASE j = i + 1
        <4>1. h[j] = Maker!Posted(g, f[i], Maker!PostMaps(g)[i + 1]) /\ j # 0 /\ j - 1 = i
          BY <3>1
        <4>2. h[i] = f[i]
          OBVIOUS
        <4> HIDE DEF h
        <4> QED BY <3>1, <4>1, <4>2 DEF RowAfter
      <3>2. CASE j # i + 1
        <4>1. j \in 0 .. i /\ h[j] = f[j]
          BY <3>2
        <4>2. f[j] = RowAfter(f, g, k, j)
          BY <2>1, <4>1
        <4>3. j # 0 => h[j - 1] = f[j - 1]
          BY <4>1
        <4> HIDE DEF h
        <4> QED BY <4>1, <4>2, <4>3 DEF RowAfter
      <3> QED BY <3>1, <3>2
    <2>3. h = [j \in 0 .. i + 1 |-> RowAfter(h, g, k, j)]
      <3> HIDE DEF RowAfter
      <3> QED BY <2>2
    <2> QED BY <2>3 DEF IsAfter
  <1>3. Has(n)
    <2> HIDE DEF Has
    <2> SUFFICES ASSUME ~Has(n) PROVE FALSE
      OBVIOUS
    <2> DEFINE Bad == {i \in 0 .. n : ~Has(i)}
    <2>1. n \in Bad /\ Bad \in SUBSET Nat
      OBVIOUS
    <2>2. PICK d \in Bad : \A x \in Bad : d <= x
      BY <2>1, SmallestNat
    <2>3. d # 0 /\ d \in 0 .. n
      BY <1>1, <2>2
    <2>4. d - 1 \in 0 .. n /\ d - 1 \notin Bad /\ d - 1 # n
      BY <2>2, <2>3
    <2>5. Has((d - 1) + 1)
      BY <1>2, <2>4
    <2> QED BY <2>2, <2>3, <2>5
  <1> DEFINE it == CHOOSE h : h = [i \in 0 .. n |-> RowAfter(h, g, k, i)]
  <1>4. it = [i \in 0 .. n |-> RowAfter(it, g, k, i)]
    BY <1>3 DEF IsAfter
  <1>5. Maker!PostRow(g, k) = it[n]
    BY DEF Maker!PostRow, RowAfter
  <1> QED BY <1>4, <1>5 DEF IsAfter

-----------------------------------------------------------------------------
(* Where a row goes *)

\* The kinds of post maps.
PostKinds == {"post_remove", "post_default_value", "post_key_rename", "post_clean",
          "post_extract", "post_key_sub", "post_function", "post_new_group_from_field"}

\* Post maps are a sequence, and of these kinds.
LEMMA PostsKnown ==
    ASSUME driver \in Makers, NEW g \in Maker!Groups
    PROVE  /\ Len(Maker!PostMaps(g)) \in Nat
           /\ DOMAIN Maker!PostMaps(g) = 1 .. Len(Maker!PostMaps(g))
           /\ \A i \in DOMAIN Maker!PostMaps(g) : Maker!PostMaps(g)[i].by \in PostKinds
  <1>1. Maker!PostMaps(g) \in Seq(Maker!Range(Maker!PostMaps(g)))
    BY PollingAssumption DEF PollingAssumption, Maker!DriverAssumption, Maker!Groups,
         Maker!PostMaps
  <1>2. \A m \in Maker!Range(Maker!PostMaps(g)) : m.by \in PostKinds
    BY PollingAssumption DEF PollingAssumption, Maker!DriverAssumption, Maker!Groups,
         Maker!PostMaps, PostKinds
  <1>3. \A i \in DOMAIN Maker!PostMaps(g) : Maker!PostMaps(g)[i] \in Maker!Range(Maker!PostMaps(g))
    BY DEF Maker!Range
  <1> QED BY <1>1, <1>2, <1>3

\* A row that was not removed goes to its own group, or to a new one made of it.
Belongs(g, s) == s.row = <<>> \/ s.group[1] = g

\* A map does not take a row elsewhere.
LEMMA MapBelongs ==
    ASSUME NEW g, NEW s, NEW m, m.by \in PostKinds, Belongs(g, s)
    PROVE  Belongs(g, Maker!Posted(g, s, m))
  <1>1. CASE s.row = <<>>
    BY <1>1 DEF Belongs, Maker!Posted
  <1>2. CASE s.row # <<>>
    <2>1. s.group[1] = g /\ Maker!Posted(g, s, m) = Maker!PostMap(m, g, s)
      BY <1>2 DEF Belongs, Maker!Posted
    <2>2. \A row : Belongs(g, [group |-> <<g>>, row |-> row])
      BY DEF Belongs
    <2>3. \A row : Belongs(g, [group |-> Maker!NewGroup(g, m, s.row), row |-> row])
      BY DEF Belongs, Maker!NewGroup
    <2>4. Belongs(g, Maker!Removed)
      BY DEF Belongs, Maker!Removed
    <2>5. Belongs(g, s)
      OBVIOUS
    <2>6. Belongs(g, Maker!PostMap(m, g, s))
      <3>1. CASE m.by = "post_remove"
        BY <2>2, <2>4, <3>1 DEF Maker!PostMap
      <3>2. CASE m.by = "post_default_value"
        BY <2>2, <3>2 DEF Maker!PostMap
      <3>3. CASE m.by = "post_key_rename"
        BY <2>2, <3>3 DEF Maker!PostMap
      <3>4. CASE m.by = "post_clean"
        BY <2>2, <3>4 DEF Maker!PostMap
      <3>5. CASE m.by = "post_extract"
        BY <2>2, <3>5 DEF Maker!PostMap
      <3>6. CASE m.by = "post_key_sub"
        BY <2>2, <3>6 DEF Maker!PostMap
      <3>7. CASE m.by = "post_function"
        BY <2>2, <2>4, <2>5, <3>7 DEF Maker!PostMap
      <3>8. CASE m.by = "post_new_group_from_field"
        BY <2>3, <2>5, <3>8 DEF Maker!PostMap
      <3> QED BY <3>1, <3>2, <3>3, <3>4, <3>5, <3>6, <3>7, <3>8 DEF PostKinds
    <2> QED BY <2>1, <2>6
  <1> QED BY <1>1, <1>2

\* Nor do all of them.
LEMMA RowBelongs ==
    ASSUME driver \in Makers, NEW g \in Maker!Groups, NEW k
    PROVE  Belongs(g, Maker!PostRow(g, k))
  <1> DEFINE n == Len(Maker!PostMaps(g))
  <1>1. n \in Nat /\ \A i \in 1 .. n : Maker!PostMaps(g)[i].by \in PostKinds
    BY PostsKnown
  <1>2. PICK h : IsAfter(h, g, k, n) /\ Maker!PostRow(g, k) = h[n]
    BY <1>1, PostOneByOne
  <1> HIDE DEF n
  <1>3. \A i \in 0 .. n : h[i] = RowAfter(h, g, k, i)
    BY <1>1, <1>2 DEF IsAfter
  <1>4. Belongs(g, h[0])
    BY <1>1, <1>3 DEF RowAfter, Belongs
  <1>5. ASSUME NEW i \in 0 .. n, i # 0, Belongs(g, h[i - 1]) PROVE Belongs(g, h[i])
    <2>1. h[i] = Maker!Posted(g, h[i - 1], Maker!PostMaps(g)[i])
      BY <1>3, <1>5 DEF RowAfter
    <2> QED BY <1>1, <1>5, <2>1, MapBelongs
  <1> SUFFICES ASSUME ~Belongs(g, h[n]) PROVE FALSE
    BY <1>2
  <1> DEFINE Bad == {i \in 0 .. n : ~Belongs(g, h[i])}
  <1>6. n \in Bad /\ Bad \in SUBSET Nat
    BY <1>1
  <1>7. PICK d \in Bad : \A x \in Bad : d <= x
    BY <1>6, SmallestNat
  <1>8. d # 0 /\ d \in 0 .. n
    BY <1>4, <1>7
  <1>9. d - 1 \in 0 .. n /\ d - 1 \notin Bad
    BY <1>1, <1>7, <1>8
  <1> QED BY <1>5, <1>7, <1>8, <1>9
-----------------------------------------------------------------------------
(* The maps of a group that gives up no row *)

\* Two rows that differ only in some fields.
SameBut(fs, row, new) ==
    \A f : f \notin fs => /\ f \in DOMAIN new <=> f \in DOMAIN row
                          /\ f \in DOMAIN row => new[f] = row[f]

\* A field set,
LEMMA WithSame == \A row, x, y : SameBut({x}, row, Maker!With(row, x, y))
  BY DEF SameBut, Maker!With

\* and a field removed.
LEMMA WithoutSame == \A row, x : SameBut({x}, row, Maker!Without(row, {x}))
  BY DEF SameBut, Maker!Without, Maker!Restrict

\* A map that neither removes rows nor makes groups changes only the fields it names.
LEMMA MapTouches ==
    ASSUME NEW g, NEW s, NEW m,
           m.by \in {"post_default_value", "post_key_rename", "post_clean", "post_extract",
                     "post_key_sub"}
    PROVE  /\ Maker!PostMap(m, g, s).group = <<g>>
           /\ SameBut(Maker!Touched(m), s.row, Maker!PostMap(m, g, s).row)
  <1>1. CASE m.by = "post_default_value"
    <2>1. Maker!PostMap(m, g, s) =
            [group |-> <<g>>, row |-> Maker!With(s.row, m.field, Maker!At(s.row, m.field, m.value))]
      BY <1>1 DEF Maker!PostMap
    <2>2. Maker!Touched(m) = {m.field}
      BY <1>1 DEF Maker!Touched
    <2> QED BY <2>1, <2>2, WithSame
  <1>2. CASE m.by = "post_key_rename"
    <2> DEFINE new == Maker!With(s.row, m.value, s.row[m.field])
    <2>1. Maker!PostMap(m, g, s) =
            [group |-> <<g>>,
             row |-> IF m.field \in DOMAIN s.row THEN Maker!Without(new, {m.field}) ELSE s.row]
      BY <1>2 DEF Maker!PostMap
    <2>2. Maker!Touched(m) = {m.field, m.value}
      BY <1>2 DEF Maker!Touched
    <2>3. SameBut({m.value}, s.row, new) /\ SameBut({m.field}, new, Maker!Without(new, {m.field}))
      BY WithSame, WithoutSame
    <2> HIDE DEF new
    <2> QED BY <2>1, <2>2, <2>3 DEF SameBut
  <1>3. CASE m.by = "post_clean"
    <2>1. Maker!PostMap(m, g, s) = [group |-> <<g>>, row |-> Maker!Without(s.row, {m.field})]
      BY <1>3 DEF Maker!PostMap
    <2>2. Maker!Touched(m) = {m.field}
      BY <1>3 DEF Maker!Touched
    <2>3. SameBut({m.field}, s.row, Maker!Without(s.row, {m.field}))
      BY WithoutSame
    <2> QED BY <2>1, <2>2, <2>3
  <1>4. CASE m.by = "post_extract"
    <2>1. Maker!PostMap(m, g, s) = [group |-> <<g>>, row |-> Maker!Extracted(m, s.row)]
      BY <1>4 DEF Maker!PostMap
    <2>2. Maker!Touched(m) = {m.field} \cup UNION {DOMAIN m.parts[v] : v \in DOMAIN m.parts}
      BY <1>4 DEF Maker!Touched
    <2>3. CASE m.field \notin DOMAIN s.row \/ s.row[m.field] \notin DOMAIN m.parts
      BY <2>1, <2>3 DEF Maker!Extracted, SameBut
    <2>4. CASE m.field \in DOMAIN s.row /\ s.row[m.field] \in DOMAIN m.parts
      <3> DEFINE parts == m.parts[s.row[m.field]]
                 rest == Maker!Without(s.row, {m.field})
      <3>1. Maker!Extracted(m, s.row) =
              [f \in DOMAIN rest \cup DOMAIN parts |-> Maker!At(parts, f, Maker!At(rest, f, None))]
        BY <2>4 DEF Maker!Extracted
      <3>2. DOMAIN parts \subseteq Maker!Touched(m) /\ m.field \in Maker!Touched(m)
        BY <2>2, <2>4
      <3>3. SameBut({m.field}, s.row, rest)
        BY WithoutSame
      <3> HIDE DEF parts, rest
      <3>4. SameBut(Maker!Touched(m), rest, Maker!Extracted(m, s.row))
        BY <3>1, <3>2 DEF SameBut, Maker!At
      <3> QED BY <2>1, <3>2, <3>3, <3>4 DEF SameBut
    <2> QED BY <2>3, <2>4
  <1>5. CASE m.by = "post_key_sub"
    <2>1. Maker!PostMap(m, g, s) = [group |-> <<g>>, row |-> Maker!LookedUp(m, s.row)]
      BY <1>5 DEF Maker!PostMap
    <2>2. Maker!Touched(m) = {m.field}
      BY <1>5 DEF Maker!Touched
    <2>3. SameBut({m.field}, s.row, Maker!LookedUp(m, s.row))
      BY DEF SameBut, Maker!LookedUp
    <2> QED BY <2>1, <2>2, <2>3
  <1> QED BY <1>1, <1>2, <1>3, <1>4, <1>5

\* What a row still has of its key and of the fields that name its group.
Keeps(g, k, s) ==
    /\ s.group = <<g>>
    /\ "index" \in DOMAIN s.row /\ s.row["index"] = k
    /\ \A f \in Maker!Naming(g) : /\ f \in DOMAIN s.row <=> f \in DOMAIN table[g][k]
                                  /\ f \in DOMAIN s.row => s.row[f] = table[g][k][f]

\* Where it is to go.
Placed(g, k, s) ==
    s.group = Maker!NameOf(g, k) /\ "index" \in DOMAIN s.row /\ s.row["index"] = k

\* A row with a field is there.
LEMMA NotEmpty == ASSUME NEW f, NEW x \in DOMAIN f PROVE f # <<>>
  <1>1. DOMAIN <<>> = {}
    OBVIOUS
  <1> QED BY <1>1

\* At first it has all, and its key.
LEMMA BeginKeeps ==
    ASSUME NEW g, NEW k \in DOMAIN table[g], Maker!KeepsRows(g)
    PROVE  Keeps(g, k, RowAfter(<<>>, g, k, 0))
  <1> DEFINE old == table[g][k]
             new == Maker!With(old, "index", Maker!At(old, "index", k))
  <1>1. "index" \notin DOMAIN old /\ "index" \notin Maker!Naming(g)
    BY DEF Maker!KeepsRows
  <1>2. Maker!At(old, "index", k) = k
    BY <1>1 DEF Maker!At
  <1>3. "index" \in DOMAIN new /\ new["index"] = k
    BY <1>2 DEF Maker!With
  <1>4. SameBut({"index"}, old, new)
    BY WithSame
  <1>5. RowAfter(<<>>, g, k, 0) = [group |-> <<g>>, row |-> new]
    BY DEF RowAfter
  <1> HIDE DEF old, new
  <1>6. \A f \in Maker!Naming(g) : /\ f \in DOMAIN new <=> f \in DOMAIN old
                                   /\ f \in DOMAIN new => new[f] = old[f]
    BY <1>1, <1>4 DEF SameBut
  <1> QED BY <1>3, <1>5, <1>6 DEF Keeps, old

\* A map that does not touch them leaves them.
LEMMA MapKeeps ==
    ASSUME NEW g, NEW k, NEW s, NEW m, Keeps(g, k, s),
           m.by \in {"post_default_value", "post_key_rename", "post_clean", "post_extract",
                     "post_key_sub"},
           Maker!Touched(m) \cap ({"index"} \cup Maker!Naming(g)) = {}
    PROVE  Keeps(g, k, Maker!Posted(g, s, m))
  <1>1. s.row # <<>>
    BY NotEmpty DEF Keeps
  <1>2. Maker!Posted(g, s, m) = Maker!PostMap(m, g, s)
    BY <1>1 DEF Maker!Posted
  <1> DEFINE new == Maker!PostMap(m, g, s)
  <1>3. new.group = <<g>> /\ SameBut(Maker!Touched(m), s.row, new.row)
    BY MapTouches
  <1> HIDE DEF new
  <1>4. "index" \in DOMAIN new.row /\ new.row["index"] = k
    BY <1>3 DEF SameBut, Keeps
  <1>5. \A f \in Maker!Naming(g) : /\ f \in DOMAIN new.row <=> f \in DOMAIN s.row
                                   /\ f \in DOMAIN new.row => new.row[f] = s.row[f]
    BY <1>3 DEF SameBut
  <1>6. Keeps(g, k, new)
    BY <1>3, <1>4, <1>5 DEF Keeps
  <1> QED BY <1>2, <1>6 DEF new

\* The map that makes new groups, as the last one.
LEMMA NamePlaces ==
    ASSUME NEW g, NEW k, NEW s, NEW m, Keeps(g, k, s), m.by = "post_new_group_from_field",
           Maker!Naming(g) = {m.field}, "index" \notin Maker!Naming(g)
    PROVE  Placed(g, k, Maker!Posted(g, s, m))
  <1>1. s.row # <<>>
    BY NotEmpty DEF Keeps
  <1>2. Maker!Posted(g, s, m) = IF m.field \in DOMAIN s.row
                          THEN [group |-> Maker!NewGroup(g, m, s.row), row |-> Maker!Without(s.row, {m.field})]
                          ELSE s
    BY <1>1 DEF Maker!Posted, Maker!PostMap
  <1> DEFINE f == m.field
  <1>3. /\ f \in DOMAIN s.row <=> f \in DOMAIN table[g][k]
        /\ f \in DOMAIN s.row => s.row[f] = table[g][k][f]
    BY DEF Keeps
  <1>4. "index" # f
    OBVIOUS
  <1>5. CASE f \in DOMAIN s.row
    <2>1. Maker!Naming(g) \cap DOMAIN table[g][k] = {f}
      BY <1>3, <1>5
    <2>2. (CHOOSE x \in {f} : TRUE) = f
      OBVIOUS
    <2>3. Maker!NameOf(g, k) = <<g, f, table[g][k][f]>>
      BY <2>1, <2>2 DEF Maker!NameOf
    <2>4. Maker!NewGroup(g, m, s.row) = Maker!NameOf(g, k)
      BY <1>3, <1>5, <2>3 DEF Maker!NewGroup
    <2> DEFINE new == Maker!Without(s.row, {f})
    <2>5. "index" \in DOMAIN new /\ new["index"] = k
      <3>1. SameBut({f}, s.row, new)
        BY WithoutSame
      <3> HIDE DEF new, f
      <3> QED BY <1>4, <3>1 DEF SameBut, Keeps
    <2>6. Maker!Posted(g, s, m) = [group |-> Maker!NameOf(g, k), row |-> new]
      BY <1>2, <1>5, <2>4
    <2> HIDE DEF new
    <2> QED BY <2>5, <2>6 DEF Placed
  <1>6. CASE f \notin DOMAIN s.row
    <2>1. Maker!Naming(g) \cap DOMAIN table[g][k] = {}
      BY <1>3, <1>6
    <2>2. Maker!NameOf(g, k) = <<g>>
      BY <2>1 DEF Maker!NameOf
    <2> QED BY <1>2, <1>6, <2>2 DEF Placed, Keeps
  <1> QED BY <1>5, <1>6

\* A row of such a group goes where its own field says, with its key.
LEMMA RowPlaced ==
    ASSUME driver \in Makers, NEW g \in Maker!Groups, NEW k \in DOMAIN table[g], Maker!KeepsRows(g)
    PROVE  Placed(g, k, Maker!PostRow(g, k))
  <1> DEFINE n == Len(Maker!PostMaps(g))
             Other == {"post_default_value", "post_key_rename", "post_clean", "post_extract",
                       "post_key_sub"}
  <1>1. n \in Nat /\ DOMAIN Maker!PostMaps(g) = 1 .. n
    BY PostsKnown
  <1>2. PICK h : IsAfter(h, g, k, n) /\ Maker!PostRow(g, k) = h[n]
    BY <1>1, PostOneByOne
  <1> HIDE DEF n
  <1>3. \A i \in 0 .. n : h[i] = RowAfter(h, g, k, i)
    BY <1>1, <1>2 DEF IsAfter
  <1>4. \A i \in 1 .. n : /\ \/ Maker!PostMaps(g)[i].by \in Other
                             \/ (Maker!PostMaps(g)[i].by = "post_new_group_from_field" /\ i = n)
                          /\ Maker!Touched(Maker!PostMaps(g)[i]) \cap ({"index"} \cup Maker!Naming(g)) = {}
    <2> SUFFICES ASSUME NEW i \in 1 .. n
                 PROVE  /\ \/ Maker!PostMaps(g)[i].by \in Other
                           \/ (Maker!PostMaps(g)[i].by = "post_new_group_from_field" /\ i = n)
                        /\ Maker!Touched(Maker!PostMaps(g)[i]) \cap ({"index"} \cup Maker!Naming(g)) = {}
      OBVIOUS
    <2> DEFINE m == Maker!PostMaps(g)[i]
    <2>1. m.by \in PostKinds
      BY <1>1, PostsKnown
    <2>2. /\ m.by \notin {"post_remove", "post_function"}
          /\ m.by = "post_new_group_from_field" => i = n
          /\ Maker!Touched(m) \cap ({"index"} \cup Maker!Naming(g)) = {}
      BY <1>1 DEF Maker!KeepsRows, n
    <2> HIDE DEF m
    <2>3. m.by \in Other \/ (m.by = "post_new_group_from_field" /\ i = n)
      BY <2>1, <2>2 DEF PostKinds
    <2> QED BY <2>2, <2>3 DEF m
  <1>5. Keeps(g, k, h[0])
    <2>1. h[0] = RowAfter(<<>>, g, k, 0)
      BY <1>1, <1>3 DEF RowAfter
    <2> QED BY <2>1, BeginKeeps
  <1> DEFINE Ends(i) == i = n /\ i # 0 /\ Maker!PostMaps(g)[i].by = "post_new_group_from_field"
  <1>6. ASSUME NEW i \in 0 .. n, i # 0, ~Ends(i), Keeps(g, k, h[i - 1])
        PROVE  Keeps(g, k, h[i])
    <2>1. h[i] = Maker!Posted(g, h[i - 1], Maker!PostMaps(g)[i])
      BY <1>3, <1>6 DEF RowAfter
    <2>2. i \in 1 .. n
      BY <1>1, <1>6
    <2>3. Maker!PostMaps(g)[i].by \in Other
      BY <1>4, <1>6, <2>2
    <2> QED BY <1>4, <1>6, <2>1, <2>2, <2>3, MapKeeps
  <1>7. ASSUME NEW j \in 0 .. n, j # n \/ ~Ends(n) PROVE Keeps(g, k, h[j])
    <2> SUFFICES ASSUME ~Keeps(g, k, h[j]) PROVE FALSE
      OBVIOUS
    <2> DEFINE Bad == {i \in 0 .. j : ~Keeps(g, k, h[i])}
    <2>1. j \in Bad /\ Bad \in SUBSET Nat
      BY <1>1
    <2>2. PICK d \in Bad : \A x \in Bad : d <= x
      BY <2>1, SmallestNat
    <2>3. d # 0 /\ d \in 0 .. j
      BY <1>5, <2>2
    <2>4. d - 1 \in 0 .. j /\ d - 1 \notin Bad /\ d \in 0 .. n
      BY <1>1, <2>2, <2>3
    <2>5. ~Ends(d)
      BY <1>1, <1>7, <2>3
    <2> QED BY <1>6, <2>2, <2>3, <2>4, <2>5
  <1>8. "index" \notin Maker!Naming(g)
    BY DEF Maker!KeepsRows
  <1>9. CASE Ends(n)
    <2> DEFINE m == Maker!PostMaps(g)[n]
    <2>1. n # 0 /\ n \in 1 .. n /\ n - 1 \in 0 .. n /\ n - 1 # n /\ n \in 0 .. n
      BY <1>1, <1>9
    <2>2. Keeps(g, k, h[n - 1])
      BY <1>7, <2>1
    <2>3. h[n] = Maker!Posted(g, h[n - 1], m)
      BY <1>3, <2>1 DEF RowAfter
    <2>4. Maker!Naming(g) = {m.field}
      <3>1. \A x \in Maker!Range(Maker!PostMaps(g)) : x.by = "post_new_group_from_field" => x = m
        BY <1>1, <1>4 DEF Maker!Range
      <3>2. m \in Maker!Range(Maker!PostMaps(g))
        BY <1>1, <2>1 DEF Maker!Range
      <3>3. m.by = "post_new_group_from_field"
        BY <1>9
      <3> HIDE DEF m
      <3> QED BY <3>1, <3>2, <3>3 DEF Maker!Naming
    <2> QED BY <1>2, <1>8, <1>9, <2>2, <2>3, <2>4, NamePlaces
  <1>10. CASE ~Ends(n)
    <2>1. Keeps(g, k, h[n])
      BY <1>1, <1>7, <1>10
    <2>2. Maker!Naming(g) = {}
      <3>1. \A x \in Maker!Range(Maker!PostMaps(g)) : x.by # "post_new_group_from_field"
        BY <1>1, <1>4, <1>10 DEF Maker!Range
      <3> QED BY <3>1 DEF Maker!Naming
    <2>3. Maker!NameOf(g, k) = <<g>>
      BY <2>2 DEF Maker!NameOf
    <2> QED BY <1>2, <2>1, <2>3 DEF Keeps, Placed
  <1> QED BY <1>9, <1>10
-----------------------------------------------------------------------------
(* Every row is published once *)

\* A list of rows.
IsList(s) == \E S : s \in Seq(S)

\* The row of a key is published: where, and nowhere else.
Once(g, k) == \E x \in Maker!Places(g, k) : x[1] = Maker!NameOf(g, k) /\ Maker!Places(g, k) = {x}

\* Before the post maps nothing is published; while they run, the rows that are left are
\* not, and the others are.
PublishInv ==
    /\ driver \in Makers
    /\ stage = "processing" => results = <<>>
    /\ stage = "posting" =>
          /\ \A r \in rows :
                r = <<r[1], r[2]>> /\ r[1] \in Maker!Groups /\ r[2] \in DOMAIN table[r[1]]
          /\ \A n \in DOMAIN results : IsList(results[n])
          /\ \A g \in Maker!Groups : Maker!KeepsRows(g) => \A k \in DOMAIN table[g] :
                IF <<g, k>> \in rows THEN Maker!Places(g, k) = {} ELSE Once(g, k)
    /\ Maker!PublishedOnce

\* A place, in full.
LEMMA PlaceIs ==
    ASSUME NEW g, NEW k, NEW x
    PROVE  x \in Maker!Places(g, k) <=>
              /\ x = <<x[1], x[2]>> /\ x[1] \in DOMAIN results /\ x[2] \in DOMAIN results[x[1]]
              /\ x[1][1] = g /\ results[x[1]][x[2]]["index"] = k
  BY DEF Maker!Places

\* A list with one element more.
LEMMA ListLonger ==
    ASSUME NEW s, IsList(s), NEW e
    PROVE  /\ IsList(Append(s, e)) /\ Len(s) \in Nat /\ Len(s) + 1 \notin DOMAIN s
           /\ DOMAIN Append(s, e) = DOMAIN s \cup {Len(s) + 1}
           /\ \A i \in DOMAIN s : Append(s, e)[i] = s[i]
           /\ Append(s, e)[Len(s) + 1] = e
  <1>1. PICK S : s \in Seq(S)
    BY DEF IsList
  <1>2. s \in Seq(S \cup {e})
    BY <1>1
  <1>3. Append(s, e) \in Seq(S \cup {e})
    BY <1>2
  <1> QED BY <1>2, <1>3 DEF IsList

\* There is one place more, for the key of a row.
Gains(n, row, i) ==
    \A g, k : Maker!Places(g, k)' = Maker!Places(g, k) \cup
                (IF n[1] = g /\ row["index"] = k THEN {<<n, i>>} ELSE {})
Longer(n, row) == results' = Maker!With(results, n, Append(Maker!At(results, n, <<>>), row))

\* One row more in the results is one place more for its group and key.
LEMMA PlaceMore ==
    ASSUME \A n \in DOMAIN results : IsList(results[n]), NEW n, NEW row, Longer(n, row)
    PROVE  /\ \A m \in DOMAIN results' : IsList(results'[m])
           /\ \E i : Gains(n, row, i)
  <1> DEFINE old == Maker!At(results, n, <<>>)
             i == Len(old) + 1
  <1>1. IsList(old)
    <2>1. <<>> \in Seq({})
      OBVIOUS
    <2> QED BY <2>1 DEF Maker!At, IsList
  <1>2. /\ IsList(Append(old, row)) /\ i \notin DOMAIN old
        /\ DOMAIN Append(old, row) = DOMAIN old \cup {i}
        /\ \A j \in DOMAIN old : Append(old, row)[j] = old[j]
        /\ Append(old, row)[i] = row
    BY <1>1, ListLonger
  <1> DEFINE new == Append(old, row)
  <1>3. DOMAIN results' = DOMAIN results \cup {n} /\ results'[n] = new
    BY DEF Maker!With, Longer
  <1>4. \A m \in DOMAIN results : m # n => results'[m] = results[m]
    BY DEF Maker!With, Longer
  <1>5. /\ n \in DOMAIN results => old = results[n]
        /\ n \notin DOMAIN results => DOMAIN old = {}
    BY DEF Maker!At
  <1> HIDE DEF old, i, new
  <1>6. \A m \in DOMAIN results' : IsList(results'[m])
    BY <1>2, <1>3, <1>4 DEF new
  <1>7. ASSUME NEW g, NEW k, NEW x
        PROVE  x \in Maker!Places(g, k)' <=>
                  x \in Maker!Places(g, k) \/ (n[1] = g /\ row["index"] = k /\ x = <<n, i>>)
    <2> DEFINE Is == /\ x = <<x[1], x[2]>> /\ x[1] \in DOMAIN results'
                     /\ x[2] \in DOMAIN results'[x[1]]
                     /\ x[1][1] = g /\ results'[x[1]][x[2]]["index"] = k
               Was == /\ x = <<x[1], x[2]>> /\ x[1] \in DOMAIN results
                      /\ x[2] \in DOMAIN results[x[1]]
                      /\ x[1][1] = g /\ results[x[1]][x[2]]["index"] = k
    <2>1. x \in Maker!Places(g, k)' <=> Is
      BY DEF Maker!Places
    <2>2. x \in Maker!Places(g, k) <=> Was
      BY PlaceIs
    <2>3. CASE x[1] # n
      <3>1. Is <=> Was
        BY <1>3, <1>4, <2>3
      <3> HIDE DEF Is, Was
      <3> QED BY <2>1, <2>2, <2>3, <3>1
    <2>4. CASE x[1] = n /\ x[2] # i
      <3>1. Is <=> Was
        BY <1>2, <1>3, <1>5, <2>4 DEF new
      <3> HIDE DEF Is, Was
      <3> QED BY <2>1, <2>2, <2>4, <3>1
    <2>5. CASE x[1] = n /\ x[2] = i
      <3>1. Is <=> n[1] = g /\ row["index"] = k /\ x = <<n, i>>
        BY <1>2, <1>3, <2>5 DEF new
      <3>2. ~Was
        BY <1>2, <1>5, <2>5
      <3> HIDE DEF Is, Was
      <3> QED BY <2>1, <2>2, <3>1, <3>2
    <2> QED BY <2>3, <2>4, <2>5
  <1>8. ASSUME NEW g, NEW k
        PROVE  Maker!Places(g, k)' = Maker!Places(g, k) \cup
                  (IF n[1] = g /\ row["index"] = k THEN {<<n, i>>} ELSE {})
    BY <1>7
  <1> QED BY <1>6, <1>8 DEF Gains

\* The name of the group of a row, from the fields it may be named by.
NameFrom(g, row, names) ==
    IF names = {} THEN <<g>> ELSE LET f == CHOOSE f \in names : TRUE IN <<g, f, row[f]>>

\* What the properties of rows are about stays while the driver and its rows do.
LEMMA NamesStay ==
    ASSUME UNCHANGED <<driver, table>>
    PROVE  /\ Maker!Groups' = Maker!Groups
           /\ \A g : /\ Maker!PostMaps(g)' = Maker!PostMaps(g) /\ Maker!Naming(g)' = Maker!Naming(g)
                     /\ Maker!KeepsRows(g)' <=> Maker!KeepsRows(g)
           /\ \A g, k : Maker!NameOf(g, k)' = Maker!NameOf(g, k)
  <1>1. Maker!Groups' = Maker!Groups /\ \A g : Maker!PostMaps(g)' = Maker!PostMaps(g)
    BY DEF Maker!Groups, Maker!PostMaps
  <1>2. \A g : Maker!Naming(g)' = Maker!Naming(g)
    BY <1>1 DEF Maker!Naming
  <1>3. \A g : Maker!KeepsRows(g)' <=> Maker!KeepsRows(g)
    BY <1>1, <1>2 DEF Maker!KeepsRows
  <1>4. ASSUME NEW g, NEW k PROVE Maker!NameOf(g, k)' = Maker!NameOf(g, k)
    <2>1. Maker!NameOf(g, k) = NameFrom(g, table[g][k], Maker!Naming(g) \cap DOMAIN table[g][k])
      BY DEF Maker!NameOf, NameFrom
    <2>2. Maker!NameOf(g, k)' = NameFrom(g, table'[g][k], Maker!Naming(g)' \cap DOMAIN table'[g][k])
      BY DEF Maker!NameOf, NameFrom
    <2> QED BY <1>2, <2>1, <2>2
  <1> QED BY <1>1, <1>2, <1>3, <1>4
\* At first nothing is published.
LEMMA InitPublishes == Maker!Init => PublishInv
  BY DEF Maker!Init, PublishInv, Maker!PublishedOnce

\* Nor is it when the rows are made: all of them are left.
LEMMA ReorganisePublishes == PublishInv /\ Maker!Reorganise => PublishInv'
  <1> SUFFICES ASSUME PublishInv, Maker!Reorganise PROVE PublishInv'
    OBVIOUS
  <1>1. stage = "processing" /\ results = <<>> /\ UNCHANGED <<driver, results>>
    BY DEF Maker!Reorganise, Maker!Raised, PublishInv
  <1>2. CASE stage' = Maker!KeyError
    BY <1>1, <1>2 DEF Maker!KeyError, PublishInv, Maker!PublishedOnce
  <1>3. CASE /\ table' = [g \in Maker!Groups |-> Maker!Rows(g)] /\ stage' = "posting"
             /\ rows' = UNION {{<<g, k>> : k \in DOMAIN Maker!Rows(g)} : g \in Maker!Groups}
    <2>1. Maker!Groups' = Maker!Groups
      BY <1>1 DEF Maker!Groups
    <2>2. \A r \in rows' :
             r = <<r[1], r[2]>> /\ r[1] \in Maker!Groups /\ r[2] \in DOMAIN table'[r[1]]
      BY <1>3
    <2>3. DOMAIN results' = {}
      BY <1>1
    <2>4. \A g, k : Maker!Places(g, k)' = {}
      BY <2>3 DEF Maker!Places
    <2>5. ASSUME NEW g \in Maker!Groups, NEW k \in DOMAIN table'[g] PROVE <<g, k>> \in rows'
      <3>1. table'[g] = Maker!Rows(g)
        BY <1>3
      <3> QED BY <1>3, <2>5, <3>1
    <2> QED BY <1>1, <1>3, <2>1, <2>2, <2>3, <2>4, <2>5 DEF PublishInv, Maker!PublishedOnce
  <1> QED BY <1>2, <1>3 DEF Maker!Reorganise, Maker!Raised

\* A row goes through the maps of its group: it is published where its own field says, and no
\* other row is moved.
LEMMA PostPublishes == PublishInv /\ Maker!Post => PublishInv'
  <1> SUFFICES ASSUME PublishInv, Maker!Post PROVE PublishInv'
    OBVIOUS
  <1>1. /\ stage = "posting" /\ stage' = stage /\ UNCHANGED <<driver, table>>
        /\ driver \in Makers
    BY DEF Maker!Post, PublishInv
  <1>2. PICK r \in rows :
          /\ rows' = rows \ {r}
          /\ results' = IF Maker!PostRow(r[1], r[2]).row = <<>> THEN results
                        ELSE Maker!With(results, Maker!PostRow(r[1], r[2]).group,
                                  Append(Maker!At(results, Maker!PostRow(r[1], r[2]).group, <<>>),
                                         Maker!PostRow(r[1], r[2]).row))
    BY DEF Maker!Post
  <1>3. /\ \A q \in rows : q = <<q[1], q[2]>> /\ q[1] \in Maker!Groups /\ q[2] \in DOMAIN table[q[1]]
        /\ \A n \in DOMAIN results : IsList(results[n])
        /\ \A g \in Maker!Groups : Maker!KeepsRows(g) => \A k \in DOMAIN table[g] :
              IF <<g, k>> \in rows THEN Maker!Places(g, k) = {} ELSE Once(g, k)
    BY <1>1 DEF PublishInv
  <1> DEFINE h == r[1]
             j == r[2]
             s == Maker!PostRow(h, j)
  <1>4. r = <<h, j>> /\ h \in Maker!Groups /\ j \in DOMAIN table[h]
    BY <1>2, <1>3
  <1>5. Belongs(h, s)
    BY <1>1, <1>4, RowBelongs
  <1>6. Maker!KeepsRows(h) => s.row # <<>> /\ s.group = Maker!NameOf(h, j) /\ s.row["index"] = j
    <2> SUFFICES ASSUME Maker!KeepsRows(h)
                 PROVE  s.row # <<>> /\ s.group = Maker!NameOf(h, j) /\ s.row["index"] = j
      OBVIOUS
    <2>1. Placed(h, j, s)
      BY <1>1, <1>4, RowPlaced
    <2>2. s.row # <<>>
      BY <2>1, NotEmpty DEF Placed
    <2> QED BY <2>1, <2>2 DEF Placed
  <1>7. /\ \A n \in DOMAIN results' : IsList(results'[n])
        /\ \E i : \A g, k :
              /\ Maker!Places(g, k)' = Maker!Places(g, k) \cup
                    (IF s.row # <<>> /\ s.group[1] = g /\ s.row["index"] = k
                     THEN {<<s.group, i>>} ELSE {})
    <2>1. CASE s.row = <<>>
      <3>1. results' = results
        BY <1>2, <2>1
      <3>2. \A g, k : Maker!Places(g, k)' = Maker!Places(g, k)
        BY <3>1 DEF Maker!Places
      <3> QED BY <1>3, <2>1, <3>1, <3>2
    <2>2. CASE s.row # <<>>
      <3>1. Longer(s.group, s.row)
        BY <1>2, <2>2 DEF Longer
      <3> DEFINE n == s.group
                 row == s.row
      <3> HIDE DEF n, row
      <3>2. Longer(n, row)
        BY <3>1 DEF n, row
      <3>3. /\ \A m \in DOMAIN results' : IsList(results'[m])
            /\ \E i : Gains(n, row, i)
        BY <1>3, <3>2, PlaceMore
      <3>4. PICK i : Gains(n, row, i)
        BY <3>3
      <3>5. \A g, k : Maker!Places(g, k)' = Maker!Places(g, k) \cup
                (IF s.row # <<>> /\ n[1] = g /\ row["index"] = k THEN {<<n, i>>} ELSE {})
        BY <2>2, <3>4 DEF Gains
      <3>6. \E x : \A g, k : Maker!Places(g, k)' = Maker!Places(g, k) \cup
                (IF s.row # <<>> /\ n[1] = g /\ row["index"] = k THEN {<<n, x>>} ELSE {})
        BY Zenon, <3>5
      <3> QED BY Zenon, <3>3, <3>6 DEF n, row
    <2> QED BY <2>1, <2>2
  <1>8. PICK i : \A g, k :
          Maker!Places(g, k)' = Maker!Places(g, k) \cup
             (IF s.row # <<>> /\ s.group[1] = g /\ s.row["index"] = k
              THEN {<<s.group, i>>} ELSE {})
    BY <1>7
  <1>9. rows' = rows \ {<<h, j>>} /\ <<h, j>> \in rows
    BY <1>2, <1>4
  <1> HIDE DEF h, j, s
  <1>10. ASSUME NEW g \in Maker!Groups, Maker!KeepsRows(g), NEW k \in DOMAIN table[g]
         PROVE  IF <<g, k>> \in rows' THEN Maker!Places(g, k)' = {} ELSE Once(g, k)'
    <2>1. Maker!NameOf(g, k)' = Maker!NameOf(g, k)
      BY <1>1, NamesStay
    <2>2. IF <<g, k>> \in rows THEN Maker!Places(g, k) = {} ELSE Once(g, k)
      BY <1>3, <1>10
    <2>3. CASE g = h /\ k = j
      <3>1. s.row # <<>> /\ s.group = Maker!NameOf(g, k) /\ s.row["index"] = k /\ s.group[1] = g
        BY <1>5, <1>6, <1>10, <2>3 DEF Belongs
      <3>2. Maker!Places(g, k) = {}
        BY <1>9, <2>2, <2>3
      <3>3. Maker!Places(g, k)' = {<<s.group, i>>}
        BY <1>8, <3>1, <3>2
      <3>4. Once(g, k)'
        <4> DEFINE x == <<s.group, i>>
        <4>1. x[1] = Maker!NameOf(g, k)
          BY <3>1
        <4> HIDE DEF x
        <4> QED BY <2>1, <3>3, <4>1 DEF Once, x
      <3> QED BY <1>9, <2>3, <3>4
    <2>4. CASE ~(g = h /\ k = j)
      <3>1. Maker!Places(g, k)' = Maker!Places(g, k)
        <4>1. CASE g # h
          BY <1>5, <1>8, <4>1 DEF Belongs
        <4>2. CASE g = h /\ k # j
          <5>1. s.row["index"] # k
            BY <1>6, <1>10, <4>2
          <5> QED BY <1>8, <5>1
        <4> QED BY <2>4, <4>1, <4>2
      <3>2. <<g, k>> \in rows' <=> <<g, k>> \in rows
        BY <1>9, <2>4
      <3>3. Once(g, k)' <=> Once(g, k)
        BY <2>1, <3>1 DEF Once
      <3> QED BY <2>2, <3>1, <3>2, <3>3
    <2> QED BY <2>3, <2>4
  <1>11. \A g : Maker!KeepsRows(g)' <=> Maker!KeepsRows(g)
    BY <1>1, NamesStay
  <1>12. Maker!Groups' = Maker!Groups /\ \A g : table'[g] = table[g]
    BY <1>1, NamesStay
  <1>13. \A q \in rows' : q = <<q[1], q[2]>> /\ q[1] \in Maker!Groups /\ q[2] \in DOMAIN table[q[1]]
    BY <1>3, <1>9
  <1>14. Maker!PublishedOnce'
    BY <1>1 DEF Maker!PublishedOnce
  <1> QED BY <1>1, <1>7, <1>10, <1>11, <1>12, <1>13, <1>14 DEF PublishInv

\* The names of the groups that are deleted at the end are no names of new groups.
LEMMA PublishPublishes == PublishInv /\ Maker!Publish => PublishInv'
  <1> SUFFICES ASSUME PublishInv, Maker!Publish PROVE PublishInv'
    OBVIOUS
  <1> DEFINE gone == {<<h>> : h \in {h \in Maker!Groups : ~driver.groups[h].keep}}
  <1>1. /\ stage = "posting" /\ rows = {} /\ stage' = "done" /\ UNCHANGED <<driver, table>>
        /\ results' = Maker!Without(results, gone)
    BY DEF Maker!Publish
  <1>2. /\ DOMAIN results' = DOMAIN results \ gone
        /\ \A n \in DOMAIN results' : results'[n] = results[n]
    BY <1>1 DEF Maker!Without, Maker!Restrict
  <1>3. ASSUME NEW g \in Maker!Groups, Maker!KeepsRows(g), NEW k \in DOMAIN table[g],
               driver.groups[g].keep \/ Maker!NameOf(g, k) # <<g>>
        PROVE  Once(g, k)'
    <2>1. Maker!NameOf(g, k)' = Maker!NameOf(g, k)
      BY <1>1, NamesStay
    <2>2. Once(g, k)
      BY <1>1, <1>3 DEF PublishInv
    <2>3. PICK x \in Maker!Places(g, k) : x[1] = Maker!NameOf(g, k) /\ Maker!Places(g, k) = {x}
      BY <2>2 DEF Once
    <2>4. Maker!NameOf(g, k) \notin gone
      <3> SUFFICES ASSUME NEW h \in Maker!Groups, ~driver.groups[h].keep, Maker!NameOf(g, k) = <<h>>
                   PROVE  FALSE
        OBVIOUS
      <3>1. Maker!NameOf(g, k) = <<g>> \/ \E f, v : Maker!NameOf(g, k) = <<g, f, v>>
        BY DEF Maker!NameOf
      <3>2. CASE Maker!NameOf(g, k) = <<g>>
        <4>1. g = h
          BY <3>2
        <4> QED BY <1>3, <3>2, <4>1
      <3>3. ASSUME NEW f, NEW v, Maker!NameOf(g, k) = <<g, f, v>> PROVE FALSE
        <4>1. Len(<<g, f, v>>) = 3 /\ Len(<<h>>) = 1
          OBVIOUS
        <4> QED BY <3>3, <4>1
      <3> QED BY <3>1, <3>2, <3>3
    <2> HIDE DEF gone
    <2>5. x \in Maker!Places(g, k)'
      <3>1. /\ x = <<x[1], x[2]>> /\ x[1] \in DOMAIN results /\ x[2] \in DOMAIN results[x[1]]
            /\ x[1][1] = g /\ results[x[1]][x[2]]["index"] = k
        BY <2>3, PlaceIs
      <3>2. x[1] \in DOMAIN results'
        BY <1>2, <2>3, <2>4, <3>1
      <3> QED BY <1>2, <3>1, <3>2 DEF Maker!Places
    <2>6. Maker!Places(g, k)' \subseteq Maker!Places(g, k)
      BY <1>2 DEF Maker!Places
    <2> QED BY <2>1, <2>3, <2>5, <2>6 DEF Once
  <1>4. Maker!PublishedOnce'
    <2>1. Maker!Groups' = Maker!Groups /\ \A g : Maker!KeepsRows(g)' <=> Maker!KeepsRows(g)
      BY <1>1, NamesStay
    <2>2. \A g, k : Maker!NameOf(g, k)' = Maker!NameOf(g, k)
      BY <1>1, NamesStay
    <2> QED BY <1>1, <1>3, <2>1, <2>2 DEF Maker!PublishedOnce, Once
  <1> QED BY <1>1, <1>4 DEF PublishInv

\* Every step keeps the invariant.
LEMMA PublishStep == PublishInv /\ [Maker!Next]_(Maker!vars) => PublishInv'
  <1> SUFFICES ASSUME PublishInv, [Maker!Next]_(Maker!vars) PROVE PublishInv'
    OBVIOUS
  <1>1. CASE Maker!StartGroup \/ Maker!Define
    <2>1. stage = "processing" /\ UNCHANGED <<driver, results>>
      BY <1>1 DEF Maker!StartGroup, Maker!Define, Maker!Raised
    <2>2. stage' = "processing" \/ stage' = Maker!RefNotFound
      BY <1>1 DEF Maker!StartGroup, Maker!Define, Maker!Raised
    <2> QED BY <2>1, <2>2 DEF PublishInv, Maker!PublishedOnce, Maker!RefNotFound
  <1>2. CASE Maker!Reorganise
    BY <1>2, ReorganisePublishes
  <1>3. CASE Maker!Post
    BY <1>3, PostPublishes
  <1>4. CASE Maker!Publish
    BY <1>4, PublishPublishes
  <1>5. CASE UNCHANGED Maker!vars
    <2>1. UNCHANGED <<driver, table, rows, results, stage>>
      BY <1>5 DEF Maker!vars
    <2>2. Maker!Groups' = Maker!Groups /\ \A g : Maker!KeepsRows(g)' <=> Maker!KeepsRows(g)
      BY <2>1, NamesStay
    <2>3. \A g, k : Maker!NameOf(g, k)' = Maker!NameOf(g, k)
      BY <2>1, NamesStay
    <2>4. \A g, k : Maker!Places(g, k)' = Maker!Places(g, k)
      BY <2>1 DEF Maker!Places
    <2>5. \A g, k : Once(g, k)' <=> Once(g, k)
      BY <2>3, <2>4 DEF Once
    <2> QED BY <2>1, <2>2, <2>3, <2>4, <2>5 DEF PublishInv, Maker!PublishedOnce
  <1> QED BY <1>1, <1>2, <1>3, <1>4, <1>5 DEF Maker!Next, Maker!Finished

\* Whatever the driver, and in whatever order groups and rows are taken: each row of a group that
\* gives up none is published, once, in the group that its own field names (post_remap, and the
\* end of fetch).
THEOREM RowsAlwaysPublishedOnce == Maker!Spec => []Maker!PublishedOnce
  <1>1. PublishInv => Maker!PublishedOnce
    BY DEF PublishInv
  <1> QED BY InitPublishes, PublishStep, <1>1, PTL DEF Maker!Spec

\* Both: what the poll of a device returns, fields and rows, is what the definitions of its
\* driver say of the device (Gatherer.process, post_remap and fetch).
THEOREM ResultsAlwaysSound == Maker!Spec => []ResultsSound
  <1>1. Maker!FieldsSound /\ Maker!PublishedOnce => ResultsSound
    BY DEF ResultsSound, Maker!ResultsSound
  <1> QED BY FieldsAlwaysSound, RowsAlwaysPublishedOnce, <1>1, PTL
===============================================================================
