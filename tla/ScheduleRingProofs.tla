-------------------------- MODULE ScheduleRingProofs --------------------------
(***************************************************************************)
(* Theorems about the rings of the schedulers, for any number of hosts and *)
(* tests, any periods, and any loss of the record in memcached.            *)
(***************************************************************************)
EXTENDS ScheduleRing, WellFoundedInduction, TLAPS

-----------------------------------------------------------------------------
(* Type correctness *)

\* A host's own time is put into a well typed record.
LEMMA StampedTyped ==
    ASSUME TypeOK, NEW h \in Hosts
    PROVE  /\ Stamped(h) \in Record
           /\ DOMAIN Stamped(h) = DOMAIN copy[h] \cup {h}
           /\ Stamped(h)[h] = 0
           /\ \A g \in DOMAIN copy[h] \ {h} : Stamped(h)[g] = copy[h][g]
  <1>1. PICK H \in SUBSET Hosts : copy[h] \in [H -> Age]
    BY DEF TypeOK, Record
  <1>2. 0 \in Age
    BY RingAssumption DEF Age
  <1>3. Stamped(h) \in [H \cup {h} -> Age]
    BY <1>1, <1>2 DEF Stamped
  <1>4. H \cup {h} \in SUBSET Hosts
    OBVIOUS
  <1>5. Stamped(h) \in Record
    BY <1>3, <1>4 DEF Record
  <1> QED BY <1>1, <1>5 DEF Stamped

\* Ageing a record by one unit of time.
LEMMA AgedTyped ==
    ASSUME NEW H \in SUBSET Hosts, NEW r \in [H -> Age]
    PROVE  /\ Aged(r) \in [H -> Age]
           /\ \A h \in H : Aged(r)[h] = Older(r[h])
  <1>1. \A n \in Age : Older(n) \in Age
    BY RingAssumption DEF Age, Older
  <1> QED BY <1>1 DEF Aged

\* The record without entries is a record.
LEMMA NoEntriesTyped == NoEntries \in Record /\ DOMAIN NoEntries = {}
  <1>1. NoEntries \in [{} -> Age]
    BY DEF NoEntries
  <1>2. {} \in SUBSET Hosts
    OBVIOUS
  <1> QED BY <1>1, <1>2 DEF Record

\* The initial state is well typed ...
LEMMA TypeInit == Init => TypeOK
  BY RingAssumption, NoEntriesTyped DEF Init, TypeOK, Age

\* ... and so is every state after it.
LEMMA TypeNext == TypeOK /\ [Next]_vars => TypeOK'
  <1> SUFFICES ASSUME TypeOK, [Next]_vars PROVE TypeOK'
    OBVIOUS
  <1> USE DEF TypeOK
  <1>1. 0 \in Age /\ 0 \in 0 .. UpdatePeriod
    BY RingAssumption DEF Age
  <1>2. ASSUME NEW h \in Hosts, Start(h) \/ Fetch(h) PROVE TypeOK'
    <2>1. Asked(h)
      BY <1>2 DEF Start, Fetch
    <2>2. Fetched \in Record
      BY NoEntriesTyped DEF Fetched
    <2> QED BY <1>1, <2>1, <2>2 DEF Asked
  <1>3. ASSUME NEW h \in Hosts, Store(h) PROVE TypeOK'
    <2>1. RingOf(h) \in SUBSET Hosts
      BY DEF RingOf
    <2> QED BY Zenon, <1>1, <1>3, <2>1, StampedTyped, NoEntriesTyped DEF Store
  <1>4. ASSUME NEW h \in Hosts, Crash(h) PROVE TypeOK'
    BY <1>1, <1>4, NoEntriesTyped DEF Crash
  <1>5. CASE LoseStates
    BY <1>5 DEF LoseStates
  <1>6. CASE Tick
    <2>1. ASSUME NEW r \in Record PROVE Aged(r) \in Record
      <3>1. PICK H \in SUBSET Hosts : r \in [H -> Age]
        BY DEF Record
      <3>2. Aged(r) \in [H -> Age]
        BY <3>1, AgedTyped
      <3> QED BY <3>2 DEF Record
    <2>2. silent' \in [Hosts -> Age]
      BY Zenon, <1>6, AgedTyped DEF Tick
    <2>3. copy' \in [Hosts -> Record] /\ states' \in Record \cup {None}
      BY <1>6, <2>1 DEF Tick
    <2>4. age' \in [Hosts -> 0 .. UpdatePeriod]
      BY <1>6, RingAssumption DEF Tick
    <2> QED BY <1>6, <2>2, <2>3, <2>4 DEF Tick
  <1>7. CASE UNCHANGED vars
    BY <1>7 DEF vars
  <1> QED BY <1>2, <1>3, <1>4, <1>5, <1>6, <1>7 DEF Next

\* update_ring keeps every part of its state well typed: in particular the
\* record in memcached, which all hosts write, names hosts only.
THEOREM RingTypeCorrect == Spec => []TypeOK
  BY TypeInit, TypeNext, PTL DEF Spec

-----------------------------------------------------------------------------
(* Every test is somebody's *)

\* A host that has a ring is running and is in it: update_ring puts the
\* host's own time into the record before it looks at the record.
OwnRing == \A h \in Hosts : ring[h] # {} => Running(h) /\ h \in ring[h]

\* No step gives a host a ring that it is not in.
LEMMA OwnRingNext == TypeOK /\ OwnRing /\ [Next]_vars => OwnRing'
  <1> SUFFICES ASSUME TypeOK, OwnRing, [Next]_vars PROVE OwnRing'
    OBVIOUS
  <1> USE DEF TypeOK, OwnRing, Running
  <1>1. ASSUME NEW h \in Hosts, Start(h) \/ Fetch(h) PROVE OwnRing'
    BY <1>1 DEF Start, Fetch, Asked
  <1>2. ASSUME NEW h \in Hosts, Store(h) PROVE OwnRing'
    <2>1. h \in DOMAIN Stamped(h) /\ Stamped(h)[h] = 0
      BY Zenon, StampedTyped
    <2>2. h \in RingOf(h)
      BY <2>1, RingAssumption DEF RingOf
    <2> QED BY <1>2, <2>2 DEF Store
  <1>3. ASSUME NEW h \in Hosts, Crash(h) PROVE OwnRing'
    BY <1>3 DEF Crash
  <1>4. CASE LoseStates
    BY <1>4 DEF LoseStates
  <1>5. CASE Tick
    BY <1>5 DEF Tick
  <1>6. CASE UNCHANGED vars
    BY <1>6 DEF vars
  <1> QED BY <1>1, <1>2, <1>3, <1>4, <1>5, <1>6 DEF Next

\* A set of natural numbers has a least element.
LEMMA SmallestNat ==
    ASSUME NEW S \in SUBSET Nat, S # {}
    PROVE  \E d \in S : \A x \in S : d <= x
  <1>1. PICK d \in S : \A x \in S : <<x, d>> \notin OpToRel(<, Nat)
    BY Zenon, NatLessThanWellFounded, WFMin
  <1>2. \A x \in S : ~(x < d)
    BY Zenon, <1>1 DEF OpToRel
  <1> QED BY <1>2

\* A host of R that comes first among R is the owner.
LEMMA OwnerIsFirst ==
    ASSUME NEW i \in Items, NEW R \in SUBSET Hosts, NEW m \in R,
           \A g \in R : Rank[i][m] <= Rank[i][g]
    PROVE  Owner(R, i) = m
  <1>1. \E h \in R : \A g \in R : Rank[i][h] <= Rank[i][g]
    OBVIOUS
  <1>2. Owner(R, i) \in R /\ \A g \in R : Rank[i][Owner(R, i)] <= Rank[i][g]
    BY <1>1 DEF Owner
  <1>3. Rank[i][Owner(R, i)] \in Nat /\ Rank[i][m] \in Nat
    BY <1>2, RingAssumption
  <1>4. Rank[i][Owner(R, i)] = Rank[i][m]
    BY <1>2, <1>3
  <1> QED BY <1>2, <1>4, RingAssumption

\* The host that comes first among those that have a ring finds itself first
\* in its own ring, whatever else is in it.
LEMMA OwnRingSuffices == TypeOK /\ OwnRing => NoneNeglected
  <1> DEFINE ready == {h \in Hosts : ring[h] # {}}
  <1> SUFFICES ASSUME TypeOK, OwnRing, ready # {},
                      \A h \in ready : ring[h] \subseteq ready,
                      NEW i \in Items
               PROVE  Served(i)
    BY DEF NoneNeglected
  <1>1. {Rank[i][h] : h \in ready} \in SUBSET Nat
    BY RingAssumption
  <1>2. PICK m \in ready : \A g \in ready : Rank[i][m] <= Rank[i][g]
    <2> DEFINE ranks == {Rank[i][h] : h \in ready}
    <2>1. ranks # {} /\ ranks \in SUBSET Nat
      BY <1>1
    <2> HIDE DEF ranks
    <2>2. PICK d \in ranks : \A x \in ranks : d <= x
      BY <2>1, SmallestNat
    <2> QED BY <2>2 DEF ranks
  <1>3. m \in ring[m] /\ Running(m)
    BY DEF OwnRing
  <1>4. Owner(ring[m], i) = m
    <2>1. ring[m] \in SUBSET Hosts
      BY DEF TypeOK
    <2>2. \A g \in ring[m] : Rank[i][m] <= Rank[i][g]
      BY Zenon, <1>2
    <2> QED BY <1>3, <2>1, <2>2, OwnerIsFirst
  <1> QED BY <1>3, <1>4 DEF Served, Serves

\* However much the rings disagree, and whatever memcached loses, a test is
\* left out only because of a host in somebody's ring that is down.
THEOREM NobodyNeglects == Spec => []NoneNeglected
  <1>1. Init => OwnRing
    BY DEF Init, OwnRing
  <1> QED
    BY <1>1, TypeInit, TypeNext, OwnRingNext, OwnRingSuffices, PTL DEF Spec

-----------------------------------------------------------------------------
(* Old records do not revive a host *)

\* No record, in memcached or on its way back to it, makes a host younger
\* than it is.
HeardInv ==
    /\ \A h \in Hosts : \A g \in DOMAIN copy[h] : silent[g] <= copy[h][g]
    /\ states # None => \A g \in DOMAIN states : silent[g] <= states[g]

\* Storing a record, old as it may be, only makes hosts younger that are.
LEMMA HeardNext == TypeOK /\ HeardInv /\ [Next]_vars => HeardInv'
  <1> SUFFICES ASSUME TypeOK, HeardInv, [Next]_vars PROVE HeardInv'
    OBVIOUS
  <1> USE DEF HeardInv
  <1>1. ASSUME NEW h \in Hosts, Start(h) \/ Fetch(h) PROVE HeardInv'
    <2>1. Asked(h)
      BY <1>1 DEF Start, Fetch
    <2>2. \A g \in DOMAIN Fetched : silent[g] <= Fetched[g]
      BY NoEntriesTyped DEF Fetched
    <2> QED BY <2>1, <2>2 DEF Asked, TypeOK
  <1>2. ASSUME NEW h \in Hosts, Store(h) PROVE HeardInv'
    <2>1. \A H \in SUBSET Hosts : \A r \in [H -> Age] : DOMAIN r = H
      OBVIOUS
    <2>2. \A k \in Hosts : DOMAIN copy[k] \subseteq Hosts
                            /\ \A g \in DOMAIN copy[k] : copy[k][g] \in Age
      BY DEF TypeOK, Record
    <2>3. \A g \in Hosts : silent'[g] = IF g = h THEN 0 ELSE silent[g]
      BY <1>2 DEF Store, TypeOK
    <2>4. \A k \in Hosts : copy'[k] = IF k = h THEN NoEntries ELSE copy[k]
      BY <1>2 DEF Store, TypeOK
    <2>5. \A k \in Hosts : \A g \in DOMAIN copy'[k] : silent'[g] <= copy'[k][g]
      BY <2>2, <2>3, <2>4, NoEntriesTyped DEF Age
    <2>6. \A g \in DOMAIN Stamped(h) : silent'[g] <= Stamped(h)[g]
      <3>1. silent'[h] <= Stamped(h)[h]
        <4>1. silent'[h] = 0
          BY <2>3
        <4>2. Stamped(h)[h] = 0
          BY Zenon, StampedTyped
        <4> QED BY <4>1, <4>2
      <3>2. ASSUME NEW g \in DOMAIN copy[h] \ {h} PROVE silent'[g] <= Stamped(h)[g]
        <4>1. Stamped(h)[g] = copy[h][g]
          BY Zenon, StampedTyped
        <4>2. silent'[g] = silent[g]
          BY <2>2, <2>3
        <4> QED BY <4>1, <4>2
      <3>3. DOMAIN Stamped(h) = DOMAIN copy[h] \cup {h}
        BY Zenon, StampedTyped
      <3> QED BY <3>1, <3>2, <3>3
    <2>7. states' = Stamped(h)
      BY <1>2 DEF Store
    <2> QED BY <2>5, <2>6, <2>7
  <1>3. ASSUME NEW h \in Hosts, Crash(h) PROVE HeardInv'
    BY <1>3, NoEntriesTyped DEF Crash, TypeOK
  <1>4. CASE LoseStates
    BY <1>4 DEF LoseStates
  <1>5. CASE Tick
    <2>1. \A m, n \in Age : m <= n => Older(m) <= Older(n)
      BY RingAssumption DEF Age, Older
    <2>2. \A g \in Hosts : silent[g] \in Age /\ silent'[g] = Older(silent[g])
      <3>1. silent \in [Hosts -> Age] /\ silent' = Aged(silent)
        BY <1>5 DEF Tick, TypeOK
      <3>2. \A g \in Hosts : Aged(silent)[g] = Older(silent[g])
        BY <3>1, AgedTyped
      <3> QED BY <3>1, <3>2
    <2>3. ASSUME NEW r \in Record, \A g \in DOMAIN r : silent[g] <= r[g]
          PROVE  \A g \in DOMAIN Aged(r) : silent'[g] <= Aged(r)[g]
      <3>1. PICK H \in SUBSET Hosts : r \in [H -> Age]
        BY DEF Record
      <3>2. Aged(r) \in [H -> Age] /\ \A g \in H : Aged(r)[g] = Older(r[g])
        BY <3>1, AgedTyped
      <3> QED BY <2>1, <2>2, <2>3, <3>1, <3>2
    <2>4. \A h \in Hosts : copy[h] \in Record /\ copy'[h] = Aged(copy[h])
      BY <1>5 DEF Tick, TypeOK
    <2>5. states' # None => states \in Record /\ states' = Aged(states)
      BY <1>5 DEF Tick, TypeOK
    <2>6. \A h \in Hosts : \A g \in DOMAIN copy'[h] : silent'[g] <= copy'[h][g]
      BY <2>3, <2>4
    <2>7. states' # None => \A g \in DOMAIN states' : silent'[g] <= states'[g]
      <3> SUFFICES ASSUME states' # None
                   PROVE  \A g \in DOMAIN states' : silent'[g] <= states'[g]
        OBVIOUS
      <3>1. states # None
        BY <1>5 DEF Tick
      <3> QED BY <2>3, <2>5, <3>1
    <2> QED BY <2>6, <2>7
  <1>6. CASE UNCHANGED vars
    BY <1>6 DEF vars
  <1> QED BY <1>1, <1>2, <1>3, <1>4, <1>5, <1>6 DEF Next

\* A scheduler that stores its ring takes nobody in who was silent too long.
LEMMA NewcomersStep ==
    TypeOK /\ HeardInv /\ [Next]_vars =>
        \A g, h \in Hosts : g \in ring'[h] \ ring[h] => silent'[g] <= DeadTime
  <1> SUFFICES ASSUME TypeOK, HeardInv, [Next]_vars, NEW g \in Hosts, NEW h \in Hosts,
                      g \in ring'[h] \ ring[h]
               PROVE  silent'[g] <= DeadTime
    OBVIOUS
  <1>1. Store(h)
    <2>1. DOMAIN ring = Hosts /\ ring'[h] # ring[h] /\ ring'[h] # {}
      BY DEF TypeOK
    <2>2. \A k \in Hosts : Fetch(k) \/ Start(k) => UNCHANGED ring
      BY DEF Fetch, Start, Asked
    <2>3. UNCHANGED vars \/ LoseStates \/ Tick => UNCHANGED ring
      BY DEF vars, LoseStates, Tick
    <2>4. \A k \in Hosts : Store(k) => ring' = [ring EXCEPT ![k] = RingOf(k)]
      BY DEF Store
    <2>5. \A k \in Hosts : Crash(k) => ring' = [ring EXCEPT ![k] = {}]
      BY DEF Crash
    <2>6. \E k \in Hosts : Store(k) \/ Crash(k)
      BY Zenon, <2>1, <2>2, <2>3 DEF Next
    <2>7. PICK k \in Hosts : Store(k) \/ Crash(k)
      BY <2>6
    <2>8. k = h
      BY <2>1, <2>4, <2>5, <2>7
    <2> QED BY <2>1, <2>5, <2>7, <2>8
  <1>2. g \in RingOf(h) /\ silent' = [silent EXCEPT ![h] = 0]
    BY <1>1 DEF Store, TypeOK
  <1>3. g \in DOMAIN Stamped(h) /\ Stamped(h)[g] <= DeadTime
    BY <1>2 DEF RingOf
  <1>4. CASE g = h
    BY <1>2, <1>4, RingAssumption DEF TypeOK
  <1>5. CASE g # h
    <2>0. /\ DOMAIN Stamped(h) = DOMAIN copy[h] \cup {h}
          /\ \A k \in DOMAIN copy[h] \ {h} : Stamped(h)[k] = copy[h][k]
      BY Zenon, StampedTyped
    <2>1. g \in DOMAIN copy[h] /\ copy[h][g] <= DeadTime
      BY Zenon, <1>3, <1>5, <2>0
    <2>2. copy[h][g] \in Int /\ silent[g] \in Int
      BY <2>1 DEF TypeOK, Record, Age
    <2>3. silent[g] <= copy[h][g]
      BY <2>1 DEF HeardInv
    <2>4. silent'[g] = silent[g]
      BY <1>2, <1>5 DEF TypeOK
    <2> QED BY <2>1, <2>2, <2>3, <2>4, RingAssumption
  <1> QED BY <1>4, <1>5

\* Storing an old copy of the record over a newer one brings no dead host
\* back into a ring.
THEOREM NewcomersAreAlive == Spec => NewcomersAlive
  <1>1. Init => HeardInv
    BY NoEntriesTyped DEF Init, HeardInv
  <1> QED
    BY <1>1, TypeInit, TypeNext, HeardNext, NewcomersStep, PTL DEF Spec, NewcomersAlive

===============================================================================
