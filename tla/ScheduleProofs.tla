---------------------------- MODULE ScheduleProofs ----------------------------
(***************************************************************************)
(* Theorems about the scheduler process: it is well typed, it has at most  *)
(* one entry for each test that did not come back too early, and it does   *)
(* not forget a test, provided no period is zero.                          *)
(***************************************************************************)
EXTENDS Schedule, WellFoundedInduction, TLAPS

-----------------------------------------------------------------------------
(* Bags *)

\* Adding one copy of the elements of S.
LEMMA AddedBag ==
    ASSUME NEW B, IsABag(B), NEW S
    PROVE  LET C == B (+) SetToBag(S) IN
           /\ IsABag(C)
           /\ DOMAIN C = DOMAIN B \cup S
           /\ \A e \in DOMAIN B \ S : C[e] = B[e]
           /\ \A e \in S \ DOMAIN B : C[e] = 1
  <1> DEFINE C == B (+) SetToBag(S)
  <1>1. DOMAIN C = DOMAIN B \cup S
    BY DEF SetToBag, (+)
  <1>2. \A e \in DOMAIN C :
            C[e] = (IF e \in DOMAIN B THEN B[e] ELSE 0)
                    + (IF e \in S THEN 1 ELSE 0)
    BY DEF SetToBag, (+)
  <1>3. \A e \in DOMAIN B : B[e] \in Nat /\ B[e] > 0
    BY DEF IsABag
  <1>4. C = [e \in DOMAIN C |-> C[e]]
    BY DEF SetToBag, (+)
  <1>5. IsABag(C)
    <2>1. \A e \in DOMAIN C : C[e] \in {n \in Nat : n > 0}
      BY <1>1, <1>2, <1>3
    <2> HIDE DEF C
    <2> QED BY <2>1, <1>4 DEF IsABag
  <1> QED BY <1>1, <1>2, <1>3, <1>5

\* Removing one copy of x.
LEMMA RemovedBag ==
    ASSUME NEW B, IsABag(B), NEW x \in DOMAIN B
    PROVE  LET C == B (-) SetToBag({x}) IN
           /\ IsABag(C)
           /\ DOMAIN C \subseteq DOMAIN B
           /\ DOMAIN B \ {x} \subseteq DOMAIN C
           /\ \A e \in DOMAIN C \ {x} : C[e] = B[e]
           /\ B[x] = 1 => x \notin DOMAIN C
  <1> DEFINE C == B (-) SetToBag({x})
  <1> DEFINE left(e) == IF e = x THEN B[e] - 1 ELSE B[e]
  <1>1. \A e \in DOMAIN B : B[e] \in Nat /\ B[e] > 0
    BY DEF IsABag
  <1>2. C = [e \in {d \in DOMAIN B : left(d) > 0} |-> left(e)]
    BY DEF SetToBag, (-)
  <1> HIDE DEF C
  <1>3. \A e \in DOMAIN B : left(e) \in Int
    BY <1>1
  <1>4. IsABag(C)
    BY <1>2, <1>3 DEF IsABag
  <1>5. DOMAIN C = {d \in DOMAIN B : left(d) > 0}
    BY <1>2
  <1>6. \A e \in DOMAIN C \ {x} : C[e] = B[e]
    BY <1>2
  <1>7. DOMAIN B \ {x} \subseteq DOMAIN C
    BY <1>1, <1>5
  <1>8. B[x] = 1 => x \notin DOMAIN C
    BY <1>5
  <1> QED BY <1>4, <1>5, <1>6, <1>7, <1>8 DEF C

\* Every entry a unit of time later.
LEMMA TickedBag ==
    ASSUME NEW B, IsABag(B), DOMAIN B \subseteq [item : Items, due : Int]
    PROVE  LET C == [e \in {Entry(f.item, f.due - 1) : f \in DOMAIN B} |->
                        B[Entry(e.item, e.due + 1)]] IN
           /\ IsABag(C)
           /\ DOMAIN C = {Entry(f.item, f.due - 1) : f \in DOMAIN B}
           /\ DOMAIN C \subseteq [item : Items, due : Int]
           /\ \A e \in DOMAIN C : /\ Entry(e.item, e.due + 1) \in DOMAIN B
                                  /\ C[e] = B[Entry(e.item, e.due + 1)]
  <1> DEFINE S == {Entry(f.item, f.due - 1) : f \in DOMAIN B}
  <1> DEFINE C == [e \in S |-> B[Entry(e.item, e.due + 1)]]
  <1>1. \A e \in S : /\ Entry(e.item, e.due + 1) \in DOMAIN B
                     /\ e \in [item : Items, due : Int]
    <2> SUFFICES ASSUME NEW f \in DOMAIN B
                 PROVE  LET e == Entry(f.item, f.due - 1) IN
                        /\ Entry(e.item, e.due + 1) \in DOMAIN B
                        /\ e \in [item : Items, due : Int]
      OBVIOUS
    <2>1. f \in [item : Items, due : Int]
      OBVIOUS
    <2>2. f = [item |-> f.item, due |-> (f.due - 1) + 1]
      BY <2>1
    <2> QED BY <2>1, <2>2 DEF Entry
  <1>2. IsABag(C)
    BY <1>1 DEF IsABag
  <1> QED BY <1>1, <1>2

-----------------------------------------------------------------------------
(* The choices of the process *)

\* What a choice of delays gives: a natural number for each test.
LEMMA ChoiceTyped ==
    ASSUME NEW S \in SUBSET Items, NEW D, \A i \in S : D[i] \subseteq Nat,
           NEW due \in Choices(S, D)
    PROVE  /\ DOMAIN due = S
           /\ \A i \in S : due[i] \in Nat
  BY DEF Choices

\* What is added to the heap: one entry for each test of S.
LEMMA AddedEntries ==
    ASSUME TypeOK,
           NEW S \in SUBSET Items, NEW D, \A i \in S : D[i] \subseteq Nat,
           NEW due \in Choices(S, D), heap' = heap (+) Entries(due)
    PROVE  /\ IsABag(heap')
           /\ DOMAIN heap' \subseteq [item : Items, due : Int]
           /\ DOMAIN heap \subseteq DOMAIN heap'
           /\ \A i \in S : Entry(i, due[i]) \in DOMAIN heap'
           /\ \A e \in DOMAIN heap' :
                e.item \notin S => e \in DOMAIN heap /\ heap'[e] = heap[e]
           /\ \A e \in DOMAIN heap' : e \notin DOMAIN heap =>
                e = Entry(e.item, due[e.item]) /\ heap'[e] = 1
  <1> DEFINE N == {Entry(i, due[i]) : i \in S}
  <1> DEFINE C == heap (+) SetToBag(N)
  <1>1. DOMAIN due = S /\ \A i \in S : due[i] \in Nat
    BY ChoiceTyped
  <1>2. heap' = C
    BY <1>1 DEF Entries
  <1>3. N \subseteq [item : Items, due : Int]
    BY <1>1 DEF Entry
  <1>4. \A e \in N : e.item \in S /\ e = Entry(e.item, due[e.item])
    BY DEF Entry
  <1>5. IsABag(heap) /\ DOMAIN heap \subseteq [item : Items, due : Int]
    BY DEF TypeOK
  <1>6. /\ IsABag(C)
        /\ DOMAIN C = DOMAIN heap \cup N
        /\ \A e \in DOMAIN heap \ N : C[e] = heap[e]
        /\ \A e \in N \ DOMAIN heap : C[e] = 1
    BY Zenon, <1>5, AddedBag
  <1>7. \A i \in S : Entry(i, due[i]) \in N
    OBVIOUS
  <1> HIDE DEF C, N
  <1>8. \A e \in DOMAIN C : e.item \notin S => e \in DOMAIN heap /\ C[e] = heap[e]
    BY <1>4, <1>6
  <1>9. \A e \in DOMAIN C : e \notin DOMAIN heap =>
            e = Entry(e.item, due[e.item]) /\ C[e] = 1
    BY <1>4, <1>6
  <1> QED BY <1>2, <1>3, <1>5, <1>6, <1>7, <1>8, <1>9

\* A non-empty set of numbers has a smallest member.
LEMMA SmallestNat ==
    ASSUME NEW S \in SUBSET Nat, S # {}
    PROVE  \E d \in S : \A x \in S : d <= x
  <1>1. PICK d \in S : \A x \in S : <<x, d>> \notin OpToRel(<, Nat)
    BY NatLessThanWellFounded, WFMin
  <1>2. \A x \in S : ~(x < d)
    BY Zenon, <1>1 DEF OpToRel
  <1> QED BY <1>2

\* The delays of every period that is not zero are natural numbers.
LEMMA DelaysTyped ==
    /\ \A p \in Periods \ {0} : Delays[p] \subseteq Nat /\ Delays[p] # {}
    /\ \A p \in Periods \ {0} : FirstDelays(p) \subseteq Nat
  BY ScheduleAssumption DEF FirstDelays

\* A test that is scheduled has a period, and it is not zero.
LEMMA ScheduledPeriod ==
    ASSUME NEW conf \in Configuration, NEW i \in Scheduled(conf)
    PROVE  i \in Items /\ conf[i] \in Periods \ {0}
  BY DEF Configuration, Scheduled

\* What a turn of test i does to the heap.
LEMMA Popped ==
    ASSUME TypeOK, NEW i \in Items, PopAndReadd(i)
    PROVE  /\ IsABag(heap') /\ DOMAIN heap' \subseteq [item : Items, due : Int]
           /\ \A f \in DOMAIN heap : f.item # i => f \in DOMAIN heap'
           /\ \A f \in DOMAIN heap' :
                    f.item # i => f \in DOMAIN heap /\ heap'[f] = heap[f]
           /\ i \in Scheduled(nodes) => \E f \in DOMAIN heap' : f.item = i
           /\ (\A e, f \in DOMAIN heap :
                    e.item = i /\ f.item = i => e = f /\ heap[e] = 1)
              => (\A e, f \in DOMAIN heap' :
                    e.item = i /\ f.item = i => e = f /\ heap'[e] = 1)
           /\ \E e \in DOMAIN heap :
                /\ e.item = i /\ e.due <= 0
                /\ \A f \in DOMAIN heap' : f.item = i =>
                    \/ f \in DOMAIN heap /\ (f = e => heap[e] # 1)
                    \/ i \in Scheduled(nodes) /\ f.due \in Delays[nodes[i]]
  <1> USE DEF TypeOK
  <1>1. PICK e \in DOMAIN heap :
            /\ e.item = i /\ e.due <= 0
            /\ IF i \in Scheduled(nodes)
               THEN \E d \in Delays[nodes[i]] :
                        heap' = (heap (-) SetToBag({e})) (+) SetToBag({Entry(i, d)})
               ELSE heap' = heap (-) SetToBag({e})
    BY Zenon DEF PopAndReadd, BagToSet
  <1> DEFINE R == heap (-) SetToBag({e})
  <1>2. /\ IsABag(R)
        /\ DOMAIN R \subseteq DOMAIN heap
        /\ DOMAIN heap \ {e} \subseteq DOMAIN R
        /\ \A f \in DOMAIN R \ {e} : R[f] = heap[f]
        /\ heap[e] = 1 => e \notin DOMAIN R
    BY Zenon, RemovedBag
  <1> HIDE DEF R
  <1>3. CASE i \notin Scheduled(nodes)
    <2>1. heap' = R
      BY <1>1, <1>3 DEF R
    <2>2. \A f \in DOMAIN heap' : f \in DOMAIN heap /\ (f = e => heap[e] # 1)
      BY <1>2, <2>1
    <2>3. \A f, g \in DOMAIN heap' : f \in DOMAIN heap /\ (f # e => heap'[f] = heap[f])
      BY <1>2, <2>1
    <2> QED BY <1>1, <1>2, <1>3, <2>1, <2>2, <2>3
  <1>4. CASE i \in Scheduled(nodes)
    <2>1. PICK d \in Delays[nodes[i]] : heap' = R (+) SetToBag({Entry(i, d)})
      BY Zenon, <1>1, <1>4 DEF R
    <2> DEFINE new == Entry(i, d)
    <2>2. new \in [item : Items, due : Int] /\ new.item = i /\ new.due = d
      BY <1>4, DelaysTyped, ScheduledPeriod DEF Entry
    <2>3. /\ IsABag(heap')
          /\ DOMAIN heap' = DOMAIN R \cup {new}
          /\ \A f \in DOMAIN R \ {new} : heap'[f] = R[f]
          /\ new \notin DOMAIN R => heap'[new] = 1
      <3> DEFINE N == {new}
      <3> DEFINE C == R (+) SetToBag(N)
      <3> HIDE DEF N
      <3>1. IsABag(R)
        BY <1>2
      <3>2. /\ IsABag(C)
            /\ DOMAIN C = DOMAIN R \cup N
            /\ \A f \in DOMAIN R \ N : C[f] = R[f]
            /\ \A f \in N \ DOMAIN R : C[f] = 1
        BY Zenon, <3>1, AddedBag
      <3>3. heap' = C
        BY <2>1 DEF N
      <3> HIDE DEF new, C
      <3> QED BY <3>2, <3>3 DEF N
    <2> HIDE DEF new
    <2>4. IsABag(heap') /\ DOMAIN heap' \subseteq [item : Items, due : Int]
      BY <1>2, <2>2, <2>3
    <2>5. \A f \in DOMAIN heap : f.item # i => f \in DOMAIN heap'
      BY <1>1, <1>2, <2>3
    <2>6. \A f \in DOMAIN heap' :
                f.item # i => f \in DOMAIN heap /\ heap'[f] = heap[f]
      BY <1>1, <1>2, <2>2, <2>3
    <2>7. \E f \in DOMAIN heap' : f.item = i
      BY <2>2, <2>3
    <2>8. ASSUME \A f, g \in DOMAIN heap :
                    f.item = i /\ g.item = i => f = g /\ heap[f] = 1
          PROVE  \A f, g \in DOMAIN heap' :
                    f.item = i /\ g.item = i => f = g /\ heap'[f] = 1
      <3>1. heap[e] = 1 /\ \A f \in DOMAIN heap : f.item = i => f = e
        BY <1>1, <2>8
      <3>2. \A f \in DOMAIN R : f.item # i
        BY <1>2, <3>1
      <3> QED BY <2>2, <2>3, <3>2
    <2>9. \A f \in DOMAIN heap' :
                \/ f \in DOMAIN heap /\ (f = e => heap[e] # 1)
                \/ f.due \in Delays[nodes[i]]
      BY <1>2, <2>2, <2>3
    <2> QED BY <1>1, <1>4, <2>4, <2>5, <2>6, <2>7, <2>8, <2>9
  <1> QED BY <1>3, <1>4

-----------------------------------------------------------------------------
(* Type correctness *)

\* A process that begins is well typed ...
LEMMA TypeInit == Init => TypeOK
  BY ScheduleAssumption DEF Init, TypeOK, Configuration, EmptyBag, SetToBag, IsABag

\* ... and so it stays, whatever its loop does.
LEMMA TypeNext == TypeOK /\ [Next]_vars => TypeOK'
  <1> SUFFICES ASSUME TypeOK, [Next]_vars PROVE TypeOK'
    OBVIOUS
  <1> USE DEF TypeOK
  <1>1. CASE Start
    <2> DEFINE S == Scheduled(nodes)
    <2> DEFINE D == [i \in S |-> FirstDelays(nodes[i])]
    <2>1. S \in SUBSET Items /\ \A i \in S : D[i] \subseteq Nat
      BY DelaysTyped, ScheduledPeriod DEF Scheduled
    <2>2. PICK due \in Choices(S, D) : heap' = heap (+) Entries(due)
      BY <1>1 DEF Start
    <2> HIDE DEF S, D
    <2>3. IsABag(heap') /\ DOMAIN heap' \subseteq [item : Items, due : Int]
      BY Zenon, <2>1, <2>2, AddedEntries
    <2> QED BY <1>1, <2>3 DEF Start
  <1>2. ASSUME NEW i \in Items, Poll(i)
        PROVE  TypeOK'
    <2>1. IsABag(heap') /\ DOMAIN heap' \subseteq [item : Items, due : Int]
      BY <1>2, Popped DEF Poll
    <2>2. ShortestDelay(i) \in Nat
      <3>1. CASE i \in Scheduled(nodes)
        <4>1. Delays[nodes[i]] \subseteq Nat /\ Delays[nodes[i]] # {}
          BY <3>1, DelaysTyped, ScheduledPeriod
        <4>2. \E d \in Delays[nodes[i]] : \A x \in Delays[nodes[i]] : d <= x
          BY <4>1, SmallestNat
        <4> QED BY <3>1, <4>1, <4>2 DEF ShortestDelay
      <3>2. CASE i \notin Scheduled(nodes)
        BY <3>2 DEF ShortestDelay
      <3> QED BY <3>1, <3>2
    <2> QED BY <1>2, <2>1, <2>2 DEF Poll
  <1>3. ASSUME NEW i \in Items, PublishFails(i)
        PROVE  TypeOK'
    <2>1. IsABag(heap') /\ DOMAIN heap' \subseteq [item : Items, due : Int]
      BY <1>3, Popped DEF PublishFails
    <2> QED BY <1>3, <2>1 DEF PublishFails
  <1>4. CASE EmptySchedule
    BY <1>4 DEF EmptySchedule
  <1>5. CASE Reload
    <2> DEFINE D == [i \in New |-> Delays[file[i]]]
    <2>1. New \in SUBSET Items /\ \A i \in New : D[i] \subseteq Nat
      BY DelaysTyped, ScheduledPeriod DEF New, Scheduled
    <2>2. PICK due \in Choices(New, D) : heap' = heap (+) Entries(due)
      BY <1>5 DEF Reload
    <2> HIDE DEF D
    <2>3. IsABag(heap') /\ DOMAIN heap' \subseteq [item : Items, due : Int]
      BY Zenon, <2>1, <2>2, AddedEntries
    <2>4. Waiting \subseteq Items
      BY DEF Waiting, BagToSet
    <2> QED BY <1>5, <2>3, <2>4 DEF Reload, Loaded
  <1>6. CASE ReloadFails
    BY <1>6 DEF ReloadFails
  <1>7. CASE Restart
    BY <1>7 DEF Restart, Loaded, EmptyBag, SetToBag, IsABag
  <1>8. CASE Tick
    <2>1. IsABag(heap') /\ DOMAIN heap' \subseteq [item : Items, due : Int]
      BY <1>8, TickedBag, Zenon DEF Tick
    <2>2. promise' \in [Items -> Nat]
      BY <1>8 DEF Tick
    <2> QED BY <1>8, <2>1, <2>2 DEF Tick
  <1>9. ASSUME NEW i \in Items, Edit(i)
        PROVE  TypeOK'
    BY <1>9 DEF Edit, Configuration
  <1>10. CASE UNCHANGED vars
    BY <1>10 DEF vars
  <1> QED BY <1>1, <1>2, <1>3, <1>4, <1>5, <1>6, <1>7, <1>8, <1>9, <1>10
          DEF Next, Loop

\* The heap stays a bag of entries and the configuration a configuration, for
\* every set of tests and periods.
THEOREM ScheduleTypeCorrect == Spec => []TypeOK
  BY TypeInit, TypeNext, PTL DEF Spec

-----------------------------------------------------------------------------
(* At most one entry *)

\* Before the loop begins the heap is empty: init_schedule runs once.
EntriesInv == OneEntryEach /\ (pc = "starting" => heap = EmptyBag)

\* Entries added for tests that have none, or that returned, keep the
\* invariant.
LEMMA AddedOnce ==
    ASSUME TypeOK, EntriesInv, NEW S \in SUBSET Items, NEW D,
           \A i \in S : D[i] \subseteq Nat,
           NEW due \in Choices(S, D), heap' = heap (+) Entries(due),
           returned \subseteq returned', S \cap Waiting \subseteq returned'
    PROVE  OneEntryEach'
  <1>1. /\ \A e \in DOMAIN heap' :
                e.item \notin S => e \in DOMAIN heap /\ heap'[e] = heap[e]
        /\ \A e \in DOMAIN heap' : e \notin DOMAIN heap =>
                e = Entry(e.item, due[e.item]) /\ heap'[e] = 1
    BY Zenon, AddedEntries
  <1>2. SUFFICES ASSUME NEW e \in DOMAIN heap', NEW f \in DOMAIN heap',
                        e.item = f.item, e.item \notin returned'
                 PROVE  e = f /\ heap'[e] = 1
    BY DEF OneEntryEach
  <1>3. CASE e.item \notin S
    BY <1>1, <1>2, <1>3 DEF EntriesInv, OneEntryEach
  <1>4. CASE e.item \in S
    <2>1. \A g \in DOMAIN heap : g.item # e.item
      BY <1>2, <1>4 DEF Waiting, BagToSet
    <2> QED BY <1>1, <1>2, <2>1
  <1> QED BY <1>3, <1>4

\* An empty heap has at most one entry for each test ...
LEMMA EntriesInit == Init => EntriesInv
  BY DEF Init, EntriesInv, OneEntryEach, EmptyBag, SetToBag

\* ... and no step adds a second one, unless the test came back too early.
LEMMA EntriesNext == TypeOK /\ EntriesInv /\ [Next]_vars => EntriesInv'
  <1> SUFFICES ASSUME TypeOK, EntriesInv, [Next]_vars PROVE EntriesInv'
    OBVIOUS
  <1>1. CASE Start
    <2> DEFINE S == Scheduled(nodes)
    <2> DEFINE D == [i \in S |-> FirstDelays(nodes[i])]
    <2>1. S \in SUBSET Items /\ \A i \in S : D[i] \subseteq Nat
      BY DelaysTyped, ScheduledPeriod DEF Scheduled, TypeOK
    <2>2. PICK due \in Choices(S, D) : heap' = heap (+) Entries(due)
      BY <1>1 DEF Start
    <2>3. S \cap Waiting = {} /\ returned' = returned
      BY <1>1 DEF Start, EntriesInv, Waiting, BagToSet, EmptyBag, SetToBag
    <2> HIDE DEF S, D
    <2>4. OneEntryEach'
      BY <2>1, <2>2, <2>3, AddedOnce
    <2> QED BY <1>1, <2>4 DEF Start, EntriesInv
  <1>2. ASSUME NEW i \in Items, PopAndReadd(i), returned' = returned,
               pc' # "starting"
        PROVE  EntriesInv'
    <2>1. SUFFICES ASSUME NEW e \in DOMAIN heap', NEW f \in DOMAIN heap',
                          e.item = f.item, e.item \notin returned
                   PROVE  e = f /\ heap'[e] = 1
      BY <1>2 DEF EntriesInv, OneEntryEach
    <2>2. CASE e.item = i
      <3>1. \A g, h \in DOMAIN heap :
                g.item = i /\ h.item = i => g = h /\ heap[g] = 1
        BY <2>1, <2>2 DEF EntriesInv, OneEntryEach
      <3>2. \A g, h \in DOMAIN heap' :
                g.item = i /\ h.item = i => g = h /\ heap'[g] = 1
        BY <1>2, <3>1, Popped
      <3> QED BY Zenon, <2>1, <2>2, <3>2
    <2>3. CASE e.item # i
      BY <1>2, <2>1, <2>3, Popped DEF EntriesInv, OneEntryEach
    <2> QED BY <2>2, <2>3
  <1>3. CASE Reload
    <2> DEFINE D == [i \in New |-> Delays[file[i]]]
    <2>1. New \in SUBSET Items /\ \A i \in New : D[i] \subseteq Nat
      BY DelaysTyped, ScheduledPeriod DEF New, Scheduled, TypeOK
    <2>2. PICK due \in Choices(New, D) : heap' = heap (+) Entries(due)
      BY <1>3 DEF Reload
    <2>3. New \cap Waiting \subseteq returned' /\ returned \subseteq returned'
      BY <1>3 DEF Reload, New, Scheduled
    <2> HIDE DEF D
    <2>4. OneEntryEach'
      BY <2>1, <2>2, <2>3, AddedOnce
    <2> QED BY <1>3, <2>4 DEF Reload, EntriesInv
  <1>4. CASE Restart
    BY <1>4 DEF Restart, EntriesInv, OneEntryEach, EmptyBag, SetToBag
  <1>5. CASE Tick
    <2> DEFINE Back(e) == Entry(e.item, e.due + 1)
    <2>1. /\ DOMAIN heap' \subseteq [item : Items, due : Int]
          /\ \A e \in DOMAIN heap' : Back(e) \in DOMAIN heap /\ heap'[e] = heap[Back(e)]
      BY <1>5, TickedBag, Zenon DEF Tick, TypeOK
    <2>2. SUFFICES ASSUME NEW e \in DOMAIN heap', NEW f \in DOMAIN heap',
                          e.item = f.item, e.item \notin returned
                   PROVE  e = f /\ heap'[e] = 1
      BY <1>5 DEF Tick, EntriesInv, OneEntryEach
    <2>3. Back(e) = Back(f) /\ heap[Back(e)] = 1
      BY <2>1, <2>2 DEF EntriesInv, OneEntryEach, Entry
    <2>4. e.due = f.due
      BY <2>1, <2>3 DEF Entry
    <2>5. e = f
      BY <2>1, <2>2, <2>4
    <2> QED BY <2>1, <2>3, <2>5
  <1>6. CASE EmptySchedule \/ ReloadFails \/ (\E i \in Items : Edit(i)) \/ UNCHANGED vars
    <2>1. heap' = heap /\ returned' = returned /\ (pc' = "starting" => pc = "starting")
      BY <1>6 DEF EmptySchedule, ReloadFails, Edit, vars
    <2> QED BY <2>1 DEF EntriesInv, OneEntryEach
  <1>7. ASSUME NEW i \in Items, Poll(i) \/ PublishFails(i)
        PROVE  EntriesInv'
    BY <1>2, <1>7 DEF Poll, PublishFails
  <1> QED BY <1>1, <1>3, <1>4, <1>5, <1>6, <1>7 DEF Next, Loop

\* A test is in the heap once, whatever is edited and reloaded, unless it was
\* removed and came back while its old entry was still waiting.
THEOREM OneEntryAlways == Spec => []OneEntryEach
  <1>1. EntriesInv => OneEntryEach
    BY DEF EntriesInv
  <1> QED BY <1>1, TypeInit, TypeNext, EntriesInit, EntriesNext, PTL DEF Spec

-----------------------------------------------------------------------------
(* Nothing is forgotten *)

\* No step takes the entry of a scheduled test away without pushing it back.
LEMMA ForgottenNext ==
    ASSUME 0 \notin Periods
    PROVE  TypeOK /\ NothingForgotten /\ [Next]_vars => NothingForgotten'
  <1> SUFFICES ASSUME TypeOK, NothingForgotten, [Next]_vars, pc' = "loop"
               PROVE  \A i \in Scheduled(nodes') : \E e \in DOMAIN heap' : e.item = i
    BY DEF NothingForgotten, Waiting, BagToSet
  <1>0. pc = "loop" =>
            \A i \in Scheduled(nodes) : \E e \in DOMAIN heap : e.item = i
    BY DEF NothingForgotten, Waiting, BagToSet
  <1>1. CASE Start
    <2> DEFINE S == Scheduled(nodes)
    <2> DEFINE D == [i \in S |-> FirstDelays(nodes[i])]
    <2>1. S \in SUBSET Items /\ \A i \in S : D[i] \subseteq Nat
      BY DelaysTyped, ScheduledPeriod DEF Scheduled, TypeOK
    <2>2. PICK due \in Choices(S, D) : heap' = heap (+) Entries(due)
      BY <1>1 DEF Start
    <2>3. \A i \in S : Entry(i, due[i]) \in DOMAIN heap'
      <3> HIDE DEF S, D
      <3> QED BY Zenon, <2>1, <2>2, AddedEntries
    <2>4. nodes' = nodes
      BY <1>1 DEF Start
    <2> QED BY Zenon, <2>3, <2>4 DEF Entry
  <1>2. ASSUME NEW i \in Items, Poll(i)
        PROVE  \A j \in Scheduled(nodes') : \E e \in DOMAIN heap' : e.item = j
    <2>1. nodes' = nodes /\ pc = "loop" /\ PopAndReadd(i)
      BY <1>2 DEF Poll
    <2>2. /\ \A f \in DOMAIN heap : f.item # i => f \in DOMAIN heap'
          /\ i \in Scheduled(nodes) => \E f \in DOMAIN heap' : f.item = i
      BY <2>1, Popped
    <2> QED BY <1>0, <2>1, <2>2
  <1>3. CASE Reload
    <2> DEFINE D == [i \in New |-> Delays[file[i]]]
    <2>1. New \in SUBSET Items /\ \A i \in New : D[i] \subseteq Nat
      BY DelaysTyped, ScheduledPeriod DEF New, Scheduled, TypeOK
    <2>2. PICK due \in Choices(New, D) : heap' = heap (+) Entries(due)
      BY <1>3 DEF Reload
    <2>3. /\ DOMAIN heap \subseteq DOMAIN heap'
          /\ \A i \in New : Entry(i, due[i]) \in DOMAIN heap'
      <3> HIDE DEF D
      <3> QED BY Zenon, <2>1, <2>2, AddedEntries
    <2>4. \A i \in Scheduled(file) : i \in New \/ i \in Scheduled(nodes)
      BY DEF New, Scheduled, TypeOK, Configuration
    <2>5. nodes' = file /\ pc = "loop"
      BY <1>3 DEF Reload, Loaded
    <2> QED BY Zenon, <1>0, <2>3, <2>4, <2>5 DEF Entry
  <1>4. CASE Tick
    <2>1. /\ DOMAIN heap' = {Entry(f.item, f.due - 1) : f \in DOMAIN heap}
          /\ nodes' = nodes /\ pc = "loop"
      BY <1>4 DEF Tick
    <2>2. \A f \in DOMAIN heap : \E e \in DOMAIN heap' : e.item = f.item
      <3>1. \A f \in DOMAIN heap : Entry(f.item, f.due - 1) \in DOMAIN heap'
        BY <2>1
      <3>2. \A f \in DOMAIN heap : Entry(f.item, f.due - 1).item = f.item
        BY DEF Entry
      <3> QED BY <3>1, <3>2
    <2> QED BY <1>0, <2>1, <2>2
  <1>5. CASE (\E i \in Items : Edit(i)) \/ UNCHANGED vars
    BY <1>0, <1>5 DEF Edit, vars
  <1>6. ~(EmptySchedule \/ ReloadFails \/ Restart \/ \E i \in Items : PublishFails(i))
    BY DEF EmptySchedule, ReloadFails, Restart, PublishFails
  <1> QED BY <1>1, <1>2, <1>3, <1>4, <1>5, <1>6 DEF Next, Loop

\* If no test is switched off with a period of zero, every test the process
\* has loaded has an entry in its heap, whatever is edited and reloaded.
THEOREM NeverForgets ==
    ASSUME 0 \notin Periods
    PROVE  Spec => []NothingForgotten
  <1>1. Init => NothingForgotten
    BY DEF Init, NothingForgotten
  <1> QED BY <1>1, TypeInit, TypeNext, ForgottenNext, PTL DEF Spec

-----------------------------------------------------------------------------
(* No test is polled early *)

\* While a test must not be polled, it waits for that long: so it comes back too
\* early whenever it is configured again.
PromiseInv ==
    /\ pc = "starting" => \A i \in Items : promise[i] = 0
    /\ \A i \in Items \ returned : promise[i] # 0 =>
        /\ \E e \in DOMAIN heap : e.item = i
        /\ \A e \in DOMAIN heap : e.item = i => e.due >= promise[i]

\* The delay a test is pushed back by is no shorter than the shortest.
LEMMA ShortestIsShortest ==
    ASSUME TypeOK, NEW i \in Items
    PROVE  /\ ShortestDelay(i) \in Nat
           /\ i \in Scheduled(nodes) =>
                \A d \in Delays[nodes[i]] : d \in Nat /\ ShortestDelay(i) <= d
           /\ i \notin Scheduled(nodes) => ShortestDelay(i) = 0
  <1>1. CASE i \in Scheduled(nodes)
    <2>1. Delays[nodes[i]] \subseteq Nat /\ Delays[nodes[i]] # {}
      BY Zenon, <1>1, DelaysTyped, ScheduledPeriod DEF TypeOK
    <2>2. \E d \in Delays[nodes[i]] : \A x \in Delays[nodes[i]] : d <= x
      BY <2>1, SmallestNat
    <2> QED BY <1>1, <2>1, <2>2 DEF ShortestDelay
  <1>2. CASE i \notin Scheduled(nodes)
    BY <1>2 DEF ShortestDelay
  <1> QED BY <1>1, <1>2

\* The entry that is popped was due, so nothing was promised of its test.
LEMMA PopsInTime ==
    ASSUME TypeOK, PromiseInv, NEW i \in Items \ returned, PopAndReadd(i)
    PROVE  promise[i] = 0
  <1>1. PICK e \in DOMAIN heap : e.item = i /\ e.due <= 0
    BY Popped
  <1>2. e.due \in Int /\ promise[i] \in Nat
    BY DEF TypeOK
  <1> QED BY <1>1, <1>2 DEF PromiseInv

\* A turn of test i leaves the entries of the others alone ...
LEMMA PromiseOfOthers ==
    ASSUME TypeOK, PromiseInv, NEW i \in Items, PopAndReadd(i),
           NEW j \in Items \ returned, j # i, promise[j] # 0
    PROVE  /\ \E e \in DOMAIN heap' : e.item = j
           /\ \A e \in DOMAIN heap' : e.item = j => e.due >= promise[j]
  BY Popped DEF PromiseInv

\* ... and pushes its own back by what is promised.
LEMMA PromiseOfPolled ==
    ASSUME TypeOK, EntriesInv, NEW i \in Items \ returned, PopAndReadd(i),
           ShortestDelay(i) # 0
    PROVE  /\ \E e \in DOMAIN heap' : e.item = i
           /\ \A e \in DOMAIN heap' : e.item = i => e.due >= ShortestDelay(i)
  <1>1. i \in Scheduled(nodes)
    BY ShortestIsShortest
  <1>2. PICK e \in DOMAIN heap :
            /\ e.item = i
            /\ \A f \in DOMAIN heap' : f.item = i =>
                \/ f \in DOMAIN heap /\ (f = e => heap[e] # 1)
                \/ f.due \in Delays[nodes[i]]
    BY Popped
  <1>3. \A f \in DOMAIN heap : f.item = i => f = e /\ heap[e] = 1
    BY <1>2 DEF EntriesInv, OneEntryEach
  <1>4. \A f \in DOMAIN heap' : f.item = i => f.due \in Delays[nodes[i]]
    BY <1>2, <1>3
  <1>5. \E f \in DOMAIN heap' : f.item = i
    BY <1>1, Popped
  <1> QED BY <1>1, <1>4, <1>5, ShortestIsShortest

\* Entries that are added keep what was promised, if those of the tests that
\* wait already are counted as returned.
LEMMA PromiseAdded ==
    ASSUME TypeOK, PromiseInv, NEW S \in SUBSET Items, NEW D,
           \A i \in S : D[i] \subseteq Nat,
           NEW due \in Choices(S, D), heap' = heap (+) Entries(due),
           S \cap Waiting \subseteq returned', returned \subseteq returned',
           promise' = promise, pc # "starting", pc' # "starting"
    PROVE  PromiseInv'
  <1>1. /\ DOMAIN heap \subseteq DOMAIN heap'
        /\ \A e \in DOMAIN heap' : e.item \notin S => e \in DOMAIN heap
    BY Zenon, AddedEntries
  <1>2. ASSUME NEW i \in Items \ returned', promise[i] # 0
        PROVE  /\ \E e \in DOMAIN heap' : e.item = i
               /\ \A e \in DOMAIN heap' : e.item = i => e.due >= promise[i]
    <2>1. /\ \E e \in DOMAIN heap : e.item = i
          /\ \A e \in DOMAIN heap : e.item = i => e.due >= promise[i]
      BY <1>2 DEF PromiseInv
    <2>2. i \notin S
      BY <1>2, <2>1 DEF Waiting, BagToSet
    <2> QED BY <1>1, <2>1, <2>2
  <1> QED BY <1>2 DEF PromiseInv

\* A unit of time brings each entry as much nearer as what is promised of it.
LEMMA PromiseTick ==
    ASSUME TypeOK, PromiseInv, Tick
    PROVE  PromiseInv'
  <1> DEFINE Back(e) == Entry(e.item, e.due + 1)
  <1>1. /\ DOMAIN heap' \subseteq [item : Items, due : Int]
        /\ \A e \in DOMAIN heap' : Back(e) \in DOMAIN heap
        /\ DOMAIN heap' = {Entry(f.item, f.due - 1) : f \in DOMAIN heap}
    BY TickedBag, Zenon DEF Tick, TypeOK
  <1>2. /\ pc' = "loop" /\ returned' = returned
        /\ \A i \in Items : promise'[i] = IF promise[i] > 0 THEN promise[i] - 1 ELSE 0
    BY DEF Tick
  <1>3. ASSUME NEW i \in Items \ returned, promise'[i] # 0
        PROVE  /\ \E e \in DOMAIN heap' : e.item = i
               /\ \A e \in DOMAIN heap' : e.item = i => e.due >= promise'[i]
    <2>1. promise[i] \in Nat /\ promise[i] # 0 /\ promise'[i] = promise[i] - 1
      BY <1>2, <1>3 DEF TypeOK
    <2>2. PICK f \in DOMAIN heap : f.item = i
      BY <2>1 DEF PromiseInv
    <2>3. Entry(f.item, f.due - 1) \in DOMAIN heap' /\ Entry(f.item, f.due - 1).item = i
      BY <1>1, <2>2 DEF Entry
    <2>4. ASSUME NEW e \in DOMAIN heap', e.item = i
          PROVE  e.due >= promise'[i]
      <3>1. e.due \in Int /\ Back(e).due = e.due + 1 /\ Back(e).item = i
        BY <1>1, <2>4 DEF Entry
      <3>2. Back(e).due >= promise[i]
        BY <1>1, <2>1, <2>4, <3>1 DEF PromiseInv
      <3> HIDE DEF Back
      <3> QED BY <2>1, <3>1, <3>2
    <2> QED BY <2>3, <2>4
  <1> QED BY <1>2, <1>3 DEF PromiseInv

\* Every step keeps the promises.
LEMMA PromiseNext ==
    TypeOK /\ EntriesInv /\ PromiseInv /\ [Next]_vars => PromiseInv'
  <1> SUFFICES ASSUME TypeOK, EntriesInv, PromiseInv, [Next]_vars PROVE PromiseInv'
    OBVIOUS
  <1>1. CASE Start
    BY <1>1 DEF Start, PromiseInv
  <1>2. ASSUME NEW i \in Items, Poll(i)
        PROVE  PromiseInv'
    <2>1. /\ PopAndReadd(i) /\ pc' = "loop" /\ returned' = returned
          /\ promise'[i] = ShortestDelay(i)
          /\ \A j \in Items : j # i => promise'[j] = promise[j]
      BY <1>2 DEF Poll, TypeOK
    <2>2. ASSUME NEW j \in Items \ returned, promise'[j] # 0
          PROVE  /\ \E e \in DOMAIN heap' : e.item = j
                 /\ \A e \in DOMAIN heap' : e.item = j => e.due >= promise'[j]
      <3>1. CASE j = i
        BY <2>1, <2>2, <3>1, PromiseOfPolled
      <3>2. CASE j # i
        BY <2>1, <2>2, <3>2, PromiseOfOthers
      <3> QED BY <3>1, <3>2
    <2> QED BY <2>1, <2>2 DEF PromiseInv
  <1>3. ASSUME NEW i \in Items, PublishFails(i)
        PROVE  PromiseInv'
    <2>1. PopAndReadd(i) /\ pc' = "stopped" /\ returned' = returned /\ promise' = promise
      BY <1>3 DEF PublishFails
    <2>2. i \in returned \/ promise[i] = 0
      BY <2>1, PopsInTime
    <2> QED BY <2>1, <2>2, PromiseOfOthers DEF PromiseInv
  <1>4. CASE Reload
    <2> DEFINE D == [i \in New |-> Delays[file[i]]]
    <2>1. New \in SUBSET Items /\ \A i \in New : D[i] \subseteq Nat
      BY DelaysTyped, ScheduledPeriod DEF New, Scheduled, TypeOK
    <2>2. PICK due \in Choices(New, D) : heap' = heap (+) Entries(due)
      BY <1>4 DEF Reload
    <2>3. /\ New \cap Waiting \subseteq returned' /\ returned \subseteq returned'
          /\ promise' = promise /\ pc = "loop" /\ pc' = "loop"
      BY <1>4 DEF Reload, New, Scheduled
    <2> HIDE DEF D
    <2> QED BY <2>1, <2>2, <2>3, PromiseAdded
  <1>5. CASE Restart
    BY <1>5 DEF Restart, PromiseInv
  <1>6. CASE Tick
    BY <1>6, PromiseTick
  <1>7. CASE EmptySchedule \/ ReloadFails \/ (\E i \in Items : Edit(i)) \/ UNCHANGED vars
    <2>1. /\ heap' = heap /\ returned' = returned /\ promise' = promise
          /\ pc' = "starting" => pc = "starting"
      BY <1>7 DEF EmptySchedule, ReloadFails, Edit, vars
    <2> QED BY <2>1 DEF PromiseInv
  <1> QED BY <1>1, <1>2, <1>3, <1>4, <1>5, <1>6, <1>7 DEF Next, Loop

\* No test is polled before its period is over, whatever is edited, reloaded or
\* switched off, unless it came back while its old entry was still waiting.
THEOREM NoneEarlyEver == Spec => PeriodKept
  <1>1. Init => PromiseInv
    BY DEF Init, PromiseInv
  <1>2. TypeOK /\ PromiseInv /\ [Next]_vars => [NoneEarly]_vars
    BY PopsInTime DEF NoneEarly, Poll
  <1> QED BY <1>1, <1>2, TypeInit, TypeNext, EntriesInit, EntriesNext, PromiseNext, PTL
          DEF Spec, PeriodKept

===============================================================================
