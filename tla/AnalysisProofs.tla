---------------------------- MODULE AnalysisProofs ----------------------------
(***************************************************************************)
(* Theorems about what becomes of the results of polls, for any values of  *)
(* the constants: any number of workers, any order of their commands to    *)
(* redis, any reports.                                                     *)
(***************************************************************************)
EXTENDS Analysis, FiniteSetTheorems, NaturalsInduction, TLAPS

-----------------------------------------------------------------------------
(* Hosts: the inductive invariant *)

WatchType ==
    /\ clock \in Nat /\ newest \in Nat
    /\ score \in [Hosts -> Nat \cup {None}]
    /\ stage \in [Watchers -> {"idle", "adding", "reading", "removing"}]
    /\ message \in [Watchers -> [time : Nat, hosts : SUBSET Hosts]]
    /\ old \in [Watchers -> SUBSET Hosts]
    /\ seen \in [Hosts -> Nat]
    /\ news \in [Hosts -> Nat]
    /\ departures \in [Hosts -> Nat]

\* The workers that are about to remove a host they have reported gone.
Removing(h) == {w \in Watchers : h \in old[w]}

\* Whoever is about to remove a host has reported it gone for itself: each of
\* them has paid for one return of the host.
PaidFor ==
    /\ \A w \in Watchers : stage[w] # "removing" => old[w] = {}
    /\ \A h \in Hosts :
          news[h] + Cardinality(Removing(h)) <= departures[h] + (IF h \in Present THEN 1 ELSE 0)

\* The score of a host is behind its latest sight by no more than a message can be.
NotFarBehind ==
    \A h \in Hosts :
        /\ seen[h] <= newest
        /\ score[h] # None => seen[h] - score[h] <= MaxLate

WatchInv == WatchType /\ PaidFor /\ NotFarBehind /\ NotHasty

\* There are finitely many of them.
LEMMA RemovingFinite ==
    \A h \in Hosts : IsFiniteSet(Removing(h)) /\ Cardinality(Removing(h)) \in Nat
  BY WatchAssumption, FS_Subset, FS_CardinalityType DEF Removing

\* Scores are not the mark of absence.
LEMMA NoneIsNoTime == None \notin Nat
  BY WatchAssumption

-----------------------------------------------------------------------------
(* Hosts: initial states and steps *)

\* At the start nobody was seen.
LEMMA WatchInit == Init => WatchInv
  <1> SUFFICES ASSUME Init PROVE WatchInv
    OBVIOUS
  <1>1. WatchType /\ NotFarBehind /\ NotHasty
    BY WatchAssumption DEF Init, WatchType, NotFarBehind, NotHasty, Nothing
  <1>2. \A h \in Hosts : Removing(h) = {}
    BY DEF Init, Removing
  <1>3. PaidFor
    BY <1>2, FS_EmptySet DEF Init, PaidFor, Present
  <1> QED BY <1>1, <1>3 DEF WatchInv

\* Every step of a worker keeps the types.
LEMMA WatchTyped == WatchInv /\ [Next]_vars => WatchType'
  <1> SUFFICES ASSUME WatchInv, [Next]_vars PROVE WatchType'
    OBVIOUS
  <1> USE DEF WatchInv, WatchType
  <1>1. ASSUME NEW w \in Watchers, Take(w) PROVE WatchType'
    BY <1>1 DEF Take
  <1>2. ASSUME NEW w \in Watchers, Add(w) PROVE WatchType'
    <2>1. message[w].time \in Nat /\ message[w].hosts \subseteq Hosts
      OBVIOUS
    <2>2. score' \in [Hosts -> Nat \cup {None}]
      BY <1>2, <2>1 DEF Add, Score
    <2>3. seen' \in [Hosts -> Nat] /\ newest' \in Nat
      BY <1>2, <2>1 DEF Add
    <2>4. news' \in [Hosts -> Nat]
      BY <1>2 DEF Add
    <2> QED BY <1>2, <2>2, <2>3, <2>4 DEF Add
  <1>3. ASSUME NEW w \in Watchers, Read(w) PROVE WatchType'
    BY <1>3 DEF Read, Present
  <1>4. ASSUME NEW w \in Watchers, Remove(w) PROVE WatchType'
    BY <1>4 DEF Remove, Nothing
  <1>5. ASSUME NEW w \in Watchers, Broken(w) PROVE WatchType'
    BY <1>5 DEF Broken, Nothing
  <1>6. CASE Tick
    BY <1>6 DEF Tick, worker
  <1>7. CASE UNCHANGED vars
    BY <1>7 DEF vars, worker
  <1> QED BY <1>1, <1>2, <1>3, <1>4, <1>5, <1>6, <1>7 DEF Next

\* A message, or the loss of the connection, changes nothing that was paid for.
LEMMA SameRemoving ==
    ASSUME UNCHANGED old, NEW h \in Hosts
    PROVE  Removing(h)' = Removing(h)
  BY DEF Removing

\* Every step leaves each return of a host paid for.
LEMMA PaidForKept == WatchInv /\ [Next]_vars => PaidFor'
  <1> SUFFICES ASSUME WatchInv, [Next]_vars PROVE PaidFor'
    OBVIOUS
  <1> USE DEF WatchInv, WatchType
  <1>0. \A h \in Hosts : Cardinality(Removing(h)) \in Nat /\ IsFiniteSet(Removing(h))
    BY RemovingFinite
  <1>1. ASSUME NEW w \in Watchers, Take(w) PROVE PaidFor'
    BY <1>1, SameRemoving DEF Take, PaidFor, Present
  <1>2. ASSUME NEW w \in Watchers, Add(w) PROVE PaidFor'
    <2>1. \A v \in Watchers : stage'[v] # "removing" => old'[v] = {}
      BY <1>2 DEF Add, PaidFor
    <2>2. ASSUME NEW h \in Hosts
          PROVE  news'[h] + Cardinality(Removing(h))
                   <= departures[h] + (IF score'[h] # None THEN 1 ELSE 0)
      <3>1. message[w].time # None
        BY NoneIsNoTime
      <3>2. CASE h \in message[w].hosts
        <4>1. score'[h] # None
          BY <1>2, <3>1, <3>2 DEF Add, Score
        <4>2. news'[h] = news[h] + (IF score[h] = None THEN 1 ELSE 0)
          BY <1>2, <3>2 DEF Add, New, Present
        <4> QED BY <1>0, <4>1, <4>2 DEF PaidFor, Present
      <3>3. CASE h \notin message[w].hosts
        <4>1. score'[h] = score[h] /\ news'[h] = news[h]
          BY <1>2, <3>3 DEF Add, New
        <4> QED BY <4>1 DEF PaidFor, Present
      <3> QED BY <3>2, <3>3
    <2> QED BY <1>2, <2>1, <2>2, SameRemoving DEF Add, PaidFor, Present
  <1>3. ASSUME NEW w \in Watchers, Read(w) PROVE PaidFor'
    <2>1. \A v \in Watchers : stage'[v] # "removing" => old'[v] = {}
      BY <1>3 DEF Read, PaidFor
    <2>2. old[w] = {} /\ stage[w] = "reading"
      BY <1>3 DEF Read, PaidFor
    <2>3. ASSUME NEW h \in Hosts
          PROVE  news[h] + Cardinality(Removing(h)')
                   <= departures'[h] + (IF h \in Present THEN 1 ELSE 0)
      <3>1. CASE h \in old'[w]
        <4>1. Removing(h)' = Removing(h) \cup {w} /\ w \notin Removing(h)
          BY <1>3, <2>2, <3>1 DEF Read, Removing
        <4>2. Cardinality(Removing(h)') = Cardinality(Removing(h)) + 1
          BY Zenon, <1>0, <4>1, FS_AddElement
        <4>3. departures'[h] = departures[h] + 1
          BY <1>3, <3>1 DEF Read
        <4> QED BY <1>0, <4>2, <4>3 DEF PaidFor
      <3>2. CASE h \notin old'[w]
        <4>1. Removing(h)' = Removing(h)
          BY <1>3, <2>2, <3>2 DEF Read, Removing
        <4>2. departures'[h] = departures[h]
          BY <1>3, <3>2 DEF Read
        <4> QED BY <4>1, <4>2 DEF PaidFor
      <3> QED BY <3>1, <3>2
    <2> QED BY <1>3, <2>1, <2>3 DEF Read, PaidFor, Present
  <1>4. ASSUME NEW w \in Watchers, Remove(w) PROVE PaidFor'
    <2>1. \A v \in Watchers : stage'[v] # "removing" => old'[v] = {}
      BY <1>4 DEF Remove, PaidFor
    <2>2. ASSUME NEW h \in Hosts
          PROVE  news[h] + Cardinality(Removing(h)')
                   <= departures[h] + (IF score'[h] # None THEN 1 ELSE 0)
      <3>1. Removing(h)' = Removing(h) \ {w}
        BY <1>4 DEF Remove, Removing
      <3>2. CASE h \in old[w]
        <4>1. Cardinality(Removing(h)') = Cardinality(Removing(h)) - 1
          BY Zenon, <1>0, <3>1, <3>2, FS_RemoveElement DEF Removing
        <4>2. score'[h] = None
          BY <1>4, <3>2 DEF Remove, Removed
        <4> QED BY <1>0, <4>1, <4>2 DEF PaidFor, Present
      <3>3. CASE h \notin old[w]
        <4>1. Removing(h)' = Removing(h)
          BY <3>1, <3>3 DEF Removing
        <4>2. score'[h] = score[h]
          BY <1>4, <3>3 DEF Remove, Removed
        <4> QED BY <4>1, <4>2 DEF PaidFor, Present
      <3> QED BY <3>2, <3>3
    <2> QED BY <1>4, <2>1, <2>2 DEF Remove, PaidFor, Present
  <1>5. ASSUME NEW w \in Watchers, Broken(w) PROVE PaidFor'
    <2>1. \A v \in Watchers : stage'[v] # "removing" => old'[v] = {}
      BY <1>5 DEF Broken, PaidFor
    <2>2. ASSUME NEW h \in Hosts
          PROVE  Cardinality(Removing(h)') <= Cardinality(Removing(h))
                 /\ Cardinality(Removing(h)') \in Nat
      <3>1. Removing(h)' = Removing(h) \ {w}
        BY <1>5 DEF Broken, Removing
      <3>2. CASE w \in Removing(h)
        <4> HIDE DEF WatchInv, WatchType, PaidFor
        <4>1. IsFiniteSet(Removing(h)) /\ Cardinality(Removing(h)) \in Nat
          BY <1>0
        <4>2. Cardinality(Removing(h) \ {w}) = Cardinality(Removing(h)) - 1
          BY Zenon, <3>2, <4>1, FS_RemoveElement
        <4>3. Cardinality(Removing(h)') \in Nat
          BY <3>1, <4>1, FS_CardinalityType, FS_RemoveElement
        <4> QED BY <3>1, <4>1, <4>2, <4>3
      <3>3. CASE w \notin Removing(h)
        <4>1. Removing(h)' = Removing(h)
          BY <3>1, <3>3
        <4> QED BY <1>0, <4>1
      <3> QED BY <3>2, <3>3
    <2> QED BY <1>0, <1>5, <2>1, <2>2 DEF Broken, PaidFor, Present
  <1>6. CASE Tick
    BY <1>6, SameRemoving DEF Tick, worker, PaidFor, Present
  <1>7. CASE UNCHANGED vars
    BY <1>7, SameRemoving DEF vars, worker, PaidFor, Present
  <1> QED BY <1>1, <1>2, <1>3, <1>4, <1>5, <1>6, <1>7 DEF Next

\* Every step keeps the scores near the latest sights.
LEMMA NotFarBehindKept == WatchInv /\ [Next]_vars => NotFarBehind'
  <1> SUFFICES ASSUME WatchInv, [Next]_vars PROVE NotFarBehind'
    OBVIOUS
  <1> USE DEF WatchInv, WatchType, NotFarBehind
  <1>1. ASSUME NEW w \in Watchers, Add(w) PROVE NotFarBehind'
    <2> DEFINE t == message[w].time
    <2>1. t \in Nat /\ MaxLate \in Nat /\ newest - t <= MaxLate
      BY <1>1, WatchAssumption DEF Add
    <2>2. newest' = IF t > newest THEN t ELSE newest
      BY <1>1 DEF Add
    <2>3. ASSUME NEW h \in Hosts
          PROVE  seen'[h] <= newest' /\ (score'[h] # None => seen'[h] - score'[h] <= MaxLate)
      <3>1. CASE h \in message[w].hosts
        <4>1. score'[h] = t
          BY <1>1, <3>1 DEF Add, Score
        <4>2. seen'[h] = IF seen[h] < t THEN t ELSE seen[h]
          BY <1>1, <3>1 DEF Add
        <4>3. seen[h] \in Nat /\ seen[h] <= newest /\ newest \in Nat
          OBVIOUS
        <4> HIDE DEF WatchInv, WatchType, NotFarBehind, t
        <4> QED BY <2>1, <2>2, <4>1, <4>2, <4>3
      <3>2. CASE h \notin message[w].hosts
        <4>1. score'[h] = score[h] /\ seen'[h] = seen[h]
          BY <1>1, <3>2 DEF Add
        <4>2. seen[h] <= newest' /\ newest \in Nat
          BY <2>1, <2>2
        <4> QED BY <4>1, <4>2
      <3> QED BY <3>1, <3>2
    <2> QED BY <2>3
  <1>2. ASSUME NEW w \in Watchers, Remove(w) PROVE NotFarBehind'
    BY <1>2 DEF Remove
  <1>3. ASSUME NEW w \in Watchers, Take(w) \/ Read(w) \/ Broken(w) PROVE NotFarBehind'
    BY <1>3 DEF Take, Read, Broken
  <1>4. CASE Tick \/ UNCHANGED vars
    BY <1>4 DEF Tick, vars
  <1> QED BY <1>1, <1>2, <1>3, <1>4 DEF Next

\* No step reports a host gone that was seen lately.
LEMMA NotHastyKept == WatchInv /\ [Next]_vars => NotHasty'
  <1> SUFFICES ASSUME WatchInv, [Next]_vars PROVE NotHasty'
    OBVIOUS
  <1>1. ASSUME NEW w \in Watchers, Read(w) PROVE NotHasty'
    <2>1. ASSUME NEW h \in Present, score[h] <= Cut(w)
          PROVE  ~(seen[h] > message[w].time - ExpireAt + MaxLate)
      <3>1. h \in Hosts /\ score[h] \in Nat /\ seen[h] \in Nat /\ message[w].time \in Nat
        BY <2>1 DEF WatchInv, WatchType, Present
      <3>2. seen[h] - score[h] <= MaxLate
        BY <2>1, <3>1 DEF WatchInv, NotFarBehind, Present
      <3>3. score[h] <= message[w].time - ExpireAt
        BY <2>1 DEF Cut
      <3> QED BY <3>1, <3>2, <3>3, WatchAssumption
    <2> QED BY <1>1, <2>1 DEF Read, WatchInv, NotHasty
  <1>2. ASSUME NEW w \in Watchers, Take(w) \/ Add(w) \/ Remove(w) \/ Broken(w) PROVE NotHasty'
    BY <1>2 DEF Take, Add, Remove, Broken, WatchInv, NotHasty
  <1>3. CASE Tick \/ UNCHANGED vars
    BY <1>3 DEF Tick, vars, WatchInv, NotHasty
  <1> QED BY <1>1, <1>2, <1>3 DEF Next

-----------------------------------------------------------------------------
(* Hosts: the theorem *)

\* Whatever the workers do in which order: each return of a host follows a report of its
\* departure, and nobody is reported gone who was seen within the time of
\* expiry, but for the lateness of messages (HostWatcher.post_bulk_process).
THEOREM DeparturesAlwaysTrue == Spec => []DeparturesTrue
  <1>1. WatchInv /\ [Next]_vars => WatchInv'
    BY WatchTyped, PaidForKept, NotFarBehindKept, NotHastyKept DEF WatchInv
  <1>2. WatchInv => DeparturesTrue
    <2> SUFFICES ASSUME WatchInv, NEW h \in Hosts
                 PROVE  news[h] <= departures[h] + (IF h \in Present THEN 1 ELSE 0)
      BY DEF WatchInv, DeparturesTrue, DeparturesReported
    <2>1. Cardinality(Removing(h)) \in Nat
      BY RemovingFinite
    <2> QED BY <2>1 DEF WatchInv, WatchType, PaidFor
  <1> QED BY WatchInit, <1>1, <1>2, PTL DEF Spec

-----------------------------------------------------------------------------
(* Links: the inductive invariant *)

PeerNames == Remembered!Range(FullName)
LinkKeys == Links \cup Channels

LinkType ==
    /\ time \in Nat
    /\ linkCache \in [LinkKeys -> [peer : PeerNames, until : Nat] \cup {None}]
    /\ pipes \in [Workers -> [key : LinkKeys, peer : PeerNames] \cup {None}]
    /\ linked \in [Links -> [PeerNames -> 0 .. time \cup {None}]]

\* The neighbour n was reported at the port p at the time t or later.
Since(p, n, t) == linked[p][n] # None /\ t <= linked[p][n]

\* The peer n of a channel was reported for a member of it.
ByMember(c, n, t) == \E p \in Links : MemberOf[p] = c /\ Since(p, n, t)

\* What is in redis has not expired.
Unexpired == \A k \in LinkKeys : linkCache[k] # None => time < linkCache[k].until

\* A port is remembered for one Expiration, a channel for one more.
CacheSound ==
    /\ \A p \in Links : linkCache[p] # None => Since(p, linkCache[p].peer, linkCache[p].until - Expiration)
    /\ \A c \in Channels : linkCache[c] # None =>
          ByMember(c, linkCache[c].peer, linkCache[c].until - 2 * Expiration + 1)

\* What is yet to be executed was reported now, or was in redis just now.
PipesSound ==
    \A w \in Workers : pipes[w] # None =>
        /\ pipes[w].key \in Links => Since(pipes[w].key, pipes[w].peer, time)
        /\ pipes[w].key \in Channels =>
              ByMember(pipes[w].key, pipes[w].peer, time - Expiration + 1)

LinkInv == Remembered!Layer1Assumption /\ LinkType /\ Unexpired /\ CacheSound /\ PipesSound

-----------------------------------------------------------------------------
(* Links: steps *)

LEMMA InitSound == Remembered!Layer1Assumption /\ Remembered!LinkInit => LinkInv
  BY DEF Remembered!LinkInit, LinkInv, LinkType, Unexpired, CacheSound, PipesSound, PeerNames, LinkKeys

\* A name that is reported is one of Names.
LEMMA FullNames == Remembered!Layer1Assumption => \A n \in Peers : FullName[n] \in PeerNames
  BY DEF Remembered!Layer1Assumption, PeerNames, Remembered!Range

\* What was reported stays reported.
LEMMA SinceKept ==
    ASSUME Remembered!Layer1Assumption, LinkType, UNCHANGED linked
           \/ \E w \in Workers, p \in Links, n \in Peers : Remembered!Neighbour(w, p, n)
    PROVE  /\ \A p \in Links, n \in PeerNames, t \in Int : Since(p, n, t) => Since(p, n, t)'
           /\ \A c \in Channels, n \in PeerNames, t \in Int : ByMember(c, n, t) => ByMember(c, n, t)'
  <1>1. ASSUME NEW p \in Links, NEW n \in PeerNames, NEW t \in Int, t <= time, Since(p, n, t)
        PROVE  Since(p, n, t)'
    <2>1. CASE UNCHANGED linked
      BY <1>1, <2>1 DEF Since
    <2>2. ASSUME NEW w \in Workers, NEW q \in Links, NEW m \in Peers, Remembered!Neighbour(w, q, m)
          PROVE  Since(p, n, t)'
      <3>1. linked'[p][n] = IF p = q /\ n = FullName[m] THEN time ELSE linked[p][n]
        BY <2>2 DEF Remembered!Neighbour, LinkType
      <3>2. time # None /\ time \in Nat
        BY DEF Remembered!Layer1Assumption, LinkType
      <3> QED BY <1>1, <3>1, <3>2 DEF Since
    <2> QED BY <2>1, <2>2
  <1>2. ASSUME NEW p \in Links, NEW n \in PeerNames, NEW t \in Int, Since(p, n, t)
        PROVE  t <= time
    BY <1>2 DEF Since, LinkType
  <1>3. \A p \in Links, n \in PeerNames, t \in Int : Since(p, n, t) => Since(p, n, t)'
    BY <1>1, <1>2
  <1> QED BY <1>3 DEF ByMember

\* Time passes, and links expire.
LEMMA PassesKeeps == LinkInv /\ Remembered!Passes => LinkInv'
  <1> SUFFICES ASSUME LinkInv, Remembered!Passes PROVE LinkInv'
    OBVIOUS
  <1> USE DEF LinkInv
  <1>1. \A k \in LinkKeys : linkCache'[k] # None =>
            linkCache'[k] = linkCache[k] /\ linkCache[k] # None /\ time + 1 < linkCache[k].until
    BY DEF Remembered!Passes, LinkType
  <1>2. LinkType'
    BY DEF Remembered!Passes, LinkType
  <1>3. Unexpired'
    BY <1>1 DEF Remembered!Passes, Unexpired
  <1>4. CacheSound'
    BY <1>1, SinceKept DEF Remembered!Passes, CacheSound, Since, ByMember, LinkKeys
  <1>5. PipesSound'
    BY DEF Remembered!Passes, PipesSound
  <1> QED BY <1>2, <1>3, <1>4, <1>5

\* A report of a neighbour.
LEMMA NeighbourKeeps ==
    ASSUME LinkInv, NEW w \in Workers, NEW p \in Links, NEW n \in Peers, Remembered!Neighbour(w, p, n)
    PROVE  LinkInv'
  <1> USE DEF LinkInv
  <1>0. /\ \A q \in Links, m \in PeerNames, t \in Int : Since(q, m, t) => Since(q, m, t)'
        /\ \A c \in Channels, m \in PeerNames, t \in Int : ByMember(c, m, t) => ByMember(c, m, t)'
    BY SinceKept
  <1>1. FullName[n] \in PeerNames /\ time \in Nat /\ time # None
    BY FullNames DEF Remembered!Layer1Assumption, LinkType
  <1>2. LinkType'
    BY <1>1 DEF Remembered!Neighbour, LinkType, LinkKeys
  <1>3. Unexpired'
    BY DEF Remembered!Neighbour, Unexpired
  <1>4. CacheSound'
    <2>1. linkCache' = linkCache
      BY DEF Remembered!Neighbour
    <2>2. \A k \in LinkKeys : linkCache[k] # None =>
              /\ linkCache[k].peer \in PeerNames /\ linkCache[k].until - Expiration \in Int
              /\ linkCache[k].until - 2 * Expiration + 1 \in Int
      BY DEF LinkType, Remembered!Layer1Assumption
    <2> QED BY <1>0, <2>1, <2>2 DEF CacheSound, LinkKeys
  <1>5. PipesSound'
    <2> SUFFICES ASSUME NEW v \in Workers, pipes'[v] # None
                 PROVE  (/\ pipes[v].key \in Links => Since(pipes[v].key, pipes[v].peer, time)
                         /\ pipes[v].key \in Channels =>
                               ByMember(pipes[v].key, pipes[v].peer, time - Expiration + 1))'
      BY DEF PipesSound
    <2>1. CASE v = w
      <3>1. pipes'[v] = [key |-> p, peer |-> FullName[n]]
        BY <2>1 DEF Remembered!Neighbour, LinkType
      <3>2. linked'[p][FullName[n]] = time /\ time' = time
        BY <1>1 DEF Remembered!Neighbour, LinkType
      <3>3. p \notin Channels
        BY DEF Remembered!Layer1Assumption
      <3> QED BY <1>1, <3>1, <3>2, <3>3 DEF Since
    <2>2. CASE v # w
      <3>1. pipes'[v] = pipes[v] /\ time' = time
        BY <2>2 DEF Remembered!Neighbour, LinkType
      <3>2. pipes[v].peer \in PeerNames /\ time \in Int /\ time - Expiration + 1 \in Int
        BY <3>1 DEF LinkType, Remembered!Layer1Assumption
      <3> QED BY <1>0, <3>1, <3>2 DEF PipesSound
    <2> QED BY <2>1, <2>2
  <1> QED BY <1>2, <1>3, <1>4, <1>5

\* A report of a member.
LEMMA MemberKeeps ==
    ASSUME LinkInv, NEW w \in Workers, NEW p \in Links, Remembered!Member(w, p)
    PROVE  LinkInv'
  <1> USE DEF LinkInv
  <1>1. MemberOf[p] \in Channels /\ MemberOf[p] \notin Links /\ p \in LinkKeys
    BY DEF Remembered!Layer1Assumption, LinkKeys
  <1>2. linkCache[p].peer \in PeerNames /\ linkCache[p].until \in Nat /\ linkCache[p] # None
    BY <1>1 DEF Remembered!Member, LinkType
  <1>3. LinkType'
    BY <1>1, <1>2 DEF Remembered!Member, LinkType, LinkKeys
  <1>4. Unexpired' /\ CacheSound'
    BY DEF Remembered!Member, Unexpired, CacheSound, Since, ByMember
  <1>5. PipesSound'
    <2> SUFFICES ASSUME NEW v \in Workers, pipes'[v] # None
                 PROVE  /\ pipes'[v].key \in Links => Since(pipes'[v].key, pipes'[v].peer, time)
                        /\ pipes'[v].key \in Channels =>
                              ByMember(pipes'[v].key, pipes'[v].peer, time - Expiration + 1)
      BY DEF PipesSound, Remembered!Member, Since, ByMember
    <2>1. CASE v = w
      <3>1. pipes'[v] = [key |-> MemberOf[p], peer |-> linkCache[p].peer]
        BY <2>1 DEF Remembered!Member, LinkType
      <3>2. Since(p, linkCache[p].peer, linkCache[p].until - Expiration)
        BY <1>2 DEF CacheSound
      <3>3. time < linkCache[p].until
        BY <1>1, <1>2 DEF Unexpired
      <3>4. time - Expiration + 1 <= linkCache[p].until - Expiration
        BY <1>2, <3>3 DEF LinkType, Remembered!Layer1Assumption
      <3>5. linked[p][linkCache[p].peer] \in Nat
        BY <1>2, <3>2 DEF LinkType, Since
      <3>6. Since(p, linkCache[p].peer, time - Expiration + 1)
        BY <1>2, <3>2, <3>4, <3>5 DEF Since, LinkType, Remembered!Layer1Assumption
      <3> QED BY <1>1, <3>1, <3>6 DEF ByMember
    <2>2. CASE v # w
      <3>1. pipes'[v] = pipes[v]
        BY <2>2 DEF Remembered!Member, LinkType
      <3> QED BY <3>1 DEF PipesSound
    <2> QED BY <2>1, <2>2
  <1> QED BY <1>3, <1>4, <1>5

\* What was to be executed is.
LEMMA ExecuteKeeps ==
    ASSUME LinkInv, NEW w \in Workers, Remembered!Execute(w)
    PROVE  LinkInv'
  <1> USE DEF LinkInv
  <1> DEFINE k == pipes[w].key
             n == pipes[w].peer
  <1>1. k \in LinkKeys /\ n \in PeerNames /\ time + Expiration \in Nat
    BY DEF Remembered!Execute, LinkType, Remembered!Layer1Assumption
  <1>2. /\ linkCache'[k] = [peer |-> n, until |-> time + Expiration]
        /\ \A j \in LinkKeys \ {k} : linkCache'[j] = linkCache[j]
    BY <1>1 DEF Remembered!Execute, Remembered!Expires, LinkType
  <1>3. time' = time /\ linked' = linked
    BY DEF Remembered!Execute
  <1>4. LinkType'
    BY <1>1 DEF Remembered!Execute, Remembered!Expires, LinkType
  <1>5. Unexpired'
    <2>1. time < time + Expiration
      BY DEF LinkType, Remembered!Layer1Assumption
    <2> QED BY <1>2, <1>3, <2>1 DEF Unexpired
  <1>6. CacheSound'
    <2> HIDE DEF k, n
    <2>1. ASSUME NEW p \in Links, linkCache'[p] # None
          PROVE  Since(p, linkCache'[p].peer, linkCache'[p].until - Expiration)
      <3>1. CASE p = k
        <4>1. Since(k, n, time)
          BY <3>1 DEF Remembered!Execute, PipesSound, k, n
        <4>2. (time + Expiration) - Expiration = time
          BY DEF LinkType, Remembered!Layer1Assumption
        <4> QED BY <1>2, <3>1, <4>1, <4>2
      <3>2. CASE p # k
        BY <1>2, <2>1, <3>2 DEF CacheSound, LinkKeys
      <3> QED BY <3>1, <3>2
    <2>2. ASSUME NEW c \in Channels, linkCache'[c] # None
          PROVE  ByMember(c, linkCache'[c].peer, linkCache'[c].until - 2 * Expiration + 1)
      <3>1. CASE c = k
        <4>1. ByMember(k, n, time - Expiration + 1)
          BY <3>1 DEF Remembered!Execute, PipesSound, k, n
        <4>2. (time + Expiration) - 2 * Expiration + 1 = time - Expiration + 1
          BY DEF LinkType, Remembered!Layer1Assumption
        <4> QED BY <1>2, <3>1, <4>1, <4>2
      <3>2. CASE c # k
        BY <1>2, <2>2, <3>2 DEF CacheSound, LinkKeys
      <3> QED BY <3>1, <3>2
    <2> QED BY <1>3, <2>1, <2>2 DEF CacheSound, Since, ByMember
  <1>7. PipesSound'
    <2>1. \A v \in Workers : pipes'[v] # None => pipes'[v] = pipes[v]
      BY DEF Remembered!Execute, LinkType
    <2> QED BY <1>3, <2>1 DEF PipesSound, Since, ByMember
  <1> QED BY <1>4, <1>5, <1>6, <1>7

\* Whatever is reported of the links and executed in which order, the peer of a channel
\* was reported for one of its members, and lately (Layer1Worker.save and
\* post_bulk_process).
THEOREM ChannelsFollow == Remembered!LinkSpec => []ChannelFollows
  <1>1. LinkInv /\ [Remembered!LinkNext]_(Remembered!linkVars) => LinkInv'
    <2>1. LinkInv /\ UNCHANGED Remembered!linkVars => LinkInv'
      BY DEF Remembered!linkVars, LinkInv, LinkType, Unexpired, CacheSound, PipesSound, Since, ByMember
    <2> QED BY <2>1, PassesKeeps, NeighbourKeeps, MemberKeeps, ExecuteKeeps DEF Remembered!LinkNext
  <1>2. LinkInv => ChannelFollows
    <2> SUFFICES ASSUME LinkInv, NEW c \in Channels, linkCache[c] # None
                 PROVE  \E p \in Links :
                          /\ MemberOf[p] = c /\ linked[p][linkCache[c].peer] # None
                          /\ time < linked[p][linkCache[c].peer] + 2 * Expiration
      BY DEF ChannelFollows, Remembered!ChannelFollows
    <2>1. linkCache[c].peer \in PeerNames /\ linkCache[c].until \in Nat /\ time < linkCache[c].until
      BY DEF LinkInv, LinkType, Unexpired, LinkKeys
    <2>2. PICK p \in Links : MemberOf[p] = c /\ Since(p, linkCache[c].peer, linkCache[c].until - 2 * Expiration + 1)
      BY DEF LinkInv, CacheSound, ByMember
    <2>3. linked[p][linkCache[c].peer] \in Nat /\ time \in Nat /\ Expiration \in Nat
      BY <2>1, <2>2 DEF LinkInv, LinkType, Since, Remembered!Layer1Assumption
    <2> QED BY <2>1, <2>2, <2>3 DEF Since
  <1>3. Remembered!LinkInit => LinkInv
    BY AnalysisAssumption, InitSound DEF AnalysisAssumption
  <1> QED BY <1>1, <1>2, <1>3, PTL DEF Remembered!LinkSpec

-----------------------------------------------------------------------------
(* Places of hosts *)

\* What was told is about the reports in hand and what the lookup found; a link the
\* reports are about that was there at the lookup, and since, was found, if redis
\* answered.
PlaceInv ==
    /\ sent # {} => step \in {"told", "guessed"}
    /\ step \in {"told", "guessed"} => sent = {Place!Message(r, uplinks) : r \in bulk}
    /\ step \in {"looked up", "told"} => known \cap Place!KeysOf(bulk) \subseteq uplinks

\* Nothing is told at first.
LEMMA PlaceBegins == Place!PlaceInit => PlaceInv
  BY DEF Place!PlaceInit, PlaceInv

\* One step per action.
LEMMA PlaceStep == PlaceInv /\ [Place!PlaceNext]_(Place!pvars) => PlaceInv'
  <1> SUFFICES ASSUME PlaceInv, [Place!PlaceNext]_(Place!pvars) PROVE PlaceInv'
    OBVIOUS
  <1> USE DEF PlaceInv
  <1>1. ASSUME NEW rs \in Bulks, Place!Take(rs) PROVE PlaceInv'
    BY <1>1 DEF Place!Take
  <1>2. CASE Place!LookUp
    <2>1. bulk' = bulk /\ sent' = sent /\ sent = {} /\ known' = placeCache
      BY Zenon, <1>2 DEF Place!LookUp
    <2>2. CASE uplinks' = placeCache \cap Place!KeysOf(bulk) /\ step' = "looked up"
      BY Zenon, <2>1, <2>2 DEF Place!KeysOf
    <2>3. CASE uplinks' = {} /\ step' = "unanswered"
      BY Zenon, <2>1, <2>3
    <2> QED BY Zenon, <1>2, <2>2, <2>3 DEF Place!LookUp
  <1>3. CASE Place!Tell
    BY Zenon, <1>3 DEF Place!Tell, Place!KeysOf, Place!Message, Place!DirectlyConnected
  <1>4. CASE Place!Done
    BY Zenon, <1>4 DEF Place!Done
  <1>5. CASE Place!Relink
    BY Zenon, <1>5 DEF Place!Relink, Place!KeysOf, Place!Message, Place!DirectlyConnected
  <1>6. CASE UNCHANGED Place!pvars
    BY Zenon, <1>6 DEF Place!pvars, Place!KeysOf, Place!Message, Place!DirectlyConnected
  <1> QED BY Zenon, <1>1, <1>2, <1>3, <1>4, <1>5, <1>6 DEF Place!PlaceNext

\* Whatever the layer 1 cache forgets or learns in between, no message places a host at
\* a port that leads to another switch, if redis answered the lookup; nor where arp, a
\* virtual port or a device without a port would have it (HostWatcher.save,
\* is_directly_connected and format_message).
THEOREM NeverPlacedAtUplinks == Place!PlaceSpec => []NotAtUplinks
  <1>1. PlaceInv => NotAtUplinks
    <2> SUFFICES ASSUME PlaceInv PROVE Place!NotAtUplinks
      BY DEF NotAtUplinks
    <2>1. ASSUME NEW m \in sent
          PROVE  \E r \in bulk : m = Place!Message(r, uplinks)
      BY Zenon, <2>1 DEF PlaceInv
    <2>2. ASSUME NEW m \in sent, m.device # None
          PROVE  m.ip = None /\ m.port # None /\ HostPorts[m.port].kind = "port"
      <3>1. PICK r \in bulk : m = Place!Message(r, uplinks)
        BY <2>1
      <3>2. Place!DirectlyConnected(r, uplinks) /\ r.device # None
        BY <2>2, <3>1 DEF Place!Message
      <3>3. m.ip = r.ip /\ m.port = r.port
        BY <3>1, <3>2 DEF Place!Message
      <3> QED BY <3>2, <3>3 DEF Place!DirectlyConnected
    <2>3. ASSUME step = "told", \A r \in bulk : Place!Plain(r), NEW m \in sent
          PROVE  Place!At(m) \cap known = {}
      <3>1. CASE m.device = None \/ m.port = None
        BY <3>1 DEF Place!At
      <3>2. CASE m.device # None /\ m.port # None
        <4>1. PICK r \in bulk : m = Place!Message(r, uplinks)
          BY <2>1
        <4>2. Place!DirectlyConnected(r, uplinks) /\ r.device # None
          BY <3>2, <4>1 DEF Place!Message
        <4>3. m.device = r.device /\ m.port = r.port
          BY <4>1, <4>2 DEF Place!Message
        <4>4. Lower[r.device] = r.device /\ HostPorts[r.port].of = r.port
          BY <2>3, <3>2, <4>2, <4>3 DEF Place!Plain
        <4>5. <<r.device, r.port>> \in Place!KeysOf(bulk)
          BY <3>2, <4>2, <4>3, <4>4 DEF Place!KeysOf, Place!PhysicalInterface
        <4>6. <<r.device, r.port>> \notin uplinks
          BY <4>2 DEF Place!DirectlyConnected, Place!PhysicalInterface
        <4>7. <<r.device, r.port>> \notin known
          BY <2>3, <4>5, <4>6 DEF PlaceInv
        <4>8. Place!At(m) = {<<r.device, r.port>>}
          BY <3>2, <4>3, <4>4 DEF Place!At
        <4> QED BY <4>7, <4>8
      <3> QED BY <3>1, <3>2
    <2> QED BY <2>2, <2>3 DEF Place!NotAtUplinks
  <1> QED BY <1>1, PlaceBegins, PlaceStep, PTL DEF Place!PlaceSpec

-----------------------------------------------------------------------------
(* Telephones: the inductive invariant *)

\* The reports that wait and those in work are not of the future.
ReportsOfPhones == [time : 0 .. clock, place : Places \cup {None}, phones : SUBSET Phones]

PhoneType ==
    /\ clock \in Nat
    /\ queue \in Seq(ReportsOfPhones)
    /\ phoneSeen \in [Phones -> Nat \cup {None}] /\ gone \in [Phones -> Nat \cup {None}]
    /\ where \in [Phones -> Places \cup {None}] /\ untold \in [Phones -> Int]
    /\ phoneWork \in [Workers ->
          [pc : {"idle", "rows", "add", "set", "post", "remove"},
           m : ReportsOfPhones, todo : SUBSET Phones,
           phone : Phones \cup {None}, last : Places \cup {None}]]

\* A worker at the keys of a phone has a report of it.
AtOwnPhones ==
    \A w \in Workers :
        /\ phoneWork[w].todo \subseteq phoneWork[w].m.phones
        /\ phoneWork[w].pc \in {"add", "set"} => phoneWork[w].phone \in phoneWork[w].m.phones

\* Two workers have a report of the same phone only if that is known.
NoCrossing ==
    \A w, x \in Workers : w # x =>
        phoneWork[w].m.phones \cap phoneWork[x].m.phones \subseteq crossed

\* What a worker read of the place of such a phone is still true.
PlaceStillTrue ==
    \A w \in Workers :
        phoneWork[w].pc \in {"add", "set"} /\ phoneWork[w].phone \notin crossed =>
            phoneWork[w].last = where[phoneWork[w].phone]

\* Who is about to remove phones that were seen too long ago has said that they are gone.
Announced ==
    \A w \in Workers, p \in Phones :
        phoneWork[w].pc = "remove" /\ phoneSeen[p] # None
            /\ phoneSeen[p] < phoneWork[w].m.time - Delta
        => gone[p] = phoneSeen[p] \/ p \in late

PhoneInv ==
    PhoneType /\ AtOwnPhones /\ NoCrossing /\ PlaceStillTrue /\ Followed!MovesTold /\ Announced

\* At first no phone is known.
LEMMA PhonesBegin == Followed!Init => PhoneInv
  <1> SUFFICES ASSUME Followed!Init PROVE PhoneInv
    OBVIOUS
  <1>1. PhoneType
    BY DEF Followed!Init, PhoneType, ReportsOfPhones, Followed!Idle
  <1>2. AtOwnPhones /\ NoCrossing /\ PlaceStillTrue /\ Announced
    BY DEF Followed!Init, AtOwnPhones, NoCrossing, PlaceStillTrue, Announced, Followed!Idle
  <1>3. Followed!MovesTold
    BY DEF Followed!Init, Followed!MovesTold
  <1> QED BY <1>1, <1>2, <1>3 DEF PhoneInv

-----------------------------------------------------------------------------
(* Telephones: steps *)

\* Time passes: what is not of the future stays so.
LEMMA ReportsStay ==
    ASSUME clock \in Nat, clock' \in Nat, clock <= clock'
    PROVE  ReportsOfPhones \subseteq ReportsOfPhones'
  BY DEF ReportsOfPhones

\* Time passes: nothing is known or told otherwise.
LEMMA PhoneTick == PhoneInv /\ Followed!Tick => PhoneInv'
  <1> SUFFICES ASSUME PhoneInv, Followed!Tick PROVE PhoneInv'
    OBVIOUS
  <1>1. /\ clock' = clock + 1 /\ clock \in Nat
        /\ UNCHANGED <<queue, phoneSeen, where, phoneWork, untold, gone, late, crossed>>
    BY DEF Followed!Tick, Followed!phones, Followed!history, PhoneInv, PhoneType
  <1>2. ReportsOfPhones \subseteq ReportsOfPhones'
    BY <1>1, ReportsStay
  <1>3. PhoneType'
    <2>1. queue' \in Seq(ReportsOfPhones')
      BY <1>1, <1>2 DEF PhoneInv, PhoneType
    <2> QED BY <1>1, <1>2, <2>1 DEF PhoneInv, PhoneType
  <1> QED
    BY <1>1, <1>3 DEF PhoneInv, AtOwnPhones, NoCrossing, PlaceStillTrue, Announced,
                      Followed!MovesTold

\* A report is sent: nothing is known or told otherwise before it is taken.
LEMMA PhoneReport ==
    ASSUME PhoneInv, NEW p \in Places, NEW S \in Together, Followed!Report(p, S)
    PROVE  PhoneInv'
  <1>1. UNCHANGED <<clock, phoneSeen, where, phoneWork, untold, gone, late, crossed>>
    BY DEF Followed!Report, Followed!phones, Followed!history
  <1>2. ReportsOfPhones' = ReportsOfPhones
    BY <1>1 DEF ReportsOfPhones
  <1>3. [time |-> clock, place |-> p, phones |-> S] \in ReportsOfPhones
    BY AnalysisAssumption DEF Followed!TelephonesAssumption, PhoneInv, PhoneType, ReportsOfPhones
  <1>4. PhoneType'
    BY <1>1, <1>2, <1>3 DEF Followed!Report, PhoneInv, PhoneType
  <1> QED
    BY <1>1, <1>4 DEF PhoneInv, AtOwnPhones, NoCrossing, PlaceStillTrue, Announced,
                      Followed!MovesTold

\* A worker takes a report of a phone, which from then on may cross that of another.
LEMMA PhoneTake ==
    ASSUME PhoneInv, NEW w \in Workers, Followed!Take(w)
    PROVE  PhoneInv'
  <1> DEFINE m == Head(queue)
             now == IF m.phones = {} THEN Followed!Idle
                    ELSE [Followed!Idle EXCEPT !.pc = "rows", !.m = m, !.todo = m.phones]
  <1>1. /\ UNCHANGED <<clock, phoneSeen, where, untold, gone, late>>
        /\ phoneWork' = [phoneWork EXCEPT ![w] = now] /\ queue' = Tail(queue) /\ queue # <<>>
    BY DEF Followed!Take, Followed!Step
  <1>2. ReportsOfPhones' = ReportsOfPhones
    BY <1>1 DEF ReportsOfPhones
  <1>3. m \in ReportsOfPhones
    BY <1>1 DEF PhoneInv, PhoneType
  <1>4. crossed \cup {p \in m.phones : \E x \in Workers : p \in phoneWork[x].m.phones} = crossed'
    BY DEF Followed!Take
  <1>5. Followed!Idle.m \in ReportsOfPhones
    BY DEF Followed!Idle, PhoneInv, PhoneType, ReportsOfPhones
  <1>6. /\ now \in [pc : {"idle", "rows"}, m : ReportsOfPhones, todo : SUBSET Phones,
                    phone : {None}, last : {None}]
        /\ now.todo \subseteq now.m.phones /\ now.m.phones = m.phones
    BY Zenon, <1>3, <1>5 DEF Followed!Idle, ReportsOfPhones
  <1> HIDE DEF now, m
  <1>7. PhoneType'
    <2>1. queue' \in Seq(ReportsOfPhones)
      BY <1>1 DEF PhoneInv, PhoneType
    <2> QED BY <1>1, <1>2, <1>6, <2>1 DEF PhoneInv, PhoneType
  <1>8. \A x \in Workers : phoneWork'[x] = IF x = w THEN now ELSE phoneWork[x]
    BY <1>1 DEF PhoneInv, PhoneType
  <1>9. AtOwnPhones' /\ PlaceStillTrue' /\ Announced'
    BY <1>1, <1>4, <1>6, <1>8 DEF PhoneInv, AtOwnPhones, PlaceStillTrue, Announced
  <1>10. NoCrossing'
    BY <1>4, <1>6, <1>8 DEF PhoneInv, NoCrossing
  <1>11. Followed!MovesTold'
    BY <1>1, <1>4 DEF PhoneInv, Followed!MovesTold
  <1> QED BY <1>7, <1>9, <1>10, <1>11 DEF PhoneInv

\* What a worker does for itself is no business of the others.
LEMMA PhoneOwnStep ==
    ASSUME PhoneInv, NEW w \in Workers, NEW now, phoneWork' = [phoneWork EXCEPT ![w] = now],
           now \in [pc : {"idle", "rows", "add", "set", "post", "remove"},
                    m : ReportsOfPhones, todo : SUBSET Phones,
                    phone : Phones \cup {None}, last : Places \cup {None}],
           now.m.phones \subseteq phoneWork[w].m.phones, now.todo \subseteq now.m.phones,
           now.pc \in {"add", "set"} => now.phone \in now.m.phones,
           UNCHANGED <<clock, queue, crossed>>
    PROVE  /\ \A x \in Workers : phoneWork'[x] = IF x = w THEN now ELSE phoneWork[x]
           /\ queue' \in Seq(ReportsOfPhones') /\ clock' \in Nat
           /\ phoneWork' \in [Workers ->
                [pc : {"idle", "rows", "add", "set", "post", "remove"},
                 m : ReportsOfPhones', todo : SUBSET Phones,
                 phone : Phones \cup {None}, last : Places \cup {None}]]
           /\ AtOwnPhones' /\ NoCrossing'
  <1>1. \A x \in Workers : phoneWork'[x] = IF x = w THEN now ELSE phoneWork[x]
    BY DEF PhoneInv, PhoneType
  <1>2. ReportsOfPhones' = ReportsOfPhones
    BY DEF ReportsOfPhones
  <1>3. AtOwnPhones' /\ NoCrossing'
    BY <1>1 DEF PhoneInv, AtOwnPhones, NoCrossing
  <1> QED BY <1>1, <1>2, <1>3 DEF PhoneInv, PhoneType

\* A worker takes the next phone of its report, and looks up where it was.
LEMMA PhoneLook ==
    ASSUME PhoneInv, NEW w \in Workers, Followed!Look(w)
    PROVE  PhoneInv'
  <1>1. PICK p \in phoneWork[w].todo :
           phoneWork' = [phoneWork EXCEPT ![w] =
              [phoneWork[w] EXCEPT !.pc = "add", !.phone = p, !.last = where[p], !.todo = @ \ {p}]]
    BY Zenon DEF Followed!Look, Followed!Step, Followed!LastSeenAt
  <1> DEFINE now == [phoneWork[w] EXCEPT !.pc = "add", !.phone = p, !.last = where[p],
                                         !.todo = @ \ {p}]
  <1>2. UNCHANGED <<clock, queue, phoneSeen, where, untold, gone, late, crossed>>
    BY DEF Followed!Look, Followed!history
  <1>3. p \in Phones /\ p \in phoneWork[w].m.phones
    BY DEF PhoneInv, PhoneType, AtOwnPhones
  <1>4. /\ now \in [pc : {"idle", "rows", "add", "set", "post", "remove"},
                    m : ReportsOfPhones, todo : SUBSET Phones,
                    phone : Phones \cup {None}, last : Places \cup {None}]
        /\ now.pc = "add" /\ now.phone = p /\ now.last = where[p]
        /\ now.m = phoneWork[w].m /\ now.todo \subseteq phoneWork[w].todo
    BY Zenon, <1>3 DEF PhoneInv, PhoneType
  <1> HIDE DEF now
  <1>5. now.todo \subseteq now.m.phones
    BY <1>4 DEF PhoneInv, AtOwnPhones
  <1>6. phoneWork' = [phoneWork EXCEPT ![w] = now]
    BY <1>1 DEF now
  <1>7. /\ \A x \in Workers : phoneWork'[x] = IF x = w THEN now ELSE phoneWork[x]
        /\ PhoneType' /\ AtOwnPhones' /\ NoCrossing'
    BY Zenon, <1>2, <1>3, <1>4, <1>5, <1>6, PhoneOwnStep DEF PhoneInv, PhoneType
  <1>8. PlaceStillTrue' /\ Announced' /\ Followed!MovesTold'
    BY <1>2, <1>4, <1>7 DEF PhoneInv, PlaceStillTrue, Announced, Followed!MovesTold
  <1> QED BY <1>7, <1>8 DEF PhoneInv

\* A worker marks its phone as seen, at the time of its report.
LEMMA PhoneAdd ==
    ASSUME PhoneInv, NEW w \in Workers, Followed!Add(w)
    PROVE  PhoneInv'
  <1> DEFINE p == phoneWork[w].phone
             t == phoneWork[w].m.time
             now == [phoneWork[w] EXCEPT !.pc = "set"]
  <1>1. /\ phoneWork[w].pc = "add" /\ phoneWork' = [phoneWork EXCEPT ![w] = now]
        /\ phoneSeen' = [phoneSeen EXCEPT ![p] = t]
        /\ late' = (IF clock - t >= Delta THEN late \cup {p} ELSE late)
        /\ UNCHANGED <<clock, queue, where, untold, gone, crossed>>
    BY DEF Followed!Add, Followed!Step
  <1>2. p \in phoneWork[w].m.phones /\ p \in Phones /\ t \in 0 .. clock /\ clock \in Nat
    BY <1>1 DEF PhoneInv, PhoneType, AtOwnPhones, ReportsOfPhones
  <1>3. /\ now \in [pc : {"idle", "rows", "add", "set", "post", "remove"},
                    m : ReportsOfPhones, todo : SUBSET Phones,
                    phone : Phones \cup {None}, last : Places \cup {None}]
        /\ now.pc = "set" /\ now.phone = p /\ now.last = phoneWork[w].last
        /\ now.m = phoneWork[w].m /\ now.todo = phoneWork[w].todo
    BY Zenon DEF PhoneInv, PhoneType
  <1> HIDE DEF now
  <1>4. now.todo \subseteq now.m.phones
    BY <1>3 DEF PhoneInv, AtOwnPhones
  <1>5. /\ \A x \in Workers : phoneWork'[x] = IF x = w THEN now ELSE phoneWork[x]
        /\ PhoneType' /\ AtOwnPhones' /\ NoCrossing'
    <2>1. phoneSeen' \in [Phones -> Nat \cup {None}]
      BY <1>1, <1>2 DEF PhoneInv, PhoneType
    <2>2. now.m.phones \subseteq phoneWork[w].m.phones
      BY <1>3
    <2>3. now.pc \in {"add", "set"} => now.phone \in now.m.phones
      BY <1>2, <1>3
    <2> HIDE DEF p, t
    <2> QED
      BY Zenon, <1>1, <1>3, <1>4, <2>1, <2>2, <2>3, PhoneOwnStep DEF PhoneInv, PhoneType
  <1>6. PlaceStillTrue' /\ Followed!MovesTold'
    BY <1>1, <1>3, <1>5 DEF PhoneInv, PlaceStillTrue, Followed!MovesTold
  <1>7. Announced'
    <2> SUFFICES ASSUME NEW x \in Workers, NEW q \in Phones,
                        phoneWork'[x].pc = "remove", phoneSeen'[q] # None,
                        phoneSeen'[q] < phoneWork'[x].m.time - Delta
                 PROVE  gone[q] = phoneSeen'[q] \/ q \in late'
      BY <1>1 DEF Announced
    <2>1. x # w /\ phoneWork'[x] = phoneWork[x] /\ phoneWork[x].m.time \in 0 .. clock
      BY Zenon, <1>3, <1>5 DEF PhoneInv, PhoneType, ReportsOfPhones
    <2>2. CASE q = p
      <3>1. phoneSeen'[q] = t
        BY <1>1, <1>2, <2>2 DEF PhoneInv, PhoneType
      <3>2. clock - t >= Delta
        <4>1. Delta \in Nat
          BY AnalysisAssumption DEF Followed!TelephonesAssumption
        <4> HIDE DEF t
        <4> QED BY <1>2, <2>1, <3>1, <4>1
      <3> QED BY <1>1, <2>2, <3>2
    <2>3. CASE q # p
      <3>1. phoneSeen'[q] = phoneSeen[q] /\ (q \in late => q \in late')
        BY <1>1, <2>3 DEF PhoneInv, PhoneType
      <3> QED BY <2>1, <3>1 DEF PhoneInv, Announced
    <2> QED BY <2>2, <2>3
  <1> QED BY <1>5, <1>6, <1>7 DEF PhoneInv

\* A worker tells where its phone is, if that is not where it was.
LEMMA PhonePut ==
    ASSUME PhoneInv, NEW w \in Workers, Followed!Put(w)
    PROVE  PhoneInv'
  <1> DEFINE p == phoneWork[w].phone
             here == phoneWork[w].m.place
             now == [phoneWork[w] EXCEPT !.pc = IF phoneWork[w].todo = {} THEN "post" ELSE "rows"]
             change == (IF where[p] # here THEN 1 ELSE 0)
                         - (IF phoneWork[w].last # here THEN 1 ELSE 0)
  <1>1. /\ phoneWork[w].pc = "set" /\ phoneWork' = [phoneWork EXCEPT ![w] = now]
        /\ where' = [where EXCEPT ![p] = here]
        /\ untold' = [untold EXCEPT ![p] = @ + (IF where[p] # here THEN 1 ELSE 0)
                                             - (IF phoneWork[w].last # here THEN 1 ELSE 0)]
        /\ UNCHANGED <<clock, queue, phoneSeen, gone, late, crossed>>
    BY DEF Followed!Put, Followed!Step
  <1>2. p \in phoneWork[w].m.phones /\ p \in Phones /\ here \in Places \cup {None}
    BY <1>1 DEF PhoneInv, PhoneType, AtOwnPhones, ReportsOfPhones
  <1>3. /\ now \in [pc : {"idle", "rows", "add", "set", "post", "remove"},
                    m : ReportsOfPhones, todo : SUBSET Phones,
                    phone : Phones \cup {None}, last : Places \cup {None}]
        /\ now.pc \in {"post", "rows"}
        /\ now.m = phoneWork[w].m /\ now.todo = phoneWork[w].todo
    BY Zenon DEF PhoneInv, PhoneType
  <1>4. now.todo \subseteq now.m.phones
    BY <1>3 DEF PhoneInv, AtOwnPhones
  <1>5. /\ untold' \in [Phones -> Int] /\ where' \in [Phones -> Places \cup {None}]
        /\ \A q \in Phones \ {p} : untold'[q] = untold[q] /\ where'[q] = where[q]
        /\ untold'[p] = untold[p] + change
    BY <1>1, <1>2 DEF PhoneInv, PhoneType
  <1>6. p \notin crossed => change = 0
    BY <1>1 DEF PhoneInv, PlaceStillTrue
  <1> HIDE DEF now, here, change
  <1>7. /\ \A x \in Workers : phoneWork'[x] = IF x = w THEN now ELSE phoneWork[x]
        /\ PhoneType' /\ AtOwnPhones' /\ NoCrossing'
    BY Zenon, <1>1, <1>3, <1>4, <1>5, PhoneOwnStep DEF PhoneInv, PhoneType
  <1>8. PlaceStillTrue'
    <2> SUFFICES ASSUME NEW x \in Workers, phoneWork'[x].pc \in {"add", "set"},
                        phoneWork'[x].phone \notin crossed
                 PROVE  phoneWork'[x].last = where'[phoneWork'[x].phone]
      BY <1>1 DEF PlaceStillTrue
    <2>1. x # w /\ phoneWork'[x] = phoneWork[x]
      BY <1>3, <1>7
    <2>2. phoneWork[x].phone \in phoneWork[x].m.phones /\ phoneWork[x].phone \in Phones
      BY <2>1 DEF PhoneInv, PhoneType, AtOwnPhones, ReportsOfPhones
    <2>3. phoneWork[x].phone # p
      BY <1>2, <2>1, <2>2 DEF PhoneInv, NoCrossing
    <2> QED BY <1>5, <2>1, <2>2, <2>3 DEF PhoneInv, PlaceStillTrue
  <1>9. Followed!MovesTold'
    <2> SUFFICES ASSUME NEW q \in Phones, q \notin crossed PROVE untold'[q] = 0
      BY <1>1 DEF Followed!MovesTold
    <2>1. untold[q] = 0
      BY DEF PhoneInv, Followed!MovesTold
    <2> QED BY <1>5, <1>6, <2>1
  <1>10. Announced'
    BY <1>1, <1>3, <1>7 DEF PhoneInv, Announced
  <1> QED BY <1>7, <1>8, <1>9, <1>10 DEF PhoneInv

\* A worker lists the phones that were not seen for long, which says that they are gone.
LEMMA PhoneList ==
    ASSUME PhoneInv, NEW w \in Workers, Followed!List(w)
    PROVE  PhoneInv'
  <1> DEFINE now == [phoneWork[w] EXCEPT !.pc = "remove"]
             delta == phoneWork[w].m.time - Delta
             lost == {p \in Phones : phoneSeen[p] # None /\ phoneSeen[p] < delta}
  <1>1. /\ phoneWork[w].pc = "post" /\ phoneWork' = [phoneWork EXCEPT ![w] = now]
        /\ gone' = [p \in Phones |-> IF p \in lost THEN phoneSeen[p] ELSE gone[p]]
        /\ UNCHANGED <<clock, queue, phoneSeen, where, untold, late, crossed>>
    BY DEF Followed!List, Followed!Step, Followed!HeldBack, Followed!TooLong
  <1>2. /\ now \in [pc : {"idle", "rows", "add", "set", "post", "remove"},
                    m : ReportsOfPhones, todo : SUBSET Phones,
                    phone : Phones \cup {None}, last : Places \cup {None}]
        /\ now.pc = "remove" /\ now.m = phoneWork[w].m /\ now.todo = phoneWork[w].todo
    BY Zenon DEF PhoneInv, PhoneType
  <1> HIDE DEF now
  <1>3. now.todo \subseteq now.m.phones
    BY <1>2 DEF PhoneInv, AtOwnPhones
  <1>4. gone' \in [Phones -> Nat \cup {None}]
    BY <1>1 DEF PhoneInv, PhoneType
  <1> HIDE DEF lost
  <1>5. /\ \A x \in Workers : phoneWork'[x] = IF x = w THEN now ELSE phoneWork[x]
        /\ PhoneType' /\ AtOwnPhones' /\ NoCrossing'
    BY Zenon, <1>1, <1>2, <1>3, <1>4, PhoneOwnStep DEF PhoneInv, PhoneType
  <1>6. PlaceStillTrue' /\ Followed!MovesTold'
    BY <1>1, <1>2, <1>5 DEF PhoneInv, PlaceStillTrue, Followed!MovesTold
  <1>7. Announced'
    BY <1>1, <1>2, <1>5 DEF PhoneInv, Announced, lost
  <1> QED BY <1>5, <1>6, <1>7 DEF PhoneInv

\* A worker that is done, or stops, has nothing in hand.
LEMMA PhoneIdle ==
    ASSUME PhoneInv, NEW w \in Workers, phoneWork' = [phoneWork EXCEPT ![w] = Followed!Idle],
           UNCHANGED <<clock, queue, where, untold, gone, late, crossed>>,
           phoneSeen' \in [Phones -> Nat \cup {None}],
           \A p \in Phones : phoneSeen'[p] # None => phoneSeen'[p] = phoneSeen[p]
    PROVE  PhoneInv'
  <1> DEFINE now == Followed!Idle
  <1>1. /\ now \in [pc : {"idle", "rows", "add", "set", "post", "remove"},
                    m : ReportsOfPhones, todo : SUBSET Phones,
                    phone : Phones \cup {None}, last : Places \cup {None}]
        /\ now.pc = "idle" /\ now.m.phones = {} /\ now.todo = {}
    BY DEF Followed!Idle, PhoneInv, PhoneType, ReportsOfPhones
  <1> HIDE DEF now
  <1>2. /\ \A x \in Workers : phoneWork'[x] = IF x = w THEN now ELSE phoneWork[x]
        /\ PhoneType' /\ AtOwnPhones' /\ NoCrossing'
    <2>1. phoneWork' = [phoneWork EXCEPT ![w] = now]
      BY DEF now
    <2> QED BY Zenon, <1>1, <2>1, PhoneOwnStep DEF PhoneInv, PhoneType
  <1>3. PlaceStillTrue' /\ Followed!MovesTold'
    BY <1>1, <1>2 DEF PhoneInv, PlaceStillTrue, Followed!MovesTold
  <1>4. Announced'
    BY <1>1, <1>2 DEF PhoneInv, Announced
  <1> QED BY <1>2, <1>3, <1>4 DEF PhoneInv

\* One step per action.
LEMMA PhoneStep == PhoneInv /\ [Followed!Next]_(Followed!vars) => PhoneInv'
  <1> SUFFICES ASSUME PhoneInv, [Followed!Next]_(Followed!vars) PROVE PhoneInv'
    OBVIOUS
  <1>1. ASSUME NEW w \in Workers, Followed!Remove(w) PROVE PhoneInv'
    <2>1. phoneSeen' = [p \in Phones |->
             IF p \in Followed!Vanished(phoneWork[w].m) THEN None ELSE phoneSeen[p]]
      BY <1>1 DEF Followed!Remove
    <2>2. phoneSeen' \in [Phones -> Nat \cup {None}]
      BY <2>1 DEF PhoneInv, PhoneType
    <2>3. \A p \in Phones : phoneSeen'[p] # None => phoneSeen'[p] = phoneSeen[p]
      BY <2>1
    <2> QED
      BY Zenon, <1>1, <2>2, <2>3, PhoneIdle DEF Followed!Remove, Followed!Step, Followed!history
  <1>2. ASSUME NEW w \in Workers, Followed!Restart(w) PROVE PhoneInv'
    BY Zenon, <1>2, PhoneIdle DEF Followed!Restart, Followed!Step, Followed!history, PhoneInv,
                                  PhoneType
  <1>3. CASE UNCHANGED Followed!vars
    <2>1. UNCHANGED <<clock, queue, phoneSeen, where, phoneWork, untold, gone, late, crossed>>
      BY <1>3 DEF Followed!vars, Followed!phones, Followed!history
    <2>2. ReportsOfPhones' = ReportsOfPhones
      BY <2>1 DEF ReportsOfPhones
    <2> QED
      BY <2>1, <2>2 DEF PhoneInv, PhoneType, AtOwnPhones, NoCrossing, PlaceStillTrue, Announced,
                        Followed!MovesTold
  <1> QED
    BY <1>1, <1>2, <1>3, PhoneTick, PhoneReport, PhoneTake, PhoneLook, PhoneAdd, PhonePut,
       PhoneList DEF Followed!Next

\* The keys of redis change in any order, workers stop and start: each change of a
\* phone's place is told once, unless two reports of the phone cross; and a phone is
\* forgotten only when it was said to be gone, but for one last seen exactly at the
\* bound, or reported late (TelephonesWorker.save and post_bulk_process).
THEOREM TelephonesAlwaysTold == Followed!Spec => TelephonesTold
  <1>1. PhoneInv => Followed!MovesTold
    BY DEF PhoneInv
  <1>2. PhoneInv /\ [Followed!Next]_(Followed!vars) =>
          [Followed!ForgottenIsTold]_(Followed!vars)
    <2> SUFFICES ASSUME PhoneInv, Followed!Next, NEW p \in Phones, phoneSeen[p] # None,
                        phoneSeen'[p] = None
                 PROVE  \/ gone[p] = phoneSeen[p] \/ p \in late
                        \/ \E w \in Workers : /\ phoneWork[w].pc = "remove"
                                              /\ phoneSeen[p] = phoneWork[w].m.time - Delta
      BY DEF Followed!ForgottenIsTold
    <2>1. ASSUME NEW w \in Workers, Followed!Add(w) PROVE phoneSeen'[p] # None
      <3>1. phoneWork[w].m.time # None
        BY AnalysisAssumption DEF Followed!TelephonesAssumption, PhoneInv, PhoneType,
                                  ReportsOfPhones
      <3>2. phoneSeen' = [phoneSeen EXCEPT ![phoneWork[w].phone] = phoneWork[w].m.time]
        BY <2>1 DEF Followed!Add
      <3>3. phoneSeen'[p] \in {phoneSeen[p], phoneWork[w].m.time}
        <4>1. DOMAIN phoneSeen = Phones
          BY DEF PhoneInv, PhoneType
        <4> QED BY Zenon, <3>2, <4>1
      <3> QED BY <3>1, <3>3
    <2>2. PICK w \in Workers : Followed!Remove(w)
      BY Zenon, <2>1 DEF Followed!Next, Followed!Tick, Followed!Report, Followed!Take,
                         Followed!Look,
                  Followed!Put, Followed!List, Followed!Restart, Followed!phones
    <2>3. phoneWork[w].pc = "remove" /\ phoneSeen[p] <= phoneWork[w].m.time - Delta
      BY <2>2 DEF Followed!Remove, Followed!Vanished
    <2>4. /\ phoneSeen[p] \in Nat /\ phoneWork[w].m.time \in Nat /\ Delta \in Nat
      BY AnalysisAssumption DEF Followed!TelephonesAssumption, PhoneInv, PhoneType, ReportsOfPhones
    <2>5. CASE phoneSeen[p] < phoneWork[w].m.time - Delta
      BY <2>3, <2>5 DEF PhoneInv, Announced
    <2>6. CASE phoneSeen[p] = phoneWork[w].m.time - Delta
      BY <2>3, <2>6
    <2> QED BY <2>3, <2>4, <2>5, <2>6
  <1> QED
    BY <1>1, <1>2, PhonesBegin, PhoneStep, PTL
       DEF Followed!Spec, TelephonesTold, Followed!GoneIsTold

-----------------------------------------------------------------------------
(* Files: the inductive invariant *)

\* A file is there, with hosts, or not, or empty.
IsFile(f) == f \in {Written!NoFile, Written!Empty} \/ f = Written!File(f.hosts)

FileType ==
    /\ registry \subseteq Devices /\ rules \in Rules
    /\ files = [c \in Categories |-> files[c]] /\ \A c \in Categories : IsFile(files[c])
    /\ toldStore = [d \in Devices |-> toldStore[d]]
    /\ todo \subseteq DOMAIN items /\ DOMAIN items \subseteq Categories
    /\ \A c \in DOMAIN items : items[c] \subseteq Devices
    /\ fileAt \in {"idle", "files"} \cup Categories
    /\ wanted \subseteq Categories \X Devices

\* What people wrote is in a file, and in what was read of it to write it again.
WantedRead ==
    \A w \in wanted :
        /\ files[w[1]] # Written!NoFile
        /\ fileAt = w[1] => w[2] \in DOMAIN current /\ current[w[2]] = Written!Custom

\* The categories an update is done with are listed as it found them.
DoneListed ==
    \A c \in DOMAIN items :
        /\ \A d \in items[c] : c \in toldStore[d]
        /\ c \notin todo =>
              /\ Written!There(c)
              /\ items[c] \ Terminals \subseteq DOMAIN files[c].hosts
              /\ DOMAIN files[c].hosts \ Terminals \subseteq items[c]

FilesInv == FileType /\ Written!CustomisationsKept /\ WantedRead /\ DoneListed

\* At first there are no files.
LEMMA FilesBegin == Written!FilesInit => FilesInv
  <1> SUFFICES ASSUME Written!FilesInit PROVE FilesInv
    OBVIOUS
  <1>1. FileType
    BY DEF Written!FilesInit, FileType, IsFile
  <1>2. Written!CustomisationsKept /\ WantedRead /\ DoneListed
    BY DEF Written!FilesInit, Written!CustomisationsKept, WantedRead, DoneListed
  <1> QED BY <1>1, <1>2 DEF FilesInv

\* The marks of how far an update is are no categories.
LEMMA MarksApart == "idle" \notin Categories /\ "files" \notin Categories
  BY AnalysisAssumption DEF Written!FilesAssumption

\* The categories of a device, one of which is chosen.
LEMMA CategoriesKnown ==
    ASSUME FileType, NEW d \in Devices
    PROVE  /\ Written!CategoriesOf(d) \subseteq Categories
           /\ Written!Chosen(d) \in Written!CategoriesOf(d)
  <1>1. rules[d].name \subseteq Categories /\ rules[d].exclude \subseteq Categories
    <2>1. Rules \subseteq [Devices -> [name : SUBSET Categories, exclude : SUBSET Categories]]
      BY AnalysisAssumption DEF Written!FilesAssumption
    <2>2. rules[d] \in [name : SUBSET Categories, exclude : SUBSET Categories]
      BY <2>1 DEF FileType
    <2> QED BY <2>2
  <1>2. "other" \in Categories
    BY AnalysisAssumption DEF Written!FilesAssumption
  <1>3. Written!CategoriesOf(d) \subseteq Categories /\ Written!CategoriesOf(d) # {}
    BY <1>1, <1>2 DEF Written!CategoriesOf
  <1>4. Written!Chosen(d) \in Written!CategoriesOf(d)
    <2> HIDE DEF Written!CategoriesOf
    <2>1. PICK c : c \in Written!CategoriesOf(d)
      BY <1>3
    <2> QED BY <2>1 DEF Written!Chosen
  <1> QED BY <1>3, <1>4

-----------------------------------------------------------------------------
(* Files: steps *)

\* An update begins: nothing is done yet, and the store is told the categories.
LEMMA FilesCollect ==
    ASSUME FilesInv, Written!Collect
    PROVE  FilesInv'
  <1> DEFINE cats == {Written!Chosen(d) : d \in Written!Kept}
  <1>1. /\ toldStore' = [d \in Devices |-> IF d \in Written!Kept THEN Written!CategoriesOf(d)
                                           ELSE toldStore[d]]
        /\ items' = [c \in cats |-> {d \in Written!Kept : Written!Chosen(d) = c}]
        /\ todo' = cats /\ fileAt' \in {"idle", "files"}
        /\ UNCHANGED <<registry, rules, files, current, wanted>>
    BY DEF Written!Collect
  <1>2. Written!Kept \subseteq Devices
    BY DEF Written!Kept, FilesInv, FileType
  <1>3. cats \subseteq Categories
    BY <1>2, CategoriesKnown DEF FilesInv
  <1>4. DOMAIN items' = cats /\ \A c \in cats : items'[c] \subseteq Devices
    BY <1>1, <1>2
  <1>5. \A c \in cats : \A d \in items'[c] : c \in toldStore'[d]
    BY <1>1, <1>2, CategoriesKnown DEF FilesInv
  <1> HIDE DEF cats
  <1>6. FileType'
    BY <1>1, <1>3, <1>4 DEF FilesInv, FileType, IsFile
  <1>7. Written!CustomisationsKept'
    BY <1>1 DEF FilesInv, Written!CustomisationsKept, Written!There
  <1>8. WantedRead'
    BY <1>1, MarksApart DEF FilesInv, FileType, WantedRead
  <1>9. DoneListed'
    BY <1>1, <1>4, <1>5 DEF DoneListed
  <1> QED BY <1>6, <1>7, <1>8, <1>9 DEF FilesInv

\* What people wrote is in what is read.
LEMMA FilesRead ==
    ASSUME FilesInv, NEW c \in Categories, Written!ReadFile(c)
    PROVE  FilesInv'
  <1>1. /\ UNCHANGED <<registry, rules, files, toldStore, items, todo, wanted>>
        /\ \/ fileAt' = "idle"
           \/ fileAt' = c /\ files[c] # Written!Empty /\ current' = files[c].hosts
    BY DEF Written!ReadFile
  <1>2. FileType'
    BY <1>1 DEF FilesInv, FileType, IsFile
  <1>3. Written!CustomisationsKept' /\ DoneListed'
    BY <1>1 DEF FilesInv, Written!CustomisationsKept, DoneListed, Written!There
  <1>4. WantedRead'
    <2> SUFFICES ASSUME NEW w \in wanted, fileAt' = w[1]
                 PROVE  w[2] \in DOMAIN current' /\ current'[w[2]] = Written!Custom
      BY <1>1 DEF FilesInv, WantedRead
    <2>1. w[1] \in Categories
      BY DEF FilesInv, FileType
    <2>2. w[1] = c /\ files[c] # Written!Empty /\ current' = files[c].hosts
      BY <1>1, <2>1, MarksApart
    <2>3. Written!There(c)
      BY <2>2 DEF FilesInv, FileType, IsFile, WantedRead, Written!There, Written!File
    <2> QED BY <2>2, <2>3 DEF FilesInv, Written!CustomisationsKept
  <1> QED BY <1>2, <1>3, <1>4 DEF FilesInv

\* A file that is opened to be written is empty; what was read of it is kept.
LEMMA FilesTruncate ==
    ASSUME FilesInv, NEW c \in Categories, Written!Truncate(c)
    PROVE  FilesInv'
  <1>1. /\ fileAt = c /\ c \in todo /\ files' = [files EXCEPT ![c] = Written!Empty]
        /\ UNCHANGED <<registry, rules, toldStore, items, todo, fileAt, current, wanted>>
    BY DEF Written!Truncate
  <1>2. /\ files' = [k \in Categories |-> files'[k]]
        /\ \A k \in Categories : files'[k] = IF k = c THEN Written!Empty ELSE files[k]
    BY <1>1 DEF FilesInv, FileType
  <1>3. Written!Empty # Written!NoFile /\ Written!Empty.is # "there"
    BY DEF Written!Empty, Written!NoFile
  <1>4. FileType'
    BY <1>1, <1>2 DEF FilesInv, FileType, IsFile
  <1>5. Written!CustomisationsKept' /\ WantedRead'
    BY <1>1, <1>2, <1>3 DEF FilesInv, FileType, Written!CustomisationsKept, WantedRead,
                            Written!There
  <1>6. DoneListed'
    BY Zenon, <1>1, <1>2 DEF FilesInv, FileType, DoneListed, Written!There
  <1> QED BY <1>4, <1>5, <1>6 DEF FilesInv

\* A file is written: with the devices of the category, customised as they were.
LEMMA FilesDump ==
    ASSUME FilesInv, NEW c \in Categories, Written!Dump(c)
    PROVE  FilesInv'
  <1>1. /\ fileAt = c /\ c \in todo
        /\ files' = [files EXCEPT ![c] = Written!File(Written!Listed(c))]
        /\ todo' = todo \ {c} /\ fileAt' \in {"idle", "files"}
        /\ wanted' = {w \in wanted : w[1] = c => w[2] \in items[c]}
        /\ UNCHANGED <<registry, rules, toldStore, items, current>>
    BY DEF Written!Dump
  <1> DEFINE new == Written!File(Written!Listed(c))
  <1>2. /\ files' = [k \in Categories |-> files'[k]]
        /\ \A k \in Categories : files'[k] = IF k = c THEN new ELSE files[k]
    BY <1>1 DEF FilesInv, FileType
  <1>3. /\ new.is = "there" /\ new = Written!File(new.hosts) /\ new # Written!NoFile
        /\ DOMAIN new.hosts = (items[c] \ Terminals) \cup (DOMAIN current \cap items[c])
        /\ \A d \in DOMAIN new.hosts :
              new.hosts[d] = IF d \in DOMAIN current THEN current[d] ELSE Written!Plain
    BY DEF Written!File, Written!Listed, Written!NoFile
  <1> HIDE DEF new
  <1>4. FileType'
    BY <1>1, <1>2, <1>3 DEF FilesInv, FileType, IsFile
  <1>5. Written!CustomisationsKept'
    <2> SUFFICES ASSUME NEW w \in wanted', files'[w[1]].is = "there"
                 PROVE  w[2] \in DOMAIN files'[w[1]].hosts
                        /\ files'[w[1]].hosts[w[2]] = Written!Custom
      BY DEF Written!CustomisationsKept, Written!There
    <2>1. w \in wanted /\ w[1] \in Categories
      BY <1>1 DEF FilesInv, FileType
    <2>2. CASE w[1] = c
      <3>1. w[2] \in items[c] /\ w[2] \in DOMAIN current /\ current[w[2]] = Written!Custom
        BY <1>1, <2>1, <2>2 DEF FilesInv, WantedRead
      <3> QED BY <1>2, <1>3, <2>2, <3>1
    <2>3. CASE w[1] # c
      BY <1>2, <2>1, <2>3 DEF FilesInv, Written!CustomisationsKept, Written!There
    <2> QED BY <2>2, <2>3
  <1>6. WantedRead'
    BY <1>1, <1>2, <1>3, MarksApart DEF FilesInv, FileType, WantedRead
  <1>7. DoneListed'
    <2> SUFFICES ASSUME NEW k \in DOMAIN items
                 PROVE  /\ \A d \in items[k] : k \in toldStore[d]
                        /\ k \notin todo' =>
                              /\ files'[k].is = "there"
                              /\ items[k] \ Terminals \subseteq DOMAIN files'[k].hosts
                              /\ DOMAIN files'[k].hosts \ Terminals \subseteq items[k]
      BY <1>1 DEF DoneListed, Written!There
    <2>1. k \in Categories
      BY DEF FilesInv, FileType
    <2>2. CASE k = c
      BY <1>2, <1>3, <2>2 DEF FilesInv, DoneListed
    <2>3. CASE k # c
      BY <1>1, <1>2, <2>1, <2>3 DEF FilesInv, DoneListed, Written!There
    <2> QED BY <2>2, <2>3
  <1> QED BY <1>4, <1>5, <1>6, <1>7 DEF FilesInv

\* Somebody has a host polled in another way, in a file that no update has in hand.
LEMMA FilesCustomise ==
    ASSUME FilesInv, Written!Customise
    PROVE  FilesInv'
  <1>1. PICK c \in Categories \ {fileAt}, d \in Devices :
           /\ Written!There(c) /\ (d \in DOMAIN files[c].hosts \/ d \in Terminals)
           /\ files' = [files EXCEPT ![c].hosts = Written!Customised(@, d)]
           /\ wanted' = wanted \cup {<<c, d>>}
    BY Zenon DEF Written!Customise
  <1>2. UNCHANGED <<registry, rules, toldStore, items, todo, fileAt, current>>
    BY DEF Written!Customise
  <1> DEFINE listed == files[c].hosts
             edited == Written!Customised(listed, d)
  <1>3. files[c] = Written!File(listed)
    BY <1>1 DEF FilesInv, FileType, IsFile, Written!There, Written!NoFile, Written!Empty
  <1>4. /\ files' = [k \in Categories |-> files'[k]]
        /\ \A k \in Categories : files'[k] = IF k = c THEN Written!File(edited) ELSE files[k]
    BY <1>1, <1>3 DEF FilesInv, FileType, Written!File
  <1>5. /\ DOMAIN edited = DOMAIN listed \cup {d} /\ edited[d] = Written!Custom
        /\ \A x \in DOMAIN listed \ {d} : edited[x] = listed[x]
    BY DEF Written!Customised
  <1>6. /\ Written!File(edited).is = "there" /\ Written!File(edited).hosts = edited
        /\ Written!File(edited) # Written!NoFile
    BY DEF Written!File, Written!NoFile
  <1>7. DOMAIN edited \ Terminals = DOMAIN listed \ Terminals
    BY <1>1, <1>5
  <1> HIDE DEF edited
  <1>8. FileType'
    <2>1. \A k \in Categories : IsFile(files'[k])
      BY <1>4, <1>6 DEF FilesInv, FileType, IsFile
    <2>2. wanted' \subseteq Categories \X Devices
      BY <1>1 DEF FilesInv, FileType
    <2>3. files' = [k \in Categories |-> files'[k]]
      BY <1>4
    <2>4. (\A k \in Categories : IsFile(files[k]))'
      BY <2>1 DEF IsFile
    <2> QED BY <1>2, <2>2, <2>3, <2>4 DEF FilesInv, FileType
  <1>9. Written!CustomisationsKept'
    <2> SUFFICES ASSUME NEW w \in wanted', files'[w[1]].is = "there"
                 PROVE  w[2] \in DOMAIN files'[w[1]].hosts
                        /\ files'[w[1]].hosts[w[2]] = Written!Custom
      BY DEF Written!CustomisationsKept, Written!There
    <2>1. CASE w = <<c, d>>
      BY <1>4, <1>5, <1>6, <2>1
    <2>2. CASE w # <<c, d>>
      <3>1. w \in wanted /\ w[1] \in Categories
        BY <1>1, <2>2 DEF FilesInv, FileType
      <3>2. CASE w[1] = c
        <4>1. w[2] \in DOMAIN listed /\ listed[w[2]] = Written!Custom
          BY <1>1, <3>1, <3>2 DEF FilesInv, Written!CustomisationsKept
        <4> QED BY <1>4, <1>5, <1>6, <3>2, <4>1
      <3>3. CASE w[1] # c
        BY <1>4, <3>1, <3>3 DEF FilesInv, Written!CustomisationsKept, Written!There
      <3> QED BY <3>2, <3>3
    <2> QED BY <2>1, <2>2
  <1>10. WantedRead'
    BY <1>1, <1>2, <1>4, <1>6 DEF FilesInv, FileType, WantedRead
  <1>11. DoneListed'
    <2> SUFFICES ASSUME NEW k \in DOMAIN items
                 PROVE  /\ \A x \in items[k] : k \in toldStore[x]
                        /\ k \notin todo =>
                              /\ files'[k].is = "there"
                              /\ items[k] \ Terminals \subseteq DOMAIN files'[k].hosts
                              /\ DOMAIN files'[k].hosts \ Terminals \subseteq items[k]
      BY <1>2 DEF DoneListed, Written!There
    <2>1. k \in Categories
      BY DEF FilesInv, FileType
    <2>2. CASE k = c
      BY <1>4, <1>5, <1>6, <1>7, <2>2 DEF FilesInv, DoneListed
    <2>3. CASE k # c
      BY <1>4, <2>1, <2>3 DEF FilesInv, DoneListed, Written!There
    <2> QED BY <2>2, <2>3
  <1> QED BY <1>8, <1>9, <1>10, <1>11 DEF FilesInv

\* A broken file is removed: none that an update was done with.
LEMMA FilesRepair ==
    ASSUME FilesInv, Written!Repair
    PROVE  FilesInv'
  <1>1. PICK c \in Categories \ {fileAt} :
           /\ files[c] = Written!Empty /\ files' = [files EXCEPT ![c] = Written!NoFile]
           /\ wanted' = {w \in wanted : w[1] # c}
    BY Zenon DEF Written!Repair
  <1>2. UNCHANGED <<registry, rules, toldStore, items, todo, fileAt, current>>
    BY DEF Written!Repair
  <1>3. /\ files' = [k \in Categories |-> files'[k]]
        /\ \A k \in Categories : files'[k] = IF k = c THEN Written!NoFile ELSE files[k]
    BY <1>1 DEF FilesInv, FileType
  <1>4. ~Written!There(c)
    BY <1>1 DEF Written!There, Written!Empty
  <1>5. FileType'
    BY <1>1, <1>2, <1>3 DEF FilesInv, FileType, IsFile
  <1>6. Written!CustomisationsKept' /\ WantedRead'
    BY <1>1, <1>2, <1>3 DEF FilesInv, FileType, Written!CustomisationsKept, WantedRead,
                            Written!There
  <1>7. DoneListed'
    BY <1>2, <1>3, <1>4 DEF FilesInv, FileType, DoneListed, Written!There
  <1> QED BY <1>5, <1>6, <1>7 DEF FilesInv

\* One step per action.
LEMMA FilesStep == FilesInv /\ [Written!FilesNext]_(Written!fvars) => FilesInv'
  <1> SUFFICES ASSUME FilesInv, [Written!FilesNext]_(Written!fvars) PROVE FilesInv'
    OBVIOUS
  <1>1. ASSUME /\ UNCHANGED <<files, toldStore, items, todo, current, wanted>>
               /\ fileAt' \in {fileAt, "idle"}
               /\ registry' \subseteq Devices /\ rules' \in Rules
        PROVE  FilesInv'
    <2>1. FileType'
      BY <1>1 DEF FilesInv, FileType, IsFile
    <2>2. Written!CustomisationsKept' /\ DoneListed'
      BY <1>1 DEF FilesInv, Written!CustomisationsKept, DoneListed, Written!There
    <2>3. WantedRead'
      BY <1>1, MarksApart DEF FilesInv, FileType, WantedRead
    <2> QED BY <2>1, <2>2, <2>3 DEF FilesInv
  <1>2. CASE Written!Crash
    BY <1>1, <1>2 DEF Written!Crash, FilesInv, FileType
  <1>3. CASE Written!Register
    BY <1>1, <1>3 DEF Written!Register, FilesInv, FileType
  <1>4. CASE Written!Recategorise
    BY <1>1, <1>4 DEF Written!Recategorise, FilesInv, FileType
  <1>5. CASE UNCHANGED Written!fvars
    BY <1>1, <1>5 DEF Written!fvars, FilesInv, FileType
  <1> QED
    BY <1>2, <1>3, <1>4, <1>5, FilesCollect, FilesRead, FilesTruncate, FilesDump,
       FilesCustomise, FilesRepair DEF Written!FilesNext

\* Through updates, interrupted ones, and whatever people change in between: what they
\* wrote for a host stays for as long as the host is in the category; and when an update
\* ends, the files of the categories it found list the hosts it found, and the store was
\* told the same (Categoriser.get, update_store and PtolemyCommand.update).
THEOREM FilesAlwaysTrue == Written!FilesSpec => FilesTrue
  <1>1. FilesInv /\ FilesInv' /\ [Written!FilesNext]_(Written!fvars) =>
          [Written!EndsTrue]_(Written!fvars)
    <2> SUFFICES ASSUME FilesInv, FilesInv', Written!FilesNext, Written!Ends,
                        NEW c \in DOMAIN items
                 PROVE  /\ items[c] \ Terminals \subseteq DOMAIN files'[c].hosts
                        /\ DOMAIN files'[c].hosts \ Terminals \subseteq items[c]
                        /\ \A d \in items[c] : c \in toldStore[d]
      BY DEF Written!EndsTrue
    <2>1. PICK k \in todo : fileAt = k /\ todo = {k} /\ todo' = {}
      BY DEF Written!Ends
    <2>2. k \in Categories
      BY DEF FilesInv, FileType
    <2>3. items' = items
      BY <2>1, <2>2, MarksApart
         DEF Written!FilesNext, Written!Collect, Written!Crash, Written!ReadFile,
             Written!Truncate, Written!Dump, Written!Register, Written!Recategorise,
             Written!Customise, Written!Repair
    <2>4. \A d \in items[c] : c \in toldStore[d]
      BY DEF FilesInv, DoneListed
    <2> QED BY <2>1, <2>3, <2>4 DEF FilesInv, DoneListed
  <1>2. FilesInv' => [Written!CustomisationsKept']_(Written!fvars)
    BY DEF FilesInv
  <1> QED
    BY <1>1, <1>2, FilesBegin, FilesStep, PTL
       DEF Written!FilesSpec, FilesTrue, Written!FilesFollow

-----------------------------------------------------------------------------
(* Ports: the inductive invariant *)

\* What waits.
PortReports ==
    [spec : {"port_stats", "ports", "layer1_peer"}, time : Nat, port : Ports, value : Nat]

\* What a worker has in hand.
PortWork ==
    [pc : {"idle", "capacity", "utilisation", "peers", "rank", "trim"},
     port : Ports \cup {None}, now : Nat \cup {None}, cap : Speeds \cup {None},
     use : [Ranges -> Int \cup {None}], peer : BOOLEAN]

RankType ==
    /\ clock \in Nat
    /\ counter \in [Ports -> 0 .. Width] /\ DOMAIN told = Ports
    /\ \A p \in Ports : told[p] \subseteq [time : 0 .. clock, count : 0 .. Width]
    /\ queue \in Seq(PortReports)
    /\ DOMAIN samples = Ports
    /\ cap \in [Ports -> Speeds \cup {None}] /\ peer \in [Ports -> BOOLEAN]
    /\ boards \in [{"all", "uplinks"} -> [Ranges -> [Ports -> Int \cup {None}]]]
    /\ portWork \in [Workers -> PortWork]

\* The reports that wait are in order, and say what was told.
QueueTold ==
    \A i \in DOMAIN queue :
        /\ queue[i].time <= clock
        /\ queue[i].spec = "port_stats" =>
              [time |-> queue[i].time, count |-> queue[i].value] \in told[queue[i].port]
        /\ queue[i].spec = "ports" => queue[i].value \in Speeds
        /\ \A j \in DOMAIN queue : i < j => queue[i].time <= queue[j].time

\* So do the samples, which are no later than the reports that wait.
SamplesTold ==
    \A p \in Ports : \A c \in DOMAIN samples[p] :
        /\ [time |-> samples[p][c], count |-> c] \in told[p]
        /\ \A i \in DOMAIN queue : samples[p][c] <= queue[i].time

\* The samples of a port a worker deals with are not of its future, unless another
\* worker had a report of it meanwhile.
PortInWork ==
    \A w \in Workers : portWork[w].pc # "idle" =>
        /\ portWork[w].port \in Ports /\ portWork[w].now \in 0 .. clock
        /\ portWork[w].port \notin crossed =>
              \A c \in DOMAIN samples[portWork[w].port] :
                  samples[portWork[w].port][c] <= portWork[w].now

\* A use that two reports show, over about the range, unless others came in between.
Shown(reported, p, others, r, use) ==
    \E x, y \in reported, s \in Speeds :
        /\ x.time > y.time /\ (x.time - y.time < (r + 1) * Minute \/ p \in others)
        /\ use = (8 * (x.count - y.count) * Unit) \div (s * (x.time - y.time))

\* What a worker is about to rank is real.
UseShown ==
    \A w \in Workers, r \in Ranges :
        portWork[w].use[r] # None =>
            /\ portWork[w].pc # "idle"
            /\ Shown(told[portWork[w].port], portWork[w].port, crossed, r, portWork[w].use[r])

RanksShown ==
    \A r \in Ranges, p \in Ports :
        boards["all"][r][p] # None => Shown(told[p], p, crossed, r, boards["all"][r][p])

\* A place that is too high was alerted about, or the worker that gave it is about to.
TooHighAlerted ==
    \A r \in Ranges, p \in Ports :
        /\ boards["uplinks"][r][p] # None => boards["all"][r][p] # None
        /\ boards["all"][r][p] # None /\ boards["all"][r][p] > LowPass =>
              \/ p \in busy
              \/ \E w \in Workers : /\ portWork[w].pc = "trim" /\ portWork[w].port = p
                                    /\ portWork[w].use[r] = boards["all"][r][p]

\* A report waits, or is too old, or there is a sample of its counter that is as late.
ReportKept(p, x) ==
    \/ \E i \in DOMAIN queue :
          /\ queue[i].spec = "port_stats" /\ queue[i].port = p
          /\ queue[i].time = x.time /\ queue[i].value = x.count
    \/ x.time + (Ranking!Max(Ranges) + 1) * Minute <= clock
    \/ x.count \in DOMAIN samples[p] /\ samples[p][x.count] >= x.time

ReportsKept == \A p \in Ports : \A x \in told[p] : ReportKept(p, x)

RankInv ==
    /\ RankType /\ QueueTold /\ SamplesTold /\ PortInWork /\ UseShown /\ RanksShown
    /\ TooHighAlerted /\ ReportsKept

-----------------------------------------------------------------------------
(* Ports: the operators the steps use *)

\* The members of a sequence.
LEMMA QueueMembers ==
    ASSUME NEW S, NEW q \in Seq(S)
    PROVE  Len(q) \in Nat /\ DOMAIN q = 1 .. Len(q) /\ \A i \in DOMAIN q : q[i] \in S
  OBVIOUS

\* The first of a sequence, and what comes after it.
LEMMA QueueTaken ==
    ASSUME NEW S, NEW q \in Seq(S), q # <<>>
    PROVE  /\ 1 \in DOMAIN q /\ Head(q) = q[1] /\ Head(q) \in S /\ Tail(q) \in Seq(S)
           /\ \A i \in DOMAIN Tail(q) : i + 1 \in DOMAIN q /\ Tail(q)[i] = q[i + 1]
           /\ \A i \in DOMAIN q : i # 1 => i - 1 \in DOMAIN Tail(q) /\ Tail(q)[i - 1] = q[i]
  OBVIOUS

\* A sequence, and one more after it.
LEMMA QueueLonger ==
    ASSUME NEW S, NEW q \in Seq(S), NEW e \in S
    PROVE  /\ Append(q, e) \in Seq(S)
           /\ \A i \in DOMAIN q : i \in DOMAIN Append(q, e) /\ Append(q, e)[i] = q[i]
           /\ Len(q) + 1 \in DOMAIN Append(q, e) /\ Append(q, e)[Len(q) + 1] = e
           /\ \A i \in DOMAIN Append(q, e) \ {Len(q) + 1} : i \in DOMAIN q
           /\ \A i \in DOMAIN q : i < Len(q) + 1
  <1>1. /\ Append(q, e) \in Seq(S) /\ Len(Append(q, e)) = Len(q) + 1 /\ Len(q) \in Nat
        /\ DOMAIN q = 1 .. Len(q) /\ DOMAIN Append(q, e) = 1 .. Len(q) + 1
    OBVIOUS
  <1>2. /\ \A i \in 1 .. Len(q) : Append(q, e)[i] = q[i]
        /\ Append(q, e)[Len(q) + 1] = e
    OBVIOUS
  <1> QED BY <1>1, <1>2

\* Of numbers that are bounded one is the largest.
LEMMA LargestNat ==
    ASSUME NEW S \in SUBSET Nat, S # {}, NEW n \in Nat, \A x \in S : x <= n
    PROVE  \E m \in S : \A x \in S : x <= m
  <1> DEFINE T == {n - x : x \in S}
  <1>1. T \subseteq Nat /\ T # {}
    <2>1. \A x \in S : x \in Nat /\ x <= n
      OBVIOUS
    <2>2. \A x \in S : n - x \in Nat
      BY <2>1
    <2> QED BY Zenon, <2>2
  <1> HIDE DEF T
  <1>2. PICK d \in T : \A x \in T : <<x, d>> \notin OpToRel(<, Nat)
    BY <1>1, NatLessThanWellFounded, WFMin
  <1>3. \A x \in T : ~(x < d)
    BY Zenon, <1>1, <1>2 DEF OpToRel
  <1>4. PICK m \in S : d = n - m
    BY DEF T
  <1>5. \A x \in S : n - x \in T
    BY DEF T
  <1>6. \A x \in S : ~(n - x < n - m)
    BY <1>3, <1>4, <1>5
  <1> QED BY <1>6

\* The longest range is a number.
LEMMA LongestRange == Ranking!Max(Ranges) \in Nat
  BY Zenon, AnalysisAssumption DEF Ranking!CapacityAssumption, Ranking!Max

\* What was told was told before now.
LEMMA ToldTimes ==
    ASSUME NEW n \in Nat, NEW T \in SUBSET [time : 0 .. n, count : 0 .. Width], NEW t, NEW c,
           [time |-> t, count |-> c] \in T
    PROVE  t \in 0 .. n /\ t \in Nat /\ t <= n
  <1>1. [time |-> t, count |-> c] \in [time : 0 .. n, count : 0 .. Width]
    OBVIOUS
  <1>2. [time |-> t, count |-> c].time = t
    OBVIOUS
  <1> QED BY <1>1, <1>2

\* Of samples that are there one is the latest.
LEMMA LatestThere ==
    ASSUME NEW n \in Nat, NEW S \in SUBSET [time : 0 .. n, count : 0 .. Width], S # {}
    PROVE  /\ Ranking!Latest(S) \in S
           /\ \A y \in S : y.time <= Ranking!Latest(S).time
  <1> DEFINE times == {x.time : x \in S}
  <1>1. times \in SUBSET Nat /\ times # {} /\ \A t \in times : t <= n
    OBVIOUS
  <1>2. PICK t \in times : \A u \in times : u <= t
    BY Zenon, <1>1, LargestNat
  <1> DEFINE newer == {x \in S : x.time = t}
             counts == {x.count : x \in newer}
  <1>3. newer # {} /\ \A x \in S : x.time <= t
    BY <1>2
  <1>4. counts \in SUBSET Nat /\ counts # {} /\ \A c \in counts : c <= Width
    BY <1>3
  <1>5. PICK c \in counts : \A d \in counts : d <= c
    BY Zenon, <1>4, LargestNat, AnalysisAssumption DEF Ranking!CapacityAssumption
  <1>6. PICK x \in newer : x.count = c
    BY DEF counts
  <1>7. \A y \in S : y.time < x.time \/ (y.time = x.time /\ y.count <= x.count)
    BY <1>3, <1>5, <1>6
  <1> HIDE DEF times, newer, counts
  <1>8. x \in S
    BY <1>6 DEF newer
  <1>9. /\ Ranking!Latest(S) \in S
        /\ \A y \in S : \/ y.time < Ranking!Latest(S).time
                        \/ y.time = Ranking!Latest(S).time /\ y.count <= Ranking!Latest(S).count
    BY <1>7, <1>8, Zenon DEF Ranking!Latest
  <1> QED BY <1>9

\* What analyse makes of the samples of a port is shown by its reports.
LEMMA UseIsShown ==
    ASSUME NEW n \in Nat, NEW T \in SUBSET [time : 0 .. n, count : 0 .. Width],
           NEW S, \A c \in DOMAIN S : [time |-> S[c], count |-> c] \in T,
           NEW now \in Nat, NEW p, NEW others,
           p \in others \/ \A c \in DOMAIN S : S[c] <= now,
           NEW speed \in Speeds, NEW r \in Ranges
    PROVE  LET use == Ranking!Analyse(S, now, speed)[r]
           IN  use # None => use \in Int /\ Shown(T, p, others, r, use)
  <1> DEFINE data == {[time |-> S[c], count |-> c] : c \in DOMAIN S}
             fit == {x \in data : Ranking!InWindow(x, now, r)}
             x == Ranking!Latest(data)
             y == Ranking!Latest(fit)
             use == Ranking!Analyse(S, now, speed)[r]
  <1> SUFFICES ASSUME use # None PROVE use \in Int /\ Shown(T, p, others, r, use)
    OBVIOUS
  <1>1. use = IF data = {} THEN None
              ELSE Ranking!Rate(x, IF fit = {} THEN None ELSE y, speed)
    BY DEF Ranking!Analyse
  <1>2. data \subseteq T /\ (p \in others \/ \A d \in data : d.time <= now)
    OBVIOUS
  <1>3. fit \subseteq data /\ \A d \in fit : Ranking!InWindow(d, now, r)
    OBVIOUS
  <1> HIDE DEF data, fit, use
  <1>4. data # {} /\ fit # {} /\ speed # 0 /\ x.time # y.time
        /\ use = (8 * (x.count - y.count) * Unit) \div (speed * (x.time - y.time))
    <2>1. data # {} /\ use = Ranking!Rate(x, IF fit = {} THEN None ELSE y, speed)
      BY <1>1
    <2>2. fit # {}
      BY <2>1 DEF Ranking!Rate
    <2> QED BY <2>1, <2>2 DEF Ranking!Rate
  <1>5. x \in data /\ \A d \in data : d.time <= x.time
    BY <1>2, <1>4, LatestThere
  <1>6. y \in fit
    BY <1>2, <1>3, <1>4, LatestThere
  <1> HIDE DEF x, y
  <1>7. x \in T /\ y \in T /\ y.time <= x.time
    BY <1>2, <1>3, <1>5, <1>6
  <1>8. /\ x.time \in Nat /\ y.time \in Nat /\ x.count \in Nat /\ y.count \in Nat
        /\ speed \in Nat /\ Unit \in Nat /\ Minute \in Nat /\ r \in Nat
    BY <1>7, AnalysisAssumption DEF Ranking!CapacityAssumption
  <1>9. x.time > y.time
    <2>1. x.time # y.time
      BY <1>4
    <2> QED BY <1>7, <1>8, <2>1
  <1>10. x.time - y.time < (r + 1) * Minute \/ p \in others
    <2>1. y.time > now - r * Minute - Minute
      BY <1>3, <1>6 DEF Ranking!InWindow
    <2>2. x.time <= now \/ p \in others
      BY <1>2, <1>5
    <2>3. r * Minute \in Nat /\ (r + 1) * Minute = r * Minute + Minute
      BY <1>8
    <2> QED BY <1>8, <2>1, <2>2, <2>3
  <1>11. use \in Int
    <2> DEFINE a == 8 * (x.count - y.count) * Unit
               b == speed * (x.time - y.time)
    <2>1. a \in Int
      BY <1>8
    <2>2. b \in Int /\ b > 0
      BY <1>4, <1>8, <1>9
    <2>3. use = a \div b
      BY <1>4
    <2> QED BY <2>1, <2>2, <2>3
  <1>12. Shown(T, p, others, r, use)
    BY <1>4, <1>7, <1>9, <1>10 DEF Shown
  <1> QED BY <1>11, <1>12

\* What two reports show is shown as well by more of them.
LEMMA ShownStays ==
    ASSUME NEW T, NEW U, T \subseteq U, NEW a, NEW b, a \subseteq b,
           NEW p, NEW r, NEW use, Shown(T, p, a, r, use)
    PROVE  Shown(U, p, b, r, use)
  BY DEF Shown

-----------------------------------------------------------------------------
(* Ports: initial states and steps *)

\* At first nothing is told.
LEMMA RankBegins == Ranking!Init => RankInv
  <1> SUFFICES ASSUME Ranking!Init PROVE RankInv
    OBVIOUS
  <1>1. \A w \in Workers : portWork[w] = Ranking!Idle
    BY DEF Ranking!Init
  <1>2. \A w \in Workers, r \in Ranges : portWork[w].use[r] = None
    BY <1>1 DEF Ranking!Idle
  <1>3. RankType
    <2>1. Ranking!Idle \in PortWork
      BY DEF Ranking!Idle, PortWork
    <2> QED
      BY <2>1, AnalysisAssumption DEF Ranking!Init, RankType, Ranking!CapacityAssumption
  <1>4. QueueTold /\ SamplesTold /\ ReportsKept
    BY DEF Ranking!Init, QueueTold, SamplesTold, ReportsKept
  <1>5. PortInWork /\ UseShown
    BY <1>1, <1>2 DEF PortInWork, UseShown, Ranking!Idle
  <1>6. RanksShown /\ TooHighAlerted
    BY DEF Ranking!Init, RanksShown, TooHighAlerted
  <1> QED BY <1>3, <1>4, <1>5, <1>6 DEF RankInv

\* Time passes: what is too old stays so.
LEMMA RankTick == RankInv /\ Ranking!Tick => RankInv'
  <1> SUFFICES ASSUME RankInv, Ranking!Tick PROVE RankInv'
    OBVIOUS
  <1>1. /\ clock' = clock + 1 /\ clock \in Nat
        /\ UNCHANGED <<counter, queue, samples, cap, peer, boards, portWork, busy, told, crossed>>
    BY DEF Ranking!Tick, Ranking!redis, RankInv, RankType
  <1>2. RankType'
    BY <1>1 DEF RankInv, RankType
  <1>3. QueueTold' /\ SamplesTold'
    <2>1. \A i \in DOMAIN queue : queue[i].time \in Nat /\ queue[i].time <= clock
      <3>1. \A i \in DOMAIN queue : queue[i] \in PortReports
        BY QueueMembers DEF RankInv, RankType
      <3> QED BY Zenon, <3>1 DEF RankInv, QueueTold, PortReports
    <2> QED BY <1>1, <2>1 DEF RankInv, QueueTold, SamplesTold
  <1>4. PortInWork'
    BY <1>1 DEF RankInv, PortInWork
  <1>5. UseShown' /\ RanksShown' /\ TooHighAlerted'
    BY <1>1 DEF RankInv, UseShown, RanksShown, TooHighAlerted
  <1>6. ReportsKept'
    <2> SUFFICES ASSUME NEW p \in Ports, NEW x \in told[p] PROVE ReportKept(p, x)'
      BY <1>1 DEF ReportsKept
    <2>1. ReportKept(p, x)
      BY DEF RankInv, ReportsKept
    <2>2. x.time \in Nat
      BY DEF RankInv, RankType
    <2>3. (Ranking!Max(Ranges) + 1) * Minute \in Nat
      BY LongestRange, AnalysisAssumption DEF Ranking!CapacityAssumption
    <2> HIDE DEF Ranking!Max
    <2> QED BY <1>1, <2>1, <2>2, <2>3 DEF ReportKept
  <1> QED BY <1>2, <1>3, <1>4, <1>5, <1>6 DEF RankInv

\* A report is sent, after all that were.
LEMMA RankSend ==
    ASSUME RankInv, NEW m \in PortReports,
           m.time = clock, queue' = Append(queue, m),
           m.spec = "ports" => m.value \in Speeds,
           UNCHANGED <<clock, samples, cap, peer, boards, portWork, busy, crossed>>,
           counter' \in [Ports -> 0 .. Width], DOMAIN told' = Ports,
           \A p \in Ports : told'[p] = IF m.spec = "port_stats" /\ p = m.port
               THEN told[p] \cup {[time |-> m.time, count |-> m.value]} ELSE told[p],
           m.spec = "port_stats" => m.value \in 0 .. Width
    PROVE  RankInv'
  <1>1. queue \in Seq(PortReports) /\ clock \in Nat
    BY DEF RankInv, RankType
  <1>2. /\ queue' \in Seq(PortReports)
        /\ \A i \in DOMAIN queue : i \in DOMAIN queue' /\ queue'[i] = queue[i]
        /\ Len(queue) + 1 \in DOMAIN queue' /\ queue'[Len(queue) + 1] = m
        /\ \A i \in DOMAIN queue' \ {Len(queue) + 1} : i \in DOMAIN queue
    BY <1>1, QueueLonger
  <1>3. \A p \in Ports : told[p] \subseteq told'[p] /\ told'[p] \subseteq told[p] \cup
          (IF m.spec = "port_stats" /\ p = m.port
           THEN {[time |-> m.time, count |-> m.value]} ELSE {})
    OBVIOUS
  <1>4. RankType'
    <2>1. \A p \in Ports : told'[p] \subseteq [time : 0 .. clock, count : 0 .. Width]
      BY <1>1 DEF RankInv, RankType
    <2> QED BY <1>2, <2>1 DEF RankInv, RankType
  <1>5. QueueTold'
    <2>1. ASSUME NEW i \in DOMAIN queue'
          PROVE  /\ queue'[i].time <= clock
                 /\ queue'[i].spec = "port_stats" =>
                      [time |-> queue'[i].time, count |-> queue'[i].value]
                          \in told'[queue'[i].port]
                 /\ queue'[i].spec = "ports" => queue'[i].value \in Speeds
      <3>1. CASE i = Len(queue) + 1
        BY <1>1, <1>2, <3>1 DEF PortReports
      <3>2. CASE i # Len(queue) + 1
        <4>1. i \in DOMAIN queue /\ queue'[i] = queue[i] /\ queue[i] \in PortReports
          BY <1>1, <1>2, <3>2, QueueMembers
        <4> QED BY Zenon, <1>3, <4>1 DEF RankInv, QueueTold, PortReports
      <3> QED BY <3>1, <3>2
    <2>2. ASSUME NEW i \in DOMAIN queue', NEW j \in DOMAIN queue', i < j
          PROVE  queue'[i].time <= queue'[j].time
      <3>1. i \in DOMAIN queue /\ i # Len(queue) + 1
        BY <1>1, <1>2, <2>2
      <3>2. CASE j = Len(queue) + 1
        BY <1>2, <2>1, <3>1, <3>2
      <3>3. CASE j # Len(queue) + 1
        BY Zenon, <1>2, <2>2, <3>1, <3>3 DEF RankInv, QueueTold
      <3> QED BY <3>2, <3>3
    <2> QED BY <2>1, <2>2 DEF QueueTold
  <1>6. SamplesTold'
    <2> SUFFICES ASSUME NEW p \in Ports, NEW c \in DOMAIN samples[p]
                 PROVE  /\ [time |-> samples[p][c], count |-> c] \in told'[p]
                        /\ \A i \in DOMAIN queue' : samples[p][c] <= queue'[i].time
      BY DEF SamplesTold
    <2>1. [time |-> samples[p][c], count |-> c] \in told[p]
      BY DEF RankInv, SamplesTold
    <2>2. samples[p][c] <= clock
      BY <2>1 DEF RankInv, RankType
    <2> QED BY <1>2, <1>3, <2>1, <2>2 DEF RankInv, SamplesTold
  <1>7. PortInWork'
    BY Zenon DEF RankInv, PortInWork
  <1>8. UseShown' /\ RanksShown'
    <2>1. ASSUME NEW w \in Workers, NEW r \in Ranges, portWork[w].use[r] # None
          PROVE  /\ portWork[w].pc # "idle"
                 /\ Shown(told'[portWork[w].port], portWork[w].port, crossed, r,
                          portWork[w].use[r])
      BY <1>3, <2>1, ShownStays DEF RankInv, UseShown, PortInWork
    <2>2. ASSUME NEW p \in Ports, NEW r \in Ranges, boards["all"][r][p] # None
          PROVE  Shown(told'[p], p, crossed, r, boards["all"][r][p])
      BY <1>3, <2>2, ShownStays DEF RankInv, RanksShown
    <2> QED BY <2>1, <2>2 DEF UseShown, RanksShown
  <1>9. TooHighAlerted'
    BY DEF RankInv, TooHighAlerted
  <1>10. ReportsKept'
    <2> SUFFICES ASSUME NEW p \in Ports, NEW x \in told'[p] PROVE ReportKept(p, x)'
      BY DEF ReportsKept
    <2>1. CASE x \in told[p]
      <3>1. ReportKept(p, x)
        BY <2>1 DEF RankInv, ReportsKept
      <3>2. CASE \E i \in DOMAIN queue :
                   /\ queue[i].spec = "port_stats" /\ queue[i].port = p
                   /\ queue[i].time = x.time /\ queue[i].value = x.count
        BY <1>2, <3>2 DEF ReportKept
      <3> QED BY <3>1, <3>2 DEF ReportKept
    <2>2. CASE x \notin told[p]
      <3>1. m.spec = "port_stats" /\ m.port = p /\ m.time = x.time /\ m.value = x.count
        BY <1>3, <2>2
      <3> QED BY <1>2, <3>1 DEF ReportKept
    <2> QED BY <2>1, <2>2
  <1> QED BY <1>4, <1>5, <1>6, <1>7, <1>8, <1>9, <1>10 DEF RankInv

\* What the poller sends.
LEMMA RankReport ==
    ASSUME RankInv, NEW p \in Ports, Ranking!PortStats(p) \/ Ranking!PortMeta(p)
    PROVE  RankInv'
  <1>1. CASE Ranking!PortStats(p)
    <2>1. PICK n \in Steps :
            LET c == (counter[p] + n) % Width
            IN  /\ counter' = [counter EXCEPT ![p] = c]
                /\ told' = [told EXCEPT ![p] = @ \cup {[time |-> clock, count |-> c]}]
                /\ queue' = Append(queue, [spec |-> "port_stats", time |-> clock, port |-> p,
                                           value |-> c])
      BY Zenon, <1>1 DEF Ranking!PortStats
    <2> DEFINE c == (counter[p] + n) % Width
               m == [spec |-> "port_stats", time |-> clock, port |-> p, value |-> c]
    <2>2. c \in 0 .. Width
      <3>1. counter[p] + n \in Nat /\ Width \in Nat /\ Width > 0
        BY AnalysisAssumption DEF RankInv, RankType, Ranking!CapacityAssumption
      <3> QED BY <3>1
    <2> HIDE DEF c
    <2>3. m \in PortReports
      BY <2>2, AnalysisAssumption DEF RankInv, RankType, PortReports,
                                      Ranking!CapacityAssumption
    <2>4. queue' = Append(queue, m) /\ counter' = [counter EXCEPT ![p] = c]
          /\ told' = [told EXCEPT ![p] = @ \cup {[time |-> clock, count |-> c]}]
      BY <2>1 DEF c
    <2>5. m.time = clock /\ m.spec = "port_stats" /\ m.value = c /\ m.port = p
      OBVIOUS
    <2> HIDE DEF m
    <2>6. UNCHANGED <<clock, samples, cap, peer, boards, portWork, busy, crossed>>
      BY <1>1 DEF Ranking!PortStats, Ranking!redis
    <2>7. counter' \in [Ports -> 0 .. Width] /\ DOMAIN told' = Ports
      BY <2>2, <2>4 DEF RankInv, RankType
    <2>8. \A q \in Ports : told'[q] = IF m.spec = "port_stats" /\ q = m.port
               THEN told[q] \cup {[time |-> m.time, count |-> m.value]} ELSE told[q]
      BY Zenon, <2>4, <2>5 DEF RankInv, RankType
    <2> QED BY Zenon, <2>2, <2>3, <2>4, <2>5, <2>6, <2>7, <2>8, RankSend
  <1>2. CASE Ranking!PortMeta(p)
    <2>1. PICK spec \in {"ports", "layer1_peer"}, s \in Speeds :
            queue' = Append(queue, [spec |-> spec, time |-> clock, port |-> p, value |-> s])
      BY <1>2 DEF Ranking!PortMeta
    <2> DEFINE m == [spec |-> spec, time |-> clock, port |-> p, value |-> s]
    <2>2. m \in PortReports
      BY AnalysisAssumption DEF RankInv, RankType, PortReports, Ranking!CapacityAssumption
    <2>3. queue' = Append(queue, m) /\ m.time = clock /\ m.spec # "port_stats"
          /\ m.value \in Speeds
      BY <2>1
    <2> HIDE DEF m
    <2>4. UNCHANGED <<clock, counter, told, samples, cap, peer, boards, portWork, busy, crossed>>
      BY <1>2 DEF Ranking!PortMeta, Ranking!redis
    <2>5. counter' \in [Ports -> 0 .. Width] /\ DOMAIN told' = Ports
      BY <2>4 DEF RankInv, RankType
    <2> QED BY <2>2, <2>3, <2>4, <2>5, RankSend
  <1> QED BY <1>1, <1>2

\* A worker that looks something up for its port changes nothing but what it has in hand.
LEMMA RankAsks ==
    ASSUME RankInv, NEW w \in Workers, portWork[w].pc \notin {"idle", "trim"},
           portWork' \in [Workers -> PortWork],
           \A v \in Workers \ {w} : portWork'[v] = portWork[v],
           portWork'[w].pc # "idle", portWork'[w].port = portWork[w].port,
           portWork'[w].now = portWork[w].now,
           \A r \in Ranges : portWork'[w].use[r] # None =>
               Shown(told[portWork[w].port], portWork[w].port, crossed, r, portWork'[w].use[r]),
           UNCHANGED <<clock, counter, queue, samples, cap, peer, boards, busy, told, crossed>>
    PROVE  RankInv'
  <1>1. RankType'
    BY DEF RankInv, RankType
  <1>2. QueueTold' /\ SamplesTold' /\ RanksShown'
    BY DEF RankInv, QueueTold, SamplesTold, RanksShown
  <1>3. PortInWork'
    <2> SUFFICES ASSUME NEW v \in Workers, portWork'[v].pc # "idle"
                 PROVE  /\ portWork'[v].port \in Ports /\ portWork'[v].now \in 0 .. clock
                        /\ portWork'[v].port \notin crossed =>
                              \A c \in DOMAIN samples[portWork'[v].port] :
                                  samples[portWork'[v].port][c] <= portWork'[v].now
      BY DEF PortInWork
    <2>1. /\ portWork[v].pc # "idle" /\ portWork'[v].port = portWork[v].port
          /\ portWork'[v].now = portWork[v].now
      BY Zenon DEF RankInv, RankType
    <2> QED BY <2>1 DEF RankInv, PortInWork
  <1>4. UseShown'
    BY DEF RankInv, UseShown
  <1>5. TooHighAlerted'
    BY DEF RankInv, TooHighAlerted
  <1>6. ReportsKept'
    BY DEF RankInv, ReportsKept, ReportKept
  <1> QED BY <1>1, <1>2, <1>3, <1>4, <1>5, <1>6 DEF RankInv

\* The lookups: of the speed, of the samples, of the neighbour.
LEMMA RankLookups ==
    ASSUME RankInv, NEW w \in Workers,
           Ranking!GetCapacities(w) \/ Ranking!GetUtilisations(w) \/ Ranking!GetLayer1Peers(w)
    PROVE  RankInv'
  <1>1. /\ portWork[w].pc # "idle" /\ portWork[w] \in PortWork
        /\ portWork \in [Workers -> PortWork]
        /\ portWork[w].port \in Ports /\ portWork[w].now \in 0 .. clock
    BY DEF RankInv, RankType, PortInWork, Ranking!GetCapacities, Ranking!GetUtilisations,
           Ranking!GetLayer1Peers
  <1>2. \A r \in Ranges : portWork[w].use[r] # None =>
          Shown(told[portWork[w].port], portWork[w].port, crossed, r, portWork[w].use[r])
    BY DEF RankInv, UseShown
  <1>3. CASE Ranking!GetCapacities(w)
    <2>1. portWork' = [portWork EXCEPT ![w].pc = "utilisation", ![w].cap = cap[portWork[w].port]]
      BY <1>3 DEF Ranking!GetCapacities
    <2>2. cap[portWork[w].port] \in Speeds \cup {None}
      BY <1>1 DEF RankInv, RankType
    <2>3. /\ portWork' \in [Workers -> PortWork]
          /\ \A v \in Workers \ {w} : portWork'[v] = portWork[v]
          /\ portWork'[w].pc = "utilisation" /\ portWork'[w].port = portWork[w].port
          /\ portWork'[w].now = portWork[w].now /\ portWork'[w].use = portWork[w].use
      BY Zenon, <1>1, <2>1, <2>2 DEF PortWork
    <2> QED
      BY <1>2, <1>3, <2>3, RankAsks DEF Ranking!GetCapacities, Ranking!redis
  <1>4. CASE Ranking!GetLayer1Peers(w)
    <2>1. portWork' = [portWork EXCEPT ![w].pc = "rank", ![w].peer = peer[portWork[w].port]]
      BY <1>4 DEF Ranking!GetLayer1Peers
    <2>2. peer[portWork[w].port] \in BOOLEAN
      BY <1>1 DEF RankInv, RankType
    <2>3. /\ portWork' \in [Workers -> PortWork]
          /\ \A v \in Workers \ {w} : portWork'[v] = portWork[v]
          /\ portWork'[w].pc = "rank" /\ portWork'[w].port = portWork[w].port
          /\ portWork'[w].now = portWork[w].now /\ portWork'[w].use = portWork[w].use
      BY Zenon, <1>1, <2>1, <2>2 DEF PortWork
    <2> QED
      BY <1>2, <1>4, <2>3, RankAsks DEF Ranking!GetLayer1Peers, Ranking!redis
  <1>5. CASE Ranking!GetUtilisations(w)
    <2> DEFINE p == portWork[w].port
               now == portWork[w].now
               found == Ranking!Analyse(samples[p], now, portWork[w].cap)
               use == IF portWork[w].cap = None THEN portWork[w].use ELSE found
    <2>1. portWork' = [portWork EXCEPT ![w].pc = "peers", ![w].use = use]
      BY <1>5 DEF Ranking!GetUtilisations
    <2>2. \A r \in Ranges : portWork[w].cap # None /\ found[r] # None =>
              found[r] \in Int /\ Shown(told[p], p, crossed, r, found[r])
      <3>1. /\ clock \in Nat /\ told[p] \in SUBSET [time : 0 .. clock, count : 0 .. Width]
            /\ \A c \in DOMAIN samples[p] : [time |-> samples[p][c], count |-> c] \in told[p]
        BY <1>1 DEF RankInv, RankType, SamplesTold
      <3>2. now \in Nat /\ (p \in crossed \/ \A c \in DOMAIN samples[p] : samples[p][c] <= now)
        BY <1>1, <3>1 DEF RankInv, PortInWork
      <3>3. portWork[w].cap # None => portWork[w].cap \in Speeds
        BY <1>1 DEF PortWork
      <3> HIDE DEF p, now
      <3> QED BY Zenon, <3>1, <3>2, <3>3, UseIsShown
    <2>3. DOMAIN found = Ranges /\ found = [r \in Ranges |-> found[r]]
      BY DEF Ranking!Analyse
    <2> HIDE DEF found
    <2>4. use \in [Ranges -> Int \cup {None}]
      BY <1>1, <2>2, <2>3 DEF PortWork
    <2>5. \A r \in Ranges : use[r] # None => Shown(told[p], p, crossed, r, use[r])
      BY <1>2, <2>2
    <2> HIDE DEF use
    <2>6. /\ portWork' \in [Workers -> PortWork]
          /\ \A v \in Workers \ {w} : portWork'[v] = portWork[v]
          /\ portWork'[w].pc = "peers" /\ portWork'[w].port = portWork[w].port
          /\ portWork'[w].now = portWork[w].now /\ portWork'[w].use = use
      BY Zenon, <1>1, <2>1, <2>4 DEF PortWork
    <2> QED
      BY <1>5, <2>5, <2>6, RankAsks DEF Ranking!GetUtilisations, Ranking!redis
  <1> QED BY <1>3, <1>4, <1>5

\* A worker takes a report: its counter is a sample then.
LEMMA RankTake ==
    ASSUME RankInv, NEW w \in Workers, Ranking!Take(w)
    PROVE  RankInv'
  <1> DEFINE m == Head(queue)
             p == m.port
             isCount == m.spec = "port_stats"
  <1>1. /\ queue # <<>> /\ queue' = Tail(queue) /\ queue \in Seq(PortReports)
        /\ portWork[w].pc = "idle" /\ UNCHANGED <<clock, counter, boards, busy, told>>
    BY DEF Ranking!Take, RankInv, RankType
  <1>2. /\ 1 \in DOMAIN queue /\ m = queue[1] /\ m \in PortReports /\ queue' \in Seq(PortReports)
        /\ \A i \in DOMAIN queue' : i + 1 \in DOMAIN queue /\ queue'[i] = queue[i + 1]
        /\ \A i \in DOMAIN queue : i # 1 => i - 1 \in DOMAIN queue' /\ queue'[i - 1] = queue[i]
    BY <1>1, QueueTaken
  <1>3. /\ DOMAIN queue = 1 .. Len(queue) /\ Len(queue) \in Nat
        /\ \A i \in DOMAIN queue : queue[i] \in PortReports
        /\ DOMAIN queue' = 1 .. Len(queue') /\ Len(queue') \in Nat
    BY <1>1, <1>2, QueueMembers
  <1>4. /\ m.time \in Nat /\ m.time <= clock /\ p \in Ports
        /\ \A i \in DOMAIN queue : m.time <= queue[i].time
        /\ isCount => [time |-> m.time, count |-> m.value] \in told[p]
        /\ m.spec = "ports" => m.value \in Speeds
    <2>1. \A i \in DOMAIN queue : i = 1 \/ 1 < i
      BY <1>3
    <2>2. m.time \in Nat /\ p \in Ports
      BY <1>2 DEF PortReports
    <2> QED BY <1>2, <2>1, <2>2 DEF RankInv, QueueTold
  <1>5. /\ isCount =>
              /\ samples' = [samples EXCEPT ![p] =
                    [c \in DOMAIN @ \cup {m.value} |-> IF c = m.value THEN m.time ELSE @[c]]]
              /\ portWork' = [portWork EXCEPT ![w] =
                    [Ranking!Idle EXCEPT !.pc = "capacity", !.port = p, !.now = clock]]
              /\ crossed' = IF \E x \in Workers : portWork[x].port = p THEN crossed \cup {p}
                            ELSE crossed
        /\ ~isCount => UNCHANGED <<samples, portWork, crossed>>
        /\ m.spec = "ports" \/ cap' = cap
        /\ m.spec = "ports" => cap' = [cap EXCEPT ![p] = m.value]
        /\ peer' = peer \/ peer' = [peer EXCEPT ![p] = TRUE]
    BY DEF Ranking!Take
  <1> HIDE DEF m
  <1>6. /\ DOMAIN samples' = Ports
        /\ \A q \in Ports : q # p \/ ~isCount => samples'[q] = samples[q]
        /\ isCount => /\ DOMAIN samples'[p] = DOMAIN samples[p] \cup {m.value}
                      /\ samples'[p][m.value] = m.time
                      /\ \A c \in DOMAIN samples[p] \ {m.value} : samples'[p][c] = samples[p][c]
    BY <1>4, <1>5 DEF RankInv, RankType
  <1>7. /\ portWork' \in [Workers -> PortWork]
        /\ \A v \in Workers : v # w \/ ~isCount => portWork'[v] = portWork[v]
        /\ isCount => /\ portWork'[w].pc = "capacity" /\ portWork'[w].port = p
                      /\ portWork'[w].now = clock
                      /\ \A r \in Ranges : portWork'[w].use[r] = None
        /\ crossed \subseteq crossed'
        /\ isCount => \A v \in Workers : portWork[v].port = p => p \in crossed'
    <2>1. [Ranking!Idle EXCEPT !.pc = "capacity", !.port = p, !.now = clock] \in PortWork
      BY Zenon, <1>4 DEF Ranking!Idle, PortWork, RankInv, RankType
    <2>2. /\ [Ranking!Idle EXCEPT !.pc = "capacity", !.port = p, !.now = clock].pc = "capacity"
          /\ [Ranking!Idle EXCEPT !.pc = "capacity", !.port = p, !.now = clock].port = p
          /\ [Ranking!Idle EXCEPT !.pc = "capacity", !.port = p, !.now = clock].now = clock
          /\ \A r \in Ranges :
                [Ranking!Idle EXCEPT !.pc = "capacity", !.port = p, !.now = clock].use[r] = None
      BY DEF Ranking!Idle
    <2> DEFINE fresh == [Ranking!Idle EXCEPT !.pc = "capacity", !.port = p, !.now = clock]
    <2>3. /\ isCount => portWork' = [portWork EXCEPT ![w] = fresh]
          /\ ~isCount => portWork' = portWork
          /\ crossed' = IF isCount /\ \E x \in Workers : portWork[x].port = p
                        THEN crossed \cup {p} ELSE crossed
      BY <1>5
    <2>4. fresh \in PortWork /\ fresh.pc = "capacity" /\ fresh.port = p /\ fresh.now = clock
          /\ \A r \in Ranges : fresh.use[r] = None
      BY <2>1, <2>2
    <2> HIDE DEF fresh, p, isCount
    <2>5. portWork \in [Workers -> PortWork]
      BY DEF RankInv, RankType
    <2> QED BY <2>3, <2>4, <2>5
  <1>8. RankType'
    <2>1. cap' \in [Ports -> Speeds \cup {None}] /\ peer' \in [Ports -> BOOLEAN]
      BY Zenon, <1>4, <1>5 DEF RankInv, RankType
    <2> QED BY <1>1, <1>2, <1>6, <1>7, <2>1 DEF RankInv, RankType
  <1>9. QueueTold'
    <2> SUFFICES ASSUME NEW i \in DOMAIN queue'
                 PROVE  /\ queue'[i].time <= clock
                        /\ queue'[i].spec = "port_stats" =>
                              [time |-> queue'[i].time, count |-> queue'[i].value]
                                  \in told[queue'[i].port]
                        /\ queue'[i].spec = "ports" => queue'[i].value \in Speeds
                        /\ \A j \in DOMAIN queue' : i < j => queue'[i].time <= queue'[j].time
      BY Zenon, <1>1 DEF QueueTold
    <2>1. i + 1 \in DOMAIN queue /\ queue'[i] = queue[i + 1]
      BY <1>2
    <2>2. \A j \in DOMAIN queue' : i < j => i + 1 < j + 1
      BY <1>3
    <2> QED BY Zenon, <1>2, <2>1, <2>2 DEF RankInv, QueueTold
  <1>10. SamplesTold'
    <2> SUFFICES ASSUME NEW q \in Ports, NEW c \in DOMAIN samples'[q]
                 PROVE  /\ [time |-> samples'[q][c], count |-> c] \in told[q]
                        /\ \A i \in DOMAIN queue' : samples'[q][c] <= queue'[i].time
      BY Zenon, <1>1 DEF SamplesTold
    <2>1. CASE isCount /\ q = p /\ c = m.value
      BY <1>2, <1>4, <1>6, <2>1
    <2>2. CASE ~(isCount /\ q = p /\ c = m.value)
      <3>1. c \in DOMAIN samples[q] /\ samples'[q][c] = samples[q][c]
        BY <1>6, <2>2
      <3> QED BY <1>2, <3>1 DEF RankInv, SamplesTold
    <2> QED BY <2>1, <2>2
  <1>11. PortInWork'
    <2> SUFFICES ASSUME NEW v \in Workers, portWork'[v].pc # "idle"
                 PROVE  /\ portWork'[v].port \in Ports /\ portWork'[v].now \in 0 .. clock
                        /\ portWork'[v].port \notin crossed' =>
                              \A c \in DOMAIN samples'[portWork'[v].port] :
                                  samples'[portWork'[v].port][c] <= portWork'[v].now
      BY Zenon, <1>1 DEF PortInWork
    <2>1. CASE v = w /\ isCount
      <3>1. \A c \in DOMAIN samples'[p] : [time |-> samples'[p][c], count |-> c] \in told[p]
        BY <1>1, <1>4, <1>10 DEF SamplesTold
      <3>2. told[p] \subseteq [time : 0 .. clock, count : 0 .. Width] /\ clock \in Nat
        BY <1>4 DEF RankInv, RankType
      <3>3. \A c \in DOMAIN samples'[p] : samples'[p][c] <= clock
        BY Zenon, <3>1, <3>2, ToldTimes
      <3> QED BY <1>4, <1>7, <2>1, <3>2, <3>3
    <2>2. CASE ~(v = w /\ isCount)
      <3>1. portWork'[v] = portWork[v]
        BY <1>7, <2>2
      <3>2. isCount /\ portWork[v].port = p => p \in crossed'
        BY <1>7
      <3>3. portWork[v].port \notin crossed' /\ portWork[v].port \in Ports =>
              samples'[portWork[v].port] = samples[portWork[v].port]
        BY <1>6, <3>2
      <3> QED BY <1>7, <3>1, <3>3 DEF RankInv, PortInWork
    <2> QED BY <2>1, <2>2
  <1>12. UseShown'
    <2> SUFFICES ASSUME NEW v \in Workers, NEW r \in Ranges, portWork'[v].use[r] # None
                 PROVE  /\ portWork'[v].pc # "idle"
                        /\ Shown(told[portWork'[v].port], portWork'[v].port, crossed', r,
                                 portWork'[v].use[r])
      BY <1>1 DEF UseShown
    <2>1. portWork'[v] = portWork[v]
      BY <1>7
    <2> QED BY <1>7, <2>1, ShownStays DEF RankInv, UseShown
  <1>13. RanksShown'
    BY <1>1, <1>7, ShownStays DEF RankInv, RanksShown
  <1>14. TooHighAlerted'
    BY <1>1, <1>7 DEF RankInv, TooHighAlerted
  <1>15. ReportsKept'
    <2> SUFFICES ASSUME NEW q \in Ports, NEW x \in told[q] PROVE ReportKept(q, x)'
      BY <1>1 DEF ReportsKept
    <2>1. ReportKept(q, x)
      BY DEF RankInv, ReportsKept
    <2>2. CASE \E i \in DOMAIN queue :
                 /\ queue[i].spec = "port_stats" /\ queue[i].port = q
                 /\ queue[i].time = x.time /\ queue[i].value = x.count
      <3>1. PICK i \in DOMAIN queue :
                 /\ queue[i].spec = "port_stats" /\ queue[i].port = q
                 /\ queue[i].time = x.time /\ queue[i].value = x.count
        BY <2>2
      <3>2. CASE i = 1
        BY <1>2, <1>4, <1>6, <3>1, <3>2 DEF ReportKept
      <3>3. CASE i # 1
        BY <1>2, <3>1, <3>3 DEF ReportKept
      <3> QED BY <3>2, <3>3
    <2>3. CASE x.count \in DOMAIN samples[q] /\ samples[q][x.count] >= x.time
      <3>1. CASE isCount /\ q = p /\ x.count = m.value
        <4>1. samples[q][x.count] <= m.time
          BY Zenon, <1>2, <2>3 DEF RankInv, SamplesTold
        <4>2. x.time \in Nat /\ samples[q][x.count] \in Nat
          <5>1. /\ clock \in Nat /\ told[q] \in SUBSET [time : 0 .. clock, count : 0 .. Width]
                /\ [time |-> samples[q][x.count], count |-> x.count] \in told[q]
            BY <2>3 DEF RankInv, RankType, SamplesTold
          <5> QED BY <5>1, ToldTimes
        <4>3. x.time <= m.time
          BY <1>4, <2>3, <4>1, <4>2
        <4> QED BY <1>4, <1>6, <3>1, <4>2, <4>3 DEF ReportKept
      <3>2. CASE ~(isCount /\ q = p /\ x.count = m.value)
        BY <1>6, <2>3, <3>2 DEF ReportKept
      <3> QED BY <3>1, <3>2
    <2>4. CASE x.time + (Ranking!Max(Ranges) + 1) * Minute <= clock
      BY <1>1, <2>4 DEF ReportKept
    <2> QED BY <2>1, <2>2, <2>3, <2>4 DEF ReportKept
  <1> QED BY <1>8, <1>9, <1>10, <1>11, <1>12, <1>13, <1>14, <1>15 DEF RankInv

\* A worker gives its port the places it made out for it.
LEMMA RankGives ==
    ASSUME RankInv, NEW w \in Workers, Ranking!Rank(w)
    PROVE  RankInv'
  <1> DEFINE p == portWork[w].port
             use == portWork[w].use
  <1>1. /\ portWork[w].pc = "rank" /\ portWork \in [Workers -> PortWork]
        /\ p \in Ports /\ use \in [Ranges -> Int \cup {None}]
        /\ portWork' = [portWork EXCEPT ![w].pc = "trim"]
        /\ UNCHANGED <<clock, counter, queue, samples, cap, peer, busy, told, crossed>>
    BY DEF Ranking!Rank, RankInv, RankType, PortInWork, PortWork
  <1>2. boards' = [b \in DOMAIN boards |-> [r \in Ranges |->
          IF use[r] = None \/ ~Ranking!RankedOn(w, b) THEN boards[b][r]
          ELSE [boards[b][r] EXCEPT ![p] = use[r]]]]
    BY DEF Ranking!Rank
  <1>3. /\ portWork' \in [Workers -> PortWork]
        /\ portWork'[w].pc = "trim"
        /\ \A v \in Workers : /\ portWork'[v].port = portWork[v].port
                              /\ portWork'[v].now = portWork[v].now
                              /\ portWork'[v].use = portWork[v].use
        /\ \A v \in Workers \ {w} : portWork'[v] = portWork[v]
    BY Zenon, <1>1 DEF PortWork
  <1> HIDE DEF p, use
  <1>4. boards \in [{"all", "uplinks"} -> [Ranges -> [Ports -> Int \cup {None}]]]
    BY DEF RankInv, RankType
  <1>5. \A b \in {"all", "uplinks"}, r \in Ranges, q \in Ports :
          boards'[b][r][q] = IF q = p /\ use[r] # None /\ Ranking!RankedOn(w, b)
                             THEN use[r] ELSE boards[b][r][q]
    BY <1>2, <1>4
  <1>6. boards' \in [{"all", "uplinks"} -> [Ranges -> [Ports -> Int \cup {None}]]]
    <2>1. \A b \in {"all", "uplinks"}, r \in Ranges :
            (IF use[r] = None \/ ~Ranking!RankedOn(w, b) THEN boards[b][r]
             ELSE [boards[b][r] EXCEPT ![p] = use[r]]) \in [Ports -> Int \cup {None}]
      BY <1>1, <1>4
    <2> QED BY <1>2, <1>4, <2>1
  <1>7. Ranking!RankedOn(w, "all")
    BY DEF Ranking!RankedOn
  <1>8. RankType'
    BY <1>1, <1>3, <1>6 DEF RankInv, RankType
  <1>9. QueueTold' /\ SamplesTold'
    BY <1>1 DEF RankInv, QueueTold, SamplesTold
  <1>10. PortInWork'
    <2> SUFFICES ASSUME NEW v \in Workers, portWork'[v].pc # "idle"
                 PROVE  /\ portWork'[v].port \in Ports /\ portWork'[v].now \in 0 .. clock
                        /\ portWork'[v].port \notin crossed =>
                              \A c \in DOMAIN samples[portWork'[v].port] :
                                  samples[portWork'[v].port][c] <= portWork'[v].now
      BY <1>1 DEF PortInWork
    <2>1. portWork[v].pc # "idle"
      BY <1>1, <1>3
    <2> QED BY <1>3, <2>1 DEF RankInv, PortInWork
  <1>11. UseShown'
    BY <1>1, <1>3 DEF RankInv, UseShown
  <1>12. RanksShown'
    <2> SUFFICES ASSUME NEW r \in Ranges, NEW q \in Ports, boards'["all"][r][q] # None
                 PROVE  Shown(told[q], q, crossed, r, boards'["all"][r][q])
      BY <1>1 DEF RanksShown
    <2>1. CASE q = p /\ use[r] # None
      BY <1>5, <1>7, <2>1 DEF RankInv, UseShown, p, use
    <2>2. CASE ~(q = p /\ use[r] # None)
      BY <1>5, <2>2 DEF RankInv, RanksShown
    <2> QED BY <2>1, <2>2
  <1>13. TooHighAlerted'
    <2> SUFFICES ASSUME NEW r \in Ranges, NEW q \in Ports
                 PROVE  /\ boards'["uplinks"][r][q] # None => boards'["all"][r][q] # None
                        /\ boards'["all"][r][q] # None /\ boards'["all"][r][q] > LowPass =>
                             \/ q \in busy
                             \/ \E v \in Workers : /\ portWork'[v].pc = "trim"
                                                   /\ portWork'[v].port = q
                                                   /\ portWork'[v].use[r] = boards'["all"][r][q]
      BY <1>1 DEF TooHighAlerted
    <2>1. CASE q = p /\ use[r] # None
      <3>1. boards'["all"][r][q] = use[r]
        BY <1>5, <1>7, <2>1
      <3>2. portWork'[w].port = q /\ portWork'[w].use = use
        BY <1>3, <2>1 DEF p, use
      <3> QED BY <1>3, <2>1, <3>1, <3>2
    <2>2. CASE ~(q = p /\ use[r] # None)
      <3>1. boards'["all"][r][q] = boards["all"][r][q]
            /\ boards'["uplinks"][r][q] = boards["uplinks"][r][q]
        BY <1>5, <2>2
      <3>2. \A v \in Workers : portWork[v].pc = "trim" => portWork'[v] = portWork[v]
        BY <1>1, <1>3
      <3> QED BY <3>1, <3>2 DEF RankInv, TooHighAlerted
    <2> QED BY <2>1, <2>2
  <1>14. ReportsKept'
    BY <1>1 DEF RankInv, ReportsKept, ReportKept
  <1> QED BY <1>8, <1>9, <1>10, <1>11, <1>12, <1>13, <1>14 DEF RankInv

\* A worker removes the samples that no range needs, and alerts if its port is too full.
LEMMA RankTrims ==
    ASSUME RankInv, NEW w \in Workers, Ranking!Trim(w)
    PROVE  RankInv'
  <1> DEFINE p == portWork[w].port
             use == portWork[w].use
             bound == Ranking!Before(portWork[w].now)
  <1>1. /\ portWork[w].pc = "trim" /\ portWork \in [Workers -> PortWork]
        /\ p \in Ports /\ use \in [Ranges -> Int \cup {None}]
        /\ portWork' = [portWork EXCEPT ![w] = Ranking!Idle]
        /\ UNCHANGED <<clock, counter, queue, cap, peer, boards, told, crossed>>
        /\ busy \subseteq busy'
        /\ (\E r \in Ranges : use[r] # None /\ use[r] > LowPass) => p \in busy'
    BY DEF Ranking!Trim, RankInv, RankType, PortInWork, PortWork
  <1>2. samples' = [samples EXCEPT ![p] =
          Ranking!Restrict(@, {c \in DOMAIN @ : @[c] > bound})]
    BY DEF Ranking!Trim
  <1>3. /\ portWork' \in [Workers -> PortWork]
        /\ portWork'[w].pc = "idle" /\ \A r \in Ranges : portWork'[w].use[r] = None
        /\ \A v \in Workers \ {w} : portWork'[v] = portWork[v]
    <2>1. Ranking!Idle \in PortWork /\ Ranking!Idle.pc = "idle"
          /\ \A r \in Ranges : Ranking!Idle.use[r] = None
      BY DEF Ranking!Idle, PortWork
    <2> QED BY <1>1, <2>1
  <1>4. bound + (Ranking!Max(Ranges) + 1) * Minute <= clock /\ bound \in Int
    <2>1. portWork[w].now \in Nat /\ portWork[w].now <= clock /\ clock \in Nat
      BY <1>1 DEF RankInv, RankType, PortInWork
    <2>2. Minute \in Nat /\ Older \in Nat /\ Older >= Minute
      BY AnalysisAssumption DEF Ranking!CapacityAssumption
    <2>3. Ranking!Max(Ranges) \in Nat
      BY LongestRange
    <2> DEFINE long == Ranking!Max(Ranges)
    <2>4. bound = portWork[w].now - long * Minute - Older
      BY DEF Ranking!Before
    <2> HIDE DEF long, bound
    <2>5. long \in Nat
      BY <2>3 DEF long
    <2>6. long * Minute \in Nat /\ (long + 1) * Minute = long * Minute + Minute
      BY <2>2, <2>5
    <2>7. bound + (long + 1) * Minute <= clock /\ bound \in Int
      BY <2>1, <2>2, <2>4, <2>6
    <2> QED BY <2>7 DEF long
  <1> HIDE DEF p, use, bound
  <1>5. /\ DOMAIN samples' = Ports
        /\ \A q \in Ports : /\ DOMAIN samples'[q] \subseteq DOMAIN samples[q]
                            /\ \A c \in DOMAIN samples'[q] : samples'[q][c] = samples[q][c]
                            /\ \A c \in DOMAIN samples[q] :
                                  c \in DOMAIN samples'[q] \/ ~(samples[q][c] > bound)
    <2>1. DOMAIN samples = Ports
      BY DEF RankInv, RankType
    <2> QED BY <1>1, <1>2, <2>1 DEF Ranking!Restrict
  <1>6. RankType'
    BY <1>1, <1>3, <1>5 DEF RankInv, RankType
  <1>7. QueueTold' /\ SamplesTold'
    BY <1>1, <1>5 DEF RankInv, QueueTold, SamplesTold
  <1>8. PortInWork'
    <2> SUFFICES ASSUME NEW v \in Workers, portWork'[v].pc # "idle"
                 PROVE  /\ portWork'[v].port \in Ports /\ portWork'[v].now \in 0 .. clock
                        /\ portWork'[v].port \notin crossed =>
                              \A c \in DOMAIN samples'[portWork'[v].port] :
                                  samples'[portWork'[v].port][c] <= portWork'[v].now
      BY <1>1 DEF PortInWork
    <2>1. portWork'[v] = portWork[v]
      BY <1>3
    <2> QED BY <1>5, <2>1 DEF RankInv, PortInWork
  <1>9. UseShown' /\ RanksShown'
    BY <1>1, <1>3 DEF RankInv, UseShown, RanksShown
  <1>10. TooHighAlerted'
    <2> SUFFICES ASSUME NEW r \in Ranges, NEW q \in Ports
                 PROVE  /\ boards["uplinks"][r][q] # None => boards["all"][r][q] # None
                        /\ boards["all"][r][q] # None /\ boards["all"][r][q] > LowPass =>
                             \/ q \in busy'
                             \/ \E v \in Workers : /\ portWork'[v].pc = "trim"
                                                   /\ portWork'[v].port = q
                                                   /\ portWork'[v].use[r] = boards["all"][r][q]
      BY <1>1 DEF TooHighAlerted
    <2>1. boards["uplinks"][r][q] # None => boards["all"][r][q] # None
      BY DEF RankInv, TooHighAlerted
    <2>2. ASSUME boards["all"][r][q] # None, boards["all"][r][q] > LowPass, q \notin busy'
          PROVE  \E v \in Workers : /\ portWork'[v].pc = "trim" /\ portWork'[v].port = q
                                    /\ portWork'[v].use[r] = boards["all"][r][q]
      <3>1. PICK v \in Workers : /\ portWork[v].pc = "trim" /\ portWork[v].port = q
                                 /\ portWork[v].use[r] = boards["all"][r][q]
        BY <1>1, <2>2 DEF RankInv, TooHighAlerted
      <3>2. v # w
        BY <1>1, <2>2, <3>1 DEF p, use
      <3> QED BY <1>3, <3>1, <3>2
    <2> QED BY <2>1, <2>2
  <1>11. ReportsKept'
    <2> SUFFICES ASSUME NEW q \in Ports, NEW x \in told[q] PROVE ReportKept(q, x)'
      BY <1>1 DEF ReportsKept
    <2>1. ReportKept(q, x)
      BY DEF RankInv, ReportsKept
    <2>2. CASE x.count \in DOMAIN samples[q] /\ samples[q][x.count] >= x.time
      <3>1. x.time \in Nat
        BY DEF RankInv, RankType
      <3>2. samples[q][x.count] \in Nat
        <4>1. /\ clock \in Nat /\ told[q] \in SUBSET [time : 0 .. clock, count : 0 .. Width]
              /\ [time |-> samples[q][x.count], count |-> x.count] \in told[q]
          BY <2>2 DEF RankInv, RankType, SamplesTold
        <4> QED BY <4>1, ToldTimes
      <3>3. CASE x.count \in DOMAIN samples'[q]
        BY <1>5, <2>2, <3>3 DEF ReportKept
      <3>4. CASE x.count \notin DOMAIN samples'[q]
        <4>1. x.time <= bound
          <5>1. bound \in Int /\ ~(samples[q][x.count] > bound)
            <6>1. ~(samples[q][x.count] > bound)
              BY <1>5, <2>2, <3>4
            <6> QED BY <1>4, <6>1
          <5> QED BY <2>2, <3>1, <3>2, <5>1
        <4>2. (Ranking!Max(Ranges) + 1) * Minute \in Nat /\ clock \in Nat
          BY LongestRange, AnalysisAssumption DEF Ranking!CapacityAssumption, RankInv, RankType
        <4>3. x.time + (Ranking!Max(Ranges) + 1) * Minute <= clock
          BY <1>4, <3>1, <4>1, <4>2
        <4> QED BY <1>1, <4>3 DEF ReportKept
      <3> QED BY <3>3, <3>4
    <2>3. CASE ~(x.count \in DOMAIN samples[q] /\ samples[q][x.count] >= x.time)
      BY <1>1, <2>1, <2>3 DEF ReportKept
    <2> QED BY <2>2, <2>3
  <1> QED BY <1>6, <1>7, <1>8, <1>9, <1>10, <1>11 DEF RankInv

\* One step per action.
LEMMA RankStep == RankInv /\ [Ranking!Next]_(Ranking!vars) => RankInv'
  <1> SUFFICES ASSUME RankInv, [Ranking!Next]_(Ranking!vars) PROVE RankInv'
    OBVIOUS
  <1>1. CASE UNCHANGED Ranking!vars
    <2>1. UNCHANGED <<clock, counter, queue, samples, cap, peer, boards, portWork, busy, told,
                      crossed>>
      BY <1>1 DEF Ranking!vars, Ranking!redis
    <2>2. RankType' /\ QueueTold' /\ SamplesTold'
      BY Zenon, <2>1 DEF RankInv, RankType, QueueTold, SamplesTold
    <2>3. PortInWork' /\ UseShown' /\ RanksShown' /\ TooHighAlerted'
      BY <2>1 DEF RankInv, PortInWork, UseShown, RanksShown, TooHighAlerted
    <2>4. ReportsKept'
      BY <2>1 DEF RankInv, ReportsKept, ReportKept
    <2> QED BY <2>2, <2>3, <2>4 DEF RankInv
  <1>2. CASE Ranking!Tick
    BY <1>2, RankTick
  <1>3. CASE \E p \in Ports : Ranking!PortStats(p) \/ Ranking!PortMeta(p)
    BY <1>3, RankReport
  <1>4. ASSUME NEW w \in Workers,
               \/ Ranking!GetCapacities(w) \/ Ranking!GetUtilisations(w)
               \/ Ranking!GetLayer1Peers(w)
        PROVE  RankInv'
    BY <1>4, RankLookups
  <1>5. ASSUME NEW w \in Workers, Ranking!Take(w) \/ Ranking!Rank(w) \/ Ranking!Trim(w)
        PROVE  RankInv'
    BY <1>5, RankTake, RankGives, RankTrims
  <1> QED BY <1>1, <1>2, <1>3, <1>4, <1>5 DEF Ranking!Next

\* However many workers rank ports, in any order of their calls to redis and whatever
\* speeds are set meanwhile: a place on a scoreboard is the average between two reports of
\* the port, about as far apart as the range says, unless two workers had a report of the
\* port at once; who has a place among the uplinks has one among all; a place that is too
\* high was alerted about once the workers are done; and no report is dropped that a range
\* still needs (CapacityWorker.post_bulk_process and rank_utilisations).
THEOREM RanksAlwaysTrue == Ranking!Spec => []RanksTrue
  <1>1. RankInv => Ranking!RanksAreReal
    BY DEF RankInv, RanksShown, Shown, Ranking!RanksAreReal
  <1>2. RankInv => Ranking!RanksAgree
    BY DEF RankInv, TooHighAlerted, Ranking!RanksAgree, Ranking!Quiet
  <1>3. RankInv => Ranking!SamplesKept
    BY DEF RankInv, ReportsKept, ReportKept, Ranking!SamplesKept
  <1>4. RankInv => RanksTrue
    BY <1>1, <1>2, <1>3 DEF RanksTrue
  <1> QED BY <1>4, RankBegins, RankStep, PTL DEF Ranking!Spec

-----------------------------------------------------------------------------
(* Alerts: the inductive invariant *)

States == {"unknown", "met", "unmet"}

\* What is sent: a condition that is met, or no longer.
AlertsSent == {a \in [state : {"met", "unmet"}, last : States] : a.state = "met" \/ a.last = "met"}

AlertType ==
    /\ stanzas \in Configs
    /\ clock \in Nat /\ faults \in Nat /\ early \in Nat /\ outages \in Nat /\ at \in Nat \ {0}
    /\ cached \in Nat \cup {None} /\ mailed \in Nat \cup {None}
    /\ manager \in {"idle", "mailed"}
    /\ key \in {"absent"} \cup States /\ last \in States
    /\ alerts \in Seq(AlertsSent) /\ (alerts = <<>> => at = 1)
    /\ DOMAIN work = Workers
    /\ \A w \in Workers :
          work[w] = Alerts!Idle
          \/ work[w] \in [pc : {"got", "known"}, value : Values \cup {None}, last : States]
    /\ manager = "mailed" => /\ alerts # <<>> /\ mailed # None
                             /\ at \in DOMAIN stanzas /\ stanzas[at].by = "mail"

\* The next mail may be an early one.
MayBeEarly ==
    mailed # None /\ mailed + Limit > clock /\ cached # mailed /\ manager # "mailed"

MailsCounted == early + (IF MayBeEarly THEN 1 ELSE 0) <= faults

\* What is known is watched, and what a worker read is still so.
ReadStillTrue ==
    ~disturbed =>
        /\ key # "absent" => watched
        /\ last = IF key \in {"met", "unmet"} THEN key ELSE "unknown"
        /\ \A w \in Workers :
              /\ work[w].pc = "known" => key # "absent"
              /\ work[w].pc # "idle" => work[w].last = last

Row == Seq({"new", "continual", "end"}) \ {<<>>}
LastOf(row) == row[Len(row)]
AllEnded(r) == \A i \in DOMAIN r : i < Len(r) => LastOf(r[i]) = "end"
Open(r) == IF r # <<>> /\ LastOf(LastOf(r)) # "end" THEN 1 ELSE 0
IsMet(state) == IF state = "met" THEN 1 ELSE 0
Begins(alert) == IF alert.state = "met" /\ alert.last # "met" THEN 1 ELSE 0

\* How many alerts of those that wait are noted: the first, or none.
NotedOnes ==
    IF alerts # <<>> /\ \E i \in DOMAIN stanzas : i < at /\ Alerts!Notes(stanzas[i], Head(alerts))
    THEN 1 ELSE 0

\* f is the number of outages after each alert of q, and whether one goes on; it is `from'
\* after the first `noted', and `to' after all of them.
Stages == [count : Nat, open : {0, 1}]
IsCourse(f, q, noted, from, to) ==
    /\ f[Len(q)] = to /\ f[noted] = from
    /\ \A i \in DOMAIN q :
          /\ f[i].count = f[i - 1].count + Begins(q[i])
          /\ f[i - 1].open = IsMet(q[i].last) /\ f[i].open = IsMet(q[i].state)

RowStage == [count |-> Len(rows), open |-> Open(rows)]
LastStage == [count |-> outages, open |-> IsMet(last)]

\* The rows have come to where the alerts that wait go on from.
RowsFollowAlerts ==
    Alerts!Noting /\ ~disturbed =>
        /\ rows \in Seq(Row) /\ AllEnded(rows)
        /\ \E f \in [0 .. Len(alerts) -> Stages] :
              IsCourse(f, alerts, NotedOnes, RowStage, LastStage)

AlertInv == AlertType /\ MailsCounted /\ ReadStillTrue /\ RowsFollowAlerts

-----------------------------------------------------------------------------
(* Alerts: courses of outages, and rows *)

\* One more alert goes on from where the course ends.
LEMMA CourseLonger ==
    ASSUME NEW q \in Seq(AlertsSent), NEW a \in AlertsSent, NEW k \in 0 .. Len(q),
           NEW from, NEW to \in Stages, NEW f \in [0 .. Len(q) -> Stages],
           IsCourse(f, q, k, from, to), IsMet(a.last) = to.open
    PROVE  \E g \in [0 .. Len(Append(q, a)) -> Stages] :
             IsCourse(g, Append(q, a), k, from,
                      [count |-> to.count + Begins(a), open |-> IsMet(a.state)])
  <1> DEFINE n == Len(q)
             next == [count |-> to.count + Begins(a), open |-> IsMet(a.state)]
             r == Append(q, a)
             g == [i \in 0 .. n + 1 |-> IF i = n + 1 THEN next ELSE f[i]]
  <1>1. /\ n \in Nat /\ DOMAIN q = 1 .. n
        /\ r \in Seq(AlertsSent) /\ DOMAIN r = 1 .. n + 1 /\ Len(r) = n + 1
    BY QueueMembers
  <1>2. r[n + 1] = a /\ \A i \in 1 .. n : r[i] = q[i]
    BY <1>1
  <1>3. next \in Stages
    BY DEF Stages, Begins, IsMet
  <1> HIDE DEF n, r, next
  <1>4. g \in [0 .. n + 1 -> Stages]
    BY <1>1, <1>3 DEF n
  <1>5. g[n + 1] = next /\ g[n] = to /\ g[k] = from /\ \A i \in 0 .. n : g[i] = f[i]
    <2>1. \A i \in 0 .. n + 1 : g[i] = IF i = n + 1 THEN next ELSE f[i]
      OBVIOUS
    <2> HIDE DEF g
    <2>2. /\ n + 1 \in 0 .. n + 1 /\ n \in 0 .. n + 1 /\ n # n + 1
          /\ \A i \in 0 .. n : i \in 0 .. n + 1 /\ i # n + 1
      BY <1>1
    <2>3. k \in 0 .. n /\ f[n] = to /\ f[k] = from
      BY DEF n, IsCourse
    <2> QED BY <2>1, <2>2, <2>3
  <1> HIDE DEF g
  <1>6. /\ next.count = to.count + Begins(a) /\ next.open = IsMet(a.state)
        /\ to.open = IsMet(a.last)
    BY DEF next
  <1>7. ASSUME NEW i \in 1 .. n + 1
        PROVE  /\ g[i].count = g[i - 1].count + Begins(r[i])
               /\ g[i - 1].open = IsMet(r[i].last) /\ g[i].open = IsMet(r[i].state)
    <2>1. CASE i = n + 1
      <3>1. g[i] = next /\ g[i - 1] = to /\ r[i] = a
        BY <1>1, <1>2, <1>5, <2>1
      <3> QED BY <1>6, <3>1
    <2>2. CASE i # n + 1
      <3>1. i \in 1 .. n /\ i - 1 \in 0 .. n /\ i \in 0 .. n
        BY <1>1, <2>2
      <3>2. g[i] = f[i] /\ g[i - 1] = f[i - 1] /\ r[i] = q[i]
        BY <1>2, <1>5, <3>1
      <3> QED BY Zenon, <1>1, <3>1, <3>2 DEF IsCourse
    <2> QED BY <2>1, <2>2
  <1>8. IsCourse(g, r, k, from, next)
    BY <1>1, <1>5, <1>7 DEF IsCourse
  <1> QED BY <1>1, <1>4, <1>8 DEF r, next

\* The first alert is done with.
LEMMA CourseShorter ==
    ASSUME NEW q \in Seq(AlertsSent), q # <<>>, NEW from, NEW to,
           NEW f \in [0 .. Len(q) -> Stages], IsCourse(f, q, 1, from, to)
    PROVE  \E g \in [0 .. Len(Tail(q)) -> Stages] : IsCourse(g, Tail(q), 0, from, to)
  <1> DEFINE n == Len(q)
             r == Tail(q)
             g == [i \in 0 .. n - 1 |-> f[i + 1]]
  <1>1. /\ n \in Nat /\ n > 0 /\ DOMAIN q = 1 .. n
        /\ r \in Seq(AlertsSent) /\ DOMAIN r = 1 .. n - 1 /\ Len(r) = n - 1
        /\ \A i \in 1 .. n - 1 : r[i] = q[i + 1]
    BY QueueMembers
  <1> HIDE DEF n, r
  <1>2. g \in [0 .. n - 1 -> Stages] /\ g[n - 1] = to /\ g[0] = from
        /\ \A i \in 0 .. n - 1 : g[i] = f[i + 1]
    BY <1>1 DEF n, IsCourse
  <1> HIDE DEF g
  <1>3. ASSUME NEW i \in 1 .. n - 1
        PROVE  /\ g[i].count = g[i - 1].count + Begins(r[i])
               /\ g[i - 1].open = IsMet(r[i].last) /\ g[i].open = IsMet(r[i].state)
    <2>1. i + 1 \in 1 .. n /\ i \in 0 .. n - 1 /\ i - 1 \in 0 .. n - 1 /\ (i + 1) - 1 = i
          /\ (i - 1) + 1 = i
      BY <1>1
    <2>2. g[i] = f[i + 1] /\ g[i - 1] = f[i] /\ r[i] = q[i + 1]
      BY <1>1, <1>2, <2>1
    <2>3. /\ f[i + 1].count = f[(i + 1) - 1].count + Begins(q[i + 1])
          /\ f[(i + 1) - 1].open = IsMet(q[i + 1].last)
          /\ f[i + 1].open = IsMet(q[i + 1].state)
      BY Zenon, <1>1, <2>1 DEF IsCourse
    <2> QED BY <2>1, <2>2, <2>3
  <1>4. IsCourse(g, r, 0, from, to)
    BY <1>1, <1>2, <1>3 DEF IsCourse
  <1> QED BY <1>1, <1>2, <1>4 DEF r

\* The first alert is noted.
LEMMA CourseNoted ==
    ASSUME NEW q \in Seq(AlertsSent), q # <<>>, NEW from, NEW to,
           NEW f \in [0 .. Len(q) -> Stages], IsCourse(f, q, 0, from, to)
    PROVE  /\ from.open = IsMet(Head(q).last)
           /\ IsCourse(f, q, 1, [count |-> from.count + Begins(Head(q)),
                                 open |-> IsMet(Head(q).state)], to)
  <1>1. 1 \in DOMAIN q /\ Head(q) = q[1] /\ 1 \in 0 .. Len(q)
    BY QueueMembers
  <1>2. /\ f[1].count = f[1 - 1].count + Begins(q[1])
        /\ f[1 - 1].open = IsMet(q[1].last) /\ f[1].open = IsMet(q[1].state)
    BY <1>1 DEF IsCourse
  <1>3. f[0] = from /\ f[1] \in Stages
    BY <1>1 DEF IsCourse
  <1>4. f[1] = [count |-> from.count + Begins(q[1]), open |-> IsMet(q[1].state)]
    BY <1>2, <1>3 DEF Stages
  <1> QED BY <1>1, <1>2, <1>3, <1>4 DEF IsCourse

\* A row for an outage that begins.
LEMMA RowBegins ==
    ASSUME NEW r \in Seq(Row), AllEnded(r), Open(r) = 0
    PROVE  LET s == Append(r, <<"new">>)
           IN  s \in Seq(Row) /\ AllEnded(s) /\ Len(s) = Len(r) + 1 /\ Open(s) = 1
  <1> DEFINE row == <<"new">>
             s == Append(r, row)
  <1>1. row \in Row /\ LastOf(row) = "new"
    BY DEF Row, LastOf
  <1> HIDE DEF row
  <1>2. Len(r) \in Nat /\ DOMAIN r = 1 .. Len(r) /\ (r # <<>> => Len(r) > 0)
    BY QueueMembers
  <1>3. /\ s \in Seq(Row) /\ Len(s) = Len(r) + 1 /\ DOMAIN s = 1 .. Len(r) + 1
        /\ s[Len(r) + 1] = row /\ \A i \in 1 .. Len(r) : s[i] = r[i]
    BY <1>1, <1>2
  <1>4. s # <<>>
    BY <1>2, <1>3
  <1>5. Open(s) = 1
    BY <1>1, <1>3, <1>4 DEF Open, LastOf
  <1>6. AllEnded(s)
    <2> DEFINE n == Len(r)
    <2>1. n \in Nat /\ DOMAIN r = 1 .. n /\ (r # <<>> => n > 0)
      BY <1>2
    <2>2. r # <<>> => LastOf(r[n]) = "end"
      BY DEF Open, LastOf
    <2>3. \A i \in DOMAIN r : i < n => LastOf(r[i]) = "end"
      BY DEF AllEnded
    <2>4. DOMAIN s = 1 .. n + 1 /\ Len(s) = n + 1 /\ \A i \in 1 .. n : s[i] = r[i]
      BY <1>3
    <2> HIDE DEF n, s
    <2>5. ASSUME NEW i \in 1 .. n PROVE LastOf(r[i]) = "end"
      <3>1. i \in DOMAIN r /\ r # <<>> /\ (i < n \/ i = n)
        BY <2>1
      <3> QED BY <2>2, <2>3, <3>1
    <2>6. ASSUME NEW i \in DOMAIN s, i < Len(s) PROVE i \in 1 .. n /\ s[i] = r[i]
      <3>1. n \in Nat /\ i \in 1 .. n + 1 /\ i < n + 1
        BY <2>1, <2>4, <2>6
      <3>2. i \in 1 .. n
        BY <3>1
      <3> QED BY <2>4, <3>2
    <2> QED BY <2>5, <2>6 DEF AllEnded
  <1> QED BY <1>3, <1>5, <1>6 DEF row

\* More about the outage that goes on.
LEMMA RowGoesOn ==
    ASSUME NEW r \in Seq(Row), AllEnded(r), Open(r) = 1, NEW kind \in {"continual", "end"}
    PROVE  LET s == [r EXCEPT ![Len(r)] = Append(@, kind)]
           IN  /\ r # <<>> /\ s \in Seq(Row) /\ AllEnded(s) /\ Len(s) = Len(r)
               /\ Open(s) = IF kind = "end" THEN 0 ELSE 1
  <1> DEFINE n == Len(r)
             row == Append(r[n], kind)
             s == [r EXCEPT ![n] = row]
  <1>1. n \in Nat /\ DOMAIN r = 1 .. n /\ r # <<>> /\ n > 0 /\ r[n] \in Row
    <2>1. r # <<>>
      BY DEF Open
    <2> QED BY <2>1, QueueMembers
  <1>2. row \in Row /\ LastOf(row) = kind
    <2>1. r[n] \in Seq({"new", "continual", "end"}) /\ kind \in {"new", "continual", "end"}
      BY <1>1 DEF Row
    <2>2. /\ row \in Seq({"new", "continual", "end"}) /\ Len(row) = Len(r[n]) + 1
          /\ row[Len(r[n]) + 1] = kind /\ row # <<>>
      BY <2>1
    <2> QED BY <2>2 DEF Row, LastOf
  <1> HIDE DEF row
  <1>3. /\ s \in Seq(Row) /\ Len(s) = n /\ DOMAIN s = 1 .. n /\ s[n] = row
        /\ \A i \in 1 .. n - 1 : s[i] = r[i]
    BY <1>1, <1>2
  <1>4. s # <<>>
    BY <1>1, <1>3
  <1> HIDE DEF s
  <1>5. Open(s) = IF kind = "end" THEN 0 ELSE 1
    BY <1>2, <1>3, <1>4 DEF Open, LastOf
  <1>6. AllEnded(s)
    BY <1>1, <1>3 DEF AllEnded
  <1> QED BY Zenon, <1>1, <1>3, <1>5, <1>6 DEF s, row, n

-----------------------------------------------------------------------------
(* Alerts: initial states and steps *)

\* At first nothing is known, and no alert was sent.
LEMMA AlertsBegin == Alerts!Init => AlertInv
  <1> SUFFICES ASSUME Alerts!Init PROVE AlertInv
    OBVIOUS
  <1>1. AlertType
    BY DEF Alerts!Init, AlertType, States
  <1>2. MailsCounted
    BY DEF Alerts!Init, MailsCounted, MayBeEarly
  <1>3. ReadStillTrue
    BY DEF Alerts!Init, ReadStillTrue, Alerts!Idle
  <1>4. RowsFollowAlerts
    <2> DEFINE f == [i \in 0 .. 0 |-> [count |-> 0, open |-> 0]]
    <2>1. rows = <<>> /\ alerts = <<>> /\ outages = 0 /\ last = "unknown"
      BY DEF Alerts!Init
    <2>2. NotedOnes = 0 /\ RowStage = [count |-> 0, open |-> 0]
          /\ LastStage = [count |-> 0, open |-> 0]
      BY <2>1 DEF NotedOnes, RowStage, LastStage, Open, IsMet
    <2>3. Len(alerts) = 0 /\ f \in [0 .. 0 -> Stages]
      BY <2>1 DEF Stages
    <2>4. IsCourse(f, alerts, NotedOnes, RowStage, LastStage)
      BY <2>1, <2>2, <2>3 DEF IsCourse
    <2>5. rows \in Seq(Row) /\ AllEnded(rows)
      BY <2>1 DEF AllEnded
    <2> QED BY <2>3, <2>4, <2>5 DEF RowsFollowAlerts
  <1> QED BY <1>1, <1>2, <1>3, <1>4 DEF AlertInv

\* What neither alerts, nor notes, nor ends an outage leaves the course as it is.
LEMMA RowsLeft ==
    ASSUME RowsFollowAlerts, disturbed => disturbed', UNCHANGED <<stanzas, alerts, at, rows>>,
           disturbed' \/ (outages' = outages /\ IsMet(last') = IsMet(last))
    PROVE  RowsFollowAlerts'
  <1> SUFFICES ASSUME Alerts!Noting', ~disturbed' PROVE RowsFollowAlerts'
    BY DEF RowsFollowAlerts
  <1>1. Alerts!Noting
    BY DEF Alerts!Noting, Alerts!Notes
  <1>2. NotedOnes' = NotedOnes /\ RowStage' = RowStage /\ LastStage' = LastStage
    BY DEF NotedOnes, RowStage, LastStage, Alerts!Notes
  <1>3. PICK f \in [0 .. Len(alerts) -> Stages] :
           IsCourse(f, alerts, NotedOnes, RowStage, LastStage)
    BY <1>1 DEF RowsFollowAlerts
  <1>4. IsCourse(f, alerts', NotedOnes', RowStage', LastStage')
    BY <1>2, <1>3
  <1>5. rows' \in Seq(Row) /\ AllEnded(rows')
    BY <1>1 DEF RowsFollowAlerts
  <1> QED BY <1>3, <1>4, <1>5 DEF RowsFollowAlerts

\* Whether a thing matches is found out.
LEMMA AlertWhat ==
    ASSUME AlertInv, NEW w \in Workers, NEW matches \in BOOLEAN, Alerts!What(w, matches)
    PROVE  AlertInv'
  <1>1. AlertType' /\ MailsCounted'
    BY DEF AlertInv, Alerts!What, Alerts!alerting, AlertType, MailsCounted, MayBeEarly, States
  <1>2. ReadStillTrue'
    <2> SUFFICES ASSUME ~disturbed'
                 PROVE  /\ key' # "absent" => watched'
                        /\ last' = IF key' \in {"met", "unmet"} THEN key' ELSE "unknown"
                        /\ \A v \in Workers :
                              /\ work'[v].pc = "known" => key' # "absent"
                              /\ work'[v].pc # "idle" => work'[v].last = last'
      BY DEF ReadStillTrue
    <2>1. /\ ~disturbed /\ UNCHANGED <<work, last>> /\ work[w].pc = "idle"
          /\ key' = key \/ (~Alerts!Reading(w) /\ key \notin {"met", "unmet"})
          /\ key' = IF ~matches THEN "absent" ELSE IF key = "absent" THEN "unknown" ELSE key
          /\ watched' = matches
      <3>1. disturbed' = (disturbed \/ (key' # key /\ (Alerts!Reading(w)
                                                     \/ key \in {"met", "unmet"})))
        BY Zenon DEF Alerts!What
      <3>2. /\ UNCHANGED <<work, last>> /\ watched' = matches
            /\ key' = IF ~matches THEN "absent" ELSE IF key = "absent" THEN "unknown" ELSE key
        BY Zenon DEF Alerts!What
      <3>3. work[w].pc = "idle"
        BY DEF Alerts!What, Alerts!Idle
      <3>4. ~disturbed /\ (key' = key \/ (~Alerts!Reading(w) /\ key \notin {"met", "unmet"}))
        BY Zenon, <3>1
      <3> QED BY <3>2, <3>3, <3>4
    <2>2. /\ last = IF key \in {"met", "unmet"} THEN key ELSE "unknown"
          /\ \A v \in Workers : /\ work[v].pc = "known" => key # "absent"
                                /\ work[v].pc # "idle" => work[v].last = last
      BY <2>1 DEF AlertInv, ReadStillTrue
    <2>3. key' # "absent" => watched'
      BY <2>1
    <2>4. last' = IF key' \in {"met", "unmet"} THEN key' ELSE "unknown"
      BY <2>1, <2>2
    <2>5. ASSUME NEW v \in Workers, work'[v].pc = "known" PROVE key' # "absent"
      <3>1. v # w /\ key # "absent"
        BY <2>1, <2>2, <2>5
      <3>2. Alerts!Reading(w)
        BY <2>1, <2>5, <3>1 DEF Alerts!Reading
      <3> QED BY <2>1, <3>1, <3>2
    <2> QED BY <2>1, <2>2, <2>3, <2>4, <2>5
  <1>3. RowsFollowAlerts'
    BY Zenon, RowsLeft DEF AlertInv, Alerts!What, Alerts!alerting
  <1> QED BY <1>1, <1>2, <1>3 DEF AlertInv

\* What was known of a thing is read.
LEMMA AlertGet ==
    ASSUME AlertInv, NEW w \in Workers, NEW v \in Values \cup {None}, Alerts!Get(w, v)
    PROVE  AlertInv'
  <1>1. /\ work[w] = Alerts!Idle
        /\ work' = [work EXCEPT ![w] = [pc |-> "got", value |-> v,
                                        last |-> IF key = "absent" THEN "unknown" ELSE key]]
        /\ UNCHANGED <<stanzas, key, alerts, manager, at, cached, rows, mailed, early, clock,
                       faults, watched, last, outages, disturbed>>
    BY DEF Alerts!Get, Alerts!alerting, Alerts!history
  <1>2. AlertType' /\ MailsCounted'
    BY <1>1 DEF AlertInv, AlertType, MailsCounted, MayBeEarly, States
  <1>3. ReadStillTrue'
    BY <1>1 DEF AlertInv, AlertType, States, ReadStillTrue
  <1>4. RowsFollowAlerts'
    BY <1>1, RowsLeft DEF AlertInv
  <1> QED BY <1>2, <1>3, <1>4 DEF AlertInv

\* The thing is still watched, or no more looked at.
LEMMA AlertExists ==
    ASSUME AlertInv, NEW w \in Workers, Alerts!Exists(w)
    PROVE  AlertInv'
  <1>1. /\ work[w].pc = "got"
        /\ work' = [work EXCEPT ![w] = IF Alerts!Known(w) /\ @.value # None
                                       THEN [@ EXCEPT !.pc = "known"] ELSE Alerts!Idle]
        /\ UNCHANGED <<stanzas, key, alerts, manager, at, cached, rows, mailed, early, clock,
                       faults, watched, last, outages, disturbed>>
    BY DEF Alerts!Exists, Alerts!alerting, Alerts!history
  <1>2. /\ DOMAIN work' = Workers /\ \A v \in Workers \ {w} : work'[v] = work[v]
        /\ \/ work'[w] = Alerts!Idle
           \/ key # "absent" /\ work'[w] = [work[w] EXCEPT !.pc = "known"]
    BY <1>1 DEF AlertInv, AlertType, Alerts!Known
  <1>3. AlertType' /\ MailsCounted'
    <2>1. work[w] \in [pc : {"got", "known"}, value : Values \cup {None}, last : States]
      BY <1>1 DEF AlertInv, AlertType, Alerts!Idle
    <2>2. \A v \in Workers :
             work'[v] = Alerts!Idle
             \/ work'[v] \in [pc : {"got", "known"}, value : Values \cup {None}, last : States]
      BY <1>2, <2>1 DEF AlertInv, AlertType, Alerts!Idle
    <2>3. UNCHANGED Alerts!Idle
      BY DEF Alerts!Idle
    <2> HIDE DEF Alerts!Idle
    <2> QED BY <1>1, <1>2, <2>2, <2>3 DEF AlertInv, AlertType, MailsCounted, MayBeEarly, States
  <1>4. ReadStillTrue'
    BY <1>1, <1>2 DEF AlertInv, AlertType, States, ReadStillTrue, Alerts!Idle
  <1>5. RowsFollowAlerts'
    BY <1>1, RowsLeft DEF AlertInv
  <1> QED BY <1>3, <1>4, <1>5 DEF AlertInv

\* After a key expires the rows are not relied on.
LEMMA AlertForget ==
    ASSUME AlertInv, Alerts!Forget
    PROVE  AlertInv'
  <1>1. AlertType' /\ MailsCounted'
    BY DEF AlertInv, Alerts!Forget, Alerts!alerting, AlertType, MailsCounted, MayBeEarly
  <1>2. ReadStillTrue'
    BY DEF Alerts!Forget, ReadStillTrue
  <1>3. RowsFollowAlerts'
    BY RowsLeft DEF AlertInv, Alerts!Forget, Alerts!alerting
  <1> QED BY <1>1, <1>2, <1>3 DEF AlertInv

\* A mail may be an early one only while its time is kept.
LEMMA AlertTick ==
    ASSUME AlertInv, Alerts!Tick
    PROVE  AlertInv'
  <1>1. /\ clock' = clock + 1
        /\ cached' = IF cached # None /\ cached + Limit <= clock + 1 THEN None ELSE cached
        /\ UNCHANGED <<stanzas, key, work, alerts, manager, at, rows, mailed, early, faults,
                       watched, last, outages, disturbed>>
    BY DEF Alerts!Tick, Alerts!redis, Alerts!history
  <1>2. Limit \in Nat
    BY AnalysisAssumption DEF Alerts!AlertsAssumption
  <1>3. AlertType'
    BY <1>1 DEF AlertInv, AlertType
  <1>4. MailsCounted'
    <2>1. /\ clock \in Nat /\ mailed \in Nat \cup {None} /\ cached \in Nat \cup {None}
          /\ early \in Nat /\ faults \in Nat
      BY DEF AlertInv, AlertType
    <2>2. MayBeEarly' => MayBeEarly
      BY <1>1, <1>2, <2>1 DEF MayBeEarly
    <2> QED BY <1>1, <2>1, <2>2 DEF AlertInv, MailsCounted
  <1>5. ReadStillTrue'
    BY <1>1 DEF AlertInv, ReadStillTrue
  <1>6. RowsFollowAlerts'
    BY <1>1, RowsLeft DEF AlertInv
  <1> QED BY <1>3, <1>4, <1>5, <1>6 DEF AlertInv

\* The state is set: an alert, if there is one, goes on from the last.
LEMMA AlertSet ==
    ASSUME AlertInv, NEW w \in Workers, Alerts!Set(w)
    PROVE  AlertInv'
  <1> DEFINE before == work[w].last
             state == IF Alerts!Meets(directive, work[w].value) THEN "met" ELSE "unmet"
             alert == [state |-> state, last |-> before]
             isAlert == Alerts!IsAlert(before, state)
  <1>1. /\ work[w].pc = "known" /\ key' = state /\ last' = state
        /\ outages' = outages + (IF state = "met" /\ last # "met" THEN 1 ELSE 0)
        /\ work' = [work EXCEPT ![w] = Alerts!Idle]
        /\ UNCHANGED <<stanzas, manager, at, cached, rows, mailed, early, clock, watched>>
        /\ faults' = faults \/ faults' = faults + 1
        /\ disturbed => disturbed'
    BY Zenon DEF Alerts!Set
  <1>2. /\ alerts' = alerts \/ (isAlert /\ alerts' = Append(alerts, alert))
        /\ disturbed' \/ /\ ~Alerts!Reading(w)
                         /\ alerts' = IF isAlert THEN Append(alerts, alert) ELSE alerts
    BY Zenon DEF Alerts!Set
  <1>3. state \in {"met", "unmet"}
    OBVIOUS
  <1>4. isAlert <=> state = "met" \/ (before # "unknown" /\ state # before)
    BY DEF Alerts!IsAlert
  <1> HIDE DEF state, isAlert
  <1>5. /\ DOMAIN work' = Workers /\ work'[w] = Alerts!Idle
        /\ \A v \in Workers \ {w} : work'[v] = work[v]
    BY <1>1 DEF AlertInv, AlertType
  <1>6. /\ before \in States /\ (isAlert => alert \in AlertsSent)
        /\ ~disturbed => before = last
    <2>1. before \in States
      BY <1>1 DEF AlertInv, AlertType, Alerts!Idle
    <2>2. alert.state = state /\ alert.last = before
          /\ alert \in [state : {"met", "unmet"}, last : States]
      BY <1>3, <2>1
    <2>3. isAlert => alert.state = "met" \/ alert.last = "met"
      BY <1>3, <1>4, <2>1, <2>2 DEF States
    <2>4. ~disturbed => before = last
      BY <1>1 DEF AlertInv, ReadStillTrue
    <2> HIDE DEF alert
    <2> QED BY <2>1, <2>2, <2>3, <2>4 DEF AlertsSent
  <1> HIDE DEF before, alert
  <1>7. ReadStillTrue'
    <2> SUFFICES ASSUME ~disturbed'
                 PROVE  /\ key' # "absent" => watched'
                        /\ last' = IF key' \in {"met", "unmet"} THEN key' ELSE "unknown"
                        /\ \A v \in Workers :
                              /\ work'[v].pc = "known" => key' # "absent"
                              /\ work'[v].pc # "idle" => work'[v].last = last'
      BY DEF ReadStillTrue
    <2>1. watched'
      BY <1>1 DEF AlertInv, ReadStillTrue
    <2>2. \A v \in Workers : work'[v].pc = "idle"
      BY <1>2, <1>5 DEF Alerts!Reading, Alerts!Idle
    <2> QED BY <1>1, <1>3, <2>1, <2>2
  <1>8. /\ alerts \in Seq(AlertsSent)
        /\ alerts' \in Seq(AlertsSent)
        /\ isAlert /\ alerts' # alerts =>
              alerts' # <<>> /\ (alerts # <<>> => Head(alerts') = Head(alerts))
    <2>1. alerts \in Seq(AlertsSent)
      BY DEF AlertInv, AlertType
    <2>2. ASSUME isAlert
          PROVE  /\ Append(alerts, alert) \in Seq(AlertsSent) /\ Append(alerts, alert) # <<>>
                 /\ alerts # <<>> => Head(Append(alerts, alert)) = Head(alerts)
      BY <1>6, <2>1, <2>2
    <2> QED BY <1>2, <2>1, <2>2
  <1>9. AlertType'
    <2>1. alerts # <<>> => alerts' # <<>>
      BY <1>2, <1>8
    <2> QED BY <1>1, <1>3, <1>5, <1>8, <2>1 DEF AlertInv, AlertType, States
  <1>10. MailsCounted'
    BY <1>1 DEF AlertInv, AlertType, MailsCounted, MayBeEarly
  <1>11. RowsFollowAlerts'
    <2> SUFFICES ASSUME Alerts!Noting', ~disturbed' PROVE RowsFollowAlerts'
      BY DEF RowsFollowAlerts
    <2>1. Alerts!Noting /\ ~disturbed
      BY <1>1 DEF Alerts!Noting, Alerts!Notes
    <2>2. alerts' = IF isAlert THEN Append(alerts, alert) ELSE alerts
      BY <1>2
    <2>3. CASE ~isAlert
      <3>1. state = "unmet" /\ last # "met"
        BY <1>3, <1>4, <1>6, <2>1, <2>3
      <3>2. outages' = outages /\ IsMet(last') = IsMet(last)
        BY <1>1, <3>1 DEF AlertInv, AlertType, IsMet
      <3> QED BY <1>1, <2>1, <2>2, <2>3, <3>2, RowsLeft DEF AlertInv
    <2>4. CASE isAlert
      <3>1. PICK f \in [0 .. Len(alerts) -> Stages] :
               IsCourse(f, alerts, NotedOnes, RowStage, LastStage)
        BY <2>1 DEF AlertInv, RowsFollowAlerts
      <3>2. NotedOnes' = NotedOnes /\ NotedOnes \in 0 .. Len(alerts)
        <4>1. Append(alerts, alert) # <<>>
              /\ (alerts # <<>> => Head(Append(alerts, alert)) = Head(alerts))
          BY <1>6, <1>8, <2>4
        <4>2. alerts = <<>> => at = 1
          BY DEF AlertInv, AlertType
        <4>3. \A i \in DOMAIN stanzas : ~(i < 1)
          <5>1. DOMAIN stanzas = 1 .. Len(stanzas) /\ Len(stanzas) \in Nat
            BY AnalysisAssumption DEF Alerts!AlertsAssumption, AlertInv, AlertType
          <5> QED BY <5>1
        <4>4. alerts # <<>> => Len(alerts) >= 1 /\ Len(alerts) \in Nat
          BY <1>8
        <4>5. Len(alerts) \in Nat
          BY <1>8
        <4>6. NotedOnes \in 0 .. Len(alerts)
          BY <4>4, <4>5 DEF NotedOnes
        <4>7. CASE alerts = <<>>
          <5>1. NotedOnes = 0
            BY <4>7 DEF NotedOnes
          <5>2. NotedOnes' = 0
            BY <1>1, <4>2, <4>3, <4>7 DEF NotedOnes
          <5> QED BY <4>6, <5>1, <5>2
        <4>8. CASE alerts # <<>>
          <5>1. /\ alerts' # <<>> /\ Head(alerts') = Head(alerts)
                /\ UNCHANGED <<stanzas, at>>
            BY <1>1, <2>2, <2>4, <4>1, <4>8
          <5>2. NotedOnes' = NotedOnes
            BY <4>8, <5>1 DEF NotedOnes, Alerts!Notes, Alerts!Matches, Alerts!Applies
          <5> QED BY <4>6, <5>2
        <4> QED BY <4>7, <4>8
      <3>3. RowStage' = RowStage
        BY <1>1 DEF RowStage
      <3>4. LastStage \in Stages
        BY DEF LastStage, Stages, IsMet, AlertInv, AlertType
      <3>5. IsMet(alert.last) = LastStage.open
        BY <1>6, <2>1 DEF alert, LastStage
      <3>6. LastStage' = [count |-> LastStage.count + Begins(alert), open |-> IsMet(alert.state)]
        BY <1>1, <1>6, <2>1 DEF LastStage, Begins, alert
      <3>7. \E g \in [0 .. Len(Append(alerts, alert)) -> Stages] :
              IsCourse(g, Append(alerts, alert), NotedOnes, RowStage,
                       [count |-> LastStage.count + Begins(alert), open |-> IsMet(alert.state)])
        BY <1>6, <1>8, <2>4, <3>1, <3>2, <3>4, <3>5, CourseLonger
      <3>8. \E g \in [0 .. Len(alerts') -> Stages] :
              IsCourse(g, alerts', NotedOnes', RowStage', LastStage')
        BY <2>2, <2>4, <3>2, <3>3, <3>6, <3>7
      <3>9. rows' \in Seq(Row) /\ AllEnded(rows')
        BY <1>1, <2>1 DEF AlertInv, RowsFollowAlerts
      <3> QED BY <3>8, <3>9 DEF RowsFollowAlerts
    <2> QED BY <2>3, <2>4
  <1> QED BY <1>7, <1>9, <1>10, <1>11 DEF AlertInv

\* Of alerts as they should be: the one stanza that notes this one.
LEMMA StanzaOfAlert ==
    ASSUME Alerts!Noting, NEW a \in AlertsSent
    PROVE  \E i \in DOMAIN stanzas :
             /\ \A j \in DOMAIN stanzas : Alerts!Notes(stanzas[j], a) <=> j = i
             /\ stanzas[i].by = IF a.state = "unmet" THEN "end"
                                ELSE IF a.last = "met" THEN "continual" ELSE "new"
  <1>1. /\ a.state \in {"met", "unmet"} /\ a.last \in {"unknown", "met", "unmet"}
        /\ a = [state |-> a.state, last |-> a.last]
        /\ a.state = "met" \/ a.last = "met"
    BY DEF AlertsSent, States
  <1>2. \A state \in {"met", "unmet"}, before \in {"unknown", "met", "unmet"} :
           state = "met" \/ before = "met" =>
              \E i \in DOMAIN stanzas :
                  /\ \A j \in DOMAIN stanzas :
                        Alerts!Notes(stanzas[j], [state |-> state, last |-> before]) <=> j = i
                  /\ stanzas[i].by = IF state = "unmet" THEN "end"
                                     ELSE IF before = "met" THEN "continual" ELSE "new"
    BY Zenon DEF Alerts!Noting
  <1>3. \E i \in DOMAIN stanzas :
           /\ \A j \in DOMAIN stanzas :
                 Alerts!Notes(stanzas[j], [state |-> a.state, last |-> a.last]) <=> j = i
           /\ stanzas[i].by = IF a.state = "unmet" THEN "end"
                              ELSE IF a.last = "met" THEN "continual" ELSE "new"
    BY <1>1, <1>2
  <1> QED BY <1>1, <1>3

\* The alert is noted once the manager has come past its stanza.
LEMMA NotedPast ==
    ASSUME NEW i \in DOMAIN stanzas, alerts # <<>>,
           \A j \in DOMAIN stanzas : Alerts!Notes(stanzas[j], Head(alerts)) <=> j = i
    PROVE  NotedOnes = IF i < at THEN 1 ELSE 0
  BY DEF NotedOnes

\* The manager goes on with the stanzas: the one that notes the alert brings the rows up to
\* it, and the others leave them.
LEMMA NextStanza ==
    ASSUME AlertInv, alerts # <<>>, at \in DOMAIN stanzas, at' = at + 1,
           UNCHANGED <<stanzas, alerts, last, outages, disturbed>>,
           rows' = IF Alerts!Notes(stanzas[at], Head(alerts))
                   THEN Alerts!Stored(stanzas[at].by) ELSE rows
    PROVE  RowsFollowAlerts'
  <1> SUFFICES ASSUME Alerts!Noting', ~disturbed' PROVE RowsFollowAlerts'
    BY DEF RowsFollowAlerts
  <1> DEFINE a == Head(alerts)
             s == stanzas[at]
  <1>1. Alerts!Noting /\ ~disturbed
    BY DEF Alerts!Noting, Alerts!Notes
  <1>2. /\ rows \in Seq(Row) /\ AllEnded(rows)
        /\ alerts \in Seq(AlertsSent) /\ at \in Nat /\ DOMAIN stanzas \subseteq Nat
    <2>1. DOMAIN stanzas = 1 .. Len(stanzas) /\ Len(stanzas) \in Nat
      BY AnalysisAssumption DEF Alerts!AlertsAssumption, AlertInv, AlertType
    <2> QED BY <1>1, <2>1 DEF AlertInv, AlertType, RowsFollowAlerts
  <1>3. a \in AlertsSent
    BY <1>2, QueueTaken
  <1>4. PICK f \in [0 .. Len(alerts) -> Stages] :
           IsCourse(f, alerts, NotedOnes, RowStage, LastStage)
    BY <1>1 DEF AlertInv, RowsFollowAlerts
  <1>5. PICK i \in DOMAIN stanzas :
             /\ \A j \in DOMAIN stanzas : Alerts!Notes(stanzas[j], a) <=> j = i
             /\ stanzas[i].by = IF a.state = "unmet" THEN "end"
                                ELSE IF a.last = "met" THEN "continual" ELSE "new"
    BY <1>1, <1>3, StanzaOfAlert
  <1>6. NotedOnes = (IF i < at THEN 1 ELSE 0) /\ NotedOnes' = (IF i < at + 1 THEN 1 ELSE 0)
    <2>1. NotedOnes = IF i < at THEN 1 ELSE 0
      BY <1>5, NotedPast
    <2>2. NotedOnes' = IF i < at + 1 THEN 1 ELSE 0
      BY <1>5 DEF NotedOnes, Alerts!Notes, Alerts!Matches, Alerts!Applies
    <2> QED BY <2>1, <2>2
  <1>7. LastStage' = LastStage /\ Len(alerts') = Len(alerts)
    BY DEF LastStage
  <1> HIDE DEF a
  <1>8. CASE i # at
    <2>1. NotedOnes' = NotedOnes
      BY <1>2, <1>6, <1>8
    <2>2. rows' = rows
      BY <1>5, <1>8 DEF a
    <2>3. RowStage' = RowStage
      BY <2>2 DEF RowStage
    <2>4. IsCourse(f, alerts', NotedOnes', RowStage', LastStage')
      BY <1>4, <1>7, <2>1, <2>3
    <2> QED BY <1>2, <1>4, <2>2, <2>4 DEF RowsFollowAlerts
  <1>9. CASE i = at
    <2> DEFINE noted == [count |-> RowStage.count + Begins(a), open |-> IsMet(a.state)]
    <2>1. NotedOnes = 0 /\ NotedOnes' = 1
      BY <1>2, <1>6, <1>9
    <2>2. RowStage.open = IsMet(a.last) /\ IsCourse(f, alerts, 1, noted, LastStage)
      BY Zenon, <1>2, <1>4, <2>1, CourseNoted DEF a
    <2>3. rows' = Alerts!Stored(s.by)
      BY <1>5, <1>9 DEF a
    <2>4. /\ a.state \in {"met", "unmet"} /\ (a.state = "met" \/ a.last = "met")
          /\ s.by = IF a.state = "unmet" THEN "end"
                    ELSE IF a.last = "met" THEN "continual" ELSE "new"
      BY <1>3, <1>5, <1>9 DEF AlertsSent
    <2>5. Open(rows) = IsMet(a.last) /\ Len(rows) \in Nat
      BY <1>2, <2>2, QueueMembers DEF RowStage
    <2>6. rows' \in Seq(Row) /\ AllEnded(rows') /\ RowStage' = noted
      <3>1. CASE a.last # "met"
        <4>1. s.by = "new" /\ a.state = "met" /\ Open(rows) = 0
          BY <2>4, <2>5, <3>1 DEF IsMet
        <4>2. rows' = Append(rows, <<"new">>)
          BY <2>3, <4>1 DEF Alerts!Stored
        <4>3. /\ rows' \in Seq(Row) /\ AllEnded(rows') /\ Len(rows') = Len(rows) + 1
              /\ Open(rows') = 1
          BY Zenon, <1>2, <4>1, <4>2, RowBegins
        <4>4. RowStage' = [count |-> Len(rows) + 1, open |-> 1]
          BY <4>3 DEF RowStage
        <4> QED BY <3>1, <4>1, <4>3, <4>4 DEF RowStage, Begins, IsMet
      <3>2. CASE a.last = "met"
        <4>1. s.by \in {"continual", "end"} /\ s.by # "new" /\ Open(rows) = 1
              /\ (s.by = "end" <=> a.state = "unmet")
          BY <2>4, <2>5, <3>2 DEF IsMet
        <4>2. rows # <<>>
          BY <4>1 DEF Open
        <4>3. rows' = [rows EXCEPT ![Len(rows)] = Append(@, s.by)]
          BY <2>3, <4>1, <4>2 DEF Alerts!Stored
        <4> HIDE DEF s
        <4>4. /\ rows' \in Seq(Row) /\ AllEnded(rows') /\ Len(rows') = Len(rows)
              /\ Open(rows') = IF s.by = "end" THEN 0 ELSE 1
          BY Zenon, <1>2, <4>1, <4>3, RowGoesOn
        <4>5. Open(rows') = IsMet(a.state)
          BY <2>4, <4>1, <4>4 DEF IsMet
        <4>6. RowStage' = [count |-> Len(rows), open |-> IsMet(a.state)]
          BY <4>4, <4>5 DEF RowStage
        <4> QED BY <2>5, <3>2, <4>4, <4>6 DEF RowStage, Begins
      <3> QED BY <3>1, <3>2
    <2>7. IsCourse(f, alerts', NotedOnes', RowStage', LastStage')
      BY <1>7, <2>1, <2>2, <2>6
    <2> QED BY <1>4, <2>6, <2>7 DEF RowsFollowAlerts
  <1> QED BY <1>8, <1>9

\* The manager begins with another alert, or with the same again after a crash.
LEMMA DoneTyped ==
    ASSUME AlertType, alerts # <<>>, Alerts!TaskDone, manager = "idle",
           UNCHANGED <<stanzas, key, work, manager, cached, clock, faults, rows, mailed, early,
                       last, outages>>
    PROVE  AlertType'
  <1>1. alerts' \in Seq(AlertsSent) /\ at' = 1
    BY QueueTaken DEF AlertType, Alerts!TaskDone
  <1> QED BY <1>1 DEF AlertType, Alerts!Idle

\* A stanza notes the alert, sends mail, does not apply, or fails.
LEMMA AlertStanza ==
    ASSUME AlertInv, Alerts!Stanza
    PROVE  AlertInv'
  <1> DEFINE s == stanzas[at]
             active == Alerts!Matches(s) /\ Alerts!Applies(s, Head(alerts))
  <1>1. /\ manager = "idle" /\ alerts # <<>> /\ at <= Len(stanzas)
        /\ UNCHANGED <<stanzas, key, work, cached, clock, faults, watched, last, outages,
                       disturbed>>
    BY DEF Alerts!Stanza, Alerts!redis, Alerts!history
  <1>2. \/ /\ Alerts!Raises(s) /\ Alerts!TaskDone
           /\ UNCHANGED <<rows, mailed, early, manager>>
        \/ /\ active /\ s.by # "mail"
           /\ rows' = Alerts!Stored(s.by) /\ at' = at + 1
           /\ UNCHANGED <<alerts, mailed, early, manager>>
        \/ /\ s.by = "mail" /\ ~Alerts!Tempered
           /\ mailed' = clock
           /\ early' = early + IF mailed # None /\ mailed + Limit > clock THEN 1 ELSE 0
           /\ manager' = "mailed"
           /\ UNCHANGED <<alerts, rows, at>>
        \/ /\ ~(active /\ s.by # "mail")
           /\ at' = at + 1
           /\ UNCHANGED <<alerts, rows, mailed, early, manager>>
    BY DEF Alerts!Stanza
  <1>3. /\ AlertType /\ MailsCounted /\ at \in DOMAIN stanzas
        /\ Limit \in Nat /\ None \notin Int
    <2>1. DOMAIN stanzas = 1 .. Len(stanzas) /\ Len(stanzas) \in Nat /\ at \in Nat \ {0}
          /\ AlertType
      BY AnalysisAssumption DEF Alerts!AlertsAssumption, AlertInv, AlertType
    <2> QED BY <1>1, <2>1, AnalysisAssumption DEF Alerts!AlertsAssumption, AlertInv
  <1>4. ReadStillTrue'
    BY <1>1 DEF AlertInv, ReadStillTrue
  <1>5. Alerts!Notes(s, Head(alerts)) <=> active /\ s.by # "mail"
    BY DEF Alerts!Notes
  <1> HIDE DEF s, active
  <1>6. CASE Alerts!Raises(s) /\ Alerts!TaskDone /\ UNCHANGED <<rows, mailed, early, manager>>
    <2>1. AlertType'
      BY <1>1, <1>3, <1>6, DoneTyped
    <2>2. MailsCounted'
      BY <1>1, <1>3, <1>6 DEF MailsCounted, MayBeEarly
    <2>3. ~Alerts!Noting'
      <3>1. Alerts!Raises(stanzas[at])
        BY <1>6 DEF s
      <3>2. ~\A i \in DOMAIN stanzas : ~Alerts!Raises(stanzas[i])
        BY <1>3, <3>1
      <3> QED BY <1>1, <3>2 DEF Alerts!Noting, Alerts!Raises
    <2> QED BY <1>4, <2>1, <2>2, <2>3 DEF AlertInv, RowsFollowAlerts
  <1>7. CASE /\ s.by = "mail" /\ ~Alerts!Tempered
             /\ mailed' = clock
             /\ early' = early + IF mailed # None /\ mailed + Limit > clock THEN 1 ELSE 0
             /\ manager' = "mailed"
             /\ UNCHANGED <<alerts, rows, at>>
    <2>1. /\ clock \in Nat /\ mailed \in Nat \cup {None} /\ early \in Nat /\ faults \in Nat
          /\ cached \in Nat \cup {None}
      BY <1>3 DEF AlertType
    <2>2. AlertType'
      BY <1>1, <1>3, <1>7, <2>1 DEF AlertType, Alerts!Idle, s
    <2>3. MailsCounted'
      <3>1. mailed # None /\ mailed + Limit > clock => MayBeEarly
        BY <1>1, <1>7 DEF MayBeEarly, Alerts!Tempered
      <3>2. ~MayBeEarly'
        BY <1>7 DEF MayBeEarly
      <3> QED BY <1>1, <1>3, <1>7, <2>1, <3>1, <3>2 DEF MailsCounted
    <2>4. RowsFollowAlerts'
      BY <1>1, <1>7, RowsLeft DEF AlertInv
    <2> QED BY <1>4, <2>2, <2>3, <2>4 DEF AlertInv
  <1>8. CASE /\ at' = at + 1 /\ UNCHANGED <<alerts, mailed, early, manager>>
             /\ rows' = IF active /\ s.by # "mail" THEN Alerts!Stored(s.by) ELSE rows
    <2>1. AlertType'
      BY <1>1, <1>3, <1>8 DEF AlertType, Alerts!Idle
    <2>2. MailsCounted'
      BY <1>1, <1>3, <1>8 DEF MailsCounted, MayBeEarly
    <2>3. RowsFollowAlerts'
      BY <1>1, <1>3, <1>5, <1>8, NextStanza DEF s
    <2> QED BY <1>4, <2>1, <2>2, <2>3 DEF AlertInv
  <1> QED BY <1>2, <1>6, <1>7, <1>8

\* The time of the mail is cached.
LEMMA AlertCache ==
    ASSUME AlertInv, Alerts!Cache
    PROVE  AlertInv'
  <1>1. /\ manager = "mailed" /\ manager' = "idle" /\ cached' = mailed /\ at' = at + 1
        /\ UNCHANGED <<stanzas, key, work, alerts, rows, mailed, early, clock, faults,
                       watched, last, outages, disturbed>>
    BY DEF Alerts!Cache, Alerts!redis, Alerts!history
  <1>2. alerts # <<>> /\ at \in DOMAIN stanzas /\ stanzas[at].by = "mail"
    BY <1>1 DEF AlertInv, AlertType
  <1>3. AlertType'
    BY <1>1, <1>2 DEF AlertInv, AlertType, Alerts!Idle
  <1>4. MailsCounted'
    <2>1. ~MayBeEarly'
      BY <1>1 DEF MayBeEarly
    <2> QED BY <1>1, <2>1 DEF AlertInv, AlertType, MailsCounted
  <1>5. ReadStillTrue'
    BY <1>1 DEF AlertInv, ReadStillTrue
  <1>6. RowsFollowAlerts'
    <2>1. ~Alerts!Notes(stanzas[at], Head(alerts))
      BY <1>2 DEF Alerts!Notes
    <2> QED BY <1>1, <1>2, <2>1, NextStanza
  <1> QED BY <1>3, <1>4, <1>5, <1>6 DEF AlertInv

\* All stanzas are done: as alerts should be, one of them has noted this one.
LEMMA AlertDone ==
    ASSUME AlertInv, Alerts!Done
    PROVE  AlertInv'
  <1>1. /\ manager = "idle" /\ alerts # <<>> /\ (Alerts!Ignored \/ at > Len(stanzas))
        /\ Alerts!TaskDone
        /\ UNCHANGED <<stanzas, key, work, manager, cached, rows, mailed, early, clock, faults,
                       watched, last, outages, disturbed>>
    BY DEF Alerts!Done, Alerts!redis, Alerts!history
  <1>2. AlertType'
    BY <1>1, DoneTyped DEF AlertInv
  <1>3. MailsCounted'
    BY <1>1 DEF AlertInv, MailsCounted, MayBeEarly
  <1>4. ReadStillTrue'
    BY <1>1 DEF AlertInv, ReadStillTrue
  <1>5. RowsFollowAlerts'
    <2> SUFFICES ASSUME Alerts!Noting', ~disturbed' PROVE RowsFollowAlerts'
      BY DEF RowsFollowAlerts
    <2>1. Alerts!Noting /\ ~disturbed
      BY <1>1 DEF Alerts!Noting, Alerts!Notes
    <2>2. /\ alerts \in Seq(AlertsSent) /\ at \in Nat
          /\ DOMAIN stanzas = 1 .. Len(stanzas) /\ Len(stanzas) \in Nat
      BY AnalysisAssumption DEF Alerts!AlertsAssumption, AlertInv, AlertType
    <2>3. PICK i \in DOMAIN stanzas :
             \A j \in DOMAIN stanzas : Alerts!Notes(stanzas[j], Head(alerts)) <=> j = i
      BY Zenon, <1>1, <2>1, <2>2, QueueTaken, StanzaOfAlert
    <2>4. ~Alerts!Ignored
      BY <2>1 DEF Alerts!Noting
    <2>5. NotedOnes = 1
      BY <1>1, <2>2, <2>3, <2>4, NotedPast
    <2>6. alerts' = Tail(alerts) /\ at' = 1 /\ NotedOnes' = 0
      <3>1. at' = 1 /\ alerts' = Tail(alerts)
        BY <1>1 DEF Alerts!TaskDone
      <3>2. \A j \in DOMAIN stanzas' : ~(j < at')
        BY <1>1, <2>2, <3>1
      <3> QED BY <3>1, <3>2 DEF NotedOnes
    <2>7. RowStage' = RowStage /\ LastStage' = LastStage
      BY <1>1 DEF RowStage, LastStage
    <2>8. PICK f \in [0 .. Len(alerts) -> Stages] :
             IsCourse(f, alerts, 1, RowStage, LastStage)
      BY <2>1, <2>5 DEF AlertInv, RowsFollowAlerts
    <2>9. \E g \in [0 .. Len(Tail(alerts)) -> Stages] :
             IsCourse(g, Tail(alerts), 0, RowStage, LastStage)
      BY <1>1, <2>2, <2>8, CourseShorter
    <2>10. rows' \in Seq(Row) /\ AllEnded(rows')
      BY <1>1, <2>1 DEF AlertInv, RowsFollowAlerts
    <2> QED BY <2>6, <2>7, <2>9, <2>10 DEF RowsFollowAlerts
  <1> QED BY <1>2, <1>3, <1>4, <1>5 DEF AlertInv

\* The manager stops: a mail whose time is not kept may be followed by an early one.
LEMMA AlertCrash ==
    ASSUME AlertInv, Alerts!Crash
    PROVE  AlertInv'
  <1>1. /\ alerts # <<>> /\ faults' = faults + 1 /\ manager' = "idle" /\ at' = 1 /\ disturbed'
        /\ UNCHANGED <<stanzas, key, work, alerts, cached, rows, mailed, early, clock,
                       watched, last, outages>>
    BY DEF Alerts!Crash, Alerts!redis, Alerts!history
  <1>2. AlertType'
    BY <1>1 DEF AlertInv, AlertType, Alerts!Idle
  <1>3. MailsCounted'
    <2>1. early \in Nat /\ faults \in Nat /\ early <= faults
      BY DEF AlertInv, AlertType, MailsCounted
    <2> QED BY <1>1, <2>1 DEF MailsCounted
  <1>4. ReadStillTrue' /\ RowsFollowAlerts'
    BY <1>1 DEF ReadStillTrue, RowsFollowAlerts
  <1> QED BY <1>2, <1>3, <1>4 DEF AlertInv

\* Every step of the workers and of the manager.
LEMMA AlertStep == AlertInv /\ [Alerts!Next]_(Alerts!vars) => AlertInv'
  <1> SUFFICES ASSUME AlertInv, [Alerts!Next]_(Alerts!vars) PROVE AlertInv'
    OBVIOUS
  <1>1. CASE UNCHANGED Alerts!vars
    <2>1. UNCHANGED <<stanzas, key, work, alerts, manager, at, cached, rows, mailed, early, clock,
                      faults, watched, last, outages, disturbed>>
      BY <1>1 DEF Alerts!vars, Alerts!redis, Alerts!alerting, Alerts!history
    <2>2. AlertType' /\ MailsCounted' /\ ReadStillTrue'
      BY <2>1 DEF AlertInv, AlertType, Alerts!Idle, MailsCounted, MayBeEarly, ReadStillTrue
    <2>3. RowsFollowAlerts'
      BY <2>1, RowsLeft DEF AlertInv
    <2> QED BY <2>2, <2>3 DEF AlertInv
  <1>2. ASSUME NEW w \in Workers, NEW matches \in BOOLEAN, Alerts!What(w, matches)
        PROVE  AlertInv'
    BY <1>2, AlertWhat
  <1>3. ASSUME NEW w \in Workers, NEW v \in Values \cup {None}, Alerts!Get(w, v)
        PROVE  AlertInv'
    BY <1>3, AlertGet
  <1>4. ASSUME NEW w \in Workers, Alerts!Exists(w) \/ Alerts!Set(w)
        PROVE  AlertInv'
    BY <1>4, AlertExists, AlertSet
  <1>5. CASE Alerts!Forget \/ Alerts!Stanza \/ Alerts!Cache \/ Alerts!Done
    BY <1>5, AlertForget, AlertStanza, AlertCache, AlertDone
  <1>6. CASE Alerts!Crash \/ Alerts!Tick
    BY <1>6, AlertCrash, AlertTick
  <1> QED BY <1>1, <1>2, <1>3, <1>4, <1>5, <1>6 DEF Alerts!Next

\* When nothing waits, the course has no step left: the rows are where the outages are.
LEMMA OutagesThenTold == AlertInv => Alerts!OutagesTold
  <1> SUFFICES ASSUME AlertInv, Alerts!Quiet, Alerts!Noting, ~disturbed
               PROVE  /\ Len(rows) = outages
                      /\ \A i \in DOMAIN rows :
                            (LastOf(rows[i]) = "end") <=> (i < Len(rows) \/ last # "met")
    BY DEF Alerts!OutagesTold, LastOf
  <1>1. alerts = <<>> /\ Len(alerts) = 0 /\ NotedOnes = 0
    BY DEF Alerts!Quiet, NotedOnes
  <1>2. PICK f \in [0 .. Len(alerts) -> Stages] :
           IsCourse(f, alerts, NotedOnes, RowStage, LastStage)
    BY DEF AlertInv, RowsFollowAlerts
  <1>3. RowStage = LastStage
    BY <1>1, <1>2 DEF IsCourse
  <1>4. Len(rows) = outages /\ Open(rows) = IsMet(last)
    BY <1>3 DEF RowStage, LastStage
  <1>5. ASSUME NEW i \in DOMAIN rows
        PROVE  (LastOf(rows[i]) = "end") <=> (i < Len(rows) \/ last # "met")
    <2>1. rows \in Seq(Row) /\ AllEnded(rows)
      BY DEF AlertInv, RowsFollowAlerts
    <2>2. /\ Len(rows) \in Nat /\ i \in Nat /\ i <= Len(rows) /\ rows # <<>>
          /\ i < Len(rows) => LastOf(rows[i]) = "end"
      BY <1>5, <2>1, QueueMembers DEF AllEnded
    <2>3. (LastOf(rows[Len(rows)]) = "end") <=> last # "met"
      BY <1>4, <2>2 DEF Open, IsMet, LastOf
    <2>4. i < Len(rows) \/ i = Len(rows)
      BY <2>2
    <2> QED BY <2>2, <2>3, <2>4
  <1> QED BY <1>4, <1>5

\* With any directive and stanzas, any number of workers and any limit: when nothing waits, the
\* database tells the outages of the thing, a row for each, all but the one that goes on with
\* an end; mail is sent within the limit of another only after a crash; and a thing that
\* does not match raises no alert (process_what and process_when, and the alert manager).
THEOREM AlertsAlwaysTrue == Alerts!Spec => AlertsTrue
  <1>1. AlertInv => Alerts!MailsApart
    BY DEF AlertInv, AlertType, MailsCounted, Alerts!MailsApart
  <1>2. AlertInv => Alerts!SetWhileWatched
    BY DEF AlertInv, ReadStillTrue, Alerts!SetWhileWatched
  <1> QED BY <1>1, <1>2, AlertsBegin, AlertStep, OutagesThenTold, PTL
          DEF AlertsTrue, Alerts!Spec, Alerts!WatchedOnly

-----------------------------------------------------------------------------
(* Subnets: the schedule of the scanner *)

\* The property, and the types it needs: what is on the schedule was in the queue.
ScanInv ==
    /\ Scanner!ScanAssumption
    /\ waiting \in Seq(Seq(Subnets))
    /\ heap \in [Subnets -> Nat]
    /\ nodes \subseteq Subnets
    /\ Scanner!ScheduledOnce

LEMMA ScanBegins == Scanner!Init => ScanInv
  BY AnalysisAssumption DEF Scanner!Init, ScanInv, Scanner!ScheduledOnce

\* A set of natural numbers has a first one.
LEMMA FirstIsOne ==
    ASSUME NEW S \in SUBSET Nat, S # {}
    PROVE  (CHOOSE i \in S : \A j \in S : i <= j) \in S
  <1>1. PICK d \in S : \A j \in S : <<j, d>> \notin OpToRel(<, Nat)
    BY NatLessThanWellFounded, WFMin
  <1>2. \A j \in S : ~(j < d)
    BY <1>1 DEF OpToRel
  <1>3. \A j \in S : d <= j
    BY <1>2
  <1> QED BY <1>3

\* The rest of a sequence of reports is one.
LEMMA RestOfReports ==
    ASSUME NEW q \in Seq(Seq(Subnets)), NEW k \in 0 .. Len(q)
    PROVE  SubSeq(q, k + 1, Len(q)) \in Seq(Seq(Subnets))
  OBVIOUS

\* The supervisor goes through its queue: what it puts on the schedule is new.
LEMMA ScanProcess == ScanInv /\ Scanner!ProcessWorkQueue => ScanInv'
  <1> SUFFICES ASSUME ScanInv, Scanner!ProcessWorkQueue PROVE ScanInv'
    OBVIOUS
  <1> USE DEF ScanInv
  <1> DEFINE n == IF Len(waiting) < Prefetch THEN Len(waiting) ELSE Prefetch
             fresh == {j \in 1 .. n : Scanner!NewRows(waiting[j]) # {}}
             first(S) == CHOOSE i \in S : \A j \in S : i <= j
             j == first(fresh)
             i == first(Scanner!NewRows(waiting[j]))
             s == waiting[j][i]
  <1>1. n \in Nat /\ n <= Len(waiting)
    BY DEF Scanner!ScanAssumption
  <1>2. CASE fresh = {}
    <2>1. waiting' = SubSeq(waiting, n + 1, Len(waiting)) /\ UNCHANGED <<nodes, heap>>
      BY <1>2 DEF Scanner!ProcessWorkQueue
    <2>2. waiting' \in Seq(Seq(Subnets))
      BY <1>1, <2>1, RestOfReports
    <2> QED BY <2>1, <2>2 DEF Scanner!ScheduledOnce
  <1>3. CASE fresh # {}
    <2>1. /\ nodes' = nodes \cup {s} /\ heap' = Scanner!Added(s)
          /\ \E k \in j .. n : waiting' = SubSeq(waiting, k + 1, Len(waiting))
      BY <1>3 DEF Scanner!ProcessWorkQueue
    <2>2. j \in fresh
      <3>1. fresh \in SUBSET Nat
        BY <1>1
      <3> HIDE DEF fresh
      <3> QED BY <1>3, <3>1, FirstIsOne
    <2>3. j \in 1 .. n /\ Scanner!NewRows(waiting[j]) # {} /\ waiting[j] \in Seq(Subnets)
      <3> HIDE DEF j, n
      <3> QED BY <1>1, <2>2
    <2>4. i \in Scanner!NewRows(waiting[j])
      <3> HIDE DEF j
      <3>1. Scanner!NewRows(waiting[j]) \in SUBSET Nat
        BY <2>3 DEF Scanner!NewRows
      <3> QED BY <2>3, <3>1, FirstIsOne
    <2> HIDE DEF i, j, n, fresh
    <2>5. s \in Local \ nodes
      BY <2>4 DEF Scanner!NewRows, Scanner!IsNew
    <2>6. s \in Subnets
      BY <2>5 DEF Scanner!ScanAssumption
    <2> HIDE DEF s
    <2>7. heap[s] = 0
      BY <2>5, <2>6 DEF Scanner!ScheduledOnce
    <2>8. /\ heap' \in [Subnets -> Nat] /\ heap'[s] = 1
          /\ \A r \in Subnets \ {s} : heap'[r] = heap[r]
      BY <2>1, <2>6, <2>7 DEF Scanner!Added
    <2>9. Scanner!ScheduledOnce'
      BY <2>1, <2>6, <2>8 DEF Scanner!ScheduledOnce
    <2>10. waiting' \in Seq(Seq(Subnets))
      <3>1. PICK k \in j .. n : waiting' = SubSeq(waiting, k + 1, Len(waiting))
        BY <2>1
      <3>2. k \in 0 .. Len(waiting)
        BY <1>1, <2>3
      <3> QED BY <3>1, <3>2, RestOfReports
    <2> QED BY <2>1, <2>6, <2>8, <2>9, <2>10
  <1> QED BY <1>2, <1>3

\* Every step keeps the invariant.
LEMMA ScanStep == ScanInv /\ [Scanner!Next]_(Scanner!vars) => ScanInv'
  <1> SUFFICES ASSUME ScanInv, [Scanner!Next]_(Scanner!vars) PROVE ScanInv'
    OBVIOUS
  <1> USE DEF ScanInv, Scanner!ScheduledOnce
  <1>1. CASE Scanner!Restart
    BY <1>1 DEF Scanner!Restart
  <1>2. CASE Scanner!Scan \/ Scanner!Tick
    BY <1>2 DEF Scanner!Scan, Scanner!Tick
  <1>3. ASSUME NEW r \in DOMAIN ScanReports, Scanner!Report(r) PROVE ScanInv'
    <2>1. ScanReports[r] \in Seq(Subnets)
      BY DEF Scanner!ScanAssumption
    <2> QED BY <1>3, <2>1 DEF Scanner!Report
  <1>4. ASSUME NEW s \in Subnets, Scanner!Publish(s) PROVE ScanInv'
    BY <1>4 DEF Scanner!Publish
  <1>5. CASE UNCHANGED Scanner!vars
    BY <1>5 DEF Scanner!vars
  <1> QED BY <1>1, <1>2, <1>3, <1>4, <1>5, ScanProcess DEF Scanner!Next

\* However often and by however many routers a subnet is reported, and whenever
\* the supervisor is started anew, it has one test on the schedule of the scanner
\* (Supervisor.process_work_queue of the watcher), with any number of prefetched messages.
THEOREM AlwaysScheduledOnce == Scanner!Spec => []Scanner!ScheduledOnce
  <1>1. ScanInv => Scanner!ScheduledOnce
    BY DEF ScanInv
  <1> QED BY <1>1, ScanBegins, ScanStep, PTL DEF Scanner!Spec

==============================================================================
