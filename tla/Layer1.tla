------------------------------- MODULE Layer1 -------------------------------
(***************************************************************************)
(* Links (lib/ptolemy/analyse/layer1.py).                                  *)
(*                                                                         *)
(* The workers keep in redis, for a while, the peer of each port that has  *)
(* another switch for a neighbour, and that of the channel a port with a   *)
(* peer is a member of.  What a report changes is executed at once, at its *)
(* end; the port of a member is looked up before.                          *)
(***************************************************************************)
EXTENDS Integers, Functions

CONSTANTS
    Workers, Links, \* the ports
    Channels,
    MemberOf,       \* port -> channel
    Peers,          \* the names of other switches, as they are reported
    FullName,       \* name -> the name in small letters and with a domain
    Expiration,     \* of a link
    None,
    MaxTime         \* bound: the time

Layer1Assumption ==
    /\ MemberOf \in [Links -> Channels] /\ DOMAIN FullName = Peers
    /\ Links \cap Channels = {} /\ None \notin Int
    /\ Expiration \in Nat \ {0} /\ MaxTime \in Nat

VARIABLES
    time,
    cache,          \* in redis: port or channel -> [peer, until]
    pipes,          \* worker -> what it has yet to execute: [key, peer]
    linked          \* port -> peer -> when it was last reported (history)

linkVars == <<time, cache, pipes, linked>>

\* Links expire.  A report is dealt with in less than a unit of time.
Passes ==
    /\ time < MaxTime /\ \A w \in Workers : pipes[w] = None
    /\ time' = time + 1
    /\ cache' = [k \in DOMAIN cache |->
          IF cache[k] # None /\ cache[k].until <= time + 1 THEN None ELSE cache[k]]
    /\ UNCHANGED <<pipes, linked>>

\* save: a neighbour that is not a telephone.  The name gets small letters and a
\* domain.
Neighbour(w, p, n) ==
    /\ pipes[w] = None
    /\ pipes' = [pipes EXCEPT ![w] = [key |-> p, peer |-> FullName[n]]]
    /\ linked' = [linked EXCEPT ![p][FullName[n]] = time]
    /\ UNCHANGED <<time, cache>>

\* save: a member of a channel.  The pipe gets the channel if the port has a peer.
Member(w, p) ==
    /\ pipes[w] = None /\ cache[p] # None
    /\ pipes' = [pipes EXCEPT ![w] = [key |-> MemberOf[p], peer |-> cache[p].peer]]
    /\ UNCHANGED <<time, cache, linked>>

\* Mutated: a link is set and does not expire.
Never == MaxTime + 1

\* setex
Expires == time + Expiration

\* post_bulk_process
Execute(w) ==
    /\ pipes[w] # None /\ pipes' = [pipes EXCEPT ![w] = None]
    /\ cache' = [cache EXCEPT ![pipes[w].key] = [peer |-> pipes[w].peer, until |-> Expires]]
    /\ UNCHANGED <<time, linked>>

LinkInit ==
    /\ time = 0 /\ cache = [k \in Links \cup Channels |-> None]
    /\ pipes = [w \in Workers |-> None] /\ linked = [p \in Links |-> [n \in Range(FullName) |-> None]]

LinkNext ==
    \/ Passes
    \/ \E w \in Workers :
          Execute(w) \/ \E p \in Links : Member(w, p) \/ \E n \in Peers : Neighbour(w, p, n)

LinkSpec == LinkInit /\ [][LinkNext]_linkVars

-----------------------------------------------------------------------------
(* Properties *)

\* Whatever the workers do in which order, the peer of a channel is one that was
\* reported for a member of it, not longer ago than a link and then a channel last.
ChannelFollows ==
    \A c \in Channels : cache[c] # None =>
        \E p \in Links : 
            /\ MemberOf[p] = c /\ linked[p][cache[c].peer] # None
            /\ time < linked[p][cache[c].peer] + 2 * Expiration
=============================================================================
