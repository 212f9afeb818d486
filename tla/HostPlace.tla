------------------------------ MODULE HostPlace ------------------------------
(***************************************************************************)
(* Where a host is: what the host watcher tells the store of a report on a *)
(* mac or ip address.  The report names the port of the device that has    *)
(* learned the address; if that port leads to another device (the layer 1  *)
(* cache knows), if it is virtual, or if the address was found by arp, the *)
(* host is not there, and the message must only say that it was seen, for  *)
(* the store merges the messages on a host.                                *)
(***************************************************************************)
EXTENDS FiniteSets, TLC

CONSTANTS
    Bulks,      \* the sets of reports that come in one message: [mac, ip, device, port];
                \* device and ip may be None
    Ports,      \* port -> [of, kind, vlan]: the port it is part of, itself if none;
                \* "port", "VL" or "PO"; the number at the end of a subinterface's name or None
    Links,      \* the pairs <<device, port>> that may lead to another device
    Lower,      \* device -> its name in lower case
    None

VARIABLES cache,    \* the links that the layer 1 cache holds
          bulk,     \* the reports in hand
          uplinks,  \* what the lookup found
          step,     \* "idle", "asking", "looked up", "unanswered", "told" or "guessed"
          sent,     \* what was told about the bulk
          known     \* (history) the links since the lookup

pvars == <<cache, bulk, uplinks, step, sent, known>>

\* determine_physical_interface: it refers to a name that is not defined, and the error
\* is caught: what is asked for comes back.
PhysicalInterface(p) == p

\* save: the ports to look up, by the device's name in lower case.
KeysOf(rs) ==
    {<<Lower[r.device], PhysicalInterface(r.port)>> :
        r \in {x \in rs : x.device # None /\ x.port # None}}

\* The vlan is that of the report's port, if its name ends with a number.
VlanOf(r) == IF r.port = None THEN None ELSE Ports[r.port].vlan

\* Mutated: what the lookup found makes no difference.
ConnectedAnywhere(r, found) ==
    /\ r.ip = None
    /\ r.port # None => Ports[r.port].kind = "port"
    /\ r.device # None => r.port # None

\* A host may be at the port, and not behind it.
DirectlyConnected(r, found) ==
    /\ r.ip = None
    /\ r.port # None => Ports[r.port].kind = "port"
    /\ r.device # None => r.port # None /\ <<r.device, PhysicalInterface(r.port)>> \notin found

\* format_message: what is merged with what is stored of the address.
Message(r, found) ==
    LET there == DirectlyConnected(r, found)
    IN  [mac |-> r.mac, vlan |-> VlanOf(r), ip |-> r.ip,
         device |-> IF there THEN r.device ELSE None, port |-> IF there THEN r.port ELSE None]

Take(rs) ==
    /\ step = "idle"
    /\ bulk' = rs /\ step' = "asking"
    /\ UNCHANGED <<cache, uplinks, sent, known>>

\* post_bulk_process asks for all ports at once; if redis does not answer, none of them
\* leads anywhere.
LookUp ==
    /\ step = "asking"
    /\ \/ uplinks' = cache \cap KeysOf(bulk) /\ step' = "looked up"
       \/ uplinks' = {} /\ step' = "unanswered"
    /\ known' = cache
    /\ UNCHANGED <<cache, bulk, sent>>

\* One message for each different thing to say.
Tell ==
    /\ step \in {"looked up", "unanswered"}
    /\ sent' = {Message(r, uplinks) : r \in bulk}
    /\ step' = IF step = "looked up" THEN "told" ELSE "guessed"
    /\ UNCHANGED <<cache, bulk, uplinks, known>>

\* The bulk is done with.
Done ==
    /\ step \in {"told", "guessed"}
    /\ step' = "idle" /\ bulk' = {} /\ uplinks' = {} /\ sent' = {} /\ known' = {}
    /\ UNCHANGED cache

\* The layer 1 cache learns a link, or forgets one.
Relink ==
    /\ \E l \in Links : cache' = IF l \in cache THEN cache \ {l} ELSE cache \cup {l}
    /\ known' = known \cap cache'
    /\ UNCHANGED <<bulk, uplinks, step, sent>>

PlaceInit == cache = {} /\ bulk = {} /\ uplinks = {} /\ step = "idle" /\ sent = {}
             /\ known = {}

PlaceNext == (\E rs \in Bulks : Take(rs)) \/ LookUp \/ Tell \/ Done \/ Relink

PlaceSpec == PlaceInit /\ [][PlaceNext]_pvars

-----------------------------------------------------------------------------
(* Properties *)

\* A report whose device is written in lower case, of a port that is no part of another.
Plain(r) ==
    r.device # None =>
        Lower[r.device] = r.device /\ (r.port # None => Ports[r.port].of = r.port)

\* Where a message places the host.
At(m) == IF m.device = None \/ m.port = None THEN {} ELSE {<<m.device, Ports[m.port].of>>}

\* When the cache answers, no host of a plain report is placed at a link that the cache
\* held since the lookup; and never is one placed by what arp says, at a virtual port, or
\* by a device without a port.
NotAtUplinks ==
    /\ \A m \in sent : m.device # None =>
          m.ip = None /\ m.port # None /\ Ports[m.port].kind = "port"
    /\ step = "told" /\ (\A r \in bulk : Plain(r)) => \A m \in sent : At(m) \cap known = {}

=============================================================================
