---------------------------- MODULE StoreContract ----------------------------
(***************************************************************************)
(* What the storage daemon promises of the table of a group of a spec,     *)
(* whatever its feeders do at the same time: every row says when something *)
(* that was reported of its context was reported, and holds only values    *)
(* reported of it; the history is only added to; rows go away only where   *)
(* there was more than one of a context, and ids are never used again.     *)
(***************************************************************************)
EXTENDS Integers

CONSTANT Contexts

VARIABLES
    reports,    \* what was reported: [ctx, time, data]
    rows,       \* the table: [id, ctx, created, updated, data]
    history,    \* its archive: [id, created, updated]
    born        \* ctx -> the ids its rows ever had

vars == <<reports, rows, history, born>>

Report == reports \subseteq reports' /\ UNCHANGED <<rows, history, born>>

Of(r, p) == p.ctx = r.ctx /\ p.time = r.updated

\* A row that was there keeps its context, and all its values were reported of it.
Stamped(q, r) ==
    /\ r.ctx = q.ctx
    /\ \E p \in reports : Of(r, p)
    /\ r.created = q.created \/ \E p \in reports : p.ctx = r.ctx /\ p.time = r.created
    /\ \A k \in DOMAIN r.data :
          \E p \in reports : p.ctx = r.ctx /\ k \in DOMAIN p.data /\ p.data[k] = r.data[k]

\* A row that is new holds a report (and, if it was written to again by the same
\* transaction, what else was reported of its context).
Begun(r) == Stamped([r EXCEPT !.created = r.updated], r)

\* A transaction of a feeder.
Transaction ==
    /\ \A r \in rows' \ rows :
          \/ r.id \notin UNION {born[c] : c \in Contexts} /\ Begun(r)
          \/ \E q \in rows : q.id = r.id /\ Stamped(q, r)
    /\ \A q \in rows : q.id \notin {r.id : r \in rows'} => \E id \in born[q.ctx] : id # q.id
    /\ \A r, s \in rows' : r.id = s.id => r = s
    /\ history \subseteq history'
    /\ born' = [c \in Contexts |-> born[c] \cup {r.id : r \in {x \in rows' : x.ctx = c}}]
    /\ UNCHANGED reports

Init == reports = {} /\ rows = {} /\ history = {} /\ born = [c \in Contexts |-> {}]

Next == Report \/ Transaction

Spec == Init /\ [][Next]_vars
=============================================================================
