------------------------------- MODULE BulkWalk -------------------------------
(***************************************************************************)
(* The agents that talk to a device (lib/ptolemy/poller/agent.py) and the  *)
(* collection of what they yield (Gatherer.collect, workers.py).           *)
(*                                                                         *)
(* NetSNMP walks the column of every variable: it asks for the successors  *)
(* of an object identifier, a number of them at once, until the answer     *)
(* leaves the column.  NetConfig and CommandLine know their variables as   *)
(* a whole.  An identifier is a pair of a column and an instance; instance *)
(* 0 is the column's own identifier.                                       *)
(***************************************************************************)
EXTENDS Integers, Sequences, FiniteSets, Functions, SequencesExt

CONSTANTS
    Devices,        \* [agent, next, mute, value]: what can be at the other end
    Lists,          \* the lists of variables (columns) a driver asks for
    MaxRepeaters,   \* max_repeaters
    NoMoreMib,      \* the value EndOfMibView
    None

\* Columns are numbers, and so are instances; 0 is none of a table.
WalkAssumption ==
    /\ MaxRepeaters \in Nat \ {0} /\ None \notin Nat /\ Lists \subseteq Seq(Nat)
    /\ \A d \in Devices : /\ d.agent \in {"SNMP", "NetConfig", "CommandLine"}
                          /\ DOMAIN d.value \subseteq Nat \X (Nat \ {0})

VARIABLES
    device,
    wanted,         \* the variables asked for (history)
    todo,           \* variables not begun yet
    name,           \* the variable being walked, None between two of them
    oid,            \* this_oid: where to go on from
    thisF,          \* this_f: the column of the last identifier seen
    lastIid,        \* last_iid
    errored,
    out,            \* what is collected: column -> instance -> value
    open,           \* whether there is a session
    stage           \* "closed", "open", "ended" or "failed"

walk == <<name, oid, thisF, lastIid, errored>>
vars == <<device, wanted, todo, walk, out, open, stage>>

With(f, x, y) == [z \in DOMAIN f \cup {x} |-> IF z = x THEN y ELSE f[z]]
At(f, x, default) == IF x \in DOMAIN f THEN f[x] ELSE default

\* out[f][i] = v
Collected(columns, column, iid, v) ==
    With(columns, column, With(At(columns, column, <<>>), iid, v))

-----------------------------------------------------------------------------
(* The device *)

\* The identifier after another.  After the last one there is nothing to name: it is
\* named again, with the value EndOfMibView.
Named(o) ==
    IF o \in DOMAIN device.next
    THEN [oid |-> device.next[o], value |-> device.value[device.next[o]]]
    ELSE [oid |-> o, value |-> NoMoreMib]

\* The identifiers after o, n of them.
Successors(o, n) ==
    LET named[k \in 1 .. n] == Named(IF k = 1 THEN o ELSE named[k - 1].oid)
    IN  named

\* A device may answer with fewer identifiers than it was asked for; an answer
\* that reports an error names none.
Responses(o) ==
    IF o \in device.mute THEN {<<>>} ELSE {Successors(o, n) : n \in 1 .. MaxRepeaters}

-----------------------------------------------------------------------------
(* fetch *)

\* A session, or the connection, is opened for the list of variables.
Open ==
    /\ stage = "closed"
    /\ stage' = "open" /\ open' = TRUE
    /\ UNCHANGED <<device, wanted, todo, walk, out>>

\* An exception ends the collection; __exit__ closes the session.
Failed ==
    /\ stage' = "failed" /\ open' = FALSE
    /\ UNCHANGED <<device, wanted, todo, walk, out>>

\* The session cannot be opened, or an answer does not come in time: with the
\* agents of libraries anything that goes wrong is an exception.
Fails == stage \in {"closed", "open"} /\ Failed

\* Begin to walk the next variable.
Begin ==
    /\ stage = "open" /\ device.agent = "SNMP" /\ name = None /\ todo # <<>>
    /\ name' = Head(todo) /\ thisF' = Head(todo) /\ todo' = Tail(todo)
    /\ oid' = <<Head(todo), 0>> /\ lastIid' = None /\ errored' = FALSE
    /\ UNCHANGED <<device, wanted, out, open, stage>>

\* Mutated: every identifier of an answer is taken for one of the column.
TakenAny(s, item) ==
    [s EXCEPT !.thisF = item.oid[1], !.oid = item.oid,
              !.out = Collected(s.out, name, item.oid[2], item.value)]

\* Mutated: identifiers that repeat are not noticed.
TakenUnchecked(s, item) ==
    IF item.oid[1] # name THEN [s EXCEPT !.thisF = item.oid[1]]
    ELSE [s EXCEPT !.thisF = name, !.oid = item.oid, !.lastIid = item.oid[2],
                   !.out = Collected(s.out, name, item.oid[2], item.value)]

\* One identifier of an answer.  Only those of the wanted column count, and one
\* that repeats its predecessor is an error.
Taken(s, item) ==
    IF item.oid[1] # name THEN [s EXCEPT !.thisF = item.oid[1]]
    ELSE [s EXCEPT !.thisF = name, !.oid = item.oid, !.lastIid = item.oid[2],
                   !.errored = @ \/ s.lastIid = item.oid[2],
                   !.out = Collected(s.out, name, item.oid[2], item.value)]

\* `while this_f == name and errored == False'
Request ==
    /\ stage = "open" /\ name # None /\ thisF = name /\ ~errored
    /\ \E response \in Responses(oid) :
          LET s == FoldLeft(Taken, [oid |-> oid, thisF |-> thisF, lastIid |-> lastIid,
                                    errored |-> errored, out |-> out], response)
          IN  /\ oid' = s.oid /\ thisF' = s.thisF /\ lastIid' = s.lastIid
              /\ errored' = s.errored /\ out' = s.out
    /\ UNCHANGED <<device, wanted, todo, name, open, stage>>

Walked ==
    /\ name # None /\ (thisF # name \/ errored) /\ stage = "open"
    /\ name' = None /\ oid' = None /\ thisF' = None /\ lastIid' = None /\ errored' = FALSE
    /\ UNCHANGED <<device, wanted, todo, out, open, stage>>

\* NetConfig asks for the components one by one, in order.  If it is not
\* connected it yields nothing, and says so to nobody.
Component ==
    /\ stage = "open" /\ device.agent = "NetConfig" /\ todo # <<>>
    /\ \/ /\ todo' = Tail(todo)
          /\ out' = [f \in DOMAIN out \cup {Head(todo)} |->
                       IF f = Head(todo) THEN [i \in {o[2] : o \in {o \in DOMAIN device.value :
                                                                      o[1] = f}} |->
                                                 device.value[<<f, i>>]]
                       ELSE out[f]]
       \/ todo' = <<>> /\ todo = wanted /\ out' = out
    /\ UNCHANGED <<device, wanted, walk, open, stage>>

\* CommandLine runs a command and looks for all variables in its output: there is
\* at most one value of each, the last one, under the name of the class.
Command ==
    /\ stage = "open" /\ device.agent = "CommandLine" /\ todo # <<>>
    /\ \E found \in SUBSET Range(todo) :
          out' = [f \in {f \in found : \E o \in DOMAIN device.value : o[1] = f} |->
                    [i \in {device.agent} |->
                       LET seen == {o[2] : o \in {o \in DOMAIN device.value : o[1] = f}}
                       IN  device.value[<<f, CHOOSE i2 \in seen : \A j \in seen : j <= i2>>]]]
    /\ todo' = <<>>
    /\ UNCHANGED <<device, wanted, walk, open, stage>>

\* The with statement, and the call of __exit__ after it, close the session.
End ==
    /\ stage = "open" /\ todo = <<>> /\ name = None
    /\ stage' = "ended" /\ open' = FALSE
    /\ UNCHANGED <<device, wanted, todo, walk, out>>

-----------------------------------------------------------------------------

Init ==
    /\ device \in Devices /\ wanted \in Lists /\ todo = wanted
    /\ name = None /\ oid = None /\ thisF = None /\ lastIid = None /\ errored = FALSE
    /\ out = <<>> /\ open = FALSE /\ stage = "closed"

Work == Open \/ Begin \/ Request \/ Walked \/ Component \/ Command \/ End

Finished == stage \in {"ended", "failed"} /\ UNCHANGED vars

Next == Work \/ Fails \/ Finished

Spec == Init /\ [][Next]_vars

\* The walk is one thread: it goes on as long as there is something to do.
FairSpec == Spec /\ WF_vars(Work)

-----------------------------------------------------------------------------
(* Properties *)

Less(o, p) == o[1] < p[1] \/ (o[1] = p[1] /\ o[2] < p[2])
Later(o) == {p \in DOMAIN device.value : Less(o, p)}

\* A device that answers with no error, and names after an identifier the first one of its
\* table that is later, if there is one.
Conforming ==
    /\ device.agent = "SNMP" /\ device.mute = {}
    /\ \A o \in DOMAIN device.next :
          /\ device.next[o] \in Later(o)
          /\ \A p \in Later(o) : p = device.next[o] \/ Less(device.next[o], p)
    /\ \A o \in DOMAIN device.value \cup {<<f, 0>> : f \in Range(wanted)} :
          Later(o) # {} => o \in DOMAIN device.next

\* The instances of a column that come after no other of the view.
LastOfView == {o \in DOMAIN device.value : o \notin DOMAIN device.next}

\* What a walk of a column returns: each instance with its value.  The code makes two
\* exceptions at the end of the view: the last instance of all is overwritten by the mark
\* for the end, and a column that would come after it has an instance, the mark.
Instances(f) == {o \in DOMAIN device.value : o[1] = f}
Marked(f) ==
    IF <<f, 0>> \in DOMAIN device.next THEN {o \in LastOfView : o[1] = f} ELSE {<<f, 0>>}
Column(f) ==
    [i \in {o[2] : o \in Instances(f) \cup Marked(f)} |->
       IF <<f, i>> \in Marked(f) THEN NoMoreMib ELSE device.value[<<f, i>>]]

\* Whatever the sizes of the answers, a walk of a conforming device returns the
\* table: each instance of each variable, and no other.
WalkIsTable ==
    stage = "ended" /\ Conforming => \A f \in Range(wanted) : At(out, f, <<>>) = Column(f)

\* A walk ends by itself if the device conforms or does no worse than to repeat
\* an identifier.
Repeats == \A o \in DOMAIN device.next : device.next[o] = o \/ Less(o, device.next[o])
WalkEnds == device.mute = {} /\ Repeats => <>(stage \in {"ended", "failed"})

=============================================================================
