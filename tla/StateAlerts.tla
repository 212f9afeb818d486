----------------------------- MODULE StateAlerts -----------------------------
(***************************************************************************)
(* Outages (lib/ptolemy/analyse/generic.py and lib/ptolemy/alert).         *)
(*                                                                         *)
(* A directive says which things to watch (its `what': a field of the      *)
(* thing matches an expression) and when to alert (its `when': a value     *)
(* compares thus).  Analyse workers take the reports on things from one    *)
(* queue and share what they know in redis; the alerts go to the alert     *)
(* manager, which goes through the stanzas of its configuration: those     *)
(* that match note the alert in the database or send mail, not more often  *)
(* than their limit allows.                                                *)
(*                                                                         *)
(* One thing and one directive are modelled: keys hold the name of the     *)
(* directive and the context, so that others have nothing in common.       *)
(***************************************************************************)
EXTENDS Integers, Sequences, FiniteSets

CONSTANTS
    Workers,        \* the analyse workers
    Directives,     \* [op, low, high]
    Values,         \* what the field can be in a report
    None,           \* no such field
    Configs,        \* sequences of stanzas: [context, states, last, by]
    Context,        \* the context of the alert: name -> value
    Ignores,        \* ignore[metric]: a set of functions name -> the set of values that match
    Limit,          \* of the stanzas that send mail
    MaxReports,     \* bound: reports on the thing
    MaxClock,       \* bound: the time
    MaxFaults       \* bound: alerts that are lost, and managers that crash

AlertsAssumption ==
    /\ Values \subseteq Int /\ None \notin Int
    /\ \A s \in Configs : Len(s) \in Nat /\ DOMAIN s = 1 .. Len(s)
    /\ \A d \in Directives : d.low \in Int /\ d.high \in Int
    /\ {Limit, MaxReports, MaxClock, MaxFaults} \subseteq Nat

VARIABLES
    directive, stanzas,
    key,            \* in redis: "absent", or the last state: "unknown", "met", "unmet"
    work,           \* worker -> [pc, value, last]
    alerts,         \* the alert queue: [state, last]
    manager,        \* "idle" or "mailed": sent, but the time not cached yet
    at,             \* the stanza the manager has come to
    cached,         \* in redis: when mail was sent, None if it expired
    clock,
    rows,           \* the rows of the database: the kinds of alert of each, in order
    reports, faults,
    watched,        \* whether the thing matches now (history)
    last,           \* what the last report dealt with came to (history)
    outages,        \* how often it came to "met" after something else (history)
    disturbed,      \* the key was written between a get and a set, or forgotten, or
                    \* an alert was lost or dealt with twice (history)
    mailed, early   \* the time of the last mail, and the number of early ones (history)

redis == <<key, work>>
alerting == <<alerts, manager, at, cached, rows, mailed, early>>
history == <<watched, last, outages>>
vars == <<directive, stanzas, redis, alerting, clock, reports, faults, history, disturbed>>

Idle == [pc |-> "idle", value |-> None, last |-> "unknown"]
Quiet == alerts = <<>> /\ manager = "idle" /\ \A w \in Workers : work[w] = Idle

-----------------------------------------------------------------------------
(* The analyse workers *)

\* process_when: the comparison.  `le' is that of `ge', and `inside' is `below
\* the range': not (v > low), and v < high.
Meets(d, v) ==
    CASE d.op = "eq" -> v = d.low
      [] d.op = "ne" -> v # d.low
      [] d.op \in {"ge", "le"} -> v >= d.low
      [] d.op = "gt" -> v > d.low
      [] d.op = "lt" -> v < d.low
      [] d.op = "inside" -> v <= d.low /\ v < d.high
      [] d.op = "outside" -> v < d.low \/ v > d.high

\* Somebody has read the key and is to write it.
Reading(w) == \E x \in Workers \ {w} : work[x].pc # "idle"

\* process_what: setnx for a thing that matches, delete for one that does not.
What(w, matches) ==
    /\ work[w] = Idle /\ reports < MaxReports /\ reports' = reports + 1
    /\ key' = IF ~matches THEN "absent" ELSE IF key = "absent" THEN "unknown" ELSE key
    /\ watched' = matches
    /\ disturbed' = (disturbed \/ (key' # key /\ (Reading(w) \/ key \in {"met", "unmet"})))
    /\ UNCHANGED <<directive, stanzas, work, alerting, clock, faults, last, outages>>

\* process_when: gets what was known.
Get(w, v) ==
    /\ work[w] = Idle /\ reports < MaxReports /\ reports' = reports + 1
    /\ work' = [work EXCEPT ![w] = [pc |-> "got", value |-> v,
                                    last |-> IF key = "absent" THEN "unknown" ELSE key]]
    /\ UNCHANGED <<directive, stanzas, key, alerting, clock, faults, history, disturbed>>

\* The thing is watched: its key exists.
Known(w) == key # "absent"

\* A thing that is not watched is no more looked at, and a report without the
\* field is an exception.
Exists(w) ==
    /\ work[w].pc = "got"
    /\ work' = [work EXCEPT ![w] = IF Known(w) /\ @.value # None THEN [@ EXCEPT !.pc = "known"]
                                   ELSE Idle]
    /\ UNCHANGED <<directive, stanzas, key, alerting, clock, reports, faults, history, disturbed>>

\* Mutated: only what is wrong is an alert.
WhileMet(before, state) == state = "met"

\* "alert if the where condition is met or if the state has changed since the
\* last value"
IsAlert(before, state) == state = "met" \/ (before # "unknown" /\ state # before)

\* The state is set and the alert sent, which may fail.
Set(w) ==
    LET before == work[w].last
        state == IF Meets(directive, work[w].value) THEN "met" ELSE "unmet"
    IN  /\ work[w].pc = "known"
        /\ key' = state /\ last' = state
        /\ outages' = outages + (IF state = "met" /\ last # "met" THEN 1 ELSE 0)
        /\ work' = [work EXCEPT ![w] = Idle]
        /\ \/ /\ IsAlert(before, state)
              /\ alerts' = Append(alerts, [state |-> state, last |-> before])
              /\ disturbed' = (disturbed \/ Reading(w)) /\ UNCHANGED faults
           \/ /\ IsAlert(before, state) /\ faults < MaxFaults /\ faults' = faults + 1
              /\ disturbed' = TRUE /\ UNCHANGED alerts
           \/ /\ ~IsAlert(before, state)
              /\ disturbed' = (disturbed \/ Reading(w)) /\ UNCHANGED <<alerts, faults>>
        /\ UNCHANGED <<directive, stanzas, manager, at, cached, rows, mailed, early, clock,
                       reports, watched>>

\* The key expires if nothing is heard of the thing for three hours.
Forget ==
    /\ key # "absent" /\ key' = "absent" /\ disturbed' = TRUE /\ watched' = FALSE
    /\ UNCHANGED <<directive, stanzas, work, alerting, clock, reports, faults, last, outages>>

-----------------------------------------------------------------------------
(* The alert manager *)

\* match_ignore: a name that the context does not have matches.
Ignored ==
    \E d \in Ignores : \A k \in DOMAIN d \cap DOMAIN Context : Context[k] \in d[k]

\* match_context: an expression is tried on a name the context does not have: an
\* exception, which ends the task.
Raises(s) == ~(DOMAIN s.context \subseteq DOMAIN Context)
Matches(s) == \A k \in DOMAIN s.context : Context[k] \in s.context[k]

\* match_condition
Applies(s, alert) ==
    alert.state \in s.states /\ (alert.last = "met") \in s.last

\* The task is done, and the message acknowledged.
TaskDone == alerts' = Tail(alerts) /\ at' = 1

\* alert: whether the limit holds the mail back.
Tempered == cached # None /\ cached + Limit > clock

\* just_insert for a new alert; the others update the most recent row.
Stored(kind) ==
    IF kind = "new" \/ rows = <<>> THEN Append(rows, <<kind>>)
    ELSE [rows EXCEPT ![Len(rows)] = Append(@, kind)]

\* process_task, one stanza.
Stanza ==
    /\ manager = "idle" /\ alerts # <<>> /\ ~Ignored /\ at <= Len(stanzas)
    /\ LET s == stanzas[at]
           active == Matches(s) /\ Applies(s, Head(alerts))
       IN  \/ /\ Raises(s) /\ TaskDone
              /\ UNCHANGED <<rows, mailed, early, manager>>
           \/ /\ ~Raises(s) /\ active /\ s.by # "mail"
              /\ rows' = Stored(s.by) /\ at' = at + 1
              /\ UNCHANGED <<alerts, mailed, early, manager>>
           \/ /\ ~Raises(s) /\ active /\ s.by = "mail" /\ ~Tempered
              /\ mailed' = clock
              /\ early' = early + IF mailed # None /\ mailed + Limit > clock THEN 1 ELSE 0
              /\ manager' = "mailed"
              /\ UNCHANGED <<alerts, rows, at>>
           \/ /\ ~Raises(s) /\ (~active \/ (s.by = "mail" /\ Tempered))
              /\ at' = at + 1
              /\ UNCHANGED <<alerts, rows, mailed, early, manager>>
    /\ UNCHANGED <<directive, stanzas, redis, cached, clock, reports, faults, history, disturbed>>

\* setex, with the limit for the time to live.
Cache ==
    /\ manager = "mailed" /\ manager' = "idle"
    /\ cached' = mailed /\ at' = at + 1
    /\ UNCHANGED <<directive, stanzas, redis, alerts, rows, mailed, early, clock, reports, faults,
                   history, disturbed>>

\* All stanzas are done, or the alert is ignored.
Done ==
    /\ manager = "idle" /\ alerts # <<>> /\ (Ignored \/ at > Len(stanzas))
    /\ TaskDone
    /\ UNCHANGED <<directive, stanzas, redis, manager, cached, rows, mailed, early, clock, reports,
                   faults, history, disturbed>>

\* The manager stops: the message is delivered again.
Crash ==
    /\ alerts # <<>> /\ faults < MaxFaults /\ faults' = faults + 1
    /\ manager' = "idle" /\ at' = 1 /\ disturbed' = TRUE
    /\ UNCHANGED <<directive, stanzas, redis, alerts, cached, rows, mailed, early, clock, reports,
                   history>>

Tick ==
    /\ clock < MaxClock /\ clock' = clock + 1
    /\ cached' = IF cached # None /\ cached + Limit <= clock + 1 THEN None ELSE cached
    /\ UNCHANGED <<directive, stanzas, redis, alerts, manager, at, rows, mailed, early, reports,
                   faults, history, disturbed>>

-----------------------------------------------------------------------------

Init ==
    /\ directive \in Directives /\ stanzas \in Configs
    /\ key = "absent" /\ work = [w \in Workers |-> Idle]
    /\ alerts = <<>> /\ manager = "idle" /\ at = 1 /\ cached = None
    /\ rows = <<>> /\ mailed = None /\ early = 0
    /\ clock = 0 /\ reports = 0 /\ faults = 0
    /\ watched = FALSE /\ last = "unknown" /\ outages = 0 /\ disturbed = FALSE

Next ==
    \/ \E w \in Workers :
          \/ \E matches \in BOOLEAN : What(w, matches)
          \/ \E v \in Values \cup {None} : Get(w, v)
          \/ Exists(w) \/ Set(w)
    \/ Forget \/ Stanza \/ Cache \/ Done \/ Crash \/ Tick

Spec == Init /\ [][Next]_vars

-----------------------------------------------------------------------------
(* Properties *)

\* What notes an alert in the database.
Notes(s, alert) == Matches(s) /\ Applies(s, alert) /\ s.by # "mail"

\* Alerts are noted as they should be: each by one stanza, of its kind, all of which
\* are come to.
Noting ==
    /\ ~Ignored /\ \A i \in DOMAIN stanzas : ~Raises(stanzas[i])
    /\ \A state \in {"met", "unmet"}, before \in {"unknown", "met", "unmet"} :
          state = "met" \/ before = "met" =>
              \E i \in DOMAIN stanzas :
                  /\ \A j \in DOMAIN stanzas :
                        Notes(stanzas[j], [state |-> state, last |-> before]) <=> j = i
                  /\ stanzas[i].by = IF state = "unmet" THEN "end"
                                     ELSE IF before = "met" THEN "continual" ELSE "new"

\* When there is nothing left to do, the database tells the outages of the thing:
\* a row for each, the last of which has an end unless it goes on.  Not so if two
\* workers had reports on the thing at the same time, if its key was deleted or
\* expired, or if an alert was lost or dealt with twice.
OutagesTold ==
    Quiet /\ Noting /\ ~disturbed =>
        /\ Len(rows) = outages
        /\ \A i \in DOMAIN rows :
              (rows[i][Len(rows[i])] = "end") <=> (i < Len(rows) \/ last # "met")

\* A thing that does not match raises no alert, except for the report that a
\* worker was dealing with when it ceased to match.
SetWhileWatched ==
    \A w \in Workers : (work[w].pc = "known" /\ work'[w] = Idle) => watched \/ disturbed
WatchedOnly == [][SetWhileWatched]_vars

\* Mail is sent at most once in Limit, but for the manager that stops before it
\* has noted that it was sent.
MailsApart == early <= faults

=============================================================================
