# A TLA+ development of ptolemy

ptolemy polls network devices.  A *scheduler* decides when a test (a
`<device>:<spec>` pair) is due and publishes a request; *supervisors* decide
whether the request is carried out and with which driver; *workers* talk to the
device and make results of what it says; *feeders* store the results; *watchers*,
*analysers* and *alerts* work on the same results as they pass.  The daemons run on
several hosts and share AMQP queues, memcached, redis and databases.  Nothing in the
code takes a lock across processes: what keeps it right is the order of a few
calls, and that is what is modelled here.

Contents: 1 inventory, 2 how the project is built and what is planned, 3 the modules
and the code, 4 the runs, 5 fairness, 6 the proofs, 7 where code and documents
disagree, 8 what is not modelled.

## 1 Inventory

Paths are below `src/lib/ptolemy/`.

| Component | State | Operations | Talks to | What is hard | What makes it right |
|---|---|---|---|---|---|
| supervisors, `poller/managers.py` | one memcached record per test: `recvd`, `started`, `complete`, `last_failed`, `next_probe`, `last_successful_driver`, `force_driver` | `validate_task`, `process_log`, `get_state`, `commit_state` | takes requests and logs from one queue, gives jobs to workers | at least two supervisors read and write the same record in separate calls; memcached loses records; the operator's `polld cache set` writes as well | throttles; the driver used is one that works or was ordered; the record agrees with what happened |
| workers, `poller/workers.py` | the job, the drivers left | `process_task`, `poll`, `Gatherer.fetch`, `Gatherer.process` | report to the supervisors, results to the feeders | a failure after a success was reported; a time limit while a driver answers; death | one final report for each job, drivers in order of priority |
| agents, `poller/agent.py` | where a walk is | walks of columns, command line sessions | devices | answers that end early, repeat themselves or hold several columns | a walk ends and returns the table |
| drivers, `poller/driver.py` | collected columns, a tree of entities | `remap`, `post_remap`, the maps, `build_tree`, functions on values | called by the gatherer | maps change shared columns in place, in the order of a dictionary; links between entities dangle | a field holds what its definition asks for; every entity ends under its parent |
| scheduler: heap, `scheduler/scheduler.py`, `process_task` of `scheduler/managers.py` | configuration loaded, heap of (time, test) | `init_schedule`, `peek`, `next`, `reset_schedule`, `load` | publishes requests | edits and reloads in any order while old entries wait in the heap | nothing forgotten, entered twice or polled early |
| scheduler: ring, `update_ring` | a hash ring per host; one memcached record of the times the hosts were last heard of | fetch, bring up to date, store | the other schedulers | two calls; old copies overwrite newer ones; crashes; the record is lost | every test is published by somebody; the dead leave |
| on-demand requests, `scheduler/workers.py`, `scheduler/commands.py` | none | `create_task`, waiting for an answer | the same queues | answers out of order | the asker gets the answer to his question |
| queues, `queues.py`, `util/queues.py` | AMQP queues | put, get, ack | everybody | redelivery | first in, first out for each queue |
| feeders: postgres, `storage/feeders/` | tables and their archives, what the feeder knows to exist, rows prefetched, ids to touch and to delete | `process_task`, `pre_bulk_process`, `save`, `archive_and_update`, `post_msg_process` | postgres | feeders on one context at once; statements that fail within a transaction | a row holds what was reported of its context, what is replaced is noted, doubles do not last |
| feeders: influxdb, redis, carbon | a buffer; hashes; workers for each instance | `save`, `start`, `process_task` | the servers | a request that is not acknowledged; workers that die; messages split among instances | no point is lost, each is sent by one worker |
| older workers, `storage/workers.py` | as postgres, with partitions; documents in mongodb | `ensure_table`, `archive_and_update`, `save` | postgres, mongodb | failures that abort a transaction; crashes between statements | histories without gaps; links that resolve |
| watcher, `watcher/`, `util/redis_mixins.py` | sorted sets in redis, a schedule of subnets | `post_bulk_process`, `zstore_*`, `process_work_queue`, `FPing.parse` | redis, the store, fping | list and removal are separate calls; a report names many subnets | a host that leaves is reported, not too early; a host is not placed at an uplink; every subnet is scanned |
| analyse, `analyse/` | in redis: states, counters, ranks, places, links | `process_what`, `process_when`, `post_bulk_process` | redis, alerts, mail | several workers, keys that expire | outages, ranks and moves are real and told once |
| alert, `alert/commands.py` | the times of alerts sent, rows of outages | `process_task`, `alert`, `store` | redis, database, mail | a crash between sending and noting | no more mails than configured |
| ipam, `ipam/commands.py` | the files of devices that the scheduler loads | `NetworkDevices.run` | address database, files | operators edit the same files; interrupted updates | what people wrote is kept, what is listed is registered |
| property_control, profiler, perfsonar, report, ui, legacy, util, bin | none of their own | queries, formatting | databases, web services | none that is concurrent | - |

The hazards, each at its line and with the properties that guard against it, are
listed in `PROJECT.json`.

## 2 How the project is built, and the plan

A component has a module of its own: its constants with their assumption, its state,
one action per step of the code that others can come between, its properties, and
next to the definitions they replace, below a comment that begins with `Mutated:`, the
faults that the properties must notice; nothing else uses those.

Components of one stage of the system are checked together, by the modules
`MCPolling`, `MCStores` and `MCAnalysis`.  These are no compositions: a behaviour
chooses a component, `which`, and explores it while the others stay as they began;
variables of one name are shared.  For the stores and for the analyses the parts, their
constants and what is promised of each are in the modules `Stores` and `Analysis`, without
values: `MCStores` and `MCAnalysis` give them some for TLC, and `StoresProofs` and
`AnalysisProofs` prove about them as they are; `Polling` does the same for the worker, its
walks, the values, the tree of entities and the driver, about which `PollWorkerProofs` and
`DriverProofs` prove.  Each property of such a run is that of one
component's module (or the conjunction of several of the same component), and says
nothing of the behaviours that explore another.  The components do not share state in
the code either: they are connected by queues, and what comes out of a queue is an
input of the next module.  Where one module assumes what another shows, the assumption
is an abstract specification that the other implements: `PollContract` (between
supervisors and workers) and `StoreContract` (between feeders and whoever reads the
tables).

Done: supervisors, heap, ring, poll worker; agents, drivers, entities, values; the stores;
watcher, analysers, alerts; the files of devices.  Proofs of all safety properties of
supervisors, heap, ring, poll worker, walks, values, drivers, the tree of entities, analyses and
stores (section 6), but for one of SubnetScan.

To come: the composition of Schedule and ScheduleRing, in which a host updates its ring only
between two sleeps, so that a long sleep can make it look dead.

## 3 The modules and the code

### PollSupervisor

One supervisor handles one message in three steps: `Take` (the message and the
time, `managers.py:151-182`), `GetState` (the memcached get) and one of
`ValidateTask` and `ProcessLog`, which compute as the code does and end with the
memcached set.  Between them any other process moves.  `DropLog` is the log of a
test whose record is missing, which the code cannot handle.

| TLA+ | code |
|---|---|
| `State`, `initial_state` | the record, `managers.py:46-75` |
| `Throttled`, `Rejected` | the three throttles and unregistered specs, 185-230 |
| `Validated` | what is set on the record, including the `finally` block, 213-251 |
| `Reprobe`, `ProbeJob`, `KnownJob` | which driver the job names, 255-285 |
| `Logged` | what a log sets, 310-374 |
| `MakeRequest`, `StartPoll`, `ReportSuccess`, `FinishPoll`, `LosePoll` | scheduler and workers, by what they send |
| `LoseState`, `FetchToEdit`, `StoreEdit` | memcached, and `polld cache`, `poller/commands.py:208-231` |

`history` records what happened and is read by properties only.

### Schedule

One process.  The heap is a bag of entries, an entry a test and the time left
until it is due, which `Tick` counts down; a negative time means the process is
behind.  `Poll(i)` is one turn of the loop of `process_task` with `next()`:
the entry is popped and, if the test is still configured with a period that is
not zero, pushed back with any delay its `p +- dt` allows.  `Reload` is
`reset_schedule`, `Restart` a new process, `Edit` a change of the files.
`PublishFails`, `EmptySchedule` and `ReloadFails` are the three ways the loop
ends.  The reload is a signal and interrupts the sleep, so a sleep is nothing but
the passing of time.  `ScheduleAssumption` says that delays are positive: the
deviation `dt` is smaller than the period.

### ScheduleRing

`update_ring` is `Fetch` (or `Start`, for the first) and `Store`, with anything in
between.  A record maps hosts to ages.  The hash ring is a library: of it, `Owner`
keeps that every test has an order of preference over hosts (`Rank`), the same
for all schedulers, and belongs to the first host of the ring.  All hosts are
assumed to have the same clock.  `Crash` ends a process anywhere; `LoseStates` is
memcached forgetting.

`silent` and `promise`, `returned` in Schedule are history.

### PollContract and PollWorker

`PollContract` is what a supervisor may rely on: for each job at most one report of
success, with one of the job's drivers, and then one final report, `complete` only
after a success; and every job is finished.  `PollWorker` is `poll()` with the
gatherer, and has the contract's variables `job`, `success` and `verdict` among its
own, so the refinement mapping is the identity.

| TLA+ | code |
|---|---|
| `Take`, `Try`, `Exhausted` | the list of drivers and the loop over it, `workers.py:499-533, 578` |
| `named`, `Calls` | `job.data['driver'] = d` (537) is the `o` that the next turn passes as `**o` (533): a second success is a `TypeError` |
| `AlarmForFetch`, `Tick`, `Alarm` | `signal.alarm`, 203-215, 513-518 |
| `Collected`, `Iterated`, `IterationDone`, `Fetched` | `_fetch` and `fetch`, 83-245 |
| `FetchFails`, `NameNotFound`, `AgentGivesUp`, `FormatFails` | the exceptions and their handlers, 172-181, 236-241, 564-576 |
| `FormatGroup`, `Completed` | the messages yielded, 541-562 |

What a device does is free: it may answer, fail or be silent at every point.  Time
passes only while the worker waits for it.  In iterative groups an agent's own
timeout and any other failure only cost one value, except references that are
not found.  Drivers with iterative groups and drivers of the agent `NetConfig` are
assumed to be different ones, as in `src/etc/ptolemy/polld/drivers`, and a job to name
at least one driver, which `TypeCorrect` of the supervisors' module shows.  `elapsed`,
`sources` and `ends` are history.

### BulkWalk

The three agents (`poller/agent.py`) as the generators they are, and
`Gatherer.collect`.  NetSNMP asks for the successors of an identifier, several at once
(`Request`), and goes through the answers (`Walked`, `Taken`, 840-950) until one leaves
the column; NetConfig and CommandLine answer as a whole.  A device is what it answers to
each identifier, chosen at the start: all views of a small table, one that repeats an
identifier, one that goes round two, one that is mute.  Identifiers are pairs of column
and instance, values atoms.  `WalkIsTable` is about a device that is `Conforming`: after an
identifier it names the first one of its table that is later, whenever there is one.

### EntityTree

`build_tree` and `post_normalise_entities` (`driver.py:326-635`).  A tree (a dictionary
of dictionaries) is the function from nodes to their parents.

| TLA+ | code |
|---|---|
| `Found`, `ChildrenIn`, `Branch`, `Attached` | `walk_to`, what it returns, `attach`, 326-352 |
| `Regrafted`, `Renamed`, `Told` | the tree after `regraft` (355-390) and `reattach_as` (393-409), and the children that get a new parent from the latter |
| `Place`, `Round`, `Move`, `Rounds` | the first pass and the rounds over strays, 411-442 |
| `Scan`, `NamePort` | the first loop of `post_normalise_entities`: chassis are noted, a transceiver tells each of its children the port that one describes, 471-528 |
| `Clean`, `Useless`, `Remove`, `Rename` | the second loop, 535-564 |
| `Chassis`, `Modules`, `ChassisMissing`, `Revised` | the versions of the chassis and the exceptions on the way, 572-635 |
| `Lost` | an exception drops the whole group, 1257-1270 |

`regraft` and `reattach_as` are modelled with their exceptions to what one would expect.  If
the tree no longer has the parent, `regraft` drops the branches of the children and keeps
the node; a child without data goes with the node.  `reattach_as` walks to the old
name after it has moved the node, so the children are told only if it could not be moved; to
tell a child that was removed is a `KeyError`.

What the model assumes of a device, beyond the types of its rows, is `PortsApart`: no two
transceivers describe the same port, as a port holds one.  Otherwise both would be
renamed to one name, and the second would replace the first.

### Driver

`Gatherer.process` (`workers.py:323-430`) and the maps of `driver.py`.  Collected data
are columns; a definition makes a field of a column by renaming it and mapping its keys
and values.  Every map is an operator that returns the set of its outcomes, since the
order of a dictionary is free; what texts match what is given by functions
from values to values.  `Define` is one definition, with the counts and copies that
give columns back to those that need them (`Restored`); `Post` takes one row through the post
maps of its group and publishes what becomes of it, under the name of the group or of a new
one that a field of the row names; `Publish` deletes the groups that only served others.

What must not depend on the order of dictionaries is `ResultsSound`, in two parts.  `FieldsSound` compares
with a definition that is alone: in a driver whose definitions do not name each other's
fields (`WellMade`), each field is one of the outcomes that its definition has on what was
collected (`AsIfAlone`), and the driver is refused, for the next one to be tried, only for what
the device lacks (`RefusedForAReason`).  `PublishedOnce` follows rows: those of a group without maps that
remove any, and whose map to new groups is the last (`KeepsRows`; a map after it would bring back
the old name), are each in one place, the group that the field names.

### DeviceValues

The functions of `driver.py` that drivers name: addresses, masks of vlans and of
ports, names of access points.  They are operators; `Make` applies one to an input of a
small world of nibbles of one bit, addresses of two bytes and masks of four bits.
The properties compare with what the device meant, and their proofs hold for a world of any
size.

### StoreContract and PostgresStore

`StoreContract` is what a reader of a table may rely on: every row says when something
that was reported of its context was reported and holds only reported values; the archive
only grows; a row goes away only if there was another of its context; ids are not used
again.  `PostgresStore` implements it (`KeepsContract`), with `rows <- table` and
`history <- archive`.

| TLA+ | code (`storage/feeders/postgres.py` unless said otherwise) |
|---|---|
| `Start` | taking a message, `feeders/__init__.py:258-309` |
| `PreBulkProcess`, `EnsureTable`, `Cached` | 439-494, 118-241 |
| `Save`, `Found`, `Different`, `Decision`, `Merged`, `Docs` | 557-694, with the options of a group (`meta`) |
| `UpdateRow`, `ArchiveReady`, `EnsureArchive` | `archive_and_update`, 334-357 |
| `PostBulkProcess`, `Touches`, `PostMsgProcess`, `Ended` | 496-555 |
| `Fail`, `Restart` | statements that fail, processes that end |
| `Execute`, `CommitOf`, `View` | postgres: read committed, row locks |

### HstoreStore and MongoStore

The older workers (`storage/workers.py`).  In `HstoreStore` a `CREATE TABLE` of a table
that is there fails and aborts the transaction, so that its commit takes back what
the message did (`Ensured`, `Commit`); `aborted` and `undone` remember it.  A row may be
changed from a state that is no longer its own, by two feeders or by two documents of one
message, both looked up before (`Outdated`); `stale` remembers those.  In
`MongoStore` each statement of `MongoStorer.save` (371-474) is a step, between which
another storer moves or this one stops.

### Feeders

What all feeders have in common, the unfolding of a message (`feeders/__init__.py`
110-325: `WholeContext`, `Bulks`, `ReportOf`), and the smaller daemons: the division of a
message among carbon instances and the manager that starts their workers (`Part`,
`Loop`), the buffer of influxdb (`InfluxSave`), the hashes of redis (`RedisBulk`).

### HostWatch, HostPlace, SubnetScan

`HostWatch` is presence: `Add` is `zstore_add`, `Read` the query for those not seen, the
report, and `Remove` `zstore_expire`, three calls to redis.  `HostPlace` is the message about
a host, with the uplinks looked up before (`LookUp`) and told later (`Tell`) while
links change (`Relink`).  `SubnetScan` is `process_work_queue`, one new subnet a call,
the schedule, and what is made of the answers of fping (`Parsed`, `Considered`,
`Summary`).

### StateAlerts, Capacity, Telephones, Layer1

The workers of these share redis and take messages from one queue; each call to redis is a
step.  `StateAlerts` joins the generic analyser (`generic.py`: `What`, `Get`, `Exists`,
`Set`) and the alert manager (`alert/commands.py`: `Stanza`, `Cache`, `Done`, `Crash`).
`Capacity` is `capacity.py`: `GetCapacities`, `GetUtilisations`, `Rank`, `Trim`, with
counters that wrap.  `Telephones` is `telephones.py`, `Layer1` `layer1.py`.

### DeviceFiles

`NetworkDevices.run` (`ipam/commands.py:116-220`): `Collect`, then for each category with
devices `ReadFile`, `Listed`, `Truncate` and `Dump`; between them the command may be
interrupted, and at any time operators edit files, register devices or change the
categories.

## 4 The runs

| Run | Question | Bounds |
|---|---|---|
| `supervisor_single` | One supervisor, nothing lost: do both throttles hold for each job handed out, does the record agree with the last report once all is quiet, is every `started` mark removed? | two tests (one of a spec that is not registered), 3 requests, time 0..3, throttles 2 and 1, invalid and probed again after 2 |
| `supervisor_racing` | Two supervisors and a memcached that loses records; or one supervisor, an operator with `polld cache set` and workers that die: are drivers still justified, times sane, forced drivers used? | one test for the race, two (one in the file of forced drivers) with the operator; 2 requests, time 0..1, a poll invalid at once |
| `schedule` | Edits, reloads, failures, restarts in any order | two tests, periods 1 and 2, first delays up to three periods, one unit behind at most, reloads below 3 entries |
| `ring` | Two schedulers starting and crashing; `loses` says whether memcached may lose the record. Safety in all behaviours, liveness where nothing is lost | dead time two update periods, as in the code (20 s and 10 s); a test for every order of the hosts |
| `polling` | Does `poll()` keep its contract, in time and with one source of results; do walks return the table, is the tree repaired, do drivers yield what they define, are values right? | four lists of up to three drivers, limit 2, 3 values, 2 groups; 64 views of a table of six instances in three columns, five lists of variables, up to 3 at once; three entities of six kinds; twelve drivers, up to three columns of two keys; masks of 4 bits, radios with 3 keys |
| `stores` | Do feeders that work at once, and fail, keep their contract, archive, consolidate; do the older ones store in full and without gaps; is no point or link lost; are the rows of a message kept apart and shared out in full? | two feeders, 3 messages of 5 kinds, one fault, four sets of options; for the older ones 3 messages of 6 kinds; 8 points in chunks of 3; 6 messages for two carbon instances, one without rows; two mongodb storers, 4 reports, one crash |
| `analysis` | Are departures, moves, outages, ranks, subnets and links told as they are; are files kept? | two workers; one host, one telephone at two places, one port, two links of a channel; 3 reports; clocks up to 5; one fault or restart; three devices in three categories, 4 changes, 3 updates |
| `v_*` | section 7 | as small as shows it |

Why these bounds are enough to be interesting.  Two requests and their logs already
overlap in every order with two supervisors, as each message is three steps; three
requests and four instants let a request arrive inside and outside of each throttle and
let a poll become overdue and be repeated.  The steps of `Next` that need a loss, an
operator or a death have no guard that holds in `supervisor_single`, whose
`UndisturbedSpec` leaves them out; each of them is a named action of `MCRacing`.  The
clock of `MaxClock` stops behaviours,
which is why deadlock is not checked there; the liveness property of that module is about
reports that need no further time.  In the heap, three entries for two tests are the
smallest number in which a test has two.  Ages above the dead time are equal, so the
ring needs no bound on time.  Three drivers let a failure precede and a success follow
another success, and three values let an iteration succeed, fail and miss a reference at
once.  `MaxLate` only limits how far the scheduler lags: it then takes its turns before
time goes on.

Three entities are enough for a chain that needs all rounds `build_tree` makes, for a
circle, for a transceiver with two children and for one that loses its parent first; larger
numbers are a matter of the proof.  In a walk, every subset of
the table is a view, so columns are empty, end early, or are the last.  The drivers
are one for each map and some of several groups that share columns, as they
occur in `etc/ptolemy/polld/drivers`; their columns have values that match, that do
not, and that are missing.  Three messages let a feeder find what another has
changed since its own prefetch; one fault is enough, since what it leaves behind (an
aborted transaction, doubles, a queue of ids) stays in the state.  Two feeders and five
bodies include a message on two contexts, two bulks, and empty data; the messages of the
older feeders two documents of one context.  In the
analyses, two workers suffice for each race of section 1, as a race is between one that
has read and one that writes; three reports let a state or place change and change
back; the clocks reach past every expiry.  Workers are alike, so states that differ by
their names are explored once; this is sound although the run has a liveness property,
since that is about the scan of subnets, which none of those workers takes part in.

The runs of stores and analyses end when their bounds are reached, a poll when its job is
finished, hence no check for deadlock there.  `schedule` and `ring` are checked for it.

## 5 Fairness

- Supervisors and workers: the daemons loop around a blocking get
  (`managers.py:395-413`); weak fairness of a supervisor's steps, and of a worker's
  taking a job and ending it, since every conversation with a device has a time
  limit (`workers.py:515-518`).  Nobody is obliged to make a request, nor time to pass.
- Poll worker: weak fairness of the steps that wait for nobody (`Own`) and of time.
  The device owes nothing: it is the alarm that ends a poll.
- Walks: weak fairness of the walk itself, whose requests are answered or time out.  A
  device that goes round several identifiers is not shown to end: the alarm of
  the worker ends such a walk.
- Scheduler process: weak fairness of `Start`, of a turn of the loop (any due
  test, not a given one: that every test has its turn follows from the order of
  the heap) and of time.  No fairness on edits, reloads, restarts.
- Ring: weak fairness of each host's own `Fetch` and `Store`, and of time.
  Nobody has to start or stay up; the liveness properties assume only that what
  is eventually so stays so.
- Subnets: weak fairness of the supervisor's loop over
  its queue (`watcher/commands.py:59-108`), and strong fairness of each report, as there is
  not always room for one in the queue of the model: every device is
  polled again and again.
- All other modules have no fairness and no liveness property: their workers only
  react to messages.

## 6 The proofs

`tlapm` checks eight modules; each theorem holds for all values of the constants that
meet the named assumption of the module (`ConstantsAssumption`, `ScheduleAssumption`,
`RingAssumption`, `WorkerAssumption`, `PollingAssumption`, `StoreAssumption` with
`BodiesAssumption`, `StoresAssumption`, `AnalysisAssumption`).  Most of what is
assumed is the kind of the constants.  What says more: `None` is no number, no record and
no error, so that it can stand for what is not there; `BodiesAssumption` says that the bulks
of a message have no context in common, as messages are taken apart by context
(`feeders/__init__.py:258-309`), and that a bulk is of one device, which is part of the context that
its reports share and all that the lookup uses of it (`feeders/postgres.py:467-475`);
`PollingAssumption` joins those of BulkWalk (an answer holds at least one identifier, the tables
of devices are indexed by pairs of numbers, 0 being no instance), of DeviceValues (sizes are
positive, slots and numbers of ports are below the modulus that joins them), of Driver
(definitions and maps are sequences, post maps are of the kinds that `driver.py` knows, and a column
that was collected has an entry, as `collect` makes it for the first one) and of EntityTree
(entities are numbers, ports are not, and what stands for a missing parent or port is neither);
`StoresAssumption` includes `MessagesAssumption`, that messages
are finite and the hash ring has an instance for each field of theirs, and `HstoreAssumption`,
that the data of a message is a list;
`AnalysisAssumption` collects the
assumptions of the parts, of which Capacity's says that there is a longest range and that
samples are kept for at least the minute within which one counts (in `capacity.py`
`remove_older_than` is 120 seconds and the window is 60), DeviceFiles' that no category has the name of a state of the update, and
StateAlerts' that the stanzas of a configuration are a sequence.

**PollSupervisorProofs.**  `TypeCorrect` is inductive as it stands.
`ForcedDriverAlwaysWins` follows from typing and the step that makes jobs.
`DriversAreJustified` needs a strengthening: not only jobs, but every record in
memcached, every supervisor's copy of one, every edit under way and every report
in the queue name only drivers there is a reason for, since any of them can be
written back at any time.  `TimesAlwaysBounded` strengthens the bounds on the
records by the bounds on the time each supervisor noted when it took a message.
`SharedChanges`, `ContextChanges` and `CacheChanges` say which actions touch which
variables; the later proofs look only at those.

`ThrottlesAlwaysRespected` and `AlwaysSettled` are about a supervisor that is `Alone`: the
only one, with a memcached that loses nothing (`~CacheLoss`) and no operator who edits it
(`~Operator`).  Without those hypotheses the first is false, as `v_received_throttle` shows
for two supervisors, and a lost record forgets when its test was polled.  `ThrottleInv`
says that the supervisor's copy of a record is the record (`LocalIsState`), and that the
record knows of every poll handed out and of every result (`Remembered`), the former as
being no later than the supervisor's present: this is what the comparison with `now`
needs.  For `AlwaysSettled`, workers also do not die (`~WorkerLoss`), since a dead worker
leaves its mark of a start.  `SettleInv` follows the driver last reported from the queue,
where the last message that names one (`LastSays`) has it, by way of the supervisor, into
the record; and it pairs each notice of a start, and the mark it leaves, with a later
end in the queue or a worker that is still to send one (`StartsEnd`).

**ScheduleProofs.**  `AddedBag`, `RemovedBag` and `TickedBag` say what the bag
operators do to a heap.  `OneEntryAlways` strengthens `OneEntryEach` by an empty heap
before the process has scheduled anything; a reload adds entries only for tests
that had no configuration, and those that still have an entry are in `returned`.  `NeverForgets` is proved under the hypothesis `0 \notin Periods`,
without which it is false (`v_forgotten`).
`NoneEarlyEver` keeps a promise for each test: how long it must not be polled, counted
down by time.  `PromiseInv` says that all of its entries wait at least that long, which
needs `OneEntryEach`: a turn pushes back the one entry that was due.

**ScheduleRingProofs.**  `NobodyNeglects` rests on `OwnRing`: a host that has a
ring is running and is in its own ring.  For a test, take the host that comes
first among all hosts with a ring (the natural numbers are well-founded); it is
in its own ring, all others in that ring have a ring, so it comes first there too
and publishes.  `NewcomersAreAlive` rests on `HeardInv`: no record, in memcached or
on its way back to it, shows a host younger than it is.

**PollWorkerProofs.**  `WorkerInv` says that the drivers left and the one being tried
are of the job, and ties `named` to `success`: once a driver is reported, fetch
cannot be called again.  `OneSourceOnly` and `KeepsContract`, the safety half of the
refinement, follow from it.  `AlwaysInTime` adds `TimeInv`: the time spent and the
time left on the alarm together are within the limits of the drivers tried.
`SlowAlwaysReported` adds `ReportInv`: once no driver is left, one has failed, or was a
NetConfig that hid that it was late; a driver that times out last reports that itself.

The same module proves what `Polling` says of the rest, each about the specification of the
part.

- *Walks* (`WalksAlwaysTables`).  `WalkInv` says of a conforming device that columns walked are
  those of the table (`Whole`), and that the one under way has only rows of the table, and all up
  to the cursor (`WalkedTo`, `PartOf`, `UpTo`).  An answer is a sequence of successors and is taken in by a fold:
  that both are what their definitions say is shown by the least counterexample
  (`SuccessorsAreItems`, `TakenUnfolds`), and then that each item of an answer moves the cursor to the
  next row, out of the column or to the mark of the end (`TakenInColumn`, `TakenLeaves`,
  `TakenAtEnd`), or finds it gone (`TakenBeyond`).  The induction over the items of an answer is
  again by the least counterexample.
- *Values* (`ValuesAlwaysReadBack`, `RowsAlwaysJoined`).  The one invariant is that what was made
  is the result of what was given.  The rest is arithmetic: a number is its quotient and its
  remainder (`DividedBack`), so that bytes, members of a channel, and banks with the bit of a vlan are
  read back.  The rows of radios are a fold too (`RowsUnfold`), with the access point of the
  row before as its state; `Joined` says what it has made of the rows so far.
- *The tree* (`TreeAlwaysReported`).  A branch is the least set that has its node and, with a node,
  those below it; a tree is `Grounded` if all nodes are in the branch of the top, that is, if it
  has no circle.  Every operation keeps that (`AttachedGrounded`, `JointGrounded`,
  `RegraftedGrounded`, `RenamedGrounded`); without it a node could be regrafted below itself, and
  the proof of `RegraftedGrounded` would not know that the new parent survives.

  `TreeInv` has a part for each stage.  While the tree is built, each entity in it hangs where its
  data say (`Hung`), each stray from its parent, or from the top and then it came before
  the parent (`Strayed`).  `RoundEnds` says what a round is for: when no stray is left to look at,
  the tree has all that reaches, over links to earlier entities, what it had when the round
  began.  Two rounds make it two links to later ones.

  For the second loop, `Cleaning` relates the tree and the data, which the code changes side by side.
  They agree where the tree has the parent (`InPlace`), and where they do not, the node hangs from a
  port, a transceiver or the top (`OutOfPlace`, `BelowPorts`): this is what makes it safe to delete
  a node from its parent in the data.  `InTransceivers` says that a child of a transceiver no longer
  names it as its parent, since it was told its port, `Names` that only renamed
  transceivers are known by ports, and `Left` that what is missing was of no use.  `ParentsReported` needs
  `TreeSound` besides: if nothing strayed and transceivers are plain, an entity's parent is
  reported, or it is a port whose transceiver will be renamed to it (`WithParents`, `WithPorts`), and
  what is removed leaves nothing below it (`Remains`).
  A step changes all this at many points at once, so `Removal` and `Renaming` first say what
  becomes of each node and each row; the parts are then proved from those facts alone.

**DriverProofs.**  All are about the specification of the driver in `Polling`; `ResultsAlwaysSound`
puts the two parts together.

- *Fields* (`FieldsAlwaysSound`).  `MapLocal` says of each kind of map that what it makes of a
  column depends on that column, and on the one it looks up, only, that it touches no other, and
  for what it fails; `RemapLocal` says so of a definition, whose maps are a fold
  over sets of outcomes (`MapsUnfold`, `MapsOneByOne`, by the least counterexample).  `MakerInv` is
  about the definitions that are done and those to come: what the latter read is
  what was collected (`Fresh`); what the former have made is what they make alone
  (`MadeAlone`); the counts are the uses to come (`Counted`); and a copy is kept while two are
  (`Copied`).  That is what `Restored` needs: a definition takes its column away, and if another
  one wants it the copy goes back in its place, unchanged (`DefineData`).  The rows are then made of
  the columns, and lose none of their entries (`ColumnKept`).
- *Rows* (`RowsAlwaysPublishedOnce`).  The maps of a row are unfolded by the same argument
  (`PostOneByOne`).  Whatever they are, they leave a row in its group or in one made of it
  (`RowBelongs`), so that no other group adds to its places; and in a group that gives up no row
  they keep the key and the fields that name groups until the last, which moves the row
  (`MapTouches`, `RowPlaced`).  `PublishInv` says that a row that is left has no place yet, and
  every other one has its one (`Once`).  The name of a new group is never that of a group to be
  deleted, which is what the end needs (`PublishPublishes`).

**AnalysisProofs.**  One part after the other, each about the specification of its module.

- *Hosts.*  Two workers may both report a departure and then both remove the host, so
  `DeparturesReported` is not inductive: between the two removals the host may return.
  `PaidFor` counts the workers that have yet to remove a host as returns that are paid
  for: returns and pending removals together never exceed the departures reported and
  the presence.  `NotFarBehind` bounds how far the time kept of a host is behind the latest
  sight of it by how late messages are, from which `NotHasty` follows.
- *Links.*  `CacheSound` and `PipesSound` give an age to everything in redis and
  in the pipes: a port is remembered for one time of expiry after a report, a channel for
  one more, since it is written from the port just before that expires.
- *Places.*  `PlaceInv`: what is told is made of the reports in hand and of the uplinks
  looked up, which include every link that was there at the lookup and still is.
- *Telephones.*  A worker's read of a place is still true while no other has a report of
  the same telephone (`NoCrossing`, `PlaceStillTrue`); a worker that is about to remove has
  announced all it will remove (`Announced`), but for those reported late.
- *Files.*  What people wrote is in the file, or, while that is truncated, in what was read
  of it (`WantedRead`); the categories an update is done with are listed as it found
  them, and the store was told so (`DoneListed`).
- *Ports.*  Samples, reports that wait and uses on the boards are all tied to what was
  told of the counters (`SamplesTold`, `QueueTold`, `RanksShown`); the samples of a port in
  work are not of its worker's future unless another had a report of it (`PortInWork`),
  and nothing a range still needs is too old to be kept (`ReportsKept`).
- *Subnets.*  What `process_work_queue` puts on the schedule is the first new
  subnet of the first report with one; that there is a first is the well-foundedness of
  the natural numbers, and that it is new makes `ScheduledOnce` inductive (`ScanInv`).
- *Alerts.*  A mail that would follow too early is paid for by a fault (`MailsCounted`).  What
  a worker read of the last state is still so unless it was disturbed (`ReadStillTrue`).
  `RowsFollowAlerts` relates the rows to alerts that have not been dealt with yet: there is
  a course, a number of outages after each alert that waits and whether one goes on, that
  leads from what the rows say now to the outages there were.  A new alert makes the
  course longer, the end of one makes it shorter, and a stanza that notes one moves on
  where it starts; with no alert waiting, both ends are the same, which is `OutagesTold`.

**PostgresStoreProofs.**  `ContractKept`, the refinement of `StoreContract`, holds for any
feeders at work at once.  What a feeder has looked up may be out of date when it commits, so
`StoreInv` is about what its statements do whenever they take effect: they name only ids
that were given to rows of their context, put only what was reported of it, and delete only
where there were several.  Statements are executed by a fold.  Induction over data
is out of the provers' reach, but not a fold with a given operator: `AfterUnfolds` shows, by the
least counterexample, that the function which the fold is defined by exists, and
`AfterDescends`, in the same way, that after each statement every row comes from one of
the table or from an insertion (`Descends`).

`AloneFollows` is about a feeder that is the only one at work, and gives `RowsAlwaysFollow`.  Its
invariant, `LoneInv`, is about three things: what the feeder has in its cache, what it sees of
the table after its statements so far, and what is committed.  It says of the contexts that
the message has not come to (`Ahead`) that the three agree (`CacheTrue`, `StillAsCommitted`),
that the cache has all rows of those that are next (`CacheFull`) and that none of these is to
be deleted (`Spared`); and of the contexts that are dealt with, that all rows but one are
(`MadeOne`), and that what differs from what is committed is among the statements for the archive
(`ChangesNoted`).  A commit in the middle of the message makes the view what is committed
(`CommittedSteady`); a report changes rows of its own context only, so that it is enough
to look at what it does to them (`DealtSteadily`).  The flags are those of the table, any
set of them, so that all ways to look up rows and to decide are covered.

**StoresProofs.**  One part after the other, as in AnalysisProofs.

- *mongodb.*  What a storer has found can be written back at any time, so `MongoInv` asks of
  the documents in the memory of storers what `LinksResolve` asks of those in the database;
  and a storer that is about to insert has archived the document it will refer to.
  `OneInv` is about a storer that found itself alone: what it knows is still all there is of
  its context, so that it leaves one document, with what was reported.
- *influxdb.*  `PointsInv`: each point taken is at the server or in the cache.
- *Messages.*  No state is needed for the rows of a message, but what their
  contexts are made of (`SaysOfRow`): a worker that takes apart its part of a message gets
  what the supervisor made of the whole (`ReadBack`), so that the points of the parts
  are those of the message.  `ShardInv` counts the processes that listen for each instance.
- *The older workers.*  `OldInv` ties three things together.  Rows have ids of their own;
  what a feeder is to do, whenever it commits or is taken back, inserts rows with ids that no
  row and no other feeder has, or replaces rows it looked up before its time (`OldFeederSound`).
  `OldCommitted` unfolds the statements of a transaction: a row was inserted, or is of a row
  that was there and has the time of the message if one of them replaced it.  And of
  each row that is not `stale` the entries tile the time until it was created anew
  (`TiledTo`): the one statement that replaces it adds the entry that was missing
  (`ReplacedOnce`).

  `MessagesAlwaysStored` is about a feeder that took its message while the others were idle;
  `FullInv` says that they still are, or that it no longer counts as alone, so that rows
  change by its own commits only.  It follows what the feeder's transaction sees, `Pending`,
  through the statements: one more statement is one more step of the fold
  (`OneMorePending`), and a commit in the middle makes what is seen what is there.  What was
  looked up is still seen as it was but for the rows of contexts already dealt with
  (`LookedUpSound`), and each document dealt with is in a row, up to the time stamp of the rows
  to touch (`Held`).  A step disturbs rows of its own document's context only
  (`OneMoreDealt`), which is where the exception for several documents of one context is needed.

Only model-checked: all liveness properties (`StartNullified`, `KeepsPolling`,
`RemovedExpires`, `DeadLeaveUnlessLost`, `CoveredUnlessLost`, `WalkEnds`, the liveness half
of `ImplementsContract` and that of `SubnetsWatched`), which are out of the prover's
reach; and `TimeOfTheFastest` of SubnetScan, whose rows are selected recursively.

## 7 Where code and documents disagree

| Run | What it shows |
|---|---|
| `v_received_throttle` | two supervisors hand out two polls of one test at once, although `polld.yaml` promises a pause |
| `v_forgotten` | a test switched off with period zero and on again is not polled until a restart |
| `v_ring` | a scheduler that dies, and whose entry another overwrites, stays in a third one's ring for ever |
| `v_hstore` | an older worker that finds an archive table there already loses what it had stored of the message, where the code says that this is fine |
| `v_files` | the file of a category goes on listing its last device after that is gone, where the code says that it removes hosts no longer in use |

Others are plain from the code, are modelled as they are, and have no run of their own.
Where a property would be untrue because of one, the property names the exception.

- `failed_throttle_time` is read (`poller/managers.py:117`) and used in no condition; the
  `finally` block moves the next probe on for requests that a throttle rejects (239);
  `process_log` calls `initial_state( now )` (308), a function without parameters, so the
  log of a test without a record is lost (`DropLog`).
- The alarm that ends a conversation of `NetConfig` becomes an error of its own
  (`poller/agent.py:1017`), and a slow device is reported to have no suitable driver.
- A walk notices only an instance that comes twice in a row (`poller/agent.py:948`), and
  the last instance of a device's view is overwritten by the mark of its end.
- `regraft` says that it moves the children of an entity to its parent (`poller/driver.py:356`).  If
  the tree does not have that parent, it drops their branches from the tree, where the loop
  does not find them afterwards: if one of those children is removed next, what is below it
  goes on naming it.  That happens below what a transceiver contains, which was told a port
  for its parent (502): hence `Plain` in `ParentsReported`.
- `reattach_as` raises a `KeyError`, and the group is not reported, if a child of the
  transceiver was removed or renamed before it (404); so does the end of
  `post_normalise_entities` if the only chassis has no serial number and is not at the top (577).
  `LostForAReason` names these.
- `post_fan_physical_index_lookup` (`poller/driver.py:795`) needs a field that exists only if
  the group it looks into was dealt with before, which the order of a dictionary
  decides; `post_merge_wireless_apname_on_radio` (744-752) uses the access point of the radio
  before when a key does not match.
- A report that says less than the row, and has new fields as well, is a minor change: what it
  does not say goes without a note in the archive (`storage/feeders/postgres.py:304-332`, `Replaces`).
  What a message says twice of a context is out of the promise too (`Once`).
- The postgres feeder archives the new data, not the old (`storage/feeders/postgres.py:338`);
  a minor change resets `created_at`; rows that are to be made one keep the oldest
  row, and the report that found them is not stored (667-686); ids to touch are kept
  from message to message (512-539).
- In the older postgres storer a partition is known only to the process that made it
  (`storage/workers.py:656`), and `archive_and_update` of a row of a partition always
  raises (606).  Its `save` compares each document of a message with the rows looked up before
  all of them (813): of two documents of one context, one that agrees with the old row does
  not undo the change of the other.
- The status of influxdb's answer is overwritten with 200 (`storage/feeders/influxdb.py:103`),
  and what is below the threshold waits in memory.
- `le` compares as `ge` does (`analyse/generic.py:190`); `match_context` raises when a field is
  absent from the context (`alert/commands.py:101`).
- The key of an uplink is written in lower case and looked up as it is
  (`watcher/workers.py:376, 488`); the `expire` option of the host watcher never reaches its
  worker (`watcher/commands.py:182`).
- A file of devices that an interrupted update has truncated (`ipam/commands.py:220`) makes
  every later update fail, until somebody repairs it.

With two supervisors an update can also be lost outright: `SettledState` and
`StartNullified` are claimed for a single supervisor only.

## 8 Not modelled

- **slac_utils**, which is not part of the repository: the AMQP client, the base
  classes of the daemons and the hash ring are taken from how they are used.  So are
  postgres, mongodb, redis, memcached, fping and the SNMP library.
- **BaseScheduleSupervisor** (`scheduler/managers.py:18-150`), an older, single-host
  scheduler that only the subnet scanner uses: SubnetScan keeps how often a subnet is
  scheduled, the heap itself is in Schedule.
- **`analyse/analyser.py`** imports a package that is not part of the repository and
  cannot be started.
- **Conversations**: the prompts and commands of NetConfig and of the command line agents,
  SNMP sessions and credentials, sockets and their reconnection.  What a device says is
  an input.
- **Data**: passwords, driver paths, statistics keys, routing keys, the text of
  statements, messages, mails and errors, and everything the YAML parser does beyond
  yielding a period per test.
- **The components that the table of `PROJECT.json` calls not modelled**, with the reason
  there: input and output without state of their own.
- **Compositions** across queues, except for supervisors with workers: the modules
  communicate by messages that each of them takes as an input, any message at any time.
