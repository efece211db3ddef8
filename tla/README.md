# refraq in TLA+

A verification project for the coordination logic of refraq: how durable Jobs
are minted, claimed, supervised, lost, cancelled and reaped; how schedules turn
clock ticks into Jobs; how Data Channel runs walk a graph, retry, read a change
log, answer callers and keep datasets; how Source Jobs write the catalog; how
entities are published; how access policies become views; and how a process
admits work. The modules are TLA+, the small instances are checked with TLC,
and theorems about the core are proved with TLAPS.

Contents

1. [The system](#1-the-system)
2. [The modules](#2-the-modules)
3. [The runs](#3-the-runs)
4. [Where code and documents disagree](#4-where-code-and-documents-disagree)
5. [What is proved](#5-what-is-proved)
6. [What is not modelled](#6-what-is-not-modelled)
7. [Plan](#7-plan)

## 1. The system

refraq is a FastAPI service with PostgreSQL, Redis, Celery workers, one Celery
Beat and a browser console. It keeps two databases: the platform database with
every row named below, and the entity database with the tables, views, change
log and datasets of Business Entities. No transaction spans the two. Handlers
are mostly single transactions; the hard part is what several processes do to
the same rows over time. `session_scope` (backend/core/db.py) is one
transaction, and therefore one atomic step here. A recurring pattern of this
code is the save of a whole record that was read in an earlier transaction
(Jobs, schedules, channels, versions, datasets); the models keep the two steps
apart everywhere.

| Component | State | What makes it hard | What makes it correct | Modules |
|---|---|---|---|---|
| Job primitive (backend/jobs) | `jobs` row: status, claim, outcome, log | child, task, API, reaper and restarting workers all write the row; the log writer saves whole rows | work entered once; outcome agrees with status; every lost Job is noticed | JobLifecycle, Jobs |
| Occupancy (backend/worker/occupancy.py) and System Parameters | `claimed_by`, `locked_at`, a timer in each worker; one row per key with its previous value | reconnection, restart under the same name, a parameter changed while a timer is armed | a living worker keeps its Jobs, a dead one loses them; changes take effect, but not before it is safe | Jobs, LostDetection |
| Scheduled Tasks and Beat (backend/worker) | `scheduled_tasks` row, Beat's snapshot, tick messages | ticks are late, repeated or meet a changed row; crash between mint and dispatch | one Job per consumed Instant; no catch-up; pause and delete do what they promise | Schedules |
| Source Jobs (backend/metadata) | catalog, joins, Kind execution lock | stop check, commit and stamp are separate; children survive their worker; people edit meanwhile | the catalog is the last collect; people's words stand | StructureRun |
| Data Channel engine | node executions, edges, rounds of Containers | depth-first walk with rounds, retries and stops | dataflow: after the predecessors, once, when a live edge enters, afresh in each round | Dataflow, ChannelWalk |
| Data Channel recovery | chain of runs, failure streak, channel row | runs that end at once, owner's edits, failing mints | chains end; an alarm once, at the end; the streak counts | Recovery |
| Change log and checkpoints | numbered entries, purge mark, cursor per node | commit order against numbering; overlapping runs; purges | entries appear in order of their numbers; no unread change is passed | CommitOrder, ChangeFeed |
| Inbound requests | event-id row, answer slot | reservation, run and answer are transactions of their own; windows end | one run and one answer per event id and window | Inbound |
| Channel definitions (backend/channel) | drafts, versions, the synced schedule row, the site-wide path, accounts | a publish, an activation and a deletion are several transactions each, from what was read before | a channel is started by its latest version and by nothing else | Publication |
| Channel datasets | registry rows and tables in two databases | loader, run end, keeper and purge save whole rows | a due dataset is cleaned up, a living one is not swept | Datasets |
| Entity publish (backend/entity) | version rows, tables, stem view, table lock | DDL and metadata are separate; attempts fail, die, are retried | published or undone; rows survive | EntityPublish |
| Entity definitions and Dictionaries (backend/entity) | definitions in versions, keys and codes frozen by a publish, lists of codes | every request checks in one transaction and writes in another; drafts and heads differ | what a published version is bound to does not change underneath | Definitions |
| Entity access (backend/entity/access) | ladders, profiles, grants, restrictions, compiled views, two revisions | membership and time change without a compilation; edits and Jobs race | every answer is what the cell rule says; no stale answer; a retry is answered | AccessPolicy, AccessViews |
| Admission (backend/core) | counters of one process | cancellation and failure on every path | the counters are the work | Admission |
| Connectors, identity, tokens, tags, branding, model services | rows, foreign systems | little | uniqueness, references | none |

How they interact: Beat sends ticks (Schedules) whose tasks mint Jobs (Jobs);
workers run Jobs and renew their occupancy; the reaper is itself started by a
system schedule and reads the occupancy and a System Parameter (LostDetection);
domain bodies run in a child process that checks the Job row now and then
(cooperative stop) and stamps it at the end. Channel runs are such bodies
(ChannelWalk); their end is settled in the same child (Recovery), which mints
further Jobs, and moves the checkpoint (ChangeFeed). Publishing an entity
changes its table, its triggers (CommitOrder) and its views, and an access edit
mints a Job that compiles the views anew (AccessViews) under the lock that
publishing takes.

`PROJECT.json` lists every component with its sources and every hazard at the
line where it bites, with the properties that cover it.

## 2. The modules

### JobLifecycle

The promise to callers of the Job primitive, in five actions: a Job is minted,
taken, begun, and succeeds or is abandoned. Work begins once and only while the
Job runs, a result exists exactly on success, a terminal status is final.

### Jobs

The detailed model. One step is one transaction or one call of the code.

| Variables | Code |
|---|---|
| `row` | the columns of `jobs` that decisions depend on: status, claimed_by, error_code, result present, running time limit minted |
| `broker` | unacknowledged `run_job` messages |
| `task` | where `run_job` / `supervise` stands: claimed, watching the child, finishing, or in the except branch |
| `child` | the child process: starting, working |
| `copy` | a row that `append_job_log` has read and not yet saved, per writer (child, task, HTTP cancel) |
| `http` | a cancel request between its stamp and its log line |
| `worker`, `abandoned`, `leftovers` | worker processes, the guard of `on_worker_ready` and its listing |
| `reaper`, `suspects` | the two passes of `reap_stuck_running_jobs` and the listing of the current pass |
| `stale`, `overdue` | what the clock has done to locked_at and started_at |
| `runs` | history: how often the domain work was entered |

Decisions a reader should know:

- The guard of every stamp is the `from` set that the caller passes to
  `cas_terminal`. `append_job_log` saves every column of the row it read.
  SQLAlchemy writes only columns that differ from the freshly loaded row, which
  leaves the same row as writing all of them.
- `Chatty` are the Jobs that log while they run (structure, join detection,
  embedding, entity kinds). For the others (`channel_run`) only HTTP cancel
  logs, after it has stamped the row.
- `ChildSettles` offers every stamp a body can make. Between stamps the child
  may log again and may stamp again, until it exits. A body that returns
  without a stamp (`stopped_result`) is `ChildExits`.
- A worker crash ends its tasks; any subset of its children survives, because
  they run in sessions of their own. A warm shutdown is a crash at a moment
  when nothing runs. `LosePoolProcess` is the death of one pool process under a
  living worker.
- Dropping a revoked message and acknowledging an unclaimable one are one
  action, `DeliverUnclaimable`.
- Abstracted: time, one HTTP cancel per Job at a time, `celery_task_id`. Left
  out: a database error before the claim, two workers with one identity, the
  shared slot of a worker without a hostname, deletion of Job rows by the
  channel's keeping policy, the in-memory store.

Fairness (`FairSpec`): a living task, child watcher and abort path take their
next step; a stopped worker is started again (the deployment restarts
containers); Beat fires the reaper and its passes end; a message is delivered
to some worker that is up; time passes for the Jobs of a stopped worker and for
minted limits. Nothing is assumed of a body (it may hang), of a dispatch (it may
never happen), or of a renewal coming in time.

### LostDetection

The clock behind `stale`. A unit is 5 seconds, the floor of the renew interval.
`parameter` is the stored row (value, previous value, time of writing);
`renewAt` is the armed timer, with the interval read when it was armed;
`suspects` is the reaper's listing. Timers are punctual: a due renewal goes
before the reaper and before the next instant. The cutoff has no margin beyond
that, so the model says what holds when renewal takes no time. At most one
renewal in a row raises, and none while a change settles. `OneAtATime` says that
the administrator waits for a change to settle; without it the property fails
(see section 4). One worker is enough: workers share only the parameter.

`reaperRow` is the hidden schedule row of the reaper, `beatEntry` says that Beat
has its commitment and has not sent it. Every `SyncEvery` `BeatReloads` aligns the
row's interval with the parameter and takes the commitment; the commitment that
is already there stays. `ReaperLists` consumes it when it is due and lists in any
case, for a task may be delivered again at any time. Beat and some worker that
runs its tasks are up: time does not pass over a reload or a due commitment.
`LostJobIsNoticed` says how long a Job that nobody renews may stay unnoticed, and
how long the reaper may keep the cadence of an older value. Left out: the degraded
read under database failure, an outage of Beat or of all workers, and a pass that
comes between Beat's reading and writing of the reaper's row.

### Schedules

One domain schedule. Instants are minutes; `None` is -1. `beat` is the
commitment in Beat's memory, `ticks` are unacknowledged tick messages by their
`due_at`, `pending` is what a task will do after its commit. The tick actions
are the outcomes of `consume_due_tick`, each with the mint, the cursor and the
cancellation that happen in the same transaction; `TickEnds` is the dispatch
after it, and `TickCrashes` is a worker death before or after the dispatch with
the message delivered again. PATCH is a read and a later write of the whole
row, which inserts the row if it is gone. DELETE lists, cancels one by one and
deletes. The cron expression is `every CronStep-th minute`; `Interval` is the
interval cadence; a PATCH may switch between them and set `start_at`.

Abstracted: the commitment that a PATCH writes is computed at its write rather
than a moment earlier. Left out: time zones and the realignment of commitments,
run-now, rows whose Source is gone (they cancel like deleted ones), system rows
(they mint no Job), two workers on one message at once, and the publish and
activate paths of channels.

### CommitOrder and ChangeFeed

`CommitOrder` is the pair of triggers on an entity's table: entries are appended
with sequence numbers while a transaction is open, and at COMMIT the deferred
trigger takes the counter row of each entity written, in the order of their
ids, and numbers the transaction's entries. `holder` is that row lock, `counter`
its committed value, `log` the entries, those of open transactions included.
`ChangeFeed` extends it with one reading node of one channel: `cursor` is the
stored checkpoint, `run` the runs that overlap, with the range each has opened
(start, bound, the mark it compared), what it got, and its proposal. Purges
delete by the start of the writing transaction, which differs from commit order,
and raise the mark. `kind` chooses between `read.changes`, one page at a time,
and `volume.changes_dataset`, which loops over pages. `gone`, `got`, `unseen`
and `purged` are history; `Hidden` names what the marks around a dataset's load do
not answer for (observation 14). Left out: the one-time conversion of old positions
(adopt_commit_order).

### Inbound

Handlers (`pc`), the event-id row (`row`), the Jobs (`job`), the Respond nodes a
run executes (`node`), the response slots (`slot`) and what each side was told
(`told`, `sent`). One event id, which any of the calls may carry. Handlers may
die between any two transactions, the sweep may start a run that its handler
has not dispatched yet, windows end. Timing assumed of the deployment: a living
handler attaches or abandons before its window of at least 60 s is over, and the
slot's time to live outlasts the handler by its margin of 120 s. Left out:
credentials, parsing of bodies, path registration and the list of rejections.

### Recovery

What the child does after the stamp of a run: retry or end of the episode,
streak, error workflow, keeping settings, with the two-step saves of the channel
row by settlements (`settling`) and by the owner (`edit`). `attempt` holds the
runs in the order of their mint, with the run each retries. `closed`, `overlap`
and `cut` are history: what `StreakCountsEpisodes` exempts is a settlement cut
short and channel rows written over each other.

### Datasets

The load of a dataset by chunks or by one query, its registry row and its table
in the other database, the seal at the end of a run, the keeper, and one pass of
the purge, step by step: seal, drop the expired, drop those of old runs, sweep
tables that no row claims. `loader` is where each load is and the row it holds,
`purge` the pass with the rows it listed. The drop of a table may fail wherever the
code catches that: the load and the keeper go on, a pass goes on with the next one.
`ripe` is history: what a pass must clean up, that is, what was due when it began,
was not being loaded, still had its Job, and has not met a failing drop. `unread`
is history: what loads have saved since the sweep read the registry. Left out:
reading a dataset back.

### Publication

Drafts with their revision, versions, activation, rename and deletion of
channels, and the accounts that graphs name. `channels` holds the rows and their
versions, `synced` the Scheduled Task row of each channel, `held` the channel of
each inbound path. A request (`request`) is where it stands between two of its
transactions, with what it has read: a publish checks, stores the version, syncs
the schedule, claims or withdraws the path; activation and rename save the
channel row, read the schedule row and write it whole; a deletion withdraws
schedule and path before the row goes. `Dies` stops a request anywhere. `torn` is
history: what a stopped request left undone, until a later one does it.
`crossed` is history: a write from something that no longer held. The four kinds
of accounts (inbound credentials, webhooks, HTTP and email accounts) scan the
references in the same way, so one set stands for them. Left out: descriptions,
Tags, permissions, and the Jobs that a deletion cancels (Schedules has them).

### Dataflow and ChannelWalk

`Dataflow` is the abstract specification: no stack, no edge states. `ChannelWalk`
is engine.py: a state for each edge, a stack of ready nodes, depth first, and a
frame for each Container with a round open. `ValidGraph` is what validation
(graph.py) admits. Nodes are numbered by canvas position, which need not follow
the edges; in the run it does, in the theorems it need not. A node's outcome is the set of ports it leaves live; on_error and
`skipped` reduce to such sets or to the failure of the run. With a stop node,
rounds execute only its ancestors. Containers have one input, `main`, so
`_back` has nothing to do here. Left out: wall-clock limits, on-error outputs as
data, run records.

### StructureRun

Jobs of two kinds on one Source: claim, Kind execution lock, stop checks,
collect, baseline, merge, commit, diff, stamp; children that outlive their Jobs;
people who edit semantics, add, reject and delete joins meanwhile. `catalog`
holds the objects with their columns and presence, `joins` the joins, asserted by
foreign keys, detection or people. The merge is the code's: matching by name and
type (a view may become a materialized view and keeps its id), columns that are
absent and return, foreign keys resolved to joins. The "ambiguous" abort of
identity.py needs three types in one identity group; there are two. Embedding
Jobs are left out: they write vectors and call an external model.

### EntityPublish

Requests (`call`) that publish, drop, retry a policy, edit, open and deprecate
versions, each step a transaction in one of the two databases, and their Jobs
under the table lock. `torn` records an attempt that ended between its two
databases, `overwrote` a save that put back an older row, `again` a published
version that was published once more (observation 17); `ViewSelectsHead`
exempts exactly these, `RowsSurvive` nothing. An attempt that is undone may leave its
table, because it has rows or because the revert fails. Check and save of deprecate and
of opening a version are one step. Left out: profile views (see AccessViews),
grants, identity patches, deletion of the entity.

### Definitions

What versions say of each other and of one Dictionary, next to what
EntityPublish says of their tables. A definition (`shape`) is its Business Key,
the entities it refers to and whether it uses the Dictionary; which definitions
are submitted is a constant. `author` is a request between its checks (`Admits`)
and its write of the row it read, `publish` the Job with the keys and codes that
acceptance froze, compared (`Bind`) and stored (`StoreBound`) in different
transactions. `crossed` is history: a write whose checks, evaluated again, would
no longer pass, or the removal of a code that a version or a bound Job holds.
Left out: names, tags, other attribute types, several Dictionaries, listings.

### AccessPolicy

One entity's ladders, profiles, grants and restrictions, the views compiled from
them, and what a request reads through a view, next to the cell rule that the
compiler's documentation states (`RuleAnswer`). An edit, a regeneration and a
request are single steps. Row rules are sets of rows with the attributes they
name. `views` are the bindings: action, set of profiles, restrictions on some
subjects that the view includes. `current` says that the views are of the
latest revision. `ViewAnswer` follows the generated SQL: which columns there
are, which are withheld per row, how ceilings lower them; `MatchSql` keeps the
three-valued logic. `WriteGrants` is the check of a write, which consults grants
and not views. Left out: the rule language, masking expressions, the signature
of the context, filters and sorts, row CRUD.

### AccessViews

The revision fence. A policy is the number of edits that made it. An edit reads
the revision and writes its successor in one transaction that locks nothing
before it writes, then looks for a Job in flight, and mints one if there is none.
The Job reads the revision, then the policy, replaces the views, the bindings,
`views_revision`. A request reads the revision, compares both, and asks the
views, which answer the revision that is in them. `raced` is history: policies
that were committed over a revision already taken. Left out: a publish, which
regenerates too, and cancellation of view Jobs.

Fairness (`ViewsFairness`): view Jobs are taken, finished or reaped; a minute
passes; an edit whose transaction began ends; who is told to retry asks again.

### Admission

The in-flight limit of the middleware, the slots and shares of the admission
pool, and the threads. Work that is cancelled before a thread takes it stays
counted: nothing releases its slot (see section 4). Left out: shutdown of the
pool.

### The MC modules

`MCJobs`, `MCLostDetection`, `MCSchedules` and `MCChangeFeed` instantiate one
component. `MCRows`, `MCOperations`, `MCChannel`, `MCPlatform` and `MCAccess` put
components that share no state side by side: `focus` picks the one whose steps a
behaviour takes, the others rest in one initial state. Interleaving them would
add states and nothing else. A VIEW leaves the resting components out.

## 3. The runs

| Run | Instance | Shows |
|---|---|---|
| `rows_safety` | Jobs: one logging Job, with or without a time limit, two interchangeable workers, one crash. Publication: two channels, four drafts (a schedule, an inbound trigger not filled in yet, each of two paths with the one account), two versions, two requests at a time; ~1.9 million states | `TypeOK`, `EnteredAtMostOnce`, `OutcomeMatchesStatus`, `NoSelfAbandon` hold although the log writer revives ended rows; `ChannelsAreServed` |
| `jobs_liveness` | one Job that does not log, with or without a time limit, two workers, one crash, fairness; ~47,000 states | `DispatchedIsDecided`, `LostWorkerIsNoticed`, `LimitEndsRun`, `CancelStopsChild`; the Job implements `JobLifecycle` |
| `jobs_terminal` | the Jobs of `rows_safety` | `TerminalIsFinal` is violated |
| `operations` | LostDetection: 15, 30, 60 s, 80 s of time, a reload every 30 s, two writes, each settled. Schedules: both cadences of period 2, `start_at` 3 or none, five minutes, one PATCH, one crash, deletion at any time. Definitions: an entity that refers to another and to a Dictionary of two codes, two keys, two versions each, one request of definitions and one of the Dictionary at a time; ~2.3 million states | `LivingWorkerKeepsJob`, `LostJobIsNoticed`; `CommitmentsHold`, `MissedSlotsAreSkipped`; `DefinitionsAreKept`, `DefinitionsTypeOK` |
| `lost_detection_twice` | LostDetection with writes at any time | `LivingWorkerKeepsJob` is violated |
| `schedules_pause`, `schedules_delete` | four minutes of Schedules | `PauseKeepsJobs`, `DeleteCancelsUnfinished` are violated |
| `schedules_dispatch` | four minutes, no PATCH, fairness of Beat and of tick tasks | `QueuedIsDispatched` is violated |
| `change_feed` | three writing transactions with one entry each and a run, or two with two entries in all and two overlapping runs, of either kind; pages of one entry, purges by any cutoff, recording switched off and on; ~3.9 million states | `OnlyReadIsPassed` |
| `channel` | Inbound: two calls, one run in flight, two Respond nodes. Recovery: three runs, one retry, one edit. Datasets: two, ceiling 2 chunks, two purge passes, one failing drop; ~2.8 million states | `OneRunPerEvent`, `ReplayIsTheAnswer`, `DeliveredIsReceived`; `ChainIsOver`, `StreakCountsEpisodes`; `PassCleansUp`, `SweepSparesKnown`; `CapIsKept` and `LoadsStopAtCeiling`, the caps of both |
| `platform` | CommitOrder: two entities, three transactions, two entries each. ChannelWalk: every valid graph of four nodes with two ports, and of five with Containers, nested or not, two rounds, two tries. StructureRun: two refreshes and a detection. EntityPublish: three requests, two versions, one death. Admission: five requests of two actors, three slots, shares of two; ~1.6 million states | `VisibleInOrder`, `NoWaitCycle`; the walk implements `Dataflow`, `OutputsAreFresh`; `CatalogIsLastCollect`, `HumanWordStands`; `ViewSelectsHead`, `RowsSurvive`; `SlotsCountWork` |
| `access` | AccessPolicy: two attributes, two rows, two Users and the System Identity, two Roles, a group, three profiles, four grants, a restriction in three modes, a cap of one combination. AccessViews: two editors, two edits, one caller, one fault; ~0.6 million states | `AccessFollowsRule`, `PendingIsGenerated`, `RegenerationKeepsAnswers`; `NeverStale`, `RetryIsAnswered` |

Why the bounds are enough. Jobs do not interact except through a worker's
listing, the reaper's listing and crashes, and the safety properties speak of
one Job; the theorems of section 5 cover any number. Two workers give the crash
of the claimant while another one runs the reaper, and one crash gives every
order of death, restart and abandonment. In LostDetection, 16 units exceed the
largest window (12) plus its renew interval (4), and two writes give every pair
widen/tighten; with reloads every 6 units and windows of 3, 6 and 12, a reload is
both rarer and more frequent than a pass. In Schedules five minutes hold two full
periods after the first slot, so a late tick, its skip and the next slot all happen.

In ChangeFeed three entries are one before, one at and one behind a page
boundary, and three transactions one that is purged before, one that is purged
during and one that is left for a load; two runs give every order of reads and advances. In Inbound two
calls are the owner of a window and the one that follows or repeats it. In
Recovery three runs hold a chain of two next to another run. In Datasets two
loads race for the ceiling and one is what the sweep must spare while it takes
the other. The graphs of the walk are all there are of their size, joins,
diamonds, dead branches and nested Containers among them. In EntityPublish two
versions and three requests give a publish over a head with a racing request on
either side. In AccessPolicy a combination of each two of the three profiles is
held by someone, so the cap of one is exceeded. In AccessViews two edits and two
editors are what it takes to lose a number.

In Publication three revisions and two versions change a trigger from any kind to
any other, and the second channel wants the path of the first.

In Definitions two versions are a head and a draft that differs from it, which
is what the search for bound keys must see through; two requests of definitions
that both pass their checks at their writes act as if one followed the other, and
if they do not, nothing is asked, so one at a time next to the Jobs and an edit of
the Dictionary loses nothing that the property speaks of.

Constraints, where a component has one (`Few`, `Bound`), name themselves: `InOrder`
and `InTurn` let alike processes begin in one order, which relabelling makes no
loss; `Uncrossed` ends a behaviour of Definitions where the property no longer
asks anything; `FewChildren`, `FewRounds`,
`FewFaults`, `FewRuns`, `FewLoads`, `Few` of MCRows and `Bound` cut how many things overlap at
once, never what a single one may do. CHECK_DEADLOCK is off in the runs whose
components come to rest when their bounded supply of requests is used up, and on
in `jobs_liveness`. Definitions come to rest when the entities are deleted or
deprecated and the Dictionary is deleted, Publication when the channels and the
account are.

Each passing property is also run against a plausible mistake in one definition
(the `_Wrong` operators of the modules; the pairs are in `PROJECT.json`), which
must violate it.

## 4. Where code and documents disagree

1. **A late log line revives an ended Job** (`TerminalIsFinal`).
   `append_job_log` reads the row (jobs/store.py:696), and saves all of it
   (:703). A cancellation, a reap or the child's own stamp in between is undone,
   against docs/glossary.md:246. A revived `running` row ends again by the
   running limit or the reaper; a revived `queued` row waits for a delivery.
   What still holds is that the work is not entered twice and that outcome and
   status agree: both are theorems.
2. **A second parameter write ends the tighten grace** (`LivingWorkerKeepsJob`
   without `OneAtATime`). `set_parameter` takes the current value as the
   previous one, also for a repeated value, so 60 -> 15 -> 15 loses the grace
   that docs/business-system-parameters.md:125 promises.
3. **A redelivered tick cancels a Job after a pause** (`PauseKeepsJobs`).
   worker/due.py:143 mints-and-cancels for a paused interval row without asking
   whether the Instant was consumed; docs/business-scheduled-tasks.md:75 says
   pause leaves queued and running Jobs alone.
4. **DELETE and a tick race** (`DeleteCancelsUnfinished`). Jobs are listed
   before the row is deleted (worker/api.py:545); a tick in between leaves an
   unfinished Job, against docs/business-scheduled-tasks.md:76.
5. **A minted Job may never be dispatched** (`QueuedIsDispatched`). After a
   crash between commit and dispatch the redelivered tick is turned away by
   `commitment_replaced` or by the slot gate, so it does not reach the branch
   that dispatches again (metadata/source_jobs.py:328), which the test at
   backend/tests/test_channel_run_lifecycle.py:217 exercises by rewinding
   `last_run_at` by hand.

Seen while modelling; the models contain the behaviour, and the properties
except it by a history variable or by name rather than hide it:

6. **Two access edits take one number** (`raced` in AccessViews). `_commit`
   reads the revision without a lock, so two commits write the same successor, or
   a lower one; views compiled between them pass for current.
   docs/api-contracts-entity-access.md:334 says "concurrent writes serialize per
   Entity and each bumps `policy_revision`", docs/business-entity-access.md 11.3
   "They are never answered with a stale policy".
7. **A restriction that names a Role hides every row from who has none**
   (`RoleDecides` in AccessPolicy). Comparing with an absent Role is NULL
   in `_match_sql`, and NOT NULL is NULL, so an "except" restriction applies to the
   System Identity, against docs/business-entity-access.md 9.3.
8. **Empty instead of pending.** A request accepted just before a commit and its
   rebuild finds views of another revision and gets no rows, not
   ENTITY_ACCESS_PENDING (`Query` in AccessViews).
9. **A doubled view Job.** Two requests that find no Job in flight mint two; the
   loser of the table lock fails as JOB_ALREADY_ACTIVE, and requests stay pending
   for up to a minute although nothing is wrong.
10. **Overwritten versions** (`overwrote` in EntityPublish). A slow
    `save_version` of a stale copy, or the rollback of a Job that lost the lock,
    can turn a published version unpublished; publishing it again then meets its
    own table (ENTITY_TABLE_NAME_CONFLICT), against docs/business-entity.md:127. A
    worker that dies after the DDL leaves table and view with a version that is
    still `publishing` (`torn`). A late publish on a deprecated entity
    re-creates a dropped table, and a policy retry of a superseded version puts
    older change log settings back.
11. **A settlement can undo an owner's `active`** and an owner's edit a streak
    (`overlap` in Recovery; docs/business-data-channel.md:395). A lost or killed
    run gets no settlement; a retry whose mint fails ends the episode without
    closing it; a streak saved on a deleted channel raises, and the error workflow
    is skipped (`cut`).
12. **A slot that is never given back** (Admission). Cancelling a request whose
    work no thread has taken yet cancels the future; `_run` never runs and its
    `finally` releases nothing.
13. **A rejected join may vanish.** `delete_join` checks the rejection in another
    transaction than the deletion.
14. **A purge that the mark does not show** takes changes a run does not report
    (`unseen` in ChangeFeed). One comes between the mark check and the read. Another
    comes during the load of a dataset: entries are purged by the start of their
    transaction and numbered by its end, so a purge may take an entry below the mark,
    and the mark stays. `_purge_moved_past_start`
    (channel/nodes/volume/changes_dataset.py:190) compares the marks before and after,
    lets the dataset stand, and the cursor passes the entry; its comment says "`start`
    none means the beginning: any new deletion passes it". It takes three
    transactions; the proof of `OnlyReadIsPassed` asked for the exception (`Hidden`).
15. **Keys and codes can change under a race** (`crossed` in Definitions). Two
    requests that each pass their checks may together rename a Business Key and
    bind it; a code is removed between a Job's comparison and its store. And a
    draft that changes its key, and whose new key another publish then binds (the
    target's current version counts, published or not), cannot be published until
    that reference goes. Deprecation and deletion look at current
    versions only, as docs/business-entity.md 2.6 and 3.5 say: a head may serve a
    reference to a deprecated entity.
16. **A channel may be started by what it no longer says** (`crossed` and `torn`
    in Publication). An activation that died after its save cannot be repeated,
    for set_channel_active returns when the flag already has the value
    (channel/service.py:333); a rename, a failure streak or a publish writes the
    `active` it read over a concurrent activation; a publish that crosses a
    deletion leaves a schedule row without a channel; and a claim that fails after
    publish_version leaves a version without its path.
17. **A published version may be published again** (`again` in EntityPublish).
    `execute` does not ask for a row that is publishing (entity/publish.py). Let two
    policy retries of one version and a drop of its table all find no Job in flight
    before any of them mints. When the first retry has applied the policy and the
    drop has removed the table, the second finds the row published, nothing pending
    and no table: it creates the table again and moves the view back to a version
    that another one had superseded, against docs/api-contracts-entity.md:587 "A second
    publish of that version is still rejected". The attempt to prove
    `ViewSelectsHead` without an exemption for it met this.
18. **A dataset may outlive its Job for good** (`Keeps` in Datasets). The keeper
    deletes the record and the Job although the drop of a table failed. A row that
    was not sealed by then never will be, since sealing reads the Job; one that is
    `loading` is skipped, sealed or not, because its Job is not found
    (channel/dataset_registry.py:538); and the sweep spares both tables. They count
    against the ceiling of all channels. `PassCleansUp` asks for datasets whose Job
    is there.

## 5. What is proved

Forty-six theorems in eight modules, for every value of the constants that the
named assumption of the component's module admits: any number of Jobs, calls,
transactions, versions, datasets and crashes, where TLC took two or three. The
assumptions say that sets are finite where something is counted, that limits are
natural numbers (or positive, where the code needs that to divide or to make
progress) and that a "nobody" value is no member. TLC evaluates them in the runs.
Each property was checked by TLC before it was proved, and so were most of the inductive
invariants.

| Module | Theorem | States | Assumes |
|---|---|---|---|
| JobsProofs | `TypeCorrect` | `Spec => []TypeOK` | `JobsAssumption` |
| | `WorkEnteredOnce` | `Spec => []EnteredAtMostOnce` | |
| | `OutcomesMatch` | `Spec => []OutcomeMatchesStatus` | |
| | `WorkerSparesItsOwn` | `Spec => []NoSelfAbandon` | |
| | `QuietJobsRefine` | `Spec => QuietJobsFollowLifecycle` | |
| | `ChannelsStayServed` | `PublicationSpec => []ChannelsAreServed` (Publication) | `PublicationAssumption` |
| LostDetectionProofs | `DetectionTypes` | `Spec => []TypeOK` | `LostDetectionAssumption` |
| | `LostIsNoticed` | `Spec => []LostJobIsNoticed` | |
| | `ReaperSparesTheLiving` | `OneAtATime /\ Spec => []LivingWorkerKeepsJob` | |
| SchedulesProofs | `CommitmentsAreKept` | `SchedulesSpec => []CommitmentsHold` | `SchedulesAssumption` |
| | `SlotsAreNotCaughtUp` | `SchedulesSpec => MissedSlotsAreSkipped` | |
| | `ScheduleIsTyped` | `SchedulesSpec => []SchedulesTypeOK` | |
| | `RefreshesDoNotCross` | `StructureSpec => []CatalogIsLastCollect` (StructureRun) | `StructureRunAssumption` |
| | `PeopleAreNotOverruled` | `StructureSpec => HumanWordStands` | |
| | `KeysStayUnique` | `StructureSpec => []StructureTypeOK` | |
| CommitOrderProofs | `CommitNumbers` | `OrderSpec => [](OrderTypeOK /\ NumbersAreDistinct)` | `CommitOrderAssumption` |
| | `CommitsAppearInOrder` | `OrderSpec => VisibleInOrder` | |
| | `CommitsNeverDeadlock` | `OrderSpec => []NoWaitCycle` | |
| | `CursorPassesTheRead` | `Spec => OnlyReadIsPassed` (ChangeFeed) | and `ChangeFeedAssumption` |
| ChannelProofs | `EventRunsOnce` | `InboundSpec => []OneRunPerEvent` | `InboundAssumption` |
| | `DeliveredBodyIsSent` | `InboundSpec => []DeliveredIsReceived` | |
| | `StoredAnswerIsFinal` | `InboundSpec => ReplayIsTheAnswer` | |
| | `CapIsPassedOnlyByRacing` | `InboundSpec => []CapIsKept` | |
| | `InboundIsTyped` | `InboundSpec => []InboundTypeOK` | |
| | `WalkFollowsDataflow` | `WalkSpec => FollowsDataflow` (ChannelWalk) | `WalkAssumption`, `GraphsAssumption` |
| | `OutputsStayFresh` | `WalkSpec => []OutputsAreFresh` | |
| | `WalkIsTyped` | `WalkSpec => []WalkTypeOK` | |
| RunEndProofs | `StreakIsTheCount` | `RecoverySpec => []StreakCountsEpisodes` | `RecoveryAssumption` |
| | `ChainEndsOnce` | `RecoverySpec => []ChainIsOver` | |
| | `RecoveryIsTyped` | `RecoverySpec => []RecoveryTypeOK` | |
| | `PassLeavesNothingDue` | `DatasetsSpec => []PassCleansUp` (Datasets) | `DatasetsAssumption` |
| | `SweepTakesNoActive` | `DatasetsSpec => SweepSparesKnown` | |
| | `CeilingIsPassedByChunks` | `DatasetsSpec => []LoadsStopAtCeiling` | |
| | `DatasetsAreTyped` | `DatasetsSpec => []DatasetsTypeOK` | |
| EntityPublishProofs | `TablesWithRowsStay` | `PublishSpec => RowsSurvive` | `EntityPublishAssumption` |
| | `ViewFollowsHead` | `PublishSpec => []ViewSelectsHead` | |
| | `WorkersHoldTheLock` | `PublishSpec => []PublishTypeOK` | |
| | `DefinitionsStayKept` | `DefinitionsSpec => []DefinitionsAreKept` (Definitions) | `DefinitionsAssumption` |
| | `DefinitionsAreTyped` | `DefinitionsSpec => []DefinitionsTypeOK` | |
| AdmissionProofs | `CountersAreWork` | `AdmissionSpec => []SlotsCountWork` | `AdmissionAssumption` |
| | `CountersAreTyped` | `AdmissionSpec => []AdmissionTypeOK` | |
| | `RowsAreNeverStale` | `ViewsSpec => NeverStale` (AccessViews) | `AccessViewsAssumption` |
| | `FenceIsTyped` | `ViewsSpec => []ViewsTypeOK` | |
| | `EveryAnswerFollows` | `AccessSpec => []AccessFollowsRule` (AccessPolicy) | `AccessPolicyAssumption` |
| | `PendingIsMade` | `AccessSpec => []PendingIsGenerated` | |
| | `RegenerationKeeps` | `AccessSpec => RegenerationKeepsAnswers` | |

### The arguments

**Jobs** (`IInv`). A row can be rewritten from a copy that is older than the row. `IInv`
adds what the copies may be: every row that is stored or held in a copy has a matching
outcome, a row that has been claimed is never written back to an unclaimed one by a task or
a child (their copies are taken after the claim), and the HTTP handler reads only after it
has cancelled. Hence a claimed row that becomes claimable again does not exist, a second
claim is impossible, and the one claim leads to at most one child and one entry. For
`NoSelfAbandon`, a task that is alive implies that its worker is up and that the row carries
its name, and listings are made only by a worker that has no living task of its own. For the
refinement, the copies of Jobs that do not log are only those of HTTP cancel, whose saved
status is the stored one, so every step maps to a step of `JobLifecycle` or to a stutter.

**Publication** (`PublicationInv`). `ChannelsAreServed` speaks of a channel at rest, so it
is not inductive: what holds in between is divided by what a request may have left undone.
As long as no write crossed another, a channel whose schedule is not torn has the cadence of
its latest version in its row (`TriggerFits`), one whose `enabled` is not torn either has
its switch (`EnabledFits`), one whose path is not torn holds that of its latest version
(`PathFits`), and what all its versions name exists. Of a request it says what its next
transaction relies on (`RequestFits`): a publish that waits for its version has a valid
draft if the revision is still the one it read, one that is past it holds a version of the
channel, and a schedule row that is to be written back was there. The frame lemmas
`RequestMoves` and `OneChannel` reduce a step to the request that takes it and its channel.
The assumption adds to the bounds that cadences are no other triggers. Drafts may be
unfinished: what publish refuses them for is `Valid`.

**LostDetection** (`LostInv`). The timer that will fire next was armed either with the value
in force, or with the previous one no later than one old interval after the write, which is
the grace (`ArmedNow`, `ArmedBefore`); the occupancies of a living worker lag behind it by
one interval, or two after a touch that raised. Three intervals fit in an admitted value, so
what the reaper finds stale is not of a living worker, and what it listed stays an orphan
until it is failed. `OneAtATime` is the hypothesis that a write waits for the grace of the
one before; without it the property is false (observation 2, run `lost_detection_twice`).

`LostIsNoticed` needs no such hypothesis (`NoticeInv`). `NextPass` is when the reaper lists
next: at its commitment, or at the reload from which Beat has it. It is never in the past,
for time does not pass over what Beat has to do (`NextPassIsNear`), and of every running Job
that is not listed it is at most `Wait` after the reaper's test includes the occupancy
(`Awaited`). A pass that does not list a Job finds that time in the future, and the next one
is a cadence or a reload away; a renewal and a write only move that time forward. A cadence
that is not the parameter's ends with the commitment it belongs to, which a reload after the
write has left alone (`BeatOK`).

**Schedules** (`SchedulesInv`). `CommitmentsHold` is required of the row and of the copy a
PATCH holds, and pending work of tick tasks refers to Jobs that exist. The lemmas say what
`CronPoint` and `GridPoint` return: the next multiple, or the next point of the grid,
strictly after `now` and not before the start.

**StructureRun** (`StructureInv`). An object is told by its name and its type, views of both
kinds being one (`SameIdentity`, an equivalence). Where identities are unique, `Match` finds
the one row of an identity, whatever its order of preference (`Matching`), so the ambiguity
that `_match_existing_for_incoming` raises on does not arise; a merge keeps identities
unique and ids, which begin with an identity, too (`MergeFits`). That a plan which waits for
its commit is one from the catalog of now rests on two facts: only the holder of the Kind
execution lock is past its acquisition, so no other refresh has committed; and semantics,
which people edit meanwhile, take no part in a merge (`MergeIgnoresSemantics`). The commit
takes them from the row that is stored (`PersistedRows`). The assumption adds to the sizes
that the contents of a database are finite and that no two of its tables, and no two of its
views, share a name.

**CommitOrder** (`OrderInv`). An entry is numbered above its entity's counter exactly while
its transaction holds the counter's lock, so numbers that are visible are at or below the
counter and new ones above it. A transaction takes the locks in ascending order of entity,
so along the chain of who waits for whom the awaited entity grows; of a finite set the one
with the greatest waits for nobody in it.

**ChangeFeed** (`FeedInv`, on top of `OrderInv`). Every number up to the counter is visible
or was purged, and none that was purged is above the mark: a COMMIT makes visible exactly
the next numbers (`HolderNumbers`). A run has settled every number up to its proposal, and
while it reads, up to the start of its range: each is below the cursor, was read, or counts
as unseen; what its mark check saw purged is below that start. A page leaves nothing out
below its greatest number (`PageFacts`). The cursor only grows, so what one run has settled
no other run unsettles (`RunStaysOK`).

**Inbound** (`InboundInv`). Per call: what its Job, its run and its slot can be at each
place of the handler (`MintOK`, `SlotOK`, `SentOK`), that a handler keeps its reservation
until it has attached or abandoned it and a run its window (`WindowOK`), and which body the
row holds (`AnswerOK`). The frame lemma `OneCallStep` reduces a step to the call that takes
it: the row is its own or its window has ended. For the cap, the calls not in `raced` that
have been counted fit under it (`CapInv`).

**ChannelWalk** (`WalkInv`). An edge says what its first node has come to: `pending` while
that is undecided, then live or dead by its ports (`EdgesOK`); the edges into a Container's
body are live while a round is open (`EnteredOK`). In every walk in progress a node that is
ready and not decided is on its stack, or is the Container whose walk lies above
(`StackOK`). This gives the steps of `Dataflow` that decide a node: what is popped is
undecided and ready, so its predecessors are decided. The steps that end a round, or the
run, say that nothing was left out: if the stack is empty and a node of the walk is
undecided, take one none of whose predecessors in the walk is undecided. There is one, for
the graph is finite and has no cycle (`Acyclic`, stated by `Closure`, the least set that
edges do not leave; along the paths these sets grow strictly, and inclusion is well
founded). Its edges are not pending, so it is ready, and so it is on the stack. Other frames
are not touched, since edges do not cross them. `OutputsAreFresh` needs further that
identifiers of rounds are never used again and that a new round drops the outputs of the
body, nested ones included (`FreshInv`). `GraphsAssumption` asks of a graph what validation
(graph.py) admits, `ValidGraph`, and finitely many nodes.

**Recovery** (`StreakInv`). As long as nothing overlaps and nothing is cut short, at most
one settlement or edit is under way, and each of its steps knows how far the stored streak
is behind the count (`StreakAt`). For the chain of retries (`ChainInv`), a run is retried
once and only when nothing of it is left to come (`Through`), so whatever is not through is
the last of its chain; two runs with an ancestor in common are ancestors of one another
(`Ancestry` grows along the retries, which lead from younger to older runs). Hence whoever
starts the error workflow, or drops a failed run, is alone in its chain, in which nothing
else runs or settles.

**Datasets** (`DatasetsInv`). A dataset that was due when the pass began and whose load was
over is sealed, stays due and is, phase by phase, on the list of the purge, dropped, without
an active record, on the sweep's list (`RipeOK`). As long as no drop of it fails, the keeper
gives up its Job only when its row claims nothing, so `drop_expired_datasets` does not skip
it for want of a Job. The sweep has read every record that is
active, except those saved since (`SweepOK`). For the ceiling (`LoadsInv`), what a load has
claimed since it, or another one, last saw the sum below the ceiling leaves out the one
chunk it has saved without having looked. These claims stay below the ceiling: a load goes
on only after a look at the sum of all that is active, and that is no less, term by term.

**EntityPublish** (`RowsInv`, `ViewInv`). `RowsInv` holds whatever dies: a table with rows
and the view's table exist, the holder of the lock is the only one between the databases,
and the view it would put back on an undo still has its table. `ViewInv` adds, while none of
the history variables is set, how the view differs from the serving version's table at each
place between the two databases, and that the copies which calls hold are still what the
rows say of them, as far as their saves depend on it.

**Definitions** (`DefinitionsInv`). Until a request crosses another: a version names only
entities that were there once, its codes are listed (`VersionFits`), and a serving head is
bound to the keys that its targets' current versions have (`ServingFits`). In between, a
publish that is queued still fits the version that it publishes, and one that is bound holds
keys and codes that are still the present ones (`PublishFits`): that a key cannot change
meanwhile is what `BoundTo` looks at, the draft being published and the serving heads.
`DefinitionsTypeOK` is proved whatever crosses, from the copies that requests hold
(`DefinitionsShaped`); the proof found that a bound of no version at all is not sound, since
a creation makes one, and the assumption excludes it.

**Admission** (`AdmissionInv`). `SlotsCountWork` is inductive with the types and with what
work a coroutine at each place can have; `max(0, n - 1)` is exact because what is released
is counted.

**AccessViews** (`FenceInv`). Until two commits take one number, numbers count the policies.
A view Job reads the number before the policy, so views with number `v` show the policy of
`v` or a later one; a request holds the number of the policy it began with, and rows are
answered only under that number. Of the Jobs only this order counts (`InOrder`): how many
are in flight, and which fail or are lost, does not.

**AccessPolicy** (`AccessInv`). Nothing is induced over the steps but types and the cap:
that answers follow the rule is a fact about any policy for which the views are current
(`RuleFollowed`), which the views, compiled for sets of profiles, and the rule, stated for
one person, a row and an attribute, give in different orders. To lower a level by all
ceilings commutes with taking the most revealing one of several profiles, for levels are
ordered by rank (`CeilingsCommute`); rows, columns and cells then agree in turn
(`RowsAgree`, `ColumnsAgree`, `CellAgrees`). The cap holds because the numbers of
predecessors in the order of keys are different for different combinations
(`CombinationsAreCapped`). A regeneration without an edit keeps every combination that has a
view, because these come first and are not more than the cap (`ViewedIsChosen`); what is
viewed is needed, or nobody would have asked by it. The assumption adds that `Key`, the
place of a combination in the order of combo_key, is injective.

**Types.** The type invariants of CommitOrder, StructureRun, EntityPublish, Definitions,
Inbound, ChannelWalk, Recovery, Datasets, Schedules, LostDetection, Admission and
AccessViews are proved, most of them as parts of the invariants above, and so a run checks
one of them only where it says more than types. `StructureTypeOK` is the uniqueness of ids,
natural keys and pairs of joins in the catalog (`WritersOK`, `JoinsOK`).

**Induction over data.** The library's induction theorems take an operator as a parameter,
which the installed provers cannot instantiate. Where a proof needs one (the ancestors of a
run, paths in a graph, the greatest of a finite set, sums), it takes a minimal
counterexample instead: inclusion of finite sets is well founded (`WFMin`,
`FS_StrictSubsetOrderingWellFounded`). Functions defined by recursion and sums by a fold are
first shown to satisfy their equations.

### Only model-checked

- Liveness: `DispatchedIsDecided`, `LostWorkerIsNoticed`, `LimitEndsRun`, `CancelStopsChild`,
  `RetryIsAnswered`. Fairness and `ENABLED` are beyond the prover. `FollowsDataflow` is a safety
  property, as `Dataflow` states it: that a walk ends is not claimed.
- The five violations of section 4 are runs: their counterexamples are what there is to show.

## 6. What is not modelled

Connectors, the MCP server, SQL generation for the catalog and for entity rows,
the rule and template languages, masking expressions and node bodies are data
transformations or I/O without shared state. The console is a client. Migrations
are generated and linear. Identity, session, token, account, tag, branding and
model-service handlers are single-row, single-transaction CRUD. The database,
Redis, Celery's transport and the operating system are taken to do what the code
relies on: transactions are atomic, an update with a condition is atomic, a
session lock ends with its session, a message is delivered again until it is
acknowledged, Beat is alive. Beat's hold-back of a sent commitment for one sync
period needs a finer clock than the minutes of Schedules; the model sends an
overdue commitment at any time, which is more.

## 7. Plan

Done: the models and runs above; the proofs of section 5, which state every safety
property that a passing run checks.

Left: models of what section 6 names where handlers do share state (connector tests, tokens
and sessions, Tags), and the SQL of the catalog, as pure functions against a reference
definition.
