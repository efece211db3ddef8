------------------------------- MODULE Jobs -------------------------------
(***************************************************************************)
(* The Job primitive (backend/jobs, backend/worker/occupancy.py and the    *)
(* Celery tasks that run Jobs).                                            *)
(*                                                                         *)
(* A Job is one row of the jobs table.  A worker task claims the row       *)
(* (queued -> running), spawns a child process that runs the domain work,  *)
(* polls the row and kills the child when it reads `cancelled'.  The row   *)
(* is also written by the child itself, by HTTP cancel, by the withdrawal  *)
(* of a schedule, by the reaper and by a restarting worker.  Status writes *)
(* are compare-and-set; the log writer is not: append_job_log reads the    *)
(* row in one transaction and writes every column back in another.         *)
(*                                                                         *)
(* Time is abstract: `stale' and `overdue' hold the Jobs whose locked_at   *)
(* or started_at has fallen behind the reaper's cutoff (LostDetection.tla  *)
(* has the clock).                                                         *)
(***************************************************************************)
EXTENDS Integers, FiniteSets

CONSTANTS Job,         \* Jobs
          Worker,      \* worker identities (Celery hostnames)
          Chatty,      \* Jobs whose body or task appends to the Job log
          NoWorker,    \* claimed_by of an unclaimed row
          MaxCrashes   \* bound on worker crashes

ASSUME JobsAssumption == /\ Chatty \subseteq Job
                         /\ NoWorker \notin Worker
                         /\ MaxCrashes \in Nat

VARIABLES row,        \* Job -> row of the jobs table
          stale,      \* Jobs whose locked_at is at or before the reaper's cutoff
          overdue,    \* Jobs whose started_at is older than their running_timeout_sec
          broker,     \* Jobs with an unacknowledged message
          task,       \* Job -> phase of the worker task that claimed it
          child,      \* Job -> phase of the child process
          copy,       \* writer -> Job -> row read by append_job_log, not yet saved
          http,       \* Job -> phase of POST /jobs/{id}/cancel
          worker,     \* Worker -> "down", "starting" or "up"
          abandoned,  \* workers that have abandoned leftovers in this generation
          leftovers,  \* Worker -> listed leftover Jobs still to be failed
          reaper,     \* phase of reap_stuck_running_jobs
          suspects,   \* Jobs the reaper listed and has not yet written
          crashes,    \* worker crashes so far
          runs        \* Job -> how often its domain work was entered

rowVars == <<row, broker>>
clockVars == <<stale, overdue>>
taskVars == <<task, child, copy, http>>
workerVars == <<worker, abandoned, leftovers, crashes>>
reaperVars == <<reaper, suspects>>
vars == <<rowVars, clockVars, taskVars, workerVars, reaperVars, runs>>

-----------------------------------------------------------------------------
(* Rows *)

Unfinished == {"queued", "running"}
Terminal == {"succeeded", "failed", "cancelled"}
ErrorCode == {"none", "JOB_WORKER_LOST", "JOB_RUNNING_TIMEOUT", "JOB_EXECUTION_FAILED"}

\* Who appends to the Job log: the child, the task's abort path, HTTP cancel.
Writer == {"child", "task", "http"}

JobRow == [status : {"absent"} \cup Unfinished \cup Terminal,
           claimed_by : Worker \cup {NoWorker},
           error : ErrorCode,
           result : BOOLEAN,
           limit : BOOLEAN]  \* minted with a running_timeout_sec

NoRow == [status |-> "absent", claimed_by |-> NoWorker, error |-> "none",
          result |-> FALSE, limit |-> FALSE]
NewRow(limited) == [NoRow EXCEPT !.status = "queued", !.limit = limited]

\* The names that end in _Wrong are deliberately wrong variants of the
\* definition they precede; they confirm that a property can fail.

CasTerminal_Wrong(r, from, to, code) ==
  [r EXCEPT !.status = IF @ \in from THEN to ELSE @,
            !.error = IF to = "failed" THEN code ELSE @,
            !.result = @ \/ (to = "succeeded")]

\* cas_terminal: write a terminal status only if the row still has one of
\* `from'; otherwise hand back the row as it stands.
CasTerminal(r, from, to, code) ==
  IF r.status \in from
  THEN [r EXCEPT !.status = to,
                 !.error = IF to = "failed" THEN code ELSE @,
                 !.result = @ \/ to = "succeeded"]
  ELSE r

MarkSucceeded_Wrong(r) == CasTerminal(r, {"running", "cancelled"}, "succeeded", "none")
Claimable_Wrong(r) == r.status \in Unfinished
ClaimableUnlessUnowned_Wrong(r) == r.status = "queued" /\ r.claimed_by # NoWorker
ClaimedRow_Wrong(r, w) == [r EXCEPT !.status = "running"]

MarkFailed(r, from, code) == CasTerminal(r, from, "failed", code)
MarkSucceeded(r) == CasTerminal(r, {"running"}, "succeeded", "none")
MarkCancelled(r) == CasTerminal(r, Unfinished, "cancelled", "none")

\* The where clause of claim_queued.
Claimable(r) == r.status = "queued"
ClaimedRow(r, w) == [r EXCEPT !.status = "running", !.claimed_by = w]

Running(j) == row[j].status = "running"
Ended(j) == row[j].status \in Terminal
OwnedBy(w) == {j \in Job : row[j].claimed_by = w}
RunningOf(w) == {j \in OwnedBy(w) : Running(j)}

-----------------------------------------------------------------------------
Init ==
  /\ row = [j \in Job |-> NoRow]
  /\ stale = {} /\ overdue = {} /\ broker = {}
  /\ task = [j \in Job |-> "idle"]
  /\ child = [j \in Job |-> "none"]
  /\ copy = [a \in Writer |-> [j \in Job |-> NoRow]]
  /\ http = [j \in Job |-> "idle"]
  /\ worker = [w \in Worker |-> "down"]
  /\ abandoned = {}
  /\ leftovers = [w \in Worker |-> {}]
  /\ reaper = "idle" /\ suspects = {}
  /\ crashes = 0
  /\ runs = [j \in Job |-> 0]

-----------------------------------------------------------------------------
(* Minting and delivery *)

\* create_queued_job: the row, with the limit minted onto it, is committed first.
Create(j) ==
  /\ row[j].status = "absent"
  /\ \E limited \in BOOLEAN : row' = [row EXCEPT ![j] = NewRow(limited)]
  /\ UNCHANGED <<broker, clockVars, taskVars, workerVars, reaperVars, runs>>

\* dispatch after the commit.  A crash in between leaves the row undispatched,
\* and a redelivered tick may dispatch the same Job again.
Dispatch(j) ==
  /\ row[j].status # "absent"
  /\ j \notin broker
  /\ broker' = broker \cup {j}
  /\ UNCHANGED <<row, clockVars, taskVars, workerVars, reaperVars, runs>>

\* supervise: the claim.  With acks_late the message stays until the task ends.
Claim(w, j) ==
  /\ worker[w] = "up"
  /\ j \in broker
  /\ Claimable(row[j])
  /\ row' = [row EXCEPT ![j] = ClaimedRow(@, w)]
  /\ stale' = stale \ {j}
  /\ task' = [task EXCEPT ![j] = "claimed"]
  /\ UNCHANGED <<broker, overdue, child, copy, http, workerVars, reaperVars, runs>>

\* supervise: nothing claimed, so the task returns the stored status and is
\* acknowledged.  A revoked message is dropped with the same effect.
DeliverUnclaimable(w, j) ==
  /\ worker[w] = "up"
  /\ j \in broker
  /\ ~Claimable(row[j])
  /\ broker' = broker \ {j}
  /\ UNCHANGED <<row, clockVars, taskVars, workerVars, reaperVars, runs>>

-----------------------------------------------------------------------------
(* The worker task: supervise, watch_process, _finish and the abort path *)

Spawn(j) ==
  /\ task[j] = "claimed"
  /\ task' = [task EXCEPT ![j] = "watching"]
  /\ child' = [child EXCEPT ![j] = "starting"]
  /\ UNCHANGED <<rowVars, clockVars, copy, http, workerVars, reaperVars, runs>>

\* The status watch_process looks for before it kills the process group.
StopsChild_Wrong(status) == status = "failed"
StopsChild(status) == status = "cancelled"

KillChild(j) ==
  /\ child' = [child EXCEPT ![j] = "none"]
  /\ copy' = [copy EXCEPT !["child"][j] = NoRow]

WatchKills(j) ==
  /\ task[j] = "watching"
  /\ child[j] # "none"
  /\ StopsChild(row[j].status)
  /\ KillChild(j)
  /\ task' = [task EXCEPT ![j] = "finishing"]
  /\ UNCHANGED <<rowVars, clockVars, http, workerVars, reaperVars, runs>>

WatchSeesExit(j) ==
  /\ task[j] = "watching"
  /\ child[j] = "none"
  /\ task' = [task EXCEPT ![j] = "finishing"]
  /\ UNCHANGED <<rowVars, clockVars, child, copy, http, workerVars, reaperVars, runs>>

\* _finish: a child that left the row running has failed; then the ack.
Finish(j) ==
  /\ task[j] = "finishing"
  /\ row' = [row EXCEPT ![j] = IF Running(j)
                               THEN MarkFailed(@, Unfinished, "JOB_EXECUTION_FAILED")
                               ELSE @]
  /\ task' = [task EXCEPT ![j] = "idle"]
  /\ broker' = broker \ {j}
  /\ UNCHANGED <<clockVars, child, copy, http, workerVars, reaperVars, runs>>

\* An exception in supervise (spawn, or a store read that fails): watch_process
\* kills the group on its way out and run_job takes its except branch.
SuperviseRaises(j) ==
  /\ task[j] \in {"claimed", "watching", "finishing"}
  /\ KillChild(j)
  /\ task' = [task EXCEPT ![j] = "aborting"]
  /\ UNCHANGED <<rowVars, clockVars, http, workerVars, reaperVars, runs>>

\* run_job's except branch: re-raise if the row has ended; ...
AbortReraises(j) ==
  /\ task[j] = "aborting"
  /\ Ended(j)
  /\ task' = [task EXCEPT ![j] = "idle"]
  /\ broker' = broker \ {j}
  /\ UNCHANGED <<row, clockVars, child, copy, http, workerVars, reaperVars, runs>>

\* ... else log the failure (channel_run does not log it) and then stamp.
AbortProceeds(j) ==
  /\ task[j] = "aborting"
  /\ ~Ended(j)
  /\ task' = [task EXCEPT ![j] = IF j \in Chatty THEN "noting" ELSE "stamping"]
  /\ UNCHANGED <<rowVars, clockVars, child, copy, http, workerVars, reaperVars, runs>>

AbortStamps(j) ==
  /\ task[j] = "stamping"
  /\ row' = [row EXCEPT ![j] = MarkFailed(@, Unfinished, "JOB_EXECUTION_FAILED")]
  /\ task' = [task EXCEPT ![j] = "idle"]
  /\ broker' = broker \ {j}
  /\ UNCHANGED <<clockVars, child, copy, http, workerVars, reaperVars, runs>>

\* The pool process dies under a living worker.  The child runs in a session
\* of its own and may outlive it.
LosePoolProcess(j) ==
  /\ task[j] # "idle"
  /\ task' = [task EXCEPT ![j] = "idle"]
  /\ \/ /\ child' = [child EXCEPT ![j] = "none"]
        /\ copy' = [copy EXCEPT !["task"][j] = NoRow, !["child"][j] = NoRow]
     \/ /\ copy' = [copy EXCEPT !["task"][j] = NoRow]
        /\ UNCHANGED child
  /\ UNCHANGED <<rowVars, clockVars, http, workerVars, reaperVars, runs>>

-----------------------------------------------------------------------------
(* The child process *)

\* claim_for_execution in the child: adopt the parent's claim only while the
\* row is still running.
ChildAdopts(j) ==
  /\ child[j] = "starting"
  /\ \/ /\ Running(j)
        /\ child' = [child EXCEPT ![j] = "working"]
        /\ runs' = [runs EXCEPT ![j] = @ + 1]
     \/ /\ ~Running(j)
        /\ child' = [child EXCEPT ![j] = "none"]
        /\ UNCHANGED runs
  /\ UNCHANGED <<rowVars, clockVars, task, copy, http, workerVars, reaperVars>>

\* The child is between two statements of its body.
Working(j) == child[j] = "working" /\ copy["child"][j] = NoRow

\* The body stamps its row.  It may log afterwards, or raise and stamp again,
\* before the process exits.
ChildSettles(j) ==
  /\ Working(j)
  /\ \E r \in {MarkSucceeded(row[j]),
               MarkFailed(row[j], Unfinished, "JOB_EXECUTION_FAILED"),
               MarkCancelled(row[j])} : row' = [row EXCEPT ![j] = r]
  /\ UNCHANGED <<broker, clockVars, taskVars, workerVars, reaperVars, runs>>

\* The body returns, after a stamp or (stopped_result) without one, or the
\* process dies.
ChildExits(j) ==
  /\ child[j] # "none"
  /\ KillChild(j)
  /\ UNCHANGED <<rowVars, clockVars, task, http, workerVars, reaperVars, runs>>

-----------------------------------------------------------------------------
(* append_job_log: get, then save of the whole row *)

MayNote(a, j) == CASE a = "child" -> j \in Chatty /\ Working(j)
                   [] a = "task" -> task[j] = "noting"
                   [] a = "http" -> http[j] = "noting"

NoteReads(a, j) ==
  /\ MayNote(a, j)
  /\ copy[a][j] = NoRow
  /\ copy' = [copy EXCEPT ![a][j] = row[j]]
  /\ UNCHANGED <<rowVars, clockVars, task, child, http, workerVars, reaperVars, runs>>

NoteSaves(a, j) ==
  /\ copy[a][j] # NoRow
  /\ row' = [row EXCEPT ![j] = copy[a][j]]
  /\ copy' = [copy EXCEPT ![a][j] = NoRow]
  /\ task' = IF a = "task" THEN [task EXCEPT ![j] = "stamping"] ELSE task
  /\ http' = IF a = "http" THEN [http EXCEPT ![j] = "idle"] ELSE http
  /\ UNCHANGED <<broker, clockVars, child, workerVars, reaperVars, runs>>

-----------------------------------------------------------------------------
(* Cancellation *)

\* cancel_job: refused on a terminal row; otherwise mark, then log (NoteReads,
\* NoteSaves) and answer.  One request per Job at a time.
HttpCancels(j) ==
  /\ http[j] = "idle"
  /\ row[j].status \in Unfinished
  /\ row' = [row EXCEPT ![j] = MarkCancelled(@)]
  /\ http' = [http EXCEPT ![j] = "noting"]
  /\ UNCHANGED <<broker, clockVars, task, child, copy, workerVars, reaperVars, runs>>

\* cancel_unfinished_for_schedule, for one Job of the listing.
ScheduleCancels(j) ==
  /\ row[j].status \in Unfinished
  /\ row' = [row EXCEPT ![j] = MarkCancelled(@)]
  /\ UNCHANGED <<broker, clockVars, taskVars, workerVars, reaperVars, runs>>

-----------------------------------------------------------------------------
(* Occupancy: renewal, leftovers of the previous generation, the reaper *)

\* The guard of on_worker_ready: once per process generation.
AbandonsLeftovers_Wrong(w) == w \in Worker
AbandonsLeftovers(w) == w \notin abandoned

\* fail_leftover_occupancy lists without a freshness filter.
Leftovers_Wrong(w) == RunningOf(w) \cap stale
Leftovers(w) == RunningOf(w)

Renew(w) == stale' = stale \ RunningOf(w)

\* worker_ready: first connection of a new process, or a reconnection.
WorkerReady(w) ==
  /\ worker[w] \in {"down", "up"}
  /\ LET listed == IF AbandonsLeftovers(w) THEN Leftovers(w) ELSE {}
     IN /\ leftovers' = [leftovers EXCEPT ![w] = listed]
        /\ IF listed = {}
           THEN worker' = [worker EXCEPT ![w] = "up"] /\ Renew(w)
           ELSE worker' = [worker EXCEPT ![w] = "starting"] /\ UNCHANGED stale
  /\ abandoned' = abandoned \cup {w}
  /\ UNCHANGED <<rowVars, overdue, taskVars, crashes, reaperVars, runs>>

\* _fail_worker_lost over the listing; after the last one the renew loop starts.
AbandonLeftover(w, j) ==
  /\ worker[w] = "starting"
  /\ j \in leftovers[w]
  /\ row' = [row EXCEPT ![j] = MarkFailed(@, {"running"}, "JOB_WORKER_LOST")]
  /\ leftovers' = [leftovers EXCEPT ![w] = @ \ {j}]
  /\ worker' = IF leftovers[w] = {j} THEN [worker EXCEPT ![w] = "up"] ELSE worker
  /\ UNCHANGED <<broker, clockVars, taskVars, abandoned, crashes, reaperVars, runs>>

\* _renew_loop: touch_occupancy.
TouchOccupancy(w) ==
  /\ worker[w] = "up"
  /\ Renew(w)
  /\ UNCHANGED <<rowVars, overdue, taskVars, workerVars, reaperVars, runs>>

\* A worker process ends with its tasks.  Children may survive; a reaper task
\* that ran on it is lost.
WorkerCrash(w) ==
  /\ worker[w] # "down"
  /\ crashes < MaxCrashes
  /\ crashes' = crashes + 1
  /\ worker' = [worker EXCEPT ![w] = "down"]
  /\ abandoned' = abandoned \ {w}
  /\ leftovers' = [leftovers EXCEPT ![w] = {}]
  /\ task' = [j \in Job |-> IF j \in OwnedBy(w) THEN "idle" ELSE task[j]]
  /\ \E dead \in SUBSET OwnedBy(w) :
       /\ child' = [j \in Job |-> IF j \in dead THEN "none" ELSE child[j]]
       /\ copy' = [a \in Writer |-> [j \in Job |->
                     IF \/ a = "task" /\ j \in OwnedBy(w)
                        \/ a = "child" /\ j \in dead
                     THEN NoRow ELSE copy[a][j]]]
  /\ \/ UNCHANGED reaperVars
     \/ reaper' = "idle" /\ suspects' = {}
  /\ UNCHANGED <<rowVars, clockVars, http, runs>>

\* Time passes for a running Job.
OccupancyAges(j) ==
  /\ Running(j)
  /\ stale' = stale \cup {j}
  /\ UNCHANGED <<rowVars, overdue, taskVars, workerVars, reaperVars, runs>>

LimitPasses(j) ==
  /\ Running(j)
  /\ row[j].limit
  /\ overdue' = overdue \cup {j}
  /\ UNCHANGED <<rowVars, stale, taskVars, workerVars, reaperVars, runs>>

\* reap_stale_occupancy lists first and writes the listed Jobs one by one, ...
ReaperLists ==
  /\ \E w \in Worker : worker[w] = "up"
  /\ reaper = "idle"
  /\ reaper' = "occupancy"
  /\ suspects' = {j \in stale : Running(j)}
  /\ UNCHANGED <<rowVars, clockVars, taskVars, workerVars, runs>>

ReapStale(j) ==
  /\ reaper = "occupancy"
  /\ j \in suspects
  /\ row' = [row EXCEPT ![j] = MarkFailed(@, {"running"}, "JOB_WORKER_LOST")]
  /\ suspects' = suspects \ {j}
  /\ UNCHANGED <<broker, clockVars, taskVars, workerVars, reaper, runs>>

\* Running Jobs past their minted limit, stale or not.
TimedOut_Wrong == overdue \cap stale
TimedOut == overdue

\* ... then reap_running_timeouts does the same with the running time limit.
ReaperListsTimeouts ==
  /\ reaper = "occupancy"
  /\ suspects = {}
  /\ reaper' = "limit"
  /\ suspects' = {j \in TimedOut : Running(j)}
  /\ UNCHANGED <<rowVars, clockVars, taskVars, workerVars, runs>>

ReapTimeout(j) ==
  /\ reaper = "limit"
  /\ j \in suspects
  /\ row' = [row EXCEPT ![j] = MarkFailed(@, {"running"}, "JOB_RUNNING_TIMEOUT")]
  /\ suspects' = suspects \ {j}
  /\ UNCHANGED <<broker, clockVars, taskVars, workerVars, reaper, runs>>

ReaperEnds ==
  /\ reaper = "limit"
  /\ suspects = {}
  /\ reaper' = "idle"
  /\ UNCHANGED <<rowVars, clockVars, taskVars, workerVars, suspects, runs>>

-----------------------------------------------------------------------------
JobStep(j) ==
  \/ Create(j) \/ Dispatch(j)
  \/ Spawn(j) \/ WatchKills(j) \/ WatchSeesExit(j) \/ Finish(j)
  \/ SuperviseRaises(j) \/ AbortReraises(j) \/ AbortProceeds(j) \/ AbortStamps(j) \/ LosePoolProcess(j)
  \/ ChildAdopts(j) \/ ChildSettles(j) \/ ChildExits(j)
  \/ \E a \in Writer : NoteReads(a, j) \/ NoteSaves(a, j)
  \/ HttpCancels(j) \/ ScheduleCancels(j)
  \/ OccupancyAges(j) \/ LimitPasses(j)
  \/ ReapStale(j) \/ ReapTimeout(j)

WorkerStep(w) ==
  \/ WorkerReady(w) \/ TouchOccupancy(w) \/ WorkerCrash(w)
  \/ \E j \in Job : Claim(w, j) \/ DeliverUnclaimable(w, j) \/ AbandonLeftover(w, j)

ReaperStep == ReaperLists \/ ReaperListsTimeouts \/ ReaperEnds

Next == \/ \E j \in Job : JobStep(j)
        \/ \E w \in Worker : WorkerStep(w)
        \/ ReaperStep

Spec == Init /\ [][Next]_vars

-----------------------------------------------------------------------------
(* Fairness: every process that is alive takes its next step, a stopped     *)
(* worker is restarted, Beat keeps firing the reaper, and time passes for   *)
(* the rows of a stopped worker and for minted limits.  A body need not     *)
(* end, a message need not be sent and a worker need not renew on time.     *)

TaskFairness(j) ==
  /\ WF_vars(Spawn(j))
  /\ WF_vars(WatchKills(j)) /\ WF_vars(WatchSeesExit(j)) /\ WF_vars(Finish(j))
  /\ WF_vars(AbortReraises(j)) /\ WF_vars(AbortProceeds(j)) /\ WF_vars(AbortStamps(j))
  /\ WF_vars(NoteReads("task", j)) /\ WF_vars(NoteSaves("task", j))

WorkerFairness(w) ==
  /\ WF_vars(worker[w] = "down" /\ WorkerReady(w))
  /\ WF_vars(TouchOccupancy(w))
  /\ \A j \in Job : WF_vars(AbandonLeftover(w, j))

ClockFairness(j) ==
  /\ WF_vars(LimitPasses(j))
  /\ WF_vars(/\ row[j].claimed_by \in Worker
             /\ worker[row[j].claimed_by] = "down"
             /\ OccupancyAges(j))

ReaperFairness ==
  /\ WF_vars(ReaperLists) /\ WF_vars(ReaperListsTimeouts) /\ WF_vars(ReaperEnds)
  /\ \A j \in Job : WF_vars(ReapStale(j)) /\ WF_vars(ReapTimeout(j))

FairSpec ==
  /\ Spec
  /\ \A j \in Job : TaskFairness(j) /\ ClockFairness(j)
  /\ \A j \in Job : WF_vars(\E w \in Worker : Claim(w, j))
  /\ \A w \in Worker : WorkerFairness(w)
  /\ ReaperFairness

-----------------------------------------------------------------------------
(* Properties *)

\* Every variable has its type, and a row that is running names its claimant
\* (claim_queued writes status, started_at, locked_at and claimed_by together).
TypeOK ==
  /\ row \in [Job -> JobRow]
  /\ \A j \in Job : Running(j) => row[j].claimed_by \in Worker
  /\ stale \subseteq Job /\ overdue \subseteq Job /\ broker \subseteq Job
  /\ task \in [Job -> {"idle", "claimed", "watching", "finishing",
                       "aborting", "noting", "stamping"}]
  /\ child \in [Job -> {"none", "starting", "working"}]
  /\ copy \in [Writer -> [Job -> JobRow]]
  /\ http \in [Job -> {"idle", "noting"}]
  /\ worker \in [Worker -> {"down", "starting", "up"}]
  /\ abandoned \subseteq Worker
  /\ leftovers \in [Worker -> SUBSET Job]
  /\ reaper \in {"idle", "occupancy", "limit"}
  /\ suspects \subseteq Job
  /\ crashes \in 0..MaxCrashes
  /\ runs \in [Job -> Nat]

\* Domain work is entered at most once per Job, whatever is redelivered,
\* dispatched twice, reaped, cancelled or written back by a late log save.
EnteredAtMostOnce == \A j \in Job : runs[j] <= 1

\* A result document exists exactly on a succeeded row and an error code
\* exactly on a failed one, although any row may be rewritten from a copy that
\* was read before its outcome was stamped.
OutcomeFits(r) == /\ r.result <=> r.status = "succeeded"
                  /\ r.error # "none" <=> r.status = "failed"

OutcomeMatchesStatus == \A j \in Job : OutcomeFits(row[j])

\* A worker that (re)connects never has a Job of its own current generation on
\* the list of leftovers it is about to fail as JOB_WORKER_LOST.
NoSelfAbandon ==
  \A w \in Worker, j \in Job : j \in leftovers[w] => task[j] = "idle"

\* For the kinds that do not append to their log while they run, a Job row and
\* its execution follow the Job lifecycle (JobLifecycle.tla): in particular a
\* terminal status is final.
Lifecycle == INSTANCE JobLifecycle WITH
  Job <- Job \ Chatty,
  status <- [j \in Job \ Chatty |-> row[j].status],
  started <- {j \in Job \ Chatty : runs[j] > 0},
  result <- {j \in Job \ Chatty : row[j].result}

QuietJobsFollowLifecycle == Lifecycle!Spec

\* A terminal status is final for every Job (docs/glossary.md: "queued ->
\* running -> terminal").  It does not hold: see the README.
TerminalIsFinal ==
  [][\A j \in Job : Ended(j) => row'[j].status = row[j].status]_vars

\* A dispatched Job is claimed or cancelled: deliveries survive worker crashes.
DispatchedIsDecided ==
  \A j \in Job : (row[j].status = "queued" /\ j \in broker) ~> row[j].status # "queued"

\* A Job whose worker went down leaves `running': the restarted worker
\* abandons it however fresh its occupancy is, or the reaper finds it stale.
LostWorkerIsNoticed ==
  \A w \in Worker, j \in Job :
    (Running(j) /\ row[j].claimed_by = w /\ worker[w] = "down") ~> ~Running(j)

\* A Job with a Running Time Limit leaves `running' although its body may hang,
\* its pool process may be gone and its occupancy may be renewed for ever.
LimitEndsRun == \A j \in Job : (Running(j) /\ row[j].limit) ~> ~Running(j)

\* A cancelled Job that does not log keeps no child: its supervisor kills it,
\* unless the supervisor itself is lost.
CancelStopsChild ==
  \A j \in Job \ Chatty :
    (row[j].status = "cancelled" /\ task[j] = "watching")
      ~> (child[j] = "none" \/ task[j] = "idle")
=============================================================================
