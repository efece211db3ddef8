--------------------------- MODULE LostDetection ---------------------------
(***************************************************************************)
(* The clock behind `stale' of Jobs.tla: one worker renews the occupancy   *)
(* of its running Jobs every third of job_lost_detection_sec, the reaper   *)
(* fails the Jobs whose occupancy is that old, and an administrator        *)
(* changes the parameter meanwhile (backend/worker/occupancy.py,           *)
(* backend/jobs/parameters.py, backend/admin/system_parameters).  The      *)
(* reaper is a hidden schedule row, whose interval Beat copies from the    *)
(* parameter each time it reloads the rows (backend/worker/api.py, due.py, *)
(* scheduler.py, tasks.py).                                                *)
(*                                                                         *)
(* Workers share nothing but the parameter, so one is modelled.  Timers    *)
(* are punctual: at one instant, a renewal that is due goes before the     *)
(* reaper, and what Beat has to do is done within the unit; Beat and some  *)
(* worker that runs its tasks are up.  One unit of time stands for         *)
(* 5 / MinInterval seconds.                                                *)
(***************************************************************************)
EXTENDS Integers, FiniteSets

CONSTANTS Job,
          Value,        \* admitted values of job_lost_detection_sec
          Seed,         \* its seed
          MinInterval,  \* the 5 second floor of the renew interval
          SyncEvery,    \* BEAT_SYNC_EVERY_SEC
          OneAtATime,   \* the administrator lets a change settle before the next
          MaxTime,      \* bound on the clock
          MaxWrites     \* bound on parameter writes

ASSUME LostDetectionAssumption ==
  /\ Value \subseteq Nat /\ Seed \in Value
  /\ MinInterval \in Nat \ {0} /\ SyncEvery \in Nat \ {0}
  /\ \A v \in Value : v >= 3 * MinInterval
  /\ OneAtATime \in BOOLEAN
  /\ MaxTime \in Nat /\ MaxWrites \in Nat

VARIABLES now,
          parameter,  \* the stored row: value, previous_value (0 for none), updated_at
          status,     \* Job -> "queued", "running" or "lost"
          locked_at,  \* Job -> when its occupancy was last renewed
          phase,      \* the renew loop: "down", "waiting" or "touched"
          renewAt,    \* when the armed timer fires
          missed,     \* the last renewal raised
          reaperRow,  \* the reaper's row: interval_seconds, last_run_at, next_run_at
          beatEntry,  \* Beat holds that commitment and has not sent it
          syncAt,     \* when Beat reloads the rows
          suspects,   \* Jobs the reaper listed and has not yet written
          orphans,    \* Jobs whose worker died while they ran
          writes      \* parameter writes so far

jobVars == <<status, locked_at, orphans>>
workerVars == <<phase, renewAt, missed>>
parameterVars == <<parameter, writes>>
beatVars == <<reaperRow, beatEntry, syncAt>>
vars == <<now, parameterVars, jobVars, workerVars, beatVars, suspects>>

-----------------------------------------------------------------------------
RenewInterval(lost) ==
  IF lost \div 3 < MinInterval THEN MinInterval ELSE lost \div 3

\* reaper_lost_detection_sec.  The names that end in _Wrong are deliberately
\* wrong variants; they confirm that a property can fail.
ReaperLost_Ungraced_Wrong(p, t) == p.value

ReaperLost_Forever_Wrong(p, t) ==
  IF p.previous > p.value THEN p.previous ELSE p.value

ReaperLost(p, t) ==
  IF p.previous > p.value /\ t < p.updated_at + RenewInterval(p.previous)
  THEN p.previous ELSE p.value

\* The grace of the last write has run out, for the worker's timer too: what an
\* administrator waits for before the next write.
Settled == parameter.previous = 0
           \/ now > parameter.updated_at + RenewInterval(parameter.previous)

Latest(s, t) == IF s > t THEN s ELSE t

RunningJobs == {j \in Job : status[j] = "running"}
RenewalDue == \/ phase = "touched"
              \/ phase = "waiting" /\ now >= renewAt

Init ==
  /\ now = 0
  /\ parameter = [value |-> Seed, previous |-> 0, updated_at |-> 0]
  /\ status = [j \in Job |-> "queued"]
  /\ locked_at = [j \in Job |-> 0]
  /\ phase = "down" /\ renewAt = 0 /\ missed = FALSE
  /\ reaperRow = [interval |-> Seed, last |-> 0, next |-> 0]
  /\ beatEntry = FALSE /\ syncAt = 0
  /\ suspects = {} /\ orphans = {}
  /\ writes = 0

BeatDue == syncAt <= now \/ (beatEntry /\ reaperRow.next <= now)

\* Time passes unless a timer is due.
Tick ==
  /\ now < MaxTime
  /\ ~RenewalDue /\ ~BeatDue
  /\ now' = now + 1
  /\ UNCHANGED <<parameterVars, jobVars, workerVars, beatVars, suspects>>

-----------------------------------------------------------------------------
(* The worker *)

\* worker_ready: leftovers of the previous generation fail as JOB_WORKER_LOST,
\* then the renew loop starts.
WorkerReady ==
  /\ phase = "down"
  /\ status' = [j \in Job |-> IF status[j] = "running" THEN "lost" ELSE status[j]]
  /\ phase' = "waiting" /\ renewAt' = now /\ missed' = FALSE
  /\ UNCHANGED <<now, parameterVars, locked_at, orphans, beatVars, suspects>>

WorkerCrash ==
  /\ phase # "down"
  /\ phase' = "down"
  /\ orphans' = orphans \cup RunningJobs
  /\ UNCHANGED <<now, parameterVars, status, locked_at, renewAt, missed, beatVars, suspects>>

\* claim_queued
Claim(j) ==
  /\ phase # "down"
  /\ status[j] = "queued"
  /\ status' = [status EXCEPT ![j] = "running"]
  /\ locked_at' = [locked_at EXCEPT ![j] = now]
  /\ UNCHANGED <<now, parameterVars, orphans, workerVars, beatVars, suspects>>

\* _renew_loop, first half: touch_occupancy.
Touch ==
  /\ phase = "waiting" /\ now >= renewAt
  /\ locked_at' = [j \in Job |-> IF status[j] = "running" THEN now ELSE locked_at[j]]
  /\ phase' = "touched" /\ missed' = FALSE
  /\ UNCHANGED <<now, parameterVars, status, orphans, renewAt, beatVars, suspects>>

\* touch_occupancy raises; the loop goes on.  Not twice in a row and not while
\* a change of the parameter settles.
TouchRaises ==
  /\ phase = "waiting" /\ now >= renewAt
  /\ ~missed /\ Settled
  /\ phase' = "touched" /\ missed' = TRUE
  /\ UNCHANGED <<now, parameterVars, jobVars, renewAt, beatVars, suspects>>

\* _renew_loop, second half: the timer is armed with the value read now.
Arm ==
  /\ phase = "touched"
  /\ phase' = "waiting"
  /\ renewAt' = now + RenewInterval(parameter.value)
  /\ UNCHANGED <<now, parameterVars, jobVars, missed, beatVars, suspects>>

-----------------------------------------------------------------------------
(* The administrator, Beat and the reaper *)

\* set_parameter, and reset_parameter for the seed: the stored value becomes
\* previous_value, also when it equals the new one.
SetParameter(v) ==
  /\ writes < MaxWrites
  /\ OneAtATime => Settled
  /\ parameter' = [value |-> v, previous |-> parameter.value, updated_at |-> now]
  /\ writes' = writes + 1
  /\ UNCHANGED <<now, jobVars, workerVars, beatVars, suspects>>

\* ensure_system_schedules: the interval follows the parameter, the commitment
\* stays; then Beat takes the rows.
BeatReloads ==
  /\ syncAt <= now
  /\ reaperRow' = [reaperRow EXCEPT !.interval = parameter.value]
  /\ beatEntry' = TRUE /\ syncAt' = now + SyncEvery
  /\ UNCHANGED <<now, parameterVars, jobVars, workerVars, suspects>>

Stale(j) == locked_at[j] <= now - ReaperLost(parameter, now)

\* reap_stuck_jobs consumes the commitment if it is due and lists either way:
\* when Beat sends the task, or when it is delivered once more.
ConsumedReaperRow ==
  IF reaperRow.next <= now
  THEN [reaperRow EXCEPT !.last = now, !.next = now + reaperRow.interval]
  ELSE reaperRow
ReaperLists ==
  /\ ~RenewalDue
  /\ reaperRow' = ConsumedReaperRow
  /\ beatEntry' = (beatEntry /\ reaperRow.next > now)
  /\ suspects' = suspects \cup {j \in RunningJobs : Stale(j)}
  /\ UNCHANGED <<now, parameterVars, jobVars, workerVars, syncAt>>

\* reap_stale_occupancy stamps the listed Jobs one by one, however fresh they
\* are by then.
ReaperStamps(j) ==
  /\ j \in suspects
  /\ suspects' = suspects \ {j}
  /\ status' = [status EXCEPT ![j] = IF @ = "running" THEN "lost" ELSE @]
  /\ UNCHANGED <<now, parameterVars, locked_at, orphans, workerVars, beatVars>>

Next ==
  \/ Tick
  \/ WorkerReady \/ WorkerCrash \/ Touch \/ TouchRaises \/ Arm
  \/ \E v \in Value : SetParameter(v)
  \/ BeatReloads \/ ReaperLists
  \/ \E j \in Job : Claim(j) \/ ReaperStamps(j)

Spec == Init /\ [][Next]_vars

-----------------------------------------------------------------------------
(* Properties *)

\* Every variable has its type, and occupancy is never dated in the future.
TypeOK ==
  /\ now \in 0..MaxTime
  /\ parameter \in [value : Value, previous : Value \cup {0}, updated_at : 0..now]
  /\ status \in [Job -> {"queued", "running", "lost"}]
  /\ locked_at \in [Job -> 0..now]
  /\ phase \in {"down", "waiting", "touched"}
  /\ renewAt \in Nat /\ missed \in BOOLEAN
  /\ reaperRow \in [interval : Value, last : 0..now, next : Nat]
  /\ beatEntry \in BOOLEAN /\ syncAt \in Nat
  /\ suspects \subseteq Job /\ orphans \subseteq Job
  /\ writes \in 0..MaxWrites

\* The Job of a living worker is never failed as JOB_WORKER_LOST while the
\* parameter is widened and tightened and a renewal now and then raises:
\* tightening waits one old renew interval (docs/business-jobs.md).
LivingWorkerKeepsJob == \A j \in Job : status[j] = "lost" => j \in orphans

\* From when the test of the reaper includes an occupancy of time t.
TestedFrom(p, t) ==
  LET grace == IF p.previous > p.value THEN RenewInterval(p.previous) ELSE 0
  IN Latest(t + p.value, p.updated_at + grace)

\* The time between two commitments of the reaper, as its row has them.
Cadence == reaperRow.next - reaperRow.last

\* A Job whose occupancy nobody renews is failed, or on the list the reaper works
\* through, one cadence of the reaper or one reload of Beat after the later of:
\* its occupancy is as old as job_lost_detection_sec; the last change of that
\* value, with the grace of a tightened one, is over.  And the cadence follows the
\* value one reload and one old cadence after the change
\* (docs/business-system-parameters.md, 5.2: latency is the value and the interval).
LostJobIsNoticed ==
  /\ \A j \in RunningJobs \ suspects : now <= TestedFrom(parameter, locked_at[j]) + Latest(Cadence, SyncEvery)
  /\ Cadence # parameter.value => now <= parameter.updated_at + SyncEvery + Cadence
=============================================================================
