----------------------------- MODULE Schedules -----------------------------
(***************************************************************************)
(* One Scheduled Task (backend/worker) and the tick tasks that mint its    *)
(* Jobs (backend/metadata/source_jobs.py; channel and embedding ticks have *)
(* the same shape).                                                        *)
(*                                                                         *)
(* Beat copies next_run_at from the row and sends it as the Instant of a   *)
(* tick.  A tick task decides, mints and moves the cursor in one           *)
(* transaction that locks the row, and dispatches the Job after the        *)
(* commit.  PATCH reads the row in one transaction and writes every column *)
(* back in another; DELETE cancels the unfinished Jobs one by one before   *)
(* it deletes the row.                                                     *)
(*                                                                         *)
(* An Instant is a number of minutes.  -1 stands for an absent Instant, so *)
(* that it is earlier than every other one.                                *)
(***************************************************************************)
EXTENDS Integers, FiniteSets

CONSTANTS Interval,    \* interval_seconds, in minutes
          CronStep,    \* the cron expression matches every CronStep-th minute
          Start,       \* values of start_at a PATCH may set
          Horizon,     \* bound on the clock
          MaxPatches,  \* bound on PATCH requests
          MaxCrashes   \* bound on worker crashes between a commit and the ack

ASSUME SchedulesAssumption ==
  /\ Interval \in Nat \ {0} /\ CronStep \in Nat \ {0}
  /\ Start \subseteq Nat
  /\ Horizon \in Nat /\ MaxPatches \in Nat /\ MaxCrashes \in Nat

VARIABLES clock,
          row,      \* the scheduled_tasks row, or NoRow
          beat,     \* the commitment in Beat's memory, -1 for no entry
          ticks,    \* Instants of unacknowledged tick messages
          job,      \* Instant -> the Job minted for it
          pending,  \* Instant of a tick -> what its task does after the commit
          patch,    \* the row a PATCH has read and not yet written, or NoRow
          delete,   \* phase of DELETE
          doomed,   \* unfinished Jobs DELETE listed and has not yet cancelled
          patches, crashes

scheduleVars == <<clock, row, beat, ticks, job, pending, patch, delete, doomed, patches, crashes>>
operatorVars == <<patch, delete, doomed, patches>>

-----------------------------------------------------------------------------
None == -1
Instant == 0..Horizon
Unfinished == {"queued", "running"}

\* What cadence fires: next_run_at is None exactly when the row is paused.
NoRow == [enabled |-> FALSE, cadence |-> "none", start |-> None, last |-> None, next |-> None]
NoJob == [status |-> "absent", created |-> None, sent |-> FALSE]
NoAction == [does |-> "nothing", instant |-> None]

Exists == row # NoRow
Deleting == delete # "idle"

\* The names that end in _Wrong are deliberately wrong variants of a
\* definition; they confirm that a property can fail.

\* next_interval_grid_point: strictly after t, never before s.
GridPoint(s, t) ==
  IF s > t THEN s ELSE s + Interval * ((t - s) \div Interval + 1)

\* first_cron_fire_after from cron_search_after.
CronPoint(s, t) == LET after == IF s - 1 > t THEN s - 1 ELSE t
                   IN CronStep * (after \div CronStep + 1)

Later(s, t) == IF s > t THEN s ELSE t

\* compute_next_run_at
NextRun(cadence, start, after) ==
  CASE cadence = "cron" -> CronPoint(start, after)
    [] cadence = "interval" /\ start # None -> GridPoint(start, Later(after, clock))
    [] OTHER -> Later(after + Interval, clock)

\* current_cron_slot_instant and the start bound of consume_due_tick.
CurrentSlot(r) == IF clock % CronStep = 0 /\ clock >= r.start THEN clock ELSE None

\* commit_due_mint and consume_due_cursor: the cursor moves to the mint, and an
\* enabled row gets its next commitment.
ConsumedRow_Wrong(r, mintAt) ==
  [r EXCEPT !.last = mintAt,
            !.next = Later(NextRun(r.cadence, r.start, mintAt), clock)]
ConsumedRow_Slot_Wrong(r, mintAt) ==
  [r EXCEPT !.last = r.next,
            !.next = IF r.enabled THEN Later(NextRun(r.cadence, r.start, mintAt), clock) ELSE None]
ConsumedRow(r, mintAt) ==
  [r EXCEPT !.last = mintAt,
            !.next = IF r.enabled
                     THEN Later(NextRun(r.cadence, r.start, mintAt), clock)
                     ELSE None]

-----------------------------------------------------------------------------
SchedulesInit ==
  /\ clock = 0
  /\ \E cadence \in {"interval", "cron"} :
       row = [enabled |-> TRUE, cadence |-> cadence, start |-> None, last |-> None,
              next |-> IF cadence = "cron" THEN CronStep ELSE Interval]
  /\ beat = None /\ ticks = {}
  /\ job = [i \in Instant |-> NoJob]
  /\ pending = [i \in Instant |-> NoAction]
  /\ patch = NoRow /\ delete = "idle" /\ doomed = {}
  /\ patches = 0 /\ crashes = 0

ClockTicks == /\ clock < Horizon
              /\ clock' = clock + 1
              /\ UNCHANGED <<row, beat, ticks, job, pending, operatorVars, crashes>>

-----------------------------------------------------------------------------
(* Beat *)

\* DatabaseScheduler._load_entries
BeatSync == /\ beat' = row.next
            /\ UNCHANGED <<clock, row, ticks, job, pending, operatorVars, crashes>>

\* CommitmentSchedule.is_due: an overdue commitment is sent, and sent again
\* when it is still in memory after BEAT_SYNC_EVERY_SEC.
BeatSends == /\ beat # None /\ beat <= clock
             /\ ticks' = ticks \cup {beat}
             /\ UNCHANGED <<clock, row, beat, job, pending, operatorVars, crashes>>

-----------------------------------------------------------------------------
(* The tick task: consume_due_tick, the mint and the dispatch *)

\* The task holds no result of an earlier commit for this message.
Undecided(due) == due \in ticks /\ pending[due] = NoAction

Acknowledge(due) == /\ ticks' = ticks \ {due}
                    /\ UNCHANGED pending

\* _mint_on_session for the Instant i: insert the Job or find the one that is
\* there, move the cursor of an existing row, then cancel or go on to dispatch.
Mint(due, i, r, cancel) ==
  LET again == job[i] # NoJob
      minted == IF again THEN job[i] ELSE [status |-> "queued", created |-> clock, sent |-> FALSE]
      cancels == cancel /\ minted.status \in Unfinished
  IN /\ job' = [job EXCEPT ![i] = IF cancels THEN [minted EXCEPT !.status = "cancelled"]
                                             ELSE minted]
     /\ row' = IF r = NoRow THEN r ELSE ConsumedRow(r, minted.created)
     /\ IF ~cancels /\ minted.status = "queued"
        THEN /\ pending' = [pending EXCEPT ![due] =
                  [does |-> IF again THEN "recheck" ELSE "dispatch", instant |-> i]]
             /\ UNCHANGED ticks
        ELSE Acknowledge(due)
     /\ UNCHANGED <<clock, beat, operatorVars, crashes>>

\* The definition is gone: the delivered Instant still consumes, as cancelled.
TickOfDeletedRow(due) == /\ Undecided(due)
                         /\ ~Exists
                         /\ Mint(due, due, NoRow, TRUE)

TickOfInterval(due) ==
  /\ Undecided(due)
  /\ row.cadence = "interval"
  /\ row.enabled => due = row.next
  /\ Mint(due, due, row, ~row.enabled)

\* commitment_replaced
TickOfReplacedCommitment(due) ==
  /\ Undecided(due)
  /\ row.cadence = "interval"
  /\ row.enabled /\ due # row.next
  /\ Acknowledge(due)
  /\ UNCHANGED <<clock, row, beat, job, operatorVars, crashes>>

\* The gate for cron: the delivered Instant is the current slot, not consumed.
SlotIsDue_Wrong(due) == due > row.last
SlotIsDue(due) == due = CurrentSlot(row) /\ due > row.last

TickOfSlot(due) ==
  /\ Undecided(due)
  /\ row.cadence = "cron"
  /\ SlotIsDue(due)
  /\ Mint(due, due, row, ~row.enabled)

\* _advance_cross_slot: a paused row keeps no commitment; the current slot is
\* consumed in the same handling; otherwise only the commitment moves.
TickOfStaleSlot(due) ==
  /\ Undecided(due)
  /\ row.cadence = "cron"
  /\ ~SlotIsDue(due)
  /\ LET slot == CurrentSlot(row)
     IN IF row.enabled /\ slot > row.last
        THEN Mint(due, slot, row, FALSE)
        ELSE /\ row' = IF row.enabled
                       THEN [row EXCEPT !.next = CronPoint(row.start, clock)]
                       ELSE row
             /\ Acknowledge(due)
             /\ UNCHANGED <<clock, beat, job, operatorVars, crashes>>

\* dispatch_queued_job after the commit; a Job that was there already is only
\* dispatched if the row is still enabled.
Dispatched(due) ==
  IF pending[due].does = "dispatch" \/ row.enabled
  THEN [job EXCEPT ![pending[due].instant].sent = TRUE]
  ELSE job

TickEnds(due) ==
  /\ pending[due] # NoAction
  /\ job' = Dispatched(due)
  /\ pending' = [pending EXCEPT ![due] = NoAction]
  /\ ticks' = ticks \ {due}
  /\ UNCHANGED <<clock, row, beat, operatorVars, crashes>>

\* The worker dies after the commit, before or after the dispatch; the message
\* will be delivered again.
TickCrashes(due) ==
  /\ pending[due] # NoAction
  /\ crashes < MaxCrashes
  /\ crashes' = crashes + 1
  /\ job' \in {job, Dispatched(due)}
  /\ pending' = [pending EXCEPT ![due] = NoAction]
  /\ UNCHANGED <<clock, row, beat, ticks, operatorVars>>

\* The Job runs (Jobs.tla).
JobStarts(i) == /\ job[i].status = "queued" /\ job[i].sent
                /\ job' = [job EXCEPT ![i].status = "running"]
                /\ UNCHANGED <<clock, row, beat, ticks, pending, operatorVars, crashes>>

JobEnds(i) == /\ job[i].status = "running"
              /\ job' = [job EXCEPT ![i].status = "ended"]
              /\ UNCHANGED <<clock, row, beat, ticks, pending, operatorVars, crashes>>

-----------------------------------------------------------------------------
(* Operators *)

PatchReads == /\ patches < MaxPatches
              /\ patch = NoRow /\ Exists
              /\ patch' = row
              /\ patches' = patches + 1
              /\ UNCHANGED <<clock, row, beat, ticks, job, pending, delete, doomed, crashes>>

\* The record patch_schedule writes for the one it read.  A PATCH that names
\* cadence or start_at commits anew, also when it names the stored values.
Patched(r, enabled, cadence, start, named) ==
  [r EXCEPT !.enabled = enabled, !.cadence = cadence, !.start = start,
            !.next = CASE ~enabled -> None
                       [] enabled /\ (named \/ ~r.enabled) -> NextRun(cadence, start, clock)
                       [] OTHER -> @]

\* upsert_on of the whole record, which inserts when the row is gone.
PatchWrites ==
  /\ patch # NoRow
  /\ \E enabled, named \in BOOLEAN, cadence \in {"interval", "cron"}, start \in Start \cup {None} :
       /\ ~named => cadence = patch.cadence /\ start = patch.start
       /\ row' = Patched(patch, enabled, cadence, start, named)
  /\ patch' = NoRow
  /\ UNCHANGED <<clock, beat, ticks, job, pending, delete, doomed, patches, crashes>>

\* delete_schedule: cancel_unfinished_for_schedule lists, ...
DeleteLists ==
  /\ ~Deleting /\ Exists
  /\ delete' = "cancelling"
  /\ doomed' = {i \in Instant : job[i].status \in Unfinished}
  /\ UNCHANGED <<clock, row, beat, ticks, job, pending, patch, patches, crashes>>

\* ... cancels the listed Jobs that have not ended meanwhile, ...
DeleteCancels(i) ==
  /\ i \in doomed
  /\ doomed' = doomed \ {i}
  /\ job' = [job EXCEPT ![i].status = IF @ \in Unfinished THEN "cancelled" ELSE @]
  /\ UNCHANGED <<clock, row, beat, ticks, pending, patch, delete, patches, crashes>>

\* ... and deletes the row.
DeleteRow ==
  /\ Deleting /\ doomed = {}
  /\ row' = NoRow
  /\ delete' = "idle"
  /\ UNCHANGED <<clock, beat, ticks, job, pending, patch, doomed, patches, crashes>>

-----------------------------------------------------------------------------
TickTask(due) == \/ TickOfDeletedRow(due) \/ TickOfInterval(due)
                 \/ TickOfReplacedCommitment(due)
                 \/ TickOfSlot(due) \/ TickOfStaleSlot(due)
                 \/ TickEnds(due)

SchedulesNext ==
  \/ ClockTicks \/ BeatSync \/ BeatSends
  \/ \E i \in Instant : \/ TickTask(i) \/ TickCrashes(i)
                        \/ JobStarts(i) \/ JobEnds(i)
                        \/ DeleteCancels(i)
  \/ PatchReads \/ PatchWrites
  \/ DeleteLists \/ DeleteRow

SchedulesSpec == SchedulesInit /\ [][SchedulesNext]_scheduleVars

\* Beat keeps loading and sending, and workers run the tasks they are given.
SchedulesFairSpec ==
  /\ SchedulesSpec
  /\ WF_scheduleVars(BeatSync) /\ WF_scheduleVars(BeatSends)
  /\ \A i \in Instant : WF_scheduleVars(TickTask(i))

-----------------------------------------------------------------------------
(* Properties *)

Row == [enabled : BOOLEAN, cadence : {"none", "interval", "cron"},
        start : Start \cup {None}, last : Instant \cup {None}, next : Nat \cup {None}]

\* Every variable has its type, and last_run_at is never in the future.
SchedulesTypeOK ==
  /\ clock \in Instant
  /\ row \in Row /\ patch \in Row
  /\ row.last <= clock
  /\ beat \in Nat \cup {None}
  /\ ticks \subseteq Instant
  /\ job \in [Instant -> [status : {"absent", "queued", "running", "ended", "cancelled"},
                          created : Instant \cup {None}, sent : BOOLEAN]]
  /\ pending \in [Instant -> [does : {"nothing", "dispatch", "recheck"},
                              instant : Instant \cup {None}]]
  /\ delete \in {"idle", "cancelling"} /\ doomed \subseteq Instant
  /\ patches \in 0..MaxPatches /\ crashes \in 0..MaxCrashes

\* An Instant that the cadence allows: a slot, or a point of the anchored grid
Legal(r) ==
  CASE r.cadence = "cron" -> r.next % CronStep = 0 /\ r.next >= r.start
    [] r.cadence = "interval" /\ r.start # None ->
         r.next >= r.start /\ (r.next - r.start) % Interval = 0
    [] OTHER -> TRUE

CommitmentIsLegal == IF row.enabled THEN row.next # None /\ Legal(row) ELSE row.next = None

ConsumedTickHasJob == row.last # None => \E i \in Instant : job[i].created = row.last

\* After any mix of mints, skipped slots, catch-ups, pauses, crashes and stale
\* PATCHes, an enabled row commits to an Instant that its own cadence allows and
\* a paused row to none; and a tick is consumed only when a Job attempt exists
\* for it: last_run_at is the creation of a Job (docs/business-scheduled-tasks.md,
\* "Due event is atomic").
CommitmentsHold == (Exists => CommitmentIsLegal) /\ ConsumedTickHasJob

Minted(i) == job[i] = NoJob /\ job'[i] # NoJob

\* A missed cron slot is never caught up: while the row is there, a Job is only
\* minted for the slot of the current minute, whichever Instant was delivered.
MissedSlotsAreSkipped ==
  [][\A i \in Instant : Minted(i) /\ row.cadence = "cron" => i = clock]_scheduleVars

\* A pause leaves a minted Job alone: only a deletion cancels it
\* (docs/business-scheduled-tasks.md).  It does not hold: see the README.
PauseKeepsJobs ==
  [][\A i \in Instant :
       job[i].status \in Unfinished /\ job'[i].status = "cancelled" => Deleting \/ ~Exists]_scheduleVars

\* A deleted schedule leaves no unfinished Job.  It does not hold: see the README.
DeleteCancelsUnfinished ==
  ~Exists => \A i \in Instant : job[i].status \notin Unfinished

\* A tick that minted a Job is redelivered until the Job is dispatched, while the
\* row is enabled.  It does not hold: see the README.
QueuedIsDispatched ==
  \A i \in Instant :
    job[i].status = "queued"
      ~> job[i].sent \/ job[i].status # "queued" \/ ~row.enabled \/ Deleting
=============================================================================
