---------------------------- MODULE JobsProofs ----------------------------
(* The rows that are written back whole: the inductive invariants of Jobs and of *)
(* Publication, and the theorems that follow from them.                         *)
EXTENDS Jobs, Publication, SequenceTheorems, TLAPS

\* A copy waiting to be saved was read from a claimed or terminal row, never
\* from a queued one, and it carries the row's claimant and a matching outcome.
CopyOK ==
  \A a \in Writer, j \in Job :
    copy[a][j] # NoRow =>
      /\ copy[a][j].status \notin {"absent", "queued"}
      /\ copy[a][j].claimed_by = row[j].claimed_by
      /\ copy[a][j].status = "running" => copy[a][j].claimed_by \in Worker
      /\ OutcomeFits(copy[a][j])

\* Nothing has touched a Job that has not been claimed or cancelled.
UnclaimedOK ==
  \A j \in Job :
    row[j].status \in {"absent", "queued"} =>
      /\ task[j] = "idle" /\ child[j] = "none" /\ http[j] = "idle"
      /\ runs[j] = 0
      /\ \A a \in Writer : copy[a][j] = NoRow

\* The body is entered from `starting', which is reached once, from `claimed';
\* a task with a copy in hand is noting.
PhaseOK ==
  \A j \in Job :
    /\ task[j] = "claimed" => child[j] = "none" /\ runs[j] = 0
    /\ child[j] = "starting" => runs[j] = 0
    /\ copy["task"][j] # NoRow => task[j] = "noting"

\* The tasks of a worker belong to a generation that has already abandoned its
\* leftovers, and what it still lists has no task.
HostOK ==
  /\ \A j \in Job : task[j] # "idle" => row[j].claimed_by \in abandoned
  /\ \A w \in Worker : w \in abandoned <=> worker[w] # "down"
  /\ \A w \in Worker : worker[w] # "starting" => leftovers[w] = {}
  /\ \A w \in Worker : \A j \in leftovers[w] : row[j].status \notin {"absent", "queued"}

\* A quiet Job has no log writer but HTTP cancel, which reads an ended row.
QuietOK ==
  \A j \in Job \ Chatty :
    /\ copy["child"][j] = NoRow /\ copy["task"][j] = NoRow
    /\ task[j] # "noting"
    /\ http[j] = "noting" => Ended(j)
    /\ copy["http"][j] # NoRow => copy["http"][j] = row[j] /\ Ended(j)

IInv == /\ TypeOK
        /\ CopyOK
        /\ UnclaimedOK
        /\ PhaseOK
        /\ OutcomeMatchesStatus
        /\ EnteredAtMostOnce
        /\ HostOK
        /\ NoSelfAbandon
        /\ QuietOK

-----------------------------------------------------------------------------
(* Rows *)

\* What one compare-and-set may do to a row: nothing, or end an unfinished one.
Stamped(r, s) ==
  \/ s = r
  \/ /\ r.status \in Unfinished
     /\ s.status \in Terminal
     /\ s.status = "succeeded" => r.status = "running"
     /\ s.claimed_by = r.claimed_by
     /\ OutcomeFits(s)

LEMMA RowConstants ==
  /\ NoRow \in JobRow /\ NoRow.status = "absent" /\ OutcomeFits(NoRow)
  /\ \A limited \in BOOLEAN : /\ NewRow(limited) \in JobRow
                               /\ NewRow(limited).status = "queued"
                               /\ OutcomeFits(NewRow(limited))
BY DEF NoRow, NewRow, JobRow, Unfinished, Terminal, ErrorCode, OutcomeFits

\* claim_queued keeps everything but the status and the claimant.
LEMMA ClaimedRowFacts ==
  ASSUME NEW r \in JobRow, NEW w \in Worker, OutcomeFits(r), Claimable(r)
  PROVE  /\ ClaimedRow(r, w) \in JobRow
         /\ ClaimedRow(r, w).status = "running"
         /\ ClaimedRow(r, w).claimed_by = w
         /\ OutcomeFits(ClaimedRow(r, w))
BY DEF JobRow, ClaimedRow, Claimable, OutcomeFits, Unfinished, Terminal

\* mark_failed, mark_succeeded and mark_cancelled stamp a row and keep its type.
LEMMA MarkFailedStamps ==
  ASSUME NEW r \in JobRow, NEW from \in SUBSET Unfinished,
         NEW code \in ErrorCode \ {"none"}, OutcomeFits(r)
  PROVE  MarkFailed(r, from, code) \in JobRow /\ Stamped(r, MarkFailed(r, from, code))
BY DEF MarkFailed, CasTerminal, Stamped, JobRow, Unfinished, Terminal, ErrorCode, OutcomeFits

LEMMA MarkSucceededStamps ==
  ASSUME NEW r \in JobRow, OutcomeFits(r)
  PROVE  MarkSucceeded(r) \in JobRow /\ Stamped(r, MarkSucceeded(r))
BY DEF MarkSucceeded, CasTerminal, Stamped, JobRow, Unfinished, Terminal, ErrorCode, OutcomeFits

LEMMA MarkCancelledStamps ==
  ASSUME NEW r \in JobRow, OutcomeFits(r)
  PROVE  /\ MarkCancelled(r) \in JobRow /\ Stamped(r, MarkCancelled(r))
         /\ r.status \in Unfinished => MarkCancelled(r).status = "cancelled"
BY DEF MarkCancelled, CasTerminal, Stamped, JobRow, Unfinished, Terminal, ErrorCode, OutcomeFits

-----------------------------------------------------------------------------
(* Steps *)

\* The step stamps the row of j and writes no other row.
StampsRow(j) == /\ row' = [row EXCEPT ![j] = row'[j]]
                /\ row'[j] \in JobRow
                /\ Stamped(row[j], row'[j])

\* Every compare-and-set of the code is such a step.
LEMMA CasStepsStamp ==
  ASSUME TypeOK, OutcomeMatchesStatus, NEW j \in Job,
         \/ Finish(j) \/ AbortStamps(j) \/ ChildSettles(j)
         \/ HttpCancels(j) \/ ScheduleCancels(j)
         \/ ReapStale(j) \/ ReapTimeout(j)
         \/ \E w \in Worker : AbandonLeftover(w, j)
  PROVE  StampsRow(j)
<1>1. row \in [Job -> JobRow] /\ row[j] \in JobRow /\ OutcomeFits(row[j])
  BY DEF TypeOK, OutcomeMatchesStatus
<1>2. /\ {"running"} \in SUBSET Unfinished
      /\ Unfinished \in SUBSET Unfinished
      /\ {"JOB_WORKER_LOST", "JOB_RUNNING_TIMEOUT", "JOB_EXECUTION_FAILED"}
            \subseteq ErrorCode \ {"none"}
  BY DEF Unfinished, ErrorCode
<1>3. \A from \in SUBSET Unfinished, code \in ErrorCode \ {"none"} :
        /\ MarkFailed(row[j], from, code) \in JobRow
        /\ Stamped(row[j], MarkFailed(row[j], from, code))
  BY <1>1, MarkFailedStamps
<1>4. /\ MarkSucceeded(row[j]) \in JobRow /\ Stamped(row[j], MarkSucceeded(row[j]))
      /\ MarkCancelled(row[j]) \in JobRow /\ Stamped(row[j], MarkCancelled(row[j]))
  BY <1>1, MarkSucceededStamps, MarkCancelledStamps
<1>5. Stamped(row[j], row[j])
  BY DEF Stamped
<1>6. CASE Finish(j)
  BY <1>1, <1>2, <1>3, <1>5, <1>6 DEF Finish, StampsRow
<1>7. CASE AbortStamps(j)
  BY <1>1, <1>2, <1>3, <1>7 DEF AbortStamps, StampsRow
<1>8. CASE ChildSettles(j)
  BY <1>1, <1>2, <1>3, <1>4, <1>8 DEF ChildSettles, StampsRow
<1>9. CASE HttpCancels(j) \/ ScheduleCancels(j)
  BY <1>1, <1>4, <1>9 DEF HttpCancels, ScheduleCancels, StampsRow
<1>10. CASE ReapStale(j) \/ ReapTimeout(j)
  BY <1>1, <1>2, <1>3, <1>10 DEF ReapStale, ReapTimeout, StampsRow
<1>11. CASE \E w \in Worker : AbandonLeftover(w, j)
  BY <1>1, <1>2, <1>3, <1>11 DEF AbandonLeftover, StampsRow
<1>12. QED
  BY <1>6, <1>7, <1>8, <1>9, <1>10, <1>11

LEMMA InitIInv == Init => IInv
<1>1. SUFFICES ASSUME Init PROVE IInv
  OBVIOUS
<1>2. TypeOK
  BY <1>1, RowConstants, JobsAssumption DEF Init, TypeOK, Running, JobsAssumption
<1>3. CopyOK /\ UnclaimedOK /\ PhaseOK
  BY <1>1 DEF Init, CopyOK, UnclaimedOK, PhaseOK, Writer
<1>4. OutcomeMatchesStatus /\ EnteredAtMostOnce
  BY <1>1, RowConstants DEF Init, OutcomeMatchesStatus, EnteredAtMostOnce
<1>5. HostOK /\ NoSelfAbandon
  BY <1>1 DEF Init, HostOK, NoSelfAbandon
<1>6. QuietOK
  BY <1>1 DEF Init, QuietOK, Writer
<1>7. QED
  BY <1>2, <1>3, <1>4, <1>5, <1>6 DEF IInv

\* Type correctness.  A stamp keeps the type of a row; the other actions that
\* write rows mint, claim, or save a copy.
LEMMA TypeStep == IInv /\ [Next]_vars => TypeOK'
<1>1. SUFFICES ASSUME IInv, [Next]_vars PROVE TypeOK'
  OBVIOUS
<1>2. TypeOK /\ CopyOK /\ OutcomeMatchesStatus /\ Writer = {"child", "task", "http"}
  BY <1>1 DEF IInv, Writer
<1>3. ASSUME NEW j \in Job, StampsRow(j)
      PROVE  /\ row' \in [Job -> JobRow]
             /\ \A i \in Job : Running(i)' => row'[i].claimed_by \in Worker
  BY <1>2, <1>3 DEF StampsRow, Stamped, TypeOK, Running, Terminal
<1>4. ASSUME NEW j \in Job, JobStep(j) PROVE TypeOK'
  <2>1. CASE Create(j)
    BY <1>2, <2>1, RowConstants
    DEF Create, TypeOK, Running, clockVars, taskVars, workerVars, reaperVars
  <2>2. CASE Dispatch(j)
    BY <1>2, <2>2 DEF Dispatch, TypeOK, Running, clockVars, taskVars, workerVars, reaperVars
  <2>3. CASE Spawn(j) \/ WatchSeesExit(j) \/ AbortProceeds(j)
    BY <1>2, <2>3 DEF Spawn, WatchSeesExit, AbortProceeds, TypeOK, Running,
       rowVars, clockVars, workerVars, reaperVars
  <2>4. CASE WatchKills(j) \/ SuperviseRaises(j) \/ ChildExits(j)
    BY <1>2, <2>4, RowConstants DEF WatchKills, SuperviseRaises, ChildExits, KillChild,
       TypeOK, Running, rowVars, clockVars, workerVars, reaperVars
  <2>5. CASE Finish(j) \/ AbortStamps(j)
    <3>1. StampsRow(j)
      BY <1>2, <2>5, CasStepsStamp
    <3>2. QED
      BY <1>2, <1>3, <2>5, <3>1
      DEF Finish, AbortStamps, TypeOK, clockVars, workerVars, reaperVars
  <2>6. CASE AbortReraises(j)
    BY <1>2, <2>6 DEF AbortReraises, TypeOK, Running, clockVars, workerVars, reaperVars
  <2>7. CASE LosePoolProcess(j)
    BY <1>2, <2>7, RowConstants DEF LosePoolProcess, TypeOK, Running,
       rowVars, clockVars, workerVars, reaperVars
  <2>8. CASE ChildAdopts(j)
    BY <1>2, <2>8 DEF ChildAdopts, TypeOK, Running, rowVars, clockVars, workerVars, reaperVars
  <2>9. CASE ChildSettles(j)
    <3>1. StampsRow(j)
      BY <1>2, <2>9, CasStepsStamp
    <3>2. QED
      BY <1>2, <1>3, <2>9, <3>1 DEF ChildSettles, TypeOK, clockVars, taskVars, workerVars, reaperVars
  <2>10. ASSUME NEW a \in Writer, NoteReads(a, j) PROVE TypeOK'
    BY <1>2, <2>10 DEF NoteReads, TypeOK, Running, rowVars, clockVars, workerVars, reaperVars
  <2>11. ASSUME NEW a \in Writer, NoteSaves(a, j) PROVE TypeOK'
    BY <1>2, <2>11, RowConstants
    DEF NoteSaves, CopyOK, TypeOK, Running, clockVars, workerVars, reaperVars
  <2>12. CASE HttpCancels(j) \/ ScheduleCancels(j)
    <3>1. StampsRow(j)
      BY <1>2, <2>12, CasStepsStamp
    <3>2. QED
      BY <1>2, <1>3, <2>12, <3>1
      DEF HttpCancels, ScheduleCancels, TypeOK, clockVars, taskVars, workerVars, reaperVars
  <2>13. CASE OccupancyAges(j) \/ LimitPasses(j)
    BY <1>2, <2>13 DEF OccupancyAges, LimitPasses, TypeOK, Running,
       rowVars, taskVars, workerVars, reaperVars
  <2>14. CASE ReapStale(j) \/ ReapTimeout(j)
    <3>1. StampsRow(j)
      BY <1>2, <2>14, CasStepsStamp
    <3>2. QED
      BY <1>2, <1>3, <2>14, <3>1
      DEF ReapStale, ReapTimeout, TypeOK, clockVars, taskVars, workerVars
  <2>15. QED
    BY <1>4, <2>1, <2>2, <2>3, <2>4, <2>5, <2>6, <2>7, <2>8, <2>9, <2>10, <2>11, <2>12,
       <2>13, <2>14 DEF JobStep
<1>5. ASSUME NEW w \in Worker, WorkerStep(w) PROVE TypeOK'
  <2>1. CASE WorkerReady(w)
    BY <1>2, <2>1 DEF WorkerReady, Renew, Leftovers, RunningOf, OwnedBy, TypeOK, Running,
       rowVars, taskVars, reaperVars
  <2>2. CASE TouchOccupancy(w)
    BY <1>2, <2>2 DEF TouchOccupancy, Renew, TypeOK, Running,
       rowVars, taskVars, workerVars, reaperVars
  <2>3. CASE WorkerCrash(w)
    BY <1>2, <2>3, RowConstants, JobsAssumption DEF WorkerCrash, OwnedBy, TypeOK, Running,
       rowVars, clockVars, reaperVars, JobsAssumption
  <2>4. ASSUME NEW j \in Job, Claim(w, j) PROVE TypeOK'
    <3>1. ClaimedRow(row[j], w) \in JobRow /\ ClaimedRow(row[j], w).claimed_by = w
      BY <1>2, <2>4, ClaimedRowFacts DEF Claim, TypeOK, OutcomeMatchesStatus
    <3>2. QED
      BY <1>2, <2>4, <3>1 DEF Claim, TypeOK, Running, workerVars, reaperVars
  <2>5. ASSUME NEW j \in Job, DeliverUnclaimable(w, j) PROVE TypeOK'
    BY <1>2, <2>5 DEF DeliverUnclaimable, TypeOK, Running,
       clockVars, taskVars, workerVars, reaperVars
  <2>6. ASSUME NEW j \in Job, AbandonLeftover(w, j) PROVE TypeOK'
    <3>1. StampsRow(j)
      BY <1>2, <2>6, CasStepsStamp
    <3>2. QED
      BY <1>2, <1>3, <2>6, <3>1 DEF AbandonLeftover, TypeOK, clockVars, taskVars, reaperVars
  <2>7. QED
    BY <1>5, <2>1, <2>2, <2>3, <2>4, <2>5, <2>6 DEF WorkerStep
<1>6. CASE ReaperStep
  BY <1>2, <1>6 DEF ReaperStep, ReaperLists, ReaperListsTimeouts, ReaperEnds, TimedOut,
     TypeOK, Running, rowVars, clockVars, taskVars, workerVars
<1>7. CASE UNCHANGED vars
  BY <1>2, <1>7 DEF TypeOK, Running, vars, rowVars, clockVars, taskVars, workerVars, reaperVars
<1>8. QED
  BY <1>1, <1>4, <1>5, <1>6, <1>7 DEF Next

\* A log writer reads only rows that have left `queued'.
LEMMA NotesReadClaimedRows ==
  ASSUME UnclaimedOK, TypeOK, NEW a \in Writer, NEW j \in Job, MayNote(a, j)
  PROVE  row[j].status \notin {"absent", "queued"}
BY DEF UnclaimedOK, TypeOK, MayNote, Working, Writer

\* Copies keep the claimant and an outcome that fits.
LEMMA CopyStep == IInv /\ [Next]_vars => CopyOK'
<1>1. SUFFICES ASSUME IInv, [Next]_vars PROVE CopyOK'
  OBVIOUS
<1>2. TypeOK /\ CopyOK /\ UnclaimedOK /\ OutcomeMatchesStatus
  BY <1>1 DEF IInv
<1>3. ASSUME NEW j \in Job, StampsRow(j), UNCHANGED copy
      PROVE  CopyOK'
  BY <1>2, <1>3 DEF StampsRow, Stamped, CopyOK, TypeOK
<1>4. ASSUME NEW j \in Job, JobStep(j) PROVE CopyOK'
  <2>1. CASE \/ Finish(j) \/ AbortStamps(j) \/ ChildSettles(j)
             \/ HttpCancels(j) \/ ScheduleCancels(j) \/ ReapStale(j) \/ ReapTimeout(j)
    <3>1. StampsRow(j)
      BY <1>2, <2>1, CasStepsStamp
    <3>2. UNCHANGED copy
      BY <2>1 DEF Finish, AbortStamps, ChildSettles, HttpCancels, ScheduleCancels,
         ReapStale, ReapTimeout, taskVars
    <3>3. QED
      BY <1>3, <3>1, <3>2
  <2>2. CASE Create(j)
    BY <1>2, <2>2 DEF Create, CopyOK, UnclaimedOK, TypeOK, taskVars
  <2>3. CASE \/ Dispatch(j) \/ Spawn(j) \/ WatchSeesExit(j) \/ AbortReraises(j)
             \/ AbortProceeds(j) \/ ChildAdopts(j) \/ OccupancyAges(j) \/ LimitPasses(j)
    BY <1>2, <2>3 DEF Dispatch, Spawn, WatchSeesExit, AbortReraises, AbortProceeds,
       ChildAdopts, OccupancyAges, LimitPasses, CopyOK, rowVars, taskVars
  <2>4. CASE WatchKills(j) \/ SuperviseRaises(j) \/ ChildExits(j) \/ LosePoolProcess(j)
    <3>1. /\ row' = row
          /\ \A a \in Writer, i \in Job : copy'[a][i] \in {NoRow, copy[a][i]}
      BY <1>2, <2>4 DEF WatchKills, SuperviseRaises, ChildExits, LosePoolProcess, KillChild,
         TypeOK, rowVars
    <3>2. QED
      BY <1>2, <3>1 DEF CopyOK
  <2>5. ASSUME NEW a \in Writer, NoteReads(a, j) PROVE CopyOK'
    <3>1. row[j].status \notin {"absent", "queued"}
      BY <1>2, <2>5, NotesReadClaimedRows DEF NoteReads
    <3>2. QED
      BY <1>2, <2>5, <3>1 DEF NoteReads, CopyOK, TypeOK, OutcomeMatchesStatus, Running, rowVars
  <2>6. ASSUME NEW a \in Writer, NoteSaves(a, j) PROVE CopyOK'
    BY <1>2, <2>6 DEF NoteSaves, CopyOK, TypeOK
  <2>7. QED
    BY <1>4, <2>1, <2>2, <2>3, <2>4, <2>5, <2>6 DEF JobStep
<1>5. ASSUME NEW w \in Worker, WorkerStep(w) PROVE CopyOK'
  <2>1. CASE WorkerReady(w) \/ TouchOccupancy(w)
    BY <1>2, <2>1 DEF WorkerReady, TouchOccupancy, CopyOK, rowVars, taskVars
  <2>2. CASE WorkerCrash(w)
    <3>1. /\ row' = row
          /\ \A a \in Writer, i \in Job : copy'[a][i] \in {NoRow, copy[a][i]}
      BY <1>2, <2>2 DEF WorkerCrash, TypeOK, rowVars
    <3>2. QED
      BY <1>2, <3>1 DEF CopyOK
  <2>3. ASSUME NEW j \in Job, Claim(w, j) PROVE CopyOK'
    BY <1>2, <2>3 DEF Claim, Claimable, CopyOK, UnclaimedOK, TypeOK
  <2>4. ASSUME NEW j \in Job, DeliverUnclaimable(w, j) PROVE CopyOK'
    BY <1>2, <2>4 DEF DeliverUnclaimable, CopyOK, taskVars
  <2>5. ASSUME NEW j \in Job, AbandonLeftover(w, j) PROVE CopyOK'
    <3>1. StampsRow(j) /\ UNCHANGED copy
      BY <1>2, <2>5, CasStepsStamp DEF AbandonLeftover, taskVars
    <3>2. QED
      BY <1>3, <3>1
  <2>6. QED
    BY <1>5, <2>1, <2>2, <2>3, <2>4, <2>5 DEF WorkerStep
<1>6. CASE ReaperStep \/ UNCHANGED vars
  BY <1>2, <1>6 DEF ReaperStep, ReaperLists, ReaperListsTimeouts, ReaperEnds, CopyOK,
     vars, rowVars, taskVars
<1>7. QED
  BY <1>1, <1>4, <1>5, <1>6 DEF Next

\* A row that is absent or queued was so before the step (or is being minted),
\* and nothing but minting and delivery acts on such a Job.
LEMMA UnclaimedStep == IInv /\ [Next]_vars => UnclaimedOK'
<1>1. SUFFICES ASSUME IInv, [Next]_vars PROVE UnclaimedOK'
  OBVIOUS
<1>2. TypeOK /\ CopyOK /\ UnclaimedOK /\ OutcomeMatchesStatus
  BY <1>1 DEF IInv
<1>3. ASSUME NEW j \in Job, JobStep(j) PROVE UnclaimedOK'
  <2>1. CASE Create(j)
    BY <1>2, <2>1, RowConstants DEF Create, UnclaimedOK, TypeOK, taskVars
  <2>2. CASE Dispatch(j) \/ OccupancyAges(j) \/ LimitPasses(j)
    BY <1>2, <2>2 DEF Dispatch, OccupancyAges, LimitPasses, UnclaimedOK, rowVars, taskVars
  <2>3. CASE \/ Spawn(j) \/ WatchKills(j) \/ WatchSeesExit(j) \/ SuperviseRaises(j)
             \/ AbortReraises(j) \/ AbortProceeds(j) \/ LosePoolProcess(j)
             \/ ChildAdopts(j) \/ ChildExits(j)
    <3>1. row[j].status \notin {"absent", "queued"}
      BY <1>2, <2>3 DEF UnclaimedOK, Spawn, WatchKills, WatchSeesExit, SuperviseRaises,
         AbortReraises, AbortProceeds, LosePoolProcess, ChildAdopts, ChildExits
    <3>2. /\ row' = row /\ http' = http
          /\ \A i \in Job \ {j} :
               /\ task'[i] = task[i] /\ child'[i] = child[i] /\ runs'[i] = runs[i]
               /\ \A a \in Writer : copy'[a][i] = copy[a][i]
      BY <1>2, <2>3 DEF TypeOK, Spawn, WatchKills, WatchSeesExit, SuperviseRaises, KillChild,
         AbortReraises, AbortProceeds, LosePoolProcess, ChildAdopts, ChildExits, rowVars
    <3>3. QED
      BY <1>2, <3>1, <3>2 DEF UnclaimedOK
  <2>4. CASE \/ Finish(j) \/ AbortStamps(j) \/ ChildSettles(j)
             \/ HttpCancels(j) \/ ScheduleCancels(j) \/ ReapStale(j) \/ ReapTimeout(j)
    <3>1. StampsRow(j)
      BY <1>2, <2>4, CasStepsStamp
    <3>2. /\ UNCHANGED <<copy, runs>>
          /\ \A i \in Job \ {j} :
               task'[i] = task[i] /\ child'[i] = child[i] /\ http'[i] = http[i]
      BY <1>2, <2>4 DEF TypeOK, Finish, AbortStamps, ChildSettles, HttpCancels,
         ScheduleCancels, ReapStale, ReapTimeout, taskVars
    <3>3. \/ row[j].status \notin {"absent", "queued"}
          \/ HttpCancels(j) \/ ScheduleCancels(j)
          \/ row'[j] = row[j] /\ UNCHANGED taskVars
      BY <1>2, <2>4, <3>1 DEF UnclaimedOK, TypeOK, Finish, AbortStamps, ChildSettles, Working,
         ReapStale, ReapTimeout, MarkFailed, CasTerminal
    <3>4. \/ row'[j].status \notin {"absent", "queued"}
          \/ row'[j] = row[j] /\ UNCHANGED taskVars
      <4>1. CASE row[j].status \notin {"absent", "queued"}
        <5>1. Stamped(row[j], row'[j])
          BY <3>1 DEF StampsRow
        <5>2. QED
          BY <4>1, <5>1 DEF Stamped, Terminal
      <4>2. CASE HttpCancels(j) \/ ScheduleCancels(j)
        <5>1. /\ row[j] \in JobRow /\ OutcomeFits(row[j]) /\ row[j].status \in Unfinished
              /\ row'[j] = MarkCancelled(row[j])
          BY <1>2, <4>2 DEF HttpCancels, ScheduleCancels, TypeOK, OutcomeMatchesStatus
        <5>2. row'[j].status = "cancelled"
          BY <5>1, MarkCancelledStamps
        <5>3. QED
          BY <5>2
      <4>3. QED
        BY <3>3, <4>1, <4>2
    <3>5. QED
      BY <1>2, <3>1, <3>2, <3>4 DEF UnclaimedOK, StampsRow, TypeOK, taskVars
  <2>5. ASSUME NEW a \in Writer, NoteReads(a, j) PROVE UnclaimedOK'
    <3>1. row[j].status \notin {"absent", "queued"}
      BY <1>2, <2>5, NotesReadClaimedRows DEF NoteReads
    <3>2. QED
      BY <1>2, <2>5, <3>1 DEF NoteReads, UnclaimedOK, TypeOK, rowVars
  <2>6. ASSUME NEW a \in Writer, NoteSaves(a, j) PROVE UnclaimedOK'
    BY <1>2, <2>6 DEF NoteSaves, CopyOK, UnclaimedOK, TypeOK
  <2>7. QED
    BY <1>3, <2>1, <2>2, <2>3, <2>4, <2>5, <2>6 DEF JobStep
<1>4. ASSUME NEW w \in Worker, WorkerStep(w) PROVE UnclaimedOK'
  <2>1. CASE WorkerReady(w) \/ TouchOccupancy(w)
    BY <1>2, <2>1 DEF WorkerReady, TouchOccupancy, UnclaimedOK, rowVars, taskVars
  <2>2. CASE WorkerCrash(w)
    BY <1>2, <2>2 DEF WorkerCrash, UnclaimedOK, TypeOK, rowVars
  <2>3. ASSUME NEW j \in Job, Claim(w, j) PROVE UnclaimedOK'
    BY <1>2, <2>3, ClaimedRowFacts
    DEF Claim, UnclaimedOK, TypeOK, OutcomeMatchesStatus
  <2>4. ASSUME NEW j \in Job, DeliverUnclaimable(w, j) PROVE UnclaimedOK'
    BY <1>2, <2>4 DEF DeliverUnclaimable, UnclaimedOK, taskVars
  <2>5. ASSUME NEW j \in Job, AbandonLeftover(w, j) PROVE UnclaimedOK'
    <3>1. StampsRow(j) /\ UNCHANGED <<taskVars, runs>>
      BY <1>2, <2>5, CasStepsStamp DEF AbandonLeftover
    <3>2. QED
      BY <1>2, <3>1 DEF UnclaimedOK, StampsRow, Stamped, Terminal, TypeOK, taskVars
  <2>6. QED
    BY <1>4, <2>1, <2>2, <2>3, <2>4, <2>5 DEF WorkerStep
<1>5. CASE ReaperStep \/ UNCHANGED vars
  BY <1>2, <1>5 DEF ReaperStep, ReaperLists, ReaperListsTimeouts, ReaperEnds, UnclaimedOK,
     vars, rowVars, taskVars
<1>6. QED
  BY <1>1, <1>3, <1>4, <1>5 DEF Next

\* The body is entered only from `starting', and `starting' only after a claim.
LEMMA PhaseStep == IInv /\ [Next]_vars => PhaseOK' /\ EnteredAtMostOnce'
<1>1. SUFFICES ASSUME IInv, [Next]_vars PROVE PhaseOK' /\ EnteredAtMostOnce'
  OBVIOUS
<1>2. TypeOK /\ UnclaimedOK /\ PhaseOK /\ EnteredAtMostOnce
  BY <1>1 DEF IInv
<1>3. ASSUME NEW j \in Job, JobStep(j) PROVE PhaseOK' /\ EnteredAtMostOnce'
  <2>1. CASE \/ Create(j) \/ Dispatch(j) \/ HttpCancels(j) \/ ScheduleCancels(j)
             \/ OccupancyAges(j) \/ LimitPasses(j) \/ ReapStale(j) \/ ReapTimeout(j)
    BY <1>2, <2>1 DEF Create, Dispatch, HttpCancels, ScheduleCancels, OccupancyAges,
       LimitPasses, ReapStale, ReapTimeout, PhaseOK, EnteredAtMostOnce, taskVars
  <2>2. CASE Spawn(j)
    BY <1>2, <2>2 DEF Spawn, PhaseOK, EnteredAtMostOnce, TypeOK, Writer
  <2>3. CASE \/ WatchKills(j) \/ WatchSeesExit(j) \/ SuperviseRaises(j) \/ Finish(j)
             \/ AbortReraises(j) \/ AbortProceeds(j) \/ AbortStamps(j)
             \/ LosePoolProcess(j)
    BY <1>2, <2>3 DEF WatchKills, WatchSeesExit, SuperviseRaises, KillChild, Finish,
       AbortReraises, AbortProceeds, AbortStamps, LosePoolProcess,
       PhaseOK, EnteredAtMostOnce, TypeOK, Writer
  <2>4. CASE ChildAdopts(j)
    BY <1>2, <2>4 DEF ChildAdopts, PhaseOK, EnteredAtMostOnce, TypeOK, Writer
  <2>5. CASE ChildSettles(j) \/ ChildExits(j)
    BY <1>2, <2>5 DEF ChildSettles, ChildExits, KillChild, PhaseOK, EnteredAtMostOnce, TypeOK, Writer, taskVars
  <2>6. ASSUME NEW a \in Writer, NoteSaves(a, j) PROVE PhaseOK' /\ EnteredAtMostOnce'
    BY <1>2, <2>6 DEF NoteSaves, PhaseOK, EnteredAtMostOnce, TypeOK, Writer
  <2>7. ASSUME NEW a \in Writer, NoteReads(a, j) PROVE PhaseOK' /\ EnteredAtMostOnce'
    BY <1>2, <2>7 DEF NoteReads, MayNote, PhaseOK, EnteredAtMostOnce, TypeOK, Writer
  <2>8. QED
    BY <1>3, <2>1, <2>2, <2>3, <2>4, <2>5, <2>6, <2>7 DEF JobStep
<1>4. ASSUME NEW w \in Worker, WorkerStep(w) PROVE PhaseOK' /\ EnteredAtMostOnce'
  <2>1. CASE WorkerCrash(w)
    BY <1>2, <2>1 DEF WorkerCrash, PhaseOK, EnteredAtMostOnce, TypeOK, Writer
  <2>2. ASSUME NEW j \in Job, Claim(w, j) PROVE PhaseOK' /\ EnteredAtMostOnce'
    BY <1>2, <2>2 DEF Claim, Claimable, UnclaimedOK, PhaseOK, EnteredAtMostOnce, TypeOK, Writer
  <2>3. CASE \/ WorkerReady(w) \/ TouchOccupancy(w)
             \/ \E j \in Job : DeliverUnclaimable(w, j) \/ AbandonLeftover(w, j)
    BY <1>2, <2>3 DEF WorkerReady, TouchOccupancy, DeliverUnclaimable, AbandonLeftover,
       PhaseOK, EnteredAtMostOnce, taskVars
  <2>4. QED
    BY <1>4, <2>1, <2>2, <2>3 DEF WorkerStep
<1>5. CASE ReaperStep \/ UNCHANGED vars
  BY <1>2, <1>5 DEF ReaperStep, ReaperLists, ReaperListsTimeouts, ReaperEnds,
     PhaseOK, EnteredAtMostOnce, vars, taskVars
<1>6. QED
  BY <1>1, <1>3, <1>4, <1>5 DEF Next

\* Stamps fit by construction, claims and copies because they did before.
LEMMA OutcomeStep == IInv /\ [Next]_vars => OutcomeMatchesStatus'
<1>1. SUFFICES ASSUME IInv, [Next]_vars PROVE OutcomeMatchesStatus'
  OBVIOUS
<1>2. TypeOK /\ CopyOK /\ OutcomeMatchesStatus
  BY <1>1 DEF IInv
<1>3. ASSUME NEW j \in Job, StampsRow(j) PROVE OutcomeMatchesStatus'
  BY <1>2, <1>3 DEF StampsRow, Stamped, OutcomeMatchesStatus, TypeOK
<1>4. ASSUME NEW j \in Job, JobStep(j) PROVE OutcomeMatchesStatus'
  <2>1. CASE Create(j)
    BY <1>2, <2>1, RowConstants DEF Create, OutcomeMatchesStatus, TypeOK
  <2>2. CASE \/ Finish(j) \/ AbortStamps(j) \/ ChildSettles(j)
             \/ HttpCancels(j) \/ ScheduleCancels(j) \/ ReapStale(j) \/ ReapTimeout(j)
    BY <1>2, <1>3, <2>2, CasStepsStamp
  <2>3. ASSUME NEW a \in Writer, NoteSaves(a, j) PROVE OutcomeMatchesStatus'
    BY <1>2, <2>3 DEF NoteSaves, CopyOK, OutcomeMatchesStatus, TypeOK
  <2>4. CASE \/ Dispatch(j) \/ Spawn(j) \/ WatchKills(j) \/ WatchSeesExit(j)
             \/ SuperviseRaises(j) \/ AbortReraises(j) \/ AbortProceeds(j)
             \/ LosePoolProcess(j) \/ ChildAdopts(j) \/ ChildExits(j)
             \/ OccupancyAges(j) \/ LimitPasses(j) \/ \E a \in Writer : NoteReads(a, j)
    BY <1>2, <2>4 DEF Dispatch, Spawn, WatchKills, WatchSeesExit, SuperviseRaises,
       AbortReraises, AbortProceeds, LosePoolProcess, ChildAdopts, ChildExits,
       OccupancyAges, LimitPasses, NoteReads, OutcomeMatchesStatus, rowVars
  <2>5. QED
    BY <1>4, <2>1, <2>2, <2>3, <2>4 DEF JobStep
<1>5. ASSUME NEW w \in Worker, WorkerStep(w) PROVE OutcomeMatchesStatus'
  <2>1. CASE \/ WorkerReady(w) \/ TouchOccupancy(w) \/ WorkerCrash(w)
             \/ \E j \in Job : DeliverUnclaimable(w, j)
    BY <1>2, <2>1 DEF WorkerReady, TouchOccupancy, WorkerCrash, DeliverUnclaimable,
       OutcomeMatchesStatus, rowVars
  <2>2. ASSUME NEW j \in Job, Claim(w, j) PROVE OutcomeMatchesStatus'
    BY <1>2, <2>2, ClaimedRowFacts DEF Claim, OutcomeMatchesStatus, TypeOK
  <2>3. ASSUME NEW j \in Job, AbandonLeftover(w, j) PROVE OutcomeMatchesStatus'
    BY <1>2, <1>3, <2>3, CasStepsStamp
  <2>4. QED
    BY <1>5, <2>1, <2>2, <2>3 DEF WorkerStep
<1>6. CASE ReaperStep \/ UNCHANGED vars
  BY <1>2, <1>6 DEF ReaperStep, ReaperLists, ReaperListsTimeouts, ReaperEnds,
     OutcomeMatchesStatus, vars, rowVars
<1>7. QED
  BY <1>1, <1>4, <1>5, <1>6 DEF Next

\* A worker lists leftovers before it takes deliveries in a new generation, so
\* the list holds no Job that one of its tasks claimed.
LEMMA HostStep == IInv /\ [Next]_vars => HostOK' /\ NoSelfAbandon'
<1>1. SUFFICES ASSUME IInv, [Next]_vars PROVE HostOK' /\ NoSelfAbandon'
  OBVIOUS
<1>2. /\ TypeOK /\ CopyOK /\ UnclaimedOK /\ PhaseOK /\ OutcomeMatchesStatus
      /\ HostOK /\ NoSelfAbandon
  BY <1>1 DEF IInv
\* A step that stamps one row and starts no task.
<1>3. ASSUME NEW j \in Job, StampsRow(j), UNCHANGED <<worker, abandoned, leftovers>>,
             \A i \in Job : task'[i] \in {task[i], "idle"}
      PROVE  HostOK' /\ NoSelfAbandon'
  <2>1. \A i \in Job : /\ row'[i].claimed_by = row[i].claimed_by
                       /\ row[i].status \notin {"absent", "queued"}
                            => row'[i].status \notin {"absent", "queued"}
    BY <1>2, <1>3 DEF StampsRow, Stamped, Terminal, TypeOK
  <2>2. QED
    BY <1>2, <1>3, <2>1 DEF HostOK, NoSelfAbandon, TypeOK
<1>4. ASSUME NEW j \in Job, JobStep(j) PROVE HostOK' /\ NoSelfAbandon'
  <2>1. CASE Create(j)
    BY <1>2, <2>1 DEF Create, UnclaimedOK, HostOK, NoSelfAbandon, TypeOK, taskVars, workerVars
  <2>2. CASE \/ Finish(j) \/ AbortStamps(j) \/ ChildSettles(j)
             \/ HttpCancels(j) \/ ScheduleCancels(j) \/ ReapStale(j) \/ ReapTimeout(j)
    <3>1. /\ UNCHANGED <<worker, abandoned, leftovers>>
          /\ \A i \in Job : task'[i] \in {task[i], "idle"}
      BY <1>2, <2>2 DEF Finish, AbortStamps, ChildSettles, HttpCancels, ScheduleCancels,
         ReapStale, ReapTimeout, TypeOK, taskVars, workerVars
    <3>2. QED
      BY <1>2, <1>3, <2>2, <3>1, CasStepsStamp
  <2>3. ASSUME NEW a \in Writer, NoteSaves(a, j) PROVE HostOK' /\ NoSelfAbandon'
    <3>1. \A i \in Job : task[i] = "idle" => task'[i] = "idle"
      BY <1>2, <2>3 DEF NoteSaves, PhaseOK, TypeOK
    <3>2. /\ UNCHANGED <<worker, abandoned, leftovers>>
          /\ \A i \in Job : /\ row'[i].claimed_by = row[i].claimed_by
                            /\ row[i].status \notin {"absent", "queued"}
                                 => row'[i].status \notin {"absent", "queued"}
      BY <1>2, <2>3 DEF NoteSaves, CopyOK, TypeOK, workerVars
    <3>3. QED
      BY <1>2, <3>1, <3>2 DEF HostOK, NoSelfAbandon, TypeOK
  <2>4. CASE \/ Dispatch(j) \/ Spawn(j) \/ WatchKills(j) \/ WatchSeesExit(j)
             \/ SuperviseRaises(j) \/ AbortReraises(j) \/ AbortProceeds(j)
             \/ LosePoolProcess(j) \/ ChildAdopts(j) \/ ChildExits(j)
             \/ OccupancyAges(j) \/ LimitPasses(j) \/ \E a \in Writer : NoteReads(a, j)
    <3>1. /\ UNCHANGED <<row, worker, abandoned, leftovers>>
          /\ \A i \in Job : task[i] = "idle" => task'[i] = "idle"
      BY <1>2, <2>4 DEF Dispatch, Spawn, WatchKills, WatchSeesExit, SuperviseRaises,
         AbortReraises, AbortProceeds, LosePoolProcess, ChildAdopts, ChildExits,
         OccupancyAges, LimitPasses, NoteReads, TypeOK, rowVars, taskVars, workerVars
    <3>2. QED
      BY <1>2, <3>1 DEF HostOK, NoSelfAbandon
  <2>5. QED
    BY <1>4, <2>1, <2>2, <2>3, <2>4 DEF JobStep
<1>5. ASSUME NEW w \in Worker, WorkerStep(w) PROVE HostOK' /\ NoSelfAbandon'
  <2>1. CASE WorkerReady(w)
    BY <1>2, <2>1 DEF WorkerReady, AbandonsLeftovers, Leftovers, RunningOf, OwnedBy, Running,
       HostOK, NoSelfAbandon, TypeOK, rowVars, taskVars
  <2>2. CASE TouchOccupancy(w) \/ \E j \in Job : DeliverUnclaimable(w, j)
    BY <1>2, <2>2 DEF TouchOccupancy, DeliverUnclaimable, HostOK, NoSelfAbandon,
       rowVars, taskVars, workerVars
  <2>3. CASE WorkerCrash(w)
    BY <1>2, <2>3 DEF WorkerCrash, OwnedBy, HostOK, NoSelfAbandon, TypeOK, rowVars
  <2>4. ASSUME NEW j \in Job, Claim(w, j) PROVE HostOK' /\ NoSelfAbandon'
    <3>1. /\ row' = [row EXCEPT ![j] = row'[j]]
          /\ row'[j].status = "running" /\ row'[j].claimed_by = w
      BY <1>2, <2>4, ClaimedRowFacts DEF Claim, TypeOK, OutcomeMatchesStatus
    <3>2. QED
      BY <1>2, <2>4, <3>1 DEF Claim, Claimable, HostOK, NoSelfAbandon, TypeOK, workerVars
  <2>5. ASSUME NEW j \in Job, AbandonLeftover(w, j) PROVE HostOK' /\ NoSelfAbandon'
    <3>1. \A i \in Job : /\ row'[i].claimed_by = row[i].claimed_by
                         /\ row[i].status \notin {"absent", "queued"}
                              => row'[i].status \notin {"absent", "queued"}
      BY <1>2, <2>5, CasStepsStamp DEF StampsRow, Stamped, Terminal, TypeOK
    <3>2. /\ UNCHANGED <<task, abandoned>>
          /\ \A v \in Worker : /\ leftovers'[v] \subseteq leftovers[v]
                               /\ worker'[v] = "down" <=> worker[v] = "down"
                               /\ worker'[v] # "starting" => leftovers'[v] = {}
      BY <1>2, <2>5 DEF AbandonLeftover, HostOK, TypeOK, taskVars
    <3>3. QED
      BY <1>2, <3>1, <3>2 DEF HostOK, NoSelfAbandon, TypeOK
  <2>6. QED
    BY <1>5, <2>1, <2>2, <2>3, <2>4, <2>5 DEF WorkerStep
<1>6. CASE ReaperStep \/ UNCHANGED vars
  BY <1>2, <1>6 DEF ReaperStep, ReaperLists, ReaperListsTimeouts, ReaperEnds,
     HostOK, NoSelfAbandon, vars, rowVars, taskVars, workerVars
<1>7. QED
  BY <1>1, <1>4, <1>5, <1>6 DEF Next

\* The row of a quiet Job never changes once it has ended: a stamp finds it
\* ended, and the one log writer left saves the very row it read.
LEMMA QuietRowIsFinal ==
  ASSUME IInv, [Next]_vars, NEW i \in Job \ Chatty, Ended(i)
  PROVE  row'[i] = row[i]
<1>1. /\ TypeOK /\ OutcomeMatchesStatus /\ QuietOK
      /\ row[i].status \in Terminal
  BY DEF IInv, Ended
<1>2. ASSUME NEW j \in Job, StampsRow(j) PROVE row'[i] = row[i]
  BY <1>1, <1>2 DEF StampsRow, Stamped, Terminal, Unfinished, TypeOK
<1>3. ASSUME NEW j \in Job, JobStep(j) PROVE row'[i] = row[i]
  <2>1. CASE Create(j)
    BY <1>1, <2>1 DEF Create, Terminal, TypeOK
  <2>2. CASE \/ Finish(j) \/ AbortStamps(j) \/ ChildSettles(j)
             \/ HttpCancels(j) \/ ScheduleCancels(j) \/ ReapStale(j) \/ ReapTimeout(j)
    BY <1>1, <1>2, <2>2, CasStepsStamp
  <2>3. ASSUME NEW a \in Writer, NoteSaves(a, j) PROVE row'[i] = row[i]
    BY <1>1, <2>3 DEF NoteSaves, QuietOK, TypeOK, Writer
  <2>4. CASE \/ Dispatch(j) \/ Spawn(j) \/ WatchKills(j) \/ WatchSeesExit(j)
             \/ SuperviseRaises(j) \/ AbortReraises(j) \/ AbortProceeds(j)
             \/ LosePoolProcess(j) \/ ChildAdopts(j) \/ ChildExits(j)
             \/ OccupancyAges(j) \/ LimitPasses(j) \/ \E a \in Writer : NoteReads(a, j)
    BY <2>4 DEF Dispatch, Spawn, WatchKills, WatchSeesExit, SuperviseRaises,
       AbortReraises, AbortProceeds, LosePoolProcess, ChildAdopts, ChildExits,
       OccupancyAges, LimitPasses, NoteReads, rowVars
  <2>5. QED
    BY <1>3, <2>1, <2>2, <2>3, <2>4 DEF JobStep
<1>4. ASSUME NEW w \in Worker, WorkerStep(w) PROVE row'[i] = row[i]
  <2>1. CASE \/ WorkerReady(w) \/ TouchOccupancy(w) \/ WorkerCrash(w)
             \/ \E j \in Job : DeliverUnclaimable(w, j)
    BY <2>1 DEF WorkerReady, TouchOccupancy, WorkerCrash, DeliverUnclaimable, rowVars
  <2>2. ASSUME NEW j \in Job, Claim(w, j) PROVE row'[i] = row[i]
    BY <1>1, <2>2 DEF Claim, Claimable, Terminal, TypeOK
  <2>3. ASSUME NEW j \in Job, AbandonLeftover(w, j) PROVE row'[i] = row[i]
    BY <1>1, <1>2, <2>3, CasStepsStamp
  <2>4. QED
    BY <1>4, <2>1, <2>2, <2>3 DEF WorkerStep
<1>5. CASE ReaperStep \/ UNCHANGED vars
  BY <1>5 DEF ReaperStep, ReaperLists, ReaperListsTimeouts, ReaperEnds, vars, rowVars
<1>6. QED
  BY <1>3, <1>4, <1>5 DEF Next

LEMMA QuietStep == IInv /\ [Next]_vars => QuietOK'
<1>1. SUFFICES ASSUME IInv, [Next]_vars PROVE QuietOK'
  OBVIOUS
<1>2. TypeOK /\ QuietOK /\ OutcomeMatchesStatus
  BY <1>1 DEF IInv
<1>3. \A i \in Job \ Chatty : Ended(i) => row'[i] = row[i] /\ Ended(i)'
  BY <1>1, QuietRowIsFinal DEF Ended
\* A step that adds no copy and sends nobody to write a note.
<1>4. ASSUME \A a \in Writer, i \in Job : copy'[a][i] \in {NoRow, copy[a][i]},
             \A i \in Job : task'[i] = "noting" => task[i] = "noting" \/ i \in Chatty,
             \A i \in Job : http'[i] = "noting" => http[i] = "noting" \/ Ended(i)'
      PROVE  QuietOK'
  BY <1>2, <1>3, <1>4 DEF QuietOK, Writer
<1>5. ASSUME NEW j \in Job, JobStep(j) PROVE QuietOK'
  <2>1. CASE \/ Create(j) \/ Dispatch(j) \/ ScheduleCancels(j) \/ OccupancyAges(j)
             \/ LimitPasses(j) \/ ReapStale(j) \/ ReapTimeout(j)
    BY <1>4, <2>1 DEF Create, Dispatch, ScheduleCancels, OccupancyAges, LimitPasses,
       ReapStale, ReapTimeout, taskVars
  <2>2. CASE \/ Spawn(j) \/ WatchKills(j) \/ WatchSeesExit(j) \/ SuperviseRaises(j)
             \/ Finish(j) \/ AbortReraises(j) \/ AbortProceeds(j) \/ AbortStamps(j)
             \/ LosePoolProcess(j) \/ ChildAdopts(j) \/ ChildSettles(j) \/ ChildExits(j)
    <3>1. /\ http' = http
          /\ \A a \in Writer, i \in Job : copy'[a][i] \in {NoRow, copy[a][i]}
          /\ \A i \in Job : task'[i] = "noting" => task[i] = "noting" \/ i \in Chatty
      BY <1>2, <2>2 DEF Spawn, WatchKills, WatchSeesExit, SuperviseRaises, KillChild,
         Finish, AbortReraises, AbortProceeds, AbortStamps, LosePoolProcess,
         ChildAdopts, ChildSettles, ChildExits, TypeOK, taskVars
    <3>2. QED
      BY <1>4, <3>1
  <2>3. CASE HttpCancels(j)
    <3>1. row'[j].status = "cancelled"
      <4>1. /\ row[j] \in JobRow /\ OutcomeFits(row[j]) /\ row[j].status \in Unfinished
            /\ row'[j] = MarkCancelled(row[j])
        BY <1>2, <2>3 DEF HttpCancels, TypeOK, OutcomeMatchesStatus
      <4>2. QED
        BY <4>1, MarkCancelledStamps
    <3>2. /\ UNCHANGED <<copy, task>>
          /\ \A i \in Job : http'[i] = "noting" => http[i] = "noting" \/ i = j
      BY <1>2, <2>3 DEF HttpCancels, TypeOK
    <3>3. QED
      BY <1>4, <3>1, <3>2 DEF Ended, Terminal
  <2>4. ASSUME NEW a \in Writer, NoteReads(a, j) PROVE QuietOK'
    BY <1>2, <1>3, <2>4 DEF NoteReads, MayNote, QuietOK, Writer, TypeOK, rowVars, Ended
  <2>5. ASSUME NEW a \in Writer, NoteSaves(a, j) PROVE QuietOK'
    <3>1. /\ \A b \in Writer, i \in Job : copy'[b][i] \in {NoRow, copy[b][i]}
          /\ \A i \in Job : task'[i] = "noting" => task[i] = "noting"
          /\ \A i \in Job : http'[i] = "noting" => http[i] = "noting"
      BY <1>2, <2>5 DEF NoteSaves, TypeOK
    <3>2. QED
      BY <1>4, <3>1
  <2>6. QED
    BY <1>5, <2>1, <2>2, <2>3, <2>4, <2>5 DEF JobStep
<1>6. ASSUME NEW w \in Worker, WorkerStep(w) PROVE QuietOK'
  <2>1. /\ \A a \in Writer, i \in Job : copy'[a][i] \in {NoRow, copy[a][i]}
        /\ \A i \in Job : task'[i] = "noting" => task[i] = "noting"
        /\ http' = http
    BY <1>2, <1>6 DEF WorkerStep, WorkerReady, TouchOccupancy, WorkerCrash, Claim,
       DeliverUnclaimable, AbandonLeftover, TypeOK, taskVars
  <2>2. QED
    BY <1>4, <2>1
<1>7. CASE ReaperStep \/ UNCHANGED vars
  BY <1>4, <1>7 DEF ReaperStep, ReaperLists, ReaperListsTimeouts, ReaperEnds, vars, taskVars
<1>8. QED
  BY <1>1, <1>5, <1>6, <1>7 DEF Next

-----------------------------------------------------------------------------
(* Theorems *)

LEMMA StepIInv == IInv /\ [Next]_vars => IInv'
BY TypeStep, CopyStep, UnclaimedStep, PhaseStep, OutcomeStep, HostStep, QuietStep DEF IInv

LEMMA IInvHolds == Spec => []IInv
BY InitIInv, StepIInv, PTL DEF Spec

\* Every reachable state has the types of Jobs.tla, and a running row always
\* names the worker that claimed it.
THEOREM TypeCorrect == Spec => []TypeOK
<1>1. IInv => TypeOK
  BY DEF IInv
<1>2. QED
  BY <1>1, IInvHolds, PTL

\* The domain work of a Job is entered at most once, for any number of Jobs,
\* workers, redeliveries, crashes and concurrent log writers.
THEOREM WorkEnteredOnce == Spec => []EnteredAtMostOnce
<1>1. IInv => EnteredAtMostOnce
  BY DEF IInv
<1>2. QED
  BY <1>1, IInvHolds, PTL

\* A result is present exactly on success and an error code exactly on failure,
\* even where a late log save rewrites a row.
THEOREM OutcomesMatch == Spec => []OutcomeMatchesStatus
<1>1. IInv => OutcomeMatchesStatus
  BY DEF IInv
<1>2. QED
  BY <1>1, IInvHolds, PTL

\* A (re)connecting worker never abandons a Job that one of its tasks holds.
THEOREM WorkerSparesItsOwn == Spec => []NoSelfAbandon
<1>1. IInv => NoSelfAbandon
  BY DEF IInv
<1>2. QED
  BY <1>1, IInvHolds, PTL

-----------------------------------------------------------------------------
(* Refinement of JobLifecycle by the Jobs that do not log *)

LEMMA LifecycleInit == Init => Lifecycle!Init
BY RowConstants, JobsAssumption DEF Init, Lifecycle!Init, JobsAssumption, NoRow

LEMMA LifecycleStep == IInv /\ [Next]_vars => [Lifecycle!Next]_(Lifecycle!vars)
<1>1. SUFFICES ASSUME IInv, [Next]_vars PROVE [Lifecycle!Next]_(Lifecycle!vars)
  OBVIOUS
<1>2. TypeOK /\ CopyOK /\ PhaseOK /\ UnclaimedOK /\ OutcomeMatchesStatus /\ QuietOK
  BY <1>1 DEF IInv
\* A step that changes neither the row nor the run count of a quiet Job.
<1>3. ASSUME \A i \in Job \ Chatty : row'[i] = row[i] /\ runs'[i] = runs[i]
      PROVE  UNCHANGED Lifecycle!vars
  BY <1>3 DEF Lifecycle!vars
\* A step that changes the row of one quiet Job and starts no work.
<1>4. ASSUME NEW j \in Job, StampsRow(j), UNCHANGED runs
      PROVE  [Lifecycle!Next]_(Lifecycle!vars)
  <2>1. \A i \in Job \ {j} : row'[i] = row[i]
    BY <1>2, <1>4 DEF StampsRow, TypeOK
  <2>2. CASE j \in Chatty \/ row'[j] = row[j]
    BY <1>3, <1>4, <2>1, <2>2
  <2>3. CASE j \notin Chatty /\ row'[j] # row[j]
    <3>1. /\ row[j].status \in {"queued", "running"}
          /\ row'[j].status \in {"succeeded", "failed", "cancelled"}
          /\ row'[j].status = "succeeded" => row[j].status = "running"
          /\ OutcomeFits(row'[j]) /\ OutcomeFits(row[j])
      BY <1>2, <1>4, <2>3 DEF StampsRow, Stamped, Unfinished, Terminal, OutcomeMatchesStatus
    <3>2. CASE row'[j].status = "succeeded"
      <4>1. Lifecycle!Succeed(j)
        BY <1>4, <2>1, <2>3, <3>1, <3>2 DEF Lifecycle!Succeed, OutcomeFits
      <4>2. QED
        BY <2>3, <4>1 DEF Lifecycle!Next
    <3>3. CASE row'[j].status = "failed"
      <4>1. Lifecycle!Abandon(j, "failed")
        BY <1>4, <2>1, <2>3, <3>1, <3>3 DEF Lifecycle!Abandon, OutcomeFits
      <4>2. QED
        BY <2>3, <4>1 DEF Lifecycle!Next
    <3>4. CASE row'[j].status = "cancelled"
      <4>1. Lifecycle!Abandon(j, "cancelled")
        BY <1>4, <2>1, <2>3, <3>1, <3>4 DEF Lifecycle!Abandon, OutcomeFits
      <4>2. QED
        BY <2>3, <4>1 DEF Lifecycle!Next
    <3>5. QED
      BY <3>1, <3>2, <3>3, <3>4
  <2>4. QED
    BY <2>2, <2>3
<1>5. ASSUME NEW j \in Job, JobStep(j) PROVE [Lifecycle!Next]_(Lifecycle!vars)
  <2>1. CASE Create(j)
    <3>1. /\ \A i \in Job \ {j} : row'[i] = row[i]
          /\ row[j].status = "absent" /\ runs' = runs
          /\ \E limited \in BOOLEAN : row'[j] = NewRow(limited)
          /\ OutcomeFits(row[j])
      BY <1>2, <2>1 DEF Create, TypeOK, OutcomeMatchesStatus
    <3>2. CASE j \in Chatty
      BY <1>3, <3>1, <3>2
    <3>3. CASE j \notin Chatty
      <4>1. Lifecycle!Mint(j)
        BY <3>1, <3>3, RowConstants DEF Lifecycle!Mint, OutcomeFits
      <4>2. QED
        BY <3>3, <4>1 DEF Lifecycle!Next
    <3>4. QED
      BY <3>2, <3>3
  <2>2. CASE \/ Finish(j) \/ AbortStamps(j) \/ ChildSettles(j)
             \/ HttpCancels(j) \/ ScheduleCancels(j) \/ ReapStale(j) \/ ReapTimeout(j)
    <3>1. UNCHANGED runs
      BY <2>2 DEF Finish, AbortStamps, ChildSettles, HttpCancels, ScheduleCancels,
         ReapStale, ReapTimeout
    <3>2. QED
      BY <1>2, <1>4, <2>2, <3>1, CasStepsStamp
  <2>3. ASSUME NEW a \in Writer, NoteSaves(a, j) PROVE UNCHANGED Lifecycle!vars
    <3>1. \A i \in Job \ Chatty : row'[i] = row[i] /\ runs'[i] = runs[i]
      BY <1>2, <2>3 DEF NoteSaves, QuietOK, TypeOK, Writer
    <3>2. QED
      BY <1>3, <3>1
  <2>4. CASE ChildAdopts(j)
    <3>1. row' = row /\ \A i \in Job \ {j} : runs'[i] = runs[i]
      BY <1>2, <2>4 DEF ChildAdopts, TypeOK, rowVars
    <3>2. CASE j \in Chatty \/ UNCHANGED runs
      BY <1>3, <3>1, <3>2
    <3>3. CASE j \notin Chatty /\ runs' # runs
      <4>1. row[j].status = "running" /\ runs[j] = 0 /\ runs'[j] = 1
        BY <1>2, <2>4, <3>3 DEF ChildAdopts, PhaseOK, TypeOK, Running
      <4>2. Lifecycle!Begin(j)
        BY <3>1, <3>3, <4>1 DEF Lifecycle!Begin
      <4>3. QED
        BY <3>3, <4>2 DEF Lifecycle!Next
    <3>4. QED
      BY <3>2, <3>3
  <2>5. CASE \/ Dispatch(j) \/ Spawn(j) \/ WatchKills(j) \/ WatchSeesExit(j)
             \/ SuperviseRaises(j) \/ AbortReraises(j) \/ AbortProceeds(j)
             \/ LosePoolProcess(j) \/ ChildExits(j)
             \/ OccupancyAges(j) \/ LimitPasses(j) \/ \E a \in Writer : NoteReads(a, j)
    <3>1. row' = row /\ runs' = runs
      BY <2>5 DEF Dispatch, Spawn, WatchKills, WatchSeesExit, SuperviseRaises,
         AbortReraises, AbortProceeds, LosePoolProcess, ChildExits,
         OccupancyAges, LimitPasses, NoteReads, rowVars
    <3>2. QED
      BY <1>3, <3>1
  <2>6. QED
    BY <1>5, <2>1, <2>2, <2>3, <2>4, <2>5 DEF JobStep
<1>6. ASSUME NEW w \in Worker, WorkerStep(w) PROVE [Lifecycle!Next]_(Lifecycle!vars)
  <2>1. CASE \/ WorkerReady(w) \/ TouchOccupancy(w) \/ WorkerCrash(w)
             \/ \E j \in Job : DeliverUnclaimable(w, j)
    <3>1. row' = row /\ runs' = runs
      BY <2>1 DEF WorkerReady, TouchOccupancy, WorkerCrash, DeliverUnclaimable, rowVars
    <3>2. QED
      BY <1>3, <3>1
  <2>2. ASSUME NEW j \in Job, Claim(w, j) PROVE [Lifecycle!Next]_(Lifecycle!vars)
    <3>1. /\ \A i \in Job \ {j} : row'[i] = row[i]
          /\ row[j].status = "queued" /\ row'[j].status = "running" /\ runs' = runs
          /\ OutcomeFits(row[j]) /\ OutcomeFits(row'[j])
      BY <1>2, <2>2, ClaimedRowFacts DEF Claim, Claimable, TypeOK, OutcomeMatchesStatus
    <3>2. CASE j \in Chatty
      BY <1>3, <3>1, <3>2
    <3>3. CASE j \notin Chatty
      <4>1. Lifecycle!Take(j)
        BY <3>1, <3>3 DEF Lifecycle!Take, OutcomeFits
      <4>2. QED
        BY <3>3, <4>1 DEF Lifecycle!Next
    <3>4. QED
      BY <3>2, <3>3
  <2>3. ASSUME NEW j \in Job, AbandonLeftover(w, j)
        PROVE  [Lifecycle!Next]_(Lifecycle!vars)
    BY <1>2, <1>4, <2>3, CasStepsStamp DEF AbandonLeftover
  <2>4. QED
    BY <1>6, <2>1, <2>2, <2>3 DEF WorkerStep
<1>7. CASE ReaperStep \/ UNCHANGED vars
  BY <1>3, <1>7 DEF ReaperStep, ReaperLists, ReaperListsTimeouts, ReaperEnds, vars, rowVars
<1>8. QED
  BY <1>1, <1>5, <1>6, <1>7 DEF Next

\* The rows and runs of Jobs that do not log while they run implement the Job
\* lifecycle: one execution, results only on success, terminal status final.
THEOREM QuietJobsRefine == Spec => QuietJobsFollowLifecycle
<1>1. Spec => Lifecycle!Init /\ [][Lifecycle!Next]_(Lifecycle!vars)
  BY LifecycleInit, LifecycleStep, IInvHolds, PTL DEF Spec
<1>2. QED
  BY <1>1 DEF QuietJobsFollowLifecycle, Lifecycle!Spec

-----------------------------------------------------------------------------
(* Definitions of Data Channels *)

ScheduleRow == [trigger : Cadence \cup {"none"}, enabled : BOOLEAN]
Usable == {g \in Draft : g.trigger = "inbound" => g.path \in Path}
ChannelRow == [life : {"none", "live", "gone"}, active : BOOLEAN, draft : Draft,
               revision : Nat, versions : Seq(Usable)]
ReadRow == [active : BOOLEAN, revision : Nat, graph : Draft, number : Nat]
RequestAt == {"idle", "draft", "store", "schedule", "path", "activate", "deactivate", "rename",
              "streak", "switched", "renamed", "enable", "name", "withdraw", "release", "remove",
              "account"}
RequestRow == [at : RequestAt, of : Channel \cup {Unheld}, seen : ReadRow, row : ScheduleRow]
Part == {"schedule", "path", "enabled"}

RowsTyped ==
  /\ channels \in [Channel -> ChannelRow] /\ synced \in [Channel -> ScheduleRow]
  /\ held \in [Path -> Channel \cup {Unheld}] /\ torn \in [Channel -> SUBSET Part]

\* What a request holds while it is between two of its transactions, ...
RequestFits(q) ==
  /\ q.at \notin {"idle", "account"} => q.of \in Channel /\ channels[q.of].life # "none"
  /\ q.at = "store" /\ Live(q.of) =>
       /\ q.seen.revision <= channels[q.of].revision
       /\ q.seen.revision = channels[q.of].revision => channels[q.of].draft \in Usable
       /\ ~crossed /\ q.seen.revision = channels[q.of].revision => Valid(channels[q.of].draft)
  /\ q.at \in {"schedule", "path"} /\ Live(q.of) =>
       /\ q.seen.number \in DOMAIN channels[q.of].versions
       /\ q.seen.graph = channels[q.of].versions[q.seen.number]
  /\ q.at \in {"enable", "name"} => q.row # NotSynced
RequestsFit == request \in [Requester -> RequestRow] /\ \A r \in Requester : RequestFits(request[r])

\* ... and what is so of a channel, whatever is torn of it elsewhere.
Latest(c) == IF channels[c].versions = <<>> THEN Empty ELSE Last(channels[c].versions)
TriggerFits(c) ==
  "schedule" \notin torn[c] =>
    IF Latest(c).trigger \in Cadence THEN synced[c].trigger = Latest(c).trigger
    ELSE synced[c] = NotSynced
EnabledFits(c) ==
  torn[c] \cap {"schedule", "enabled"} = {} /\ Latest(c).trigger \in Cadence =>
    synced[c].enabled = channels[c].active
PathFits(c) ==
  "path" \notin torn[c] =>
    HeldBy(c) = IF Latest(c).trigger = "inbound" THEN {Latest(c).path} ELSE {}
VersionsValid(c) == \A i \in DOMAIN channels[c].versions : Valid(channels[c].versions[i])
ChannelFits(c) ==
  /\ channels[c].life # "live" => channels[c].versions = <<>>
  /\ ~crossed => TriggerFits(c) /\ EnabledFits(c) /\ PathFits(c) /\ VersionsValid(c)

PublicationInv ==
  /\ RowsTyped /\ RequestsFit /\ crossed \in BOOLEAN
  /\ \A c \in Channel : ChannelFits(c)

LEMMA Drafts ==
  /\ Empty \in Usable /\ Graph \subseteq Draft /\ Usable \subseteq Draft
  /\ NotSynced \in ScheduleRow /\ NoRead \in ReadRow /\ NoRequest \in RequestRow
  /\ NoChannel \in ChannelRow /\ NoRequest.at = "idle"
<1>1. Empty \in Usable /\ Empty \in Draft
  BY DEF Empty, Usable, Draft, Trigger
<1>2. Graph \subseteq Draft
  BY PublicationAssumption DEF PublicationAssumption
<1>3. NotSynced \in ScheduleRow
  BY DEF NotSynced, ScheduleRow
<1>4. NoRead \in ReadRow
  BY <1>1 DEF NoRead, ReadRow
<1>5. NoRequest \in RequestRow
  BY <1>3, <1>4 DEF NoRequest, RequestRow, RequestAt
<1>6. NoChannel \in ChannelRow
  BY <1>1 DEF NoChannel, ChannelRow
<1>7. QED
  BY <1>1, <1>2, <1>3, <1>4, <1>5, <1>6 DEF Usable, NoRequest

LEMMA PublicationInitInv == PublicationInit => PublicationInv
<1>1. SUFFICES ASSUME PublicationInit PROVE PublicationInv
  OBVIOUS
<1>2. RowsTyped
  BY <1>1, Drafts DEF PublicationInit, RowsTyped
<1>3. RequestsFit
  BY <1>1, Drafts DEF PublicationInit, RequestsFit, RequestFits
<1>4. ASSUME NEW c \in Channel PROVE ChannelFits(c)
  <2>1. Latest(c) = Empty /\ channels[c].versions = <<>>
    BY <1>1 DEF PublicationInit, Latest, NoChannel
  <2>2. HeldBy(c) = {}
    BY <1>1, PublicationAssumption DEF PublicationInit, HeldBy, PublicationAssumption
  <2>3. synced[c] = NotSynced /\ Empty.trigger = "none" /\ "none" \notin Cadence
    BY <1>1, PublicationAssumption DEF PublicationInit, Empty, PublicationAssumption
  <2>4. QED
    BY <2>1, <2>2, <2>3 DEF ChannelFits, TriggerFits, EnabledFits, PathFits, VersionsValid
<1>5. QED
  BY <1>1, <1>2, <1>3, <1>4 DEF PublicationInv, PublicationInit

-----------------------------------------------------------------------------
(* Frames *)

\* One request moves on, and of the channels at most one is another.
LEMMA RequestMoves ==
  ASSUME PublicationInv, NEW r \in Requester, NEW q \in RequestRow,
         request' = [request EXCEPT ![r] = q], RequestFits(q)',
         NEW c \in Channel, \A d \in Channel \ {c} : channels'[d] = channels[d],
         accounts' = accounts, crossed => crossed',
         \A p \in RequestRow : p.of = c /\ RequestFits(p) => RequestFits(p)'
  PROVE  RequestsFit'
<1>1. ASSUME NEW p \in RequestRow, RequestFits(p) PROVE RequestFits(p)'
  <2>1. CASE p.of = c
    BY <1>1, <2>1
  <2>2. CASE p.of \in Channel \ {c}
    BY <1>1, <2>2 DEF RequestFits, Live, Valid
  <2>3. CASE p.of \notin Channel
    BY <1>1, <2>3, PublicationAssumption
       DEF RequestFits, RequestRow, RequestAt, PublicationAssumption
  <2>4. QED
    BY <2>1, <2>2, <2>3
<1>2. request \in [Requester -> RequestRow] /\ \A x \in Requester : RequestFits(request[x])
  BY DEF PublicationInv, RequestsFit
<1>3. request' \in [Requester -> RequestRow]
  BY <1>2
<1>4. ASSUME NEW x \in Requester PROVE RequestFits(request[x])'
  <2>1. CASE x = r
    <3>1. request'[x] = q
      BY <1>2, <2>1
    <3>2. QED
      BY <3>1 DEF RequestFits
  <2>2. CASE x # r
    <3>1. PICK p \in RequestRow : p = request[x]
      BY <1>2
    <3>2. RequestFits(p)' /\ request'[x] = p
      BY <1>1, <1>2, <2>2, <3>1
    <3>3. QED
      BY <3>2 DEF RequestFits
  <2>3. QED
    BY <2>1, <2>2
<1>5. QED
  BY <1>3, <1>4 DEF RequestsFit

\* ... and none is, where no row of a channel changes.
LEMMA RequestMovesAlone ==
  ASSUME PublicationInv, NEW r \in Requester, NEW q \in RequestRow,
         request' = [request EXCEPT ![r] = q], RequestFits(q)',
         UNCHANGED <<channels, accounts>>, crossed => crossed'
  PROVE  RequestsFit'
<1>1. CASE Channel = {}
  <2>1. request \in [Requester -> RequestRow] /\ \A x \in Requester : RequestFits(request[x])
    BY DEF PublicationInv, RequestsFit
  <2>2. request' \in [Requester -> RequestRow]
    BY <2>1
  <2>3. \A x \in Requester : x # r => RequestFits(request[x])'
    BY <1>1, <2>1 DEF RequestFits, RequestRow, RequestAt, Live, Valid
  <2>4. RequestFits(request[r])'
    BY <2>1 DEF RequestFits
  <2>5. QED
    BY <2>2, <2>3, <2>4 DEF RequestsFit
<1>2. CASE Channel # {}
  <2>1. PICK c \in Channel : TRUE
    BY <1>2
  <2>2. \A p \in RequestRow : RequestFits(p) => RequestFits(p)'
    BY DEF RequestFits, Live, Valid
  <2>3. QED
    BY <2>1, <2>2, RequestMoves
<1>3. QED
  BY <1>1, <1>2

LEMMA ChannelKept ==
  ASSUME NEW d \in Channel, ChannelFits(d), channels'[d] = channels[d], synced'[d] = synced[d],
         torn'[d] = torn[d], HeldBy(d)' = HeldBy(d), accounts' = accounts, crossed => crossed'
  PROVE  ChannelFits(d)'
BY DEF ChannelFits, TriggerFits, EnabledFits, PathFits, VersionsValid, Latest, Valid

\* A request that begins, or stops, and changes nothing else.
LEMMA OnlyRequest ==
  ASSUME PublicationInv, NEW r \in Requester, NEW q \in RequestRow,
         request' = [request EXCEPT ![r] = q], RequestFits(q),
         UNCHANGED <<channels, synced, held, accounts, torn, crossed>>
  PROVE  PublicationInv'
<1>1. RequestFits(q)'
  BY DEF RequestFits, Live, Valid
<1>2. RequestsFit'
  BY <1>1, RequestMovesAlone
<1>3. \A d \in Channel : ChannelFits(d)'
  BY ChannelKept DEF PublicationInv, HeldBy
<1>4. QED
  BY <1>2, <1>3 DEF PublicationInv, RowsTyped

-----------------------------------------------------------------------------
(* Steps of Publication *)

LEMMA RequestIs ==
  ASSUME PublicationInv, NEW r \in Requester
  PROVE  /\ request[r] \in RequestRow /\ RequestFits(request[r])
         /\ request[r].at \notin {"idle", "account"} =>
              request[r].of \in Channel /\ channels[request[r].of].life # "none"
BY DEF PublicationInv, RequestsFit, RequestFits

LEMMA CreateStep ==
  ASSUME PublicationInv, NEW c \in Channel, CreateChannel(c)
  PROVE  PublicationInv'
<1>1. /\ channels[c].life = "none"
      /\ channels' = [channels EXCEPT ![c] = [NoChannel EXCEPT !.life = "live", !.revision = 1]]
      /\ UNCHANGED <<synced, held, accounts, request, torn, crossed>>
  BY DEF CreateChannel
<1>2. RowsTyped /\ RequestsFit /\ ChannelFits(c)
  BY DEF PublicationInv
<1>3. PICK n : n = [NoChannel EXCEPT !.life = "live", !.revision = 1]
  OBVIOUS
<1>4. n \in ChannelRow /\ n.life = "live" /\ n.versions = <<>>
  BY <1>3, Drafts DEF NoChannel, ChannelRow
<1>5. /\ channels' = [channels EXCEPT ![c] = n] /\ channels'[c] = n
      /\ \A d \in Channel \ {c} : channels'[d] = channels[d]
  BY <1>1, <1>2, <1>3 DEF RowsTyped
<1>6. RowsTyped'
  BY <1>1, <1>2, <1>4, <1>5 DEF RowsTyped
<1>7. ASSUME NEW x \in Requester PROVE RequestFits(request[x])'
  <2>1. PICK p \in RequestRow : p = request[x] /\ RequestFits(p)
    BY <1>2 DEF RequestsFit
  <2>2. p.at \notin {"idle", "account"} => p.of \in Channel \ {c}
    BY <1>1, <2>1 DEF RequestFits
  <2>3. RequestFits(p)'
    BY <1>1, <1>5, <2>1, <2>2 DEF RequestFits, RequestRow, RequestAt, Live, Valid
  <2>4. QED
    BY <1>1, <2>1, <2>3 DEF RequestFits
<1>8. RequestsFit'
  BY <1>1, <1>2, <1>7 DEF RequestsFit
<1>9. channels[c].versions = <<>> /\ channels'[c].versions = <<>>
  BY <1>1, <1>2, <1>4, <1>5 DEF ChannelFits
<1>10. Latest(c)' = Empty /\ Latest(c) = Empty /\ Empty.trigger = "none" /\ "none" \notin Cadence
  BY <1>9, PublicationAssumption DEF Latest, Empty, PublicationAssumption
<1>11. ChannelFits(c)'
  BY <1>1, <1>2, <1>9, <1>10
     DEF ChannelFits, TriggerFits, EnabledFits, PathFits, VersionsValid, HeldBy
<1>12. \A d \in Channel \ {c} : ChannelFits(d)'
  BY <1>1, <1>5, ChannelKept DEF PublicationInv, HeldBy
<1>13. QED
  BY <1>1, <1>6, <1>8, <1>11, <1>12 DEF PublicationInv

LEMMA BeginStep ==
  ASSUME PublicationInv, NEW r \in Requester,
         \/ \E c \in Channel : GetDraft(r, c) \/ CheckPublish(r, c) \/ CheckRow(r, c) \/ CheckDelete(r, c)
         \/ \E x \in Account : CheckAccount(r, x)
         \/ Dies(r)
  PROVE  PublicationInv'
<1>1. UNCHANGED <<channels, synced, held, accounts, torn, crossed>>
  BY DEF GetDraft, CheckPublish, CheckRow, CheckDelete, CheckAccount, Dies
<1>2. RowsTyped
  BY DEF PublicationInv
<1>3. ASSUME NEW c \in Channel, NEW at \in RequestAt, NEW read \in ReadRow, Live(c), Begins(r, at, c, read),
             at = "store" => read.revision = channels[c].revision /\ Valid(channels[c].draft),
             at \notin {"schedule", "path", "enable", "name"}
      PROVE  PublicationInv'
  <2>1. PICK q : q = [NoRequest EXCEPT !.at = at, !.of = c, !.seen = read]
    OBVIOUS
  <2>2. q \in RequestRow /\ q.at = at /\ q.of = c /\ q.seen = read
    BY <2>1, Drafts DEF RequestRow, NoRequest
  <2>3. channels[c].life = "live" /\ channels[c].revision \in Nat
    BY <1>2, <1>3 DEF Live, RowsTyped, ChannelRow
  <2>4. RequestFits(q)
    <3>1. at = "store" => channels[c].draft \in Usable
      BY <1>2, <1>3 DEF RowsTyped, ChannelRow, Valid, Complete, Usable, Draft
    <3>2. QED
      BY <1>3, <2>2, <2>3, <3>1 DEF RequestFits
  <2>5. request' = [request EXCEPT ![r] = q]
    BY <1>3, <2>1 DEF Begins
  <2>6. QED
    BY <1>1, <2>2, <2>4, <2>5, OnlyRequest
<1>4. ASSUME NEW c \in Channel
      PROVE  channels[c].revision \in Nat /\ channels[c].active \in BOOLEAN
  BY <1>2 DEF RowsTyped, ChannelRow
<1>5. ASSUME NEW c \in Channel, GetDraft(r, c) PROVE PublicationInv'
  <2>1. [NoRead EXCEPT !.revision = channels[c].revision] \in ReadRow
    BY <1>4, Drafts DEF NoRead, ReadRow
  <2>2. QED
    BY <1>3, <1>5, <2>1 DEF GetDraft, RequestAt
<1>6. ASSUME NEW c \in Channel, CheckPublish(r, c) PROVE PublicationInv'
  <2>1. PICK read : read = [NoRead EXCEPT !.active = channels[c].active, !.revision = channels[c].revision]
    OBVIOUS
  <2>2. read \in ReadRow /\ read.revision = channels[c].revision
    BY <1>4, <2>1, Drafts DEF NoRead, ReadRow
  <2>3. Live(c) /\ Begins(r, "store", c, read) /\ Valid(channels[c].draft)
    BY <1>6, <2>1 DEF CheckPublish
  <2>4. QED
    BY <1>3, <2>2, <2>3 DEF RequestAt
<1>7. ASSUME NEW c \in Channel, CheckRow(r, c) PROVE PublicationInv'
  <2>1. [NoRead EXCEPT !.active = channels[c].active] \in ReadRow
    BY <1>4, Drafts DEF NoRead, ReadRow
  <2>2. PICK at \in {"deactivate", "activate", "rename", "streak"} :
          Begins(r, at, c, [NoRead EXCEPT !.active = channels[c].active])
    BY <1>7 DEF CheckRow
  <2>3. Live(c)
    BY <1>7 DEF CheckRow
  <2>4. QED
    BY <1>3, <2>1, <2>2, <2>3 DEF RequestAt
<1>8. ASSUME NEW c \in Channel, CheckDelete(r, c) PROVE PublicationInv'
  BY <1>3, <1>8, Drafts DEF CheckDelete, RequestAt
<1>9. ASSUME NEW x \in Account, CheckAccount(r, x) PROVE PublicationInv'
  <2>1. PICK g : g = [Empty EXCEPT !.account = x]
    OBVIOUS
  <2>2. g \in Draft
    BY <2>1 DEF Empty, Draft, Trigger
  <2>3. PICK read : read = [NoRead EXCEPT !.graph = g]
    OBVIOUS
  <2>4. read \in ReadRow
    BY <2>2, <2>3, Drafts DEF ReadRow, NoRead
  <2>5. PICK q : q = [NoRequest EXCEPT !.at = "account", !.seen = read]
    OBVIOUS
  <2>6. q \in RequestRow /\ q.at = "account"
    BY <2>4, <2>5, Drafts DEF RequestRow, NoRequest, RequestAt
  <2>7. q = [NoRequest EXCEPT !.at = "account", !.seen.graph.account = x]
    BY <2>1, <2>3, <2>5 DEF NoRequest, NoRead
  <2>8. request' = [request EXCEPT ![r] = q] /\ RequestFits(q)
    BY <1>9, <2>6, <2>7 DEF CheckAccount, RequestFits
  <2>9. QED
    BY <1>1, <2>6, <2>8, OnlyRequest
<1>10. CASE Dies(r)
  <2>1. RequestFits(NoRequest)
    BY Drafts DEF RequestFits
  <2>2. QED
    BY <1>1, <1>10, <2>1, OnlyRequest, Drafts DEF Dies, Ends
<1>11. QED
  BY <1>5, <1>6, <1>7, <1>8, <1>9, <1>10

\* One channel changes, and the others keep what is so of them.
LEMMA OneChannel ==
  ASSUME PublicationInv, NEW c \in Channel, RowsTyped', RequestsFit', ChannelFits(c)', crossed' \in BOOLEAN,
         accounts' = accounts, crossed => crossed',
         \A d \in Channel \ {c} : /\ channels'[d] = channels[d] /\ synced'[d] = synced[d]
                                  /\ torn'[d] = torn[d] /\ HeldBy(d)' = HeldBy(d)
  PROVE  PublicationInv'
<1>1. ASSUME NEW d \in Channel PROVE ChannelFits(d)'
  <2>1. CASE d = c
    BY <2>1
  <2>2. CASE d # c
    BY <2>2, ChannelKept DEF PublicationInv
  <2>3. QED
    BY <2>1, <2>2
<1>2. QED
  BY <1>1 DEF PublicationInv

LEMMA SaveDraftStep ==
  ASSUME PublicationInv, NEW r \in Requester, SaveDraft(r)
  PROVE  PublicationInv'
<1>1. PICK p \in RequestRow : p = request[r] /\ RequestFits(p) /\ p.at = "draft"
  BY RequestIs DEF SaveDraft
<1>2. PICK c \in Channel : c = p.of /\ channels[c].life # "none"
  BY <1>1 DEF RequestFits
<1>3. request' = [request EXCEPT ![r] = NoRequest] /\ UNCHANGED <<synced, held, accounts, torn, crossed>>
  BY DEF SaveDraft, Ends
<1>4. RequestFits(NoRequest) /\ RequestFits(NoRequest)'
  BY Drafts DEF RequestFits
<1>5. RowsTyped /\ ChannelFits(c) /\ channels[c] \in ChannelRow
  BY DEF PublicationInv, RowsTyped
<1>6. CASE channels' = channels
  BY <1>3, <1>4, <1>6, Drafts, OnlyRequest
<1>7. ASSUME NEW g \in Graph, channels' = [channels EXCEPT ![c].draft = g, ![c].revision = @ + 1]
      PROVE  PublicationInv'
  <2>1. PICK n : n = [channels[c] EXCEPT !.draft = g, !.revision = @ + 1]
    OBVIOUS
  <2>2. /\ n \in ChannelRow /\ n.life = channels[c].life /\ n.active = channels[c].active
        /\ n.versions = channels[c].versions /\ n.revision = channels[c].revision + 1
    <3>1. PICK old \in ChannelRow : old = channels[c]
      BY <1>5
    <3>2. old.revision + 1 \in Nat /\ g \in Draft
      BY Drafts DEF ChannelRow
    <3>3. n = [old EXCEPT !.draft = g, !.revision = old.revision + 1]
      BY <2>1, <3>1
    <3>4. QED
      BY <3>1, <3>2, <3>3 DEF ChannelRow
  <2>3. /\ channels' = [channels EXCEPT ![c] = n] /\ channels'[c] = n
        /\ \A d \in Channel \ {c} : channels'[d] = channels[d]
    BY <1>5, <1>7, <2>1 DEF RowsTyped
  <2>4. RowsTyped'
    BY <1>3, <1>5, <2>2, <2>3 DEF RowsTyped
  <2>5. ASSUME NEW x \in RequestRow, x.of = c, RequestFits(x) PROVE RequestFits(x)'
    <3>1. x.seen.revision \in Nat /\ channels[c].revision \in Nat
      BY <1>5 DEF RequestRow, ReadRow, ChannelRow
    <3>2. QED
      BY <1>3, <2>2, <2>3, <2>5, <3>1 DEF RequestFits, Live, Valid
  <2>6. RequestsFit'
    BY <1>3, <1>4, <2>3, <2>5, Drafts, RequestMoves
  <2>7. ChannelFits(c)'
    BY <1>3, <1>5, <2>2, <2>3
       DEF ChannelFits, TriggerFits, EnabledFits, PathFits, VersionsValid, Latest, Valid, HeldBy
  <2>8. QED
    BY <1>3, <2>3, <2>4, <2>6, <2>7, OneChannel DEF HeldBy, PublicationInv
<1>8. QED
  BY <1>1, <1>2, <1>6, <1>7 DEF SaveDraft

LEMMA StoreStep ==
  ASSUME PublicationInv, NEW r \in Requester, StoreVersion(r)
  PROVE  PublicationInv'
<1>1. PICK p \in RequestRow : p = request[r] /\ RequestFits(p) /\ p.at = "store"
  BY RequestIs DEF StoreVersion
<1>2. PICK c \in Channel : c = p.of /\ channels[c].life # "none"
  BY <1>1 DEF RequestFits
<1>3. UNCHANGED <<synced, held, accounts, crossed>>
  BY DEF StoreVersion
<1>4. RequestFits(NoRequest)
  BY Drafts DEF RequestFits
<1>5. /\ RowsTyped /\ RequestsFit /\ ChannelFits(c) /\ channels[c] \in ChannelRow /\ crossed \in BOOLEAN
      /\ torn[c] \in SUBSET Part
  BY DEF PublicationInv, RowsTyped
<1>6. CASE ~(Live(c) /\ Confirmed(r))
  BY <1>1, <1>2, <1>3, <1>4, <1>6, Drafts, OnlyRequest DEF StoreVersion, Ends
<1>7. CASE Live(c) /\ Confirmed(r)
  <2> DEFINE g == channels[c].draft
             vs == channels[c].versions
  <2>1. g \in Usable /\ g \in Draft /\ vs \in Seq(Usable) /\ Len(vs) \in Nat /\ DOMAIN vs = 1 .. Len(vs)
    BY <1>1, <1>2, <1>5, <1>7, Drafts DEF ChannelRow, RequestFits, Confirmed
  <2>2. /\ Append(vs, g) \in Seq(Usable) /\ Append(vs, g)[Len(vs) + 1] = g
        /\ DOMAIN Append(vs, g) = 1 .. Len(vs) + 1 /\ \A i \in DOMAIN vs : Append(vs, g)[i] = vs[i]
    BY <2>1
  <2>3. PICK n : n = [channels[c] EXCEPT !.versions = Append(vs, g)]
    OBVIOUS
  <2>4. /\ n \in ChannelRow /\ n.life = channels[c].life /\ n.draft = g
        /\ n.revision = channels[c].revision /\ n.versions = Append(vs, g)
    BY <1>5, <2>2, <2>3 DEF ChannelRow
  <2>5. /\ channels' = [channels EXCEPT ![c] = n] /\ channels'[c] = n
        /\ \A d \in Channel \ {c} : channels'[d] = channels[d]
    BY <1>1, <1>2, <1>5, <1>7, <2>3 DEF StoreVersion, RowsTyped
  <2>6. PICK read : read = [p.seen EXCEPT !.graph = g, !.number = Len(vs) + 1]
    OBVIOUS
  <2>7. read \in ReadRow /\ read.graph = g /\ read.number = Len(vs) + 1
    <3>1. PICK seen \in ReadRow : seen = p.seen
      BY DEF RequestRow
    <3>2. Len(vs) + 1 \in Nat
      BY <2>1
    <3>3. QED
      BY <2>1, <2>6, <3>1, <3>2 DEF ReadRow
  <2>8. PICK q : q = [p EXCEPT !.at = "schedule", !.seen = read]
    OBVIOUS
  <2>9. q \in RequestRow /\ q.at = "schedule" /\ q.of = c /\ q.seen = read
    BY <1>2, <2>7, <2>8 DEF RequestRow, RequestAt
  <2>10. request' = [request EXCEPT ![r] = q]
    <3>1. request' = [request EXCEPT ![r].at = "schedule", ![r].seen.graph = g, ![r].seen.number = Len(vs) + 1]
      BY <1>1, <1>2, <1>7 DEF StoreVersion
    <3>2. p.seen \in ReadRow
      BY DEF RequestRow
    <3>3. q = [p EXCEPT !.at = "schedule", !.seen.graph = g, !.seen.number = Len(vs) + 1]
      BY <2>6, <2>8, <3>2 DEF RequestRow, ReadRow
    <3>4. QED
      BY <1>1, <1>5, <3>1, <3>3 DEF RequestsFit
  <2>11. RequestFits(q)'
    BY <1>2, <2>2, <2>4, <2>5, <2>7, <2>9 DEF RequestFits
  <2>12. ASSUME NEW x \in RequestRow, x.of = c, RequestFits(x) PROVE RequestFits(x)'
    <3>1. DOMAIN vs \subseteq DOMAIN Append(vs, g)
      BY <2>1, <2>2
    <3>2. QED
      BY <1>3, <2>2, <2>4, <2>5, <2>12, <3>1 DEF RequestFits, Live, Valid
  <2>13. RequestsFit'
    BY <1>3, <2>5, <2>9, <2>10, <2>11, <2>12, RequestMoves
  <2>14. torn' = [torn EXCEPT ![c] = @ \cup {"schedule", "path"}]
    BY <1>1, <1>2, <1>7 DEF StoreVersion, Tears
  <2>15. RowsTyped'
    BY <1>3, <1>5, <2>4, <2>5, <2>14 DEF RowsTyped, Part
  <2>16. ASSUME ~crossed PROVE VersionsValid(c)'
    <3>1. channels[c].revision = p.seen.revision
      BY <1>1, <1>2, <1>7 DEF Confirmed
    <3>2. Valid(g) /\ VersionsValid(c)
      BY <1>1, <1>2, <1>5, <1>7, <2>16, <3>1 DEF RequestFits, ChannelFits
    <3>3. \A i \in 1 .. Len(vs) + 1 : i \in DOMAIN vs \/ i = Len(vs) + 1
      BY <2>1
    <3>4. ASSUME NEW i \in 1 .. Len(vs) + 1 PROVE Valid(Append(vs, g)[i])
      BY <2>2, <3>2, <3>3 DEF VersionsValid
    <3>5. QED
      BY <1>3, <2>2, <2>4, <2>5, <3>4 DEF VersionsValid, Valid
  <2>17. ChannelFits(c)'
    <3>1. torn'[c] = torn[c] \cup {"schedule", "path"} /\ channels'[c].life = "live"
      BY <1>5, <1>7, <2>4, <2>5, <2>14 DEF RowsTyped, Live
    <3>2. QED
      BY <1>3, <2>16, <3>1 DEF ChannelFits, TriggerFits, EnabledFits, PathFits
  <2>18. \A d \in Channel \ {c} : torn'[d] = torn[d]
    BY <1>5, <2>14 DEF RowsTyped
  <2>19. QED
    BY <1>3, <1>5, <2>5, <2>13, <2>15, <2>17, <2>18, OneChannel DEF HeldBy
<1>8. QED
  BY <1>6, <1>7

\* What is latest of a channel that serves the version a request stored.
LEMMA ServingIsLatest ==
  ASSUME PublicationInv, NEW r \in Requester, request[r].at \in {"schedule", "path"}, Serving(r)
  PROVE  LET c == request[r].of IN
         /\ Latest(c) = request[r].seen.graph /\ channels[c].life = "live" /\ request[r].seen.graph \in Usable
<1>1. PICK p \in RequestRow : p = request[r] /\ RequestFits(p) /\ p.at \in {"schedule", "path"}
  BY RequestIs
<1>2. PICK c \in Channel : c = p.of
  BY <1>1 DEF RequestFits
<1>3. PICK vs \in Seq(Usable) : vs = channels[c].versions
  BY DEF PublicationInv, RowsTyped, ChannelRow
<1>4. Live(c) /\ p.seen.number \in DOMAIN vs /\ p.seen.graph = vs[p.seen.number] /\ p.seen.number = Len(vs)
  BY <1>1, <1>2, <1>3 DEF RequestFits, Serving
<1>5. vs # <<>> /\ Last(vs) = p.seen.graph /\ p.seen.graph \in Usable
  BY <1>4 DEF Last
<1>6. QED
  BY <1>1, <1>2, <1>3, <1>4, <1>5 DEF Latest, Live

LEMMA SyncScheduleStep ==
  ASSUME PublicationInv, NEW r \in Requester, SyncSchedule(r)
  PROVE  PublicationInv'
<1>1. PICK p \in RequestRow : p = request[r] /\ RequestFits(p) /\ p.at = "schedule"
  BY RequestIs DEF SyncSchedule
<1>2. PICK c \in Channel : c = p.of /\ channels[c].life # "none"
  BY <1>1 DEF RequestFits
<1>3. PICK g \in Draft : g = p.seen.graph
  BY DEF RequestRow, ReadRow
<1>4. UNCHANGED <<channels, held, accounts>> /\ torn' = [torn EXCEPT ![c] = @ \ {"schedule", "enabled"}]
  BY <1>1, <1>2 DEF SyncSchedule, Mends
<1>5. /\ RowsTyped /\ RequestsFit /\ ChannelFits(c) /\ channels[c] \in ChannelRow /\ crossed \in BOOLEAN
  BY DEF PublicationInv, RowsTyped
<1>6. crossed' \in BOOLEAN /\ (crossed => crossed')
  BY <1>5 DEF SyncSchedule, Races
<1>7. PICK q : q = [p EXCEPT !.at = "path"]
  OBVIOUS
<1>8. q \in RequestRow /\ q.at = "path" /\ q.of = p.of /\ q.seen = p.seen
  BY <1>7 DEF RequestRow, RequestAt
<1>9. request' = [request EXCEPT ![r] = q]
  BY <1>1, <1>5, <1>7 DEF SyncSchedule, Goes, RequestsFit
<1>10. RequestsFit'
  <2>1. RequestFits(q)'
    BY <1>1, <1>4, <1>8 DEF RequestFits, Live
  <2>2. QED
    BY <1>4, <1>6, <1>8, <1>9, <2>1, RequestMovesAlone
<1>11. PICK stored \in ScheduleRow :
         /\ synced' = [synced EXCEPT ![c] = stored]
         /\ stored = IF g.trigger \in Cadence THEN [trigger |-> g.trigger, enabled |-> p.seen.active] ELSE NotSynced
  <2>1. p.seen.active \in BOOLEAN
    BY DEF RequestRow, ReadRow
  <2>2. (IF g.trigger \in Cadence THEN [trigger |-> g.trigger, enabled |-> p.seen.active] ELSE NotSynced) \in ScheduleRow
    BY <2>1, Drafts DEF ScheduleRow
  <2>3. QED
    BY <1>1, <1>2, <1>3, <2>2 DEF SyncSchedule, Synced
<1>12. RowsTyped' /\ synced'[c] = stored /\ torn'[c] = torn[c] \ {"schedule", "enabled"}
       /\ \A d \in Channel \ {c} : synced'[d] = synced[d] /\ torn'[d] = torn[d]
  BY <1>4, <1>5, <1>11 DEF RowsTyped
<1>13. HeldBy(c)' = HeldBy(c) /\ Latest(c)' = Latest(c)
  BY <1>4 DEF HeldBy, Latest
<1>14. ASSUME ~crossed' PROVE TriggerFits(c)' /\ EnabledFits(c)' /\ PathFits(c)' /\ VersionsValid(c)'
  <2>1. ~crossed /\ Serving(r) /\ (g.trigger \in Cadence => channels[c].active = p.seen.active)
    BY <1>1, <1>2, <1>3, <1>14 DEF SyncSchedule, Races
  <2>2. Latest(c) = g
    BY <1>1, <1>2, <1>3, <2>1, ServingIsLatest
  <2>3. g.trigger \in Cadence => stored.trigger = g.trigger /\ stored.enabled = channels[c].active
    BY <1>11, <2>1
  <2>4. TriggerFits(c)' /\ EnabledFits(c)'
    BY <1>4, <1>11, <1>12, <1>13, <2>2, <2>3 DEF TriggerFits, EnabledFits
  <2>5. PathFits(c)' /\ VersionsValid(c)'
    BY <1>4, <1>5, <1>12, <1>13, <2>1 DEF ChannelFits, PathFits, VersionsValid, Valid
  <2>6. QED
    BY <2>4, <2>5
<1>15. ChannelFits(c)'
  BY <1>4, <1>5, <1>14 DEF ChannelFits
<1>16. QED
  BY <1>4, <1>6, <1>10, <1>12, <1>15, OneChannel DEF HeldBy

\* Of the channels only the one that claims or withdraws holds other paths.
LEMMA PathsOfOthers ==
  ASSUME held \in [Path -> Channel \cup {Unheld}], NEW c \in Channel
  PROVE  /\ held' = Withdrawn(c) =>
              /\ held' \in [Path -> Channel \cup {Unheld}] /\ HeldBy(c)' = {}
              /\ \A d \in Channel \ {c} : HeldBy(d)' = HeldBy(d)
         /\ \A p \in Path : held' = Claimed(p, c) /\ held[p] \in {Unheld, c} =>
              /\ held' \in [Path -> Channel \cup {Unheld}] /\ HeldBy(c)' = {p}
              /\ \A d \in Channel \ {c} : HeldBy(d)' = HeldBy(d)
<1>1. Unheld \notin Channel
  BY PublicationAssumption DEF PublicationAssumption
<1>2. ASSUME held' = Withdrawn(c)
      PROVE  /\ held' \in [Path -> Channel \cup {Unheld}] /\ HeldBy(c)' = {}
             /\ \A d \in Channel \ {c} : HeldBy(d)' = HeldBy(d)
  <2>1. \A p \in Path : held'[p] = IF held[p] = c THEN Unheld ELSE held[p]
    BY <1>2 DEF Withdrawn
  <2>2. held' \in [Path -> Channel \cup {Unheld}]
    BY <1>2 DEF Withdrawn
  <2>3. QED
    BY <1>1, <2>1, <2>2 DEF HeldBy
<1>3. ASSUME NEW p \in Path, held' = Claimed(p, c), held[p] \in {Unheld, c}
      PROVE  /\ held' \in [Path -> Channel \cup {Unheld}] /\ HeldBy(c)' = {p}
             /\ \A d \in Channel \ {c} : HeldBy(d)' = HeldBy(d)
  <2>1. \A x \in Path : held'[x] = IF x = p THEN c ELSE IF held[x] = c THEN Unheld ELSE held[x]
    BY <1>3 DEF Claimed
  <2>2. held' \in [Path -> Channel \cup {Unheld}]
    BY <1>3 DEF Claimed
  <2>3. HeldBy(c)' = {p}
    BY <1>1, <2>1 DEF HeldBy
  <2>4. ASSUME NEW d \in Channel \ {c} PROVE HeldBy(d)' = HeldBy(d)
    BY <1>1, <1>3, <2>1, <2>4 DEF HeldBy
  <2>5. QED
    BY <2>2, <2>3, <2>4
<1>4. QED
  BY <1>2, <1>3

LEMMA SyncPathStep ==
  ASSUME PublicationInv, NEW r \in Requester, SyncPath(r)
  PROVE  PublicationInv'
<1>1. PICK p \in RequestRow : p = request[r] /\ RequestFits(p) /\ p.at = "path"
  BY RequestIs DEF SyncPath
<1>2. PICK c \in Channel : c = p.of /\ channels[c].life # "none"
  BY <1>1 DEF RequestFits
<1>3. PICK g \in Draft : g = p.seen.graph
  BY DEF RequestRow, ReadRow
<1>4. UNCHANGED <<channels, synced, accounts>> /\ request' = [request EXCEPT ![r] = NoRequest]
  BY DEF SyncPath, Ends
<1>5. /\ RowsTyped /\ RequestsFit /\ ChannelFits(c) /\ channels[c] \in ChannelRow /\ crossed \in BOOLEAN
  BY DEF PublicationInv, RowsTyped
<1>6. RequestFits(NoRequest) /\ RequestFits(NoRequest)'
  BY Drafts DEF RequestFits
<1>7. CASE UNCHANGED <<held, torn, crossed>>
  BY <1>4, <1>6, <1>7, Drafts, OnlyRequest
<1>8. ASSUME torn' = [torn EXCEPT ![c] = @ \ {"path"}], crossed' = (crossed \/ ~Serving(r)),
             held' \in [Path -> Channel \cup {Unheld}],
             \A d \in Channel \ {c} : HeldBy(d)' = HeldBy(d),
             HeldBy(c)' = IF g.trigger = "inbound" THEN {g.path} ELSE {}
      PROVE  PublicationInv'
  <2>1. RequestsFit'
    BY <1>4, <1>6, <1>8, Drafts, RequestMovesAlone
  <2>2. RowsTyped' /\ torn'[c] = torn[c] \ {"path"} /\ \A d \in Channel \ {c} : torn'[d] = torn[d]
    BY <1>4, <1>5, <1>8 DEF RowsTyped
  <2>3. ASSUME ~crossed' PROVE TriggerFits(c)' /\ EnabledFits(c)' /\ PathFits(c)' /\ VersionsValid(c)'
    <3>1. ~crossed /\ Latest(c) = g /\ Latest(c)' = Latest(c)
      BY <1>1, <1>2, <1>3, <1>4, <1>8, <2>3, ServingIsLatest DEF Latest
    <3>2. TriggerFits(c)' /\ EnabledFits(c)' /\ VersionsValid(c)'
      BY <1>4, <1>5, <2>2, <3>1 DEF ChannelFits, TriggerFits, EnabledFits, VersionsValid, Valid
    <3>3. PathFits(c)'
      BY <1>8, <3>1 DEF PathFits
    <3>4. QED
      BY <3>2, <3>3
  <2>4. ChannelFits(c)'
    BY <1>4, <1>5, <2>3 DEF ChannelFits
  <2>5. crossed' \in BOOLEAN /\ (crossed => crossed')
    BY <1>5, <1>8
  <2>6. QED
    BY <1>4, <1>8, <2>1, <2>2, <2>4, <2>5, OneChannel
<1>9. CASE g.trigger # "inbound"
  <2>1. /\ torn' = [torn EXCEPT ![c] = @ \ {"path"}] /\ crossed' = (crossed \/ ~Serving(r))
        /\ held' = Withdrawn(c)
    BY <1>1, <1>2, <1>3, <1>9 DEF SyncPath, Mends, Races
  <2>2. QED
    BY <1>5, <1>8, <1>9, <2>1, PathsOfOthers DEF RowsTyped
<1>10. CASE g.trigger = "inbound" /\ ~UNCHANGED <<held, torn, crossed>>
  <2>1. /\ torn' = [torn EXCEPT ![c] = @ \ {"path"}] /\ crossed' = (crossed \/ ~Serving(r))
        /\ Live(c) /\ held' = Claimed(g.path, c) /\ held[g.path] \in {Unheld, c}
    BY <1>1, <1>2, <1>3, <1>10 DEF SyncPath, Mends, Races
  <2>2. PICK vs \in Seq(Usable) : vs = channels[c].versions
    BY <1>5 DEF ChannelRow
  <2>3. p.seen.number \in DOMAIN vs /\ g = vs[p.seen.number]
    BY <1>1, <1>2, <1>3, <2>1, <2>2 DEF RequestFits
  <2>4. g \in Usable
    BY <2>3
  <2>5. g.path \in Path
    BY <1>10, <2>4 DEF Usable
  <2>6. QED
    BY <1>5, <1>8, <1>10, <2>1, <2>5, PathsOfOthers DEF RowsTyped
<1>11. QED
  BY <1>7, <1>9, <1>10

LEMMA SaveRowStep ==
  ASSUME PublicationInv, NEW r \in Requester, SaveRow(r)
  PROVE  PublicationInv'
<1>1. PICK p \in RequestRow : /\ p = request[r] /\ RequestFits(p)
                              /\ p.at \in {"activate", "deactivate", "rename", "streak"}
  BY RequestIs DEF SaveRow
<1>2. PICK c \in Channel : c = p.of /\ channels[c].life # "none"
  BY <1>1 DEF RequestFits
<1>3. UNCHANGED <<synced, held, accounts>>
  BY DEF SaveRow
<1>4. RequestFits(NoRequest) /\ RequestFits(NoRequest)'
  BY Drafts DEF RequestFits
<1>5. /\ RowsTyped /\ RequestsFit /\ ChannelFits(c) /\ channels[c] \in ChannelRow /\ crossed \in BOOLEAN
      /\ torn[c] \in SUBSET Part
  BY DEF PublicationInv, RowsTyped
<1>6. CASE ~Live(c)
  BY <1>1, <1>2, <1>3, <1>4, <1>6, Drafts, OnlyRequest DEF SaveRow, Ends
<1>7. CASE Live(c)
  <2>1. PICK active \in BOOLEAN : active = IF Switches(r) THEN ~p.seen.active ELSE p.seen.active
    BY DEF RequestRow, ReadRow
  <2>2. PICK n : n = [channels[c] EXCEPT !.active = active]
    OBVIOUS
  <2>3. /\ n \in ChannelRow /\ n.life = channels[c].life /\ n.draft = channels[c].draft /\ n.active = active
        /\ n.revision = channels[c].revision /\ n.versions = channels[c].versions
    BY <1>5, <2>2 DEF ChannelRow
  <2>4. /\ channels' = [channels EXCEPT ![c] = n] /\ channels'[c] = n
        /\ \A d \in Channel \ {c} : channels'[d] = channels[d]
    BY <1>1, <1>2, <1>5, <1>7, <2>1, <2>2 DEF SaveRow, RowsTyped
  <2>5. /\ crossed' = (crossed \/ (~Switches(r) /\ channels[c].active # active))
        /\ torn' = IF Switches(r) THEN [torn EXCEPT ![c] = @ \cup {"enabled"}] ELSE torn
    BY <1>1, <1>2, <1>7, <2>1 DEF SaveRow, Races, Tears
  <2>6. PICK q \in RequestRow : request' = [request EXCEPT ![r] = q] /\ RequestFits(q)'
    <3>1. CASE p.at = "streak"
      <4>1. request' = [request EXCEPT ![r] = NoRequest]
        BY <1>1, <1>2, <1>7, <3>1 DEF SaveRow, Ends
      <4>2. QED
        BY <1>4, <4>1, Drafts
    <3>2. CASE p.at # "streak"
      <4>1. PICK at \in {"switched", "renamed"} : at = IF Switches(r) THEN "switched" ELSE "renamed"
        OBVIOUS
      <4>2. PICK seen \in ReadRow : seen = p.seen
        BY DEF RequestRow
      <4>3. PICK read : read = [seen EXCEPT !.active = active]
        OBVIOUS
      <4>4. PICK q : q = [p EXCEPT !.at = at, !.seen = read]
        OBVIOUS
      <4>5. read \in ReadRow
        BY <4>3 DEF ReadRow
      <4>6. q \in RequestRow /\ q.at = at /\ q.of = c
        BY <1>2, <4>4, <4>5 DEF RequestRow, RequestAt
      <4>7. q = [p EXCEPT !.at = at, !.seen.active = active]
        BY <4>2, <4>3, <4>4 DEF RequestRow
      <4>8. request' = [request EXCEPT ![r].at = at, ![r].seen.active = active]
        BY <1>1, <1>2, <1>7, <2>1, <3>2, <4>1 DEF SaveRow
      <4>9. request' = [request EXCEPT ![r] = q]
        BY <1>1, <1>5, <4>7, <4>8 DEF RequestsFit
      <4>10. RequestFits(q)'
        BY <1>2, <2>3, <2>4, <4>6 DEF RequestFits
      <4>11. QED
        BY <4>6, <4>9, <4>10
    <3>3. QED
      BY <3>1, <3>2
  <2>7. crossed' \in BOOLEAN /\ (crossed => crossed')
    BY <1>5, <2>5
  <2>8. ASSUME NEW x \in RequestRow, x.of = c, RequestFits(x) PROVE RequestFits(x)'
    BY <1>3, <2>3, <2>4, <2>7, <2>8 DEF RequestFits, Live, Valid
  <2>9. RequestsFit'
    BY <1>3, <2>4, <2>6, <2>7, <2>8, RequestMoves
  <2>10. RowsTyped' /\ \A d \in Channel \ {c} : torn'[d] = torn[d]
    BY <1>3, <1>5, <2>3, <2>4, <2>5 DEF RowsTyped, Part
  <2>11. ASSUME ~crossed' PROVE TriggerFits(c)' /\ EnabledFits(c)' /\ PathFits(c)' /\ VersionsValid(c)'
    <3>1. ~crossed /\ (Switches(r) \/ active = channels[c].active) /\ Latest(c)' = Latest(c)
      <4>1. ~crossed /\ (Switches(r) \/ active = channels[c].active)
        BY <2>5, <2>11
      <4>2. Latest(c)' = Latest(c)
        BY <2>3, <2>4 DEF Latest
      <4>3. QED
        BY <4>1, <4>2
    <3>2. torn'[c] = IF Switches(r) THEN torn[c] \cup {"enabled"} ELSE torn[c]
      BY <1>5, <2>5 DEF RowsTyped
    <3>3. TriggerFits(c)' /\ PathFits(c)'
      BY <1>3, <1>5, <3>1, <3>2 DEF ChannelFits, TriggerFits, PathFits, HeldBy
    <3>4. EnabledFits(c)'
      BY <1>3, <1>5, <2>3, <2>4, <3>1, <3>2 DEF ChannelFits, EnabledFits
    <3>5. VersionsValid(c)'
      BY <1>3, <1>5, <2>3, <2>4, <3>1 DEF ChannelFits, VersionsValid, Valid
    <3>6. QED
      BY <3>3, <3>4, <3>5
  <2>12. ChannelFits(c)'
    BY <1>5, <2>3, <2>4, <2>11 DEF ChannelFits
  <2>13. QED
    BY <1>3, <2>4, <2>7, <2>9, <2>10, <2>12, OneChannel DEF HeldBy
<1>8. QED
  BY <1>6, <1>7

LEMMA ReadScheduleStep ==
  ASSUME PublicationInv, NEW r \in Requester, ReadSchedule(r)
  PROVE  PublicationInv'
<1>1. PICK p \in RequestRow : p = request[r] /\ RequestFits(p) /\ p.at \in {"switched", "renamed"}
  BY RequestIs DEF ReadSchedule
<1>2. PICK c \in Channel : c = p.of /\ channels[c].life # "none"
  BY <1>1 DEF RequestFits
<1>3. UNCHANGED <<channels, synced, held, accounts, crossed>>
  BY DEF ReadSchedule
<1>4. RequestFits(NoRequest) /\ RequestFits(NoRequest)'
  BY Drafts DEF RequestFits
<1>5. /\ RowsTyped /\ RequestsFit /\ ChannelFits(c) /\ crossed \in BOOLEAN /\ torn[c] \in SUBSET Part
  BY DEF PublicationInv, RowsTyped
<1>6. CASE synced[c] # NotSynced
  <2>1. PICK stored \in ScheduleRow : stored = synced[c]
    BY <1>5 DEF RowsTyped
  <2>2. PICK at \in {"enable", "name"} : at = IF p.at = "switched" THEN "enable" ELSE "name"
    OBVIOUS
  <2>3. PICK q : q = [p EXCEPT !.row = stored, !.at = at]
    OBVIOUS
  <2>4. q \in RequestRow /\ q.at = at /\ q.of = c /\ q.row = stored
    BY <1>2, <2>3 DEF RequestRow, RequestAt
  <2>5. torn' = torn /\ request' = [request EXCEPT ![r].row = synced[c], ![r].at = IF @ = "switched" THEN "enable" ELSE "name"]
    BY <1>1, <1>2, <1>6 DEF ReadSchedule
  <2>6. request' = [request EXCEPT ![r] = q]
    BY <1>1, <1>5, <2>1, <2>2, <2>3, <2>5 DEF RequestsFit, RequestRow
  <2>7. RequestFits(q)
    BY <1>2, <1>6, <2>1, <2>4 DEF RequestFits
  <2>8. QED
    BY <1>3, <2>4, <2>5, <2>6, <2>7, OnlyRequest
<1>7. CASE synced[c] = NotSynced
  <2>1. /\ request' = [request EXCEPT ![r] = NoRequest]
        /\ torn' = torn \/ torn' = [torn EXCEPT ![c] = @ \ {"enabled"}]
    BY <1>1, <1>2, <1>7 DEF ReadSchedule, Ends, Mends
  <2>2. RowsTyped' /\ \A d \in Channel \ {c} : torn'[d] = torn[d]
    BY <1>3, <1>5, <2>1 DEF RowsTyped
  <2>3. torn[c] \ {"enabled"} \subseteq torn'[c] /\ torn'[c] \subseteq torn[c]
    BY <1>5, <2>1 DEF RowsTyped
  <2>4. RequestsFit'
    BY <1>3, <1>4, <2>1, Drafts, RequestMovesAlone
  <2>5. ASSUME ~crossed PROVE TriggerFits(c)' /\ EnabledFits(c)' /\ PathFits(c)' /\ VersionsValid(c)'
    <3>1. Latest(c)' = Latest(c) /\ synced'[c] = NotSynced /\ NotSynced.trigger \notin Cadence
      BY <1>3, <1>7, PublicationAssumption DEF Latest, NotSynced, PublicationAssumption
    <3>2. TriggerFits(c)' /\ PathFits(c)' /\ VersionsValid(c)'
      BY <1>3, <1>5, <2>3, <2>5, <3>1
         DEF ChannelFits, TriggerFits, PathFits, VersionsValid, Valid, HeldBy
    <3>3. EnabledFits(c)'
      BY <3>1, <3>2 DEF TriggerFits, EnabledFits
    <3>4. QED
      BY <3>2, <3>3
  <2>6. ChannelFits(c)'
    BY <1>3, <1>5, <2>5 DEF ChannelFits
  <2>7. QED
    BY <1>3, <1>5, <2>2, <2>4, <2>6, OneChannel DEF HeldBy
<1>8. QED
  BY <1>6, <1>7

LEMMA WriteScheduleStep ==
  ASSUME PublicationInv, NEW r \in Requester, WriteSchedule(r)
  PROVE  PublicationInv'
<1>1. PICK p \in RequestRow : p = request[r] /\ RequestFits(p) /\ p.at \in {"enable", "name"}
  BY RequestIs DEF WriteSchedule
<1>2. PICK c \in Channel : c = p.of /\ channels[c].life # "none"
  BY <1>1 DEF RequestFits
<1>3. UNCHANGED <<channels, held, accounts>> /\ request' = [request EXCEPT ![r] = NoRequest]
  BY DEF WriteSchedule, Ends
<1>4. RequestFits(NoRequest)'
  BY Drafts DEF RequestFits
<1>5. /\ RowsTyped /\ RequestsFit /\ ChannelFits(c) /\ crossed \in BOOLEAN /\ torn[c] \in SUBSET Part
  BY DEF PublicationInv, RowsTyped
<1>6. PICK was \in ScheduleRow : was = p.row /\ was # NotSynced
  BY <1>1 DEF RequestRow, RequestFits
<1>7. PICK active \in BOOLEAN : active = p.seen.active
  BY DEF RequestRow, ReadRow
<1>8. PICK stored \in ScheduleRow :
        /\ synced' = [synced EXCEPT ![c] = stored] /\ stored.trigger = was.trigger
        /\ stored.enabled = IF p.at = "enable" THEN active ELSE was.enabled
  <2>1. [was EXCEPT !.enabled = active] \in ScheduleRow
    BY DEF ScheduleRow
  <2>2. QED
    BY <1>1, <1>2, <1>6, <1>7, <2>1 DEF WriteSchedule, ScheduleRow
<1>9. /\ crossed' = (crossed \/ synced[c] # was \/ ~Live(c) \/ (p.at = "enable" /\ channels[c].active # active))
      /\ torn' = IF p.at = "enable" THEN [torn EXCEPT ![c] = @ \ {"enabled"}] ELSE torn
  BY <1>1, <1>2, <1>6, <1>7 DEF WriteSchedule, Races, Mends
<1>10. /\ RowsTyped' /\ synced'[c] = stored /\ torn'[c] = IF p.at = "enable" THEN torn[c] \ {"enabled"} ELSE torn[c]
       /\ \A d \in Channel \ {c} : torn'[d] = torn[d] /\ synced'[d] = synced[d]
  BY <1>3, <1>5, <1>8, <1>9 DEF RowsTyped
<1>11. crossed' \in BOOLEAN /\ (crossed => crossed')
  BY <1>5, <1>9
<1>12. RequestsFit'
  BY <1>3, <1>4, <1>11, Drafts, RequestMovesAlone
<1>13. ASSUME ~crossed' PROVE TriggerFits(c)' /\ EnabledFits(c)' /\ PathFits(c)' /\ VersionsValid(c)'
  <2>1. /\ ~crossed /\ synced[c] = was /\ (p.at = "enable" => channels[c].active = active)
        /\ Latest(c)' = Latest(c)
    BY <1>3, <1>9, <1>13 DEF Latest
  <2>2. TriggerFits(c)'
    BY <1>5, <1>6, <1>8, <1>10, <2>1 DEF ChannelFits, TriggerFits
  <2>3. EnabledFits(c)'
    BY <1>1, <1>3, <1>5, <1>8, <1>10, <2>1 DEF ChannelFits, EnabledFits
  <2>4. PathFits(c)' /\ VersionsValid(c)'
    BY <1>3, <1>5, <1>10, <2>1 DEF ChannelFits, PathFits, VersionsValid, Valid, HeldBy
  <2>5. QED
    BY <2>2, <2>3, <2>4
<1>14. ChannelFits(c)'
  BY <1>3, <1>5, <1>13 DEF ChannelFits
<1>15. QED
  BY <1>3, <1>10, <1>11, <1>12, <1>14, OneChannel DEF HeldBy

LEMMA WithdrawScheduleStep ==
  ASSUME PublicationInv, NEW r \in Requester, WithdrawSchedule(r)
  PROVE  PublicationInv'
<1>1. PICK p \in RequestRow : p = request[r] /\ RequestFits(p) /\ p.at = "withdraw"
  BY RequestIs DEF WithdrawSchedule
<1>2. PICK c \in Channel : c = p.of /\ channels[c].life # "none"
  BY <1>1 DEF RequestFits
<1>3. UNCHANGED <<channels, held, accounts, crossed>> /\ synced' = [synced EXCEPT ![c] = NotSynced]
  BY <1>1, <1>2 DEF WithdrawSchedule
<1>4. torn' = IF Live(c) THEN [torn EXCEPT ![c] = @ \cup {"schedule"}] ELSE torn
  BY <1>1, <1>2 DEF WithdrawSchedule, Tears
<1>5. /\ RowsTyped /\ RequestsFit /\ ChannelFits(c) /\ crossed \in BOOLEAN /\ torn[c] \in SUBSET Part
  BY DEF PublicationInv, RowsTyped
<1>6. PICK q : q = [p EXCEPT !.at = "release"]
  OBVIOUS
<1>7. q \in RequestRow /\ q.at = "release" /\ q.of = c /\ request' = [request EXCEPT ![r] = q]
  BY <1>1, <1>2, <1>5, <1>6 DEF WithdrawSchedule, Goes, RequestsFit, RequestRow, RequestAt
<1>8. RequestsFit'
  <2>1. RequestFits(q)'
    BY <1>2, <1>3, <1>7 DEF RequestFits
  <2>2. QED
    BY <1>3, <1>7, <2>1, RequestMovesAlone
<1>9. /\ RowsTyped' /\ synced'[c] = NotSynced
      /\ torn'[c] = IF Live(c) THEN torn[c] \cup {"schedule"} ELSE torn[c]
      /\ \A d \in Channel \ {c} : torn'[d] = torn[d] /\ synced'[d] = synced[d]
  BY <1>3, <1>4, <1>5, Drafts DEF RowsTyped, Part
<1>10. Latest(c)' = Latest(c) /\ (Live(c) \/ Latest(c).trigger \notin Cadence)
  BY <1>3, <1>5, PublicationAssumption DEF Latest, ChannelFits, Live, Empty, PublicationAssumption
<1>11. ASSUME ~crossed PROVE TriggerFits(c)' /\ EnabledFits(c)' /\ PathFits(c)' /\ VersionsValid(c)'
  <2>1. TriggerFits(c)' /\ EnabledFits(c)'
    BY <1>9, <1>10 DEF TriggerFits, EnabledFits
  <2>2. PathFits(c)'
    BY <1>3, <1>5, <1>9, <1>10, <1>11 DEF ChannelFits, PathFits, HeldBy
  <2>3. VersionsValid(c)'
    BY <1>3, <1>5, <1>11 DEF ChannelFits, VersionsValid, Valid
  <2>4. QED
    BY <2>1, <2>2, <2>3
<1>12. ChannelFits(c)'
  BY <1>3, <1>5, <1>11 DEF ChannelFits
<1>13. QED
  BY <1>3, <1>5, <1>8, <1>9, <1>12, OneChannel DEF HeldBy

LEMMA WithdrawPathStep ==
  ASSUME PublicationInv, NEW r \in Requester, WithdrawPath(r)
  PROVE  PublicationInv'
<1>1. PICK p \in RequestRow : p = request[r] /\ RequestFits(p) /\ p.at = "release"
  BY RequestIs DEF WithdrawPath
<1>2. PICK c \in Channel : c = p.of /\ channels[c].life # "none"
  BY <1>1 DEF RequestFits
<1>3. UNCHANGED <<channels, synced, accounts, crossed>> /\ held' = Withdrawn(c)
  BY <1>1, <1>2 DEF WithdrawPath
<1>4. torn' = IF Live(c) THEN [torn EXCEPT ![c] = @ \cup {"path"}] ELSE torn
  BY <1>1, <1>2 DEF WithdrawPath, Tears
<1>5. /\ RowsTyped /\ RequestsFit /\ ChannelFits(c) /\ crossed \in BOOLEAN /\ torn[c] \in SUBSET Part
  BY DEF PublicationInv, RowsTyped
<1>6. PICK q : q = [p EXCEPT !.at = "remove"]
  OBVIOUS
<1>7. q \in RequestRow /\ q.at = "remove" /\ q.of = c /\ request' = [request EXCEPT ![r] = q]
  BY <1>1, <1>2, <1>5, <1>6 DEF WithdrawPath, Goes, RequestsFit, RequestRow, RequestAt
<1>8. RequestsFit'
  <2>1. RequestFits(q)'
    BY <1>2, <1>3, <1>7 DEF RequestFits
  <2>2. QED
    BY <1>3, <1>7, <2>1, RequestMovesAlone
<1>9. /\ held' \in [Path -> Channel \cup {Unheld}] /\ HeldBy(c)' = {}
      /\ \A d \in Channel \ {c} : HeldBy(d)' = HeldBy(d)
  BY <1>3, <1>5, PathsOfOthers DEF RowsTyped
<1>10. /\ RowsTyped' /\ torn'[c] = IF Live(c) THEN torn[c] \cup {"path"} ELSE torn[c]
       /\ \A d \in Channel \ {c} : torn'[d] = torn[d]
  BY <1>3, <1>4, <1>5, <1>9 DEF RowsTyped, Part
<1>11. Latest(c)' = Latest(c) /\ (Live(c) \/ Latest(c).trigger # "inbound")
  BY <1>3, <1>5 DEF Latest, ChannelFits, Live, Empty
<1>12. ASSUME ~crossed PROVE TriggerFits(c)' /\ EnabledFits(c)' /\ PathFits(c)' /\ VersionsValid(c)'
  <2>1. TriggerFits(c)' /\ EnabledFits(c)'
    BY <1>3, <1>5, <1>10, <1>11, <1>12 DEF ChannelFits, TriggerFits, EnabledFits
  <2>2. PathFits(c)'
    BY <1>9, <1>10, <1>11 DEF PathFits
  <2>3. VersionsValid(c)'
    BY <1>3, <1>5, <1>12 DEF ChannelFits, VersionsValid, Valid
  <2>4. QED
    BY <2>1, <2>2, <2>3
<1>13. ChannelFits(c)'
  BY <1>3, <1>5, <1>12 DEF ChannelFits
<1>14. QED
  BY <1>3, <1>5, <1>8, <1>9, <1>10, <1>13, OneChannel

LEMMA DeleteChannelStep ==
  ASSUME PublicationInv, NEW r \in Requester, DeleteChannel(r)
  PROVE  PublicationInv'
<1>1. PICK p \in RequestRow : p = request[r] /\ RequestFits(p) /\ p.at = "remove"
  BY RequestIs DEF DeleteChannel
<1>2. PICK c \in Channel : c = p.of /\ channels[c].life # "none"
  BY <1>1 DEF RequestFits
<1>3. UNCHANGED <<synced, accounts>> /\ request' = [request EXCEPT ![r] = NoRequest] /\ held' = Withdrawn(c)
  BY <1>1, <1>2 DEF DeleteChannel, Ends
<1>4. RequestFits(NoRequest)'
  BY Drafts DEF RequestFits
<1>5. /\ RowsTyped /\ RequestsFit /\ ChannelFits(c) /\ crossed \in BOOLEAN
  BY DEF PublicationInv
<1>6. PICK n : n = [NoChannel EXCEPT !.life = "gone"]
  OBVIOUS
<1>7. n \in ChannelRow /\ n.life = "gone" /\ n.versions = <<>>
  BY <1>6, Drafts DEF NoChannel, ChannelRow
<1>8. /\ channels' = [channels EXCEPT ![c] = n] /\ channels'[c] = n
      /\ \A d \in Channel \ {c} : channels'[d] = channels[d]
  BY <1>1, <1>2, <1>5, <1>6 DEF DeleteChannel, RowsTyped
<1>9. crossed' = (crossed \/ synced[c] # NotSynced) /\ torn' = [torn EXCEPT ![c] = @ \ {"schedule", "enabled", "path"}]
  BY <1>1, <1>2 DEF DeleteChannel, Mends, Races
<1>10. crossed' \in BOOLEAN /\ (crossed => crossed')
  BY <1>5, <1>9
<1>11. /\ held' \in [Path -> Channel \cup {Unheld}] /\ HeldBy(c)' = {}
       /\ \A d \in Channel \ {c} : HeldBy(d)' = HeldBy(d)
  BY <1>3, <1>5, PathsOfOthers DEF RowsTyped
<1>12. RowsTyped' /\ \A d \in Channel \ {c} : torn'[d] = torn[d]
  BY <1>3, <1>5, <1>7, <1>8, <1>9, <1>11 DEF RowsTyped
<1>13. ASSUME NEW x \in RequestRow, x.of = c, RequestFits(x) PROVE RequestFits(x)'
  BY <1>7, <1>8, <1>13 DEF RequestFits, Live
<1>14. RequestsFit'
  BY <1>3, <1>4, <1>8, <1>10, <1>13, Drafts, RequestMoves
<1>15. ChannelFits(c)'
  <2>1. Latest(c)' = Empty /\ Empty.trigger \notin Cadence /\ Empty.trigger # "inbound"
    BY <1>7, <1>8, PublicationAssumption DEF Latest, Empty, PublicationAssumption
  <2>2. ~crossed' => synced'[c] = NotSynced
    BY <1>3, <1>9
  <2>3. VersionsValid(c)'
    BY <1>7, <1>8 DEF VersionsValid
  <2>4. QED
    BY <1>7, <1>8, <1>11, <2>1, <2>2, <2>3 DEF ChannelFits, TriggerFits, EnabledFits, PathFits
<1>16. QED
  BY <1>3, <1>8, <1>10, <1>11, <1>12, <1>14, <1>15, OneChannel

LEMMA DeleteAccountStep ==
  ASSUME PublicationInv, NEW r \in Requester, DeleteAccount(r)
  PROVE  PublicationInv'
<1>1. PICK x : /\ accounts' = accounts \ {x} /\ crossed' = (crossed \/ Referenced(x))
               /\ request' = [request EXCEPT ![r] = NoRequest] /\ UNCHANGED <<channels, synced, held, torn>>
  BY DEF DeleteAccount, Races, Ends
<1>2. RowsTyped /\ RequestsFit /\ crossed \in BOOLEAN
  BY DEF PublicationInv
<1>3. RowsTyped' /\ crossed' \in BOOLEAN /\ (crossed => crossed')
  BY <1>1, <1>2, Referenced(x) \in BOOLEAN DEF RowsTyped, Referenced
<1>4. ASSUME NEW g, Valid(g), g.account # x PROVE Valid(g)'
  BY <1>1, <1>4 DEF Valid
<1>5. ASSUME NEW c \in Channel, ~crossed'
      PROVE  channels[c].draft.account # x /\ \A i \in DOMAIN channels[c].versions : channels[c].versions[i].account # x
  BY <1>1, <1>5 DEF Referenced, ToSet
<1>6. ASSUME NEW p \in RequestRow, RequestFits(p) PROVE RequestFits(p)'
  <2>1. p.at = "store" => p.of \in Channel
    BY <1>6 DEF RequestFits
  <2>2. p.at = "store" /\ ~crossed' /\ Valid(channels[p.of].draft) => Valid(channels[p.of].draft)'
    BY <1>1, <1>4, <1>5, <2>1 DEF Valid
  <2>3. QED
    BY <1>1, <1>3, <1>6, <2>1, <2>2 DEF RequestFits, Live
<1>7. RequestsFit'
  <2>1. ASSUME NEW y \in Requester PROVE RequestFits(request[y])'
    <3>1. PICK p \in RequestRow : p = request'[y] /\ RequestFits(p)
      BY <1>1, <1>2, Drafts DEF RequestsFit, RequestFits
    <3>2. RequestFits(p)'
      BY <1>6, <3>1
    <3>3. QED
      BY <3>1, <3>2 DEF RequestFits
  <2>2. request' \in [Requester -> RequestRow]
    BY <1>1, <1>2, Drafts DEF RequestsFit
  <2>3. QED
    BY <2>1, <2>2 DEF RequestsFit
<1>8. ASSUME NEW c \in Channel PROVE ChannelFits(c)'
  <2>1. ChannelFits(c)
    BY DEF PublicationInv
  <2>2. ASSUME ~crossed' PROVE VersionsValid(c)'
    BY <1>1, <1>3, <1>4, <1>5, <2>1, <2>2 DEF ChannelFits, VersionsValid, Valid
  <2>3. ~crossed' => TriggerFits(c)' /\ EnabledFits(c)' /\ PathFits(c)'
    BY <1>1, <1>3, <2>1 DEF ChannelFits, TriggerFits, EnabledFits, PathFits, Latest, HeldBy
  <2>4. QED
    BY <1>1, <2>1, <2>2, <2>3 DEF ChannelFits
<1>9. QED
  BY <1>3, <1>7, <1>8 DEF PublicationInv

LEMMA PublicationStepInv == PublicationInv /\ [PublicationNext]_publicationVars => PublicationInv'
<1>1. SUFFICES ASSUME PublicationInv, [PublicationNext]_publicationVars PROVE PublicationInv'
  OBVIOUS
<1>2. CASE UNCHANGED publicationVars
  BY <1>1, <1>2 DEF publicationVars, PublicationInv, RowsTyped, RequestsFit, RequestFits, ChannelFits,
     TriggerFits, EnabledFits, PathFits, VersionsValid, Latest, Valid, Live, HeldBy
<1>3. CASE \E c \in Channel : CreateChannel(c)
  BY <1>1, <1>3, CreateStep
<1>4. ASSUME NEW r \in Requester,
             \/ \E c \in Channel : GetDraft(r, c) \/ CheckPublish(r, c) \/ CheckRow(r, c) \/ CheckDelete(r, c)
             \/ \E x \in Account : CheckAccount(r, x)
             \/ Dies(r)
      PROVE  PublicationInv'
  BY <1>1, <1>4, BeginStep
<1>5. ASSUME NEW r \in Requester,
             \/ SaveDraft(r) \/ StoreVersion(r) \/ SyncSchedule(r) \/ SyncPath(r)
             \/ SaveRow(r) \/ ReadSchedule(r) \/ WriteSchedule(r)
             \/ WithdrawSchedule(r) \/ WithdrawPath(r) \/ DeleteChannel(r) \/ DeleteAccount(r)
      PROVE  PublicationInv'
  BY <1>1, <1>5, SaveDraftStep, StoreStep, SyncScheduleStep, SyncPathStep, SaveRowStep, ReadScheduleStep,
     WriteScheduleStep, WithdrawScheduleStep, WithdrawPathStep, DeleteChannelStep, DeleteAccountStep
<1>6. QED
  BY <1>1, <1>2, <1>3, <1>4, <1>5 DEF PublicationNext

\* ChannelsAreServed for every set of channels, requesters, paths, accounts and
\* drafts: however the transactions of publishes, activations, renamings, ends of
\* runs, deletions and account deletions interleave, and wherever a request stops,
\* as long as no two requests crossed, a channel at rest has the schedule row and
\* the path of its latest version and no other, and what its versions name exists
\* (backend/channel/service.py, schedules.py, inbound_paths.py).
THEOREM ChannelsStayServed == PublicationSpec => []ChannelsAreServed
<1>1. ASSUME PublicationInv PROVE ChannelsAreServed
  <2>1. SUFFICES ASSUME ~crossed, NEW c \in Channel
                 PROVE  (Quiet(c) => Served(c)) /\ \A v \in ToSet(channels[c].versions) : Valid(v)
    BY DEF ChannelsAreServed
  <2>2. TriggerFits(c) /\ EnabledFits(c) /\ PathFits(c) /\ VersionsValid(c)
    BY <1>1, <2>1 DEF PublicationInv, ChannelFits
  <2>3. PICK stored \in ScheduleRow : stored = synced[c]
    BY <1>1 DEF PublicationInv, RowsTyped
  <2>4. stored = [trigger |-> stored.trigger, enabled |-> stored.enabled]
    BY DEF ScheduleRow
  <2>5. ASSUME Quiet(c) PROVE Served(c)
    BY <2>2, <2>3, <2>4, <2>5 DEF Quiet, TriggerFits, EnabledFits, PathFits, Latest, Served
  <2>6. \A v \in ToSet(channels[c].versions) : Valid(v)
    BY <2>2 DEF VersionsValid, ToSet
  <2>7. QED
    BY <2>5, <2>6
<1>2. QED
  BY <1>1, PublicationInitInv, PublicationStepInv, PTL DEF PublicationSpec

=============================================================================
