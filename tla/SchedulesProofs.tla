-------------------------- MODULE SchedulesProofs --------------------------
(* Commitments are legal, consumed ticks have a Job, missed slots are gone; and what  *)
(* the Jobs of a Source, which such ticks mint, keep of its catalog.                  *)
EXTENDS StructureRun, Schedules, FiniteSetTheorems, TLAPS

\* A Job is made once its Instant has come.
JobsOK == \A i \in Instant : job[i] # NoJob => job[i].created \in Instant /\ i <= job[i].created
                                               /\ job[i].created <= clock

\* What a tick task does after its commit is about a Job that is there.
PendingOK ==
  \A i \in Instant : pending[i] # NoAction => pending[i].instant \in Instant /\ job[pending[i].instant] # NoJob

TicksOK == \A i \in ticks : i <= clock

\* CommitmentsHold of a record: of the row, and of the one a PATCH has read.
RecordOK(r) ==
  /\ IF r.enabled THEN r.next # None /\ Legal(r) ELSE r.next = None
  /\ r.last <= clock
  /\ r.last # None => \E i \in Instant : job[i].created = r.last

SchedulesInv ==
  SchedulesTypeOK /\ JobsOK /\ PendingOK /\ TicksOK /\ RecordOK(row) /\ RecordOK(patch)
-----------------------------------------------------------------------------
(* Fire times *)

LEMMA Multiples ==
  ASSUME NEW a \in Nat \ {0}, NEW b \in Int
  PROVE  (a * b) % a = 0 /\ a * (b \div a + 1) > b /\ a * (b \div a + 1) \in Int
         /\ b \div a \in Int
<1>1. (a * b) % a = 0
  OBVIOUS
<1>2. a * (b \div a + 1) > b /\ a * (b \div a + 1) \in Int /\ b \div a \in Int
  OBVIOUS
<1>3. QED
  BY <1>1, <1>2

\* A slot: strictly after t and not before s.
LEMMA CronPointIsSlot ==
  ASSUME NEW s \in Nat \cup {None}, NEW t \in Nat
  PROVE  /\ CronPoint(s, t) \in Nat /\ t < CronPoint(s, t) /\ s <= CronPoint(s, t)
         /\ CronPoint(s, t) % CronStep = 0
<1> DEFINE after == IF s - 1 > t THEN s - 1 ELSE t
<1>1. after \in Nat /\ t <= after /\ s - 1 <= after /\ CronStep \in Nat \ {0}
  BY SchedulesAssumption DEF SchedulesAssumption, None
<1>2. CronPoint(s, t) = CronStep * (after \div CronStep + 1)
  BY DEF CronPoint
<1> HIDE DEF after
<1>3. after \div CronStep + 1 \in Int
  BY <1>1, Multiples
<1>4. CronStep * (after \div CronStep + 1) > after /\ CronStep * (after \div CronStep + 1) \in Int
  BY <1>1, Multiples
<1>5. (CronStep * (after \div CronStep + 1)) % CronStep = 0
  BY <1>1, <1>3, Multiples
<1>6. QED
  BY <1>1, <1>2, <1>4, <1>5 DEF None

\* A grid point: strictly after t and not before s.
LEMMA GridPointIsOnGrid ==
  ASSUME NEW s \in Nat, NEW t \in Nat
  PROVE  /\ GridPoint(s, t) \in Nat /\ t < GridPoint(s, t) /\ s <= GridPoint(s, t)
         /\ (GridPoint(s, t) - s) % Interval = 0
<1>1. Interval \in Nat \ {0}
  BY SchedulesAssumption DEF SchedulesAssumption
<1>2. CASE s > t
  <2>1. (Interval * 0) % Interval = 0
    BY <1>1, Multiples
  <2>2. Interval * 0 = 0
    BY <1>1
  <2>3. QED
    BY <1>2, <2>1, <2>2 DEF GridPoint
<1>3. CASE ~(s > t)
  <2> DEFINE k == (t - s) \div Interval + 1
  <2>1. k \in Int /\ Interval * k > t - s /\ Interval * k \in Int /\ (Interval * k) % Interval = 0
    BY <1>1, Multiples
  <2>2. GridPoint(s, t) = s + Interval * k
    BY <1>3 DEF GridPoint
  <2> HIDE DEF k
  <2>3. QED
    BY <1>3, <2>1, <2>2
<1>4. QED
  BY <1>2, <1>3

LEMMA LaterFacts ==
  ASSUME NEW s \in Int, NEW t \in Int
  PROVE  Later(s, t) \in {s, t} /\ s <= Later(s, t) /\ t <= Later(s, t)
BY DEF Later

\* What commits anew is an Instant of the cadence, after the clock unless the
\* cadence is free.
LEMMA NextRunIsLegal ==
  ASSUME clock \in Nat, NEW r, r.start \in Nat \cup {None}, NEW after \in Nat, after <= clock,
         r.cadence = "cron" => after = clock,
         r.next = NextRun(r.cadence, r.start, after)
  PROVE  Legal(r) /\ r.next \in Nat /\ clock <= r.next
<1>1. CASE r.cadence = "cron"
  BY <1>1, CronPointIsSlot DEF NextRun, Legal
<1>2. CASE r.cadence = "interval" /\ r.start # None
  <2>1. Later(after, clock) = clock
    BY DEF Later
  <2>2. r.next = GridPoint(r.start, clock)
    BY <1>2, <2>1 DEF NextRun
  <2>3. QED
    BY <1>2, <2>2, GridPointIsOnGrid DEF Legal
<1>3. CASE r.cadence # "cron" /\ ~(r.cadence = "interval" /\ r.start # None)
  <2>1. after + Interval \in Nat
    BY SchedulesAssumption DEF SchedulesAssumption
  <2>2. r.next = Later(after + Interval, clock)
    BY <1>3 DEF NextRun
  <2>3. QED
    BY <1>3, <2>1, <2>2, LaterFacts DEF Legal
<1>4. QED
  BY <1>1, <1>2, <1>3

-----------------------------------------------------------------------------
(* Rows *)

\* The row after a mint, of a Job made at mintAt.
LEMMA ConsumedRowFacts ==
  ASSUME clock \in Instant, NEW r \in Row, NEW mintAt \in Instant, mintAt <= clock,
         r.cadence = "cron" => mintAt = clock
  PROVE  /\ ConsumedRow(r, mintAt) \in Row
         /\ ConsumedRow(r, mintAt).last = mintAt
         /\ IF ConsumedRow(r, mintAt).enabled
            THEN ConsumedRow(r, mintAt).next # None /\ Legal(ConsumedRow(r, mintAt))
            ELSE ConsumedRow(r, mintAt).next = None
<1> DEFINE c == ConsumedRow(r, mintAt)
           n == NextRun(r.cadence, r.start, mintAt)
           s == [r EXCEPT !.last = mintAt, !.next = n]
<1>1. /\ clock \in Nat /\ mintAt \in Nat /\ r.start \in Nat \cup {None}
      /\ s.cadence = r.cadence /\ s.start = r.start /\ s.next = n
  BY SchedulesAssumption DEF SchedulesAssumption, Instant, Row
<1>2. Legal(s) /\ n \in Nat /\ clock <= n
  BY <1>1, NextRunIsLegal
<1>3. Later(n, clock) = n
  BY <1>1, <1>2 DEF Later
<1>4. c = [r EXCEPT !.last = mintAt, !.next = IF r.enabled THEN n ELSE None]
  BY <1>3 DEF ConsumedRow
<1> HIDE DEF c, n
<1>5. c \in Row /\ c.last = mintAt /\ c.enabled = r.enabled
  BY <1>2, <1>4 DEF Row
<1>6. CASE r.enabled
  <2>1. c = s /\ c.next = n
    BY <1>1, <1>4, <1>6
  <2>2. QED
    BY <1>2, <1>5, <1>6, <2>1 DEF None, c
<1>7. CASE ~r.enabled
  BY <1>4, <1>5, <1>7 DEF c, Row
<1>8. QED
  BY <1>5, <1>6, <1>7 DEF c, Row

\* No Job is ever taken away or dated anew.
JobsKept == \A i \in Instant : job[i] # NoJob => job'[i] # NoJob /\ job'[i].created = job[i].created

LEMMA RecordsStay ==
  ASSUME clock' \in Int, clock \in Int, clock <= clock', JobsKept
  PROVE  \A r \in Row : RecordOK(r) => RecordOK(r)'
<1>1. SUFFICES ASSUME NEW r \in Row, RecordOK(r) PROVE RecordOK(r)'
  OBVIOUS
<1>2. r.last \in Int
  BY SchedulesAssumption DEF SchedulesAssumption, Row, Instant, None
<1>3. Legal(r)' <=> Legal(r)
  BY DEF Legal
<1>4. ASSUME r.last # None PROVE \E i \in Instant : job'[i].created = r.last
  <2>1. PICK i \in Instant : job[i].created = r.last
    BY <1>1, <1>4 DEF RecordOK
  <2>2. job[i] # NoJob
    BY <1>4, <2>1 DEF NoJob
  <2>3. QED
    BY <2>1, <2>2 DEF JobsKept
<1>5. r.last <= clock'
  BY <1>1, <1>2 DEF RecordOK
<1>6. QED
  BY <1>1, <1>3, <1>4, <1>5 DEF RecordOK
-----------------------------------------------------------------------------
(* Steps *)

\* MissedSlotsAreSkipped, of one step.
MintsNow == \A i \in Instant : Minted(i) /\ row.cadence = "cron" => i = clock

LEMMA Numbers ==
  ASSUME SchedulesInv
  PROVE  /\ Horizon \in Nat /\ MaxPatches \in Nat /\ MaxCrashes \in Nat /\ Start \subseteq Nat
         /\ CronStep \in Nat \ {0} /\ Interval \in Nat \ {0}
         /\ clock \in Nat /\ clock <= Horizon /\ clock \in Int
BY SchedulesAssumption DEF SchedulesAssumption, SchedulesInv, SchedulesTypeOK, Instant

LEMMA SchedulesInitInv == SchedulesInit => SchedulesInv
<1>1. SUFFICES ASSUME SchedulesInit PROVE SchedulesInv
  OBVIOUS
<1>2. /\ Horizon \in Nat /\ MaxPatches \in Nat /\ MaxCrashes \in Nat /\ Start \subseteq Nat
      /\ CronStep \in Nat \ {0} /\ Interval \in Nat \ {0}
  BY SchedulesAssumption DEF SchedulesAssumption
<1>3. /\ clock = 0 /\ beat = None /\ ticks = {} /\ job = [i \in Instant |-> NoJob]
      /\ pending = [i \in Instant |-> NoAction] /\ patch = NoRow /\ delete = "idle"
      /\ doomed = {} /\ patches = 0 /\ crashes = 0
  BY <1>1 DEF SchedulesInit
<1>4. PICK cadence \in {"interval", "cron"} :
        row = [enabled |-> TRUE, cadence |-> cadence, start |-> None, last |-> None,
               next |-> IF cadence = "cron" THEN CronStep ELSE Interval]
  BY <1>1 DEF SchedulesInit
<1>5. row \in Row /\ patch \in Row
  BY <1>2, <1>3, <1>4 DEF Row, NoRow, None
<1>6. SchedulesTypeOK
  <2>1. /\ 0 \in Instant /\ 0 \in 0..MaxPatches /\ 0 \in 0..MaxCrashes /\ row.last <= 0
        /\ None \in Nat \cup {None}
    BY <1>2, <1>4 DEF Instant, None
  <2>2. NoJob \in [status : {"absent", "queued", "running", "ended", "cancelled"},
                   created : Instant \cup {None}, sent : BOOLEAN]
    BY DEF NoJob
  <2>3. NoAction \in [does : {"nothing", "dispatch", "recheck"}, instant : Instant \cup {None}]
    BY DEF NoAction
  <2>4. QED
    BY <1>3, <1>5, <2>1, <2>2, <2>3 DEF SchedulesTypeOK
<1>7. RecordOK(patch)
  BY <1>3 DEF RecordOK, NoRow, None
<1>8. RecordOK(row)
  <2>1. CronStep % CronStep = 0
    <3>1. (CronStep * 1) % CronStep = 0 /\ CronStep * 1 = CronStep
      BY <1>2, Multiples
    <3>2. QED
      BY <3>1
  <2>2. CASE row.cadence = "cron"
    BY <1>2, <1>3, <1>4, <2>1, <2>2 DEF RecordOK, Legal, None
  <2>3. CASE row.cadence # "cron"
    BY <1>2, <1>3, <1>4, <2>3 DEF RecordOK, Legal, None
  <2>4. QED
    BY <2>2, <2>3
<1>9. QED
  BY <1>3, <1>6, <1>7, <1>8 DEF SchedulesInv, JobsOK, PendingOK, TicksOK

\* What the mint of one Instant does: the heart of the tick task.
LEMMA MintStep ==
  ASSUME SchedulesInv, NEW due \in Instant, Undecided(due), NEW i \in Instant, i <= clock,
         NEW r \in Row, r = row \/ (r = NoRow /\ row = NoRow), r.cadence = "cron" => i = clock,
         NEW cancel \in BOOLEAN, Mint(due, i, r, cancel)
  PROVE  SchedulesInv' /\ MintsNow
<1> DEFINE again == job[i] # NoJob
           minted == IF again THEN job[i]
                     ELSE [status |-> "queued", created |-> clock, sent |-> FALSE]
           cancels == cancel /\ minted.status \in Unfinished
           Job == [status : {"absent", "queued", "running", "ended", "cancelled"},
                   created : Instant \cup {None}, sent : BOOLEAN]
           left == IF cancels THEN [minted EXCEPT !.status = "cancelled"] ELSE minted
<1>1. SchedulesTypeOK /\ JobsOK /\ PendingOK /\ TicksOK /\ RecordOK(row) /\ RecordOK(patch)
  BY DEF SchedulesInv
<1>2. /\ clock' = clock /\ beat' = beat /\ patch' = patch /\ delete' = delete /\ doomed' = doomed
      /\ patches' = patches /\ crashes' = crashes
      /\ job' = [job EXCEPT ![i] = left]
      /\ row' = IF r = NoRow THEN r ELSE ConsumedRow(r, minted.created)
      /\ \/ /\ pending' = [pending EXCEPT ![due] =
                 [does |-> IF again THEN "recheck" ELSE "dispatch", instant |-> i]]
            /\ ticks' = ticks
         \/ pending' = pending /\ ticks' = ticks \ {due}
  BY DEF Mint, Acknowledge, operatorVars
<1>3. clock \in Instant /\ clock \in Nat /\ i \in Nat
  BY <1>1, Numbers DEF SchedulesTypeOK, Instant
<1>4. /\ minted \in Job /\ minted # NoJob
      /\ minted.created \in Instant /\ i <= minted.created /\ minted.created <= clock
  <2>1. CASE again
    BY <1>1, <2>1 DEF SchedulesTypeOK, JobsOK
  <2>2. CASE ~again
    BY <1>3, <2>2 DEF NoJob
  <2>3. QED
    BY <2>1, <2>2
<1>5. left \in Job /\ left # NoJob /\ left.created = minted.created
  BY <1>4 DEF NoJob
<1>6. again => minted = job[i]
  OBVIOUS
<1> HIDE DEF minted, left, cancels
<1>7. job' \in [Instant -> Job] /\ job'[i] = left /\ \A k \in Instant : k # i => job'[k] = job[k]
  BY <1>1, <1>2, <1>5 DEF SchedulesTypeOK
<1>8. JobsKept
  BY <1>5, <1>6, <1>7 DEF JobsKept
<1>9. JobsOK'
  BY <1>1, <1>2, <1>4, <1>5, <1>7 DEF JobsOK
<1>10. /\ row' \in Row /\ row'.last <= clock
       /\ IF row'.enabled THEN row'.next # None /\ Legal(row') ELSE row'.next = None
       /\ row'.last # None => \E k \in Instant : job'[k].created = row'.last
  <2>1. CASE r = NoRow
    <3>1. row' = row
      BY <1>2, <2>1
    <3>2. RecordOK(row)'
      BY <1>1, <1>2, <1>3, <1>8, <3>1, RecordsStay DEF SchedulesTypeOK
    <3>3. QED
      BY <1>1, <1>2, <3>1, <3>2 DEF RecordOK, SchedulesTypeOK
  <2>2. CASE r # NoRow
    <3>1. row' = ConsumedRow(r, minted.created)
      BY <1>2, <2>2
    <3>2. r.cadence = "cron" => minted.created = clock
      BY <1>3, <1>4 DEF Instant
    <3>3. /\ row' \in Row /\ row'.last = minted.created
          /\ IF row'.enabled THEN row'.next # None /\ Legal(row') ELSE row'.next = None
      BY <1>3, <1>4, <3>1, <3>2, ConsumedRowFacts
    <3>4. QED
      BY <1>4, <1>5, <1>7, <3>3
  <2>3. QED
    BY <2>1, <2>2
<1>11. RecordOK(row)'
  BY <1>2, <1>10 DEF RecordOK, Legal
<1>12. RecordOK(patch)'
  BY <1>1, <1>2, <1>3, <1>8, RecordsStay DEF SchedulesTypeOK
<1>13. /\ pending' \in [Instant -> [does : {"nothing", "dispatch", "recheck"},
                                    instant : Instant \cup {None}]]
       /\ ticks' \subseteq ticks
       /\ \A k \in Instant : pending'[k] = pending[k] \/ pending'[k].instant = i
  BY <1>1, <1>2 DEF SchedulesTypeOK
<1>14. SchedulesTypeOK'
  BY <1>1, <1>2, <1>7, <1>10, <1>13 DEF SchedulesTypeOK
<1>15. PendingOK'
  BY <1>1, <1>5, <1>7, <1>8, <1>13 DEF PendingOK, JobsKept
<1>16. TicksOK'
  BY <1>1, <1>2, <1>13 DEF TicksOK
<1>17. MintsNow
  BY <1>7 DEF MintsNow, Minted, NoRow
<1>18. QED
  BY <1>9, <1>11, <1>12, <1>14, <1>15, <1>16, <1>17 DEF SchedulesInv

\* Steps that leave the record of the schedule and mint nothing.
JobTypes == [Instant -> [status : {"absent", "queued", "running", "ended", "cancelled"},
                         created : Instant \cup {None}, sent : BOOLEAN]]

LEMMA QuietStep ==
  ASSUME SchedulesInv, clock' = clock, row' = row, patch' = patch \/ patch' = row \/ patch' = NoRow,
         job' \in JobTypes, \A i \in Instant : job'[i].created = job[i].created,
         \A i \in Instant : job'[i] = NoJob <=> job[i] = NoJob
  PROVE  /\ JobsOK' /\ RecordOK(row)' /\ RecordOK(patch)' /\ MintsNow
         /\ row' \in Row /\ patch' \in Row /\ row'.last <= clock'
<1>1. SchedulesTypeOK /\ JobsOK /\ RecordOK(row) /\ RecordOK(patch)
  BY DEF SchedulesInv
<1>2. clock \in Int /\ JobsKept
  BY Numbers DEF JobsKept
<1>3. NoRow \in Row /\ RecordOK(NoRow)
  <2>1. clock \in Nat
    BY Numbers
  <2>2. QED
    BY <2>1 DEF NoRow, Row, RecordOK, None
<1>4. \A r \in Row : RecordOK(r) => RecordOK(r)'
  BY <1>2, RecordsStay
<1>5. row' \in Row /\ patch' \in Row /\ row'.last <= clock'
  BY <1>1, <1>3 DEF SchedulesTypeOK
<1>6. RecordOK(row)'
  BY <1>1, <1>4 DEF RecordOK, Legal, SchedulesTypeOK
<1>7. RecordOK(patch)'
  <2>1. PICK r \in Row : patch' = r /\ RecordOK(r)
    BY <1>1, <1>3 DEF SchedulesTypeOK
  <2>2. RecordOK(r)'
    BY <1>4, <2>1
  <2>3. QED
    BY <2>1, <2>2 DEF RecordOK, Legal
<1>8. JobsOK'
  BY <1>1 DEF JobsOK
<1>9. MintsNow
  BY DEF MintsNow, Minted
<1>10. QED
  BY <1>5, <1>6, <1>7, <1>8, <1>9

\* Dispatching is of a Job that is there.
LEMMA DispatchedFacts ==
  ASSUME SchedulesInv, NEW due \in Instant, pending[due] # NoAction
  PROVE  /\ Dispatched(due) \in JobTypes
         /\ \A i \in Instant : /\ Dispatched(due)[i].created = job[i].created
                               /\ Dispatched(due)[i] = NoJob <=> job[i] = NoJob
<1>1. /\ job \in JobTypes /\ pending[due].instant \in Instant
      /\ job[pending[due].instant] # NoJob /\ job[pending[due].instant].created \in Instant
  BY DEF SchedulesInv, SchedulesTypeOK, PendingOK, JobsOK, JobTypes
<1> DEFINE k == pending[due].instant
<1>2. [job EXCEPT ![k].sent = TRUE] \in JobTypes
  BY <1>1 DEF JobTypes
<1>3. \A i \in Instant : [job EXCEPT ![k].sent = TRUE][i].created = job[i].created
  BY <1>1 DEF JobTypes
<1>4. \A i \in Instant : [job EXCEPT ![k].sent = TRUE][i] = NoJob <=> job[i] = NoJob
  <2>1. NoJob.created = None /\ None \notin Instant
    BY DEF NoJob, None, Instant
  <2>2. QED
    BY <1>1, <1>3, <2>1 DEF JobTypes
<1>5. QED
  BY <1>1, <1>2, <1>3, <1>4 DEF Dispatched

LEMMA TickEndsStep ==
  ASSUME SchedulesInv, NEW due \in Instant, TickEnds(due)
  PROVE  SchedulesInv' /\ MintsNow
<1>1. SchedulesTypeOK /\ PendingOK /\ TicksOK
  BY DEF SchedulesInv
<1>2. /\ pending[due] # NoAction /\ job' = Dispatched(due)
      /\ pending' = [pending EXCEPT ![due] = NoAction] /\ ticks' = ticks \ {due}
      /\ clock' = clock /\ row' = row /\ beat' = beat /\ crashes' = crashes
      /\ patch' = patch /\ delete' = delete /\ doomed' = doomed /\ patches' = patches
  BY DEF TickEnds, operatorVars
<1>3. /\ job' \in JobTypes /\ \A i \in Instant : job'[i].created = job[i].created
      /\ \A i \in Instant : job'[i] = NoJob <=> job[i] = NoJob
  <2>1. /\ Dispatched(due) \in JobTypes
        /\ \A i \in Instant : /\ Dispatched(due)[i].created = job[i].created
                              /\ Dispatched(due)[i] = NoJob <=> job[i] = NoJob
    BY <1>2, DispatchedFacts
  <2>2. QED
    BY <1>2, <2>1
<1>4. /\ JobsOK' /\ RecordOK(row)' /\ RecordOK(patch)' /\ MintsNow
      /\ row' \in Row /\ patch' \in Row /\ row'.last <= clock'
  BY <1>2, <1>3, QuietStep
<1>5. SchedulesTypeOK'
  BY <1>1, <1>2, <1>3, <1>4 DEF SchedulesTypeOK, NoAction, JobTypes
<1>6. PendingOK' /\ TicksOK'
  BY <1>1, <1>2, <1>3 DEF PendingOK, TicksOK, SchedulesTypeOK
<1>7. QED
  BY <1>4, <1>5, <1>6 DEF SchedulesInv

LEMMA TickCrashesStep ==
  ASSUME SchedulesInv, NEW due \in Instant, TickCrashes(due)
  PROVE  SchedulesInv' /\ MintsNow
<1>1. SchedulesTypeOK /\ PendingOK /\ TicksOK
  BY DEF SchedulesInv
<1>2. /\ pending[due] # NoAction /\ job' \in {job, Dispatched(due)}
      /\ pending' = [pending EXCEPT ![due] = NoAction] /\ ticks' = ticks
      /\ clock' = clock /\ row' = row /\ beat' = beat /\ crashes' = crashes + 1 /\ crashes < MaxCrashes
      /\ patch' = patch /\ delete' = delete /\ doomed' = doomed /\ patches' = patches
  BY DEF TickCrashes, operatorVars
<1>3. /\ job' \in JobTypes /\ \A i \in Instant : job'[i].created = job[i].created
      /\ \A i \in Instant : job'[i] = NoJob <=> job[i] = NoJob
  <2>1. /\ Dispatched(due) \in JobTypes
        /\ \A i \in Instant : /\ Dispatched(due)[i].created = job[i].created
                              /\ Dispatched(due)[i] = NoJob <=> job[i] = NoJob
    BY <1>2, DispatchedFacts
  <2>2. job \in JobTypes
    BY <1>1 DEF SchedulesTypeOK, JobTypes
  <2>3. QED
    BY <1>2, <2>1, <2>2
<1>4. /\ JobsOK' /\ RecordOK(row)' /\ RecordOK(patch)' /\ MintsNow
      /\ row' \in Row /\ patch' \in Row /\ row'.last <= clock'
  BY <1>2, <1>3, QuietStep
<1>5. crashes' \in 0..MaxCrashes
  BY <1>1, <1>2, Numbers DEF SchedulesTypeOK
<1>6. SchedulesTypeOK'
  BY <1>1, <1>2, <1>3, <1>4, <1>5 DEF SchedulesTypeOK, NoAction, JobTypes
<1>7. PendingOK' /\ TicksOK'
  BY <1>1, <1>2, <1>3 DEF PendingOK, TicksOK, SchedulesTypeOK
<1>8. QED
  BY <1>4, <1>6, <1>7 DEF SchedulesInv

\* The tick task decides.
LEMMA DecisionStep ==
  ASSUME SchedulesInv, NEW due \in Instant,
         \/ TickOfDeletedRow(due) \/ TickOfInterval(due) \/ TickOfSlot(due)
         \/ TickOfReplacedCommitment(due) \/ TickOfStaleSlot(due)
  PROVE  SchedulesInv' /\ MintsNow
<1>1. SchedulesTypeOK /\ PendingOK /\ TicksOK
  BY DEF SchedulesInv
<1>2. /\ row \in Row /\ NoRow \in Row /\ row.enabled \in BOOLEAN /\ row.last \in Int /\ None <= row.last
      /\ Undecided(due) => due <= clock
  BY <1>1, Numbers DEF SchedulesTypeOK, Row, NoRow, None, TicksOK, Undecided, Instant
<1>11. PICK r \in Row, paused \in BOOLEAN, now \in Instant :
         r = row /\ paused = ~row.enabled /\ now = clock
  BY <1>1, <1>2 DEF SchedulesTypeOK
<1>3. CASE TickOfDeletedRow(due)
  <2>1. Undecided(due) /\ row = NoRow /\ Mint(due, due, NoRow, TRUE) /\ NoRow.cadence # "cron"
    BY <1>3 DEF TickOfDeletedRow, Exists, NoRow
  <2>2. due <= clock
    BY <1>2, <2>1
  <2>3. QED
    BY <1>2, <2>1, <2>2, MintStep
<1>4. CASE TickOfInterval(due)
  <2>1. Undecided(due) /\ r.cadence # "cron" /\ Mint(due, due, r, paused)
    BY <1>4, <1>11 DEF TickOfInterval, Mint
  <2>2. due <= clock
    BY <1>2, <2>1
  <2>3. QED
    BY <1>11, <2>1, <2>2, MintStep
<1>5. /\ clock \in Instant /\ clock \in Nat /\ None < clock /\ due # None
      /\ CurrentSlot(row) = clock \/ CurrentSlot(row) = None
  BY <1>1, Numbers DEF SchedulesTypeOK, CurrentSlot, Instant, None
<1>6. CASE TickOfSlot(due)
  <2>1. Undecided(due) /\ due = clock /\ Mint(due, due, r, paused)
    BY <1>5, <1>6, <1>11 DEF TickOfSlot, SlotIsDue, Mint
  <2>2. due <= clock
    BY <1>2, <2>1
  <2>3. QED
    BY <1>11, <2>1, <2>2, MintStep
<1>7. ASSUME Acknowledge(due), UNCHANGED <<clock, beat, job, operatorVars, crashes>>,
             row' \in Row, row'.last <= clock, RecordOK(row)'
      PROVE  SchedulesInv' /\ MintsNow
  <2>1. /\ ticks' = ticks \ {due} /\ pending' = pending
        /\ clock' = clock /\ beat' = beat /\ job' = job /\ crashes' = crashes
        /\ patch' = patch /\ delete' = delete /\ doomed' = doomed /\ patches' = patches
    BY <1>7 DEF Acknowledge, operatorVars
  <2>2. SchedulesTypeOK' /\ TicksOK'
    BY <1>1, <1>7, <2>1 DEF SchedulesTypeOK, TicksOK
  <2>3. JobsOK' /\ PendingOK' /\ RecordOK(patch)' /\ MintsNow
    BY <2>1 DEF SchedulesInv, JobsOK, PendingOK, RecordOK, Legal, MintsNow, Minted
  <2>4. QED
    BY <1>7, <2>2, <2>3 DEF SchedulesInv
<1>8. CASE TickOfReplacedCommitment(due)
  <2>1. row' = row /\ job' = job /\ clock' = clock
    BY <1>8 DEF TickOfReplacedCommitment
  <2>2. RecordOK(row)'
    BY <2>1 DEF SchedulesInv, RecordOK, Legal
  <2>3. QED
    BY <1>1, <1>7, <1>8, <2>1, <2>2 DEF TickOfReplacedCommitment, SchedulesTypeOK
<1>9. CASE TickOfStaleSlot(due)
  <2> DEFINE n == CronPoint(row.start, clock)
             moved == IF row.enabled THEN [row EXCEPT !.next = n] ELSE row
  <2>1. CASE row.enabled /\ CurrentSlot(row) > row.last
    <3>1. CurrentSlot(row) = clock
      BY <1>2, <1>5, <2>1 DEF None
    <3>2. Mint(due, now, r, FALSE)
      BY <1>9, <1>11, <2>1, <3>1 DEF TickOfStaleSlot, Mint
    <3>3. Undecided(due) /\ now <= clock
      BY <1>5, <1>9, <1>11 DEF TickOfStaleSlot
    <3>4. QED
      BY <1>11, <3>2, <3>3, MintStep
  <2>2. CASE ~(row.enabled /\ CurrentSlot(row) > row.last)
    <3>1. /\ row' = moved /\ Acknowledge(due) /\ UNCHANGED <<clock, beat, job, operatorVars, crashes>>
          /\ row.cadence = "cron"
      BY <1>9, <2>2 DEF TickOfStaleSlot
    <3>2. row.start \in Nat \cup {None}
      BY <1>2, Numbers DEF Row
    <3>3. n \in Nat /\ row.start <= n /\ n % CronStep = 0
      BY <3>2, Numbers, CronPointIsSlot
    <3> HIDE DEF n
    <3>4. /\ moved \in Row /\ moved.last = row.last /\ moved.cadence = "cron"
          /\ moved.start = row.start /\ moved.enabled = row.enabled
          /\ moved.next = IF row.enabled THEN n ELSE row.next
      BY <1>2, <3>1, <3>3 DEF Row
    <3>5. RecordOK(row)'
      <4>1. row' = moved /\ job' = job /\ clock' = clock
        BY <3>1
      <4>2. (Legal(row)' /\ row'.next # None) \/ ~row'.enabled
        BY <3>3, <3>4, <4>1 DEF Legal, None
      <4>3. QED
        BY <3>4, <4>1, <4>2 DEF SchedulesInv, RecordOK
    <3>6. QED
      BY <1>1, <1>7, <3>1, <3>4, <3>5 DEF SchedulesTypeOK
  <2>3. QED
    BY <2>1, <2>2
<1>10. QED
  BY <1>3, <1>4, <1>6, <1>8, <1>9

LEMMA ClockStep == ASSUME SchedulesInv, ClockTicks PROVE SchedulesInv' /\ MintsNow
<1>1. SchedulesTypeOK /\ JobsOK /\ PendingOK /\ TicksOK /\ RecordOK(row) /\ RecordOK(patch)
  BY DEF SchedulesInv
<1>2. /\ clock < Horizon /\ clock' = clock + 1
      /\ row' = row /\ beat' = beat /\ ticks' = ticks /\ job' = job /\ pending' = pending
      /\ crashes' = crashes /\ patch' = patch /\ delete' = delete /\ doomed' = doomed
      /\ patches' = patches
  BY DEF ClockTicks, operatorVars
<1>3. /\ clock \in Nat /\ clock' \in Instant /\ clock' \in Int /\ clock <= clock' /\ row.last \in Int
      /\ \A i \in Instant : i \in Nat
  BY <1>1, <1>2, Numbers DEF Instant, SchedulesTypeOK, Row, None
<1>4. row \in Row /\ patch \in Row /\ JobsKept
  BY <1>1, <1>2 DEF SchedulesTypeOK, JobsKept
<1>5. RecordOK(row)' /\ RecordOK(patch)'
  <2>1. PICK r \in Row, p \in Row : r = row /\ p = patch
    BY <1>4
  <2>2. RecordOK(r)' /\ RecordOK(p)'
    BY <1>1, <1>3, <1>4, <2>1, RecordsStay
  <2>3. QED
    BY <1>2, <2>1, <2>2 DEF RecordOK, Legal
<1>6. row.last <= clock'
  BY <1>1, <1>2, <1>3 DEF SchedulesTypeOK
<1>7. SchedulesTypeOK'
  BY <1>1, <1>2, <1>3, <1>6 DEF SchedulesTypeOK
<1>8. JobsOK'
  BY <1>1, <1>2, <1>3 DEF JobsOK
<1>9. TicksOK'
  BY <1>1, <1>2, <1>3 DEF TicksOK, SchedulesTypeOK
<1>10. PendingOK' /\ MintsNow
  BY <1>1, <1>2 DEF PendingOK, MintsNow, Minted
<1>11. QED
  BY <1>5, <1>7, <1>8, <1>9, <1>10 DEF SchedulesInv

LEMMA BeatStep == ASSUME SchedulesInv, BeatSync \/ BeatSends PROVE SchedulesInv' /\ MintsNow
<1>1. SchedulesTypeOK /\ JobsOK /\ PendingOK /\ TicksOK /\ RecordOK(row) /\ RecordOK(patch)
  BY DEF SchedulesInv
<1>2. /\ beat' \in {beat, row.next}
      /\ \/ ticks' = ticks
         \/ ticks' = ticks \cup {beat} /\ beat # None /\ beat <= clock
      /\ clock' = clock /\ row' = row /\ job' = job /\ pending' = pending
      /\ crashes' = crashes /\ patch' = patch /\ delete' = delete /\ doomed' = doomed
      /\ patches' = patches
  BY DEF BeatSync, BeatSends, operatorVars
<1>3. beat # None /\ beat <= clock => beat \in Instant
  BY <1>1, Numbers DEF SchedulesTypeOK, Instant
<1>4. SchedulesTypeOK' /\ TicksOK'
  BY <1>1, <1>2, <1>3 DEF SchedulesTypeOK, TicksOK, Row
<1>5. JobsOK' /\ PendingOK' /\ RecordOK(row)' /\ RecordOK(patch)' /\ MintsNow
  BY <1>1, <1>2 DEF JobsOK, PendingOK, RecordOK, Legal, MintsNow, Minted
<1>6. QED
  BY <1>4, <1>5 DEF SchedulesInv

\* A Job runs, ends or is cancelled by DELETE; PATCH reads; DELETE lists.
LEMMA JobStep ==
  ASSUME SchedulesInv, NEW i \in Instant,
         JobStarts(i) \/ JobEnds(i) \/ DeleteCancels(i) \/ PatchReads \/ DeleteLists
  PROVE  SchedulesInv' /\ MintsNow
<1>1. SchedulesTypeOK /\ JobsOK /\ PendingOK /\ TicksOK /\ RecordOK(row) /\ RecordOK(patch)
  BY DEF SchedulesInv
<1>2. /\ \/ job' = [job EXCEPT ![i].status = "running"] /\ job[i].status = "queued"
         \/ job' = [job EXCEPT ![i].status = "ended"] /\ job[i].status = "running"
         \/ job' = [job EXCEPT ![i].status = IF @ \in Unfinished THEN "cancelled" ELSE @]
         \/ job' = job
      /\ patch' \in {patch, row}
      /\ \/ patches' = patches
         \/ patches' = patches + 1 /\ patches < MaxPatches
      /\ delete' \in {delete, "cancelling"} /\ doomed' \subseteq Instant
      /\ clock' = clock /\ row' = row /\ beat' = beat /\ ticks' = ticks /\ pending' = pending
      /\ crashes' = crashes
  BY <1>1 DEF JobStarts, JobEnds, DeleteCancels, PatchReads, DeleteLists, operatorVars, SchedulesTypeOK
<1>3. job \in JobTypes /\ job' \in JobTypes
  BY <1>1, <1>2 DEF SchedulesTypeOK, JobTypes, Unfinished
<1>4. \A k \in Instant : job'[k].created = job[k].created
  BY <1>2, <1>3 DEF JobTypes
<1>5. \A k \in Instant : job'[k] = NoJob <=> job[k] = NoJob
  <2>1. \A k \in Instant : k # i => job'[k] = job[k]
    BY <1>2, <1>3 DEF JobTypes
  <2>2. CASE job[i].status \in Unfinished
    BY <1>2, <1>3, <2>1, <2>2 DEF JobTypes, NoJob, Unfinished
  <2>3. CASE job[i].status \notin Unfinished
    BY <1>2, <1>3, <2>1, <2>3 DEF JobTypes, NoJob, Unfinished
  <2>4. QED
    BY <2>2, <2>3
<1>6. /\ JobsOK' /\ RecordOK(row)' /\ RecordOK(patch)' /\ MintsNow
      /\ row' \in Row /\ patch' \in Row /\ row'.last <= clock'
  BY <1>2, <1>3, <1>4, <1>5, QuietStep
<1>7. patches' \in 0..MaxPatches
  BY <1>1, <1>2, Numbers DEF SchedulesTypeOK
<1>8. SchedulesTypeOK' /\ TicksOK' /\ PendingOK'
  BY <1>1, <1>2, <1>3, <1>5, <1>6, <1>7 DEF SchedulesTypeOK, TicksOK, PendingOK, JobTypes
<1>9. QED
  BY <1>6, <1>8 DEF SchedulesInv

\* A PATCH puts back the cursor it read, whatever was minted meanwhile, and a
\* commitment of its own cadence.
LEMMA PatchWritesStep == ASSUME SchedulesInv, PatchWrites PROVE SchedulesInv' /\ MintsNow
<1>1. SchedulesTypeOK /\ JobsOK /\ PendingOK /\ TicksOK /\ RecordOK(patch)
  BY DEF SchedulesInv
<1>2. /\ patch' = NoRow /\ clock' = clock /\ beat' = beat /\ ticks' = ticks /\ job' = job
      /\ pending' = pending /\ delete' = delete /\ doomed' = doomed /\ patches' = patches
      /\ crashes' = crashes
  BY DEF PatchWrites
<1>3. PICK enabled \in BOOLEAN, named \in BOOLEAN, cadence \in {"interval", "cron"},
           start \in Start \cup {None} :
        /\ ~named => cadence = patch.cadence /\ start = patch.start
        /\ row' = Patched(patch, enabled, cadence, start, named)
  BY DEF PatchWrites
<1>4. PICK p \in Row : p = patch
  BY <1>1 DEF SchedulesTypeOK
<1> DEFINE n == NextRun(cadence, start, clock)
           anew == [p EXCEPT !.enabled = enabled, !.cadence = cadence, !.start = start, !.next = n]
<1>5. /\ anew.cadence = cadence /\ anew.start = start /\ anew.next = n
      /\ start \in Nat \cup {None} /\ clock \in Nat
  BY Numbers DEF Row
<1>6. n \in Nat /\ Legal(anew)
  <2>1. PICK now \in Nat : now = clock
    BY <1>5
  <2>2. PICK m : m = NextRun(cadence, start, now)
    OBVIOUS
  <2>3. PICK r : r = [p EXCEPT !.enabled = enabled, !.cadence = cadence, !.start = start, !.next = m]
    OBVIOUS
  <2>4. r.cadence = cadence /\ r.start = start /\ r.next = m
    BY <2>3 DEF Row
  <2>5. m \in Nat /\ Legal(r)
    BY <2>1, <2>2, <2>4, <1>5, NextRunIsLegal
  <2>6. QED
    BY <2>1, <2>2, <2>3, <2>5
<1>7. row' = [p EXCEPT !.enabled = enabled, !.cadence = cadence, !.start = start,
                       !.next = CASE ~enabled -> None
                                  [] enabled /\ (named \/ ~p.enabled) -> n
                                  [] OTHER -> p.next]
  BY <1>3, <1>4 DEF Patched
<1> HIDE DEF n
<1>8. row' \in Row /\ row'.last = p.last /\ row'.enabled = enabled
  BY <1>6, <1>7 DEF Row
<1>9. p.last <= clock /\ (p.last # None => \E i \in Instant : job[i].created = p.last)
  BY <1>1, <1>4 DEF RecordOK
<1>10. IF row'.enabled THEN row'.next # None /\ Legal(row') ELSE row'.next = None
  <2>1. CASE ~enabled
    BY <1>7, <1>8, <2>1 DEF Row
  <2>2. CASE enabled /\ (named \/ ~p.enabled)
    <3>1. row' = anew
      BY <1>7, <2>2
    <3>2. QED
      BY <1>5, <1>6, <1>8, <2>2, <3>1 DEF None
  <2>3. CASE enabled /\ ~(named \/ ~p.enabled)
    <3>1. row'.next = p.next /\ row'.cadence = p.cadence /\ row'.start = p.start
      BY <1>3, <1>4, <1>7, <2>3 DEF Row
    <3>2. p.next # None /\ Legal(p)
      BY <1>1, <1>4, <2>3 DEF RecordOK
    <3>3. QED
      BY <1>8, <2>3, <3>1, <3>2 DEF Legal
  <2>4. QED
    BY <2>1, <2>2, <2>3
<1>11. RecordOK(row)'
  BY <1>2, <1>8, <1>9, <1>10 DEF RecordOK, Legal
<1>12. RecordOK(patch)' /\ patch' \in Row
  BY <1>2, Numbers DEF RecordOK, NoRow, None, Row
<1>13. SchedulesTypeOK'
  BY <1>1, <1>2, <1>8, <1>9, <1>12 DEF SchedulesTypeOK
<1>14. JobsOK' /\ PendingOK' /\ TicksOK' /\ MintsNow
  BY <1>1, <1>2 DEF JobsOK, PendingOK, TicksOK, MintsNow, Minted
<1>15. QED
  BY <1>11, <1>12, <1>13, <1>14 DEF SchedulesInv

LEMMA DeleteRowStep == ASSUME SchedulesInv, DeleteRow PROVE SchedulesInv' /\ MintsNow
<1>1. SchedulesTypeOK /\ JobsOK /\ PendingOK /\ TicksOK /\ RecordOK(patch)
  BY DEF SchedulesInv
<1>2. /\ row' = NoRow /\ patch' = patch /\ clock' = clock /\ beat' = beat /\ ticks' = ticks
      /\ job' = job /\ pending' = pending /\ delete' = "idle" /\ doomed' = doomed
      /\ patches' = patches /\ crashes' = crashes
  BY DEF DeleteRow
<1>3. RecordOK(row)' /\ row' \in Row /\ row'.last <= clock'
  BY <1>2, Numbers DEF RecordOK, NoRow, None, Row
<1>4. SchedulesTypeOK'
  BY <1>1, <1>2, <1>3 DEF SchedulesTypeOK
<1>5. JobsOK' /\ PendingOK' /\ TicksOK' /\ RecordOK(patch)' /\ MintsNow
  BY <1>1, <1>2 DEF JobsOK, PendingOK, TicksOK, RecordOK, Legal, MintsNow, Minted
<1>6. QED
  BY <1>3, <1>4, <1>5 DEF SchedulesInv

LEMMA SchedulesStep ==
  ASSUME SchedulesInv, [SchedulesNext]_scheduleVars
  PROVE  SchedulesInv' /\ MintsNow
<1>1. CASE UNCHANGED scheduleVars
  <2>1. /\ row' = row /\ patch' = patch /\ clock' = clock /\ beat' = beat /\ ticks' = ticks
        /\ job' = job /\ pending' = pending /\ delete' = delete /\ doomed' = doomed
        /\ patches' = patches /\ crashes' = crashes
    BY <1>1 DEF scheduleVars
  <2>2. SchedulesTypeOK' /\ RecordOK(row)' /\ RecordOK(patch)'
    BY <2>1 DEF SchedulesInv, SchedulesTypeOK, RecordOK, Legal
  <2>3. JobsOK' /\ PendingOK' /\ TicksOK' /\ MintsNow
    BY <2>1 DEF SchedulesInv, JobsOK, PendingOK, TicksOK, MintsNow, Minted
  <2>4. QED
    BY <2>2, <2>3 DEF SchedulesInv
<1>2. ASSUME NEW i \in Instant,
             TickTask(i) \/ TickCrashes(i) \/ JobStarts(i) \/ JobEnds(i) \/ DeleteCancels(i)
      PROVE  SchedulesInv' /\ MintsNow
  <2>1. CASE TickTask(i)
    BY <2>1, DecisionStep, TickEndsStep DEF TickTask
  <2>2. QED
    BY <1>2, <2>1, TickCrashesStep, JobStep
<1>3. CASE PatchReads \/ DeleteLists
  <2>1. 0 \in Instant
    BY Numbers DEF Instant
  <2>2. QED
    BY <1>3, <2>1, JobStep
<1>4. CASE ClockTicks
  BY <1>4, ClockStep
<1>5. CASE BeatSync \/ BeatSends
  BY <1>5, BeatStep
<1>6. CASE PatchWrites
  BY <1>6, PatchWritesStep
<1>7. CASE DeleteRow
  BY <1>7, DeleteRowStep
<1>8. QED
  BY <1>1, <1>2, <1>3, <1>4, <1>5, <1>6, <1>7 DEF SchedulesNext

-----------------------------------------------------------------------------
(* Theorems *)

LEMMA SchedulesInvHolds == SchedulesSpec => []SchedulesInv
<1>1. SchedulesInit => SchedulesInv
  BY SchedulesInitInv
<1>2. SchedulesInv /\ [SchedulesNext]_scheduleVars => SchedulesInv'
  BY SchedulesStep
<1>3. QED
  BY <1>1, <1>2, PTL DEF SchedulesSpec

\* For every interval, cron step, horizon and number of PATCHes and crashes: an
\* enabled row commits to an Instant of its own cadence and a paused one to none,
\* and last_run_at is the creation of a Job that exists.
THEOREM CommitmentsAreKept == SchedulesSpec => []CommitmentsHold
<1>1. SchedulesInv => CommitmentsHold
  BY DEF SchedulesInv, RecordOK, CommitmentsHold, CommitmentIsLegal, ConsumedTickHasJob
<1>2. QED
  BY <1>1, SchedulesInvHolds, PTL

\* A Job of a cron schedule is minted in the minute of its slot and in no later
\* one, whichever Instant was delivered how late and how often.
THEOREM SlotsAreNotCaughtUp == SchedulesSpec => MissedSlotsAreSkipped
<1>1. SchedulesInv /\ [SchedulesNext]_scheduleVars => [MintsNow]_scheduleVars
  BY SchedulesStep
<1>2. SchedulesSpec => [][MintsNow]_scheduleVars
  BY <1>1, SchedulesInvHolds, PTL DEF SchedulesSpec
<1>3. QED
  BY <1>2 DEF MissedSlotsAreSkipped, MintsNow

\* Clock, row, PATCH, ticks and Jobs have their types, and last_run_at is never in the
\* future.
THEOREM ScheduleIsTyped == SchedulesSpec => []SchedulesTypeOK
BY SchedulesInvHolds, PTL DEF SchedulesInv

-----------------------------------------------------------------------------
(* The catalog *)

ObjectType == Views \cup {"table"}
CatalogRow == [id : Name \X ObjectType \X Nat, name : Name, type : ObjectType, present : BOOLEAN,
               sem : Nat, cols : SUBSET [name : STRING, present : BOOLEAN], fks : SUBSET ForeignKey]

\* Rows have an identity each, and their ids are from the one they began with.
RowsFit(R) ==
  /\ R \subseteq CatalogRow /\ IsFiniteSet(R)
  /\ \A r \in R : SameIdentity([name |-> r.id[1], type |-> r.id[2]], r)
  /\ \A r, s \in R : SameIdentity(r, s) => r = s

\* What was collected: objects with an identity each, within the scope.
Collected(snap, reach) ==
  /\ snap \subseteq SourceObject /\ IsFiniteSet(snap) /\ \A o \in snap : o.name \in reach
  /\ \A o, p \in snap : SameIdentity(o, p) => o = p

ShownIn(R, reach) == {Shown(r) : r \in {s \in R : s.present /\ s.name \in reach}}
Erased(R) == {[r EXCEPT !.sem = 0] : r \in R}

\* A plan that waits for its commit.
PlanFits(q) ==
  /\ RowsFit(q.rows) /\ ShownIn(q.rows, q.reach) = q.snap
  /\ \A c \in catalog : \E r \in q.rows : r.id = c.id
  /\ Erased(Merged(catalog, q.snap, q.reach)) = Erased(q.rows)

AtWork == {"start", "collect", "collected", "baseline", "commit", "stamp"}
Refreshes(j) == JobKind[j] = "structure"
ChildrenFit ==
  /\ DOMAIN child = SourceJob
  /\ \A j \in SourceJob :
       /\ DOMAIN child[j] = {"at", "snap", "reach", "rows", "pairs"}
       /\ Refreshes(j) /\ child[j].at \in {"collected", "baseline", "commit"} =>
            Collected(child[j].snap, child[j].reach)
       /\ Refreshes(j) /\ child[j].at = "commit" => PlanFits(child[j])
LocksFit ==
  /\ DOMAIN locks = Kind
  /\ \A j \in SourceJob : child[j].at \in AtWork => locks[JobKind[j]] = j
CatalogFits == RowsFit(catalog) /\ ShownIn(catalog, last.reach) = last.snap

StructureInv ==
  /\ remote \in Snapshot /\ human \in Nat
  /\ CatalogFits /\ LocksFit /\ ChildrenFit

LEMMA FiniteImage ==
  ASSUME NEW S, IsFiniteSet(S), NEW f, f = [x \in S |-> f[x]]
  PROVE  IsFiniteSet({f[x] : x \in S})
<1>1. f \in Surjection(S, {f[x] : x \in S})
  BY DEF Surjection
<1>2. QED
  BY <1>1, FS_Surjection

LEMMA IdentityIsKinship ==
  /\ \A o : SameIdentity(o, o)
  /\ \A o, p : SameIdentity(o, p) => SameIdentity(p, o)
  /\ \A o, p, q : SameIdentity(o, p) /\ SameIdentity(p, q) => SameIdentity(o, q)
BY DEF SameIdentity

\* Where identities are unique, the exact key is no other row's.
LEMMA Matching ==
  ASSUME NEW R, RowsFit(R), NEW o, NEW r
  PROVE  r \in Match(R, o) <=> r \in R /\ SameIdentity(o, r)
<1>1. \A x \in R : x.name = o.name /\ x.type = o.type => SameIdentity(o, x)
  BY DEF SameIdentity
<1>2. \A x, y \in R : SameIdentity(o, x) /\ SameIdentity(o, y) => x = y
  BY IdentityIsKinship DEF RowsFit
<1>3. QED
  BY <1>1, <1>2 DEF Match

Rewritten(R, snap, reach, r) ==
  IF \E o \in snap : r \in Match(R, o)
  THEN Updated(r, CHOOSE o \in snap : r \in Match(R, o))
  ELSE IF r.name \in reach /\ ~\E o \in snap : SameIdentity(o, r) THEN Retired(r) ELSE r
NewObjects(R, snap) == {o \in snap : \A r \in R : ~SameIdentity(o, r)}

LEMMA MergedRows ==
  ASSUME NEW R, NEW snap, NEW reach, RowsFit(R)
  PROVE  Merged(R, snap, reach) = {Rewritten(R, snap, reach, r) : r \in R}
                                    \cup {Inserted(o, NewId(R, o)) : o \in NewObjects(R, snap)}
<1>1. {x \in snap : Match(R, x) = {}} = NewObjects(R, snap)
  BY Matching DEF NewObjects
<1>2. QED
  BY <1>1 DEF Merged, Rewritten

LEMMA RewrittenRow ==
  ASSUME NEW R, NEW snap, NEW reach, RowsFit(R), Collected(snap, reach), NEW r \in R
  PROVE  /\ \A o \in snap : SameIdentity(o, r) => Rewritten(R, snap, reach, r) = Updated(r, o)
         /\ (\A o \in snap : ~SameIdentity(o, r)) =>
              Rewritten(R, snap, reach, r) = IF r.name \in reach THEN Retired(r) ELSE r
<1>1. \A o \in snap : r \in Match(R, o) <=> SameIdentity(o, r)
  BY Matching
<1>2. ASSUME NEW o \in snap, SameIdentity(o, r)
      PROVE  Rewritten(R, snap, reach, r) = Updated(r, o)
  <2>1. \A p \in snap : r \in Match(R, p) => p = o
    BY <1>1, <1>2, IdentityIsKinship DEF Collected
  <2>2. r \in Match(R, o)
    BY <1>1, <1>2
  <2>3. (CHOOSE p \in snap : r \in Match(R, p)) = o
    BY <2>1, <2>2
  <2>4. QED
    BY <2>2, <2>3 DEF Rewritten
<1>3. QED
  BY <1>1, <1>2 DEF Rewritten

LEMMA ColumnsOfNames ==
  ASSUME NEW cols \in SUBSET [name : STRING, present : BOOLEAN], NEW names \in SUBSET STRING
  PROVE  /\ MergedColumns(cols, names) \in SUBSET [name : STRING, present : BOOLEAN]
         /\ {c.name : c \in {d \in MergedColumns(cols, names) : d.present}} = names
         /\ Absent(cols) \in SUBSET [name : STRING, present : BOOLEAN]
<1>1. \A c \in cols : /\ [c EXCEPT !.present = FALSE] \in [name : STRING, present : BOOLEAN]
                      /\ ~[c EXCEPT !.present = FALSE].present
  OBVIOUS
<1>2. \A n \in names : [name |-> n, present |-> TRUE] \in [name : STRING, present : BOOLEAN]
  OBVIOUS
<1>3. {c.name : c \in {d \in MergedColumns(cols, names) : d.present}} = names
  <2>1. \A d \in MergedColumns(cols, names) : d.present =>
          \E n \in names : d = [name |-> n, present |-> TRUE]
    BY <1>1 DEF MergedColumns, Absent
  <2>2. \A n \in names : /\ [name |-> n, present |-> TRUE] \in MergedColumns(cols, names)
                         /\ [name |-> n, present |-> TRUE].present
                         /\ [name |-> n, present |-> TRUE].name = n
    BY DEF MergedColumns
  <2>3. PICK merged : merged = MergedColumns(cols, names)
    OBVIOUS
  <2>4. ASSUME NEW c \in {d \in merged : d.present} PROVE c.name \in names
    BY <2>1, <2>3
  <2>5. ASSUME NEW n \in names PROVE \E c \in {d \in merged : d.present} : c.name = n
    BY <2>2, <2>3
  <2>6. {c.name : c \in {d \in merged : d.present}} = names
    BY <2>4, <2>5
  <2>7. QED
    BY <2>3, <2>6
<1>4. QED
  BY <1>1, <1>2, <1>3 DEF MergedColumns, Absent

\* What an update, a retirement and an insertion make of a row.
LEMMA UpdatedRow ==
  ASSUME NEW r \in CatalogRow, NEW o \in SourceObject, SameIdentity(o, r)
  PROVE  /\ Updated(r, o) \in CatalogRow /\ Shown(Updated(r, o)) = o
         /\ Updated(r, o).id = r.id /\ Updated(r, o).sem = r.sem /\ Updated(r, o).present
         /\ SameIdentity(r, Updated(r, o)) /\ Updated(r, o).name = r.name
         /\ Updated(r, o).type = o.type /\ Updated(r, o).fks = o.fks
         /\ Updated(r, o).cols = MergedColumns(r.cols, o.cols)
<1>1. /\ MergedColumns(r.cols, o.cols) \in SUBSET [name : STRING, present : BOOLEAN]
      /\ {c.name : c \in {d \in MergedColumns(r.cols, o.cols) : d.present}} = o.cols
  BY ColumnsOfNames DEF CatalogRow, SourceObject
<1>2. PICK k : k = MergedColumns(r.cols, o.cols)
  OBVIOUS
<1>3. o.type \in ObjectType /\ o.fks \in SUBSET ForeignKey
  BY DEF SourceObject, ObjectType
<1>4. PICK u : u = Updated(r, o)
  OBVIOUS
<1>5. u = [r EXCEPT !.type = o.type, !.present = TRUE, !.fks = o.fks, !.cols = k]
  BY <1>2, <1>4 DEF Updated
<1>6. /\ u \in CatalogRow /\ u.id = r.id /\ u.sem = r.sem /\ u.present /\ u.name = r.name
      /\ u.type = o.type /\ u.fks = o.fks /\ u.cols = k
  BY <1>1, <1>2, <1>3, <1>5 DEF CatalogRow
<1>7. Shown(u) = o
  BY <1>1, <1>2, <1>6 DEF Shown, SourceObject, SameIdentity
<1>8. SameIdentity(r, u)
  BY <1>6 DEF SameIdentity
<1>9. QED
  BY <1>2, <1>4, <1>6, <1>7, <1>8

LEMMA RetiredRow ==
  ASSUME NEW r \in CatalogRow
  PROVE  /\ Retired(r) \in CatalogRow /\ ~Retired(r).present
         /\ Retired(r).id = r.id /\ Retired(r).sem = r.sem
         /\ Retired(r).name = r.name /\ Retired(r).type = r.type
         /\ Retired(r).cols = Absent(r.cols) /\ Retired(r).fks = {}
<1>1. Absent(r.cols) \in SUBSET [name : STRING, present : BOOLEAN]
  BY ColumnsOfNames DEF CatalogRow
<1>2. PICK k : k = Absent(r.cols)
  OBVIOUS
<1>3. Retired(r) = [r EXCEPT !.present = FALSE, !.cols = k, !.fks = {}]
  BY <1>2 DEF Retired
<1>4. QED
  BY <1>1, <1>2, <1>3 DEF CatalogRow

LEMMA InsertedRow ==
  ASSUME NEW R, RowsFit(R), NEW o \in SourceObject
  PROVE  LET m == Inserted(o, NewId(R, o)) IN
         /\ m \in CatalogRow /\ Shown(m) = o /\ m.present /\ SameIdentity(o, m)
         /\ m.id = NewId(R, o) /\ SameIdentity([name |-> m.id[1], type |-> m.id[2]], m)
<1>1. /\ MergedColumns({}, o.cols) \in SUBSET [name : STRING, present : BOOLEAN]
      /\ {c.name : c \in {d \in MergedColumns({}, o.cols) : d.present}} = o.cols
  BY ColumnsOfNames DEF SourceObject
<1>2. PICK k : k = MergedColumns({}, o.cols)
  OBVIOUS
<1>3. PICK n \in Nat : n = Cardinality(R)
  BY FS_CardinalityType DEF RowsFit
<1>4. o.name \in Name /\ o.type \in ObjectType /\ o.fks \in SUBSET ForeignKey
  BY DEF SourceObject, ObjectType
<1>5. NewId(R, o) = <<o.name, o.type, n>>
  BY <1>3 DEF NewId
<1>6. PICK m : m = Inserted(o, NewId(R, o))
  OBVIOUS
<1>7. m = [id |-> <<o.name, o.type, n>>, name |-> o.name, type |-> o.type, present |-> TRUE,
           sem |-> 0, cols |-> k, fks |-> o.fks]
  BY <1>2, <1>5, <1>6 DEF Inserted
<1>8. m \in CatalogRow
  BY <1>1, <1>2, <1>4, <1>7 DEF CatalogRow
<1>9. Shown(m) = o
  BY <1>1, <1>2, <1>7 DEF Shown, SourceObject
<1>10. SameIdentity(o, m) /\ SameIdentity([name |-> m.id[1], type |-> m.id[2]], m)
  BY <1>7 DEF SameIdentity
<1>11. QED
  BY <1>5, <1>6, <1>7, <1>8, <1>9, <1>10

-----------------------------------------------------------------------------
(* The merge *)

LEMMA RewrittenKeepsIdentity ==
  ASSUME NEW R, NEW snap, NEW reach, RowsFit(R), Collected(snap, reach), NEW r \in R
  PROVE  LET m == Rewritten(R, snap, reach, r) IN
         /\ m \in CatalogRow /\ m.id = r.id /\ m.sem = r.sem /\ m.name = r.name
         /\ SameIdentity(r, m)
<1>1. r \in CatalogRow
  BY DEF RowsFit
<1>2. CASE \E o \in snap : SameIdentity(o, r)
  <2>1. PICK o \in snap : SameIdentity(o, r)
    BY <1>2
  <2>2. o \in SourceObject
    BY DEF Collected
  <2>3. Rewritten(R, snap, reach, r) = Updated(r, o)
    BY <2>1, RewrittenRow
  <2>4. QED
    BY <1>1, <2>1, <2>2, <2>3, UpdatedRow
<1>3. CASE \A o \in snap : ~SameIdentity(o, r)
  <2>1. Rewritten(R, snap, reach, r) = IF r.name \in reach THEN Retired(r) ELSE r
    BY <1>3, RewrittenRow
  <2>2. SameIdentity(r, Retired(r))
    BY <1>1, RetiredRow DEF SameIdentity
  <2>3. QED
    BY <1>1, <2>1, <2>2, RetiredRow, IdentityIsKinship
<1>4. QED
  BY <1>2, <1>3

\* A merge keeps the rows it finds, and what it shows in the scope is what was collected.
LEMMA MergeFits ==
  ASSUME NEW R, NEW snap, NEW reach, RowsFit(R), Collected(snap, reach)
  PROVE  /\ RowsFit(Merged(R, snap, reach))
         /\ ShownIn(Merged(R, snap, reach), reach) = snap
         /\ \A r \in R : \E m \in Merged(R, snap, reach) : m.id = r.id
<1> DEFINE old(r) == Rewritten(R, snap, reach, r)
           new(o) == Inserted(o, NewId(R, o))
           kept == {old(r) : r \in R}
           added == {new(o) : o \in NewObjects(R, snap)}
<1>1. PICK M : M = Merged(R, snap, reach)
  OBVIOUS
<1>2. M = kept \cup added
  BY <1>1, MergedRows
<1>3. \A r \in R : /\ old(r) \in CatalogRow /\ old(r).id = r.id /\ old(r).name = r.name
                   /\ SameIdentity(r, old(r))
  BY RewrittenKeepsIdentity
<1>4. snap \subseteq SourceObject /\ IsFiniteSet(snap) /\ NewObjects(R, snap) \subseteq snap
  BY DEF Collected, NewObjects
<1>5. \A o \in NewObjects(R, snap) :
        /\ new(o) \in CatalogRow /\ Shown(new(o)) = o /\ new(o).present
        /\ SameIdentity(o, new(o))
        /\ SameIdentity([name |-> new(o).id[1], type |-> new(o).id[2]], new(o))
  BY <1>4, InsertedRow
<1>6. ASSUME NEW r \in R, NEW o \in NewObjects(R, snap) PROVE ~SameIdentity(old(r), new(o))
  <2>1. ~SameIdentity(o, r)
    BY DEF NewObjects
  <2>2. SameIdentity(r, old(r)) /\ SameIdentity(o, new(o))
    BY <1>3, <1>5
  <2>3. QED
    BY <2>1, <2>2, IdentityIsKinship
<1>7. ASSUME NEW r \in R, NEW s \in R, SameIdentity(old(r), old(s)) PROVE old(r) = old(s)
  <2>1. SameIdentity(r, old(r)) /\ SameIdentity(s, old(s))
    BY <1>3
  <2>2. SameIdentity(r, s)
    BY <1>7, <2>1, IdentityIsKinship
  <2>3. r = s
    BY <2>2 DEF RowsFit
  <2>4. QED
    BY <2>3
<1>8. ASSUME NEW o \in NewObjects(R, snap), NEW p \in NewObjects(R, snap), SameIdentity(new(o), new(p))
      PROVE  new(o) = new(p)
  <2>1. SameIdentity(o, new(o)) /\ SameIdentity(p, new(p))
    BY <1>5
  <2>2. SameIdentity(o, p)
    BY <1>8, <2>1, IdentityIsKinship
  <2>3. o = p
    BY <1>4, <2>2 DEF Collected
  <2>4. QED
    BY <2>3
<1>9. ASSUME NEW r \in R
      PROVE  SameIdentity([name |-> old(r).id[1], type |-> old(r).id[2]], old(r))
  <2>1. SameIdentity([name |-> r.id[1], type |-> r.id[2]], r)
    BY DEF RowsFit
  <2>2. SameIdentity(r, old(r)) /\ old(r).id = r.id
    BY <1>3
  <2>3. SameIdentity([name |-> r.id[1], type |-> r.id[2]], old(r))
    BY <2>1, <2>2, IdentityIsKinship
  <2>4. QED
    BY <2>2, <2>3
<1>10. IsFiniteSet(M)
  <2>1. IsFiniteSet(kept)
    <3>1. PICK f : f = [r \in R |-> old(r)]
      OBVIOUS
    <3>2. kept = {f[r] : r \in R} /\ f = [r \in R |-> f[r]]
      BY <3>1
    <3>3. QED
      BY <3>2, FiniteImage DEF RowsFit
  <2>2. IsFiniteSet(NewObjects(R, snap))
    BY <1>4, FS_Subset
  <2>3. IsFiniteSet(added)
    <3>1. PICK S : S = NewObjects(R, snap)
      OBVIOUS
    <3>2. PICK f : f = [o \in S |-> new(o)]
      OBVIOUS
    <3>3. added = {f[o] : o \in S} /\ f = [o \in S |-> f[o]]
      BY <3>1, <3>2
    <3>4. QED
      BY <2>2, <3>1, <3>3, FiniteImage
  <2>4. QED
    BY <1>2, <2>1, <2>3, FS_Union
<1>11. ASSUME NEW r \in R, old(r).present, old(r).name \in reach PROVE Shown(old(r)) \in snap
  <2>1. old(r).name = r.name /\ r \in CatalogRow
    BY <1>3 DEF RowsFit
  <2>2. PICK o \in snap : SameIdentity(o, r)
    BY <1>11, <2>1, RewrittenRow, RetiredRow
  <2>3. old(r) = Updated(r, o)
    BY <2>2, RewrittenRow
  <2>4. QED
    BY <1>4, <2>1, <2>2, <2>3, UpdatedRow
<1>12. ASSUME NEW o \in snap
       PROVE  \E m \in M : m.present /\ m.name \in reach /\ Shown(m) = o
  <2>1. o \in SourceObject /\ o.name \in reach
    BY <1>4 DEF Collected
  <2>2. CASE o \in NewObjects(R, snap)
    <3>1. new(o).present /\ Shown(new(o)) = o /\ SameIdentity(o, new(o)) /\ new(o) \in M
      BY <1>2, <1>5, <2>2
    <3>2. new(o).name \in reach
      BY <2>1, <3>1 DEF SameIdentity
    <3>3. QED
      BY <3>1, <3>2
  <2>3. CASE o \notin NewObjects(R, snap)
    <3>1. PICK r \in R : SameIdentity(o, r)
      BY <2>3 DEF NewObjects
    <3>2. r \in CatalogRow /\ old(r) = Updated(r, o) /\ r.name \in reach
      BY <2>1, <3>1, RewrittenRow DEF RowsFit, SameIdentity
    <3>3. Shown(old(r)) = o /\ old(r).present /\ old(r).name \in reach
      BY <2>1, <3>1, <3>2, UpdatedRow
    <3>4. QED
      BY <1>2, <3>3
  <2>4. QED
    BY <2>2, <2>3
<1>13. \A m \in M : (\E r \in R : m = old(r)) \/ (\E o \in NewObjects(R, snap) : m = new(o))
  BY <1>2
<1>14. ShownIn(M, reach) = snap
  <2>1. ASSUME NEW m \in M, m.present, m.name \in reach PROVE Shown(m) \in snap
    BY <1>4, <1>5, <1>11, <1>13, <2>1
  <2>2. \A x \in ShownIn(M, reach) : x \in snap
    BY <2>1 DEF ShownIn
  <2>3. \A x \in snap : x \in ShownIn(M, reach)
    BY <1>12 DEF ShownIn
  <2>4. QED
    BY <2>2, <2>3
<1>15. RowsFit(M)
  <2>1. M \subseteq CatalogRow
    BY <1>3, <1>5, <1>13
  <2>2. \A m \in M : SameIdentity([name |-> m.id[1], type |-> m.id[2]], m)
    BY <1>5, <1>9, <1>13
  <2>3. ASSUME NEW m \in M, NEW n \in M, SameIdentity(m, n) PROVE m = n
    <3>1. SameIdentity(n, m)
      BY <2>3, IdentityIsKinship
    <3>2. QED
      BY <1>6, <1>7, <1>8, <1>13, <2>3, <3>1
  <2>4. QED
    BY <1>10, <2>1, <2>2, <2>3 DEF RowsFit
<1>16. \A r \in R : \E m \in M : m.id = r.id
  BY <1>2, <1>3
<1>17. QED
  BY <1>1, <1>14, <1>15, <1>16

LEMMA BlankRow ==
  ASSUME NEW r \in CatalogRow, NEW q \in CatalogRow, r.id = q.id, r.name = q.name,
         r.type = q.type, r.present = q.present, r.cols = q.cols, r.fks = q.fks
  PROVE  [r EXCEPT !.sem = 0] = [q EXCEPT !.sem = 0]
BY DEF CatalogRow

\* Semantics take no part in a merge.
LEMMA MergeLooksAtStructure ==
  ASSUME NEW R, NEW Q, NEW snap, NEW reach, RowsFit(R), RowsFit(Q), Collected(snap, reach),
         Erased(R) = Erased(Q), Cardinality(R) = Cardinality(Q)
  PROVE  Erased(Merged(R, snap, reach)) \subseteq Erased(Merged(Q, snap, reach))
<1> DEFINE blank(r) == [r EXCEPT !.sem = 0]
<1>1. R \subseteq CatalogRow /\ Q \subseteq CatalogRow /\ snap \subseteq SourceObject
  BY DEF RowsFit, Collected
<1>2. \A r \in R : \E q \in Q : blank(r) = blank(q)
  BY DEF Erased
<1>3. \A q \in Q : \E r \in R : blank(r) = blank(q)
  BY DEF Erased
<1>4. ASSUME NEW r \in CatalogRow, NEW q \in CatalogRow, blank(r) = blank(q)
      PROVE  /\ r.id = q.id /\ r.name = q.name /\ r.type = q.type /\ r.present = q.present
             /\ r.cols = q.cols /\ r.fks = q.fks
             /\ \A o : SameIdentity(o, r) <=> SameIdentity(o, q)
  <2>1. \A x \in CatalogRow : /\ blank(x).id = x.id /\ blank(x).name = x.name
                              /\ blank(x).type = x.type /\ blank(x).present = x.present
                              /\ blank(x).cols = x.cols /\ blank(x).fks = x.fks
    BY DEF CatalogRow
  <2>2. /\ r.id = q.id /\ r.name = q.name /\ r.type = q.type /\ r.present = q.present
        /\ r.cols = q.cols /\ r.fks = q.fks
    BY <1>4, <2>1
  <2>3. QED
    BY <2>2 DEF SameIdentity
<1>5. ASSUME NEW r \in R
      PROVE  \E q \in Q : blank(Rewritten(R, snap, reach, r)) = blank(Rewritten(Q, snap, reach, q))
  <2>1. PICK q \in Q : blank(r) = blank(q)
    BY <1>2
  <2>2. /\ r.id = q.id /\ r.name = q.name /\ r.type = q.type /\ r.present = q.present
        /\ r.cols = q.cols /\ r.fks = q.fks
        /\ \A o : SameIdentity(o, r) <=> SameIdentity(o, q)
    BY <1>1, <1>4, <2>1
  <2>3. r \in CatalogRow /\ q \in CatalogRow
    BY <1>1
  <2>4. CASE \E o \in snap : SameIdentity(o, r)
    <3>1. PICK o \in snap : SameIdentity(o, r)
      BY <2>4
    <3>2. /\ Rewritten(R, snap, reach, r) = Updated(r, o)
          /\ Rewritten(Q, snap, reach, q) = Updated(q, o)
      BY <2>2, <3>1, RewrittenRow
    <3>3. blank(Updated(r, o)) = blank(Updated(q, o))
      <4>1. o \in SourceObject /\ SameIdentity(o, r) /\ SameIdentity(o, q)
        BY <1>1, <2>2, <3>1
      <4>2. PICK u \in CatalogRow :
              /\ u = Updated(r, o) /\ u.id = r.id /\ u.name = r.name /\ u.type = o.type /\ u.present
              /\ u.fks = o.fks /\ u.cols = MergedColumns(r.cols, o.cols)
        BY <2>3, <4>1, UpdatedRow
      <4>3. PICK v \in CatalogRow :
              /\ v = Updated(q, o) /\ v.id = q.id /\ v.name = q.name /\ v.type = o.type /\ v.present
              /\ v.fks = o.fks /\ v.cols = MergedColumns(q.cols, o.cols)
        BY <2>3, <4>1, UpdatedRow
      <4>4. u.present = v.present
        BY <4>2, <4>3 DEF CatalogRow
      <4>5. /\ u.id = v.id /\ u.name = v.name /\ u.type = v.type
            /\ u.cols = v.cols /\ u.fks = v.fks
        BY <2>2, <4>2, <4>3
      <4>6. blank(u) = blank(v)
        BY <4>4, <4>5, BlankRow
      <4>7. QED
        BY <4>2, <4>3, <4>6
    <3>4. QED
      BY <3>2, <3>3
  <2>5. CASE \A o \in snap : ~SameIdentity(o, r)
    <3>1. /\ Rewritten(R, snap, reach, r) = IF r.name \in reach THEN Retired(r) ELSE r
          /\ Rewritten(Q, snap, reach, q) = IF q.name \in reach THEN Retired(q) ELSE q
      BY <2>2, <2>5, RewrittenRow
    <3>2. blank(Retired(r)) = blank(Retired(q))
      <4>1. PICK u \in CatalogRow :
              /\ u = Retired(r) /\ u.id = r.id /\ u.name = r.name /\ u.type = r.type /\ ~u.present
              /\ u.fks = {} /\ u.cols = Absent(r.cols)
        BY <2>3, RetiredRow
      <4>2. PICK v \in CatalogRow :
              /\ v = Retired(q) /\ v.id = q.id /\ v.name = q.name /\ v.type = q.type /\ ~v.present
              /\ v.fks = {} /\ v.cols = Absent(q.cols)
        BY <2>3, RetiredRow
      <4>3. u.present = v.present
        BY <4>1, <4>2 DEF CatalogRow
      <4>4. blank(u) = blank(v)
        BY <2>2, <4>1, <4>2, <4>3, BlankRow
      <4>5. QED
        BY <4>1, <4>2, <4>4
    <3>3. QED
      BY <2>1, <2>2, <3>1, <3>2
  <2>6. QED
    BY <2>4, <2>5
<1>6. ASSUME NEW o \in NewObjects(R, snap)
      PROVE  o \in NewObjects(Q, snap) /\ Inserted(o, NewId(R, o)) = Inserted(o, NewId(Q, o))
  <2>1. o \in snap /\ \A r \in R : ~SameIdentity(o, r)
    BY DEF NewObjects
  <2>2. \A q \in Q : ~SameIdentity(o, q)
    BY <1>1, <1>3, <1>4, <2>1
  <2>3. QED
    BY <2>1, <2>2 DEF NewObjects, NewId
<1>7. ASSUME NEW m \in Merged(R, snap, reach)
      PROVE  \E n \in Merged(Q, snap, reach) : blank(m) = blank(n)
  <2>1. CASE \E r \in R : m = Rewritten(R, snap, reach, r)
    BY <1>5, <2>1, MergedRows
  <2>2. CASE \E o \in NewObjects(R, snap) : m = Inserted(o, NewId(R, o))
    BY <1>6, <2>2, MergedRows
  <2>3. QED
    BY <2>1, <2>2, MergedRows
<1>8. QED
  BY <1>7 DEF Erased

LEMMA MergeIgnoresSemantics ==
  ASSUME NEW R, NEW Q, NEW snap, NEW reach, RowsFit(R), RowsFit(Q), Collected(snap, reach),
         Erased(R) = Erased(Q), Cardinality(R) = Cardinality(Q)
  PROVE  Erased(Merged(R, snap, reach)) = Erased(Merged(Q, snap, reach))
<1>1. Erased(Merged(R, snap, reach)) \subseteq Erased(Merged(Q, snap, reach))
  BY MergeLooksAtStructure
<1>2. Erased(Q) = Erased(R) /\ Cardinality(Q) = Cardinality(R)
  OBVIOUS
<1>3. Erased(Merged(Q, snap, reach)) \subseteq Erased(Merged(R, snap, reach))
  BY <1>2, MergeLooksAtStructure
<1>4. QED
  BY <1>1, <1>3

\* Rows that keep their ids and everything but their semantics.
LEMMA IdsAreUnique ==
  ASSUME NEW R, RowsFit(R), NEW r \in R, NEW s \in R, r.id = s.id
  PROVE  r = s
<1>1. /\ SameIdentity([name |-> r.id[1], type |-> r.id[2]], r)
      /\ SameIdentity([name |-> r.id[1], type |-> r.id[2]], s)
  BY DEF RowsFit
<1>2. SameIdentity(r, s)
  BY <1>1, IdentityIsKinship
<1>3. QED
  BY <1>2 DEF RowsFit

DiffersInSemantics(q, r) == \E n \in Nat : q = [r EXCEPT !.sem = n]

LEMMA SemanticsOnly ==
  ASSUME NEW R, RowsFit(R), NEW f \in [R -> CatalogRow],
         \A r \in R : DiffersInSemantics(f[r], r),
         NEW Q, Q = {f[r] : r \in R}
  PROVE  RowsFit(Q) /\ Erased(Q) = Erased(R) /\ \A reach : ShownIn(Q, reach) = ShownIn(R, reach)
<1>1. Q = {f[r] : r \in R}
  OBVIOUS
<1>2. \A r \in R : /\ f[r] \in CatalogRow /\ f[r].id = r.id /\ f[r].name = r.name
                   /\ f[r].type = r.type /\ f[r].present = r.present /\ f[r].cols = r.cols
                   /\ f[r].fks = r.fks /\ [f[r] EXCEPT !.sem = 0] = [r EXCEPT !.sem = 0]
  <2>1. SUFFICES ASSUME NEW r \in R
                 PROVE  /\ f[r] \in CatalogRow /\ f[r].id = r.id /\ f[r].name = r.name
                        /\ f[r].type = r.type /\ f[r].present = r.present /\ f[r].cols = r.cols
                        /\ f[r].fks = r.fks /\ [f[r] EXCEPT !.sem = 0] = [r EXCEPT !.sem = 0]
    OBVIOUS
  <2>2. r \in CatalogRow /\ f[r] \in CatalogRow
    BY DEF RowsFit
  <2>3. PICK n \in Nat : f[r] = [r EXCEPT !.sem = n]
    BY DEF DiffersInSemantics
  <2>4. PICK q \in CatalogRow : q = f[r]
    BY <2>2
  <2>5. /\ q.id = r.id /\ q.name = r.name /\ q.type = r.type /\ q.present = r.present
        /\ q.cols = r.cols /\ q.fks = r.fks
    BY <2>2, <2>3, <2>4 DEF CatalogRow
  <2>6. [q EXCEPT !.sem = 0] = [r EXCEPT !.sem = 0]
    BY <2>2, <2>5, BlankRow
  <2>7. QED
    BY <2>4, <2>5, <2>6
<1>3. ASSUME NEW r \in R, NEW o
      PROVE  /\ SameIdentity(o, f[r]) <=> SameIdentity(o, r)
             /\ SameIdentity(f[r], o) <=> SameIdentity(r, o)
  <2>1. PICK q : q = f[r]
    OBVIOUS
  <2>2. q.name = r.name /\ q.type = r.type
    BY <1>2, <2>1
  <2>3. (SameIdentity(o, q) <=> SameIdentity(o, r)) /\ (SameIdentity(q, o) <=> SameIdentity(r, o))
    BY <2>2 DEF SameIdentity
  <2>4. QED
    BY <2>1, <2>3
<1>4. IsFiniteSet(Q)
  <2>1. f = [r \in R |-> f[r]] /\ IsFiniteSet(R)
    BY DEF RowsFit
  <2>2. QED
    BY <1>1, <2>1, FiniteImage
<1>5. Q \subseteq CatalogRow /\ \A q \in Q : SameIdentity([name |-> q.id[1], type |-> q.id[2]], q)
  <2>1. \A r \in R : SameIdentity([name |-> r.id[1], type |-> r.id[2]], r)
    BY DEF RowsFit
  <2>2. \A r \in R : SameIdentity([name |-> r.id[1], type |-> r.id[2]], f[r])
    BY <1>3, <2>1
  <2>3. \A r \in R : SameIdentity([name |-> f[r].id[1], type |-> f[r].id[2]], f[r])
    BY <1>2, <2>2
  <2>4. QED
    BY <1>1, <1>2, <2>3
<1>6. \A q, p \in Q : SameIdentity(q, p) => q = p
  BY <1>1, <1>3 DEF RowsFit
<1>7. RowsFit(Q)
  BY <1>4, <1>5, <1>6 DEF RowsFit
<1>8. Erased(Q) = Erased(R)
  <2> DEFINE blank(x) == [x EXCEPT !.sem = 0]
  <2>1. Erased(Q) = {blank(q) : q \in Q} /\ Erased(R) = {blank(r) : r \in R}
    BY DEF Erased
  <2>2. \A r \in R : blank(f[r]) = blank(r)
    BY <1>2
  <2> HIDE DEF blank
  <2>3. {blank(q) : q \in Q} = {blank(r) : r \in R}
    BY <1>1, <2>2
  <2>4. QED
    BY <2>1, <2>3
<1>9. \A r \in R : Shown(f[r]) = Shown(r)
  BY <1>2 DEF Shown
<1>10. ASSUME NEW reach PROVE ShownIn(Q, reach) = ShownIn(R, reach)
  <2>1. \A x : x \in ShownIn(Q, reach) <=> \E r \in R : r.present /\ r.name \in reach /\ x = Shown(r)
    <3>1. \A q \in Q : \E r \in R : q = f[r]
      BY <1>1
    <3>2. \A r \in R : f[r] \in Q
      BY <1>1
    <3>3. ASSUME NEW x, x \in ShownIn(Q, reach)
          PROVE  \E r \in R : r.present /\ r.name \in reach /\ x = Shown(r)
      <4>1. PICK q \in Q : q.present /\ q.name \in reach /\ x = Shown(q)
        BY <3>3 DEF ShownIn
      <4>2. PICK r \in R : q = f[r]
        BY <3>1
      <4>3. QED
        BY <1>2, <1>9, <4>1, <4>2
    <3>4. ASSUME NEW r \in R, r.present, r.name \in reach PROVE Shown(r) \in ShownIn(Q, reach)
      <4>1. f[r] \in Q /\ f[r].present /\ f[r].name \in reach /\ Shown(f[r]) = Shown(r)
        BY <1>2, <1>9, <3>2, <3>4
      <4>2. PICK q \in Q : q.present /\ q.name \in reach /\ Shown(q) = Shown(r)
        BY <4>1
      <4>3. QED
        BY <4>2 DEF ShownIn
    <3>5. QED
      BY <3>3, <3>4
  <2>2. \A x : x \in ShownIn(R, reach) <=> \E r \in R : r.present /\ r.name \in reach /\ x = Shown(r)
    BY DEF ShownIn
  <2>3. \A x : x \in ShownIn(Q, reach) <=> x \in ShownIn(R, reach)
    BY <2>1, <2>2
  <2>4. QED
    BY <2>3
<1>11. QED
  BY <1>1, <1>7, <1>8, <1>10

-----------------------------------------------------------------------------
(* Steps of StructureRun *)

\* What the other children hold is not touched.
LEMMA OneChildStep ==
  ASSUME StructureInv, NEW j \in SourceJob, NEW q, child' = [child EXCEPT ![j] = q],
         UNCHANGED <<remote, human, catalog, last>>,
         DOMAIN q = {"at", "snap", "reach", "rows", "pairs"},
         Refreshes(j) /\ q.at \in {"collected", "baseline", "commit"} => Collected(q.snap, q.reach),
         Refreshes(j) /\ q.at = "commit" => PlanFits(q),
         DOMAIN locks' = Kind,
         \A i \in SourceJob \ {j} : locks[JobKind[i]] = i => locks'[JobKind[i]] = i,
         q.at \in AtWork => locks'[JobKind[j]] = j
  PROVE  StructureInv'
<1>1. DOMAIN child = SourceJob /\ child'[j] = q /\ \A i \in SourceJob \ {j} : child'[i] = child[i]
  BY DEF StructureInv, ChildrenFit
<1>2. DOMAIN child' = SourceJob
  BY <1>1
<1>3. LocksFit'
  BY <1>1 DEF StructureInv, LocksFit
<1>4. ASSUME NEW i \in SourceJob
      PROVE  /\ DOMAIN child'[i] = {"at", "snap", "reach", "rows", "pairs"}
             /\ Refreshes(i) /\ child'[i].at \in {"collected", "baseline", "commit"} =>
                  Collected(child'[i].snap, child'[i].reach)
             /\ Refreshes(i) /\ child'[i].at = "commit" => PlanFits(child'[i])
  <2>1. CASE i = j
    BY <1>1, <2>1
  <2>2. CASE i # j
    BY <1>1, <2>2 DEF StructureInv, ChildrenFit
  <2>3. QED
    BY <2>1, <2>2
<1>5. ChildrenFit'
  <2>1. \A i \in SourceJob : Refreshes(i) /\ child'[i].at = "commit" => PlanFits(child[i])'
    BY <1>4 DEF PlanFits
  <2>2. QED
    BY <1>2, <1>4, <2>1 DEF ChildrenFit, Refreshes
<1>6. CatalogFits'
  BY DEF StructureInv, CatalogFits
<1>7. QED
  BY <1>3, <1>5, <1>6 DEF StructureInv

LEMMA EndStep ==
  ASSUME StructureInv, NEW j \in SourceJob, Ends(j), UNCHANGED <<remote, human, catalog, last>>
  PROVE  StructureInv'
<1>1. PICK q : q = [NoChild EXCEPT !.at = "ended"]
  OBVIOUS
<1>2. child' = [child EXCEPT ![j] = q] /\ locks' = Released(j)
  BY <1>1 DEF Ends
<1>3. DOMAIN q = {"at", "snap", "reach", "rows", "pairs"} /\ q.at = "ended"
  BY <1>1 DEF NoChild
<1>4. /\ DOMAIN locks' = Kind
      /\ \A i \in SourceJob \ {j} : locks[JobKind[i]] = i => locks'[JobKind[i]] = i
  BY <1>2, StructureRunAssumption DEF Released, StructureInv, LocksFit, StructureRunAssumption
<1>5. QED
  BY <1>2, <1>3, <1>4, OneChildStep DEF AtWork

LEMMA MoveStep ==
  ASSUME StructureInv, NEW j \in SourceJob, NEW where, Moves(j, where),
         UNCHANGED <<remote, human, catalog, last, locks>>,
         child[j].at \in AtWork \/ where \notin AtWork,
         Refreshes(j) /\ where \in {"collected", "baseline"} =>
           child[j].at \in {"collected", "baseline", "commit"},
         where # "commit"
  PROVE  StructureInv'
<1>1. PICK q : q = [child[j] EXCEPT !.at = where]
  OBVIOUS
<1>2. DOMAIN child = SourceJob /\ DOMAIN child[j] = {"at", "snap", "reach", "rows", "pairs"}
  BY DEF StructureInv, ChildrenFit
<1>3. child' = [child EXCEPT ![j] = q]
  BY <1>1, <1>2 DEF Moves
<1>4. /\ DOMAIN q = {"at", "snap", "reach", "rows", "pairs"}
      /\ q.at = where /\ q.snap = child[j].snap /\ q.reach = child[j].reach
  BY <1>1, <1>2
<1>5. Refreshes(j) /\ q.at \in {"collected", "baseline", "commit"} => Collected(q.snap, q.reach)
  BY <1>4 DEF StructureInv, ChildrenFit
<1>6. DOMAIN locks' = Kind /\ (q.at \in AtWork => locks'[JobKind[j]] = j)
  BY <1>4 DEF StructureInv, LocksFit
<1>7. QED
  BY <1>3, <1>4, <1>5, <1>6, OneChildStep

LEMMA AcquireStep ==
  ASSUME StructureInv, NEW j \in SourceJob, AcquireLock(j)
  PROVE  StructureInv'
<1>1. UNCHANGED <<remote, human, catalog, last>>
  BY DEF AcquireLock, catalogVars
<1>2. CASE LockFree(j)
  <2>1. locks' = [locks EXCEPT ![JobKind[j]] = j] /\ Moves(j, "start")
    BY <1>2 DEF AcquireLock
  <2>2. PICK q : q = [child[j] EXCEPT !.at = "start"]
    OBVIOUS
  <2>3. DOMAIN child = SourceJob /\ DOMAIN child[j] = {"at", "snap", "reach", "rows", "pairs"}
    BY DEF StructureInv, ChildrenFit
  <2>4. child' = [child EXCEPT ![j] = q]
    BY <2>1, <2>2, <2>3 DEF Moves
  <2>5. DOMAIN q = {"at", "snap", "reach", "rows", "pairs"} /\ q.at = "start"
    BY <2>2, <2>3
  <2>6. DOMAIN locks = Kind /\ JobKind[j] \in Kind
    BY StructureRunAssumption DEF StructureInv, LocksFit, StructureRunAssumption
  <2>7. /\ DOMAIN locks' = Kind /\ locks'[JobKind[j]] = j
        /\ \A i \in SourceJob \ {j} : locks[JobKind[i]] = i => locks'[JobKind[i]] = i
    BY <1>2, <2>1, <2>6, StructureRunAssumption DEF LockFree, StructureRunAssumption
  <2>8. QED
    BY <1>1, <2>4, <2>5, <2>7, OneChildStep
<1>3. CASE ~LockFree(j)
  BY <1>1, <1>3, EndStep DEF AcquireLock, Fails
<1>4. QED
  BY <1>2, <1>3

LEMMA CollectStep ==
  ASSUME StructureInv, NEW j \in SourceJob, Collect(j)
  PROVE  StructureInv'
<1>1. PICK snap : snap = {o \in remote : o.name \in scope}
  OBVIOUS
<1>2. PICK q : q = [child[j] EXCEPT !.at = "collected", !.reach = scope, !.snap = snap]
  OBVIOUS
<1>3. DOMAIN child = SourceJob /\ DOMAIN child[j] = {"at", "snap", "reach", "rows", "pairs"}
  BY DEF StructureInv, ChildrenFit
<1>4. child' = [child EXCEPT ![j] = q]
  BY <1>1, <1>2, <1>3 DEF Collect
<1>5. /\ DOMAIN q = {"at", "snap", "reach", "rows", "pairs"}
      /\ q.at = "collected" /\ q.snap = snap /\ q.reach = scope
  BY <1>2, <1>3
<1>6. Collected(snap, scope)
  <2>1. remote \subseteq SourceObject /\ IsFiniteSet(remote)
        /\ \A o, p \in remote : SameIdentity(o, p) => o = p
    BY StructureRunAssumption DEF StructureInv, StructureRunAssumption
  <2>2. snap \subseteq remote
    BY <1>1
  <2>3. QED
    BY <1>1, <2>1, <2>2, FS_Subset DEF Collected
<1>7. UNCHANGED <<remote, human, catalog, last, locks>> /\ child[j].at = "collect"
  BY DEF Collect, catalogVars
<1>8. DOMAIN locks' = Kind /\ locks'[JobKind[j]] = j
  BY <1>7 DEF StructureInv, LocksFit, AtWork
<1>9. QED
  BY <1>4, <1>5, <1>6, <1>7, <1>8, OneChildStep

LEMMA PlanStep ==
  ASSUME StructureInv, NEW j \in SourceJob, PlanRefresh(j)
  PROVE  StructureInv'
<1>1. PICK rows : rows = Merged(catalog, child[j].snap, child[j].reach)
  OBVIOUS
<1>2. /\ child[j].at = "baseline" /\ Refreshes(j)
      /\ UNCHANGED <<remote, human, catalog, last>>
  BY DEF PlanRefresh, Refreshes, catalogVars
<1>3. CASE Resolved(rows)
  <2>1. PICK pairs : pairs = Plannable(joins, Edges(rows))
    OBVIOUS
  <2>2. PICK q : q = [child[j] EXCEPT !.at = "commit", !.rows = rows, !.pairs = pairs]
    OBVIOUS
  <2>3. DOMAIN child = SourceJob /\ DOMAIN child[j] = {"at", "snap", "reach", "rows", "pairs"}
    BY DEF StructureInv, ChildrenFit
  <2>4. child' = [child EXCEPT ![j] = q] /\ UNCHANGED locks
    BY <1>1, <1>3, <2>1, <2>2, <2>3 DEF PlanRefresh
  <2>5. /\ DOMAIN q = {"at", "snap", "reach", "rows", "pairs"}
        /\ q.at = "commit" /\ q.snap = child[j].snap /\ q.reach = child[j].reach /\ q.rows = rows
    BY <2>2, <2>3
  <2>6. Collected(q.snap, q.reach) /\ RowsFit(catalog)
    BY <1>2, <2>5 DEF StructureInv, ChildrenFit, CatalogFits
  <2>7. PlanFits(q)
    BY <1>1, <2>5, <2>6, MergeFits DEF PlanFits
  <2>8. DOMAIN locks' = Kind /\ locks'[JobKind[j]] = j
    BY <1>2, <2>4 DEF StructureInv, LocksFit, AtWork
  <2>9. QED
    BY <1>2, <2>4, <2>5, <2>6, <2>7, <2>8, OneChildStep
<1>4. CASE ~Resolved(rows)
  BY <1>1, <1>2, <1>4, EndStep DEF PlanRefresh, Fails
<1>5. QED
  BY <1>3, <1>4

\* Join detection touches no object of the catalog.
LEMMA DetectionStep ==
  ASSUME StructureInv, NEW j \in SourceJob, ResolveJoins(j) \/ PlanDetection(j)
  PROVE  StructureInv'
<1>1. PICK where, pairs : child' = [child EXCEPT ![j].at = where, ![j].pairs = pairs]
  BY DEF ResolveJoins, PlanDetection
<1>2. PICK q : q = [child[j] EXCEPT !.at = where, !.pairs = pairs]
  OBVIOUS
<1>3. DOMAIN child = SourceJob /\ DOMAIN child[j] = {"at", "snap", "reach", "rows", "pairs"}
  BY DEF StructureInv, ChildrenFit
<1>4. child' = [child EXCEPT ![j] = q] /\ DOMAIN q = {"at", "snap", "reach", "rows", "pairs"}
  BY <1>1, <1>2, <1>3
<1>5. /\ UNCHANGED <<remote, human, catalog, last, locks>> /\ ~Refreshes(j)
      /\ child[j].at \in AtWork
  BY DEF ResolveJoins, PlanDetection, catalogVars, Refreshes, AtWork
<1>6. DOMAIN locks' = Kind /\ locks'[JobKind[j]] = j
  BY <1>5 DEF StructureInv, LocksFit
<1>7. QED
  BY <1>4, <1>5, <1>6, OneChildStep

\* The commit of a refresh: the rows as planned, with the semantics of now.
LEMMA PersistedRows ==
  ASSUME StructureInv, NEW rows, RowsFit(rows)
  PROVE  LET after == {Persisted(r) : r \in rows} IN
         /\ RowsFit(after) /\ \A reach : ShownIn(after, reach) = ShownIn(rows, reach)
         /\ \A r \in rows : \A c \in catalog : c.id = r.id =>
              Persisted(r).id = c.id /\ Persisted(r).sem = c.sem
<1>1. RowsFit(catalog) /\ catalog \subseteq CatalogRow /\ rows \subseteq CatalogRow
  BY DEF StructureInv, CatalogFits, RowsFit
<1>2. ASSUME NEW r \in rows, NEW c \in catalog, c.id = r.id
      PROVE  Persisted(r) = [r EXCEPT !.sem = c.sem]
  <2>1. (CHOOSE x \in catalog : x.id = r.id) = c
    <3>1. \A x \in catalog : x.id = r.id => x = c
      BY <1>1, <1>2, IdsAreUnique
    <3>2. QED
      BY <1>2, <3>1
  <2>2. QED
    BY <1>2, <2>1 DEF Persisted
<1>3. \A r \in rows : \E n \in Nat : Persisted(r) = [r EXCEPT !.sem = n]
  <2>1. SUFFICES ASSUME NEW r \in rows PROVE \E n \in Nat : Persisted(r) = [r EXCEPT !.sem = n]
    OBVIOUS
  <2>2. CASE \E c \in catalog : c.id = r.id
    <3>1. PICK c \in catalog : c.id = r.id
      BY <2>2
    <3>2. c.sem \in Nat
      BY <1>1 DEF CatalogRow
    <3>3. QED
      BY <1>2, <3>1, <3>2
  <2>3. CASE \A c \in catalog : c.id # r.id
    <3>1. Persisted(r) = r
      BY <2>3 DEF Persisted
    <3>2. r \in CatalogRow
      BY <1>1
    <3>3. r.sem \in Nat /\ r = [r EXCEPT !.sem = r.sem]
      BY <3>2 DEF CatalogRow
    <3>4. QED
      BY <3>1, <3>3
  <2>4. QED
    BY <2>2, <2>3
<1>4. PICK f : f = [r \in rows |-> Persisted(r)]
  OBVIOUS
<1>5. f \in [rows -> CatalogRow] /\ {Persisted(r) : r \in rows} = {f[r] : r \in rows}
  <2>1. \A r \in rows : Persisted(r) \in CatalogRow
    BY <1>1, <1>3 DEF CatalogRow
  <2>2. QED
    BY <1>4, <2>1
<1>6. \A r \in rows : DiffersInSemantics(f[r], r)
  BY <1>3, <1>4 DEF DiffersInSemantics
<1>7. PICK after : after = {f[r] : r \in rows}
  OBVIOUS
<1>8. RowsFit(after) /\ \A reach : ShownIn(after, reach) = ShownIn(rows, reach)
  BY <1>5, <1>6, <1>7, SemanticsOnly
<1>9. ASSUME NEW r \in rows, NEW c \in catalog, c.id = r.id
      PROVE  Persisted(r).id = c.id /\ Persisted(r).sem = c.sem
  BY <1>1, <1>2, <1>9 DEF CatalogRow
<1>10. QED
  BY <1>5, <1>7, <1>8, <1>9

LEMMA CommitStep ==
  ASSUME StructureInv, NEW j \in SourceJob, CommitPlan(j)
  PROVE  StructureInv'
<1>1. child[j].at = "commit" /\ Moves(j, "stamp") /\ UNCHANGED <<remote, human, locks>>
  BY DEF CommitPlan
<1>2. CASE ~Refreshes(j)
  <2>1. UNCHANGED <<catalog, last>>
    BY <1>2 DEF CommitPlan, Refreshes
  <2>2. QED
    BY <1>1, <1>2, <2>1, MoveStep DEF AtWork
<1>3. CASE Refreshes(j)
  <2>1. PICK q : q = child[j]
    OBVIOUS
  <2>2. PlanFits(q) /\ RowsFit(q.rows) /\ ShownIn(q.rows, q.reach) = q.snap
    BY <1>1, <1>3, <2>1 DEF StructureInv, ChildrenFit, PlanFits
  <2>3. /\ catalog' = {Persisted(r) : r \in q.rows}
        /\ last' = [snap |-> q.snap, reach |-> q.reach]
    BY <1>3, <2>1 DEF CommitPlan, Refreshes
  <2>4. RowsFit(catalog') /\ ShownIn(catalog', last'.reach) = last'.snap
    BY <2>2, <2>3, PersistedRows
  <2>5. CatalogFits'
    BY <2>4 DEF CatalogFits, RowsFit, ShownIn, Shown
  <2>6. DOMAIN child = SourceJob /\ DOMAIN q = {"at", "snap", "reach", "rows", "pairs"}
    BY <2>1 DEF StructureInv, ChildrenFit
  <2>7. /\ DOMAIN child' = SourceJob
        /\ DOMAIN child'[j] = {"at", "snap", "reach", "rows", "pairs"} /\ child'[j].at = "stamp"
        /\ \A i \in SourceJob \ {j} : child'[i] = child[i]
    BY <1>1, <2>1, <2>6 DEF Moves
  <2>8. LocksFit'
    BY <1>1, <2>7 DEF StructureInv, LocksFit, AtWork
  <2>9. \A i \in SourceJob \ {j} : ~(Refreshes(i) /\ child[i].at = "commit")
    BY <1>1, <1>3 DEF StructureInv, LocksFit, AtWork, Refreshes
  <2>10. ChildrenFit'
    BY <2>7, <2>9 DEF StructureInv, ChildrenFit, Refreshes
  <2>11. QED
    BY <1>1, <2>5, <2>8, <2>10 DEF StructureInv
<1>4. QED
  BY <1>2, <1>3

LEMMA PatchStep ==
  ASSUME StructureInv, NEW r \in catalog, PatchSemantics(r)
  PROVE  StructureInv'
<1>1. PICK p : p = [r EXCEPT !.sem = @ + 1]
  OBVIOUS
<1>2. /\ catalog' = (catalog \ {r}) \cup {p} /\ human' = human + 1
      /\ UNCHANGED <<remote, last, child, locks>>
  BY <1>1 DEF PatchSemantics, jobVars
<1>3. RowsFit(catalog) /\ r \in CatalogRow /\ catalog \subseteq CatalogRow
  BY DEF StructureInv, CatalogFits, RowsFit
<1>4. PICK f : f = [x \in catalog |-> IF x = r THEN p ELSE x]
  OBVIOUS
<1>5. f \in [catalog -> CatalogRow] /\ catalog' = {f[x] : x \in catalog}
  <2>1. p \in CatalogRow
    BY <1>1, <1>3 DEF CatalogRow
  <2>2. QED
    BY <1>2, <1>3, <1>4, <2>1
<1>6. \A x \in catalog : DiffersInSemantics(f[x], x)
  <2>1. r.sem + 1 \in Nat /\ p = [r EXCEPT !.sem = r.sem + 1]
    BY <1>1, <1>3 DEF CatalogRow
  <2>2. \A x \in CatalogRow : x.sem \in Nat /\ x = [x EXCEPT !.sem = x.sem]
    BY DEF CatalogRow
  <2>3. QED
    BY <1>3, <1>4, <2>1, <2>2 DEF DiffersInSemantics
<1>7. /\ RowsFit(catalog') /\ Erased(catalog') = Erased(catalog)
      /\ \A reach : ShownIn(catalog', reach) = ShownIn(catalog, reach)
  <2>1. PICK C : C = catalog
    OBVIOUS
  <2>2. PICK D : D = catalog'
    OBVIOUS
  <2>3. /\ RowsFit(C) /\ f \in [C -> CatalogRow] /\ D = {f[x] : x \in C}
        /\ \A x \in C : DiffersInSemantics(f[x], x)
    BY <1>3, <1>5, <1>6, <2>1, <2>2
  <2>4. RowsFit(D) /\ Erased(D) = Erased(C) /\ \A reach : ShownIn(D, reach) = ShownIn(C, reach)
    BY <2>3, SemanticsOnly
  <2>5. QED
    BY <2>1, <2>2, <2>4
<1>8. \A x \in catalog : f[x].id = x.id
  BY <1>3, <1>6 DEF CatalogRow, DiffersInSemantics
<1>9. p.id = r.id /\ p \notin catalog \ {r}
  <2>1. p.id = r.id
    BY <1>4, <1>8
  <2>2. QED
    BY <1>3, <2>1, IdsAreUnique
<1>10. Cardinality(catalog') = Cardinality(catalog)
  <2>1. IsFiniteSet(catalog)
    BY <1>3 DEF RowsFit
  <2>2. IsFiniteSet(catalog \ {r}) /\ Cardinality(catalog \ {r}) = Cardinality(catalog) - 1
    BY <2>1, FS_RemoveElement
  <2>3. Cardinality((catalog \ {r}) \cup {p}) = Cardinality(catalog \ {r}) + 1
    BY <1>9, <2>2, FS_AddElement
  <2>4. Cardinality(catalog) \in Nat
    BY <2>1, FS_CardinalityType
  <2>5. QED
    BY <1>2, <2>2, <2>3, <2>4
<1>11. ASSUME NEW j \in SourceJob, Refreshes(j), child[j].at = "commit" PROVE PlanFits(child[j])'
  <2>1. PICK q : q = child[j]
    OBVIOUS
  <2>2. PlanFits(q) /\ Collected(q.snap, q.reach)
    BY <1>11, <2>1 DEF StructureInv, ChildrenFit
  <2>3. \A c \in catalog' : \E x \in q.rows : x.id = c.id
    BY <1>5, <1>8, <2>2 DEF PlanFits
  <2>4. Erased(Merged(catalog', q.snap, q.reach)) = Erased(Merged(catalog, q.snap, q.reach))
    BY <1>3, <1>7, <1>10, <2>2, MergeIgnoresSemantics
  <2>5. PlanFits(q)'
    BY <2>2, <2>3, <2>4 DEF PlanFits, RowsFit, ShownIn, Shown, Erased, Merged, Match, SameIdentity,
          Updated, Retired, Inserted, NewId, MergedColumns, Absent, Names
  <2>6. QED
    BY <1>2, <2>1, <2>5 DEF PlanFits
<1>12. ChildrenFit' /\ LocksFit'
  BY <1>2, <1>11 DEF StructureInv, ChildrenFit, LocksFit, Refreshes
<1>13. CatalogFits'
  <2>1. ShownIn(catalog', last.reach) = last.snap /\ last' = last
    BY <1>2, <1>7 DEF StructureInv, CatalogFits
  <2>2. QED
    BY <1>7, <2>1 DEF CatalogFits, RowsFit, ShownIn, Shown
<1>14. QED
  BY <1>2, <1>12, <1>13 DEF StructureInv

\* Steps that leave the rows and the children alone.
LEMMA AsideStep ==
  ASSUME StructureInv, UNCHANGED <<catalog, last, child, locks>>,
         remote' \in Snapshot, human' \in Nat
  PROVE  StructureInv'
<1>1. \A j \in SourceJob : PlanFits(child[j]) => PlanFits(child[j])'
  BY DEF PlanFits
<1>2. ChildrenFit' /\ LocksFit' /\ CatalogFits'
  BY <1>1 DEF StructureInv, ChildrenFit, LocksFit, CatalogFits, Refreshes
<1>3. QED
  BY <1>2 DEF StructureInv

LEMMA StructureInitInv == StructureInit => StructureInv
<1>1. SUFFICES ASSUME StructureInit PROVE StructureInv
  OBVIOUS
<1>2. CatalogFits
  BY <1>1, FS_EmptySet DEF StructureInit, CatalogFits, RowsFit, ShownIn
<1>3. LocksFit /\ ChildrenFit
  BY <1>1 DEF StructureInit, LocksFit, ChildrenFit, NoChild, AtWork
<1>4. QED
  BY <1>1, <1>2, <1>3 DEF StructureInit, StructureInv

LEMMA SourceJobStep ==
  ASSUME StructureInv, NEW j \in SourceJob,
         \/ ClaimJob(j) \/ AcquireLock(j) \/ FailEarly(j) \/ CheckStopped(j) \/ Collect(j)
         \/ ResolveJoins(j) \/ PlanRefresh(j) \/ PlanDetection(j) \/ CommitPlan(j)
         \/ FailCommit(j) \/ StampJob(j) \/ KillChild(j) \/ StopJob(j)
  PROVE  StructureInv'
<1>1. CASE ClaimJob(j)
  BY <1>1, MoveStep DEF ClaimJob, catalogVars, AtWork
<1>2. CASE FailEarly(j) \/ FailCommit(j) \/ StampJob(j) \/ KillChild(j)
  BY <1>2, EndStep DEF FailEarly, FailCommit, StampJob, KillChild, Fails, catalogVars
<1>3. CASE CheckStopped(j)
  <2>1. UNCHANGED <<remote, human, catalog, last>> /\ child[j].at \in {"start", "collected"}
    BY <1>3 DEF CheckStopped, catalogVars
  <2>2. CASE status[j] \in Terminal
    BY <1>3, <2>1, <2>2, EndStep DEF CheckStopped
  <2>3. CASE status[j] \notin Terminal /\ child[j].at = "start"
    <3>1. Moves(j, "collect") /\ UNCHANGED locks
      BY <1>3, <2>3 DEF CheckStopped
    <3>2. QED
      BY <2>1, <2>3, <3>1, MoveStep DEF AtWork
  <2>4. CASE status[j] \notin Terminal /\ child[j].at = "collected"
    <3>1. Moves(j, "baseline") /\ UNCHANGED locks
      BY <1>3, <2>4 DEF CheckStopped
    <3>2. QED
      BY <2>1, <2>4, <3>1, MoveStep DEF AtWork
  <2>5. QED
    BY <2>1, <2>2, <2>3, <2>4
<1>4. CASE StopJob(j)
  BY <1>4, AsideStep DEF StopJob, catalogVars, StructureInv
<1>5. QED
  BY <1>1, <1>2, <1>3, <1>4, AcquireStep, CollectStep, DetectionStep, PlanStep, CommitStep

LEMMA StructureStepInv == StructureInv /\ [StructureNext]_structureVars => StructureInv'
<1>1. SUFFICES ASSUME StructureInv, [StructureNext]_structureVars PROVE StructureInv'
  OBVIOUS
<1>2. CASE Drift
  BY <1>1, <1>2, AsideStep DEF Drift, catalogVars, jobVars, StructureInv
<1>3. CASE \E r \in catalog : PatchSemantics(r)
  BY <1>1, <1>3, PatchStep
<1>4. CASE \/ \E p \in ColumnPairs : CreateJoin(p)
           \/ \E j \in joins : ToggleRejection(j) \/ CheckDeletion(j)
           \/ \E p \in deleting : DeleteJoin(p)
  <2>1. UNCHANGED <<catalog, last, child, locks, remote>> /\ (human' = human \/ human' = human + 1)
    BY <1>4 DEF CreateJoin, ToggleRejection, CheckDeletion, DeleteJoin, catalogVars, jobVars
  <2>2. QED
    BY <1>1, <2>1, AsideStep DEF StructureInv
<1>5. CASE UNCHANGED structureVars
  BY <1>1, <1>5, AsideStep DEF structureVars, catalogVars, jobVars, StructureInv
<1>6. QED
  BY <1>1, <1>2, <1>3, <1>4, <1>5, SourceJobStep DEF StructureNext

LEMMA StructureInvHolds == StructureSpec => []StructureInv
BY StructureInitInv, StructureStepInv, PTL DEF StructureSpec

-----------------------------------------------------------------------------
\* Within the scope of the refresh that committed last the catalog shows exactly what
\* it collected, and a plan that waits for its commit is one from the catalog of now,
\* whichever Jobs are cancelled, fail as lost or are outlived by their children: the
\* Kind execution lock keeps their merges apart (kind_locks.py, structure_refresh.py).
THEOREM RefreshesDoNotCross == StructureSpec => []CatalogIsLastCollect
<1>1. StructureInv => CatalogIsLastCollect
  BY DEF StructureInv, CatalogFits, ShownIn, ChildrenFit, PlanFits, Erased, Refreshes,
         CatalogIsLastCollect
<1>2. QED
  BY <1>1, StructureInvHolds, PTL

\* Refreshes and join detections, which write from a baseline they read earlier, undo
\* no edit of a person: semantics and joins stay, and so do the ids of objects
\* (_sql_persist_object, apply_insert_join).
THEOREM PeopleAreNotOverruled == StructureSpec => HumanWordStands
<1> DEFINE Stays == /\ \A r \in catalog : \E s \in catalog' : s.id = r.id /\ s.sem = r.sem
                    /\ joins \subseteq joins'
<1>1. StructureInv /\ [StructureNext]_structureVars => (human' = human => Stays)
  <2>1. SUFFICES ASSUME StructureInv, [StructureNext]_structureVars, human' = human PROVE Stays
    OBVIOUS
  <2>2. CASE \E j \in SourceJob : CommitPlan(j)
    <3>1. PICK j \in SourceJob : CommitPlan(j)
      BY <2>2
    <3>2. joins \subseteq joins'
      BY <3>1 DEF CommitPlan, WithInserted
    <3>3. CASE Refreshes(j)
      <4>1. PICK rows : rows = child[j].rows
        OBVIOUS
      <4>2. catalog' = {Persisted(r) : r \in rows}
        BY <3>1, <3>3, <4>1 DEF CommitPlan, Refreshes
      <4>3. RowsFit(rows) /\ \A c \in catalog : \E r \in rows : r.id = c.id
        BY <2>1, <3>1, <3>3, <4>1 DEF StructureInv, ChildrenFit, PlanFits, CommitPlan
      <4>4. ASSUME NEW c \in catalog PROVE \E s \in catalog' : s.id = c.id /\ s.sem = c.sem
        BY <2>1, <4>2, <4>3, PersistedRows
      <4>5. QED
        BY <3>2, <4>4
    <3>4. CASE ~Refreshes(j)
      BY <3>1, <3>2, <3>4 DEF CommitPlan, Refreshes
    <3>5. QED
      BY <3>3, <3>4
  <2>3. CASE \/ \E r \in catalog : PatchSemantics(r)
             \/ \E p \in ColumnPairs : CreateJoin(p)
             \/ \E j \in joins : ToggleRejection(j)
             \/ \E p \in deleting : DeleteJoin(p)
    <3>1. human' = human + 1 /\ human \in Nat
      BY <2>1, <2>3 DEF PatchSemantics, CreateJoin, ToggleRejection, DeleteJoin, StructureInv
    <3>2. QED
      BY <2>1, <3>1
  <2>4. CASE UNCHANGED <<catalog, joins>>
    BY <2>4
  <2>5. QED
    BY <2>1, <2>2, <2>3, <2>4
       DEF StructureNext, structureVars, catalogVars, Drift, CheckDeletion, ClaimJob, AcquireLock,
           FailEarly, CheckStopped, Collect, ResolveJoins, PlanRefresh, PlanDetection, FailCommit,
           StampJob, KillChild, StopJob
<1>2. StructureInv /\ [StructureNext]_structureVars
        => [human' = human =>
              /\ \A r \in catalog : \E s \in catalog' : s.id = r.id /\ s.sem = r.sem
              /\ joins \subseteq joins']_structureVars
  BY <1>1
<1>3. QED
  BY <1>2, StructureInvHolds, PTL DEF StructureSpec, HumanWordStands
-----------------------------------------------------------------------------
(* Jobs, locks and joins of StructureRun *)

ChildPlaces == {"none", "lock", "start", "collect", "collected", "baseline", "commit", "stamp", "ended"}

WritersOK ==
  /\ scope \subseteq Name
  /\ status \in [SourceJob -> Terminal \cup {"queued", "running"}]
  /\ \A j \in SourceJob : child[j].at \in ChildPlaces
  /\ \A k \in Kind : locks[k] = NoHolder \/ JobKind[locks[k]] = k
  /\ diffs \subseteq {j \in SourceJob : JobKind[j] = "structure"}
JoinsOK ==
  /\ \A i \in joins : i = [pair |-> i.pair, by |-> i.by, rejected |-> i.rejected]
  /\ \A i, j \in joins : i.pair = j.pair => i = j

\* An insert adds one join for each pair that has none.
LEMMA InsertedJoins ==
  ASSUME JoinsOK, NEW pairs, NEW by, joins' = WithInserted(joins, pairs, by)
  PROVE  JoinsOK'
<1> DEFINE new == {[pair |-> p, by |-> by, rejected |-> FALSE] : p \in pairs \ Pairs(joins)}
<1>1. joins' = joins \cup new
  BY DEF WithInserted
<1>2. \A i \in new : /\ i = [pair |-> i.pair, by |-> i.by, rejected |-> i.rejected]
                     /\ i.pair \notin Pairs(joins) /\ i = [pair |-> i.pair, by |-> by, rejected |-> FALSE]
  OBVIOUS
<1>3. \A i \in joins : i.pair \in Pairs(joins)
  BY DEF Pairs
<1> HIDE DEF new
<1>4. \A i \in joins' : i = [pair |-> i.pair, by |-> i.by, rejected |-> i.rejected]
  BY <1>1, <1>2 DEF JoinsOK
<1>5. ASSUME NEW i \in joins', NEW j \in joins', i.pair = j.pair PROVE i = j
  <2>1. CASE i \in joins /\ j \in joins
    BY <1>5, <2>1 DEF JoinsOK
  <2>2. CASE i \in new /\ j \in new
    BY <1>2, <1>5, <2>2
  <2>3. QED
    BY <1>1, <1>2, <1>3, <1>5, <2>1, <2>2
<1>6. QED
  BY <1>4, <1>5 DEF JoinsOK

LEMMA JoinsStep ==
  JoinsOK /\ [StructureNext]_structureVars => JoinsOK'
<1> SUFFICES ASSUME JoinsOK, [StructureNext]_structureVars PROVE JoinsOK'
  OBVIOUS
<1>1. ASSUME UNCHANGED joins PROVE JoinsOK'
  BY <1>1 DEF JoinsOK
<1>2. ASSUME NEW p, CreateJoin(p) PROVE JoinsOK'
  BY <1>2, InsertedJoins DEF CreateJoin
<1>3. ASSUME NEW k \in SourceJob, CommitPlan(k) PROVE JoinsOK'
  BY <1>3, InsertedJoins DEF CommitPlan
<1>4. ASSUME NEW k \in joins, ToggleRejection(k) PROVE JoinsOK'
  <2>1. PICK t : t = [pair |-> k.pair, by |-> k.by, rejected |-> ~k.rejected]
    OBVIOUS
  <2>2. k = [pair |-> k.pair, by |-> k.by, rejected |-> k.rejected]
    BY DEF JoinsOK
  <2>3. [k EXCEPT !.rejected = ~@] = t
    BY <2>1, <2>2
  <2>4. joins' = (joins \ {k}) \cup {t} /\ t.pair = k.pair
        /\ t = [pair |-> t.pair, by |-> t.by, rejected |-> t.rejected]
    BY <1>4, <2>1, <2>3 DEF ToggleRejection
  <2>5. QED
    BY <2>4 DEF JoinsOK
<1>5. ASSUME NEW p, DeleteJoin(p) PROVE JoinsOK'
  <2>1. joins' \subseteq joins
    BY <1>5 DEF DeleteJoin
  <2>2. QED
    BY <2>1 DEF JoinsOK
<1>6. QED
  BY <1>1, <1>2, <1>3, <1>4, <1>5 DEF StructureNext, structureVars, catalogVars, Drift, PatchSemantics,
     CheckDeletion, ClaimJob, AcquireLock, FailEarly, CheckStopped, Collect, ResolveJoins, PlanRefresh,
     PlanDetection, FailCommit, StampJob, KillChild, StopJob

\* A child that moves on, with the lock of its kind or with none.
LEMMA WritersMove ==
  ASSUME StructureInv, WritersOK, NEW j \in SourceJob, NEW q, child' = [child EXCEPT ![j] = q],
         q.at \in ChildPlaces, UNCHANGED scope,
         status' = status \/ \E s \in Terminal \cup {"queued", "running"} : status' = [status EXCEPT ![j] = s],
         \A k \in Kind : locks'[k] \in {locks[k], NoHolder} \/ (locks'[k] = j /\ k = JobKind[j]),
         diffs' = diffs \/ (JobKind[j] = "structure" /\ diffs' = diffs \cup {j})
  PROVE  WritersOK'
<1>1. DOMAIN child = SourceJob
  BY DEF StructureInv, ChildrenFit
<1>2. \A i \in SourceJob : child'[i].at \in ChildPlaces
  BY <1>1 DEF WritersOK
<1>3. status' \in [SourceJob -> Terminal \cup {"queued", "running"}]
  BY DEF WritersOK
<1>4. \A k \in Kind : locks'[k] = NoHolder \/ JobKind[locks'[k]] = k
  BY DEF WritersOK
<1>5. diffs' \subseteq {i \in SourceJob : JobKind[i] = "structure"}
  BY DEF WritersOK
<1>6. QED
  BY <1>2, <1>3, <1>4, <1>5 DEF WritersOK

LEMMA WritersEnd ==
  ASSUME StructureInv, WritersOK, NEW j \in SourceJob, Ends(j), UNCHANGED <<scope, diffs>>,
         status' = status \/ \E s \in Terminal \cup {"queued", "running"} : status' = [status EXCEPT ![j] = s]
  PROVE  WritersOK'
<1>1. PICK q : q = [NoChild EXCEPT !.at = "ended"]
  OBVIOUS
<1>2. child' = [child EXCEPT ![j] = q] /\ q.at \in ChildPlaces
  BY <1>1 DEF Ends, ChildPlaces, NoChild
<1>3. \A k \in Kind : locks'[k] \in {locks[k], NoHolder}
  BY DEF Ends, Released, StructureInv, LocksFit
<1>4. QED
  BY <1>2, <1>3, WritersMove

LEMMA MarkedIs ==
  ASSUME WritersOK, NEW j \in SourceJob, NEW s \in Terminal, Marked(j, s)
  PROVE  \E t \in Terminal \cup {"queued", "running"} : status' = [status EXCEPT ![j] = t]
<1>1. status[j] \in Terminal \cup {"queued", "running"}
  BY DEF WritersOK
<1>2. CASE status[j] = "running"
  BY <1>2 DEF Marked
<1>3. CASE status[j] # "running"
  BY <1>1, <1>3 DEF Marked
<1>4. QED
  BY <1>2, <1>3

\* The row of a child whose place alone changes.
LEMMA PlacedChild ==
  ASSUME StructureInv, NEW j \in SourceJob, NEW where, Moves(j, where)
  PROVE  \E q : child' = [child EXCEPT ![j] = q] /\ q.at = where
<1>1. "at" \in DOMAIN child[j] /\ j \in DOMAIN child
  BY DEF StructureInv, ChildrenFit
<1>2. PICK q : q = [child[j] EXCEPT !.at = where]
  OBVIOUS
<1>3. child' = [child EXCEPT ![j] = q] /\ q.at = where
  BY <1>1, <1>2 DEF Moves
<1>4. QED
  BY <1>3

LEMMA SourceJobWrites ==
  ASSUME StructureInv, WritersOK, NEW j \in SourceJob,
         \/ ClaimJob(j) \/ AcquireLock(j) \/ FailEarly(j) \/ CheckStopped(j) \/ Collect(j)
         \/ ResolveJoins(j) \/ PlanRefresh(j) \/ PlanDetection(j) \/ CommitPlan(j)
         \/ FailCommit(j) \/ StampJob(j) \/ KillChild(j) \/ StopJob(j)
  PROVE  WritersOK'
<1>1. /\ "at" \in DOMAIN child[j] /\ j \in DOMAIN child /\ DOMAIN locks = Kind /\ JobKind[j] \in Kind
  BY StructureRunAssumption DEF StructureInv, ChildrenFit, LocksFit, StructureRunAssumption
<1>2. ASSUME NEW s \in Terminal, Marked(j, s), Ends(j), UNCHANGED <<scope, diffs>> PROVE WritersOK'
  BY <1>2, MarkedIs, WritersEnd
<1>3. ASSUME NEW where \in ChildPlaces, Moves(j, where), UNCHANGED <<scope, locks>>,
             status' = status \/ \E s \in Terminal \cup {"queued", "running"} : status' = [status EXCEPT ![j] = s],
             diffs' = diffs \/ (JobKind[j] = "structure" /\ diffs' = diffs \cup {j})
      PROVE  WritersOK'
  <2>1. PICK q : child' = [child EXCEPT ![j] = q] /\ q.at = where
    BY <1>3, PlacedChild
  <2>2. QED
    BY <1>3, <2>1, WritersMove
<1>4. ASSUME NEW q, child' = [child EXCEPT ![j] = q], q.at \in ChildPlaces,
             UNCHANGED <<scope, status, locks, diffs>>
      PROVE  WritersOK'
  BY <1>4, WritersMove
<1>5. CASE ClaimJob(j)
  BY <1>3, <1>5 DEF ClaimJob, catalogVars, ChildPlaces
<1>6. CASE AcquireLock(j)
  <2>1. CASE LockFree(j)
    <3>1. locks' = [locks EXCEPT ![JobKind[j]] = j] /\ Moves(j, "start") /\ UNCHANGED <<scope, status, diffs>>
      BY <1>6, <2>1 DEF AcquireLock, catalogVars
    <3>2. PICK q : child' = [child EXCEPT ![j] = q] /\ q.at = "start"
      BY <3>1, PlacedChild
    <3>3. \A k \in Kind : locks'[k] = locks[k] \/ (locks'[k] = j /\ k = JobKind[j])
      BY <1>1, <3>1
    <3>4. QED
      BY <3>1, <3>2, <3>3, WritersMove DEF ChildPlaces
  <2>2. CASE ~LockFree(j)
    BY <1>2, <1>6, <2>2 DEF AcquireLock, Fails, catalogVars, Terminal
  <2>3. QED
    BY <2>1, <2>2
<1>7. CASE FailEarly(j)
  BY <1>2, <1>7 DEF FailEarly, Fails, catalogVars, Terminal
<1>8. CASE CheckStopped(j)
  <2>1. CASE status[j] \in Terminal
    BY <1>8, <2>1, WritersEnd DEF CheckStopped, catalogVars
  <2>2. CASE status[j] \notin Terminal
    BY <1>3, <1>8, <2>2 DEF CheckStopped, catalogVars, ChildPlaces
  <2>3. QED
    BY <2>1, <2>2
<1>9. CASE Collect(j)
  <2>1. PICK q : q = [child[j] EXCEPT !.at = "collected", !.reach = scope, !.snap = {o \in remote : o.name \in scope}]
    OBVIOUS
  <2>2. child' = [child EXCEPT ![j] = q] /\ q.at = "collected"
    BY <1>1, <1>9, <2>1 DEF Collect
  <2>3. QED
    BY <1>4, <1>9, <2>2 DEF Collect, catalogVars, ChildPlaces
<1>10. CASE ResolveJoins(j)
  <2>1. PICK found : child' = [child EXCEPT ![j].at = "collected", ![j].pairs = found]
    BY <1>10 DEF ResolveJoins
  <2>2. PICK q : q = [child[j] EXCEPT !.at = "collected", !.pairs = found]
    OBVIOUS
  <2>3. child' = [child EXCEPT ![j] = q] /\ q.at = "collected"
    BY <1>1, <2>1, <2>2
  <2>4. QED
    BY <1>4, <1>10, <2>3 DEF ResolveJoins, catalogVars, ChildPlaces
<1>11. CASE PlanRefresh(j)
  <2>1. PICK rows : rows = Merged(catalog, child[j].snap, child[j].reach)
    OBVIOUS
  <2>2. CASE Resolved(rows)
    <3>1. PICK q : q = [child[j] EXCEPT !.at = "commit", !.rows = rows, !.pairs = Plannable(joins, Edges(rows))]
      OBVIOUS
    <3>2. child' = [child EXCEPT ![j] = q] /\ q.at = "commit"
      BY <1>1, <1>11, <2>1, <2>2, <3>1 DEF PlanRefresh
    <3>3. UNCHANGED <<scope, status, locks, diffs>>
      BY <1>11, <2>1, <2>2 DEF PlanRefresh, catalogVars
    <3>4. QED
      BY <1>4, <3>2, <3>3 DEF ChildPlaces
  <2>3. CASE ~Resolved(rows)
    <3>1. Fails(j) /\ UNCHANGED <<scope, diffs>>
      BY <1>11, <2>1, <2>3 DEF PlanRefresh, catalogVars
    <3>2. QED
      BY <1>2, <3>1 DEF Fails, Terminal
  <2>4. QED
    BY <2>2, <2>3
<1>12. CASE PlanDetection(j)
  <2>1. PICK q : q = [child[j] EXCEPT !.at = "commit", !.pairs = Plannable(joins, @)]
    OBVIOUS
  <2>2. child' = [child EXCEPT ![j] = q] /\ q.at = "commit"
    BY <1>1, <1>12, <2>1 DEF PlanDetection
  <2>3. QED
    BY <1>4, <1>12, <2>2 DEF PlanDetection, catalogVars, ChildPlaces
<1>13. CASE CommitPlan(j)
  BY <1>3, <1>13 DEF CommitPlan, ChildPlaces
<1>14. CASE FailCommit(j)
  BY <1>2, <1>14 DEF FailCommit, Fails, catalogVars, Terminal
<1>15. CASE StampJob(j)
  BY <1>2, <1>15 DEF StampJob, catalogVars, Terminal
<1>16. CASE KillChild(j)
  BY <1>16, WritersEnd DEF KillChild, catalogVars
<1>17. CASE StopJob(j)
  <2>1. UNCHANGED <<scope, child, locks, diffs>> /\ status' \in [SourceJob -> Terminal \cup {"queued", "running"}]
    BY <1>17 DEF StopJob, catalogVars, Terminal, WritersOK
  <2>2. QED
    BY <2>1 DEF WritersOK
<1>18. QED
  BY <1>5, <1>6, <1>7, <1>8, <1>9, <1>10, <1>11, <1>12, <1>13, <1>14, <1>15, <1>16, <1>17

LEMMA WritersStep ==
  StructureInv /\ WritersOK /\ [StructureNext]_structureVars => WritersOK'
<1> SUFFICES ASSUME StructureInv, WritersOK, [StructureNext]_structureVars PROVE WritersOK'
  OBVIOUS
<1>1. ASSUME UNCHANGED <<scope, jobVars, diffs>> PROVE WritersOK'
  BY <1>1 DEF WritersOK, jobVars
<1>2. CASE Drift
  <2>1. scope' \subseteq Name /\ UNCHANGED <<jobVars, diffs>>
    BY <1>2 DEF Drift, WritersOK, catalogVars
  <2>2. QED
    BY <2>1 DEF WritersOK, jobVars
<1>3. QED
  BY <1>1, <1>2, SourceJobWrites DEF StructureNext, structureVars, catalogVars, PatchSemantics, CreateJoin,
     ToggleRejection, CheckDeletion, DeleteJoin

\* Whoever refreshes, detects, edits, cancels or dies: ids, natural keys and pairs of joins
\* stay unique in the catalog, a lock is held by a Job of its kind or by none, and a
\* Structure Diff is of a refresh.
THEOREM KeysStayUnique == StructureSpec => []StructureTypeOK
<1>1. StructureInit => WritersOK /\ JoinsOK
  BY DEF StructureInit, WritersOK, JoinsOK, NoChild, ChildPlaces, Terminal
<1>2. StructureInv /\ WritersOK /\ JoinsOK => StructureTypeOK
  <2> SUFFICES ASSUME StructureInv, WritersOK, JoinsOK PROVE StructureTypeOK
    OBVIOUS
  <2>1. ASSUME NEW r \in catalog, NEW s \in catalog, r.id = s.id \/ (r.name = s.name /\ r.type = s.type)
        PROVE  r = s
    <3>1. RowsFit(catalog)
      BY DEF StructureInv, CatalogFits
    <3>2. CASE r.id = s.id
      BY <3>1, <3>2, IdsAreUnique
    <3>3. CASE r.name = s.name /\ r.type = s.type
      <4>1. SameIdentity(r, s)
        BY <3>3 DEF SameIdentity
      <4>2. QED
        BY <3>1, <4>1 DEF RowsFit
    <3>4. QED
      BY <2>1, <3>2, <3>3
  <2>2. DOMAIN locks = Kind
    BY DEF StructureInv, LocksFit
  <2>3. QED
    BY <2>1, <2>2 DEF StructureTypeOK, StructureInv, WritersOK, JoinsOK, ChildPlaces
<1>3. QED
  BY <1>1, <1>2, JoinsStep, WritersStep, StructureInvHolds, PTL DEF StructureSpec

=============================================================================
