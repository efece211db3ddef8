------------------------ MODULE LostDetectionProofs ------------------------
(* The reaper spares the Jobs of a living worker and notices the others in time. *)
EXTENDS LostDetection, TLAPS

\* Running Jobs whose worker has not died since.
Living == RunningJobs \ orphans

\* Renewals may be this many intervals apart.
Gaps == IF missed THEN 2 ELSE 1

\* The timer was armed with the value in force, ...
ArmedNow ==
  /\ renewAt <= now + RenewInterval(parameter.value)
  /\ \A j \in Living : renewAt <= locked_at[j] + Gaps * RenewInterval(parameter.value)

\* ... or before the last change, and then fires within the grace.
ArmedBefore ==
  /\ parameter.previous # 0
  /\ renewAt <= parameter.updated_at + RenewInterval(parameter.previous)
  /\ \A j \in Living : renewAt <= locked_at[j] + Gaps * RenewInterval(parameter.previous)

\* Between the halves of the renew loop: a touch that raised leaves occupancies
\* one interval old, of the value in force or of one replaced this instant.
TouchedOK ==
  IF ~missed THEN \A j \in Living : locked_at[j] = now
  ELSE \/ \A j \in Living : now <= locked_at[j] + RenewInterval(parameter.value)
       \/ /\ parameter.previous # 0 /\ parameter.updated_at = now
          /\ \A j \in Living : now <= locked_at[j] + RenewInterval(parameter.previous)

TimerOK ==
  /\ phase = "waiting" => now <= renewAt /\ (ArmedNow \/ ArmedBefore)
  /\ phase = "touched" => TouchedOK
  /\ phase = "down" => Living = {}

LostInv ==
  /\ TypeOK
  /\ TimerOK
  /\ suspects \subseteq orphans
  /\ LivingWorkerKeepsJob
-----------------------------------------------------------------------------
(* The clock *)

\* Three renew intervals fit in an admitted value, and a greater value is
\* renewed no more often.
LEMMA IntervalFacts ==
  ASSUME NEW v \in Value
  PROVE  /\ v \in Nat \ {0} /\ RenewInterval(v) \in Nat \ {0} /\ 3 * RenewInterval(v) <= v
         /\ \A w \in Value : v <= w => RenewInterval(v) <= RenewInterval(w)
<1>1. /\ MinInterval \in Nat \ {0}
      /\ \A w \in Value : w \in Nat /\ w >= 3 * MinInterval
  BY LostDetectionAssumption DEF LostDetectionAssumption
<1>2. \A n \in Nat : n \div 3 \in Nat /\ 3 * (n \div 3) <= n /\ n < 3 * (n \div 3) + 3
  OBVIOUS
<1>3. \A m, n \in Nat : m <= n => m \div 3 <= n \div 3
  BY <1>2
<1>4. QED
  BY <1>1, <1>2, <1>3 DEF RenewInterval

\* What is renewed at least every two intervals of either value, within the
\* grace of the old one, is not stale.
LEMMA FreshIsNotStale ==
  ASSUME TypeOK, NEW j \in Living, now < renewAt, ArmedNow \/ ArmedBefore
  PROVE  ~Stale(j)
<1>1. /\ parameter.value \in Value /\ parameter.previous \in Value \cup {0}
      /\ parameter.updated_at \in Nat /\ now \in Nat /\ locked_at[j] \in Nat /\ renewAt \in Nat
      /\ Gaps \in {1, 2}
  BY DEF TypeOK, Living, RunningJobs, Gaps
<1>2. /\ parameter.value \in Nat /\ RenewInterval(parameter.value) \in Nat
      /\ 3 * RenewInterval(parameter.value) <= parameter.value /\ RenewInterval(parameter.value) # 0
  BY <1>1, IntervalFacts
<1>3. CASE ArmedNow
  <2>1. renewAt <= locked_at[j] + 2 * RenewInterval(parameter.value)
    BY <1>1, <1>2, <1>3 DEF ArmedNow
  <2>2. ReaperLost(parameter, now) \in Nat /\ ReaperLost(parameter, now) >= parameter.value
    BY <1>1, <1>2, IntervalFacts DEF ReaperLost
  <2>3. QED
    BY <1>1, <1>2, <2>1, <2>2 DEF Stale
<1>4. CASE ArmedBefore
  <2>1. /\ parameter.previous \in Nat /\ RenewInterval(parameter.previous) \in Nat
        /\ 3 * RenewInterval(parameter.previous) <= parameter.previous
        /\ RenewInterval(parameter.previous) # 0
    BY <1>1, <1>4, IntervalFacts DEF ArmedBefore
  <2>2. renewAt <= locked_at[j] + 2 * RenewInterval(parameter.previous)
    BY <1>1, <1>4, <2>1 DEF ArmedBefore
  <2>3. now < parameter.updated_at + RenewInterval(parameter.previous)
    BY <1>1, <1>4, <2>1 DEF ArmedBefore
  <2>4. /\ ReaperLost(parameter, now) \in Nat
        /\ ReaperLost(parameter, now) >= parameter.previous
    BY <1>1, <1>2, <2>1, <2>3 DEF ReaperLost
  <2>5. QED
    BY <1>1, <2>1, <2>2, <2>4 DEF Stale
<1>5. QED
  BY <1>3, <1>4

\* A timer that an old value armed fires before that value's grace runs out.
LEMMA ArmedBeforeIsUnsettled ==
  ASSUME TypeOK, now <= renewAt, ArmedBefore
  PROVE  ~Settled
<1>1. RenewInterval(parameter.previous) \in Nat /\ parameter.updated_at \in Nat
      /\ now \in Nat /\ renewAt \in Nat
  BY IntervalFacts DEF TypeOK, ArmedBefore
<1>2. QED
  BY <1>1 DEF ArmedBefore, Settled

-----------------------------------------------------------------------------
(* Types *)

LEMMA TypesInit == Init => TypeOK
<1>1. SUFFICES ASSUME Init PROVE TypeOK
  OBVIOUS
<1>2. 0 \in 0..MaxTime /\ 0 \in 0..MaxWrites /\ 0 \in 0..0 /\ Seed \in Value
  BY LostDetectionAssumption DEF LostDetectionAssumption
<1>3. QED
  BY <1>1, <1>2 DEF Init, TypeOK

LEMMA TypesStep == ASSUME TypeOK, [Next]_vars PROVE TypeOK'
<1>1. /\ now \in Nat /\ now \in 0..now /\ MaxTime \in Nat /\ MaxWrites \in Nat /\ SyncEvery \in Nat
      /\ RenewInterval(parameter.value) \in Nat
  <2>1. MaxTime \in Nat /\ MaxWrites \in Nat /\ SyncEvery \in Nat
    BY LostDetectionAssumption DEF LostDetectionAssumption
  <2>2. now \in Nat /\ parameter.value \in Value
    BY <2>1 DEF TypeOK
  <2>3. QED
    BY <2>1, <2>2, IntervalFacts
<1>2. CASE UNCHANGED vars
  BY <1>2 DEF TypeOK, vars, parameterVars, jobVars, workerVars, beatVars
<1>3. CASE Tick
  <2>1. now + 1 \in 0..MaxTime /\ \A n \in 0..now : n \in 0..(now + 1)
    BY <1>1, <1>3 DEF Tick
  <2>2. \A j \in Job : locked_at[j] \in 0..(now + 1)
    BY <2>1 DEF TypeOK
  <2>3. /\ locked_at \in [Job -> 0..(now + 1)] /\ parameter.updated_at \in 0..(now + 1)
        /\ reaperRow \in [interval : Value, last : 0..(now + 1), next : Nat]
    BY <2>1, <2>2 DEF TypeOK
  <2>4. parameter \in [value : Value, previous : Value \cup {0}, updated_at : 0..(now + 1)]
    BY <2>3 DEF TypeOK
  <2>5. QED
    BY <1>3, <2>1, <2>3, <2>4 DEF TypeOK, Tick, parameterVars, jobVars, workerVars, beatVars
<1>4. CASE WorkerReady
  BY <1>1, <1>4 DEF TypeOK, WorkerReady, parameterVars, beatVars
<1>5. CASE WorkerCrash
  BY <1>5 DEF TypeOK, WorkerCrash, parameterVars, beatVars, RunningJobs
<1>6. ASSUME NEW j \in Job, Claim(j) PROVE TypeOK'
  BY <1>1, <1>6 DEF TypeOK, Claim, parameterVars, workerVars, beatVars
<1>7. CASE Touch
  BY <1>1, <1>7 DEF TypeOK, Touch, parameterVars, beatVars
<1>8. CASE TouchRaises
  BY <1>8 DEF TypeOK, TouchRaises, parameterVars, jobVars, beatVars
<1>9. CASE Arm
  BY <1>1, <1>9 DEF TypeOK, Arm, parameterVars, jobVars, beatVars
<1>10. ASSUME NEW v \in Value, SetParameter(v) PROVE TypeOK'
  <2>1. writes + 1 \in 0..MaxWrites
    BY <1>1, <1>10 DEF TypeOK, SetParameter
  <2>2. QED
    BY <1>1, <1>10, <2>1 DEF TypeOK, SetParameter, jobVars, workerVars, beatVars
<1>11. CASE ReaperLists
  <2>1. ConsumedReaperRow \in [interval : Value, last : 0..now, next : Nat]
    <3>1. reaperRow \in [interval : Value, last : 0..now, next : Nat] /\ Value \subseteq Nat
      BY LostDetectionAssumption DEF TypeOK, LostDetectionAssumption
    <3>2. reaperRow.interval \in Nat /\ now + reaperRow.interval \in Nat
      <4>1. reaperRow.interval \in Nat
        BY <3>1
      <4>2. QED
        BY <1>1, <4>1
    <3>3. [reaperRow EXCEPT !.last = now, !.next = now + reaperRow.interval]
            \in [interval : Value, last : 0..now, next : Nat]
      BY <1>1, <3>1, <3>2
    <3>4. QED
      BY <3>1, <3>3 DEF ConsumedReaperRow
  <2>2. QED
    BY <1>11, <2>1 DEF TypeOK, ReaperLists, parameterVars, jobVars, workerVars, RunningJobs
<1>12. ASSUME NEW j \in Job, ReaperStamps(j) PROVE TypeOK'
  BY <1>12 DEF TypeOK, ReaperStamps, parameterVars, workerVars, beatVars
<1>13. CASE BeatReloads
  BY <1>1, <1>13 DEF TypeOK, BeatReloads, parameterVars, jobVars, workerVars
<1>14. QED
  BY <1>2, <1>3, <1>4, <1>5, <1>6, <1>7, <1>8, <1>9, <1>10, <1>11, <1>12, <1>13 DEF Next

-----------------------------------------------------------------------------
(* Steps *)

LEMMA LostInit == Init => LostInv
<1>1. SUFFICES ASSUME Init PROVE LostInv
  OBVIOUS
<1>2. TypeOK
  BY <1>1, TypesInit
<1>3. Living = {}
  BY <1>1 DEF Init, Living, RunningJobs
<1>4. QED
  BY <1>1, <1>2, <1>3 DEF Init, LostInv, TimerOK, LivingWorkerKeepsJob

LEMMA TickStep == ASSUME LostInv, Tick PROVE LostInv'
<1>1. TypeOK /\ TimerOK
  BY DEF LostInv
<1>2. /\ now' = now + 1 /\ now < MaxTime /\ parameter' = parameter /\ writes' = writes
      /\ status' = status /\ locked_at' = locked_at /\ orphans' = orphans
      /\ phase' = phase /\ renewAt' = renewAt /\ missed' = missed /\ suspects' = suspects
      /\ phase # "touched" /\ (phase = "waiting" => ~(now >= renewAt))
  BY DEF Tick, RenewalDue, parameterVars, jobVars, workerVars
<1>3. now \in Nat /\ renewAt \in Nat
  BY <1>1 DEF TypeOK
<1>4. TypeOK'
  BY <1>1, TypesStep DEF Next
<1>5. RunningJobs' = RunningJobs /\ Living' = Living /\ Gaps' = Gaps
  BY <1>2 DEF RunningJobs, Living, Gaps
<1>6. phase = "waiting" => now + 1 <= renewAt
  BY <1>2, <1>3
<1>7. ArmedNow => ArmedNow'
  <2>1. RenewInterval(parameter.value) \in Nat
    BY <1>1, IntervalFacts DEF TypeOK
  <2>2. QED
    BY <1>2, <1>3, <1>5, <2>1 DEF ArmedNow
<1>8. ArmedBefore => ArmedBefore'
  BY <1>2, <1>5 DEF ArmedBefore
<1>9. TimerOK'
  BY <1>1, <1>2, <1>5, <1>6, <1>7, <1>8 DEF TimerOK
<1>10. suspects' \subseteq orphans' /\ LivingWorkerKeepsJob'
  BY <1>2 DEF LostInv, LivingWorkerKeepsJob
<1>11. QED
  BY <1>4, <1>9, <1>10 DEF LostInv

\* worker_ready fails only what the dead generation left.
LEMMA WorkerReadyStep == ASSUME LostInv, WorkerReady PROVE LostInv'
<1>1. TypeOK /\ TimerOK /\ LivingWorkerKeepsJob
  BY DEF LostInv
<1>2. /\ phase = "down" /\ phase' = "waiting" /\ renewAt' = now /\ missed' = FALSE
      /\ status' = [j \in Job |-> IF status[j] = "running" THEN "lost" ELSE status[j]]
      /\ now' = now /\ parameter' = parameter /\ writes' = writes
      /\ locked_at' = locked_at /\ orphans' = orphans /\ suspects' = suspects
  BY DEF WorkerReady, parameterVars
<1>3. Living = {}
  BY <1>1, <1>2 DEF TimerOK
<1>4. Living' = {} /\ Gaps' = 1
  BY <1>2 DEF Living, RunningJobs, Gaps
<1>5. now \in Nat /\ RenewInterval(parameter.value) \in Nat
  BY <1>1, IntervalFacts DEF TypeOK
<1>6. TypeOK'
  BY <1>1, TypesStep DEF Next
<1>7. ArmedNow'
  BY <1>2, <1>4, <1>5 DEF ArmedNow
<1>8. TimerOK'
  BY <1>2, <1>5, <1>7 DEF TimerOK
<1>9. LivingWorkerKeepsJob'
  BY <1>1, <1>2, <1>3 DEF LivingWorkerKeepsJob, Living, RunningJobs
<1>10. QED
  BY <1>2, <1>6, <1>8, <1>9 DEF LostInv

LEMMA WorkerCrashStep == ASSUME LostInv, WorkerCrash PROVE LostInv'
<1>1. TypeOK /\ LivingWorkerKeepsJob
  BY DEF LostInv
<1>2. /\ phase' = "down" /\ orphans' = orphans \cup RunningJobs
      /\ now' = now /\ parameter' = parameter /\ writes' = writes /\ status' = status
      /\ locked_at' = locked_at /\ renewAt' = renewAt /\ missed' = missed /\ suspects' = suspects
  BY DEF WorkerCrash, parameterVars
<1>3. Living' = {}
  BY <1>2 DEF Living, RunningJobs
<1>4. TypeOK'
  BY <1>1, TypesStep DEF Next
<1>5. QED
  BY <1>1, <1>2, <1>3, <1>4 DEF LostInv, TimerOK, LivingWorkerKeepsJob

LEMMA ClaimStep == ASSUME LostInv, NEW j \in Job, Claim(j) PROVE LostInv'
<1>1. TypeOK /\ TimerOK /\ LivingWorkerKeepsJob
  BY DEF LostInv
<1>2. /\ phase # "down" /\ status[j] = "queued" /\ status' = [status EXCEPT ![j] = "running"]
      /\ locked_at' = [locked_at EXCEPT ![j] = now] /\ orphans' = orphans
      /\ now' = now /\ parameter' = parameter /\ writes' = writes
      /\ phase' = phase /\ renewAt' = renewAt /\ missed' = missed /\ suspects' = suspects
  BY DEF Claim, parameterVars, workerVars
<1>3. TypeOK'
  BY <1>1, TypesStep DEF Next
<1>4. Living' \subseteq Living \cup {j} /\ Gaps' = Gaps /\ Gaps \in {1, 2}
  BY <1>1, <1>2 DEF Living, RunningJobs, Gaps, TypeOK
<1>5. /\ \A i \in Living : i \in Job /\ locked_at[i] \in Nat
      /\ locked_at'[j] = now /\ now \in Nat /\ renewAt \in Nat
      /\ \A i \in Living : locked_at'[i] = locked_at[i] \/ i = j
  BY <1>1, <1>2 DEF TypeOK, Living, RunningJobs
<1>6. RenewInterval(parameter.value) \in Nat
  BY <1>1, IntervalFacts DEF TypeOK
<1>7. parameter.previous # 0 => RenewInterval(parameter.previous) \in Nat
  BY <1>1, IntervalFacts DEF TypeOK
<1>8. ArmedNow => ArmedNow'
  BY <1>2, <1>4, <1>5, <1>6 DEF ArmedNow
<1>9. ArmedBefore => ArmedBefore'
  BY <1>1, <1>2, <1>4, <1>5, <1>7 DEF ArmedBefore, TypeOK
<1>10. TouchedOK => TouchedOK'
  BY <1>2, <1>4, <1>5, <1>6, <1>7 DEF TouchedOK
<1>11. TimerOK'
  BY <1>1, <1>2, <1>8, <1>9, <1>10 DEF TimerOK
<1>12. QED
  BY <1>1, <1>2, <1>3, <1>11 DEF LostInv, LivingWorkerKeepsJob, TypeOK

\* A renewal that succeeds.
LEMMA TouchStep == ASSUME LostInv, Touch PROVE LostInv'
<1>1. TypeOK /\ TimerOK /\ LivingWorkerKeepsJob
  BY DEF LostInv
<1>2. /\ phase' = "touched" /\ missed' = FALSE /\ renewAt' = renewAt
      /\ locked_at' = [j \in Job |-> IF status[j] = "running" THEN now ELSE locked_at[j]]
      /\ status' = status /\ orphans' = orphans
      /\ now' = now /\ parameter' = parameter /\ writes' = writes /\ suspects' = suspects
  BY DEF Touch, parameterVars
<1>3. now \in Nat
  BY <1>1 DEF TypeOK
<1>4. TypeOK'
  BY <1>1, TypesStep DEF Next
<1>5. TouchedOK'
  BY <1>2 DEF TouchedOK, Living, RunningJobs
<1>6. TimerOK'
  BY <1>2, <1>5 DEF TimerOK
<1>7. QED
  BY <1>1, <1>2, <1>4, <1>6 DEF LostInv, LivingWorkerKeepsJob

\* A renewal that raises: one interval of the value in force has passed, for an
\* older timer would have fired before the grace ran out.
LEMMA TouchRaisesStep == ASSUME LostInv, TouchRaises PROVE LostInv'
<1>1. TypeOK /\ TimerOK /\ LivingWorkerKeepsJob
  BY DEF LostInv
<1>2. /\ phase = "waiting" /\ now >= renewAt /\ missed = FALSE /\ Settled
      /\ phase' = "touched" /\ missed' = TRUE /\ renewAt' = renewAt
      /\ locked_at' = locked_at /\ status' = status /\ orphans' = orphans
      /\ now' = now /\ parameter' = parameter /\ writes' = writes /\ suspects' = suspects
  BY <1>1 DEF TouchRaises, parameterVars, jobVars, TypeOK
<1>3. now \in Nat /\ renewAt \in Nat /\ now = renewAt
  BY <1>1, <1>2 DEF TypeOK, TimerOK
<1>4. ArmedNow
  BY <1>1, <1>2, <1>3, ArmedBeforeIsUnsettled DEF TimerOK
<1>5. RenewInterval(parameter.value) \in Nat /\ Gaps = 1
  BY <1>1, <1>2, IntervalFacts DEF TypeOK, Gaps
<1>6. TouchedOK'
  BY <1>2, <1>3, <1>4, <1>5 DEF TouchedOK, ArmedNow, Living, RunningJobs
<1>7. TypeOK'
  BY <1>1, TypesStep DEF Next
<1>8. TimerOK'
  BY <1>2, <1>6 DEF TimerOK
<1>9. QED
  BY <1>1, <1>2, <1>7, <1>8 DEF LostInv, LivingWorkerKeepsJob

\* The timer is armed with the value in force, one interval after the touch or,
\* when that raised, after an interval that the same or the last value gave.
LEMMA ArmStep == ASSUME LostInv, Arm PROVE LostInv'
<1>1. TypeOK /\ TimerOK /\ LivingWorkerKeepsJob
  BY DEF LostInv
<1>2. /\ phase = "touched" /\ phase' = "waiting" /\ missed' = missed
      /\ renewAt' = now + RenewInterval(parameter.value)
      /\ locked_at' = locked_at /\ status' = status /\ orphans' = orphans
      /\ now' = now /\ parameter' = parameter /\ writes' = writes /\ suspects' = suspects
  BY DEF Arm, parameterVars, jobVars
<1>3. /\ now \in Nat /\ parameter.value \in Value /\ RenewInterval(parameter.value) \in Nat
      /\ parameter.value \in Nat
  BY <1>1, IntervalFacts DEF TypeOK
<1>4. \A j \in Living : locked_at[j] \in Nat
  BY <1>1 DEF TypeOK, Living, RunningJobs
<1>5. Living' = Living /\ Gaps' = Gaps /\ TouchedOK
  BY <1>1, <1>2 DEF Living, RunningJobs, Gaps, TimerOK
<1>6. ArmedNow' \/ ArmedBefore'
  <2>1. CASE ~missed
    BY <1>2, <1>3, <1>4, <1>5, <2>1 DEF ArmedNow, TouchedOK, Gaps
  <2>2. CASE missed /\ \A j \in Living : now <= locked_at[j] + RenewInterval(parameter.value)
    BY <1>2, <1>3, <1>4, <1>5, <2>2 DEF ArmedNow, Gaps
  <2>3. CASE /\ missed /\ parameter.previous # 0 /\ parameter.updated_at = now
             /\ \A j \in Living : now <= locked_at[j] + RenewInterval(parameter.previous)
    <3>1. /\ parameter.previous \in Value /\ parameter.previous \in Nat
          /\ RenewInterval(parameter.previous) \in Nat
      BY <1>1, <2>3, IntervalFacts DEF TypeOK
    <3>2. CASE parameter.previous <= parameter.value
      <4>1. RenewInterval(parameter.previous) <= RenewInterval(parameter.value)
        BY <1>3, <3>1, <3>2, IntervalFacts
      <4>2. QED
        BY <1>2, <1>3, <1>4, <1>5, <2>3, <3>1, <4>1 DEF ArmedNow, Gaps
    <3>3. CASE parameter.value <= parameter.previous
      <4>1. RenewInterval(parameter.value) <= RenewInterval(parameter.previous)
        BY <1>3, <3>1, <3>3, IntervalFacts
      <4>2. QED
        BY <1>2, <1>3, <1>4, <1>5, <2>3, <3>1, <4>1 DEF ArmedBefore, Gaps
    <3>4. QED
      BY <1>3, <3>1, <3>2, <3>3
  <2>4. QED
    BY <1>5, <2>1, <2>2, <2>3 DEF TouchedOK
<1>7. TypeOK'
  BY <1>1, TypesStep DEF Next
<1>8. TimerOK'
  BY <1>2, <1>3, <1>6 DEF TimerOK
<1>9. QED
  BY <1>1, <1>2, <1>7, <1>8 DEF LostInv, LivingWorkerKeepsJob

\* Between settled values, the timer that runs was armed with the one replaced.
LEMMA SetParameterStep ==
  ASSUME OneAtATime, LostInv, NEW v \in Value, SetParameter(v)
  PROVE  LostInv'
<1>1. TypeOK /\ TimerOK /\ LivingWorkerKeepsJob
  BY DEF LostInv
<1>2. /\ Settled /\ writes < MaxWrites /\ writes' = writes + 1
      /\ parameter' = [value |-> v, previous |-> parameter.value, updated_at |-> now]
      /\ phase' = phase /\ renewAt' = renewAt /\ missed' = missed
      /\ locked_at' = locked_at /\ status' = status /\ orphans' = orphans
      /\ now' = now /\ suspects' = suspects
  BY OneAtATime DEF SetParameter, jobVars, workerVars
<1>3. now \in Nat /\ parameter.value \in Value /\ parameter.value # 0
  BY <1>1, IntervalFacts DEF TypeOK
<1>4. /\ parameter'.value = v /\ parameter'.previous = parameter.value /\ parameter'.updated_at = now
      /\ Living' = Living /\ Gaps' = Gaps
  BY <1>2 DEF Living, RunningJobs, Gaps
<1>5. phase = "waiting" => ArmedNow
  BY <1>1, <1>2, ArmedBeforeIsUnsettled DEF TimerOK
<1>6. ArmedNow => ArmedBefore'
  BY <1>2, <1>3, <1>4 DEF ArmedNow, ArmedBefore
<1>7. phase = "touched" => TouchedOK'
  <2>1. SUFFICES ASSUME phase = "touched" PROVE TouchedOK'
    OBVIOUS
  <2>2. CASE ~missed
    BY <1>1, <1>2, <1>4, <2>1, <2>2 DEF TimerOK, TouchedOK
  <2>3. CASE missed
    <3>1. parameter.previous = 0 \/ parameter.updated_at # now
      <4>1. parameter.previous # 0 => RenewInterval(parameter.previous) \in Nat
        BY <1>1, IntervalFacts DEF TypeOK
      <4>2. QED
        BY <1>2, <1>3, <4>1 DEF Settled
    <3>2. \A j \in Living : now <= locked_at[j] + RenewInterval(parameter.value)
      BY <1>1, <2>1, <2>3, <3>1 DEF TimerOK, TouchedOK
    <3>3. QED
      BY <1>2, <1>3, <1>4, <2>3, <3>2 DEF TouchedOK
  <2>4. QED
    BY <2>2, <2>3
<1>8. TypeOK'
  BY <1>1, TypesStep DEF Next
<1>9. TimerOK'
  BY <1>1, <1>2, <1>4, <1>5, <1>6, <1>7 DEF TimerOK
<1>10. QED
  BY <1>1, <1>2, <1>8, <1>9 DEF LostInv, LivingWorkerKeepsJob

LEMMA ReaperListsStep == ASSUME LostInv, ReaperLists PROVE LostInv'
<1>1. TypeOK /\ TimerOK /\ LivingWorkerKeepsJob /\ suspects \subseteq orphans
  BY DEF LostInv
<1>2. /\ ~RenewalDue /\ suspects' = suspects \cup {j \in RunningJobs : Stale(j)}
      /\ phase' = phase /\ renewAt' = renewAt /\ missed' = missed
      /\ locked_at' = locked_at /\ status' = status /\ orphans' = orphans
      /\ now' = now /\ parameter' = parameter /\ writes' = writes
  BY DEF ReaperLists, parameterVars, jobVars, workerVars
<1>3. ASSUME NEW j \in Living PROVE ~Stale(j)
  <2>1. phase = "waiting" /\ now < renewAt
    BY <1>1, <1>2 DEF RenewalDue, TimerOK, TypeOK
  <2>2. QED
    BY <1>1, <2>1, FreshIsNotStale DEF TimerOK
<1>4. suspects' \subseteq orphans'
  BY <1>1, <1>2, <1>3 DEF Living
<1>5. TypeOK'
  BY <1>1, TypesStep DEF Next
<1>6. Living' = Living /\ Gaps' = Gaps
  BY <1>2 DEF Living, RunningJobs, Gaps
<1>7. TimerOK'
  BY <1>1, <1>2, <1>6 DEF TimerOK, ArmedNow, ArmedBefore, TouchedOK
<1>8. QED
  BY <1>1, <1>2, <1>4, <1>5, <1>7 DEF LostInv, LivingWorkerKeepsJob

LEMMA ReaperStampsStep == ASSUME LostInv, NEW j \in Job, ReaperStamps(j) PROVE LostInv'
<1>1. TypeOK /\ TimerOK /\ LivingWorkerKeepsJob /\ suspects \subseteq orphans
  BY DEF LostInv
<1>2. /\ j \in suspects /\ suspects' = suspects \ {j}
      /\ status' = [status EXCEPT ![j] = IF @ = "running" THEN "lost" ELSE @]
      /\ phase' = phase /\ renewAt' = renewAt /\ missed' = missed
      /\ locked_at' = locked_at /\ orphans' = orphans
      /\ now' = now /\ parameter' = parameter /\ writes' = writes
  BY DEF ReaperStamps, parameterVars, workerVars
<1>3. Living' = Living /\ Gaps' = Gaps
  BY <1>1, <1>2 DEF Living, RunningJobs, Gaps, TypeOK
<1>4. TypeOK'
  BY <1>1, TypesStep DEF Next
<1>5. TimerOK'
  BY <1>1, <1>2, <1>3 DEF TimerOK, ArmedNow, ArmedBefore, TouchedOK
<1>6. LivingWorkerKeepsJob'
  BY <1>1, <1>2 DEF LivingWorkerKeepsJob, TypeOK
<1>7. QED
  BY <1>1, <1>2, <1>4, <1>5, <1>6 DEF LostInv

LEMMA BeatReloadsStep == ASSUME LostInv, BeatReloads PROVE LostInv'
<1>1. TypeOK /\ TimerOK /\ LivingWorkerKeepsJob
  BY DEF LostInv
<1>2. /\ phase' = phase /\ renewAt' = renewAt /\ missed' = missed
      /\ locked_at' = locked_at /\ status' = status /\ orphans' = orphans
      /\ now' = now /\ parameter' = parameter /\ writes' = writes /\ suspects' = suspects
  BY DEF BeatReloads, parameterVars, jobVars, workerVars
<1>3. Living' = Living /\ Gaps' = Gaps
  BY <1>2 DEF Living, RunningJobs, Gaps
<1>4. TypeOK'
  BY <1>1, TypesStep DEF Next
<1>5. TimerOK'
  BY <1>1, <1>2, <1>3 DEF TimerOK, ArmedNow, ArmedBefore, TouchedOK
<1>6. QED
  BY <1>1, <1>2, <1>4, <1>5 DEF LostInv, LivingWorkerKeepsJob

LEMMA LostStep == ASSUME OneAtATime, LostInv, [Next]_vars PROVE LostInv'
<1>1. CASE UNCHANGED vars
  <2>1. /\ now' = now /\ parameter' = parameter /\ writes' = writes
        /\ status' = status /\ locked_at' = locked_at /\ orphans' = orphans
        /\ phase' = phase /\ renewAt' = renewAt /\ missed' = missed /\ suspects' = suspects
    BY <1>1 DEF vars, parameterVars, jobVars, workerVars
  <2>2. Living' = Living /\ Gaps' = Gaps
    BY <2>1 DEF Living, RunningJobs, Gaps
  <2>3. TypeOK' /\ LivingWorkerKeepsJob'
    BY <1>1, <2>1, TypesStep DEF LostInv, LivingWorkerKeepsJob
  <2>4. TimerOK'
    BY <2>1, <2>2 DEF LostInv, TimerOK, ArmedNow, ArmedBefore, TouchedOK
  <2>5. QED
    BY <2>1, <2>3, <2>4 DEF LostInv
<1>2. ASSUME NEW v \in Value, SetParameter(v) PROVE LostInv'
  BY <1>2, OneAtATime, SetParameterStep
<1>3. ASSUME NEW j \in Job, Claim(j) PROVE LostInv'
  BY <1>3, ClaimStep
<1>4. ASSUME NEW j \in Job, ReaperStamps(j) PROVE LostInv'
  BY <1>4, ReaperStampsStep
<1>5. CASE Tick
  BY <1>5, TickStep
<1>6. CASE WorkerReady
  BY <1>6, WorkerReadyStep
<1>7. CASE WorkerCrash
  BY <1>7, WorkerCrashStep
<1>8. CASE Touch
  BY <1>8, TouchStep
<1>9. CASE TouchRaises
  BY <1>9, TouchRaisesStep
<1>10. CASE Arm
  BY <1>10, ArmStep
<1>11. CASE ReaperLists
  BY <1>11, ReaperListsStep
<1>12. CASE BeatReloads
  BY <1>12, BeatReloadsStep
<1>13. QED
  BY <1>1, <1>2, <1>3, <1>4, <1>5, <1>6, <1>7, <1>8, <1>9, <1>10, <1>11, <1>12 DEF Next

-----------------------------------------------------------------------------
(* The reaper's passes *)

\* The latest instant of the next pass: Beat has a commitment it knows by its
\* next reload, and one it holds is not sent before the reload that found it.
Reload == IF beatEntry THEN syncAt - SyncEvery ELSE syncAt
NextPass == Latest(reaperRow.next, Reload)

\* What a Job may have to wait once the reaper's test includes it.
Wait == Latest(Cadence, SyncEvery)

\* Beat's timer, and how far its row is behind the parameter.
BeatOK ==
  /\ reaperRow.last <= reaperRow.next
  /\ now <= syncAt /\ syncAt <= now + SyncEvery /\ now <= NextPass
  /\ reaperRow.interval # parameter.value => syncAt <= parameter.updated_at + SyncEvery
  /\ Cadence # parameter.value /\ reaperRow.interval = parameter.value
       => NextPass <= parameter.updated_at + SyncEvery + Cadence

Awaited(j) == NextPass <= TestedFrom(parameter, locked_at[j]) + Wait

NoticeInv ==
  /\ TypeOK
  /\ BeatOK
  /\ \A j \in RunningJobs \ suspects : Awaited(j)

LEMMA LatestFacts ==
  \A s, t \in Int : Latest(s, t) \in Int /\ Latest(s, t) >= s /\ Latest(s, t) >= t
                    /\ (Latest(s, t) = s \/ Latest(s, t) = t)
BY DEF Latest

\* From the time TestedFrom says, the reaper's test includes the occupancy.
LEMMA TestedFacts ==
  ASSUME NEW p \in [value : Value, previous : Value \cup {0}, updated_at : Nat], NEW t \in Nat
  PROVE  /\ TestedFrom(p, t) \in Int /\ TestedFrom(p, t) >= t /\ TestedFrom(p, t) >= p.updated_at
         /\ \A n \in Nat : n >= TestedFrom(p, t) => t <= n - ReaperLost(p, n)
<1>1. p.value \in Nat /\ p.updated_at \in Nat
  BY IntervalFacts
<1>2. CASE p.previous > p.value
  <2>1. RenewInterval(p.previous) \in Nat
    <3>1. p.previous \in Value
      BY <1>1, <1>2
    <3>2. QED
      BY <3>1, IntervalFacts
  <2>2. TestedFrom(p, t) = Latest(t + p.value, p.updated_at + RenewInterval(p.previous))
    BY <1>2 DEF TestedFrom
  <2>3. /\ TestedFrom(p, t) \in Int /\ TestedFrom(p, t) >= t + p.value
        /\ TestedFrom(p, t) >= p.updated_at + RenewInterval(p.previous)
    BY <1>1, <2>1, <2>2, LatestFacts
  <2>4. ASSUME NEW n \in Nat, n >= TestedFrom(p, t) PROVE t <= n - ReaperLost(p, n)
    <3>1. ~(n < p.updated_at + RenewInterval(p.previous))
      BY <1>1, <2>1, <2>3, <2>4
    <3>2. ReaperLost(p, n) = p.value
      BY <3>1 DEF ReaperLost
    <3>3. QED
      BY <1>1, <2>3, <2>4, <3>2
  <2>5. QED
    BY <1>1, <2>1, <2>3, <2>4
<1>3. CASE ~(p.previous > p.value)
  <2>1. TestedFrom(p, t) = Latest(t + p.value, p.updated_at + 0)
    BY <1>3 DEF TestedFrom
  <2>2. TestedFrom(p, t) \in Int /\ TestedFrom(p, t) >= t + p.value /\ TestedFrom(p, t) >= p.updated_at
    BY <1>1, <2>1, LatestFacts
  <2>3. \A n \in Nat : ReaperLost(p, n) = p.value
    BY <1>3 DEF ReaperLost
  <2>4. QED
    BY <1>1, <2>2, <2>3
<1>4. QED
  BY <1>2, <1>3

\* What the types say of the numbers of the clock.
LEMMA NoticeNumbers ==
  ASSUME TypeOK
  PROVE  /\ now \in Nat /\ syncAt \in Nat /\ SyncEvery \in Nat \ {0} /\ beatEntry \in BOOLEAN
         /\ reaperRow.interval \in Nat /\ reaperRow.interval \in Value
         /\ reaperRow.last \in Nat /\ reaperRow.last <= now /\ reaperRow.next \in Nat
         /\ parameter.value \in Value /\ parameter.value \in Nat
         /\ parameter.updated_at \in Nat /\ parameter.updated_at <= now
         /\ Cadence \in Int /\ Wait \in Int /\ NextPass \in Int /\ Reload \in Int
         /\ parameter \in [value : Value, previous : Value \cup {0}, updated_at : Nat]
         /\ \A j \in Job : locked_at[j] \in Nat /\ TestedFrom(parameter, locked_at[j]) \in Int
<1>1. /\ SyncEvery \in Nat \ {0} /\ Value \subseteq Nat
      /\ reaperRow \in [interval : Value, last : 0..now, next : Nat]
      /\ parameter \in [value : Value, previous : Value \cup {0}, updated_at : 0..now]
      /\ now \in Nat /\ syncAt \in Nat /\ locked_at \in [Job -> 0..now] /\ beatEntry \in BOOLEAN
  BY LostDetectionAssumption DEF TypeOK, LostDetectionAssumption
<1>2. /\ reaperRow.interval \in Value /\ reaperRow.last \in 0..now /\ reaperRow.next \in Nat
      /\ parameter.value \in Value /\ parameter.updated_at \in 0..now
      /\ parameter.previous \in Value \cup {0}
  BY <1>1
<1>3. Cadence \in Int
  BY <1>1, <1>2 DEF Cadence
<1>4. Wait \in Int /\ NextPass \in Int /\ Reload \in Int
  <2>1. /\ SyncEvery \in Int /\ reaperRow.next \in Int
        /\ Reload \in Int
    BY <1>1, <1>2 DEF Reload
  <2>2. QED
    BY <1>3, <2>1, LatestFacts DEF Wait, NextPass
<1>5. parameter \in [value : Value, previous : Value \cup {0}, updated_at : Nat]
  BY <1>1
<1>6. \A j \in Job : locked_at[j] \in Nat
  BY <1>1
<1>7. reaperRow.interval \in Nat /\ reaperRow.last \in Nat /\ reaperRow.last <= now
      /\ parameter.value \in Nat /\ parameter.updated_at \in Nat /\ parameter.updated_at <= now
  <2>1. reaperRow.interval \in Nat /\ parameter.value \in Nat
    BY <1>1, <1>2
  <2>2. \A n \in 0..now : n \in Nat /\ n <= now
    BY <1>1
  <2>3. QED
    BY <1>2, <2>1, <2>2
<1>8. \A j \in Job : TestedFrom(parameter, locked_at[j]) \in Int
  BY <1>5, <1>6, TestedFacts
<1>9. QED
  BY <1>1, <1>2, <1>3, <1>4, <1>5, <1>6, <1>7, <1>8

\* The next pass is never further off than the wait: a Job whose test starts now
\* or later is awaited.
LEMMA NextPassIsNear ==
  ASSUME TypeOK, BeatOK
  PROVE  NextPass <= now + Wait
<1>1. /\ now \in Nat /\ syncAt \in Nat /\ SyncEvery \in Nat /\ Cadence \in Int
      /\ reaperRow.last \in Nat /\ reaperRow.last <= now /\ reaperRow.next \in Nat
  BY NoticeNumbers
<1>2. reaperRow.next <= now + Cadence
  BY <1>1 DEF Cadence
<1>3. Wait >= Cadence /\ Wait >= SyncEvery /\ Wait \in Int
  BY <1>1, LatestFacts DEF Wait
<1>4. Reload \in Int /\ Reload <= now + SyncEvery
  BY <1>1 DEF BeatOK, Reload
<1>5. NextPass = reaperRow.next \/ NextPass = Reload
  BY DEF NextPass, Latest
<1>6. QED
  BY <1>1, <1>2, <1>3, <1>4, <1>5

LEMMA NoticeInit == Init => NoticeInv
<1>1. SUFFICES ASSUME Init PROVE NoticeInv
  OBVIOUS
<1>2. TypeOK
  BY <1>1, TypesInit
<1>3. /\ now = 0 /\ syncAt = 0 /\ beatEntry = FALSE /\ reaperRow = [interval |-> Seed, last |-> 0, next |-> 0]
      /\ parameter = [value |-> Seed, previous |-> 0, updated_at |-> 0] /\ RunningJobs = {}
  BY <1>1 DEF Init, RunningJobs
<1>4. NextPass = 0 /\ Cadence = 0 /\ SyncEvery \in Nat
  BY <1>2, <1>3, NoticeNumbers DEF NextPass, Reload, Latest, Cadence
<1>5. QED
  BY <1>2, <1>3, <1>4 DEF NoticeInv, BeatOK

\* Steps of the worker and of the reaper's stamps leave the clock alone; what they
\* leave running was so before, or is renewed now.
LEMMA NoticeRests ==
  ASSUME NoticeInv, TypeOK', UNCHANGED <<now, parameterVars, beatVars>>,
         \A j \in Job : j \in (RunningJobs \ suspects)'
           => \/ j \in RunningJobs \ suspects /\ locked_at'[j] = locked_at[j]
              \/ locked_at'[j] = now
  PROVE  NoticeInv'
<1>1. now' = now /\ parameter' = parameter /\ reaperRow' = reaperRow /\ beatEntry' = beatEntry /\ syncAt' = syncAt
  BY DEF parameterVars, beatVars
<1>2. NextPass' = NextPass /\ Cadence' = Cadence /\ Wait' = Wait
  BY <1>1 DEF NextPass, Reload, Cadence, Wait
<1>3. BeatOK'
  BY <1>1, <1>2 DEF NoticeInv, BeatOK
<1>4. ASSUME NEW j \in (RunningJobs \ suspects)' PROVE Awaited(j)'
  <2>0. j \in Job
    BY <1>4 DEF RunningJobs
  <2>1. CASE j \in RunningJobs \ suspects /\ locked_at'[j] = locked_at[j]
    BY <1>1, <1>2, <2>1 DEF NoticeInv, Awaited
  <2>2. CASE locked_at'[j] = now
    <3>1. TestedFrom(parameter, now) >= now /\ TestedFrom(parameter, now) \in Int
      BY NoticeNumbers, TestedFacts DEF NoticeInv
    <3>2. NextPass <= now + Wait
      BY NextPassIsNear DEF NoticeInv
    <3>3. NextPass <= TestedFrom(parameter, now) + Wait
      BY <3>1, <3>2, NoticeNumbers DEF NoticeInv
    <3>4. QED
      BY <1>1, <1>2, <2>2, <3>3 DEF Awaited
  <2>3. QED
    BY <1>4, <2>0, <2>1, <2>2
<1>5. QED
  BY <1>3, <1>4 DEF NoticeInv

\* Time passes Beat's timer by nothing.
LEMMA NoticeTick == ASSUME NoticeInv, TypeOK', Tick PROVE NoticeInv'
<1>1. /\ now' = now + 1 /\ parameter' = parameter /\ reaperRow' = reaperRow /\ beatEntry' = beatEntry
      /\ syncAt' = syncAt /\ status' = status /\ locked_at' = locked_at /\ suspects' = suspects
      /\ ~(syncAt <= now) /\ ~(beatEntry /\ reaperRow.next <= now)
  BY DEF Tick, BeatDue, parameterVars, jobVars, beatVars
<1>2. NextPass' = NextPass /\ Cadence' = Cadence /\ Wait' = Wait /\ RunningJobs' = RunningJobs
  BY <1>1 DEF NextPass, Reload, Cadence, Wait, RunningJobs
<1>3. /\ now \in Nat /\ syncAt \in Nat /\ SyncEvery \in Nat /\ NextPass \in Int /\ Reload \in Int
      /\ reaperRow.next \in Nat /\ beatEntry \in BOOLEAN
  BY NoticeNumbers DEF NoticeInv
<1>4. NextPass >= reaperRow.next /\ NextPass >= Reload
  BY <1>3 DEF NextPass, Latest
<1>5. now + 1 <= NextPass
  <2>1. CASE beatEntry
    BY <1>1, <1>3, <1>4, <2>1
  <2>2. CASE ~beatEntry
    BY <1>1, <1>3, <1>4, <2>2 DEF Reload
  <2>3. QED
    BY <2>1, <2>2
<1>6. BeatOK'
  BY <1>1, <1>2, <1>3, <1>5 DEF NoticeInv, BeatOK
<1>7. \A j \in (RunningJobs \ suspects)' : Awaited(j)'
  BY <1>1, <1>2 DEF NoticeInv, Awaited
<1>8. QED
  BY <1>6, <1>7 DEF NoticeInv

\* A write starts the wait again.
LEMMA NoticeSet == ASSUME NoticeInv, TypeOK', NEW v \in Value, SetParameter(v) PROVE NoticeInv'
<1>1. /\ now' = now /\ reaperRow' = reaperRow /\ beatEntry' = beatEntry /\ syncAt' = syncAt
      /\ status' = status /\ locked_at' = locked_at /\ suspects' = suspects
      /\ parameter' = [value |-> v, previous |-> parameter.value, updated_at |-> now]
  BY DEF SetParameter, jobVars, workerVars, beatVars
<1>2. NextPass' = NextPass /\ Cadence' = Cadence /\ Wait' = Wait /\ RunningJobs' = RunningJobs
  BY <1>1 DEF NextPass, Reload, Cadence, Wait, RunningJobs
<1>3. /\ now \in Nat /\ syncAt \in Nat /\ SyncEvery \in Nat /\ NextPass \in Int /\ Wait \in Int
      /\ Cadence \in Int /\ reaperRow.next \in Nat /\ reaperRow.last \in Nat /\ parameter.value \in Value
  BY NoticeNumbers DEF NoticeInv
<1>4. NextPass <= now + Wait
  BY NextPassIsNear DEF NoticeInv
<1>5. Wait <= SyncEvery + Cadence
  <2>1. Cadence >= 0
    BY <1>3 DEF Cadence, NoticeInv, BeatOK
  <2>2. Wait = Cadence \/ Wait = SyncEvery
    BY DEF Wait, Latest
  <2>3. QED
    BY <1>3, <2>1, <2>2
<1>6. BeatOK'
  BY <1>1, <1>2, <1>3, <1>4, <1>5 DEF NoticeInv, BeatOK
<1>7. ASSUME NEW j \in (RunningJobs \ suspects)' PROVE Awaited(j)'
  <2>1. j \in Job /\ locked_at[j] \in Nat
    BY <1>1, <1>2, <1>7, NoticeNumbers DEF NoticeInv, RunningJobs
  <2>2. parameter' \in [value : Value, previous : Value \cup {0}, updated_at : Nat]
    BY <1>1, <1>3
  <2>3. TestedFrom(parameter', locked_at[j]) >= now /\ TestedFrom(parameter', locked_at[j]) \in Int
    BY <1>1, <2>1, <2>2, TestedFacts
  <2>4. NextPass <= TestedFrom(parameter', locked_at[j]) + Wait
    BY <1>3, <1>4, <2>3
  <2>5. QED
    BY <1>1, <1>2, <2>4 DEF Awaited
<1>8. QED
  BY <1>6, <1>7 DEF NoticeInv

\* A reload puts the next pass off by nothing, whatever interval it writes.
LEMMA NoticeReload == ASSUME NoticeInv, TypeOK', BeatReloads PROVE NoticeInv'
<1>1. /\ now' = now /\ parameter' = parameter /\ status' = status /\ locked_at' = locked_at
      /\ suspects' = suspects /\ beatEntry' = TRUE /\ syncAt' = now + SyncEvery /\ syncAt <= now
      /\ reaperRow' = [reaperRow EXCEPT !.interval = parameter.value]
  BY DEF BeatReloads, parameterVars, jobVars
<1>2. /\ now \in Nat /\ syncAt \in Nat /\ SyncEvery \in Nat \ {0} /\ NextPass \in Int /\ Reload \in Int
      /\ Cadence \in Int /\ reaperRow.next \in Nat /\ reaperRow.last \in Nat /\ reaperRow.last <= now
      /\ beatEntry \in BOOLEAN /\ parameter.updated_at \in Nat
  BY NoticeNumbers DEF NoticeInv
<1>3. /\ reaperRow'.interval = parameter.value
      /\ reaperRow'.next = reaperRow.next /\ reaperRow'.last = reaperRow.last
  BY <1>1 DEF NoticeInv, TypeOK
<1>4. /\ syncAt = now /\ now <= NextPass /\ reaperRow.last <= reaperRow.next
  BY <1>1, <1>2 DEF NoticeInv, BeatOK
<1>5. Cadence' = Cadence /\ Wait' = Wait /\ RunningJobs' = RunningJobs
  BY <1>1, <1>3 DEF Cadence, Wait, RunningJobs
<1>6. Reload' = now /\ NextPass' = Latest(reaperRow.next, now)
  BY <1>1, <1>2, <1>3 DEF NextPass, Reload
<1>7. NextPass' = NextPass
  <2>1. CASE beatEntry
    <3>1. Reload < now
      BY <1>2, <1>4, <2>1 DEF Reload
    <3>2. NextPass = reaperRow.next /\ reaperRow.next >= now
      BY <1>2, <1>4, <3>1 DEF NextPass, Latest
    <3>3. QED
      BY <1>2, <1>6, <3>2 DEF Latest
  <2>2. CASE ~beatEntry
    BY <1>4, <1>6, <2>2 DEF NextPass, Reload
  <2>3. QED
    BY <2>1, <2>2
<1>8. BeatOK'
  <2>1. /\ reaperRow'.last <= reaperRow'.next /\ now <= syncAt' /\ syncAt' <= now + SyncEvery
        /\ now <= NextPass
    BY <1>1, <1>2, <1>3, <1>4
  <2>2. Cadence # parameter.value => NextPass <= parameter.updated_at + SyncEvery + Cadence
    <3>1. CASE reaperRow.interval = parameter.value
      BY <3>1 DEF NoticeInv, BeatOK
    <3>2. CASE reaperRow.interval # parameter.value
      <4>1. now <= parameter.updated_at + SyncEvery
        BY <1>4, <3>2 DEF NoticeInv, BeatOK
      <4>2. reaperRow.next <= now + Cadence /\ Cadence >= 0
        BY <1>2, <1>4 DEF Cadence
      <4>3. NextPass = reaperRow.next \/ NextPass = now
        BY <1>6, <1>7 DEF Latest
      <4>4. QED
        BY <1>2, <4>1, <4>2, <4>3
    <3>3. QED
      BY <3>1, <3>2
  <2>3. QED
    BY <1>1, <1>3, <1>5, <1>7, <2>1, <2>2 DEF BeatOK
<1>9. \A j \in (RunningJobs \ suspects)' : Awaited(j)'
  BY <1>1, <1>5, <1>7 DEF NoticeInv, Awaited
<1>10. QED
  BY <1>8, <1>9 DEF NoticeInv

\* A pass lists what the test includes, so what it leaves is tested later than now;
\* the next pass is one interval or one reload away.
LEMMA NoticePass == ASSUME NoticeInv, TypeOK', ReaperLists PROVE NoticeInv'
<1>1. /\ now' = now /\ parameter' = parameter /\ status' = status /\ locked_at' = locked_at
      /\ suspects' = suspects \cup {j \in RunningJobs : Stale(j)} /\ syncAt' = syncAt
      /\ reaperRow' = ConsumedReaperRow /\ beatEntry' = (beatEntry /\ reaperRow.next > now)
  BY DEF ReaperLists, parameterVars, jobVars
<1>2. /\ now \in Nat /\ syncAt \in Nat /\ SyncEvery \in Nat \ {0} /\ NextPass \in Int /\ Reload \in Int
      /\ Cadence \in Int /\ reaperRow.next \in Nat /\ reaperRow.last \in Nat /\ reaperRow.last <= now
      /\ beatEntry \in BOOLEAN /\ parameter.updated_at \in Nat /\ reaperRow.interval \in Nat
  BY NoticeNumbers DEF NoticeInv
<1>3. RunningJobs' = RunningJobs
  BY <1>1 DEF RunningJobs
<1>4. ASSUME NEW j \in (RunningJobs \ suspects)'
      PROVE  /\ j \in RunningJobs \ suspects /\ j \in Job
             /\ now < TestedFrom(parameter, locked_at[j])
  <2>1. j \in RunningJobs \ suspects /\ j \in Job /\ ~Stale(j)
    BY <1>1, <1>3, <1>4 DEF RunningJobs
  <2>2. ~(now >= TestedFrom(parameter, locked_at[j]))
    BY <1>2, <2>1, NoticeNumbers, TestedFacts DEF NoticeInv, Stale
  <2>3. QED
    BY <1>2, <2>1, <2>2, NoticeNumbers DEF NoticeInv
<1>5. CASE reaperRow.next > now
  <2>1. reaperRow' = reaperRow /\ beatEntry' = beatEntry
    BY <1>1, <1>2, <1>5 DEF ConsumedReaperRow
  <2>2. NextPass' = NextPass /\ Cadence' = Cadence /\ Wait' = Wait
    BY <1>1, <2>1 DEF NextPass, Reload, Cadence, Wait
  <2>3. BeatOK'
    BY <1>1, <2>1, <2>2 DEF NoticeInv, BeatOK
  <2>4. \A j \in (RunningJobs \ suspects)' : Awaited(j)'
    BY <1>1, <1>4, <2>2 DEF NoticeInv, Awaited
  <2>5. QED
    BY <2>3, <2>4 DEF NoticeInv
<1>6. CASE reaperRow.next <= now
  <2>1. /\ reaperRow'.interval = reaperRow.interval /\ reaperRow'.last = now
        /\ reaperRow'.next = now + reaperRow.interval /\ beatEntry' = FALSE
    <3>1. reaperRow \in [interval : Value, last : 0..now, next : Nat]
      BY DEF NoticeInv, TypeOK
    <3>2. reaperRow' = [reaperRow EXCEPT !.last = now, !.next = now + reaperRow.interval]
      BY <1>1, <1>6 DEF ConsumedReaperRow
    <3>3. beatEntry' = FALSE
      <4>1. ~(reaperRow.next > now)
        BY <1>2, <1>6
      <4>2. QED
        BY <1>1, <4>1
    <3>4. QED
      BY <3>1, <3>2, <3>3
  <2>2. Cadence' = reaperRow.interval /\ Wait' = Latest(reaperRow.interval, SyncEvery)
    BY <1>2, <2>1 DEF Cadence, Wait
  <2>3. NextPass' = Latest(now + reaperRow.interval, syncAt)
    BY <1>1, <2>1 DEF NextPass, Reload
  <2>4. /\ now <= syncAt /\ syncAt <= now + SyncEvery
    BY DEF NoticeInv, BeatOK
  <2>5. /\ NextPass' \in Int /\ Wait' \in Int /\ now <= NextPass' /\ NextPass' <= now + Wait'
    <3>1. \/ NextPass' = now + reaperRow.interval
          \/ NextPass' = syncAt
      BY <2>3 DEF Latest
    <3>2. Wait' \in Int /\ Wait' >= reaperRow.interval /\ Wait' >= SyncEvery
      BY <1>2, <2>2 DEF Latest
    <3>3. QED
      BY <1>2, <2>4, <3>1, <3>2
  <2>6. BeatOK'
    <3>1. reaperRow'.last <= reaperRow'.next
      BY <1>2, <2>1
    <3>2. reaperRow'.interval # parameter.value => syncAt <= parameter.updated_at + SyncEvery
      BY <2>1 DEF NoticeInv, BeatOK
    <3>3. Cadence' = reaperRow'.interval
      BY <2>1, <2>2
    <3>4. QED
      BY <1>1, <2>4, <2>5, <3>1, <3>2, <3>3 DEF BeatOK
  <2>7. ASSUME NEW j \in (RunningJobs \ suspects)' PROVE Awaited(j)'
    <3>1. TestedFrom(parameter, locked_at[j]) \in Int /\ now < TestedFrom(parameter, locked_at[j])
      BY <1>4, <2>7, NoticeNumbers DEF NoticeInv
    <3>2. NextPass' <= TestedFrom(parameter, locked_at[j]) + Wait'
      <4>1. \A n, p, w, t \in Int : p <= n + w /\ n < t => p <= t + w
        OBVIOUS
      <4>2. now \in Int
        BY <1>2
      <4>3. QED
        BY <2>5, <3>1, <4>1, <4>2
    <3>3. QED
      BY <1>1, <3>2 DEF Awaited
  <2>8. QED
    BY <2>6, <2>7 DEF NoticeInv
<1>7. QED
  BY <1>2, <1>5, <1>6

LEMMA NoticeStep == ASSUME NoticeInv, [Next]_vars PROVE NoticeInv'
<1>1. TypeOK'
  BY TypesStep DEF NoticeInv
<1>2. CASE UNCHANGED vars
  BY <1>1, <1>2, NoticeRests DEF vars, parameterVars, jobVars, beatVars, RunningJobs
<1>3. CASE Tick
  BY <1>1, <1>3, NoticeTick
<1>4. CASE WorkerReady
  BY <1>1, <1>4, NoticeRests DEF NoticeInv, TypeOK, WorkerReady, RunningJobs
<1>5. CASE WorkerCrash
  BY <1>1, <1>5, NoticeRests DEF WorkerCrash, RunningJobs
<1>6. ASSUME NEW j \in Job, Claim(j) PROVE NoticeInv'
  BY <1>1, <1>6, NoticeRests DEF NoticeInv, TypeOK, Claim, RunningJobs
<1>7. CASE Touch
  BY <1>1, <1>7, NoticeRests DEF Touch, RunningJobs
<1>8. CASE TouchRaises
  BY <1>1, <1>8, NoticeRests DEF TouchRaises, jobVars, RunningJobs
<1>9. CASE Arm
  BY <1>1, <1>9, NoticeRests DEF Arm, jobVars, RunningJobs
<1>10. ASSUME NEW v \in Value, SetParameter(v) PROVE NoticeInv'
  BY <1>1, <1>10, NoticeSet
<1>11. CASE BeatReloads
  BY <1>1, <1>11, NoticeReload
<1>12. CASE ReaperLists
  BY <1>1, <1>12, NoticePass
<1>13. ASSUME NEW j \in Job, ReaperStamps(j) PROVE NoticeInv'
  BY <1>1, <1>13, NoticeRests DEF NoticeInv, TypeOK, ReaperStamps, RunningJobs
<1>14. QED
  BY <1>2, <1>3, <1>4, <1>5, <1>6, <1>7, <1>8, <1>9, <1>10, <1>11, <1>12, <1>13 DEF Next

-----------------------------------------------------------------------------
(* Theorems *)

\* Every variable has its type, and no occupancy is dated in the future.
THEOREM DetectionTypes == Spec => []TypeOK
<1>1. Init => TypeOK
  BY TypesInit
<1>2. TypeOK /\ [Next]_vars => TypeOK'
  BY TypesStep
<1>3. QED
  BY <1>1, <1>2, PTL DEF Spec

\* However often the parameter is written, and whether or not the writes wait for
\* each other: a Job whose occupancy nobody renews is listed one cadence of the reaper
\* or one reload of Beat after its age reaches the value and the last write's grace is
\* over, and the cadence follows the value.
THEOREM LostIsNoticed == Spec => []LostJobIsNoticed
<1>1. Init => NoticeInv
  BY NoticeInit
<1>2. NoticeInv /\ [Next]_vars => NoticeInv'
  BY NoticeStep
<1>3. ASSUME NoticeInv PROVE LostJobIsNoticed
  <2>1. /\ now \in Nat /\ syncAt \in Nat /\ SyncEvery \in Nat \ {0} /\ NextPass \in Int /\ Wait \in Int
        /\ reaperRow.next \in Nat /\ reaperRow.last \in Nat /\ Cadence \in Int /\ parameter.updated_at \in Nat
    BY <1>3, NoticeNumbers DEF NoticeInv
  <2>2. now <= NextPass
    BY <1>3 DEF NoticeInv, BeatOK
  <2>3. ASSUME NEW j \in RunningJobs \ suspects
        PROVE  now <= TestedFrom(parameter, locked_at[j]) + Latest(Cadence, SyncEvery)
    <3>1. TestedFrom(parameter, locked_at[j]) \in Int
      BY <1>3, <2>3, NoticeNumbers DEF NoticeInv, RunningJobs
    <3>2. NextPass <= TestedFrom(parameter, locked_at[j]) + Wait
      BY <1>3, <2>3 DEF NoticeInv, Awaited
    <3>3. now <= TestedFrom(parameter, locked_at[j]) + Wait
      BY <2>1, <2>2, <3>1, <3>2
    <3>4. QED
      BY <3>3 DEF Wait
  <2>4. Cadence # parameter.value => now <= parameter.updated_at + SyncEvery + Cadence
    <3>1. CASE reaperRow.interval = parameter.value
      BY <1>3, <2>1, <2>2, <3>1 DEF NoticeInv, BeatOK
    <3>2. CASE reaperRow.interval # parameter.value
      <4>1. Cadence >= 0
        BY <1>3, <2>1 DEF NoticeInv, BeatOK, Cadence
      <4>2. now <= syncAt /\ syncAt <= parameter.updated_at + SyncEvery
        BY <1>3, <3>2 DEF NoticeInv, BeatOK
      <4>3. QED
        BY <2>1, <4>1, <4>2
    <3>3. QED
      BY <3>1, <3>2
  <2>5. QED
    BY <2>3, <2>4 DEF LostJobIsNoticed
<1>4. QED
  BY <1>1, <1>2, <1>3, PTL DEF Spec

\* When each change of job_lost_detection_sec settles before the next, the
\* reaper never fails the Job of a living worker: not while the parameter is
\* widened or tightened to any admitted value, and not when single renewals
\* raise.
THEOREM ReaperSparesTheLiving == OneAtATime /\ Spec => []LivingWorkerKeepsJob
<1>1. Init => LostInv
  BY LostInit
<1>2. OneAtATime /\ LostInv /\ [Next]_vars => LostInv'
  BY LostStep
<1>3. LostInv => LivingWorkerKeepsJob
  BY DEF LostInv
<1>4. CASE OneAtATime
  <2>1. LostInv /\ [Next]_vars => LostInv'
    BY <1>2, <1>4
  <2>2. QED
    BY <1>1, <1>3, <2>1, PTL DEF Spec
<1>5. QED
  BY <1>4
=============================================================================
