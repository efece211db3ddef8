-------------------------- MODULE AdmissionProofs --------------------------
(***************************************************************************)
(* What stands between a request and its data: the counters of Admission   *)
(* are the work there is, the revision fence of AccessViews lets no stale  *)
(* view answer, and through the views of AccessPolicy everyone sees and    *)
(* writes what the cell rule says.                                         *)
(***************************************************************************)
EXTENDS Admission, AccessViews, AccessPolicy, FiniteSetTheorems, WellFoundedInduction, TLAPS

-----------------------------------------------------------------------------
(* Admission *)

Present == {r \in HttpRequest : task[r] # "out"}
HoldingOf(a) == {r \in Holding : Owner[r] = a}

\* Work is submitted from inside, once, and a task that waits has work.
WorkFitsTask ==
  \A r \in HttpRequest : /\ task[r] = "in" => work[r] = "none"
                         /\ task[r] = "waiting" => work[r] \in {"queued", "running", "released", "done"}

AdmissionInv == AdmissionTypeOK /\ WorkFitsTask /\ SlotsCountWork

-----------------------------------------------------------------------------
(* Counters *)

LEMMA FiniteHolding ==
  /\ IsFiniteSet(Present) /\ IsFiniteSet(Holding)
  /\ \A a \in Actor : IsFiniteSet(HoldingOf(a))
<1>1. Present \subseteq HttpRequest /\ Holding \subseteq HttpRequest
  BY DEF Present, Holding, Works
<1>2. \A S : S \subseteq HttpRequest => IsFiniteSet(S)
  BY FS_Subset, AdmissionAssumption DEF AdmissionAssumption
<1>3. \A a \in Actor : HoldingOf(a) \subseteq HttpRequest
  BY <1>1 DEF HoldingOf
<1>4. QED
  BY <1>1, <1>2, <1>3

\* max(0, n - 1) is exact while something is counted.
LEMMA CountOneLess ==
  ASSUME NEW S, IsFiniteSet(S), NEW x \in S
  PROVE  Less(Cardinality(S)) = Cardinality(S \ {x})
<1>1. Cardinality(S) \in Nat /\ Cardinality(S \ {x}) = Cardinality(S) - 1
  BY FS_CardinalityType, FS_RemoveElement
<1>2. Cardinality(S) # 0
  BY FS_EmptySet
<1>3. QED
  BY <1>1, <1>2 DEF Less

LEMMA CountOneMore ==
  ASSUME NEW S, IsFiniteSet(S), NEW x, x \notin S
  PROVE  Cardinality(S \cup {x}) = Cardinality(S) + 1
BY FS_AddElement

LEMMA CountIsNat ==
  ASSUME NEW S, IsFiniteSet(S)
  PROVE  Cardinality(S) \in Nat
BY FS_CardinalityType

-----------------------------------------------------------------------------
(* Steps *)

LEMMA AdmissionInitInv == AdmissionInit => AdmissionInv
<1>1. SUFFICES ASSUME AdmissionInit PROVE AdmissionInv
  OBVIOUS
<1>2. AdmissionTypeOK /\ WorkFitsTask
  BY <1>1 DEF AdmissionInit, AdmissionTypeOK, WorkFitsTask
<1>3. Present = {} /\ Holding = {} /\ \A a \in Actor : HoldingOf(a) = {}
  BY <1>1 DEF AdmissionInit, Present, Holding, Works, HoldingOf
<1>4. SlotsCountWork
  BY <1>1, <1>3, FS_EmptySet, AdmissionAssumption
  DEF AdmissionInit, SlotsCountWork, Present, HoldingOf, AdmissionAssumption
<1>5. QED
  BY <1>2, <1>4 DEF AdmissionInv

LEMMA AdmissionTypeStep == AdmissionInv /\ [AdmissionNext]_admissionVars => AdmissionTypeOK' /\ WorkFitsTask'
<1>1. SUFFICES ASSUME AdmissionInv, [AdmissionNext]_admissionVars
               PROVE  AdmissionTypeOK' /\ WorkFitsTask'
  OBVIOUS
<1>2. AdmissionTypeOK /\ WorkFitsTask /\ Owner \in [HttpRequest -> Actor]
  BY <1>1, AdmissionAssumption DEF AdmissionInv, AdmissionAssumption
<1>3. \A n \in Nat : Less(n) \in Nat
  BY DEF Less
<1>4. CASE UNCHANGED admissionVars
  BY <1>2, <1>4 DEF admissionVars, AdmissionTypeOK, WorkFitsTask
<1>5. ASSUME NEW r \in HttpRequest,
             Enter(r) \/ Answer(r) \/ Submit(r) \/ StartWork(r) \/ Release(r)
             \/ FreeThread(r) \/ AnswerWork(r) \/ CancelTask(r)
      PROVE  AdmissionTypeOK' /\ WorkFitsTask'
  <2>1. CASE Enter(r) \/ Answer(r)
    BY <1>2, <1>3, <2>1 DEF Enter, Answer, Leaves, AdmissionTypeOK, WorkFitsTask
  <2>2. CASE Submit(r)
    BY <1>2, <2>2 DEF Submit, AdmissionTypeOK, WorkFitsTask
  <2>3. CASE StartWork(r) \/ FreeThread(r)
    BY <1>2, <2>3 DEF StartWork, FreeThread, AdmissionTypeOK, WorkFitsTask
  <2>4. CASE Release(r)
    BY <1>2, <1>3, <2>4 DEF Release, AdmissionTypeOK, WorkFitsTask
  <2>5. CASE AnswerWork(r)
    BY <1>2, <1>3, <2>5 DEF AnswerWork, Leaves, AdmissionTypeOK, WorkFitsTask
  <2>6. CASE CancelTask(r)
    BY <1>2, <1>3, <2>6 DEF CancelTask, Leaves, AdmissionTypeOK, WorkFitsTask
  <2>7. QED
    BY <1>5, <2>1, <2>2, <2>3, <2>4, <2>5, <2>6
<1>6. QED
  BY <1>1, <1>4, <1>5 DEF AdmissionNext

\* One request enters, leaves or stays: the middleware's counter follows.
LEMMA InflightStep ==
  AdmissionInv /\ [AdmissionNext]_admissionVars =>
    inflight' = Cardinality(Present') /\ inflight' <= MaxInflight
<1>1. SUFFICES ASSUME AdmissionInv, [AdmissionNext]_admissionVars
               PROVE  inflight' = Cardinality(Present') /\ inflight' <= MaxInflight
  OBVIOUS
<1>2. /\ AdmissionTypeOK /\ inflight = Cardinality(Present) /\ inflight <= MaxInflight
      /\ IsFiniteSet(Present) /\ inflight \in Nat /\ MaxInflight \in Nat
  BY <1>1, FiniteHolding, AdmissionAssumption
  DEF AdmissionInv, SlotsCountWork, Present, AdmissionTypeOK, AdmissionAssumption
<1>3. ASSUME task' = task, inflight' = inflight
      PROVE  inflight' = Cardinality(Present') /\ inflight' <= MaxInflight
  BY <1>2, <1>3 DEF Present
<1>4. ASSUME NEW r \in HttpRequest, task[r] # "out", Leaves(r)
      PROVE  inflight' = Cardinality(Present') /\ inflight' <= MaxInflight
  <2>1. r \in Present /\ Present' = Present \ {r}
    BY <1>2, <1>4 DEF Leaves, Present, AdmissionTypeOK
  <2>2. inflight' = Cardinality(Present \ {r})
    BY <1>2, <1>4, <2>1, CountOneLess DEF Leaves
  <2>3. inflight' <= MaxInflight
    BY <1>2, <1>4 DEF Leaves, Less
  <2>4. QED
    BY <2>1, <2>2, <2>3
<1>5. ASSUME NEW r \in HttpRequest, Enter(r)
      PROVE  inflight' = Cardinality(Present') /\ inflight' <= MaxInflight
  <2>1. r \notin Present /\ Present' = Present \cup {r}
    BY <1>2, <1>5 DEF Enter, Present, AdmissionTypeOK
  <2>2. Cardinality(Present \cup {r}) = Cardinality(Present) + 1
    BY <1>2, <2>1, CountOneMore
  <2>3. QED
    BY <1>2, <1>5, <2>1, <2>2 DEF Enter
<1>6. ASSUME NEW r \in HttpRequest, Submit(r)
      PROVE  inflight' = Cardinality(Present') /\ inflight' <= MaxInflight
  <2>1. Present' = Present
    BY <1>2, <1>6 DEF Submit, Present, AdmissionTypeOK
  <2>2. QED
    BY <1>2, <1>6, <2>1 DEF Submit
<1>7. CASE UNCHANGED admissionVars
  BY <1>3, <1>7 DEF admissionVars
<1>8. ASSUME NEW r \in HttpRequest, StartWork(r) \/ Release(r) \/ FreeThread(r)
      PROVE  inflight' = Cardinality(Present') /\ inflight' <= MaxInflight
  BY <1>3, <1>8 DEF StartWork, Release, FreeThread
<1>9. ASSUME NEW r \in HttpRequest, Answer(r) \/ AnswerWork(r) \/ CancelTask(r)
      PROVE  inflight' = Cardinality(Present') /\ inflight' <= MaxInflight
  BY <1>4, <1>9 DEF Answer, AnswerWork, CancelTask
<1>10. QED
  BY <1>1, <1>5, <1>6, <1>7, <1>8, <1>9 DEF AdmissionNext

\* What is counted against the pool and the shares.
PoolCounted ==
  /\ total = Cardinality(Holding) /\ total <= Slots
  /\ \A a \in Actor : perActor[a] = Cardinality(HoldingOf(a)) /\ perActor[a] <= Share

\* A work is admitted, released, or changes hands: both counters follow.
LEMMA PoolStep == AdmissionInv /\ [AdmissionNext]_admissionVars => PoolCounted'
<1>1. SUFFICES ASSUME AdmissionInv, [AdmissionNext]_admissionVars PROVE PoolCounted'
  OBVIOUS
<1>2. /\ AdmissionTypeOK /\ WorkFitsTask /\ PoolCounted
      /\ IsFiniteSet(Holding) /\ \A a \in Actor : IsFiniteSet(HoldingOf(a))
      /\ Owner \in [HttpRequest -> Actor] /\ Slots \in Nat /\ Share \in Nat
  BY <1>1, FiniteHolding, AdmissionAssumption
  DEF AdmissionInv, SlotsCountWork, PoolCounted, HoldingOf, AdmissionAssumption
<1>3. ASSUME total' = total, perActor' = perActor, Holding' = Holding
      PROVE  PoolCounted'
  BY <1>2, <1>3 DEF PoolCounted, HoldingOf
<1>4. ASSUME NEW r \in HttpRequest, Submit(r)
      PROVE  PoolCounted'
  <2>1. r \notin Holding /\ Holding' = Holding \cup {r}
    BY <1>2, <1>4 DEF Submit, Holding, Works, AdmissionTypeOK, WorkFitsTask
  <2>2. \A a \in Actor : HoldingOf(a)' = IF a = Owner[r] THEN HoldingOf(a) \cup {r} ELSE HoldingOf(a)
    BY <2>1 DEF HoldingOf
  <2>3. total' = Cardinality(Holding') /\ total' <= Slots
    BY <1>2, <1>4, <2>1, CountOneMore DEF Submit, Admissible, PoolCounted, AdmissionTypeOK
  <2>4. ASSUME NEW a \in Actor
        PROVE  perActor'[a] = Cardinality(HoldingOf(a)') /\ perActor'[a] <= Share
    <3>1. CASE a = Owner[r]
      <4>1. r \notin HoldingOf(a) /\ IsFiniteSet(HoldingOf(a))
        BY <1>2, <2>1 DEF HoldingOf
      <4>2. Cardinality(HoldingOf(a)') = Cardinality(HoldingOf(a)) + 1
        BY <2>2, <3>1, <4>1, CountOneMore
      <4>3. QED
        BY <1>2, <1>4, <3>1, <4>2 DEF Submit, Admissible, PoolCounted, AdmissionTypeOK
    <3>2. CASE a # Owner[r]
      BY <1>2, <1>4, <2>2, <3>2 DEF Submit, PoolCounted, AdmissionTypeOK
    <3>3. QED
      BY <3>1, <3>2
  <2>5. QED
    BY <2>3, <2>4 DEF PoolCounted
<1>5. ASSUME NEW r \in HttpRequest, Release(r)
      PROVE  PoolCounted'
  <2>1. r \in Holding /\ Holding' = Holding \ {r}
    BY <1>2, <1>5 DEF Release, Holding, Works, AdmissionTypeOK
  <2>2. \A a \in Actor : HoldingOf(a)' = IF a = Owner[r] THEN HoldingOf(a) \ {r} ELSE HoldingOf(a)
    BY <2>1 DEF HoldingOf
  <2>3. total' = Cardinality(Holding')
    BY <1>2, <1>5, <2>1, CountOneLess DEF Release, PoolCounted
  <2>4. total' <= Slots
    BY <1>2, <1>5 DEF Release, PoolCounted, Less, AdmissionTypeOK
  <2>5. ASSUME NEW a \in Actor
        PROVE  perActor'[a] = Cardinality(HoldingOf(a)') /\ perActor'[a] <= Share
    <3>1. CASE a = Owner[r]
      <4>1. r \in HoldingOf(a) /\ IsFiniteSet(HoldingOf(a))
        BY <1>2, <2>1, <3>1 DEF HoldingOf
      <4>2. Cardinality(HoldingOf(a)') = Less(Cardinality(HoldingOf(a)))
        BY <2>2, <3>1, <4>1, CountOneLess
      <4>3. perActor'[a] = Less(perActor[a])
        BY <1>2, <1>5, <3>1 DEF Release, AdmissionTypeOK
      <4>4. QED
        BY <1>2, <4>2, <4>3 DEF PoolCounted, Less, AdmissionTypeOK
    <3>2. CASE a # Owner[r]
      BY <1>2, <1>5, <2>2, <3>2 DEF Release, PoolCounted, AdmissionTypeOK
    <3>3. QED
      BY <3>1, <3>2
  <2>6. QED
    BY <2>3, <2>4, <2>5 DEF PoolCounted
<1>6. CASE UNCHANGED admissionVars
  BY <1>3, <1>6 DEF admissionVars, Holding, Works
<1>7. ASSUME NEW r \in HttpRequest,
             Enter(r) \/ Answer(r) \/ StartWork(r) \/ FreeThread(r) \/ AnswerWork(r) \/ CancelTask(r)
      PROVE  PoolCounted'
  <2>1. Holding' = Holding
    BY <1>2, <1>7 DEF Enter, Answer, StartWork, FreeThread, AnswerWork, CancelTask,
       Holding, Works, AdmissionTypeOK
  <2>2. QED
    BY <1>3, <1>7, <2>1 DEF Enter, Answer, StartWork, FreeThread, AnswerWork, CancelTask
<1>8. QED
  BY <1>1, <1>4, <1>5, <1>6, <1>7 DEF AdmissionNext

-----------------------------------------------------------------------------
LEMMA AdmissionInvHolds == AdmissionSpec => []AdmissionInv
<1>1. AdmissionInv /\ [AdmissionNext]_admissionVars => AdmissionInv'
  <2>1. SUFFICES ASSUME AdmissionInv, [AdmissionNext]_admissionVars PROVE AdmissionInv'
    OBVIOUS
  <2>2. SlotsCountWork'
    BY <2>1, InflightStep, PoolStep DEF SlotsCountWork, PoolCounted, Present, HoldingOf
  <2>3. QED
    BY <2>1, <2>2, AdmissionTypeStep DEF AdmissionInv
<1>2. QED
  BY <1>1, AdmissionInitInv, PTL DEF AdmissionSpec

\* The in-flight counter, the slots and the shares are the work they stand for
\* on every path, and never above their limits, for any number of requests and
\* actors (backend/core/load_shed.py, core/bulkhead.py).
THEOREM CountersAreWork == AdmissionSpec => []SlotsCountWork
<1>1. AdmissionInv => SlotsCountWork
  BY DEF AdmissionInv
<1>2. QED
  BY <1>1, AdmissionInvHolds, PTL

\* Requests and pieces of work are where the code can leave them, and no counter is below
\* zero.
THEOREM CountersAreTyped == AdmissionSpec => []AdmissionTypeOK
BY AdmissionInvHolds, PTL DEF AdmissionInv

-----------------------------------------------------------------------------
(* The revision fence *)

EditorAt == {"idle", "read", "committed", "minting"}
CallerAt == {"idle", "asked", "half", "ready", "refused", "minting"}
EditorRow == [at : EditorAt, rev : Nat]
CallerRow == [at : CallerAt, rev : Nat, since : Nat]
JobRow == [at : Working \cup {"queued", "unlocked", "dead"}, rev : Nat, shows : Nat,
           latest : BOOLEAN]

\* Of the policies up to p, one was committed over a number that was taken.
Raced(p) == \E k \in raced : k <= p

\* The Jobs that read a number, and then a policy that is not older.
InOrder ==
  {j \in JobRow : /\ j.at \in {"revised", "compiled"} => j.rev \in 1..(policy + 1)
                  /\ j.at = "compiled" => j.shows <= policy
                  /\ j.at = "revised" => j.rev <= policy + 1 \/ Raced(policy)
                  /\ j.at = "compiled" => j.rev <= j.shows + 1 \/ Raced(j.shows)}

StoreFits == /\ policy \in Nat /\ revision \in Nat /\ raced \in SUBSET (1..policy)
             /\ policy <= MaxEdits /\ revision \in 1..(policy + 1)
             /\ revision = policy + 1 \/ raced # {}
ViewFits == /\ view \in [rev : Nat, shows : Nat]
            /\ view.rev \in 1..(policy + 1) /\ view.shows <= policy
            /\ view.rev <= view.shows + 1 \/ Raced(view.shows)
CallFits(q) == q.at \in {"asked", "half", "ready"} => q.rev = q.since + 1 \/ Raced(q.since)
CallsFit == caller \in [Caller -> CallerRow] /\ \A c \in Caller : CallFits(caller[c])
LastFits == last \in [Caller -> {"none", "pending", "rows", "empty"}]
EditsFit == editor \in [Editor -> EditorRow]
            /\ \A e \in Editor : editor[e].at = "read" => editor[e].rev \in 1..(policy + 1)
FlagsFit == failed \in BOOLEAN /\ faults \in 0..MaxFaults

\* Until two commits take one number, numbers count the policies.
FenceInv == /\ StoreFits /\ ViewFits /\ CallsFit
            /\ EditsFit /\ jobs \in Seq(InOrder) /\ LastFits

LEMMA KeepsElements ==
  ASSUME NEW S, NEW s \in Seq(S), NEW i \in DOMAIN s
  PROVE  /\ s[i] \in S
         /\ RemoveAt(s, i) \in Seq(S)
         /\ \A x \in S : [s EXCEPT ![i] = x] \in Seq(S)
<1>1. i \in 1..Len(s) /\ Len(s) \in Nat
  OBVIOUS
<1>2. SubSeq(s, 1, i - 1) \in Seq(S) /\ SubSeq(s, i + 1, Len(s)) \in Seq(S)
  BY <1>1
<1>3. RemoveAt(s, i) \in Seq(S)
  BY <1>2 DEF RemoveAt
<1>4. QED
  BY <1>1, <1>3

LEMMA SequenceOfMore ==
  ASSUME NEW S, NEW T, S \subseteq T, NEW s \in Seq(S)
  PROVE  s \in Seq(T)
<1>1. s \in [1..Len(s) -> S] /\ Len(s) \in Nat
  OBVIOUS
<1>2. s \in [1..Len(s) -> T]
  BY <1>1
<1>3. QED
  BY <1>1, <1>2

\* The number that is stored is that of the policy, or one was taken twice.
LEMMA StoredNumber == StoreFits => revision = policy + 1 \/ Raced(policy)
<1>1. SUFFICES ASSUME StoreFits, raced # {} PROVE Raced(policy)
  BY DEF StoreFits
<1>2. PICK k \in raced : TRUE
  BY <1>1
<1>3. k \in 1..policy
  BY <1>1 DEF StoreFits
<1>4. QED
  BY <1>1, <1>2, <1>3 DEF StoreFits, Raced

LEMMA FenceInitInv == ViewsInit => FenceInv
<1>1. SUFFICES ASSUME ViewsInit PROVE FenceInv
  OBVIOUS
<1>2. StoreFits /\ ViewFits
  BY <1>1, AccessViewsAssumption DEF ViewsInit, StoreFits, ViewFits
<1>3. CallsFit
  BY <1>1 DEF ViewsInit, CallsFit, CallerRow, CallerAt, CallFits, Away
<1>4. EditsFit /\ jobs \in Seq(InOrder) /\ LastFits
  BY <1>1, AccessViewsAssumption DEF ViewsInit, EditsFit, EditorRow, EditorAt, Resting, LastFits
<1>5. QED
  BY <1>2, <1>3, <1>4 DEF FenceInv

\* A new Job has read nothing, and to the others only that it is the latest is news.
LEMMA MintKeepsOrder ==
  ASSUME FenceInv, Minted, UNCHANGED storeVars
  PROVE  jobs' \in Seq(InOrder')
<1>1. InOrder' = InOrder
  BY DEF storeVars, InOrder, Raced
<1>2. DEFINE new == [at |-> "queued", rev |-> 0, shows |-> 0, latest |-> TRUE]
             old == [i \in DOMAIN jobs |-> [jobs[i] EXCEPT !.latest = FALSE]]
<1>3. new \in InOrder
  BY DEF InOrder, JobRow
<1>4. \A j \in InOrder : [j EXCEPT !.latest = FALSE] \in InOrder
  BY DEF InOrder, JobRow
<1>5. jobs \in Seq(InOrder) /\ DOMAIN jobs = 1..Len(jobs) /\ Len(jobs) \in Nat
  BY DEF FenceInv
<1>6. \A i \in DOMAIN jobs : jobs[i] \in InOrder
  BY <1>5
<1>7. old \in [1..Len(jobs) -> InOrder]
  BY <1>4, <1>5, <1>6
<1>8. old \in Seq(InOrder)
  BY <1>5, <1>7
<1>9. jobs' = Append(old, new)
  BY DEF Minted
<1>10. HIDE DEF old, new
<1>11. QED
  BY <1>1, <1>3, <1>8, <1>9

\* While no edit commits, what was in order stays so.
LEMMA FenceStoreKept ==
  ASSUME FenceInv, UNCHANGED storeVars
  PROVE  /\ StoreFits' /\ InOrder' = InOrder
         /\ (UNCHANGED view => ViewFits')
         /\ (UNCHANGED caller => CallsFit')
         /\ (UNCHANGED editor => EditsFit')
BY DEF FenceInv, storeVars, StoreFits, ViewFits, CallsFit, CallFits, InOrder, Raced, EditsFit

\* A Job of JobStep, Raise or WorkerDies.
LEMMA FenceJobStep ==
  ASSUME FenceInv, NEW i \in DOMAIN jobs, JobStep(i) \/ Raise(i) \/ WorkerDies(i)
  PROVE  FenceInv'
<1>1. /\ jobs \in Seq(InOrder) /\ StoreFits /\ ViewFits
  BY DEF FenceInv
<1>2. PICK j : j = jobs[i]
  OBVIOUS
<1>3. j \in InOrder /\ j \in JobRow
  BY <1>1, <1>2, KeepsElements DEF InOrder
<1>4. UNCHANGED storeVars /\ UNCHANGED <<editor, caller, last>>
  BY DEF JobStep, TakeLock, LockHeld, ReadRevision, Compile, Replace, Bind, SetViewsRevision,
         Succeed, Reap, Raise, WorkerDies, Step
<1>5. StoreFits' /\ InOrder' = InOrder /\ CallsFit' /\ EditsFit' /\ (UNCHANGED view => ViewFits')
  BY <1>4, FenceStoreKept
<1>6. LastFits'
  BY <1>4 DEF FenceInv, LastFits
<1>7. \A x \in InOrder : [jobs EXCEPT ![i] = x] \in Seq(InOrder)
  BY <1>1, KeepsElements
<1>8. RemoveAt(jobs, i) \in Seq(InOrder)
  BY <1>1, KeepsElements
<1>9. SUFFICES ViewFits' /\ jobs' \in Seq(InOrder)
  BY <1>5, <1>6 DEF FenceInv
<1>10. CASE TakeLock(i)
  <2>1. [j EXCEPT !.at = "locked"] \in InOrder
    BY <1>3 DEF InOrder, JobRow, Working
  <2>2. QED
    BY <1>2, <1>5, <1>7, <1>10, <2>1 DEF TakeLock, Step, builtVars
<1>11. CASE ReadRevision(i)
  <2>1. /\ revision \in 1..(policy + 1) /\ policy \in Nat
        /\ revision <= policy + 1 \/ Raced(policy)
    BY <1>1, StoredNumber DEF StoreFits
  <2>2. [j EXCEPT !.at = "revised", !.rev = revision] \in InOrder
    <3>1. PICK n \in JobRow : n = [j EXCEPT !.at = "revised", !.rev = revision]
      <4>1. revision \in Nat
        BY <2>1
      <4>2. [j EXCEPT !.at = "revised", !.rev = revision] \in JobRow
        BY <1>3, <4>1 DEF JobRow, Working
      <4>3. QED
        BY <4>2
    <3>2. n.at = "revised" /\ n.rev = revision
      BY <1>3, <3>1 DEF JobRow
    <3>3. QED
      BY <2>1, <3>1, <3>2 DEF InOrder
  <2>3. QED
    BY <1>2, <1>5, <1>7, <1>11, <2>2 DEF ReadRevision, Step, builtVars
<1>12. CASE Compile(i)
  <2>1. j.at = "revised"
    BY <1>2, <1>12 DEF Compile, Step
  <2>2. [j EXCEPT !.at = "compiled", !.shows = policy] \in InOrder
    <3>1. policy \in Nat /\ j.rev \in 1..(policy + 1) /\ (j.rev <= policy + 1 \/ Raced(policy))
      BY <1>1, <1>3, <2>1 DEF InOrder, StoreFits
    <3>2. PICK n \in JobRow : n = [j EXCEPT !.at = "compiled", !.shows = policy]
      BY <1>3, <3>1 DEF JobRow, Working
    <3>3. n.at = "compiled" /\ n.rev = j.rev /\ n.shows = policy
      BY <1>3, <3>2 DEF JobRow
    <3>4. /\ n.rev \in 1..(policy + 1) /\ n.shows <= policy
          /\ n.rev <= n.shows + 1 \/ Raced(n.shows)
      BY <3>1, <3>3
    <3>5. n \in InOrder
      BY <3>2, <3>3, <3>4 DEF InOrder
    <3>6. QED
      BY <3>2, <3>5
  <2>3. QED
    BY <1>2, <1>5, <1>7, <1>12, <2>2 DEF Compile, Step, builtVars
<1>13. CASE Replace(i)
  <2>1. j.at = "compiled" /\ view' = [rev |-> j.rev, shows |-> j.shows]
    BY <1>2, <1>13 DEF Replace, Step
  <2>2. ViewFits'
    BY <1>3, <1>4, <2>1 DEF ViewFits, InOrder, JobRow, Raced, storeVars
  <2>3. [j EXCEPT !.at = "replaced", !.shows = 0] \in InOrder
    BY <1>3 DEF InOrder, JobRow, Working
  <2>4. QED
    BY <1>2, <1>7, <1>13, <2>2, <2>3 DEF Replace, Step
<1>14. CASE Bind(i)
  <2>1. [j EXCEPT !.at = "bound"] \in InOrder
    BY <1>3 DEF InOrder, JobRow, Working
  <2>2. QED
    BY <1>2, <1>5, <1>7, <1>14, <2>1 DEF Bind, Step
<1>15. CASE SetViewsRevision(i)
  <2>1. [j EXCEPT !.at = "unlocked", !.rev = 0] \in InOrder
    BY <1>3 DEF InOrder, JobRow
  <2>2. QED
    BY <1>2, <1>5, <1>7, <1>15, <2>1 DEF SetViewsRevision, Step
<1>16. CASE WorkerDies(i)
  <2>1. [j EXCEPT !.at = "dead", !.rev = 0, !.shows = 0] \in InOrder
    BY <1>3 DEF InOrder, JobRow
  <2>2. QED
    BY <1>2, <1>5, <1>7, <1>16, <2>1 DEF WorkerDies, builtVars
<1>17. CASE LockHeld(i) \/ Succeed(i) \/ Reap(i) \/ Raise(i)
  BY <1>5, <1>8, <1>17 DEF LockHeld, Succeed, Reap, Raise, JobFails, builtVars
<1>18. QED
  BY <1>10, <1>11, <1>12, <1>13, <1>14, <1>15, <1>16, <1>17 DEF JobStep

\* The policy and its number move on together, unless the number was taken.
LEMMA CommitKeepsFence ==
  ASSUME FenceInv, NEW e \in Editor, EditCommits(e)
  PROVE  FenceInv'
<1>1. StoreFits /\ ViewFits /\ CallsFit /\ jobs \in Seq(InOrder)
  BY DEF FenceInv
<1>2. PICK r : r = editor[e]
  OBVIOUS
<1>3. /\ r \in EditorRow /\ editor \in [Editor -> EditorRow]
      /\ \A d \in Editor : editor[d].at = "read" => editor[d].rev \in 1..(policy + 1)
      /\ r.rev \in 1..(policy + 1) /\ policy < MaxEdits
  BY <1>2 DEF FenceInv, EditsFit, EditCommits
<1>4. /\ policy' = policy + 1 /\ revision' = r.rev + 1
      /\ raced' = IF revision = r.rev THEN raced ELSE raced \cup {policy'}
      /\ editor' = [editor EXCEPT ![e] = [at |-> "committed", rev |-> 0]]
      /\ UNCHANGED <<view, caller, jobs, last>>
  BY <1>2 DEF EditCommits, EditUnchanged, builtVars
<1>5. StoreFits'
  BY <1>1, <1>3, <1>4, AccessViewsAssumption DEF StoreFits, EditorRow
<1>6. policy \in Nat /\ policy' >= policy /\ raced \subseteq raced'
  BY <1>1, <1>4 DEF StoreFits
<1>7. \A p : Raced(p) => Raced(p)'
  BY <1>6 DEF Raced
<1>8. Raced(policy) => Raced(policy)'
  <2>1. SUFFICES ASSUME Raced(policy) PROVE Raced(policy)'
    OBVIOUS
  <2>2. PICK k \in raced : k <= policy
    BY <2>1 DEF Raced
  <2>3. k \in Nat
    BY <1>1, <2>2 DEF StoreFits
  <2>4. k <= policy' /\ k \in raced'
    BY <1>4, <1>6, <2>2, <2>3
  <2>5. QED
    BY <2>4 DEF Raced
<1>9. ViewFits' /\ CallsFit'
  <2>1. CallsFit'
    BY <1>1, <1>4, <1>7 DEF CallsFit, CallFits, Raced
  <2>2. PICK w \in [rev : Nat, shows : Nat] : w = view
    BY <1>1 DEF ViewFits
  <2>3. /\ w.rev \in 1..(policy + 1) /\ w.shows <= policy
        /\ w.rev <= w.shows + 1 \/ Raced(w.shows)
    BY <1>1, <2>2 DEF ViewFits
  <2>4. w.rev \in 1..(policy' + 1) /\ w.shows <= policy'
    BY <1>4, <1>6, <2>2, <2>3
  <2>5. w.rev <= w.shows + 1 \/ Raced(w.shows)'
    BY <1>7, <2>3
  <2>6. view' = w
    BY <1>4, <2>2
  <2>7. ViewFits'
    BY <2>2, <2>4, <2>5, <2>6 DEF ViewFits, Raced
  <2>8. QED
    BY <2>1, <2>7
<1>10. InOrder \subseteq InOrder'
  BY <1>4, <1>6, <1>7, <1>8 DEF InOrder, JobRow, Raced
<1>11. jobs' \in Seq(InOrder')
  BY <1>1, <1>4, <1>10, SequenceOfMore
<1>12. EditsFit' /\ LastFits'
  <2>1. [at |-> "committed", rev |-> 0] \in EditorRow
    BY DEF EditorRow, EditorAt
  <2>2. editor' \in [Editor -> EditorRow]
    BY <1>3, <1>4, <2>1
  <2>3. \A d \in Editor : editor'[d].at = "read" => editor'[d].rev \in 1..(policy + 1)
    BY <1>3, <1>4
  <2>4. QED
    BY <1>4, <1>6, <2>2, <2>3 DEF EditsFit, FenceInv, LastFits
<1>13. QED
  BY <1>5, <1>9, <1>11, <1>12 DEF FenceInv

LEMMA FenceEditStep ==
  ASSUME FenceInv, NEW e \in Editor, EditReads(e) \/ EditStep(e) \/ EditorDies(e)
  PROVE  FenceInv'
<1>1. CASE EditCommits(e)
  BY <1>1, CommitKeepsFence
<1>2. CASE EditReads(e) \/ EditLooks(e) \/ EditMints(e) \/ EditorDies(e)
  <2>1. UNCHANGED storeVars /\ UNCHANGED <<view, caller, last>>
    BY <1>2 DEF EditReads, EditLooks, EditMints, EditorDies, EditUnchanged, builtVars
  <2>2. StoreFits' /\ InOrder' = InOrder /\ ViewFits' /\ CallsFit' /\ LastFits'
    BY <2>1, FenceStoreKept DEF FenceInv, LastFits
  <2>3. jobs' \in Seq(InOrder')
    BY <1>2, <2>1, <2>2, MintKeepsOrder DEF EditReads, EditLooks, EditMints, EditorDies, FenceInv
  <2>4. /\ editor \in [Editor -> EditorRow] /\ revision \in 1..(policy + 1) /\ policy \in Nat
        /\ \A d \in Editor : editor[d].at = "read" => editor[d].rev \in 1..(policy + 1)
        /\ policy' = policy
    BY <2>1 DEF FenceInv, StoreFits, EditsFit, storeVars
  <2>5. EditsFit'
    BY <1>2, <2>4 DEF EditReads, EditLooks, EditMints, EditorDies, Resting, EditorRow, EditorAt, EditsFit
  <2>6. QED
    BY <2>2, <2>3, <2>5 DEF FenceInv
<1>3. QED
  BY <1>1, <1>2 DEF EditStep

\* A request holds the number of the policy it began with.
LEMMA FenceCallStep ==
  ASSUME FenceInv, NEW c \in Caller, CallStep(c)
  PROVE  FenceInv'
<1>1. UNCHANGED storeVars /\ UNCHANGED <<view, editor>>
  BY DEF CallStep, Ask, LooksReady, IsReady, Refuse, CallMints, Query, CallUnchanged, builtVars
<1>2. StoreFits' /\ InOrder' = InOrder /\ ViewFits' /\ EditsFit'
  BY <1>1, FenceStoreKept DEF FenceInv
<1>3. jobs' \in Seq(InOrder')
  BY <1>1, <1>2, MintKeepsOrder
     DEF CallStep, Ask, LooksReady, IsReady, Refuse, CallMints, Query, FenceInv
<1>4. caller \in [Caller -> CallerRow] /\ \A d \in Caller : CallFits(caller[d])
  BY DEF FenceInv, CallsFit
<1>5. PICK q : q = caller[c]
  OBVIOUS
<1>6. q \in CallerRow /\ CallFits(q)
  BY <1>4, <1>5
<1>7. PICK n \in CallerRow : caller' = [caller EXCEPT ![c] = n] /\ CallFits(n)
  <2>1. CASE Ask(c)
    <3>1. [at |-> "asked", rev |-> revision, since |-> policy] \in CallerRow
      BY DEF FenceInv, StoreFits, CallerRow, CallerAt
    <3>2. CallFits([at |-> "asked", rev |-> revision, since |-> policy])
      BY StoredNumber DEF FenceInv, CallFits
    <3>3. QED
      BY <2>1, <3>1, <3>2 DEF Ask
  <2>2. CASE LooksReady(c)
    <3>1. q.at = "asked"
      BY <1>5, <2>2 DEF LooksReady
    <3>2. [q EXCEPT !.at = "half"] \in CallerRow /\ CallFits([q EXCEPT !.at = "half"])
      BY <1>6, <3>1 DEF CallerRow, CallerAt, CallFits
    <3>3. Refused \in CallerRow /\ CallFits(Refused)
      BY DEF Refused, Away, CallerRow, CallerAt, CallFits
    <3>4. QED
      BY <1>5, <2>2, <3>2, <3>3 DEF LooksReady
  <2>3. CASE IsReady(c)
    <3>1. q.at = "half"
      BY <1>5, <2>3 DEF IsReady
    <3>2. [q EXCEPT !.at = "ready"] \in CallerRow /\ CallFits([q EXCEPT !.at = "ready"])
      BY <1>6, <3>1 DEF CallerRow, CallerAt, CallFits
    <3>3. Refused \in CallerRow /\ CallFits(Refused)
      BY DEF Refused, Away, CallerRow, CallerAt, CallFits
    <3>4. QED
      BY <1>5, <2>3, <3>2, <3>3 DEF IsReady
  <2>4. Away \in CallerRow /\ CallFits(Away)
    BY DEF Away, CallerRow, CallerAt, CallFits
  <2>5. [q EXCEPT !.at = "minting"] \in CallerRow /\ CallFits([q EXCEPT !.at = "minting"])
    BY <1>6 DEF CallerRow, CallerAt, CallFits
  <2>6. CASE Refuse(c) \/ CallMints(c) \/ Query(c)
    BY <1>5, <2>4, <2>5, <2>6 DEF Refuse, CallMints, Query, Ends
  <2>7. QED
    BY <2>1, <2>2, <2>3, <2>6 DEF CallStep
<1>8. caller' \in [Caller -> CallerRow] /\ \A d \in Caller : CallFits(caller'[d])
  BY <1>4, <1>7
<1>9. CallsFit'
  BY <1>1, <1>8 DEF CallsFit, CallFits, Raced, storeVars
<1>10. LastFits'
  BY DEF CallStep, Ask, LooksReady, IsReady, Refuse, CallMints, Query, Ends, FenceInv, LastFits
<1>11. QED
  BY <1>2, <1>3, <1>9, <1>10 DEF FenceInv

LEMMA FenceStepInv == FenceInv /\ [ViewsNext]_viewVars => FenceInv'
<1>1. SUFFICES ASSUME FenceInv, [ViewsNext]_viewVars PROVE FenceInv'
  OBVIOUS
<1>2. CASE MinutePasses \/ Startup \/ UNCHANGED viewVars
  <2>1. UNCHANGED storeVars /\ UNCHANGED <<view, editor, caller, last>>
    BY <1>2 DEF MinutePasses, Startup, viewVars, builtVars
  <2>2. StoreFits' /\ InOrder' = InOrder /\ ViewFits' /\ CallsFit' /\ EditsFit' /\ LastFits'
    BY <1>1, <2>1, FenceStoreKept DEF FenceInv, LastFits
  <2>3. jobs' \in Seq(InOrder')
    BY <1>1, <1>2, <2>1, <2>2, MintKeepsOrder DEF MinutePasses, Startup, viewVars, FenceInv
  <2>4. QED
    BY <1>1, <2>1, <2>2, <2>3 DEF FenceInv
<1>3. QED
  BY <1>1, <1>2, FenceJobStep, FenceEditStep, FenceCallStep DEF ViewsNext

\* A request that is answered with rows is shown a policy that was in force when it
\* began, or a later one, unless two edits took one policy_revision
\* (enforce.py begin_data and acl.rev_ok, jobs.py rebuild_entity_views).
THEOREM RowsAreNeverStale == ViewsSpec => NeverStale
<1> DEFINE Stale(c) == /\ caller[c].at = "ready" /\ caller'[c].at = "idle" /\ last'[c] = "rows"
                       /\ ~(view.shows >= caller[c].since \/ Raced(caller[c].since))
<1>1. FenceInv /\ [ViewsNext]_viewVars => \A c \in Caller : ~Stale(c)
  <2>1. SUFFICES ASSUME FenceInv, [ViewsNext]_viewVars, NEW c \in Caller, Stale(c) PROVE FALSE
    OBVIOUS
  <2>2. caller[c] \in CallerRow /\ CallFits(caller[c]) /\ caller[c].at = "ready"
    BY <2>1 DEF FenceInv, CallsFit
  <2>3. caller \in [Caller -> CallerRow] /\ ViewFits /\ StoreFits /\ DOMAIN last = Caller
    BY <2>1 DEF FenceInv, CallsFit, LastFits
  <2>4. caller'[c] # caller[c]
    BY <2>1, <2>2
  <2>5. Query(c)
    <3>1. UNCHANGED caller \/ \E d \in Caller : CallStep(d)
      BY <2>1 DEF ViewsNext, viewVars, JobStep, TakeLock, LockHeld, ReadRevision, Compile, Replace,
         Bind, SetViewsRevision, Succeed, Reap, Raise, WorkerDies, Step, EditReads, EditStep,
         EditCommits, EditLooks, EditMints, EditorDies, EditUnchanged, MinutePasses, Startup
    <3>2. PICK d \in Caller : CallStep(d)
      BY <2>4, <3>1
    <3>3. \A x \in Caller : x # d => caller'[x] = caller[x]
      BY <2>3, <3>2 DEF CallStep, Ask, LooksReady, IsReady, Refuse, CallMints, Query, Ends
    <3>4. CallStep(c)
      BY <2>4, <3>2, <3>3
    <3>5. QED
      BY <2>2, <3>4 DEF CallStep, Ask, LooksReady, IsReady, Refuse, CallMints
  <2>6. view.rev = caller[c].rev
    <3>1. last' = [last EXCEPT ![c] = IF view.rev = caller[c].rev THEN "rows" ELSE "empty"]
      BY <2>5 DEF Query, Ends
    <3>2. QED
      BY <2>1, <2>3, <3>1
  <2>7. PICK q : q = caller[c]
    OBVIOUS
  <2>8. PICK w : w = view
    OBVIOUS
  <2>9. /\ q \in CallerRow /\ w \in [rev : Nat, shows : Nat] /\ w.rev = q.rev
        /\ q.rev = q.since + 1 \/ Raced(q.since)
        /\ w.rev <= w.shows + 1 \/ Raced(w.shows)
        /\ w.shows < q.since /\ ~Raced(q.since)
    BY <2>1, <2>2, <2>3, <2>6, <2>7, <2>8 DEF CallFits, ViewFits, CallerRow
  <2>10. Raced(w.shows)
    BY <2>9 DEF CallerRow
  <2>11. PICK k \in raced : k <= w.shows
    BY <2>10 DEF Raced
  <2>12. k \in Nat
    BY <2>3, <2>11 DEF StoreFits
  <2>13. k <= q.since
    BY <2>9, <2>11, <2>12 DEF CallerRow
  <2>14. QED
    BY <2>9, <2>11, <2>13 DEF Raced
<1>2. FenceInv /\ [ViewsNext]_viewVars
        => [\A c \in Caller : caller[c].at = "ready" /\ caller'[c].at = "idle" /\ last'[c] = "rows" =>
              view.shows >= caller[c].since \/ \E k \in raced : k <= caller[c].since]_viewVars
  BY <1>1 DEF Raced
<1>3. ViewsSpec => []FenceInv
  BY FenceInitInv, FenceStepInv, PTL DEF ViewsSpec
<1>4. QED
  BY <1>2, <1>3, PTL DEF ViewsSpec, NeverStale

LEMMA FlagsStep == FenceInv /\ FlagsFit /\ [ViewsNext]_viewVars => FlagsFit'
<1>1. SUFFICES ASSUME FenceInv, FlagsFit, [ViewsNext]_viewVars PROVE FlagsFit'
  OBVIOUS
<1>2. \A i \in DOMAIN jobs : jobs[i].latest \in BOOLEAN
  BY <1>1, KeepsElements DEF FenceInv, InOrder, JobRow
<1>3. Fault => faults' \in 0..MaxFaults
  BY <1>1, AccessViewsAssumption DEF Fault, FlagsFit
<1>4. ASSUME NEW i \in DOMAIN jobs, JobStep(i) \/ Raise(i) \/ WorkerDies(i) PROVE FlagsFit'
  BY <1>1, <1>2, <1>3, <1>4
     DEF JobStep, TakeLock, LockHeld, ReadRevision, Compile, Replace, Bind, SetViewsRevision,
         Succeed, Reap, Raise, WorkerDies, Step, JobFails, FlagsFit
<1>5. ASSUME NEW e \in Editor, EditReads(e) \/ EditStep(e) \/ EditorDies(e) PROVE FlagsFit'
  BY <1>1, <1>3, <1>5
     DEF EditReads, EditStep, EditCommits, EditLooks, EditMints, EditorDies, Minted, FlagsFit
<1>6. ASSUME NEW c \in Caller, CallStep(c) PROVE FlagsFit'
  BY <1>1, <1>6
     DEF CallStep, Ask, LooksReady, IsReady, Refuse, CallMints, Query, CallUnchanged, Minted, FlagsFit
<1>7. CASE MinutePasses \/ Startup \/ UNCHANGED viewVars
  BY <1>1, <1>7 DEF MinutePasses, Startup, Minted, viewVars, FlagsFit
<1>8. QED
  BY <1>1, <1>4, <1>5, <1>6, <1>7 DEF ViewsNext

\* The fence's variables have their types: no number is above that of the latest
\* policy, and no view shows a policy that is still to come.
THEOREM FenceIsTyped == ViewsSpec => []ViewsTypeOK
<1>1. ViewsInit => FlagsFit
  <2>1. 0 \in 0..MaxFaults /\ FALSE \in BOOLEAN
    BY AccessViewsAssumption
  <2>2. QED
    BY <2>1 DEF ViewsInit, FlagsFit
<1>2. FenceInv /\ FlagsFit => ViewsTypeOK
  <2>1. SUFFICES ASSUME FenceInv, FlagsFit PROVE ViewsTypeOK
    OBVIOUS
  <2>2. /\ policy \in 0..MaxEdits /\ revision \in 1..(MaxEdits + 1) /\ raced \subseteq 1..policy
        /\ view.rev \in 1..(MaxEdits + 1) /\ view.shows \in 0..policy
    BY <2>1, AccessViewsAssumption DEF FenceInv, StoreFits, ViewFits
  <2>3. \A e \in Editor : editor[e].at \in EditorAt
    BY <2>1 DEF FenceInv, EditsFit, EditorRow
  <2>4. \A c \in Caller : caller[c].at \in CallerAt
    BY <2>1 DEF FenceInv, CallsFit, CallerRow
  <2>5. \A i \in DOMAIN jobs : jobs[i].at \in Working \cup {"queued", "unlocked", "dead"}
    BY <2>1, KeepsElements DEF FenceInv, InOrder, JobRow
  <2>6. QED
    BY <2>1, <2>2, <2>3, <2>4, <2>5 DEF FlagsFit, ViewsTypeOK, EditorAt, CallerAt
<1>3. QED
  BY <1>1, <1>2, FenceInitInv, FenceStepInv, FlagsStep, PTL DEF ViewsSpec

-----------------------------------------------------------------------------
(* What a view shows *)

PolicyTyped ==
  /\ head \subseteq Attribute
  /\ \A a \in Attribute : ladder[a] \in Ladder[a] \cup {<<Clear>>}
  /\ \A r \in Existing(restriction) : restriction[r].mode \in {"all", "only", "except"}
  /\ DOMAIN ladder = Attribute /\ DOMAIN profile = Profile /\ DOMAIN grant = Grant

\* The greatest and the smallest of some levels.
LEMMA ExtremesOf ==
  ASSUME NEW n \in Nat, NEW S \in SUBSET (1..n), S # {}
  PROVE  /\ Max(S) \in S /\ \A y \in S : y <= Max(S)
         /\ Min(S) \in S /\ \A y \in S : Min(S) <= y
<1> DEFINE I == {x..n : x \in S}
           J == {1..x : x \in S}
<1>1. IsWellFoundedOn(StrictSubsetOrdering(Nat), FiniteSubsetsOf(Nat))
  BY FS_StrictSubsetOrderingWellFounded
<1>2. I \subseteq FiniteSubsetsOf(Nat) /\ I # {} /\ J \subseteq FiniteSubsetsOf(Nat) /\ J # {}
  <2>1. \A x \in 1..n : IsFiniteSet(x..n) /\ x..n \subseteq Nat /\ IsFiniteSet(1..x) /\ 1..x \subseteq Nat
    BY FS_Interval
  <2>2. QED
    BY <2>1 DEF FiniteSubsetsOf
<1>3. Max(S) \in S /\ \A y \in S : y <= Max(S)
  <2>1. PICK i \in I : \A j \in I : ~(<<j, i>> \in StrictSubsetOrdering(Nat))
    BY <1>1, <1>2, WFMin
  <2>2. PICK x \in S : i = x..n
    BY <2>1
  <2>3. ASSUME NEW y \in S PROVE x >= y
    <3>1. ~(<<y..n, x..n>> \in StrictSubsetOrdering(Nat))
      BY <2>1, <2>2
    <3>2. QED
      BY <2>2, <3>1 DEF StrictSubsetOrdering
  <2>4. \E z \in S : \A y \in S : z >= y
    BY <2>3
  <2>5. Max(S) \in S /\ \A y \in S : Max(S) >= y
    BY <2>4 DEF Max
  <2>6. QED
    BY <2>5
<1>4. Min(S) \in S /\ \A y \in S : Min(S) <= y
  <2>1. PICK i \in J : \A j \in J : ~(<<j, i>> \in StrictSubsetOrdering(Nat))
    BY <1>1, <1>2, WFMin
  <2>2. PICK x \in S : i = 1..x
    BY <2>1
  <2>3. ASSUME NEW y \in S PROVE x <= y
    <3>1. ~(<<1..y, 1..x>> \in StrictSubsetOrdering(Nat))
      BY <2>1, <2>2
    <3>2. QED
      BY <2>2, <3>1 DEF StrictSubsetOrdering
  <2>4. \E z \in S : \A y \in S : z <= y
    BY <2>3
  <2>5. QED
    BY <2>4 DEF Min
<1>5. QED
  BY <1>3, <1>4

\* Levels and then ceilings, or ceilings and then levels.
LEMMA CeilingsCommute ==
  ASSUME NEW n \in Nat, NEW R \in SUBSET (1..n), R # {}, NEW C \in SUBSET (1..n)
  PROVE  /\ Min({Max({r} \cup C) : r \in R}) = Max({Min(R)} \cup C)
         /\ Max({Min(R)} \cup C) = 1 <=> 1 \in R /\ C \subseteq {1}
<1> DEFINE L(r) == Max({r} \cup C)
           S == {L(r) : r \in R}
<1>1. PICK m \in R : m = Min(R) /\ \A r \in R : m <= r
  BY ExtremesOf
<1>2. ASSUME NEW r \in R PROVE L(r) \in {r} \cup C /\ \A y \in {r} \cup C : y <= L(r)
  <2>1. {r} \cup C \in SUBSET (1..n) /\ {r} \cup C # {}
    OBVIOUS
  <2>2. QED
    BY <2>1, ExtremesOf
<1>3. \A r \in R : L(r) \in 1..n /\ L(m) <= L(r)
  <2>1. ASSUME NEW r \in R PROVE L(r) \in 1..n /\ L(m) <= L(r)
    <3>1. L(r) \in 1..n /\ L(m) \in 1..n /\ m \in 1..n /\ r \in 1..n
      BY <1>1, <1>2
    <3>2. CASE L(m) = m
      <4>1. r <= L(r)
        BY <1>2
      <4>2. QED
        BY <1>1, <3>1, <3>2, <4>1
    <3>3. CASE L(m) \in C
      <4>1. L(m) <= L(r)
        BY <1>2, <3>3
      <4>2. QED
        BY <3>1, <4>1
    <3>4. QED
      BY <1>1, <1>2, <3>2, <3>3
  <2>2. QED
    BY <2>1
<1>4. Min(S) = L(m)
  <2>1. S \in SUBSET (1..n) /\ S # {}
    BY <1>3
  <2>2. PICK s \in S : s = Min(S) /\ \A y \in S : s <= y
    BY <2>1, ExtremesOf
  <2>3. L(m) \in S /\ s <= L(m) /\ L(m) <= s
    BY <1>1, <1>3, <2>2
  <2>4. s \in 1..n /\ L(m) \in 1..n
    BY <2>1, <2>3
  <2>5. s = L(m)
    BY <2>3, <2>4
  <2>6. QED
    BY <2>2, <2>5
<1>5. L(m) = 1 <=> 1 \in R /\ C \subseteq {1}
  <2>1. m \in 1..n /\ L(m) \in 1..n /\ \A r \in R : r \in 1..n
    BY <1>1, <1>3
  <2>2. m <= L(m) /\ (\A c \in C : c <= L(m) /\ c \in 1..n) /\ (L(m) = m \/ L(m) \in C)
    BY <1>1, <1>2
  <2>3. ASSUME L(m) = 1 PROVE 1 \in R /\ C \subseteq {1}
    <3>1. m = 1 /\ \A c \in C : c = 1
      BY <2>1, <2>2, <2>3
    <3>2. QED
      BY <1>1, <3>1
  <2>4. ASSUME 1 \in R, C \subseteq {1} PROVE L(m) = 1
    <3>1. m <= 1
      BY <1>1, <2>4
    <3>2. m = 1
      BY <2>1, <3>1
    <3>3. QED
      BY <2>2, <2>4, <3>2
  <2>5. QED
    BY <2>3, <2>4
<1>6. QED
  BY <1>1, <1>4, <1>5

LEMMA RankFacts ==
  ASSUME PolicyTyped, NEW a \in Attribute
  PROVE  /\ Len(ladder[a]) \in Nat
         /\ \A level : OnLadder(a, level) =>
              Rank(a, level) \in 1..Len(ladder[a]) /\ (Rank(a, level) = 1 <=> level = Clear)
<1>1. PICK l : l = ladder[a]
  OBVIOUS
<1>2. /\ Len(l) \in Nat \ {0} /\ DOMAIN l = 1..Len(l) /\ l[1] = Clear
      /\ \A i, j \in DOMAIN l : l[i] = l[j] => i = j
  <2>1. CASE l \in Ladder[a]
    BY <2>1, AccessPolicyAssumption
  <2>2. CASE l = <<Clear>>
    BY <2>2
  <2>3. QED
    BY <1>1, <2>1, <2>2 DEF PolicyTyped
<1>3. ASSUME NEW level, OnLadder(a, level)
      PROVE  Rank(a, level) \in 1..Len(l) /\ (Rank(a, level) = 1 <=> level = Clear)
  <2>1. \E i \in DOMAIN l : l[i] = level
    BY <1>1, <1>3 DEF OnLadder, Range
  <2>2. Rank(a, level) \in DOMAIN l /\ l[Rank(a, level)] = level
    BY <1>1, <2>1 DEF Rank
  <2>3. 1 \in DOMAIN l
    BY <1>2
  <2>4. QED
    BY <1>2, <2>2, <2>3
<1>4. QED
  BY <1>1, <1>2, <1>3

\* The parts of the rule: restrictions in force, columns, rows, levels, ceilings.
RuleRestrictions(p, verb) == {r \in On(verb) : ~BrokenRestriction(r) /\ Concerns(r, p)}
Cols(g) == DOMAIN profile[grant[g].profile]
LevelOf(g, a) == Rank(a, profile[grant[g].profile][a])
RuleColumns(gs, rs) == (UNION {Cols(g) : g \in gs}) \ (UNION {restriction[r].deny : r \in rs})
RuleRows(gs, rs) == {row \in DataRow : /\ \E g \in gs : row \in grant[g].rule.holds
                                       /\ \A r \in rs : row \in restriction[r].rule.holds}
Lit(gs, row, a) == {h \in gs : a \in Cols(h) /\ row \in grant[h].rule.holds}
LevelsOf(gs, a) == {LevelOf(g, a) : g \in gs}
CeilingsOf(rs, a) == {Rank(a, restriction[r].ceiling[a]) : r \in {q \in rs : a \in DOMAIN restriction[q].ceiling}}
RuleCell(gs, rs, row, a) ==
  IF LevelsOf(Lit(gs, row, a), a) = {} THEN Withheld
  ELSE Max({Min(LevelsOf(Lit(gs, row, a), a))} \cup CeilingsOf(rs, a))

LEMMA RuleIs ==
  ASSUME NEW p, NEW who, NEW verb, ~Hidden(p, verb),
         NEW gs, gs = Reaching(who, verb), NEW rs, rs = RuleRestrictions(p, verb)
  PROVE  RuleAnswer(p, who, verb) =
           [columns |-> RuleColumns(gs, rs),
            cells |-> [row \in RuleRows(gs, rs) |-> [a \in RuleColumns(gs, rs) |-> RuleCell(gs, rs, row, a)]],
            marks |-> [row \in RuleRows(gs, rs) |->
                        {a \in RuleColumns(gs, rs) : LevelsOf(Lit(gs, row, a), a) = {}}]]
BY Zenon DEF RuleAnswer, RuleRestrictions, RuleColumns, RuleRows, RuleCell, LevelsOf, LevelOf, CeilingsOf, Lit, Cols

LEMMA SoundCells ==
  ASSUME PolicyTyped, NEW cols, Sound(cols)
  PROVE  \A a \in DOMAIN cols : a \in head /\ a \in Attribute /\ OnLadder(a, cols[a])
BY DEF Sound, PolicyTyped

\* Who is not hidden is shown what the restrictions in force leave.
LEMMA InForceIs ==
  ASSUME NEW p, NEW who, NEW verb, ~Hidden(p, verb)
  PROVE  /\ InForce(ViewOf(p, who, verb)) = RuleRestrictions(p, verb)
         /\ ~ForceEmpty(ViewOf(p, who, verb))
<1>1. PICK v : v = ViewOf(p, who, verb)
  OBVIOUS
<1>2. v.verb = verb /\ v.profiles = Held(who, verb) /\ v.included = Included(p, verb)
  BY <1>1 DEF ViewOf, View
<1>3. \A r : restriction[r].mode = "all" => Concerns(r, p)
  BY DEF Concerns
<1>4. InForce(v) = RuleRestrictions(p, verb)
  BY <1>2, <1>3 DEF InForce, RuleRestrictions, Included, Selective
<1>5. ~\E r \in On(verb) : restriction[r].mode = "all" /\ BrokenRestriction(r)
  BY <1>3 DEF Hidden
<1>6. ~\E x \in Held(who, verb) : BrokenProfile(x)
  BY DEF Held, Reaching, BrokenGrant
<1>7. QED
  BY <1>1, <1>2, <1>4, <1>5, <1>6 DEF ForceEmpty

LEMMA ReachingFacts ==
  ASSUME PolicyTyped, NEW p, NEW who, NEW verb, NEW g \in Reaching(who, verb)
  PROVE  /\ g \in ViewGrants(ViewOf(p, who, verb)) /\ grant[g].profile \in Held(who, verb)
         /\ \A a \in Cols(g) : /\ a \in head /\ a \in Attribute
                               /\ OnLadder(a, profile[grant[g].profile][a])
<1>1. /\ g \in Existing(grant) /\ ~BrokenGrant(g) /\ grant[g].active /\ verb \in grant[g].verbs
      /\ grant[g].profile \in Held(who, verb)
  BY DEF Reaching, Held
<1>2. Sound(profile[grant[g].profile])
  BY <1>1 DEF BrokenGrant, BrokenProfile
<1>3. g \in ViewGrants(ViewOf(p, who, verb))
  BY <1>1 DEF ViewGrants, ViewOf, View
<1>4. QED
  BY <1>1, <1>2, <1>3, SoundCells DEF Cols

LEMMA ColumnsAgree ==
  ASSUME PolicyTyped, NEW p, NEW who, NEW verb, ~Hidden(p, verb)
  PROVE  ColumnsOf(ViewOf(p, who, verb)) = RuleColumns(Reaching(who, verb), RuleRestrictions(p, verb))
<1>1. PICK v : v = ViewOf(p, who, verb)
  OBVIOUS
<1>2. v.profiles = Held(who, verb) /\ InForce(v) = RuleRestrictions(p, verb) /\ ~ForceEmpty(v)
  BY <1>1, InForceIs DEF ViewOf, View
<1>3. \A a : Listing(v, a) # {} <=> \E g \in Reaching(who, verb) : a \in Cols(g)
  BY <1>2 DEF Listing, Held, Cols
<1>4. \A a : (\E g \in Reaching(who, verb) : a \in Cols(g)) => a \in head
  BY ReachingFacts
<1>5. \A a : a \in ColumnsOf(v)
              <=> a \in head /\ a \notin UNION {restriction[r].deny : r \in InForce(v)} /\ Listing(v, a) # {}
  BY <1>2, Zenon DEF ColumnsOf
<1>6. \A a : a \in UNION {Cols(g) : g \in Reaching(who, verb)} <=> \E g \in Reaching(who, verb) : a \in Cols(g)
  OBVIOUS
<1>7. \A a : a \in RuleColumns(Reaching(who, verb), RuleRestrictions(p, verb))
              <=> /\ \E g \in Reaching(who, verb) : a \in Cols(g)
                  /\ a \notin UNION {restriction[r].deny : r \in InForce(v)}
  BY <1>2, <1>6, Zenon DEF RuleColumns
<1>8. QED
  BY <1>1, <1>3, <1>4, <1>5, <1>7

\* The view tests a subject in SQL as the policy does, unless a Role decides for
\* someone who has none.
LEMMA SqlAgrees ==
  ASSUME PolicyTyped, NEW p, NEW verb, RoleDecides(p, verb), NEW r \in Selective(verb)
  PROVE  /\ AppliesSql(r, p) = "true" <=> Concerns(r, p)
         /\ AppliesSql(r, p) = "false" <=> ~Concerns(r, p)
<1>1. restriction[r].mode \in {"only", "except"}
  BY DEF Selective, On, PolicyTyped
<1>2. PICK subjects : subjects = restriction[r].subjects
  OBVIOUS
<1>3. \A s \in subjects : ~(s[1] = "role" /\ role[p] = NoRole)
  BY <1>2 DEF RoleDecides
<1>4. CASE subjects \cap Identities(p) # {}
  <2>1. MatchSql(r, p) = "true"
    BY <1>2, <1>3, <1>4 DEF MatchSql
  <2>2. QED
    BY <1>1, <1>2, <1>4, <2>1 DEF AppliesSql, Concerns
<1>5. CASE subjects \cap Identities(p) = {}
  <2>1. MatchSql(r, p) = "false"
    BY <1>2, <1>3, <1>5 DEF MatchSql
  <2>2. QED
    BY <1>1, <1>2, <1>5, <2>1 DEF AppliesSql, Concerns
<1>6. QED
  BY <1>4, <1>5

LEMMA RowsAgree ==
  ASSUME PolicyTyped, NEW p, NEW who, NEW verb, ~Hidden(p, verb), RoleDecides(p, verb), NEW row
  PROVE  /\ Covers(ViewOf(p, who, verb), Reaching(who, verb), row)
              = {g \in Reaching(who, verb) : row \in grant[g].rule.holds}
         /\ Admits(ViewOf(p, who, verb), p, row)
              <=> \A r \in RuleRestrictions(p, verb) : row \in restriction[r].rule.holds
<1>1. PICK v : v = ViewOf(p, who, verb)
  OBVIOUS
<1>2. /\ v.verb = verb /\ v.included = Included(p, verb)
      /\ InForce(v) = RuleRestrictions(p, verb) /\ ~ForceEmpty(v)
  BY <1>1, InForceIs DEF ViewOf, View
<1>3. Covers(v, Reaching(who, verb), row) = {g \in Reaching(who, verb) : row \in grant[g].rule.holds}
  BY <1>1, ReachingFacts DEF Covers
<1>4. \A r \in Included(p, verb) : AppliesSql(r, p) = "true"
  BY SqlAgrees DEF Included
<1>5. \A r \in Selective(verb) \ Included(p, verb) : AppliesSql(r, p) = "false"
  BY SqlAgrees DEF Included, Hidden, Selective
<1>6. QED
  BY <1>1, <1>2, <1>3, <1>4, <1>5 DEF Admits

Ceiling(rs, g, a) == Max({LevelOf(g, a)} \cup CeilingsOf(rs, a))

LEMMA LoweredIs ==
  ASSUME NEW p, NEW who, NEW verb, ~Hidden(p, verb), NEW g, NEW a
  PROVE  Lowered(ViewOf(p, who, verb), g, a) = Ceiling(RuleRestrictions(p, verb), g, a)
<1>1. Ceilings(ViewOf(p, who, verb), a) = CeilingsOf(RuleRestrictions(p, verb), a)
  BY InForceIs, Zenon DEF Ceilings, CeilingsOf
<1>2. QED
  BY <1>1, Zenon DEF Lowered, LevelOf, Ceiling

LEMMA CeilingsTyped ==
  ASSUME PolicyTyped, NEW p, NEW verb, NEW a \in Attribute
  PROVE  CeilingsOf(RuleRestrictions(p, verb), a) \in SUBSET (1..Len(ladder[a]))
<1>1. ASSUME NEW r \in RuleRestrictions(p, verb), a \in DOMAIN restriction[r].ceiling
      PROVE  Rank(a, restriction[r].ceiling[a]) \in 1..Len(ladder[a])
  <2>1. Sound(restriction[r].ceiling)
    BY DEF RuleRestrictions, BrokenRestriction
  <2>2. QED
    BY <1>1, <2>1, SoundCells, RankFacts
<1>2. QED
  BY <1>1 DEF CeilingsOf

\* Of several grants, the most revealing level and then the ceilings.
LEMMA BestIs ==
  ASSUME PolicyTyped, NEW p, NEW verb, NEW a \in Attribute, NEW some, some # {},
         \A g \in some : OnLadder(a, profile[grant[g].profile][a])
  PROVE  LET C == CeilingsOf(RuleRestrictions(p, verb), a)
             most == Max({Min(LevelsOf(some, a))} \cup C) IN
         /\ LevelsOf(some, a) # {}
         /\ Min({Ceiling(RuleRestrictions(p, verb), g, a) : g \in some}) = most
         /\ most = 1 <=> 1 \in LevelsOf(some, a) /\ C \subseteq {1}
<1> DEFINE C == CeilingsOf(RuleRestrictions(p, verb), a)
           R == LevelsOf(some, a)
<1>1. C \in SUBSET (1..Len(ladder[a])) /\ Len(ladder[a]) \in Nat
  BY CeilingsTyped, RankFacts
<1>2. \A g \in some : LevelOf(g, a) \in 1..Len(ladder[a])
  BY RankFacts DEF LevelOf
<1>3. R \in SUBSET (1..Len(ladder[a])) /\ R # {}
  BY <1>2 DEF LevelsOf
<1>4. {Ceiling(RuleRestrictions(p, verb), g, a) : g \in some} = {Max({r} \cup C) : r \in R}
  BY Zenon DEF Ceiling, LevelsOf
<1>5. /\ Min({Max({r} \cup C) : r \in R}) = Max({Min(R)} \cup C)
      /\ Max({Min(R)} \cup C) = 1 <=> 1 \in R /\ C \subseteq {1}
  <2>1. PICK n \in Nat : n = Len(ladder[a])
    BY <1>1
  <2>2. C \in SUBSET (1..n) /\ R \in SUBSET (1..n) /\ R # {}
    BY <1>1, <1>3, <2>1
  <2> HIDE DEF C, R
  <2>3. QED
    BY <2>2, CeilingsCommute, Zenon
<1>6. QED
  BY <1>3, <1>4, <1>5, Zenon

\* The grants whose profile lists an attribute, and those that cover a row.
Able(v, a) == {g \in ViewGrants(v) : grant[g].profile \in Listing(v, a)}

LEMMA AbleFacts ==
  ASSUME PolicyTyped, NEW p, NEW who, NEW verb, ~Hidden(p, verb), RoleDecides(p, verb), NEW row, NEW a
  PROVE  LET v == ViewOf(p, who, verb)  gs == Reaching(who, verb) IN
         /\ Able(v, a) \cap Covers(v, gs, row) = Lit(gs, row, a)
         /\ \A g \in gs : a \in Cols(g) => g \in Able(v, a)
         /\ \A g \in Able(v, a) : a \in Attribute /\ OnLadder(a, profile[grant[g].profile][a])
<1>1. PICK v : v = ViewOf(p, who, verb)
  OBVIOUS
<1>2. v.verb = verb /\ v.profiles = Held(who, verb)
  BY <1>1 DEF ViewOf, View
<1>3. \A g \in Reaching(who, verb) : g \in ViewGrants(v) /\ grant[g].profile \in Held(who, verb)
  BY <1>1, ReachingFacts
<1>4. \A g \in Reaching(who, verb) : a \in Cols(g) <=> g \in Able(v, a)
  BY <1>2, <1>3 DEF Able, Listing, Cols
<1>5. Covers(v, Reaching(who, verb), row) = {g \in Reaching(who, verb) : row \in grant[g].rule.holds}
  BY <1>1, RowsAgree
<1>6. Able(v, a) \cap Covers(v, Reaching(who, verb), row) = Lit(Reaching(who, verb), row, a)
  BY <1>4, <1>5 DEF Lit
<1>7. ASSUME NEW g \in Able(v, a) PROVE a \in Attribute /\ OnLadder(a, profile[grant[g].profile][a])
  <2>1. a \in DOMAIN profile[grant[g].profile] /\ ~BrokenGrant(g)
    BY DEF Able, Listing, ViewGrants
  <2>2. Sound(profile[grant[g].profile])
    BY <2>1 DEF BrokenGrant, BrokenProfile
  <2>3. QED
    BY <2>1, <2>2, SoundCells
<1>8. QED
  BY <1>1, <1>4, <1>6, <1>7

\* A view takes one level for all rows only when its profiles agree on it.
LEMMA OneLevel ==
  ASSUME NEW v, IsFiniteSet(v.profiles), NEW a, ~RowVarying(v, a)
  PROVE  /\ Listing(v, a) = v.profiles
         /\ \A g, h \in Able(v, a) : LevelOf(g, a) = LevelOf(h, a)
<1> DEFINE Y == Listing(v, a)
           T == {profile[x][a] : x \in Y}
           f == [x \in Y |-> profile[x][a]]
<1>1. Y = v.profiles /\ ~(Cardinality(T) > 1)
  BY Zenon DEF RowVarying
<1>2. IsFiniteSet(T)
  <2>1. f \in Surjection(Y, T)
    BY DEF Surjection
  <2>2. IsFiniteSet(Y)
    BY <1>1
  <2> HIDE DEF f, T, Y
  <2>3. QED
    BY <2>1, <2>2, FS_Surjection
<1>3. \A s, t \in T : s = t
  <2> HIDE DEF T
  <2>1. Cardinality(T) \in Nat
    BY <1>2, FS_CardinalityType
  <2>2. Cardinality(T) = 0 \/ Cardinality(T) = 1
    BY <1>1, <2>1
  <2>3. T = {} \/ \E x : T = {x}
    BY <1>2, <2>2, FS_EmptySet, FS_Singleton
  <2>4. QED
    BY <2>3
<1>4. \A g \in Able(v, a) : profile[grant[g].profile][a] \in T
  BY DEF Able
<1>5. QED
  BY <1>1, <1>3, <1>4 DEF LevelOf

LEMMA HeldFinite ==
  ASSUME PolicyTyped, NEW who, NEW verb
  PROVE  Held(who, verb) \subseteq Existing(profile) /\ Existing(profile) \subseteq Profile
         /\ IsFiniteSet(Held(who, verb))
<1>1. Held(who, verb) \subseteq Existing(profile)
  BY DEF Held, Reaching, BrokenGrant
<1>2. Existing(profile) \subseteq Profile
  BY DEF Existing, PolicyTyped
<1>3. QED
  BY <1>1, <1>2, FS_Subset, AccessPolicyAssumption

\* Of one cell, the view shows what the rule says.
ViewCell(v, gs, row, a) ==
  LET lit == Able(v, a) \cap Covers(v, gs, row) IN
  IF Able(v, a) = {} THEN 1
  ELSE IF ~RowVarying(v, a) THEN Min({Lowered(v, g, a) : g \in Able(v, a)})
  ELSE IF lit = {} THEN Withheld ELSE Min({Lowered(v, g, a) : g \in lit})
ViewMarks(v, gs, columns, row) ==
  {a \in columns : Listing(v, a) # v.profiles /\ Able(v, a) \cap Covers(v, gs, row) = {}}

LEMMA CellAgrees ==
  ASSUME PolicyTyped, NEW p, NEW who, NEW verb, ~Hidden(p, verb), RoleDecides(p, verb),
         NEW gs, gs = Reaching(who, verb), NEW rs, rs = RuleRestrictions(p, verb),
         NEW row \in RuleRows(gs, rs), NEW a \in RuleColumns(gs, rs)
  PROVE  /\ ViewCell(ViewOf(p, who, verb), gs, row, a) = RuleCell(gs, rs, row, a)
         /\ Listing(ViewOf(p, who, verb), a) = Held(who, verb) => Lit(gs, row, a) # {}
<1>1. PICK v : v = ViewOf(p, who, verb)
  OBVIOUS
<1>2. v.profiles = Held(who, verb)
  BY <1>1 DEF ViewOf, View
<1>3. PICK able : able = Able(v, a)
  OBVIOUS
<1>4. PICK lit : lit = Lit(gs, row, a)
  OBVIOUS
<1>5. /\ able \cap Covers(v, gs, row) = lit
      /\ \A g \in gs : a \in Cols(g) => g \in able
      /\ \A g \in able : a \in Attribute /\ OnLadder(a, profile[grant[g].profile][a])
  BY <1>1, <1>3, <1>4, AbleFacts
<1>6. PICK g \in gs : a \in Cols(g)
  BY DEF RuleColumns
<1>7. able # {} /\ a \in Attribute /\ lit \subseteq able
  BY <1>5, <1>6
<1>8. Listing(v, a) = Held(who, verb) => lit # {}
  <2>1. PICK h \in gs : row \in grant[h].rule.holds
    BY DEF RuleRows
  <2>2. grant[h].profile \in Held(who, verb)
    BY <2>1 DEF Held
  <2>3. Listing(v, a) = Held(who, verb) => a \in Cols(h)
    BY <2>2 DEF Listing, Cols
  <2>4. QED
    BY <1>4, <2>1, <2>3 DEF Lit
<1>9. \A some : {Lowered(v, k, a) : k \in some} = {Ceiling(rs, k, a) : k \in some}
  BY <1>1, LoweredIs
<1>10. ASSUME NEW some \in SUBSET able, some # {}
       PROVE  /\ LevelsOf(some, a) # {}
              /\ Min({Lowered(v, k, a) : k \in some}) = Max({Min(LevelsOf(some, a))} \cup CeilingsOf(rs, a))
  <2>1. \A k \in some : OnLadder(a, profile[grant[k].profile][a])
    BY <1>5, <1>10
  <2>2. /\ LevelsOf(some, a) # {}
        /\ Min({Ceiling(RuleRestrictions(p, verb), k, a) : k \in some})
              = Max({Min(LevelsOf(some, a))} \cup CeilingsOf(RuleRestrictions(p, verb), a))
    BY <1>7, <1>10, <2>1, BestIs
  <2>3. QED
    BY <1>9, <2>2, Zenon
<1>11. CASE ~RowVarying(v, a)
  <2>1. Listing(v, a) = Held(who, verb) /\ \A k, h \in able : LevelOf(k, a) = LevelOf(h, a)
    BY <1>2, <1>3, <1>11, HeldFinite, OneLevel
  <2>2. lit # {}
    BY <1>8, <2>1
  <2>3. LevelsOf(lit, a) = LevelsOf(able, a)
    BY <1>7, <2>1, <2>2 DEF LevelsOf
  <2>4. ViewCell(v, gs, row, a) = Min({Lowered(v, k, a) : k \in able})
    BY <1>3, <1>7, <1>11, Zenon DEF ViewCell
  <2>5. RuleCell(gs, rs, row, a) = Max({Min(LevelsOf(lit, a))} \cup CeilingsOf(rs, a))
    BY <1>4, <1>7, <1>10, <2>2, Zenon DEF RuleCell
  <2>6. Min({Lowered(v, k, a) : k \in able}) = Max({Min(LevelsOf(able, a))} \cup CeilingsOf(rs, a))
    BY <1>7, <1>10, Zenon
  <2>7. QED
    BY <1>1, <1>4, <1>8, <2>3, <2>4, <2>5, <2>6
<1>12. CASE RowVarying(v, a)
  <2>1. CASE lit = {}
    <3>1. ViewCell(v, gs, row, a) = Withheld
      BY <1>3, <1>5, <1>7, <1>12, <2>1, Zenon DEF ViewCell
    <3>2. LevelsOf(lit, a) = {}
      BY <2>1 DEF LevelsOf
    <3>3. RuleCell(gs, rs, row, a) = Withheld
      BY <1>4, <3>2, Zenon DEF RuleCell
    <3>4. QED
      BY <1>1, <1>4, <1>8, <3>1, <3>3
  <2>2. CASE lit # {}
    <3>1. ViewCell(v, gs, row, a) = Min({Lowered(v, k, a) : k \in lit})
      BY <1>3, <1>5, <1>7, <1>12, <2>2, Zenon DEF ViewCell
    <3>2. RuleCell(gs, rs, row, a) = Max({Min(LevelsOf(lit, a))} \cup CeilingsOf(rs, a))
      BY <1>4, <1>7, <1>10, <2>2, Zenon DEF RuleCell
    <3>3. Min({Lowered(v, k, a) : k \in lit}) = Max({Min(LevelsOf(lit, a))} \cup CeilingsOf(rs, a))
      BY <1>7, <1>10, <2>2, Zenon
    <3>4. QED
      BY <1>1, <1>4, <1>8, <3>1, <3>2, <3>3
  <2>3. QED
    BY <2>1, <2>2
<1>13. QED
  BY <1>11, <1>12

\* An answer shows what the rule says.
LEMMA ShowsRule ==
  ASSUME PolicyTyped, NEW p, NEW who, NEW verb, ~Hidden(p, verb), RoleDecides(p, verb)
  PROVE  ViewAnswer(ViewOf(p, who, verb), p, Reaching(who, verb)) = RuleAnswer(p, who, verb)
<1>1. PICK v : v = ViewOf(p, who, verb)
  OBVIOUS
<1>2. PICK gs : gs = Reaching(who, verb)
  OBVIOUS
<1>3. PICK rs : rs = RuleRestrictions(p, verb)
  OBVIOUS
<1>4. PICK columns : columns = RuleColumns(gs, rs)
  OBVIOUS
<1>5. PICK rows : rows = RuleRows(gs, rs)
  OBVIOUS
<1> DEFINE shown == {row \in DataRow : Admits(v, p, row) /\ Covers(v, gs, row) # {}}
<1>6. ViewAnswer(v, p, gs) =
        [columns |-> ColumnsOf(v),
         cells |-> [row \in shown |-> [a \in ColumnsOf(v) |-> ViewCell(v, gs, row, a)]],
         marks |-> [row \in shown |-> ViewMarks(v, gs, ColumnsOf(v), row)]]
  BY Zenon DEF ViewAnswer, ViewCell, ViewMarks, Able
<1>7. ColumnsOf(v) = columns
  BY <1>1, <1>2, <1>3, <1>4, ColumnsAgree
<1>8. shown = rows
  <2>1. \A row : Covers(v, gs, row) = {g \in gs : row \in grant[g].rule.holds}
    BY <1>1, <1>2, RowsAgree
  <2>2. \A row : Admits(v, p, row) <=> \A r \in rs : row \in restriction[r].rule.holds
    BY <1>1, <1>3, RowsAgree
  <2>3. \A row : Covers(v, gs, row) # {} <=> \E g \in gs : row \in grant[g].rule.holds
    BY <2>1
  <2>4. QED
    BY <1>5, <2>2, <2>3 DEF RuleRows
<1>9. \A row \in rows : \A a \in columns : ViewCell(v, gs, row, a) = RuleCell(gs, rs, row, a)
  BY <1>1, <1>2, <1>3, <1>4, <1>5, CellAgrees
<1>10. \A row \in rows : ViewMarks(v, gs, columns, row) = {a \in columns : LevelsOf(Lit(gs, row, a), a) = {}}
  <2>1. v.profiles = Held(who, verb)
    BY <1>1 DEF ViewOf, View
  <2>2. ASSUME NEW row \in rows, NEW a \in columns
        PROVE  /\ Able(v, a) \cap Covers(v, gs, row) = Lit(gs, row, a)
               /\ Listing(v, a) = v.profiles => Lit(gs, row, a) # {}
               /\ LevelsOf(Lit(gs, row, a), a) = {} <=> Lit(gs, row, a) = {}
    <3>1. Able(v, a) \cap Covers(v, gs, row) = Lit(gs, row, a)
      BY <1>1, <1>2, AbleFacts
    <3>2. Listing(v, a) = v.profiles => Lit(gs, row, a) # {}
      BY <1>1, <1>2, <1>3, <1>4, <1>5, <2>1, <2>2, CellAgrees
    <3>3. LevelsOf(Lit(gs, row, a), a) = {} <=> Lit(gs, row, a) = {}
      BY DEF LevelsOf
    <3>4. QED
      BY <3>1, <3>2, <3>3
  <2>3. QED
    BY <2>2, Zenon DEF ViewMarks
<1>11. RuleAnswer(p, who, verb) =
         [columns |-> columns,
          cells |-> [row \in rows |-> [a \in columns |-> RuleCell(gs, rs, row, a)]],
          marks |-> [row \in rows |-> {a \in columns : LevelsOf(Lit(gs, row, a), a) = {}}]]
  BY <1>2, <1>3, <1>4, <1>5, RuleIs
<1>12. [row \in rows |-> [a \in columns |-> ViewCell(v, gs, row, a)]]
         = [row \in rows |-> [a \in columns |-> RuleCell(gs, rs, row, a)]]
  BY <1>9
<1>13. [row \in rows |-> ViewMarks(v, gs, columns, row)]
         = [row \in rows |-> {a \in columns : LevelsOf(Lit(gs, row, a), a) = {}}]
  BY <1>10
<1> HIDE DEF shown
<1>14. QED
  BY <1>1, <1>2, <1>6, <1>7, <1>8, <1>11, <1>12, <1>13, Zenon

\* Who has no grant, or is hidden, is shown no row.
LEMMA NothingToShow ==
  ASSUME NEW p, NEW who, NEW verb, Hidden(p, verb) \/ Reaching(who, verb) = {}
  PROVE  DOMAIN RuleAnswer(p, who, verb).cells = {}
<1> DEFINE gs == IF Hidden(p, verb) THEN {} ELSE Reaching(who, verb)
           rs == {r \in On(verb) : ~BrokenRestriction(r) /\ Concerns(r, p)}
<1>1. DOMAIN RuleAnswer(p, who, verb).cells
        = {row \in DataRow : /\ \E g \in gs : row \in grant[g].rule.holds
                             /\ \A r \in rs : row \in restriction[r].rule.holds}
  BY Zenon DEF RuleAnswer
<1>2. gs = {}
  OBVIOUS
<1>3. QED
  BY <1>1, <1>2

\* One may write a cell when a grant shows it clear.
LEMMA WritesClear ==
  ASSUME PolicyTyped, NEW p, NEW row \in DataRow, NEW a \in Attribute,
         NEW gs, gs = Reaching(Identities(p), "write"), NEW rs, rs = RuleRestrictions(p, "write")
  PROVE  WriteGrants(p, {a}, {row}) # {}
           <=> /\ row \in RuleRows(gs, rs) /\ a \in RuleColumns(gs, rs)
               /\ RuleCell(gs, rs, row, a) = 1
<1>1. PICK lit : lit = Lit(gs, row, a)
  OBVIOUS
<1>2. \A g \in gs : /\ \A b \in Cols(g) : b \in head
                    /\ a \in Cols(g) => /\ OnLadder(a, profile[grant[g].profile][a])
                                        /\ LevelOf(g, a) = 1 <=> profile[grant[g].profile][a] = Clear
  BY ReachingFacts, RankFacts DEF LevelOf
<1>3. \A r \in rs : a \in DOMAIN restriction[r].ceiling =>
        (Rank(a, restriction[r].ceiling[a]) = 1 <=> restriction[r].ceiling[a] = Clear)
  <2>1. \A r \in rs : Sound(restriction[r].ceiling)
    BY DEF RuleRestrictions, BrokenRestriction
  <2>2. QED
    BY <2>1, SoundCells, RankFacts
<1>4. CeilingsOf(rs, a) \subseteq {1}
        <=> \A r \in rs : a \in DOMAIN restriction[r].ceiling => restriction[r].ceiling[a] = Clear
  BY <1>3 DEF CeilingsOf
<1>5. a \in Denied(p) <=> \/ \E r \in rs : a \in restriction[r].deny
                          \/ ~(CeilingsOf(rs, a) \subseteq {1})
  <2>1. a \in Denied(p) <=> \E r \in rs : \/ a \in restriction[r].deny
                                          \/ a \in DOMAIN restriction[r].ceiling /\ restriction[r].ceiling[a] # Clear
    BY DEF Denied, RuleRestrictions
  <2>2. QED
    BY <1>4, <2>1
<1>6. RuleCell(gs, rs, row, a) = 1 <=> 1 \in LevelsOf(lit, a) /\ CeilingsOf(rs, a) \subseteq {1}
  <2>1. CASE lit = {}
    <3>1. LevelsOf(lit, a) = {}
      BY <2>1 DEF LevelsOf
    <3>2. QED
      BY <1>1, <3>1 DEF RuleCell, Withheld
  <2>2. CASE lit # {}
    <3>1. \A g \in lit : OnLadder(a, profile[grant[g].profile][a])
      BY <1>1, <1>2 DEF Lit
    <3>2. LET C == CeilingsOf(RuleRestrictions(p, "write"), a)
              most == Max({Min(LevelsOf(lit, a))} \cup C) IN
          /\ LevelsOf(lit, a) # {}
          /\ most = 1 <=> 1 \in LevelsOf(lit, a) /\ C \subseteq {1}
      BY <2>2, <3>1, BestIs
    <3>3. QED
      BY <1>1, <3>2, Zenon DEF RuleCell
  <2>3. QED
    BY <2>1, <2>2
<1>7. 1 \in LevelsOf(lit, a)
        <=> \E g \in gs : a \in Cols(g) /\ row \in grant[g].rule.holds /\ profile[grant[g].profile][a] = Clear
  BY <1>1, <1>2 DEF LevelsOf, Lit
<1>8. \A g \in gs : RowOk(p, g, row) <=> /\ row \in grant[g].rule.holds
                                         /\ \A r \in rs : row \in restriction[r].rule.holds
  BY DEF RowOk, RuleRestrictions
<1>9. \A g \in gs : a \in ClearNames(p, g)
                      <=> a \in Cols(g) /\ profile[grant[g].profile][a] = Clear /\ a \notin Denied(p)
  BY <1>2 DEF ClearNames, Cols
<1>10. WriteGrants(p, {a}, {row}) # {} <=> \E g \in gs : a \in ClearNames(p, g) /\ RowOk(p, g, row)
  BY DEF WriteGrants
<1>11. a \in RuleColumns(gs, rs) <=> (\E g \in gs : a \in Cols(g)) /\ \A r \in rs : a \notin restriction[r].deny
  BY DEF RuleColumns
<1>12. row \in RuleRows(gs, rs) <=> /\ \E g \in gs : row \in grant[g].rule.holds
                                    /\ \A r \in rs : row \in restriction[r].rule.holds
  BY DEF RuleRows
<1>13. QED
  BY <1>5, <1>6, <1>7, <1>8, <1>9, <1>10, <1>11, <1>12

LEMMA DecideIs ==
  ASSUME NEW p, NEW who, NEW verb
  PROVE  /\ Decide(p, who, verb) = "missing" <=> Hidden(p, verb) \/ Held(who, verb) = {}
         /\ Decide(p, who, verb) = "answered" <=>
              /\ ~Hidden(p, verb) /\ Held(who, verb) # {} /\ ~OverCap({p}, Held(who, verb))
              /\ current /\ ViewOf(p, who, verb) \in views
         /\ Decide(p, who, verb) = "pending" =>
              ~Hidden(p, verb) /\ Held(who, verb) # {} /\ ~OverCap(Person, Held(who, verb))
BY DEF Decide

LEMMA RequestFacts ==
  ASSUME NEW x \in Requests
  PROVE  /\ x[1] \in Person /\ x[3] \in Verb \cup {"read"}
         /\ x[2] \in Narrows(x[1]) /\ x[2] \subseteq Identities(x[1])
         /\ x[3] = "write" => x[2] = Identities(x[1])
BY DEF Requests, Narrows

\* Each answer follows the rule, of any policy that has its types.
LEMMA RuleFollowed == PolicyTyped => AnswersFollowRule
<1> SUFFICES ASSUME PolicyTyped, NEW x \in Requests, RoleDecides(x[1], x[3])
             PROVE  LET p == x[1]  who == x[2]  verb == x[3]
                        answer == AnswerTo(p, who, verb)
                        rule == RuleAnswer(p, who, verb)
                    IN /\ answer = "answered" => ViewAnswer(ViewOf(p, who, verb), p, Reaching(who, verb)) = rule
                       /\ answer = "missing" => DOMAIN rule.cells = {}
                       /\ answer = "answered" /\ verb = "write" =>
                            \A row \in DataRow : \A a \in Attribute :
                              WriteGrants(p, {a}, {row}) # {}
                                <=> row \in DOMAIN rule.cells /\ a \in rule.columns /\ rule.cells[row][a] = 1
  BY Zenon DEF AnswersFollowRule
<1>1. PICK p, who, verb : p = x[1] /\ who = x[2] /\ verb = x[3]
  OBVIOUS
<1>2. who \subseteq Identities(p) /\ (verb = "write" => who = Identities(p)) /\ RoleDecides(p, verb)
  BY <1>1, RequestFacts
<1>3. PICK gs : gs = Reaching(who, verb)
  OBVIOUS
<1>4. PICK rs : rs = RuleRestrictions(p, verb)
  OBVIOUS
<1>5. AnswerTo(p, who, verb) = "answered" => ~Hidden(p, verb)
  BY DecideIs DEF AnswerTo
<1>6. AnswerTo(p, who, verb) = "answered"
        => ViewAnswer(ViewOf(p, who, verb), p, Reaching(who, verb)) = RuleAnswer(p, who, verb)
  BY <1>2, <1>5, ShowsRule
<1>7. AnswerTo(p, who, verb) = "missing" => DOMAIN RuleAnswer(p, who, verb).cells = {}
  <2>1. AnswerTo(p, who, verb) = "missing"
          => Hidden(p, verb) \/ Held(who, verb) = {} \/ Held(Identities(p), verb) = {}
    BY DecideIs DEF AnswerTo
  <2>2. Reaching(who, verb) \subseteq Reaching(Identities(p), verb)
    BY <1>2 DEF Reaching
  <2>3. \A w : Held(w, verb) = {} => Reaching(w, verb) = {}
    BY DEF Held
  <2>4. AnswerTo(p, who, verb) = "missing" => Hidden(p, verb) \/ Reaching(who, verb) = {}
    BY <2>1, <2>2, <2>3
  <2>5. QED
    BY <2>4, NothingToShow
<1>8. ASSUME AnswerTo(p, who, verb) = "answered", verb = "write", NEW row \in DataRow, NEW a \in Attribute
      PROVE  LET rule == RuleAnswer(p, who, verb) IN
             WriteGrants(p, {a}, {row}) # {}
               <=> row \in DOMAIN rule.cells /\ a \in rule.columns /\ rule.cells[row][a] = 1
  <2>1. RuleAnswer(p, who, verb) =
          [columns |-> RuleColumns(gs, rs),
           cells |-> [y \in RuleRows(gs, rs) |-> [b \in RuleColumns(gs, rs) |-> RuleCell(gs, rs, y, b)]],
           marks |-> [y \in RuleRows(gs, rs) |->
                       {b \in RuleColumns(gs, rs) : LevelsOf(Lit(gs, y, b), b) = {}}]]
    BY <1>3, <1>4, <1>5, <1>8, RuleIs
  <2>2. WriteGrants(p, {a}, {row}) # {}
          <=> row \in RuleRows(gs, rs) /\ a \in RuleColumns(gs, rs) /\ RuleCell(gs, rs, row, a) = 1
    BY <1>2, <1>3, <1>4, <1>8, WritesClear
  <2>3. PICK rule : rule = RuleAnswer(p, who, verb)
    OBVIOUS
  <2>4. DOMAIN rule.cells = RuleRows(gs, rs) /\ rule.columns = RuleColumns(gs, rs)
    BY <2>1, <2>3
  <2>5. row \in RuleRows(gs, rs) /\ a \in RuleColumns(gs, rs) => rule.cells[row][a] = RuleCell(gs, rs, row, a)
    BY <2>1, <2>3
  <2>6. QED
    BY <2>2, <2>3, <2>4, <2>5
<1>9. QED
  BY <1>1, <1>6, <1>7, <1>8, Zenon

-----------------------------------------------------------------------------
(* What is generated *)

\* A single profile, or several.
LEMMA HeldIsSome ==
  ASSUME PolicyTyped, NEW who, NEW verb, Held(who, verb) # {}, ~(Cardinality(Held(who, verb)) >= 2)
  PROVE  \E x \in Existing(profile) : Held(who, verb) = {x}
<1>1. PICK held : held = Held(who, verb)
  OBVIOUS
<1>2. IsFiniteSet(held) /\ held \subseteq Existing(profile)
  BY <1>1, HeldFinite
<1>3. Cardinality(held) \in Nat /\ Cardinality(held) # 0
  BY <1>1, <1>2, FS_CardinalityType, FS_EmptySet
<1>4. Cardinality(held) = 1
  BY <1>1, <1>3
<1>5. QED
  BY <1>1, <1>2, <1>4, FS_Singleton

\* Who is within the cap has a view among the generated ones.
LEMMA WithinCapIsGenerated ==
  ASSUME PolicyTyped, NEW p \in Person, NEW who \in Narrows(p), NEW verb \in Verb,
         ~Hidden(p, verb), Held(who, verb) # {}, NEW existing,
         Cardinality(Held(who, verb)) >= 2
           => Held(who, verb) \in Combinations(Needed(Person), existing)
  PROVE  ViewOf(p, who, verb) \in Generated(Person, existing)
<1> DEFINE sets == {{x} : x \in Existing(profile)} \cup Combinations(Needed(Person), existing)
<1>1. PICK w : w = ViewOf(p, who, verb)
  OBVIOUS
<1>2. w.profiles \in sets
  BY <1>1, HeldIsSome DEF ViewOf, View
<1>3. w \in OwnViews(p)
  BY <1>1 DEF OwnViews, Visible
<1>4. Generated(Person, existing) =
        {View(action, c, {}) : action \in Verb, c \in sets}
        \cup UNION {{v \in OwnViews(q) : v.profiles \in sets} : q \in Person}
  BY DEF Generated
<1>5. QED
  <2> HIDE DEF sets
  <2>1. QED
    BY <1>1, <1>2, <1>3, <1>4
LEMMA PendingFollows == PolicyTyped => PendingIsGenerated
<1> SUFFICES ASSUME PolicyTyped, NEW x \in Requests, AnswerTo(x[1], x[2], x[3]) = "pending"
             PROVE  LET lacking == IF Decide(x[1], Identities(x[1]), x[3]) = "answered" THEN x[2]
                                   ELSE Identities(x[1])
                    IN ViewOf(x[1], lacking, x[3]) \in Generated(Person, Viewed)
  BY Zenon DEF PendingIsGenerated
<1>1. PICK p, verb : p = x[1] /\ verb = x[3]
  OBVIOUS
<1>2. PICK lacking : lacking = IF Decide(p, Identities(p), verb) = "answered" THEN x[2] ELSE Identities(p)
  OBVIOUS
<1>3. p \in Person /\ lacking \in Narrows(p)
  BY <1>1, <1>2, RequestFacts DEF Narrows
<1>4. Decide(p, lacking, verb) = "pending"
  BY <1>1, <1>2 DEF AnswerTo
<1>5. /\ ~Hidden(p, verb) /\ Held(lacking, verb) # {}
      /\ ~OverCap(Person, Held(lacking, verb))
  BY <1>4, DecideIs
<1>6. verb \in Verb
  BY <1>1, RequestFacts, AccessPolicyAssumption
<1>7. Cardinality(Held(lacking, verb)) >= 2 => Held(lacking, verb) \in Combinations(Needed(Person), Viewed)
  BY <1>5 DEF OverCap
<1>8. ViewOf(p, lacking, verb) \in Generated(Person, Viewed)
  BY <1>3, <1>5, <1>6, <1>7, WithinCapIsGenerated
<1>9. QED
  BY <1>1, <1>2, <1>8

-----------------------------------------------------------------------------
(* The cap on combinations *)

First(existing, d, c) == IF (d \in existing) = (c \in existing) THEN Key(d) < Key(c) ELSE d \in existing
Before(needed, existing, c) == {d \in needed : First(existing, d, c)}

LEMMA FirstOrders ==
  ASSUME NEW existing, NEW b \in SUBSET Profile, NEW c \in SUBSET Profile, NEW d \in SUBSET Profile
  PROVE  /\ ~First(existing, c, c)
         /\ c # d => First(existing, c, d) \/ First(existing, d, c)
         /\ First(existing, b, c) /\ First(existing, c, d) => First(existing, b, d)
<1>1. Key(b) \in Nat /\ Key(c) \in Nat /\ Key(d) \in Nat /\ (Key(c) = Key(d) => c = d)
  BY AccessPolicyAssumption
<1>2. PICK inB \in BOOLEAN, inC \in BOOLEAN, inD \in BOOLEAN :
        (inB <=> b \in existing) /\ (inC <=> c \in existing) /\ (inD <=> d \in existing)
  OBVIOUS
<1>3. /\ First(existing, c, c) <=> Key(c) < Key(c)
      /\ First(existing, c, d) <=> IF inC <=> inD THEN Key(c) < Key(d) ELSE inC
      /\ First(existing, d, c) <=> IF inC <=> inD THEN Key(d) < Key(c) ELSE inD
      /\ First(existing, b, c) <=> IF inB <=> inC THEN Key(b) < Key(c) ELSE inB
      /\ First(existing, b, d) <=> IF inB <=> inD THEN Key(b) < Key(d) ELSE inB
  BY <1>2 DEF First
<1>4. QED
  BY <1>1, <1>2, <1>3

\* No more combinations are chosen than the cap.
LEMMA CombinationsAreCapped ==
  ASSUME NEW needed \in SUBSET (SUBSET Profile), NEW existing
  PROVE  /\ Combinations(needed, existing) \subseteq needed
         /\ IsFiniteSet(Combinations(needed, existing))
         /\ Cardinality(Combinations(needed, existing)) <= Cap
<1> DEFINE chosen == {c \in needed : Cardinality(Before(needed, existing, c)) < Cap}
           f == [c \in chosen |-> Cardinality(Before(needed, existing, c))]
           Places == 0..(Cap - 1)
<1>1. Combinations(needed, existing) = chosen
  BY Zenon DEF Combinations, Before, First
<1>2. IsFiniteSet(needed)
  <2>1. IsFiniteSet(SUBSET Profile)
    BY FS_SUBSET, AccessPolicyAssumption
  <2>2. QED
    BY <2>1, FS_Subset
<1>3. ASSUME NEW c \in chosen
      PROVE  /\ IsFiniteSet(Before(needed, existing, c))
             /\ Cardinality(Before(needed, existing, c)) \in Places
  <2>1. IsFiniteSet(Before(needed, existing, c))
    BY <1>2, FS_Subset DEF Before
  <2>2. Cardinality(Before(needed, existing, c)) \in Nat
    BY <2>1, FS_CardinalityType
  <2>3. QED
    BY <2>1, <2>2, AccessPolicyAssumption
<1>4. ASSUME NEW c \in chosen, NEW d \in chosen, First(existing, c, d)
      PROVE  f[c] # f[d]
  <2>1. PICK B, D : B = Before(needed, existing, c) /\ D = Before(needed, existing, d)
    OBVIOUS
  <2>2. B \subseteq D /\ c \in D /\ c \notin B
    BY <1>4, <2>1, FirstOrders DEF Before
  <2>3. IsFiniteSet(D) /\ IsFiniteSet(B)
    BY <1>3, <2>1
  <2>4. Cardinality(B) # Cardinality(D)
    BY <2>2, <2>3, FS_Subset
  <2>5. QED
    BY <2>1, <2>4
<1>5. f \in Injection(chosen, Places)
  <2>1. f \in [chosen -> Places]
    BY <1>3
  <2>2. \A c, d \in chosen : f[c] = f[d] => c = d
    <3>1. \A c, d \in chosen : c # d => First(existing, c, d) \/ First(existing, d, c)
      BY FirstOrders
    <3> HIDE DEF f
    <3>2. QED
      BY <1>4, <3>1
  <2>3. QED
    BY <2>1, <2>2 DEF Injection, IsInjective
<1>6. IsFiniteSet(Places) /\ Cardinality(Places) = Cap
  <2>1. Cap \in Nat
    BY AccessPolicyAssumption
  <2>2. QED
    BY <2>1, FS_Interval
<1>7. IsFiniteSet(chosen) /\ Cardinality(chosen) <= Cardinality(Places)
  <2> HIDE DEF f, chosen, Places
  <2>1. QED
    BY <1>5, <1>6, FS_Injection
<1>8. QED
  BY <1>1, <1>6, <1>7

\* What has a view comes first, so it is chosen while there are no more views than
\* the cap.
LEMMA ViewedIsChosen ==
  ASSUME NEW needed \in SUBSET (SUBSET Profile), NEW c \in needed,
         NEW existing \in SUBSET (SUBSET Profile), c \in existing, Cardinality(existing) <= Cap
  PROVE  c \in Combinations(needed, existing)
<1>1. IsFiniteSet(existing)
  <2>1. IsFiniteSet(SUBSET Profile)
    BY FS_SUBSET, AccessPolicyAssumption
  <2>2. QED
    BY <2>1, FS_Subset
<1>2. PICK B : B = Before(needed, existing, c)
  OBVIOUS
<1>3. B \subseteq existing /\ c \notin B
  BY <1>2, FirstOrders DEF Before, First
<1>4. Cardinality(B) \in Nat /\ Cardinality(existing) \in Nat /\ Cardinality(B) <= Cardinality(existing)
      /\ Cardinality(B) # Cardinality(existing)
  BY <1>1, <1>3, FS_Subset, FS_CardinalityType
<1>5. Cardinality(B) < Cap
  BY <1>4, AccessPolicyAssumption
<1>6. Combinations(needed, existing) = {d \in needed : Cardinality(Before(needed, existing, d)) < Cap}
  BY Zenon DEF Combinations, Before, First
<1>7. QED
  BY <1>2, <1>5, <1>6

-----------------------------------------------------------------------------
(* The invariant of the policy, and the theorems *)

ViewsCapped == IsFiniteSet(Viewed) /\ Cardinality(Viewed) <= Cap
AccessInv == AccessTypeOK /\ PolicyTyped /\ ViewsCapped

\* Every view that is generated has its types, and no more combinations than the
\* cap have one.
GeneratedFits(existing) ==
  /\ \A w \in Generated(Person, existing) :
       w.verb \in Verb /\ w.profiles \subseteq Profile /\ w.included \subseteq Restriction
  /\ LET several == {w.profiles : w \in {v \in Generated(Person, existing) : Cardinality(v.profiles) >= 2}}
     IN IsFiniteSet(several) /\ Cardinality(several) <= Cap

LEMMA NeededTyped ==
  ASSUME PolicyTyped, NEW people
  PROVE  Needed(people) \in SUBSET (SUBSET Profile)
<1>1. \A who, verb : Held(who, verb) \subseteq Profile
  BY HeldFinite
<1>2. QED
  BY <1>1 DEF Needed

LEMMA GeneratedFacts ==
  PolicyTyped /\ DOMAIN restriction = Restriction => \A existing : GeneratedFits(existing)
<1> SUFFICES ASSUME PolicyTyped, DOMAIN restriction = Restriction, NEW existing
             PROVE  GeneratedFits(existing)
  OBVIOUS
<1> DEFINE sets == {{x} : x \in Existing(profile)} \cup Combinations(Needed(Person), existing)
<1>1. Generated(Person, existing) =
        {View(action, c, {}) : action \in Verb, c \in sets}
        \cup UNION {{v \in OwnViews(q) : v.profiles \in sets} : q \in Person}
  BY DEF Generated
<1>2. /\ Combinations(Needed(Person), existing) \subseteq SUBSET Profile
      /\ IsFiniteSet(Combinations(Needed(Person), existing))
      /\ Cardinality(Combinations(Needed(Person), existing)) <= Cap
  BY NeededTyped, CombinationsAreCapped
<1>3. \A c \in sets : c \subseteq Profile
  BY <1>2 DEF PolicyTyped, Existing
<1>4. \A c \in sets : Cardinality(c) >= 2 => c \in Combinations(Needed(Person), existing)
  <2>1. \A x : Cardinality({x}) = 1
    BY FS_Singleton, Zenon
  <2>2. QED
    BY <2>1
<1>5. \A p, verb : Included(p, verb) \subseteq Restriction
  BY DEF Included, Selective, On, Existing
<1>6. \A q : \A w \in OwnViews(q) : w.verb \in Verb /\ w.included \subseteq Restriction
  BY <1>5 DEF OwnViews, ViewOf, View, Visible
<1>7. \A action \in Verb : \A c \in sets : LET w == View(action, c, {}) IN
        w.verb \in Verb /\ w.profiles = c /\ w.included \subseteq Restriction
  BY DEF View
<1>8. \A w \in Generated(Person, existing) :
        w.verb \in Verb /\ w.profiles \in sets /\ w.included \subseteq Restriction
  <2> HIDE DEF sets
  <2>1. QED
    BY <1>1, <1>6, <1>7
<1>9. \A w \in Generated(Person, existing) :
        w.verb \in Verb /\ w.profiles \subseteq Profile /\ w.included \subseteq Restriction
  BY <1>3, <1>8
<1> DEFINE several == {w.profiles : w \in {v \in Generated(Person, existing) : Cardinality(v.profiles) >= 2}}
<1>10. several \subseteq Combinations(Needed(Person), existing)
  BY <1>4, <1>8
<1>11. IsFiniteSet(several) /\ Cardinality(several) <= Cap
  <2> HIDE DEF several
  <2>1. /\ IsFiniteSet(several) /\ Cardinality(several) <= Cardinality(Combinations(Needed(Person), existing))
        /\ Cardinality(several) \in Nat
        /\ Cardinality(Combinations(Needed(Person), existing)) \in Nat
    BY <1>2, <1>10, FS_Subset, FS_CardinalityType
  <2>2. QED
    BY <1>2, <2>1, AccessPolicyAssumption
<1>12. QED
  BY <1>9, <1>11 DEF GeneratedFits

LEMMA AccessInitInv == AccessInit => AccessInv
<1> SUFFICES ASSUME AccessInit PROVE AccessInv
  OBVIOUS
<1>1. /\ head \in Heads /\ head \subseteq Attribute
      /\ DOMAIN ladder = Attribute /\ \A a \in Attribute : ladder[a] \in Ladder[a] \cup {<<Clear>>}
  BY AccessPolicyAssumption DEF AccessInit
<1>2. /\ DOMAIN profile = Profile
      /\ \A x \in Profile : profile[x] = NoRecord \/ DOMAIN profile[x] \subseteq Attribute
  BY <1>1, AccessPolicyAssumption DEF AccessInit, AllClearColumns
<1>3. /\ DOMAIN grant = Grant /\ grant[SystemGrant] = SystemBody
      /\ DOMAIN restriction = Restriction /\ Existing(restriction) = {}
      /\ expired \subseteq Grant /\ current \in BOOLEAN
  BY AccessPolicyAssumption DEF AccessInit, Existing
<1>4. /\ role \in [Person -> AnyRole \cup {NoRole}] /\ groups \in [Person -> SUBSET AnyGroup]
  <2>1. \A p \in Person \ {System} : (CHOOSE r \in Roles[p] : TRUE) \in AnyRole
    BY AccessPolicyAssumption
  <2>2. QED
    BY <2>1 DEF AccessInit
<1>5. \A v \in views : v.verb \in Verb /\ v.profiles = {AllClear} /\ v.included = {}
  BY DEF AccessInit, View
<1>6. Viewed = {}
  <2>1. Cardinality({AllClear}) = 1
    BY FS_Singleton, Zenon
  <2>2. QED
    BY <1>5, <2>1 DEF Viewed
<1>7. ViewsCapped
  BY <1>6, FS_EmptySet, AccessPolicyAssumption DEF ViewsCapped
<1>8. \A v \in views : v.verb \in Verb /\ v.profiles \subseteq Profile /\ v.included \subseteq Restriction
  BY <1>5, AccessPolicyAssumption
<1>9. AccessTypeOK
  BY <1>1, <1>2, <1>3, <1>4, <1>8 DEF AccessTypeOK
<1>10. PolicyTyped
  BY <1>1, <1>2, <1>3 DEF PolicyTyped
<1>11. QED
  BY <1>7, <1>9, <1>10 DEF AccessInv

\* The parts that an action keeps or sets.
HeadTyped == /\ head \in Heads /\ head \subseteq Attribute /\ DOMAIN ladder = Attribute
             /\ \A a \in Attribute : ladder[a] \in Ladder[a] \cup {<<Clear>>}
ProfilesTyped == /\ DOMAIN profile = Profile
                 /\ \A x \in Profile : profile[x] = NoRecord \/ DOMAIN profile[x] \subseteq Attribute
GrantsTyped == /\ DOMAIN grant = Grant /\ grant[SystemGrant] = SystemBody
               /\ expired \subseteq Grant /\ current \in BOOLEAN
RestrictionsTyped == /\ DOMAIN restriction = Restriction
                     /\ \A r \in Existing(restriction) : restriction[r].mode \in {"all", "only", "except"}
PeopleTyped == role \in [Person -> AnyRole \cup {NoRole}] /\ groups \in [Person -> SUBSET AnyGroup]
ViewsTyped == /\ \A v \in views : v.verb \in Verb /\ v.profiles \subseteq Profile /\ v.included \subseteq Restriction
              /\ ViewsCapped

LEMMA AccessInvIs ==
  AccessInv <=> /\ HeadTyped /\ ProfilesTyped /\ GrantsTyped /\ RestrictionsTyped
                /\ PeopleTyped /\ ViewsTyped
BY AccessPolicyAssumption
   DEF AccessInv, AccessTypeOK, PolicyTyped, HeadTyped, ProfilesTyped, GrantsTyped,
       RestrictionsTyped, PeopleTyped, ViewsTyped

LEMMA AccessKept ==
  /\ HeadTyped /\ UNCHANGED <<head, ladder>> => HeadTyped'
  /\ ProfilesTyped /\ UNCHANGED profile => ProfilesTyped'
  /\ GrantsTyped /\ UNCHANGED grant /\ expired' \subseteq expired /\ current' \in BOOLEAN => GrantsTyped'
  /\ RestrictionsTyped /\ UNCHANGED restriction => RestrictionsTyped'
  /\ PeopleTyped /\ UNCHANGED <<role, groups>> => PeopleTyped'
  /\ ViewsTyped /\ UNCHANGED views => ViewsTyped'
<1>1. HeadTyped /\ UNCHANGED <<head, ladder>> => HeadTyped'
  BY DEF HeadTyped
<1>2. ProfilesTyped /\ UNCHANGED profile => ProfilesTyped'
  BY DEF ProfilesTyped
<1>3. GrantsTyped /\ UNCHANGED grant /\ expired' \subseteq expired /\ current' \in BOOLEAN => GrantsTyped'
  BY DEF GrantsTyped
<1>4. RestrictionsTyped /\ UNCHANGED restriction => RestrictionsTyped'
  BY DEF RestrictionsTyped, Existing
<1>5. PeopleTyped /\ UNCHANGED <<role, groups>> => PeopleTyped'
  BY DEF PeopleTyped
<1>6. ViewsTyped /\ UNCHANGED views => ViewsTyped'
  BY DEF ViewsTyped, ViewsCapped, Viewed
<1>7. QED
  BY <1>1, <1>2, <1>3, <1>4, <1>5, <1>6

LEMMA GeneratedNext ==
  (PolicyTyped /\ DOMAIN restriction = Restriction => \A existing : GeneratedFits(existing))'
BY GeneratedFacts, PTL

\* Views are generated under types that the step leaves.
LEMMA ViewsAreMade ==
  ASSUME HeadTyped', ProfilesTyped', GrantsTyped', RestrictionsTyped',
         NEW existing, views' = Generated(Person, existing)'
  PROVE  ViewsTyped'
<1>1. (PolicyTyped /\ DOMAIN restriction = Restriction)'
  BY DEF PolicyTyped, HeadTyped, ProfilesTyped, GrantsTyped, RestrictionsTyped
<1>2. GeneratedFits(existing)'
  BY <1>1, GeneratedNext
<1>3. \A v \in views' : v.verb \in Verb /\ v.profiles \subseteq Profile /\ v.included \subseteq Restriction
  BY <1>2 DEF GeneratedFits
<1>4. IsFiniteSet(Viewed') /\ Cardinality(Viewed') <= Cap
  <2>1. Viewed' = {w.profiles : w \in {v \in Generated(Person, existing)' : Cardinality(v.profiles) >= 2}}
    BY DEF Viewed
  <2>2. QED
    BY <1>2, <2>1 DEF GeneratedFits
<1>5. QED
  BY <1>3, <1>4 DEF ViewsTyped, ViewsCapped

LEMMA AccessStepInv == AccessInv /\ [AccessNext]_accessVars => AccessInv'
<1> SUFFICES ASSUME HeadTyped, ProfilesTyped, GrantsTyped, RestrictionsTyped, PeopleTyped, ViewsTyped,
                    [AccessNext]_accessVars
             PROVE  /\ HeadTyped' /\ ProfilesTyped' /\ GrantsTyped' /\ RestrictionsTyped'
                    /\ PeopleTyped' /\ ViewsTyped'
  <2>1. AccessInv' <=> /\ HeadTyped' /\ ProfilesTyped' /\ GrantsTyped' /\ RestrictionsTyped'
                       /\ PeopleTyped' /\ ViewsTyped'
    BY AccessPolicyAssumption
       DEF AccessInv, AccessTypeOK, PolicyTyped, HeadTyped, ProfilesTyped, GrantsTyped,
           RestrictionsTyped, PeopleTyped, ViewsTyped
  <2>2. QED
    BY <2>1, AccessInvIs
<1>1. ASSUME NEW a \in Attribute, NEW l \in Ladder[a], PutLadder(a, l)
      PROVE  /\ HeadTyped' /\ ProfilesTyped' /\ GrantsTyped' /\ RestrictionsTyped'
             /\ PeopleTyped' /\ ViewsTyped'
  <2>1. HeadTyped'
    BY <1>1 DEF PutLadder, Commits, HeadTyped
  <2>2. QED
    BY <1>1, <2>1, AccessKept DEF PutLadder, Commits
<1>2. ASSUME NEW x \in Profile, NEW columns, PutProfile(x, columns)
      PROVE  /\ HeadTyped' /\ ProfilesTyped' /\ GrantsTyped' /\ RestrictionsTyped'
             /\ PeopleTyped' /\ ViewsTyped'
  <2>1. DOMAIN columns \subseteq Attribute
    BY <1>2 DEF PutProfile, Sound, HeadTyped
  <2>2. ProfilesTyped'
    BY <1>2, <2>1 DEF PutProfile, ProfilesTyped
  <2>3. QED
    BY <1>2, <2>2, AccessKept DEF PutProfile, Commits
<1>3. ASSUME NEW x \in Profile, DeleteProfile(x)
      PROVE  /\ HeadTyped' /\ ProfilesTyped' /\ GrantsTyped' /\ RestrictionsTyped'
             /\ PeopleTyped' /\ ViewsTyped'
  <2>1. ProfilesTyped'
    BY <1>3 DEF DeleteProfile, ProfilesTyped
  <2>2. QED
    BY <1>3, <2>1, AccessKept DEF DeleteProfile, Commits
<1>4. ASSUME NEW g \in Grant, NEW body, PutGrant(g, body)
      PROVE  /\ HeadTyped' /\ ProfilesTyped' /\ GrantsTyped' /\ RestrictionsTyped'
             /\ PeopleTyped' /\ ViewsTyped'
  <2>1. GrantsTyped'
    BY <1>4, AccessPolicyAssumption DEF PutGrant, Commits, GrantsTyped
  <2>2. QED
    BY <1>4, <2>1, AccessKept DEF PutGrant, Commits
<1>5. ASSUME NEW g \in Grant, DeleteGrant(g)
      PROVE  /\ HeadTyped' /\ ProfilesTyped' /\ GrantsTyped' /\ RestrictionsTyped'
             /\ PeopleTyped' /\ ViewsTyped'
  <2>1. GrantsTyped'
    BY <1>5, AccessPolicyAssumption DEF DeleteGrant, Commits, GrantsTyped
  <2>2. QED
    BY <1>5, <2>1, AccessKept DEF DeleteGrant, Commits
<1>6. ASSUME NEW g \in Grant, Expire(g)
      PROVE  /\ HeadTyped' /\ ProfilesTyped' /\ GrantsTyped' /\ RestrictionsTyped'
             /\ PeopleTyped' /\ ViewsTyped'
  <2>1. GrantsTyped'
    BY <1>6 DEF Expire, policyVars, GrantsTyped
  <2>2. QED
    BY <1>6, <2>1, AccessKept DEF Expire, policyVars
<1>7. ASSUME NEW r \in Restriction, NEW body \in RestrictionBody[r], PutRestriction(r, body)
      PROVE  /\ HeadTyped' /\ ProfilesTyped' /\ GrantsTyped' /\ RestrictionsTyped'
             /\ PeopleTyped' /\ ViewsTyped'
  <2>1. body.mode \in {"all", "only", "except"}
    BY AccessPolicyAssumption
  <2>2. RestrictionsTyped'
    BY <1>7, <2>1 DEF PutRestriction, RestrictionsTyped, Existing
  <2>3. QED
    BY <1>7, <2>2, AccessKept DEF PutRestriction, Commits
<1>8. ASSUME NEW r \in Restriction, DeleteRestriction(r)
      PROVE  /\ HeadTyped' /\ ProfilesTyped' /\ GrantsTyped' /\ RestrictionsTyped'
             /\ PeopleTyped' /\ ViewsTyped'
  <2>1. RestrictionsTyped'
    BY <1>8 DEF DeleteRestriction, RestrictionsTyped, Existing
  <2>2. QED
    BY <1>8, <2>1, AccessKept DEF DeleteRestriction, Commits
<1>9. ASSUME NEW h \in Heads, Publish(h)
      PROVE  /\ HeadTyped' /\ ProfilesTyped' /\ GrantsTyped' /\ RestrictionsTyped'
             /\ PeopleTyped' /\ ViewsTyped'
  <2>1. HeadTyped'
    BY <1>9, AccessPolicyAssumption DEF Publish, HeadTyped
  <2>2. ProfilesTyped'
    BY <1>9, AccessPolicyAssumption DEF Publish, ProfilesTyped, AllClearColumns
  <2>3. GrantsTyped' /\ RestrictionsTyped' /\ PeopleTyped'
    BY <1>9, AccessKept DEF Publish, peopleVars
  <2>4. PICK existing : views' = Generated(Person, existing)'
    BY <1>9 DEF Publish
  <2>5. QED
    BY <2>1, <2>2, <2>3, <2>4, ViewsAreMade
<1>10. ASSUME Regenerate
       PROVE  /\ HeadTyped' /\ ProfilesTyped' /\ GrantsTyped' /\ RestrictionsTyped'
              /\ PeopleTyped' /\ ViewsTyped'
  <2>1. HeadTyped' /\ ProfilesTyped' /\ GrantsTyped' /\ RestrictionsTyped' /\ PeopleTyped'
    BY <1>10, AccessKept DEF Regenerate, policyVars, peopleVars
  <2>2. GeneratedFits(Viewed)
    BY GeneratedFacts DEF PolicyTyped, HeadTyped, ProfilesTyped, GrantsTyped, RestrictionsTyped
  <2>3. views' = Generated(Person, Viewed)
    BY <1>10 DEF Regenerate
  <2>4. ViewsTyped'
    <3>1. Viewed' = {w.profiles : w \in {v \in Generated(Person, Viewed) : Cardinality(v.profiles) >= 2}}
      BY <2>3 DEF Viewed
    <3>2. IsFiniteSet(Viewed') /\ Cardinality(Viewed') <= Cap
      BY <2>2, <3>1 DEF GeneratedFits
    <3>3. QED
      BY <2>2, <2>3, <3>2 DEF GeneratedFits, ViewsTyped, ViewsCapped
  <2>5. QED
    BY <2>1, <2>4
<1>11. ASSUME NEW p \in Person, NEW r \in Roles[p], SetRole(p, r)
       PROVE  /\ HeadTyped' /\ ProfilesTyped' /\ GrantsTyped' /\ RestrictionsTyped'
              /\ PeopleTyped' /\ ViewsTyped'
  <2>1. r \in AnyRole
    BY AccessPolicyAssumption
  <2>2. PeopleTyped'
    BY <1>11, <2>1 DEF SetRole, PeopleTyped
  <2>3. current' \in BOOLEAN /\ expired' \subseteq expired
    BY <1>11 DEF SetRole, GrantsTyped
  <2>4. QED
    BY <1>11, <2>2, <2>3, AccessKept DEF SetRole, policyVars
<1>12. ASSUME NEW p \in Person, NEW gs \in Joins[p], SetGroups(p, gs)
       PROVE  /\ HeadTyped' /\ ProfilesTyped' /\ GrantsTyped' /\ RestrictionsTyped'
              /\ PeopleTyped' /\ ViewsTyped'
  <2>1. gs \in SUBSET AnyGroup
    BY AccessPolicyAssumption
  <2>2. PeopleTyped'
    BY <1>12, <2>1 DEF SetGroups, PeopleTyped
  <2>3. current' \in BOOLEAN /\ expired' \subseteq expired
    BY <1>12 DEF SetGroups, GrantsTyped
  <2>4. QED
    BY <1>12, <2>2, <2>3, AccessKept DEF SetGroups, policyVars
<1>13. ASSUME UNCHANGED accessVars
       PROVE  /\ HeadTyped' /\ ProfilesTyped' /\ GrantsTyped' /\ RestrictionsTyped'
              /\ PeopleTyped' /\ ViewsTyped'
  <2>1. current' \in BOOLEAN /\ expired' \subseteq expired
    BY <1>13 DEF accessVars, peopleVars, GrantsTyped
  <2>2. QED
    BY <1>13, <2>1, AccessKept DEF accessVars, policyVars, peopleVars
<1>14. QED
  BY <1>1, <1>2, <1>3, <1>4, <1>5, <1>6, <1>7, <1>8, <1>9, <1>10, <1>11, <1>12, <1>13 DEF AccessNext

\* The variables of the policy have their types, and every answer follows the cell
\* rule: an answered request is shown what the rule says however people and time
\* have changed, a refusal hides nothing, and one writes what a grant shows clear
\* (compiler.py, enforce.py).
THEOREM EveryAnswerFollows == AccessSpec => []AccessFollowsRule
<1>1. AccessInv => AccessFollowsRule
  BY RuleFollowed DEF AccessInv, AccessFollowsRule
<1>2. QED
  BY <1>1, AccessInitInv, AccessStepInv, PTL DEF AccessSpec

\* What is pending is among what a regeneration makes (begin_data, compile_policy).
THEOREM PendingIsMade == AccessSpec => []PendingIsGenerated
<1>1. AccessInv => PendingIsGenerated
  BY PendingFollows DEF AccessInv
<1>2. QED
  BY <1>1, AccessInitInv, AccessStepInv, PTL DEF AccessSpec

-----------------------------------------------------------------------------
(* A regeneration *)

\* Without an edit and with the same people, the same grants are held.
LEMMA PolicyStays ==
  ASSUME UNCHANGED <<head, policyVars, peopleVars>>
  PROVE  /\ \A p : Identities(p)' = Identities(p) /\ Narrows(p)' = Narrows(p) /\ Visible(p)' = Visible(p)
         /\ \A who, verb : Held(who, verb)' = Held(who, verb)
         /\ \A p, verb : Hidden(p, verb)' <=> Hidden(p, verb)
         /\ \A p, who, verb : ViewOf(p, who, verb)' = ViewOf(p, who, verb)
         /\ \A people : Needed(people)' = Needed(people)
         /\ Requests' = Requests
<1>1. UNCHANGED <<head, ladder, profile, grant, restriction, role, groups, expired>>
  BY DEF policyVars, peopleVars
<1>2. \A p : Identities(p)' = Identities(p) /\ Narrows(p)' = Narrows(p)
  BY <1>1 DEF Identities, Narrows
<1>3. \A cols : Sound(cols)' <=> Sound(cols)
  BY <1>1 DEF Sound, OnLadder
<1>4. Existing(profile)' = Existing(profile) /\ Existing(grant)' = Existing(grant)
      /\ \A verb : On(verb)' = On(verb)
  BY <1>1 DEF Existing, On
<1>5. \A r : BrokenRestriction(r)' <=> BrokenRestriction(r)
  BY <1>1, <1>3 DEF BrokenRestriction
<1>6. \A g : BrokenGrant(g)' <=> BrokenGrant(g)
  BY <1>1, <1>3, <1>4 DEF BrokenGrant, BrokenProfile
<1>7. \A r, p : Concerns(r, p)' <=> Concerns(r, p)
  BY <1>1, <1>2 DEF Concerns
<1>8. \A p, verb : Hidden(p, verb)' <=> Hidden(p, verb)
  BY <1>4, <1>5, <1>7 DEF Hidden
<1>9. \A who, verb : Reaching(who, verb)' = Reaching(who, verb)
  BY <1>1, <1>4, <1>6 DEF Reaching
<1>10. \A who, verb : Held(who, verb)' = Held(who, verb)
  BY <1>1, <1>9 DEF Held
<1>11. \A p, verb : Included(p, verb)' = Included(p, verb)
  BY <1>1, <1>4, <1>5, <1>7 DEF Included, Selective
<1>12. \A p, who, verb : ViewOf(p, who, verb)' = ViewOf(p, who, verb)
  BY <1>10, <1>11 DEF ViewOf
<1>13. \A p : Visible(p)' = Visible(p)
  BY <1>8 DEF Visible
<1>14. \A people : Needed(people)' = Needed(people)
  BY <1>2, <1>10, <1>13 DEF Needed
<1>15. Requests' = Requests
  BY <1>2 DEF Requests
<1>16. QED
  BY <1>2, <1>8, <1>10, <1>12, <1>13, <1>14, <1>15

LEMMA RegenerationFacts ==
  ASSUME AccessNext, views' # views, UNCHANGED <<head, policyVars, peopleVars>>
  PROVE  Regenerate
<1>1. \A h : ~Publish(h)
  BY DEF Publish
<1>2. \A a, l : ~PutLadder(a, l)
  BY DEF PutLadder, Commits
<1>3. \A x : ~DeleteProfile(x) /\ \A columns : ~PutProfile(x, columns)
  BY DEF DeleteProfile, PutProfile, Commits
<1>4. \A g : ~DeleteGrant(g) /\ ~Expire(g) /\ \A body : ~PutGrant(g, body)
  BY DEF DeleteGrant, Expire, PutGrant, Commits
<1>5. \A r : ~DeleteRestriction(r) /\ \A body : ~PutRestriction(r, body)
  BY DEF DeleteRestriction, PutRestriction, Commits
<1>6. \A p : (\A r : ~SetRole(p, r)) /\ (\A gs : ~SetGroups(p, gs))
  BY DEF SetRole, SetGroups
<1>7. QED
  BY <1>1, <1>2, <1>3, <1>4, <1>5, <1>6 DEF AccessNext

\* Who is answered before a regeneration is answered after it.
LEMMA DecisionStays ==
  ASSUME AccessInv, AccessInv', Regenerate, UNCHANGED <<head, policyVars, peopleVars>>,
         NEW p \in Person, NEW who \in Narrows(p), NEW verb \in Verb,
         Decide(p, who, verb) = "answered"
  PROVE  Decide(p, who, verb)' = "answered"
<1>1. PICK held : held = Held(who, verb)
  OBVIOUS
<1>2. /\ ~Hidden(p, verb) /\ held # {} /\ ~OverCap({p}, held) /\ ViewOf(p, who, verb) \in views
  BY <1>1, DecideIs
<1>3. PolicyTyped /\ Viewed \in SUBSET (SUBSET Profile) /\ Cardinality(Viewed) <= Cap
  BY DEF AccessInv, AccessTypeOK, ViewsCapped, Viewed
<1>4. Viewed' \in SUBSET (SUBSET Profile) /\ Cardinality(Viewed') <= Cap
  BY DEF AccessInv, AccessTypeOK, ViewsCapped, Viewed
<1>5. verb \in Visible(p)
  BY <1>2 DEF Visible
<1>6. ASSUME Cardinality(held) >= 2
      PROVE  \A people : p \in people => held \in Needed(people) /\ Needed(people) \in SUBSET (SUBSET Profile)
  BY <1>1, <1>3, <1>5, <1>6, NeededTyped DEF Needed
<1>7. Cardinality(held) >= 2 => held \in Viewed
  BY <1>1, <1>2 DEF Viewed, ViewOf, View
<1>8. Cardinality(held) >= 2 => held \in Combinations(Needed(Person), Viewed)
  BY <1>3, <1>6, <1>7, ViewedIsChosen
<1>9. ViewOf(p, who, verb) \in views'
  <2>1. ViewOf(p, who, verb) \in Generated(Person, Viewed)
    BY <1>1, <1>2, <1>3, <1>8, WithinCapIsGenerated
  <2>2. QED
    BY <2>1 DEF Regenerate
<1>10. Cardinality(held) >= 2 => held \in Viewed'
  BY <1>1, <1>9 DEF Viewed, ViewOf, View
<1>11. Cardinality(held) >= 2 => held \in Combinations(Needed({p}), Viewed')
  BY <1>4, <1>6, <1>10, ViewedIsChosen
<1>12. Combinations(Needed({p}), Viewed)' = Combinations(Needed({p}), Viewed')
  BY PolicyStays DEF Combinations
<1>13. ~OverCap({p}, held)'
  BY <1>11, <1>12 DEF OverCap
<1>14. ~Hidden(p, verb)' /\ Held(who, verb)' = held /\ (ViewOf(p, who, verb) \in views)'
  BY <1>1, <1>2, <1>9, PolicyStays
<1>15. current'
  BY DEF Regenerate
<1>16. QED
  BY <1>2, <1>13, <1>14, <1>15 DEF Decide

\* A regeneration for one new combination takes nobody else's view away, though the
\* cap is reached: what has a view is chosen first (select_combinations).
THEOREM RegenerationKeeps == AccessSpec => RegenerationKeepsAnswers
<1>1. AccessInv /\ AccessInv' /\ [AccessNext]_accessVars
        => [current /\ views' # views /\ UNCHANGED <<head, policyVars, peopleVars>>
              => Answered \subseteq Answered']_accessVars
  <2> SUFFICES ASSUME AccessInv, AccessInv', AccessNext,
                      views' # views, UNCHANGED <<head, policyVars, peopleVars>>,
                      NEW x \in Answered
               PROVE  x \in Answered'
    BY Zenon
  <2>1. Regenerate
    BY RegenerationFacts
  <2>2. x \in Requests /\ AnswerTo(x[1], x[2], x[3]) = "answered"
    BY DEF Answered
  <2>3. PICK p, who, verb : p = x[1] /\ who = x[2] /\ verb = x[3]
    OBVIOUS
  <2>4. /\ p \in Person /\ who \in Narrows(p) /\ Identities(p) \in Narrows(p) /\ verb \in Verb
    BY <2>2, <2>3, RequestFacts, AccessPolicyAssumption DEF Narrows
  <2>5. Decide(p, Identities(p), verb) = "answered" /\ Decide(p, who, verb) = "answered"
    BY <2>2, <2>3 DEF AnswerTo
  <2>6. Decide(p, who, verb)' = "answered"
    BY <2>1, <2>4, <2>5, DecisionStays
  <2>7. PICK base : base = Identities(p)
    OBVIOUS
  <2>8. Decide(p, base, verb)' = "answered"
    BY <2>1, <2>4, <2>5, <2>7, DecisionStays
  <2>9. Identities(p)' = base /\ Requests' = Requests
    BY <2>7, PolicyStays
  <2>10. AnswerTo(p, who, verb)' = "answered"
    BY <2>6, <2>8, <2>9 DEF AnswerTo
  <2>11. QED
    BY <2>2, <2>3, <2>9, <2>10 DEF Answered
<1>2. QED
  BY <1>1, AccessInitInv, AccessStepInv, PTL DEF AccessSpec, RegenerationKeepsAnswers
=============================================================================
