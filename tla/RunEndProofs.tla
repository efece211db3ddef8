---------------------------- MODULE RunEndProofs ----------------------------
(* What is left of the end of a run: the failure streak and the chain of its
   retries (Recovery), and the datasets that loads fill and the purge cleans
   up (Datasets). *)
EXTENDS Recovery, Datasets, FiniteSetTheorems, WellFoundedInduction, TLAPS

-----------------------------------------------------------------------------
(* The streak *)

Places == {"rest", "decide", "bump", "write", "save", "alarm", "discard", "advance"}
Steps == [at : Places, value : Nat, copy : Rec \cup {NoRec}]
Attempts == [state : Terminal2 \cup {"none", "running"}, kind : {"published", "draft", "error"},
             retryOf : {NoRun} \cup RunId]

StreakTypes ==
  /\ channel \in Rec /\ attempt \in [RunId -> Attempts]
  /\ settling \in [RunId -> Steps] /\ edit \in Rec \cup {NoRec}
  /\ closed \in Nat /\ overlap \in BOOLEAN /\ cut \in BOOLEAN

\* What the step that a settlement will take next finds and leaves.
StreakAt(r) ==
  /\ settling[r].at \in {"rest", "decide", "alarm", "discard"} => channel.streak = closed
  /\ settling[r].at = "advance" =>
       IF attempt[r].kind = "draft" THEN channel.streak = closed ELSE closed = 0
  /\ settling[r].at = "bump" => channel.streak + 1 = closed
  /\ settling[r].at = "write" => settling[r].value = closed
  /\ settling[r].at = "save" => settling[r].value = closed

\* Runs are numbered as they are minted, and settled once they are.
InOrder ==
  /\ \E k \in Nat : Minted = 1..k
  /\ \A r \in RunId : settling[r].at # "rest" => r \in Minted

\* As long as nothing overlaps and nothing is cut short, one thing at a time writes the row.
StreakInv ==
  /\ StreakTypes /\ InOrder
  /\ ~overlap /\ ~cut /\ exists =>
       /\ \A q, r \in Busy : q = r
       /\ edit # NoRec => Busy = {} /\ edit.streak = channel.streak
       /\ Busy = {} => channel.streak = closed
       /\ \A r \in Busy : StreakAt(r)

LEMMA SettlingTo ==
  ASSUME StreakTypes, NEW r \in RunId, NEW where \in Places, At(r, where)
  PROVE  /\ settling' \in [RunId -> Steps]
         /\ settling'[r].at = where /\ settling'[r].value = 0
         /\ \A q \in RunId : q # r => settling'[q] = settling[q]
<1>1. PICK s : s = [at |-> where, value |-> 0, copy |-> NoRec]
  OBVIOUS
<1>2. s \in Steps /\ s.at = where /\ s.value = 0
  BY <1>1 DEF Steps
<1>3. [AtRest EXCEPT !.at = where] = s
  BY <1>1 DEF AtRest
<1>4. settling' = [settling EXCEPT ![r] = s]
  BY <1>3 DEF At
<1>5. QED
  BY <1>2, <1>4 DEF StreakTypes

\* A step of the one settlement there is.
LEMMA SettlementStep ==
  ASSUME StreakInv, NEW r \in RunId, settling[r].at # "rest",
         \A q \in RunId : q # r => settling'[q] = settling[q],
         UNCHANGED <<edit, overlap, exists>>, cut' \in {cut, TRUE},
         StreakTypes', InOrder',
         exists /\ ~overlap /\ ~cut /\ ~cut' /\ StreakAt(r) => StreakAt(r)'
  PROVE  StreakInv'
<1>1. SUFFICES ASSUME ~overlap', ~cut', exists'
               PROVE  /\ \A q, p \in Busy' : q = p
                      /\ edit' # NoRec => Busy' = {} /\ edit'.streak = channel'.streak
                      /\ Busy' = {} => channel'.streak = closed'
                      /\ \A q \in Busy' : StreakAt(q)'
  BY DEF StreakInv
<1>2. ~overlap /\ ~cut /\ exists /\ edit' = edit
  BY <1>1 DEF StreakInv, StreakTypes
<1>3. /\ \A q, p \in Busy : q = p
      /\ edit # NoRec => Busy = {}
      /\ \A q \in Busy : StreakAt(q)
  BY <1>2 DEF StreakInv
<1>4. r \in Busy
  BY DEF Busy
<1>5. Busy' \subseteq {r}
  BY <1>3, <1>4 DEF Busy
<1>6. StreakAt(r)'
  BY <1>2, <1>1, <1>3, <1>4
<1>7. Busy' = {} => settling'[r].at = "rest"
  BY DEF Busy
<1>8. QED
  BY <1>2, <1>3, <1>4, <1>5, <1>6, <1>7 DEF StreakAt

LEMMA MintIsNew ==
  ASSUME StreakTypes, InOrder, NextId \in RunId, NEW a \in Attempts, a.state = "running",
         attempt' = [attempt EXCEPT ![NextId] = a]
  PROVE  /\ attempt' \in [RunId -> Attempts] /\ NextId \notin Minted
         /\ \E k \in Nat : Minted' = 1..k
         /\ Minted \subseteq Minted' /\ \A q \in Minted : attempt'[q] = attempt[q]
<1>1. PICK k \in Nat : Minted = 1..k
  BY DEF InOrder
<1>2. Cardinality(1..k) = k
  BY <1>1, FS_Interval
<1>3. PICK n \in RunId : n = NextId
  OBVIOUS
<1>4. n = k + 1
  BY <1>1, <1>2, <1>3 DEF NextId
<1>5. n \notin Minted
  BY <1>1, <1>4
<1>6. attempt' = [attempt EXCEPT ![n] = a]
  BY <1>3
<1>7. attempt' \in [RunId -> Attempts] /\ attempt'[n] = a /\ \A q \in RunId : q # n => attempt'[q] = attempt[q]
  BY <1>6 DEF StreakTypes
<1>8. Minted' = Minted \cup {n}
  BY <1>7 DEF Minted
<1>9. Minted' = 1..(k + 1)
  BY <1>1, <1>4, <1>8
<1>10. \A q \in Minted : attempt'[q] = attempt[q]
  BY <1>5, <1>7 DEF Minted
<1>11. QED
  BY <1>1, <1>3, <1>5, <1>7, <1>8, <1>9, <1>10

\* Runs that end or go stay minted.
LEMMA MintedStay ==
  ASSUME StreakTypes, InOrder, attempt' \in [RunId -> Attempts],
         \A q \in RunId : attempt'[q].state = "none" <=> attempt[q].state = "none"
  PROVE  Minted' = Minted
BY DEF Minted

LEMMA MintStreakStep ==
  ASSUME StreakInv, NEW kind \in {"published", "draft", "error"}, MintFirst(kind)
  PROVE  StreakInv'
<1>1. UNCHANGED <<channel, exists, edit, settling, closed, overlap, cut>> /\ StreakTypes /\ InOrder
  BY DEF MintFirst, history, StreakInv
<1>2. PICK a \in Attempts : a.state = "running" /\ attempt' = [attempt EXCEPT ![NextId] = a]
  <2>1. NoAttempt \in Attempts
    BY DEF NoAttempt, Attempts, Terminal2
  <2>2. PICK a \in Attempts : a = [NoAttempt EXCEPT !.state = "running", !.kind = kind]
    BY <2>1 DEF Attempts
  <2>3. a.state = "running"
    BY <2>1, <2>2 DEF Attempts
  <2>4. QED
    BY <2>2, <2>3 DEF MintFirst
<1>3. /\ attempt' \in [RunId -> Attempts] /\ \E k \in Nat : Minted' = 1..k
      /\ Minted \subseteq Minted' /\ \A q \in Minted : attempt'[q] = attempt[q]
  BY <1>1, <1>2, MintIsNew DEF MintFirst
<1>4. StreakTypes' /\ InOrder'
  BY <1>1, <1>3 DEF StreakTypes, InOrder
<1>5. Busy' = Busy /\ Busy \subseteq Minted
  BY <1>1 DEF Busy, InOrder
<1>6. \A r \in Busy : StreakAt(r) => StreakAt(r)'
  BY <1>1, <1>3, <1>5 DEF StreakAt
<1>7. QED
  BY <1>1, <1>4, <1>5, <1>6 DEF StreakInv

LEMMA RetryStreakStep ==
  ASSUME StreakInv, NEW r \in RunId, Retry(r)
  PROVE  StreakInv'
<1>1. /\ UNCHANGED <<channel, exists, edit, closed, overlap>> /\ StreakTypes /\ InOrder
      /\ settling[r].at = "decide"
  BY DEF Retry, StreakInv
<1>2. /\ settling' \in [RunId -> Steps] /\ settling'[r].at = "rest"
      /\ \A q \in RunId : q # r => settling'[q] = settling[q]
  <2>1. At(r, "rest") /\ "rest" \in Places
    BY DEF Retry, AfterRetry, Places
  <2>2. QED
    BY <1>1, <2>1, SettlingTo
<1>3. /\ attempt' \in [RunId -> Attempts] /\ \E k \in Nat : Minted' = 1..k
      /\ Minted \subseteq Minted' /\ cut' \in {cut, TRUE}
  <2>1. CASE attempt' = attempt /\ cut' = TRUE
    <3>1. Minted' = Minted
      BY <2>1 DEF Minted
    <3>2. QED
      BY <1>1, <2>1, <3>1 DEF StreakTypes, InOrder
  <2>2. CASE /\ NextId \in RunId /\ UNCHANGED cut
             /\ attempt' = [attempt EXCEPT ![NextId] =
                              [NoAttempt EXCEPT !.state = "running", !.retryOf = r]]
    <3>1. NoAttempt \in Attempts
      BY DEF NoAttempt, Attempts, Terminal2
    <3>2. PICK a \in Attempts : a = [NoAttempt EXCEPT !.state = "running", !.retryOf = r]
      BY <3>1 DEF Attempts
    <3>3. a.state = "running"
      BY <3>1, <3>2 DEF Attempts
    <3>4. attempt' = [attempt EXCEPT ![NextId] = a]
      BY <2>2, <3>2
    <3>5. QED
      BY <1>1, <2>2, <3>3, <3>4, MintIsNew
  <2>3. QED
    BY <2>1, <2>2 DEF Retry
<1>4. StreakTypes' /\ InOrder'
  BY <1>1, <1>2, <1>3 DEF StreakTypes, InOrder
<1>5. StreakAt(r) => StreakAt(r)'
  BY <1>1, <1>2 DEF StreakAt
<1>6. QED
  BY <1>1, <1>2, <1>3, <1>4, <1>5, SettlementStep

\* The steps of a settlement that leave the runs alone.
LEMMA WriteStreakStep ==
  ASSUME StreakInv, NEW r \in RunId,
         \/ CloseEpisode(r) \/ BumpStreak(r) \/ WriteStreak(r) \/ SaveStreak(r)
         \/ StartErrorWorkflow(r) \/ AdvanceThenReset(r)
  PROVE  StreakInv'
<1>1. UNCHANGED <<attempt, exists, edit, overlap>> /\ StreakTypes /\ InOrder
  BY DEF CloseEpisode, BumpStreak, WriteStreak, SaveStreak, StartErrorWorkflow, AdvanceThenReset,
         history, StreakInv
<1>2. Minted' = Minted
  BY <1>1 DEF Minted
<1>3. /\ settling[r] \in Steps /\ attempt[r] \in Attempts /\ channel \in Rec /\ closed \in Nat
      /\ channel.streak \in Nat
  BY <1>1 DEF StreakTypes, Rec
<1>4. ASSUME settling[r].at # "rest", settling' \in [RunId -> Steps],
             \A q \in RunId : q # r => settling'[q] = settling[q],
             channel' \in Rec, closed' \in Nat, cut' \in {cut, TRUE},
             exists /\ ~cut' /\ StreakAt(r) => StreakAt(r)'
      PROVE  StreakInv'
  <2>1. cut' \in BOOLEAN
    BY <1>1, <1>4 DEF StreakTypes
  <2>2. StreakTypes'
    BY <1>1, <1>4, <2>1 DEF StreakTypes
  <2>3. r \in Minted
    BY <1>1, <1>4 DEF InOrder
  <2>4. InOrder'
    BY <1>1, <1>2, <1>4, <2>3 DEF InOrder
  <2>5. QED
    BY <1>1, <1>4, <2>2, <2>4, SettlementStep
<1>5. CASE CloseEpisode(r)
  <2>1. PICK where \in {"bump", "alarm"} :
          /\ At(r, where)
          /\ where = "bump" <=> attempt[r].kind # "draft"
    BY <1>5 DEF CloseEpisode, Counts
  <2>2. /\ settling' \in [RunId -> Steps] /\ settling'[r].at = where
        /\ \A q \in RunId : q # r => settling'[q] = settling[q]
    BY <1>1, <2>1, SettlingTo DEF Places
  <2>3. /\ settling[r].at = "decide" /\ UNCHANGED <<channel, cut>>
        /\ closed' = IF attempt[r].kind # "draft" THEN closed + 1 ELSE closed
    BY <1>5 DEF CloseEpisode
  <2>4. StreakAt(r) => StreakAt(r)'
    BY <1>3, <2>1, <2>2, <2>3 DEF StreakAt
  <2>5. QED
    BY <1>3, <1>4, <2>2, <2>3, <2>4
<1>6. PICK after \in {"alarm", "discard"} : after = AfterStreak(r)
  BY DEF AfterStreak
<1>7. CASE BumpStreak(r)
  <2>1. settling[r].at = "bump" /\ UNCHANGED <<channel, closed, cut>>
    BY <1>7 DEF BumpStreak, history
  <2>2. CASE exists
    <3>1. settling' = [settling EXCEPT ![r].at = "write", ![r].value = channel.streak + 1]
      BY <1>7, <2>2 DEF BumpStreak
    <3>2. PICK s \in Steps : s = [settling[r] EXCEPT !.at = "write", !.value = channel.streak + 1]
      <4>1. PICK n \in Nat : n = channel.streak + 1
        BY <1>3
      <4>2. [settling[r] EXCEPT !.at = "write", !.value = n] \in Steps
        BY <1>3 DEF Steps, Places
      <4>3. QED
        BY <4>1, <4>2
    <3>3. s.at = "write" /\ s.value = channel.streak + 1 /\ settling' = [settling EXCEPT ![r] = s]
      BY <1>1, <1>3, <3>1, <3>2 DEF Steps, StreakTypes
    <3>4. StreakAt(r) => StreakAt(r)'
      BY <1>1, <1>3, <2>1, <3>3 DEF StreakAt, StreakTypes
    <3>5. QED
      BY <1>1, <1>3, <1>4, <2>1, <3>3, <3>4 DEF StreakTypes
  <2>3. CASE ~exists
    <3>1. At(r, after)
      BY <1>6, <1>7, <2>3 DEF BumpStreak
    <3>2. QED
      BY <1>1, <1>3, <1>4, <2>1, <2>3, <3>1, SettlingTo DEF Places
  <2>4. QED
    BY <2>2, <2>3
<1>8. CASE WriteStreak(r)
  <2>1. settling[r].at = "write" /\ UNCHANGED <<channel, closed, cut>>
    BY <1>8 DEF WriteStreak, history
  <2>2. CASE exists /\ ~(settling[r].value = 0 /\ channel.streak = 0)
    <3>1. settling' = [settling EXCEPT ![r].at = "save", ![r].copy = channel]
      BY <1>8, <2>2 DEF WriteStreak
    <3>2. PICK s \in Steps : s = [settling[r] EXCEPT !.at = "save", !.copy = channel]
      BY <1>3 DEF Steps, Places
    <3>3. s.at = "save" /\ s.value = settling[r].value /\ settling' = [settling EXCEPT ![r] = s]
      BY <1>1, <1>3, <3>1, <3>2 DEF Steps, StreakTypes
    <3>4. StreakAt(r) => StreakAt(r)'
      BY <1>1, <2>1, <3>3 DEF StreakAt, StreakTypes
    <3>5. QED
      BY <1>1, <1>3, <1>4, <2>1, <3>3, <3>4 DEF StreakTypes
  <2>3. CASE ~(exists /\ ~(settling[r].value = 0 /\ channel.streak = 0))
    <3>1. At(r, after)
      BY <1>6, <1>8, <2>3 DEF WriteStreak
    <3>2. /\ settling' \in [RunId -> Steps] /\ settling'[r].at = after
          /\ \A q \in RunId : q # r => settling'[q] = settling[q]
      BY <1>1, <3>1, SettlingTo DEF Places
    <3>3. exists /\ StreakAt(r) => StreakAt(r)'
      BY <2>1, <2>3, <3>2 DEF StreakAt
    <3>4. QED
      BY <1>3, <1>4, <2>1, <3>2, <3>3
  <2>4. QED
    BY <2>2, <2>3
<1>9. CASE SaveStreak(r)
  <2>1. settling[r].at = "save" /\ closed' = closed
    BY <1>9 DEF SaveStreak
  <2>2. CASE exists
    <3>1. channel' = [settling[r].copy EXCEPT !.streak = settling[r].value] /\ At(r, after) /\ cut' = cut
      BY <1>6, <1>9, <2>2 DEF SaveStreak
    <3>2. /\ settling' \in [RunId -> Steps] /\ settling'[r].at = after
          /\ \A q \in RunId : q # r => settling'[q] = settling[q]
      BY <1>1, <3>1, SettlingTo DEF Places
    <3>3. settling[r].copy \in Rec \cup {NoRec} /\ settling[r].value \in Nat
      BY <1>3 DEF Steps
    <3>4. channel' \in Rec /\ channel'.streak = settling[r].value
      <4>1. settling[r].copy \in [active : BOOLEAN, streak : Int]
        <5>1. NoRec \in [active : BOOLEAN, streak : Int]
          BY DEF NoRec
        <5>2. Rec \subseteq [active : BOOLEAN, streak : Int]
          BY DEF Rec
        <5>3. QED
          BY <3>3, <5>1, <5>2
      <4>2. QED
        BY <3>1, <3>3, <4>1 DEF Rec
    <3>5. StreakAt(r) => StreakAt(r)'
      BY <2>1, <3>2, <3>4 DEF StreakAt
    <3>6. QED
      BY <1>3, <1>4, <2>1, <3>1, <3>2, <3>4, <3>5
  <2>3. CASE ~exists
    <3>1. At(r, "rest") /\ cut' = TRUE /\ channel' = channel
      BY <1>9, <2>3 DEF SaveStreak, Rest
    <3>2. QED
      BY <1>1, <1>3, <1>4, <2>1, <2>3, <3>1, SettlingTo DEF Places
  <2>4. QED
    BY <2>2, <2>3
<1>10. CASE StartErrorWorkflow(r)
  <2>1. settling[r].at = "alarm" /\ UNCHANGED <<channel, closed, cut>> /\ At(r, "discard")
    BY <1>10 DEF StartErrorWorkflow, history
  <2>2. /\ settling' \in [RunId -> Steps] /\ settling'[r].at = "discard"
        /\ \A q \in RunId : q # r => settling'[q] = settling[q]
    BY <1>1, <2>1, SettlingTo DEF Places
  <2>3. StreakAt(r) => StreakAt(r)'
    BY <2>1, <2>2 DEF StreakAt
  <2>4. QED
    BY <1>3, <1>4, <2>1, <2>2, <2>3
<1>11. CASE AdvanceThenReset(r)
  <2>1. PICK where \in {"discard", "write"} :
          /\ At(r, where)
          /\ where = "discard" <=> attempt[r].kind = "draft"
    BY <1>11 DEF AdvanceThenReset
  <2>2. settling[r].at = "advance" /\ UNCHANGED <<channel, closed, cut>>
    BY <1>11 DEF AdvanceThenReset, history
  <2>3. /\ settling' \in [RunId -> Steps] /\ settling'[r].at = where /\ settling'[r].value = 0
        /\ \A q \in RunId : q # r => settling'[q] = settling[q]
    BY <1>1, <2>1, SettlingTo DEF Places
  <2>4. StreakAt(r) => StreakAt(r)'
    BY <2>1, <2>2, <2>3 DEF StreakAt
  <2>5. QED
    BY <1>3, <1>4, <2>2, <2>3, <2>4
<1>12. QED
  BY <1>5, <1>7, <1>8, <1>9, <1>10, <1>11

LEMMA DiscardStep ==
  ASSUME StreakInv, NEW r \in RunId, Discard(r)
  PROVE  StreakInv'
<1>1. /\ UNCHANGED <<channel, exists, edit, closed, overlap, cut>> /\ StreakTypes /\ InOrder
      /\ settling[r].at = "discard"
  BY DEF Discard, history, StreakInv
<1>2. /\ settling' \in [RunId -> Steps] /\ settling'[r].at = "rest"
      /\ \A q \in RunId : q # r => settling'[q] = settling[q]
  <2>1. At(r, "rest") /\ "rest" \in Places
    BY DEF Discard, Rest, Places
  <2>2. QED
    BY <1>1, <2>1, SettlingTo
<1>3. r \in Minted
  BY <1>1 DEF InOrder
<1>4. \A q \in RunId : q \in Doomed(r) => attempt[q].state # "none"
  <2>1. SUFFICES ASSUME NEW q \in RunId, q \in Doomed(r) PROVE attempt[q].state # "none"
    OBVIOUS
  <2>2. q = r \/ \A p \in Ancestry[r] : p >= q => attempt[p].state = "failed"
    BY <2>1 DEF Doomed
  <2>3. q = r \/ q \in Ancestry[r]
    BY <2>1 DEF Doomed
  <2>4. q >= q
    BY DEF RunId
  <2>5. QED
    BY <1>3, <2>2, <2>3, <2>4 DEF Minted
<1>5. attempt' \in [RunId -> Attempts] /\ \A q \in RunId : attempt'[q].state = "none" <=> attempt[q].state = "none"
  <2>1. \A q \in RunId : attempt[q] \in Attempts
    BY <1>1 DEF StreakTypes
  <2>2. \A q \in RunId : [attempt[q] EXCEPT !.state = "gone"] \in Attempts
                         /\ [attempt[q] EXCEPT !.state = "gone"].state = "gone"
    BY <2>1 DEF Attempts, Terminal2
  <2>3. CASE keep
    BY <1>1, <2>3 DEF Discard, StreakTypes
  <2>4. CASE ~keep
    <3>1. attempt' = [q \in RunId |-> IF q \in Doomed(r) THEN [attempt[q] EXCEPT !.state = "gone"]
                                      ELSE attempt[q]]
      BY <2>4 DEF Discard
    <3>2. QED
      BY <1>4, <2>1, <2>2, <3>1
  <2>5. QED
    BY <2>3, <2>4
<1>6. Minted' = Minted
  BY <1>1, <1>5, MintedStay
<1>7. StreakTypes' /\ InOrder'
  BY <1>1, <1>2, <1>3, <1>5, <1>6 DEF StreakTypes, InOrder
<1>8. StreakAt(r) => StreakAt(r)'
  BY <1>1, <1>2 DEF StreakAt
<1>9. QED
  BY <1>1, <1>2, <1>7, <1>8, SettlementStep

\* A run ends, and its settlement begins.
LEMMA FinishStep ==
  ASSUME StreakInv, NEW r \in RunId, NEW state \in {"failed", "succeeded"}, Finish(r, state)
  PROVE  StreakInv'
<1>1. /\ UNCHANGED <<channel, exists, edit, cut>> /\ StreakTypes /\ InOrder
      /\ attempt[r] \in Attempts /\ attempt[r].state = "running" /\ exists
  BY DEF Finish, StreakInv, StreakTypes
<1>2. PICK where \in {"decide", "advance"} : where = IF state = "failed" THEN "decide" ELSE "advance"
  OBVIOUS
<1>3. At(r, where) /\ (where = "decide" <=> state = "failed")
  BY <1>2 DEF Finish
<1>4. /\ settling' \in [RunId -> Steps] /\ settling'[r].at = where
      /\ \A q \in RunId : q # r => settling'[q] = settling[q]
  BY <1>1, <1>3, SettlingTo DEF Places
<1>5. attempt' = [attempt EXCEPT ![r].state = state]
  BY DEF Finish
<1>6. /\ attempt' \in [RunId -> Attempts] /\ attempt'[r].state = state /\ attempt'[r].kind = attempt[r].kind
      /\ \A q \in RunId : q # r => attempt'[q] = attempt[q]
  BY <1>1, <1>5 DEF StreakTypes, Attempts, Terminal2
<1>7. Minted' = Minted /\ r \in Minted
  BY <1>1, <1>6 DEF Minted
<1>8. /\ closed' = IF state = "succeeded" /\ attempt[r].kind # "draft" THEN 0 ELSE closed
      /\ overlap' = (overlap \/ Busy # {} \/ edit # NoRec)
  BY DEF Finish
<1>9. StreakTypes' /\ InOrder'
  BY <1>1, <1>4, <1>6, <1>7, <1>8 DEF StreakTypes, InOrder
<1>10. SUFFICES ASSUME ~overlap', ~cut', exists'
                PROVE  /\ \A q, p \in Busy' : q = p
                       /\ edit' # NoRec => Busy' = {} /\ edit'.streak = channel'.streak
                       /\ Busy' = {} => channel'.streak = closed'
                       /\ \A q \in Busy' : StreakAt(q)'
  BY <1>9 DEF StreakInv
<1>11. ~overlap /\ ~cut /\ Busy = {} /\ edit = NoRec
  BY <1>1, <1>8, <1>10
<1>12. channel.streak = closed
  BY <1>1, <1>11 DEF StreakInv
<1>13. Busy' = {r}
  BY <1>2, <1>4, <1>11 DEF Busy
<1>14. StreakAt(r)'
  BY <1>1, <1>3, <1>4, <1>6, <1>8, <1>12 DEF StreakAt
<1>15. QED
  BY <1>1, <1>11, <1>13, <1>14

\* Runs end without a settlement, with their channel, or with their worker.
LEMMA StopStep ==
  ASSUME StreakInv, DeleteChannel \/ \E r \in RunId : CancelRun(r) \/ LoseRun(r)
  PROVE  StreakInv'
<1>1. StreakTypes /\ InOrder /\ \A q \in RunId : attempt[q] \in Attempts
  BY DEF StreakInv, StreakTypes
<1>2. UNCHANGED <<channel, edit, closed, overlap>>
  BY DEF DeleteChannel, CancelRun, LoseRun, history
<1>3. /\ attempt' \in [RunId -> Attempts]
      /\ \A q \in RunId : /\ attempt'[q].state = "none" <=> attempt[q].state = "none"
                          /\ attempt'[q].kind = attempt[q].kind
  <2>1. CASE DeleteChannel
    BY <1>1, <2>1 DEF DeleteChannel, Attempts, Terminal2
  <2>2. ASSUME NEW r \in RunId, CancelRun(r) \/ LoseRun(r)
        PROVE  /\ attempt' \in [RunId -> Attempts]
               /\ \A q \in RunId : /\ attempt'[q].state = "none" <=> attempt[q].state = "none"
                                   /\ attempt'[q].kind = attempt[q].kind
    <3>1. PICK a \in Attempts : /\ attempt' = [attempt EXCEPT ![r] = a] /\ a.kind = attempt[r].kind
                                /\ a.state = "none" <=> attempt[r].state = "none"
      <4>1. attempt[r] \in Attempts /\ {"cancelled", "failed"} \subseteq Terminal2
        BY <1>1, <2>2 DEF Terminal2
      <4>2. CASE CancelRun(r)
        <5>1. PICK a \in Attempts : a = [attempt[r] EXCEPT !.state = "cancelled"]
          BY <4>1 DEF Attempts
        <5>2. a.kind = attempt[r].kind /\ a.state = "cancelled"
          BY <4>1, <5>1 DEF Attempts
        <5>3. attempt' = [attempt EXCEPT ![r] = a] /\ attempt[r].state = "running"
          BY <1>1, <4>2, <5>1 DEF CancelRun, StreakTypes
        <5>4. QED
          BY <5>2, <5>3
      <4>3. CASE LoseRun(r) /\ attempt[r].state = "running"
        <5>1. PICK a \in Attempts : a = [attempt[r] EXCEPT !.state = "failed"]
          BY <4>1 DEF Attempts
        <5>2. a.kind = attempt[r].kind /\ a.state = "failed"
          BY <4>1, <5>1 DEF Attempts
        <5>3. attempt' = [attempt EXCEPT ![r] = a]
          BY <1>1, <4>3, <5>1 DEF LoseRun, StreakTypes
        <5>4. QED
          BY <4>3, <5>2, <5>3
      <4>4. CASE LoseRun(r) /\ attempt[r].state # "running"
        <5>1. [attempt[r] EXCEPT !.state = attempt[r].state] = attempt[r]
          BY <1>1 DEF Attempts
        <5>2. attempt' = [attempt EXCEPT ![r] = attempt[r]]
          BY <1>1, <4>4, <5>1 DEF LoseRun, StreakTypes
        <5>3. QED
          BY <1>1, <5>2
      <4>5. QED
        BY <2>2, <4>2, <4>3, <4>4
    <3>2. QED
      BY <1>1, <3>1 DEF StreakTypes
  <2>3. QED
    BY <2>1, <2>2
<1>4. Minted' = Minted
  BY <1>1, <1>3, MintedStay
<1>5. CASE DeleteChannel
  <2>1. ~exists' /\ UNCHANGED <<settling, cut>>
    BY <1>5 DEF DeleteChannel, history
  <2>2. StreakTypes' /\ InOrder'
    BY <1>1, <1>2, <1>3, <1>4, <2>1 DEF StreakTypes, InOrder
  <2>3. QED
    BY <2>1, <2>2 DEF StreakInv
<1>6. ASSUME NEW r \in RunId, LoseRun(r) PROVE StreakInv'
  <2>1. /\ settling' \in [RunId -> Steps] /\ settling'[r].at = "rest"
        /\ \A q \in RunId : q # r => settling'[q] = settling[q]
    <3>1. At(r, "rest")
      BY <1>6 DEF LoseRun, Rest
    <3>2. QED
      BY <1>1, <3>1, SettlingTo DEF Places
  <2>2. cut' = TRUE
    BY <1>6 DEF LoseRun
  <2>3. StreakTypes' /\ InOrder'
    BY <1>1, <1>2, <1>3, <1>4, <2>1, <2>2 DEF StreakTypes, InOrder
  <2>4. QED
    BY <2>2, <2>3 DEF StreakInv
<1>7. ASSUME NEW r \in RunId, CancelRun(r) PROVE StreakInv'
  <2>1. UNCHANGED <<settling, exists, cut>>
    BY <1>7 DEF CancelRun, history
  <2>2. StreakTypes' /\ InOrder' /\ Busy' = Busy
    BY <1>1, <1>2, <1>3, <1>4, <2>1 DEF StreakTypes, InOrder, Busy
  <2>3. \A q \in Busy : StreakAt(q) => StreakAt(q)'
    BY <1>2, <1>3, <2>1 DEF StreakAt, Busy
  <2>4. QED
    BY <1>2, <2>1, <2>2, <2>3 DEF StreakInv
<1>8. QED
  BY <1>5, <1>6, <1>7

LEMMA EditStep ==
  ASSUME StreakInv, ReadForEdit \/ SaveEdit
  PROVE  StreakInv'
<1>1. /\ StreakTypes /\ InOrder /\ channel \in Rec /\ channel.streak \in Nat
      /\ UNCHANGED <<exists, attempt, settling, closed, cut>>
  BY DEF StreakInv, StreakTypes, Rec, ReadForEdit, SaveEdit, runVars2, history
<1>2. InOrder' /\ Busy' = Busy
  BY <1>1 DEF InOrder, Minted, Busy
<1>3. CASE ReadForEdit
  <2>1. edit' \in Rec /\ edit'.streak = channel.streak
    BY <1>1, <1>3 DEF ReadForEdit, Rec
  <2>2. channel' = channel /\ edit = NoRec /\ overlap' = (overlap \/ Busy # {})
    BY <1>3 DEF ReadForEdit
  <2>3. StreakTypes'
    BY <1>1, <2>1, <2>2 DEF StreakTypes
  <2>4. SUFFICES ASSUME ~overlap', ~cut', exists'
                 PROVE  /\ \A q, p \in Busy' : q = p
                        /\ edit' # NoRec => Busy' = {} /\ edit'.streak = channel'.streak
                        /\ Busy' = {} => channel'.streak = closed'
                        /\ \A q \in Busy' : StreakAt(q)'
    BY <1>2, <2>3 DEF StreakInv
  <2>5. ~overlap /\ ~cut /\ exists /\ Busy = {}
    BY <1>1, <2>2, <2>4
  <2>6. channel.streak = closed
    BY <2>5 DEF StreakInv
  <2>7. QED
    BY <1>1, <1>2, <2>1, <2>2, <2>5, <2>6
<1>4. CASE SaveEdit
  <2>1. edit # NoRec /\ edit' = NoRec /\ overlap' = overlap /\ channel' \in {channel, edit} /\ edit \in Rec
    BY <1>1, <1>4 DEF SaveEdit, history, StreakTypes
  <2>2. StreakTypes'
    BY <1>1, <2>1 DEF StreakTypes
  <2>3. SUFFICES ASSUME ~overlap', ~cut', exists'
                 PROVE  /\ \A q, p \in Busy' : q = p
                        /\ edit' # NoRec => Busy' = {} /\ edit'.streak = channel'.streak
                        /\ Busy' = {} => channel'.streak = closed'
                        /\ \A q \in Busy' : StreakAt(q)'
    BY <1>2, <2>2 DEF StreakInv
  <2>4. ~overlap /\ ~cut /\ exists
    BY <1>1, <2>1, <2>3
  <2>5. Busy = {} /\ edit.streak = channel.streak /\ channel.streak = closed
    BY <2>1, <2>4 DEF StreakInv
  <2>6. QED
    BY <1>1, <1>2, <2>1, <2>5
<1>5. QED
  BY <1>3, <1>4

LEMMA StreakInvHolds == RecoverySpec => []StreakInv
<1>1. RecoveryInit => StreakInv
  <2>1. SUFFICES ASSUME RecoveryInit PROVE StreakInv
    OBVIOUS
  <2>2. StreakTypes
    <3>1. NoAttempt \in Attempts /\ AtRest \in Steps
      BY DEF NoAttempt, Attempts, AtRest, Steps, Places
    <3>2. [active |-> TRUE, streak |-> 0] \in Rec
      BY DEF Rec
    <3>3. QED
      BY <2>1, <3>1, <3>2 DEF RecoveryInit, StreakTypes
  <2>3. Busy = {} /\ Minted = {}
    BY <2>1 DEF RecoveryInit, Busy, Minted, AtRest, NoAttempt
  <2>4. InOrder
    <3>1. Minted = 1..0
      BY <2>3
    <3>2. \A r \in RunId : settling[r].at = "rest"
      BY <2>3 DEF Busy
    <3>3. QED
      BY <3>1, <3>2 DEF InOrder
  <2>5. QED
    BY <2>1, <2>2, <2>3, <2>4 DEF StreakInv, RecoveryInit
<1>2. StreakInv /\ [RecoveryNext]_recoveryVars => StreakInv'
  <2>1. SUFFICES ASSUME StreakInv, [RecoveryNext]_recoveryVars PROVE StreakInv'
    OBVIOUS
  <2>2. CASE UNCHANGED recoveryVars
    <3>1. UNCHANGED <<channel, exists, edit, attempt, settling, closed, overlap, cut>>
      BY <2>2 DEF recoveryVars, runVars2, history
    <3>2. StreakTypes' /\ InOrder' /\ Busy' = Busy
      BY <2>1, <3>1 DEF StreakInv, StreakTypes, InOrder, Minted, Busy
    <3>3. \A r \in Busy : StreakAt(r) => StreakAt(r)'
      BY <3>1 DEF StreakAt
    <3>4. QED
      BY <2>1, <3>1, <3>2, <3>3 DEF StreakInv
  <2>3. ASSUME NEW r \in RunId,
               \/ Finish(r, "failed") \/ Finish(r, "succeeded") \/ Retry(r) \/ Discard(r)
               \/ CloseEpisode(r) \/ BumpStreak(r) \/ WriteStreak(r) \/ SaveStreak(r)
               \/ StartErrorWorkflow(r) \/ AdvanceThenReset(r)
        PROVE  StreakInv'
    BY <2>1, <2>3, FinishStep, RetryStreakStep, DiscardStep, WriteStreakStep
  <2>4. QED
    BY <2>1, <2>2, <2>3, MintStreakStep, StopStep, EditStep DEF RecoveryNext
<1>3. QED
  BY <1>1, <1>2, PTL DEF RecoverySpec

\* While settlements and edits come one at a time and none is cut short, the streak at rest
\* is the number of published episodes closed since the last published success.
THEOREM StreakIsTheCount == RecoverySpec => []StreakCountsEpisodes
<1>1. StreakInv => StreakCountsEpisodes
  BY DEF StreakInv, StreakCountsEpisodes
<1>2. QED
  BY <1>1, StreakInvHolds, PTL

-----------------------------------------------------------------------------
(* Chains of retries *)

LEMMA LeastAndGreatest ==
  ASSUME NEW n \in Nat, NEW S \in SUBSET (1..n), S # {}
  PROVE  /\ \E x \in S : \A y \in S : x <= y
         /\ \E x \in S : \A y \in S : y <= x
<1> DEFINE I == {x..n : x \in S}
           J == {1..x : x \in S}
<1>1. IsWellFoundedOn(StrictSubsetOrdering(Nat), FiniteSubsetsOf(Nat))
  BY FS_StrictSubsetOrderingWellFounded
<1>2. I \subseteq FiniteSubsetsOf(Nat) /\ I # {} /\ J \subseteq FiniteSubsetsOf(Nat) /\ J # {}
  <2>1. \A x \in 1..n : IsFiniteSet(x..n) /\ x..n \subseteq Nat /\ IsFiniteSet(1..x) /\ 1..x \subseteq Nat
    BY FS_Interval
  <2>2. QED
    BY <2>1 DEF FiniteSubsetsOf
<1>3. \E x \in S : \A y \in S : y <= x
  <2>1. PICK i \in I : \A j \in I : ~(<<j, i>> \in StrictSubsetOrdering(Nat))
    BY <1>1, <1>2, WFMin
  <2>2. PICK x \in S : i = x..n
    BY <2>1
  <2>3. ASSUME NEW y \in S PROVE y <= x
    <3>1. ~(<<y..n, x..n>> \in StrictSubsetOrdering(Nat))
      BY <2>1, <2>2
    <3>2. QED
      BY <2>2, <3>1 DEF StrictSubsetOrdering
  <2>4. QED
    BY <2>3
<1>4. \E x \in S : \A y \in S : x <= y
  <2>1. PICK i \in J : \A j \in J : ~(<<j, i>> \in StrictSubsetOrdering(Nat))
    BY <1>1, <1>2, WFMin
  <2>2. PICK x \in S : i = 1..x
    BY <2>1
  <2>3. ASSUME NEW y \in S PROVE x <= y
    <3>1. ~(<<1..y, 1..x>> \in StrictSubsetOrdering(Nat))
      BY <2>1, <2>2
    <3>2. QED
      BY <2>2, <3>1 DEF StrictSubsetOrdering
  <2>4. QED
    BY <2>3
<1>5. QED
  BY <1>3, <1>4

\* Parents are older, and a chain is a run with the chain of its parent.
IsParents(p) == p \in [RunId -> {NoRun} \cup RunId] /\ \A r \in RunId : p[r] < r
IsChains(A, p) == /\ DOMAIN A = RunId
                  /\ \A r \in RunId : A[r] = {r} \cup (IF p[r] = NoRun THEN {} ELSE A[p[r]])

\* No run fails a property that is its parent's to its own.
LEMMA RunInduction ==
  ASSUME NEW Bad \in SUBSET RunId, NEW p, IsParents(p),
         \A r \in Bad : p[r] # NoRun /\ p[r] \in Bad
  PROVE  Bad = {}
<1>1. SUFFICES ASSUME Bad # {} PROVE FALSE
  OBVIOUS
<1>2. PICK m \in Bad : \A y \in Bad : m <= y
  BY <1>1, LeastAndGreatest, RecoveryAssumption DEF RunId
<1>3. p[m] \in Bad /\ p[m] < m /\ m <= p[m] /\ m \in Nat /\ p[m] \in Nat
  BY <1>2, RecoveryAssumption DEF IsParents, RunId
<1>4. QED
  BY <1>3

\* A chain goes back in time, is closed, and every run of it but the last has the
\* next one for its retry.
LEMMA ChainFacts ==
  ASSUME NEW p, IsParents(p), NEW A, IsChains(A, p)
  PROVE  /\ \A r \in RunId : r \in A[r] /\ A[r] \subseteq 1..r
         /\ \A r \in RunId : \A q \in A[r] : q \in RunId /\ A[q] \subseteq A[r]
         /\ \A r \in RunId : \A q \in A[r] \ {r} : \E c \in A[r] : p[c] = q
<1>1. \A r \in RunId : r \in A[r]
  BY DEF IsChains
<1>2. \A r \in RunId : p[r] # NoRun => p[r] \in RunId /\ p[r] < r /\ A[r] = {r} \cup A[p[r]]
  BY DEF IsParents, IsChains
<1>3. \A r \in RunId : p[r] = NoRun => A[r] = {r}
  BY DEF IsChains
<1>4. \A r \in RunId : A[r] \subseteq 1..r
  <2> DEFINE Bad == {r \in RunId : ~(A[r] \subseteq 1..r)}
  <2>1. \A r \in RunId : r \in 1..r
    BY RecoveryAssumption DEF RunId
  <2>2. ASSUME NEW r \in Bad PROVE p[r] # NoRun /\ p[r] \in Bad
    <3>1. p[r] # NoRun
      BY <1>3, <2>1
    <3>2. A[p[r]] \subseteq 1..p[r] => A[r] \subseteq 1..r
      BY <1>2, <2>1, <3>1, RecoveryAssumption DEF RunId
    <3>3. QED
      BY <1>2, <3>1, <3>2
  <2> HIDE DEF Bad
  <2>3. Bad = {}
    <3>1. Bad \in SUBSET RunId
      BY DEF Bad
    <3>2. QED
      BY <2>2, <3>1, RunInduction
  <2>4. QED
    BY <2>3 DEF Bad
<1>5. \A r \in RunId : \A q \in A[r] : q \in RunId
  BY <1>4, RecoveryAssumption DEF RunId
<1>6. \A r \in RunId : \A q \in A[r] : A[q] \subseteq A[r]
  <2> DEFINE Bad == {r \in RunId : ~(\A q \in A[r] : A[q] \subseteq A[r])}
  <2>1. ASSUME NEW r \in Bad PROVE p[r] # NoRun /\ p[r] \in Bad
    <3>1. p[r] # NoRun
      BY <1>3
    <3>2. (\A q \in A[p[r]] : A[q] \subseteq A[p[r]]) => \A q \in A[r] : A[q] \subseteq A[r]
      BY <1>2, <3>1
    <3>3. QED
      BY <1>2, <3>1, <3>2
  <2> HIDE DEF Bad
  <2>2. Bad = {}
    <3>1. Bad \in SUBSET RunId
      BY DEF Bad
    <3>2. QED
      BY <2>1, <3>1, RunInduction
  <2>3. QED
    BY <2>2 DEF Bad
<1>7. \A r \in RunId : \A q \in A[r] \ {r} : \E c \in A[r] : p[c] = q
  <2> DEFINE Bad == {r \in RunId : ~(\A q \in A[r] \ {r} : \E c \in A[r] : p[c] = q)}
  <2>1. ASSUME NEW r \in Bad PROVE p[r] # NoRun /\ p[r] \in Bad
    <3>1. p[r] # NoRun
      BY <1>3
    <3>2. (\A q \in A[p[r]] \ {p[r]} : \E c \in A[p[r]] : p[c] = q)
            => \A q \in A[r] \ {r} : \E c \in A[r] : p[c] = q
      BY <1>1, <1>2, <3>1
    <3>3. QED
      BY <1>2, <3>1, <3>2
  <2> HIDE DEF Bad
  <2>2. Bad = {}
    <3>1. Bad \in SUBSET RunId
      BY DEF Bad
    <3>2. QED
      BY <2>1, <3>1, RunInduction
  <2>3. QED
    BY <2>2 DEF Bad
<1>8. QED
  BY <1>1, <1>4, <1>5, <1>6, <1>7

\* When no run is retried twice, two runs with a common ancestor are of one line.
LEMMA OneLine ==
  ASSUME NEW p, IsParents(p), NEW A, IsChains(A, p),
         \A c, d \in RunId : p[c] # NoRun /\ p[c] = p[d] => c = d,
         NEW q \in RunId, NEW r \in RunId, NEW x, x \in A[q], x \in A[r]
  PROVE  q \in A[r] \/ r \in A[q]
<1>1. SUFFICES ASSUME q \notin A[r], r \notin A[q] PROVE FALSE
  OBVIOUS
<1>2. /\ A[q] \subseteq 1..q /\ \A y \in A[q] \ {q} : \E c \in A[q] : p[c] = y
      /\ A[r] \subseteq 1..r /\ \A y \in A[r] \ {r} : \E c \in A[r] : p[c] = y
      /\ \A y \in A[q] \cup A[r] : y \in RunId
  BY ChainFacts
<1> DEFINE Common == A[q] \cap A[r]
<1>3. PICK m \in Common : \A y \in Common : y <= m
  <2>1. Common \in SUBSET (1..q) /\ Common # {} /\ q \in Nat
    BY <1>2, RecoveryAssumption DEF RunId
  <2> HIDE DEF Common
  <2>2. QED
    BY <2>1, LeastAndGreatest
<1>4. m # q /\ m # r /\ m \in RunId
  BY <1>1, <1>2, <1>3
<1>5. PICK c \in A[q] : p[c] = m
  BY <1>2, <1>3, <1>4
<1>6. PICK d \in A[r] : p[d] = m
  BY <1>2, <1>3, <1>4
<1>7. c \in RunId /\ d \in RunId /\ m # NoRun
  BY <1>2, <1>4, <1>5, <1>6, RecoveryAssumption DEF RunId, NoRun
<1>8. c = d
  BY <1>5, <1>6, <1>7
<1>9. c \in Common /\ p[c] < c
  BY <1>5, <1>6, <1>7, <1>8 DEF IsParents
<1>10. c <= m /\ m < c /\ c \in Nat /\ m \in Nat
  BY <1>3, <1>4, <1>5, <1>7, <1>9, RecoveryAssumption DEF RunId
<1>11. QED
  BY <1>10
LEMMA ChainsExist ==
  ASSUME NEW p, IsParents(p)
  PROVE  \E A : /\ IsChains(A, p)
                /\ A = [r \in RunId |-> {r} \cup (IF p[r] = NoRun THEN {} ELSE A[p[r]])]
<1> DEFINE Closed(r, S) == r \in S /\ \A x \in S : p[x] # NoRun => p[x] \in S
           A == [r \in RunId |-> {q \in RunId : \A S \in SUBSET RunId : Closed(r, S) => q \in S}]
<1>1. \A r \in RunId : p[r] # NoRun => p[r] \in RunId
  BY DEF IsParents
<1>2. ASSUME NEW r \in RunId, p[r] = NoRun PROVE A[r] = {r}
  <2>1. Closed(r, {r})
    BY <1>2
  <2>2. \A q \in A[r] : q \in {r}
    <3>1. {r} \in SUBSET RunId
      OBVIOUS
    <3>2. QED
      BY <2>1, <3>1
  <2>3. r \in A[r]
    OBVIOUS
  <2>4. QED
    BY <2>2, <2>3
<1>3. ASSUME NEW r \in RunId, p[r] # NoRun PROVE A[r] = {r} \cup A[p[r]]
  <2>1. p[r] \in RunId
    BY <1>1, <1>3
  <2>2. \A S \in SUBSET RunId : Closed(r, S) => Closed(p[r], S)
    BY <1>3
  <2>3. r \in A[r] /\ A[p[r]] \subseteq A[r]
    BY <2>1, <2>2
  <2>4. Closed(r, {r} \cup A[p[r]])
    <3>1. p[r] \in A[p[r]]
      BY <2>1
    <3>2. ASSUME NEW x \in A[p[r]], p[x] # NoRun PROVE p[x] \in A[p[r]]
      <4>1. x \in RunId /\ p[x] \in RunId
        BY <1>1, <2>1, <3>2
      <4>2. \A S \in SUBSET RunId : Closed(p[r], S) => x \in S
        BY <2>1
      <4>3. \A S \in SUBSET RunId : Closed(p[r], S) => p[x] \in S
        BY <3>2, <4>2
      <4>4. QED
        BY <2>1, <4>1, <4>3
    <3> HIDE DEF A
    <3>3. QED
      BY <3>1, <3>2
  <2>5. {r} \cup A[p[r]] \in SUBSET RunId
    BY <2>1
  <2>6. A[r] \subseteq {r} \cup A[p[r]]
    <3>1. \A q \in A[r] : \A S \in SUBSET RunId : Closed(r, S) => q \in S
      OBVIOUS
    <3> HIDE DEF A, Closed
    <3>2. QED
      BY <2>4, <2>5, <3>1
  <2>7. QED
    BY <2>3, <2>6
<1>4. A = [r \in RunId |-> A[r]]
  OBVIOUS
<1> HIDE DEF A
<1>5. A = [r \in RunId |-> {r} \cup (IF p[r] = NoRun THEN {} ELSE A[p[r]])]
  BY <1>2, <1>3, <1>4
<1>6. IsChains(A, p)
  BY <1>5 DEF IsChains
<1>7. QED
  BY <1>5, <1>6

\* The chains of the runs in a state.
ParentOf == [r \in RunId |-> attempt[r].retryOf]

LEMMA AncestryIs == IsParents(ParentOf) => IsChains(Ancestry, ParentOf)
<1>1. SUFFICES ASSUME IsParents(ParentOf) PROVE IsChains(Ancestry, ParentOf)
  OBVIOUS
<1>2. \E A : A = [r \in RunId |-> {r} \cup (IF attempt[r].retryOf = NoRun THEN {} ELSE A[attempt[r].retryOf])]
  <2>1. PICK A : A = [r \in RunId |-> {r} \cup (IF ParentOf[r] = NoRun THEN {} ELSE A[ParentOf[r]])]
    BY <1>1, ChainsExist
  <2>2. \A r \in RunId : ParentOf[r] = attempt[r].retryOf
    BY DEF ParentOf
  <2>3. A = [r \in RunId |-> {r} \cup (IF attempt[r].retryOf = NoRun THEN {} ELSE A[attempt[r].retryOf])]
    BY <2>1, <2>2
  <2>4. QED
    BY <2>3
<1>3. Ancestry = [r \in RunId |-> {r} \cup (IF attempt[r].retryOf = NoRun THEN {} ELSE Ancestry[attempt[r].retryOf])]
  BY <1>2 DEF Ancestry
<1>4. DOMAIN Ancestry = RunId
  BY <1>3
<1>5. ASSUME NEW r \in RunId
      PROVE  Ancestry[r] = {r} \cup (IF attempt[r].retryOf = NoRun THEN {} ELSE Ancestry[attempt[r].retryOf])
  BY <1>3
<1>6. QED
  BY <1>4, <1>5 DEF IsChains, ParentOf

LEMMA AncestryIsNext == (IsParents(ParentOf) => IsChains(Ancestry, ParentOf))'
  BY AncestryIs, PTL

\* The chain of a run is what it was as long as its runs keep their parents.
LEMMA ChainsStay ==
  ASSUME NEW p, IsParents(p), NEW A, IsChains(A, p), NEW p2, IsParents(p2), NEW A2, IsChains(A2, p2),
         NEW N \in SUBSET RunId, \A r \in RunId \ N : p2[r] = p[r] /\ p[r] \notin N
  PROVE  \A r \in RunId \ N : A2[r] = A[r]
<1> DEFINE Bad == {r \in RunId \ N : A2[r] # A[r]}
<1>1. ASSUME NEW r \in Bad PROVE p[r] # NoRun /\ p[r] \in Bad
  <2>1. r \in RunId \ N /\ p2[r] = p[r] /\ p[r] \notin N /\ A2[r] # A[r]
    OBVIOUS
  <2>2. p[r] # NoRun /\ A2[p[r]] # A[p[r]]
    BY <2>1 DEF IsChains
  <2>3. p[r] \in RunId
    BY <2>1, <2>2 DEF IsParents
  <2>4. QED
    BY <2>1, <2>2, <2>3
<1> HIDE DEF Bad
<1>2. Bad = {}
  <2>1. Bad \in SUBSET RunId
    BY DEF Bad
  <2>2. QED
    BY <1>1, <2>1, RunInduction
<1>3. QED
  BY <1>2 DEF Bad

\* Nothing of the run is under way; and nothing of it is left to come.
Still(r) == attempt[r].state # "running" /\ settling[r].at = "rest"
Through(r) == attempt[r].state \in {"failed", "gone"} /\ settling[r].at = "rest" /\ r \notin alarms

\* Where a run's settlement is, and what started the error workflow, go with its state.
Alone(r) ==
  /\ settling[r].at \in {"decide", "alarm"} => attempt[r].state = "failed"
  /\ settling[r].at # "rest" => attempt[r].state # "running"
  /\ r \in alarms => attempt[r].state \in {"failed", "gone"} /\ settling[r].at \in {"rest", "discard"}

\* A run is retried once, when nothing of it is left to come; what is discarded has
\* nothing under way in its chain.
ChainInv ==
  /\ IsParents(ParentOf) /\ alarms \subseteq RunId
  /\ \A r \in RunId : Alone(r)
  /\ \A r \in RunId : ParentOf[r] # NoRun => Through(ParentOf[r])
  /\ \A q, r \in RunId : ParentOf[q] # NoRun /\ ParentOf[q] = ParentOf[r] => q = r
  /\ \A r \in RunId : Cardinality(Ancestry[r]) <= RetryLimit + 1
  /\ \A r \in RunId : attempt[r].state = "gone" => \A q \in RunId : SameChain(q, r) => Still(q)
  /\ \A r \in RunId \ Minted : ParentOf[r] = NoRun

\* As long as parents stay, so do chains.
LEMMA SameParents ==
  ASSUME IsParents(ParentOf), \A r \in RunId : attempt'[r].retryOf = attempt[r].retryOf
  PROVE  /\ ParentOf' = ParentOf /\ IsParents(ParentOf)'
         /\ \A r \in RunId : Ancestry'[r] = Ancestry[r]
         /\ \A q, r \in RunId : SameChain(q, r)' = SameChain(q, r)
<1>1. ParentOf' = ParentOf
  BY DEF ParentOf
<1>2. IsParents(ParentOf)'
  BY <1>1 DEF IsParents
<1>3. IsChains(Ancestry, ParentOf) /\ IsChains(Ancestry', ParentOf')
  <2>1. IsChains(Ancestry, ParentOf)
    BY AncestryIs
  <2>2. IsChains(Ancestry, ParentOf)'
    BY <1>2, AncestryIsNext
  <2>3. QED
    BY <2>1, <2>2 DEF IsChains
<1>4. \A r \in RunId : Ancestry'[r] = Ancestry[r]
  <2>1. PICK p, A, p2, A2 : p = ParentOf /\ A = Ancestry /\ p2 = ParentOf' /\ A2 = Ancestry'
    OBVIOUS
  <2>2. IsParents(p) /\ IsParents(p2) /\ IsChains(A, p) /\ IsChains(A2, p2) /\ p2 = p
    BY <1>1, <1>3, <2>1
  <2>3. PICK N \in SUBSET RunId : N = {}
    OBVIOUS
  <2>4. \A r \in RunId \ N : p2[r] = p[r] /\ p[r] \notin N
    BY <2>2, <2>3
  <2>5. \A r \in RunId \ N : A2[r] = A[r]
    BY <2>2, <2>4, ChainsStay
  <2>6. QED
    BY <2>1, <2>3, <2>5
<1>5. QED
  BY <1>1, <1>2, <1>4 DEF SameChain

LEMMA CalmStep ==
  ASSUME ChainInv, alarms' \subseteq RunId,
         \A r \in RunId :
           /\ attempt'[r].retryOf = attempt[r].retryOf
           /\ attempt'[r].state = "none" => attempt[r].state = "none"
           /\ Alone(r)' /\ (Through(r) => Through(r)') /\ (Still(r) => Still(r)')
           /\ attempt'[r].state = "gone" =>
                attempt[r].state = "gone" \/ \A q \in RunId : SameChain(q, r) => Still(q)'
  PROVE  ChainInv'
<1>1. /\ ParentOf' = ParentOf /\ IsParents(ParentOf)'
      /\ \A r \in RunId : Ancestry'[r] = Ancestry[r]
      /\ \A q, r \in RunId : SameChain(q, r)' = SameChain(q, r)
  BY SameParents DEF ChainInv
<1>2. ASSUME NEW r \in RunId, ParentOf'[r] # NoRun PROVE Through(ParentOf[r])'
  <2>1. PICK s \in RunId : s = ParentOf[r]
    BY <1>1, <1>2 DEF ChainInv, IsParents
  <2>2. Through(s)
    BY <1>1, <1>2, <2>1 DEF ChainInv
  <2>3. Through(s)'
    BY <2>2
  <2>4. QED
    BY <1>1, <2>1, <2>3 DEF Through
<1>3. ASSUME NEW r \in RunId, attempt'[r].state = "gone", NEW q \in RunId, SameChain(q, r)'
      PROVE  Still(q)'
  <2>1. SameChain(q, r)
    BY <1>1, <1>3
  <2>2. attempt[r].state = "gone" => Still(q)
    BY <2>1 DEF ChainInv
  <2>3. QED
    BY <1>3, <2>1, <2>2
<1>4. \A r \in RunId \ Minted' : ParentOf'[r] = NoRun
  BY <1>1 DEF ChainInv, Minted
<1>5. \A r \in RunId : Cardinality(Ancestry'[r]) <= RetryLimit + 1
  BY <1>1 DEF ChainInv
<1>6. \A q, r \in RunId : ParentOf'[q] # NoRun /\ ParentOf'[q] = ParentOf'[r] => q = r
  BY <1>1 DEF ChainInv
<1>7. QED
  BY <1>1, <1>2, <1>3, <1>4, <1>5, <1>6 DEF ChainInv

\* A step of one run that is under way.
LEMMA OneRunStep ==
  ASSUME ChainInv, NEW r \in RunId, ~Still(r),
         \A q \in RunId : q # r => attempt'[q] = attempt[q] /\ settling'[q] = settling[q],
         attempt'[r].retryOf = attempt[r].retryOf, attempt'[r].state \notin {"none", "gone"},
         alarms' \in {alarms, alarms \cup {r}}, Alone(r)'
  PROVE  ChainInv'
<1>1. alarms' \subseteq RunId /\ \A q \in RunId : Alone(q)
  BY DEF ChainInv
<1>2. ASSUME NEW q \in RunId
      PROVE  /\ attempt'[q].retryOf = attempt[q].retryOf
             /\ attempt'[q].state = "none" => attempt[q].state = "none"
             /\ Alone(q)' /\ (Through(q) => Through(q)') /\ (Still(q) => Still(q)')
             /\ attempt'[q].state = "gone" => attempt[q].state = "gone"
  <2>1. CASE q = r
    <3>1. Through(q) => Still(q)
      BY DEF Through, Still
    <3>2. QED
      BY <2>1, <3>1
  <2>2. CASE q # r
    <3>1. attempt'[q] = attempt[q] /\ settling'[q] = settling[q] /\ (q \in alarms' <=> q \in alarms)
      BY <2>2
    <3>2. Alone(q)
      BY <1>1
    <3>3. QED
      BY <3>1, <3>2 DEF Alone, Through, Still
  <2>3. QED
    BY <2>1, <2>2
<1>3. QED
  BY <1>1, <1>2, CalmStep

\* Of a chain, all but the last are through; what is not through is the last of its chain.
LEMMA InChain ==
  ASSUME ChainInv
  PROVE  /\ \A r \in RunId : r \in Ancestry[r] /\ Ancestry[r] \subseteq 1..r
         /\ \A r \in RunId : \A q \in Ancestry[r] : q \in RunId /\ Ancestry[q] \subseteq Ancestry[r]
         /\ \A r \in RunId : \A q \in Ancestry[r] : q # r => Through(q)
         /\ \A q, r \in RunId : SameChain(q, r) /\ ~Through(r) => q \in Ancestry[r]
         /\ \A q, r \in RunId : Ancestry[q] \cap Ancestry[r] # {} => SameChain(q, r)
<1>1. IsParents(ParentOf) /\ IsChains(Ancestry, ParentOf)
  BY AncestryIs DEF ChainInv
<1>2. PICK p, A : p = ParentOf /\ A = Ancestry
  OBVIOUS
<1>3. /\ \A r \in RunId : r \in A[r] /\ A[r] \subseteq 1..r
      /\ \A r \in RunId : \A q \in A[r] : q \in RunId /\ A[q] \subseteq A[r]
      /\ \A r \in RunId : \A q \in A[r] \ {r} : \E c \in A[r] : p[c] = q
  BY <1>1, <1>2, ChainFacts
<1>4. ASSUME NEW r \in RunId, NEW q \in Ancestry[r], q # r PROVE Through(q)
  <2>1. PICK c \in A[r] : p[c] = q
    BY <1>2, <1>3, <1>4
  <2>2. c \in RunId /\ q \in RunId
    BY <1>2, <1>3, <1>4, <2>1
  <2>3. q # NoRun
    BY <2>2, RecoveryAssumption DEF RunId, NoRun
  <2>4. QED
    BY <1>2, <2>1, <2>2, <2>3 DEF ChainInv
<1>5. \A q, r \in RunId : SameChain(q, r) /\ ~Through(r) => q \in Ancestry[r]
  BY <1>2, <1>3, <1>4 DEF SameChain
<1>6. ASSUME NEW q \in RunId, NEW r \in RunId, Ancestry[q] \cap Ancestry[r] # {} PROVE SameChain(q, r)
  <2>1. PICK x : x \in A[q] /\ x \in A[r]
    BY <1>2, <1>6
  <2>2. \A c, d \in RunId : p[c] # NoRun /\ p[c] = p[d] => c = d
    BY <1>2 DEF ChainInv
  <2>3. IsParents(p) /\ IsChains(A, p)
    BY <1>1, <1>2
  <2>4. q \in A[r] \/ r \in A[q]
    BY <2>1, <2>2, <2>3, OneLine
  <2>5. QED
    BY <1>2, <2>4 DEF SameChain
<1>7. QED
  BY <1>2, <1>3, <1>4, <1>5, <1>6

\* A run is minted, on its own or as the retry of the run that decides on it.
LEMMA MintChain ==
  ASSUME ChainInv, StreakTypes, InOrder, NextId \in RunId, NEW a \in Attempts, a.state = "running",
         attempt' = [attempt EXCEPT ![NextId] = a], alarms' = alarms,
         NEW s \in {NoRun} \cup RunId, a.retryOf = s,
         \A q \in RunId : q # s => settling'[q] = settling[q],
         s # NoRun => /\ settling[s].at = "decide" /\ settling'[s].at = "rest"
                      /\ Cardinality(Ancestry[s] \ {s}) < RetryLimit
  PROVE  ChainInv'
<1>1. PICK n \in RunId : n = NextId
  OBVIOUS
<1>2. /\ attempt' \in [RunId -> Attempts] /\ attempt'[n] = a /\ n \notin Minted
      /\ \A q \in RunId : q # n => attempt'[q] = attempt[q]
  BY <1>1, MintIsNew DEF StreakTypes
<1>3. Minted \subseteq 1..(n - 1)
  <2>1. PICK k \in Nat : Minted = 1..k
    BY DEF InOrder
  <2>2. Cardinality(1..k) = k
    BY <2>1, FS_Interval
  <2>3. QED
    BY <1>1, <2>1, <2>2 DEF NextId
<1>4. n \notin alarms /\ settling[n].at = "rest" /\ attempt[n].state = "none" /\ ~Through(n)
  BY <1>2 DEF Minted, InOrder, ChainInv, Alone, Through
<1>5. s # NoRun => s \in RunId /\ s \in Minted /\ attempt[s].state = "failed" /\ s \notin alarms /\ s # n /\ s < n
                   /\ ~Through(s) /\ ~Still(s)
  <2>1. SUFFICES ASSUME s # NoRun
                 PROVE  s \in RunId /\ s \in Minted /\ attempt[s].state = "failed" /\ s \notin alarms /\ s # n
                        /\ s < n /\ ~Through(s) /\ ~Still(s)
    OBVIOUS
  <2>2. s \in RunId /\ settling[s].at = "decide" /\ s \in Minted
    BY <2>1 DEF InOrder
  <2>3. attempt[s].state = "failed" /\ s \notin alarms /\ ~Through(s) /\ ~Still(s)
    BY <2>2 DEF ChainInv, Alone, Through, Still
  <2>4. s < n
    BY <1>3, <2>2 DEF RunId
  <2>5. QED
    BY <2>2, <2>3, <2>4, <1>2
<1>6. /\ IsParents(ParentOf) /\ IsChains(Ancestry, ParentOf)
      /\ \A r \in RunId : ParentOf[r] = attempt[r].retryOf /\ ParentOf'[r] = attempt'[r].retryOf
  BY AncestryIs DEF ChainInv, ParentOf
<1>7. ParentOf'[n] = s /\ \A r \in RunId : r # n => ParentOf'[r] = ParentOf[r]
  BY <1>2, <1>6
<1>8. IsParents(ParentOf)'
  <2>1. ParentOf' \in [RunId -> {NoRun} \cup RunId]
    BY <1>2 DEF ParentOf, Attempts
  <2>2. ASSUME NEW r \in RunId PROVE ParentOf'[r] < r
    <3>1. CASE r = n
      <4>1. NoRun < n
        BY DEF NoRun, RunId
      <4>2. QED
        BY <1>5, <1>7, <3>1, <4>1
    <3>2. CASE r # n
      BY <1>6, <1>7, <3>2 DEF IsParents
    <3>3. QED
      BY <3>1, <3>2
  <2>3. QED
    BY <2>1, <2>2 DEF IsParents
<1>9. IsChains(Ancestry, ParentOf)'
  BY <1>8, AncestryIsNext
<1>10. \A r \in RunId : r # n => Ancestry'[r] = Ancestry[r]
  <2>1. PICK p, A, p2, A2 : p = ParentOf /\ A = Ancestry /\ p2 = ParentOf' /\ A2 = Ancestry'
    OBVIOUS
  <2>2. IsParents(p) /\ IsParents(p2) /\ IsChains(A, p) /\ IsChains(A2, p2)
    BY <1>6, <1>8, <1>9, <2>1 DEF IsParents, IsChains
  <2>3. PICK N \in SUBSET RunId : N = {n}
    OBVIOUS
  <2>4. \A r \in RunId \ N : p2[r] = p[r] /\ p[r] \notin N
    <3>1. TAKE r \in RunId \ N
    <3>2. p2[r] = p[r]
      BY <1>7, <2>1, <2>3
    <3>3. p[r] # n
      BY <1>4, <2>1 DEF ChainInv, NoRun, RunId
    <3>4. QED
      BY <2>3, <3>2, <3>3
  <2>5. \A r \in RunId \ N : A2[r] = A[r]
    BY <2>2, <2>4, ChainsStay
  <2>6. QED
    BY <2>1, <2>3, <2>5
<1>11. Ancestry'[n] = {n} \cup (IF s = NoRun THEN {} ELSE Ancestry[s])
  BY <1>5, <1>7, <1>9, <1>10 DEF IsChains
<1>12. ASSUME NEW r \in RunId PROVE Alone(r)'
  <2>1. CASE r = n
    <3>1. n # s
      BY <1>5 DEF NoRun, RunId
    <3>2. attempt'[n].state = "running" /\ settling'[n].at = "rest" /\ n \notin alarms'
      BY <1>2, <1>4, <3>1
    <3>3. QED
      BY <2>1, <3>2 DEF Alone
  <2>2. CASE r # n /\ r = s
    <3>1. s # NoRun
      BY <2>2 DEF NoRun, RunId
    <3>2. QED
      BY <1>2, <1>5, <2>2, <3>1 DEF Alone
  <2>3. CASE r # n /\ r # s
    BY <1>2, <2>3 DEF Alone, ChainInv
  <2>4. QED
    BY <2>1, <2>2, <2>3
<1>13. ASSUME NEW r \in RunId, ParentOf'[r] # NoRun PROVE Through(ParentOf[r])'
  <2>1. CASE r = n
    BY <1>2, <1>5, <1>7, <1>13, <2>1 DEF Through
  <2>2. CASE r # n
    <3>1. PICK t \in RunId : t = ParentOf[r]
      BY <1>6, <1>7, <1>13, <2>2 DEF IsParents
    <3>2. Through(t)
      BY <1>7, <1>13, <2>2, <3>1 DEF ChainInv
    <3>3. t # n /\ t # s
      BY <1>4, <1>5, <3>2 DEF NoRun, RunId
    <3>4. Through(t)'
      BY <1>2, <3>2, <3>3 DEF Through
    <3>5. QED
      BY <1>7, <2>2, <3>1, <3>4
  <2>3. QED
    BY <2>1, <2>2
<1>14. ASSUME NEW q \in RunId, NEW r \in RunId, ParentOf'[q] # NoRun, ParentOf'[q] = ParentOf'[r]
       PROVE  q = r
  <2>1. \A t \in RunId : ParentOf[t] = s /\ s # NoRun => FALSE
    BY <1>5 DEF ChainInv
  <2>2. QED
    BY <1>7, <1>14, <2>1 DEF ChainInv
<1>15. ASSUME NEW r \in RunId PROVE Cardinality(Ancestry'[r]) <= RetryLimit + 1
  <2>1. CASE r # n
    BY <1>10, <2>1 DEF ChainInv
  <2>2. CASE r = n /\ s = NoRun
    <3>1. Ancestry'[r] = {n}
      BY <1>11, <2>2
    <3>2. Cardinality({n}) = 1
      BY FS_Singleton, Zenon
    <3>3. 1 <= RetryLimit + 1
      BY RecoveryAssumption
    <3>4. QED
      BY <3>1, <3>2, <3>3
  <2>3. CASE r = n /\ s # NoRun
    <3>1. s \in RunId /\ s \in Ancestry[s] /\ Ancestry[s] \subseteq 1..s
      BY <1>5, <2>3, InChain
    <3>2. IsFiniteSet(Ancestry[s])
      <4>1. IsFiniteSet(1..s)
        BY <3>1, FS_Interval DEF RunId
      <4>2. QED
        BY <3>1, <4>1, FS_Subset
    <3>3. PICK S : S = Ancestry[s]
      OBVIOUS
    <3>4. Cardinality(S \ {s}) = Cardinality(S) - 1 /\ Cardinality(S) \in Nat
      BY <3>1, <3>2, <3>3, FS_RemoveElement, FS_CardinalityType
    <3>5. n \notin S
      BY <1>5, <2>3, <3>1, <3>3 DEF RunId
    <3>6. Cardinality(S \cup {n}) = Cardinality(S) + 1
      BY <3>2, <3>3, <3>5, FS_AddElement
    <3>7. Ancestry'[r] = S \cup {n}
      BY <1>11, <2>3, <3>3
    <3>8. QED
      BY <2>3, <3>3, <3>4, <3>6, <3>7, RecoveryAssumption
  <2>4. QED
    BY <2>1, <2>2, <2>3
<1>16. ASSUME NEW r \in RunId, attempt'[r].state = "gone", NEW q \in RunId, SameChain(q, r)'
       PROVE  Still(q)'
  <2>1. r # n /\ attempt[r].state = "gone"
    BY <1>2, <1>16
  <2>2. \A t \in RunId : SameChain(t, r) => Still(t)
    BY <2>1 DEF ChainInv
  <2>3. q # n
    <3>1. SUFFICES ASSUME q = n PROVE FALSE
      OBVIOUS
    <3>2. n \notin Ancestry[r]
      BY <1>4, <2>1, InChain
    <3>3. r \in Ancestry'[n]
      BY <1>10, <1>16, <2>1, <3>1, <3>2 DEF SameChain
    <3>4. s # NoRun /\ r \in Ancestry[s]
      BY <1>11, <2>1, <3>3
    <3>5. QED
      BY <1>5, <2>2, <3>4 DEF SameChain
  <2>4. SameChain(q, r)
    BY <1>10, <1>16, <2>1, <2>3 DEF SameChain
  <2>5. Still(q) /\ q # s
    BY <1>5, <2>2, <2>4 DEF NoRun, RunId
  <2>6. QED
    BY <1>2, <2>3, <2>5 DEF Still
<1>17. \A r \in RunId \ Minted' : ParentOf'[r] = NoRun
  <2>1. TAKE r \in RunId \ Minted'
  <2>2. r # n /\ r \notin Minted
    BY <1>2 DEF Minted
  <2>3. QED
    BY <1>7, <2>2 DEF ChainInv
<1>18. alarms' \subseteq RunId
  BY DEF ChainInv
<1>19. QED
  BY <1>8, <1>12, <1>13, <1>14, <1>15, <1>16, <1>17, <1>18 DEF ChainInv

LEMMA UnderWay ==
  ASSUME ChainInv, InOrder, NEW r \in RunId, ~Still(r)
  PROVE  attempt[r].state \notin {"none", "gone"}
<1>1. attempt[r].state # "none"
  BY DEF InOrder, Minted, Still
<1>2. SameChain(r, r)
  BY InChain DEF SameChain
<1>3. QED
  BY <1>1, <1>2 DEF ChainInv

LEMMA MintChainStep ==
  ASSUME ChainInv, StreakInv, NEW kind \in {"published", "draft", "error"}, MintFirst(kind)
  PROVE  ChainInv'
<1>1. UNCHANGED <<settling, alarms>> /\ StreakTypes /\ InOrder /\ NextId \in RunId
  BY DEF MintFirst, history, StreakInv
<1>2. PICK s \in {NoRun} \cup RunId : s = NoRun
  OBVIOUS
<1>3. PICK a \in Attempts : /\ a.state = "running" /\ a.retryOf = s
                            /\ attempt' = [attempt EXCEPT ![NextId] = a]
  <2>1. NoAttempt \in Attempts /\ NoAttempt.retryOf = NoRun
    BY DEF NoAttempt, Attempts, Terminal2
  <2>2. PICK a \in Attempts : a = [NoAttempt EXCEPT !.state = "running", !.kind = kind]
    BY <2>1 DEF Attempts
  <2>3. a.state = "running" /\ a.retryOf = s
    BY <1>2, <2>1, <2>2 DEF Attempts
  <2>4. QED
    BY <2>2, <2>3 DEF MintFirst
<1>4. /\ \A q \in RunId : q # s => settling'[q] = settling[q]
      /\ s # NoRun => /\ settling[s].at = "decide" /\ settling'[s].at = "rest"
                      /\ Cardinality(Ancestry[s] \ {s}) < RetryLimit
  BY <1>1, <1>2
<1>5. QED
  BY <1>1, <1>3, <1>4, MintChain

LEMMA RetryChainStep ==
  ASSUME ChainInv, StreakInv, NEW r \in RunId, Retry(r)
  PROVE  ChainInv'
<1>1. /\ alarms' = alarms /\ StreakTypes /\ InOrder /\ settling[r].at = "decide"
      /\ Cardinality(Ancestry[r] \ {r}) < RetryLimit /\ ~Still(r)
  BY DEF Retry, RetriesLeft, Ancestors, StreakInv, Still
<1>2. settling'[r].at = "rest" /\ \A q \in RunId : q # r => settling'[q] = settling[q]
  <2>1. At(r, "rest") /\ "rest" \in Places
    BY DEF Retry, AfterRetry, Places
  <2>2. QED
    BY <1>1, <2>1, SettlingTo
<1>3. CASE attempt' = attempt
  <2>1. attempt[r].state = "failed" /\ r \notin alarms
    BY <1>1 DEF ChainInv, Alone
  <2>2. Alone(r)'
    BY <1>1, <1>2, <1>3, <2>1 DEF Alone
  <2>3. QED
    BY <1>1, <1>2, <1>3, <2>1, <2>2, OneRunStep
<1>4. CASE /\ NextId \in RunId
           /\ attempt' = [attempt EXCEPT ![NextId] =
                            [NoAttempt EXCEPT !.state = "running", !.retryOf = r]]
  <2>1. NoAttempt \in Attempts
    BY DEF NoAttempt, Attempts, Terminal2
  <2>2. PICK a \in Attempts : a = [NoAttempt EXCEPT !.state = "running", !.retryOf = r]
    BY <2>1 DEF Attempts
  <2>3. a.state = "running" /\ a.retryOf = r
    BY <2>1, <2>2 DEF Attempts
  <2>4. attempt' = [attempt EXCEPT ![NextId] = a]
    BY <1>4, <2>2
  <2>5. PICK s \in {NoRun} \cup RunId : s = r
    OBVIOUS
  <2>6. /\ a.retryOf = s /\ \A q \in RunId : q # s => settling'[q] = settling[q]
        /\ s # NoRun => /\ settling[s].at = "decide" /\ settling'[s].at = "rest"
                        /\ Cardinality(Ancestry[s] \ {s}) < RetryLimit
    BY <1>1, <1>2, <2>3, <2>5
  <2>7. QED
    BY <1>1, <1>4, <2>3, <2>4, <2>6, MintChain
<1>5. QED
  BY <1>3, <1>4 DEF Retry

\* A run ends; it is cancelled, or its worker is lost.
LEMMA EndChainStep ==
  ASSUME ChainInv, StreakInv, NEW r \in RunId,
         Finish(r, "failed") \/ Finish(r, "succeeded") \/ CancelRun(r) \/ LoseRun(r)
  PROVE  ChainInv'
<1>1. StreakTypes /\ InOrder /\ alarms' = alarms /\ attempt[r] \in Attempts /\ settling[r] \in Steps
      /\ Alone(r)
  BY DEF StreakInv, StreakTypes, Finish, CancelRun, LoseRun, ChainInv
<1>2. ~Still(r)
  BY DEF Finish, CancelRun, LoseRun, Busy, Still
<1>3. ASSUME NEW state \in Terminal2, attempt' = [attempt EXCEPT ![r].state = state]
      PROVE  /\ attempt'[r].state = state /\ attempt'[r].retryOf = attempt[r].retryOf
             /\ \A q \in RunId : q # r => attempt'[q] = attempt[q]
  BY <1>1, <1>3 DEF StreakTypes, Attempts
<1>4. ASSUME NEW state \in {"failed", "succeeded"}, Finish(r, state) PROVE ChainInv'
  <2>1. PICK where \in {"decide", "advance"} : where = IF state = "failed" THEN "decide" ELSE "advance"
    OBVIOUS
  <2>2. settling'[r].at = where /\ \A q \in RunId : q # r => settling'[q] = settling[q]
    <3>1. At(r, where)
      BY <1>4, <2>1 DEF Finish
    <3>2. QED
      BY <1>1, <3>1, SettlingTo DEF Places
  <2>3. /\ attempt'[r].state = state /\ attempt'[r].retryOf = attempt[r].retryOf
        /\ \A q \in RunId : q # r => attempt'[q] = attempt[q]
    BY <1>3, <1>4 DEF Finish, Terminal2
  <2>4. r \notin alarms
    BY <1>1, <1>4 DEF Finish, Alone
  <2>5. Alone(r)'
    BY <1>1, <2>1, <2>2, <2>3, <2>4 DEF Alone
  <2>6. QED
    BY <1>1, <1>2, <2>2, <2>3, <2>5, OneRunStep
<1>5. CASE CancelRun(r)
  <2>1. /\ attempt'[r].state = "cancelled" /\ attempt'[r].retryOf = attempt[r].retryOf
        /\ \A q \in RunId : q # r => attempt'[q] = attempt[q]
    BY <1>3, <1>5 DEF CancelRun, Terminal2
  <2>2. settling' = settling /\ attempt[r].state = "running"
    BY <1>5 DEF CancelRun
  <2>3. Alone(r)'
    BY <1>1, <2>1, <2>2 DEF Alone
  <2>4. QED
    BY <1>1, <1>2, <2>1, <2>2, <2>3, OneRunStep
<1>6. CASE LoseRun(r)
  <2>1. PICK state : state = IF attempt[r].state = "running" THEN "failed" ELSE attempt[r].state
    OBVIOUS
  <2>2. state \in Terminal2 \ {"gone"}
    BY <1>1, <1>2, <2>1, UnderWay DEF Attempts, Terminal2
  <2>3. attempt' = [attempt EXCEPT ![r].state = state]
    BY <1>1, <1>6, <2>1 DEF LoseRun, StreakTypes
  <2>4. /\ attempt'[r].state = state /\ attempt'[r].retryOf = attempt[r].retryOf
        /\ \A q \in RunId : q # r => attempt'[q] = attempt[q]
    BY <1>3, <2>2, <2>3
  <2>5. settling'[r].at = "rest" /\ \A q \in RunId : q # r => settling'[q] = settling[q]
    <3>1. At(r, "rest")
      BY <1>6 DEF LoseRun, Rest
    <3>2. QED
      BY <1>1, <3>1, SettlingTo DEF Places
  <2>6. Alone(r)'
    BY <1>1, <2>1, <2>4, <2>5 DEF Alone
  <2>7. QED
    BY <1>1, <1>2, <2>2, <2>4, <2>5, <2>6, OneRunStep DEF Terminal2
<1>7. QED
  BY <1>4, <1>5, <1>6

\* A settlement goes on.
LEMMA SettleChainStep ==
  ASSUME ChainInv, StreakInv, NEW r \in RunId,
         \/ CloseEpisode(r) \/ BumpStreak(r) \/ WriteStreak(r) \/ SaveStreak(r)
         \/ StartErrorWorkflow(r) \/ AdvanceThenReset(r)
  PROVE  ChainInv'
<1>1. /\ StreakTypes /\ InOrder /\ attempt' = attempt /\ attempt[r] \in Attempts /\ settling[r] \in Steps
      /\ Alone(r)
  BY DEF CloseEpisode, BumpStreak, WriteStreak, SaveStreak, StartErrorWorkflow, AdvanceThenReset,
         StreakInv, StreakTypes, ChainInv
<1>2. settling[r].at \notin {"rest", "discard"} /\ ~Still(r)
  BY DEF CloseEpisode, BumpStreak, WriteStreak, SaveStreak, StartErrorWorkflow, AdvanceThenReset, Still
<1>3. r \notin alarms /\ attempt[r].state \notin {"none", "gone", "running"}
  BY <1>1, <1>2, UnderWay DEF Alone
<1>4. ASSUME NEW where \in Places, settling'[r].at = where,
             \A q \in RunId : q # r => settling'[q] = settling[q],
             where \in {"decide", "alarm"} => attempt[r].state = "failed",
             \/ alarms' = alarms
             \/ alarms' = alarms \cup {r} /\ where = "discard" /\ attempt[r].state = "failed"
      PROVE  ChainInv'
  <2>1. Alone(r)'
    BY <1>1, <1>3, <1>4 DEF Alone
  <2>2. QED
    BY <1>1, <1>2, <1>3, <1>4, <2>1, OneRunStep
<1>5. ASSUME NEW where \in Places, At(r, where),
             where \in {"decide", "alarm"} => attempt[r].state = "failed",
             \/ alarms' = alarms
             \/ alarms' = alarms \cup {r} /\ where = "discard" /\ attempt[r].state = "failed"
      PROVE  ChainInv'
  <2>1. settling'[r].at = where /\ \A q \in RunId : q # r => settling'[q] = settling[q]
    BY <1>1, <1>5, SettlingTo
  <2>2. QED
    BY <1>4, <1>5, <2>1
<1>6. PICK after \in Places : /\ after = AfterStreak(r)
                              /\ after \in {"decide", "alarm"} => attempt[r].state = "failed"
  BY DEF AfterStreak, Places
<1>7. CASE CloseEpisode(r)
  <2>1. PICK where \in {"bump", "alarm"} : At(r, where)
    BY <1>7 DEF CloseEpisode
  <2>2. attempt[r].state = "failed" /\ alarms' = alarms
    BY <1>1, <1>7 DEF CloseEpisode, Alone
  <2>3. QED
    BY <1>5, <2>1, <2>2 DEF Places
<1>8. CASE BumpStreak(r)
  <2>1. CASE exists
    <3>1. settling' = [settling EXCEPT ![r].at = "write", ![r].value = channel.streak + 1]
      BY <1>8, <2>1 DEF BumpStreak
    <3>2. settling'[r].at = "write" /\ \A q \in RunId : q # r => settling'[q] = settling[q]
      BY <1>1, <3>1 DEF StreakTypes, Steps
    <3>3. QED
      BY <1>4, <1>8, <3>2 DEF BumpStreak, Places
  <2>2. CASE ~exists
    BY <1>5, <1>6, <1>8, <2>2 DEF BumpStreak
  <2>3. QED
    BY <2>1, <2>2
<1>9. CASE WriteStreak(r)
  <2>1. CASE settling' = [settling EXCEPT ![r].at = "save", ![r].copy = channel]
    <3>1. settling'[r].at = "save" /\ \A q \in RunId : q # r => settling'[q] = settling[q]
      BY <1>1, <2>1 DEF StreakTypes, Steps
    <3>2. QED
      BY <1>4, <1>9, <3>1 DEF WriteStreak, Places
  <2>2. CASE At(r, after)
    BY <1>5, <1>6, <1>9, <2>2 DEF WriteStreak
  <2>3. QED
    BY <1>6, <1>9, <2>1, <2>2 DEF WriteStreak
<1>10. CASE SaveStreak(r)
  <2>1. At(r, after) \/ At(r, "rest")
    BY <1>6, <1>10 DEF SaveStreak, Rest
  <2>2. QED
    BY <1>5, <1>6, <1>10, <2>1 DEF SaveStreak, Places
<1>11. CASE StartErrorWorkflow(r)
  <2>1. At(r, "discard") /\ alarms' \in {alarms, alarms \cup {r}} /\ attempt[r].state = "failed"
    BY <1>1, <1>11 DEF StartErrorWorkflow, Alone
  <2>2. QED
    BY <1>5, <2>1 DEF Places
<1>12. CASE AdvanceThenReset(r)
  <2>1. PICK where \in {"discard", "write"} : At(r, where)
    BY <1>12 DEF AdvanceThenReset
  <2>2. QED
    BY <1>5, <1>12, <2>1 DEF AdvanceThenReset, Places
<1>13. QED
  BY <1>7, <1>8, <1>9, <1>10, <1>11, <1>12

\* What is discarded has nothing under way in its chain: it is the chain of a run that is
\* the last of it, and whose settlement ends here.
LEMMA DiscardChainStep ==
  ASSUME ChainInv, StreakInv, NEW r \in RunId, Discard(r)
  PROVE  ChainInv'
<1>1. /\ StreakTypes /\ InOrder /\ alarms' = alarms /\ settling[r].at = "discard"
      /\ \A q \in RunId : attempt[q] \in Attempts
  BY DEF Discard, StreakInv, StreakTypes
<1>2. settling'[r].at = "rest" /\ \A q \in RunId : q # r => settling'[q] = settling[q]
  <2>1. At(r, "rest") /\ "rest" \in Places
    BY DEF Discard, Rest, Places
  <2>2. QED
    BY <1>1, <2>1, SettlingTo
<1>3. ~Through(r) /\ ~Still(r) /\ r \in RunId /\ attempt[r].state # "running"
  BY <1>1 DEF Through, Still, ChainInv, Alone
<1>4. ASSUME NEW q \in RunId, q \in Doomed(r)
      PROVE  /\ q \in Ancestry[r] /\ attempt[q].state # "none"
             /\ attempt[q].state = "failed" \/ q = r
  <2>1. r \in Ancestry[r] /\ attempt[r].state # "none"
    BY <1>1, <1>3, InChain, UnderWay
  <2>2. CASE q = r
    BY <2>1, <2>2
  <2>3. CASE q \in Ancestry[r] /\ \A p \in Ancestry[r] : p >= q => attempt[p].state = "failed"
    <3>1. q >= q
      BY DEF RunId
    <3>2. QED
      BY <2>3, <3>1
  <2>4. QED
    BY <1>4, <2>2, <2>3 DEF Doomed
<1>5. ASSUME NEW q \in RunId
      PROVE  \/ attempt'[q] = attempt[q]
             \/ /\ q \in Doomed(r) /\ ~keep
                /\ attempt'[q].state = "gone" /\ attempt'[q].retryOf = attempt[q].retryOf
  <2>1. CASE keep
    BY <2>1 DEF Discard
  <2>2. CASE ~keep
    <3>1. attempt' = [p \in RunId |-> IF p \in Doomed(r) THEN [attempt[p] EXCEPT !.state = "gone"]
                                      ELSE attempt[p]]
      BY <2>2 DEF Discard
    <3>2. [attempt[q] EXCEPT !.state = "gone"].state = "gone"
          /\ [attempt[q] EXCEPT !.state = "gone"].retryOf = attempt[q].retryOf
      BY <1>1 DEF Attempts
    <3>3. QED
      BY <2>2, <3>1, <3>2
  <2>3. QED
    BY <2>1, <2>2
<1>6. ASSUME NEW q \in RunId
      PROVE  /\ attempt'[q].retryOf = attempt[q].retryOf
             /\ attempt'[q].state = "none" => attempt[q].state = "none"
             /\ Alone(q)' /\ (Through(q) => Through(q)') /\ (Still(q) => Still(q)')
  <2>1. Alone(q) /\ (q # r => settling'[q] = settling[q])
    BY <1>2 DEF ChainInv
  <2>2. CASE attempt'[q] = attempt[q]
    <3>1. CASE q = r
      BY <1>1, <1>2, <1>3, <2>1, <2>2, <3>1 DEF Alone, Still
    <3>2. CASE q # r
      BY <1>1, <2>1, <2>2, <3>2 DEF Alone, Through, Still
    <3>3. QED
      BY <3>1, <3>2
  <2>3. CASE attempt'[q] # attempt[q]
    <3>1. /\ q \in Doomed(r) /\ attempt'[q].state = "gone" /\ attempt'[q].retryOf = attempt[q].retryOf
      BY <1>5, <2>3
    <3>2. settling'[q].at = "rest"
      <4>1. q # r => Through(q)
        BY <1>3, <1>4, <3>1, InChain
      <4>2. QED
        BY <1>2, <2>1, <4>1 DEF Through
    <3>3. QED
      BY <1>1, <3>1, <3>2 DEF Alone, Through, Still
  <2>4. QED
    BY <2>2, <2>3
<1>7. ASSUME NEW q \in RunId, attempt'[q].state = "gone", attempt[q].state # "gone",
             NEW s \in RunId, SameChain(s, q)
      PROVE  Still(s)'
  <2>1. q \in Doomed(r) /\ q \in Ancestry[r] /\ r \in Ancestry[r]
    BY <1>3, <1>4, <1>5, <1>7, InChain
  <2>2. s \in Ancestry[r]
    <3>1. CASE s \in Ancestry[q]
      BY <1>3, <2>1, <3>1, InChain
    <3>2. CASE q \in Ancestry[s]
      <4>1. SameChain(s, r)
        BY <1>3, <2>1, <3>2, InChain
      <4>2. QED
        BY <1>3, <4>1, InChain
    <3>3. QED
      BY <1>7, <3>1, <3>2 DEF SameChain
  <2>3. attempt'[s].state # "running"
    <3>1. s = r \/ Through(s)
      BY <1>3, <2>2, InChain
    <3>2. attempt[s].state # "running"
      BY <1>3, <3>1 DEF Through
    <3>3. QED
      BY <1>5, <3>2
  <2>4. settling'[s].at = "rest"
    <3>1. s # r => Through(s)
      BY <1>3, <2>2, InChain
    <3>2. QED
      BY <1>2, <3>1 DEF Through
  <2>5. QED
    BY <2>3, <2>4 DEF Still
<1>8. alarms' \subseteq RunId
  BY <1>1 DEF ChainInv
<1>9. ASSUME NEW q \in RunId
      PROVE  attempt'[q].state = "gone" =>
               attempt[q].state = "gone" \/ \A s \in RunId : SameChain(s, q) => Still(s)'
  BY <1>7
<1>10. QED
  BY <1>6, <1>8, <1>9, CalmStep

\* The owner deletes the channel, or edits it.
LEMMA OwnerChainStep ==
  ASSUME ChainInv, StreakInv, \/ DeleteChannel \/ ReadForEdit \/ SaveEdit \/ UNCHANGED recoveryVars
  PROVE  ChainInv'
<1>1. /\ UNCHANGED <<settling, alarms>> /\ alarms \subseteq RunId
      /\ \A r \in RunId : attempt[r] \in Attempts /\ Alone(r)
  BY DEF DeleteChannel, ReadForEdit, SaveEdit, runVars2, recoveryVars, ChainInv, StreakInv, StreakTypes
<1>2. ASSUME NEW r \in RunId
      PROVE  \/ attempt'[r] = attempt[r]
             \/ /\ attempt[r].state = "running" /\ attempt'[r].state = "cancelled"
                /\ attempt'[r].retryOf = attempt[r].retryOf
  <2>1. CASE DeleteChannel
    <3>1. [attempt[r] EXCEPT !.state = "cancelled"].state = "cancelled"
          /\ [attempt[r] EXCEPT !.state = "cancelled"].retryOf = attempt[r].retryOf
      BY <1>1 DEF Attempts
    <3>2. QED
      BY <2>1, <3>1 DEF DeleteChannel
  <2>2. CASE attempt' = attempt
    BY <2>2
  <2>3. QED
    BY <2>1, <2>2 DEF ReadForEdit, SaveEdit, runVars2, recoveryVars
<1>3. ASSUME NEW r \in RunId
      PROVE  /\ attempt'[r].retryOf = attempt[r].retryOf
             /\ attempt'[r].state = "none" => attempt[r].state = "none"
             /\ Alone(r)' /\ (Through(r) => Through(r)') /\ (Still(r) => Still(r)')
             /\ attempt'[r].state = "gone" => attempt[r].state = "gone"
  <2>1. CASE attempt'[r] = attempt[r]
    BY <1>1, <2>1 DEF Alone, Through, Still
  <2>2. CASE attempt[r].state = "running" /\ attempt'[r].state = "cancelled"
             /\ attempt'[r].retryOf = attempt[r].retryOf
    BY <1>1, <2>2 DEF Alone, Through, Still
  <2>3. QED
    BY <1>2, <2>1, <2>2
<1>4. QED
  BY <1>1, <1>3, CalmStep

LEMMA ChainInvHolds == RecoverySpec => []ChainInv
<1>1. RecoveryInit => ChainInv
  <2>1. SUFFICES ASSUME RecoveryInit PROVE ChainInv
    OBVIOUS
  <2>2. \A r \in RunId : /\ attempt[r].state = "none" /\ attempt[r].retryOf = NoRun
                         /\ settling[r].at = "rest" /\ r \notin alarms
    BY <2>1 DEF RecoveryInit, NoAttempt, AtRest
  <2>3. IsParents(ParentOf) /\ \A r \in RunId : ParentOf[r] = NoRun /\ Alone(r)
    BY <2>2 DEF IsParents, ParentOf, NoRun, RunId, Alone
  <2>4. \A r \in RunId : Ancestry[r] = {r}
    BY <2>3, AncestryIs DEF IsChains
  <2>5. \A r \in RunId : Cardinality(Ancestry[r]) <= RetryLimit + 1
    <3>1. TAKE r \in RunId
    <3>2. Cardinality({r}) = 1
      BY FS_Singleton, Zenon
    <3>3. 1 <= RetryLimit + 1
      BY RecoveryAssumption
    <3>4. QED
      BY <2>4, <3>2, <3>3
  <2>6. alarms = {}
    BY <2>1 DEF RecoveryInit
  <2>7. QED
    BY <2>2, <2>3, <2>5, <2>6 DEF ChainInv
<1>2. ChainInv /\ StreakInv /\ [RecoveryNext]_recoveryVars => ChainInv'
  <2>1. SUFFICES ASSUME ChainInv, StreakInv, [RecoveryNext]_recoveryVars PROVE ChainInv'
    OBVIOUS
  <2>2. ASSUME NEW r \in RunId,
               \/ Finish(r, "failed") \/ Finish(r, "succeeded") \/ CancelRun(r) \/ LoseRun(r)
               \/ Retry(r) \/ CloseEpisode(r) \/ BumpStreak(r) \/ WriteStreak(r) \/ SaveStreak(r)
               \/ StartErrorWorkflow(r) \/ Discard(r) \/ AdvanceThenReset(r)
        PROVE  ChainInv'
    BY <2>1, <2>2, EndChainStep, RetryChainStep, SettleChainStep, DiscardChainStep
  <2>3. QED
    BY <2>1, <2>2, MintChainStep, OwnerChainStep DEF RecoveryNext
<1>3. QED
  BY <1>1, <1>2, StreakInvHolds, PTL DEF RecoverySpec

\* What follows the end of a chain of runs waits for it and comes once: the error workflow
\* is started by the last run of the chain, with nothing of the chain left to run; a failed
\* run is dropped only when no retry of it runs or is to be settled; and a chain mints at
\* most RetryLimit further Jobs, one for each run that failed (settle_failure).
THEOREM ChainEndsOnce == RecoverySpec => []ChainIsOver
<1>1. ASSUME ChainInv, StreakInv PROVE ChainIsOver
  <2>1. ASSUME NEW r \in Minted PROVE Cardinality({q \in Minted : attempt[q].retryOf = r}) <= 1
    <3>1. PICK S : S = {q \in Minted : attempt[q].retryOf = r}
      OBVIOUS
    <3>2. \A p, q \in S : p = q
      <4>1. r # NoRun
        BY DEF Minted, NoRun, RunId
      <4>2. QED
        BY <1>1, <3>1, <4>1 DEF ChainInv, ParentOf, Minted
    <3>3. ASSUME S = {} PROVE Cardinality(S) <= 1
      <4>1. Cardinality({}) = 0
        BY FS_EmptySet
      <4>2. QED
        BY <3>3, <4>1
    <3>4. ASSUME S # {} PROVE Cardinality(S) <= 1
      <4>1. PICK x : x \in S
        BY <3>4
      <4>2. S = {x}
        BY <3>2, <4>1
      <4>3. Cardinality({x}) = 1
        BY FS_Singleton, Zenon
      <4>4. QED
        BY <4>2, <4>3
    <3>5. QED
      BY <3>1, <3>3, <3>4
  <2>2. ASSUME NEW r \in alarms
        PROVE  LastOfChain(r) /\ \A q \in alarms \ {r} : ~SameChain(q, r)
    <3>1. r \in RunId /\ ~Through(r)
      BY <1>1 DEF ChainInv, Through
    <3>2. ASSUME NEW q \in RunId, q # r, SameChain(q, r) PROVE q \in Ancestry[r] /\ Through(q)
      BY <1>1, <3>1, <3>2, InChain
    <3>3. \A q \in alarms : q \in RunId /\ ~Through(q)
      BY <1>1 DEF ChainInv, Through
    <3>4. QED
      BY <3>2, <3>3 DEF LastOfChain, Through, Minted
  <2>3. ASSUME NEW r \in Minted, attempt[r].state = "gone" PROVE Unsettled(r) = {}
    <3>1. \A q \in RunId : SameChain(q, r) => Still(q)
      BY <1>1, <2>3 DEF ChainInv, Minted
    <3>2. QED
      BY <3>1 DEF Unsettled, Still, Settling, Minted
  <2>4. \A r \in Minted : Cardinality(Ancestry[r]) <= RetryLimit + 1
    BY <1>1 DEF ChainInv, Minted
  <2>5. QED
    BY <2>1, <2>2, <2>3, <2>4 DEF ChainIsOver
<1>2. QED
  BY <1>1, ChainInvHolds, StreakInvHolds, PTL

\* What the streak and the chains leave open: the settings and the owner's edits.
OwnerTypes == exists \in BOOLEAN /\ keep \in BOOLEAN /\ edits \in 0..MaxEdits

LEMMA OwnerTypesHold == RecoverySpec => []OwnerTypes
<1>1. RecoveryInit => OwnerTypes
  BY RecoveryAssumption DEF RecoveryInit, OwnerTypes
<1>2. OwnerTypes /\ [RecoveryNext]_recoveryVars => OwnerTypes'
  <2>1. SUFFICES ASSUME OwnerTypes, [RecoveryNext]_recoveryVars PROVE OwnerTypes'
    OBVIOUS
  <2>2. CASE ReadForEdit
    BY <2>1, <2>2, RecoveryAssumption DEF OwnerTypes, ReadForEdit
  <2>3. CASE DeleteChannel
    BY <2>1, <2>3 DEF OwnerTypes, DeleteChannel
  <2>4. ASSUME UNCHANGED <<exists, keep, edits>> PROVE OwnerTypes'
    BY <2>1, <2>4 DEF OwnerTypes
  <2>5. ASSUME NEW r \in RunId,
               \/ Finish(r, "failed") \/ Finish(r, "succeeded") \/ CancelRun(r) \/ LoseRun(r)
               \/ Retry(r) \/ CloseEpisode(r) \/ BumpStreak(r) \/ WriteStreak(r) \/ SaveStreak(r)
               \/ StartErrorWorkflow(r) \/ Discard(r) \/ AdvanceThenReset(r)
        PROVE  UNCHANGED <<exists, keep, edits>>
    BY <2>5 DEF Finish, CancelRun, LoseRun, Retry, CloseEpisode, BumpStreak, WriteStreak, SaveStreak,
                StartErrorWorkflow, Discard, AdvanceThenReset
  <2>6. SaveEdit \/ (\E kind \in {"published", "draft", "error"} : MintFirst(kind))
          \/ UNCHANGED recoveryVars => UNCHANGED <<exists, keep, edits>>
    BY DEF SaveEdit, MintFirst, recoveryVars
  <2>7. QED
    BY <2>1, <2>2, <2>3, <2>4, <2>5, <2>6 DEF RecoveryNext
<1>3. QED
  BY <1>1, <1>2, PTL DEF RecoverySpec

\* Recovery's variables have their types, and a retry is younger than the run it retries.
THEOREM RecoveryIsTyped == RecoverySpec => []RecoveryTypeOK
<1>1. ASSUME StreakInv, ChainInv, OwnerTypes PROVE RecoveryTypeOK
  <2>1. \A r \in RunId : attempt[r].retryOf < r
    <3>1. \A r \in RunId : ParentOf[r] < r
      BY <1>1 DEF ChainInv, IsParents
    <3>2. QED
      BY <3>1 DEF ParentOf
  <2>2. QED
    BY <1>1, <2>1 DEF StreakInv, StreakTypes, ChainInv, OwnerTypes, RecoveryTypeOK, Steps, Places, Attempts
<1>2. QED
  BY <1>1, StreakInvHolds, ChainInvHolds, OwnerTypesHold, PTL

-----------------------------------------------------------------------------
(* Sums *)

\* Sums go by the set's choices, one element after another.
Pick(s) == CHOOSE x \in s : TRUE
IsSum(F, f, D) ==
  F = [s \in SUBSET D |-> IF s = {} THEN 0 ELSE f[Pick(s)] + F[s \ {Pick(s)}]]

LEMMA SumIs ==
  ASSUME NEW f, NEW D, \E F : IsSum(F, f, D)
  PROVE  \E F : IsSum(F, f, D) /\ SumFunctionOnSet(f, D) = F[D]
<1> DEFINE G == CHOOSE F : F = [s \in SUBSET D |-> IF s = {} THEN 0 ELSE f[CHOOSE x \in s : TRUE] + F[s \ {CHOOSE x \in s : TRUE}]]
<1>1. \E F : F = [s \in SUBSET D |-> IF s = {} THEN 0 ELSE f[CHOOSE x \in s : TRUE] + F[s \ {CHOOSE x \in s : TRUE}]]
  BY DEF IsSum, Pick
<1>2. G = [s \in SUBSET D |-> IF s = {} THEN 0 ELSE f[CHOOSE x \in s : TRUE] + G[s \ {CHOOSE x \in s : TRUE}]]
  BY <1>1
<1>3. SumFunctionOnSet(f, D) = G[D]
  BY DEF SumFunctionOnSet, FoldFunctionOnSet, MapThenFoldSet
<1>4. IsSum(G, f, D)
  BY <1>2 DEF IsSum, Pick
<1> HIDE DEF G
<1>5. QED
  BY <1>3, <1>4
\* There is such a sum of every function to the naturals.
LEMMA SumExists ==
  ASSUME NEW D, IsFiniteSet(D), NEW f, \A x \in D : f[x] \in Nat
  PROVE  \E F \in [SUBSET D -> Nat] : IsSum(F, f, D)
<1> DEFINE U == (SUBSET D) \X Nat
           Rule(C) == /\ <<{}, 0>> \in C
                      /\ \A s \in SUBSET D : \A n \in Nat :
                           s # {} /\ <<s \ {Pick(s)}, n>> \in C => <<s, f[Pick(s)] + n>> \in C
           R == {pr \in U : \A C \in SUBSET U : Rule(C) => pr \in C}
<1>1. \A s \in SUBSET D : s # {} => /\ Pick(s) \in s /\ Pick(s) \in D /\ f[Pick(s)] \in Nat
                                     /\ s \ {Pick(s)} \in SUBSET D
  BY DEF Pick
<1>2. R \in SUBSET U /\ \A C \in SUBSET U : Rule(C) => R \subseteq C
  OBVIOUS
<1>3. Rule(R)
  <2>1. <<{}, 0>> \in R
    OBVIOUS
  <2>2. ASSUME NEW s \in SUBSET D, NEW n \in Nat, s # {}, <<s \ {Pick(s)}, n>> \in R
        PROVE  <<s, f[Pick(s)] + n>> \in R
    <3>1. <<s, f[Pick(s)] + n>> \in U
      BY <1>1, <2>2
    <3>2. ASSUME NEW C \in SUBSET U, Rule(C) PROVE <<s, f[Pick(s)] + n>> \in C
      <4>1. <<s \ {Pick(s)}, n>> \in C
        BY <2>2, <3>2
      <4>2. QED
        BY <2>2, <3>2, <4>1
    <3>3. QED
      BY <3>1, <3>2
  <2>3. QED
    BY <2>1, <2>2
<1> HIDE DEF R, U
\* A pair is in R by the rule only.
<1>4. ASSUME NEW m \in Nat, <<{}, m>> \in R PROVE m = 0
  <2>1. SUFFICES ASSUME m # 0 PROVE FALSE
    OBVIOUS
  <2>2. PICK C : C = R \ {<<{}, m>>}
    OBVIOUS
  <2>3. Rule(C)
    BY <1>3, <2>1, <2>2
  <2>4. C \in SUBSET U
    BY <1>2, <2>2
  <2>5. QED
    BY <1>2, <1>4, <2>2, <2>3, <2>4
<1>5. ASSUME NEW s \in SUBSET D, s # {}, NEW m \in Nat, <<s, m>> \in R
      PROVE  \E n \in Nat : <<s \ {Pick(s)}, n>> \in R /\ m = f[Pick(s)] + n
  <2>1. SUFFICES ASSUME \A n \in Nat : <<s \ {Pick(s)}, n>> \in R => m # f[Pick(s)] + n PROVE FALSE
    OBVIOUS
  <2>2. PICK C : C = R \ {<<s, m>>}
    OBVIOUS
  <2>3. <<{}, 0>> \in C
    BY <1>3, <1>5, <2>2
  <2>4. ASSUME NEW t \in SUBSET D, NEW n \in Nat, t # {}, <<t \ {Pick(t)}, n>> \in C
        PROVE  <<t, f[Pick(t)] + n>> \in C
    <3>1. <<t, f[Pick(t)] + n>> \in R /\ <<t \ {Pick(t)}, n>> \in R
      BY <1>3, <2>2, <2>4
    <3>2. ~(t = s /\ f[Pick(t)] + n = m)
      BY <2>1, <3>1
    <3>3. QED
      BY <2>2, <3>1, <3>2
  <2>5. C \in SUBSET U /\ Rule(C)
    BY <1>2, <2>2, <2>3, <2>4
  <2>6. QED
    BY <1>2, <1>5, <2>2, <2>5
<1>6. \A s \in SUBSET D : \E n \in Nat : <<s, n>> \in R /\ \A m \in Nat : <<s, m>> \in R => m = n
  <2> DEFINE Good(s) == \E n \in Nat : <<s, n>> \in R /\ \A m \in Nat : <<s, m>> \in R => m = n
             Bad == {s \in SUBSET D : ~Good(s)}
  <2>1. SUFFICES ASSUME Bad # {} PROVE FALSE
    OBVIOUS
  <2>2. PICK s \in Bad : \A t \in Bad : ~(<<t, s>> \in StrictSubsetOrdering(D))
    <3>1. IsWellFoundedOn(StrictSubsetOrdering(D), FiniteSubsetsOf(D))
      BY FS_StrictSubsetOrderingWellFounded
    <3>2. Bad \subseteq FiniteSubsetsOf(D)
      BY FS_Subset DEF FiniteSubsetsOf
    <3> HIDE DEF Bad
    <3>3. QED
      BY <2>1, <3>1, <3>2, WFMin
  <2>3. s \in SUBSET D /\ ~Good(s)
    BY <2>2
  <2>4. s # {}
    <3>1. Good({})
      BY <1>3, <1>4
    <3> HIDE DEF Good
    <3>2. QED
      BY <2>3, <3>1
  <2>5. PICK t : t = s \ {Pick(s)}
    OBVIOUS
  <2>6. Good(t)
    <3>1. t \in SUBSET D /\ <<t, s>> \in StrictSubsetOrdering(D)
      BY <1>1, <2>3, <2>4, <2>5 DEF StrictSubsetOrdering
    <3> HIDE DEF Good
    <3>2. QED
      BY <2>2, <3>1
  <2>7. PICK n \in Nat : <<t, n>> \in R /\ \A m \in Nat : <<t, m>> \in R => m = n
    BY <2>6
  <2>8. PICK k \in Nat : k = f[Pick(s)] + n
    BY <1>1, <2>3, <2>4
  <2>9. <<s, k>> \in R
    BY <1>3, <2>3, <2>4, <2>5, <2>7, <2>8
  <2>10. \A m \in Nat : <<s, m>> \in R => m = k
    BY <1>5, <2>3, <2>4, <2>5, <2>7, <2>8
  <2>11. QED
    BY <2>3, <2>9, <2>10
<1> DEFINE F == [s \in SUBSET D |-> CHOOSE n \in Nat : <<s, n>> \in R]
<1>7. \A s \in SUBSET D : F[s] \in Nat /\ <<s, F[s]>> \in R
  BY <1>6
<1>8. F[{}] = 0
  <2>1. {} \in SUBSET D
    OBVIOUS
  <2> HIDE DEF F
  <2>2. QED
    BY <1>4, <1>7, <2>1
<1>9. F \in [SUBSET D -> Nat]
  BY <1>6
<1> HIDE DEF F
<1>10. \A s \in SUBSET D : s # {} => F[s] = f[Pick(s)] + F[s \ {Pick(s)}]
  <2>1. SUFFICES ASSUME NEW s \in SUBSET D, s # {} PROVE F[s] = f[Pick(s)] + F[s \ {Pick(s)}]
    OBVIOUS
  <2>2. PICK n \in Nat : <<s \ {Pick(s)}, n>> \in R /\ F[s] = f[Pick(s)] + n
    BY <1>5, <1>7, <2>1
  <2>3. F[s \ {Pick(s)}] = n
    BY <1>1, <1>6, <1>7, <2>1, <2>2
  <2>4. QED
    BY <2>2, <2>3
<1>11. F = [s \in SUBSET D |-> IF s = {} THEN 0 ELSE f[Pick(s)] + F[s \ {Pick(s)}]]
  BY <1>8, <1>9, <1>10
<1>12. QED
  BY <1>9, <1>11 DEF IsSum

\* Nothing holds of a least set only.
LEMMA SubsetInduction ==
  ASSUME NEW D, IsFiniteSet(D), NEW Bad \in SUBSET SUBSET D,
         \A s \in Bad : \E t \in Bad : t \subseteq s /\ t # s
  PROVE  Bad = {}
<1>1. SUFFICES ASSUME Bad # {} PROVE FALSE
  OBVIOUS
<1>2. PICK s \in Bad : \A t \in Bad : ~(<<t, s>> \in StrictSubsetOrdering(D))
  <2>1. IsWellFoundedOn(StrictSubsetOrdering(D), FiniteSubsetsOf(D))
    BY FS_StrictSubsetOrderingWellFounded
  <2>2. Bad \subseteq FiniteSubsetsOf(D)
    BY FS_Subset DEF FiniteSubsetsOf
  <2>3. QED
    BY <1>1, <2>1, <2>2, WFMin
<1>3. PICK t \in Bad : t \subseteq s /\ t # s
  OBVIOUS
<1>4. <<t, s>> \in StrictSubsetOrdering(D)
  BY <1>2, <1>3 DEF StrictSubsetOrdering
<1>5. QED
  BY <1>2, <1>4

\* The sum does not depend on the order.
LEMMA SumStep ==
  ASSUME NEW D, IsFiniteSet(D), NEW f, \A x \in D : f[x] \in Nat
  PROVE  /\ SumFunctionOnSet(f, {}) = 0 /\ \A s \in SUBSET D : SumFunctionOnSet(f, s) \in Nat
         /\ \A s \in SUBSET D : \A x \in s : SumFunctionOnSet(f, s) = f[x] + SumFunctionOnSet(f, s \ {x})
<1>1. PICK F \in [SUBSET D -> Nat] : IsSum(F, f, D)
  BY SumExists
<1>2. \A s \in SUBSET D : F[s] = IF s = {} THEN 0 ELSE f[Pick(s)] + F[s \ {Pick(s)}]
  BY <1>1 DEF IsSum
<1>3. \A s \in SUBSET D : s # {} => Pick(s) \in s
  BY DEF Pick
<1>4. ASSUME NEW s \in SUBSET D PROVE SumFunctionOnSet(f, s) = F[s]
  <2>1. IsFiniteSet(s) /\ \A x \in s : f[x] \in Nat
    BY FS_Subset
  <2>2. PICK G : IsSum(G, f, s) /\ SumFunctionOnSet(f, s) = G[s]
    BY <2>1, SumExists, SumIs
  <2>3. \A t \in SUBSET s : G[t] = IF t = {} THEN 0 ELSE f[Pick(t)] + G[t \ {Pick(t)}]
    BY <2>2 DEF IsSum
  <2> DEFINE Bad == {t \in SUBSET s : G[t] # F[t]}
  <2>4. ASSUME NEW t \in Bad PROVE \E u \in Bad : u \subseteq t /\ u # t
    <3>1. t \in SUBSET s /\ t \in SUBSET D /\ t # {}
      BY <1>2, <2>3
    <3>2. t \ {Pick(t)} \in SUBSET s /\ G[t \ {Pick(t)}] # F[t \ {Pick(t)}]
      BY <1>2, <2>3, <2>4, <3>1
    <3>3. t \ {Pick(t)} # t
      BY <1>3, <3>1
    <3>4. QED
      BY <3>2, <3>3
  <2> HIDE DEF Bad
  <2>5. Bad = {}
    <3>1. Bad \in SUBSET SUBSET s
      BY DEF Bad
    <3>2. QED
      BY <2>1, <2>4, <3>1, SubsetInduction
  <2>6. QED
    BY <2>2, <2>5 DEF Bad
<1>5. \A s \in SUBSET D : \A x \in s : F[s] = f[x] + F[s \ {x}]
  <2> DEFINE Bad == {s \in SUBSET D : \E x \in s : F[s] # f[x] + F[s \ {x}]}
  <2>1. ASSUME NEW s \in Bad PROVE \E t \in Bad : t \subseteq s /\ t # s
    <3>1. SUFFICES ASSUME \A t \in SUBSET D : t \subseteq s /\ t # s => \A x \in t : F[t] = f[x] + F[t \ {x}]
                   PROVE  FALSE
      BY DEF Bad
    <3>2. PICK x \in s : F[s] # f[x] + F[s \ {x}]
      OBVIOUS
    <3>3. PICK y \in s : y = Pick(s) /\ F[s] = f[y] + F[s \ {y}] /\ y # x
      BY <1>2, <1>3, <3>2
    <3>4. F[s \ {y}] = f[x] + F[(s \ {y}) \ {x}]
      BY <3>1, <3>2, <3>3
    <3>5. F[s \ {x}] = f[y] + F[(s \ {x}) \ {y}]
      BY <3>1, <3>2, <3>3
    <3>6. (s \ {y}) \ {x} = (s \ {x}) \ {y}
      OBVIOUS
    <3>7. PICK n \in Nat : n = F[(s \ {x}) \ {y}]
      BY <1>1, <3>2
    <3>8. PICK a \in Nat, b \in Nat : a = f[x] /\ b = f[y]
      BY <3>2, <3>3
    <3>9. F[s \ {y}] = a + n /\ F[s \ {x}] = b + n
      BY <3>4, <3>5, <3>6, <3>7, <3>8
    <3>10. F[s] = b + (a + n)
      BY <3>3, <3>8, <3>9
    <3>11. F[s] # a + F[s \ {x}]
      BY <3>2, <3>8
    <3>12. QED
      BY <3>9, <3>10, <3>11
  <2> HIDE DEF Bad
  <2>2. Bad = {}
    <3>1. Bad \in SUBSET SUBSET D
      BY DEF Bad
    <3>2. QED
      BY <2>1, <3>1, SubsetInduction
  <2>3. QED
    BY <2>2 DEF Bad
<1>6. ASSUME NEW s \in SUBSET D, NEW x \in s
      PROVE  SumFunctionOnSet(f, s) = f[x] + SumFunctionOnSet(f, s \ {x})
  <2>1. s \ {x} \in SUBSET D
    OBVIOUS
  <2>2. QED
    BY <1>4, <1>5, <2>1
<1>7. SumFunctionOnSet(f, {}) = 0
  BY <1>2, <1>4
<1>8. \A s \in SUBSET D : SumFunctionOnSet(f, s) \in Nat
  BY <1>1, <1>4
<1>9. QED
  BY <1>6, <1>7, <1>8

\* A sum whose terms are at most those of two others together is at most these two.
LEMMA SumCompare ==
  ASSUME NEW D, IsFiniteSet(D), NEW S \in SUBSET D, NEW T \in SUBSET D, NEW R \in SUBSET D,
         NEW f \in [D -> Nat], NEW g \in [D -> Nat], NEW h \in [D -> Nat],
         \A x \in D : (IF x \in S THEN f[x] ELSE 0) <= (IF x \in T THEN g[x] ELSE 0) + (IF x \in R THEN h[x] ELSE 0)
  PROVE  SumFunctionOnSet(f, S) <= SumFunctionOnSet(g, T) + SumFunctionOnSet(h, R)
<1> DEFINE Bad == {X \in SUBSET D :
                     ~(SumFunctionOnSet(f, S \cap X) <= SumFunctionOnSet(g, T \cap X) + SumFunctionOnSet(h, R \cap X))}
<1>1. ASSUME NEW X \in SUBSET D, NEW x \in X, NEW k \in [D -> Nat], NEW Q \in SUBSET D
      PROVE  /\ SumFunctionOnSet(k, Q \cap X) =
                  (IF x \in Q THEN k[x] ELSE 0) + SumFunctionOnSet(k, Q \cap (X \ {x}))
             /\ SumFunctionOnSet(k, Q \cap (X \ {x})) \in Nat
  <2>1. CASE x \in Q
    <3>1. x \in Q \cap X /\ (Q \cap X) \ {x} = Q \cap (X \ {x}) /\ Q \cap X \in SUBSET D
      BY <2>1
    <3>2. QED
      BY <2>1, <3>1, SumStep
  <2>2. CASE x \notin Q
    <3>1. Q \cap X = Q \cap (X \ {x}) /\ Q \cap X \in SUBSET D
      BY <2>2
    <3>2. SumFunctionOnSet(k, Q \cap X) \in Nat
      BY <3>1, SumStep
    <3>3. QED
      BY <2>2, <3>1, <3>2
  <2>3. QED
    BY <2>1, <2>2
<1>2. ASSUME NEW X \in Bad PROVE \E Y \in Bad : Y \subseteq X /\ Y # X
  <2>1. X # {}
    <3>1. SUFFICES ASSUME X = {} PROVE FALSE
      OBVIOUS
    <3>2. \A k \in [D -> Nat] : SumFunctionOnSet(k, {}) = 0
      BY SumStep
    <3>3. S \cap X = {} /\ T \cap X = {} /\ R \cap X = {}
      BY <3>1
    <3>4. ~(SumFunctionOnSet(f, {}) <= SumFunctionOnSet(g, {}) + SumFunctionOnSet(h, {}))
      BY <3>3
    <3>5. PICK a, b, c : a = SumFunctionOnSet(f, {}) /\ b = SumFunctionOnSet(g, {}) /\ c = SumFunctionOnSet(h, {})
      OBVIOUS
    <3>6. a = 0 /\ b = 0 /\ c = 0 /\ ~(a <= b + c)
      BY <3>2, <3>4, <3>5
    <3>7. QED
      BY <3>6
  <2>2. PICK x \in X : TRUE
    BY <2>1
  <2>3. PICK Y \in SUBSET D : Y = X \ {x}
    OBVIOUS
  <2>4. PICK a, b, c : /\ a = SumFunctionOnSet(f, S \cap Y) /\ b = SumFunctionOnSet(g, T \cap Y)
                       /\ c = SumFunctionOnSet(h, R \cap Y)
    OBVIOUS
  <2>5. /\ SumFunctionOnSet(f, S \cap X) = (IF x \in S THEN f[x] ELSE 0) + a /\ a \in Nat
        /\ SumFunctionOnSet(g, T \cap X) = (IF x \in T THEN g[x] ELSE 0) + b /\ b \in Nat
        /\ SumFunctionOnSet(h, R \cap X) = (IF x \in R THEN h[x] ELSE 0) + c /\ c \in Nat
    <3>1. X \in SUBSET D
      OBVIOUS
    <3> HIDE DEF Bad
    <3>2. \A k \in [D -> Nat] : \A Q \in SUBSET D :
            /\ SumFunctionOnSet(k, Q \cap X) =
                 (IF x \in Q THEN k[x] ELSE 0) + SumFunctionOnSet(k, Q \cap Y)
            /\ SumFunctionOnSet(k, Q \cap Y) \in Nat
      <4>1. ASSUME NEW k \in [D -> Nat], NEW Q \in SUBSET D
            PROVE  /\ SumFunctionOnSet(k, Q \cap X) =
                        (IF x \in Q THEN k[x] ELSE 0) + SumFunctionOnSet(k, Q \cap (X \ {x}))
                   /\ SumFunctionOnSet(k, Q \cap (X \ {x})) \in Nat
        BY <1>1, <3>1
      <4>2. QED
        BY <2>3, <4>1
    <3>3. SumFunctionOnSet(f, S \cap X) = (IF x \in S THEN f[x] ELSE 0) + a /\ a \in Nat
      BY <2>4, <3>2
    <3>4. SumFunctionOnSet(g, T \cap X) = (IF x \in T THEN g[x] ELSE 0) + b /\ b \in Nat
      BY <2>4, <3>2
    <3>5. SumFunctionOnSet(h, R \cap X) = (IF x \in R THEN h[x] ELSE 0) + c /\ c \in Nat
      BY <2>4, <3>2
    <3>6. QED
      BY <3>3, <3>4, <3>5
  <2>6. PICK fx \in Nat, gx \in Nat, hx \in Nat :
          /\ fx = (IF x \in S THEN f[x] ELSE 0) /\ gx = (IF x \in T THEN g[x] ELSE 0)
          /\ hx = (IF x \in R THEN h[x] ELSE 0) /\ fx <= gx + hx
    OBVIOUS
  <2>7. ~(fx + a <= (gx + b) + (hx + c))
    BY <2>5, <2>6
  <2>8. ~(a <= b + c)
    BY <2>5, <2>6, <2>7
  <2>9. Y \in Bad /\ Y \subseteq X /\ Y # X
    BY <2>2, <2>3, <2>4, <2>8
  <2>10. QED
    BY <2>9
<1> HIDE DEF Bad
<1>3. Bad = {}
  <2>1. Bad \in SUBSET SUBSET D
    BY DEF Bad
  <2>2. QED
    BY <1>2, <2>1, SubsetInduction
<1>4. S \cap D = S /\ T \cap D = T /\ R \cap D = R /\ D \in SUBSET D
  OBVIOUS
<1>5. QED
  BY <1>3, <1>4 DEF Bad

-----------------------------------------------------------------------------
(* The datasets *)

LoaderAt == {"new", "begin", "load", "check", "ready", "drop", "mark", "end", "dead",
             "keeper_drop", "keeper_mark", "forget"}
PurgeAt == {"idle", "expired", "drop_expired", "drop_old", "tables", "sweep"}
Passes == [at : PurgeAt, todo : SUBSET Dataset, dropped : SUBSET Dataset,
           active : SUBSET Dataset, copy : [Dataset -> DatasetRow]]

DatasetTypes ==
  /\ registry \in [Dataset -> DatasetRow] /\ table \subseteq Dataset
  /\ loader \in [Dataset -> [at : LoaderAt, copy : DatasetRow, query : BOOLEAN]]
  /\ purge \in Passes
  /\ ended \subseteq Dataset /\ due \subseteq ended

\* The sweep has read all that was active and has not been saved since.
SweepOK ==
  /\ purge.at \in {"tables", "sweep"} => Active \subseteq purge.active \cup unread
  /\ purge.at = "sweep" => purge.todo \cap purge.active = {}

\* A due dataset whose load is over is on its way out, from phase to phase.
Over == {"end", "dead", "keeper_drop", "keeper_mark", "forget"}
RipeOK(d) ==
  /\ loader[d].at \in Over /\ d \in ended /\ d \in due
  /\ registry[d].status \in Capacity => registry[d].sealed
  /\ purge.at = "drop_expired" /\ d \in Active => d \in purge.todo \cup purge.dropped
  /\ purge.at \in {"drop_old", "tables", "sweep"} => d \notin Active
  /\ purge.at \in {"tables", "sweep"} => d \notin purge.active
  /\ purge.at = "sweep" /\ d \in table => d \in purge.todo
  /\ loader[d].at = "forget" \/ d \in gone => d \notin Active

DatasetsInv ==
  /\ DatasetTypes /\ SweepOK
  /\ purge.at = "idle" => ripe = {}
  /\ purge.dropped # {} => purge.at \in {"drop_expired", "drop_old"}
  /\ \A c, d \in purge.dropped : c = d
  /\ ripe \subseteq Dataset /\ \A d \in ripe : RipeOK(d)

LEMMA LoaderGoes ==
  ASSUME DatasetTypes, NEW d \in Dataset, NEW where \in LoaderAt, GoTo(d, where)
  PROVE  /\ loader' \in [Dataset -> [at : LoaderAt, copy : DatasetRow, query : BOOLEAN]]
         /\ loader'[d].at = where /\ \A q \in Dataset : q # d => loader'[q] = loader[q]
<1>1. loader[d] \in [at : LoaderAt, copy : DatasetRow, query : BOOLEAN]
  BY DEF DatasetTypes
<1>2. PICK c \in DatasetRow : c = IF where \in {"end", "dead"} THEN NoDataset ELSE loader[d].copy
  BY <1>1 DEF NoDataset, DatasetRow
<1>3. PICK l \in [at : LoaderAt, copy : DatasetRow, query : BOOLEAN] :
        l = [loader[d] EXCEPT !.at = where, !.copy = c]
  BY <1>1
<1>4. l.at = where
  BY <1>1, <1>3
<1>5. loader' = [loader EXCEPT ![d] = l]
  BY <1>1, <1>2, <1>3 DEF GoTo, DatasetTypes
<1>6. QED
  BY <1>4, <1>5 DEF DatasetTypes

LEMMA RowIsSaved ==
  ASSUME DatasetTypes, NEW d \in Dataset, NEW new \in DatasetRow, Save(d, new)
  PROVE  /\ registry' \in [Dataset -> DatasetRow] /\ registry'[d] = new
         /\ \A q \in Dataset : q # d => registry'[q] = registry[q]
BY DEF DatasetTypes, Save

\* What a step of one load, keeper, run or clock may do next to the purge.
LEMMA OutsideStep ==
  ASSUME DatasetsInv, NEW d \in Dataset, UNCHANGED purge, DatasetTypes',
         ripe' \subseteq ripe, gone' \subseteq gone \cup {d},
         ended \subseteq ended', due \subseteq due', unread \subseteq unread',
         \A q \in Dataset : q # d => /\ registry'[q] = registry[q] /\ loader'[q] = loader[q]
                                     /\ q \in table' <=> q \in table,
         registry'[d].status \in Capacity /\ registry[d].status \notin Capacity
           => (purge.at \in {"tables", "sweep"} => d \in unread'),
         loader[d].at \in Over =>
           /\ loader'[d].at \in Over
           /\ d \in table' => d \in table
           /\ registry'[d].status \in Capacity =>
                registry[d].status \in Capacity /\ (registry[d].sealed => registry'[d].sealed)
           /\ d \in ripe' /\ (loader'[d].at = "forget" \/ d \in gone') /\ registry'[d].status \in Capacity =>
                loader[d].at = "forget" \/ d \in gone
  PROVE  DatasetsInv'
<1>1. DatasetTypes /\ SweepOK /\ ripe \subseteq Dataset
  BY DEF DatasetsInv
<1>2. SweepOK'
  <2>1. purge.at \in {"tables", "sweep"} => Active' \subseteq purge.active \cup unread'
    BY <1>1 DEF SweepOK, Active
  <2>2. QED
    BY <1>1, <2>1 DEF SweepOK
<1>3. ASSUME NEW q \in ripe' PROVE RipeOK(q)'
  <2>1. RipeOK(q) /\ q \in Dataset
    BY <1>1, <1>3 DEF DatasetsInv
  <2>2. /\ loader'[q].at \in Over /\ q \in ended' /\ q \in due'
        /\ q \in table' => q \in table
        /\ registry'[q].status \in Capacity =>
             registry[q].status \in Capacity /\ (registry[q].sealed => registry'[q].sealed)
        /\ (loader'[q].at = "forget" \/ q \in gone') /\ registry'[q].status \in Capacity =>
             loader[q].at = "forget" \/ q \in gone
    <3>1. CASE q = d
      BY <1>3, <2>1, <3>1 DEF RipeOK
    <3>2. CASE q # d
      BY <2>1, <3>2 DEF RipeOK
    <3>3. QED
      BY <3>1, <3>2
  <2>3. q \in Active' => q \in Active
    BY <2>1, <2>2 DEF Active
  <2>4. (loader'[q].at = "forget" \/ q \in gone') => q \notin Active'
    BY <2>1, <2>2, <2>3 DEF RipeOK, Active
  <2>5. QED
    BY <2>1, <2>2, <2>3, <2>4 DEF RipeOK
<1>4. QED
  BY <1>1, <1>2, <1>3 DEF DatasetsInv

\* The steps of a load, of the keeper, and the death of either.
LEMMA LoadStep ==
  ASSUME DatasetsInv, NEW d \in Dataset,
         \/ EnsureCapacity(d) \/ BeginDataset(d) \/ CreateFromQuery(d) \/ CopyChunk(d) \/ CheckChunk(d)
         \/ CommitTable(d) \/ FailLoad(d) \/ MarkReady(d) \/ KillLoader(d)
  PROVE  DatasetsInv'
<1>1. /\ DatasetTypes /\ loader[d] \in [at : LoaderAt, copy : DatasetRow, query : BOOLEAN]
      /\ registry[d] \in DatasetRow
  BY DEF DatasetsInv, DatasetTypes
<1>2. UNCHANGED <<purge, ripe, ended, gone, due>> /\ (loader[d].at \in Over => KillLoader(d))
  BY DEF EnsureCapacity, BeginDataset, CreateFromQuery, CopyChunk, CheckChunk, CommitTable, FailLoad,
         MarkReady, KillLoader, Over
<1>3. CASE EnsureCapacity(d) \/ CheckChunk(d) \/ FailLoad(d) \/ KillLoader(d)
  <2>1. PICK where \in LoaderAt : GoTo(d, where) /\ (loader[d].at \in Over => where = "dead")
    BY <1>2, <1>3 DEF EnsureCapacity, CheckChunk, FailLoad, KillLoader, LoaderAt, Over
  <2>2. UNCHANGED <<registry, table, unread>>
    BY <1>3 DEF EnsureCapacity, CheckChunk, FailLoad, KillLoader
  <2>3. /\ loader' \in [Dataset -> [at : LoaderAt, copy : DatasetRow, query : BOOLEAN]]
        /\ loader'[d].at = where /\ \A q \in Dataset : q # d => loader'[q] = loader[q]
    BY <1>1, <2>1, LoaderGoes
  <2>4. DatasetTypes'
    BY <1>1, <1>2, <2>2, <2>3 DEF DatasetTypes
  <2>5. QED
    BY <1>2, <2>1, <2>2, <2>3, <2>4, OutsideStep DEF Over
<1>4. CASE CommitTable(d)
  <2>1. table' = table \cup {d} /\ UNCHANGED <<registry, unread>>
    BY <1>4 DEF CommitTable
  <2>2. /\ loader' \in [Dataset -> [at : LoaderAt, copy : DatasetRow, query : BOOLEAN]]
        /\ \A q \in Dataset : q # d => loader'[q] = loader[q]
    BY <1>1, <1>4, LoaderGoes DEF CommitTable, LoaderAt
  <2>3. DatasetTypes'
    BY <1>1, <1>2, <2>1, <2>2 DEF DatasetTypes
  <2>4. loader[d].at \notin Over
    BY <1>4 DEF CommitTable, Over
  <2>5. QED
    BY <1>2, <2>1, <2>2, <2>3, <2>4, OutsideStep
<1>5. CASE CreateFromQuery(d)
  <2>1. table' = table \cup {d} /\ UNCHANGED <<registry, unread>>
    BY <1>5 DEF CreateFromQuery
  <2>2. PICK n \in 1..MaxChunks :
          loader' = [loader EXCEPT ![d] = [at |-> "ready", copy |-> [@.copy EXCEPT !.size = n], query |-> TRUE]]
    BY <1>5 DEF CreateFromQuery
  <2>3. n \in Nat
    OBVIOUS
  <2>4. PICK c \in DatasetRow : c = [loader[d].copy EXCEPT !.size = n]
    BY <1>1, <2>3 DEF DatasetRow
  <2>5. PICK l \in [at : LoaderAt, copy : DatasetRow, query : BOOLEAN] :
          l = [at |-> "ready", copy |-> c, query |-> TRUE]
    BY DEF LoaderAt
  <2>6. loader' = [loader EXCEPT ![d] = l]
    BY <1>1, <2>2, <2>4, <2>5 DEF DatasetTypes
  <2>7. DatasetTypes'
    BY <1>1, <1>2, <2>1, <2>6 DEF DatasetTypes
  <2>8. loader[d].at \notin Over
    BY <1>5 DEF CreateFromQuery, Over
  <2>9. \A q \in Dataset : q # d => loader'[q] = loader[q]
    BY <1>1, <2>6 DEF DatasetTypes
  <2>10. QED
    BY <1>2, <2>1, <2>7, <2>8, <2>9, OutsideStep
<1>6. CASE BeginDataset(d)
  <2>1. PICK new \in DatasetRow : new = [NoDataset EXCEPT !.status = "loading"]
    BY DEF NoDataset, DatasetRow, Capacity
  <2>2. /\ Save(d, new) /\ loader' = [loader EXCEPT ![d].at = "load", ![d].copy = new]
        /\ unread' = Saved(d) /\ table' = table
    BY <1>6, <2>1 DEF BeginDataset
  <2>3. PICK l \in [at : LoaderAt, copy : DatasetRow, query : BOOLEAN] :
          l = [loader[d] EXCEPT !.at = "load", !.copy = new]
    BY <1>1 DEF LoaderAt
  <2>4. loader' = [loader EXCEPT ![d] = l]
    BY <1>1, <2>2, <2>3 DEF DatasetTypes
  <2>5. /\ registry' \in [Dataset -> DatasetRow]
        /\ \A q \in Dataset : q # d => registry'[q] = registry[q]
    BY <1>1, <2>2, RowIsSaved
  <2>6. DatasetTypes'
    BY <1>1, <1>2, <2>2, <2>4, <2>5 DEF DatasetTypes
  <2>7. loader[d].at \notin Over
    BY <1>6 DEF BeginDataset, Over
  <2>8. \A q \in Dataset : q # d => loader'[q] = loader[q]
    BY <1>1, <2>4 DEF DatasetTypes
  <2>9. unread \subseteq unread' /\ (purge.at \in {"tables", "sweep"} => d \in unread')
    BY <2>2 DEF Saved
  <2>10. QED
    BY <1>2, <2>2, <2>5, <2>6, <2>7, <2>8, <2>9, OutsideStep
<1>7. CASE CopyChunk(d)
  <2>1. loader[d].copy.size + 1 \in Nat
    BY <1>1 DEF DatasetRow
  <2>2. PICK n \in Nat : n = loader[d].copy.size + 1
    BY <2>1
  <2>3. PICK new \in DatasetRow : new = [loader[d].copy EXCEPT !.size = n]
    BY <1>1 DEF DatasetRow
  <2>4. new = [loader[d].copy EXCEPT !.size = @ + 1]
    BY <1>1, <2>2, <2>3 DEF DatasetRow
  <2>5. /\ Save(d, new) /\ loader' = [loader EXCEPT ![d].at = "check", ![d].copy = new]
        /\ unread' = Saved(d) /\ table' = table
    BY <1>7, <2>4 DEF CopyChunk
  <2>6. PICK l \in [at : LoaderAt, copy : DatasetRow, query : BOOLEAN] :
          l = [loader[d] EXCEPT !.at = "check", !.copy = new]
    BY <1>1 DEF LoaderAt
  <2>7. loader' = [loader EXCEPT ![d] = l]
    BY <1>1, <2>5, <2>6 DEF DatasetTypes
  <2>8. /\ registry' \in [Dataset -> DatasetRow]
        /\ \A q \in Dataset : q # d => registry'[q] = registry[q]
    BY <1>1, <2>5, RowIsSaved
  <2>9. DatasetTypes'
    BY <1>1, <1>2, <2>5, <2>7, <2>8 DEF DatasetTypes
  <2>10. loader[d].at \notin Over
    BY <1>7 DEF CopyChunk, Over
  <2>11. \A q \in Dataset : q # d => loader'[q] = loader[q]
    BY <1>1, <2>7 DEF DatasetTypes
  <2>12. unread \subseteq unread' /\ (purge.at \in {"tables", "sweep"} => d \in unread')
    BY <2>5 DEF Saved
  <2>13. QED
    BY <1>2, <2>5, <2>8, <2>9, <2>10, <2>11, <2>12, OutsideStep
<1>8. CASE MarkReady(d)
  <2>1. PICK new \in DatasetRow : new = [loader[d].copy EXCEPT !.status = "ready"]
    BY <1>1 DEF DatasetRow, Capacity
  <2>2. Save(d, new) /\ GoTo(d, "end") /\ unread' = Saved(d) /\ table' = table
    BY <1>8, <2>1 DEF MarkReady
  <2>3. /\ loader' \in [Dataset -> [at : LoaderAt, copy : DatasetRow, query : BOOLEAN]]
        /\ \A q \in Dataset : q # d => loader'[q] = loader[q]
    BY <1>1, <2>2, LoaderGoes DEF LoaderAt
  <2>4. /\ registry' \in [Dataset -> DatasetRow]
        /\ \A q \in Dataset : q # d => registry'[q] = registry[q]
    BY <1>1, <2>2, RowIsSaved
  <2>5. DatasetTypes'
    BY <1>1, <1>2, <2>2, <2>3, <2>4 DEF DatasetTypes
  <2>6. loader[d].at \notin Over
    BY <1>8 DEF MarkReady, Over
  <2>7. unread \subseteq unread' /\ (purge.at \in {"tables", "sweep"} => d \in unread')
    BY <2>2 DEF Saved
  <2>8. QED
    BY <1>2, <2>2, <2>3, <2>4, <2>5, <2>6, <2>7, OutsideStep
<1>9. QED
  BY <1>3, <1>4, <1>5, <1>6, <1>7, <1>8

\* Drops by the load itself or by the keeper, and what the keeper lists and forgets.
LEMMA KeeperStep ==
  ASSUME DatasetsInv, NEW d \in Dataset,
         DropOwn(d) \/ MarkOwn(d) \/ KeeperLists(d) \/ KeeperForgets(d)
  PROVE  DatasetsInv'
<1>1. /\ DatasetTypes /\ loader[d] \in [at : LoaderAt, copy : DatasetRow, query : BOOLEAN]
      /\ registry[d] \in DatasetRow
  BY DEF DatasetsInv, DatasetTypes
<1>2. UNCHANGED <<purge, ended, due, unread>> /\ ripe' \subseteq ripe /\ gone' \subseteq gone \cup {d}
  BY DEF DropOwn, MarkOwn, KeeperLists, KeeperForgets
<1>3. CASE DropOwn(d)
  <2>1. PICK where \in {"mark", "keeper_mark", "end", "forget"} :
          GoTo(d, where) /\ (loader[d].at \in Over => where \in Over) /\ (d \in ripe' => where # "forget")
    BY <1>3 DEF DropOwn, Over
  <2>2. UNCHANGED <<registry, gone>> /\ table' \in {table, table \ {d}}
    BY <1>3 DEF DropOwn
  <2>3. /\ loader' \in [Dataset -> [at : LoaderAt, copy : DatasetRow, query : BOOLEAN]]
        /\ loader'[d].at = where /\ \A q \in Dataset : q # d => loader'[q] = loader[q]
    BY <1>1, <2>1, LoaderGoes DEF LoaderAt
  <2>4. DatasetTypes'
    BY <1>1, <1>2, <2>2, <2>3 DEF DatasetTypes
  <2>5. QED
    BY <1>2, <2>1, <2>2, <2>3, <2>4, OutsideStep
<1>4. CASE MarkOwn(d)
  <2>1. PICK where \in {"end", "forget"} : GoTo(d, where)
    BY <1>4 DEF MarkOwn
  <2>2. PICK new \in DatasetRow : new = [loader[d].copy EXCEPT !.status = "dropped"]
    BY <1>1 DEF DatasetRow
  <2>3. new.status \notin Capacity
    BY <1>1, <2>2 DEF DatasetRow, Capacity
  <2>4. Save(d, new) /\ table' = table
    BY <1>4, <2>2 DEF MarkOwn
  <2>5. /\ loader' \in [Dataset -> [at : LoaderAt, copy : DatasetRow, query : BOOLEAN]]
        /\ loader'[d].at = where /\ \A q \in Dataset : q # d => loader'[q] = loader[q]
    BY <1>1, <2>1, LoaderGoes DEF LoaderAt
  <2>6. /\ registry' \in [Dataset -> DatasetRow] /\ registry'[d] = new
        /\ \A q \in Dataset : q # d => registry'[q] = registry[q]
    BY <1>1, <2>4, RowIsSaved
  <2>7. DatasetTypes'
    BY <1>1, <1>2, <2>4, <2>5, <2>6 DEF DatasetTypes
  <2>8. QED
    BY <1>2, <2>3, <2>4, <2>5, <2>6, <2>7, OutsideStep DEF Over
<1>5. CASE KeeperLists(d)
  <2>1. PICK where \in {"keeper_drop", "forget"} :
          /\ loader' = [loader EXCEPT ![d].at = where, ![d].copy = registry[d]]
          /\ where = "forget" => registry[d].status \notin Capacity
    BY <1>5 DEF KeeperLists
  <2>2. PICK l \in [at : LoaderAt, copy : DatasetRow, query : BOOLEAN] :
          l = [loader[d] EXCEPT !.at = where, !.copy = registry[d]]
    BY <1>1 DEF LoaderAt
  <2>3. l.at = where /\ loader' = [loader EXCEPT ![d] = l]
    BY <1>1, <2>1, <2>2 DEF DatasetTypes
  <2>4. /\ loader' \in [Dataset -> [at : LoaderAt, copy : DatasetRow, query : BOOLEAN]]
        /\ loader'[d].at = where /\ \A q \in Dataset : q # d => loader'[q] = loader[q]
    BY <1>1, <2>3 DEF DatasetTypes
  <2>5. UNCHANGED <<registry, table, gone>>
    BY <1>5 DEF KeeperLists
  <2>6. DatasetTypes'
    BY <1>1, <1>2, <2>4, <2>5 DEF DatasetTypes
  <2>7. QED
    BY <1>2, <2>1, <2>4, <2>5, <2>6, OutsideStep DEF Over
<1>6. CASE KeeperForgets(d)
  <2>1. GoTo(d, "dead") /\ loader[d].at = "forget" /\ registry' = registry /\ table' = table
    BY <1>6 DEF KeeperForgets
  <2>2. /\ loader' \in [Dataset -> [at : LoaderAt, copy : DatasetRow, query : BOOLEAN]]
        /\ loader'[d].at = "dead" /\ \A q \in Dataset : q # d => loader'[q] = loader[q]
    BY <1>1, <2>1, LoaderGoes DEF LoaderAt
  <2>3. DatasetTypes'
    BY <1>1, <1>2, <2>1, <2>2 DEF DatasetTypes
  <2>4. QED
    BY <1>2, <2>1, <2>2, <2>3, OutsideStep DEF Over
<1>7. QED
  BY <1>3, <1>4, <1>5, <1>6

\* A run ends, its dataset is sealed, its expiry comes.
LEMMA RunEndStep ==
  ASSUME DatasetsInv, NEW d \in Dataset, EndJob(d) \/ Seal(d) \/ ExpiryComes(d)
  PROVE  DatasetsInv'
<1>1. DatasetTypes /\ registry[d] \in DatasetRow
  BY DEF DatasetsInv, DatasetTypes
<1>2. UNCHANGED <<purge, ripe, unread, loader, table, gone>>
  BY DEF EndJob, Seal, ExpiryComes
<1>3. CASE EndJob(d) \/ ExpiryComes(d)
  <2>1. /\ registry' = registry /\ ended \subseteq ended' /\ due \subseteq due'
        /\ ended' \subseteq Dataset /\ due' \subseteq ended'
    BY <1>1, <1>3 DEF EndJob, ExpiryComes, DatasetTypes
  <2>2. DatasetTypes'
    BY <1>1, <1>2, <2>1 DEF DatasetTypes
  <2>3. QED
    BY <1>2, <2>1, <2>2, OutsideStep
<1>4. CASE Seal(d)
  <2>1. PICK new \in DatasetRow : new = [registry[d] EXCEPT !.sealed = TRUE]
    BY <1>1 DEF DatasetRow
  <2>2. new.status = registry[d].status /\ new.sealed
    BY <1>1, <2>1 DEF DatasetRow
  <2>3. registry' = [registry EXCEPT ![d] = new] /\ UNCHANGED <<ended, due>>
    BY <1>1, <1>4, <2>1 DEF Seal, DatasetTypes
  <2>4. /\ registry' \in [Dataset -> DatasetRow] /\ registry'[d] = new
        /\ \A q \in Dataset : q # d => registry'[q] = registry[q]
    BY <1>1, <2>3 DEF DatasetTypes
  <2>5. DatasetTypes'
    BY <1>1, <1>2, <2>3, <2>4 DEF DatasetTypes
  <2>6. QED
    BY <1>2, <2>2, <2>3, <2>4, <2>5, OutsideStep
<1>5. QED
  BY <1>3, <1>4

\* A pass of the purge begins, reads, and ends.
LEMMA PassStep ==
  ASSUME DatasetsInv, StartPass \/ ListExpired \/ ListOldRuns \/ ReadActive \/ ListTables \/ EndPass
  PROVE  DatasetsInv'
<1>1. /\ DatasetTypes /\ SweepOK /\ ripe \subseteq Dataset /\ purge \in Passes
      /\ \A d \in ripe : RipeOK(d)
      /\ \A d \in Dataset : registry[d] \in DatasetRow
  BY DEF DatasetsInv, DatasetTypes
<1>2. UNCHANGED <<table, loader, ended, gone, due>>
  BY DEF StartPass, ListExpired, ListOldRuns, Lists, ReadActive, ListTables, EndPass
<1>3. /\ NoWork \in Passes
      /\ NoWork.at = "idle" /\ NoWork.todo = {} /\ NoWork.dropped = {} /\ NoWork.active = {}
  <2>1. [d \in Dataset |-> NoDataset] \in [Dataset -> DatasetRow]
    BY DEF NoDataset, DatasetRow
  <2>2. QED
    BY <2>1 DEF NoWork, Passes, PurgeAt
<1>4. CASE StartPass
  <2>1. PICK p \in Passes : p = [NoWork EXCEPT !.at = "expired"]
    BY <1>3 DEF Passes, PurgeAt
  <2>2. p.at = "expired" /\ p.dropped = {} /\ purge' = p
    BY <1>3, <1>4, <2>1 DEF Passes, StartPass
  <2>3. \A d \in Dataset : \E row \in DatasetRow :
          /\ row = [registry[d] EXCEPT !.sealed = @ \/ Seals(d)]
          /\ row.status = registry[d].status /\ row.sealed = (registry[d].sealed \/ Seals(d))
    <3>1. TAKE d \in Dataset
    <3>2. PICK b \in BOOLEAN : b = (registry[d].sealed \/ Seals(d))
      OBVIOUS
    <3>3. [registry[d] EXCEPT !.sealed = b] \in DatasetRow
      BY <1>1 DEF DatasetRow
    <3>4. PICK row \in DatasetRow : row = [registry[d] EXCEPT !.sealed = b]
      BY <3>3
    <3>5. row.status = registry[d].status /\ row.sealed = b
      BY <1>1, <3>4 DEF DatasetRow
    <3>6. QED
      BY <3>2, <3>4, <3>5
  <2>4. /\ registry' \in [Dataset -> DatasetRow]
        /\ \A d \in Dataset : registry'[d].sealed = (registry[d].sealed \/ Seals(d))
                              /\ registry'[d].status = registry[d].status
    BY <1>4, <2>3 DEF StartPass
  <2>5. DatasetTypes' /\ SweepOK'
    BY <1>1, <1>2, <2>2, <2>4 DEF DatasetTypes, SweepOK
  <2>6. ASSUME NEW d \in ripe' PROVE RipeOK(d)' /\ d \in Dataset
    <3>1. d \in (ended \cap due) \ gone /\ loader[d].at \in {"end", "dead"}
      BY <1>4 DEF StartPass
    <3>2. d \in Dataset
      BY <1>1, <3>1 DEF DatasetTypes
    <3>3. registry[d].status \in Capacity => registry'[d].sealed
      BY <2>4, <3>1, <3>2 DEF Seals, Capacity
    <3>4. QED
      BY <1>2, <2>2, <2>4, <3>1, <3>2, <3>3 DEF RipeOK, Over
  <2>7. QED
    BY <2>2, <2>5, <2>6 DEF DatasetsInv
<1>5. ASSUME NEW found \in SUBSET Dataset, NEW next \in {"drop_expired", "drop_old"}, Lists(found, next),
             next = "drop_expired" => found = Expired,
             next = "drop_old" => purge.at = "drop_expired" /\ Done
      PROVE  DatasetsInv'
  <2>1. PICK copy \in [Dataset -> DatasetRow] :
          copy = [d \in Dataset |-> IF d \in found THEN registry[d] ELSE NoDataset]
    BY <1>1 DEF NoDataset, DatasetRow
  <2>2. PICK p \in Passes : p = [NoWork EXCEPT !.at = next, !.todo = found, !.copy = copy]
    BY <1>3 DEF Passes, PurgeAt
  <2>3. p.at = next /\ p.todo = found /\ p.dropped = {} /\ purge' = p /\ UNCHANGED <<registry, ripe>>
    BY <1>3, <1>5, <2>1, <2>2 DEF Passes, Lists
  <2>4. DatasetTypes' /\ SweepOK'
    BY <1>1, <1>2, <2>3 DEF DatasetTypes, SweepOK
  <2>5. ASSUME NEW d \in ripe PROVE RipeOK(d)'
    <3>1. RipeOK(d) /\ d \in Dataset
      BY <1>1
    <3>2. next = "drop_expired" /\ d \in Active => d \in found
      BY <1>5, <3>1 DEF RipeOK, Active, Expired
    <3>3. next = "drop_old" => d \notin Active
      BY <1>5, <3>1 DEF RipeOK, Done
    <3>4. Active' = Active
      BY <2>3 DEF Active
    <3>5. QED
      BY <1>2, <2>3, <3>1, <3>2, <3>3, <3>4 DEF RipeOK
  <2>6. QED
    BY <1>1, <2>3, <2>4, <2>5 DEF DatasetsInv
<1>6. CASE ListExpired
  <2>1. Expired \in SUBSET Dataset
    BY DEF Expired, Active
  <2>2. QED
    BY <1>5, <1>6, <2>1 DEF ListExpired
<1>7. CASE ListOldRuns
  <2>1. PICK old \in SUBSET (ended \ gone) : Lists(old \cap Active, "drop_old")
    BY <1>7 DEF ListOldRuns
  <2>2. old \cap Active \in SUBSET Dataset /\ purge.at = "drop_expired" /\ Done
    BY <1>7 DEF ListOldRuns, Active
  <2>3. QED
    BY <1>5, <2>1, <2>2
<1>8. CASE ReadActive
  <2>1. PICK p \in Passes : p = [NoWork EXCEPT !.at = "tables", !.active = Active]
    BY <1>3 DEF Passes, PurgeAt, Active
  <2>2. p.at = "tables" /\ p.dropped = {} /\ p.active = Active /\ purge' = p
    BY <1>3, <1>8, <2>1 DEF Passes, ReadActive, Protected
  <2>3. UNCHANGED <<registry, ripe>> /\ purge.at = "drop_old" /\ Active' = Active
    BY <1>8 DEF ReadActive, Active
  <2>4. DatasetTypes' /\ SweepOK'
    BY <1>1, <1>2, <2>2, <2>3 DEF DatasetTypes, SweepOK
  <2>5. ASSUME NEW d \in ripe PROVE RipeOK(d)'
    BY <1>1, <1>2, <2>2, <2>3, <2>5 DEF RipeOK
  <2>6. QED
    BY <1>1, <2>2, <2>3, <2>4, <2>5 DEF DatasetsInv
<1>9. CASE ListTables
  <2>1. PICK p \in Passes : p = [purge EXCEPT !.at = "sweep", !.todo = table \ purge.active]
    BY <1>1 DEF Passes, PurgeAt, DatasetTypes
  <2>2. /\ p.at = "sweep" /\ p.dropped = purge.dropped /\ p.active = purge.active
        /\ p.todo = table \ purge.active /\ purge' = p
    BY <1>1, <1>9, <2>1 DEF Passes, ListTables
  <2>3. UNCHANGED <<registry, ripe, unread>> /\ purge.at = "tables" /\ Active' = Active
    BY <1>9 DEF ListTables, Active
  <2>4. DatasetTypes' /\ SweepOK' /\ purge.dropped = {}
    BY <1>1, <1>2, <2>2, <2>3 DEF DatasetTypes, SweepOK, DatasetsInv
  <2>5. ASSUME NEW d \in ripe PROVE RipeOK(d)'
    BY <1>1, <1>2, <2>2, <2>3, <2>5 DEF RipeOK
  <2>6. QED
    BY <1>1, <2>2, <2>3, <2>4, <2>5 DEF DatasetsInv
<1>10. CASE EndPass
  <2>1. purge' = NoWork /\ ripe' = {} /\ registry' = registry
    BY <1>10 DEF EndPass
  <2>2. DatasetTypes' /\ SweepOK'
    BY <1>1, <1>2, <1>3, <2>1 DEF DatasetTypes, SweepOK
  <2>3. QED
    BY <1>3, <2>1, <2>2 DEF DatasetsInv
<1>11. QED
  BY <1>4, <1>6, <1>7, <1>8, <1>9, <1>10

\* A pass drops and marks what it listed, and sweeps.
LEMMA DropStep ==
  ASSUME DatasetsInv, NEW d \in Dataset, DropListed(d) \/ MarkListed(d) \/ DropOrphan(d)
  PROVE  DatasetsInv'
<1>1. /\ DatasetTypes /\ SweepOK /\ ripe \subseteq Dataset /\ purge \in Passes
      /\ \A q \in ripe : RipeOK(q)
  BY DEF DatasetsInv, DatasetTypes
<1>2. UNCHANGED <<loader, ended, gone, due, unread>>
  BY DEF DropListed, MarkListed, DropOrphan
<1>3. CASE DropListed(d)
  <2>1. /\ purge.at \in {"drop_expired", "drop_old"} /\ d \in purge.todo /\ purge.dropped = {}
        /\ registry' = registry /\ Active' = Active
    BY <1>3 DEF DropListed, Active
  <2>2. CASE table' = table \ {d} /\ purge' = [purge EXCEPT !.todo = @ \ {d}, !.dropped = {d}] /\ ripe' = ripe
    <3>1. PICK p \in Passes : p = [purge EXCEPT !.todo = purge.todo \ {d}, !.dropped = {d}]
      BY <1>1 DEF Passes
    <3>2. p.at = purge.at /\ p.todo = purge.todo \ {d} /\ p.dropped = {d} /\ purge' = p
      BY <1>1, <2>2, <3>1 DEF Passes
    <3>3. DatasetTypes' /\ SweepOK'
      BY <1>1, <1>2, <2>1, <2>2, <3>2 DEF DatasetTypes, SweepOK
    <3>4. ASSUME NEW q \in ripe PROVE RipeOK(q)'
      BY <1>1, <1>2, <2>1, <2>2, <3>2, <3>4 DEF RipeOK
    <3>5. QED
      BY <1>1, <2>1, <2>2, <3>2, <3>3, <3>4 DEF DatasetsInv
  <2>3. CASE table' = table /\ purge' = [purge EXCEPT !.todo = @ \ {d}] /\ ripe' = ripe \ {d}
    <3>1. PICK p \in Passes : p = [purge EXCEPT !.todo = purge.todo \ {d}]
      BY <1>1 DEF Passes
    <3>2. p.at = purge.at /\ p.todo = purge.todo \ {d} /\ p.dropped = {} /\ purge' = p
      BY <1>1, <2>1, <2>3, <3>1 DEF Passes
    <3>3. DatasetTypes' /\ SweepOK'
      BY <1>1, <1>2, <2>1, <2>3, <3>2 DEF DatasetTypes, SweepOK
    <3>4. ASSUME NEW q \in ripe \ {d} PROVE RipeOK(q)'
      BY <1>1, <1>2, <2>1, <2>3, <3>2, <3>4 DEF RipeOK
    <3>5. QED
      BY <1>1, <2>1, <2>3, <3>2, <3>3, <3>4 DEF DatasetsInv
  <2>4. CASE Keeps(d) /\ table' = table /\ purge' = [purge EXCEPT !.todo = @ \ {d}] /\ ripe' = ripe
    <3>1. PICK p \in Passes : p = [purge EXCEPT !.todo = purge.todo \ {d}]
      BY <1>1 DEF Passes
    <3>2. p.at = purge.at /\ p.todo = purge.todo \ {d} /\ p.dropped = {} /\ purge' = p
      BY <1>1, <2>1, <2>4, <3>1 DEF Passes
    <3>3. DatasetTypes' /\ SweepOK'
      BY <1>1, <1>2, <2>1, <2>4, <3>2 DEF DatasetTypes, SweepOK
    <3>4. d \in ripe => d \notin Active
      BY <1>1, <2>4 DEF Keeps, RipeOK
    <3>5. ASSUME NEW q \in ripe PROVE RipeOK(q)'
      BY <1>1, <1>2, <2>1, <2>4, <3>2, <3>4, <3>5 DEF RipeOK
    <3>6. QED
      BY <1>1, <2>1, <2>4, <3>2, <3>3, <3>5 DEF DatasetsInv
  <2>5. QED
    BY <1>3, <2>2, <2>3, <2>4 DEF DropListed
<1>4. CASE MarkListed(d)
  <2>1. purge.dropped = {d} /\ purge.at \in {"drop_expired", "drop_old"}
    BY <1>4 DEF MarkListed, DatasetsInv
  <2>2. purge.copy[d] \in DatasetRow
    BY <1>1 DEF Passes
  <2>3. PICK new \in DatasetRow : new = [purge.copy[d] EXCEPT !.status = "dropped"]
    BY <2>2 DEF DatasetRow
  <2>4. new.status \notin Capacity
    BY <2>2, <2>3 DEF DatasetRow, Capacity
  <2>5. /\ registry' \in [Dataset -> DatasetRow] /\ registry'[d] = new
        /\ \A q \in Dataset : q # d => registry'[q] = registry[q]
    BY <1>1, <1>4, <2>3, RowIsSaved DEF MarkListed
  <2>6. PICK copy \in [Dataset -> DatasetRow] : copy = [purge.copy EXCEPT ![d] = NoDataset]
    BY <1>1 DEF Passes, NoDataset, DatasetRow
  <2>7. PICK p \in Passes : p = [purge EXCEPT !.dropped = {}, !.copy = copy]
    BY <1>1 DEF Passes
  <2>8. p.at = purge.at /\ p.todo = purge.todo /\ p.dropped = {}
    BY <1>1, <2>7 DEF Passes
  <2>9. purge' = p
    BY <1>1, <1>4, <2>6, <2>7 DEF MarkListed, Passes
  <2>10. UNCHANGED <<table, ripe>>
    BY <1>4 DEF MarkListed
  <2>11. DatasetTypes' /\ SweepOK'
    BY <1>1, <1>2, <2>1, <2>5, <2>8, <2>9, <2>10 DEF DatasetTypes, SweepOK
  <2>12. Active' = Active \ {d}
    BY <1>1, <2>4, <2>5 DEF Active
  <2>13. ASSUME NEW q \in ripe PROVE RipeOK(q)'
    <3>1. RipeOK(q) /\ q \in Dataset
      BY <1>1
    <3>2. registry'[q].status \in Capacity => registry'[q].sealed
      BY <2>4, <2>5, <3>1 DEF RipeOK
    <3>3. QED
      BY <1>2, <2>1, <2>8, <2>9, <2>10, <2>12, <3>1, <3>2 DEF RipeOK
  <2>14. QED
    BY <1>1, <2>8, <2>9, <2>10, <2>11, <2>13 DEF DatasetsInv
<1>5. CASE DropOrphan(d)
  <2>1. /\ purge.at = "sweep" /\ d \in purge.todo /\ table' \subseteq table /\ ripe' \subseteq ripe
        /\ d \in ripe' => table' = table \ {d}
        /\ purge' = [purge EXCEPT !.todo = @ \ {d}] /\ UNCHANGED registry /\ Active' = Active
    BY <1>5 DEF DropOrphan, Active
  <2>2. PICK p \in Passes : p = [purge EXCEPT !.todo = purge.todo \ {d}]
    BY <1>1 DEF Passes
  <2>3. /\ p.at = purge.at /\ p.todo = purge.todo \ {d} /\ p.dropped = purge.dropped
        /\ p.active = purge.active /\ purge' = p
    BY <1>1, <2>1, <2>2 DEF Passes
  <2>4. DatasetTypes' /\ SweepOK'
    BY <1>1, <1>2, <2>1, <2>3 DEF DatasetTypes, SweepOK
  <2>5. ASSUME NEW q \in ripe' PROVE RipeOK(q)'
    BY <1>1, <1>2, <2>1, <2>3, <2>5 DEF RipeOK
  <2>6. QED
    BY <1>1, <2>1, <2>3, <2>4, <2>5 DEF DatasetsInv
<1>6. QED
  BY <1>3, <1>4, <1>5

LEMMA DatasetsInvHolds == DatasetsSpec => []DatasetsInv
<1>1. DatasetsInit => DatasetsInv
  <2>1. SUFFICES ASSUME DatasetsInit PROVE DatasetsInv
    OBVIOUS
  <2>2. /\ NoDataset \in DatasetRow /\ [d \in Dataset |-> NoDataset] \in [Dataset -> DatasetRow]
        /\ [at |-> "new", copy |-> NoDataset, query |-> FALSE] \in [at : LoaderAt, copy : DatasetRow, query : BOOLEAN]
    BY DEF NoDataset, DatasetRow, LoaderAt
  <2>3. NoWork \in Passes /\ NoWork.at = "idle" /\ NoWork.dropped = {}
    BY <2>2 DEF NoWork, Passes, PurgeAt
  <2>4. QED
    BY <2>1, <2>2, <2>3 DEF DatasetsInit, DatasetsInv, DatasetTypes, SweepOK
<1>2. DatasetsInv /\ [DatasetsNext]_datasetVars => DatasetsInv'
  <2>1. SUFFICES ASSUME DatasetsInv, [DatasetsNext]_datasetVars PROVE DatasetsInv'
    OBVIOUS
  <2>2. CASE UNCHANGED datasetVars
    <3>1. UNCHANGED <<registry, table, loader, ended, gone, due, purge, ripe, unread>>
      BY <2>2 DEF datasetVars
    <3>2. DatasetTypes' /\ SweepOK'
      BY <2>1, <3>1 DEF DatasetsInv, DatasetTypes, SweepOK, Active
    <3>3. \A d \in ripe : RipeOK(d) => RipeOK(d)'
      BY <3>1 DEF RipeOK, Active
    <3>4. QED
      BY <2>1, <3>1, <3>2, <3>3 DEF DatasetsInv
  <2>3. ASSUME NEW d \in Dataset,
               \/ EnsureCapacity(d) \/ BeginDataset(d) \/ CreateFromQuery(d) \/ CopyChunk(d) \/ CheckChunk(d)
               \/ CommitTable(d) \/ FailLoad(d) \/ MarkReady(d) \/ KillLoader(d)
        PROVE  DatasetsInv'
    BY <2>1, <2>3, LoadStep
  <2>4. ASSUME NEW d \in Dataset,
               \/ DropOwn(d) \/ MarkOwn(d) \/ EndJob(d) \/ Seal(d) \/ ExpiryComes(d) \/ KeeperLists(d)
               \/ KeeperForgets(d) \/ DropListed(d) \/ MarkListed(d) \/ DropOrphan(d)
        PROVE  DatasetsInv'
    BY <2>1, <2>4, KeeperStep, RunEndStep, DropStep
  <2>5. QED
    BY <2>1, <2>2, <2>3, <2>4, PassStep DEF DatasetsNext
<1>3. QED
  BY <1>1, <1>2, PTL DEF DatasetsSpec

\* One pass leaves neither a table nor claimed capacity of a dataset that was due when it
\* began and whose load was over, unless a drop of it failed.
THEOREM PassLeavesNothingDue == DatasetsSpec => []PassCleansUp
<1>1. DatasetsInv => PassCleansUp
  BY DEF DatasetsInv, RipeOK, PassCleansUp, Done
<1>2. QED
  BY <1>1, DatasetsInvHolds, PTL

\* The sweep takes no table whose row is loading or ready, unless its load saved the row
\* after the sweep had read the registry.
THEOREM SweepTakesNoActive == DatasetsSpec => SweepSparesKnown
<1>1. DatasetsInv =>
        [\A d \in Dataset : purge.at = "sweep" /\ d \in purge.todo \ purge'.todo =>
           d \notin Active \/ d \in unread]_datasetVars
  BY DEF DatasetsInv, SweepOK
<1>2. QED
  BY <1>1, DatasetsInvHolds, PTL DEF SweepSparesKnown

\* The keeping settings wait for the end of the run.
KeepersWait ==
  /\ gone \subseteq ended
  /\ \A d \in Dataset : loader[d].at \in {"keeper_drop", "keeper_mark", "forget"} => d \in ended

LEMMA KeepersWaitHolds == DatasetsSpec => []KeepersWait
<1>1. DatasetsInit => KeepersWait
  BY DEF DatasetsInit, KeepersWait
<1>2. DatasetsInv /\ KeepersWait /\ [DatasetsNext]_datasetVars => KeepersWait'
  <2>1. SUFFICES ASSUME DatasetTypes, KeepersWait, [DatasetsNext]_datasetVars PROVE KeepersWait'
    BY DEF DatasetsInv
  <2>2. ASSUME UNCHANGED <<loader, gone>>, ended \subseteq ended' PROVE KeepersWait'
    BY <2>1, <2>2 DEF KeepersWait
  <2>3. ASSUME NEW d \in Dataset, UNCHANGED ended, gone' \subseteq gone \cup ended,
               \A q \in Dataset : q # d => loader'[q] = loader[q],
               loader'[d].at \in {"keeper_drop", "keeper_mark", "forget"} => d \in ended
        PROVE  KeepersWait'
    BY <2>1, <2>3 DEF KeepersWait
  <2>4. ASSUME NEW d \in Dataset,
               \/ EnsureCapacity(d) \/ CheckChunk(d) \/ CommitTable(d) \/ FailLoad(d) \/ MarkReady(d)
               \/ DropOwn(d) \/ MarkOwn(d) \/ KillLoader(d) \/ KeeperForgets(d)
        PROVE  KeepersWait'
    <3>1. PICK where \in LoaderAt :
            /\ GoTo(d, where)
            /\ where \in {"keeper_drop", "keeper_mark", "forget"} =>
                 loader[d].at \in {"keeper_drop", "keeper_mark", "forget"}
      BY <2>4 DEF EnsureCapacity, CheckChunk, CommitTable, FailLoad, MarkReady, DropOwn, MarkOwn,
                  KillLoader, KeeperForgets, LoaderAt
    <3>2. /\ loader'[d].at = where
          /\ \A q \in Dataset : q # d => loader'[q] = loader[q]
      BY <2>1, <3>1, LoaderGoes
    <3>3. UNCHANGED ended /\ gone' \subseteq gone \cup ended
      <4>1. CASE KeeperForgets(d)
        BY <2>1, <4>1 DEF KeeperForgets, KeepersWait
      <4>2. CASE ~KeeperForgets(d)
        BY <2>4, <4>2 DEF EnsureCapacity, CheckChunk, CommitTable, FailLoad, MarkReady, DropOwn,
                          MarkOwn, KillLoader
      <4>3. QED
        BY <4>1, <4>2
    <3>4. QED
      BY <2>1, <2>3, <3>1, <3>2, <3>3 DEF KeepersWait
  <2>5. ASSUME NEW d \in Dataset, BeginDataset(d) \/ CreateFromQuery(d) \/ CopyChunk(d)
        PROVE  KeepersWait'
    <3>1. /\ loader'[d].at \in {"load", "ready", "check"}
          /\ \A q \in Dataset : q # d => loader'[q] = loader[q]
      BY <2>1, <2>5 DEF BeginDataset, CreateFromQuery, CopyChunk, DatasetTypes
    <3>2. UNCHANGED <<ended, gone>>
      BY <2>5 DEF BeginDataset, CreateFromQuery, CopyChunk
    <3>3. QED
      BY <2>3, <3>1, <3>2
  <2>6. ASSUME NEW d \in Dataset, KeeperLists(d) PROVE KeepersWait'
    <3>1. d \in ended /\ \A q \in Dataset : q # d => loader'[q] = loader[q]
      BY <2>1, <2>6 DEF KeeperLists, DatasetTypes
    <3>2. UNCHANGED <<ended, gone>>
      BY <2>6 DEF KeeperLists
    <3>3. QED
      BY <2>3, <3>1, <3>2
  <2>7. ASSUME NEW d \in Dataset,
               \/ EndJob(d) \/ Seal(d) \/ ExpiryComes(d)
               \/ DropListed(d) \/ MarkListed(d) \/ DropOrphan(d)
        PROVE  UNCHANGED <<loader, gone>> /\ ended \subseteq ended'
    BY <2>7 DEF EndJob, Seal, ExpiryComes, DropListed, MarkListed, DropOrphan
  <2>8. StartPass \/ ListExpired \/ ListOldRuns \/ ReadActive \/ ListTables \/ EndPass
          \/ UNCHANGED datasetVars => UNCHANGED <<loader, gone, ended>>
    BY DEF StartPass, ListExpired, ListOldRuns, Lists, ReadActive, ListTables, EndPass, datasetVars
  <2>9. QED
    BY <2>1, <2>2, <2>4, <2>5, <2>6, <2>7, <2>8 DEF DatasetsNext
<1>3. QED
  BY <1>1, <1>2, DatasetsInvHolds, PTL DEF DatasetsSpec

\* The variables of datasets, loads and the purge have their types, and a Job is deleted,
\* and its dataset expires, only once its run has ended.
THEOREM DatasetsAreTyped == DatasetsSpec => []DatasetsTypeOK
<1>1. ASSUME DatasetsInv, KeepersWait PROVE DatasetsTypeOK
  BY <1>1 DEF DatasetsInv, DatasetTypes, KeepersWait, DatasetsTypeOK, LoaderAt, Passes
<1>2. QED
  BY <1>1, DatasetsInvHolds, KeepersWaitHolds, PTL
\* What a load that is not over claims of the ceiling since it, or another one, last saw
\* the sum below it: all but the chunk it has saved without having looked.
Claimed(d) ==
  IF d \notin Active \/ d \in ended \/ loader[d].query THEN 0
  ELSE IF loader[d].at \in {"load", "ready"} \/ registry[d].size = 0 THEN registry[d].size
  ELSE registry[d].size - 1
Claims == SumFunctionOnSet([d \in Dataset |-> Claimed(d)], Dataset)

\* As long as its run is not over, a load is alone with its row.
LoadOK(d) ==
  d \notin ended /\ ~loader[d].query =>
    /\ loader[d].at \in {"new", "begin"} => d \notin Active
    /\ loader[d].at \in {"load", "check", "ready"} =>
         /\ registry[d].status = "loading" /\ loader[d].copy.status = "loading"
         /\ loader[d].copy.size = registry[d].size

\* The purge drops and marks datasets of runs that are over.
PurgeEnded ==
  /\ purge.at \in {"drop_expired", "drop_old"} => purge.todo \subseteq ended
  /\ purge.dropped \subseteq ended

LoadsInv == Claims < Ceiling /\ PurgeEnded /\ \A d \in Dataset : LoadOK(d)

LEMMA ClaimedIsNat ==
  ASSUME DatasetTypes, NEW d \in Dataset
  PROVE  /\ Claimed(d) \in Nat
         /\ Claimed(d) <= IF d \in Active THEN registry[d].size ELSE 0
<1>1. registry[d].size \in Nat
  BY DEF DatasetTypes, DatasetRow
<1>2. QED
  BY <1>1 DEF Claimed

LEMMA ClaimedIsNatNext ==
  (DatasetTypes => \A d \in Dataset : /\ Claimed(d) \in Nat
                                      /\ Claimed(d) <= IF d \in Active THEN registry[d].size ELSE 0)'
<1>1. DatasetTypes => \A d \in Dataset : /\ Claimed(d) \in Nat
                                         /\ Claimed(d) <= IF d \in Active THEN registry[d].size ELSE 0
  BY ClaimedIsNat
<1>2. QED
  BY <1>1, PTL

\* Claims that do not grow stay below the ceiling; so do those of loads that have just
\* been seen to be below it.
LEMMA ClaimsStay ==
  ASSUME DatasetTypes, DatasetTypes', Claims < Ceiling, \A d \in Dataset : Claimed(d)' <= Claimed(d)
  PROVE  Claims' < Ceiling
<1>1. PICK f \in [Dataset -> Nat] : f = [d \in Dataset |-> Claimed(d)']
  BY ClaimedIsNatNext
<1>2. PICK g \in [Dataset -> Nat] : g = [d \in Dataset |-> Claimed(d)]
  BY ClaimedIsNat
<1>3. PICK D, E \in SUBSET Dataset : D = Dataset /\ E = {}
  OBVIOUS
<1>4. \A x \in Dataset : (IF x \in D THEN f[x] ELSE 0) <= (IF x \in D THEN g[x] ELSE 0) + (IF x \in E THEN g[x] ELSE 0)
  <2>1. \A x \in Dataset : f[x] <= g[x] /\ f[x] \in Nat /\ g[x] \in Nat
    BY <1>1, <1>2
  <2>2. QED
    BY <1>3, <2>1
<1>5. SumFunctionOnSet(f, D) <= SumFunctionOnSet(g, D) + SumFunctionOnSet(g, E)
  BY <1>3, <1>4, SumCompare, DatasetsAssumption
<1>6. /\ SumFunctionOnSet(g, E) = 0 /\ SumFunctionOnSet(g, D) \in Nat
      /\ SumFunctionOnSet(f, D) \in Nat
  BY <1>3, SumStep, DatasetsAssumption
<1>7. Claims' = SumFunctionOnSet(f, D) /\ Claims = SumFunctionOnSet(g, D)
  BY <1>1, <1>2, <1>3 DEF Claims
<1>8. QED
  BY <1>5, <1>6, <1>7, DatasetsAssumption

LEMMA ClaimsChecked ==
  ASSUME DatasetTypes, DatasetTypes', registry' = registry, Used < Ceiling
  PROVE  Claims' < Ceiling
<1>1. PICK f \in [Dataset -> Nat] : f = [d \in Dataset |-> Claimed(d)']
  BY ClaimedIsNatNext
<1>2. PICK g \in [Dataset -> Nat] : g = [d \in Dataset |-> registry[d].size]
  BY DEF DatasetTypes, DatasetRow
<1>3. PICK D, A, E \in SUBSET Dataset : D = Dataset /\ A = Active /\ E = {}
  BY DEF Active
<1>4. \A x \in Dataset : (IF x \in D THEN f[x] ELSE 0) <= (IF x \in A THEN g[x] ELSE 0) + (IF x \in E THEN g[x] ELSE 0)
  <2>1. \A x \in Dataset : f[x] <= IF x \in A THEN g[x] ELSE 0
    BY <1>1, <1>2, <1>3, ClaimedIsNatNext DEF Active
  <2>2. \A x \in Dataset : f[x] \in Nat /\ g[x] \in Nat
    BY <1>1, <1>2
  <2>3. QED
    BY <1>3, <2>1, <2>2
<1>5. SumFunctionOnSet(f, D) <= SumFunctionOnSet(g, A) + SumFunctionOnSet(g, E)
  BY <1>3, <1>4, SumCompare, DatasetsAssumption
<1>6. /\ SumFunctionOnSet(g, E) = 0 /\ SumFunctionOnSet(g, A) \in Nat
      /\ SumFunctionOnSet(f, D) \in Nat
  BY <1>3, SumStep, DatasetsAssumption
<1>7. Claims' = SumFunctionOnSet(f, D) /\ Used = SumFunctionOnSet(g, A)
  BY <1>1, <1>2, <1>3 DEF Claims, Used
<1>8. QED
  BY <1>5, <1>6, <1>7, DatasetsAssumption

\* What is claimed, with what the property allows, is all that is used.
LEMMA ClaimsBoundLoads ==
  ASSUME DatasetTypes, LoadsInv
  PROVE  LoadsStopAtCeiling
<1> DEFINE Allowed(d) == IF loader[d].query \/ d \in ended THEN registry[d].size ELSE 1
<1>1. \A d \in Dataset : registry[d].size \in Nat
  BY DEF DatasetTypes, DatasetRow
<1>2. PICK f \in [Dataset -> Nat] : f = [d \in Dataset |-> registry[d].size]
  BY <1>1
<1>3. PICK g \in [Dataset -> Nat] : g = [d \in Dataset |-> Claimed(d)]
  BY ClaimedIsNat
<1>4. PICK h \in [Dataset -> Nat] : h = [d \in Dataset |-> Allowed(d)]
  BY <1>1
<1>5. PICK D, A \in SUBSET Dataset : D = Dataset /\ A = Active
  BY DEF Active
<1>6. ASSUME NEW x \in Dataset
      PROVE  (IF x \in A THEN f[x] ELSE 0) <= (IF x \in D THEN g[x] ELSE 0) + (IF x \in A THEN h[x] ELSE 0)
  <2>1. f[x] = registry[x].size /\ g[x] = Claimed(x) /\ h[x] = Allowed(x) /\ f[x] \in Nat /\ g[x] \in Nat /\ h[x] \in Nat
    BY <1>2, <1>3, <1>4
  <2>2. x \in Active => f[x] <= g[x] + h[x]
    BY <2>1 DEF Claimed
  <2>3. QED
    BY <1>5, <2>1, <2>2
<1>7. SumFunctionOnSet(f, A) <= SumFunctionOnSet(g, D) + SumFunctionOnSet(h, A)
  BY <1>5, <1>6, SumCompare, DatasetsAssumption
<1>8. /\ SumFunctionOnSet(f, A) \in Nat /\ SumFunctionOnSet(g, D) \in Nat /\ SumFunctionOnSet(h, A) \in Nat
  BY SumStep, DatasetsAssumption
<1>9. /\ Used = SumFunctionOnSet(f, A) /\ Claims = SumFunctionOnSet(g, D)
      /\ LoadsStopAtCeiling <=> Used < Ceiling + SumFunctionOnSet(h, A)
  BY <1>2, <1>3, <1>4, <1>5 DEF Used, Claims, LoadsStopAtCeiling
<1>10. QED
  BY <1>7, <1>8, <1>9, DatasetsAssumption DEF LoadsInv
LEMMA LoaderKeeps ==
  ASSUME DatasetTypes, NEW d \in Dataset, NEW where \in LoaderAt, GoTo(d, where)
  PROVE  /\ loader'[d].at = where /\ loader'[d].query = loader[d].query
         /\ where \notin {"end", "dead"} => loader'[d].copy = loader[d].copy
         /\ \A q \in Dataset : q # d => loader'[q] = loader[q]
<1>1. loader[d] \in [at : LoaderAt, copy : DatasetRow, query : BOOLEAN]
  BY DEF DatasetTypes
<1>2. PICK c \in DatasetRow : c = IF where \in {"end", "dead"} THEN NoDataset ELSE loader[d].copy
  BY <1>1 DEF NoDataset, DatasetRow
<1>3. PICK l \in [at : LoaderAt, copy : DatasetRow, query : BOOLEAN] :
        l = [loader[d] EXCEPT !.at = where, !.copy = c]
  BY <1>1
<1>4. l.at = where /\ l.copy = c /\ l.query = loader[d].query
  BY <1>1, <1>3
<1>5. loader' = [loader EXCEPT ![d] = l]
  BY <1>1, <1>2, <1>3 DEF GoTo, DatasetTypes
<1>6. QED
  BY <1>2, <1>4, <1>5 DEF DatasetTypes

LEMMA LoadsShrink ==
  ASSUME LoadsInv, DatasetTypes, DatasetTypes', PurgeEnded',
         \A d \in Dataset : LoadOK(d)' /\ Claimed(d)' <= Claimed(d)
  PROVE  LoadsInv'
<1>1. Claims' < Ceiling
  BY ClaimsStay DEF LoadsInv
<1>2. QED
  BY <1>1 DEF LoadsInv

\* A step of one load.
LEMMA OneLoadStep ==
  ASSUME LoadsInv, DatasetTypes, DatasetTypes', PurgeEnded', NEW d \in Dataset,
         ended \subseteq ended', ended' \subseteq ended \cup {d},
         \A q \in Dataset : q # d => registry'[q] = registry[q] /\ loader'[q] = loader[q],
         LoadOK(d)', Claimed(d)' <= Claimed(d)
  PROVE  LoadsInv'
<1>1. ASSUME NEW q \in Dataset PROVE LoadOK(q)' /\ Claimed(q)' <= Claimed(q)
  <2>1. CASE q = d
    BY <2>1
  <2>2. CASE q # d
    <3>1. registry'[q] = registry[q] /\ loader'[q] = loader[q] /\ (q \in ended' <=> q \in ended)
      BY <2>2
    <3>2. (q \in Active' <=> q \in Active)
      BY <3>1 DEF Active
    <3>3. LoadOK(q)'
      BY <3>1, <3>2 DEF LoadOK, LoadsInv
    <3>4. Claimed(q)' = Claimed(q)
      BY <3>1, <3>2 DEF Claimed
    <3>5. Claimed(q) \in Nat
      BY ClaimedIsNat
    <3>6. QED
      BY <3>3, <3>4, <3>5
  <2>3. QED
    BY <2>1, <2>2
<1>2. QED
  BY <1>1, LoadsShrink

LEMMA LoadClaimStep ==
  ASSUME LoadsInv, DatasetsInv, DatasetsInv', NEW d \in Dataset,
         \/ EnsureCapacity(d) \/ BeginDataset(d) \/ CreateFromQuery(d) \/ CopyChunk(d) \/ CheckChunk(d)
         \/ CommitTable(d) \/ FailLoad(d) \/ MarkReady(d) \/ KillLoader(d)
  PROVE  LoadsInv'
<1>1. /\ DatasetTypes /\ DatasetTypes'
      /\ loader[d] \in [at : LoaderAt, copy : DatasetRow, query : BOOLEAN]
      /\ registry[d] \in DatasetRow /\ registry[d].size \in Nat /\ LoadOK(d) /\ Claimed(d) \in Nat
  BY ClaimedIsNat DEF DatasetsInv, DatasetTypes, DatasetRow, LoadsInv
<1>2. UNCHANGED <<purge, ended>> /\ PurgeEnded'
  BY DEF EnsureCapacity, BeginDataset, CreateFromQuery, CopyChunk, CheckChunk, CommitTable, FailLoad,
         MarkReady, KillLoader, LoadsInv, PurgeEnded
<1>3. ASSUME \A q \in Dataset : q # d => registry'[q] = registry[q] /\ loader'[q] = loader[q],
             d \notin ended /\ ~loader'[d].query => LoadOK(d)' /\ Claimed(d)' <= Claimed(d)
      PROVE  LoadsInv'
  <2>1. d \in ended \/ loader'[d].query => LoadOK(d)' /\ Claimed(d)' <= Claimed(d)
    BY <1>1, <1>2 DEF LoadOK, Claimed
  <2>2. LoadOK(d)' /\ Claimed(d)' <= Claimed(d)
    BY <1>3, <2>1
  <2>3. QED
    BY <1>1, <1>2, <1>3, <2>2, OneLoadStep
<1>4. CASE EnsureCapacity(d) \/ FailLoad(d) \/ KillLoader(d) \/ CommitTable(d) \/ (CheckChunk(d) /\ Full)
  <2>1. PICK where \in LoaderAt : GoTo(d, where) /\ registry' = registry
                                  /\ \/ where \in {"begin", "end"} /\ loader[d].at = "new"
                                     \/ where \in {"drop", "dead"}
                                     \/ where = "ready" /\ loader[d].at = "load"
    BY <1>4 DEF EnsureCapacity, CheckChunk, FailLoad, KillLoader, CommitTable, LoaderAt
  <2>2. /\ loader'[d].at = where /\ loader'[d].query = loader[d].query
        /\ where \notin {"end", "dead"} => loader'[d].copy = loader[d].copy
        /\ \A q \in Dataset : q # d => loader'[q] = loader[q]
    BY <1>1, <2>1, LoaderKeeps
  <2>3. Active' = Active
    BY <2>1 DEF Active
  <2>4. LoadOK(d)'
    BY <1>1, <1>2, <2>1, <2>2, <2>3 DEF LoadOK
  <2>5. Claimed(d)' <= Claimed(d)
    BY <1>1, <1>2, <2>1, <2>2, <2>3 DEF LoadOK, Claimed
  <2>6. QED
    BY <1>3, <2>1, <2>2, <2>4, <2>5
<1>5. CASE CheckChunk(d) /\ ~Full
  <2>1. GoTo(d, "load") /\ registry' = registry /\ loader[d].at = "check" /\ "load" \in LoaderAt
    BY <1>5 DEF CheckChunk, LoaderAt
  <2>2. /\ loader'[d].at = "load" /\ loader'[d].query = loader[d].query
        /\ loader'[d].copy = loader[d].copy
        /\ \A q \in Dataset : q # d => loader'[q] = loader[q]
    BY <1>1, <2>1, LoaderKeeps
  <2>3. Active' = Active
    BY <2>1 DEF Active
  <2>4. ASSUME NEW q \in Dataset PROVE LoadOK(q)'
    <3>1. CASE q = d
      BY <1>1, <1>2, <2>1, <2>2, <2>3, <3>1 DEF LoadOK
    <3>2. CASE q # d
      BY <1>2, <2>1, <2>2, <2>3, <3>2 DEF LoadOK, LoadsInv
    <3>3. QED
      BY <3>1, <3>2
  <2>5. Used < Ceiling
    <3>1. ~(Used >= Ceiling)
      BY <1>5 DEF Full
    <3>2. PICK g \in [Dataset -> Nat] : g = [q \in Dataset |-> registry[q].size]
      BY <1>1 DEF DatasetTypes, DatasetRow
    <3>3. PICK A \in SUBSET Dataset : A = Active
      BY DEF Active
    <3>4. SumFunctionOnSet(g, A) \in Nat
      BY SumStep, DatasetsAssumption
    <3>5. Used \in Nat
      BY <3>2, <3>3, <3>4 DEF Used
    <3>6. QED
      BY <3>1, <3>5, DatasetsAssumption
  <2>6. Claims' < Ceiling
    BY <1>1, <2>1, <2>5, ClaimsChecked
  <2>7. QED
    BY <1>2, <2>4, <2>6 DEF LoadsInv
<1>6. CASE BeginDataset(d)
  <2>1. PICK new \in DatasetRow : new = [NoDataset EXCEPT !.status = "loading"]
    BY DEF NoDataset, DatasetRow, Capacity
  <2>2. Save(d, new) /\ loader' = [loader EXCEPT ![d].at = "load", ![d].copy = new]
    BY <1>6, <2>1 DEF BeginDataset
  <2>3. new.status = "loading" /\ new.size = 0
    BY <2>1 DEF NoDataset
  <2>4. loader'[d].at = "load" /\ loader'[d].copy = new
        /\ \A q \in Dataset : q # d => loader'[q] = loader[q]
    BY <1>1, <2>2 DEF DatasetTypes
  <2>5. registry'[d] = new /\ \A q \in Dataset : q # d => registry'[q] = registry[q]
    BY <1>1, <2>2, RowIsSaved
  <2>6. LoadOK(d)'
    BY <2>3, <2>4, <2>5 DEF LoadOK
  <2>7. Claimed(d)' <= Claimed(d)
    BY <1>1, <2>3, <2>4, <2>5 DEF Claimed
  <2>8. QED
    BY <1>3, <2>4, <2>5, <2>6, <2>7
<1>7. CASE CreateFromQuery(d)
  <2>1. registry' = registry
    BY <1>7 DEF CreateFromQuery
  <2>2. PICK n \in 1..MaxChunks :
          loader' = [loader EXCEPT ![d] = [at |-> "ready", copy |-> [@.copy EXCEPT !.size = n], query |-> TRUE]]
    BY <1>7 DEF CreateFromQuery
  <2>3. loader'[d].query /\ \A q \in Dataset : q # d => loader'[q] = loader[q]
    BY <1>1, <2>2 DEF DatasetTypes
  <2>4. QED
    BY <1>3, <2>1, <2>3
<1>8. CASE CopyChunk(d)
  <2>1. PICK n \in Nat : n = loader[d].copy.size
    BY <1>1 DEF DatasetRow
  <2>2. PICK new \in DatasetRow : new = [loader[d].copy EXCEPT !.size = n + 1]
    <3>1. PICK m \in Nat : m = n + 1
      OBVIOUS
    <3>2. [loader[d].copy EXCEPT !.size = m] \in DatasetRow
      BY <1>1 DEF DatasetRow
    <3>3. QED
      BY <3>1, <3>2
  <2>3. new.size = n + 1 /\ new.status = loader[d].copy.status
    BY <1>1, <2>2 DEF DatasetRow
  <2>4. /\ Save(d, new) /\ loader' = [loader EXCEPT ![d].at = "check", ![d].copy = new]
        /\ loader[d].at = "load"
    <3>1. new = [loader[d].copy EXCEPT !.size = @ + 1]
      BY <1>1, <2>1, <2>2 DEF DatasetRow
    <3>2. QED
      BY <1>8, <3>1 DEF CopyChunk
  <2>5. /\ loader'[d].at = "check" /\ loader'[d].copy = new /\ loader'[d].query = loader[d].query
        /\ \A q \in Dataset : q # d => loader'[q] = loader[q]
    BY <1>1, <2>4 DEF DatasetTypes
  <2>6. registry'[d] = new /\ \A q \in Dataset : q # d => registry'[q] = registry[q]
    BY <1>1, <2>4, RowIsSaved
  <2>7. d \notin ended /\ ~loader'[d].query =>
          LoadOK(d)' /\ Claimed(d)' <= Claimed(d)
    <3>1. SUFFICES ASSUME d \notin ended, ~loader'[d].query PROVE LoadOK(d)' /\ Claimed(d)' <= Claimed(d)
      OBVIOUS
    <3>2. registry[d].status = "loading" /\ loader[d].copy.status = "loading" /\ registry[d].size = n
      BY <1>1, <2>1, <2>4, <2>5, <3>1 DEF LoadOK
    <3>3. Claimed(d) = n
      BY <2>4, <2>5, <3>1, <3>2 DEF Claimed, Active, Capacity
    <3>4. Claimed(d)' <= n
      BY <1>2, <2>1, <2>3, <2>5, <2>6 DEF Claimed
    <3>5. LoadOK(d)'
      BY <2>3, <2>5, <2>6, <3>2 DEF LoadOK
    <3>6. QED
      BY <3>3, <3>4, <3>5
  <2>8. QED
    BY <1>3, <2>5, <2>6, <2>7
<1>9. CASE MarkReady(d)
  <2>1. PICK new \in DatasetRow : new = [loader[d].copy EXCEPT !.status = "ready"]
    BY <1>1 DEF DatasetRow, Capacity
  <2>2. Save(d, new) /\ GoTo(d, "end") /\ loader[d].at = "ready" /\ "end" \in LoaderAt
    BY <1>9, <2>1 DEF MarkReady, LoaderAt
  <2>3. new.size = loader[d].copy.size /\ new.size \in Nat
    BY <1>1, <2>1 DEF DatasetRow
  <2>4. /\ loader'[d].at = "end" /\ loader'[d].query = loader[d].query
        /\ \A q \in Dataset : q # d => loader'[q] = loader[q]
    BY <1>1, <2>2, LoaderKeeps
  <2>5. registry'[d] = new /\ \A q \in Dataset : q # d => registry'[q] = registry[q]
    BY <1>1, <2>2, RowIsSaved
  <2>6. LoadOK(d)'
    BY <2>4 DEF LoadOK
  <2>7. d \notin ended /\ ~loader'[d].query => Claimed(d)' <= Claimed(d)
    BY <1>1, <1>2, <2>2, <2>3, <2>4, <2>5 DEF LoadOK, Claimed, Active, Capacity
  <2>8. QED
    BY <1>3, <2>4, <2>5, <2>6, <2>7
<1>10. QED
  BY <1>4, <1>5, <1>6, <1>7, <1>8, <1>9

\* Neither the end of a run nor what comes after it adds to the claims.
LEMMA AfterLoadStep ==
  ASSUME LoadsInv, DatasetsInv, DatasetsInv', NEW d \in Dataset,
         \/ DropOwn(d) \/ MarkOwn(d) \/ EndJob(d) \/ Seal(d) \/ ExpiryComes(d)
         \/ KeeperLists(d) \/ KeeperForgets(d) \/ DropListed(d) \/ MarkListed(d) \/ DropOrphan(d)
  PROVE  LoadsInv'
<1>1. /\ DatasetTypes /\ DatasetTypes' /\ PurgeEnded
      /\ loader[d] \in [at : LoaderAt, copy : DatasetRow, query : BOOLEAN]
      /\ registry[d] \in DatasetRow /\ registry[d].size \in Nat /\ LoadOK(d) /\ Claimed(d) \in Nat
  BY ClaimedIsNat DEF DatasetsInv, DatasetTypes, DatasetRow, LoadsInv
<1>2. ASSUME PurgeEnded', ended \subseteq ended', ended' \subseteq ended \cup {d},
             \A q \in Dataset : q # d => registry'[q] = registry[q] /\ loader'[q] = loader[q],
             d \notin ended' => LoadOK(d)' /\ Claimed(d)' <= Claimed(d)
      PROVE  LoadsInv'
  <2>1. d \in ended' => LoadOK(d)' /\ Claimed(d)' <= Claimed(d)
    BY <1>1 DEF LoadOK, Claimed
  <2>2. LoadOK(d)' /\ Claimed(d)' <= Claimed(d)
    BY <1>2, <2>1
  <2>3. QED
    BY <1>1, <1>2, <2>2, OneLoadStep
<1>3. ASSUME UNCHANGED purge, ended \subseteq ended' PROVE PurgeEnded'
  BY <1>1, <1>3 DEF PurgeEnded
<1>4. CASE DropOwn(d) \/ KeeperForgets(d)
  <2>1. PICK where \in {"mark", "keeper_mark", "end", "forget", "dead"} :
          GoTo(d, where) /\ loader[d].at \in {"drop", "keeper_drop", "forget"}
    BY <1>4 DEF DropOwn, KeeperForgets
  <2>2. UNCHANGED <<purge, ended, registry>>
    BY <1>4 DEF DropOwn, KeeperForgets
  <2>3. /\ loader'[d].at = where /\ loader'[d].query = loader[d].query
        /\ \A q \in Dataset : q # d => loader'[q] = loader[q]
    BY <1>1, <2>1, LoaderKeeps DEF LoaderAt
  <2>4. LoadOK(d)' /\ Claimed(d)' <= Claimed(d)
    BY <1>1, <2>1, <2>2, <2>3 DEF LoadOK, Claimed, Active
  <2>5. QED
    BY <1>2, <1>3, <2>2, <2>3, <2>4
<1>5. CASE MarkOwn(d)
  <2>1. PICK where \in {"end", "forget"} : GoTo(d, where)
    BY <1>5 DEF MarkOwn
  <2>2. PICK new \in DatasetRow : new = [loader[d].copy EXCEPT !.status = "dropped"]
    BY <1>1 DEF DatasetRow
  <2>3. new.status = "dropped" /\ Save(d, new) /\ UNCHANGED <<purge, ended>>
    BY <1>1, <1>5, <2>2 DEF DatasetRow, MarkOwn
  <2>4. /\ loader'[d].at = where /\ \A q \in Dataset : q # d => loader'[q] = loader[q]
    BY <1>1, <2>1, LoaderKeeps DEF LoaderAt
  <2>5. registry'[d] = new /\ \A q \in Dataset : q # d => registry'[q] = registry[q]
    BY <1>1, <2>3, RowIsSaved
  <2>6. LoadOK(d)' /\ Claimed(d)' <= Claimed(d)
    BY <1>1, <2>3, <2>4, <2>5 DEF LoadOK, Claimed, Active, Capacity
  <2>7. QED
    BY <1>2, <1>3, <2>3, <2>4, <2>5, <2>6
<1>6. CASE EndJob(d)
  <2>1. ended' = ended \cup {d} /\ UNCHANGED <<purge, registry, loader>>
    BY <1>6 DEF EndJob
  <2>2. QED
    BY <1>2, <1>3, <2>1
<1>7. CASE Seal(d)
  <2>1. d \in ended /\ registry' = [registry EXCEPT ![d].sealed = TRUE] /\ UNCHANGED <<purge, ended, loader>>
    BY <1>7 DEF Seal, Seals
  <2>2. \A q \in Dataset : q # d => registry'[q] = registry[q]
    BY <1>1, <2>1 DEF DatasetTypes
  <2>3. QED
    BY <1>2, <1>3, <2>1, <2>2
<1>8. CASE ExpiryComes(d) \/ DropOrphan(d)
  <2>1. UNCHANGED <<ended, registry, loader>>
    BY <1>8 DEF ExpiryComes, DropOrphan
  <2>2. LoadOK(d)' /\ Claimed(d)' <= Claimed(d)
    BY <1>1, <2>1 DEF LoadOK, Claimed, Active
  <2>3. PurgeEnded'
    <3>1. CASE ExpiryComes(d)
      BY <1>3, <2>1, <3>1 DEF ExpiryComes
    <3>2. CASE DropOrphan(d)
      <4>1. PICK p \in Passes : p = [purge EXCEPT !.todo = purge.todo \ {d}]
        BY <1>1 DEF DatasetTypes, Passes
      <4>2. p.at = purge.at /\ p.dropped = purge.dropped /\ purge' = p /\ purge.at = "sweep"
        BY <1>1, <3>2, <4>1 DEF DatasetTypes, Passes, DropOrphan
      <4>3. QED
        BY <1>1, <2>1, <4>2 DEF PurgeEnded
    <3>3. QED
      BY <1>8, <3>1, <3>2
  <2>4. QED
    BY <1>2, <2>1, <2>2, <2>3
<1>9. CASE KeeperLists(d)
  <2>1. d \in ended /\ UNCHANGED <<ended, registry, purge>>
    BY <1>9 DEF KeeperLists
  <2>2. PICK where : loader' = [loader EXCEPT ![d].at = where, ![d].copy = registry[d]]
    BY <1>9 DEF KeeperLists
  <2>3. \A q \in Dataset : q # d => loader'[q] = loader[q]
    BY <1>1, <2>2 DEF DatasetTypes
  <2>4. QED
    BY <1>2, <1>3, <2>1, <2>3
<1>10. CASE DropListed(d)
  <2>1. /\ UNCHANGED <<ended, registry, loader>> /\ purge.at \in {"drop_expired", "drop_old"} /\ d \in purge.todo
    BY <1>10 DEF DropListed
  <2>2. d \in ended
    BY <1>1, <2>1 DEF PurgeEnded
  <2>3. PICK dropped \in {purge.dropped, {d}} :
          purge' = [purge EXCEPT !.todo = purge.todo \ {d}, !.dropped = dropped]
    <3>1. [purge EXCEPT !.todo = purge.todo \ {d}] = [purge EXCEPT !.todo = purge.todo \ {d}, !.dropped = purge.dropped]
      BY <1>1 DEF DatasetTypes, Passes
    <3>2. QED
      BY <1>10, <3>1 DEF DropListed
  <2>4. purge'.at = purge.at /\ purge'.todo \subseteq purge.todo /\ purge'.dropped \subseteq purge.dropped \cup {d}
    BY <1>1, <2>3 DEF DatasetTypes, Passes
  <2>5. PurgeEnded'
    BY <1>1, <2>1, <2>2, <2>4 DEF PurgeEnded
  <2>6. QED
    BY <1>2, <2>1, <2>2, <2>5
<1>11. CASE MarkListed(d)
  <2>1. UNCHANGED <<ended, loader>> /\ d \in purge.dropped /\ purge.copy[d] \in DatasetRow
    BY <1>1, <1>11 DEF MarkListed, DatasetTypes, Passes
  <2>2. d \in ended
    BY <1>1, <2>1 DEF PurgeEnded
  <2>3. PICK new \in DatasetRow : new = [purge.copy[d] EXCEPT !.status = "dropped"]
    BY <2>1 DEF DatasetRow
  <2>4. \A q \in Dataset : q # d => registry'[q] = registry[q]
    BY <1>1, <1>11, <2>3, RowIsSaved DEF MarkListed
  <2>5. PICK copy : purge' = [purge EXCEPT !.dropped = {}, !.copy = copy]
    BY <1>1, <1>11 DEF MarkListed, DatasetTypes, Passes
  <2>6. purge'.at = purge.at /\ purge'.todo = purge.todo /\ purge'.dropped = {}
    BY <1>1, <2>5 DEF DatasetTypes, Passes
  <2>7. PurgeEnded'
    BY <1>1, <2>1, <2>6 DEF PurgeEnded
  <2>8. QED
    BY <1>2, <2>1, <2>2, <2>4, <2>7
<1>12. QED
  BY <1>4, <1>5, <1>6, <1>7, <1>8, <1>9, <1>10, <1>11

LEMMA PassClaimStep ==
  ASSUME LoadsInv, DatasetsInv, DatasetsInv',
         \/ StartPass \/ ListExpired \/ ListOldRuns \/ ReadActive \/ ListTables \/ EndPass
         \/ UNCHANGED datasetVars
  PROVE  LoadsInv'
<1>1. /\ DatasetTypes /\ DatasetTypes' /\ PurgeEnded
      /\ \A d \in Dataset : registry[d] \in DatasetRow /\ Claimed(d) \in Nat
  BY ClaimedIsNat DEF DatasetsInv, DatasetTypes, LoadsInv
<1>2. UNCHANGED <<loader, ended>>
  BY DEF StartPass, ListExpired, ListOldRuns, Lists, ReadActive, ListTables, EndPass, datasetVars
<1>3. \A d \in Dataset : registry'[d].status = registry[d].status /\ registry'[d].size = registry[d].size
  <2>1. CASE StartPass
    <3>1. TAKE d \in Dataset
    <3>2. PICK b \in BOOLEAN : b = (registry[d].sealed \/ Seals(d))
      OBVIOUS
    <3>3. PICK row : row = [registry[d] EXCEPT !.sealed = b]
      OBVIOUS
    <3>4. row.status = registry[d].status /\ row.size = registry[d].size
      BY <1>1, <3>3 DEF DatasetRow
    <3>5. registry'[d] = [registry[d] EXCEPT !.sealed = @ \/ Seals(d)]
      BY <2>1 DEF StartPass
    <3>6. registry'[d] = row
      BY <3>2, <3>3, <3>5
    <3>7. QED
      BY <3>4, <3>6
  <2>2. CASE registry' = registry
    BY <2>2
  <2>3. QED
    BY <2>1, <2>2 DEF ListExpired, ListOldRuns, Lists, ReadActive, ListTables, EndPass, datasetVars
<1>4. Active' = Active
  BY <1>3 DEF Active
<1>5. PurgeEnded'
  <2>1. NoWork.at = "idle" /\ NoWork.dropped = {} /\ NoWork.todo = {}
    BY DEF NoWork
  <2>2. ASSUME NEW found \in SUBSET ended, NEW next, Lists(found, next) PROVE PurgeEnded'
    <3>1. PICK copy : purge' = [NoWork EXCEPT !.at = next, !.todo = found, !.copy = copy]
      BY <2>2 DEF Lists
    <3>2. purge'.todo = found /\ purge'.dropped = {}
      BY <3>1 DEF NoWork
    <3>3. QED
      BY <1>2, <3>2 DEF PurgeEnded
  <2>3. CASE ListExpired
    <3>1. Expired \in SUBSET ended
      BY <1>1 DEF Expired, DatasetTypes
    <3>2. QED
      BY <2>2, <2>3, <3>1 DEF ListExpired
  <2>4. CASE ListOldRuns
    <3>1. PICK old \in SUBSET (ended \ gone) : Lists(old \cap Active, "drop_old")
      BY <2>4 DEF ListOldRuns
    <3>2. QED
      BY <2>2, <3>1
  <2>5. CASE StartPass
    <3>1. purge'.at = "expired" /\ purge'.dropped = {}
      BY <2>5 DEF StartPass, NoWork
    <3>2. QED
      BY <3>1 DEF PurgeEnded
  <2>6. CASE ReadActive
    <3>1. purge'.at = "tables" /\ purge'.dropped = {}
      BY <2>6 DEF ReadActive, NoWork
    <3>2. QED
      BY <3>1 DEF PurgeEnded
  <2>7. CASE ListTables
    <3>1. purge'.at = "sweep" /\ purge'.dropped = purge.dropped
      BY <1>1, <2>7 DEF ListTables, DatasetTypes, Passes
    <3>2. QED
      BY <1>1, <1>2, <3>1 DEF PurgeEnded
  <2>8. CASE EndPass
    BY <2>1, <2>8 DEF EndPass, PurgeEnded
  <2>9. CASE UNCHANGED datasetVars
    BY <1>1, <2>9 DEF datasetVars, PurgeEnded
  <2>10. QED
    BY <2>3, <2>4, <2>5, <2>6, <2>7, <2>8, <2>9
<1>6. ASSUME NEW d \in Dataset PROVE LoadOK(d)' /\ Claimed(d)' <= Claimed(d)
  <2>1. LoadOK(d)'
    BY <1>2, <1>3, <1>4 DEF LoadOK, LoadsInv
  <2>2. Claimed(d)' = Claimed(d)
    BY <1>2, <1>3, <1>4 DEF Claimed
  <2>3. QED
    BY <1>1, <2>1, <2>2
<1>7. QED
  BY <1>1, <1>5, <1>6, LoadsShrink

LEMMA LoadsInvHolds == DatasetsSpec => []LoadsInv
<1>1. DatasetsInit => LoadsInv
  <2>1. SUFFICES ASSUME DatasetsInit PROVE LoadsInv
    OBVIOUS
  <2>2. Active = {} /\ PurgeEnded /\ \A d \in Dataset : LoadOK(d) /\ Claimed(d) = 0
    <3>1. Active = {}
      BY <2>1 DEF DatasetsInit, Active, NoDataset, Capacity
    <3>2. PurgeEnded
      BY <2>1 DEF DatasetsInit, PurgeEnded, NoWork
    <3>3. \A d \in Dataset : loader[d].at = "new"
      BY <2>1 DEF DatasetsInit
    <3>4. QED
      BY <3>1, <3>2, <3>3 DEF LoadOK, Claimed
  <2>3. PICK f \in [Dataset -> Nat] : f = [d \in Dataset |-> Claimed(d)]
    <3>1. \A d \in Dataset : Claimed(d) \in Nat
      BY <2>2
    <3>2. [d \in Dataset |-> Claimed(d)] \in [Dataset -> Nat]
      BY <3>1
    <3>3. QED
      BY <3>2
  <2>4. \A x \in Dataset : f[x] = 0
    BY <2>2, <2>3
  <2>5. PICK D, E \in SUBSET Dataset : D = Dataset /\ E = {}
    OBVIOUS
  <2>6. SumFunctionOnSet(f, D) <= SumFunctionOnSet(f, E) + SumFunctionOnSet(f, E)
    BY <2>4, <2>5, SumCompare, DatasetsAssumption
  <2>7. SumFunctionOnSet(f, E) = 0 /\ SumFunctionOnSet(f, D) \in Nat
    BY <2>5, SumStep, DatasetsAssumption
  <2>8. Claims = SumFunctionOnSet(f, D)
    BY <2>3, <2>5 DEF Claims
  <2>9. QED
    BY <2>2, <2>6, <2>7, <2>8, DatasetsAssumption DEF LoadsInv
<1>2. LoadsInv /\ DatasetsInv /\ DatasetsInv' /\ [DatasetsNext]_datasetVars => LoadsInv'
  <2>1. SUFFICES ASSUME LoadsInv, DatasetsInv, DatasetsInv', [DatasetsNext]_datasetVars PROVE LoadsInv'
    OBVIOUS
  <2>2. ASSUME NEW d \in Dataset,
               \/ EnsureCapacity(d) \/ BeginDataset(d) \/ CreateFromQuery(d) \/ CopyChunk(d) \/ CheckChunk(d)
               \/ CommitTable(d) \/ FailLoad(d) \/ MarkReady(d) \/ KillLoader(d)
        PROVE  LoadsInv'
    BY <2>1, <2>2, LoadClaimStep
  <2>3. ASSUME NEW d \in Dataset,
               \/ DropOwn(d) \/ MarkOwn(d) \/ EndJob(d) \/ Seal(d) \/ ExpiryComes(d) \/ KeeperLists(d)
               \/ KeeperForgets(d) \/ DropListed(d) \/ MarkListed(d) \/ DropOrphan(d)
        PROVE  LoadsInv'
    BY <2>1, <2>3, AfterLoadStep
  <2>4. QED
    BY <2>1, <2>2, <2>3, PassClaimStep DEF DatasetsNext
<1>3. QED
  BY <1>1, <1>2, DatasetsInvHolds, PTL DEF DatasetsSpec

\* Loads pass the ceiling of the datasets by one chunk each at most, whatever their number
\* and however they interleave; only a load in one statement, or one whose run was ended
\* under it, counts in full (entity/datasets.py, _ensure_capacity and on_chunk).
THEOREM CeilingIsPassedByChunks == DatasetsSpec => []LoadsStopAtCeiling
<1>1. DatasetsInv /\ LoadsInv => LoadsStopAtCeiling
  BY ClaimsBoundLoads DEF DatasetsInv
<1>2. QED
  BY <1>1, DatasetsInvHolds, LoadsInvHolds, PTL

=============================================================================
