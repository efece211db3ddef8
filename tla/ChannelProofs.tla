--------------------------- MODULE ChannelProofs ---------------------------
(* What the calls of an Inbound Trigger and their runs agree on, and that the walk of a *)
(* run over its graph implements Dataflow.                                            *)
EXTENDS Inbound, ChannelWalk, FiniteSetTheorems, WellFoundedInduction, TLAPS

Place == Ended \cup {"new", "admit", "count", "mint", "abandon", "attach", "answer", "open",
                     "dispatch", "wait", "close", "reread"}
JobState == {"none", "queued", "orphan", "running", "ended", "released"}
Fresh == [done |-> 0, owes |-> FALSE]
Nodes == [done : 0..MaxResponds, owes : BOOLEAN]
SlotStates == [state : {"none", "open", "answered", "closed"}, body : Body]
RowStates == [state : {"none", "in_flight", "answered"}, job : Call \cup {NoCall},
              live : BOOLEAN, body : Body, by : Call \cup {NoCall}]

TypesOK ==
  /\ mode \in {"immediate", "respond"} /\ pc \in [Call -> Place] /\ event \subseteq Call
  /\ row \in RowStates /\ job \in [Call -> JobState] /\ node \in [Call -> Nodes]
  /\ slot \in [Call -> SlotStates] /\ told \subseteq Call \X (1..MaxResponds)
  /\ sent \in [Call -> Body]
  /\ elapsed \subseteq Call /\ raced \subseteq Call /\ early \subseteq Call

\* The places before a handler has attached its run, and after.
Admitted == {"count", "mint", "abandon", "attach"}
Attached == {"answer", "open", "dispatch", "wait", "close", "reread", "answered", "fallback"}

\* The Job of a call is minted once, by its handler.
MintOK(r) ==
  /\ pc[r] \in {"new", "admit", "count", "mint"} => job[r] = "none"
  /\ pc[r] = "abandon" => job[r] \in {"none", "orphan", "released"}
  /\ pc[r] = "new" => r \notin event
  /\ pc[r] \in {"admit", "abandon", "attach", "answer"} => r \in event
  /\ pc[r] = "answer" => mode = "immediate"
  /\ pc[r] \in {"open", "wait", "close", "reread", "fallback"} => mode = "respond"
  /\ job[r] \in {"none", "queued", "orphan"} => node[r] = Fresh

\* The row is of the call that reserved it, and attached to no Job but its own.
RowOK ==
  \/ row = NoRow
  \/ /\ row.state \in {"in_flight", "answered"} /\ row.by \in event /\ pc[row.by] \notin {"new", "admit"}
     /\ row.job \in {NoCall, row.by}
     /\ row.state = "answered" => row.job = row.by /\ row.body[1] = row.by

\* A handler keeps its reservation until it attaches or abandons it, and a run
\* its window.
WindowOK(r) ==
  /\ r \in event /\ pc[r] \in Admitted => row.live /\ row.by = r /\ Unattached
  /\ r \in event /\ job[r] \in {"queued", "running"} /\ r \notin elapsed => row.live /\ row.by = r
  /\ pc[r] \in Attached /\ row.by = r => row.job = r

\* Unless the sweep starts a run early, the stored answer is the immediate payload,
\* or what the first Respond node rendered.
AnswerOK(r) ==
  /\ r \in event \ early /\ pc[r] \in {"attach", "answer", "open"} => job[r] = "queued"
  /\ row.job = r /\ r \notin early /\ mode = "immediate" =>
       /\ pc[r] = "answer" => row.state = "in_flight"
       /\ pc[r] \in {"dispatch", "answered"} => row.state = "answered" /\ row.body = <<r, 0>>
  /\ row.job = r /\ r \notin early /\ mode = "respond" =>
       /\ row.state = "in_flight" => node[r] = Fresh \/ node[r] = [done |-> 1, owes |-> TRUE]
       /\ row.state = "answered" => row.body = <<r, 1>>

\* The slot is answered by the one Respond node that reported delivered.
ToldOf(r) == {n \in 1..MaxResponds : <<r, n>> \in told}
SlotOK(r) ==
  /\ pc[r] \in {"new", "admit", "count", "mint", "abandon", "attach", "open"} => slot[r].state = "none"
  /\ mode = "immediate" => slot[r].state = "none"
  /\ pc[r] \in {"dispatch", "wait", "close"} /\ mode = "respond" => slot[r].state # "none"
  /\ pc[r] = "reread" => slot[r].state \in {"closed", "answered"}
  /\ pc[r] = "fallback" => slot[r].state = "closed"
  /\ IF slot[r].state = "answered"
     THEN \E n \in 1..MaxResponds : slot[r].body = <<r, n>> /\ ToldOf(r) = {n}
     ELSE slot[r].body = NoBody /\ ToldOf(r) = {}
  /\ r \in event \ early =>
       /\ slot[r].state = "open" => node[r] = Fresh
       /\ slot[r].state = "answered" => slot[r].body = <<r, 1>>

\* What a client got.
SentOK(r) ==
  pc[r] = "answered" =>
    /\ row.by = r => sent[r][1] = r
    /\ sent[r][1] = r => IF mode = "immediate" THEN sent[r] = <<r, 0>>
                         ELSE slot[r].state = "answered" /\ sent[r] = slot[r].body

CallOK(r) == MintOK(r) /\ WindowOK(r) /\ AnswerOK(r) /\ SlotOK(r) /\ SentOK(r)
InboundInv == TypesOK /\ RowOK /\ \A r \in Call : CallOK(r)

-----------------------------------------------------------------------------
\* What a step of r, or of its window, leaves of the other calls.
Only(r) ==
  /\ mode' = mode
  /\ \A q \in Call : q # r =>
       /\ pc'[q] = pc[q] /\ job'[q] = job[q] /\ node'[q] = node[q] /\ slot'[q] = slot[q]
       /\ sent'[q] = sent[q] /\ ToldOf(q)' = ToldOf(q)
       /\ q \in event' <=> q \in event
       /\ q \in early' <=> q \in early
       /\ q \in elapsed' <=> q \in elapsed

LEMMA OneCallStep ==
  ASSUME InboundInv, NEW r \in Call, Only(r), TypesOK', RowOK', CallOK(r)',
         \/ row' = row
         \/ /\ row'.by \in {r, NoCall} /\ row'.job \in {r, NoCall}
            /\ row.by = r \/ ~row.live
  PROVE  InboundInv'
<1>1. ASSUME NEW q \in Call, q # r PROVE CallOK(q)'
  <2>1. /\ pc'[q] = pc[q] /\ job'[q] = job[q] /\ node'[q] = node[q] /\ slot'[q] = slot[q]
        /\ sent'[q] = sent[q] /\ ToldOf(q)' = ToldOf(q) /\ mode' = mode
        /\ q \in event' <=> q \in event
        /\ q \in early' <=> q \in early
        /\ q \in elapsed' <=> q \in elapsed
    BY <1>1 DEF Only
  <2>2. CallOK(q) /\ q # NoCall
    BY InboundAssumption DEF InboundInv
  <2>3. MintOK(q)'
    BY <2>1, <2>2 DEF CallOK, MintOK
  <2>4. SlotOK(q)'
    BY <2>1, <2>2 DEF CallOK, SlotOK
  <2>5. CASE row' = row
    BY <2>1, <2>2, <2>3, <2>4, <2>5 DEF CallOK, WindowOK, AnswerOK, SentOK, Unattached
  <2>6. CASE row'.by # q /\ row'.job # q /\ (row.by # q \/ ~row.live)
    BY <2>1, <2>2, <2>3, <2>4, <2>6 DEF CallOK, WindowOK, AnswerOK, SentOK
  <2>7. QED
    BY <1>1, <2>2, <2>5, <2>6
<1>2. QED
  BY <1>1 DEF InboundInv

\* What a handler that moves leaves unchanged.
LEMMA HandlerMoves ==
  ASSUME TypesOK, NEW r \in Call, NEW where \in Place, Goto(r, where)
  PROVE  /\ pc' \in [Call -> Place] /\ pc'[r] = where
         /\ \A q \in Call : q # r => pc'[q] = pc[q]
BY DEF TypesOK, Goto

LEMMA Bodies ==
  /\ NoBody \in Body /\ \A r \in Call : NoBody[1] # r
  /\ \A r \in Call : \A n \in 0..MaxResponds : <<r, n>> \in Body
  /\ Fresh \in Nodes /\ NoRow \in RowStates
  /\ NoRow.by = NoCall /\ NoRow.job = NoCall /\ NoRow.live = FALSE /\ NoRow.state = "none"
BY InboundAssumption DEF NoBody, Body, Fresh, Nodes, NoRow, RowStates
-----------------------------------------------------------------------------
(* Handlers *)

\* A step in which nothing but the place of one handler changes.
LEMMA MoveStep ==
  ASSUME InboundInv, NEW r \in Call, NEW where \in Place, Goto(r, where),
         UNCHANGED <<mode, slot, sent, row, elapsed, job, node, told, early>>,
         event' \subseteq Call, raced' \subseteq Call,
         event \subseteq event', \A q \in Call : q # r => (q \in event' <=> q \in event),
         where \in {"new", "admit"} => row.by # r,
         CallOK(r)'
  PROVE  InboundInv'
<1>1. TypesOK /\ RowOK
  BY DEF InboundInv
<1>2. pc' \in [Call -> Place] /\ pc'[r] = where /\ \A q \in Call : q # r => pc'[q] = pc[q]
  BY <1>1, HandlerMoves
<1>3. TypesOK'
  BY <1>1, <1>2 DEF TypesOK
<1>4. Only(r)
  BY <1>2 DEF Only, ToldOf
<1>5. RowOK'
  <2>1. CASE row = NoRow
    BY <2>1 DEF RowOK
  <2>2. CASE row # NoRow
    <3>1. row.by \in event /\ row.by \in Call /\ pc[row.by] \notin {"new", "admit"}
      BY <1>1, <2>2 DEF RowOK, TypesOK
    <3>2. pc'[row.by] \notin {"new", "admit"}
      BY <1>2, <3>1
    <3>3. QED
      BY <1>1, <2>2, <3>1, <3>2 DEF RowOK
  <2>3. QED
    BY <2>1, <2>2
<1>6. QED
  BY <1>3, <1>4, <1>5, OneCallStep

LEMMA ReceiveStep ==
  ASSUME InboundInv, NEW r \in Call, NEW hasEvent \in BOOLEAN, Receive(r, hasEvent)
  PROVE  InboundInv'
<1>1. TypesOK /\ CallOK(r) /\ RowOK /\ pc[r] = "new" /\ r \notin event
  BY DEF InboundInv, Receive, CallOK, MintOK
<1>2. UNCHANGED <<mode, raced, slot, sent, row, elapsed, job, node, told, early>>
  BY DEF Receive, rows, runs
<1>3. PICK where \in {"admit", "count"} :
        /\ Goto(r, where)
        /\ event' = IF where = "admit" THEN event \cup {r} ELSE event
  BY DEF Receive
<1>4. where \in Place /\ row.by # r /\ row.job # r
  BY <1>1, <1>3, InboundAssumption DEF Place, RowOK, NoRow
<1>5. pc'[r] = where
  BY <1>1, <1>3, <1>4, HandlerMoves
<1>6. MintOK(r)' /\ WindowOK(r)' /\ AnswerOK(r)' /\ SlotOK(r)' /\ SentOK(r)'
  <2>1. MintOK(r) /\ WindowOK(r) /\ AnswerOK(r) /\ SlotOK(r)
    BY <1>1 DEF CallOK
  <2>2. MintOK(r)'
    BY <1>1, <1>2, <1>3, <1>5, <2>1 DEF MintOK
  <2>3. WindowOK(r)'
    BY <1>1, <1>2, <1>3, <1>5, <2>1 DEF WindowOK, MintOK, Admitted, Attached
  <2>4. AnswerOK(r)' /\ SentOK(r)'
    BY <1>1, <1>2, <1>3, <1>4, <1>5 DEF AnswerOK, SentOK
  <2>5. SlotOK(r)'
    BY <1>1, <1>2, <1>3, <1>5, <2>1 DEF SlotOK, ToldOf, MintOK
  <2>6. QED
    BY <2>2, <2>3, <2>4, <2>5
<1>7. CallOK(r)'
  BY <1>6 DEF CallOK
<1>8. QED
  BY <1>1, <1>2, <1>3, <1>4, <1>7, MoveStep DEF TypesOK

LEMMA CountStep ==
  ASSUME InboundInv, NEW r \in Call, CountUnfinished(r)
  PROVE  InboundInv'
<1>1. TypesOK /\ CallOK(r) /\ pc[r] = "count"
  BY DEF InboundInv, CountUnfinished
<1>2. UNCHANGED <<mode, event, raced, slot, sent, row, elapsed, job, node, told, early>>
  BY DEF CountUnfinished, rows, runs
<1>3. PICK where \in {"mint", "abandon", "refused"} :
        /\ Goto(r, where)
        /\ where = "abandon" => r \in event
        /\ where = "refused" => r \notin event
  BY DEF CountUnfinished, GiveUp
<1>4. where \in Place
  BY DEF Place, Ended
<1>5. pc'[r] = where
  BY <1>1, <1>3, <1>4, HandlerMoves
<1>6. MintOK(r)' /\ WindowOK(r)'
  BY <1>1, <1>2, <1>3, <1>5 DEF CallOK, MintOK, WindowOK, Admitted, Attached, Unattached
<1>7. AnswerOK(r)' /\ SentOK(r)'
  BY <1>1, <1>2, <1>3, <1>5 DEF CallOK, AnswerOK, SentOK
<1>8. SlotOK(r)'
  BY <1>1, <1>2, <1>3, <1>5 DEF CallOK, SlotOK, ToldOf
<1>9. CallOK(r)'
  BY <1>6, <1>7, <1>8 DEF CallOK
<1>10. QED
  BY <1>1, <1>2, <1>3, <1>4, <1>9, MoveStep DEF TypesOK

\* The steps after which a handler waits, closes, falls back, or is dead.
LEMMA WaitingStep ==
  ASSUME InboundInv, NEW r \in Call, NEW where \in {"wait", "close", "fallback", "refused", "dead"},
         Goto(r, where),
         UNCHANGED <<mode, event, raced, slot, sent, row, elapsed, job, node, told, early>>,
         where = "wait" => pc[r] = "dispatch" /\ mode = "respond" /\ slot[r].state # "none",
         where = "close" => pc[r] = "wait",
         where = "fallback" => pc[r] = "reread" /\ slot[r].state # "answered"
  PROVE  InboundInv'
<1>1. TypesOK /\ CallOK(r)
  BY DEF InboundInv
<1>2. where \in Place
  BY DEF Place, Ended
<1>3. pc'[r] = where
  BY <1>1, <1>2, HandlerMoves
<1>4. MintOK(r)' /\ WindowOK(r)'
  BY <1>1, <1>3 DEF CallOK, MintOK, WindowOK, Admitted, Attached
<1>5. AnswerOK(r)' /\ SentOK(r)'
  BY <1>1, <1>3 DEF CallOK, AnswerOK, SentOK
<1>6. SlotOK(r)'
  BY <1>1, <1>3 DEF CallOK, SlotOK, ToldOf, MintOK
<1>7. CallOK(r)'
  BY <1>4, <1>5, <1>6 DEF CallOK
<1>8. QED
  BY <1>1, <1>2, <1>7, MoveStep DEF TypesOK

\* A step that answers the client.
LEMMA SendStep ==
  ASSUME InboundInv, NEW r \in Call, NEW b \in Body, Send(r, b),
         UNCHANGED <<mode, event, raced, slot, row, elapsed, job, node, told, early>>,
         \/ pc[r] = "admit" /\ b[1] # r
         \/ pc[r] = "dispatch" /\ mode = "immediate" /\ b = <<r, 0>>
         \/ pc[r] \in {"wait", "reread"} /\ slot[r].state = "answered" /\ b = slot[r].body
  PROVE  InboundInv'
<1>1. TypesOK /\ CallOK(r) /\ RowOK
  BY DEF InboundInv
<1>2. Goto(r, "answered") /\ sent' = [sent EXCEPT ![r] = b] /\ "answered" \in Place
  BY DEF Send, Place, Ended
<1>3. pc' \in [Call -> Place] /\ pc'[r] = "answered" /\ \A q \in Call : q # r => pc'[q] = pc[q]
  BY <1>1, <1>2, HandlerMoves
<1>4. sent' \in [Call -> Body] /\ sent'[r] = b /\ \A q \in Call : q # r => sent'[q] = sent[q]
  BY <1>1, <1>2 DEF TypesOK
<1>5. TypesOK' /\ Only(r)
  BY <1>1, <1>3, <1>4 DEF TypesOK, Only, ToldOf
<1>6. pc[r] = "admit" => row.by # r /\ row.job # r
  BY <1>1, InboundAssumption DEF RowOK, NoRow
<1>7. RowOK'
  <2>1. CASE row = NoRow
    BY <2>1 DEF RowOK
  <2>2. CASE row # NoRow
    <3>1. row.by \in event /\ row.by \in Call /\ pc[row.by] \notin {"new", "admit"}
      BY <1>1, <2>2 DEF RowOK, TypesOK
    <3>2. pc'[row.by] \notin {"new", "admit"}
      BY <1>3, <3>1
    <3>3. QED
      BY <1>1, <2>2, <3>1, <3>2 DEF RowOK
  <2>3. QED
    BY <2>1, <2>2
<1>8. MintOK(r)' /\ WindowOK(r)'
  BY <1>1, <1>3, <1>6 DEF CallOK, MintOK, WindowOK, Admitted, Attached
<1>9. SlotOK(r)'
  BY <1>1, <1>3 DEF CallOK, SlotOK, ToldOf
<1>10. AnswerOK(r)'
  BY <1>1, <1>3, <1>6 DEF CallOK, AnswerOK, MintOK, SlotOK
<1>11. SentOK(r)'
  <2>1. CASE pc[r] = "admit" /\ b[1] # r
    BY <1>3, <1>4, <1>6, <2>1 DEF SentOK
  <2>2. CASE pc[r] = "dispatch" /\ mode = "immediate" /\ b = <<r, 0>>
    BY <1>3, <1>4, <2>2 DEF SentOK
  <2>3. CASE pc[r] \in {"wait", "reread"} /\ slot[r].state = "answered" /\ b = slot[r].body
    BY <1>1, <1>3, <1>4, <2>3 DEF SentOK, CallOK, MintOK, SlotOK
  <2>4. QED
    BY <2>1, <2>2, <2>3
<1>12. CallOK(r)'
  BY <1>8, <1>9, <1>10, <1>11 DEF CallOK
<1>13. QED
  BY <1>5, <1>7, <1>12, OneCallStep

LEMMA MintStep ==
  ASSUME InboundInv, NEW r \in Call, Mint(r)
  PROVE  InboundInv'
<1>1. TypesOK /\ CallOK(r) /\ RowOK /\ pc[r] = "mint" /\ job[r] = "none"
  BY DEF InboundInv, Mint, CallOK, MintOK
<1>2. UNCHANGED <<mode, event, slot, sent, row, elapsed, node, told, early>>
  BY DEF Mint, rows
<1>3. PICK made \in {"none", "orphan", "queued"}, where \in Place :
        /\ Goto(r, where) /\ job' = [job EXCEPT ![r] = made]
        /\ made = "queued" =>
             where = IF r \in event THEN "attach" ELSE IF mode = "respond" THEN "open" ELSE "dispatch"
        /\ made # "queued" => where = IF r \in event THEN "abandon" ELSE "refused"
  BY DEF Mint, GiveUp, AfterAttach, Place, Ended
<1>4. pc' \in [Call -> Place] /\ pc'[r] = where /\ \A q \in Call : q # r => pc'[q] = pc[q]
  BY <1>1, <1>3, HandlerMoves
<1>5. job' \in [Call -> JobState] /\ job'[r] = made /\ \A q \in Call : q # r => job'[q] = job[q]
  BY <1>1, <1>3 DEF TypesOK, JobState
<1>6. TypesOK' /\ Only(r)
  <2>1. raced' \subseteq Call
    BY <1>1 DEF Mint, TypesOK
  <2>2. QED
    BY <1>1, <1>2, <1>4, <1>5, <2>1 DEF TypesOK, Only, ToldOf
<1>7. RowOK'
  <2>1. CASE row = NoRow
    BY <1>2, <2>1 DEF RowOK, NoRow
  <2>2. CASE row # NoRow
    <3>1. row.by \in event /\ row.by \in Call /\ pc[row.by] \notin {"new", "admit"}
      BY <1>1, <2>2 DEF RowOK, TypesOK
    <3>2. pc'[row.by] \notin {"new", "admit"}
      BY <1>3, <1>4, <3>1
    <3>3. QED
      BY <1>1, <1>2, <2>2, <3>1, <3>2 DEF RowOK
  <2>3. QED
    BY <2>1, <2>2
<1>8. r \notin event => row.by # r /\ row.job # r
  BY <1>1, InboundAssumption DEF RowOK, NoRow
<1>9. MintOK(r)'
  BY <1>1, <1>2, <1>3, <1>4, <1>5 DEF CallOK, MintOK
<1>10. WindowOK(r)'
  BY <1>1, <1>2, <1>3, <1>4, <1>5, <1>8 DEF CallOK, WindowOK, Admitted, Attached, Unattached
<1>11. AnswerOK(r)' /\ SentOK(r)'
  BY <1>1, <1>2, <1>3, <1>4, <1>5, <1>8 DEF CallOK, AnswerOK, SentOK, MintOK
<1>12. SlotOK(r)'
  BY <1>1, <1>2, <1>3, <1>4 DEF CallOK, SlotOK, ToldOf
<1>13. CallOK(r)'
  BY <1>9, <1>10, <1>11, <1>12 DEF CallOK
<1>14. QED
  BY <1>2, <1>6, <1>7, <1>13, OneCallStep

\* The row is of the same call when nothing but places change.
LEMMA RowKept ==
  ASSUME TypesOK, RowOK, NEW r \in Call, UNCHANGED <<row, event>>,
         \A q \in Call : q # r => pc'[q] = pc[q],
         pc'[r] \notin {"new", "admit"} \/ pc'[r] = pc[r]
  PROVE  RowOK'
<1>1. CASE row = NoRow
  BY <1>1 DEF RowOK
<1>2. CASE row # NoRow
  <2>1. row.by \in event /\ row.by \in Call /\ pc[row.by] \notin {"new", "admit"}
    BY <1>2 DEF RowOK, TypesOK
  <2>2. pc'[row.by] \notin {"new", "admit"}
    BY <2>1
  <2>3. QED
    BY <1>2, <2>1, <2>2 DEF RowOK
<1>3. QED
  BY <1>1, <1>2

LEMMA AdmitStep ==
  ASSUME InboundInv, NEW r \in Call, Admit(r)
  PROVE  InboundInv'
<1>1. TypesOK /\ CallOK(r) /\ RowOK /\ pc[r] = "admit" /\ r \in event /\ job[r] = "none"
  BY DEF InboundInv, Admit, CallOK, MintOK
<1>2. UNCHANGED <<mode, event, raced, slot, elapsed, job, node, told, early>>
  BY DEF Admit, runs
<1>3. row.by # r
  BY <1>1, InboundAssumption DEF RowOK, NoRow
<1>4. CASE ~row.live /\ row' = Reserved(r) /\ Goto(r, "count") /\ UNCHANGED sent
  <2>1. "count" \in Place
    BY DEF Place
  <2>2. pc' \in [Call -> Place] /\ pc'[r] = "count" /\ \A q \in Call : q # r => pc'[q] = pc[q]
    BY <1>1, <1>4, <2>1, HandlerMoves
  <2>3. /\ row'.by = r /\ row'.job = NoCall /\ row'.live /\ row'.state = "in_flight"
        /\ row' \in RowStates
    BY <1>4, Bodies DEF Reserved, RowStates
  <2>4. TypesOK' /\ Only(r)
    BY <1>1, <1>2, <1>4, <2>2, <2>3 DEF TypesOK, Only, ToldOf
  <2>5. RowOK'
    BY <1>1, <1>2, <2>2, <2>3 DEF RowOK
  <2>6. MintOK(r)' /\ WindowOK(r)'
    BY <1>1, <1>2, <2>2, <2>3 DEF CallOK, MintOK, WindowOK, Admitted, Attached, Unattached
  <2>7. AnswerOK(r)' /\ SentOK(r)'
    BY <2>2, <2>3, InboundAssumption DEF AnswerOK, SentOK
  <2>8. SlotOK(r)'
    BY <1>1, <1>2, <2>2 DEF CallOK, SlotOK, ToldOf
  <2>9. CallOK(r)'
    BY <2>6, <2>7, <2>8 DEF CallOK
  <2>10. QED
    BY <1>4, <2>3, <2>4, <2>5, <2>9, OneCallStep
<1>5. CASE row.state = "answered" /\ Send(r, row.body) /\ UNCHANGED row
  <2>1. row.body \in Body /\ row.body[1] # r
    BY <1>1, <1>3, <1>5 DEF TypesOK, RowStates, RowOK, NoRow
  <2>2. QED
    BY <1>1, <1>2, <1>5, <2>1, SendStep
<1>6. CASE Goto(r, "refused") /\ UNCHANGED <<row, sent>>
  BY <1>1, <1>2, <1>6, WaitingStep
<1>7. QED
  BY <1>4, <1>5, <1>6 DEF Admit, Reservable

LEMMA AbandonStep ==
  ASSUME InboundInv, NEW r \in Call, Abandon(r)
  PROVE  InboundInv'
<1>1. TypesOK /\ CallOK(r) /\ RowOK /\ pc[r] = "abandon" /\ r \in event
  BY DEF InboundInv, Abandon, CallOK, MintOK
<1>2. UNCHANGED <<mode, event, raced, slot, sent, elapsed, job, node, told, early>>
  BY DEF Abandon, runs
<1>3. row.by = r /\ row' = NoRow
  BY <1>1 DEF Abandon, CallOK, WindowOK, Admitted
<1>4. Goto(r, "refused") /\ "refused" \in Place
  BY DEF Abandon, Place, Ended
<1>5. pc' \in [Call -> Place] /\ pc'[r] = "refused" /\ \A q \in Call : q # r => pc'[q] = pc[q]
  BY <1>1, <1>4, HandlerMoves
<1>6. TypesOK' /\ Only(r) /\ RowOK'
  BY <1>1, <1>2, <1>3, <1>5, Bodies DEF TypesOK, Only, ToldOf, RowOK
<1>7. row'.by = NoCall /\ row'.job = NoCall /\ NoCall # r
  BY <1>3, Bodies, InboundAssumption
<1>8. MintOK(r)' /\ WindowOK(r)'
  BY <1>1, <1>2, <1>5, <1>7 DEF CallOK, MintOK, WindowOK, Admitted, Attached
<1>9. AnswerOK(r)' /\ SentOK(r)'
  BY <1>5, <1>7 DEF AnswerOK, SentOK
<1>10. SlotOK(r)'
  BY <1>1, <1>2, <1>5 DEF CallOK, SlotOK, ToldOf
<1>11. CallOK(r)'
  BY <1>8, <1>9, <1>10 DEF CallOK
<1>12. QED
  BY <1>3, <1>6, <1>7, <1>11, OneCallStep

LEMMA AttachStep ==
  ASSUME InboundInv, NEW r \in Call, AttachJob(r)
  PROVE  InboundInv'
<1>1. TypesOK /\ CallOK(r) /\ RowOK /\ pc[r] = "attach" /\ r \in event
  BY DEF InboundInv, AttachJob, CallOK, MintOK
<1>2. UNCHANGED <<mode, event, raced, slot, sent, elapsed, job, node, told, early>>
  BY DEF AttachJob, runs
<1>3. row.by = r /\ row.live /\ Unattached /\ row' = [row EXCEPT !.job = r]
  BY <1>1 DEF AttachJob, CallOK, WindowOK, Admitted
<1>4. /\ row'.by = r /\ row'.job = r /\ row'.live /\ row'.state = "in_flight"
      /\ row' \in RowStates
  BY <1>1, <1>3 DEF TypesOK, RowStates, Unattached
<1>5. PICK where \in Place : /\ Goto(r, where)
                             /\ where = IF mode = "respond" THEN "open" ELSE "answer"
  BY <1>1 DEF AttachJob, AfterAttach, Place
<1>6. pc' \in [Call -> Place] /\ pc'[r] = where /\ \A q \in Call : q # r => pc'[q] = pc[q]
  BY <1>1, <1>5, HandlerMoves
<1>7. TypesOK' /\ Only(r)
  BY <1>1, <1>2, <1>4, <1>6 DEF TypesOK, Only, ToldOf
<1>8. RowOK'
  BY <1>1, <1>2, <1>4, <1>5, <1>6 DEF RowOK
<1>9. mode = "immediate" \/ mode = "respond"
  BY <1>1 DEF TypesOK
<1>10. MintOK(r)' /\ WindowOK(r)'
  BY <1>1, <1>2, <1>4, <1>5, <1>6, <1>9 DEF CallOK, MintOK, WindowOK, Admitted, Attached
<1>11. AnswerOK(r)'
  BY <1>1, <1>2, <1>4, <1>5, <1>6 DEF CallOK, AnswerOK, MintOK
<1>12. SlotOK(r)' /\ SentOK(r)'
  BY <1>1, <1>2, <1>5, <1>6 DEF CallOK, SlotOK, ToldOf, SentOK
<1>13. CallOK(r)'
  BY <1>10, <1>11, <1>12 DEF CallOK
<1>14. QED
  BY <1>3, <1>4, <1>7, <1>8, <1>13, OneCallStep

\* What a stored answer leaves of the row.
LEMMA StoredAnswer ==
  ASSUME TypesOK, RowOK, NEW r \in Call, NEW b \in Body, b[1] = r, row' = Answered(r, b)
  PROVE  /\ row' \in RowStates
         /\ IF row.state = "in_flight" /\ row.job = r
            THEN /\ row.by = r /\ row'.by = r /\ row'.job = r /\ row'.live = row.live
                 /\ row'.state = "answered" /\ row'.body = b
            ELSE row' = row
<1>1. row \in RowStates
  BY DEF TypesOK
<1>2. CASE row.state = "in_flight" /\ row.job = r
  <2>1. row' = [row EXCEPT !.state = "answered", !.body = b]
    BY <1>2 DEF Answered, TakesAnswer
  <2>2. /\ row' \in RowStates /\ row'.by = row.by /\ row'.job = r /\ row'.live = row.live
        /\ row'.state = "answered" /\ row'.body = b
    BY <1>1, <1>2, <2>1 DEF RowStates
  <2>3. row.by = r
    BY <1>2, InboundAssumption DEF RowOK, NoRow
  <2>4. QED
    BY <1>2, <2>2, <2>3
<1>3. CASE ~(row.state = "in_flight" /\ row.job = r)
  BY <1>1, <1>3 DEF Answered, TakesAnswer
<1>4. QED
  BY <1>2, <1>3

LEMMA AnswerStep ==
  ASSUME InboundInv, NEW r \in Call, AnswerAtOnce(r)
  PROVE  InboundInv'
<1>1. /\ TypesOK /\ CallOK(r) /\ RowOK /\ pc[r] = "answer" /\ r \in event /\ mode = "immediate"
  BY DEF InboundInv, AnswerAtOnce, CallOK, MintOK
<1>2. UNCHANGED <<mode, event, raced, slot, sent, elapsed, job, node, told, early>>
  BY DEF AnswerAtOnce, runs
<1>3. <<r, 0>> \in Body /\ <<r, 0>>[1] = r
  BY Bodies, InboundAssumption
<1>4. /\ row' \in RowStates
      /\ IF row.state = "in_flight" /\ row.job = r
         THEN /\ row.by = r /\ row'.by = r /\ row'.job = r /\ row'.live = row.live
              /\ row'.state = "answered" /\ row'.body = <<r, 0>>
         ELSE row' = row
  BY <1>1, <1>3, StoredAnswer DEF AnswerAtOnce
<1>5. Goto(r, "dispatch") /\ "dispatch" \in Place
  BY DEF AnswerAtOnce, Place
<1>6. pc' \in [Call -> Place] /\ pc'[r] = "dispatch" /\ \A q \in Call : q # r => pc'[q] = pc[q]
  BY <1>1, <1>5, HandlerMoves
<1>7. TypesOK' /\ Only(r)
  BY <1>1, <1>2, <1>4, <1>6 DEF TypesOK, Only, ToldOf
<1>8. RowOK'
  <2>1. CASE row' = row
    BY <1>1, <1>2, <1>6, <2>1, RowKept
  <2>2. CASE row'.by = r /\ row'.job = r /\ row'.state = "answered" /\ row'.body = <<r, 0>>
    BY <1>1, <1>2, <1>6, <2>2 DEF RowOK
  <2>3. QED
    BY <1>4, <2>1, <2>2
<1>9. MintOK(r)' /\ WindowOK(r)'
  <2>1. row'.by = row.by /\ row'.live = row.live /\ (row'.job = row.job \/ row'.job = r)
    BY <1>4
  <2>2. MintOK(r)'
    BY <1>1, <1>2, <1>6 DEF CallOK, MintOK
  <2>3. WindowOK(r)'
    BY <1>1, <1>2, <1>6, <2>1 DEF CallOK, WindowOK, Admitted, Attached
  <2>4. QED
    BY <2>2, <2>3
<1>10. AnswerOK(r)'
  BY <1>1, <1>2, <1>4, <1>6 DEF CallOK, AnswerOK
<1>11. SlotOK(r)' /\ SentOK(r)'
  BY <1>1, <1>2, <1>6 DEF CallOK, SlotOK, ToldOf, SentOK
<1>12. CallOK(r)'
  BY <1>9, <1>10, <1>11 DEF CallOK
<1>13. QED
  BY <1>4, <1>7, <1>8, <1>12, OneCallStep

\* A step of the slot of r, by its handler or the timer.
LEMMA SlotStep ==
  ASSUME InboundInv, NEW r \in Call, NEW where \in Place, NEW new \in SlotStates,
         pc' = [pc EXCEPT ![r] = where], slot' = [slot EXCEPT ![r] = new],
         new.body = slot[r].body,
         new.state = "answered" <=> slot[r].state = "answered",
         UNCHANGED <<mode, event, raced, sent, row, elapsed, job, node, told, early>>,
         \/ pc[r] = "open" /\ where = "dispatch" /\ new.state = "open"
         \/ pc[r] = "close" /\ where = "reread" /\ new.state \in {"closed", "answered"}
         \/ slot[r].state = "open" /\ where = pc[r] /\ new.state = "closed"
  PROVE  InboundInv'
<1>1. TypesOK /\ CallOK(r) /\ RowOK
  BY DEF InboundInv
<1>2. pc' \in [Call -> Place] /\ pc'[r] = where /\ \A q \in Call : q # r => pc'[q] = pc[q]
  BY <1>1 DEF TypesOK
<1>3. slot' \in [Call -> SlotStates] /\ slot'[r] = new /\ \A q \in Call : q # r => slot'[q] = slot[q]
  BY <1>1 DEF TypesOK
<1>4. TypesOK' /\ Only(r)
  BY <1>1, <1>2, <1>3 DEF TypesOK, Only, ToldOf
<1>5. RowOK'
  BY <1>1, <1>2, RowKept
<1>6. MintOK(r)' /\ WindowOK(r)'
  BY <1>1, <1>2 DEF CallOK, MintOK, WindowOK, Admitted, Attached, Unattached
<1>7. AnswerOK(r)'
  BY <1>1, <1>2 DEF CallOK, AnswerOK, MintOK
<1>8. SentOK(r)'
  BY <1>1, <1>2, <1>3 DEF CallOK, SentOK
<1>9. SlotOK(r)'
  <2>1. pc[r] = "open" /\ r \in event \ early => node[r] = Fresh
    BY <1>1 DEF CallOK, AnswerOK, MintOK
  <2>2. pc[r] \in {"open", "close"} => mode = "respond"
    BY <1>1 DEF CallOK, MintOK
  <2>3. ToldOf(r)' = ToldOf(r)
    BY DEF ToldOf
  <2>4. QED
    BY <1>1, <1>2, <1>3, <2>1, <2>2, <2>3 DEF CallOK, SlotOK
<1>10. CallOK(r)'
  BY <1>6, <1>7, <1>8, <1>9 DEF CallOK
<1>11. QED
  BY <1>4, <1>5, <1>10, OneCallStep

LEMMA OpenStep ==
  ASSUME InboundInv, NEW r \in Call, OpenSlot(r)
  PROVE  InboundInv'
<1>1. TypesOK /\ CallOK(r) /\ pc[r] = "open" /\ slot[r] \in SlotStates /\ slot[r].state = "none"
  BY DEF InboundInv, OpenSlot, CallOK, SlotOK, TypesOK
<1>2. PICK new \in SlotStates : new = [slot[r] EXCEPT !.state = "open"]
  BY <1>1 DEF SlotStates
<1>3. /\ slot' = [slot EXCEPT ![r] = new] /\ pc' = [pc EXCEPT ![r] = "dispatch"]
      /\ UNCHANGED <<mode, event, raced, sent, row, elapsed, job, node, told, early>>
  BY <1>2 DEF OpenSlot, Goto, rows, runs
<1>4. new.state = "open" /\ new.body = slot[r].body /\ "dispatch" \in Place
  BY <1>1, <1>2 DEF SlotStates, Place
<1>5. QED
  BY <1>1, <1>3, <1>4, SlotStep

LEMMA CloseStep ==
  ASSUME InboundInv, NEW r \in Call, CloseSlot(r)
  PROVE  InboundInv'
<1>1. /\ TypesOK /\ CallOK(r) /\ pc[r] = "close" /\ slot[r] \in SlotStates
      /\ slot[r].state \in {"open", "closed", "answered"}
  BY DEF InboundInv, CloseSlot, CallOK, SlotOK, MintOK, TypesOK, SlotStates
<1>2. PICK new \in SlotStates : new = Closed(r)
  BY <1>1 DEF SlotStates, Closed
<1>3. /\ slot' = [slot EXCEPT ![r] = new] /\ pc' = [pc EXCEPT ![r] = "reread"]
      /\ UNCHANGED <<mode, event, raced, sent, row, elapsed, job, node, told, early>>
  BY <1>2 DEF CloseSlot, Goto, rows, runs
<1>4. /\ new.state \in {"closed", "answered"} /\ new.body = slot[r].body /\ "reread" \in Place
      /\ new.state = "answered" <=> slot[r].state = "answered"
  BY <1>1, <1>2 DEF SlotStates, Closed, Place
<1>5. QED
  BY <1>1, <1>3, <1>4, SlotStep

LEMMA TimerStep ==
  ASSUME InboundInv, NEW r \in Call, TimerCloses(r)
  PROVE  InboundInv'
<1>1. TypesOK /\ slot[r] \in SlotStates /\ slot[r].state = "open" /\ pc[r] \in Place
  BY DEF InboundInv, TimerCloses, TypesOK
<1>2. PICK new \in SlotStates : new = [slot[r] EXCEPT !.state = "closed"]
  BY <1>1 DEF SlotStates
<1>3. /\ slot' = [slot EXCEPT ![r] = new] /\ pc' = [pc EXCEPT ![r] = pc[r]]
      /\ UNCHANGED <<mode, event, raced, sent, row, elapsed, job, node, told, early>>
  BY <1>1, <1>2 DEF TimerCloses, rows, runs, TypesOK
<1>4. new.state = "closed" /\ new.body = slot[r].body
  BY <1>1, <1>2 DEF SlotStates
<1>5. QED
  BY <1>1, <1>3, <1>4, SlotStep

LEMMA DispatchStep ==
  ASSUME InboundInv, NEW r \in Call, DispatchRun(r)
  PROVE  InboundInv'
<1>1. TypesOK /\ CallOK(r) /\ pc[r] = "dispatch"
  BY DEF InboundInv, DispatchRun
<1>2. UNCHANGED <<mode, event, raced, slot, row, elapsed, job, node, told, early>>
  BY DEF DispatchRun, rows, runs
<1>3. CASE mode = "immediate" /\ Send(r, <<r, 0>>)
  <2>1. <<r, 0>> \in Body
    BY Bodies, InboundAssumption
  <2>2. QED
    BY <1>1, <1>2, <1>3, <2>1, SendStep
<1>4. CASE mode # "immediate" /\ Goto(r, "wait") /\ UNCHANGED sent
  <2>1. mode = "respond" /\ slot[r].state # "none"
    BY <1>1, <1>4 DEF TypesOK, CallOK, SlotOK
  <2>2. QED
    BY <1>1, <1>2, <1>4, <2>1, WaitingStep
<1>5. QED
  BY <1>3, <1>4 DEF DispatchRun

LEMMA WaitStep ==
  ASSUME InboundInv, NEW r \in Call, Wait(r)
  PROVE  InboundInv'
<1>1. TypesOK /\ pc[r] = "wait" /\ slot[r].body \in Body
  BY DEF InboundInv, Wait, TypesOK, SlotStates
<1>2. UNCHANGED <<mode, event, raced, slot, row, elapsed, job, node, told, early>>
  BY DEF Wait, rows, runs
<1>3. CASE slot[r].state = "answered"
  <2>1. Send(r, slot[r].body)
    BY <1>3 DEF Wait
  <2>2. QED
    BY <1>1, <1>2, <1>3, <2>1, SendStep
<1>4. CASE slot[r].state # "answered"
  <2>1. Goto(r, "close") /\ UNCHANGED sent
    BY <1>4 DEF Wait
  <2>2. QED
    BY <1>1, <1>2, <1>4, <2>1, WaitingStep
<1>5. QED
  BY <1>3, <1>4

LEMMA RereadStep ==
  ASSUME InboundInv, NEW r \in Call, Reread(r)
  PROVE  InboundInv'
<1>1. TypesOK /\ pc[r] = "reread" /\ slot[r].body \in Body
  BY DEF InboundInv, Reread, TypesOK, SlotStates
<1>2. UNCHANGED <<mode, event, raced, slot, row, elapsed, job, node, told, early>>
  BY DEF Reread, rows, runs
<1>3. CASE slot[r].state = "answered"
  <2>1. Send(r, slot[r].body)
    BY <1>3 DEF Reread
  <2>2. QED
    BY <1>1, <1>2, <1>3, <2>1, SendStep
<1>4. CASE slot[r].state # "answered"
  <2>1. Goto(r, "fallback") /\ UNCHANGED sent
    BY <1>4 DEF Reread
  <2>2. QED
    BY <1>1, <1>2, <1>4, <2>1, WaitingStep
<1>5. QED
  BY <1>3, <1>4

LEMMA DieStep ==
  ASSUME InboundInv, NEW r \in Call, HandlerDies(r)
  PROVE  InboundInv'
BY WaitingStep DEF HandlerDies, rows, runs

-----------------------------------------------------------------------------
(* Runs *)

\* A step of the Job of r that changes nothing else but history.
LEMMA JobStep ==
  ASSUME InboundInv, NEW r \in Call, NEW new \in {"running", "ended", "released"},
         job' = [job EXCEPT ![r] = new],
         UNCHANGED <<mode, pc, event, slot, sent, row, elapsed, node, told>>,
         raced' \subseteq Call,
         \/ /\ job[r] = "queued" /\ new = "running"
            /\ early' = IF r \in event /\ pc[r] \in {"attach", "answer", "open"}
                        THEN early \cup {r} ELSE early
         \/ job[r] = "orphan" /\ new = "released" /\ early' = early
         \/ job[r] = "running" /\ new = "ended" /\ early' = early
  PROVE  InboundInv'
<1>1. TypesOK /\ CallOK(r) /\ RowOK
  BY DEF InboundInv
<1>2. job' \in [Call -> JobState] /\ job'[r] = new /\ \A q \in Call : q # r => job'[q] = job[q]
  BY <1>1 DEF TypesOK, JobState
<1>3. early' \subseteq Call /\ (r \notin early' => r \notin early)
      /\ \A q \in Call : q # r => (q \in early' <=> q \in early)
  BY <1>1 DEF TypesOK
<1>4. TypesOK' /\ Only(r)
  BY <1>1, <1>2, <1>3 DEF TypesOK, Only, ToldOf
<1>5. RowOK'
  BY <1>1, RowKept
<1>6. MintOK(r)'
  BY <1>1, <1>2 DEF CallOK, MintOK
<1>7. WindowOK(r)'
  BY <1>1, <1>2 DEF CallOK, WindowOK, Unattached
<1>8. SlotOK(r)'
  BY <1>1, <1>3 DEF CallOK, SlotOK, ToldOf
<1>9. SentOK(r)'
  BY <1>1 DEF CallOK, SentOK
<1>10. AnswerOK(r)'
  <2>1. r \in event \ early' /\ pc[r] \in {"attach", "answer", "open"} => FALSE
    BY <1>1, <1>3 DEF CallOK, AnswerOK, MintOK
  <2>2. QED
    BY <1>1, <1>3, <2>1 DEF CallOK, AnswerOK
<1>11. CallOK(r)'
  BY <1>6, <1>7, <1>8, <1>9, <1>10 DEF CallOK
<1>12. QED
  BY <1>4, <1>5, <1>11, OneCallStep

LEMMA RunStep ==
  ASSUME InboundInv, NEW r \in Call, StartRunOf(r) \/ CancelOrphan(r) \/ EndRun(r)
  PROVE  InboundInv'
<1>1. TypesOK
  BY DEF InboundInv
<1>2. CASE StartRunOf(r)
  <2>1. UNCHANGED <<mode, pc, event, raced, slot, sent, row, elapsed, node, told>>
    BY <1>2 DEF StartRunOf, rows
  <2>2. QED
    BY <1>1, <1>2, <2>1, JobStep DEF StartRunOf, TypesOK
<1>3. CASE CancelOrphan(r)
  <2>1. UNCHANGED <<mode, pc, event, raced, slot, sent, row, elapsed, node, told, early>>
    BY <1>3 DEF CancelOrphan, rows
  <2>2. QED
    BY <1>1, <1>3, <2>1, JobStep DEF CancelOrphan, TypesOK
<1>4. CASE EndRun(r)
  <2>1. UNCHANGED <<mode, pc, event, slot, sent, row, elapsed, node, told, early>>
    BY <1>4 DEF EndRun, rows
  <2>2. QED
    BY <1>1, <1>4, <2>1, JobStep DEF EndRun, TypesOK
<1>5. QED
  BY <1>2, <1>3, <1>4

LEMMA ClaimStep ==
  ASSUME InboundInv, NEW r \in Call, Claim(r)
  PROVE  InboundInv'
<1>1. /\ TypesOK /\ CallOK(r) /\ RowOK /\ node[r] \in Nodes /\ slot[r] \in SlotStates
  BY DEF InboundInv, TypesOK
<1>2. PICK n \in 1..MaxResponds :
        /\ n = node[r].done + 1 /\ ~node[r].owes /\ job[r] \in {"running", "ended"}
        /\ node' = [node EXCEPT ![r] = [done |-> n, owes |-> TRUE]]
        /\ IF slot[r].state = "open"
           THEN slot' = [slot EXCEPT ![r] = [state |-> "answered", body |-> <<r, n>>]]
                /\ told' = told \cup {<<r, n>>}
           ELSE UNCHANGED <<slot, told>>
  <2>1. node[r].done + 1 \in 1..MaxResponds
    BY <1>1, InboundAssumption DEF Claim, Nodes
  <2>2. QED
    BY <2>1 DEF Claim, Alive, CanClaim
<1>3. UNCHANGED <<mode, pc, event, raced, sent, row, elapsed, job, early>>
  BY DEF Claim, rows
<1>4. n \in 0..MaxResponds /\ [done |-> n, owes |-> TRUE] \in Nodes
  BY InboundAssumption DEF Nodes
<1>5. /\ node' \in [Call -> Nodes] /\ node'[r] = [done |-> n, owes |-> TRUE]
      /\ \A q \in Call : q # r => node'[q] = node[q]
  BY <1>1, <1>2, <1>4 DEF TypesOK
<1>6. /\ slot' \in [Call -> SlotStates] /\ told' \subseteq Call \X (1..MaxResponds)
      /\ \A q \in Call : q # r => slot'[q] = slot[q] /\ ToldOf(q)' = ToldOf(q)
      /\ IF slot[r].state = "open"
         THEN /\ slot'[r].state = "answered" /\ slot'[r].body = <<r, n>> /\ ToldOf(r)' = {n}
         ELSE slot'[r] = slot[r] /\ ToldOf(r)' = ToldOf(r)
  <2>1. CASE slot[r].state = "open"
    <3>1. [state |-> "answered", body |-> <<r, n>>] \in SlotStates
      BY <1>4, Bodies DEF SlotStates
    <3>2. /\ slot' \in [Call -> SlotStates]
          /\ slot'[r] = [state |-> "answered", body |-> <<r, n>>]
          /\ \A q \in Call : q # r => slot'[q] = slot[q]
      BY <1>1, <1>2, <2>1, <3>1 DEF TypesOK
    <3>3. told' = told \cup {<<r, n>>}
      BY <1>2, <2>1
    <3>4. ToldOf(r) = {}
      BY <1>1, <2>1 DEF CallOK, SlotOK
    <3>5. \A q \in Call : q # r => ToldOf(q)' = ToldOf(q)
      BY <3>3 DEF ToldOf
    <3>6. ToldOf(r)' = {n}
      BY <3>3, <3>4 DEF ToldOf
    <3>7. told' \subseteq Call \X (1..MaxResponds)
      BY <1>1, <3>3 DEF TypesOK
    <3>8. QED
      BY <2>1, <3>2, <3>5, <3>6, <3>7
  <2>2. CASE slot[r].state # "open"
    BY <1>1, <1>2, <2>2 DEF TypesOK, ToldOf
  <2>3. QED
    BY <2>1, <2>2
<1>7. TypesOK' /\ Only(r)
  BY <1>1, <1>3, <1>5, <1>6 DEF TypesOK, Only
<1>8. RowOK'
  BY <1>1, <1>3, RowKept
<1>9. MintOK(r)' /\ WindowOK(r)'
  BY <1>1, <1>2, <1>3 DEF CallOK, MintOK, WindowOK, Unattached
<1>10. node[r] = Fresh \/ node[r] = [done |-> 1, owes |-> TRUE] => n = 1
  BY <1>2 DEF Fresh
<1>11. AnswerOK(r)'
  BY <1>1, <1>2, <1>3, <1>5, <1>10 DEF CallOK, AnswerOK
<1>12. SlotOK(r)'
  <2>1. CASE slot[r].state = "open"
    BY <1>1, <1>3, <1>6, <1>10, <2>1 DEF CallOK, SlotOK
  <2>2. CASE slot[r].state # "open"
    BY <1>1, <1>3, <1>6, <2>2 DEF CallOK, SlotOK
  <2>3. QED
    BY <2>1, <2>2
<1>13. SentOK(r)'
  BY <1>1, <1>3, <1>6 DEF CallOK, SentOK
<1>14. CallOK(r)'
  BY <1>9, <1>11, <1>12, <1>13 DEF CallOK
<1>15. QED
  BY <1>3, <1>7, <1>8, <1>14, OneCallStep

LEMMA ReplayStep ==
  ASSUME InboundInv, NEW r \in Call, RememberReplay(r)
  PROVE  InboundInv'
<1>1. /\ TypesOK /\ CallOK(r) /\ RowOK /\ node[r] \in Nodes
      /\ job[r] \in {"running", "ended"} /\ node[r].owes
  BY DEF InboundInv, TypesOK, RememberReplay, Alive
<1>2. UNCHANGED <<mode, pc, event, raced, slot, sent, elapsed, job, told, early>>
  BY DEF RememberReplay
<1>3. PICK b \in Body : b = <<r, node[r].done>> /\ b[1] = r
  BY <1>1, Bodies DEF Nodes
<1>4. /\ row' \in RowStates
      /\ IF r \in event /\ row.state = "in_flight" /\ row.job = r
         THEN /\ row.by = r /\ row'.by = r /\ row'.job = r /\ row'.live = row.live
              /\ row'.state = "answered" /\ row'.body = b
         ELSE row' = row
  <2>1. CASE r \in event
    <3>1. row' = Answered(r, b)
      BY <1>3, <2>1 DEF RememberReplay
    <3>2. QED
      BY <1>1, <1>3, <2>1, <3>1, StoredAnswer
  <2>2. CASE r \notin event
    BY <1>1, <2>2 DEF RememberReplay, TypesOK
  <2>3. QED
    BY <2>1, <2>2
<1>5. r \notin event => row.job # r
  BY <1>1, InboundAssumption DEF RowOK, NoRow
<1>6. PICK new \in Nodes : new = [node[r] EXCEPT !.owes = FALSE]
  BY <1>1 DEF Nodes
<1>7. /\ node' \in [Call -> Nodes] /\ node'[r] = new /\ \A q \in Call : q # r => node'[q] = node[q]
  BY <1>1, <1>6 DEF RememberReplay, TypesOK
<1>8. TypesOK' /\ Only(r)
  BY <1>1, <1>2, <1>4, <1>7 DEF TypesOK, Only, ToldOf
<1>9. RowOK'
  <2>1. CASE row' = row
    BY <1>1, <1>2, <2>1, RowKept
  <2>2. CASE row' # row
    BY <1>1, <1>2, <1>3, <1>4, <2>2 DEF RowOK, NoRow
  <2>3. QED
    BY <2>1, <2>2
<1>10. row'.by = row.by /\ row'.live = row.live /\ row'.job = row.job
  BY <1>4
<1>11. MintOK(r)'
  BY <1>1, <1>2 DEF CallOK, MintOK
<1>12. WindowOK(r)'
  <2>1. pc[r] \in Admitted /\ r \in event => row' = row
    BY <1>1, <1>4, InboundAssumption DEF CallOK, WindowOK, Unattached
  <2>2. QED
    BY <1>1, <1>2, <1>10, <2>1 DEF CallOK, WindowOK, Unattached
<1>13. AnswerOK(r)'
  <2>1. r \in event \ early => pc[r] \notin {"attach", "answer", "open"}
    BY <1>1 DEF CallOK, AnswerOK
  <2>2. CASE row.job # r
    BY <1>2, <1>10, <2>1, <2>2 DEF AnswerOK
  <2>3. CASE row.job = r /\ r \in early
    BY <1>2, <2>3 DEF AnswerOK
  <2>4. CASE row.job = r /\ r \notin early /\ mode = "immediate"
    BY <1>1, <1>2, <1>4, <1>5, <2>1, <2>4 DEF CallOK, AnswerOK
  <2>5. CASE row.job = r /\ r \notin early /\ mode = "respond"
    <3>1. row.state \in {"in_flight", "answered"}
      BY <1>1, <2>5, InboundAssumption DEF RowOK, NoRow
    <3>2. CASE row.state = "answered"
      BY <1>1, <1>2, <1>4, <2>1, <2>5, <3>2 DEF CallOK, AnswerOK
    <3>3. CASE row.state = "in_flight"
      <4>1. node[r] = Fresh \/ node[r] = [done |-> 1, owes |-> TRUE]
        BY <1>1, <2>5, <3>3 DEF CallOK, AnswerOK
      <4>2. node[r].done = 1
        BY <1>1, <4>1 DEF Fresh
      <4>3. row'.state = "answered" /\ row'.body = <<r, 1>>
        BY <1>3, <1>4, <1>5, <2>5, <3>3, <4>2
      <4>4. QED
        BY <1>2, <2>1, <2>5, <4>3 DEF AnswerOK
    <3>4. QED
      BY <3>1, <3>2, <3>3
  <2>6. QED
    BY <1>1, <2>2, <2>3, <2>4, <2>5 DEF TypesOK
<1>14. SlotOK(r)'
  <2>1. node[r] # Fresh
    BY <1>1 DEF Fresh
  <2>2. ToldOf(r)' = ToldOf(r)
    BY <1>2 DEF ToldOf
  <2>3. QED
    BY <1>1, <1>2, <2>1, <2>2 DEF CallOK, SlotOK
<1>15. SentOK(r)'
  BY <1>1, <1>2, <1>10 DEF CallOK, SentOK
<1>16. CallOK(r)'
  BY <1>11, <1>12, <1>13, <1>14, <1>15 DEF CallOK
<1>17. QED
  BY <1>4, <1>8, <1>9, <1>16, OneCallStep

LEMMA ReleaseStep ==
  ASSUME InboundInv, NEW r \in Call, ReleaseUnanswered(r)
  PROVE  InboundInv'
<1>1. TypesOK /\ CallOK(r) /\ RowOK /\ job[r] = "ended"
  BY DEF InboundInv, ReleaseUnanswered
<1>2. UNCHANGED <<mode, pc, event, raced, slot, sent, elapsed, node, told, early>>
  BY DEF ReleaseUnanswered
<1>3. /\ job' \in [Call -> JobState] /\ job'[r] = "released"
      /\ \A q \in Call : q # r => job'[q] = job[q]
  BY <1>1 DEF ReleaseUnanswered, TypesOK, JobState
<1>4. row' = row \/ (row.by = r /\ row.job = r /\ row' = NoRow)
  BY <1>1, InboundAssumption DEF ReleaseUnanswered, RowOK, NoRow
<1>5. TypesOK' /\ Only(r)
  BY <1>1, <1>2, <1>3, <1>4, Bodies DEF TypesOK, Only, ToldOf
<1>6. RowOK'
  BY <1>1, <1>2, <1>4, RowKept DEF RowOK
<1>7. row' = row \/ (row'.by = NoCall /\ row'.job = NoCall /\ NoCall # r /\ row.by = r /\ row.job = r)
  BY <1>4, Bodies, InboundAssumption
<1>8. MintOK(r)'
  BY <1>1, <1>2, <1>3 DEF CallOK, MintOK
<1>9. SlotOK(r)'
  BY <1>1, <1>2 DEF CallOK, SlotOK, ToldOf
<1>10. WindowOK(r)' /\ SentOK(r)'
  BY <1>1, <1>2, <1>3, <1>7, InboundAssumption DEF CallOK, WindowOK, Unattached, SentOK
<1>11. AnswerOK(r)'
  <2>1. r \in event \ early => pc[r] \notin {"attach", "answer", "open"}
    BY <1>1 DEF CallOK, AnswerOK
  <2>2. QED
    BY <1>1, <1>2, <1>7, <2>1 DEF CallOK, AnswerOK
<1>12. CallOK(r)'
  BY <1>8, <1>9, <1>10, <1>11 DEF CallOK
<1>13. QED
  BY <1>5, <1>6, <1>7, <1>12, OneCallStep

\* The two steps of a window.
LEMMA ElapseStep ==
  ASSUME InboundInv, Elapse
  PROVE  InboundInv'
<1>1. TypesOK /\ RowOK /\ row.live
  BY DEF InboundInv, Elapse
<1>2. PICK r \in Call : r = row.by
  BY <1>1 DEF RowOK, NoRow, TypesOK
<1>3. CallOK(r) /\ pc[r] \notin Admitted
  BY <1>2 DEF InboundInv, Elapse, Holds, Admitted
<1>4. UNCHANGED <<mode, pc, event, raced, slot, sent, job, node, told, early>>
  BY DEF Elapse, runs
<1>5. /\ row' \in RowStates /\ row'.by = r /\ row'.job = row.job /\ ~row'.live
      /\ row'.state = row.state /\ row'.body = row.body
  BY <1>1, <1>2 DEF Elapse, TypesOK, RowStates
<1>6. /\ elapsed' \subseteq Call /\ (r \notin elapsed' => r \notin elapsed)
      /\ job[r] \in {"queued", "running"} => r \in elapsed'
      /\ \A q \in Call : q # r => (q \in elapsed' <=> q \in elapsed)
  BY <1>1, <1>2 DEF Elapse, TypesOK, Unfinished
<1>7. TypesOK' /\ Only(r)
  BY <1>1, <1>4, <1>5, <1>6 DEF TypesOK, Only, ToldOf
<1>8. RowOK'
  BY <1>1, <1>2, <1>4, <1>5 DEF RowOK, NoRow
<1>9. MintOK(r)' /\ SlotOK(r)'
  BY <1>3, <1>4 DEF CallOK, MintOK, SlotOK, ToldOf
<1>10. WindowOK(r)'
  BY <1>2, <1>3, <1>4, <1>5, <1>6 DEF CallOK, WindowOK
<1>11. AnswerOK(r)' /\ SentOK(r)'
  BY <1>2, <1>3, <1>4, <1>5 DEF CallOK, AnswerOK, SentOK
<1>12. CallOK(r)'
  BY <1>9, <1>10, <1>11 DEF CallOK
<1>13. row'.job \in {r, NoCall}
  BY <1>1, <1>2, <1>5 DEF RowOK, NoRow
<1>14. QED
  BY <1>2, <1>5, <1>7, <1>8, <1>12, <1>13, OneCallStep

LEMMA PurgeStep ==
  ASSUME InboundInv, PurgeRow
  PROVE  InboundInv'
<1>1. TypesOK /\ RowOK /\ row.state # "none" /\ ~row.live /\ row' = NoRow
  BY DEF InboundInv, PurgeRow
<1>2. PICK r \in Call : r = row.by
  BY <1>1 DEF RowOK, NoRow, TypesOK
<1>3. CallOK(r)
  BY DEF InboundInv
<1>4. UNCHANGED <<mode, pc, event, raced, slot, sent, elapsed, job, node, told, early>>
  BY DEF PurgeRow, runs
<1>5. row'.by = NoCall /\ row'.job = NoCall /\ NoCall # r
  BY <1>1, Bodies, InboundAssumption
<1>6. TypesOK' /\ Only(r) /\ RowOK'
  BY <1>1, <1>4, Bodies DEF TypesOK, Only, ToldOf, RowOK
<1>7. MintOK(r)' /\ SlotOK(r)'
  BY <1>3, <1>4 DEF CallOK, MintOK, SlotOK, ToldOf
<1>8. WindowOK(r)'
  BY <1>1, <1>2, <1>3, <1>4, <1>5 DEF CallOK, WindowOK
<1>9. AnswerOK(r)' /\ SentOK(r)'
  BY <1>3, <1>4, <1>5 DEF CallOK, AnswerOK, SentOK
<1>10. CallOK(r)'
  BY <1>7, <1>8, <1>9 DEF CallOK
<1>11. QED
  BY <1>1, <1>2, <1>5, <1>6, <1>10, OneCallStep

-----------------------------------------------------------------------------
(* The whole *)

LEMMA InboundInitHolds == InboundInit => InboundInv
<1>1. SUFFICES ASSUME InboundInit PROVE InboundInv
  OBVIOUS
<1>2. TypesOK
  BY <1>1, Bodies, InboundAssumption
     DEF InboundInit, TypesOK, Place, Ended, JobState, Nodes, SlotStates, RowStates
<1>3. RowOK
  BY <1>1 DEF InboundInit, RowOK
<1>4. ASSUME NEW r \in Call PROVE CallOK(r)
  <2>1. /\ pc[r] = "new" /\ job[r] = "none" /\ node[r] = Fresh /\ r \notin event
        /\ slot[r].state = "none" /\ slot[r].body = NoBody
    BY <1>1 DEF InboundInit, Fresh
  <2>2. row.by = NoCall /\ row.job = NoCall /\ r # NoCall
    BY <1>1, Bodies, InboundAssumption DEF InboundInit
  <2>3. ToldOf(r) = {}
    BY <1>1 DEF InboundInit, ToldOf
  <2>4. MintOK(r) /\ WindowOK(r) /\ AnswerOK(r) /\ SentOK(r)
    BY <2>1, <2>2 DEF MintOK, WindowOK, AnswerOK, SentOK, Admitted, Attached
  <2>5. SlotOK(r)
    BY <2>1, <2>3 DEF SlotOK
  <2>6. QED
    BY <2>4, <2>5 DEF CallOK
<1>5. QED
  BY <1>2, <1>3, <1>4 DEF InboundInv

LEMMA InboundStep == InboundInv /\ [InboundNext]_inboundVars => InboundInv'
<1>1. SUFFICES ASSUME InboundInv, [InboundNext]_inboundVars PROVE InboundInv'
  OBVIOUS
<1>2. CASE Elapse
  BY <1>1, <1>2, ElapseStep
<1>3. CASE PurgeRow
  BY <1>1, <1>3, PurgeStep
<1>4. ASSUME NEW r \in Call,
             \/ \E hasEvent \in BOOLEAN : Receive(r, hasEvent)
             \/ Admit(r) \/ CountUnfinished(r) \/ Mint(r) \/ Abandon(r)
             \/ AttachJob(r) \/ AnswerAtOnce(r) \/ OpenSlot(r) \/ DispatchRun(r)
             \/ Wait(r) \/ CloseSlot(r) \/ Reread(r) \/ TimerCloses(r) \/ HandlerDies(r)
      PROVE  InboundInv'
  BY <1>1, <1>4, ReceiveStep, AdmitStep, CountStep, MintStep, AbandonStep, AttachStep, AnswerStep,
     OpenStep, DispatchStep, WaitStep, CloseStep, RereadStep, TimerStep, DieStep
<1>5. ASSUME NEW r \in Call,
             \/ StartRunOf(r) \/ CancelOrphan(r) \/ Claim(r) \/ RememberReplay(r)
             \/ EndRun(r) \/ ReleaseUnanswered(r)
      PROVE  InboundInv'
  BY <1>1, <1>5, RunStep, ClaimStep, ReplayStep, ReleaseStep
<1>6. CASE UNCHANGED inboundVars
  <2>1. UNCHANGED <<mode, pc, event, raced, slot, sent, row, elapsed, job, node, told, early>>
    BY <1>6 DEF inboundVars, rows, runs
  <2>2. TypesOK' /\ RowOK'
    BY <1>1, <2>1 DEF InboundInv, TypesOK, RowOK
  <2>3. ASSUME NEW r \in Call PROVE CallOK(r)'
    <3>1. CallOK(r)
      BY <1>1 DEF InboundInv
    <3>2. MintOK(r)' /\ WindowOK(r)' /\ AnswerOK(r)'
      BY <2>1, <3>1 DEF CallOK, MintOK, WindowOK, AnswerOK, Unattached
    <3>3. SlotOK(r)' /\ SentOK(r)'
      BY <2>1, <3>1 DEF CallOK, SlotOK, ToldOf, SentOK
    <3>4. QED
      BY <3>2, <3>3 DEF CallOK
  <2>4. QED
    BY <2>2, <2>3 DEF InboundInv
<1>7. QED
  BY <1>1, <1>2, <1>3, <1>4, <1>5, <1>6 DEF InboundNext

LEMMA InboundInvHolds == InboundSpec => []InboundInv
BY InboundInitHolds, InboundStep, PTL DEF InboundSpec

\* However handlers, runs, windows, crashes and the purge interleave, two runs that carry the
\* event id are unfinished together only after the window of one of them has ended.
THEOREM EventRunsOnce == InboundSpec => []OneRunPerEvent
<1>1. InboundInv => OneRunPerEvent
  <2>1. SUFFICES ASSUME InboundInv, NEW q \in event, NEW r \in event, q # r,
                        job[q] \in {"queued", "running"}, job[r] \in {"queued", "running"},
                        q \notin elapsed, r \notin elapsed
                 PROVE  FALSE
    BY DEF OneRunPerEvent, Unfinished
  <2>2. q \in Call /\ r \in Call
    BY <2>1 DEF InboundInv, TypesOK
  <2>3. row.by = q /\ row.by = r
    BY <2>1, <2>2 DEF InboundInv, CallOK, WindowOK
  <2>4. QED
    BY <2>1, <2>3
<1>2. QED
  BY <1>1, InboundInvHolds, PTL

\* A Respond node reports delivered exactly if the client gets its body.
THEOREM DeliveredBodyIsSent == InboundSpec => []DeliveredIsReceived
<1>1. InboundInv => DeliveredIsReceived
  <2>1. SUFFICES ASSUME InboundInv, NEW r \in Call
                 PROVE  /\ pc[r] = "fallback" => \A n \in 1..MaxResponds : <<r, n>> \notin told
                        /\ pc[r] = "answered" /\ sent[r][1] = r /\ sent[r][2] > 0 => sent[r] \in told
                        /\ Cardinality({n \in 1..MaxResponds : <<r, n>> \in told}) <= 1
    BY DEF DeliveredIsReceived
  <2>2. CallOK(r) /\ TypesOK
    BY <2>1 DEF InboundInv
  <2>3. pc[r] = "fallback" => \A n \in 1..MaxResponds : <<r, n>> \notin told
    BY <2>2 DEF CallOK, SlotOK, ToldOf
  <2>4. ASSUME pc[r] = "answered", sent[r][1] = r, sent[r][2] > 0 PROVE sent[r] \in told
    <3>1. slot[r].state = "answered" /\ sent[r] = slot[r].body
      BY <2>2, <2>4 DEF CallOK, SentOK
    <3>2. PICK n \in 1..MaxResponds : slot[r].body = <<r, n>> /\ ToldOf(r) = {n}
      BY <2>2, <3>1 DEF CallOK, SlotOK
    <3>3. n \in ToldOf(r)
      BY <3>2
    <3>4. QED
      BY <3>1, <3>2, <3>3 DEF ToldOf
  <2>5. Cardinality(ToldOf(r)) <= 1
    <3>1. ToldOf(r) = {} \/ \E n \in 1..MaxResponds : ToldOf(r) = {n}
      BY <2>2 DEF CallOK, SlotOK
    <3>2. CASE ToldOf(r) = {}
      <4>1. Cardinality({}) = 0
        BY FS_EmptySet
      <4>2. QED
        BY <3>2, <4>1
    <3>3. CASE \E n \in 1..MaxResponds : ToldOf(r) = {n}
      <4>1. Cardinality(ToldOf(r)) = 1
        BY <3>3, FS_Singleton, Zenon
      <4>2. QED
        BY <4>1
    <3>4. QED
      BY <3>1, <3>2, <3>3
  <2>6. QED
    BY <2>3, <2>4, <2>5 DEF ToldOf
<1>2. QED
  BY <1>1, InboundInvHolds, PTL

\* The row leaves a stored answer alone while its window lasts.
LEMMA AnswerStays ==
  [InboundNext]_inboundVars =>
    [row.state = "answered" /\ row.live => row' = row \/ row' = [row EXCEPT !.live = FALSE]]_inboundVars
<1>1. SUFFICES ASSUME InboundNext, row.state = "answered", row.live
               PROVE  row' = row \/ row' = [row EXCEPT !.live = FALSE]
  OBVIOUS
<1>2. ASSUME NEW r \in Call,
             \/ \E hasEvent \in BOOLEAN : Receive(r, hasEvent)
             \/ CountUnfinished(r) \/ Mint(r) \/ OpenSlot(r) \/ DispatchRun(r)
             \/ Wait(r) \/ CloseSlot(r) \/ Reread(r) \/ TimerCloses(r) \/ HandlerDies(r)
             \/ StartRunOf(r) \/ CancelOrphan(r) \/ Claim(r) \/ EndRun(r)
      PROVE  row' = row
  BY <1>2 DEF Receive, CountUnfinished, Mint, OpenSlot, DispatchRun, Wait, CloseSlot, Reread,
              TimerCloses, HandlerDies, StartRunOf, CancelOrphan, Claim, EndRun, rows
<1>3. ASSUME NEW r \in Call,
             \/ Admit(r) \/ Abandon(r) \/ AttachJob(r) \/ AnswerAtOnce(r)
             \/ RememberReplay(r) \/ ReleaseUnanswered(r)
      PROVE  row' = row
  BY <1>1, <1>3 DEF Admit, Reservable, Abandon, AttachJob, Unattached, AnswerAtOnce, RememberReplay,
                    Answered, TakesAnswer, ReleaseUnanswered
<1>4. QED
  BY <1>1, <1>2, <1>3 DEF InboundNext, Elapse, PurgeRow

\* The stored answer is that of the call whose window it is and what its client got, and
\* within the window it is stored once and for all.
THEOREM StoredAnswerIsFinal == InboundSpec => ReplayIsTheAnswer
<1>1. InboundInv => AnswerIsOwn
  <2>1. SUFFICES ASSUME InboundInv, row.state = "answered"
                 PROVE  /\ row.body[1] = row.by
                        /\ pc[row.by] = "answered" /\ row.by \notin early => sent[row.by] = row.body
    BY DEF AnswerIsOwn
  <2>2. TypesOK /\ row.job = row.by /\ row.body[1] = row.by /\ row.by \in event
    BY <2>1 DEF InboundInv, RowOK, NoRow
  <2>3. PICK r \in Call : r = row.by
    BY <2>2 DEF TypesOK
  <2>4. CallOK(r)
    BY <2>1 DEF InboundInv
  <2>5. ASSUME pc[r] = "answered", r \notin early PROVE sent[r] = row.body
    <3>1. CASE mode = "immediate"
      BY <2>1, <2>2, <2>3, <2>4, <2>5, <3>1 DEF CallOK, AnswerOK, SentOK
    <3>2. CASE mode # "immediate"
      <4>1. row.body = <<r, 1>>
        BY <2>1, <2>2, <2>3, <2>4, <2>5, <3>2 DEF CallOK, AnswerOK, TypesOK
      <4>2. slot[r].state = "answered" /\ sent[r] = slot[r].body
        BY <2>3, <2>4, <2>5, <3>2 DEF CallOK, SentOK
      <4>3. slot[r].body = <<r, 1>>
        BY <2>2, <2>3, <2>4, <2>5, <4>2 DEF CallOK, SlotOK
      <4>4. QED
        BY <4>1, <4>2, <4>3
    <3>3. QED
      BY <3>1, <3>2
  <2>6. QED
    BY <2>2, <2>3, <2>5
<1>2. QED
  BY <1>1, InboundInvHolds, AnswerStays, PTL DEF InboundSpec, ReplayIsTheAnswer

-----------------------------------------------------------------------------
(* The cap on unfinished runs *)

Busy == {r \in Call : Unfinished(r)}
Counted == {r \in Call \ raced : Unfinished(r)}

\* A call that counted and has not been raced since finds room for its run.
CapInv ==
  /\ IsFiniteSet(Busy) /\ Cardinality(Counted) <= MaxInFlight
  /\ \A r \in Call : pc[r] = "mint" /\ r \notin raced => Cardinality(Busy) < MaxInFlight

LEMMA CountedOfBusy ==
  ASSUME IsFiniteSet(Busy)
  PROVE  /\ Cardinality(Busy) \in Nat /\ IsFiniteSet(Counted) /\ Cardinality(Counted) \in Nat
         /\ Cardinality(Counted) <= Cardinality(Busy)
<1>1. Counted \in SUBSET Busy
  BY DEF Counted, Busy
<1>2. IsFiniteSet(Counted) /\ Cardinality(Counted) <= Cardinality(Busy)
  BY <1>1, FS_Subset
<1>3. QED
  BY <1>2, FS_CardinalityType

\* A step that makes no run unfinished, takes no call back out of raced that still is,
\* and lets none into "mint".
LEMMA CapKeptStep ==
  ASSUME CapInv, Busy' \subseteq Busy, Counted' \subseteq Counted,
         \A q \in Call : pc'[q] = "mint" /\ q \notin raced' => pc[q] = "mint" /\ q \notin raced
  PROVE  CapInv'
<1>1. PICK B : B = Busy'
  OBVIOUS
<1>2. PICK C : C = Counted'
  OBVIOUS
<1>3. /\ IsFiniteSet(Busy) /\ Cardinality(Busy) \in Nat /\ IsFiniteSet(Counted)
      /\ Cardinality(Counted) \in Nat /\ Cardinality(Counted) <= MaxInFlight
  BY CountedOfBusy DEF CapInv
<1>4. IsFiniteSet(B) /\ Cardinality(B) <= Cardinality(Busy) /\ Cardinality(B) \in Nat
  <2>1. B \in SUBSET Busy
    BY <1>1
  <2>2. QED
    BY <1>3, <2>1, FS_Subset, FS_CardinalityType
<1>5. Cardinality(C) <= Cardinality(Counted) /\ Cardinality(C) \in Nat
  <2>1. C \in SUBSET Counted
    BY <1>2
  <2>2. QED
    BY <1>3, <2>1, FS_Subset, FS_CardinalityType
<1>6. MaxInFlight \in Nat
  BY InboundAssumption
<1>7. ASSUME NEW q \in Call, pc'[q] = "mint", q \notin raced' PROVE Cardinality(B) < MaxInFlight
  <2>1. Cardinality(Busy) < MaxInFlight
    BY <1>7 DEF CapInv
  <2>2. QED
    BY <1>3, <1>4, <1>6, <2>1
<1>8. Cardinality(C) <= MaxInFlight
  BY <1>3, <1>5, <1>6
<1>9. IsFiniteSet(Busy') /\ Cardinality(Counted') <= MaxInFlight
  BY <1>1, <1>2, <1>4, <1>8
<1>10. \A q \in Call : pc'[q] = "mint" /\ q \notin raced' => Cardinality(Busy') < MaxInFlight
  BY <1>1, <1>7
<1>11. QED
  BY <1>9, <1>10 DEF CapInv

LEMMA CapMintStep ==
  ASSUME InboundInv, CapInv, NEW r \in Call, Mint(r)
  PROVE  CapInv'
<1>1. TypesOK /\ pc[r] = "mint" /\ job[r] = "none" /\ raced' = raced \cup {q \in Call \ {r} : pc[q] = "mint"}
  BY DEF InboundInv, Mint, CallOK, MintOK
<1>2. PICK made \in {"none", "orphan", "queued"}, where \in Place \ {"mint"} :
        Goto(r, where) /\ job' = [job EXCEPT ![r] = made]
  BY DEF Mint, GiveUp, AfterAttach, Place, Ended
<1>3. pc'[r] # "mint" /\ \A q \in Call : q # r => pc'[q] = pc[q]
  BY <1>1, <1>2, HandlerMoves
<1>4. \A q \in Call : q # r => job'[q] = job[q]
  BY <1>1, <1>2 DEF TypesOK
<1>5. \A q \in Call : pc'[q] = "mint" => q \in raced'
  BY <1>1, <1>3
<1>6. Busy' \subseteq Busy \cup {r} /\ Counted' \subseteq Counted \cup {r}
  BY <1>1, <1>4 DEF Busy, Counted, Unfinished
<1>7. PICK B : B = Busy'
  OBVIOUS
<1>8. PICK C : C = Counted'
  OBVIOUS
<1>9. IsFiniteSet(Busy) /\ IsFiniteSet(Busy \cup {r}) /\ Cardinality(Busy) \in Nat
  BY FS_AddElement, FS_CardinalityType DEF CapInv
<1>10. IsFiniteSet(B)
  <2>1. B \in SUBSET (Busy \cup {r})
    BY <1>6, <1>7
  <2>2. QED
    BY <1>9, <2>1, FS_Subset
<1>11. /\ IsFiniteSet(Counted) /\ Cardinality(Counted) \in Nat
       /\ Cardinality(Counted) <= Cardinality(Busy) /\ Cardinality(Counted) <= MaxInFlight
  BY <1>9, CountedOfBusy DEF CapInv
<1>12. Cardinality(C) <= MaxInFlight
  <2>1. CASE r \in raced
    <3>1. C \in SUBSET Counted
      BY <1>1, <1>6, <1>8, <2>1 DEF Counted
    <3>2. Cardinality(C) <= Cardinality(Counted) /\ Cardinality(C) \in Nat
      BY <1>11, <3>1, FS_Subset, FS_CardinalityType
    <3>3. QED
      BY <1>11, <3>2, InboundAssumption
  <2>2. CASE r \notin raced
    <3>1. Cardinality(Busy) < MaxInFlight
      BY <1>1, <2>2 DEF CapInv
    <3>2. C \in SUBSET (Counted \cup {r})
      BY <1>6, <1>8
    <3>3. IsFiniteSet(Counted \cup {r}) /\ Cardinality(Counted \cup {r}) <= Cardinality(Counted) + 1
      <4>1. /\ IsFiniteSet(Counted \cup {r})
            /\ Cardinality(Counted \cup {r}) = IF r \in Counted THEN Cardinality(Counted)
                                               ELSE Cardinality(Counted) + 1
        BY <1>11, FS_AddElement
      <4>2. QED
        BY <1>11, <4>1
    <3>4. /\ Cardinality(C) <= Cardinality(Counted \cup {r}) /\ Cardinality(C) \in Nat
          /\ Cardinality(Counted \cup {r}) \in Nat
      BY <3>2, <3>3, FS_Subset, FS_CardinalityType
    <3>5. QED
      BY <1>9, <1>11, <3>1, <3>3, <3>4, InboundAssumption
  <2>3. QED
    BY <2>1, <2>2
<1>13. QED
  BY <1>5, <1>7, <1>8, <1>10, <1>12 DEF CapInv

LEMMA CapCountStep ==
  ASSUME InboundInv, CapInv, NEW r \in Call, CountUnfinished(r)
  PROVE  CapInv'
<1>1. UNCHANGED <<job, raced>> /\ TypesOK /\ IsFiniteSet(Busy)
  BY DEF CountUnfinished, runs, CapInv, InboundInv
<1>2. Busy' = Busy /\ Counted' = Counted
  BY <1>1 DEF Busy, Counted, Unfinished
<1>3. PICK twice \in Int, where \in Place :
        /\ twice >= 0 /\ Goto(r, where)
        /\ where = "mint" => Cardinality(Busy) + twice < MaxInFlight
  BY DEF CountUnfinished, GiveUp, WithinCap, Place, Ended, Busy
<1>4. pc'[r] = where /\ \A q \in Call : q # r => pc'[q] = pc[q]
  BY <1>1, <1>3, HandlerMoves
<1>5. Cardinality(Busy) \in Nat /\ MaxInFlight \in Nat
  BY <1>1, FS_CardinalityType, InboundAssumption
<1>6. where = "mint" => Cardinality(Busy) < MaxInFlight
  BY <1>3, <1>5
<1>7. QED
  BY <1>1, <1>2, <1>4, <1>6 DEF CapInv

\* The cap is passed only by runs whose call had counted when another one minted.
THEOREM CapIsPassedOnlyByRacing == InboundSpec => []CapIsKept
<1>1. InboundInit => CapInv
  <2>1. SUFFICES ASSUME InboundInit PROVE CapInv
    OBVIOUS
  <2>2. Busy = {} /\ Counted = {} /\ \A r \in Call : pc[r] = "new"
    BY <2>1 DEF InboundInit, Busy, Counted, Unfinished
  <2>3. QED
    BY <2>2, FS_EmptySet, InboundAssumption DEF CapInv
<1>2. InboundInv /\ CapInv /\ [InboundNext]_inboundVars => CapInv'
  <2>1. SUFFICES ASSUME InboundInv, CapInv, [InboundNext]_inboundVars PROVE CapInv'
    OBVIOUS
  <2>2. CASE UNCHANGED <<job, raced, pc>>
    <3>1. Busy' = Busy /\ Counted' = Counted
      BY <2>2 DEF Busy, Counted, Unfinished
    <3>2. QED
      BY <2>1, <2>2, <3>1, CapKeptStep
  <2>3. ASSUME NEW r \in Call, NEW where \in Place \ {"mint"}, Goto(r, where), UNCHANGED <<job, raced>>
        PROVE  CapInv'
    <3>1. Busy' = Busy /\ Counted' = Counted
      BY <2>3 DEF Busy, Counted, Unfinished
    <3>2. \A q \in Call : pc'[q] = "mint" => pc[q] = "mint"
      BY <2>1, <2>3 DEF InboundInv, TypesOK, Goto
    <3>3. QED
      BY <2>1, <2>3, <3>1, <3>2, CapKeptStep
  <2>4. ASSUME NEW r \in Call, NEW hasEvent \in BOOLEAN, Receive(r, hasEvent) PROVE CapInv'
    <3>1. PICK where \in Place \ {"mint"} : Goto(r, where)
      BY <2>4 DEF Receive, Place
    <3>2. UNCHANGED <<job, raced>>
      BY <2>4 DEF Receive, runs
    <3>3. QED
      BY <2>3, <3>1, <3>2
  <2>5. ASSUME NEW r \in Call,
               \/ Admit(r) \/ Abandon(r) \/ AttachJob(r) \/ AnswerAtOnce(r) \/ OpenSlot(r)
               \/ DispatchRun(r) \/ Wait(r) \/ CloseSlot(r) \/ Reread(r) \/ HandlerDies(r)
        PROVE  CapInv'
    <3>1. PICK where \in Place \ {"mint"} : Goto(r, where)
      BY <2>5 DEF Admit, Abandon, AttachJob, AfterAttach, AnswerAtOnce, OpenSlot, DispatchRun, Wait,
                  CloseSlot, Reread, HandlerDies, Send, Place, Ended
    <3>2. UNCHANGED <<job, raced>>
      BY <2>5 DEF Admit, Abandon, AttachJob, AnswerAtOnce, OpenSlot, DispatchRun, Wait, CloseSlot,
                  Reread, HandlerDies, runs
    <3>3. QED
      BY <2>3, <3>1, <3>2
  <2>6. ASSUME NEW r \in Call,
               StartRunOf(r) \/ CancelOrphan(r) \/ EndRun(r) \/ ReleaseUnanswered(r)
        PROVE  CapInv'
    <3>1. pc' = pc /\ pc[r] # "mint" /\ TypesOK
      BY <2>1, <2>6 DEF StartRunOf, CancelOrphan, EndRun, ReleaseUnanswered, InboundInv, CallOK, MintOK
    <3>2. /\ raced' = raced \/ (raced' = raced \ {r} /\ job'[r] = "ended")
          /\ job[r] \in {"queued", "orphan", "running"} \/ job'[r] = "released"
          /\ \A q \in Call : q # r => job'[q] = job[q]
      BY <2>6, <3>1 DEF StartRunOf, CancelOrphan, EndRun, ReleaseUnanswered, TypesOK
    <3>3. Busy' \subseteq Busy /\ Counted' \subseteq Counted
      BY <3>2 DEF Busy, Counted, Unfinished
    <3>4. QED
      BY <2>1, <3>1, <3>2, <3>3, CapKeptStep
  <2>7. ASSUME NEW r \in Call, TimerCloses(r) \/ Claim(r) \/ RememberReplay(r) PROVE CapInv'
    BY <2>2, <2>7 DEF TimerCloses, Claim, RememberReplay, runs
  <2>8. CASE Elapse \/ PurgeRow
    BY <2>2, <2>8 DEF Elapse, PurgeRow, runs
  <2>9. CASE UNCHANGED inboundVars
    BY <2>2, <2>9 DEF inboundVars, runs
  <2>10. QED
    BY <2>1, <2>4, <2>5, <2>6, <2>7, <2>8, <2>9, CapMintStep, CapCountStep DEF InboundNext
<1>3. CapInv => CapIsKept
  BY DEF CapInv, CapIsKept, Counted
<1>4. QED
  BY <1>1, <1>2, <1>3, InboundInvHolds, PTL DEF InboundSpec

-----------------------------------------------------------------------------
\* The variables of calls, runs, slots and the row have their types, and a slot holds a
\* body of its own run exactly when it is answered: nothing but the claim of a Respond
\* node of that run puts one there (inbound_response.py).
THEOREM InboundIsTyped == InboundSpec => []InboundTypeOK
<1>1. ASSUME InboundInv PROVE InboundTypeOK
  <2>1. TypesOK
    BY <1>1 DEF InboundInv
  <2>2. ASSUME NEW r \in Call PROVE slot[r].state = "answered" <=> slot[r].body[1] = r
    <3>1. SlotOK(r)
      BY <1>1 DEF InboundInv, CallOK
    <3>2. CASE slot[r].state = "answered"
      <4>1. PICK n \in 1..MaxResponds : slot[r].body = <<r, n>>
        BY <3>1, <3>2 DEF SlotOK
      <4>2. slot[r].body[1] = r
        BY <4>1
      <4>3. QED
        BY <3>2, <4>2
    <3>3. CASE slot[r].state # "answered"
      <4>1. slot[r].body = NoBody
        BY <3>1, <3>3 DEF SlotOK
      <4>2. NoBody[1] # r
        BY Bodies
      <4>3. QED
        BY <3>3, <4>1, <4>2
    <3>4. QED
      BY <3>2, <3>3
  <2>3. QED
    BY <2>1, <2>2 DEF TypesOK, InboundTypeOK, Place, JobState, Nodes, SlotStates, RowStates
<1>2. QED
  BY <1>1, InboundInvHolds, PTL

-----------------------------------------------------------------------------
(* The walk of a run: sets closed along edges, and graphs *)

\* Closure(E, S) has S in it, E does not leave it, and it is the least such set.
Leaves(E, Q) == \E a \in E : a[1] \in Q /\ a[2] \notin Q

LEMMA ClosureHasSeeds ==
  ASSUME NEW E, NEW S
  PROVE  S \subseteq Closure(E, S)
BY DEF Closure

LEMMA ClosureIsClosed ==
  ASSUME NEW E, NEW S
  PROVE  ~Leaves(E, Closure(E, S))
<1> DEFINE To == {a[2] : a \in E}
           Stays(C) == \A a \in E : a[1] \in S \cup C => a[2] \in C
<1>1. \A t : t \in Closure(E, S) <=> t \in S \/ (t \in To /\ \A C \in SUBSET To : Stays(C) => t \in C)
  BY DEF Closure
<1>2. ASSUME NEW a \in E, a[1] \in Closure(E, S) PROVE a[2] \in Closure(E, S)
  <2>1. a[2] \in To
    BY <1>2
  <2>2. ASSUME NEW C \in SUBSET To, Stays(C) PROVE a[2] \in C
    <3>1. a[1] \in S \cup C
      BY <1>1, <1>2, <2>2
    <3>2. QED
      BY <1>2, <2>2, <3>1
  <2>3. QED
    BY <1>1, <2>1, <2>2
<1>3. QED
  BY <1>2 DEF Leaves

LEMMA ClosureIsLeast ==
  ASSUME NEW E, NEW S, NEW Q, S \subseteq Q, ~Leaves(E, Q)
  PROVE  Closure(E, S) \subseteq Q
<1> DEFINE To == {a[2] : a \in E}
           Stays(C) == \A a \in E : a[1] \in S \cup C => a[2] \in C
<1>1. \A t : t \in Closure(E, S) <=> t \in S \/ (t \in To /\ \A C \in SUBSET To : Stays(C) => t \in C)
  BY DEF Closure
<1>2. Q \cap To \in SUBSET To
  OBVIOUS
<1>3. Stays(Q \cap To)
  <2>1. ASSUME NEW a \in E, a[1] \in S \cup (Q \cap To) PROVE a[2] \in Q \cap To
    <3>1. a[1] \in Q /\ a[2] \in To
      BY <2>1
    <3>2. QED
      BY <3>1 DEF Leaves
  <2>2. QED
    BY <2>1
<1>4. QED
  BY <1>1, <1>2, <1>3

-----------------------------------------------------------------------------
(* Graphs that validation admits *)

Enters(g, x) == g.parent[x.to] = x.from
Tos(g, n) == {x[2] : x \in {a \in Arrows(g) : a[1] = n}}
Later(g, n) == Closure(Arrows(g), Tos(g, n))

LEMMA GraphShape ==
  ASSUME NEW g \in Graphs
  PROVE  /\ IsFiniteSet(g.nodes) /\ g.nodes \subseteq Nat \ {Outside} /\ g.trigger \in g.nodes
         /\ g.loops \subseteq g.nodes /\ \A l \in g.loops : {"each", "done"} \subseteq g.ports[l]
         /\ \A x \in g.edges : x.from \in g.nodes /\ x.to \in g.nodes /\ x.to # g.trigger
         /\ \A x \in g.edges : g.parent[x.from] = g.parent[x.to] \/ Enters(g, x)
         /\ \A x \in g.edges : x.from \in g.loops => (x.port = "each" <=> Enters(g, x))
         /\ \A n \in g.nodes : g.parent[n] = Outside \/ g.parent[n] \in g.loops
<1>1. ValidGraph(g)
  BY GraphsAssumption
<1>2. \A x \in g.edges : x.to # g.trigger /\ ~CrossesFrame(g, x)
                         /\ (x.from \in g.loops => (x.port = "each" <=> g.parent[x.to] = x.from))
  BY <1>1 DEF ValidGraph, FramesAreSound
<1>3. \A n \in g.nodes : g.parent[n] = Outside \/ g.parent[n] \in g.loops
  BY <1>1 DEF ValidGraph, FramesAreSound
<1>4. QED
  BY <1>2, <1>3, GraphsAssumption DEF CrossesFrame, Enters

\* What comes after a node comes after what it comes after.
LEMMA LaterShrinks ==
  ASSUME NEW g \in Graphs, NEW x \in g.edges
  PROVE  /\ Later(g, x.to) \subseteq Later(g, x.from)
         /\ x.to \in Later(g, x.from) /\ x.to \notin Later(g, x.to)
<1>1. ValidGraph(g) /\ x.from \in g.nodes /\ x.to \in g.nodes
  BY GraphsAssumption
<1>2. <<x.from, x.to>> \in Arrows(g)
  BY DEF Arrows
<1>3. x.to \in Tos(g, x.from)
  <2>1. PICK a : a = <<x.from, x.to>>
    OBVIOUS
  <2>2. a \in Arrows(g) /\ a[1] = x.from /\ a[2] = x.to
    BY <1>2, <2>1
  <2>3. QED
    BY <2>2 DEF Tos
<1>4. x.to \in Later(g, x.from)
  BY <1>3, ClosureHasSeeds DEF Later
<1>5. ~Leaves(Arrows(g), Later(g, x.from))
  BY ClosureIsClosed DEF Later
<1>6. Tos(g, x.to) \subseteq Later(g, x.from)
  BY <1>4, <1>5 DEF Tos, Leaves
<1>7. Later(g, x.to) \subseteq Later(g, x.from)
  <2>1. PICK Q : Q = Later(g, x.from)
    OBVIOUS
  <2>2. Tos(g, x.to) \subseteq Q /\ ~Leaves(Arrows(g), Q)
    BY <1>5, <1>6, <2>1
  <2>3. Closure(Arrows(g), Tos(g, x.to)) \subseteq Q
    BY <2>2, ClosureIsLeast
  <2>4. QED
    BY <2>1, <2>3 DEF Later
<1>8. x.to \notin Later(g, x.to)
  BY <1>1 DEF ValidGraph, Acyclic, Later, Tos
<1>9. QED
  BY <1>4, <1>7, <1>8

\* Among any nodes there is one that no edge enters from the others.
LEMMA FirstOf ==
  ASSUME NEW g \in Graphs, NEW U \in SUBSET g.nodes, U # {}
  PROVE  \E n \in U : \A x \in g.edges : x.to = n => x.from \notin U
<1> DEFINE Not(n) == g.nodes \ Later(g, n)
           I == {Not(n) : n \in U}
<1>1. IsFiniteSet(g.nodes)
  BY GraphShape
<1>2. I \subseteq FiniteSubsetsOf(g.nodes) /\ I # {}
  <2>1. \A n \in U : IsFiniteSet(Not(n)) /\ Not(n) \subseteq g.nodes
    BY <1>1, FS_Subset
  <2>2. QED
    BY <2>1 DEF FiniteSubsetsOf
<1>3. IsWellFoundedOn(StrictSubsetOrdering(g.nodes), FiniteSubsetsOf(g.nodes))
  BY FS_StrictSubsetOrderingWellFounded
<1> HIDE DEF I
<1>4. PICK i \in I : \A j \in I : ~(<<j, i>> \in StrictSubsetOrdering(g.nodes))
  BY <1>2, <1>3, WFMin
<1>5. PICK n \in U : i = Not(n)
  BY <1>4 DEF I
<1>6. ASSUME NEW x \in g.edges, x.to = n, x.from \in U PROVE FALSE
  <2>1. Not(x.from) \in I
    BY <1>6 DEF I
  <2>2. x.to \in Not(x.to) /\ x.to \notin Not(x.from) /\ Not(x.from) \subseteq Not(x.to)
    BY <1>6, LaterShrinks, GraphShape
  <2>3. <<Not(x.from), Not(n)>> \in StrictSubsetOrdering(g.nodes)
    BY <1>6, <2>2 DEF StrictSubsetOrdering
  <2>4. QED
    BY <1>4, <1>5, <2>1, <2>3
<1>7. QED
  BY <1>6
\* A run may execute what leads to what it may execute.
LEMMA ExecutableBack ==
  ASSUME NEW g \in Graphs
  PROVE  /\ Executable(g) \subseteq g.nodes
         /\ \A x \in g.edges : x.to \in Executable(g) => x.from \in Executable(g)
<1>1. Closure(Arrows(g), {g.trigger}) = g.nodes
  BY GraphsAssumption DEF ValidGraph
<1>2. Executable(g) = g.nodes \cap (IF g.stop = Outside THEN g.nodes ELSE AncestorClosure(g, g.stop))
  BY <1>1 DEF Executable
<1>3. ASSUME NEW x \in g.edges, x.to \in AncestorClosure(g, g.stop)
      PROVE  x.from \in AncestorClosure(g, g.stop)
  <2> DEFINE A == {<<y.from, y.to>> : y \in {z \in g.edges : ~CrossesFrame(g, z)}}
  <2>1. PICK E : E = Reverse2(A)
    OBVIOUS
  <2>2. AncestorClosure(g, g.stop) = Closure(E, {g.stop})
    BY <2>1 DEF AncestorClosure
  <2>3. ~Leaves(E, Closure(E, {g.stop}))
    BY ClosureIsClosed
  <2>4. ~CrossesFrame(g, x)
    BY GraphsAssumption DEF ValidGraph, FramesAreSound
  <2>5. <<x.from, x.to>> \in A
    BY <2>4
  <2> HIDE DEF A
  <2>6. <<x.to, x.from>> \in E
    <3>1. PICK a : a = <<x.from, x.to>>
      OBVIOUS
    <3>2. a \in A /\ <<a[2], a[1]>> = <<x.to, x.from>>
      BY <2>5, <3>1
    <3>3. QED
      BY <2>1, <3>2 DEF Reverse2
  <2>7. PICK b \in E : b[1] = x.to /\ b[2] = x.from
    BY <2>6
  <2>8. QED
    BY <1>3, <2>2, <2>3, <2>7 DEF Leaves
<1>4. QED
  BY <1>2, <1>3, GraphShape

LEMMA OnlyTriggerIsFirst ==
  ASSUME NEW g \in Graphs, NEW n \in g.nodes, n # g.trigger
  PROVE  \E x \in g.edges : x.to = n
<1>1. Closure(Arrows(g), {g.trigger}) = g.nodes
  BY GraphsAssumption DEF ValidGraph
<1>2. SUFFICES ASSUME \A x \in g.edges : x.to # n PROVE FALSE
  OBVIOUS
<1>3. PICK Q : Q = g.nodes \ {n}
  OBVIOUS
<1>4. \A a \in Arrows(g) : a[2] \in Q
  BY <1>2, <1>3, GraphShape DEF Arrows
<1>5. {g.trigger} \subseteq Q /\ ~Leaves(Arrows(g), Q)
  BY <1>3, <1>4, GraphShape DEF Leaves
<1>6. Closure(Arrows(g), {g.trigger}) \subseteq Q
  BY <1>5, ClosureIsLeast
<1>7. QED
  BY <1>1, <1>3, <1>6

\* The Containers around a node.
Around(g, n) == Closure(Parents(g), {g.parent[n]})

LEMMA AroundFacts ==
  ASSUME NEW g \in Graphs, NEW n \in g.nodes
  PROVE  /\ g.parent[n] \in Around(g, n)
         /\ g.parent[n] # Outside =>
              n \notin Around(g, n) /\ Around(g, g.parent[n]) \subseteq Around(g, n) \cup {Outside}
         /\ g.parent[n] = Outside => Around(g, n) = {Outside}
<1>1. g.parent[n] \in Around(g, n)
  BY ClosureHasSeeds DEF Around
<1>2. \A a \in Parents(g) : a[1] # Outside
  BY GraphShape DEF Parents
<1>3. ASSUME g.parent[n] # Outside
      PROVE  n \notin Around(g, n) /\ Around(g, g.parent[n]) \subseteq Around(g, n) \cup {Outside}
  <2>1. n \notin Around(g, n)
    BY <1>3, GraphsAssumption DEF ValidGraph, FramesAreSound, Around
  <2>2. PICK m, Q : m = g.parent[n] /\ Q = Around(g, n) \cup {Outside}
    OBVIOUS
  <2>3. ~Leaves(Parents(g), Around(g, n))
    BY ClosureIsClosed DEF Around
  <2>4. ~Leaves(Parents(g), Q)
    BY <1>2, <2>2, <2>3 DEF Leaves
  <2>5. m \in g.nodes
    BY <1>3, <2>2, GraphShape
  <2>6. g.parent[m] \in Q
    <3>1. CASE g.parent[m] = Outside
      BY <2>2, <3>1
    <3>2. CASE g.parent[m] # Outside
      <4>1. PICK a : a = <<m, g.parent[m]>>
        OBVIOUS
      <4>2. a \in Parents(g) /\ a[1] = m /\ a[2] = g.parent[m]
        BY <2>5, <3>2, <4>1 DEF Parents
      <4>3. QED
        BY <1>1, <2>2, <2>4, <4>2 DEF Leaves
    <3>3. QED
      BY <3>1, <3>2
  <2>7. Closure(Parents(g), {g.parent[m]}) \subseteq Q
    BY <2>4, <2>6, ClosureIsLeast
  <2>8. QED
    BY <2>1, <2>2, <2>7 DEF Around
<1>4. ASSUME g.parent[n] = Outside PROVE Around(g, n) = {Outside}
  <2>1. ~Leaves(Parents(g), {Outside})
    BY <1>2 DEF Leaves
  <2>2. Closure(Parents(g), {Outside}) \subseteq {Outside}
    BY <2>1, ClosureIsLeast
  <2>3. QED
    BY <1>1, <1>4, <2>2 DEF Around
<1>5. QED
  BY <1>1, <1>3, <1>4

\* The trigger is in no Container: all nodes come after it, and what comes after a
\* node in a Container stays in there.
LEMMA TriggerIsOutside ==
  ASSUME NEW g \in Graphs
  PROVE  g.parent[g.trigger] = Outside
<1>1. SUFFICES ASSUME g.parent[g.trigger] # Outside PROVE FALSE
  OBVIOUS
<1>2. PICK m : m = g.parent[g.trigger]
  OBVIOUS
<1>3. PICK P : P = {n \in g.nodes : m \in Around(g, n)}
  OBVIOUS
<1>4. m # Outside /\ m \in g.nodes /\ g.trigger \in g.nodes
  BY <1>1, <1>2, GraphShape
<1>5. g.trigger \in P
  BY <1>2, <1>3, <1>4, AroundFacts
<1>6. ASSUME NEW x \in g.edges, x.from \in P PROVE x.to \in P
  <2>1. x.from \in g.nodes /\ x.to \in g.nodes /\ m \in Around(g, x.from)
    BY <1>3, <1>6, GraphShape
  <2>2. CASE g.parent[x.to] = g.parent[x.from]
    BY <1>3, <2>1, <2>2 DEF Around
  <2>3. CASE g.parent[x.to] = x.from
    <3>1. g.parent[x.to] # Outside
      BY <2>1, <2>3, GraphShape
    <3>2. Around(g, x.from) \subseteq Around(g, x.to) \cup {Outside}
      BY <2>1, <2>3, <3>1, AroundFacts
    <3>3. QED
      BY <1>3, <1>4, <2>1, <3>2
  <2>4. QED
    BY <2>2, <2>3, GraphShape DEF Enters
<1>7. ~Leaves(Arrows(g), P)
  <2>1. ASSUME NEW a \in Arrows(g), a[1] \in P PROVE a[2] \in P
    <3>1. PICK x \in g.edges : a = <<x.from, x.to>>
      BY DEF Arrows
    <3>2. QED
      BY <1>6, <2>1, <3>1
  <2>2. QED
    BY <2>1 DEF Leaves
<1>8. Closure(Arrows(g), {g.trigger}) \subseteq P
  BY <1>5, <1>7, ClosureIsLeast
<1>9. Closure(Arrows(g), {g.trigger}) = g.nodes
  BY GraphsAssumption DEF ValidGraph
<1>10. m \in Around(g, m)
  BY <1>3, <1>4, <1>8, <1>9
<1>11. QED
  BY <1>4, <1>10, AroundFacts

\* A run that may execute a node in a Container may execute the Container.
LEMMA ContainersAreExecutable ==
  ASSUME NEW g \in Graphs, NEW n \in Executable(g), g.parent[n] # Outside
  PROVE  g.parent[n] \in Executable(g) \cap g.loops
<1>1. PICK m : m = g.parent[n]
  OBVIOUS
<1>2. PICK U : U = {k \in Executable(g) : g.parent[k] = m}
  OBVIOUS
<1>3. U \in SUBSET g.nodes /\ U # {} /\ n \in g.nodes /\ m # Outside
  BY <1>1, <1>2, ExecutableBack
<1>4. PICK k \in U : \A x \in g.edges : x.to = k => x.from \notin U
  BY <1>3, FirstOf
<1>5. k \in g.nodes /\ k # g.trigger
  BY <1>2, <1>3, <1>4, TriggerIsOutside
<1>6. PICK x \in g.edges : x.to = k
  BY <1>5, OnlyTriggerIsFirst
<1>7. x.from \in Executable(g)
  BY <1>2, <1>4, <1>6, ExecutableBack
<1>8. g.parent[x.from] # m
  BY <1>2, <1>4, <1>6, <1>7
<1>9. x.from = m
  BY <1>2, <1>4, <1>6, <1>8, GraphShape DEF Enters
<1>10. QED
  BY <1>1, <1>3, <1>7, <1>9, GraphShape

-----------------------------------------------------------------------------
(* Stacks *)

On(m, s) == \E j \in DOMAIN s : s[j] = m

LEMMA LeastOf ==
  ASSUME NEW S \in SUBSET Nat, S # {}
  PROVE  \E m \in S : \A y \in S : m <= y
<1> DEFINE I == {0..(x - 1) : x \in S}
<1>1. IsWellFoundedOn(StrictSubsetOrdering(Nat), FiniteSubsetsOf(Nat))
  BY FS_StrictSubsetOrderingWellFounded
<1>2. I \subseteq FiniteSubsetsOf(Nat) /\ I # {}
  <2>1. \A x \in S : IsFiniteSet(0..(x - 1)) /\ 0..(x - 1) \subseteq Nat
    BY FS_Interval
  <2>2. QED
    BY <2>1 DEF FiniteSubsetsOf
<1> HIDE DEF I
<1>3. PICK i \in I : \A j \in I : ~(<<j, i>> \in StrictSubsetOrdering(Nat))
  BY <1>1, <1>2, WFMin
<1>4. PICK m \in S : i = 0..(m - 1)
  BY <1>3 DEF I
<1>5. ASSUME NEW y \in S, y < m PROVE FALSE
  <2>1. 0..(y - 1) \in I
    BY <1>5 DEF I
  <2>2. y \in 0..(m - 1) /\ y \notin 0..(y - 1) /\ 0..(y - 1) \subseteq 0..(m - 1) /\ 0..(m - 1) \subseteq Nat
    BY <1>5
  <2>3. <<0..(y - 1), 0..(m - 1)>> \in StrictSubsetOrdering(Nat)
    BY <2>2 DEF StrictSubsetOrdering
  <2>4. QED
    BY <1>3, <1>4, <2>1, <2>3
<1>6. QED
  BY <1>5

Falls(s, ns) == s \in [1..Cardinality(ns) -> ns] /\ \A i, j \in DOMAIN s : i < j => s[i] > s[j]

\* Finitely many numbers can be put in order.
LEMMA FallsExists ==
  ASSUME NEW ns \in SUBSET Nat, IsFiniteSet(ns)
  PROVE  \E s : Falls(s, ns)
<1> DEFINE Bad == {B \in FiniteSubsetsOf(Nat) : ~\E s : Falls(s, B)}
<1>1. SUFFICES Bad = {}
  BY <1>1 DEF FiniteSubsetsOf
<1>2. SUFFICES ASSUME Bad # {} PROVE FALSE
  OBVIOUS
<1>3. IsWellFoundedOn(StrictSubsetOrdering(Nat), FiniteSubsetsOf(Nat))
  BY FS_StrictSubsetOrderingWellFounded
<1>4. Bad \subseteq FiniteSubsetsOf(Nat)
  OBVIOUS
<1>5. PICK B \in Bad : \A C \in Bad : ~(<<C, B>> \in StrictSubsetOrdering(Nat))
  <2> HIDE DEF Bad
  <2>1. QED
    BY <1>2, <1>3, <1>4, WFMin
<1>6. B \subseteq Nat /\ IsFiniteSet(B) /\ ~\E s : Falls(s, B)
  BY <1>5 DEF FiniteSubsetsOf
<1>7. B # {}
  <2>1. SUFFICES ASSUME B = {} PROVE FALSE
    OBVIOUS
  <2>2. Cardinality(B) = 0
    BY <2>1, FS_EmptySet
  <2>3. PICK s : s = [i \in 1..Cardinality(B) |-> 0]
    OBVIOUS
  <2>4. s \in [1..Cardinality(B) -> B] /\ \A i \in DOMAIN s : FALSE
    BY <2>2, <2>3
  <2>5. Falls(s, B)
    BY <2>4 DEF Falls
  <2>6. QED
    BY <1>6, <2>5
<1>8. PICK m \in B : \A y \in B : m <= y
  BY <1>6, <1>7, LeastOf
<1>9. PICK C : C = B \ {m}
  OBVIOUS
<1>10. IsFiniteSet(C) /\ C \subseteq Nat /\ C \subseteq B /\ m \notin C /\ Cardinality(C) = Cardinality(B) - 1
       /\ Cardinality(B) \in Nat
  BY <1>6, <1>9, FS_RemoveElement, FS_CardinalityType
<1>11. <<C, B>> \in StrictSubsetOrdering(Nat)
  BY <1>6, <1>10 DEF StrictSubsetOrdering
<1>12. PICK s : Falls(s, C)
  BY <1>5, <1>10, <1>11 DEF FiniteSubsetsOf
<1>13. PICK n \in Nat : n = Cardinality(B) /\ n > 0 /\ Cardinality(C) = n - 1
  <2>1. Cardinality(C) \in Nat
    BY <1>10, FS_CardinalityType
  <2>2. QED
    BY <1>10, <2>1
<1>14. s \in [1..(n - 1) -> C] /\ \A i, j \in 1..(n - 1) : i < j => s[i] > s[j]
  BY <1>12, <1>13 DEF Falls
<1>15. PICK t : t = [i \in 1..n |-> IF i = n THEN m ELSE s[i]]
  OBVIOUS
<1>16. t \in [1..n -> B]
  <2>1. ASSUME NEW i \in 1..n PROVE t[i] \in B
    <3>1. CASE i = n
      BY <1>8, <1>15, <3>1
    <3>2. CASE i # n
      <4>1. i \in 1..(n - 1) /\ t[i] = s[i]
        BY <1>15, <3>2
      <4>2. QED
        BY <1>10, <1>14, <4>1
    <3>3. QED
      BY <3>1, <3>2
  <2>2. QED
    BY <1>15, <2>1
<1>17. ASSUME NEW i \in 1..n, NEW j \in 1..n, i < j PROVE t[i] > t[j]
  <2>1. i \in 1..(n - 1) /\ t[i] = s[i] /\ s[i] \in C
    BY <1>14, <1>15, <1>17
  <2>2. CASE j = n
    <3>1. m <= s[i] /\ s[i] # m /\ s[i] \in Nat /\ m \in Nat
      BY <1>6, <1>8, <1>10, <2>1
    <3>2. QED
      BY <1>15, <2>1, <2>2, <3>1
  <2>3. CASE j # n
    BY <1>14, <1>15, <1>17, <2>1, <2>3
  <2>4. QED
    BY <2>2, <2>3
<1>18. Falls(t, B)
  BY <1>13, <1>16, <1>17 DEF Falls
<1>19. QED
  BY <1>6, <1>18

LEMMA OrderedIs ==
  ASSUME NEW ns \in SUBSET Nat, IsFiniteSet(ns)
  PROVE  Ordered(ns) \in Seq(Nat) /\ \A m \in ns : On(m, Ordered(ns))
<1>1. PICK n \in Nat : n = Cardinality(ns)
  BY FS_CardinalityType
<1>2. PICK s : s = Ordered(ns)
  OBVIOUS
<1>3. Falls(s, ns)
  <2>1. \E t \in [1..Cardinality(ns) -> ns] : \A i, j \in DOMAIN t : i < j => t[i] > t[j]
    BY FallsExists DEF Falls
  <2>2. QED
    BY <1>2, <2>1 DEF Ordered, Falls
<1>4. s \in [1..n -> ns] /\ \A i, j \in 1..n : i < j => s[i] > s[j]
  BY <1>1, <1>3 DEF Falls
<1>5. s \in Injection(1..n, ns)
  <2>1. ASSUME NEW i \in 1..n, NEW j \in 1..n, s[i] = s[j] PROVE i = j
    <3>1. s[i] \in Nat /\ s[j] \in Nat
      BY <1>4
    <3>2. ~(i < j) /\ ~(j < i)
      BY <1>4, <2>1, <3>1
    <3>3. QED
      BY <3>2
  <2>2. QED
    BY <1>4, <2>1 DEF Injection, IsInjective
<1>6. Cardinality(1..n) = Cardinality(ns)
  <2>1. Cardinality(1..n) = n
    BY FS_Interval
  <2>2. QED
    BY <1>1, <2>1
<1>7. s \in Surjection(1..n, ns)
  BY <1>5, <1>6, FS_Injection
<1>8. \A m \in ns : On(m, s)
  BY <1>4, <1>7 DEF Surjection, On
<1>9. s \in Seq(Nat)
  <2>1. s \in [1..n -> Nat]
    BY <1>4
  <2>2. QED
    BY <2>1
<1>10. QED
  BY <1>2, <1>8, <1>9

LEMMA AppendedOn ==
  ASSUME NEW s \in Seq(Nat), NEW t \in Seq(Nat), NEW m, On(m, s) \/ On(m, t)
  PROVE  On(m, s \o t)
<1>1. Len(s) \in Nat /\ Len(t) \in Nat /\ DOMAIN (s \o t) = 1..(Len(s) + Len(t))
  OBVIOUS
<1>2. ASSUME NEW j \in DOMAIN s, s[j] = m PROVE On(m, s \o t)
  <2>1. j \in DOMAIN (s \o t) /\ (s \o t)[j] = m
    BY <1>2
  <2>2. QED
    BY <2>1 DEF On
<1>3. ASSUME NEW j \in DOMAIN t, t[j] = m PROVE On(m, s \o t)
  <2>1. Len(s) + j \in DOMAIN (s \o t) /\ (s \o t)[Len(s) + j] = m
    BY <1>3
  <2>2. QED
    BY <2>1 DEF On
<1>4. QED
  BY <1>2, <1>3 DEF On

LEMMA PoppedOn ==
  ASSUME NEW s \in Seq(Nat), s # <<>>
  PROVE  /\ Front(s) \in Seq(Nat) /\ Last(s) \in Nat
         /\ \A m : On(m, s) => m = Last(s) \/ On(m, Front(s))
<1>1. Len(s) \in Nat /\ Len(s) > 0
  OBVIOUS
<1>2. Front(s) \in Seq(Nat) /\ Last(s) \in Nat /\ Len(Front(s)) = Len(s) - 1
      /\ \A j \in 1..(Len(s) - 1) : Front(s)[j] = s[j]
  <2>1. PICK n \in Nat : n = Len(s) - 1
    BY <1>1
  <2>2. Front(s) = SubSeq(s, 1, n)
    BY <2>1 DEF Front
  <2>3. SubSeq(s, 1, n) \in Seq(Nat) /\ Len(SubSeq(s, 1, n)) = n
        /\ \A j \in 1..n : SubSeq(s, 1, n)[j] = s[j]
    BY <1>1, <2>1
  <2>4. Last(s) \in Nat
    BY <1>1 DEF Last
  <2>5. QED
    BY <2>1, <2>2, <2>3, <2>4
<1>3. ASSUME NEW m, NEW j \in DOMAIN s, s[j] = m PROVE m = Last(s) \/ On(m, Front(s))
  <2>1. CASE j = Len(s)
    BY <1>3, <2>1 DEF Last
  <2>2. CASE j # Len(s)
    <3>1. j \in DOMAIN Front(s) /\ Front(s)[j] = m
      BY <1>1, <1>2, <1>3, <2>2
    <3>2. QED
      BY <3>1 DEF On
  <2>3. QED
    BY <2>1, <2>2
<1>4. QED
  BY <1>2, <1>3 DEF On

-----------------------------------------------------------------------------
(* What the edges and the stacks say *)

Members(l) == {n \in reachable : graph.parent[n] = l}
Verdicts(n) == {Undecided, Dead} \cup {Ran(p) : p \in SUBSET graph.ports[n]}
EdgeState == {"pending", "live", "dead"}
WalkAt(i) == frames[i].loop

\* An edge that does not lead into a Container says what its first node has come to.
Seen(x) ==
  IF verdict[x.from] = Undecided THEN "pending" ELSE IF x.port \in verdict[x.from].live THEN "live" ELSE "dead"
EdgesOK ==
  /\ edge \in [graph.edges -> EdgeState]
  /\ DOMAIN verdict = graph.nodes /\ \A n \in graph.nodes : verdict[n] \in Verdicts(n)
  /\ \A x \in graph.edges : ~Enters(graph, x) => edge[x] = Seen(x)

\* A Container whose walk is on top of another is a node of that, due and not decided;
\* its own rounds are entered by live edges.
EnteredOK(i) ==
  LET l == WalkAt(i) IN
  /\ l \in graph.loops /\ l \in Members(WalkAt(i - 1))
  /\ verdict[l] = Undecided /\ Ready(l, edge) /\ LiveIncoming(l)
  /\ frames[i].walking => \A x \in graph.edges : x.from = l /\ Enters(graph, x) => edge[x] = "live"

\* All that is ready and not decided is on the stack, or is the Container above.
StackOK(i) ==
  frames[i].walking => \A n \in Members(WalkAt(i)) :
    verdict[n] = Undecided /\ Ready(n, edge) =>
      On(n, frames[i].stack) \/ (i < Len(frames) /\ n = WalkAt(i + 1))

FramesOK ==
  /\ frames \in Seq(WalkRecord) /\ frames # <<>> /\ WalkAt(1) = Outside /\ frames[1].walking
  /\ \A i \in 1..(Len(frames) - 1) : frames[i].walking
  /\ \A i, j \in 1..Len(frames) : WalkAt(i) = WalkAt(j) => i = j
  /\ \A i \in 2..Len(frames) : EnteredOK(i)
  /\ \A i \in 1..Len(frames) : StackOK(i)

WalkInv ==
  /\ graph \in Graphs /\ reachable = Executable(graph) /\ begun \in Nat
  /\ EdgesOK /\ FramesOK

\* A walk visits the reachable nodes of its Container, or of none.
LEMMA DirectIs ==
  ASSUME graph \in Graphs, reachable = Executable(graph),
         NEW l, l = Outside \/ l \in graph.loops \cap reachable
  PROVE  Direct(l) = Members(l)
<1>1. PICK g \in Graphs : g = graph
  OBVIOUS
<1>2. /\ g.loops \subseteq g.nodes /\ Outside \notin g.nodes /\ reachable \subseteq g.nodes
      /\ \A n \in g.nodes : g.parent[n] = Outside \/ g.parent[n] \in g.loops
  BY <1>1, GraphShape, ExecutableBack
<1>3. \A n \in g.nodes : g.parent[n] # Outside => g.parent[n] # n
  BY AroundFacts
<1>4. \A n \in reachable : g.parent[n] # Outside => g.parent[n] \in reachable \cap g.loops
  BY <1>1, ContainersAreExecutable
<1>5. \A m : Inside(m) = {n \in g.nodes : g.parent[n] = m}
  BY <1>1 DEF Inside
<1>6. CASE l = Outside
  <2>1. Scope(l) = reachable
    BY <1>6 DEF Scope
  <2>2. ASSUME NEW n \in reachable
        PROVE  n \in UNION {Inside(m) : m \in graph.loops \cap Scope(l)} <=> g.parent[n] # Outside
    BY <1>1, <1>2, <1>4, <1>5, <2>1
  <2>3. QED
    BY <1>1, <1>6, <2>1, <2>2 DEF Direct, Members
<1>7. CASE l # Outside /\ l \in g.loops
  <2>1. Scope(l) = Inside(l)
    BY <1>7 DEF Scope
  <2>2. ASSUME NEW n \in Inside(l) PROVE n \notin UNION {Inside(m) : m \in graph.loops \cap Scope(l)}
    <3>1. \A m : n \in Inside(m) => m = l
      BY <1>5
    <3>2. l \notin Inside(l)
      BY <1>2, <1>3, <1>5, <1>7
    <3>3. QED
      BY <2>1, <3>1, <3>2
  <2>3. QED
    BY <1>1, <1>2, <1>5, <2>1, <2>2 DEF Direct, Members
<1>8. QED
  BY <1>1, <1>2, <1>6, <1>7

LEMMA WalksAreProper ==
  ASSUME WalkInv, NEW i \in 1..Len(frames)
  PROVE  /\ frames[i] \in WalkRecord /\ Len(frames) \in Nat \ {0} /\ reachable \subseteq graph.nodes
         /\ WalkAt(i) = Outside \/ WalkAt(i) \in graph.loops \cap reachable
         /\ Direct(WalkAt(i)) = Members(WalkAt(i))
         /\ Members(WalkAt(i)) \subseteq graph.nodes
<1>1. frames[i] \in WalkRecord /\ Len(frames) \in Nat \ {0}
  BY DEF WalkInv, FramesOK
<1>2. WalkAt(i) = Outside \/ WalkAt(i) \in graph.loops \cap reachable
  <2>1. CASE i = 1
    BY <2>1 DEF WalkInv, FramesOK
  <2>2. CASE i # 1
    <3>1. i \in 2..Len(frames)
      BY <1>1, <2>2
    <3>2. QED
      BY <3>1 DEF WalkInv, FramesOK, EnteredOK, Members
  <2>3. QED
    BY <2>1, <2>2
<1>3. reachable \subseteq graph.nodes
  BY ExecutableBack DEF WalkInv
<1>4. QED
  BY <1>1, <1>2, <1>3, DirectIs DEF WalkInv, Members

\* A node of one walk is not the Container of another, except of the one on top of it.
LEMMA NotEntered ==
  ASSUME WalkInv, NEW k \in 1..Len(frames), NEW n \in Members(WalkAt(k)), NEW i \in 1..k
  PROVE  n # WalkAt(i)
<1>1. n \in graph.nodes /\ graph.parent[n] = WalkAt(k) /\ n # Outside
  <2>1. Outside \notin graph.nodes
    BY GraphShape DEF WalkInv
  <2>2. QED
    BY <2>1, WalksAreProper DEF Members
<1>2. CASE i = 1
  BY <1>1, <1>2 DEF WalkInv, FramesOK
<1>3. CASE i # 1
  <2>1. i \in 2..Len(frames) /\ i - 1 \in 1..Len(frames) /\ i - 1 # k
    BY <1>3 DEF WalkInv, FramesOK
  <2>2. WalkAt(i - 1) # WalkAt(k)
    BY <2>1 DEF WalkInv, FramesOK
  <2>3. WalkAt(i) \in Members(WalkAt(i - 1))
    BY <2>1 DEF WalkInv, FramesOK, EnteredOK
  <2>4. QED
    BY <1>1, <2>2, <2>3 DEF Members
<1>4. QED
  BY <1>2, <1>3

\* So the edges from a node enter no node of a walk below its own, and stay in its own.
LEMMA EdgesStay ==
  ASSUME WalkInv, NEW k \in 1..Len(frames), NEW n \in Members(WalkAt(k)),
         NEW i \in 1..k, NEW m \in Members(WalkAt(i)), NEW x \in In(m), x.from = n
  PROVE  i = k /\ ~Enters(graph, x)
<1>1. x \in graph.edges /\ x.to = m /\ graph.parent[m] = WalkAt(i) /\ graph.parent[n] = WalkAt(k)
  BY DEF In, Members
<1>2. graph.parent[x.from] = graph.parent[x.to] \/ Enters(graph, x)
  BY <1>1, GraphShape DEF WalkInv
<1>3. n # WalkAt(i)
  BY NotEntered
<1>4. ~Enters(graph, x) /\ WalkAt(k) = WalkAt(i)
  BY <1>1, <1>2, <1>3 DEF Enters
<1>5. i \in 1..Len(frames)
  BY DEF WalkInv, FramesOK
<1>6. QED
  BY <1>4, <1>5 DEF WalkInv, FramesOK

-----------------------------------------------------------------------------
(* Steps *)

\* What frames become when the walk of k goes on as t, with nothing on top of it.
Stacked(k, t) ==
  /\ frames' \in Seq(WalkRecord) /\ Len(frames') = k /\ frames'[k] = t
  /\ \A i \in 1..(k - 1) : frames'[i] = frames[i]

LEMMA FrontOf ==
  ASSUME NEW W, NEW s \in Seq(W), s # <<>>
  PROVE  /\ Len(s) \in Nat \ {0} /\ Front(s) \in Seq(W) /\ Len(Front(s)) = Len(s) - 1
         /\ \A i \in 1..(Len(s) - 1) : Front(s)[i] = s[i]
         /\ Last(s) = s[Len(s)] /\ Last(s) \in W
<1>1. Len(s) \in Nat \ {0} /\ Last(s) = s[Len(s)] /\ Last(s) \in W
  BY DEF Last
<1>2. PICK n \in Nat : n = Len(s) - 1
  BY <1>1
<1>3. Front(s) = SubSeq(s, 1, n)
  BY <1>2 DEF Front
<1>4. SubSeq(s, 1, n) \in Seq(W) /\ Len(SubSeq(s, 1, n)) = n /\ \A i \in 1..n : SubSeq(s, 1, n)[i] = s[i]
  BY <1>1, <1>2
<1>5. QED
  BY <1>1, <1>2, <1>3, <1>4

LEMMA AppendTo ==
  ASSUME NEW W, NEW s \in Seq(W), NEW t \in W
  PROVE  /\ Append(s, t) \in Seq(W) /\ Len(Append(s, t)) = Len(s) + 1 /\ Append(s, t)[Len(s) + 1] = t
         /\ \A i \in 1..Len(s) : Append(s, t)[i] = s[i]
OBVIOUS

LEMMA TopStep ==
  ASSUME WalkInv, NEW t \in WalkRecord, frames' = Append(Front(frames), t)
  PROVE  Stacked(Len(frames), t)
<1>1. frames \in Seq(WalkRecord) /\ frames # <<>>
  BY DEF WalkInv, FramesOK
<1>2. PICK f : f = Front(frames)
  OBVIOUS
<1>3. f \in Seq(WalkRecord) /\ Len(frames) \in Nat \ {0} /\ Len(f) = Len(frames) - 1
      /\ \A i \in 1..(Len(frames) - 1) : f[i] = frames[i]
  BY <1>1, <1>2, FrontOf
<1>4. frames' = Append(f, t)
  BY <1>2
<1>5. QED
  BY <1>3, <1>4, AppendTo DEF Stacked

LEMMA BelowStep ==
  ASSUME WalkInv, NEW t \in WalkRecord, Len(frames) > 1, frames' = Append(Front(Front(frames)), t)
  PROVE  Stacked(Len(frames) - 1, t)
<1>1. frames \in Seq(WalkRecord) /\ frames # <<>>
  BY DEF WalkInv, FramesOK
<1>2. PICK f, n : f = Front(frames) /\ n = Len(frames) - 1
  OBVIOUS
<1>3. f \in Seq(WalkRecord) /\ n \in Nat /\ n > 0 /\ Len(f) = n /\ \A i \in 1..n : f[i] = frames[i]
  BY <1>1, <1>2, FrontOf
<1>4. PICK e : e = Front(f)
  OBVIOUS
<1>5. e \in Seq(WalkRecord) /\ Len(e) = n - 1 /\ \A i \in 1..(n - 1) : e[i] = f[i]
  <2>1. f # <<>>
    BY <1>3
  <2>2. QED
    BY <1>3, <1>4, <2>1, FrontOf
<1>6. frames' = Append(e, t)
  BY <1>2, <1>4
<1>7. QED
  BY <1>2, <1>3, <1>5, <1>6, AppendTo DEF Stacked

\* What _push leaves on the stack.
LEMMA PushesIs ==
  ASSUME graph \in Graphs, NEW w \in WalkRecord, NEW n, NEW e, NEW v
  PROVE  /\ Pushes(w, n, e, v) \in WalkRecord
         /\ Pushes(w, n, e, v).loop = w.loop /\ Pushes(w, n, e, v).walking = w.walking
         /\ Pushes(w, n, e, v).id = w.id
         /\ \A m : On(m, w.stack) => On(m, Pushes(w, n, e, v).stack)
         /\ \A m \in Direct(w.loop) :
              (\E x \in Out(n) : x.to = m) /\ v[m] = Undecided /\ Ready(m, e) => On(m, Pushes(w, n, e, v).stack)
<1>1. PICK Q : Q = {m \in Direct(w.loop) : (\E x \in Out(n) : x.to = m) /\ v[m] = Undecided /\ Ready(m, e)}
  OBVIOUS
<1>2. Q \in SUBSET Nat /\ IsFiniteSet(Q)
  <2>1. \A m \in Q : m \in graph.nodes
    BY <1>1, GraphShape DEF Out
  <2>2. Q \in SUBSET graph.nodes
    BY <2>1
  <2>3. QED
    BY <2>2, GraphShape, FS_Subset
<1>3. PICK s, q : s = w.stack /\ q = Ordered(Q)
  OBVIOUS
<1>4. s \in Seq(Nat) /\ q \in Seq(Nat) /\ \A m \in Q : On(m, q)
  BY <1>2, <1>3, OrderedIs DEF WalkRecord
<1>5. s \o q \in Seq(Nat) /\ \A m : On(m, s) \/ On(m, q) => On(m, s \o q)
  BY <1>4, AppendedOn
<1>6. PICK p \in WalkRecord : p = [w EXCEPT !.stack = s \o q]
  BY <1>5 DEF WalkRecord
<1>7. p.loop = w.loop /\ p.walking = w.walking /\ p.id = w.id /\ p.stack = s \o q
  BY <1>6 DEF WalkRecord
<1>8. Pushes(w, n, e, v) = p
  BY <1>1, <1>3, <1>6 DEF Pushes
<1>9. QED
  BY <1>1, <1>3, <1>4, <1>5, <1>7, <1>8

\* The walks below the k-th, and how that was entered, when a step leaves their edges.
LEMMA LowerStep ==
  ASSUME WalkInv, NEW k \in 1..Len(frames), UNCHANGED <<graph, reachable>>,
         Len(frames') \in Nat, Len(frames') >= k, frames'[k].loop = WalkAt(k),
         \A i \in 1..(k - 1) : frames'[i] = frames[i],
         \A i \in 1..(k - 1) : \A m \in Members(WalkAt(i)) :
           verdict'[m] = verdict[m] /\ \A x \in In(m) : edge'[x] = edge[x],
         \A i \in 2..(k - 1) : \A x \in graph.edges :
           x.from = WalkAt(i) /\ Enters(graph, x) => edge'[x] = edge[x]
  PROVE  /\ \A i \in 1..k : WalkAt(i)' = WalkAt(i)
         /\ WalkAt(1)' = Outside
         /\ \A i, j \in 1..k : WalkAt(i)' = WalkAt(j)' => i = j
         /\ \A i \in 1..(k - 1) : frames'[i].walking /\ StackOK(i)'
         /\ \A i \in 2..(k - 1) : EnteredOK(i)'
         /\ k >= 2 /\ (frames'[k].walking => \A x \in graph.edges :
                          x.from = WalkAt(k) /\ Enters(graph, x) => edge'[x] = "live") => EnteredOK(k)'
<1>1. Len(frames) \in Nat \ {0} /\ k \in Nat /\ k <= Len(frames)
  BY WalksAreProper
<1>2. \A i \in 1..k : WalkAt(i)' = WalkAt(i)
  BY DEF WalkAt
<1>3. WalkAt(1)' = Outside /\ \A i, j \in 1..k : WalkAt(i)' = WalkAt(j)' => i = j
  BY <1>1, <1>2 DEF WalkInv, FramesOK
<1>4. /\ \A m : Members(m)' = Members(m) /\ In(m)' = In(m)
      /\ \A x : Enters(graph, x)' <=> Enters(graph, x)
  BY DEF Members, In, Enters
<1>5. ASSUME NEW i \in 1..(k - 1) PROVE frames'[i].walking /\ StackOK(i)'
  <2>1. i \in 1..Len(frames) /\ i \in 1..(Len(frames) - 1) /\ i + 1 \in 1..k /\ frames'[i] = frames[i]
        /\ i < Len(frames')
    BY <1>1
  <2>2. frames[i].walking /\ StackOK(i)
    BY <2>1 DEF WalkInv, FramesOK
  <2>3. WalkAt(i)' = WalkAt(i) /\ WalkAt(i + 1)' = WalkAt(i + 1)
    BY <1>2, <2>1
  <2>4. ASSUME NEW m \in Members(WalkAt(i)), verdict'[m] = Undecided, Ready(m, edge)'
        PROVE  On(m, frames'[i].stack) \/ (i < Len(frames') /\ m = WalkAt(i + 1)')
    <3>1. \A x \in In(m) : edge'[x] # "pending"
      BY <1>4, <2>4 DEF Ready
    <3>2. verdict'[m] = verdict[m] /\ \A x \in In(m) : edge'[x] = edge[x]
      BY <2>1
    <3>3. verdict[m] = Undecided /\ Ready(m, edge)
      BY <2>4, <3>1, <3>2 DEF Ready
    <3>4. QED
      BY <2>1, <2>2, <2>3, <3>3 DEF StackOK
  <2>5. StackOK(i)'
    BY <1>4, <2>3, <2>4 DEF StackOK
  <2>6. QED
    BY <2>1, <2>2, <2>5
<1>6. ASSUME NEW i \in 2..k,
             frames'[i].walking => \A x \in graph.edges :
               x.from = WalkAt(i) /\ Enters(graph, x) => edge'[x] = "live"
      PROVE  EnteredOK(i)'
  <2>1. PICK l : l = WalkAt(i)
    OBVIOUS
  <2>2. EnteredOK(i) /\ i - 1 \in 1..(k - 1) /\ i - 1 \in 1..k
    BY <1>1 DEF WalkInv, FramesOK
  <2>3. l \in graph.loops /\ l \in Members(WalkAt(i - 1)) /\ verdict[l] = Undecided /\ Ready(l, edge) /\ LiveIncoming(l)
    BY <2>1, <2>2 DEF EnteredOK
  <2>4. WalkAt(i)' = l /\ WalkAt(i - 1)' = WalkAt(i - 1)
    BY <1>2, <2>1, <2>2
  <2>5. verdict'[l] = Undecided /\ \A x \in In(l) : edge'[x] = edge[x]
    BY <2>2, <2>3
  <2>6. Ready(l, edge)' /\ LiveIncoming(l)'
    BY <1>4, <2>3, <2>5 DEF Ready, LiveIncoming
  <2>7. l \in graph'.loops /\ l \in Members(WalkAt(i - 1))'
    BY <1>4, <2>3, <2>4 DEF Members
  <2>8. frames'[i].walking => \A x \in graph'.edges : x.from = l /\ Enters(graph, x)' => edge'[x] = "live"
    BY <1>4, <1>6, <2>1
  <2>9. QED
    BY <2>4, <2>5, <2>6, <2>7, <2>8 DEF EnteredOK
<1>7. ASSUME NEW i \in 2..(k - 1) PROVE EnteredOK(i)'
  <2>1. i \in 2..k /\ i \in 2..Len(frames) /\ i \in 1..(k - 1)
    BY <1>1
  <2>2. \A x \in graph.edges : x.from = WalkAt(i) /\ Enters(graph, x) => (frames[i].walking => edge'[x] = "live")
    BY <2>1 DEF WalkInv, FramesOK, EnteredOK
  <2>3. QED
    BY <1>6, <2>1, <2>2
<1>8. QED
  BY <1>1, <1>2, <1>3, <1>5, <1>6, <1>7

\* A step that leaves the frames below the k-th, and the edges and verdicts there.
LEMMA FramesStep ==
  ASSUME NEW k \in Nat \ {0}, frames' \in Seq(WalkRecord), Len(frames') = k,
         frames'[1].walking,
         WalkAt(1)' = Outside,
         \A i, j \in 1..k : WalkAt(i)' = WalkAt(j)' => i = j,
         \A i \in 1..(k - 1) : frames'[i].walking /\ StackOK(i)',
         \A i \in 2..(k - 1) : EnteredOK(i)',
         k >= 2 => EnteredOK(k)',
         StackOK(k)'
  PROVE  FramesOK'
<1>1. k \in Nat \ {0}
  OBVIOUS
<1>2. \A i \in 1..k : StackOK(i)'
  <2>1. \A i \in 1..k : i = k \/ i \in 1..(k - 1)
    BY <1>1
  <2>2. QED
    BY <2>1
<1>3. \A i \in 2..k : EnteredOK(i)'
  <2>1. \A i \in 2..k : (i = k /\ k >= 2) \/ i \in 2..(k - 1)
    BY <1>1
  <2>2. QED
    BY <2>1
<1>4. frames' # <<>>
  BY <1>1
<1>5. QED
  BY <1>2, <1>3, <1>4 DEF FramesOK

\* A node is decided, and what it makes ready goes on the stack of its walk.
LEMMA DecideStep ==
  ASSUME WalkInv, NEW k \in 1..Len(frames), frames[k].walking,
         NEW n \in Members(WalkAt(k)), verdict[n] = Undecided,
         k = Len(frames) \/ n = WalkAt(k + 1),
         NEW w \in WalkRecord, w.loop = WalkAt(k), w.walking,
         \A m : On(m, frames[k].stack) => m = n \/ On(m, w.stack),
         NEW v \in Verdicts(n), v # Undecided,
         UNCHANGED <<graph, reachable, begun>>,
         edge' \in [graph.edges -> EdgeState],
         \A x \in graph.edges : x.from # n => edge'[x] = edge[x],
         \A x \in graph.edges : x.from = n /\ ~Enters(graph, x) =>
           edge'[x] = IF x.port \in v.live THEN "live" ELSE "dead",
         verdict' = [verdict EXCEPT ![n] = v],
         Stacked(k, Pushes(w, n, edge', verdict'))
  PROVE  WalkInv'
<1>1. /\ k \in Nat /\ Len(frames) \in Nat \ {0} /\ n \in graph.nodes /\ graph \in Graphs
      /\ k - 1 \in Nat
  BY WalksAreProper DEF WalkInv
<1>2. DOMAIN verdict = graph.nodes /\ \A m \in graph.nodes : verdict[m] \in Verdicts(m)
  BY DEF WalkInv, EdgesOK
<1>3. DOMAIN verdict' = graph.nodes /\ verdict'[n] = v /\ \A m \in graph.nodes : m # n => verdict'[m] = verdict[m]
  BY <1>1, <1>2
<1>4. EdgesOK'
  <2>1. \A m \in graph.nodes : verdict'[m] \in Verdicts(m)
    BY <1>2, <1>3
  <2>2. ASSUME NEW x \in graph.edges, ~Enters(graph, x) PROVE edge'[x] = Seen(x)'
    <3>1. x.from \in graph.nodes
      BY <1>1, GraphShape
    <3>2. CASE x.from = n
      BY <1>3, <2>2, <3>2 DEF Seen
    <3>3. CASE x.from # n
      <4>1. edge'[x] = edge[x] /\ verdict'[x.from] = verdict[x.from] /\ edge[x] = Seen(x)
        BY <1>3, <2>2, <3>1, <3>3 DEF WalkInv, EdgesOK
      <4>2. QED
        BY <4>1 DEF Seen
    <3>4. QED
      BY <3>2, <3>3
  <2>3. QED
    BY <1>3, <2>1, <2>2 DEF EdgesOK, Verdicts, Enters
<1>5. PICK t : t = Pushes(w, n, edge', verdict')
  OBVIOUS
<1>6. /\ t \in WalkRecord /\ t.loop = WalkAt(k) /\ t.walking
      /\ \A m : On(m, w.stack) => On(m, t.stack)
      /\ \A m \in Direct(WalkAt(k)) :
           (\E x \in Out(n) : x.to = m) /\ verdict'[m] = Undecided /\ Ready(m, edge') => On(m, t.stack)
  BY <1>1, <1>5, PushesIs
<1>7. /\ frames' \in Seq(WalkRecord) /\ Len(frames') = k /\ frames'[k] = t
      /\ \A i \in 1..(k - 1) : frames'[i] = frames[i]
  BY <1>5 DEF Stacked
<1>8. ASSUME NEW i \in 1..(k - 1), NEW m \in Members(WalkAt(i))
      PROVE  verdict'[m] = verdict[m] /\ \A x \in In(m) : edge'[x] = edge[x]
  <2>1. i \in 1..Len(frames) /\ i \in 1..k /\ i # k
    BY <1>1
  <2>2. m \in graph.nodes /\ graph.parent[m] = WalkAt(i) /\ graph.parent[n] = WalkAt(k)
    BY <2>1, WalksAreProper DEF Members
  <2>3. WalkAt(i) # WalkAt(k)
    BY <2>1 DEF WalkInv, FramesOK
  <2>4. m # n
    BY <2>2, <2>3
  <2>5. \A x \in In(m) : x.from # n /\ x \in graph.edges
    BY <2>1, EdgesStay DEF In
  <2>6. QED
    BY <1>3, <2>2, <2>4, <2>5
<1>9. ASSUME NEW i \in 2..k, NEW x \in graph.edges, x.from = WalkAt(i)
      PROVE  edge'[x] = edge[x]
  <2>1. n # WalkAt(i)
    BY <1>1, NotEntered
  <2>2. QED
    BY <1>9, <2>1
<1>10. k >= 2 => \A x \in graph.edges : x.from = WalkAt(k) /\ Enters(graph, x) => edge'[x] = "live"
  <2>1. SUFFICES ASSUME k >= 2, NEW x \in graph.edges, x.from = WalkAt(k), Enters(graph, x)
                 PROVE  edge'[x] = "live"
    OBVIOUS
  <2>2. k \in 2..k /\ k \in 2..Len(frames)
    BY <1>1, <2>1
  <2>3. EnteredOK(k)
    BY <2>2 DEF WalkInv, FramesOK
  <2>4. edge[x] = "live"
    BY <2>1, <2>3 DEF EnteredOK
  <2>5. QED
    BY <1>9, <2>1, <2>2, <2>4
<1>11. /\ \A i \in 1..k : WalkAt(i)' = WalkAt(i)
       /\ WalkAt(1)' = Outside
       /\ \A i, j \in 1..k : WalkAt(i)' = WalkAt(j)' => i = j
       /\ \A i \in 1..(k - 1) : frames'[i].walking /\ StackOK(i)'
       /\ \A i \in 2..(k - 1) : EnteredOK(i)'
       /\ k >= 2 => EnteredOK(k)'
  <2>1. \A i \in 2..(k - 1) : i \in 2..k
    BY <1>1
  <2>2. QED
    BY <1>1, <1>6, <1>7, <1>8, <1>9, <1>10, <2>1, LowerStep
<1>12. StackOK(k)'
  <2>1. SUFFICES ASSUME NEW m \in Members(WalkAt(k)), verdict'[m] = Undecided,
                        \A x \in In(m) : edge'[x] # "pending"
                 PROVE  On(m, t.stack)
    <3>1. Members(WalkAt(k))' = Members(WalkAt(k)) /\ \A m \in graph.nodes : In(m)' = In(m)
      BY <1>1, <1>11 DEF Members, In
    <3>2. Members(WalkAt(k)) \subseteq graph.nodes
      BY WalksAreProper
    <3>3. ASSUME NEW m \in Members(WalkAt(k))', verdict'[m] = Undecided, Ready(m, edge)'
          PROVE  On(m, frames'[k].stack)
      BY <1>7, <2>1, <3>1, <3>2, <3>3 DEF Ready
    <3>4. QED
      BY <3>3 DEF StackOK
  <2>2. m \in graph.nodes /\ m # n /\ m \in Direct(WalkAt(k))
    BY <1>3, <2>1, WalksAreProper
  <2>3. verdict[m] = Undecided
    BY <1>3, <2>1, <2>2
  <2>4. CASE Ready(m, edge)
    <3>1. StackOK(k)
      BY DEF WalkInv, FramesOK
    <3>2. On(m, frames[k].stack) \/ (k < Len(frames) /\ m = WalkAt(k + 1))
      BY <2>1, <2>3, <2>4, <3>1 DEF StackOK
    <3>3. On(m, frames[k].stack)
      BY <1>1, <2>2, <3>2
    <3>4. QED
      BY <1>6, <2>2, <3>3
  <2>5. CASE ~Ready(m, edge)
    <3>1. PICK x \in In(m) : edge[x] = "pending"
      BY <2>5 DEF Ready
    <3>2. x \in graph.edges /\ x.to = m /\ x.from = n
      BY <2>1, <3>1 DEF In
    <3>3. x \in Out(n) /\ Ready(m, edge')
      BY <2>1, <3>2 DEF Out, Ready
    <3>4. QED
      BY <1>6, <2>1, <2>2, <3>2, <3>3
  <2>6. QED
    BY <2>4, <2>5
<1>13. frames'[1].walking
  <2>1. k = 1 \/ 1 \in 1..(k - 1)
    BY <1>1
  <2>2. QED
    BY <1>6, <1>7, <1>11, <2>1
<1>14. FramesOK'
  BY <1>7, <1>11, <1>12, <1>13, FramesStep
<1>15. QED
  BY <1>4, <1>14 DEF WalkInv

\* A step that decides nothing leaves the walks below the top one as they are.
LEMMA QuietStep ==
  ASSUME WalkInv, NEW k \in Nat, k = Len(frames), UNCHANGED <<graph, reachable, edge, verdict, begun>>,
         Len(frames') \in Nat, Len(frames') >= k, frames'[k].loop = WalkAt(k),
         frames'[k].walking => frames[k].walking,
         \A i \in 1..(k - 1) : frames'[i] = frames[i]
  PROVE  /\ EdgesOK'
         /\ \A i \in 1..k : WalkAt(i)' = WalkAt(i)
         /\ WalkAt(1)' = Outside
         /\ \A i, j \in 1..k : WalkAt(i)' = WalkAt(j)' => i = j
         /\ \A i \in 1..(k - 1) : frames'[i].walking /\ StackOK(i)'
         /\ \A i \in 2..(k - 1) : EnteredOK(i)'
         /\ k >= 2 => EnteredOK(k)'
<1>1. k \in 1..Len(frames) /\ k \in Nat \ {0}
  <2>1. frames # <<>> /\ frames \in Seq(WalkRecord)
    BY DEF WalkInv, FramesOK
  <2>2. QED
    BY <2>1
<1>2. EdgesOK'
  <2>1. EdgesOK
    BY DEF WalkInv
  <2>2. QED
    BY <2>1 DEF EdgesOK, Seen, Verdicts, Enters
<1>3. k >= 2 /\ frames'[k].walking => \A x \in graph.edges : x.from = WalkAt(k) /\ Enters(graph, x) => edge'[x] = "live"
  <2>1. k >= 2 => EnteredOK(k)
    BY <1>1 DEF WalkInv, FramesOK
  <2>2. QED
    BY <2>1 DEF EnteredOK
<1>4. QED
  BY <1>1, <1>2, <1>3, LowerStep

LEMMA TopIs ==
  ASSUME WalkInv
  PROVE  /\ Top = frames[Len(frames)] /\ Top \in WalkRecord /\ Top.loop = WalkAt(Len(frames))
         /\ Len(frames) \in Nat \ {0} /\ Len(frames) \in 1..Len(frames)
         /\ Direct(Top.loop) = Members(WalkAt(Len(frames)))
         /\ ~Top.walking \/ Top.loop # Outside => Len(frames) >= 2
<1>1. frames \in Seq(WalkRecord) /\ frames # <<>>
  BY DEF WalkInv, FramesOK
<1>2. Top = frames[Len(frames)] /\ Top \in WalkRecord /\ Len(frames) \in Nat \ {0} /\ Len(frames) \in 1..Len(frames)
  BY <1>1, FrontOf DEF Top
<1>3. Direct(Top.loop) = Members(WalkAt(Len(frames))) /\ Top.loop = WalkAt(Len(frames))
  BY <1>2, WalksAreProper DEF WalkAt
<1>4. Len(frames) = 1 => Top.walking /\ Top.loop = Outside
  BY <1>2 DEF WalkInv, FramesOK, WalkAt
<1>5. Len(frames) = 1 \/ Len(frames) >= 2
  BY <1>2
<1>6. ~Top.walking \/ Top.loop # Outside => Len(frames) >= 2
  BY <1>4, <1>5, Zenon
<1>7. QED
  BY <1>2, <1>3, <1>6, Zenon

\* The walk on top without the node it takes.
LEMMA PoppedIs ==
  ASSUME WalkInv, Walking
  PROVE  /\ Popped \in WalkRecord /\ Popped.loop = Top.loop /\ Popped.walking /\ Top.walking
         /\ Popped.id = Top.id
         /\ \A m : On(m, Top.stack) => m = Here \/ On(m, Popped.stack)
<1>1. Top \in WalkRecord /\ Top.walking /\ Top.stack # <<>>
  BY TopIs DEF Walking
<1>2. PICK s : s = Top.stack
  OBVIOUS
<1>3. PICK f, h : f = Front(s) /\ h = Last(s)
  OBVIOUS
<1>4. s \in Seq(Nat) /\ s # <<>>
  BY <1>1, <1>2 DEF WalkRecord
<1>5. f \in Seq(Nat) /\ \A m : On(m, s) => m = h \/ On(m, f)
  BY <1>3, <1>4, PoppedOn
<1>6. PICK t \in WalkRecord : t = Top
  BY <1>1
<1>7. PICK p \in WalkRecord : p = [t EXCEPT !.stack = f]
  BY <1>5 DEF WalkRecord
<1>8. p.loop = t.loop /\ p.walking = t.walking /\ p.id = t.id /\ p.stack = f
  BY <1>7 DEF WalkRecord
<1>9. Popped = p /\ Here = h
  BY <1>2, <1>3, <1>6, <1>7 DEF Popped, Here
<1>10. QED
  BY <1>1, <1>2, <1>5, <1>6, <1>8, <1>9

\* A node that is decided, not ready or not of the walk is passed over.
LEMMA PassStep ==
  ASSUME WalkInv, Walking, ~Takes(Here), frames' = Append(Front(frames), Popped),
         UNCHANGED <<graph, reachable, edge, verdict, begun>>
  PROVE  WalkInv' /\ Stacked(Len(frames), Popped)
<1>1. PICK k \in Nat : k = Len(frames) /\ k >= 1 /\ k \in 1..Len(frames)
  BY TopIs
<1>2. PICK p \in WalkRecord : p = Popped
  BY PoppedIs
<1>3. /\ p.loop = WalkAt(k) /\ p.walking /\ frames[k].walking
      /\ \A m : On(m, frames[k].stack) => m = Here \/ On(m, p.stack)
  BY <1>1, <1>2, PoppedIs, TopIs
<1>4. Stacked(k, p)
  BY <1>1, <1>2, TopStep
<1>5. /\ frames' \in Seq(WalkRecord) /\ Len(frames') = k /\ frames'[k] = p
      /\ \A i \in 1..(k - 1) : frames'[i] = frames[i]
  BY <1>4 DEF Stacked
<1>6. /\ EdgesOK'
      /\ \A i \in 1..k : WalkAt(i)' = WalkAt(i)
      /\ WalkAt(1)' = Outside
      /\ \A i, j \in 1..k : WalkAt(i)' = WalkAt(j)' => i = j
      /\ \A i \in 1..(k - 1) : frames'[i].walking /\ StackOK(i)'
      /\ \A i \in 2..(k - 1) : EnteredOK(i)'
      /\ k >= 2 => EnteredOK(k)'
  BY <1>1, <1>3, <1>5, QuietStep
<1>7. StackOK(k)'
  <2>1. StackOK(k)
    BY <1>1 DEF WalkInv, FramesOK
  <2>2. ASSUME NEW m \in Members(WalkAt(k)), verdict[m] = Undecided, Ready(m, edge)
        PROVE  On(m, p.stack)
    <3>1. On(m, frames[k].stack)
      BY <1>1, <1>3, <2>1, <2>2 DEF StackOK
    <3>2. m \in Direct(Top.loop)
      BY <1>1, <2>2, TopIs
    <3>3. m # Here
      BY <2>2, <3>2 DEF Takes
    <3>4. QED
      BY <1>3, <3>1, <3>3
  <2>3. WalkAt(k)' = WalkAt(k) /\ Members(WalkAt(k))' = Members(WalkAt(k)) /\ \A m : In(m)' = In(m)
    BY <1>1, <1>6 DEF Members, In
  <2>4. QED
    BY <1>5, <2>2, <2>3 DEF StackOK, Ready
<1>8. frames'[1].walking
  <2>1. k = 1 \/ 1 \in 1..(k - 1)
    BY <1>1
  <2>2. QED
    BY <1>3, <1>5, <1>6, <2>1
<1>9. FramesOK'
  BY <1>1, <1>5, <1>6, <1>7, <1>8, FramesStep
<1>10. QED
  BY <1>1, <1>2, <1>4, <1>6, <1>9 DEF WalkInv

\* A round that ends, or an attempt that starts over, leaves the Container between rounds.
LEMMA RestStep ==
  ASSUME WalkInv, Len(frames) >= 2, NEW t \in WalkRecord, t.loop = Top.loop, ~t.walking,
         frames' = Append(Front(frames), t),
         UNCHANGED <<graph, reachable, edge, verdict, begun>>
  PROVE  WalkInv' /\ Stacked(Len(frames), t)
<1>1. PICK k \in Nat : k = Len(frames) /\ k >= 2 /\ t.loop = WalkAt(k)
  BY TopIs
<1>2. Stacked(k, t)
  BY <1>1, TopStep
<1>3. /\ frames' \in Seq(WalkRecord) /\ Len(frames') = k /\ frames'[k] = t
      /\ \A i \in 1..(k - 1) : frames'[i] = frames[i]
  BY <1>2 DEF Stacked
<1>4. /\ EdgesOK'
      /\ \A i \in 1..k : WalkAt(i)' = WalkAt(i)
      /\ WalkAt(1)' = Outside
      /\ \A i, j \in 1..k : WalkAt(i)' = WalkAt(j)' => i = j
      /\ \A i \in 1..(k - 1) : frames'[i].walking /\ StackOK(i)'
      /\ \A i \in 2..(k - 1) : EnteredOK(i)'
      /\ k >= 2 => EnteredOK(k)'
  BY <1>1, <1>3, QuietStep
<1>5. StackOK(k)'
  BY <1>3 DEF StackOK
<1>6. frames'[1].walking
  BY <1>1, <1>4
<1>7. FramesOK'
  BY <1>1, <1>3, <1>4, <1>5, <1>6, FramesStep
<1>8. QED
  BY <1>1, <1>2, <1>4, <1>7 DEF WalkInv

LEMMA NoRoundIs ==
  ASSUME NEW l \in Nat, NEW tries \in Nat, begun \in Nat
  PROVE  NoRound(l, tries) \in WalkRecord /\ NoRound(l, tries).loop = l /\ ~NoRound(l, tries).walking
<1>1. PICK t : t = [loop |-> l, walking |-> TRUE, stack |-> <<>>, round |-> 0, tries |-> tries, id |-> begun]
  OBVIOUS
<1>2. t \in WalkRecord /\ t.loop = l
  BY <1>1 DEF WalkRecord
<1>3. PICK u \in WalkRecord : u = [t EXCEPT !.walking = FALSE]
  BY <1>2 DEF WalkRecord
<1>4. u.loop = l /\ ~u.walking
  BY <1>2, <1>3 DEF WalkRecord
<1>5. NoRound(l, tries) = u
  BY <1>1, <1>3 DEF NoRound, NewWalk
<1>6. QED
  BY <1>4, <1>5

LEMMA EnterStep ==
  ASSUME WalkInv, NEW n \in graph.nodes, EnterLoop(n)
  PROVE  WalkInv' /\ Len(frames') = Len(frames) + 1 /\ ~frames'[Len(frames')].walking
         /\ frames'[Len(frames)].loop = Top.loop /\ frames'[Len(frames)].walking
         /\ frames'[Len(frames)].id = Top.id
         /\ \A i \in 1..(Len(frames) - 1) : frames'[i] = frames[i]
<1>1. PICK k \in Nat : k = Len(frames) /\ k >= 1 /\ k \in 1..Len(frames)
  BY TopIs
<1>2. /\ Walking /\ n = Here /\ Takes(n) /\ LiveIncoming(n) /\ n \in graph.loops
      /\ UNCHANGED <<graph, reachable, edge, verdict, begun, out, outcome>>
      /\ frames' = Append(Front(frames), Popped) \o <<NoRound(n, 1)>>
  BY DEF EnterLoop, Executes
<1>3. PICK p \in WalkRecord : p = Popped
  BY <1>2, PoppedIs
<1>4. /\ p.loop = WalkAt(k) /\ p.walking /\ p.id = Top.id /\ frames[k].walking
      /\ \A m : On(m, frames[k].stack) => m = n \/ On(m, p.stack)
  BY <1>1, <1>2, <1>3, PoppedIs, TopIs
<1>5. n \in Nat /\ n \in Members(WalkAt(k)) /\ verdict[n] = Undecided /\ Ready(n, edge)
  <2>1. n \in Nat
    BY GraphShape DEF WalkInv
  <2>2. QED
    BY <1>1, <1>2, <2>1, TopIs DEF Takes
<1>6. PICK u \in WalkRecord : u = NoRound(n, 1) /\ u.loop = n /\ ~u.walking
  BY <1>5, NoRoundIs DEF WalkInv
<1>7. PICK f : f = Front(frames)
  OBVIOUS
<1>8. f \in Seq(WalkRecord) /\ Len(f) = k - 1 /\ \A i \in 1..(k - 1) : f[i] = frames[i]
  BY <1>1, <1>7, FrontOf DEF WalkInv, FramesOK
<1>9. PICK a : a = Append(f, p)
  OBVIOUS
<1>10. a \in Seq(WalkRecord) /\ Len(a) = k /\ a[k] = p /\ \A i \in 1..(k - 1) : a[i] = f[i]
  BY <1>1, <1>8, <1>9, AppendTo
<1>11. frames' = Append(a, u)
  BY <1>2, <1>3, <1>6, <1>7, <1>9, <1>10
<1>12. /\ frames' \in Seq(WalkRecord) /\ Len(frames') = k + 1 /\ frames'[k + 1] = u /\ frames'[k] = p
       /\ \A i \in 1..(k - 1) : frames'[i] = frames[i]
  BY <1>1, <1>8, <1>10, <1>11, AppendTo
<1>13. /\ EdgesOK'
       /\ \A i \in 1..k : WalkAt(i)' = WalkAt(i)
       /\ WalkAt(1)' = Outside
       /\ \A i, j \in 1..k : WalkAt(i)' = WalkAt(j)' => i = j
       /\ \A i \in 1..(k - 1) : frames'[i].walking /\ StackOK(i)'
       /\ \A i \in 2..(k - 1) : EnteredOK(i)'
       /\ k >= 2 => EnteredOK(k)'
  <2>1. Len(frames') \in Nat /\ Len(frames') >= k /\ frames'[k].loop = WalkAt(k)
    BY <1>1, <1>4, <1>12
  <2>2. QED
    BY <1>1, <1>2, <1>4, <1>12, <2>1, QuietStep
<1>14. /\ \A l : Members(l)' = Members(l)
       /\ \A m : In(m)' = In(m) /\ (Ready(m, edge)' <=> Ready(m, edge)) /\ (LiveIncoming(m)' <=> LiveIncoming(m))
       /\ WalkAt(k)' = WalkAt(k) /\ WalkAt(k + 1)' = n
  BY <1>1, <1>2, <1>6, <1>12, <1>13 DEF Members, In, WalkAt, Ready, LiveIncoming
<1>15. StackOK(k)'
  <2>1. StackOK(k)
    BY <1>1 DEF WalkInv, FramesOK
  <2>2. ASSUME NEW m \in Members(WalkAt(k)), verdict[m] = Undecided, Ready(m, edge)
        PROVE  On(m, p.stack) \/ m = n
    <3>1. On(m, frames[k].stack)
      BY <1>1, <1>4, <2>1, <2>2 DEF StackOK
    <3>2. QED
      BY <1>4, <3>1
  <2>3. QED
    BY <1>2, <1>12, <1>14, <2>2 DEF StackOK
<1>16. EnteredOK(k + 1)'
  BY <1>2, <1>5, <1>6, <1>12, <1>14 DEF EnteredOK
<1>17. StackOK(k + 1)'
  BY <1>6, <1>12 DEF StackOK
<1>18. PICK c \in Nat \ {0} : c = k + 1 /\ c - 1 = k /\ c >= 2
  BY <1>1
<1>19. \A i, j \in 1..c : WalkAt(i)' = WalkAt(j)' => i = j
  <2>1. \A i \in 1..k : WalkAt(i) # n
    BY <1>1, <1>5, NotEntered
  <2>2. \A i \in 1..c : i = c \/ i \in 1..k
    BY <1>1, <1>18
  <2>3. WalkAt(c)' = n /\ \A i \in 1..k : WalkAt(i)' # n
    BY <1>13, <1>14, <1>18, <2>1
  <2>4. QED
    BY <1>13, <2>2, <2>3
<1>20. \A i \in 1..(c - 1) : frames'[i].walking /\ StackOK(i)'
  <2>1. \A i \in 1..(c - 1) : i = k \/ i \in 1..(k - 1)
    BY <1>1, <1>18
  <2>2. QED
    BY <1>4, <1>12, <1>13, <1>15, <2>1
<1>21. \A i \in 2..(c - 1) : EnteredOK(i)'
  <2>1. \A i \in 2..(c - 1) : (i = k /\ k >= 2) \/ i \in 2..(k - 1)
    BY <1>1, <1>18
  <2>2. QED
    BY <1>13, <2>1
<1>22. frames'[1].walking /\ EnteredOK(c)' /\ StackOK(c)'
  <2>1. 1 \in 1..(c - 1)
    BY <1>1, <1>18
  <2>2. QED
    BY <1>16, <1>17, <1>18, <1>20, <2>1
<1>23. FramesOK'
  BY <1>12, <1>13, <1>18, <1>19, <1>20, <1>21, <1>22, FramesStep
<1>24. QED
  BY <1>1, <1>2, <1>4, <1>6, <1>12, <1>13, <1>23, TopIs DEF WalkInv

\* The walk t of a Container when a round of it begins.
NewRound(t, id, Q) ==
  [t EXCEPT !.walking = TRUE, !.round = @ + 1, !.id = id, !.stack = Ordered(Q)]

LEMMA NewRoundIs ==
  ASSUME graph \in Graphs, NEW t \in WalkRecord, NEW id \in Nat, NEW Q, Q \subseteq graph.nodes
  PROVE  /\ NewRound(t, id, Q) \in WalkRecord /\ NewRound(t, id, Q).loop = t.loop
         /\ NewRound(t, id, Q).walking /\ NewRound(t, id, Q).id = id
         /\ \A m \in Q : On(m, NewRound(t, id, Q).stack)
<1>1. Q \in SUBSET Nat /\ IsFiniteSet(Q)
  BY GraphShape, FS_Subset
<1>2. PICK s \in Seq(Nat) : s = Ordered(Q) /\ \A m \in Q : On(m, s)
  BY <1>1, OrderedIs
<1>3. t.round + 1 \in Nat /\ t.tries \in Nat /\ t.loop \in Nat
  BY DEF WalkRecord
<1>4. PICK r \in Nat : r = t.round + 1
  BY <1>3
<1>5. PICK u : u = [t EXCEPT !.walking = TRUE, !.round = r, !.id = id, !.stack = s]
  OBVIOUS
<1>6. u = [loop |-> t.loop, walking |-> TRUE, stack |-> s, round |-> r, tries |-> t.tries, id |-> id]
  BY <1>5 DEF WalkRecord
<1>7. u \in WalkRecord
  BY <1>2, <1>3, <1>4, <1>6 DEF WalkRecord
<1>8. u.loop = t.loop /\ u.walking = TRUE /\ u.id = id /\ u.stack = s
  BY <1>6
<1>9. u = NewRound(t, id, Q)
  BY <1>2, <1>4, <1>5 DEF NewRound
<1>10. \A m \in Q : On(m, u.stack)
  BY <1>2, <1>8
<1>11. QED
  BY <1>7, <1>8, <1>9, <1>10, Zenon

LEMMA RoundStep ==
  ASSUME WalkInv, RunRound
  PROVE  /\ WalkInv' /\ Len(frames) >= 2 /\ Len(frames') = Len(frames)
         /\ frames'[Len(frames)].loop = Top.loop /\ frames'[Len(frames)].walking
         /\ frames'[Len(frames)].id = begun'
         /\ \A i \in 1..(Len(frames) - 1) : frames'[i] = frames[i]
<1>1. Between /\ UNCHANGED <<graph, reachable>> /\ begun' = begun + 1
  BY DEF RunRound
<1>2. PICK k \in Nat : k = Len(frames) /\ k >= 2 /\ k \in 1..Len(frames) /\ k \in 2..Len(frames)
  <2>1. Len(frames) >= 2 /\ Len(frames) \in Nat
    BY <1>1, TopIs DEF Between
  <2>2. QED
    BY <2>1
<1>3. PICK l : l = Top.loop /\ l = WalkAt(k)
  BY <1>2, TopIs
<1>4. EnteredOK(k)
  BY <1>2 DEF WalkInv, FramesOK
<1>5. l \in graph.loops /\ graph \in Graphs /\ l # Outside /\ k - 1 \in 1..k
  <2>1. l \in graph.loops /\ graph \in Graphs
    BY <1>3, <1>4 DEF EnteredOK, WalkInv
  <2>2. l # Outside
    BY <2>1, GraphShape
  <2>3. QED
    BY <1>2, <2>1, <2>2
<1>6. /\ edge' = [x \in graph.edges |->
            IF x.from = l /\ x.port = "each" THEN "live"
            ELSE IF x.from \in Inside(l) /\ x.to \in Inside(l) THEN "pending" ELSE edge[x]]
      /\ verdict' = [n \in graph.nodes |-> IF n \in Inside(l) THEN Undecided ELSE verdict[n]]
  BY <1>3 DEF RunRound, Armed
<1>7. /\ \A n \in graph.nodes : n \in Inside(l) <=> graph.parent[n] = l
      /\ \A x \in graph.edges : x.from \in graph.nodes /\ x.to \in graph.nodes
      /\ \A x \in graph.edges : x.from = l /\ x.port = "each" => Enters(graph, x)
      /\ \A x \in graph.edges : x.from = l /\ Enters(graph, x) => x.port = "each" /\ x.to \in Inside(l)
      /\ \A x \in graph.edges : graph.parent[x.from] = graph.parent[x.to] \/ Enters(graph, x)
      /\ \A x \in graph.edges : Enters(graph, x) <=> graph.parent[x.to] = x.from
  BY <1>5, GraphShape DEF Inside, Enters
<1>8. EdgesOK'
  <2>1. /\ edge \in [graph.edges -> EdgeState] /\ \A n \in graph.nodes : verdict[n] \in Verdicts(n)
        /\ \A x \in graph.edges : ~Enters(graph, x) => edge[x] = Seen(x)
    BY DEF WalkInv, EdgesOK
  <2>2. edge' \in [graph.edges -> EdgeState]
    BY <1>6, <2>1 DEF EdgeState
  <2>3. DOMAIN verdict' = graph.nodes /\ \A n \in graph.nodes : verdict'[n] \in Verdicts(n)
    BY <1>6, <2>1 DEF Verdicts
  <2>4. ASSUME NEW x \in graph.edges, ~Enters(graph, x) PROVE edge'[x] = Seen(x)'
    <3>1. ~(x.from = l /\ x.port = "each") /\ x.from \in graph.nodes /\ x.to \in graph.nodes
          /\ (x.from \in Inside(l) <=> x.to \in Inside(l))
      BY <1>7, <2>4
    <3>2. CASE x.from \in Inside(l)
      <4>1. edge'[x] = "pending" /\ verdict'[x.from] = Undecided
        BY <1>6, <3>1, <3>2
      <4>2. QED
        BY <4>1 DEF Seen
    <3>3. CASE x.from \notin Inside(l)
      <4>1. edge'[x] = edge[x] /\ verdict'[x.from] = verdict[x.from]
        BY <1>6, <3>1, <3>3
      <4>2. QED
        BY <2>1, <2>4, <4>1 DEF Seen
    <3>4. QED
      BY <3>2, <3>3
  <2>5. QED
    BY <1>1, <2>2, <2>3, <2>4 DEF EdgesOK, Verdicts, Enters
<1>9. PICK t \in WalkRecord : t = Top
  BY TopIs
<1>10. PICK Q : Q = {n \in Direct(l) : Ready(n, edge')}
  OBVIOUS
<1>11. Direct(l) = Members(l) /\ Members(l) \subseteq graph.nodes /\ Q \subseteq graph.nodes
  BY <1>2, <1>3, <1>10, WalksAreProper
<1>12. PICK id \in Nat : id = begun'
  BY <1>1 DEF WalkInv
<1>13. PICK u \in WalkRecord : /\ u = NewRound(t, id, Q)
                               /\ u.loop = t.loop /\ u.walking /\ u.id = id /\ \A m \in Q : On(m, u.stack)
  BY <1>5, <1>11, NewRoundIs
<1>14. u.loop = l
  BY <1>3, <1>9, <1>13
<1>15. Stacked(k, u)
  <2>1. frames' = Append(Front(frames), u)
    BY <1>3, <1>9, <1>10, <1>12, <1>13 DEF RunRound, NewRound
  <2>2. QED
    BY <1>2, <1>14, <2>1, TopStep
<1>16. /\ frames' \in Seq(WalkRecord) /\ Len(frames') = k /\ frames'[k] = u
       /\ \A i \in 1..(k - 1) : frames'[i] = frames[i]
  BY <1>15 DEF Stacked
<1>17. ASSUME NEW i \in 1..(k - 1)
       PROVE  /\ \A m \in Members(WalkAt(i)) : verdict'[m] = verdict[m] /\ \A x \in In(m) : edge'[x] = edge[x]
              /\ \A x \in graph.edges : x.from = WalkAt(i) /\ Enters(graph, x) => edge'[x] = edge[x]
  <2>1. i \in 1..Len(frames) /\ i # k
    BY <1>2
  <2>2. WalkAt(i) # l
    BY <1>2, <1>3, <2>1 DEF WalkInv, FramesOK
  <2>3. ASSUME NEW m \in Members(WalkAt(i))
        PROVE  verdict'[m] = verdict[m] /\ \A x \in In(m) : edge'[x] = edge[x]
    <3>1. m \in graph.nodes /\ m \notin Inside(l)
      BY <1>7, <2>1, <2>2, <2>3, WalksAreProper DEF Members
    <3>2. ASSUME NEW x \in In(m) PROVE edge'[x] = edge[x]
      <4>1. x \in graph.edges /\ x.to = m
        BY <3>2 DEF In
      <4>2. ~(x.from = l /\ x.port = "each")
        BY <1>7, <3>1, <4>1
      <4>3. QED
        BY <1>6, <3>1, <4>1, <4>2
    <3>3. QED
      BY <1>6, <3>1, <3>2
  <2>4. ASSUME NEW x \in graph.edges, x.from = WalkAt(i), Enters(graph, x) PROVE edge'[x] = edge[x]
    <3>1. x.from # l /\ x.to \notin Inside(l)
      BY <1>7, <2>2, <2>4
    <3>2. QED
      BY <1>6, <3>1
  <2>5. QED
    BY <2>3, <2>4
<1>18. \A x \in graph.edges : x.from = WalkAt(k) /\ Enters(graph, x) => edge'[x] = "live"
  BY <1>3, <1>6, <1>7
<1>19. /\ \A i \in 1..k : WalkAt(i)' = WalkAt(i)
       /\ WalkAt(1)' = Outside
       /\ \A i, j \in 1..k : WalkAt(i)' = WalkAt(j)' => i = j
       /\ \A i \in 1..(k - 1) : frames'[i].walking /\ StackOK(i)'
       /\ \A i \in 2..(k - 1) : EnteredOK(i)'
       /\ k >= 2 => EnteredOK(k)'
  <2>1. \A i \in 2..(k - 1) : i \in 1..(k - 1)
    BY <1>2
  <2>2. Len(frames') \in Nat /\ Len(frames') >= k /\ frames'[k].loop = WalkAt(k)
    BY <1>3, <1>13, <1>14, <1>16
  <2>3. QED
    BY <1>1, <1>2, <1>16, <1>17, <1>18, <2>1, <2>2, LowerStep
<1>20. StackOK(k)'
  <2>1. WalkAt(k)' = l /\ Members(l)' = Members(l) /\ \A m : In(m)' = In(m)
    BY <1>1, <1>3, <1>13, <1>14, <1>16 DEF Members, In, WalkAt
  <2>2. ASSUME NEW m \in Members(l), \A x \in In(m) : edge'[x] # "pending" PROVE On(m, u.stack)
    <3>1. m \in Q
      BY <1>10, <1>11, <2>2 DEF Ready
    <3>2. QED
      BY <1>13, <1>14, <3>1
  <2>3. QED
    BY <1>16, <2>1, <2>2 DEF StackOK, Ready
<1>21. frames'[1].walking
  BY <1>2, <1>19
<1>22. FramesOK'
  BY <1>2, <1>16, <1>19, <1>20, <1>21, FramesStep
<1>23. QED
  BY <1>1, <1>2, <1>3, <1>8, <1>12, <1>13, <1>14, <1>16, <1>22 DEF WalkInv

\* What becomes of the edges when a node is decided.
LEMMA SettledIs ==
  ASSUME WalkInv, NEW n \in graph.nodes, NEW live
  PROVE  /\ Settled(n, live) \in [graph.edges -> EdgeState]
         /\ \A x \in graph.edges : x.from # n => Settled(n, live)[x] = edge[x]
         /\ \A x \in graph.edges : x.from = n /\ ~Enters(graph, x) =>
              Settled(n, live)[x] = IF x.port \in live THEN "live" ELSE "dead"
<1>1. edge \in [graph.edges -> EdgeState]
  BY DEF WalkInv, EdgesOK
<1>2. \A x \in graph.edges : x.from = n /\ ~Enters(graph, x) => ~(n \in graph.loops /\ x.port = "each")
  BY GraphShape DEF WalkInv
<1>3. QED
  BY <1>1, <1>2 DEF Settled, EdgeState

LEMMA KilledIs ==
  ASSUME WalkInv, NEW n \in graph.nodes
  PROVE  /\ Killed(n) \in [graph.edges -> EdgeState]
         /\ \A x \in graph.edges : x.from # n => Killed(n)[x] = edge[x]
         /\ \A x \in graph.edges : x.from = n => Killed(n)[x] = IF x.port \in Dead.live THEN "live" ELSE "dead"
<1>1. edge \in [graph.edges -> EdgeState]
  BY DEF WalkInv, EdgesOK
<1>2. QED
  BY <1>1 DEF Killed, EdgeState, Dead

LEMMA VerdictsAre ==
  ASSUME NEW n, NEW live \in SUBSET graph.ports[n]
  PROVE  /\ Ran(live) \in Verdicts(n) /\ Ran(live) # Undecided /\ Ran(live).live = live
         /\ Dead \in Verdicts(n) /\ Dead # Undecided
BY DEF Verdicts, Ran, Dead, Undecided

\* A node that the walk on top takes is decided.
LEMMA TopDecides ==
  ASSUME WalkInv, Walking, Takes(Here), NEW v \in Verdicts(Here), v # Undecided,
         UNCHANGED <<graph, reachable, begun>>,
         edge' \in [graph.edges -> EdgeState],
         \A x \in graph.edges : x.from # Here => edge'[x] = edge[x],
         \A x \in graph.edges : x.from = Here /\ ~Enters(graph, x) =>
           edge'[x] = IF x.port \in v.live THEN "live" ELSE "dead",
         verdict' = [verdict EXCEPT ![Here] = v],
         frames' = Append(Front(frames), Pushes(Popped, Here, edge', verdict'))
  PROVE  /\ WalkInv' /\ Stacked(Len(frames), Pushes(Popped, Here, edge', verdict'))
         /\ Here \in Members(WalkAt(Len(frames)))
<1>1. PICK k \in Nat : k = Len(frames) /\ k \in 1..Len(frames)
  BY TopIs
<1>2. PICK n, w : n = Here /\ w = Popped
  OBVIOUS
<1>3. /\ w \in WalkRecord /\ w.loop = WalkAt(k) /\ w.walking /\ frames[k].walking
      /\ \A m : On(m, frames[k].stack) => m = n \/ On(m, w.stack)
  BY <1>1, <1>2, PoppedIs, TopIs
<1>4. n \in Members(WalkAt(k)) /\ verdict[n] = Undecided
  BY <1>1, <1>2, TopIs DEF Takes
<1>5. Pushes(w, n, edge', verdict') \in WalkRecord
  BY <1>3, PushesIs DEF WalkInv
<1>6. Stacked(k, Pushes(w, n, edge', verdict'))
  BY <1>1, <1>2, <1>5, TopStep
<1>7. WalkInv'
  BY <1>1, <1>2, <1>3, <1>4, <1>6, DecideStep
<1>8. QED
  BY <1>1, <1>2, <1>4, <1>6, <1>7

\* The Container that ends is decided in the walk below its own.
LEMMA BelowDecides ==
  ASSUME WalkInv, Between, NEW l, l = Top.loop, NEW v \in Verdicts(l), v # Undecided,
         UNCHANGED <<graph, reachable, begun>>,
         edge' \in [graph.edges -> EdgeState],
         \A x \in graph.edges : x.from # l => edge'[x] = edge[x],
         \A x \in graph.edges : x.from = l /\ ~Enters(graph, x) =>
           edge'[x] = IF x.port \in v.live THEN "live" ELSE "dead",
         verdict' = [verdict EXCEPT ![l] = v],
         frames' = Append(Front(Front(frames)), Pushes(Below, l, edge', verdict'))
  PROVE  WalkInv' /\ Stacked(Len(frames) - 1, Pushes(Below, l, edge', verdict'))
<1>1. PICK k \in Nat : k = Len(frames) - 1 /\ k >= 1 /\ k + 1 = Len(frames) /\ k \in 1..Len(frames)
                       /\ k \in 1..(Len(frames) - 1) /\ k + 1 \in 2..Len(frames)
  <2>1. Len(frames) \in Nat /\ Len(frames) >= 2
    BY TopIs DEF Between
  <2>2. PICK k : k = Len(frames) - 1
    OBVIOUS
  <2>3. k \in Nat /\ k >= 1 /\ k + 1 = Len(frames) /\ k \in 1..Len(frames)
        /\ k \in 1..(Len(frames) - 1) /\ k + 1 \in 2..Len(frames)
    BY <2>1, <2>2
  <2>4. QED
    BY <2>2, <2>3
<1>2. EnteredOK(k + 1) /\ l = WalkAt(k + 1)
  BY <1>1, TopIs DEF WalkInv, FramesOK
<1>3. l \in Members(WalkAt(k)) /\ verdict[l] = Undecided
  BY <1>1, <1>2 DEF EnteredOK
<1>4. PICK w : w = Below
  OBVIOUS
<1>5. w = frames[k] /\ w \in WalkRecord /\ w.walking /\ w.loop = WalkAt(k)
  BY <1>1, <1>4 DEF Below, WalkInv, FramesOK, WalkAt
<1>6. Pushes(w, l, edge', verdict') \in WalkRecord
  BY <1>5, PushesIs DEF WalkInv
<1>7. Stacked(k, Pushes(w, l, edge', verdict'))
  <2>1. Len(frames) > 1
    BY <1>1
  <2>2. frames' = Append(Front(Front(frames)), Pushes(w, l, edge', verdict'))
    BY <1>4
  <2>3. Stacked(Len(frames) - 1, Pushes(w, l, edge', verdict'))
    BY <1>6, <2>1, <2>2, BelowStep
  <2>4. QED
    BY <1>1, <2>3
<1>8. WalkInv'
  BY <1>1, <1>2, <1>3, <1>5, <1>7, DecideStep
<1>9. QED
  BY <1>1, <1>4, <1>7, <1>8

-----------------------------------------------------------------------------
(* The walk implements Dataflow *)

\* The Containers that have a round open, and Outside.
Open == {frames[i].loop : i \in {j \in DOMAIN frames : frames[j].walking}}

LEMMA OpenIs ==
  ASSUME WalkInv, NEW l
  PROVE  l \in Open <=> \E i \in 1..Len(frames) : frames[i].walking /\ WalkAt(i) = l
<1>1. DOMAIN frames = 1..Len(frames)
  BY DEF WalkInv, FramesOK
<1>2. QED
  BY <1>1 DEF Open, WalkAt

\* What is ready in a walk and not decided is due, and live edges are those of live ports.
LEMMA ReadyIsDue ==
  ASSUME WalkInv, NEW k \in 1..Len(frames), frames[k].walking,
         NEW n \in Members(WalkAt(k)), verdict[n] = Undecided, Ready(n, edge),
         k = Len(frames) \/ (n = WalkAt(k + 1) /\ k + 1 = Len(frames) /\ ~frames[k + 1].walking)
  PROVE  n \in graph.nodes /\ D!Due(n) /\ (D!Wanted(n) <=> LiveIncoming(n))
<1>1. Len(frames) \in Nat \ {0} /\ k \in Nat /\ n \in graph.nodes /\ n \in reachable /\ graph.parent[n] = WalkAt(k)
  BY WalksAreProper DEF Members
<1>2. WalkAt(k) \in Open
  BY OpenIs
<1>3. n \notin Open
  <2>1. SUFFICES ASSUME NEW i \in 1..Len(frames), frames[i].walking, WalkAt(i) = n PROVE FALSE
    BY OpenIs
  <2>2. i \in 1..k \/ i = k + 1
    BY <1>1
  <2>3. CASE i \in 1..k
    BY <2>1, <2>3, NotEntered
  <2>4. CASE i = k + 1 /\ i \notin 1..k
    <3>1. k # Len(frames)
      BY <1>1, <2>4
    <3>2. QED
      BY <2>1, <2>4, <3>1
  <2>5. QED
    BY <2>2, <2>3, <2>4
<1>4. /\ \A x \in graph.edges : ~Enters(graph, x) => edge[x] = Seen(x)
      /\ \A x \in In(n) : x \in graph.edges /\ x.to = n /\ x.from \in graph.nodes /\ edge[x] # "pending"
  BY GraphShape DEF WalkInv, EdgesOK, In, Ready
<1>5. ASSUME NEW x \in In(n), Enters(graph, x) PROVE edge[x] = "live"
  <2>1. x.from = WalkAt(k) /\ x.from # Outside
    BY <1>1, <1>4, <1>5, GraphShape DEF Enters, WalkInv
  <2>2. k \in 2..Len(frames)
    <3>1. k # 1
      BY <2>1 DEF WalkInv, FramesOK
    <3>2. QED
      BY <1>1, <3>1
  <2>3. EnteredOK(k)
    BY <2>2 DEF WalkInv, FramesOK
  <2>4. QED
    BY <1>4, <1>5, <2>1, <2>3 DEF EnteredOK
<1>6. ASSUME NEW x \in In(n), ~Enters(graph, x)
      PROVE  verdict[x.from] # Undecided /\ (edge[x] = "live" <=> x.port \in verdict[x.from].live)
  BY <1>4, <1>6 DEF Seen
<1>7. /\ D!In(n) = In(n) /\ D!Undecided = Undecided
      /\ \A x : (D!Enters(x) <=> Enters(graph, x))
  BY DEF D!In, In, D!Undecided, Undecided, D!Enters, Enters
<1>8. \A x \in In(n) : D!Settled(x) /\ (D!Live(x) <=> edge[x] = "live")
  BY <1>5, <1>6, <1>7 DEF D!Settled, D!Live
<1>9. D!Due(n)
  BY <1>1, <1>2, <1>3, <1>7, <1>8 DEF D!Due, Open
<1>10. D!Wanted(n) <=> LiveIncoming(n)
  BY <1>7, <1>8 DEF D!Wanted, LiveIncoming
<1>11. QED
  BY <1>1, <1>9, <1>10

\* When its stack is empty, all that a walk visits is decided.
LEMMA EmptyIsDecided ==
  ASSUME WalkInv, Top.walking, Top.stack = <<>>
  PROVE  \A n \in Members(Top.loop) : verdict[n] # Undecided
<1>1. PICK k \in Nat : k = Len(frames) /\ k \in 1..Len(frames) /\ frames[k] = Top /\ WalkAt(k) = Top.loop
  BY TopIs
<1>2. PICK U : U = {n \in Members(WalkAt(k)) : verdict[n] = Undecided}
  OBVIOUS
<1>3. SUFFICES ASSUME U # {} PROVE FALSE
  BY <1>1, <1>2
<1>4. U \in SUBSET graph.nodes
  BY <1>1, <1>2, WalksAreProper
<1>5. PICK n \in U : \A x \in graph.edges : x.to = n => x.from \notin U
  BY <1>3, <1>4, FirstOf DEF WalkInv
<1>6. n \in Members(WalkAt(k)) /\ verdict[n] = Undecided
  BY <1>2
<1>7. ASSUME NEW x \in In(n) PROVE edge[x] # "pending"
  <2>1. x \in graph.edges /\ x.to = n /\ x.from \notin U /\ n \in reachable /\ graph.parent[n] = WalkAt(k)
    BY <1>5, <1>6 DEF In, Members
  <2>2. x.from \in reachable /\ x.from \in graph.nodes /\ x.from # Outside
        /\ (graph.parent[x.from] = graph.parent[n] \/ Enters(graph, x))
    BY <2>1, ExecutableBack, GraphShape DEF WalkInv
  <2>3. CASE Enters(graph, x)
    <3>1. x.from = WalkAt(k)
      BY <2>1, <2>3 DEF Enters
    <3>2. k # 1
      BY <2>2, <3>1 DEF WalkInv, FramesOK
    <3>3. k \in 2..Len(frames)
      BY <1>1, <3>2
    <3>4. EnteredOK(k) /\ frames[k].walking
      BY <1>1, <3>3 DEF WalkInv, FramesOK
    <3>5. edge[x] = "live"
      BY <2>1, <2>3, <3>1, <3>4 DEF EnteredOK
    <3>6. QED
      BY <3>5
  <2>4. CASE ~Enters(graph, x)
    <3>1. x.from \in Members(WalkAt(k))
      BY <2>1, <2>2, <2>4 DEF Members
    <3>2. verdict[x.from] # Undecided
      BY <1>2, <2>1, <3>1
    <3>3. edge[x] = Seen(x)
      BY <2>1, <2>4 DEF WalkInv, EdgesOK
    <3>4. QED
      BY <3>2, <3>3 DEF Seen
  <2>5. QED
    BY <2>3, <2>4
<1>8. StackOK(k) /\ frames[k].walking /\ Ready(n, edge)
  BY <1>1, <1>7 DEF WalkInv, FramesOK, Ready
<1>9. On(n, frames[k].stack)
  BY <1>1, <1>6, <1>8 DEF StackOK
<1>10. QED
  BY <1>1, <1>9 DEF On

\* Deciding a node neither opens nor closes a round.
LEMMA OpenKept ==
  ASSUME WalkInv, WalkInv', NEW k \in 1..Len(frames), frames[k].walking,
         k = Len(frames) \/ (k + 1 = Len(frames) /\ ~frames[k + 1].walking),
         NEW t, Stacked(k, t), t.walking, t.loop = WalkAt(k)
  PROVE  Open' = Open
<1>1. /\ Len(frames') = k /\ frames'[k] = t /\ \A i \in 1..(k - 1) : frames'[i] = frames[i]
      /\ k \in Nat /\ Len(frames) \in Nat
  BY WalksAreProper DEF Stacked
<1>2. \A i \in 1..k : (frames'[i].walking <=> frames[i].walking) /\ frames'[i].loop = frames[i].loop
  <2>1. \A i \in 1..k : i = k \/ i \in 1..(k - 1)
    BY <1>1
  <2>2. frames'[k].walking /\ frames'[k].loop = frames[k].loop
    BY <1>1 DEF WalkAt
  <2>3. QED
    BY <1>1, <2>1, <2>2
<1>3. \A i \in 1..Len(frames) : frames[i].walking => i \in 1..k
  <2>1. \A i \in 1..Len(frames) : i \in 1..k \/ (i = k + 1 /\ k # Len(frames))
    BY <1>1
  <2>2. QED
    BY <2>1
<1>4. DOMAIN frames = 1..Len(frames) /\ DOMAIN frames' = 1..k /\ \A i \in 1..k : i \in 1..Len(frames)
  BY <1>1 DEF WalkInv, FramesOK
<1>5. {i \in DOMAIN frames : frames[i].walking} = {i \in DOMAIN frames' : frames'[i].walking}
  BY <1>2, <1>3, <1>4
<1>6. PICK P : P = {i \in DOMAIN frames : frames[i].walking}
  OBVIOUS
<1>7. Open = {frames[i].loop : i \in P} /\ Open' = {frames'[i].loop : i \in P}
  BY <1>5, <1>6 DEF Open
<1>8. \A i \in P : frames'[i].loop = frames[i].loop
  BY <1>2, <1>3, <1>4, <1>6
<1>9. QED
  BY <1>7, <1>8

\* The initial state: of the edges none is decided, and only the trigger waits for none.
LEMMA WalkStarts ==
  WalkInit => WalkInv /\ D!Init
<1> SUFFICES ASSUME WalkInit PROVE WalkInv /\ D!Init
  OBVIOUS
<1>1. graph \in Graphs /\ reachable = Executable(graph) /\ begun = 0 /\ outcome = "running"
  BY DEF WalkInit
<1>2. EdgesOK
  <2>1. edge = [x \in graph.edges |-> "pending"] /\ verdict = [n \in graph.nodes |-> Undecided]
    BY DEF WalkInit
  <2>2. \A x \in graph.edges : Seen(x) = "pending"
    BY <1>1, <2>1, GraphShape DEF Seen
  <2>3. QED
    BY <2>1, <2>2 DEF EdgesOK, EdgeState, Verdicts
<1>3. PICK w : w = [loop |-> Outside, walking |-> TRUE, stack |-> <<graph.trigger>>, round |-> 0, tries |-> 1, id |-> 0]
  OBVIOUS
<1>4. frames = <<w>> /\ w \in WalkRecord /\ w.walking = TRUE /\ w.loop = Outside /\ w.stack = <<graph.trigger>>
  <2>1. graph.trigger \in Nat
    BY <1>1, GraphShape
  <2>2. <<graph.trigger>> \in Seq(Nat) /\ Outside \in Nat
    BY <2>1 DEF Outside
  <2>3. w \in WalkRecord
    BY <1>3, <2>2 DEF WalkRecord
  <2>4. frames = <<w>>
    BY <1>1, <1>3 DEF WalkInit, NewWalk
  <2>5. QED
    BY <1>3, <2>3, <2>4
<1>5. frames \in Seq(WalkRecord) /\ Len(frames) = 1 /\ frames[1] = w
  BY <1>4
<1>6. StackOK(1)
  <2>1. ASSUME NEW n \in Members(WalkAt(1)), Ready(n, edge) PROVE On(n, frames[1].stack)
    <3>1. n \in graph.nodes
      BY <1>1, <2>1, ExecutableBack DEF Members
    <3>2. \A x \in In(n) : edge[x] = "pending"
      BY DEF WalkInit, In
    <3>3. \A x \in graph.edges : x.to # n
      BY <2>1, <3>2 DEF Ready, In
    <3>4. n = graph.trigger
      BY <1>1, <3>1, <3>3, OnlyTriggerIsFirst
    <3>5. frames[1].stack = <<n>>
      BY <1>4, <1>5, <3>4
    <3>6. QED
      BY <3>5 DEF On
  <2>2. QED
    BY <2>1 DEF StackOK
<1>7. FramesOK
  BY <1>4, <1>5, <1>6 DEF FramesOK, WalkAt
<1>8. WalkInv
  BY <1>1, <1>2, <1>7 DEF WalkInv
<1>9. Open = {Outside}
  <2>1. DOMAIN frames = {1}
    BY <1>5
  <2>2. QED
    BY <1>4, <1>5, <2>1 DEF Open
<1>10. D!Init
  <2>1. reachable \subseteq graph.nodes
    BY <1>1, ExecutableBack
  <2>2. verdict = [n \in graph.nodes |-> D!Undecided]
    BY DEF WalkInit, Undecided, D!Undecided
  <2>3. QED
    BY <1>1, <1>9, <2>1, <2>2 DEF D!Init, Open
<1>11. QED
  BY <1>8, <1>10

LEMMA DecideMaps ==
  ASSUME NEW n \in graph.nodes, D!Due(n), NEW v, verdict' = [verdict EXCEPT ![n] = v],
         IF D!Wanted(n) THEN \E ports \in SUBSET graph.ports[n] : v = Ran(ports) ELSE v = Dead,
         Open' = Open, UNCHANGED <<graph, reachable, outcome>>
  PROVE  D!Next
<1>1. CASE D!Wanted(n)
  <2>1. PICK ports \in SUBSET graph.ports[n] : v = Ran(ports)
    BY <1>1
  <2>2. verdict' = [verdict EXCEPT ![n] = D!Ran(ports)]
    BY <2>1 DEF Ran, D!Ran
  <2>3. QED
    BY <1>1, <2>2 DEF D!Next, D!Decide, Open
<1>2. CASE ~D!Wanted(n)
  <2>1. verdict' = [verdict EXCEPT ![n] = D!Dead]
    BY <1>2 DEF Dead, D!Dead
  <2>2. QED
    BY <1>2, <2>1 DEF D!Next, D!Decide, Open
<1>3. QED
  BY <1>1, <1>2

\* The node on top of the stack, decided.
LEMMA TopMaps ==
  ASSUME WalkInv, Walking, Takes(Here), NEW v \in Verdicts(Here), v # Undecided,
         IF LiveIncoming(Here) THEN \E ports \in SUBSET graph.ports[Here] : v = Ran(ports) ELSE v = Dead,
         UNCHANGED <<graph, reachable, begun, outcome>>,
         edge' \in [graph.edges -> EdgeState],
         \A x \in graph.edges : x.from # Here => edge'[x] = edge[x],
         \A x \in graph.edges : x.from = Here /\ ~Enters(graph, x) =>
           edge'[x] = IF x.port \in v.live THEN "live" ELSE "dead",
         verdict' = [verdict EXCEPT ![Here] = v],
         frames' = Append(Front(frames), Pushes(Popped, Here, edge', verdict'))
  PROVE  WalkInv' /\ D!Next
<1>1. PICK k \in Nat : k = Len(frames) /\ k \in 1..Len(frames) /\ frames[k] = Top
  BY TopIs
<1>2. PICK n, w, t : n = Here /\ w = Popped /\ t = Pushes(w, n, edge', verdict')
  OBVIOUS
<1>3. WalkInv' /\ Stacked(k, t) /\ n \in Members(WalkAt(k))
  BY <1>1, <1>2, TopDecides
<1>4. w \in WalkRecord /\ w.loop = WalkAt(k) /\ w.walking /\ frames[k].walking
  BY <1>1, <1>2, PoppedIs, TopIs
<1>5. t.walking /\ t.loop = WalkAt(k)
  BY <1>2, <1>4, PushesIs DEF WalkInv
<1>6. Open' = Open
  BY <1>1, <1>3, <1>4, <1>5, OpenKept
<1>7. n \in graph.nodes /\ D!Due(n) /\ (D!Wanted(n) <=> LiveIncoming(n))
  BY <1>1, <1>2, <1>3, <1>4, ReadyIsDue DEF Takes
<1>8. D!Next
  BY <1>2, <1>6, <1>7, DecideMaps
<1>9. QED
  BY <1>3, <1>8

LEMMA KillOrPassMaps ==
  ASSUME WalkInv, NEW n \in graph.nodes, KillOrPass(n)
  PROVE  WalkInv' /\ (D!Next \/ UNCHANGED D!vars)
<1>1. Walking /\ n = Here /\ ~Executes(n) /\ UNCHANGED <<graph, reachable, out, begun, outcome>>
  BY DEF KillOrPass
<1>2. CASE Takes(n)
  <2>1. ~LiveIncoming(n)
    BY <1>1, <1>2 DEF Executes
  <2>2. edge' = Killed(n) /\ verdict' = [verdict EXCEPT ![n] = Dead]
        /\ frames' = Append(Front(frames), Pushes(Popped, n, edge', verdict'))
    BY <1>2 DEF KillOrPass, Decide
  <2>3. Dead \in Verdicts(n) /\ Dead # Undecided
    BY DEF Verdicts, Dead, Undecided
  <2>4. /\ edge' \in [graph.edges -> EdgeState]
        /\ \A x \in graph.edges : x.from # n => edge'[x] = edge[x]
        /\ \A x \in graph.edges : x.from = n /\ ~Enters(graph, x) =>
             edge'[x] = IF x.port \in Dead.live THEN "live" ELSE "dead"
    BY <2>2, KilledIs
  <2>5. WalkInv' /\ D!Next
    BY <1>1, <1>2, <2>1, <2>2, <2>3, <2>4, TopMaps
  <2>6. QED
    BY <2>5
<1>3. CASE ~Takes(n)
  <2>1. frames' = Append(Front(frames), Popped) /\ UNCHANGED <<edge, verdict>>
    BY <1>3 DEF KillOrPass
  <2>2. WalkInv' /\ Stacked(Len(frames), Popped)
    BY <1>1, <1>3, <2>1, PassStep
  <2>3. Open' = Open
    <3>1. PICK k \in Nat : k = Len(frames) /\ k \in 1..Len(frames)
      BY TopIs
    <3>2. Popped.walking /\ Popped.loop = WalkAt(k) /\ frames[k].walking
      BY <1>1, <3>1, PoppedIs, TopIs
    <3>3. QED
      BY <2>2, <3>1, <3>2, OpenKept
  <2>4. UNCHANGED D!vars
    BY <1>1, <2>1, <2>3 DEF D!vars, Open
  <2>5. QED
    BY <2>2, <2>4
<1>4. QED
  BY <1>2, <1>3

LEMMA RunNodeMaps ==
  ASSUME WalkInv, NEW n \in graph.nodes, RunNode(n)
  PROVE  WalkInv' /\ D!Next
<1>1. Walking /\ n = Here /\ Takes(n) /\ LiveIncoming(n) /\ UNCHANGED <<graph, reachable, begun, outcome>>
  BY DEF RunNode, Executes
<1>2. PICK live \in SUBSET graph.ports[n] : Decide(Front(frames), Popped, n, Settled(n, live), Ran(live))
  BY DEF RunNode
<1>3. edge' = Settled(n, live) /\ verdict' = [verdict EXCEPT ![n] = Ran(live)]
      /\ frames' = Append(Front(frames), Pushes(Popped, n, edge', verdict'))
  BY <1>2 DEF Decide
<1>4. PICK v : v = Ran(live) /\ v \in Verdicts(n) /\ v # Undecided /\ v.live = live
  BY VerdictsAre
<1>5. /\ edge' \in [graph.edges -> EdgeState]
      /\ \A x \in graph.edges : x.from # n => edge'[x] = edge[x]
      /\ \A x \in graph.edges : x.from = n /\ ~Enters(graph, x) =>
           edge'[x] = IF x.port \in v.live THEN "live" ELSE "dead"
  BY <1>3, <1>4, SettledIs
<1>6. QED
  BY <1>1, <1>3, <1>4, <1>5, TopMaps

\* Between two rounds the Container is the top walk, with no round open, and it is due
\* in the walk below.
LEMMA BetweenIs ==
  ASSUME WalkInv, Between
  PROVE  \E k \in Nat :
           /\ k + 1 = Len(frames) /\ k \in 1..Len(frames) /\ frames[k].walking /\ ~frames[k + 1].walking
           /\ Top.loop = WalkAt(k + 1) /\ Top.loop \in Members(WalkAt(k)) /\ Top.loop \in graph.loops
           /\ Top.loop \in graph.nodes /\ D!Due(Top.loop) /\ D!Wanted(Top.loop)
<1>1. PICK k : k = Len(frames) - 1
  OBVIOUS
<1>2. /\ k \in Nat /\ k + 1 = Len(frames) /\ k \in 1..Len(frames) /\ k \in 1..(Len(frames) - 1)
      /\ k + 1 \in 2..Len(frames)
  <2>1. Len(frames) \in Nat /\ Len(frames) >= 2
    BY TopIs DEF Between
  <2>2. QED
    BY <1>1, <2>1
<1>3. PICK l : l = Top.loop
  OBVIOUS
<1>4. EnteredOK(k + 1) /\ l = WalkAt(k + 1) /\ frames[k].walking /\ ~frames[k + 1].walking
  BY <1>2, <1>3, TopIs DEF WalkInv, FramesOK, Between
<1>5. l \in graph.loops /\ l \in Members(WalkAt(k)) /\ verdict[l] = Undecided /\ Ready(l, edge) /\ LiveIncoming(l)
  <2>1. WalkAt((k + 1) - 1) = WalkAt(k)
    BY <1>2
  <2>2. QED
    BY <1>4, <2>1 DEF EnteredOK
<1>6. l \in graph.nodes /\ D!Due(l) /\ D!Wanted(l)
  BY <1>2, <1>4, <1>5, ReadyIsDue
<1>7. QED
  BY <1>2, <1>3, <1>4, <1>5, <1>6

LEMMA FinishLoopMaps ==
  ASSUME WalkInv, FinishLoop
  PROVE  WalkInv' /\ D!Next
<1>1. Between /\ UNCHANGED <<graph, reachable, begun, outcome>>
  BY DEF FinishLoop
<1>2. PICK k \in Nat :
        /\ k + 1 = Len(frames) /\ k \in 1..Len(frames) /\ frames[k].walking /\ ~frames[k + 1].walking
        /\ Top.loop = WalkAt(k + 1) /\ Top.loop \in Members(WalkAt(k)) /\ Top.loop \in graph.loops
        /\ Top.loop \in graph.nodes /\ D!Due(Top.loop) /\ D!Wanted(Top.loop)
  BY <1>1, BetweenIs
<1>3. PICK l : l = Top.loop
  OBVIOUS
<1>4. PICK live \in {{"done"}, {"each", "done"}} :
        Decide(Front(Front(frames)), Below, l, Settled(l, live), Ran(live))
  BY <1>3 DEF FinishLoop
<1>5. edge' = Settled(l, live) /\ verdict' = [verdict EXCEPT ![l] = Ran(live)]
      /\ frames' = Append(Front(Front(frames)), Pushes(Below, l, edge', verdict'))
  BY <1>4 DEF Decide
<1>6. live \in SUBSET graph.ports[l]
  <2>1. {"each", "done"} \subseteq graph.ports[l]
    BY <1>2, <1>3, GraphShape DEF WalkInv
  <2>2. QED
    BY <2>1
<1>7. PICK v : v = Ran(live) /\ v \in Verdicts(l) /\ v # Undecided /\ v.live = live
  BY <1>6, VerdictsAre
<1>8. /\ edge' \in [graph.edges -> EdgeState]
      /\ \A x \in graph.edges : x.from # l => edge'[x] = edge[x]
      /\ \A x \in graph.edges : x.from = l /\ ~Enters(graph, x) =>
           edge'[x] = IF x.port \in v.live THEN "live" ELSE "dead"
  BY <1>2, <1>3, <1>5, <1>7, SettledIs
<1>9. WalkInv' /\ Stacked(Len(frames) - 1, Pushes(Below, l, edge', verdict'))
  BY <1>1, <1>3, <1>5, <1>7, <1>8, BelowDecides
<1>10. PICK w, t : w = Below /\ t = Pushes(w, l, edge', verdict')
  OBVIOUS
<1>11. Len(frames) - 1 = k /\ w = frames[k] /\ w \in WalkRecord
  <2>1. Len(frames) - 1 = k
    BY <1>2
  <2>2. QED
    BY <1>2, <1>10, <2>1, WalksAreProper DEF Below
<1>12. Stacked(k, t) /\ t.walking /\ t.loop = WalkAt(k)
  BY <1>2, <1>9, <1>10, <1>11, PushesIs DEF WalkInv, WalkAt
<1>13. Open' = Open
  BY <1>2, <1>9, <1>12, OpenKept
<1>14. D!Next
  BY <1>1, <1>2, <1>3, <1>5, <1>6, <1>7, <1>13, DecideMaps
<1>15. QED
  BY <1>9, <1>14

LEMMA UpTo ==
  ASSUME NEW k \in Nat
  PROVE  \A i \in 1..k : (i = k /\ k \notin 1..(k - 1)) \/ (i \in 1..(k - 1) /\ i # k)
OBVIOUS

\* A round is opened when the top walk begins to walk.
LEMMA OpenGrows ==
  ASSUME WalkInv, WalkInv', Len(frames') = Len(frames), NEW k \in Nat, k = Len(frames),
         \A i \in 1..(k - 1) : frames'[i] = frames[i],
         ~frames[k].walking, frames'[k].walking, frames'[k].loop = WalkAt(k)
  PROVE  Open' = Open \cup {WalkAt(k)}
<1>1. k >= 1 /\ DOMAIN frames = 1..k /\ DOMAIN frames' = 1..k
  BY TopIs DEF WalkInv, FramesOK
<1>2. ASSUME NEW l PROVE l \in Open' <=> l \in Open \/ l = WalkAt(k)
  <2>1. l \in Open' <=> \E i \in 1..k : frames'[i].walking /\ frames'[i].loop = l
    BY <1>1 DEF Open
  <2>2. l \in Open <=> \E i \in 1..k : frames[i].walking /\ frames[i].loop = l
    BY <1>1 DEF Open
  <2>3. \A i \in 1..k : (i = k /\ k \notin 1..(k - 1)) \/ (i \in 1..(k - 1) /\ i # k)
    BY UpTo
  <2>4. k \in 1..k /\ \A i \in 1..(k - 1) : i \in 1..k
    BY <1>1
  <2>5. QED
    BY <2>1, <2>2, <2>3, <2>4
<1>3. QED
  BY <1>2

\* It is closed when the top walk rests.
LEMMA OpenShrinks ==
  ASSUME WalkInv, WalkInv', Len(frames') = Len(frames), NEW k \in Nat, k = Len(frames),
         \A i \in 1..(k - 1) : frames'[i] = frames[i],
         ~frames'[k].walking
  PROVE  Open' = Open \ {WalkAt(k)}
<1>1. k >= 1 /\ DOMAIN frames = 1..k /\ DOMAIN frames' = 1..k
  BY TopIs DEF WalkInv, FramesOK
<1>2. ASSUME NEW l PROVE l \in Open' <=> l \in Open /\ l # WalkAt(k)
  <2>1. l \in Open' <=> \E i \in 1..k : frames'[i].walking /\ frames'[i].loop = l
    BY <1>1 DEF Open
  <2>2. l \in Open <=> \E i \in 1..k : frames[i].walking /\ WalkAt(i) = l
    BY <1>1 DEF Open, WalkAt
  <2>3. \A i \in 1..k : (i = k /\ k \notin 1..(k - 1)) \/ (i \in 1..(k - 1) /\ i # k)
    BY UpTo
  <2>4. k \in 1..k /\ \A i \in 1..(k - 1) : i \in 1..k
    BY <1>1
  <2>5. \A i \in 1..k : WalkAt(i) = WalkAt(k) => i = k
    BY <2>4 DEF WalkInv, FramesOK
  <2>6. CASE l = WalkAt(k)
    <3>1. \A i \in 1..(k - 1) : frames'[i].loop # l
      BY <2>3, <2>4, <2>5, <2>6 DEF WalkAt
    <3>2. QED
      BY <2>1, <2>3, <2>6, <3>1
  <2>7. CASE l # WalkAt(k)
    BY <2>1, <2>2, <2>3, <2>4, <2>7 DEF WalkAt
  <2>8. QED
    BY <2>6, <2>7
<1>3. QED
  BY <1>2

LEMMA RunRoundMaps ==
  ASSUME WalkInv, RunRound
  PROVE  WalkInv' /\ D!Next
<1>1. Between /\ UNCHANGED <<graph, reachable, outcome>>
  BY DEF RunRound
<1>2. PICK k \in Nat :
        /\ k + 1 = Len(frames) /\ k \in 1..Len(frames) /\ frames[k].walking /\ ~frames[k + 1].walking
        /\ Top.loop = WalkAt(k + 1) /\ Top.loop \in Members(WalkAt(k)) /\ Top.loop \in graph.loops
        /\ Top.loop \in graph.nodes /\ D!Due(Top.loop) /\ D!Wanted(Top.loop)
  BY <1>1, BetweenIs
<1>3. PICK c \in Nat : c = k + 1 /\ c = Len(frames)
  BY <1>2
<1>4. PICK l : l = Top.loop
  OBVIOUS
<1>5. /\ WalkInv' /\ Len(frames') = Len(frames) /\ frames'[c].loop = l /\ frames'[c].walking
      /\ \A i \in 1..(c - 1) : frames'[i] = frames[i]
  BY <1>3, <1>4, RoundStep
<1>6. Open' = Open \cup {l}
  BY <1>2, <1>3, <1>4, <1>5, OpenGrows
<1>7. verdict' = [n \in graph.nodes |-> IF n \in Inside(l) THEN Undecided ELSE verdict[n]]
  BY <1>4 DEF RunRound
<1>8. verdict' = [n \in graph.nodes |-> IF graph.parent[n] = l THEN D!Undecided ELSE verdict[n]]
  BY <1>7 DEF Inside, Undecided, D!Undecided
<1>9. D!OpenRound(l)
  BY <1>1, <1>2, <1>4, <1>6, <1>8 DEF D!OpenRound, Open
<1>10. QED
  BY <1>2, <1>4, <1>5, <1>9 DEF D!Next

LEMMA RestedIs ==
  ASSUME NEW t \in WalkRecord
  PROVE  /\ [t EXCEPT !.walking = FALSE] \in WalkRecord
         /\ [t EXCEPT !.walking = FALSE].loop = t.loop /\ ~[t EXCEPT !.walking = FALSE].walking
BY DEF WalkRecord

LEMMA EndRoundMaps ==
  ASSUME WalkInv, EndRound
  PROVE  WalkInv' /\ D!Next
<1>1. /\ Top.walking /\ Top.stack = <<>> /\ Top.loop # Outside
      /\ frames' = Append(Front(frames), [Top EXCEPT !.walking = FALSE])
      /\ UNCHANGED <<graph, reachable, edge, verdict, out, begun, outcome>>
  BY DEF EndRound
<1>2. PICK k \in Nat : k = Len(frames) /\ k >= 2 /\ k \in 2..Len(frames) /\ k \in 1..Len(frames)
                       /\ frames[k] = Top /\ Top.loop = WalkAt(k)
  <2>1. Len(frames) \in Nat /\ Len(frames) >= 2 /\ Top = frames[Len(frames)] /\ Top.loop = WalkAt(Len(frames))
    BY <1>1, TopIs
  <2>2. QED
    BY <2>1
<1>3. PICK t \in WalkRecord : t = [Top EXCEPT !.walking = FALSE] /\ t.loop = Top.loop /\ ~t.walking
  BY TopIs, RestedIs
<1>4. WalkInv' /\ Stacked(Len(frames), t)
  <2>1. UNCHANGED <<graph, reachable, edge, verdict, begun>> /\ Len(frames) >= 2
    BY <1>1, <1>2
  <2>2. QED
    BY <1>1, <1>3, <2>1, RestStep
<1>5. /\ Len(frames') = Len(frames) /\ ~frames'[k].walking
      /\ \A i \in 1..(k - 1) : frames'[i] = frames[i]
  BY <1>2, <1>3, <1>4 DEF Stacked
<1>6. PICK l : l = Top.loop
  OBVIOUS
<1>7. Open' = Open \ {l}
  BY <1>2, <1>4, <1>5, <1>6, OpenShrinks
<1>8. l \in Open
  BY <1>1, <1>2, <1>6, OpenIs
<1>9. l \in graph.nodes
  <2>1. l \in graph.loops
    BY <1>2, <1>6 DEF WalkInv, FramesOK, EnteredOK
  <2>2. QED
    BY <2>1, GraphShape DEF WalkInv
<1>10. \A n \in D!Scope(l) : verdict[n] # D!Undecided
  BY <1>1, <1>6, EmptyIsDecided DEF D!Scope, Members, Undecided, D!Undecided
<1>11. D!CloseRound(l)
  BY <1>1, <1>6, <1>7, <1>8, <1>10 DEF D!CloseRound, Open
<1>12. QED
  BY <1>4, <1>9, <1>11 DEF D!Next

LEMMA RetryLoopMaps ==
  ASSUME WalkInv, RetryLoop
  PROVE  WalkInv' /\ UNCHANGED D!vars
<1>1. /\ Between /\ frames' = Append(Front(frames), NoRound(Top.loop, Top.tries + 1))
      /\ UNCHANGED <<graph, reachable, edge, verdict, out, begun, outcome>>
  BY DEF RetryLoop
<1>2. PICK k \in Nat : k = Len(frames) /\ k >= 2 /\ frames[k] = Top /\ Top.loop = WalkAt(k) /\ ~frames[k].walking
                       /\ k \in 1..Len(frames)
  <2>1. Len(frames) \in Nat /\ Len(frames) >= 2 /\ Top = frames[Len(frames)] /\ Top.loop = WalkAt(Len(frames))
    BY <1>1, TopIs DEF Between
  <2>2. ~Top.walking
    BY <1>1 DEF Between
  <2>3. QED
    BY <2>1, <2>2
<1>3. Top.loop \in Nat /\ Top.tries + 1 \in Nat
  BY TopIs DEF WalkRecord
<1>4. PICK t \in WalkRecord : t = NoRound(Top.loop, Top.tries + 1) /\ t.loop = Top.loop /\ ~t.walking
  BY <1>3, NoRoundIs DEF WalkInv
<1>5. WalkInv' /\ Stacked(Len(frames), t)
  <2>1. UNCHANGED <<graph, reachable, edge, verdict, begun>> /\ Len(frames) >= 2
    BY <1>1, <1>2
  <2>2. QED
    BY <1>1, <1>4, <2>1, RestStep
<1>6. /\ Len(frames') = Len(frames) /\ ~frames'[k].walking
      /\ \A i \in 1..(k - 1) : frames'[i] = frames[i]
  BY <1>2, <1>4, <1>5 DEF Stacked
<1>7. Open' = Open \ {WalkAt(k)}
  BY <1>2, <1>5, <1>6, OpenShrinks
<1>8. WalkAt(k) \notin Open
  <2>1. \A i \in 1..Len(frames) : WalkAt(i) = WalkAt(k) => i = k
    BY <1>2 DEF WalkInv, FramesOK
  <2>2. QED
    BY <1>2, <2>1, OpenIs
<1>9. Open' = Open
  BY <1>7, <1>8
<1>10. QED
  BY <1>1, <1>5, <1>9 DEF D!vars, Open

LEMMA EnterLoopMaps ==
  ASSUME WalkInv, NEW n \in graph.nodes, EnterLoop(n)
  PROVE  WalkInv' /\ UNCHANGED D!vars
<1>1. UNCHANGED <<graph, reachable, edge, verdict, out, begun, outcome>> /\ Walking
  BY DEF EnterLoop, Executes
<1>2. PICK k \in Nat : k = Len(frames) /\ k \in 1..Len(frames) /\ frames[k] = Top /\ frames[k].walking
  <2>1. Top.walking
    BY <1>1 DEF Walking
  <2>2. QED
    BY <2>1, TopIs
<1>3. /\ WalkInv' /\ Len(frames') = k + 1 /\ ~frames'[k + 1].walking
      /\ frames'[k].loop = frames[k].loop /\ frames'[k].walking
      /\ \A i \in 1..(k - 1) : frames'[i] = frames[i]
  <2>1. /\ WalkInv' /\ Len(frames') = Len(frames) + 1 /\ ~frames'[Len(frames')].walking
        /\ frames'[Len(frames)].loop = Top.loop /\ frames'[Len(frames)].walking
        /\ \A i \in 1..(Len(frames) - 1) : frames'[i] = frames[i]
    BY EnterStep
  <2>2. QED
    BY <1>2, <2>1
<1>4. PICK c \in Nat : c = k + 1 /\ c - 1 = k
  BY <1>2
<1>5. \A i \in 1..c : (i = c /\ c \notin 1..k) \/ (i \in 1..k /\ i # c)
  BY <1>4, UpTo
<1>6. \A i \in 1..k : i \in 1..c /\ (i = k \/ i \in 1..(k - 1))
  BY <1>4, UpTo
<1>7. DOMAIN frames = 1..k /\ DOMAIN frames' = 1..c
  BY <1>2, <1>3, <1>4 DEF WalkInv, FramesOK
<1>8. \A i \in 1..k : (frames'[i].walking <=> frames[i].walking) /\ frames'[i].loop = frames[i].loop
  BY <1>2, <1>3, <1>6
<1>9. {i \in DOMAIN frames : frames[i].walking} = {i \in DOMAIN frames' : frames'[i].walking}
  BY <1>3, <1>4, <1>5, <1>6, <1>7, <1>8
<1>10. PICK P : P = {i \in DOMAIN frames : frames[i].walking}
  OBVIOUS
<1>11. Open = {frames[i].loop : i \in P} /\ Open' = {frames'[i].loop : i \in P}
  BY <1>9, <1>10 DEF Open
<1>12. \A i \in P : frames'[i].loop = frames[i].loop
  BY <1>7, <1>8, <1>10
<1>13. Open' = Open
  BY <1>11, <1>12
<1>14. QED
  BY <1>1, <1>3, <1>13 DEF D!vars, Open

LEMMA SameWalks ==
  ASSUME WalkInv, UNCHANGED <<graph, reachable, edge, frames, verdict, begun>>
  PROVE  WalkInv' /\ Open' = Open
<1>1. EdgesOK' /\ FramesOK'
  BY DEF WalkInv, EdgesOK, FramesOK, EnteredOK, StackOK, Seen, Verdicts, Enters, WalkAt, Members, Ready,
         LiveIncoming, In
<1>2. QED
  BY <1>1 DEF WalkInv, Open

LEMMA EndWalkMaps ==
  ASSUME WalkInv, EndWalk
  PROVE  WalkInv' /\ D!Next
<1>1. /\ outcome = "running" /\ Top.walking /\ Top.stack = <<>> /\ Top.loop = Outside /\ outcome' = "succeeded"
      /\ UNCHANGED <<graph, reachable, edge, frames, verdict, out, begun>>
  BY DEF EndWalk
<1>2. WalkInv' /\ Open' = Open
  BY <1>1, SameWalks
<1>3. \A n \in D!Scope(Outside) : verdict[n] # D!Undecided
  BY <1>1, EmptyIsDecided DEF D!Scope, Members, Undecided, D!Undecided
<1>4. D!Complete
  BY <1>1, <1>2, <1>3 DEF D!Complete, Open
<1>5. QED
  BY <1>2, <1>4 DEF D!Next

\* A step that ends the run short of success, or takes no turn at all.
LEMMA StopMaps ==
  ASSUME WalkInv, UNCHANGED <<graph, reachable, edge, frames, verdict, begun>>,
         outcome' = outcome \/ (outcome = "running" /\ outcome' \in {"cancelled", "failed"})
  PROVE  WalkInv' /\ UNCHANGED D!vars
<1>1. WalkInv' /\ Open' = Open
  BY SameWalks
<1>2. (outcome' = "succeeded") = (outcome = "succeeded")
  OBVIOUS
<1>3. QED
  BY <1>1, <1>2 DEF D!vars, Open

LEMMA WalkSteps ==
  WalkInv /\ [WalkNext]_walkVars => WalkInv' /\ [D!Next]_(D!vars)
<1> SUFFICES ASSUME WalkInv, [WalkNext]_walkVars PROVE WalkInv' /\ (D!Next \/ UNCHANGED D!vars)
  OBVIOUS
<1>1. CASE Halt
  BY <1>1, StopMaps DEF Halt, Walking, Between
<1>2. CASE RunRound
  BY <1>2, RunRoundMaps
<1>3. CASE EndRound
  BY <1>3, EndRoundMaps
<1>4. CASE RetryLoop
  BY <1>4, RetryLoopMaps
<1>5. CASE FinishLoop
  BY <1>5, FinishLoopMaps
<1>6. CASE FailLoop
  BY <1>6, StopMaps DEF FailLoop, Between
<1>7. CASE EndWalk
  BY <1>7, EndWalkMaps
<1>8. ASSUME NEW n \in graph.nodes, KillOrPass(n) \/ RunNode(n) \/ FailNode(n) \/ EnterLoop(n)
      PROVE  WalkInv' /\ (D!Next \/ UNCHANGED D!vars)
  <2>1. CASE KillOrPass(n)
    BY <2>1, KillOrPassMaps
  <2>2. CASE RunNode(n)
    BY <2>2, RunNodeMaps
  <2>3. CASE FailNode(n)
    BY <2>3, StopMaps DEF FailNode, Executes, Walking
  <2>4. CASE EnterLoop(n)
    BY <2>4, EnterLoopMaps
  <2>5. QED
    BY <1>8, <2>1, <2>2, <2>3, <2>4
<1>9. CASE UNCHANGED walkVars
  BY <1>9, StopMaps DEF walkVars
<1>10. QED
  BY <1>1, <1>2, <1>3, <1>4, <1>5, <1>6, <1>7, <1>8, <1>9 DEF WalkNext

\* What the edges and the stacks say is so at every step of the walk.
LEMMA WalkInvHolds == WalkSpec => []WalkInv
<1>1. WalkInit => WalkInv
  BY WalkStarts
<1>2. WalkInv /\ [WalkNext]_walkVars => WalkInv'
  BY WalkSteps
<1>3. QED
  BY <1>1, <1>2, PTL DEF WalkSpec

\* The walk implements Dataflow: whatever the graph, a node is decided once and after its
\* predecessors, it runs exactly when a live edge enters it, a round starts afresh, and
\* neither a round nor the run ends before all in its scope is decided.
THEOREM WalkFollowsDataflow == WalkSpec => FollowsDataflow
<1>1. WalkInit => D!Init
  BY WalkStarts
<1>2. WalkInv /\ [WalkNext]_walkVars => [D!Next]_(D!vars)
  BY WalkSteps
<1>3. QED
  BY <1>1, <1>2, WalkInvHolds, PTL DEF WalkSpec, FollowsDataflow, D!Spec

-----------------------------------------------------------------------------
(* Outputs *)

\* What is stored of a walk's nodes is of its round in progress.
FreshInv ==
  /\ DOMAIN out = graph.nodes
  /\ \A i \in 1..Len(frames) : frames[i].walking =>
       \A n \in Members(WalkAt(i)) : out[n] \in {-1, frames[i].id}

\* The walks in progress stay what they are, and what is stored is of the k-th.
LEMMA FreshStep ==
  ASSUME WalkInv, FreshInv, UNCHANGED <<graph, reachable>>, NEW k \in 1..Len(frames),
         Len(frames') \in Nat, DOMAIN out' = graph.nodes,
         \A i \in 1..Len(frames') : frames'[i].walking =>
           i \in 1..Len(frames) /\ frames[i].walking /\ frames'[i].loop = WalkAt(i) /\ frames'[i].id = frames[i].id,
         \A m \in graph.nodes : out'[m] = out[m] \/ (m \in Members(WalkAt(k)) /\ out'[m] = frames[k].id)
  PROVE  FreshInv'
<1>1. ASSUME NEW i \in 1..Len(frames'), frames'[i].walking, NEW m \in Members(WalkAt(i)')
      PROVE  out'[m] \in {-1, frames'[i].id}
  <2>1. i \in 1..Len(frames) /\ frames[i].walking /\ WalkAt(i)' = WalkAt(i) /\ frames'[i].id = frames[i].id
    BY <1>1 DEF WalkAt
  <2>2. m \in Members(WalkAt(i)) /\ m \in graph.nodes /\ graph.parent[m] = WalkAt(i)
    BY <1>1, <2>1, WalksAreProper DEF Members
  <2>3. CASE out'[m] = out[m]
    BY <2>1, <2>2, <2>3 DEF FreshInv
  <2>4. CASE m \in Members(WalkAt(k)) /\ out'[m] = frames[k].id
    <3>1. WalkAt(i) = WalkAt(k)
      BY <2>2, <2>4 DEF Members
    <3>2. i = k
      BY <2>1, <3>1 DEF WalkInv, FramesOK
    <3>3. QED
      BY <2>1, <2>4, <3>2
  <2>5. QED
    BY <2>2, <2>3, <2>4
<1>2. \A l : Members(l)' = Members(l)
  BY DEF Members
<1>3. QED
  BY <1>1, <1>2 DEF FreshInv

LEMMA RunNodeFresh ==
  ASSUME WalkInv, FreshInv, NEW n \in graph.nodes, RunNode(n)
  PROVE  FreshInv'
<1>1. Walking /\ n = Here /\ Takes(n) /\ UNCHANGED <<graph, reachable>> /\ out' = [out EXCEPT ![n] = Top.id]
  BY DEF RunNode, Executes
<1>2. PICK k \in Nat : k = Len(frames) /\ k \in 1..Len(frames) /\ frames[k] = Top
  BY TopIs
<1>3. n \in Members(WalkAt(k))
  BY <1>1, <1>2, TopIs DEF Takes
<1>4. PICK w : w = Popped
  OBVIOUS
<1>5. w \in WalkRecord /\ w.loop = WalkAt(k) /\ w.walking /\ w.id = frames[k].id /\ frames[k].walking
  BY <1>1, <1>2, <1>4, PoppedIs, TopIs
<1>6. PICK live : Decide(Front(frames), w, n, Settled(n, live), Ran(live))
  BY <1>4 DEF RunNode
<1>7. PICK t : t = Pushes(w, n, Settled(n, live), verdict')
  OBVIOUS
<1>8. t \in WalkRecord /\ t.loop = WalkAt(k) /\ t.id = frames[k].id
  BY <1>5, <1>7, PushesIs DEF WalkInv
<1>9. Stacked(k, t)
  <2>1. frames' = Append(Front(frames), t)
    BY <1>6, <1>7 DEF Decide
  <2>2. QED
    BY <1>2, <1>8, <2>1, TopStep
<1>10. Len(frames') = k /\ frames'[k] = t /\ \A i \in 1..(k - 1) : frames'[i] = frames[i]
  BY <1>9 DEF Stacked
<1>11. \A i \in 1..Len(frames') : frames'[i].walking =>
         i \in 1..Len(frames) /\ frames[i].walking /\ frames'[i].loop = WalkAt(i) /\ frames'[i].id = frames[i].id
  <2>1. \A i \in 1..k : i = k \/ i \in 1..(k - 1)
    BY UpTo
  <2>2. QED
    BY <1>2, <1>5, <1>8, <1>10, <2>1 DEF WalkAt
<1>12. DOMAIN out' = graph.nodes /\ \A m \in graph.nodes : out'[m] = out[m] \/ (m = n /\ out'[m] = frames[k].id)
  BY <1>1, <1>2 DEF FreshInv
<1>13. QED
  BY <1>1, <1>2, <1>3, <1>10, <1>11, <1>12, FreshStep

LEMMA FinishLoopFresh ==
  ASSUME WalkInv, FreshInv, FinishLoop
  PROVE  FreshInv'
<1>1. Between /\ UNCHANGED <<graph, reachable>> /\ out' = [out EXCEPT ![Top.loop] = Below.id]
  BY DEF FinishLoop
<1>2. PICK k \in Nat :
        /\ k + 1 = Len(frames) /\ k \in 1..Len(frames) /\ frames[k].walking
        /\ Top.loop \in Members(WalkAt(k)) /\ Top.loop \in graph.nodes
  BY <1>1, BetweenIs
<1>3. PICK l, w : l = Top.loop /\ w = Below
  OBVIOUS
<1>4. Len(frames) - 1 = k /\ w = frames[k] /\ w \in WalkRecord /\ Len(frames) > 1
  <2>1. Len(frames) - 1 = k /\ Len(frames) > 1
    BY <1>2
  <2>2. QED
    BY <1>2, <1>3, <2>1, WalksAreProper DEF Below
<1>5. PICK live : Decide(Front(Front(frames)), w, l, Settled(l, live), Ran(live))
  BY <1>3 DEF FinishLoop
<1>6. PICK t : t = Pushes(w, l, Settled(l, live), verdict')
  OBVIOUS
<1>7. t \in WalkRecord /\ t.loop = WalkAt(k) /\ t.id = frames[k].id
  BY <1>4, <1>6, PushesIs DEF WalkInv, WalkAt
<1>8. Stacked(Len(frames) - 1, t)
  <2>1. frames' = Append(Front(Front(frames)), t)
    BY <1>5, <1>6 DEF Decide
  <2>2. QED
    BY <1>4, <1>7, <2>1, BelowStep
<1>9. Len(frames') = k /\ frames'[k] = t /\ \A i \in 1..(k - 1) : frames'[i] = frames[i]
  BY <1>4, <1>8 DEF Stacked
<1>10. \A i \in 1..k : i \in 1..Len(frames) /\ (i = k \/ i \in 1..(k - 1))
  <2>1. \A i \in 1..k : i \in 1..Len(frames)
    BY <1>2
  <2>2. QED
    BY <2>1, UpTo
<1>11. \A i \in 1..Len(frames') : frames'[i].walking =>
         i \in 1..Len(frames) /\ frames[i].walking /\ frames'[i].loop = WalkAt(i) /\ frames'[i].id = frames[i].id
  BY <1>2, <1>7, <1>9, <1>10 DEF WalkAt
<1>12. DOMAIN out' = graph.nodes /\ \A m \in graph.nodes : out'[m] = out[m] \/ (m = l /\ out'[m] = frames[k].id)
  BY <1>1, <1>3, <1>4 DEF FreshInv
<1>13. QED
  BY <1>1, <1>2, <1>3, <1>9, <1>11, <1>12, FreshStep

LEMMA RunRoundFresh ==
  ASSUME WalkInv, FreshInv, RunRound
  PROVE  FreshInv'
<1>1. Between /\ UNCHANGED <<graph, reachable>> /\ out' = [Dropped(Top.loop) EXCEPT ![Top.loop] = Below.id]
  BY DEF RunRound
<1>2. PICK j \in Nat :
        /\ j + 1 = Len(frames) /\ j \in 1..Len(frames) /\ frames[j].walking
        /\ Top.loop = WalkAt(j + 1) /\ Top.loop \in Members(WalkAt(j)) /\ Top.loop \in graph.nodes
  BY <1>1, BetweenIs
<1>3. PICK k \in Nat : k = j + 1 /\ k - 1 = j /\ k = Len(frames) /\ k \in 1..Len(frames)
  <2>1. j + 1 \in 1..Len(frames)
    BY <1>2
  <2>2. QED
    BY <1>2, <2>1
<1>4. PICK l : l = Top.loop
  OBVIOUS
<1>5. Below.id = frames[j].id
  BY <1>3 DEF Below
<1>6. /\ WalkInv' /\ Len(frames') = k /\ frames'[k].loop = l
      /\ \A i \in 1..(k - 1) : frames'[i] = frames[i]
  BY <1>3, <1>4, RoundStep
<1>7. DOMAIN out' = graph.nodes
  BY <1>1, <1>4 DEF Dropped
<1>8. /\ \A m \in graph.nodes : graph.parent[m] = l /\ m # l => out'[m] = -1
      /\ out'[l] = frames[j].id
      /\ \A m \in graph.nodes : graph.parent[m] # l /\ m # l => out'[m] = out[m]
  BY <1>1, <1>2, <1>4, <1>5 DEF Dropped, Inside
<1>9. ASSUME NEW i \in 1..k, frames'[i].walking, NEW m \in Members(WalkAt(i)')
      PROVE  out'[m] \in {-1, frames'[i].id}
  <2>1. i \in 1..Len(frames) /\ WalkAt(i)' = WalkAt(i) /\ WalkAt(k) = l
    <3>1. i = k \/ i \in 1..(k - 1)
      BY UpTo
    <3>2. QED
      BY <1>2, <1>3, <1>4, <1>6, <3>1 DEF WalkAt
  <2>2. m \in Members(WalkAt(i)) /\ m \in graph.nodes /\ graph.parent[m] = WalkAt(i)
    BY <1>9, <2>1, WalksAreProper DEF Members
  <2>3. CASE i = k
    <3>1. m # l
      BY <1>3, <2>1, <2>2, <2>3, NotEntered
    <3>2. QED
      BY <1>8, <2>1, <2>2, <2>3, <3>1
  <2>4. CASE i # k
    <3>1. i \in 1..(k - 1) /\ frames'[i] = frames[i] /\ graph.parent[m] # l
      <4>1. i \in 1..(k - 1)
        BY <2>4, UpTo
      <4>2. WalkAt(i) # WalkAt(k)
        BY <1>3, <2>1, <2>4 DEF WalkInv, FramesOK
      <4>3. QED
        BY <1>6, <2>1, <2>2, <4>1, <4>2
    <3>2. CASE m = l
      <4>1. WalkAt(i) = WalkAt(j)
        BY <1>2, <1>4, <2>2, <3>2 DEF Members
      <4>2. i = j
        BY <1>2, <2>1, <4>1 DEF WalkInv, FramesOK
      <4>3. QED
        BY <1>8, <3>1, <3>2, <4>2
    <3>3. CASE m # l
      BY <1>8, <1>9, <2>1, <2>2, <3>1, <3>3 DEF FreshInv
    <3>4. QED
      BY <3>2, <3>3
  <2>5. QED
    BY <2>3, <2>4
<1>10. \A x : Members(x)' = Members(x)
  BY <1>1 DEF Members
<1>11. QED
  BY <1>1, <1>6, <1>7, <1>9, <1>10 DEF FreshInv

\* A step that stores nothing and begins no round.
LEMMA QuietFresh ==
  ASSUME WalkInv, FreshInv, UNCHANGED <<graph, reachable, out>>, Len(frames') \in Nat,
         \A i \in 1..Len(frames') : frames'[i].walking =>
           i \in 1..Len(frames) /\ frames[i].walking /\ frames'[i].loop = WalkAt(i) /\ frames'[i].id = frames[i].id
  PROVE  FreshInv'
<1>1. PICK k : k \in 1..Len(frames)
  BY TopIs
<1>2. DOMAIN out' = graph.nodes /\ \A m \in graph.nodes : out'[m] = out[m]
  BY DEF FreshInv
<1>3. QED
  BY <1>1, <1>2, FreshStep

\* One that changes the top walk alone.
LEMMA TopFresh ==
  ASSUME WalkInv, FreshInv, UNCHANGED <<graph, reachable, out>>, NEW t, Stacked(Len(frames), t),
         t.walking => Top.walking /\ t.loop = Top.loop /\ t.id = Top.id
  PROVE  FreshInv'
<1>1. PICK k \in Nat : k = Len(frames) /\ k \in 1..Len(frames) /\ frames[k] = Top
  BY TopIs
<1>2. Len(frames') = k /\ frames'[k] = t /\ \A i \in 1..(k - 1) : frames'[i] = frames[i]
  BY <1>1 DEF Stacked
<1>3. \A i \in 1..k : i = k \/ i \in 1..(k - 1)
  BY UpTo
<1>4. \A i \in 1..Len(frames') : frames'[i].walking =>
        i \in 1..Len(frames) /\ frames[i].walking /\ frames'[i].loop = WalkAt(i) /\ frames'[i].id = frames[i].id
  BY <1>1, <1>2, <1>3 DEF WalkAt
<1>5. QED
  BY <1>1, <1>2, <1>4, QuietFresh

LEMMA OtherStepsFresh ==
  ASSUME WalkInv, FreshInv, [WalkNext]_walkVars, ~RunRound, ~FinishLoop,
         \A n \in graph.nodes : ~RunNode(n)
  PROVE  FreshInv'
<1>1. ASSUME UNCHANGED <<graph, reachable, frames, out>> PROVE FreshInv'
  BY <1>1 DEF FreshInv, Members, WalkAt
<1>2. CASE EndRound
  <2>1. /\ Top.loop # Outside /\ frames' = Append(Front(frames), [Top EXCEPT !.walking = FALSE])
        /\ UNCHANGED <<graph, reachable, out>>
    BY <1>2 DEF EndRound
  <2>2. PICK t \in WalkRecord : t = [Top EXCEPT !.walking = FALSE] /\ ~t.walking
    BY TopIs, RestedIs
  <2>3. Stacked(Len(frames), t)
    BY <2>1, <2>2, TopStep
  <2>4. QED
    BY <2>1, <2>2, <2>3, TopFresh
<1>3. CASE RetryLoop
  <2>1. frames' = Append(Front(frames), NoRound(Top.loop, Top.tries + 1)) /\ UNCHANGED <<graph, reachable, out>>
    BY <1>3 DEF RetryLoop
  <2>2. Top.loop \in Nat /\ Top.tries + 1 \in Nat
    BY TopIs DEF WalkRecord
  <2>3. PICK t \in WalkRecord : t = NoRound(Top.loop, Top.tries + 1) /\ ~t.walking
    BY <2>2, NoRoundIs DEF WalkInv
  <2>4. Stacked(Len(frames), t)
    BY <2>1, <2>3, TopStep
  <2>5. QED
    BY <2>1, <2>3, <2>4, TopFresh
<1>4. ASSUME NEW n \in graph.nodes, KillOrPass(n) PROVE FreshInv'
  <2>1. Walking /\ n = Here /\ UNCHANGED <<graph, reachable, out>>
    BY <1>4 DEF KillOrPass
  <2>2. PICK w : w = Popped
    OBVIOUS
  <2>3. w \in WalkRecord /\ w.loop = Top.loop /\ w.id = Top.id /\ Top.walking
    BY <2>1, <2>2, PoppedIs
  <2>4. CASE Takes(n)
    <3>1. frames' = Append(Front(frames), Pushes(w, n, Killed(n), verdict'))
      BY <1>4, <2>2, <2>4 DEF KillOrPass, Decide
    <3>2. PICK t : t = Pushes(w, n, Killed(n), verdict')
      OBVIOUS
    <3>3. t \in WalkRecord /\ t.loop = w.loop /\ t.id = w.id
      BY <2>3, <3>2, PushesIs DEF WalkInv
    <3>4. Stacked(Len(frames), t)
      BY <3>1, <3>2, <3>3, TopStep
    <3>5. QED
      BY <2>1, <2>3, <3>3, <3>4, TopFresh
  <2>5. CASE ~Takes(n)
    <3>1. frames' = Append(Front(frames), w)
      BY <1>4, <2>2, <2>5 DEF KillOrPass
    <3>2. Stacked(Len(frames), w)
      BY <2>3, <3>1, TopStep
    <3>3. QED
      BY <2>1, <2>3, <3>2, TopFresh
  <2>6. QED
    BY <2>4, <2>5
<1>5. ASSUME NEW n \in graph.nodes, EnterLoop(n) PROVE FreshInv'
  <2>1. UNCHANGED <<graph, reachable, out>> /\ Walking
    BY <1>5 DEF EnterLoop, Executes
  <2>2. PICK k \in Nat : k = Len(frames) /\ k \in 1..Len(frames) /\ frames[k] = Top /\ frames[k].walking
    BY <2>1, TopIs DEF Walking
  <2>3. /\ Len(frames') = k + 1 /\ ~frames'[k + 1].walking
        /\ frames'[k].loop = frames[k].loop /\ frames'[k].id = frames[k].id
        /\ \A i \in 1..(k - 1) : frames'[i] = frames[i]
    <3>1. /\ Len(frames') = Len(frames) + 1 /\ ~frames'[Len(frames')].walking
          /\ frames'[Len(frames)].loop = Top.loop /\ frames'[Len(frames)].id = Top.id
          /\ \A i \in 1..(Len(frames) - 1) : frames'[i] = frames[i]
      BY <1>5, EnterStep
    <3>2. QED
      BY <2>2, <3>1
  <2>4. PICK c \in Nat : c = k + 1 /\ c - 1 = k
    BY <2>2
  <2>5. \A i \in 1..c : i = c \/ i = k \/ i \in 1..(k - 1)
    <3>1. \A i \in 1..c : i = c \/ i \in 1..k
      BY <2>4, UpTo
    <3>2. QED
      BY <3>1, UpTo
  <2>6. \A i \in 1..(k - 1) : i \in 1..k
    BY UpTo
  <2>7. \A i \in 1..Len(frames') : frames'[i].walking =>
          i \in 1..Len(frames) /\ frames[i].walking /\ frames'[i].loop = WalkAt(i) /\ frames'[i].id = frames[i].id
    BY <2>2, <2>3, <2>4, <2>5, <2>6 DEF WalkAt
  <2>8. Len(frames') \in Nat
    BY <2>3
  <2>9. QED
    BY <2>1, <2>7, <2>8, QuietFresh
<1>6. QED
  BY <1>1, <1>2, <1>3, <1>4, <1>5 DEF WalkNext, Halt, FailLoop, EndWalk, FailNode, walkVars

\* Of what a node can read of its own walk, everything is an output of the very round in
\* progress: none is left of an earlier round, of an earlier attempt, or of another walk.
THEOREM OutputsStayFresh == WalkSpec => []OutputsAreFresh
<1>1. WalkInit => FreshInv
  <2> SUFFICES ASSUME WalkInit PROVE FreshInv
    OBVIOUS
  <2>1. out = [n \in graph.nodes |-> -1]
    BY DEF WalkInit
  <2>2. WalkInv
    BY WalkStarts
  <2>3. \A i \in 1..Len(frames) : Members(WalkAt(i)) \subseteq graph.nodes
    BY <2>2, WalksAreProper
  <2>4. QED
    BY <2>1, <2>3 DEF FreshInv
<1>2. WalkInv /\ FreshInv /\ [WalkNext]_walkVars => FreshInv'
  BY RunNodeFresh, FinishLoopFresh, RunRoundFresh, OtherStepsFresh
<1>3. WalkInv /\ FreshInv => OutputsAreFresh
  <2> SUFFICES ASSUME WalkInv, FreshInv PROVE OutputsAreFresh
    OBVIOUS
  <2>1. DOMAIN frames = 1..Len(frames)
    BY DEF WalkInv, FramesOK
  <2>2. \A i \in 1..Len(frames) : Direct(frames[i].loop) = Members(WalkAt(i))
    BY WalksAreProper DEF WalkAt
  <2>3. QED
    BY <2>1, <2>2 DEF FreshInv, OutputsAreFresh
<1>4. QED
  BY <1>1, <1>2, <1>3, WalkInvHolds, PTL DEF WalkSpec

OutcomeOK == outcome \in {"running", "succeeded", "failed", "cancelled"}

\* Edges, verdicts and walks have their types, and each walk on top of another is that of
\* a Container in it.
THEOREM WalkIsTyped == WalkSpec => []WalkTypeOK
<1>1. WalkInit => OutcomeOK
  BY DEF WalkInit, OutcomeOK
<1>2. OutcomeOK /\ [WalkNext]_walkVars => OutcomeOK'
  BY DEF OutcomeOK, WalkNext, walkVars, Halt, RunRound, EndRound, RetryLoop, FinishLoop, FailLoop, EndWalk,
         KillOrPass, RunNode, FailNode, EnterLoop
<1>3. WalkInv /\ OutcomeOK => WalkTypeOK
  <2> SUFFICES ASSUME WalkInv, OutcomeOK PROVE WalkTypeOK
    OBVIOUS
  <2>1. graph \in Graphs /\ reachable \subseteq graph.nodes
    BY ExecutableBack DEF WalkInv
  <2>2. edge \in [graph.edges -> {"pending", "live", "dead"}]
    BY DEF WalkInv, EdgesOK, EdgeState
  <2>3. \A n \in graph.nodes : verdict[n] \in {Undecided, Dead} \cup {Ran(p) : p \in SUBSET graph.ports[n]}
    BY DEF WalkInv, EdgesOK, Verdicts
  <2>4. ASSUME NEW i \in DOMAIN frames
        PROVE  /\ frames[i] \in WalkRecord
               /\ IF i = 1 THEN frames[i].loop = Outside ELSE graph.parent[frames[i].loop] = frames[i - 1].loop
    <3>1. i \in 1..Len(frames) /\ Len(frames) \in Nat
      BY TopIs DEF WalkInv, FramesOK
    <3>2. frames[i] \in WalkRecord
      BY <3>1, WalksAreProper
    <3>3. CASE i = 1
      BY <3>2, <3>3 DEF WalkInv, FramesOK, WalkAt
    <3>4. CASE i # 1
      <4>1. i \in 2..Len(frames)
        BY <3>1, <3>4
      <4>2. EnteredOK(i)
        BY <4>1 DEF WalkInv, FramesOK
      <4>3. graph.parent[WalkAt(i)] = WalkAt(i - 1)
        BY <4>2 DEF EnteredOK, Members
      <4>4. QED
        BY <3>2, <3>4, <4>3 DEF WalkAt
    <3>5. QED
      BY <3>3, <3>4
  <2>5. QED
    BY <2>1, <2>2, <2>3, <2>4 DEF WalkTypeOK, OutcomeOK
<1>4. QED
  BY <1>1, <1>2, <1>3, WalkInvHolds, PTL DEF WalkSpec

=============================================================================
