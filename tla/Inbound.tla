------------------------------ MODULE Inbound ------------------------------
(***************************************************************************)
(* Calls to one Inbound Trigger (backend/channel/inbound_http.py): the     *)
(* handlers in the API process, the runs they mint in worker processes,    *)
(* and the two records both sides meet at: the deduplication row of an     *)
(* event id (inbound_dedup.py) and the response slot of a run              *)
(* (inbound_response.py).                                                  *)
(*                                                                         *)
(* A handler reserves the event id, counts the unfinished runs, mints a    *)
(* run, attaches it to the row and answers: at once in mode immediate,     *)
(* otherwise with what the run's first Respond node claims the slot with,  *)
(* or with the fallback when the wait is over.  Each of these is a         *)
(* transaction of its own.  The event id may be the same in several calls; *)
(* a run is named by the call that minted it.                              *)
(*                                                                         *)
(* A body is a pair <<call, n>>: the immediate payload of the call for     *)
(* n = 0, what the n-th Respond node of its run rendered for n > 0.        *)
(***************************************************************************)
EXTENDS Integers, FiniteSets

CONSTANTS Call, NoCall,  \* the calls that reach the trigger
          MaxInFlight,   \* max_in_flight of the trigger
          MaxResponds    \* bound on the Respond nodes a run executes

ASSUME InboundAssumption ==
  NoCall \notin Call /\ MaxInFlight \in Nat \ {0} /\ MaxResponds \in Nat

VARIABLES mode,   \* response mode of the published trigger
          pc,     \* where each handler is
          event,  \* calls that carry the event id
          row,    \* the deduplication row of the event id
          job,    \* the Job of each call's run
          node,   \* Respond nodes the run has executed; owes: the last one's replay
          slot,   \* the response slot of each run
          told,   \* Respond nodes that reported delivered
          sent,   \* the body of each answer sent
          elapsed, raced, early  \* history, see below

rows == <<row, elapsed>>
runs == <<job, node, told, early>>
inboundVars == <<mode, pc, event, raced, slot, sent, rows, runs>>

-----------------------------------------------------------------------------
NoBody == <<NoCall, 0>>
Body == {NoBody} \cup (Call \X (0..MaxResponds))
NoRow == [state |-> "none", job |-> NoCall, live |-> FALSE, body |-> NoBody, by |-> NoCall]

Unfinished(r) == job[r] \in {"queued", "orphan", "running"}
Ended == {"answered", "refused", "fallback", "dead"}

InboundInit ==
  /\ mode \in {"immediate", "respond"}
  /\ pc = [r \in Call |-> "new"] /\ event = {} /\ row = NoRow
  /\ job = [r \in Call |-> "none"]
  /\ node = [r \in Call |-> [done |-> 0, owes |-> FALSE]]
  /\ slot = [r \in Call |-> [state |-> "none", body |-> NoBody]]
  /\ told = {} /\ sent = [r \in Call |-> NoBody]
  /\ elapsed = {} /\ raced = {} /\ early = {}

Goto(r, where) == pc' = [pc EXCEPT ![r] = where]
Send(r, body) == Goto(r, "answered") /\ sent' = [sent EXCEPT ![r] = body]

-----------------------------------------------------------------------------
(* The deduplication row *)

Reservable_Wrong == ~row.live \/ (row.state = "in_flight" /\ row.job = NoCall)
Reservable == ~row.live

Reserved(r) == [state |-> "in_flight", job |-> NoCall, live |-> TRUE, body |-> NoBody, by |-> r]

\* In flight and attached to no Job: attach_job and abandon touch nothing else.
Unattached == row.state = "in_flight" /\ row.job = NoCall

\* answer: only the attached Job's, and only the first one.
TakesAnswer_Wrong(r) == row.state # "none" /\ row.job = r
TakesAnyJob_Wrong(r) == row.state = "in_flight"
TakesAnswer(r) == row.state = "in_flight" /\ row.job = r
Answered(r, body) ==
  IF TakesAnswer(r) THEN [row EXCEPT !.state = "answered", !.body = body] ELSE row

\* Time passes expires_at.  The window is a minute at least: a handler that lives has
\* attached or abandoned its reservation by then.
\* History: elapsed holds the calls whose window ended before they did.
Holds(r) == pc[r] \in {"count", "mint", "abandon", "attach"}
Elapse ==
  /\ row.live /\ ~Holds(row.by)
  /\ row' = [row EXCEPT !.live = FALSE]
  /\ elapsed' = elapsed \cup {r \in {row.by} : pc[r] \notin Ended \/ Unfinished(r)}
  /\ UNCHANGED <<mode, pc, event, raced, slot, sent, runs>>

\* delete_expired, the hourly purge.
PurgeRow ==
  /\ row.state # "none" /\ ~row.live
  /\ row' = NoRow
  /\ UNCHANGED <<mode, pc, event, raced, slot, sent, elapsed, runs>>

-----------------------------------------------------------------------------
(* A handler *)

\* The checks before the event id refuse a call or let it through.
Receive(r, hasEvent) ==
  /\ pc[r] = "new"
  /\ event' = IF hasEvent THEN event \cup {r} ELSE event
  /\ Goto(r, IF hasEvent THEN "admit" ELSE "count")
  /\ UNCHANGED <<mode, raced, slot, sent, rows, runs>>

\* admit locks the row; a repeat gets the stored answer or is told to retry.
Admit(r) ==
  /\ pc[r] = "admit"
  /\ \/ /\ Reservable
        /\ row' = Reserved(r) /\ Goto(r, "count") /\ UNCHANGED sent
     \/ /\ ~Reservable /\ row.state = "answered"
        /\ Send(r, row.body) /\ UNCHANGED row
     \/ /\ ~Reservable /\ row.state = "in_flight"
        /\ Goto(r, "refused") /\ UNCHANGED <<row, sent>>
  /\ UNCHANGED <<mode, event, raced, slot, elapsed, runs>>

\* At the cap, or when the mint raises, the reservation is abandoned.
GiveUp(r) == Goto(r, IF r \in event THEN "abandon" ELSE "refused")

WithinCap_Wrong(n) == n <= MaxInFlight
WithinCap(n) == n < MaxInFlight

\* _unfinished_inbound lists the queued Jobs and then the running ones: one that
\* starts in between is counted twice.
CountUnfinished(r) ==
  /\ pc[r] = "count"
  /\ \E twice \in 0..Cardinality({q \in Call : job[q] = "running"}) :
       IF WithinCap(Cardinality({q \in Call : Unfinished(q)}) + twice)
       THEN Goto(r, "mint") ELSE GiveUp(r)
  /\ UNCHANGED <<mode, event, raced, slot, sent, rows, runs>>

AfterAttach(r) == IF mode = "respond" THEN "open" ELSE IF r \in event THEN "answer" ELSE "dispatch"

\* Job and run record are two transactions: when the second fails the Job is an orphan.
\* History: raced holds the calls that had counted when another one minted.
Mint(r) ==
  /\ pc[r] = "mint"
  /\ \/ /\ job' = [job EXCEPT ![r] = "queued"]
        /\ Goto(r, IF r \in event THEN "attach" ELSE AfterAttach(r))
     \/ /\ \E left \in {"none", "orphan"} : job' = [job EXCEPT ![r] = left]
        /\ GiveUp(r)
  /\ raced' = raced \cup {q \in Call \ {r} : pc[q] = "mint"}
  /\ UNCHANGED <<mode, event, slot, sent, rows, node, told, early>>

Abandon(r) ==
  /\ pc[r] = "abandon"
  /\ row' = IF Unattached THEN NoRow ELSE row
  /\ Goto(r, "refused")
  /\ UNCHANGED <<mode, event, raced, slot, sent, elapsed, runs>>

AttachJob(r) ==
  /\ pc[r] = "attach"
  /\ row' = IF Unattached THEN [row EXCEPT !.job = r] ELSE row
  /\ Goto(r, AfterAttach(r))
  /\ UNCHANGED <<mode, event, raced, slot, sent, elapsed, runs>>

\* Mode immediate: the payload is stored, the run dispatched, the payload sent.
AnswerAtOnce(r) ==
  /\ pc[r] = "answer"
  /\ row' = Answered(r, <<r, 0>>)
  /\ Goto(r, "dispatch")
  /\ UNCHANGED <<mode, event, raced, slot, sent, elapsed, runs>>

OpenSlot(r) ==
  /\ pc[r] = "open"
  /\ slot' = [slot EXCEPT ![r].state = "open"]
  /\ Goto(r, "dispatch")
  /\ UNCHANGED <<mode, event, raced, sent, rows, runs>>

\* A run may start without it: the sweep dispatches queued Jobs too.
DispatchRun(r) ==
  /\ pc[r] = "dispatch"
  /\ IF mode = "immediate" THEN Send(r, <<r, 0>>) ELSE Goto(r, "wait") /\ UNCHANGED sent
  /\ UNCHANGED <<mode, event, raced, slot, rows, runs>>

\* _read_until: the slot is answered, or the wait ends, or the timer's close wakes it.
Wait(r) ==
  /\ pc[r] = "wait"
  /\ IF slot[r].state = "answered" THEN Send(r, slot[r].body)
     ELSE Goto(r, "close") /\ UNCHANGED sent
  /\ UNCHANGED <<mode, event, raced, slot, rows, runs>>

Closed_Wrong(r) == slot[r]
Closed(r) == IF slot[r].state = "open" THEN [slot[r] EXCEPT !.state = "closed"] ELSE slot[r]

\* After the wait the handler closes the slot itself and reads it again.
CloseSlot(r) ==
  /\ pc[r] = "close"
  /\ slot' = [slot EXCEPT ![r] = Closed(r)]
  /\ Goto(r, "reread")
  /\ UNCHANGED <<mode, event, raced, sent, rows, runs>>

Reread(r) ==
  /\ pc[r] = "reread"
  /\ IF slot[r].state = "answered" THEN Send(r, slot[r].body)
     ELSE Goto(r, "fallback") /\ UNCHANGED sent
  /\ UNCHANGED <<mode, event, raced, slot, rows, runs>>

\* The timer thread at the deadline.
TimerCloses(r) ==
  /\ slot[r].state = "open"
  /\ slot' = [slot EXCEPT ![r].state = "closed"]
  /\ UNCHANGED <<mode, pc, event, raced, sent, rows, runs>>

\* The API process ends, or the broker refuses the dispatch.
HandlerDies(r) ==
  /\ pc[r] \notin Ended \cup {"new"}
  /\ Goto(r, "dead")
  /\ UNCHANGED <<mode, event, raced, slot, sent, rows, runs>>

-----------------------------------------------------------------------------
(* A run *)

\* History: early, the run began before its handler had opened the slot or answered.
StartRunOf(r) ==
  /\ job[r] = "queued"
  /\ job' = [job EXCEPT ![r] = "running"]
  /\ early' = IF r \in event /\ pc[r] \in {"attach", "answer", "open"} THEN early \cup {r} ELSE early
  /\ UNCHANGED <<mode, pc, event, raced, slot, sent, rows, node, told>>

\* Without a run record the runner cancels the Job.
CancelOrphan(r) ==
  /\ job[r] = "orphan"
  /\ job' = [job EXCEPT ![r] = "released"]
  /\ UNCHANGED <<mode, pc, event, raced, slot, sent, rows, node, told, early>>

\* The child of a run whose Job was cancelled or failed as lost may still be at work.
Alive(r) == job[r] \in {"running", "ended"}

CanClaim_Wrong(r) == slot[r].state # "answered"
CanClaim(r) == slot[r].state = "open"

\* A Respond node claims the slot ...
Claim(r) ==
  LET n == node[r].done + 1 IN
  /\ Alive(r) /\ n <= MaxResponds /\ ~node[r].owes
  /\ node' = [node EXCEPT ![r] = [done |-> n, owes |-> TRUE]]
  /\ IF CanClaim(r)
     THEN slot' = [slot EXCEPT ![r] = [state |-> "answered", body |-> <<r, n>>]]
          /\ told' = told \cup {<<r, n>>}
     ELSE UNCHANGED <<slot, told>>
  /\ UNCHANGED <<mode, pc, event, raced, sent, rows, job, early>>

\* ... and then stores the replay, whether or not it was delivered.
RememberReplay(r) ==
  /\ Alive(r) /\ node[r].owes
  /\ node' = [node EXCEPT ![r].owes = FALSE]
  /\ row' = IF r \in event THEN Answered(r, <<r, node[r].done>>) ELSE row
  /\ UNCHANGED <<mode, pc, event, raced, slot, sent, elapsed, job, told, early>>

\* The Job becomes terminal: the run ends, is cancelled, or is failed as lost.
EndRun(r) ==
  /\ job[r] = "running"
  /\ job' = [job EXCEPT ![r] = "ended"]
  /\ raced' = raced \ {r}
  /\ UNCHANGED <<mode, pc, event, slot, sent, rows, node, told, early>>

\* run_job, after the child has ended: an unanswered event id is released.
ReleaseUnanswered(r) ==
  /\ job[r] = "ended"
  /\ job' = [job EXCEPT ![r] = "released"]
  /\ row' = IF row.state = "in_flight" /\ row.job = r THEN NoRow ELSE row
  /\ UNCHANGED <<mode, pc, event, raced, slot, sent, elapsed, node, told, early>>

-----------------------------------------------------------------------------
InboundNext ==
  \/ Elapse \/ PurgeRow
  \/ \E r \in Call :
       \/ \E hasEvent \in BOOLEAN : Receive(r, hasEvent)
       \/ Admit(r) \/ CountUnfinished(r) \/ Mint(r) \/ Abandon(r)
       \/ AttachJob(r) \/ AnswerAtOnce(r) \/ OpenSlot(r) \/ DispatchRun(r)
       \/ Wait(r) \/ CloseSlot(r) \/ Reread(r) \/ TimerCloses(r) \/ HandlerDies(r)
       \/ StartRunOf(r) \/ CancelOrphan(r) \/ Claim(r) \/ RememberReplay(r)
       \/ EndRun(r) \/ ReleaseUnanswered(r)

InboundSpec == InboundInit /\ [][InboundNext]_inboundVars

-----------------------------------------------------------------------------
(* Properties *)

\* Types; a slot holds a body of its own run exactly when it is answered.
InboundTypeOK ==
  /\ mode \in {"immediate", "respond"}
  /\ pc \in [Call -> Ended \cup {"new", "admit", "count", "mint",
                                 "abandon", "attach", "answer", "open", "dispatch", "wait",
                                 "close", "reread"}]
  /\ event \subseteq Call /\ elapsed \subseteq Call
  /\ raced \subseteq Call /\ early \subseteq Call
  /\ row \in [state : {"none", "in_flight", "answered"}, job : Call \cup {NoCall},
              live : BOOLEAN, body : Body, by : Call \cup {NoCall}]
  /\ job \in [Call -> {"none", "queued", "orphan", "running", "ended", "released"}]
  /\ node \in [Call -> [done : 0..MaxResponds, owes : BOOLEAN]]
  /\ slot \in [Call -> [state : {"none", "open", "answered", "closed"}, body : Body]]
  /\ \A r \in Call : slot[r].state = "answered" <=> slot[r].body[1] = r
  /\ told \subseteq Call \X (1..MaxResponds)
  /\ sent \in [Call -> Body]

\* While the window of an event id lasts, a repeat does not start a second run:
\* two runs with the event id are unfinished together only after the window of one of
\* them has ended.
OneRunPerEvent ==
  \A q, r \in event : q # r /\ Unfinished(q) /\ Unfinished(r) /\ "orphan" \notin {job[q], job[r]}
                      => q \in elapsed \/ r \in elapsed

AnswerIsOwn ==
  row.state = "answered" =>
    /\ row.body[1] = row.by
    /\ pc[row.by] = "answered" /\ row.by \notin early => sent[row.by] = row.body

\* The stored answer is that of the call whose window it is, never of a run left over
\* from an earlier window, and it is what that call's client got, if the client got
\* an answer and the sweep did not start the run ahead of the handler.  Within the
\* window it is stored once and for all: no later Respond node, run, handler, crash
\* or release changes it.
ReplayIsTheAnswer ==
  /\ []AnswerIsOwn
  /\ [][row.state = "answered" /\ row.live
          => row' = row \/ row' = [row EXCEPT !.live = FALSE]]_inboundVars

\* However the claim, the timer, the end of the wait and the close interleave, a Respond
\* node reports delivered exactly if its body is the one the client gets: a client that
\* got the fallback was not answered, and one that got an answer got the delivered one.
DeliveredIsReceived ==
  \A r \in Call :
    /\ pc[r] = "fallback" => \A n \in 1..MaxResponds : <<r, n>> \notin told
    /\ pc[r] = "answered" /\ sent[r][1] = r /\ sent[r][2] > 0 => sent[r] \in told
    /\ Cardinality({n \in 1..MaxResponds : <<r, n>> \in told}) <= 1

\* The cap counts before it mints, outside the mint's transaction.  It is exceeded only
\* by calls that had counted when another call minted.
CapIsKept == Cardinality({r \in Call \ raced : Unfinished(r)}) <= MaxInFlight
=============================================================================
