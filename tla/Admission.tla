----------------------------- MODULE Admission -----------------------------
(***************************************************************************)
(* Admission of HTTP requests in one process: load shedding at the door    *)
(* (backend/core/load_shed.py) and the admission pool for the work that    *)
(* waits on an external system (core/bulkhead.py, core/admission.py).      *)
(*                                                                         *)
(* The request's task runs in the event loop and may be cancelled while it *)
(* awaits; its work runs in a thread of the pool and cannot be.  The       *)
(* counters are what the next request is judged by, so they must stand for *)
(* the work there is on every path out.  A thread gives the slot back      *)
(* before it is free for other work: an admitted work may find no thread.  *)
(***************************************************************************)
EXTENDS Integers, FiniteSets

CONSTANTS HttpRequest,  \* requests a process handles, one after another or at once
          Actor,
          Owner,    \* the actor of each request
          MaxInflight, Slots, Share

ASSUME AdmissionAssumption ==
  /\ IsFiniteSet(HttpRequest) /\ Owner \in [HttpRequest -> Actor]
  /\ MaxInflight \in Nat /\ Slots \in Nat /\ Share \in 0..Slots

VARIABLES task,      \* the request's coroutine
          work,      \* its work in the pool
          inflight,  \* LoadSheddingMiddleware._inflight
          total,     \* PeekBulkhead._total
          perActor   \* PeekBulkhead._per_actor; an absent key counts 0

admissionVars == <<task, work, inflight, total, perActor>>

AdmissionInit ==
  /\ task = [r \in HttpRequest |-> "out"] /\ work = [r \in HttpRequest |-> "none"]
  /\ inflight = 0 /\ total = 0 /\ perActor = [a \in Actor |-> 0]

Works(at) == {r \in HttpRequest : work[r] = at}
\* max(0, n - 1)
Less(n) == IF n > 0 THEN n - 1 ELSE 0

-----------------------------------------------------------------------------
\* The middleware: a request over the limit is answered at once.
Enter(r) ==
  /\ task[r] = "out" /\ work[r] = "none"
  /\ inflight < MaxInflight
  /\ inflight' = inflight + 1 /\ task' = [task EXCEPT ![r] = "in"]
  /\ UNCHANGED <<work, total, perActor>>

\* Its finally clause.
Leaves(r) == inflight' = Less(inflight) /\ task' = [task EXCEPT ![r] = "out"]

\* The answer needs no external system, or submit_nowait refuses: pool or share
\* is full, or the executor is shut down and the slot just taken is released.
Answer(r) ==
  /\ task[r] = "in" /\ Leaves(r)
  /\ UNCHANGED <<work, total, perActor>>

\* submit_nowait
Admissible_Wrong(r) == perActor[Owner[r]] < Share
Admissible(r) == perActor[Owner[r]] < Share /\ total < Slots
Submit(r) ==
  /\ task[r] = "in" /\ Admissible(r)
  /\ total' = total + 1 /\ perActor' = [perActor EXCEPT ![Owner[r]] = @ + 1]
  /\ work' = [work EXCEPT ![r] = "queued"] /\ task' = [task EXCEPT ![r] = "waiting"]
  /\ UNCHANGED inflight

\* A thread of the executor is free and takes the work.
Threads == Cardinality(Works("running") \cup Works("released"))
StartWork(r) ==
  /\ work[r] = "queued" /\ Threads < Slots
  /\ work' = [work EXCEPT ![r] = "running"]
  /\ UNCHANGED <<task, inflight, total, perActor>>

\* _run: the work returns or raises, and its slot is released.
Release(r) ==
  /\ work[r] = "running"
  /\ total' = Less(total) /\ perActor' = [perActor EXCEPT ![Owner[r]] = Less(@)]
  /\ work' = [work EXCEPT ![r] = "released"]
  /\ UNCHANGED <<task, inflight>>

\* The thread stores the result and is free.
FreeThread(r) ==
  /\ work[r] = "released"
  /\ work' = [work EXCEPT ![r] = IF task[r] = "waiting" THEN "done" ELSE "none"]
  /\ UNCHANGED <<task, inflight, total, perActor>>

AnswerWork(r) ==
  /\ task[r] = "waiting" /\ work[r] = "done"
  /\ Leaves(r) /\ work' = [work EXCEPT ![r] = "none"]
  /\ UNCHANGED <<total, perActor>>

\* The task is cancelled while it awaits, and wrap_future cancels the work: one
\* that has no thread yet never runs, and nothing releases its slot.
CancelTask(r) ==
  /\ task[r] = "waiting" /\ Leaves(r)
  /\ work' = [work EXCEPT ![r] = CASE @ = "queued" -> "cancelled" [] @ = "done" -> "none" [] OTHER -> @]
  /\ UNCHANGED <<total, perActor>>

AdmissionNext ==
  \E r \in HttpRequest : \/ Enter(r) \/ Answer(r) \/ Submit(r) \/ StartWork(r) \/ Release(r)
                     \/ FreeThread(r) \/ AnswerWork(r) \/ CancelTask(r)

AdmissionSpec == AdmissionInit /\ [][AdmissionNext]_admissionVars

-----------------------------------------------------------------------------
(* Properties *)

AdmissionTypeOK ==
  /\ task \in [HttpRequest -> {"out", "in", "waiting"}]
  /\ work \in [HttpRequest -> {"none", "queued", "running", "released", "done", "cancelled"}]
  /\ inflight \in Nat /\ total \in Nat /\ perActor \in [Actor -> Nat]

\* The work that stands against the pool: queued or at work, and what was
\* cancelled before a thread took it, which is never given back.
Holding == Works("queued") \cup Works("running") \cup Works("cancelled")

\* On every path, cancellation and failure included, the counters are the work
\* they stand for, and no actor is above the share.
SlotsCountWork ==
  /\ inflight = Cardinality({r \in HttpRequest : task[r] # "out"}) /\ inflight <= MaxInflight
  /\ total = Cardinality(Holding) /\ total <= Slots
  /\ \A a \in Actor : /\ perActor[a] = Cardinality({r \in Holding : Owner[r] = a})
                      /\ perActor[a] <= Share
=============================================================================
