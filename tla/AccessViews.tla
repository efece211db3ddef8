---------------------------- MODULE AccessViews ----------------------------
(***************************************************************************)
(* The revision fence of one entity: policy edits that commit and ask for  *)
(* a regeneration (backend/entity/access/service.py, jobs.py), the         *)
(* entity_access_views Job that compiles the latest policy into profile    *)
(* views under the entity table lock (backend/entity/align.py, views.py),  *)
(* the sweep at startup (reconcile.py) and data requests, which are        *)
(* refused until their revision has its views (enforce.py).                *)
(*                                                                         *)
(* A policy is the number of edits that made it; what a policy and its     *)
(* views say is the subject of AccessPolicy.  A publish regenerates the    *)
(* views too; it holds the same lock and is the subject of EntityPublish.  *)
(***************************************************************************)
EXTENDS Naturals, Sequences, SequencesExt

CONSTANTS Editor, Caller,
          MaxEdits,    \* bound on edits
          MaxFaults    \* bound on failures and deaths

ASSUME AccessViewsAssumption == MaxEdits \in Nat /\ MaxFaults \in Nat

VARIABLES policy,        \* edits committed so far
          revision,      \* the stored policy_revision
          raced,         \* history: policies committed over a revision already taken
          editor, caller,
          jobs,          \* view Jobs in flight, the oldest first
          failed,        \* the latest view Job failed less than 60 seconds ago
          view,          \* the profile views: the revision in them and the policy they show
          bound,         \* policy_revision of the stored bindings
          viewsRevision, \* the stored views_revision
          last,          \* of each caller, the last answer
          faults

storeVars == <<policy, revision, raced>>
builtVars == <<view, bound, viewsRevision>>
viewVars == <<storeVars, builtVars, editor, caller, jobs, failed, last, faults>>

Resting == [at |-> "idle", rev |-> 0]
Away == [at |-> "idle", rev |-> 0, since |-> 0]
Refused == [Away EXCEPT !.at = "refused"]

ViewsInit ==
  /\ policy = 0 /\ revision = 1 /\ raced = {}
  /\ editor = [e \in Editor |-> Resting] /\ caller = [c \in Caller |-> Away]
  /\ jobs = <<>> /\ failed = FALSE
  /\ view = [rev |-> 1, shows |-> 0] /\ bound = 1 /\ viewsRevision = 1
  /\ last = [c \in Caller |-> "none"] /\ faults = 0

Fault == faults < MaxFaults /\ faults' = faults + 1

-----------------------------------------------------------------------------
(* The Jobs *)

InFlight == jobs # <<>>

\* create_queued_job; the new Job is the latest one.
Minted == /\ jobs' = Append([i \in DOMAIN jobs |-> [jobs[i] EXCEPT !.latest = FALSE]],
                            [at |-> "queued", rev |-> 0, shows |-> 0, latest |-> TRUE])
          /\ failed' = FALSE

Working == {"locked", "revised", "compiled", "replaced", "bound"}
LockFree == \A i \in DOMAIN jobs : jobs[i].at \notin Working

JobFails(i) == /\ jobs' = RemoveAt(jobs, i)
               /\ failed' = (failed \/ jobs[i].latest)

Step(i, from, job) == /\ jobs[i].at = from
                      /\ jobs' = [jobs EXCEPT ![i] = job]
                      /\ UNCHANGED <<storeVars, editor, caller, failed, last, faults>>

\* try_acquire_entity_table_lock; the loser fails as JOB_ALREADY_ACTIVE.
TakeLock(i) == LockFree /\ Step(i, "queued", [jobs[i] EXCEPT !.at = "locked"]) /\ UNCHANGED builtVars

LockHeld(i) == /\ jobs[i].at = "queued" /\ ~LockFree
               /\ JobFails(i)
               /\ UNCHANGED <<storeVars, builtVars, editor, caller, last, faults>>

\* rebuild_entity_views: the revision first, ...
ReadRevision(i) == /\ Step(i, "locked", [jobs[i] EXCEPT !.at = "revised", !.rev = revision])
                   /\ UNCHANGED builtVars

\* Reads the number again, after the policy.
Replace_Wrong(i) ==
  /\ view' = [rev |-> revision, shows |-> jobs[i].shows]
  /\ Step(i, "compiled", [jobs[i] EXCEPT !.at = "replaced", !.rev = revision])
  /\ UNCHANGED <<bound, viewsRevision>>

\* ... then the policy, ...
Compile(i) == /\ Step(i, "revised", [jobs[i] EXCEPT !.at = "compiled", !.shows = policy])
              /\ UNCHANGED builtVars

\* ... the views in one transaction, ...
Replace(i) == /\ view' = [rev |-> jobs[i].rev, shows |-> jobs[i].shows]
              /\ Step(i, "compiled", [jobs[i] EXCEPT !.at = "replaced", !.shows = 0])
              /\ UNCHANGED <<bound, viewsRevision>>

\* ... persist_ready, in two, ...
Bind(i) == /\ bound' = jobs[i].rev
           /\ Step(i, "replaced", [jobs[i] EXCEPT !.at = "bound"])
           /\ UNCHANGED <<view, viewsRevision>>
SetViewsRevision(i) == /\ viewsRevision' = jobs[i].rev
                       /\ Step(i, "bound", [jobs[i] EXCEPT !.at = "unlocked", !.rev = 0])
                       /\ UNCHANGED <<view, bound>>

\* ... and mark_succeeded, after the lock is released.
Succeed(i) == /\ jobs[i].at = "unlocked"
              /\ jobs' = RemoveAt(jobs, i)
              /\ UNCHANGED <<storeVars, builtVars, editor, caller, failed, last, faults>>

\* JOB_EXECUTION_FAILED, or the worker dies and the Job is reaped later.
Raise(i) == /\ jobs[i].at \in Working /\ Fault
            /\ JobFails(i)
            /\ UNCHANGED <<storeVars, builtVars, editor, caller, last>>
WorkerDies(i) == /\ jobs[i].at \in Working \cup {"unlocked"} /\ Fault
                 /\ jobs' = [jobs EXCEPT ![i] = [@ EXCEPT !.at = "dead", !.rev = 0, !.shows = 0]]
                 /\ UNCHANGED <<storeVars, builtVars, editor, caller, failed, last>>
Reap(i) == /\ jobs[i].at = "dead"
           /\ JobFails(i)
           /\ UNCHANGED <<storeVars, builtVars, editor, caller, last, faults>>

\* failed_recently: a minute passes.  The wrong one asks whether a Job ever failed.
MinutePasses_Wrong == /\ failed /\ failed' = TRUE
                      /\ UNCHANGED <<storeVars, builtVars, editor, caller, jobs, last, faults>>
MinutePasses == /\ failed /\ failed' = FALSE
                /\ UNCHANGED <<storeVars, builtVars, editor, caller, jobs, last, faults>>

\* enqueue_stale_view_jobs, when an API process starts.
Startup == /\ viewsRevision # revision /\ ~InFlight
           /\ Minted
           /\ UNCHANGED <<storeVars, builtVars, editor, caller, last, faults>>

-----------------------------------------------------------------------------
(* _commit *)

EditUnchanged == UNCHANGED <<builtVars, caller, last>>

\* One transaction, which locks no row before it writes.
EditReads(e) == /\ editor[e].at = "idle" /\ policy < MaxEdits
                /\ editor' = [editor EXCEPT ![e] = [at |-> "read", rev |-> revision]]
                /\ EditUnchanged /\ UNCHANGED <<storeVars, jobs, failed, faults>>

EditCommits(e) ==
  /\ editor[e].at = "read" /\ policy < MaxEdits
  /\ policy' = policy + 1
  /\ revision' = editor[e].rev + 1
  /\ raced' = IF revision = editor[e].rev THEN raced ELSE raced \cup {policy'}
  /\ editor' = [editor EXCEPT ![e] = [at |-> "committed", rev |-> 0]]
  /\ EditUnchanged /\ UNCHANGED <<jobs, failed, faults>>

\* enqueue_view_job finds a Job in flight, or none and mints.
EditLooks(e) ==
  /\ editor[e].at = "committed"
  /\ editor' = [editor EXCEPT ![e].at = IF InFlight THEN "idle" ELSE "minting"]
  /\ EditUnchanged /\ UNCHANGED <<storeVars, jobs, failed, faults>>

EditMints(e) == /\ editor[e].at = "minting"
                /\ editor' = [editor EXCEPT ![e] = Resting]
                /\ Minted
                /\ EditUnchanged /\ UNCHANGED <<storeVars, faults>>

\* The process ends before it asks for the Job.
EditorDies(e) == /\ editor[e].at \in {"committed", "minting"} /\ Fault
                 /\ editor' = [editor EXCEPT ![e] = Resting]
                 /\ EditUnchanged /\ UNCHANGED <<storeVars, jobs, failed>>

-----------------------------------------------------------------------------
(* begin_data and the query that follows *)

CallUnchanged == UNCHANGED <<storeVars, builtVars, editor, faults>>

\* What load_policy reads is no older than the revision read before it.
Ask(c) == /\ caller[c].at = "idle"
          /\ caller' = [caller EXCEPT ![c] = [at |-> "asked", rev |-> revision, since |-> policy]]
          /\ CallUnchanged /\ UNCHANGED <<jobs, failed, last>>

\* view_ready: views_revision, ...
LooksReady(c) ==
  /\ caller[c].at = "asked"
  /\ caller' = [caller EXCEPT ![c] = IF viewsRevision = @.rev THEN [@ EXCEPT !.at = "half"] ELSE Refused]
  /\ CallUnchanged /\ UNCHANGED <<jobs, failed, last>>
\* ... then the bindings.
IsReady(c) ==
  /\ caller[c].at = "half"
  /\ caller' = [caller EXCEPT ![c] = IF bound = @.rev THEN [@ EXCEPT !.at = "ready"] ELSE Refused]
  /\ CallUnchanged /\ UNCHANGED <<jobs, failed, last>>

Ends(c, answer) == /\ caller' = [caller EXCEPT ![c] = Away]
                   /\ last' = [last EXCEPT ![c] = answer]

\* _ensure_generated: pending, after it saw to it that a Job is in flight.
Refuse(c) ==
  /\ caller[c].at = "refused"
  /\ IF failed \/ InFlight THEN Ends(c, "pending")
     ELSE caller' = [caller EXCEPT ![c].at = "minting"] /\ UNCHANGED last
  /\ CallUnchanged /\ UNCHANGED <<jobs, failed>>

CallMints(c) == /\ caller[c].at = "minting"
                /\ Minted /\ Ends(c, "pending") /\ CallUnchanged

\* acl.rev_ok: the views answer the revision that is in them.
Query(c) == /\ caller[c].at = "ready"
            /\ Ends(c, IF view.rev = caller[c].rev THEN "rows" ELSE "empty")
            /\ CallUnchanged /\ UNCHANGED <<jobs, failed>>

-----------------------------------------------------------------------------
JobStep(i) == \/ TakeLock(i) \/ LockHeld(i) \/ ReadRevision(i) \/ Compile(i) \/ Replace(i)
              \/ Bind(i) \/ SetViewsRevision(i) \/ Succeed(i) \/ Reap(i)
EditStep(e) == EditCommits(e) \/ EditLooks(e) \/ EditMints(e)
CallStep(c) == \/ Ask(c) \/ LooksReady(c) \/ IsReady(c) \/ Refuse(c) \/ CallMints(c) \/ Query(c)

ViewsNext == \/ \E i \in DOMAIN jobs : JobStep(i) \/ Raise(i) \/ WorkerDies(i)
             \/ \E e \in Editor : EditReads(e) \/ EditStep(e) \/ EditorDies(e)
             \/ \E c \in Caller : CallStep(c)
             \/ MinutePasses \/ Startup

\* Workers take Jobs and finish them, the reaper runs, an edit that began ends,
\* and who is told to retry asks again.
ViewsFairness == /\ WF_viewVars(\E i \in DOMAIN jobs : JobStep(i))
                 /\ WF_viewVars(MinutePasses)
                 /\ \A e \in Editor : WF_viewVars(EditStep(e))
                 /\ \A c \in Caller : WF_viewVars(CallStep(c))

ViewsSpec == ViewsInit /\ [][ViewsNext]_viewVars /\ ViewsFairness

-----------------------------------------------------------------------------
(* Properties *)

ViewsTypeOK ==
  /\ policy \in 0..MaxEdits /\ revision \in 1..(MaxEdits + 1) /\ raced \subseteq 1..policy
  /\ \A e \in Editor : editor[e].at \in {"idle", "read", "committed", "minting"}
  /\ \A c \in Caller : caller[c].at \in {"idle", "asked", "half", "ready", "refused", "minting"}
  /\ \A i \in DOMAIN jobs : jobs[i].at \in Working \cup {"queued", "unlocked", "dead"}
  /\ view.rev \in 1..(MaxEdits + 1) /\ view.shows \in 0..policy
  /\ failed \in BOOLEAN /\ faults \in 0..MaxFaults

\* A request that is answered with rows sees a policy that was in force when it
\* began, or a later one: none that was replaced before
\* (docs/business-entity-access.md 11.3).  Two edits that commit at once take one
\* number, and the fence cannot tell them apart.
NeverStale ==
  [][\A c \in Caller : caller[c].at = "ready" /\ caller'[c].at = "idle" /\ last'[c] = "rows" =>
       view.shows >= caller[c].since \/ \E k \in raced : k <= caller[c].since]_viewVars

\* Who is told to retry is answered after all, though a Job in flight has already
\* read the revision before the edit, fails or is lost, though two are minted at
\* once, and though nobody asked for a regeneration.
RetryIsAnswered == \A c \in Caller : last[c] = "pending" ~> last[c] = "rows"
=============================================================================
