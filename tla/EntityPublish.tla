--------------------------- MODULE EntityPublish ---------------------------
(***************************************************************************)
(* Publishing the versions of a Business Entity and dropping their tables  *)
(* (backend/entity/publish.py, align.py, jobs.py, and the writes of        *)
(* service.py that race with them).                                        *)
(*                                                                         *)
(* A version has its own table; the stem view of the entity selects the    *)
(* table of the latest published one, the head.  Versions are rows of the  *)
(* metadata database, tables and view live in the entity database, and no  *)
(* transaction spans the two.  A request reads a version, looks for a Job  *)
(* in flight, mints one, saves the version and dispatches, each in its own *)
(* transaction; the Job works under the table lock of the entity, which    *)
(* ends with the worker that holds it.  A save writes the whole row.       *)
(***************************************************************************)
EXTENDS Integers, FiniteSets

CONSTANTS Call, NoHold,  \* requests, each with the Job it may mint
          MaxVersion,    \* bound on the versions
          MaxShape,      \* bound on the edits of a version's definition
          MaxDeaths      \* bound on the requests and workers that die

ASSUME EntityPublishAssumption ==
  NoHold \notin Call /\ MaxVersion \in Nat \ {0} /\ MaxShape \in Nat \ {0} /\ MaxDeaths \in Nat

\* The names that end in _Wrong are deliberately wrong variants of a
\* definition; they confirm that a property can fail.

VARIABLES version,     \* the entity's version rows
          deprecated,
          table,       \* shape of each version's table, 0 when there is none
          rows,        \* versions whose table has rows
          stem,        \* the version whose table the stem view selects, 0 without view
          policy,      \* the version whose change log settings are in effect
          call,        \* the requests and their Jobs
          inFlight,    \* calls whose Job is queued or running
          tableLock,   \* the call whose worker holds the entity table lock
          deaths,
          torn,        \* history: an attempt ended between its two databases
          overwrote,   \* history: a save put back a row that had changed meanwhile
          again        \* history: a published version was published once more

databaseVars == <<table, rows, stem, policy>>
historyVars == <<torn, overwrote, again>>
publishVars == <<version, deprecated, databaseVars, call, inFlight, tableLock, deaths, historyVars>>

Versions == 1..MaxVersion
Unopened == [status |-> "absent", shape |-> 0, present |-> FALSE, log |-> "none"]
Draft(shape) == [Unopened EXCEPT !.status = "unpublished", !.shape = shape]
Unused == [at |-> "idle", kind |-> "none", of |-> 0, copy |-> Unopened, expected |-> 0]

Opened == {v \in Versions : version[v].status # "absent"}
Highest(vs) == IF vs = {} THEN 0 ELSE CHOOSE v \in vs : \A w \in vs : w <= v
Current == Highest(Opened)
\* latest_published_of: the head
Serving == Highest({v \in Versions : version[v].status = "published"})
AnyPublishing == \E v \in Versions : version[v].status = "publishing"
TablePresent(v) == v # 0 /\ version[v].present

PublishInit ==
  /\ version = [v \in Versions |-> IF v = 1 THEN Draft(1) ELSE Unopened] /\ deprecated = FALSE
  /\ table = [v \in Versions |-> 0] /\ rows = {} /\ stem = 0 /\ policy = 0
  /\ call = [c \in Call |-> Unused] /\ inFlight = {} /\ tableLock = NoHold
  /\ deaths = 0 /\ torn = FALSE /\ overwrote = FALSE /\ again = FALSE

At(c, where) == call[c].at = where
Goes(c, where) == call' = [call EXCEPT ![c].at = where]
Copies(c, where) == call' = [call EXCEPT ![c].at = where, ![c].copy = version[call[c].of]]
\* The call is over: its Job terminal, its lock released, its connection gone.
Over(c) ==
  /\ call' = [call EXCEPT ![c] = [Unused EXCEPT !.at = "over"]]
  /\ inFlight' = inFlight \ {c}
  /\ tableLock' = IF tableLock = c THEN NoHold ELSE tableLock
Continues == UNCHANGED <<inFlight, tableLock>>

\* save_version of a row derived from the copy c holds.
Saves(c, row) ==
  /\ version' = [version EXCEPT ![call[c].of] = row]
  /\ overwrote' = (overwrote \/ version[call[c].of] # call[c].copy)

-----------------------------------------------------------------------------
(* Requests *)

\* _prepare: the current version, or a published one whose policy is pending.
MayPublish(v) ==
  /\ ~deprecated
  /\ \/ version[v].status = "published" /\ version[v].log = "pending"
     \/ v = Current /\ version[v].status \in {"unpublished", "publishing"}

\* enqueue_drop
MayDrop(v) == TablePresent(v) /\ (v = Serving => deprecated)

\* patch_version
MayEdit(v) == ~deprecated /\ ~AnyPublishing /\ v = Current /\ version[v].status = "unpublished"
              /\ version[v].shape < MaxShape

Request(c, v) ==
  /\ At(c, "idle")
  /\ \E kind \in {"publish", "drop", "edit"} :
       /\ \/ kind = "publish" /\ MayPublish(v)
          \/ kind = "drop" /\ MayDrop(v)
          \/ kind = "edit" /\ MayEdit(v)
       /\ call' = [call EXCEPT ![c] = [at |-> IF kind = "edit" THEN "save" ELSE "prepared",
                                       kind |-> kind, of |-> v, copy |-> version[v], expected |-> 0]]
  /\ Continues
  /\ UNCHANGED <<version, deprecated, databaseVars, deaths, historyVars>>

\* find_inflight_entity_table_job: the Job in flight is the answer.
FindInFlight(c) ==
  /\ At(c, "prepared")
  /\ IF \E d \in inFlight : call[d].of = call[c].of THEN Over(c) ELSE Goes(c, "clear") /\ Continues
  /\ UNCHANGED <<version, deprecated, databaseVars, deaths, historyVars>>

MintJob(c) ==
  /\ At(c, "clear")
  /\ inFlight' = inFlight \cup {c}
  /\ Goes(c, IF call[c].kind = "publish" THEN "save" ELSE "sent")
  /\ UNCHANGED <<version, deprecated, databaseVars, tableLock, deaths, historyVars>>

\* The version is stored as publishing, a policy retry stores it as it was read,
\* and the Job is dispatched.
PolicyOnly(row) == row.status = "published" /\ row.log = "pending"
SaveAccepted(c) ==
  LET copy == call[c].copy IN
  /\ At(c, "save") /\ call[c].kind = "publish"
  /\ Saves(c, IF PolicyOnly(copy) THEN copy ELSE [copy EXCEPT !.status = "publishing"])
  /\ Goes(c, "sent") /\ Continues
  /\ UNCHANGED <<deprecated, databaseVars, deaths, torn, again>>

SaveEdit(c) ==
  /\ At(c, "save") /\ call[c].kind = "edit"
  /\ Saves(c, [call[c].copy EXCEPT !.shape = @ + 1])
  /\ Over(c)
  /\ UNCHANGED <<deprecated, databaseVars, deaths, torn, again>>

OpenVersion ==
  /\ ~deprecated /\ ~AnyPublishing
  /\ Current < MaxVersion /\ version[Current].status = "published"
  /\ version' = [version EXCEPT ![Current + 1] = Draft(version[Current].shape)]
  /\ UNCHANGED <<deprecated, databaseVars, call, inFlight, tableLock, deaths, historyVars>>

Deprecate ==
  /\ ~deprecated /\ ~AnyPublishing /\ Serving # 0
  /\ deprecated' = TRUE
  /\ UNCHANGED <<version, databaseVars, call, inFlight, tableLock, deaths, historyVars>>

\* Rows are written to the head, or through the view.
WriteRows(v) ==
  /\ v \notin rows /\ table[v] # 0 /\ v \in {stem, Serving}
  /\ rows' = rows \cup {v}
  /\ UNCHANGED <<version, deprecated, table, stem, policy, call, inFlight, tableLock, deaths, historyVars>>

-----------------------------------------------------------------------------
(* The Job: run_entity_table_job *)

\* The Job of an attempt that ended may still be delivered, to no effect.
ClaimTableJob(c) ==
  /\ At(c, "sent")
  /\ \/ c \notin inFlight /\ Over(c)
     \/ c \in inFlight /\ tableLock = NoHold
        /\ tableLock' = c /\ Goes(c, "locked") /\ UNCHANGED inFlight
     \/ c \in inFlight /\ tableLock # NoHold
        /\ IF call[c].kind = "publish" THEN Goes(c, "rollback") /\ Continues ELSE Over(c)
  /\ UNCHANGED <<version, deprecated, databaseVars, deaths, historyVars>>

\* execute: the row is read again, and what the view must select now with it.
ExpectedTarget(v) == IF Serving # v /\ TablePresent(Serving) THEN Serving ELSE 0
ExecutePublish(c) ==
  LET v == call[c].of IN
  /\ At(c, "locked") /\ call[c].kind = "publish"
  /\ call' = [call EXCEPT ![c].at = IF PolicyOnly(version[v]) THEN "policy" ELSE "plan",
                          ![c].copy = version[v], ![c].expected = ExpectedTarget(v)]
  /\ Continues
  /\ UNCHANGED <<version, deprecated, databaseVars, deaths, historyVars>>

\* One transaction creates the table and moves the view, when neither the table
\* nor another view is in the way; no status stops a Job that finds no policy
\* pending.
CreateTable(c) ==
  LET v == call[c].of IN
  /\ At(c, "plan") /\ table[v] = 0 /\ stem = call[c].expected
  /\ table' = [table EXCEPT ![v] = call[c].copy.shape] /\ stem' = v
  /\ again' = (again \/ call[c].copy.status = "published")
  /\ Goes(c, "created") /\ Continues
  /\ UNCHANGED <<version, deprecated, rows, policy, deaths, torn, overwrote>>

\* The frozen bindings do not match, a name conflicts, or the transaction fails.
RefuseTable(c) ==
  /\ At(c, "plan") /\ Goes(c, "rollback") /\ Continues
  /\ UNCHANGED <<version, deprecated, databaseVars, deaths, historyVars>>

StorePublished(c) ==
  /\ At(c, "created")
  /\ version' = [version EXCEPT ![call[c].of] =
       [call[c].copy EXCEPT !.status = "published", !.present = TRUE, !.log = "pending"]]
  /\ Goes(c, "policy") /\ Continues
  /\ UNCHANGED <<deprecated, databaseVars, deaths, historyVars>>

\* Storing the version failed: the view is put back.  When that fails, the
\* table stays as well.
Restored_Wrong(c) == 0
Restored(c) == call[c].expected
RestoreView(c) ==
  /\ At(c, "created")
  /\ \/ stem' = Restored(c) /\ Goes(c, "revert") /\ UNCHANGED torn
     \/ torn' = TRUE /\ Goes(c, "rollback") /\ UNCHANGED stem
  /\ Continues
  /\ UNCHANGED <<version, deprecated, table, rows, policy, deaths, overwrote, again>>

\* _drop_empty_table: locked against writers, a table with rows is left.  The
\* revert may also fail, and leaves an empty one.
Droppable_Wrong(v) == {v}
Droppable(v) == {v} \ rows
RevertTable(c) ==
  /\ At(c, "revert")
  /\ \/ table' = [w \in Versions |-> IF w \in Droppable(call[c].of) THEN 0 ELSE table[w]]
     \/ UNCHANGED table
  /\ Goes(c, "rollback") /\ Continues
  /\ UNCHANGED <<version, deprecated, rows, stem, policy, deaths, historyVars>>

\* rollback_status reads a fresh row and saves it in another transaction.
ReadRollback(c) ==
  /\ At(c, "rollback")
  /\ IF version[call[c].of].status = "publishing" THEN Copies(c, "unpublish") /\ Continues ELSE Over(c)
  /\ UNCHANGED <<version, deprecated, databaseVars, deaths, historyVars>>
SaveRollback(c) ==
  /\ At(c, "unpublish")
  /\ Saves(c, [call[c].copy EXCEPT !.status = "unpublished", !.present = FALSE])
  /\ Over(c)
  /\ UNCHANGED <<deprecated, databaseVars, deaths, torn, again>>

\* _apply_pending_policy, outside the undo path; it may fail.
ApplyPolicy(c) ==
  /\ At(c, "policy")
  /\ \/ policy' = call[c].of /\ Goes(c, "applied") /\ Continues
     \/ UNCHANGED policy /\ Over(c)
  /\ UNCHANGED <<version, deprecated, table, rows, stem, deaths, historyVars>>
ReadApplied(c) ==
  /\ At(c, "applied") /\ Copies(c, "apply") /\ Continues
  /\ UNCHANGED <<version, deprecated, databaseVars, deaths, historyVars>>
SaveApplied(c) ==
  /\ At(c, "apply")
  /\ Saves(c, [call[c].copy EXCEPT !.log = "applied"])
  /\ Over(c)
  /\ UNCHANGED <<deprecated, databaseVars, deaths, torn, again>>

\* _drop decides on rows it reads under the lock.
ReadDrop(c) == MayDrop(call[c].of)
ExecuteDrop(c) ==
  /\ At(c, "locked") /\ call[c].kind = "drop"
  /\ IF ReadDrop(c)
     THEN /\ call' = [call EXCEPT ![c].at = "drop", ![c].copy = version[call[c].of],
                                  ![c].expected = IF call[c].of = Serving THEN stem ELSE 0]
          /\ Continues
     ELSE Over(c)
  /\ UNCHANGED <<version, deprecated, databaseVars, deaths, historyVars>>

\* A head goes with its view; another table cannot go while a view selects it.
DropTable(c) ==
  LET v == call[c].of IN
  /\ At(c, "drop")
  /\ \/ /\ v \in Droppable(v) /\ (stem # v \/ call[c].expected = v)
        /\ table' = [table EXCEPT ![v] = 0]
        /\ stem' = IF call[c].expected # 0 THEN 0 ELSE stem
        /\ Goes(c, "dropped") /\ Continues
     \/ UNCHANGED <<table, stem>> /\ Over(c)
  /\ UNCHANGED <<version, deprecated, rows, policy, deaths, historyVars>>
StoreDropped(c) ==
  /\ At(c, "dropped")
  /\ Saves(c, [call[c].copy EXCEPT !.present = FALSE])
  /\ Over(c)
  /\ UNCHANGED <<deprecated, databaseVars, deaths, torn, again>>

-----------------------------------------------------------------------------
\* The Job is cancelled, or failed as lost or overdue; its worker may live on.
EndJob(c) ==
  /\ inFlight' = inFlight \ {c} /\ c \in inFlight
  /\ UNCHANGED <<version, deprecated, databaseVars, call, tableLock, deaths, historyVars>>

\* A request or a worker dies; the Job stays in flight until it is found lost.
Die(c) ==
  /\ ~At(c, "idle") /\ ~At(c, "over") /\ deaths < MaxDeaths
  /\ deaths' = deaths + 1
  /\ Goes(c, "over")
  /\ tableLock' = IF tableLock = c THEN NoHold ELSE tableLock
  /\ torn' = (torn \/ call[c].at \in {"created", "revert", "dropped"})
  /\ UNCHANGED <<version, deprecated, databaseVars, inFlight, overwrote, again>>

PublishNext ==
  \/ OpenVersion \/ Deprecate \/ \E v \in Versions : WriteRows(v)
  \/ \E c \in Call :
       \/ \E v \in Opened : Request(c, v)
       \/ FindInFlight(c) \/ MintJob(c) \/ SaveAccepted(c) \/ SaveEdit(c)
       \/ ClaimTableJob(c) \/ ExecutePublish(c) \/ CreateTable(c) \/ RefuseTable(c)
       \/ StorePublished(c) \/ RestoreView(c) \/ RevertTable(c) \/ ReadRollback(c)
       \/ SaveRollback(c) \/ ApplyPolicy(c) \/ ReadApplied(c) \/ SaveApplied(c)
       \/ ExecuteDrop(c) \/ DropTable(c) \/ StoreDropped(c) \/ EndJob(c) \/ Die(c)

PublishSpec == PublishInit /\ [][PublishNext]_publishVars

-----------------------------------------------------------------------------
(* Properties *)

Places == {"idle", "prepared", "clear", "save", "sent", "locked", "plan", "created", "revert",
           "rollback", "unpublish", "policy", "applied", "apply", "drop", "dropped", "over"}

\* Types, and a worker that acts under the lock holds it.
PublishTypeOK ==
  /\ version \in [Versions -> [status : {"absent", "unpublished", "publishing", "published"},
                               shape : 0..MaxShape, present : BOOLEAN,
                               log : {"none", "pending", "applied"}]]
  /\ table \in [Versions -> 0..MaxShape] /\ stem \in 0..MaxVersion /\ policy \in 0..MaxVersion
  /\ \A c \in Call : /\ call[c].at \in Places /\ call[c].of \in 0..MaxVersion
                     /\ call[c].at \in {"plan", "created", "revert", "policy", "drop", "dropped"}
                          => tableLock = c
  /\ inFlight \subseteq Call

\* Between attempts, the two databases agree although no transaction spans them:
\* a version counts as published and present exactly when it has its table, in
\* the shape that is frozen in its row, and the stem view selects the head or
\* nothing.  An attempt cut between its two commits, a save that puts back an
\* older row, or a policy retry that outlives the drop of its table, may break
\* it; concurrent requests, lost locks, failed attempts, undone ones, cancelled
\* Jobs and other policy retries do not.
ViewSelectsHead ==
  tableLock = NoHold /\ ~torn /\ ~overwrote /\ ~again =>
    /\ stem = IF TablePresent(Serving) THEN Serving ELSE 0
    /\ \A v \in Versions :
         /\ version[v].present => version[v].status = "published" /\ table[v] = version[v].shape
         /\ version[v].status = "published" /\ table[v] # 0 => version[v].present

\* Whatever dies, is undone, retried or overwritten, a table that has rows is
\* never dropped or replaced, and its view never dangles.
RowsSurvive ==
  [][/\ \A v \in rows : table'[v] = table[v]
     /\ stem' # 0 => table'[stem'] # 0]_publishVars
=============================================================================
