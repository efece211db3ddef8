----------------------------- MODULE ChangeFeed -----------------------------
(***************************************************************************)
(* The checkpoint of one channel node that reads the Change Log of one     *)
(* entity (backend/channel/change_range.py, checkpoints.py, the node types *)
(* read.changes and volume.changes_dataset), over the log of CommitOrder   *)
(* with its purges (backend/entity/change_log.py, tasks.py, publish.py).   *)
(*                                                                         *)
(* Purges delete entries by the start of their transaction and raise the   *)
(* purge mark.  Runs of the channel overlap: each opens a range, reads it  *)
(* in short transactions, proposes a position, is stamped, and then        *)
(* advances the cursor.                                                    *)
(*                                                                         *)
(* A position (commit_seq, seq) is its commit_seq alone, which no two      *)
(* entries share (NumbersAreDistinct); 0 stands for no position.           *)
(***************************************************************************)
EXTENDS CommitOrder

CONSTANTS Stream,  \* the entity the node reads
          Run,     \* slots for overlapping runs; a slot is used again
          Limit    \* entries one page returns

ASSUME ChangeFeedAssumption == Stream \in Entity /\ Limit \in Nat \ {0}

VARIABLES mark,      \* purge mark of Stream
          recording, \* the effective row of Stream records
          purged,    \* history: numbers a purge deleted
          kind,      \* the node's type: read.changes or volume.changes_dataset
          cursor,    \* the stored checkpoint of the node on Stream
          run        \* the runs

feedVars == <<mark, recording, purged>>
runVars == <<kind, cursor, run>>
vars == <<txVars, feedVars, runVars>>

-----------------------------------------------------------------------------
Later(a, b) == IF a >= b THEN a ELSE b
Greatest(ns) == IF ns = {} THEN 0 ELSE CHOOSE n \in ns : \A m \in ns : m <= n

NewRun == [phase |-> "idle", ignores |-> FALSE, durable |-> 0,
           start |-> 0, after |-> 0, bound |-> -1, before |-> 0, proposal |-> 0,
           page |-> {}, gone |-> {}, got |-> {}, unseen |-> {}]

Init ==
  /\ OrderInit
  /\ mark = 0 /\ recording = TRUE /\ purged = {}
  /\ kind \in {"read", "dataset"} /\ cursor = 0 /\ run = [r \in Run |-> NewRun]

\* The triggers of Stream append only while the effective row records.
Writes == /\ \E t \in Tx : \/ Begin(t) \/ AssignCommit(t) \/ Commit(t) \/ Abort(t)
                           \/ \E e \in Entity : (e = Stream => recording) /\ AppendEntry(t, e)
          /\ UNCHANGED <<feedVars, runVars>>

-----------------------------------------------------------------------------
(* Purges *)

\* _delete_noting_purge
RaisedMark_Wrong(doomed) == Greatest(Numbers(doomed))
RaisedMark(doomed) == Later(mark, Greatest(Numbers(doomed)))

Delete(doomed) ==
  /\ log' = log \ doomed
  /\ mark' = RaisedMark(doomed)
  /\ purged' = purged \cup Numbers(doomed)
  /\ UNCHANGED <<tx, started, seq, counter, holder, runVars>>

\* delete_entries_before: the daily purge and a publish that shortens retention.
PurgeBefore(cutoff) ==
  /\ recording
  /\ Delete({x \in Visible(Stream) : started[x.tx] < cutoff})
  /\ UNCHANGED recording

\* _apply_change_log_policy turns recording off.  DROP TRIGGER waits for the
\* transactions that wrote the table.
SwitchOff ==
  /\ recording
  /\ \A t \in Tx : tx[t] \notin Finished => Of(t, Stream) = {}
  /\ Delete(Visible(Stream))
  /\ recording' = FALSE

SwitchOn ==
  /\ ~recording
  /\ recording' = TRUE
  /\ UNCHANGED <<txVars, mark, purged, runVars>>

-----------------------------------------------------------------------------
(* A run: the node opens a range, reads it and proposes; the run is stamped *)
(* and advances the cursor                                                  *)

Become(r, rec) == run' = [run EXCEPT ![r] = rec]
Go(r, phase) == Become(r, [run[r] EXCEPT !.phase = phase])

\* What an execution of the node leaves to its run; its own variables are gone.
Between(rec, proposal, got) ==
  [NewRun EXCEPT !.phase = "between", !.ignores = rec.ignores,
                 !.bound = rec.bound, !.proposal = Later(rec.proposal, proposal),
                 !.got = rec.got \cup got, !.unseen = rec.unseen]

\* on_error: stop ends the run, continue and error_output go on without a proposal.
NodeFails(r, rec) == Become(r, NewRun) \/ Become(r, Between(rec, 0, {}))

\* recording_enabled, then the stored cursor.
OpenRange(r, rec) ==
  /\ IF ~recording THEN NodeFails(r, rec)
     ELSE Become(r, [rec EXCEPT !.durable = cursor,
                                !.phase = IF rec.ignores THEN "position" ELSE "check"])
  /\ UNCHANGED <<txVars, feedVars, kind, cursor>>

\* A run reaches the node.
StartRun(r, ignores) ==
  /\ run[r].phase = "idle"
  /\ OpenRange(r, [NewRun EXCEPT !.ignores = ignores])

\* A Container runs the node again.
Loop(r) == run[r].phase = "between" /\ OpenRange(r, run[r])

\* The purge mark is read after the cursor.
BehindMark(durable) == durable > 0 /\ durable < mark

CheckMark(r) ==
  /\ run[r].phase = "check"
  /\ IF BehindMark(run[r].durable) THEN NodeFails(r, run[r])
     ELSE run' = [run EXCEPT ![r].gone = IF run[r].durable = 0 THEN {} ELSE purged,
                             ![r].durable = 0, ![r].phase = "position"]
  /\ UNCHANGED <<txVars, feedVars, kind, cursor>>

\* The start: stored() reads the cursor again.
Position(r) ==
  LET start == IF run[r].ignores THEN run[r].proposal ELSE Later(cursor, run[r].proposal)
  IN /\ run[r].phase = "position"
     /\ run' = [run EXCEPT ![r].start = start, ![r].after = start, ![r].phase = "bound"]
     /\ UNCHANGED <<txVars, feedVars, kind, cursor>>

\* The bound is captured once in a run.
CaptureBound(r) ==
  /\ run[r].phase = "bound"
  /\ run' = [run EXCEPT
       ![r].bound = IF @ = -1 THEN Greatest(Numbers(Visible(Stream))) ELSE @,
       ![r].phase = IF kind = "read" THEN "read" ELSE "before"]
  /\ UNCHANGED <<txVars, feedVars, kind, cursor>>

\* read_entries_after: the first Limit entries above the start, up to the bound.
InRange(r) == {n \in Numbers(Visible(Stream)) : run[r].after < n /\ n <= run[r].bound}
Page(r) == {n \in InRange(r) : Cardinality({m \in InRange(r) : m < n}) < Limit}

\* History: what the run reads no more and its mark check did not answer for.
Unseen(r) == run[r].unseen \cup (purged \ run[r].gone)

\* read.changes: one page, proposed at once.
ReadPage(r) ==
  /\ run[r].phase = "read"
  /\ IF ~recording THEN NodeFails(r, run[r])
     ELSE Become(r, Between([run[r] EXCEPT !.unseen = Unseen(r)],
                            Greatest(Page(r)), Page(r)))
  /\ UNCHANGED <<txVars, feedVars, kind, cursor>>

\* volume.changes_dataset: the mark before the pages, the pages, the mark after.
MarkBefore(r) ==
  /\ run[r].phase = "before"
  /\ run' = [run EXCEPT ![r].before = mark, ![r].unseen = Unseen(r),
                          ![r].gone = {}, ![r].phase = "paging"]
  /\ UNCHANGED <<txVars, feedVars, kind, cursor>>

\* The load ends with the last page or at the node's limit.
LoadPage(r) ==
  /\ run[r].phase = "paging"
  /\ IF ~recording THEN NodeFails(r, run[r])
     ELSE \E full \in BOOLEAN :
            run' = [run EXCEPT ![r].page = @ \cup Page(r),
                               ![r].after = Later(@, Greatest(Page(r))),
                               ![r].phase = IF full \/ Page(r) = InRange(r)
                                            THEN "after" ELSE @]
  /\ UNCHANGED <<txVars, feedVars, kind, cursor>>

\* _purge_moved_past_start
PurgeMovedPastStart_Wrong(r) == mark > run[r].before /\ Greatest(run[r].page) < mark
PurgeMovedPastStart(r) == mark > run[r].before /\ run[r].start < mark

\* History: what the marks of a load do not answer for.  A purge by age may delete an
\* entry below the mark, and then raises none.
Hidden(r) == {n \in purged : n <= run[r].before}

\* The dataset and the proposal stand only if no purge moved the mark into the range.
MarkAfter(r) ==
  /\ run[r].phase = "after"
  /\ IF PurgeMovedPastStart(r) THEN NodeFails(r, run[r])
     ELSE Become(r, Between([run[r] EXCEPT !.unseen = @ \cup Hidden(r)],
                            Greatest(run[r].page), run[r].page))
  /\ UNCHANGED <<txVars, feedVars, kind, cursor>>

\* The Job is stored succeeded with outcome completed.
Stamp(r) ==
  /\ run[r].phase = "between"
  /\ Go(r, "stamped")
  /\ UNCHANGED <<txVars, feedVars, kind, cursor>>

\* advance_from_run
Moved(position) == Later(cursor, position)

Advance(r) ==
  /\ run[r].phase = "stamped"
  /\ cursor' = Moved(run[r].proposal)
  /\ Become(r, NewRun)
  /\ UNCHANGED <<txVars, feedVars, kind>>

\* The run fails or is cancelled, or its worker dies, before or after the stamp; or
\* it was to stop at one node, and ends without advancing.
Fault(r) ==
  /\ run[r].phase # "idle"
  /\ Become(r, NewRun)
  /\ UNCHANGED <<txVars, feedVars, kind, cursor>>

-----------------------------------------------------------------------------
Purges == SwitchOff \/ SwitchOn \/ \E c \in 2..(Cardinality(Tx) + 1) : PurgeBefore(c)

RunStep(r) ==
  \/ CheckMark(r) \/ Position(r) \/ CaptureBound(r)
  \/ ReadPage(r) \/ MarkBefore(r) \/ LoadPage(r) \/ MarkAfter(r)
  \/ Stamp(r) \/ Advance(r)

Runs == \E r \in Run : \/ RunStep(r) \/ Loop(r) \/ Fault(r)
                       \/ \E ignores \in BOOLEAN : StartRun(r, ignores)

Next == Writes \/ Purges \/ Runs

Spec == Init /\ [][Next]_vars

-----------------------------------------------------------------------------
(* Properties *)

\* However runs overlap, loop, fail and crash, the cursor passes only what the
\* advancing run has read itself.  The exception is what a purge took before the
\* run read it, and that stays unreported only when the run had no cursor, ignored
\* checkpoints, or was between its mark check and its read when the purge came, or
\* when the entry was below the mark that a dataset's load began with.
OnlyReadIsPassed ==
  [][\A n \in (cursor + 1)..cursor' :
       \E r \in Run : run[r].phase = "stamped" /\ n \in run[r].got \cup run[r].unseen]_vars
=============================================================================
