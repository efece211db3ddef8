------------------------------ MODULE Recovery ------------------------------
(***************************************************************************)
(* What follows the end of a run of one Data Channel                       *)
(* (backend/channel/recovery.py, called by runner.py in the run's child    *)
(* process): a retry, or the end of the failure episode with its streak    *)
(* and its error workflow, and the deletion of runs that are not kept.     *)
(*                                                                         *)
(* The streak lives on the channel row, which settlements and the owner's  *)
(* edits (service.py) read in one transaction and write back whole in      *)
(* another (SqlChannelStore.save).                                         *)
(***************************************************************************)
EXTENDS Integers, FiniteSets

CONSTANTS MaxRuns,    \* bound on the runs minted
          RetryLimit, \* run_retry_limit of the published graph
          MaxEdits    \* bound on the owner's edits

ASSUME RecoveryAssumption == MaxRuns \in Nat /\ RetryLimit \in 0..10 /\ MaxEdits \in Nat

VARIABLES channel,   \* the channel row: active and failure_streak
          exists,    \* FALSE once the channel is deleted
          keep,      \* the graph's keeping settings
          attempt,   \* the runs, in the order of their mint
          settling,  \* where the settlement of each run is
          edit,      \* the record an owner's request holds
          edits,     \* edits so far
          alarms,    \* runs for which the error workflow was started
          closed, overlap, cut  \* history, see below

runVars2 == <<attempt, settling, alarms>>
history == <<closed, overlap, cut>>
recoveryVars == <<channel, exists, keep, edit, edits, runVars2, history>>

-----------------------------------------------------------------------------
RunId == 1..MaxRuns
NoRun == 0
Rec == [active : BOOLEAN, streak : Nat]
NoRec == [active |-> FALSE, streak |-> -1]

Terminal2 == {"failed", "succeeded", "cancelled", "gone"}
NoAttempt == [state |-> "none", kind |-> "published", retryOf |-> NoRun]
AtRest == [at |-> "rest", value |-> 0, copy |-> NoRec]

Minted == {r \in RunId : attempt[r].state # "none"}
NextId == Cardinality(Minted) + 1

RecoveryInit ==
  /\ channel = [active |-> TRUE, streak |-> 0] /\ exists = TRUE /\ keep \in BOOLEAN
  /\ attempt = [r \in RunId |-> NoAttempt] /\ settling = [r \in RunId |-> AtRest]
  /\ edit = NoRec /\ edits = 0 /\ alarms = {}
  /\ closed = 0 /\ overlap = FALSE /\ cut = FALSE

Busy == {r \in RunId : settling[r].at # "rest"}

\* The chain of a run: the runs it is a retry of, itself included.
Ancestry[r \in RunId] ==
  {r} \cup (IF attempt[r].retryOf = NoRun THEN {} ELSE Ancestry[attempt[r].retryOf])
SameChain(q, r) == q \in Ancestry[r] \/ r \in Ancestry[q]

At(r, where) == settling' = [settling EXCEPT ![r] = [AtRest EXCEPT !.at = where]]
Rest(r) == At(r, "rest")

-----------------------------------------------------------------------------
(* Runs *)

\* A trigger mints a run: published, draft, or as the error workflow of another channel.
MintFirst(kind) ==
  /\ exists /\ NextId \in RunId
  /\ attempt' = [attempt EXCEPT ![NextId] = [NoAttempt EXCEPT !.state = "running", !.kind = kind]]
  /\ UNCHANGED <<channel, exists, keep, edit, edits, settling, alarms, history>>

\* The child stores the outcome and begins to settle it; without the channel it would
\* have cancelled the run.  History: closed counts
\* the published episodes since the last published success; overlap, something else
\* was writing the channel row meanwhile.
Finish(r, state) ==
  /\ attempt[r].state = "running" /\ exists
  /\ attempt' = [attempt EXCEPT ![r].state = state]
  /\ At(r, IF state = "failed" THEN "decide" ELSE "advance")
  /\ overlap' = (overlap \/ Busy # {} \/ edit # NoRec)
  /\ closed' = IF state = "succeeded" /\ attempt[r].kind # "draft" THEN 0 ELSE closed
  /\ UNCHANGED <<channel, exists, keep, edit, edits, alarms, cut>>

\* A user cancels the run: nothing is settled.
CancelRun(r) ==
  /\ attempt[r].state = "running"
  /\ attempt' = [attempt EXCEPT ![r].state = "cancelled"]
  /\ UNCHANGED <<channel, exists, keep, edit, edits, settling, alarms, history>>

\* The worker is lost: the Job is failed by others, or its settlement stops.
LoseRun(r) ==
  /\ attempt[r].state = "running" \/ r \in Busy
  /\ attempt' = [attempt EXCEPT ![r].state = IF @ = "running" THEN "failed" ELSE @]
  /\ Rest(r)
  /\ cut' = TRUE
  /\ UNCHANGED <<channel, exists, keep, edit, edits, alarms, closed, overlap>>

-----------------------------------------------------------------------------
(* settle_failure *)

\* _ancestors counts the chain above the run.
Ancestors(r) == Cardinality(Ancestry[r] \ {r})

RetriesLeft_Wrong(r) == attempt[r].kind = "published" /\ Ancestors(r) <= RetryLimit
RetriesLeft(r) == attempt[r].kind = "published" /\ Ancestors(r) < RetryLimit

\* The mint may raise; that is logged, and nothing else follows.
AfterRetry_Wrong == "alarm"
AfterRetry == "rest"
Retry(r) ==
  /\ settling[r].at = "decide" /\ RetriesLeft(r)
  /\ \/ /\ NextId \in RunId
        /\ attempt' = [attempt EXCEPT ![NextId] =
             [NoAttempt EXCEPT !.state = "running", !.retryOf = r]]
        /\ UNCHANGED cut
     \/ cut' = TRUE /\ UNCHANGED attempt
  /\ At(r, AfterRetry)
  /\ UNCHANGED <<channel, exists, keep, edit, edits, alarms, closed, overlap>>

\* The failure mints no further Job: the episode closes.
Counts_Wrong(r) == attempt[r].retryOf = NoRun
Counts(r) == attempt[r].kind # "draft"
CloseEpisode(r) ==
  /\ settling[r].at = "decide" /\ ~RetriesLeft(r)
  /\ closed' = IF attempt[r].kind # "draft" THEN closed + 1 ELSE closed
  /\ At(r, IF Counts(r) THEN "bump" ELSE "alarm")
  /\ UNCHANGED <<channel, exists, keep, edit, edits, attempt, alarms, overlap, cut>>

AfterStreak(r) ==
  IF attempt[r].state = "failed" /\ attempt[r].kind # "error" THEN "alarm" ELSE "discard"

\* _bump_streak reads the streak ...
BumpStreak(r) ==
  /\ settling[r].at = "bump"
  /\ IF exists THEN settling' = [settling EXCEPT ![r].at = "write", ![r].value = channel.streak + 1]
               ELSE At(r, AfterStreak(r))
  /\ UNCHANGED <<channel, exists, keep, edit, edits, attempt, alarms, history>>

\* ... _write_streak reads the row again ...
WriteStreak(r) ==
  /\ settling[r].at = "write"
  /\ IF exists /\ ~(settling[r].value = 0 /\ channel.streak = 0)
     THEN settling' = [settling EXCEPT ![r].at = "save", ![r].copy = channel]
     ELSE At(r, AfterStreak(r))
  /\ UNCHANGED <<channel, exists, keep, edit, edits, attempt, alarms, history>>

\* ... and saves the whole of it; without the channel the save raises.
SaveStreak(r) ==
  /\ settling[r].at = "save"
  /\ IF exists
     THEN /\ channel' = [settling[r].copy EXCEPT !.streak = settling[r].value]
          /\ At(r, AfterStreak(r))
          /\ UNCHANGED cut
     ELSE Rest(r) /\ cut' = TRUE /\ UNCHANGED channel
  /\ UNCHANGED <<exists, keep, edit, edits, attempt, alarms, closed, overlap>>

\* The error workflow is started unless there is none, it cannot run, or the mint fails.
StartErrorWorkflow(r) ==
  /\ settling[r].at = "alarm"
  /\ alarms' \in {alarms, alarms \cup {r}}
  /\ At(r, "discard")
  /\ UNCHANGED <<channel, exists, keep, edit, edits, attempt, history>>

\* _release_failed_chain and _discard_job.
Doomed_Wrong(r) == {q \in RunId : attempt[q].kind = attempt[r].kind /\ attempt[q].state = "failed"}
Doomed(r) ==
  IF attempt[r].state = "failed" /\ attempt[r].kind # "error"
  THEN {q \in Ancestry[r] : \A p \in Ancestry[r] : p >= q => attempt[p].state = "failed"}
  ELSE {r}

Discard(r) ==
  /\ settling[r].at = "discard"
  /\ attempt' = IF keep THEN attempt
                ELSE [q \in RunId |-> IF q \in Doomed(r) THEN [attempt[q] EXCEPT !.state = "gone"]
                                      ELSE attempt[q]]
  /\ Rest(r)
  /\ UNCHANGED <<channel, exists, keep, edit, edits, alarms, history>>

\* settle_success: the checkpoints advance, then a published success ends the episode.
AdvanceThenReset(r) ==
  /\ settling[r].at = "advance"
  /\ At(r, IF attempt[r].kind = "draft" THEN "discard" ELSE "write")
  /\ UNCHANGED <<channel, exists, keep, edit, edits, attempt, alarms, history>>

-----------------------------------------------------------------------------
(* The owner *)

\* patch_channel and set_channel_active read the record, change it and save it.
ReadForEdit ==
  /\ exists /\ edit = NoRec /\ edits < MaxEdits
  /\ edit' \in {channel, [channel EXCEPT !.active = ~@]}
  /\ overlap' = (overlap \/ Busy # {})
  /\ edits' = edits + 1
  /\ UNCHANGED <<channel, exists, keep, runVars2, closed, cut>>

SaveEdit ==
  /\ edit # NoRec
  /\ channel' = IF exists THEN edit ELSE channel
  /\ edit' = NoRec
  /\ UNCHANGED <<exists, keep, edits, runVars2, history>>

\* delete_channel cancels the channel's runs first.
DeleteChannel ==
  /\ exists
  /\ exists' = FALSE
  /\ attempt' = [r \in RunId |-> IF attempt[r].state = "running"
                                 THEN [attempt[r] EXCEPT !.state = "cancelled"] ELSE attempt[r]]
  /\ UNCHANGED <<channel, keep, edit, edits, settling, alarms, history>>

-----------------------------------------------------------------------------
RecoveryNext ==
  \/ \E kind \in {"published", "draft", "error"} : MintFirst(kind)
  \/ ReadForEdit \/ SaveEdit \/ DeleteChannel
  \/ \E r \in RunId :
       \/ Finish(r, "failed") \/ Finish(r, "succeeded") \/ CancelRun(r) \/ LoseRun(r)
       \/ Retry(r) \/ CloseEpisode(r) \/ BumpStreak(r) \/ WriteStreak(r) \/ SaveStreak(r)
       \/ StartErrorWorkflow(r) \/ Discard(r) \/ AdvanceThenReset(r)

RecoverySpec == RecoveryInit /\ [][RecoveryNext]_recoveryVars

-----------------------------------------------------------------------------
(* Properties *)

\* Types; a retry is younger than the run it retries.
RecoveryTypeOK ==
  /\ channel \in Rec /\ exists \in BOOLEAN /\ keep \in BOOLEAN
  /\ attempt \in [RunId -> [state : Terminal2 \cup {"none", "running"},
                            kind : {"published", "draft", "error"}, retryOf : {NoRun} \cup RunId]]
  /\ \A r \in RunId : attempt[r].retryOf < r
  /\ settling \in [RunId -> [at : {"rest", "decide", "bump", "write", "save", "alarm",
                                   "discard", "advance"},
                             value : Nat, copy : Rec \cup {NoRec}]]
  /\ edit \in Rec \cup {NoRec} /\ edits \in 0..MaxEdits /\ alarms \subseteq RunId

\* The chain of r is over: its last run is r, or none of it runs or is being settled.
Settling == {"decide", "bump", "write", "save", "alarm"}
LastOfChain(r) == \A q \in Minted \ {r} :
  SameChain(q, r) => q \in Ancestry[r] /\ attempt[q].state # "running"
Unsettled(r) == {q \in Minted : SameChain(q, r) /\ (attempt[q].state = "running" \/ settling[q].at \in Settling)}

\* What follows the end of a chain waits for it: the error workflow is started once, by
\* the last run, when nothing of the chain is left to run; and the keeping settings drop
\* a failed run only when no retry of it is running or still to be settled.  And it comes
\* at all: a chain mints at most RetryLimit further Jobs, one for each run that failed.
ChainIsOver ==
  /\ \A r \in Minted : /\ Cardinality(Ancestry[r]) <= RetryLimit + 1
                       /\ Cardinality({q \in Minted : attempt[q].retryOf = r}) <= 1
  /\ \A r \in alarms : LastOfChain(r) /\ \A q \in alarms \ {r} : ~SameChain(q, r)
  /\ \A r \in Minted : attempt[r].state = "gone" => Unsettled(r) = {}

\* While settlements and edits come one at a time and none is cut short, the streak at
\* rest is the number of published episodes closed since the last published success.
StreakCountsEpisodes ==
  ~overlap /\ ~cut /\ exists /\ Busy = {} => channel.streak = closed
=============================================================================
