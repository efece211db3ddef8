------------------------------ MODULE Datasets ------------------------------
(***************************************************************************)
(* The tables of Channel Datasets, which live in the entity database, and  *)
(* their registry rows in the platform database                            *)
(* (backend/channel/dataset_registry.py, entity/datasets.py).              *)
(*                                                                         *)
(* A node of a run loads a dataset; the run's end seals its expiry; the    *)
(* keeping settings may drop it with the run; the hourly purge             *)
(* (channel/tasks.py) seals, drops what is due and sweeps up tables that   *)
(* no row claims.  Nothing holds the two databases together but the order  *)
(* of these transactions, and every writer saves the whole row it read.    *)
(*                                                                         *)
(* Each dataset is the only one of its run.  Sizes are in chunks.          *)
(***************************************************************************)
EXTENDS Integers, FiniteSets, Functions

CONSTANTS Dataset,
          Ceiling,    \* channel_dataset_max_total_gb
          MaxChunks,  \* bound on the chunks of one load
          MaxPasses,  \* bound on the passes of the purge
          MaxFaults   \* bound on the drops that fail

ASSUME DatasetsAssumption ==
  /\ IsFiniteSet(Dataset) /\ Ceiling \in Nat \ {0}
  /\ MaxChunks \in Nat /\ MaxPasses \in Nat /\ MaxFaults \in Nat

VARIABLES registry, \* the registry rows
          table,    \* the tables committed in the entity database
          loader,   \* the process of each run: where it is, the record it holds
          ended,    \* runs whose Job is terminal
          gone,     \* runs whose Job and run record the keeping settings deleted
          due,      \* datasets whose expiry has come
          purge,    \* the pass of the purge in progress
          passes, faults,
          ripe, unread  \* history, see below

datasetVars == <<registry, table, loader, ended, gone, due, purge, passes, faults, ripe, unread>>

-----------------------------------------------------------------------------
NoDataset == [status |-> "none", size |-> 0, sealed |-> FALSE]
NoWork == [at |-> "idle", todo |-> {}, dropped |-> {}, active |-> {},
           copy |-> [d \in Dataset |-> NoDataset]]

Capacity == {"loading", "ready"}
Active == {d \in Dataset : registry[d].status \in Capacity}
Used == SumFunctionOnSet([d \in Dataset |-> registry[d].size], Active)

DatasetsInit ==
  /\ registry = [d \in Dataset |-> NoDataset] /\ table = {}
  /\ loader = [d \in Dataset |-> [at |-> "new", copy |-> NoDataset, query |-> FALSE]]
  /\ ended = {} /\ gone = {} /\ due = {}
  /\ purge = NoWork /\ passes = 0 /\ faults = 0 /\ ripe = {} /\ unread = {}

GoTo(d, where) ==
  loader' = [loader EXCEPT ![d].at = where, ![d].copy = IF where \in {"end", "dead"} THEN NoDataset ELSE @]
Save(d, copy) == registry' = [registry EXCEPT ![d] = copy]

\* History: unread, what loads have saved since the sweep read the registry.
Saved(d) == IF purge.at \in {"tables", "sweep"} THEN unread \cup {d} ELSE unread

-----------------------------------------------------------------------------
(* The load, in the run's process *)

\* _ensure_capacity; a run that is refused ends its load there.
Full_Wrong == FALSE
Full == Used >= Ceiling
EnsureCapacity(d) ==
  /\ loader[d].at = "new"
  /\ GoTo(d, IF Full THEN "end" ELSE "begin")
  /\ UNCHANGED <<registry, table, ended, gone, due, purge, passes, faults, ripe, unread>>

\* _begin: the row comes before the table.
BeginDataset(d) ==
  LET loading == [NoDataset EXCEPT !.status = "loading"] IN
  /\ loader[d].at = "begin"
  /\ Save(d, loading)
  /\ loader' = [loader EXCEPT ![d].at = "load", ![d].copy = loading]
  /\ unread' = Saved(d)
  /\ UNCHANGED <<table, ended, gone, due, purge, passes, faults, ripe>>

\* create_table_from_query: one transaction, without a check of the ceiling.
CreateFromQuery(d) ==
  /\ loader[d].at = "load" /\ loader[d].copy.size = 0
  /\ table' = table \cup {d}
  /\ \E n \in 1..MaxChunks :
       loader' = [loader EXCEPT ![d] = [at |-> "ready", copy |-> [@.copy EXCEPT !.size = n], query |-> TRUE]]
  /\ UNCHANGED <<registry, ended, gone, due, purge, passes, faults, ripe, unread>>

\* copy_chunks: on_chunk saves the record and then looks at the ceiling, all
\* before the table's transaction commits.
CopyChunk(d) ==
  LET copy == [loader[d].copy EXCEPT !.size = @ + 1] IN
  /\ loader[d].at = "load" /\ copy.size <= MaxChunks
  /\ Save(d, copy)
  /\ loader' = [loader EXCEPT ![d].at = "check", ![d].copy = copy]
  /\ unread' = Saved(d)
  /\ UNCHANGED <<table, ended, gone, due, purge, passes, faults, ripe>>

CheckChunk(d) ==
  /\ loader[d].at = "check"
  /\ GoTo(d, IF Full THEN "drop" ELSE "load")
  /\ UNCHANGED <<registry, table, ended, gone, due, purge, passes, faults, ripe, unread>>

CommitTable(d) ==
  /\ loader[d].at = "load" /\ loader[d].copy.size > 0
  /\ table' = table \cup {d}
  /\ GoTo(d, "ready")
  /\ UNCHANGED <<registry, ended, gone, due, purge, passes, faults, ripe, unread>>

\* The load fails, before or after the table's commit.
FailLoad(d) ==
  /\ loader[d].at \in {"load", "ready"}
  /\ GoTo(d, "drop")
  /\ UNCHANGED <<registry, table, ended, gone, due, purge, passes, faults, ripe, unread>>

\* _ready
MarkReady(d) ==
  /\ loader[d].at = "ready"
  /\ Save(d, [loader[d].copy EXCEPT !.status = "ready"])
  /\ GoTo(d, "end")
  /\ unread' = Saved(d)
  /\ UNCHANGED <<table, ended, gone, due, purge, passes, faults, ripe>>

\* drop_relation, then the row: _drop_failed and the keeper's _drop_and_mark.
\* A drop that fails leaves the row as it is, and the keeper goes on to the record.
DropOwn(d) ==
  /\ loader[d].at \in {"drop", "keeper_drop"}
  /\ \/ /\ table' = table \ {d}
        /\ GoTo(d, IF loader[d].at = "drop" THEN "mark" ELSE "keeper_mark")
        /\ UNCHANGED <<faults, ripe>>
     \/ /\ faults < MaxFaults /\ faults' = faults + 1
        /\ GoTo(d, IF loader[d].at = "drop" THEN "end" ELSE "forget")
        /\ ripe' = ripe \ {d}
        /\ UNCHANGED table
  /\ UNCHANGED <<registry, ended, gone, due, purge, passes, unread>>

MarkOwn(d) ==
  /\ loader[d].at \in {"mark", "keeper_mark"}
  /\ Save(d, [loader[d].copy EXCEPT !.status = "dropped"])
  /\ GoTo(d, IF loader[d].at = "mark" THEN "end" ELSE "forget")
  /\ UNCHANGED <<table, ended, gone, due, purge, passes, faults, ripe, unread>>

\* The process is killed or lost; an open transaction is rolled back.
KillLoader(d) ==
  /\ loader[d].at \notin {"new", "end", "dead"}
  /\ GoTo(d, "dead")
  /\ UNCHANGED <<registry, table, ended, gone, due, purge, passes, faults, ripe, unread>>

-----------------------------------------------------------------------------
(* The end of the run *)

\* By the run's own process, by a cancellation, or by those who take it for lost
\* while its process still works.
EndJob(d) ==
  /\ d \notin ended /\ loader[d].at # "new"
  /\ ended' = ended \cup {d}
  /\ UNCHANGED <<registry, table, loader, gone, due, purge, passes, faults, ripe, unread>>

\* seal_dataset_expiry, by the run's process or its task; the Job must be there.
Seals(d) == d \in ended \ gone /\ registry[d].status # "none" /\ ~registry[d].sealed
Seal(d) ==
  /\ Seals(d)
  /\ registry' = [registry EXCEPT ![d].sealed = TRUE]
  /\ UNCHANGED <<table, loader, ended, gone, due, purge, passes, faults, ripe, unread>>

ExpiryComes(d) ==
  /\ d \in ended \ due
  /\ due' = due \cup {d}
  /\ UNCHANGED <<registry, table, loader, ended, gone, purge, passes, faults, ripe, unread>>

\* The keeping settings drop the run's datasets ...
KeeperLists(d) ==
  /\ loader[d].at = "end" /\ d \in ended \ gone
  /\ loader' = [loader EXCEPT
       ![d].at = IF registry[d].status \in Capacity THEN "keeper_drop" ELSE "forget",
       ![d].copy = registry[d]]
  /\ UNCHANGED <<registry, table, ended, gone, due, purge, passes, faults, ripe, unread>>

\* ... and then its record and its Job.
KeeperForgets(d) ==
  /\ loader[d].at = "forget"
  /\ gone' = gone \cup {d}
  /\ GoTo(d, "dead")
  /\ UNCHANGED <<registry, table, ended, due, purge, passes, faults, ripe, unread>>

-----------------------------------------------------------------------------
(* purge_expired_run_records, one pass at a time *)

\* seal_unsealed_terminal_datasets.  History: ripe, what this pass must clean up,
\* that is, what is due and has not ended in a drop that failed.
StartPass ==
  /\ purge.at = "idle" /\ passes < MaxPasses
  /\ passes' = passes + 1
  /\ registry' = [d \in Dataset |-> [registry[d] EXCEPT !.sealed = @ \/ Seals(d)]]
  /\ purge' = [NoWork EXCEPT !.at = "expired"]
  /\ ripe' = {d \in (ended \cap due) \ gone : loader[d].at \in {"end", "dead"}}
  /\ UNCHANGED <<table, loader, ended, gone, due, faults, unread>>

Done == purge.todo = {} /\ purge.dropped = {}

\* list_expired and list_for_jobs return records, to be saved as they were read.
Expired_Wrong == {d \in Active : registry[d].sealed /\ d \in due /\ registry[d].status = "ready"}
Expired == {d \in Active : registry[d].sealed /\ d \in due}

Lists(found, next) ==
  /\ purge' = [NoWork EXCEPT !.at = next, !.todo = found,
                           !.copy = [d \in Dataset |-> IF d \in found THEN registry[d] ELSE NoDataset]]
  /\ UNCHANGED <<registry, table, loader, ended, gone, due, passes, faults, ripe, unread>>

\* drop_expired_datasets, and for runs whose records are old drop_datasets_for_due_runs.
ListExpired == purge.at = "expired" /\ Lists(Expired, "drop_expired")
ListOldRuns ==
  /\ purge.at = "drop_expired" /\ Done
  /\ \E old \in SUBSET (ended \ gone) : Lists(old \cap Active, "drop_old")

\* drop_expired_datasets keeps a row that was loading unless its Job is there and
\* terminal.
Keeps(d) == /\ purge.at = "drop_expired" /\ purge.copy[d].status = "loading"
            /\ d \notin ended \ gone

\* _drop_and_mark goes on with the next dataset when a drop fails.
DropListed(d) ==
  /\ purge.at \in {"drop_expired", "drop_old"} /\ d \in purge.todo /\ purge.dropped = {}
  /\ \/ /\ Keeps(d)
        /\ purge' = [purge EXCEPT !.todo = @ \ {d}]
        /\ UNCHANGED <<table, faults, ripe>>
     \/ /\ ~Keeps(d)
        /\ table' = table \ {d}
        /\ purge' = [purge EXCEPT !.todo = @ \ {d}, !.dropped = {d}]
        /\ UNCHANGED <<faults, ripe>>
     \/ /\ ~Keeps(d)
        /\ faults < MaxFaults /\ faults' = faults + 1
        /\ purge' = [purge EXCEPT !.todo = @ \ {d}]
        /\ ripe' = ripe \ {d}
        /\ UNCHANGED table
  /\ UNCHANGED <<registry, loader, ended, gone, due, passes, unread>>

MarkListed(d) ==
  /\ d \in purge.dropped
  /\ Save(d, [purge.copy[d] EXCEPT !.status = "dropped"])
  /\ purge' = [purge EXCEPT !.dropped = {}, !.copy[d] = NoDataset]
  /\ UNCHANGED <<table, loader, ended, gone, due, passes, faults, ripe, unread>>

\* drop_orphan_dataset_tables: active_relations in the platform database, then
\* list_dataset_relations in the entity database.
Protected_Wrong == {d \in Dataset : registry[d].status = "ready"}
Protected == Active
ReadActive ==
  /\ purge.at = "drop_old" /\ Done
  /\ purge' = [NoWork EXCEPT !.at = "tables", !.active = Protected]
  /\ UNCHANGED <<registry, table, loader, ended, gone, due, passes, faults, ripe, unread>>

ListTables ==
  /\ purge.at = "tables"
  /\ purge' = [purge EXCEPT !.at = "sweep", !.todo = table \ purge.active]
  /\ UNCHANGED <<registry, table, loader, ended, gone, due, passes, faults, ripe, unread>>

DropOrphan(d) ==
  /\ purge.at = "sweep" /\ d \in purge.todo
  /\ \/ table' = table \ {d} /\ UNCHANGED <<faults, ripe>>
     \/ /\ faults < MaxFaults /\ faults' = faults + 1
        /\ ripe' = ripe \ {d}
        /\ UNCHANGED table
  /\ purge' = [purge EXCEPT !.todo = @ \ {d}]
  /\ UNCHANGED <<registry, loader, ended, gone, due, passes, unread>>

EndPass ==
  /\ purge.at = "sweep" /\ Done
  /\ purge' = NoWork /\ ripe' = {} /\ unread' = {}
  /\ UNCHANGED <<registry, table, loader, ended, gone, due, passes, faults>>

-----------------------------------------------------------------------------
DatasetsNext ==
  \/ StartPass \/ ListExpired \/ ListOldRuns \/ ReadActive \/ ListTables \/ EndPass
  \/ \E d \in Dataset :
       \/ EnsureCapacity(d) \/ BeginDataset(d) \/ CreateFromQuery(d) \/ CopyChunk(d) \/ CheckChunk(d)
       \/ CommitTable(d) \/ FailLoad(d) \/ MarkReady(d) \/ DropOwn(d) \/ MarkOwn(d) \/ KillLoader(d)
       \/ EndJob(d) \/ Seal(d) \/ ExpiryComes(d) \/ KeeperLists(d) \/ KeeperForgets(d)
       \/ DropListed(d) \/ MarkListed(d) \/ DropOrphan(d)

DatasetsSpec == DatasetsInit /\ [][DatasetsNext]_datasetVars

-----------------------------------------------------------------------------
(* Properties *)

DatasetRow == [status : Capacity \cup {"none", "dropped"}, size : Nat, sealed : BOOLEAN]

\* Types.
DatasetsTypeOK ==
  /\ registry \in [Dataset -> DatasetRow] /\ table \subseteq Dataset
  /\ loader \in [Dataset -> [at : {"new", "begin", "load", "check", "ready", "drop", "mark", "end", "dead",
                                   "keeper_drop", "keeper_mark", "forget"},
                             copy : DatasetRow, query : BOOLEAN]]
  /\ gone \subseteq ended /\ due \subseteq ended /\ ended \subseteq Dataset
  /\ purge.todo \cup purge.dropped \cup purge.active \subseteq Dataset

\* Loads that run at the same time pass the ceiling by one chunk each at most, which
\* is what each saves before it looks again.  A load in one statement, or one whose
\* run was ended under it, counts in full.
LoadsStopAtCeiling ==
  Used < Ceiling + SumFunctionOnSet([d \in Dataset |-> IF loader[d].query \/ d \in ended
                                                     THEN registry[d].size ELSE 1], Active)

\* One pass of the purge leaves neither a table nor claimed capacity of a dataset that
\* was due when the pass began and whose load was over, whatever whole-row saves of
\* the load, the keeper and the pass itself came in between, unless a drop of it failed.
PassCleansUp ==
  purge.at = "sweep" /\ Done => ripe \cap (table \cup Active) = {}

\* The sweep never goes for a table whose row is loading or ready, unless its load
\* saved the row after the sweep had read the registry.
SweepSparesKnown ==
  [][\A d \in Dataset : purge.at = "sweep" /\ d \in purge.todo \ purge'.todo =>
       d \notin Active \/ d \in unread]_datasetVars
=============================================================================
