---------------------------- MODULE StructureRun ----------------------------
(***************************************************************************)
(* The Jobs that write the catalog of one Source: structure refresh        *)
(* (backend/metadata/structure_jobs, catalog/structure_refresh.py,         *)
(* structure_merge.py) and join detection (join_detection_jobs), in the    *)
(* shell they share (source_job_runner), against the people who edit       *)
(* semantics and joins meanwhile (catalog/semantics.py, join_writes.py).   *)
(*                                                                         *)
(* A refresh collects the structure of the Source's database, reads the    *)
(* catalog in one transaction, merges, and commits in another; the Job is  *)
(* stamped in a third.  The Kind execution lock of the Source, not the     *)
(* Job's status, keeps two refreshes apart: the child of a Job that was    *)
(* cancelled or failed as lost may still be at work and hold it.           *)
(*                                                                         *)
(* A column is <<object id, name>>: rows of the catalog are never deleted  *)
(* while the Source exists, and (object, name) is unique.                  *)
(***************************************************************************)
EXTENDS Integers, FiniteSets

CONSTANTS SourceJob, NoHolder,
          JobKind,    \* "structure" or "join_detection" of each Job
          Name,       \* schema-qualified object names
          Snapshot,   \* what the Source's database may contain
          MaxDrift,   \* bound on its changes
          MaxHuman    \* bound on the edits of people

Kind == {"structure", "join_detection"}
Views == {"view", "materialized_view"}
ForeignKey == [col : STRING, ref : Name, refCol : STRING]
SourceObject == [name : Name, type : Views \cup {"table"}, cols : SUBSET STRING,
                 fks : SUBSET ForeignKey]
SameIdentity(o, r) == o.name = r.name /\ (o.type = r.type \/ {o.type, r.type} \subseteq Views)

\* No two tables of a database share a name, and no two views, of whichever kind.
ASSUME StructureRunAssumption ==
  /\ NoHolder \notin SourceJob /\ JobKind \in [SourceJob -> Kind]
  /\ MaxDrift \in Nat /\ MaxHuman \in Nat
  /\ \A s \in Snapshot : /\ s \subseteq SourceObject /\ IsFiniteSet(s)
                         /\ \A o, p \in s : SameIdentity(o, p) => o = p

VARIABLES remote,   \* the contents of the Source's database
          scope,    \* names the Source's access configuration reaches
          catalog,  \* the catalog objects of the Source
          joins,    \* its joins
          status,   \* of each Job
          child,    \* the process of each Job
          locks,   \* holder of the Kind execution lock of each kind
          deleting, \* joins whose deletion has passed its check
          diffs,    \* Jobs whose Structure Diff is stored
          drift, human, last  \* history, see below

jobVars == <<status, child, locks>>
catalogVars == <<catalog, joins, diffs, last>>
structureVars == <<remote, scope, catalogVars, jobVars, deleting, drift, human>>

-----------------------------------------------------------------------------
(* The merge (structure_merge.py, identity.py, fk_join_sync.py, join_pair.py) *)

\* _match_existing_for_incoming: the exact key first, then the other kind of view.
Match(rows, o) ==
  LET exact == {r \in rows : r.name = o.name /\ r.type = o.type}
  IN IF exact # {} THEN exact ELSE {r \in rows : SameIdentity(o, r)}

Names(cols) == {c.name : c \in cols}
Absent(cols) == {[c EXCEPT !.present = FALSE] : c \in cols}

\* merge_columns_snapshot: columns that are gone stay, absent; those that are
\* back are present again.
MergedColumns_Wrong(cols, names) ==
  cols \cup {[name |-> n, present |-> TRUE] : n \in names \ Names(cols)}
MergedColumns(cols, names) ==
  Absent({c \in cols : c.name \notin names}) \cup {[name |-> n, present |-> TRUE] : n \in names}

Updated(r, o) == [r EXCEPT !.type = o.type, !.present = TRUE, !.fks = o.fks,
                          !.cols = MergedColumns(r.cols, o.cols)]
Retired(r) == [r EXCEPT !.present = FALSE, !.cols = Absent(@), !.fks = {}]
Inserted(o, id) == [id |-> id, name |-> o.name, type |-> o.type, present |-> TRUE, sem |-> 0,
                    cols |-> MergedColumns({}, o.cols), fks |-> o.fks]

\* New ids; natural keys are unique, so names tell new objects apart.
NewId(rows, o) == <<o.name, o.type, Cardinality(rows)>>

\* The rows after the refresh.
Merged(rows, snap, reach) ==
  {IF \E o \in snap : r \in Match(rows, o)
   THEN Updated(r, CHOOSE o \in snap : r \in Match(rows, o))
   ELSE IF r.name \in reach /\ ~\E o \in snap : SameIdentity(o, r) THEN Retired(r) ELSE r : r \in rows}
  \cup {Inserted(o, NewId(rows, o)) : o \in {x \in snap : Match(rows, x) = {}}}

\* _fk_edges_for_object: each present foreign key must find its table and columns.
Refs(rows, fk) == {r \in rows : r.present /\ r.type = "table" /\ r.name = fk.ref}
Has(r, n) == [name |-> n, present |-> TRUE] \in r.cols
Resolved(rows) ==
  \A r \in rows : r.present => \A fk \in r.fks :
    /\ Cardinality(Refs(rows, fk)) = 1 /\ Has(r, fk.col)
    /\ \A t \in Refs(rows, fk) : Has(t, fk.refCol)
Edges(rows) ==
  UNION {UNION {{<<<<r.id, fk.col>>, <<t.id, fk.refCol>>>> : t \in Refs(rows, fk)} : fk \in r.fks} :
           r \in {s \in rows : s.present}}

\* decide_pair_write for an automatic writer, on the baseline ...
Pairs(js) == {j.pair : j \in js}
Plannable(js, expected) == expected \ Pairs(js)

\* ... and apply_insert_join, ON CONFLICT DO NOTHING, on what is there at the commit.
WithInserted(js, pairs, by) ==
  js \cup {[pair |-> p, by |-> by, rejected |-> FALSE] : p \in pairs \ Pairs(js)}

-----------------------------------------------------------------------------
Terminal == {"succeeded", "failed", "cancelled"}
NoChild == [at |-> "none", snap |-> {}, reach |-> {}, rows |-> {}, pairs |-> {}]

StructureInit ==
  /\ remote \in Snapshot /\ scope = Name
  /\ catalog = {} /\ joins = {} /\ diffs = {} /\ deleting = {}
  /\ status = [j \in SourceJob |-> "queued"] /\ child = [j \in SourceJob |-> NoChild]
  /\ locks = [k \in Kind |-> NoHolder]
  /\ drift = 0 /\ human = 0 /\ last = [snap |-> {}, reach |-> {}]

Moves(j, where) == child' = [child EXCEPT ![j].at = where]

\* The child ends and its connection with it; the lock is released.
Released(j) == [k \in DOMAIN locks |-> IF locks[k] = j THEN NoHolder ELSE locks[k]]
Ends(j) == child' = [child EXCEPT ![j] = [NoChild EXCEPT !.at = "ended"]] /\ locks' = Released(j)

\* mark_failed and mark_succeeded leave a terminal Job as it is.
Marked(j, s) == status' = [status EXCEPT ![j] = IF @ = "running" THEN s ELSE @]
Fails(j) == Marked(j, "failed") /\ Ends(j)

-----------------------------------------------------------------------------
(* run_source_work_job *)

ClaimJob(j) ==
  /\ status[j] = "queued"
  /\ status' = [status EXCEPT ![j] = "running"]
  /\ Moves(j, "lock")
  /\ UNCHANGED <<remote, scope, catalogVars, locks, deleting, drift, human>>

\* try_acquire_kind_execution_lock
LockFree_Wrong(j) == LET h == locks[JobKind[j]] IN h = NoHolder \/ status[h] \in Terminal
LockFree(j) == locks[JobKind[j]] = NoHolder
AcquireLock(j) ==
  /\ child[j].at = "lock"
  /\ IF LockFree(j) THEN locks' = [locks EXCEPT ![JobKind[j]] = j] /\ Moves(j, "start") /\ UNCHANGED status
                    ELSE Fails(j)
  /\ UNCHANGED <<remote, scope, catalogVars, deleting, drift, human>>

\* The Source is not usable, the access cannot be read, or the collect raises.
FailEarly(j) ==
  /\ child[j].at \in {"start", "collect"}
  /\ Fails(j)
  /\ UNCHANGED <<remote, scope, catalogVars, deleting, drift, human>>

\* stopped_result, before the collect and before the catalog is touched.
CheckStopped(j) ==
  /\ child[j].at \in {"start", "collected"}
  /\ IF status[j] \in Terminal THEN Ends(j)
     ELSE Moves(j, IF child[j].at = "start" THEN "collect" ELSE "baseline") /\ UNCHANGED locks
  /\ UNCHANGED <<remote, scope, catalogVars, status, deleting, drift, human>>

Collect(j) ==
  /\ child[j].at = "collect" /\ JobKind[j] = "structure"
  /\ child' = [child EXCEPT ![j].at = "collected", ![j].reach = scope,
                            ![j].snap = {o \in remote : o.name \in scope}]
  /\ UNCHANGED <<remote, scope, catalogVars, status, locks, deleting, drift, human>>

\* Join detection reads the catalog and resolves what the definitions of its
\* present objects equate to pairs of their columns.
ResolveJoins(j) ==
  LET cols == UNION {{<<r.id, c.name>> : c \in {d \in r.cols : d.present}} : r \in catalog} IN
  /\ child[j].at = "collect" /\ JobKind[j] = "join_detection"
  /\ \E found \in SUBSET {p \in cols \X cols : p[1][1] # p[2][1]} :
       /\ Cardinality(found) <= 1
       /\ child' = [child EXCEPT ![j].at = "collected", ![j].pairs = found]
  /\ UNCHANGED <<remote, scope, catalogVars, status, locks, deleting, drift, human>>

\* read_baseline and build_structure_refresh_plan, or an abort of the write.
PlanRefresh(j) ==
  LET rows == Merged(catalog, child[j].snap, child[j].reach) IN
  /\ child[j].at = "baseline" /\ JobKind[j] = "structure"
  /\ IF Resolved(rows)
     THEN /\ child' = [child EXCEPT ![j].at = "commit", ![j].rows = rows,
                                    ![j].pairs = Plannable(joins, Edges(rows))]
          /\ UNCHANGED <<status, locks>>
     ELSE Fails(j)
  /\ UNCHANGED <<remote, scope, catalogVars, deleting, drift, human>>

\* build_join_detection_plan, on a baseline of joins read only now.
PlanDetection(j) ==
  /\ child[j].at = "baseline" /\ JobKind[j] = "join_detection"
  /\ child' = [child EXCEPT ![j].at = "commit", ![j].pairs = Plannable(joins, @)]
  /\ UNCHANGED <<remote, scope, catalogVars, status, locks, deleting, drift, human>>

\* _sql_persist_object writes the structural fields of a row that exists and leaves
\* its semantics.
Persisted_Wrong(r) == r
Persisted(r) ==
  IF \E c \in catalog : c.id = r.id
  THEN [r EXCEPT !.sem = (CHOOSE c \in catalog : c.id = r.id).sem] ELSE r

\* catalog_write: plan and Structure Diff in one commit.  History: last is the
\* snapshot the catalog was refreshed from.
CommitPlan(j) ==
  /\ child[j].at = "commit"
  /\ joins' = WithInserted(joins, child[j].pairs, "automatic")
  /\ IF JobKind[j] = "structure"
     THEN /\ catalog' = {Persisted(r) : r \in child[j].rows}
          /\ diffs' = diffs \cup {j}
          /\ last' = [snap |-> child[j].snap, reach |-> child[j].reach]
     ELSE UNCHANGED <<catalog, diffs, last>>
  /\ Moves(j, "stamp")
  /\ UNCHANGED <<remote, scope, status, locks, deleting, drift, human>>

\* The baseline, the plan or the commit raises.
FailCommit(j) ==
  /\ child[j].at \in {"baseline", "commit"}
  /\ Fails(j)
  /\ UNCHANGED <<remote, scope, catalogVars, deleting, drift, human>>

StampJob(j) ==
  /\ child[j].at = "stamp"
  /\ Marked(j, "succeeded") /\ Ends(j)
  /\ UNCHANGED <<remote, scope, catalogVars, deleting, drift, human>>

\* The child is killed: by its supervisor after a stop, or with its worker.
KillChild(j) ==
  /\ child[j].at \notin {"none", "ended"}
  /\ Ends(j)
  /\ UNCHANGED <<remote, scope, catalogVars, status, deleting, drift, human>>

\* A user cancels the Job, or it is failed as lost or overdue; its child may live on.
StopJob(j) ==
  /\ status[j] \notin Terminal
  /\ status' \in {[status EXCEPT ![j] = "cancelled"]}
                 \cup IF status[j] = "running" THEN {[status EXCEPT ![j] = "failed"]} ELSE {}
  /\ UNCHANGED <<remote, scope, catalogVars, child, locks, deleting, drift, human>>

-----------------------------------------------------------------------------
(* The world and its people *)

\* The Source's database changes, or the access configuration reaches other names.
Drift ==
  /\ drift < MaxDrift /\ drift' = drift + 1
  /\ \/ remote' \in Snapshot \ {remote} /\ UNCHANGED scope
     \/ \E n \in Name : scope' = (IF scope = Name THEN Name \ {n} ELSE Name) /\ UNCHANGED remote
  /\ UNCHANGED <<catalogVars, jobVars, deleting, human>>

\* patch_object_semantics.  History: human counts the edits of people.
PatchSemantics(r) ==
  /\ human < MaxHuman /\ human' = human + 1
  /\ catalog' = (catalog \ {r}) \cup {[r EXCEPT !.sem = @ + 1]}
  /\ UNCHANGED <<remote, scope, joins, diffs, last, jobVars, deleting, drift>>

\* create_join: write_insert_join does nothing where a row turned up.
CreateJoin(p) ==
  /\ human < MaxHuman /\ human' = human + 1 /\ p \notin Pairs(joins)
  /\ joins' = WithInserted(joins, {p}, "human")
  /\ UNCHANGED <<remote, scope, catalog, diffs, last, jobVars, deleting, drift>>

\* reject_join and restore_join.
ToggleRejection(j) ==
  /\ human < MaxHuman /\ human' = human + 1
  /\ joins' = (joins \ {j}) \cup {[j EXCEPT !.rejected = ~@]}
  /\ UNCHANGED <<remote, scope, catalog, diffs, last, jobVars, deleting, drift>>

\* delete_join checks the record it read, and deletes the row in another transaction.
CheckDeletion(j) ==
  /\ j.by = "human" /\ ~j.rejected /\ j.pair \notin deleting
  /\ deleting' = deleting \cup {j.pair}
  /\ UNCHANGED <<remote, scope, catalogVars, jobVars, drift, human>>
DeleteJoin(p) ==
  /\ deleting' = deleting \ {p} /\ human' = human + 1
  /\ joins' = {j \in joins : j.pair # p}
  /\ UNCHANGED <<remote, scope, catalog, diffs, last, jobVars, drift>>

ColumnPairs ==
  LET With(n) == {r \in catalog : n \in Names(r.cols)} IN
  UNION {{<<<<r.id, "x">>, <<t.id, "id">>>> : t \in With("id") \ {r}} : r \in With("x")}

-----------------------------------------------------------------------------
StructureNext ==
  \/ Drift
  \/ \E r \in catalog : PatchSemantics(r)
  \/ \E p \in ColumnPairs : CreateJoin(p)
  \/ \E j \in joins : ToggleRejection(j) \/ CheckDeletion(j)
  \/ \E p \in deleting : DeleteJoin(p)
  \/ \E j \in SourceJob :
       \/ ClaimJob(j) \/ AcquireLock(j) \/ FailEarly(j) \/ CheckStopped(j) \/ Collect(j)
       \/ ResolveJoins(j) \/ PlanRefresh(j) \/ PlanDetection(j) \/ CommitPlan(j)
       \/ FailCommit(j) \/ StampJob(j) \/ KillChild(j) \/ StopJob(j)

StructureSpec == StructureInit /\ [][StructureNext]_structureVars

-----------------------------------------------------------------------------
(* Properties *)

\* Types; ids and natural keys are unique; a present row is resolved.
StructureTypeOK ==
  /\ remote \in Snapshot /\ scope \subseteq Name
  /\ \A r, s \in catalog : r.id = s.id \/ (r.name = s.name /\ r.type = s.type) => r = s
  /\ \A i, j \in joins : i.pair = j.pair => i = j
  /\ status \in [SourceJob -> Terminal \cup {"queued", "running"}]
  /\ \A j \in SourceJob : child[j].at \in {"none", "lock", "start", "collect", "collected",
                                           "baseline", "commit", "stamp", "ended"}
  /\ \A k \in DOMAIN locks : locks[k] = NoHolder \/ JobKind[locks[k]] = k
  /\ diffs \subseteq {j \in SourceJob : JobKind[j] = "structure"}

\* What a row shows of the Source's database.
Shown(r) == [name |-> r.name, type |-> r.type, fks |-> r.fks,
             cols |-> {c.name : c \in {d \in r.cols : d.present}}]

\* However refreshes queue up, are cancelled, lost and outlived by their children,
\* the catalog shows, within the scope of the last committed refresh, exactly what
\* that refresh collected, and no later commit is from an earlier baseline.
CatalogIsLastCollect ==
  /\ {Shown(r) : r \in {s \in catalog : s.present /\ s.name \in last.reach}} = last.snap
  /\ \A j \in SourceJob : child[j].at = "commit" /\ JobKind[j] = "structure" =>
       {[r EXCEPT !.sem = 0] : r \in Merged(catalog, child[j].snap, child[j].reach)}
         = {[r EXCEPT !.sem = 0] : r \in child[j].rows}

\* Jobs that write the catalog from a baseline they read earlier undo nothing people
\* did meanwhile: semantics stay, joins stay, a rejected pair is not asserted again,
\* and an object keeps its id through absence and return.
HumanWordStands ==
  [][human' = human =>
       /\ \A r \in catalog : \E s \in catalog' : s.id = r.id /\ s.sem = r.sem
       /\ joins \subseteq joins']_structureVars
=============================================================================
