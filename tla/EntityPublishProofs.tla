------------------------ MODULE EntityPublishProofs ------------------------
(* What publishing and dropping tables keeps, whatever dies or crosses; and, at *)
(* the end, what definitions keep of the keys and codes that they bind. *)
EXTENDS EntityPublish, Definitions, FiniteSetTheorems, SequenceTheorems, WellFoundedInduction, TLAPS

Row == [status : {"absent", "unpublished", "publishing", "published"},
        shape : 0..MaxShape, present : BOOLEAN, log : {"none", "pending", "applied"}]
CallRow == [at : Places, kind : {"none", "publish", "drop", "edit"}, of : 0..MaxVersion,
            copy : Row, expected : 0..MaxVersion]

\* The places of a worker that acts under the lock of the tables.
Locked == {"locked", "plan", "created", "revert", "policy", "drop", "dropped"}

RowsTypeOK ==
  /\ version \in [Versions -> Row] /\ table \in [Versions -> 0..MaxShape]
  /\ rows \subseteq Versions /\ stem \in 0..MaxVersion /\ policy \in 0..MaxVersion
  /\ call \in [Call -> CallRow] /\ inFlight \subseteq Call

\* A version that was opened has a definition, and so has a copy of one.
Defined(c) ==
  call[c].at \notin {"idle", "over"} =>
    /\ call[c].of \in Versions /\ version[call[c].of].status # "absent"
    /\ call[c].copy.status # "absent" /\ call[c].copy.shape # 0
    /\ call[c].at = "save" /\ call[c].kind = "edit" => call[c].copy.shape < MaxShape
VersionsOK ==
  /\ version[1].status # "absent"
  /\ \A v \in Versions : version[v].status # "absent" => version[v].shape # 0

\* The view that an attempt may have to put back still has its table.
Undoable(c) ==
  /\ call[c].at \in Locked => tableLock = c
  /\ call[c].at \in {"plan", "created"} => call[c].expected # call[c].of
  /\ call[c].at = "created" =>
       table[call[c].of] # 0 /\ (call[c].expected # 0 => table[call[c].expected] # 0)
  /\ call[c].at = "revert" => stem # call[c].of

NothingDangles ==
  /\ \A v \in rows : table[v] # 0
  /\ stem # 0 => table[stem] # 0

RowsInv ==
  /\ RowsTypeOK /\ VersionsOK /\ NothingDangles
  /\ \A c \in Call : Defined(c) /\ Undoable(c)

RowsKept == (\A v \in rows : table'[v] = table[v]) /\ (stem' # 0 => table'[stem'] # 0)
-----------------------------------------------------------------------------
(* Helpers *)

\* A set of versions has a highest one.
LEMMA HighestFacts ==
  ASSUME NEW vs \in SUBSET Versions
  PROVE  /\ Highest(vs) \in 0..MaxVersion
         /\ vs = {} => Highest(vs) = 0
         /\ vs # {} => Highest(vs) \in vs
         /\ \A v \in vs : v <= Highest(vs)
<1>1. CASE vs = {}
  BY <1>1, EntityPublishAssumption DEF Highest
<1>2. CASE vs # {}
  <2> DEFINE I == {v..MaxVersion : v \in vs}
  <2>1. IsWellFoundedOn(StrictSubsetOrdering(Nat), FiniteSubsetsOf(Nat))
    BY FS_StrictSubsetOrderingWellFounded
  <2>2. I \subseteq FiniteSubsetsOf(Nat) /\ I # {}
    <3>1. \A v \in Versions : IsFiniteSet(v..MaxVersion) /\ v..MaxVersion \subseteq Nat
      BY FS_Interval, EntityPublishAssumption DEF Versions
    <3>2. QED
      BY <1>2, <3>1 DEF FiniteSubsetsOf
  <2>3. PICK i \in I : \A j \in I : ~(<<j, i>> \in StrictSubsetOrdering(Nat))
    BY <2>1, <2>2, WFMin
  <2>4. PICK v \in vs : i = v..MaxVersion
    BY <2>3
  <2>5. ASSUME NEW w \in vs PROVE w <= v
    <3>1. ~(<<w..MaxVersion, v..MaxVersion>> \in StrictSubsetOrdering(Nat))
      BY <2>3, <2>4
    <3>2. QED
      BY <2>4, <3>1, EntityPublishAssumption DEF StrictSubsetOrdering, Versions
  <2>6. Highest(vs) \in vs /\ \A w \in vs : w <= Highest(vs)
    BY <1>2, <2>5 DEF Highest
  <2>7. \A w \in Versions : w \in 0..MaxVersion
    BY EntityPublishAssumption DEF Versions
  <2>8. QED
    BY <1>2, <2>6, <2>7
<1>3. QED
  BY <1>1, <1>2

\* The head is published, and so is no later version.
LEMMA ServingFacts ==
  /\ Serving \in 0..MaxVersion
  /\ Serving # 0 => version[Serving].status = "published"
  /\ \A v \in Versions : version[v].status = "published" => v <= Serving
BY HighestFacts DEF Serving

\* Where a call may go, and what that changes of it.
LEMMA Moves ==
  ASSUME RowsTypeOK, NEW c \in Call, NEW where \in Places, Goes(c, where)
  PROVE  /\ call' \in [Call -> CallRow] /\ call'[c] = [call[c] EXCEPT !.at = where]
         /\ \A d \in Call : d # c => call'[d] = call[d]
BY DEF RowsTypeOK, CallRow, Goes

LEMMA Ends ==
  ASSUME RowsTypeOK, NEW c \in Call, Over(c)
  PROVE  /\ call' \in [Call -> CallRow] /\ call'[c].at = "over"
         /\ \A d \in Call : d # c => call'[d] = call[d]
         /\ inFlight' \subseteq Call
         /\ \A d \in Call : d # c => (tableLock = d => tableLock' = d)
<1>1. Unused \in CallRow
  BY EntityPublishAssumption DEF Unused, Unopened, CallRow, Row, Places
<1>2. QED
  BY <1>1 DEF RowsTypeOK, CallRow, Over, Places

\* What a step of one call leaves of the others.
LEMMA OneCallMoves ==
  ASSUME RowsInv, NEW c \in Call,
         call' \in [Call -> CallRow], \A d \in Call : d # c => call'[d] = call[d],
         version' \in [Versions -> Row], VersionsOK',
         \A v \in Versions : version[v].status # "absent" => version'[v].status # "absent",
         table' \in [Versions -> 0..MaxShape], rows' = rows, stem' \in 0..MaxVersion,
         policy' \in 0..MaxVersion, inFlight' \subseteq Call,
         tableLock = c \/ UNCHANGED <<table, stem>>,
         \A d \in Call : d # c /\ tableLock = d => tableLock' = d,
         NothingDangles', Defined(c)', Undoable(c)'
  PROVE  RowsInv'
<1>1. RowsTypeOK'
  BY DEF RowsInv, RowsTypeOK
<1>2. ASSUME NEW d \in Call, d # c PROVE Defined(d)' /\ Undoable(d)'
  <2>1. Defined(d) /\ Undoable(d) /\ call'[d] = call[d]
    BY <1>2 DEF RowsInv
  <2>2. Defined(d)'
    BY <2>1 DEF Defined
  <2>3. call[d].at \in Locked => tableLock = d /\ tableLock' = d /\ UNCHANGED <<table, stem>>
    BY <1>2, <2>1 DEF Undoable
  <2>4. Undoable(d)'
    BY <2>1, <2>3 DEF Undoable, Locked
  <2>5. QED
    BY <2>2, <2>4
<1>3. QED
  BY <1>1, <1>2 DEF RowsInv

\* A call that moves under no lock, or keeps the one it has, and saves nothing.
LEMMA QuietMove ==
  ASSUME RowsInv, NEW c \in Call, UNCHANGED <<version, table, rows, stem>>,
         policy' \in 0..MaxVersion, inFlight' \subseteq Call,
         call' \in [Call -> CallRow], \A d \in Call : d # c => call'[d] = call[d],
         \A d \in Call : d # c /\ tableLock = d => tableLock' = d,
         Defined(c)', Undoable(c)'
  PROVE  RowsInv' /\ RowsKept
<1>1. version' \in [Versions -> Row] /\ table' \in [Versions -> 0..MaxShape] /\ stem' \in 0..MaxVersion
  BY DEF RowsInv, RowsTypeOK
<1>2. NothingDangles' /\ VersionsOK' /\ RowsKept
  BY DEF RowsInv, NothingDangles, VersionsOK, RowsKept
<1>3. QED
  BY <1>1, <1>2, OneCallMoves

\* A call that is over asks for nothing.
LEMMA EndsQuietly ==
  ASSUME RowsInv, NEW c \in Call, Over(c), UNCHANGED <<version, table, rows, stem, policy>>
  PROVE  RowsInv' /\ RowsKept
<1>1. RowsTypeOK /\ policy \in 0..MaxVersion
  BY DEF RowsInv, RowsTypeOK
<1>2. Defined(c)' /\ Undoable(c)'
  BY <1>1, Ends DEF Defined, Undoable, Locked
<1>3. QED
  BY <1>1, <1>2, Ends, QuietMove

-----------------------------------------------------------------------------
(* The steps *)

LEMMA RequestStep ==
  ASSUME RowsInv, NEW c \in Call, NEW v \in Opened, Request(c, v)
  PROVE  RowsInv' /\ RowsKept
<1>1. RowsTypeOK /\ VersionsOK /\ policy \in 0..MaxVersion /\ inFlight \subseteq Call
  BY DEF RowsInv, RowsTypeOK
<1>2. PICK kind \in {"publish", "drop", "edit"} :
        /\ kind = "edit" => MayEdit(v)
        /\ call' = [call EXCEPT ![c] = [at |-> IF kind = "edit" THEN "save" ELSE "prepared",
                                        kind |-> kind, of |-> v, copy |-> version[v], expected |-> 0]]
  BY DEF Request
<1>3. v \in Versions /\ v \in 0..MaxVersion /\ version[v] \in Row /\ version[v].status # "absent"
  BY <1>1, EntityPublishAssumption DEF Opened, Versions, RowsTypeOK
<1>4. call' \in [Call -> CallRow] /\ \A d \in Call : d # c => call'[d] = call[d]
  BY <1>1, <1>2, <1>3, EntityPublishAssumption DEF RowsTypeOK, CallRow, Places
<1>5. /\ call'[c].at \in {"save", "prepared"} /\ call'[c].of = v /\ call'[c].copy = version[v]
      /\ call'[c].at = "save" => MayEdit(v)
  BY <1>1, <1>2 DEF RowsTypeOK
<1>6. UNCHANGED <<version, table, rows, stem, policy, inFlight, tableLock>>
  BY DEF Request, Continues, databaseVars
<1>7. Defined(c)' /\ Undoable(c)'
  BY <1>1, <1>3, <1>5, <1>6 DEF Defined, Undoable, Locked, VersionsOK, MayEdit
<1>8. QED
  BY <1>1, <1>4, <1>6, <1>7, QuietMove

\* Moves that change nothing but where the call is.
LEMMA PlaceStep ==
  ASSUME RowsInv, NEW c \in Call, NEW where \in Places, Goes(c, where),
         UNCHANGED <<version, table, rows, stem>>,
         policy' \in 0..MaxVersion, inFlight' \subseteq Call,
         \A d \in Call : d # c /\ tableLock = d => tableLock' = d,
         ~At(c, "idle") /\ ~At(c, "over"),
         where \in Locked => tableLock' = c,
         where \notin {"plan", "created", "revert"},
         where = "save" => call[c].kind = "publish"
  PROVE  RowsInv' /\ RowsKept
<1>1. RowsTypeOK /\ Defined(c)
  BY DEF RowsInv
<1>2. /\ call[c] \in CallRow /\ call'[c] = [call[c] EXCEPT !.at = where]
      /\ call' \in [Call -> CallRow] /\ \A d \in Call : d # c => call'[d] = call[d]
  BY <1>1, Moves DEF RowsTypeOK
<1>3. /\ call'[c].at = where /\ call'[c].of = call[c].of /\ call'[c].kind = call[c].kind
      /\ call'[c].copy = call[c].copy
  BY <1>2 DEF CallRow
<1>4. Defined(c)' /\ Undoable(c)'
  BY <1>1, <1>3 DEF Defined, Undoable, Locked, At
<1>5. QED
  BY <1>2, <1>4, QuietMove

\* A call reads its version again and goes on from there.
LEMMA ReadStep ==
  ASSUME RowsInv, NEW c \in Call, NEW where \in {"policy", "plan", "drop", "unpublish", "apply"},
         NEW x \in 0..MaxVersion, ~At(c, "idle") /\ ~At(c, "over"),
         \/ x = call[c].expected /\ Copies(c, where)
         \/ call' = [call EXCEPT ![c].at = where, ![c].copy = version[call[c].of], ![c].expected = x],
         UNCHANGED <<version, table, rows, stem, policy, inFlight, tableLock>>,
         where \in Locked => tableLock = c,
         where = "plan" => x # call[c].of
  PROVE  RowsInv' /\ RowsKept
<1>1. RowsTypeOK /\ VersionsOK /\ Defined(c) /\ policy \in 0..MaxVersion /\ inFlight \subseteq Call
  BY DEF RowsInv, RowsTypeOK
<1>2. call[c] \in CallRow /\ call[c].of \in Versions /\ version[call[c].of] \in Row
      /\ version[call[c].of].status # "absent" /\ version[call[c].of].shape # 0 /\ where \in Places
  BY <1>1 DEF RowsTypeOK, Defined, VersionsOK, At, Places
<1>3. /\ call' \in [Call -> CallRow] /\ \A d \in Call : d # c => call'[d] = call[d]
      /\ call'[c] = [call[c] EXCEPT !.at = where, !.copy = version[call[c].of], !.expected = x]
  <2>1. call \in [Call -> CallRow]
    BY <1>1 DEF RowsTypeOK
  <2>2. CASE x = call[c].expected /\ Copies(c, where)
    BY <1>2, <2>1, <2>2 DEF CallRow, Copies
  <2>3. CASE call' = [call EXCEPT ![c].at = where, ![c].copy = version[call[c].of], ![c].expected = x]
    BY <1>2, <2>1, <2>3 DEF CallRow
  <2>4. QED
    BY <2>2, <2>3
<1>4. /\ call'[c].at = where /\ call'[c].of = call[c].of /\ call'[c].expected = x
      /\ call'[c].copy = version[call[c].of]
  BY <1>2, <1>3 DEF CallRow
<1>5. Defined(c)' /\ Undoable(c)'
  BY <1>1, <1>2, <1>4 DEF Defined, Undoable, Locked
<1>6. QED
  BY <1>1, <1>3, <1>5, QuietMove

\* A save of a row with a definition, after which the call is over or goes on.
LEMMA SaveStep ==
  ASSUME RowsInv, NEW c \in Call, NEW row \in Row, row.status # "absent", row.shape # 0,
         version' = [version EXCEPT ![call[c].of] = row], call[c].of \in Versions,
         UNCHANGED <<table, rows, stem, policy>>,
         Over(c) \/ \E where \in {"sent", "policy"} :
                      /\ Goes(c, where) /\ Continues /\ ~At(c, "idle") /\ ~At(c, "over")
                      /\ where \in Locked => tableLock = c
  PROVE  RowsInv' /\ RowsKept
<1>1. RowsTypeOK /\ VersionsOK /\ Defined(c) /\ NothingDangles
      /\ policy \in 0..MaxVersion /\ stem \in 0..MaxVersion /\ inFlight \subseteq Call
  BY DEF RowsInv, RowsTypeOK
<1>2. /\ version' \in [Versions -> Row] /\ VersionsOK'
      /\ \A v \in Versions : version[v].status # "absent" => version'[v].status # "absent"
  BY <1>1 DEF RowsTypeOK, VersionsOK, Versions
<1>3. table' \in [Versions -> 0..MaxShape] /\ NothingDangles' /\ RowsKept
  BY <1>1 DEF RowsTypeOK, NothingDangles, RowsKept
<1>4. CASE Over(c)
  <2>1. Defined(c)' /\ Undoable(c)'
    BY <1>1, <1>4, Ends DEF Defined, Undoable, Locked
  <2>2. QED
    BY <1>1, <1>2, <1>3, <1>4, <2>1, Ends, OneCallMoves
<1>5. ASSUME NEW where \in {"sent", "policy"}, Goes(c, where), Continues, ~At(c, "idle"),
             ~At(c, "over"), where \in Locked => tableLock = c
      PROVE  RowsInv' /\ RowsKept
  <2>1. /\ call[c] \in CallRow /\ call'[c] = [call[c] EXCEPT !.at = where]
        /\ call' \in [Call -> CallRow] /\ \A d \in Call : d # c => call'[d] = call[d]
        /\ UNCHANGED <<inFlight, tableLock>>
    <3>1. where \in Places /\ call[c] \in CallRow
      BY <1>1 DEF RowsTypeOK, Places
    <3>2. QED
      BY <1>1, <1>5, <3>1, Moves DEF Continues
  <2>2. /\ call'[c].at = where /\ call'[c].of = call[c].of /\ call'[c].copy = call[c].copy
    BY <2>1 DEF CallRow
  <2>3. Defined(c)' /\ Undoable(c)'
    BY <1>1, <1>2, <1>5, <2>1, <2>2 DEF Defined, Undoable, Locked, At
  <2>4. QED
    BY <1>1, <1>2, <1>3, <2>1, <2>3, OneCallMoves
<1>6. QED
  BY <1>4, <1>5

\* Only the worker under the lock changes tables and view, at three places.
LEMMA TableStep ==
  ASSUME RowsInv, NEW c \in Call, NEW where \in {"created", "revert", "rollback", "dropped"},
         Goes(c, where), At(c, "plan") \/ At(c, "created") \/ At(c, "revert") \/ At(c, "drop"),
         UNCHANGED <<version, rows, policy, inFlight, tableLock>>,
         table' \in [Versions -> 0..MaxShape], stem' \in 0..MaxVersion,
         RowsKept, Undoable(c)'
  PROVE  RowsInv'
<1>1. RowsTypeOK /\ VersionsOK /\ Defined(c) /\ Undoable(c) /\ NothingDangles
      /\ version \in [Versions -> Row] /\ policy \in 0..MaxVersion /\ inFlight \subseteq Call
  BY DEF RowsInv, RowsTypeOK
<1>2. call[c] \in CallRow /\ where \in Places /\ tableLock = c
  BY <1>1 DEF RowsTypeOK, Places, Undoable, Locked, At
<1>3. /\ call' \in [Call -> CallRow] /\ \A d \in Call : d # c => call'[d] = call[d]
      /\ call'[c] = [call[c] EXCEPT !.at = where]
  BY <1>1, <1>2, Moves
<1>4. call'[c].at = where /\ call'[c].of = call[c].of /\ call'[c].copy = call[c].copy
  BY <1>2, <1>3 DEF CallRow
<1>5. Defined(c)' /\ VersionsOK' /\ NothingDangles'
  BY <1>1, <1>4 DEF Defined, VersionsOK, NothingDangles, RowsKept, At
<1>6. QED
  BY <1>1, <1>2, <1>3, <1>5, OneCallMoves

LEMMA CreateStep ==
  ASSUME RowsInv, NEW c \in Call, CreateTable(c)
  PROVE  RowsInv' /\ RowsKept
<1>1. /\ RowsTypeOK /\ Defined(c) /\ Undoable(c) /\ NothingDangles /\ call[c] \in CallRow
      /\ call[c].of \in Versions /\ call[c].copy.shape \in 1..MaxShape
  BY EntityPublishAssumption DEF RowsInv, RowsTypeOK, Defined, CreateTable, At, CallRow, Row
<1>2. /\ table' = [table EXCEPT ![call[c].of] = call[c].copy.shape] /\ stem' = call[c].of
      /\ table[call[c].of] = 0 /\ stem = call[c].expected /\ call[c].at = "plan"
      /\ UNCHANGED <<version, rows, policy, inFlight, tableLock>> /\ Goes(c, "created")
  BY DEF CreateTable, Continues, At
<1>3. /\ table' \in [Versions -> 0..MaxShape] /\ stem' \in 0..MaxVersion
      /\ table'[call[c].of] # 0
      /\ \A v \in Versions : table[v] # 0 => table'[v] = table[v]
  BY <1>1, <1>2, EntityPublishAssumption DEF RowsTypeOK, Versions
<1>4. RowsKept
  BY <1>1, <1>2, <1>3 DEF RowsKept, NothingDangles, RowsTypeOK
<1>5. /\ call'[c].at = "created" /\ call'[c].of = call[c].of /\ call'[c].expected = stem
      /\ stem # 0 => stem \in Versions
  <2>1. call'[c] = [call[c] EXCEPT !.at = "created"]
    BY <1>1, <1>2, Moves DEF Places
  <2>2. QED
    BY <1>1, <1>2, <2>1, EntityPublishAssumption DEF CallRow, RowsTypeOK, Versions
<1>6. Undoable(c)'
  BY <1>1, <1>2, <1>3, <1>5 DEF Undoable, Locked, NothingDangles
<1>7. QED
  BY <1>2, <1>3, <1>4, <1>6, TableStep DEF At

LEMMA RestoreStep ==
  ASSUME RowsInv, NEW c \in Call, RestoreView(c)
  PROVE  RowsInv' /\ RowsKept
<1>1. /\ RowsTypeOK /\ Defined(c) /\ Undoable(c) /\ NothingDangles /\ call[c] \in CallRow
      /\ call[c].at = "created" /\ UNCHANGED <<version, table, rows, policy, inFlight, tableLock>>
      /\ call[c].of \in Versions
  BY DEF RowsInv, RowsTypeOK, Defined, RestoreView, At, Continues
<1>2. CASE stem' = Restored(c) /\ Goes(c, "revert")
  <2>1. /\ stem' = call[c].expected /\ stem' \in 0..MaxVersion /\ stem' # call[c].of
        /\ stem' # 0 => table[stem'] # 0
    BY <1>1, <1>2 DEF Restored, Undoable, CallRow
  <2>2. RowsKept /\ table' \in [Versions -> 0..MaxShape]
    BY <1>1, <2>1 DEF RowsKept, RowsTypeOK
  <2>3. call'[c].at = "revert" /\ call'[c].of = call[c].of
    <3>1. call'[c] = [call[c] EXCEPT !.at = "revert"]
      BY <1>1, <1>2, Moves DEF Places
    <3>2. QED
      BY <1>1, <3>1 DEF CallRow
  <2>4. Undoable(c)'
    BY <1>1, <2>1, <2>3 DEF Undoable, Locked
  <2>5. QED
    BY <1>1, <1>2, <2>1, <2>2, <2>4, TableStep DEF At
<1>3. CASE Goes(c, "rollback") /\ UNCHANGED stem
  BY <1>1, <1>3, PlaceStep DEF RowsTypeOK, At, Places, Locked
<1>4. QED
  BY <1>2, <1>3 DEF RestoreView

LEMMA RevertStep ==
  ASSUME RowsInv, NEW c \in Call, RevertTable(c)
  PROVE  RowsInv' /\ RowsKept
<1>1. /\ RowsTypeOK /\ Defined(c) /\ Undoable(c) /\ NothingDangles /\ call[c] \in CallRow
      /\ call[c].at = "revert" /\ UNCHANGED <<version, rows, stem, policy, inFlight, tableLock>>
      /\ Goes(c, "rollback") /\ stem # call[c].of /\ stem \in 0..MaxVersion
  BY DEF RowsInv, RowsTypeOK, RevertTable, At, Continues, Undoable
<1>2. /\ table' \in [Versions -> 0..MaxShape]
      /\ \A v \in Versions : v # call[c].of \/ v \in rows => table'[v] = table[v]
  BY <1>1, EntityPublishAssumption DEF RevertTable, Droppable, RowsTypeOK
<1>3. RowsKept
  BY <1>1, <1>2, EntityPublishAssumption DEF RowsKept, NothingDangles, RowsTypeOK, Versions
<1>4. Undoable(c)'
  BY <1>1, Moves DEF Undoable, Locked, Places, CallRow
<1>5. QED
  BY <1>1, <1>2, <1>3, <1>4, TableStep DEF At

\* The table of a version goes only without rows, and with its view.
LEMMA DropStep ==
  ASSUME RowsInv, NEW c \in Call, DropTable(c)
  PROVE  RowsInv' /\ RowsKept
<1>1. /\ RowsTypeOK /\ Defined(c) /\ Undoable(c) /\ NothingDangles /\ call[c] \in CallRow
      /\ call[c].at = "drop" /\ UNCHANGED <<version, rows, policy>>
      /\ call[c].of \in Versions /\ call[c].of # 0 /\ stem \in 0..MaxVersion
  BY EntityPublishAssumption DEF RowsInv, RowsTypeOK, DropTable, At, Defined, Versions
<1>2. CASE /\ call[c].of \in Droppable(call[c].of) /\ (stem # call[c].of \/ call[c].expected = call[c].of)
           /\ table' = [table EXCEPT ![call[c].of] = 0]
           /\ stem' = IF call[c].expected # 0 THEN 0 ELSE stem
           /\ Goes(c, "dropped") /\ Continues
  <2>1. /\ table' \in [Versions -> 0..MaxShape] /\ stem' \in 0..MaxVersion
        /\ stem' # 0 => stem' = stem /\ stem # call[c].of
        /\ \A v \in Versions : v # call[c].of => table'[v] = table[v]
        /\ call[c].of \notin rows
    BY <1>1, <1>2, EntityPublishAssumption DEF Droppable, RowsTypeOK
  <2>2. RowsKept
    BY <1>1, <2>1, EntityPublishAssumption DEF RowsKept, NothingDangles, RowsTypeOK, Versions
  <2>3. call'[c].at = "dropped"
    BY <1>1, <1>2, Moves DEF CallRow, Places
  <2>4. Undoable(c)'
    BY <1>1, <1>2, <2>3 DEF Undoable, Locked, Continues
  <2>5. QED
    BY <1>1, <1>2, <2>1, <2>2, <2>4, TableStep DEF At, Continues
<1>3. CASE UNCHANGED <<table, stem>> /\ Over(c)
  BY <1>1, <1>3, EndsQuietly
<1>4. QED
  BY <1>2, <1>3 DEF DropTable

\* Steps of one call that leave tables and view alone.
LEMMA RequestPathStep ==
  ASSUME RowsInv, NEW c \in Call, FindInFlight(c) \/ MintJob(c) \/ SaveAccepted(c) \/ SaveEdit(c)
  PROVE  RowsInv' /\ RowsKept
<1>1. /\ RowsTypeOK /\ Defined(c) /\ call[c] \in CallRow /\ policy \in 0..MaxVersion
      /\ inFlight \subseteq Call
  BY DEF RowsInv, RowsTypeOK
<1>2. CASE FindInFlight(c)
  <2>1. CASE Over(c)
    BY <1>1, <1>2, <2>1, EndsQuietly DEF FindInFlight, databaseVars
  <2>2. CASE Goes(c, "clear") /\ Continues
    BY <1>1, <1>2, <2>2, PlaceStep DEF FindInFlight, databaseVars, At, Continues, Places, Locked
  <2>3. QED
    BY <1>2, <2>1, <2>2 DEF FindInFlight
<1>3. CASE MintJob(c)
  <2>1. PICK where \in {"save", "sent"} :
          Goes(c, where) /\ (where = "save" => call[c].kind = "publish")
    BY <1>3 DEF MintJob
  <2>2. inFlight' \subseteq Call /\ UNCHANGED <<version, table, rows, stem, policy, tableLock>>
        /\ call[c].at = "clear"
    BY <1>1, <1>3 DEF MintJob, databaseVars, At
  <2>3. QED
    BY <1>1, <2>1, <2>2, PlaceStep DEF At, Places, Locked
<1>4. CASE SaveAccepted(c)
  <2>1. PICK row \in Row : /\ row.status # "absent" /\ row.shape # 0
                           /\ version' = [version EXCEPT ![call[c].of] = row]
    <3>1. call[c].copy \in Row /\ call[c].copy.status # "absent" /\ call[c].copy.shape # 0
      BY <1>1, <1>4 DEF CallRow, Defined, SaveAccepted, At
    <3>2. PICK k \in Row : k = call[c].copy
      BY <3>1
    <3>3. [k EXCEPT !.status = "publishing"] \in Row
          /\ [k EXCEPT !.status = "publishing"].status # "absent"
          /\ [k EXCEPT !.status = "publishing"].shape = k.shape
      BY DEF Row
    <3>4. QED
      BY <1>4, <3>1, <3>2, <3>3 DEF SaveAccepted, Saves
  <2>2. /\ Goes(c, "sent") /\ Continues /\ ~At(c, "idle") /\ ~At(c, "over")
        /\ UNCHANGED <<table, rows, stem, policy>> /\ call[c].of \in Versions
    BY <1>1, <1>4 DEF SaveAccepted, At, databaseVars, Defined
  <2>3. QED
    BY <2>1, <2>2, SaveStep DEF Locked
<1>5. CASE SaveEdit(c)
  <2>1. PICK row \in Row : /\ row.status # "absent" /\ row.shape # 0
                           /\ version' = [version EXCEPT ![call[c].of] = row]
    <3>1. call[c].copy \in Row /\ call[c].copy.status # "absent" /\ call[c].copy.shape < MaxShape
      BY <1>1, <1>5 DEF CallRow, Defined, SaveEdit, At
    <3>2. PICK k \in Row : k = call[c].copy
      BY <3>1
    <3>3. [k EXCEPT !.shape = @ + 1] \in Row /\ [k EXCEPT !.shape = @ + 1].shape # 0
          /\ [k EXCEPT !.shape = @ + 1].status = k.status
      BY <3>1, <3>2, EntityPublishAssumption DEF Row
    <3>4. QED
      BY <1>5, <3>1, <3>2, <3>3 DEF SaveEdit, Saves
  <2>2. Over(c) /\ UNCHANGED <<table, rows, stem, policy>> /\ call[c].of \in Versions
    BY <1>1, <1>5 DEF SaveEdit, At, databaseVars, Defined
  <2>3. QED
    BY <2>1, <2>2, SaveStep
<1>6. QED
  BY <1>2, <1>3, <1>4, <1>5

LEMMA SavesOfAJobStep ==
  ASSUME RowsInv, NEW c \in Call,
         StorePublished(c) \/ SaveRollback(c) \/ SaveApplied(c) \/ StoreDropped(c)
  PROVE  RowsInv' /\ RowsKept
<1>1. RowsTypeOK /\ Defined(c) /\ Undoable(c) /\ call[c] \in CallRow
  BY DEF RowsInv, RowsTypeOK
<1>2. CASE StorePublished(c)
  <2>1. PICK row \in Row : /\ row.status # "absent" /\ row.shape # 0
                           /\ version' = [version EXCEPT ![call[c].of] = row]
    <3>1. call[c].copy \in Row /\ call[c].copy.status # "absent" /\ call[c].copy.shape # 0
      BY <1>1, <1>2 DEF CallRow, Defined, StorePublished, At
    <3>2. PICK k \in Row : k = call[c].copy
      BY <3>1
    <3>3. PICK row : row = [k EXCEPT !.status = "published", !.present = TRUE, !.log = "pending"]
      OBVIOUS
    <3>4. row \in Row /\ row.status # "absent" /\ row.shape = k.shape
      BY <3>1, <3>2, <3>3 DEF Row
    <3>5. QED
      BY <1>2, <3>1, <3>2, <3>3, <3>4 DEF StorePublished, Saves
  <2>2. Goes(c, "policy") /\ Continues /\ call[c].at = "created" /\ tableLock = c
        /\ UNCHANGED <<table, rows, stem, policy>> /\ call[c].of \in Versions
    BY <1>1, <1>2 DEF StorePublished, At, databaseVars, Defined, Undoable, Locked
  <2>3. QED
    BY <1>1, <2>1, <2>2, SaveStep DEF At, Locked
<1>3. CASE SaveRollback(c)
  <2>1. PICK row \in Row : /\ row.status # "absent" /\ row.shape # 0
                           /\ version' = [version EXCEPT ![call[c].of] = row]
    <3>1. call[c].copy \in Row /\ call[c].copy.status # "absent" /\ call[c].copy.shape # 0
      BY <1>1, <1>3 DEF CallRow, Defined, SaveRollback, At
    <3>2. PICK k \in Row : k = call[c].copy
      BY <3>1
    <3>3. PICK row : row = [k EXCEPT !.status = "unpublished", !.present = FALSE]
      OBVIOUS
    <3>4. row \in Row /\ row.status # "absent" /\ row.shape = k.shape
      BY <3>1, <3>2, <3>3 DEF Row
    <3>5. QED
      BY <1>3, <3>1, <3>2, <3>3, <3>4 DEF SaveRollback, Saves
  <2>2. Over(c) /\ UNCHANGED <<table, rows, stem, policy>> /\ call[c].of \in Versions
    BY <1>1, <1>3 DEF SaveRollback, At, databaseVars, Defined
  <2>3. QED
    BY <1>1, <2>1, <2>2, SaveStep DEF At, Locked
<1>4. CASE SaveApplied(c)
  <2>1. PICK row \in Row : /\ row.status # "absent" /\ row.shape # 0
                           /\ version' = [version EXCEPT ![call[c].of] = row]
    <3>1. call[c].copy \in Row /\ call[c].copy.status # "absent" /\ call[c].copy.shape # 0
      BY <1>1, <1>4 DEF CallRow, Defined, SaveApplied, At
    <3>2. PICK k \in Row : k = call[c].copy
      BY <3>1
    <3>3. PICK row : row = [k EXCEPT !.log = "applied"]
      OBVIOUS
    <3>4. row \in Row /\ row.status # "absent" /\ row.shape = k.shape
      BY <3>1, <3>2, <3>3 DEF Row
    <3>5. QED
      BY <1>4, <3>1, <3>2, <3>3, <3>4 DEF SaveApplied, Saves
  <2>2. Over(c) /\ UNCHANGED <<table, rows, stem, policy>> /\ call[c].of \in Versions
    BY <1>1, <1>4 DEF SaveApplied, At, databaseVars, Defined
  <2>3. QED
    BY <1>1, <2>1, <2>2, SaveStep DEF At, Locked
<1>5. CASE StoreDropped(c)
  <2>1. PICK row \in Row : /\ row.status # "absent" /\ row.shape # 0
                           /\ version' = [version EXCEPT ![call[c].of] = row]
    <3>1. call[c].copy \in Row /\ call[c].copy.status # "absent" /\ call[c].copy.shape # 0
      BY <1>1, <1>5 DEF CallRow, Defined, StoreDropped, At
    <3>2. PICK k \in Row : k = call[c].copy
      BY <3>1
    <3>3. PICK row : row = [k EXCEPT !.present = FALSE]
      OBVIOUS
    <3>4. row \in Row /\ row.status # "absent" /\ row.shape = k.shape
      BY <3>1, <3>2, <3>3 DEF Row
    <3>5. QED
      BY <1>5, <3>1, <3>2, <3>3, <3>4 DEF StoreDropped, Saves
  <2>2. Over(c) /\ UNCHANGED <<table, rows, stem, policy>> /\ call[c].of \in Versions
    BY <1>1, <1>5 DEF StoreDropped, At, databaseVars, Defined
  <2>3. QED
    BY <1>1, <2>1, <2>2, SaveStep DEF At, Locked
<1>6. QED
  BY <1>2, <1>3, <1>4, <1>5

LEMMA ReadsOfAJobStep ==
  ASSUME RowsInv, NEW c \in Call,
         ExecutePublish(c) \/ ExecuteDrop(c) \/ ReadRollback(c) \/ ReadApplied(c)
  PROVE  RowsInv' /\ RowsKept
<1>1. /\ RowsTypeOK /\ Defined(c) /\ Undoable(c) /\ call[c] \in CallRow /\ stem \in 0..MaxVersion
      /\ call[c].expected \in 0..MaxVersion /\ 0 \in 0..MaxVersion
  BY EntityPublishAssumption DEF RowsInv, RowsTypeOK, CallRow
<1>2. CASE ExecutePublish(c)
  <2>1. PICK where \in {"policy", "plan"}, x \in {ExpectedTarget(call[c].of)} :
          call' = [call EXCEPT ![c].at = where, ![c].copy = version[call[c].of], ![c].expected = x]
    BY <1>2 DEF ExecutePublish
  <2>2. call[c].at = "locked" /\ UNCHANGED <<version, table, rows, stem, policy, inFlight, tableLock>>
    BY <1>2 DEF ExecutePublish, At, Continues, databaseVars
  <2>3. x \in 0..MaxVersion /\ x # call[c].of /\ tableLock = c
    BY <1>1, <2>1, <2>2, ServingFacts, EntityPublishAssumption
    DEF ExpectedTarget, Defined, Undoable, Locked, Versions
  <2>4. QED
    BY <2>1, <2>2, <2>3, ReadStep DEF At
<1>3. CASE ExecuteDrop(c)
  <2>1. CASE ~ReadDrop(c)
    BY <1>3, <2>1, EndsQuietly DEF ExecuteDrop, databaseVars
  <2>2. CASE ReadDrop(c)
    <3>1. PICK x \in 0..MaxVersion :
            call' = [call EXCEPT ![c].at = "drop", ![c].copy = version[call[c].of], ![c].expected = x]
      BY <1>1, <1>3, <2>2 DEF ExecuteDrop
    <3>2. /\ call[c].at = "locked" /\ tableLock = c
          /\ UNCHANGED <<version, table, rows, stem, policy, inFlight, tableLock>>
      BY <1>1, <1>3, <2>2 DEF ExecuteDrop, At, Continues, databaseVars, Undoable, Locked
    <3>3. QED
      BY <3>1, <3>2, ReadStep DEF At
  <2>3. QED
    BY <2>1, <2>2
<1>4. CASE ReadRollback(c)
  <2>1. PICK x \in 0..MaxVersion : x = call[c].expected
    BY <1>1
  <2>2. CASE Copies(c, "unpublish") /\ Continues
    BY <1>4, <2>1, <2>2, ReadStep DEF ReadRollback, At, Continues, databaseVars, Locked
  <2>3. CASE Over(c)
    BY <1>4, <2>3, EndsQuietly DEF ReadRollback, databaseVars
  <2>4. QED
    BY <1>4, <2>2, <2>3 DEF ReadRollback
<1>5. CASE ReadApplied(c)
  <2>1. PICK x \in 0..MaxVersion : x = call[c].expected
    BY <1>1
  <2>2. QED
    BY <1>5, <2>1, ReadStep DEF ReadApplied, At, Continues, databaseVars, Locked
<1>6. QED
  BY <1>2, <1>3, <1>4, <1>5

LEMMA PlacesOfAJobStep ==
  ASSUME RowsInv, NEW c \in Call,
         ClaimTableJob(c) \/ RefuseTable(c) \/ ApplyPolicy(c) \/ EndJob(c) \/ Die(c)
  PROVE  RowsInv' /\ RowsKept
<1>1. /\ RowsTypeOK /\ Defined(c) /\ Undoable(c) /\ call[c] \in CallRow
      /\ policy \in 0..MaxVersion /\ inFlight \subseteq Call
      /\ {"locked", "rollback", "applied", "over"} \subseteq Places
  BY DEF RowsInv, RowsTypeOK, Places
<1>2. CASE ClaimTableJob(c)
  <2>1. UNCHANGED <<version, table, rows, stem, policy>> /\ call[c].at = "sent"
    BY <1>2 DEF ClaimTableJob, databaseVars, At
  <2>2. CASE Over(c)
    BY <2>1, <2>2, EndsQuietly
  <2>3. CASE tableLock = NoHold /\ tableLock' = c /\ Goes(c, "locked") /\ UNCHANGED inFlight
    <3>1. \A d \in Call : tableLock # d
      BY <2>3, EntityPublishAssumption
    <3>2. QED
      BY <1>1, <2>1, <2>3, <3>1, PlaceStep DEF At
  <2>4. CASE Goes(c, "rollback") /\ Continues
    BY <1>1, <2>1, <2>4, PlaceStep DEF At, Continues, Locked
  <2>5. QED
    BY <1>2, <2>2, <2>3, <2>4 DEF ClaimTableJob
<1>3. CASE RefuseTable(c)
  BY <1>1, <1>3, PlaceStep DEF RefuseTable, At, Continues, Locked, databaseVars
<1>4. CASE ApplyPolicy(c)
  <2>1. CASE policy' = call[c].of /\ Goes(c, "applied") /\ Continues
    BY <1>1, <1>4, <2>1, PlaceStep DEF ApplyPolicy, At, Continues, Locked, CallRow
  <2>2. CASE UNCHANGED policy /\ Over(c)
    BY <1>4, <2>2, EndsQuietly DEF ApplyPolicy
  <2>3. QED
    BY <1>4, <2>1, <2>2 DEF ApplyPolicy
<1>5. CASE EndJob(c)
  <2>1. /\ UNCHANGED <<version, table, rows, stem, policy, call, tableLock>> /\ inFlight' \subseteq Call
        /\ call \in [Call -> CallRow] /\ Defined(c)' /\ Undoable(c)'
    BY <1>1, <1>5 DEF EndJob, databaseVars, RowsTypeOK, Defined, Undoable
  <2>2. QED
    BY <1>1, <2>1, QuietMove
<1>6. CASE Die(c)
  BY <1>1, <1>6, PlaceStep DEF Die, At, Locked, databaseVars
<1>7. QED
  BY <1>2, <1>3, <1>4, <1>5, <1>6

\* Steps that are of no call.
LEMMA EntityStep ==
  ASSUME RowsInv, OpenVersion \/ Deprecate \/ \E v \in Versions : WriteRows(v)
  PROVE  RowsInv' /\ RowsKept
<1>1. RowsTypeOK /\ VersionsOK /\ NothingDangles /\ \A c \in Call : Defined(c) /\ Undoable(c)
  BY DEF RowsInv
<1>2. UNCHANGED <<table, stem, policy, call, inFlight, tableLock>>
  BY DEF OpenVersion, Deprecate, WriteRows, databaseVars
<1>3. /\ version' \in [Versions -> Row] /\ VersionsOK'
      /\ \A v \in Versions : version[v].status # "absent" => version'[v].status # "absent"
  <2>1. CASE OpenVersion
    <3>1. Current \in Versions /\ version[Current] \in Row /\ version[Current].shape # 0
      <4>1. 1 \in Opened /\ Opened \in SUBSET Versions
        BY <1>1, EntityPublishAssumption DEF VersionsOK, Opened, Versions
      <4>2. Current \in Opened
        BY <4>1, HighestFacts DEF Current
      <4>3. QED
        BY <1>1, <4>2 DEF Opened, RowsTypeOK, VersionsOK
    <3>2. Draft(version[Current].shape) \in Row /\ Draft(version[Current].shape).status = "unpublished"
          /\ Draft(version[Current].shape).shape = version[Current].shape
      BY <3>1, EntityPublishAssumption DEF Draft, Unopened, Row
    <3>3. PICK d \in Row : d = Draft(version[Current].shape)
      BY <3>2
    <3>4. version' = [version EXCEPT ![Current + 1] = d] /\ d.status # "absent" /\ d.shape # 0
      BY <2>1, <3>1, <3>2, <3>3 DEF OpenVersion
    <3>5. \A v \in Versions : version'[v] \in {version[v], d}
      BY <1>1, <3>4 DEF RowsTypeOK
    <3>6. version' \in [Versions -> Row]
      BY <1>1, <3>4 DEF RowsTypeOK
    <3>7. 1 \in Versions
      BY EntityPublishAssumption DEF Versions
    <3>8. QED
      BY <1>1, <3>4, <3>5, <3>6, <3>7 DEF VersionsOK
  <2>2. CASE ~OpenVersion
    BY <1>1, <2>2 DEF Deprecate, WriteRows, RowsTypeOK, VersionsOK
  <2>3. QED
    BY <2>1, <2>2
<1>4. rows' \subseteq Versions /\ NothingDangles' /\ RowsKept
  BY <1>1, <1>2 DEF OpenVersion, Deprecate, WriteRows, databaseVars, NothingDangles, RowsKept, RowsTypeOK
<1>5. RowsTypeOK'
  BY <1>1, <1>2, <1>3, <1>4 DEF RowsTypeOK
<1>6. \A c \in Call : Defined(c)' /\ Undoable(c)'
  BY <1>1, <1>2, <1>3 DEF Defined, Undoable
<1>7. QED
  BY <1>3, <1>4, <1>5, <1>6 DEF RowsInv

LEMMA RowsInit == PublishInit => RowsInv
<1> SUFFICES ASSUME PublishInit PROVE RowsInv
  OBVIOUS
<1>1. Unopened \in Row /\ Draft(1) \in Row /\ Draft(1).shape = 1 /\ Draft(1).status = "unpublished"
  <2>1. 0 \in 0..MaxShape /\ 1 \in 0..MaxShape
    BY EntityPublishAssumption
  <2>2. Unopened \in Row
    BY <2>1 DEF Unopened, Row
  <2>3. PICK shape \in 0..MaxShape : shape = 1
    BY <2>1
  <2>4. Draft(shape) \in Row /\ Draft(shape).shape = shape /\ Draft(shape).status = "unpublished"
    BY DEF Draft, Unopened, Row
  <2>5. QED
    BY <2>2, <2>3, <2>4
<1>2. Unused \in CallRow
  BY <1>1, EntityPublishAssumption DEF Unused, CallRow, Places
<1>3. RowsTypeOK /\ NothingDangles
  BY <1>1, <1>2, EntityPublishAssumption DEF PublishInit, RowsTypeOK, NothingDangles, Versions
<1>4. VersionsOK /\ \A c \in Call : Defined(c) /\ Undoable(c)
  BY <1>1, EntityPublishAssumption
  DEF PublishInit, VersionsOK, Defined, Undoable, Locked, Unused, Unopened, Versions
<1>5. QED
  BY <1>3, <1>4 DEF RowsInv

LEMMA RowsStep == RowsInv /\ [PublishNext]_publishVars => RowsInv' /\ RowsKept
<1> SUFFICES ASSUME RowsInv, [PublishNext]_publishVars PROVE RowsInv' /\ RowsKept
  OBVIOUS
<1>1. CASE OpenVersion \/ Deprecate \/ \E v \in Versions : WriteRows(v)
  BY <1>1, EntityStep
<1>2. ASSUME NEW c \in Call, \E v \in Opened : Request(c, v)
      PROVE  RowsInv' /\ RowsKept
  BY <1>2, RequestStep
<1>3. ASSUME NEW c \in Call, FindInFlight(c) \/ MintJob(c) \/ SaveAccepted(c) \/ SaveEdit(c)
      PROVE  RowsInv' /\ RowsKept
  BY <1>3, RequestPathStep
<1>4. ASSUME NEW c \in Call,
             \/ StorePublished(c) \/ SaveRollback(c) \/ SaveApplied(c) \/ StoreDropped(c)
             \/ ExecutePublish(c) \/ ExecuteDrop(c) \/ ReadRollback(c) \/ ReadApplied(c)
             \/ ClaimTableJob(c) \/ RefuseTable(c) \/ ApplyPolicy(c) \/ EndJob(c) \/ Die(c)
      PROVE  RowsInv' /\ RowsKept
  BY <1>4, SavesOfAJobStep, ReadsOfAJobStep, PlacesOfAJobStep
<1>5. ASSUME NEW c \in Call, CreateTable(c) \/ RestoreView(c) \/ RevertTable(c) \/ DropTable(c)
      PROVE  RowsInv' /\ RowsKept
  BY <1>5, CreateStep, RestoreStep, RevertStep, DropStep
<1>6. CASE UNCHANGED publishVars
  <2>1. UNCHANGED <<version, table, rows, stem, policy, call, inFlight, tableLock>>
    BY <1>6 DEF publishVars, databaseVars
  <2>2. RowsTypeOK' /\ VersionsOK' /\ NothingDangles' /\ RowsKept
    BY <2>1 DEF RowsInv, RowsTypeOK, VersionsOK, NothingDangles, RowsKept
  <2>3. \A c \in Call : Defined(c)' /\ Undoable(c)'
    BY <2>1 DEF RowsInv, Defined, Undoable
  <2>4. QED
    BY <2>2, <2>3 DEF RowsInv
<1>7. QED
  BY <1>1, <1>2, <1>3, <1>4, <1>5, <1>6 DEF PublishNext

LEMMA RowsInvHolds == PublishSpec => []RowsInv
<1>1. PublishInit => RowsInv
  BY RowsInit
<1>2. RowsInv /\ [PublishNext]_publishVars => RowsInv'
  BY RowsStep
<1>3. QED
  BY <1>1, <1>2, PTL DEF PublishSpec

\* Whatever dies, is undone, retried or overwritten, no step drops or replaces a
\* table that has rows, or leaves the stem view without its table.
THEOREM TablesWithRowsStay == PublishSpec => RowsSurvive
<1>1. RowsInv /\ [PublishNext]_publishVars =>
        [/\ \A v \in rows : table'[v] = table[v]
         /\ stem' # 0 => table'[stem'] # 0]_publishVars
  BY RowsStep DEF RowsKept
<1>2. QED
  BY <1>1, RowsInvHolds, PTL DEF PublishSpec, RowsSurvive

\* Versions, tables and calls have their types, and a worker that acts under the table
\* lock holds it, whatever became of its Job meanwhile.
THEOREM WorkersHoldTheLock == PublishSpec => []PublishTypeOK
<1>1. RowsInv => PublishTypeOK
  BY DEF RowsInv, RowsTypeOK, PublishTypeOK, Undoable, Locked, Row, CallRow, Places
<1>2. QED
  BY <1>1, RowsInvHolds, PTL

-----------------------------------------------------------------------------
(* The view selects the head *)

Clean == ~torn /\ ~overwrote /\ ~again

Published(v) == version[v].status = "published"
HeadTable == IF TablePresent(Serving) THEN Serving ELSE 0

\* A version is opened only after the one before it was published.
Ordered == \A v, w \in Versions : version[w].status # "absent" /\ v < w => Published(v)

\* What a call of an unbroken history has read, and what of it still holds.
Trusted(c) ==
  /\ call[c].at \in {"prepared", "clear", "save"} /\ call[c].kind = "publish" =>
       call[c].copy.status \in {"unpublished", "publishing"} \/ PolicyOnly(call[c].copy)
  /\ call[c].at = "save" /\ call[c].kind = "edit" => call[c].copy.status = "unpublished"
  /\ call[c].at = "unpublish" => call[c].copy.status = "publishing"
  /\ call[c].at = "plan" /\ call[c].copy.status # "published" => ~Published(call[c].of)
  /\ call[c].at = "created" => table[call[c].of] = call[c].copy.shape
  /\ call[c].at \in {"created", "revert"} => ~Published(call[c].of)
  /\ call[c].at \in {"plan", "created"} => call[c].expected = ExpectedTarget(call[c].of)
  /\ call[c].at \in {"drop", "dropped"} => version[call[c].of].present
  /\ call[c].at = "drop" => call[c].expected = IF call[c].of = Serving THEN stem ELSE 0
  /\ call[c].at = "dropped" => table[call[c].of] = 0

\* Between the two databases, view and rows agree but for the one step.
Between == {"created", "dropped"}
StemOK ==
  /\ (\A c \in Call : call[c].at \notin Between) => stem = HeadTable
  /\ \A c \in Call :
       /\ call[c].at = "created" => stem = call[c].of
       /\ call[c].at = "dropped" => stem = IF call[c].of = Serving THEN 0 ELSE HeadTable
PresentOK(v) ==
  /\ version[v].present => Published(v)
  /\ version[v].present /\ (\A c \in Call : call[c].at = "dropped" => call[c].of # v) =>
       table[v] = version[v].shape
  /\ Published(v) /\ table[v] # 0 => version[v].present

ViewOK == /\ Ordered /\ StemOK
          /\ \A v \in Versions : PresentOK(v)
          /\ \A c \in Call : Trusted(c)
ViewInv == Clean => ViewOK

\* The versions that are published and present stay the same.
SameHeads ==
  \A v \in Versions :
    /\ Published(v)' <=> Published(v)
    /\ version'[v].present = version[v].present
    /\ version[v].present => version'[v].shape = version[v].shape

LEMMA HeadStays ==
  ASSUME SameHeads
  PROVE  Serving' = Serving /\ HeadTable' = HeadTable /\ \A v \in Versions : ExpectedTarget(v)' = ExpectedTarget(v)
<1>1. Serving' = Serving
  BY DEF Serving, SameHeads, Published
<1>2. Serving # 0 => Serving \in Versions
  BY ServingFacts, EntityPublishAssumption DEF Versions
<1>3. TablePresent(Serving)' <=> TablePresent(Serving)
  BY <1>1, <1>2 DEF TablePresent, SameHeads
<1>4. QED
  BY <1>1, <1>3 DEF HeadTable, ExpectedTarget

\* A step of no call, or of one that neither comes between the databases nor
\* leaves from there, and that publishes nothing.
LEMMA QuietView ==
  ASSUME RowsInv, ViewOK, NEW c, SameHeads, Ordered', UNCHANGED <<table, stem>>,
         \A d \in Call : d # c => call'[d] = call[d],
         c \in Call => call[c].at \notin Between /\ call'[c].at \notin Between /\ Trusted(c)'
  PROVE  ViewOK'
<1>1. \A d \in Call : /\ call[d].at \in Between => call'[d] = call[d]
                      /\ call'[d].at \in Between => call'[d] = call[d]
  OBVIOUS
<1>2. Serving' = Serving /\ HeadTable' = HeadTable
  BY HeadStays
<1>3. StemOK'
  BY <1>1, <1>2 DEF ViewOK, StemOK, Between
<1>4. ASSUME NEW v \in Versions PROVE PresentOK(v)'
  BY <1>1 DEF ViewOK, PresentOK, SameHeads, Between
<1>5. ASSUME NEW d \in Call, d # c PROVE Trusted(d)'
  <2>1. call'[d] = call[d] /\ Trusted(d) /\ Defined(d)
    BY <1>5 DEF ViewOK, RowsInv
  <2>2. CASE call[d].at \in {"idle", "over"}
    BY <2>1, <2>2 DEF Trusted
  <2>3. CASE call[d].at \notin {"idle", "over"}
    <3>1. PICK v \in Versions : v = call[d].of
      BY <2>1, <2>3 DEF Defined
    <3>2. /\ Published(v)' <=> Published(v)
          /\ version'[v].present = version[v].present
          /\ ExpectedTarget(v)' = ExpectedTarget(v)
      BY HeadStays DEF SameHeads
    <3>3. Published(call[d].of)' <=> Published(v)'
      BY <2>1, <3>1 DEF Published
    <3>4. ExpectedTarget(call[d].of)' = ExpectedTarget(v)'
      BY <2>1, <3>1 DEF ExpectedTarget
    <3>5. QED
      BY <1>2, <2>1, <3>1, <3>2, <3>3, <3>4 DEF Trusted, PolicyOnly
  <2>4. QED
    BY <2>2, <2>3
<1>6. QED
  BY <1>3, <1>4, <1>5 DEF ViewOK

\* While one call holds the lock, no other is between the databases, and no
\* other relies on more than its copy.
LEMMA OthersWait ==
  ASSUME RowsInv, ViewOK, NEW c \in Call, tableLock = c,
         \A d \in Call : d # c => call'[d] = call[d]
  PROVE  \A d \in Call : d # c => call'[d].at \notin Between /\ call[d].at \notin Between /\ Trusted(d)'
<1>1. ASSUME NEW d \in Call, d # c
      PROVE  call'[d].at \notin Between /\ call[d].at \notin Between /\ Trusted(d)'
  <2>1. call[d].at \notin Locked /\ call'[d] = call[d] /\ Trusted(d)
    BY <1>1 DEF RowsInv, Undoable, ViewOK
  <2>2. QED
    BY <2>1 DEF Locked, Between, Trusted, PolicyOnly
<1>2. QED
  BY <1>1

LEMMA SameVersions ==
  ASSUME ViewOK, UNCHANGED version
  PROVE  SameHeads /\ Ordered'
BY DEF ViewOK, SameHeads, Ordered, Published

\* A save that neither publishes a version nor takes that back.
LEMMA SaveKeepsHeads ==
  ASSUME RowsInv, ViewOK, NEW v \in Versions, NEW row,
         version' = [version EXCEPT ![v] = row], version[v].status # "absent",
         row.status = "published" <=> Published(v), row.present = version[v].present,
         version[v].present => row.shape = version[v].shape
  PROVE  SameHeads /\ Ordered'
<1>1. \A w \in Versions : version'[w] = IF w = v THEN row ELSE version[w]
  BY DEF RowsInv, RowsTypeOK
<1>2. SameHeads
  BY <1>1 DEF SameHeads, Published
<1>3. Ordered'
  BY <1>1, <1>2 DEF ViewOK, Ordered, SameHeads, Published
<1>4. QED
  BY <1>2, <1>3

\* A step after which the call is over, or waits at a place that asks nothing.
LEMMA MovesOn ==
  ASSUME RowsInv, ViewOK, NEW c \in Call, SameHeads, Ordered', UNCHANGED <<table, stem>>,
         call[c].at \notin Between,
         \/ Over(c)
         \/ \E where \in {"clear", "save", "sent", "locked", "rollback", "policy", "applied", "over"} :
              /\ Goes(c, where)
              /\ where = "clear" => At(c, "prepared")
              /\ where = "save" => At(c, "clear") /\ call[c].kind = "publish"
  PROVE  ViewOK'
<1>1. RowsTypeOK /\ Trusted(c) /\ call[c] \in CallRow
  BY DEF RowsInv, RowsTypeOK, ViewOK
<1>2. CASE Over(c)
  <2>1. call'[c].at \notin Between /\ Trusted(c)' /\ \A d \in Call : d # c => call'[d] = call[d]
    BY <1>1, <1>2, Ends DEF Trusted, Between
  <2>2. QED
    BY <2>1, QuietView
<1>3. ASSUME NEW where \in {"clear", "save", "sent", "locked", "rollback", "policy", "applied", "over"},
             Goes(c, where), where = "clear" => At(c, "prepared"),
             where = "save" => At(c, "clear") /\ call[c].kind = "publish"
      PROVE  ViewOK'
  <2>1. where \in Places
    BY DEF Places
  <2>2. call'[c] = [call[c] EXCEPT !.at = where] /\ \A d \in Call : d # c => call'[d] = call[d]
    BY <1>1, <1>3, <2>1, Moves
  <2>3. call'[c].at = where /\ call'[c].kind = call[c].kind /\ call'[c].copy = call[c].copy
    BY <1>1, <2>2 DEF CallRow
  <2>4. call'[c].at \notin Between /\ Trusted(c)'
    BY <1>1, <1>3, <2>3 DEF Trusted, Between, PolicyOnly, At
  <2>5. QED
    BY <2>2, <2>4, QuietView
<1>4. QED
  BY <1>2, <1>3

LEMMA RequestView ==
  ASSUME RowsInv, ViewOK, NEW c \in Call,
         (\E v \in Opened : Request(c, v)) \/ FindInFlight(c) \/ MintJob(c)
  PROVE  ViewOK'
<1>1. RowsTypeOK
  BY DEF RowsInv
<1>2. UNCHANGED <<version, table, stem>> /\ SameHeads /\ Ordered'
  BY SameVersions DEF Request, FindInFlight, MintJob, databaseVars
<1>3. ASSUME NEW v \in Opened, Request(c, v) PROVE ViewOK'
  <2>1. PICK kind \in {"publish", "drop", "edit"} :
          /\ kind = "publish" => MayPublish(v)
          /\ kind = "edit" => MayEdit(v)
          /\ call' = [call EXCEPT ![c] = [at |-> IF kind = "edit" THEN "save" ELSE "prepared",
                                          kind |-> kind, of |-> v, copy |-> version[v], expected |-> 0]]
    BY <1>3 DEF Request
  <2>2. /\ call'[c].at = IF kind = "edit" THEN "save" ELSE "prepared"
        /\ call'[c].kind = kind /\ call'[c].copy = version[v]
        /\ \A d \in Call : d # c => call'[d] = call[d]
    BY <1>1, <2>1 DEF RowsTypeOK
  <2>3. Trusted(c)' /\ call'[c].at \notin Between
    BY <2>1, <2>2 DEF Trusted, Between, PolicyOnly, MayPublish, MayEdit
  <2>4. call[c].at \notin Between
    BY <1>3 DEF Request, At, Between
  <2>5. QED
    BY <1>2, <2>2, <2>3, <2>4, QuietView
<1>4. CASE FindInFlight(c)
  BY <1>2, <1>4, MovesOn DEF FindInFlight, At, Between
<1>5. CASE MintJob(c)
  BY <1>2, <1>5, MovesOn DEF MintJob, At, Between
<1>6. QED
  BY <1>3, <1>4, <1>5

\* What a call saves without overwriting keeps the heads.
LEMMA SavesView ==
  ASSUME RowsInv, ViewOK, NEW c \in Call, ~overwrote',
         SaveAccepted(c) \/ SaveEdit(c) \/ SaveRollback(c) \/ SaveApplied(c)
  PROVE  ViewOK'
<1>1. /\ RowsTypeOK /\ Trusted(c) /\ Defined(c) /\ call[c] \in CallRow
      /\ \A v \in Versions : PresentOK(v)
  BY DEF RowsInv, RowsTypeOK, ViewOK
<1>2. /\ call[c].at \in {"save", "unpublish", "apply"} /\ UNCHANGED <<table, stem>>
      /\ Over(c) \/ Goes(c, "sent")
  BY DEF SaveAccepted, SaveEdit, SaveRollback, SaveApplied, At, databaseVars
<1>3. PICK v \in Versions : v = call[c].of
  BY <1>1, <1>2 DEF Defined
<1>4. version[v] = call[c].copy /\ version[v] \in Row /\ version[v].status # "absent" /\ PresentOK(v)
  BY <1>1, <1>2, <1>3 DEF SaveAccepted, SaveEdit, SaveRollback, SaveApplied, Saves, Defined, RowsTypeOK
<1>5. PICK k \in Row : k = version[v]
  BY <1>4
<1>6. \E row : /\ version' = [version EXCEPT ![v] = row]
               /\ row.status = "published" <=> Published(v)
               /\ row.present = version[v].present
               /\ version[v].present => row.shape = version[v].shape
  <2>1. CASE SaveAccepted(c)
    <3>1. CASE PolicyOnly(k)
      BY <1>3, <1>4, <1>5, <2>1, <3>1 DEF SaveAccepted, Saves, Published
    <3>2. CASE ~PolicyOnly(k)
      <4>1. PICK row : row = [k EXCEPT !.status = "publishing"]
        OBVIOUS
      <4>2. row.status = "publishing" /\ row.present = k.present /\ row.shape = k.shape
        BY <4>1 DEF Row
      <4>3. ~Published(v)
        BY <1>1, <1>4, <1>5, <2>1, <3>2 DEF Trusted, SaveAccepted, At, Published
      <4>4. QED
        BY <1>3, <1>4, <1>5, <2>1, <3>2, <4>1, <4>2, <4>3 DEF SaveAccepted, Saves
    <3>3. QED
      BY <3>1, <3>2
  <2>2. CASE SaveEdit(c)
    <3>1. PICK row : row = [k EXCEPT !.shape = @ + 1]
      OBVIOUS
    <3>2. row.status = k.status /\ row.present = k.present
      BY <3>1 DEF Row
    <3>3. ~Published(v) /\ ~version[v].present
      BY <1>1, <1>4, <2>2 DEF Trusted, SaveEdit, At, Published, PresentOK
    <3>4. QED
      BY <1>3, <1>4, <1>5, <2>2, <3>1, <3>2, <3>3 DEF SaveEdit, Saves, Published
  <2>3. CASE SaveRollback(c)
    <3>1. PICK row : row = [k EXCEPT !.status = "unpublished", !.present = FALSE]
      OBVIOUS
    <3>2. row.status = "unpublished" /\ row.present = FALSE
      BY <3>1 DEF Row
    <3>3. ~Published(v) /\ version[v].present = FALSE
      BY <1>1, <1>4, <2>3 DEF Trusted, SaveRollback, At, Published, PresentOK, Row
    <3>4. QED
      BY <1>3, <1>4, <1>5, <2>3, <3>1, <3>2, <3>3 DEF SaveRollback, Saves
  <2>4. CASE SaveApplied(c)
    <3>1. PICK row : row = [k EXCEPT !.log = "applied"]
      OBVIOUS
    <3>2. row.status = k.status /\ row.present = k.present /\ row.shape = k.shape
      BY <3>1 DEF Row
    <3>3. QED
      BY <1>3, <1>4, <1>5, <2>4, <3>1, <3>2 DEF SaveApplied, Saves, Published
  <2>5. QED
    BY <2>1, <2>2, <2>3, <2>4
<1>7. SameHeads /\ Ordered'
  BY <1>4, <1>6, SaveKeepsHeads
<1>8. QED
  BY <1>2, <1>7, MovesOn DEF Between

\* What a Job reads under the lock stays true until it lets go of the lock.
LEMMA ReadsView ==
  ASSUME RowsInv, ViewOK, NEW c \in Call,
         ExecutePublish(c) \/ ExecuteDrop(c) \/ ReadRollback(c) \/ ReadApplied(c)
  PROVE  ViewOK'
<1>1. /\ RowsTypeOK /\ Defined(c) /\ call[c] \in CallRow
      /\ \A v \in Versions : PresentOK(v)
  BY DEF RowsInv, RowsTypeOK, ViewOK
<1>2. /\ UNCHANGED <<version, table, stem>> /\ SameHeads /\ Ordered'
      /\ call[c].at \in {"locked", "rollback", "applied"}
  BY SameVersions DEF ExecutePublish, ExecuteDrop, ReadRollback, ReadApplied, databaseVars, At
<1>3. PICK v \in Versions : v = call[c].of
  BY <1>1, <1>2 DEF Defined
<1>4. Serving' = Serving /\ ExpectedTarget(v)' = ExpectedTarget(v)
  BY <1>2, HeadStays
<1>5. CASE Over(c)
  BY <1>2, <1>5, MovesOn DEF Between
<1>6. CASE ~Over(c)
  <2>1. /\ \A d \in Call : d # c => call'[d] = call[d]
        /\ call'[c].at \notin Between /\ call'[c].of = v /\ call'[c].copy = version[v]
        /\ call'[c].at = "unpublish" => version[v].status = "publishing"
        /\ call'[c].at = "plan" => call'[c].expected = ExpectedTarget(v)
        /\ call'[c].at = "drop" => /\ version[v].present
                                   /\ call'[c].expected = IF v = Serving THEN stem ELSE 0
        /\ call'[c].at \in {"unpublish", "plan", "policy", "drop", "apply"}
    <3>1. CASE ExecutePublish(c)
      BY <1>1, <1>3, <3>1 DEF ExecutePublish, RowsTypeOK, CallRow, Between
    <3>2. CASE ExecuteDrop(c)
      BY <1>1, <1>3, <1>6, <3>2 DEF ExecuteDrop, ReadDrop, MayDrop, TablePresent, RowsTypeOK, CallRow, Between
    <3>3. CASE ReadRollback(c)
      BY <1>1, <1>3, <1>6, <3>3 DEF ReadRollback, Copies, RowsTypeOK, CallRow, Between
    <3>4. CASE ReadApplied(c)
      BY <1>1, <1>3, <3>4 DEF ReadApplied, Copies, RowsTypeOK, CallRow, Between
    <3>5. QED
      BY <3>1, <3>2, <3>3, <3>4
  <2>2. Trusted(c)'
    <3>1. call'[c].at = "plan" /\ call'[c].copy.status # "published" => ~Published(call[c].of)'
      BY <1>2, <1>3, <2>1 DEF Published
    <3>2. call'[c].at = "plan" => call'[c].expected = ExpectedTarget(call[c].of)'
      BY <1>3, <1>4, <2>1 DEF ExpectedTarget
    <3>3. QED
      BY <1>2, <1>3, <1>4, <2>1, <3>1, <3>2 DEF Trusted
  <2>3. QED
    BY <1>2, <2>1, <2>2, QuietView DEF Between
<1>7. QED
  BY <1>5, <1>6

\* The worker between its two databases.
LEMMA LockView ==
  ASSUME RowsInv, ViewOK, NEW c \in Call, tableLock = c,
         \A d \in Call : d # c => call'[d] = call[d],
         \A v \in Versions : PresentOK(v)', Ordered', Trusted(c)',
         call'[c].at = "created" => stem' = call'[c].of,
         call'[c].at = "dropped" => stem' = IF call'[c].of = Serving' THEN 0 ELSE HeadTable',
         call'[c].at \notin Between => stem' = HeadTable'
  PROVE  ViewOK'
<1>1. \A d \in Call : d # c => call'[d].at \notin Between /\ Trusted(d)'
  BY OthersWait
<1>2. StemOK'
  BY <1>1 DEF StemOK, Between
<1>3. QED
  BY <1>1, <1>2 DEF ViewOK

LEMMA CreateView ==
  ASSUME RowsInv, ViewOK, NEW c \in Call, CreateTable(c), ~again'
  PROVE  ViewOK'
<1>1. /\ RowsTypeOK /\ Defined(c) /\ Undoable(c) /\ Trusted(c) /\ call[c] \in CallRow
      /\ \A v \in Versions : PresentOK(v)
  BY DEF RowsInv, RowsTypeOK, ViewOK
<1>2. /\ UNCHANGED version /\ SameHeads /\ Ordered' /\ call[c].at = "plan" /\ tableLock = c
      /\ call[c].copy.status # "published" /\ stem' = call[c].of
      /\ Goes(c, "created") /\ "created" \in Places
  BY <1>1, SameVersions DEF CreateTable, At, Undoable, Locked, Places
<1>3. PICK v \in Versions : v = call[c].of
  BY <1>1, <1>2 DEF Defined
<1>4. table' = [table EXCEPT ![v] = call[c].copy.shape] /\ ~Published(v)
  BY <1>1, <1>2, <1>3 DEF CreateTable, Trusted
<1>5. /\ call'[c] = [call[c] EXCEPT !.at = "created"]
      /\ \A d \in Call : d # c => call'[d] = call[d]
  BY <1>1, <1>2, Moves
<1>6. /\ call'[c].at = "created" /\ call'[c].of = v /\ call'[c].copy = call[c].copy
      /\ call'[c].expected = ExpectedTarget(v)
  BY <1>1, <1>2, <1>3, <1>5 DEF CallRow, Trusted
<1>7. Trusted(c)'
  <2>1. table'[v] = call[c].copy.shape
    BY <1>1, <1>4 DEF RowsTypeOK
  <2>2. ~Published(call[c].of)' /\ ExpectedTarget(call[c].of)' = ExpectedTarget(v)
    BY <1>2, <1>3, <1>4, <1>6, HeadStays DEF Published, ExpectedTarget
  <2>3. call'[c].of = call[c].of
    BY <1>3, <1>6
  <2>4. QED
    BY <1>6, <2>1, <2>2, <2>3 DEF Trusted, Published, ExpectedTarget
<1>8. ASSUME NEW w \in Versions PROVE PresentOK(w)'
  <2>1. \A d \in Call : d # c => call[d].at \notin Between
    BY <1>2, <1>5, OthersWait
  <2>2. \A d \in Call : call[d].at # "dropped" /\ call'[d].at # "dropped"
    BY <1>2, <1>5, <1>6, <2>1 DEF Between
  <2>3. CASE w = v
    BY <1>1, <1>2, <1>4, <2>3 DEF PresentOK, Published
  <2>4. CASE w # v
    BY <1>1, <1>2, <1>4, <2>2, <2>4 DEF PresentOK, Published, RowsTypeOK
  <2>5. QED
    BY <2>3, <2>4
<1>9. QED
  BY <1>2, <1>3, <1>5, <1>6, <1>7, <1>8, LockView DEF Between

LEMMA UndoView ==
  ASSUME RowsInv, ViewOK, NEW c \in Call, RestoreView(c) \/ RevertTable(c), ~torn'
  PROVE  ViewOK'
<1>1. /\ RowsTypeOK /\ Defined(c) /\ Undoable(c) /\ Trusted(c) /\ call[c] \in CallRow
      /\ \A v \in Versions : PresentOK(v)
  BY DEF RowsInv, RowsTypeOK, ViewOK
<1>2. /\ UNCHANGED version /\ SameHeads /\ Ordered' /\ tableLock = c /\ call[c].at \in {"created", "revert"}
  BY <1>1, SameVersions DEF RestoreView, RevertTable, At, Undoable, Locked
<1>3. PICK v \in Versions : v = call[c].of
  BY <1>1, <1>2 DEF Defined
<1>4. ~Published(v) /\ Serving # v
  BY <1>1, <1>2, <1>3, ServingFacts, EntityPublishAssumption DEF Trusted, Published, Versions
<1>5. PICK where \in {"revert", "rollback"} : Goes(c, where) /\ (where = "revert" => RestoreView(c))
  BY DEF RestoreView, RevertTable
<1>6. /\ call'[c] = [call[c] EXCEPT !.at = where] /\ where \in Places
      /\ \A d \in Call : d # c => call'[d] = call[d]
  BY <1>1, <1>5, Moves DEF Places
<1>7. call'[c].at = where /\ call'[c].of = call[c].of
  BY <1>1, <1>6 DEF CallRow
<1>8. Trusted(c)'
  BY <1>2, <1>3, <1>4, <1>7 DEF Trusted, Published
<1>9. \A d \in Call : call[d].at # "dropped" /\ call'[d].at # "dropped"
  <2>1. \A d \in Call : d # c => call[d].at \notin Between
    BY <1>2, <1>6, OthersWait
  <2>2. QED
    BY <1>2, <1>6, <1>7, <2>1 DEF Between
<1>10. \A w \in Versions : w # v => table'[w] = table[w]
  BY <1>3 DEF RestoreView, RevertTable, Droppable
<1>11. ASSUME NEW w \in Versions PROVE PresentOK(w)'
  <2>1. CASE w = v
    BY <1>1, <1>2, <1>4, <2>1 DEF PresentOK, Published
  <2>2. CASE w # v
    BY <1>1, <1>2, <1>9, <1>10, <2>2 DEF PresentOK, Published
  <2>3. QED
    BY <2>1, <2>2
<1>12. stem' = HeadTable'
  <2>1. HeadTable' = HeadTable
    BY <1>2, HeadStays
  <2>2. CASE RestoreView(c)
    BY <1>1, <1>3, <1>4, <2>1, <2>2 DEF RestoreView, Restored, Trusted, At, ExpectedTarget, HeadTable
  <2>3. CASE RevertTable(c)
    <3>1. call[c].at = "revert" /\ stem' = stem
      BY <2>3 DEF RevertTable, At
    <3>2. \A d \in Call : call[d].at \notin Between
      BY <1>2, <1>6, <3>1, OthersWait DEF Between
    <3>3. QED
      BY <2>1, <3>1, <3>2 DEF ViewOK, StemOK
  <2>4. QED
    BY <2>2, <2>3
<1>13. QED
  BY <1>2, <1>6, <1>7, <1>8, <1>11, <1>12, LockView DEF Between

LEMMA DropView ==
  ASSUME RowsInv, ViewOK, NEW c \in Call, DropTable(c)
  PROVE  ViewOK'
<1>1. /\ RowsTypeOK /\ Defined(c) /\ Undoable(c) /\ Trusted(c) /\ call[c] \in CallRow
      /\ \A v \in Versions : PresentOK(v)
  BY DEF RowsInv, RowsTypeOK, ViewOK
<1>2. /\ UNCHANGED version /\ SameHeads /\ Ordered' /\ tableLock = c /\ call[c].at = "drop"
      /\ Serving' = Serving /\ HeadTable' = HeadTable
  BY <1>1, SameVersions, HeadStays DEF DropTable, At, Undoable, Locked
<1>3. PICK v \in Versions : v = call[c].of /\ v # 0
  BY <1>1, <1>2, EntityPublishAssumption DEF Defined, Versions
<1>4. CASE UNCHANGED <<table, stem>> /\ Over(c)
  BY <1>2, <1>4, MovesOn DEF Between
<1>5. CASE /\ table' = [table EXCEPT ![v] = 0]
           /\ stem' = IF call[c].expected # 0 THEN 0 ELSE stem
           /\ Goes(c, "dropped")
  <2>1. /\ call'[c] = [call[c] EXCEPT !.at = "dropped"] /\ "dropped" \in Places
        /\ \A d \in Call : d # c => call'[d] = call[d]
    BY <1>1, <1>5, Moves DEF Places
  <2>2. call'[c].at = "dropped" /\ call'[c].of = v
    BY <1>1, <1>3, <2>1 DEF CallRow
  <2>3. \A d \in Call : call[d].at \notin Between
    BY <1>2, <2>1, OthersWait DEF Between
  <2>4. stem = HeadTable /\ version[v].present /\ call[c].expected = IF v = Serving THEN stem ELSE 0
    BY <1>1, <1>2, <1>3, <2>3 DEF ViewOK, StemOK, Trusted
  <2>5. stem' = IF v = Serving THEN 0 ELSE HeadTable
    BY <1>3, <1>5, <2>4 DEF HeadTable, TablePresent
  <2>6. Trusted(c)'
    BY <1>1, <1>2, <1>3, <1>5, <2>2, <2>4 DEF Trusted, RowsTypeOK
  <2>7. ASSUME NEW w \in Versions PROVE PresentOK(w)'
    <3>1. CASE w = v
      <4>1. table'[w] = 0 /\ version'[w] = version[w] /\ PresentOK(w)
        BY <1>1, <1>2, <1>5, <3>1 DEF RowsTypeOK
      <4>2. \E d \in Call : call'[d].at = "dropped" /\ call'[d].of = w
        BY <2>2, <3>1
      <4>3. QED
        BY <4>1, <4>2 DEF PresentOK, Published
    <3>2. CASE w # v
      <4>1. table'[w] = table[w] /\ version'[w] = version[w] /\ PresentOK(w)
        BY <1>1, <1>2, <1>5, <3>2 DEF RowsTypeOK
      <4>2. \A d \in Call : call[d].at # "dropped"
        BY <2>3 DEF Between
      <4>3. QED
        BY <4>1, <4>2 DEF PresentOK, Published
    <3>3. QED
      BY <3>1, <3>2
  <2>8. QED
    BY <1>2, <2>1, <2>2, <2>5, <2>6, <2>7, LockView DEF Between
<1>6. QED
  BY <1>3, <1>4, <1>5 DEF DropTable

\* The version that gets published is the last one, and so becomes the head.
LEMMA PublishedView ==
  ASSUME RowsInv, ViewOK, NEW c \in Call, StorePublished(c)
  PROVE  ViewOK'
<1>1. /\ RowsTypeOK /\ Defined(c) /\ Undoable(c) /\ Trusted(c) /\ call[c] \in CallRow
      /\ StemOK /\ Ordered /\ \A w \in Versions : PresentOK(w)
  BY DEF RowsInv, RowsTypeOK, ViewOK
<1>2. /\ UNCHANGED <<table, stem>> /\ tableLock = c /\ call[c].at = "created" /\ Goes(c, "policy")
  BY <1>1 DEF StorePublished, At, Undoable, Locked, databaseVars
<1>3. PICK v \in Versions : v = call[c].of
  BY <1>1, <1>2 DEF Defined
<1>4. PICK k \in Row : k = call[c].copy
  BY <1>1 DEF CallRow
<1>5. PICK row : row = [k EXCEPT !.status = "published", !.present = TRUE, !.log = "pending"]
  OBVIOUS
<1>6. row.status = "published" /\ row.present = TRUE /\ row.shape = k.shape
  BY <1>5 DEF Row
<1>7. \A w \in Versions : version'[w] = IF w = v THEN row ELSE version[w]
  BY <1>1, <1>2, <1>3, <1>4, <1>5 DEF StorePublished, RowsTypeOK
<1>8. version[v].status # "absent" /\ ~Published(v) /\ table[v] = k.shape /\ stem = v
  BY <1>1, <1>2, <1>3, <1>4 DEF Defined, Trusted, StemOK
<1>9. Serving' = v
  <2>1. PICK vs \in SUBSET Versions : vs = {w \in Versions : version'[w].status = "published"}
    OBVIOUS
  <2>2. \A w \in vs : w <= v
    <3>1. \A w \in Versions : Published(w) => ~(v < w)
      BY <1>1, <1>8 DEF Ordered, Published
    <3>2. QED
      BY <1>7, <2>1, <3>1 DEF Published, Versions
  <2>3. v \in vs
    BY <1>6, <1>7, <2>1
  <2>4. Highest(vs) = v
    BY <2>2, <2>3, HighestFacts, EntityPublishAssumption DEF Versions
  <2>5. QED
    BY <2>1, <2>4 DEF Serving
<1>10. /\ call'[c] = [call[c] EXCEPT !.at = "policy"] /\ "policy" \in Places
       /\ \A d \in Call : d # c => call'[d] = call[d]
  BY <1>1, <1>2, Moves DEF Places
<1>11. call'[c].at = "policy"
  BY <1>1, <1>10 DEF CallRow
<1>12. stem' = HeadTable' /\ Trusted(c)'
  <2>1. version'[v].present
    BY <1>6, <1>7
  <2>2. stem' = HeadTable'
    BY <1>2, <1>8, <1>9, <2>1, EntityPublishAssumption DEF HeadTable, TablePresent, Versions
  <2>3. QED
    BY <1>11, <2>2 DEF Trusted
<1>13. Ordered'
  BY <1>1, <1>6, <1>7, <1>8 DEF Ordered, Published
<1>14. ASSUME NEW w \in Versions PROVE PresentOK(w)'
  <2>1. \A d \in Call : call[d].at # "dropped"
    BY <1>2, <1>10, OthersWait DEF Between
  <2>2. CASE w = v
    BY <1>2, <1>6, <1>7, <1>8, <2>2 DEF PresentOK, Published
  <2>3. CASE w # v
    BY <1>1, <1>2, <1>7, <2>1, <2>3 DEF PresentOK, Published
  <2>4. QED
    BY <2>2, <2>3
<1>15. QED
  BY <1>2, <1>10, <1>11, <1>12, <1>13, <1>14, LockView DEF Between

LEMMA DroppedView ==
  ASSUME RowsInv, ViewOK, NEW c \in Call, StoreDropped(c), ~overwrote'
  PROVE  ViewOK'
<1>1. /\ RowsTypeOK /\ Defined(c) /\ Undoable(c) /\ Trusted(c) /\ call[c] \in CallRow
      /\ StemOK /\ Ordered /\ \A w \in Versions : PresentOK(w)
  BY DEF RowsInv, RowsTypeOK, ViewOK
<1>2. /\ UNCHANGED <<table, stem>> /\ tableLock = c /\ call[c].at = "dropped" /\ Over(c)
  BY <1>1 DEF StoreDropped, At, Undoable, Locked, databaseVars
<1>3. PICK v \in Versions : v = call[c].of
  BY <1>1, <1>2 DEF Defined
<1>4. PICK k \in Row : k = version[v]
  BY <1>1 DEF RowsTypeOK
<1>5. PICK row : row = [k EXCEPT !.present = FALSE]
  OBVIOUS
<1>6. row.status = k.status /\ row.present = FALSE /\ row.shape = k.shape
  BY <1>5 DEF Row
<1>7. \A w \in Versions : version'[w] = IF w = v THEN row ELSE version[w]
  BY <1>1, <1>3, <1>4, <1>5 DEF StoreDropped, Saves, RowsTypeOK
<1>8. table[v] = 0 /\ stem = IF v = Serving THEN 0 ELSE HeadTable
  BY <1>1, <1>2, <1>3 DEF Trusted, StemOK
<1>9. \A w \in Versions : Published(w)' <=> Published(w)
  BY <1>4, <1>6, <1>7 DEF Published
<1>10. Serving' = Serving
  BY <1>9 DEF Serving, Published
<1>11. stem' = HeadTable'
  <2>1. CASE v = Serving
    BY <1>2, <1>3, <1>6, <1>7, <1>8, <1>10, <2>1 DEF HeadTable, TablePresent
  <2>2. CASE v # Serving
    <3>1. Serving # 0 => version'[Serving] = version[Serving]
      BY <1>7, <2>2, ServingFacts, EntityPublishAssumption DEF Versions
    <3>2. QED
      BY <1>2, <1>8, <1>10, <2>2, <3>1 DEF HeadTable, TablePresent
  <2>3. QED
    BY <2>1, <2>2
<1>12. /\ call'[c].at = "over" /\ Trusted(c)'
       /\ \A d \in Call : d # c => call'[d] = call[d]
  BY <1>1, <1>2, Ends DEF Trusted
<1>13. Ordered'
  BY <1>1, <1>4, <1>6, <1>7, <1>9 DEF Ordered, Published
<1>14. ASSUME NEW w \in Versions PROVE PresentOK(w)'
  <2>1. \A d \in Call : call[d].at = "dropped" => d = c
    BY <1>2, <1>12, OthersWait DEF Between
  <2>2. CASE w = v
    BY <1>2, <1>6, <1>7, <1>8, <2>2 DEF PresentOK, Published
  <2>3. CASE w # v
    BY <1>1, <1>2, <1>3, <1>7, <2>1, <2>3 DEF PresentOK, Published
  <2>4. QED
    BY <2>2, <2>3
<1>15. QED
  BY <1>2, <1>11, <1>12, <1>13, <1>14, LockView DEF Between

\* Steps that touch neither the versions nor the tables.
LEMMA PlacesView ==
  ASSUME RowsInv, ViewOK, NEW c \in Call, ~torn',
         ClaimTableJob(c) \/ RefuseTable(c) \/ ApplyPolicy(c) \/ EndJob(c) \/ Die(c)
  PROVE  ViewOK'
<1>1. UNCHANGED <<version, table, stem>> /\ SameHeads /\ Ordered'
  BY SameVersions DEF ClaimTableJob, RefuseTable, ApplyPolicy, EndJob, Die, databaseVars
<1>2. CASE EndJob(c)
  <2>1. PICK d : d \notin Call
    BY EntityPublishAssumption
  <2>2. QED
    BY <1>1, <1>2, <2>1, QuietView DEF EndJob
<1>3. CASE ClaimTableJob(c) \/ RefuseTable(c) \/ ApplyPolicy(c)
  BY <1>1, <1>3, MovesOn DEF ClaimTableJob, RefuseTable, ApplyPolicy, At, Between
<1>4. CASE Die(c)
  BY <1>1, <1>4, MovesOn DEF Die, Between
<1>5. QED
  BY <1>2, <1>3, <1>4

LEMMA EntityView ==
  ASSUME RowsInv, ViewOK, OpenVersion \/ Deprecate \/ \E v \in Versions : WriteRows(v)
  PROVE  ViewOK'
<1>1. UNCHANGED <<table, stem, call>> /\ RowsTypeOK /\ VersionsOK /\ Ordered
  BY DEF OpenVersion, Deprecate, WriteRows, databaseVars, RowsInv, ViewOK
<1>2. SameHeads /\ Ordered'
  <2>1. CASE OpenVersion
    <3>1. /\ Current \in Nat /\ Published(Current)
          /\ \A v \in Opened : v <= Current
      BY <2>1, HighestFacts, EntityPublishAssumption DEF Opened, Current, OpenVersion, Published
    <3>2. PICK n \in Versions : n = Current + 1 /\ n \notin Opened /\ Current < n
      <4>1. Current + 1 \in Versions /\ Current < Current + 1
        BY <2>1, <3>1, EntityPublishAssumption DEF Versions, OpenVersion
      <4>2. Current + 1 \notin Opened
        BY <3>1
      <4>3. QED
        BY <4>1, <4>2
    <3>3. PICK d : d = Draft(version[Current].shape)
      OBVIOUS
    <3>4. d.status = "unpublished" /\ d.present = FALSE
      BY <3>3 DEF Draft, Unopened
    <3>5. \A v \in Versions : version'[v] = IF v = n THEN d ELSE version[v]
      BY <1>1, <2>1, <3>2, <3>3 DEF OpenVersion, RowsTypeOK
    <3>6. version[n].status = "absent" /\ PresentOK(n)
      BY <3>2 DEF Opened, ViewOK
    <3>7. ~version[n].present /\ version[n].present \in BOOLEAN
      BY <1>1, <3>6 DEF PresentOK, Published, RowsTypeOK, Row
    <3>8. SameHeads
      BY <3>4, <3>5, <3>6, <3>7 DEF SameHeads, Published
    <3>9. ASSUME NEW v \in Versions, NEW w \in Versions, version'[w].status # "absent", v < w
          PROVE  Published(v)'
      <4>1. Published(v)
        <5>1. CASE w = n
          <6>1. CASE v = Current
            BY <3>1, <6>1
          <6>2. CASE v # Current
            <7>1. Current \in Opened
              <8>1. 1 \in Opened
                BY <1>1, EntityPublishAssumption DEF VersionsOK, Opened, Versions
              <8>2. QED
                BY <8>1, HighestFacts DEF Current, Opened
            <7>2. v < Current
              BY <3>1, <3>2, <3>9, <5>1, <6>2 DEF Versions
            <7>3. QED
              BY <1>1, <7>1, <7>2 DEF Ordered, Opened
          <6>3. QED
            BY <6>1, <6>2
        <5>2. CASE w # n
          BY <1>1, <3>5, <3>9, <5>2 DEF Ordered
        <5>3. QED
          BY <5>1, <5>2
      <4>2. QED
        BY <3>8, <4>1 DEF SameHeads
    <3>10. QED
      BY <3>8, <3>9 DEF Ordered
  <2>2. CASE ~OpenVersion
    BY <2>2, SameVersions DEF Deprecate, WriteRows
  <2>3. QED
    BY <2>1, <2>2
<1>3. PICK c : c \notin Call
  BY EntityPublishAssumption
<1>4. QED
  BY <1>1, <1>2, <1>3, QuietView

LEMMA ViewInit == PublishInit => ViewInv
<1> SUFFICES ASSUME PublishInit PROVE ViewOK
  BY DEF ViewInv
<1>1. /\ Unopened.status = "absent" /\ Unopened.present = FALSE
      /\ Draft(1).status = "unpublished" /\ Draft(1).present = FALSE
  BY DEF Unopened, Draft
<1>2. \A v \in Versions : /\ version[v].present = FALSE /\ ~Published(v)
                          /\ version[v].status # "absent" => v = 1
  BY <1>1 DEF PublishInit, Published
<1>3. Ordered
  BY <1>2, EntityPublishAssumption DEF Ordered, Versions
<1>4. \A v \in Versions : PresentOK(v)
  BY <1>2 DEF PresentOK
<1>5. \A c \in Call : call[c].at = "idle"
  BY DEF PublishInit, Unused
<1>6. Serving = 0
  BY <1>2, ServingFacts, EntityPublishAssumption DEF Published, Versions
<1>7. StemOK /\ \A c \in Call : Trusted(c)
  BY <1>5, <1>6 DEF StemOK, Trusted, Between, HeadTable, TablePresent, PublishInit
<1>8. QED
  BY <1>3, <1>4, <1>7 DEF ViewOK

\* What has once been torn, overwritten or done again stays so.
LEMMA HistoryStays == [PublishNext]_publishVars /\ Clean' => Clean
<1> SUFFICES ASSUME [PublishNext]_publishVars, Clean' PROVE Clean
  OBVIOUS
<1>1. CASE UNCHANGED publishVars
  BY <1>1 DEF publishVars, historyVars, Clean
<1>2. CASE OpenVersion \/ Deprecate \/ \E v \in Versions : WriteRows(v)
  BY <1>2 DEF OpenVersion, Deprecate, WriteRows, historyVars, Clean
<1>3. ASSUME NEW c \in Call,
             \/ \E v \in Opened : Request(c, v)
             \/ FindInFlight(c) \/ MintJob(c) \/ ClaimTableJob(c) \/ ExecutePublish(c)
             \/ RefuseTable(c) \/ StorePublished(c) \/ RevertTable(c) \/ ReadRollback(c)
             \/ ApplyPolicy(c) \/ ReadApplied(c) \/ ExecuteDrop(c) \/ DropTable(c) \/ EndJob(c)
      PROVE  Clean
  <2>1. UNCHANGED historyVars
    BY <1>3 DEF Request, FindInFlight, MintJob, ClaimTableJob, ExecutePublish, RefuseTable,
                StorePublished, RevertTable, ReadRollback, ApplyPolicy, ReadApplied, ExecuteDrop,
                DropTable, EndJob
  <2>2. QED
    BY <2>1 DEF historyVars, Clean
<1>4. ASSUME NEW c \in Call,
             \/ SaveAccepted(c) \/ SaveEdit(c) \/ SaveRollback(c) \/ SaveApplied(c)
             \/ StoreDropped(c)
      PROVE  Clean
  <2>1. UNCHANGED <<torn, again>> /\ overwrote' = (overwrote \/ version[call[c].of] # call[c].copy)
    BY <1>4 DEF SaveAccepted, SaveEdit, SaveRollback, SaveApplied, StoreDropped, Saves
  <2>2. QED
    BY <2>1 DEF Clean
<1>5. ASSUME NEW c \in Call, CreateTable(c) \/ RestoreView(c) \/ Die(c)
      PROVE  Clean
  <2>1. CASE CreateTable(c)
    BY <2>1 DEF CreateTable, Clean
  <2>2. CASE RestoreView(c)
    BY <2>2 DEF RestoreView, Clean
  <2>3. CASE Die(c)
    BY <2>3 DEF Die, Clean
  <2>4. QED
    BY <1>5, <2>1, <2>2, <2>3
<1>6. QED
  BY <1>1, <1>2, <1>3, <1>4, <1>5 DEF PublishNext

LEMMA ViewStep == RowsInv /\ ViewInv /\ [PublishNext]_publishVars => ViewInv'
<1> SUFFICES ASSUME RowsInv, ViewInv, [PublishNext]_publishVars, Clean' PROVE ViewOK'
  BY DEF ViewInv
<1>1. ViewOK /\ ~torn' /\ ~overwrote' /\ ~again'
  BY HistoryStays DEF ViewInv, Clean
<1>2. CASE OpenVersion \/ Deprecate \/ \E v \in Versions : WriteRows(v)
  BY <1>1, <1>2, EntityView
<1>3. ASSUME NEW c \in Call, \E v \in Opened : Request(c, v)
      PROVE  ViewOK'
  BY <1>1, <1>3, RequestView
<1>4. ASSUME NEW c \in Call,
             \/ FindInFlight(c) \/ MintJob(c)
             \/ SaveAccepted(c) \/ SaveEdit(c) \/ SaveRollback(c) \/ SaveApplied(c)
             \/ ExecutePublish(c) \/ ExecuteDrop(c) \/ ReadRollback(c) \/ ReadApplied(c)
      PROVE  ViewOK'
  BY <1>1, <1>4, RequestView, SavesView, ReadsView
<1>5. ASSUME NEW c \in Call,
             \/ CreateTable(c) \/ RestoreView(c) \/ RevertTable(c) \/ DropTable(c)
             \/ StorePublished(c) \/ StoreDropped(c)
      PROVE  ViewOK'
  BY <1>1, <1>5, CreateView, UndoView, DropView, PublishedView, DroppedView
<1>6. ASSUME NEW c \in Call,
             ClaimTableJob(c) \/ RefuseTable(c) \/ ApplyPolicy(c) \/ EndJob(c) \/ Die(c)
      PROVE  ViewOK'
  BY <1>1, <1>6, PlacesView
<1>7. CASE UNCHANGED publishVars
  <2>1. UNCHANGED <<version, table, stem, call>>
    BY <1>7 DEF publishVars, databaseVars
  <2>2. PICK c : c \notin Call
    BY EntityPublishAssumption
  <2>3. QED
    BY <1>1, <2>1, <2>2, SameVersions, QuietView
<1>8. QED
  BY <1>2, <1>3, <1>4, <1>5, <1>6, <1>7 DEF PublishNext

\* While no worker holds the lock, every version that counts as present has its
\* table in the frozen shape, no other published version has one, and the stem
\* view selects the head or nothing, in every history that was not torn,
\* overwritten or done again.
THEOREM ViewFollowsHead == PublishSpec => []ViewSelectsHead
<1>1. PublishInit => ViewInv
  BY ViewInit
<1>2. RowsInv /\ ViewInv /\ [PublishNext]_publishVars => ViewInv'
  BY ViewStep
<1>3. RowsInv /\ ViewInv => ViewSelectsHead
  <2> SUFFICES ASSUME RowsInv, ViewInv, tableLock = NoHold, Clean
               PROVE  /\ stem = HeadTable
                      /\ \A v \in Versions :
                           /\ version[v].present =>
                                version[v].status = "published" /\ table[v] = version[v].shape
                           /\ version[v].status = "published" /\ table[v] # 0 => version[v].present
    BY DEF ViewSelectsHead, Clean, HeadTable
  <2>1. \A c \in Call : call[c].at \notin Between
    BY EntityPublishAssumption DEF RowsInv, Undoable, Locked, Between
  <2>2. StemOK /\ \A v \in Versions : PresentOK(v)
    BY DEF ViewInv, ViewOK
  <2>3. QED
    BY <2>1, <2>2 DEF StemOK, PresentOK, Published, Between
<1>4. QED
  BY <1>1, <1>2, <1>3, RowsInvHolds, PTL DEF PublishSpec

-----------------------------------------------------------------------------
(* Business Entity definitions *)

BoundKeys == UNION {[ts -> Key \cup {NoKey}] : ts \in SUBSET Entity}
ShapeRow == [key : Key \cup {NoKey}, refs : SUBSET Entity, dict : BOOLEAN]
DefinitionRow == [status : {"unpublished", "publishing", "published"}, shape : ShapeRow,
                  present : BOOLEAN, bound : BoundKeys, codes : SUBSET Code]
PublishRow == [at : {"none", "frozen", "queued", "bound"}, keys : BoundKeys,
               codes : SUBSET Code, deprecated : BOOLEAN]

DefinitionsTyped ==
  /\ life \in [Entity -> {"none", "live", "deprecated", "gone"}]
  /\ versions \in [Entity -> Seq(DefinitionRow)]
  /\ dictionary \in {"live", "deprecated", "gone"}
  /\ listed \in [Code -> {"absent", "active", "inactive"}]
  /\ publish \in [Entity -> PublishRow]
  /\ author = [a \in Author \cup Editor |-> author[a]]
  /\ \A e \in Entity : versions[e] # <<>> <=> life[e] \in {"live", "deprecated"}

\* A version names what was there once, its codes are listed, and the Dictionary
\* that it names is there.
VersionFits(e, v) ==
  /\ \A t \in (v.shape.refs \cup DOMAIN v.bound) \ {e} : life[t] # "none"
  /\ v.codes \subseteq Listed /\ (v.shape.dict => dictionary # "gone")
VersionsFit == \A e \in Entity : \A i \in DOMAIN versions[e] : VersionFits(e, versions[e][i])

\* The keys that a serving head refers by.
HeadIn(vs) == SelectLastInSubSeq(vs, 1, Len(vs), LAMBDA v : v.status = "published")
ServingBound(vs) == IF HeadIn(vs) # 0 /\ vs[HeadIn(vs)].present THEN vs[HeadIn(vs)].bound ELSE Nothing
KeyOf(vs) == Last(vs).shape.key
ServingFits(e) ==
  \A t \in (DOMAIN ServingBound(versions[e]) \cap Existing) \ {e} :
     KeyOf(versions[t]) = ServingBound(versions[e])[t]

\* A publish that is accepted still fits its version, and one that is bound also
\* the keys and codes that it binds: nobody may change them until it is stored.
PublishFits(e) ==
  LET shape == CurrentOf(e).shape  p == publish[e] IN
  /\ p.at \in {"queued", "bound"} =>
       /\ versions[e] # <<>> /\ CurrentOf(e).status = "publishing"
       /\ DOMAIN p.keys = shape.refs /\ (p.codes # {} => shape.dict)
  /\ p.at = "bound" =>
       /\ p.codes \subseteq Listed
       /\ \A t \in (shape.refs \cap Existing) \ {e} : KeyOf(versions[t]) = p.keys[t]

\* What a request holds; what an acceptance froze is of the version it saw.
Submits == {"create", "patch", "open", "deprecate", "delete", "accept"}
AuthorFits(a) ==
  LET of == author[a].of  seen == author[a].seen IN
  /\ author[a].at \in Submits => of \in Entity /\ author[a].shape \in ShapeRow
  /\ author[a].at = "accept" =>
       /\ publish[of].at = "frozen" /\ seen # <<>> /\ Last(seen).status = "unpublished"
       /\ DOMAIN publish[of].keys = Last(seen).shape.refs
       /\ publish[of].codes # {} => Last(seen).shape.dict
       /\ \A b \in Author \cup Editor : author[b].at = "accept" /\ author[b].of = of => b = a

KeptDefinitions ==
  /\ DefinitionsTyped /\ VersionsFit
  /\ \A e \in Entity : ServingFits(e) /\ PublishFits(e)
  /\ \A a \in Author \cup Editor : AuthorFits(a)
DefinitionsInv == crossed \in BOOLEAN /\ (~crossed => KeptDefinitions)

-----------------------------------------------------------------------------
(* Versions *)

LEMMA GreatestOf ==
  ASSUME NEW n \in Nat, NEW S \in SUBSET (1..n), S # {}
  PROVE  Max(S) \in S /\ \A y \in S : y <= Max(S)
<1> DEFINE I == {x..n : x \in S}
<1>1. IsWellFoundedOn(StrictSubsetOrdering(Nat), FiniteSubsetsOf(Nat))
  BY FS_StrictSubsetOrderingWellFounded
<1>2. I \subseteq FiniteSubsetsOf(Nat) /\ I # {}
  <2>1. \A x \in 1..n : IsFiniteSet(x..n) /\ x..n \subseteq Nat
    BY FS_Interval
  <2>2. QED
    BY <2>1 DEF FiniteSubsetsOf
<1>3. PICK i \in I : \A j \in I : ~(<<j, i>> \in StrictSubsetOrdering(Nat))
  BY <1>1, <1>2, WFMin
<1>4. PICK x \in S : i = x..n
  BY <1>3
<1>5. ASSUME NEW y \in S PROVE x >= y
  <2>1. ~(<<y..n, x..n>> \in StrictSubsetOrdering(Nat))
    BY <1>3, <1>4
  <2>2. QED
    BY <1>4, <2>1 DEF StrictSubsetOrdering
<1>6. \E z \in S : \A y \in S : z >= y
  BY <1>5
<1>7. Max(S) \in S /\ \A y \in S : Max(S) >= y
  BY <1>6 DEF Max
<1>8. QED
  BY <1>7

PublishedIn(vs) == {i \in 1..Len(vs) : vs[i].status = "published"}

LEMMA HeadFacts ==
  ASSUME NEW vs \in Seq(DefinitionRow)
  PROVE  /\ HeadIn(vs) = IF PublishedIn(vs) = {} THEN 0 ELSE Max(PublishedIn(vs))
         /\ HeadIn(vs) # 0 => /\ HeadIn(vs) \in DOMAIN vs /\ vs[HeadIn(vs)].status = "published"
                              /\ \A i \in DOMAIN vs : i > HeadIn(vs) => vs[i].status # "published"
<1>1. HeadIn(vs) = IF PublishedIn(vs) = {} THEN 0 ELSE Max(PublishedIn(vs))
  BY DEF HeadIn, SelectLastInSubSeq, PublishedIn
<1>2. Len(vs) \in Nat /\ DOMAIN vs = 1..Len(vs) /\ PublishedIn(vs) \subseteq 1..Len(vs)
  BY DEF PublishedIn
<1>3. PublishedIn(vs) # {} => Max(PublishedIn(vs)) \in PublishedIn(vs) /\ \A i \in PublishedIn(vs) : i <= Max(PublishedIn(vs))
  BY <1>2, GreatestOf
<1>4. CASE PublishedIn(vs) = {}
  BY <1>1, <1>4
<1>5. CASE PublishedIn(vs) # {}
  <2>1. PICK h \in PublishedIn(vs) : h = HeadIn(vs) /\ \A i \in PublishedIn(vs) : i <= h
    BY <1>1, <1>3, <1>5
  <2>2. h \in DOMAIN vs /\ vs[h].status = "published"
    BY <1>2, <2>1 DEF PublishedIn
  <2>3. ASSUME NEW i \in DOMAIN vs, i > h PROVE vs[i].status # "published"
    BY <1>2, <2>1, <2>3 DEF PublishedIn
  <2>4. QED
    BY <1>1, <2>1, <2>2, <2>3
<1>6. QED
  BY <1>4, <1>5

\* The head stays where a change publishes nothing and takes nothing back.
LEMMA SameHead ==
  ASSUME NEW vs \in Seq(DefinitionRow), NEW ws \in Seq(DefinitionRow),
         PublishedIn(ws) = PublishedIn(vs),
         \A i \in PublishedIn(vs) : ws[i].present => vs[i].present /\ ws[i].bound = vs[i].bound
  PROVE  /\ HeadIn(ws) = HeadIn(vs)
         /\ ServingBound(ws) = ServingBound(vs) \/ DOMAIN ServingBound(ws) = {}
<1>1. HeadIn(ws) = HeadIn(vs)
  BY HeadFacts
<1>2. HeadIn(vs) # 0 => HeadIn(vs) \in PublishedIn(vs)
  <2>1. DOMAIN vs = 1..Len(vs)
    OBVIOUS
  <2>2. PICK h : h = HeadIn(vs)
    OBVIOUS
  <2>3. h # 0 => h \in DOMAIN vs /\ vs[h].status = "published"
    BY <2>2, HeadFacts
  <2>4. QED
    BY <2>1, <2>2, <2>3 DEF PublishedIn
<1>3. DOMAIN Nothing = {}
  BY DEF Nothing
<1>4. QED
  BY <1>1, <1>2, <1>3 DEF ServingBound

LEMMA TypedRows ==
  ASSUME DefinitionsTyped, NEW e \in Entity
  PROVE  /\ versions[e] \in Seq(DefinitionRow) /\ publish[e] \in PublishRow
         /\ (e \in Existing <=> versions[e] # <<>>) /\ CurrentOf(e) = Last(versions[e])
         /\ HeadOf(e) = HeadIn(versions[e])
         /\ versions[e] # <<>> => Last(versions[e]) \in DefinitionRow /\ Last(versions[e]).shape \in ShapeRow
         /\ Len(versions[e]) \in Nat /\ DOMAIN versions[e] = 1..Len(versions[e])
         /\ Last(versions[e]) = versions[e][Len(versions[e])]
<1>1. PICK vs \in Seq(DefinitionRow) : vs = versions[e]
  BY DEF DefinitionsTyped
<1>2. vs # <<>> => Last(vs) \in DefinitionRow
  BY DEF Last
<1>3. \A v \in DefinitionRow : v.shape \in ShapeRow
  BY DEF DefinitionRow
<1>4. QED
  BY <1>1, <1>2, <1>3 DEF DefinitionsTyped, Existing, CurrentOf, HeadOf, HeadIn, Last

\* What the check of a Business Key looks at.
LEMMA KeyFacts ==
  ASSUME DefinitionsTyped, NEW t \in Entity, NEW shape \in ShapeRow, BoundTo(t, shape) = {},
         NEW e \in Entity \ {t}, versions[e] # <<>>
  PROVE  t \notin Last(versions[e]).shape.refs /\ t \notin DOMAIN ServingBound(versions[e])
<1>1. /\ e \in Existing \ {t} /\ CurrentOf(e) = Last(versions[e]) /\ HeadOf(e) = HeadIn(versions[e])
  BY TypedRows
<1>2. t \notin CurrentOf(e).shape.refs
  BY <1>1 DEF BoundTo, Inbound
<1>3. ~(HeadOf(e) # 0 /\ versions[e][HeadOf(e)].present /\ t \in DOMAIN versions[e][HeadOf(e)].bound)
  BY <1>1 DEF BoundTo
<1>4. DOMAIN Nothing = {}
  BY DEF Nothing
<1>5. QED
  BY <1>1, <1>2, <1>3, <1>4 DEF ServingBound

LEMMA NothingServes ==
  /\ Len(<<>>) = 0 /\ DOMAIN ServingBound(<<>>) = {} /\ <<>> \in Seq(DefinitionRow)
  /\ DOMAIN Nothing = {} /\ Nothing \in BoundKeys
<1>1. <<>> \in Seq(DefinitionRow) /\ Len(<<>>) = 0 /\ PublishedIn(<<>>) = {}
  BY DEF PublishedIn
<1>2. DOMAIN Nothing = {} /\ Nothing \in [{} -> Key \cup {NoKey}]
  BY DEF Nothing
<1>3. HeadIn(<<>>) = 0
  BY <1>1, HeadFacts
<1>4. QED
  BY <1>1, <1>2, <1>3 DEF ServingBound, BoundKeys

-----------------------------------------------------------------------------
(* Frames *)

\* An entity keeps its key, or no one else uses it.
KeysAreKept(x, vs) ==
  \/ versions[x] # <<>> /\ KeyOf(vs) = KeyOf(versions[x])
  \/ \A e \in Entity \ {x} : versions[e] # <<>> =>
       x \notin Last(versions[e]).shape.refs /\ x \notin DOMAIN ServingBound(versions[e])

\* What the others are served and publish is not touched.
LEMMA OthersFit ==
  ASSUME KeptDefinitions, NEW x \in Entity, NEW vs \in Seq(DefinitionRow),
         versions' = [versions EXCEPT ![x] = vs], vs = <<>> \/ KeysAreKept(x, vs),
         NEW e \in Entity \ {x}
  PROVE  /\ ServingFits(e)'
         /\ publish'[e] = publish[e] /\ listed' = listed => PublishFits(e)'
<1>1. /\ DefinitionsTyped /\ ServingFits(e) /\ PublishFits(e)
  BY DEF KeptDefinitions
<1>2. versions'[x] = vs /\ \A t \in Entity \ {x} : versions'[t] = versions[t]
  BY <1>1 DEF DefinitionsTyped
<1>3. \A t \in Entity : t \in Existing' <=> versions'[t] # <<>>
  BY DEF Existing
<1>4. \A t \in Entity : t \in Existing <=> versions[t] # <<>>
  BY DEF Existing
<1>5. ServingFits(e)'
  <2>1. SUFFICES ASSUME NEW t \in DOMAIN ServingBound(versions[e]), t \in Entity, t \in Existing', t # e
                 PROVE  KeyOf(versions'[t]) = ServingBound(versions[e])[t]
    BY <1>2 DEF ServingFits, Existing
  <2>2. CASE t # x
    BY <1>1, <1>2, <1>3, <1>4, <2>1, <2>2 DEF ServingFits
  <2>3. CASE t = x
    <3>1. versions[e] # <<>>
      BY <2>1, NothingServes
    <3>2. versions[x] # <<>> /\ KeyOf(vs) = KeyOf(versions[x])
      BY <1>2, <1>3, <2>1, <2>3, <3>1 DEF KeysAreKept
    <3>3. QED
      BY <1>1, <1>2, <1>4, <2>1, <2>3, <3>2 DEF ServingFits
  <2>4. QED
    BY <2>2, <2>3
<1>6. ASSUME publish'[e] = publish[e], listed' = listed PROVE PublishFits(e)'
  <2>1. CurrentOf(e)' = CurrentOf(e) /\ CurrentOf(e) = Last(versions[e]) /\ Listed' = Listed
    BY <1>2, <1>6 DEF CurrentOf, Listed
  <2>2. ASSUME publish[e].at = "bound", NEW t \in (Last(versions[e]).shape.refs \cap Existing') \ {e}
        PROVE  KeyOf(versions'[t]) = publish[e].keys[t]
    <3>1. versions[e] # <<>> /\ t \in Entity
      BY <1>1, <2>2 DEF PublishFits, Existing
    <3>2. CASE t # x
      BY <1>1, <1>2, <1>3, <1>4, <2>1, <2>2, <3>1, <3>2 DEF PublishFits
    <3>3. CASE t = x
      <4>1. versions[x] # <<>> /\ KeyOf(vs) = KeyOf(versions[x])
        BY <1>2, <1>3, <2>2, <3>1, <3>3 DEF KeysAreKept
      <4>2. QED
        BY <1>1, <1>2, <1>4, <2>1, <2>2, <3>3, <4>1 DEF PublishFits
    <3>4. QED
      BY <3>2, <3>3
  <2>3. QED
    BY <1>1, <1>2, <1>6, <2>1, <2>2 DEF PublishFits
<1>7. QED
  BY <1>5, <1>6

\* Nor is what an entity is served whose head stays or serves nothing.
LEMMA OwnServes ==
  ASSUME KeptDefinitions, NEW x \in Entity, NEW vs,
         versions' = [versions EXCEPT ![x] = vs],
         ServingBound(vs) = ServingBound(versions[x]) \/ DOMAIN ServingBound(vs) = {}
  PROVE  ServingFits(x)'
<1>1. DefinitionsTyped /\ ServingFits(x)
  BY DEF KeptDefinitions
<1>2. versions'[x] = vs /\ \A t \in Entity \ {x} : versions'[t] = versions[t]
  BY <1>1 DEF DefinitionsTyped
<1>3. QED
  BY <1>1, <1>2 DEF ServingFits, Existing

\* A change of one entity, its versions and its publish.
LEMMA DefinitionsChange ==
  ASSUME KeptDefinitions, NEW x \in Entity, NEW vs \in Seq(DefinitionRow),
         versions' = [versions EXCEPT ![x] = vs], vs = <<>> \/ KeysAreKept(x, vs),
         ServingFits(x)', PublishFits(x)',
         publish' \in [Entity -> PublishRow], \A e \in Entity \ {x} : publish'[e] = publish[e],
         UNCHANGED <<dictionary, listed>>,
         life' \in [Entity -> {"none", "live", "deprecated", "gone"}],
         \A e \in Entity \ {x} : life'[e] = life[e],
         life'[x] # "none", vs # <<>> <=> life'[x] \in {"live", "deprecated"},
         \A i \in DOMAIN vs : VersionFits(x, vs[i])',
         author' = [a \in Author \cup Editor |-> author'[a]],
         \A a \in Author \cup Editor : AuthorFits(a)'
  PROVE  KeptDefinitions'
<1>1. DefinitionsTyped /\ VersionsFit
  BY DEF KeptDefinitions
<1>2. versions'[x] = vs /\ \A t \in Entity \ {x} : versions'[t] = versions[t]
  BY <1>1 DEF DefinitionsTyped
<1>3. DefinitionsTyped'
  <2>1. versions' \in [Entity -> Seq(DefinitionRow)]
    BY <1>1 DEF DefinitionsTyped
  <2>2. \A e \in Entity : versions'[e] # <<>> <=> life'[e] \in {"live", "deprecated"}
    BY <1>1, <1>2 DEF DefinitionsTyped
  <2>3. QED
    BY <1>1, <2>1, <2>2 DEF DefinitionsTyped
<1>4. VersionsFit'
  <2>1. ASSUME NEW e \in Entity \ {x}, NEW i \in DOMAIN versions[e] PROVE VersionFits(e, versions[e][i])'
    <3>1. PICK vs0 \in Seq(DefinitionRow) : vs0 = versions[e]
      BY <1>1 DEF DefinitionsTyped
    <3>2. PICK v \in DefinitionRow : v = versions[e][i]
      BY <2>1, <3>1
    <3>3. VersionFits(e, v) /\ versions'[e][i] = v
      BY <1>1, <1>2, <2>1, <3>2 DEF VersionsFit
    <3>4. \A t \in Entity : life[t] # "none" => life'[t] # "none"
      BY <1>1
    <3>5. v.shape.refs \subseteq Entity /\ DOMAIN v.bound \subseteq Entity
      BY DEF DefinitionRow, ShapeRow, BoundKeys
    <3>6. QED
      BY <3>3, <3>4, <3>5 DEF VersionFits, Listed
  <2>2. QED
    BY <1>2, <2>1 DEF VersionsFit
<1>5. \A e \in Entity : ServingFits(e)' /\ PublishFits(e)'
  BY OthersFit
<1>6. QED
  BY <1>3, <1>4, <1>5 DEF KeptDefinitions

\* A request ends, or none does; what the other acceptances froze stays.
LEMMA AuthorsFit ==
  ASSUME KeptDefinitions, NEW a \in Author \cup Editor,
         author' = author \/ author' = [author EXCEPT ![a] = Free],
         \A e \in Entity : publish[e].at = "frozen" =>
            \/ publish'[e] = publish[e]
            \/ author[a].at = "accept" /\ author[a].of = e /\ author' # author
  PROVE  /\ author' = [b \in Author \cup Editor |-> author'[b]]
         /\ \A b \in Author \cup Editor : AuthorFits(b)'
<1>1. author = [b \in Author \cup Editor |-> author[b]]
  BY DEF KeptDefinitions, DefinitionsTyped
<1>2. author' = [b \in Author \cup Editor |-> author'[b]]
  BY <1>1
<1>3. Free.at = "idle" /\ "idle" \notin Submits /\ "accept" \in Submits
  BY DEF Free, Submits
<1>4. ASSUME NEW b \in Author \cup Editor PROVE AuthorFits(b)'
  <2>1. CASE author'[b] = Free
    BY <1>3, <2>1 DEF AuthorFits
  <2>2. CASE author'[b] # Free
    <3>1. author'[b] = author[b] /\ (b = a => author' = author)
      BY <1>1, <2>2
    <3>2. AuthorFits(b) /\ AuthorFits(a)
      BY DEF KeptDefinitions
    <3>3. author[b].at = "accept" => author[b].of \in Entity /\ publish'[author[b].of] = publish[author[b].of]
      BY <1>3, <3>1, <3>2 DEF AuthorFits
    <3>4. \A d \in Author \cup Editor : author'[d].at = "accept" => author'[d] = author[d]
      BY <1>1, <1>3
    <3>5. QED
      BY <3>1, <3>2, <3>3, <3>4 DEF AuthorFits
  <2>3. QED
    BY <2>1, <2>2
<1>5. QED
  BY <1>2, <1>4

\* The Dictionary changes, or only the requests do.
LEMMA DictionaryChange ==
  ASSUME KeptDefinitions, UNCHANGED <<life, versions, publish>>,
         dictionary' \in {"live", "deprecated", "gone"},
         listed' \in [Code -> {"absent", "active", "inactive"}],
         \A e \in Entity : \A i \in DOMAIN versions[e] :
            /\ versions[e][i].codes \subseteq Listed'
            /\ versions[e][i].shape.dict => dictionary' # "gone",
         \A e \in Entity : publish[e].at = "bound" => publish[e].codes \subseteq Listed',
         author' = [a \in Author \cup Editor |-> author'[a]],
         \A a \in Author \cup Editor : AuthorFits(a)'
  PROVE  KeptDefinitions'
<1>1. DefinitionsTyped' /\ VersionsFit'
  BY DEF KeptDefinitions, DefinitionsTyped, VersionsFit, VersionFits
<1>2. ASSUME NEW e \in Entity PROVE ServingFits(e)' /\ PublishFits(e)'
  <2>1. ServingFits(e) /\ PublishFits(e)
    BY DEF KeptDefinitions
  <2>2. Existing' = Existing /\ CurrentOf(e)' = CurrentOf(e)
    BY DEF Existing, CurrentOf
  <2>3. QED
    BY <2>1, <2>2 DEF ServingFits, PublishFits
<1>3. QED
  BY <1>1, <1>2 DEF KeptDefinitions

\* The codes and the Dictionary that the versions name are there.
LEMMA CodesFit ==
  ASSUME KeptDefinitions
  PROVE  /\ \A e \in Entity : \A i \in DOMAIN versions[e] :
              /\ versions[e][i].codes \subseteq Listed
              /\ versions[e][i].shape.dict => dictionary # "gone"
         /\ \A e \in Entity : publish[e].at = "bound" => publish[e].codes \subseteq Listed
BY DEF KeptDefinitions, VersionsFit, VersionFits, PublishFits

\* What is published stays so where a publish is not under way.
LEMMA NotPublishing ==
  ASSUME KeptDefinitions, NEW x \in Entity, ~PublishingOf(x), publish'[x] = publish[x]
  PROVE  PublishFits(x)'
<1>1. PublishFits(x) /\ DefinitionsTyped
  BY DEF KeptDefinitions
<1>2. ASSUME publish[x].at \in {"queued", "bound"} PROVE FALSE
  <2>1. versions[x] # <<>> /\ Last(versions[x]).status = "publishing"
    BY <1>1, <1>2 DEF PublishFits, CurrentOf
  <2>2. Len(versions[x]) \in DOMAIN versions[x] /\ Last(versions[x]) = versions[x][Len(versions[x])]
    <3>1. PICK vs \in Seq(DefinitionRow) : vs = versions[x]
      BY <1>1, TypedRows
    <3>2. QED
      BY <2>1, <3>1 DEF Last
  <2>3. QED
    BY <2>1, <2>2 DEF PublishingOf
<1>3. QED
  BY <1>2 DEF PublishFits

\* Nor where the current version keeps its definition and its status.
LEMMA SamePublish ==
  ASSUME KeptDefinitions, NEW x \in Entity, NEW vs \in Seq(DefinitionRow), vs # <<>>,
         versions' = [versions EXCEPT ![x] = vs],
         Last(vs).shape = Last(versions[x]).shape, Last(vs).status = Last(versions[x]).status,
         publish'[x] = publish[x], listed' = listed
  PROVE  PublishFits(x)'
<1>1. PublishFits(x) /\ DefinitionsTyped
  BY DEF KeptDefinitions
<1>2. versions'[x] = vs /\ \A t \in Entity \ {x} : versions'[t] = versions[t]
  BY <1>1 DEF DefinitionsTyped
<1>3. CurrentOf(x)' = Last(vs) /\ CurrentOf(x) = Last(versions[x]) /\ Listed' = Listed
  BY <1>2 DEF CurrentOf, Listed
<1>4. QED
  BY <1>1, <1>2, <1>3 DEF PublishFits, Existing

\* A key that is checked is kept, or no one else uses it.
LEMMA StableKeeps ==
  ASSUME DefinitionsTyped, NEW x \in Entity, NEW shape \in ShapeRow, NEW vs,
         Last(vs).shape = shape, versions[x] # <<>>, KeyIsStable(x, CurrentOf(x).shape.key, shape)
  PROVE  KeysAreKept(x, vs)
<1>1. CASE BoundTo(x, shape) = {}
  BY <1>1, KeyFacts DEF KeysAreKept
<1>2. CASE CurrentOf(x).shape.key = shape.key
  BY <1>2 DEF KeysAreKept, KeyOf, CurrentOf
<1>3. QED
  BY <1>1, <1>2 DEF KeyIsStable

\* No one refers to what was never created.
LEMMA NewIsUnknown ==
  ASSUME KeptDefinitions, NEW x \in Entity, life[x] = "none", NEW e \in Entity \ {x}, versions[e] # <<>>
  PROVE  x \notin Last(versions[e]).shape.refs /\ x \notin DOMAIN ServingBound(versions[e])
<1>1. DefinitionsTyped /\ VersionsFit
  BY DEF KeptDefinitions
<1>2. PICK vs \in Seq(DefinitionRow) : vs = versions[e]
  BY <1>1, TypedRows
<1>3. \A i \in DOMAIN vs : x \notin vs[i].shape.refs /\ x \notin DOMAIN vs[i].bound
  BY <1>1, <1>2 DEF VersionsFit, VersionFits
<1>4. Last(vs) = vs[Len(vs)] /\ Len(vs) \in DOMAIN vs
  BY <1>2 DEF Last
<1>5. HeadIn(vs) # 0 => HeadIn(vs) \in DOMAIN vs
  BY HeadFacts
<1>6. QED
  BY <1>2, <1>3, <1>4, <1>5, NothingServes DEF ServingBound

-----------------------------------------------------------------------------
(* Steps *)

\* What the writes have in common.
LEMMA WriteFacts ==
  ASSUME DefinitionsTyped, NEW a \in Author \cup Editor, AuthorFits(a),
         author[a].at \in Submits \ {"accept"}, ~Late(a)
  PROVE  /\ author[a].of \in Entity /\ author[a].shape \in ShapeRow
         /\ author[a].seen = versions[author[a].of]
         /\ Admits(author[a].at, author[a].of, author[a].shape)
BY DEF AuthorFits, Late

LEMMA WritableFits ==
  ASSUME DefinitionsTyped, NEW x \in Entity, NEW shape \in ShapeRow, NEW previous,
         Writable(x, shape, previous), NEW row \in DefinitionRow, row.shape = shape,
         \A t \in DOMAIN row.bound \ {x} : life[t] # "none", row.codes \subseteq Listed,
         \A t \in Entity \ {x} : life'[t] = life[t], UNCHANGED <<dictionary, listed>>
  PROVE  VersionFits(x, row)'
<1>1. \A t \in shape.refs \ {x} : life[t] # "none"
  BY DEF Writable
<1>2. shape.dict => dictionary # "gone"
  BY DEF Writable
<1>3. shape.refs \subseteq Entity /\ DOMAIN row.bound \subseteq Entity
  BY DEF ShapeRow, DefinitionRow, BoundKeys
<1>4. QED
  BY <1>1, <1>2, <1>3 DEF VersionFits, Listed

LEMMA VersionRow ==
  ASSUME NEW shape \in ShapeRow
  PROVE  /\ Version(shape) \in DefinitionRow /\ Version(shape).shape = shape
         /\ Version(shape).status = "unpublished"
         /\ Version(shape).codes = {} /\ DOMAIN Version(shape).bound = {}
BY NothingServes DEF Version, DefinitionRow

WithRow(ws, n, row) == [ws EXCEPT ![n] = row]

IsWithRow(vs, ws, n, row) ==
  /\ vs \in Seq(DefinitionRow) /\ vs # <<>> /\ Len(vs) = Len(ws) /\ DOMAIN vs = 1..Len(ws)
  /\ vs[n] = row /\ Last(vs) = vs[Len(ws)]
  /\ \A i \in 1..Len(ws) : i # n => vs[i] = ws[i]

LEMMA Replaced ==
  ASSUME NEW ws \in Seq(DefinitionRow), NEW n \in 1..Len(ws), NEW row \in DefinitionRow
  PROVE  IsWithRow(WithRow(ws, n, row), ws, n, row)
<1>1. PICK vs : vs = WithRow(ws, n, row)
  OBVIOUS
<1>2. /\ vs \in Seq(DefinitionRow) /\ Len(vs) = Len(ws)
      /\ \A j \in 1..Len(ws) : vs[j] = IF j = n THEN row ELSE ws[j]
  BY <1>1, ExceptSeq DEF WithRow
<1>3. Len(ws) \in Nat /\ DOMAIN vs = 1..Len(vs) /\ Len(<<>>) = 0
  BY <1>2
<1>4. vs # <<>>
  BY <1>2, <1>3
<1>5. IsWithRow(vs, ws, n, row)
  BY <1>2, <1>3, <1>4 DEF Last, IsWithRow
<1>6. QED
  BY <1>1, <1>5

LEMMA CreateKeeps ==
  ASSUME KeptDefinitions, NEW a \in Author \cup Editor, SaveCreate(a), ~Late(a)
  PROVE  KeptDefinitions'
<1>1. DefinitionsTyped /\ AuthorFits(a)
  BY DEF KeptDefinitions
<1>2. /\ author[a].at = "create" /\ author' = [author EXCEPT ![a] = Free]
      /\ UNCHANGED <<dictionary, listed, publish>>
  BY DEF SaveCreate, Requested, Writes
<1>3. PICK x \in Entity, shape \in ShapeRow :
         /\ x = author[a].of /\ shape = author[a].shape /\ Admits("create", x, shape)
  BY <1>1, <1>2, WriteFacts DEF Submits
<1>4. life[x] = "none" /\ Writable(x, shape, Blank)
  BY <1>3 DEF Admits
<1>5. PICK vs \in Seq(DefinitionRow) : vs = <<Version(shape)>>
  <2>1. PICK v \in DefinitionRow : v = Version(shape)
    BY VersionRow
  <2>2. <<v>> \in Seq(DefinitionRow)
    OBVIOUS
  <2>3. QED
    BY <2>1, <2>2
<1>6. life' = [life EXCEPT ![x] = "live"] /\ versions' = [versions EXCEPT ![x] = vs]
  BY <1>3, <1>4, <1>5 DEF SaveCreate
<1>7. versions[x] = <<>> /\ ~PublishingOf(x)
  BY <1>1, <1>4 DEF DefinitionsTyped, PublishingOf
<1>8. KeysAreKept(x, vs)
  BY <1>4, NewIsUnknown DEF KeysAreKept
<1>9. ServingFits(x)'
  <2>1. PublishedIn(vs) = {} /\ PublishedIn(<<>>) = {}
    BY <1>5, VersionRow DEF PublishedIn
  <2>2. DOMAIN ServingBound(vs) = {}
    BY <2>1, HeadFacts, NothingServes DEF ServingBound
  <2>3. QED
    BY <1>6, <2>2, OwnServes
<1>10. PublishFits(x)'
  BY <1>2, <1>7, NotPublishing
<1>11. \A i \in DOMAIN vs : VersionFits(x, vs[i])'
  <2>1. \A t \in Entity \ {x} : life'[t] = life[t]
    BY <1>1, <1>6 DEF DefinitionsTyped
  <2>2. VersionFits(x, Version(shape))'
    BY <1>1, <1>2, <1>4, <2>1, VersionRow, WritableFits
  <2>3. QED
    BY <1>5, <2>2
<1>12. /\ author' = [b \in Author \cup Editor |-> author'[b]]
       /\ \A b \in Author \cup Editor : AuthorFits(b)'
  BY <1>2, AuthorsFit
<1>13. /\ life' \in [Entity -> {"none", "live", "deprecated", "gone"}] /\ life'[x] = "live"
       /\ \A e \in Entity \ {x} : life'[e] = life[e]
  BY <1>1, <1>6 DEF DefinitionsTyped
<1>14. vs # <<>> /\ publish' \in [Entity -> PublishRow]
  BY <1>1, <1>2, <1>5 DEF DefinitionsTyped
<1>15. QED
  BY <1>2, <1>6, <1>8, <1>9, <1>10, <1>11, <1>12, <1>13, <1>14, DefinitionsChange

LEMMA PatchKeeps ==
  ASSUME KeptDefinitions, NEW a \in Author \cup Editor, SavePatch(a), ~Late(a)
  PROVE  KeptDefinitions'
<1>1. DefinitionsTyped /\ VersionsFit /\ AuthorFits(a)
  BY DEF KeptDefinitions
<1>2. /\ author[a].at = "patch" /\ author' = [author EXCEPT ![a] = Free]
      /\ UNCHANGED <<life, dictionary, listed, publish>>
  BY DEF SavePatch, Requested, Writes
<1>3. PICK x \in Entity, shape \in ShapeRow :
         /\ x = author[a].of /\ shape = author[a].shape /\ author[a].seen = versions[x]
         /\ Admits("patch", x, shape)
  BY <1>1, <1>2, WriteFacts DEF Submits
<1>4. /\ life[x] = "live" /\ ~PublishingOf(x) /\ CurrentOf(x).status = "unpublished"
      /\ Writable(x, shape, CurrentOf(x).shape)
  BY <1>3 DEF Admits, Authoring
<1>5. PICK ws \in Seq(DefinitionRow) : ws = versions[x] /\ ws # <<>>
  BY <1>1, <1>4 DEF DefinitionsTyped
<1>6. PICK old \in DefinitionRow : old = Last(ws) /\ old = ws[Len(ws)] /\ old = CurrentOf(x) /\ Len(ws) \in 1..Len(ws)
  BY <1>5 DEF Last, CurrentOf
<1>7. PICK row \in DefinitionRow : /\ row = [old EXCEPT !.shape = shape] /\ row.shape = shape
                                   /\ row.status = "unpublished" /\ row.bound = old.bound /\ row.codes = old.codes
  <2>1. PICK row : row = [old EXCEPT !.shape = shape]
    OBVIOUS
  <2>2. row \in DefinitionRow
    BY <2>1 DEF DefinitionRow
  <2>3. row.shape = shape /\ row.status = old.status /\ row.bound = old.bound /\ row.codes = old.codes
    BY <2>1 DEF DefinitionRow
  <2>4. QED
    BY <1>4, <1>6, <2>1, <2>2, <2>3
<1>9. PICK vs \in Seq(DefinitionRow) :
         /\ vs = WithRow(ws, Len(ws), row) /\ vs # <<>> /\ Len(vs) = Len(ws) /\ DOMAIN vs = 1..Len(ws)
         /\ vs[Len(ws)] = row /\ (\A i \in 1..Len(ws) : i # Len(ws) => vs[i] = ws[i])
         /\ Last(vs) = row
  <2>1. IsWithRow(WithRow(ws, Len(ws), row), ws, Len(ws), row)
    BY <1>5, <1>6, <1>7, Replaced
  <2>2. QED
    BY <2>1 DEF IsWithRow
<1>10. versions' = [versions EXCEPT ![x] = vs]
  BY <1>1, <1>3, <1>5, <1>6, <1>7, <1>9 DEF SavePatch, DefinitionsTyped, Existing, WithRow
<1>11. KeysAreKept(x, vs)
  <2>1. KeyIsStable(x, CurrentOf(x).shape.key, shape)
    BY <1>4 DEF Writable
  <2>2. Last(vs).shape = shape /\ versions[x] # <<>>
    BY <1>5, <1>7, <1>9
  <2>3. QED
    BY <1>1, <2>1, <2>2, StableKeeps
<1>12. ServingFits(x)'
  <2>1. PublishedIn(vs) = PublishedIn(ws)
    <3>1. ws[Len(ws)].status = "unpublished"
      BY <1>4, <1>6
    <3>2. \A i \in 1..Len(ws) : vs[i].status = "published" <=> ws[i].status = "published"
      BY <1>7, <1>9, <3>1
    <3>3. QED
      BY <1>9, <3>2 DEF PublishedIn
  <2>2. \A i \in PublishedIn(ws) : vs[i] = ws[i]
    BY <1>4, <1>6, <1>9 DEF PublishedIn
  <2>3. ServingBound(vs) = ServingBound(ws) \/ DOMAIN ServingBound(vs) = {}
    BY <2>1, <2>2, SameHead
  <2>4. QED
    BY <1>5, <1>10, <2>3, OwnServes
<1>13. PublishFits(x)'
  BY <1>2, <1>4, NotPublishing
<1>14. \A i \in DOMAIN vs : VersionFits(x, vs[i])'
  <2>1. ASSUME NEW i \in 1..Len(ws), i # Len(ws) PROVE VersionFits(x, vs[i])'
    BY <1>1, <1>2, <1>5, <1>9, <2>1 DEF VersionsFit, VersionFits, Listed
  <2>2. VersionFits(x, row)'
    <3>1. VersionFits(x, old)
      <4>1. Len(ws) \in DOMAIN versions[x] /\ old = versions[x][Len(ws)]
        BY <1>5, <1>6
      <4>2. QED
        BY <1>1, <4>1 DEF VersionsFit
    <3>2. QED
      BY <1>1, <1>2, <1>4, <1>7, <3>1, WritableFits DEF VersionFits
  <2>3. QED
    BY <1>9, <2>1, <2>2
<1>15. /\ author' = [b \in Author \cup Editor |-> author'[b]]
       /\ \A b \in Author \cup Editor : AuthorFits(b)'
  BY <1>2, AuthorsFit
<1>16. /\ life' \in [Entity -> {"none", "live", "deprecated", "gone"}] /\ life'[x] = "live"
       /\ publish' \in [Entity -> PublishRow]
  BY <1>1, <1>2, <1>4 DEF DefinitionsTyped
<1>17. QED
  BY <1>2, <1>9, <1>10, <1>11, <1>12, <1>13, <1>14, <1>15, <1>16, DefinitionsChange

IsAppended(vs, ws, row) ==
  /\ vs \in Seq(DefinitionRow) /\ vs # <<>> /\ DOMAIN vs = 1..Len(ws) + 1
  /\ vs[Len(ws) + 1] = row /\ Last(vs) = row
  /\ \A i \in 1..Len(ws) : vs[i] = ws[i]

LEMMA AppendedFacts ==
  ASSUME NEW ws \in Seq(DefinitionRow), NEW row \in DefinitionRow
  PROVE  IsAppended(Append(ws, row), ws, row)
<1>1. PICK vs : vs = Append(ws, row)
  OBVIOUS
<1>2. /\ vs \in Seq(DefinitionRow) /\ Len(vs) = Len(ws) + 1 /\ vs[Len(ws) + 1] = row
      /\ \A j \in 1..Len(ws) : vs[j] = ws[j]
  BY <1>1
<1>3. Len(ws) \in Nat /\ DOMAIN vs = 1..Len(vs) /\ Len(<<>>) = 0
  BY <1>2
<1>4. vs # <<>>
  BY <1>2, <1>3
<1>5. IsAppended(vs, ws, row)
  BY <1>2, <1>3, <1>4 DEF Last, IsAppended
<1>6. QED
  BY <1>1, <1>5

LEMMA OpenKeeps ==
  ASSUME KeptDefinitions, NEW a \in Author \cup Editor, SaveOpen(a), ~Late(a)
  PROVE  KeptDefinitions'
<1>1. DefinitionsTyped /\ VersionsFit /\ AuthorFits(a)
  BY DEF KeptDefinitions
<1>2. /\ author[a].at = "open" /\ author' = [author EXCEPT ![a] = Free]
      /\ UNCHANGED <<life, dictionary, listed, publish>>
  BY DEF SaveOpen, Requested, Writes
<1>3. PICK x \in Entity, shape \in ShapeRow :
         /\ x = author[a].of /\ shape = author[a].shape /\ author[a].seen = versions[x]
         /\ Admits("open", x, shape)
  BY <1>1, <1>2, WriteFacts DEF Submits
<1>4. /\ life[x] = "live" /\ ~PublishingOf(x) /\ CurrentOf(x).status = "published"
      /\ Unchanged(x, shape) \/ Writable(x, shape, CurrentOf(x).shape)
  BY <1>3 DEF Admits, Authoring
<1>5. PICK ws \in Seq(DefinitionRow) : ws = versions[x] /\ ws # <<>>
  BY <1>1, <1>4 DEF DefinitionsTyped
<1>6. PICK old \in DefinitionRow : old = Last(ws) /\ old = ws[Len(ws)] /\ old = CurrentOf(x) /\ Len(ws) \in 1..Len(ws)
  BY <1>5 DEF Last, CurrentOf
<1>7. PICK row \in DefinitionRow : /\ row = Version(shape) /\ row.shape = shape /\ row.status = "unpublished"
                                   /\ row.codes = {} /\ DOMAIN row.bound = {}
  BY <1>3, VersionRow
<1>8. PICK vs : vs = Append(ws, row)
  OBVIOUS
<1>9. /\ vs \in Seq(DefinitionRow) /\ vs # <<>> /\ DOMAIN vs = 1..Len(ws) + 1
      /\ vs[Len(ws) + 1] = row /\ Last(vs) = row
      /\ \A i \in 1..Len(ws) : vs[i] = ws[i]
  <2>1. IsAppended(Append(ws, row), ws, row)
    BY <1>5, <1>7, AppendedFacts
  <2>2. QED
    BY <1>8, <2>1 DEF IsAppended
<1>10. versions' = [versions EXCEPT ![x] = vs]
  BY <1>1, <1>3, <1>5, <1>7, <1>8 DEF SaveOpen, DefinitionsTyped
\* A copy of the head is a copy of the current version.
<1>11. Unchanged(x, shape) => shape = old.shape /\ VersionFits(x, row)'
  <2>1. HeadIn(ws) = Len(ws)
    <3>1. PICK h : h = HeadIn(ws)
      OBVIOUS
    <3>2. h # 0 => h \in 1..Len(ws) /\ \A i \in 1..Len(ws) : i > h => ws[i].status # "published"
      BY <1>5, <3>1, HeadFacts
    <3>3. h # 0
      <4>1. Len(ws) \in PublishedIn(ws)
        BY <1>4, <1>6 DEF PublishedIn
      <4>2. Max(PublishedIn(ws)) \in PublishedIn(ws)
        <5>1. Len(ws) \in Nat /\ PublishedIn(ws) \in SUBSET (1..Len(ws)) /\ PublishedIn(ws) # {}
          BY <1>5, <4>1 DEF PublishedIn
        <5>2. QED
          BY <5>1, GreatestOf
      <4>3. QED
        BY <1>5, <1>6, <3>1, <4>1, <4>2, HeadFacts DEF PublishedIn
    <3>4. ~(Len(ws) > h)
      BY <1>4, <1>6, <3>2, <3>3
    <3>5. Len(ws) \in Nat
      BY <1>5
    <3>6. QED
      BY <3>1, <3>2, <3>3, <3>4, <3>5
  <2>2. ASSUME Unchanged(x, shape) PROVE shape = old.shape /\ (shape.dict => dictionary # "gone")
    BY <1>1, <1>5, <1>6, <2>1, <2>2, TypedRows DEF Unchanged
  <2>3. VersionFits(x, old)
    <3>1. Len(ws) \in DOMAIN versions[x] /\ old = versions[x][Len(ws)]
      BY <1>5, <1>6
    <3>2. QED
      BY <1>1, <3>1 DEF VersionsFit
  <2>4. QED
    BY <1>2, <1>7, <2>2, <2>3 DEF VersionFits
<1>12. Writable(x, shape, CurrentOf(x).shape) => VersionFits(x, row)'
  BY <1>1, <1>2, <1>3, <1>7, WritableFits
<1>13. KeysAreKept(x, vs)
  <2>1. KeyIsStable(x, CurrentOf(x).shape.key, shape)
    BY <1>4, <1>6, <1>11 DEF Writable, KeyIsStable
  <2>2. Last(vs).shape = shape /\ versions[x] # <<>>
    BY <1>5, <1>7, <1>9
  <2>3. QED
    BY <1>1, <1>3, <2>1, <2>2, StableKeeps
<1>14. ServingFits(x)'
  <2>1. PublishedIn(vs) = PublishedIn(ws)
    <3>1. Len(ws) \in Nat /\ Len(vs) = Len(ws) + 1
      BY <1>5, <1>9
    <3>2. QED
      BY <1>7, <1>9, <3>1 DEF PublishedIn
  <2>2. \A i \in PublishedIn(ws) : vs[i] = ws[i]
    BY <1>9 DEF PublishedIn
  <2>3. ServingBound(vs) = ServingBound(ws) \/ DOMAIN ServingBound(vs) = {}
    BY <1>5, <1>9, <2>1, <2>2, SameHead
  <2>4. QED
    BY <1>5, <1>10, <2>3, OwnServes
<1>15. PublishFits(x)'
  BY <1>2, <1>4, NotPublishing
<1>16. \A i \in DOMAIN vs : VersionFits(x, vs[i])'
  <2>1. ASSUME NEW i \in 1..Len(ws) PROVE VersionFits(x, vs[i])'
    BY <1>1, <1>2, <1>5, <1>9, <2>1 DEF VersionsFit, VersionFits, Listed
  <2>2. VersionFits(x, row)'
    BY <1>4, <1>11, <1>12
  <2>3. QED
    <3>1. \A i \in DOMAIN vs : i \in 1..Len(ws) \/ i = Len(ws) + 1
      BY <1>5, <1>9
    <3>2. QED
      BY <1>9, <2>1, <2>2, <3>1
<1>17. /\ author' = [b \in Author \cup Editor |-> author'[b]]
       /\ \A b \in Author \cup Editor : AuthorFits(b)'
  BY <1>2, AuthorsFit
<1>18. /\ life' \in [Entity -> {"none", "live", "deprecated", "gone"}] /\ life'[x] = "live"
       /\ publish' \in [Entity -> PublishRow]
  BY <1>1, <1>2, <1>4 DEF DefinitionsTyped
<1>19. QED
  BY <1>2, <1>9, <1>10, <1>13, <1>14, <1>15, <1>16, <1>17, <1>18, DefinitionsChange

LEMMA DeprecateKeeps ==
  ASSUME KeptDefinitions, NEW a \in Author \cup Editor, SaveDeprecate(a), ~Late(a)
  PROVE  KeptDefinitions'
<1>1. DefinitionsTyped /\ VersionsFit /\ AuthorFits(a)
  BY DEF KeptDefinitions
<1>2. /\ author[a].at = "deprecate" /\ author' = [author EXCEPT ![a] = Free]
      /\ UNCHANGED <<versions, dictionary, listed, publish>>
  BY DEF SaveDeprecate, Requested, Writes
<1>3. PICK x \in Entity : x = author[a].of /\ life[x] = "live"
  BY <1>1, <1>2, WriteFacts DEF Submits, Admits, Authoring
<1>4. PICK vs \in Seq(DefinitionRow) : vs = versions[x] /\ vs # <<>>
  BY <1>1, <1>3 DEF DefinitionsTyped
<1>5. versions' = [versions EXCEPT ![x] = vs]
  BY <1>1, <1>2, <1>4 DEF DefinitionsTyped
<1>6. /\ life' \in [Entity -> {"none", "live", "deprecated", "gone"}] /\ life'[x] = "deprecated"
      /\ \A e \in Entity \ {x} : life'[e] = life[e]
      /\ publish' \in [Entity -> PublishRow]
  BY <1>1, <1>2, <1>3 DEF DefinitionsTyped, SaveDeprecate
<1>7. KeysAreKept(x, vs)
  BY <1>4 DEF KeysAreKept
<1>8. ServingFits(x)'
  BY <1>4, <1>5, OwnServes
<1>9. PublishFits(x)'
  BY <1>2, <1>4, <1>5, SamePublish
<1>10. \A i \in DOMAIN vs : VersionFits(x, vs[i])'
  <2>1. ASSUME NEW i \in DOMAIN vs PROVE VersionFits(x, vs[i])'
    <3>1. PICK v \in DefinitionRow : v = vs[i]
      BY <1>4, <2>1
    <3>2. VersionFits(x, v)
      BY <1>1, <1>4, <2>1, <3>1 DEF VersionsFit
    <3>3. v.shape.refs \subseteq Entity /\ DOMAIN v.bound \subseteq Entity
      BY DEF DefinitionRow, ShapeRow, BoundKeys
    <3>4. QED
      BY <1>2, <1>6, <3>1, <3>2, <3>3 DEF VersionFits, Listed
  <2>2. QED
    BY <2>1
<1>11. /\ author' = [b \in Author \cup Editor |-> author'[b]]
       /\ \A b \in Author \cup Editor : AuthorFits(b)'
  BY <1>2, AuthorsFit
<1>12. QED
  BY <1>2, <1>4, <1>5, <1>6, <1>7, <1>8, <1>9, <1>10, <1>11, DefinitionsChange

LEMMA DeleteKeeps ==
  ASSUME KeptDefinitions, NEW a \in Author \cup Editor, DeleteEntity(a), ~Late(a)
  PROVE  KeptDefinitions'
<1>1. DefinitionsTyped /\ AuthorFits(a)
  BY DEF KeptDefinitions
<1>2. /\ author[a].at = "delete" /\ author' = [author EXCEPT ![a] = Free]
      /\ UNCHANGED <<dictionary, listed, publish>>
  BY DEF DeleteEntity, Requested, Writes
<1>3. PICK x \in Entity : x = author[a].of /\ ~PublishingOf(x)
  BY <1>1, <1>2, WriteFacts DEF Submits, Admits
<1>4. PICK vs \in Seq(DefinitionRow) : vs = <<>>
  BY NothingServes
<1>5. versions' = [versions EXCEPT ![x] = vs]
  BY <1>3, <1>4 DEF DeleteEntity
<1>6. /\ life' \in [Entity -> {"none", "live", "deprecated", "gone"}] /\ life'[x] = "gone"
      /\ \A e \in Entity \ {x} : life'[e] = life[e]
      /\ publish' \in [Entity -> PublishRow]
  BY <1>1, <1>2, <1>3 DEF DefinitionsTyped, DeleteEntity
<1>7. ServingFits(x)'
  BY <1>4, <1>5, NothingServes, OwnServes
<1>8. PublishFits(x)'
  BY <1>2, <1>3, NotPublishing
<1>9. DOMAIN vs = {}
  BY <1>4
<1>10. /\ author' = [b \in Author \cup Editor |-> author'[b]]
       /\ \A b \in Author \cup Editor : AuthorFits(b)'
  BY <1>2, AuthorsFit
<1>11. QED
  BY <1>2, <1>4, <1>5, <1>6, <1>7, <1>8, <1>9, <1>10, DefinitionsChange

\* Of a version whose publish is under way, the current row.
LEMMA PublishedRow ==
  ASSUME KeptDefinitions, NEW x \in Entity, publish[x].at \in {"queued", "bound"}
  PROVE  /\ versions[x] # <<>> /\ Last(versions[x]).status = "publishing"
         /\ life[x] # "none" /\ publish[x] \in PublishRow
         /\ Last(versions[x]) \in DefinitionRow /\ Last(versions[x]).shape \in ShapeRow
         /\ DOMAIN publish[x].keys = Last(versions[x]).shape.refs
         /\ publish[x].codes # {} => Last(versions[x]).shape.dict
<1>1. DefinitionsTyped /\ PublishFits(x)
  BY DEF KeptDefinitions
<1>2. /\ versions[x] # <<>> /\ Last(versions[x]).status = "publishing"
      /\ DOMAIN publish[x].keys = Last(versions[x]).shape.refs
      /\ publish[x].codes # {} => Last(versions[x]).shape.dict
  BY <1>1 DEF PublishFits, CurrentOf
<1>3. publish[x] \in PublishRow /\ life[x] # "none"
  BY <1>1, <1>2 DEF DefinitionsTyped
<1>4. QED
  BY <1>1, <1>2, <1>3, TypedRows

LEMMA AcceptKeeps ==
  ASSUME KeptDefinitions, NEW a \in Author \cup Editor, SaveAccept(a),
         versions[author[a].of] = author[a].seen
  PROVE  KeptDefinitions'
<1>1. DefinitionsTyped /\ VersionsFit /\ AuthorFits(a)
  BY DEF KeptDefinitions
<1>2. /\ author[a].at = "accept" /\ author' = [author EXCEPT ![a] = Free]
      /\ UNCHANGED <<life, dictionary, listed>>
  BY DEF SaveAccept, Writes
<1>3. PICK x \in Entity :
         /\ x = author[a].of /\ author[a].seen = versions[x] /\ versions[x] # <<>>
         /\ publish[x].at = "frozen" /\ Last(versions[x]).status = "unpublished"
         /\ DOMAIN publish[x].keys = Last(versions[x]).shape.refs
         /\ publish[x].codes # {} => Last(versions[x]).shape.dict
  BY <1>1, <1>2 DEF AuthorFits, Submits
<1>4. PICK ws \in Seq(DefinitionRow) : ws = versions[x] /\ ws # <<>>
  BY <1>1, <1>3 DEF DefinitionsTyped
<1>5. PICK old \in DefinitionRow : old = Last(ws) /\ old = ws[Len(ws)] /\ Len(ws) \in 1..Len(ws)
  BY <1>4 DEF Last
<1>6. PICK row \in DefinitionRow : /\ row = [old EXCEPT !.status = "publishing"] /\ row.shape = old.shape
                                   /\ row.status = "publishing" /\ row.bound = old.bound /\ row.codes = old.codes
  <2>1. PICK row : row = [old EXCEPT !.status = "publishing"]
    OBVIOUS
  <2>2. row \in DefinitionRow
    BY <2>1 DEF DefinitionRow
  <2>3. row.shape = old.shape /\ row.status = "publishing" /\ row.bound = old.bound /\ row.codes = old.codes
    BY <2>1 DEF DefinitionRow
  <2>4. QED
    BY <2>1, <2>2, <2>3
<1>7. PICK vs \in Seq(DefinitionRow) :
         /\ vs = WithRow(ws, Len(ws), row) /\ vs # <<>> /\ Len(vs) = Len(ws) /\ DOMAIN vs = 1..Len(ws)
         /\ vs[Len(ws)] = row /\ (\A i \in 1..Len(ws) : i # Len(ws) => vs[i] = ws[i])
         /\ Last(vs) = row
  <2>1. IsWithRow(WithRow(ws, Len(ws), row), ws, Len(ws), row)
    BY <1>4, <1>5, <1>6, Replaced
  <2>2. QED
    BY <2>1 DEF IsWithRow
<1>8. versions' = [versions EXCEPT ![x] = vs]
  BY <1>1, <1>3, <1>4, <1>5, <1>6, <1>7 DEF SaveAccept, DefinitionsTyped, Existing, WithRow
<1>9. PICK p \in PublishRow : /\ p.at = "queued" /\ p.keys = publish[x].keys /\ p.codes = publish[x].codes
                              /\ publish' = [publish EXCEPT ![x] = p]
  <2>1. publish[x] \in PublishRow /\ x \in Existing
    BY <1>1, <1>3 DEF DefinitionsTyped, Existing
  <2>2. PICK p : p = [publish[x] EXCEPT !.at = "queued"]
    OBVIOUS
  <2>3. p \in PublishRow /\ p.at = "queued" /\ p.keys = publish[x].keys /\ p.codes = publish[x].codes
    BY <2>1, <2>2 DEF PublishRow
  <2>4. publish' = [publish EXCEPT ![x] = p]
    BY <1>1, <1>3, <2>1, <2>2 DEF SaveAccept, DefinitionsTyped
  <2>5. QED
    BY <2>3, <2>4
<1>10. /\ publish' \in [Entity -> PublishRow] /\ publish'[x] = p
       /\ \A e \in Entity \ {x} : publish'[e] = publish[e]
  BY <1>1, <1>9 DEF DefinitionsTyped
<1>11. KeysAreKept(x, vs)
  BY <1>4, <1>5, <1>6, <1>7 DEF KeysAreKept, KeyOf
<1>12. ServingFits(x)'
  <2>1. ws[Len(ws)].status = "unpublished" /\ \A i \in 1..Len(ws) : vs[i].status = "published" <=> ws[i].status = "published"
    <3>1. ws[Len(ws)].status = "unpublished"
      BY <1>3, <1>4, <1>5
    <3>2. \A i \in 1..Len(ws) : vs[i].status = "published" <=> ws[i].status = "published"
      BY <1>6, <1>7, <3>1
    <3>3. QED
      BY <3>1, <3>2
  <2>2. PublishedIn(vs) = PublishedIn(ws)
    BY <1>7, <2>1 DEF PublishedIn
  <2>3. \A i \in PublishedIn(ws) : vs[i] = ws[i]
    BY <1>7, <2>1 DEF PublishedIn
  <2>4. ServingBound(vs) = ServingBound(ws) \/ DOMAIN ServingBound(vs) = {}
    BY <1>4, <1>7, <2>2, <2>3, SameHead
  <2>5. QED
    BY <1>4, <1>8, <2>4, OwnServes
<1>13. PublishFits(x)'
  <2>1. CurrentOf(x)' = row /\ versions'[x] # <<>>
    BY <1>1, <1>7, <1>8 DEF CurrentOf, DefinitionsTyped
  <2>2. DOMAIN p.keys = row.shape.refs /\ (p.codes # {} => row.shape.dict)
    BY <1>3, <1>4, <1>5, <1>6, <1>9
  <2>3. QED
    BY <1>6, <1>9, <1>10, <2>1, <2>2 DEF PublishFits
<1>14. \A i \in DOMAIN vs : VersionFits(x, vs[i])'
  <2>1. ASSUME NEW i \in 1..Len(ws) PROVE VersionFits(x, vs[i])'
    <3>1. VersionFits(x, ws[i])
      BY <1>1, <1>4, <2>1 DEF VersionsFit
    <3>2. vs[i].shape = ws[i].shape /\ vs[i].bound = ws[i].bound /\ vs[i].codes = ws[i].codes
      BY <1>5, <1>6, <1>7, <2>1
    <3>3. QED
      BY <1>2, <3>1, <3>2 DEF VersionFits, Listed
  <2>2. QED
    BY <1>7, <2>1
<1>15. /\ author' = [b \in Author \cup Editor |-> author'[b]]
       /\ \A b \in Author \cup Editor : AuthorFits(b)'
  <2>1. author' # author
    BY <1>1, <1>2 DEF Free, DefinitionsTyped
  <2>2. QED
    BY <1>2, <1>3, <1>10, <2>1, AuthorsFit
<1>16. /\ life' \in [Entity -> {"none", "live", "deprecated", "gone"}] /\ life'[x] \in {"live", "deprecated"}
       /\ \A e \in Entity \ {x} : life'[e] = life[e]
  BY <1>1, <1>2, <1>3 DEF DefinitionsTyped
<1>17. QED
  BY <1>2, <1>7, <1>8, <1>10, <1>11, <1>12, <1>13, <1>14, <1>15, <1>16, DefinitionsChange

\* A publish moves; the versions stay.
LEMMA PublishMoves ==
  ASSUME KeptDefinitions, NEW x \in Entity, versions[x] # <<>>,
         publish' \in [Entity -> PublishRow], \A e \in Entity \ {x} : publish'[e] = publish[e],
         UNCHANGED <<life, versions, dictionary, listed>>, PublishFits(x)',
         author' = [a \in Author \cup Editor |-> author'[a]],
         \A a \in Author \cup Editor : AuthorFits(a)'
  PROVE  KeptDefinitions'
<1>1. DefinitionsTyped /\ VersionsFit
  BY DEF KeptDefinitions
<1>2. PICK vs \in Seq(DefinitionRow) : vs = versions[x]
  BY <1>1 DEF DefinitionsTyped
<1>3. versions' = [versions EXCEPT ![x] = vs]
  BY <1>1, <1>2 DEF DefinitionsTyped
<1>4. KeysAreKept(x, vs) /\ ServingFits(x)'
  BY <1>2, <1>3, OwnServes DEF KeysAreKept
<1>5. \A i \in DOMAIN vs : VersionFits(x, vs[i])'
  BY <1>1, <1>2 DEF VersionsFit, VersionFits, Listed
<1>6. life'[x] \in {"live", "deprecated"} /\ life' \in [Entity -> {"none", "live", "deprecated", "gone"}]
      /\ \A e \in Entity \ {x} : life'[e] = life[e]
  BY <1>1 DEF DefinitionsTyped
<1>7. QED
  BY <1>2, <1>3, <1>4, <1>5, <1>6, DefinitionsChange

LEMMA BindKeeps ==
  ASSUME KeptDefinitions, NEW x \in Entity, Bind(x)
  PROVE  KeptDefinitions'
<1>1. DefinitionsTyped /\ PublishFits(x)
  BY DEF KeptDefinitions
<1>2. publish[x].at = "queued" /\ StillBinds(x) /\ publish' = [publish EXCEPT ![x].at = "bound"]
      /\ UNCHANGED <<life, versions, dictionary, listed, author>>
  BY DEF Bind
<1>3. PICK p \in PublishRow : p = publish[x]
  BY <1>1 DEF DefinitionsTyped
<1>4. PICK q \in PublishRow : q.at = "bound" /\ q.keys = p.keys /\ q.codes = p.codes /\ publish' = [publish EXCEPT ![x] = q]
  <2>1. PICK q : q = [p EXCEPT !.at = "bound"]
    OBVIOUS
  <2>2. q \in PublishRow /\ q.at = "bound" /\ q.keys = p.keys /\ q.codes = p.codes
    BY <2>1 DEF PublishRow
  <2>3. publish' = [publish EXCEPT ![x] = q]
    BY <1>1, <1>2, <1>3, <2>1 DEF DefinitionsTyped
  <2>4. QED
    BY <2>2, <2>3
<1>5. /\ publish' \in [Entity -> PublishRow] /\ publish'[x] = q
      /\ \A e \in Entity \ {x} : publish'[e] = publish[e]
  BY <1>1, <1>4 DEF DefinitionsTyped
<1>6. PICK shape \in ShapeRow : shape = CurrentOf(x).shape /\ shape = Last(versions[x]).shape
  BY <1>2, PublishedRow DEF CurrentOf
<1>7. PublishFits(x)'
  <2>1. q.codes \subseteq Listed
    <3>1. shape.dict => Active = p.codes
      BY <1>2, <1>3, <1>6 DEF StillBinds
    <3>2. ~shape.dict => p.codes = {}
      BY <1>1, <1>2, <1>3, <1>6, PublishedRow
    <3>3. Active \subseteq Listed
      BY DEF Active, Listed
    <3>4. QED
      BY <1>4, <3>1, <3>2, <3>3
  <2>2. ASSUME NEW t \in shape.refs, t \in Existing PROVE KeyOf(versions[t]) = q.keys[t]
    <3>1. TargetKey(x)[t] = p.keys[t]
      BY <1>2, <1>3, <1>6, <2>2 DEF StillBinds
    <3>2. TargetKey(x)[t] = CurrentOf(t).shape.key
      BY <1>6, <2>2 DEF TargetKey
    <3>3. QED
      BY <1>4, <3>1, <3>2 DEF KeyOf, CurrentOf
  <2>3. CurrentOf(x)' = CurrentOf(x) /\ Existing' = Existing /\ Listed' = Listed
    BY <1>2 DEF CurrentOf, Existing, Listed
  <2>4. QED
    BY <1>1, <1>2, <1>3, <1>4, <1>5, <1>6, <2>1, <2>2, <2>3 DEF PublishFits
<1>8. /\ author' = [b \in Author \cup Editor |-> author'[b]]
      /\ \A b \in Author \cup Editor : AuthorFits(b)'
  <2>1. \A e \in Entity : publish[e].at = "frozen" => publish'[e] = publish[e]
    BY <1>2, <1>5
  <2>2. author = [b \in Author \cup Editor |-> author[b]]
    BY <1>1 DEF DefinitionsTyped
  <2>3. QED
    BY <1>2, <2>1, <2>2, AuthorsFit
<1>9. QED
  BY <1>2, <1>5, <1>7, <1>8, PublishedRow, PublishMoves

\* Requests are not touched by a publish that was accepted.
LEMMA AuthorsStay ==
  ASSUME KeptDefinitions, author' = author, NEW x \in Entity, publish[x].at # "frozen",
         \A e \in Entity \ {x} : publish'[e] = publish[e]
  PROVE  /\ author' = [b \in Author \cup Editor |-> author'[b]]
         /\ \A b \in Author \cup Editor : AuthorFits(b)'
<1>1. \A e \in Entity : publish[e].at = "frozen" => publish'[e] = publish[e]
  OBVIOUS
<1>2. author = [b \in Author \cup Editor |-> author[b]]
  BY DEF KeptDefinitions, DefinitionsTyped
<1>3. QED
  BY <1>1, <1>2, AuthorsFit

\* The publish of an entity is over.
LEMMA PublishEnds ==
  ASSUME DefinitionsTyped, NEW x \in Entity, publish' = [publish EXCEPT ![x] = NoPublish]
  PROVE  /\ publish' \in [Entity -> PublishRow] /\ publish'[x].at = "none"
         /\ \A e \in Entity \ {x} : publish'[e] = publish[e]
         /\ PublishFits(x)'
<1>1. NoPublish \in PublishRow /\ NoPublish.at = "none"
  BY NothingServes DEF NoPublish, PublishRow
<1>2. publish' \in [Entity -> PublishRow] /\ publish'[x].at = "none"
  BY <1>1 DEF DefinitionsTyped
<1>3. \A e \in Entity \ {x} : publish'[e] = publish[e]
  BY DEF DefinitionsTyped
<1>4. PublishFits(x)'
  BY <1>2 DEF PublishFits
<1>5. QED
  BY <1>2, <1>3, <1>4

LEMMA StoreKeeps ==
  ASSUME KeptDefinitions, NEW x \in Entity, StoreBound(x)
  PROVE  KeptDefinitions'
<1>1. DefinitionsTyped /\ VersionsFit /\ PublishFits(x)
  BY DEF KeptDefinitions
<1>2. publish[x].at = "bound" /\ publish' = [publish EXCEPT ![x] = NoPublish]
      /\ UNCHANGED <<life, dictionary, listed, author>>
  BY DEF StoreBound
<1>3. PICK p \in PublishRow : p = publish[x]
  BY <1>1 DEF DefinitionsTyped
<1>4. PICK ws \in Seq(DefinitionRow) : ws = versions[x] /\ ws # <<>>
  BY <1>1, <1>2, PublishedRow DEF DefinitionsTyped
<1>5. PICK old \in DefinitionRow : /\ old = Last(ws) /\ old = ws[Len(ws)] /\ Len(ws) \in 1..Len(ws)
                                   /\ CurrentOf(x) = old
  BY <1>4 DEF Last, CurrentOf
<1>6. /\ DOMAIN p.keys = old.shape.refs /\ (p.codes # {} => old.shape.dict) /\ p.codes \subseteq Listed
      /\ \A t \in (old.shape.refs \cap Existing) \ {x} : KeyOf(versions[t]) = p.keys[t]
  BY <1>1, <1>2, <1>3, <1>5 DEF PublishFits
<1>7. PICK row \in DefinitionRow :
         /\ row = [old EXCEPT !.status = "published", !.present = TRUE, !.bound = p.keys, !.codes = p.codes]
         /\ row.shape = old.shape /\ row.status = "published" /\ row.present /\ row.bound = p.keys /\ row.codes = p.codes
  <2>1. PICK row : row = [old EXCEPT !.status = "published", !.present = TRUE, !.bound = p.keys, !.codes = p.codes]
    OBVIOUS
  <2>2. row \in DefinitionRow
    BY <2>1 DEF DefinitionRow, PublishRow
  <2>3. row.shape = old.shape /\ row.status = "published" /\ row.present /\ row.bound = p.keys /\ row.codes = p.codes
    BY <2>1 DEF DefinitionRow
  <2>4. QED
    BY <2>1, <2>2, <2>3
<1>8. PICK vs \in Seq(DefinitionRow) :
         /\ vs = WithRow(ws, Len(ws), row) /\ vs # <<>> /\ Len(vs) = Len(ws) /\ DOMAIN vs = 1..Len(ws)
         /\ vs[Len(ws)] = row /\ (\A i \in 1..Len(ws) : i # Len(ws) => vs[i] = ws[i])
         /\ Last(vs) = row
  <2>1. IsWithRow(WithRow(ws, Len(ws), row), ws, Len(ws), row)
    BY <1>4, <1>5, <1>7, Replaced
  <2>2. QED
    BY <2>1 DEF IsWithRow
<1>9. versions' = [versions EXCEPT ![x] = vs]
  BY <1>1, <1>3, <1>4, <1>5, <1>7, <1>8 DEF StoreBound, DefinitionsTyped, WithRow
<1>10. KeysAreKept(x, vs)
  BY <1>4, <1>5, <1>7, <1>8 DEF KeysAreKept, KeyOf
<1>11. ServingFits(x)'
  <2>1. HeadIn(vs) = Len(ws)
    <3>1. PICK h : h = HeadIn(vs)
      OBVIOUS
    <3>2. h # 0 => h \in 1..Len(ws) /\ \A i \in 1..Len(ws) : i > h => vs[i].status # "published"
      BY <1>8, <3>1, HeadFacts
    <3>3. h # 0
      <4>1. Len(ws) \in PublishedIn(vs)
        BY <1>5, <1>7, <1>8 DEF PublishedIn
      <4>2. Len(vs) \in Nat /\ Len(vs) = Len(ws)
        <5>1. Len(ws) \in Nat
          BY <1>4
        <5>2. Len(vs) = Len(ws)
          BY <1>8
        <5>3. QED
          BY <5>1, <5>2
      <4>3. PublishedIn(vs) \in SUBSET (1..Len(vs)) /\ PublishedIn(vs) # {}
        BY <4>1 DEF PublishedIn
      <4>4. Max(PublishedIn(vs)) \in PublishedIn(vs)
        BY <4>2, <4>3, GreatestOf
      <4>5. Max(PublishedIn(vs)) \in 1..Len(ws)
        BY <4>2, <4>3, <4>4
      <4>6. h = Max(PublishedIn(vs))
        BY <1>8, <3>1, <4>3, HeadFacts
      <4>7. QED
        BY <4>5, <4>6
    <3>4. ~(Len(ws) > h)
      <4>1. vs[Len(ws)].status = "published"
        BY <1>7, <1>8
      <4>2. QED
        BY <1>5, <3>2, <3>3, <4>1
    <3>5. Len(ws) \in Nat
      BY <1>4
    <3>6. QED
      BY <3>1, <3>2, <3>3, <3>4, <3>5
  <2>2. Len(ws) # 0
    BY <1>5
  <2>3. ServingBound(vs) = p.keys
    <3>1. vs[Len(ws)].present /\ vs[Len(ws)].bound = p.keys
      BY <1>7, <1>8
    <3>2. QED
      BY <2>1, <2>2, <3>1 DEF ServingBound
  <2>4. versions'[x] = vs /\ \A t \in Entity \ {x} : versions'[t] = versions[t]
    BY <1>1, <1>9 DEF DefinitionsTyped
  <2>5. \A t \in Entity \ {x} : t \in Existing' <=> t \in Existing
    BY <2>4 DEF Existing
  <2>6. QED
    BY <1>6, <2>3, <2>4, <2>5 DEF ServingFits, Existing
<1>12. \A i \in DOMAIN vs : VersionFits(x, vs[i])'
  <2>1. ASSUME NEW i \in 1..Len(ws), i # Len(ws) PROVE VersionFits(x, vs[i])'
    BY <1>1, <1>2, <1>4, <1>8, <2>1 DEF VersionsFit, VersionFits, Listed
  <2>2. VersionFits(x, old)
    <3>1. Len(ws) \in DOMAIN versions[x] /\ old = versions[x][Len(ws)]
      BY <1>4, <1>5
    <3>2. QED
      BY <1>1, <3>1 DEF VersionsFit
  <2>3. VersionFits(x, row)'
    BY <1>2, <1>6, <1>7, <2>2 DEF VersionFits, Listed
  <2>4. QED
    BY <1>8, <2>1, <2>3
<1>13. /\ publish' \in [Entity -> PublishRow] /\ PublishFits(x)'
       /\ \A e \in Entity \ {x} : publish'[e] = publish[e]
  BY <1>1, <1>2, PublishEnds
<1>14. /\ author' = [b \in Author \cup Editor |-> author'[b]]
       /\ \A b \in Author \cup Editor : AuthorFits(b)'
  BY <1>2, <1>13, AuthorsStay
<1>15. /\ life' \in [Entity -> {"none", "live", "deprecated", "gone"}] /\ life'[x] \in {"live", "deprecated"}
       /\ \A e \in Entity \ {x} : life'[e] = life[e]
  BY <1>1, <1>2, <1>4 DEF DefinitionsTyped
<1>16. QED
  BY <1>2, <1>8, <1>9, <1>10, <1>11, <1>12, <1>13, <1>14, <1>15, DefinitionsChange

LEMMA RollBackKeeps ==
  ASSUME KeptDefinitions, NEW x \in Entity, RollBack(x)
  PROVE  KeptDefinitions'
<1>1. DefinitionsTyped /\ VersionsFit
  BY DEF KeptDefinitions
<1>2. publish[x].at \in {"queued", "bound"} /\ publish' = [publish EXCEPT ![x] = NoPublish]
      /\ UNCHANGED <<life, dictionary, listed, author>>
  BY DEF RollBack
<1>3. PICK ws \in Seq(DefinitionRow) : ws = versions[x] /\ ws # <<>>
  BY <1>1, <1>2, PublishedRow DEF DefinitionsTyped
<1>4. PICK vs : vs = [i \in DOMAIN ws |-> IF ws[i].status = "publishing" THEN [ws[i] EXCEPT !.status = "unpublished"] ELSE ws[i]]
  OBVIOUS
<1>5. Len(ws) \in Nat /\ DOMAIN ws = 1..Len(ws) /\ ws[Len(ws)] = Last(ws) /\ Len(ws) \in 1..Len(ws)
  BY <1>3 DEF Last
<1>6. ASSUME NEW i \in 1..Len(ws)
      PROVE  /\ vs[i] \in DefinitionRow
             /\ vs[i].shape = ws[i].shape /\ vs[i].bound = ws[i].bound /\ vs[i].codes = ws[i].codes
             /\ vs[i].present = ws[i].present /\ (vs[i].status = "published" <=> ws[i].status = "published")
  <2>1. PICK v \in DefinitionRow : v = ws[i]
    BY <1>3, <1>6
  <2>2. CASE v.status = "publishing"
    <3>1. PICK w : w = [v EXCEPT !.status = "unpublished"]
      OBVIOUS
    <3>2. w \in DefinitionRow
      BY <3>1 DEF DefinitionRow
    <3>3. w.shape = v.shape /\ w.bound = v.bound /\ w.codes = v.codes /\ w.present = v.present /\ w.status = "unpublished"
      BY <3>1 DEF DefinitionRow
    <3>4. vs[i] = w
      BY <1>4, <1>5, <1>6, <2>1, <2>2, <3>1
    <3>5. QED
      BY <2>1, <2>2, <3>2, <3>3, <3>4
  <2>3. CASE v.status # "publishing"
    BY <1>4, <1>5, <1>6, <2>1, <2>3
  <2>4. QED
    BY <2>2, <2>3
<1>7. vs \in Seq(DefinitionRow) /\ Len(vs) = Len(ws) /\ DOMAIN vs = 1..Len(ws)
  <2>1. vs = [i \in 1..Len(ws) |-> vs[i]]
    BY <1>4, <1>5
  <2>2. vs \in [1..Len(ws) -> DefinitionRow]
    BY <1>6, <2>1
  <2>3. QED
    BY <1>5, <2>2
<1>8. versions' = [versions EXCEPT ![x] = vs]
  BY <1>1, <1>3, <1>4 DEF RollBack, DefinitionsTyped
<1>9. vs # <<>> /\ Last(vs) = vs[Len(ws)]
  BY <1>5, <1>7 DEF Last
<1>10. KeysAreKept(x, vs)
  BY <1>3, <1>5, <1>6, <1>9 DEF KeysAreKept, KeyOf
<1>11. ServingFits(x)'
  <2>1. PublishedIn(vs) = PublishedIn(ws)
    BY <1>6, <1>7 DEF PublishedIn
  <2>2. \A i \in PublishedIn(ws) : vs[i].present = ws[i].present /\ vs[i].bound = ws[i].bound
    BY <1>6 DEF PublishedIn
  <2>3. ServingBound(vs) = ServingBound(ws) \/ DOMAIN ServingBound(vs) = {}
    BY <1>3, <1>7, <2>1, <2>2, SameHead
  <2>4. QED
    BY <1>3, <1>8, <2>3, OwnServes
<1>12. \A i \in DOMAIN vs : VersionFits(x, vs[i])'
  <2>1. ASSUME NEW i \in 1..Len(ws) PROVE VersionFits(x, vs[i])'
    <3>1. VersionFits(x, ws[i])
      BY <1>1, <1>3, <1>5, <2>1 DEF VersionsFit
    <3>2. QED
      BY <1>2, <1>6, <2>1, <3>1 DEF VersionFits, Listed
  <2>2. QED
    BY <1>7, <2>1
<1>13. /\ publish' \in [Entity -> PublishRow] /\ PublishFits(x)'
       /\ \A e \in Entity \ {x} : publish'[e] = publish[e]
  BY <1>1, <1>2, PublishEnds
<1>14. /\ author' = [b \in Author \cup Editor |-> author'[b]]
       /\ \A b \in Author \cup Editor : AuthorFits(b)'
  <2>1. publish[x].at # "frozen"
    BY <1>2
  <2>2. QED
    BY <1>2, <1>13, <2>1, AuthorsStay
<1>15. /\ life' \in [Entity -> {"none", "live", "deprecated", "gone"}] /\ life'[x] \in {"live", "deprecated"}
       /\ \A e \in Entity \ {x} : life'[e] = life[e]
  BY <1>1, <1>2, <1>3 DEF DefinitionsTyped
<1>16. QED
  BY <1>2, <1>7, <1>8, <1>9, <1>10, <1>11, <1>12, <1>13, <1>14, <1>15, DefinitionsChange

LEMMA DropHeadKeeps ==
  ASSUME KeptDefinitions, NEW x \in Entity, DropHead(x)
  PROVE  KeptDefinitions'
<1>1. DefinitionsTyped /\ VersionsFit
  BY DEF KeptDefinitions
<1>2. life[x] = "deprecated" /\ UNCHANGED <<life, dictionary, listed, author, publish>>
  BY DEF DropHead
<1>3. PICK ws \in Seq(DefinitionRow) : ws = versions[x] /\ ws # <<>>
  BY <1>1, <1>2 DEF DefinitionsTyped
<1>4. PICK h \in 1..Len(ws) : h = HeadIn(ws) /\ h = HeadOf(x)
  <2>1. HeadIn(ws) = HeadOf(x) /\ HeadOf(x) # 0 /\ DOMAIN ws = 1..Len(ws)
    BY <1>1, <1>3, TypedRows DEF DropHead
  <2>2. QED
    BY <1>3, <2>1, HeadFacts
<1>5. PICK old \in DefinitionRow : old = ws[h]
  BY <1>3, <1>4
<1>6. PICK row \in DefinitionRow :
         /\ row = [old EXCEPT !.present = FALSE] /\ ~row.present
         /\ row.shape = old.shape /\ row.status = old.status /\ row.bound = old.bound /\ row.codes = old.codes
  <2>1. PICK row : row = [old EXCEPT !.present = FALSE]
    OBVIOUS
  <2>2. row \in DefinitionRow
    BY <2>1 DEF DefinitionRow
  <2>3. /\ ~row.present
        /\ row.shape = old.shape /\ row.status = old.status /\ row.bound = old.bound /\ row.codes = old.codes
    BY <2>1 DEF DefinitionRow
  <2>4. QED
    BY <2>1, <2>2, <2>3
<1>7. PICK vs \in Seq(DefinitionRow) :
         /\ vs = WithRow(ws, h, row) /\ vs # <<>> /\ Len(vs) = Len(ws) /\ DOMAIN vs = 1..Len(ws)
         /\ vs[h] = row /\ (\A i \in 1..Len(ws) : i # h => vs[i] = ws[i])
         /\ Last(vs) = vs[Len(ws)]
  <2>1. IsWithRow(WithRow(ws, h, row), ws, h, row)
    BY <1>3, <1>4, <1>6, Replaced
  <2>2. QED
    BY <2>1 DEF IsWithRow
<1>8. versions' = [versions EXCEPT ![x] = vs]
  BY <1>1, <1>3, <1>4, <1>5, <1>6, <1>7 DEF DropHead, DefinitionsTyped, WithRow
<1>9. \A i \in 1..Len(ws) : /\ vs[i].shape = ws[i].shape /\ vs[i].status = ws[i].status
                            /\ vs[i].bound = ws[i].bound /\ vs[i].codes = ws[i].codes
                            /\ vs[i].present => ws[i].present
  BY <1>5, <1>6, <1>7
<1>10. Last(vs).shape = Last(ws).shape /\ Last(vs).status = Last(ws).status
  <2>1. Len(ws) \in 1..Len(ws) /\ Last(ws) = ws[Len(ws)]
    BY <1>3 DEF Last
  <2>2. QED
    BY <1>7, <1>9, <2>1
<1>11. KeysAreKept(x, vs)
  BY <1>3, <1>10 DEF KeysAreKept, KeyOf
<1>12. ServingFits(x)'
  <2>1. PublishedIn(vs) = PublishedIn(ws)
    BY <1>7, <1>9 DEF PublishedIn
  <2>2. \A i \in PublishedIn(ws) : vs[i].present => ws[i].present /\ vs[i].bound = ws[i].bound
    BY <1>9 DEF PublishedIn
  <2>3. ServingBound(vs) = ServingBound(ws) \/ DOMAIN ServingBound(vs) = {}
    BY <1>3, <1>7, <2>1, <2>2, SameHead
  <2>4. QED
    BY <1>3, <1>8, <2>3, OwnServes
<1>13. PublishFits(x)'
  BY <1>2, <1>3, <1>7, <1>8, <1>10, SamePublish
<1>14. \A i \in DOMAIN vs : VersionFits(x, vs[i])'
  <2>1. ASSUME NEW i \in 1..Len(ws) PROVE VersionFits(x, vs[i])'
    <3>1. VersionFits(x, ws[i])
      BY <1>1, <1>3, <2>1 DEF VersionsFit
    <3>2. QED
      BY <1>2, <1>9, <2>1, <3>1 DEF VersionFits, Listed
  <2>2. QED
    BY <1>7, <2>1
<1>15. /\ author' = [b \in Author \cup Editor |-> author'[b]]
       /\ \A b \in Author \cup Editor : AuthorFits(b)'
  <2>1. author = [b \in Author \cup Editor |-> author[b]]
    BY <1>1 DEF DefinitionsTyped
  <2>2. QED
    BY <1>2, <2>1, AuthorsFit
<1>16. /\ life' \in [Entity -> {"none", "live", "deprecated", "gone"}] /\ life'[x] = "deprecated"
       /\ publish' \in [Entity -> PublishRow]
  BY <1>1, <1>2 DEF DefinitionsTyped
<1>17. QED
  BY <1>2, <1>7, <1>8, <1>11, <1>12, <1>13, <1>14, <1>15, <1>16, DefinitionsChange

\* An idle request takes up another; the rest stays.
LEMMA TakesFits ==
  ASSUME KeptDefinitions, NEW a \in Author \cup Editor, NEW r,
         author' = [author EXCEPT ![a] = r], r.at # "accept",
         r.at \in Submits => r.of \in Entity /\ r.shape \in ShapeRow, author[a].at = "idle",
         publish' = publish
  PROVE  /\ author' = [b \in Author \cup Editor |-> author'[b]]
         /\ \A b \in Author \cup Editor : AuthorFits(b)'
<1>1. author = [b \in Author \cup Editor |-> author[b]]
  BY DEF KeptDefinitions, DefinitionsTyped
<1>2. author' = [b \in Author \cup Editor |-> author'[b]] /\ author'[a] = r
      /\ \A b \in Author \cup Editor : b # a => author'[b] = author[b]
  BY <1>1
<1>3. ASSUME NEW b \in Author \cup Editor PROVE AuthorFits(b)'
  <2>1. AuthorFits(b)
    BY DEF KeptDefinitions
  <2>2. CASE b = a
    BY <1>2, <2>2 DEF AuthorFits
  <2>3. CASE b # a
    <3>1. \A d \in Author \cup Editor : author'[d].at = "accept" => author'[d] = author[d]
      BY <1>2
    <3>2. QED
      BY <1>2, <2>1, <2>3, <3>1 DEF AuthorFits
  <2>4. QED
    BY <2>2, <2>3
<1>4. QED
  BY <1>2, <1>3

LEMMA ShapesFit ==
  Blank \in ShapeRow /\ \A e \in Entity : Shape[e] \subseteq ShapeRow
BY DefinitionsAssumption DEF Blank, ShapeRow

LEMMA ChecksKeeps ==
  ASSUME KeptDefinitions, NEW a \in Author \cup Editor, NEW x \in Entity, Checks(a, x)
  PROVE  KeptDefinitions'
<1>1. PICK kind \in {"create", "patch", "open", "deprecate", "delete"}, shape \in ShapeRow : Takes(a, kind, x, shape)
  BY ShapesFit DEF Checks
<1>2. PICK r : r = [at |-> kind, of |-> x, shape |-> shape, seen |-> versions[x]]
  OBVIOUS
<1>3. author' = [author EXCEPT ![a] = r] /\ author[a].at = "idle"
      /\ UNCHANGED <<life, versions, dictionary, listed, publish>>
  BY <1>1, <1>2 DEF Takes, Checks
<1>4. /\ author' = [b \in Author \cup Editor |-> author'[b]]
      /\ \A b \in Author \cup Editor : AuthorFits(b)'
  <2>1. r.at # "accept" /\ r.of \in Entity /\ r.shape \in ShapeRow
    BY <1>1, <1>2
  <2>2. QED
    BY <1>3, <2>1, TakesFits
<1>5. /\ dictionary' \in {"live", "deprecated", "gone"} /\ Listed' = Listed
      /\ listed' \in [Code -> {"absent", "active", "inactive"}]
  BY <1>3 DEF KeptDefinitions, DefinitionsTyped, Listed
<1>6. QED
  BY <1>3, <1>4, <1>5, CodesFit, DictionaryChange

\* What an acceptance freezes.
LEMMA FrozenKeys ==
  ASSUME DefinitionsTyped, NEW x \in Entity, versions[x] # <<>>
  PROVE  TargetKey(x) \in BoundKeys /\ DOMAIN TargetKey(x) = Last(versions[x]).shape.refs
<1>1. PICK shape \in ShapeRow : shape = CurrentOf(x).shape /\ shape = Last(versions[x]).shape
  BY TypedRows
<1>2. \A t \in shape.refs : (IF t \in Existing THEN CurrentOf(t).shape.key ELSE NoKey) \in Key \cup {NoKey}
  <2>1. ASSUME NEW t \in shape.refs, t \in Existing PROVE CurrentOf(t).shape.key \in Key \cup {NoKey}
    <3>1. t \in Entity /\ versions[t] # <<>>
      BY <2>1 DEF Existing
    <3>2. CurrentOf(t).shape \in ShapeRow
      BY <3>1, TypedRows
    <3>3. QED
      BY <3>2 DEF ShapeRow
  <2>2. QED
    BY <2>1
<1>3. shape.refs \in SUBSET Entity
  BY DEF ShapeRow
<1>4. TargetKey(x) \in [shape.refs -> Key \cup {NoKey}] /\ DOMAIN TargetKey(x) = shape.refs
  BY <1>1, <1>2 DEF TargetKey
<1>5. QED
  BY <1>1, <1>3, <1>4 DEF BoundKeys

LEMMA CheckAcceptKeeps ==
  ASSUME KeptDefinitions, NEW a \in Author \cup Editor, NEW x \in Entity, CheckAccept(a, x)
  PROVE  KeptDefinitions'
<1>1. DefinitionsTyped /\ \A b \in Author \cup Editor : AuthorFits(b)
  BY DEF KeptDefinitions
<1>2. versions[x] # <<>> /\ CurrentOf(x) = Last(versions[x]) /\ publish[x].at = "none" /\ author[a].at = "idle"
      /\ CurrentOf(x).status = "unpublished"
  BY DEF CheckAccept, Acceptable, Existing, CurrentOf, Takes
<1>3. PICK shape \in ShapeRow : shape = CurrentOf(x).shape
  BY <1>1, <1>2, TypedRows
<1>4. PICK codes \in SUBSET Code : codes = (IF shape.dict THEN Active ELSE {})
  BY DEF Active
<1>5. PICK p : p = [at |-> "frozen", keys |-> TargetKey(x), codes |-> codes, deprecated |-> dictionary = "deprecated"]
  OBVIOUS
<1>6. p \in PublishRow /\ p.at = "frozen" /\ DOMAIN p.keys = Last(versions[x]).shape.refs
      /\ (p.codes # {} => Last(versions[x]).shape.dict)
  <2>1. TargetKey(x) \in BoundKeys /\ DOMAIN TargetKey(x) = Last(versions[x]).shape.refs
    BY <1>1, <1>2, FrozenKeys
  <2>2. p.at = "frozen" /\ p.keys = TargetKey(x) /\ p.codes = codes
    BY <1>5
  <2>3. p \in PublishRow
    BY <1>5, <2>1 DEF PublishRow
  <2>4. QED
    BY <1>2, <1>3, <1>4, <2>1, <2>2, <2>3
<1>7. PICK r : r = [at |-> "accept", of |-> x, shape |-> shape, seen |-> versions[x]]
  OBVIOUS
<1>8. /\ publish' = [publish EXCEPT ![x] = p] /\ author' = [author EXCEPT ![a] = r]
      /\ UNCHANGED <<life, versions, dictionary, listed>>
  BY <1>3, <1>4, <1>5, <1>7 DEF CheckAccept, Takes
<1>9. /\ publish' \in [Entity -> PublishRow] /\ publish'[x] = p
      /\ \A e \in Entity \ {x} : publish'[e] = publish[e]
  BY <1>1, <1>6, <1>8 DEF DefinitionsTyped
<1>10. PublishFits(x)'
  BY <1>6, <1>9 DEF PublishFits
<1>11. /\ author' = [b \in Author \cup Editor |-> author'[b]] /\ author'[a] = r
       /\ \A b \in Author \cup Editor : b # a => author'[b] = author[b]
  BY <1>1, <1>8 DEF DefinitionsTyped
<1>12. \A b \in Author \cup Editor : author[b].at = "accept" => author[b].of \in Entity \ {x}
  BY <1>1, <1>2 DEF AuthorFits, Submits
<1>13. r.at = "accept" /\ r.of = x /\ r.shape \in ShapeRow /\ r.seen = versions[x]
  BY <1>3, <1>7
<1>14. ASSUME NEW b \in Author \cup Editor PROVE AuthorFits(b)'
  <2>1. CASE b = a
    <3>1. \A d \in Author \cup Editor : author'[d].at = "accept" /\ author'[d].of = x => d = a
      BY <1>11, <1>12
    <3>2. QED
      BY <1>2, <1>6, <1>9, <1>11, <1>13, <2>1, <3>1 DEF AuthorFits
  <2>2. CASE b # a
    <3>1. AuthorFits(b) /\ author'[b] = author[b]
      BY <1>1, <1>11, <2>2
    <3>2. author[b].at = "accept" =>
             /\ publish'[author[b].of] = publish[author[b].of]
             /\ \A d \in Author \cup Editor : author'[d].at = "accept" /\ author'[d].of = author[b].of => author'[d] = author[d]
      BY <1>9, <1>11, <1>12, <1>13
    <3>3. QED
      BY <3>1, <3>2 DEF AuthorFits
  <2>3. QED
    BY <2>1, <2>2
<1>15. QED
  BY <1>2, <1>8, <1>9, <1>10, <1>11, <1>14, PublishMoves

LEMMA CheckEntriesKeeps ==
  ASSUME KeptDefinitions, NEW a \in Author \cup Editor, CheckEntries(a) \/ CheckDeleteDictionary(a)
  PROVE  KeptDefinitions'
<1>1. PICK r : /\ r.at \in {"entries", "undefine"} /\ author' = [author EXCEPT ![a] = r] /\ author[a].at = "idle"
               /\ UNCHANGED <<life, versions, dictionary, listed, publish>>
  <2>1. CASE CheckEntries(a)
    <3>1. PICK r : r = [Free EXCEPT !.at = "entries", !.seen = <<Snapshotted>>]
      OBVIOUS
    <3>2. r.at = "entries"
      BY <3>1 DEF Free
    <3>3. QED
      BY <2>1, <3>1, <3>2 DEF CheckEntries
  <2>2. CASE CheckDeleteDictionary(a)
    <3>1. PICK r : r = [Free EXCEPT !.at = "undefine"]
      OBVIOUS
    <3>2. r.at = "undefine"
      BY <3>1 DEF Free
    <3>3. QED
      BY <2>2, <3>1, <3>2 DEF CheckDeleteDictionary
  <2>3. QED
    BY <2>1, <2>2
<1>2. r.at # "accept" /\ r.at \notin Submits
  BY <1>1 DEF Submits
<1>3. /\ author' = [b \in Author \cup Editor |-> author'[b]]
      /\ \A b \in Author \cup Editor : AuthorFits(b)'
  BY <1>1, <1>2, TakesFits
<1>4. /\ dictionary' \in {"live", "deprecated", "gone"} /\ Listed' = Listed
      /\ listed' \in [Code -> {"absent", "active", "inactive"}]
  BY <1>1 DEF KeptDefinitions, DefinitionsTyped, Listed
<1>5. QED
  BY <1>1, <1>3, <1>4, CodesFit, DictionaryChange

\* What an editor removes is in no version, and bound by no publish.
LEMMA SaveEntriesKeeps ==
  ASSUME KeptDefinitions, NEW a \in Author \cup Editor, SaveEntries(a), ~crossed'
  PROVE  KeptDefinitions'
<1>1. author' = [author EXCEPT ![a] = Free] /\ author[a].at = "entries"
      /\ UNCHANGED <<life, versions, dictionary, publish>>
  BY DEF SaveEntries, Writes
<1>2. /\ author' = [b \in Author \cup Editor |-> author'[b]]
      /\ \A b \in Author \cup Editor : AuthorFits(b)'
  BY <1>1, AuthorsFit
<1>3. dictionary' \in {"live", "deprecated", "gone"} /\ listed \in [Code -> {"absent", "active", "inactive"}]
  BY <1>1 DEF KeptDefinitions, DefinitionsTyped
<1>4. CASE UNCHANGED listed
  <2>1. Listed' = Listed
    BY <1>4 DEF Listed
  <2>2. QED
    BY <1>1, <1>2, <1>3, <1>4, <2>1, CodesFit, DictionaryChange
<1>5. CASE ~UNCHANGED listed
  <2>1. PICK entries \in [Code -> {"absent", "active", "inactive"}] :
           listed' = entries /\ \A c \in Listed : entries[c] = "absent" => ~InUse(c)
    BY <1>5 DEF SaveEntries
  <2>2. ASSUME NEW c \in Listed, InUse(c) PROVE c \in Listed'
    BY <2>1, <2>2 DEF Listed
  <2>3. ASSUME NEW e \in Entity, NEW i \in DOMAIN versions[e] PROVE versions[e][i].codes \subseteq Listed'
    <3>1. versions[e][i].codes \subseteq Snapshotted
      BY <2>3 DEF Snapshotted
    <3>2. versions[e][i].codes \subseteq Listed
      BY <2>3, CodesFit
    <3>3. QED
      BY <2>2, <3>1, <3>2 DEF InUse
  <2>4. ASSUME NEW e \in Entity, publish[e].at = "bound" PROVE publish[e].codes \subseteq Listed'
    <3>1. publish[e].codes \subseteq Listed
      BY <2>4, CodesFit
    <3>2. QED
      BY <2>2, <2>4, <3>1 DEF InUse
  <2>5. listed' \in [Code -> {"absent", "active", "inactive"}]
    BY <2>1
  <2>6. \A e \in Entity : \A i \in DOMAIN versions[e] : versions[e][i].shape.dict => dictionary' # "gone"
    BY <1>1, CodesFit
  <2>7. QED
    BY <1>1, <1>2, <1>3, <2>3, <2>4, <2>5, <2>6, DictionaryChange
<1>6. QED
  BY <1>4, <1>5

LEMMA DictionaryKeeps ==
  ASSUME KeptDefinitions, DeprecateDictionary \/ RestoreDictionary
  PROVE  KeptDefinitions'
<1>1. /\ dictionary # "gone" /\ dictionary' \in {"live", "deprecated"}
      /\ UNCHANGED <<life, versions, publish, listed, author>>
  BY DEF DeprecateDictionary, RestoreDictionary
<1>2. /\ author = [b \in Author \cup Editor |-> author[b]] /\ \A b \in Author \cup Editor : AuthorFits(b)
      /\ listed \in [Code -> {"absent", "active", "inactive"}]
  BY DEF KeptDefinitions, DefinitionsTyped
<1>3. Listed' = Listed
  BY <1>1 DEF Listed
<1>4. \A b \in Author \cup Editor : AuthorFits(b)'
  BY <1>1, <1>2 DEF AuthorFits
<1>5. dictionary' \in {"live", "deprecated", "gone"} /\ dictionary' # "gone" /\ listed' = listed
  BY <1>1
<1>6. author' = [b \in Author \cup Editor |-> author'[b]]
  BY <1>1, <1>2
<1>7. QED
  BY <1>1, <1>2, <1>3, <1>4, <1>5, <1>6, CodesFit, DictionaryChange

LEMMA UndefineKeeps ==
  ASSUME KeptDefinitions, NEW a \in Author \cup Editor, DeleteDictionary(a), ~crossed'
  PROVE  KeptDefinitions'
<1>1. author' = [author EXCEPT ![a] = Free] /\ author[a].at = "undefine" /\ ~Used /\ dictionary' = "gone"
      /\ UNCHANGED <<life, versions, listed, publish>>
  BY DEF DeleteDictionary, Writes
<1>2. /\ author' = [b \in Author \cup Editor |-> author'[b]]
      /\ \A b \in Author \cup Editor : AuthorFits(b)'
  BY <1>1, AuthorsFit
<1>3. ASSUME NEW e \in Entity, NEW i \in DOMAIN versions[e] PROVE ~versions[e][i].shape.dict
  <2>1. versions[e] # <<>>
    BY <1>3
  <2>2. QED
    BY <1>1, <1>3, <2>1 DEF Used, Existing
<1>4. listed' \in [Code -> {"absent", "active", "inactive"}] /\ Listed' = Listed
  BY <1>1 DEF KeptDefinitions, DefinitionsTyped, Listed
<1>5. QED
  BY <1>1, <1>2, <1>3, <1>4, CodesFit, DictionaryChange

LEMMA DefinitionsInitInv == DefinitionsInit => DefinitionsInv
<1> SUFFICES ASSUME DefinitionsInit PROVE crossed \in BOOLEAN /\ KeptDefinitions
  BY DEF DefinitionsInv
<1>1. /\ life = [e \in Entity |-> "none"] /\ versions = [e \in Entity |-> <<>>] /\ dictionary = "live"
      /\ listed = [c \in Code |-> "active"] /\ author = [a \in Author \cup Editor |-> Free]
      /\ publish = [e \in Entity |-> NoPublish] /\ crossed = FALSE
  BY DEF DefinitionsInit
<1>2. NoPublish \in PublishRow /\ NoPublish.at = "none" /\ Free.at = "idle" /\ "idle" \notin Submits
  BY NothingServes DEF NoPublish, PublishRow, Free, Submits
<1>3. DefinitionsTyped
  <2>1. versions \in [Entity -> Seq(DefinitionRow)] /\ publish \in [Entity -> PublishRow]
    BY <1>1, <1>2, NothingServes
  <2>2. QED
    BY <1>1, <2>1 DEF DefinitionsTyped
<1>4. VersionsFit
  BY <1>1 DEF VersionsFit
<1>5. ASSUME NEW e \in Entity PROVE ServingFits(e) /\ PublishFits(e)
  <2>1. versions[e] = <<>> /\ publish[e].at = "none"
    BY <1>1, <1>2
  <2>2. QED
    BY <2>1, NothingServes DEF ServingFits, PublishFits
<1>6. ASSUME NEW a \in Author \cup Editor PROVE AuthorFits(a)
  BY <1>1, <1>2, <1>6 DEF AuthorFits
<1>7. QED
  BY <1>1, <1>3, <1>4, <1>5, <1>6 DEF KeptDefinitions

LEMMA DefinitionsInvStep == DefinitionsInv /\ [DefinitionsNext]_definitionVars => DefinitionsInv'
<1> SUFFICES ASSUME DefinitionsInv, [DefinitionsNext]_definitionVars PROVE DefinitionsInv'
  OBVIOUS
<1>1. /\ crossed' \in BOOLEAN /\ (crossed => crossed')
  BY DEF DefinitionsInv, DefinitionsNext, definitionVars, Checks, Takes, CheckAccept, SaveCreate,
         SavePatch, SaveOpen, SaveDeprecate, DeleteEntity, Requested, SaveAccept, CheckEntries, SaveEntries,
         CheckDeleteDictionary, DeleteDictionary, Bind, StoreBound, RollBack, DropHead,
         DeprecateDictionary, RestoreDictionary
<1>2. SUFFICES ASSUME ~crossed' PROVE KeptDefinitions'
  BY <1>1 DEF DefinitionsInv
<1>3. KeptDefinitions
  BY <1>1, <1>2 DEF DefinitionsInv
<1>4. ASSUME NEW a \in Author, NEW e \in Entity, Checks(a, e) \/ CheckAccept(a, e) PROVE KeptDefinitions'
  BY <1>3, <1>4, ChecksKeeps, CheckAcceptKeeps
<1>5. ASSUME NEW a \in Author,
             SaveCreate(a) \/ SavePatch(a) \/ SaveOpen(a) \/ SaveDeprecate(a) \/ DeleteEntity(a)
      PROVE  KeptDefinitions'
  <2>1. ~Late(a)
    BY <1>2, <1>5 DEF SaveCreate, SavePatch, SaveOpen, SaveDeprecate, DeleteEntity, Requested
  <2>2. QED
    BY <1>3, <1>5, <2>1, CreateKeeps, PatchKeeps, OpenKeeps, DeprecateKeeps, DeleteKeeps
<1>6. ASSUME NEW a \in Author, SaveAccept(a) PROVE KeptDefinitions'
  <2>1. versions[author[a].of] = author[a].seen
    BY <1>2, <1>6 DEF SaveAccept
  <2>2. QED
    BY <1>3, <1>6, <2>1, AcceptKeeps
<1>7. ASSUME NEW a \in Editor,
             CheckEntries(a) \/ SaveEntries(a) \/ CheckDeleteDictionary(a) \/ DeleteDictionary(a)
      PROVE  KeptDefinitions'
  BY <1>2, <1>3, <1>7, CheckEntriesKeeps, SaveEntriesKeeps, UndefineKeeps
<1>8. ASSUME NEW e \in Entity, Bind(e) \/ StoreBound(e) \/ RollBack(e) \/ DropHead(e) PROVE KeptDefinitions'
  BY <1>3, <1>8, BindKeeps, StoreKeeps, RollBackKeeps, DropHeadKeeps
<1>9. CASE DeprecateDictionary \/ RestoreDictionary
  BY <1>3, <1>9, DictionaryKeeps
<1>10. CASE UNCHANGED definitionVars
  <2>1. UNCHANGED <<life, versions, dictionary, listed, author, publish>>
    BY <1>10 DEF definitionVars
  <2>2. /\ author' = [b \in Author \cup Editor |-> author'[b]]
        /\ dictionary' \in {"live", "deprecated", "gone"} /\ listed' \in [Code -> {"absent", "active", "inactive"}]
        /\ \A b \in Author \cup Editor : AuthorFits(b)
    BY <1>3, <2>1 DEF KeptDefinitions, DefinitionsTyped
  <2>3. \A b \in Author \cup Editor : AuthorFits(b)'
    BY <2>1, <2>2 DEF AuthorFits
  <2>4. Listed' = Listed
    BY <2>1 DEF Listed
  <2>5. QED
    BY <1>3, <2>1, <2>2, <2>3, <2>4, CodesFit, DictionaryChange
<1>11. QED
  BY <1>4, <1>5, <1>6, <1>7, <1>8, <1>9, <1>10 DEF DefinitionsNext

LEMMA InvKeepsDefinitions == DefinitionsInv => DefinitionsAreKept
<1> SUFFICES ASSUME KeptDefinitions PROVE BindingsHold /\ CodesStayListed
  BY DEF DefinitionsInv, DefinitionsAreKept
<1>1. DefinitionsTyped /\ VersionsFit
  BY DEF KeptDefinitions
<1>2. BindingsHold
  <2>1. SUFFICES ASSUME NEW e \in Existing, HeadOf(e) # 0, versions[e][HeadOf(e)].present,
                        NEW t \in (DOMAIN versions[e][HeadOf(e)].bound \cap Existing) \ {e}
                 PROVE  CurrentOf(t).shape.key = versions[e][HeadOf(e)].bound[t]
    BY DEF BindingsHold
  <2>2. e \in Entity /\ t \in Entity /\ HeadOf(e) = HeadIn(versions[e])
    BY <1>1, TypedRows DEF Existing
  <2>3. ServingBound(versions[e]) = versions[e][HeadOf(e)].bound
    BY <2>1, <2>2 DEF ServingBound
  <2>4. ServingFits(e)
    BY <2>2 DEF KeptDefinitions
  <2>5. QED
    BY <2>1, <2>3, <2>4 DEF ServingFits, KeyOf, CurrentOf
<1>3. Snapshotted \subseteq Listed
  BY CodesFit DEF Snapshotted
<1>4. Used => dictionary # "gone"
  BY CodesFit DEF Used, Existing
<1>5. QED
  BY <1>2, <1>3, <1>4 DEF CodesStayListed

\* However requests, publishes and edits of the Dictionary interleave: the key
\* that a serving head refers by is still its target's (bind_reference_publish,
\* require_business_key_stable), the codes of every snapshot are still listed
\* (bind_publish, update_dictionary), and a Dictionary that a version names is
\* there - as long as no request wrote after what it had checked was over.
THEOREM DefinitionsStayKept == DefinitionsSpec => []DefinitionsAreKept
<1>1. DefinitionsSpec => []DefinitionsInv
  BY DefinitionsInitInv, DefinitionsInvStep, PTL DEF DefinitionsSpec
<1>2. QED
  BY <1>1, InvKeepsDefinitions, PTL

-----------------------------------------------------------------------------
(* The types of definitions, crossed or not *)

\* The versions of e, or a copy of them.
VersionsOf(e, ws) ==
  /\ ws \in Seq(DefinitionRow) /\ Len(ws) <= MaxOpened
  /\ \A i \in 1..Len(ws) : ws[i].shape \in Shape[e]

\* What a request submits is a definition of its entity, and what it saw was there.
Submitted(a) ==
  LET of == author[a].of  seen == author[a].seen IN
  /\ of \in Entity \cup {NoKey}
  /\ author[a].at \in Submits => of \in Entity /\ VersionsOf(of, seen)
  /\ author[a].at \in {"create", "patch", "open", "accept"} => author[a].shape \in Shape[of]
  /\ author[a].at \in Submits \ {"create"} => seen # <<>> /\ life[of] # "none"
  /\ author[a].at = "open" => Len(seen) < MaxOpened

DefinitionsShaped ==
  /\ DefinitionsTyped
  /\ \A e \in Entity : VersionsOf(e, versions[e])
  /\ \A a \in Author \cup Editor : Submitted(a)

LEMMA RowChange ==
  ASSUME NEW x \in Entity, NEW ws, VersionsOf(x, ws), NEW n, NEW row \in DefinitionRow, row.shape \in Shape[x],
         NEW vs, vs = WithRow(ws, n, row)
  PROVE  VersionsOf(x, vs) /\ (ws # <<>> <=> vs # <<>>)
<1>1. ws \in Seq(DefinitionRow) /\ Len(ws) \in Nat /\ DOMAIN ws = 1..Len(ws) /\ Len(<<>>) = 0
  BY DEF VersionsOf
<1>3. vs \in Seq(DefinitionRow) /\ Len(vs) = Len(ws) /\ \A j \in 1..Len(ws) : vs[j] = IF j = n THEN row ELSE ws[j]
  <2>1. CASE n \in 1..Len(ws)
    BY <1>1, <2>1, ExceptSeq DEF WithRow
  <2>2. CASE n \notin 1..Len(ws)
    <3>1. vs = ws
      BY <1>1, <2>2 DEF WithRow
    <3>2. QED
      BY <1>1, <2>2, <3>1
  <2>3. QED
    BY <2>1, <2>2
<1>4. ws # <<>> <=> vs # <<>>
  BY <1>1, <1>3
<1>5. VersionsOf(x, vs)
  BY <1>3 DEF VersionsOf
<1>6. QED
  BY <1>4, <1>5

\* A step that leaves what requests hold or takes up what is typed.
LEMMA ShapesKept ==
  ASSUME DefinitionsShaped,
         life' \in [Entity -> {"none", "live", "deprecated", "gone"}],
         \A e \in Entity : life[e] # "none" => life'[e] # "none",
         versions' = [e \in Entity |-> versions'[e]],
         \A e \in Entity : /\ VersionsOf(e, versions'[e])
                           /\ versions'[e] # <<>> <=> life'[e] \in {"live", "deprecated"},
         dictionary' \in {"live", "deprecated", "gone"},
         listed' \in [Code -> {"absent", "active", "inactive"}],
         publish' \in [Entity -> PublishRow],
         author' = [b \in Author \cup Editor |-> author'[b]],
         \A b \in Author \cup Editor : author'[b] = author[b] \/ author'[b] = Free \/ Submitted(b)'
  PROVE  DefinitionsShaped'
<1>1. versions' \in [Entity -> Seq(DefinitionRow)]
  <2>1. \A e \in Entity : versions'[e] \in Seq(DefinitionRow)
    BY DEF VersionsOf
  <2>2. QED
    BY <2>1
<1>2. DefinitionsTyped'
  BY <1>1 DEF DefinitionsTyped
<1>3. ASSUME NEW e \in Entity PROVE VersionsOf(e, versions[e])'
  BY DEF VersionsOf
<1>4. ASSUME NEW b \in Author \cup Editor PROVE Submitted(b)'
  <2>1. CASE author'[b] = author[b]
    <3>1. Submitted(b)
      BY DEF DefinitionsShaped
    <3>2. QED
      BY <2>1, <3>1 DEF Submitted, VersionsOf, Submits
  <2>2. CASE author'[b] = Free
    BY <2>2 DEF Submitted, Free, Submits
  <2>3. QED
    BY <2>1, <2>2
<1>5. QED
  BY <1>2, <1>3, <1>4 DEF DefinitionsShaped

\* The versions of one entity are replaced.
LEMMA OneReplaced ==
  ASSUME DefinitionsShaped, NEW x \in Entity, NEW vs, VersionsOf(x, vs), versions' = [versions EXCEPT ![x] = vs]
  PROVE  /\ versions' = [e \in Entity |-> versions'[e]] /\ versions'[x] = vs
         /\ \A e \in Entity : VersionsOf(e, versions'[e])
         /\ \A e \in Entity \ {x} : versions'[e] = versions[e]
<1>1. versions = [e \in Entity |-> versions[e]] /\ \A e \in Entity : VersionsOf(e, versions[e])
  BY DEF DefinitionsShaped, DefinitionsTyped
<1>2. /\ versions' = [e \in Entity |-> versions'[e]] /\ versions'[x] = vs
      /\ \A e \in Entity \ {x} : versions'[e] = versions[e]
  BY <1>1
<1>3. QED
  BY <1>1, <1>2

LEMMA ShapedFacts ==
  ASSUME DefinitionsShaped
  PROVE  /\ life \in [Entity -> {"none", "live", "deprecated", "gone"}]
         /\ versions = [e \in Entity |-> versions[e]] /\ versions \in [Entity -> Seq(DefinitionRow)]
         /\ \A e \in Entity : /\ VersionsOf(e, versions[e])
                              /\ versions[e] # <<>> <=> life[e] \in {"live", "deprecated"}
                              /\ e \in Existing <=> versions[e] # <<>>
         /\ dictionary \in {"live", "deprecated", "gone"} /\ listed \in [Code -> {"absent", "active", "inactive"}]
         /\ publish \in [Entity -> PublishRow]
         /\ author = [b \in Author \cup Editor |-> author[b]]
         /\ \A b \in Author \cup Editor : Submitted(b)
BY DEF DefinitionsShaped, DefinitionsTyped, Existing

\* A copy that is not empty has a last row, of its entity.
LEMMA LastOf ==
  ASSUME NEW x \in Entity, NEW ws, VersionsOf(x, ws), ws # <<>>
  PROVE  /\ Last(ws) \in DefinitionRow /\ Last(ws).shape \in Shape[x]
         /\ Len(ws) \in 1..Len(ws) /\ Last(ws) = ws[Len(ws)]
<1>1. ws \in Seq(DefinitionRow) /\ Len(ws) \in 1..Len(ws)
  BY DEF VersionsOf
<1>2. QED
  BY <1>1 DEF Last, VersionsOf

\* A request has ended: the rest of what it wrote.
LEMMA Ended ==
  ASSUME DefinitionsShaped, NEW a \in Author \cup Editor, author' = [author EXCEPT ![a] = Free]
  PROVE  /\ author' = [b \in Author \cup Editor |-> author'[b]]
         /\ \A b \in Author \cup Editor : author'[b] = author[b] \/ author'[b] = Free
BY DEF DefinitionsShaped, DefinitionsTyped

-----------------------------------------------------------------------------
LEMMA CreateShapes ==
  ASSUME DefinitionsShaped, NEW a \in Author \cup Editor, SaveCreate(a)
  PROVE  DefinitionsShaped'
<1>1. /\ author[a].at = "create" /\ author' = [author EXCEPT ![a] = Free]
      /\ UNCHANGED <<dictionary, listed, publish>>
  BY DEF SaveCreate, Requested, Writes
<1>2. PICK x \in Entity, shape \in ShapeRow : x = author[a].of /\ shape = author[a].shape /\ shape \in Shape[x]
  <2>1. Submitted(a)
    BY DEF DefinitionsShaped
  <2>2. QED
    BY <1>1, <2>1, ShapesFit DEF Submitted, Submits
<1>3. CASE life[x] = "none"
  <2>1. PICK vs : vs = <<Version(shape)>>
    OBVIOUS
  <2>2. VersionsOf(x, vs) /\ vs # <<>>
    BY <1>2, <2>1, VersionRow, DefinitionsAssumption DEF VersionsOf
  <2>3. life' = [life EXCEPT ![x] = "live"] /\ versions' = [versions EXCEPT ![x] = vs]
    BY <1>2, <1>3, <2>1 DEF SaveCreate
  <2>4. /\ life' \in [Entity -> {"none", "live", "deprecated", "gone"}] /\ life'[x] = "live"
        /\ \A e \in Entity \ {x} : life'[e] = life[e]
    BY <2>3, ShapedFacts
  <2>5. \A e \in Entity : versions'[e] # <<>> <=> life'[e] \in {"live", "deprecated"}
    BY <2>2, <2>3, <2>4, OneReplaced, ShapedFacts
  <2>6. QED
    BY <1>1, <2>2, <2>3, <2>4, <2>5, OneReplaced, ShapedFacts, Ended, ShapesKept
<1>4. CASE life[x] # "none"
  <2>1. UNCHANGED <<life, versions>>
    BY <1>2, <1>4 DEF SaveCreate
  <2>2. QED
    BY <1>1, <2>1, ShapedFacts, Ended, ShapesKept
<1>5. QED
  BY <1>3, <1>4

\* A version is saved from the copy that a request holds.
LEMMA SaveShapes ==
  ASSUME DefinitionsShaped, NEW x \in Entity, NEW n, NEW row \in DefinitionRow, row.shape \in Shape[x],
         versions' = [versions EXCEPT ![x][n] = row], life' = life, dictionary' = dictionary, listed' = listed,
         publish' \in [Entity -> PublishRow],
         author' = [b \in Author \cup Editor |-> author'[b]],
         \A b \in Author \cup Editor : author'[b] = author[b] \/ author'[b] = Free
  PROVE  DefinitionsShaped'
<1>1. PICK ws : ws = versions[x] /\ VersionsOf(x, ws)
  BY ShapedFacts
<1>2. PICK vs : vs = WithRow(ws, n, row)
  OBVIOUS
<1>3. VersionsOf(x, vs) /\ (vs # <<>> <=> ws # <<>>)
  BY <1>1, <1>2, RowChange
<1>4. versions' = [versions EXCEPT ![x] = vs]
  BY <1>1, <1>2, ShapedFacts DEF WithRow
<1>5. \A e \in Entity : versions'[e] # <<>> <=> life'[e] \in {"live", "deprecated"}
  BY <1>1, <1>3, <1>4, OneReplaced, ShapedFacts
<1>6. QED
  BY <1>3, <1>4, <1>5, OneReplaced, ShapedFacts, ShapesKept

LEMMA PatchShapes ==
  ASSUME DefinitionsShaped, NEW a \in Author \cup Editor, SavePatch(a)
  PROVE  DefinitionsShaped'
<1>1. /\ author[a].at = "patch" /\ author' = [author EXCEPT ![a] = Free]
      /\ UNCHANGED <<life, dictionary, listed, publish>>
  BY DEF SavePatch, Requested, Writes
<1>2. PICK x, shape, seen : x = author[a].of /\ shape = author[a].shape /\ seen = author[a].seen
  OBVIOUS
<1>3. x \in Entity /\ shape \in Shape[x] /\ shape \in ShapeRow /\ VersionsOf(x, seen) /\ seen # <<>>
  BY <1>1, <1>2, ShapedFacts, ShapesFit DEF Submitted, Submits
<1>4. CASE x \notin Existing
  <2>1. versions' = versions
    BY <1>2, <1>4 DEF SavePatch
  <2>2. QED
    BY <1>1, <2>1, ShapedFacts, Ended, ShapesKept
<1>5. CASE x \in Existing
  <2>1. PICK row : row = [Last(seen) EXCEPT !.shape = shape]
    OBVIOUS
  <2>2. row \in DefinitionRow /\ row.shape = shape
    BY <1>3, <2>1, LastOf DEF DefinitionRow
  <2>3. versions' = [versions EXCEPT ![x][Len(seen)] = row]
    BY <1>2, <1>5, <2>1 DEF SavePatch
  <2>4. QED
    BY <1>1, <1>3, <2>2, <2>3, ShapedFacts, Ended, SaveShapes
<1>6. QED
  BY <1>4, <1>5

LEMMA AcceptShapes ==
  ASSUME DefinitionsShaped, NEW a \in Author \cup Editor, SaveAccept(a)
  PROVE  DefinitionsShaped'
<1>1. /\ author[a].at = "accept" /\ author' = [author EXCEPT ![a] = Free]
      /\ UNCHANGED <<life, dictionary, listed>>
  BY DEF SaveAccept, Writes
<1>2. PICK x, seen : x = author[a].of /\ seen = author[a].seen
  OBVIOUS
<1>3. x \in Entity /\ VersionsOf(x, seen) /\ seen # <<>>
  BY <1>1, <1>2, ShapedFacts DEF Submitted, Submits
<1>4. publish' \in [Entity -> PublishRow]
  <2>1. publish \in [Entity -> PublishRow] /\ NoPublish \in PublishRow
    BY ShapedFacts, NothingServes DEF NoPublish, PublishRow
  <2>2. PICK p \in PublishRow : p = publish[x]
    BY <1>3, <2>1
  <2>3. [p EXCEPT !.at = "queued"] \in PublishRow
    BY DEF PublishRow
  <2>4. publish' = [publish EXCEPT ![x] = IF x \in Existing THEN [p EXCEPT !.at = "queued"] ELSE NoPublish]
    BY <1>2, <1>3, <2>1, <2>2 DEF SaveAccept
  <2>5. QED
    BY <2>1, <2>3, <2>4
<1>5. CASE x \notin Existing
  <2>1. versions' = versions
    BY <1>2, <1>5 DEF SaveAccept
  <2>2. QED
    BY <1>1, <1>4, <2>1, ShapedFacts, Ended, ShapesKept
<1>6. CASE x \in Existing
  <2>1. PICK row : row = [Last(seen) EXCEPT !.status = "publishing"]
    OBVIOUS
  <2>2. row \in DefinitionRow /\ row.shape \in Shape[x]
    <3>1. PICK v \in DefinitionRow : v = Last(seen) /\ v.shape \in Shape[x]
      BY <1>3, LastOf
    <3>2. QED
      BY <2>1, <3>1 DEF DefinitionRow
  <2>3. versions' = [versions EXCEPT ![x][Len(seen)] = row]
    BY <1>2, <1>6, <2>1 DEF SaveAccept
  <2>4. QED
    BY <1>1, <1>3, <1>4, <2>2, <2>3, ShapedFacts, Ended, SaveShapes
<1>7. QED
  BY <1>5, <1>6

LEMMA OpenShapes ==
  ASSUME DefinitionsShaped, NEW a \in Author \cup Editor, SaveOpen(a)
  PROVE  DefinitionsShaped'
<1>1. /\ author[a].at = "open" /\ author' = [author EXCEPT ![a] = Free]
      /\ UNCHANGED <<life, dictionary, listed, publish>>
  BY DEF SaveOpen, Requested, Writes
<1>2. PICK x, shape, seen : x = author[a].of /\ shape = author[a].shape /\ seen = author[a].seen
  OBVIOUS
<1>3. /\ x \in Entity /\ shape \in Shape[x] /\ shape \in ShapeRow /\ VersionsOf(x, seen) /\ seen # <<>>
      /\ Len(seen) < MaxOpened
  BY <1>1, <1>2, ShapedFacts, ShapesFit DEF Submitted, Submits
<1>4. CASE Len(versions[x]) # Len(seen)
  <2>1. versions' = versions
    BY <1>2, <1>4 DEF SaveOpen
  <2>2. QED
    BY <1>1, <2>1, ShapedFacts, Ended, ShapesKept
<1>5. CASE Len(versions[x]) = Len(seen)
  <2>1. PICK ws : ws = versions[x] /\ VersionsOf(x, ws) /\ Len(ws) < MaxOpened /\ ws # <<>>
    <3>1. VersionsOf(x, versions[x])
      BY <1>3, ShapedFacts
    <3>2. versions[x] # <<>>
      BY <1>3, <1>5 DEF VersionsOf
    <3>3. QED
      BY <1>3, <1>5, <3>1, <3>2
  <2>2. PICK row \in DefinitionRow : row = Version(shape) /\ row.shape = shape
    BY <1>3, VersionRow
  <2>3. PICK vs : vs = Append(ws, row)
    OBVIOUS
  <2>4. VersionsOf(x, vs) /\ vs # <<>>
    <3>1. ws \in Seq(DefinitionRow)
      BY <2>1 DEF VersionsOf
    <3>2. /\ vs \in Seq(DefinitionRow) /\ Len(vs) = Len(ws) + 1 /\ vs[Len(ws) + 1] = row
          /\ \A j \in 1..Len(ws) : vs[j] = ws[j]
      BY <2>3, <3>1
    <3>3. \A i \in 1..Len(vs) : vs[i].shape \in Shape[x]
      BY <1>3, <2>1, <2>2, <3>1, <3>2 DEF VersionsOf
    <3>4. QED
      BY <2>1, <3>1, <3>2, <3>3, DefinitionsAssumption DEF VersionsOf
  <2>5. versions' = [versions EXCEPT ![x] = vs]
    BY <1>2, <1>3, <1>5, <2>1, <2>2, <2>3, ShapedFacts DEF SaveOpen
  <2>6. \A e \in Entity : versions'[e] # <<>> <=> life'[e] \in {"live", "deprecated"}
    BY <1>1, <1>3, <2>1, <2>4, <2>5, OneReplaced, ShapedFacts
  <2>7. QED
    BY <1>1, <1>3, <2>4, <2>5, <2>6, OneReplaced, ShapedFacts, Ended, ShapesKept
<1>6. QED
  BY <1>4, <1>5

LEMMA DeprecateShapes ==
  ASSUME DefinitionsShaped, NEW a \in Author \cup Editor, SaveDeprecate(a)
  PROVE  DefinitionsShaped'
<1>1. /\ author' = [author EXCEPT ![a] = Free]
      /\ UNCHANGED <<dictionary, listed, publish, versions>>
      /\ life' = [life EXCEPT ![author[a].of] = IF @ = "live" THEN "deprecated" ELSE @]
  BY DEF SaveDeprecate, Requested, Writes
<1>2. /\ life' \in [Entity -> {"none", "live", "deprecated", "gone"}]
      /\ \A e \in Entity : /\ life[e] # "none" => life'[e] # "none"
                           /\ life'[e] \in {"live", "deprecated"} <=> life[e] \in {"live", "deprecated"}
  BY <1>1, ShapedFacts
<1>3. QED
  BY <1>1, <1>2, ShapedFacts, Ended, ShapesKept

LEMMA DeleteShapes ==
  ASSUME DefinitionsShaped, NEW a \in Author \cup Editor, DeleteEntity(a)
  PROVE  DefinitionsShaped'
<1>1. /\ author[a].at = "delete" /\ author' = [author EXCEPT ![a] = Free]
      /\ UNCHANGED <<dictionary, listed, publish>>
  BY DEF DeleteEntity, Requested, Writes
<1>2. PICK x \in Entity : x = author[a].of
  BY <1>1, ShapedFacts DEF Submitted, Submits
<1>3. life' = [life EXCEPT ![x] = "gone"] /\ versions' = [versions EXCEPT ![x] = <<>>]
  BY <1>2 DEF DeleteEntity
<1>4. VersionsOf(x, <<>>)
  BY DefinitionsAssumption DEF VersionsOf
<1>5. /\ life' \in [Entity -> {"none", "live", "deprecated", "gone"}] /\ life'[x] = "gone"
      /\ \A e \in Entity \ {x} : life'[e] = life[e]
  BY <1>3, ShapedFacts
<1>6. \A e \in Entity : versions'[e] # <<>> <=> life'[e] \in {"live", "deprecated"}
  BY <1>3, <1>4, <1>5, OneReplaced, ShapedFacts
<1>7. QED
  BY <1>1, <1>3, <1>4, <1>5, <1>6, OneReplaced, ShapedFacts, Ended, ShapesKept

-----------------------------------------------------------------------------
\* A request is taken up.
LEMMA TakesShapes ==
  ASSUME DefinitionsShaped, NEW a \in Author \cup Editor, NEW x \in Entity, NEW kind \in Submits, NEW shape,
         kind \in {"create", "patch", "open", "accept"} => shape \in Shape[x],
         kind # "create" => life[x] \in {"live", "deprecated"},
         kind = "open" => Len(versions[x]) < MaxOpened,
         author' = [author EXCEPT ![a] = [at |-> kind, of |-> x, shape |-> shape, seen |-> versions[x]]],
         UNCHANGED <<life, versions, dictionary, listed>>, publish' \in [Entity -> PublishRow]
  PROVE  DefinitionsShaped'
<1>1. PICK r : r = [at |-> kind, of |-> x, shape |-> shape, seen |-> versions[x]]
  OBVIOUS
<1>2. /\ author' = [b \in Author \cup Editor |-> author'[b]] /\ author'[a] = r
      /\ \A b \in (Author \cup Editor) \ {a} : author'[b] = author[b]
  BY <1>1, ShapedFacts
<1>3. Submitted(a)'
  <2>1. VersionsOf(x, versions[x]) /\ (kind # "create" => versions[x] # <<>> /\ life[x] # "none")
    BY ShapedFacts
  <2>2. QED
    BY <1>1, <1>2, <2>1 DEF Submitted, Submits, VersionsOf
<1>4. QED
  BY <1>2, <1>3, ShapedFacts, ShapesKept

LEMMA ChecksShapes ==
  ASSUME DefinitionsShaped, NEW a \in Author \cup Editor, NEW x \in Entity, Checks(a, x)
  PROVE  DefinitionsShaped'
<1>1. PICK kind \in {"create", "patch", "open", "deprecate", "delete"} : \E shape :
         /\ Admits(kind, x, shape) /\ Takes(a, kind, x, shape)
         /\ kind \in {"create", "patch", "open"} => shape \in Shape[x]
  BY DEF Checks
<1>2. PICK shape : /\ Admits(kind, x, shape) /\ Takes(a, kind, x, shape)
                   /\ kind \in {"create", "patch", "open"} => shape \in Shape[x]
  BY <1>1
<1>3. kind # "create" => life[x] \in {"live", "deprecated"}
  BY <1>2, ShapedFacts DEF Admits, Authoring
<1>4. kind = "open" => Len(versions[x]) < MaxOpened
  BY <1>2 DEF Admits
<1>5. publish' \in [Entity -> PublishRow]
  BY ShapedFacts DEF Checks
<1>6. QED
  BY <1>2, <1>3, <1>4, <1>5, TakesShapes DEF Takes, Submits

LEMMA CheckAcceptShapes ==
  ASSUME DefinitionsShaped, NEW a \in Author \cup Editor, NEW x \in Entity, CheckAccept(a, x)
  PROVE  DefinitionsShaped'
<1>1. x \in Existing /\ Acceptable(x) /\ Takes(a, "accept", x, CurrentOf(x).shape)
  BY DEF CheckAccept
<1>2. DefinitionsTyped /\ versions[x] # <<>> /\ life[x] \in {"live", "deprecated"}
  BY <1>1, ShapedFacts DEF DefinitionsShaped
<1>3. CurrentOf(x).shape \in Shape[x]
  BY <1>2, ShapedFacts, LastOf DEF CurrentOf
<1>4. publish' \in [Entity -> PublishRow]
  <2>1. PICK row : row = [at |-> "frozen", keys |-> TargetKey(x),
                          codes |-> IF CurrentOf(x).shape.dict THEN Active ELSE {},
                          deprecated |-> dictionary = "deprecated"]
    OBVIOUS
  <2>2. TargetKey(x) \in BoundKeys
    BY <1>2, FrozenKeys
  <2>3. row \in PublishRow
    BY <2>1, <2>2 DEF PublishRow, Active
  <2>4. publish' = [publish EXCEPT ![x] = row]
    BY <2>1 DEF CheckAccept
  <2>5. QED
    BY <2>3, <2>4, ShapedFacts
<1>5. QED
  BY <1>1, <1>2, <1>3, <1>4, TakesShapes DEF Takes, Submits

-----------------------------------------------------------------------------
LEMMA JobShapes ==
  ASSUME DefinitionsShaped, NEW x \in Entity, Bind(x) \/ StoreBound(x) \/ RollBack(x) \/ DropHead(x)
  PROVE  DefinitionsShaped'
<1>1. /\ UNCHANGED <<life, dictionary, listed, author>>
      /\ author' = [b \in Author \cup Editor |-> author'[b]]
      /\ \A b \in Author \cup Editor : author'[b] = author[b]
  BY ShapedFacts DEF Bind, StoreBound, RollBack, DropHead
<1>2. publish' \in [Entity -> PublishRow]
  <2>1. publish \in [Entity -> PublishRow] /\ NoPublish \in PublishRow
    BY ShapedFacts, NothingServes DEF NoPublish, PublishRow
  <2>2. PICK p \in PublishRow : p = publish[x]
    BY <2>1
  <2>3. [p EXCEPT !.at = "bound"] \in PublishRow
    BY DEF PublishRow
  <2>4. \/ publish' = [publish EXCEPT ![x] = [p EXCEPT !.at = "bound"]]
        \/ publish' = [publish EXCEPT ![x] = NoPublish] \/ publish' = publish
    BY <2>1, <2>2 DEF Bind, StoreBound, RollBack, DropHead
  <2>5. QED
    BY <2>1, <2>3, <2>4
<1>3. PICK ws : ws = versions[x] /\ VersionsOf(x, ws) /\ ws \in Seq(DefinitionRow) /\ Len(ws) \in Nat /\ DOMAIN ws = 1..Len(ws)
  BY ShapedFacts DEF VersionsOf
<1>4. CASE Bind(x)
  <2>1. versions' = versions
    BY <1>4 DEF Bind
  <2>2. QED
    BY <1>1, <1>2, <2>1, ShapedFacts, ShapesKept
<1>5. CASE StoreBound(x)
  <2>1. ws # <<>>
    BY <1>3, <1>5, ShapedFacts DEF StoreBound
  <2>2. PICK v \in DefinitionRow : v = ws[Len(ws)] /\ v.shape \in Shape[x]
    BY <1>3, <2>1, LastOf
  <2>3. PICK p \in PublishRow : p = publish[x]
    BY ShapedFacts
  <2>4. PICK row : row = [v EXCEPT !.status = "published", !.present = TRUE, !.bound = p.keys, !.codes = p.codes]
    OBVIOUS
  <2>5. row \in DefinitionRow /\ row.shape \in Shape[x]
    BY <2>2, <2>4 DEF DefinitionRow, PublishRow
  <2>6. versions' = [versions EXCEPT ![x][Len(ws)] = row]
    BY <1>3, <1>5, <2>2, <2>3, <2>4, ShapedFacts DEF StoreBound
  <2>7. QED
    BY <1>1, <1>2, <2>5, <2>6, SaveShapes
<1>6. CASE RollBack(x)
  <2>1. PICK vs : vs = [i \in DOMAIN ws |-> IF ws[i].status = "publishing" THEN [ws[i] EXCEPT !.status = "unpublished"] ELSE ws[i]]
    OBVIOUS
  <2>2. ASSUME NEW i \in 1..Len(ws) PROVE vs[i] \in DefinitionRow /\ vs[i].shape \in Shape[x]
    <3>1. PICK v \in DefinitionRow : v = ws[i] /\ v.shape \in Shape[x]
      BY <1>3, <2>2 DEF VersionsOf
    <3>2. [v EXCEPT !.status = "unpublished"] \in DefinitionRow /\ [v EXCEPT !.status = "unpublished"].shape = v.shape
      BY DEF DefinitionRow
    <3>3. vs[i] = IF v.status = "publishing" THEN [v EXCEPT !.status = "unpublished"] ELSE v
      BY <1>3, <2>1, <2>2, <3>1
    <3>4. QED
      BY <3>1, <3>2, <3>3
  <2>3. vs = [i \in 1..Len(ws) |-> vs[i]]
    BY <1>3, <2>1
  <2>4. vs \in Seq(DefinitionRow) /\ Len(vs) = Len(ws)
    <3>1. vs \in [1..Len(ws) -> DefinitionRow]
      BY <2>2, <2>3
    <3>2. QED
      BY <1>3, <3>1
  <2>5. VersionsOf(x, vs) /\ (vs # <<>> <=> ws # <<>>)
    BY <1>3, <2>2, <2>4 DEF VersionsOf
  <2>6. versions' = [versions EXCEPT ![x] = vs]
    BY <1>3, <1>6, <2>1, ShapedFacts DEF RollBack
  <2>7. \A e \in Entity : versions'[e] # <<>> <=> life'[e] \in {"live", "deprecated"}
    BY <1>1, <1>3, <2>5, <2>6, OneReplaced, ShapedFacts
  <2>8. QED
    BY <1>1, <1>2, <2>5, <2>6, <2>7, OneReplaced, ShapedFacts, ShapesKept
<1>7. CASE DropHead(x)
  <2>1. PICK h \in 1..Len(ws) : h = HeadOf(x)
    <3>1. HeadIn(ws) = HeadOf(x) /\ HeadOf(x) # 0
      BY <1>3, <1>7, TypedRows DEF DropHead, DefinitionsShaped
    <3>2. QED
      BY <1>3, <3>1, HeadFacts
  <2>2. PICK v \in DefinitionRow : v = ws[h] /\ v.shape \in Shape[x]
    BY <1>3, <2>1 DEF VersionsOf
  <2>3. PICK row : row = [v EXCEPT !.present = FALSE]
    OBVIOUS
  <2>4. row \in DefinitionRow /\ row.shape \in Shape[x]
    BY <2>2, <2>3 DEF DefinitionRow
  <2>5. versions' = [versions EXCEPT ![x][h] = row]
    BY <1>3, <1>7, <2>1, <2>2, <2>3, ShapedFacts DEF DropHead
  <2>6. QED
    BY <1>1, <1>2, <2>4, <2>5, SaveShapes
<1>8. QED
  BY <1>4, <1>5, <1>6, <1>7

LEMMA DictionaryShapes ==
  ASSUME DefinitionsShaped, NEW a \in Author \cup Editor,
         \/ CheckEntries(a) \/ SaveEntries(a) \/ CheckDeleteDictionary(a) \/ DeleteDictionary(a)
         \/ DeprecateDictionary \/ RestoreDictionary
  PROVE  DefinitionsShaped'
<1>1. UNCHANGED <<life, versions, publish>>
  BY DEF CheckEntries, SaveEntries, CheckDeleteDictionary, DeleteDictionary, DeprecateDictionary, RestoreDictionary
<1>2. dictionary' \in {"live", "deprecated", "gone"} /\ listed' \in [Code -> {"absent", "active", "inactive"}]
  BY ShapedFacts DEF CheckEntries, SaveEntries, CheckDeleteDictionary, DeleteDictionary, DeprecateDictionary,
                     RestoreDictionary
<1>3. PICK r : /\ r = Free \/ r = [Free EXCEPT !.at = "entries", !.seen = <<Snapshotted>>]
                    \/ r = [Free EXCEPT !.at = "undefine"]
               /\ author' = author \/ author' = [author EXCEPT ![a] = r]
  BY DEF CheckEntries, SaveEntries, CheckDeleteDictionary, DeleteDictionary, DeprecateDictionary,
         RestoreDictionary, Writes
<1>4. r.of = NoKey /\ r.at \in {"idle", "entries", "undefine"}
  <2>1. CASE r = Free
    BY <2>1 DEF Free
  <2>2. CASE r = [Free EXCEPT !.at = "entries", !.seen = <<Snapshotted>>]
    <3>1. PICK entries : entries = <<Snapshotted>>
      OBVIOUS
    <3>2. r = [Free EXCEPT !.at = "entries", !.seen = entries]
      BY <2>2, <3>1
    <3>3. QED
      BY <3>2 DEF Free
  <2>3. CASE r = [Free EXCEPT !.at = "undefine"]
    BY <2>3 DEF Free
  <2>4. QED
    BY <1>3, <2>1, <2>2, <2>3
<1>5. /\ author' = [b \in Author \cup Editor |-> author'[b]]
      /\ \A b \in Author \cup Editor : author'[b] = author[b] \/ author'[b] = r
  BY <1>3, ShapedFacts
<1>6. ASSUME NEW b \in Author \cup Editor, author'[b] = r PROVE Submitted(b)'
  BY <1>4, <1>6 DEF Submitted, Submits
<1>7. QED
  BY <1>1, <1>2, <1>5, <1>6, ShapedFacts, ShapesKept

LEMMA ShapesInit == DefinitionsInit => DefinitionsShaped
<1> SUFFICES ASSUME DefinitionsInit PROVE DefinitionsShaped
  OBVIOUS
<1>1. DefinitionsTyped
  BY DefinitionsInitInv DEF DefinitionsInv, KeptDefinitions, DefinitionsInit
<1>2. \A e \in Entity : versions[e] = <<>>
  BY DEF DefinitionsInit
<1>3. ASSUME NEW e \in Entity PROVE VersionsOf(e, versions[e])
  <2>1. VersionsOf(e, <<>>)
    BY DefinitionsAssumption DEF VersionsOf
  <2>2. QED
    BY <1>2, <2>1
<1>4. \A a \in Author \cup Editor : Submitted(a)
  BY DEF DefinitionsInit, Submitted, Submits, Free
<1>5. QED
  BY <1>1, <1>3, <1>4 DEF DefinitionsShaped

LEMMA ShapesStep == DefinitionsShaped /\ [DefinitionsNext]_definitionVars => DefinitionsShaped'
<1> SUFFICES ASSUME DefinitionsShaped, [DefinitionsNext]_definitionVars PROVE DefinitionsShaped'
  OBVIOUS
<1>1. ASSUME NEW a \in Author, NEW e \in Entity, Checks(a, e) \/ CheckAccept(a, e) PROVE DefinitionsShaped'
  BY <1>1, ChecksShapes, CheckAcceptShapes
<1>2. ASSUME NEW a \in Author,
             \/ SaveCreate(a) \/ SavePatch(a) \/ SaveOpen(a) \/ SaveDeprecate(a) \/ DeleteEntity(a)
             \/ SaveAccept(a)
      PROVE  DefinitionsShaped'
  BY <1>2, CreateShapes, PatchShapes, OpenShapes, DeprecateShapes, DeleteShapes, AcceptShapes
<1>3. ASSUME NEW a \in Editor,
             CheckEntries(a) \/ SaveEntries(a) \/ CheckDeleteDictionary(a) \/ DeleteDictionary(a)
      PROVE  DefinitionsShaped'
  BY <1>3, DictionaryShapes
<1>4. ASSUME NEW e \in Entity, Bind(e) \/ StoreBound(e) \/ RollBack(e) \/ DropHead(e) PROVE DefinitionsShaped'
  BY <1>4, JobShapes
<1>5. CASE DeprecateDictionary \/ RestoreDictionary
  <2>1. /\ UNCHANGED <<life, versions, publish, listed, author>> /\ dictionary' \in {"live", "deprecated"}
    BY <1>5 DEF DeprecateDictionary, RestoreDictionary
  <2>2. QED
    BY <2>1, ShapedFacts, ShapesKept
<1>6. CASE UNCHANGED definitionVars
  <2>1. UNCHANGED <<life, versions, publish, listed, author, dictionary>>
    BY <1>6 DEF definitionVars
  <2>2. QED
    BY <2>1, ShapedFacts, ShapesKept
<1>7. QED
  BY <1>1, <1>2, <1>3, <1>4, <1>5, <1>6 DEF DefinitionsNext

\* Whatever crosses: an entity has versions exactly while it is there, its versions are of
\* definitions submitted for it and no more than may be opened, and codes are of the
\* Dictionary's.
THEOREM DefinitionsAreTyped == DefinitionsSpec => []DefinitionsTypeOK
<1>1. DefinitionsSpec => []DefinitionsShaped
  BY ShapesInit, ShapesStep, PTL DEF DefinitionsSpec
<1>2. DefinitionsShaped => DefinitionsTypeOK
  <2> SUFFICES ASSUME DefinitionsShaped PROVE DefinitionsTypeOK
    OBVIOUS
  <2>1. ASSUME NEW e \in Entity
        PROVE  /\ Len(versions[e]) <= MaxOpened
               /\ e \in Existing <=> life[e] \in {"live", "deprecated"}
               /\ \A i \in DOMAIN versions[e] : versions[e][i].shape \in Shape[e] /\ versions[e][i].codes \subseteq Code
               /\ publish[e].at \in {"none", "frozen", "queued", "bound"} /\ publish[e].codes \subseteq Code
    <3>1. PICK ws \in Seq(DefinitionRow) : ws = versions[e] /\ VersionsOf(e, ws)
      BY ShapedFacts
    <3>2. ASSUME NEW i \in 1..Len(ws) PROVE ws[i].shape \in Shape[e] /\ ws[i].codes \subseteq Code
      <4>1. PICK v \in DefinitionRow : v = ws[i]
        BY <3>1
      <4>2. v.codes \subseteq Code
        BY DEF DefinitionRow
      <4>3. QED
        BY <3>1, <4>1, <4>2 DEF VersionsOf
    <3>3. publish[e].at \in {"none", "frozen", "queued", "bound"} /\ publish[e].codes \subseteq Code
      <4>1. PICK p \in PublishRow : p = publish[e]
        BY ShapedFacts
      <4>2. QED
        BY <4>1 DEF PublishRow
    <3>4. DOMAIN versions[e] = 1..Len(ws) /\ Len(versions[e]) <= MaxOpened
      BY <3>1 DEF VersionsOf
    <3>5. e \in Existing <=> life[e] \in {"live", "deprecated"}
      BY ShapedFacts
    <3>6. QED
      BY <3>1, <3>2, <3>3, <3>4, <3>5
  <2>2. \A a \in Author \cup Editor : author[a].of \in Entity \cup {NoKey}
    BY ShapedFacts DEF Submitted
  <2>3. QED
    BY <2>1, <2>2, ShapedFacts DEF DefinitionsTypeOK
<1>3. QED
  BY <1>1, <1>2, PTL
=============================================================================
