----------------------------- MODULE MCChannel -----------------------------
(***************************************************************************)
(* Small instances of three components around the runs of a channel that   *)
(* share no state, side by side: focus picks the component whose steps a   *)
(* behaviour takes, the others stay in one initial state.                  *)
(***************************************************************************)
EXTENDS Inbound, Recovery, Datasets, TLC

VARIABLE focus

view == <<focus, CASE focus = "inbound" -> inboundVars
                   [] focus = "recovery" -> recoveryVars
                   [] focus = "datasets" -> datasetVars>>

Init ==
  /\ focus \in {"inbound", "recovery", "datasets"}
  /\ InboundInit /\ RecoveryInit /\ DatasetsInit
  /\ IF focus = "inbound" THEN TRUE ELSE mode = "immediate"
  /\ IF focus = "recovery" THEN TRUE ELSE keep

Next ==
  /\ UNCHANGED focus
  /\ \/ focus = "inbound" /\ InboundNext /\ UNCHANGED <<recoveryVars, datasetVars>>
     \/ focus = "recovery" /\ RecoveryNext /\ UNCHANGED <<inboundVars, datasetVars>>
     \/ focus = "datasets" /\ DatasetsNext /\ UNCHANGED <<inboundVars, recoveryVars>>

Spec == Init /\ [][Next]_<<focus, inboundVars, recoveryVars, datasetVars>>

-----------------------------------------------------------------------------
(* Bounds *)

\* At most one handler dies, and two Respond nodes execute in all.
FewFaults ==
  /\ Cardinality({r \in Call : pc[r] = "dead"}) <= 1
  /\ \A q, r \in Call : q # r => node[q].done + node[r].done <= 2

\* Two runs at a time are in progress or being settled.
FewRuns == Cardinality({r \in RunId : attempt[r].state = "running"} \cup Busy) <= 2

\* Two loads overlap before the first pass of the purge, one load and the purge later.
FewLoads == passes > 0 => Cardinality({d \in Dataset : loader[d].at # "new"}) <= 1

Few == FewFaults /\ FewRuns /\ FewLoads

Slots == Permutations(Call)

=============================================================================
