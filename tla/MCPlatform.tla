----------------------------- MODULE MCPlatform -----------------------------
(***************************************************************************)
(* Small instances of components that share no state, side by side: focus  *)
(* picks the component whose steps a behaviour takes, the others stay in   *)
(* one initial state.                                                      *)
(***************************************************************************)
EXTENDS CommitOrder, ChannelWalk, StructureRun, EntityPublish, Admission, TLC

VARIABLE focus

view == <<focus, CASE focus = "order" -> txVars
                   [] focus = "walk" -> walkVars
                   [] focus = "structure" -> structureVars
                   [] focus = "publish" -> publishVars
                   [] focus = "admission" -> admissionVars>>

-----------------------------------------------------------------------------
(* Constants *)

\* All valid graphs of four nodes with two ports and no Container ...
Ascending(n) == {x \in (1..n) \X (1..n) : x[1] < x[2]}
FlatPorts == [n \in 1..4 |-> IF n = 1 THEN {"main"} ELSE {"main", "alt"}]
FlatGraphs ==
  {[nodes |-> 1..4, trigger |-> 1, ports |-> FlatPorts, loops |-> {}, stop |-> 0,
    parent |-> [n \in 1..4 |-> 0],
    edges |-> {[from |-> x[1][1], port |-> x[2], to |-> x[1][2]] : x \in E}] :
     E \in SUBSET {x \in Ascending(4) \X {"main", "alt"} : x[2] \in FlatPorts[x[1][1]]}}

\* ... and of five nodes, of which 2 and perhaps another are Containers.
Frames == {p \in [1..5 -> {0, 2, 3, 4}] : /\ p[1] = 0 /\ p[2] = 0
                                          /\ \E m \in 3..5 : p[m] = 2
                                          /\ \A m \in 3..5 : p[m] < m}
PortTo(p, x) ==
  IF x[1] \notin {p[m] : m \in 3..5} THEN "main" ELSE IF p[x[2]] = x[1] THEN "each" ELSE "done"
FramedGraphs(p) ==
  LET loops == {p[m] : m \in 3..5} \ {0} IN
  {[nodes |-> 1..5, trigger |-> 1, loops |-> loops, stop |-> s, parent |-> p,
    ports |-> [n \in 1..5 |-> IF n \in loops THEN {"each", "done"} ELSE {"main"}],
    edges |-> {[from |-> x[1], port |-> PortTo(p, x), to |-> x[2]] : x \in E}] :
     E \in SUBSET {x \in Ascending(5) : p[x[1]] = p[x[2]] \/ p[x[2]] = x[1]}, s \in {0, 5}}

SomeFlat == {g \in FlatGraphs : ValidGraph(g)}
SomeFramed == {g \in UNION {FramedGraphs(p) : p \in Frames} : ValidGraph(g)}
SomeGraphs == SomeFlat \cup SomeFramed
OneGraph == CHOOSE g \in SomeFlat : TRUE

CONSTANTS s1, s2, d1
Kinds == (s1 :> "structure") @@ (s2 :> "structure") @@ (d1 :> "join_detection")

\* Contents of a Source's database: a foreign key, a view that changes its kind,
\* tables that come and go.
Object(n, t, cs, fs) == [name |-> n, type |-> t, cols |-> cs, fks |-> fs]
ToB == {[col |-> "x", ref |-> "b", refCol |-> "id"]}
Contents ==
  {{Object("a", "table", {"id", "x"}, ToB), Object("b", "table", {"id"}, {})},
   {Object("a", "table", {"id"}, {}), Object("v", "view", {"id"}, {})},
   {Object("b", "table", {"id"}, {}), Object("v", "materialized_view", {"id"}, {})}}
OneContent == CHOOSE s \in Contents : TRUE

CONSTANTS r1, r2, r3, r4, r5, t1, t2, t3, c1, c2, c3
Owners == (r1 :> "a") @@ (r2 :> "a") @@ (r3 :> "a") @@ (r4 :> "b") @@ (r5 :> "b")

-----------------------------------------------------------------------------
Init ==
  /\ focus \in {"order", "walk", "structure", "publish", "admission"}
  /\ OrderInit /\ PublishInit /\ AdmissionInit
  /\ IF focus = "walk" THEN WalkInit ELSE WalkInit /\ graph = OneGraph
  /\ IF focus = "structure" THEN StructureInit ELSE StructureInit /\ remote = OneContent

Next ==
  /\ UNCHANGED focus
  /\ \/ /\ focus = "order" /\ OrderNext
        /\ UNCHANGED <<walkVars, structureVars, publishVars, admissionVars>>
     \/ /\ focus = "walk" /\ WalkNext
        /\ UNCHANGED <<txVars, structureVars, publishVars, admissionVars>>
     \/ /\ focus = "structure" /\ StructureNext
        /\ UNCHANGED <<txVars, walkVars, publishVars, admissionVars>>
     \/ /\ focus = "publish" /\ PublishNext
        /\ UNCHANGED <<txVars, walkVars, structureVars, admissionVars>>
     \/ /\ focus = "admission" /\ AdmissionNext
        /\ UNCHANGED <<txVars, walkVars, structureVars, publishVars>>

Spec == Init /\ [][Next]_<<focus, txVars, walkVars, structureVars, publishVars, admissionVars>>

-----------------------------------------------------------------------------
(* Bounds *)

\* Alike processes come in one order.
InOrder ==
  /\ tx[t2] = "idle" => tx[t3] = "idle"
  /\ tx[t1] = "idle" => tx[t2] = "idle"
  /\ child[s1].at = "none" => child[s2].at = "none"
  /\ call[c2].at = "idle" => call[c3].at = "idle"
  /\ call[c1].at = "idle" => call[c2].at = "idle"

\* Two children work at a time, one Job is cancelled, and the Source drifts only
\* where join detection has not begun.
FewChildren ==
  /\ Cardinality({j \in SourceJob : child[j].at \notin {"none", "ended"}}) <= 2
  /\ Cardinality({j \in SourceJob : status[j] = "cancelled"}) <= 1
  /\ child[d1].at = "none" \/ drift = 0

\* Rounds and tries of all Containers together.
FewRounds == begun <= 4

Few == CASE focus = "walk" -> FewRounds
         [] focus = "structure" -> InOrder /\ FewChildren
         [] focus \in {"order", "publish"} -> InOrder
         [] OTHER -> TRUE
=============================================================================
