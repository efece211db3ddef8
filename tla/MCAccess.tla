----------------------------- MODULE MCAccess ------------------------------
(***************************************************************************)
(* A small instance of AccessPolicy and one of AccessViews, which share no *)
(* state: focus picks the one whose steps a behaviour takes.               *)
(***************************************************************************)
EXTENDS AccessPolicy, AccessViews, TLC

VARIABLE focus

-----------------------------------------------------------------------------
(* AccessPolicy *)

CONSTANTS a, b, x, y,           \* attributes and rows
          u, v, system,         \* Users
          member, guest, team,  \* Roles and a User Group
          seeded, g1, g2, g3, q

Ladders == (a :> {<<Clear, "mask", "none">>}) @@ (b :> {})
ProfileColumns == <<{}, {(a :> "mask") @@ (b :> Clear), a :> "none"}, {a :> Clear}>>

RuleOn(rows, names) == [holds |-> rows, names |-> names]
Granting(subject, p, rule, verbs) ==
  [subject |-> subject, profile |-> p, rule |-> rule, verbs |-> verbs, active |-> TRUE, until |-> FALSE]
Grants ==
  (seeded :> {})
  @@ (g1 :> {Granting(<<"group", team>>, 3, RuleOn({x}, {b}), Verb)})
  @@ (g2 :> {[Granting(<<"role", member>>, 2, RuleOn({y}, {}), Verb) EXCEPT !.until = TRUE],
             [Granting(<<"role", member>>, 2, NoRule, Verb) EXCEPT !.active = FALSE]})
  @@ (g3 :> {Granting(<<"user", v>>, 1, NoRule, Verb)})

NoColumns == [c \in {} |-> Clear]
Restrictions ==
  q :> {[mode |-> "all", subjects |-> {}, rule |-> NoRule, deny |-> {},
         ceiling |-> a :> "mask", verbs |-> Verb],
        [mode |-> "only", subjects |-> {<<"role", member>>}, rule |-> NoRule, deny |-> {b},
         ceiling |-> NoColumns, verbs |-> {"read"}],
        [mode |-> "except", subjects |-> {<<"group", team>>}, rule |-> RuleOn({x}, {b}), deny |-> {},
         ceiling |-> NoColumns, verbs |-> Verb]}

\* Digits in order, as the ids are.
KeyOf(c) == SumSet({2 ^ n : n \in c})
HeadAttributes == {{a, b}, {a}}
RolesOf == (u :> {member}) @@ (v :> {member, guest}) @@ (system :> {})
GroupsOf == (u :> {{}, {team}}) @@ (v :> {}) @@ (system :> {})

-----------------------------------------------------------------------------
\* Editors are alike: e1 makes the edit that begins first, e2 the other.
CONSTANTS e1, e2
InTurn == /\ editor[e1].at = "read" => editor[e1].rev = 1
          /\ editor[e2].at = "read" => editor[e1].at # "idle" \/ policy > 0

\* A policy under which nobody is shown anything: a restriction names an attribute
\* that is no longer published.
NothingShown ==
  /\ head = {a} /\ ladder = [c \in Attribute |-> <<Clear>>]
  /\ profile = [n \in Profile |-> IF n = AllClear THEN AllClearColumns(head) ELSE NoRecord]
  /\ grant = [g \in Grant |-> IF g = SystemGrant THEN SystemBody ELSE NoRecord]
  /\ restriction = [r \in Restriction |->
       [mode |-> "all", subjects |-> {}, rule |-> RuleOn({x}, {b}), deny |-> {}, ceiling |-> NoColumns, verbs |-> Verb]]
  /\ role = [p \in Person |-> IF p = System THEN NoRole ELSE member] /\ groups = [p \in Person |-> {}]
  /\ expired = {} /\ views = {View(verb, {AllClear}, {}) : verb \in Verb} /\ current = TRUE

Init ==
  /\ \/ focus = "policy" /\ AccessInit
     \/ focus = "views" /\ NothingShown
  /\ ViewsInit

Next ==
  /\ UNCHANGED focus
  /\ \/ focus = "policy" /\ AccessNext /\ UNCHANGED viewVars
     \/ focus = "views" /\ ViewsNext /\ InTurn' /\ UNCHANGED accessVars

\* Fairness speaks of the views only; with the policy in focus nobody calls.
Spec == Init /\ [][Next]_<<focus, accessVars, viewVars>> /\ ViewsFairness
=============================================================================
