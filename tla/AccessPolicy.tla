---------------------------- MODULE AccessPolicy ----------------------------
(***************************************************************************)
(* Data access of one entity: the policy people edit                       *)
(* (backend/entity/access/service.py), the profile views compiled from it  *)
(* (compiler.py, combos.py, plan.py, views.py) and what a request reads    *)
(* through them (enforce.py, context.py), next to the cell rule that the   *)
(* compiler documents.                                                     *)
(*                                                                         *)
(* An edit, a regeneration and a request are single steps here: their      *)
(* races are the subject of AccessViews.  What outlives a compilation is   *)
(* here: Roles, User Groups and expiry change without one.                 *)
(*                                                                         *)
(* A row rule is the set of rows on which it holds, with the attributes it *)
(* names; a leaf that is NULL does not hold.  A cell is a position on its  *)
(* attribute's ladder.  The names that end in _Wrong are deliberately      *)
(* wrong variants of a definition; they confirm that a property can fail.  *)
(***************************************************************************)
EXTENDS Integers, Sequences, FiniteSets, FiniteSetsExt, SequencesExt

CONSTANTS Attribute, DataRow,
          Verb,                  \* the actions: "read", "write", ...
          Profile,               \* numbers: 1 is all_clear
          Grant, SystemGrant, Restriction, NoRecord,
          Person, System,        \* Users, and the System Identity among them
          AnyRole, NoRole, AnyGroup,
          Ladder, Columns, GrantBody, RestrictionBody, \* what an editor may submit for each
          Roles, Joins,          \* the Roles and sets of groups a person may be given
          Heads,                 \* attributes of the head that a publish may create
          Cap,                   \* max_profile_combinations
          Key(_)                 \* combo_key: the place of a combination in the order of keys

Clear == "clear"
AllClear == 1

ASSUME AccessPolicyAssumption ==
  /\ Profile \subseteq Nat /\ AllClear \in Profile /\ IsFiniteSet(Profile)
  /\ SystemGrant \in Grant /\ System \in Person
  /\ NoRole \notin AnyRole /\ Cap \in Nat /\ "read" \in Verb
  /\ \A c, d \in SUBSET Profile : Key(c) \in Nat /\ (Key(c) = Key(d) => c = d)
  \* validate_levels: clear comes first, and no level twice.
  /\ \A a \in Attribute : \A l \in Ladder[a] :
       /\ Len(l) \in Nat \ {0} /\ DOMAIN l = 1..Len(l) /\ l[1] = Clear
       /\ \A i, j \in DOMAIN l : l[i] = l[j] => i = j
  /\ Heads \subseteq SUBSET Attribute /\ {} \notin Heads
  /\ \A r \in Restriction : \A body \in RestrictionBody[r] : body.mode \in {"all", "only", "except"}
  /\ \A p \in Person : Roles[p] \subseteq AnyRole /\ Joins[p] \subseteq SUBSET AnyGroup
  /\ \A p \in Person \ {System} : Roles[p] # {}

VARIABLES head,        \* attributes of the published head
          ladder,      \* of each attribute
          profile,     \* columns of each profile, with the level of each
          grant, restriction,
          role, groups, \* of each person
          expired,     \* grants past valid_until
          views,       \* the bindings: action, profiles and included restrictions
          current      \* views_revision = policy_revision

policyVars == <<ladder, profile, grant, restriction>>
peopleVars == <<role, groups, expired>>
accessVars == <<head, policyVars, peopleVars, views, current>>

Existing(f) == {x \in DOMAIN f : f[x] # NoRecord}
Rank(a, level) == CHOOSE i \in DOMAIN ladder[a] : ladder[a][i] = level
OnLadder(a, level) == level \in Range(ladder[a])

-----------------------------------------------------------------------------
(* Brokenness (_profile_reasons, _grant_reasons, _restriction_reasons) *)

Sound(cols) == \A a \in DOMAIN cols : a \in head /\ OnLadder(a, cols[a])

BrokenProfile(x) == ~Sound(profile[x])
BrokenGrant(g) == \/ grant[g].profile \notin Existing(profile)
                  \/ BrokenProfile(grant[g].profile)
                  \/ ~(grant[g].rule.names \subseteq head)
BrokenRestriction(r) == \/ ~(restriction[r].deny \subseteq head)
                        \/ ~Sound(restriction[r].ceiling)
                        \/ ~(restriction[r].rule.names \subseteq head)

-----------------------------------------------------------------------------
(* Whom grants and restrictions concern *)

Identities(p) == ({<<"user", p>>, <<"role", role[p]>>} \ {<<"role", NoRole>>})
                 \cup {<<"group", g>> : g \in groups[p]}

\* identity_narrows: a request is narrowed to one identity, or not.
Narrows_Wrong(p) == {Identities(p)}
Narrows(p) == {Identities(p)} \cup {{i} : i \in Identities(p)}

\* grant_reaches, held_profiles
Reaching(who, verb) ==
  {g \in Existing(grant) : /\ ~BrokenGrant(g) /\ grant[g].active /\ g \notin expired
                           /\ verb \in grant[g].verbs /\ grant[g].subject \in who}
Held(who, verb) == {grant[g].profile : g \in Reaching(who, verb)}

\* _applies
Concerns(r, p) == LET hit == restriction[r].subjects \cap Identities(p) # {} IN
                  CASE restriction[r].mode = "all" -> TRUE
                    [] restriction[r].mode = "only" -> hit
                    [] restriction[r].mode = "except" -> ~hit

\* Restrictions on a verb; those on some subjects only; _included_ids.
On(verb) == {r \in Existing(restriction) : verb \in restriction[r].verbs}
Selective(verb) == {r \in On(verb) : restriction[r].mode # "all"}
Included(p, verb) == {r \in Selective(verb) : ~BrokenRestriction(r) /\ Concerns(r, p)}

\* _person_hidden
Hidden(p, verb) == \E r \in On(verb) : BrokenRestriction(r) /\ Concerns(r, p)

-----------------------------------------------------------------------------
(* The views that are generated *)

\* compile_policy: combinations some subject holds, of all people or of one.
Visible(p) == {verb \in Verb : ~Hidden(p, verb)}
Needed(people) ==
  {c \in UNION {{Held(who, verb) : who \in Narrows(p), verb \in Visible(p)} : p \in people} :
     Cardinality(c) >= 2}

\* select_combinations; combinations are taken in the order of their keys.
Combinations_Wrong(needed, existing) ==
  {c \in needed : Cardinality({d \in needed : Key(d) < Key(c)}) < Cap}
Combinations(needed, existing) ==
  LET First(d, c) == IF (d \in existing) = (c \in existing) THEN Key(d) < Key(c) ELSE d \in existing
  IN {c \in needed : Cardinality({d \in needed : First(d, c)}) < Cap}

\* _shapes: every single profile and chosen combination, and what the
\* restrictions on some subjects make of them.
View(verb, profiles, included) == [verb |-> verb, profiles |-> profiles, included |-> included]
ViewOf(p, who, verb) == View(verb, Held(who, verb), Included(p, verb))

OwnViews(p) == {ViewOf(p, who, verb) : who \in Narrows(p), verb \in Visible(p)}
Generated(people, existing) ==
  LET sets == {{x} : x \in Existing(profile)} \cup Combinations(Needed(people), existing) IN
  {View(verb, c, {}) : verb \in Verb, c \in sets} \cup
  UNION {{v \in OwnViews(p) : v.profiles \in sets} : p \in people}

\* load_policy: the combinations that have a view.
Viewed == {v.profiles : v \in {w \in views : Cardinality(w.profiles) >= 2}}
-----------------------------------------------------------------------------
(* What a view shows: _make_shape, _columns, _select_sql.  `active' are the *)
(* grants of the signed context.                                            *)

InForce(v) == {r \in On(v.verb) : /\ ~BrokenRestriction(r)
                                  /\ restriction[r].mode = "all" \/ r \in v.included}
ForceEmpty(v) == \/ \E r \in On(v.verb) : restriction[r].mode = "all" /\ BrokenRestriction(r)
                 \/ \E x \in v.profiles : BrokenProfile(x)
ViewGrants(v) == {g \in Existing(grant) : /\ grant[g].profile \in v.profiles /\ grant[g].active
                                          /\ v.verb \in grant[g].verbs /\ ~BrokenGrant(g)}
Listing(v, a) == {x \in v.profiles : a \in DOMAIN profile[x]}
ColumnsOf(v) == IF ForceEmpty(v) THEN {}
                ELSE {a \in head \ (UNION {restriction[r].deny : r \in InForce(v)}) : Listing(v, a) # {}}
RowVarying_Wrong(v, a) == Cardinality({profile[x][a] : x \in Listing(v, a)}) > 1
RowVarying(v, a) == \/ Listing(v, a) # v.profiles
                    \/ Cardinality({profile[x][a] : x \in Listing(v, a)}) > 1
Ceilings(v, a) == {Rank(a, restriction[r].ceiling[a]) :
                     r \in {q \in InForce(v) : a \in DOMAIN restriction[q].ceiling}}

\* _lower
Lowered_Wrong(v, g, a) == Rank(a, profile[grant[g].profile][a])
Lowered(v, g, a) == Max({Rank(a, profile[grant[g].profile][a])} \cup Ceilings(v, a))

\* _match_sql, _applies_sql and NOT: comparing with the Role of someone who has
\* none is NULL.
MatchSql(r, p) ==
  LET parts == {IF s[1] = "role" /\ role[p] = NoRole THEN "null"
                ELSE IF s \in Identities(p) THEN "true" ELSE "false" : s \in restriction[r].subjects}
  IN IF "true" \in parts THEN "true" ELSE IF "null" \in parts THEN "null" ELSE "false"
AppliesSql(r, p) == IF restriction[r].mode = "only" THEN MatchSql(r, p)
                    ELSE CASE MatchSql(r, p) = "true" -> "false"
                           [] MatchSql(r, p) = "false" -> "true" [] OTHER -> "null"

\* _predicates, without the revision: only the included restrictions apply.
Admits(v, p, row) ==
  /\ ~ForceEmpty(v)
  /\ \A r \in InForce(v) : row \in restriction[r].rule.holds
  /\ \A r \in v.included : AppliesSql(r, p) = "true"
  /\ \A r \in Selective(v.verb) \ v.included : AppliesSql(r, p) = "false"

Covers(v, active, row) == {g \in ViewGrants(v) \cap active : row \in grant[g].rule.holds}
Withheld == 0

\* _single_sql, _combo_sql, _combo_expr, _withheld_sql
ViewAnswer(v, p, active) ==
  LET rows == {row \in DataRow : Admits(v, p, row) /\ Covers(v, active, row) # {}}
      columns == ColumnsOf(v)
      able(a) == {g \in ViewGrants(v) : grant[g].profile \in Listing(v, a)}
      lit(row, a) == able(a) \cap Covers(v, active, row)
      best(gs, a) == Min({Lowered(v, g, a) : g \in gs})
  IN [columns |-> columns,
      cells |-> [row \in rows |-> [a \in columns |->
        IF able(a) = {} THEN 1
        ELSE IF ~RowVarying(v, a) THEN best(able(a), a)
        ELSE IF lit(row, a) = {} THEN Withheld ELSE best(lit(row, a), a)]],
      marks |-> [row \in rows |->
        {a \in columns : Listing(v, a) # v.profiles /\ lit(row, a) = {}}]]

-----------------------------------------------------------------------------
(* What it should show: the full outer join of what each effective grant    *)
(* shows alone, of each cell the most revealing level, then the ceilings.   *)

RuleAnswer(p, who, verb) ==
  LET gs == IF Hidden(p, verb) THEN {} ELSE Reaching(who, verb)
      rs == {r \in On(verb) : ~BrokenRestriction(r) /\ Concerns(r, p)}
      cols(g) == DOMAIN profile[grant[g].profile]
      columns == (UNION {cols(g) : g \in gs}) \ (UNION {restriction[r].deny : r \in rs})
      rows == {row \in DataRow : /\ \E g \in gs : row \in grant[g].rule.holds
                                 /\ \A r \in rs : row \in restriction[r].rule.holds}
      levels(row, a) == {Rank(a, profile[grant[g].profile][a]) :
                           g \in {h \in gs : a \in cols(h) /\ row \in grant[h].rule.holds}}
      most(a) == {Rank(a, restriction[r].ceiling[a]) : r \in {q \in rs : a \in DOMAIN restriction[q].ceiling}}
  IN [columns |-> columns,
      cells |-> [row \in rows |-> [a \in columns |->
        IF levels(row, a) = {} THEN Withheld ELSE Max({Min(levels(row, a))} \cup most(a))]],
      marks |-> [row \in rows |-> {a \in columns : levels(row, a) = {}}]]

-----------------------------------------------------------------------------
(* begin_data: visibility, then the cap, then the view *)

OverCap(people, held) == Cardinality(held) >= 2 /\ held \notin Combinations(Needed(people), Viewed)

\* A compilation for the one person decides, and that for all people only about
\* a view that is not there.
Decide(p, who, verb) ==
  IF Hidden(p, verb) \/ Held(who, verb) = {} THEN "missing"
  ELSE IF OverCap({p}, Held(who, verb)) THEN "limit"
  ELSE IF current /\ ViewOf(p, who, verb) \in views THEN "answered"
  ELSE IF OverCap(Person, Held(who, verb)) THEN "limit"
  ELSE "pending"

\* A narrowed request is decided twice, first as if it were not.
AnswerTo(p, who, verb) ==
  LET base == Decide(p, Identities(p), verb) IN
  IF base # "answered" THEN base ELSE Decide(p, who, verb)

\* _read_narrow and _narrow: a write is not narrowed, and a read may be to an
\* identity of the person.
Requests ==
  {<<p, Identities(p), verb>> : p \in Person, verb \in Verb}
  \cup UNION {{<<p, {i}, "read">> : i \in Identities(p)} : p \in Person}
Answered == {x \in Requests : AnswerTo(x[1], x[2], x[3]) = "answered"}

-----------------------------------------------------------------------------
(* Writes: require_write_grant, which looks at grants and not at views *)

\* _clear_names and _denied_ids
Denied(p) ==
  UNION {restriction[r].deny \cup {a \in DOMAIN restriction[r].ceiling : restriction[r].ceiling[a] # Clear} :
           r \in {q \in On("write") : ~BrokenRestriction(q) /\ Concerns(q, p)}}
ClearNames_Wrong(p, g) ==
  {a \in head \cap DOMAIN profile[grant[g].profile] : profile[grant[g].profile][a] = Clear}
ClearNames(p, g) ==
  {a \in head \cap DOMAIN profile[grant[g].profile] : profile[grant[g].profile][a] = Clear} \ Denied(p)

\* _row_ok, of every image of a row before and after the write
RowOk(p, g, row) ==
  /\ row \in grant[g].rule.holds
  /\ \A r \in On("write") : ~BrokenRestriction(r) /\ Concerns(r, p) => row \in restriction[r].rule.holds

WriteGrants(p, written, images) ==
  {g \in Reaching(Identities(p), "write") :
     written \subseteq ClearNames(p, g) /\ \A row \in images : RowOk(p, g, row)}

-----------------------------------------------------------------------------
(* Edits.  _commit raises the revision, and the views lag behind it. *)

NoRule == [holds |-> DataRow, names |-> {}]
AllClearColumns(h) == [a \in h |-> Clear]
SystemBody == [subject |-> <<"user", System>>, profile |-> AllClear, rule |-> NoRule,
               verbs |-> Verb, active |-> TRUE, until |-> FALSE]

\* After the first publish.
AccessInit ==
  /\ head \in Heads
  /\ ladder = [a \in Attribute |-> <<Clear>>]
  /\ profile = [x \in Profile |-> IF x = AllClear THEN AllClearColumns(head) ELSE NoRecord]
  /\ grant = [g \in Grant |-> IF g = SystemGrant THEN SystemBody ELSE NoRecord]
  /\ restriction = [r \in Restriction |-> NoRecord]
  /\ role = [p \in Person |-> IF p = System THEN NoRole ELSE CHOOSE r \in Roles[p] : TRUE]
  /\ groups = [p \in Person |-> {}] /\ expired = {}
  /\ views = {View(verb, {AllClear}, {}) : verb \in Verb} /\ current = TRUE

Commits == current' = FALSE /\ UNCHANGED <<head, role, groups, views>>

\* A level that is still named stays (_removed_levels).
PutLadder(a, l) ==
  /\ a \in head /\ l # ladder[a]
  /\ \A x \in Existing(profile) : a \in DOMAIN profile[x] => profile[x][a] \in Range(l)
  /\ \A r \in Existing(restriction) :
       a \in DOMAIN restriction[r].ceiling => restriction[r].ceiling[a] \in Range(l)
  /\ ladder' = [ladder EXCEPT ![a] = l]
  /\ Commits /\ UNCHANGED <<profile, grant, restriction, expired>>

\* create_profile, update_profile, and copy_profile, which drops what does not fit.
PutProfile(x, cols) ==
  /\ Sound(cols) /\ profile[x] # cols
  /\ profile' = [profile EXCEPT ![x] = cols]
  /\ Commits /\ UNCHANGED <<ladder, grant, restriction, expired>>

DeleteProfile(x) ==
  /\ x \in Existing(profile) /\ \A g \in Existing(grant) : grant[g].profile # x
  /\ profile' = [profile EXCEPT ![x] = NoRecord]
  /\ Commits /\ UNCHANGED <<ladder, grant, restriction, expired>>

\* create_grant, and update_grant, which checks and changes the submitted fields
\* only: an expired grant stays so unless valid_until is among them.
PutGrant(g, body) ==
  /\ g # SystemGrant /\ (grant[g] # body \/ g \in expired)
  /\ "write" \in body.verbs => "read" \in body.verbs
  /\ \/ body.profile \in Existing(profile)
     \/ g \in Existing(grant) /\ body.profile = grant[g].profile
  /\ \/ body.rule.names \subseteq head
     \/ g \in Existing(grant) /\ body.rule = grant[g].rule
  /\ grant' = [grant EXCEPT ![g] = body]
  /\ \/ expired' = expired \ {g}
     \/ g \in Existing(grant) /\ body.until = grant[g].until /\ UNCHANGED expired
  /\ Commits /\ UNCHANGED <<ladder, profile, restriction>>

DeleteGrant(g) ==
  /\ g \in Existing(grant) /\ g # SystemGrant
  /\ grant' = [grant EXCEPT ![g] = NoRecord] /\ expired' = expired \ {g}
  /\ Commits /\ UNCHANGED <<ladder, profile, restriction>>

PutRestriction(r, body) ==
  /\ restriction[r] # body
  /\ body.rule # NoRule \/ body.deny # {} \/ DOMAIN body.ceiling # {}
  /\ (body.rule.names \cup body.deny) \subseteq head /\ Sound(body.ceiling)
  /\ restriction' = [restriction EXCEPT ![r] = body]
  /\ Commits /\ UNCHANGED <<ladder, profile, grant, expired>>

DeleteRestriction(r) ==
  /\ r \in Existing(restriction)
  /\ restriction' = [restriction EXCEPT ![r] = NoRecord]
  /\ Commits /\ UNCHANGED <<ladder, profile, grant, expired>>

-----------------------------------------------------------------------------
(* What happens without an edit *)

\* The rest of a publish: ensure_system_grant refreshes all_clear for the new
\* head, and the views are compiled for it.  An attribute that comes has a new id.
Publish(h) ==
  /\ h # head
  /\ \A a \in h \ head : /\ \A x \in Existing(profile) : a \notin DOMAIN profile[x]
                         /\ \A r \in Existing(restriction) :
                              a \notin restriction[r].deny \cup DOMAIN restriction[r].ceiling
                                         \cup restriction[r].rule.names
                         /\ \A g \in Existing(grant) : a \notin grant[g].rule.names
  /\ head' = h /\ profile' = [profile EXCEPT ![AllClear] = AllClearColumns(h)]
  /\ UNCHANGED <<ladder, grant, restriction, peopleVars>>
  /\ \E existing \in {Viewed} : views' = Generated(Person, existing)'
  /\ current' = TRUE

Regenerate == views' = Generated(Person, Viewed) /\ current' = TRUE
              /\ UNCHANGED <<head, policyVars, peopleVars>>

\* Membership and expiry take effect without a regeneration.
SetRole(p, r) == /\ r # role[p] /\ role' = [role EXCEPT ![p] = r]
                 /\ UNCHANGED <<head, policyVars, groups, expired, views, current>>
SetGroups(p, gs) == /\ gs # groups[p] /\ groups' = [groups EXCEPT ![p] = gs]
                    /\ UNCHANGED <<head, policyVars, role, expired, views, current>>
Expire(g) == /\ g \in Existing(grant) \ expired /\ grant[g].until
             /\ expired' = expired \cup {g}
             /\ UNCHANGED <<head, policyVars, role, groups, views, current>>

AccessNext ==
  \/ \E a \in Attribute : \E l \in Ladder[a] : PutLadder(a, l)
  \/ \E x \in Profile : DeleteProfile(x) \/ \E cols \in Columns[x] : PutProfile(x, cols)
  \/ \E g \in Grant : DeleteGrant(g) \/ Expire(g) \/ \E body \in GrantBody[g] : PutGrant(g, body)
  \/ \E r \in Restriction : \/ DeleteRestriction(r)
                            \/ \E body \in RestrictionBody[r] : PutRestriction(r, body)
  \/ \E h \in Heads : Publish(h)
  \/ Regenerate
  \/ \E p \in Person : \/ \E r \in Roles[p] : SetRole(p, r)
                       \/ \E gs \in Joins[p] : SetGroups(p, gs)

AccessSpec == AccessInit /\ [][AccessNext]_accessVars

-----------------------------------------------------------------------------
(* Properties *)

AccessTypeOK ==
  /\ head \in Heads /\ \A a \in Attribute : ladder[a] \in Ladder[a] \cup {<<Clear>>}
  /\ \A x \in Profile : profile[x] = NoRecord \/ DOMAIN profile[x] \subseteq Attribute
  /\ grant[SystemGrant] = SystemBody /\ DOMAIN restriction = Restriction
  /\ role \in [Person -> AnyRole \cup {NoRole}] /\ groups \in [Person -> SUBSET AnyGroup]
  /\ expired \subseteq Grant /\ current \in BOOLEAN
  /\ \A v \in views : v.verb \in Verb /\ v.profiles \subseteq Profile /\ v.included \subseteq Restriction

\* Someone without a Role sees no row where a restriction names a Role.
RoleDecides(p, verb) ==
  role[p] # NoRole \/ \A r \in Selective(verb) : \A s \in restriction[r].subjects : s[1] # "role"

\* An answered request is shown exactly what the cell rule says, however people
\* and time have changed since its view was compiled; a refusal hides nothing
\* that the rule shows; and one may write what a single grant lets one see clear
\* for writing, and nothing else (docs/business-entity-access.md 9.2 to 9.9).
AnswersFollowRule ==
  \A x \in Requests : RoleDecides(x[1], x[3]) =>
    LET p == x[1]  who == x[2]  verb == x[3]
        answer == AnswerTo(p, who, verb)
        rule == RuleAnswer(p, who, verb)
    IN /\ answer = "answered" => ViewAnswer(ViewOf(p, who, verb), p, Reaching(who, verb)) = rule
       /\ answer = "missing" => DOMAIN rule.cells = {}
       /\ answer = "answered" /\ verb = "write" =>
            \A row \in DataRow : \A a \in Attribute :
              WriteGrants(p, {a}, {row}) # {}
                <=> row \in DOMAIN rule.cells /\ a \in rule.columns /\ rule.cells[row][a] = 1

\* The variables have their types, and every answer follows the rule.
AccessFollowsRule == AccessTypeOK /\ AnswersFollowRule

\* What is pending now is answered once the views are generated: nobody is told
\* to retry for a view that no regeneration makes (enforce.py's begin_data).
PendingIsGenerated ==
  LET generated == Generated(Person, Viewed) IN
  \A x \in Requests : AnswerTo(x[1], x[2], x[3]) = "pending" =>
    LET lacking == IF Decide(x[1], Identities(x[1]), x[3]) = "answered" THEN x[2] ELSE Identities(x[1])
    IN ViewOf(x[1], lacking, x[3]) \in generated

\* A regeneration for one person's new combination takes nobody else's view away,
\* though the cap is reached.
RegenerationKeepsAnswers ==
  [][current /\ views' # views /\ UNCHANGED <<head, policyVars, peopleVars>>
       => Answered \subseteq Answered']_accessVars
=============================================================================
