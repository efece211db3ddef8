---------------------------- MODULE Definitions ----------------------------
(***************************************************************************)
(* What Business Entity definitions say of each other and of Dictionaries  *)
(* (backend/entity/service.py, validate.py, inbound.py,                    *)
(* reference_binding.py, dictionary_binding.py, classify.py, dictionaries, *)
(* and the parts of publish.py that freeze and bind).                      *)
(*                                                                         *)
(* A version may mark a Business Key, refer to entities and use the codes  *)
(* of the Dictionary.  A publish freezes, when it is accepted, the keys of *)
(* the targets and the active codes; its Job binds them if they are still  *)
(* so.  Keys and codes that are bound must not change underneath: every    *)
(* request looks for what is bound in one transaction and writes in        *)
(* another.  The tables and the races within one publish are the subject   *)
(* of EntityPublish.                                                       *)
(***************************************************************************)
EXTENDS Naturals, FiniteSets, Sequences, SequencesExt

CONSTANTS Entity,
          Author, Editor,   \* requests at once: of definitions, of the Dictionary
          Key, NoKey,       \* Business Keys: name, type and length
          Code,
          Shape,            \* of each entity, the definitions that are submitted
          MaxOpened         \* bound on the versions of an entity

ASSUME DefinitionsAssumption ==
  /\ NoKey \notin Key /\ MaxOpened \in Nat \ {0}
  /\ \A e \in Entity : Shape[e] \subseteq [key : Key \cup {NoKey}, refs : SUBSET Entity, dict : BOOLEAN]

\* The names that end in _Wrong are deliberately wrong variants of a
\* definition; they confirm that a property can fail.

VARIABLES life,        \* of each entity: "none", "live", "deprecated", "gone"
          versions,    \* of each entity, its versions
          dictionary,  \* "live", "deprecated", "gone"
          listed,      \* of each code of the Dictionary: "absent", "active", "inactive"
          author,      \* requests between their checks and their write
          publish,         \* of each entity, the publish Job
          crossed      \* history: a write whose check no longer held

definitionVars == <<life, versions, dictionary, listed, author, publish, crossed>>

Nothing == [x \in {} |-> NoKey]
Version(shape) == [status |-> "unpublished", shape |-> shape, present |-> FALSE,
                   bound |-> Nothing, codes |-> {}]
Blank == [key |-> NoKey, refs |-> {}, dict |-> FALSE]
Free == [at |-> "idle", of |-> NoKey, shape |-> Blank, seen |-> <<>>]
NoPublish == [at |-> "none", keys |-> Nothing, codes |-> {}, deprecated |-> FALSE]

DefinitionsInit ==
  /\ life = [e \in Entity |-> "none"] /\ versions = [e \in Entity |-> <<>>]
  /\ dictionary = "live" /\ listed = [c \in Code |-> "active"]
  /\ author = [a \in Author \cup Editor |-> Free] /\ publish = [e \in Entity |-> NoPublish] /\ crossed = FALSE

Existing == {e \in Entity : versions[e] # <<>>}
CurrentOf(e) == Last(versions[e])
\* latest_published_of: the serving head
HeadOf(e) == SelectLastInSubSeq(versions[e], 1, Len(versions[e]),
                                LAMBDA v : v.status = "published")
PublishingOf(e) == \E i \in DOMAIN versions[e] : versions[e][i].status = "publishing"
Active == {c \in Code : listed[c] = "active"}
Listed == {c \in Code : listed[c] # "absent"}

-----------------------------------------------------------------------------
(* The checks *)

\* inbound_references_for: current versions only.
Inbound(t) == {e \in Existing : t \in CurrentOf(e).shape.refs}

\* _current_references, of the shape to be saved, and the serving heads of others.
BoundTo_Wrong(t, shape) == (Inbound(t) \ {t}) \cup ({t} \cap shape.refs \cap Existing)
BoundTo(t, shape) ==
  (Inbound(t) \ {t}) \cup ({t} \cap shape.refs \cap Existing)
  \cup {e \in Existing \ {t} : HeadOf(e) # 0 /\ LET head == versions[e][HeadOf(e)] IN
                                 head.present /\ t \in DOMAIN head.bound}

\* require_business_key_stable
KeyIsStable(t, before, shape) == before = shape.key \/ BoundTo(t, shape) = {}

\* _require_writable_shape: the targets, the Dictionary and the key.
Writable(e, shape, previous) ==
  /\ \A t \in shape.refs \ {e} : life[t] = "live"
  /\ shape.dict => \/ dictionary = "live"
                   \/ dictionary = "deprecated" /\ previous.dict
  /\ KeyIsStable(e, previous.key, shape)

Authoring(e) == life[e] = "live" /\ ~PublishingOf(e)

\* classify_shapes: nothing differs from the head, the codes included.
Unchanged(e, shape) ==
  /\ HeadOf(e) # 0
  /\ LET head == versions[e][HeadOf(e)] IN
     head.shape = shape /\ (shape.dict => dictionary # "gone" /\ head.codes = Active)

\* _target_business_key: of the target's current version, published or not.
TargetKey(e) == [t \in CurrentOf(e).shape.refs |-> IF t \in Existing THEN CurrentOf(t).shape.key ELSE NoKey]

\* _prepare and what accept can freeze.
Acceptable(e) ==
  LET shape == CurrentOf(e).shape IN
  /\ Authoring(e) /\ CurrentOf(e).status = "unpublished" /\ shape # Blank
  /\ Unchanged(e, shape) \/ Writable(e, shape, shape)
  /\ HeadOf(e) # 0 => KeyIsStable(e, versions[e][HeadOf(e)].shape.key, shape)
  /\ shape.dict => dictionary # "gone" /\ Active # {}
  /\ \A t \in shape.refs : TargetKey(e)[t] # NoKey

\* Codes of every snapshot; attributes that name the Dictionary.
Snapshotted == UNION {UNION {versions[e][i].codes : i \in DOMAIN versions[e]} : e \in Entity}
Used == \E e \in Existing : \E i \in DOMAIN versions[e] : versions[e][i].shape.dict

-----------------------------------------------------------------------------
(* Requests: a check, then a write from what was read *)

\* The checks of each request.  No one refers to an entity that is not there,
\* and a copy that changes nothing is not checked.
Admits(kind, e, shape) ==
  CASE kind = "create" -> life[e] = "none" /\ Writable(e, shape, Blank)
    [] kind = "patch" -> /\ Authoring(e) /\ CurrentOf(e).status = "unpublished"
                         /\ Writable(e, shape, CurrentOf(e).shape)
    [] kind = "open" -> /\ Authoring(e) /\ CurrentOf(e).status = "published"
                        /\ Len(versions[e]) < MaxOpened
                        /\ Unchanged(e, shape) \/ Writable(e, shape, CurrentOf(e).shape)
    [] kind = "deprecate" -> Authoring(e) /\ HeadOf(e) # 0 /\ Inbound(e) = {}
    [] kind = "delete" -> e \in Existing /\ ~PublishingOf(e) /\ HeadOf(e) = 0 /\ Inbound(e) = {}

Takes(a, kind, e, shape) ==
  /\ author[a].at = "idle"
  /\ author' = [author EXCEPT ![a] = [at |-> kind, of |-> e, shape |-> shape, seen |-> versions[e]]]
  /\ UNCHANGED <<life, versions, dictionary, listed, crossed>>

Checks(a, e) ==
  /\ \/ \E kind \in {"create", "patch", "open"}, shape \in Shape[e] :
            Admits(kind, e, shape) /\ Takes(a, kind, e, shape)
     \/ \E kind \in {"deprecate", "delete"} : Admits(kind, e, Blank) /\ Takes(a, kind, e, Blank)
  /\ UNCHANGED publish

\* The request ends; what it checked may no longer be so.
Writes(a, kind) == author[a].at = kind /\ author' = [author EXCEPT ![a] = Free]
Late(a) == LET of == author[a].of IN
           versions[of] # author[a].seen \/ ~Admits(author[a].at, of, author[a].shape)
Requested(a, kind) == /\ Writes(a, kind) /\ crossed' = (crossed \/ Late(a))
                      /\ UNCHANGED <<dictionary, listed, publish>>

\* create_entity: the table name is unique.
SaveCreate(a) ==
  LET e == author[a].of IN
  /\ Requested(a, "create")
  /\ IF life[e] = "none"
       THEN /\ life' = [life EXCEPT ![e] = "live"]
            /\ versions' = [versions EXCEPT ![e] = <<Version(author[a].shape)>>]
       ELSE UNCHANGED <<life, versions>>

\* save_version writes the whole row of the copy; a deleted one is not found.
SavePatch(a) ==
  LET e == author[a].of  seen == author[a].seen IN
  /\ Requested(a, "patch")
  /\ versions' = IF e \notin Existing THEN versions
                 ELSE [versions EXCEPT ![e][Len(seen)] = [Last(seen) EXCEPT !.shape = author[a].shape]]
  /\ UNCHANGED life

\* create_version; its number was read with the versions and is unique.
SaveOpen(a) ==
  LET e == author[a].of  seen == author[a].seen IN
  /\ Requested(a, "open")
  /\ versions' = IF Len(versions[e]) # Len(seen) THEN versions
                 ELSE [versions EXCEPT ![e] = Append(@, Version(author[a].shape))]
  /\ UNCHANGED life

SaveDeprecate(a) ==
  /\ Requested(a, "deprecate")
  /\ life' = [life EXCEPT ![author[a].of] = IF @ = "live" THEN "deprecated" ELSE @]
  /\ UNCHANGED versions

\* delete_entity, and its versions with it
DeleteEntity_Wrong(a) ==
  /\ Requested(a, "delete") /\ life' = [life EXCEPT ![author[a].of] = "gone"] /\ UNCHANGED versions
DeleteEntity(a) ==
  LET e == author[a].of IN
  /\ Requested(a, "delete")
  /\ life' = [life EXCEPT ![e] = "gone"] /\ versions' = [versions EXCEPT ![e] = <<>>]

-----------------------------------------------------------------------------
(* Publish *)

CheckAccept(a, e) ==
  /\ e \in Existing /\ Acceptable(e) /\ publish[e].at = "none"
  /\ Takes(a, "accept", e, CurrentOf(e).shape)
  /\ publish' = [publish EXCEPT ![e] = [at |-> "frozen", keys |-> TargetKey(e),
                                codes |-> IF CurrentOf(e).shape.dict THEN Active ELSE {},
                                deprecated |-> dictionary = "deprecated"]]

SaveAccept(a) ==
  LET e == author[a].of  seen == author[a].seen IN
  /\ Writes(a, "accept")
  /\ versions' = IF e \notin Existing THEN versions
                 ELSE [versions EXCEPT ![e][Len(seen)] = [Last(seen) EXCEPT !.status = "publishing"]]
  /\ publish' = [publish EXCEPT ![e] = IF e \in Existing THEN [@ EXCEPT !.at = "queued"] ELSE NoPublish]
  /\ crossed' = (crossed \/ versions[e] # seen)
  /\ UNCHANGED <<life, dictionary, listed>>

\* bind_publish and bind_reference_publish: what was frozen is so still.
StillBinds_Wrong(e) == \A t \in CurrentOf(e).shape.refs : TargetKey(e)[t] = publish[e].keys[t]
StillBinds(e) ==
  /\ CurrentOf(e).shape.dict => /\ dictionary # "gone" /\ Active = publish[e].codes
                                /\ dictionary = "deprecated" => publish[e].deprecated
  /\ \A t \in CurrentOf(e).shape.refs : TargetKey(e)[t] = publish[e].keys[t]

Bind(e) ==
  /\ publish[e].at = "queued" /\ e \in Existing
  /\ CurrentOf(e).shape.refs \subseteq DOMAIN publish[e].keys
  /\ CurrentOf(e).shape.dict => publish[e].codes # {}
  /\ StillBinds(e)
  /\ publish' = [publish EXCEPT ![e].at = "bound"]
  /\ UNCHANGED <<life, versions, dictionary, listed, author, crossed>>

StoreBound(e) ==
  LET n == Len(versions[e]) IN
  /\ publish[e].at = "bound" /\ e \in Existing
  /\ versions' = [versions EXCEPT ![e][n] = [@ EXCEPT !.status = "published", !.present = TRUE,
                                                      !.bound = publish[e].keys, !.codes = publish[e].codes]]
  /\ publish' = [publish EXCEPT ![e] = NoPublish]
  /\ UNCHANGED <<life, dictionary, listed, author, crossed>>

\* rollback_status: what was frozen is no longer so, the Job fails, or the
\* version is gone.
RollBack(e) ==
  /\ publish[e].at \in {"queued", "bound"}
  /\ publish' = [publish EXCEPT ![e] = NoPublish]
  /\ versions' = [versions EXCEPT ![e] =
       [i \in DOMAIN @ |-> IF @[i].status = "publishing" THEN [@[i] EXCEPT !.status = "unpublished"] ELSE @[i]]]
  /\ UNCHANGED <<life, dictionary, listed, author, crossed>>

\* _drop of the head of a deprecated entity
DropHead(e) ==
  /\ life[e] = "deprecated" /\ HeadOf(e) # 0 /\ versions[e][HeadOf(e)].present
  /\ versions' = [versions EXCEPT ![e][HeadOf(e)].present = FALSE]
  /\ UNCHANGED <<life, dictionary, listed, author, publish, crossed>>

-----------------------------------------------------------------------------
(* The Dictionary *)

\* update_dictionary: snapshotted_codes first; then the row is locked.
CheckEntries(a) ==
  /\ dictionary # "gone" /\ author[a].at = "idle"
  /\ author' = [author EXCEPT ![a] = [Free EXCEPT !.at = "entries", !.seen = <<Snapshotted>>]]
  /\ UNCHANGED <<life, versions, dictionary, listed, publish, crossed>>

\* What a Job has bound is in no snapshot yet.
InUse(c) == c \in Snapshotted \/ \E e \in Entity : publish[e].at = "bound" /\ c \in publish[e].codes

\* normalize_entries: one entry at least, and a snapshotted code that is listed
\* stays.
SaveEntries(a) ==
  /\ Writes(a, "entries")
  /\ \E entries \in [Code -> {"absent", "active", "inactive"}] :
       LET removed == {c \in Listed : entries[c] = "absent"} IN
       IF dictionary # "gone" /\ removed \cap author[a].seen[1] = {} /\ (\E c \in Code : entries[c] # "absent")
         THEN listed' = entries /\ crossed' = (crossed \/ \E c \in removed : InUse(c))
         ELSE UNCHANGED <<listed, crossed>>
  /\ UNCHANGED <<life, versions, dictionary, publish>>

DeprecateDictionary ==
  /\ dictionary = "live" /\ dictionary' = "deprecated"
  /\ UNCHANGED <<life, versions, listed, author, publish, crossed>>
RestoreDictionary ==
  /\ dictionary = "deprecated" /\ dictionary' = "live"
  /\ UNCHANGED <<life, versions, listed, author, publish, crossed>>

\* delete_dictionary: collect_usages, then the deletion
CheckDeleteDictionary(a) ==
  /\ dictionary # "gone" /\ ~Used /\ author[a].at = "idle"
  /\ author' = [author EXCEPT ![a] = [Free EXCEPT !.at = "undefine"]]
  /\ UNCHANGED <<life, versions, dictionary, listed, publish, crossed>>
DeleteDictionary(a) ==
  /\ Writes(a, "undefine")
  /\ dictionary' = "gone" /\ crossed' = (crossed \/ Used)
  /\ UNCHANGED <<life, versions, listed, publish>>

DefinitionsNext ==
  \/ \E a \in Author :
       \/ \E e \in Entity : Checks(a, e) \/ CheckAccept(a, e)
       \/ SaveCreate(a) \/ SavePatch(a) \/ SaveOpen(a) \/ SaveDeprecate(a) \/ DeleteEntity(a)
       \/ SaveAccept(a)
  \/ \E a \in Editor : CheckEntries(a) \/ SaveEntries(a) \/ CheckDeleteDictionary(a) \/ DeleteDictionary(a)
  \/ \E e \in Entity : Bind(e) \/ StoreBound(e) \/ RollBack(e) \/ DropHead(e)
  \/ DeprecateDictionary \/ RestoreDictionary

DefinitionsSpec == DefinitionsInit /\ [][DefinitionsNext]_definitionVars

-----------------------------------------------------------------------------
(* Properties *)

DefinitionsTypeOK ==
  /\ life \in [Entity -> {"none", "live", "deprecated", "gone"}]
  /\ \A e \in Entity : /\ Len(versions[e]) <= MaxOpened /\ (e \in Existing <=> life[e] \in {"live", "deprecated"})
                       /\ \A i \in DOMAIN versions[e] : /\ versions[e][i].shape \in Shape[e]
                                                         /\ versions[e][i].codes \subseteq Code
                       /\ publish[e].at \in {"none", "frozen", "queued", "bound"}
                       /\ publish[e].codes \subseteq Code
  /\ dictionary \in {"live", "deprecated", "gone"}
  /\ listed \in [Code -> {"absent", "active", "inactive"}]
  /\ \A a \in Author \cup Editor : author[a].of \in Entity \cup {NoKey}

BindingsHold ==
  \A e \in Existing : HeadOf(e) # 0 =>
    LET head == versions[e][HeadOf(e)] IN
    head.present => \A t \in (DOMAIN head.bound \cap Existing) \ {e} :
                      CurrentOf(t).shape.key = head.bound[t]

CodesStayListed == Snapshotted \subseteq Listed /\ (Used => dictionary # "gone")

\* The key that a serving head refers by is still the key of its target, though
\* the head's entity has a later draft without the reference, the target has
\* drafts of its own, and publishes fail or are retried (docs/business-entity.md
\* 2.6).  An entity's own head retires with its successor, and what is deleted
\* has no key.  The codes that a published version checks its values against
\* stay on the Dictionary's list, and a Dictionary that a version names stays
\* (2.5): between the acceptance of a publish, its Job and the edits of the list
\* nothing is lost.  A request whose checks no longer hold when it writes may
\* break both.
DefinitionsAreKept == ~crossed => BindingsHold /\ CodesStayListed
=============================================================================
