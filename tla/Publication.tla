---------------------------- MODULE Publication ----------------------------
(***************************************************************************)
(* Definitions of Data Channels and what a publish leaves for others:      *)
(* backend/channel/service.py, store.py, schedules.py, inbound_paths.py,   *)
(* and the accounts that graphs name (inbound_credentials.py, webhooks.py, *)
(* http_accounts.py, email_accounts.py).                                   *)
(*                                                                         *)
(* A channel is served by its latest version, by one Scheduled Task row if *)
(* that version has a scheduled trigger, and by one path, unique on the    *)
(* site, if it has an inbound one.  The version, the schedule row and the  *)
(* path are stored in three transactions, each from what the request read  *)
(* before; so are an activation and a deletion, and any of them may stop   *)
(* halfway.  The account checks of every kind of account have one shape.   *)
(***************************************************************************)
EXTENDS Naturals, Sequences, SequencesExt

\* The names that end in _Wrong are deliberately wrong variants of a
\* definition; they confirm that a property can fail.

CONSTANTS Channel,
          Requester,     \* requests at once
          Cadence,       \* cadences of a scheduled trigger
          Path, NoPath, Account, NoAccount,
          Graph,         \* the drafts that are submitted
          MaxRevision,   \* bounds on the drafts and the versions of a channel
          MaxNumber

Trigger == Cadence \cup {"none", "manual", "inbound"}
Draft == [trigger : Trigger, path : Path \cup {NoPath}, account : Account \cup {NoAccount}]
Empty == [trigger |-> "none", path |-> NoPath, account |-> NoAccount]
Unheld == "unheld"

ASSUME PublicationAssumption ==
  /\ MaxRevision \in Nat /\ MaxNumber \in Nat
  /\ Cadence \cap {"none", "manual", "inbound"} = {} /\ Unheld \notin Channel
  /\ Graph \subseteq Draft /\ NoAccount \notin Account

VARIABLES channels,  \* the channels row: life, active, draft, revision; and its versions
          synced,    \* of each channel, its scheduled_tasks row
          held,      \* of each path, the channel of its row
          accounts,  \* those that exist
          request,   \* requests between two of their transactions
          torn,      \* history: of each channel, what a request left to be done
          crossed    \* history: a write from what no longer holds

publicationVars == <<channels, synced, held, accounts, request, torn, crossed>>

NotSynced == [trigger |-> "none", enabled |-> FALSE]
NoChannel == [life |-> "none", active |-> FALSE, draft |-> Empty, revision |-> 0, versions |-> <<>>]
NoRead == [active |-> FALSE, revision |-> 0, graph |-> Empty, number |-> 0]
NoRequest == [at |-> "idle", of |-> Unheld, seen |-> NoRead, row |-> NotSynced]

PublicationInit ==
  /\ channels = [c \in Channel |-> NoChannel] /\ synced = [c \in Channel |-> NotSynced]
  /\ held = [p \in Path |-> Unheld] /\ accounts = Account
  /\ request = [r \in Requester |-> NoRequest]
  /\ torn = [c \in Channel |-> {}] /\ crossed = FALSE

Live(c) == channels[c].life = "live"
HeldBy(c) == {p \in Path : held[p] = c}

\* The error problems of validate that hang on other rows, and an only trigger,
\* an inbound one with its path and credential.
Complete(g) == g.trigger = "inbound" => g.path # NoPath /\ g.account # NoAccount
Valid(g) == g.trigger # "none" /\ Complete(g) /\ g.account \in accounts \cup {NoAccount}

\* The referenced checks of the four kinds of accounts: drafts and versions.
Referenced_Wrong(x) == \E c \in Channel : x \in {v.account : v \in ToSet(channels[c].versions)}
Referenced(x) == \E c \in Channel : \/ channels[c].draft.account = x
                                    \/ x \in {v.account : v \in ToSet(channels[c].versions)}

\* claim: one path of a channel; another channel's is taken.
Claimed_Wrong(p, c) == [held EXCEPT ![p] = c]
Claimed(p, c) == [q \in Path |-> IF q = p THEN c ELSE IF held[q] = c THEN Unheld ELSE held[q]]
Withdrawn(c) == [q \in Path |-> IF held[q] = c THEN Unheld ELSE held[q]]

\* What _upsert writes, given the channel that the request read.
Synced_Wrong(c, seen, g) ==
  [trigger |-> g.trigger, enabled |-> IF synced[c] = NotSynced THEN seen.active ELSE synced[c].enabled]
Synced(c, seen, g) == [trigger |-> g.trigger, enabled |-> seen.active]

-----------------------------------------------------------------------------
(* Requests *)

Begins(r, at, c, read) ==
  /\ request[r].at = "idle"
  /\ request' = [request EXCEPT ![r] = [NoRequest EXCEPT !.at = at, !.of = c, !.seen = read]]
Goes(r, at) == request' = [request EXCEPT ![r].at = at]
Ends(r) == request' = [request EXCEPT ![r] = NoRequest]
Races(race) == crossed' = (crossed \/ race)
Tears(c, what) == torn' = [torn EXCEPT ![c] = @ \cup what]
Mends(c, what) == torn' = [torn EXCEPT ![c] = @ \ what]

CreateChannel(c) ==
  /\ channels[c].life = "none"
  /\ channels' = [channels EXCEPT ![c] = [NoChannel EXCEPT !.life = "live", !.revision = 1]]
  /\ UNCHANGED <<synced, held, accounts, request, torn, crossed>>

\* A requester stops between two transactions, an error of the database included.
Dies(r) ==
  /\ request[r].at # "idle" /\ Ends(r)
  /\ UNCHANGED <<channels, synced, held, accounts, torn, crossed>>

\* get_draft, and save_draft with the revision it showed
GetDraft(r, c) ==
  /\ Live(c) /\ Begins(r, "draft", c, [NoRead EXCEPT !.revision = channels[c].revision])
  /\ UNCHANGED <<channels, synced, held, accounts, torn, crossed>>

SaveDraft(r) ==
  LET c == request[r].of IN
  /\ request[r].at = "draft" /\ Ends(r)
  /\ \E g \in Graph :
       channels' = IF Live(c) /\ channels[c].revision = request[r].seen.revision /\ channels[c].revision < MaxRevision
                    THEN [channels EXCEPT ![c].draft = g, ![c].revision = @ + 1]
                    ELSE channels
  /\ UNCHANGED <<synced, held, accounts, torn, crossed>>

-----------------------------------------------------------------------------
(* publish_channel *)

\* validate and require_inbound_publish of the draft that was read
CheckPublish(r, c) ==
  LET g == channels[c].draft IN
  /\ Live(c) /\ Valid(g) /\ (g.trigger = "inbound" => held[g.path] \in {Unheld, c})
  /\ Begins(r, "store", c, [NoRead EXCEPT !.active = channels[c].active, !.revision = channels[c].revision])
  /\ UNCHANGED <<channels, synced, held, accounts, torn, crossed>>

\* publish_version: the row is locked and its revision compared.
Confirmed_Wrong(r) == TRUE
Confirmed(r) == channels[request[r].of].revision = request[r].seen.revision

StoreVersion(r) ==
  LET c == request[r].of IN
  /\ request[r].at = "store"
  /\ IF Live(c) /\ Confirmed(r)
       THEN /\ Len(channels[c].versions) < MaxNumber
            /\ channels' = [channels EXCEPT ![c].versions = Append(@, channels[c].draft)]
            /\ request' = [request EXCEPT ![r].at = "schedule", ![r].seen.graph = channels[c].draft,
                                          ![r].seen.number = Len(channels[c].versions) + 1]
            /\ Tears(c, {"schedule", "path"})
       ELSE Ends(r) /\ UNCHANGED <<channels, torn>>
  /\ UNCHANGED <<synced, held, accounts, crossed>>

\* The version that is being synced is the one that serves.
Serving(r) == Live(request[r].of) /\ Len(channels[request[r].of].versions) = request[r].seen.number

SyncSchedule(r) ==
  LET c == request[r].of  g == request[r].seen.graph IN
  /\ request[r].at = "schedule" /\ Goes(r, "path")
  /\ IF g.trigger \in Cadence
       THEN /\ synced' = [synced EXCEPT ![c] = Synced(c, request[r].seen, g)]
            /\ Races(~Serving(r) \/ channels[c].active # request[r].seen.active)
       ELSE synced' = [synced EXCEPT ![c] = NotSynced] /\ Races(~Serving(r))
  /\ Mends(c, {"schedule", "enabled"})
  /\ UNCHANGED <<channels, held, accounts>>

\* The credential is looked for again, and the path of a channel that is gone
\* cannot be stored.
SyncPath(r) ==
  LET c == request[r].of  g == request[r].seen.graph IN
  /\ request[r].at = "path" /\ Ends(r)
  /\ IF g.trigger # "inbound"
       THEN held' = Withdrawn(c) /\ Mends(c, {"path"}) /\ Races(~Serving(r))
       ELSE IF Live(c) /\ g.account \in accounts /\ held[g.path] \in {Unheld, c}
              THEN held' = Claimed(g.path, c) /\ Mends(c, {"path"}) /\ Races(~Serving(r))
              ELSE UNCHANGED <<held, torn, crossed>>
  /\ UNCHANGED <<channels, synced, accounts>>

-----------------------------------------------------------------------------
(* Writes of the whole channel row: set_channel_active, patch_channel, and the *)
(* failure streak of a run that ends (the subject of Recovery)                 *)

CheckRow(r, c) ==
  /\ Live(c)
  /\ \E at \in {IF channels[c].active THEN "deactivate" ELSE "activate", "rename", "streak"} :
       Begins(r, at, c, [NoRead EXCEPT !.active = channels[c].active])
  /\ UNCHANGED <<channels, synced, held, accounts, torn, crossed>>

Switches(r) == request[r].at \in {"activate", "deactivate"}

\* save: active as it was read or set
SaveRow(r) ==
  LET c == request[r].of  active == IF Switches(r) THEN ~request[r].seen.active ELSE request[r].seen.active IN
  /\ request[r].at \in {"activate", "deactivate", "rename", "streak"}
  /\ IF Live(c)
       THEN /\ channels' = [channels EXCEPT ![c].active = active]
            /\ Races(~Switches(r) /\ channels[c].active # active)
            /\ IF Switches(r) THEN Tears(c, {"enabled"}) ELSE UNCHANGED torn
            /\ IF request[r].at = "streak" THEN Ends(r)
               ELSE request' = [request EXCEPT ![r].at = IF Switches(r) THEN "switched" ELSE "renamed",
                                               ![r].seen.active = active]
       ELSE Ends(r) /\ UNCHANGED <<channels, torn, crossed>>
  /\ UNCHANGED <<synced, held, accounts>>

\* set_channel_schedule_enabled and rename_channel_schedule: read the row, ...
ReadSchedule(r) ==
  LET c == request[r].of IN
  /\ request[r].at \in {"switched", "renamed"}
  /\ IF synced[c] = NotSynced
       THEN /\ Ends(r)
            /\ IF request[r].at = "switched" THEN Mends(c, {"enabled"}) ELSE UNCHANGED torn
       ELSE /\ request' = [request EXCEPT ![r].row = synced[c],
                                          ![r].at = IF @ = "switched" THEN "enable" ELSE "name"]
            /\ UNCHANGED torn
  /\ UNCHANGED <<channels, synced, held, accounts, crossed>>

\* ... and write all of it, though it was deleted meanwhile.
WriteSchedule(r) ==
  LET c == request[r].of  row == request[r].row  active == request[r].seen.active IN
  /\ request[r].at \in {"enable", "name"} /\ Ends(r)
  /\ Races(synced[c] # row \/ ~Live(c) \/ (request[r].at = "enable" /\ channels[c].active # active))
  /\ synced' = [synced EXCEPT ![c] = IF request[r].at = "enable" THEN [row EXCEPT !.enabled = active] ELSE row]
  /\ IF request[r].at = "enable" THEN Mends(c, {"enabled"}) ELSE UNCHANGED torn
  /\ UNCHANGED <<channels, held, accounts>>

-----------------------------------------------------------------------------
(* delete_channel, and the deletion of an account *)

CheckDelete(r, c) ==
  /\ Live(c) /\ Begins(r, "withdraw", c, NoRead)
  /\ UNCHANGED <<channels, synced, held, accounts, torn, crossed>>

WithdrawSchedule(r) ==
  LET c == request[r].of IN
  /\ request[r].at = "withdraw" /\ Goes(r, "release")
  /\ synced' = [synced EXCEPT ![c] = NotSynced]
  /\ IF Live(c) THEN Tears(c, {"schedule"}) ELSE UNCHANGED torn
  /\ UNCHANGED <<channels, held, accounts, crossed>>

WithdrawPath(r) ==
  /\ request[r].at = "release" /\ Goes(r, "remove")
  /\ held' = Withdrawn(request[r].of)
  /\ IF Live(request[r].of) THEN Tears(request[r].of, {"path"}) ELSE UNCHANGED torn
  /\ UNCHANGED <<channels, synced, accounts, crossed>>

\* The versions and the path go with the row.
DeleteChannel(r) ==
  LET c == request[r].of IN
  /\ request[r].at = "remove" /\ Ends(r)
  /\ channels' = [channels EXCEPT ![c] = [NoChannel EXCEPT !.life = "gone"]]
  /\ held' = Withdrawn(c)
  /\ Mends(c, {"schedule", "enabled", "path"})
  /\ Races(synced[c] # NotSynced)
  /\ UNCHANGED <<synced, accounts>>

CheckAccount(r, x) ==
  /\ x \in accounts /\ ~Referenced(x) /\ request[r].at = "idle"
  /\ request' = [request EXCEPT ![r] = [NoRequest EXCEPT !.at = "account", !.seen.graph.account = x]]
  /\ UNCHANGED <<channels, synced, held, accounts, torn, crossed>>

DeleteAccount(r) ==
  LET x == request[r].seen.graph.account IN
  /\ request[r].at = "account" /\ Ends(r)
  /\ accounts' = accounts \ {x} /\ Races(Referenced(x))
  /\ UNCHANGED <<channels, synced, held, torn>>

PublicationNext ==
  \/ \E c \in Channel : CreateChannel(c)
  \/ \E r \in Requester :
       \/ \E c \in Channel : GetDraft(r, c) \/ CheckPublish(r, c) \/ CheckRow(r, c) \/ CheckDelete(r, c)
       \/ \E x \in Account : CheckAccount(r, x)
       \/ SaveDraft(r) \/ StoreVersion(r) \/ SyncSchedule(r) \/ SyncPath(r)
       \/ SaveRow(r) \/ ReadSchedule(r) \/ WriteSchedule(r)
       \/ WithdrawSchedule(r) \/ WithdrawPath(r) \/ DeleteChannel(r) \/ DeleteAccount(r)
       \/ Dies(r)

PublicationSpec == PublicationInit /\ [][PublicationNext]_publicationVars

-----------------------------------------------------------------------------
(* Properties *)

Quiet(c) == torn[c] = {} /\ \A r \in Requester : request[r].of # c

\* The schedule row and the path are those of the latest version.
Served(c) ==
  LET g == IF channels[c].versions = <<>> THEN Empty ELSE Last(channels[c].versions) IN
  /\ synced[c] = IF g.trigger \in Cadence THEN [trigger |-> g.trigger, enabled |-> channels[c].active]
                 ELSE NotSynced
  /\ HeldBy(c) = IF g.trigger = "inbound" THEN {g.path} ELSE {}

\* A channel at rest is started by what its latest version says and by nothing
\* else: its schedule row is there, with the cadence of that version, exactly if
\* the trigger is scheduled, and enabled exactly if the channel is active; it
\* holds the path of that version and no other; a deleted channel has neither
\* (docs/business-data-channel.md 3.2, 3.6, 3.7 and the Inbound node).  And what
\* a version names was checked and still exists, whichever drafts were saved and
\* accounts deleted in between.  A request that stopped halfway is made good by
\* the next publish; requests that cross may break both.
ChannelsAreServed ==
  ~crossed => \A c \in Channel :
    /\ Quiet(c) => Served(c)
    /\ \A v \in ToSet(channels[c].versions) : Valid(v)
=============================================================================
