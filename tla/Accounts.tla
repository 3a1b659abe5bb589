------------------------------ MODULE Accounts ------------------------------
(***************************************************************************)
(* The accounts and their download links (internal/user, approval, token,  *)
(* custom, home, and the session middleware of internal/auth).             *)
(*                                                                         *)
(* A request is admitted once, by the middleware, which reads the user's   *)
(* status and role; it acts later, in transactions that SQLite serialises, *)
(* when both may have changed.  An upload of a custom subscription is      *)
(* three transactions.  How a session comes to be valid is the subject of  *)
(* SignOn: here any active user may send any request her role allows.      *)
(* Explicit links (subscription_id) have no caller that makes them.        *)
(***************************************************************************)
EXTENDS Naturals, FiniteSets

CONSTANTS
  MaxId,      \* bound: accounts ever made (AUTOINCREMENT: ids are not reused)
  Platforms,
  Requests    \* bound: requests at work at a time

ASSUME AccountsAssumption == MaxId \in Nat

VARIABLES
  users,     \* id -> [status, role]
  tokens,    \* <<user, platform>> -> rows of download_tokens, by kind
  custom,    \* <<user, platform>> -> the row of custom_subscriptions
  content,   \* platforms whose subscription has a current version
  selfreg,   \* allow_selfreg; who may change it is in SignOn
  req,       \* request -> [pc, user, role, key, live, todo]
  kept       \* history: group links that an upload failed to delete

vars == <<users, tokens, custom, content, selfreg, req, kept>>

Ids == 1..MaxId
Keys == Ids \X Platforms
Unused == [status |-> "unused", role |-> "user"]
Gone == [status |-> "gone", role |-> "user"]
Exists(i) == users[i].status \in {"pending", "active", "disabled"}
ActiveAdmins == {i \in Ids : users[i].status = "active" /\ users[i].role = "admin"}
TableEmpty == \A i \in Ids : ~Exists(i)

NoRows == [group |-> 0, custom |-> 0]
Idle == [pc |-> "idle", user |-> 0, role |-> "user", key |-> <<>>, live |-> FALSE, todo |-> {}]
Ends(r) == req' = [req EXCEPT ![r] = Idle]

\* (mutant: role and status swapped in the statement)
Insert_Swapped(status, role) ==
  LET i == CHOOSE k \in Ids : users[k] = Unused
  IN  users' = [users EXCEPT ![i] = [status |-> role, role |-> status]]

\* A row is made under an id that was never used.
Insert(status, role) ==
  LET i == CHOOSE k \in Ids : users[k] = Unused
  IN  users' = [users EXCEPT ![i] = [status |-> status, role |-> role]]
Room == \E i \in Ids : users[i] = Unused

-----------------------------------------------------------------------------
\* Coming in

\* The gate of registration: open, or nobody there; read before the transaction.
RegisterGate(r) ==
  /\ req[r].pc = "idle"
  /\ selfreg \/ TableEmpty
  /\ req' = [req EXCEPT ![r] = [Idle EXCEPT !.pc = "register"]]
  /\ UNCHANGED <<users, tokens, custom, content, selfreg>>

\* The first account is an active administrator; a later one may await approval.
Register(r) ==
  /\ req[r].pc = "register" /\ Room
  /\ IF TableEmpty THEN Insert("active", "admin")
     ELSE \E status \in {"active", "pending"} : Insert(status, "user")
  /\ Ends(r)
  /\ UNCHANGED <<tokens, custom, content, selfreg>>

\* An account made by single sign-on: the same rule, in a transaction of its own.
CreateFromOidc ==
  /\ Room
  /\ IF TableEmpty THEN Insert("active", "admin")
     ELSE \E status \in {"active", "pending"} : Insert(status, "user")
  /\ UNCHANGED <<tokens, custom, content, selfreg, req>>

\* The middleware lets an active user in and notes her role.
Admit(r) ==
  /\ req[r].pc = "idle"
  /\ \E i \in Ids :
       /\ users[i].status = "active"
       /\ req' = [req EXCEPT ![r] = [Idle EXCEPT !.pc = "admitted", !.user = i,
                                     !.role = users[i].role, !.todo = Platforms]]
  /\ UNCHANGED <<users, tokens, custom, content, selfreg>>

-----------------------------------------------------------------------------
\* Download links

\* What the links of user and platform should be: the custom subscription's if there is a
\* row, else the group's if the platform has something to serve.
Applicable(k) ==
  IF custom[k] # "none" THEN "custom" ELSE IF k[2] \in content THEN "group" ELSE "none"

\* Links of the other kind go; without a custom row only custom links do.
CleanedUp(k) ==
  IF custom[k] # "none" THEN [tokens[k] EXCEPT !.group = 0] ELSE [tokens[k] EXCEPT !.custom = 0]

\* Look up, then insert; the insertion fails when the user is gone, and undoes the rest.
ResolveUserToken(k) ==
  LET kind == Applicable(k)
      rows == CleanedUp(k)
  IN  IF kind = "none" \/ rows[kind] > 0
      THEN tokens' = [tokens EXCEPT ![k] = rows]
      ELSE tokens' = IF Exists(k[1])
                     THEN [tokens EXCEPT ![k] = [rows EXCEPT ![kind] = 1]] ELSE tokens

\* The old link of the kind goes, a new one comes; nothing to link to is an error.
RefreshUserToken(k) ==
  LET kind == Applicable(k)
  IN  tokens' = IF kind = "none" \/ ~Exists(k[1]) THEN tokens
                ELSE [tokens EXCEPT ![k] = [CleanedUp(k) EXCEPT ![kind] = 1]]

\* The home page resolves the links of a user, a transaction per platform; an
\* administrator is shown previews.
ListPlatforms(r, p) ==
  /\ req[r].pc = "admitted" /\ req[r].role = "user" /\ p \in req[r].todo
  /\ ResolveUserToken(<<req[r].user, p>>)
  /\ IF req[r].todo = {p} THEN Ends(r) ELSE req' = [req EXCEPT ![r].todo = @ \ {p}]
  /\ UNCHANGED <<users, custom, content, selfreg>>

RefreshToken(r, p) ==
  /\ req[r].pc = "admitted"
  /\ RefreshUserToken(<<req[r].user, p>>)
  /\ Ends(r)
  /\ UNCHANGED <<users, custom, content, selfreg>>

-----------------------------------------------------------------------------
\* Administrators

By(r) == req[r].pc = "admitted" /\ req[r].role = "admin"
Other(r, i) == By(r) /\ i # req[r].user /\ Exists(i)

\* (mutant: the target counts among those who remain)
RemainingAdmins_All(i) == ActiveAdmins

\* Active administrators besides i.
RemainingAdmins(i) == ActiveAdmins \ {i}

Create(r) ==
  /\ By(r) /\ Room
  /\ Insert("active", "user")
  /\ Ends(r)
  /\ UNCHANGED <<tokens, custom, content, selfreg>>

ChangeRole(r, i, role) ==
  /\ Other(r, i)
  /\ users[i].role = "admin" /\ role = "user" => RemainingAdmins(i) # {}
  /\ users' = [users EXCEPT ![i].role = role]
  /\ Ends(r)
  /\ UNCHANGED <<tokens, custom, content, selfreg>>

\* The user's links go in the transaction that disables her.
Disable(r, i) ==
  /\ Other(r, i)
  /\ users[i].role = "admin" => RemainingAdmins(i) # {}
  /\ users' = [users EXCEPT ![i].status = "disabled"]
  /\ tokens' = [k \in Keys |-> IF k[1] = i THEN NoRows ELSE tokens[k]]
  /\ Ends(r)
  /\ UNCHANGED <<custom, content, selfreg>>

\* Whatever the status was: a pending account becomes active as well.
Enable(r, i) ==
  /\ Other(r, i)
  /\ users' = [users EXCEPT ![i].status = "active"]
  /\ Ends(r)
  /\ UNCHANGED <<tokens, custom, content, selfreg>>

\* A deleted account takes links and custom subscriptions with it; an upload that found a
\* row of hers (live) has lost it.
RemoveAccount(r, i) ==
  /\ users' = [users EXCEPT ![i] = Gone]
  /\ tokens' = [k \in Keys |-> IF k[1] = i THEN NoRows ELSE tokens[k]]
  /\ custom' = [k \in Keys |-> IF k[1] = i THEN "none" ELSE custom[k]]
  /\ req' = [s \in Requests |->
               IF s = r THEN Idle
               ELSE IF req[s].key # <<>> /\ req[s].key[1] = i
               THEN [req[s] EXCEPT !.live = FALSE] ELSE req[s]]
  /\ UNCHANGED <<content, selfreg>>

Delete(r, i) ==
  /\ Other(r, i)
  /\ i \in ActiveAdmins => RemainingAdmins(i) # {}
  /\ RemoveAccount(r, i)

Approve(r, i) ==
  /\ By(r) /\ users[i].status = "pending"
  /\ users' = [users EXCEPT ![i].status = "active"]
  /\ Ends(r)
  /\ UNCHANGED <<tokens, custom, content, selfreg>>

Reject(r, i) ==
  /\ By(r) /\ users[i].status = "pending"
  /\ RemoveAccount(r, i)

RevokeAllTokens(r, i) ==
  /\ By(r)
  /\ tokens' = [k \in Keys |-> IF k[1] = i THEN NoRows ELSE tokens[k]]
  /\ Ends(r)
  /\ UNCHANGED <<users, custom, content, selfreg>>

\* A first version for the platform's subscription (updateOwnerCurrent), or the subscription
\* deleted: the last version never is.  Links of the group stay.
SetContent(r, p) ==
  /\ By(r)
  /\ content' = IF p \in content THEN content \ {p} ELSE content \cup {p}
  /\ Ends(r)
  /\ UNCHANGED <<users, tokens, custom, selfreg>>

-----------------------------------------------------------------------------
\* Custom subscriptions: the row, the version, the group's links, one after the other

Upsert(r, k) ==
  /\ By(r) /\ Exists(k[1])
  /\ custom' = [custom EXCEPT ![k] = IF @ = "none" THEN "empty" ELSE @]
  /\ req' = [req EXCEPT ![r] = [Idle EXCEPT !.pc = "version", !.key = k, !.live = TRUE]]
  /\ UNCHANGED <<users, tokens, content, selfreg>>

\* A version is made even for a row that is gone.
UpsertVersion(r) ==
  /\ req[r].pc = "version"
  /\ custom' = IF req[r].live THEN [custom EXCEPT ![req[r].key] = "ready"] ELSE custom
  /\ req' = [req EXCEPT ![r].pc = "links"]
  /\ UNCHANGED <<users, tokens, content, selfreg>>

UpsertFails(r) ==
  /\ req[r].pc = "version"
  /\ req' = [req EXCEPT ![r].pc = "rollback"]
  /\ UNCHANGED <<users, tokens, custom, content, selfreg>>

\* The row goes, even when this upload did not make it; an error is only logged.
RollbackEmptyRecord(r) ==
  /\ req[r].pc = "rollback"
  /\ IF req[r].live
     THEN LET k == req[r].key IN
          /\ custom' = [custom EXCEPT ![k] = "none"]
          /\ tokens' = [tokens EXCEPT ![k].custom = 0]
          /\ req' = [s \in Requests |-> IF s = r THEN Idle ELSE IF req[s].key = k
                                        THEN [req[s] EXCEPT !.live = FALSE] ELSE req[s]]
     ELSE UNCHANGED <<custom, tokens>> /\ Ends(r)
  /\ UNCHANGED <<users, content, selfreg>>

RollbackFails(r) ==
  /\ req[r].pc = "rollback"
  /\ Ends(r)
  /\ UNCHANGED <<users, tokens, custom, content, selfreg>>

\* (mutant: the group's links stay)
DeleteGroupTokens_Skipped(r) ==
  /\ req[r].pc = "links"
  /\ Ends(r)
  /\ UNCHANGED <<users, tokens, custom, content, selfreg>>

DeleteGroupTokens(r) ==
  /\ req[r].pc = "links"
  /\ tokens' = [tokens EXCEPT ![req[r].key].group = 0]
  /\ Ends(r)
  /\ UNCHANGED <<users, custom, content, selfreg>>

\* An error in that, a request cancelled by its client or a restart leaves the links; the
\* upload has succeeded all the same.
DeletionFails(r) ==
  /\ req[r].pc = "links"
  /\ Ends(r)
  /\ UNCHANGED <<users, tokens, custom, content, selfreg>>

DeleteCustom(r, k) ==
  /\ By(r) /\ custom[k] # "none"
  /\ custom' = [custom EXCEPT ![k] = "none"]
  /\ tokens' = [tokens EXCEPT ![k].custom = 0]
  /\ req' = [s \in Requests |-> IF s = r THEN Idle ELSE IF req[s].key = k
                                THEN [req[s] EXCEPT !.live = FALSE] ELSE req[s]]
  /\ UNCHANGED <<users, content, selfreg>>

-----------------------------------------------------------------------------
Init ==
  /\ users = [i \in Ids |-> Unused]
  /\ tokens = [k \in Keys |-> NoRows]
  /\ custom = [k \in Keys |-> "none"]
  /\ content \in SUBSET Platforms
  /\ selfreg \in BOOLEAN
  /\ req = [r \in Requests |-> Idle]
  /\ kept = {}

Account(r) ==
  \/ Create(r)
  \/ \E i \in Ids : \/ Disable(r, i) \/ Enable(r, i) \/ Delete(r, i)
                    \/ Approve(r, i) \/ Reject(r, i) \/ RevokeAllTokens(r, i)
                    \/ \E role \in {"user", "admin"} : ChangeRole(r, i, role)

Upload(r) ==
  \/ UpsertVersion(r) \/ UpsertFails(r) \/ RollbackEmptyRecord(r) \/ RollbackFails(r)
  \/ DeleteGroupTokens(r)
  \/ \E k \in Keys : Upsert(r, k) \/ DeleteCustom(r, k)

\* Of the links that should have been deleted, those still there beside the subscription.
Remaining(K) == {k \in K : tokens'[k].group > 0 /\ custom'[k] # "none"}

Acts ==
  \/ CreateFromOidc
  \/ \E r \in Requests :
       \/ RegisterGate(r) \/ Register(r) \/ Admit(r)
       \/ \E p \in Platforms : ListPlatforms(r, p) \/ RefreshToken(r, p) \/ SetContent(r, p)
       \/ Account(r)
       \/ Upload(r)

Next ==
  \/ Acts /\ kept' = Remaining(kept)
  \/ \E r \in Requests : DeletionFails(r) /\ kept' = Remaining(kept \cup {req[r].key})

Spec == Init /\ [][Next]_vars

-----------------------------------------------------------------------------
\* Properties

\* The types of the variables.
TypeOK ==
  /\ users \in [Ids -> [status : {"unused", "gone", "pending", "active", "disabled"},
                        role : {"user", "admin"}]]
  /\ tokens \in [Keys -> [group : Nat, custom : Nat]]
  /\ custom \in [Keys -> {"none", "empty", "ready"}]
  /\ content \in SUBSET Platforms
  /\ selfreg \in BOOLEAN
  /\ req \in [Requests -> [pc : {"idle", "register", "admitted", "version", "links", "rollback"},
                           user : Nat, role : {"user", "admin"}, key : Keys \cup {<<>>},
                           live : BOOLEAN, todo : SUBSET Platforms]]
  /\ kept \in SUBSET Keys

\* As soon as there is an account there is an active administrator, whatever two
\* administrators whose requests were admitted earlier do to each other at the same time
\* (countActiveAdmins inside the transactions of user/admin.go; the first account of
\* Register and CreateFromOidc).
AdminRemains == TableEmpty \/ ActiveAdmins # {}

\* A user has at most one link to a platform, whichever way home page, refreshing and
\* uploads interleave (cleanupNonApplicableUserTokensTx and getOrCreateUserTokenTx in one
\* transaction).
OneLink == \A k \in Keys : tokens[k].group + tokens[k].custom <= 1

\* A link to a custom subscription exists only with the subscription.
CustomLinkHasRow == \A k \in Keys : tokens[k].custom > 0 => custom[k] # "none"

\* A link the user got before her custom subscription was published is dead once the
\* publishing is over (custom.go: "旧链接立即失效"), unless its deletion failed and nothing
\* has cleaned up since: then the link keeps serving what the group is served.
OldLinkDead ==
  \A k \in Keys \ kept :
    custom[k] = "ready" /\ (\A r \in Requests : req[r].key # k) => tokens[k].group = 0

LinksApply == OneLink /\ CustomLinkHasRow /\ OldLinkDead

\* An account that is gone has left nothing (Delete and Reject, the foreign keys).
GoneLeavesNothing ==
  \A k \in Keys : users[k[1]].status \in {"unused", "gone"} => tokens[k] = NoRows /\ custom[k] = "none"

\* Every link there is applies to its user and platform now, and an account that is gone
\* holds none: what decides is which links are there, the download only looks for the row.
LinksAreDue == LinksApply /\ GoneLeavesNothing
=============================================================================
