---------------------------- MODULE Access_proofs ----------------------------
(***************************************************************************)
(* Proofs about who is served and what: Accounts, for any number of        *)
(* accounts, platforms and requests at work; Catalog, for any names,       *)
(* definitions, selections and acts; NodeLinks, for any number of trips.   *)
(***************************************************************************)
EXTENDS Accounts, Catalog, NodeLinks, TLAPS

(***************************************************************************)
(* Accounts and their links.                                               *)
(***************************************************************************)

\* A request at work knows whose it is, an upload its key, and an upload that found a row
\* still has it.
RequestInv ==
  \A r \in Requests :
    /\ req[r].pc = "admitted" => req[r].user \in Ids /\ ActiveAdmins # {}
    /\ req[r].pc \in {"version", "links", "rollback"} => req[r].key \in Keys
    /\ req[r].live => req[r].key \in Keys /\ custom[req[r].key] # "none"

\* A group's link survives the publishing of a custom subscription only until the upload
\* that published it has come to its last transaction, or when that transaction failed.
PublishInv ==
  \A k \in Keys \ kept : custom[k] = "ready" /\ tokens[k].group > 0 =>
    \E r \in Requests : req[r].pc = "links" /\ req[r].key = k

IInv == /\ TypeOK /\ RequestInv /\ PublishInv
        /\ AdminRemains /\ OneLink /\ CustomLinkHasRow /\ GoneLeavesNothing

-----------------------------------------------------------------------------
\* The types of what the actions put into the variables.

Statuses == {"unused", "gone", "pending", "active", "disabled"}
Roles == {"user", "admin"}
Pcs == {"idle", "register", "admitted", "version", "links", "rollback"}
UsersT == [Ids -> [status : Statuses, role : Roles]]
TokensT == [Keys -> [group : Nat, custom : Nat]]
CustomT == [Keys -> {"none", "empty", "ready"}]
RequestT == [pc : Pcs, user : Nat, role : Roles, key : Keys \cup {<<>>},
             live : BOOLEAN, todo : SUBSET Platforms]

LEMMA Types ==
  TypeOK <=> /\ users \in UsersT /\ tokens \in TokensT /\ custom \in CustomT
             /\ content \in SUBSET Platforms /\ selfreg \in BOOLEAN
             /\ req \in [Requests -> RequestT] /\ kept \in SUBSET Keys
  BY DEF TypeOK, UsersT, TokensT, CustomT, RequestT, Statuses, Roles, Pcs

LEMMA IdleTyped == Idle \in RequestT
  BY DEF Idle, RequestT, Pcs, Roles

\* Insert makes an account of an id never used and leaves the others alone.
LEMMA Inserted ==
  ASSUME users \in UsersT, Room, NEW status \in Statuses, NEW role \in Roles,
         Insert(status, role)
  PROVE  \E i \in Ids :
           /\ users[i] = Unused
           /\ users' = [users EXCEPT ![i] = [status |-> status, role |-> role]]
           /\ users' \in UsersT
<1> DEFINE i == CHOOSE k \in Ids : users[k] = Unused
<1>1. i \in Ids /\ users[i] = Unused
  BY DEF Room
<1>2. users' = [users EXCEPT ![i] = [status |-> status, role |-> role]]
  BY DEF Insert
<1> HIDE DEF i
<1>3. users' \in UsersT
  BY <1>1, <1>2 DEF UsersT
<1> QED
  BY <1>1, <1>2, <1>3

\* What the two resolutions may make of the links of one user and platform.
LEMMA Resolved ==
  ASSUME tokens \in TokensT, custom \in CustomT, NEW k \in Keys,
         ResolveUserToken(k) \/ RefreshUserToken(k)
  PROVE  /\ tokens' \in TokensT
         /\ \A h \in Keys : h # k => tokens'[h] = tokens[h]
         /\ tokens'[k] = tokens[k] \/
            /\ custom[k] # "none" => tokens'[k].group = 0 /\ tokens'[k].custom \in {1, tokens[k].custom}
            /\ custom[k] = "none" => tokens'[k].custom = 0 /\ tokens'[k].group \in {1, tokens[k].group}
            /\ tokens'[k] = [group |-> tokens'[k].group, custom |-> tokens'[k].custom]
            /\ Exists(k[1]) \/ (tokens'[k].group \in {0, tokens[k].group}
                                /\ tokens'[k].custom \in {0, tokens[k].custom})
<1> DEFINE T == tokens[k]
<1>1. T \in [group : Nat, custom : Nat] /\ T = [group |-> T.group, custom |-> T.custom]
  BY DEF TokensT
<1>2. CASE custom[k] # "none"
  <2>1. Applicable(k) = "custom" /\ CleanedUp(k) = [group |-> 0, custom |-> T.custom]
    BY <1>1, <1>2 DEF Applicable, CleanedUp
  <2>2. \/ tokens' = tokens
        \/ tokens' = [tokens EXCEPT ![k] = [group |-> 0, custom |-> T.custom]]
        \/ Exists(k[1]) /\ tokens' = [tokens EXCEPT ![k] = [group |-> 0, custom |-> 1]]
    BY <2>1 DEF ResolveUserToken, RefreshUserToken
  <2> QED
    BY <1>1, <1>2, <2>2 DEF TokensT
<1>3. CASE custom[k] = "none"
  <2>1. Applicable(k) \in {"none", "group"} /\ CleanedUp(k) = [group |-> T.group, custom |-> 0]
    BY <1>1, <1>3 DEF Applicable, CleanedUp
  <2>2. \/ tokens' = tokens
        \/ tokens' = [tokens EXCEPT ![k] = [group |-> T.group, custom |-> 0]]
        \/ Exists(k[1]) /\ tokens' = [tokens EXCEPT ![k] = [group |-> 1, custom |-> 0]]
    BY <2>1 DEF ResolveUserToken, RefreshUserToken
  <2> QED
    BY <1>1, <1>3, <2>2 DEF TokensT
<1> QED
  BY <1>2, <1>3

-----------------------------------------------------------------------------
\* The initial states.

LEMMA InitIInv == Init => IInv
<1> SUFFICES ASSUME Init PROVE IInv
  OBVIOUS
<1>1. TypeOK
  <2>1. users \in UsersT
    BY DEF Init, UsersT, Statuses, Roles, Unused
  <2>2. tokens \in TokensT /\ custom \in CustomT
    BY DEF Init, TokensT, CustomT, NoRows
  <2>3. req \in [Requests -> RequestT]
    BY IdleTyped DEF Init
  <2> QED
    BY <2>1, <2>2, <2>3, Types DEF Init
<1>2. RequestInv
  BY DEF Init, RequestInv, Idle
<1>3. PublishInv /\ OneLink /\ CustomLinkHasRow
  BY DEF Init, PublishInv, OneLink, CustomLinkHasRow, NoRows
<1>4. AdminRemains
  BY DEF Init, AdminRemains, TableEmpty, Exists, Unused
<1>5. GoneLeavesNothing
  BY DEF Init, GoneLeavesNothing
<1> QED
  BY <1>1, <1>2, <1>3, <1>4, <1>5 DEF IInv

-----------------------------------------------------------------------------
\* A step that leaves a variable alone: what is left to look at for each of them.

\* The account table moves by an insertion, by a change of one row, or not at all; and while
\* there are administrators the last active one stays.
UsersMove ==
  \/ users' = users
  \/ \E status \in {"pending", "active"}, role \in Roles :
       /\ Room /\ Insert(status, role)
       /\ TableEmpty => status = "active" /\ role = "admin"
  \/ \E i \in Ids, u \in [status : Statuses \ {"unused"}, role : Roles] :
       /\ Exists(i)
       /\ users' = [users EXCEPT ![i] = u]
       /\ i \in ActiveAdmins /\ u # [status |-> "active", role |-> "admin"] =>
            RemainingAdmins(i) # {}
       /\ u.status = "gone" =>
            \A k \in Keys : k[1] = i => tokens'[k] = NoRows /\ custom'[k] = "none"

LEMMA UsersStep ==
  ASSUME IInv, Next
  PROVE  UsersMove
<1>1. users \in UsersT
  BY Types DEF IInv
<1>2. \A r \in Requests : By(r) => ~TableEmpty
  BY DEF IInv, RequestInv, By, TableEmpty, ActiveAdmins, Exists
<1>3. CASE CreateFromOidc
  BY <1>3 DEF CreateFromOidc, UsersMove, Roles
<1>4. ASSUME NEW r \in Requests, Register(r) PROVE UsersMove
  BY <1>4 DEF Register, UsersMove, Roles
<1>5. ASSUME NEW r \in Requests, Create(r) PROVE UsersMove
  BY <1>5, <1>2 DEF Create, UsersMove, Roles
<1>6. ASSUME NEW r \in Requests, NEW i \in Ids, NEW role \in {"user", "admin"}, ChangeRole(r, i, role)
      PROVE UsersMove
  <2>1. /\ Exists(i) /\ users' = [users EXCEPT ![i] = [users[i] EXCEPT !.role = role]]
        /\ users[i].role = "admin" /\ role = "user" => RemainingAdmins(i) # {}
    BY <1>6 DEF ChangeRole, Other
  <2>2. [users[i] EXCEPT !.role = role] = [status |-> users[i].status, role |-> role]
    BY <1>1 DEF UsersT
  <2>3. users[i].status \in Statuses \ {"unused", "gone"}
    BY <2>1 DEF Exists, Statuses
  <2> DEFINE u == [status |-> users[i].status, role |-> role]
  <2>4. u \in [status : Statuses \ {"unused"}, role : Roles] /\ u.status # "gone"
    BY <2>3 DEF Roles
  <2>5. i \in ActiveAdmins /\ u # [status |-> "active", role |-> "admin"] => RemainingAdmins(i) # {}
    BY <2>1 DEF ActiveAdmins
  <2>6. users' = [users EXCEPT ![i] = u]
    BY <2>1, <2>2
  <2> HIDE DEF u
  <2> QED
    BY <2>1, <2>4, <2>5, <2>6 DEF UsersMove
<1>7. ASSUME NEW r \in Requests, NEW i \in Ids, Disable(r, i) PROVE UsersMove
  <2>1. /\ Exists(i) /\ users' = [users EXCEPT ![i] = [users[i] EXCEPT !.status = "disabled"]]
        /\ users[i].role = "admin" => RemainingAdmins(i) # {}
    BY <1>7 DEF Disable, Other
  <2>2. [users[i] EXCEPT !.status = "disabled"] = [status |-> "disabled", role |-> users[i].role]
    BY <1>1 DEF UsersT
  <2> QED
    BY <1>1, <2>1, <2>2 DEF UsersMove, UsersT, Statuses, ActiveAdmins
<1>8. ASSUME NEW r \in Requests, NEW i \in Ids, Enable(r, i) \/ Approve(r, i) PROVE UsersMove
  <2>1. Exists(i) /\ users' = [users EXCEPT ![i] = [users[i] EXCEPT !.status = "active"]]
    BY <1>8 DEF Enable, Approve, Other, Exists
  <2>2. [users[i] EXCEPT !.status = "active"] = [status |-> "active", role |-> users[i].role]
    BY <1>1 DEF UsersT
  <2> QED
    BY <1>1, <2>1, <2>2 DEF UsersMove, UsersT, Statuses, ActiveAdmins
<1>9. ASSUME NEW r \in Requests, NEW i \in Ids, Delete(r, i) \/ Reject(r, i) PROVE UsersMove
  <2>1. /\ Exists(i) /\ users' = [users EXCEPT ![i] = Gone]
        /\ i \in ActiveAdmins => RemainingAdmins(i) # {}
    BY <1>9 DEF Delete, Reject, RemoveAccount, Other, Exists, ActiveAdmins
  <2>2. \A k \in Keys : k[1] = i => tokens'[k] = NoRows /\ custom'[k] = "none"
    BY <1>9 DEF Delete, Reject, RemoveAccount
  <2>3. Gone \in [status : Statuses \ {"unused"}, role : Roles]
    BY DEF Gone, Statuses, Roles
  <2> QED
    BY <2>1, <2>2, <2>3 DEF UsersMove
<1>10. CASE users' = users
  BY <1>10 DEF UsersMove
<1>11. ASSUME NEW r \in Requests, Account(r) PROVE UsersMove
  BY <1>11, <1>5, <1>6, <1>7, <1>8, <1>9, <1>10 DEF Account, RevokeAllTokens
<1>12. ASSUME NEW r \in Requests, Upload(r) PROVE users' = users
  BY <1>12 DEF Upload, UpsertVersion, UpsertFails, RollbackEmptyRecord, RollbackFails,
               DeleteGroupTokens, Upsert, DeleteCustom
<1> QED
  BY <1>3, <1>4, <1>10, <1>11, <1>12
     DEF Next, Acts, DeletionFails, RegisterGate, Admit, ListPlatforms, RefreshToken, SetContent

\* Where there is an administrator there is one afterwards, and the first account is one.
LEMMA AdminStep ==
  ASSUME users \in UsersT, AdminRemains, UsersMove
  PROVE  AdminRemains' /\ (ActiveAdmins # {} => ActiveAdmins' # {})
<1>1. ActiveAdmins # {} => ~TableEmpty
  BY DEF ActiveAdmins, TableEmpty, Exists
<1>2. CASE users' = users
  BY <1>2 DEF AdminRemains, ActiveAdmins, TableEmpty, Exists
<1>3. ASSUME NEW status \in {"pending", "active"}, NEW role \in Roles, Room, Insert(status, role),
             TableEmpty => status = "active" /\ role = "admin"
      PROVE  ActiveAdmins' # {}
  <2>1. PICK i \in Ids : /\ users[i] = Unused
                         /\ users' = [users EXCEPT ![i] = [status |-> status, role |-> role]]
    BY <1>3, Inserted DEF Statuses
  <2>2. CASE TableEmpty
    BY <1>3, <2>1, <2>2 DEF ActiveAdmins, UsersT
  <2>3. CASE ~TableEmpty
    <3>1. PICK j \in Ids : users[j].status = "active" /\ users[j].role = "admin"
      BY <2>3 DEF AdminRemains, ActiveAdmins
    <3>2. users'[j] = users[j]
      BY <2>1, <3>1 DEF Unused, UsersT
    <3> QED
      BY <3>1, <3>2 DEF ActiveAdmins
  <2> QED
    BY <2>2, <2>3
<1>4. ASSUME NEW i \in Ids, NEW u \in [status : Statuses \ {"unused"}, role : Roles], Exists(i),
             users' = [users EXCEPT ![i] = u],
             i \in ActiveAdmins /\ u # [status |-> "active", role |-> "admin"] => RemainingAdmins(i) # {}
      PROVE  ActiveAdmins' # {}
  <2>1. ActiveAdmins # {}
    BY <1>4 DEF AdminRemains, TableEmpty
  <2>2. CASE u = [status |-> "active", role |-> "admin"]
    BY <1>4, <2>2 DEF ActiveAdmins, UsersT
  <2>3. CASE u # [status |-> "active", role |-> "admin"]
    <3>1. PICK j \in ActiveAdmins : j # i
      BY <1>4, <2>1, <2>3 DEF RemainingAdmins
    <3>2. j \in Ids /\ users'[j] = users[j]
      BY <1>4, <3>1 DEF ActiveAdmins, UsersT
    <3> QED
      BY <3>1, <3>2 DEF ActiveAdmins
  <2> QED
    BY <2>2, <2>3
<1> QED
  BY <1>2, <1>3, <1>4 DEF UsersMove, AdminRemains

\* The requests about to end the publishing of k.
Publishers(k) == {r \in Requests : req[r].pc = "links" /\ req[r].key = k}

\* The links and the custom subscription of one user and platform move in one of these ways.
LinksMove(k) ==
  \/ tokens'[k] = tokens[k] /\ custom'[k] = custom[k]
  \/ tokens'[k] = NoRows /\ custom'[k] \in {custom[k], "none"}
  \/ /\ custom'[k] = custom[k]
     /\ custom[k] # "none" => tokens'[k].group = 0 /\ tokens'[k].custom \in {1, tokens[k].custom}
     /\ custom[k] = "none" => tokens'[k].custom = 0 /\ tokens'[k].group \in {1, tokens[k].group}
     /\ tokens'[k] = [group |-> tokens'[k].group, custom |-> tokens'[k].custom]
     /\ Exists(k[1]) \/ (tokens'[k].group \in {0, tokens[k].group}
                         /\ tokens'[k].custom \in {0, tokens[k].custom})
  \/ custom'[k] = "none" /\ tokens'[k] = [group |-> tokens[k].group, custom |-> 0]
  \/ custom[k] = "none" /\ custom'[k] = "empty" /\ tokens'[k] = tokens[k] /\ Exists(k[1])
  \/ custom[k] # "none" /\ custom'[k] = "ready" /\ tokens'[k] = tokens[k] /\ Publishers(k)' # {}
  \/ custom'[k] = custom[k] /\ tokens'[k] = [group |-> 0, custom |-> tokens[k].custom]

LinksTyped == tokens' \in TokensT /\ custom' \in CustomT

LEMMA LinksStep ==
  ASSUME IInv, Next
  PROVE  LinksTyped /\ \A k \in Keys : LinksMove(k)
<1>1. /\ tokens \in TokensT /\ custom \in CustomT /\ req \in [Requests -> RequestT]
      /\ RequestInv
  BY Types DEF IInv
<1>2. \A k \in Keys : tokens[k] = [group |-> tokens[k].group, custom |-> tokens[k].custom]
  BY <1>1 DEF TokensT
<1> DEFINE Goal == LinksTyped /\ \A k \in Keys : LinksMove(k)
<1>3. CASE tokens' = tokens /\ custom' = custom
  BY <1>1, <1>3 DEF LinksTyped, LinksMove
<1>4. ASSUME NEW r \in Requests, NEW p \in Platforms, ListPlatforms(r, p) \/ RefreshToken(r, p)
      PROVE  Goal
  <2> DEFINE k == <<req[r].user, p>>
  <2>1. k \in Keys
    BY <1>1, <1>4 DEF ListPlatforms, RefreshToken, RequestInv, Keys
  <2>2. (ResolveUserToken(k) \/ RefreshUserToken(k)) /\ custom' = custom
    BY <1>4 DEF ListPlatforms, RefreshToken
  <2> HIDE DEF k
  <2>3. tokens' \in TokensT /\ \A h \in Keys : h # k => tokens'[h] = tokens[h]
    BY <1>1, <2>1, <2>2, Resolved
  <2>4. LinksMove(k)
    BY <1>1, <2>1, <2>2, Resolved DEF LinksMove
  <2> QED
    BY <1>1, <2>2, <2>3, <2>4 DEF LinksTyped, LinksMove
<1>5. ASSUME NEW i \in Ids, tokens' = [k \in Keys |-> IF k[1] = i THEN NoRows ELSE tokens[k]],
             custom' = custom \/ custom' = [k \in Keys |-> IF k[1] = i THEN "none" ELSE custom[k]]
      PROVE  Goal
  <2>1. LinksTyped
    BY <1>1, <1>5 DEF LinksTyped, TokensT, CustomT, NoRows
  <2> QED
    BY <1>5, <2>1 DEF LinksMove
<1>6. ASSUME NEW k \in Keys, custom' = [custom EXCEPT ![k] = "none"],
             tokens' = [tokens EXCEPT ![k].custom = 0]
      PROVE  Goal
  <2> DEFINE new == [tokens[k] EXCEPT !.custom = 0]
  <2>3. tokens' = [tokens EXCEPT ![k] = new]
    BY <1>6
  <2>4. new = [group |-> tokens[k].group, custom |-> 0]
    BY <1>1 DEF TokensT
  <2> HIDE DEF new
  <2>1. tokens' = [tokens EXCEPT ![k] = [group |-> tokens[k].group, custom |-> 0]]
    BY <2>3, <2>4
  <2>2. LinksTyped
    BY <1>1, <1>6, <2>1 DEF LinksTyped, TokensT, CustomT
  <2> QED
    BY <1>1, <1>6, <2>1, <2>2 DEF LinksMove, TokensT, CustomT
<1>7. ASSUME NEW r \in Requests, NEW k \in Keys, Upsert(r, k)
      PROVE  Goal
  <2>1. /\ tokens' = tokens /\ Exists(k[1])
        /\ custom' = [custom EXCEPT ![k] = IF custom[k] = "none" THEN "empty" ELSE custom[k]]
    BY <1>7 DEF Upsert
  <2>2. LinksTyped
    BY <1>1, <2>1 DEF LinksTyped, CustomT
  <2> QED
    BY <1>1, <2>1, <2>2 DEF LinksMove, CustomT
<1>8. ASSUME NEW r \in Requests, UpsertVersion(r), req[r].live
      PROVE  Goal
  <2>1. PICK k \in Keys : k = req[r].key /\ custom[k] # "none"
    BY <1>1, <1>8 DEF RequestInv
  <2>2. tokens' = tokens /\ custom' = [custom EXCEPT ![k] = "ready"]
    BY <1>8, <2>1 DEF UpsertVersion
  <2>3. req'[r].pc = "links" /\ req'[r].key = k
    BY <1>1, <1>8, <2>1 DEF UpsertVersion, RequestT
  <2>4. LinksTyped
    BY <1>1, <2>1, <2>2 DEF LinksTyped, CustomT
  <2>5. Publishers(k)' # {}
    BY <2>3 DEF Publishers
  <2> QED
    BY <1>1, <2>1, <2>2, <2>4, <2>5 DEF LinksMove, CustomT
<1>9. ASSUME NEW r \in Requests, DeleteGroupTokens(r)
      PROVE  Goal
  <2>1. PICK k \in Keys : k = req[r].key
    BY <1>1, <1>9 DEF RequestInv, DeleteGroupTokens
  <2> DEFINE new == [tokens[k] EXCEPT !.group = 0]
  <2>2. custom' = custom /\ tokens' = [tokens EXCEPT ![k] = new]
    BY <1>9, <2>1 DEF DeleteGroupTokens
  <2>5. new = [group |-> 0, custom |-> tokens[k].custom]
    BY <1>1 DEF TokensT
  <2> HIDE DEF new
  <2>3. tokens' = [tokens EXCEPT ![k] = [group |-> 0, custom |-> tokens[k].custom]]
    BY <2>2, <2>5
  <2>4. LinksTyped
    BY <1>1, <2>1, <2>2, <2>3 DEF LinksTyped, TokensT
  <2> QED
    BY <1>1, <2>1, <2>2, <2>3, <2>4 DEF LinksMove, TokensT
<1>10. ASSUME NEW r \in Requests, RollbackEmptyRecord(r)
       PROVE  Goal
  <2>1. CASE req[r].live
    <3>1. req[r].key \in Keys
      BY <1>1, <2>1 DEF RequestInv
    <3> QED
      BY <1>6, <1>10, <2>1, <3>1 DEF RollbackEmptyRecord
  <2>2. CASE ~req[r].live
    BY <1>3, <1>10, <2>2 DEF RollbackEmptyRecord
  <2> QED
    BY <2>1, <2>2
<1>11. ASSUME NEW r \in Requests, Upload(r)
       PROVE  Goal
  <2>1. ASSUME NEW k \in Keys, DeleteCustom(r, k) PROVE Goal
    BY <1>6, <2>1 DEF DeleteCustom
  <2>2. CASE UpsertVersion(r)
    BY <1>3, <1>8, <2>2 DEF UpsertVersion
  <2>3. CASE UpsertFails(r) \/ RollbackFails(r)
    BY <1>3, <2>3 DEF UpsertFails, RollbackFails
  <2> QED
    BY <1>7, <1>9, <1>10, <1>11, <2>1, <2>2, <2>3 DEF Upload
<1>12. ASSUME NEW r \in Requests, Account(r)
       PROVE  Goal
  <2>1. ASSUME NEW i \in Ids, Disable(r, i) \/ RevokeAllTokens(r, i) PROVE Goal
    BY <1>5, <2>1 DEF Disable, RevokeAllTokens
  <2>2. ASSUME NEW i \in Ids, Delete(r, i) \/ Reject(r, i) PROVE Goal
    BY <1>5, <2>2 DEF Delete, Reject, RemoveAccount
  <2> QED
    BY <1>3, <1>12, <2>1, <2>2 DEF Account, Create, Enable, Approve, ChangeRole
<1> QED
  BY <1>3, <1>4, <1>11, <1>12
     DEF Next, Acts, DeletionFails, CreateFromOidc, RegisterGate, Register, Admit, SetContent

\* What a step may do to the requests.
RequestsTyped == req' \in [Requests -> RequestT]
\* No group link is left for an upload to delete.
NothingDue(k) == tokens'[k].group = 0 \/ custom'[k] = "none" \/ k \in kept'
PublishersStay == \A k \in Keys : Publishers(k) \subseteq Publishers(k)' \/ NothingDue(k)
RequestsGoal == RequestsTyped /\ RequestInv' /\ PublishersStay

\* One request goes on, and no custom subscription is lost.
LEMMA OneRequest ==
  ASSUME req \in [Requests -> RequestT], RequestInv,
         ActiveAdmins # {} => ActiveAdmins' # {},
         \A k \in Keys : custom[k] # "none" => custom'[k] # "none",
         NEW r \in Requests, NEW new \in RequestT, req' = [req EXCEPT ![r] = new],
         new.pc = "admitted" => new.user \in Ids /\ ActiveAdmins' # {},
         new.pc \in {"version", "links", "rollback"} => new.key \in Keys,
         new.live => new.key \in Keys /\ custom'[new.key] # "none",
         req[r].pc # "links" \/ \A k \in Keys : req[r].key = k => NothingDue(k)
  PROVE  RequestsGoal
<1>1. RequestsTyped
  BY DEF RequestsTyped
<1>2. RequestInv'
  BY DEF RequestInv
<1>3. PublishersStay
  BY DEF PublishersStay, Publishers
<1> QED
  BY <1>1, <1>2, <1>3 DEF RequestsGoal

\* One request ends, and the uploads of the keys K find that their row is gone.
LEMMA Forgotten ==
  ASSUME req \in [Requests -> RequestT], RequestInv,
         ActiveAdmins # {} => ActiveAdmins' # {},
         NEW K \in SUBSET Keys, \A k \in Keys \ K : custom'[k] = custom[k],
         NEW r \in Requests, req[r].pc # "links",
         req' = [s \in Requests |-> IF s = r THEN Idle ELSE IF req[s].key \in K
                                    THEN [req[s] EXCEPT !.live = FALSE] ELSE req[s]]
  PROVE  RequestsGoal
<1> DEFINE Blind(s) == [req[s] EXCEPT !.live = FALSE]
<1>1. \A s \in Requests :
        /\ req[s] \in RequestT
        /\ Blind(s) \in RequestT /\ ~Blind(s).live
        /\ Blind(s).pc = req[s].pc /\ Blind(s).user = req[s].user /\ Blind(s).key = req[s].key
  BY DEF RequestT
<1>2. \A s \in Requests :
        req'[s] = IF s = r THEN Idle ELSE IF req[s].key \in K THEN Blind(s) ELSE req[s]
  OBVIOUS
<1> HIDE DEF Blind
<1>3. RequestsTyped
  <2>1. req' = [s \in Requests |-> req'[s]]
    OBVIOUS
  <2>2. \A s \in Requests : req'[s] \in RequestT
    BY <1>1, <1>2, IdleTyped
  <2> QED
    BY <2>1, <2>2 DEF RequestsTyped
<1>4. RequestInv'
  BY <1>1, <1>2 DEF RequestInv, Idle
<1>5. PublishersStay
  BY <1>1, <1>2 DEF PublishersStay, Publishers
<1> QED
  BY <1>3, <1>4, <1>5 DEF RequestsGoal

LEMMA RequestsStep ==
  ASSUME IInv, Next, ActiveAdmins # {} => ActiveAdmins' # {}
  PROVE  RequestsGoal
<1>1. /\ users \in UsersT /\ tokens \in TokensT /\ custom \in CustomT
      /\ req \in [Requests -> RequestT] /\ RequestInv
  BY Types DEF IInv
<1>2. Idle \in RequestT /\ Idle.pc = "idle" /\ ~Idle.live
  BY IdleTyped DEF Idle
<1>3. CASE req' = req /\ custom' = custom
  BY <1>1, <1>3 DEF RequestsGoal, RequestsTyped, RequestInv, PublishersStay, Publishers
<1>4. ASSUME NEW r \in Requests, req[r].pc # "links", Ends(r), custom' = custom
      PROVE  RequestsGoal
  BY <1>1, <1>2, <1>4, OneRequest DEF Ends
<1>5. ASSUME NEW r \in Requests, RegisterGate(r) PROVE RequestsGoal
  <2> DEFINE new == [Idle EXCEPT !.pc = "register"]
  <2>1. new \in RequestT /\ new.pc = "register" /\ ~new.live
    BY DEF RequestT, Idle, Pcs, Roles
  <2>2. req[r].pc # "links" /\ req' = [req EXCEPT ![r] = new] /\ custom' = custom
    BY <1>5 DEF RegisterGate
  <2> HIDE DEF new
  <2> QED
    BY <1>1, <2>1, <2>2, OneRequest
<1>6. ASSUME NEW r \in Requests, Admit(r) PROVE RequestsGoal
  <2>1. PICK i \in Ids : /\ users[i].status = "active" /\ req[r].pc = "idle" /\ custom' = custom
                         /\ req' = [req EXCEPT ![r] =
                              [Idle EXCEPT !.pc = "admitted", !.user = i,
                                           !.role = users[i].role, !.todo = Platforms]]
    BY <1>6 DEF Admit
  <2> DEFINE new == [Idle EXCEPT !.pc = "admitted", !.user = i,
                                 !.role = users[i].role, !.todo = Platforms]
  <2>2. i \in Nat /\ users[i].role \in Roles
    BY <1>1, AccountsAssumption DEF Ids, UsersT
  <2>4. new \in RequestT
    BY <2>2, IdleTyped DEF RequestT, Pcs
  <2>5. ActiveAdmins # {}
    BY <2>1 DEF IInv, AdminRemains, TableEmpty, Exists
  <2>6. req' = [req EXCEPT ![r] = new]
    BY <2>1
  <2>7. new.pc = "admitted" /\ new.user = i /\ ~new.live
    BY DEF Idle
  <2> HIDE DEF new
  <2> QED
    BY <1>1, <2>1, <2>4, <2>5, <2>6, <2>7, OneRequest
<1>7. ASSUME NEW r \in Requests, NEW p \in Platforms, ListPlatforms(r, p) PROVE RequestsGoal
  <2>1. /\ req[r].pc = "admitted" /\ custom' = custom
        /\ IF req[r].todo = {p} THEN Ends(r)
           ELSE req' = [req EXCEPT ![r] = [req[r] EXCEPT !.todo = req[r].todo \ {p}]]
    BY <1>7 DEF ListPlatforms
  <2>2. CASE req[r].todo = {p}
    BY <1>4, <2>1, <2>2
  <2>3. CASE req[r].todo # {p}
    <3> DEFINE new == [req[r] EXCEPT !.todo = req[r].todo \ {p}]
    <3>1. new \in RequestT /\ new.pc = req[r].pc /\ new.user = req[r].user
          /\ new.key = req[r].key /\ new.live = req[r].live
      BY <1>1 DEF RequestT
    <3>2. req' = [req EXCEPT ![r] = new]
      BY <2>1, <2>3
    <3> HIDE DEF new
    <3>3. new.pc = "admitted" => new.user \in Ids /\ ActiveAdmins' # {}
      BY <1>1, <3>1 DEF RequestInv
    <3>4. new.live => new.key \in Keys /\ custom'[new.key] # "none"
      BY <1>1, <2>1, <3>1 DEF RequestInv
    <3> QED
      BY <1>1, <2>1, <3>1, <3>2, <3>3, <3>4, OneRequest
  <2> QED
    BY <2>2, <2>3
<1>8. ASSUME NEW r \in Requests, NEW i \in Ids, Delete(r, i) \/ Reject(r, i) PROVE RequestsGoal
  <2> DEFINE K == {k \in Keys : k[1] = i}
  <2>1. req[r].pc = "admitted" /\ \A k \in Keys \ K : custom'[k] = custom[k]
    BY <1>8 DEF Delete, Reject, RemoveAccount, Other, By
  <2>2. \A s \in Requests : req[s].key \in K <=> req[s].key # <<>> /\ req[s].key[1] = i
    BY <1>1 DEF RequestT, Keys
  <2>3. req' = [s \in Requests |-> IF s = r THEN Idle ELSE IF req[s].key \in K
                                   THEN [req[s] EXCEPT !.live = FALSE] ELSE req[s]]
    BY <1>8, <2>2 DEF Delete, Reject, RemoveAccount
  <2> HIDE DEF K
  <2>4. K \in SUBSET Keys
    BY DEF K
  <2> QED
    BY <1>1, <2>1, <2>3, <2>4, Forgotten
<1>9. ASSUME NEW r \in Requests, NEW k \in Keys, req[r].pc # "links",
             custom' = [custom EXCEPT ![k] = "none"],
             req' = [s \in Requests |-> IF s = r THEN Idle ELSE IF req[s].key = k
                                        THEN [req[s] EXCEPT !.live = FALSE] ELSE req[s]]
      PROVE  RequestsGoal
  <2>1. \A h \in Keys \ {k} : custom'[h] = custom[h]
    BY <1>1, <1>9 DEF CustomT
  <2>2. req' = [s \in Requests |-> IF s = r THEN Idle ELSE IF req[s].key \in {k}
                                   THEN [req[s] EXCEPT !.live = FALSE] ELSE req[s]]
    BY <1>9
  <2> QED
    BY <1>1, <1>9, <2>1, <2>2, Forgotten
<1>10. ASSUME NEW r \in Requests, NEW k \in Keys, Upsert(r, k) PROVE RequestsGoal
  <2> DEFINE new == [Idle EXCEPT !.pc = "version", !.key = k, !.live = TRUE]
  <2>1. /\ req[r].pc = "admitted" /\ req' = [req EXCEPT ![r] = new]
        /\ custom' = [custom EXCEPT ![k] = IF custom[k] = "none" THEN "empty" ELSE custom[k]]
    BY <1>10 DEF Upsert, By
  <2>2. new \in RequestT /\ new.pc = "version" /\ new.key = k
    BY <1>2 DEF RequestT, Pcs
  <2> HIDE DEF new
  <2>3. custom'[k] # "none" /\ \A h \in Keys : custom[h] # "none" => custom'[h] # "none"
    BY <1>1, <2>1 DEF CustomT
  <2> QED
    BY <1>1, <2>1, <2>2, <2>3, OneRequest
<1>11. ASSUME NEW r \in Requests, NEW pc \in {"links", "rollback"}, req[r].pc = "version",
              req' = [req EXCEPT ![r].pc = pc],
              \A k \in Keys : custom[k] # "none" => custom'[k] # "none"
       PROVE  RequestsGoal
  <2> DEFINE new == [req[r] EXCEPT !.pc = pc]
  <2>1. req' = [req EXCEPT ![r] = new]
    BY <1>11
  <2>2. new \in RequestT /\ new.pc = pc /\ new.key = req[r].key /\ new.live = req[r].live
    BY <1>1, <1>11 DEF RequestT, Pcs
  <2> HIDE DEF new
  <2>3. req[r].key \in Keys
    BY <1>1, <1>11 DEF RequestInv
  <2>4. new.live => custom'[new.key] # "none"
    BY <1>1, <1>11, <2>2 DEF RequestInv
  <2> QED
    BY <1>1, <1>11, <2>1, <2>2, <2>3, <2>4, OneRequest
<1>12. ASSUME NEW r \in Requests, DeleteGroupTokens(r) PROVE RequestsGoal
  <2>1. PICK k \in Keys : k = req[r].key
    BY <1>1, <1>12 DEF RequestInv, DeleteGroupTokens
  <2>2. Ends(r) /\ custom' = custom /\ tokens' = [tokens EXCEPT ![k].group = 0]
    BY <1>12, <2>1 DEF DeleteGroupTokens
  <2>3. NothingDue(k)
    BY <1>1, <2>2 DEF TokensT, NothingDue
  <2> QED
    BY <1>1, <1>2, <2>1, <2>2, <2>3, OneRequest DEF Ends
<1>13. ASSUME NEW r \in Requests, Account(r) PROVE RequestsGoal
  BY <1>4, <1>8, <1>13 DEF Account, Create, Enable, Approve, ChangeRole, Disable, RevokeAllTokens, Other, By
<1>14. ASSUME NEW r \in Requests, Upload(r) PROVE RequestsGoal
  <2>1. CASE UpsertVersion(r)
    <3>1. \A k \in Keys : custom[k] # "none" => custom'[k] # "none"
      BY <1>1, <2>1 DEF UpsertVersion, CustomT
    <3> QED
      BY <1>11, <2>1, <3>1 DEF UpsertVersion
  <2>2. CASE UpsertFails(r)
    BY <1>11, <2>2 DEF UpsertFails
  <2>3. CASE RollbackEmptyRecord(r) /\ req[r].live
    <3>1. req[r].key \in Keys
      BY <1>1, <2>3 DEF RequestInv
    <3> QED
      BY <1>9, <2>3, <3>1 DEF RollbackEmptyRecord
  <2>4. CASE (RollbackEmptyRecord(r) /\ ~req[r].live) \/ RollbackFails(r)
    BY <1>4, <2>4 DEF RollbackEmptyRecord, RollbackFails
  <2>5. ASSUME NEW k \in Keys, DeleteCustom(r, k) PROVE RequestsGoal
    BY <1>9, <2>5 DEF DeleteCustom, By
  <2> QED
    BY <1>10, <1>12, <1>14, <2>1, <2>2, <2>3, <2>4, <2>5 DEF Upload
<1>15. ASSUME NEW r \in Requests, NEW p \in Platforms, RefreshToken(r, p) \/ SetContent(r, p)
       PROVE  RequestsGoal
  BY <1>4, <1>15 DEF RefreshToken, SetContent, By
<1>16. ASSUME NEW r \in Requests, Register(r) PROVE RequestsGoal
  BY <1>4, <1>16 DEF Register
<1>17. CASE CreateFromOidc
  BY <1>3, <1>17 DEF CreateFromOidc
<1>18. ASSUME NEW r \in Requests, DeletionFails(r), kept' = Remaining(kept \cup {req[r].key})
       PROVE  RequestsGoal
  <2>1. PICK k \in Keys : k = req[r].key
    BY <1>1, <1>18 DEF RequestInv, DeletionFails
  <2>2. Ends(r) /\ custom' = custom /\ tokens' = tokens
    BY <1>18 DEF DeletionFails
  <2>3. NothingDue(k)
    BY <1>1, <1>18, <2>1, <2>2 DEF NothingDue, Remaining, TokensT
  <2> QED
    BY <1>1, <1>2, <2>1, <2>2, <2>3, OneRequest DEF Ends
<1> QED
  BY <1>5, <1>6, <1>7, <1>13, <1>14, <1>15, <1>16, <1>17, <1>18 DEF Next, Acts

\* A link that an upload failed to delete stays noted while it stays beside the subscription.
LEMMA KeptStep ==
  ASSUME IInv, Next, LinksTyped
  PROVE  kept' \in SUBSET Keys /\ \A k \in kept : NothingDue(k)
<1>1. kept \in SUBSET Keys /\ req \in [Requests -> RequestT] /\ RequestInv
  BY Types DEF IInv
<1>2. \A k \in Keys : tokens'[k].group \in Nat
  BY DEF LinksTyped, TokensT
<1>3. ASSUME NEW K \in SUBSET Keys, kept \subseteq K, kept' = Remaining(K)
      PROVE  kept' \in SUBSET Keys /\ \A k \in kept : NothingDue(k)
  BY <1>2, <1>3 DEF Remaining, NothingDue
<1>4. ASSUME NEW r \in Requests, DeletionFails(r) PROVE req[r].key \in Keys
  BY <1>1, <1>4 DEF DeletionFails, RequestInv
<1> QED
  BY <1>1, <1>3, <1>4 DEF Next

-----------------------------------------------------------------------------
\* An account that is not there after a step was not there before, or took everything along.
UsersLeave(k) ==
  users'[k[1]].status \in {"unused", "gone"} =>
    ~Exists(k[1]) \/ (tokens'[k] = NoRows /\ custom'[k] = "none")

LEMMA UsersTyped ==
  ASSUME users \in UsersT, UsersMove
  PROVE  users' \in UsersT /\ \A k \in Keys : UsersLeave(k)
<1>1. CASE users' = users
  BY <1>1 DEF UsersLeave, Exists
<1>2. ASSUME NEW status \in {"pending", "active"}, NEW role \in Roles, Room, Insert(status, role)
      PROVE  users' \in UsersT /\ \A k \in Keys : UsersLeave(k)
  <2>1. PICK i \in Ids : /\ users' = [users EXCEPT ![i] = [status |-> status, role |-> role]]
                         /\ users' \in UsersT
    BY <1>2, Inserted DEF Statuses
  <2>2. \A k \in Keys : k[1] \in Ids
    BY DEF Keys
  <2> QED
    BY <2>1, <2>2 DEF UsersLeave, Exists, UsersT
<1>3. ASSUME NEW i \in Ids, NEW u \in [status : Statuses \ {"unused"}, role : Roles],
             users' = [users EXCEPT ![i] = u],
             u.status = "gone" =>
               \A k \in Keys : k[1] = i => tokens'[k] = NoRows /\ custom'[k] = "none"
      PROVE  users' \in UsersT /\ \A k \in Keys : UsersLeave(k)
  <2>1. users' \in UsersT
    BY <1>3 DEF UsersT
  <2>2. ASSUME NEW k \in Keys PROVE UsersLeave(k)
    <3>1. k[1] \in Ids
      BY DEF Keys
    <3>2. CASE k[1] = i
      BY <1>3, <3>2 DEF UsersLeave, UsersT
    <3>3. CASE k[1] # i
      BY <1>3, <3>1, <3>3 DEF UsersLeave, UsersT, Exists
    <3> QED
      BY <3>2, <3>3
  <2> QED
    BY <2>1, <2>2
<1> QED
  BY <1>1, <1>2, <1>3 DEF UsersMove

\* Each way the links of one user and platform move keeps them applicable.
LEMMA LinksKept ==
  ASSUME NEW k \in Keys, LinksMove(k), UsersLeave(k),
         tokens[k] \in [group : Nat, custom : Nat], tokens'[k] \in [group : Nat, custom : Nat],
         tokens[k].group + tokens[k].custom <= 1,
         tokens[k].custom > 0 => custom[k] # "none",
         ~Exists(k[1]) => tokens[k] = NoRows /\ custom[k] = "none",
         custom[k] = "ready" /\ tokens[k].group > 0 => Publishers(k) # {} \/ k \in kept,
         Publishers(k) \subseteq Publishers(k)' \/ NothingDue(k),
         k \in kept => NothingDue(k)
  PROVE  /\ (tokens'[k].group + tokens'[k].custom <= 1)
         /\ (tokens'[k].custom > 0 => custom'[k] # "none")
         /\ (custom'[k] = "ready" /\ tokens'[k].group > 0 => Publishers(k)' # {} \/ k \in kept')
         /\ (users'[k[1]].status \in {"unused", "gone"} =>
               tokens'[k] = NoRows /\ custom'[k] = "none")
<1>1. NoRows = [group |-> 0, custom |-> 0]
  BY DEF NoRows
<1>2. tokens'[k].group + tokens'[k].custom <= 1
  BY <1>1 DEF LinksMove
<1>3. tokens'[k].custom > 0 => custom'[k] # "none"
  BY <1>1 DEF LinksMove
<1>4. custom'[k] = "ready" /\ tokens'[k].group > 0 => Publishers(k)' # {} \/ k \in kept'
  BY <1>1 DEF LinksMove, NothingDue
<1>5. ~Exists(k[1]) => tokens'[k] = NoRows /\ custom'[k] = "none"
  BY <1>1 DEF LinksMove
<1> QED
  BY <1>2, <1>3, <1>4, <1>5 DEF UsersLeave

-----------------------------------------------------------------------------
\* The invariant is inductive.

LEMMA NextIInv == IInv /\ [Next]_vars => IInv'
<1>1. CASE IInv /\ UNCHANGED vars
  BY <1>1 DEF vars, IInv, TypeOK, RequestInv, PublishInv, AdminRemains, ActiveAdmins, TableEmpty,
              Exists, OneLink, CustomLinkHasRow, GoneLeavesNothing
<1>2. ASSUME IInv, Next PROVE IInv'
  <2>1. /\ users \in UsersT /\ tokens \in TokensT /\ custom \in CustomT
        /\ content \in SUBSET Platforms /\ selfreg \in BOOLEAN
    BY <1>2, Types DEF IInv
  <2>2. UsersMove
    BY <1>2, UsersStep
  <2>3. AdminRemains' /\ (ActiveAdmins # {} => ActiveAdmins' # {})
    BY <1>2, <2>1, <2>2, AdminStep DEF IInv
  <2>4. LinksTyped /\ \A k \in Keys : LinksMove(k)
    BY <1>2, LinksStep
  <2>5. RequestsGoal
    BY <1>2, <2>3, RequestsStep
  <2>6. users' \in UsersT /\ \A k \in Keys : UsersLeave(k)
    BY <2>1, <2>2, UsersTyped
  <2>7. content' \in SUBSET Platforms /\ selfreg' \in BOOLEAN
    <3>1. ASSUME NEW r \in Requests, Account(r) PROVE UNCHANGED <<content, selfreg>>
      BY <3>1 DEF Account, Create, Disable, Enable, Delete, Approve, Reject, RemoveAccount,
                  RevokeAllTokens, ChangeRole
    <3>2. ASSUME NEW r \in Requests, Upload(r) PROVE UNCHANGED <<content, selfreg>>
      BY <3>2 DEF Upload, UpsertVersion, UpsertFails, RollbackEmptyRecord, DeleteGroupTokens,
                  RollbackFails, Upsert, DeleteCustom
    <3>3. ASSUME NEW r \in Requests, RegisterGate(r) \/ Register(r) \/ Admit(r)
          PROVE  UNCHANGED <<content, selfreg>>
      BY <3>3 DEF RegisterGate, Register, Admit
    <3>4. ASSUME NEW r \in Requests, NEW p \in Platforms, ListPlatforms(r, p) \/ RefreshToken(r, p)
          PROVE  UNCHANGED <<content, selfreg>>
      BY <3>4 DEF ListPlatforms, RefreshToken
    <3>5. ASSUME NEW r \in Requests, NEW p \in Platforms, SetContent(r, p)
          PROVE  content' \in SUBSET Platforms /\ selfreg' \in BOOLEAN
      BY <2>1, <3>5 DEF SetContent
    <3>6. CASE CreateFromOidc
      BY <2>1, <3>6 DEF CreateFromOidc
    <3>7. ASSUME NEW r \in Requests, DeletionFails(r) PROVE UNCHANGED <<content, selfreg>>
      BY <3>7 DEF DeletionFails
    <3> QED
      BY <1>2, <2>1, <3>1, <3>2, <3>3, <3>4, <3>5, <3>6, <3>7 DEF Next, Acts
  <2>8. kept' \in SUBSET Keys /\ \A k \in kept : NothingDue(k)
    BY <1>2, <2>4, KeptStep
  <2>9. TypeOK'
    BY <2>4, <2>5, <2>6, <2>7, <2>8
       DEF LinksTyped, RequestsGoal, RequestsTyped, TypeOK, UsersT, TokensT, CustomT, RequestT,
           Statuses, Roles, Pcs
  <2>10. RequestInv' /\ PublishersStay
    BY <2>5 DEF RequestsGoal
  <2>11. ASSUME NEW k \in Keys
         PROVE  /\ (tokens'[k].group + tokens'[k].custom <= 1)
                /\ (tokens'[k].custom > 0 => custom'[k] # "none")
                /\ (custom'[k] = "ready" /\ tokens'[k].group > 0 =>
                      Publishers(k)' # {} \/ k \in kept')
                /\ (users'[k[1]].status \in {"unused", "gone"} =>
                      tokens'[k] = NoRows /\ custom'[k] = "none")
    <3>1. LinksMove(k) /\ UsersLeave(k)
      BY <2>4, <2>6
    <3>2. tokens[k] \in [group : Nat, custom : Nat] /\ tokens'[k] \in [group : Nat, custom : Nat]
      BY <2>1, <2>4 DEF LinksTyped, TokensT
    <3>3. tokens[k].group + tokens[k].custom <= 1
      BY <1>2 DEF IInv, OneLink
    <3>4. tokens[k].custom > 0 => custom[k] # "none"
      BY <1>2 DEF IInv, CustomLinkHasRow
    <3>5. ~Exists(k[1]) => tokens[k] = NoRows /\ custom[k] = "none"
      BY <1>2, <2>1 DEF IInv, GoneLeavesNothing, Exists, UsersT, Statuses, Keys
    <3>6. custom[k] = "ready" /\ tokens[k].group > 0 => Publishers(k) # {} \/ k \in kept
      BY <1>2 DEF IInv, PublishInv, Publishers
    <3>7. Publishers(k) \subseteq Publishers(k)' \/ NothingDue(k)
      BY <2>10 DEF PublishersStay
    <3>8. k \in kept => NothingDue(k)
      BY <2>8
    <3> QED
      BY <3>1, <3>2, <3>3, <3>4, <3>5, <3>6, <3>7, <3>8, LinksKept
  <2>12. PublishInv'
    BY <2>11 DEF PublishInv, Publishers
  <2>13. OneLink' /\ CustomLinkHasRow' /\ GoneLeavesNothing'
    BY <2>11 DEF OneLink, CustomLinkHasRow, GoneLeavesNothing
  <2> QED
    BY <2>3, <2>9, <2>10, <2>12, <2>13 DEF IInv
<1> QED
  BY <1>1, <1>2

-----------------------------------------------------------------------------
\* The results.

\* The invariant is inductive: what is said of every request between its admission and its act
\* holds after any step of any of them.
THEOREM Invariance == Spec => []IInv
  BY InitIInv, NextIInv, PTL DEF Spec

\* Every variable keeps its type.
THEOREM Typed == Spec => []TypeOK
<1>1. IInv => TypeOK
  BY DEF IInv
<1> QED
  BY <1>1, Invariance, PTL

\* However many administrators change each other's roles and statuses and delete each
\* other's accounts at the same time, one active administrator is left.
THEOREM AdminsRemain == Spec => []AdminRemains
<1>1. IInv => AdminRemains
  BY DEF IInv
<1> QED
  BY <1>1, Invariance, PTL

\* However page views, refreshing, uploads, deletions and changes of status interleave, the
\* links there are apply: a group's link beside a custom subscription is one that an upload
\* failed to delete.
THEOREM LinksStayDue == Spec => []LinksAreDue
<1>1. IInv => LinksAreDue
  <2>1. ASSUME IInv, NEW k \in Keys \ kept, custom[k] = "ready", \A r \in Requests : req[r].key # k
        PROVE  tokens[k].group = 0
    BY <2>1 DEF IInv, PublishInv, TypeOK
  <2> QED
    BY <2>1 DEF IInv, LinksAreDue, LinksApply, OldLinkDead
<1> QED
  BY <1>1, Invariance, PTL

-----------------------------------------------------------------------------
(***************************************************************************)
(* The catalogue and what is assigned of it.                               *)
(***************************************************************************)

NodesTyped ==
  /\ manual \subseteq ManualNames
  /\ DOMAIN xray \subseteq XrayNames
  /\ xray = [n \in DOMAIN xray |-> xray[n]]
  /\ \A n \in DOMAIN xray :
       xray[n] \in [display : Displays, enabled : BOOLEAN, public : BOOLEAN, seen : Seen]
  /\ instance \in BOOLEAN

RowFields == {"preset", "enabled", "type", "groups", "use", "all"}
GroupsTyped ==
  /\ PresetNames \subseteq DOMAIN groups /\ DOMAIN groups \subseteq PresetNames \cup CustomNames
  /\ groups = [g \in DOMAIN groups |-> groups[g]]
  /\ \A g \in DOMAIN groups : groups[g].preset <=> g \in PresetNames
  /\ \A g \in DOMAIN groups : DOMAIN groups[g] = RowFields
  /\ edits \subseteq [name : PresetNames \cup CustomNames, def : Definitions]
  /\ unchecked \subseteq {"overlapped", "reused"}

PlanTyped ==
  /\ subscribed \in BOOLEAN /\ current \in BOOLEAN
  /\ current => plan # NoPlan
  /\ plan # NoPlan => /\ subscribed /\ plan.kind \in {"clash", "links"}
                      /\ plan.candidates \subseteq XrayNames

AssignTyped ==
  /\ assigned \subseteq DOMAIN xray
  /\ reads \subseteq SUBSET XrayNames
  /\ queued \in BOOLEAN

(* Every assignment is one the last recomputation would have kept, or one  *)
(* is due: it has not read yet, or what it has read is still so.           *)
Fits(n) == n \in Candidates /\ xray[n].enabled /\ ~xray[n].public /\ xray[n].seen # "missing"
FitInv == ~queued => Candidates \in reads \/ \A n \in assigned : Fits(n)

(* The groups have no cycle, and an update that was checked leaves none in  *)
(* the groups as they are now.                                              *)
AcyclicInv ==
  unchecked = {} =>
    /\ Acyclic(References)
    /\ \A e \in edits : e.name \in DOMAIN groups => Acyclic(Edited(e.name, e.def))

CatalogIInv == /\ NodesTyped /\ GroupsTyped /\ PlanTyped /\ AssignTyped
               /\ FitInv /\ AcyclicInv /\ acts \in 0..MaxActs

LEMMA CatalogInvImplies == CatalogIInv => CatalogTypeOK /\ AssignmentsFit /\ GroupsAcyclic
  BY DEF CatalogIInv, NodesTyped, GroupsTyped, PlanTyped, AssignTyped, FitInv, AcyclicInv, Fits,
         CatalogTypeOK, AssignmentsFit, GroupsAcyclic

-----------------------------------------------------------------------------
(* Facts about what the actions put into the variables.                    *)

(* Groups without cycles stay so when some of them go. *)
LEMMA FewerGroups ==
  ASSUME NEW refs, Acyclic(refs), NEW S \in SUBSET DOMAIN refs
  PROVE  Acyclic([g \in S |-> refs[g]])
  BY DEF Acyclic

(* A group nobody refers to, which does not refer to itself, closes no     *)
(* cycle.                                                                  *)
LEMMA OneMoreGroup ==
  ASSUME NEW refs, Acyclic(refs), NEW name, NEW gs, name \notin gs,
         \A g \in DOMAIN refs : name \notin refs[g]
  PROVE  Acyclic([g \in DOMAIN refs \cup {name} |-> IF g = name THEN gs ELSE refs[g]])
<1> DEFINE more == [g \in DOMAIN refs \cup {name} |-> IF g = name THEN gs ELSE refs[g]]
<1> SUFFICES ASSUME NEW s \in (SUBSET DOMAIN more) \ {{}}
             PROVE  \E g \in s : more[g] \cap s = {}
  BY DEF Acyclic
<1>1. CASE s = {name}
  BY <1>1
<1>2. CASE s # {name}
  <2>1. s \ {name} \in (SUBSET DOMAIN refs) \ {{}}
    BY <1>2
  <2>2. PICK g \in s \ {name} : refs[g] \cap (s \ {name}) = {}
    BY <2>1 DEF Acyclic
  <2>3. g \in DOMAIN refs
    BY <2>1
  <2>4. more[g] \cap s = {}
    BY <2>2, <2>3
  <2> QED BY <2>4
<1> QED BY <1>1, <1>2

(* A blueprint has the kind it was selected for, and its candidates are    *)
(* detected nodes.                                                          *)
LEMMA BlueprintTyped ==
  ASSUME CatalogAssumption, NodesTyped, NEW sel \in Selections, NEW linked, Validate(sel, Cat(linked))
  PROVE  /\ Blueprint(sel, Cat(linked)).kind \in {"clash", "links"}
         /\ Blueprint(sel, Cat(linked)).candidates \subseteq XrayNames
         /\ Blueprint(sel, Cat(linked)) # NoPlan
<1>1. /\ Blueprint(sel, Cat(linked)).kind = sel.kind
      /\ Blueprint(sel, Cat(linked)).candidates = XrayChosen(sel, Cat(linked))
  BY DEF Blueprint, ClashPlan, LinkPlan, CatalogAssumption
<1>2. XrayChosen(sel, Cat(linked)) \subseteq XrayNames
  <2> SUFFICES ASSUME NEW n \in ChosenNodes(sel), Cat(linked).nodes[n].source = "xray"
               PROVE  n \in XrayNames
    BY DEF XrayChosen
  <2>1. n \in DOMAIN Cat(linked).nodes
    BY DEF Validate, NodesUsable
  <2> QED BY <2>1 DEF Cat, NodeNames, NodesTyped
<1>3. NoPlan.kind = "none"
  BY DEF NoPlan
<1> QED BY <1>1, <1>2, <1>3 DEF CatalogAssumption

-----------------------------------------------------------------------------
(* A new installation, and one in use. *)

LEMMA SeededShape ==
  /\ DOMAIN Seeded = PresetNames
  /\ \A g \in PresetNames : Seeded[g].preset /\ Seeded[g].groups = {ForceDirect}
  /\ \A g \in PresetNames : DOMAIN Seeded[g] = RowFields
<1>1. \A g \in PresetNames :
        Seeded[g] = Row([type |-> "select", groups |-> {ForceDirect}, use |-> {}, all |-> FALSE], TRUE, TRUE)
  BY DEF Seeded
<1>2. DOMAIN Seeded = PresetNames
  BY DEF Seeded
<1> QED BY <1>1, <1>2 DEF Row, RowFields

(* Presets lead to the forced groups only, customs to those and to presets. *)
LEMMA LayeredAcyclic ==
  ASSUME CatalogAssumption, NEW refs, DOMAIN refs \subseteq PresetNames \cup CustomNames,
         \A g \in DOMAIN refs : IF g \in PresetNames THEN refs[g] = {ForceDirect}
                                ELSE refs[g] \subseteq {ForceDirect, ForceOverseas} \cup PresetNames
  PROVE  Acyclic(refs)
<1> SUFFICES ASSUME NEW s \in (SUBSET DOMAIN refs) \ {{}}
             PROVE  \E g \in s : refs[g] \cap s = {}
  BY DEF Acyclic
<1>1. ForceDirect \notin s /\ ForceOverseas \notin s
  BY DEF CatalogAssumption, ForceNames
<1>2. CASE s \cap PresetNames = {}
  <2>1. PICK g \in s : TRUE
    OBVIOUS
  <2>2. refs[g] \cap s = {}
    BY <1>1, <1>2
  <2> QED BY <2>1, <2>2
<1>3. CASE s \cap PresetNames # {}
  <2>1. PICK g \in s : g \in PresetNames
    BY <1>3
  <2>2. refs[g] \cap s = {}
    BY <1>1, <2>1
  <2> QED BY <2>2
<1> QED BY <1>2, <1>3

LEMMA CatalogInitIInv == CatalogInit => CatalogIInv
<1> SUFFICES ASSUME CatalogInit PROVE CatalogIInv
  OBVIOUS
<1> USE CatalogAssumption
<1>0. /\ instance = TRUE /\ edits = {} /\ unchecked = {} /\ assigned = {}
      /\ queued = FALSE /\ reads = {} /\ acts = 0
  BY DEF CatalogInit
<1>1. AssignTyped /\ FitInv /\ acts \in 0..MaxActs
  <2>1. AssignTyped
    BY <1>0 DEF AssignTyped
  <2>2. FitInv
    BY <1>0 DEF FitInv
  <2>3. acts \in 0..MaxActs
    BY <1>0 DEF CatalogAssumption
  <2> QED BY <2>1, <2>2, <2>3
<1>2. CASE Fresh
  <2>1. NodesTyped
    BY <1>0, <1>2 DEF NodesTyped, Fresh
  <2>2. groups = Seeded
    BY <1>2 DEF Fresh
  <2>3. GroupsTyped
    <3>1. Seeded = [g \in DOMAIN Seeded |-> Seeded[g]]
      BY DEF Seeded
    <3> QED BY <1>0, <2>2, <3>1, SeededShape DEF GroupsTyped
  <2>4. PlanTyped
    BY <1>2 DEF Fresh, PlanTyped
  <2>5. Acyclic(References)
    <3>1. /\ DOMAIN References = PresetNames
          /\ \A g \in PresetNames : References[g] = {ForceDirect}
      BY <2>2, SeededShape DEF References
    <3> HIDE DEF CatalogInit
    <3> QED BY <3>1, LayeredAcyclic
  <2> QED BY <1>0, <1>1, <2>1, <2>3, <2>4, <2>5 DEF CatalogIInv, AcyclicInv
<1>3. CASE Upgraded
  <2>1. NodesTyped
    BY <1>0, <1>3 DEF NodesTyped, Upgraded, Seen
  <2>2. PICK customs \in SUBSET CustomNames, def \in Definitions :
          /\ def.groups \subseteq {ForceDirect, ForceOverseas} \cup PresetNames
          /\ groups = [g \in PresetNames \cup customs |->
                         IF g \in PresetNames THEN Seeded[g] ELSE Row(def, FALSE, TRUE)]
    BY <1>3 DEF Upgraded
  <2>3. /\ DOMAIN groups = PresetNames \cup customs
        /\ \A g \in DOMAIN groups :
             groups[g] = IF g \in PresetNames THEN Seeded[g] ELSE Row(def, FALSE, TRUE)
        /\ groups = [g \in DOMAIN groups |-> groups[g]]
    BY <2>2
  <2>4. GroupsTyped
    <3>1. \A g \in DOMAIN groups : groups[g].preset <=> g \in PresetNames
      <4> SUFFICES ASSUME NEW g \in DOMAIN groups PROVE groups[g].preset <=> g \in PresetNames
        OBVIOUS
      <4>1. CASE g \in PresetNames
        BY <2>3, <4>1, SeededShape
      <4>2. CASE g \notin PresetNames
        <5>1. groups[g] = Row(def, FALSE, TRUE)
          BY <2>3, <4>2
        <5> QED BY <4>2, <5>1 DEF Row
      <4> QED BY <4>1, <4>2
    <3>2. \A g \in DOMAIN groups : DOMAIN groups[g] = RowFields
      BY <2>3, SeededShape DEF Row, RowFields
    <3> QED BY <1>0, <2>3, <3>1, <3>2 DEF GroupsTyped
  <2>5. PlanTyped
    <3>1. CASE plan = NoPlan /\ current = FALSE
      BY <1>3, <3>1 DEF Upgraded, PlanTyped
    <3>2. CASE \E sel \in Selections, linked \in SUBSET manual :
                 Validate(sel, Cat(linked)) /\ plan = Blueprint(sel, Cat(linked)) /\ current = TRUE
      BY <1>3, <2>1, <3>2, BlueprintTyped DEF Upgraded, PlanTyped
    <3> QED BY <1>3, <3>1, <3>2 DEF Upgraded
  <2>6. Acyclic(References)
    <3>1. /\ DOMAIN References \subseteq PresetNames \cup CustomNames
          /\ \A g \in DOMAIN References :
               IF g \in PresetNames THEN References[g] = {ForceDirect}
               ELSE References[g] \subseteq {ForceDirect, ForceOverseas} \cup PresetNames
      BY <2>2, <2>3, SeededShape DEF References, Row
    <3> QED BY <3>1, LayeredAcyclic
  <2> QED BY <1>0, <1>1, <2>1, <2>4, <2>5, <2>6 DEF CatalogIInv, AcyclicInv
<1> QED BY <1>2, <1>3 DEF CatalogInit

-----------------------------------------------------------------------------
(* What an action leaves alone keeps its part of the invariant. *)

LEMMA GroupsKept ==
  ASSUME GroupsTyped, AcyclicInv, UNCHANGED groupVars
  PROVE  GroupsTyped' /\ AcyclicInv'
  BY DEF GroupsTyped, AcyclicInv, groupVars, References, Edited

LEMMA PlanKept ==
  ASSUME PlanTyped, UNCHANGED planVars
  PROVE  PlanTyped' /\ Candidates' = Candidates
  BY DEF PlanTyped, planVars, Candidates

(***************************************************************************)
(* Nodes.                                                                  *)
(***************************************************************************)
LEMMA NodeStep ==
  ASSUME CatalogIInv, CatalogAssumption,
         \/ \E n \in ManualNames : CreateManual(n)
         \/ \E listed \in SUBSET XrayNames : \E kind \in [listed -> Seen \ {"missing"}] : DetectNodes(listed, kind)
         \/ \E n \in XrayNames, display \in Displays : SetDisplayName(n, display)
         \/ \E n \in XrayNames, on \in BOOLEAN : SetEnabled(n, on) \/ SetPublic(n, on)
         \/ \E n \in ManualNames \cup XrayNames : DeleteNode(n)
         \/ SwitchInstance
  PROVE  NodesTyped' /\ GroupsTyped' /\ PlanTyped' /\ AssignTyped' /\ FitInv' /\ AcyclicInv'
<1>1. NodesTyped /\ AssignTyped /\ FitInv /\ PlanTyped /\ GroupsTyped /\ AcyclicInv
  BY DEF CatalogIInv
<1>2. UNCHANGED <<groupVars, planVars>>
  BY DEF CreateManual, DetectNodes, SetDisplayName, SetEnabled, SetPublic, DeleteNode, SwitchInstance
<1>3. GroupsTyped' /\ AcyclicInv' /\ PlanTyped' /\ Candidates' = Candidates
  <2>1. UNCHANGED groupVars /\ UNCHANGED planVars
    BY <1>2
  <2> QED BY <1>1, <2>1, GroupsKept, PlanKept
<1>4. NodesTyped' /\ AssignTyped' /\ FitInv'
  <2>1. CASE \E n \in ManualNames : CreateManual(n)
    <3>1. /\ xray' = xray /\ instance' = instance /\ UNCHANGED assignVars
          /\ \E n \in ManualNames : manual' = manual \cup {n}
      BY <2>1 DEF CreateManual
    <3>2. NodesTyped'
      BY <1>1, <3>1 DEF NodesTyped
    <3>3. AssignTyped'
      BY <1>1, <3>1 DEF AssignTyped, assignVars
    <3>4. FitInv'
      BY <1>1, <1>3, <3>1 DEF FitInv, Fits, assignVars
    <3> QED BY <3>2, <3>3, <3>4
  <2>2. ASSUME NEW listed \in SUBSET XrayNames, NEW kind \in [listed -> Seen \ {"missing"}], DetectNodes(listed, kind)
        PROVE  NodesTyped' /\ AssignTyped' /\ FitInv'
    <3> DEFINE added == {n \in listed \ DOMAIN xray : n \notin manual /\ NameFree(n, {})}
               recovered == {n \in listed \cap DOMAIN xray : xray[n].seen = "missing"}
               lost == {n \in DOMAIN xray \ listed : xray[n].seen # "missing"}
               sight(n) == IF n \in listed THEN kind[n] ELSE "missing"
    <3>1. /\ xray' = [n \in DOMAIN xray \cup added |->
                        IF n \in added
                        THEN [display |-> NoDisplay, enabled |-> TRUE, public |-> FALSE, seen |-> sight(n)]
                        ELSE [xray[n] EXCEPT !.seen = sight(n)]]
          /\ queued' = (queued \/ added \cup recovered \cup lost # {})
          /\ manual' = manual /\ instance' = instance /\ assigned' = assigned /\ reads' = reads
      BY <2>2 DEF DetectNodes
    <3>2. added \subseteq XrayNames /\ added \cap DOMAIN xray = {}
      OBVIOUS
    <3>3. \A n : sight(n) \in Seen
      BY DEF Seen
    <3>4. \A n : sight(n) = "missing" <=> n \notin listed
      OBVIOUS
    <3> HIDE DEF added, sight
    <3>5. /\ DOMAIN xray' = DOMAIN xray \cup added
          /\ \A n \in added : xray'[n] = [display |-> NoDisplay, enabled |-> TRUE, public |-> FALSE, seen |-> sight(n)]
          /\ \A n \in DOMAIN xray : xray'[n] = [xray[n] EXCEPT !.seen = sight(n)]
          /\ xray' = [n \in DOMAIN xray' |-> xray'[n]]
      BY <3>1, <3>2
    <3>6. \A n \in DOMAIN xray :
            /\ xray'[n] \in [display : Displays, enabled : BOOLEAN, public : BOOLEAN, seen : Seen]
            /\ xray'[n].enabled = xray[n].enabled /\ xray'[n].public = xray[n].public
            /\ xray'[n].seen = sight(n)
      <4> SUFFICES ASSUME NEW n \in DOMAIN xray
                   PROVE  /\ xray'[n] \in [display : Displays, enabled : BOOLEAN, public : BOOLEAN, seen : Seen]
                          /\ xray'[n].enabled = xray[n].enabled /\ xray'[n].public = xray[n].public
                          /\ xray'[n].seen = sight(n)
        OBVIOUS
      <4>1. xray[n] \in [display : Displays, enabled : BOOLEAN, public : BOOLEAN, seen : Seen]
        BY <1>1 DEF NodesTyped
      <4>2. xray'[n] = [xray[n] EXCEPT !.seen = sight(n)]
        BY <3>5
      <4>3. sight(n) \in Seen
        BY <3>3
      <4> QED BY <4>1, <4>2, <4>3
    <3>7. \A n \in added :
            xray'[n] \in [display : Displays, enabled : BOOLEAN, public : BOOLEAN, seen : Seen]
      <4> SUFFICES ASSUME NEW n \in added
                   PROVE  xray'[n] \in [display : Displays, enabled : BOOLEAN, public : BOOLEAN, seen : Seen]
        OBVIOUS
      <4>1. xray'[n] = [display |-> NoDisplay, enabled |-> TRUE, public |-> FALSE, seen |-> sight(n)]
        BY <3>5
      <4>2. sight(n) \in Seen /\ NoDisplay \in Displays
        BY <3>3 DEF CatalogAssumption
      <4> QED BY <4>1, <4>2
    <3>8. NodesTyped'
      BY <1>1, <3>1, <3>2, <3>5, <3>6, <3>7 DEF NodesTyped
    <3>9. AssignTyped'
      BY <1>1, <3>1, <3>5 DEF AssignTyped
    <3>10. ASSUME ~queued' PROVE ~queued /\ \A n \in DOMAIN xray : xray[n].seen # "missing" => sight(n) # "missing"
      BY <1>1, <3>1, <3>4, <3>10 DEF AssignTyped
    <3>11. FitInv'
      BY <1>1, <1>3, <3>1, <3>6, <3>10 DEF FitInv, Fits, AssignTyped
    <3> QED BY <3>8, <3>9, <3>11
  <2>3. ASSUME NEW n \in XrayNames, NEW display \in Displays, SetDisplayName(n, display)
        PROVE  NodesTyped' /\ AssignTyped' /\ FitInv'
    <3>1. /\ n \in DOMAIN xray /\ xray' = [xray EXCEPT ![n].display = display]
          /\ manual' = manual /\ instance' = instance /\ UNCHANGED assignVars
      BY <2>3 DEF SetDisplayName
    <3>2. /\ DOMAIN xray' = DOMAIN xray /\ xray' = [k \in DOMAIN xray' |-> xray'[k]]
          /\ \A k \in DOMAIN xray :
               /\ xray'[k] \in [display : Displays, enabled : BOOLEAN, public : BOOLEAN, seen : Seen]
               /\ xray'[k].enabled = xray[k].enabled /\ xray'[k].public = xray[k].public
               /\ xray'[k].seen = xray[k].seen
      BY <1>1, <3>1 DEF NodesTyped
    <3> QED BY <1>1, <1>3, <3>1, <3>2 DEF NodesTyped, AssignTyped, FitInv, Fits, assignVars
  <2>4. ASSUME NEW n \in XrayNames, NEW on \in BOOLEAN, SetEnabled(n, on) \/ SetPublic(n, on)
        PROVE  NodesTyped' /\ AssignTyped' /\ FitInv'
    <3>1. /\ n \in DOMAIN xray /\ manual' = manual /\ instance' = instance
          /\ xray' = [xray EXCEPT ![n].enabled = on] \/ xray' = [xray EXCEPT ![n].public = on]
          /\ queued' = TRUE /\ assigned' = assigned /\ reads' = reads
      BY <2>4 DEF SetEnabled, SetPublic
    <3>2. /\ DOMAIN xray' = DOMAIN xray /\ xray' = [k \in DOMAIN xray' |-> xray'[k]]
          /\ \A k \in DOMAIN xray :
               xray'[k] \in [display : Displays, enabled : BOOLEAN, public : BOOLEAN, seen : Seen]
      <4>1. DOMAIN xray' = DOMAIN xray /\ xray' = [k \in DOMAIN xray' |-> xray'[k]]
        BY <1>1, <3>1 DEF NodesTyped
      <4>2. \A k \in DOMAIN xray :
              xray[k] \in [display : Displays, enabled : BOOLEAN, public : BOOLEAN, seen : Seen]
        BY <1>1 DEF NodesTyped
      <4>3. \A k \in DOMAIN xray :
              \/ xray'[k] = xray[k] \/ xray'[k] = [xray[k] EXCEPT !.enabled = on]
              \/ xray'[k] = [xray[k] EXCEPT !.public = on]
        BY <3>1
      <4> QED BY <4>1, <4>2, <4>3
    <3> QED BY <1>1, <3>1, <3>2 DEF NodesTyped, AssignTyped, FitInv
  <2>5. ASSUME NEW n \in ManualNames \cup XrayNames, DeleteNode(n)
        PROVE  NodesTyped' /\ AssignTyped' /\ FitInv'
    <3>1. /\ manual' = manual \ {n} /\ instance' = instance
          /\ xray' = [k \in DOMAIN xray \ {n} |-> xray[k]]
          /\ assigned' = assigned \ {n} /\ queued' = queued /\ reads' = reads
      BY <2>5 DEF DeleteNode
    <3>2. /\ DOMAIN xray' = DOMAIN xray \ {n}
          /\ \A k \in DOMAIN xray' : xray'[k] = xray[k]
      BY <3>1
    <3>3. NodesTyped'
      BY <1>1, <3>1, <3>2 DEF NodesTyped
    <3> QED BY <1>1, <1>3, <3>1, <3>2, <3>3 DEF AssignTyped, FitInv, Fits
  <2>6. CASE SwitchInstance
    BY <1>1, <1>3, <2>6 DEF SwitchInstance, assignVars, NodesTyped, AssignTyped, FitInv, Fits
  <2> QED BY <2>1, <2>2, <2>3, <2>4, <2>5, <2>6
<1> QED BY <1>1, <1>3, <1>4

LEMMA NodesKept ==
  ASSUME NodesTyped, AssignTyped, FitInv, UNCHANGED nodeVars, UNCHANGED assignVars, Candidates' = Candidates
  PROVE  NodesTyped' /\ AssignTyped' /\ FitInv'
  BY DEF NodesTyped, AssignTyped, FitInv, Fits, nodeVars, assignVars

(***************************************************************************)
(* Groups.                                                                 *)
(***************************************************************************)
LEMMA GroupStep ==
  ASSUME CatalogIInv, CatalogAssumption,
         \/ \E name \in CustomNames, def \in Definitions : CreateCustom(name, def)
         \/ \E name \in PresetNames \cup CustomNames, def \in Definitions : CheckUpdate(name, def)
         \/ \E name \in PresetNames, on \in BOOLEAN : SetPresetEnabled(name, on)
         \/ \E name \in CustomNames : DeleteGroup(name)
         \/ \E e \in edits : WriteUpdate(e)
  PROVE  NodesTyped' /\ GroupsTyped' /\ PlanTyped' /\ AssignTyped' /\ FitInv' /\ AcyclicInv'
<1>1. NodesTyped /\ AssignTyped /\ FitInv /\ PlanTyped /\ GroupsTyped /\ AcyclicInv
  BY DEF CatalogIInv
<1>2. UNCHANGED <<nodeVars, planVars, assignVars>>
  BY DEF CreateCustom, CheckUpdate, SetPresetEnabled, DeleteGroup, WriteUpdate
<1>3. NodesTyped' /\ AssignTyped' /\ FitInv' /\ PlanTyped'
  <2>1. UNCHANGED nodeVars /\ UNCHANGED planVars /\ UNCHANGED assignVars
    BY <1>2
  <2> QED BY <1>1, <2>1, NodesKept, PlanKept
<1>4. /\ DOMAIN References = DOMAIN groups
      /\ \A g \in DOMAIN groups : References[g] = groups[g].groups
  BY DEF References
<1>5. GroupsTyped' /\ AcyclicInv'
  <2>1. ASSUME NEW name \in CustomNames, NEW def \in Definitions, CreateCustom(name, def)
        PROVE  GroupsTyped' /\ AcyclicInv'
    <3>1. /\ NameFree(name, {}) /\ ValidDefinition(def, NewGroup)
          /\ groups' = [g \in DOMAIN groups \cup {name} |-> IF g = name THEN Row(def, FALSE, TRUE) ELSE groups[g]]
          /\ unchecked' = unchecked \cup {how \in {"overlapped", "reused"} :
               IF how = "overlapped" THEN edits # {} ELSE \E g \in DOMAIN groups : name \in groups[g].groups}
          /\ edits' = edits
      BY <2>1 DEF CreateCustom
    <3>2. name \notin DOMAIN groups /\ name \notin ForceNames
      BY <3>1 DEF NameFree
    <3>3. /\ DOMAIN groups' = DOMAIN groups \cup {name}
          /\ groups'[name] = Row(def, FALSE, TRUE)
          /\ \A g \in DOMAIN groups : groups'[g] = groups[g]
          /\ groups' = [g \in DOMAIN groups' |-> groups'[g]]
      BY <3>1, <3>2
    <3>4. GroupsTyped'
      <4>1. ~groups'[name].preset /\ name \notin PresetNames
        BY <1>1, <3>2, <3>3 DEF GroupsTyped, Row
      <4>2. \A g \in DOMAIN groups' : groups'[g].preset <=> g \in PresetNames
        BY <1>1, <3>3, <4>1 DEF GroupsTyped
      <4>3. \A g \in DOMAIN groups' : DOMAIN groups'[g] = RowFields
        BY <1>1, <3>3 DEF GroupsTyped, Row, RowFields
      <4> QED BY <1>1, <3>1, <3>3, <4>2, <4>3 DEF GroupsTyped
    <3>5. ASSUME unchecked' = {} PROVE AcyclicInv'
      <4>1. unchecked = {} /\ edits = {}
        BY <3>1, <3>5
      <4>2. \A g \in DOMAIN groups : name \notin groups[g].groups
        BY <3>1, <3>5
      <4>3. Acyclic(References)
        BY <1>1, <4>1 DEF AcyclicInv
      <4>4. name \notin def.groups
        BY <3>1, <3>2 DEF ValidDefinition, SubgroupsExist, ForceNames
      <4>5. References' = [g \in DOMAIN References \cup {name} |-> IF g = name THEN def.groups ELSE References[g]]
        BY <1>4, <3>2, <3>3 DEF References, Row
      <4>6. Acyclic([g \in DOMAIN References \cup {name} |-> IF g = name THEN def.groups ELSE References[g]])
        BY <1>4, <4>2, <4>3, <4>4, OneMoreGroup
      <4> QED BY <3>1, <4>1, <4>5, <4>6 DEF AcyclicInv
    <3> QED BY <3>4, <3>5 DEF AcyclicInv
  <2>2. ASSUME NEW name \in PresetNames \cup CustomNames, NEW def \in Definitions, CheckUpdate(name, def)
        PROVE  GroupsTyped' /\ AcyclicInv'
    <3>1. /\ ValidDefinition(def, name) /\ edits' = edits \cup {[name |-> name, def |-> def]}
          /\ groups' = groups /\ unchecked' = unchecked
      BY <2>2 DEF CheckUpdate
    <3>2. GroupsTyped'
      BY <1>1, <3>1 DEF GroupsTyped
    <3>3. Acyclic(Edited(name, def))
      BY <3>1 DEF ValidDefinition
    <3>4. References' = References /\ \A n, d : Edited(n, d)' = Edited(n, d)
      BY <3>1 DEF References, Edited
    <3> QED BY <1>1, <3>1, <3>2, <3>3, <3>4 DEF AcyclicInv
  <2>3. ASSUME NEW name \in PresetNames, NEW on \in BOOLEAN, SetPresetEnabled(name, on)
        PROVE  GroupsTyped' /\ AcyclicInv'
    <3>1. /\ groups' = [groups EXCEPT ![name].enabled = on]
          /\ edits' = edits /\ unchecked' = unchecked
      BY <2>3 DEF SetPresetEnabled
    <3>2. /\ DOMAIN groups' = DOMAIN groups /\ groups' = [g \in DOMAIN groups' |-> groups'[g]]
          /\ \A g \in DOMAIN groups : groups'[g] = groups[g] \/ groups'[g] = [groups[g] EXCEPT !.enabled = on]
      BY <3>1
    <3>3. \A g \in DOMAIN groups : groups'[g].groups = groups[g].groups /\ (groups'[g].preset <=> groups[g].preset)
      BY <1>1, <3>2 DEF GroupsTyped, RowFields
    <3>4. GroupsTyped'
      <4>1. \A g \in DOMAIN groups : DOMAIN groups'[g] = RowFields
        BY <1>1, <3>2 DEF GroupsTyped
      <4> QED BY <1>1, <3>1, <3>2, <3>3, <4>1 DEF GroupsTyped
    <3>5. References' = References /\ \A n, d : Edited(n, d)' = Edited(n, d)
      BY <3>2, <3>3 DEF References, Edited
    <3> QED BY <1>1, <3>1, <3>2, <3>4, <3>5 DEF AcyclicInv
  <2>4. ASSUME NEW name \in CustomNames, DeleteGroup(name)
        PROVE  GroupsTyped' /\ AcyclicInv'
    <3>1. /\ name \in DOMAIN groups /\ ~groups[name].preset
          /\ groups' = [g \in DOMAIN groups \ {name} |-> groups[g]]
          /\ edits' = edits /\ unchecked' = unchecked
      BY <2>4 DEF DeleteGroup
    <3>2. /\ DOMAIN groups' = DOMAIN groups \ {name} /\ groups' = [g \in DOMAIN groups' |-> groups'[g]]
          /\ \A g \in DOMAIN groups' : groups'[g] = groups[g]
      BY <3>1
    <3>3. GroupsTyped'
      BY <1>1, <3>1, <3>2 DEF GroupsTyped
    <3>4. ASSUME unchecked = {} PROVE AcyclicInv'
      <4>1. References' = [g \in DOMAIN groups \ {name} |-> References[g]]
        BY <1>4, <3>2 DEF References
      <4>2. Acyclic(References)
        BY <1>1, <3>4 DEF AcyclicInv
      <4>3. DOMAIN groups \ {name} \in SUBSET DOMAIN References
        BY <1>4
      <4>4. Acyclic([g \in DOMAIN groups \ {name} |-> References[g]])
        BY <4>2, <4>3, FewerGroups
      <4>5. ASSUME NEW e \in edits, e.name \in DOMAIN groups'
            PROVE  Acyclic(Edited(e.name, e.def)')
        <5> DEFINE rest == (DOMAIN groups \ {name}) \cup {e.name}
        <5>1. Acyclic(Edited(e.name, e.def))
          BY <1>1, <3>2, <3>4, <4>5 DEF AcyclicInv
        <5>2. /\ DOMAIN Edited(e.name, e.def) = DOMAIN groups \cup {e.name}
              /\ Edited(e.name, e.def)' = [g \in rest |-> Edited(e.name, e.def)[g]]
          BY <3>2 DEF Edited
        <5>3. rest \in SUBSET DOMAIN Edited(e.name, e.def)
          BY <5>2
        <5> HIDE DEF rest
        <5>4. Acyclic([g \in rest |-> Edited(e.name, e.def)[g]])
          BY <5>1, <5>3, FewerGroups
        <5> QED BY <5>2, <5>4
      <4> QED BY <3>1, <4>1, <4>4, <4>5 DEF AcyclicInv
    <3> QED BY <3>1, <3>3, <3>4 DEF AcyclicInv
  <2>5. ASSUME NEW e \in edits, WriteUpdate(e)
        PROVE  GroupsTyped' /\ AcyclicInv'
    <3>1. /\ edits' = edits \ {e}
          /\ groups' = IF e.name \in DOMAIN groups
                       THEN [groups EXCEPT ![e.name] = Row(e.def, @.preset, @.enabled)] ELSE groups
          /\ unchecked' = unchecked \cup (IF edits' # {} THEN {"overlapped"} ELSE {})
      BY <2>5 DEF WriteUpdate
    <3>2. e \in [name : PresetNames \cup CustomNames, def : Definitions]
      BY <1>1 DEF GroupsTyped
    <3>3. /\ DOMAIN groups' = DOMAIN groups /\ groups' = [g \in DOMAIN groups' |-> groups'[g]]
          /\ \A g \in DOMAIN groups :
               groups'[g] = IF g = e.name THEN Row(e.def, groups[g].preset, groups[g].enabled) ELSE groups[g]
      BY <1>1, <3>1 DEF GroupsTyped
    <3>4. \A g \in DOMAIN groups : groups'[g].preset = groups[g].preset
      BY <3>3 DEF Row
    <3>5. GroupsTyped'
      <4>1. \A g \in DOMAIN groups : DOMAIN groups'[g] = RowFields
        BY <1>1, <3>3 DEF GroupsTyped, Row, RowFields
      <4> QED BY <1>1, <3>1, <3>3, <3>4, <4>1 DEF GroupsTyped
    <3>6. ASSUME unchecked' = {} PROVE AcyclicInv'
      <4>1. unchecked = {} /\ edits' = {}
        BY <3>1, <3>6
      <4>2. CASE e.name \in DOMAIN groups
        <5>1. Acyclic(Edited(e.name, e.def))
          BY <1>1, <4>1, <4>2 DEF AcyclicInv
        <5>2. References' = Edited(e.name, e.def)
          <6>1. DOMAIN groups \cup {e.name} = DOMAIN groups
            BY <4>2
          <6>2. \A g \in DOMAIN groups : groups'[g].groups = IF g = e.name THEN e.def.groups ELSE groups[g].groups
            BY <3>3 DEF Row
          <6> QED BY <3>3, <6>1, <6>2 DEF References, Edited
        <5> QED BY <4>1, <5>1, <5>2 DEF AcyclicInv
      <4>3. CASE e.name \notin DOMAIN groups
        <5>1. groups' = groups
          BY <3>1, <4>3
        <5>2. References' = References
          BY <5>1 DEF References
        <5> QED BY <1>1, <4>1, <5>2 DEF AcyclicInv
      <4> QED BY <4>2, <4>3
    <3> QED BY <3>5, <3>6 DEF AcyclicInv
  <2> QED BY <2>1, <2>2, <2>3, <2>4, <2>5
<1> QED BY <1>3, <1>5

(***************************************************************************)
(* Blueprints, versions and assignments.                                   *)
(***************************************************************************)
LEMMA PlanStep ==
  ASSUME CatalogIInv, CatalogAssumption,
         \/ CreateSubscription \/ DeleteSubscription \/ SwitchVersion
         \/ \E sel \in Selections, linked \in SUBSET manual, activated \in BOOLEAN : Generate(sel, linked, activated)
  PROVE  NodesTyped' /\ GroupsTyped' /\ PlanTyped' /\ AssignTyped' /\ FitInv' /\ AcyclicInv'
<1>1. NodesTyped /\ AssignTyped /\ FitInv /\ PlanTyped /\ GroupsTyped /\ AcyclicInv
  BY DEF CatalogIInv
<1>2. UNCHANGED <<nodeVars, groupVars>> /\ assigned' = assigned /\ reads' = reads
  BY DEF CreateSubscription, DeleteSubscription, SwitchVersion, Generate, assignVars
<1>3. NodesTyped' /\ GroupsTyped' /\ AcyclicInv'
  <2>1. UNCHANGED groupVars /\ UNCHANGED nodeVars
    BY <1>2
  <2>2. NodesTyped'
    BY <1>1, <2>1 DEF NodesTyped, nodeVars
  <2> QED BY <1>1, <2>1, <2>2, GroupsKept
<1>4. xray' = xray
  BY <1>2 DEF nodeVars
<1>5. PlanTyped' /\ AssignTyped' /\ FitInv'
  <2>1. CASE CreateSubscription
    <3>1. subscribed' = TRUE /\ plan' = plan /\ current' = current /\ queued' = queued
      BY <2>1 DEF CreateSubscription, assignVars
    <3>2. Candidates' = Candidates
      BY <3>1 DEF Candidates
    <3>3. PlanTyped'
      BY <1>1, <3>1 DEF PlanTyped
    <3> QED BY <1>1, <1>2, <1>4, <3>1, <3>2, <3>3 DEF AssignTyped, FitInv, Fits
  <2>2. CASE DeleteSubscription
    <3>1. subscribed' = FALSE /\ plan' = NoPlan /\ current' = FALSE /\ queued' = TRUE
      BY <2>2 DEF DeleteSubscription
    <3>2. PlanTyped'
      BY <3>1 DEF PlanTyped
    <3> QED BY <1>1, <1>2, <1>4, <3>1, <3>2 DEF AssignTyped, FitInv
  <2>3. CASE SwitchVersion
    <3>1. plan # NoPlan /\ subscribed' = subscribed /\ plan' = plan /\ current' = ~current /\ queued' = TRUE
      BY <2>3 DEF SwitchVersion
    <3>2. PlanTyped'
      BY <1>1, <3>1 DEF PlanTyped
    <3> QED BY <1>1, <1>2, <1>4, <3>1, <3>2 DEF AssignTyped, FitInv
  <2>4. ASSUME NEW sel \in Selections, NEW linked \in SUBSET manual, NEW activated \in BOOLEAN, Generate(sel, linked, activated)
        PROVE  PlanTyped' /\ AssignTyped' /\ FitInv'
    <3>1. /\ plan = NoPlan /\ Validate(sel, Cat(linked)) /\ plan' = Blueprint(sel, Cat(linked)) /\ current' = activated
          /\ queued' = (queued \/ activated) /\ subscribed' = subscribed
      BY <2>4 DEF Generate
    <3>2. Cat(linked).subscribed
      BY <3>1 DEF Validate
    <3>3. subscribed
      BY <3>2 DEF Cat
    <3>4. PlanTyped'
      BY <1>1, <3>1, <3>3, BlueprintTyped DEF PlanTyped
    <3>5. ~current
      BY <1>1, <3>1 DEF PlanTyped
    <3>6. ASSUME ~queued' PROVE ~queued /\ Candidates' = Candidates
      BY <1>1, <3>1, <3>5, <3>6 DEF Candidates, AssignTyped
    <3>7. AssignTyped'
      BY <1>1, <1>2, <1>4, <3>1 DEF AssignTyped
    <3>8. FitInv'
      BY <1>1, <1>2, <1>4, <3>6 DEF FitInv, Fits
    <3> QED BY <3>4, <3>7, <3>8
  <2> QED BY <2>1, <2>2, <2>3, <2>4
<1> QED BY <1>3, <1>5

LEMMA AssignStep ==
  ASSUME CatalogIInv,
         \/ \E ns \in SUBSET XrayNames : SetNodes(ns)
         \/ ReadCandidates
         \/ \E c \in reads : RemoveAssignments(c)
  PROVE  NodesTyped' /\ GroupsTyped' /\ PlanTyped' /\ AssignTyped' /\ FitInv' /\ AcyclicInv'
<1>1. NodesTyped /\ AssignTyped /\ FitInv /\ PlanTyped /\ GroupsTyped /\ AcyclicInv
  BY DEF CatalogIInv
<1>2. UNCHANGED <<nodeVars, groupVars, planVars>>
  BY DEF SetNodes, ReadCandidates, RemoveAssignments
<1>3. NodesTyped' /\ GroupsTyped' /\ PlanTyped' /\ AcyclicInv' /\ Candidates' = Candidates
  <2>1. UNCHANGED groupVars /\ UNCHANGED nodeVars /\ UNCHANGED planVars
    BY <1>2
  <2>2. NodesTyped'
    BY <1>1, <2>1 DEF NodesTyped, nodeVars
  <2> QED BY <1>1, <2>1, <2>2, GroupsKept, PlanKept
<1>4. xray' = xray /\ \A n : Fits(n)' = Fits(n)
  BY <1>2, <1>3 DEF nodeVars, Fits
<1>5. AssignTyped' /\ FitInv'
  <2>1. ASSUME NEW ns \in SUBSET XrayNames, SetNodes(ns) PROVE AssignTyped' /\ FitInv'
    <3>1. /\ ns \subseteq DOMAIN xray \cap Candidates /\ \A n \in ns : Usable(n) /\ ~xray[n].public
          /\ assigned' = ns /\ queued' = queued /\ reads' = reads
      BY <2>1 DEF SetNodes
    <3>2. \A n \in ns : Fits(n)
      BY <3>1 DEF Usable, Allocatable, Fits
    <3> QED BY <1>1, <1>4, <3>1, <3>2 DEF AssignTyped, FitInv
  <2>2. CASE ReadCandidates
    <3>1. queued' = FALSE /\ reads' = reads \cup {Candidates} /\ assigned' = assigned
      BY <2>2 DEF ReadCandidates
    <3>2. Candidates \subseteq XrayNames
      BY <1>1 DEF PlanTyped, Candidates
    <3> QED BY <1>1, <1>3, <1>4, <3>1, <3>2 DEF AssignTyped, FitInv
  <2>3. ASSUME NEW c \in reads, RemoveAssignments(c) PROVE AssignTyped' /\ FitInv'
    <3>1. /\ reads' = reads \ {c} /\ queued' = queued
          /\ assigned' = {n \in assigned : Usable(n) /\ ~xray[n].public /\ n \in c}
      BY <2>3 DEF RemoveAssignments
    <3>2. CASE c = Candidates
      <4>1. \A n \in assigned' : Fits(n)
        BY <3>1, <3>2 DEF Usable, Allocatable, Fits
      <4> QED BY <1>1, <1>4, <3>1, <4>1 DEF AssignTyped, FitInv
    <3>3. CASE c # Candidates
      BY <1>1, <1>3, <1>4, <3>1, <3>3 DEF AssignTyped, FitInv
    <3> QED BY <3>2, <3>3
  <2> QED BY <2>1, <2>2, <2>3
<1> QED BY <1>3, <1>5

LEMMA CatalogNextIInv == CatalogIInv /\ [CatalogNext]_catalogVars => CatalogIInv'
<1> SUFFICES ASSUME CatalogIInv, [CatalogNext]_catalogVars PROVE CatalogIInv'
  OBVIOUS
<1> USE CatalogAssumption
<1>1. CASE acts < MaxActs /\ acts' = acts + 1 /\ Requested
  <2>1. acts' \in 0..MaxActs
    BY <1>1 DEF CatalogIInv, CatalogAssumption
  <2>2. NodesTyped' /\ GroupsTyped' /\ PlanTyped' /\ AssignTyped' /\ FitInv' /\ AcyclicInv'
    BY <1>1, NodeStep, GroupStep, PlanStep, AssignStep DEF Requested
  <2> QED BY <2>1, <2>2 DEF CatalogIInv
<1>2. CASE UNCHANGED acts /\ Continued
  <2>1. NodesTyped' /\ GroupsTyped' /\ PlanTyped' /\ AssignTyped' /\ FitInv' /\ AcyclicInv'
    BY <1>2, GroupStep, AssignStep DEF Continued
  <2> QED BY <1>2, <2>1 DEF CatalogIInv
<1>3. CASE UNCHANGED catalogVars
  <2>1. UNCHANGED nodeVars /\ UNCHANGED groupVars /\ UNCHANGED planVars /\ UNCHANGED assignVars /\ acts' = acts
    BY <1>3 DEF catalogVars, nodeVars, groupVars, planVars, assignVars
  <2> QED BY <2>1, NodesKept, GroupsKept, PlanKept DEF CatalogIInv
<1> QED BY <1>1, <1>2, <1>3 DEF CatalogNext

(* CatalogIInv holds in every reachable state, for any names, definitions  *)
(* and selections and any number of acts.                                  *)
THEOREM CatalogInvariance == CatalogSpec => []CatalogIInv
  BY CatalogInitIInv, CatalogNextIInv, PTL DEF CatalogSpec

(* Every part of the catalogue has the shape the code gives it: an         *)
(* assignment is of a node there is, a blueprint of a subscription there    *)
(* is (internal/node, proxygroup, assembly, group).                        *)
THEOREM CatalogTyped == CatalogSpec => []CatalogTypeOK
<1>1. CatalogIInv => CatalogTypeOK
  BY CatalogInvImplies
<1> QED BY <1>1, CatalogInvariance, PTL

(* Once no recomputation is under way, every assignment is to a candidate  *)
(* that is enabled, not public and still listed, whatever happened between *)
(* the reading of the candidates and the removal (RecomputeCandidateSet);  *)
(* and the stored groups have no cycle unless two edits overlapped or a    *)
(* new group took a name another still referred to (validateDAG, which is  *)
(* run before the transaction that writes).                                *)
THEOREM StoredStaysRight == CatalogSpec => []StoredRight
<1>1. CatalogIInv => StoredRight
  BY CatalogInvImplies DEF StoredRight
<1> QED BY <1>1, CatalogInvariance, PTL

-----------------------------------------------------------------------------
(***************************************************************************)
(* Share links.                                                            *)
(***************************************************************************)

(* A stored ss node has every plugin parameter of the registry, and the    *)
(* link rendered from a node names its protocol and its plugin.            *)
LinksIInv ==
  /\ node # Refused =>
       /\ node.protocol \in Protocols /\ node.plugin \in Plugins(node.protocol)
       /\ DOMAIN node.params = Fields(node.protocol)
  /\ link # NoLink =>
       /\ node # Refused
       /\ link.protocol = node.protocol /\ link.plugin = node.plugin

LEMMA LinkParts ==
  ASSUME NEW n, NEW target, NEW l \in Render(n, target)
  PROVE  l.protocol = n.protocol /\ l.plugin = n.plugin
  BY DEF Render

LEMMA LinksInitIInv == LinksInit => LinksIInv
  BY DEF LinksInit, LinksIInv

LEMMA LinksNextIInv == LinksIInv /\ [LinksNext]_linksVars => LinksIInv'
<1> SUFFICES ASSUME LinksIInv, [LinksNext]_linksVars PROVE LinksIInv'
  OBVIOUS
<1>1. ASSUME NEW target \in LinkTargets, Export(target) PROVE LinksIInv'
  <2>1. node # Refused /\ node' = node /\ link' \in Render(node, target)
    BY <1>1 DEF Export
  <2>2. link'.protocol = node.protocol /\ link'.plugin = node.plugin
    BY <2>1, LinkParts
  <2> QED BY <2>1, <2>2 DEF LinksIInv
<1>2. CASE ImportURIs
  <2>1. link # NoLink /\ node' = Imported(link) /\ link' = NoLink
    BY <1>2 DEF ImportURIs
  <2>2. node' # Refused =>
          /\ node'.protocol = link.protocol /\ node'.plugin = link.plugin
          /\ DOMAIN node'.params = Fields(link.protocol)
    BY <2>1 DEF Imported
  <2> QED BY <2>1, <2>2 DEF LinksIInv
<1>3. CASE UNCHANGED linksVars
  BY <1>3 DEF LinksIInv, linksVars
<1> QED BY <1>1, <1>2, <1>3 DEF LinksNext

(* Of a plugin the writers fill in nothing. *)
LEMMA PluginAsStored ==
  ASSUME NEW n, n.protocol = "ss", n.plugin \in Plugins("ss"), DOMAIN n.params = Fields("ss")
  PROVE  /\ Given(n, Written(ProjectActive(n))) = Given(n, ProjectActive(n))
         /\ \A f \in PluginOpts[n.plugin] : Written(ProjectActive(n))[f] = ProjectActive(n)[f]
<1>1. /\ PluginOpts[n.plugin] \subseteq AllPluginOpts
      /\ AllPluginOpts \subseteq Fields("ss")
      /\ AllPluginOpts \cap {"udp", "protocol", "alterId"} = {}
  <2>1. n.plugin \in DOMAIN PluginOpts
    BY DEF Plugins
  <2> QED BY <2>1 DEF AllPluginOpts, PluginOpts, Fields, Texts, Switches, ManualProtocols, Entry
<1>2. DOMAIN ProjectActive(n) = Fields("ss")
  BY DEF ProjectActive
<1>3. \A f \in PluginOpts[n.plugin] : Written(ProjectActive(n))[f] = ProjectActive(n)[f]
  BY <1>1, <1>2 DEF Written, Defaulted
<1> QED BY <1>3 DEF Given

(* The renderer writes a link for a plugin exactly when the check of the   *)
(* node finds no error, whatever parameters the node has.                  *)
LEMMA SameVerdict ==
  ASSUME NEW n, n.protocol = "ss", n.plugin \in Plugins("ss"), DOMAIN n.params = Fields("ss"),
         n.host # "ipv6", NEW target
  PROVE  Render(n, target) # {} <=> AssessTarget(n, ProjectActive(n), target)
<1> DEFINE a == ProjectActive(n)
           d == Written(a)
<1>1. Given(n, d) = Given(n, a) /\ \A f \in PluginOpts[n.plugin] : d[f] = a[f]
  BY PluginAsStored
<1> HIDE DEF a, d
<1>2. Render(n, target) # {} <=> ssLink(n, d, target) # {}
  <2>1. punycode(n.host) = {"ascii"} /\ Body(n, d, target) = ssLink(n, d, target)
    BY DEF punycode, Body
  <2>2. \A h \in punycode(n.host), b \in Body(n, d, target) : Render(n, target) # {}
    <3> TAKE h \in punycode(n.host), b \in Body(n, d, target)
    <3>1. [target |-> target, protocol |-> n.protocol, host |-> h, type |-> n.network, plugin |-> n.plugin,
           name |-> IF NameInFragment(n.protocol, target) THEN Escape(n.name) ELSE n.name,
           user |-> b.user, query |-> b.query] \in Render(n, target)
      BY DEF Render, a, d
    <3> QED BY <3>1
  <2>3. \A l \in Render(n, target) : Body(n, d, target) # {}
    BY DEF Render, a, d
  <2> QED BY <2>1, <2>2, <2>3
<1>3. stringPluginOpts(n, d, target) # {} <=>
        /\ Given(n, a) \subseteq Expressible(n.plugin, target)
        /\ "opt-alpn" \in Given(n, a) => a["opt-alpn"] = Plain
  BY <1>1 DEF stringPluginOpts, Given
<1>4. ssLink(n, d, target) # {} <=>
        n.plugin = "none" \/ (Supported(n.plugin, target) /\ stringPluginOpts(n, d, target) # {})
  BY DEF ssLink, renderPluginForTarget
<1> QED BY <1>2, <1>3, <1>4 DEF AssessTarget, a

(* LinksIInv holds of every node that travels, for any number of trips. *)
THEOREM LinksInvariance == LinksSpec => []LinksIInv
  BY LinksInitIInv, LinksNextIInv, PTL DEF LinksSpec

(* The check of a node reports an error for a plugin exactly when no link  *)
(* can be rendered for it (ssplugin.AssessTarget and the renderer).        *)
THEOREM OneVerdict == LinksSpec => []VerdictsAgree
<1>1. LinksIInv => VerdictsAgree
  <2> SUFFICES ASSUME LinksIInv, node # Refused, node.protocol = "ss", node.host # "ipv6", NEW target \in LinkTargets
               PROVE  Render(node, target) # {} <=> AssessTarget(node, ProjectActive(node), target)
    BY DEF VerdictsAgree
  <2>1. node.plugin \in Plugins("ss") /\ DOMAIN node.params = Fields("ss")
    BY DEF LinksIInv
  <2> QED BY <2>1, SameVerdict
<1> QED BY <1>1, LinksInvariance, PTL
=============================================================================
