------------------------------ MODULE XraySync ------------------------------
(***************************************************************************)
(* How ONE panel user reaches the Xray server (internal/xray: sync.go,     *)
(* offclear.go, quota.go, credentials.go, instance.go; the hooks that      *)
(* server.go wires to user/admin.go and group/group.go): the user row, one *)
(* instance with its inbounds, the push records (xray_users), and the      *)
(* accounts that really exist on the server.  The server is another        *)
(* process, reached by RPC only: database and server are never changed     *)
(* together.                                                               *)
(*                                                                         *)
(* Every operation is a goroutine of its own, and nothing serialises two   *)
(* of them for the same user.  A step here is one transaction, one read    *)
(* outside a transaction, or one RPC.  Inbounds are numbered in the order  *)
(* in which a goroutine visits them.  SQLite itself does not fail.         *)
(***************************************************************************)
EXTENDS Naturals, FiniteSets, FiniteSetsExt

CONSTANTS
  Jobs,       \* bound: goroutines at work at a time
  MaxTags,    \* inbounds of the server
  MaxKeys,    \* bound: credentials ever made for the user
  MaxInst,    \* bound: instances ever made
  MaxStarts,  \* bound: operations started
  MaxFaults   \* bound: failed RPCs, crashes, abandoned requests

ASSUME XrayAssumption == {MaxTags, MaxKeys, MaxInst, MaxStarts, MaxFaults} \subseteq Nat

VARIABLES
  advanced,  \* advanced_mode in system_config
  user,      \* the user row: [status, exceeded, key], key 0 for NULL credentials
  instance,  \* id of the instance row, 0 for none (ids are not reused)
  listed,    \* whether the inbounds of the instance are nodes of the panel
  allotted,  \* inbounds the user should be on: her group's nodes and the public ones
  records,   \* xray_users of that instance: inbound -> sync_status
  account,   \* on the server: inbound -> credentials of her account, 0 for none
  job,       \* goroutine -> [op, pc, inst, todo, key, next]
  given,     \* how many keys and instances were made
  starts, faults,
  mishaps    \* history: what went wrong, or ran together, so far

vars == <<advanced, user, instance, listed, allotted, records, account, job,
          given, starts, faults, mishaps>>
db == <<advanced, user, instance, listed, allotted, records, given>>
world == <<starts, faults, mishaps>>

Tags == 1..MaxTags
Idle == [op |-> "none", pc |-> "idle", inst |-> 0, todo |-> {}, key |-> 0, next |-> "idle"]
Alive(j) == job[j].pc # "idle"
Quiet == \A j \in Jobs : ~Alive(j)
NoRecords == [t \in {} |-> ""]

\* Operations that remove accounts; two of them, or one and any other, may trip over each
\* other.  The clearing after OFF is meant to stand any other; a deletion it cuts short.
Removing == {"disable", "delete", "regroup", "quota", "drop"}
Conflict(a, b) ==
  IF "clear" \in {a, b} THEN "delete" \in {a, b}
  ELSE a \in Removing \/ b \in Removing

Noted(op) ==
  IF \E k \in Jobs : Alive(k) /\ Conflict(op, job[k].op)
  THEN mishaps \cup {"overlap"} ELSE mishaps

\* A goroutine for operation `op` starts at `pc`.
Start(j, op, pc, inst, todo) ==
  /\ ~Alive(j)
  /\ starts < MaxStarts /\ starts' = starts + 1
  /\ job' = [job EXCEPT ![j] = [op |-> op, pc |-> pc, inst |-> inst, todo |-> todo,
                                key |-> 0, next |-> "idle"]]
  /\ mishaps' = Noted(op)
  /\ UNCHANGED <<account, faults>>

Goto(j, pc) == job' = [job EXCEPT ![j] = IF pc = "idle" THEN Idle ELSE [@ EXCEPT !.pc = pc]]
At(j) == Min(job[j].todo)
OnwardTo(j, pc) == job' = [job EXCEPT ![j].todo = @ \ {Min(@)}, ![j].pc = pc]

\* Targets, which joins nodes and instances to the user's group; of a user who is gone
\* the public ones are left.
TargetSets == IF user.status = "gone" THEN SUBSET allotted ELSE {allotted}

\* The foreign keys of xray_users: the user and the node are still there.
Insertable(j) == user.status # "gone" /\ instance # 0 /\ job[j].inst = instance

Upsert(j, status) ==
  IF Insertable(j)
  THEN records' = [t \in DOMAIN records \cup {At(j)} |-> IF t = At(j) THEN status ELSE records[t]]
  ELSE UNCHANGED records

-----------------------------------------------------------------------------
\* What administrators, users and the collecting job start

On ==
  /\ ~advanced /\ starts < MaxStarts
  /\ advanced' = TRUE /\ starts' = starts + 1
  /\ mishaps' = IF Quiet THEN mishaps ELSE mishaps \cup {"reopened"}
  /\ UNCHANGED <<user, instance, listed, allotted, records, account, job, given, faults>>

\* The flag and the task in one transaction; a second OFF finds nothing to do.
Off(j) ==
  /\ advanced
  /\ advanced' = FALSE
  /\ Start(j, "clear", "clear", 0, {})
  /\ UNCHANGED <<user, instance, listed, allotted, records, given>>

\* The middleware looks at the mode once, when the request comes in.
Create(j) ==
  /\ advanced /\ instance = 0 /\ given.inst < MaxInst
  /\ Start(j, "create", "insert", 0, {})
  /\ UNCHANGED db

DeleteInstance(j) ==
  /\ advanced /\ instance # 0
  /\ Start(j, "drop", "drop", instance, {})
  /\ UNCHANGED db

Enable(j) ==
  /\ user.status # "gone"
  /\ user' = [user EXCEPT !.status = "active"]
  /\ Start(j, "enable", "aim", 0, {})
  /\ UNCHANGED <<advanced, instance, listed, allotted, records, given>>

Disable(j) ==
  /\ user.status # "gone"
  /\ user' = [user EXCEPT !.status = "disabled"]
  /\ Start(j, "disable", "aim", 0, {})
  /\ UNCHANGED <<advanced, instance, listed, allotted, records, given>>

\* onUserDeleting: the targets are read before the transaction.
Delete(j) ==
  /\ user.status # "gone"
  /\ Start(j, "delete", "delete", instance, allotted)
  /\ UNCHANGED db

\* Another group, whatever the user's status and the mode, if there are nodes at all.
UpdateGroup(j, tags) ==
  /\ user.status # "gone" /\ listed /\ tags # allotted
  /\ allotted' = tags
  /\ Start(j, "regroup", "aim", 0, {})
  /\ UNCHANGED <<advanced, user, instance, listed, records, given>>

\* Other nodes for the group, new ones that detection has made of the inbounds among them,
\* or a node taken out of it: active users only.
SetNodes(j, tags) ==
  /\ advanced /\ instance # 0 /\ tags # allotted
  /\ allotted' = tags /\ listed' = TRUE
  /\ IF user.status = "active"
     THEN Start(j, "regroup", "aim", 0, {})
     ELSE /\ starts < MaxStarts /\ starts' = starts + 1
          /\ mishaps' = Noted("regroup")
          /\ UNCHANGED <<account, job, faults>>
  /\ UNCHANGED <<advanced, user, instance, records, given>>

StartInit(j) ==
  /\ advanced
  /\ Start(j, "init", "list", 0, {})
  /\ UNCHANGED db

RetryUser(j) ==
  /\ advanced /\ user.status # "gone"
  /\ Start(j, "retry", "aim", 0, {})
  /\ UNCHANGED db

\* The collecting job finds an active user over her quota.
CheckQuota(j) ==
  /\ advanced /\ user.status = "active"
  /\ Start(j, "quota", "aim", 0, {})
  /\ UNCHANGED db

ResetQuota(j) ==
  /\ advanced /\ user.status = "active"
  /\ Start(j, "reset", "reset", 0, {})
  /\ UNCHANGED db

-----------------------------------------------------------------------------
\* Their first steps

InsertInstance(j) ==
  /\ job[j].pc = "insert"
  /\ IF instance = 0 /\ given.inst < MaxInst
     THEN instance' = given.inst + 1 /\ given' = [given EXCEPT !.inst = @ + 1]
     ELSE UNCHANGED <<instance, given>>
  /\ Goto(j, "idle")
  /\ UNCHANGED <<advanced, user, listed, allotted, records, account, world>>

ListActive(j) ==
  /\ job[j].pc = "list"
  /\ Goto(j, IF user.status = "active" THEN "push" ELSE "idle")
  /\ UNCHANGED <<db, account, world>>

ClearFlag(j) ==
  /\ job[j].pc = "reset"
  /\ user' = [user EXCEPT !.exceeded = FALSE]
  /\ Goto(j, "push")
  /\ UNCHANGED <<advanced, instance, listed, allotted, records, given, account, world>>

\* The row goes, its push records with it; without targets nothing is cleaned up.
DeleteRow(j) ==
  /\ job[j].pc = "delete"
  /\ user' = [status |-> "gone", exceeded |-> FALSE, key |-> 0]
  /\ records' = NoRecords
  /\ Goto(j, IF user.status = "gone" \/ job[j].todo = {} THEN "idle" ELSE "remove")
  /\ UNCHANGED <<advanced, instance, listed, allotted, given, account, world>>

\* ReconcileUser, RetryUser, CheckQuota and the hook for a disabled user read the targets;
\* the first two then remove the records that are off target.
ReadTargets(j) ==
  /\ job[j].pc = "aim"
  /\ \E targets \in TargetSets :
       job' = [job EXCEPT ![j].inst = instance, ![j].todo = targets,
                          ![j].pc = IF job[j].op \in {"disable", "quota"} THEN "remove" ELSE "stale",
                          ![j].next = CASE job[j].op = "quota" -> "flag"
                                        [] job[j].op = "retry" -> "push"
                                        [] job[j].op \in {"enable", "regroup"} /\ targets # {} -> "push"
                                        [] OTHER -> "idle"]
  /\ UNCHANGED <<db, account, world>>

ReadStale(j) ==
  /\ job[j].pc = "stale"
  /\ LET wanted == IF job[j].inst = instance THEN job[j].todo ELSE {}
         stale == {t \in DOMAIN records \ wanted : job[j].op = "retry" => records[t] = "failed"}
     IN  job' = [job EXCEPT ![j].inst = instance, ![j].todo = stale, ![j].pc = "remove"]
  /\ UNCHANGED <<db, account, world>>

-----------------------------------------------------------------------------
\* RemoveUserFromTargets

AfterRemoval(j) == Goto(j, job[j].next)

RemoveEnter(j) ==
  /\ job[j].pc = "remove"
  /\ IF advanced /\ job[j].todo # {} THEN Goto(j, "removing") ELSE AfterRemoval(j)
  /\ UNCHANGED <<db, account, world>>

Removed(j) ==
  /\ job[j].pc = "removing" /\ job[j].todo # {}
  /\ account' = [account EXCEPT ![At(j)] = 0]
  /\ Goto(j, "forget")
  /\ UNCHANGED <<db, world>>

\* ClientFor: without its instance there is a client only if one was cached before; then
\* there is no row either in which markFailed could say so.
NoClient(j) ==
  /\ job[j].pc = "removing" /\ job[j].todo # {} /\ job[j].inst # instance
  /\ OnwardTo(j, "removing")
  /\ UNCHANGED <<db, account, world>>

\* deleteRecord: by the number of the instance the target was read from.
Forget(j) ==
  /\ job[j].pc = "forget"
  /\ records' = IF job[j].inst = instance THEN [t \in DOMAIN records \ {At(j)} |-> records[t]]
                ELSE records
  /\ OnwardTo(j, "removing")
  /\ UNCHANGED <<advanced, user, instance, listed, allotted, given, account, world>>

RemoveFailed(j) ==
  /\ job[j].pc = "complain"
  /\ Upsert(j, "failed")
  /\ OnwardTo(j, "removing")
  /\ UNCHANGED <<advanced, user, instance, listed, allotted, given, account, world>>

RemovalDone(j) ==
  /\ job[j].pc = "removing" /\ job[j].todo = {}
  /\ AfterRemoval(j)
  /\ UNCHANGED <<db, account, world>>

\* CheckQuota: the flag comes after the removal, and does not look at the mode.
SetFlag(j) ==
  /\ job[j].pc = "flag"
  /\ user' = [user EXCEPT !.exceeded = (user.status # "gone")]
  /\ Goto(j, "idle")
  /\ UNCHANGED <<advanced, instance, listed, allotted, records, given, account, world>>

-----------------------------------------------------------------------------
\* PushUser

PushEnter(j) ==
  /\ job[j].pc = "push"
  /\ Goto(j, IF advanced THEN "who" ELSE "idle")
  /\ UNCHANGED <<db, account, world>>

\* Status and flag are read once, before the first account is added.
ReadStatus(j) ==
  /\ job[j].pc = "who"
  /\ Goto(j, IF user.status = "active" THEN "limit" ELSE "idle")
  /\ UNCHANGED <<db, account, world>>

ReadFlag(j) ==
  /\ job[j].pc = "limit"
  /\ Goto(j, CASE user.status = "gone" -> "idle"
               [] user.status # "gone" /\ user.exceeded -> "blame"
               [] OTHER -> "ensure")
  /\ UNCHANGED <<db, account, world>>

\* writeQuotaExceededError: the records are kept, with the reason.
WriteQuotaExceeded(j) ==
  /\ job[j].pc = "blame"
  /\ records' = [t \in DOMAIN records |-> "failed"]
  /\ Goto(j, "idle")
  /\ UNCHANGED <<advanced, user, instance, listed, allotted, given, account, world>>

MakeKey ==
  /\ given.key < MaxKeys
  /\ user' = [user EXCEPT !.key = given.key + 1]
  /\ given' = [given EXCEPT !.key = @ + 1]

\* EnsureCredentials: the mode is read again inside the transaction.
EnsureCredentials_NoRecheck(j) ==
  /\ job[j].pc = "ensure"
  /\ IF user.status = "gone"
     THEN Goto(j, "idle") /\ UNCHANGED <<user, given>>
     ELSE /\ Goto(j, "targets")
          /\ IF user.key = 0 THEN MakeKey ELSE UNCHANGED <<user, given>>
  /\ UNCHANGED <<advanced, instance, listed, allotted, records, account, world>>

EnsureCredentials(j) ==
  /\ job[j].pc = "ensure"
  /\ IF ~advanced \/ user.status = "gone"
     THEN Goto(j, "idle") /\ UNCHANGED <<user, given>>
     ELSE /\ Goto(j, "targets")
          /\ IF user.key = 0 THEN MakeKey ELSE UNCHANGED <<user, given>>
  /\ UNCHANGED <<advanced, instance, listed, allotted, records, account, world>>

PushTargets(j) ==
  /\ job[j].pc = "targets"
  /\ \E targets \in TargetSets :
       job' = [job EXCEPT ![j] = IF targets = {} THEN Idle
                                 ELSE [@ EXCEPT !.inst = instance, !.todo = targets, !.pc = "creds"]]
  /\ UNCHANGED <<db, account, world>>

ReadCredentials(j) ==
  /\ job[j].pc = "creds"
  /\ job' = [job EXCEPT ![j] = IF user.key = 0 THEN Idle
                               ELSE [@ EXCEPT !.key = user.key, !.pc = "pushing"]]
  /\ UNCHANGED <<db, account, world>>

\* writePending: the mode is read again inside the transaction.
WritePending(j) ==
  /\ job[j].pc = "pushing" /\ job[j].todo # {}
  /\ IF advanced
     THEN /\ Upsert(j, "pending")
          /\ IF Insertable(j) THEN Goto(j, "view") ELSE OnwardTo(j, "pushing")
     ELSE Goto(j, "idle") /\ UNCHANGED records
  /\ UNCHANGED <<advanced, user, instance, listed, allotted, given, account, world>>

\* nodeViewForTarget and BuildUser; without the node there is no record to mark either.
ReadNode(j) ==
  /\ job[j].pc = "view"
  /\ IF job[j].inst = instance THEN Goto(j, "adding") ELSE OnwardTo(j, "pushing")
  /\ UNCHANGED <<db, account, world>>

\* An account that exists already is left as it is, and counts as added.
AddEffect(j) == [account EXCEPT ![At(j)] = IF @ = 0 THEN job[j].key ELSE @]

Added_NoRecheck(j) ==
  /\ job[j].pc = "adding"
  /\ account' = AddEffect(j)
  /\ Goto(j, "synced")
  /\ UNCHANGED <<db, world>>

Added(j) ==
  /\ job[j].pc = "adding"
  /\ account' = AddEffect(j)
  /\ Goto(j, "recheck")
  /\ UNCHANGED <<db, world>>

\* The mode once more, after the RPC: an account added too late is taken back.
Recheck(j) ==
  /\ job[j].pc = "recheck"
  /\ Goto(j, IF advanced THEN "synced" ELSE "undo")
  /\ UNCHANGED <<db, account, world>>

Undone(j) ==
  /\ job[j].pc = "undo"
  /\ account' = [account EXCEPT ![At(j)] = 0]
  /\ Goto(j, "failed")
  /\ UNCHANGED <<db, world>>

MarkSynced(j) ==
  /\ job[j].pc = "synced"
  /\ Upsert(j, "synced")
  /\ OnwardTo(j, "pushing")
  /\ UNCHANGED <<advanced, user, instance, listed, allotted, given, account, world>>

MarkFailed(j) ==
  /\ job[j].pc = "failed"
  /\ Upsert(j, "failed")
  /\ OnwardTo(j, "pushing")
  /\ UNCHANGED <<advanced, user, instance, listed, allotted, given, account, world>>

PushDone(j) ==
  /\ job[j].pc = "pushing" /\ job[j].todo = {}
  /\ Goto(j, "idle")
  /\ UNCHANGED <<db, account, world>>

-----------------------------------------------------------------------------
\* OFF and the deletion of an instance: what is to be removed is collected in the
\* transaction that deletes it, and removed afterwards, once, as far as possible.

OffClear_NoCascade(j) ==
  /\ job[j].pc = "clear"
  /\ job' = [job EXCEPT ![j].todo = DOMAIN records, ![j].pc = "sweep"]
  /\ instance' = 0 /\ listed' = FALSE /\ allotted' = {}
  /\ user' = [status |-> user.status, exceeded |-> FALSE, key |-> 0]
  /\ UNCHANGED <<advanced, records, given, account, world>>

OffClear(j) ==
  /\ job[j].pc = "clear"
  /\ job' = [job EXCEPT ![j].todo = DOMAIN records, ![j].pc = "sweep"]
  /\ instance' = 0 /\ listed' = FALSE /\ allotted' = {} /\ records' = NoRecords
  /\ user' = [status |-> user.status, exceeded |-> FALSE, key |-> 0]
  /\ UNCHANGED <<advanced, given, account, world>>

DropInstance(j) ==
  /\ job[j].pc = "drop"
  /\ IF job[j].inst = instance
     THEN /\ job' = [job EXCEPT ![j].pc = "sweep", ![j].todo =
                       DOMAIN records \cup (IF user.status = "active" THEN allotted ELSE {})]
          /\ instance' = 0 /\ listed' = FALSE /\ allotted' = {} /\ records' = NoRecords
     ELSE Goto(j, "idle") /\ UNCHANGED <<instance, listed, allotted, records>>
  /\ UNCHANGED <<advanced, user, given, account, world>>

Swept(j) ==
  /\ job[j].pc = "sweep" /\ job[j].todo # {}
  /\ account' = [account EXCEPT ![At(j)] = 0]
  /\ OnwardTo(j, "sweep")
  /\ UNCHANGED <<db, world>>

SweepDone(j) ==
  /\ job[j].pc = "sweep" /\ job[j].todo = {}
  /\ Goto(j, "idle")
  /\ UNCHANGED <<db, account, world>>

-----------------------------------------------------------------------------
\* Faults

\* An RPC fails or runs into its deadline; the server may have done what it asked, or not.
\* Where a record cannot be written any more, nothing remembers the account.
AfterFailure(pc) == IF pc = "removing" THEN "complain" ELSE "failed"

RpcFails(j) ==
  /\ job[j].pc \in {"removing", "adding", "undo", "sweep"} /\ job[j].todo # {}
  /\ faults < MaxFaults /\ faults' = faults + 1
  /\ \/ UNCHANGED account
     \/ account' = IF job[j].pc = "adding" THEN AddEffect(j) ELSE [account EXCEPT ![At(j)] = 0]
  /\ IF job[j].pc = "sweep" THEN OnwardTo(j, "sweep") ELSE Goto(j, AfterFailure(job[j].pc))
  /\ mishaps' = mishaps \cup {IF Insertable(j) THEN "rpc" ELSE "unrecorded"}
  /\ UNCHANGED <<db, starts>>

\* Goroutines that alone know of an account on the server.
Knows(j) ==
  \/ job[j].pc = "sweep" \/ job[j].op = "delete"
  \/ job[j].pc \in {"recheck", "undo"} /\ ~Insertable(j)

\* Goroutines and tasks are in memory only: a restart takes none of them up again.
Crash ==
  /\ ~Quiet
  /\ faults < MaxFaults /\ faults' = faults + 1
  /\ job' = [j \in Jobs |-> Idle]
  /\ mishaps' = mishaps \cup {"crash"}
       \cup (IF \E j \in Jobs : job[j].pc = "clear" THEN {"uncleared"} ELSE {})
       \cup (IF \E j \in Jobs : Knows(j) THEN {"unrecorded"} ELSE {})
  /\ UNCHANGED <<db, account, starts>>

\* These two work with the context of their HTTP request: when the client hangs up, every
\* statement and call that is left fails at once.
Abandon(j) ==
  /\ Alive(j) /\ job[j].op \in {"retry", "reset"}
  /\ faults < MaxFaults /\ faults' = faults + 1
  /\ Goto(j, "idle")
  /\ mishaps' = mishaps \cup {"crash"} \cup (IF Knows(j) THEN {"unrecorded"} ELSE {})
  /\ UNCHANGED <<db, account, starts>>

-----------------------------------------------------------------------------
\* A panel without advanced mode, or one whose only user is as she should be.
Init ==
  /\ \E status \in {"active", "disabled"}, on \in BOOLEAN, tags \in SUBSET Tags :
       LET pushed == IF status = "active" THEN tags ELSE {}
           key == IF pushed = {} THEN 0 ELSE 1
       IN  /\ advanced = on
           /\ on => MaxInst > 0 /\ MaxKeys > 0
           /\ on \/ tags = {}
           /\ user = [status |-> status, exceeded |-> FALSE, key |-> key]
           /\ instance = IF on THEN 1 ELSE 0
           /\ listed = on /\ allotted = tags
           /\ records = [t \in pushed |-> "synced"]
           /\ account = [t \in Tags |-> IF t \in pushed THEN key ELSE 0]
           /\ given = [key |-> key, inst |-> instance]
  /\ job = [j \in Jobs |-> Idle]
  /\ starts = 0 /\ faults = 0 /\ mishaps = {}

Request(j) ==
  \/ Off(j) \/ Create(j) \/ DeleteInstance(j)
  \/ Enable(j) \/ Disable(j) \/ Delete(j)
  \/ \E tags \in SUBSET Tags : UpdateGroup(j, tags) \/ SetNodes(j, tags)
  \/ StartInit(j) \/ RetryUser(j) \/ CheckQuota(j) \/ ResetQuota(j)

JobStep(j) ==
  \/ InsertInstance(j) \/ ListActive(j) \/ ClearFlag(j) \/ DeleteRow(j)
  \/ ReadTargets(j) \/ ReadStale(j)
  \/ RemoveEnter(j) \/ Removed(j) \/ NoClient(j) \/ Forget(j) \/ RemoveFailed(j) \/ RemovalDone(j) \/ SetFlag(j)
  \/ PushEnter(j) \/ ReadStatus(j) \/ ReadFlag(j) \/ WriteQuotaExceeded(j) \/ EnsureCredentials(j)
  \/ PushTargets(j) \/ ReadCredentials(j) \/ WritePending(j) \/ ReadNode(j)
  \/ Added(j) \/ Recheck(j) \/ Undone(j) \/ MarkSynced(j) \/ MarkFailed(j) \/ PushDone(j)
  \/ OffClear(j) \/ DropInstance(j) \/ Swept(j) \/ SweepDone(j)

Next ==
  \/ On
  \/ \E j \in Jobs : Request(j) \/ JobStep(j) \/ RpcFails(j) \/ Abandon(j)
  \/ Crash

Spec == Init /\ [][Next]_vars

-----------------------------------------------------------------------------
\* Properties

Ops == {"none", "clear", "create"} \cup Removing \cup {"enable", "init", "retry", "reset"}
Pcs == {"idle", "insert", "list", "reset", "delete", "aim", "stale", "remove", "removing",
        "forget", "complain", "flag", "push", "who", "limit", "blame", "ensure", "targets", "creds",
        "pushing", "view", "adding", "recheck", "undo", "synced", "failed", "clear", "drop",
        "sweep"}
Mishaps == {"overlap", "reopened", "rpc", "crash", "unrecorded", "uncleared"}

(* Every variable has its type, and no push record outlives its user or    *)
(* its instance (ON DELETE CASCADE).                                       *)
TypeOK ==
  /\ advanced \in BOOLEAN
  /\ user \in [status : {"active", "disabled", "gone"}, exceeded : BOOLEAN, key : 0..given.key]
  /\ instance \in 0..given.inst
  /\ listed \in BOOLEAN /\ allotted \subseteq Tags
  /\ DOMAIN records \subseteq Tags
  /\ records \in [DOMAIN records -> {"pending", "synced", "failed"}]
  /\ account \in [Tags -> 0..given.key]
  /\ job \in [Jobs -> [op : Ops, pc : Pcs, inst : 0..given.inst, todo : SUBSET Tags,
                       key : 0..given.key, next : Pcs]]
  /\ given \in [key : 0..MaxKeys, inst : 0..MaxInst]
  /\ starts \in 0..MaxStarts /\ faults \in 0..MaxFaults
  /\ mishaps \subseteq Mishaps
  /\ (user.status = "gone" \/ instance = 0) => records = NoRecords

(* Once OFF has cleared the database, nothing that was in flight writes    *)
(* credentials or push records back (Design2 5.5: EnsureCredentials and    *)
(* writePending read the mode in their transactions, and the foreign keys  *)
(* stop markSynced and markFailed), unless a crash lost the clearing.      *)
ClearedStaysCleared ==
  (~advanced /\ (\A j \in Jobs : job[j].pc # "clear") /\ "uncleared" \notin mishaps)
    => user.key = 0 /\ records = NoRecords

(* When no goroutine is at work, every account on the server has a push    *)
(* record by which a later removal or clearing finds it: failed RPCs and   *)
(* crashes in the middle of a push or a removal do not lose one.  With     *)
(* ClearedStaysCleared: OFF leaves no account behind, whatever push was    *)
(* under way (pushes look at the mode again after AddUser).  Excused: two  *)
(* removing operations at once, ON while OFF is still clearing, a failed   *)
(* RPC or a crash where the record is gone already, and a deletion after   *)
(* an earlier fault.                                                       *)
NoStrayAccount ==
  ( /\ Quiet /\ mishaps \subseteq {"rpc", "crash"}
    /\ user.status = "gone" => mishaps = {} )
    => \A t \in Tags : account[t] # 0 => t \in DOMAIN records

(* A record that says synced is true: the account is there and has the     *)
(* user's present credentials, also when several pushes made them at the   *)
(* same time (EnsureCredentials writes only where there are none).         *)
SyncedIsReal ==
  (Quiet /\ mishaps \subseteq {"rpc"}) =>
    \A t \in DOMAIN records : records[t] = "synced" => account[t] # 0 /\ account[t] = user.key

(* When nothing went wrong, the server holds what the panel grants: an     *)
(* active user within her quota is on exactly the inbounds she is allotted *)
(* and every other user on none.                                           *)
AccountsAreDue ==
  (Quiet /\ advanced /\ mishaps = {}) =>
    {t \in Tags : account[t] # 0} =
      IF user.status = "active" /\ ~user.exceeded THEN allotted ELSE {}

(* At rest, records, credentials and the accounts on the server agree.     *)
ServerAgrees == NoStrayAccount /\ SyncedIsReal /\ AccountsAreDue
=============================================================================
