-------------------------- MODULE XraySync_proofs --------------------------
(***************************************************************************)
(* Proofs about XraySync, for any set of goroutines, any number of         *)
(* inbounds, and any bounds.                                               *)
(***************************************************************************)
EXTENDS XraySync, WellFoundedInduction, TLAPS

-----------------------------------------------------------------------------
(* A non-empty set of naturals contains its least element.                 *)
LEMMA MinElement ==
  ASSUME NEW S \in SUBSET Nat, S # {}
  PROVE  Min(S) \in S
<1>1. PICK m \in S : \A k \in S : ~ (<<k, m>> \in OpToRel(<, Nat))
  BY WFMin, NatLessThanWellFounded, Zenon
<1>2. \A k \in S : ~ (k < m)
  BY <1>1 DEF OpToRel
<1>3. \A k \in S : m =< k
  BY <1>2
<1> QED
  BY <1>3 DEF Min

(* The inbound a goroutine is at is one of those it has left.              *)
LEMMA AtElement ==
  ASSUME XrayAssumption, TypeOK, NEW j \in Jobs, job[j].todo # {}
  PROVE  At(j) \in job[j].todo /\ At(j) \in Tags
<1>1. job[j].todo \subseteq Tags
  BY DEF TypeOK
<1>2. job[j].todo \in SUBSET Nat
  BY <1>1 DEF Tags
<1> QED
  BY <1>1, <1>2, MinElement DEF At

(* What job may be while `given` is g.                                     *)
JobType(g) == [Jobs -> [op : Ops, pc : Pcs, inst : 0..g.inst, todo : SUBSET Tags,
                        key : 0..g.key, next : Pcs]]

(* The two ways in which a goroutine goes on keep its type.                *)
LEMMA GotoTyped ==
  ASSUME NEW g \in [key : Nat, inst : Nat], job \in JobType(g), NEW j \in Jobs,
         NEW pc \in Pcs, Goto(j, pc)
  PROVE  job' \in JobType(g)
<1>1. Idle \in [op : Ops, pc : Pcs, inst : 0..g.inst, todo : SUBSET Tags,
                key : 0..g.key, next : Pcs]
  BY DEF Idle, Ops, Pcs
<1> QED
  BY <1>1 DEF JobType, Goto

LEMMA OnwardTyped ==
  ASSUME NEW g \in [key : Nat, inst : Nat], job \in JobType(g), NEW j \in Jobs,
         NEW pc \in Pcs, OnwardTo(j, pc)
  PROVE  job' \in JobType(g)
  BY DEF JobType, OnwardTo

LEMMA StartTyped ==
  ASSUME NEW g \in [key : Nat, inst : Nat], job \in JobType(g), NEW j \in Jobs,
         NEW op \in Ops, NEW pc \in Pcs, NEW inst \in 0..g.inst, NEW todo \in SUBSET Tags,
         starts \in 0..MaxStarts, MaxStarts \in Nat, mishaps \subseteq Mishaps,
         Start(j, op, pc, inst, todo)
  PROVE  /\ job' \in JobType(g)
         /\ starts' \in 0..MaxStarts /\ mishaps' \subseteq Mishaps
<1>2. job' \in JobType(g)
  <2>1. "idle" \in Pcs
    BY DEF Pcs
  <2> QED
    BY <2>1 DEF JobType, Start
<1>3. starts' \in 0..MaxStarts
  BY DEF Start
<1>4. mishaps' \subseteq Mishaps
  BY DEF Start, Noted, Mishaps
<1> QED
  BY <1>2, <1>3, <1>4

(* Writing a push record keeps the type of the table: the foreign keys     *)
(* refuse a row without its user or its instance.                          *)
LEMMA UpsertTyped ==
  ASSUME XrayAssumption, TypeOK, NEW j \in Jobs, job[j].todo # {},
         NEW status \in {"pending", "synced", "failed"}, Upsert(j, status)
  PROVE  /\ DOMAIN records' \subseteq Tags
         /\ records' \in [DOMAIN records' -> {"pending", "synced", "failed"}]
         /\ (user.status = "gone" \/ instance = 0) => records' = NoRecords
<1>1. At(j) \in Tags
  BY AtElement
<1>2. CASE Insertable(j)
  BY <1>1, <1>2 DEF TypeOK, Upsert, Insertable
<1>3. CASE ~Insertable(j)
  BY <1>3 DEF TypeOK, Upsert
<1> QED
  BY <1>2, <1>3

(* The parts of TypeOK.                                                    *)
Given == given \in [key : 0..MaxKeys, inst : 0..MaxInst]
History == starts \in 0..MaxStarts /\ faults \in 0..MaxFaults /\ mishaps \subseteq Mishaps
Server == account \in [Tags -> 0..given.key]
Rows ==
  /\ advanced \in BOOLEAN
  /\ user \in [status : {"active", "disabled", "gone"}, exceeded : BOOLEAN, key : 0..given.key]
  /\ instance \in 0..given.inst /\ listed \in BOOLEAN /\ allotted \subseteq Tags
  /\ DOMAIN records \subseteq Tags
  /\ records \in [DOMAIN records -> {"pending", "synced", "failed"}]
  /\ (user.status = "gone" \/ instance = 0) => records = NoRecords
Work == job \in JobType(given)

LEMMA Parts ==
  TypeOK <=> Given /\ History /\ Server /\ Rows /\ Work
BY DEF TypeOK, Given, History, Server, Rows, Work, JobType

LEMMA InitTyped ==
  ASSUME XrayAssumption, Init PROVE TypeOK
<1>1. PICK status \in {"active", "disabled"}, on \in BOOLEAN, tags \in SUBSET Tags :
        LET pushed == IF status = "active" THEN tags ELSE {}
            key == IF pushed = {} THEN 0 ELSE 1
        IN  /\ advanced = on
            /\ on => MaxInst > 0 /\ MaxKeys > 0
            /\ on \/ tags = {}
            /\ user = [status |-> status, exceeded |-> FALSE, key |-> key]
            /\ instance = IF on THEN 1 ELSE 0
            /\ listed = on /\ allotted = tags
            /\ records = [t \in pushed |-> "synced"]
            /\ account = [t \in Tags |-> IF t \in pushed THEN key ELSE 0]
            /\ given = [key |-> key, inst |-> instance]
  BY DEF Init
<1>2. /\ job = [j \in Jobs |-> Idle]
      /\ starts = 0 /\ faults = 0 /\ mishaps = {}
  BY DEF Init
<1> DEFINE pushed == IF status = "active" THEN tags ELSE {}
           key == IF pushed = {} THEN 0 ELSE 1
<1>3. Given
  BY <1>1 DEF Given, XrayAssumption
<1>4. History
  BY <1>2 DEF History, XrayAssumption
<1>5. given.key = key /\ given.inst = instance
  BY <1>1
<1>6. Server
  BY <1>1, <1>5 DEF Server
<1>7. Rows
  <2>1. records = [t \in pushed |-> "synced"] /\ pushed \subseteq Tags
    BY <1>1
  <2>2. (user.status = "gone" \/ instance = 0) => pushed = {}
    BY <1>1
  <2>3. pushed = {} => records = NoRecords
    BY <2>1 DEF NoRecords
  <2> QED
    BY <1>1, <1>5, <2>1, <2>2, <2>3 DEF Rows
<1>8. Work
  <2>1. 0 \in 0..given.inst /\ 0 \in 0..given.key
    BY <1>3 DEF Given
  <2> QED
    BY <1>2, <2>1 DEF Work, JobType, Idle, Ops, Pcs
<1> QED
  BY <1>3, <1>4, <1>6, <1>7, <1>8, Parts

(* What most steps leave alone keeps its type.                             *)
LEMMA SameWorld ==
  ASSUME TypeOK, UNCHANGED world PROVE History'
BY Parts DEF History, world

LEMMA SameDb ==
  ASSUME TypeOK, UNCHANGED db PROVE Given' /\ Rows'
BY Parts DEF Given, Rows, db

LEMMA SameServer ==
  ASSUME TypeOK, UNCHANGED <<account, given>> PROVE Server'
BY Parts DEF Server

LEMMA PartsNext ==
  ASSUME Given', History', Server', Rows', Work' PROVE TypeOK'
BY DEF TypeOK, Given, History, Server, Rows, Work, JobType

(* A step that only moves a goroutine on.                                  *)
LEMMA QuietStepTyped ==
  ASSUME XrayAssumption, TypeOK, NEW j \in Jobs, NEW pc \in Pcs,
         Goto(j, pc) \/ OnwardTo(j, pc), UNCHANGED <<db, account, world>>
  PROVE  TypeOK'
<1>1. given \in [key : Nat, inst : Nat] /\ given' = given
  BY Parts DEF Given, XrayAssumption, db
<1>2. Work'
  <2>1. job' \in JobType(given)
    BY <1>1, Parts, GotoTyped, OnwardTyped DEF Work
  <2> QED
    BY <2>1, <1>1 DEF Work
<1>3. History' /\ Given' /\ Rows' /\ Server'
  BY <1>1, SameWorld, SameDb, SameServer
<1> QED
  BY <1>2, <1>3, PartsNext

(* A step that starts a goroutine and may change the user, the allotment   *)
(* or the mode.                                                            *)
LEMMA StartStepTyped ==
  ASSUME XrayAssumption, TypeOK, NEW j \in Jobs, NEW op \in Ops, NEW pc \in Pcs,
         NEW inst \in 0..given.inst, NEW todo \in SUBSET Tags,
         Start(j, op, pc, inst, todo), Rows', UNCHANGED given
  PROVE  TypeOK'
<1>1. given \in [key : Nat, inst : Nat] /\ MaxStarts \in Nat
  BY Parts DEF Given, XrayAssumption
<1>2. /\ job' \in JobType(given)
      /\ starts' \in 0..MaxStarts /\ mishaps' \subseteq Mishaps
  BY <1>1, Parts, StartTyped DEF Work, History
<1>3. account' = account /\ faults' = faults
  BY DEF Start
<1>4. History' /\ Work' /\ Given' /\ Server'
  BY <1>2, <1>3, Parts DEF History, Work, Given, Server
<1> QED
  BY <1>4, PartsNext

(* Every request keeps the types.                                          *)
LEMMA RequestTyped ==
  ASSUME XrayAssumption, TypeOK, NEW j \in Jobs, Request(j)
  PROVE  TypeOK'
<1>1. Given /\ History /\ Server /\ Rows /\ Work /\ 0 \in 0..given.inst /\ instance \in 0..given.inst
  BY Parts DEF Rows, Given, XrayAssumption
<1>2. MaxStarts \in Nat
  BY DEF XrayAssumption
<1>3. ASSUME Off(j) PROVE TypeOK'
  <2>1. Start(j, "clear", "clear", 0, {}) /\ UNCHANGED given
    BY <1>3 DEF Off, db
  <2>2. Rows'
    BY <1>3, <1>1 DEF Off, Rows, db
  <2> QED
    BY <2>1, <2>2, <1>1, StartStepTyped DEF Ops, Pcs, Removing
<1>4. ASSUME Create(j) PROVE TypeOK'
  <2>1. Start(j, "create", "insert", 0, {}) /\ UNCHANGED given
    BY <1>4 DEF Create, db
  <2>2. Rows'
    BY <1>4, <1>1 DEF Create, Rows, db
  <2> QED
    BY <2>1, <2>2, <1>1, StartStepTyped DEF Ops, Pcs, Removing
<1>5. ASSUME DeleteInstance(j) PROVE TypeOK'
  <2>1. Start(j, "drop", "drop", instance, {}) /\ UNCHANGED given
    BY <1>5 DEF DeleteInstance, db
  <2>2. Rows'
    BY <1>5, <1>1 DEF DeleteInstance, Rows, db
  <2> QED
    BY <2>1, <2>2, <1>1, StartStepTyped DEF Ops, Pcs, Removing
<1>6. ASSUME Enable(j) PROVE TypeOK'
  <2>1. Start(j, "enable", "aim", 0, {}) /\ UNCHANGED given
    BY <1>6 DEF Enable, db
  <2>2. Rows'
    BY <1>6, <1>1 DEF Enable, Rows, db
  <2> QED
    BY <2>1, <2>2, <1>1, StartStepTyped DEF Ops, Pcs, Removing
<1>7. ASSUME Disable(j) PROVE TypeOK'
  <2>1. Start(j, "disable", "aim", 0, {}) /\ UNCHANGED given
    BY <1>7 DEF Disable, db
  <2>2. Rows'
    BY <1>7, <1>1 DEF Disable, Rows, db
  <2> QED
    BY <2>1, <2>2, <1>1, StartStepTyped DEF Ops, Pcs, Removing
<1>8. ASSUME Delete(j) PROVE TypeOK'
  <2>1. Start(j, "delete", "delete", instance, allotted) /\ UNCHANGED given
    BY <1>8 DEF Delete, db
  <2>2. Rows'
    BY <1>8, <1>1 DEF Delete, Rows, db
  <2> QED
    BY <2>1, <2>2, <1>1, StartStepTyped DEF Ops, Pcs, Removing, Rows
<1>9. ASSUME NEW tags \in SUBSET Tags, UpdateGroup(j, tags) PROVE TypeOK'
  <2>1. Start(j, "regroup", "aim", 0, {}) /\ UNCHANGED given
    BY <1>9 DEF UpdateGroup, db
  <2>2. Rows'
    BY <1>9, <1>1 DEF UpdateGroup, Rows, db
  <2> QED
    BY <2>1, <2>2, <1>1, StartStepTyped DEF Ops, Pcs, Removing
<1>10. ASSUME NEW tags \in SUBSET Tags, SetNodes(j, tags) PROVE TypeOK'
  <2>1. UNCHANGED <<advanced, user, instance, records, given>> /\ listed' = TRUE /\ allotted' = tags
    BY <1>10 DEF SetNodes
  <2>2. Rows'
    BY <2>1, <1>1 DEF Rows
  <2>3. CASE user.status = "active"
    BY <2>1, <2>2, <2>3, <1>10, <1>1, StartStepTyped DEF SetNodes, Ops, Pcs, Removing
  <2>4. CASE user.status # "active"
    <3>1. /\ UNCHANGED <<account, job, faults>> /\ starts < MaxStarts
          /\ starts' = starts + 1 /\ mishaps' = Noted("regroup")
      BY <2>4, <1>10 DEF SetNodes
    <3>2. History'
      BY <3>1, <1>1, <1>2 DEF History, Noted, Mishaps
    <3>3. Given' /\ Server' /\ Work'
      BY <3>1, <2>1, <1>1 DEF Given, Server, Work
    <3> QED
      BY <3>2, <3>3, <2>2, PartsNext
  <2> QED
    BY <2>3, <2>4
<1>11. ASSUME StartInit(j) PROVE TypeOK'
  <2>1. Start(j, "init", "list", 0, {}) /\ UNCHANGED given
    BY <1>11 DEF StartInit, db
  <2>2. Rows'
    BY <1>11, <1>1 DEF StartInit, Rows, db
  <2> QED
    BY <2>1, <2>2, <1>1, StartStepTyped DEF Ops, Pcs, Removing
<1>12. ASSUME RetryUser(j) PROVE TypeOK'
  <2>1. Start(j, "retry", "aim", 0, {}) /\ UNCHANGED given
    BY <1>12 DEF RetryUser, db
  <2>2. Rows'
    BY <1>12, <1>1 DEF RetryUser, Rows, db
  <2> QED
    BY <2>1, <2>2, <1>1, StartStepTyped DEF Ops, Pcs, Removing
<1>13. ASSUME CheckQuota(j) PROVE TypeOK'
  <2>1. Start(j, "quota", "aim", 0, {}) /\ UNCHANGED given
    BY <1>13 DEF CheckQuota, db
  <2>2. Rows'
    BY <1>13, <1>1 DEF CheckQuota, Rows, db
  <2> QED
    BY <2>1, <2>2, <1>1, StartStepTyped DEF Ops, Pcs, Removing
<1>14. ASSUME ResetQuota(j) PROVE TypeOK'
  <2>1. Start(j, "reset", "reset", 0, {}) /\ UNCHANGED given
    BY <1>14 DEF ResetQuota, db
  <2>2. Rows'
    BY <1>14, <1>1 DEF ResetQuota, Rows, db
  <2> QED
    BY <2>1, <2>2, <1>1, StartStepTyped DEF Ops, Pcs, Removing
<1> QED
  BY <1>3, <1>4, <1>5, <1>6, <1>7, <1>8, <1>9, <1>10, <1>11, <1>12, <1>13, <1>14 DEF Request

(* A step that moves a goroutine on and changes rows.                      *)
LEMMA RowStepTyped ==
  ASSUME XrayAssumption, TypeOK, NEW j \in Jobs, NEW pc \in Pcs,
         Goto(j, pc) \/ OnwardTo(j, pc), Rows', UNCHANGED <<given, account, world>>
  PROVE  TypeOK'
<1>1. given \in [key : Nat, inst : Nat]
  BY Parts DEF Given, XrayAssumption
<1>2. job' \in JobType(given)
  BY <1>1, Parts, GotoTyped, OnwardTyped DEF Work
<1>3. History' /\ Given' /\ Server' /\ Work'
  BY <1>2, SameWorld, SameServer, Parts DEF Given, Work
<1> QED
  BY <1>3, PartsNext

(* A step that moves a goroutine on and changes accounts on the server.    *)
LEMMA ServerStepTyped ==
  ASSUME XrayAssumption, TypeOK, NEW j \in Jobs, NEW pc \in Pcs,
         Goto(j, pc) \/ OnwardTo(j, pc), Server', UNCHANGED db, History'
  PROVE  TypeOK'
<1>1. given \in [key : Nat, inst : Nat] /\ given' = given
  BY Parts DEF Given, XrayAssumption, db
<1>2. job' \in JobType(given)
  BY <1>1, Parts, GotoTyped, OnwardTyped DEF Work
<1>3. Given' /\ Rows' /\ Work'
  BY <1>1, <1>2, SameDb DEF Work
<1> QED
  BY <1>3, PartsNext

(* One account goes, or is added unless there is one.                      *)
LEMMA AccountsTyped ==
  ASSUME XrayAssumption, TypeOK, NEW j \in Jobs, UNCHANGED given,
         account' = [account EXCEPT ![At(j)] = 0] \/ account' = AddEffect(j)
  PROVE  Server'
<1>1. /\ job[j].key \in 0..given.key /\ 0 \in 0..given.key
      /\ account \in [Tags -> 0..given.key]
  BY Parts DEF Work, JobType, Server, Given, XrayAssumption
<1> QED
  BY <1>1 DEF Server, AddEffect

(* While a goroutine is at an inbound, it has that inbound left; and only  *)
(* the operation OFF begins clears.                                        *)
AtPcs == {"forget", "complain", "view", "adding", "recheck", "undo", "synced", "failed"}
JobInv ==
  \A j \in Jobs :
    /\ job[j].pc \in AtPcs => job[j].todo # {}
    /\ job[j].pc = "clear" => job[j].op = "clear"
    /\ job[j].next \in {"idle", "flag", "push"}

(* The empty table has its type.                                           *)
LEMMA EmptyRecords ==
  DOMAIN NoRecords = {} /\ NoRecords \in [{} -> {"pending", "synced", "failed"}]
BY DEF NoRecords

(* Every step of a goroutine keeps the types.                              *)
LEMMA JobStepTyped ==
  ASSUME XrayAssumption, TypeOK, JobInv, NEW j \in Jobs, JobStep(j)
  PROVE  TypeOK'
<1>0. /\ {"idle", "remove", "stale", "flag", "push", "creds", "pushing", "sweep"} \subseteq Pcs
      /\ "none" \in Ops
  BY DEF Pcs, Ops
<1>1. Given /\ History /\ Server /\ Rows /\ Work
  BY Parts
<1>2. /\ given.key \in Nat /\ given.inst \in Nat /\ MaxKeys \in Nat /\ MaxInst \in Nat
      /\ job[j].inst \in 0..given.inst /\ job[j].todo \in SUBSET Tags /\ job[j].next \in Pcs
  BY <1>1 DEF Given, Work, JobType, XrayAssumption
<1>3. ASSUME ListActive(j) PROVE TypeOK'
  BY <1>3, QuietStepTyped DEF ListActive, Pcs
<1>4. ASSUME RemoveEnter(j) PROVE TypeOK'
  BY <1>4, <1>2, QuietStepTyped DEF RemoveEnter, Pcs, AfterRemoval
<1>5. ASSUME NoClient(j) PROVE TypeOK'
  BY <1>5, QuietStepTyped DEF NoClient, Pcs
<1>6. ASSUME RemovalDone(j) PROVE TypeOK'
  BY <1>6, <1>2, QuietStepTyped DEF RemovalDone, Pcs, AfterRemoval
<1>7. ASSUME PushEnter(j) PROVE TypeOK'
  BY <1>7, QuietStepTyped DEF PushEnter, Pcs
<1>8. ASSUME ReadStatus(j) PROVE TypeOK'
  BY <1>8, QuietStepTyped DEF ReadStatus, Pcs
<1>9. ASSUME ReadFlag(j) PROVE TypeOK'
  BY <1>9, QuietStepTyped DEF ReadFlag, Pcs
<1>10. ASSUME ReadNode(j) PROVE TypeOK'
  BY <1>10, QuietStepTyped DEF ReadNode, Pcs
<1>11. ASSUME Recheck(j) PROVE TypeOK'
  BY <1>11, QuietStepTyped DEF Recheck, Pcs
<1>12. ASSUME PushDone(j) PROVE TypeOK'
  BY <1>12, QuietStepTyped DEF PushDone, Pcs
<1>13. ASSUME SweepDone(j) PROVE TypeOK'
  BY <1>13, QuietStepTyped DEF SweepDone, Pcs
<1>14. ASSUME ClearFlag(j) PROVE TypeOK'
  <2>1. Rows'
    BY <1>14, <1>1, <1>2 DEF ClearFlag, Rows
  <2> QED
    BY <1>14, <2>1, RowStepTyped DEF ClearFlag, Pcs
<1>15. ASSUME DeleteRow(j) PROVE TypeOK'
  <2>1. Rows'
    BY <1>15, <1>1, <1>2 DEF DeleteRow, Rows, NoRecords
  <2> QED
    BY <1>15, <2>1, RowStepTyped DEF DeleteRow, Pcs
<1>16. ASSUME Forget(j) PROVE TypeOK'
  <2>1. Rows'
    BY <1>16, <1>1, <1>2 DEF Forget, Rows, NoRecords
  <2> QED
    BY <1>16, <2>1, RowStepTyped DEF Forget, Pcs
<1>17. ASSUME SetFlag(j) PROVE TypeOK'
  <2>1. Rows'
    BY <1>17, <1>1, <1>2 DEF SetFlag, Rows
  <2> QED
    BY <1>17, <2>1, RowStepTyped DEF SetFlag, Pcs
<1>18. ASSUME WriteQuotaExceeded(j) PROVE TypeOK'
  <2>1. Rows'
    BY <1>18, <1>1, <1>2 DEF WriteQuotaExceeded, Rows, NoRecords
  <2> QED
    BY <1>18, <2>1, RowStepTyped DEF WriteQuotaExceeded, Pcs
<1>19. ASSUME RemoveFailed(j) PROVE TypeOK'
  <2>1. /\ Upsert(j, "failed") /\ UNCHANGED <<advanced, user, instance, listed, allotted, given>>
        /\ job[j].todo # {}
    BY <1>19 DEF RemoveFailed, JobInv, AtPcs
  <2>2. Rows'
    BY <2>1, <1>19, <1>1, UpsertTyped DEF Rows, NoRecords
  <2> QED
    BY <1>19, <2>2, RowStepTyped DEF RemoveFailed, Pcs
<1>20. ASSUME MarkSynced(j) PROVE TypeOK'
  <2>1. /\ Upsert(j, "synced") /\ UNCHANGED <<advanced, user, instance, listed, allotted, given>>
        /\ job[j].todo # {}
    BY <1>20 DEF MarkSynced, JobInv, AtPcs
  <2>2. Rows'
    BY <2>1, <1>20, <1>1, UpsertTyped DEF Rows, NoRecords
  <2> QED
    BY <1>20, <2>2, RowStepTyped DEF MarkSynced, Pcs
<1>21. ASSUME MarkFailed(j) PROVE TypeOK'
  <2>1. /\ Upsert(j, "failed") /\ UNCHANGED <<advanced, user, instance, listed, allotted, given>>
        /\ job[j].todo # {}
    BY <1>21 DEF MarkFailed, JobInv, AtPcs
  <2>2. Rows'
    BY <2>1, <1>21, <1>1, UpsertTyped DEF Rows, NoRecords
  <2> QED
    BY <1>21, <2>2, RowStepTyped DEF MarkFailed, Pcs
<1>22. ASSUME WritePending(j) PROVE TypeOK'
  <2>1. CASE advanced
    <3>1. /\ Upsert(j, "pending") /\ job[j].todo # {}
          /\ UNCHANGED <<advanced, user, instance, listed, allotted, given>>
          /\ Goto(j, "view") \/ OnwardTo(j, "pushing")
      BY <1>22, <2>1 DEF WritePending
    <3>2. Rows'
      BY <3>1, <1>1, UpsertTyped DEF Rows, NoRecords
    <3>3. UNCHANGED <<account, world>>
      BY <1>22 DEF WritePending
    <3> QED
      BY <3>1, <3>2, <3>3, RowStepTyped DEF Pcs
  <2>2. CASE ~advanced
    BY <1>22, <2>2, QuietStepTyped DEF WritePending, db, Pcs
  <2> QED
    BY <2>1, <2>2
<1>23. ASSUME InsertInstance(j) PROVE TypeOK'
  <2>1. given'.key = given.key /\ given'.inst \in Nat /\ given.inst <= given'.inst
    BY <1>23, <1>1, <1>2 DEF InsertInstance, Given
  <2>2. Given'
    BY <1>23, <1>1, <1>2 DEF InsertInstance, Given
  <2>3. Rows'
    BY <1>23, <1>1, <1>2 DEF InsertInstance, Rows, Given, NoRecords
  <2>4. job \in JobType(given')
    BY <2>1, <1>1, <1>2 DEF Work, JobType
  <2>5. given' \in [key : Nat, inst : Nat] /\ Goto(j, "idle")
    BY <1>23, <2>2, <1>2 DEF InsertInstance, Given
  <2>6. Work'
    BY <2>4, <2>5, GotoTyped DEF Work, Pcs
  <2>7. History' /\ Server'
    BY <1>23, <2>1, <1>1, SameWorld DEF InsertInstance, Server
  <2> QED
    BY <2>2, <2>3, <2>6, <2>7, PartsNext
<1>24. ASSUME EnsureCredentials(j) PROVE TypeOK'
  <2>1. given'.inst = given.inst /\ given'.key \in Nat /\ given.key <= given'.key
    BY <1>24, <1>1, <1>2 DEF EnsureCredentials, MakeKey, Given
  <2>2. Given'
    BY <1>24, <1>1, <1>2 DEF EnsureCredentials, MakeKey, Given
  <2>3. Rows'
    BY <1>24, <1>1, <1>2 DEF EnsureCredentials, MakeKey, Rows, Given, NoRecords
  <2>4. job \in JobType(given')
    BY <2>1, <1>1, <1>2 DEF Work, JobType
  <2>5. given' \in [key : Nat, inst : Nat] /\ (Goto(j, "idle") \/ Goto(j, "targets"))
    BY <1>24, <2>2, <1>2 DEF EnsureCredentials, Given
  <2>6. Work'
    BY <2>4, <2>5, GotoTyped DEF Work, Pcs
  <2>7. account \in [Tags -> 0..given.key] /\ account' = account
    BY <1>24, <1>1 DEF EnsureCredentials, Server
  <2>8. Server'
    BY <2>1, <2>7, <1>2 DEF Server
  <2>9. History'
    BY <1>24, SameWorld DEF EnsureCredentials
  <2> QED
    BY <2>2, <2>3, <2>6, <2>8, <2>9, PartsNext
<1>25. ASSUME Removed(j) PROVE TypeOK'
  <2>1. History' /\ Server'
    BY <1>25, SameWorld, AccountsTyped DEF Removed, db
  <2> QED
    BY <1>25, <2>1, ServerStepTyped DEF Removed, Pcs
<1>26. ASSUME Added(j) PROVE TypeOK'
  <2>1. History' /\ Server'
    BY <1>26, SameWorld, AccountsTyped DEF Added, db
  <2> QED
    BY <1>26, <2>1, ServerStepTyped DEF Added, Pcs
<1>27. ASSUME Undone(j) PROVE TypeOK'
  <2>1. History' /\ Server'
    BY <1>27, SameWorld, AccountsTyped DEF Undone, db
  <2> QED
    BY <1>27, <2>1, ServerStepTyped DEF Undone, Pcs
<1>28. ASSUME Swept(j) PROVE TypeOK'
  <2>1. History' /\ Server'
    BY <1>28, SameWorld, AccountsTyped DEF Swept, db
  <2> QED
    BY <1>28, <2>1, ServerStepTyped DEF Swept, Pcs
<1>29. ASSUME ReadTargets(j) PROVE TypeOK'
  <2>1. PICK targets \in TargetSets :
          job' = [job EXCEPT ![j].inst = instance, ![j].todo = targets,
                    ![j].pc = IF job[j].op \in {"disable", "quota"} THEN "remove" ELSE "stale",
                    ![j].next = CASE job[j].op = "quota" -> "flag"
                                  [] job[j].op = "retry" -> "push"
                                  [] job[j].op \in {"enable", "regroup"} /\ targets # {} -> "push"
                                  [] OTHER -> "idle"]
    BY <1>29 DEF ReadTargets
  <2> DEFINE pc == IF job[j].op \in {"disable", "quota"} THEN "remove" ELSE "stale"
             next == CASE job[j].op = "quota" -> "flag"
                       [] job[j].op = "retry" -> "push"
                       [] job[j].op \in {"enable", "regroup"} /\ targets # {} -> "push"
                       [] OTHER -> "idle"
  <2>2. pc \in Pcs /\ next \in Pcs /\ targets \in SUBSET Tags /\ instance \in 0..given.inst
    BY <1>0, <1>1 DEF TargetSets, Rows
  <2>3. job' = [job EXCEPT ![j].inst = instance, ![j].todo = targets,
                           ![j].pc = pc, ![j].next = next]
    BY <2>1
  <2> HIDE DEF pc, next
  <2> DEFINE Row == [op : Ops, pc : Pcs, inst : 0..given.inst, todo : SUBSET Tags,
                     key : 0..given.key, next : Pcs]
             row == [job[j] EXCEPT !.inst = instance, !.todo = targets, !.pc = pc, !.next = next]
  <2>4. job' \in JobType(given)
    <3>1. job \in [Jobs -> Row]
      BY <1>1 DEF Work, JobType
    <3>2. row \in Row
      BY <2>2, <3>1
    <3>3. job' = [job EXCEPT ![j] = row]
      BY <2>3, <3>1
    <3> HIDE DEF Row, row
    <3>4. job' \in [Jobs -> Row]
      BY <3>1, <3>2, <3>3
    <3> QED
      BY <3>4 DEF Row, JobType
  <2>5. UNCHANGED <<db, account, world>>
    BY <1>29 DEF ReadTargets
  <2> QED
    BY <2>4, <2>5, SameWorld, SameDb, SameServer, PartsNext DEF Work, db
<1>30. ASSUME ReadStale(j) PROVE TypeOK'
  <2>1. PICK stale \in SUBSET DOMAIN records :
          job' = [job EXCEPT ![j].inst = instance, ![j].todo = stale, ![j].pc = "remove"]
    BY <1>30 DEF ReadStale
  <2>2. stale \in SUBSET Tags /\ instance \in 0..given.inst
    BY <1>1 DEF Rows
  <2>3. job' \in JobType(given)
    BY <1>0, <1>1, <1>2, <2>1, <2>2 DEF Work, JobType
  <2>4. UNCHANGED <<db, account, world>>
    BY <1>30 DEF ReadStale
  <2> QED
    BY <2>3, <2>4, SameWorld, SameDb, SameServer, PartsNext DEF Work, db
<1>31. ASSUME PushTargets(j) PROVE TypeOK'
  <2>1. PICK targets \in TargetSets :
          job' = [job EXCEPT ![j] = IF targets = {} THEN Idle
                    ELSE [@ EXCEPT !.inst = instance, !.todo = targets, !.pc = "creds"]]
    BY <1>31 DEF PushTargets
  <2>2. targets \in SUBSET Tags /\ instance \in 0..given.inst
    BY <1>1 DEF TargetSets, Rows
  <2>3. CASE targets = {}
    <3>1. Goto(j, "idle")
      BY <2>1, <2>3 DEF Goto
    <3> QED
      BY <3>1, <1>31, <1>0, QuietStepTyped DEF PushTargets
  <2>4. CASE targets # {}
    <3>1. job' = [job EXCEPT ![j] = [@ EXCEPT !.inst = instance, !.todo = targets, !.pc = "creds"]]
      BY <2>1, <2>4
    <3>2. job' \in JobType(given)
      BY <1>0, <1>1, <1>2, <2>2, <3>1 DEF Work, JobType
    <3>3. UNCHANGED <<db, account, world>>
      BY <1>31 DEF PushTargets
    <3> QED
      BY <3>2, <3>3, SameWorld, SameDb, SameServer, PartsNext DEF Work, db
  <2> QED
    BY <2>3, <2>4
<1>32. ASSUME ReadCredentials(j) PROVE TypeOK'
  <2>1. CASE user.key = 0
    <3>1. Goto(j, "idle")
      BY <1>32, <2>1 DEF Goto, ReadCredentials
    <3> QED
      BY <3>1, <1>32, <1>0, QuietStepTyped DEF ReadCredentials
  <2>2. CASE user.key # 0
    <3>1. job' = [job EXCEPT ![j] = [@ EXCEPT !.key = user.key, !.pc = "pushing"]]
      BY <1>32, <2>2 DEF ReadCredentials
    <3>2. job' \in JobType(given)
      <4>1. user.key \in 0..given.key
        BY <1>1 DEF Rows
      <4> QED
        BY <1>0, <1>1, <1>2, <4>1, <3>1 DEF Work, JobType
    <3>3. UNCHANGED <<db, account, world>>
      BY <1>32 DEF ReadCredentials
    <3> QED
      BY <3>2, <3>3, SameWorld, SameDb, SameServer, PartsNext DEF Work, db
  <2> QED
    BY <2>1, <2>2
<1>33. ASSUME OffClear(j) PROVE TypeOK'
  <2>1. Work'
    <3>1. /\ job' = [job EXCEPT ![j].todo = DOMAIN records, ![j].pc = "sweep"]
          /\ given' = given /\ DOMAIN records \in SUBSET Tags
      BY <1>33, <1>1 DEF OffClear, Rows
    <3>2. job' \in JobType(given)
      BY <1>0, <1>1, <1>2, <3>1 DEF Work, JobType
    <3> QED
      BY <3>1, <3>2 DEF Work
  <2>2. Rows'
    <3>1. /\ UNCHANGED <<advanced, given>> /\ instance' = 0 /\ listed' = FALSE /\ allotted' = {}
          /\ records' = NoRecords
          /\ user' = [status |-> user.status, exceeded |-> FALSE, key |-> 0]
      BY <1>33 DEF OffClear
    <3>2. /\ user' \in [status : {"active", "disabled", "gone"}, exceeded : BOOLEAN,
                      key : 0..given'.key]
          /\ advanced' \in BOOLEAN /\ instance' \in 0..given'.inst
          /\ listed' \in BOOLEAN /\ allotted' \subseteq Tags
      <4>1. 0 \in 0..given'.inst /\ 0 \in 0..given'.key /\ given' = given
        BY <3>1, <1>2
      <4>2. user' \in [status : {"active", "disabled", "gone"}, exceeded : BOOLEAN,
                       key : 0..given'.key]
        BY <3>1, <4>1, <1>1 DEF Rows
      <4>3. advanced' \in BOOLEAN /\ instance' \in 0..given'.inst
        BY <3>1, <4>1, <1>1 DEF Rows
      <4>4. listed' \in BOOLEAN /\ allotted' \subseteq Tags
        BY <3>1, <1>1 DEF Rows
      <4> QED
        BY <4>2, <4>3, <4>4
    <3>3. /\ DOMAIN records' \subseteq Tags
          /\ records' \in [DOMAIN records' -> {"pending", "synced", "failed"}]
          /\ (user'.status = "gone" \/ instance' = 0) => records' = NoRecords
      <4>1. CASE records' = NoRecords
        BY <4>1, EmptyRecords, Zenon
      <4>2. CASE records' # NoRecords
        BY <4>2, <3>1, <1>1 DEF Rows
      <4> QED
        BY <4>1, <4>2
    <3> QED
      BY <3>2, <3>3 DEF Rows
  <2>3. History' /\ Given' /\ Server'
    BY <1>33, <1>1, SameWorld DEF OffClear, Given, Server
  <2> QED
    BY <2>1, <2>2, <2>3, PartsNext
<1>34. ASSUME DropInstance(j) PROVE TypeOK'
  <2>1. UNCHANGED given /\ UNCHANGED <<account, world>>
    BY <1>34 DEF DropInstance
  <2>2. Rows'
    <3>1. /\ UNCHANGED <<advanced, given, user>>
          /\ \/ instance' = 0 /\ listed' = FALSE /\ allotted' = {} /\ records' = NoRecords
             \/ UNCHANGED <<instance, listed, allotted, records>>
      BY <1>34 DEF DropInstance
    <3>2. /\ user' \in [status : {"active", "disabled", "gone"}, exceeded : BOOLEAN,
                      key : 0..given'.key]
          /\ advanced' \in BOOLEAN /\ instance' \in 0..given'.inst
          /\ listed' \in BOOLEAN /\ allotted' \subseteq Tags
      <4>1. 0 \in 0..given'.inst /\ 0 \in 0..given'.key /\ given' = given
        BY <3>1, <1>2
      <4>2. user' \in [status : {"active", "disabled", "gone"}, exceeded : BOOLEAN,
                       key : 0..given'.key]
        BY <3>1, <4>1, <1>1 DEF Rows
      <4>3. advanced' \in BOOLEAN /\ instance' \in 0..given'.inst
        BY <3>1, <4>1, <1>1 DEF Rows
      <4>4. listed' \in BOOLEAN /\ allotted' \subseteq Tags
        BY <3>1, <1>1 DEF Rows
      <4> QED
        BY <4>2, <4>3, <4>4
    <3>3. /\ DOMAIN records' \subseteq Tags
          /\ records' \in [DOMAIN records' -> {"pending", "synced", "failed"}]
          /\ (user'.status = "gone" \/ instance' = 0) => records' = NoRecords
      <4>1. CASE records' = NoRecords
        BY <4>1, EmptyRecords, Zenon
      <4>2. CASE records' # NoRecords
        BY <4>2, <3>1, <1>1 DEF Rows
      <4> QED
        BY <4>1, <4>2
    <3> QED
      BY <3>2, <3>3 DEF Rows
  <2>3. CASE job[j].inst = instance
    <3> DEFINE todo == DOMAIN records \cup (IF user.status = "active" THEN allotted ELSE {})
    <3>0. todo \in SUBSET Tags
      BY <1>1 DEF Rows
    <3>1. job' = [job EXCEPT ![j].pc = "sweep", ![j].todo = todo]
      BY <1>34, <2>3 DEF DropInstance
    <3> HIDE DEF todo
    <3>2. job' \in JobType(given)
      BY <1>0, <1>1, <1>2, <3>0, <3>1 DEF Work, JobType
    <3>3. Work' /\ Given' /\ Server' /\ History'
      BY <2>1, <3>2, <1>1, SameWorld, SameServer DEF Work, Given
    <3> QED
      BY <2>2, <3>3, PartsNext
  <2>4. CASE job[j].inst # instance
    BY <1>34, <2>1, <2>2, <2>4, <1>0, RowStepTyped DEF DropInstance
  <2> QED
    BY <2>3, <2>4
<1> QED
  BY <1>3, <1>4, <1>5, <1>6, <1>7, <1>8, <1>9, <1>10, <1>11, <1>12, <1>13, <1>14, <1>15,
    <1>16, <1>17, <1>18, <1>19, <1>20, <1>21, <1>22, <1>23, <1>24, <1>25, <1>26, <1>27, <1>28,
    <1>29, <1>30, <1>31, <1>32, <1>33, <1>34 DEF JobStep

(* Faults and the switch keep the types.                                   *)
LEMMA FaultTyped ==
  ASSUME XrayAssumption, TypeOK, NEW j \in Jobs, RpcFails(j) \/ Abandon(j)
  PROVE  TypeOK'
<1>1. Given /\ History /\ Server /\ Rows /\ Work /\ MaxFaults \in Nat
  BY Parts DEF XrayAssumption
<1>2. {"idle", "complain", "failed", "sweep"} \subseteq Pcs
  BY DEF Pcs
<1>3. CASE RpcFails(j)
  <2>1. /\ faults < MaxFaults /\ faults' = faults + 1 /\ UNCHANGED <<db, starts>>
        /\ mishaps' = mishaps \cup {IF Insertable(j) THEN "rpc" ELSE "unrecorded"}
    BY <1>3 DEF RpcFails
  <2>2. History'
    BY <2>1, <1>1 DEF History, Mishaps
  <2>3. Server'
    <3>1. CASE UNCHANGED account
      BY <3>1, <2>1, <1>1 DEF Server, db
    <3>2. CASE account' = IF job[j].pc = "adding" THEN AddEffect(j) ELSE [account EXCEPT ![At(j)] = 0]
      BY <3>2, <2>1, AccountsTyped DEF db
    <3> QED
      BY <3>1, <3>2, <1>3 DEF RpcFails
  <2>4. PICK pc \in Pcs : Goto(j, pc) \/ OnwardTo(j, pc)
    BY <1>2, <1>3 DEF RpcFails, AfterFailure
  <2> QED
    BY <2>1, <2>2, <2>3, <2>4, ServerStepTyped
<1>4. CASE Abandon(j)
  <2>1. /\ faults < MaxFaults /\ faults' = faults + 1 /\ UNCHANGED <<db, account, starts>>
        /\ mishaps' = mishaps \cup {"crash"} \cup (IF Knows(j) THEN {"unrecorded"} ELSE {})
        /\ Goto(j, "idle")
    BY <1>4 DEF Abandon
  <2>2. History'
    BY <2>1, <1>1 DEF History, Mishaps
  <2>3. Server'
    BY <2>1, <1>1 DEF Server, db
  <2> QED
    BY <2>1, <2>2, <2>3, <1>2, ServerStepTyped
<1> QED
  BY <1>3, <1>4

LEMMA CrashTyped ==
  ASSUME XrayAssumption, TypeOK, Crash
  PROVE  TypeOK'
<1>1. Given /\ History /\ Server /\ Rows /\ Work /\ MaxFaults \in Nat
  BY Parts DEF XrayAssumption
<1>2. /\ faults < MaxFaults /\ faults' = faults + 1 /\ UNCHANGED <<db, account, starts>>
      /\ mishaps' \subseteq mishaps \cup {"crash", "uncleared", "unrecorded"}
      /\ job' = [j \in Jobs |-> Idle]
  BY DEF Crash
<1>3. History'
  <2>1. mishaps' \subseteq Mishaps
    BY <1>1, <1>2 DEF History, Mishaps
  <2>2. faults' \in 0..MaxFaults /\ starts' \in 0..MaxStarts
    BY <1>1, <1>2 DEF History
  <2> QED
    BY <2>1, <2>2 DEF History
<1>4. Given' /\ Rows' /\ Server'
  BY <1>1, <1>2, SameDb DEF Server, db
<1>5. Work'
  <2>1. 0 \in 0..given'.inst /\ 0 \in 0..given'.key
    BY <1>4 DEF Given, XrayAssumption
  <2> QED
    BY <2>1, <1>2 DEF Work, JobType, Idle, Ops, Pcs
<1> QED
  BY <1>3, <1>4, <1>5, PartsNext

LEMMA OnTyped ==
  ASSUME XrayAssumption, TypeOK, On
  PROVE  TypeOK'
BY DEF XrayAssumption, TypeOK, On, Mishaps

-----------------------------------------------------------------------------
(* The type invariant, for every value of the constants.                   *)

(* A goroutine's first steps are at no inbound and clear nothing.          *)
LEMMA RequestJobs ==
  ASSUME JobInv, job \in JobType(given), NEW j \in Jobs, Request(j)
  PROVE  JobInv'
<1>1. CASE UNCHANGED job
  BY <1>1 DEF JobInv
<1>2. ASSUME NEW op, NEW pc, NEW inst, NEW todo, Start(j, op, pc, inst, todo),
             pc \notin AtPcs, pc = "clear" => op = "clear"
      PROVE  JobInv'
  BY <1>2 DEF JobInv, JobType, Start
<1>3. /\ {"insert", "drop", "aim", "delete", "list", "reset", "clear"} \cap AtPcs = {}
      /\ "clear" \notin {"insert", "drop", "aim", "delete", "list", "reset"}
  BY DEF AtPcs
<1>4. \/ UNCHANGED job
      \/ \E op, inst, todo : \E pc \in {"insert", "drop", "aim", "delete", "list", "reset"} :
           Start(j, op, pc, inst, todo)
      \/ Start(j, "clear", "clear", 0, {})
  BY DEF Request, Off, Create, DeleteInstance, Enable, Disable, Delete, UpdateGroup, SetNodes,
         StartInit, RetryUser, CheckQuota, ResetQuota
<1> QED
  BY <1>1, <1>2, <1>3, <1>4

LEMMA GotoJobs ==
  ASSUME JobInv, job \in JobType(given), NEW j \in Jobs, NEW pc, Goto(j, pc), pc # "clear",
         pc \in AtPcs => job[j].todo # {}
  PROVE  JobInv'
BY DEF JobInv, JobType, Goto, Idle, AtPcs

LEMMA OnwardJobs ==
  ASSUME JobInv, job \in JobType(given), NEW j \in Jobs, NEW pc, OnwardTo(j, pc), pc # "clear",
         pc \notin AtPcs
  PROVE  JobInv'
BY DEF JobInv, JobType, OnwardTo

LEMMA StepJobs ==
  ASSUME TypeOK, JobInv, NEW j \in Jobs, JobStep(j)
  PROVE  JobInv'
<1>1. job \in JobType(given) /\ job[j].next \in {"idle", "flag", "push"}
  BY Parts DEF Work, JobInv
<1>2. job[j].pc \in AtPcs => job[j].todo # {}
  BY DEF JobInv
<1>3. ASSUME ListActive(j) PROVE JobInv'
  BY <1>3, <1>1, <1>2, GotoJobs DEF ListActive, AtPcs
<1>4. ASSUME RemoveEnter(j) PROVE JobInv'
  BY <1>4, <1>1, <1>2, GotoJobs DEF RemoveEnter, AtPcs, AfterRemoval
<1>5. ASSUME NoClient(j) PROVE JobInv'
  BY <1>5, <1>1, <1>2, OnwardJobs DEF NoClient, AtPcs
<1>6. ASSUME RemovalDone(j) PROVE JobInv'
  BY <1>6, <1>1, <1>2, GotoJobs DEF RemovalDone, AtPcs, AfterRemoval
<1>7. ASSUME PushEnter(j) PROVE JobInv'
  BY <1>7, <1>1, <1>2, GotoJobs DEF PushEnter, AtPcs
<1>8. ASSUME ReadStatus(j) PROVE JobInv'
  BY <1>8, <1>1, <1>2, GotoJobs DEF ReadStatus, AtPcs
<1>9. ASSUME ReadFlag(j) PROVE JobInv'
  BY <1>9, <1>1, <1>2, GotoJobs DEF ReadFlag, AtPcs
<1>10. ASSUME ReadNode(j) PROVE JobInv'
  BY <1>10, <1>1, <1>2, GotoJobs, OnwardJobs DEF ReadNode, AtPcs
<1>11. ASSUME Recheck(j) PROVE JobInv'
  BY <1>11, <1>1, <1>2, GotoJobs DEF Recheck, AtPcs
<1>12. ASSUME PushDone(j) PROVE JobInv'
  BY <1>12, <1>1, <1>2, GotoJobs DEF PushDone, AtPcs
<1>13. ASSUME SweepDone(j) PROVE JobInv'
  BY <1>13, <1>1, <1>2, GotoJobs DEF SweepDone, AtPcs
<1>14. ASSUME ClearFlag(j) PROVE JobInv'
  BY <1>14, <1>1, <1>2, GotoJobs DEF ClearFlag, AtPcs
<1>15. ASSUME DeleteRow(j) PROVE JobInv'
  BY <1>15, <1>1, <1>2, GotoJobs DEF DeleteRow, AtPcs
<1>16. ASSUME Forget(j) PROVE JobInv'
  BY <1>16, <1>1, <1>2, OnwardJobs DEF Forget, AtPcs
<1>17. ASSUME SetFlag(j) PROVE JobInv'
  BY <1>17, <1>1, <1>2, GotoJobs DEF SetFlag, AtPcs
<1>18. ASSUME WriteQuotaExceeded(j) PROVE JobInv'
  BY <1>18, <1>1, <1>2, GotoJobs DEF WriteQuotaExceeded, AtPcs
<1>19. ASSUME RemoveFailed(j) PROVE JobInv'
  BY <1>19, <1>1, <1>2, OnwardJobs DEF RemoveFailed, AtPcs
<1>20. ASSUME MarkSynced(j) PROVE JobInv'
  BY <1>20, <1>1, <1>2, OnwardJobs DEF MarkSynced, AtPcs
<1>21. ASSUME MarkFailed(j) PROVE JobInv'
  BY <1>21, <1>1, <1>2, OnwardJobs DEF MarkFailed, AtPcs
<1>22. ASSUME WritePending(j) PROVE JobInv'
  BY <1>22, <1>1, <1>2, GotoJobs, OnwardJobs DEF WritePending, AtPcs
<1>23. ASSUME InsertInstance(j) PROVE JobInv'
  BY <1>23, <1>1, <1>2, GotoJobs DEF InsertInstance, AtPcs
<1>24. ASSUME EnsureCredentials(j) PROVE JobInv'
  BY <1>24, <1>1, <1>2, GotoJobs DEF EnsureCredentials, AtPcs
<1>25. ASSUME Removed(j) PROVE JobInv'
  BY <1>25, <1>1, <1>2, GotoJobs DEF Removed, AtPcs
<1>26. ASSUME Added(j) PROVE JobInv'
  BY <1>26, <1>1, <1>2, GotoJobs DEF Added, AtPcs
<1>27. ASSUME Undone(j) PROVE JobInv'
  BY <1>27, <1>1, <1>2, GotoJobs DEF Undone, AtPcs
<1>28. ASSUME Swept(j) PROVE JobInv'
  BY <1>28, <1>1, <1>2, OnwardJobs DEF Swept, AtPcs
<1>29. ASSUME ReadTargets(j) PROVE JobInv'
  <2>1. \A k \in Jobs \ {j} : job'[k] = job[k]
    BY <1>29, <1>1 DEF ReadTargets, JobType
  <2>2. /\ job'[j].pc \in {"remove", "stale"}
        /\ job'[j].next \in {"idle", "flag", "push"}
    <3>1. PICK targets \in TargetSets :
            job' = [job EXCEPT ![j].inst = instance, ![j].todo = targets,
                      ![j].pc = IF job[j].op \in {"disable", "quota"} THEN "remove" ELSE "stale",
                      ![j].next = CASE job[j].op = "quota" -> "flag"
                                    [] job[j].op = "retry" -> "push"
                                    [] job[j].op \in {"enable", "regroup"} /\ targets # {} -> "push"
                                    [] OTHER -> "idle"]
      BY <1>29 DEF ReadTargets
    <3>2. job'[j].pc = IF job[j].op \in {"disable", "quota"} THEN "remove" ELSE "stale"
      BY <3>1, <1>1 DEF JobType
    <3>3. job'[j].next = CASE job[j].op = "quota" -> "flag"
                           [] job[j].op = "retry" -> "push"
                           [] job[j].op \in {"enable", "regroup"} /\ targets # {} -> "push"
                           [] OTHER -> "idle"
      BY <3>1, <1>1 DEF JobType
    <3> QED
      BY <3>2, <3>3
  <2> QED
    BY <2>1, <2>2, <1>2 DEF JobInv, AtPcs
<1>30. ASSUME ReadStale(j) PROVE JobInv'
  <2>1. \A k \in Jobs \ {j} : job'[k] = job[k]
    BY <1>30, <1>1 DEF ReadStale, JobType
  <2>2. job'[j].pc = "remove" /\ job'[j].next = job[j].next
    BY <1>30, <1>1 DEF ReadStale, JobType
  <2> QED
    BY <2>1, <2>2, <1>2 DEF JobInv, AtPcs
<1>31. ASSUME PushTargets(j) PROVE JobInv'
  BY <1>31, <1>1, <1>2 DEF PushTargets, JobInv, JobType, AtPcs, Idle
<1>32. ASSUME ReadCredentials(j) PROVE JobInv'
  BY <1>32, <1>1, <1>2 DEF ReadCredentials, JobInv, JobType, AtPcs, Idle
<1>33. ASSUME OffClear(j) PROVE JobInv'
  BY <1>33, <1>1, <1>2 DEF OffClear, JobInv, JobType, AtPcs
<1>34. ASSUME DropInstance(j) PROVE JobInv'
  BY <1>34, <1>1, <1>2 DEF DropInstance, JobInv, JobType, AtPcs, Goto, Idle
<1> QED
  BY <1>3, <1>4, <1>5, <1>6, <1>7, <1>8, <1>9, <1>10, <1>11, <1>12, <1>13, <1>14, <1>15,
    <1>16, <1>17, <1>18, <1>19, <1>20, <1>21, <1>22, <1>23, <1>24, <1>25, <1>26, <1>27, <1>28,
    <1>29, <1>30, <1>31, <1>32, <1>33, <1>34 DEF JobStep

LEMMA FaultJobs ==
  ASSUME TypeOK, JobInv, NEW j \in Jobs, RpcFails(j) \/ Abandon(j)
  PROVE  JobInv'
<1>1. job \in JobType(given)
  BY Parts DEF Work
<1>2. CASE RpcFails(j)
  <2>1. job[j].todo # {}
    BY <1>2 DEF RpcFails
  <2> QED
    BY <1>1, <1>2, <2>1, GotoJobs, OnwardJobs DEF RpcFails, AfterFailure, AtPcs
<1>3. CASE Abandon(j)
  BY <1>1, <1>3, GotoJobs DEF Abandon, AtPcs
<1> QED
  BY <1>2, <1>3

(* The types and the goroutines together are inductive.                    *)
LEMMA InitJobs ==
  ASSUME Init PROVE JobInv
BY DEF Init, JobInv, Idle, AtPcs

LEMMA NextTyped ==
  ASSUME XrayAssumption, TypeOK, JobInv, [Next]_vars
  PROVE  TypeOK' /\ JobInv'
<1>1. CASE On
  BY <1>1, OnTyped DEF On, JobInv
<1>2. CASE Crash
  BY <1>2, CrashTyped DEF Crash, JobInv, Idle, AtPcs
<1>3. ASSUME NEW j \in Jobs, Request(j) PROVE TypeOK' /\ JobInv'
  BY <1>3, RequestTyped, RequestJobs, Parts DEF Work
<1>4. ASSUME NEW j \in Jobs, JobStep(j) PROVE TypeOK' /\ JobInv'
  BY <1>4, JobStepTyped, StepJobs
<1>5. ASSUME NEW j \in Jobs, RpcFails(j) \/ Abandon(j) PROVE TypeOK' /\ JobInv'
  BY <1>5, FaultTyped, FaultJobs
<1>6. CASE UNCHANGED vars
  BY <1>6 DEF vars, TypeOK, JobInv
<1> QED
  BY <1>1, <1>2, <1>3, <1>4, <1>5, <1>6 DEF Next

(* Every variable has its type, and no push record outlives its user or    *)
(* its instance, however many goroutines are at work.                      *)
THEOREM Typed == Spec => []TypeOK
<1>1. Init => TypeOK /\ JobInv
  BY XrayAssumption, InitTyped, InitJobs
<1>2. (TypeOK /\ JobInv) /\ [Next]_vars => (TypeOK /\ JobInv)'
  BY XrayAssumption, NextTyped
<1> QED
  BY <1>1, <1>2, PTL DEF Spec

-----------------------------------------------------------------------------
(* What OFF has cleared stays cleared.  The invariant says why: after the  *)
(* clearing no goroutine that is about to write a record holds the number  *)
(* of an instance that is still there, so the foreign keys refuse it; and  *)
(* those that could get that far first look at the mode.                   *)

\* Where a goroutine writes a push record without another look at the mode.
Writers == {"removing", "forget", "complain", "view", "adding", "recheck", "undo", "synced", "failed"}

Cleared == ~advanced /\ (\A j \in Jobs : job[j].pc # "clear") /\ "uncleared" \notin mishaps
Unable(j) == job[j].pc \in Writers => instance = 0 \/ job[j].inst # instance
ClearedInv ==
  Cleared => user.key = 0 /\ records = NoRecords /\ \A j \in Jobs : Unable(j)

(* A step of one goroutine that brings nothing back.                       *)
LEMMA KeepsCleared ==
  ASSUME ClearedInv, NEW j \in Jobs, job[j].pc # "clear",
         advanced' = advanced, mishaps \subseteq mishaps',
         \A k \in Jobs \ {j} : job'[k] = job[k],
         ~advanced =>
           /\ instance' \in {0, instance} /\ user'.key \in {0, user.key}
           /\ records = NoRecords /\ Unable(j) => records' = NoRecords
           /\ job'[j].pc \in Writers => job[j].pc \in Writers /\ job'[j].inst = job[j].inst
  PROVE  ClearedInv'
<1>1. SUFFICES ASSUME Cleared' PROVE user'.key = 0 /\ records' = NoRecords /\ \A k \in Jobs : Unable(k)'
  BY DEF ClearedInv, NoRecords
<1>2. Cleared
  BY <1>1 DEF Cleared
<1>3. user.key = 0 /\ records = NoRecords /\ \A k \in Jobs : Unable(k)
  BY <1>2 DEF ClearedInv
<1>4. ~advanced
  BY <1>2 DEF Cleared
<1>5. user'.key = 0 /\ records' = NoRecords
  BY <1>3, <1>4
<1>6. ASSUME NEW k \in Jobs PROVE Unable(k)'
  BY <1>3, <1>4 DEF Unable
<1> QED
  BY <1>5, <1>6

(* How a goroutine moves.                                                  *)
LEMMA GotoMoves ==
  ASSUME job \in JobType(given), NEW j \in Jobs, NEW pc, Goto(j, pc)
  PROVE  /\ \A k \in Jobs \ {j} : job'[k] = job[k]
         /\ job'[j].pc = pc
         /\ pc # "idle" => job'[j].inst = job[j].inst
BY DEF JobType, Goto, Idle

LEMMA OnwardMoves ==
  ASSUME job \in JobType(given), NEW j \in Jobs, NEW pc, OnwardTo(j, pc)
  PROVE  /\ \A k \in Jobs \ {j} : job'[k] = job[k]
         /\ job'[j].pc = pc /\ job'[j].inst = job[j].inst
BY DEF JobType, OnwardTo

(* Moving on, with the rows of user, instance and records as they were.    *)
LEMMA MoveCleared ==
  ASSUME ClearedInv, job \in JobType(given), NEW j \in Jobs, job[j].pc # "clear",
         UNCHANGED <<advanced, user, instance, records>>, mishaps \subseteq mishaps',
         NEW pc, Goto(j, pc) \/ OnwardTo(j, pc),
         ~advanced /\ pc \in Writers => job[j].pc \in Writers
  PROVE  ClearedInv'
<1>1. \A k \in Jobs \ {j} : job'[k] = job[k]
  BY GotoMoves, OnwardMoves
<1>2. job'[j].pc = pc /\ (pc # "idle" => job'[j].inst = job[j].inst)
  BY GotoMoves, OnwardMoves
<1>3. "idle" \notin Writers
  BY DEF Writers
<1> QED
  BY <1>1, <1>2, <1>3, KeepsCleared

(* The foreign keys refuse the records of those that are too late.         *)
LEMMA UpsertCleared ==
  ASSUME NEW j \in Jobs, NEW status, job[j].pc \in Writers, Upsert(j, status),
         records = NoRecords, Unable(j)
  PROVE  records' = NoRecords
BY DEF Unable, Upsert, Insertable

LEMMA MarkCleared ==
  ASSUME ClearedInv, job \in JobType(given), NEW j \in Jobs, job[j].pc \in Writers,
         NEW status, Upsert(j, status), NEW pc, OnwardTo(j, pc),
         UNCHANGED <<advanced, user, instance, mishaps>>
  PROVE  ClearedInv'
<1>1. job[j].pc # "clear"
  BY DEF Writers
<1>2. /\ \A k \in Jobs \ {j} : job'[k] = job[k]
      /\ job'[j].inst = job[j].inst
  BY OnwardMoves
<1>3. records = NoRecords /\ Unable(j) => records' = NoRecords
  BY UpsertCleared
<1> QED
  BY <1>1, <1>2, <1>3, KeepsCleared

(* Beginning an operation brings nothing back.                             *)
LEMMA StartCleared ==
  ASSUME ClearedInv, job \in JobType(given), NEW j \in Jobs,
         NEW op, NEW pc, NEW inst, NEW todo, Start(j, op, pc, inst, todo), pc \notin Writers,
         UNCHANGED <<advanced, instance, records>>, user'.key = user.key
  PROVE  ClearedInv'
<1>1. job[j].pc # "clear"
  BY DEF Start, Alive
<1>2. /\ \A k \in Jobs \ {j} : job'[k] = job[k]
      /\ job'[j].pc = pc
  BY DEF Start, JobType
<1>3. mishaps \subseteq mishaps'
  BY DEF Start, Noted
<1> QED
  BY <1>1, <1>2, <1>3, KeepsCleared

LEMMA RequestCleared ==
  ASSUME ClearedInv, TypeOK, NEW j \in Jobs, Request(j)
  PROVE  ClearedInv'
<1>1. /\ job \in JobType(given)
      /\ user \in [status : {"active", "disabled", "gone"}, exceeded : BOOLEAN, key : 0..given.key]
  BY Parts DEF Work, Rows
<1>2. {"insert", "drop", "aim", "delete", "list", "reset"} \cap Writers = {}
  BY DEF Writers
<1>3. CASE Off(j)
  \* the clearing is under way
  <2>1. job'[j].pc = "clear"
    BY <1>3, <1>1 DEF Off, Start, JobType
  <2> QED
    BY <2>1 DEF ClearedInv, Cleared
<1>4. ASSUME NEW tags \in SUBSET Tags, SetNodes(j, tags) PROVE ClearedInv'
  \* only in advanced mode
  BY <1>4 DEF SetNodes, ClearedInv, Cleared
<1>5. CASE \/ Create(j) \/ DeleteInstance(j) \/ Enable(j) \/ Disable(j) \/ Delete(j)
           \/ \E tags \in SUBSET Tags : UpdateGroup(j, tags)
           \/ StartInit(j) \/ RetryUser(j) \/ CheckQuota(j) \/ ResetQuota(j)
  <2>1. /\ UNCHANGED <<advanced, instance, records>>
        /\ user' = user \/ \E status : user' = [user EXCEPT !.status = status]
        /\ \E op, inst, todo : \E pc \in {"insert", "drop", "aim", "delete", "list", "reset"} :
             Start(j, op, pc, inst, todo)
    BY <1>5 DEF Create, DeleteInstance, Enable, Disable, Delete, UpdateGroup, StartInit,
                RetryUser, CheckQuota, ResetQuota, db
  <2>2. user'.key = user.key
    BY <2>1, <1>1
  <2> QED
    BY <2>1, <2>2, <1>1, <1>2, StartCleared
<1> QED
  BY <1>3, <1>4, <1>5 DEF Request

(* A goroutine's steps bring nothing back either.                          *)
LEMMA StepCleared ==
  ASSUME XrayAssumption, ClearedInv, TypeOK, JobInv, NEW j \in Jobs, JobStep(j)
  PROVE  ClearedInv'
<1>1. /\ job \in JobType(given)
      /\ user \in [status : {"active", "disabled", "gone"}, exceeded : BOOLEAN, key : 0..given.key]
  BY Parts DEF Work, Rows
<1>2. job[j].next \in {"idle", "flag", "push"} /\ {"idle", "flag", "push"} \cap Writers = {}
  BY DEF JobInv, Writers
<1>3. CASE \/ ListActive(j) \/ NoClient(j) \/ RemovalDone(j)
           \/ PushEnter(j) \/ ReadStatus(j) \/ ReadFlag(j) \/ PushDone(j)
           \/ Removed(j) \/ ReadNode(j) \/ Added(j) \/ Recheck(j) \/ Undone(j)
           \/ Swept(j) \/ SweepDone(j)
  <2>1. UNCHANGED <<advanced, user, instance, records, mishaps>> /\ job[j].pc # "clear"
    BY <1>3 DEF ListActive, NoClient, RemovalDone, PushEnter, ReadStatus, ReadFlag, PushDone,
         Removed, ReadNode, Added, Recheck, Undone, Swept, SweepDone, db, world
  <2>2. \E pc : (Goto(j, pc) \/ OnwardTo(j, pc)) /\ (pc \in Writers => job[j].pc \in Writers)
    <3>1. CASE \/ ListActive(j) \/ PushEnter(j) \/ ReadStatus(j) \/ ReadFlag(j) \/ PushDone(j)
               \/ Swept(j) \/ SweepDone(j)
      BY <3>1 DEF ListActive, PushEnter, ReadStatus, ReadFlag, PushDone, Swept, SweepDone, Writers
    <3>2. CASE RemovalDone(j)
      BY <3>2, <1>2 DEF RemovalDone, AfterRemoval
    <3>3. CASE NoClient(j) \/ Removed(j) \/ ReadNode(j) \/ Added(j) \/ Recheck(j) \/ Undone(j)
      BY <3>3 DEF NoClient, Removed, ReadNode, Added, Recheck, Undone, Writers
    <3> QED
      BY <1>3, <3>1, <3>2, <3>3
  <2> QED
    BY <2>1, <2>2, <1>1, MoveCleared
<1>4. CASE RemoveEnter(j)
  \* "removing" only in advanced mode
  <2>1. UNCHANGED <<advanced, user, instance, records, mishaps>> /\ job[j].pc # "clear"
    BY <1>4 DEF RemoveEnter, db, world
  <2>2. \E pc : Goto(j, pc) /\ (~advanced => pc \notin Writers)
    BY <1>4, <1>2 DEF RemoveEnter, AfterRemoval
  <2> QED
    BY <2>1, <2>2, <1>1, MoveCleared
<1>5. CASE RemoveFailed(j) \/ MarkSynced(j) \/ MarkFailed(j)
  BY <1>5, <1>1, MarkCleared DEF RemoveFailed, MarkSynced, MarkFailed, Writers, world
<1>6. CASE ClearFlag(j) \/ SetFlag(j)
  <2>1. /\ UNCHANGED <<advanced, instance, records, mishaps>> /\ job[j].pc # "clear"
        /\ \E flag : user' = [user EXCEPT !.exceeded = flag]
        /\ Goto(j, "push") \/ Goto(j, "idle")
    BY <1>6 DEF ClearFlag, SetFlag, world
  <2>2. user'.key = user.key
    BY <2>1, <1>1
  <2>3. (\A k \in Jobs \ {j} : job'[k] = job[k]) /\ job'[j].pc \in {"push", "idle"}
    BY <2>1, <1>1, GotoMoves
  <2> QED
    BY <2>1, <2>2, <2>3, <1>2, KeepsCleared
<1>7. CASE DeleteRow(j)
  <2>1. /\ UNCHANGED <<advanced, instance, mishaps>> /\ job[j].pc # "clear"
        /\ user'.key = 0 /\ records' = NoRecords
        /\ Goto(j, "remove") \/ Goto(j, "idle")
    BY <1>7 DEF DeleteRow, world
  <2>2. (\A k \in Jobs \ {j} : job'[k] = job[k]) /\ job'[j].pc \notin Writers
    BY <2>1, <1>1, GotoMoves DEF Writers
  <2> QED
    BY <2>1, <2>2, KeepsCleared
<1>8. CASE Forget(j) \/ WriteQuotaExceeded(j)
  <2>1. /\ UNCHANGED <<advanced, user, instance, mishaps>> /\ job[j].pc # "clear"
        /\ \/ OnwardTo(j, "removing") /\ job[j].pc = "forget"
           \/ Goto(j, "idle")
    BY <1>8 DEF Forget, WriteQuotaExceeded, world
  <2>2. records = NoRecords => records' = NoRecords
    BY <1>8 DEF Forget, WriteQuotaExceeded, NoRecords
  <2>3. /\ \A k \in Jobs \ {j} : job'[k] = job[k]
        /\ job'[j].pc \in Writers => job[j].pc \in Writers /\ job'[j].inst = job[j].inst
    BY <2>1, <1>1, <1>2, GotoMoves, OnwardMoves DEF Writers
  <2> QED
    BY <2>1, <2>2, <2>3, KeepsCleared
<1>9. CASE WritePending(j) \/ EnsureCredentials(j)
  \* the mode is read in the transaction that writes
  <2>1. CASE advanced
    BY <1>9, <2>1 DEF WritePending, EnsureCredentials, ClearedInv, Cleared
  <2>2. CASE ~advanced
    <3>1. /\ UNCHANGED <<advanced, user, instance, records, mishaps>> /\ job[j].pc # "clear"
          /\ Goto(j, "idle")
      BY <1>9, <2>2 DEF WritePending, EnsureCredentials, world
    <3> QED
      BY <3>1, <1>1, <1>2, MoveCleared
  <2> QED
    BY <2>1, <2>2
<1>10. CASE ReadTargets(j) \/ ReadStale(j) \/ PushTargets(j) \/ ReadCredentials(j)
  <2>1. /\ UNCHANGED <<advanced, user, instance, records, mishaps>> /\ job[j].pc # "clear"
    BY <1>10 DEF ReadTargets, ReadStale, PushTargets, ReadCredentials, db, world
  <2>2. \A k \in Jobs \ {j} : job'[k] = job[k]
    BY <1>10, <1>1 DEF ReadTargets, ReadStale, PushTargets, ReadCredentials, JobType
  <2>3. job'[j].pc \in {"remove", "stale", "idle", "creds", "pushing"}
    <3>1. CASE ReadTargets(j)
      BY <3>1, <1>1 DEF ReadTargets, JobType
    <3>2. CASE ReadStale(j)
      BY <3>2, <1>1 DEF ReadStale, JobType
    <3>3. CASE PushTargets(j)
      BY <3>3, <1>1 DEF PushTargets, JobType, Idle
    <3>4. CASE ReadCredentials(j)
      BY <3>4, <1>1 DEF ReadCredentials, JobType, Idle
    <3> QED
      BY <1>10, <3>1, <3>2, <3>3, <3>4
  <2> QED
    BY <2>1, <2>2, <2>3, KeepsCleared DEF Writers
<1>11. CASE InsertInstance(j)
  \* a new instance has a number that no goroutine holds
  <2>1. /\ UNCHANGED <<advanced, user, records, mishaps>> /\ job[j].pc = "insert"
        /\ instance' \in {instance, given.inst + 1}
        /\ Goto(j, "idle")
    BY <1>11 DEF InsertInstance, world
  <2>2. (\A k \in Jobs \ {j} : job'[k] = job[k]) /\ job'[j].pc = "idle"
    BY <2>1, <1>1, GotoMoves
  <2>3. \A k \in Jobs : job[k].inst # given.inst + 1
    BY Parts, <1>1 DEF JobType, Given, XrayAssumption
  <2>4. SUFFICES ASSUME Cleared'
                 PROVE  user'.key = 0 /\ records' = NoRecords /\ \A k \in Jobs : Unable(k)'
    BY DEF ClearedInv, NoRecords
  <2>5. Cleared
    BY <2>1, <2>2, <2>4 DEF Cleared
  <2> QED
    BY <2>1, <2>2, <2>3, <2>5, <1>2 DEF ClearedInv, Unable
<1>12. CASE OffClear(j)
  <2>1. user'.key = 0 /\ records' = NoRecords /\ instance' = 0
    BY <1>12 DEF OffClear
  <2> QED
    BY <2>1 DEF ClearedInv, Unable, NoRecords
<1>13. CASE DropInstance(j)
  <2>1. /\ UNCHANGED <<advanced, user, mishaps>> /\ job[j].pc # "clear"
        /\ instance' \in {0, instance} /\ records' \in {NoRecords, records}
    BY <1>13 DEF DropInstance, world
  <2>2. (\A k \in Jobs \ {j} : job'[k] = job[k]) /\ job'[j].pc \in {"sweep", "idle"}
    BY <1>13, <1>1 DEF DropInstance, JobType, Goto, Idle
  <2> QED
    BY <2>1, <2>2, KeepsCleared DEF Writers
<1> QED
  BY <1>3, <1>4, <1>5, <1>6, <1>7, <1>8, <1>9, <1>10, <1>11, <1>12, <1>13 DEF JobStep

(* Faults bring nothing back, or are on record.                            *)
LEMMA FaultCleared ==
  ASSUME ClearedInv, TypeOK, JobInv, NEW j \in Jobs, RpcFails(j) \/ Abandon(j)
  PROVE  ClearedInv'
<1>1. job \in JobType(given)
  BY Parts DEF Work
<1>2. /\ UNCHANGED <<advanced, user, instance, records>> /\ mishaps \subseteq mishaps'
      /\ job[j].pc # "clear"
  BY DEF RpcFails, Abandon, db, JobInv
<1>3. \E pc : (Goto(j, pc) \/ OnwardTo(j, pc)) /\ (pc \in Writers => job[j].pc \in Writers)
  BY DEF RpcFails, Abandon, AfterFailure, Writers
<1> QED
  BY <1>1, <1>2, <1>3, MoveCleared

LEMMA CrashCleared ==
  ASSUME ClearedInv, Crash
  PROVE  ClearedInv'
<1>1. /\ UNCHANGED <<advanced, user, instance, records>> /\ mishaps \subseteq mishaps'
      /\ \A k \in Jobs : job'[k].pc = "idle"
      /\ (\E k \in Jobs : job[k].pc = "clear") => "uncleared" \in mishaps'
  BY DEF Crash, db, Idle
<1>2. SUFFICES ASSUME Cleared'
               PROVE  user'.key = 0 /\ records' = NoRecords /\ \A k \in Jobs : Unable(k)'
  BY DEF ClearedInv, NoRecords
<1>3. Cleared
  BY <1>1, <1>2 DEF Cleared
<1> QED
  BY <1>1, <1>3 DEF ClearedInv, Unable, Writers

LEMMA InitCleared ==
  ASSUME Init PROVE ClearedInv
<1>1. \A j \in Jobs : job[j].pc = "idle"
  BY DEF Init, Idle
<1>2. ~advanced => user.key = 0 /\ records = NoRecords
  BY DEF Init, NoRecords
<1> QED
  BY <1>1, <1>2 DEF ClearedInv, Cleared, Unable, Writers

LEMMA NextCleared ==
  ASSUME XrayAssumption, ClearedInv, TypeOK, JobInv, [Next]_vars
  PROVE  ClearedInv'
<1>1. CASE On
  BY <1>1 DEF On, ClearedInv, Cleared
<1>2. CASE Crash
  BY <1>2, CrashCleared
<1>3. CASE \E j \in Jobs : Request(j) \/ JobStep(j) \/ RpcFails(j) \/ Abandon(j)
  BY <1>3, RequestCleared, StepCleared, FaultCleared
<1>4. CASE UNCHANGED vars
  BY <1>4 DEF vars, ClearedInv, Cleared, Unable, NoRecords
<1> QED
  BY <1>1, <1>2, <1>3, <1>4 DEF Next

(* Once OFF has cleared the database, no goroutine that was in flight, in  *)
(* however many steps and with however many others, writes credentials or  *)
(* push records back.                                                      *)
THEOREM NothingComesBack == Spec => []ClearedStaysCleared
<1>1. Init => TypeOK /\ JobInv /\ ClearedInv
  BY XrayAssumption, InitTyped, InitJobs, InitCleared
<1>2. (TypeOK /\ JobInv /\ ClearedInv) /\ [Next]_vars => (TypeOK /\ JobInv /\ ClearedInv)'
  BY XrayAssumption, NextTyped, NextCleared
<1>3. ClearedInv => ClearedStaysCleared
  BY DEF ClearedInv, Cleared, ClearedStaysCleared
<1> QED
  BY <1>1, <1>2, <1>3, PTL DEF Spec

-----------------------------------------------------------------------------
(* How a goroutine's row changes: it goes on, it passes an inbound, it     *)
(* ends, or it begins.                                                     *)
Others(j) == \A k \in Jobs \ {j} : job'[k] = job[k]
Keeps(j, pc) ==
  /\ Others(j) /\ job'[j].pc = pc /\ job'[j].op = job[j].op
  /\ job'[j].inst = job[j].inst /\ job'[j].key = job[j].key /\ job'[j].next = job[j].next
Goes(j, pc) == Keeps(j, pc) /\ job'[j].todo = job[j].todo
Passes(j, pc) == Keeps(j, pc) /\ job'[j].todo = job[j].todo \ {Min(job[j].todo)}
Ends(j) == Others(j) /\ job'[j] = Idle

LEMMA Going ==
  ASSUME job \in JobType(given), NEW j \in Jobs, NEW pc, pc # "idle", Goto(j, pc)
  PROVE  Goes(j, pc)
BY DEF JobType, Goto, Goes, Keeps, Others

LEMMA Ending ==
  ASSUME job \in JobType(given), NEW j \in Jobs, Goto(j, "idle")
  PROVE  Ends(j)
BY DEF JobType, Goto, Ends, Others

LEMMA Passing ==
  ASSUME job \in JobType(given), NEW j \in Jobs, NEW pc, OnwardTo(j, pc)
  PROVE  Passes(j, pc)
BY DEF JobType, OnwardTo, Passes, Keeps, Others

Begins(j, op, pc, inst, todo) ==
  /\ Others(j) /\ ~Alive(j) /\ mishaps' = Noted(op) /\ account' = account
  /\ job'[j] = [op |-> op, pc |-> pc, inst |-> inst, todo |-> todo, key |-> 0, next |-> "idle"]

LEMMA Beginning ==
  ASSUME job \in JobType(given), NEW j \in Jobs, NEW op, NEW pc, NEW inst, NEW todo,
         Start(j, op, pc, inst, todo)
  PROVE  Begins(j, op, pc, inst, todo)
BY DEF JobType, Start, Begins, Others

(* The steps that write more of the row.                                   *)
LEMMA Aiming ==
  ASSUME job \in JobType(given), NEW j \in Jobs, ReadTargets(j)
  PROVE  /\ Others(j) /\ job[j].pc = "aim" /\ UNCHANGED <<db, account, world>>
         /\ job'[j].op = job[j].op /\ job'[j].inst = instance /\ job'[j].todo \in TargetSets
         /\ job'[j].pc = IF job[j].op \in {"disable", "quota"} THEN "remove" ELSE "stale"
         /\ job'[j].next = CASE job[j].op = "quota" -> "flag"
                             [] job[j].op = "retry" -> "push"
                             [] job[j].op \in {"enable", "regroup"} /\ job'[j].todo # {} -> "push"
                             [] OTHER -> "idle"
<1>1. PICK targets \in TargetSets :
        job' = [job EXCEPT ![j].inst = instance, ![j].todo = targets,
                  ![j].pc = IF job[j].op \in {"disable", "quota"} THEN "remove" ELSE "stale",
                  ![j].next = CASE job[j].op = "quota" -> "flag"
                                [] job[j].op = "retry" -> "push"
                                [] job[j].op \in {"enable", "regroup"} /\ targets # {} -> "push"
                                [] OTHER -> "idle"]
  BY DEF ReadTargets
<1>2. job[j].pc = "aim" /\ UNCHANGED <<db, account, world>>
  BY DEF ReadTargets
<1>3. Others(j) /\ job'[j].op = job[j].op
  BY <1>1 DEF JobType, Others
<1>4. job'[j].inst = instance /\ job'[j].todo = targets
  BY <1>1 DEF JobType
<1>5. job'[j].pc = IF job[j].op \in {"disable", "quota"} THEN "remove" ELSE "stale"
  BY <1>1 DEF JobType
<1>6. job'[j].next = CASE job[j].op = "quota" -> "flag"
                       [] job[j].op = "retry" -> "push"
                       [] job[j].op \in {"enable", "regroup"} /\ targets # {} -> "push"
                       [] OTHER -> "idle"
  BY <1>1 DEF JobType
<1> QED
  BY <1>2, <1>3, <1>4, <1>5, <1>6

LEMMA Sorting ==
  ASSUME job \in JobType(given), NEW j \in Jobs, ReadStale(j)
  PROVE  /\ Others(j) /\ job[j].pc = "stale" /\ UNCHANGED <<db, account, world>>
         /\ job'[j].op = job[j].op /\ job'[j].inst = instance /\ job'[j].next = job[j].next
         /\ job'[j].pc = "remove"
         /\ job'[j].todo = {t \in DOMAIN records \ (IF job[j].inst = instance THEN job[j].todo ELSE {}) :
                              job[j].op = "retry" => records[t] = "failed"}
BY DEF ReadStale, JobType, Others

LEMMA Targeting ==
  ASSUME job \in JobType(given), NEW j \in Jobs, PushTargets(j)
  PROVE  /\ job[j].pc = "targets" /\ UNCHANGED <<db, account, world>>
         /\ \/ Ends(j) /\ {} \in TargetSets
            \/ /\ Others(j) /\ job'[j].op = job[j].op /\ job'[j].inst = instance
               /\ job'[j].todo \in TargetSets /\ job'[j].pc = "creds"
               /\ job'[j].next = job[j].next
<1>1. PICK targets \in TargetSets :
       job' = [job EXCEPT ![j] = IF targets = {} THEN Idle
                                 ELSE [@ EXCEPT !.inst = instance, !.todo = targets, !.pc = "creds"]]
  BY DEF PushTargets
<1>2. job[j].pc = "targets" /\ UNCHANGED <<db, account, world>>
  BY DEF PushTargets
<1>3. CASE targets = {}
  BY <1>1, <1>2, <1>3 DEF JobType, Ends, Others
<1>4. CASE targets # {}
  BY <1>1, <1>2, <1>4 DEF JobType, Others
<1> QED
  BY <1>3, <1>4

LEMMA Reading ==
  ASSUME job \in JobType(given), NEW j \in Jobs, ReadCredentials(j)
  PROVE  /\ job[j].pc = "creds" /\ UNCHANGED <<db, account, world>>
         /\ \/ Ends(j) /\ user.key = 0
            \/ /\ Others(j) /\ job'[j].op = job[j].op /\ job'[j].inst = job[j].inst
               /\ job'[j].todo = job[j].todo /\ job'[j].next = job[j].next
               /\ job'[j].pc = "pushing" /\ user.key # 0 /\ job'[j].key = user.key
BY DEF ReadCredentials, JobType, Ends, Others

LEMMA Clearing ==
  ASSUME job \in JobType(given), NEW j \in Jobs, OffClear(j)
  PROVE  /\ job[j].pc = "clear" /\ Keeps(j, "sweep") /\ job'[j].todo = DOMAIN records
         /\ instance' = 0 /\ listed' = FALSE /\ allotted' = {} /\ records' = NoRecords
         /\ user'.status = user.status /\ user'.exceeded = FALSE /\ user'.key = 0
         /\ UNCHANGED <<advanced, given, account, world>>
BY DEF OffClear, JobType, Keeps, Others

LEMMA Dropping ==
  ASSUME job \in JobType(given), NEW j \in Jobs, DropInstance(j)
  PROVE  /\ job[j].pc = "drop" /\ UNCHANGED <<advanced, user, given, account, world>>
         /\ \/ /\ Keeps(j, "sweep") /\ job[j].inst = instance
               /\ job'[j].todo = DOMAIN records \cup (IF user.status = "active" THEN allotted ELSE {})
               /\ instance' = 0 /\ listed' = FALSE /\ allotted' = {} /\ records' = NoRecords
            \/ Ends(j) /\ UNCHANGED <<instance, listed, allotted, records>>
<1>1. job[j].pc = "drop" /\ UNCHANGED <<advanced, user, given, account, world>>
  BY DEF DropInstance
<1>2. CASE job[j].inst = instance
  BY <1>1, <1>2 DEF DropInstance, JobType, Keeps, Others
<1>3. CASE job[j].inst # instance
  BY <1>1, <1>3, Ending DEF DropInstance
<1> QED
  BY <1>2, <1>3

LEMMA Continuing ==
  ASSUME job \in JobType(given), JobInv, NEW j \in Jobs, JobStep(j)
  PROVE  /\ Others(j) /\ Alive(j) /\ UNCHANGED <<advanced, mishaps>>
         /\ Ends(j) \/ (job'[j].op = job[j].op /\ job'[j].pc # "idle")
<1>1. UNCHANGED <<advanced, mishaps>> /\ Alive(j)
  BY DEF JobStep, Alive, db, world, InsertInstance, ListActive, ClearFlag, DeleteRow, ReadTargets,
     ReadStale,
     RemoveEnter, Removed, NoClient, Forget, RemoveFailed, RemovalDone, SetFlag, PushEnter,
     ReadStatus, ReadFlag, WriteQuotaExceeded, EnsureCredentials, PushTargets, ReadCredentials,
     WritePending, ReadNode, Added, Recheck, Undone, MarkSynced, MarkFailed, PushDone, OffClear,
     DropInstance, Swept, SweepDone
<1>2. \/ \E pc : Goto(j, pc)
      \/ \E pc : OnwardTo(j, pc) /\ pc # "idle"
      \/ ReadTargets(j) \/ ReadStale(j) \/ PushTargets(j) \/ ReadCredentials(j) \/ OffClear(j)
      \/ DropInstance(j)
  BY DEF JobStep, AfterRemoval, InsertInstance, ListActive, ClearFlag, DeleteRow,
     RemoveEnter, Removed, NoClient, Forget, RemoveFailed, RemovalDone, SetFlag, PushEnter,
     ReadStatus, ReadFlag, WriteQuotaExceeded, EnsureCredentials,
     WritePending, ReadNode, Added, Recheck, Undone, MarkSynced, MarkFailed, PushDone,
     Swept, SweepDone
<1>3. CASE \E pc : Goto(j, pc)
  BY <1>1, <1>3, Going, Ending DEF Goes, Keeps, Ends
<1>4. CASE \E pc : OnwardTo(j, pc) /\ pc # "idle"
  BY <1>1, <1>4, Passing DEF Passes, Keeps
<1>5. CASE \/ ReadTargets(j) \/ ReadStale(j) \/ PushTargets(j) \/ ReadCredentials(j)
           \/ OffClear(j) \/ DropInstance(j)
  BY <1>1, <1>5, Aiming, Sorting, Targeting, Reading, Clearing, Dropping DEF Keeps, Ends
<1> QED
  BY <1>1, <1>2, <1>3, <1>4, <1>5

-----------------------------------------------------------------------------
(* What operation a goroutine at a given place has, and where it goes on   *)
(* from there.                                                             *)
Removal == {"remove", "removing", "forget", "complain"}
Marking == {"view", "adding", "recheck", "undo", "synced", "failed"}
Adding == {"creds", "pushing"} \cup Marking
Granting == {"ensure", "targets"} \cup Adding
Pushing == {"push", "who", "limit", "blame"} \cup Granting
Targeted == {"enable", "regroup", "retry"}

Course(r) ==
  /\ r.pc = "idle" <=> r.op = "none"
  /\ r.pc = "insert" => r.op = "create"
  /\ r.pc = "drop" => r.op = "drop"
  /\ r.pc = "clear" => r.op = "clear"
  /\ r.pc = "sweep" => r.op \in {"clear", "drop"}
  /\ r.pc = "delete" => r.op = "delete"
  /\ r.pc = "list" => r.op = "init"
  /\ r.pc = "reset" => r.op = "reset"
  /\ r.pc = "flag" => r.op = "quota"
  /\ r.pc = "aim" => r.op \in Targeted \cup {"disable", "quota"}
  /\ r.pc = "stale" => r.op \in Targeted
  /\ r.pc \in Removal => r.op \in Targeted \cup {"disable", "quota", "delete"}
  /\ r.pc \in Pushing => r.op \in Targeted \cup {"init", "reset"}
  /\ r.pc \in {"stale"} \cup Removal =>
       /\ r.op = "quota" => r.next = "flag"
       /\ r.op = "retry" => r.next = "push"
       /\ r.op \in {"disable", "delete"} => r.next = "idle"
       /\ r.op \in {"enable", "regroup"} => r.next \in {"idle", "push"}
  /\ r.op = "clear" => r.inst = 0
  /\ r.op = "delete" => r.next = "idle"
CourseInv == \A j \in Jobs : Course(job[j])

LEMMA CourseKept ==
  ASSUME CourseInv, NEW j \in Jobs, Others(j), Course(job'[j])
  PROVE  CourseInv'
BY DEF CourseInv, Others

LEMMA IdleCourse == Course(Idle)
BY DEF Course, Idle, Removal, Pushing, Granting, Adding, Marking

LEMMA StepCourse ==
  ASSUME TypeOK, CourseInv, NEW j \in Jobs, JobStep(j)
  PROVE  CourseInv'
<1>1. job \in JobType(given) /\ Course(job[j])
  BY Parts DEF Work, CourseInv
<1>2. ASSUME Ends(j) PROVE CourseInv'
  BY <1>2, CourseKept, IdleCourse DEF Ends
<1>4. ASSUME InsertInstance(j) PROVE CourseInv'
  BY <1>1, <1>2, <1>4, Going, Ending, Passing, CourseKept DEF InsertInstance, Passes, Goes, Keeps,
     Course, Removal, Pushing, Granting, Adding, Marking, Targeted
<1>5. ASSUME ListActive(j) PROVE CourseInv'
  BY <1>1, <1>2, <1>5, Going, Ending, Passing, CourseKept DEF ListActive, Passes, Goes, Keeps,
     Course, Removal, Pushing, Granting, Adding, Marking, Targeted
<1>6. ASSUME ClearFlag(j) PROVE CourseInv'
  BY <1>1, <1>2, <1>6, Going, Ending, Passing, CourseKept DEF ClearFlag, Passes, Goes, Keeps,
     Course, Removal, Pushing, Granting, Adding, Marking, Targeted
<1>7. ASSUME DeleteRow(j) PROVE CourseInv'
  BY <1>1, <1>2, <1>7, Going, Ending, Passing, CourseKept DEF DeleteRow, Passes, Goes, Keeps,
     Course, Removal, Pushing, Granting, Adding, Marking, Targeted
<1>8. ASSUME ReadTargets(j) PROVE CourseInv'
  BY <1>1, <1>2, <1>8, Aiming, CourseKept DEF Goes, Keeps, Course, Removal, Pushing, Granting,
     Adding, Marking, Targeted
<1>9. ASSUME ReadStale(j) PROVE CourseInv'
  BY <1>1, <1>2, <1>9, Sorting, CourseKept DEF Goes, Keeps, Course, Removal, Pushing, Granting,
     Adding, Marking, Targeted
<1>10. ASSUME RemoveEnter(j) PROVE CourseInv'
  BY <1>1, <1>2, <1>10, Going, Ending, Passing, CourseKept DEF RemoveEnter, AfterRemoval, Passes,
     Goes, Keeps, Course, Removal, Pushing, Granting, Adding, Marking, Targeted
<1>11. ASSUME Removed(j) PROVE CourseInv'
  BY <1>1, <1>2, <1>11, Going, Ending, Passing, CourseKept DEF Removed, Passes, Goes, Keeps, Course,
     Removal, Pushing, Granting, Adding, Marking, Targeted
<1>12. ASSUME NoClient(j) PROVE CourseInv'
  BY <1>1, <1>2, <1>12, Going, Ending, Passing, CourseKept DEF NoClient, Passes, Goes, Keeps,
     Course, Removal, Pushing, Granting, Adding, Marking, Targeted
<1>13. ASSUME Forget(j) PROVE CourseInv'
  BY <1>1, <1>2, <1>13, Going, Ending, Passing, CourseKept DEF Forget, Passes, Goes, Keeps, Course,
     Removal, Pushing, Granting, Adding, Marking, Targeted
<1>14. ASSUME RemoveFailed(j) PROVE CourseInv'
  BY <1>1, <1>2, <1>14, Going, Ending, Passing, CourseKept DEF RemoveFailed, Passes, Goes, Keeps,
     Course, Removal, Pushing, Granting, Adding, Marking, Targeted
<1>15. ASSUME RemovalDone(j) PROVE CourseInv'
  BY <1>1, <1>2, <1>15, Going, Ending, Passing, CourseKept DEF RemovalDone, AfterRemoval, Passes,
     Goes, Keeps, Course, Removal, Pushing, Granting, Adding, Marking, Targeted
<1>16. ASSUME SetFlag(j) PROVE CourseInv'
  BY <1>1, <1>2, <1>16, Going, Ending, Passing, CourseKept DEF SetFlag, Passes, Goes, Keeps, Course,
     Removal, Pushing, Granting, Adding, Marking, Targeted
<1>17. ASSUME PushEnter(j) PROVE CourseInv'
  BY <1>1, <1>2, <1>17, Going, Ending, Passing, CourseKept DEF PushEnter, Passes, Goes, Keeps,
     Course, Removal, Pushing, Granting, Adding, Marking, Targeted
<1>18. ASSUME ReadStatus(j) PROVE CourseInv'
  BY <1>1, <1>2, <1>18, Going, Ending, Passing, CourseKept DEF ReadStatus, Passes, Goes, Keeps,
     Course, Removal, Pushing, Granting, Adding, Marking, Targeted
<1>19. ASSUME ReadFlag(j) PROVE CourseInv'
  BY <1>1, <1>2, <1>19, Going, Ending, Passing, CourseKept DEF ReadFlag, Passes, Goes, Keeps,
     Course, Removal, Pushing, Granting, Adding, Marking, Targeted
<1>20. ASSUME WriteQuotaExceeded(j) PROVE CourseInv'
  BY <1>1, <1>2, <1>20, Going, Ending, Passing, CourseKept DEF WriteQuotaExceeded, Passes, Goes,
     Keeps, Course, Removal, Pushing, Granting, Adding, Marking, Targeted
<1>21. ASSUME EnsureCredentials(j) PROVE CourseInv'
  BY <1>1, <1>2, <1>21, Going, Ending, Passing, CourseKept DEF EnsureCredentials, Passes, Goes,
     Keeps, Course, Removal, Pushing, Granting, Adding, Marking, Targeted
<1>22. ASSUME PushTargets(j) PROVE CourseInv'
  BY <1>1, <1>2, <1>22, Targeting, CourseKept DEF Goes, Keeps, Course, Removal, Pushing, Granting,
     Adding, Marking, Targeted
<1>23. ASSUME ReadCredentials(j) PROVE CourseInv'
  BY <1>1, <1>2, <1>23, Reading, CourseKept DEF Goes, Keeps, Course, Removal, Pushing, Granting,
     Adding, Marking, Targeted
<1>24. ASSUME WritePending(j) PROVE CourseInv'
  BY <1>1, <1>2, <1>24, Going, Ending, Passing, CourseKept DEF WritePending, Passes, Goes, Keeps,
     Course, Removal, Pushing, Granting, Adding, Marking, Targeted
<1>25. ASSUME ReadNode(j) PROVE CourseInv'
  BY <1>1, <1>2, <1>25, Going, Ending, Passing, CourseKept DEF ReadNode, Passes, Goes, Keeps,
     Course, Removal, Pushing, Granting, Adding, Marking, Targeted
<1>26. ASSUME Added(j) PROVE CourseInv'
  BY <1>1, <1>2, <1>26, Going, Ending, Passing, CourseKept DEF Added, Passes, Goes, Keeps, Course,
     Removal, Pushing, Granting, Adding, Marking, Targeted
<1>27. ASSUME Recheck(j) PROVE CourseInv'
  BY <1>1, <1>2, <1>27, Going, Ending, Passing, CourseKept DEF Recheck, Passes, Goes, Keeps, Course,
     Removal, Pushing, Granting, Adding, Marking, Targeted
<1>28. ASSUME Undone(j) PROVE CourseInv'
  BY <1>1, <1>2, <1>28, Going, Ending, Passing, CourseKept DEF Undone, Passes, Goes, Keeps, Course,
     Removal, Pushing, Granting, Adding, Marking, Targeted
<1>29. ASSUME MarkSynced(j) PROVE CourseInv'
  BY <1>1, <1>2, <1>29, Going, Ending, Passing, CourseKept DEF MarkSynced, Passes, Goes, Keeps,
     Course, Removal, Pushing, Granting, Adding, Marking, Targeted
<1>30. ASSUME MarkFailed(j) PROVE CourseInv'
  BY <1>1, <1>2, <1>30, Going, Ending, Passing, CourseKept DEF MarkFailed, Passes, Goes, Keeps,
     Course, Removal, Pushing, Granting, Adding, Marking, Targeted
<1>31. ASSUME PushDone(j) PROVE CourseInv'
  BY <1>1, <1>2, <1>31, Going, Ending, Passing, CourseKept DEF PushDone, Passes, Goes, Keeps,
     Course, Removal, Pushing, Granting, Adding, Marking, Targeted
<1>32. ASSUME OffClear(j) PROVE CourseInv'
  BY <1>1, <1>2, <1>32, Clearing, CourseKept DEF Goes, Keeps, Course, Removal, Pushing, Granting,
     Adding, Marking, Targeted
<1>33. ASSUME DropInstance(j) PROVE CourseInv'
  BY <1>1, <1>2, <1>33, Dropping, CourseKept DEF Goes, Keeps, Course, Removal, Pushing, Granting,
     Adding, Marking, Targeted
<1>34. ASSUME Swept(j) PROVE CourseInv'
  BY <1>1, <1>2, <1>34, Going, Ending, Passing, CourseKept DEF Swept, Passes, Goes, Keeps, Course,
     Removal, Pushing, Granting, Adding, Marking, Targeted
<1>35. ASSUME SweepDone(j) PROVE CourseInv'
  BY <1>1, <1>2, <1>35, Going, Ending, Passing, CourseKept DEF SweepDone, Passes, Goes, Keeps,
     Course, Removal, Pushing, Granting, Adding, Marking, Targeted
<1> QED
  BY <1>4, <1>5, <1>6, <1>7, <1>8, <1>9, <1>10, <1>11, <1>12, <1>13, <1>14, <1>15, <1>16, <1>17,
     <1>18, <1>19, <1>20, <1>21, <1>22, <1>23, <1>24, <1>25, <1>26, <1>27, <1>28, <1>29, <1>30,
     <1>31, <1>32, <1>33, <1>34, <1>35 DEF JobStep

(* What the beginning of an operation leaves alone, and what it notes.     *)
LEMMA Requesting ==
  ASSUME job \in JobType(given), NEW j \in Jobs, Request(j)
  PROVE  /\ UNCHANGED <<instance, records, given, account>>
         /\ \/ job' = job /\ mishaps' = Noted("regroup") /\ user.status # "active" /\ advanced
               /\ UNCHANGED <<advanced, user>>
            \/ \E op \in Ops \ {"none"}, pc \in {"clear", "insert", "drop", "aim", "delete", "list", "reset"},
                  inst \in {0, instance}, todo \in {{}, allotted} :
                 /\ Begins(j, op, pc, inst, todo)
                 /\ pc = "clear" <=> op = "clear"
                 /\ pc = "insert" => op = "create"
                 /\ pc = "drop" => op = "drop"
                 /\ pc = "delete" <=> op = "delete"
                 /\ pc = "list" => op = "init"
                 /\ pc = "reset" => op = "reset"
                 /\ pc = "aim" => op \in {"enable", "regroup", "retry", "disable", "quota"}
                 /\ pc = "clear" => inst = 0
                 /\ op = "clear" => advanced /\ ~advanced'
                 /\ op # "clear" => advanced' = advanced
                 /\ (op = "clear" => Off(j)) /\ (op = "delete" => Delete(j))
<1>1. CASE Off(j)
  <2>1. Begins(j, "clear", "clear", 0, {}) /\ advanced /\ advanced' = FALSE
        /\ UNCHANGED <<instance, records, given, account>>
    BY <1>1, Beginning DEF Off, Start
  <2>2. "clear" \in Ops \ {"none"}
    BY DEF Ops
  <2> QED
    BY <1>1, <2>1, <2>2
<1>2. CASE Create(j) \/ DeleteInstance(j) \/ Delete(j) \/ StartInit(j) \/ RetryUser(j)
           \/ CheckQuota(j) \/ ResetQuota(j)
  BY <1>2, Beginning DEF Create, DeleteInstance, Delete, StartInit, RetryUser, CheckQuota, ResetQuota,
     Start, db, Ops, Removing
<1>3. CASE Enable(j) \/ Disable(j)
  <2>1. PICK op \in {"enable", "disable"} :
          Start(j, op, "aim", 0, {}) /\ UNCHANGED <<advanced, instance, records, given>>
    BY <1>3 DEF Enable, Disable
  <2>2. Begins(j, op, "aim", 0, {}) /\ UNCHANGED account
    BY <2>1, Beginning DEF Start
  <2>3. op \in Ops \ {"none"} /\ op \notin {"clear", "create", "drop", "delete", "init", "reset"}
    BY DEF Ops, Removing
  <2> QED
    BY <2>1, <2>2, <2>3
<1>4. ASSUME NEW tags, UpdateGroup(j, tags) \/ SetNodes(j, tags)
      PROVE  /\ UNCHANGED <<instance, records, given, account>>
             /\ \/ job' = job /\ mishaps' = Noted("regroup") /\ user.status # "active" /\ advanced
                   /\ UNCHANGED <<advanced, user>>
                \/ Begins(j, "regroup", "aim", 0, {}) /\ UNCHANGED advanced
  <2>1. UNCHANGED <<advanced, user, instance, records, given>>
    BY <1>4 DEF UpdateGroup, SetNodes
  <2>2. \/ Start(j, "regroup", "aim", 0, {})
        \/ /\ mishaps' = Noted("regroup") /\ user.status # "active" /\ advanced
           /\ UNCHANGED <<account, job>>
    BY <1>4 DEF UpdateGroup, SetNodes
  <2>3. CASE Start(j, "regroup", "aim", 0, {})
    <3>1. Begins(j, "regroup", "aim", 0, {}) /\ account' = account
      BY <2>3, Beginning DEF Start
    <3> QED
      BY <2>1, <3>1
  <2> QED
    BY <2>1, <2>2, <2>3
<1> QED
  BY <1>1, <1>2, <1>3, <1>4 DEF Request, Ops, Removing

LEMMA RequestCourse ==
  ASSUME TypeOK, CourseInv, NEW j \in Jobs, Request(j)
  PROVE  CourseInv'
<1>1. job \in JobType(given)
  BY Parts DEF Work
<1>2. CASE job' = job
  BY <1>2 DEF CourseInv
<1>3. ASSUME NEW op \in Ops \ {"none"},
             NEW pc \in {"clear", "insert", "drop", "aim", "delete", "list", "reset"},
             NEW inst \in {0, instance}, NEW todo,
             Begins(j, op, pc, inst, todo),
             /\ pc = "clear" <=> op = "clear"
             /\ pc = "insert" => op = "create"
             /\ pc = "drop" => op = "drop"
             /\ pc = "delete" <=> op = "delete"
             /\ pc = "list" => op = "init"
             /\ pc = "reset" => op = "reset"
             /\ pc = "aim" => op \in {"enable", "regroup", "retry", "disable", "quota"}
             /\ pc = "clear" => inst = 0
      PROVE  CourseInv'
  BY <1>3, CourseKept DEF Begins, Course, Removal, Pushing, Granting, Adding, Marking, Targeted
<1> QED
  BY <1>1, <1>2, <1>3, Requesting

(* A failed call moves a goroutine on as well.                             *)
LEMMA Failing ==
  ASSUME job \in JobType(given), NEW j \in Jobs, RpcFails(j)
  PROVE  /\ UNCHANGED db /\ job[j].todo # {}
         /\ mishaps' = mishaps \cup {IF Insertable(j) THEN "rpc" ELSE "unrecorded"}
         /\ \/ job[j].pc = "removing" /\ Goes(j, "complain")
            \/ job[j].pc = "adding" /\ Goes(j, "failed")
            \/ job[j].pc = "undo" /\ Goes(j, "failed")
            \/ job[j].pc = "sweep" /\ Passes(j, "sweep")
         /\ \/ account' = account
            \/ job[j].pc # "adding" /\ account' = [account EXCEPT ![At(j)] = 0]
            \/ job[j].pc = "adding" /\ account' = AddEffect(j)
BY Going, Passing DEF RpcFails, AfterFailure

LEMMA Abandoning ==
  ASSUME job \in JobType(given), NEW j \in Jobs, Abandon(j)
  PROVE  /\ UNCHANGED <<db, account>> /\ job[j].op \in {"retry", "reset"} /\ Alive(j) /\ Ends(j)
         /\ mishaps' = mishaps \cup {"crash"} \cup (IF Knows(j) THEN {"unrecorded"} ELSE {})
BY Ending DEF Abandon

LEMMA FaultCourse ==
  ASSUME TypeOK, CourseInv, NEW j \in Jobs, RpcFails(j) \/ Abandon(j)
  PROVE  CourseInv'
<1>1. job \in JobType(given) /\ Course(job[j])
  BY Parts DEF Work, CourseInv
<1>2. CASE RpcFails(j)
  BY <1>1, <1>2, Failing, CourseKept DEF Goes, Passes, Keeps, Course, Removal, Pushing, Granting,
     Adding,
     Marking, Targeted
<1>3. CASE Abandon(j)
  BY <1>1, <1>3, Abandoning, CourseKept, IdleCourse DEF Ends
<1> QED
  BY <1>2, <1>3

LEMMA CrashCourse ==
  ASSUME Crash PROVE CourseInv'
BY IdleCourse DEF Crash, CourseInv

LEMMA InitCourse ==
  ASSUME Init PROVE CourseInv
BY IdleCourse DEF Init, CourseInv

-----------------------------------------------------------------------------
(* Unless something ran together that should not: whoever removes accounts *)
(* is alone but for the clearing, there is one clearing, and advanced mode *)
(* is off while it lasts and where an account is taken back.               *)
Orderly == mishaps \cap {"overlap", "reopened", "uncleared"} = {}

ApartInv ==
  Orderly =>
    /\ \A j, k \in Jobs :
         j # k /\ Alive(j) /\ Alive(k) =>
           ~Conflict(job[j].op, job[k].op) /\ (job[j].op = "clear" => job[k].op # "clear")
    /\ \A j \in Jobs : job[j].op = "clear" \/ job[j].pc = "undo" => ~advanced

LEMMA OrderlyBefore ==
  ASSUME mishaps \subseteq mishaps', Orderly' PROVE Orderly
BY DEF Orderly

LEMMA ApartKept ==
  ASSUME ApartInv, NEW j \in Jobs, Others(j), mishaps \subseteq mishaps', advanced' = advanced,
         Alive(j), Ends(j) \/ job'[j].op = job[j].op,
         job'[j].pc = "undo" => job[j].pc = "undo" \/ ~advanced
  PROVE  ApartInv'
<1>1. SUFFICES ASSUME Orderly'
               PROVE  /\ \A i, k \in Jobs :
                           i # k /\ Alive(i)' /\ Alive(k)' =>
                             ~Conflict(job'[i].op, job'[k].op) /\ (job'[i].op = "clear" => job'[k].op # "clear")
                      /\ \A k \in Jobs : job'[k].op = "clear" \/ job'[k].pc = "undo" => ~advanced'
  BY DEF ApartInv, Conflict
<1>2. /\ \A i, k \in Jobs :
           i # k /\ Alive(i) /\ Alive(k) =>
             ~Conflict(job[i].op, job[k].op) /\ (job[i].op = "clear" => job[k].op # "clear")
      /\ \A k \in Jobs : job[k].op = "clear" \/ job[k].pc = "undo" => ~advanced
  BY <1>1, OrderlyBefore DEF ApartInv
<1>3. \A k \in Jobs : Alive(k)' => Alive(k) /\ job'[k].op = job[k].op
  BY DEF Alive, Others, Ends, Idle
<1>4. \A k \in Jobs : job'[k].op \in {"none", job[k].op}
  BY DEF Others, Ends, Idle
<1>5. \A k \in Jobs : job'[k].pc = "undo" => job[k].pc = "undo" \/ ~advanced
  BY DEF Others
<1> QED
  BY <1>2, <1>3, <1>4, <1>5

(* Where a goroutine goes on with what it has read, and where it starts    *)
(* from what it reads now.                                                 *)
Carries(j) ==
  /\ Others(j) /\ job'[j].op = job[j].op /\ job'[j].inst = job[j].inst
  /\ job'[j].todo \in {job[j].todo, job[j].todo \ {Min(job[j].todo)}}

LEMMA Turning ==
  ASSUME job \in JobType(given), JobInv, NEW j \in Jobs, JobStep(j)
  PROVE  /\ job'[j].pc # "clear"
         /\ job'[j].pc = "undo" => ~advanced
         /\ job'[j].pc = "delete" => FALSE
         /\ job'[j].pc = "stale" => ReadTargets(j)
         /\ job'[j].pc = "forget" => Removed(j)
         /\ job'[j].pc \notin {"aim", "complain"}
         /\ job'[j].pc = "failed" => job[j].pc = "undo"
         /\ job'[j].pc \in Removal =>
              ReadTargets(j) \/ ReadStale(j) \/ (job[j].pc \in {"delete"} \cup Removal /\ Carries(j))
         /\ job'[j].pc \in Adding => PushTargets(j) \/ (job[j].pc \in Adding /\ Carries(j))
         /\ job'[j].pc \in {"targets"} \cup Adding =>
              EnsureCredentials(j) \/ job[j].pc \in {"targets"} \cup Adding
         /\ job'[j].pc \in {"pushing"} \cup Marking =>
              ReadCredentials(j) \/ (job[j].pc \in {"pushing"} \cup Marking /\ job'[j].key = job[j].key)
         /\ job'[j].pc = "sweep" =>
              OffClear(j) \/ DropInstance(j) \/ (job[j].pc = "sweep" /\ Carries(j))
<1> DEFINE Leads(pc) ==
             /\ pc \notin {"clear", "delete", "aim", "stale", "complain"}
             /\ pc = "failed" => job[j].pc = "undo"
             /\ pc = "forget" => Removed(j)
             /\ pc = "undo" => ~advanced
             /\ pc \in Removal => job[j].pc \in {"delete"} \cup Removal
             /\ pc \in Adding => job[j].pc \in Adding
             /\ pc = "targets" => EnsureCredentials(j)
             /\ pc \in {"pushing"} \cup Marking => job[j].pc \in {"pushing"} \cup Marking
             /\ pc = "sweep" => job[j].pc = "sweep"
<1>1. job[j].next \in {"idle", "flag", "push"}
  BY DEF JobInv
<1>2. \/ \E pc : Goto(j, pc) /\ Leads(pc)
      \/ \E pc : OnwardTo(j, pc) /\ Leads(pc)
      \/ ReadTargets(j) \/ ReadStale(j) \/ PushTargets(j) \/ ReadCredentials(j) \/ OffClear(j)
      \/ DropInstance(j)
  <2>1. CASE InsertInstance(j)
    BY <1>1, <2>1 DEF InsertInstance, AfterRemoval, Removal, Adding, Marking
  <2>2. CASE ListActive(j)
    BY <1>1, <2>2 DEF ListActive, AfterRemoval, Removal, Adding, Marking
  <2>3. CASE ClearFlag(j)
    BY <1>1, <2>3 DEF ClearFlag, AfterRemoval, Removal, Adding, Marking
  <2>4. CASE DeleteRow(j)
    BY <1>1, <2>4 DEF DeleteRow, AfterRemoval, Removal, Adding, Marking
  <2>5. CASE RemoveEnter(j)
    BY <1>1, <2>5 DEF RemoveEnter, AfterRemoval, Removal, Adding, Marking
  <2>6. CASE Removed(j)
    BY <1>1, <2>6 DEF Removed, AfterRemoval, Removal, Adding, Marking
  <2>7. CASE NoClient(j)
    BY <1>1, <2>7 DEF NoClient, AfterRemoval, Removal, Adding, Marking
  <2>8. CASE Forget(j)
    BY <1>1, <2>8 DEF Forget, AfterRemoval, Removal, Adding, Marking
  <2>9. CASE RemoveFailed(j)
    BY <1>1, <2>9 DEF RemoveFailed, AfterRemoval, Removal, Adding, Marking
  <2>10. CASE RemovalDone(j)
    BY <1>1, <2>10 DEF RemovalDone, AfterRemoval, Removal, Adding, Marking
  <2>11. CASE SetFlag(j)
    BY <1>1, <2>11 DEF SetFlag, AfterRemoval, Removal, Adding, Marking
  <2>12. CASE PushEnter(j)
    BY <1>1, <2>12 DEF PushEnter, AfterRemoval, Removal, Adding, Marking
  <2>13. CASE ReadStatus(j)
    BY <1>1, <2>13 DEF ReadStatus, AfterRemoval, Removal, Adding, Marking
  <2>14. CASE ReadFlag(j)
    BY <1>1, <2>14 DEF ReadFlag, AfterRemoval, Removal, Adding, Marking
  <2>15. CASE WriteQuotaExceeded(j)
    BY <1>1, <2>15 DEF WriteQuotaExceeded, AfterRemoval, Removal, Adding, Marking
  <2>16. CASE EnsureCredentials(j)
    BY <1>1, <2>16 DEF EnsureCredentials, AfterRemoval, Removal, Adding, Marking
  <2>17. CASE WritePending(j)
    BY <1>1, <2>17 DEF WritePending, AfterRemoval, Removal, Adding, Marking
  <2>18. CASE ReadNode(j)
    BY <1>1, <2>18 DEF ReadNode, AfterRemoval, Removal, Adding, Marking
  <2>19. CASE Added(j)
    BY <1>1, <2>19 DEF Added, AfterRemoval, Removal, Adding, Marking
  <2>20. CASE Recheck(j)
    BY <1>1, <2>20 DEF Recheck, AfterRemoval, Removal, Adding, Marking
  <2>21. CASE Undone(j)
    BY <1>1, <2>21 DEF Undone, AfterRemoval, Removal, Adding, Marking
  <2>22. CASE MarkSynced(j)
    BY <1>1, <2>22 DEF MarkSynced, AfterRemoval, Removal, Adding, Marking
  <2>23. CASE MarkFailed(j)
    BY <1>1, <2>23 DEF MarkFailed, AfterRemoval, Removal, Adding, Marking
  <2>24. CASE PushDone(j)
    BY <1>1, <2>24 DEF PushDone, AfterRemoval, Removal, Adding, Marking
  <2>25. CASE Swept(j)
    BY <1>1, <2>25 DEF Swept, AfterRemoval, Removal, Adding, Marking
  <2>26. CASE SweepDone(j)
    BY <1>1, <2>26 DEF SweepDone, AfterRemoval, Removal, Adding, Marking
  <2> QED
    BY <2>1, <2>2, <2>3, <2>4, <2>5, <2>6, <2>7, <2>8, <2>9, <2>10, <2>11, <2>12, <2>13, <2>14,
       <2>15, <2>16, <2>17, <2>18, <2>19, <2>20, <2>21, <2>22, <2>23, <2>24, <2>25, <2>26 DEF
       JobStep
<1>3. ASSUME NEW pc, Goto(j, pc), Leads(pc), pc # "idle" PROVE Carries(j) /\ job'[j].pc = pc /\ job'[j].key = job[j].key
  BY <1>3, Going DEF Goes, Keeps, Carries
<1>4. ASSUME Goto(j, "idle") PROVE job'[j].pc = "idle"
  BY <1>4, Ending DEF Ends, Idle
<1>5. ASSUME NEW pc, OnwardTo(j, pc) PROVE Carries(j) /\ job'[j].pc = pc /\ job'[j].key = job[j].key
  BY <1>5, Passing DEF Passes, Keeps, Carries
<1>6. CASE \E pc : (Goto(j, pc) \/ OnwardTo(j, pc)) /\ Leads(pc)
  BY <1>3, <1>4, <1>5, <1>6 DEF Removal, Adding, Marking
<1>7. CASE ReadTargets(j) \/ ReadStale(j)
  <2>1. job'[j].pc \in {"stale", "remove"} /\ (ReadStale(j) => job'[j].pc = "remove")
    BY <1>7, Aiming, Sorting
  <2> QED
    BY <1>7, <2>1 DEF Removal, Adding, Marking
<1>8. CASE PushTargets(j)
  <2>1. job'[j].pc \in {"idle", "creds"} /\ job[j].pc = "targets"
    BY <1>8, Targeting DEF Ends, Idle
  <2> QED
    BY <1>8, <2>1 DEF Removal, Adding, Marking
<1>9. CASE ReadCredentials(j)
  <2>1. job'[j].pc = "idle" \/ (job'[j].pc = "pushing" /\ job[j].pc = "creds" /\ Carries(j))
    BY <1>9, Reading DEF Ends, Idle, Carries
  <2> QED
    BY <1>9, <2>1 DEF Removal, Adding, Marking
<1>10. CASE OffClear(j) \/ DropInstance(j)
  <2>1. job'[j].pc \in {"idle", "sweep"}
    <3>1. Keeps(j, "sweep") \/ Ends(j)
      BY <1>10, Clearing, Dropping
    <3> QED
      BY <3>1 DEF Keeps, Ends, Idle
  <2> QED
    BY <1>10, <2>1 DEF Removal, Adding, Marking
<1> QED
  BY <1>2, <1>6, <1>7, <1>8, <1>9, <1>10

LEMMA StepApart ==
  ASSUME TypeOK, JobInv, ApartInv, NEW j \in Jobs, JobStep(j)
  PROVE  ApartInv'
<1>1. job \in JobType(given)
  BY Parts DEF Work
<1> QED
  BY <1>1, Continuing, Turning, ApartKept

(* One that begins next to a goroutine it might trip over is noted.        *)
LEMMA Unnoted ==
  ASSUME NEW op, mishaps' = Noted(op), Orderly'
  PROVE  Orderly /\ \A k \in Jobs : Alive(k) => ~Conflict(op, job[k].op)
BY DEF Noted, Orderly

LEMMA BeginApart ==
  ASSUME ApartInv, NEW j \in Jobs, NEW op, NEW pc, NEW inst, NEW todo,
         Begins(j, op, pc, inst, todo), pc # "undo",
         op = "clear" => advanced, op # "clear" => advanced' = advanced, op = "clear" => ~advanced'
  PROVE  ApartInv'
<1>1. SUFFICES ASSUME Orderly'
               PROVE  /\ \A i, k \in Jobs :
                           i # k /\ Alive(i)' /\ Alive(k)' =>
                             ~Conflict(job'[i].op, job'[k].op) /\ (job'[i].op = "clear" => job'[k].op # "clear")
                      /\ \A k \in Jobs : job'[k].op = "clear" \/ job'[k].pc = "undo" => ~advanced'
  BY DEF ApartInv
<1>2. Orderly /\ \A k \in Jobs : Alive(k) => ~Conflict(op, job[k].op)
  BY <1>1, Unnoted DEF Begins
<1>3. /\ \A i, k \in Jobs :
           i # k /\ Alive(i) /\ Alive(k) =>
             ~Conflict(job[i].op, job[k].op) /\ (job[i].op = "clear" => job[k].op # "clear")
      /\ \A k \in Jobs : job[k].op = "clear" \/ job[k].pc = "undo" => ~advanced
  BY <1>2 DEF ApartInv
<1>4. /\ job'[j].op = op /\ job'[j].pc = pc
      /\ \A k \in Jobs \ {j} : job'[k] = job[k] /\ (Alive(k)' <=> Alive(k))
  BY DEF Begins, Others, Alive
<1>5. \A a, b : Conflict(a, b) <=> Conflict(b, a)
  BY DEF Conflict
<1>6. ASSUME NEW i \in Jobs, NEW k \in Jobs, i # k, Alive(i)', Alive(k)'
      PROVE  ~Conflict(job'[i].op, job'[k].op) /\ (job'[i].op = "clear" => job'[k].op # "clear")
  <2>1. CASE i = j
    BY <1>2, <1>3, <1>4, <1>6, <2>1
  <2>2. CASE k = j
    BY <1>2, <1>3, <1>4, <1>5, <1>6, <2>2
  <2>3. CASE i # j /\ k # j
    BY <1>3, <1>4, <1>6, <2>3
  <2> QED
    BY <2>1, <2>2, <2>3
<1>7. \A k \in Jobs : job'[k].op = "clear" \/ job'[k].pc = "undo" => ~advanced'
  BY <1>3, <1>4
<1> QED
  BY <1>6, <1>7

LEMMA RequestApart ==
  ASSUME TypeOK, ApartInv, NEW j \in Jobs, Request(j)
  PROVE  ApartInv'
<1>1. job \in JobType(given)
  BY Parts DEF Work
<1>2. CASE job' = job /\ mishaps' = Noted("regroup") /\ advanced' = advanced
  BY <1>2 DEF ApartInv, Noted, Orderly, Alive
<1> QED
  BY <1>1, <1>2, Requesting, BeginApart

LEMMA FaultApart ==
  ASSUME TypeOK, ApartInv, NEW j \in Jobs, RpcFails(j) \/ Abandon(j)
  PROVE  ApartInv'
<1>1. job \in JobType(given)
  BY Parts DEF Work
<1>2. CASE RpcFails(j)
  BY <1>1, <1>2, Failing, ApartKept DEF Goes, Passes, Keeps, Alive, db
<1>3. CASE Abandon(j)
  BY <1>1, <1>3, Abandoning, ApartKept DEF Ends, Idle, db
<1> QED
  BY <1>2, <1>3

LEMMA OtherApart ==
  ASSUME CourseInv, ApartInv, On \/ Crash
  PROVE  ApartInv'
<1>1. CASE On
  <2>1. CASE Quiet
    <3>1. \A k \in Jobs : job'[k].op = "none" /\ job'[k].pc = "idle"
      BY <1>1, <2>1 DEF On, Quiet, Alive, CourseInv, Course
    <3> QED
      BY <3>1 DEF ApartInv, Alive
  <2>2. CASE ~Quiet
    BY <1>1, <2>2 DEF On, ApartInv, Orderly
  <2> QED
    BY <2>1, <2>2
<1>2. CASE Crash
  BY <1>2 DEF Crash, ApartInv, Alive, Idle
<1> QED
  BY <1>1, <1>2

LEMMA InitApart ==
  ASSUME Init PROVE ApartInv
BY DEF Init, ApartInv, Alive, Idle

-----------------------------------------------------------------------------
(* What a step of a goroutine leaves alone.                                *)
LEMMA Footprint ==
  ASSUME NEW j \in Jobs, JobStep(j)
  PROVE  \/ UNCHANGED <<instance, listed, allotted>>
         \/ /\ InsertInstance(j) /\ UNCHANGED <<user, listed, allotted, records, account>>
            /\ instance' \in {instance, given.inst + 1} /\ (instance # 0 => instance' = instance)
         \/ OffClear(j) \/ DropInstance(j)
BY DEF JobStep, db, InsertInstance, ListActive, ClearFlag, DeleteRow, ReadTargets, ReadStale,
     RemoveEnter, Removed, NoClient, Forget, RemoveFailed, RemovalDone, SetFlag, PushEnter,
     ReadStatus, ReadFlag, WriteQuotaExceeded, EnsureCredentials, PushTargets, ReadCredentials,
     WritePending, ReadNode, Added, Recheck, Undone, MarkSynced, MarkFailed, PushDone, Swept, SweepDone

(* Whether OFF has cleared the database: only its clearing changes that.   *)
LEMMA ClearedBySteps ==
  ASSUME TypeOK, JobInv, NEW j \in Jobs, JobStep(j), ~OffClear(j)
  PROVE  Cleared' <=> Cleared
<1>1. job \in JobType(given)
  BY Parts DEF Work
<1>2. job[j].pc # "clear"
  BY DEF JobStep, InsertInstance, ListActive, ClearFlag, DeleteRow, ReadTargets, ReadStale,
     RemoveEnter, Removed, NoClient, Forget, RemoveFailed, RemovalDone, SetFlag, PushEnter,
     ReadStatus, ReadFlag, WriteQuotaExceeded, EnsureCredentials, PushTargets, ReadCredentials,
     WritePending, ReadNode, Added, Recheck, Undone, MarkSynced, MarkFailed, PushDone,
     DropInstance, Swept, SweepDone
<1>3. Others(j) /\ UNCHANGED <<advanced, mishaps>> /\ job'[j].pc # "clear"
  BY <1>1, Continuing, Turning
<1> QED
  BY <1>2, <1>3 DEF Cleared, Others

LEMMA ClearedByRequests ==
  ASSUME TypeOK, NEW j \in Jobs, Request(j)
  PROVE  Cleared' => Cleared /\ advanced' = advanced
<1>1. job \in JobType(given)
  BY Parts DEF Work
<1>2. CASE job' = job /\ mishaps' = Noted("regroup") /\ advanced /\ advanced' = advanced
  BY <1>2 DEF Cleared
<1>3. ASSUME NEW op, NEW pc, NEW inst, NEW todo, Begins(j, op, pc, inst, todo),
             pc = "clear" <=> op = "clear", op # "clear" => advanced' = advanced
      PROVE  Cleared' => Cleared /\ advanced' = advanced
  <2>1. /\ job'[j].pc = pc /\ Others(j) /\ mishaps \subseteq mishaps' /\ job[j].pc # "clear"
        /\ "uncleared" \in mishaps => "uncleared" \in mishaps'
    BY <1>3 DEF Begins, Noted, Alive
  <2> QED
    BY <1>3, <2>1 DEF Cleared, Others
<1> QED
  BY <1>1, <1>2, <1>3, Requesting

(* The clearing after OFF is the one there is.                             *)
LEMMA OffClears ==
  ASSUME TypeOK, CourseInv, ApartInv, NEW j \in Jobs, OffClear(j), Orderly'
  PROVE  Cleared'
<1>1. job \in JobType(given)
  BY Parts DEF Work
<1>2. job[j].pc = "clear" /\ job[j].op = "clear" /\ Alive(j) /\ UNCHANGED <<advanced, mishaps>>
      /\ job'[j].pc = "sweep" /\ Others(j)
  BY <1>1, Clearing DEF CourseInv, Course, Alive, Keeps, world
<1>3. Orderly
  BY <1>2 DEF Orderly
<1>4. ~advanced /\ \A k \in Jobs \ {j} : Alive(k) => job[k].op # "clear"
  BY <1>2, <1>3 DEF ApartInv
<1>5. \A k \in Jobs : job'[k].pc # "clear"
  BY <1>2, <1>4 DEF CourseInv, Course, Alive, Others
<1> QED
  BY <1>2, <1>4, <1>5 DEF Cleared, Orderly

LEMMA ClearedStays ==
  ASSUME TypeOK, NEW j \in Jobs, Request(j), Cleared
  PROVE  Cleared'
<1>1. job \in JobType(given)
  BY Parts DEF Work
<1>2. CASE job' = job /\ advanced
  BY <1>2 DEF Cleared
<1>3. ASSUME NEW op, NEW pc, NEW inst, NEW todo, Begins(j, op, pc, inst, todo),
             pc = "clear" <=> op = "clear", op = "clear" => advanced, op # "clear" => advanced' = advanced
      PROVE  Cleared'
  BY <1>3 DEF Begins, Cleared, Others, Noted
<1> QED
  BY <1>1, <1>2, <1>3, Requesting

LEMMA ClearedByFaults ==
  ASSUME TypeOK, JobInv, CourseInv, NEW j \in Jobs, RpcFails(j) \/ Abandon(j)
  PROVE  Cleared' <=> Cleared
<1>1. job \in JobType(given) /\ Course(job[j])
  BY Parts DEF Work, CourseInv
<1>2. job[j].pc # "clear"
  BY <1>1, Failing, Abandoning DEF Course
<1>3. Others(j) /\ advanced' = advanced /\ job'[j].pc # "clear"
  BY <1>1, Failing, Abandoning DEF Goes, Passes, Keeps, Ends, Idle, db
<1>4. "uncleared" \in mishaps' <=> "uncleared" \in mishaps
  BY <1>1, Failing, Abandoning
<1> QED
  BY <1>2, <1>3, <1>4 DEF Cleared, Others

LEMMA ClearedByCrash ==
  ASSUME Crash, Cleared' PROVE Cleared
BY DEF Crash, Cleared, db

-----------------------------------------------------------------------------
(* Nodes there are for an instance only, an allotment for nodes only, and  *)
(* none of them once OFF has cleared the database.                         *)
ListInv ==
  /\ ~listed => allotted = {}
  /\ listed => instance # 0
  /\ Cleared => ~listed

LEMMA StepList ==
  ASSUME XrayAssumption, TypeOK, JobInv, ListInv, NEW j \in Jobs, JobStep(j)
  PROVE  ListInv'
<1>1. job \in JobType(given) /\ given.inst \in Nat
  BY Parts DEF Work, Given, XrayAssumption
<1>2. CASE OffClear(j)
  BY <1>1, <1>2, Clearing DEF ListInv
<1>3. CASE ~OffClear(j)
  <2>1. Cleared' <=> Cleared
    BY <1>3, ClearedBySteps
  <2> QED
    BY <1>1, <1>3, <2>1, Footprint, Dropping DEF ListInv
<1> QED
  BY <1>2, <1>3

LEMMA RequestList ==
  ASSUME TypeOK, ListInv, NEW j \in Jobs, Request(j)
  PROVE  ListInv'
<1>1. job \in JobType(given)
  BY Parts DEF Work
<1>2. Cleared' => Cleared /\ advanced' = advanced
  BY ClearedByRequests
<1>3. UNCHANGED instance
  BY <1>1, Requesting
<1>4. CASE UNCHANGED <<listed, allotted>>
  BY <1>2, <1>3, <1>4 DEF ListInv
<1>5. ASSUME NEW tags, UpdateGroup(j, tags) PROVE ListInv'
  BY <1>2, <1>3, <1>5 DEF ListInv, UpdateGroup
<1>6. ASSUME NEW tags, SetNodes(j, tags) PROVE ListInv'
  BY <1>2, <1>3, <1>6 DEF ListInv, SetNodes, Cleared
<1> QED
  BY <1>4, <1>5, <1>6 DEF Request, Off, Create, DeleteInstance, Enable, Disable, Delete,
     StartInit, RetryUser, CheckQuota, ResetQuota, db

LEMMA OtherList ==
  ASSUME TypeOK, JobInv, CourseInv, ListInv,
         On \/ Crash \/ \E j \in Jobs : RpcFails(j) \/ Abandon(j)
  PROVE  ListInv'
<1>1. UNCHANGED <<instance, listed, allotted>>
  BY DEF On, Crash, RpcFails, Abandon, db
<1>2. Cleared' => Cleared
  <2>1. CASE On
    BY <2>1 DEF On, Cleared
  <2> QED
    BY <2>1, ClearedByCrash, ClearedByFaults
<1> QED
  BY <1>1, <1>2 DEF ListInv

LEMMA InitList ==
  ASSUME Init PROVE ListInv
BY DEF Init, ListInv, Cleared

-----------------------------------------------------------------------------
(* A goroutine works with the instance that is there, unless OFF has       *)
(* cleared it away in the meantime.                                        *)
Holds(j) == job[j].pc \in {"delete"} \cup Removal \cup Adding /\ job[j].todo # {}
Held(j) == Holds(j) => job[j].inst # 0 /\ (job[j].inst = instance \/ Cleared)
HoldInv == Orderly => \A j \in Jobs : Held(j)

(* Where there is no instance there are no nodes and no records.           *)
LEMMA NothingThere ==
  ASSUME TypeOK, ListInv, instance = 0
  PROVE  allotted = {} /\ DOMAIN records = {}
BY EmptyRecords DEF TypeOK, ListInv

LEMMA HoldKept ==
  ASSUME HoldInv, NEW j \in Jobs, Others(j), mishaps \subseteq mishaps', instance' = instance,
         Cleared => Cleared', Orderly' => Held(j)'
  PROVE  HoldInv'
<1>1. SUFFICES ASSUME Orderly', NEW k \in Jobs PROVE Held(k)'
  BY DEF HoldInv
<1>2. Held(k)
  BY <1>1, OrderlyBefore DEF HoldInv
<1> QED
  BY <1>1, <1>2 DEF Held, Holds, Others

(* A goroutine that goes on with what it has.                              *)
LEMMA CarryHold ==
  ASSUME NEW j \in Jobs, Held(j), Carries(j), job[j].pc \in {"delete"} \cup Removal \cup Adding,
         instance' = instance, Cleared => Cleared'
  PROVE  Held(j)'
BY DEF Held, Holds, Carries

LEMMA StepHold ==
  ASSUME XrayAssumption, TypeOK, JobInv, CourseInv, ApartInv, ListInv, HoldInv, NEW j \in Jobs, JobStep(j)
  PROVE  HoldInv'
<1>1. job \in JobType(given) /\ given.inst \in Nat /\ DOMAIN records \subseteq Tags /\ CourseInv
  BY Parts DEF Work, Given, XrayAssumption, Rows
<1>2. Others(j) /\ mishaps' = mishaps
  BY <1>1, Continuing
<1>3. SUFFICES ASSUME Orderly' PROVE \A k \in Jobs : Held(k)'
  BY DEF HoldInv
<1>4. Orderly /\ \A k \in Jobs : Held(k)
  BY <1>2, <1>3, OrderlyBefore DEF HoldInv
<1>5. CASE OffClear(j)
  <2>1. Cleared'
    BY <1>3, <1>5, OffClears
  <2>2. ~Holds(j)'
    BY <1>1, <1>5, Clearing DEF Holds, Keeps, Removal, Adding, Marking
  <2> QED
    BY <1>2, <1>4, <2>1, <2>2 DEF Held, Holds, Others
<1>6. CASE DropInstance(j)
  \* alone but for a clearing
  <2>1. \A k \in Jobs \ {j} : ~Holds(k)
    <3>1. job[j].pc = "drop" /\ job[j].op = "drop" /\ Alive(j)
      BY <1>1, <1>6, Dropping DEF CourseInv, Course, Alive
    <3>2. ASSUME NEW k \in Jobs \ {j}, Holds(k) PROVE FALSE
      <4>1. Alive(k)
        BY <3>2 DEF Holds, Alive, Removal, Adding, Marking
      <4>2. job[k].op = "clear"
        BY <4>1, <3>1, <1>4 DEF ApartInv, Conflict, Removing
      <4> QED
        BY <4>2, <3>2 DEF Holds, CourseInv, Course, Removal, Adding, Marking, Pushing, Granting,
           Targeted
    <3> QED
      BY <3>2
  <2>2. ~Holds(j)'
    <3>1. Keeps(j, "sweep") \/ Ends(j)
      BY <1>1, <1>6, Dropping
    <3> QED
      BY <3>1 DEF Holds, Keeps, Ends, Idle, Removal, Adding, Marking
  <2> QED
    BY <1>2, <2>1, <2>2 DEF Held, Holds, Others
<1>7. CASE ~OffClear(j) /\ ~DropInstance(j)
  <2>1. Cleared' <=> Cleared
    BY <1>7, ClearedBySteps
  <2>2. \A k \in Jobs : Holds(k) => instance' = instance \/ Cleared
    BY <1>1, <1>4, <1>7, Footprint DEF Held
  <2>3. ASSUME NEW k \in Jobs \ {j} PROVE Held(k)'
    BY <1>2, <1>4, <2>1, <2>2, <2>3 DEF Held, Holds, Others
  <2>4. Held(j)'
    <3>1. CASE InsertInstance(j)
      BY <1>1, <3>1, Ending DEF InsertInstance, Ends, Idle, Held, Holds, Removal, Adding, Marking
    <3>2. CASE ReadTargets(j) \/ ReadStale(j) \/ PushTargets(j)
      <4>1. instance' = instance
        BY <1>7, <3>2 DEF ReadTargets, ReadStale, PushTargets, db
      <4>2. \/ job'[j] = Idle
            \/ /\ job'[j].inst = instance
               /\ job'[j].todo \subseteq allotted \/ job'[j].todo \subseteq DOMAIN records
        BY <1>1, <3>2, Aiming, Sorting, Targeting DEF TargetSets, Ends
      <4> QED
        BY <4>1, <4>2, NothingThere DEF Held, Holds, Idle, Removal, Adding, Marking
    <3>3. CASE ~InsertInstance(j) /\ ~ReadTargets(j) /\ ~ReadStale(j) /\ ~PushTargets(j)
      <4>1. instance' = instance
        BY <1>7, <3>3, Footprint
      <4>2. \/ job'[j].pc \notin {"delete"} \cup Removal \cup Adding
            \/ job[j].pc \in {"delete"} \cup Removal \cup Adding /\ Carries(j)
        BY <1>1, <3>3, Turning
      <4> QED
        BY <4>1, <4>2, <2>1, <1>4, CarryHold DEF Held, Holds
    <3> QED
      BY <3>1, <3>2, <3>3
  <2> QED
    BY <2>3, <2>4
<1> QED
  BY <1>5, <1>6, <1>7

LEMMA RequestHold ==
  ASSUME TypeOK, ListInv, HoldInv, NEW j \in Jobs, Request(j)
  PROVE  HoldInv'
<1>1. job \in JobType(given) /\ instance' = instance
  BY Parts, Requesting DEF Work
<1>2. CASE job' = job /\ mishaps' = Noted("regroup") /\ UNCHANGED advanced
  BY <1>1, <1>2 DEF HoldInv, Held, Holds, Noted, Orderly, Cleared
<1>3. ASSUME NEW op, NEW pc, NEW inst, NEW todo, Begins(j, op, pc, inst, todo)
      PROVE  Others(j) /\ mishaps \subseteq mishaps' /\ job'[j].pc = pc /\ job'[j].inst = inst
             /\ job'[j].todo = todo /\ ~Alive(j)
  BY <1>3 DEF Begins, Noted
<1>4. CASE Off(j)
  \* in advanced mode nothing has been cleared
  <2>1. ~Cleared
    BY <1>4 DEF Off, Cleared
  <2>2. Begins(j, "clear", "clear", 0, {})
    BY <1>1, <1>4, Beginning DEF Off
  <2> QED
    BY <1>1, <1>3, <2>1, <2>2, HoldKept DEF Held, Holds, Removal, Adding, Marking
<1>5. CASE Delete(j)
  <2>1. Begins(j, "delete", "delete", instance, allotted) /\ UNCHANGED advanced
    BY <1>1, <1>5, Beginning DEF Delete, db
  <2>2. Cleared => Cleared'
    <3>1. Others(j) /\ job'[j].pc # "clear" /\ advanced' = advanced
          /\ ("uncleared" \in mishaps' => "uncleared" \in mishaps)
      BY <2>1, <1>3 DEF Begins, Noted
    <3> QED
      BY <3>1 DEF Cleared, Others
  <2>3. Held(j)'
    BY <1>1, <1>3, <2>1, NothingThere DEF Held, Holds
  <2> QED
    BY <1>1, <1>3, <2>1, <2>2, <2>3, HoldKept
<1>6. ASSUME NEW op, NEW pc \in {"insert", "drop", "aim", "list", "reset"}, NEW inst, NEW todo,
             Begins(j, op, pc, inst, todo), UNCHANGED advanced
      PROVE  HoldInv'
  <2>1. Cleared => Cleared'
    <3>1. Others(j) /\ job'[j].pc # "clear" /\ advanced' = advanced
          /\ ("uncleared" \in mishaps' => "uncleared" \in mishaps)
      BY <1>6, <1>3 DEF Begins, Noted
    <3> QED
      BY <3>1 DEF Cleared, Others
  <2> QED
    BY <1>1, <1>3, <1>6, <2>1, HoldKept DEF Held, Holds, Removal, Adding, Marking
<1> QED
  BY <1>1, <1>2, <1>4, <1>5, <1>6, Requesting

LEMMA OtherHold ==
  ASSUME TypeOK, JobInv, CourseInv, HoldInv, On \/ Crash \/ \E j \in Jobs : RpcFails(j) \/ Abandon(j)
  PROVE  HoldInv'
<1>1. job \in JobType(given)
  BY Parts DEF Work
<1>2. CASE On
  <2>1. CASE Quiet
    BY <1>2, <2>1 DEF On, Quiet, Alive, HoldInv, Held, Holds, Removal, Adding, Marking
  <2>2. CASE ~Quiet
    BY <1>2, <2>2 DEF On, HoldInv, Orderly
  <2> QED
    BY <2>1, <2>2
<1>3. CASE Crash
  BY <1>3 DEF Crash, HoldInv, Held, Holds, Idle, Removal, Adding, Marking
<1>4. ASSUME NEW j \in Jobs, RpcFails(j) \/ Abandon(j) PROVE HoldInv'
  <2>1. /\ Others(j) /\ mishaps \subseteq mishaps' /\ instance' = instance
        /\ Ends(j) \/ (Carries(j) /\ (job[j].pc \in {"sweep"} \cup Removal \cup Adding))
        /\ job[j].pc = "sweep" => job'[j].pc = "sweep" \/ Ends(j)
    BY <1>1, <1>4, Failing, Abandoning DEF Goes, Passes, Keeps, Carries, Ends, db, Removal, Adding,
       Marking
  <2>2. Cleared' <=> Cleared
    BY <1>4, ClearedByFaults
  <2>3. Orderly' => Held(j)'
    <3>1. CASE Ends(j)
      BY <3>1 DEF Ends, Idle, Held, Holds, Removal, Adding, Marking
    <3>2. CASE job[j].pc = "sweep"
      BY <3>1, <3>2, <2>1 DEF Held, Holds, Removal, Adding, Marking
    <3>3. CASE Carries(j) /\ job[j].pc \in Removal \cup Adding
      BY <3>3, <2>1, <2>2, CarryHold, OrderlyBefore DEF HoldInv
    <3> QED
      BY <2>1, <3>1, <3>2, <3>3
  <2> QED
    BY <2>1, <2>2, <2>3, HoldKept
<1> QED
  BY <1>2, <1>3, <1>4

LEMMA InitHold ==
  ASSUME Init PROVE HoldInv
BY DEF Init, HoldInv, Held, Holds, Idle, Removal, Adding, Marking

-----------------------------------------------------------------------------
(* Nobody works for a user who is gone but the operation that deleted her; *)
(* whoever has read status and flag before a push finds them as they were. *)
Fits(j) ==
  /\ job[j].op \in {"enable", "regroup", "retry", "quota", "disable", "reset"}
       \/ job[j].pc \in Pushing => user.status # "gone"
  /\ job[j].pc \in {"limit"} \cup Granting => user.status = "active"
  /\ job[j].pc \in Granting => ~user.exceeded
  /\ job[j].op = "disable" => user.status = "disabled"
  /\ job[j].op = "delete" /\ job[j].pc \in Removal => user.status = "gone"
FitInv == Orderly => \A j \in Jobs : Fits(j)

LEMMA IdleFits ==
  ASSUME NEW j \in Jobs, job'[j] = Idle PROVE Fits(j)'
BY DEF Fits, Idle, Pushing, Granting, Adding, Marking, Removal

(* An operation that removes accounts has at most a clearing beside it.    *)
LEMMA Alone ==
  ASSUME ApartInv, CourseInv, Orderly, NEW j \in Jobs, job[j].op \in Removing, NEW k \in Jobs \ {j}
  PROVE  job[k].op \in {"none", "clear"} /\ (job[j].op = "delete" => job[k].op = "none")
<1>1. Alive(j) /\ (Alive(k) \/ job[k].op = "none")
  BY DEF Alive, CourseInv, Course, Removing
<1> QED
  BY <1>1 DEF ApartInv, Conflict, Removing

LEMMA StepFits ==
  ASSUME XrayAssumption, TypeOK, JobInv, CourseInv, ApartInv, FitInv, NEW j \in Jobs, JobStep(j)
  PROVE  FitInv'
<1>1. /\ job \in JobType(given) /\ Course(job[j]) /\ CourseInv
      /\ user \in [status : {"active", "disabled", "gone"}, exceeded : BOOLEAN, key : 0..given.key]
      /\ job[j].next \in {"idle", "flag", "push"}
  BY Parts DEF Work, Rows, CourseInv, JobInv
<1>2. Others(j) /\ mishaps' = mishaps
  BY <1>1, Continuing
<1>3. SUFFICES ASSUME Orderly' PROVE \A k \in Jobs : Fits(k)'
  BY DEF FitInv
<1>4. Orderly /\ \A k \in Jobs : Fits(k)
  BY <1>2, <1>3, OrderlyBefore DEF FitInv
<1>5. ASSUME NEW k \in Jobs \ {j} PROVE Fits(k)'
  <2>1. CASE UNCHANGED user
    BY <1>2, <1>4, <1>5, <2>1 DEF Fits, Others
  <2>2. CASE SetFlag(j) \/ DeleteRow(j)
    <3>1. job[k].op \in {"none", "clear"} /\ job'[k] = job[k] /\ Course(job[k])
      BY <1>1, <1>2, <1>4, <1>5, <2>2, Alone DEF SetFlag, DeleteRow, Course, CourseInv, Removing, Others
    <3>2. job[k].pc \notin Removal \cup Pushing \cup {"limit"} \cup Granting
      BY <3>1 DEF Course, Removal, Pushing, Granting, Adding, Marking, Targeted
    <3> QED
      BY <3>1, <3>2 DEF Fits
  <2>3. CASE ClearFlag(j) \/ EnsureCredentials(j) \/ OffClear(j)
    <3>1. user'.status = user.status /\ (~user.exceeded => ~user'.exceeded)
      BY <1>1, <2>3 DEF ClearFlag, EnsureCredentials, MakeKey, OffClear
    <3> QED
      BY <1>2, <1>4, <1>5, <3>1 DEF Fits, Others
  <2> QED
    BY <2>1, <2>2, <2>3 DEF JobStep, db, InsertInstance, ListActive, ReadTargets, ReadStale,
     RemoveEnter, Removed, NoClient, Forget, RemoveFailed, RemovalDone, PushEnter,
     ReadStatus, ReadFlag, WriteQuotaExceeded, PushTargets, ReadCredentials, DropInstance,
     WritePending, ReadNode, Added, Recheck, Undone, MarkSynced, MarkFailed, PushDone, Swept, SweepDone
<1>6. Fits(j)'
  <2>1. Fits(j)
    BY <1>4
  <2>2. ASSUME Ends(j) PROVE Fits(j)'
    BY <2>2, IdleFits DEF Ends
  <2>3. CASE InsertInstance(j)
    BY <1>1, <2>1, <2>2, <2>3, Going, Ending, Passing DEF InsertInstance, Passes, db, Goes, Keeps,
       Course, Fits, Removal, Pushing, Granting, Adding, Marking, Targeted
  <2>4. CASE ListActive(j)
    BY <1>1, <2>1, <2>2, <2>4, Going, Ending, Passing DEF ListActive, Passes, db, Goes, Keeps,
       Course, Fits, Removal, Pushing, Granting, Adding, Marking, Targeted
  <2>5. CASE ClearFlag(j)
    BY <1>1, <2>1, <2>2, <2>5, Going, Ending, Passing DEF ClearFlag, Passes, db, Goes, Keeps,
       Course, Fits, Removal, Pushing, Granting, Adding, Marking, Targeted
  <2>6. CASE DeleteRow(j)
    BY <1>1, <2>1, <2>2, <2>6, Going, Ending, Passing DEF DeleteRow, Passes, db, Goes, Keeps,
       Course, Fits, Removal, Pushing, Granting, Adding, Marking, Targeted
  <2>7. CASE ReadTargets(j)
    BY <1>1, <2>1, <2>2, <2>7, Aiming DEF db, Goes, Keeps, Course, Fits, Removal, Pushing, Granting,
       Adding, Marking, Targeted
  <2>8. CASE ReadStale(j)
    BY <1>1, <2>1, <2>2, <2>8, Sorting DEF db, Goes, Keeps, Course, Fits, Removal, Pushing,
       Granting, Adding, Marking, Targeted
  <2>9. CASE RemoveEnter(j)
    BY <1>1, <2>1, <2>2, <2>9, Going, Ending, Passing DEF RemoveEnter, AfterRemoval, Passes, db,
       Goes, Keeps, Course, Fits, Removal, Pushing, Granting, Adding, Marking, Targeted
  <2>10. CASE Removed(j)
    BY <1>1, <2>1, <2>2, <2>10, Going, Ending, Passing DEF Removed, Passes, db, Goes, Keeps, Course,
       Fits, Removal, Pushing, Granting, Adding, Marking, Targeted
  <2>11. CASE NoClient(j)
    BY <1>1, <2>1, <2>2, <2>11, Going, Ending, Passing DEF NoClient, Passes, db, Goes, Keeps,
       Course, Fits, Removal, Pushing, Granting, Adding, Marking, Targeted
  <2>12. CASE Forget(j)
    BY <1>1, <2>1, <2>2, <2>12, Going, Ending, Passing DEF Forget, Passes, db, Goes, Keeps, Course,
       Fits, Removal, Pushing, Granting, Adding, Marking, Targeted
  <2>13. CASE RemoveFailed(j)
    BY <1>1, <2>1, <2>2, <2>13, Going, Ending, Passing DEF RemoveFailed, Passes, db, Goes, Keeps,
       Course, Fits, Removal, Pushing, Granting, Adding, Marking, Targeted
  <2>14. CASE RemovalDone(j)
    BY <1>1, <2>1, <2>2, <2>14, Going, Ending, Passing DEF RemovalDone, AfterRemoval, Passes, db,
       Goes, Keeps, Course, Fits, Removal, Pushing, Granting, Adding, Marking, Targeted
  <2>15. CASE SetFlag(j)
    BY <1>1, <2>1, <2>2, <2>15, Going, Ending, Passing DEF SetFlag, Passes, db, Goes, Keeps, Course,
       Fits, Removal, Pushing, Granting, Adding, Marking, Targeted
  <2>16. CASE PushEnter(j)
    BY <1>1, <2>1, <2>2, <2>16, Going, Ending, Passing DEF PushEnter, Passes, db, Goes, Keeps,
       Course, Fits, Removal, Pushing, Granting, Adding, Marking, Targeted
  <2>17. CASE ReadStatus(j)
    BY <1>1, <2>1, <2>2, <2>17, Going, Ending, Passing DEF ReadStatus, Passes, db, Goes, Keeps,
       Course, Fits, Removal, Pushing, Granting, Adding, Marking, Targeted
  <2>18. CASE ReadFlag(j)
    BY <1>1, <2>1, <2>2, <2>18, Going, Ending, Passing DEF ReadFlag, Passes, db, Goes, Keeps,
       Course, Fits, Removal, Pushing, Granting, Adding, Marking, Targeted
  <2>19. CASE WriteQuotaExceeded(j)
    BY <1>1, <2>1, <2>2, <2>19, Going, Ending, Passing DEF WriteQuotaExceeded, Passes, db, Goes,
       Keeps, Course, Fits, Removal, Pushing, Granting, Adding, Marking, Targeted
  <2>20. CASE EnsureCredentials(j)
    BY <1>1, <2>1, <2>2, <2>20, Going, Ending, Passing DEF EnsureCredentials, MakeKey, Passes, db,
       Goes, Keeps, Course, Fits, Removal, Pushing, Granting, Adding, Marking, Targeted
  <2>21. CASE PushTargets(j)
    BY <1>1, <2>1, <2>2, <2>21, Targeting DEF db, Goes, Keeps, Course, Fits, Removal, Pushing,
       Granting, Adding, Marking, Targeted
  <2>22. CASE ReadCredentials(j)
    BY <1>1, <2>1, <2>2, <2>22, Reading DEF db, Goes, Keeps, Course, Fits, Removal, Pushing,
       Granting, Adding, Marking, Targeted
  <2>23. CASE WritePending(j)
    BY <1>1, <2>1, <2>2, <2>23, Going, Ending, Passing DEF WritePending, Passes, db, Goes, Keeps,
       Course, Fits, Removal, Pushing, Granting, Adding, Marking, Targeted
  <2>24. CASE ReadNode(j)
    BY <1>1, <2>1, <2>2, <2>24, Going, Ending, Passing DEF ReadNode, Passes, db, Goes, Keeps,
       Course, Fits, Removal, Pushing, Granting, Adding, Marking, Targeted
  <2>25. CASE Added(j)
    BY <1>1, <2>1, <2>2, <2>25, Going, Ending, Passing DEF Added, Passes, db, Goes, Keeps, Course,
       Fits, Removal, Pushing, Granting, Adding, Marking, Targeted
  <2>26. CASE Recheck(j)
    BY <1>1, <2>1, <2>2, <2>26, Going, Ending, Passing DEF Recheck, Passes, db, Goes, Keeps, Course,
       Fits, Removal, Pushing, Granting, Adding, Marking, Targeted
  <2>27. CASE Undone(j)
    BY <1>1, <2>1, <2>2, <2>27, Going, Ending, Passing DEF Undone, Passes, db, Goes, Keeps, Course,
       Fits, Removal, Pushing, Granting, Adding, Marking, Targeted
  <2>28. CASE MarkSynced(j)
    BY <1>1, <2>1, <2>2, <2>28, Going, Ending, Passing DEF MarkSynced, Passes, db, Goes, Keeps,
       Course, Fits, Removal, Pushing, Granting, Adding, Marking, Targeted
  <2>29. CASE MarkFailed(j)
    BY <1>1, <2>1, <2>2, <2>29, Going, Ending, Passing DEF MarkFailed, Passes, db, Goes, Keeps,
       Course, Fits, Removal, Pushing, Granting, Adding, Marking, Targeted
  <2>30. CASE PushDone(j)
    BY <1>1, <2>1, <2>2, <2>30, Going, Ending, Passing DEF PushDone, Passes, db, Goes, Keeps,
       Course, Fits, Removal, Pushing, Granting, Adding, Marking, Targeted
  <2>31. CASE OffClear(j)
    BY <1>1, <2>1, <2>2, <2>31, Clearing DEF db, Goes, Keeps, Course, Fits, Removal, Pushing,
       Granting, Adding, Marking, Targeted
  <2>32. CASE DropInstance(j)
    BY <1>1, <2>1, <2>2, <2>32, Dropping DEF db, Goes, Keeps, Course, Fits, Removal, Pushing,
       Granting, Adding, Marking, Targeted
  <2>33. CASE Swept(j)
    BY <1>1, <2>1, <2>2, <2>33, Going, Ending, Passing DEF Swept, Passes, db, Goes, Keeps, Course,
       Fits, Removal, Pushing, Granting, Adding, Marking, Targeted
  <2>34. CASE SweepDone(j)
    BY <1>1, <2>1, <2>2, <2>34, Going, Ending, Passing DEF SweepDone, Passes, db, Goes, Keeps,
       Course, Fits, Removal, Pushing, Granting, Adding, Marking, Targeted
  <2> QED
    BY <2>3, <2>4, <2>5, <2>6, <2>7, <2>8, <2>9, <2>10, <2>11, <2>12, <2>13, <2>14, <2>15, <2>16,
       <2>17, <2>18, <2>19, <2>20, <2>21, <2>22, <2>23, <2>24, <2>25, <2>26, <2>27, <2>28, <2>29,
       <2>30, <2>31, <2>32, <2>33, <2>34 DEF JobStep
<1> QED
  BY <1>5, <1>6

LEMMA RequestFits ==
  ASSUME TypeOK, CourseInv, ApartInv, FitInv, NEW j \in Jobs, Request(j)
  PROVE  FitInv'
<1>1. /\ job \in JobType(given) /\ CourseInv
      /\ user \in [status : {"active", "disabled", "gone"}, exceeded : BOOLEAN, key : 0..given.key]
  BY Parts DEF Work, Rows
<1>2. SUFFICES ASSUME Orderly' PROVE \A k \in Jobs : Fits(k)'
  BY DEF FitInv
<1>3. ASSUME NEW op \in Ops \ {"none"}, NEW pc \in {"clear", "insert", "drop", "aim", "delete", "list", "reset"},
             NEW inst, NEW todo, Begins(j, op, pc, inst, todo),
             op \in {"enable", "regroup", "retry", "quota", "disable", "reset"} => user'.status # "gone",
             op = "disable" => user'.status = "disabled",
             \/ UNCHANGED user
             \/ op = "enable" /\ user.status # "gone" /\ user' = [user EXCEPT !.status = "active"]
             \/ op = "disable" /\ user.status # "gone" /\ user' = [user EXCEPT !.status = "disabled"]
      PROVE  \A k \in Jobs : Fits(k)'
  <2>1. Orderly /\ (\A k \in Jobs : Alive(k) => ~Conflict(op, job[k].op)) /\ \A k \in Jobs : Fits(k)
    BY <1>2, <1>3, Unnoted DEF Begins, FitInv
  <2>2. Others(j) /\ job'[j].op = op /\ job'[j].pc = pc
    BY <1>3 DEF Begins
  <2>3. Fits(j)'
    BY <1>3, <2>2 DEF Fits, Pushing, Granting, Adding, Marking, Removal
  <2>4. ASSUME NEW k \in Jobs \ {j} PROVE Fits(k)'
    <3>1. job'[k] = job[k] /\ Fits(k) /\ Course(job[k]) /\ (Alive(k) \/ job[k].op = "none")
      BY <1>1, <2>1, <2>2 DEF Others, CourseInv, Course, Alive
    <3>2. CASE UNCHANGED user
      BY <3>1, <3>2 DEF Fits
    <3>3. CASE op = "enable" /\ user.status # "gone" /\ user' = [user EXCEPT !.status = "active"]
      <4>1. job[k].op # "disable"
        BY <2>1, <3>1, <3>3 DEF Conflict, Removing
      <4>2. user'.status = "active" /\ user'.exceeded = user.exceeded
        BY <1>1, <3>3
      <4> QED
        BY <3>1, <3>3, <4>1, <4>2 DEF Fits
    <3>4. CASE op = "disable"
      <4>1. job[k].op \in {"none", "clear"}
        BY <2>1, <3>1, <3>4 DEF Conflict, Removing
      <4>2. job[k].pc \notin Removal \cup Pushing \cup {"limit"} \cup Granting
        BY <3>1, <4>1 DEF Course, Removal, Pushing, Granting, Adding, Marking, Targeted
      <4> QED
        BY <3>1, <4>1, <4>2 DEF Fits
    <3> QED
      BY <1>3, <3>2, <3>3, <3>4
  <2> QED
    BY <2>3, <2>4
<1>4. ASSUME NEW tags, UpdateGroup(j, tags) \/ SetNodes(j, tags) PROVE \A k \in Jobs : Fits(k)'
  <2>1. CASE job' = job /\ mishaps' = Noted("regroup") /\ UNCHANGED user
    BY <1>2, <2>1, Unnoted DEF FitInv, Fits
  <2>2. CASE Start(j, "regroup", "aim", 0, {}) /\ UNCHANGED user /\ user.status # "gone"
    BY <1>1, <1>3, <2>2, Beginning DEF Ops, Removing
  <2> QED
    BY <1>4, <2>1, <2>2 DEF UpdateGroup, SetNodes
<1>5. CASE Enable(j)
  BY <1>1, <1>3, <1>5, Beginning DEF Enable, Ops, Removing
<1>6. CASE Disable(j)
  BY <1>1, <1>3, <1>6, Beginning DEF Disable, Ops, Removing
<1>7. CASE Off(j) \/ Create(j) \/ DeleteInstance(j) \/ Delete(j) \/ StartInit(j)
  <2>1. UNCHANGED user
    BY <1>7 DEF Off, Create, DeleteInstance, Delete, StartInit, db
  <2>2. CASE Off(j)
    BY <1>1, <1>3, <2>1, <2>2, Beginning DEF Off, Ops, Removing
  <2>3. CASE Create(j) \/ DeleteInstance(j)
    BY <1>1, <1>3, <2>1, <2>3, Beginning DEF Create, DeleteInstance, Ops, Removing
  <2>4. CASE Delete(j)
    <3>1. Begins(j, "delete", "delete", instance, allotted) /\ "delete" \in Ops \ {"none"}
      BY <1>1, <2>4, Beginning DEF Delete, Ops, Removing
    <3> QED
      BY <1>3, <2>1, <3>1
  <2>5. CASE StartInit(j)
    BY <1>1, <1>3, <2>1, <2>5, Beginning DEF StartInit, Ops, Removing
  <2> QED
    BY <1>7, <2>2, <2>3, <2>4, <2>5
<1>8. CASE RetryUser(j) \/ CheckQuota(j) \/ ResetQuota(j)
  BY <1>1, <1>3, <1>8, Beginning DEF RetryUser, CheckQuota, ResetQuota, db, Ops, Removing
<1> QED
  BY <1>4, <1>5, <1>6, <1>7, <1>8 DEF Request

LEMMA OtherFits ==
  ASSUME TypeOK, CourseInv, FitInv, On \/ Crash \/ \E j \in Jobs : RpcFails(j) \/ Abandon(j)
  PROVE  FitInv'
<1>1. job \in JobType(given) /\ CourseInv /\ UNCHANGED user
  BY Parts DEF Work, On, Crash, RpcFails, Abandon, db
<1>2. SUFFICES ASSUME Orderly' PROVE \A k \in Jobs : Fits(k)'
  BY DEF FitInv
<1>3. CASE On
  BY <1>1, <1>2, <1>3 DEF On, FitInv, Fits, Orderly
<1>4. CASE Crash
  BY <1>4, IdleFits DEF Crash
<1>5. ASSUME NEW j \in Jobs, RpcFails(j) \/ Abandon(j) PROVE \A k \in Jobs : Fits(k)'
  <2>1. Orderly /\ \A k \in Jobs : Fits(k)
    BY <1>1, <1>2, <1>5, Failing, Abandoning, OrderlyBefore DEF FitInv
  <2>2. ASSUME NEW k \in Jobs \ {j} PROVE Fits(k)'
    BY <1>1, <1>5, <2>1, <2>2, Failing, Abandoning DEF Goes, Passes, Keeps, Ends, Others, Fits
  <2>3. Fits(j)'
    <3>1. CASE Abandon(j)
      BY <1>1, <3>1, Abandoning, IdleFits DEF Ends
    <3>2. CASE RpcFails(j)
      BY <1>1, <2>1, <3>2, Failing DEF Goes, Passes, Keeps, Fits, Pushing, Granting, Adding,
         Marking, Removal
    <3> QED
      BY <1>5, <3>1, <3>2
  <2> QED
    BY <2>2, <2>3
<1> QED
  BY <1>3, <1>4, <1>5

LEMMA InitFits ==
  ASSUME Init PROVE FitInv
BY DEF Init, FitInv, Fits, Idle, Pushing, Granting, Adding, Marking, Removal

-----------------------------------------------------------------------------
(* Whom a goroutine works on: one that adds accounts, on inbounds of the   *)
(* allotment; one that removes what is off target, on none of them.        *)
Aims(j) ==
  /\ job[j].pc = "stale" =>
       /\ IF job[j].inst = instance THEN job[j].todo = allotted ELSE allotted = {}
       /\ job[j].inst = 0 => job[j].todo = {}
  /\ job[j].pc = "delete" => job[j].todo = allotted
  /\ job[j].inst = instance =>
       /\ job[j].pc \in Adding => job[j].todo \subseteq allotted
       /\ job[j].pc \in Removal /\ job[j].op \in Targeted => job[j].todo \cap allotted = {}
AimInv == Orderly => \A j \in Jobs : Aims(j)

Aimless == {"idle", "clear", "insert", "drop", "aim", "list", "reset", "sweep", "flag", "push", "who",
            "limit", "blame", "ensure", "targets"}
LEMMA AimlessAims ==
  ASSUME NEW j \in Jobs, job'[j].pc \in Aimless PROVE Aims(j)'
BY DEF Aims, Aimless, Adding, Marking, Removal

LEMMA ClearAimless ==
  ASSUME NEW r, Course(r), r.op \in {"none", "clear"}, r.pc \in Pcs PROVE r.pc \in Aimless
BY DEF Course, Aimless, Pcs, Adding, Marking, Removal, Pushing, Granting, Targeted

LEMMA CarryAims ==
  ASSUME NEW j \in Jobs, Aims(j), Carries(j), UNCHANGED <<instance, allotted>>,
         \/ job[j].pc \in Removal /\ job'[j].pc \in Removal
         \/ job[j].pc \in Adding /\ job'[j].pc \in Adding
  PROVE  Aims(j)'
BY DEF Aims, Carries, Removal, Adding, Marking

LEMMA StepAims ==
  ASSUME XrayAssumption, TypeOK, JobInv, CourseInv, ApartInv, ListInv, HoldInv, FitInv, AimInv,
         NEW j \in Jobs, JobStep(j)
  PROVE  AimInv'
<1>1. /\ job \in JobType(given) /\ Course(job[j]) /\ CourseInv /\ given.inst \in Nat
      /\ \A k \in Jobs : job[k].inst \in 0..given.inst /\ job[k].pc \in Pcs
  BY Parts DEF Work, CourseInv, Given, XrayAssumption, JobType
<1>2. Others(j) /\ mishaps' = mishaps
  BY <1>1, Continuing
<1>3. SUFFICES ASSUME Orderly' PROVE \A k \in Jobs : Aims(k)'
  BY DEF AimInv
<1>4. Orderly /\ (\A k \in Jobs : Aims(k)) /\ (\A k \in Jobs : Fits(k)) /\ \A k \in Jobs : Held(k)
  BY <1>2, <1>3, OrderlyBefore DEF AimInv, FitInv, HoldInv
<1>5. ASSUME NEW k \in Jobs \ {j} PROVE Aims(k)'
  <2>1. job'[k] = job[k] /\ Aims(k) /\ Held(k) /\ Course(job[k])
    BY <1>1, <1>2, <1>4 DEF Others, CourseInv
  <2>2. CASE UNCHANGED <<instance, listed, allotted>>
    BY <2>1, <2>2 DEF Aims
  <2>3. CASE InsertInstance(j) /\ instance = 0
    <3>1. allotted = {} /\ allotted' = allotted /\ instance' \in {0, given.inst + 1}
      BY <2>3, NothingThere DEF InsertInstance
    <3>2. job[k].inst # given.inst + 1
      BY <1>1
    <3> QED
      BY <2>1, <2>3, <3>1, <3>2 DEF Aims
  <2>4. CASE OffClear(j)
    <3>1. instance' = 0 /\ allotted' = {}
      BY <1>1, <2>4, Clearing
    <3>2. job[k].pc \in Adding /\ job[k].inst = 0 => job[k].todo = {}
      BY <2>1 DEF Held, Holds
    <3>3. job[k].pc # "delete"
      <4>1. job[j].op = "clear"
        BY <1>1, <2>4, Clearing DEF Course
      <4>2. job[k].op # "delete"
        BY <1>1, <1>4, <1>5, <4>1, Alone DEF Removing
      <4> QED
        BY <2>1, <4>2 DEF Course
    <3> QED
      BY <2>1, <3>1, <3>2, <3>3 DEF Aims
  <2>5. CASE DropInstance(j)
    <3>1. job[j].op \in Removing
      BY <1>1, <2>5 DEF DropInstance, Course, Removing
    <3>2. job[k].op \in {"none", "clear"}
      BY <1>4, <3>1, Alone
    <3> QED
      BY <1>1, <2>1, <3>2, ClearAimless, AimlessAims
  <2>6. CASE InsertInstance(j) /\ instance # 0
    BY <2>1, <2>6 DEF InsertInstance, Aims
  <2> QED
    BY <2>2, <2>3, <2>4, <2>5, <2>6, Footprint
<1>6. Aims(j)'
  <2>1. CASE job'[j].pc \in Aimless
    BY <2>1, AimlessAims
  <2>2. CASE ReadTargets(j)
    <3>1. /\ UNCHANGED <<instance, allotted>> /\ job'[j].inst = instance /\ job'[j].op = job[j].op
          /\ job'[j].todo \in TargetSets /\ job[j].pc = "aim"
          /\ job'[j].pc = IF job[j].op \in {"disable", "quota"} THEN "remove" ELSE "stale"
      BY <1>1, <2>2, Aiming DEF db
    <3>2. user.status # "gone"
      BY <1>1, <1>4, <3>1 DEF Fits, Course, Targeted
    <3>3. job'[j].todo = allotted
      BY <3>1, <3>2 DEF TargetSets
    <3>4. instance = 0 => allotted = {}
      BY DEF ListInv
    <3>5. CASE job[j].op \in {"disable", "quota"}
      BY <3>1, <3>5 DEF Aims, Adding, Marking, Targeted
    <3>6. CASE job[j].op \notin {"disable", "quota"}
      BY <3>1, <3>3, <3>4, <3>6 DEF Aims, Adding, Marking, Removal
    <3> QED
      BY <3>5, <3>6
  <2>3. CASE ReadStale(j)
    <3>1. /\ UNCHANGED <<instance, allotted>> /\ job'[j].inst = instance /\ job'[j].pc = "remove"
          /\ job[j].pc = "stale"
          /\ job'[j].todo \cap (IF job[j].inst = instance THEN job[j].todo ELSE {}) = {}
      BY <1>1, <2>3, Sorting DEF db
    <3>2. job'[j].todo \cap allotted = {}
      BY <1>4, <3>1 DEF Aims
    <3> QED
      BY <3>1, <3>2 DEF Aims, Adding, Marking
  <2>4. CASE PushTargets(j) /\ job'[j].pc = "creds"
    <3>1. /\ UNCHANGED <<instance, allotted>> /\ job'[j].todo \in TargetSets
      BY <1>1, <2>4, Targeting DEF db, Ends, Idle
    <3>2. job'[j].todo \subseteq allotted
      BY <3>1 DEF TargetSets
    <3> QED
      BY <2>4, <3>1, <3>2 DEF Aims, Removal
  <2>5. CASE DeleteRow(j)
    <3>1. job[j].op = "delete" /\ job'[j].op \in {"delete", "none"} /\ job'[j].pc \in {"idle", "remove"}
      BY <1>1, <2>5, Going, Ending DEF DeleteRow, Course, Goes, Keeps, Ends, Idle
    <3> QED
      BY <3>1 DEF Aims, Adding, Marking, Targeted
  <2>6. CASE /\ Carries(j)
             /\ \/ job[j].pc \in Removal /\ job'[j].pc \in Removal
                \/ job[j].pc \in Adding /\ job'[j].pc \in Adding
    <3>1. UNCHANGED <<instance, allotted>>
      <4>1. ~InsertInstance(j) /\ ~OffClear(j) /\ ~DropInstance(j)
        BY <2>6 DEF InsertInstance, OffClear, DropInstance, Removal, Adding, Marking
      <4> QED
        BY <4>1, Footprint
    <3> QED
      BY <2>6, <3>1, <1>4, CarryAims
  <2>7. job'[j].pc \in Pcs
    <3>1. TypeOK'
      BY JobStepTyped
    <3> QED
      BY <3>1 DEF TypeOK
  <2>8. job'[j].pc \in Aimless \cup {"stale", "delete"} \cup Removal \cup Adding
    BY <2>7 DEF Pcs, Aimless, Removal, Adding, Marking
  <2>9. job[j].pc = "delete" => DeleteRow(j)
    BY DEF JobStep, InsertInstance, ListActive, ClearFlag, ReadTargets, ReadStale,
     RemoveEnter, Removed, NoClient, Forget, RemoveFailed, RemovalDone, SetFlag, PushEnter,
     ReadStatus, ReadFlag, WriteQuotaExceeded, EnsureCredentials, PushTargets, ReadCredentials,
     WritePending, ReadNode, Added, Recheck, Undone, MarkSynced, MarkFailed, PushDone, OffClear,
     DropInstance, Swept, SweepDone
  <2>10. PushTargets(j) => job'[j].pc \in {"creds", "idle"}
    BY <1>1, Targeting DEF Ends, Idle
  <2> QED
    BY <1>1, <2>1, <2>2, <2>3, <2>4, <2>5, <2>6, <2>8, <2>9, <2>10, Turning DEF Aimless
<1> QED
  BY <1>5, <1>6

LEMMA RequestAims ==
  ASSUME TypeOK, CourseInv, ApartInv, AimInv, NEW j \in Jobs, Request(j)
  PROVE  AimInv'
<1>1. /\ job \in JobType(given) /\ instance' = instance
      /\ \A k \in Jobs : job[k].pc \in Pcs /\ Course(job[k])
  BY Parts, Requesting DEF Work, JobType, CourseInv
<1>2. SUFFICES ASSUME Orderly' PROVE \A k \in Jobs : Aims(k)'
  BY DEF AimInv
<1>3. ASSUME NEW op, NEW pc \in Aimless, NEW inst, NEW todo, Begins(j, op, pc, inst, todo), UNCHANGED allotted
      PROVE  \A k \in Jobs : Aims(k)'
  BY <1>1, <1>2, <1>3, Unnoted, AimlessAims DEF Begins, Others, AimInv, Aims
<1>4. ASSUME NEW tags, UpdateGroup(j, tags) \/ SetNodes(j, tags) PROVE \A k \in Jobs : Aims(k)'
  <2>1. job' = job \/ Begins(j, "regroup", "aim", 0, {})
    BY <1>1, <1>4, Beginning DEF UpdateGroup, SetNodes
  <2>2. \A k \in Jobs : Alive(k) => ~Conflict("regroup", job[k].op)
    BY <1>2, <1>4, Unnoted DEF UpdateGroup, SetNodes, Start
  <2>3. \A k \in Jobs : job[k].pc \in Aimless
    BY <1>1, <2>2, ClearAimless DEF Conflict, Removing, Alive, Course
  <2>4. \A k \in Jobs : job'[k].pc \in Aimless
    BY <2>1, <2>3 DEF Begins, Others, Aimless
  <2> QED
    BY <2>4, AimlessAims
<1>5. CASE Delete(j)
  <2>1. Begins(j, "delete", "delete", instance, allotted) /\ UNCHANGED allotted
    BY <1>1, <1>5, Beginning DEF Delete, db
  <2>2. Aims(j)'
    BY <1>1, <2>1 DEF Begins, Aims, Adding, Marking, Removal
  <2> QED
    BY <1>1, <1>2, <2>1, <2>2, Unnoted DEF Begins, Others, AimInv, Aims
<1>6. CASE Off(j)
  BY <1>1, <1>3, <1>6, Beginning DEF Off, Aimless
<1>7. CASE Create(j) \/ DeleteInstance(j)
  BY <1>1, <1>3, <1>7, Beginning DEF Create, DeleteInstance, Aimless, db
<1>8. CASE Enable(j) \/ Disable(j)
  BY <1>1, <1>3, <1>8, Beginning DEF Enable, Disable, Aimless
<1>9. CASE StartInit(j)
  BY <1>1, <1>3, <1>9, Beginning DEF StartInit, Aimless, db
<1>10. CASE ResetQuota(j)
  BY <1>1, <1>3, <1>10, Beginning DEF ResetQuota, Aimless, db
<1>11. CASE RetryUser(j)
  BY <1>1, <1>3, <1>11, Beginning DEF RetryUser, Aimless, db
<1>12. CASE CheckQuota(j)
  BY <1>1, <1>3, <1>12, Beginning DEF CheckQuota, Aimless, db
<1> QED
  BY <1>4, <1>5, <1>6, <1>7, <1>8, <1>9, <1>10, <1>11, <1>12 DEF Request

LEMMA OtherAims ==
  ASSUME TypeOK, CourseInv, AimInv, On \/ Crash \/ \E j \in Jobs : RpcFails(j) \/ Abandon(j)
  PROVE  AimInv'
<1>1. job \in JobType(given) /\ CourseInv /\ UNCHANGED <<instance, allotted>>
  BY Parts DEF Work, On, Crash, RpcFails, Abandon, db
<1>2. SUFFICES ASSUME Orderly' PROVE \A k \in Jobs : Aims(k)'
  BY DEF AimInv
<1>3. CASE On
  BY <1>1, <1>2, <1>3 DEF On, AimInv, Aims, Orderly
<1>4. CASE Crash
  BY <1>4, AimlessAims DEF Crash, Idle, Aimless
<1>5. ASSUME NEW j \in Jobs, RpcFails(j) \/ Abandon(j) PROVE \A k \in Jobs : Aims(k)'
  <2>1. Orderly /\ \A k \in Jobs : Aims(k)
    BY <1>1, <1>2, <1>5, Failing, Abandoning, OrderlyBefore DEF AimInv
  <2>2. ASSUME NEW k \in Jobs \ {j} PROVE Aims(k)'
    BY <1>1, <1>5, <2>1, <2>2, Failing, Abandoning DEF Goes, Passes, Keeps, Ends, Others, Aims
  <2>3. Aims(j)'
    <3>1. CASE Abandon(j)
      BY <1>1, <3>1, Abandoning, AimlessAims DEF Ends, Idle, Aimless
    <3>2. CASE RpcFails(j) /\ job[j].pc = "sweep"
      BY <1>1, <3>2, Failing, AimlessAims DEF Passes, Keeps, Aimless
    <3>3. CASE RpcFails(j) /\ job[j].pc # "sweep"
      <4>1. Carries(j) /\ \/ job[j].pc \in Removal /\ job'[j].pc \in Removal
                          \/ job[j].pc \in Adding /\ job'[j].pc \in Adding
        BY <1>1, <3>3, Failing DEF Goes, Keeps, Carries, Removal, Adding, Marking
      <4> QED
        BY <4>1, <1>1, <2>1, CarryAims
    <3> QED
      BY <1>5, <3>1, <3>2, <3>3
  <2> QED
    BY <2>2, <2>3
<1> QED
  BY <1>3, <1>4, <1>5

LEMMA InitAims ==
  ASSUME Init PROVE AimInv
BY DEF Init, AimInv, Aims, Idle, Adding, Marking, Removal

-----------------------------------------------------------------------------
(* A sweep is of an instance that is no longer there; and after a deletion *)
(* no other instance is there yet.                                         *)
Sweeps(j) ==
  job[j].pc = "sweep" =>
    /\ instance # 0 => job[j].inst # instance
    /\ Orderly /\ job[j].op = "drop" => instance = 0
SweepInv == \A j \in Jobs : Sweeps(j)

LEMMA StepSweeps ==
  ASSUME XrayAssumption, TypeOK, JobInv, CourseInv, ApartInv, SweepInv, NEW j \in Jobs, JobStep(j)
  PROVE  SweepInv'
<1>1. /\ job \in JobType(given) /\ CourseInv /\ given.inst \in Nat
      /\ \A k \in Jobs : job[k].inst \in 0..given.inst
  BY Parts DEF Work, Given, XrayAssumption, JobType
<1>2. Others(j) /\ mishaps' = mishaps
  BY <1>1, Continuing
<1>3. ASSUME NEW k \in Jobs \ {j} PROVE Sweeps(k)'
  <2>1. job'[k] = job[k] /\ Sweeps(k) /\ (Orderly' => Orderly) /\ job[k].inst # given.inst + 1
    BY <1>1, <1>2 DEF Others, SweepInv, Orderly
  <2>2. CASE instance' = instance
    BY <2>1, <2>2 DEF Sweeps
  <2>3. CASE OffClear(j) \/ DropInstance(j)
    BY <1>1, <2>1, <2>3, Clearing, Dropping DEF Sweeps
  <2>4. CASE InsertInstance(j)
    <3>1. Orderly => job[k].op # "drop"
      BY <1>1, <1>3, <2>4, Alone DEF InsertInstance, CourseInv, Course, Removing
    <3>2. instance' \in {instance, given.inst + 1}
      BY <2>4 DEF InsertInstance
    <3> QED
      BY <2>1, <3>1, <3>2 DEF Sweeps
  <2> QED
    BY <2>2, <2>3, <2>4, Footprint
<1>4. Sweeps(j)'
  <2>1. CASE job'[j].pc # "sweep"
    BY <2>1 DEF Sweeps
  <2>2. CASE OffClear(j)
    BY <1>1, <2>2, Clearing DEF Sweeps
  <2>3. CASE DropInstance(j) /\ job'[j].pc = "sweep"
    <3>1. instance' = 0 \/ Ends(j)
      BY <1>1, <2>3, Dropping
    <3> QED
      BY <2>3, <3>1 DEF Sweeps, Ends, Idle
  <2>4. CASE job[j].pc = "sweep" /\ Carries(j)
    <3>1. instance' = instance
      BY <2>4, Footprint DEF InsertInstance, OffClear, DropInstance
    <3> QED
      BY <2>4, <3>1, <1>2 DEF Carries, Sweeps, SweepInv, Orderly
  <2> QED
    BY <1>1, <2>1, <2>2, <2>3, <2>4, Turning
<1> QED
  BY <1>3, <1>4 DEF SweepInv

LEMMA OtherSweeps ==
  ASSUME TypeOK, SweepInv,
         On \/ Crash \/ \E j \in Jobs : Request(j) \/ RpcFails(j) \/ Abandon(j)
  PROVE  SweepInv'
<1>1. job \in JobType(given)
  BY Parts DEF Work
<1>2. CASE On
  BY <1>2 DEF On, SweepInv, Sweeps, Orderly
<1>3. CASE Crash
  BY <1>3 DEF Crash, SweepInv, Sweeps, Idle
<1>4. ASSUME NEW j \in Jobs, Request(j) PROVE SweepInv'
  <2>1. instance' = instance /\ (Orderly' => Orderly)
    BY <1>1, <1>4, Requesting DEF Begins, Noted, Orderly
  <2>2. CASE job' = job
    BY <2>1, <2>2 DEF SweepInv, Sweeps
  <2>3. ASSUME NEW op, NEW pc, NEW inst, NEW todo, Begins(j, op, pc, inst, todo), pc # "sweep"
        PROVE  SweepInv'
    BY <2>1, <2>3 DEF Begins, Others, SweepInv, Sweeps
  <2> QED
    BY <1>1, <1>4, <2>2, <2>3, Requesting
<1>5. ASSUME NEW j \in Jobs, RpcFails(j) \/ Abandon(j) PROVE SweepInv'
  <2>1. UNCHANGED instance /\ (Orderly' => Orderly) /\ Others(j)
        /\ (job'[j].pc = "sweep" => job[j].pc = "sweep" /\ job'[j].inst = job[j].inst /\ job'[j].op = job[j].op)
    BY <1>1, <1>5, Failing, Abandoning DEF Goes, Passes, Keeps, Ends, Idle, db, Orderly
  <2> QED
    BY <2>1 DEF Others, SweepInv, Sweeps
<1> QED
  BY <1>2, <1>3, <1>4, <1>5

LEMMA InitSweeps ==
  ASSUME Init PROVE SweepInv
BY DEF Init, SweepInv, Sweeps, Idle

-----------------------------------------------------------------------------
(* Which steps take a record away, and which change an account.            *)
LEMMA RecordSteps ==
  ASSUME NEW j \in Jobs, JobStep(j)
  PROVE  \/ DOMAIN records \subseteq DOMAIN records'
         \/ Forget(j) \/ DeleteRow(j) \/ OffClear(j) \/ DropInstance(j)
BY DEF JobStep, db, InsertInstance, ListActive, ClearFlag, ReadTargets, ReadStale,
     RemoveEnter, Removed, NoClient, RemoveFailed, RemovalDone, SetFlag, PushEnter, Upsert,
     ReadStatus, ReadFlag, WriteQuotaExceeded, EnsureCredentials, PushTargets, ReadCredentials,
     WritePending, ReadNode, Added, Recheck, Undone, MarkSynced, MarkFailed, PushDone, Swept, SweepDone

Clears(j) == account' = [account EXCEPT ![At(j)] = 0]
LEMMA AccountSteps ==
  ASSUME job \in JobType(given), NEW j \in Jobs, JobStep(j)
  PROVE  \/ account' = account
         \/ /\ UNCHANGED db
            /\ \/ Removed(j) /\ Clears(j) /\ Goes(j, "forget")
               \/ Undone(j) /\ Clears(j) /\ Goes(j, "failed")
               \/ Swept(j) /\ Clears(j) /\ Passes(j, "sweep")
               \/ Added(j) /\ account' = AddEffect(j) /\ Goes(j, "recheck")
BY Going, Passing DEF Clears, JobStep, db, InsertInstance, ListActive, ClearFlag, DeleteRow,
   ReadTargets, ReadStale,
     RemoveEnter, Removed, NoClient, Forget, RemoveFailed, RemovalDone, SetFlag, PushEnter,
     ReadStatus, ReadFlag, WriteQuotaExceeded, EnsureCredentials, PushTargets, ReadCredentials,
     WritePending, ReadNode, Added, Recheck, Undone, MarkSynced, MarkFailed, PushDone, OffClear,
     DropInstance, Swept, SweepDone

(* Two goroutines that hold the present instance, one that removes and one *)
(* that adds, are at different inbounds.                                   *)
LEMMA Disjoint ==
  ASSUME XrayAssumption, TypeOK, CourseInv, ApartInv, AimInv, Orderly,
         NEW j \in Jobs, job[j].pc \in Removal, job[j].inst = instance,
         NEW k \in Jobs, job[k].pc \in Adding, job[k].inst = instance
  PROVE  job[j].todo \cap job[k].todo = {}
<1>1. j # k /\ Course(job[j]) /\ Course(job[k])
  BY DEF Removal, Adding, Marking, CourseInv
<1>2. job[k].op \notin {"none", "clear"}
  BY <1>1 DEF Course, Pushing, Granting, Targeted
<1>3. job[j].op \notin Removing
  BY <1>1, <1>2, Alone
<1>4. job[j].op \in Targeted
  BY <1>1, <1>3 DEF Course, Removing
<1>5. job[j].todo \cap allotted = {} /\ job[k].todo \subseteq allotted
  BY <1>4 DEF AimInv, Aims
<1> QED
  BY <1>5

-----------------------------------------------------------------------------
(* A goroutine that has written a record for its inbound finds it there as *)
(* long as the user and the instance are.                                  *)
Records(j) == job[j].pc \in Marking /\ Insertable(j) => At(j) \in DOMAIN records
RecordInv == Orderly => \A j \in Jobs : Records(j)

(* What cannot be inserted stays so.                                       *)
LEMMA InsertableBefore ==
  ASSUME XrayAssumption, TypeOK, NEW k \in Jobs, job'[k].inst = job[k].inst, Insertable(k)',
         instance' \in {0, instance, given.inst + 1},
         user'.status # "gone" => user.status # "gone"
  PROVE  Insertable(k) /\ instance' = instance
<1>1. given.inst \in Nat /\ job[k].inst \in 0..given.inst
  BY Parts DEF Given, Work, JobType, XrayAssumption
<1> QED
  BY <1>1 DEF Insertable

LEMMA StepKeepsOut ==
  ASSUME TypeOK, NEW j \in Jobs, JobStep(j)
  PROVE  /\ instance' \in {0, instance, given.inst + 1}
         /\ user'.status # "gone" => user.status # "gone"
<1>1. user \in [status : {"active", "disabled", "gone"}, exceeded : BOOLEAN, key : 0..given.key]
      /\ job \in JobType(given)
  BY Parts DEF Rows, Work
<1>2. instance' \in {0, instance, given.inst + 1}
  BY <1>1, Footprint, Clearing, Dropping
<1>3. user'.status # "gone" => user.status # "gone"
  <2>1. CASE ClearFlag(j) \/ EnsureCredentials(j)
    BY <1>1, <2>1 DEF ClearFlag, EnsureCredentials, MakeKey
  <2>2. CASE SetFlag(j) \/ DeleteRow(j)
    BY <1>1, <2>2 DEF SetFlag, DeleteRow
  <2>3. CASE OffClear(j)
    BY <1>1, <2>3, Clearing
  <2>4. CASE UNCHANGED user
    BY <2>4
  <2> QED
    BY <2>1, <2>2, <2>3, <2>4 DEF JobStep, db, InsertInstance, ListActive, ReadTargets, ReadStale,
     RemoveEnter, Removed, NoClient, Forget, RemoveFailed, RemovalDone, PushEnter,
     ReadStatus, ReadFlag, WriteQuotaExceeded, PushTargets, ReadCredentials,
     WritePending, ReadNode, Added, Recheck, Undone, MarkSynced, MarkFailed, PushDone,
     DropInstance, Swept, SweepDone
<1> QED
  BY <1>2, <1>3

(* The steps of a push that has its targets.                               *)
LEMMA AddingSteps ==
  ASSUME NEW j \in Jobs, JobStep(j), job[j].pc \in Adding
  PROVE  \/ ReadCredentials(j) \/ WritePending(j) \/ ReadNode(j) \/ Added(j) \/ Recheck(j)
         \/ Undone(j) \/ MarkSynced(j) \/ MarkFailed(j) \/ PushDone(j)
BY DEF Adding, Marking, JobStep, InsertInstance, ListActive, ClearFlag, DeleteRow, ReadTargets,
   ReadStale,
     RemoveEnter, Removed, NoClient, Forget, RemoveFailed, RemovalDone, SetFlag, PushEnter,
     ReadStatus, ReadFlag, WriteQuotaExceeded, EnsureCredentials, PushTargets, OffClear,
     DropInstance, Swept, SweepDone

LEMMA StepRecords ==
  ASSUME XrayAssumption, TypeOK, JobInv, CourseInv, ApartInv, AimInv, RecordInv,
         NEW j \in Jobs, JobStep(j)
  PROVE  RecordInv'
<1>1. /\ job \in JobType(given) /\ CourseInv
      /\ \A k \in Jobs : job[k].pc \in Marking \cup {"forget"} => At(k) \in job[k].todo
  BY Parts, AtElement DEF Work, JobInv, AtPcs, Marking
<1>2. Others(j) /\ mishaps' = mishaps
  BY <1>1, Continuing
<1>3. SUFFICES ASSUME Orderly', NEW k \in Jobs, job'[k].pc \in Marking, Insertable(k)'
               PROVE  Min(job'[k].todo) \in DOMAIN records'
  BY DEF RecordInv, Records, At
<1>4. Orderly /\ \A i \in Jobs : Records(i)
  BY <1>2, <1>3, OrderlyBefore DEF RecordInv
<1>5. \/ job[k].pc \in Marking /\ job'[k].inst = job[k].inst /\ job'[k].todo = job[k].todo
      \/ k = j /\ WritePending(j) /\ Goes(j, "view") /\ Upsert(j, "pending") /\ Insertable(j)
  <2>1. CASE k # j
    BY <1>2, <1>3, <2>1 DEF Others
  <2>2. CASE WritePending(j) /\ k = j
    <3>1. CASE advanced /\ Insertable(j)
      BY <1>1, <2>2, <3>1, Going DEF WritePending
    <3>2. CASE ~(advanced /\ Insertable(j))
      <4>1. job'[j].pc \in {"idle", "pushing"}
        BY <1>1, <2>2, <3>2, Ending, Passing DEF WritePending, Ends, Idle, Passes, Keeps
      <4> QED
        BY <2>2, <4>1, <1>3 DEF Marking
    <3> QED
      BY <3>1, <3>2
  <2>3. CASE Added(j) \/ Recheck(j) \/ Undone(j)
    BY <1>1, <1>3, <2>1, <2>3, Going DEF Added, Recheck, Undone, Goes, Keeps, Marking
  <2>4. CASE ReadNode(j) /\ k = j
    <3>1. Goes(j, "adding") \/ Passes(j, "pushing")
      BY <1>1, <2>4, Going, Passing DEF ReadNode
    <3> QED
      BY <1>3, <2>4, <3>1 DEF ReadNode, Goes, Passes, Keeps, Marking
  <2>5. CASE MarkSynced(j) \/ MarkFailed(j) \/ PushDone(j)
    <3>1. job'[j].pc \in {"pushing", "idle"}
      BY <1>1, <2>5, Passing, Ending DEF MarkSynced, MarkFailed, PushDone, Passes, Keeps, Ends, Idle
    <3> QED
      BY <1>3, <2>1, <3>1 DEF Marking
  <2>6. CASE job'[j].pc \in {"idle", "creds", "pushing"}
    BY <1>3, <2>1, <2>6 DEF Marking
  <2>7. CASE PushTargets(j) \/ ReadCredentials(j)
    <3>1. job'[j].pc \in {"idle", "creds", "pushing"}
      BY <1>1, <2>7, Targeting, Reading DEF Ends, Idle
    <3> QED
      BY <2>6, <3>1
  <2>8. CASE job[j].pc \notin Adding /\ ~PushTargets(j)
    BY <1>1, <1>3, <2>1, <2>8, Turning DEF Adding
  <2>9. job[j].pc \in Adding =>
          \/ ReadCredentials(j) \/ WritePending(j) \/ ReadNode(j) \/ Added(j) \/ Recheck(j)
          \/ Undone(j) \/ MarkSynced(j) \/ MarkFailed(j) \/ PushDone(j)
    BY AddingSteps
  <2> QED
    BY <2>1, <2>2, <2>3, <2>4, <2>5, <2>7, <2>8, <2>9
<1>6. CASE k = j /\ WritePending(j) /\ Goes(j, "view") /\ Upsert(j, "pending") /\ Insertable(j)
  BY <1>6 DEF Upsert, Goes, At
<1>7. CASE job[k].pc \in Marking /\ job'[k].inst = job[k].inst /\ job'[k].todo = job[k].todo
  <2>1. Insertable(k) /\ instance' = instance
    BY <1>3, <1>7, StepKeepsOut, InsertableBefore
  <2>2. At(k) \in DOMAIN records /\ Min(job'[k].todo) = At(k)
    BY <1>4, <1>7, <2>1 DEF Records, At
  <2>3. CASE DOMAIN records \subseteq DOMAIN records'
    BY <2>2, <2>3
  <2>4. CASE DeleteRow(j) \/ OffClear(j) \/ DropInstance(j)
    <3>1. CASE DeleteRow(j)
      BY <1>3, <3>1 DEF DeleteRow, Insertable
    <3>2. CASE OffClear(j)
      BY <1>1, <1>3, <3>2, Clearing DEF Insertable
    <3>3. CASE DropInstance(j)
      BY <1>1, <1>3, <2>2, <3>3, Dropping DEF Insertable
    <3> QED
      BY <2>4, <3>1, <3>2, <3>3
  <2>5. CASE Forget(j)
    <3>1. CASE job[j].inst = instance
      <4>1. job[j].pc = "forget" /\ records' = [t \in DOMAIN records \ {At(j)} |-> records[t]]
        BY <2>5, <3>1 DEF Forget
      <4>2. job[j].todo \cap job[k].todo = {}
        BY <1>1, <1>4, <1>7, <2>1, <3>1, <4>1, Disjoint DEF Removal, Adding, Insertable
      <4>3. At(j) # At(k)
        BY <1>1, <1>7, <4>1, <4>2
      <4> QED
        BY <2>2, <4>1, <4>3
    <3>2. CASE job[j].inst # instance
      BY <2>2, <2>5, <3>2 DEF Forget
    <3> QED
      BY <3>1, <3>2
  <2> QED
    BY <2>3, <2>4, <2>5, RecordSteps
<1> QED
  BY <1>5, <1>6, <1>7

LEMMA OtherRecords ==
  ASSUME TypeOK, RecordInv, On \/ Crash \/ \E j \in Jobs : Request(j) \/ RpcFails(j) \/ Abandon(j)
  PROVE  RecordInv'
<1>1. job \in JobType(given)
      /\ user \in [status : {"active", "disabled", "gone"}, exceeded : BOOLEAN, key : 0..given.key]
  BY Parts DEF Work, Rows
<1>2. UNCHANGED <<instance, records>> /\ (user'.status # "gone" => user.status # "gone")
  <2>1. CASE On \/ Crash \/ \E j \in Jobs : RpcFails(j) \/ Abandon(j)
    BY <2>1 DEF On, Crash, RpcFails, Abandon, db
  <2>2. ASSUME NEW j \in Jobs, Request(j)
        PROVE  UNCHANGED <<instance, records>> /\ (user'.status # "gone" => user.status # "gone")
    <3>1. UNCHANGED user \/ Enable(j) \/ Disable(j)
      BY <2>2 DEF Request, Off, Create, DeleteInstance, Delete, UpdateGroup, SetNodes,
         StartInit, RetryUser, CheckQuota, ResetQuota, db
    <3> QED
      BY <1>1, <2>2, <3>1, Requesting DEF Enable, Disable
  <2> QED
    BY <2>1, <2>2
<1>3. SUFFICES ASSUME Orderly', NEW k \in Jobs, job'[k].pc \in Marking, Insertable(k)'
               PROVE  Min(job'[k].todo) \in DOMAIN records'
  BY DEF RecordInv, Records, At
<1>4. Orderly
  <2>1. mishaps \subseteq mishaps'
    BY <1>1, Requesting, Failing, Abandoning DEF On, Crash, Begins, Noted
  <2> QED
    BY <1>3, <2>1, OrderlyBefore
<1>5. job[k].pc \in Marking /\ job'[k].inst = job[k].inst /\ job'[k].todo = job[k].todo
  <2>1. CASE On
    BY <1>3, <2>1 DEF On
  <2>2. CASE Crash
    BY <1>3, <2>2 DEF Crash, Idle, Marking
  <2>3. ASSUME NEW j \in Jobs, RpcFails(j) PROVE job[k].pc \in Marking /\ job'[k].inst = job[k].inst /\ job'[k].todo = job[k].todo
    BY <1>1, <1>3, <2>3, Failing DEF Goes, Passes, Keeps, Others, Marking
  <2>4. ASSUME NEW j \in Jobs, Abandon(j) PROVE job[k].pc \in Marking /\ job'[k].inst = job[k].inst /\ job'[k].todo = job[k].todo
    BY <1>1, <1>3, <2>4, Abandoning DEF Ends, Idle, Others, Marking
  <2>5. ASSUME NEW j \in Jobs, Request(j) PROVE job[k].pc \in Marking /\ job'[k].inst = job[k].inst /\ job'[k].todo = job[k].todo
    <3>1. CASE job' = job
      BY <1>3, <3>1
    <3>2. ASSUME NEW op, NEW pc \in {"clear", "insert", "drop", "aim", "delete", "list", "reset"},
                 NEW inst, NEW todo, Begins(j, op, pc, inst, todo)
          PROVE  job[k].pc \in Marking /\ job'[k].inst = job[k].inst /\ job'[k].todo = job[k].todo
      BY <1>3, <3>2 DEF Begins, Others, Marking
    <3> QED
      BY <1>1, <2>5, <3>1, <3>2, Requesting
  <2> QED
    BY <2>1, <2>2, <2>3, <2>4, <2>5
<1> QED
  BY <1>2, <1>3, <1>4, <1>5 DEF RecordInv, Records, Insertable, At

LEMMA InitRecords ==
  ASSUME Init PROVE RecordInv
BY DEF Init, RecordInv, Records, Idle, Marking

-----------------------------------------------------------------------------
(* Once the call has removed an account, the account is not there until    *)
(* the record is gone as well.                                             *)
Forgets(j) == job[j].pc = "forget" /\ job[j].inst = instance => account[At(j)] = 0
ForgetInv == Orderly => \A j \in Jobs : Forgets(j)

LEMMA AddEffectElsewhere ==
  ASSUME TypeOK, NEW j \in Jobs, account' = AddEffect(j), NEW t \in Tags, t # At(j)
  PROVE  account'[t] = account[t]
BY DEF TypeOK, AddEffect

LEMMA ClearsElsewhere ==
  ASSUME TypeOK, NEW j \in Jobs, Clears(j), NEW t \in Tags
  PROVE  account'[t] \in {0, account[t]} /\ (t = At(j) => account'[t] = 0)
         /\ (t # At(j) => account'[t] = account[t])
BY DEF TypeOK, Clears

(* While one is about to forget an account, another adds one elsewhere.    *)
LEMMA AddsElsewhere ==
  ASSUME XrayAssumption, TypeOK, JobInv, CourseInv, ApartInv, HoldInv, AimInv, ClearedInv, Orderly,
         NEW j \in Jobs, job[j].pc = "adding",
         NEW k \in Jobs, job[k].pc = "forget", job[k].inst = instance
  PROVE  At(j) # At(k)
<1>1. /\ At(j) \in job[j].todo /\ At(k) \in job[k].todo
      /\ job[j].todo # {} /\ job[k].todo # {}
  BY AtElement DEF JobInv, AtPcs
<1>2. Holds(j) /\ Holds(k)
  BY <1>1 DEF Holds, Adding, Marking, Removal
<1>3. job[k].inst # 0
  BY <1>2 DEF HoldInv, Held
<1>4. ~Cleared
  BY <1>3 DEF ClearedInv, Unable, Writers
<1>5. job[j].inst = instance
  BY <1>2, <1>4 DEF HoldInv, Held
<1>6. job[k].todo \cap job[j].todo = {}
  BY <1>5, Disjoint DEF Removal, Adding, Marking
<1> QED
  BY <1>1, <1>6

LEMMA StepForgets ==
  ASSUME XrayAssumption, TypeOK, JobInv, CourseInv, ApartInv, HoldInv, AimInv, ClearedInv, ForgetInv,
         NEW j \in Jobs, JobStep(j)
  PROVE  ForgetInv'
<1>1. /\ job \in JobType(given) /\ given.inst \in Nat
      /\ \A k \in Jobs : job[k].inst \in 0..given.inst
      /\ \A k \in Jobs : job[k].pc \in {"forget", "adding", "removing", "undo"} /\ job[k].todo # {} => At(k) \in Tags
      /\ \A k \in Jobs : job[k].pc \in {"forget", "adding", "undo"} => job[k].todo # {}
  BY Parts, AtElement DEF Work, JobType, Given, XrayAssumption, JobInv, AtPcs
<1>2. Others(j) /\ mishaps' = mishaps
  BY <1>1, Continuing
<1>3. SUFFICES ASSUME Orderly', NEW k \in Jobs, job'[k].pc = "forget", job'[k].inst = instance'
               PROVE  account'[Min(job'[k].todo)] = 0
  BY DEF ForgetInv, Forgets, At
<1>4. Orderly /\ \A i \in Jobs : Forgets(i) /\ Held(i)
  BY <1>2, <1>3, OrderlyBefore DEF ForgetInv, HoldInv
<1>5. CASE k = j
  \* it has just removed it
  <2>1. Removed(j)
    BY <1>1, <1>3, <1>5, Turning
  <2>2. Goes(j, "forget") /\ Clears(j) /\ At(j) \in Tags
    BY <1>1, <2>1, Going DEF Removed, Clears
  <2> QED
    BY <1>5, <2>2, ClearsElsewhere DEF Goes, At
<1>6. CASE k # j
  <2>1. job'[k] = job[k] /\ job[k].inst # 0 /\ At(k) \in Tags /\ Min(job'[k].todo) = At(k)
    BY <1>1, <1>2, <1>3, <1>4, <1>6 DEF Others, Held, Holds, Removal, At
  <2>2. instance' = instance
    BY <1>1, <1>3, <2>1, StepKeepsOut
  <2>3. account[At(k)] = 0
    BY <1>3, <1>4, <2>1, <2>2 DEF Forgets
  <2>4. CASE account' = account
    BY <2>1, <2>3, <2>4
  <2>5. CASE Clears(j)
    BY <2>1, <2>3, <2>5, ClearsElsewhere
  <2>6. CASE Added(j) /\ account' = AddEffect(j)
    <3>1. At(j) # At(k)
      BY <1>3, <1>4, <2>1, <2>2, <2>6, AddsElsewhere DEF Added
    <3> QED
      BY <2>1, <2>3, <2>6, <3>1, AddEffectElsewhere
  <2> QED
    BY <1>1, <2>4, <2>5, <2>6, AccountSteps
<1> QED
  BY <1>5, <1>6

LEMMA OtherForgets ==
  ASSUME XrayAssumption, TypeOK, JobInv, CourseInv, ApartInv, HoldInv, AimInv, ClearedInv, ForgetInv,
         On \/ Crash \/ \E j \in Jobs : Request(j) \/ RpcFails(j) \/ Abandon(j)
  PROVE  ForgetInv'
<1>1. /\ job \in JobType(given)
      /\ \A k \in Jobs : job[k].pc \in {"forget", "adding"} => job[k].todo # {} /\ At(k) \in Tags
  BY Parts, AtElement DEF Work, JobInv, AtPcs
<1>2. CASE On
  BY <1>2 DEF On, ForgetInv, Forgets, Orderly, At
<1>3. CASE Crash
  BY <1>3 DEF Crash, ForgetInv, Forgets, Idle
<1>4. ASSUME NEW j \in Jobs, Request(j) PROVE ForgetInv'
  <2>1. UNCHANGED <<instance, account>> /\ (Orderly' => Orderly)
    BY <1>1, <1>4, Requesting DEF Begins, Noted, Orderly
  <2>2. CASE job' = job
    BY <2>1, <2>2 DEF ForgetInv, Forgets, At
  <2>3. ASSUME NEW op, NEW pc, NEW inst, NEW todo, Begins(j, op, pc, inst, todo), pc # "forget"
        PROVE  ForgetInv'
    BY <2>1, <2>3 DEF Begins, Others, ForgetInv, Forgets, At
  <2> QED
    BY <1>1, <1>4, <2>2, <2>3, Requesting
<1>5. ASSUME NEW j \in Jobs, Abandon(j) PROVE ForgetInv'
  BY <1>1, <1>5, Abandoning DEF Ends, Idle, Others, ForgetInv, Forgets, At, db, Orderly
<1>6. ASSUME NEW j \in Jobs, RpcFails(j) PROVE ForgetInv'
  <2>1. SUFFICES ASSUME Orderly', NEW k \in Jobs, job'[k].pc = "forget", job'[k].inst = instance'
                 PROVE  account'[Min(job'[k].todo)] = 0
    BY DEF ForgetInv, Forgets, At
  <2>2. Orderly /\ UNCHANGED instance
    BY <1>1, <1>6, <2>1, Failing DEF Orderly, db
  <2>3. job'[k] = job[k] /\ Min(job'[k].todo) = At(k) /\ At(k) \in Tags
    BY <1>1, <1>6, <2>1, Failing DEF Goes, Passes, Keeps, Others, At
  <2>4. account[At(k)] = 0
    BY <2>1, <2>2, <2>3 DEF ForgetInv, Forgets
  <2>5. CASE Clears(j) \/ account' = account
    BY <2>3, <2>4, <2>5, ClearsElsewhere
  <2>6. CASE job[j].pc = "adding" /\ account' = AddEffect(j)
    BY <2>1, <2>2, <2>3, <2>4, <2>6, AddsElsewhere, AddEffectElsewhere
  <2> QED
    BY <1>1, <1>6, <2>3, <2>5, <2>6, Failing DEF Clears
<1> QED
  BY <1>2, <1>3, <1>4, <1>5, <1>6

LEMMA InitForgets ==
  ASSUME Init PROVE ForgetInv
BY DEF Init, ForgetInv, Forgets, Idle

-----------------------------------------------------------------------------
(* A removal complains after a failed call only; a push has an account     *)
(* marked as failed after a failed call, or where it was taken back.       *)
Fails(j) ==
  /\ job[j].pc = "complain" => mishaps # {}
  /\ job[j].pc = "failed" => mishaps # {} \/ ~advanced
FailInv == \A j \in Jobs : Fails(j)

LEMMA StepFails ==
  ASSUME TypeOK, JobInv, ApartInv, FailInv, NEW j \in Jobs, JobStep(j)
  PROVE  FailInv'
<1>1. job \in JobType(given)
  BY Parts DEF Work
<1>2. Others(j) /\ UNCHANGED <<advanced, mishaps>> /\ job'[j].pc # "complain"
      /\ (job'[j].pc = "failed" => job[j].pc = "undo")
  BY <1>1, Continuing, Turning
<1>3. job[j].pc = "undo" => mishaps # {} \/ ~advanced
  BY DEF ApartInv, Orderly
<1> QED
  BY <1>2, <1>3 DEF FailInv, Fails, Others

LEMMA OtherFails ==
  ASSUME TypeOK, FailInv, On \/ Crash \/ \E j \in Jobs : Request(j) \/ RpcFails(j) \/ Abandon(j)
  PROVE  FailInv'
<1>1. job \in JobType(given)
  BY Parts DEF Work
<1>2. CASE On
  BY <1>2 DEF On, FailInv, Fails, Quiet, Alive
<1>3. CASE Crash
  BY <1>3 DEF Crash, FailInv, Fails
<1>4. ASSUME NEW j \in Jobs, RpcFails(j) \/ Abandon(j) PROVE FailInv'
  BY <1>1, <1>4, Failing, Abandoning DEF FailInv, Fails
<1>5. ASSUME NEW j \in Jobs, Request(j) PROVE FailInv'
  <2>1. mishaps \subseteq mishaps' /\ (advanced' => advanced)
    BY <1>1, <1>5, Requesting DEF Begins, Noted
  <2>2. CASE job' = job
    BY <2>1, <2>2 DEF FailInv, Fails
  <2>3. ASSUME NEW op, NEW pc \in {"clear", "insert", "drop", "aim", "delete", "list", "reset"},
               NEW inst, NEW todo, Begins(j, op, pc, inst, todo)
        PROVE  FailInv'
    BY <2>1, <2>3 DEF Begins, Others, FailInv, Fails
  <2> QED
    BY <1>1, <1>5, <2>2, <2>3, Requesting
<1> QED
  BY <1>2, <1>3, <1>4, <1>5

LEMMA InitFails ==
  ASSUME Init PROVE FailInv
BY DEF Init, FailInv, Fails, Idle

-----------------------------------------------------------------------------
(* What has been shown so far, which does not need what follows.           *)
Ground ==
  /\ TypeOK /\ JobInv /\ CourseInv /\ ApartInv /\ ClearedInv /\ ListInv /\ HoldInv /\ FitInv
  /\ AimInv /\ SweepInv /\ RecordInv /\ ForgetInv /\ FailInv

LEMMA InitGround ==
  ASSUME XrayAssumption, Init PROVE Ground
BY InitTyped, InitJobs, InitCourse, InitApart, InitCleared, InitList, InitHold, InitFits, InitAims,
   InitSweeps, InitRecords, InitForgets, InitFails DEF Ground

LEMMA StepGround ==
  ASSUME XrayAssumption, Ground, NEW j \in Jobs, JobStep(j) PROVE Ground'
<1>1. [Next]_vars
  BY DEF Next
<1>2. TypeOK' /\ JobInv' /\ ClearedInv'
  BY <1>1, NextTyped, NextCleared DEF Ground
<1>3. CourseInv' /\ ApartInv' /\ ListInv' /\ HoldInv' /\ FitInv'
  BY StepCourse, StepApart, StepList, StepHold, StepFits DEF Ground
<1>4. AimInv' /\ SweepInv' /\ RecordInv' /\ ForgetInv' /\ FailInv'
  BY StepAims, StepSweeps, StepRecords, StepForgets, StepFails DEF Ground
<1> QED
  BY <1>2, <1>3, <1>4 DEF Ground

LEMMA RequestGround ==
  ASSUME XrayAssumption, Ground, NEW j \in Jobs, Request(j) PROVE Ground'
<1>1. [Next]_vars
  BY DEF Next
<1>2. TypeOK' /\ JobInv' /\ ClearedInv'
  BY <1>1, NextTyped, NextCleared DEF Ground
<1>3. CourseInv' /\ ApartInv' /\ ListInv' /\ HoldInv' /\ FitInv'
  BY RequestCourse, RequestApart, RequestList, RequestHold, RequestFits DEF Ground
<1>4. AimInv' /\ SweepInv' /\ RecordInv' /\ ForgetInv' /\ FailInv'
  BY RequestAims, OtherSweeps, OtherRecords, OtherForgets, OtherFails DEF Ground
<1> QED
  BY <1>2, <1>3, <1>4 DEF Ground

LEMMA OtherGround ==
  ASSUME XrayAssumption, Ground, On \/ Crash \/ \E j \in Jobs : RpcFails(j) \/ Abandon(j)
  PROVE  Ground'
<1>1. [Next]_vars
  BY DEF Next
<1>2. TypeOK' /\ JobInv' /\ ClearedInv'
  BY <1>1, NextTyped, NextCleared DEF Ground
<1>3. CourseInv'
  <2>1. CASE On
    BY <2>1 DEF On, Ground, CourseInv
  <2> QED
    BY <2>1, CrashCourse, FaultCourse DEF Ground
<1>4. ApartInv' /\ ListInv' /\ HoldInv' /\ FitInv'
  BY OtherApart, FaultApart, OtherList, OtherHold, OtherFits DEF Ground
<1>5. AimInv' /\ SweepInv' /\ RecordInv' /\ ForgetInv' /\ FailInv'
  BY OtherAims, OtherSweeps, OtherRecords, OtherForgets, OtherFails DEF Ground
<1> QED
  BY <1>2, <1>3, <1>4, <1>5 DEF Ground

LEMMA SameGround ==
  ASSUME Ground, UNCHANGED vars PROVE Ground'
<1>1. ApartInv' /\ ListInv' /\ HoldInv' /\ FitInv' /\ FailInv'
  BY DEF Ground, vars, ApartInv, Alive, Orderly, ListInv, Cleared, HoldInv, Held, Holds, FitInv,
     Fits, FailInv, Fails
<1>2. AimInv' /\ SweepInv' /\ RecordInv' /\ ForgetInv'
  BY DEF Ground, vars, AimInv, Aims, SweepInv, Sweeps, RecordInv, Records, Insertable, At,
     ForgetInv, Forgets, Orderly
<1>3. CourseInv' /\ ClearedInv' /\ JobInv' /\ TypeOK'
  BY DEF Ground, vars, CourseInv, ClearedInv, Cleared, Unable, NoRecords, JobInv, TypeOK
<1> QED
  BY <1>1, <1>2, <1>3 DEF Ground

-----------------------------------------------------------------------------
(* What the four invariants about the accounts themselves lean on.         *)

(* In advanced mode a goroutine works with the instance that is there.     *)
LEMMA Present ==
  ASSUME Ground, Orderly, advanced, NEW j \in Jobs, Holds(j)
  PROVE  job[j].inst = instance /\ instance # 0
BY DEF Ground, HoldInv, Held, Cleared

(* In advanced mode one that removes accounts is the only one at work.     *)
LEMMA Lonely ==
  ASSUME Ground, Orderly, advanced, NEW j \in Jobs, job[j].op \in Removing, NEW k \in Jobs, Alive(k)
  PROVE  k = j
<1>1. SUFFICES ASSUME k # j PROVE FALSE
  OBVIOUS
<1>2. job[k].op \in {"none", "clear"}
  BY <1>1, Alone DEF Ground
<1> QED
  BY <1>2 DEF Ground, ApartInv, CourseInv, Course, Alive

(* At rest outside advanced mode there is nothing left in the database.    *)
LEMMA AtRest ==
  ASSUME Ground, Quiet, ~advanced, "uncleared" \notin mishaps
  PROVE  DOMAIN records = {} /\ allotted = {}
<1>1. Cleared
  BY DEF Quiet, Alive, Cleared
<1> QED
  BY <1>1, EmptyRecords DEF Ground, ClearedInv, ListInv

(* Which steps there are at a place.                                       *)
Preparing == {"list", "push", "who", "limit", "ensure", "targets"}
LEMMA PreparingSteps ==
  ASSUME NEW j \in Jobs, JobStep(j), job[j].pc \in {"aim", "stale"} \cup Preparing
  PROVE  \/ ReadTargets(j) \/ ReadStale(j) \/ ListActive(j) \/ PushEnter(j) \/ ReadStatus(j)
         \/ ReadFlag(j) \/ EnsureCredentials(j) \/ PushTargets(j)
BY DEF Preparing, JobStep, InsertInstance, ClearFlag, DeleteRow,
     RemoveEnter, Removed, NoClient, Forget, RemoveFailed, RemovalDone, SetFlag,
     WriteQuotaExceeded, ReadCredentials, WritePending, ReadNode, Added, Recheck, Undone, MarkSynced,
     MarkFailed, PushDone, OffClear, DropInstance, Swept, SweepDone

LEMMA SweepSteps ==
  ASSUME NEW j \in Jobs, JobStep(j), job[j].pc = "sweep"
  PROVE  Swept(j) \/ SweepDone(j)
BY DEF JobStep, InsertInstance, ListActive, ClearFlag, DeleteRow, ReadTargets, ReadStale,
     RemoveEnter, Removed, NoClient, Forget, RemoveFailed, RemovalDone, SetFlag, PushEnter,
     ReadStatus, ReadFlag, WriteQuotaExceeded, EnsureCredentials, PushTargets, ReadCredentials,
     WritePending, ReadNode, Added, Recheck, Undone, MarkSynced, MarkFailed, PushDone,
     OffClear, DropInstance

LEMMA RemovalSteps ==
  ASSUME NEW j \in Jobs, JobStep(j), job[j].pc \in Removal
  PROVE  RemoveEnter(j) \/ Removed(j) \/ NoClient(j) \/ Forget(j) \/ RemoveFailed(j) \/ RemovalDone(j)
BY DEF Removal, JobStep, InsertInstance, ListActive, ClearFlag, DeleteRow, ReadTargets, ReadStale,
     SetFlag, PushEnter, ReadStatus, ReadFlag, WriteQuotaExceeded, EnsureCredentials, PushTargets,
     ReadCredentials, WritePending, ReadNode, Added, Recheck, Undone, MarkSynced, MarkFailed, PushDone,
     OffClear, DropInstance, Swept, SweepDone

(* In advanced mode a removal without failed calls goes on until all its   *)
(* accounts are gone.                                                      *)
LEMMA RemovalGoesOn ==
  ASSUME XrayAssumption, Ground, Orderly, advanced, NEW j \in Jobs, JobStep(j),
         job[j].pc \in Removal, job[j].pc # "complain",
         NEW t \in job[j].todo, account[t] # 0, account'[t] # 0
  PROVE  /\ job'[j].pc \in Removal \ {"complain"} /\ t \in job'[j].todo /\ job'[j].op = job[j].op
         /\ job'[j].next = job[j].next
<1>1. job \in JobType(given) /\ job[j].todo \subseteq Tags /\ t \in Tags
  BY Parts DEF Ground, Work, JobType
<1>2. job[j].inst = instance
  BY Present DEF Holds
<1>3. CASE RemoveEnter(j)
  BY <1>1, <1>3, Going DEF RemoveEnter, Goes, Keeps, Removal
<1>4. CASE Removed(j)
  BY <1>1, <1>4, Going DEF Removed, Goes, Keeps, Removal
<1>5. CASE NoClient(j)
  BY <1>2, <1>5 DEF NoClient
<1>6. CASE Forget(j)
  <2>1. account[At(j)] = 0
    BY <1>2, <1>6 DEF Forget, Ground, ForgetInv, Forgets
  <2>2. t # At(j)
    BY <2>1
  <2>3. Passes(j, "removing")
    BY <1>1, <1>6, Passing DEF Forget
  <2> QED
    BY <2>2, <2>3 DEF Passes, Keeps, Removal, At
<1>7. CASE RemoveFailed(j)
  BY <1>7 DEF RemoveFailed
<1>8. CASE RemovalDone(j)
  BY <1>8 DEF RemovalDone
<1> QED
  BY <1>3, <1>4, <1>5, <1>6, <1>7, <1>8, RemovalSteps

(* What every other step does to the rows.                                 *)
LEMMA OtherRows ==
  ASSUME TypeOK, On \/ Crash \/ \E j \in Jobs : Request(j) \/ RpcFails(j) \/ Abandon(j)
  PROVE  /\ UNCHANGED <<instance, records>> /\ mishaps \subseteq mishaps'
         /\ user'.status = "gone" <=> user.status = "gone"
         /\ user'.key = user.key /\ user'.exceeded = user.exceeded
<1>1. job \in JobType(given)
      /\ user \in [status : {"active", "disabled", "gone"}, exceeded : BOOLEAN, key : 0..given.key]
  BY Parts DEF Work, Rows
<1>2. CASE On \/ Crash \/ \E j \in Jobs : RpcFails(j) \/ Abandon(j)
  BY <1>2 DEF On, Crash, RpcFails, Abandon, db
<1>3. ASSUME NEW j \in Jobs, Request(j)
      PROVE  /\ UNCHANGED <<instance, records>> /\ mishaps \subseteq mishaps'
             /\ user'.status = "gone" <=> user.status = "gone"
             /\ user'.key = user.key /\ user'.exceeded = user.exceeded
  <2>1. UNCHANGED user \/ Enable(j) \/ Disable(j)
    BY <1>3 DEF Request, Off, Create, DeleteInstance, Delete, UpdateGroup, SetNodes,
       StartInit, RetryUser, CheckQuota, ResetQuota, db
  <2>2. UNCHANGED <<instance, records>> /\ mishaps \subseteq mishaps'
    BY <1>1, <1>3, Requesting DEF Begins, Noted
  <2> QED
    BY <1>1, <2>1, <2>2 DEF Enable, Disable
<1> QED
  BY <1>2, <1>3

-----------------------------------------------------------------------------
(* Every account has a record, or a goroutine that will take it away:      *)
(* as long as only calls and processes failed.                             *)
Sound == mishaps \subseteq {"rpc", "crash"} /\ (user.status = "gone" => mishaps = {})
Covers(j, t) ==
  \/ job[j].pc = "sweep" /\ t \in job[j].todo
  \/ job[j].op = "delete" /\ job[j].pc \in Removal /\ advanced /\ t \in job[j].todo
  \/ job[j].pc \in {"recheck", "undo"} /\ ~Insertable(j) /\ t = At(j)
CoverInv ==
  Sound => \A t \in Tags : account[t] # 0 => t \in DOMAIN records \/ \E j \in Jobs : Covers(j, t)

(* When nothing went wrong in advanced mode, every account is due, or a    *)
(* goroutine is there that withdraws it.                                   *)
Entitled == user.status = "active" /\ ~user.exceeded
Flawless == mishaps = {} /\ advanced
Withdraws(j, t) ==
  \/ /\ job[j].op = "regroup" /\ Entitled
     /\ job[j].pc \in {"aim", "stale"} \/ (job[j].pc \in Removal /\ t \in job[j].todo)
  \/ /\ job[j].op = "disable"
     /\ (job[j].pc = "aim" /\ t \in allotted) \/ (job[j].pc \in Removal /\ t \in job[j].todo)
  \/ job[j].op = "delete" /\ job[j].pc \in Removal /\ t \in job[j].todo
  \/ job[j].pc = "sweep" /\ t \in job[j].todo
Due(t) == account[t] # 0 => (Entitled /\ t \in allotted) \/ \E j \in Jobs : Withdraws(j, t)
Cuts(j, t) == job[j].op = "quota" /\ job[j].pc # "aim" /\ account[t] # 0 => job[j].pc \in Removal /\ t \in job[j].todo
UpperInv == Flawless => \A t \in Tags : Due(t) /\ \A j \in Jobs : Cuts(j, t)

LEMMA SoundBefore ==
  ASSUME mishaps \subseteq mishaps', user'.status # "gone" => user.status # "gone", Sound'
  PROVE  Sound /\ Orderly
BY DEF Sound, Orderly

LEMMA StepCovers ==
  ASSUME XrayAssumption, Ground, CoverInv, UpperInv, NEW j \in Jobs, JobStep(j)
  PROVE  CoverInv'
<1>1. /\ job \in JobType(given) /\ Course(job[j]) /\ CourseInv /\ ApartInv /\ JobInv
      /\ \A k \in Jobs : job[k].todo \subseteq Tags
  BY Parts DEF Ground, Work, CourseInv, JobType
<1>2. Others(j) /\ UNCHANGED <<advanced, mishaps>> /\ Alive(j)
  BY <1>1, Continuing
<1>3. /\ user'.status # "gone" => user.status # "gone"
      /\ instance' \in {0, instance, given.inst + 1}
  BY StepKeepsOut DEF Ground
<1>4. SUFFICES ASSUME Sound', NEW t \in Tags, account'[t] # 0
               PROVE  t \in DOMAIN records' \/ \E k \in Jobs : Covers(k, t)'
  BY DEF CoverInv
<1>5. Sound /\ Orderly
  BY <1>2, <1>3, <1>4, SoundBefore
<1>6. CASE account[t] = 0
  <2>1. Added(j) /\ account' = AddEffect(j) /\ Goes(j, "recheck") /\ UNCHANGED db
    BY <1>1, <1>4, <1>6, AccountSteps, ClearsElsewhere DEF Ground
  <2>2. t = At(j)
    BY <1>4, <1>6, <2>1, AddEffectElsewhere DEF Ground
  <2>3. CASE Insertable(j)
    BY <1>5, <2>1, <2>2, <2>3 DEF Added, Ground, RecordInv, Records, Marking, db
  <2>4. CASE ~Insertable(j)
    BY <2>1, <2>2, <2>4 DEF Covers, Goes, Keeps, Insertable, At, db
  <2> QED
    BY <2>3, <2>4
<1>7. CASE account[t] # 0 /\ t \in DOMAIN records
  <2>1. CASE Forget(j)
    <3>1. job[j].inst = instance => account[At(j)] = 0
      BY <1>5, <2>1 DEF Forget, Ground, ForgetInv, Forgets
    <3> QED
      BY <1>7, <2>1, <3>1 DEF Forget
  <2>2. CASE DeleteRow(j)
    \* nothing has gone wrong, and nobody else is at work
    <3>1. mishaps = {} /\ job[j].pc = "delete" /\ job[j].op = "delete"
      BY <1>1, <1>2, <1>4, <2>2 DEF DeleteRow, Sound, Course
    <3>2. \A k \in Jobs \ {j} : job[k].op = "none"
      BY <1>1, <1>5, <3>1, Alone DEF Removing
    <3>3. advanced
      <4>1. SUFFICES ASSUME ~advanced PROVE FALSE
        OBVIOUS
      <4>2. Cleared
        BY <1>1, <3>1, <3>2, <4>1 DEF Cleared, CourseInv, Course
      <4> QED
        BY <1>7, <4>2, EmptyRecords DEF Ground, ClearedInv
    <3>4. Due(t)
      BY <3>1, <3>3 DEF UpperInv, Flawless
    <3>5. \A k \in Jobs : ~Withdraws(k, t)
      BY <1>1, <3>1, <3>2 DEF Withdraws, CourseInv, Course, Removal
    <3>6. Entitled /\ t \in allotted
      BY <1>7, <3>4, <3>5 DEF Due
    <3>7. job[j].todo = allotted
      BY <1>5, <3>1 DEF Ground, AimInv, Aims
    <3>8. Goes(j, "remove")
      BY <1>1, <2>2, <3>6, <3>7, Going DEF DeleteRow, Entitled
    <3> QED
      BY <1>2, <3>1, <3>3, <3>6, <3>7, <3>8 DEF Covers, Goes, Keeps, Removal
  <2>3. CASE OffClear(j)
    BY <1>1, <1>7, <2>3, Clearing DEF Covers, Keeps
  <2>4. CASE DropInstance(j)
    <3>1. \/ Keeps(j, "sweep") /\ DOMAIN records \subseteq job'[j].todo
          \/ UNCHANGED records
      BY <1>1, <2>4, Dropping
    <3> QED
      BY <1>7, <3>1 DEF Covers, Keeps
  <2> QED
    BY <1>7, <2>1, <2>2, <2>3, <2>4, RecordSteps
<1>8. ASSUME NEW k \in Jobs \ {j}, Covers(k, t) PROVE Covers(k, t)'
  <2>1. job'[k] = job[k]
    BY <1>2 DEF Others
  <2>2. Insertable(k)' => Insertable(k)
    BY <1>3, <2>1, InsertableBefore DEF Ground
  <2> QED
    BY <1>2, <1>8, <2>1, <2>2 DEF Covers, At
<1>9. ASSUME Covers(j, t), account[t] # 0 PROVE Covers(j, t)'
  <2>1. CASE job[j].pc = "sweep" /\ t \in job[j].todo
    <3>1. Swept(j)
      BY <2>1, SweepSteps DEF SweepDone
    <3>2. Passes(j, "sweep") /\ Clears(j)
      BY <1>1, <3>1, Passing DEF Swept, Clears
    <3>3. t # At(j)
      BY <1>4, <3>2, ClearsElsewhere DEF Ground
    <3> QED
      BY <2>1, <3>2, <3>3 DEF Passes, Keeps, Covers, At
  <2>2. CASE job[j].op = "delete" /\ job[j].pc \in Removal /\ advanced /\ t \in job[j].todo
    <3>1. user.status = "gone" /\ mishaps = {}
      BY <1>5, <2>2 DEF Ground, FitInv, Fits, Sound
    <3>2. job[j].pc # "complain"
      BY <3>1 DEF Ground, FailInv, Fails
    <3> QED
      BY <1>2, <1>4, <1>5, <1>9, <2>2, <3>2, RemovalGoesOn DEF Covers
  <2>3. CASE job[j].pc \in {"recheck", "undo"} /\ ~Insertable(j) /\ t = At(j)
    <3>1. ~advanced
      <4>1. SUFFICES ASSUME advanced PROVE FALSE
        OBVIOUS
      <4>2. user.status # "gone"
        BY <1>5, <2>3 DEF Ground, FitInv, Fits, Pushing, Granting, Adding, Marking
      <4>3. Holds(j)
        BY <1>1, <2>3 DEF Holds, Adding, Marking, JobInv, AtPcs
      <4> QED
        BY <1>5, <2>3, <4>1, <4>2, <4>3, Present DEF Insertable
    <3>2. CASE Undone(j)
      BY <1>4, <2>3, <3>2, ClearsElsewhere DEF Undone, Clears, Ground
    <3>3. CASE Recheck(j)
      <4>1. Goes(j, "undo") /\ UNCHANGED db
        BY <1>1, <3>1, <3>3, Going DEF Recheck
      <4> QED
        BY <2>3, <4>1 DEF Goes, Keeps, Covers, Insertable, At, db
    <3>4. Undone(j) \/ Recheck(j)
      BY <2>3, AddingSteps DEF Adding, Marking, ReadCredentials, WritePending, ReadNode, Added,
         MarkSynced, MarkFailed, PushDone
    <3> QED
      BY <3>2, <3>3, <3>4
  <2> QED
    BY <1>9, <2>1, <2>2, <2>3 DEF Covers
<1> QED
  BY <1>4, <1>5, <1>6, <1>7, <1>8, <1>9 DEF CoverInv

LEMMA OtherCovers ==
  ASSUME XrayAssumption, Ground, CoverInv,
         On \/ Crash \/ \E j \in Jobs : Request(j) \/ RpcFails(j) \/ Abandon(j)
  PROVE  CoverInv'
<1>1. /\ job \in JobType(given) /\ CourseInv /\ ApartInv /\ TypeOK
      /\ \A k \in Jobs : job[k].todo \subseteq Tags
  BY Parts DEF Ground, Work, JobType
<1>2. /\ UNCHANGED <<instance, records>> /\ mishaps \subseteq mishaps'
      /\ user'.status = "gone" <=> user.status = "gone"
  BY <1>1, OtherRows
<1>3. SUFFICES ASSUME Sound', NEW t \in Tags, account'[t] # 0
               PROVE  t \in DOMAIN records' \/ \E k \in Jobs : Covers(k, t)'
  BY DEF CoverInv
<1>4. Sound /\ Orderly
  BY <1>2, <1>3, SoundBefore
<1>5. ASSUME NEW k \in Jobs, Covers(k, t), job'[k] = job[k],
             job[k].op = "delete" => advanced' = advanced
      PROVE  Covers(k, t)'
  <2>1. Insertable(k)' <=> Insertable(k)
    BY <1>2, <1>5 DEF Insertable
  <2> QED
    BY <1>5, <2>1 DEF Covers, At
<1>6. CASE On
  <2>1. Quiet /\ UNCHANGED <<account, job>>
    BY <1>3, <1>6 DEF On, Sound
  <2>2. \A k \in Jobs : job[k].pc = "idle" /\ ~Covers(k, t)
    BY <2>1 DEF Quiet, Alive, Covers, Removal
  <2> QED
    BY <1>2, <1>3, <1>4, <2>1, <2>2 DEF CoverInv
<1>7. CASE Crash
  <2>1. \A k \in Jobs : ~Knows(k)
    BY <1>3, <1>7 DEF Crash, Sound
  <2>2. \A k \in Jobs : ~Covers(k, t)
    BY <2>1 DEF Knows, Covers
  <2> QED
    BY <1>2, <1>3, <1>4, <1>7, <2>2 DEF CoverInv, Crash
<1>8. ASSUME NEW j \in Jobs, Abandon(j) PROVE t \in DOMAIN records' \/ \E k \in Jobs : Covers(k, t)'
  <2>1. /\ UNCHANGED <<db, account>> /\ Ends(j)
        /\ mishaps' = mishaps \cup {"crash"} \cup (IF Knows(j) THEN {"unrecorded"} ELSE {})
    BY <1>1, <1>8, Abandoning
  <2>2. ~Covers(j, t)
    BY <1>3, <2>1 DEF Sound, Knows, Covers
  <2>3. t \in DOMAIN records \/ \E k \in Jobs \ {j} : Covers(k, t)
    BY <1>3, <1>4, <2>1, <2>2 DEF CoverInv
  <2> QED
    BY <1>2, <1>5, <2>1, <2>3 DEF Ends, Others, db
<1>9. ASSUME NEW j \in Jobs, RpcFails(j) PROVE t \in DOMAIN records' \/ \E k \in Jobs : Covers(k, t)'
  <2>1. /\ UNCHANGED db /\ Others(j) /\ Insertable(j) /\ mishaps' # {}
        /\ job[j].pc \in {"removing", "adding", "undo", "sweep"} /\ job[j].todo # {}
        /\ \/ account' = account
           \/ job[j].pc # "adding" /\ account' = [account EXCEPT ![At(j)] = 0]
           \/ job[j].pc = "adding" /\ account' = AddEffect(j)
    BY <1>1, <1>3, <1>9, Failing DEF Sound, Goes, Passes, Keeps
  <2>2. ~Covers(j, t)
    <3>1. user.status # "gone" /\ instance # 0 /\ job[j].inst = instance
      BY <2>1 DEF Insertable
    <3>2. job[j].pc # "sweep"
      BY <3>1 DEF Ground, SweepInv, Sweeps
    <3>3. ~(job[j].op = "delete" /\ job[j].pc \in Removal)
      BY <1>4, <3>1 DEF Ground, FitInv, Fits
    <3> QED
      BY <2>1, <3>2, <3>3 DEF Covers
  <2>3. account[t] # 0 => t \in DOMAIN records \/ \E k \in Jobs \ {j} : Covers(k, t)
    BY <1>4, <2>2 DEF CoverInv
  <2>4. account[t] = 0 => t \in DOMAIN records
    <3>1. SUFFICES ASSUME account[t] = 0 PROVE t \in DOMAIN records
      OBVIOUS
    <3>2. job[j].pc = "adding" /\ t = At(j)
      BY <1>1, <1>3, <2>1, <3>1, ClearsElsewhere, AddEffectElsewhere DEF Clears
    <3> QED
      BY <1>4, <2>1, <3>2 DEF Ground, RecordInv, Records, Marking
  <2> QED
    BY <1>2, <1>5, <2>1, <2>3, <2>4 DEF Others, db
<1>10. ASSUME NEW j \in Jobs, Request(j) PROVE t \in DOMAIN records' \/ \E k \in Jobs : Covers(k, t)'
  <2>1. account' = account
    BY <1>1, <1>10, Requesting
  <2>2. t \in DOMAIN records \/ \E k \in Jobs : Covers(k, t)
    BY <1>3, <1>4, <2>1 DEF CoverInv
  <2>3. ASSUME NEW k \in Jobs, Covers(k, t) PROVE Covers(k, t)'
    <3>1. Alive(k)
      BY <2>3, <1>1 DEF Covers, Alive, Removal
    <3>2. CASE job' = job /\ UNCHANGED advanced
      BY <1>5, <2>3, <3>2
    <3>3. ASSUME NEW op, NEW pc, NEW inst, NEW todo, Begins(j, op, pc, inst, todo),
                 op # "clear" => advanced' = advanced
          PROVE  Covers(k, t)'
      <4>1. job'[k] = job[k]
        BY <3>1, <3>3 DEF Begins, Others
      <4>2. op = "clear" => job[k].op # "delete"
        <5>1. Orderly'
          BY <1>3 DEF Sound, Orderly
        <5>2. ~Conflict(op, job[k].op)
          BY <3>1, <3>3, <5>1, Unnoted DEF Begins
        <5> QED
          BY <5>2 DEF Conflict
      <4> QED
        BY <1>5, <2>3, <3>3, <4>1, <4>2
    <3> QED
      BY <1>1, <1>10, <3>2, <3>3, Requesting
  <2> QED
    BY <1>2, <2>2, <2>3
<1> QED
  BY <1>6, <1>7, <1>8, <1>9, <1>10

(* How the panel starts.                                                   *)
LEMMA Starting ==
  ASSUME XrayAssumption, Init
  PROVE  /\ \A t \in Tags : account[t] # 0 <=> user.status = "active" /\ t \in allotted
         /\ \A t \in Tags : account[t] # 0 => t \in DOMAIN records /\ account[t] = user.key
         /\ \A t \in DOMAIN records : t \in Tags /\ account[t] # 0
         /\ allotted \subseteq Tags /\ ~user.exceeded
         /\ job = [j \in Jobs |-> Idle] /\ mishaps = {}
<1>1. PICK status \in {"active", "disabled"}, on \in BOOLEAN, tags \in SUBSET Tags :
        LET pushed == IF status = "active" THEN tags ELSE {}
            key == IF pushed = {} THEN 0 ELSE 1
        IN  /\ user = [status |-> status, exceeded |-> FALSE, key |-> key]
            /\ allotted = tags
            /\ records = [t \in pushed |-> "synced"]
            /\ account = [t \in Tags |-> IF t \in pushed THEN key ELSE 0]
  BY DEF Init
<1>2. job = [j \in Jobs |-> Idle] /\ mishaps = {}
  BY DEF Init
<1>3. CASE status = "active" /\ tags # {}
  BY <1>1, <1>2, <1>3
<1>4. CASE ~(status = "active" /\ tags # {})
  BY <1>1, <1>2, <1>4
<1> QED
  BY <1>3, <1>4

LEMMA InitCovers ==
  ASSUME XrayAssumption, Init PROVE CoverInv
BY Starting DEF CoverInv

-----------------------------------------------------------------------------
(* The other bound: an account is added to one who is entitled to it, and  *)
(* whoever takes the entitlement away withdraws the account.               *)
LEMMA StepUpper ==
  ASSUME XrayAssumption, Ground, CoverInv, UpperInv, NEW j \in Jobs, JobStep(j)
  PROVE  UpperInv'
<1>1. /\ job \in JobType(given) /\ Course(job[j]) /\ CourseInv /\ ApartInv /\ JobInv
      /\ user \in [status : {"active", "disabled", "gone"}, exceeded : BOOLEAN, key : 0..given.key]
      /\ allotted \subseteq Tags /\ \A k \in Jobs : job[k].todo \subseteq Tags
  BY Parts DEF Ground, Work, CourseInv, JobType, Rows
<1>2. /\ Others(j) /\ UNCHANGED <<advanced, mishaps>> /\ Alive(j)
      /\ Ends(j) \/ (job'[j].op = job[j].op /\ job'[j].pc # "idle")
  BY <1>1, Continuing
<1>3. SUFFICES ASSUME Flawless', NEW t \in Tags, account'[t] # 0
               PROVE  /\ (Entitled' /\ t \in allotted') \/ \E k \in Jobs : Withdraws(k, t)'
                      /\ \A k \in Jobs : Cuts(k, t)'
  BY DEF UpperInv, Due, Cuts
<1>4. Flawless /\ mishaps = {} /\ advanced /\ Orderly
  BY <1>2, <1>3 DEF Flawless, Orderly
<1>5. Due(t) /\ \A k \in Jobs : Cuts(k, t)
  BY <1>4 DEF UpperInv
<1>6. CASE account[t] = 0
  <2>1. Added(j) /\ account' = AddEffect(j) /\ Goes(j, "recheck") /\ UNCHANGED db
    BY <1>1, <1>3, <1>6, AccountSteps, ClearsElsewhere DEF Ground
  <2>2. t = At(j) /\ job[j].pc = "adding"
    BY <1>3, <1>6, <2>1, AddEffectElsewhere DEF Ground, Added
  <2>3. Entitled
    BY <1>4, <2>2 DEF Ground, FitInv, Fits, Entitled, Granting, Adding, Marking
  <2>4. t \in job[j].todo /\ Holds(j)
    BY <1>1, <2>2, AtElement DEF JobInv, AtPcs, Holds, Adding, Marking, Ground
  <2>5. t \in allotted
    BY <1>4, <2>2, <2>4, Present DEF Ground, AimInv, Aims, Adding, Marking
  <2>6. \A k \in Jobs : job'[k].op # "quota"
    <3>1. ASSUME NEW k \in Jobs, job[k].op = "quota" PROVE FALSE
      BY <1>1, <1>2, <1>4, <2>2, <3>1, Lonely DEF Removing, Course, Pushing, Granting, Adding,
         Marking, Targeted
    <3> QED
      BY <1>2, <3>1 DEF Others, Ends, Idle
  <2> QED
    BY <2>1, <2>3, <2>5, <2>6 DEF Entitled, Cuts, db
<1>7. ASSUME account[t] # 0, Entitled, t \in allotted
      PROVE  (Entitled' /\ t \in allotted') \/ \E k \in Jobs : Withdraws(k, t)'
  <2>1. CASE UNCHANGED <<user, allotted>>
    BY <1>7, <2>1 DEF Entitled
  <2>2. CASE ClearFlag(j) \/ EnsureCredentials(j)
    BY <1>1, <1>7, <2>2 DEF Entitled, ClearFlag, EnsureCredentials, MakeKey
  <2>3. CASE SetFlag(j)
    BY <1>1, <1>5, <1>7, <2>3 DEF SetFlag, Cuts, Course, Removal
  <2>4. CASE DeleteRow(j)
    <3>1. job[j].pc = "delete" /\ job[j].op = "delete" /\ job[j].todo = allotted
      BY <1>1, <1>4, <2>4 DEF DeleteRow, Course, Ground, AimInv, Aims
    <3>2. Goes(j, "remove")
      BY <1>1, <1>7, <2>4, <3>1, Going DEF DeleteRow, Entitled
    <3> QED
      BY <1>7, <3>1, <3>2 DEF Withdraws, Goes, Keeps, Removal
  <2>5. CASE OffClear(j)
    BY <1>1, <1>4, <2>5, Clearing DEF Course, ApartInv
  <2>6. CASE DropInstance(j)
    <3>1. \/ Keeps(j, "sweep") /\ allotted \subseteq job'[j].todo
          \/ UNCHANGED <<user, allotted>>
      BY <1>1, <1>7, <2>6, Dropping DEF Entitled
    <3> QED
      BY <1>7, <2>1, <3>1 DEF Withdraws, Keeps
  <2> QED
    BY <2>1, <2>2, <2>3, <2>4, <2>5, <2>6 DEF JobStep, db, InsertInstance, ListActive, ReadTargets,
       ReadStale,
       RemoveEnter, Removed, NoClient, Forget, RemoveFailed, RemovalDone, PushEnter,
       ReadStatus, ReadFlag, WriteQuotaExceeded, PushTargets, ReadCredentials,
       WritePending, ReadNode, Added, Recheck, Undone, MarkSynced, MarkFailed, PushDone, Swept, SweepDone
<1>8. ASSUME account[t] # 0, NEW k \in Jobs, Withdraws(k, t)
      PROVE  (Entitled' /\ t \in allotted') \/ Withdraws(j, t)'
  <2>1. k = j
    <3>1. job[k].op \in Removing
      <4>1. job[k].op # "clear"
        BY <1>4 DEF Ground, ApartInv
      <4> QED
        BY <1>1, <1>8, <4>1 DEF Withdraws, Removing, CourseInv, Course
    <3> QED
      BY <1>2, <1>4, <3>1, Lonely
  <2>2. CASE job[j].pc \in Removal /\ t \in job[j].todo
    <3>1. job[j].pc # "complain"
      BY <1>4 DEF Ground, FailInv, Fails
    <3>2. job'[j].pc \in Removal /\ t \in job'[j].todo /\ job'[j].op = job[j].op
      BY <1>3, <1>4, <1>8, <2>2, <3>1, RemovalGoesOn
    <3>3. UNCHANGED user
      BY <2>2, RemovalSteps DEF RemoveEnter, Removed, NoClient, Forget, RemoveFailed, RemovalDone, db
    <3> QED
      BY <1>8, <2>1, <2>2, <3>2, <3>3 DEF Withdraws, Entitled, Removal
  <2>3. CASE job[j].pc = "sweep" /\ t \in job[j].todo
    <3>1. Swept(j)
      BY <2>3, SweepSteps DEF SweepDone
    <3>2. Passes(j, "sweep") /\ Clears(j)
      BY <1>1, <3>1, Passing DEF Swept, Clears
    <3>3. t # At(j)
      BY <1>3, <3>2, ClearsElsewhere DEF Ground
    <3> QED
      BY <2>3, <3>2, <3>3 DEF Passes, Keeps, Withdraws, At
  <2>4. CASE job[j].pc = "aim" /\ job[j].op \in {"regroup", "disable"}
    <3>1. ReadTargets(j)
      BY <2>4, PreparingSteps DEF ReadTargets, ReadStale, ListActive, PushEnter, ReadStatus,
         ReadFlag, EnsureCredentials, PushTargets
    <3>2. user.status # "gone"
      BY <1>4, <2>4 DEF Ground, FitInv, Fits
    <3>3. /\ job'[j].op = job[j].op /\ job'[j].todo = allotted /\ UNCHANGED user
          /\ job'[j].pc = IF job[j].op = "disable" THEN "remove" ELSE "stale"
      BY <1>1, <2>4, <3>1, <3>2, Aiming DEF TargetSets, db
    <3>4. CASE job[j].op = "regroup"
      BY <1>8, <2>1, <2>4, <3>3, <3>4 DEF Withdraws, Entitled
    <3>5. CASE job[j].op = "disable"
      BY <1>8, <2>1, <2>4, <3>3, <3>5 DEF Withdraws, Removal
    <3> QED
      BY <2>4, <3>4, <3>5
  <2>5. CASE job[j].pc = "stale" /\ job[j].op = "regroup" /\ Entitled
    <3>1. ReadStale(j)
      BY <2>5, PreparingSteps DEF ReadTargets, ReadStale, ListActive, PushEnter, ReadStatus,
         ReadFlag, EnsureCredentials, PushTargets
    <3>2. /\ job'[j].op = job[j].op /\ job'[j].pc = "remove" /\ UNCHANGED <<user, allotted>>
          /\ job'[j].todo = DOMAIN records \ (IF job[j].inst = instance THEN job[j].todo ELSE {})
      BY <1>1, <2>5, <3>1, Sorting DEF db
    <3>3. t \in DOMAIN records
      <4>1. Sound
        BY <1>4 DEF Sound
      <4>2. \A i \in Jobs : ~Covers(i, t)
        <5>1. SUFFICES ASSUME NEW i \in Jobs, Covers(i, t) PROVE FALSE
          OBVIOUS
        <5>2. Alive(i)
          BY <5>1 DEF Covers, Alive, Removal
        <5>3. i = j
          BY <1>4, <2>5, <5>2, Lonely DEF Removing
        <5> QED
          BY <2>5, <5>1, <5>3 DEF Covers, Removal
      <4> QED
        BY <1>8, <4>1, <4>2 DEF CoverInv
    <3>4. job[j].inst = instance => job[j].todo = allotted
      BY <1>4, <2>5 DEF Ground, AimInv, Aims
    <3>5. CASE t \in allotted
      BY <2>5, <3>2, <3>5 DEF Entitled
    <3>6. CASE t \notin allotted
      BY <2>5, <3>2, <3>3, <3>4, <3>6 DEF Withdraws, Entitled, Removal
    <3> QED
      BY <3>5, <3>6
  <2> QED
    BY <1>8, <2>1, <2>2, <2>3, <2>4, <2>5 DEF Withdraws
<1>9. ASSUME account[t] # 0, NEW k \in Jobs, job'[k].op = "quota", job'[k].pc # "aim"
      PROVE  job'[k].pc \in Removal /\ t \in job'[k].todo
  <2>1. job[k].op = "quota" /\ k = j
    <3>1. job[k].op = "quota"
      BY <1>2, <1>9 DEF Others, Ends, Idle
    <3> QED
      BY <1>2, <1>4, <3>1, Lonely DEF Removing
  <2>2. CASE job[j].pc # "aim"
    <3>1. job[j].pc \in Removal /\ t \in job[j].todo
      BY <1>5, <1>9, <2>1, <2>2 DEF Cuts
    <3>2. job[j].pc # "complain"
      BY <1>4 DEF Ground, FailInv, Fails
    <3> QED
      BY <1>3, <1>4, <1>9, <2>1, <3>1, <3>2, RemovalGoesOn
  <2>3. CASE job[j].pc = "aim"
    <3>1. ReadTargets(j)
      BY <2>3, PreparingSteps DEF ReadTargets, ReadStale, ListActive, PushEnter, ReadStatus,
         ReadFlag, EnsureCredentials, PushTargets
    <3>2. user.status # "gone"
      BY <1>4, <2>1 DEF Ground, FitInv, Fits
    <3>3. job'[j].todo = allotted /\ job'[j].pc = "remove"
      BY <1>1, <2>1, <3>1, <3>2, Aiming DEF TargetSets
    <3>4. \A i \in Jobs : ~Withdraws(i, t)
      <4>1. SUFFICES ASSUME NEW i \in Jobs, Withdraws(i, t) PROVE FALSE
        OBVIOUS
      <4>2. Alive(i)
        BY <4>1 DEF Withdraws, Alive, Removal
      <4>3. i = j
        BY <1>4, <2>1, <4>2, Lonely DEF Removing
      <4> QED
        BY <2>1, <2>3, <4>1, <4>3 DEF Withdraws
    <3> QED
      BY <1>5, <1>9, <2>1, <3>3, <3>4 DEF Due, Removal
  <2> QED
    BY <2>2, <2>3
<1> QED
  BY <1>5, <1>6, <1>7, <1>8, <1>9 DEF Due, Cuts

(* An operation that begins in advanced mode, unnoted, finds nobody who is *)
(* taking accounts away.                                                   *)
LEMMA NobodyRemoves ==
  ASSUME Ground, NEW op, mishaps' = Noted(op), mishaps' = {}, op # "clear", advanced,
         NEW k \in Jobs
  PROVE  /\ job[k].op \notin Removing /\ job[k].pc # "sweep"
         /\ mishaps = {} /\ \A t : ~Withdraws(k, t)
<1>1. mishaps = {} /\ Orderly /\ Orderly'
  BY DEF Noted, Orderly
<1>2. \A i \in Jobs : Alive(i) => ~Conflict(op, job[i].op)
  BY <1>1, Unnoted
<1>3. job[k].op # "clear" /\ Course(job[k])
  BY <1>1 DEF Ground, ApartInv, CourseInv
<1>4. job[k].op \notin Removing
  BY <1>2, <1>3 DEF Conflict, Alive, Course, Removing
<1>5. job[k].pc # "sweep"
  BY <1>3, <1>4 DEF Course, Removing
<1> QED
  BY <1>1, <1>4, <1>5 DEF Withdraws, Removing

(* What the beginning of an operation does for those who are entitled.     *)
LEMMA RequestRights ==
  ASSUME TypeOK, NEW j \in Jobs, Request(j), advanced'
  PROVE  /\ advanced
         /\ \/ job' = job /\ mishaps' = Noted("regroup") /\ UNCHANGED user /\ user.status # "active"
            \/ /\ Others(j) /\ ~Alive(j)
               /\ job'[j].op # "clear" /\ mishaps' = Noted(job'[j].op)
               /\ job'[j].pc \in {"insert", "drop", "aim", "delete", "list", "reset"}
               /\ \/ UNCHANGED <<user, allotted>>
                  \/ job'[j].op = "enable" /\ job'[j].pc = "aim" /\ UNCHANGED allotted
                       /\ user'.status = "active" /\ user'.exceeded = user.exceeded
                  \/ job'[j].op = "disable" /\ job'[j].pc = "aim" /\ UNCHANGED allotted
                       /\ user'.status = "disabled"
                  \/ job'[j].op = "regroup" /\ job'[j].pc = "aim" /\ UNCHANGED user
<1>1. /\ job \in JobType(given)
      /\ user \in [status : {"active", "disabled", "gone"}, exceeded : BOOLEAN, key : 0..given.key]
  BY Parts DEF Work, Rows
<1>2. CASE Off(j)
  BY <1>2 DEF Off
<1>3. ASSUME NEW op, op # "clear", NEW pc \in {"insert", "drop", "aim", "delete", "list", "reset"}, NEW inst, NEW todo,
             Start(j, op, pc, inst, todo)
      PROVE  /\ Others(j) /\ ~Alive(j) /\ job'[j].op = op /\ job'[j].pc = pc
             /\ mishaps' = Noted(op) /\ op # "clear"
             /\ job'[j].pc \in {"insert", "drop", "aim", "delete", "list", "reset"}
  <2>1. Begins(j, op, pc, inst, todo)
    BY <1>1, <1>3, Beginning
  <2> QED
    BY <1>3, <2>1 DEF Begins
<1>4. CASE Create(j) \/ DeleteInstance(j) \/ Delete(j)
  BY <1>3, <1>4 DEF Create, DeleteInstance, Delete, db
<1>5. CASE StartInit(j) \/ RetryUser(j) \/ CheckQuota(j) \/ ResetQuota(j)
  BY <1>3, <1>5 DEF StartInit, RetryUser, CheckQuota, ResetQuota, db
<1>6. CASE Enable(j)
  BY <1>1, <1>3, <1>6 DEF Enable
<1>7. CASE Disable(j)
  BY <1>1, <1>3, <1>7 DEF Disable
<1>8. ASSUME NEW tags, UpdateGroup(j, tags)
      PROVE  Start(j, "regroup", "aim", 0, {}) /\ UNCHANGED <<user, advanced>>
  BY <1>8 DEF UpdateGroup
<1>9. ASSUME NEW tags, SetNodes(j, tags)
      PROVE  /\ UNCHANGED <<user, advanced>>
             /\ \/ Start(j, "regroup", "aim", 0, {})
                \/ job' = job /\ mishaps' = Noted("regroup") /\ user.status # "active"
  BY <1>9 DEF SetNodes
<1> QED
  BY <1>2, <1>3, <1>4, <1>5, <1>6, <1>7, <1>8, <1>9 DEF Request

LEMMA OtherUpper ==
  ASSUME XrayAssumption, Ground, CoverInv, UpperInv,
         On \/ Crash \/ \E j \in Jobs : Request(j) \/ RpcFails(j) \/ Abandon(j)
  PROVE  UpperInv'
<1>1. /\ job \in JobType(given) /\ CourseInv /\ TypeOK
      /\ user \in [status : {"active", "disabled", "gone"}, exceeded : BOOLEAN, key : 0..given.key]
  BY Parts DEF Ground, Work, Rows
<1>2. SUFFICES ASSUME Flawless', NEW t \in Tags, account'[t] # 0
               PROVE  /\ (Entitled' /\ t \in allotted') \/ \E k \in Jobs : Withdraws(k, t)'
                      /\ \A k \in Jobs : Cuts(k, t)'
  BY DEF UpperInv, Due, Cuts
<1>3. CASE On
  <2>1. Quiet /\ ~advanced /\ mishaps = {} /\ account' = account
    BY <1>2, <1>3 DEF On, Flawless
  <2>2. \A k \in Jobs : ~Covers(k, t)
    BY <2>1 DEF Quiet, Alive, Covers, Removal
  <2> QED
    BY <1>2, <2>1, <2>2, AtRest DEF CoverInv, Sound
<1>4. CASE Crash
  BY <1>2, <1>4 DEF Crash, Flawless
<1>5. ASSUME NEW j \in Jobs, RpcFails(j) \/ Abandon(j) PROVE FALSE
  BY <1>1, <1>2, <1>5, Failing, Abandoning DEF Flawless
<1>6. ASSUME NEW j \in Jobs, Request(j)
      PROVE  /\ (Entitled' /\ t \in allotted') \/ \E k \in Jobs : Withdraws(k, t)'
             /\ \A k \in Jobs : Cuts(k, t)'
  <2>1. account' = account /\ advanced /\ mishaps' = {}
    BY <1>1, <1>2, <1>6, Requesting, RequestRights DEF Flawless
  <2>2. \E op : op # "clear" /\ mishaps' = Noted(op)
    BY <1>1, <1>2, <1>6, RequestRights DEF Flawless
  <2>3. /\ \A k \in Jobs : job[k].op \notin Removing /\ ~Withdraws(k, t)
        /\ mishaps = {}
    BY <2>1, <2>2, NobodyRemoves DEF Noted
  <2>4. Entitled /\ t \in allotted
    BY <1>2, <2>1, <2>3 DEF UpperInv, Flawless, Due
  <2>5. \A k \in Jobs : job'[k].op = "quota" => job'[k].pc = "aim"
    <3>1. ASSUME NEW k \in Jobs, job'[k] = job[k] PROVE job'[k].op # "quota"
      BY <2>3, <3>1 DEF Removing
    <3>2. ASSUME NEW op, NEW pc, NEW inst, NEW todo, Begins(j, op, pc, inst, todo),
                 op = "quota" => pc = "aim"
          PROVE  \A k \in Jobs : job'[k].op = "quota" => job'[k].pc = "aim"
      BY <3>1, <3>2 DEF Begins, Others
    <3>3. CASE CheckQuota(j)
      BY <1>1, <3>2, <3>3, Beginning DEF CheckQuota
    <3>4. CASE ~CheckQuota(j)
      <4>1. job' = job \/ \E op, pc, inst, todo : Start(j, op, pc, inst, todo) /\ op # "quota"
        BY <1>6, <3>4 DEF Request, Off, Create, DeleteInstance, Delete, Enable, Disable,
           UpdateGroup, SetNodes,
           StartInit, RetryUser, ResetQuota
      <4> QED
        BY <1>1, <3>1, <3>2, <4>1, Beginning
    <3> QED
      BY <3>3, <3>4
  <2>6. \A k \in Jobs : Cuts(k, t)'
    BY <2>5 DEF Cuts
  <2>7. (Entitled' /\ t \in allotted') \/ Withdraws(j, t)'
    <3>1. CASE UNCHANGED user /\ (UNCHANGED allotted \/ (job'[j].op = "regroup" /\ job'[j].pc = "aim"))
      BY <2>4, <3>1 DEF Entitled, Withdraws
    <3>2. CASE user.status # "active"
      BY <2>4, <3>2 DEF Entitled
    <3>3. CASE user'.status = "active" /\ user'.exceeded = user.exceeded /\ UNCHANGED allotted
      BY <2>4, <3>3 DEF Entitled
    <3>4. CASE job'[j].op = "disable" /\ job'[j].pc = "aim" /\ UNCHANGED allotted
      BY <2>4, <3>4 DEF Withdraws
    <3> QED
      BY <1>1, <1>2, <1>6, <3>1, <3>2, <3>3, <3>4, RequestRights DEF Flawless
  <2> QED
    BY <2>6, <2>7
<1> QED
  BY <1>3, <1>4, <1>5, <1>6

LEMMA InitUpper ==
  ASSUME XrayAssumption, Init PROVE UpperInv
BY Starting DEF UpperInv, Due, Cuts, Entitled, Idle

-----------------------------------------------------------------------------
(* The accounts have the user's credentials, and so has every push that is *)
(* about to add one: unless OFF has cleared them, or the user is gone.     *)
Keyed == mishaps \subseteq {"rpc"} /\ ~Cleared /\ user.status # "gone"
Equipped(j) ==
  /\ job[j].pc \in {"targets"} \cup Adding => user.key # 0
  /\ job[j].pc \in {"pushing"} \cup Marking => job[j].key = user.key
KeyInv ==
  Keyed => /\ \A t \in Tags : account[t] # 0 => account[t] = user.key
           /\ \A j \in Jobs : Equipped(j)

LEMMA StepKeys ==
  ASSUME XrayAssumption, Ground, KeyInv, NEW j \in Jobs, JobStep(j)
  PROVE  KeyInv'
<1>1. /\ job \in JobType(given) /\ JobInv /\ TypeOK /\ CourseInv /\ ApartInv
      /\ user \in [status : {"active", "disabled", "gone"}, exceeded : BOOLEAN, key : 0..given.key]
      /\ given.key \in Nat /\ \A k \in Jobs : job[k].todo \subseteq Tags
  BY Parts DEF Ground, Work, Rows, Given, XrayAssumption, JobType
<1>2. Others(j) /\ UNCHANGED <<advanced, mishaps>>
  BY <1>1, Continuing
<1>3. SUFFICES ASSUME Keyed'
               PROVE  /\ \A t \in Tags : account'[t] # 0 => account'[t] = user'.key
                      /\ \A k \in Jobs : Equipped(k)'
  BY DEF KeyInv
<1>4. ~OffClear(j)
  BY <1>1, <1>2, <1>3, OffClears DEF Keyed, Orderly
<1>5. Keyed
  BY <1>1, <1>2, <1>3, <1>4, ClearedBySteps, StepKeepsOut DEF Keyed
<1>6. /\ \A t \in Tags : account[t] # 0 => account[t] = user.key
      /\ \A k \in Jobs : Equipped(k)
  BY <1>5 DEF KeyInv
<1>7. CASE EnsureCredentials(j) /\ user.key = 0
  <2>1. account' = account /\ (user'.key = user.key \/ user'.key # 0)
    BY <1>1, <1>7 DEF EnsureCredentials, MakeKey
  <2>2. \A k \in Jobs : job[k].pc \notin {"targets"} \cup Adding
    BY <1>6, <1>7 DEF Equipped
  <2>3. \A t \in Tags : account[t] = 0
    BY <1>6, <1>7
  <2>4. job'[j].pc = "targets" => user'.key # 0
    <3>1. CASE ~advanced \/ user.status = "gone"
      BY <1>1, <1>7, <3>1, Ending DEF EnsureCredentials, Ends, Idle
    <3>2. CASE ~(~advanced \/ user.status = "gone")
      BY <1>1, <1>7, <3>2 DEF EnsureCredentials, MakeKey
    <3> QED
      BY <3>1, <3>2
  <2>5. job'[j].pc \in {"idle", "targets"}
    BY <1>1, <1>7, Going, Ending DEF EnsureCredentials, Goes, Keeps, Ends, Idle
  <2> QED
    BY <1>2, <2>1, <2>2, <2>3, <2>4, <2>5 DEF Equipped, Others, Adding, Marking
<1>8. CASE ~EnsureCredentials(j) \/ user.key # 0
  <2>1. user'.key = user.key
    <3>1. ~DeleteRow(j)
      BY <1>3 DEF DeleteRow, Keyed
    <3>2. CASE EnsureCredentials(j)
      BY <1>8, <3>2 DEF EnsureCredentials, MakeKey
    <3>3. CASE ClearFlag(j) \/ SetFlag(j)
      BY <1>1, <3>3 DEF ClearFlag, SetFlag
    <3> QED
      BY <1>4, <3>1, <3>2, <3>3 DEF JobStep, db, InsertInstance, ListActive, ReadTargets, ReadStale,
         RemoveEnter, Removed, NoClient, Forget, RemoveFailed, RemovalDone, PushEnter,
         ReadStatus, ReadFlag, WriteQuotaExceeded, PushTargets, ReadCredentials, DropInstance,
         WritePending, ReadNode, Added, Recheck, Undone, MarkSynced, MarkFailed, PushDone, Swept, SweepDone
  <2>2. \A k \in Jobs : Equipped(k)'
    <3>1. ASSUME NEW k \in Jobs \ {j} PROVE Equipped(k)'
      BY <1>2, <1>6, <2>1, <3>1 DEF Equipped, Others
    <3>2. job'[j].pc \in {"targets"} \cup Adding => user'.key # 0
      BY <1>1, <1>6, <1>8, <2>1, Turning DEF Equipped
    <3>3. job'[j].pc \in {"pushing"} \cup Marking => job'[j].key = user'.key
      <4>1. ReadCredentials(j) => Ends(j) \/ job'[j].key = user.key
        BY <1>1, Reading
      <4> QED
        BY <1>1, <1>6, <2>1, <4>1, Turning DEF Equipped, Ends, Idle, Marking
    <3> QED
      BY <3>1, <3>2, <3>3 DEF Equipped
  <2>3. ASSUME NEW t \in Tags, account'[t] # 0 PROVE account'[t] = user'.key
    <3>1. CASE account'[t] = account[t]
      BY <1>6, <2>1, <2>3, <3>1
    <3>2. CASE account'[t] # account[t]
      <4>1. Added(j) /\ account' = AddEffect(j)
        BY <1>1, <2>3, <3>2, AccountSteps, ClearsElsewhere
      <4>2. t = At(j) /\ job[j].key = user.key
        BY <1>1, <1>6, <3>2, <4>1, AddEffectElsewhere DEF Added, Equipped, Marking
      <4> QED
        BY <1>1, <2>1, <3>2, <4>1, <4>2 DEF AddEffect, TypeOK
    <3> QED
      BY <3>1, <3>2
  <2> QED
    BY <2>2, <2>3
<1> QED
  BY <1>7, <1>8

LEMMA OtherKeys ==
  ASSUME XrayAssumption, Ground, CoverInv, KeyInv,
         On \/ Crash \/ \E j \in Jobs : Request(j) \/ RpcFails(j) \/ Abandon(j)
  PROVE  KeyInv'
<1>1. /\ job \in JobType(given) /\ JobInv /\ TypeOK /\ CourseInv
      /\ \A k \in Jobs : job[k].todo \subseteq Tags
  BY Parts DEF Ground, Work, JobType
<1>2. /\ user'.key = user.key /\ mishaps \subseteq mishaps'
      /\ user'.status = "gone" <=> user.status = "gone"
  BY <1>1, OtherRows
<1>3. SUFFICES ASSUME Keyed'
               PROVE  /\ \A t \in Tags : account'[t] # 0 => account'[t] = user'.key
                      /\ \A k \in Jobs : Equipped(k)'
  BY DEF KeyInv
<1>4. CASE On
  <2>1. Quiet /\ ~advanced /\ mishaps \subseteq {"rpc"} /\ UNCHANGED <<account, job>>
    BY <1>3, <1>4 DEF On, Keyed
  <2>2. \A k \in Jobs : job[k].pc = "idle"
    BY <2>1 DEF Quiet, Alive
  <2>3. DOMAIN records = {}
    BY <2>1, AtRest
  <2>4. \A t \in Tags, k \in Jobs : ~Covers(k, t)
    BY <2>2 DEF Covers, Removal
  <2>5. \A t \in Tags : account[t] = 0
    BY <1>2, <1>3, <2>1, <2>3, <2>4 DEF CoverInv, Sound, Keyed
  <2> QED
    BY <2>1, <2>2, <2>5 DEF Equipped, Adding, Marking
<1>5. CASE Crash
  BY <1>3, <1>5 DEF Crash, Keyed
<1>6. ASSUME NEW j \in Jobs, Abandon(j) PROVE FALSE
  BY <1>1, <1>3, <1>6, Abandoning DEF Keyed
<1>7. ASSUME NEW j \in Jobs, Request(j) \/ RpcFails(j)
      PROVE  /\ \A t \in Tags : account[t] # 0 => account[t] = user.key
             /\ \A k \in Jobs : Equipped(k)
  BY <1>1, <1>2, <1>3, <1>7, ClearedStays, ClearedByFaults DEF KeyInv, Keyed
<1>8. ASSUME NEW j \in Jobs, Request(j)
      PROVE  /\ \A t \in Tags : account'[t] # 0 => account'[t] = user'.key
             /\ \A k \in Jobs : Equipped(k)'
  <2>1. account' = account
    BY <1>1, <1>8, Requesting
  <2>2. CASE job' = job
    BY <1>2, <1>7, <1>8, <2>1, <2>2 DEF Equipped
  <2>3. ASSUME NEW op, NEW pc \in {"clear", "insert", "drop", "aim", "delete", "list", "reset"},
               NEW inst, NEW todo, Begins(j, op, pc, inst, todo)
        PROVE  \A k \in Jobs : Equipped(k)'
    BY <1>2, <1>7, <1>8, <2>3 DEF Equipped, Begins, Others, Adding, Marking
  <2> QED
    BY <1>1, <1>2, <1>7, <1>8, <2>1, <2>2, <2>3, Requesting
<1>9. ASSUME NEW j \in Jobs, RpcFails(j)
      PROVE  /\ \A t \in Tags : account'[t] # 0 => account'[t] = user'.key
             /\ \A k \in Jobs : Equipped(k)'
  <2>1. /\ Others(j) /\ job'[j].key = job[j].key
        /\ job'[j].pc \in Adding => job[j].pc \in Marking
        /\ job'[j].pc # "targets"
    BY <1>1, <1>9, Failing DEF Goes, Passes, Keeps, Adding, Marking
  <2>2. \A k \in Jobs : Equipped(k)'
    BY <1>2, <1>7, <1>9, <2>1 DEF Equipped, Others, Adding
  <2>3. ASSUME NEW t \in Tags, account'[t] # 0, account'[t] # account[t] PROVE account'[t] = user.key
    <3>1. job[j].pc = "adding" /\ account' = AddEffect(j) /\ t = At(j)
      BY <1>1, <1>9, <2>3, Failing, ClearsElsewhere, AddEffectElsewhere DEF Clears
    <3>2. job[j].key = user.key
      BY <1>7, <1>9, <3>1 DEF Equipped, Marking
    <3> QED
      BY <1>1, <2>3, <3>1, <3>2 DEF AddEffect, TypeOK
  <2> QED
    BY <1>2, <1>7, <1>9, <2>2, <2>3
<1> QED
  BY <1>4, <1>5, <1>6, <1>8, <1>9

LEMMA InitKeys ==
  ASSUME XrayAssumption, Init PROVE KeyInv
BY Starting DEF KeyInv, Equipped, Idle, Adding, Marking

-----------------------------------------------------------------------------
(* A record says synced of an account that is there, or that one is about  *)
(* to take the record back.                                                *)
Truthful == mishaps \subseteq {"rpc"} /\ advanced /\ user.status # "gone"
Claims(t) ==
  records[t] = "synced" => account[t] # 0 \/ \E j \in Jobs : job[j].pc \in {"forget", "complain"} /\ At(j) = t
Sees(j) == job[j].pc \in {"recheck", "synced"} => account[At(j)] # 0
SyncInv == Truthful => (\A t \in DOMAIN records : Claims(t)) /\ \A j \in Jobs : Sees(j)

(* A goroutine that has just added an account keeps it: who would take it  *)
(* away works on other inbounds.                                           *)
LEMMA NotThere ==
  ASSUME XrayAssumption, Ground, Orderly, advanced, NEW j \in Jobs, Alive(j), job[j].todo # {},
         job[j].pc \in {"removing", "undo", "sweep"},
         NEW k \in Jobs, job[k].pc \in {"recheck", "synced"}
  PROVE  At(j) # At(k) /\ job[j].pc # "undo"
<1>1. job[j].pc # "undo"
  BY DEF Ground, ApartInv
<1>2. /\ job[k].todo # {} /\ At(k) \in job[k].todo /\ At(j) \in job[j].todo /\ Holds(k)
      /\ Alive(k) /\ job[k].op \notin {"clear", "drop", "none"}
  BY AtElement DEF Ground, JobInv, AtPcs, Holds, Adding, Marking, Alive, CourseInv, Course, Pushing,
     Granting, Targeted
<1>3. CASE job[j].pc = "sweep"
  <2>1. job[j].op = "drop"
    BY <1>3 DEF Ground, CourseInv, Course, ApartInv
  <2> QED
    BY <1>2, <2>1, Lonely DEF Removing
<1>4. CASE job[j].pc = "removing"
  <2>1. Holds(j)
    BY <1>4 DEF Holds, Removal
  <2>2. job[j].inst = instance /\ job[k].inst = instance
    BY <1>2, <2>1, Present
  <2>3. job[j].todo \cap job[k].todo = {}
    BY <1>4, <2>2, Disjoint DEF Ground, Removal, Adding, Marking
  <2> QED
    BY <1>1, <1>2, <2>3
<1> QED
  BY <1>1, <1>3, <1>4

(* Where accounts are swept away, no records are.                          *)
LEMMA NoRecordsSwept ==
  ASSUME Ground, Orderly, advanced, NEW j \in Jobs, job[j].pc = "sweep"
  PROVE  DOMAIN records = {}
<1>1. job[j].op = "drop"
  BY DEF Ground, CourseInv, Course, ApartInv
<1>2. instance = 0
  BY <1>1 DEF Ground, SweepInv, Sweeps
<1> QED
  BY <1>2, NothingThere DEF Ground

LEMMA UpsertRecords ==
  ASSUME TypeOK, NEW j \in Jobs, NEW status, Upsert(j, status), Insertable(j), NEW t \in DOMAIN records'
  PROVE  (t = At(j) /\ records'[t] = status) \/ (t # At(j) /\ t \in DOMAIN records /\ records'[t] = records[t])
BY DEF Upsert

LEMMA StepSyncs ==
  ASSUME XrayAssumption, Ground, KeyInv, SyncInv, NEW j \in Jobs, JobStep(j)
  PROVE  SyncInv'
<1>1. /\ job \in JobType(given) /\ JobInv /\ TypeOK /\ CourseInv /\ DOMAIN records \subseteq Tags
      /\ \A k \in Jobs : job[k].todo \subseteq Tags
      /\ \A k \in Jobs : job[k].pc \in Marking \cup {"forget", "complain"} => At(k) \in Tags /\ job[k].todo # {}
  BY Parts, AtElement DEF Ground, Work, JobType, Rows, JobInv, AtPcs, Marking
<1>2. Others(j) /\ UNCHANGED <<advanced, mishaps>> /\ Alive(j)
  BY <1>1, Continuing
<1>3. SUFFICES ASSUME Truthful' PROVE (\A t \in DOMAIN records' : Claims(t)') /\ \A k \in Jobs : Sees(k)'
  BY DEF SyncInv
<1>4. /\ Truthful /\ Orderly /\ advanced
      /\ Keyed /\ user.status # "gone"
  BY <1>1, <1>2, <1>3, StepKeepsOut DEF Truthful, Orderly, Keyed, Cleared
<1>5. (\A t \in DOMAIN records : Claims(t)) /\ \A k \in Jobs : Sees(k)
  BY <1>4 DEF SyncInv
<1>6. \A k \in Jobs : job[k].pc = "adding" => job[k].key # 0
  BY <1>4 DEF KeyInv, Equipped, Adding, Marking
<1>7. ASSUME NEW t \in Tags, account[t] # 0, account'[t] = 0
      PROVE  \/ Removed(j) /\ t = At(j) /\ job'[j].pc = "forget" /\ job'[j].todo = job[j].todo
             \/ Swept(j) /\ t = At(j)
  <2>1. Clears(j) /\ ((Removed(j) /\ Goes(j, "forget")) \/ Undone(j) \/ Swept(j))
    BY <1>1, <1>6, <1>7, AccountSteps, AddEffectElsewhere DEF Added, AddEffect, TypeOK
  <2>2. t = At(j)
    BY <1>1, <1>7, <2>1, ClearsElsewhere DEF Removed, Undone, Swept
  <2>3. ~Undone(j)
    BY <1>4 DEF Undone, Ground, ApartInv
  <2> QED
    BY <2>1, <2>2, <2>3 DEF Goes, Keeps
<1>8. ASSUME NEW k \in Jobs PROVE Sees(k)'
  <2>1. CASE job[k].pc \in {"recheck", "synced"} /\ Min(job'[k].todo) = At(k)
    <3>1. At(k) \in Tags /\ account[At(k)] # 0
      BY <1>1, <1>5, <2>1 DEF Sees, Marking
    <3>2. account'[At(k)] # 0
      <4>1. SUFFICES ASSUME account'[At(k)] = 0 PROVE FALSE
        OBVIOUS
      <4>2. (Removed(j) \/ Swept(j)) /\ At(k) = At(j)
        BY <1>7, <3>1, <4>1
      <4>3. job[j].todo # {} /\ job[j].pc \in {"removing", "undo", "sweep"}
        BY <4>2 DEF Removed, Swept
      <4> QED
        BY <1>2, <1>4, <2>1, <4>2, <4>3, NotThere
    <3> QED
      BY <2>1, <3>2 DEF Sees, At
  <2>2. CASE k = j /\ Added(j)
    <3>1. Goes(j, "recheck") /\ account' = AddEffect(j) /\ At(j) \in Tags
      BY <1>1, <2>2, Going DEF Added, Marking
    <3>2. account'[At(j)] # 0
      BY <1>1, <1>6, <2>2, <3>1 DEF AddEffect, Added, TypeOK
    <3> QED
      BY <2>2, <3>1, <3>2 DEF Sees, Goes, At
  <2>3. CASE k # j
    BY <1>2, <2>1, <2>3 DEF Others, Sees, At
  <2>4. CASE k = j /\ ~Added(j)
    <3>1. SUFFICES ASSUME job'[j].pc \in {"recheck", "synced"}
                   PROVE  job[j].pc \in {"recheck", "synced"} /\ job'[j].todo = job[j].todo
      BY <2>1, <2>4 DEF Sees, At
    <3>2. job[j].pc \in Adding
      BY <1>1, <3>1, Turning, Targeting DEF Adding, Marking, Ends, Idle
    <3>3. CASE Recheck(j)
      BY <1>1, <3>3, Going DEF Recheck, Goes, Keeps
    <3>4. CASE ReadCredentials(j)
      BY <1>1, <3>1, <3>4, Reading DEF Ends, Idle
    <3>5. CASE WritePending(j)
      BY <1>1, <3>1, <3>5, Going, Passing, Ending DEF WritePending, Goes, Passes, Keeps, Ends, Idle
    <3>6. CASE ReadNode(j) \/ Undone(j) \/ MarkSynced(j) \/ MarkFailed(j) \/ PushDone(j)
      BY <1>1, <3>1, <3>6, Going, Passing, Ending DEF ReadNode, Undone, MarkSynced, MarkFailed,
         PushDone,
         Goes, Passes, Keeps, Ends, Idle
    <3> QED
      BY <2>4, <3>2, <3>3, <3>4, <3>5, <3>6, AddingSteps
  <2> QED
    BY <2>2, <2>3, <2>4
<1>9. ASSUME NEW t \in DOMAIN records', records'[t] = "synced", account'[t] = 0
      PROVE  \E k \in Jobs : job'[k].pc \in {"forget", "complain"} /\ Min(job'[k].todo) = t
  <2>1. CASE t \in DOMAIN records /\ records[t] = "synced"
    <3>1. t \in Tags /\ Claims(t)
      BY <1>1, <1>5, <2>1
    <3>2. CASE account[t] # 0
      <4>1. ~Swept(j)
        BY <1>4, <2>1, NoRecordsSwept DEF Swept
      <4> QED
        BY <1>7, <1>9, <3>1, <3>2, <4>1 DEF At
    <3>3. ASSUME NEW k \in Jobs, job[k].pc \in {"forget", "complain"}, At(k) = t
          PROVE  job'[k].pc \in {"forget", "complain"} /\ Min(job'[k].todo) = t
      <4>1. CASE k # j
        BY <1>2, <3>3, <4>1 DEF Others, At
      <4>2. CASE k = j
        <5>1. Forget(j) \/ RemoveFailed(j)
          BY <3>3, <4>2, RemovalSteps DEF Removal, RemoveEnter, Removed, NoClient, RemovalDone
        <5>2. job[j].inst = instance /\ instance # 0
          BY <1>1, <1>4, <3>3, <4>2, Present DEF Holds, Removal
        <5>3. CASE Forget(j)
          BY <1>9, <3>3, <4>2, <5>2, <5>3 DEF Forget
        <5>4. CASE RemoveFailed(j)
          BY <1>1, <1>4, <1>9, <3>3, <4>2, <5>2, <5>4, UpsertRecords DEF RemoveFailed, Insertable
        <5> QED
          BY <5>1, <5>3, <5>4
      <4> QED
        BY <4>1, <4>2
    <3> QED
      BY <2>1, <3>1, <3>2, <3>3 DEF Claims
  <2>2. CASE ~(t \in DOMAIN records /\ records[t] = "synced")
    \* nothing but MarkSynced says so
    <3>1. MarkSynced(j)
      <4>1. records' # records
        BY <1>9, <2>2
      <4>2. CASE Forget(j) \/ DeleteRow(j) \/ OffClear(j) \/ DropInstance(j) \/ WriteQuotaExceeded(j)
        <5>1. CASE Forget(j) \/ WriteQuotaExceeded(j)
          BY <1>9, <2>2, <5>1 DEF Forget, WriteQuotaExceeded
        <5>2. CASE DeleteRow(j)
          BY <1>9, <5>2, EmptyRecords DEF DeleteRow
        <5>3. CASE OffClear(j) \/ DropInstance(j)
          BY <1>1, <1>9, <4>1, <5>3, Clearing, Dropping, EmptyRecords
        <5> QED
          BY <4>2, <5>1, <5>2, <5>3
      <4>3. ASSUME NEW status \in {"pending", "failed"}, Upsert(j, status) PROVE FALSE
        <5>1. Insertable(j)
          BY <4>1, <4>3 DEF Upsert
        <5> QED
          BY <1>1, <1>9, <2>2, <4>3, <5>1, UpsertRecords
      <4>4. CASE WritePending(j) \/ RemoveFailed(j) \/ MarkFailed(j)
        BY <4>1, <4>3, <4>4 DEF WritePending, RemoveFailed, MarkFailed
      <4> QED
        BY <4>1, <4>2, <4>4 DEF JobStep, db, InsertInstance, ListActive, ClearFlag, ReadTargets,
           ReadStale,
           RemoveEnter, Removed, NoClient, RemovalDone, SetFlag, PushEnter,
           ReadStatus, ReadFlag, EnsureCredentials, PushTargets, ReadCredentials,
           ReadNode, Added, Recheck, Undone, PushDone, Swept, SweepDone
    <3>2. Upsert(j, "synced") /\ UNCHANGED account /\ job[j].pc = "synced"
      BY <3>1 DEF MarkSynced
    <3>3. Insertable(j)
      BY <1>9, <2>2, <3>2 DEF Upsert
    <3>4. t = At(j)
      BY <1>1, <1>9, <2>2, <3>2, <3>3, UpsertRecords
    <3> QED
      BY <1>5, <1>9, <3>2, <3>4 DEF Sees
  <2> QED
    BY <2>1, <2>2
<1> QED
  BY <1>8, <1>9 DEF Claims, At

LEMMA OtherSyncs ==
  ASSUME XrayAssumption, Ground, KeyInv, SyncInv,
         On \/ Crash \/ \E j \in Jobs : Request(j) \/ RpcFails(j) \/ Abandon(j)
  PROVE  SyncInv'
<1>1. /\ job \in JobType(given) /\ JobInv /\ TypeOK /\ CourseInv /\ DOMAIN records \subseteq Tags
      /\ \A k \in Jobs : job[k].todo \subseteq Tags
      /\ \A k \in Jobs : job[k].pc \in Marking \cup {"forget", "complain"} => At(k) \in Tags /\ job[k].todo # {}
  BY Parts, AtElement DEF Ground, Work, JobType, Rows, JobInv, AtPcs, Marking
<1>2. /\ UNCHANGED <<instance, records>> /\ mishaps \subseteq mishaps'
      /\ user'.status = "gone" <=> user.status = "gone"
  BY <1>1, OtherRows
<1>3. SUFFICES ASSUME Truthful' PROVE (\A t \in DOMAIN records' : Claims(t)') /\ \A k \in Jobs : Sees(k)'
  BY DEF SyncInv
<1>4. CASE On
  <2>1. Quiet /\ ~advanced /\ mishaps \subseteq {"rpc"} /\ job' = job
    BY <1>3, <1>4 DEF On, Truthful
  <2>2. \A k \in Jobs : job'[k].pc = "idle"
    BY <2>1 DEF Quiet, Alive
  <2> QED
    BY <1>2, <2>1, <2>2, AtRest DEF Sees
<1>5. CASE Crash
  BY <1>3, <1>5 DEF Crash, Truthful
<1>6. ASSUME NEW j \in Jobs, Abandon(j) PROVE FALSE
  BY <1>1, <1>3, <1>6, Abandoning DEF Truthful
<1>7. ASSUME NEW j \in Jobs, Request(j) \/ RpcFails(j)
      PROVE  /\ \A t \in DOMAIN records : Claims(t)
             /\ \A k \in Jobs : Sees(k)
             /\ Orderly /\ advanced /\ Keyed
  <2>1. advanced
    BY <1>1, <1>3, <1>7, RequestRights, Failing DEF Truthful, db
  <2> QED
    BY <1>2, <1>3, <2>1 DEF SyncInv, Truthful, Orderly, Keyed, Cleared
<1>8. ASSUME NEW j \in Jobs, Request(j)
      PROVE  (\A t \in DOMAIN records' : Claims(t)') /\ \A k \in Jobs : Sees(k)'
  <2>1. account' = account
    BY <1>1, <1>8, Requesting
  <2>2. \/ job' = job
        \/ /\ Others(j) /\ ~Alive(j) /\ job'[j].pc \notin {"forget", "complain", "recheck", "synced"}
    BY <1>1, <1>3, <1>8, RequestRights DEF Truthful
  <2>3. \A k \in Jobs : Sees(k)'
    BY <1>7, <1>8, <2>1, <2>2 DEF Sees, Others, At
  <2>4. ASSUME NEW k \in Jobs, job[k].pc \in {"forget", "complain"} PROVE job'[k] = job[k]
    BY <2>2, <2>4 DEF Others, Alive
  <2> QED
    BY <1>2, <1>7, <1>8, <2>1, <2>3, <2>4 DEF Claims, At
<1>9. ASSUME NEW j \in Jobs, RpcFails(j)
      PROVE  (\A t \in DOMAIN records' : Claims(t)') /\ \A k \in Jobs : Sees(k)'
  <2>1. /\ Others(j) /\ job[j].todo # {} /\ job[j].pc \in {"removing", "adding", "undo", "sweep"} /\ Alive(j)
        /\ job[j].pc = "removing" => job'[j].pc = "complain" /\ job'[j].todo = job[j].todo
        /\ job'[j].pc \in {"complain", "failed", "sweep"}
    BY <1>1, <1>9, Failing DEF Goes, Passes, Keeps, Alive
  <2>2. ASSUME NEW t \in Tags, account[t] # 0, account'[t] = 0
        PROVE  job[j].pc \in {"removing", "undo", "sweep"} /\ t = At(j)
    <3>1. CASE job[j].pc = "adding" /\ account' = AddEffect(j)
      <4>1. job[j].key # 0
        BY <1>7, <1>9, <3>1 DEF KeyInv, Equipped, Adding, Marking
      <4> QED
        BY <1>1, <2>2, <3>1, <4>1 DEF AddEffect, TypeOK
    <3> QED
      BY <1>1, <1>9, <2>1, <2>2, <3>1, Failing, ClearsElsewhere DEF Clears
  <2>3. ASSUME NEW k \in Jobs PROVE Sees(k)'
    <3>1. SUFFICES ASSUME job'[k].pc \in {"recheck", "synced"}, k # j PROVE account'[At(k)] # 0
      BY <2>1 DEF Sees, Others, At
    <3>2. job[k].pc \in {"recheck", "synced"}
      BY <2>1, <3>1 DEF Others
    <3>3. At(k) \in Tags /\ account[At(k)] # 0
      BY <1>1, <1>7, <1>9, <3>2 DEF Sees, Marking
    <3> QED
      BY <1>7, <1>9, <2>1, <2>2, <3>2, <3>3, NotThere
  <2>4. ASSUME NEW t \in DOMAIN records', records'[t] = "synced", account'[t] = 0
        PROVE  \E k \in Jobs : job'[k].pc \in {"forget", "complain"} /\ Min(job'[k].todo) = t
    <3>1. t \in DOMAIN records /\ t \in Tags /\ Claims(t) /\ records[t] = "synced"
      BY <1>1, <1>2, <1>7, <1>9, <2>4
    <3>2. CASE account[t] # 0
      <4>1. t = At(j) /\ job[j].pc = "removing"
        <5>1. job[j].pc # "undo" /\ job[j].pc # "sweep"
          BY <1>7, <1>9, <3>1, NoRecordsSwept DEF Ground, ApartInv
        <5> QED
          BY <2>2, <2>4, <3>1, <3>2, <5>1
      <4> QED
        BY <2>1, <4>1 DEF At
    <3>3. ASSUME NEW k \in Jobs, job[k].pc \in {"forget", "complain"}, At(k) = t
          PROVE  job'[k].pc \in {"forget", "complain"} /\ Min(job'[k].todo) = t
      BY <2>1, <3>3 DEF Others, At
    <3> QED
      BY <3>1, <3>2, <3>3 DEF Claims
  <2> QED
    BY <2>3, <2>4 DEF Claims, At
<1> QED
  BY <1>4, <1>5, <1>6, <1>8, <1>9

LEMMA InitSyncs ==
  ASSUME XrayAssumption, Init PROVE SyncInv
BY Starting DEF SyncInv, Claims, Sees, Idle

-----------------------------------------------------------------------------
(* When nothing went wrong in advanced mode, what an entitled user lacks   *)
(* is about to be added, or a quota check is about to end her entitlement. *)
Adds(j, t) ==
  \/ job[j].op \in Targeted /\ job[j].pc = "aim"
  \/ job[j].pc \in {"stale"} \cup Removal /\ job[j].next = "push"
  \/ job[j].pc \in Preparing
  \/ job[j].pc \in Adding /\ t \in job[j].todo
  \/ job[j].op = "quota" /\ job[j].pc # "aim"
Served(t) == account[t] = 0 => \E j \in Jobs : Adds(j, t)
LowerInv == Flawless /\ Entitled => \A t \in allotted : Served(t)

(* A goroutine that is about to add an account does so, or goes on.        *)
LEMMA AddingGoesOn ==
  ASSUME XrayAssumption, Ground, KeyInv, SyncInv, Flawless, Entitled,
         NEW j \in Jobs, JobStep(j), NEW t \in allotted, Adds(j, t), account[t] = 0, account'[t] = 0,
         Entitled'
  PROVE  Adds(j, t)'
<1>1. /\ job \in JobType(given) /\ Course(job[j]) /\ JobInv /\ TypeOK /\ allotted \subseteq Tags
      /\ \A k \in Jobs : job[k].todo \subseteq Tags
      /\ user \in [status : {"active", "disabled", "gone"}, exceeded : BOOLEAN, key : 0..given.key]
  BY Parts DEF Ground, Work, JobType, Rows, CourseInv
<1>2. mishaps = {} /\ Orderly /\ advanced /\ user.status = "active" /\ ~user.exceeded /\ TargetSets = {allotted}
  BY DEF Flawless, Orderly, Entitled, TargetSets
<1>3. CASE job[j].op \in Targeted /\ job[j].pc = "aim"
  <2>1. ReadTargets(j)
    BY <1>3, PreparingSteps DEF ReadTargets, ReadStale, ListActive, PushEnter, ReadStatus,
       ReadFlag, EnsureCredentials, PushTargets
  <2>2. job'[j].todo = allotted /\ job'[j].pc = "stale"
        /\ (job[j].op \in Targeted /\ job'[j].todo # {} => job'[j].next = "push")
    BY <1>1, <1>2, <1>3, <2>1, Aiming DEF Targeted
  <2> QED
    BY <1>3, <2>2 DEF Adds
<1>4. CASE job[j].pc = "stale" /\ job[j].next = "push"
  <2>1. ReadStale(j)
    BY <1>4, PreparingSteps DEF ReadTargets, ReadStale, ListActive, PushEnter, ReadStatus,
       ReadFlag, EnsureCredentials, PushTargets
  <2> QED
    BY <1>1, <1>4, <2>1, Sorting DEF Adds, Removal
<1>5. CASE job[j].pc \in Removal /\ job[j].next = "push"
  <2>1. CASE RemoveEnter(j) \/ RemovalDone(j) \/ Removed(j)
    BY <1>1, <1>5, <2>1, Going DEF RemoveEnter, RemovalDone, Removed, AfterRemoval, Goes, Keeps,
       Adds, Removal, Preparing
  <2>2. CASE NoClient(j) \/ Forget(j) \/ RemoveFailed(j)
    BY <1>1, <1>5, <2>2, Passing DEF NoClient, Forget, RemoveFailed, Passes, Keeps, Adds, Removal
  <2> QED
    BY <1>5, <2>1, <2>2, RemovalSteps
<1>6. CASE job[j].pc \in Preparing
  <2>1. CASE ListActive(j) \/ PushEnter(j) \/ ReadStatus(j) \/ ReadFlag(j) \/ EnsureCredentials(j)
    <3>1. \E pc \in Preparing : Goto(j, pc)
      BY <1>2, <2>1 DEF ListActive, PushEnter, ReadStatus, ReadFlag, EnsureCredentials, Preparing
    <3> QED
      BY <1>1, <3>1, Going DEF Preparing, Goes, Keeps, Adds
  <2>2. CASE PushTargets(j)
    <3>1. job'[j].pc = "creds" /\ job'[j].todo = allotted
      BY <1>1, <1>2, <2>2, Targeting
    <3> QED
      BY <3>1 DEF Adds, Adding
  <2> QED
    BY <1>6, <2>1, <2>2, PreparingSteps DEF ReadTargets, ReadStale, Preparing
<1>7. CASE job[j].pc \in Adding /\ t \in job[j].todo
  <2>1. job[j].inst = instance /\ instance # 0
    BY <1>2, <1>7, Present DEF Holds
  <2>2. user.key # 0 /\ (job[j].pc = "adding" => job[j].key # 0)
    <3>1. Keyed
      BY <1>2 DEF Keyed, Cleared
    <3> QED
      BY <1>7, <3>1 DEF KeyInv, Equipped, Adding, Marking
  <2>3. CASE ReadCredentials(j)
    BY <1>1, <1>7, <2>2, <2>3, Reading DEF Adds, Adding
  <2>4. CASE WritePending(j)
    BY <1>1, <1>2, <1>7, <2>1, <2>4, Going DEF WritePending, Insertable, Goes, Keeps, Adds, Adding,
       Marking
  <2>5. CASE ReadNode(j)
    BY <1>1, <1>7, <2>1, <2>5, Going DEF ReadNode, Goes, Keeps, Adds, Adding, Marking
  <2>6. CASE Added(j) \/ Recheck(j)
    BY <1>1, <1>2, <1>7, <2>6, Going DEF Added, Recheck, Goes, Keeps, Adds, Adding, Marking
  <2>7. CASE Undone(j)
    BY <1>2, <2>7 DEF Undone, Ground, ApartInv
  <2>8. CASE MarkSynced(j)
    <3>1. account[At(j)] # 0
      BY <1>2, <2>8 DEF MarkSynced, SyncInv, Truthful, Sees
    <3>2. Passes(j, "pushing")
      BY <1>1, <2>8, Passing DEF MarkSynced
    <3> QED
      BY <1>7, <3>1, <3>2 DEF Passes, Keeps, Adds, Adding, At
  <2>9. CASE MarkFailed(j)
    BY <1>2, <2>9 DEF MarkFailed, Ground, FailInv, Fails
  <2>10. CASE PushDone(j)
    BY <1>7, <2>10 DEF PushDone
  <2> QED
    BY <1>7, <2>3, <2>4, <2>5, <2>6, <2>7, <2>8, <2>9, <2>10, AddingSteps
<1>8. CASE job[j].op = "quota" /\ job[j].pc # "aim"
  <2>1. job[j].pc \in {"flag"} \cup Removal
    BY <1>1, <1>8 DEF JobType, Course, Pcs, Pushing, Granting, Adding, Marking, Targeted, Removal
  <2>2. ~SetFlag(j)
    BY <1>1, <1>2 DEF SetFlag, Entitled
  <2>3. job[j].pc # "flag"
    BY <2>2 DEF JobStep, InsertInstance, ListActive, ClearFlag, DeleteRow, ReadTargets, ReadStale,
       RemoveEnter, Removed, NoClient, Forget, RemoveFailed, RemovalDone, PushEnter,
       ReadStatus, ReadFlag, WriteQuotaExceeded, EnsureCredentials, PushTargets, ReadCredentials,
       WritePending, ReadNode, Added, Recheck, Undone, MarkSynced, MarkFailed, PushDone,
       OffClear, DropInstance, Swept, SweepDone
  <2>4. job[j].next = "flag"
    BY <1>1, <1>8, <2>1, <2>3 DEF Course
  <2>5. CASE RemoveEnter(j) \/ RemovalDone(j) \/ Removed(j)
    BY <1>1, <1>8, <2>4, <2>5, Going DEF RemoveEnter, RemovalDone, Removed, AfterRemoval, Goes,
       Keeps, Adds
  <2>6. CASE NoClient(j) \/ Forget(j) \/ RemoveFailed(j)
    BY <1>1, <1>8, <2>6, Passing DEF NoClient, Forget, RemoveFailed, Passes, Keeps, Adds
  <2> QED
    BY <2>1, <2>3, <2>5, <2>6, RemovalSteps
<1> QED
  BY <1>3, <1>4, <1>5, <1>6, <1>7, <1>8 DEF Adds

LEMMA StepLower ==
  ASSUME XrayAssumption, Ground, KeyInv, SyncInv, LowerInv, NEW j \in Jobs, JobStep(j)
  PROVE  LowerInv'
<1>1. /\ job \in JobType(given) /\ Course(job[j]) /\ CourseInv /\ ApartInv /\ JobInv /\ TypeOK
      /\ user \in [status : {"active", "disabled", "gone"}, exceeded : BOOLEAN, key : 0..given.key]
      /\ allotted \subseteq Tags /\ \A k \in Jobs : job[k].todo \subseteq Tags
  BY Parts DEF Ground, Work, CourseInv, JobType, Rows
<1>2. Others(j) /\ UNCHANGED <<advanced, mishaps>> /\ Alive(j)
  BY <1>1, Continuing
<1>3. SUFFICES ASSUME Flawless', Entitled', NEW t \in allotted', account'[t] = 0
               PROVE  \E k \in Jobs : Adds(k, t)'
  BY DEF LowerInv, Served
<1>4. Flawless /\ mishaps = {} /\ advanced /\ Orderly
  BY <1>2, <1>3 DEF Flawless, Orderly
<1>5. ~OffClear(j)
  BY <1>1, <1>4, Clearing DEF Course, ApartInv
<1>6. CASE ClearFlag(j)
  BY <1>1, <1>6, Going DEF ClearFlag, Goes, Keeps, Adds, Preparing
<1>7. CASE ~ClearFlag(j)
  <2>1. Entitled
    <3>1. ~DeleteRow(j)
      BY <1>3 DEF DeleteRow, Entitled
    <3>2. CASE SetFlag(j)
      BY <1>1, <1>3, <3>2 DEF SetFlag, Entitled
    <3>3. CASE EnsureCredentials(j)
      BY <1>1, <1>3, <3>3 DEF EnsureCredentials, MakeKey, Entitled
    <3>4. CASE UNCHANGED user
      BY <1>3, <3>4 DEF Entitled
    <3> QED
      BY <1>5, <1>7, <3>1, <3>2, <3>3, <3>4 DEF JobStep, db, InsertInstance, ListActive,
         ReadTargets, ReadStale,
         RemoveEnter, Removed, NoClient, Forget, RemoveFailed, RemovalDone, PushEnter,
         ReadStatus, ReadFlag, WriteQuotaExceeded, PushTargets, ReadCredentials, DropInstance,
         WritePending, ReadNode, Added, Recheck, Undone, MarkSynced, MarkFailed, PushDone, Swept, SweepDone
  <2>2. t \in allotted /\ t \in Tags
    BY <1>1, <1>3, <1>5, Footprint, Dropping
  <2>3. CASE account[t] # 0
    <3>1. Clears(j) /\ ((Removed(j) /\ Goes(j, "forget")) \/ Undone(j) \/ Swept(j))
      <4>1. ASSUME Added(j), account' = AddEffect(j) PROVE FALSE
        BY <1>1, <1>3, <2>2, <2>3, <4>1 DEF AddEffect, TypeOK, Added, KeyInv, Keyed, Cleared,
           Equipped, Adding, Marking
      <4> QED
        BY <1>1, <1>3, <2>3, <4>1, AccountSteps
    <3>2. t = At(j)
      BY <1>1, <1>3, <2>2, <2>3, <3>1, ClearsElsewhere
    <3>3. ~Undone(j)
      BY <1>1, <1>4 DEF Undone, ApartInv
    <3>4. ~Swept(j)
      <4>1. SUFFICES ASSUME Swept(j) PROVE FALSE
        OBVIOUS
      <4>2. job[j].op = "drop" /\ job[j].pc = "sweep"
        BY <1>1, <1>4, <4>1 DEF Swept, Course, ApartInv
      <4>3. instance = 0
        BY <1>4, <4>2 DEF Ground, SweepInv, Sweeps
      <4> QED
        BY <2>2, <4>3, NothingThere DEF Ground
    <3>5. Removed(j) /\ Goes(j, "forget") /\ job[j].pc = "removing" /\ job[j].todo # {}
      BY <3>1, <3>3, <3>4 DEF Removed
    <3>6. job[j].op = "quota"
      <4>1. job[j].inst = instance /\ At(j) \in job[j].todo
        BY <1>4, <3>5, Present, AtElement DEF Holds, Removal, Ground
      <4>2. job[j].op \notin Targeted
        BY <1>4, <2>2, <3>2, <3>5, <4>1 DEF Ground, AimInv, Aims, Removal
      <4>3. job[j].op # "disable" /\ job[j].op # "delete"
        BY <1>4, <2>1, <3>5 DEF Ground, FitInv, Fits, Entitled, Removal
      <4> QED
        BY <1>1, <3>5, <4>2, <4>3 DEF Course, Removal
    <3> QED
      BY <3>5, <3>6 DEF Adds, Goes, Keeps
  <2>4. CASE account[t] = 0
    <3>1. PICK k \in Jobs : Adds(k, t)
      BY <1>4, <2>1, <2>2, <2>4 DEF LowerInv, Served
    <3>2. CASE k # j
      BY <1>2, <3>1, <3>2 DEF Others, Adds
    <3>3. CASE k = j
      BY <1>3, <1>4, <2>1, <2>2, <2>4, <3>1, <3>3, AddingGoesOn
    <3> QED
      BY <3>2, <3>3
  <2> QED
    BY <2>3, <2>4
<1> QED
  BY <1>6, <1>7

LEMMA OtherLower ==
  ASSUME XrayAssumption, Ground, LowerInv,
         On \/ Crash \/ \E j \in Jobs : Request(j) \/ RpcFails(j) \/ Abandon(j)
  PROVE  LowerInv'
<1>1. job \in JobType(given) /\ TypeOK
  BY Parts DEF Ground, Work
<1>2. SUFFICES ASSUME Flawless', Entitled', NEW t \in allotted', account'[t] = 0
               PROVE  \E k \in Jobs : Adds(k, t)'
  BY DEF LowerInv, Served
<1>3. CASE On
  <2>1. Quiet /\ ~advanced /\ mishaps = {} /\ allotted' = allotted
    BY <1>2, <1>3 DEF On, Flawless
  <2> QED
    BY <1>2, <2>1, AtRest
<1>4. CASE Crash
  BY <1>2, <1>4 DEF Crash, Flawless
<1>5. ASSUME NEW j \in Jobs, RpcFails(j) \/ Abandon(j) PROVE FALSE
  BY <1>1, <1>2, <1>5, Failing, Abandoning DEF Flawless
<1>6. ASSUME NEW j \in Jobs, Request(j)
      PROVE  \E k \in Jobs : Adds(k, t)'
  <2>1. account' = account /\ advanced /\ mishaps = {}
    BY <1>1, <1>2, <1>6, Requesting, RequestRights, OtherRows DEF Flawless
  <2>2. CASE job'[j].op \in Targeted /\ job'[j].pc = "aim"
    BY <2>2 DEF Adds
  <2>3. CASE UNCHANGED <<user, allotted>> /\ Others(j) /\ ~Alive(j)
    <3>1. PICK k \in Jobs : Adds(k, t)
      BY <1>2, <2>1, <2>3 DEF LowerInv, Served, Flawless, Entitled
    <3>2. k # j
      BY <2>3, <3>1 DEF Adds, Alive, Preparing, Adding, Marking, Removal, Ground, CourseInv, Course
    <3> QED
      BY <2>3, <3>1, <3>2 DEF Others, Adds
  <2> QED
    BY <1>1, <1>2, <1>6, <2>2, <2>3, RequestRights DEF Flawless, Entitled, Targeted
<1> QED
  BY <1>3, <1>4, <1>5, <1>6

LEMMA InitLower ==
  ASSUME XrayAssumption, Init PROVE LowerInv
BY Starting DEF LowerInv, Served, Entitled

-----------------------------------------------------------------------------
(* The whole invariant.                                                    *)
ServerInv == Ground /\ CoverInv /\ UpperInv /\ KeyInv /\ SyncInv /\ LowerInv

LEMMA InitServer ==
  ASSUME XrayAssumption, Init PROVE ServerInv
BY InitGround, InitCovers, InitUpper, InitKeys, InitSyncs, InitLower DEF ServerInv

LEMMA NextServer ==
  ASSUME XrayAssumption, ServerInv, [Next]_vars PROVE ServerInv'
<1>1. ASSUME NEW j \in Jobs, JobStep(j) PROVE ServerInv'
  BY <1>1, StepGround, StepCovers, StepUpper, StepKeys, StepSyncs, StepLower DEF ServerInv
<1>2. CASE On \/ Crash \/ \E j \in Jobs : Request(j) \/ RpcFails(j) \/ Abandon(j)
  <2>1. Ground'
    BY <1>2, OtherGround, RequestGround DEF ServerInv
  <2> QED
    BY <1>2, <2>1, OtherCovers, OtherUpper, OtherKeys, OtherSyncs, OtherLower DEF ServerInv
<1>3. CASE UNCHANGED vars
  <2>1. Ground'
    BY <1>3, SameGround DEF ServerInv
  <2>2. CoverInv' /\ KeyInv' /\ SyncInv'
    BY <1>3 DEF ServerInv, vars, CoverInv, Sound, Covers, Insertable, At, KeyInv, Keyed, Cleared,
       Equipped,
       SyncInv, Truthful, Claims, Sees
  <2>3. UpperInv' /\ LowerInv'
    BY <1>3 DEF ServerInv, vars, UpperInv, Due, Cuts, Withdraws, Flawless, Entitled, LowerInv,
       Served, Adds
  <2> QED
    BY <2>1, <2>2, <2>3 DEF ServerInv
<1> QED
  BY <1>1, <1>2, <1>3 DEF Next

(* What it says at rest.                                                   *)
LEMMA ServerAtRest ==
  ASSUME ServerInv PROVE ServerAgrees
<1>1. SUFFICES ASSUME Quiet PROVE ServerAgrees
  BY DEF ServerAgrees, NoStrayAccount, SyncedIsReal, AccountsAreDue
<1>2. /\ \A j \in Jobs : job[j].pc = "idle" /\ job[j].op = "none"
      /\ DOMAIN records \subseteq Tags /\ allotted \subseteq Tags
  BY <1>1, Parts DEF Quiet, Alive, ServerInv, Ground, CourseInv, Course, Rows
<1>3. NoStrayAccount
  BY <1>2 DEF NoStrayAccount, ServerInv, CoverInv, Sound, Covers, Removal
<1>4. SyncedIsReal
  <2>1. SUFFICES ASSUME mishaps \subseteq {"rpc"}, NEW t \in DOMAIN records, records[t] = "synced"
                 PROVE  account[t] # 0 /\ account[t] = user.key
    BY DEF SyncedIsReal
  <2>2. advanced
    BY <1>1, <2>1, AtRest DEF ServerInv
  <2>3. user.status # "gone"
    BY <2>1, EmptyRecords DEF ServerInv, Ground, TypeOK
  <2>4. account[t] # 0
    BY <1>2, <2>1, <2>2, <2>3 DEF ServerInv, SyncInv, Truthful, Claims
  <2> QED
    BY <1>2, <2>1, <2>2, <2>3, <2>4 DEF ServerInv, KeyInv, Keyed, Cleared
<1>5. AccountsAreDue
  <2>1. SUFFICES ASSUME advanced, mishaps = {}
                 PROVE  {t \in Tags : account[t] # 0} =
                          IF user.status = "active" /\ ~user.exceeded THEN allotted ELSE {}
    BY DEF AccountsAreDue
  <2>2. \A t \in Tags : account[t] # 0 => Entitled /\ t \in allotted
    BY <1>2, <2>1 DEF ServerInv, UpperInv, Flawless, Due, Withdraws, Removal
  <2>3. Entitled => \A t \in allotted : account[t] # 0
    BY <1>2, <2>1 DEF ServerInv, LowerInv, Flawless, Served, Adds, Targeted, Preparing, Adding,
       Marking, Removal
  <2> QED
    BY <1>2, <2>2, <2>3 DEF Entitled
<1> QED
  BY <1>3, <1>4, <1>5 DEF ServerAgrees

(* At rest, records, credentials and the accounts on the server agree,     *)
(* after however many operations of however many goroutines: no account    *)
(* without a record, no record that says synced of one that is not there,  *)
(* and when nothing went wrong exactly the accounts that are due.          *)
THEOREM ServerHolds == Spec => []ServerAgrees
<1>1. Init => ServerInv
  BY XrayAssumption, InitServer
<1>2. ServerInv /\ [Next]_vars => ServerInv'
  BY XrayAssumption, NextServer
<1>3. ServerInv => ServerAgrees
  BY ServerAtRest
<1> QED
  BY <1>1, <1>2, <1>3, PTL DEF Spec

=============================================================================
