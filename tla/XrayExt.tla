------------------------------- MODULE XrayExt -------------------------------
(***************************************************************************)
(* An independent account on the Xray server (xray/ext.go): an account     *)
(* that belongs to no panel user and that is served on the inbounds the    *)
(* administrator picks by hand.  The module holds ONE account, the one     *)
(* instance its inbounds belong to, the rows of xray_ext_users, and the    *)
(* accounts that really exist on the server; with the operations of        *)
(* ext.go, the repairs of reconcile.go, the detection of detect.go, the    *)
(* deletion of the instance and advanced mode switched off.                *)
(*                                                                         *)
(* A step is one transaction, one read outside a transaction or one RPC.   *)
(* Every operation walks over some inbounds; what it does at one of them   *)
(* is a task:                                                              *)
(*   drop   removeOne             push  pushOne       over   pushOne with  *)
(*   quota  removeQuotaExceeded   gated PushOne              overwrite     *)
(*   renew  removeFromXray, pushOne     repair CredentialsOne              *)
(*   wipe   RemoveUser and nothing else                                    *)
(***************************************************************************)
EXTENDS Naturals, FiniteSets

CONSTANTS
  Tags,       \* inbounds of the instance
  Workers,    \* bound: operations under way at a time
  MaxKeys,    \* bound: credentials ever given to the account
  MaxStarts,  \* bound: operations started
  MaxFaults   \* bound: failed RPCs and crashes

\* Two credentials at least: those somebody typed and those the panel generates.
ASSUME ExtAssumption ==
  {MaxKeys, MaxStarts, MaxFaults} \subseteq Nat /\ MaxKeys >= 2 /\ "none" \notin Tags

VARIABLES
  mode,      \* advanced_mode
  instance,  \* the instance row exists
  node,      \* inbound -> "unseen", "usable" (enabled, allocatable, not missing) or "unusable"
  ext,       \* the xray_ext_accounts row: [life, key, quota_exceeded]
  rows,      \* xray_ext_users: inbound -> "none", "pending", "synced", "failed" (add), "unremoved"
  server,    \* inbound -> credentials its account has on the server, 0 for no account
  work,      \* worker -> [op, todo, tag, task, pc, key]
  chosen,    \* history: the inbounds the administrator chose last
  doubt,     \* history: inbounds at which something failed or ran together
  starts, faults

vars == <<mode, instance, node, ext, rows, server, work, chosen, doubt, starts, faults>>
db == <<mode, instance, node, ext, rows, chosen>>

NoTasks == [t \in {} |-> ""]
All(S, task) == [t \in S |-> task]
Idle == [op |-> "none", todo |-> NoTasks, tag |-> "none", task |-> "none", pc |-> "idle", key |-> 0]
Alive(w) == work[w].pc # "idle"
Faces(w) == DOMAIN work[w].todo \cup ({work[w].tag} \ {"none"})
Others(w) == {v \in Workers \ {w} : Alive(v)}

\* The clearing after OFF is meant to stand any other operation, and any two others are not.
Conflict(a, b) == "clear" \notin {a, b}
Together(op, touched) ==
  LET rivals == {v \in Workers : Alive(v) /\ Conflict(op, work[v].op)}
  IN IF rivals = {} THEN {} ELSE touched \cup UNION {Faces(v) : v \in rivals}

\* Whether a request was let in: mode is on, or was until the clearing that is about to run.
Admitted == mode \/ \E w \in Workers : work[w].pc = "collect"
Present == ext.life = "there"
Targets == {t \in Tags : rows[t] \notin {"none", "unremoved"}}

Init ==
  /\ mode = TRUE /\ instance = TRUE
  /\ node = [t \in Tags |-> "usable"]    \* found by a first DetectNodes
  /\ ext = [life |-> "none", key |-> 0, exceeded |-> FALSE]
  /\ rows = [t \in Tags |-> "none"]
  /\ \E key \in {0, 1} :                \* 1: accounts somebody made by hand, to be taken over
       server = [t \in Tags |-> key]
  /\ work = [w \in Workers |-> Idle]
  /\ chosen = {} /\ doubt = {t \in Tags : server[t] # 0}
  /\ starts = 0 /\ faults = 0

Ops == {"none", "create", "update", "delete", "retry", "reset", "quota", "push", "repair",
        "clean", "uninstall", "clear"}
Tasks == {"drop", "quota", "renew", "repair", "wipe", "push", "gated", "over"}
TaskLists == UNION {[S -> Tasks] : S \in SUBSET Tags}
Pcs == {"idle", "next", "gate", "remove", "removed", "lost", "read", "oust", "add",
        "look", "undo", "synced", "failed", "collect", "flag"}

TypeOK ==
  /\ {mode, instance} \subseteq BOOLEAN
  /\ node \in [Tags -> {"unseen", "usable", "unusable"}]
  /\ ext \in [life : {"none", "there", "gone"}, key : 0..MaxKeys, exceeded : BOOLEAN]
  /\ rows \in [Tags -> {"none", "pending", "synced", "failed", "unremoved"}]
  /\ server \in [Tags -> 0..MaxKeys]
  /\ {chosen, doubt} \subseteq SUBSET Tags
  /\ work \in [Workers -> [op : Ops, todo : TaskLists, tag : Tags \cup {"none"},
                           task : Tasks \cup {"none"}, pc : Pcs, key : 0..ext.key]]
  /\ starts \in 0..MaxStarts /\ faults \in 0..MaxFaults
  \* rows hang on the account and the instance (foreign keys)
  /\ (\E t \in Tags : rows[t] # "none") => Present /\ instance

(* ---------------------------- operations begin ------------------------- *)

\* Where a worker stands between two inbounds; a quota check still has its flag to raise.
Onward(r) ==
  IF r.todo # NoTasks THEN [r EXCEPT !.tag = "none", !.task = "none", !.key = 0, !.pc = "next"]
  ELSE IF r.op = "quota" THEN [Idle EXCEPT !.op = "quota", !.pc = "flag"] ELSE Idle

Begin(w, op, todo) ==
  /\ starts < MaxStarts /\ work[w] = Idle
  /\ work' = [work EXCEPT ![w] = IF op = "clear" THEN [Idle EXCEPT !.op = op, !.pc = "collect"]
                                 ELSE Onward([Idle EXCEPT !.op = op, !.todo = todo])]
  /\ doubt' = doubt \cup Together(op, DOMAIN todo)
  /\ starts' = starts + 1
  /\ UNCHANGED faults

\* A choice of targets that validateTargetsTx lets through.
Allowed(S) == instance /\ \A t \in S : node[t] = "usable"

\* CreateExt: generated credentials are new and overwrite what stands there; credentials
\* typed by hand (those of the account that stands there, or others) take it over.
CreateExt(w, S, generate, key) ==
  /\ mode /\ ext.life = "none" /\ Allowed(S)
  /\ key \in IF generate THEN {2} ELSE {1, 2}
  /\ ext' = [ext EXCEPT !.life = "there", !.key = key]
  /\ rows' = [t \in Tags |-> IF t \in S THEN "pending" ELSE "none"]
  /\ chosen' = S
  /\ Begin(w, "create", All(S, IF generate THEN "over" ELSE "push"))
  /\ UNCHANGED <<mode, instance, node, server>>

\* UpdateExt: every row is replaced by a pending one.  Inbounds left out are removed, new
\* ones pushed; inbounds kept are touched only if the credentials changed; an account over
\* its quota is pushed nowhere.
UpdateTasks(S, rekey) ==
  LET old == {t \in Tags : rows[t] # "none"}
      pushed == IF ext.exceeded THEN {} ELSE S \ old
      renewed == IF ext.exceeded \/ ~rekey THEN {} ELSE S \cap old
  IN [t \in (old \ S) \cup pushed \cup renewed |->
        IF t \notin S THEN "drop" ELSE IF t \in pushed THEN "push" ELSE "renew"]

UpdateExt(w, S, rekey) ==
  /\ Admitted /\ Present /\ Allowed(S)
  /\ rekey => ext.key < MaxKeys
  /\ ext' = [ext EXCEPT !.key = IF rekey THEN @ + 1 ELSE @]
  /\ rows' = [t \in Tags |-> IF t \in S THEN "pending" ELSE "none"]
  /\ chosen' = S
  /\ Begin(w, "update", UpdateTasks(S, rekey))
  /\ UNCHANGED <<mode, instance, node, server>>

\* DeleteExt: the rows go with the account, then the server is cleaned.
DeleteExt(w) ==
  /\ Admitted /\ Present
  /\ ext' = [ext EXCEPT !.life = "gone"]
  /\ rows' = [t \in Tags |-> "none"]
  /\ chosen' = {}
  /\ Begin(w, "delete", All({t \in Tags : rows[t] # "none"}, "drop"))
  /\ UNCHANGED <<mode, instance, node, server>>

\* RetryExt: what failed is tried again, removals as removals, pushes unless over quota.
RetryExt(w) ==
  /\ Admitted /\ Present
  /\ LET again == {t \in Tags : rows[t] = "unremoved" \/ (rows[t] = "failed" /\ ~ext.exceeded)}
     IN /\ again # {}
        /\ Begin(w, "retry", [t \in again |-> IF rows[t] = "failed" THEN "push" ELSE "drop"])
  /\ UNCHANGED <<db, server>>

\* ResetExtQuota: this month's traffic is deleted, the flag lowered, every target pushed.
ResetExtQuota(w) ==
  /\ Admitted /\ Present
  /\ ext' = [ext EXCEPT !.exceeded = FALSE]
  /\ Begin(w, "reset", All(Targets, "push"))
  /\ UNCHANGED <<mode, instance, node, rows, chosen, server>>

\* runXrayCollect: CollectExtTraffic, and CheckExtQuota finds the account above its quota.
\* Every target is removed, pass after pass, and only then is the flag raised.
CheckExtQuota(w) ==
  /\ Admitted /\ Present
  /\ Begin(w, "quota", All(Targets, "quota"))
  /\ UNCHANGED <<db, server>>

\* Reconcile: what is wanted on the usable inbounds against what the server has.
Reconciled ==
  LET wanted == {t \in Targets : node[t] = "usable"}
      seen == {t \in Tags : node[t] # "unseen" /\ server[t] # 0}
  IN [toPush |-> wanted \ seen,
      mismatches |-> {t \in wanted \cap seen : server[t] # ext.key},
      orphans |-> seen \ wanted]

\* RepairPushAsync and PushOne: what is wanted and not there.
RepairPush(w) ==
  /\ Admitted /\ instance /\ Reconciled.toPush # {}
  /\ Begin(w, "push", All(Reconciled.toPush, "gated"))
  /\ UNCHANGED <<db, server>>

\* RepairCredentialsAsync and CredentialsOne: what the administrator ticks of the
\* inbounds served with other credentials than the account has.
RepairCredentials(w, S) ==
  /\ Admitted /\ instance /\ S # {} /\ S \subseteq Reconciled.mismatches
  /\ Begin(w, "repair", All(S, "repair"))
  /\ UNCHANGED <<db, server>>

\* CleanOrphansAsync: the account is where it is not wanted; the cleaning goes by e-mail,
\* over every inbound the instance ever had.
CleanOrphans(w) ==
  /\ Admitted /\ instance /\ Reconciled.orphans # {}
  /\ Begin(w, "clean", All({t \in Tags : node[t] # "unseen"}, "wipe"))
  /\ UNCHANGED <<db, server>>

\* DeleteAsync and deleteAndClean: the nodes and the rows go with the instance.
DeleteInstance(w) ==
  /\ Admitted /\ instance
  /\ instance' = FALSE
  /\ node' = [t \in Tags |-> "unseen"]
  /\ rows' = [t \in Tags |-> "none"]
  /\ chosen' = {}
  /\ Begin(w, "uninstall", All({t \in Tags : rows[t] # "none"}, "wipe"))
  /\ UNCHANGED <<mode, ext, server>>

\* SubmitAdvancedMode: the switch is thrown now, the clearing comes later.
SubmitAdvancedMode(w) ==
  /\ mode /\ mode' = FALSE
  /\ Begin(w, "clear", NoTasks)
  /\ UNCHANGED <<instance, node, ext, rows, chosen, server>>

\* offClear: what the rows point at is collected, then account and instance are deleted.
\* An inbound whose row another operation has taken away for the moment is not seen.
OffClear(w) ==
  /\ work[w].pc = "collect"
  /\ work' = [work EXCEPT ![w] = Onward([@ EXCEPT !.todo = All({t \in Tags : rows[t] # "none"}, "wipe")])]
  /\ doubt' = doubt \cup {t \in Tags : rows[t] = "none" /\ \E v \in Others(w) : t \in Faces(v)}
  /\ ext' = [ext EXCEPT !.life = IF @ = "there" THEN "gone" ELSE @]
  /\ instance' = FALSE
  /\ node' = [t \in Tags |-> "unseen"]
  /\ rows' = [t \in Tags |-> "none"]
  /\ chosen' = {}
  /\ UNCHANGED <<mode, server, starts, faults>>

\* DetectNodes: the inbounds the server lists with a protocol that carries users are
\* usable; the others it ever listed are not.
DetectNodes(listed) ==
  /\ mode /\ instance
  /\ node' = [t \in Tags |-> IF t \in listed THEN "usable"
                             ELSE IF node[t] = "unseen" THEN "unseen" ELSE "unusable"]
  /\ node' # node
  /\ starts < MaxStarts /\ starts' = starts + 1
  /\ UNCHANGED <<mode, instance, ext, rows, chosen, server, work, doubt, faults>>

(* ----------------------------- tasks go on ----------------------------- *)

To(w, pc) == work' = [work EXCEPT ![w].pc = pc]
Done(w) == work' = [work EXCEPT ![w] = Onward(@)]
\* An error ends an update whose credentials changed, and only the inbound of any other.
Failed(w) ==
  IF work[w].task = "renew" THEN work' = [work EXCEPT ![w] = Idle] ELSE Done(w)
\* The inbounds such an update does not come to keep the credentials from before.
Skipped(w) == IF work[w].task = "renew" THEN DOMAIN work[w].todo ELSE {}

\* (mutant: the row is written back whatever has become of the account)
Mark_Bug(t, status) == rows' = [rows EXCEPT ![t] = status]

\* A row written back, by ON CONFLICT DO UPDATE: it comes back if somebody deleted it.
Mark(t, status) ==
  rows' = IF Present /\ instance THEN [rows EXCEPT ![t] = status] ELSE rows

\* The client comes from the instance row, the cleaners' from the address they kept.
Pick(w, t) ==
  LET task == work[w].todo[t]
      rest == [u \in DOMAIN work[w].todo \ {t} |-> work[w].todo[u]]
      first == IF task \in {"gated", "repair"} THEN "gate"
               ELSE IF task \in {"push", "over"} THEN "read" ELSE "remove"
  IN /\ work[w].pc = "next" /\ t \in DOMAIN work[w].todo
     /\ work[w].op = "update" /\ task # "drop" => \A u \in DOMAIN rest : rest[u] # "drop"
     /\ IF instance \/ task = "wipe"
        THEN work' = [work EXCEPT ![w] = [@ EXCEPT !.todo = rest, !.tag = t, !.task = task, !.pc = first]]
        ELSE work' = [work EXCEPT ![w] = Onward([@ EXCEPT !.todo = IF task = "renew" THEN NoTasks ELSE rest])]
     /\ UNCHANGED <<db, server, doubt, starts, faults>>

\* The end of CheckExtQuota.
RaiseFlag(w) ==
  /\ work[w].pc = "flag"
  /\ ext' = [ext EXCEPT !.exceeded = Present]
  /\ work' = [work EXCEPT ![w] = Idle]
  /\ UNCHANGED <<mode, instance, node, rows, chosen, server, doubt, starts, faults>>

\* PushOne and CredentialsOne look at the flag first.
Gate(w) ==
  /\ work[w].pc = "gate"
  /\ IF ~Present \/ ext.exceeded THEN Done(w)
     ELSE To(w, IF work[w].task = "repair" THEN "remove" ELSE "read")
  /\ UNCHANGED <<db, server, doubt, starts, faults>>

\* RemoveUser; a call that fails may have been carried out.
RemoveUser(w) ==
  LET t == work[w].tag
  IN /\ work[w].pc = "remove"
     /\ \/ /\ server' = [server EXCEPT ![t] = 0]
           /\ To(w, "removed") /\ UNCHANGED <<doubt, faults>>
        \/ /\ faults < MaxFaults /\ faults' = faults + 1
           /\ \E carried \in BOOLEAN : server' = IF carried THEN [server EXCEPT ![t] = 0] ELSE server
           /\ doubt' = doubt \cup {t} /\ To(w, "lost")
     /\ UNCHANGED <<db, starts>>

\* Alone at its inbound, a removal or a renewal that leaves the server as it should be ends
\* the doubt; so a later repair makes up for an earlier failure.
Settled(w, key) ==
  IF \/ server[work[w].tag] # key
     \/ ext.exceeded
     \/ \E v \in Others(w) : work[w].tag \in Faces(v) \/ work[v].op \in {"quota", "clear"}
  THEN doubt ELSE doubt \ {work[w].tag}

\* removeOne deletes the row, removeQuotaExceededTarget keeps it for a later push.
Removed(w) ==
  LET t == work[w].tag  task == work[w].task
  IN /\ work[w].pc = "removed"
     /\ CASE task = "quota" -> Mark(t, "failed")
          [] task \in {"drop", "repair"} -> rows' = [rows EXCEPT ![t] = "none"]
          [] OTHER -> UNCHANGED rows
     /\ IF task \in {"renew", "repair"} THEN To(w, "read") ELSE Done(w)
     \* a cleaning does not spare the targets, nor does a retry of what a renewal left behind
     /\ doubt' = IF work[w].op = "clean" \/ (task = "drop" /\ t \in chosen) THEN doubt \cup {t}
                 ELSE IF task = "drop" THEN Settled(w, 0) ELSE doubt
     /\ UNCHANGED <<mode, instance, node, ext, chosen, server, starts, faults>>

\* markExtRemoveFailed, whatever the removal was for; not for quotas and cleanings.
Lost(w) ==
  /\ work[w].pc = "lost"
  /\ IF work[w].task \in {"quota", "wipe"} THEN UNCHANGED rows ELSE Mark(work[w].tag, "unremoved")
  /\ Failed(w)
  /\ doubt' = doubt \cup Skipped(w)
  /\ UNCHANGED <<mode, instance, node, ext, chosen, server, starts, faults>>

\* pushOne reads the credentials it is going to push.
ReadCredentials(w) ==
  /\ work[w].pc = "read"
  /\ IF Present
     THEN work' = [work EXCEPT ![w].key = ext.key,
                               ![w].pc = IF work[w].task = "over" THEN "oust" ELSE "add"]
     ELSE Failed(w)
  /\ UNCHANGED <<db, server, doubt, starts, faults>>

\* A generated account first makes room; whether that worked is not asked.
Oust(w) ==
  LET t == work[w].tag
  IN /\ work[w].pc = "oust"
     /\ \/ server' = [server EXCEPT ![t] = 0] /\ UNCHANGED <<doubt, faults>>
        \/ /\ faults < MaxFaults /\ faults' = faults + 1
           /\ UNCHANGED server /\ doubt' = doubt \cup {t}
     /\ To(w, "add")
     /\ UNCHANGED <<db, starts>>

\* AddUser; the client takes "already exists" for success, whatever credentials
\* stand there and whether or not they were to be overwritten.
AddUser(w) ==
  LET t == work[w].tag
      added == [server EXCEPT ![t] = IF @ = 0 THEN work[w].key ELSE @]
  IN /\ work[w].pc = "add"
     /\ \/ server' = added /\ To(w, "look") /\ UNCHANGED <<doubt, faults>>
        \/ /\ faults < MaxFaults /\ faults' = faults + 1
           /\ server' \in {server, added}
           /\ doubt' = doubt \cup {t} /\ To(w, "failed")
     /\ UNCHANGED <<db, starts>>

\* (mutant: no second look at the switch)
Look_Bug(w) ==
  /\ work[w].pc = "look" /\ To(w, "synced")
  /\ UNCHANGED <<db, server, doubt, starts, faults>>

\* The second look: was advanced mode switched off meanwhile?
Look(w) ==
  /\ work[w].pc = "look"
  /\ To(w, IF mode THEN "synced" ELSE "undo")
  /\ UNCHANGED <<db, server, doubt, starts, faults>>

Undo(w) ==
  LET t == work[w].tag
  IN /\ work[w].pc = "undo" /\ To(w, "failed")
     /\ \/ server' = [server EXCEPT ![t] = 0] /\ UNCHANGED <<doubt, faults>>
        \/ /\ faults < MaxFaults /\ faults' = faults + 1
           /\ UNCHANGED server /\ doubt' = doubt \cup {t}
     /\ UNCHANGED <<db, starts>>

\* markExtSynced and markExtFailed.
Pushed(w) ==
  /\ work[w].pc \in {"synced", "failed"}
  /\ Mark(work[w].tag, work[w].pc)
  /\ IF work[w].pc = "failed" THEN Failed(w) ELSE Done(w)
  /\ doubt' = IF work[w].pc = "failed" THEN doubt \cup Skipped(w)
              ELSE IF work[w].task \in {"renew", "repair", "over"} /\ work[w].tag \in chosen
              THEN Settled(w, ext.key) ELSE doubt
  /\ UNCHANGED <<mode, instance, node, ext, chosen, server, starts, faults>>

\* The process stops and starts again: nothing of what it was doing is taken up.
Restart ==
  /\ faults < MaxFaults /\ faults' = faults + 1
  /\ \E w \in Workers : Alive(w)
  /\ work' = [w \in Workers |-> Idle]
  /\ doubt' = doubt \cup UNION {Faces(w) \cup (IF work[w].pc \in {"collect", "flag"} THEN Tags ELSE {})
                                : w \in Workers}
  /\ UNCHANGED <<db, server, starts>>

Starting(w) ==
  \/ \E S \in SUBSET Tags :
       \/ \E generate \in BOOLEAN, key \in {1, 2} : CreateExt(w, S, generate, key)
       \/ \E rekey \in BOOLEAN : UpdateExt(w, S, rekey)
       \/ RepairCredentials(w, S)
  \/ DeleteExt(w) \/ RetryExt(w) \/ ResetExtQuota(w) \/ CheckExtQuota(w)
  \/ RepairPush(w) \/ CleanOrphans(w) \/ DeleteInstance(w) \/ SubmitAdvancedMode(w)

Working(w) ==
  \/ OffClear(w) \/ RaiseFlag(w) \/ Gate(w) \/ RemoveUser(w) \/ Removed(w)
  \/ Lost(w) \/ ReadCredentials(w) \/ Oust(w) \/ AddUser(w) \/ Look(w) \/ Undo(w) \/ Pushed(w)
  \/ \E t \in Tags : Pick(w, t)

Next ==
  \/ \E w \in Workers : Starting(w) \/ Working(w)
  \/ \E listed \in SUBSET Tags : DetectNodes(listed)
  \/ Restart

Spec == Init /\ [][Next]_vars

(* ------------------------------ properties ----------------------------- *)

\* Nothing failed at the inbound, nothing is under way there, and no flag is about to be raised.
Calm(t) ==
  /\ t \notin doubt
  /\ \A w \in Workers : t \notin Faces(w) /\ work[w].pc \notin {"flag", "collect"}
  /\ ~\E w \in Workers : work[w].op = "quota"

\* No account is left behind on the server, by a deletion, a dropped target, the deletion
\* of the instance or OFF, whatever was being pushed when OFF came; and the recorded
\* targets are those the administrator chose.
TargetsMatchServer ==
  \A t \in Tags : Calm(t) =>
    /\ server[t] # 0 => Present /\ rows[t] \in {"pending", "synced", "failed"}
    /\ Present => (rows[t] # "none" <=> t \in chosen)

\* Whatever is served is served with the account's present credentials, a target recorded
\* as synced is served, through changes of credentials, quota removals and resets, though
\* a push takes what stands there already for its own; and an account over its quota is
\* served nowhere until the quota is reset.
RecordsAreTrue ==
  \A t \in Tags : Calm(t) /\ Present =>
    /\ server[t] \in {0, ext.key}
    /\ rows[t] = "synced" => server[t] = ext.key
    /\ ext.exceeded => server[t] = 0

\* The panel knows of every account on the server, and what it records as done is done.
ServerAgrees == TargetsMatchServer /\ RecordsAreTrue
=============================================================================
