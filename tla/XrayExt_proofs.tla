-------------------------- MODULE XrayExt_proofs --------------------------
(***************************************************************************)
(* Proofs about XrayExt, for any set of inbounds, any number of operations *)
(* at a time, and any bounds.                                              *)
(***************************************************************************)
EXTENDS XrayExt, TLAPS

-----------------------------------------------------------------------------
(* Where an operation may stand.                                           *)

Adding == {"push", "over", "gated", "renew", "repair"}
Removing == {"drop", "quota", "renew", "repair", "wipe"}
Between == {"idle", "next", "collect", "flag"}

(* The tasks each operation gives itself.                                  *)
Fits(op, task) ==
  /\ task = "over" => op = "create"
  /\ task = "renew" => op = "update"
  /\ task = "push" => op \in {"create", "update", "retry", "reset"}
  /\ task = "drop" => op \in {"update", "delete", "retry"}
  /\ task = "quota" <=> op = "quota"
  /\ task = "gated" <=> op = "push"
  /\ task = "repair" <=> op = "repair"
  /\ task = "wipe" <=> op \in {"clean", "uninstall", "clear"}

(* The task an operation is at, by the place where it stands.              *)
Stands(pc, task) ==
  /\ pc = "gate" => task \in {"gated", "repair"}
  /\ pc \in {"remove", "removed", "lost"} => task \in Removing
  /\ pc \in {"read", "add", "look", "undo", "synced", "failed"} => task \in Adding
  /\ pc = "oust" => task = "over"

Place(r) ==
  /\ r.pc = "idle" <=> r.op = "none"
  /\ r.pc = "idle" => r = Idle
  /\ r.pc \in Between => r.tag = "none"
  /\ r.pc = "collect" => r.op = "clear" /\ r.todo = NoTasks
  /\ r.pc = "flag" => r.op = "quota" /\ r.todo = NoTasks
  /\ r.pc \notin Between =>
       r.tag \in Tags /\ r.tag \notin DOMAIN r.todo /\ r.task # "none" /\ Fits(r.op, r.task)
  /\ \A t \in DOMAIN r.todo : Fits(r.op, r.todo[t])
  /\ Stands(r.pc, r.task)
  \* the removals of an update come first
  /\ r.op = "update" /\ r.pc \notin Between /\ r.task # "drop" =>
       \A t \in DOMAIN r.todo : r.todo[t] # "drop"

PlaceInv == \A w \in Workers : Place(work[w])

(* The account, the instance and the clearing after OFF.                   *)
LifeInv ==
  /\ ext.life = "none" => ext.key = 0 /\ ~ext.exceeded
  /\ chosen # {} => Present /\ instance
  /\ \A w \in Workers : work[w].op = "clear" =>
       ~mode /\ (work[w].pc # "collect" => ~Present /\ ~instance)
  /\ \A v, w \in Workers : work[v].op = "clear" /\ work[w].op = "clear" => v = w
  /\ \A w \in Workers : work[w].op = "uninstall" => ~instance

(* Of two operations that meet, apart from the clearing, all that either   *)
(* has left is in doubt.                                                   *)
ApartInv ==
  \A v, w \in Workers :
    v # w /\ Alive(v) /\ Alive(w) /\ work[v].op # "clear" /\ work[w].op # "clear" =>
      Faces(w) \subseteq doubt

(* What an operation that has inbound t before it may count on, if nothing *)
(* went wrong there.                                                       *)
TaskAt(w, t) == IF t = work[w].tag THEN work[w].task ELSE work[w].todo[t]
Kept == {"pending", "synced", "failed"}
Cleared == ~mode /\ ~Present /\ ~instance
Emptied(w, t) == t = work[w].tag /\ work[w].pc \notin {"gate", "remove", "removed"}

Wanted(w, t) ==
  LET task == TaskAt(w, t) IN
  /\ task = "drop" => instance /\ rows[t] = "none" /\ t \notin chosen
  /\ task \in Adding \cup {"quota"} => (Present /\ instance) \/ Cleared
  /\ task \in Adding \cup {"quota"} /\ Present =>
       /\ t \in chosen
       /\ task # "repair" => rows[t] \in Kept
       /\ task \in {"over", "renew"} => rows[t] = "pending"
       /\ task \in {"push", "over", "renew"} => ~ext.exceeded
       /\ task \in {"gated", "repair"} /\ t = work[w].tag /\ work[w].pc # "gate" => ~ext.exceeded
       /\ task = "repair" /\ Emptied(w, t) => rows[t] = "none"
       /\ task = "repair" /\ ~Emptied(w, t) => rows[t] \in {"pending", "failed"}

Served(w) ==
  LET t == work[w].tag  pc == work[w].pc IN
  /\ pc # "lost"
  /\ pc = "removed" => server[t] = 0
  /\ work[w].task = "repair" /\ pc \in {"read", "add", "failed"} => server[t] = 0
  /\ pc \in {"oust", "add", "look", "synced"} => work[w].key = ext.key
  /\ pc \in {"look", "synced"} /\ Present => server[t] = ext.key
  /\ pc = "undo" => ~mode

Face(w, t) == Wanted(w, t) /\ (t = work[w].tag => Served(w))

FaceInv == \A w \in Workers : work[w].op # "clear" => \A t \in Faces(w) \ doubt : Face(w, t)

(* What holds at inbound t, if nothing went wrong there.                   *)
Withdraws(w, t) ==
  \/ t \in DOMAIN work[w].todo /\ work[w].todo[t] \in {"drop", "wipe"}
  \/ work[w].tag = t /\ work[w].task \in {"drop", "wipe"} /\ work[w].pc = "remove"
  \/ work[w].tag = t /\ work[w].pc \in {"look", "undo"} /\ ~mode
  \/ work[w].tag = t /\ work[w].task = "repair" /\ work[w].pc \in {"look", "synced"} /\ Present
Repairs(w, t) == work[w].tag = t /\ work[w].task = "repair"
Rewrites(w, t) == work[w].tag = t /\ work[w].pc \in {"removed", "failed"}
Exhausts(w, t) ==
  t \in DOMAIN work[w].todo \/ (work[w].tag = t /\ work[w].pc = "remove")

Count(t) ==
  /\ server[t] # 0 => (Present /\ rows[t] \in Kept) \/ \E w \in Workers : Withdraws(w, t)
  /\ rows[t] # "unremoved"
  /\ rows[t] # "none" => t \in chosen
  /\ t \in chosen => rows[t] # "none" \/ \E w \in Workers : Repairs(w, t)
  /\ rows[t] = "synced" => server[t] = ext.key \/ \E w \in Workers : Rewrites(w, t)
  /\ Present /\ ext.exceeded => server[t] = 0
  /\ \A w \in Workers : work[w].op = "quota" /\ Present /\ server[t] # 0 => Exhausts(w, t)

CountInv == \A t \in Tags \ doubt : Count(t)

(* What is served has the present credentials, but for what an update has  *)
(* still to take away.                                                     *)
Renews(w, t) ==
  \/ t \in DOMAIN work[w].todo /\ work[w].todo[t] \in {"renew", "drop"}
  \/ work[w].tag = t /\ work[w].task \in {"renew", "drop"} /\ work[w].pc = "remove"

Keyed(t) == Present /\ server[t] # 0 => server[t] = ext.key \/ \E w \in Workers : Renews(w, t)

KeyInv == \A t \in Tags \ doubt : Keyed(t)

IInv == TypeOK /\ PlaceInv /\ LifeInv /\ ApartInv /\ FaceInv /\ CountInv
Strong == IInv /\ KeyInv

-----------------------------------------------------------------------------
(* Types.                                                                  *)

Rows == [Tags -> {"none", "pending", "synced", "failed", "unremoved"}]
Row(k) == [op : Ops, todo : TaskLists, tag : Tags \cup {"none"}, task : Tasks \cup {"none"},
           pc : Pcs, key : 0..k]
Table ==
  /\ {mode, instance} \subseteq BOOLEAN
  /\ node \in [Tags -> {"unseen", "usable", "unusable"}]
  /\ ext \in [life : {"none", "there", "gone"}, key : 0..MaxKeys, exceeded : BOOLEAN]
  /\ rows \in Rows
  /\ (\E t \in Tags : rows[t] # "none") => Present /\ instance
History ==
  /\ {chosen, doubt} \subseteq SUBSET Tags
  /\ starts \in 0..MaxStarts /\ faults \in 0..MaxFaults
Server == server \in [Tags -> 0..MaxKeys]
Work == work \in [Workers -> Row(ext.key)]

LEMMA Parts ==
  TypeOK <=> Table /\ History /\ Server /\ Work
BY DEF TypeOK, Table, History, Server, Work, Rows, Row

(* A list of tasks.                                                        *)
LEMMA Listed ==
  ASSUME NEW S \in SUBSET Tags, NEW f \in [S -> Tasks]
  PROVE  f \in TaskLists /\ DOMAIN f = S
BY DEF TaskLists

LEMMA ListOf ==
  ASSUME NEW f \in TaskLists
  PROVE  DOMAIN f \in SUBSET Tags /\ f \in [DOMAIN f -> Tasks]
<1>1. PICK S \in SUBSET Tags : f \in [S -> Tasks]
  BY DEF TaskLists
<1> QED
  BY <1>1

LEMMA NoList == NoTasks \in TaskLists /\ DOMAIN NoTasks = {}
<1>1. NoTasks \in [{} -> Tasks] /\ DOMAIN NoTasks = {}
  BY DEF NoTasks
<1> QED
  BY <1>1, Listed

(* Records with one field changed.                                         *)
LEMMA RowFields ==
  ASSUME NEW k \in Nat, NEW r \in Row(k)
  PROVE  /\ r.op \in Ops /\ r.todo \in TaskLists /\ r.tag \in Tags \cup {"none"}
         /\ r.task \in Tasks \cup {"none"} /\ r.pc \in Pcs /\ r.key \in 0..k
BY DEF Row

LEMMA SetOp ==
  ASSUME NEW k \in Nat, NEW r \in Row(k), NEW x \in Ops
  PROVE  LET s == [r EXCEPT !.op = x] IN
         /\ s \in Row(k) /\ s.op = x /\ s.todo = r.todo /\ s.tag = r.tag /\ s.task = r.task
         /\ s.pc = r.pc /\ s.key = r.key
BY DEF Row

LEMMA SetTodo ==
  ASSUME NEW k \in Nat, NEW r \in Row(k), NEW x \in TaskLists
  PROVE  LET s == [r EXCEPT !.todo = x] IN
         /\ s \in Row(k) /\ s.op = r.op /\ s.todo = x /\ s.tag = r.tag /\ s.task = r.task
         /\ s.pc = r.pc /\ s.key = r.key
BY DEF Row

LEMMA SetTag ==
  ASSUME NEW k \in Nat, NEW r \in Row(k), NEW x \in Tags \cup {"none"}
  PROVE  LET s == [r EXCEPT !.tag = x] IN
         /\ s \in Row(k) /\ s.op = r.op /\ s.todo = r.todo /\ s.tag = x /\ s.task = r.task
         /\ s.pc = r.pc /\ s.key = r.key
BY DEF Row

LEMMA SetTask ==
  ASSUME NEW k \in Nat, NEW r \in Row(k), NEW x \in Tasks \cup {"none"}
  PROVE  LET s == [r EXCEPT !.task = x] IN
         /\ s \in Row(k) /\ s.op = r.op /\ s.todo = r.todo /\ s.tag = r.tag /\ s.task = x
         /\ s.pc = r.pc /\ s.key = r.key
BY DEF Row

LEMMA SetPc ==
  ASSUME NEW k \in Nat, NEW r \in Row(k), NEW x \in Pcs
  PROVE  LET s == [r EXCEPT !.pc = x] IN
         /\ s \in Row(k) /\ s.op = r.op /\ s.todo = r.todo /\ s.tag = r.tag /\ s.task = r.task
         /\ s.pc = x /\ s.key = r.key
BY DEF Row

LEMMA SetKey ==
  ASSUME NEW k \in Nat, NEW r \in Row(k), NEW x \in 0..k
  PROVE  LET s == [r EXCEPT !.key = x] IN
         /\ s \in Row(k) /\ s.op = r.op /\ s.todo = r.todo /\ s.tag = r.tag /\ s.task = r.task
         /\ s.pc = r.pc /\ s.key = x
BY DEF Row

LEMMA IdleRow ==
  ASSUME NEW k \in Nat
  PROVE  /\ Idle \in Row(k) /\ Place(Idle)
         /\ Idle.op = "none" /\ Idle.pc = "idle" /\ Idle.tag = "none" /\ Idle.task = "none"
         /\ Idle.todo = NoTasks /\ DOMAIN Idle.todo = {} /\ Idle.key = 0
<1>1. /\ Idle.op = "none" /\ Idle.pc = "idle" /\ Idle.tag = "none" /\ Idle.task = "none"
      /\ Idle.todo = NoTasks /\ DOMAIN Idle.todo = {} /\ Idle.key = 0
  BY NoList DEF Idle
<1>2. Idle \in Row(k)
  BY NoList DEF Idle, Row, Ops, Pcs
<1>3. Place(Idle)
  BY <1>1 DEF Place, Between, Stands
<1> QED
  BY <1>1, <1>2, <1>3

(* Between two inbounds.                                                   *)
Rested(r, s) ==
  /\ s.todo = r.todo /\ s.tag = "none" /\ s.task = "none"
  /\ s.op \in {r.op, "none"} /\ s.pc \in {"idle", "next", "flag"}
  /\ r.op = "quota" => s.op = "quota"

LEMMA OnwardRow ==
  ASSUME NEW k \in Nat, NEW r \in Row(k), r.op # "none", \A t \in DOMAIN r.todo : Fits(r.op, r.todo[t])
  PROVE  /\ Onward(r) \in Row(k)
         /\ Place(Onward(r))
         /\ Rested(r, Onward(r))
<1>1. CASE r.todo # NoTasks
  <2> DEFINE a == [r EXCEPT !.tag = "none"]
             b == [a EXCEPT !.task = "none"]
             c == [b EXCEPT !.key = 0]
             s == [c EXCEPT !.pc = "next"]
  <2>1. Onward(r) = s
    BY <1>1 DEF Onward
  <2>2. /\ s \in Row(k)
        /\ s.op = r.op /\ s.todo = r.todo /\ s.tag = "none" /\ s.task = "none" /\ s.pc = "next"
    <3>1. a \in Row(k) /\ a.op = r.op /\ a.todo = r.todo /\ a.tag = "none"
      BY SetTag
    <3> HIDE DEF a
    <3>2. b \in Row(k) /\ b.op = a.op /\ b.todo = a.todo /\ b.tag = a.tag /\ b.task = "none"
      BY <3>1, SetTask
    <3> HIDE DEF b
    <3>3. /\ c \in Row(k) /\ c.op = b.op /\ c.todo = b.todo /\ c.tag = b.tag /\ c.task = b.task
      BY <3>2, SetKey
    <3> HIDE DEF c
    <3>4. "next" \in Pcs
      BY DEF Pcs
    <3> QED
      BY <3>1, <3>2, <3>3, <3>4, SetPc
  <2> HIDE DEF s
  <2>4. Place(s)
    BY <1>1, <2>2 DEF Place, Between, Stands
  <2> QED
    BY <2>1, <2>2, <2>4 DEF Rested
<1>2. CASE r.todo = NoTasks /\ r.op = "quota"
  <2> DEFINE a == [Idle EXCEPT !.op = "quota"]
             s == [a EXCEPT !.pc = "flag"]
  <2>1. Onward(r) = s
    BY <1>2 DEF Onward
  <2>2. /\ s \in Row(k)
        /\ s.op = r.op /\ s.todo = r.todo /\ s.tag = "none" /\ s.task = "none" /\ s.pc = "flag"
    <3>1. "quota" \in Ops /\ "flag" \in Pcs
      BY DEF Ops, Pcs
    <3>2. a \in Row(k) /\ a.op = "quota" /\ a.todo = NoTasks /\ a.tag = "none" /\ a.task = "none"
      BY <3>1, IdleRow, SetOp
    <3> HIDE DEF a
    <3> QED
      BY <1>2, <3>1, <3>2, SetPc
  <2> HIDE DEF s
  <2>4. Place(s)
    BY <1>2, <2>2, NoList DEF Place, Between, Stands
  <2> QED
    BY <1>2, <2>1, <2>2, <2>4 DEF Rested
<1>3. CASE r.todo = NoTasks /\ r.op # "quota"
  <2>1. Onward(r) = Idle
    BY <1>3 DEF Onward
  <2> QED
    BY <1>3, <2>1, IdleRow DEF Rested
<1> QED
  BY <1>1, <1>2, <1>3

(* What the types say.                                                     *)
LEMMA Basics ==
  ASSUME ExtAssumption, TypeOK
  PROVE  /\ ext.key \in Nat /\ ext.key \in 0..MaxKeys /\ MaxKeys \in Nat /\ "none" \notin Tags
         /\ work \in [Workers -> Row(ext.key)]
         /\ \A w \in Workers : work[w] \in Row(ext.key)
         /\ \A w \in Workers : work[w].todo \in TaskLists /\ DOMAIN work[w].todo \subseteq Tags
         /\ \A w \in Workers : work[w].tag \in Tags \cup {"none"}
         /\ rows \in Rows /\ server \in [Tags -> 0..MaxKeys]
         /\ {chosen, doubt} \subseteq SUBSET Tags
         /\ \A t \in Tags : rows[t] # "none" => Present /\ instance
<1>1. Table /\ History /\ Server /\ Work
  BY Parts
<1>2. ext.key \in Nat /\ ext.key \in 0..MaxKeys /\ MaxKeys \in Nat /\ "none" \notin Tags
  BY <1>1 DEF Table, ExtAssumption
<1>3. \A w \in Workers : work[w] \in Row(ext.key)
  BY <1>1 DEF Work
<1>4. \A w \in Workers : work[w].todo \in TaskLists /\ work[w].tag \in Tags \cup {"none"}
  BY <1>2, <1>3, RowFields
<1>5. \A w \in Workers : DOMAIN work[w].todo \subseteq Tags
  BY <1>4, ListOf
<1> QED
  BY <1>1, <1>2, <1>3, <1>4, <1>5 DEF Table, History, Server, Work

LEMMA Replaced ==
  ASSUME ExtAssumption, TypeOK, NEW w \in Workers, NEW s, work' = [work EXCEPT ![w] = s]
  PROVE  work'[w] = s /\ \A v \in Workers \ {w} : work'[v] = work[v]
BY Basics

LEMMA FacesOf ==
  ASSUME ExtAssumption, TypeOK, NEW w \in Workers
  PROVE  /\ Faces(w) \subseteq Tags
         /\ \A t \in Tags : t \in Faces(w) <=> t \in DOMAIN work[w].todo \/ t = work[w].tag
BY Basics DEF Faces

(* A worker with nothing to do has nothing before it.                      *)
LEMMA NothingToDo ==
  ASSUME NEW r, Place(r), r.pc = "idle" \/ r.op = "none"
  PROVE  r = Idle /\ DOMAIN r.todo = {} /\ r.tag = "none"
<1>1. r = Idle
  BY DEF Place
<1> QED
  BY <1>1, IdleRow

(* An operation that has something before it is alive.                     *)
LEMMA AliveFaces ==
  ASSUME ExtAssumption, TypeOK, PlaceInv, NEW w \in Workers
  PROVE  /\ Faces(w) # {} => Alive(w)
         /\ Alive(w) <=> work[w].op # "none"
<1>1. Place(work[w])
  BY DEF PlaceInv
<1>2. ~Alive(w) => Faces(w) = {}
  BY <1>1, NothingToDo DEF Alive, Faces
<1> QED
  BY <1>1, <1>2 DEF Place, Alive

-----------------------------------------------------------------------------
(* A step of worker w at inbound t.                                        *)

(* Its record goes on: nothing is added to its list, and what is cut from  *)
(* it apart from t is neither a removal nor a cleaning.                    *)
Follows(w, t) ==
  LET r == work[w]  s == work'[w] IN
  /\ r.pc \notin {"idle", "collect"}
  /\ t \in DOMAIN r.todo \/ t = r.tag
  /\ r.tag \in {t, "none"} /\ s.tag \in {t, "none"}
  /\ s.op \in {r.op, "none"} /\ s.pc # "collect"
  /\ \A u \in DOMAIN s.todo : u \in DOMAIN r.todo /\ s.todo[u] = r.todo[u]
  /\ \A u \in DOMAIN r.todo : r.todo[u] \in {"drop", "wipe", "quota"} /\ u # t => u \in DOMAIN s.todo
  /\ Place(s)

Near(w, t) ==
  /\ Follows(w, t)
  /\ UNCHANGED <<mode, instance, ext, chosen>>
  /\ \A v \in Workers \ {w} : work'[v] = work[v]
  /\ \A u \in Tags \ {t} : server'[u] = server[u] /\ rows'[u] = rows[u] /\ (u \in doubt => u \in doubt')
  /\ t \in doubt /\ t \notin doubt' => t \notin Faces(w)' /\ \A v \in Workers \ {w} : t \notin Faces(v)
  /\ work[w].op = "clear" => rows'[t] = rows[t] /\ server'[t] \in {server[t], 0}

(* What it leaves at every other inbound.                                  *)
LEMMA Elsewhere ==
  ASSUME ExtAssumption, IInv, TypeOK', NEW w \in Workers, NEW t \in Tags, Near(w, t),
         NEW u \in Tags \ {t}, u \notin doubt'
  PROVE  /\ Count(u)'
         /\ \A v \in Workers : work'[v].op # "clear" /\ u \in Faces(v)' => Face(v, u)'
<1>1. /\ mode' = mode /\ instance' = instance /\ ext' = ext /\ chosen' = chosen
      /\ server'[u] = server[u] /\ rows'[u] = rows[u] /\ u \notin doubt /\ (Present' <=> Present)
      /\ \A v \in Workers \ {w} : work'[v] = work[v]
  BY DEF Near, Present
<1>2. TypeOK
  BY DEF IInv
<1>3. /\ u # work[w].tag /\ u # work'[w].tag
      /\ u \in DOMAIN work'[w].todo => u \in DOMAIN work[w].todo /\ work'[w].todo[u] = work[w].todo[u]
      /\ u \in DOMAIN work[w].todo /\ work[w].todo[u] \in {"drop", "wipe", "quota"} =>
           u \in DOMAIN work'[w].todo
      /\ work'[w].op \in {work[w].op, "none"}
  BY <1>2, Basics DEF Near, Follows
<1>4. Count(u)
  BY <1>1 DEF IInv, CountInv
<1>5. Count(u)'
  <2>1. \A v \in Workers : Withdraws(v, u) => Withdraws(v, u)'
    <3>1. \A v \in Workers \ {w} : Withdraws(v, u) => Withdraws(v, u)'
      BY <1>1 DEF Withdraws
    <3>2. Withdraws(w, u) => Withdraws(w, u)'
      BY <1>1, <1>3 DEF Withdraws
    <3> QED
      BY <3>1, <3>2
  <2>2. \A v \in Workers : (Repairs(v, u) => Repairs(v, u)') /\ (Rewrites(v, u) => Rewrites(v, u)')
    BY <1>1, <1>3 DEF Repairs, Rewrites
  <2>3. ASSUME NEW v \in Workers, work'[v].op = "quota", Present, server[u] # 0
        PROVE  Exhausts(v, u)'
    <3>1. CASE v # w
      BY <1>1, <1>4, <2>3, <3>1 DEF Count, Exhausts
    <3>2. CASE v = w
      <4>1. u \in DOMAIN work[w].todo
        BY <1>3, <1>4, <2>3, <3>2 DEF Count, Exhausts
      <4>2. work[w].todo[u] = "quota"
        BY <1>3, <2>3, <3>2, <4>1 DEF IInv, PlaceInv, Place, Fits
      <4> QED
        BY <1>3, <3>2, <4>1, <4>2 DEF Exhausts
    <3> QED
      BY <3>1, <3>2
  <2>4. server[u] # 0 => (Present /\ rows[u] \in Kept) \/ \E v \in Workers : Withdraws(v, u)'
    BY <1>4, <2>1 DEF Count
  <2>5. u \in chosen => rows[u] # "none" \/ \E v \in Workers : Repairs(v, u)'
    BY <1>4, <2>2 DEF Count
  <2>6. rows[u] = "synced" => server[u] = ext.key \/ \E v \in Workers : Rewrites(v, u)'
    BY <1>4, <2>2 DEF Count
  <2> QED
    BY <1>1, <1>4, <2>3, <2>4, <2>5, <2>6 DEF Count
<1>6. ASSUME NEW v \in Workers, work'[v].op # "clear", u \in Faces(v)'
      PROVE  Face(v, u)'
  <2>1. CASE v # w
    <3>1. work'[v] = work[v] /\ u \in Faces(v)
      BY <1>1, <1>6, <2>1 DEF Faces
    <3>2. Face(v, u)
      BY <1>1, <1>6, <3>1 DEF IInv, FaceInv
    <3>3. Wanted(v, u)'
      BY <1>1, <3>1, <3>2 DEF Face, Wanted, TaskAt, Emptied, Cleared
    <3>4. u = work[v].tag => Served(v)'
      BY <1>1, <3>1, <3>2 DEF Face, Served
    <3> QED
      BY <3>1, <3>3, <3>4 DEF Face
  <2>2. CASE v = w
    <3>1. u \in DOMAIN work[w].todo /\ u \in Faces(w) /\ work'[w].todo[u] = work[w].todo[u]
      BY <1>3, <1>6, <2>2 DEF Faces
    <3>2. work[w].op # "clear"
      <4>1. Place(work[w]) /\ Place(work'[w])
        BY DEF IInv, PlaceInv, Near, Follows
      <4>2. work'[w].op # "none"
        BY <1>6, <2>2, <4>1, NothingToDo DEF Faces
      <4> QED
        BY <1>3, <1>6, <2>2, <4>2
    <3>3. Face(w, u)
      BY <1>1, <3>1, <3>2 DEF IInv, FaceInv
    <3>4. Wanted(w, u)'
      BY <1>1, <1>3, <3>1, <3>3 DEF Face, Wanted, TaskAt, Emptied, Cleared
    <3> QED
      BY <1>3, <2>2, <3>4 DEF Face
  <2> QED
    BY <2>1, <2>2
<1> QED
  BY <1>5, <1>6

(* Who else has t before it, without a doubt about t, is not in the way.   *)
LEMMA Alone ==
  ASSUME ExtAssumption, IInv, NEW w \in Workers, NEW t \in Faces(w) \ doubt, work[w].op # "clear",
         NEW v \in Workers \ {w}
  PROVE  work[v].op \in {"none", "clear"}
<1>1. Alive(w)
  BY AliveFaces DEF IInv
<1>2. ~(Alive(v) /\ work[v].op # "clear")
  BY <1>1 DEF IInv, ApartInv
<1> QED
  BY <1>2, AliveFaces DEF IInv

(* What it leaves to the others at t itself.                               *)
LEMMA Beside ==
  ASSUME ExtAssumption, IInv, NEW w \in Workers, NEW t \in Tags, Near(w, t),
         t \notin doubt', NEW v \in Workers \ {w}, work'[v].op # "clear", t \in Faces(v)'
  PROVE  Face(v, t)'
<1>1. /\ mode' = mode /\ instance' = instance /\ ext' = ext /\ chosen' = chosen
      /\ work'[v] = work[v] /\ (Present' <=> Present)
  BY DEF Near, Present
<1>2. t \in Faces(v) /\ work[v].op # "clear"
  BY <1>1 DEF Faces
<1>3. t \notin doubt
  BY <1>2 DEF Near
<1>4. work[w].op = "clear"
  <2>1. Alive(w)
    BY DEF Near, Follows, Alive
  <2>2. work[w].op # "none"
    BY <2>1, AliveFaces DEF IInv
  <2> QED
    BY <1>2, <1>3, <2>2, Alone
<1>5. rows'[t] = rows[t] /\ server'[t] \in {server[t], 0} /\ ~mode /\ ~Present /\ ~instance
  BY <1>4 DEF Near, Follows, IInv, LifeInv
<1>6. Face(v, t)
  BY <1>2, <1>3 DEF IInv, FaceInv
<1>7. Wanted(v, t)'
  BY <1>1, <1>5, <1>6 DEF Face, Wanted, TaskAt, Emptied, Cleared
<1>8. t = work[v].tag => Served(v)'
  BY <1>1, <1>5, <1>6 DEF Face, Served
<1> QED
  BY <1>1, <1>7, <1>8 DEF Face

(* What is left to prove of such a step.                                   *)
Here(w, t) ==
  t \notin doubt' =>
    Count(t)' /\ (work'[w].op # "clear" /\ t \in Faces(w)' => Face(w, t)')

LEMMA NearStep ==
  ASSUME ExtAssumption, IInv, TypeOK', NEW w \in Workers, NEW t \in Tags, Near(w, t), Here(w, t)
  PROVE  IInv'
<1>1. /\ mode' = mode /\ instance' = instance /\ ext' = ext /\ chosen' = chosen
      /\ (Present' <=> Present)
      /\ \A v \in Workers \ {w} : work'[v] = work[v]
  BY DEF Near, Present
<1>2. Place(work'[w]) /\ work'[w].op \in {work[w].op, "none"}
      /\ work[w].pc # "collect" /\ work'[w].pc # "collect" /\ Alive(w)
  BY DEF Near, Follows, Alive
<1>3. PlaceInv'
  BY <1>1, <1>2 DEF IInv, PlaceInv
<1>4. LifeInv'
  BY <1>1, <1>2 DEF IInv, LifeInv
<1>5. Faces(w)' \subseteq Faces(w) /\ t \in Faces(w)
  BY Basics DEF Faces, Near, Follows, IInv
<1>6. \A u \in doubt : u \notin doubt' => u = t /\ \A v \in Workers : u \notin Faces(v)'
  <2>1. doubt \subseteq Tags
    BY Basics DEF IInv
  <2>2. \A v \in Workers \ {w} : Faces(v)' = Faces(v)
    BY <1>1 DEF Faces
  <2> QED
    BY <2>1, <2>2 DEF Near
<1>7. ApartInv'
  <2>1. SUFFICES ASSUME NEW v \in Workers, NEW x \in Workers, v # x, Alive(v)', Alive(x)',
                        work'[v].op # "clear", work'[x].op # "clear", NEW u \in Faces(x)'
                 PROVE  u \in doubt'
    BY DEF ApartInv
  <2>2. work'[w].op # "none" => work'[w].op = work[w].op
    BY <1>2
  <2>3. Alive(w)' => work'[w].op # "none"
    BY <1>2 DEF Place, Alive
  <2>4. /\ Alive(v) /\ Alive(x) /\ work[v].op # "clear" /\ work[x].op # "clear"
        /\ u \in Faces(x)
    BY <1>1, <1>2, <1>5, <2>1, <2>2, <2>3 DEF Alive, Faces
  <2>5. u \in doubt
    BY <2>1, <2>4 DEF IInv, ApartInv
  <2> QED
    BY <1>6, <2>1, <2>5
<1>8. FaceInv'
  <2>1. SUFFICES ASSUME NEW v \in Workers, work'[v].op # "clear", NEW u \in Faces(v)', u \notin doubt'
                 PROVE  Face(v, u)'
    BY DEF FaceInv
  <2>2. u \in Tags
    <3>1. \A x \in Workers : Faces(x) \subseteq Tags
      BY FacesOf DEF IInv
    <3>2. v # w => Faces(v)' = Faces(v)
      BY <1>1 DEF Faces
    <3> QED
      BY <1>5, <3>1, <3>2
  <2>3. CASE u # t
    BY <2>1, <2>2, <2>3, Elsewhere
  <2>4. CASE u = t /\ v # w
    BY <2>1, <2>4, Beside
  <2>5. CASE u = t /\ v = w
    BY <2>1, <2>5 DEF Here
  <2> QED
    BY <2>3, <2>4, <2>5
<1>9. CountInv'
  <2>1. SUFFICES ASSUME NEW u \in Tags, u \notin doubt' PROVE Count(u)'
    BY DEF CountInv
  <2>2. CASE u # t
    BY <2>1, <2>2, Elsewhere
  <2>3. CASE u = t
    BY <2>1, <2>3 DEF Here
  <2> QED
    BY <2>2, <2>3
<1> QED
  BY <1>3, <1>4, <1>7, <1>8, <1>9 DEF IInv

-----------------------------------------------------------------------------
(* The steps of a worker at the inbound it is at.                          *)

At(w) == work[w].tag
Same(w) == \A v \in Workers \ {w} : work'[v] = work[v]

LEMMA Standing ==
  ASSUME ExtAssumption, IInv, NEW w \in Workers, work[w].pc \notin Between
  PROVE  /\ At(w) \in Tags /\ At(w) \in Faces(w) /\ At(w) \notin DOMAIN work[w].todo
         /\ Alive(w) /\ work[w].op # "none"
         /\ Fits(work[w].op, work[w].task) /\ Stands(work[w].pc, work[w].task)
         /\ \A t \in DOMAIN work[w].todo : Fits(work[w].op, work[w].todo[t])
         /\ Place(work[w]) /\ TaskAt(w, At(w)) = work[w].task
<1>1. Place(work[w])
  BY DEF IInv, PlaceInv
<1>2. /\ At(w) \in Tags /\ At(w) \notin DOMAIN work[w].todo
      /\ work[w].pc # "idle" /\ work[w].op # "none"
      /\ Fits(work[w].op, work[w].task) /\ Stands(work[w].pc, work[w].task)
      /\ \A t \in DOMAIN work[w].todo : Fits(work[w].op, work[w].todo[t])
  BY <1>1 DEF Place, At, Between
<1>3. At(w) # "none"
  BY <1>2 DEF ExtAssumption
<1> QED
  BY <1>1, <1>2, <1>3 DEF Faces, At, Alive, TaskAt

(* It goes on to pc.                                                       *)
LEMMA ToPc ==
  ASSUME ExtAssumption, IInv, NEW w \in Workers, work[w].pc \notin Between,
         NEW pc \in Pcs \ Between, Stands(pc, work[w].task), To(w, pc)
  PROVE  /\ work' \in [Workers -> Row(ext.key)] /\ Same(w)
         /\ work'[w].op = work[w].op /\ work'[w].todo = work[w].todo
         /\ work'[w].tag = work[w].tag /\ work'[w].task = work[w].task
         /\ work'[w].pc = pc /\ work'[w].key = work[w].key
         /\ Follows(w, At(w))
<1> DEFINE s == [work[w] EXCEPT !.pc = pc]
<1>1. TypeOK /\ ext.key \in Nat /\ work[w] \in Row(ext.key) /\ work \in [Workers -> Row(ext.key)]
  BY Basics DEF IInv
<1>2. work' = [work EXCEPT ![w] = s]
  BY <1>1 DEF To
<1>3. /\ s \in Row(ext.key) /\ s.op = work[w].op /\ s.todo = work[w].todo /\ s.tag = work[w].tag
      /\ s.task = work[w].task /\ s.pc = pc /\ s.key = work[w].key
  BY <1>1, SetPc
<1> HIDE DEF s
<1>4. work'[w] = s /\ Same(w)
  BY <1>1, <1>2, Replaced DEF Same
<1>5. work' \in [Workers -> Row(ext.key)]
  BY <1>1, <1>2, <1>3
<1>6. Place(s)
  BY <1>3, Standing DEF Place, Between
<1>7. Follows(w, At(w))
  BY <1>3, <1>4, <1>6, Standing DEF Follows, At, Between
<1> QED
  BY <1>3, <1>4, <1>5, <1>7

(* It is done with the inbound.                                            *)
Leaves(w) ==
  /\ work' \in [Workers -> Row(ext.key)] /\ Same(w)
  /\ At(w) \notin Faces(w)' /\ Follows(w, At(w))
  /\ work[w].op = "quota" => work'[w].op = "quota"

LEMMA WhenDone ==
  ASSUME ExtAssumption, IInv, NEW w \in Workers, work[w].pc \notin Between, Done(w)
  PROVE  Leaves(w)
<1>1. TypeOK /\ ext.key \in Nat /\ work[w] \in Row(ext.key) /\ work \in [Workers -> Row(ext.key)]
  BY Basics DEF IInv
<1> DEFINE s == Onward(work[w])
<1>2. work' = [work EXCEPT ![w] = s]
  BY <1>1 DEF Done
<1>3. s \in Row(ext.key) /\ Place(s) /\ Rested(work[w], s)
  BY <1>1, Standing, OnwardRow
<1> HIDE DEF s
<1>4. work'[w] = s /\ Same(w)
  BY <1>1, <1>2, Replaced DEF Same
<1>5. work' \in [Workers -> Row(ext.key)]
  BY <1>1, <1>2, <1>3
<1>6. Follows(w, At(w))
  BY <1>3, <1>4, Standing DEF Follows, At, Between, Rested
<1>7. At(w) \notin Faces(w)'
  BY <1>3, <1>4, Standing DEF Faces, Rested
<1>8. work[w].op = "quota" => work'[w].op = "quota"
  BY <1>3, <1>4 DEF Rested
<1> QED
  BY <1>4, <1>5, <1>6, <1>7, <1>8 DEF Leaves

LEMMA WhenFailed ==
  ASSUME ExtAssumption, IInv, NEW w \in Workers, work[w].pc \notin Between, Failed(w)
  PROVE  Leaves(w)
<1>1. CASE work[w].task # "renew"
  BY <1>1, WhenDone DEF Failed
<1>2. CASE work[w].task = "renew"
  <2>1. TypeOK /\ ext.key \in Nat /\ work[w] \in Row(ext.key) /\ work \in [Workers -> Row(ext.key)]
    BY Basics DEF IInv
  <2>2. work' = [work EXCEPT ![w] = Idle]
    BY <1>2 DEF Failed
  <2>3. work'[w] = Idle /\ Same(w)
    BY <2>1, <2>2, Replaced DEF Same
  <2>4. work' \in [Workers -> Row(ext.key)]
    BY <2>1, <2>2, IdleRow
  <2>5. work[w].op = "update" /\ \A t \in DOMAIN work[w].todo : work[w].todo[t] \notin {"drop", "wipe", "quota"}
    BY <1>2, Standing DEF Fits, Place
  <2>6. Follows(w, At(w))
    BY <2>3, <2>5, Standing, IdleRow DEF Follows, At, Between
  <2>7. At(w) \notin Faces(w)'
    BY <2>3, IdleRow, Standing DEF Faces
  <2> QED
    BY <2>3, <2>4, <2>5, <2>6, <2>7 DEF Leaves
<1> QED
  BY <1>1, <1>2

(* The types after a step of a worker.                                     *)
Frame == UNCHANGED <<mode, instance, node, ext, chosen, starts>>

LEMMA WorkTyped ==
  ASSUME ExtAssumption, TypeOK, Frame, work' \in [Workers -> Row(ext.key)],
         rows' \in Rows, \A t \in Tags : rows'[t] # "none" => Present /\ instance,
         server' \in [Tags -> 0..MaxKeys], doubt' \subseteq Tags, faults' \in 0..MaxFaults
  PROVE  TypeOK'
<1>1. Table /\ History
  BY Parts
<1>2. Table' /\ History' /\ Server' /\ Work'
  BY <1>1 DEF Table, History, Server, Work, Frame, Present
<1> QED
  BY <1>2 DEF TypeOK, Table, History, Server, Work, Rows, Row

(* What the others do at an inbound they go on doing.                      *)
LEMMA OtherShares ==
  ASSUME NEW w \in Workers, NEW t, Same(w), mode' = mode, ext' = ext
  PROVE  /\ (\E v \in Workers : Withdraws(v, t)) => Withdraws(w, t) \/ \E v \in Workers : Withdraws(v, t)'
         /\ (\E v \in Workers : Repairs(v, t)) => Repairs(w, t) \/ \E v \in Workers : Repairs(v, t)'
         /\ (\E v \in Workers : Rewrites(v, t)) => Rewrites(w, t) \/ \E v \in Workers : Rewrites(v, t)'
         /\ \A v \in Workers \ {w} : Exhausts(v, t)' <=> Exhausts(v, t)
<1>1. \A v \in Workers \ {w} : /\ Withdraws(v, t) => Withdraws(v, t)'
                               /\ Repairs(v, t) => Repairs(v, t)'
                               /\ Rewrites(v, t) => Rewrites(v, t)'
                               /\ Exhausts(v, t)' <=> Exhausts(v, t)
  BY DEF Same, Withdraws, Repairs, Rewrites, Exhausts, Present
<1> QED
  BY <1>1

(* What an operation at an inbound may count on.                           *)
LEMMA Facing ==
  ASSUME ExtAssumption, IInv, NEW w \in Workers, work[w].pc \notin Between,
         work[w].op # "clear", At(w) \notin doubt
  PROVE  /\ Wanted(w, At(w)) /\ Served(w) /\ Count(At(w))
         /\ \A v \in Workers \ {w} : work[v].op # "quota"
<1>1. At(w) \in Faces(w) /\ At(w) \in Tags
  BY Standing
<1>2. Face(w, At(w)) /\ Count(At(w))
  BY <1>1 DEF IInv, FaceInv, CountInv
<1>3. \A v \in Workers \ {w} : work[v].op \in {"none", "clear"}
  BY <1>1, Alone
<1> QED
  BY <1>2, <1>3 DEF Face, At

(* Without the account or the instance there are no targets.               *)
LEMMA NoTargets ==
  ASSUME ExtAssumption, IInv, ~Present \/ ~instance
  PROVE  chosen = {} /\ \A t \in Tags : rows[t] = "none"
BY Basics DEF IInv, LifeInv

(* Inbound t is left as it was, but for what worker w was to do there.     *)
LEMMA CountStays ==
  ASSUME NEW w \in Workers, NEW t, Count(t), Same(w), Frame,
         server'[t] = server[t], rows'[t] = rows[t],
         Withdraws(w, t) => Withdraws(w, t)' \/ server[t] = 0 \/ (Present /\ rows[t] \in Kept),
         Repairs(w, t) => Repairs(w, t)' \/ rows[t] # "none" \/ t \notin chosen,
         Rewrites(w, t) => Rewrites(w, t)' \/ rows[t] # "synced" \/ server[t] = ext.key,
         work'[w].op = "quota" /\ Present /\ server[t] # 0 => Exhausts(w, t)'
  PROVE  Count(t)'
<1>1. mode' = mode /\ ext' = ext /\ chosen' = chosen /\ (Present' <=> Present)
  BY DEF Frame, Present
<1>2. server[t] # 0 => (Present /\ rows[t] \in Kept) \/ \E v \in Workers : Withdraws(v, t)'
  BY <1>1, OtherShares DEF Count
<1>3. t \in chosen => rows[t] # "none" \/ \E v \in Workers : Repairs(v, t)'
  BY <1>1, OtherShares DEF Count
<1>4. rows[t] = "synced" => server[t] = ext.key \/ \E v \in Workers : Rewrites(v, t)'
  BY <1>1, OtherShares DEF Count
<1>5. \A v \in Workers : work'[v].op = "quota" /\ Present /\ server[t] # 0 => Exhausts(v, t)'
  BY <1>1, OtherShares DEF Count, Same
<1> QED
  BY <1>1, <1>2, <1>3, <1>4, <1>5 DEF Count

LEMMA StepGate ==
  ASSUME ExtAssumption, IInv, NEW w \in Workers, NEW t \in Tags, t = At(w), Gate(w)
  PROVE  IInv'
<1>1. /\ work[w].pc = "gate" /\ work[w].pc \notin Between
      /\ Frame /\ rows' = rows /\ server' = server /\ doubt' = doubt /\ faults' = faults
  BY DEF Gate, db, Frame, Between
<1>2. /\ t \in Tags /\ work[w].task \in {"gated", "repair"} /\ work[w].op # "clear" /\ work[w].op # "quota"
      /\ TaskAt(w, t) = work[w].task
  BY <1>1, Standing DEF Stands, Fits
<1>3. TypeOK /\ History /\ Table
  BY Parts DEF IInv
<1>4. CASE ~Present \/ ext.exceeded
  <2>1. Leaves(w)
    BY <1>1, <1>4, WhenDone DEF Gate
  <2>2. TypeOK'
    BY <1>1, <1>3, <2>1, Basics, WorkTyped DEF Leaves, History
  <2>3. Near(w, t)
    BY <1>1, <1>2, <2>1 DEF Near, Leaves, Same, Frame
  <2>4. Here(w, t)
    <3>1. SUFFICES ASSUME t \notin doubt PROVE Count(t)'
      BY <1>1, <2>1 DEF Here, Leaves
    <3>2. Wanted(w, t) /\ Count(t) /\ \A v \in Workers : work[v].op # "quota"
      BY <1>1, <1>2, <3>1, Facing
    <3>3. ~Withdraws(w, t) /\ ~Rewrites(w, t)
      BY <1>1, <1>2, Standing DEF Withdraws, Rewrites, At
    <3>4. Repairs(w, t) => t \notin chosen \/ rows[t] # "none"
      BY <1>1, <1>2, <3>2, NoTargets DEF Wanted, Adding, Emptied, Repairs
    <3>5. work'[w].op # "quota" /\ Same(w)
      BY <1>2, <2>1 DEF Leaves, Follows
    <3> QED
      BY <1>1, <3>2, <3>3, <3>4, <3>5, CountStays
  <2> QED
    BY <1>2, <2>2, <2>3, <2>4, NearStep
<1>5. CASE Present /\ ~ext.exceeded
  <2> DEFINE pc == IF work[w].task = "repair" THEN "remove" ELSE "read"
  <2>1. To(w, pc)
    BY <1>5 DEF Gate
  <2>2. pc \in Pcs \ Between /\ Stands(pc, work[w].task)
    BY <1>2 DEF Pcs, Between, Stands, Removing, Adding
  <2>3. /\ work' \in [Workers -> Row(ext.key)] /\ Same(w)
        /\ work'[w].op = work[w].op /\ work'[w].todo = work[w].todo
        /\ work'[w].tag = work[w].tag /\ work'[w].task = work[w].task
        /\ work'[w].pc = pc /\ work'[w].key = work[w].key
        /\ Follows(w, At(w))
    BY <1>1, <2>1, <2>2, ToPc
  <2>4. TypeOK'
    BY <1>1, <1>3, <2>3, Basics, WorkTyped DEF History
  <2>5. Near(w, t)
    BY <1>1, <1>2, <2>3 DEF Near, Same, Frame
  <2>6. Here(w, t)
    <3>1. SUFFICES ASSUME t \notin doubt PROVE Count(t)' /\ Face(w, t)'
      BY <1>1 DEF Here
    <3>2. Wanted(w, t) /\ Count(t) /\ \A v \in Workers : work[v].op # "quota"
      BY <1>1, <1>2, <3>1, Facing
    <3>3. ~Withdraws(w, t) /\ ~Rewrites(w, t) /\ (Repairs(w, t) => Repairs(w, t)')
      BY <1>1, <1>2, <2>3, Standing DEF Withdraws, Rewrites, Repairs, At
    <3>5. Count(t)'
      BY <1>1, <1>2, <2>3, <3>2, <3>3, CountStays
    <3>6. Wanted(w, t)'
      BY <1>1, <1>2, <1>5, <2>3, <3>2 DEF Wanted, TaskAt, Emptied, Cleared, Present, At, Frame, Adding
    <3>7. Served(w)'
      BY <1>2, <2>3 DEF Served
    <3> QED
      BY <3>5, <3>6, <3>7 DEF Face
  <2> QED
    BY <1>2, <2>4, <2>5, <2>6, NearStep
<1> QED
  BY <1>4, <1>5

(* The server answers "done" or not at all.                                *)
LEMMA StepRemoveUser ==
  ASSUME ExtAssumption, IInv, NEW w \in Workers, NEW t \in Tags, t = At(w), RemoveUser(w)
  PROVE  IInv'
<1>1. work[w].pc = "remove" /\ work[w].pc \notin Between /\ Frame /\ rows' = rows
  BY DEF RemoveUser, db, Frame, Between
<1>2. work[w].task \in Removing /\ TypeOK /\ TaskAt(w, t) = work[w].task
  BY <1>1, Standing DEF Stands, IInv
<1>3. /\ server \in [Tags -> 0..MaxKeys] /\ doubt \subseteq Tags /\ rows \in Rows /\ MaxKeys \in Nat
      /\ \A u \in Tags : rows[u] # "none" => Present /\ instance
  BY <1>2, Basics
<1>4. faults \in 0..MaxFaults /\ MaxFaults \in Nat
  BY <1>2 DEF TypeOK, ExtAssumption
<1>5. CASE /\ server' = [server EXCEPT ![t] = 0]
           /\ To(w, "removed") /\ UNCHANGED <<doubt, faults>>
  <2>1. "removed" \in Pcs \ Between /\ Stands("removed", work[w].task)
    BY <1>2 DEF Pcs, Between, Stands
  <2>2. /\ work' \in [Workers -> Row(ext.key)] /\ Same(w)
        /\ work'[w].op = work[w].op /\ work'[w].todo = work[w].todo
        /\ work'[w].tag = work[w].tag /\ work'[w].task = work[w].task
        /\ work'[w].pc = "removed" /\ work'[w].key = work[w].key
        /\ Follows(w, At(w))
    BY <1>1, <1>5, <2>1, ToPc
  <2>3. server' \in [Tags -> 0..MaxKeys] /\ server'[t] = 0
    BY <1>3, <1>5
  <2>4. TypeOK'
    BY <1>1, <1>2, <1>3, <1>4, <1>5, <2>2, <2>3, WorkTyped
  <2>5. Near(w, t)
    BY <1>1, <1>3, <1>5, <2>2, <2>3 DEF Near, Same, Frame
  <2>6. Here(w, t)
    <3>1. SUFFICES ASSUME t \notin doubt
                   PROVE  Count(t)' /\ (work[w].op # "clear" => Face(w, t)')
      BY <1>5, <2>2 DEF Here
    <3>2. Count(t)
      BY <3>1 DEF IInv, CountInv
    <3>3. Repairs(w, t) => Repairs(w, t)'
      BY <2>2 DEF Repairs
    <3>4. Rewrites(w, t)'
      BY <2>2 DEF Rewrites, At
    <3>5. Count(t)'
      BY <1>1, <2>2, <2>3, <3>2, <3>3, <3>4, OtherShares DEF Count, Frame, Present
    <3>6. ASSUME work[w].op # "clear" PROVE Wanted(w, t)' /\ Served(w)'
      <4>1. Wanted(w, t)
        BY <1>1, <3>1, <3>6, Facing
      <4>2. Wanted(w, t)'
        BY <1>1, <2>2, <4>1 DEF Wanted, TaskAt, Emptied, Cleared, Present, At, Frame
      <4>3. Served(w)'
        BY <2>2, <2>3 DEF Served, At
      <4> QED
        BY <4>2, <4>3
    <3> QED
      BY <3>5, <3>6 DEF Face
  <2> QED
    BY <2>4, <2>5, <2>6, NearStep
<1>6. ASSUME faults < MaxFaults, faults' = faults + 1, NEW carried \in BOOLEAN,
             server' = IF carried THEN [server EXCEPT ![t] = 0] ELSE server,
             doubt' = doubt \cup {t}, To(w, "lost")
      PROVE  IInv'
  <2>1. "lost" \in Pcs \ Between /\ Stands("lost", work[w].task)
    BY <1>2 DEF Pcs, Between, Stands
  <2>2. work' \in [Workers -> Row(ext.key)] /\ Same(w) /\ Follows(w, At(w))
    BY <1>1, <1>6, <2>1, ToPc
  <2>3. server' \in [Tags -> 0..MaxKeys] /\ server'[t] \in {server[t], 0}
        /\ \A u \in Tags \ {t} : server'[u] = server[u]
    BY <1>3, <1>6
  <2>4. TypeOK'
    <3>1. doubt' \subseteq Tags /\ faults' \in 0..MaxFaults
      BY <1>3, <1>4, <1>6
    <3> QED
      BY <1>1, <1>2, <1>3, <2>2, <2>3, <3>1, WorkTyped
  <2>5. Near(w, t)
    BY <1>1, <1>6, <2>2, <2>3 DEF Near, Same, Frame
  <2>6. Here(w, t)
    BY <1>6 DEF Here
  <2> QED
    BY <2>4, <2>5, <2>6, NearStep
<1> QED
  BY <1>5, <1>6 DEF RemoveUser, At

(* A row written back, and what settles a doubt.                           *)
LEMMA Marked ==
  ASSUME ExtAssumption, TypeOK, NEW t \in Tags, NEW status \in {"synced", "failed", "unremoved"},
         Mark(t, status)
  PROVE  /\ rows' \in Rows /\ \A u \in Tags \ {t} : rows'[u] = rows[u]
         /\ rows'[t] = IF Present /\ instance THEN status ELSE rows[t]
         /\ \A u \in Tags : rows'[u] # "none" => Present /\ instance
<1>1. rows \in Rows /\ \A u \in Tags : rows[u] # "none" => Present /\ instance
  BY Basics
<1>2. CASE Present /\ instance
  BY <1>1, <1>2 DEF Mark, Rows
<1>3. CASE ~(Present /\ instance)
  BY <1>1, <1>3 DEF Mark, Rows
<1> QED
  BY <1>2, <1>3

LEMMA Settling ==
  ASSUME NEW w \in Workers, NEW t, t = At(w), NEW key
  PROVE  /\ Settled(w, key) \subseteq doubt /\ doubt \subseteq Settled(w, key) \cup {t}
         /\ t \in doubt /\ t \notin Settled(w, key) =>
              /\ server[t] = key /\ ~ext.exceeded
              /\ \A v \in Workers \ {w} : /\ Alive(v) => t \notin Faces(v)
                                          /\ Alive(v) => work[v].op \notin {"quota", "clear"}
BY DEF Settled, At, Others

(* The inbound is settled: nobody else has anything to do there.           *)
LEMMA Resolved ==
  ASSUME ExtAssumption, IInv, NEW w \in Workers, NEW t, t = At(w), NEW key,
         t \in doubt, t \notin Settled(w, key)
  PROVE  /\ server[t] = key /\ ~ext.exceeded
         /\ \A v \in Workers \ {w} : t \notin Faces(v) /\ work[v].op # "quota"
<1>1. \A v \in Workers : t \in Faces(v) \/ work[v].op = "quota" => Alive(v)
  BY AliveFaces DEF IInv
<1> QED
  BY <1>1, Settling

(* What is left to prove of a step at the inbound a worker is at.          *)
LEMMA AtStep ==
  ASSUME ExtAssumption, IInv, NEW w \in Workers, NEW t \in Tags, t = At(w), Frame,
         rows' \in Rows, \A u \in Tags \ {t} : rows'[u] = rows[u],
         \A u \in Tags : rows'[u] # "none" => Present /\ instance,
         server' \in [Tags -> 0..MaxKeys], \A u \in Tags \ {t} : server'[u] = server[u],
         doubt' \subseteq Tags, doubt \subseteq doubt' \cup {t}, faults' \in 0..MaxFaults,
         work' \in [Workers -> Row(ext.key)], Same(w), Follows(w, t),
         t \in doubt /\ t \notin doubt' => t \notin Faces(w)' /\ \A v \in Workers \ {w} : t \notin Faces(v),
         work[w].op = "clear" => rows'[t] = rows[t] /\ server'[t] \in {server[t], 0},
         t \notin doubt' => Count(t)',
         t \notin doubt' /\ work'[w].op # "clear" /\ t \in Faces(w)' => Face(w, t)'
  PROVE  IInv'
<1>1. TypeOK'
  BY WorkTyped DEF IInv
<1>2. Near(w, t)
  BY DEF Near, Same, Frame
<1>3. Here(w, t)
  BY DEF Here
<1> QED
  BY <1>1, <1>2, <1>3, NearStep

LEMMA StepRemoved ==
  ASSUME ExtAssumption, IInv, NEW w \in Workers, NEW t \in Tags, t = At(w), Removed(w)
  PROVE  IInv'
<1> DEFINE task == work[w].task
<1>1. /\ work[w].pc = "removed" /\ work[w].pc \notin Between
      /\ Frame /\ server' = server /\ faults' = faults
  BY DEF Removed, Frame, Between
<1>2. /\ task \in Removing /\ TypeOK /\ TaskAt(w, t) = task /\ Fits(work[w].op, task)
      /\ Place(work[w]) /\ t \notin DOMAIN work[w].todo
  BY <1>1, Standing DEF Stands, IInv
<1>3. /\ server \in [Tags -> 0..MaxKeys] /\ doubt \subseteq Tags /\ rows \in Rows
      /\ \A u \in Tags : rows[u] # "none" => Present /\ instance
  BY <1>2, Basics
<1>4. faults \in 0..MaxFaults
  BY <1>2 DEF TypeOK
<1>5. mode' = mode /\ ext' = ext /\ chosen' = chosen /\ instance' = instance /\ (Present' <=> Present)
  BY <1>1 DEF Frame, Present
<1>8. task \in {"drop", "quota", "wipe"} => Leaves(w)
  BY <1>1, WhenDone DEF Removed
<1>9. t \notin doubt /\ work[w].op # "clear" => Wanted(w, t) /\ server[t] = 0
  BY <1>1, Facing DEF Served, At
<1>10. ~Withdraws(w, t)
  BY <1>1, <1>2 DEF Withdraws
<1>11. CASE task = "quota"
  <2>1. Mark(t, "failed") /\ doubt' = doubt /\ work[w].op = "quota"
    BY <1>1, <1>2, <1>11 DEF Removed, At, Fits
  <2>2. /\ rows' \in Rows /\ \A u \in Tags \ {t} : rows'[u] = rows[u]
        /\ rows'[t] = IF Present /\ instance THEN "failed" ELSE rows[t]
        /\ \A u \in Tags : rows'[u] # "none" => Present /\ instance
    BY <1>2, <2>1, Marked
  <2>3. ASSUME t \notin doubt PROVE Count(t)'
    <3>1. server[t] = 0 /\ (Present => t \in chosen)
      BY <1>2, <1>9, <1>11, <2>1, <2>3 DEF Wanted
    <3>2. ~(Present /\ instance) => t \notin chosen /\ rows[t] = "none"
      BY NoTargets
    <3> QED
      BY <1>1, <1>5, <2>2, <3>1, <3>2 DEF Count
  <2> QED
    BY <1>1, <1>3, <1>4, <1>8, AtStep, <1>11, <2>1, <2>2, <2>3 DEF Leaves
<1>12. CASE task = "drop"
  <2>1. /\ rows' = [rows EXCEPT ![t] = "none"] /\ work[w].op \notin {"clean", "clear"}
        /\ doubt' = IF t \in chosen THEN doubt \cup {t} ELSE Settled(w, 0)
    BY <1>1, <1>2, <1>12 DEF Removed, At, Fits
  <2>2. /\ rows' \in Rows /\ rows'[t] = "none" /\ \A u \in Tags \ {t} : rows'[u] = rows[u]
    BY <1>3, <2>1 DEF Rows
  <2>3. doubt' \subseteq doubt \cup {t} /\ doubt \subseteq doubt' \cup {t}
    BY <2>1, Settling
  <2>4. t \in doubt /\ t \notin doubt' => server[t] = 0 /\ \A v \in Workers \ {w} : t \notin Faces(v)
    BY <2>1, Resolved
  <2>5. ASSUME t \notin doubt' PROVE Count(t)'
    <3>1. server[t] = 0 /\ t \notin chosen
      BY <1>9, <2>1, <2>4, <2>5
    <3> QED
      BY <1>1, <1>5, <2>2, <3>1 DEF Count
  <2>6. \A u \in Tags : rows'[u] # "none" => Present /\ instance
    BY <1>3, <2>2
  <2> QED
    BY <1>1, <1>3, <1>4, <1>8, AtStep, <1>12, <2>1, <2>2, <2>3, <2>4, <2>5, <2>6 DEF Leaves
<1>13. CASE task = "wipe"
  <2>1. /\ rows' = rows /\ work[w].op \in {"clean", "uninstall", "clear"}
        /\ doubt' = IF work[w].op = "clean" THEN doubt \cup {t} ELSE doubt
    BY <1>1, <1>2, <1>13 DEF Removed, At, Fits
  <2>2. ASSUME t \notin doubt' PROVE Count(t)'
    <3>1. Count(t) /\ Same(w)
      BY <1>8, <1>13, <2>1, <2>2 DEF IInv, CountInv, Leaves
    <3>2. ~instance
      BY <1>1, <2>1, <2>2 DEF IInv, LifeInv
    <3>3. rows[t] = "none" /\ t \notin chosen
      BY <3>2, NoTargets
    <3>4. work'[w].op # "quota"
      BY <1>8, <1>13, <2>1 DEF Leaves, Follows
    <3> QED
      BY <1>1, <1>10, <2>1, <3>1, <3>3, <3>4, CountStays
  <2> QED
    BY <1>1, <1>3, <1>4, <1>8, AtStep, <1>13, <2>1, <2>2 DEF Leaves
<1>14. CASE task \in {"renew", "repair"}
  <2>1. /\ To(w, "read") /\ doubt' = doubt /\ work[w].op \in {"update", "repair"}
        /\ rows' = IF task = "repair" THEN [rows EXCEPT ![t] = "none"] ELSE rows
    BY <1>1, <1>2, <1>14 DEF Removed, At, Fits
  <2>2. "read" \in Pcs \ Between /\ Stands("read", task)
    BY <1>14 DEF Pcs, Between, Stands, Adding
  <2>3. /\ work' \in [Workers -> Row(ext.key)] /\ Same(w)
        /\ work'[w].op = work[w].op /\ work'[w].todo = work[w].todo
        /\ work'[w].tag = work[w].tag /\ work'[w].task = work[w].task
        /\ work'[w].pc = "read" /\ work'[w].key = work[w].key
        /\ Follows(w, At(w))
    BY <1>1, <2>1, <2>2, ToPc
  <2>4. /\ rows' \in Rows /\ rows'[t] = IF task = "repair" THEN "none" ELSE rows[t]
        /\ \A u \in Tags \ {t} : rows'[u] = rows[u]
    BY <1>3, <2>1 DEF Rows
  <2>5. ASSUME t \notin doubt PROVE Count(t)' /\ Face(w, t)'
    <3>1. Count(t) /\ Wanted(w, t) /\ server[t] = 0
      BY <1>9, <2>1, <2>5 DEF IInv, CountInv
    <3>2. Wanted(w, t)'
      BY <1>2, <1>5, <1>14, <2>3, <2>4, <3>1, <1>1 DEF Wanted, TaskAt, Emptied, Cleared, At, Adding
    <3>3. Served(w)'
      BY <1>1, <2>3, <3>1 DEF Served, At
    <3>4. rows'[t] # "synced" /\ rows'[t] # "unremoved" /\ (rows'[t] # "none" => t \in chosen)
      BY <1>2, <1>3, <1>14, <2>4, <3>1 DEF Wanted, Adding, Count
    <3>5. t \in chosen => rows'[t] # "none" \/ Repairs(w, t)'
      <4>1. CASE task = "repair"
        BY <2>3, <4>1 DEF Repairs, At
      <4>2. CASE task = "renew"
        BY <1>2, <2>4, <3>1, <4>2, NoTargets DEF Wanted, Adding
      <4> QED
        BY <1>14, <4>1, <4>2
    <3> QED
      BY <1>1, <1>5, <3>1, <3>2, <3>3, <3>4, <3>5 DEF Count, Face
  <2>6. \A u \in Tags : rows'[u] # "none" => Present /\ instance
    BY <1>3, <2>4
  <2> QED
    BY <1>1, <1>3, <1>4, <1>14, AtStep, <2>1, <2>3, <2>4, <2>5, <2>6
<1> QED
  BY <1>2, <1>11, <1>12, <1>13, <1>14 DEF Removing

(* The variables a step leaves alone, and those it may not change.         *)
LEMMA AtRest ==
  ASSUME ExtAssumption, IInv
  PROVE  /\ TypeOK /\ rows \in Rows /\ server \in [Tags -> 0..MaxKeys] /\ doubt \subseteq Tags
         /\ faults \in 0..MaxFaults /\ MaxKeys \in Nat /\ MaxFaults \in Nat
         /\ ext.key \in 0..MaxKeys
         /\ faults < MaxFaults => faults + 1 \in 0..MaxFaults
         /\ \A u \in Tags : rows[u] # "none" => Present /\ instance
BY Basics DEF IInv, TypeOK, ExtAssumption

(* What a renewal leaves out.                                              *)
LEMMA SkippedTags ==
  ASSUME ExtAssumption, IInv, NEW w \in Workers
  PROVE  Skipped(w) \subseteq Tags
BY Basics DEF Skipped, IInv

LEMMA StepLost ==
  ASSUME ExtAssumption, IInv, NEW w \in Workers, NEW t \in Tags, t = At(w), Lost(w)
  PROVE  IInv'
<1>1. /\ work[w].pc = "lost" /\ work[w].pc \notin Between
      /\ Frame /\ server' = server /\ faults' = faults /\ doubt' = doubt \cup Skipped(w)
  BY DEF Lost, Frame, Between
<1>2. work[w].task \in Removing /\ Fits(work[w].op, work[w].task) /\ t \notin DOMAIN work[w].todo
  BY <1>1, Standing DEF Stands
<1>3. Leaves(w)
  BY <1>1, WhenFailed DEF Lost
<1>4. /\ rows' \in Rows /\ \A u \in Tags \ {t} : rows'[u] = rows[u]
      /\ \A u \in Tags : rows'[u] # "none" => Present /\ instance
      /\ work[w].task = "wipe" => rows'[t] = rows[t]
  <2>1. CASE work[w].task \in {"quota", "wipe"}
    BY <2>1, AtRest DEF Lost
  <2>2. CASE work[w].task \notin {"quota", "wipe"}
    BY <2>2, AtRest, Marked DEF Lost, At
  <2> QED
    BY <2>1, <2>2
<1>5. work[w].op = "clear" => work[w].task = "wipe"
  BY <1>2 DEF Fits
<1>6. ASSUME t \notin doubt PROVE Count(t)'
  <2>1. work[w].op = "clear"
    BY <1>1, <1>6, Facing DEF Served
  <2>2. rows[t] = "none" /\ t \notin chosen
    BY <1>1, <2>1, NoTargets DEF IInv, LifeInv
  <2>3. ~Withdraws(w, t)
    BY <1>1, <1>2 DEF Withdraws
  <2>4. Count(t) /\ Same(w) /\ work'[w].op # "quota"
    BY <1>3, <1>6, <2>1 DEF IInv, CountInv, Leaves, Follows
  <2> QED
    BY <1>1, <1>4, <1>5, <2>1, <2>2, <2>3, <2>4, CountStays
<1>7. doubt \subseteq doubt' /\ doubt' \subseteq Tags
  BY <1>1, AtRest, SkippedTags
<1> QED
  BY <1>1, <1>3, <1>4, <1>5, <1>6, <1>7, AtRest, AtStep DEF Leaves

LEMMA StepReadCredentials ==
  ASSUME ExtAssumption, IInv, NEW w \in Workers, NEW t \in Tags, t = At(w), ReadCredentials(w)
  PROVE  IInv'
<1>1. /\ work[w].pc = "read" /\ work[w].pc \notin Between
      /\ Frame /\ rows' = rows /\ server' = server /\ faults' = faults /\ doubt' = doubt
  BY DEF ReadCredentials, db, Frame, Between
<1>2. /\ work[w].task \in Adding /\ Fits(work[w].op, work[w].task) /\ t \notin DOMAIN work[w].todo
      /\ TaskAt(w, t) = work[w].task /\ work[w].op \notin {"clear", "quota"}
  BY <1>1, Standing DEF Stands, Fits, Adding
<1>3. /\ ~Withdraws(w, t) /\ ~Rewrites(w, t)
      /\ t \notin doubt => Wanted(w, t) /\ Count(t) /\ Served(w)
  BY <1>1, <1>2, Facing DEF Withdraws, Rewrites
<1>4. CASE ~Present
  <2>1. Leaves(w)
    BY <1>1, <1>4, WhenFailed DEF ReadCredentials
  <2>2. ASSUME t \notin doubt PROVE Count(t)'
    <3>1. t \notin chosen /\ work'[w].op # "quota" /\ Same(w)
      BY <1>2, <1>4, <2>1, NoTargets DEF Leaves, Follows
    <3> QED
      BY <1>1, <1>3, <2>2, <3>1, CountStays
  <2> QED
    BY <1>1, <2>1, <2>2, AtRest, AtStep DEF Leaves
<1>5. CASE Present
  <2> DEFINE r == [work[w] EXCEPT !.key = ext.key]
             pc == IF work[w].task = "over" THEN "oust" ELSE "add"
             s == [r EXCEPT !.pc = pc]
  <2>1. work' = [work EXCEPT ![w].key = ext.key, ![w].pc = pc]
    BY <1>5 DEF ReadCredentials
  <2>2. ext.key \in Nat /\ work[w] \in Row(ext.key) /\ work \in [Workers -> Row(ext.key)] /\ ext.key \in 0..ext.key
    BY Basics DEF IInv
  <2>3. work' = [work EXCEPT ![w] = s]
    BY <2>1, <2>2
  <2>4. /\ s \in Row(ext.key) /\ s.op = work[w].op /\ s.todo = work[w].todo /\ s.tag = work[w].tag
        /\ s.task = work[w].task /\ s.pc = pc /\ s.key = ext.key
    <3>1. /\ r \in Row(ext.key) /\ r.op = work[w].op /\ r.todo = work[w].todo /\ r.tag = work[w].tag
          /\ r.task = work[w].task /\ r.key = ext.key
      BY <2>2, SetKey
    <3>2. pc \in Pcs
      BY DEF Pcs
    <3> HIDE DEF r, pc
    <3> QED
      BY <2>2, <3>1, <3>2, SetPc
  <2> HIDE DEF s
  <2>5. work'[w] = s /\ Same(w) /\ work' \in [Workers -> Row(ext.key)]
    BY <2>2, <2>3, <2>4 DEF Same
  <2>6. pc \notin Between /\ Stands(pc, s.task)
    BY <1>2, <2>4 DEF Between, Stands
  <2>7. Place(s)
    BY <1>1, <2>4, <2>6, Standing DEF Place, Between
  <2>8. Follows(w, t)
    BY <1>1, <2>4, <2>5, <2>6, <2>7, Standing DEF Follows, At, Between
  <2>9. ASSUME t \notin doubt PROVE Count(t)' /\ Face(w, t)'
    <3>1. Repairs(w, t) => Repairs(w, t)'
      BY <2>4, <2>5 DEF Repairs
    <3>2. Count(t)'
      BY <1>1, <1>2, <1>3, <2>4, <2>5, <2>9, <3>1, CountStays
    <3>3. Wanted(w, t)'
      BY <1>1, <1>2, <1>3, <2>4, <2>5, <2>9 DEF Wanted, TaskAt, Emptied, Cleared, Present, At, Frame
    <3>4. Served(w)'
      BY <1>1, <1>3, <2>4, <2>5, <2>9 DEF Served, At, Frame
    <3> QED
      BY <3>2, <3>3, <3>4 DEF Face
  <2> QED
    BY <1>1, <1>2, <2>4, <2>5, <2>8, <2>9, AtRest, AtStep
<1> QED
  BY <1>4, <1>5

LEMMA StepOust ==
  ASSUME ExtAssumption, IInv, NEW w \in Workers, NEW t \in Tags, t = At(w), Oust(w)
  PROVE  IInv'
<1> DEFINE pc == "add"
<1>1. /\ work[w].pc = "oust" /\ work[w].pc \notin Between
      /\ Frame /\ rows' = rows /\ To(w, pc)
  BY DEF Oust, db, Frame, Between
<1>2. /\ work[w].task = "over" /\ t \notin DOMAIN work[w].todo
      /\ TaskAt(w, t) = work[w].task /\ work[w].op = "create"
  BY <1>1, Standing DEF Stands, Fits
<1>3. pc \in Pcs \ Between /\ Stands(pc, work[w].task)
  BY <1>2 DEF Pcs, Between, Stands, Adding
<1>4. /\ work' \in [Workers -> Row(ext.key)] /\ Same(w)
      /\ work'[w].op = work[w].op /\ work'[w].todo = work[w].todo
      /\ work'[w].tag = work[w].tag /\ work'[w].task = work[w].task
      /\ work'[w].pc = pc /\ work'[w].key = work[w].key
      /\ Follows(w, At(w))
  BY <1>1, <1>3, ToPc
<1>5. /\ doubt' \subseteq doubt \cup {t} /\ doubt \subseteq doubt'
      /\ server' \in [Tags -> 0..MaxKeys] /\ \A u \in Tags \ {t} : server'[u] = server[u]
      /\ faults' \in 0..MaxFaults
      /\ t \notin doubt' => t \notin doubt /\ server'[t] = 0
  <2>1. CASE server' = [server EXCEPT ![t] = 0] /\ UNCHANGED <<doubt, faults>>
    BY <2>1, AtRest
  <2>2. CASE faults < MaxFaults /\ faults' = faults + 1 /\ UNCHANGED server /\ doubt' = doubt \cup {t}
    BY <2>2, AtRest
  <2> QED
    BY <2>1, <2>2 DEF Oust, At
<1>6. ASSUME t \notin doubt' PROVE Count(t)' /\ Face(w, t)'
  <2>1. Wanted(w, t) /\ Count(t) /\ Served(w) /\ server'[t] = 0
    BY <1>1, <1>2, <1>5, <1>6, Facing
  <2>2. mode' = mode /\ ext' = ext /\ chosen' = chosen /\ (Present' <=> Present)
    BY <1>1 DEF Frame, Present
  <2>3. rows[t] # "synced" /\ (t \in chosen => rows[t] # "none")
    BY <1>2, <2>1, NoTargets DEF Wanted, Adding
  <2>4. Count(t)'
    BY <1>1, <2>1, <2>2, <2>3 DEF Count
  <2>5. Wanted(w, t)'
    BY <1>1, <1>2, <1>4, <2>1 DEF Wanted, TaskAt, Emptied, Cleared, Present, At, Frame
  <2>6. Served(w)'
    BY <1>1, <1>2, <1>4, <2>1, <2>2 DEF Served, At
  <2> QED
    BY <2>4, <2>5, <2>6 DEF Face
<1> QED
  BY <1>1, <1>2, <1>4, <1>5, <1>6, AtRest, AtStep

(* What stands on the server where an operation is about to add.           *)
LEMMA Vacant ==
  ASSUME ExtAssumption, IInv, KeyInv, NEW w \in Workers, NEW t \in Tags, t = At(w), work[w].pc = "add",
         work[w].op # "clear", t \notin doubt, Present
  PROVE  server[t] \in {0, ext.key}
<1>1. /\ At(w) \in Faces(w) /\ t \notin DOMAIN work[w].todo
  BY Standing DEF Between
<1>2. \A v \in Workers \ {w} : work[v].op \in {"none", "clear"}
  BY <1>1, Alone
<1>3. ASSUME NEW v \in Workers, Renews(v, t) PROVE FALSE
  <2>1. v # w
    BY <1>1, <1>3 DEF Renews
  <2>2. Place(work[v])
    BY DEF IInv, PlaceInv
  <2>3. work[v].op # "none"
    BY <1>3, <2>2, NothingToDo DEF Renews, ExtAssumption
  <2>4. work[v].op = "clear"
    BY <1>2, <2>1, <2>3
  <2> QED
    BY <1>3, <2>2, <2>4 DEF Renews, Place, Fits, Between
<1> QED
  BY <1>3 DEF KeyInv, Keyed

LEMMA StepAddUser ==
  ASSUME ExtAssumption, IInv, KeyInv, NEW w \in Workers, NEW t \in Tags, t = At(w), AddUser(w)
  PROVE  IInv'
<1> DEFINE key == work[w].key
           added == [server EXCEPT ![t] = IF @ = 0 THEN key ELSE @]
<1>1. /\ work[w].pc = "add" /\ work[w].pc \notin Between
      /\ Frame /\ rows' = rows
  BY DEF AddUser, db, Frame, Between
<1>2. /\ work[w].task \in Adding /\ Fits(work[w].op, work[w].task) /\ t \notin DOMAIN work[w].todo
      /\ TaskAt(w, t) = work[w].task /\ work[w].op \notin {"clear", "quota"}
  BY <1>1, Standing DEF Stands, Fits, Adding
<1>3. /\ added \in [Tags -> 0..MaxKeys] /\ \A u \in Tags \ {t} : added[u] = server[u]
      /\ added[t] = IF server[t] = 0 THEN key ELSE server[t]
  <2>1. ext.key \in Nat /\ ext.key \in 0..MaxKeys /\ work[w] \in Row(ext.key) /\ MaxKeys \in Nat
    BY Basics DEF IInv
  <2>2. key \in 0..ext.key
    BY <2>1, RowFields
  <2>3. key \in 0..MaxKeys
    BY <2>1, <2>2
  <2> QED
    BY <2>3, AtRest
<1> HIDE DEF added
<1>4. PICK pc \in {"look", "failed"} :
        /\ To(w, pc)
        /\ doubt' \subseteq doubt \cup {t} /\ doubt \subseteq doubt'
        /\ server' \in {server, added}
        /\ faults' \in 0..MaxFaults
        /\ t \notin doubt' => pc = "look" /\ server' = added
  <2>1. CASE server' = added /\ To(w, "look") /\ UNCHANGED <<doubt, faults>>
    BY <2>1, AtRest
  <2>2. CASE /\ faults < MaxFaults /\ faults' = faults + 1
             /\ server' \in {server, added}
             /\ doubt' = doubt \cup {t} /\ To(w, "failed")
    BY <2>2, AtRest
  <2> QED
    BY <2>1, <2>2 DEF AddUser, At, added
<1>5. pc \in Pcs \ Between /\ Stands(pc, work[w].task)
  BY <1>2, <1>4 DEF Pcs, Between, Stands, Adding
<1>6. /\ work' \in [Workers -> Row(ext.key)] /\ Same(w)
      /\ work'[w].op = work[w].op /\ work'[w].todo = work[w].todo
      /\ work'[w].tag = work[w].tag /\ work'[w].task = work[w].task
      /\ work'[w].pc = pc /\ work'[w].key = work[w].key
      /\ Follows(w, At(w))
  BY <1>1, <1>4, <1>5, ToPc
<1>7. ASSUME t \notin doubt' PROVE Count(t)' /\ Face(w, t)'
  <2>1. /\ Wanted(w, t) /\ Count(t) /\ Served(w) /\ key = ext.key
        /\ \A v \in Workers \ {w} : work[v].op # "quota"
    <3>1. Wanted(w, t) /\ Count(t) /\ Served(w) /\ \A v \in Workers \ {w} : work[v].op # "quota"
      BY <1>1, <1>2, <1>4, <1>7, Facing
    <3> QED
      BY <1>1, <3>1 DEF Served
  <2>2. mode' = mode /\ ext' = ext /\ chosen' = chosen /\ (Present' <=> Present)
    BY <1>1 DEF Frame, Present
  <2>3. pc = "look" /\ server'[t] = IF server[t] = 0 THEN ext.key ELSE server[t]
    BY <1>3, <1>4, <1>7, <2>1
  <2>4. Present => server'[t] = ext.key
    BY <1>1, <1>2, <1>4, <1>7, <2>3, Vacant
  <2>5. Wanted(w, t)'
    BY <1>1, <1>2, <1>4, <1>6, <2>1 DEF Wanted, TaskAt, Emptied, Cleared, Present, At, Frame
  <2>6. Served(w)'
    BY <1>1, <1>2, <1>6, <2>1, <2>2, <2>3, <2>4 DEF Served, At
  <2>7. ~Withdraws(w, t) /\ ~Rewrites(w, t) /\ (Repairs(w, t) => Repairs(w, t)')
    BY <1>1, <1>2, <1>6 DEF Withdraws, Rewrites, Repairs, At
  <2>8. \A v \in Workers : work'[v].op # "quota"
    BY <1>2, <1>6, <2>1 DEF Same
  <2>9. CASE server'[t] = server[t]
    <3>1. Count(t) /\ Same(w) /\ Frame /\ rows'[t] = rows[t] /\ work'[w].op # "quota"
      BY <1>1, <1>6, <2>1, <2>8
    <3>2. Count(t)'
      BY <2>7, <2>9, <3>1, CountStays
    <3> QED
      BY <2>5, <2>6, <3>2 DEF Face
  <2>10. CASE server[t] = 0 /\ server'[t] = ext.key
    <3>1. server'[t] # 0 => (Present /\ rows[t] \in Kept) \/ Withdraws(w, t)'
      <4>1. CASE ~Present
        BY <1>2, <1>6, <2>1, <2>2, <2>3, <4>1 DEF Wanted, Cleared, Withdraws, At
      <4>2. CASE Present /\ work[w].task = "repair"
        BY <1>6, <2>2, <2>3, <4>2 DEF Withdraws, At
      <4>3. CASE Present /\ work[w].task # "repair"
        BY <1>2, <2>1, <4>3 DEF Wanted
      <4> QED
        BY <4>1, <4>2, <4>3
    <3>2. t \in chosen => rows[t] # "none" \/ \E v \in Workers : Repairs(v, t)'
      BY <1>6, <2>1, <2>2, <2>7, OtherShares DEF Count
    <3>3. ~(Present /\ ext.exceeded)
      BY <1>1, <1>2, <2>1 DEF Wanted, Adding, At
    <3> QED
      BY <1>1, <2>1, <2>2, <2>5, <2>6, <2>8, <2>10, <3>1, <3>2, <3>3 DEF Count, Face
  <2> QED
    BY <2>3, <2>9, <2>10
<1>8. /\ server' \in [Tags -> 0..MaxKeys] /\ \A u \in Tags \ {t} : server'[u] = server[u]
  BY <1>3, <1>4, AtRest
<1> QED
  BY <1>1, <1>2, <1>4, <1>6, <1>7, <1>8, AtRest, AtStep

LEMMA StepLook ==
  ASSUME ExtAssumption, IInv, NEW w \in Workers, NEW t \in Tags, t = At(w), Look(w)
  PROVE  IInv'
<1> DEFINE pc == IF mode THEN "synced" ELSE "undo"
<1>1. /\ work[w].pc = "look" /\ work[w].pc \notin Between /\ Frame /\ To(w, pc)
      /\ rows' = rows /\ server' = server /\ doubt' = doubt /\ faults' = faults
  BY DEF Look, db, Frame, Between
<1>2. /\ work[w].task \in Adding /\ Fits(work[w].op, work[w].task) /\ t \notin DOMAIN work[w].todo
      /\ TaskAt(w, t) = work[w].task /\ work[w].op \notin {"clear", "quota"}
  BY <1>1, Standing DEF Stands, Fits, Adding
<1>3. pc \in Pcs \ Between /\ Stands(pc, work[w].task) /\ (pc = "synced" <=> mode) /\ pc \in {"synced", "undo"}
  BY <1>2 DEF Pcs, Between, Stands
<1> HIDE DEF pc
<1>4. /\ work' \in [Workers -> Row(ext.key)] /\ Same(w)
      /\ work'[w].op = work[w].op /\ work'[w].todo = work[w].todo
      /\ work'[w].tag = work[w].tag /\ work'[w].task = work[w].task
      /\ work'[w].pc = pc /\ work'[w].key = work[w].key
      /\ Follows(w, At(w))
  BY <1>1, <1>3, ToPc
<1>5. ASSUME t \notin doubt PROVE Count(t)' /\ Face(w, t)'
  <2>1. Wanted(w, t) /\ Count(t) /\ Served(w)
    BY <1>1, <1>2, <1>5, Facing
  <2>2. mode' = mode /\ ext' = ext /\ (Present' <=> Present)
    BY <1>1 DEF Frame, Present
  <2>3. Wanted(w, t)'
    BY <1>1, <1>2, <1>3, <1>4, <2>1 DEF Wanted, TaskAt, Emptied, Cleared, Present, At, Frame
  <2>4. Served(w)'
    BY <1>1, <1>2, <1>3, <1>4, <2>1, <2>2 DEF Served, At
  <2>5. Withdraws(w, t) => Withdraws(w, t)'
    BY <1>1, <1>2, <1>3, <1>4, <2>2 DEF Withdraws, At
  <2>6. ~Rewrites(w, t) /\ (Repairs(w, t) => Repairs(w, t)')
    BY <1>1, <1>4 DEF Rewrites, Repairs, At
  <2> QED
    BY <1>1, <1>2, <1>4, <2>1, <2>3, <2>4, <2>5, <2>6, CountStays DEF Face
<1> QED
  BY <1>1, <1>2, <1>4, <1>5, AtRest, AtStep

LEMMA StepUndo ==
  ASSUME ExtAssumption, IInv, NEW w \in Workers, NEW t \in Tags, t = At(w), Undo(w)
  PROVE  IInv'
<1>1. /\ work[w].pc = "undo" /\ work[w].pc \notin Between /\ Frame /\ rows' = rows /\ To(w, "failed")
  BY DEF Undo, db, Frame, Between
<1>2. /\ work[w].task \in Adding /\ Fits(work[w].op, work[w].task) /\ t \notin DOMAIN work[w].todo
      /\ TaskAt(w, t) = work[w].task /\ work[w].op \notin {"clear", "quota"}
  BY <1>1, Standing DEF Stands, Fits, Adding
<1>3. "failed" \in Pcs \ Between /\ Stands("failed", work[w].task)
  BY <1>2 DEF Pcs, Between, Stands
<1>4. /\ work' \in [Workers -> Row(ext.key)] /\ Same(w)
      /\ work'[w].op = work[w].op /\ work'[w].todo = work[w].todo
      /\ work'[w].tag = work[w].tag /\ work'[w].task = work[w].task
      /\ work'[w].pc = "failed" /\ work'[w].key = work[w].key
      /\ Follows(w, At(w))
  BY <1>1, <1>3, ToPc
<1>5. /\ doubt' \subseteq doubt \cup {t} /\ doubt \subseteq doubt'
      /\ server' \in [Tags -> 0..MaxKeys] /\ \A u \in Tags \ {t} : server'[u] = server[u]
      /\ faults' \in 0..MaxFaults
      /\ t \notin doubt' => t \notin doubt /\ server'[t] = 0
  <2>1. CASE server' = [server EXCEPT ![t] = 0] /\ UNCHANGED <<doubt, faults>>
    BY <2>1, AtRest
  <2>2. CASE faults < MaxFaults /\ faults' = faults + 1 /\ UNCHANGED server /\ doubt' = doubt \cup {t}
    BY <2>2, AtRest
  <2> QED
    BY <2>1, <2>2 DEF Undo, At
<1>6. ASSUME t \notin doubt' PROVE Count(t)' /\ Face(w, t)'
  <2>1. Wanted(w, t) /\ Count(t) /\ server'[t] = 0
    BY <1>1, <1>2, <1>5, <1>6, Facing
  <2>2. mode' = mode /\ ext' = ext /\ chosen' = chosen /\ (Present' <=> Present)
    BY <1>1 DEF Frame, Present
  <2>3. Rewrites(w, t)' /\ (Repairs(w, t) => Repairs(w, t)')
    BY <1>4 DEF Rewrites, Repairs, At
  <2>4. t \in chosen => rows[t] # "none" \/ \E v \in Workers : Repairs(v, t)'
    BY <1>4, <2>1, <2>2, <2>3, OtherShares DEF Count
  <2>5. Count(t)'
    BY <1>1, <2>1, <2>2, <2>3, <2>4 DEF Count
  <2>6. Wanted(w, t)'
    BY <1>1, <1>2, <1>4, <2>1 DEF Wanted, TaskAt, Emptied, Cleared, Present, At, Frame
  <2>7. Served(w)'
    BY <1>4, <2>1 DEF Served, At
  <2> QED
    BY <2>5, <2>6, <2>7 DEF Face
<1> QED
  BY <1>1, <1>2, <1>4, <1>5, <1>6, AtRest, AtStep

(* The result is written back, and a renewal may end a doubt.              *)
LEMMA StepPushed ==
  ASSUME ExtAssumption, IInv, NEW w \in Workers, NEW t \in Tags, t = At(w), Pushed(w)
  PROVE  IInv'
<1>1. /\ work[w].pc \in {"synced", "failed"} /\ work[w].pc \notin Between
      /\ Frame /\ server' = server /\ faults' = faults /\ Mark(t, work[w].pc)
  BY DEF Pushed, Frame, Between, At
<1>2. /\ work[w].task \in Adding /\ Fits(work[w].op, work[w].task) /\ t \notin DOMAIN work[w].todo
      /\ TaskAt(w, t) = work[w].task /\ work[w].op \notin {"clear", "quota"}
  BY <1>1, Standing DEF Stands, Fits, Adding
<1>3. Leaves(w)
  BY <1>1, WhenFailed, WhenDone DEF Pushed
<1>4. /\ rows' \in Rows /\ \A u \in Tags \ {t} : rows'[u] = rows[u]
      /\ rows'[t] = IF Present /\ instance THEN work[w].pc ELSE rows[t]
      /\ \A u \in Tags : rows'[u] # "none" => Present /\ instance
  BY <1>1, Marked, AtRest
<1>5. CASE /\ work[w].pc = "synced" /\ t \in chosen
           /\ doubt' = Settled(w, ext.key) /\ t \in doubt /\ t \notin doubt'
  <2>1. /\ server[t] = ext.key /\ ~ext.exceeded
        /\ \A v \in Workers \ {w} : t \notin Faces(v) /\ work[v].op # "quota"
    BY <1>5, Resolved
  <2>2. Present /\ instance
    BY <1>5, NoTargets
  <2>3. Count(t)'
    <3>1. mode' = mode /\ ext' = ext /\ chosen' = chosen /\ (Present' <=> Present)
      BY <1>1 DEF Frame, Present
    <3>2. \A v \in Workers : work'[v].op # "quota"
      BY <1>2, <1>3, <2>1 DEF Leaves, Follows, Same
    <3> QED
      BY <1>1, <1>4, <1>5, <2>1, <2>2, <3>1, <3>2 DEF Count, Kept
  <2>4. doubt' \subseteq doubt \cup {t} /\ doubt \subseteq doubt' \cup {t}
    BY <1>5, Settling
  <2> QED
    BY <1>1, <1>2, <1>3, <1>4, <1>5, <2>1, <2>3, <2>4, AtRest, AtStep DEF Leaves
<1>6. CASE doubt \subseteq doubt' /\ doubt' \subseteq Tags
  <2>1. ASSUME t \notin doubt' PROVE Count(t)'
    <3>1. Wanted(w, t) /\ Count(t) /\ Served(w)
      BY <1>1, <1>2, <1>6, <2>1, Facing
    <3>2. work'[w].op # "quota" /\ Same(w)
      BY <1>2, <1>3 DEF Leaves, Follows
    <3>3. CASE Present
      <4>1. instance /\ t \in chosen /\ rows'[t] = work[w].pc
        BY <1>2, <1>4, <3>1, <3>3 DEF Wanted, Cleared
      <4>2. work[w].pc = "synced" => server[t] = ext.key
        BY <3>1, <3>3 DEF Served, At
      <4>3. mode' = mode /\ ext' = ext /\ chosen' = chosen /\ (Present' <=> Present)
        BY <1>1 DEF Frame, Present
      <4>4. \A v \in Workers : work'[v].op = "quota" /\ Present /\ server[t] # 0 => Exhausts(v, t)'
        BY <3>1, <3>2, <4>3, OtherShares DEF Count, Same
      <4> QED
        BY <1>1, <3>1, <3>3, <4>1, <4>2, <4>3, <4>4 DEF Count, Kept
    <3>4. CASE ~Present
      <4>1. rows[t] = "none" /\ t \notin chosen /\ rows'[t] = rows[t]
        BY <1>4, <3>4, NoTargets
      <4>2. ~Withdraws(w, t)
        BY <1>1, <1>2, <3>4 DEF Withdraws, Adding
      <4> QED
        BY <1>1, <3>1, <3>2, <4>1, <4>2, CountStays
    <3> QED
      BY <3>3, <3>4
  <2> QED
    BY <1>1, <1>2, <1>3, <1>4, <1>6, <2>1, AtRest, AtStep DEF Leaves
<1>7. \/ doubt \subseteq doubt' /\ doubt' \subseteq Tags
      \/ (/\ work[w].pc = "synced" /\ t \in chosen
          /\ doubt' = Settled(w, ext.key) /\ t \in doubt /\ t \notin doubt')
  <2>1. CASE doubt' = Settled(w, ext.key) /\ work[w].pc = "synced" /\ t \in chosen
    BY <2>1, Settling, AtRest
  <2>2. CASE doubt' = doubt \/ doubt' = doubt \cup Skipped(w)
    BY <2>2, AtRest, SkippedTags
  <2> QED
    BY <1>1, <2>1, <2>2 DEF Pushed, At
<1> QED
  BY <1>5, <1>6, <1>7

(* The next inbound is taken up, or given up for want of an instance.      *)
LEMMA StepPick ==
  ASSUME ExtAssumption, IInv, NEW w \in Workers, NEW t \in Tags, Pick(w, t)
  PROVE  IInv'
<1> DEFINE task == work[w].todo[t]
           rest == [u \in DOMAIN work[w].todo \ {t} |-> work[w].todo[u]]
           first == IF task \in {"gated", "repair"} THEN "gate"
                    ELSE IF task \in {"push", "over"} THEN "read" ELSE "remove"
<1>1. /\ work[w].pc = "next" /\ t \in DOMAIN work[w].todo
      /\ work[w].op = "update" /\ task # "drop" => \A u \in DOMAIN rest : rest[u] # "drop"
      /\ Frame /\ rows' = rows /\ server' = server /\ doubt' = doubt /\ faults' = faults
  BY DEF Pick, db, Frame
<1>2. /\ TypeOK /\ ext.key \in Nat /\ work[w] \in Row(ext.key) /\ work \in [Workers -> Row(ext.key)]
      /\ work[w].todo \in TaskLists /\ t # "none"
  BY Basics DEF IInv
<1>3. /\ Place(work[w]) /\ work[w].tag = "none" /\ work[w].op # "none"
      /\ Fits(work[w].op, task) /\ \A u \in DOMAIN work[w].todo : Fits(work[w].op, work[w].todo[u])
  BY <1>1 DEF IInv, PlaceInv, Place, Between
<1>4. /\ task \in Tasks /\ rest \in TaskLists /\ DOMAIN rest = DOMAIN work[w].todo \ {t}
      /\ \A u \in DOMAIN rest : rest[u] = work[w].todo[u]
  <2>1. DOMAIN work[w].todo \subseteq Tags /\ work[w].todo \in [DOMAIN work[w].todo -> Tasks]
    BY <1>2, ListOf
  <2>2. rest \in [DOMAIN work[w].todo \ {t} -> Tasks]
    BY <2>1
  <2> QED
    BY <1>1, <2>1, <2>2, Listed
<1> HIDE DEF rest
<1>5. t \notin doubt /\ work[w].op # "clear" => Wanted(w, t) /\ TaskAt(w, t) = task
  <2>1. t \in Faces(w)
    BY <1>1 DEF Faces
  <2>2. t \notin doubt /\ work[w].op # "clear" => Face(w, t)
    BY <2>1 DEF IInv, FaceInv
  <2> QED
    BY <1>2, <1>3, <2>2 DEF Face, TaskAt
<1>6. t \notin doubt => Count(t)
  BY DEF IInv, CountInv
<1>7. CASE instance \/ task = "wipe"
  <2> DEFINE a == [work[w] EXCEPT !.todo = rest]
             b == [a EXCEPT !.tag = t]
             c == [b EXCEPT !.task = task]
             s == [c EXCEPT !.pc = first]
  <2>1. work' = [work EXCEPT ![w] = s]
    BY <1>2, <1>7 DEF Pick, rest
  <2>2. /\ first \in Pcs \ Between /\ Stands(first, task)
        /\ first \in {"gate", "read", "remove"}
        /\ task \in {"gated", "repair"} => first = "gate"
        /\ task \in {"drop", "wipe", "quota"} => first = "remove"
    BY <1>4 DEF Pcs, Between, Stands, Removing, Adding, Tasks
  <2>3. /\ s \in Row(ext.key) /\ s.op = work[w].op /\ s.todo = rest /\ s.tag = t
        /\ s.task = task /\ s.pc = first
    <3>1. a \in Row(ext.key) /\ a.todo = rest /\ a.op = work[w].op
      BY <1>2, <1>4, SetTodo
    <3> HIDE DEF a
    <3>2. b \in Row(ext.key) /\ b.todo = rest /\ b.op = work[w].op /\ b.tag = t
      BY <1>2, <3>1, SetTag
    <3> HIDE DEF b
    <3>3. c \in Row(ext.key) /\ c.todo = rest /\ c.op = work[w].op /\ c.tag = t /\ c.task = task
      BY <1>2, <1>4, <3>2, SetTask
    <3> HIDE DEF c, first, task
    <3> QED
      BY <1>2, <2>2, <3>3, SetPc
  <2> HIDE DEF s
  <2>4. work'[w] = s /\ Same(w) /\ work' \in [Workers -> Row(ext.key)]
    BY <1>2, <2>1, <2>3 DEF Same
  <2>5. Place(s)
    <3>1. task # "none"
      BY <1>4 DEF Tasks
    <3>2. s.op = "update" /\ s.task # "drop" => \A u \in DOMAIN s.todo : s.todo[u] # "drop"
      BY <1>1, <2>3
    <3>3. \A u \in DOMAIN s.todo : Fits(s.op, s.todo[u])
      BY <1>3, <1>4, <2>3
    <3> HIDE DEF task, first
    <3>4. s.pc \notin Between /\ s.op # "none" /\ Stands(s.pc, s.task) /\ Fits(s.op, s.task)
      BY <1>3, <2>2, <2>3
    <3>5. s.tag \in Tags /\ s.tag \notin DOMAIN s.todo /\ s.task # "none"
      BY <1>4, <2>3, <3>1
    <3> QED
      BY <3>2, <3>3, <3>4, <3>5 DEF Place, Between
  <2>6. Follows(w, t)
    BY <1>1, <1>3, <1>4, <2>2, <2>3, <2>4, <2>5 DEF Follows, Between
  <2>7. TypeOK'
    BY <1>1, <2>4, AtRest, WorkTyped
  <2>8. Near(w, t)
    BY <1>1, <2>4, <2>6 DEF Near, Frame, Same
  <2>9. ASSUME t \notin doubt PROVE Count(t)' /\ (work[w].op # "clear" => Face(w, t)')
    <3>1. /\ Withdraws(w, t) => Withdraws(w, t)'
          /\ ~Rewrites(w, t) /\ ~Repairs(w, t)
      BY <1>2, <1>3, <2>2, <2>3, <2>4 DEF Withdraws, Rewrites, Repairs
    <3>2. work'[w].op = "quota" => Exhausts(w, t)'
      <4>1. work[w].op = "quota" => task = "quota"
        BY <1>3 DEF Fits
      <4> HIDE DEF task, first
      <4> QED
        BY <2>2, <2>3, <2>4, <4>1 DEF Exhausts
    <3>3. Count(t)'
      BY <1>1, <1>6, <2>4, <2>9, <3>1, <3>2, CountStays
    <3>4. ASSUME work[w].op # "clear" PROVE Face(w, t)'
      <4>1. Wanted(w, t) /\ TaskAt(w, t) = task /\ ~Emptied(w, t)
        BY <1>2, <1>3, <1>5, <2>9, <3>4 DEF Emptied
      <4>2. TaskAt(w, t)' = task /\ (task = "repair" => ~Emptied(w, t)')
        BY <2>2, <2>3, <2>4 DEF TaskAt, Emptied
      <4>3. task \in {"gated", "repair"} => work'[w].pc = "gate"
        BY <2>2, <2>3, <2>4
      <4> HIDE DEF task, first
      <4>4. Wanted(w, t)'
        BY <1>1, <4>1, <4>2, <4>3 DEF Wanted, Cleared, Present, Frame
      <4>5. Served(w)'
        BY <2>2, <2>3, <2>4 DEF Served
      <4> QED
        BY <4>4, <4>5 DEF Face
    <3> QED
      BY <3>3, <3>4
  <2>10. Here(w, t)
    BY <1>1, <2>3, <2>4, <2>9 DEF Here
  <2> QED
    BY <2>7, <2>8, <2>10, NearStep
<1>8. CASE ~instance /\ task # "wipe"
  <2> DEFINE list == IF task = "renew" THEN NoTasks ELSE rest
             r == [work[w] EXCEPT !.todo = list]
             s == Onward(r)
  <2>1. work' = [work EXCEPT ![w] = s]
    BY <1>2, <1>8 DEF Pick, rest
  <2>2. /\ list \in TaskLists /\ t \notin DOMAIN list
        /\ \A u \in DOMAIN list : u \in DOMAIN work[w].todo /\ list[u] = work[w].todo[u]
        /\ \A u \in DOMAIN work[w].todo :
             work[w].todo[u] \in {"drop", "wipe", "quota"} /\ u # t => u \in DOMAIN list
    <3>1. CASE task = "renew"
      <4>1. work[w].op = "update"
        BY <1>3, <3>1 DEF Fits
      <4>2. \A u \in DOMAIN work[w].todo : u # t => work[w].todo[u] \notin {"drop", "wipe", "quota"}
        BY <1>1, <1>3, <1>4, <3>1, <4>1 DEF Fits
      <4> QED
        BY <3>1, <4>2, NoList
    <3>2. CASE task # "renew"
      BY <1>4, <3>2
    <3> QED
      BY <3>1, <3>2
  <2> HIDE DEF list
  <2>3. r \in Row(ext.key) /\ r.todo = list /\ r.op = work[w].op
    BY <1>2, <2>2, SetTodo
  <2> HIDE DEF r
  <2>4. \A u \in DOMAIN r.todo : Fits(r.op, r.todo[u])
    BY <1>3, <2>2, <2>3
  <2>5. s \in Row(ext.key) /\ Place(s) /\ Rested(r, s)
    BY <1>2, <1>3, <2>3, <2>4, OnwardRow
  <2> HIDE DEF s
  <2>6. work'[w] = s /\ Same(w) /\ work' \in [Workers -> Row(ext.key)]
    BY <1>2, <2>1, <2>5 DEF Same
  <2>7. Follows(w, t)
    BY <1>1, <1>3, <2>2, <2>3, <2>5, <2>6 DEF Follows, Rested
  <2>8. TypeOK'
    BY <1>1, <2>6, AtRest, WorkTyped
  <2>9. Near(w, t)
    BY <1>1, <2>6, <2>7 DEF Near, Frame, Same
  <2>10. t \notin Faces(w)'
    BY <1>2, <2>2, <2>3, <2>5, <2>6 DEF Faces, Rested
  <2>11. ASSUME t \notin doubt PROVE Count(t)'
    <3>1. rows[t] = "none" /\ t \notin chosen
      BY <1>8, NoTargets
    <3>2. work[w].op # "clear"
      BY <1>3, <1>8 DEF Fits
    <3>3. Wanted(w, t) /\ TaskAt(w, t) = task
      BY <1>5, <2>11, <3>2
    <3>4. ~Withdraws(w, t)
      BY <1>2, <1>3, <1>8, <3>3 DEF Wanted, Withdraws
    <3>5. work'[w].op = "quota" => ~Present
      <4>1. work'[w].op = "quota" => task = "quota"
        BY <1>3, <2>3, <2>5, <2>6 DEF Rested, Fits
      <4> QED
        BY <1>8, <3>3, <4>1 DEF Wanted, Cleared
    <3> QED
      BY <1>1, <1>6, <2>6, <2>11, <3>1, <3>4, <3>5, CountStays
  <2>12. Here(w, t)
    BY <1>1, <2>10, <2>11 DEF Here
  <2> QED
    BY <2>8, <2>9, <2>12, NearStep
<1> QED
  BY <1>7, <1>8

-----------------------------------------------------------------------------
(* The steps that are not at one inbound.                                  *)

(* Nothing the invariant is about changes, but for the types.              *)
LEMMA StepOutside ==
  ASSUME IInv, TypeOK', UNCHANGED <<mode, instance, ext, rows, server, work, chosen, doubt>>
  PROVE  IInv'
<1>1. PlaceInv'
  BY DEF IInv, PlaceInv
<1>2. LifeInv'
  BY DEF IInv, LifeInv, Present
<1>3. ApartInv'
  BY DEF IInv, ApartInv, Alive, Faces
<1>4. ASSUME NEW w \in Workers, NEW t PROVE (Face(w, t) => Face(w, t)') /\ Faces(w)' = Faces(w)
  BY DEF Face, Wanted, Served, TaskAt, Emptied, Cleared, Present, Faces
<1>5. FaceInv'
  BY <1>4 DEF IInv, FaceInv
<1>6. ASSUME NEW t PROVE Count(t) => Count(t)'
  <2>1. \A w \in Workers : /\ Withdraws(w, t)' <=> Withdraws(w, t)
                           /\ Repairs(w, t)' <=> Repairs(w, t)
                           /\ Rewrites(w, t)' <=> Rewrites(w, t)
                           /\ Exhausts(w, t)' <=> Exhausts(w, t)
    BY DEF Withdraws, Repairs, Rewrites, Exhausts, Present
  <2> QED
    BY <2>1 DEF Count, Present
<1>7. CountInv'
  BY <1>6 DEF IInv, CountInv
<1> QED
  BY <1>1, <1>2, <1>3, <1>5, <1>7 DEF IInv

LEMMA StepDetectNodes ==
  ASSUME ExtAssumption, IInv, NEW listed, DetectNodes(listed)
  PROVE  IInv'
<1>1. /\ UNCHANGED <<mode, instance, ext, rows, server, work, chosen, doubt>>
      /\ starts < MaxStarts /\ starts' = starts + 1 /\ faults' = faults
  BY DEF DetectNodes
<1>2. Table /\ History /\ Server /\ Work
  BY Parts DEF IInv
<1>3. node' \in [Tags -> {"unseen", "usable", "unusable"}]
  BY <1>2 DEF DetectNodes, Table
<1>4. starts' \in 0..MaxStarts
  BY <1>1, <1>2 DEF History, ExtAssumption
<1>5. Table' /\ History' /\ Server' /\ Work'
  BY <1>1, <1>2, <1>3, <1>4 DEF Table, History, Server, Work, Present
<1>6. TypeOK'
  BY <1>5 DEF TypeOK, Table, History, Server, Work, Rows, Row
<1> QED
  BY <1>1, <1>6, StepOutside

LEMMA StepRestart ==
  ASSUME ExtAssumption, IInv, Restart
  PROVE  IInv'
<1>1. /\ UNCHANGED <<mode, instance, node, ext, rows, server, chosen, starts>>
      /\ work' = [w \in Workers |-> Idle]
      /\ faults < MaxFaults /\ faults' = faults + 1
  BY DEF Restart, db
<1>2. /\ doubt \subseteq doubt'
      /\ \A w \in Workers : Faces(w) \subseteq doubt'
      /\ \A w \in Workers : work[w].pc \in {"collect", "flag"} => Tags \subseteq doubt'
      /\ doubt' \subseteq Tags
  <2>1. doubt' = doubt \cup UNION {Faces(w) \cup (IF work[w].pc \in {"collect", "flag"} THEN Tags ELSE {})
                                   : w \in Workers}
    BY DEF Restart
  <2>2. doubt \subseteq Tags /\ \A w \in Workers : Faces(w) \subseteq Tags
    BY AtRest, FacesOf
  <2> QED
    BY <2>1, <2>2
<1>3. \A w \in Workers : work'[w] = Idle
  BY <1>1
<1>4. TypeOK'
  <2>1. work' \in [Workers -> Row(ext.key)]
    BY <1>1, Basics, IdleRow DEF IInv
  <2> QED
    BY <1>1, <1>2, <2>1, AtRest, WorkTyped DEF Frame
<1>5. PlaceInv'
  BY <1>3, IdleRow DEF PlaceInv
<1>6. LifeInv'
  BY <1>1, <1>3, IdleRow DEF IInv, LifeInv, Present
<1>7. \A w \in Workers : ~Alive(w)' /\ Faces(w)' = {}
  BY <1>3, IdleRow DEF Alive, Faces
<1>8. ApartInv' /\ FaceInv'
  BY <1>7 DEF ApartInv, FaceInv
<1>9. CountInv'
  <2>1. SUFFICES ASSUME NEW t \in Tags, t \notin doubt' PROVE Count(t)'
    BY DEF CountInv
  <2>2. Count(t) /\ \A w \in Workers : t \notin Faces(w) /\ work[w].pc \notin {"collect", "flag"}
    BY <1>2, <2>1 DEF IInv, CountInv
  <2>3. \A w \in Workers : t # work[w].tag /\ t \notin DOMAIN work[w].todo
    BY <2>1, <2>2, FacesOf DEF IInv
  <2>4. \A w \in Workers : ~Withdraws(w, t) /\ ~Repairs(w, t) /\ ~Rewrites(w, t)
    BY <2>3 DEF Withdraws, Repairs, Rewrites
  <2>5. \A w \in Workers : work'[w].op # "quota"
    BY <1>3, IdleRow
  <2> QED
    BY <1>1, <2>2, <2>4, <2>5 DEF Count, Present
<1> QED
  BY <1>4, <1>5, <1>6, <1>8, <1>9 DEF IInv

(* The flag is raised: what is not in doubt has been removed, and who else *)
(* has something before him is in doubt.                                   *)
LEMMA StepRaiseFlag ==
  ASSUME ExtAssumption, IInv, NEW w \in Workers, RaiseFlag(w)
  PROVE  IInv'
<1>1. /\ UNCHANGED <<mode, instance, node, rows, chosen, server, doubt, starts, faults>>
      /\ work[w].pc = "flag" /\ ext' = [ext EXCEPT !.exceeded = Present]
      /\ work' = [work EXCEPT ![w] = Idle]
  BY DEF RaiseFlag
<1>2. Table /\ History /\ Server /\ Work
  BY Parts DEF IInv
<1>3. /\ ext'.life = ext.life /\ ext'.key = ext.key /\ ext'.exceeded = Present
      /\ ext' \in [life : {"none", "there", "gone"}, key : 0..MaxKeys, exceeded : BOOLEAN]
      /\ (Present' <=> Present)
  BY <1>1, <1>2 DEF Table, Present
<1>4. /\ work'[w] = Idle /\ Same(w) /\ work' \in [Workers -> Row(ext.key)]
  <2>1. ext.key \in Nat /\ work \in [Workers -> Row(ext.key)]
    BY Basics DEF IInv
  <2>2. Idle \in Row(ext.key)
    BY <2>1, IdleRow
  <2> QED
    BY <1>1, <2>1, <2>2 DEF Same
<1>5. /\ Place(work[w]) /\ work[w].op = "quota" /\ work[w].todo = NoTasks /\ work[w].tag = "none"
      /\ Alive(w) /\ DOMAIN work[w].todo = {}
  BY <1>1, NoList DEF IInv, PlaceInv, Place, Between, Alive
<1>6. Idle.op = "none" /\ Idle.pc = "idle" /\ Idle.tag = "none" /\ DOMAIN Idle.todo = {} /\ Place(Idle)
  BY IdleRow
<1>7. TypeOK'
  <2>1. Table' /\ History' /\ Server' /\ Work'
    BY <1>1, <1>2, <1>3, <1>4 DEF Table, History, Server, Work
  <2> QED
    BY <2>1 DEF TypeOK, Table, History, Server, Work, Rows, Row
<1>8. PlaceInv'
  BY <1>4, <1>6 DEF IInv, PlaceInv, Same
<1>9. LifeInv'
  BY <1>1, <1>3, <1>4, <1>6 DEF IInv, LifeInv, Same, Present
<1>10. \A v \in Workers : /\ Alive(v)' => v # w /\ Alive(v) /\ work'[v] = work[v]
                          /\ Faces(v)' = Faces(v)
  BY <1>4, <1>5, <1>6 DEF Alive, Same, Faces
<1>11. ApartInv'
  BY <1>1, <1>10 DEF IInv, ApartInv
<1>12. FaceInv'
  <2>1. SUFFICES ASSUME NEW v \in Workers, work'[v].op # "clear", NEW t \in Faces(v), t \notin doubt
                 PROVE  FALSE
    BY <1>1, <1>10 DEF FaceInv
  <2>2. v # w
    BY <1>5, <2>1 DEF Faces
  <2>3. work[v].op # "clear" /\ Alive(v)
    BY <1>4, <2>1, <2>2, AliveFaces DEF Same, IInv
  <2> QED
    BY <1>5, <2>1, <2>2, <2>3 DEF IInv, ApartInv
<1>13. CountInv'
  <2>1. SUFFICES ASSUME NEW t \in Tags, t \notin doubt PROVE Count(t)'
    BY <1>1 DEF CountInv
  <2>2. Count(t) /\ t # work[w].tag
    BY <1>5, <2>1 DEF IInv, CountInv, ExtAssumption
  <2>3. \A v \in Workers : /\ Withdraws(v, t) => Withdraws(v, t)'
                           /\ Repairs(v, t) => Repairs(v, t)'
                           /\ Rewrites(v, t) => Rewrites(v, t)'
    BY <1>1, <1>3, <1>4, <1>5, <2>2 DEF Withdraws, Repairs, Rewrites, Same
  <2>4. Present => server[t] = 0
    BY <1>5, <2>2 DEF Count, Exhausts
  <2> QED
    BY <1>1, <1>3, <2>2, <2>3, <2>4 DEF Count
<1> QED
  BY <1>7, <1>8, <1>9, <1>11, <1>12, <1>13 DEF IInv

(* The clearing after OFF takes the account and the instance away, and     *)
(* collects the inbounds it will clean.                                    *)
LEMMA StepOffClear ==
  ASSUME ExtAssumption, IInv, NEW w \in Workers, OffClear(w)
  PROVE  IInv'
<1> DEFINE old == {t \in Tags : rows[t] # "none"}
           list == All(old, "wipe")
           r == [work[w] EXCEPT !.todo = list]
           s == Onward(r)
<1>1. /\ work[w].pc = "collect" /\ work' = [work EXCEPT ![w] = Onward([@ EXCEPT !.todo = list])]
      /\ doubt' = doubt \cup {t \in Tags : rows[t] = "none" /\ \E v \in Others(w) : t \in Faces(v)}
      /\ ext' = [ext EXCEPT !.life = IF @ = "there" THEN "gone" ELSE @]
      /\ instance' = FALSE /\ node' = [t \in Tags |-> "unseen"]
      /\ rows' = [t \in Tags |-> "none"] /\ chosen' = {}
      /\ UNCHANGED <<mode, server, starts, faults>>
  BY DEF OffClear
<1>2. Table /\ History /\ Server /\ Work
  BY Parts DEF IInv
<1>3. /\ ext' \in [life : {"none", "there", "gone"}, key : 0..MaxKeys, exceeded : BOOLEAN]
      /\ ext'.key = ext.key /\ ext'.exceeded = ext.exceeded /\ ext'.life # "there"
      /\ ext'.life = "none" => ext.life = "none"
      /\ ~Present'
  BY <1>1, <1>2 DEF Table, Present
<1>4. /\ ext.key \in Nat /\ work[w] \in Row(ext.key) /\ work \in [Workers -> Row(ext.key)]
      /\ \A t \in Tags : rows[t] # "none" => Present
  BY Basics DEF IInv
<1>5. /\ Place(work[w]) /\ work[w].op = "clear" /\ work[w].todo = NoTasks /\ work[w].tag = "none"
      /\ Alive(w) /\ Faces(w) = {}
  BY <1>1, NoList DEF IInv, PlaceInv, Place, Between, Alive, Faces
<1>6. ~mode /\ \A v \in Workers \ {w} : work[v].op # "clear"
  BY <1>5 DEF IInv, LifeInv
<1>7. list \in TaskLists /\ DOMAIN list = old /\ \A t \in old : list[t] = "wipe"
  <2>1. list \in [old -> Tasks] /\ old \in SUBSET Tags
    BY DEF All, Tasks
  <2> QED
    BY <2>1, Listed DEF All
<1> HIDE DEF list
<1>8. work' = [work EXCEPT ![w] = s]
  BY <1>1, <1>4
<1>9. r \in Row(ext.key) /\ r.todo = list /\ r.op = "clear"
  BY <1>4, <1>5, <1>7, SetTodo
<1> HIDE DEF r
<1>10. s \in Row(ext.key) /\ Place(s) /\ Rested(r, s)
  <2>1. \A t \in DOMAIN r.todo : Fits(r.op, r.todo[t])
    BY <1>7, <1>9 DEF Fits
  <2> QED
    BY <1>4, <1>9, <2>1, OnwardRow
<1> HIDE DEF s
<1>11. /\ work'[w] = s /\ Same(w) /\ work' \in [Workers -> Row(ext.key)]
       /\ s.todo = list /\ s.tag = "none" /\ s.op \in {"clear", "none"} /\ s.pc # "collect"
  BY <1>4, <1>8, <1>9, <1>10 DEF Same, Rested
<1>12. TypeOK'
  <2>1. doubt' \subseteq Tags
    BY <1>1, <1>2 DEF History
  <2>2. Table' /\ History' /\ Server' /\ Work'
    BY <1>1, <1>2, <1>3, <1>11, <2>1 DEF Table, History, Server, Work, Rows
  <2> QED
    BY <2>2 DEF TypeOK, Table, History, Server, Work, Rows, Row
<1>13. PlaceInv'
  BY <1>10, <1>11 DEF IInv, PlaceInv, Same
<1>14. LifeInv'
  <2>1. \A v \in Workers : work'[v].op = "clear" => v = w
    BY <1>6, <1>11 DEF Same
  <2> QED
    BY <1>1, <1>3, <1>6, <1>11, <2>1 DEF IInv, LifeInv
<1>15. ApartInv'
  BY <1>1, <1>6, <1>10, <1>11 DEF IInv, ApartInv, Same, Alive, Faces, Place
<1>16. FaceInv'
  <2>1. SUFFICES ASSUME NEW v \in Workers, work'[v].op # "clear", NEW t \in Faces(v)', t \notin doubt'
                 PROVE  Face(v, t)'
    BY DEF FaceInv
  <2>2. CASE v = w
    <3>1. s.op = "none"
      BY <1>11, <2>1, <2>2
    <3>2. Faces(w)' = {}
      BY <1>10, <1>11, <3>1, NothingToDo DEF Faces
    <3> QED
      BY <2>1, <2>2, <3>2
  <2>3. CASE v # w
    <3>1. work'[v] = work[v] /\ t \in Faces(v) /\ work[v].op # "clear" /\ t \in Tags
      BY <1>11, <2>1, <2>3, FacesOf DEF Same, Faces, IInv
    <3>2. Alive(v) /\ t \notin doubt /\ rows[t] # "none"
      BY <1>1, <2>1, <2>3, <3>1, AliveFaces DEF IInv, Others
    <3>3. Face(v, t) /\ Present
      BY <1>4, <3>1, <3>2 DEF IInv, FaceInv
    <3>4. Wanted(v, t)'
      BY <1>1, <1>3, <1>6, <3>1, <3>2, <3>3 DEF Face, Wanted, TaskAt, Cleared
    <3>5. t = work[v].tag => Served(v)'
      BY <1>1, <1>3, <3>1, <3>3 DEF Face, Served
    <3> QED
      BY <3>1, <3>4, <3>5 DEF Face
  <2> QED
    BY <2>2, <2>3
<1>17. CountInv'
  <2>1. SUFFICES ASSUME NEW t \in Tags, t \notin doubt', server[t] # 0
                 PROVE  \E v \in Workers : Withdraws(v, t)'
    BY <1>1, <1>3 DEF CountInv, Count
  <2>2. Count(t)
    BY <1>1, <2>1 DEF IInv, CountInv
  <2>3. CASE rows[t] # "none"
    BY <1>7, <1>11, <2>3 DEF Withdraws
  <2>4. CASE rows[t] = "none"
    <3>1. PICK v \in Workers : Withdraws(v, t)
      BY <2>1, <2>2, <2>4 DEF Count, Kept
    <3>2. t \in Faces(v)
      BY <2>1, <3>1 DEF Withdraws, Faces, ExtAssumption
    <3>3. v # w /\ Alive(v)
      BY <1>5, <3>2, AliveFaces DEF IInv
    <3> QED
      BY <1>1, <2>1, <2>4, <3>2, <3>3 DEF Others
  <2> QED
    BY <2>3, <2>4
<1> QED
  BY <1>12, <1>13, <1>14, <1>15, <1>16, <1>17 DEF IInv

-----------------------------------------------------------------------------
(* The steps with which an operation begins.                               *)

(* Inbound t before an operation of worker w begins: nobody else has it    *)
(* before him, but perhaps the clearing.                                   *)
Untouched(w, t) ==
  /\ \A v \in Workers \ {w} : t \in Faces(v) => work[v].op = "clear"
  /\ Present => /\ server[t] # 0 => rows[t] \in Kept
                /\ rows[t] # "unremoved" /\ (rows[t] # "none" <=> t \in chosen)
                /\ rows[t] = "synced" => server[t] = ext.key
                /\ ext.exceeded => server[t] = 0
                /\ (\E v \in Workers : work[v].op = "quota") => server[t] = 0
  /\ ~Present /\ server[t] # 0 => \E v \in Workers \ {w} : Withdraws(v, t) /\ t \in Faces(v)

LEMMA WhenUntouched ==
  ASSUME ExtAssumption, IInv, NEW w \in Workers, work[w] = Idle, NEW t \in Tags, t \notin doubt,
         \A v \in Workers \ {w} : work[v].op # "clear" => t \notin Faces(v)
  PROVE  Untouched(w, t)
<1>1. Count(t)
  BY DEF IInv, CountInv
<1>2. t \notin Faces(w) /\ work[w].op # "quota"
  BY IdleRow, FacesOf DEF IInv, ExtAssumption
<1>3. \A v \in Workers : /\ t \in DOMAIN work[v].todo => t \in Faces(v)
                         /\ t = work[v].tag => t \in Faces(v)
  BY FacesOf DEF IInv
<1>4. \A v \in Workers : Withdraws(v, t) \/ Repairs(v, t) \/ Rewrites(v, t) \/ Exhausts(v, t) =>
                           v # w /\ t \in Faces(v) /\ work[v].op = "clear"
  BY <1>2, <1>3 DEF Withdraws, Repairs, Rewrites, Exhausts
<1>5. ASSUME NEW v \in Workers, work[v].op = "clear", t \in Faces(v) PROVE ~Present /\ ~Repairs(v, t)
  <2>1. Place(work[v])
    BY DEF IInv, PlaceInv
  <2>2. work[v].pc # "collect"
    BY <1>5, <2>1, NoList DEF Place, Between, Faces
  <2>3. ~Present
    BY <1>5, <2>2 DEF IInv, LifeInv
  <2>4. ~Repairs(v, t)
    BY <1>5, <2>1 DEF Repairs, Place, Fits, Between, ExtAssumption
  <2> QED
    BY <2>3, <2>4
<1>6. Present => \A v \in Workers : /\ ~Withdraws(v, t) /\ ~Repairs(v, t) /\ ~Rewrites(v, t)
                                    /\ ~Exhausts(v, t)
  BY <1>4, <1>5
<1> QED
  BY <1>1, <1>4, <1>6 DEF Count, Untouched

LEMMA Beginning ==
  ASSUME ExtAssumption, IInv, NEW w \in Workers, NEW op \in Ops \ {"none", "clear"},
         NEW todo \in TaskLists, \A t \in DOMAIN todo : Fits(op, todo[t]), Begin(w, op, todo)
  PROVE  /\ work' \in [Workers -> Row(ext.key)] /\ Same(w)
         /\ work'[w].todo = todo /\ work'[w].tag = "none" /\ work'[w].pc # "collect"
         /\ work'[w].op \in {op, "none"} /\ (op = "quota" => work'[w].op = "quota")
         /\ starts' \in 0..MaxStarts /\ faults' = faults
         /\ doubt \subseteq doubt' /\ doubt' \subseteq Tags
         /\ PlaceInv' /\ ApartInv'
         /\ \A t \in Tags \ doubt' : Untouched(w, t)
<1> DEFINE a == [Idle EXCEPT !.op = op]
           r == [a EXCEPT !.todo = todo]
           s == Onward(r)
           rivals == {v \in Workers : Alive(v) /\ Conflict(op, work[v].op)}
<1>1. /\ starts < MaxStarts /\ work[w] = Idle /\ starts' = starts + 1 /\ faults' = faults
      /\ doubt' = doubt \cup Together(op, DOMAIN todo)
      /\ work' = [work EXCEPT ![w] = s]
  BY DEF Begin
<1>2. TypeOK /\ ext.key \in Nat /\ work \in [Workers -> Row(ext.key)] /\ doubt \subseteq Tags
  BY Basics DEF IInv
<1>3. r \in Row(ext.key) /\ r.op = op /\ r.todo = todo
  <2>1. a \in Row(ext.key) /\ a.op = op
    BY <1>2, IdleRow, SetOp
  <2> HIDE DEF a
  <2> QED
    BY <1>2, <2>1, SetTodo
<1> HIDE DEF r
<1>4. s \in Row(ext.key) /\ Place(s) /\ Rested(r, s)
  BY <1>2, <1>3, OnwardRow
<1> HIDE DEF s
<1>5. /\ work'[w] = s /\ Same(w) /\ work' \in [Workers -> Row(ext.key)]
      /\ s.todo = todo /\ s.tag = "none" /\ s.pc # "collect"
      /\ s.op \in {op, "none"} /\ (op = "quota" => s.op = "quota")
  BY <1>1, <1>2, <1>3, <1>4 DEF Same, Rested
<1>6. starts' \in 0..MaxStarts
  BY <1>1, <1>2 DEF TypeOK, ExtAssumption
<1>7. \A v \in Workers : v \in rivals <=> Alive(v) /\ work[v].op # "clear"
  BY DEF Conflict
<1>8. Together(op, DOMAIN todo) =
        IF rivals = {} THEN {} ELSE DOMAIN todo \cup UNION {Faces(v) : v \in rivals}
  BY DEF Together
<1> HIDE DEF rivals
<1>9. doubt \subseteq doubt' /\ doubt' \subseteq Tags
  <2>1. DOMAIN todo \subseteq Tags /\ \A v \in Workers : Faces(v) \subseteq Tags
    BY <1>2, ListOf, FacesOf
  <2>2. rivals \subseteq Workers
    BY DEF rivals
  <2> QED
    BY <1>1, <1>2, <1>8, <2>1, <2>2
<1>10. \A v \in Workers : Alive(v) /\ work[v].op # "clear" =>
          Faces(v) \subseteq doubt' /\ DOMAIN todo \subseteq doubt'
  BY <1>1, <1>7, <1>8
<1>11. PlaceInv'
  BY <1>4, <1>5 DEF IInv, PlaceInv, Same
<1>12. ApartInv'
  <2>1. SUFFICES ASSUME NEW v \in Workers, NEW x \in Workers, v # x, Alive(v)', Alive(x)',
                        work'[v].op # "clear", work'[x].op # "clear"
                 PROVE  Faces(x)' \subseteq doubt'
    BY DEF ApartInv
  <2>2. CASE x = w
    <3>1. Alive(v) /\ work[v].op # "clear" /\ Faces(x)' = DOMAIN todo
      BY <1>5, <2>1, <2>2 DEF Same, Alive, Faces
    <3> QED
      BY <1>10, <3>1
  <2>3. CASE x # w
    <3>1. Alive(x) /\ work[x].op # "clear" /\ Faces(x)' = Faces(x)
      BY <1>5, <2>1, <2>3 DEF Same, Alive, Faces
    <3> QED
      BY <1>10, <3>1
  <2> QED
    BY <2>2, <2>3
<1>13. \A t \in Tags \ doubt' : Untouched(w, t)
  <2>1. SUFFICES ASSUME NEW t \in Tags, t \notin doubt' PROVE Untouched(w, t)
    OBVIOUS
  <2>2. \A v \in Workers \ {w} : work[v].op # "clear" => t \notin Faces(v)
    BY <1>10, <2>1, AliveFaces DEF IInv
  <2> QED
    BY <1>1, <1>9, <2>1, <2>2, WhenUntouched
<1> QED
  BY <1>1, <1>5, <1>6, <1>9, <1>11, <1>12, <1>13

LEMMA Begun ==
  ASSUME ExtAssumption, IInv, NEW w \in Workers, NEW op \in Ops \ {"none", "clear"},
         NEW todo \in TaskLists, \A t \in DOMAIN todo : Fits(op, todo[t]), Begin(w, op, todo),
         TypeOK', LifeInv',
         \A t \in Tags \ doubt' : Count(t)' /\ (t \in DOMAIN todo => Wanted(w, t)')
  PROVE  IInv'
<1>1. /\ Same(w) /\ work'[w].todo = todo /\ work'[w].tag = "none"
      /\ PlaceInv' /\ ApartInv' /\ \A t \in Tags \ doubt' : Untouched(w, t)
  BY Beginning
<1>2. CountInv'
  BY DEF CountInv
<1>3. FaceInv'
  <2>1. SUFFICES ASSUME NEW v \in Workers, work'[v].op # "clear", NEW t \in Faces(v)', t \notin doubt'
                 PROVE  Face(v, t)'
    BY DEF FaceInv
  <2>2. CASE v = w
    <3>1. t \in DOMAIN todo /\ t \in Tags /\ t # work'[w].tag
      BY <1>1, <2>1, <2>2, ListOf DEF Faces, ExtAssumption
    <3> QED
      BY <2>1, <2>2, <3>1 DEF Face
  <2>3. CASE v # w
    <3>1. t \in Faces(v) /\ work[v].op # "clear"
      BY <1>1, <2>1, <2>3 DEF Same, Faces
    <3>2. t \in Tags
      BY <3>1, FacesOf DEF IInv
    <3> QED
      BY <1>1, <2>1, <2>3, <3>1, <3>2 DEF Untouched
  <2> QED
    BY <2>2, <2>3
<1> QED
  BY <1>1, <1>2, <1>3 DEF IInv

(* The types after such a step.                                            *)
LEMMA BegunTyped ==
  ASSUME ExtAssumption, IInv,
         mode' \in BOOLEAN, instance' \in BOOLEAN,
         node' \in [Tags -> {"unseen", "usable", "unusable"}],
         ext' \in [life : {"none", "there", "gone"}, key : 0..MaxKeys, exceeded : BOOLEAN],
         ext'.key >= ext.key, server' = server, rows' \in Rows,
         \A t \in Tags : rows'[t] # "none" => Present' /\ instance',
         chosen' \subseteq Tags, doubt' \subseteq Tags,
         work' \in [Workers -> Row(ext.key)], starts' \in 0..MaxStarts, faults' = faults
  PROVE  TypeOK'
<1>1. Table /\ History /\ Server /\ Work /\ ext.key \in Nat /\ ext'.key \in Nat
  <2>1. Table /\ History /\ Server /\ Work /\ MaxKeys \in Nat
    BY Parts DEF IInv, ExtAssumption
  <2> QED
    BY <2>1 DEF Table
<1>2. Row(ext.key) \subseteq Row(ext'.key)
  <2>1. 0..ext.key \subseteq 0..ext'.key
    BY <1>1
  <2> QED
    BY <2>1 DEF Row
<1>3. Table' /\ History' /\ Server' /\ Work'
  BY <1>1, <1>2 DEF Table, History, Server, Work
<1> QED
  BY <1>3 DEF TypeOK, Table, History, Server, Work, Rows, Row

(* The account and the clearing, when another operation begins.            *)
LEMMA BegunLife ==
  ASSUME IInv, NEW w \in Workers, NEW op, op # "clear", Same(w), work'[w].op \in {op, "none"},
         mode' = mode, instance' => instance, mode \/ (Present' => Present),
         ext'.life = "none" => ext'.key = 0 /\ ~ext'.exceeded,
         chosen' # {} => Present' /\ instance',
         op = "uninstall" => ~instance'
  PROVE  LifeInv'
<1>1. \A v \in Workers : work'[v].op = "clear" => v # w /\ work'[v] = work[v] /\ work[v].op = "clear"
  BY DEF Same
<1>2. \A v \in Workers : work'[v].op = "clear" =>
        ~mode' /\ (work'[v].pc # "collect" => ~Present' /\ ~instance')
  BY <1>1 DEF IInv, LifeInv
<1>3. \A v, x \in Workers : work'[v].op = "clear" /\ work'[x].op = "clear" => v = x
  BY <1>1 DEF IInv, LifeInv
<1>4. \A v \in Workers : work'[v].op = "uninstall" => ~instance'
  BY DEF IInv, LifeInv, Same
<1> QED
  BY <1>2, <1>3, <1>4 DEF LifeInv

(* What an operation finds at an inbound it has just taken on.             *)
LEMMA BegunWanted ==
  ASSUME ExtAssumption, NEW w \in Workers, NEW t \in Tags, NEW task,
         work'[w].tag = "none", work'[w].todo[t] = task,
         task = "drop" => instance' /\ rows'[t] = "none" /\ t \notin chosen',
         task \in Adding \cup {"quota"} =>
           /\ Present' /\ instance' /\ t \in chosen' /\ rows'[t] \in Kept
           /\ task \in {"over", "renew"} => rows'[t] = "pending"
           /\ task \in {"push", "over", "renew"} => ~ext'.exceeded
           /\ task = "repair" => rows'[t] \in {"pending", "failed"}
  PROVE  Wanted(w, t)'
<1>1. t # work'[w].tag
  BY DEF ExtAssumption
<1>2. TaskAt(w, t)' = task /\ ~Emptied(w, t)'
  BY <1>1 DEF TaskAt, Emptied
<1> QED
  BY <1>1, <1>2 DEF Wanted

LEMMA AllTasks ==
  ASSUME NEW S \in SUBSET Tags, NEW task \in Tasks
  PROVE  All(S, task) \in TaskLists /\ DOMAIN All(S, task) = S /\ \A t \in S : All(S, task)[t] = task
<1>1. All(S, task) \in [S -> Tasks]
  BY DEF All
<1> QED
  BY <1>1, Listed DEF All

LEMMA StepCreateExt ==
  ASSUME ExtAssumption, IInv, NEW w \in Workers, NEW S \in SUBSET Tags, NEW generate \in BOOLEAN,
         NEW key \in {1, 2}, CreateExt(w, S, generate, key)
  PROVE  IInv'
<1> DEFINE task == IF generate THEN "over" ELSE "push"
           todo == All(S, task)
<1>1. /\ mode /\ ext.life = "none" /\ instance
      /\ ext' = [ext EXCEPT !.life = "there", !.key = key]
      /\ rows' = [t \in Tags |-> IF t \in S THEN "pending" ELSE "none"]
      /\ chosen' = S /\ Begin(w, "create", todo)
      /\ UNCHANGED <<mode, instance, node, server>>
  BY DEF CreateExt, Allowed
<1>2. Table /\ History /\ Server /\ Work
  BY Parts DEF IInv
<1>3. ext.key = 0 /\ ~ext.exceeded
  BY <1>1 DEF IInv, LifeInv
<1>4. /\ ext' \in [life : {"none", "there", "gone"}, key : 0..MaxKeys, exceeded : BOOLEAN]
      /\ ext'.key = key /\ ext'.life = "there" /\ ~ext'.exceeded /\ Present' /\ ~Present
      /\ key \in 0..MaxKeys /\ ext'.key >= ext.key
  <2> DEFINE there == [ext EXCEPT !.life = "there"]
  <2>1. key \in 0..MaxKeys /\ key >= ext.key
    BY <1>3 DEF ExtAssumption
  <2>2. /\ there \in [life : {"none", "there", "gone"}, key : 0..MaxKeys, exceeded : BOOLEAN]
        /\ there.life = "there" /\ there.exceeded = ext.exceeded
    BY <1>2 DEF Table
  <2>3. ext' = [there EXCEPT !.key = key]
    BY <1>1
  <2> HIDE DEF there
  <2> QED
    BY <1>1, <1>3, <2>1, <2>2, <2>3 DEF Present
<1>5. /\ "create" \in Ops \ {"none", "clear"} /\ todo \in TaskLists /\ DOMAIN todo = S
      /\ task \in {"over", "push"} /\ \A t \in S : todo[t] = task
      /\ \A t \in DOMAIN todo : Fits("create", todo[t])
  BY AllTasks DEF Ops, Tasks, Fits
<1> HIDE DEF todo, task
<1>6. /\ work' \in [Workers -> Row(ext.key)] /\ Same(w)
      /\ work'[w].todo = todo /\ work'[w].tag = "none"
      /\ work'[w].op \in {"create", "none"}
      /\ starts' \in 0..MaxStarts /\ faults' = faults /\ doubt' \subseteq Tags
      /\ \A t \in Tags \ doubt' : Untouched(w, t)
  BY <1>1, <1>5, Beginning
<1>7. TypeOK'
  <2>1. rows' \in Rows /\ mode' \in BOOLEAN /\ instance' \in BOOLEAN
    BY <1>1, <1>2 DEF Rows, Table
  <2>2. \A t \in Tags : rows'[t] # "none" => Present' /\ instance'
    BY <1>1, <1>4
  <2>3. node' \in [Tags -> {"unseen", "usable", "unusable"}] /\ server' = server /\ chosen' \subseteq Tags
    BY <1>1, <1>2 DEF Table
  <2> QED
    BY <1>4, <1>6, <2>1, <2>2, <2>3, BegunTyped
<1>8. LifeInv'
  BY <1>1, <1>4, <1>6, BegunLife
<1>9. ASSUME NEW t \in Tags, t \notin doubt' PROVE Count(t)' /\ (t \in S => Wanted(w, t)')
  <2>1. server[t] = 0
    <3>1. \A v \in Workers : work[v].op # "clear"
      BY <1>1 DEF IInv, LifeInv
    <3> QED
      BY <1>4, <1>6, <1>9, <3>1 DEF Untouched
  <2>2. rows'[t] = IF t \in S THEN "pending" ELSE "none"
    BY <1>1
  <2>3. Count(t)'
    BY <1>1, <1>4, <2>1, <2>2 DEF Count
  <2>4. t \in S => Wanted(w, t)'
    BY <1>1, <1>4, <1>5, <1>6, <2>2, BegunWanted DEF Kept
  <2> QED
    BY <2>3, <2>4
<1> QED
  BY <1>1, <1>5, <1>7, <1>8, <1>9, Begun

LEMMA StepUpdateExt ==
  ASSUME ExtAssumption, IInv, NEW w \in Workers, NEW S \in SUBSET Tags, NEW rekey \in BOOLEAN,
         UpdateExt(w, S, rekey)
  PROVE  IInv'
<1> DEFINE todo == UpdateTasks(S, rekey)
           old == {t \in Tags : rows[t] # "none"}
<1>1. /\ Present /\ instance
      /\ rekey => ext.key < MaxKeys
      /\ ext' = [ext EXCEPT !.key = IF rekey THEN @ + 1 ELSE @]
      /\ rows' = [t \in Tags |-> IF t \in S THEN "pending" ELSE "none"]
      /\ chosen' = S /\ Begin(w, "update", todo)
      /\ UNCHANGED <<mode, instance, node, server>>
  BY DEF UpdateExt, Allowed
<1>2. Table /\ History /\ Server /\ Work
  BY Parts DEF IInv
<1>3. /\ ext' \in [life : {"none", "there", "gone"}, key : 0..MaxKeys, exceeded : BOOLEAN]
      /\ ext'.life = ext.life /\ ext'.exceeded = ext.exceeded /\ Present'
      /\ ext'.key >= ext.key
  <2>1. MaxKeys \in Nat /\ ext.key \in 0..MaxKeys
    BY <1>2 DEF Table, ExtAssumption
  <2>2. CASE rekey
    <3>1. ext.key + 1 \in 0..MaxKeys /\ ext' = [ext EXCEPT !.key = ext.key + 1]
      BY <1>1, <1>2, <2>1, <2>2 DEF Table
    <3> QED
      BY <1>1, <1>2, <2>1, <3>1 DEF Table, Present
  <2>3. CASE ~rekey
    <3>1. ext' = ext
      BY <1>1, <1>2, <2>3 DEF Table
    <3> QED
      BY <1>1, <1>2, <2>1, <3>1 DEF Table, Present
  <2> QED
    BY <2>2, <2>3
<1>4. /\ todo \in TaskLists
      /\ \A t \in DOMAIN todo : todo[t] \in {"drop", "push", "renew"}
      /\ \A t \in DOMAIN todo : todo[t] = "drop" <=> t \notin S
      /\ \A t \in DOMAIN todo : t \in S => ~ext.exceeded
      /\ old \ S \subseteq DOMAIN todo
  <2> DEFINE pushed == IF ext.exceeded THEN {} ELSE S \ old
             renewed == IF ext.exceeded \/ ~rekey THEN {} ELSE S \cap old
             D == (old \ S) \cup pushed \cup renewed
             f == [t \in D |-> IF t \notin S THEN "drop" ELSE IF t \in pushed THEN "push" ELSE "renew"]
  <2>1. todo = f
    BY DEF UpdateTasks
  <2>2. D \in SUBSET Tags /\ \A t \in D : t \in S => ~ext.exceeded
    OBVIOUS
  <2> HIDE DEF pushed, D
  <2>3. /\ f \in [D -> Tasks] /\ \A t \in D : f[t] \in {"drop", "push", "renew"}
        /\ \A t \in D : f[t] = "drop" <=> t \notin S
    BY DEF Tasks
  <2>4. old \ S \subseteq D
    BY DEF D
  <2> HIDE DEF f, old
  <2>5. f \in TaskLists /\ DOMAIN f = D
    BY <2>2, <2>3, Listed
  <2> QED
    BY <2>1, <2>2, <2>3, <2>4, <2>5
<1> HIDE DEF todo
<1>5. "update" \in Ops \ {"none", "clear"} /\ \A t \in DOMAIN todo : Fits("update", todo[t])
  BY <1>4 DEF Ops, Fits
<1>6. /\ work' \in [Workers -> Row(ext.key)] /\ Same(w)
      /\ work'[w].todo = todo /\ work'[w].tag = "none"
      /\ work'[w].op \in {"update", "none"}
      /\ starts' \in 0..MaxStarts /\ faults' = faults /\ doubt' \subseteq Tags
      /\ \A t \in Tags \ doubt' : Untouched(w, t)
  BY <1>1, <1>4, <1>5, Beginning
<1>7. TypeOK'
  <2>1. rows' \in Rows /\ mode' \in BOOLEAN /\ instance' \in BOOLEAN
    BY <1>1, <1>2 DEF Rows, Table
  <2>2. \A t \in Tags : rows'[t] # "none" => Present' /\ instance'
    BY <1>1, <1>3
  <2>3. node' \in [Tags -> {"unseen", "usable", "unusable"}] /\ server' = server /\ chosen' \subseteq Tags
    BY <1>1, <1>2 DEF Table
  <2> QED
    BY <1>3, <1>6, <2>1, <2>2, <2>3, BegunTyped
<1>8. LifeInv'
  <2>1. ext'.life # "none"
    BY <1>3 DEF Present
  <2> QED
    BY <1>1, <1>3, <1>6, <2>1, BegunLife
<1>9. ASSUME NEW t \in Tags, t \notin doubt' PROVE Count(t)' /\ (t \in DOMAIN todo => Wanted(w, t)')
  <2>1. /\ server[t] # 0 => rows[t] \in Kept
        /\ ext.exceeded => server[t] = 0
        /\ (\E v \in Workers : work[v].op = "quota") => server[t] = 0
    BY <1>1, <1>6, <1>9 DEF Untouched
  <2>2. rows'[t] = IF t \in S THEN "pending" ELSE "none"
    BY <1>1
  <2>3. \A v \in Workers : work'[v].op = "quota" => server[t] = 0
    BY <1>6, <2>1 DEF Same
  <2>4. server[t] # 0 /\ t \notin S => Withdraws(w, t)'
    <3>1. server[t] # 0 /\ t \notin S => t \in DOMAIN todo /\ todo[t] = "drop"
      BY <1>4, <2>1 DEF Kept
    <3> QED
      BY <1>6, <3>1 DEF Withdraws
  <2>5. Count(t)'
    BY <1>1, <1>3, <2>1, <2>2, <2>3, <2>4 DEF Count, Kept
  <2>6. ASSUME t \in DOMAIN todo PROVE Wanted(w, t)'
    <3>1. work'[w].todo[t] = todo[t] /\ (todo[t] = "drop" <=> t \notin S) /\ (t \in S => ~ext.exceeded)
          /\ todo[t] \in {"drop", "push", "renew"}
      BY <1>4, <1>6, <2>6
    <3> QED
      BY <1>1, <1>3, <1>6, <2>2, <3>1, BegunWanted DEF Kept, Adding
  <2> QED
    BY <2>5, <2>6
<1> QED
  BY <1>1, <1>4, <1>5, <1>7, <1>8, <1>9, Begun

(* An operation that has changed nothing yet, but perhaps lowered the flag. *)
LEMMA BegunQuietly ==
  ASSUME ExtAssumption, IInv, NEW w \in Workers, NEW op \in Ops \ {"none", "clear", "uninstall"},
         NEW todo \in TaskLists, \A t \in DOMAIN todo : Fits(op, todo[t]), Begin(w, op, todo),
         UNCHANGED <<mode, instance, node, rows, chosen, server>>,
         ext' = ext \/ ext' = [ext EXCEPT !.exceeded = FALSE],
         \A t \in Tags \ doubt' : t \in DOMAIN todo => Wanted(w, t)',
         op = "quota" => Present /\ Targets \subseteq DOMAIN todo
  PROVE  IInv'
<1>1. Table /\ History /\ Server /\ Work
  BY Parts DEF IInv
<1>2. /\ ext' \in [life : {"none", "there", "gone"}, key : 0..MaxKeys, exceeded : BOOLEAN]
      /\ ext'.life = ext.life /\ ext'.key = ext.key /\ (ext'.exceeded => ext.exceeded)
      /\ ext'.key >= ext.key /\ (Present' <=> Present)
  <2>1. ext.key \in Nat
    BY Basics DEF IInv
  <2>2. CASE ext' = ext
    BY <1>1, <2>1, <2>2 DEF Table, Present
  <2>3. CASE ext' = [ext EXCEPT !.exceeded = FALSE]
    <3>1. /\ ext' \in [life : {"none", "there", "gone"}, key : 0..MaxKeys, exceeded : BOOLEAN]
          /\ ext'.life = ext.life /\ ext'.key = ext.key
      BY <1>1, <2>3 DEF Table
    <3>2. ~ext'.exceeded
      BY <1>1, <2>3 DEF Table
    <3> QED
      BY <2>1, <3>1, <3>2 DEF Present
  <2> QED
    BY <2>2, <2>3
<1>3. /\ work' \in [Workers -> Row(ext.key)] /\ Same(w)
      /\ work'[w].todo = todo /\ work'[w].tag = "none"
      /\ work'[w].op \in {op, "none"}
      /\ starts' \in 0..MaxStarts /\ faults' = faults /\ doubt \subseteq doubt' /\ doubt' \subseteq Tags
      /\ \A t \in Tags \ doubt' : Untouched(w, t)
  BY Beginning
<1>4. work[w] = Idle
  BY DEF Begin
<1>5. TypeOK'
  <2>1. rows' \in Rows /\ mode' \in BOOLEAN /\ instance' \in BOOLEAN /\ chosen' \subseteq Tags
        /\ node' \in [Tags -> {"unseen", "usable", "unusable"}]
        /\ \A t \in Tags : rows'[t] # "none" => Present' /\ instance'
    BY <1>1, <1>2 DEF Table, History
  <2> QED
    BY <1>2, <1>3, <2>1, BegunTyped
<1>6. LifeInv'
  BY <1>2, <1>3, BegunLife DEF IInv, LifeInv
<1>7. ASSUME NEW t \in Tags, t \notin doubt' PROVE Count(t)'
  <2>1. Count(t)
    BY <1>3, <1>7 DEF IInv, CountInv
  <2>2. t # work[w].tag /\ t \notin DOMAIN work[w].todo
    BY <1>4, IdleRow DEF ExtAssumption
  <2>3. \A v \in Workers : /\ Withdraws(v, t) => Withdraws(v, t)'
                           /\ Repairs(v, t) => Repairs(v, t)'
                           /\ Rewrites(v, t) => Rewrites(v, t)'
    BY <1>2, <1>3, <2>2 DEF Withdraws, Repairs, Rewrites, Same
  <2>4. \A v \in Workers : work'[v].op = "quota" /\ Present /\ server[t] # 0 => Exhausts(v, t)'
    <3>1. ASSUME NEW v \in Workers \ {w}
          PROVE  work'[v].op = "quota" /\ Present /\ server[t] # 0 => Exhausts(v, t)'
      BY <1>3, <2>1, <3>1 DEF Count, Exhausts, Same
    <3>2. work'[w].op = "quota" /\ Present /\ server[t] # 0 => Exhausts(w, t)'
      <4>1. SUFFICES ASSUME op = "quota", Present, server[t] # 0 PROVE t \in DOMAIN todo
        BY <1>3 DEF Exhausts
      <4>2. rows[t] \in Kept
        BY <1>3, <1>7, <4>1 DEF Untouched
      <4> QED
        BY <4>1, <4>2 DEF Targets, Kept
    <3> QED
      BY <3>1, <3>2
  <2> QED
    BY <1>2, <2>1, <2>3, <2>4 DEF Count
<1> QED
  BY <1>5, <1>6, <1>7, Begun

(* The targets are kept where the administrator chose them.                *)
LEMMA BegunTargets ==
  ASSUME ExtAssumption, IInv, NEW w \in Workers, NEW t \in Tags, Untouched(w, t), t \in Targets
  PROVE  Present /\ instance /\ t \in chosen /\ rows[t] \in Kept
<1>1. rows \in Rows /\ Present /\ instance
  BY AtRest DEF Targets
<1> QED
  BY <1>1 DEF Untouched, Targets, Kept, Rows

LEMMA StepRetryExt ==
  ASSUME ExtAssumption, IInv, NEW w \in Workers, RetryExt(w)
  PROVE  IInv'
<1> DEFINE again == {t \in Tags : rows[t] = "unremoved" \/ (rows[t] = "failed" /\ ~ext.exceeded)}
           todo == [t \in again |-> IF rows[t] = "failed" THEN "push" ELSE "drop"]
<1>1. Present /\ Begin(w, "retry", todo) /\ UNCHANGED <<mode, instance, node, ext, rows, chosen, server>>
  BY DEF RetryExt, db
<1>2. todo \in TaskLists /\ DOMAIN todo = again
  <2>1. again \in SUBSET Tags /\ todo \in [again -> Tasks]
    BY DEF Tasks
  <2> QED
    BY <2>1, Listed
<1>3. /\ "retry" \in Ops \ {"none", "clear", "uninstall"}
      /\ \A t \in again : todo[t] = IF rows[t] = "failed" THEN "push" ELSE "drop"
      /\ \A t \in DOMAIN todo : Fits("retry", todo[t])
  BY DEF Ops, Fits
<1> HIDE DEF todo
<1>4. /\ work'[w].todo = todo /\ work'[w].tag = "none"
      /\ \A t \in Tags \ doubt' : Untouched(w, t)
  BY <1>1, <1>2, <1>3, Beginning
<1>5. ASSUME NEW t \in Tags, t \notin doubt', t \in DOMAIN todo PROVE Wanted(w, t)'
  <2>1. rows[t] = "failed" /\ ~ext.exceeded /\ todo[t] = "push"
    BY <1>1, <1>2, <1>3, <1>4, <1>5 DEF Untouched
  <2>2. Present /\ instance /\ t \in chosen /\ rows[t] \in Kept
    BY <1>4, <1>5, <2>1, BegunTargets DEF Targets
  <2> QED
    BY <1>1, <1>4, <2>1, <2>2, BegunWanted DEF Present
<1> QED
  BY <1>1, <1>2, <1>3, <1>5, BegunQuietly

LEMMA StepResetExtQuota ==
  ASSUME ExtAssumption, IInv, NEW w \in Workers, ResetExtQuota(w)
  PROVE  IInv'
<1> DEFINE todo == All(Targets, "push")
<1>1. /\ Present /\ Begin(w, "reset", todo) /\ UNCHANGED <<mode, instance, node, rows, chosen, server>>
      /\ ext' = [ext EXCEPT !.exceeded = FALSE]
  BY DEF ResetExtQuota
<1>2. ~ext'.exceeded /\ (Present' <=> Present)
  <2>1. Table
    BY Parts DEF IInv
  <2> QED
    BY <1>1, <2>1 DEF Table, Present
<1>3. /\ todo \in TaskLists /\ DOMAIN todo = Targets /\ \A t \in Targets : todo[t] = "push"
      /\ "reset" \in Ops \ {"none", "clear", "uninstall"}
  BY AllTasks DEF Targets, Tasks, Ops
<1>4. \A t \in DOMAIN todo : Fits("reset", todo[t])
  BY <1>3 DEF Fits
<1> HIDE DEF todo
<1>5. /\ work'[w].todo = todo /\ work'[w].tag = "none"
      /\ \A t \in Tags \ doubt' : Untouched(w, t)
  BY <1>1, <1>3, <1>4, Beginning
<1>6. ASSUME NEW t \in Tags, t \notin doubt', t \in DOMAIN todo PROVE Wanted(w, t)'
  <2>1. Present /\ instance /\ t \in chosen /\ rows[t] \in Kept /\ work'[w].todo[t] = "push"
    BY <1>3, <1>5, <1>6, BegunTargets
  <2> QED
    BY <1>1, <1>2, <1>5, <2>1, BegunWanted
<1> QED
  BY <1>1, <1>3, <1>4, <1>6, BegunQuietly

LEMMA StepCheckExtQuota ==
  ASSUME ExtAssumption, IInv, NEW w \in Workers, CheckExtQuota(w)
  PROVE  IInv'
<1> DEFINE todo == All(Targets, "quota")
<1>1. /\ Present /\ Begin(w, "quota", todo)
      /\ UNCHANGED <<mode, instance, node, ext, rows, chosen, server>>
  BY DEF CheckExtQuota, db
<1>2. /\ todo \in TaskLists /\ DOMAIN todo = Targets /\ \A t \in Targets : todo[t] = "quota"
      /\ "quota" \in Ops \ {"none", "clear", "uninstall"}
  BY AllTasks DEF Targets, Tasks, Ops
<1>3. \A t \in DOMAIN todo : Fits("quota", todo[t])
  BY <1>2 DEF Fits
<1> HIDE DEF todo
<1>4. /\ work'[w].todo = todo /\ work'[w].tag = "none"
      /\ \A t \in Tags \ doubt' : Untouched(w, t)
  BY <1>1, <1>2, <1>3, Beginning
<1>5. ASSUME NEW t \in Tags, t \notin doubt', t \in DOMAIN todo PROVE Wanted(w, t)'
  <2>1. Present /\ instance /\ t \in chosen /\ rows[t] \in Kept /\ work'[w].todo[t] = "quota"
    BY <1>2, <1>4, <1>5, BegunTargets
  <2> QED
    BY <1>1, <1>4, <2>1, BegunWanted DEF Present
<1> QED
  BY <1>1, <1>2, <1>3, <1>5, BegunQuietly

LEMMA StepRepairPush ==
  ASSUME ExtAssumption, IInv, NEW w \in Workers, RepairPush(w)
  PROVE  IInv'
<1> DEFINE todo == All(Reconciled.toPush, "gated")
<1>1. Begin(w, "push", todo) /\ UNCHANGED <<mode, instance, node, ext, rows, chosen, server>>
  BY DEF RepairPush, db
<1>2. Reconciled.toPush \subseteq Targets /\ Targets \subseteq Tags
  BY DEF Reconciled, Targets
<1>3. /\ todo \in TaskLists /\ DOMAIN todo \subseteq Targets /\ \A t \in DOMAIN todo : todo[t] = "gated"
      /\ "push" \in Ops \ {"none", "clear", "uninstall"}
  BY <1>2, AllTasks DEF Tasks, Ops
<1>4. \A t \in DOMAIN todo : Fits("push", todo[t])
  BY <1>3 DEF Fits
<1> HIDE DEF todo
<1>5. /\ work'[w].todo = todo /\ work'[w].tag = "none"
      /\ \A t \in Tags \ doubt' : Untouched(w, t)
  BY <1>1, <1>3, <1>4, Beginning
<1>6. ASSUME NEW t \in Tags, t \notin doubt', t \in DOMAIN todo PROVE Wanted(w, t)'
  <2>1. Present /\ instance /\ t \in chosen /\ rows[t] \in Kept /\ work'[w].todo[t] = "gated"
    BY <1>3, <1>5, <1>6, BegunTargets
  <2> QED
    BY <1>1, <1>5, <2>1, BegunWanted DEF Present
<1> QED
  BY <1>1, <1>3, <1>4, <1>6, BegunQuietly

LEMMA StepRepairCredentials ==
  ASSUME ExtAssumption, IInv, NEW w \in Workers, NEW S, RepairCredentials(w, S)
  PROVE  IInv'
<1> DEFINE todo == All(S, "repair")
<1>1. /\ Begin(w, "repair", todo) /\ UNCHANGED <<mode, instance, node, ext, rows, chosen, server>>
      /\ S \subseteq Reconciled.mismatches
  BY DEF RepairCredentials, db
<1>2. S \subseteq Targets /\ Targets \subseteq Tags /\ \A t \in S : server[t] # ext.key
  BY <1>1 DEF Reconciled, Targets
<1>3. /\ todo \in TaskLists /\ DOMAIN todo = S /\ \A t \in S : todo[t] = "repair"
      /\ "repair" \in Ops \ {"none", "clear", "uninstall"}
  BY <1>2, AllTasks DEF Tasks, Ops
<1>4. \A t \in DOMAIN todo : Fits("repair", todo[t])
  BY <1>3 DEF Fits
<1> HIDE DEF todo
<1>5. /\ work'[w].todo = todo /\ work'[w].tag = "none"
      /\ \A t \in Tags \ doubt' : Untouched(w, t)
  BY <1>1, <1>3, <1>4, Beginning
<1>6. ASSUME NEW t \in Tags, t \notin doubt', t \in DOMAIN todo PROVE Wanted(w, t)'
  <2>1. Present /\ instance /\ t \in chosen /\ rows[t] \in Kept /\ work'[w].todo[t] = "repair"
    BY <1>2, <1>3, <1>5, <1>6, BegunTargets
  <2>2. rows[t] \in {"pending", "failed"}
    BY <1>2, <1>3, <1>5, <1>6, <2>1 DEF Untouched, Kept
  <2> QED
    BY <1>1, <1>5, <2>1, <2>2, BegunWanted DEF Present
<1> QED
  BY <1>1, <1>3, <1>4, <1>6, BegunQuietly

LEMMA StepCleanOrphans ==
  ASSUME ExtAssumption, IInv, NEW w \in Workers, CleanOrphans(w)
  PROVE  IInv'
<1> DEFINE seen == {t \in Tags : node[t] # "unseen"}
           todo == All(seen, "wipe")
<1>1. Begin(w, "clean", todo) /\ UNCHANGED <<mode, instance, node, ext, rows, chosen, server>>
  BY DEF CleanOrphans, db
<1>2. /\ todo \in TaskLists /\ \A t \in DOMAIN todo : todo[t] = "wipe"
      /\ "clean" \in Ops \ {"none", "clear", "uninstall"}
  BY AllTasks DEF Tasks, Ops
<1>3. \A t \in DOMAIN todo : Fits("clean", todo[t])
  BY <1>2 DEF Fits
<1> HIDE DEF todo
<1>4. work'[w].todo = todo /\ work'[w].tag = "none"
  BY <1>1, <1>2, <1>3, Beginning
<1>5. ASSUME NEW t \in Tags, t \in DOMAIN todo PROVE Wanted(w, t)'
  BY <1>2, <1>4, <1>5, BegunWanted DEF Adding
<1> QED
  BY <1>1, <1>2, <1>3, <1>5, BegunQuietly

LEMMA StepDeleteExt ==
  ASSUME ExtAssumption, IInv, NEW w \in Workers, DeleteExt(w)
  PROVE  IInv'
<1> DEFINE old == {t \in Tags : rows[t] # "none"}
           todo == All(old, "drop")
<1>1. /\ Present /\ ext' = [ext EXCEPT !.life = "gone"]
      /\ rows' = [t \in Tags |-> "none"] /\ chosen' = {} /\ Begin(w, "delete", todo)
      /\ UNCHANGED <<mode, instance, node, server>>
  BY DEF DeleteExt
<1>2. Table /\ History /\ Server /\ Work
  BY Parts DEF IInv
<1>3. /\ ext' \in [life : {"none", "there", "gone"}, key : 0..MaxKeys, exceeded : BOOLEAN]
      /\ ext'.key = ext.key /\ ext'.life = "gone" /\ ~Present' /\ ext'.key >= ext.key
  <2>1. ext.key \in Nat
    BY Basics DEF IInv
  <2> QED
    BY <1>1, <1>2, <2>1 DEF Table, Present
<1>4. /\ todo \in TaskLists /\ DOMAIN todo = old /\ \A t \in old : todo[t] = "drop"
      /\ "delete" \in Ops \ {"none", "clear"} /\ \A t \in DOMAIN todo : Fits("delete", todo[t])
  BY AllTasks DEF Tasks, Ops, Fits
<1> HIDE DEF todo
<1>5. /\ work' \in [Workers -> Row(ext.key)] /\ Same(w)
      /\ work'[w].todo = todo /\ work'[w].tag = "none"
      /\ work'[w].op \in {"delete", "none"}
      /\ starts' \in 0..MaxStarts /\ faults' = faults /\ doubt' \subseteq Tags
      /\ \A t \in Tags \ doubt' : Untouched(w, t)
  BY <1>1, <1>4, Beginning
<1>6. TypeOK'
  <2>1. rows' \in Rows /\ mode' \in BOOLEAN /\ instance' \in BOOLEAN
    BY <1>1, <1>2 DEF Rows, Table
  <2>2. \A t \in Tags : rows'[t] # "none" => Present' /\ instance'
    BY <1>1
  <2>3. node' \in [Tags -> {"unseen", "usable", "unusable"}] /\ server' = server /\ chosen' \subseteq Tags
    BY <1>1, <1>2 DEF Table
  <2> QED
    BY <1>3, <1>5, <2>1, <2>2, <2>3, BegunTyped
<1>7. LifeInv'
  BY <1>1, <1>3, <1>5, BegunLife
<1>8. ASSUME NEW t \in Tags, t \notin doubt' PROVE Count(t)' /\ (t \in DOMAIN todo => Wanted(w, t)')
  <2>1. rows'[t] = "none"
    BY <1>1
  <2>2. server[t] # 0 => Withdraws(w, t)'
    <3>1. server[t] # 0 => t \in DOMAIN todo /\ todo[t] = "drop"
      BY <1>1, <1>4, <1>5, <1>8 DEF Untouched, Kept
    <3> QED
      BY <1>5, <3>1 DEF Withdraws
  <2>3. Count(t)'
    BY <1>1, <1>3, <2>1, <2>2 DEF Count
  <2>4. ASSUME t \in DOMAIN todo PROVE Wanted(w, t)'
    <3>1. instance /\ work'[w].todo[t] = "drop"
      BY <1>4, <1>5, <2>4, AtRest
    <3> QED
      BY <1>1, <1>5, <2>1, <3>1, BegunWanted DEF Adding
  <2> QED
    BY <2>3, <2>4
<1> QED
  BY <1>1, <1>4, <1>6, <1>7, <1>8, Begun

LEMMA StepDeleteInstance ==
  ASSUME ExtAssumption, IInv, NEW w \in Workers, DeleteInstance(w)
  PROVE  IInv'
<1> DEFINE old == {t \in Tags : rows[t] # "none"}
           todo == All(old, "wipe")
<1>1. /\ instance' = FALSE /\ node' = [t \in Tags |-> "unseen"]
      /\ rows' = [t \in Tags |-> "none"] /\ chosen' = {} /\ Begin(w, "uninstall", todo)
      /\ UNCHANGED <<mode, ext, server>> /\ instance
  BY DEF DeleteInstance
<1>2. Table /\ History /\ Server /\ Work
  BY Parts DEF IInv
<1>3. (Present' <=> Present) /\ ext'.key >= ext.key
  BY <1>1, Basics DEF Present, IInv
<1>4. /\ todo \in TaskLists /\ DOMAIN todo = old /\ \A t \in old : todo[t] = "wipe"
      /\ "uninstall" \in Ops \ {"none", "clear"} /\ \A t \in DOMAIN todo : Fits("uninstall", todo[t])
  BY AllTasks DEF Tasks, Ops, Fits
<1> HIDE DEF todo
<1>5. /\ work' \in [Workers -> Row(ext.key)] /\ Same(w)
      /\ work'[w].todo = todo /\ work'[w].tag = "none"
      /\ work'[w].op \in {"uninstall", "none"}
      /\ starts' \in 0..MaxStarts /\ faults' = faults /\ doubt \subseteq doubt' /\ doubt' \subseteq Tags
  BY <1>1, <1>4, Beginning
<1>6. work[w] = Idle
  BY <1>1 DEF Begin
<1>7. TypeOK'
  <2>1. rows' \in Rows /\ mode' \in BOOLEAN /\ instance' \in BOOLEAN
    BY <1>1, <1>2 DEF Rows, Table
  <2>2. \A t \in Tags : rows'[t] # "none" => Present' /\ instance'
    BY <1>1
  <2>3. /\ node' \in [Tags -> {"unseen", "usable", "unusable"}] /\ server' = server /\ chosen' \subseteq Tags
        /\ ext' \in [life : {"none", "there", "gone"}, key : 0..MaxKeys, exceeded : BOOLEAN]
    BY <1>1, <1>2 DEF Table
  <2> QED
    BY <1>3, <1>5, <2>1, <2>2, <2>3, BegunTyped
<1>8. LifeInv'
  BY <1>1, <1>3, <1>5, BegunLife DEF IInv, LifeInv
<1>9. ASSUME NEW t \in Tags, t \notin doubt' PROVE Count(t)' /\ (t \in DOMAIN todo => Wanted(w, t)')
  <2>1. rows'[t] = "none" /\ Count(t)
    BY <1>1, <1>5, <1>9 DEF IInv, CountInv
  <2>2. t # work[w].tag /\ t \notin DOMAIN work[w].todo
    BY <1>6, IdleRow DEF ExtAssumption
  <2>3. \A v \in Workers : Withdraws(v, t) => Withdraws(v, t)'
    BY <1>1, <1>3, <1>5, <2>2 DEF Withdraws, Same
  <2>4. rows[t] # "none" => Withdraws(w, t)'
    BY <1>4, <1>5 DEF Withdraws
  <2>5. server[t] # 0 => \E v \in Workers : Withdraws(v, t)'
    BY <2>1, <2>3, <2>4 DEF Count, Kept
  <2>6. \A v \in Workers : work'[v].op = "quota" /\ Present /\ server[t] # 0 => Exhausts(v, t)'
    BY <1>5, <2>1 DEF Count, Exhausts, Same
  <2>7. Count(t)'
    BY <1>1, <1>3, <2>1, <2>5, <2>6 DEF Count
  <2>8. ASSUME t \in DOMAIN todo PROVE Wanted(w, t)'
    BY <1>4, <1>5, <2>8, BegunWanted DEF Adding
  <2> QED
    BY <2>7, <2>8
<1> QED
  BY <1>1, <1>4, <1>7, <1>8, <1>9, Begun

(* OFF: the switch is thrown, and the clearing waits for its turn.         *)
LEMMA StepSubmitAdvancedMode ==
  ASSUME ExtAssumption, IInv, NEW w \in Workers, SubmitAdvancedMode(w)
  PROVE  IInv'
<1> DEFINE a == [Idle EXCEPT !.op = "clear"]
           s == [a EXCEPT !.pc = "collect"]
<1>1. /\ mode /\ mode' = FALSE /\ starts < MaxStarts /\ starts' = starts + 1 /\ work[w] = Idle
      /\ UNCHANGED <<instance, node, ext, rows, chosen, server, faults>>
      /\ work' = [work EXCEPT ![w] = s] /\ doubt' = doubt
  BY DEF SubmitAdvancedMode, Begin, Together, Conflict
<1>2. Table /\ History /\ Server /\ Work /\ ext.key \in Nat /\ work \in [Workers -> Row(ext.key)]
  BY Parts, Basics DEF IInv
<1>3. /\ s \in Row(ext.key) /\ s.op = "clear" /\ s.todo = NoTasks /\ s.tag = "none" /\ s.pc = "collect"
  <2>1. "clear" \in Ops /\ "collect" \in Pcs
    BY DEF Ops, Pcs
  <2>2. a \in Row(ext.key) /\ a.op = "clear" /\ a.todo = NoTasks /\ a.tag = "none"
    BY <1>2, <2>1, IdleRow, SetOp
  <2> HIDE DEF a
  <2> QED
    BY <1>2, <2>1, <2>2, SetPc
<1> HIDE DEF s
<1>4. Place(s) /\ DOMAIN s.todo = {}
  BY <1>3, NoList DEF Place, Between, Stands
<1>5. work'[w] = s /\ Same(w) /\ work' \in [Workers -> Row(ext.key)] /\ (Present' <=> Present)
  BY <1>1, <1>2, <1>3 DEF Same, Present
<1>6. TypeOK'
  <2>1. starts' \in 0..MaxStarts
    BY <1>1, <1>2 DEF History, ExtAssumption
  <2>2. Table' /\ History' /\ Server' /\ Work'
    BY <1>1, <1>2, <1>5, <2>1 DEF Table, History, Server, Work
  <2> QED
    BY <2>2 DEF TypeOK, Table, History, Server, Work, Rows, Row
<1>7. PlaceInv'
  BY <1>4, <1>5 DEF IInv, PlaceInv, Same
<1>8. \A v \in Workers : work[v].op # "clear"
  BY <1>1 DEF IInv, LifeInv
<1>9. LifeInv'
  BY <1>1, <1>3, <1>5, <1>8 DEF IInv, LifeInv, Same
<1>10. ApartInv'
  BY <1>1, <1>3, <1>5 DEF IInv, ApartInv, Same, Alive, Faces
<1>11. FaceInv'
  <2>1. SUFFICES ASSUME NEW v \in Workers, work'[v].op # "clear", NEW t \in Faces(v)', t \notin doubt
                 PROVE  Face(v, t)'
    BY <1>1 DEF FaceInv
  <2>2. v # w /\ work'[v] = work[v] /\ t \in Faces(v)
    BY <1>3, <1>5, <2>1 DEF Same, Faces
  <2>3. Face(v, t)
    BY <1>8, <2>1, <2>2 DEF IInv, FaceInv
  <2>4. Wanted(v, t)'
    BY <1>1, <1>5, <2>2, <2>3 DEF Face, Wanted, TaskAt, Emptied, Cleared
  <2>5. t = work[v].tag => Served(v)'
    BY <1>1, <1>5, <2>2, <2>3 DEF Face, Served
  <2> QED
    BY <2>2, <2>4, <2>5 DEF Face
<1>12. CountInv'
  <2>1. SUFFICES ASSUME NEW t \in Tags, t \notin doubt PROVE Count(t)'
    BY <1>1 DEF CountInv
  <2>2. Count(t) /\ t # work[w].tag /\ t \notin DOMAIN work[w].todo
    BY <1>1, <2>1, IdleRow DEF IInv, CountInv, ExtAssumption
  <2>3. \A v \in Workers : /\ Withdraws(v, t) => Withdraws(v, t)'
                           /\ Repairs(v, t) => Repairs(v, t)'
                           /\ Rewrites(v, t) => Rewrites(v, t)'
    BY <1>1, <1>5, <2>2 DEF Withdraws, Repairs, Rewrites, Same
  <2>4. \A v \in Workers : work'[v].op = "quota" /\ Present /\ server[t] # 0 => Exhausts(v, t)'
    BY <1>3, <1>5, <2>2 DEF Count, Exhausts, Same
  <2> QED
    BY <1>1, <1>5, <2>2, <2>3, <2>4 DEF Count
<1> QED
  BY <1>6, <1>7, <1>9, <1>10, <1>11, <1>12 DEF IInv

-----------------------------------------------------------------------------
(* What is served has the present credentials, but for what an update has  *)
(* still to take away.                                                     *)

(* Inbound u is left alone, and so is what others have to renew there.     *)
LEMMA KeyedStays ==
  ASSUME NEW u, Keyed(u), Present' => Present, ext'.key = ext.key, server'[u] = server[u],
         Present' => \A v \in Workers : Renews(v, u) => Renews(v, u)'
  PROVE  Keyed(u)'
BY DEF Keyed

(* A step of worker w at the inbound it is at.                             *)
LEMMA KeyAt ==
  ASSUME ExtAssumption, IInv, KeyInv, NEW w \in Workers, work[w].pc \notin Between,
         NEW t \in Tags, t = At(w), Same(w), ext' = ext,
         \A u \in Tags \ {t} : server'[u] = server[u], doubt \subseteq doubt' \cup {t},
         \A u \in DOMAIN work[w].todo :
           \/ u \in doubt' \/ ~Present
           \/ u \in DOMAIN work'[w].todo /\ work'[w].todo[u] = work[w].todo[u],
         t \notin doubt' =>
           \/ server'[t] \in {0, ext.key} \/ ~Present
           \/ t \notin doubt /\ server'[t] = server[t] /\ work[w].pc # "remove"
  PROVE  KeyInv'
<1>1. SUFFICES ASSUME NEW u \in Tags, u \notin doubt', Present PROVE Keyed(u)'
  BY DEF KeyInv, Keyed, Present
<1>2. ASSUME NEW v \in Workers \ {w}, Renews(v, u) PROVE Renews(v, u)'
  BY <1>2 DEF Renews, Same
<1>3. CASE u # t
  <2>1. Renews(w, u) => Renews(w, u)'
    BY <1>1, <1>3 DEF Renews, At
  <2>2. Keyed(u) /\ server'[u] = server[u]
    BY <1>1, <1>3 DEF KeyInv
  <2> QED
    BY <1>2, <2>1, <2>2, KeyedStays DEF Present
<1>4. CASE u = t
  <2>1. CASE server'[t] \in {0, ext.key}
    BY <1>4, <2>1 DEF Keyed
  <2>2. CASE t \notin doubt /\ server'[t] = server[t] /\ work[w].pc # "remove"
    <3>1. ~Renews(w, t)
      BY <2>2, Standing DEF Renews
    <3>2. Keyed(t)
      BY <2>2 DEF KeyInv
    <3> QED
      BY <1>2, <1>4, <2>2, <3>1, <3>2, KeyedStays DEF Present
  <2> QED
    BY <1>1, <1>4, <2>1, <2>2
<1> QED
  BY <1>3, <1>4

(* What a worker that is done with an inbound has still to do.             *)
LEMMA DoneTodo ==
  ASSUME ExtAssumption, IInv, NEW w \in Workers, work[w].pc \notin Between, Done(w)
  PROVE  Same(w) /\ work'[w].todo = work[w].todo
<1> DEFINE s == Onward(work[w])
<1>1. TypeOK /\ ext.key \in Nat /\ work[w] \in Row(ext.key) /\ work \in [Workers -> Row(ext.key)]
  BY Basics DEF IInv
<1>2. work' = [work EXCEPT ![w] = s]
  BY <1>1 DEF Done
<1>3. s.todo = work[w].todo
  BY <1>1, Standing, OnwardRow DEF Rested
<1> HIDE DEF s
<1> QED
  BY <1>1, <1>2, <1>3, Replaced DEF Same

LEMMA FailedTodo ==
  ASSUME ExtAssumption, IInv, NEW w \in Workers, work[w].pc \notin Between, Failed(w)
  PROVE  Same(w) /\ (work'[w].todo = work[w].todo \/ DOMAIN work[w].todo = Skipped(w))
<1>1. CASE work[w].task = "renew"
  <2>1. work' = [work EXCEPT ![w] = Idle]
    BY <1>1 DEF Failed
  <2>2. TypeOK
    BY DEF IInv
  <2> QED
    BY <1>1, <2>1, <2>2, Replaced DEF Same, Skipped
<1>2. CASE work[w].task # "renew"
  BY <1>2, DoneTodo DEF Failed
<1> QED
  BY <1>1, <1>2

LEMMA KeyGate ==
  ASSUME ExtAssumption, IInv, KeyInv, NEW w \in Workers, NEW t \in Tags, t = At(w), Gate(w)
  PROVE  KeyInv'
<1>1. /\ work[w].pc = "gate" /\ work[w].pc \notin Between /\ ext' = ext /\ server' = server /\ doubt' = doubt
  BY DEF Gate, db, Between
<1>2. work[w].task \in {"gated", "repair"}
  BY <1>1, Standing DEF Stands
<1>3. Same(w) /\ work'[w].todo = work[w].todo
  <2>1. CASE Done(w)
    BY <1>1, <2>1, DoneTodo
  <2>2. ASSUME NEW pc \in {"remove", "read"}, To(w, pc), pc = "remove" <=> work[w].task = "repair"
        PROVE  Same(w) /\ work'[w].todo = work[w].todo
    <3>1. pc \in Pcs \ Between /\ Stands(pc, work[w].task)
      BY <1>2, <2>2 DEF Pcs, Between, Stands, Adding, Removing
    <3> QED
      BY <1>1, <2>2, <3>1, ToPc
  <2> QED
    BY <2>1, <2>2 DEF Gate
<1> QED
  BY <1>1, <1>3, KeyAt

LEMMA KeyRemoveUser ==
  ASSUME ExtAssumption, IInv, KeyInv, NEW w \in Workers, NEW t \in Tags, t = At(w), RemoveUser(w)
  PROVE  KeyInv'
<1>1. work[w].pc = "remove" /\ work[w].pc \notin Between /\ ext' = ext
  BY DEF RemoveUser, db, Between
<1>2. work[w].task \in Removing
  BY <1>1, Standing DEF Stands
<1>3. PICK pc \in {"removed", "lost"} : To(w, pc)
  BY DEF RemoveUser
<1>4. pc \in Pcs \ Between /\ Stands(pc, work[w].task)
  BY <1>2 DEF Pcs, Between, Stands
<1>5. Same(w) /\ work'[w].todo = work[w].todo
  BY <1>1, <1>3, <1>4, ToPc
<1>6. /\ \A u \in Tags \ {t} : server'[u] = server[u]
      /\ doubt \subseteq doubt'
      /\ t \notin doubt' => server'[t] = 0
  BY AtRest DEF RemoveUser, At
<1> QED
  BY <1>1, <1>5, <1>6, KeyAt

LEMMA KeyRemoved ==
  ASSUME ExtAssumption, IInv, KeyInv, NEW w \in Workers, NEW t \in Tags, t = At(w), Removed(w)
  PROVE  KeyInv'
<1>1. /\ work[w].pc = "removed" /\ work[w].pc \notin Between /\ ext' = ext /\ server' = server
  BY DEF Removed, Between
<1>2. Same(w) /\ work'[w].todo = work[w].todo
  <2>1. CASE Done(w)
    BY <1>1, <2>1, DoneTodo
  <2>2. CASE To(w, "read") /\ work[w].task \in {"renew", "repair"}
    <3>1. "read" \in Pcs \ Between /\ Stands("read", work[w].task)
      BY <2>2 DEF Pcs, Between, Stands, Adding
    <3> QED
      BY <1>1, <2>2, <3>1, ToPc
  <2> QED
    BY <2>1, <2>2 DEF Removed
<1>3. doubt' \in {doubt, doubt \cup {t}, Settled(w, 0)}
  BY DEF Removed, At
<1>4. doubt \subseteq doubt' \cup {t} /\ (t \in doubt /\ t \notin doubt' => server[t] = 0)
  BY <1>3, Settling
<1> QED
  BY <1>1, <1>2, <1>4, KeyAt

LEMMA KeyLost ==
  ASSUME ExtAssumption, IInv, KeyInv, NEW w \in Workers, NEW t \in Tags, t = At(w), Lost(w)
  PROVE  KeyInv'
<1>1. /\ work[w].pc = "lost" /\ work[w].pc \notin Between /\ ext' = ext /\ server' = server
      /\ doubt' = doubt \cup Skipped(w)
  BY DEF Lost, Between
<1>2. Same(w) /\ (work'[w].todo = work[w].todo \/ DOMAIN work[w].todo = Skipped(w))
  BY <1>1, FailedTodo DEF Lost
<1> QED
  BY <1>1, <1>2, KeyAt

LEMMA KeyReadCredentials ==
  ASSUME ExtAssumption, IInv, KeyInv, NEW w \in Workers, NEW t \in Tags, t = At(w), ReadCredentials(w)
  PROVE  KeyInv'
<1>1. /\ work[w].pc = "read" /\ work[w].pc \notin Between /\ ext' = ext /\ server' = server
      /\ doubt' = doubt
  BY DEF ReadCredentials, db, Between
<1>2. CASE ~Present
  <2>1. Same(w)
    BY <1>1, <1>2, FailedTodo DEF ReadCredentials
  <2> QED
    BY <1>1, <1>2, <2>1, KeyAt
<1>3. CASE Present
  <2> DEFINE pc == IF work[w].task = "over" THEN "oust" ELSE "add"
             r == [work[w] EXCEPT !.key = ext.key]
             s == [r EXCEPT !.pc = pc]
  <2>1. ext.key \in Nat /\ work[w] \in Row(ext.key) /\ work \in [Workers -> Row(ext.key)] /\ ext.key \in 0..ext.key
    BY Basics DEF IInv
  <2>2. work' = [work EXCEPT ![w].key = ext.key, ![w].pc = pc]
    BY <1>3 DEF ReadCredentials
  <2>3. work' = [work EXCEPT ![w] = s]
    BY <2>1, <2>2
  <2>4. s.todo = work[w].todo
    <3>1. r \in Row(ext.key) /\ r.todo = work[w].todo
      BY <2>1, SetKey
    <3>2. pc \in Pcs
      BY DEF Pcs
    <3> HIDE DEF r, pc
    <3> QED
      BY <2>1, <3>1, <3>2, SetPc
  <2> HIDE DEF s
  <2>5. Same(w) /\ work'[w].todo = work[w].todo
    BY <2>1, <2>3, <2>4, Replaced DEF Same, IInv
  <2> QED
    BY <1>1, <2>5, KeyAt
<1> QED
  BY <1>2, <1>3

LEMMA KeyOust ==
  ASSUME ExtAssumption, IInv, KeyInv, NEW w \in Workers, NEW t \in Tags, t = At(w), Oust(w)
  PROVE  KeyInv'
<1>1. /\ work[w].pc = "oust" /\ work[w].pc \notin Between /\ ext' = ext /\ To(w, "add")
  BY DEF Oust, db, Between
<1>2. "add" \in Pcs \ Between /\ Stands("add", work[w].task)
  BY <1>1, Standing DEF Pcs, Between, Stands, Adding
<1>3. Same(w) /\ work'[w].todo = work[w].todo
  BY <1>1, <1>2, ToPc
<1>4. /\ \A u \in Tags \ {t} : server'[u] = server[u]
      /\ doubt \subseteq doubt'
      /\ t \notin doubt' => server'[t] = 0
  BY AtRest DEF Oust, At
<1> QED
  BY <1>1, <1>3, <1>4, KeyAt

LEMMA KeyAddUser ==
  ASSUME ExtAssumption, IInv, KeyInv, NEW w \in Workers, NEW t \in Tags, t = At(w), AddUser(w)
  PROVE  KeyInv'
<1>1. work[w].pc = "add" /\ work[w].pc \notin Between /\ ext' = ext
  BY DEF AddUser, db, Between
<1>2. work[w].task \in Adding /\ work[w].op # "clear"
  BY <1>1, Standing DEF Stands, Fits, Adding
<1>3. PICK pc \in {"look", "failed"} : To(w, pc)
  BY DEF AddUser
<1>4. pc \in Pcs \ Between /\ Stands(pc, work[w].task)
  BY <1>2 DEF Pcs, Between, Stands
<1>5. Same(w) /\ work'[w].todo = work[w].todo
  BY <1>1, <1>3, <1>4, ToPc
<1>6. /\ \A u \in Tags \ {t} : server'[u] = server[u]
      /\ doubt \subseteq doubt'
      /\ t \notin doubt' => server'[t] = IF server[t] = 0 THEN work[w].key ELSE server[t]
  BY AtRest DEF AddUser, At
<1>7. t \notin doubt => work[w].key = ext.key
  BY <1>1, <1>2, Facing DEF Served
<1> QED
  BY <1>1, <1>5, <1>6, <1>7, KeyAt

LEMMA KeyLook ==
  ASSUME ExtAssumption, IInv, KeyInv, NEW w \in Workers, NEW t \in Tags, t = At(w), Look(w)
  PROVE  KeyInv'
<1>1. /\ work[w].pc = "look" /\ work[w].pc \notin Between /\ ext' = ext /\ server' = server /\ doubt' = doubt
  BY DEF Look, db, Between
<1>2. PICK pc \in {"synced", "undo"} : To(w, pc)
  BY DEF Look
<1>3. pc \in Pcs \ Between /\ Stands(pc, work[w].task)
  BY <1>1, Standing DEF Pcs, Between, Stands
<1>4. Same(w) /\ work'[w].todo = work[w].todo
  BY <1>1, <1>2, <1>3, ToPc
<1> QED
  BY <1>1, <1>4, KeyAt

LEMMA KeyUndo ==
  ASSUME ExtAssumption, IInv, KeyInv, NEW w \in Workers, NEW t \in Tags, t = At(w), Undo(w)
  PROVE  KeyInv'
<1>1. /\ work[w].pc = "undo" /\ work[w].pc \notin Between /\ ext' = ext /\ To(w, "failed")
  BY DEF Undo, db, Between
<1>2. "failed" \in Pcs \ Between /\ Stands("failed", work[w].task)
  BY <1>1, Standing DEF Pcs, Between, Stands
<1>3. Same(w) /\ work'[w].todo = work[w].todo
  BY <1>1, <1>2, ToPc
<1>4. /\ \A u \in Tags \ {t} : server'[u] = server[u]
      /\ doubt \subseteq doubt'
      /\ t \notin doubt' => server'[t] = 0
  BY AtRest DEF Undo, At
<1> QED
  BY <1>1, <1>3, <1>4, KeyAt

LEMMA KeyPushed ==
  ASSUME ExtAssumption, IInv, KeyInv, NEW w \in Workers, NEW t \in Tags, t = At(w), Pushed(w)
  PROVE  KeyInv'
<1>1. /\ work[w].pc \in {"synced", "failed"} /\ work[w].pc \notin Between
      /\ ext' = ext /\ server' = server
  BY DEF Pushed, Between
<1>2. CASE work[w].pc = "failed"
  <2>1. doubt' = doubt \cup Skipped(w)
    BY <1>2 DEF Pushed
  <2>2. Same(w) /\ (work'[w].todo = work[w].todo \/ DOMAIN work[w].todo = Skipped(w))
    BY <1>1, <1>2, FailedTodo DEF Pushed
  <2> QED
    BY <1>1, <2>1, <2>2, KeyAt
<1>3. CASE work[w].pc = "synced"
  <2>1. Same(w) /\ work'[w].todo = work[w].todo
    BY <1>1, <1>3, DoneTodo DEF Pushed
  <2>2. doubt' \in {doubt, Settled(w, ext.key)}
    BY <1>3 DEF Pushed
  <2>3. doubt \subseteq doubt' \cup {t} /\ (t \in doubt /\ t \notin doubt' => server[t] = ext.key)
    BY <2>2, Settling
  <2> QED
    BY <1>1, <2>1, <2>3, KeyAt
<1> QED
  BY <1>1, <1>2, <1>3

(* What is renewed stays to be renewed when it is taken from the list.     *)
LEMMA KeyPick ==
  ASSUME ExtAssumption, IInv, KeyInv, NEW w \in Workers, NEW t \in Tags, Pick(w, t)
  PROVE  KeyInv'
<1> DEFINE task == work[w].todo[t]
           rest == [u \in DOMAIN work[w].todo \ {t} |-> work[w].todo[u]]
           first == IF task \in {"gated", "repair"} THEN "gate"
                    ELSE IF task \in {"push", "over"} THEN "read" ELSE "remove"
<1>1. /\ work[w].pc = "next" /\ t \in DOMAIN work[w].todo
      /\ ext' = ext /\ server' = server /\ doubt' = doubt
  BY DEF Pick, db
<1>2. TypeOK /\ ext.key \in Nat /\ work[w] \in Row(ext.key) /\ work \in [Workers -> Row(ext.key)]
      /\ DOMAIN work[w].todo \subseteq Tags
  BY Basics DEF IInv
<1>3. work[w].tag = "none" /\ \A u \in DOMAIN work[w].todo : Fits(work[w].op, work[w].todo[u])
  BY <1>1 DEF IInv, PlaceInv, Place, Between
<1>4. Same(w)
  <2>1. \E s : work' = [work EXCEPT ![w] = s]
    <3>1. CASE instance \/ task = "wipe"
      <4> DEFINE s == [work[w] EXCEPT !.todo = rest, !.tag = t, !.task = task, !.pc = first]
      <4>1. work' = [work EXCEPT ![w] = s]
        BY <1>2, <3>1 DEF Pick
      <4> QED
        BY <4>1
    <3>2. CASE ~(instance \/ task = "wipe")
      <4> DEFINE s == Onward([work[w] EXCEPT !.todo = IF task = "renew" THEN NoTasks ELSE rest])
      <4>1. work' = [work EXCEPT ![w] = s]
        BY <1>2, <3>2 DEF Pick
      <4> QED
        BY <4>1
    <3> QED
      BY <3>1, <3>2
  <2> QED
    BY <1>2, <2>1, Replaced DEF Same
<1>5. SUFFICES ASSUME NEW u \in Tags, u \notin doubt, Present PROVE Keyed(u)'
  BY <1>1 DEF KeyInv, Keyed, Present
<1>6. Keyed(u) /\ u # work[w].tag
  BY <1>3, <1>5 DEF KeyInv, ExtAssumption
<1>7. ASSUME Renews(w, u) PROVE Renews(w, u)'
  <2>1. u \in DOMAIN work[w].todo /\ work[w].todo[u] \in {"renew", "drop"}
    BY <1>6, <1>7 DEF Renews
  <2>2. work[w].op # "clear" /\ u \in Faces(w)
    BY <1>3, <2>1 DEF Fits, Faces
  <2>3. Wanted(w, u)
    BY <1>5, <2>2 DEF IInv, FaceInv, Face
  <2>4. TaskAt(w, u) = work[w].todo[u]
    BY <1>6 DEF TaskAt
  <2>5. instance
    BY <1>5, <2>1, <2>3, <2>4 DEF Wanted, Adding, Cleared
  <2> DEFINE a == [work[w] EXCEPT !.todo = rest]
             b == [a EXCEPT !.tag = t]
             c == [b EXCEPT !.task = task]
             s == [c EXCEPT !.pc = first]
  <2>6. work' = [work EXCEPT ![w] = s]
    BY <1>2, <2>5 DEF Pick
  <2>7. s.todo = rest /\ s.tag = t /\ s.task = task /\ s.pc = first
    BY <1>2 DEF Row
  <2> HIDE DEF s
  <2>8. work'[w] = s
    BY <1>2, <2>6
  <2>9. CASE u = t
    BY <2>1, <2>7, <2>8, <2>9 DEF Renews
  <2>10. CASE u # t
    BY <2>1, <2>7, <2>8, <2>10 DEF Renews
  <2> QED
    BY <2>9, <2>10
<1>8. \A v \in Workers : Renews(v, u) => Renews(v, u)'
  BY <1>4, <1>7 DEF Renews, Same
<1> QED
  BY <1>1, <1>6, <1>8, KeyedStays DEF Present

LEMMA KeyRaiseFlag ==
  ASSUME ExtAssumption, IInv, KeyInv, NEW w \in Workers, RaiseFlag(w)
  PROVE  KeyInv'
<1>1. /\ work[w].pc = "flag" /\ ext' = [ext EXCEPT !.exceeded = Present]
      /\ work' = [work EXCEPT ![w] = Idle] /\ server' = server /\ doubt' = doubt
  BY DEF RaiseFlag
<1>2. Table /\ TypeOK
  BY Parts DEF IInv
<1>3. ext'.key = ext.key /\ (Present' <=> Present)
  BY <1>1, <1>2 DEF Table, Present
<1>4. Same(w)
  BY <1>1, <1>2, Replaced DEF Same
<1>5. \A u \in Tags : ~Renews(w, u)
  <2>1. work[w].tag = "none" /\ work[w].todo = NoTasks
    BY <1>1 DEF IInv, PlaceInv, Place, Between
  <2> QED
    BY <1>1, <2>1, NoList DEF Renews
<1>6. SUFFICES ASSUME NEW u \in Tags, u \notin doubt PROVE Keyed(u)'
  BY <1>1 DEF KeyInv
<1>7. Keyed(u) /\ \A v \in Workers : Renews(v, u) => Renews(v, u)'
  BY <1>4, <1>5, <1>6 DEF KeyInv, Renews, Same
<1> QED
  BY <1>1, <1>3, <1>7, KeyedStays

(* An operation that begins and changes no credentials.                    *)
LEMMA KeyBegin ==
  ASSUME ExtAssumption, IInv, KeyInv, NEW w \in Workers, NEW op, NEW todo, Begin(w, op, todo),
         server' = server, ext'.key = ext.key, Present' => Present
  PROVE  KeyInv'
<1> DEFINE s == IF op = "clear" THEN [Idle EXCEPT !.op = op, !.pc = "collect"]
                ELSE Onward([Idle EXCEPT !.op = op, !.todo = todo])
<1>1. work[w] = Idle /\ work' = [work EXCEPT ![w] = s] /\ doubt \subseteq doubt'
  BY DEF Begin
<1> HIDE DEF s
<1>2. Same(w)
  BY <1>1, Replaced DEF Same, IInv
<1>3. SUFFICES ASSUME NEW u \in Tags, u \notin doubt' PROVE Keyed(u)'
  BY DEF KeyInv
<1>4. ~Renews(w, u)
  BY <1>1, <1>3, IdleRow DEF Renews
<1>5. Keyed(u) /\ \A v \in Workers : Renews(v, u) => Renews(v, u)'
  BY <1>1, <1>2, <1>3, <1>4 DEF KeyInv, Renews, Same
<1> QED
  BY <1>5, KeyedStays

LEMMA KeyCreateExt ==
  ASSUME ExtAssumption, IInv, NEW w \in Workers, NEW S \in SUBSET Tags, NEW generate \in BOOLEAN,
         NEW key \in {1, 2}, CreateExt(w, S, generate, key)
  PROVE  KeyInv'
<1> DEFINE task == IF generate THEN "over" ELSE "push"
           todo == All(S, task)
<1>1. /\ mode /\ ext.life = "none" /\ Begin(w, "create", todo) /\ server' = server
  BY DEF CreateExt
<1>2. /\ "create" \in Ops \ {"none", "clear"} /\ todo \in TaskLists
      /\ \A t \in DOMAIN todo : Fits("create", todo[t])
  BY AllTasks DEF Ops, Tasks, Fits
<1> HIDE DEF todo, task
<1>3. \A t \in Tags \ doubt' : Untouched(w, t)
  BY <1>1, <1>2, Beginning
<1>4. \A v \in Workers : work[v].op # "clear"
  BY <1>1 DEF IInv, LifeInv
<1>5. \A t \in Tags \ doubt' : server[t] = 0
  BY <1>1, <1>3, <1>4 DEF Untouched, Present
<1> QED
  BY <1>1, <1>5 DEF KeyInv, Keyed

(* New credentials: what is served with the old ones is taken away.        *)
LEMMA KeyUpdateExt ==
  ASSUME ExtAssumption, IInv, KeyInv, NEW w \in Workers, NEW S \in SUBSET Tags, NEW rekey \in BOOLEAN,
         UpdateExt(w, S, rekey)
  PROVE  KeyInv'
<1> DEFINE todo == UpdateTasks(S, rekey)
           old == {t \in Tags : rows[t] # "none"}
<1>1. /\ Present /\ ext' = [ext EXCEPT !.key = IF rekey THEN @ + 1 ELSE @]
      /\ Begin(w, "update", todo) /\ server' = server
  BY DEF UpdateExt
<1>2. CASE ~rekey
  <2>1. Table
    BY Parts DEF IInv
  <2>2. ext' = ext
    BY <1>1, <1>2, <2>1 DEF Table
  <2> QED
    BY <1>1, <2>2, KeyBegin DEF Present
<1>3. CASE rekey
  <2> DEFINE pushed == IF ext.exceeded THEN {} ELSE S \ old
             renewed == IF ext.exceeded THEN {} ELSE S \cap old
             D == (old \ S) \cup pushed \cup renewed
             f == [t \in D |-> IF t \notin S THEN "drop" ELSE IF t \in pushed THEN "push" ELSE "renew"]
  <2>1. todo = f
    BY <1>3 DEF UpdateTasks
  <2>2. D \in SUBSET Tags /\ pushed \cap old = {}
    OBVIOUS
  <2>3. \A t \in old : ~ext.exceeded \/ t \notin S => t \in D
    OBVIOUS
  <2> HIDE DEF pushed, D
  <2>4. /\ f \in [D -> Tasks]
        /\ \A t \in D : f[t] \in {"drop", "push", "renew"}
        /\ \A t \in D : t \in old => f[t] \in {"renew", "drop"}
    BY <2>2 DEF Tasks
  <2> HIDE DEF f, old
  <2>5. f \in TaskLists /\ DOMAIN f = D
    BY <2>2, <2>4, Listed
  <2> HIDE DEF todo
  <2>6. "update" \in Ops \ {"none", "clear"} /\ \A t \in DOMAIN todo : Fits("update", todo[t])
    BY <2>1, <2>4, <2>5 DEF Ops, Fits
  <2>7. work'[w].todo = todo /\ \A t \in Tags \ doubt' : Untouched(w, t)
    BY <1>1, <2>1, <2>5, <2>6, Beginning
  <2>8. ASSUME NEW t \in Tags, t \notin doubt', server[t] # 0 PROVE Renews(w, t)'
    <3>1. ~ext.exceeded /\ t \in old
      BY <1>1, <2>7, <2>8 DEF Untouched, Kept, old
    <3>2. t \in DOMAIN todo /\ todo[t] \in {"renew", "drop"}
      BY <2>1, <2>3, <2>4, <2>5, <3>1
    <3> QED
      BY <2>7, <3>2 DEF Renews
  <2> QED
    BY <1>1, <2>8 DEF KeyInv, Keyed
<1> QED
  BY <1>2, <1>3

LEMMA KeyStarting ==
  ASSUME ExtAssumption, IInv, KeyInv, NEW w \in Workers, Starting(w)
  PROVE  KeyInv'
<1>1. ASSUME NEW S \in SUBSET Tags, NEW generate \in BOOLEAN, NEW key \in {1, 2},
             CreateExt(w, S, generate, key)
      PROVE  KeyInv'
  BY <1>1, KeyCreateExt
<1>2. ASSUME NEW S \in SUBSET Tags, NEW rekey \in BOOLEAN, UpdateExt(w, S, rekey) PROVE KeyInv'
  BY <1>2, KeyUpdateExt
<1>3. ASSUME NEW S \in SUBSET Tags, RepairCredentials(w, S) PROVE KeyInv'
  BY <1>3, KeyBegin DEF RepairCredentials, db, Present
<1>4. CASE DeleteExt(w) \/ ResetExtQuota(w)
  <2>1. Table
    BY Parts DEF IInv
  <2>2. ext'.key = ext.key /\ (Present' => Present)
    BY <1>4, <2>1 DEF DeleteExt, ResetExtQuota, Table, Present
  <2> QED
    BY <1>4, <2>2, KeyBegin DEF DeleteExt, ResetExtQuota
<1>5. CASE RetryExt(w)
  BY <1>5, KeyBegin DEF RetryExt, db, Present
<1>6. CASE CheckExtQuota(w) \/ RepairPush(w) \/ CleanOrphans(w)
  BY <1>6, KeyBegin DEF CheckExtQuota, RepairPush, CleanOrphans, db, Present
<1>7. CASE DeleteInstance(w) \/ SubmitAdvancedMode(w)
  BY <1>7, KeyBegin DEF DeleteInstance, SubmitAdvancedMode, Present
<1> QED
  BY <1>1, <1>2, <1>3, <1>4, <1>5, <1>6, <1>7 DEF Starting

LEMMA KeyWorking ==
  ASSUME ExtAssumption, IInv, KeyInv, NEW w \in Workers, Working(w)
  PROVE  KeyInv'
<1>1. CASE OffClear(w)
  <2>1. Table
    BY Parts DEF IInv
  <2>2. ~Present'
    BY <1>1, <2>1 DEF OffClear, Table, Present
  <2> QED
    BY <2>2 DEF KeyInv, Keyed
<1>2. CASE RaiseFlag(w)
  BY <1>2, KeyRaiseFlag
<1>3. ASSUME NEW t \in Tags, Pick(w, t) PROVE KeyInv'
  BY <1>3, KeyPick
<1>4. ASSUME \/ Gate(w) \/ RemoveUser(w) \/ Removed(w) \/ Lost(w) \/ ReadCredentials(w)
             \/ Oust(w) \/ AddUser(w) \/ Look(w) \/ Undo(w) \/ Pushed(w)
      PROVE  KeyInv'
  <2>1. work[w].pc \notin Between
    BY <1>4 DEF Gate, RemoveUser, Removed, Lost, ReadCredentials, Oust, AddUser, Look, Undo, Pushed,
                Between
  <2>2. PICK t \in Tags : t = At(w)
    BY <2>1, Standing
  <2> QED
    BY <1>4, <2>2, KeyGate, KeyRemoveUser, KeyRemoved, KeyLost, KeyReadCredentials, KeyOust,
       KeyAddUser, KeyLook, KeyUndo, KeyPushed
<1> QED
  BY <1>1, <1>2, <1>3, <1>4 DEF Working

LEMMA NextKeyInv ==
  ASSUME ExtAssumption, IInv, KeyInv, [Next]_vars
  PROVE  KeyInv'
<1>1. ASSUME NEW w \in Workers, Starting(w) \/ Working(w) PROVE KeyInv'
  BY <1>1, KeyStarting, KeyWorking
<1>2. CASE UNCHANGED <<ext, server, work, doubt>>
  BY <1>2 DEF KeyInv, Keyed, Renews, Present
<1>3. CASE Restart
  <2>1. \A v \in Workers : Faces(v) \subseteq doubt'
    BY <1>3 DEF Restart
  <2>2. SUFFICES ASSUME NEW u \in Tags, u \notin doubt' PROVE Keyed(u)'
    BY DEF KeyInv
  <2>3. \A v \in Workers : ~Renews(v, u)
    BY <2>1, <2>2, FacesOf DEF Renews, IInv
  <2>4. ext' = ext /\ server' = server /\ doubt \subseteq doubt'
    BY <1>3 DEF Restart, db
  <2> QED
    BY <2>2, <2>3, <2>4, KeyedStays DEF KeyInv, Present
<1> QED
  BY <1>1, <1>2, <1>3 DEF Next, DetectNodes, vars

-----------------------------------------------------------------------------
(* The theorems.                                                           *)

LEMMA InitIInv ==
  ASSUME ExtAssumption, Init
  PROVE  IInv
<1>1. PICK key \in {0, 1} : server = [t \in Tags |-> key]
  BY DEF Init
<1>2. /\ mode = TRUE /\ instance = TRUE /\ node = [t \in Tags |-> "usable"]
      /\ ext = [life |-> "none", key |-> 0, exceeded |-> FALSE]
      /\ rows = [t \in Tags |-> "none"] /\ work = [w \in Workers |-> Idle]
      /\ chosen = {} /\ doubt = {t \in Tags : server[t] # 0} /\ starts = 0 /\ faults = 0
  BY DEF Init
<1>3. MaxKeys \in Nat /\ MaxKeys >= 2 /\ MaxStarts \in Nat /\ MaxFaults \in Nat
  BY DEF ExtAssumption
<1>4. Table
  BY <1>2, <1>3 DEF Table, Rows
<1>5. History
  BY <1>2, <1>3 DEF History
<1>6. Server
  BY <1>1, <1>3 DEF Server
<1>7. Work
  BY <1>2, IdleRow DEF Work
<1>8. \A w \in Workers : work[w] = Idle /\ Faces(w) = {} /\ ~Alive(w) /\ work[w].op = "none"
  BY <1>2, IdleRow DEF Faces, Alive
<1>9. PlaceInv
  BY <1>8, IdleRow DEF PlaceInv
<1>10. LifeInv
  BY <1>2, <1>8 DEF LifeInv
<1>11. ApartInv /\ FaceInv
  BY <1>8 DEF ApartInv, FaceInv
<1>12. CountInv
  BY <1>2, <1>8 DEF CountInv, Count, Present
<1> QED
  BY <1>4, <1>5, <1>6, <1>7, <1>9, <1>10, <1>11, <1>12, Parts DEF IInv

LEMMA StepStarting ==
  ASSUME ExtAssumption, IInv, NEW w \in Workers, Starting(w)
  PROVE  IInv'
<1>1. ASSUME NEW S \in SUBSET Tags, NEW generate \in BOOLEAN, NEW key \in {1, 2},
             CreateExt(w, S, generate, key)
      PROVE  IInv'
  BY <1>1, StepCreateExt
<1>2. ASSUME NEW S \in SUBSET Tags, NEW rekey \in BOOLEAN, UpdateExt(w, S, rekey) PROVE IInv'
  BY <1>2, StepUpdateExt
<1>3. ASSUME NEW S \in SUBSET Tags, RepairCredentials(w, S) PROVE IInv'
  BY <1>3, StepRepairCredentials
<1>4. CASE DeleteExt(w) \/ RetryExt(w) \/ ResetExtQuota(w) \/ CheckExtQuota(w)
  BY <1>4, StepDeleteExt, StepRetryExt, StepResetExtQuota, StepCheckExtQuota
<1>5. CASE RepairPush(w) \/ CleanOrphans(w) \/ DeleteInstance(w) \/ SubmitAdvancedMode(w)
  BY <1>5, StepRepairPush, StepCleanOrphans, StepDeleteInstance, StepSubmitAdvancedMode
<1> QED
  BY <1>1, <1>2, <1>3, <1>4, <1>5 DEF Starting

LEMMA StepWorking ==
  ASSUME ExtAssumption, IInv, KeyInv, NEW w \in Workers, Working(w)
  PROVE  IInv'
<1>1. CASE OffClear(w) \/ RaiseFlag(w)
  BY <1>1, StepOffClear, StepRaiseFlag
<1>2. ASSUME NEW t \in Tags, Pick(w, t) PROVE IInv'
  BY <1>2, StepPick
<1>3. ASSUME \/ Gate(w) \/ RemoveUser(w) \/ Removed(w) \/ Lost(w) \/ ReadCredentials(w)
             \/ Oust(w) \/ AddUser(w) \/ Look(w) \/ Undo(w) \/ Pushed(w)
      PROVE  IInv'
  <2>1. work[w].pc \notin Between
    BY <1>3 DEF Gate, RemoveUser, Removed, Lost, ReadCredentials, Oust, AddUser, Look, Undo, Pushed,
                Between
  <2>2. PICK t \in Tags : t = At(w)
    BY <2>1, Standing
  <2> QED
    BY <1>3, <2>2, StepGate, StepRemoveUser, StepRemoved, StepLost, StepReadCredentials, StepOust,
       StepAddUser, StepLook, StepUndo, StepPushed
<1> QED
  BY <1>1, <1>2, <1>3 DEF Working

LEMMA NextIInv ==
  ASSUME ExtAssumption, IInv, KeyInv, [Next]_vars
  PROVE  IInv'
<1>1. ASSUME NEW w \in Workers, Starting(w) \/ Working(w) PROVE IInv'
  BY <1>1, StepStarting, StepWorking
<1>2. ASSUME NEW listed \in SUBSET Tags, DetectNodes(listed) PROVE IInv'
  BY <1>2, StepDetectNodes
<1>3. CASE Restart
  BY <1>3, StepRestart
<1>4. CASE UNCHANGED vars
  <2>1. TypeOK'
    BY <1>4 DEF IInv, TypeOK, vars, Present
  <2> QED
    BY <1>4, <2>1, StepOutside DEF vars
<1> QED
  BY <1>1, <1>2, <1>3, <1>4 DEF Next

(* The invariant: what every operation may count on at the inbounds it has *)
(* before it, and what holds at every inbound, the credentials that are    *)
(* served there among it, unless something failed or ran together there.   *)
THEOREM Invariance == Spec => []Strong
<1>1. Init => Strong
  <2>1. ASSUME Init PROVE KeyInv
    BY <2>1 DEF Init, KeyInv, Keyed, Present
  <2> QED
    BY <2>1, ExtAssumption, InitIInv DEF Strong
<1>2. Strong /\ [Next]_vars => Strong'
  BY ExtAssumption, NextIInv, NextKeyInv DEF Strong
<1> QED
  BY <1>1, <1>2, PTL DEF Spec

(* Every variable keeps its type, and no row of an inbound outlives the    *)
(* account or the instance it hangs on.                                    *)
THEOREM Typed == Spec => []TypeOK
<1>1. Strong => TypeOK
  BY DEF Strong, IInv
<1> QED
  BY <1>1, Invariance, PTL

(* What the invariant says of an inbound where all is calm.                *)
LEMMA WhenCalm ==
  ASSUME ExtAssumption, IInv, KeyInv, NEW t \in Tags, Calm(t)
  PROVE  /\ server[t] # 0 => Present /\ rows[t] \in {"pending", "synced", "failed"}
         /\ Present => (rows[t] # "none" <=> t \in chosen)
         /\ Present => server[t] \in {0, ext.key}
         /\ rows[t] = "synced" => server[t] = ext.key
         /\ Present /\ ext.exceeded => server[t] = 0
<1>1. Count(t) /\ Keyed(t)
  BY DEF Calm, IInv, CountInv, KeyInv
<1>2. \A w \in Workers : t # work[w].tag /\ t \notin DOMAIN work[w].todo
  BY FacesOf DEF Calm, IInv
<1>3. \A w \in Workers : ~Withdraws(w, t) /\ ~Repairs(w, t) /\ ~Rewrites(w, t)
                           /\ ~Renews(w, t)
  BY <1>2 DEF Withdraws, Repairs, Rewrites, Renews
<1> QED
  BY <1>1, <1>3 DEF Count, Kept, Keyed

(* Wherever nothing failed and nothing is under way, the panel knows of    *)
(* every account on the server and what it records as done is done,        *)
(* through any number of operations that run together elsewhere: no        *)
(* account is left behind by a deletion, a dropped target or OFF, the      *)
(* targets are those chosen last, whatever is served is served with the    *)
(* present credentials, a target recorded as synced is served, and an      *)
(* account over its quota nowhere.                                         *)
THEOREM AgreesWithServer == Spec => []ServerAgrees
<1>1. ASSUME Strong PROVE ServerAgrees
  <2>1. TargetsMatchServer
    BY <1>1, ExtAssumption, WhenCalm DEF TargetsMatchServer, Strong
  <2>2. RecordsAreTrue
    BY <1>1, ExtAssumption, WhenCalm DEF RecordsAreTrue, Strong
  <2> QED
    BY <2>1, <2>2 DEF ServerAgrees
<1> QED
  BY <1>1, Invariance, PTL

=============================================================================
