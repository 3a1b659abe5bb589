------------------------ MODULE VersionStore_proofs ------------------------
(***************************************************************************)
(* Proofs about VersionStore, for any set of requests and downloads, any   *)
(* limit MaxVersions >= 2 and any bounds.                                  *)
(***************************************************************************)
EXTENDS VersionStore, FiniteSetTheorems, WellFoundedInduction, TLAPS

-----------------------------------------------------------------------------
(* Facts about finite sets of numbers.                                     *)

(* A non-empty set of naturals has a least element.                        *)
LEMMA LeastElement ==
  ASSUME NEW S \in SUBSET Nat, S # {}
  PROVE  \E m \in S : \A k \in S : m <= k
<1>1. PICK m \in S : \A k \in S : ~ (<<k, m>> \in OpToRel(<, Nat))
  BY WFMin, NatLessThanWellFounded, Zenon
<1>2. \A k \in S : ~ (k < m)
  BY <1>1 DEF OpToRel
<1> QED
  BY <1>2

(* Max of a bounded non-empty set of numbers is its greatest element.      *)
LEMMA MaxElement ==
  ASSUME NEW b \in Nat, NEW S \in SUBSET (1..b), S # {}
  PROVE  Max(S) \in S /\ \A k \in S : k <= Max(S)
<1> DEFINE U == {u \in Nat : \A k \in S : k <= u}
<1>1. b \in U /\ U \in SUBSET Nat
  OBVIOUS
<1> HIDE DEF U
<1>2. PICK m \in U : \A u \in U : m <= u
  BY <1>1, LeastElement
<1>3. m \in Nat /\ \A k \in S : k <= m
  BY DEF U
<1>4. m \in S
  <2>1. SUFFICES ASSUME m \notin S PROVE FALSE
    OBVIOUS
  <2>2. \A k \in S : k <= m - 1 /\ k \in Nat /\ k >= 1
    BY <2>1, <1>3
  <2>3. m >= 1
    <3>1. PICK k \in S : TRUE
      OBVIOUS
    <3> QED BY <3>1, <2>2, <1>3
  <2>4. m - 1 \in U
    BY <2>2, <2>3, <1>3 DEF U
  <2> QED
    BY <2>4, <1>2, <1>3
<1>5. \E x \in S : \A y \in S : x >= y
  BY <1>3, <1>4
<1> QED
  BY <1>5, <1>3 DEF Max

(* The number CreateVersion picks is above every existing one.             *)
LEMMA NextNoAbove ==
  ASSUME stamps \in Nat, DOMAIN rows \subseteq 1..stamps
  PROVE  NextNo \in 1..(stamps + 1) /\ \A k \in DOMAIN rows : k < NextNo
<1>1. CASE DOMAIN rows = {}
  BY <1>1 DEF NextNo
<1>2. CASE DOMAIN rows # {}
  <2>1. Max(DOMAIN rows) \in DOMAIN rows /\ \A k \in DOMAIN rows : k <= Max(DOMAIN rows)
    BY <1>2, MaxElement
  <2> QED
    BY <1>2, <2>1 DEF NextNo
<1> QED
  BY <1>1, <1>2

(* Eviction drops nothing while the limit holds, and otherwise the oldest  *)
(* version that is not current; the newest and the current one stay.       *)
LEMMA EvictionKeeps ==
  ASSUME MaxVersions \in Nat, MaxVersions >= 2,
         NEW old \in SUBSET Nat, IsFiniteSet(old), Cardinality(old) <= MaxVersions,
         NEW n \in Nat, \A k \in old : k < n,
         NEW cur \in old \cup {n}
  PROVE  LET all == old \cup {n}
             gone == Evicted(all, cur)
         IN  /\ gone \subseteq all
             /\ cur \notin gone /\ n \notin gone
             /\ Cardinality(all \ gone) <= MaxVersions
             /\ \A d \in gone, k \in (all \ gone) \ {cur} : d < k
             /\ gone = {} \/ Cardinality(old) = MaxVersions
<1> DEFINE all == old \cup {n}
           others == all \ {cur}
           Below(k) == {m \in others : m < k}
           gone == Evicted(all, cur)
<1>1. n \notin old
  OBVIOUS
<1>2. IsFiniteSet(all) /\ Cardinality(all) = Cardinality(old) + 1
  BY <1>1, FS_AddElement
<1>3. Cardinality(old) \in Nat
  BY FS_CardinalityType
<1>4. IsFiniteSet(others) /\ Cardinality(others) = Cardinality(all) - 1
  BY <1>2, FS_RemoveElement
<1>5. others \in SUBSET Nat /\ others \subseteq all
  OBVIOUS
<1>6. \A k \in others : /\ IsFiniteSet(Below(k)) /\ Cardinality(Below(k)) \in Nat
                        /\ (Cardinality(Below(k)) = 0 <=> Below(k) = {})
  <2>1. TAKE k \in others
  <2>2. Below(k) \subseteq others
    OBVIOUS
  <2> HIDE DEF Below
  <2> QED
    BY <2>2, <1>4, FS_Subset, FS_CardinalityType, FS_EmptySet
<1>7. gone = {k \in others : Cardinality(Below(k)) + MaxVersions < Cardinality(all)}
  BY DEF Evicted
<1>8. \A k \in others : \A m \in Below(k) : m \in others /\ m < k
  OBVIOUS
<1>9. \A k \in others : (\A m \in others : ~ (m < k)) => Below(k) = {}
  OBVIOUS
<1>10. \A k \in others : k < n => k \in Below(n)
  OBVIOUS
<1>11. \A k \in others : k # n => k < n
  OBVIOUS
<1> HIDE DEF gone, Below, others
<1>12. \A k \in gone : k \in others /\ Below(k) = {} /\ Cardinality(old) = MaxVersions
  <2>1. TAKE k \in gone
  <2>2. k \in others /\ Cardinality(Below(k)) + MaxVersions < Cardinality(all)
    BY <1>7
  <2>3. Cardinality(Below(k)) = 0 /\ Cardinality(old) = MaxVersions
    BY <2>2, <1>2, <1>3, <1>6
  <2> QED
    BY <2>2, <2>3, <1>6
<1>13. n \notin gone
  <2>1. SUFFICES ASSUME n \in gone PROVE FALSE
    OBVIOUS
  <2>2. others = {n}
    BY <2>1, <1>10, <1>11, <1>12
  <2>3. Cardinality(others) = 1
    BY <2>2, FS_Singleton
  <2> QED
    BY <2>1, <2>3, <1>2, <1>4, <1>12
<1>14. Cardinality(all \ gone) <= MaxVersions
  <2>1. CASE Cardinality(old) < MaxVersions
    <3>1. gone = {}
      BY <2>1, <1>12, <1>3
    <3>2. all \ gone = all
      BY <3>1
    <3> HIDE DEF all
    <3> QED BY <3>2, <2>1, <1>2, <1>3
  <2>2. CASE Cardinality(old) = MaxVersions
    <3>1. others # {}
      BY <2>2, <1>2, <1>4, FS_EmptySet
    <3>2. PICK m \in others : \A k \in others : m <= k
      BY <3>1, <1>5, LeastElement
    <3>3. Below(m) = {}
      BY <3>2, <1>5, <1>9
    <3>4. m \in gone
      BY <3>3, <1>6, <1>7, <1>2, <2>2
    <3>5. all \ gone \subseteq all \ {m} /\ m \in all
      BY <3>4, <1>5
    <3> HIDE DEF all
    <3>6. IsFiniteSet(all \ {m}) /\ Cardinality(all \ {m}) = Cardinality(all) - 1
      BY <1>2, <3>5, FS_RemoveElement
    <3>7. Cardinality(all \ gone) <= Cardinality(all \ {m}) /\ IsFiniteSet(all \ gone)
      BY <3>5, <3>6, FS_Subset
    <3>8. Cardinality(all \ gone) \in Nat
      BY <3>7, FS_CardinalityType
    <3> QED BY <3>6, <3>7, <3>8, <2>2, <1>2, <1>3
  <2> QED
    BY <2>1, <2>2, <1>3
<1>15. \A d \in gone, k \in (all \ gone) \ {cur} : d < k
  <2>1. TAKE d \in gone, k \in (all \ gone) \ {cur}
  <2>2. k \in others
    BY DEF others
  <2>3. d \in others /\ ~ (k < d)
    BY <2>2, <1>12, <1>9 DEF Below
  <2>4. k # d /\ k \in Nat /\ d \in Nat
    BY <2>2, <2>3, <1>5
  <2> QED
    BY <2>3, <2>4
<1>16. gone \subseteq all /\ cur \notin gone
  BY <1>12, <1>5 DEF others
<1>17. gone = {} \/ Cardinality(old) = MaxVersions
  BY <1>12
<1> HIDE DEF all
<1>18. /\ gone \subseteq all /\ cur \notin gone /\ n \notin gone
       /\ Cardinality(all \ gone) <= MaxVersions
       /\ \A d \in gone, k \in (all \ gone) \ {cur} : d < k
       /\ gone = {} \/ Cardinality(old) = MaxVersions
  BY <1>13, <1>14, <1>15, <1>16, <1>17
<1> QED
  BY <1>18 DEF gone, all

-----------------------------------------------------------------------------
(* The inductive invariant.                                                *)

\* SQLite has one writer, and a process that is down has none.
OneWriter ==
  /\ \A a, b \in Admins : admin[a].pc \in InTx /\ admin[b].pc \in InTx => a = b
  /\ ~up => \A a \in Admins : admin[a].pc = "idle"

\* Where the owner's life stands, what the requests may be doing with it.
LifeInv ==
  /\ life = "absent" => /\ DOMAIN rows = {} /\ link = 0
                        /\ \A a \in Admins : admin[a].pc = "idle"
  /\ life # "present" => current = 0
  /\ \A a \in Admins : /\ admin[a].pc = "staged" => life = "present"
                       /\ admin[a].pc = "rmdir" => life = "gone"

\* An open transaction holds a number that is new, or one that exists.
TxInv ==
  \A a \in Admins :
    /\ admin[a].pc \in {"written", "staged"} =>
         admin[a].no \in 1..stamps /\ \A k \in DOMAIN rows : k < admin[a].no
    /\ admin[a].pc = "switching" => admin[a].no \in DOMAIN rows

\* The bytes stamped s are in v<n>, and nobody is about to remove them.
Safe(n, s) ==
  /\ n \in DOMAIN files /\ files[n] = s
  /\ \A b \in Admins : n \notin admin[b].rm

FileInv ==
  life = "present" =>
    /\ \A n \in DOMAIN rows : n \notin raced => Safe(n, rows[n])
    /\ \A a \in Admins :
         admin[a].pc \in {"written", "staged"} /\ admin[a].no \notin raced
           => Safe(admin[a].no, stamps)

\* A transaction that has moved the symlink, and where it then points.
Moved(a) == admin[a].pc = "switching" \/ (admin[a].pc = "staged" /\ Activates(a))

LinkInv ==
  life = "present" =>
    /\ \A a \in Admins : Moved(a) => link = admin[a].no
    /\ (~torn /\ \A a \in Admins : ~Moved(a)) => link = current

ReaderInv == \A r \in Readers : reader[r].pc \in {"pointer", "path"} => reader[r].no # 0

IInv ==
  /\ TypeOK /\ OneWriter /\ LifeInv /\ TxInv
  /\ PointerHasRow /\ AtMostMaxVersions
  /\ FileInv /\ LinkInv /\ ReaderInv


(* What a request may be set to is a state of a request. *)
LEMMA AdminStates ==
  ASSUME TypeOK
  PROVE  /\ Idle \in AdminState
         /\ \A p \in {"ready", "rollback", "rmdir"} : [Idle EXCEPT !.pc = p] \in AdminState
         /\ \A n \in 1..stamps : [Idle EXCEPT !.pc = "switching", !.no = n] \in AdminState
         /\ \A S \in SUBSET (1..stamps) : Cleanup(S) \in AdminState
         /\ \A a \in Admins : /\ AfterFailure(a) \in AdminState
                              /\ [admin[a] EXCEPT !.pc = "staged"] \in AdminState
                              /\ admin[a].no \in 0..stamps
                              /\ admin[a].rm \subseteq 1..stamps
<1> USE DEF AdminState
<1>0. 0 \in 0..stamps /\ 1..stamps \subseteq 0..stamps
  BY StoreAssumption DEF TypeOK
<1>1. Idle \in AdminState
  BY <1>0 DEF Idle
<1>2. \A p \in {"ready", "rollback", "rmdir"} : [Idle EXCEPT !.pc = p] \in AdminState
  <2>1. TAKE p \in {"ready", "rollback", "rmdir"}
  <2> QED
    BY <1>0 DEF Idle
<1>3. \A n \in 1..stamps : [Idle EXCEPT !.pc = "switching", !.no = n] \in AdminState
  <2>1. TAKE n \in 1..stamps
  <2> QED
    BY <1>0 DEF Idle
<1>4. \A S \in SUBSET (1..stamps) : Cleanup(S) \in AdminState
  BY <1>1 DEF Cleanup, Idle
<1>5. \A a \in Admins : admin[a] \in AdminState
  BY DEF TypeOK
<1>6. \A a \in Admins : AfterFailure(a) \in AdminState
  BY <1>1, <1>2 DEF AfterFailure
<1>7. \A a \in Admins : /\ [admin[a] EXCEPT !.pc = "staged"] \in AdminState
                        /\ admin[a].no \in 0..stamps
                        /\ admin[a].rm \subseteq 1..stamps
  BY <1>5
<1> QED
  BY <1>1, <1>2, <1>3, <1>4, <1>6, <1>7

(* Every step keeps the types. *)
LEMMA TypeStep == TypeOK /\ TxInv /\ [Next]_vars => TypeOK'
<1> SUFFICES ASSUME TypeOK, TxInv, [Next]_vars PROVE TypeOK'
  OBVIOUS
<1>a. stamps \in Nat /\ faults \in Nat /\ MaxWrites \in Nat /\ MaxFaults \in Nat
  BY StoreAssumption DEF TypeOK
<1>b. stamps' = stamps => AdminState' = AdminState /\ ReaderState' = ReaderState
  BY DEF AdminState, ReaderState
<1>c. ASSUME NEW a \in Admins, NEW s \in AdminState, admin' = [admin EXCEPT ![a] = s],
             UNCHANGED <<stamps, reader>>
      PROVE  admin' \in [Admins -> AdminState'] /\ reader' \in [Readers -> ReaderState']
  BY <1>b, <1>c DEF TypeOK
<1>1. ASSUME NEW a \in Admins, NEW act \in BOOLEAN, NEW roll \in BOOLEAN,
             WriteVersionFile(a, act, roll)
      PROVE  TypeOK'
  <2>1. stamps' = stamps + 1 /\ stamps' \in 0..MaxWrites /\ NextNo \in 1..stamps'
    BY <1>1, <1>a, NextNoAbove DEF WriteVersionFile, TypeOK
  <2>2. \A s \in AdminState : s \in AdminState'
    BY <2>1, <1>a DEF AdminState
  <2>3. [pc |-> "written", no |-> NextNo, act |-> act, roll |-> roll, rm |-> {}] \in AdminState'
    BY <2>1, <1>a DEF AdminState
  <2>4. admin' \in [Admins -> AdminState']
    BY <1>1, <2>2, <2>3 DEF WriteVersionFile, Goto, TypeOK
  <2>5. \A s \in ReaderState : s \in ReaderState'
    BY <2>1, <1>a DEF ReaderState
  <2>6. reader' \in [Readers -> ReaderState']
    BY <1>1, <2>5 DEF WriteVersionFile, TypeOK
  <2>7. DOMAIN files' \subseteq 1..stamps' /\ files' \in [DOMAIN files' -> 1..stamps']
    BY <1>1, <2>1, <1>a DEF WriteVersionFile, TypeOK, With
  <2>8. DOMAIN rows' \subseteq 1..stamps' /\ rows' \in [DOMAIN rows' -> 1..stamps']
    BY <1>1, <2>1, <1>a DEF WriteVersionFile, TypeOK, db
  <2> QED
    BY <1>1, <1>a, <2>1, <2>4, <2>6, <2>7, <2>8 DEF WriteVersionFile, TypeOK, db
<1>2. CASE \E a \in Admins, act \in BOOLEAN : Upload(a, act)
  BY <1>1, <1>2 DEF Upload
<1>3. CASE \E a \in Admins : UploadWithOwner(a)
  BY <1>1, <1>3 DEF UploadWithOwner
<1>4. ASSUME NEW a \in Admins, UploadRejected(a) PROVE TypeOK'
  <2>1. admin' \in [Admins -> AdminState'] /\ reader' \in [Readers -> ReaderState']
    BY <1>4, <1>c, AdminStates DEF UploadRejected, db, history, Goto
  <2> QED
    BY <1>4, <1>a, <2>1 DEF UploadRejected, db, history, TypeOK
<1>5. ASSUME NEW a \in Admins, StageVersion(a) PROVE TypeOK'
  <2>1. admin' \in [Admins -> AdminState'] /\ reader' \in [Readers -> ReaderState']
    BY <1>5, <1>c, AdminStates DEF StageVersion, db, history, Goto
  <2> QED
    BY <1>5, <1>a, <2>1, AdminStates DEF StageVersion, db, history, TypeOK
<1>6. ASSUME NEW a \in Admins, AbortVersion(a) PROVE TypeOK'
  <2>1. admin' \in [Admins -> AdminState'] /\ reader' \in [Readers -> ReaderState']
    BY <1>6, <1>c, AdminStates DEF AbortVersion, Without, db, history, Goto
  <2> QED
    BY <1>6, <1>a, <2>1 DEF AbortVersion, Without, db, history, TypeOK
<1>7. ASSUME NEW a \in Admins, CommitVersion(a) PROVE TypeOK'
  <2>1. PICK S \in SUBSET (1..stamps) : admin' = [admin EXCEPT ![a] = Cleanup(S)]
    <3>1. Evicted(DOMAIN rows \cup {admin[a].no}, IF Activates(a) THEN admin[a].no ELSE current)
            \subseteq DOMAIN rows \cup {admin[a].no}
      BY DEF Evicted
    <3>2. admin[a].no \in 1..stamps
      BY <1>7 DEF CommitVersion, TxInv
    <3> QED
      BY <1>7, <3>1, <3>2 DEF CommitVersion, Goto, TypeOK
  <2>2. admin' \in [Admins -> AdminState'] /\ reader' \in [Readers -> ReaderState']
    BY <1>7, <2>1, <1>c, AdminStates DEF CommitVersion
  <2> QED
    BY <1>7, <1>a, <2>2 DEF CommitVersion, TypeOK, TxInv
<1>8. ASSUME NEW a \in Admins, LoseVersion(a) PROVE TypeOK'
  <2>1. admin' \in [Admins -> AdminState'] /\ reader' \in [Readers -> ReaderState']
    BY <1>8, <1>c, AdminStates DEF LoseVersion, db, Goto
  <2> QED
    BY <1>8, <1>a, <2>1 DEF LoseVersion, db, TypeOK
<1>9. ASSUME NEW a \in Admins, NEW n \in DOMAIN rows, SwitchVersion(a, n) PROVE TypeOK'
  <2>1. admin' \in [Admins -> AdminState'] /\ reader' \in [Readers -> ReaderState']
    BY <1>9, <1>c, AdminStates DEF SwitchVersion, Free, db, history, Goto, TypeOK
  <2> QED
    BY <1>9, <1>a, <2>1 DEF SwitchVersion, Free, db, history, TypeOK
<1>10. ASSUME NEW a \in Admins, CommitSwitch(a) PROVE TypeOK'
  <2>1. admin' \in [Admins -> AdminState'] /\ reader' \in [Readers -> ReaderState']
    BY <1>10, <1>c, AdminStates DEF CommitSwitch, Goto
  <2> QED
    BY <1>10, <1>a, <2>1, AdminStates DEF CommitSwitch, TypeOK
<1>11. ASSUME NEW a \in Admins, LoseSwitch(a) PROVE TypeOK'
  <2>1. admin' \in [Admins -> AdminState'] /\ reader' \in [Readers -> ReaderState']
    BY <1>11, <1>c, AdminStates DEF LoseSwitch, db, Goto
  <2> QED
    BY <1>11, <1>a, <2>1 DEF LoseSwitch, db, TypeOK
<1>12. ASSUME NEW a \in Admins, NEW n \in DOMAIN rows, DeleteVersion(a, n) PROVE TypeOK'
  <2>1. admin' \in [Admins -> AdminState'] /\ reader' \in [Readers -> ReaderState']
    BY <1>12, <1>c, AdminStates DEF DeleteVersion, Without, Free, history, Goto, TypeOK
  <2> QED
    BY <1>12, <1>a, <2>1 DEF DeleteVersion, Without, Free, history, TypeOK
<1>13. ASSUME NEW a \in Admins, NEW n \in admin[a].rm, RemoveVersionFile(a, n) PROVE TypeOK'
  <2>1. admin' \in [Admins -> AdminState'] /\ reader' \in [Readers -> ReaderState']
    BY <1>13, <1>c, AdminStates DEF RemoveVersionFile, Without, db, history, Goto, TypeOK
  <2> QED
    BY <1>13, <1>a, <2>1 DEF RemoveVersionFile, Without, db, history, TypeOK
<1>14. ASSUME NEW a \in Admins, NEW first \in BOOLEAN, CreateOwner(a, first) PROVE TypeOK'
  <2>1. admin' \in [Admins -> AdminState'] /\ reader' \in [Readers -> ReaderState']
    BY <1>14, <1>c, AdminStates DEF CreateOwner, Free, history, Goto
  <2> QED
    BY <1>14, <1>a, <2>1 DEF CreateOwner, Free, history, TypeOK
<1>15. ASSUME NEW a \in Admins, OverwriteCustom(a) PROVE TypeOK'
  <2>1. admin' \in [Admins -> AdminState'] /\ reader' \in [Readers -> ReaderState']
    BY <1>15, <1>c, AdminStates DEF OverwriteCustom, Free, db, history, Goto
  <2> QED
    BY <1>15, <1>a, <2>1 DEF OverwriteCustom, Free, db, history, TypeOK
<1>16. ASSUME NEW a \in Admins, RollbackRecord(a) PROVE TypeOK'
  <2>1. admin' \in [Admins -> AdminState'] /\ reader' \in [Readers -> ReaderState']
    BY <1>16, <1>c, AdminStates DEF RollbackRecord, history, Goto
  <2> QED
    BY <1>16, <1>a, <2>1 DEF RollbackRecord, history, TypeOK
<1>17. ASSUME NEW a \in Admins, RollbackRecordFails(a) PROVE TypeOK'
  <2>1. admin' \in [Admins -> AdminState'] /\ reader' \in [Readers -> ReaderState']
    BY <1>17, <1>c, AdminStates DEF RollbackRecordFails, db, history, Goto
  <2> QED
    BY <1>17, <1>a, <2>1 DEF RollbackRecordFails, db, history, TypeOK
<1>18. ASSUME NEW a \in Admins, DeleteOwner(a) PROVE TypeOK'
  <2>1. admin' \in [Admins -> AdminState'] /\ reader' \in [Readers -> ReaderState']
    BY <1>18, <1>c, AdminStates DEF DeleteOwner, Free, Empty, history, Goto
  <2> QED
    BY <1>18, <1>a, <2>1 DEF DeleteOwner, Free, Empty, history, TypeOK
<1>19. ASSUME NEW a \in Admins, RemoveOwnerDir(a) PROVE TypeOK'
  <2>1. admin' \in [Admins -> AdminState'] /\ reader' \in [Readers -> ReaderState']
    BY <1>19, <1>c, AdminStates DEF RemoveOwnerDir, Empty, db, history, Goto
  <2>2. \/ files' = Empty /\ link' = 0
        \/ UNCHANGED <<files, link>>
    BY <1>19 DEF RemoveOwnerDir
  <2>3. DOMAIN Empty = {} /\ Empty \in [{} -> 1..stamps]
    BY DEF Empty
  <2>4. /\ DOMAIN files' \subseteq 1..stamps /\ files' \in [DOMAIN files' -> 1..stamps]
        /\ link' \in 0..stamps
    <3>1. CASE files' = Empty /\ link' = 0
      <4>1. DOMAIN files' = {} /\ files' \in [{} -> 1..stamps]
        BY <2>3, <3>1
      <4> QED
        BY <1>a, <3>1, <4>1
    <3>2. CASE UNCHANGED <<files, link>>
      BY <3>2 DEF TypeOK
    <3> QED
      BY <2>2, <3>1, <3>2
  <2> QED
    BY <1>19, <2>1, <2>4 DEF RemoveOwnerDir, db, history, TypeOK
<1>20. ASSUME NEW r \in Readers, ReaderStep(r) PROVE TypeOK'
  <2>1. reader' \in [Readers -> ReaderState']
    BY <1>20, <1>a DEF ReaderStep, ReadPointer, LookUpRow, ReadFile, TypeOK, ReaderState, Unread
  <2> QED
    BY <1>20, <1>b, <2>1 DEF ReaderStep, ReadPointer, LookUpRow, ReadFile, TypeOK, db, history
<1>21. CASE Crash
  <2>1. admin' \in [Admins -> AdminState']
    BY <1>21, <1>b, AdminStates DEF Crash
  <2>2. reader' \in [Readers -> ReaderState']
    BY <1>21, <1>a DEF Crash, ReaderState, Unread
  <2>3. torn' \in BOOLEAN
    BY <1>21 DEF Crash, TypeOK
  <2>4. UNCHANGED <<life, rows, current, files, link, stamps, raced>> /\ up' = FALSE
        /\ faults' \in 0..MaxFaults
    BY <1>21, <1>a DEF Crash, db, TypeOK
  <2> QED
    BY <2>1, <2>2, <2>3, <2>4 DEF TypeOK
<1>22. CASE Restart
  BY <1>22, <1>b DEF Restart, TypeOK, db
<1>23. CASE UNCHANGED vars
  BY <1>23, <1>b DEF vars, TypeOK
<1> QED
  BY <1>2, <1>3, <1>4, <1>5, <1>6, <1>7, <1>8, <1>9, <1>10, <1>11, <1>12, <1>13, <1>14, <1>15, <1>16, <1>17, <1>18, <1>19, <1>20, <1>21, <1>22, <1>23 DEF Next, AdminStep

(* Where the states a request is set to stand. *)
LEMMA Pcs ==
  /\ Idle.pc = "idle" /\ Idle.rm = {}
  /\ \A S : Cleanup(S).pc \notin InTx \cup {"rmdir"} /\ Cleanup(S).rm \subseteq S
  /\ \A a \in Admins : AfterFailure(a).pc \notin InTx \cup {"rmdir"} /\ AfterFailure(a).rm = {}
BY DEF Idle, Cleanup, AfterFailure, InTx

(* The request that moves changes, and no other does. *)
LEMMA OthersStay ==
  ASSUME TypeOK, NEW a \in Admins, NEW s, Goto(a, s)
  PROVE  admin'[a] = s /\ \A b \in Admins \ {a} : admin'[b] = admin[b]
BY DEF Goto, TypeOK

(* Writers, lives and transactions: one request at a time changes what the others rely on. *)
LEMMA TxStep ==
  ASSUME TypeOK, OneWriter, LifeInv, TxInv, [Next]_vars
  PROVE  OneWriter' /\ LifeInv' /\ TxInv'
<1>a. stamps \in Nat
  BY StoreAssumption DEF TypeOK
<1>1. ASSUME NEW a \in Admins, NEW act \in BOOLEAN, NEW roll \in BOOLEAN,
             WriteVersionFile(a, act, roll), life # "absent", admin[a].pc \in {"idle", "ready"}
      PROVE  OneWriter' /\ LifeInv' /\ TxInv'
  <2>1. /\ NextNo \in 1..stamps' /\ stamps' = stamps + 1
        /\ \A k \in DOMAIN rows : k < NextNo
    BY <1>1, <1>a, NextNoAbove DEF WriteVersionFile, TypeOK
  <2>2. /\ admin'[a] = [pc |-> "written", no |-> NextNo, act |-> act, roll |-> roll, rm |-> {}]
        /\ \A b \in Admins \ {a} : admin'[b] = admin[b]
    BY <1>1, OthersStay DEF WriteVersionFile
  <2>3. OneWriter'
    BY <1>1, <2>2 DEF WriteVersionFile, OneWriter, TxOpen, InTx
  <2>4. LifeInv'
    BY <1>1, <2>2 DEF WriteVersionFile, LifeInv, db
  <2>5. TxInv'
    BY <1>1, <2>1, <2>2 DEF WriteVersionFile, TxInv, TxOpen, InTx, db
  <2> QED
    BY <2>3, <2>4, <2>5
<1>2. ASSUME NEW a \in Admins, NEW act \in BOOLEAN, Upload(a, act)
      PROVE  OneWriter' /\ LifeInv' /\ TxInv'
  BY <1>1, <1>2 DEF Upload
<1>3. ASSUME NEW a \in Admins, UploadWithOwner(a) PROVE OneWriter' /\ LifeInv' /\ TxInv'
  BY <1>1, <1>3 DEF UploadWithOwner, LifeInv
<1>4. ASSUME NEW a \in Admins, UploadRejected(a)
      PROVE  OneWriter' /\ LifeInv' /\ TxInv'
  <2>2. /\ admin'[a].pc = "rollback"
        /\ \A b \in Admins \ {a} : admin'[b] = admin[b]
    BY <1>4, OthersStay DEF UploadRejected, Idle
  <2>3. OneWriter'
    BY <1>4, <2>2 DEF UploadRejected, OneWriter, InTx
  <2>4. LifeInv'
    BY <1>4, <2>2 DEF UploadRejected, LifeInv, InTx, db
  <2>5. TxInv'
    BY <1>4, <1>a, <2>2 DEF UploadRejected, TxInv, InTx, db
  <2> QED
    BY <2>3, <2>4, <2>5
<1>5. ASSUME NEW a \in Admins, StageVersion(a)
      PROVE  OneWriter' /\ LifeInv' /\ TxInv'
  <2>2. /\ admin'[a].pc = "staged" /\ admin'[a].no = admin[a].no
        /\ \A b \in Admins \ {a} : admin'[b] = admin[b]
    BY <1>5, OthersStay DEF StageVersion, TypeOK, AdminState
  <2>3. OneWriter'
    BY <1>5, <2>2 DEF StageVersion, OneWriter, InTx
  <2>4. LifeInv'
    BY <1>5, <2>2 DEF StageVersion, LifeInv, InTx, db
  <2>5. TxInv'
    BY <1>5, <1>a, <2>2 DEF StageVersion, TxInv, InTx, db
  <2> QED
    BY <2>3, <2>4, <2>5
<1>6. ASSUME NEW a \in Admins, AbortVersion(a)
      PROVE  OneWriter' /\ LifeInv' /\ TxInv'
  <2>2. /\ admin'[a].pc \notin InTx \cup {"rmdir"}
        /\ \A b \in Admins \ {a} : admin'[b] = admin[b]
    BY <1>6, OthersStay, Pcs DEF AbortVersion
  <2>3. OneWriter'
    BY <1>6, <2>2 DEF AbortVersion, OneWriter, InTx
  <2>4. LifeInv'
    BY <1>6, <2>2 DEF AbortVersion, LifeInv, InTx, db
  <2>5. TxInv'
    BY <1>6, <1>a, <2>2 DEF AbortVersion, TxInv, InTx, db
  <2> QED
    BY <2>3, <2>4, <2>5
<1>7. ASSUME NEW a \in Admins, CommitVersion(a)
      PROVE  OneWriter' /\ LifeInv' /\ TxInv'
  <2>1. PICK S \in SUBSET (DOMAIN rows \cup {admin[a].no}) : admin' = [admin EXCEPT ![a] = Cleanup(S)]
    BY <1>7 DEF CommitVersion, Evicted, Goto
  <2>2. /\ admin'[a].pc \notin InTx \cup {"rmdir"}
        /\ \A b \in Admins \ {a} : admin'[b] = admin[b]
    BY <2>1, Pcs DEF TypeOK
  <2>3. OneWriter'
    BY <1>7, <2>2 DEF CommitVersion, OneWriter, InTx
  <2>4. LifeInv'
    BY <1>7, <2>2 DEF CommitVersion, LifeInv, InTx, db
  <2>5. TxInv'
    BY <1>7, <2>2 DEF CommitVersion, OneWriter, TxInv, InTx
  <2> QED
    BY <2>3, <2>4, <2>5
<1>8. ASSUME NEW a \in Admins, LoseVersion(a)
      PROVE  OneWriter' /\ LifeInv' /\ TxInv'
  <2>2. /\ admin'[a].pc \notin InTx \cup {"rmdir"}
        /\ \A b \in Admins \ {a} : admin'[b] = admin[b]
    BY <1>8, OthersStay, Pcs DEF LoseVersion
  <2>3. OneWriter'
    BY <1>8, <2>2 DEF LoseVersion, OneWriter, InTx
  <2>4. LifeInv'
    BY <1>8, <2>2 DEF LoseVersion, LifeInv, InTx, db
  <2>5. TxInv'
    BY <1>8, <1>a, <2>2 DEF LoseVersion, TxInv, InTx, db
  <2> QED
    BY <2>3, <2>4, <2>5
<1>9. ASSUME NEW a \in Admins, NEW n \in DOMAIN rows, SwitchVersion(a, n)
      PROVE  OneWriter' /\ LifeInv' /\ TxInv'
  <2>1. /\ admin'[a] = [Idle EXCEPT !.pc = "switching", !.no = n]
        /\ \A b \in Admins \ {a} : admin'[b] = admin[b]
    BY <1>9, OthersStay DEF SwitchVersion
  <2>2. /\ admin'[a].pc = "switching" /\ admin'[a].no = n
        /\ \A b \in Admins \ {a} : admin'[b] = admin[b]
    BY <2>1 DEF Idle
  <2>3. OneWriter'
    BY <1>9, <2>2 DEF SwitchVersion, Free, TxOpen, OneWriter, InTx
  <2>4. LifeInv'
    BY <1>9, <2>2 DEF SwitchVersion, Free, TxOpen, LifeInv, InTx, db
  <2>5. TxInv'
    BY <1>9, <1>a, <2>2 DEF SwitchVersion, Free, TxOpen, TxInv, InTx, db
  <2> QED
    BY <2>3, <2>4, <2>5
<1>10. ASSUME NEW a \in Admins, CommitSwitch(a)
      PROVE  OneWriter' /\ LifeInv' /\ TxInv'
  <2>2. /\ admin'[a].pc = "idle"
        /\ \A b \in Admins \ {a} : admin'[b] = admin[b]
    BY <1>10, OthersStay, Pcs DEF CommitSwitch
  <2>3. OneWriter'
    BY <1>10, <2>2 DEF CommitSwitch, OneWriter, InTx
  <2>4. LifeInv'
    BY <1>10, <2>2 DEF CommitSwitch, LifeInv, InTx, db
  <2>5. TxInv'
    BY <1>10, <1>a, <2>2 DEF CommitSwitch, TxInv, InTx, db
  <2> QED
    BY <2>3, <2>4, <2>5
<1>11. ASSUME NEW a \in Admins, LoseSwitch(a)
      PROVE  OneWriter' /\ LifeInv' /\ TxInv'
  <2>2. /\ admin'[a].pc = "idle"
        /\ \A b \in Admins \ {a} : admin'[b] = admin[b]
    BY <1>11, OthersStay, Pcs DEF LoseSwitch
  <2>3. OneWriter'
    BY <1>11, <2>2 DEF LoseSwitch, OneWriter, InTx
  <2>4. LifeInv'
    BY <1>11, <2>2 DEF LoseSwitch, LifeInv, InTx, db
  <2>5. TxInv'
    BY <1>11, <1>a, <2>2 DEF LoseSwitch, TxInv, InTx, db
  <2> QED
    BY <2>3, <2>4, <2>5
<1>12. ASSUME NEW a \in Admins, NEW n \in DOMAIN rows, DeleteVersion(a, n)
      PROVE  OneWriter' /\ LifeInv' /\ TxInv'
  <2>2. /\ admin'[a].pc \notin InTx \cup {"rmdir"}
        /\ \A b \in Admins \ {a} : admin'[b] = admin[b]
    BY <1>12, OthersStay, Pcs DEF DeleteVersion
  <2>3. OneWriter'
    BY <1>12, <2>2 DEF DeleteVersion, Free, TxOpen, OneWriter, InTx
  <2>4. LifeInv'
    BY <1>12, <2>2 DEF DeleteVersion, Free, TxOpen, LifeInv, InTx, db
  <2>5. TxInv'
    BY <1>12, <1>a, <2>2 DEF DeleteVersion, Free, TxOpen, TxInv, InTx, db
  <2> QED
    BY <2>3, <2>4, <2>5
<1>13. ASSUME NEW a \in Admins, NEW n \in admin[a].rm, RemoveVersionFile(a, n)
      PROVE  OneWriter' /\ LifeInv' /\ TxInv'
  <2>2. /\ admin'[a].pc \notin InTx \cup {"rmdir"}
        /\ \A b \in Admins \ {a} : admin'[b] = admin[b]
    BY <1>13, OthersStay, Pcs DEF RemoveVersionFile
  <2>3. OneWriter'
    BY <1>13, <2>2 DEF RemoveVersionFile, OneWriter, InTx
  <2>4. LifeInv'
    BY <1>13, <2>2 DEF RemoveVersionFile, LifeInv, InTx, db
  <2>5. TxInv'
    BY <1>13, <1>a, <2>2 DEF RemoveVersionFile, TxInv, InTx, db
  <2> QED
    BY <2>3, <2>4, <2>5
<1>14. ASSUME NEW a \in Admins, NEW first \in BOOLEAN, CreateOwner(a, first)
      PROVE  OneWriter' /\ LifeInv' /\ TxInv'
  <2>2. /\ admin'[a].pc \in {"idle", "ready"}
        /\ \A b \in Admins \ {a} : admin'[b] = admin[b]
    BY <1>14, OthersStay DEF CreateOwner, Idle
  <2>3. OneWriter'
    BY <1>14, <2>2 DEF CreateOwner, Free, TxOpen, OneWriter, InTx
  <2>4. LifeInv'
    BY <1>14, <2>2 DEF CreateOwner, Free, TxOpen, LifeInv, InTx, db
  <2>5. TxInv'
    BY <1>14, <1>a, <2>2 DEF CreateOwner, Free, TxOpen, TxInv, InTx, db
  <2> QED
    BY <2>3, <2>4, <2>5
<1>15. ASSUME NEW a \in Admins, OverwriteCustom(a)
      PROVE  OneWriter' /\ LifeInv' /\ TxInv'
  <2>2. /\ admin'[a].pc = "ready"
        /\ \A b \in Admins \ {a} : admin'[b] = admin[b]
    BY <1>15, OthersStay DEF OverwriteCustom, Idle
  <2>3. OneWriter'
    BY <1>15, <2>2 DEF OverwriteCustom, Free, TxOpen, OneWriter, InTx
  <2>4. LifeInv'
    BY <1>15, <2>2 DEF OverwriteCustom, Free, TxOpen, LifeInv, InTx, db
  <2>5. TxInv'
    BY <1>15, <1>a, <2>2 DEF OverwriteCustom, Free, TxOpen, TxInv, InTx, db
  <2> QED
    BY <2>3, <2>4, <2>5
<1>16. ASSUME NEW a \in Admins, RollbackRecord(a)
      PROVE  OneWriter' /\ LifeInv' /\ TxInv'
  <2>2. /\ admin'[a].pc = "idle"
        /\ \A b \in Admins \ {a} : admin'[b] = admin[b]
    BY <1>16, OthersStay, Pcs DEF RollbackRecord
  <2>3. OneWriter'
    BY <1>16, <2>2 DEF RollbackRecord, TxOpen, OneWriter, InTx
  <2>4. LifeInv'
    BY <1>16, <2>2 DEF RollbackRecord, TxOpen, LifeInv, InTx, db
  <2>5. TxInv'
    BY <1>16, <1>a, <2>2 DEF RollbackRecord, TxOpen, TxInv, InTx, db
  <2> QED
    BY <2>3, <2>4, <2>5
<1>17. ASSUME NEW a \in Admins, RollbackRecordFails(a)
      PROVE  OneWriter' /\ LifeInv' /\ TxInv'
  <2>2. /\ admin'[a].pc = "idle"
        /\ \A b \in Admins \ {a} : admin'[b] = admin[b]
    BY <1>17, OthersStay, Pcs DEF RollbackRecordFails
  <2>3. OneWriter'
    BY <1>17, <2>2 DEF RollbackRecordFails, OneWriter, InTx
  <2>4. LifeInv'
    BY <1>17, <2>2 DEF RollbackRecordFails, LifeInv, InTx, db
  <2>5. TxInv'
    BY <1>17, <1>a, <2>2 DEF RollbackRecordFails, TxInv, InTx, db
  <2> QED
    BY <2>3, <2>4, <2>5
<1>18. ASSUME NEW a \in Admins, DeleteOwner(a)
      PROVE  OneWriter' /\ LifeInv' /\ TxInv'
  <2>2. /\ admin'[a].pc = "rmdir"
        /\ \A b \in Admins \ {a} : admin'[b] = admin[b]
    BY <1>18, OthersStay DEF DeleteOwner, Idle
  <2>3. OneWriter'
    BY <1>18, <2>2 DEF DeleteOwner, Free, TxOpen, OneWriter, InTx
  <2>4. LifeInv'
    BY <1>18, <2>2 DEF DeleteOwner, Free, TxOpen, LifeInv, InTx, db
  <2>5. TxInv'
    BY <1>18, <1>a, <2>2 DEF DeleteOwner, Free, TxOpen, TxInv, InTx, db
  <2> QED
    BY <2>3, <2>4, <2>5
<1>19. ASSUME NEW a \in Admins, RemoveOwnerDir(a)
      PROVE  OneWriter' /\ LifeInv' /\ TxInv'
  <2>2. /\ admin'[a].pc = "idle"
        /\ \A b \in Admins \ {a} : admin'[b] = admin[b]
    BY <1>19, OthersStay, Pcs DEF RemoveOwnerDir
  <2>3. OneWriter'
    BY <1>19, <2>2 DEF RemoveOwnerDir, OneWriter, InTx
  <2>4. LifeInv'
    BY <1>19, <2>2 DEF RemoveOwnerDir, LifeInv, InTx, db
  <2>5. TxInv'
    BY <1>19, <1>a, <2>2 DEF RemoveOwnerDir, TxInv, InTx, db
  <2> QED
    BY <2>3, <2>4, <2>5
<1>20. ASSUME NEW r \in Readers, ReaderStep(r) PROVE OneWriter' /\ LifeInv' /\ TxInv'
  BY <1>20 DEF ReaderStep, ReadPointer, LookUpRow, ReadFile, OneWriter, LifeInv, TxInv, db
<1>21. CASE Crash
  <2>1. \A a \in Admins : admin'[a].pc = "idle"
    BY <1>21, Pcs DEF Crash
  <2> QED
    BY <1>21, <2>1 DEF Crash, OneWriter, LifeInv, TxInv, InTx, db
<1>22. CASE Restart
  BY <1>22 DEF Restart, OneWriter, LifeInv, TxInv, InTx, db
<1>23. CASE UNCHANGED vars
  BY <1>23 DEF vars, OneWriter, LifeInv, TxInv
<1> QED
  BY <1>2, <1>3, <1>4, <1>5, <1>6, <1>7, <1>8, <1>9, <1>10, <1>11, <1>12, <1>13, <1>14, <1>15, <1>16, <1>17, <1>18, <1>19, <1>20, <1>21, <1>22, <1>23 DEF Next, AdminStep

(* The version rows are finitely many. *)
LEMMA FiniteRows == TypeOK => IsFiniteSet(DOMAIN rows)
<1> SUFFICES ASSUME TypeOK PROVE IsFiniteSet(DOMAIN rows)
  OBVIOUS
<1>1. stamps \in Int /\ 1 \in Int
  BY StoreAssumption DEF TypeOK
<1>2. IsFiniteSet(1..stamps)
  BY <1>1, FS_Interval
<1> QED
  BY <1>2, FS_Subset DEF TypeOK

(* What a commit does to the rows: they stay within the limit, with the    *)
(* new number and the one that is then current, and lose only the oldest.  *)
LEMMA CommitKeeps ==
  ASSUME TypeOK, LifeInv, TxInv, PointerHasRow, AtMostMaxVersions,
         NEW a \in Admins, CommitVersion(a)
  PROVE  /\ life = "present" /\ life' = life
         /\ current' = IF Activates(a) THEN admin[a].no ELSE current
         /\ admin[a].no \in DOMAIN rows' /\ current' \in DOMAIN rows'
         /\ DOMAIN rows' \subseteq DOMAIN rows \cup {admin[a].no}
         /\ Cardinality(DOMAIN rows') <= MaxVersions
         /\ \A d \in DOMAIN rows \ DOMAIN rows', k \in DOMAIN rows' \ {current'} : d < k
         /\ DOMAIN rows \subseteq DOMAIN rows' \/ Cardinality(DOMAIN rows) = MaxVersions
<1> DEFINE n == admin[a].no
           old == DOMAIN rows
           cur == IF Activates(a) THEN n ELSE current
           gone == Evicted(old \cup {n}, cur)
<1>1. life = "present" /\ life' = life
  BY DEF CommitVersion, LifeInv
<1>2. n \in Nat /\ \A k \in old : k < n
  BY DEF CommitVersion, TxInv
<1>3. stamps \in Nat /\ old \subseteq 1..stamps /\ MaxVersions \in Nat /\ MaxVersions >= 2
  BY StoreAssumption DEF TypeOK
<1>4. IsFiniteSet(old)
  BY FiniteRows
<1>5. cur \in old \cup {n}
  BY <1>1 DEF PointerHasRow, Activates
<1>6. Cardinality(old) <= MaxVersions
  BY DEF AtMostMaxVersions
<1>7. current' = cur /\ DOMAIN rows' = (old \cup {n}) \ gone
  BY DEF CommitVersion
<1>8. old \in SUBSET Nat
  BY <1>3
<1> HIDE DEF old, n, cur
<1>9. /\ gone \subseteq old \cup {n}
      /\ cur \notin gone /\ n \notin gone
      /\ Cardinality((old \cup {n}) \ gone) <= MaxVersions
      /\ \A d \in gone, k \in ((old \cup {n}) \ gone) \ {cur} : d < k
      /\ gone = {} \/ Cardinality(old) = MaxVersions
  BY <1>2, <1>3, <1>4, <1>5, <1>6, <1>8, EvictionKeeps
<1> HIDE DEF gone
<1>10. /\ n \in DOMAIN rows' /\ current' \in DOMAIN rows' /\ DOMAIN rows' \subseteq old \cup {n}
       /\ Cardinality(DOMAIN rows') <= MaxVersions
       /\ \A d \in old \ DOMAIN rows', k \in DOMAIN rows' \ {current'} : d < k
       /\ old \subseteq DOMAIN rows' \/ Cardinality(old) = MaxVersions
  BY <1>5, <1>7, <1>9
<1> QED
  BY <1>1, <1>7, <1>10 DEF old, n, cur

(* Only six kinds of step change what the database says of the resource.   *)
LEMMA DbSteps ==
  ASSUME [Next]_vars, TypeOK
  PROVE  \/ UNCHANGED db
         \/ \E a \in Admins : \/ CommitVersion(a) \/ CommitSwitch(a)
                              \/ \E n \in DOMAIN rows : DeleteVersion(a, n)
                              \/ \E first \in BOOLEAN : CreateOwner(a, first)
                              \/ RollbackRecord(a) \/ DeleteOwner(a)
<1>1. ASSUME NEW a \in Admins, AdminStep(a)
      PROVE  \/ UNCHANGED db
             \/ CommitVersion(a) \/ CommitSwitch(a)
             \/ \E n \in DOMAIN rows : DeleteVersion(a, n)
             \/ \E first \in BOOLEAN : CreateOwner(a, first)
             \/ RollbackRecord(a) \/ DeleteOwner(a)
  <2>1. CASE (\E act \in BOOLEAN : Upload(a, act)) \/ UploadWithOwner(a)
    BY <2>1 DEF Upload, UploadWithOwner, WriteVersionFile
  <2>2. CASE UploadRejected(a) \/ StageVersion(a) \/ AbortVersion(a) \/ LoseVersion(a)
    BY <2>2 DEF UploadRejected, StageVersion, AbortVersion, LoseVersion
  <2>3. CASE (\E n \in DOMAIN rows : SwitchVersion(a, n)) \/ LoseSwitch(a) \/ OverwriteCustom(a)
    BY <2>3 DEF SwitchVersion, LoseSwitch, OverwriteCustom
  <2>4. CASE \/ \E n \in admin[a].rm : RemoveVersionFile(a, n)
             \/ RollbackRecordFails(a) \/ RemoveOwnerDir(a)
    BY <2>4 DEF RemoveVersionFile, RollbackRecordFails, RemoveOwnerDir
  <2> QED
    BY <1>1, <2>1, <2>2, <2>3, <2>4 DEF AdminStep
<1>2. ASSUME NEW r \in Readers, ReaderStep(r) PROVE UNCHANGED db
  BY <1>2 DEF ReaderStep, ReadPointer, LookUpRow, ReadFile
<1>3. Crash \/ Restart \/ UNCHANGED vars => UNCHANGED db
  BY DEF Crash, Restart, vars, db
<1> QED
  BY <1>1, <1>2, <1>3 DEF Next

(* Every step keeps the pointer on a row and the rows within the limit.    *)
LEMMA RowsStep ==
  ASSUME TypeOK, LifeInv, TxInv, PointerHasRow, AtMostMaxVersions, [Next]_vars
  PROVE  PointerHasRow' /\ AtMostMaxVersions'
<1>a. stamps \in Nat /\ MaxVersions \in Nat /\ IsFiniteSet(DOMAIN rows) /\ 0 \notin DOMAIN rows
  BY StoreAssumption, FiniteRows DEF TypeOK
<1>1. CASE UNCHANGED db
  BY <1>1 DEF db, PointerHasRow, AtMostMaxVersions
<1>2. ASSUME NEW a \in Admins, CommitVersion(a) PROVE PointerHasRow' /\ AtMostMaxVersions'
  BY <1>2, CommitKeeps DEF PointerHasRow, AtMostMaxVersions
<1>3. ASSUME NEW a \in Admins, CommitSwitch(a) PROVE PointerHasRow' /\ AtMostMaxVersions'
  BY <1>3 DEF CommitSwitch, TxInv, PointerHasRow, AtMostMaxVersions
<1>4. ASSUME NEW a \in Admins, NEW n \in DOMAIN rows, DeleteVersion(a, n)
      PROVE  PointerHasRow' /\ AtMostMaxVersions'
  <2>1. DOMAIN rows' = DOMAIN rows \ {n} /\ current' = current /\ life' = life /\ n # current
    BY <1>4 DEF DeleteVersion, Without
  <2>2. Cardinality(DOMAIN rows') = Cardinality(DOMAIN rows) - 1 /\ Cardinality(DOMAIN rows) \in Nat
    BY <1>a, <2>1, FS_RemoveElement, FS_CardinalityType
  <2>3. PointerHasRow'
    BY <1>4, <2>1 DEF PointerHasRow, DeleteVersion
  <2> QED
    BY <1>a, <2>2, <2>3 DEF AtMostMaxVersions
<1>5. ASSUME NEW a \in Admins, NEW first \in BOOLEAN, CreateOwner(a, first)
      PROVE  PointerHasRow' /\ AtMostMaxVersions'
  BY <1>5 DEF CreateOwner, LifeInv, PointerHasRow, AtMostMaxVersions
<1>6. ASSUME NEW a \in Admins, RollbackRecord(a) PROVE PointerHasRow' /\ AtMostMaxVersions'
  BY <1>6 DEF RollbackRecord, PointerHasRow, AtMostMaxVersions
<1>7. ASSUME NEW a \in Admins, DeleteOwner(a) PROVE PointerHasRow' /\ AtMostMaxVersions'
  BY <1>7, <1>a, StoreAssumption, FS_EmptySet DEF DeleteOwner, Empty, PointerHasRow, AtMostMaxVersions
<1> QED
  BY DbSteps, <1>1, <1>2, <1>3, <1>4, <1>5, <1>6, <1>7

(* Every step keeps the bytes of the versions and of the open upload.      *)
LEMMA FileStep ==
  ASSUME TypeOK, OneWriter, LifeInv, TxInv, FileInv, [Next]_vars
  PROVE  FileInv'
<1>a. stamps \in Nat
  BY StoreAssumption DEF TypeOK
<1>1. ASSUME NEW a \in Admins, NEW act \in BOOLEAN, NEW roll \in BOOLEAN,
             WriteVersionFile(a, act, roll)
      PROVE  FileInv'
  <2>1. NextNo \notin DOMAIN rows /\ \A k \in DOMAIN rows : k # NextNo
    BY <1>a, NextNoAbove DEF TypeOK
  <2>2. /\ admin'[a] = [pc |-> "written", no |-> NextNo, act |-> act, roll |-> roll, rm |-> {}]
        /\ \A b \in Admins \ {a} : admin'[b] = admin[b]
    BY <1>1, OthersStay DEF WriteVersionFile
  <2>3. /\ NextNo \in DOMAIN files' /\ files'[NextNo] = stamps'
        /\ \A k \in DOMAIN files : k # NextNo => k \in DOMAIN files' /\ files'[k] = files[k]
    BY <1>1 DEF WriteVersionFile, With
  <2>4. /\ life' = life /\ rows' = rows
        /\ \A k : k # NextNo => (k \in raced' <=> k \in raced)
        /\ NextNo \notin raced' => \A b \in Admins : NextNo \notin admin[b].rm
    BY <1>1 DEF WriteVersionFile, db
  <2>5. \A b \in Admins : b # a => admin'[b].pc \notin {"written", "staged"}
    BY <1>1, <2>2 DEF WriteVersionFile, TxOpen, InTx
  <2>6. \A n \in DOMAIN rows : life = "present" /\ n \notin raced' => Safe(n, rows[n])'
    BY <2>1, <2>2, <2>3, <2>4 DEF FileInv, Safe
  <2>7. PICK n : n = NextNo
    OBVIOUS
  <2>8. n \notin raced' => Safe(n, stamps)'
    BY <2>2, <2>3, <2>4, <2>7 DEF Safe
  <2> QED
    BY <2>2, <2>4, <2>5, <2>6, <2>7, <2>8 DEF FileInv
<1>2. ASSUME NEW a \in Admins, NEW act \in BOOLEAN, Upload(a, act)
      PROVE  FileInv'
  BY <1>1, <1>2 DEF Upload
<1>3. ASSUME NEW a \in Admins, UploadWithOwner(a) PROVE FileInv'
  BY <1>1, <1>3 DEF UploadWithOwner
\* A request that takes on no new number and no new removal, with the files left alone.
<1>b. ASSUME NEW a \in Admins, UNCHANGED <<rows, files, raced, stamps>>,
             life' = "present" => life = "present",
             admin'[a].rm = {}, \A b \in Admins \ {a} : admin'[b] = admin[b],
             admin'[a].pc \in {"written", "staged"} =>
               admin[a].pc \in {"written", "staged"} /\ admin'[a].no = admin[a].no
      PROVE  FileInv'
  BY <1>b DEF FileInv, Safe
<1>4. ASSUME NEW a \in Admins, UploadRejected(a) PROVE FileInv'
  <2>1. /\ admin'[a].rm = {} /\ admin'[a].pc = "rollback"
        /\ \A b \in Admins \ {a} : admin'[b] = admin[b]
    BY <1>4, OthersStay DEF UploadRejected, Idle
  <2> QED
    BY <1>4, <1>b, <2>1 DEF UploadRejected, db, history
<1>5. ASSUME NEW a \in Admins, StageVersion(a) PROVE FileInv'
  <2>1. /\ admin'[a].rm = admin[a].rm /\ admin'[a].no = admin[a].no
        /\ \A b \in Admins \ {a} : admin'[b] = admin[b]
    BY <1>5 DEF StageVersion, TypeOK, AdminState
  <2> QED
    BY <1>5, <2>1 DEF StageVersion, FileInv, Safe, db, history
<1>6. ASSUME NEW a \in Admins, AbortVersion(a) PROVE FileInv'
  <2>1. /\ admin'[a].rm = {} /\ admin'[a].pc \notin InTx
        /\ \A b \in Admins \ {a} : admin'[b] = admin[b]
    BY <1>6, OthersStay, Pcs DEF AbortVersion
  <2>2. \A b \in Admins \ {a} : admin[b].pc \notin InTx
    BY <1>6 DEF AbortVersion, OneWriter, InTx
  <2>3. \A k \in DOMAIN rows : k # admin[a].no
    BY <1>6 DEF AbortVersion, TxInv, TypeOK
  <2>4. \A k \in DOMAIN files : k # admin[a].no => k \in DOMAIN files' /\ files'[k] = files[k]
    BY <1>6 DEF AbortVersion, Without
  <2> QED
    BY <1>6, <2>1, <2>2, <2>3, <2>4 DEF AbortVersion, FileInv, Safe, InTx, db, history
<1>7. ASSUME NEW a \in Admins, CommitVersion(a) PROVE FileInv'
  <2> DEFINE n == admin[a].no
             gone == Evicted(DOMAIN rows \cup {n}, IF Activates(a) THEN n ELSE current)
  <2>1. /\ admin'[a] = Cleanup(gone)
        /\ \A b \in Admins \ {a} : admin'[b] = admin[b]
    BY <1>7, OthersStay DEF CommitVersion
  <2>2. admin'[a].rm \subseteq gone /\ admin'[a].pc \notin InTx
    BY <2>1, Pcs
  <2>3. \A b \in Admins \ {a} : admin[b].pc \notin InTx
    BY <1>7 DEF CommitVersion, OneWriter, InTx
  <2>4. /\ DOMAIN rows' = (DOMAIN rows \cup {n}) \ gone
        /\ \A k \in DOMAIN rows' : rows'[k] = IF k = n THEN stamps ELSE rows[k]
        /\ UNCHANGED <<life, files, stamps, raced>>
        /\ admin[a].pc = "staged"
    BY <1>7 DEF CommitVersion
  <2> HIDE DEF gone
  <2> QED
    BY <2>1, <2>2, <2>3, <2>4 DEF FileInv, Safe, InTx
<1>8. ASSUME NEW a \in Admins, LoseVersion(a) PROVE FileInv'
  <2>1. /\ admin'[a].rm = {} /\ admin'[a].pc \notin InTx
        /\ \A b \in Admins \ {a} : admin'[b] = admin[b]
    BY <1>8, OthersStay, Pcs DEF LoseVersion
  <2> QED
    BY <1>8, <1>b, <2>1 DEF LoseVersion, InTx, db
<1>9. ASSUME NEW a \in Admins, NEW n \in DOMAIN rows, SwitchVersion(a, n) PROVE FileInv'
  <2>1. /\ admin'[a] = [Idle EXCEPT !.pc = "switching", !.no = n]
        /\ \A b \in Admins \ {a} : admin'[b] = admin[b]
    BY <1>9, OthersStay DEF SwitchVersion
  <2>2. admin'[a].rm = {} /\ admin'[a].pc = "switching"
    BY <2>1 DEF Idle
  <2> QED
    BY <1>9, <1>b, <2>1, <2>2 DEF SwitchVersion, db, history
<1>10. ASSUME NEW a \in Admins,
              \/ CommitSwitch(a) \/ LoseSwitch(a)
              \/ RollbackRecord(a) \/ RollbackRecordFails(a)
       PROVE  FileInv'
  <2>1. /\ admin'[a].rm = {} /\ admin'[a].pc = "idle"
        /\ \A b \in Admins \ {a} : admin'[b] = admin[b]
    BY <1>10, OthersStay, Pcs DEF CommitSwitch, LoseSwitch, RollbackRecord, RollbackRecordFails
  <2>2. life' = "present" => life = "present"
    BY <1>10 DEF CommitSwitch, LoseSwitch, RollbackRecord, RollbackRecordFails, db
  <2>3. UNCHANGED <<rows, files, raced, stamps>>
    BY <1>10 DEF CommitSwitch, LoseSwitch, RollbackRecord, RollbackRecordFails, db, history
  <2> QED
    BY <1>b, <2>1, <2>2, <2>3
<1>11. ASSUME NEW a \in Admins, NEW n \in DOMAIN rows, DeleteVersion(a, n) PROVE FileInv'
  <2>1. /\ admin'[a].rm \subseteq {n} /\ admin'[a].pc \notin InTx
        /\ \A b \in Admins \ {a} : admin'[b] = admin[b]
    BY <1>11, OthersStay, Pcs DEF DeleteVersion
  <2>2. \A b \in Admins : admin[b].pc \notin InTx
    BY <1>11 DEF DeleteVersion, Free, TxOpen
  <2>3. /\ DOMAIN rows' = DOMAIN rows \ {n}
        /\ \A k \in DOMAIN rows' : rows'[k] = rows[k]
        /\ UNCHANGED <<life, files, stamps, raced>>
    BY <1>11 DEF DeleteVersion, Without, history
  <2> QED
    BY <2>1, <2>2, <2>3 DEF FileInv, Safe, InTx
<1>12. ASSUME NEW a \in Admins, NEW n \in admin[a].rm, RemoveVersionFile(a, n) PROVE FileInv'
  <2>1. /\ admin'[a].rm \subseteq admin[a].rm /\ admin'[a].pc \notin InTx
        /\ \A b \in Admins \ {a} : admin'[b] = admin[b]
    BY <1>12, OthersStay, Pcs DEF RemoveVersionFile
  <2>2. \A k \in DOMAIN files : k # n => k \in DOMAIN files' /\ files'[k] = files[k]
    BY <1>12 DEF RemoveVersionFile, Without
  <2>3. UNCHANGED <<life, rows, stamps, raced>>
    BY <1>12 DEF RemoveVersionFile, db, history
  <2> QED
    BY <2>1, <2>2, <2>3 DEF FileInv, Safe, InTx
<1>13. ASSUME NEW a \in Admins, NEW first \in BOOLEAN, CreateOwner(a, first) PROVE FileInv'
  <2>1. /\ admin'[a].pc \in {"idle", "ready"}
        /\ \A b \in Admins \ {a} : admin'[b] = admin[b]
    BY <1>13, OthersStay DEF CreateOwner, Idle
  <2>2. DOMAIN rows' = {} /\ \A b \in Admins : admin[b].pc \notin InTx
    BY <1>13 DEF CreateOwner, LifeInv, Free, TxOpen
  <2> QED
    BY <2>1, <2>2 DEF FileInv, InTx
<1>14. ASSUME NEW a \in Admins, OverwriteCustom(a) PROVE FileInv'
  <2>1. /\ admin'[a].rm = {} /\ admin'[a].pc = "ready"
        /\ \A b \in Admins \ {a} : admin'[b] = admin[b]
    BY <1>14, OthersStay DEF OverwriteCustom, Idle
  <2> QED
    BY <1>14, <1>b, <2>1 DEF OverwriteCustom, db, history
<1>15. ASSUME NEW a \in Admins, DeleteOwner(a) PROVE FileInv'
  BY <1>15 DEF DeleteOwner, FileInv
<1>16. ASSUME NEW a \in Admins, RemoveOwnerDir(a) PROVE FileInv'
  BY <1>16 DEF RemoveOwnerDir, FileInv, LifeInv, db
<1>17. ASSUME NEW r \in Readers, ReaderStep(r) PROVE FileInv'
  BY <1>17 DEF ReaderStep, ReadPointer, LookUpRow, ReadFile, FileInv, Safe, db, history
<1>18. CASE Crash
  <2>1. \A b \in Admins : admin'[b].pc = "idle" /\ admin'[b].rm = {}
    BY <1>18, Pcs DEF Crash
  <2> QED
    BY <1>18, <2>1 DEF Crash, FileInv, Safe, db
<1>19. CASE Restart
  BY <1>19 DEF Restart, FileInv, Safe, db
<1>20. CASE UNCHANGED vars
  BY <1>20 DEF vars, FileInv, Safe
<1> QED
  BY <1>2, <1>3, <1>4, <1>5, <1>6, <1>7, <1>8, <1>9, <1>10, <1>11, <1>12, <1>13,
     <1>14, <1>15, <1>16, <1>17, <1>18, <1>19, <1>20 DEF Next, AdminStep

(* Every step keeps what is known of the symlink.                          *)
LEMMA LinkStep ==
  ASSUME TypeOK, OneWriter, LifeInv, TxInv, LinkInv, [Next]_vars
  PROVE  LinkInv'
\* A request that moves the symlink neither before nor after the step.
<1>b. ASSUME NEW a \in Admins, UNCHANGED <<current, link, torn>>,
             life' = "present" => life = "present",
             \A b \in Admins \ {a} : admin'[b] = admin[b],
             admin[a].pc \notin {"staged", "switching"}, admin'[a].pc \notin {"staged", "switching"}
      PROVE  LinkInv'
  <2>1. \A b \in Admins : Moved(b)' <=> Moved(b)
    BY <1>b DEF Moved, Activates
  <2>2. \A b \in Admins : Moved(b) => admin'[b] = admin[b]
    BY <1>b DEF Moved
  <2> QED
    BY <1>b, <2>1, <2>2 DEF LinkInv
\* The only open transaction ends, or there is none.
<1>c. ASSUME NEW a \in Admins, admin[a].pc \in InTx, admin'[a].pc \notin InTx,
             \A b \in Admins \ {a} : admin'[b] = admin[b]
      PROVE  /\ \A b \in Admins : ~ Moved(b)'
             /\ \A b \in Admins \ {a} : ~ Moved(b)
  BY <1>c DEF OneWriter, Moved, InTx
<1>1. ASSUME NEW a \in Admins, NEW act \in BOOLEAN, NEW roll \in BOOLEAN,
             WriteVersionFile(a, act, roll), admin[a].pc \in {"idle", "ready"}
      PROVE  LinkInv'
  <2>1. /\ admin'[a].pc = "written"
        /\ \A b \in Admins \ {a} : admin'[b] = admin[b]
    BY <1>1, OthersStay DEF WriteVersionFile
  <2> QED
    BY <1>1, <1>b, <2>1 DEF WriteVersionFile, db
<1>2. ASSUME NEW a \in Admins, NEW act \in BOOLEAN, Upload(a, act)
      PROVE  LinkInv'
  BY <1>1, <1>2 DEF Upload
<1>3. ASSUME NEW a \in Admins, UploadWithOwner(a) PROVE LinkInv'
  BY <1>1, <1>3 DEF UploadWithOwner
<1>4. ASSUME NEW a \in Admins, UploadRejected(a) PROVE LinkInv'
  <2>1. /\ admin'[a].pc = "rollback"
        /\ \A b \in Admins \ {a} : admin'[b] = admin[b]
    BY <1>4, OthersStay DEF UploadRejected, Idle
  <2> QED
    BY <1>4, <1>b, <2>1 DEF UploadRejected, db, history
<1>5. ASSUME NEW a \in Admins, StageVersion(a) PROVE LinkInv'
  <2>1. /\ admin'[a].no = admin[a].no /\ admin'[a].act = admin[a].act /\ admin'[a].pc = "staged"
        /\ \A b \in Admins \ {a} : admin'[b] = admin[b]
    BY <1>5 DEF StageVersion, TypeOK, AdminState
  <2>2. \A b \in Admins \ {a} : ~ Moved(b) /\ ~ Moved(b)'
    BY <1>5, <2>1 DEF StageVersion, OneWriter, Moved, InTx
  <2>3. ~ Moved(a) /\ (Moved(a)' <=> Activates(a))
    BY <1>5, <2>1 DEF StageVersion, Moved, Activates, db
  <2>4. /\ life' = life /\ current' = current /\ torn' = torn
        /\ link' = IF Activates(a) THEN admin[a].no ELSE link
    BY <1>5 DEF StageVersion, db, history
  <2> QED
    BY <2>1, <2>2, <2>3, <2>4 DEF LinkInv
<1>6. ASSUME NEW a \in Admins, AbortVersion(a) PROVE LinkInv'
  <2>1. /\ admin'[a].pc \notin InTx
        /\ \A b \in Admins \ {a} : admin'[b] = admin[b]
    BY <1>6, OthersStay, Pcs DEF AbortVersion
  <2> QED
    BY <1>6, <1>b, <2>1 DEF AbortVersion, InTx, db, history
<1>7. ASSUME NEW a \in Admins, CommitVersion(a) PROVE LinkInv'
  <2>1. /\ admin'[a].pc \notin InTx
        /\ \A b \in Admins \ {a} : admin'[b] = admin[b]
    BY <1>7, OthersStay, Pcs DEF CommitVersion
  <2>2. /\ \A b \in Admins : ~ Moved(b)'
        /\ \A b \in Admins \ {a} : ~ Moved(b)
    BY <1>7, <1>c, <2>1 DEF CommitVersion, InTx
  <2>3. Moved(a) <=> Activates(a)
    BY <1>7 DEF CommitVersion, Moved
  <2>4. /\ life' = life /\ link' = link /\ torn' = (torn /\ ~Activates(a))
        /\ current' = IF Activates(a) THEN admin[a].no ELSE current
    BY <1>7 DEF CommitVersion
  <2> QED
    BY <2>2, <2>3, <2>4 DEF LinkInv
<1>8. ASSUME NEW a \in Admins, LoseVersion(a) PROVE LinkInv'
  <2>1. /\ admin'[a].pc \notin InTx
        /\ \A b \in Admins \ {a} : admin'[b] = admin[b]
    BY <1>8, OthersStay, Pcs DEF LoseVersion
  <2>2. /\ \A b \in Admins : ~ Moved(b)'
        /\ \A b \in Admins \ {a} : ~ Moved(b)
    BY <1>8, <1>c, <2>1 DEF LoseVersion, InTx
  <2>3. Moved(a) <=> Activates(a)
    BY <1>8 DEF LoseVersion, Moved
  <2> QED
    BY <1>8, <2>2, <2>3 DEF LoseVersion, LinkInv, db
<1>9. ASSUME NEW a \in Admins, NEW n \in DOMAIN rows, SwitchVersion(a, n) PROVE LinkInv'
  <2>1. /\ admin'[a] = [Idle EXCEPT !.pc = "switching", !.no = n]
        /\ \A b \in Admins \ {a} : admin'[b] = admin[b]
    BY <1>9, OthersStay DEF SwitchVersion
  <2>2. admin'[a].no = n /\ admin'[a].pc = "switching"
    BY <2>1 DEF Idle
  <2>3. \A b \in Admins \ {a} : ~ Moved(b)'
    BY <1>9, <2>1 DEF SwitchVersion, Free, TxOpen, InTx, Moved
  <2> QED
    BY <1>9, <2>2, <2>3 DEF SwitchVersion, LinkInv, Moved
<1>10. ASSUME NEW a \in Admins, CommitSwitch(a) \/ LoseSwitch(a) PROVE LinkInv'
  <2>1. /\ admin'[a].pc = "idle"
        /\ \A b \in Admins \ {a} : admin'[b] = admin[b]
    BY <1>10, OthersStay, Pcs DEF CommitSwitch, LoseSwitch
  <2>2. \A b \in Admins : ~ Moved(b)'
    BY <1>10, <1>c, <2>1 DEF CommitSwitch, LoseSwitch, InTx
  <2>3. Moved(a)
    BY <1>10 DEF CommitSwitch, LoseSwitch, Moved
  <2>4. CASE CommitSwitch(a)
    BY <2>2, <2>3, <2>4 DEF CommitSwitch, LinkInv
  <2>5. CASE LoseSwitch(a)
    BY <2>2, <2>5 DEF LoseSwitch, LinkInv
  <2> QED
    BY <1>10, <2>4, <2>5
<1>11. ASSUME NEW a \in Admins, NEW n \in DOMAIN rows, DeleteVersion(a, n) PROVE LinkInv'
  <2>1. /\ admin'[a].pc \notin InTx
        /\ \A b \in Admins \ {a} : admin'[b] = admin[b]
    BY <1>11, OthersStay, Pcs DEF DeleteVersion
  <2> QED
    BY <1>11, <1>b, <2>1 DEF DeleteVersion, Free, InTx, history
<1>12. ASSUME NEW a \in Admins, NEW n \in admin[a].rm, RemoveVersionFile(a, n) PROVE LinkInv'
  <2>1. /\ admin'[a].pc \notin InTx
        /\ \A b \in Admins \ {a} : admin'[b] = admin[b]
    BY <1>12, OthersStay, Pcs DEF RemoveVersionFile
  <2> QED
    BY <1>12, <1>b, <2>1 DEF RemoveVersionFile, InTx, db, history
<1>13. ASSUME NEW a \in Admins, NEW first \in BOOLEAN, CreateOwner(a, first) PROVE LinkInv'
  <2>1. /\ admin'[a].pc \in {"idle", "ready"}
        /\ \A b \in Admins \ {a} : admin'[b] = admin[b]
    BY <1>13, OthersStay DEF CreateOwner, Idle
  <2>2. /\ link' = 0 /\ current' = 0 /\ \A b \in Admins : admin[b].pc = "idle"
    BY <1>13 DEF CreateOwner, LifeInv
  <2> QED
    BY <2>1, <2>2 DEF LinkInv, Moved
<1>14. ASSUME NEW a \in Admins, OverwriteCustom(a) PROVE LinkInv'
  <2>1. /\ admin'[a].pc = "ready"
        /\ \A b \in Admins \ {a} : admin'[b] = admin[b]
    BY <1>14, OthersStay DEF OverwriteCustom, Idle
  <2> QED
    BY <1>14, <1>b, <2>1 DEF OverwriteCustom, Free, db, history
<1>15. ASSUME NEW a \in Admins, RollbackRecord(a) \/ DeleteOwner(a) PROVE LinkInv'
  BY <1>15 DEF RollbackRecord, DeleteOwner, LinkInv
<1>16. ASSUME NEW a \in Admins, RollbackRecordFails(a) PROVE LinkInv'
  <2>1. /\ admin'[a].pc = "idle"
        /\ \A b \in Admins \ {a} : admin'[b] = admin[b]
    BY <1>16, OthersStay, Pcs DEF RollbackRecordFails
  <2> QED
    BY <1>16, <1>b, <2>1 DEF RollbackRecordFails, db, history
<1>17. ASSUME NEW a \in Admins, RemoveOwnerDir(a) PROVE LinkInv'
  BY <1>17 DEF RemoveOwnerDir, LinkInv, LifeInv, db
<1>18. ASSUME NEW r \in Readers, ReaderStep(r) PROVE LinkInv'
  <2>1. UNCHANGED <<life, current, link, admin, torn>>
    BY <1>18 DEF ReaderStep, ReadPointer, LookUpRow, ReadFile, db, history
  <2> QED
    BY <2>1 DEF LinkInv, Moved, Activates
<1>19. CASE Crash
  <2>1. \A b \in Admins : admin'[b].pc = "idle"
    BY <1>19, Pcs DEF Crash
  <2>2. torn' = (torn \/ \E b \in Admins : Moved(b))
    BY <1>19 DEF Crash, Moved
  <2> QED
    BY <1>19, <2>1, <2>2 DEF Crash, LinkInv, Moved, db
<1>20. CASE Restart
  <2>1. \A b \in Admins : admin'[b].pc = "idle" /\ admin[b].pc = "idle"
    BY <1>20 DEF Restart, OneWriter
  <2> QED
    BY <1>20, <2>1 DEF Restart, LinkInv, Moved, db
<1>21. CASE UNCHANGED vars
  BY <1>21 DEF vars, LinkInv, Moved, Activates
<1> QED
  BY <1>2, <1>3, <1>4, <1>5, <1>6, <1>7, <1>8, <1>9, <1>10, <1>11, <1>12, <1>13,
     <1>14, <1>15, <1>16, <1>17, <1>18, <1>19, <1>20, <1>21 DEF Next, AdminStep

(* A download that has read the pointer holds a number, never NULL.        *)
LEMMA ReaderInvStep == TypeOK /\ ReaderInv /\ [Next]_vars => ReaderInv'
<1> SUFFICES ASSUME TypeOK, ReaderInv, [Next]_vars PROVE ReaderInv'
  OBVIOUS
<1>1. ASSUME NEW r \in Readers, ReaderStep(r) PROVE ReaderInv'
  <2>1. ASSUME ReadPointer(r) PROVE ReaderInv'
    BY <2>1 DEF ReadPointer, ReaderInv, TypeOK
  <2>2. ASSUME LookUpRow(r) PROVE ReaderInv'
    BY <2>2 DEF LookUpRow, ReaderInv, TypeOK, ReaderState, Unread
  <2>3. ASSUME ReadFile(r) PROVE ReaderInv'
    BY <2>3 DEF ReadFile, ReaderInv, TypeOK
  <2> QED
    BY <1>1, <2>1, <2>2, <2>3 DEF ReaderStep
<1>2. CASE Crash
  BY <1>2 DEF Crash, ReaderInv, Unread
<1>3. CASE UNCHANGED reader
  BY <1>3 DEF ReaderInv
<1>4. ASSUME NEW a \in Admins, AdminStep(a) PROVE UNCHANGED reader
  BY <1>4 DEF AdminStep, Upload, UploadWithOwner, WriteVersionFile, UploadRejected, StageVersion,
     AbortVersion, CommitVersion, LoseVersion, SwitchVersion, CommitSwitch, LoseSwitch, DeleteVersion,
     RemoveVersionFile, CreateOwner, OverwriteCustom, RollbackRecord, RollbackRecordFails,
     DeleteOwner, RemoveOwnerDir
<1>5. Restart \/ UNCHANGED vars => UNCHANGED reader
  BY DEF Restart, vars
<1> QED
  BY <1>1, <1>2, <1>3, <1>4, <1>5 DEF Next

(* The inductive invariant holds initially. *)
LEMMA InitIInv == Init => IInv
<1> SUFFICES ASSUME Init PROVE IInv
  OBVIOUS
<1>1. /\ life = "absent" /\ rows = Empty /\ files = Empty /\ current = 0 /\ link = 0
      /\ up = TRUE /\ stamps = 0 /\ faults = 0 /\ raced = {} /\ torn = FALSE
      /\ admin = [a \in Admins |-> Idle] /\ reader = [r \in Readers |-> Unread]
  BY DEF Init
<1>2. DOMAIN Empty = {} /\ Empty \in [{} -> 1..stamps] /\ Cardinality({}) = 0
  BY FS_EmptySet DEF Empty
<1>3. TypeOK
  <2>1. admin \in [Admins -> AdminState] /\ reader \in [Readers -> ReaderState]
    BY <1>1 DEF AdminState, ReaderState, Idle, Unread
  <2>2. stamps \in 0..MaxWrites /\ faults \in 0..MaxFaults
    BY <1>1, StoreAssumption
  <2>3. DOMAIN rows = {} /\ rows \in [{} -> 1..stamps] /\ DOMAIN files = {} /\ files \in [{} -> 1..stamps]
    BY <1>1, <1>2
  <2>4. /\ DOMAIN rows \subseteq 1..stamps /\ rows \in [DOMAIN rows -> 1..stamps]
        /\ DOMAIN files \subseteq 1..stamps /\ files \in [DOMAIN files -> 1..stamps]
    BY <2>3
  <2>5. life \in {"absent", "present", "gone"} /\ current \in 0..stamps /\ link \in 0..stamps
        /\ raced \subseteq 1..stamps
    BY <1>1
  <2>6. up \in BOOLEAN /\ torn \in BOOLEAN
    BY <1>1, Zenon
  <2> QED
    BY <2>1, <2>2, <2>4, <2>5, <2>6 DEF TypeOK
<1>4. \A a \in Admins : admin[a].pc = "idle" /\ admin[a].rm = {}
  BY <1>1, Pcs
<1>5. OneWriter /\ LifeInv /\ TxInv /\ FileInv /\ LinkInv
  BY <1>1, <1>2, <1>4 DEF OneWriter, LifeInv, TxInv, FileInv, LinkInv, InTx
<1>6. PointerHasRow /\ AtMostMaxVersions
  BY <1>1, <1>2, StoreAssumption DEF PointerHasRow, AtMostMaxVersions
<1>7. ReaderInv
  BY <1>1 DEF ReaderInv, Unread
<1> QED
  BY <1>3, <1>5, <1>6, <1>7 DEF IInv

(* Every step keeps it. *)
LEMMA NextIInv == IInv /\ [Next]_vars => IInv'
BY TypeStep, TxStep, RowsStep, FileStep, LinkStep, ReaderInvStep DEF IInv

(* The inductive invariant holds of every behaviour.                       *)
THEOREM Invariance == Spec => []IInv
BY InitIInv, NextIInv, PTL DEF Spec

(* The variables keep their types, whatever the requests, failures and     *)
(* crashes; in particular no version number outgrows the uploads.          *)
THEOREM Typed == Spec => []TypeOK
<1>1. IInv => TypeOK
  BY DEF IInv
<1> QED
  BY <1>1, Invariance, PTL

(* A resource with versions always distributes one it has.                 *)
THEOREM PointerOnRow == Spec => []PointerHasRow
<1>1. IInv => PointerHasRow
  BY DEF IInv
<1> QED
  BY <1>1, Invariance, PTL

(* The limit on versions holds for every limit of two or more.             *)
THEOREM Bounded == Spec => []AtMostMaxVersions
<1>1. IInv => AtMostMaxVersions
  BY DEF IInv
<1> QED
  BY <1>1, Invariance, PTL

(* A version row has its bytes, unless its number raced a removal.         *)
THEOREM FilesKept == Spec => []RowHasItsFile
<1>1. IInv => RowHasItsFile
  BY DEF IInv, FileInv, Safe, RowHasItsFile
<1> QED
  BY <1>1, Invariance, PTL

(* The symlink agrees with the database between transactions.              *)
THEOREM LinkAgrees == Spec => []LinkFollowsPointer
<1>1. IInv => LinkFollowsPointer
  BY DEF IInv, LinkInv, Moved, LinkFollowsPointer, TxOpen, InTx
<1> QED
  BY <1>1, Invariance, PTL

(* Pointer, limit, files and symlink stay in step, all four at once.        *)
THEOREM Consistency == Spec => []StoreConsistent
  BY PointerOnRow, Bounded, FilesKept, LinkAgrees, PTL DEF StoreConsistent

(* A download misses its file only when it lost a race it could not see.   *)
THEOREM MissesExplained == Spec => MissOnlyWhenSuperseded
<1>1. IInv /\ [Next]_vars =>
        [\A r \in Readers :
           (reader[r].pc = "path" /\ reader'[r].pc = "done" /\ reader'[r].got = 0)
             => \/ life # "present"
                \/ reader[r].no # current
                \/ reader[r].no \in raced]_vars
  <2>1. SUFFICES ASSUME IInv, [Next]_vars, NEW r \in Readers,
                        reader[r].pc = "path", reader'[r].pc = "done", reader'[r].got = 0,
                        life = "present", reader[r].no = current, current \notin raced
                 PROVE  FALSE
    OBVIOUS
  <2>2. current # 0 /\ current \in DOMAIN rows
    BY <2>1 DEF IInv, ReaderInv, PointerHasRow, TypeOK
  <2>3. current \in DOMAIN files /\ files[current] # 0
    BY <2>1, <2>2 DEF IInv, FileInv, Safe, TypeOK
  <2>4. ReadFile(r)
    <3>1. reader'[r] # reader[r] /\ reader \in [Readers -> ReaderState]
      BY <2>1 DEF IInv, TypeOK
    <3>2. \A a \in Admins : AdminStep(a) => reader' = reader
      BY DEF AdminStep, Upload, UploadWithOwner, WriteVersionFile, UploadRejected, StageVersion,
         AbortVersion, CommitVersion, LoseVersion, SwitchVersion, CommitSwitch, LoseSwitch,
         DeleteVersion, RemoveVersionFile, CreateOwner, OverwriteCustom, RollbackRecord,
         RollbackRecordFails, DeleteOwner, RemoveOwnerDir
    <3>3. ~ Crash
      BY <2>1 DEF Crash, Unread
    <3>4. ~ Restart /\ ~ UNCHANGED vars
      BY <3>1 DEF Restart, vars
    <3>5. PICK q \in Readers : ReaderStep(q)
      BY <2>1, <3>1, <3>2, <3>3, <3>4 DEF Next
    <3>6. q = r
      BY <3>1, <3>5 DEF ReaderStep, ReadPointer, LookUpRow, ReadFile
    <3>7. ~ ReadPointer(r) /\ ~ LookUpRow(r)
      BY <2>1 DEF ReadPointer, LookUpRow
    <3> QED
      BY <3>5, <3>6, <3>7 DEF ReaderStep
  <2>5. reader'[r].got = files[current]
    BY <2>1, <2>3, <2>4 DEF ReadFile, IInv, TypeOK
  <2> QED
    BY <2>1, <2>3, <2>5
<1> QED
  BY <1>1, Invariance, PTL DEF Spec, MissOnlyWhenSuperseded

(* The abstract module counts as this one does. *)
LEMMA SameCardinality == \A S : Chain!Cardinality(S) = Cardinality(S)
BY DEF Chain!Cardinality, Cardinality

(* Through the owner row the store is a VersionChain: every step of a      *)
(* request is one whole operation of the chain, or leaves it alone.        *)
THEOREM Implementation == Spec => ImplementsChain
<1>1. Init => Chain!Init
  BY DEF Init, Chain!Init
<1>2. IInv /\ [Next]_vars => [Chain!Next]_(Chain!vars)
  <2> SUFFICES ASSUME IInv, [Next]_vars PROVE [Chain!Next]_(Chain!vars)
    OBVIOUS
  <2>a. TypeOK /\ LifeInv /\ TxInv /\ PointerHasRow /\ AtMostMaxVersions
    BY DEF IInv
  <2>1. CASE UNCHANGED db
    BY <2>1 DEF db, Chain!vars
  <2>2. ASSUME NEW a \in Admins, CommitVersion(a) PROVE Chain!Next
    <3>1. admin[a].no \in 1..MaxWrites /\ \A k \in DOMAIN rows : k < admin[a].no
      BY <2>a, <2>2, StoreAssumption DEF CommitVersion, TxInv, TypeOK
    <3>a. /\ life = "present" /\ life' = life
          /\ current' = IF Activates(a) THEN admin[a].no ELSE current
          /\ admin[a].no \in DOMAIN rows' /\ current' \in DOMAIN rows'
          /\ DOMAIN rows' \subseteq DOMAIN rows \cup {admin[a].no}
          /\ Cardinality(DOMAIN rows') <= MaxVersions
          /\ \A d \in DOMAIN rows \ DOMAIN rows', k \in DOMAIN rows' \ {current'} : d < k
          /\ DOMAIN rows \subseteq DOMAIN rows' \/ Cardinality(DOMAIN rows) = MaxVersions
      BY <2>a, <2>2, CommitKeeps
    <3>b. admin[a].act \in BOOLEAN
      BY <2>a DEF TypeOK, AdminState
    <3>c. current' = IF current = 0 \/ admin[a].act THEN admin[a].no ELSE current
      BY <3>a DEF Activates
    <3>2. Chain!Add(admin[a].no, admin[a].act)
      BY <3>1, <3>a, <3>b, <3>c, SameCardinality DEF Chain!Add
    <3> QED
      BY <3>1, <3>2, <3>b DEF Chain!Next
  <2>3. ASSUME NEW a \in Admins, CommitSwitch(a) PROVE [Chain!Next]_(Chain!vars)
    <3>1. admin[a].no \in DOMAIN rows
      BY <2>a, <2>3 DEF CommitSwitch, TxInv
    <3>2. CASE life = "present"
      BY <2>3, <3>1, <3>2 DEF CommitSwitch, Chain!Next, Chain!Switch
    <3>3. CASE life # "present"
      BY <2>3, <3>3 DEF CommitSwitch, Chain!vars
    <3> QED
      BY <3>2, <3>3
  <2>4. ASSUME NEW a \in Admins, NEW n \in DOMAIN rows, DeleteVersion(a, n) PROVE Chain!Next
    BY <2>4 DEF DeleteVersion, Without, Chain!Next, Chain!Remove
  <2>5. ASSUME NEW a \in Admins, NEW first \in BOOLEAN, CreateOwner(a, first) PROVE Chain!Next
    BY <2>a, <2>5 DEF CreateOwner, LifeInv, Chain!Next, Chain!Open
  <2>6. ASSUME NEW a \in Admins, RollbackRecord(a) PROVE [Chain!Next]_(Chain!vars)
    BY <2>a, <2>6 DEF RollbackRecord, LifeInv, Chain!Next, Chain!Close, Chain!vars
  <2>7. ASSUME NEW a \in Admins, DeleteOwner(a) PROVE Chain!Next
    BY <2>7 DEF DeleteOwner, Chain!Next, Chain!Close
  <2> QED
    BY <2>a, DbSteps, <2>1, <2>2, <2>3, <2>4, <2>5, <2>6, <2>7
<1> QED
  BY <1>1, <1>2, Invariance, PTL DEF Spec, ImplementsChain
=============================================================================
