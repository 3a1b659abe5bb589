---------------------------- MODULE VersionStore ----------------------------
(***************************************************************************)
(* The version component (internal/version) and the code that creates and  *)
(* deletes its owners (share, rule, custom, subscription), for ONE         *)
(* resource: its row, its version rows, the files v1, v2, ... and the      *)
(* symlink `current` in its directory.  Owners share nothing but the write *)
(* lock, so one is enough.                                                 *)
(*                                                                         *)
(* SQLite runs one transaction at a time on one connection                 *)
(* (store.go: SetMaxOpenConns(1), BEGIN IMMEDIATE), but files and symlink  *)
(* change inside a transaction, at once, and are not rolled back with it;  *)
(* and evicted or deleted files go after the commit, when the next         *)
(* transaction may already run.  A step here is one such piece.            *)
(*                                                                         *)
(* A stamp names the bytes of one CreateVersion call.                      *)
(***************************************************************************)
EXTENDS Naturals, FiniteSets, FiniteSetsExt

CONSTANTS
  Admins,       \* management requests being served
  Readers,      \* downloads being served
  Kind,         \* "subscription", "rule", "share" or "custom"
  MaxVersions,  \* version.MaxVersions (5 in the code)
  MaxWrites,    \* bound: CreateVersion calls that reach the file
  MaxFaults     \* bound: crashes and failed commits

ASSUME StoreAssumption ==
  /\ MaxVersions \in Nat /\ MaxVersions >= 2
  /\ MaxWrites \in Nat /\ MaxFaults \in Nat
  /\ Kind \in {"subscription", "rule", "share", "custom"}

VARIABLES
  life,     \* the owner row: "absent", "present", "gone" (ids are never reused)
  rows,     \* the version rows: number -> stamp
  current,  \* current_version of the owner row, 0 for NULL
  files,    \* the files on disk: number -> stamp of the bytes in v<number>
  link,     \* the number the symlink points to, 0 when there is none
  admin,    \* where each management request stands
  reader,   \* where each download stands
  up,       \* the process runs
  stamps,   \* stamps given so far
  faults,   \* crashes and failed commits so far
  raced,    \* history: numbers given out while a removal of that file was pending
  torn      \* history: a rollback left the symlink ahead of the database

vars == <<life, rows, current, files, link, admin, reader, up,
          stamps, faults, raced, torn>>
db == <<life, rows, current>>
history == <<raced, torn>>

Idle == [pc |-> "idle", no |-> 0, act |-> FALSE, roll |-> FALSE, rm |-> {}]
Unread == [pc |-> "idle", no |-> 0, got |-> 0]

InTx == {"written", "staged", "switching"}
TxOpen == \E a \in Admins : admin[a].pc \in InTx
Free(a) == up /\ ~TxOpen /\ admin[a].pc = "idle"
Goto(a, state) == admin' = [admin EXCEPT ![a] = state]

Empty == [k \in {} |-> 0]
Without(f, n) == [k \in DOMAIN f \ {n} |-> f[k]]
With(f, n, s) == [k \in DOMAIN f \cup {n} |-> IF k = n THEN s ELSE f[k]]

\* After a failed first version the caller deletes the owner row it made.
AfterFailure(a) == IF admin[a].roll THEN [Idle EXCEPT !.pc = "rollback"] ELSE Idle

\* After the commit the files of dropped versions are removed one by one.
Cleanup(dropped) ==
  IF dropped = {} THEN Idle ELSE [Idle EXCEPT !.pc = "cleanup", !.rm = dropped]

-----------------------------------------------------------------------------
\* CreateVersion

NextNo_SkipOne == IF DOMAIN rows = {} THEN 2 ELSE Max(DOMAIN rows) + 2
NextNo == IF DOMAIN rows = {} THEN 1 ELSE Max(DOMAIN rows) + 1

\* The rows that go when `all` exceeds the limit: the oldest ones but the current one.
Evicted_Newest(all, cur) ==
  LET others == all \ {cur}
  IN  {n \in others : Cardinality({m \in others : m > n}) + MaxVersions < Cardinality(all)}
Evicted_Oldest(all, cur) ==
  {n \in all : Cardinality({m \in all : m < n}) + MaxVersions < Cardinality(all)}
Evicted(all, cur) ==
  LET others == all \ {cur}
  IN  {n \in others : Cardinality({m \in others : m < n}) + MaxVersions < Cardinality(all)}

\* BEGIN IMMEDIATE, pick the number, write the file (temporary file and rename).
WriteVersionFile(a, act, roll) ==
  /\ up /\ ~TxOpen
  /\ stamps < MaxWrites
  /\ stamps' = stamps + 1
  /\ files' = With(files, NextNo, stamps + 1)
  /\ raced' = IF \E b \in Admins : NextNo \in admin[b].rm
              THEN raced \cup {NextNo} ELSE raced \ {NextNo}
  /\ Goto(a, [pc |-> "written", no |-> NextNo, act |-> act, roll |-> roll, rm |-> {}])
  /\ UNCHANGED <<db, link, reader, up, faults, torn>>

\* A new version of an existing resource, from its version page.
Upload(a, act) ==
  /\ admin[a].pc = "idle"
  /\ life # "absent"
  /\ WriteVersionFile(a, act, FALSE)

\* The version that comes with the resource, or overwrites a custom subscription.
UploadWithOwner(a) ==
  /\ admin[a].pc = "ready"
  /\ WriteVersionFile(a, TRUE, TRUE)

\* The content cannot be read, is over 50 MB, or the file cannot be written.
UploadRejected(a) ==
  /\ up /\ admin[a].pc = "ready"
  /\ Goto(a, [Idle EXCEPT !.pc = "rollback"])
  /\ UNCHANGED <<db, files, link, reader, up, stamps, faults, history>>

Activates(a) == current = 0 \/ admin[a].act

\* INSERT, AfterCreate, then the pointer: the symlink moves before the commit.
StageVersion(a) ==
  /\ up /\ admin[a].pc = "written"
  /\ life = "present"
  /\ link' = IF Activates(a) THEN admin[a].no ELSE link
  /\ admin' = [admin EXCEPT ![a].pc = "staged"]
  /\ UNCHANGED <<db, files, reader, up, stamps, faults, history>>

\* INSERT, AfterCreate or the pointer fails (the owner row may be gone): the file goes again.
AbortVersion(a) ==
  /\ up /\ admin[a].pc = "written"
  /\ files' = Without(files, admin[a].no)
  /\ Goto(a, AfterFailure(a))
  /\ UNCHANGED <<db, link, reader, up, stamps, faults, history>>

\* Eviction and COMMIT.
CommitVersion(a) ==
  LET n == admin[a].no
      all == DOMAIN rows \cup {n}
      cur == IF Activates(a) THEN n ELSE current
      gone == Evicted(all, cur)
  IN  /\ up /\ admin[a].pc = "staged"
      /\ rows' = [k \in all \ gone |-> IF k = n THEN stamps ELSE rows[k]]
      /\ current' = cur
      /\ torn' = (torn /\ ~Activates(a))
      /\ Goto(a, Cleanup(gone))
      /\ UNCHANGED <<life, files, link, reader, up, stamps, faults, raced>>

\* Eviction or COMMIT fails: the rows roll back, file and symlink stay as they are.
LoseVersion(a) ==
  /\ up /\ admin[a].pc = "staged"
  /\ faults < MaxFaults /\ faults' = faults + 1
  /\ torn' = (torn \/ Activates(a))
  /\ Goto(a, AfterFailure(a))
  /\ UNCHANGED <<db, files, link, reader, up, stamps, raced>>

-----------------------------------------------------------------------------
\* SwitchVersion and DeleteVersion

SwitchVersion(a, n) ==
  /\ Free(a)
  /\ n \in DOMAIN rows
  /\ link' = n
  /\ Goto(a, [Idle EXCEPT !.pc = "switching", !.no = n])
  /\ UNCHANGED <<db, files, reader, up, stamps, faults, history>>

CommitSwitch(a) ==
  /\ up /\ admin[a].pc = "switching"
  \* The UPDATE of an owner row that is gone has no effect, and no error.
  /\ current' = IF life = "present" THEN admin[a].no ELSE current
  /\ torn' = FALSE
  /\ Goto(a, Idle)
  /\ UNCHANGED <<life, rows, files, link, reader, up, stamps, faults, raced>>

LoseSwitch(a) ==
  /\ up /\ admin[a].pc = "switching"
  /\ faults < MaxFaults /\ faults' = faults + 1
  /\ torn' = TRUE
  /\ Goto(a, Idle)
  /\ UNCHANGED <<db, files, link, reader, up, stamps, raced>>

DeleteVersion(a, n) ==
  /\ Free(a)
  /\ life = "present"
  /\ Cardinality(DOMAIN rows) > 1
  /\ n \in DOMAIN rows /\ n # current
  /\ rows' = Without(rows, n)
  /\ Goto(a, Cleanup({n}))
  /\ UNCHANGED <<life, current, files, link, reader, up, stamps, faults, history>>

\* One best-effort removal after a commit; a failed one is only logged.
RemoveVersionFile(a, n) ==
  /\ up /\ admin[a].pc = "cleanup"
  /\ n \in admin[a].rm
  /\ \/ files' = Without(files, n)
     \/ UNCHANGED files
  /\ Goto(a, Cleanup(admin[a].rm \ {n}))
  /\ UNCHANGED <<db, link, reader, up, stamps, faults, history>>

-----------------------------------------------------------------------------
\* The owners

\* share.Create, rule.Create and the first custom.Upsert go on to upload a first
\* version; subscription.Create and a rule without content do not.
CreateOwner(a, first) ==
  /\ Free(a)
  /\ life = "absent"
  /\ first => Kind # "subscription"
  /\ ~first => Kind \in {"subscription", "rule"}
  /\ life' = "present"
  /\ Goto(a, IF first THEN [Idle EXCEPT !.pc = "ready"] ELSE Idle)
  /\ UNCHANGED <<rows, current, files, link, reader, up, stamps, faults, history>>

\* custom.Upsert finds the record of that user and platform and reuses it.
OverwriteCustom(a) ==
  /\ Free(a)
  /\ Kind = "custom"
  /\ life = "present"
  /\ Goto(a, [Idle EXCEPT !.pc = "ready"])
  /\ UNCHANGED <<db, files, link, reader, up, stamps, faults, history>>

\* The upload failed: the owner row goes, whatever versions it has by now.
RollbackRecord(a) ==
  /\ up /\ admin[a].pc = "rollback"
  /\ ~TxOpen
  /\ life' = IF life = "present" THEN "gone" ELSE life
  /\ current' = 0
  /\ Goto(a, Idle)
  /\ UNCHANGED <<rows, files, link, reader, up, stamps, faults, history>>

RollbackRecordFails(a) ==
  /\ up /\ admin[a].pc = "rollback"
  /\ faults < MaxFaults /\ faults' = faults + 1
  /\ Goto(a, Idle)
  /\ UNCHANGED <<db, files, link, reader, up, stamps, history>>

\* The cascade: version rows and owner row in one transaction, the directory after it.
DeleteOwner(a) ==
  /\ Free(a)
  /\ life = "present"
  /\ life' = "gone" /\ rows' = Empty /\ current' = 0
  /\ Goto(a, [Idle EXCEPT !.pc = "rmdir"])
  /\ UNCHANGED <<files, link, reader, up, stamps, faults, history>>

RemoveOwnerDir(a) ==
  /\ up /\ admin[a].pc = "rmdir"
  /\ \/ files' = Empty /\ link' = 0
     \/ UNCHANGED <<files, link>>
  /\ Goto(a, Idle)
  /\ UNCHANGED <<db, reader, up, stamps, faults, history>>

-----------------------------------------------------------------------------
\* Downloads: three steps, with no transaction around them

ReadPointer(r) ==
  /\ up /\ ~TxOpen
  /\ reader[r].pc \in {"idle", "done"}
  /\ life = "present" /\ current # 0
  /\ reader' = [reader EXCEPT ![r] = [pc |-> "pointer", no |-> current, got |-> 0]]
  /\ UNCHANGED <<db, files, link, admin, up, stamps, faults, history>>

LookUpRow(r) ==
  /\ up /\ ~TxOpen
  /\ reader[r].pc = "pointer"
  /\ reader' = [reader EXCEPT ![r] =
                  IF @.no \in DOMAIN rows THEN [@ EXCEPT !.pc = "path"] ELSE Unread]
  /\ UNCHANGED <<db, files, link, admin, up, stamps, faults, history>>

ReadFile(r) ==
  /\ up
  /\ reader[r].pc = "path"
  /\ LET n == reader[r].no
     IN  reader' = [reader EXCEPT ![r] =
                      [pc |-> "done", no |-> n,
                       got |-> IF n \in DOMAIN files THEN files[n] ELSE 0]]
  /\ UNCHANGED <<db, files, link, admin, up, stamps, faults, history>>

-----------------------------------------------------------------------------
\* The process

Crash ==
  /\ up
  /\ faults < MaxFaults /\ faults' = faults + 1
  /\ up' = FALSE
  /\ torn' = (torn \/ \E a \in Admins :
                        \/ admin[a].pc = "staged" /\ Activates(a)
                        \/ admin[a].pc = "switching")
  /\ admin' = [a \in Admins |-> Idle]
  /\ reader' = [r \in Readers |-> Unread]
  /\ UNCHANGED <<db, files, link, stamps, raced>>

\* StartupCheck rebuilds the symlink from the database before the server listens.
Restart_NoCheck ==
  /\ ~up
  /\ up' = TRUE
  /\ torn' = FALSE
  /\ UNCHANGED <<db, files, link, admin, reader, stamps, faults, raced>>

Restart ==
  /\ ~up
  /\ up' = TRUE
  /\ \/ /\ life = "present" /\ current \in DOMAIN rows
        /\ link' = current /\ torn' = FALSE
     \/ UNCHANGED <<link, torn>>   \* nothing to rebuild, or the rebuild fails and is logged
  /\ UNCHANGED <<db, files, admin, reader, stamps, faults, raced>>

-----------------------------------------------------------------------------
Init ==
  /\ life = "absent" /\ rows = Empty /\ current = 0
  /\ files = Empty /\ link = 0
  /\ admin = [a \in Admins |-> Idle]
  /\ reader = [r \in Readers |-> Unread]
  /\ up = TRUE /\ stamps = 0 /\ faults = 0
  /\ raced = {} /\ torn = FALSE

AdminStep(a) ==
  \/ \E act \in BOOLEAN : Upload(a, act)
  \/ UploadWithOwner(a) \/ UploadRejected(a)
  \/ StageVersion(a) \/ AbortVersion(a)
  \/ CommitVersion(a) \/ LoseVersion(a)
  \/ \E n \in DOMAIN rows : SwitchVersion(a, n) \/ DeleteVersion(a, n)
  \/ CommitSwitch(a) \/ LoseSwitch(a)
  \/ \E n \in admin[a].rm : RemoveVersionFile(a, n)
  \/ \E first \in BOOLEAN : CreateOwner(a, first)
  \/ OverwriteCustom(a)
  \/ RollbackRecord(a) \/ RollbackRecordFails(a)
  \/ DeleteOwner(a) \/ RemoveOwnerDir(a)

ReaderStep(r) == ReadPointer(r) \/ LookUpRow(r) \/ ReadFile(r)

Next ==
  \/ \E a \in Admins : AdminStep(a)
  \/ \E r \in Readers : ReaderStep(r)
  \/ Crash
  \/ Restart

Spec == Init /\ [][Next]_vars

-----------------------------------------------------------------------------
\* Properties

AdminState ==
  [pc : {"idle", "ready", "written", "staged", "switching", "cleanup", "rollback", "rmdir"},
   no : 0..stamps, act : BOOLEAN, roll : BOOLEAN, rm : SUBSET (1..stamps)]
ReaderState ==
  [pc : {"idle", "pointer", "path", "done"}, no : 0..stamps, got : 0..stamps]

(* Every variable has its type, and no number outgrows the writes made.    *)
TypeOK ==
  /\ life \in {"absent", "present", "gone"}
  /\ DOMAIN rows \subseteq 1..stamps /\ rows \in [DOMAIN rows -> 1..stamps]
  /\ DOMAIN files \subseteq 1..stamps /\ files \in [DOMAIN files -> 1..stamps]
  /\ current \in 0..stamps /\ link \in 0..stamps
  /\ admin \in [Admins -> AdminState]
  /\ reader \in [Readers -> ReaderState]
  /\ up \in BOOLEAN /\ torn \in BOOLEAN
  /\ stamps \in 0..MaxWrites /\ faults \in 0..MaxFaults
  /\ raced \subseteq 1..stamps

(* A resource that exists distributes a version it has, and one that has   *)
(* any version distributes one: eviction (evictOldest), deletion,          *)
(* activation and every failure keep current_version and versions in step. *)
PointerHasRow ==
  life = "present" => IF DOMAIN rows = {} THEN current = 0 ELSE current \in DOMAIN rows

(* No resource ever holds more than MaxVersions rows (Design1 4.1), though *)
(* several uploads may run and any of them may fail half-way.              *)
AtMostMaxVersions == Cardinality(DOMAIN rows) <= MaxVersions

(* A version row has the bytes uploaded for it on disk, in spite of        *)
(* removals after the commit, failed uploads, crashes and retries -- unless*)
(* its number was given out while a removal of that very file was pending  *)
(* (removeVersionFilesBestEffort).                                         *)
RowHasItsFile ==
  life = "present" =>
    \A n \in DOMAIN rows \ raced : n \in DOMAIN files /\ files[n] = rows[n]

(* The symlink agrees with the database whenever no transaction runs, but  *)
(* for the time between a rollback that came after the symlink had moved   *)
(* and the next activation or start (setCurrentLocked, StartupCheck).      *)
LinkFollowsPointer ==
  (up /\ life = "present" /\ ~TxOpen /\ ~torn) => link = current

(* A download that finds no file had looked up a version that is no longer *)
(* the current one, or one whose number was reused under its removal:      *)
(* readCurrentWithName never fails on the version being distributed.       *)
MissOnlyWhenSuperseded ==
  [][\A r \in Readers :
       (reader[r].pc = "path" /\ reader'[r].pc = "done" /\ reader'[r].got = 0)
         => \/ life # "present"
            \/ reader[r].no # current
            \/ reader[r].no \in raced]_vars

\* What a client can reach of the chain: rows without an owner row are out of reach.
Chain == INSTANCE VersionChain
           WITH chain <- IF life = "present" THEN DOMAIN rows ELSE {},
                Numbers <- 1..MaxWrites

(* Seen through the owner row, every behaviour is one of VersionChain: the *)
(* chain changes only by whole operations, whatever is rolled back.        *)
ImplementsChain == Chain!Init /\ [][Chain!Next]_(Chain!vars)

(* Database, files and symlink agree, whatever fails and whoever races:    *)
(* the four statements above together.                                     *)
StoreConsistent == PointerHasRow /\ AtMostMaxVersions /\ RowHasItsFile /\ LinkFollowsPointer
=============================================================================
