---------------------------- MODULE Resources ----------------------------
(* What administrators manage and clients download: platforms with their
   installation packages, and three tables of resources (subscriptions, shares
   and rules) with their links, slugs and versions
   (src/backend/internal/platform, subscription, share, rule, token, slug,
   server/assembly.go, download, userrender).

   Every request is a sequence of transactions with nothing held in between: a
   slug is checked before the transaction that takes it, the first version of a
   share or a rule follows the record, a generated version follows a rendering
   that looked at the platform, files go after the commit that dropped them.
   A download looks up its link, reads the current version, then asks again
   what the current version is.  How one version reaches disk is VersionStore;
   here a version is its number and kind.  The personal links of users, one per
   platform, are in Accounts; a download here starts from a platform that has a
   subscription.  Downloads of shares and rules are one look-up and one read.

   Bounds: MaxRows of each table, MaxNo version numbers of a row and MaxActs
   requests, which also bound the restarts that cut something off. *)
EXTENDS Naturals, FiniteSets

CONSTANTS
  Workers,    \* administrators' requests served at the same time
  Readers,    \* downloads served at the same time
  Slugs,      \* slugs administrators type; generated ones are "auto", all distinct
  Files,      \* names of installation packages
  MaxRows,    \* the number of rows of each table
  MaxNo, MaxActs

Tables == {"subscription", "share", "rule"}

\* Every table has room for a row.
ASSUME ResourcesAssumption ==
  /\ MaxRows \in [Tables \cup {"platform"} -> Nat \ {0}]
  /\ MaxNo \in Nat \ {0} /\ MaxActs \in Nat

VARIABLES
  platforms,  \* the platforms table with the installer_files of each row
  disk,       \* the fate of each installation package's file
  rows,       \* the resource tables: <<table, id>> -> row with links and versions
  req,        \* where each request stands
  reader,     \* where each download stands
  crossed,    \* history: slugs taken by two requests whose checks overlapped
  strayed,    \* history: subscriptions that replaced the one a generation saw
  misfiled,   \* history: packages deleted through a platform that does not list them
  acts        \* requests so far

vars == <<platforms, disk, rows, req, reader, crossed, strayed, misfiled, acts>>
history == <<crossed, strayed, misfiled>>

Formats == {"yaml", "subs"}
Kinds == {"upload", "clash", "links", "conf"}
KindOf == [yaml |-> "clash", subs |-> "links"]
Ids == 1..MaxRows["platform"]
Keys == UNION {{t} \X (1..MaxRows[t]) : t \in Tables}
Numbers == 1..MaxNo
NoVersions == [n \in Numbers |-> "none"]

NoPlatform == [life |-> "unused", format |-> "yaml", locked |-> FALSE, list |-> {}]
NoRow == [life |-> "unused", slug |-> "auto", platform |-> 0, format |-> "yaml",
          status |-> "active", links |-> 0, home |-> FALSE, vers |-> NoVersions, cur |-> 0]
Idle == [pc |-> "idle", key |-> <<"share", 1>>, slug |-> "auto", platform |-> 0,
         kind |-> "upload", seen |-> 0, stale |-> FALSE, files |-> {}]
Unread == [pc |-> "idle", key |-> <<"subscription", 1>>, kind |-> "upload", moved |-> FALSE]

There(k) == rows[k].life = "present"
PlatformThere(p) == platforms[p].life = "present"
SubscriptionsOf(p) == {k \in Keys : k[1] = "subscription" /\ There(k) /\ rows[k].platform = p}

\* AUTOINCREMENT: ids are given in order and never again.
NextPlatform(p) == \A q \in Ids : platforms[q].life = "unused" <=> q >= p
NextRow(k) == \A j \in Keys : j[1] = k[1] => (rows[j].life = "unused" <=> j[2] >= k[2])

Begins(w) == req[w].pc = "idle" /\ acts < MaxActs /\ acts' = acts + 1
Goto(w, state) == req' = [req EXCEPT ![w] = state]
Ends(w) == Goto(w, Idle)

-----------------------------------------------------------------------------
(* Versions of a row, as the callers of version.Service see them. *)

NextNo(row, n) == LET used == {m \in Numbers : row.vers[m] # "none"}
                  IN  used \subseteq 1..(n - 1) /\ (n = 1 \/ n - 1 \in used)

Published(row, n, kind, act) ==
  [row EXCEPT !.vers[n] = kind, !.cur = IF @ = 0 \/ act THEN n ELSE @]

CreateVersion(k, kind, act) ==
  /\ There(k)
  /\ \E n \in Numbers : /\ NextNo(rows[k], n)
                        /\ rows' = [rows EXCEPT ![k] = Published(@, n, kind, act)]

\* An administrator uploads a version, which for a subscription only joins the
\* others, makes another one current, or deletes one.
Upload(w, k) ==
  /\ Begins(w)
  /\ CreateVersion(k, "upload", k[1] # "subscription")
  /\ UNCHANGED <<platforms, disk, req, history>>

SwitchVersion(w, k, n) ==
  /\ Begins(w)
  /\ There(k) /\ rows[k].vers[n] # "none" /\ n # rows[k].cur
  /\ rows' = [rows EXCEPT ![k].cur = n]
  /\ UNCHANGED <<platforms, disk, req, history>>

\* (mutant: the current version may be deleted)
DeleteVersion_Any(w, k, n) ==
  /\ Begins(w)
  /\ There(k) /\ rows[k].vers[n] # "none"
  /\ rows' = [rows EXCEPT ![k].vers[n] = "none"]
  /\ UNCHANGED <<platforms, disk, req, history>>

DeleteVersion(w, k, n) ==
  /\ Begins(w)
  /\ There(k) /\ rows[k].vers[n] # "none" /\ n # rows[k].cur
  /\ rows' = [rows EXCEPT ![k].vers[n] = "none"]
  /\ UNCHANGED <<platforms, disk, req, history>>

-----------------------------------------------------------------------------
(* Slugs: typed ones are checked against all tables before the transaction,
   which itself only has the unique index of its own table. *)

SlugTaken(v, table) == \E k \in Keys : k[1] = table /\ There(k) /\ rows[k].slug = v
CheckSlugAvailable(v) == \A t \in Tables : ~SlugTaken(v, t)

CheckSlug(w, t, v) ==
  /\ Begins(w)
  /\ t \in {"subscription", "rule"}
  /\ CheckSlugAvailable(v)
  /\ Goto(w, [Idle EXCEPT !.pc = "checked", !.key = <<t, 1>>, !.slug = v])
  /\ UNCHANGED <<platforms, disk, rows, history>>

\* Requests that have checked v while it is given to another row are out of date.
Outdated(w, v) == [u \in Workers |-> IF u # w /\ req[u].pc = "checked" /\ req[u].slug = v
                                     THEN [req[u] EXCEPT !.stale = TRUE] ELSE req[u]]

\* The row is inserted under the slug that was checked, or a generated one.
Inserts(w, k, row, next) ==
  /\ NextRow(k)
  /\ \/ Begins(w) /\ row.slug = "auto"
     \/ /\ req[w].pc = "checked" /\ req[w].key[1] = k[1] /\ row.slug = req[w].slug
        /\ ~SlugTaken(row.slug, k[1])
        /\ UNCHANGED acts
  /\ rows' = [rows EXCEPT ![k] = row]
  /\ req' = [Outdated(w, row.slug) EXCEPT ![w] = next]
  /\ crossed' = crossed \cup {v \in {row.slug} : req[w].stale}
  /\ UNCHANGED <<platforms, disk, strayed, misfiled>>

SlugsToTry == Slugs \cup {"auto"}
Fresh(slug) == [NoRow EXCEPT !.life = "present", !.slug = slug]

\* A new link takes the place of the old one.
Linked(row) == [row EXCEPT !.links = 1]

CreateSubscription(w, k, p, v) ==
  /\ k[1] = "subscription" /\ PlatformThere(p) /\ SubscriptionsOf(p) = {}
  /\ Inserts(w, k, [Fresh(v) EXCEPT !.platform = p, !.format = platforms[p].format], Idle)

First(k) == [Idle EXCEPT !.pc = "first", !.key = k]

CreateShare(w, k) ==
  /\ k[1] = "share"
  /\ Inserts(w, k, Linked(Fresh("auto")), First(k))

CreateRule(w, k, v, content) ==
  /\ k[1] = "rule"
  /\ Inserts(w, k, Linked(Fresh(v)), IF content THEN First(k) ELSE Idle)

\* A typed slug that is refused by the transaction, a taken platform, or a lost write.
CreateRefused(w) ==
  /\ req[w].pc = "checked"
  /\ Ends(w)
  /\ UNCHANGED <<platforms, disk, rows, history, acts>>

-----------------------------------------------------------------------------
(* The first version of a share or a rule follows its record. *)

FirstVersion(w) ==
  /\ req[w].pc = "first"
  /\ CreateVersion(req[w].key, "upload", TRUE)
  /\ Ends(w)
  /\ UNCHANGED <<platforms, disk, history, acts>>

FirstVersionFails(w) ==
  /\ req[w].pc = "first"
  /\ Goto(w, [req[w] EXCEPT !.pc = "rollback"])
  /\ UNCHANGED <<platforms, disk, rows, history, acts>>

\* Links and row go; versions that others uploaded meanwhile stay without an owner.
RollbackRecord(w) ==
  /\ req[w].pc = "rollback"
  /\ rows' = IF There(req[w].key)
             THEN [rows EXCEPT ![req[w].key] = [@ EXCEPT !.life = "rolled", !.links = 0, !.home = FALSE]]
             ELSE rows
  /\ Ends(w)
  /\ UNCHANGED <<platforms, disk, history, acts>>

-----------------------------------------------------------------------------
(* Links of shares and rules. *)

\* (mutant: a share that was revoked gets a link but stays revoked)
RefreshToken_KeepStatus(w, k) ==
  /\ Begins(w)
  /\ k[1] \in {"share", "rule"} /\ There(k)
  /\ rows' = [rows EXCEPT ![k] = Linked(@)]
  /\ UNCHANGED <<platforms, disk, req, history>>

RefreshToken(w, k) ==
  /\ Begins(w)
  /\ k[1] \in {"share", "rule"} /\ There(k)       \* the foreign key of the new token
  /\ rows' = [rows EXCEPT ![k] = [Linked(@) EXCEPT !.status = "active"]]
  /\ UNCHANGED <<platforms, disk, req, history>>

RevokeToken(w, k) ==
  /\ Begins(w)
  /\ k[1] = "share" /\ There(k)
  /\ rows' = [rows EXCEPT ![k].links = 0, ![k].status = "revoked"]
  /\ UNCHANGED <<platforms, disk, req, history>>

SetHomeDefault(w, k, on) ==
  /\ Begins(w)
  /\ k[1] = "rule" /\ There(k)
  /\ rows' = [j \in Keys |-> [rows[j] EXCEPT !.home = IF j = k THEN on ELSE @ /\ ~on]]
  /\ UNCHANGED <<platforms, disk, req, history>>

\* A row goes with its links and versions.
Deleted == [NoRow EXCEPT !.life = "gone"]
DeleteAll(ks) == rows' = [k \in Keys |-> IF k \in ks THEN Deleted ELSE rows[k]]

Delete(w, k) ==
  /\ Begins(w)
  /\ There(k)
  /\ DeleteAll({k})
  /\ UNCHANGED <<platforms, disk, req, history>>

-----------------------------------------------------------------------------
(* Platforms and their installation packages. *)

CreatePlatform(w, p, f) ==
  /\ Begins(w)
  /\ NextPlatform(p)
  /\ platforms' = [platforms EXCEPT ![p] = [NoPlatform EXCEPT !.life = "present", !.format = f]]
  /\ UNCHANGED <<disk, rows, req, history>>

UpdatePlatform(w, p, f) ==
  /\ Begins(w)
  /\ PlatformThere(p)
  /\ platforms[p].locked => f = platforms[p].format
  /\ \A k \in SubscriptionsOf(p) : rows[k].format = f
  /\ platforms' = [platforms EXCEPT ![p].format = f]
  /\ UNCHANGED <<disk, rows, req, history>>

Unlink(files) == [Idle EXCEPT !.pc = "unlink", !.files = files]

DeletePlatform(w, p) ==
  /\ Begins(w)
  /\ PlatformThere(p)
  /\ DeleteAll(SubscriptionsOf(p))
  /\ platforms' = [platforms EXCEPT ![p] = [NoPlatform EXCEPT !.life = "gone"]]
  /\ Goto(w, Unlink(platforms[p].list))
  /\ UNCHANGED <<disk, history>>

\* The file is created under a new name inside the transaction that lists it;
\* the commit may fail and leave the file behind.
UploadInstaller(w, p, f, commits) ==
  /\ Begins(w)
  /\ PlatformThere(p) /\ disk[f] = "new"
  /\ disk' = [disk EXCEPT ![f] = "there"]
  /\ platforms' = IF commits THEN [platforms EXCEPT ![p].list = @ \cup {f}] ELSE platforms
  /\ UNCHANGED <<rows, req, history>>

\* A name that the platform does not list is no error, and its file goes as well.
DeleteInstallerFile(w, p, f) ==
  /\ Begins(w)
  /\ PlatformThere(p) /\ disk[f] = "there"
  /\ platforms' = [platforms EXCEPT ![p].list = @ \ {f}]
  /\ misfiled' = misfiled \cup {g \in {f} : \E q \in Ids \ {p} : g \in platforms[q].list}
  /\ Goto(w, Unlink({f}))
  /\ UNCHANGED <<disk, rows, crossed, strayed>>

RemoveFile(w) ==
  /\ req[w].pc = "unlink"
  /\ \/ \E f \in req[w].files : /\ disk' = [disk EXCEPT ![f] = "gone"]
                                /\ Goto(w, [req[w] EXCEPT !.files = @ \ {f}])
     \/ req[w].files = {} /\ Ends(w) /\ UNCHANGED disk
  /\ UNCHANGED <<platforms, rows, history, acts>>

-----------------------------------------------------------------------------
(* Generating a version: render against the platform, then find the row that
   gets the version, then write it. *)

Render(w, p, k) ==
  /\ Begins(w)
  /\ PlatformThere(p) /\ k \in SubscriptionsOf(p)
  /\ Goto(w, [Idle EXCEPT !.pc = "rendered", !.platform = p, !.seen = k[2],
                          !.kind = KindOf[platforms[p].format]])
  /\ UNCHANGED <<platforms, disk, rows, history>>

ResolveOwner(w) ==
  /\ req[w].pc = "rendered"
  /\ \/ \E k \in SubscriptionsOf(req[w].platform) : Goto(w, [req[w] EXCEPT !.pc = "resolved", !.key = k])
     \/ SubscriptionsOf(req[w].platform) = {} /\ Ends(w)
  /\ UNCHANGED <<platforms, disk, rows, history, acts>>

\* Rules for Shadowrocket go to a rule that exists or to one made for them.
RenderRule(w, k) ==
  /\ Begins(w)
  /\ k[1] = "rule" /\ There(k)
  /\ Goto(w, [Idle EXCEPT !.pc = "resolved", !.key = k, !.kind = "conf", !.seen = k[2]])
  /\ UNCHANGED <<platforms, disk, rows, history>>

AutoRule(w, k) ==
  /\ k[1] = "rule"
  /\ Inserts(w, k, Linked(Fresh("auto")),
             [Idle EXCEPT !.pc = "ruled", !.key = k, !.kind = "conf", !.seen = k[2]])

Generate(w) ==
  /\ req[w].pc \in {"resolved", "ruled"}
  /\ CreateVersion(req[w].key, req[w].kind, FALSE)
  /\ strayed' = strayed \cup {k \in {req[w].key} : k[2] # req[w].seen}
  /\ Ends(w)
  /\ UNCHANGED <<platforms, disk, crossed, misfiled, acts>>

\* A rule made for the generation is deleted again with all it has by then.
GenerateFails(w) ==
  /\ req[w].pc \in {"resolved", "ruled"}
  /\ IF req[w].pc = "ruled" /\ There(req[w].key) THEN DeleteAll({req[w].key}) ELSE UNCHANGED rows
  /\ Ends(w)
  /\ UNCHANGED <<platforms, disk, history, acts>>

-----------------------------------------------------------------------------
(* Downloads. *)

Read(r, state) == reader' = [reader EXCEPT ![r] = state]

LookUp(r, k) ==
  /\ reader[r].pc = "idle"
  /\ k[1] = "subscription" /\ There(k)
  /\ Read(r, [Unread EXCEPT !.pc = "found", !.key = k])
  /\ UNCHANGED <<platforms, disk, rows, req, history, acts>>

ReadCurrent(r) ==
  LET k == reader[r].key IN
  /\ reader[r].pc = "found"
  /\ IF There(k) /\ rows[k].cur # 0
     THEN Read(r, [reader[r] EXCEPT !.pc = "read", !.kind = rows[k].vers[rows[k].cur]])
     ELSE Read(r, Unread)
  /\ UNCHANGED <<platforms, disk, rows, req, history, acts>>

\* (mutant: the blueprint of the newest version is taken)
CurrentKind_Newest(k) ==
  LET used == {n \in Numbers : rows[k].vers[n] # "none"}
  IN  IF There(k) /\ used # {} THEN rows[k].vers[CHOOSE n \in used : used \subseteq 1..n] ELSE "upload"

\* The kind of the version that is current now, "upload" when it has no blueprint.
CurrentKind(k) == IF There(k) /\ rows[k].cur # 0 THEN rows[k].vers[rows[k].cur] ELSE "upload"

\* Clash is rendered anew from the blueprint, links are filled into the bytes
\* that were read and encoded, anything else goes out as it was read.
Fits(read, now) == CASE now = "clash" -> TRUE
                     [] now = "links" -> read = "links"
                     [] OTHER -> read \in {"upload", "conf"}

Answer(r) ==
  /\ reader[r].pc = "read"
  /\ Read(r, Unread)
  /\ UNCHANGED <<platforms, disk, rows, req, history, acts>>

-----------------------------------------------------------------------------

\* A restart loses what is in flight.
Crash ==
  /\ \E w \in Workers : req[w] # Idle
  /\ req' = [w \in Workers |-> Idle]
  /\ reader' = [r \in Readers |-> Unread]
  /\ UNCHANGED <<platforms, disk, rows, history, acts>>

\* Installed: a default platform for Clash, whose format is locked, or one that
\* was added for links, with a subscription that has an uploaded or a generated version.
Init ==
  /\ \E f \in Formats, kind \in {"upload", "generated"} :
       /\ platforms = [i \in Ids |-> IF i > 1 THEN NoPlatform
                                      ELSE [NoPlatform EXCEPT !.life = "present", !.format = f,
                                                              !.locked = f = "yaml"]]
       /\ rows = [k \in Keys |-> IF k # <<"subscription", 1>> THEN NoRow
                    ELSE Published([Fresh("auto") EXCEPT !.platform = 1, !.format = f], 1,
                                   IF kind = "upload" THEN kind ELSE KindOf[f], TRUE)]
  /\ disk = [f \in Files |-> "new"]
  /\ req = [w \in Workers |-> Idle]
  /\ reader = [r \in Readers |-> Unread]
  /\ crossed = {} /\ strayed = {} /\ misfiled = {}
  /\ acts = 0

Manage(w) ==
  \/ \E k \in Keys : Upload(w, k)
  \/ \E k \in Keys, n \in Numbers : SwitchVersion(w, k, n) \/ DeleteVersion(w, k, n)
  \/ \E t \in Tables, v \in Slugs : CheckSlug(w, t, v)
  \/ \E k \in Keys, p \in Ids, v \in SlugsToTry : CreateSubscription(w, k, p, v)
  \/ \E k \in Keys : CreateShare(w, k) \/ RefreshToken(w, k) \/ RevokeToken(w, k) \/ Delete(w, k)
  \/ \E k \in Keys, v \in SlugsToTry, content \in BOOLEAN : CreateRule(w, k, v, content)
  \/ \E k \in Keys, on \in BOOLEAN : SetHomeDefault(w, k, on)
  \/ CreateRefused(w) \/ FirstVersion(w) \/ FirstVersionFails(w) \/ RollbackRecord(w)

Deploy(w) ==
  \/ \E p \in Ids, f \in Formats : CreatePlatform(w, p, f) \/ UpdatePlatform(w, p, f)
  \/ \E p \in Ids : DeletePlatform(w, p)
  \/ \E p \in Ids, f \in Files : \/ \E commits \in BOOLEAN : UploadInstaller(w, p, f, commits)
                                 \/ DeleteInstallerFile(w, p, f)
  \/ RemoveFile(w)
  \/ \E p \in Ids, k \in Keys : Render(w, p, k)
  \/ \E k \in Keys : RenderRule(w, k) \/ AutoRule(w, k)
  \/ ResolveOwner(w) \/ Generate(w) \/ GenerateFails(w)

\* A download that has read its bytes is told when the current version moves on.
Noticed == [r \in Readers |->
              IF reader[r].pc = "read" /\ (rows'[reader[r].key].cur # rows[reader[r].key].cur
                                           \/ rows'[reader[r].key].life # rows[reader[r].key].life)
              THEN [reader[r] EXCEPT !.moved = TRUE] ELSE reader[r]]

Next ==
  \/ \E w \in Workers : (Manage(w) \/ Deploy(w)) /\ reader' = Noticed
  \/ \E r \in Readers : (\E k \in Keys : LookUp(r, k)) \/ ReadCurrent(r) \/ Answer(r)
  \/ Crash

Spec == Init /\ [][Next]_vars

-----------------------------------------------------------------------------

Rows == [life : {"unused", "present", "rolled", "gone"}, slug : SlugsToTry,
         platform : Ids \cup {0}, format : Formats, status : {"active", "revoked"},
         links : {0, 1}, home : BOOLEAN, vers : [Numbers -> Kinds \cup {"none"}],
         cur : Numbers \cup {0}]
Requests == [pc : {"idle", "checked", "first", "rollback", "unlink", "rendered", "resolved", "ruled"},
             key : Keys, slug : SlugsToTry, platform : Ids \cup {0}, kind : Kinds,
             seen : Nat, stale : BOOLEAN, files : SUBSET Files]
Downloads == [pc : {"idle", "found", "read"}, key : Keys, kind : Kinds, moved : BOOLEAN]

\* Every variable has its type; the current version of a row is one it has.
TypeOK ==
  /\ platforms \in [Ids -> [life : {"unused", "present", "gone"}, format : Formats,
                            locked : BOOLEAN, list : SUBSET Files]]
  /\ disk \in [Files -> {"new", "there", "gone"}]
  /\ rows \in [Keys -> Rows]
  /\ \A k \in Keys : rows[k].cur # 0 => rows[k].vers[rows[k].cur] \in Kinds
  /\ req \in [Workers -> Requests]
  /\ reader \in [Readers -> Downloads]
  /\ crossed \subseteq SlugsToTry /\ strayed \subseteq Keys /\ misfiled \subseteq Files
  /\ acts \in 0..MaxActs

\* The status of a share says whether it has a link, a rule always has exactly
\* one, and what is gone has none, also while a failed first version is rolled
\* back and others refresh, revoke and delete (share.go, rule.go).
LinksAgree ==
  \A k \in Keys :
    /\ k[1] = "share" /\ There(k) => rows[k].links = (IF rows[k].status = "active" THEN 1 ELSE 0)
    /\ k[1] = "rule" /\ There(k) => rows[k].links = 1
    /\ ~There(k) => rows[k].links = 0

\* No two resources of any table have the same slug, unless their checks overlapped.
SlugsDistinct ==
  \A j, k \in Keys : j # k /\ There(j) /\ There(k) /\ rows[j].slug = rows[k].slug
                     => rows[k].slug \in crossed \cup {"auto"}

\* At most one rule is shown on the home page, and it exists.
OneHomeDefault ==
  /\ Cardinality({k \in Keys : rows[k].home}) <= 1
  /\ \A k \in Keys : rows[k].home => There(k)

\* A platform has at most one subscription, whose format is the platform's, and
\* no subscription outlives its platform.
FormatsAgree ==
  \A p \in Ids : /\ Cardinality(SubscriptionsOf(p)) <= 1
                 /\ \A k \in SubscriptionsOf(p) : PlatformThere(p) /\ rows[k].format = platforms[p].format

\* An installation package that a platform lists is on disk, unless it was
\* deleted through another platform, and it is on one list only.
ListedIsOnDisk ==
  \A p, q \in Ids : /\ \A f \in platforms[p].list : disk[f] = "there" \/ f \in misfiled
                    /\ p # q => platforms[p].list \cap platforms[q].list = {}

\* Links, slugs, defaults, formats and packages agree with the rows whatever
\* requests interleave, fail half-way or are cut off by a restart.
RecordsAgree == LinksAgree /\ SlugsDistinct /\ OneHomeDefault /\ FormatsAgree /\ ListedIsOnDisk

\* A version that was generated has the kind its subscription's format calls
\* for, unless the subscription replaced the one that the generation looked at.
BlueprintsFit ==
  \A k \in Keys : There(k) /\ k[1] = "subscription" /\ k \notin strayed =>
    \A n \in Numbers : rows[k].vers[n] \in {"none", "upload", KindOf[rows[k].format]}

\* A download answers with a version as it is meant to be served (filled in and
\* encoded, or as uploaded) unless the current version moved during the request.
AnswersWhole ==
  [][\A r \in Readers : Answer(r) => Fits(reader[r].kind, CurrentKind(reader[r].key)) \/ reader[r].moved]_vars

\* What is generated fits the subscription, and what is served is whole.
ServedWhole == []BlueprintsFit /\ AnswersWhole
=============================================================================
