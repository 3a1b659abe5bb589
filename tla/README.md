# VPN-Subscription-Management: TLA+ models and proofs

Formal models of the Go back end of this repository (`src/backend`). The modules
are written from the code; `PROJECT.json` maps every modelling definition to
the lines it stands for, and lists the runs, the mutants every property is tested
with, the hazards and the theorems.

Contents

1. The system: components, state, interactions
2. Hard behaviours, and the properties that answer them
3. The modules, and how they correspond to the code
4. The runs: what each shows, with which bounds
5. Fairness
6. What is proved
7. Known exceptions: what the code does not promise
8. What is not modelled, and why
9. Plan
10. How to run it

## 1. The system

One Go process (`cmd/server/main.go`) serves a REST interface and the built web
front end. It keeps its state in

  - one SQLite database (`internal/store`): WAL, one connection per `store.Open`
    (`SetMaxOpenConns(1)`), every transaction `BEGIN IMMEDIATE`, foreign keys with
    cascades, AUTOINCREMENT keys. Pool runners open a second connection of
    their own;
  - files under `data/contents`: version files `v1, v2, ...` and a symlink
    `current` per versioned resource, and the installation packages of platforms;
  - memory: the mail queue and workers, the ring of recent mails, the buffer of the
    mail result writer, the cancel functions of pool synchronisations, background
    tasks and recomputations, rate limiters. A restart loses all of it.

It talks to external Xray nodes (gRPC), to an SMTP server, to pool URLs (HTTP) and
to an OpenID provider.

| component (package) | state it keeps | operations | talks to | correct when |
|---|---|---|---|---|
| versions (`version`) | version rows, `current_version` of the owner, files, symlink | CreateVersion, SwitchVersion, DeleteVersion, downloads' reads, StartupCheck | its owners, `download`, `home` | the pointer names a row, a row has its bytes, at most 5 versions, the symlink follows the database |
| version owners (`subscription`, `rule`, `custom`, `share`) | one row per resource, with links, slugs, home default | create with a first version, overwrite, clean up, cascading delete | versions, tokens, platforms | nothing is left of what is deleted, nothing is deleted that was there before; links and slugs agree with the rows |
| store (`store`) | connection, migrations | transactions | every component | one writer at a time |
| mail dispatcher (`mail/dispatcher.go`, `activity.go`) | channel, generations of workers, ring of recent mails | DispatchEmail, TestSMTP, PauseAndDrain, Resume, ResumeAfterClear, Stop | handlers, data clearing, result log, SMTP | every queued mail ends once; no mail across a clearing; pause and stop return |
| mail result log (`mail/result_log.go`) | `mail_result_logs`, buffer, cutoff of the last clear | TryRecord, Clear, Flush, Stop, writer loop | dispatcher, data clearing | what was cleared stays cleared; a stop drains; commands are answered |
| data clearing (`dataclear`, hooks in `server`) | none of its own | ClearAll with before, after and abort hooks | every component | no component writes old data into the cleared tables |
| pool synchronisation (`pool/sync.go`, `pool.go`) | `rule_pools`, `rule_pool_sources`, `pool_source_snapshots`, `pool_canonical_rules`, `pool_rule_origins`, `pool_sync_tasks`; cancel functions in memory | Create, Update, Delete, CreateEntry, UpdateEntry, DeleteEntry, SubmitSync, CancelSync, runner, ActivatePending, DiscardPending, clean-ups, start-up reset | HTTP routes, daily job, URLs | one task at a time and it ends; only it writes; a suspicious list waits for an administrator; a rule shared by entries and snapshots stays while one of them needs it |
| daily jobs (`cron`) | none (queries) | submit missed pools, clean up, Xray statistics and resets | pool, xray | what was missed runs once |
| Xray synchronisation (`xray`) | instances, accounts, sync rows per (user, node), quota | PushUser, RemoveUserFromTargets, ReconcileUser, RetryUser, StartInit, CheckQuota, SubmitAdvancedMode, offClear | accounts, tasks, gRPC | no disabled or deleted user keeps an account on a node |
| independent Xray accounts (`xray/ext.go`, `detect.go`, `reconcile.go`) | accounts of no panel user, rows per (account, node), nodes found on the instance | CreateExt, UpdateExt, RetryExt, DeleteExt, quota, repairs, DetectNodes | tasks, gRPC, group assignments | no account on the server that the panel has forgotten; `synced` means served with the present credentials |
| accounts (`user`, `approval`, `auth`) | users, reset tickets, `credential_version`, approvals | Register, Approve, Reject, SetStatus, ChangeRole, Delete, reset | tokens, xray, mail | an active administrator remains; a session ends with its credentials |
| tokens (`token`) | download links | GetOrCreate, Resolve, Refresh, clean-up | owners, accounts, download | at most one link for user and platform, of the kind that applies; a deleted account has none |
| single sign-on (`oidc`) | states, tickets, identities | start, callback, exchange, bind | accounts, configuration | a state or ticket is used at most once; a flow of the time before a stop has no effect after it |
| background tasks (`tasks`) | a map in memory | Start, Succeed, Fail, Get | xray | a task ends once |
| nodes (`node`, `node/extension`, `ssplugin`, `uriparse`) | manual nodes with a revision, typed parameters, credentials, an unknown extension | forms, UpdateManual, import of share links, visibility, checks | assembly, groups | one configuration per node; what was dropped stays dropped; a link gives back what was written |
| platforms, groups, proxy groups (`platform`, `group`, `proxygroup`) | formats, packages, assignments, definitions of groups | validated edits, background recomputation of assignments | assembly, subscriptions | formats agree, assignments follow candidates, definitions have no cycle |
| assembly (`assembly`, `userrender`) | render plans stored with versions | validate, preview, generate, render for a user | nodes, groups, versions, download | a download loads in a client and is what was assembled for what the user is served |
| configuration (`config`, `setup`, `emergency`) | `system_config`, JSON export and import, the first set-up | settings, export, import | every component | somebody can always sign in |
| limits (`ratelimit`, `captcha`, `redact`, `log`, `backup`) | counters, files | filters around the others | HTTP routes | counters are bounded |

`PROJECT.json` lists all of them with their files, the ones left out too.

How they interact. HTTP handlers, the daily jobs, pool runners, mail workers, the
result writer and detached recomputations are goroutines of one process. They meet in the
database (where the write lock makes transactions atomic, but not sequences of
transactions, nor a transaction and the files it writes), in channels (mail queue, result
buffer), under mutexes (`d.mu`, `lifecycleMu`, `r.mu`), and through hooks: a
clearing calls `PauseAndDrain` and `Flush` before it deletes, `ResumeAfterClear` or
`Resume` after it; a changed account, node, instance or assignment calls the Xray
synchronisation and the recomputation of assignments after its commit; `main` stops the
dispatcher and then the result log when the HTTP server is down.

The parts are joined at narrow places, and the modules are cut there. `VersionStore` is
how one version reaches disk; to `Accounts`, `Resources` and `Catalog` a version is its number and what
it holds. `SignOn` says how a session comes to be valid; `Accounts` lets any active user act.
`XraySync` and `XrayExt` are told which inbounds a user or an account is meant to have; `Catalog` says
how the assignment behind it comes about.

## 2. Hard behaviours

The list with lines, and with the properties that answer each or the reason why none does, is under `hazards` in
`PROJECT.json`. In short:

  - files and symlinks change inside a transaction but do not roll back with it, and
    files of dropped versions and packages go after the commit, when the next request may
    already have been given the same number;
  - a download reads pointer, row and file in three steps, then asks again what is current;
    evictions, deletions and switches run in between;
  - clean-ups after failure (`deleteRecord`, `rollbackRecord`, aborted version files) meet other
    requests that have used the record meanwhile;
  - a mail is checked, prepared and queued in three steps while the dispatcher is
    paused, drained, resumed or stopped; a worker may prefer the queue or
    the cancelled context; two workers drain together;
  - clear, flush and stop share one bounded channel with the records they are
    ordered against, and hold a lock while they wait for room;
  - a cancelled pool task lingers, perhaps inside a transaction, while the next task
    runs; runner, canceller, timer and restart all want to end the same task;
  - a candidate snapshot waits for an administrator while synchronisations and edits
    replace what it was compared with;
  - the accounts on an Xray server are changed by RPC after, before and between the
    transactions that grant or take them; the mode is switched off, and its data
    deleted, under pushes and removals that are on their way; RPCs fail
    without saying whether they were carried out; two operations walk over the inbounds
    of one independent account;
  - a request is admitted by a middleware that reads status and role, and acts later: two
    administrators demote each other, a page view makes links for a user who is gone;
  - a login is a check and a signature, a sign-on is a redirect, a request to the provider and
    four transactions, while the settings that allow them are changed, stopped or imported;
  - two editors save one node from forms opened at an earlier revision, with credentials
    to keep, branches to reset and a payload nobody understands;
  - links are written by one package and read by another, without a common table;
  - a stored plan is rendered for years after the nodes and groups it names were renamed,
    disabled or deleted, and recomputations of assignments write what they read earlier;
  - checks before a transaction (slug, cycle, format) are true of an earlier database;
  - crashes anywhere; the last write of a task may fail.

## 3. The modules

| module | models |
|---|---|
| `VersionChain` | abstract: what `internal/version` promises of one resource |
| `VersionStore` | versions, owners, files, symlink, downloads, crash and start-up of one resource |
| `VersionStore_proofs` | its theorems |
| `MailJobs` | abstract: the fate of a numbered mail |
| `MailDispatcher` | dispatcher, ring, senders, clearing hooks, shutdown |
| `MailResultLog` | the writer of mail results, its commands and its stop |
| `Mail_proofs` | the theorems about both; what they would name alike is named `Result...` in `MailResultLog` |
| `PoolSync` | one pool: row, URL sources, manual entries, canonical rules, tasks, runners, cancellation, review, restarts |
| `PoolSync_proofs` | its theorems |
| `XraySync` | one panel user, one Xray instance, the push records and the accounts that exist on the server |
| `XraySync_proofs` | its theorems |
| `XrayExt` | one independent account on the inbounds of one instance, with repairs and detection |
| `XrayExt_proofs` | its theorems |
| `Accounts` | users, roles, approvals, their download links and custom subscriptions |
| `SignOn` | password login, single sign-on, reset links, and the settings behind them |
| `SignOn_proofs` | its theorems |
| `NodeForm` | editing one manual node: forms, revisions, credentials, extension |
| `NodeLinks` | share links of every linkable protocol, written and read back |
| `ClashDoc` | the pure part of assembly: validation, overlay, render plan, rendering, self-check |
| `Catalog` | nodes, proxy groups, the assembled plan, assignments and their recomputation; it extends `ClashDoc` |
| `Access_proofs` | the theorems about `Accounts`, `Catalog` and `NodeLinks`; what they would name alike is named `Catalog...` and `Links...` in the last two |
| `Resources` | platforms with packages, subscriptions, shares and rules, generation, downloads |
| `Administration_proofs` | the theorems about `NodeForm` and `Resources`; what they would name alike is named `Form...` in `NodeForm` |
| `MC...` | instances for TLC: symmetry and the sets a `.cfg` cannot write |

A step of a model is what the code does without another goroutine being able to
observe or disturb it: a transaction, a critical section, one channel operation,
one RPC, one file operation after a commit, one read outside a transaction, or the part of a
transaction between two effects that outlive its rollback.

**VersionStore** is one resource of one kind, because resources share nothing but
the write lock. `rows`, `current` and `life` are the database, `files` and `link` the
directory, `admin[a].pc` the place of a request in its handler. A CreateVersion is
`WriteVersionFile` (BEGIN, number, file), then `StageVersion` (INSERT and
pointer, symlink moved) or `AbortVersion` (something failed: the file is
removed), then `CommitVersion` (eviction and COMMIT) or `LoseVersion` (rollback; file
and symlink stay), then one `RemoveVersionFile` for each evicted version. Owners
enter as `CreateOwner`, `OverwriteCustom`, `RollbackRecord` (the clean-up after a
failed first version) and `DeleteOwner` with `RemoveOwnerDir`. The bytes of a file
are a stamp, one for each CreateVersion, which is what lets a property say *whose*
bytes are in a file. Two history variables explain exceptions: `raced`, the numbers
given out while a removal of the same file was pending, and `torn`, a
rollback that came after the symlink had moved. The refinement maps the chain of
`VersionChain` to the rows of a present owner: rows without an owner cannot be
reached by any request.

**MailDispatcher**: `queue` is the channel, `log` the ring, `worker[g][w]` a slot of
generation `g`, `canceled` the generations whose context is cancelled, `lock` is
`lifecycleMu`. `d.mu` guards short critical sections, which are the steps.
`PauseBegin`/`PauseEnd` are the two halves of `PauseAndDrain`, around the wait
for the workers; `ClearTables` is the transaction of `ClearAll`. `fate` and `results`
are history: what became of each mail even when the ring has forgotten it,
and how often it was handed to the result log; `disturbed`, the clearings for which the resumption
of another one has started workers (section 7). `ImplementsJobs` maps `fate` to
`MailJobs`, where a mail is tried at most once and ends once.

**MailResultLog**: `buffer` is the channel, with records, clears, barriers and the
stop command in one sequence; `control[p].pc` follows a `Clear` or `Flush` through
the lock, the send and the answer; the clock is a counter that may stand still
between two readings. A writer may fail any statement, a caller may give up at any wait.
The table the writer fills and the moment a clear returned (`promised`) say what
"cleared" means. `highest` is history, the latest cutoff the writer has had: an older clear that arrives
behind a newer one lowers the cutoff (section 7).

**PoolSync** is one pool. Handler transactions are one step. A runner is
`Register` (cancel function in the map) -> `OpenPool` -> for each source `Fetch`,
`BeginWrite`, then `CommitWrite`, `CommitFailure` or `AbortWrite` -> `Finish` ->
`Exit`. A snapshot transaction runs under the task's context and on another
connection, so it is open between two steps and everything else waits
(`Locked`). `CancelSync` is two steps, the context and then the row, as in the code.
`Crash`, `BootTasks`, `BootPools` are the two statements of the start-up reset and
what precedes them. Snapshots that no pointer names (superseded, failed) take numbers and
leave the origins of their rules behind; their rows are left out otherwise. The
content of a list is its format and its number of accepted entries, which is what
the review gate (`Anomalous`) reads, and the rules told apart. `canonical` and `origins` are the
tables a rule is kept in: one row for a rule (its semantic key), one origin for each entry or
snapshot that has it; `Traced` is `cleanupOrphanCanonicalTx`, which exactly the writes that call it
apply. `typed` is a history variable: the entries the administrator has made and not taken back. The daily job would be a second service that
submits and has cancel functions of its own; the run has the service of the routes, since the other
one differs in that alone (section 7). The initial states are a database without the pool, and one
with a pool that was synchronised earlier and whose history has been cleaned since.

**XraySync** is one panel user, because the code never locks or orders anything between
two users, and one instance at a time. `user`, `instance`, `allotted`, `records` are the
database: the user row, the instance row, the inbounds the user's group and the public
nodes give her (`Targets`), and `xray_users`; `listed` says whether the instance's inbounds are nodes of the
panel at all, without which nothing can be allotted. `account` is the other process: the
inbounds on which the server has her e-mail, and with which credentials. Each request
that is under way, each hook behind `detach` and each background task is one `job`, a
goroutine with a program counter: `aim`, `stale`, `remove` ... are `ReconcileUser`,
`RetryUser` and `RemoveUserFromTargets`; `push`, `who`, `limit`, `ensure`, `targets`, `creds`, `pushing`,
`view`, `adding`, `recheck`, `synced` are the lines of `PushUser` in their order, one
transaction, read or RPC each; `clear`, `drop` and `sweep` are the transaction and the
removals after OFF and after the deletion of an instance. Inbounds are numbered in the
order in which a goroutine visits them. What the quota is and what was used is a choice:
`CheckQuota` may find any active user over it. `AddUser` of an e-mail that exists is
a success that changes nothing, as in `client.go`; a failed RPC (`RpcFails`) may or may not
have been carried out; `Abandon` is a client that hangs up on the two operations that
use their request's context. Without its instance a removal has a client only if one was
cached (`Removed` or `NoClient`). `mishaps` is history: the excuses the properties
name, see below.

The excuses of `XraySync`. The code does not serialise operations on one user, and
several orders do leave the server off the panel; reconciliation by hand
(`reconcile.go`) is its answer. The properties therefore say what the code promises
without it, and name the rest: `overlap` (an operation that removes accounts ran together
with another one, unless the other is the clearing after OFF, which is meant to stand that),
`reopened` (ON while something was under way), `rpc` and `crash` (a failure where the record
still exists), `unrecorded` (a failure where only the goroutine knew of the account),
`uncleared` (a crash between OFF and its clearing). `NoStrayAccount` excuses neither
failed RPCs nor crashes where a record exists; `ClearedStaysCleared` excuses `uncleared`
only.


**XrayExt** is one independent account, because accounts share only e-mail addresses, which the
panel keeps apart. `ext` is its row, `rows` its records by inbound (`pending`, `synced`,
`failed` with action `add`, `unremoved` for a failed removal), `server` what the instance really has.
Every operation of `ext.go` and `reconcile.go` walks over inbounds, and what it does at one of
them is a *task*: `drop` (`removeOne`), `push` (`pushOne`), `over` (with overwrite), `gated`
(`PushOne`, which looks at the quota), `quota`, `renew` and `repair` (removal, then push), `wipe` (a bare
RPC). `Starting` are the transactions with which operations begin, `Working` the reads, RPCs
and records of a task, up to the second look at the mode (`Look`). `DetectNodes`, `DeleteInstance`
and `SubmitAdvancedMode` act on the same rows. History: `chosen`, the targets the
administrator chose last, and `doubt`, the inbounds at which an RPC failed, two operations ran
together or a restart cut one off, or which an update that ended at an error did not come to; the
properties speak of the others, because the code offers a retry and the reconciliation page for
those. The excuse is not small, and nothing here shows what two operations at once leave
behind. It ends when a removal or a renewal has had the inbound to itself. `AddUser` is the
client's: what stands there already is success, with an overwrite too (`client.go:101`), so
the branch of `pushOne` for that answer (`ext.go:813-819`) is never taken and has no counterpart.

**Accounts** is the users table with `role` and `status`, the rows of `download_tokens` by
user, platform and kind, and `custom_subscriptions`. A request (`req`) is `Admit`ted by the middleware,
which reads the status once, and acts later: that gap is what the properties
are about. `ListPlatforms` is the home page, one transaction per platform; `Upsert`,
`UpsertVersion` (or `UpsertFails`, then `RollbackEmptyRecord` or `RollbackFails`) and `DeleteGroupTokens` (or
`DeletionFails`, which the code only logs) are the upload of a custom subscription. `kept` is history: the group
links such a failure left beside the subscription, until something deletes them. `RemoveAccount` is the deletion with its cascades, shared by `Delete` and `Reject`.

**SignOn** is one account and the installation's settings (`cfg`: local login, sign-on, parameters,
their stored form, the epoch of flows, the rule for new accounts). A worker is a login between check and
signature (`Login`, `Issue`), or a flow between callback and ticket: `ConsumeState`,
`Exchange` (the provider names anyone), `FindSubject`, `FindMail` or `FindNobody`, then one of the
transactions `RefreshUsername`, `Merge`, `Claim`, `Bind`, `CreateFromOidc`, then `IssueTicket`; each
begins with `assertFlowCurrentTx` (`Current`), and a flow that fails it ends (`FlowIsOver`). A
session is a signed value the database does not know; what makes it valid is the credential
version in it. `backup` is an exported configuration that may come back by `Import`, as may a file of another
installation (`Foreign`); of one that does not say `configured` the import asks nothing (`ImportedAuthUsable`), and it
opens the set-up again (`CompleteQuickStart`, `CompleteOidcSetup`). The two settings `SaveOidcRules` stores one after
the other are one step: nothing modelled reads one without the other. `given` numbers passwords, stops and links so that
a property can say *which* password a session came from, and counts the imports of each kind.

**NodeForm** is one node name. A form is opened (`Open`), a save is prepared from the row as it is then (`Prepare`:
`mergeProtocolJSON`, `mergeSensitiveWithOps`, the forced reset of a change of protocol or branch,
`cleanDisabledFeatures`, `prepareExtensionOps`) and committed if the revision is still that of the
form (`Commit`). Two protocols stand for nineteen, chosen so that every kind of field is there: a credential
that both declare, a branch with its own credential, a feature with parameters, an
alias spelling, an inner credential that no section resets. Values are numbered as they are typed,
so that a dropped one can be recognised for ever (`retired`, `home`).

**NodeLinks** is pure but for the journey of one node: `Export` writes a link for Shadowrocket or as a generic one
(`Render`, one operator per protocol of `assembly/links`), `ImportURIs` reads it (`Imported`, from `uriparse`). A value
is what the conversions can do to it: plain, in need of escaping (each escape that is not undone
adds one), a switch, a list of one, two or run-together items, an address with a mask, a zero that a
writer puts where nothing was set (`Written`).

**ClashDoc** and **Catalog**. `ClashDoc` holds the operators of assembly on an abstract
document (proxies, groups with members, rules with targets, provider names, control plane):
`Validate`, `ClashPlan`, `RenderClashPlan`, the overlay with its side effects, `CheckClashContent`, and for node
subscriptions `LinkPlan`, which skips what has no link form, and `RenderLinkPlan`, where the placeholder becomes a
comment, or the links of those of the user's nodes that have one (`LinkLines`); `own` marks a line with his credentials. `Catalog` is the state they read: manual nodes, Xray nodes with what the instance says of them (`seen`: a Shadowsocks
inbound takes users, but has no link form), display names and switches, proxy groups with pending edits (`edits`: the check for cycles precedes the transaction; `unchecked`: the
ways in which a group was written past it), the
stored plan of the current version, the assignments of one group, and recomputations in three steps
(started, candidates read, written). Downloads change nothing, so properties quantify over all
downloads the present state would answer, inside and outside the group.

**Resources** is what administrators deploy. A request is a sequence of transactions: `CheckSlug` then the
creation, the first version (`FirstVersion`, `FirstVersionFails`, `RollbackRecord`), `Render` then `ResolveOwner`
then `Generate` for an assembled version, `RenderRule` then `AutoRule` for a rule assembled with it, a commit
then `RemoveFile` for packages. A download is `LookUp`, `ReadCurrent`, `Answer`. The history variables `crossed`,
`strayed`, `misfiled` and a reader's `moved` name the exceptions of section 7.

## 4. The runs

Every bound is a CONSTANT named in the module and fixed in the `.cfg`.

| run | question | bounds, and why they are enough |
|---|---|---|
| `versions` | do rows, pointer, files, symlink and downloads stay in step, and does the chain refine `VersionChain`? | a custom subscription (the kind with every owner operation but creation without content), 2 symmetric requests, 1 download, 4 uploads at a limit of 2 (eviction, twice, with a current that is not the newest), 1 crash or failed commit anywhere |
| `mail` | is every queued mail sent or failed exactly once, is nothing sent across a clearing, do pause and stop return? | 2 workers (as in the code), 1 sender, queue and ring of 2 against 3 mails (both overflow), 2 clearings that may overlap, 1 shutdown, 2 generations. More senders, workers and clearings are left to the theorems, which have no bounds |
| `results` | does a clear hold, a flush wait, a stop drain, and is every command answered? | 1 recorder, 1 clear, 1 flush and the stop on a buffer of 2 (it fills), 2 records, 2 clock readings (equal and different) |
| `pool` | do tasks end once, does only the running task write, do candidates face what is active, does a restart repair, are the rules listed those of entries and active snapshots? | 2 tasks, one of which may linger while the next runs, 1 source replaced by edits, 3 snapshots on both sides of the review gate, 2 rules, 1 manual entry at a time (edited without end), 1 crash or lost last write |
| `xray` | does what OFF cleared stay cleared, has every account a record, does `synced` tell the truth, and is an undisturbed user where she should be? | 2 goroutines at a time out of 5 operations (enough for OFF, a push, a change and two more), 1 inbound, 2 credentials and 2 instances (before and after OFF), 1 failed RPC, crash or hung-up client. The theorem has no such bounds; the run keeps to them for its time |
| `ext` | does the server agree with the rows of an independent account, whatever ran together? | 2 symmetric inbounds (one can fail or be renewed while the other is not), 2 operations at a time out of 3, 3 credentials (typed by somebody else, first, renewed), 1 fault. The theorem has no such bounds |
| `accounts` | is there always an administrator, and does every link apply? | 2 accounts (two administrators who act on each other, or one and a user), 1 platform (links of different platforms share nothing), 3 symmetric requests between admission and act, any of whose later steps may fail |
| `signon` | do sessions end with what they rest on, does everything serve once, does a way in remain, do stopped flows end? | 1 account, 2 requests, 1 subject, 1 flow, 4 acts (stop, start again and two more; export, change, import; a bare file, the set-up it reopened and two more) |
| `nodeform` | does anything dropped come back, and is the row one configuration? | 2 editors, 3 typed values, 3 revisions (two saves on top of a creation), 2 nodes under the same name |
| `nodelinks` | does a link give back what the mapping declares, and does the check agree with the renderer? | every linkable protocol, network, security and plugin, any two optional parameters, one odd value (an address with a mask is one), 2 trips (one to lose, one to see that nothing more is lost) |
| `catalog` | does every download load, and is it what was assembled restricted to what the user is served? | 1 manual node, with and without a link form, 1 detected node of four kinds, 1 preset and 1 custom group, 3 display names (none, free, the group's), 4 definitions and 13 selections that between them reach every branch of the renderer, 4 acts |
| `resources` | do links, slugs, defaults, formats and packages agree with the rows, and is every answer whole? | 2 symmetric requests, 1 download, 2 platforms, 2 subscriptions, 1 share, 2 rules, 2 versions each, 1 typed slug, 1 package, 4 requests in a behaviour, from an empty installation or one that is in use |

CHECK_DEADLOCK is FALSE everywhere because the systems may stop: uploads, mails,
records, tasks, acts and operations are bounded, a shut-down dispatcher and a stopped writer stay so.

The properties of each run, in words, stand before their definitions in the modules;
several are a conjunction of named parts. What they are about:

  - `versions`. `StoreConsistent` (`PointerHasRow`, `AtMostMaxVersions`, `RowHasItsFile`,
    `LinkFollowsPointer`), `MissOnlyWhenSuperseded`, `ImplementsChain`: files against
    rows across commits, rollbacks, crashes and unguarded reads.
  - `mail`. `MailKept` (`QueuedOnce`, `LogAgrees`, `DrainedWhenPaused`, `OneGeneration`), `QuietWhenCleared`,
    `ImplementsJobs`, `EverythingEnds` (`QueuedMailEnds`, `LifecycleReturns`): no mail lost or doubled
    through pause, drain, resume and stop.
  - `results`. `CommandsKeepTheirPromise` (`ClearedStaysCleared`, `FlushIsABarrier`, `StopDrains`),
    `CommandsAnswered`: order of commands and records in one channel, with late callers.
  - `pool`. `PoolConsistent` (`PoolShowsRunning`, `RunningHasRunner`, `PendingFacesActive`, `EntriesAreDue`), `EndedIsOver`
    (`WriterRuns`, `EndIsFinal`), `TaskEnds`: lingering runners against new tasks, cancellation and restarts, and
    rules whose row is shared by an entry, the active snapshot, candidates and replaced snapshots.
  - `xray`. `ClearedStaysCleared`, `ServerAgrees` (`NoStrayAccount`, `SyncedIsReal`, `AccountsAreDue`): pushes and
    removals in flight against OFF, failed RPCs, crashes and each other.
  - `ext`. `ServerAgrees` (`TargetsMatchServer`, `RecordsAreTrue`): the same for operations that replace
    credentials and choose their targets, with a push that takes any account it finds for its own.
  - `accounts`. `AdminRemains`, `LinksAreDue` (`OneLink`, `CustomLinkHasRow`, `OldLinkDead`, `GoneLeavesNothing`): acts
    on what was true at admission.
  - `signon`. `NothingOutlives` (`OldSessionsDie`, `UsedOnce`), `WayIn`, `StoppedFlowsEnd`: credentials, tickets and
    settings that change under a flow.
  - `nodeform`. `NothingRevives`, `RowIsWhole` (`ValuesKeepTheirProtocol`, `BranchesFit`): merging with a row that
    another editor has changed.
  - `nodelinks`. `LinkReadsBack`, `VerdictsAgree`: two codes that must say the same.
  - `catalog`. `ServedRight` (`ServedResolves`, `ServedNamesDistinct`, `ServedFollows`): old plans against a new catalogue.
    In a node subscription a user with complete credentials has a line of his own for exactly those of his nodes that
    have a link form, and any other user has none.
    `StoredRight` (`AssignmentsFit`, `GroupsAcyclic`): old candidates and old checks against it.
  - `resources`. `RecordsAgree` (`LinksAgree`, `SlugsDistinct`, `OneHomeDefault`, `FormatsAgree`, `ListedIsOnDisk`),
    `ServedWhole` (`BlueprintsFit`, `AnswersWhole`): requests of several transactions against each other.

Each of them, and each type invariant, has a mutant, a changed operator in the same module that stands for a
plausible mistake (a dropped re-check, a wrong order, a missing reset); TLC finds
the property violated with it.

## 5. Fairness

Safety is checked and proved without any. The liveness properties assume:

  - `MailDispatcher`: each worker step is weakly fair. Workers are goroutines, and a
    send has deadlines and follows its context (`mail.go`). A clearing that has
    begun goes on, and the shutdown's wait ends when the workers are gone. No
    fairness for starting a request, a clearing or a shutdown.
  - `MailResultLog`: the writer is weakly fair while it runs; a command that holds
    the read lock is sent when the channel has room again and again (strong fairness,
    as Go's channels serve waiting senders in order); `Stop` gives up after five
    seconds (`WF(StopGivesUp)`), the real time-out. A caller need not give up.
  - `PoolSync`: each runner is weakly fair (fetches end by `urlTimeout`, waits for the
    lock by `busy_timeout` or the context), and a process that went down starts
    again (`docker-compose.yml`: `restart: unless-stopped`). Timer, canceller and
    administrator need not act.

`TaskEnds` and `RunningHasRunner` name the exception the code has: when the last write
of a task fails, it is logged and nothing else, and the task stays running until the
next restart (`lost`).

The other modules state no fairness and no liveness: what they model is a request that
ends with its handler, or a hook that a restart forgets without repeating it.

## 6. What is proved

`VersionStore_proofs`, for every number of requests, downloads, uploads, faults
and every limit `MaxVersions >= 2`, from `StoreAssumption` alone:

| theorem | states |
|---|---|
| `Invariance` | `Spec => []IInv` |
| `Typed` | `Spec => []TypeOK` |
| `PointerOnRow` | `Spec => []PointerHasRow` |
| `Bounded` | `Spec => []AtMostMaxVersions` |
| `FilesKept` | `Spec => []RowHasItsFile` |
| `LinkAgrees` | `Spec => []LinkFollowsPointer` |
| `Consistency` | `Spec => []StoreConsistent`, the four before it together |
| `MissesExplained` | `Spec => MissOnlyWhenSuperseded` |
| `Implementation` | `Spec => ImplementsChain` |

The argument. None of the properties is inductive: each speaks of the database or the
directory between requests, while the state that could break it is a request
half-way. `IInv` adds what a request half-way may look like:

  - `OneWriter`: at most one request is inside a transaction, and none when the
    process is down. Without it a commit could overwrite another one's rows.
  - `LifeInv`: an absent owner has no rows and no requests at work, an owner that is
    not present has no pointer, a staged version has a present owner.
  - `TxInv`: the number a transaction holds is above every row (a new version) or is a
    row (a switch), because rows change only inside the one transaction.
  - `FileInv`: not only does every row (outside `raced`) have its bytes, but no pending
    removal names its number; and the same holds of the version being written. This is
    what makes the removals after a commit harmless: a number whose removal is pending
    enters the chain only through `raced`.
  - `LinkInv`: a transaction that has moved the symlink has moved it to its own
    number; when none has and no rollback tore it, it points to the current version.
  - `ReaderInv`: a download that has read the pointer holds a number, not NULL.

`NextNoAbove` and `EvictionKeeps` say of the two operators at the core, for chains
of any finite size, that the next number is above all and that eviction keeps the
current version and the new one, drops the oldest and ends within the limit. There is
one lemma per part of `IInv`, with one step per action; `Implementation` maps each
action to the abstract step it makes or to a stutter.

`XraySync_proofs`, for every set of goroutines, every number of inbounds and every
bound, from `XrayAssumption` alone:

| theorem | states |
|---|---|
| `Typed` | `Spec => []TypeOK`, with the foreign keys: no push record without its user and its instance |
| `NothingComesBack` | `Spec => []ClearedStaysCleared` |
| `ServerHolds` | `Spec => []ServerAgrees`: `NoStrayAccount`, `SyncedIsReal` and `AccountsAreDue` |

The argument. `TypeOK` is inductive together with `JobInv`: a goroutine that is at an
inbound has one left (`At` is then an inbound, by `MinElement`), and only the clearing is at
`clear`. `ClearedStaysCleared` is about two tables; what could break it is a goroutine half-way
between its last look at the mode and its write. `ClearedInv` adds, for the time after
the clearing, that no goroutine in such a place (`Writers`) holds the number of an instance that is
still there (`Unable`), so that the foreign keys refuse what it writes. `OffClear`
establishes it by deleting the instance; `InsertInstance`, also of a request that came in
before OFF, keeps it because a new number is above all that any goroutine holds
(AUTOINCREMENT); a goroutine enters `Writers` only through a step that reads the mode; and
credentials are made only in a transaction that reads it. One lemma (`KeepsCleared`) says what
a step may do without breaking it, and each action is shown to be such a step.

`ServerAgrees` is about quiet moments only, so its invariant (`ServerInv`) has to say what an operation half-way
owes the server. Its ground is what a goroutine may be at all:

  - `CourseInv` and `FitInv`: at which lines an operation can be, and what the user's row is meanwhile. A quota
    check never pushes, a push holds an active user who is not over her quota, a deletion that removes has no user.
  - `ApartInv`: without an excuse, what removes is alone but for the clearing, and the mode is off where
    a push takes an account back. This is what the excuse `overlap` buys, in one formula.
  - `ListInv`, `HoldInv`, `AimInv`, `SweepInv`: allotments are inbounds of the instance there is; a goroutine works on
    that instance or OFF has cleared it away; what it still has to add is allotted and what it still
    has to remove is not, unless it removes all; a sweep is of an instance that is gone.
  - `RecordInv`, `ForgetInv`, `FailInv`: a push finds the record it wrote; between removing an account and
    forgetting it the account is away; complaints need a failed call.

On it stand five statements, each the property of a quiet moment with "or somebody will" added:
`CoverInv` (an account has a record, or a sweep, a deletion or the push itself is about to remove it),
`UpperInv` (an account is due, or somebody withdraws it), `LowerInv` (what is due is there, or somebody adds it),
`KeyInv` (accounts and pushes have the credentials in force) and `SyncInv` (a record that says synced is true, or
about to go). When no goroutine is left the disjunctions collapse to `ServerAgrees`. The numbers of inbounds, of
operations and of goroutines are arbitrary; the one point where the order of inbounds counts is `At`, the
least that is left.

`XrayExt_proofs`, for every set of inbounds, every number of operations at a time and every bound, from
`ExtAssumption` alone (two credentials at least, those somebody else typed and those the panel generates;
the mark for no inbound, `"none"`, is not an inbound):

| theorem | states |
|---|---|
| `Invariance` | `Spec => []Strong`, which is `IInv` and `KeyInv` |
| `Typed` | `Spec => []TypeOK`, with the foreign keys: no row of an inbound without the account and the instance |
| `AgreesWithServer` | `Spec => []ServerAgrees`: `TargetsMatchServer` and `RecordsAreTrue` |

The argument. `ServerAgrees` is about inbounds at rest; what breaks it is an operation that has something left there and
acts on what it read before. `IInv` therefore speaks of every inbound *and* of every operation that has it before it:

  - `PlaceInv`: at which lines an operation can be, with which task, and that an update takes its removals first. `LifeInv`: there
    is one clearing at a time, the mode is off while it runs, and once it has collected its inbounds neither account
    nor instance is there.
  - `ApartInv`: when two operations meet, all that either has left is in `doubt`; only the clearing
    runs beside others without that. So at an inbound that is not in doubt a push, a renewal or a repair is alone, but for
    a clearing that has taken away what it could write to.
  - `FaceInv` (`Wanted`, `Served`): what an operation may count on at such an inbound. What a drop still has to remove has no
    row and is no target; what an addition still has to serve is a target with a row of the right status, or all of it
    has been cleared; a renewal and an overwrite find the row pending; a push past its look at the
    quota finds it not exceeded; what a push has added is on the server with the present credentials.
  - `CountInv` (`Count`): the property with "or somebody will" added. An account on the server has a row, or somebody
    withdraws it (a drop, the clearing, or the second look at the mode); a target has a row, or a repair is about
    to write it again; `synced` is true, or about to be rewritten; over the quota nothing is served, and
    what a quota check has not yet reached is still on its list.
  - `KeyInv` (`Keyed`): what is on the server has the present credentials, but for what an update that changed them
    has still to take away. A push overwrites nothing and does not ask what it found, so that `synced` is true
    afterwards only because of this (`Vacant`).

One action works at one inbound, so the proof is in two halves. `Elsewhere` says once, for all working steps, that the
other inbounds keep what was known of them (nothing joins a list, and no removal leaves it unperformed), and each step
lemma shows only the inbound it is at. The steps with which operations begin are taken together by `Untouched`
(nothing changes but the worker) and by `Begun` (its inbounds join `doubt` as soon as anybody else
is at work). The hard case is the clearing, which begins and removes beside pushes that are under way: it is safe because OFF
precedes it, and a push looks at the mode once more after its RPC (`Look`, `Undo`).

`Access_proofs`, about accounts, for every number of accounts, every set of platforms and every number of
requests at work, from `AccountsAssumption` alone:

| theorem | states |
|---|---|
| `Typed` | `Spec => []TypeOK` |
| `AdminsRemain` | `Spec => []AdminRemains` |
| `LinksStayDue` | `Spec => []LinksAreDue` |

The argument. What could break either property is a request between its admission and its act.
`IInv` adds two facts about such requests:

  - `RequestInv`: while anyone is admitted there is an active administrator. `AdminRemains` alone
    is not enough: it allows an installation without accounts, and a request that outlived
    all of them could then make an account that is no administrator. Further, an upload that
    still has its row (`live`) names a row that exists.
  - `PublishInv`: but for the links in `kept`, a link of the group can stand beside a published custom
    subscription only while an upload is at its last transaction, the one that deletes it. `OldLinkDead`
    follows when no upload is under way. Two uploads of one subscription do not hurt: each of
    them comes to that transaction. If it fails, the link joins `kept` and leaves it when something deletes the link
    or the subscription (`KeptStep`, `NothingDue`), so that a later upload is held to its promise again.

The proof does not go action by action through each part. `UsersStep` and `LinksStep` say once what
a step may do to a user and to the links of one key (`UsersMove`, `LinksMove`), `RequestsStep` what it
does to the requests; the parts of `IInv` follow from these shapes, for every key by itself.

`Access_proofs`, about the catalogue, for every set of nodes, names, group definitions and selections and any number of
acts, from `CatalogAssumption` alone (a selection is for Clash or for links, a node may be without a display name, and
no group is named like a forced one, which the code refuses):

| theorem | states |
|---|---|
| `CatalogInvariance` | `CatalogSpec => []CatalogIInv` |
| `CatalogTyped` | `CatalogSpec => []CatalogTypeOK` |
| `StoredStaysRight` | `CatalogSpec => []StoredRight` |

The argument. Both parts of `StoredRight` are about something read before the transaction that uses it, so neither is inductive.
`FitInv`: when no recomputation is yet to read, either some recomputation has read exactly the candidates of
now, or every assignment fits. Whatever changes the candidates or makes a node unfit starts a recomputation, which
turns the first into the second. `AcyclicInv`: every update that was checked would leave no cycle in the groups as they are
*now*, not only in those of its check. Deleting a group preserves that (`FewerGroups`), writing another update
does not, which is the exception `overlapped`; a new group preserves it only if nobody refers to its name (`OneMoreGroup`),
which is the exception `reused`. The attempt to prove the latter is how the finding of section 7 was made.

`Access_proofs`, about share links, for any number of trips:

| theorem | states |
|---|---|
| `LinksInvariance` | `LinksSpec => []LinksIInv` |
| `OneVerdict` | `LinksSpec => []VerdictsAgree` |

The argument. `LinksIInv` says that a node keeps the parameters of its protocol and a link the plugin of its node.
`SameVerdict` then compares renderer and check for any parameters at all, not only for two set at a time: what the writers fill
in is no plugin parameter (`PluginAsStored`), so both look at the same ones.

`Mail_proofs`, about the dispatcher, for every number of workers, senders, mails, generations and clearings and every
size of channel and ring, from `MailAssumption` alone (there is at least one worker):

| theorem | states |
|---|---|
| `Invariance` | `Spec => []IInv` |
| `Typed` | `Spec => []TypeOK` |
| `Kept` | `Spec => []MailKept` |
| `ClearedQuietly` | `Spec => QuietWhenCleared` |
| `Implementation` | `Spec => ImplementsJobs` |

The argument. `MailKept` looks at mails, ring and generations; what could break it is in hands. `JobInv` says
whose hands: a number is in the channel, with one worker, with one test, or at its end, and never twice
(`QueueInv`, `HandsInv`, `ApartInv`, `TestInv`), and a queued mail is in one of these places (`HeldInv`). With it a worker's
step is the only one that moves that mail, which is also the step of `MailJobs` it maps to. `NumberInv` keeps new
numbers apart from those given. `WorkersInv` says that workers belong to the running generation, or to
the one whose end the shutdown awaits, and that mail in the channel has a worker that lives; `LockInv`, that
who has cancelled a generation holds `lifecycleMu` until it has ended. `PausedInv` is the claim of a pause, which
another's resumption withdraws (`disturbed`): the first attempt to prove it without that word failed, and TLC showed
why with two clearings.

`Mail_proofs`, about the log of results, for every number of callers and records, every size of channel and every
course of the clock, from `ResultAssumption` alone:

| theorem | states |
|---|---|
| `ResultInvariance` | `ResultSpec => []ResultIInv` |
| `ResultTyped` | `ResultSpec => []ResultTypeOK` |
| `PromisesKept` | `ResultSpec => []CommandsKeepTheirPromise` |

The argument. The promises are about answered commands, the invariant about those in the channel. `AcceptedInv`: an
accepted record is in the channel or settled. `CommandInv`: a caller waits for one command, which is there once.
`BarrierInv`: what was accepted when a flush began is ahead of its barrier; it holds through every `Append`
and every `Tail` (`Appended`, `Received`). `StopInv`: nobody holds the read lock once `Stop` has the lock, so the
stop is the last thing in the channel and the writer ends with an empty one. `CutoffInv`: the table
holds nothing from before the cutoff, and no answered clear reaches further than `highest`.

`PoolSync_proofs`, for any contents, sources, tasks, runners and both services, from `PoolAssumption` alone:

| theorem | states |
|---|---|
| `Invariance` | `Spec => []IInv` |
| `Typed` | `Spec => []TypeOK` |
| `Consistent` | `Spec => []PoolConsistent` |
| `Over` | `Spec => EndedIsOver` |

The argument. `RunnerInv` ties each runner to its task: one that may still write, since its context is not
cancelled or its transaction is open, has a task that runs or a pool that is gone, and a task that runs has a runner
on its way, or was lost. It needs `CancelInv`, the order of the two steps of a cancellation: the context goes before the row,
so a task that has ended leaves no runner that could still begin to write; and it is why `EndedIsOver` follows. `TaskInv` carries
the pool's status through a restart, when tasks are reset and the pool not yet. `OriginInv` says which
origins there are: those of each snapshot a source names are the rules of its content, whatever clean-ups
and replaced snapshots leave behind, because no two sources name one snapshot.

`SignOn_proofs`, for every number of requests, flows, acts and identities, from `SignOnAssumption` alone:

| theorem | states |
|---|---|
| `Invariance` | `Spec => []IInv` |
| `Typed` | `Spec => []TypeOK` |
| `AlwaysAWayIn` | `Spec => []WayIn` |
| `EndsWithItsCause` | `Spec => []NothingOutlives` |
| `OldFlowsEnd` | `Spec => StoppedFlowsEnd` |

The argument. A session is a signed text, so `SessionInv` speaks of every session there is *or will be*: in browsers,
under tickets, in the hands of requests. None is ahead of the account's credential version, and one that is not
behind was begun with the password in force. `EpochInv` does the same for flows: before any import, the
epoch counts the stops and each flow carries the count it was begun with, wherever its fingerprint has wandered.
`WayInv`: until a bare file was imported the system is configured, so that the set-up, which does not look at local
login, stays closed, and every other writer of the settings leaves a way (`Way`), because it asks in the transaction in
which it writes. That a thing serves once is `StatesInv`, `TicketsInv` and `ResetsInv`: a flow is in its state, with one request, or
under one ticket, and its counters say so.

`Administration_proofs`, about the form of a node, for every number of editors, values, saves and nodes, from
`FormAssumption` alone (the bounds are positive):

| theorem | states |
|---|---|
| `FormInvariance` | `FormSpec => []FormIInv` |
| `FormTyped` | `FormSpec => []FormTypeOK` |
| `NothingComesBack` | `FormSpec => []NothingRevives` |
| `RowStaysWhole` | `FormSpec => []RowIsWhole` |

The argument. Both properties are about the stored row, and every row but a first one is a save somebody prepared
earlier: so `WholeInv` says of each prepared save what `RowIsWhole` says of the row, and `FormInv` that a save follows the
revision its form was opened at and, *while that revision is current*, holds nothing that was retired. A commit moves
the revision on, so every other save prepared from it can never be committed; this is where the condition of
`UpdateManual`'s UPDATE is used. A node created again under the name has an id above all forms. What a save is made of is
`EditedRow`: a value of a save was typed for it, or was stored under the same protocol, because a
change of protocol resets every field (`OldOnlyHere`) and what the form shows of the rest is not declared by both protocols
but for a credential, which is blanked (`SubmittedWithin`). One lemma per operator (`Normalised`, `Cleaned`, `Merged`,
`Restored`, `ExtensionAfter`) says where its results come from.

`Administration_proofs`, about the resources, for every number of rows, requests, downloads, slugs and packages, from
`ResourcesAssumption` alone (every table has room for a row):

| theorem | states |
|---|---|
| `Invariance` | `Spec => []IInv` |
| `Typed` | `Spec => []TypeOK` |
| `RecordsKeep` | `Spec => []RecordsAgree` |
| `ServesWhole` | `Spec => ServedWhole` |

The argument. What rows and packages say of each other is inductive by itself (`LinksAgree`, `HomeInv`, `FormatInv`);
what is not is what a request carries from one transaction to the next. `SlugInv`: a slug that was checked is
still free, unless another insertion of it came between, which makes the check stale (the exception `crossed`).
`FileInv`: a package about to be removed is on no list, unless another platform listed it (`misfiled`). `RenderInv`: a
rendering has the format of the subscription it saw, and if that one is gone its id is not taken again. `ReaderInv`: bytes
that were read are those of what is current, unless the current version has moved. One lemma per action says what it does
to a row (`Moves`: it stays, is born without versions, or dies), and the parts follow from that for every row by itself.

Only model-checked: `ServedRight` of `Catalog`, `LinkReadsBack` and `LinksTypeOK` of `NodeLinks`, and all
liveness (`EverythingEnds`, `CommandsAnswered`, `TaskEnds`). Liveness under fairness and ENABLED are out of reach of the installed prover, and so are
induction over data and RECURSIVE operators (the modules declare none; where the renderer repeats
a pass until nothing changes, `ClashDoc` uses a recursive function, whose value for every
document cannot be proved about either). What a link carries is built with the operators `:>` and `@@`, to which the prover
gives no meaning.

## 7. Known exceptions

Where the code does less than its comments or documents say, or than one could expect, the
properties name the exception and hold of the rest. This is the list, with the name the
model gives to the exception.

Versions and mail
  - A number whose removal is pending may be given out again, and the file of the new
    version is then removed (`raced`): `version.go:431`, where the comment says "删除后不复用",
    which is not so for the highest number.
  - An overwrite of a custom subscription that fails deletes the existing row (`custom.go:107`);
    versions and files stay behind without an owner. `ImplementsChain` treats rows without
    an owner as unreachable, and `Accounts` makes the deletion (`RollbackEmptyRecord`).
  - Two one-click resets that overlap (`dataclear.go:79` has no lock of its own): the resumption of
    the first starts mail workers while the second deletes (`disturbed`: `QuietWhenCleared` is about the
    others), and a clear of the result log with an older cutoff, queued after a newer one, lowers the writer's
    cutoff, so that a result from between the two may be written again (`ClearedStaysCleared` is
    about the time while `cutoff = highest`).

Pools
  - A task submitted by the daily job cannot be cancelled by a request, because
    the job has a `pool.Service` of its own. The run has one service.
  - The refresh at start (`cmd/server/main.go:85`) shows `failed` for a pool with any interrupted task in
    its history, though its latest task succeeded.
  - `last_synced_at` moves on success only, so that a failing pool is submitted again every
    minute for the rest of the day (`cron/pool.go:104`).
  - A replaced snapshot keeps its origins, so the rules only it had stay in the tables, unlisted, until the
    sources are edited. `EntriesAreDue` is about what is listed.

Xray
  - The hook that follows the disabling of a user reads her nodes after the commit
    (`server/server.go:293`): a node taken from her group in between keeps her account, since the change
    of nodes looks at active users only. Design2 asks for the records to be collected before
    the commit. `overlap` covers it.
  - `CheckQuota` sets its flag after its removals without looking at the mode, also after OFF has
    reset it (`quota.go:88`).
  - Independent accounts (`doubt`): the clearing after OFF misses an inbound whose row another
    operation had deleted for the moment; a removal pending when the instance goes has no
    client any more; a push, with overwrite or without, takes "already exists" for success though the credentials
    are other ones (`client.go:101`; `ext.go:813-819`, which means to remove and add again, is not reached), so
    that after a removal that failed a record can say `synced` of the wrong ones; a change of credentials that
    ends at an error leaves the inbounds it did not come to with the old ones, and a later retry marks them
    `synced`; a removal that fails within a renewal or repair flips the row to
    `action=remove`, and a retry then drops the administrator's target; cleaning orphans
    goes by e-mail and removes healthy accounts on other inbounds too. Further, a target retained
    unchanged by UpdateExt stays `pending` until the next push, and the monthly reset leaves
    `quota_exceeded` of independent accounts alone.

Accounts and sign-on
  - An upload whose deletion of the group's links fails is reported as a success (`custom.go:112-114`, below the
    comment "旧链接立即失效"), as is one whose client hangs up or whose process stops between the two
    transactions. The old link goes on serving what the group is served until the home page, a refresh, a
    revocation or another upload deletes it: `kept` in `OldLinkDead`. A roll-back that fails leaves an empty row, which
    applies to the user's links like a full one.
  - A page view admitted before its user was disabled makes links for her afterwards;
    `download.go:66` does not look at the status. `LinksAreDue` therefore speaks of accounts that
    are gone, not of disabled ones. The comment at SetStatus: "同一事务：递增 credential_version（会话立即失效）+
    物理删除全部 Token（防竞态窗口）".
  - An import replaces `system_config` with the epoch of flows in it (`config/export.go:358-380`), so that a flow of
    the time before can be current again: `restored` in `StoppedFlowsEnd`.
  - A file whose `configured` is empty or false is imported without any check (`config/export.go:669-679`): with local
    login off and no usable sign-on nobody can sign in until somebody completes the set-up that the file reopens, which
    does not look at local login either. `given.bare` in `WayIn`. Completing it fails as long as a group is called 默认组
    (`setup.go:85`); the model lets it succeed or not happen.
  - Sign-on rules saved with every list empty hold nobody (`oidc.go:634-655`), where the settings page
    warns of the contrary, "白名单为空，新用户将全部直接激活": the branch `rule = "empty"` of `FindNobody`.

Nodes and links
  - What a link loses although the registry's link mapping declares it is `KnownLosses` of `NodeLinks`: the name
    of an ss link is not unescaped; `httpupgrade` comes back as `ws`; the Shadowrocket form of vmess has no gRPC
    service name, the generic one gains a server name from the transport's host; a list of paths
    in vless is joined, a list of hosts lost; trojan links have neither transport nor REALITY, though the registry
    declares both (`registry.go:233`, `links.go:103-115`); an `alterId` that was not set comes back as 0
    (`links.go:68`, `links.go:256`); the password of anytls is not unescaped; a wireguard address loses its
    mask (`uriparse.go:954-968`); hysteria2 ports, a tuic token, the second address of wireguard, the sni of http and
    `udp=false` of socks5 are lost. An IPv6 host cannot be rendered. Fields without a
    mapping (udp, tfo, fingerprint) are lost by design.

Catalogue and assembly
  - A Shadowsocks inbound is detected as `shadowsocks` (`detect.go:233`) and users are pushed to it, but the link writers
    know the protocol as `ss`: a node subscription leaves the node out, with a line in the log
    (`userrender.go:146-149`). So does a node whose parameters cannot be read (`userrender.go:140-143`), and with the mode off or
    credentials incomplete a comment stands for all of a user's nodes (`userrender.go:51-69`, `userrender.go:115-118`). Nodes that were
    chosen and have no link form are skipped when the subscription is generated (`render_sr.go:43-60`); an Xray node that was chosen gets
    a line without credentials there. `ServedFollows` counts the lines of the user's own.
  - Clearing a display name is checked by an index over nodes only, not against the groups
    (`node.go:566-607`): `NamesHeld`. So are names of deleted nodes that a plan still holds, and names in an overlay.
  - Rule targets and group members that an overlay adds as `REJECT` or as a node become `DIRECT` or are dropped
    at the download (`clash_plan.go:383`; the comment at `clash_plan.go:233` and Design2 say otherwise):
    `plan.overlay.plain` in `ServedFollows`.
  - A selection with an Xray node inside a group is accepted by the preview and refused by the generation,
    which removes the Xray names before the self-check: `Renders` does the same.
  - A group with the name of an Xray node's stable name is translated to that node: `Unambiguous`.
  - Two overlapping edits of proxy groups can close a cycle: `overlapped`.
  - Edits one after the other can, too: `reused`. Deleting a group leaves its name in the definitions of others
    (`proxygroup.go:200`), and the check of a new group calls it "（新建）" instead of its name (`proxygroup.go:304`), so that a
    group created under the old name may refer back to them. The comment at `proxygroup.go:262` says "全量 DAG 校验（含本次变更后的组）".
    Assembly does not look for cycles, so the document that is served has it as well. TLC finds the cycle when
    `GroupsAcyclic` excuses overlapping edits alone, and the document when `ServedResolves` does.
  - A detection that finds another protocol under a known node tells nobody, because the old value
    is read after the upsert (`detect.go`, about line 147); a recomputation reads its candidates before its
    transaction, its failures are logged only, and a restart forgets those under way. A paused instance
    keeps its assignments unless something else recomputes them. `AssignmentsFit` speaks of
    states without a recomputation under way, and of nodes still listed.

Resources
  - A slug is looked up in all tables before the transaction, whose index is that of its own table: `crossed`.
  - A generation rendered for one subscription can land in the subscription that replaced it, of
    another format: `strayed`.
  - A download that overlaps a switch may serve an upload encoded, or a plan as it is stored: `moved`.
  - The clean-up of a failed first version takes the row (life `rolled`) and leaves versions that
    others have uploaded meanwhile; the clean-up of an assembled rule takes everything the
    rule has by then.
  - A package whose commit fails, or that a restart cuts off, leaves its file behind. `DeleteInstallerFile`
    removes a file even if the platform it is asked of does not list it (`platform.go:582-599`): `misfiled`.

## 8. What is not modelled, and why

  - String work: pool parsers, mail templates and delivery, the Shadowrocket configuration file,
    form schemas of the other seventeen protocols, alias spellings, response headers, the front end.
    Sequential and stateless, better served by tests.
  - Transport (SMTP, gRPC, HTTP, OIDC discovery and signatures): an outcome chosen
    freely where a modelled component depends on it. The mock provider of development mode is left out.
  - Reads that nothing depends on: listings, statistics, the node check pipeline (`node/check.go`) but for its
    plugin verdicts, the comparison of the reconciliation page, previews and their hash, the access log.
  - Filters around the handlers: rate limits, captcha, redaction, logging; the database backup and the
    emergency commands, which run while the server does not.
  - Within the modelled parts: names and descriptions; SQL errors that leave no trace; the
    order of a pool's rules; which minute the daily job picks; the
    list of tables a clearing deletes; repairs of panel users by the reconciliation page, which
    follow the steps modelled in `XrayExt`; toggles of single nodes and of an instance in `XraySync` (they
    reach a user as a change of `allotted`); an RPC that is carried out only after its deadline;
    slugs of instances and custom subscriptions; explicit links, which have no caller.
    The components' notes in `PROJECT.json` say so one by one.

## 9. Plan

Done: the twelve components of section 3, all of them with theorems. What is left, in order:

1. Proofs about what a rendered document contains, for which the renderer would have to be stated without the recursive function.
2. The Shadowrocket configuration file as a third kind of plan in `ClashDoc`.

## 10. How to run it

    cd tla
    tlasany VersionStore.tla
    tlc -workers 2 -config MCVersionStore.cfg MCVersionStore
    tlapm VersionStore_proofs.tla

Replace module and configuration by those of the run or of the proof. The runs take between a
few seconds and three minutes with two workers, the proofs between one and eight minutes.
