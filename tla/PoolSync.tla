------------------------------ MODULE PoolSync ------------------------------
(***************************************************************************)
(* The synchronisation of ONE rule pool (internal/pool: sync.go, pool.go,  *)
(* the reset in cmd/server/main.go and the job in internal/cron/pool.go):  *)
(* its row, its URL sources, their snapshots, its manual entries and its   *)
(* tasks, all in the database, and the runners, contexts and cancel        *)
(* functions in memory.                                                    *)
(*                                                                         *)
(* Every transaction takes the write lock at BEGIN.  Those of a handler    *)
(* are one step here.  A runner writes a snapshot on a connection of its   *)
(* own under the task's context, which may be cancelled in between, so     *)
(* that transaction is two steps.  The process builds pool.Service twice,  *)
(* for the HTTP routes and for the daily job, each with its own `cancels`. *)
(***************************************************************************)
EXTENDS Naturals, FiniteSets, FiniteSetsExt

CONSTANTS
  Services,    \* the instances of pool.Service: "http" and "cron"
  Rules,       \* rules, each named by its semantic key
  Contents,    \* what a URL may serve: records [format, accepted, rules]; `accepted` counts
               \* all its rules, `rules` are those of Rules among them
  MaxUrls,     \* MaxURLCount: URL sources of the pool at a time
  MaxTasks,    \* bound: tasks submitted
  MaxRunners,  \* bound: goroutines that still run when a task is submitted
  MaxEntries,  \* bound: manual entries at a time
  MaxSources,  \* bound: sources ever made
  MaxSnaps,    \* bound: snapshots ever made
  MaxFaults    \* bound: crashes and failed last writes of a task

ASSUME PoolAssumption ==
  /\ Services \subseteq {"http", "cron"}
  /\ \A c \in Contents : c.format # "" /\ c.accepted \in Nat \ {0} /\ c.rules \subseteq Rules
  /\ {MaxUrls, MaxTasks, MaxRunners, MaxEntries, MaxSources, MaxSnaps,
      MaxFaults} \subseteq Nat

VARIABLES
  life,        \* the pool row: "absent", "present" or "gone"
  shown,       \* its sync_status
  tasks,       \* pool_sync_tasks: id -> [status, restarted (its error says so)]
  sources,     \* rule_pool_sources of kind url: id -> [active, pending], each a snapshot
  canonical,   \* pool_canonical_rules: one row for each rule, whoever it comes from
  origins,     \* pool_rule_origins: records [rule, snap]; a manual entry has no snapshot (0)
  given,       \* the last id given of each table (AUTOINCREMENT)
  runner,      \* task -> [pc, by, todo, ok, any, all, verdict]
  stopped,     \* task -> its context is cancelled, by CancelSync or by its timer
  cancels,     \* service -> tasks it can cancel
  canceller,   \* the task a CancelSync call has cancelled and goes on to mark, 0 for none
  proc,        \* the process: "up", "down" or "booting"
  faults,
  lost,        \* history: tasks whose last write failed (logged, nothing else)
  typed        \* history: the entries the administrator has made and not taken back

vars == <<life, shown, tasks, sources, canonical, origins, given, runner, stopped,
          cancels, canceller, proc, faults, lost, typed>>
entries == <<canonical, origins, typed>>
rows == <<life, shown, tasks, sources, given, entries>>
memory == <<runner, stopped, cancels, canceller>>

Tasks == 1..MaxTasks
Nothing == [format |-> "", accepted |-> 0, rules |-> {}]
NoSnap == [id |-> 0, content |-> Nothing, vs |-> 0]   \* a pointer that is NULL
Away == [pc |-> "away", by |-> "http", todo |-> {}, ok |-> FALSE,
         any |-> FALSE, all |-> TRUE, verdict |-> ""]

Running(t) == t \in DOMAIN tasks /\ tasks[t].status = "running"
Alive(t) == runner[t].pc # "away"
Locked == \E t \in Tasks : runner[t].pc = "writing"
Serving == proc = "up" /\ ~Locked
Put(f, k, v) == [i \in DOMAIN f \cup {k} |-> IF i = k THEN v ELSE f[i]]
Keep(f, S) == [i \in DOMAIN f \cap S |-> f[i]]
Ended == {t \in DOMAIN tasks : tasks[t].status # "running"}
Fault == faults < MaxFaults /\ faults' = faults + 1

\* A task and the pool's copy of its status change together, the task only once.
End(t, status) ==
  IF Running(t)
  THEN /\ tasks' = Put(tasks, t, [status |-> status, restarted |-> FALSE])
       /\ shown' = status
  ELSE UNCHANGED <<tasks, shown>>

-----------------------------------------------------------------------------
\* The pool and its sources

NewSources(k) == given.source + 1 .. given.source + k
Fresh(k) == [s \in NewSources(k) |-> [active |-> NoSnap, pending |-> NoSnap]]

Create(k) ==
  /\ Serving
  /\ life = "absent"
  /\ given.source + k <= MaxSources
  /\ life' = "present"
  /\ sources' = Fresh(k)
  /\ given' = [given EXCEPT !.source = @ + k]
  /\ UNCHANGED <<entries, shown, tasks, memory, proc, faults, lost>>

\* Where the rules come from: an entry, or a snapshot.  The write that takes origins away
\* drops the rules that are left without one (cleanupOrphanCanonicalTx).
Origins(rules, snap) == {[rule |-> q, snap |-> snap] : q \in rules}
Manual == {o \in origins : o.snap = 0}
Traced(os) == {q \in canonical : \E o \in os : o.rule = q}
Retrace(os) == origins' = os /\ canonical' = Traced(os)

\* Every URL source is deleted, with its snapshots, and the new list inserted.
Update(k) ==
  /\ Serving
  /\ life = "present"
  /\ given.source + k <= MaxSources
  /\ sources' = Fresh(k)
  /\ given' = [given EXCEPT !.source = @ + k]
  /\ Retrace(Manual)
  /\ UNCHANGED <<life, shown, tasks, memory, proc, faults, lost, typed>>

Delete_NoCascade ==
  /\ Serving
  /\ life = "present"
  /\ life' = "gone" /\ shown' = ""
  /\ sources' = Keep(sources, {})
  /\ canonical' = {} /\ origins' = {} /\ typed' = {}
  /\ UNCHANGED <<tasks, given, memory, proc, faults, lost>>

Delete ==
  /\ Serving
  /\ life = "present"
  /\ life' = "gone" /\ shown' = ""
  /\ tasks' = Keep(tasks, {}) /\ sources' = Keep(sources, {})
  /\ canonical' = {} /\ origins' = {} /\ typed' = {}
  /\ UNCHANGED <<given, memory, proc, faults, lost>>

\* The administrator's answer to a candidate; `sn` is the one the page showed.
ActivatePending(s, sn) ==
  /\ Serving
  /\ s \in DOMAIN sources /\ sn # 0 /\ sources[s].pending.id = sn
  /\ sources' = [sources EXCEPT ![s] = [active |-> @.pending, pending |-> NoSnap]]
  /\ UNCHANGED <<entries, life, shown, tasks, given, memory, proc, faults, lost>>

DiscardPending(s, sn) ==
  /\ Serving
  /\ s \in DOMAIN sources /\ sn # 0 /\ sources[s].pending.id = sn
  /\ sources' = [sources EXCEPT ![s].pending = NoSnap]
  /\ Retrace({o \in origins : o.snap # sn})
  /\ UNCHANGED <<life, shown, tasks, given, memory, proc, faults, lost, typed>>

-----------------------------------------------------------------------------
\* Manual entries.  A rule that has an entry already is refused (ErrEntryConflict), and an
\* entry is addressed by its rule, which it may share with snapshots.

CreateEntry(q) ==
  /\ Serving
  /\ life = "present"
  /\ Cardinality(Manual) < MaxEntries
  /\ q \notin {o.rule : o \in Manual}
  /\ canonical' = canonical \cup {q}
  /\ origins' = origins \cup Origins({q}, 0)
  /\ typed' = typed \cup {q}
  /\ UNCHANGED <<life, shown, tasks, sources, given, memory, proc, faults, lost>>

UpdateEntry_InPlace(q, new) ==
  /\ Serving
  /\ q \in {o.rule : o \in Manual} /\ new \notin {o.rule : o \in Manual}
  /\ canonical' = (canonical \ {q}) \cup {new}
  /\ origins' = {[o EXCEPT !.rule = IF @ = q THEN new ELSE @] : o \in origins}
  /\ typed' = (typed \ {q}) \cup {new}
  /\ UNCHANGED <<life, shown, tasks, sources, given, memory, proc, faults, lost>>

\* The entry moves to the other rule; the rule it leaves may still belong to a snapshot.
UpdateEntry(q, new) ==
  /\ Serving
  /\ q \in {o.rule : o \in Manual} /\ new \notin {o.rule : o \in Manual}
  /\ origins' = (origins \ Origins({q}, 0)) \cup Origins({new}, 0)
  /\ canonical' = {p \in canonical \cup {new} : \E o \in origins' : o.rule = p}
  /\ typed' = (typed \ {q}) \cup {new}
  /\ UNCHANGED <<life, shown, tasks, sources, given, memory, proc, faults, lost>>

DeleteEntry(q) ==
  /\ Serving
  /\ q \in {o.rule : o \in Manual}
  /\ Retrace(origins \ Origins({q}, 0))
  /\ typed' = typed \ {q}
  /\ UNCHANGED <<life, shown, tasks, sources, given, memory, proc, faults, lost>>

-----------------------------------------------------------------------------
\* SubmitSync: one transaction, then the context, the cancel function and the goroutine

Submit(v) ==
  /\ Serving
  /\ life = "present"
  /\ \A t \in DOMAIN tasks : tasks[t].status # "running"
  /\ given.task < MaxTasks
  /\ Cardinality({t \in Tasks : Alive(t)}) <= MaxRunners
  /\ LET t == given.task + 1
     IN  /\ tasks' = Put(tasks, t, [status |-> "running", restarted |-> FALSE])
         /\ given' = [given EXCEPT !.task = t]
         /\ runner' = [runner EXCEPT ![t] = [Away EXCEPT !.pc = "committed", !.by = v]]
  /\ shown' = "running"
  /\ UNCHANGED <<entries, life, sources, stopped, cancels, canceller, proc, faults, lost>>

Register(t) ==
  /\ runner[t].pc = "committed"
  /\ cancels' = [cancels EXCEPT ![runner[t].by] = @ \cup {t}]
  /\ runner' = [runner EXCEPT ![t].pc = "open"]
  /\ UNCHANGED <<rows, stopped, canceller, proc, faults, lost>>

\* 30 minutes are over (SyncTaskTimeout).
Timeout(t) ==
  /\ runner[t].pc \notin {"away", "committed"}
  /\ ~stopped[t]
  /\ stopped' = [stopped EXCEPT ![t] = TRUE]
  /\ UNCHANGED <<rows, runner, cancels, canceller, proc, faults, lost>>

-----------------------------------------------------------------------------
\* runSyncTask

Step(t, changes) == runner' = [runner EXCEPT ![t] = changes]
Finishing(t, verdict) == [runner[t] EXCEPT !.pc = "finish", !.verdict = verdict]

\* The connection, the check for the pool and the list of its sources.  A task without a
\* pool just returns; a pool that goes after the check has no sources, and no task to end.
OpenPool(t) ==
  /\ runner[t].pc = "open"
  /\ Step(t, IF life = "present"
             THEN [runner[t] EXCEPT !.pc = "next", !.todo = DOMAIN sources]
             ELSE [runner[t] EXCEPT !.pc = "exit"])
  /\ UNCHANGED <<rows, stopped, cancels, canceller, proc, faults, lost>>

\* The connection cannot be opened or a read fails: failTask.
OpenFails(t) ==
  /\ runner[t].pc = "open"
  /\ Step(t, Finishing(t, "failed"))
  /\ UNCHANGED <<rows, stopped, cancels, canceller, proc, faults, lost>>

\* The context is looked at before and after every source.
Interrupted_Returns(t) ==
  /\ runner[t].pc = "next"
  /\ stopped[t]
  /\ Step(t, [runner[t] EXCEPT !.pc = "exit"])
  /\ UNCHANGED <<rows, stopped, cancels, canceller, proc, faults, lost>>

Interrupted(t) ==
  /\ runner[t].pc = "next"
  /\ stopped[t]
  /\ Step(t, Finishing(t, "failed"))
  /\ UNCHANGED <<rows, stopped, cancels, canceller, proc, faults, lost>>

AllDone(t) ==
  /\ runner[t].pc = "next"
  /\ ~stopped[t]
  /\ runner[t].todo = {}
  /\ Step(t, Finishing(t, IF ~runner[t].any THEN "failed"
                          ELSE IF runner[t].all THEN "succeeded" ELSE "partial"))
  /\ UNCHANGED <<rows, stopped, cancels, canceller, proc, faults, lost>>

\* The URL is fetched and parsed, or it fails: either way there is a snapshot to write.
Fetch(t, ok) ==
  /\ runner[t].pc = "next"
  /\ ~stopped[t]
  /\ runner[t].todo # {}
  /\ Step(t, [runner[t] EXCEPT !.pc = "fetched", !.ok = ok])
  /\ UNCHANGED <<rows, stopped, cancels, canceller, proc, faults, lost>>

\* The source is done with: on to the next one.
Onward(t, ok) ==
  [runner[t] EXCEPT !.pc = "next", !.ok = FALSE,
                    !.todo = @ \ {Min(@)}, !.any = @ \/ ok, !.all = @ /\ ok]

\* BEGIN under the task's context.
BeginWrite(t) ==
  /\ runner[t].pc = "fetched"
  /\ ~stopped[t] /\ ~Locked
  /\ Step(t, [runner[t] EXCEPT !.pc = "writing"])
  /\ UNCHANGED <<rows, stopped, cancels, canceller, proc, faults, lost>>

\* The context is cancelled by then, or the lock does not come free in time.
NoWrite(t) ==
  /\ runner[t].pc = "fetched"
  /\ Step(t, Onward(t, FALSE))
  /\ UNCHANGED <<rows, stopped, cancels, canceller, proc, faults, lost>>

\* The review gate: what needs an administrator before it may replace the active snapshot.
Anomalous(old, new) ==
  \/ new.format # old.format
  \/ old.accepted >= 20 /\ new.accepted * 10 < old.accepted * 7

\* applyParseResultTx: a snapshot of content c is compared with the active one.
Pointers(source, snap) ==
  IF source.active # NoSnap /\ Anomalous(source.active.content, snap.content)
  THEN [source EXCEPT !.pending = snap]
  ELSE [active |-> snap, pending |-> NoSnap]

\* INSERT takes a number and fails without its source; on failure nothing is written.  The
\* snapshot's rules have their origins from now on, also while it waits for a review, and
\* those of the snapshot it replaces stay.
CommitWrite(t, c) ==
  LET s == Min(runner[t].todo)
  IN  /\ runner[t].pc = "writing" /\ runner[t].ok
      /\ s \in DOMAIN sources
      /\ given.snap < MaxSnaps
      /\ given' = [given EXCEPT !.snap = @ + 1]
      /\ sources' = [sources EXCEPT ![s] =
                       Pointers(@, [id |-> given.snap + 1, content |-> c, vs |-> @.active.id])]
      /\ canonical' = canonical \cup c.rules
      /\ origins' = origins \cup Origins(c.rules, given.snap + 1)
      /\ Step(t, Onward(t, TRUE))
      /\ UNCHANGED <<life, shown, tasks, stopped, cancels, canceller, proc, faults, lost, typed>>

\* recordFailedSnapshotTx: a row no pointer names; the source stays as it is.
CommitFailure(t) ==
  /\ runner[t].pc = "writing" /\ ~runner[t].ok
  /\ Min(runner[t].todo) \in DOMAIN sources
  /\ given.snap < MaxSnaps
  /\ given' = [given EXCEPT !.snap = @ + 1]
  /\ Step(t, Onward(t, FALSE))
  /\ UNCHANGED <<entries, life, shown, tasks, sources, stopped, cancels, canceller, proc, faults, lost>>

\* The source is gone, the context was cancelled meanwhile, or a statement fails.
AbortWrite(t) ==
  /\ runner[t].pc = "writing"
  /\ Step(t, Onward(t, FALSE))
  /\ UNCHANGED <<rows, stopped, cancels, canceller, proc, faults, lost>>

\* finishTask and failTask: the context is looked at once more inside the transaction.
Finish(t) ==
  /\ runner[t].pc = "finish" /\ ~Locked
  /\ End(t, IF stopped[t] THEN "failed" ELSE runner[t].verdict)
  /\ Step(t, [runner[t] EXCEPT !.pc = "exit"])
  /\ UNCHANGED <<entries, life, sources, given, stopped, cancels, canceller, proc, faults, lost>>

\* The lock did not come free in 5 seconds (terminalWriteTime): logged, and that is all.
FinishFails(t) ==
  /\ runner[t].pc = "finish"
  /\ Fault
  /\ lost' = IF Running(t) THEN lost \cup {t} ELSE lost
  /\ Step(t, [runner[t] EXCEPT !.pc = "exit"])
  /\ UNCHANGED <<rows, stopped, cancels, canceller, proc>>

\* The deferred clean-up of the goroutine.
Exit(t) ==
  /\ runner[t].pc = "exit"
  /\ cancels' = [cancels EXCEPT ![runner[t].by] = @ \ {t}]
  /\ stopped' = [stopped EXCEPT ![t] = FALSE]
  /\ Step(t, Away)
  /\ UNCHANGED <<rows, canceller, proc, faults, lost>>

-----------------------------------------------------------------------------
\* CancelSync: the context first, then the row

AskCancel(t) ==
  /\ proc = "up"
  /\ canceller = 0
  /\ "http" \in Services /\ t \in cancels["http"]
  /\ canceller' = t
  /\ stopped' = [stopped EXCEPT ![t] = TRUE]
  /\ UNCHANGED <<rows, runner, cancels, proc, faults, lost>>

MarkCancelled_Unguarded ==
  /\ Serving
  /\ canceller # 0
  /\ IF canceller \in DOMAIN tasks
     THEN /\ tasks' = Put(tasks, canceller, [status |-> "failed", restarted |-> FALSE])
          /\ shown' = "failed"
     ELSE UNCHANGED <<tasks, shown>>
  /\ canceller' = 0
  /\ UNCHANGED <<entries, life, sources, given, runner, stopped, cancels, proc, faults, lost>>

\* A task that has ended by now is left as it is (the answer is an error, or success if
\* its runner was the one to record the cancellation).
MarkCancelled ==
  /\ Serving
  /\ canceller # 0
  /\ End(canceller, "failed")
  /\ canceller' = 0
  /\ UNCHANGED <<entries, life, sources, given, runner, stopped, cancels, proc, faults, lost>>

\* The client went away, or the lock did not come free.
MarkFails ==
  /\ canceller # 0
  /\ canceller' = 0
  /\ UNCHANGED <<rows, runner, stopped, cancels, proc, faults, lost>>

-----------------------------------------------------------------------------
\* History

ClearFinishedTasks ==
  /\ Serving
  /\ life = "present"
  /\ tasks' = Keep(tasks, DOMAIN tasks \ Ended)
  /\ UNCHANGED <<entries, life, shown, sources, given, memory, proc, faults, lost>>

\* What ended more than seven days ago goes: the oldest tasks.  (So do failed snapshots,
\* which no pointer names.)  The daily job does this, and finishTask after its commit.
CleanupOldTasks(upTo) ==
  /\ Serving
  /\ tasks' = Keep(tasks, {t \in DOMAIN tasks : t > upTo \/ Running(t)})
  /\ Retrace(origins)
  /\ UNCHANGED <<life, shown, sources, given, memory, proc, faults, lost, typed>>

-----------------------------------------------------------------------------
\* The process

Crash ==
  /\ proc # "down"
  /\ Fault
  /\ proc' = "down"
  /\ runner' = [t \in Tasks |-> Away]
  /\ stopped' = [t \in Tasks |-> FALSE]
  /\ cancels' = [v \in Services |-> {}]
  /\ canceller' = 0
  /\ UNCHANGED <<rows, lost>>

\* Two statements of main, outside a transaction: the tasks, then the pools that ...
BootTasks_NoReset ==
  /\ proc = "down"
  /\ proc' = "booting"
  /\ UNCHANGED <<rows, memory, faults, lost>>

BootTasks ==
  /\ proc = "down"
  /\ proc' = "booting"
  /\ tasks' = [t \in DOMAIN tasks |->
                 IF Running(t) THEN [status |-> "failed", restarted |-> TRUE] ELSE tasks[t]]
  /\ UNCHANGED <<entries, life, shown, sources, given, memory, faults, lost>>

\* ... have any task that a restart ever interrupted.
BootPools ==
  /\ proc = "booting"
  /\ proc' = "up"
  /\ shown' = IF \E t \in DOMAIN tasks : tasks[t].restarted
              THEN "failed" ELSE shown
  /\ UNCHANGED <<entries, life, tasks, sources, given, memory, faults, lost>>

-----------------------------------------------------------------------------
\* No pool yet, or one that was synchronised before and whose history is gone since.
Init ==
  /\ tasks = [t \in {} |-> Nothing]
  /\ \/ /\ life = "absent" /\ shown = ""
        /\ sources = [s \in {} |-> Nothing]
        /\ canonical = {} /\ origins = {} /\ typed = {}
        /\ given = [task |-> 0, source |-> 0, snap |-> 0]
     \/ /\ MaxSources > 0 /\ MaxSnaps > 0
        /\ life = "present" /\ shown = "succeeded"
        /\ \E c \in Contents :
             /\ sources = [s \in {1} |-> [active |-> [id |-> 1, content |-> c, vs |-> 0],
                                         pending |-> NoSnap]]
             /\ canonical = c.rules /\ origins = Origins(c.rules, 1) /\ typed = {}
        /\ given = [task |-> 0, source |-> 1, snap |-> 1]
  /\ runner = [t \in Tasks |-> Away]
  /\ stopped = [t \in Tasks |-> FALSE]
  /\ cancels = [v \in Services |-> {}]
  /\ canceller = 0 /\ proc = "up" /\ faults = 0 /\ lost = {}

RunnerStep(t) ==
  \/ Register(t)
  \/ OpenPool(t) \/ OpenFails(t)
  \/ Interrupted(t) \/ AllDone(t)
  \/ \E ok \in BOOLEAN : Fetch(t, ok)
  \/ BeginWrite(t) \/ NoWrite(t) \/ AbortWrite(t)
  \/ (\E c \in Contents : CommitWrite(t, c)) \/ CommitFailure(t)
  \/ Finish(t) \/ FinishFails(t) \/ Exit(t)

AdminStep ==
  \/ \E k \in 0..MaxUrls : Create(k) \/ Update(k)
  \/ Delete
  \/ \E s \in DOMAIN sources, sn \in 1..given.snap : ActivatePending(s, sn) \/ DiscardPending(s, sn)
  \/ \E q \in Rules : CreateEntry(q) \/ DeleteEntry(q) \/ \E new \in Rules : UpdateEntry(q, new)
  \/ \E v \in Services : Submit(v)
  \/ \E t \in Tasks : AskCancel(t)
  \/ MarkCancelled \/ MarkFails
  \/ ClearFinishedTasks

Next ==
  \/ AdminStep
  \/ \E t \in Tasks : RunnerStep(t) \/ Timeout(t)
  \/ \E upTo \in Tasks : CleanupOldTasks(upTo)
  \/ Crash \/ BootTasks \/ BootPools

Spec == Init /\ [][Next]_vars

\* A goroutine that can go on does, every fetch ends (urlTimeout), and a process that
\* ended is started again (docker-compose.yml: restart).
Fairness ==
  /\ \A t \in Tasks : WF_vars(RunnerStep(t))
  /\ WF_vars(BootTasks \/ BootPools)

FairSpec == Spec /\ Fairness

-----------------------------------------------------------------------------
\* Properties

Statuses == {"running", "succeeded", "partial", "failed"}
Pcs == {"away", "committed", "open", "next", "fetched", "writing", "finish", "exit"}

Snaps == [id : 0..given.snap, content : Contents \cup {Nothing}, vs : 0..given.snap]

(* Every variable has its type, and nothing outlives the pool it belongs   *)
(* to (ON DELETE CASCADE).                                                 *)
TypeOK ==
  /\ life \in {"absent", "present", "gone"} /\ shown \in Statuses \cup {""}
  /\ given \in [task : 0..MaxTasks, source : 0..MaxSources, snap : 0..MaxSnaps]
  /\ DOMAIN tasks \subseteq 1..given.task
  /\ tasks \in [DOMAIN tasks -> [status : Statuses, restarted : BOOLEAN]]
  /\ DOMAIN sources \subseteq 1..given.source
  /\ sources \in [DOMAIN sources -> [active : Snaps, pending : Snaps]]
  /\ runner \in [Tasks -> [pc : Pcs, by : Services \cup {"http"}, todo : SUBSET (1..given.source),
                           ok : BOOLEAN, any : BOOLEAN, all : BOOLEAN,
                           verdict : Statuses \cup {""}]]
  /\ stopped \in [Tasks -> BOOLEAN]
  /\ cancels \in [Services -> SUBSET Tasks]
  /\ canceller \in 0..MaxTasks
  /\ proc \in {"up", "down", "booting"} /\ faults \in 0..MaxFaults
  /\ lost \subseteq Tasks
  /\ origins \subseteq [rule : canonical, snap : 0..given.snap] /\ canonical \subseteq Rules
  /\ life # "present" => DOMAIN tasks \cup DOMAIN sources \cup origins = {} /\ shown = ""

(* While the process serves, the pool shows "running" exactly when it has  *)
(* one running task, and it never has two: cancelling, ending, clearing    *)
(* the history and restarting keep sync_status and the tasks together.     *)
PoolShowsRunning ==
  proc = "up" =>
    Cardinality({t \in DOMAIN tasks : Running(t)}) = IF shown = "running" THEN 1 ELSE 0

(* A task that is running has a runner that will end it, unless the write  *)
(* of its end failed: a restart leaves no task running for ever, which     *)
(* would block every later SubmitSync with ErrSyncRunning.                 *)
RunningHasRunner ==
  proc = "up" => \A t \in DOMAIN tasks : Running(t) => Alive(t) \/ t \in lost

(* The candidate an administrator is asked about needs the question, and   *)
(* was compared with what is active now: no later synchronisation leaves   *)
(* an outdated candidate behind.                                           *)
PendingFacesActive ==
  \A s \in DOMAIN sources :
    LET act == sources[s].active
        pend == sources[s].pending
    IN  pend # NoSnap => /\ act # NoSnap /\ act.id < pend.id
                         /\ pend.vs = act.id
                         /\ Anomalous(act.content, pend.content)

(* Only the task that is running writes snapshots: the runner of a task    *)
(* that was cancelled is still on its way out when the next task starts,   *)
(* but it changes nothing any more (CancelSync cancels before it marks).   *)
WriterRuns ==
  [][\A t \in Tasks : (runner[t].pc = "writing" /\ given'.snap # given.snap) => Running(t)]_vars

(* The status a task ended with stays, whoever else is about to end it:    *)
(* runner, CancelSync, timeout or restart.                                 *)
EndIsFinal ==
  [][\A t \in DOMAIN tasks : ~Running(t) => (t \in DOMAIN tasks' => tasks'[t] = tasks[t])]_vars

(* No task runs for ever, so that the next one can always be submitted,    *)
(* unless the write of its end failed: each ends or disappears, and two    *)
(* never run together.                                                     *)
TaskEnds == []<>(\A t \in Tasks : Running(t) => t \in lost)

(* A task that has ended, by whomever, writes nothing and stays as it is.  *)
EndedIsOver == WriterRuns /\ EndIsFinal

(* What ListEntries shows and assembly reads.                              *)
Listed ==
  {o.rule : o \in {x \in origins : x.rule \in canonical /\
                     (x.snap = 0 \/ \E s \in DOMAIN sources : sources[s].active.id = x.snap)}}

(* The pool's rules are the entries the administrator typed and the rules  *)
(* of the active snapshots, each still there however the other comes and   *)
(* goes: rows are shared between an entry, the active snapshot, candidates *)
(* and replaced snapshots, and collected only when the last one lets go.   *)
EntriesAreDue ==
  Listed = typed \cup UNION {sources[s].active.content.rules : s \in DOMAIN sources}

(* What the pool shows and what its tasks say is what really runs, a       *)
(* candidate under review still faces the active snapshot, and the rules   *)
(* listed are the ones due.                                                *)
PoolConsistent ==
  PoolShowsRunning /\ RunningHasRunner /\ PendingFacesActive /\ EntriesAreDue
=============================================================================
