--------------------------- MODULE MailDispatcher ---------------------------
(***************************************************************************)
(* The asynchronous mail dispatcher (internal/mail: dispatcher.go), the    *)
(* ring of recent mails it writes to (activity.go), the handlers that send *)
(* mail, the one-click reset that pauses it (dataclear.go and the hooks    *)
(* set in server.go) and the shutdown that stops it for good.              *)
(*                                                                         *)
(* Everything here is in the memory of one process.  d.mu guards the state *)
(* of the dispatcher for short critical sections, which are the steps      *)
(* below; lifecycleMu is held from the cancellation of a generation until  *)
(* its workers are gone, and is the variable `lock`.                       *)
(***************************************************************************)
EXTENDS Naturals, Sequences, FiniteSets

CONSTANTS
  Workers,        \* worker slots of a generation (dispatcherWorkers, 2)
  Senders,        \* handlers that dispatch a mail or test SMTP
  Clearers,       \* requests to clear all data
  QueueSize,      \* dispatcherQueueSize (100)
  LogSize,        \* ActivityLogCapacity (500)
  MaxMails,       \* bound: numbers given by the activity log
  MaxGenerations  \* bound: generations of workers started

ASSUME MailAssumption ==
  /\ QueueSize \in Nat \ {0} /\ LogSize \in Nat \ {0}
  /\ MaxMails \in Nat /\ MaxGenerations \in Nat \ {0}
  /\ Workers # {} /\ "stop" \notin Clearers /\ "free" \notin Clearers

VARIABLES
  queue,       \* the channel: a sequence of mail numbers
  log,         \* the ring, oldest first: records [id, status]
  nextID,      \* the last number given
  generation,  \* the running generation, 0 for nil
  started,     \* generations started so far
  canceled,    \* generations whose context is cancelled
  paused, stopped,
  lock,        \* lifecycleMu: "free", "stop" or the clearer that holds it
  worker,      \* generation -> slot -> [pc, id]
  sender,      \* handler -> [pc, id]
  clearer,     \* clearer -> [pc, gen]
  stopping,    \* the shutdown: "no", "waiting" or "done"
  configured,  \* SMTP is configured and its scopes are on
  disturbed,   \* history: clearers for whose pause another's resumption started workers
  fate,        \* history: what became of each mail, whether the ring still holds it or not
  results      \* history: how often each mail was handed to the result log

vars == <<queue, log, nextID, generation, started, canceled, paused, stopped, lock,
          worker, sender, clearer, stopping, configured, disturbed, fate, results>>
lifecycle == <<generation, started, canceled, paused, stopped, lock, clearer, stopping,
               configured, disturbed>>
records == <<log, nextID, fate, results>>

Mails == 1..MaxMails
Ends == {"accepted", "failed"}
Gone == [pc |-> "exited", id |-> 0]
Waiting == [pc |-> "waiting", id |-> 0]
Unavailable == stopped \/ paused \/ generation = 0

-----------------------------------------------------------------------------
\* The activity log.  A full ring forgets its oldest record, finished or not.

Append_Grow(status) == Append(log, [id |-> nextID + 1, status |-> status])
AppendRecord(status) ==
  LET kept == IF Len(log) >= LogSize THEN Tail(log) ELSE log
  IN  Append(kept, [id |-> nextID + 1, status |-> status])

\* BeginQueued, BeginSending, RecordTerminalFailed: the next number, with a first status.
Begin(status) ==
  /\ nextID < MaxMails
  /\ nextID' = nextID + 1
  /\ log' = AppendRecord(status)
  /\ fate' = [fate EXCEPT ![nextID + 1] = status]
  /\ results' = [results EXCEPT ![nextID + 1] = IF status = "failed" THEN 1 ELSE 0]

\* MarkSending, MarkAccepted, MarkSendFailed, MarkQueuedFailed: a record that is missing or
\* not in the status the mark starts from stays as it is; an end also goes to the result log.
Mark(m, from, to) ==
  LET hit(rec) == rec.id = m /\ rec.status = from
  IN  /\ log' = [i \in DOMAIN log |->
                   IF hit(log[i]) THEN [log[i] EXCEPT !.status = to] ELSE log[i]]
      /\ fate' = [fate EXCEPT ![m] = to]
      /\ results' = IF to \in Ends /\ \E i \in DOMAIN log : hit(log[i])
                    THEN [results EXCEPT ![m] = @ + 1] ELSE results
      /\ UNCHANGED nextID

-----------------------------------------------------------------------------
\* Dispatching

\* preflight: no recipient or the scope is off (skipped: no record), or go on.
PreflightPasses(s) ==
  /\ sender[s].pc = "idle"
  /\ ~Unavailable
  /\ configured
  /\ sender' = [sender EXCEPT ![s].pc = "checked"]
  /\ UNCHANGED <<queue, worker, records, lifecycle>>

\* Rejected before the queue: unavailable at the first look, or the configuration cannot be
\* read (before or after that look); either way a record that is finished from the start.
Reject(s) ==
  /\ sender[s].pc \in {"idle", "checked"}
  /\ Begin("failed")
  /\ sender' = [sender EXCEPT ![s].pc = "idle"]
  /\ UNCHANGED <<queue, worker, lifecycle>>

\* The address of the front end is missing: skipped after all.
Skip(s) ==
  /\ sender[s].pc = "checked"
  /\ sender' = [sender EXCEPT ![s].pc = "idle"]
  /\ UNCHANGED <<queue, worker, records, lifecycle>>

\* enqueuePrepared, under d.mu: look again, then number the mail and try the channel.
Enqueue_NoRecheck(s) ==
  /\ sender[s].pc = "checked"
  /\ sender' = [sender EXCEPT ![s].pc = "idle"]
  /\ IF Len(queue) < QueueSize
     THEN Begin("queued") /\ queue' = Append(queue, nextID + 1)
     ELSE Begin("failed") /\ UNCHANGED queue
  /\ UNCHANGED <<worker, lifecycle>>

Enqueue_FullStillQueued(s) ==
  /\ sender[s].pc = "checked"
  /\ sender' = [sender EXCEPT ![s].pc = "idle"]
  /\ IF Unavailable
     THEN Begin("failed") /\ UNCHANGED queue
     ELSE /\ Begin(IF Len(queue) < QueueSize THEN "queued" ELSE "failed")
          /\ queue' = Append(queue, nextID + 1)
  /\ UNCHANGED <<worker, lifecycle>>

Enqueue(s) ==
  /\ sender[s].pc = "checked"
  /\ sender' = [sender EXCEPT ![s].pc = "idle"]
  /\ IF ~Unavailable /\ Len(queue) < QueueSize
     THEN Begin("queued") /\ queue' = Append(queue, nextID + 1)
     ELSE Begin("failed") /\ UNCHANGED queue
  /\ UNCHANGED <<worker, lifecycle>>

\* TestSMTP runs in its handler, past the queue and the lifecycle.
TestBegin(s) ==
  /\ sender[s].pc = "idle"
  /\ Begin("sending")
  /\ sender' = [sender EXCEPT ![s] = [pc |-> "testing", id |-> nextID + 1]]
  /\ UNCHANGED <<queue, worker, lifecycle>>

TestEnd(s) ==
  /\ sender[s].pc = "testing"
  /\ \E end \in Ends : Mark(sender[s].id, "sending", end)
  /\ sender' = [sender EXCEPT ![s] = [pc |-> "idle", id |-> 0]]
  /\ UNCHANGED <<queue, worker, lifecycle>>

-----------------------------------------------------------------------------
\* A worker of generation g

SetWorker(g, w, state) == worker' = [worker EXCEPT ![g][w] = state]

\* select: a cancelled context and a waiting mail may both be ready, and either is taken.
Take(g, w) ==
  /\ worker[g][w].pc = "waiting"
  /\ queue # <<>>
  /\ queue' = Tail(queue)
  /\ SetWorker(g, w, [pc |-> "got", id |-> Head(queue)])
  /\ UNCHANGED <<sender, records, lifecycle>>

NoticeCancel(g, w) ==
  /\ worker[g][w].pc = "waiting"
  /\ g \in canceled
  /\ SetWorker(g, w, [pc |-> "draining", id |-> 0])
  /\ UNCHANGED <<queue, sender, records, lifecycle>>

\* The second look at the context, then MarkSending.
Start_KeepJob(g, w) ==
  /\ worker[g][w].pc = "got"
  /\ IF g \in canceled
     THEN /\ SetWorker(g, w, [pc |-> "draining", id |-> 0])
          /\ UNCHANGED records
     ELSE /\ Mark(worker[g][w].id, "queued", "sending")
          /\ SetWorker(g, w, [pc |-> "sending", id |-> worker[g][w].id])
  /\ UNCHANGED <<queue, sender, lifecycle>>

Start(g, w) ==
  /\ worker[g][w].pc = "got"
  /\ LET m == worker[g][w].id
     IN  IF g \in canceled
         THEN /\ Mark(m, "queued", "failed")
              /\ SetWorker(g, w, [pc |-> "draining", id |-> 0])
         ELSE /\ Mark(m, "queued", "sending")
              /\ SetWorker(g, w, [pc |-> "sending", id |-> m])
  /\ UNCHANGED <<queue, sender, lifecycle>>

\* sendJob returns -- it has a deadline and follows the context -- or panics.
Finish_Panic(g, w) ==
  /\ worker[g][w].pc = "sending"
  /\ \/ \E end \in Ends : Mark(worker[g][w].id, "sending", end) /\ SetWorker(g, w, Waiting)
     \/ SetWorker(g, w, Gone) /\ UNCHANGED records
  /\ UNCHANGED <<queue, sender, lifecycle>>

Finish(g, w) ==
  /\ worker[g][w].pc = "sending"
  /\ \E end \in Ends : Mark(worker[g][w].id, "sending", end)
  /\ SetWorker(g, w, Waiting)
  /\ UNCHANGED <<queue, sender, lifecycle>>

\* drainCanceled, one mail at a time; two workers may drain together.
DrainOne(g, w) ==
  /\ worker[g][w].pc = "draining"
  /\ queue # <<>>
  /\ queue' = Tail(queue)
  /\ Mark(Head(queue), "queued", "failed")
  /\ UNCHANGED <<worker, sender, lifecycle>>

DrainEnd(g, w) ==
  /\ worker[g][w].pc = "draining"
  /\ queue = <<>>
  /\ SetWorker(g, w, Gone)
  /\ UNCHANGED <<queue, sender, records, lifecycle>>

WorkerStep(g, w) ==
  \/ Take(g, w) \/ NoticeCancel(g, w) \/ Start(g, w)
  \/ Finish(g, w) \/ DrainOne(g, w) \/ DrainEnd(g, w)

-----------------------------------------------------------------------------
\* The lifecycle

AllGone(g) == g # 0 => \A w \in Workers : worker[g][w].pc = "exited"

\* startGenerationLocked; another clearer may have paused and not yet cleared.
StartGeneration(c) ==
  /\ started < MaxGenerations
  /\ started' = started + 1
  /\ generation' = started + 1
  /\ paused' = FALSE
  /\ worker' = [worker EXCEPT ![started + 1] = [w \in Workers |-> Waiting]]
  /\ disturbed' = disturbed \cup {d \in Clearers \ {c} : clearer[d].pc = "paused"}

\* PauseAndDrain: no new mail, cancel the generation -- and hold lifecycleMu.
PauseBegin(c) ==
  /\ clearer[c].pc = "idle"
  /\ lock = "free"
  /\ started < MaxGenerations
  /\ IF stopped
     THEN /\ clearer' = [clearer EXCEPT ![c].pc = "resume"]
          /\ UNCHANGED <<lock, paused, canceled>>
     ELSE /\ lock' = c
          /\ paused' = TRUE
          /\ canceled' = canceled \cup ({generation} \ {0})
          /\ clearer' = [clearer EXCEPT ![c] = [pc |-> "pausing", gen |-> generation]]
  /\ UNCHANGED <<queue, generation, started, stopped, worker, sender, stopping, configured, disturbed, records>>

\* ... and let go when the workers are gone; then the result log is flushed, or that fails.
PauseEnd(c) ==
  /\ clearer[c].pc = "pausing"
  /\ AllGone(clearer[c].gen)
  /\ lock' = "free"
  /\ generation' = IF generation = clearer[c].gen THEN 0 ELSE generation
  /\ \E next \in {"paused", "resume"} : clearer' = [clearer EXCEPT ![c] = [pc |-> next, gen |-> 0]]
  /\ disturbed' = disturbed \ {c}
  /\ UNCHANGED <<queue, started, canceled, paused, stopped, worker, sender, stopping, configured, records>>

\* One transaction deletes the users, their tokens and the SMTP configuration, or fails.
ClearTables(c) ==
  /\ clearer[c].pc = "paused"
  /\ configured' = FALSE
  /\ clearer' = [clearer EXCEPT ![c].pc = "cleared"]
  /\ UNCHANGED <<queue, generation, started, canceled, paused, stopped, lock, worker, sender, stopping, disturbed, records>>

ClearTablesFails(c) ==
  /\ clearer[c].pc = "paused"
  /\ clearer' = [clearer EXCEPT ![c].pc = "resume"]
  /\ UNCHANGED <<queue, generation, started, canceled, paused, stopped, lock, worker, sender, stopping, configured,
                 disturbed, records>>

\* Resume, after a clear that did not happen: keep the ring, start workers if there are none.
Resume(c) ==
  /\ clearer[c].pc = "resume"
  /\ lock = "free"
  /\ clearer' = [clearer EXCEPT ![c].pc = "idle"]
  /\ CASE stopped -> UNCHANGED <<generation, started, paused, worker, disturbed>>
       [] ~stopped /\ generation # 0 ->
            paused' = FALSE /\ UNCHANGED <<generation, started, worker, disturbed>>
       [] OTHER -> StartGeneration(c)
  /\ UNCHANGED <<queue, canceled, stopped, lock, sender, stopping, configured, records>>

\* ResumeAfterClear: forget the ring and start workers; refused when a generation runs.
ResumeAfterClear(c) ==
  /\ clearer[c].pc = "cleared"
  /\ lock = "free"
  /\ clearer' = [clearer EXCEPT ![c].pc = "idle"]
  /\ IF stopped \/ generation # 0
     THEN UNCHANGED <<log, generation, started, paused, worker, disturbed>>
     ELSE log' = <<>> /\ StartGeneration(c)
  /\ UNCHANGED <<queue, canceled, stopped, lock, sender, stopping, configured, nextID, fate, results>>

\* Stop, once the HTTP server has shut down or given up waiting: for good.
StopBegin ==
  /\ stopping = "no"
  /\ lock = "free"
  /\ lock' = "stop" /\ stopping' = "waiting"
  /\ stopped' = TRUE /\ paused' = TRUE
  /\ canceled' = canceled \cup ({generation} \ {0})
  /\ generation' = 0
  /\ UNCHANGED <<queue, started, worker, sender, clearer, configured, disturbed, records>>

StopEnd ==
  /\ stopping = "waiting"
  /\ \A g \in canceled : AllGone(g)
  /\ lock' = "free" /\ stopping' = "done"
  /\ UNCHANGED <<queue, generation, started, canceled, paused, stopped, worker, sender, clearer, configured, disturbed,
                 records>>

\* Setup, after a clear: SMTP can be configured again.
Setup ==
  /\ ~configured
  /\ configured' = TRUE
  /\ UNCHANGED <<queue, generation, started, canceled, paused, stopped, lock, worker, sender, clearer, stopping,
                 disturbed, records>>

-----------------------------------------------------------------------------
Init ==
  /\ queue = <<>> /\ log = <<>> /\ nextID = 0
  /\ generation = 1 /\ started = 1 /\ canceled = {}
  /\ paused = FALSE /\ stopped = FALSE /\ lock = "free"
  /\ worker = [g \in 1..MaxGenerations |-> [w \in Workers |-> IF g = 1 THEN Waiting ELSE Gone]]
  /\ sender = [s \in Senders |-> [pc |-> "idle", id |-> 0]]
  /\ clearer = [c \in Clearers |-> [pc |-> "idle", gen |-> 0]]
  /\ stopping = "no" /\ configured = TRUE /\ disturbed = {}
  /\ fate = [m \in Mails |-> "none"] /\ results = [m \in Mails |-> 0]

SenderStep(s) ==
  \/ PreflightPasses(s) \/ Reject(s) \/ Skip(s) \/ Enqueue(s)
  \/ TestBegin(s) \/ TestEnd(s)

ClearerStep(c) ==
  \/ PauseBegin(c) \/ PauseEnd(c) \/ ClearTables(c) \/ ClearTablesFails(c)
  \/ Resume(c) \/ ResumeAfterClear(c)

Next ==
  \/ \E s \in Senders : SenderStep(s)
  \/ \E g \in 1..MaxGenerations, w \in Workers : WorkerStep(g, w)
  \/ \E c \in Clearers : ClearerStep(c)
  \/ StopBegin \/ StopEnd \/ Setup

Spec == Init /\ [][Next]_vars

(* Workers are goroutines and every send ends: the transport has deadlines *)
(* and follows the context (mail.go).  A request that has begun to clear   *)
(* and a shutdown go on.  Nothing is assumed of who sends or clears.       *)
Fairness ==
  /\ \A g \in 1..MaxGenerations, w \in Workers : WF_vars(WorkerStep(g, w))
  /\ \A c \in Clearers :
       WF_vars(PauseEnd(c) \/ ClearTables(c) \/ ClearTablesFails(c) \/ Resume(c) \/ ResumeAfterClear(c))
  /\ WF_vars(StopEnd)

FairSpec == Spec /\ Fairness

-----------------------------------------------------------------------------
\* Properties

Alive(g) == \E w \in Workers : worker[g][w].pc # "exited"
Places(m) == {i \in DOMAIN queue : queue[i] = m}
Takers(m) == {gw \in (1..MaxGenerations) \X Workers :
                worker[gw[1]][gw[2]].pc = "got" /\ worker[gw[1]][gw[2]].id = m}

(* Every variable has its type; the channel and the ring keep their sizes. *)
TypeOK ==
  /\ queue \in Seq(Mails) /\ Len(queue) <= QueueSize
  /\ log \in Seq([id : 1..nextID, status : {"queued", "sending"} \cup Ends])
  /\ Len(log) <= LogSize /\ nextID \in 0..MaxMails
  /\ generation \in 0..started /\ started \in 1..MaxGenerations
  /\ canceled \subseteq 1..started
  /\ {paused, stopped, configured} \subseteq BOOLEAN
  /\ lock \in Clearers \cup {"free", "stop"}
  /\ worker \in [1..MaxGenerations -> [Workers ->
       [pc : {"waiting", "got", "sending", "draining", "exited"}, id : 0..MaxMails]]]
  /\ sender \in [Senders -> [pc : {"idle", "checked", "testing"}, id : 0..MaxMails]]
  /\ clearer \in [Clearers ->
       [pc : {"idle", "pausing", "paused", "cleared", "resume"}, gen : 0..MaxGenerations]]
  /\ stopping \in {"no", "waiting", "done"} /\ disturbed \subseteq Clearers
  /\ fate \in [Mails -> {"none", "queued", "sending"} \cup Ends]
  /\ results \in [Mails -> 0..2]

(* A mail waits in the channel or in the hands of one worker exactly as    *)
(* long as it is queued: none is lost between the channel and the workers, *)
(* and none is queued twice, through pause, drain, resume and stop.        *)
QueuedOnce ==
  \A m \in Mails : Cardinality(Places(m)) + Cardinality(Takers(m)) = IF fate[m] = "queued" THEN 1 ELSE 0

(* The ring never lies about a mail it still holds, so that the guards of  *)
(* its marks never turn one down, and an end is handed to the result log   *)
(* once -- or never, when the ring had forgotten the mail by then.         *)
LogAgrees ==
  /\ \A i \in DOMAIN log : /\ log[i].status = fate[log[i].id]
                           /\ results[log[i].id] = IF log[i].status \in Ends THEN 1 ELSE 0
  /\ \A m \in Mails : results[m] <= 1 /\ (results[m] = 1 => fate[m] \in Ends)

(* While there is no generation and nobody is ending one, nothing waits    *)
(* and nobody works (PauseAndDrain: the queue is empty, the workers gone). *)
DrainedWhenPaused ==
  generation = 0 /\ lock = "free" => queue = <<>> /\ \A g \in 1..MaxGenerations : ~Alive(g)

(* Workers of two generations never run together.                          *)
OneGeneration ==
  \A g, h \in 1..MaxGenerations : Alive(g) /\ Alive(h) => g = h

(* The tables are cleared only when no mail waits, none is being sent and  *)
(* none can be queued (Issue18: only after the workers are confirmed gone  *)
(* may users, tokens and the SMTP configuration be deleted) -- unless the  *)
(* resumption of another clear has started workers in between.             *)
QuietWhenCleared ==
  [][\A c \in Clearers \ disturbed :
       clearer[c].pc = "paused" /\ clearer'[c].pc = "cleared"
         => Unavailable /\ queue = <<>> /\ \A g \in 1..MaxGenerations : ~Alive(g)]_vars

Jobs == INSTANCE MailJobs

(* Each mail is tried at most once and has one end, whatever the ring      *)
(* remembers of it.                                                        *)
ImplementsJobs == Jobs!Init /\ [][Jobs!Next]_fate

(* Every mail that was queued comes to its end.                            *)
QueuedMailEnds == \A m \in Mails : fate[m] = "queued" ~> fate[m] \in Ends

(* A clear that has paused the dispatcher comes to an end, and so does the *)
(* shutdown: the workers do not hold them up.                              *)
LifecycleReturns ==
  /\ \A c \in Clearers : clearer[c].pc = "pausing" ~> clearer[c].pc = "idle"
  /\ stopping = "waiting" ~> stopping = "done"

(* Queued mails, clears and the shutdown all come to their end.            *)
EverythingEnds == QueuedMailEnds /\ LifecycleReturns

(* No mail is lost, doubled or misreported between sender, channel, worker *)
(* and ring, and a pause leaves none waiting and nobody working.           *)
MailKept == QueuedOnce /\ LogAgrees /\ DrainedWhenPaused /\ OneGeneration
=============================================================================
