----------------------------- MODULE Mail_proofs -----------------------------
(***************************************************************************)
(* Proofs about the mail dispatcher, for any number of workers, senders,   *)
(* mails, generations and clearings, and about the log of mail results,    *)
(* for any number of callers, clears and resets and a channel of any size. *)
(***************************************************************************)
EXTENDS MailDispatcher, MailResultLog, FiniteSetTheorems, SequenceTheorems, TLAPS

Gens == 1..MaxGenerations

\* What waits in the channel is queued, and waits there once.
QueueInv ==
  /\ \A i \in DOMAIN queue : fate[queue[i]] = "queued"
  /\ \A i, j \in DOMAIN queue : queue[i] = queue[j] => i = j

\* A worker's mail is one that it took from the channel or is sending, and no other's.
HandsInv ==
  \A g \in Gens, w \in Workers : LET t == worker[g][w] IN
    /\ t.pc \in {"got", "sending"} => t.id \in Mails
    /\ t.pc = "got" => fate[t.id] = "queued" /\ \A i \in DOMAIN queue : queue[i] # t.id
    /\ t.pc = "sending" => fate[t.id] = "sending"

ApartInv ==
  \A g, h \in Gens, w, v \in Workers :
    /\ worker[g][w].pc \in {"got", "sending"}
    /\ worker[h][v].pc = worker[g][w].pc /\ worker[h][v].id = worker[g][w].id
    => g = h /\ w = v

\* So is the mail of a handler that tests SMTP.
TestInv ==
  \A s \in Senders : sender[s].pc = "testing" =>
    /\ sender[s].id \in Mails /\ fate[sender[s].id] = "sending"
    /\ \A g \in Gens, w \in Workers : worker[g][w].pc = "sending" => worker[g][w].id # sender[s].id
    /\ \A t \in Senders : sender[t].pc = "testing" /\ sender[t].id = sender[s].id => t = s

\* A queued mail is somewhere.
HeldInv ==
  \A m \in Mails : fate[m] = "queued" =>
    \/ \E i \in DOMAIN queue : queue[i] = m
    \/ \E g \in Gens, w \in Workers : worker[g][w].pc = "got" /\ worker[g][w].id = m

\* A number not yet given names no mail.
NumberInv == \A m \in Mails : m > nextID => fate[m] = "none"

\* Only the running generation has workers, or the one the shutdown waits for; a generation
\* that runs uncancelled has them all, and no mail waits without one.
WorkersInv ==
  /\ \A g \in Gens, w \in Workers : worker[g][w].pc # "exited" =>
       g <= started /\ (g = generation \/ (lock = "stop" /\ g \in canceled))
  /\ generation \notin canceled =>
       \A g \in Gens, w \in Workers : g = generation => worker[g][w].pc \notin {"draining", "exited"}
  /\ queue # <<>> => \E g \in Gens : Alive(g)

\* Who holds lifecycleMu is ending the running generation.
LockInv ==
  /\ generation \in canceled => lock \in Clearers
  /\ \A c \in Clearers : clearer[c].pc = "pausing" =>
       lock = c /\ clearer[c].gen = generation /\ paused
  /\ lock \in Clearers => clearer[lock].pc = "pausing"
  /\ lock = "stop" <=> stopping = "waiting"
  /\ stopped => generation = 0
  /\ stopping = "waiting" => stopped

\* A clear that has paused the dispatcher finds it at rest, unless another one has resumed it.
PausedInv ==
  \A c \in Clearers \ disturbed : clearer[c].pc = "paused" =>
    generation = 0 /\ \A g \in Gens : ~Alive(g)

JobInv == QueueInv /\ HandsInv /\ ApartInv /\ TestInv /\ HeldInv
RecordInv == NumberInv /\ LogAgrees
LifeInv == WorkersInv /\ LockInv /\ PausedInv /\ OneGeneration

IInv == TypeOK /\ JobInv /\ RecordInv /\ LifeInv

-----------------------------------------------------------------------------
\* The types of what the actions put into the variables.

Statuses == {"queued", "sending", "accepted", "failed"}
WorkerT == [pc : {"waiting", "got", "sending", "draining", "exited"}, id : 0..MaxMails]
SenderT == [pc : {"idle", "checked", "testing"}, id : 0..MaxMails]
ClearerT == [pc : {"idle", "pausing", "paused", "cleared", "resume"}, gen : 0..MaxGenerations]
LogT(n) == [id : 1..n, status : Statuses]

RecordT ==
  /\ log \in Seq(LogT(nextID)) /\ Len(log) <= LogSize
  /\ nextID \in 0..MaxMails
  /\ fate \in [Mails -> Statuses \cup {"none"}] /\ results \in [Mails -> 0..2]

JobT ==
  /\ queue \in Seq(Mails) /\ Len(queue) <= QueueSize
  /\ worker \in [Gens -> [Workers -> WorkerT]] /\ sender \in [Senders -> SenderT]

LifeT ==
  /\ generation \in 0..started /\ started \in Gens /\ canceled \subseteq 1..started
  /\ paused \in BOOLEAN /\ stopped \in BOOLEAN /\ configured \in BOOLEAN
  /\ lock \in Clearers \cup {"free", "stop"}
  /\ clearer \in [Clearers -> ClearerT]
  /\ stopping \in {"no", "waiting", "done"} /\ disturbed \subseteq Clearers

LEMMA Types == TypeOK <=> RecordT /\ JobT /\ LifeT
<1>1. {"queued", "sending"} \cup Ends = Statuses
  BY DEF Ends, Statuses
<1>2. {"none", "queued", "sending"} \cup Ends = Statuses \cup {"none"}
  BY DEF Ends, Statuses
<1> QED
  BY <1>1, <1>2 DEF TypeOK, RecordT, JobT, LifeT, LogT, WorkerT, SenderT, ClearerT, Gens

\* The bound on generations and the channel's room are numbers.
LEMMA Sizes ==
  /\ MaxMails \in Nat /\ LogSize \in Nat \ {0} /\ QueueSize \in Nat \ {0}
  /\ MaxGenerations \in Nat \ {0} /\ Workers # {} /\ {"stop", "free"} \cap Clearers = {}
  BY MailAssumption

\* A list written position by position is a sequence.
LEMMA ListOfItems ==
  ASSUME NEW S, NEW n \in Nat, NEW t \in [1..n -> S]
  PROVE  t \in Seq(S) /\ Len(t) = n /\ DOMAIN t = 1..n
  OBVIOUS

\* What the ring holds.
LEMMA RingRecords ==
  ASSUME RecordT
  PROVE  /\ Len(log) \in Nat /\ DOMAIN log = 1..Len(log)
         /\ \A i \in DOMAIN log : /\ log[i] \in LogT(nextID)
                                 /\ log[i].id \in Mails /\ log[i].id <= nextID
                                 /\ log[i].status \in Statuses
<1>1. Len(log) \in Nat /\ DOMAIN log = 1..Len(log) /\ \A i \in DOMAIN log : log[i] \in LogT(nextID)
  BY LenProperties, ElementOfSeq DEF RecordT
<1>2. \A rec \in LogT(nextID) : rec.id \in Mails /\ rec.id <= nextID /\ rec.status \in Statuses
  BY Sizes DEF RecordT, LogT, Mails
<1> QED
  BY <1>1, <1>2

-----------------------------------------------------------------------------
\* The ring and its marks

\* A new record takes the next number, which no mail has.
LEMMA Begun ==
  ASSUME RecordT, RecordInv, NEW status \in {"queued", "sending", "failed"}, Begin(status)
  PROVE  /\ RecordT' /\ RecordInv'
         /\ nextID + 1 \in Mails /\ fate[nextID + 1] = "none"
         /\ fate' = [fate EXCEPT ![nextID + 1] = status]
<1> DEFINE n == nextID + 1
           rec == [id |-> n, status |-> status]
           kept == IF Len(log) >= LogSize THEN Tail(log) ELSE log
<1>1. n \in Mails /\ fate[n] = "none" /\ fate' = [fate EXCEPT ![n] = status] /\ nextID' = n
  BY Sizes DEF Begin, RecordT, RecordInv, NumberInv, Mails
<1>2. results' = [results EXCEPT ![n] = IF status = "failed" THEN 1 ELSE 0]
  BY DEF Begin
<1>3. log' = Append(kept, rec)
  BY DEF Begin, AppendRecord
<1>4. /\ kept \in Seq(LogT(nextID)) /\ Len(kept) < LogSize
      /\ \A i \in DOMAIN kept : \E j \in DOMAIN log : kept[i] = log[j]
  <2>1. CASE Len(log) >= LogSize
    <3>1. log # <<>>
      BY <2>1, Sizes
    <3>2. /\ Tail(log) \in Seq(LogT(nextID)) /\ Len(Tail(log)) = Len(log) - 1
          /\ \A i \in 1..Len(Tail(log)) : Tail(log)[i] = log[i + 1]
      BY <3>1, HeadTailProperties DEF RecordT
    <3> QED
      BY <2>1, <3>2, Sizes, LenProperties DEF RecordT
  <2>2. CASE ~(Len(log) >= LogSize)
    BY <2>2, Sizes DEF RecordT
  <2> QED
    BY <2>1, <2>2
<1>5. kept \in Seq(LogT(n))
  <2>1. LogT(nextID) \subseteq LogT(n)
    BY DEF LogT, RecordT
  <2> HIDE DEF kept, n
  <2> QED
    BY <1>4, <2>1, SeqMonotonic
<1>6. rec \in LogT(n)
  BY <1>1 DEF LogT, Statuses, Mails
<1> HIDE DEF kept
<1>7. /\ log' \in Seq(LogT(n)) /\ Len(log') = Len(kept) + 1 /\ log'[Len(kept) + 1] = rec
      /\ \A i \in DOMAIN log' : i = Len(kept) + 1 \/ (i \in DOMAIN kept /\ log'[i] = kept[i])
  BY <1>3, <1>5, <1>6, AppendProperties, LenProperties
<1>8. RecordT'
  <2>1. log' \in Seq(LogT(nextID')) /\ Len(log') <= LogSize
    BY <1>1, <1>4, <1>7, Sizes, LenProperties
  <2>2. fate' \in [Mails -> Statuses \cup {"none"}] /\ results' \in [Mails -> 0..2]
    BY <1>1, <1>2 DEF RecordT, Statuses
  <2> QED
    BY <1>1, <2>1, <2>2 DEF RecordT, Mails
<1>9. NumberInv'
  BY <1>1 DEF RecordInv, NumberInv, RecordT, Mails
<1>10. \A i \in DOMAIN kept : /\ kept[i].id \in Mails /\ kept[i].id # n
                              /\ kept[i].status = fate[kept[i].id]
                              /\ results[kept[i].id] = IF kept[i].status \in Ends THEN 1 ELSE 0
  BY <1>1, <1>4, RingRecords DEF RecordInv, LogAgrees, RecordT, Mails
<1>11. \A i \in DOMAIN log' : /\ log'[i].status = fate'[log'[i].id]
                              /\ results'[log'[i].id] = IF log'[i].status \in Ends THEN 1 ELSE 0
  BY <1>1, <1>2, <1>7, <1>10 DEF RecordT, Ends
<1>12. LogAgrees'
  BY <1>1, <1>2, <1>11 DEF RecordInv, LogAgrees, RecordT, Ends
<1> QED
  BY <1>1, <1>8, <1>9, <1>12 DEF RecordInv

\* A mark moves a mail from one status to the next, and its record with it if there is one.
LEMMA Marked ==
  ASSUME RecordT, RecordInv, NEW m \in Mails, NEW from \in {"queued", "sending"},
         NEW to \in {"sending", "accepted", "failed"}, fate[m] = from, Mark(m, from, to)
  PROVE  /\ RecordT' /\ RecordInv'
         /\ fate' = [fate EXCEPT ![m] = to]
<1> DEFINE hit(rec) == rec.id = m /\ rec.status = from
<1>1. /\ log' = [i \in DOMAIN log |-> IF hit(log[i]) THEN [log[i] EXCEPT !.status = to] ELSE log[i]]
      /\ fate' = [fate EXCEPT ![m] = to] /\ nextID' = nextID
      /\ results' = IF to \in Ends /\ \E i \in DOMAIN log : hit(log[i])
                    THEN [results EXCEPT ![m] = @ + 1] ELSE results
  BY DEF Mark
<1>2. /\ Len(log) \in Nat /\ DOMAIN log = 1..Len(log)
      /\ \A i \in DOMAIN log : log[i] \in LogT(nextID) /\ log[i].id \in Mails
  BY RingRecords
<1>3. \A i \in DOMAIN log :
        /\ log'[i] \in LogT(nextID) /\ log'[i].id = log[i].id
        /\ log'[i].status = IF log[i].id = m THEN to ELSE log[i].status
  BY <1>1, <1>2 DEF LogT, Statuses, RecordInv, LogAgrees
<1>4. log' \in [1..Len(log) -> LogT(nextID)]
  BY <1>1, <1>2, <1>3
<1>5. log' \in Seq(LogT(nextID)) /\ Len(log') = Len(log) /\ DOMAIN log' = DOMAIN log
  BY <1>2, <1>4, ListOfItems
<1>6. results[m] = 0 /\ (\E i \in DOMAIN log : hit(log[i])) = (\E i \in DOMAIN log : log[i].id = m)
  BY <1>2 DEF RecordInv, LogAgrees, RecordT, Ends
<1>7. results' \in [Mails -> 0..2]
  BY <1>1, <1>6 DEF RecordT
<1>8. RecordT'
  BY <1>1, <1>5, <1>7 DEF RecordT, Statuses
<1>9. NumberInv'
  BY <1>1 DEF RecordInv, NumberInv, RecordT
<1>10. LogAgrees'
  <2>1. ASSUME NEW i \in DOMAIN log'
        PROVE  /\ log'[i].status = fate'[log'[i].id]
               /\ results'[log'[i].id] = IF log'[i].status \in Ends THEN 1 ELSE 0
    BY <1>1, <1>2, <1>3, <1>5, <1>6 DEF RecordInv, LogAgrees, RecordT, Ends
  <2>2. \A k \in Mails : results'[k] <= 1 /\ (results'[k] = 1 => fate'[k] \in Ends)
    BY <1>1, <1>6 DEF RecordInv, LogAgrees, RecordT, Ends
  <2> QED
    BY <2>1, <2>2 DEF LogAgrees
<1> QED
  BY <1>1, <1>8, <1>9, <1>10 DEF RecordInv

\* A step that leaves the records alone.
LEMMA RecordsKept ==
  ASSUME RecordT, RecordInv, UNCHANGED records
  PROVE  RecordT' /\ RecordInv' /\ fate' = fate
  BY DEF RecordT, RecordInv, NumberInv, LogAgrees, records

-----------------------------------------------------------------------------
\* The channel

LEMMA Pushed ==
  ASSUME JobT, NEW n \in Mails, Len(queue) < QueueSize, queue' = Append(queue, n)
  PROVE  /\ queue' \in Seq(Mails) /\ Len(queue') <= QueueSize
         /\ DOMAIN queue' = DOMAIN queue \cup {Len(queue) + 1}
         /\ Len(queue) + 1 \notin DOMAIN queue
         /\ queue'[Len(queue) + 1] = n
         /\ \A i \in DOMAIN queue : queue'[i] = queue[i]
  BY AppendProperties, LenProperties, Sizes DEF JobT

LEMMA Popped ==
  ASSUME JobT, queue # <<>>, queue' = Tail(queue)
  PROVE  /\ queue' \in Seq(Mails) /\ Len(queue') <= QueueSize
         /\ 1 \in DOMAIN queue /\ Head(queue) = queue[1] /\ Head(queue) \in Mails
         /\ \A i \in DOMAIN queue' : i \in Nat /\ i # 0 /\ i + 1 \in DOMAIN queue /\ queue'[i] = queue[i + 1]
         /\ \A j \in DOMAIN queue : j = 1 \/ \E i \in DOMAIN queue' : queue'[i] = queue[j]
<1>1. queue \in Seq(Mails) /\ Len(queue) \in Nat /\ DOMAIN queue = 1..Len(queue) /\ Len(queue) > 0
  BY LenProperties, EmptySeq DEF JobT
<1>2. /\ Head(queue) \in Mails /\ Head(queue) = queue[1]
      /\ Tail(queue) \in Seq(Mails) /\ Len(Tail(queue)) = Len(queue) - 1
      /\ \A i \in 1..Len(Tail(queue)) : Tail(queue)[i] = queue[i + 1]
  BY <1>1, HeadTailProperties
<1>3. DOMAIN queue' = 1..(Len(queue) - 1)
  BY <1>1, <1>2, LenProperties
<1>4. Len(queue') <= QueueSize
  BY <1>1, <1>2, Sizes DEF JobT
<1>5. ASSUME NEW j \in DOMAIN queue, j # 1 PROVE \E i \in DOMAIN queue' : queue'[i] = queue[j]
  <2>1. j - 1 \in DOMAIN queue' /\ queue'[j - 1] = queue[(j - 1) + 1] /\ (j - 1) + 1 = j
    BY <1>1, <1>2, <1>3, <1>5
  <2> QED
    BY <2>1
<1> QED
  BY <1>1, <1>2, <1>3, <1>4, <1>5

\* A worker's new state, and those of the others.
LEMMA WorkerSet ==
  ASSUME JobT, NEW g \in Gens, NEW w \in Workers, NEW state \in WorkerT, SetWorker(g, w, state)
  PROVE  /\ worker' \in [Gens -> [Workers -> WorkerT]]
         /\ worker'[g][w] = state
         /\ \A h \in Gens, v \in Workers : h # g \/ v # w => worker'[h][v] = worker[h][v]
  BY DEF JobT, SetWorker

-----------------------------------------------------------------------------
\* What the actions do to the mails: each action leaves the types and the invariant of the
\* mails as they were, and moves at most one mail, as MailJobs allows.

JobStep == JobT' /\ JobInv' /\ RecordT' /\ RecordInv' /\ [Jobs!Next]_fate

\* A new mail that nobody has in his hands.
LEMMA NewMail ==
  ASSUME RecordT, RecordInv, JobT, JobInv, NEW n \in Mails, fate[n] = "none"
  PROVE  /\ \A i \in DOMAIN queue : queue[i] \in Mails /\ queue[i] # n
         /\ \A g \in Gens, w \in Workers :
              worker[g][w].pc \in {"got", "sending"} => worker[g][w].id # n
         /\ \A s \in Senders : sender[s].pc = "testing" => sender[s].id # n
  BY LenProperties, ElementOfSeq DEF JobInv, QueueInv, HandsInv, TestInv, JobT

LEMMA RejectJob ==
  ASSUME RecordT, RecordInv, JobT, JobInv, NEW s \in Senders, NEW status \in {"failed"},
         Begin(status), UNCHANGED <<queue, worker>>,
         sender' = [sender EXCEPT ![s].pc = "idle"]
  PROVE  JobStep
<1> DEFINE n == nextID + 1
<1>1. /\ RecordT' /\ RecordInv' /\ n \in Mails /\ fate[n] = "none"
      /\ fate' = [fate EXCEPT ![n] = status]
  BY Begun
<1> HIDE DEF n
<1>2. /\ \A i \in DOMAIN queue : queue[i] \in Mails /\ queue[i] # n
      /\ \A g \in Gens, w \in Workers :
           worker[g][w].pc \in {"got", "sending"} => worker[g][w].id # n
      /\ \A t \in Senders : sender[t].pc = "testing" => sender[t].id # n
  BY <1>1, NewMail
<1>3. /\ sender' \in [Senders -> SenderT]
      /\ \A t \in Senders : sender'[t].pc = "testing" => sender'[t] = sender[t]
  BY DEF JobT, SenderT
<1>4. JobT'
  BY <1>3 DEF JobT
<1>5. QueueInv' /\ HandsInv' /\ ApartInv'
  BY <1>1, <1>2 DEF JobInv, QueueInv, HandsInv, ApartInv, RecordT
<1>6. TestInv'
  BY <1>1, <1>2, <1>3 DEF JobInv, TestInv, RecordT
<1>7. HeldInv'
  BY <1>1 DEF JobInv, HeldInv, RecordT
<1>8. Jobs!Refuse(n)
  BY <1>1 DEF Jobs!Refuse, Jobs!Move
<1> QED
  BY <1>1, <1>4, <1>5, <1>6, <1>7, <1>8 DEF JobStep, JobInv, Jobs!Next

LEMMA SenderJob ==
  ASSUME RecordT, RecordInv, JobT, JobInv, NEW s \in Senders, NEW pc \in {"idle", "checked"},
         sender[s].pc \in {"idle", "checked"}, sender' = [sender EXCEPT ![s].pc = pc],
         UNCHANGED <<queue, worker, records>>
  PROVE  JobStep
<1>1. RecordT' /\ RecordInv' /\ fate' = fate
  BY RecordsKept
<1>2. /\ sender' \in [Senders -> SenderT]
      /\ \A t \in Senders : sender'[t].pc = "testing" => sender'[t] = sender[t]
  BY DEF JobT, SenderT
<1>3. JobT'
  BY <1>2 DEF JobT
<1>4. JobInv'
  BY <1>1, <1>2 DEF JobInv, QueueInv, HandsInv, ApartInv, TestInv, HeldInv
<1> QED
  BY <1>1, <1>3, <1>4 DEF JobStep

LEMMA EnqueueJob ==
  ASSUME RecordT, RecordInv, JobT, JobInv, NEW s \in Senders, Enqueue(s)
  PROVE  JobStep
<1>1. sender' = [sender EXCEPT ![s].pc = "idle"] /\ worker' = worker
  BY DEF Enqueue
<1>2. CASE Begin("failed") /\ UNCHANGED queue
  BY <1>1, <1>2, RejectJob
<1>3. CASE Len(queue) < QueueSize /\ Begin("queued") /\ queue' = Append(queue, nextID + 1)
  <2> DEFINE n == nextID + 1
  <2>1. /\ RecordT' /\ RecordInv' /\ n \in Mails /\ fate[n] = "none"
        /\ fate' = [fate EXCEPT ![n] = "queued"]
    BY <1>3, Begun
  <2>2. queue' = Append(queue, n)
    BY <1>3
  <2> HIDE DEF n
  <2>3. /\ \A i \in DOMAIN queue : queue[i] \in Mails /\ queue[i] # n
        /\ \A g \in Gens, w \in Workers :
             worker[g][w].pc \in {"got", "sending"} => worker[g][w].id # n
        /\ \A t \in Senders : sender[t].pc = "testing" => sender[t].id # n
    BY <2>1, NewMail
  <2>4. /\ queue' \in Seq(Mails) /\ Len(queue') <= QueueSize
        /\ DOMAIN queue' = DOMAIN queue \cup {Len(queue) + 1}
        /\ Len(queue) + 1 \notin DOMAIN queue
        /\ queue'[Len(queue) + 1] = n
        /\ \A i \in DOMAIN queue : queue'[i] = queue[i]
    BY <1>3, <2>1, <2>2, Pushed
  <2>5. /\ sender' \in [Senders -> SenderT]
        /\ \A t \in Senders : sender'[t].pc = "testing" => sender'[t] = sender[t]
    BY <1>1 DEF JobT, SenderT
  <2>6. JobT'
    BY <1>1, <2>4, <2>5 DEF JobT
  <2>7. QueueInv'
    BY <2>1, <2>3, <2>4 DEF JobInv, QueueInv, RecordT
  <2>8. HandsInv' /\ ApartInv'
    BY <1>1, <2>1, <2>3, <2>4 DEF JobInv, HandsInv, ApartInv, RecordT
  <2>9. TestInv'
    BY <1>1, <2>1, <2>3, <2>5 DEF JobInv, TestInv, RecordT
  <2>10. HeldInv'
    BY <1>1, <2>1, <2>4 DEF JobInv, HeldInv, RecordT
  <2>11. Jobs!Submit(n)
    BY <2>1 DEF Jobs!Submit, Jobs!Move
  <2> QED
    BY <2>1, <2>6, <2>7, <2>8, <2>9, <2>10, <2>11 DEF JobStep, JobInv, Jobs!Next
<1> QED
  BY <1>2, <1>3 DEF Enqueue

LEMMA TestBeginJob ==
  ASSUME RecordT, RecordInv, JobT, JobInv, NEW s \in Senders, TestBegin(s)
  PROVE  JobStep
<1> DEFINE n == nextID + 1
<1>1. /\ RecordT' /\ RecordInv' /\ n \in Mails /\ fate[n] = "none"
      /\ fate' = [fate EXCEPT ![n] = "sending"]
  BY Begun DEF TestBegin
<1>2. /\ sender' = [sender EXCEPT ![s] = [pc |-> "testing", id |-> n]]
      /\ queue' = queue /\ worker' = worker
  BY DEF TestBegin
<1> HIDE DEF n
<1>3. /\ \A i \in DOMAIN queue : queue[i] \in Mails /\ queue[i] # n
      /\ \A g \in Gens, w \in Workers :
           worker[g][w].pc \in {"got", "sending"} => worker[g][w].id # n
      /\ \A t \in Senders : sender[t].pc = "testing" => sender[t].id # n
  BY <1>1, NewMail
<1>4. JobT'
  BY <1>1, <1>2, Sizes DEF JobT, SenderT, Mails
<1>5. QueueInv' /\ HandsInv' /\ ApartInv'
  BY <1>1, <1>2, <1>3 DEF JobInv, QueueInv, HandsInv, ApartInv, RecordT
<1>6. TestInv'
  BY <1>1, <1>2, <1>3 DEF JobInv, TestInv, RecordT, JobT
<1>7. HeldInv'
  BY <1>1, <1>2 DEF JobInv, HeldInv, RecordT
<1>8. Jobs!Start(n)
  BY <1>1 DEF Jobs!Start, Jobs!Move
<1> QED
  BY <1>1, <1>4, <1>5, <1>6, <1>7, <1>8 DEF JobStep, JobInv, Jobs!Next

LEMMA TestEndJob ==
  ASSUME RecordT, RecordInv, JobT, JobInv, NEW s \in Senders, TestEnd(s)
  PROVE  JobStep
<1> DEFINE m == sender[s].id
<1>1. PICK end \in Ends : Mark(m, "sending", end)
  BY DEF TestEnd
<1>2. /\ sender' = [sender EXCEPT ![s] = [pc |-> "idle", id |-> 0]]
      /\ queue' = queue /\ worker' = worker
  BY DEF TestEnd
<1>3. /\ sender[s].pc = "testing" /\ m \in Mails /\ fate[m] = "sending"
      /\ \A g \in Gens, w \in Workers : worker[g][w].pc = "sending" => worker[g][w].id # m
      /\ \A t \in Senders : sender[t].pc = "testing" /\ sender[t].id = m => t = s
  BY DEF TestEnd, JobInv, TestInv
<1> HIDE DEF m
<1>4. RecordT' /\ RecordInv' /\ fate' = [fate EXCEPT ![m] = end]
  BY <1>1, <1>3, Marked DEF Ends
<1>5. JobT'
  BY <1>2, Sizes DEF JobT, SenderT
<1>6. QueueInv' /\ HandsInv' /\ ApartInv'
  BY <1>2, <1>3, <1>4 DEF JobInv, QueueInv, HandsInv, ApartInv, RecordT
<1>7. TestInv'
  BY <1>2, <1>3, <1>4 DEF JobInv, TestInv, RecordT, JobT
<1>8. HeldInv'
  BY <1>2, <1>3, <1>4 DEF JobInv, HeldInv, RecordT, Ends
<1>9. Jobs!Finish(m)
  BY <1>3, <1>4 DEF Jobs!Finish, Jobs!Move, Jobs!Ends, Ends
<1> QED
  BY <1>3, <1>4, <1>5, <1>6, <1>7, <1>8, <1>9 DEF JobStep, JobInv, Jobs!Next
LEMMA TakeJob ==
  ASSUME RecordT, RecordInv, JobT, JobInv, NEW g \in Gens, NEW w \in Workers, Take(g, w)
  PROVE  JobStep
<1> DEFINE m == Head(queue)
           state == [pc |-> "got", id |-> m]
<1>1. /\ worker[g][w].pc = "waiting" /\ SetWorker(g, w, state) /\ sender' = sender
      /\ queue # <<>> /\ queue' = Tail(queue) /\ UNCHANGED records
  BY DEF Take
<1>2. RecordT' /\ RecordInv' /\ fate' = fate
  BY <1>1, RecordsKept
<1>3. /\ queue' \in Seq(Mails) /\ Len(queue') <= QueueSize
      /\ 1 \in DOMAIN queue /\ m = queue[1] /\ m \in Mails
      /\ \A i \in DOMAIN queue' : i \in Nat /\ i # 0 /\ i + 1 \in DOMAIN queue /\ queue'[i] = queue[i + 1]
      /\ \A j \in DOMAIN queue : j = 1 \/ \E i \in DOMAIN queue' : queue'[i] = queue[j]
  BY <1>1, Popped
<1>4. state \in WorkerT
  BY <1>3, Sizes DEF WorkerT, Mails
<1>5. /\ worker' \in [Gens -> [Workers -> WorkerT]] /\ worker'[g][w] = state
      /\ \A h \in Gens, v \in Workers : h # g \/ v # w => worker'[h][v] = worker[h][v]
  BY <1>1, <1>4, WorkerSet
<1>6. state.pc = "got" /\ state.id = m
  OBVIOUS
<1> HIDE DEF m, state
<1>7. fate[m] = "queued" /\ \A i \in DOMAIN queue' : queue'[i] # m
  BY <1>3 DEF JobInv, QueueInv
<1>8. JobT'
  BY <1>1, <1>3, <1>5 DEF JobT
<1>9. QueueInv'
  <2>1. ASSUME NEW i \in DOMAIN queue', NEW j \in DOMAIN queue', queue'[i] = queue'[j] PROVE i = j
    <3>1. i + 1 = j + 1
      BY <1>3, <2>1 DEF JobInv, QueueInv
    <3> QED
      BY <1>3, <3>1
  <2> QED
    BY <1>2, <1>3, <2>1 DEF JobInv, QueueInv
<1>10. HandsInv'
  BY <1>2, <1>3, <1>5, <1>6, <1>7 DEF JobInv, HandsInv
<1>11. ApartInv'
  BY <1>3, <1>5, <1>6, <1>7 DEF JobInv, ApartInv, HandsInv
<1>12. TestInv'
  BY <1>1, <1>2, <1>5, <1>6 DEF JobInv, TestInv
<1>13. HeldInv'
  <2>1. ASSUME NEW k \in Mails, fate'[k] = "queued"
        PROVE  \/ \E i \in DOMAIN queue' : queue'[i] = k
               \/ \E h \in Gens, v \in Workers : worker'[h][v].pc = "got" /\ worker'[h][v].id = k
    <3>1. CASE \E j \in DOMAIN queue : queue[j] = k
      BY <1>3, <1>5, <1>6, <3>1
    <3>2. CASE \E h \in Gens, v \in Workers : worker[h][v].pc = "got" /\ worker[h][v].id = k
      <4>1. PICK h \in Gens, v \in Workers : worker[h][v].pc = "got" /\ worker[h][v].id = k
        BY <3>2
      <4>2. worker'[h][v] = worker[h][v]
        BY <1>1, <1>5, <4>1
      <4> QED
        BY <4>1, <4>2
    <3> QED
      BY <1>2, <2>1, <3>1, <3>2 DEF JobInv, HeldInv
  <2> QED
    BY <2>1 DEF HeldInv
<1> QED
  BY <1>2, <1>8, <1>9, <1>10, <1>11, <1>12, <1>13 DEF JobStep, JobInv

\* A worker with empty hands moves on.
LEMMA WorkerJob ==
  ASSUME RecordT, RecordInv, JobT, JobInv, NEW g \in Gens, NEW w \in Workers,
         NEW pc \in {"draining", "exited"}, worker[g][w].pc \in {"waiting", "draining"},
         SetWorker(g, w, [pc |-> pc, id |-> 0]), UNCHANGED <<queue, sender, records>>
  PROVE  JobStep
<1> DEFINE state == [pc |-> pc, id |-> 0]
<1>1. RecordT' /\ RecordInv' /\ fate' = fate
  BY RecordsKept
<1>2. state \in WorkerT /\ state.pc \notin {"got", "sending"}
  BY Sizes DEF WorkerT
<1>3. /\ worker' \in [Gens -> [Workers -> WorkerT]] /\ worker'[g][w] = state
      /\ \A h \in Gens, v \in Workers : h # g \/ v # w => worker'[h][v] = worker[h][v]
  BY <1>2, WorkerSet
<1> HIDE DEF state
<1>4. JobT'
  BY <1>3 DEF JobT
<1>5. QueueInv' /\ HandsInv' /\ ApartInv'
  BY <1>1, <1>2, <1>3 DEF JobInv, QueueInv, HandsInv, ApartInv
<1>6. TestInv' /\ HeldInv'
  BY <1>1, <1>2, <1>3 DEF JobInv, TestInv, HeldInv
<1> QED
  BY <1>1, <1>4, <1>5, <1>6 DEF JobStep, JobInv

\* A worker moves the mail in its hands on, and keeps it only to send it.
LEMMA HandJob ==
  ASSUME RecordT, RecordInv, JobT, JobInv, NEW g \in Gens, NEW w \in Workers,
         NEW from \in {"queued", "sending"}, NEW to \in {"sending", "accepted", "failed"},
         NEW state \in WorkerT,
         worker[g][w].pc = IF from = "queued" THEN "got" ELSE "sending",
         from = "sending" => to # "sending", from = "queued" => to # "accepted",
         to = "sending" => state.pc = "sending" /\ state.id = worker[g][w].id,
         to # "sending" => state.pc \notin {"got", "sending"},
         Mark(worker[g][w].id, from, to), SetWorker(g, w, state), UNCHANGED <<queue, sender>>
  PROVE  JobStep
<1> DEFINE m == worker[g][w].id
<1>1. /\ m \in Mails /\ fate[m] = from
      /\ \A i \in DOMAIN queue : queue[i] # m
  BY DEF JobInv, HandsInv, QueueInv
<1>2. /\ \A s \in Senders : sender[s].pc = "testing" => sender[s].id # m
      /\ \A h \in Gens, v \in Workers : worker[h][v].pc \in {"got", "sending"} /\ worker[h][v].id = m
           => h = g /\ v = w
  <2>1. \A s \in Senders : sender[s].pc = "testing" => sender[s].id # m
    BY <1>1 DEF JobInv, TestInv
  <2>2. ASSUME NEW h \in Gens, NEW v \in Workers, worker[h][v].pc \in {"got", "sending"},
               worker[h][v].id = m
        PROVE  h = g /\ v = w
    <3>1. worker[h][v].pc = worker[g][w].pc
      BY <1>1, <2>2 DEF JobInv, HandsInv
    <3> QED
      BY <2>2, <3>1 DEF JobInv, ApartInv
  <2> QED
    BY <2>1, <2>2
<1>3. RecordT' /\ RecordInv' /\ fate' = [fate EXCEPT ![m] = to]
  BY <1>1, Marked
<1>4. /\ worker' \in [Gens -> [Workers -> WorkerT]] /\ worker'[g][w] = state
      /\ \A h \in Gens, v \in Workers : h # g \/ v # w => worker'[h][v] = worker[h][v]
  BY WorkerSet
<1>5. to = "sending" => state.id = m
  OBVIOUS
<1> HIDE DEF m
<1>6. JobT'
  BY <1>4 DEF JobT
<1>7. QueueInv'
  BY <1>1, <1>3 DEF JobInv, QueueInv, RecordT
<1>8. HandsInv'
  BY <1>1, <1>2, <1>3, <1>4, <1>5 DEF JobInv, HandsInv, RecordT
<1>9. ApartInv'
  BY <1>2, <1>4, <1>5 DEF JobInv, ApartInv
<1>10. TestInv'
  <2>1. ASSUME NEW s \in Senders, sender[s].pc = "testing"
        PROVE  /\ sender[s].id \in Mails /\ fate'[sender[s].id] = "sending"
               /\ \A h \in Gens, v \in Workers : worker'[h][v].pc = "sending" => worker'[h][v].id # sender[s].id
               /\ \A t \in Senders : sender[t].pc = "testing" /\ sender[t].id = sender[s].id => t = s
    <3>1. sender[s].id # m
      BY <1>2, <2>1
    <3>2. fate'[sender[s].id] = "sending" /\ sender[s].id \in Mails
      BY <1>3, <2>1, <3>1 DEF JobInv, TestInv, RecordT
    <3>3. \A h \in Gens, v \in Workers : worker'[h][v].pc = "sending" => worker'[h][v].id # sender[s].id
      BY <1>4, <1>5, <2>1, <3>1 DEF JobInv, TestInv
    <3> QED
      BY <2>1, <3>2, <3>3 DEF JobInv, TestInv
  <2> QED
    BY <2>1 DEF TestInv
<1>11. HeldInv'
  <2>1. ASSUME NEW k \in Mails, fate'[k] = "queued"
        PROVE  \/ \E i \in DOMAIN queue : queue[i] = k
               \/ \E h \in Gens, v \in Workers : worker'[h][v].pc = "got" /\ worker'[h][v].id = k
    <3>1. k # m /\ fate[k] = "queued"
      BY <1>1, <1>3, <2>1 DEF RecordT
    <3>2. CASE \E i \in DOMAIN queue : queue[i] = k
      BY <3>2
    <3>3. CASE \E h \in Gens, v \in Workers : worker[h][v].pc = "got" /\ worker[h][v].id = k
      <4>1. PICK h \in Gens, v \in Workers : worker[h][v].pc = "got" /\ worker[h][v].id = k
        BY <3>3
      <4>2. h # g \/ v # w
        BY <3>1, <4>1 DEF m
      <4> QED
        BY <1>4, <4>1, <4>2
    <3> QED
      BY <3>1, <3>2, <3>3 DEF JobInv, HeldInv
  <2> QED
    BY <2>1 DEF HeldInv
<1>12. Jobs!Start(m) \/ Jobs!Cancel(m) \/ Jobs!Finish(m)
  BY <1>1, <1>3 DEF Jobs!Start, Jobs!Cancel, Jobs!Finish, Jobs!Move, Jobs!Ends
<1> QED
  BY <1>1, <1>3, <1>6, <1>7, <1>8, <1>9, <1>10, <1>11, <1>12 DEF JobStep, JobInv, Jobs!Next

LEMMA DrainOneJob ==
  ASSUME RecordT, RecordInv, JobT, JobInv, NEW g \in Gens, NEW w \in Workers, DrainOne(g, w)
  PROVE  JobStep
<1> DEFINE m == Head(queue)
<1>1. /\ queue # <<>> /\ queue' = Tail(queue) /\ Mark(m, "queued", "failed")
      /\ worker' = worker /\ sender' = sender
  BY DEF DrainOne
<1>2. /\ queue' \in Seq(Mails) /\ Len(queue') <= QueueSize
      /\ 1 \in DOMAIN queue /\ m = queue[1] /\ m \in Mails
      /\ \A i \in DOMAIN queue' : i \in Nat /\ i # 0 /\ i + 1 \in DOMAIN queue /\ queue'[i] = queue[i + 1]
      /\ \A j \in DOMAIN queue : j = 1 \/ \E i \in DOMAIN queue' : queue'[i] = queue[j]
  BY <1>1, Popped
<1> HIDE DEF m
<1>3. fate[m] = "queued" /\ \A i \in DOMAIN queue' : queue'[i] # m
  BY <1>2 DEF JobInv, QueueInv
<1>4. RecordT' /\ RecordInv' /\ fate' = [fate EXCEPT ![m] = "failed"]
  BY <1>1, <1>2, <1>3, Marked
<1>5. JobT'
  BY <1>1, <1>2 DEF JobT
<1>6. QueueInv'
  <2>1. ASSUME NEW i \in DOMAIN queue', NEW j \in DOMAIN queue', queue'[i] = queue'[j] PROVE i = j
    <3>1. i + 1 = j + 1
      BY <1>2, <2>1 DEF JobInv, QueueInv
    <3> QED
      BY <1>2, <3>1
  <2>2. \A i \in DOMAIN queue' : fate'[queue'[i]] = "queued"
    BY <1>2, <1>3, <1>4 DEF JobInv, QueueInv, RecordT
  <2> QED
    BY <2>1, <2>2 DEF QueueInv
<1>7. HandsInv'
  BY <1>1, <1>2, <1>3, <1>4 DEF JobInv, HandsInv, RecordT
<1>8. ApartInv' /\ TestInv'
  BY <1>1, <1>3, <1>4 DEF JobInv, ApartInv, TestInv, RecordT
<1>9. HeldInv'
  <2>1. ASSUME NEW k \in Mails, fate'[k] = "queued"
        PROVE  \/ \E i \in DOMAIN queue' : queue'[i] = k
               \/ \E h \in Gens, v \in Workers : worker[h][v].pc = "got" /\ worker[h][v].id = k
    <3>1. k # m /\ fate[k] = "queued"
      BY <1>2, <1>4, <2>1 DEF RecordT
    <3> QED
      BY <1>2, <3>1 DEF JobInv, HeldInv
  <2> QED
    BY <1>1, <2>1 DEF HeldInv
<1>10. Jobs!Cancel(m)
  BY <1>3, <1>4 DEF Jobs!Cancel, Jobs!Move
<1> QED
  BY <1>2, <1>4, <1>5, <1>6, <1>7, <1>8, <1>9, <1>10 DEF JobStep, JobInv, Jobs!Next

\* A new generation begins with empty hands where nobody worked before.
LEMMA GenerationJob ==
  ASSUME RecordT, RecordInv, JobT, JobInv, started + 1 \in Gens,
         \A w \in Workers : worker[started + 1][w].pc = "exited",
         worker' = [worker EXCEPT ![started + 1] = [w \in Workers |-> Waiting]],
         UNCHANGED <<queue, sender, nextID, fate, results>>, log' = log \/ log' = <<>>
  PROVE  JobStep
<1> DEFINE n == started + 1
<1>1. RecordT' /\ RecordInv'
  <2>1. CASE log' = log
    BY <2>1, RecordsKept DEF records
  <2>2. CASE log' = <<>>
    BY <2>2, EmptySeq, Sizes DEF RecordT, RecordInv, NumberInv, LogAgrees
  <2> QED
    BY <2>1, <2>2
<1>2. n \in Gens /\ \A w \in Workers : worker[n][w].pc = "exited"
  OBVIOUS
<1>3. worker' = [worker EXCEPT ![n] = [w \in Workers |-> Waiting]]
  OBVIOUS
<1> HIDE DEF n
<1>4. /\ \A w \in Workers : worker'[n][w].pc = "waiting"
      /\ \A h \in Gens, v \in Workers : h # n => worker'[h][v] = worker[h][v]
      /\ worker' \in [Gens -> [Workers -> WorkerT]]
  BY <1>2, <1>3, Sizes DEF JobT, WorkerT, Waiting
<1>5. JobT'
  BY <1>4 DEF JobT
<1>6. QueueInv' /\ HandsInv' /\ ApartInv'
  BY <1>2, <1>4 DEF JobInv, QueueInv, HandsInv, ApartInv
<1>7. TestInv' /\ HeldInv'
  BY <1>2, <1>4 DEF JobInv, TestInv, HeldInv
<1> QED
  BY <1>1, <1>5, <1>6, <1>7 DEF JobStep, JobInv
-----------------------------------------------------------------------------
\* What the actions do to the lifecycle.

LifeStep == LifeT' /\ LifeInv'

\* While lifecycleMu is free, only the running generation works, uncancelled; without one
\* nobody works and nothing waits.
LEMMA Unlocked ==
  ASSUME LifeT, JobT, WorkersInv, LockInv, lock = "free"
  PROVE  /\ \A c \in Clearers : clearer[c].pc # "pausing"
         /\ generation \notin canceled /\ stopping # "waiting"
         /\ \A g \in Gens, w \in Workers : worker[g][w].pc # "exited" => g = generation
         /\ generation = 0 => queue = <<>> /\ \A g \in Gens : ~Alive(g)
<1>1. lock \notin Clearers /\ lock # "stop"
  BY Sizes
<1>2. /\ \A c \in Clearers : clearer[c].pc # "pausing"
      /\ generation \notin canceled /\ stopping # "waiting"
  BY <1>1 DEF LockInv
<1>3. \A g \in Gens, w \in Workers : worker[g][w].pc # "exited" => g = generation
  BY <1>1 DEF WorkersInv
<1>4. generation = 0 => \A g \in Gens : ~Alive(g)
  BY <1>3 DEF Alive, Gens
<1> QED
  BY <1>2, <1>3, <1>4 DEF WorkersInv

\* A step that leaves workers and lifecycle alone and puts nothing into an empty channel.
LEMMA LifeKept ==
  ASSUME LifeT, LifeInv, UNCHANGED <<worker, lifecycle>>, queue' # <<>> => queue # <<>>
  PROVE  LifeStep
<1>1. LifeT'
  BY DEF LifeT, lifecycle
<1>2. WorkersInv' /\ OneGeneration'
  BY DEF LifeInv, WorkersInv, OneGeneration, Alive, lifecycle
<1>3. LockInv' /\ PausedInv'
  BY DEF LifeInv, LockInv, PausedInv, Alive, lifecycle
<1> QED
  BY <1>1, <1>2, <1>3 DEF LifeStep, LifeInv

LEMMA EnqueueLife ==
  ASSUME LifeT, JobT, LifeInv, NEW s \in Senders, Enqueue(s)
  PROVE  LifeStep
<1>1. UNCHANGED <<worker, lifecycle>>
  BY DEF Enqueue
<1>2. CASE queue' # <<>> => queue # <<>>
  BY <1>1, <1>2, LifeKept
<1>3. CASE queue' # <<>> /\ queue = <<>>
  <2>1. ~stopped /\ ~paused /\ generation # 0
    BY <1>3 DEF Enqueue, Unavailable
  <2>2. generation \notin canceled
    BY <2>1 DEF LifeInv, LockInv
  <2>3. generation \in Gens
    BY <2>1, Sizes DEF LifeT, Gens
  <2>4. Alive(generation)
    BY <2>2, <2>3, Sizes DEF LifeInv, WorkersInv, Alive
  <2>5. LifeT' /\ LockInv' /\ PausedInv' /\ OneGeneration'
    BY <1>1 DEF LifeT, LifeInv, LockInv, PausedInv, OneGeneration, Alive, lifecycle
  <2>6. WorkersInv'
    BY <1>1, <2>3, <2>4 DEF LifeInv, WorkersInv, Alive, lifecycle
  <2> QED
    BY <2>5, <2>6 DEF LifeStep, LifeInv
<1> QED
  BY <1>2, <1>3

\* A worker that works goes on, drains when its generation is cancelled, and leaves an
\* empty channel behind.
LEMMA WorkerLife ==
  ASSUME LifeT, JobT, LifeInv, NEW g \in Gens, NEW w \in Workers, NEW state \in WorkerT,
         worker[g][w].pc # "exited", SetWorker(g, w, state), UNCHANGED lifecycle,
         queue' # <<>> => queue # <<>>,
         state.pc = "exited" => queue' = <<>>,
         state.pc \in {"draining", "exited"} => g \in canceled \/ worker[g][w].pc = "draining"
  PROVE  LifeStep
<1>1. /\ worker'[g][w] = state
      /\ \A h \in Gens, v \in Workers : h # g \/ v # w => worker'[h][v] = worker[h][v]
  BY WorkerSet
<1>2. \A h \in Gens : Alive(h)' => Alive(h)
  BY <1>1 DEF Alive
<1>3. LifeT' /\ LockInv'
  BY DEF LifeT, LifeInv, LockInv, lifecycle
<1>4. PausedInv' /\ OneGeneration'
  BY <1>2 DEF LifeInv, PausedInv, OneGeneration, lifecycle, Gens
<1>5. WorkersInv'
  <2>1. \A h \in Gens, v \in Workers : worker'[h][v].pc # "exited" =>
          h <= started /\ (h = generation \/ (lock = "stop" /\ h \in canceled))
    BY <1>1 DEF LifeInv, WorkersInv
  <2>2. generation \notin canceled =>
          \A h \in Gens, v \in Workers : h = generation => worker'[h][v].pc \notin {"draining", "exited"}
    BY <1>1 DEF LifeInv, WorkersInv
  <2>3. queue' # <<>> => \E h \in Gens : Alive(h)'
    <3>1. ASSUME queue' # <<>> PROVE \E h \in Gens : Alive(h)'
      BY <1>1, <3>1 DEF Alive
    <3> QED
      BY <3>1
  <2> QED
    BY <2>1, <2>2, <2>3 DEF WorkersInv, lifecycle
<1> QED
  BY <1>3, <1>4, <1>5 DEF LifeStep, LifeInv

\* The lifecycle's own steps: no worker moves, and the channel stays as it is.
LEMMA PauseBeginLife ==
  ASSUME LifeT, JobT, LifeInv, NEW c \in Clearers, PauseBegin(c)
  PROVE  LifeStep
<1>1. lock = "free" /\ worker' = worker /\ queue' = queue
  BY DEF PauseBegin
<1>2. /\ \A d \in Clearers : clearer[d].pc # "pausing"
      /\ generation \notin canceled /\ stopping # "waiting"
      /\ \A g \in Gens, w \in Workers : worker[g][w].pc # "exited" => g = generation
  BY <1>1, Unlocked DEF LifeInv
<1>3. /\ generation' = generation /\ started' = started /\ stopped' = stopped
      /\ stopping' = stopping /\ configured' = configured /\ disturbed' = disturbed
  BY DEF PauseBegin
<1>4. \A g \in Gens : Alive(g)' = Alive(g)
  BY <1>1 DEF Alive
<1>5. CASE stopped
  <2>1. /\ clearer' = [clearer EXCEPT ![c].pc = "resume"]
        /\ UNCHANGED <<lock, paused, canceled>>
    BY <1>5 DEF PauseBegin
  <2>2. LifeT'
    BY <1>3, <2>1 DEF LifeT, ClearerT
  <2>3. WorkersInv' /\ OneGeneration'
    BY <1>1, <1>3, <1>4, <2>1 DEF LifeInv, WorkersInv, OneGeneration, Gens
  <2>4. LockInv'
    BY <1>1, <1>2, <1>3, <2>1, Sizes DEF LifeInv, LockInv, LifeT
  <2>5. PausedInv'
    BY <1>3, <1>4, <2>1 DEF LifeInv, PausedInv, LifeT
  <2> QED
    BY <2>2, <2>3, <2>4, <2>5 DEF LifeStep, LifeInv
<1>6. CASE ~stopped
  <2>1. /\ lock' = c /\ paused' = TRUE
        /\ canceled' = canceled \cup ({generation} \ {0})
        /\ clearer' = [clearer EXCEPT ![c] = [pc |-> "pausing", gen |-> generation]]
    BY <1>6 DEF PauseBegin
  <2>2. LifeT'
    BY <1>3, <2>1, Sizes DEF LifeT, ClearerT, Gens
  <2>3. WorkersInv' /\ OneGeneration'
    BY <1>1, <1>2, <1>3, <1>4, <2>1 DEF LifeInv, WorkersInv, OneGeneration, Gens
  <2>4. LockInv'
    BY <1>1, <1>2, <1>3, <1>6, <2>1, Sizes DEF LockInv, LifeT, LifeInv
  <2>5. PausedInv'
    BY <1>3, <1>4, <2>1 DEF LifeInv, PausedInv, LifeT
  <2> QED
    BY <2>2, <2>3, <2>4, <2>5 DEF LifeStep, LifeInv
<1> QED
  BY <1>5, <1>6

LEMMA PauseEndLife ==
  ASSUME LifeT, JobT, LifeInv, NEW c \in Clearers, PauseEnd(c)
  PROVE  LifeStep
<1>1. /\ clearer[c].pc = "pausing" /\ AllGone(clearer[c].gen)
      /\ lock' = "free" /\ disturbed' = disturbed \ {c}
      /\ UNCHANGED <<queue, worker, started, canceled, paused, stopped, stopping, configured>>
  BY DEF PauseEnd
<1>2. PICK next \in {"paused", "resume"} : clearer' = [clearer EXCEPT ![c] = [pc |-> next, gen |-> 0]]
  BY DEF PauseEnd
<1>3. lock = c /\ clearer[c].gen = generation /\ lock # "stop"
  BY <1>1, Sizes DEF LifeInv, LockInv
<1>4. generation' = 0 /\ 0 \notin canceled
  BY <1>3 DEF PauseEnd, LifeT
<1>5. \A g \in Gens : ~Alive(g)
  BY <1>1, <1>3 DEF LifeInv, WorkersInv, Alive, AllGone, Gens
<1>6. queue = <<>>
  BY <1>5 DEF LifeInv, WorkersInv
<1>7. \A g \in Gens : ~Alive(g)'
  BY <1>1, <1>5 DEF Alive
<1>8. LifeT'
  BY <1>1, <1>2, <1>4, Sizes DEF LifeT, ClearerT, Gens
<1>9. WorkersInv' /\ OneGeneration' /\ PausedInv'
  <2>1. \A g \in Gens, w \in Workers : worker'[g][w].pc = "exited"
    BY <1>7 DEF Alive
  <2> QED
    BY <1>1, <1>4, <1>6, <1>7, <2>1 DEF WorkersInv, OneGeneration, PausedInv, Gens
<1>10. LockInv'
  BY <1>1, <1>2, <1>3, <1>4, Sizes DEF LifeInv, LockInv, LifeT
<1> QED
  BY <1>8, <1>9, <1>10 DEF LifeStep, LifeInv

LEMMA ClearTablesLife ==
  ASSUME LifeT, JobT, LifeInv, NEW c \in Clearers, ClearTables(c) \/ ClearTablesFails(c)
  PROVE  LifeStep
<1>1. /\ UNCHANGED <<queue, worker, generation, started, canceled, paused, stopped, lock, stopping, disturbed>>
      /\ configured' \in BOOLEAN /\ clearer[c].pc = "paused"
  BY DEF ClearTables, ClearTablesFails, LifeT
<1>2. PICK pc \in {"cleared", "resume"} : clearer' = [clearer EXCEPT ![c].pc = pc]
  BY DEF ClearTables, ClearTablesFails
<1>3. LifeT'
  BY <1>1, <1>2 DEF LifeT, ClearerT
<1>4. WorkersInv' /\ OneGeneration'
  BY <1>1 DEF LifeInv, WorkersInv, OneGeneration, Alive
<1>5. LockInv' /\ PausedInv'
  BY <1>1, <1>2 DEF LifeInv, LockInv, PausedInv, Alive, LifeT
<1> QED
  BY <1>3, <1>4, <1>5 DEF LifeStep, LifeInv

\* A request that resumes or leaves is idle again; who starts workers disturbs the others.
LEMMA ResumeLife ==
  ASSUME LifeT, JobT, LifeInv, NEW c \in Clearers, Resume(c) \/ ResumeAfterClear(c)
  PROVE  LifeStep
<1>1. /\ lock = "free" /\ clearer' = [clearer EXCEPT ![c].pc = "idle"]
      /\ UNCHANGED <<queue, canceled, stopped, lock, stopping, configured>>
  BY DEF Resume, ResumeAfterClear
<1>2. /\ \A d \in Clearers : clearer[d].pc # "pausing"
      /\ generation \notin canceled /\ stopping # "waiting"
      /\ \A g \in Gens, w \in Workers : worker[g][w].pc # "exited" => g = generation
      /\ generation = 0 => queue = <<>> /\ \A g \in Gens : ~Alive(g)
  BY <1>1, Unlocked DEF LifeInv
<1>3. CASE /\ UNCHANGED <<generation, started, worker, disturbed>> /\ paused' \in {paused, FALSE}
  <2>1. LifeT'
    BY <1>1, <1>3 DEF LifeT, ClearerT
  <2>2. WorkersInv' /\ OneGeneration'
    BY <1>1, <1>3 DEF LifeInv, WorkersInv, OneGeneration, Alive
  <2>3. LockInv' /\ PausedInv'
    BY <1>1, <1>2, <1>3, Sizes DEF LifeInv, LockInv, PausedInv, Alive, LifeT
  <2> QED
    BY <2>1, <2>2, <2>3 DEF LifeStep, LifeInv
<1>4. CASE ~stopped /\ generation = 0 /\ StartGeneration(c)
  <2> DEFINE n == started + 1
  <2>1. /\ n \in Gens /\ started' = n /\ generation' = n /\ paused' = FALSE
        /\ worker' = [worker EXCEPT ![n] = [w \in Workers |-> Waiting]]
        /\ disturbed' = disturbed \cup {d \in Clearers \ {c} : clearer[d].pc = "paused"}
    BY <1>4, Sizes DEF StartGeneration, LifeT, Gens
  <2>2. n \notin canceled /\ \A g \in Gens : ~Alive(g)
    BY <1>2, <1>4 DEF LifeT, Gens
  <2> HIDE DEF n
  <2>3. /\ \A w \in Workers : worker'[n][w].pc = "waiting"
        /\ \A g \in Gens, w \in Workers : g # n => worker'[g][w].pc = "exited"
    BY <2>1, <2>2 DEF JobT, Waiting, Alive
  <2>4. LifeT'
    <3>1. generation' \in 0..started' /\ started' \in Gens /\ canceled' \subseteq 1..started'
      BY <1>1, <2>1, Sizes DEF LifeT, Gens, n
    <3>2. clearer' \in [Clearers -> ClearerT] /\ disturbed' \subseteq Clearers
      BY <1>1, <2>1 DEF LifeT, ClearerT
    <3> QED
      BY <1>1, <2>1, <3>1, <3>2 DEF LifeT
  <2>5. WorkersInv'
    BY <1>1, <1>2, <1>4, <2>1, <2>2, <2>3 DEF WorkersInv, Gens
  <2>6. OneGeneration'
    BY <2>3 DEF OneGeneration, Alive, Gens
  <2>7. LockInv' /\ PausedInv'
    BY <1>1, <1>2, <1>4, <2>1, <2>2, Sizes DEF LifeInv, LockInv, PausedInv, LifeT
  <2> QED
    BY <2>4, <2>5, <2>6, <2>7 DEF LifeStep, LifeInv
<1> QED
  BY <1>3, <1>4 DEF Resume, ResumeAfterClear

LEMMA StopLife ==
  ASSUME LifeT, JobT, LifeInv, StopBegin \/ StopEnd
  PROVE  LifeStep
<1>1. CASE StopBegin
  <2>1. /\ lock = "free" /\ lock' = "stop" /\ stopping' = "waiting" /\ stopped' /\ paused'
        /\ stopped' = TRUE /\ paused' = TRUE
        /\ canceled' = canceled \cup ({generation} \ {0}) /\ generation' = 0
        /\ UNCHANGED <<queue, started, worker, clearer, configured, disturbed>>
    BY <1>1 DEF StopBegin
  <2>2. /\ \A d \in Clearers : clearer[d].pc # "pausing"
        /\ \A g \in Gens, w \in Workers : worker[g][w].pc # "exited" => g = generation
    BY <2>1, Unlocked DEF LifeInv
  <2>3. LifeT'
    <3>1. canceled' \subseteq 1..started'
      BY <2>1 DEF LifeT, Gens
    <3> QED
      BY <2>1, <3>1, Sizes DEF LifeT, Gens
  <2>4. WorkersInv'
    BY <2>1, <2>2 DEF LifeInv, WorkersInv, Alive, Gens
  <2>5. OneGeneration' /\ PausedInv'
    BY <2>1 DEF LifeInv, OneGeneration, PausedInv, Alive
  <2>6. LockInv'
    BY <2>1, <2>2, Sizes DEF LockInv, LifeT
  <2> QED
    BY <2>3, <2>4, <2>5, <2>6 DEF LifeStep, LifeInv
<1>2. CASE StopEnd
  <2>1. /\ stopping = "waiting" /\ lock' = "free" /\ stopping' = "done"
        /\ \A g \in canceled : AllGone(g)
        /\ UNCHANGED <<queue, generation, started, canceled, paused, stopped, worker, clearer, configured, disturbed>>
    BY <1>2 DEF StopEnd
  <2>2. lock = "stop" /\ generation = 0 /\ generation \notin canceled
        /\ \A d \in Clearers : clearer[d].pc # "pausing"
    BY <2>1, Sizes DEF LifeInv, LockInv, LifeT
  <2>3. \A g \in Gens : ~Alive(g)
    BY <2>1, <2>2 DEF LifeInv, WorkersInv, Alive, AllGone, Gens
  <2>4. queue = <<>>
    BY <2>3 DEF LifeInv, WorkersInv
  <2>5. LifeT'
    BY <2>1 DEF LifeT
  <2>6. WorkersInv'
    BY <2>1, <2>2, <2>3, <2>4 DEF WorkersInv, Alive, Gens
  <2>7. OneGeneration' /\ PausedInv'
    BY <2>1 DEF LifeInv, OneGeneration, PausedInv, Alive
  <2>8. LockInv'
    BY <2>1, <2>2, Sizes DEF LifeInv, LockInv
  <2> QED
    BY <2>5, <2>6, <2>7, <2>8 DEF LifeStep, LifeInv
<1> QED
  BY <1>1, <1>2
-----------------------------------------------------------------------------
\* The invariant

LEMMA InitIInv == Init => IInv
<1> SUFFICES ASSUME Init PROVE IInv
  OBVIOUS
<1>1. RecordT
  BY Sizes, EmptySeq DEF Init, RecordT
<1>2. JobT
  BY Sizes, EmptySeq DEF Init, JobT, WorkerT, SenderT, Waiting, Gone, Gens
<1>3. LifeT
  <2>1. clearer \in [Clearers -> ClearerT]
    BY Sizes DEF Init, ClearerT
  <2>2. generation \in 0..started /\ started \in Gens /\ canceled \subseteq 1..started
    BY Sizes DEF Init, Gens
  <2> QED
    BY <2>1, <2>2 DEF Init, LifeT
<1>4. \A g \in Gens, w \in Workers : worker[g][w].pc = IF g = 1 THEN "waiting" ELSE "exited"
  BY DEF Init, Waiting, Gone, Gens
<1>5. /\ queue = <<>> /\ DOMAIN queue = {} /\ log = <<>> /\ DOMAIN log = {}
      /\ \A s \in Senders : sender[s].pc = "idle"
      /\ \A m \in Mails : fate[m] = "none" /\ results[m] = 0
      /\ generation = 1 /\ started = 1
  BY DEF Init
<1>6. JobInv /\ RecordInv
  <2>1. QueueInv /\ HandsInv /\ ApartInv
    BY <1>4, <1>5 DEF QueueInv, HandsInv, ApartInv
  <2>2. TestInv /\ HeldInv
    BY <1>5 DEF TestInv, HeldInv
  <2>3. NumberInv /\ LogAgrees
    BY <1>5 DEF NumberInv, LogAgrees
  <2> QED
    BY <2>1, <2>2, <2>3 DEF JobInv, RecordInv
<1>8. WorkersInv /\ OneGeneration
  BY <1>4, <1>5 DEF WorkersInv, OneGeneration, Alive, Gens
<1>7. LockInv /\ PausedInv
  BY Sizes DEF Init, LockInv, PausedInv
<1> QED
  BY <1>1, <1>2, <1>3, <1>6, <1>7, <1>8, Types DEF IInv, LifeInv

\* Every step keeps the invariant, and moves the mails as MailJobs allows.
LEMMA NextIInv == IInv /\ [Next]_vars => IInv' /\ [Jobs!Next]_fate
<1> SUFFICES ASSUME IInv, [Next]_vars PROVE JobStep /\ LifeStep
  <2>1. RecordT' /\ JobT' /\ LifeT' => TypeOK'
    BY Types, PTL
  <2> QED
    BY <2>1 DEF JobStep, LifeStep, IInv
<1>1. RecordT /\ RecordInv /\ JobT /\ JobInv /\ LifeT /\ LifeInv
  BY Types DEF IInv
<1>2. ASSUME UNCHANGED <<queue, worker, sender, records>> PROVE JobStep
  <2>1. RecordT' /\ RecordInv' /\ fate' = fate
    BY <1>1, <1>2, RecordsKept
  <2>2. JobT' /\ JobInv'
    BY <1>1, <1>2, <2>1 DEF JobT, JobInv, QueueInv, HandsInv, ApartInv, TestInv, HeldInv
  <2> QED
    BY <2>1, <2>2 DEF JobStep
<1>3. ASSUME NEW s \in Senders, SenderStep(s) PROVE JobStep /\ LifeStep
  <2>1. CASE PreflightPasses(s) \/ Skip(s)
    <3>1. \E pc \in {"idle", "checked"} :
            sender' = [sender EXCEPT ![s].pc = pc] /\ sender[s].pc \in {"idle", "checked"}
      BY <2>1 DEF PreflightPasses, Skip
    <3>2. UNCHANGED <<queue, worker, records, lifecycle>>
      BY <2>1 DEF PreflightPasses, Skip
    <3> QED
      BY <1>1, <3>1, <3>2, SenderJob, LifeKept
  <2>2. CASE Reject(s)
    <3>1. Begin("failed") /\ sender' = [sender EXCEPT ![s].pc = "idle"] /\ UNCHANGED <<queue, worker, lifecycle>>
      BY <2>2 DEF Reject
    <3> QED
      BY <1>1, <3>1, RejectJob, LifeKept
  <2>3. CASE Enqueue(s)
    BY <1>1, <2>3, EnqueueJob, EnqueueLife
  <2>4. CASE TestBegin(s)
    BY <1>1, <2>4, TestBeginJob, LifeKept DEF TestBegin
  <2>5. CASE TestEnd(s)
    BY <1>1, <2>5, TestEndJob, LifeKept DEF TestEnd
  <2> QED
    BY <1>3, <2>1, <2>2, <2>3, <2>4, <2>5 DEF SenderStep
<1>4. ASSUME NEW g \in Gens, NEW w \in Workers, WorkerStep(g, w) PROVE JobStep /\ LifeStep
  <2> DEFINE m == worker[g][w].id
             draining == [pc |-> "draining", id |-> 0]
  <2>1. CASE Take(g, w)
    <3>1. JobStep
      BY <1>1, <2>1, TakeJob
    <3>2. Head(queue) \in Mails
      BY <1>1, <2>1, Popped DEF Take
    <3>3. /\ [pc |-> "got", id |-> Head(queue)] \in WorkerT
          /\ SetWorker(g, w, [pc |-> "got", id |-> Head(queue)]) /\ UNCHANGED lifecycle
          /\ worker[g][w].pc # "exited" /\ queue # <<>>
      BY <2>1, <3>2, Sizes DEF Take, WorkerT, Mails
    <3> QED
      BY <1>1, <3>1, <3>3, WorkerLife
  <2>2. CASE NoticeCancel(g, w)
    <3>1. /\ worker[g][w].pc = "waiting" /\ g \in canceled /\ SetWorker(g, w, draining)
          /\ UNCHANGED <<queue, sender, records, lifecycle>> /\ draining \in WorkerT
      BY <2>2, Sizes DEF NoticeCancel, WorkerT
    <3>2. JobStep
      BY <1>1, <3>1, WorkerJob
    <3> QED
      BY <1>1, <3>1, <3>2, WorkerLife
  <2>3. CASE Start(g, w)
    <3>1. worker[g][w].pc = "got" /\ UNCHANGED <<queue, sender, lifecycle>> /\ m \in 0..MaxMails
      BY <1>1, <2>3 DEF Start, JobT, WorkerT
    <3>2. CASE g \in canceled
      <4>1. Mark(m, "queued", "failed") /\ SetWorker(g, w, draining) /\ draining \in WorkerT
        BY <2>3, <3>2, Sizes DEF Start, WorkerT
      <4> QED
        BY <1>1, <3>1, <3>2, <4>1, HandJob, WorkerLife
    <3>3. CASE g \notin canceled
      <4> DEFINE state == [pc |-> "sending", id |-> m]
      <4>1. Mark(m, "queued", "sending") /\ SetWorker(g, w, state) /\ state \in WorkerT
        BY <2>3, <3>1, <3>3 DEF Start, WorkerT
      <4>2. JobStep
        BY <1>1, <3>1, <4>1, HandJob
      <4>3. LifeStep
        BY <1>1, <3>1, <4>1, WorkerLife
      <4> QED
        BY <4>2, <4>3
    <3> QED
      BY <3>2, <3>3
  <2>4. CASE Finish(g, w)
    <3>1. PICK end \in Ends : Mark(m, "sending", end)
      BY <2>4 DEF Finish
    <3>2. /\ worker[g][w].pc = "sending" /\ SetWorker(g, w, Waiting)
          /\ UNCHANGED <<queue, sender, lifecycle>>
          /\ Waiting \in WorkerT /\ Waiting.pc = "waiting" /\ end \in {"accepted", "failed"}
      BY <2>4, Sizes DEF Finish, Waiting, WorkerT, Ends
    <3>3. JobStep
      BY <1>1, <3>1, <3>2, HandJob
    <3>4. LifeStep
      BY <1>1, <3>2, WorkerLife
    <3> QED
      BY <3>3, <3>4
  <2>5. CASE DrainOne(g, w)
    BY <1>1, <2>5, DrainOneJob, LifeKept DEF DrainOne
  <2>6. CASE DrainEnd(g, w)
    <3>1. /\ worker[g][w].pc = "draining" /\ queue = <<>> /\ SetWorker(g, w, Gone)
          /\ UNCHANGED <<queue, sender, records, lifecycle>>
      BY <2>6 DEF DrainEnd
    <3>2. Gone = [pc |-> "exited", id |-> 0] /\ Gone \in WorkerT /\ Gone.pc = "exited"
      BY Sizes DEF Gone, WorkerT
    <3>3. JobStep
      BY <1>1, <3>1, <3>2, WorkerJob
    <3>4. LifeStep
      BY <1>1, <3>1, <3>2, WorkerLife
    <3> QED
      BY <3>3, <3>4
  <2> QED
    BY <1>4, <2>1, <2>2, <2>3, <2>4, <2>5, <2>6 DEF WorkerStep
<1>5. ASSUME NEW c \in Clearers, ClearerStep(c) PROVE JobStep /\ LifeStep
  <2>1. CASE PauseBegin(c)
    BY <1>1, <1>2, <2>1, PauseBeginLife DEF PauseBegin
  <2>2. CASE PauseEnd(c)
    BY <1>1, <1>2, <2>2, PauseEndLife DEF PauseEnd
  <2>3. CASE ClearTables(c) \/ ClearTablesFails(c)
    <3>1. UNCHANGED <<queue, worker, sender, records>>
      BY <2>3 DEF ClearTables, ClearTablesFails
    <3> QED
      BY <1>1, <1>2, <2>3, <3>1, ClearTablesLife
  <2>4. CASE Resume(c) \/ ResumeAfterClear(c)
    <3>1. LifeStep
      BY <1>1, <2>4, ResumeLife
    <3>2. CASE UNCHANGED worker
      <4>1. UNCHANGED <<queue, worker, sender, nextID, fate, results>>
        BY <2>4, <3>2 DEF Resume, ResumeAfterClear, records
      <4>2. CASE log' = log
        <5>1. UNCHANGED <<queue, worker, sender, records>>
          BY <4>1, <4>2 DEF records
        <5> QED
          BY <1>2, <3>1, <5>1
      <4>3. CASE log' # log
        <5>1. ResumeAfterClear(c) /\ StartGeneration(c) /\ log' = <<>> /\ lock = "free" /\ generation = 0
          BY <2>4, <4>3 DEF Resume, ResumeAfterClear, records
        <5>2. started + 1 \in Gens
              /\ worker' = [worker EXCEPT ![started + 1] = [w \in Workers |-> Waiting]]
          BY <1>1, <5>1, Sizes DEF StartGeneration, LifeT, Gens
        <5>3. \A w \in Workers : worker[started + 1][w].pc = "exited"
          BY <1>1, <5>1, <5>2, Unlocked DEF LifeInv, Alive
        <5>4. UNCHANGED <<queue, sender, nextID, fate, results>> /\ (log' = log \/ log' = <<>>)
          BY <4>1, <5>1
        <5>5. JobStep
          BY <1>1, <5>2, <5>3, <5>4, GenerationJob
        <5> QED
          BY <3>1, <5>5
      <4> QED
        BY <4>2, <4>3
    <3>3. CASE ~UNCHANGED worker
      <4>1. /\ StartGeneration(c) /\ lock = "free" /\ generation = 0
            /\ UNCHANGED <<queue, sender, nextID, fate, results>> /\ (log' = log \/ log' = <<>>)
        BY <2>4, <3>3 DEF Resume, ResumeAfterClear, records
      <4>2. started + 1 \in Gens
            /\ worker' = [worker EXCEPT ![started + 1] = [w \in Workers |-> Waiting]]
        BY <1>1, <4>1, Sizes DEF StartGeneration, LifeT, Gens
      <4>3. \A w \in Workers : worker[started + 1][w].pc = "exited"
        BY <1>1, <4>1, <4>2, Unlocked DEF LifeInv, Alive
      <4>4. JobStep
        BY <1>1, <4>1, <4>2, <4>3, GenerationJob
      <4> QED
        BY <3>1, <4>4
    <3> QED
      BY <3>1, <3>2, <3>3
  <2> QED
    BY <1>5, <2>1, <2>2, <2>3, <2>4 DEF ClearerStep
<1>6. CASE StopBegin \/ StopEnd
  <2>1. UNCHANGED <<queue, worker, sender, records>>
    BY <1>6 DEF StopBegin, StopEnd
  <2> QED
    BY <1>1, <1>2, <1>6, <2>1, StopLife
<1>7. CASE Setup
  <2>1. UNCHANGED <<queue, worker, sender, records>>
    BY <1>7 DEF Setup
  <2>2. LifeStep
    BY <1>1, <1>7 DEF Setup, LifeStep, LifeT, LifeInv, WorkersInv, LockInv, PausedInv, OneGeneration, Alive
  <2> QED
    BY <1>2, <2>1, <2>2
<1>8. CASE UNCHANGED vars
  BY <1>1, <1>2, <1>8, LifeKept DEF vars, records, lifecycle
<1> QED
  BY <1>3, <1>4, <1>5, <1>6, <1>7, <1>8 DEF Next, Gens

\* The invariant is inductive: what is said of every mail, every worker and every clear that
\* is under way holds after any step of any of them.
THEOREM Invariance == Spec => []IInv
  BY InitIInv, NextIInv, PTL DEF Spec

\* Every variable keeps its type, and channel and ring their sizes (TypeOK).
THEOREM Typed == Spec => []TypeOK
<1>1. IInv => TypeOK
  BY DEF IInv
<1> QED
  BY <1>1, Invariance, PTL

\* The places where a queued mail can be, counted (MailKept).
LEMMA Counted ==
  ASSUME RecordT, JobT, JobInv
  PROVE  QueuedOnce
<1> SUFFICES ASSUME NEW m \in Mails
             PROVE  Cardinality(Places(m)) + Cardinality(Takers(m)) = IF fate[m] = "queued" THEN 1 ELSE 0
  BY DEF QueuedOnce
<1>1. \A i \in Places(m) : Places(m) = {i} /\ fate[m] = "queued" /\ Takers(m) = {}
  BY DEF JobInv, QueueInv, HandsInv, Places, Takers, Gens
<1>2. ASSUME NEW gw \in Takers(m) PROVE Takers(m) = {gw} /\ fate[m] = "queued" /\ Places(m) = {}
  <2>1. PICK g \in Gens, w \in Workers : gw = <<g, w>> /\ worker[g][w].pc = "got" /\ worker[g][w].id = m
    BY DEF Takers, Gens
  <2>2. ASSUME NEW hv \in Takers(m) PROVE hv = gw
    <3>1. PICK h \in Gens, v \in Workers : hv = <<h, v>> /\ worker[h][v].pc = "got" /\ worker[h][v].id = m
      BY DEF Takers, Gens
    <3> QED
      BY <2>1, <3>1 DEF JobInv, ApartInv
  <2>3. fate[m] = "queued" /\ Places(m) = {}
    BY <2>1 DEF JobInv, HandsInv, Places
  <2> QED
    BY <2>2, <2>3
<1>3. fate[m] = "queued" => Places(m) # {} \/ Takers(m) # {}
  <2>1. ASSUME fate[m] = "queued", NEW i \in DOMAIN queue, queue[i] = m PROVE Places(m) # {}
    BY <2>1 DEF Places
  <2>2. ASSUME fate[m] = "queued", NEW g \in Gens, NEW w \in Workers,
               worker[g][w].pc = "got", worker[g][w].id = m
        PROVE  Takers(m) # {}
    <3>1. <<g, w>> \in Takers(m)
      BY <2>2 DEF Takers, Gens
    <3> QED
      BY <3>1
  <2> QED
    BY <2>1, <2>2 DEF JobInv, HeldInv
<1>4. Cardinality({}) = 0
  BY FS_EmptySet
<1>5. ASSUME NEW i \in Places(m)
      PROVE  Cardinality(Places(m)) = 1 /\ Cardinality(Takers(m)) = 0 /\ fate[m] = "queued"
  BY <1>1, <1>4, FS_Singleton
<1>6. ASSUME NEW gw \in Takers(m)
      PROVE  Cardinality(Takers(m)) = 1 /\ Cardinality(Places(m)) = 0 /\ fate[m] = "queued"
  BY <1>2, <1>4, FS_Singleton
<1>7. CASE Places(m) = {} /\ Takers(m) = {}
  BY <1>3, <1>4, <1>7
<1> QED
  BY <1>5, <1>6, <1>7

\* No mail is lost, doubled or misreported, and a pause leaves none waiting and nobody
\* working (MailKept).
THEOREM Kept == Spec => []MailKept
<1>1. IInv => MailKept
  <2> SUFFICES ASSUME IInv PROVE MailKept
    OBVIOUS
  <2>1. RecordT /\ JobT /\ LifeT /\ JobInv /\ RecordInv /\ LifeInv
    BY Types DEF IInv
  <2>2. DrainedWhenPaused
    BY <2>1, Unlocked DEF LifeInv, DrainedWhenPaused, Gens
  <2>3. QueuedOnce
    BY <2>1, Counted
  <2> QED
    BY <2>1, <2>2, <2>3 DEF MailKept, RecordInv, LifeInv
<1> QED
  BY <1>1, Invariance, PTL

\* Tables are cleared only when no mail waits, none is being sent and none can be queued --
\* unless another resumption came in between (QuietWhenCleared).
THEOREM ClearedQuietly == Spec => QuietWhenCleared
<1> DEFINE Quiet == \A c \in Clearers \ disturbed :
                      clearer[c].pc = "paused" /\ clearer'[c].pc = "cleared"
                        => Unavailable /\ queue = <<>> /\ \A g \in 1..MaxGenerations : ~Alive(g)
<1>1. IInv /\ [Next]_vars => [Quiet]_vars
  <2> SUFFICES ASSUME IInv, NEW c \in Clearers \ disturbed, clearer[c].pc = "paused"
               PROVE  Unavailable /\ queue = <<>> /\ \A g \in 1..MaxGenerations : ~Alive(g)
    OBVIOUS
  <2>1. generation = 0 /\ \A g \in Gens : ~Alive(g)
    BY DEF IInv, LifeInv, PausedInv
  <2> QED
    BY <2>1 DEF IInv, LifeInv, WorkersInv, Unavailable, Gens
<1> QED
  BY <1>1, Invariance, PTL DEF Spec, QuietWhenCleared

\* Each mail is tried at most once and has one end: the dispatcher implements MailJobs.
THEOREM Implementation == Spec => ImplementsJobs
<1>1. Init => Jobs!Init
  BY DEF Init, Jobs!Init
<1> QED
  BY <1>1, NextIInv, Invariance, PTL DEF Spec, ImplementsJobs

-----------------------------------------------------------------------------
(***************************************************************************)
(* The log of mail results.                                                *)
(***************************************************************************)

Callers == LogClearers \cup Flushers
KindOf(p) == IF p \in LogClearers THEN "clear" ELSE "barrier"
InBuffer(id, end) == \E j \in 1..(end - 1) : buffer[j].kind = "record" /\ buffer[j].record.id = id

\* A record that entered the channel is still there, or the writer has seen it.
AcceptedInv == \A id \in accepted : id \in settled \/ InBuffer(id, Len(buffer) + 1)

\* The command of a clear or a flush is in the channel exactly while its caller waits for it
\* or has left, and is the caller's.
CommandInv ==
  /\ \A i \in DOMAIN buffer : buffer[i].kind \in {"clear", "barrier"} =>
       LET p == buffer[i].who IN
         /\ p \in Callers /\ buffer[i].kind = KindOf(p)
         /\ control[p].pc \in {"sent", "left"} /\ control[p].at = buffer[i].record.at
         /\ \A j \in DOMAIN buffer : buffer[j].kind \in {"clear", "barrier"} /\ buffer[j].who = p => j = i
  /\ \A p \in Callers : control[p].pc \in {"sent", "left"} =>
       \E i \in DOMAIN buffer : buffer[i].kind = KindOf(p) /\ buffer[i].who = p

\* What had entered the channel when a flush began is ahead of its barrier.
BarrierInv ==
  \A f \in Flushers :
    /\ control[f].pc \in {"begun", "locked"} => before[f] \subseteq accepted
    /\ \A i \in DOMAIN buffer : buffer[i].kind = "barrier" /\ buffer[i].who = f =>
         \A id \in before[f] : id \in settled \/ InBuffer(id, i)
    /\ control[f].pc = "answered" => before[f] \subseteq settled

\* Nothing enters the channel behind the stop, and the writer stops there.
StopInv ==
  /\ stopCall = "no" <=> ~logStopped
  /\ logStopped => \A p \in Callers : control[p].pc # "locked"
  /\ \A i \in DOMAIN buffer : buffer[i].kind = "stop" =>
       i = Len(buffer) /\ stopCall \in {"sent", "given up"}
  /\ ~writing => stopCall \in {"done", "given up"} /\ buffer = <<>>

\* The table holds nothing from before the writer's cutoff, and no clear that has been
\* answered reaches further than the writer once did.
CutoffInv ==
  /\ \A rec \in table : rec.at > cutoff
  /\ cutoff <= highest /\ promised <= highest
  /\ \A c \in LogClearers : control[c].pc = "answered" => control[c].at <= highest

\* A record that has been formed has a number.
ResultNumberInv ==
  /\ \A r \in Recorders : recorder[r] # NoRecord => recorder[r].id # 0
  /\ \A i \in DOMAIN buffer : buffer[i].kind = "record" => buffer[i].record.id # 0

ResultIInv == ResultTypeOK /\ ResultNumberInv /\ AcceptedInv /\ CommandInv /\ BarrierInv /\ StopInv /\ CutoffInv
-----------------------------------------------------------------------------
\* Types

Pcs == {"idle", "begun", "locked", "sent", "left", "answered"}
ClockT == now \in 0..MaxTime /\ given \in 0..MaxRecords
RecorderT == recorder \in [Recorders -> Records]
ControlT == control \in [Callers -> [pc : Pcs, at : 0..now]]
WriterT ==
  /\ stopCall \in {"no", "locked", "sent", "done", "given up"} /\ logStopped \in BOOLEAN
  /\ cutoff \in 0..now /\ promised \in 0..now /\ highest \in 0..now /\ writing \in BOOLEAN
  /\ settled \subseteq 1..given /\ accepted \subseteq 1..given
  /\ before \in [Flushers -> SUBSET (1..given)]
TableT == table \subseteq Records
BufferT == buffer \in Seq(Commands) /\ Len(buffer) <= BufferSize

LEMMA ResultTypes == ResultTypeOK <=> ClockT /\ RecorderT /\ ControlT /\ WriterT /\ TableT /\ BufferT
  BY DEF ResultTypeOK, ClockT, RecorderT, ControlT, WriterT, TableT, BufferT, Pcs, Callers

LEMMA ResultSizes ==
  /\ BufferSize \in Nat \ {0} /\ MaxTime \in Nat /\ MaxRecords \in Nat
  /\ LogClearers \cap Flushers = {}
  BY ResultAssumption

LEMMA CommandFields ==
  ASSUME NEW cmd \in Commands
  PROVE  /\ cmd.kind \in {"record", "clear", "barrier", "stop"} /\ cmd.record \in Records
         /\ cmd.record.id \in 0..given /\ cmd.record.at \in 0..now
  BY DEF Commands, Records

\* The channel, position by position.
LEMMA Listed ==
  ASSUME BufferT
  PROVE  /\ Len(buffer) \in Nat /\ DOMAIN buffer = 1..Len(buffer)
         /\ \A i \in DOMAIN buffer : buffer[i] \in Commands
  BY LenProperties, ElementOfSeq DEF BufferT

LEMMA Appended ==
  ASSUME BufferT, Room, NEW cmd \in Commands, buffer' = Append(buffer, cmd),
         now' = now, given' = given
  PROVE  /\ BufferT' /\ Len(buffer) \in Nat /\ Len(buffer') = Len(buffer) + 1
         /\ DOMAIN buffer = 1..Len(buffer) /\ DOMAIN buffer' = 1..(Len(buffer) + 1)
         /\ \A i \in 1..Len(buffer) : buffer'[i] = buffer[i]
         /\ buffer'[Len(buffer) + 1] = cmd
<1>1. Commands' = Commands
  BY DEF Commands, Records
<1>2. buffer \in Seq(Commands) /\ Len(buffer) \in Nat /\ DOMAIN buffer = 1..Len(buffer)
  BY LenProperties DEF BufferT
<1>3. /\ Append(buffer, cmd) \in Seq(Commands) /\ Len(Append(buffer, cmd)) = Len(buffer) + 1
      /\ \A i \in 1..Len(buffer) : Append(buffer, cmd)[i] = buffer[i]
      /\ Append(buffer, cmd)[Len(buffer) + 1] = cmd
  BY <1>2, AppendProperties
<1>4. DOMAIN buffer' = 1..(Len(buffer) + 1)
  BY <1>3, LenProperties
<1> QED
  BY <1>1, <1>2, <1>3, <1>4, ResultSizes DEF BufferT, Room

LEMMA Received ==
  ASSUME BufferT, NEW kind, Receive(kind), now' = now, given' = given
  PROVE  /\ BufferT' /\ Len(buffer) \in Nat \ {0} /\ Len(buffer') = Len(buffer) - 1
         /\ DOMAIN buffer = 1..Len(buffer) /\ DOMAIN buffer' = 1..(Len(buffer) - 1)
         /\ Head(buffer) = buffer[1] /\ Head(buffer) \in Commands /\ Head(buffer).kind = kind
         /\ \A i \in DOMAIN buffer' : buffer'[i] = buffer[i + 1]
         /\ writing
<1>1. Commands' = Commands
  BY DEF Commands, Records
<1>2. /\ buffer \in Seq(Commands) /\ Len(buffer) \in Nat \ {0} /\ DOMAIN buffer = 1..Len(buffer)
      /\ buffer # <<>> /\ buffer' = Tail(buffer)
  BY LenProperties, EmptySeq DEF BufferT, Receive
<1>3. /\ Head(buffer) \in Commands /\ Head(buffer) = buffer[1]
      /\ Tail(buffer) \in Seq(Commands) /\ Len(Tail(buffer)) = Len(buffer) - 1
      /\ \A i \in 1..Len(Tail(buffer)) : Tail(buffer)[i] = buffer[i + 1]
  BY <1>2, HeadTailProperties
<1>4. DOMAIN buffer' = 1..(Len(buffer) - 1)
  BY <1>2, <1>3, LenProperties
<1> QED
  BY <1>1, <1>2, <1>3, <1>4, ResultSizes DEF BufferT, Receive

\* A record that is ahead of a position stays ahead of it when a command is appended, and
\* when one is received, unless it is the one received.
LEMMA AheadAppended ==
  ASSUME BufferT, Room, NEW cmd \in Commands, buffer' = Append(buffer, cmd),
         now' = now, given' = given, NEW end \in 1..(Len(buffer) + 1), NEW id, InBuffer(id, end)
  PROVE  InBuffer(id, end)' /\ InBuffer(id, Len(buffer) + 1)'
  BY Appended DEF InBuffer

LEMMA AheadReceived ==
  ASSUME BufferT, NEW kind, Receive(kind), now' = now, given' = given,
         NEW end \in 1..(Len(buffer) + 1), NEW id, InBuffer(id, end)
  PROVE  \/ end - 1 \in 1..(Len(buffer') + 1) /\ InBuffer(id, end - 1)'
         \/ kind = "record" /\ Head(buffer).record.id = id
<1>1. PICK j \in 1..(end - 1) : buffer[j].kind = "record" /\ buffer[j].record.id = id
  BY DEF InBuffer
<1>2. /\ Len(buffer) \in Nat \ {0} /\ Len(buffer') = Len(buffer) - 1
      /\ DOMAIN buffer' = 1..(Len(buffer) - 1) /\ Head(buffer) = buffer[1] /\ Head(buffer).kind = kind
      /\ \A i \in DOMAIN buffer' : buffer'[i] = buffer[i + 1]
  BY Received
<1>3. CASE j = 1
  BY <1>1, <1>2, <1>3
<1>4. CASE j # 1
  <2>1. /\ j - 1 \in 1..((end - 1) - 1) /\ buffer'[j - 1] = buffer[(j - 1) + 1] /\ (j - 1) + 1 = j
        /\ end - 1 \in 1..(Len(buffer') + 1)
    BY <1>1, <1>2, <1>4
  <2> QED
    BY <1>1, <2>1 DEF InBuffer
<1> QED
  BY <1>3, <1>4

-----------------------------------------------------------------------------
LEMMA InitResultIInv == ResultInit => ResultIInv
<1> SUFFICES ASSUME ResultInit PROVE ResultIInv
  OBVIOUS
<1>1. ClockT /\ RecorderT /\ ControlT /\ WriterT /\ TableT
  <2>1. ClockT /\ TableT
    BY ResultSizes DEF ResultInit, ClockT, TableT
  <2>4. WriterT
    <3>1. before \in [Flushers -> SUBSET (1..given)] /\ settled \subseteq 1..given /\ accepted \subseteq 1..given
      BY DEF ResultInit
    <3>2. cutoff \in 0..now /\ promised \in 0..now /\ highest \in 0..now
      BY DEF ResultInit
    <3> QED
      BY <3>1, <3>2 DEF ResultInit, WriterT
  <2>2. RecorderT
    BY DEF ResultInit, RecorderT, Records, NoRecord
  <2>3. ControlT
    BY DEF ResultInit, ControlT, Rest, Pcs, Callers
  <2> QED
    BY <2>1, <2>2, <2>3, <2>4
<1>2. BufferT
  BY ResultSizes, EmptySeq DEF ResultInit, BufferT
<1>3. /\ DOMAIN buffer = {} /\ writing /\ logStopped = FALSE /\ stopCall = "no" /\ accepted = {} /\ table = {}
      /\ \A p \in Callers : control[p].pc = "idle"
      /\ \A r \in Recorders : recorder[r] = NoRecord
      /\ cutoff = 0 /\ promised = 0 /\ highest = 0
  BY DEF ResultInit, Rest, Callers
<1>4. ResultNumberInv /\ AcceptedInv /\ CommandInv
  BY <1>3 DEF ResultNumberInv, AcceptedInv, CommandInv
<1>5. BarrierInv /\ StopInv /\ CutoffInv
  BY <1>3 DEF BarrierInv, StopInv, CutoffInv, Callers
<1> QED
  BY <1>1, <1>2, <1>4, <1>5, ResultTypes DEF ResultIInv

-----------------------------------------------------------------------------
\* What the actions do.  Each lemma shows that one action keeps the parts of the invariant.

Parts == /\ ClockT /\ RecorderT /\ ControlT /\ WriterT /\ TableT /\ BufferT /\ ResultNumberInv /\ AcceptedInv /\ CommandInv
         /\ BarrierInv /\ StopInv /\ CutoffInv

\* The clock goes on or a record gets its number: the sets of values only grow.
LEMMA Grown ==
  ASSUME ClockT, BufferT, now' \in 0..MaxTime, given' \in 0..MaxRecords, now' >= now, given' >= given
  PROVE  /\ Records \subseteq Records' /\ Commands \subseteq Commands' /\ buffer \in Seq(Commands')
         /\ 0..now \subseteq 0..now' /\ 1..given \subseteq 1..given'
<1>1. Records \subseteq Records'
  BY ResultSizes DEF Records, ClockT
<1>2. Commands \subseteq Commands'
  BY <1>1 DEF Commands
<1> QED
  BY <1>1, <1>2, SeqMonotonic, ResultSizes DEF BufferT, ClockT

LEMMA FormRecordStep ==
  ASSUME Parts, NEW r \in Recorders, NEW t \in now..(now + 1), FormRecord(r, t)
  PROVE  Parts'
<1> USE DEF Parts
<1> DEFINE rec == [id |-> given + 1, at |-> t]
<1>1. /\ given < MaxRecords /\ given' = given + 1 /\ t \in {now, now + 1} /\ t <= MaxTime /\ now' = t
      /\ recorder' = [recorder EXCEPT ![r] = rec]
      /\ UNCHANGED <<control, stopCall, logStopped, buffer, cutoff, writing, table, settled, accepted, before, promised, highest>>
  BY DEF FormRecord, Tick
<1>2. ClockT' /\ now' >= now /\ given' >= given
  BY <1>1, ResultSizes DEF ClockT
<1>3. /\ Records \subseteq Records' /\ buffer \in Seq(Commands')
      /\ 0..now \subseteq 0..now' /\ 1..given \subseteq 1..given'
  BY <1>2, Grown DEF ClockT
<1>4. rec \in Records' /\ rec.id # 0
  BY <1>1, <1>2 DEF Records, ClockT
<1> HIDE DEF rec
<1>5. RecorderT'
  BY <1>1, <1>3, <1>4 DEF RecorderT
<1>6. ControlT' /\ WriterT' /\ TableT'
  BY <1>1, <1>3 DEF ControlT, WriterT, TableT
<1>7. BufferT'
  BY <1>1, <1>3 DEF BufferT
<1>8. ResultNumberInv'
  BY <1>1, <1>4 DEF ResultNumberInv, RecorderT
<1>9. AcceptedInv' /\ BarrierInv'
  BY <1>1 DEF AcceptedInv, BarrierInv, InBuffer
<1>10. CommandInv' /\ StopInv' /\ CutoffInv'
  BY <1>1 DEF CommandInv, StopInv, CutoffInv
<1> QED
  BY <1>2, <1>5, <1>6, <1>7, <1>8, <1>9, <1>10

LEMMA ClearBeginStep ==
  ASSUME Parts, NEW c \in LogClearers, NEW t \in now..(now + 1), ClearBegin(c, t)
  PROVE  Parts'
<1> USE DEF Parts
<1> DEFINE state == [pc |-> "begun", at |-> t]
<1>1. /\ control[c].pc = "idle" /\ t \in {now, now + 1} /\ t <= MaxTime /\ now' = t
      /\ control' = [control EXCEPT ![c] = state]
      /\ UNCHANGED <<given, recorder, stopCall, logStopped, buffer, cutoff, writing, table, settled, accepted, before, promised, highest>>
  BY DEF ClearBegin, Tick
<1>2. ClockT' /\ now' >= now /\ given' >= given
  BY <1>1, ResultSizes DEF ClockT
<1>3. /\ Records \subseteq Records' /\ buffer \in Seq(Commands')
      /\ 0..now \subseteq 0..now' /\ 1..given \subseteq 1..given'
  BY <1>2, Grown DEF ClockT
<1>4. state \in [pc : Pcs, at : 0..now'] /\ state.pc = "begun"
  BY <1>1, <1>2 DEF Pcs, ClockT
<1> HIDE DEF state
<1>5. /\ ControlT' /\ control'[c].pc = "begun"
      /\ \A p \in Callers : p # c => control'[p] = control[p]
  BY <1>1, <1>3, <1>4 DEF ControlT, Callers
<1>6. RecorderT' /\ WriterT' /\ TableT'
  BY <1>1, <1>3 DEF RecorderT, WriterT, TableT
<1>7. BufferT' /\ ResultNumberInv'
  BY <1>1, <1>3 DEF BufferT, ResultNumberInv
<1>8. AcceptedInv'
  BY <1>1 DEF AcceptedInv, InBuffer
<1>9. CommandInv'
  BY <1>1, <1>5 DEF CommandInv, Callers
<1>10. BarrierInv'
  BY <1>1, <1>5, ResultSizes DEF BarrierInv, InBuffer, Callers
<1>11. StopInv' /\ CutoffInv'
  BY <1>1, <1>5 DEF StopInv, CutoffInv, Callers
<1> QED
  BY <1>2, <1>5, <1>6, <1>7, <1>8, <1>9, <1>10, <1>11

LEMMA TryRecordStep ==
  ASSUME Parts, NEW r \in Recorders, TryRecord(r)
  PROVE  Parts'
<1> USE DEF Parts
<1> DEFINE cmd == Command("record", r, recorder[r])
<1> PICK id : id = recorder[r].id
  OBVIOUS
<1>1. /\ recorder[r] # NoRecord /\ recorder' = [recorder EXCEPT ![r] = NoRecord]
      /\ UNCHANGED <<now, given, control, stopCall, logStopped, cutoff, writing, table, before, promised, highest>>
  BY DEF TryRecord
<1>2. /\ id \in 1..given /\ recorder[r] \in Records /\ NoRecord \in Records
  BY <1>1, ResultSizes DEF ClockT, RecorderT, ResultNumberInv, Records, NoRecord
<1>3. Records' = Records /\ Commands' = Commands
  BY <1>1 DEF Records, Commands
<1>4. RecorderT' /\ \A q \in Recorders : recorder'[q] \in {NoRecord, recorder[q]}
  BY <1>1, <1>2, <1>3 DEF RecorderT
<1>5. ClockT' /\ ControlT' /\ TableT' /\ CutoffInv'
  BY <1>1, <1>3 DEF ClockT, ControlT, TableT, CutoffInv
<1>6. CASE /\ ~logStopped /\ Room /\ buffer' = Append(buffer, cmd)
           /\ accepted' = accepted \cup {id} /\ settled' = settled
  <2>1. /\ cmd \in Commands /\ cmd.kind = "record" /\ cmd.record = recorder[r]
    BY <1>2 DEF Command, Commands
  <2> HIDE DEF cmd
  <2>2. /\ BufferT' /\ Len(buffer) \in Nat /\ Len(buffer') = Len(buffer) + 1
        /\ DOMAIN buffer = 1..Len(buffer) /\ DOMAIN buffer' = 1..(Len(buffer) + 1)
        /\ \A i \in 1..Len(buffer) : buffer'[i] = buffer[i]
        /\ buffer'[Len(buffer) + 1] = cmd
    BY <1>1, <1>6, <2>1, Appended
  <2>3. \A k, end : end \in 1..(Len(buffer) + 1) /\ InBuffer(k, end) =>
          InBuffer(k, end)' /\ InBuffer(k, Len(buffer) + 1)'
    BY <1>1, <1>6, <2>1, AheadAppended
  <2>4. WriterT'
    BY <1>1, <1>2, <1>6 DEF WriterT
  <2>5. ResultNumberInv'
    BY <1>2, <1>4, <2>1, <2>2 DEF ResultNumberInv
  <2>6. AcceptedInv'
    <3>1. Len(buffer) + 1 \in 1..((Len(buffer') + 1) - 1) /\ buffer'[Len(buffer) + 1].record.id = id
      BY <2>1, <2>2
    <3>2. InBuffer(id, Len(buffer) + 1)'
      BY <2>1, <2>2, <3>1 DEF InBuffer
    <3>3. Len(buffer) + 1 \in 1..(Len(buffer) + 1)
      BY <2>2
    <3> QED
      BY <1>6, <2>3, <3>2, <3>3 DEF AcceptedInv
  <2>7. CommandInv'
    BY <1>1, <2>1, <2>2 DEF CommandInv
  <2>8. BarrierInv'
    BY <1>1, <1>6, <2>1, <2>2, <2>3 DEF BarrierInv
  <2>9. StopInv'
    <3>1. writing /\ \A i \in DOMAIN buffer : buffer[i].kind # "stop"
      BY <1>6 DEF StopInv
    <3>2. \A i \in DOMAIN buffer' : buffer'[i].kind # "stop"
      BY <2>1, <2>2, <3>1
    <3> QED
      BY <1>1, <1>6, <3>1, <3>2 DEF StopInv
  <2> QED
    BY <1>4, <1>5, <2>2, <2>4, <2>5, <2>6, <2>7, <2>8, <2>9
<1>7. CASE settled' = settled \cup {id} /\ buffer' = buffer /\ accepted' = accepted
  <2>1. WriterT' /\ BufferT'
    BY <1>1, <1>2, <1>3, <1>7 DEF WriterT, BufferT
  <2>2. ResultNumberInv' /\ AcceptedInv'
    BY <1>4, <1>7 DEF ResultNumberInv, AcceptedInv, InBuffer
  <2>3. CommandInv' /\ StopInv'
    BY <1>1, <1>7 DEF CommandInv, StopInv
  <2>4. BarrierInv'
    BY <1>1, <1>7 DEF BarrierInv, InBuffer
  <2> QED
    BY <1>4, <1>5, <2>1, <2>2, <2>3, <2>4
<1> QED
  BY <1>6, <1>7 DEF TryRecord

LEMMA ControlPc ==
  ASSUME ControlT, NEW p \in Callers, NEW x
  PROVE  /\ [control[p] EXCEPT !.pc = x] = [pc |-> x, at |-> control[p].at]
         /\ control[p].at \in 0..now
<1>1. control[p] \in [pc : Pcs, at : 0..now]
  BY DEF ControlT
<1> QED
  BY <1>1

\* A caller's own step: what it does to `control`.
LEMMA ControlSet ==
  ASSUME ClockT, ControlT, NEW p \in Callers, NEW pc \in Pcs, NEW at \in 0..now, now' = now,
         control' = [control EXCEPT ![p] = [pc |-> pc, at |-> at]]
  PROVE  /\ ControlT' /\ control'[p].pc = pc /\ control'[p].at = at
         /\ \A q \in Callers : q # p => control'[q] = control[q]
<1> DEFINE state == [pc |-> pc, at |-> at]
<1>1. state \in [pc : Pcs, at : 0..now] /\ state.pc = pc /\ state.at = at
  OBVIOUS
<1> HIDE DEF state
<1>2. control' = [control EXCEPT ![p] = state]
  BY DEF state
<1> QED
  BY <1>1, <1>2 DEF ControlT

LEMMA FlushBeginStep ==
  ASSUME Parts, NEW f \in Flushers, FlushBegin(f)
  PROVE  Parts'
<1> USE DEF Parts
<1>1. /\ UNCHANGED <<now, given, recorder, stopCall, logStopped, buffer, cutoff, writing, table, settled, accepted,
                     promised, highest>>
      /\ control[f].pc = "idle" /\ before' = [before EXCEPT ![f] = accepted]
      /\ control' = [control EXCEPT ![f] = [pc |-> "begun", at |-> now]]
  BY DEF FlushBegin
<1>2. f \in Callers /\ f \notin LogClearers /\ now \in 0..now
  BY ResultSizes DEF Callers, ClockT
<1>3. /\ ControlT' /\ control'[f].pc = "begun"
      /\ \A q \in Callers : q # f => control'[q] = control[q]
  BY <1>1, <1>2, ControlSet DEF Pcs
<1>4. ClockT' /\ RecorderT' /\ TableT' /\ BufferT' /\ ResultNumberInv'
  BY <1>1 DEF ClockT, RecorderT, TableT, BufferT, ResultNumberInv, Records, Commands
<1>5. WriterT'
  BY <1>1 DEF WriterT
<1>6. AcceptedInv'
  BY <1>1 DEF AcceptedInv, InBuffer
<1>7. \A i \in DOMAIN buffer : buffer[i].kind = "barrier" => buffer[i].who # f
  BY <1>1 DEF CommandInv
<1>8. CommandInv'
  BY <1>1, <1>3 DEF CommandInv
<1>9. BarrierInv'
  <2>1. before'[f] = accepted /\ \A g \in Flushers : g # f => before'[g] = before[g] /\ control'[g] = control[g]
    BY <1>1, <1>3 DEF WriterT, Callers
  <2> QED
    BY <1>1, <1>3, <1>7, <2>1 DEF BarrierInv, InBuffer
<1>10. StopInv' /\ CutoffInv'
  BY <1>1, <1>2, <1>3 DEF StopInv, CutoffInv, Callers
<1> QED
  BY <1>3, <1>4, <1>5, <1>6, <1>8, <1>9, <1>10

LEMMA SendLockStep ==
  ASSUME Parts, NEW p \in Callers, SendLock(p)
  PROVE  Parts'
<1> USE DEF Parts
<1>1. /\ UNCHANGED <<now, given, recorder, stopCall, logStopped, buffer, cutoff, writing, table, settled, accepted,
                     before, promised, highest>>
      /\ control[p].pc = "begun"
      /\ control' = [control EXCEPT ![p] = IF logStopped THEN Rest ELSE [@ EXCEPT !.pc = "locked"]]
  BY DEF SendLock
<1>2. PICK pc \in {"idle", "locked"}, at \in 0..now :
        control' = [control EXCEPT ![p] = [pc |-> pc, at |-> at]] /\ (pc = "locked" => ~logStopped)
  <2>1. CASE logStopped
    <3>1. control' = [control EXCEPT ![p] = [pc |-> "idle", at |-> 0]] /\ 0 \in 0..now
      BY <1>1, <2>1 DEF Rest, ClockT
    <3> QED
      BY <2>1, <3>1
  <2>2. CASE ~logStopped
    <3>1. control' = [control EXCEPT ![p] = [pc |-> "locked", at |-> control[p].at]]
      BY <1>1, <2>2, ControlPc
    <3> QED
      BY <2>2, <3>1, ControlPc
  <2> QED
    BY <2>1, <2>2
<1>3. /\ ControlT' /\ control'[p].pc = pc
      /\ \A q \in Callers : q # p => control'[q] = control[q]
  BY <1>1, <1>2, ControlSet DEF Pcs
<1>4. ClockT' /\ RecorderT' /\ TableT' /\ BufferT' /\ ResultNumberInv'
  BY <1>1 DEF ClockT, RecorderT, TableT, BufferT, ResultNumberInv, Records, Commands
<1>5. WriterT'
  BY <1>1 DEF WriterT
<1>6. AcceptedInv'
  BY <1>1 DEF AcceptedInv, InBuffer
<1>7. CommandInv'
  BY <1>1, <1>2, <1>3 DEF CommandInv
<1>8. BarrierInv'
  BY <1>1, <1>3 DEF BarrierInv, InBuffer, Callers
<1>9. StopInv' /\ CutoffInv'
  BY <1>1, <1>2, <1>3 DEF StopInv, CutoffInv, Callers
<1> QED
  BY <1>3, <1>4, <1>5, <1>6, <1>7, <1>8, <1>9

LEMMA GiveUpStep ==
  ASSUME Parts, NEW p \in Callers, GiveUp(p)
  PROVE  Parts'
<1> USE DEF Parts
<1>1. /\ UNCHANGED <<now, given, recorder, stopCall, logStopped, buffer, cutoff, writing, table, settled, accepted,
                     before, promised, highest>>
      /\ control[p].pc \in {"locked", "sent"}
      /\ control' = [control EXCEPT ![p].pc = IF @ = "sent" THEN "left" ELSE "idle"]
  BY DEF GiveUp
<1> DEFINE pc == IF control[p].pc = "sent" THEN "left" ELSE "idle"
<1>2. control' = [control EXCEPT ![p] = [pc |-> pc, at |-> control[p].at]] /\ control[p].at \in 0..now
  BY <1>1, ControlPc
<1>3. /\ ControlT' /\ control'[p].pc = pc /\ control'[p].at = control[p].at
      /\ \A q \in Callers : q # p => control'[q] = control[q]
  BY <1>1, <1>2, ControlSet DEF Pcs
<1>4. ClockT' /\ RecorderT' /\ TableT' /\ BufferT' /\ ResultNumberInv'
  BY <1>1 DEF ClockT, RecorderT, TableT, BufferT, ResultNumberInv, Records, Commands
<1>5. WriterT'
  BY <1>1 DEF WriterT
<1>6. AcceptedInv'
  BY <1>1 DEF AcceptedInv, InBuffer
<1>7. CommandInv'
  BY <1>1, <1>3 DEF CommandInv
<1>8. BarrierInv'
  BY <1>1, <1>3 DEF BarrierInv, InBuffer, Callers
<1>9. StopInv'
  <2>1. \A q \in Callers : control'[q].pc = "locked" => control[q].pc = "locked"
    BY <1>3
  <2> QED
    BY <1>1, <2>1 DEF StopInv
<1>10. CutoffInv'
  BY <1>1, <1>3 DEF CutoffInv, Callers
<1> QED
  BY <1>3, <1>4, <1>5, <1>6, <1>7, <1>8, <1>9, <1>10

LEMMA SendStep ==
  ASSUME Parts, NEW p \in Callers, Send(p)
  PROVE  Parts'
<1> USE DEF Parts
<1> DEFINE cmd == Command(KindOf(p), p, [id |-> 0, at |-> control[p].at])
<1>1. /\ UNCHANGED <<now, given, recorder, stopCall, logStopped, cutoff, writing, table, settled, accepted, before,
                     promised, highest>>
      /\ control[p].pc = "locked" /\ Room /\ buffer' = Append(buffer, cmd)
      /\ control' = [control EXCEPT ![p].pc = "sent"]
  BY DEF Send, KindOf
<1>2. control' = [control EXCEPT ![p] = [pc |-> "sent", at |-> control[p].at]] /\ control[p].at \in 0..now
  BY <1>1, ControlPc
<1>3. /\ ControlT' /\ control'[p].pc = "sent" /\ control'[p].at = control[p].at
      /\ \A q \in Callers : q # p => control'[q] = control[q]
  BY <1>1, <1>2, ControlSet DEF Pcs
<1>4. /\ cmd \in Commands /\ cmd.kind = KindOf(p) /\ cmd.who = p /\ cmd.record.at = control[p].at
      /\ KindOf(p) \in {"clear", "barrier"}
  <2>1. [id |-> 0, at |-> control[p].at] \in Records
    BY <1>2 DEF Records, ClockT
  <2> QED
    BY <2>1 DEF Command, Commands, KindOf, Callers
<1> HIDE DEF cmd
<1>5. /\ BufferT' /\ Len(buffer) \in Nat /\ Len(buffer') = Len(buffer) + 1
      /\ DOMAIN buffer = 1..Len(buffer) /\ DOMAIN buffer' = 1..(Len(buffer) + 1)
      /\ \A i \in 1..Len(buffer) : buffer'[i] = buffer[i]
      /\ buffer'[Len(buffer) + 1] = cmd
  BY <1>1, <1>4, Appended
<1>6. \A k, end : end \in 1..(Len(buffer) + 1) /\ InBuffer(k, end) =>
        InBuffer(k, end)' /\ InBuffer(k, Len(buffer) + 1)'
  BY <1>1, <1>4, AheadAppended
<1>7. ClockT' /\ RecorderT' /\ TableT'
  BY <1>1 DEF ClockT, RecorderT, TableT, Records
<1>8. WriterT'
  BY <1>1 DEF WriterT
<1>9. ResultNumberInv'
  BY <1>1, <1>4, <1>5 DEF ResultNumberInv
<1>10. AcceptedInv'
  <2>1. Len(buffer) + 1 \in 1..(Len(buffer) + 1)
    BY <1>5
  <2> QED
    BY <1>1, <1>6, <2>1 DEF AcceptedInv
<1>11. \A i \in DOMAIN buffer : buffer[i].kind \in {"clear", "barrier"} => buffer[i].who # p
  BY <1>1 DEF CommandInv
<1>12. CommandInv'
  <2>1. ASSUME NEW i \in DOMAIN buffer', buffer'[i].kind \in {"clear", "barrier"}
        PROVE  /\ buffer'[i].who \in Callers /\ buffer'[i].kind = KindOf(buffer'[i].who)
               /\ control'[buffer'[i].who].pc \in {"sent", "left"}
               /\ control'[buffer'[i].who].at = buffer'[i].record.at
               /\ \A j \in DOMAIN buffer' :
                    buffer'[j].kind \in {"clear", "barrier"} /\ buffer'[j].who = buffer'[i].who => j = i
    <3>1. CASE i = Len(buffer) + 1
      BY <1>3, <1>4, <1>5, <1>11, <3>1
    <3>2. CASE i \in DOMAIN buffer
      BY <1>3, <1>4, <1>5, <1>11, <2>1, <3>2 DEF CommandInv
    <3> QED
      BY <1>5, <3>1, <3>2
  <2>2. ASSUME NEW q \in Callers, control'[q].pc \in {"sent", "left"}
        PROVE  \E i \in DOMAIN buffer' : buffer'[i].kind = KindOf(q) /\ buffer'[i].who = q
    <3>1. CASE q = p
      BY <1>4, <1>5, <3>1
    <3>2. CASE q # p
      BY <1>3, <1>5, <2>2, <3>2 DEF CommandInv
    <3> QED
      BY <3>1, <3>2
  <2> QED
    BY <2>1, <2>2 DEF CommandInv, KindOf
<1>13. BarrierInv'
  <2>1. ASSUME NEW f \in Flushers
        PROVE  control'[f].pc \in {"begun", "locked"} => before'[f] \subseteq accepted'
    BY <1>1, <1>3 DEF BarrierInv, Callers
  <2>2. ASSUME NEW f \in Flushers, NEW i \in DOMAIN buffer',
               buffer'[i].kind = "barrier" /\ buffer'[i].who = f, NEW id \in before'[f]
        PROVE  id \in settled \/ InBuffer(id, i)'
    <3>1. CASE i \in DOMAIN buffer
      BY <1>1, <1>5, <1>6, <2>2, <3>1 DEF BarrierInv
    <3>2. CASE i = Len(buffer) + 1
      <4>1. id \in accepted
        BY <1>1, <1>4, <1>5, <2>2, <3>2 DEF BarrierInv
      <4>2. id \in settled \/ InBuffer(id, Len(buffer) + 1)
        BY <4>1 DEF AcceptedInv
      <4> QED
        BY <1>5, <1>6, <3>2, <4>2
    <3> QED
      BY <1>5, <3>1, <3>2
  <2>3. ASSUME NEW f \in Flushers
        PROVE  control'[f].pc = "answered" => before'[f] \subseteq settled'
    BY <1>1, <1>3 DEF BarrierInv, Callers
  <2> QED
    BY <1>1, <2>1, <2>2, <2>3 DEF BarrierInv
<1>14. StopInv'
  <2>1. ~logStopped /\ writing /\ \A i \in DOMAIN buffer : buffer[i].kind # "stop"
    BY <1>1 DEF StopInv
  <2>2. \A i \in DOMAIN buffer' : buffer'[i].kind # "stop"
    BY <1>4, <1>5, <2>1
  <2> QED
    BY <1>1, <2>1, <2>2 DEF StopInv
<1>15. CutoffInv'
  BY <1>1, <1>3 DEF CutoffInv, Callers
<1> QED
  BY <1>3, <1>5, <1>7, <1>8, <1>9, <1>10, <1>12, <1>13, <1>14, <1>15

LEMMA ReturnStep ==
  ASSUME Parts, NEW p \in Callers, Return(p)
  PROVE  Parts'
<1> USE DEF Parts
<1>1. /\ UNCHANGED <<now, given, recorder, stopCall, logStopped, buffer, cutoff, writing, settled, accepted, before,
                     highest>>
      /\ control[p].pc = "answered" /\ control' = [control EXCEPT ![p] = [pc |-> "idle", at |-> 0]]
      /\ table' \subseteq table
      /\ promised' = IF p \in LogClearers /\ control[p].at > promised THEN control[p].at ELSE promised
  BY DEF Return, Rest
<1>2. /\ ControlT' /\ control'[p].pc = "idle"
      /\ \A q \in Callers : q # p => control'[q] = control[q]
  <2>1. 0 \in 0..now /\ "idle" \in Pcs
    BY DEF ClockT, Pcs
  <2> QED
    BY <1>1, <2>1, ControlSet
<1>3. promised' \in 0..now /\ promised' <= highest
  BY <1>1 DEF CutoffInv, WriterT, ControlT
<1>4. ClockT' /\ RecorderT' /\ TableT' /\ BufferT' /\ ResultNumberInv'
  BY <1>1 DEF ClockT, RecorderT, TableT, BufferT, ResultNumberInv, Records, Commands
<1>5. WriterT'
  BY <1>1, <1>3 DEF WriterT
<1>6. AcceptedInv'
  BY <1>1 DEF AcceptedInv, InBuffer
<1>7. CommandInv'
  BY <1>1, <1>2 DEF CommandInv
<1>8. BarrierInv'
  BY <1>1, <1>2 DEF BarrierInv, InBuffer, Callers
<1>9. StopInv' /\ CutoffInv'
  BY <1>1, <1>2, <1>3 DEF StopInv, CutoffInv, Callers
<1> QED
  BY <1>2, <1>4, <1>5, <1>6, <1>7, <1>8, <1>9
-----------------------------------------------------------------------------
\* The writer

\* What is left in the channel behind the command received was there one place further back;
\* a command of a caller is gone from it.
LEMMA ReceivedStep ==
  ASSUME Parts, NEW kind, Receive(kind),
         UNCHANGED <<now, given, recorder, accepted, before>>, settled \subseteq settled',
         kind = "record" => Head(buffer).record.id \in settled'
  PROVE  /\ ClockT' /\ RecorderT' /\ BufferT' /\ ResultNumberInv' /\ AcceptedInv'
         /\ writing /\ Head(buffer) \in Commands /\ Head(buffer) = buffer[1] /\ 1 \in DOMAIN buffer
         /\ Head(buffer).kind = kind
         /\ Len(buffer) \in Nat \ {0} /\ Len(buffer') = Len(buffer) - 1
         /\ DOMAIN buffer = 1..Len(buffer) /\ DOMAIN buffer' = 1..(Len(buffer) - 1)
         /\ \A i \in DOMAIN buffer' : i + 1 \in DOMAIN buffer /\ i + 1 # 1 /\ buffer'[i] = buffer[i + 1]
         /\ \A i \in DOMAIN buffer : i # 1 => \E j \in DOMAIN buffer' : buffer'[j] = buffer[i]
         /\ \A f \in Flushers, i \in DOMAIN buffer' :
              buffer'[i].kind = "barrier" /\ buffer'[i].who = f =>
                \A id \in before'[f] : id \in settled' \/ InBuffer(id, i)'
<1> USE DEF Parts
<1>1. /\ BufferT' /\ Len(buffer) \in Nat \ {0} /\ Len(buffer') = Len(buffer) - 1
      /\ DOMAIN buffer = 1..Len(buffer) /\ DOMAIN buffer' = 1..(Len(buffer) - 1)
      /\ Head(buffer) = buffer[1] /\ Head(buffer) \in Commands /\ Head(buffer).kind = kind
      /\ \A i \in DOMAIN buffer' : buffer'[i] = buffer[i + 1]
      /\ writing
  BY Received
<1>2. \A i \in DOMAIN buffer' : i + 1 \in DOMAIN buffer /\ i + 1 # 1 /\ buffer'[i] = buffer[i + 1]
  BY <1>1
<1>3. ASSUME NEW i \in DOMAIN buffer, i # 1 PROVE \E j \in DOMAIN buffer' : buffer'[j] = buffer[i]
  <2>1. i - 1 \in DOMAIN buffer' /\ buffer'[i - 1] = buffer[(i - 1) + 1] /\ (i - 1) + 1 = i
    BY <1>1, <1>3
  <2> QED
    BY <2>1
<1>4. ClockT' /\ RecorderT'
  BY DEF ClockT, RecorderT, Records
<1>5. ResultNumberInv'
  BY <1>2 DEF ResultNumberInv
<1>6. ASSUME NEW id, NEW end \in 1..(Len(buffer) + 1), InBuffer(id, end)
      PROVE  id \in settled' \/ (end - 1 \in 1..(Len(buffer') + 1) /\ InBuffer(id, end - 1)')
  BY <1>6, <1>1, AheadReceived
<1>7. AcceptedInv'
  <2>1. ASSUME NEW id \in accepted, id \notin settled' PROVE InBuffer(id, Len(buffer) + 1)'
    <3>1. PICK end : end = Len(buffer) + 1
      OBVIOUS
    <3>2. InBuffer(id, end)
      BY <2>1, <3>1 DEF AcceptedInv
    <3>3. InBuffer(id, end - 1)' /\ end - 1 = Len(buffer') + 1 /\ end \in 1..(Len(buffer) + 1)
      BY <1>1, <1>6, <2>1, <3>1, <3>2
    <3> QED
      BY <3>3 DEF InBuffer
  <2> QED
    BY <2>1 DEF AcceptedInv
<1>8. ASSUME NEW f \in Flushers, NEW i \in DOMAIN buffer', buffer'[i].kind = "barrier" /\ buffer'[i].who = f,
             NEW id \in before'[f]
      PROVE  id \in settled' \/ InBuffer(id, i)'
  <2>1. id \in settled \/ InBuffer(id, i + 1)
    BY <1>2, <1>8 DEF BarrierInv
  <2>2. CASE InBuffer(id, i + 1)
    <3>1. PICK end : end = i + 1
      OBVIOUS
    <3>2. end \in 1..(Len(buffer) + 1) /\ end - 1 = i
      BY <1>1, <3>1
    <3> QED
      BY <1>6, <2>2, <3>1, <3>2
  <2> QED
    BY <2>1, <2>2
<1> QED
  BY <1>1, <1>2, <1>3, <1>4, <1>5, <1>7, <1>8

\* The stop command moves up with the others and stays the last one.
LEMMA StopBehind ==
  ASSUME StopInv, Len(buffer) \in Nat \ {0}, Len(buffer') = Len(buffer) - 1,
         DOMAIN buffer' = 1..(Len(buffer) - 1),
         \A i \in DOMAIN buffer' : i + 1 \in DOMAIN buffer /\ i + 1 # 1 /\ buffer'[i] = buffer[i + 1]
  PROVE  \A i \in DOMAIN buffer' : buffer'[i].kind = "stop" =>
           i = Len(buffer') /\ stopCall \in {"sent", "given up"}
<1> SUFFICES ASSUME NEW i \in DOMAIN buffer', buffer'[i].kind = "stop"
             PROVE  i = Len(buffer') /\ stopCall \in {"sent", "given up"}
  OBVIOUS
<1>1. i + 1 \in DOMAIN buffer /\ buffer[i + 1].kind = "stop"
  OBVIOUS
<1>2. i + 1 = Len(buffer) /\ stopCall \in {"sent", "given up"}
  BY <1>1 DEF StopInv
<1>3. PICK n : n = Len(buffer)
  OBVIOUS
<1>5. n \in Nat /\ Len(buffer') = n - 1 /\ i \in 1..(n - 1) /\ i + 1 = n
  BY <1>2, <1>3
<1>4. i = Len(buffer')
  BY <1>5
<1> QED
  BY <1>2, <1>4

LEMMA WriteRecordStep ==
  ASSUME Parts, WriteRecord
  PROVE  Parts'
<1> USE DEF Parts
<1> DEFINE rec == Head(buffer).record
<1>1. /\ Receive("record") /\ settled' = settled \cup {rec.id}
      /\ UNCHANGED <<now, given, recorder, control, stopCall, logStopped, cutoff, writing, accepted, before, promised, highest>>
      /\ table' = table \/ (rec.at > cutoff /\ table' = table \cup {rec})
  BY DEF WriteRecord
<1>2. /\ ClockT' /\ RecorderT' /\ BufferT' /\ ResultNumberInv' /\ AcceptedInv'
      /\ writing /\ Head(buffer) \in Commands /\ Head(buffer) = buffer[1] /\ 1 \in DOMAIN buffer
      /\ Head(buffer).kind = "record"
      /\ Len(buffer) \in Nat \ {0} /\ Len(buffer') = Len(buffer) - 1
      /\ DOMAIN buffer = 1..Len(buffer) /\ DOMAIN buffer' = 1..(Len(buffer) - 1)
      /\ \A i \in DOMAIN buffer' : i + 1 \in DOMAIN buffer /\ i + 1 # 1 /\ buffer'[i] = buffer[i + 1]
      /\ \A i \in DOMAIN buffer : i # 1 => \E j \in DOMAIN buffer' : buffer'[j] = buffer[i]
      /\ \A f \in Flushers, i \in DOMAIN buffer' :
           buffer'[i].kind = "barrier" /\ buffer'[i].who = f =>
             \A id \in before'[f] : id \in settled' \/ InBuffer(id, i)'
  BY <1>1, ReceivedStep
<1>3. rec \in Records /\ rec.id \in 1..given
  BY <1>2 DEF ResultNumberInv, Commands, Records, ClockT
<1> HIDE DEF rec
<1>4. WriterT' /\ TableT' /\ ControlT' /\ CutoffInv'
  <2>1. WriterT'
    BY <1>1, <1>3 DEF WriterT
  <2>2. TableT' /\ ControlT'
    BY <1>1, <1>3 DEF TableT, ControlT, Records
  <2>3. CutoffInv'
    BY <1>1 DEF CutoffInv
  <2> QED
    BY <2>1, <2>2, <2>3
<1>5. CommandInv'
  <2>1. ASSUME NEW i \in DOMAIN buffer', NEW j \in DOMAIN buffer', i + 1 = j + 1 PROVE i = j
    BY <1>2, <2>1
  <2>2. ASSUME NEW i \in DOMAIN buffer', buffer'[i].kind \in {"clear", "barrier"}
        PROVE  /\ buffer'[i].who \in Callers /\ buffer'[i].kind = KindOf(buffer'[i].who)
               /\ control'[buffer'[i].who].pc \in {"sent", "left"}
               /\ control'[buffer'[i].who].at = buffer'[i].record.at
               /\ \A j \in DOMAIN buffer' :
                    buffer'[j].kind \in {"clear", "barrier"} /\ buffer'[j].who = buffer'[i].who => j = i
    <3>1. i + 1 \in DOMAIN buffer /\ buffer'[i] = buffer[i + 1]
      BY <1>2
    <3>2. /\ buffer'[i].who \in Callers /\ buffer'[i].kind = KindOf(buffer'[i].who)
          /\ control[buffer'[i].who].pc \in {"sent", "left"}
          /\ control[buffer'[i].who].at = buffer'[i].record.at
          /\ \A j \in DOMAIN buffer :
               buffer[j].kind \in {"clear", "barrier"} /\ buffer[j].who = buffer'[i].who => j = i + 1
      BY <2>2, <3>1 DEF CommandInv
    <3>3. ASSUME NEW j \in DOMAIN buffer', buffer'[j].kind \in {"clear", "barrier"},
                 buffer'[j].who = buffer'[i].who
          PROVE  j = i
      <4>1. j + 1 \in DOMAIN buffer /\ buffer'[j] = buffer[j + 1]
        BY <1>2
      <4>2. j + 1 = i + 1
        BY <3>2, <3>3, <4>1
      <4> QED
        BY <2>1, <4>2
    <3> QED
      BY <1>1, <3>2, <3>3
  <2>3. ASSUME NEW p \in Callers, control'[p].pc \in {"sent", "left"}
        PROVE  \E i \in DOMAIN buffer' : buffer'[i].kind = KindOf(p) /\ buffer'[i].who = p
    <3>1. PICK i \in DOMAIN buffer : buffer[i].kind = KindOf(p) /\ buffer[i].who = p
      BY <1>1, <2>3 DEF CommandInv
    <3>2. i # 1
      BY <1>2, <3>1 DEF KindOf
    <3> QED
      BY <1>2, <3>1, <3>2
  <2> QED
    BY <2>2, <2>3 DEF CommandInv, KindOf
<1>6. BarrierInv'
  BY <1>1, <1>2 DEF BarrierInv
<1>7. StopInv'
  <2>1. \A i \in DOMAIN buffer' : buffer'[i].kind = "stop" =>
          i = Len(buffer') /\ stopCall \in {"sent", "given up"}
    BY <1>2, StopBehind
  <2> QED
    BY <1>1, <1>2, <2>1 DEF StopInv
<1> QED
  BY <1>2, <1>4, <1>5, <1>6, <1>7

\* The writer answers the command of a caller.
LEMMA AnswerStep ==
  ASSUME Parts, NEW kind \in {"clear", "barrier"}, Receive(kind), NEW ok \in BOOLEAN,
         Answer(Head(buffer).who, ok), kind = "barrier" => ok,
         UNCHANGED <<now, given, recorder, stopCall, logStopped, writing, settled, accepted, before>>
  PROVE  /\ ClockT' /\ RecorderT' /\ ControlT' /\ BufferT' /\ ResultNumberInv' /\ AcceptedInv'
         /\ CommandInv' /\ BarrierInv' /\ StopInv'
         /\ Head(buffer).record.at \in 0..now
         /\ \A c \in LogClearers : control'[c].pc = "answered" =>
              control'[c] = control[c] \/ (kind = "clear" /\ ok /\ control'[c].at = Head(buffer).record.at)
<1> USE DEF Parts
<1> DEFINE p == Head(buffer).who
<1>2. /\ ClockT' /\ RecorderT' /\ BufferT' /\ ResultNumberInv' /\ AcceptedInv'
      /\ writing /\ Head(buffer) \in Commands /\ Head(buffer) = buffer[1] /\ 1 \in DOMAIN buffer
      /\ Head(buffer).kind = kind
      /\ Len(buffer) \in Nat \ {0} /\ Len(buffer') = Len(buffer) - 1
      /\ DOMAIN buffer = 1..Len(buffer) /\ DOMAIN buffer' = 1..(Len(buffer) - 1)
      /\ \A i \in DOMAIN buffer' : i + 1 \in DOMAIN buffer /\ i + 1 # 1 /\ buffer'[i] = buffer[i + 1]
      /\ \A i \in DOMAIN buffer : i # 1 => \E j \in DOMAIN buffer' : buffer'[j] = buffer[i]
      /\ \A f \in Flushers, i \in DOMAIN buffer' :
           buffer'[i].kind = "barrier" /\ buffer'[i].who = f =>
             \A id \in before'[f] : id \in settled' \/ InBuffer(id, i)'
  BY ReceivedStep
<1>3. /\ p \in Callers /\ KindOf(p) = kind /\ control[p].pc \in {"sent", "left"}
      /\ control[p].at = Head(buffer).record.at
      /\ \A i \in DOMAIN buffer : buffer[i].kind \in {"clear", "barrier"} /\ buffer[i].who = p => i = 1
  BY <1>2 DEF CommandInv
<1>4. Head(buffer).record.at \in 0..now
  BY <1>2 DEF Commands, Records
<1>5. PICK pc \in {"answered", "idle"}, at \in 0..now :
        /\ control' = [control EXCEPT ![p] = [pc |-> pc, at |-> at]]
        /\ pc = "answered" => ok /\ at = control[p].at
  <2>1. CASE control[p].pc = "sent" /\ ok
    <3>1. control' = [control EXCEPT ![p] = [pc |-> "answered", at |-> control[p].at]]
      BY <1>3, <2>1, ControlPc DEF Answer
    <3> QED
      BY <1>3, <2>1, <3>1, ControlPc
  <2>2. CASE ~(control[p].pc = "sent" /\ ok)
    <3>1. control' = [control EXCEPT ![p] = Rest]
      <4>1. CASE control[p].pc = "left"
        BY <4>1 DEF Answer
      <4>2. CASE control[p].pc = "sent" /\ ~ok
        BY <4>2 DEF Answer
      <4> QED
        BY <1>3, <2>2, <4>1, <4>2
    <3>2. 0 \in 0..now
      BY DEF ClockT
    <3> QED
      BY <3>1, <3>2 DEF Rest
  <2> QED
    BY <2>1, <2>2
<1> HIDE DEF p
<1>6. /\ ControlT' /\ control'[p].pc = pc /\ control'[p].at = at
      /\ \A q \in Callers : q # p => control'[q] = control[q]
  <2>1. pc \in Pcs
    BY DEF Pcs
  <2> QED
    BY <1>3, <1>5, <2>1, ControlSet
<1>7. CommandInv'
  <2>1. ASSUME NEW i \in DOMAIN buffer', NEW j \in DOMAIN buffer', i + 1 = j + 1 PROVE i = j
    BY <1>2, <2>1
  <2>2. \A i \in DOMAIN buffer' : buffer'[i].kind \in {"clear", "barrier"} => buffer'[i].who # p
    BY <1>2, <1>3
  <2>3. ASSUME NEW i \in DOMAIN buffer', buffer'[i].kind \in {"clear", "barrier"}
        PROVE  /\ buffer'[i].who \in Callers /\ buffer'[i].kind = KindOf(buffer'[i].who)
               /\ control'[buffer'[i].who].pc \in {"sent", "left"}
               /\ control'[buffer'[i].who].at = buffer'[i].record.at
               /\ \A j \in DOMAIN buffer' :
                    buffer'[j].kind \in {"clear", "barrier"} /\ buffer'[j].who = buffer'[i].who => j = i
    <3>1. i + 1 \in DOMAIN buffer /\ buffer'[i] = buffer[i + 1]
      BY <1>2
    <3>2. /\ buffer'[i].who \in Callers /\ buffer'[i].kind = KindOf(buffer'[i].who)
          /\ control[buffer'[i].who].pc \in {"sent", "left"}
          /\ control[buffer'[i].who].at = buffer'[i].record.at
          /\ \A j \in DOMAIN buffer :
               buffer[j].kind \in {"clear", "barrier"} /\ buffer[j].who = buffer'[i].who => j = i + 1
      BY <2>3, <3>1 DEF CommandInv
    <3>3. ASSUME NEW j \in DOMAIN buffer', buffer'[j].kind \in {"clear", "barrier"},
                 buffer'[j].who = buffer'[i].who
          PROVE  j = i
      <4>1. j + 1 \in DOMAIN buffer /\ buffer'[j] = buffer[j + 1]
        BY <1>2
      <4>2. j + 1 = i + 1
        BY <3>2, <3>3, <4>1
      <4> QED
        BY <2>1, <4>2
    <3>4. control'[buffer'[i].who] = control[buffer'[i].who]
      BY <1>6, <2>2, <2>3, <3>2
    <3> QED
      BY <3>2, <3>3, <3>4
  <2>4. ASSUME NEW q \in Callers, control'[q].pc \in {"sent", "left"}
        PROVE  \E i \in DOMAIN buffer' : buffer'[i].kind = KindOf(q) /\ buffer'[i].who = q
    <3>1. q # p /\ control'[q] = control[q]
      BY <1>6, <2>4
    <3>2. PICK i \in DOMAIN buffer : buffer[i].kind = KindOf(q) /\ buffer[i].who = q
      BY <2>4, <3>1 DEF CommandInv
    <3>3. i # 1
      BY <1>2, <3>1, <3>2 DEF p
    <3> QED
      BY <1>2, <3>2, <3>3
  <2> QED
    BY <2>3, <2>4 DEF CommandInv, KindOf
<1>8. BarrierInv'
  <2>1. \A f \in Flushers : control'[f].pc \in {"begun", "locked"} => before[f] \subseteq accepted
    BY <1>6 DEF BarrierInv, Callers
  <2>2. \A f \in Flushers : control'[f].pc = "answered" => before[f] \subseteq settled
    <3>1. ASSUME p \in Flushers PROVE before[p] \subseteq settled
      <4>1. kind = "barrier"
        BY <1>3, <3>1, ResultSizes DEF KindOf
      <4>2. \A id \in before[p] : id \in settled \/ InBuffer(id, 1)
        BY <1>2, <3>1, <4>1 DEF BarrierInv, p
      <4> QED
        BY <4>2 DEF InBuffer
    <3> QED
      BY <1>6, <3>1 DEF BarrierInv, Callers
  <2> QED
    BY <1>2, <2>1, <2>2 DEF BarrierInv
<1>9. StopInv'
  <2>1. \A q \in Callers : control'[q].pc = "locked" => control[q].pc = "locked"
    BY <1>6
  <2>2. \A i \in DOMAIN buffer' : buffer'[i].kind = "stop" =>
          i = Len(buffer') /\ stopCall \in {"sent", "given up"}
    BY <1>2, StopBehind
  <2> QED
    BY <1>2, <2>1, <2>2 DEF StopInv
<1>10. \A c \in LogClearers : control'[c].pc = "answered" =>
         control'[c] = control[c] \/ (kind = "clear" /\ ok /\ control'[c].at = Head(buffer).record.at)
  BY <1>3, <1>5, <1>6 DEF Callers, KindOf
<1> QED
  BY <1>2, <1>4, <1>6, <1>7, <1>8, <1>9, <1>10

LEMMA WriteClearStep ==
  ASSUME Parts, WriteClear
  PROVE  Parts'
<1> USE DEF Parts
<1> DEFINE at == Head(buffer).record.at
<1>1. /\ Receive("clear")
      /\ UNCHANGED <<now, given, recorder, stopCall, logStopped, writing, settled, accepted, before, promised>>
      /\ highest' = IF cutoff' > highest THEN cutoff' ELSE highest
  BY DEF WriteClear
<1>2. PICK ok \in BOOLEAN :
        /\ cutoff' = IF ok THEN at ELSE cutoff
        /\ table' = IF ok THEN {rec \in table : rec.at > at} ELSE table
        /\ Answer(Head(buffer).who, ok)
  BY DEF WriteClear
<1>3. /\ ClockT' /\ RecorderT' /\ ControlT' /\ BufferT' /\ ResultNumberInv' /\ AcceptedInv'
      /\ CommandInv' /\ BarrierInv' /\ StopInv' /\ at \in 0..now
      /\ \A c \in LogClearers : control'[c].pc = "answered" =>
           control'[c] = control[c] \/ (ok /\ control'[c].at = at)
  BY <1>1, <1>2, AnswerStep
<1> HIDE DEF at
<1>4. /\ now \in Nat /\ cutoff \in 0..now /\ highest \in 0..now /\ promised \in 0..now
      /\ cutoff <= highest /\ promised <= highest
  <2>1. now \in Nat
    BY ResultSizes DEF ClockT
  <2>2. cutoff \in 0..now /\ highest \in 0..now /\ promised \in 0..now
    BY DEF WriterT
  <2>3. cutoff <= highest /\ promised <= highest
    BY DEF CutoffInv
  <2> QED
    BY <2>1, <2>2, <2>3
<1>5. cutoff' \in 0..now /\ (ok => cutoff' = at)
  BY <1>4, <1>2, <1>3
<1>6. /\ cutoff' \in 0..now /\ highest' \in 0..now /\ cutoff' <= highest' /\ highest <= highest'
      /\ ok => at <= highest'
  BY <1>4, <1>1, <1>3, <1>5
<1>7. WriterT'
  BY <1>1, <1>6 DEF WriterT
<1>8. TableT'
  BY <1>1, <1>2 DEF TableT, Records
<1>9. CutoffInv'
  <2>1. \A rec \in table' : rec.at > cutoff'
    <3>1. CASE ok
      BY <1>2, <3>1
    <3>2. CASE ~ok
      BY <1>2, <3>2 DEF CutoffInv
    <3> QED
      BY <3>1, <3>2
  <2>2. \A c \in LogClearers : control[c].at \in 0..now
    BY ControlPc DEF Callers
  <2>3. \A c \in LogClearers : control[c].pc = "answered" => control[c].at <= highest
    BY DEF CutoffInv
  <2>4. ASSUME NEW c \in LogClearers, control'[c].pc = "answered" PROVE control'[c].at <= highest'
    <3>1. CASE control'[c] = control[c]
      <4>1. control[c].at \in 0..now /\ control[c].at <= highest
        BY <2>2, <2>3, <2>4, <3>1
      <4> QED
        BY <1>4, <1>6, <3>1, <4>1
    <3>2. CASE ok /\ control'[c].at = at
      BY <1>6, <3>2
    <3> QED
      BY <1>3, <2>4, <3>1, <3>2
  <2>5. promised' <= highest'
    BY <1>4, <1>1, <1>6
  <2> QED
    BY <1>6, <2>1, <2>4, <2>5 DEF CutoffInv
<1> QED
  BY <1>3, <1>7, <1>8, <1>9

LEMMA PassBarrierStep ==
  ASSUME Parts, PassBarrier
  PROVE  Parts'
<1> USE DEF Parts
<1>1. /\ Receive("barrier") /\ Answer(Head(buffer).who, TRUE)
      /\ UNCHANGED <<now, given, recorder, stopCall, logStopped, cutoff, writing, table, settled, accepted, before, promised, highest>>
  BY DEF PassBarrier
<1>2. /\ ClockT' /\ RecorderT' /\ ControlT' /\ BufferT' /\ ResultNumberInv' /\ AcceptedInv'
      /\ CommandInv' /\ BarrierInv' /\ StopInv'
      /\ \A c \in LogClearers : control'[c].pc = "answered" => control'[c] = control[c]
  BY <1>1, AnswerStep
<1>3. WriterT' /\ TableT'
  BY <1>1 DEF WriterT, TableT, Records
<1>4. CutoffInv'
  BY <1>1, <1>2 DEF CutoffInv
<1> QED
  BY <1>2, <1>3, <1>4

LEMMA WriterStopsStep ==
  ASSUME Parts, WriterStops
  PROVE  Parts'
<1> USE DEF Parts
<1>1. /\ Receive("stop") /\ writing' = FALSE
      /\ stopCall' = IF stopCall = "sent" THEN "done" ELSE stopCall
      /\ UNCHANGED <<now, given, recorder, control, logStopped, cutoff, table, settled, accepted, before, promised, highest>>
  BY DEF WriterStops
<1>2. /\ ClockT' /\ RecorderT' /\ BufferT' /\ ResultNumberInv' /\ AcceptedInv'
      /\ Head(buffer) = buffer[1] /\ 1 \in DOMAIN buffer /\ Head(buffer).kind = "stop"
      /\ Len(buffer) \in Nat \ {0} /\ Len(buffer') = Len(buffer) - 1
      /\ DOMAIN buffer = 1..Len(buffer) /\ DOMAIN buffer' = 1..(Len(buffer) - 1)
      /\ \A i \in DOMAIN buffer : i # 1 => \E j \in DOMAIN buffer' : buffer'[j] = buffer[i]
  BY <1>1, ReceivedStep
<1>3. Len(buffer) = 1 /\ stopCall \in {"sent", "given up"} /\ logStopped
  BY <1>2 DEF StopInv
<1>4. DOMAIN buffer' = {} /\ buffer' = <<>>
  <2>1. Len(buffer') = 0 /\ DOMAIN buffer' = {}
    <3> PICK n : n = Len(buffer)
      OBVIOUS
    <3>1. n = 1 /\ Len(buffer') = n - 1 /\ DOMAIN buffer' = 1..(n - 1)
      BY <1>2, <1>3
    <3> QED
      BY <3>1
  <2>2. PICK S : buffer' \in Seq(S)
    BY <1>2 DEF BufferT
  <2> QED
    BY <2>1, <2>2, EmptySeq
<1>5. ASSUME NEW p \in Callers PROVE control[p].pc \notin {"sent", "left"}
  <2> SUFFICES ASSUME control[p].pc \in {"sent", "left"} PROVE FALSE
    OBVIOUS
  <2>1. PICK i \in DOMAIN buffer : buffer[i].kind = KindOf(p)
    BY DEF CommandInv
  <2>2. i = 1
    <3>1. i \in 1..1
      BY <1>2, <1>3
    <3> QED
      BY <3>1
  <2> QED
    BY <1>2, <2>1, <2>2 DEF KindOf
<1>6. ControlT' /\ WriterT' /\ TableT' /\ CutoffInv'
  BY <1>1 DEF ControlT, WriterT, TableT, Records, CutoffInv
<1>7. CommandInv'
  BY <1>1, <1>4, <1>5 DEF CommandInv
<1>8. BarrierInv'
  BY <1>1, <1>4 DEF BarrierInv
<1>9. StopInv'
  <2>1. stopCall' \in {"done", "given up"} /\ logStopped'
    BY <1>1, <1>3
  <2> QED
    BY <1>1, <1>4, <2>1 DEF StopInv
<1> QED
  BY <1>2, <1>6, <1>7, <1>8, <1>9

-----------------------------------------------------------------------------
\* Stop

LEMMA StopStep ==
  ASSUME Parts, StopLock \/ StopSend \/ StopGivesUp
  PROVE  Parts'
<1> USE DEF Parts
<1>1. /\ UNCHANGED <<now, given, recorder, control, cutoff, writing, table, settled, accepted, before, promised, highest>>
      /\ logStopped' \in BOOLEAN /\ stopCall' \in {"locked", "sent", "given up"}
  BY DEF StopLock, StopSend, StopGivesUp, WriterT
<1>2. ClockT' /\ RecorderT' /\ ControlT' /\ TableT' /\ CutoffInv'
  BY <1>1 DEF ClockT, RecorderT, ControlT, TableT, Records, CutoffInv
<1>3. WriterT'
  BY <1>1 DEF WriterT
<1>4. CASE buffer' = buffer
  <2>1. BufferT' /\ ResultNumberInv' /\ AcceptedInv'
    BY <1>1, <1>4 DEF BufferT, Commands, Records, ResultNumberInv, AcceptedInv, InBuffer
  <2>2. CommandInv'
    BY <1>1, <1>4 DEF CommandInv
  <2>3. BarrierInv'
    <3>1. \A id, end : InBuffer(id, end)' <=> InBuffer(id, end)
      BY <1>4 DEF InBuffer
    <3> QED
      BY <1>1, <1>4, <3>1 DEF BarrierInv
  <2>4. StopInv'
    <3>1. CASE StopLock
      BY <1>1, <1>4, <3>1 DEF StopLock, StopInv, ReadLocked, Callers
    <3>2. CASE StopGivesUp
      <4>1. stopCall' = "given up" /\ stopCall # "no" /\ logStopped' = logStopped
        BY <3>2 DEF StopGivesUp
      <4> QED
        BY <1>1, <1>4, <4>1 DEF StopInv
    <3>3. CASE StopSend
      <4>1. Len(buffer) \in Nat /\ buffer \in Seq(Commands)
        BY LenProperties DEF BufferT
      <4>2. buffer' = Append(buffer, Command("stop", "stop", NoRecord))
        BY <3>3 DEF StopSend
      <4>3. Command("stop", "stop", NoRecord) \in Commands
        BY DEF Command, Commands, NoRecord, Records, ClockT
      <4>4. Len(buffer') = Len(buffer) + 1
        BY <4>1, <4>2, <4>3, AppendProperties
      <4> QED
        BY <1>4, <4>1, <4>4
    <3> QED
      BY <3>1, <3>2, <3>3
  <2> QED
    BY <1>2, <1>3, <2>1, <2>2, <2>4, <2>3
<1>5. CASE StopSend
  <2> DEFINE cmd == Command("stop", "stop", NoRecord)
  <2>1. /\ stopCall = "locked" /\ Room /\ buffer' = Append(buffer, cmd) /\ stopCall' = "sent" /\ logStopped' = logStopped
    BY <1>5 DEF StopSend
  <2>2. cmd \in Commands /\ cmd.kind = "stop"
    BY DEF Command, Commands, NoRecord, Records, ClockT
  <2> HIDE DEF cmd
  <2>3. /\ BufferT' /\ Len(buffer) \in Nat /\ Len(buffer') = Len(buffer) + 1
        /\ DOMAIN buffer = 1..Len(buffer) /\ DOMAIN buffer' = 1..(Len(buffer) + 1)
        /\ \A i \in 1..Len(buffer) : buffer'[i] = buffer[i]
        /\ buffer'[Len(buffer) + 1] = cmd
    BY <1>1, <2>1, <2>2, Appended
  <2>4. \A k, end : end \in 1..(Len(buffer) + 1) /\ InBuffer(k, end) =>
          InBuffer(k, end)' /\ InBuffer(k, Len(buffer) + 1)'
    BY <1>1, <2>1, <2>2, AheadAppended
  <2>5. \A i \in DOMAIN buffer' : buffer'[i].kind # "stop" =>
           i \in DOMAIN buffer /\ i \in 1..(Len(buffer) + 1) /\ buffer'[i] = buffer[i]
    BY <2>2, <2>3
  <2>6. ResultNumberInv'
    <3>1. \A i \in DOMAIN buffer' : buffer'[i].kind = "record" => buffer'[i].record.id # 0
      BY <2>5 DEF ResultNumberInv
    <3> QED
      BY <1>1, <3>1 DEF ResultNumberInv
  <2>7. AcceptedInv'
    <3>1. Len(buffer) + 1 \in 1..(Len(buffer) + 1)
      BY <2>3
    <3> QED
      BY <1>1, <2>4, <3>1 DEF AcceptedInv
  <2>8. CommandInv'
    <3>1. \A i \in DOMAIN buffer : i \in DOMAIN buffer' /\ buffer'[i] = buffer[i]
      BY <2>3
    <3>2. ASSUME NEW i \in DOMAIN buffer', buffer'[i].kind \in {"clear", "barrier"}
          PROVE  /\ buffer'[i].who \in Callers /\ buffer'[i].kind = KindOf(buffer'[i].who)
                 /\ control[buffer'[i].who].pc \in {"sent", "left"}
                 /\ control[buffer'[i].who].at = buffer'[i].record.at
                 /\ \A j \in DOMAIN buffer' :
                      buffer'[j].kind \in {"clear", "barrier"} /\ buffer'[j].who = buffer'[i].who => j = i
      <4>1. i \in DOMAIN buffer /\ buffer'[i] = buffer[i]
        BY <2>5, <3>2
      <4>2. \A j \in DOMAIN buffer' : buffer'[j].kind \in {"clear", "barrier"} =>
              j \in DOMAIN buffer /\ buffer'[j] = buffer[j]
        BY <2>5
      <4> QED
        BY <3>2, <4>1, <4>2 DEF CommandInv
    <3>3. ASSUME NEW q \in Callers, control[q].pc \in {"sent", "left"}
          PROVE  \E i \in DOMAIN buffer' : buffer'[i].kind = KindOf(q) /\ buffer'[i].who = q
      BY <3>1, <3>3 DEF CommandInv
    <3> QED
      BY <1>1, <3>2, <3>3 DEF CommandInv, KindOf
  <2>9. BarrierInv'
    <3>1. ASSUME NEW f \in Flushers, NEW i \in DOMAIN buffer',
                 buffer'[i].kind = "barrier" /\ buffer'[i].who = f, NEW id \in before[f]
          PROVE  id \in settled \/ InBuffer(id, i)'
      <4>1. i \in DOMAIN buffer /\ i \in 1..(Len(buffer) + 1) /\ buffer'[i] = buffer[i]
        BY <2>5, <3>1
      <4>2. id \in settled \/ InBuffer(id, i)
        BY <3>1, <4>1 DEF BarrierInv
      <4> QED
        BY <2>4, <4>1, <4>2
    <3>2. \A f \in Flushers :
            /\ control[f].pc \in {"begun", "locked"} => before[f] \subseteq accepted
            /\ control[f].pc = "answered" => before[f] \subseteq settled
      BY DEF BarrierInv
    <3> QED
      BY <1>1, <3>1, <3>2 DEF BarrierInv
  <2>10. StopInv'
    <3>1. logStopped /\ writing /\ \A i \in DOMAIN buffer : buffer[i].kind # "stop"
      BY <2>1 DEF StopInv
    <3>2. \A i \in DOMAIN buffer' : buffer'[i].kind = "stop" => i = Len(buffer')
      BY <2>2, <2>3, <3>1
    <3> QED
      BY <1>1, <2>1, <3>1, <3>2 DEF StopInv
  <2> QED
    BY <1>2, <1>3, <2>3, <2>6, <2>7, <2>8, <2>9, <2>10
<1> QED
  BY <1>4, <1>5 DEF StopLock, StopGivesUp

-----------------------------------------------------------------------------
\* The invariant

LEMMA NextResultIInv == ResultIInv /\ [ResultNext]_resultVars => ResultIInv'
<1> SUFFICES ASSUME Parts, [ResultNext]_resultVars PROVE Parts'
  <2>1. Parts <=> ResultIInv
    BY ResultTypes DEF Parts, ResultIInv
  <2>2. Parts' <=> ResultIInv'
    BY <2>1, ResultTypes, PTL DEF Parts, ResultIInv
  <2> QED
    BY <2>1, <2>2
<1>1. CASE ResultNext
  BY <1>1, FormRecordStep, TryRecordStep, ClearBeginStep, FlushBeginStep, SendLockStep, SendStep, GiveUpStep,
     ReturnStep, StopStep, WriteRecordStep, WriteClearStep, PassBarrierStep, WriterStopsStep
     DEF ResultNext, WriterStep, Callers
<1>2. CASE UNCHANGED resultVars
  <2> USE DEF Parts, resultVars
  <2>1. ClockT' /\ RecorderT' /\ ControlT' /\ WriterT' /\ TableT' /\ BufferT'
    BY <1>2 DEF ClockT, RecorderT, ControlT, WriterT, TableT, BufferT, Records, Commands
  <2>2. ResultNumberInv' /\ AcceptedInv' /\ CommandInv'
    BY <1>2 DEF ResultNumberInv, AcceptedInv, CommandInv, InBuffer
  <2>3. BarrierInv'
    BY <1>2 DEF BarrierInv, InBuffer
  <2>4. StopInv' /\ CutoffInv'
    BY <1>2 DEF StopInv, CutoffInv
  <2> QED
    BY <2>1, <2>2, <2>3, <2>4
<1> QED
  BY <1>1, <1>2

\* The invariant is inductive: what is said of the channel, of the callers that wait and of
\* the writer's cutoff holds after any step of any of them.
THEOREM ResultInvariance == ResultSpec => []ResultIInv
  BY InitResultIInv, NextResultIInv, PTL DEF ResultSpec

\* Every variable keeps its type, and the channel its size (TypeOK).
THEOREM ResultTyped == ResultSpec => []ResultTypeOK
<1>1. ResultIInv => ResultTypeOK
  BY DEF ResultIInv
<1> QED
  BY <1>1, ResultInvariance, PTL

\* Clear, Flush and Stop keep what they promise, whatever enters the channel in between
\* (CommandsKeepTheirPromise).
THEOREM PromisesKept == ResultSpec => []CommandsKeepTheirPromise
<1>1. ResultIInv => CommandsKeepTheirPromise
  <2> SUFFICES ASSUME ResultIInv PROVE CommandsKeepTheirPromise
    OBVIOUS
  <2>1. ClockT /\ WriterT /\ TableT /\ BufferT
    BY ResultTypes DEF ResultIInv
  <2>2. ClearedStaysCleared
    <3> SUFFICES ASSUME cutoff = highest, NEW rec \in table PROVE rec.at > promised
      BY DEF ClearedStaysCleared
    <3>1. rec.at \in 0..now /\ now \in Nat
      BY <2>1, ResultSizes DEF TableT, Records, ClockT
    <3>2. highest \in 0..now /\ promised \in 0..now
      BY <2>1 DEF WriterT
    <3>3. rec.at > cutoff /\ promised <= highest
      BY DEF ResultIInv, CutoffInv
    <3> QED
      BY <3>1, <3>2, <3>3
  <2>3. FlushIsABarrier
    BY DEF ResultIInv, BarrierInv, FlushIsABarrier
  <2>4. StopDrains
    <3> SUFFICES ASSUME ~writing
                 PROVE  /\ buffer = <<>> /\ accepted \subseteq settled
                        /\ \A p \in LogClearers \cup Flushers : control[p].pc # "sent"
      BY DEF StopDrains
    <3>1. buffer = <<>>
      BY DEF ResultIInv, StopInv
    <3>2. DOMAIN buffer = {} /\ Len(buffer) = 0
      BY <3>1
    <3> QED
      BY <3>1, <3>2 DEF ResultIInv, AcceptedInv, CommandInv, InBuffer, Callers
  <2> QED
    BY <2>2, <2>3, <2>4 DEF CommandsKeepTheirPromise
<1> QED
  BY <1>1, ResultInvariance, PTL
==============================================================================
