--------------------------- MODULE MailResultLog ---------------------------
(***************************************************************************)
(* The log of mail results (internal/mail/result_log.go): callers hand     *)
(* finished mails to one writer through a bounded channel, and clear,      *)
(* flush and stop travel through the same channel.                         *)
(*                                                                         *)
(* A record carries the time its mail ended, which is before the call that *)
(* hands it over; a clear carries the time it was asked for, which is      *)
(* before its command is sent.  Two readings of the clock may be equal.    *)
(***************************************************************************)
EXTENDS Naturals, Sequences

CONSTANTS
  Recorders,   \* workers and handlers that finish mails
  LogClearers,    \* requests to clear the log
  Flushers,    \* one-click resets, which flush the log first
  BufferSize,  \* ResultLogQueueSize (128)
  MaxTime,     \* bound: readings of the clock
  MaxRecords   \* bound: mails finished

ASSUME ResultAssumption ==
  /\ BufferSize \in Nat \ {0} /\ MaxTime \in Nat /\ MaxRecords \in Nat
  /\ Recorders \cap LogClearers = {} /\ Flushers \cap (Recorders \cup LogClearers) = {}

VARIABLES
  now,       \* the clock
  given,     \* records formed so far; a record is [id, at]
  recorder,  \* caller -> the record it has formed and not handed over, or NoRecord
  control,   \* clearer or flusher -> [pc, at]
  stopCall,  \* "no", "locked", "sent", "done" or "given up"
  logStopped,
  buffer,    \* the channel: a sequence of commands [kind, who, record]
  cutoff,    \* the writer's own memory of the last clear, 0 for none
  writing,   \* the writer has not left its loop
  table,     \* mail_result_logs
  settled,   \* history: ids the writer has seen or that were turned away
  accepted,  \* history: ids that entered the channel
  before,    \* history: flusher -> ids that had entered the channel when it began
  promised,  \* history: the latest time up to which a clear that returned has cleared
  highest    \* history: the latest time up to which the writer ever cleared

resultVars == <<now, given, recorder, control, stopCall, logStopped, buffer, cutoff, writing,
          table, settled, accepted, before, promised, highest>>

NoRecord == [id |-> 0, at |-> 0]
Rest == [pc |-> "idle", at |-> 0]
Command(kind, who, record) == [kind |-> kind, who |-> who, record |-> record]
Room == Len(buffer) < BufferSize

\* Readers of r.mu hold it until their command is in the channel; Stop needs it alone.
ReadLocked == \E p \in LogClearers \cup Flushers : control[p].pc = "locked"
WriteLocked == stopCall = "locked"

Tick(t) == t \in {now, now + 1} /\ t <= MaxTime /\ t > 0 /\ now' = t

-----------------------------------------------------------------------------
\* A mail ends: its record is formed ...
FormRecord(r, t) ==
  /\ recorder[r] = NoRecord
  /\ given < MaxRecords
  /\ Tick(t)
  /\ given' = given + 1
  /\ recorder' = [recorder EXCEPT ![r] = [id |-> given + 1, at |-> t]]
  /\ UNCHANGED <<control, stopCall, logStopped, buffer, cutoff, writing, table, settled, accepted, before, promised, highest>>

\* ... and handed over, or dropped when the channel is full or the service stopped.
TryRecord(r) ==
  /\ recorder[r] # NoRecord
  /\ ~WriteLocked
  /\ IF ~logStopped /\ Room
     THEN /\ buffer' = Append(buffer, Command("record", r, recorder[r]))
          /\ accepted' = accepted \cup {recorder[r].id}
          /\ UNCHANGED settled
     ELSE /\ settled' = settled \cup {recorder[r].id}
          /\ UNCHANGED <<buffer, accepted>>
  /\ recorder' = [recorder EXCEPT ![r] = NoRecord]
  /\ UNCHANGED <<now, given, control, stopCall, logStopped, cutoff, writing, table, before, promised, highest>>

-----------------------------------------------------------------------------
\* Clear and Flush

\* Clear reads the clock before anything else.
ClearBegin(c, t) ==
  /\ control[c].pc = "idle"
  /\ Tick(t)
  /\ control' = [control EXCEPT ![c] = [pc |-> "begun", at |-> t]]
  /\ UNCHANGED <<given, recorder, stopCall, logStopped, buffer, cutoff, writing, table, settled, accepted, before, promised, highest>>

FlushBegin(f) ==
  /\ control[f].pc = "idle"
  /\ control' = [control EXCEPT ![f] = [pc |-> "begun", at |-> now]]
  /\ before' = [before EXCEPT ![f] = accepted]
  /\ UNCHANGED <<now, given, recorder, stopCall, logStopped, buffer, cutoff, writing, table, settled, accepted, promised, highest>>

SendLock_AnyTime(p) ==
  /\ control[p].pc = "begun"
  /\ ~WriteLocked
  /\ control' = [control EXCEPT ![p].pc = "locked"]
  /\ UNCHANGED <<now, given, recorder, stopCall, logStopped, buffer, cutoff, writing, table, settled, accepted, before, promised, highest>>

\* sendControl: take r.mu for reading, or find the service stopped.
SendLock(p) ==
  /\ control[p].pc = "begun"
  /\ ~WriteLocked
  /\ control' = [control EXCEPT ![p] = IF logStopped THEN Rest ELSE [@ EXCEPT !.pc = "locked"]]
  /\ UNCHANGED <<now, given, recorder, stopCall, logStopped, buffer, cutoff, writing, table, settled, accepted, before, promised, highest>>

Send_NoRoom(p) ==
  /\ control[p].pc = "locked"
  /\ LET kind == IF p \in LogClearers THEN "clear" ELSE "barrier"
     IN  buffer' = Append(buffer, Command(kind, p, [id |-> 0, at |-> control[p].at]))
  /\ control' = [control EXCEPT ![p].pc = "sent"]
  /\ UNCHANGED <<now, given, recorder, stopCall, logStopped, cutoff, writing, table, settled, accepted, before, promised, highest>>

Send(p) ==
  /\ control[p].pc = "locked"
  /\ Room
  /\ LET kind == IF p \in LogClearers THEN "clear" ELSE "barrier"
     IN  buffer' = Append(buffer, Command(kind, p, [id |-> 0, at |-> control[p].at]))
  /\ control' = [control EXCEPT ![p].pc = "sent"]
  /\ UNCHANGED <<now, given, recorder, stopCall, logStopped, cutoff, writing, table, settled, accepted, before, promised, highest>>

\* The request is cancelled before or after its command is sent; a sent command stays.
GiveUp(p) ==
  /\ control[p].pc \in {"locked", "sent"}
  /\ control' = [control EXCEPT ![p].pc = IF @ = "sent" THEN "left" ELSE "idle"]
  /\ UNCHANGED <<now, given, recorder, stopCall, logStopped, buffer, cutoff, writing, table, settled, accepted, before, promised, highest>>

\* The caller goes on: the reset deletes the table or fails, a clear tells the administrator.
Return(p) ==
  /\ control[p].pc = "answered"
  /\ control' = [control EXCEPT ![p] = Rest]
  /\ table' \in IF p \in Flushers THEN {{}, table} ELSE {table}
  /\ promised' = IF p \in LogClearers /\ control[p].at > promised THEN control[p].at ELSE promised
  /\ UNCHANGED <<now, given, recorder, stopCall, logStopped, buffer, cutoff, writing, settled, accepted, before, highest>>

-----------------------------------------------------------------------------
\* Stop

StopLock ==
  /\ stopCall = "no"
  /\ ~ReadLocked
  /\ stopCall' = "locked" /\ logStopped' = TRUE
  /\ UNCHANGED <<now, given, recorder, control, buffer, cutoff, writing, table, settled, accepted, before, promised, highest>>

StopSend ==
  /\ stopCall = "locked"
  /\ Room
  /\ buffer' = Append(buffer, Command("stop", "stop", NoRecord))
  /\ stopCall' = "sent"
  /\ UNCHANGED <<now, given, recorder, control, logStopped, cutoff, writing, table, settled, accepted, before, promised, highest>>

\* Five seconds are over: the writer is left behind.
StopGivesUp ==
  /\ stopCall \in {"locked", "sent"}
  /\ stopCall' = "given up"
  /\ UNCHANGED <<now, given, recorder, control, logStopped, buffer, cutoff, writing, table, settled, accepted, before, promised, highest>>

-----------------------------------------------------------------------------
\* The writer takes one command after another.

Receive(kind) == writing /\ buffer # <<>> /\ Head(buffer).kind = kind /\ buffer' = Tail(buffer)

\* A record from before the last clear is skipped; an INSERT that fails is only logged.
WriteRecord_NoCutoff ==
  /\ Receive("record")
  /\ \E table2 \in {table, table \cup {Head(buffer).record}} : table' = table2
  /\ settled' = settled \cup {Head(buffer).record.id}
  /\ UNCHANGED <<now, given, recorder, control, stopCall, logStopped, cutoff, writing, accepted, before, promised, highest>>

WriteRecord ==
  /\ Receive("record")
  /\ \/ UNCHANGED table
     \/ Head(buffer).record.at > cutoff /\ table' = table \cup {Head(buffer).record}
  /\ settled' = settled \cup {Head(buffer).record.id}
  /\ UNCHANGED <<now, given, recorder, control, stopCall, logStopped, cutoff, writing, accepted, before, promised, highest>>

Answer(p, ok) ==
  control' = [control EXCEPT ![p] =
                IF @.pc = "sent" THEN (IF ok THEN [@ EXCEPT !.pc = "answered"] ELSE Rest)
                ELSE IF @.pc = "left" THEN Rest ELSE @]

WriteClear ==
  /\ Receive("clear")
  /\ \E ok \in BOOLEAN :
       /\ cutoff' = IF ok THEN Head(buffer).record.at ELSE cutoff
       /\ highest' = IF cutoff' > highest THEN cutoff' ELSE highest
       /\ table' = IF ok THEN {rec \in table : rec.at > Head(buffer).record.at} ELSE table
       /\ Answer(Head(buffer).who, ok)
  /\ UNCHANGED <<now, given, recorder, stopCall, logStopped, writing, settled, accepted, before, promised>>

PassBarrier ==
  /\ Receive("barrier")
  /\ Answer(Head(buffer).who, TRUE)
  /\ UNCHANGED <<now, given, recorder, stopCall, logStopped, cutoff, writing, table, settled, accepted, before, promised, highest>>

WriterStops ==
  /\ Receive("stop")
  /\ writing' = FALSE
  /\ stopCall' = IF stopCall = "sent" THEN "done" ELSE stopCall
  /\ UNCHANGED <<now, given, recorder, control, logStopped, cutoff, table, settled, accepted, before, promised, highest>>

WriterStep == WriteRecord \/ WriteClear \/ PassBarrier \/ WriterStops

-----------------------------------------------------------------------------
ResultInit ==
  /\ now = 0 /\ given = 0
  /\ recorder = [r \in Recorders |-> NoRecord]
  /\ control = [p \in LogClearers \cup Flushers |-> Rest]
  /\ stopCall = "no" /\ logStopped = FALSE
  /\ buffer = <<>> /\ cutoff = 0 /\ writing = TRUE /\ table = {}
  /\ settled = {} /\ accepted = {} /\ promised = 0 /\ highest = 0
  /\ before = [f \in Flushers |-> {}]

ResultNext ==
  \/ \E r \in Recorders : TryRecord(r) \/ \E t \in now..(now + 1) : FormRecord(r, t)
  \/ \E c \in LogClearers, t \in now..(now + 1) : ClearBegin(c, t)
  \/ \E f \in Flushers : FlushBegin(f)
  \/ \E p \in LogClearers \cup Flushers : SendLock(p) \/ Send(p) \/ GiveUp(p) \/ Return(p)
  \/ StopLock \/ StopSend \/ StopGivesUp
  \/ WriterStep

ResultSpec == ResultInit /\ [][ResultNext]_resultVars

(* The writer is a goroutine; a caller that has been let in goes on, and a *)
(* sender blocked on a full channel is served before later ones (channels  *)
(* are fair).  A request need not be cancelled.                            *)
ResultFairSpec ==
  /\ ResultSpec
  /\ WF_resultVars(WriterStep)
  /\ WF_resultVars(StopGivesUp)
  /\ \A p \in LogClearers \cup Flushers :
       WF_resultVars(SendLock(p)) /\ SF_resultVars(Send(p)) /\ WF_resultVars(Return(p))

-----------------------------------------------------------------------------
\* Properties

Records == [id : 0..given, at : 0..now]
Commands == [kind : {"record", "clear", "barrier", "stop"},
             who : Recorders \cup LogClearers \cup Flushers \cup {"stop"}, record : Records]

(* Every variable has its type, and the channel keeps its size.            *)
ResultTypeOK ==
  /\ now \in 0..MaxTime /\ given \in 0..MaxRecords
  /\ recorder \in [Recorders -> Records]
  /\ control \in [LogClearers \cup Flushers ->
       [pc : {"idle", "begun", "locked", "sent", "left", "answered"}, at : 0..now]]
  /\ stopCall \in {"no", "locked", "sent", "done", "given up"} /\ logStopped \in BOOLEAN
  /\ buffer \in Seq(Commands) /\ Len(buffer) <= BufferSize
  /\ {cutoff, promised, highest} \subseteq 0..now /\ writing \in BOOLEAN
  /\ table \subseteq Records
  /\ settled \subseteq 1..given /\ accepted \subseteq 1..given
  /\ before \in [Flushers -> SUBSET (1..given)]

(* After Clear has returned, no result from before it is in the table, nor *)
(* comes into it later by a caller that was slow to hand it over           *)
(* (Clear: late records from before the cutoff are dropped too) -- unless  *)
(* another clear that was asked for earlier has reached the writer after   *)
(* it, and has set the writer's cutoff back.                               *)
ClearedStaysCleared == cutoff = highest => \A rec \in table : rec.at > promised

(* When Flush returns, the writer has seen every record that was in the    *)
(* channel when Flush began, so that a one-click reset deletes them all.   *)
FlushIsABarrier == \A f \in Flushers : control[f].pc = "answered" => before[f] \subseteq settled

(* When the writer has stopped, nothing is left in the channel and no      *)
(* caller waits for it, in spite of records and clears racing the stop.    *)
StopDrains ==
  ~writing => /\ buffer = <<>> /\ accepted \subseteq settled
              /\ \A p \in LogClearers \cup Flushers : control[p].pc # "sent"

(* A command that entered the channel is answered, stop or no stop.        *)
CommandsAnswered ==
  \A p \in LogClearers \cup Flushers : control[p].pc = "sent" ~> control[p].pc = "idle"

(* Clear, Flush and Stop each keep what they promise, in any order of      *)
(* arrival.                                                                *)
CommandsKeepTheirPromise == ClearedStaysCleared /\ FlushIsABarrier /\ StopDrains
=============================================================================
