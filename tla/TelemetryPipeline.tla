-------------------------- MODULE TelemetryPipeline --------------------------
(***************************************************************************)
(* A telemetry message's way through core to Postgres: paho's handler puts *)
(* it on the ingest daemon's bounded queue (telemetry/ingest), the one     *)
(* consumer goroutine runs the listener, which puts a row on the store's   *)
(* bounded queue (cmd/core/telemetry.go), and Store.Run batches, flushes,  *)
(* retries and gives up (telemetry/store).                                 *)
(*                                                                         *)
(* Postgres is external: an INSERT succeeds, fails without effect, or is   *)
(* committed and then reported as failed.  Durations are abstracted: the   *)
(* ticker and the backoff timers may fire at any time.                     *)
(***************************************************************************)
EXTENDS Naturals, Sequences

CONSTANTS
  MaxMessages,  \* bound: messages published, numbered from 1
  NotJSON,      \* messages whose payload is no JSON: a jsonb column takes none
  IngestQueue,  \* ingestQueueSize
  StoreQueue,   \* Config.QueueSize
  BatchSize,    \* Config.BatchSize
  MaxRetries    \* Config.MaxRetries

ASSUME PipelineAssumption ==
  /\ NotJSON \subseteq 1..MaxMessages
  /\ MaxMessages \in Nat /\ MaxRetries \in Nat
  /\ IngestQueue \in Nat \ {0} /\ StoreQueue \in Nat \ {0} /\ BatchSize \in Nat \ {0}

VARIABLES
  arrived,    \* messages paho has handed over so far
  inq,        \* Daemon.queue
  inDropped,  \* Daemon.dropped
  ingested,   \* Daemon.ingested
  listening,  \* the message the consumer's listener works on, or NoMessage
  skipped,    \* history: messages whose group is unknown or has persistence off
  stq,        \* Store.queue
  dropped,    \* Store.dropped
  batch,      \* the rows Run has taken
  run,        \* where Run is: [pc, attempt, final]
  tick,       \* the ticker's channel (capacity 1) holds a tick
  cancelled,  \* Run's context is done
  written,    \* Store.written
  failed,     \* Store.failed
  table,      \* the telemetry table: its rows in order of insertion
  settled,    \* history: rows counted as written or failed
  forgotten,  \* history: rows of batches given up when a context ended
  answers     \* does Postgres answer every INSERT, or may it hang for ever?

ingestVars == <<arrived, inq, inDropped, ingested, listening, skipped>>
ctxVars    == <<cancelled, answers>>
fateVars   == <<written, failed, table, settled, forgotten>>
storeVars  == <<stq, dropped, batch, run, tick, ctxVars, fateVars>>
pipelineVars == <<ingestVars, storeVars>>

NoMessage == 0
Message == 1..MaxMessages
Selecting == [pc |-> "select", attempt |-> 0, final |-> FALSE]

PipelineTypeOK ==
  /\ arrived \in 0..MaxMessages /\ listening \in Message \cup {NoMessage}
  /\ {inDropped, ingested, skipped, dropped, written, failed, forgotten} \subseteq 0..MaxMessages
  /\ inq \in Seq(Message) /\ Len(inq) <= IngestQueue
  /\ stq \in Seq(Message) /\ Len(stq) <= StoreQueue
  /\ batch \in Seq(Message) /\ Len(batch) <= BatchSize
  /\ run \in [pc : {"select", "insert", "backoff", "stopped"}, attempt : 0..MaxRetries,
              final : BOOLEAN]
  /\ tick \in BOOLEAN /\ cancelled \in BOOLEAN
  /\ table \in Seq(Message) /\ settled \subseteq Message
  /\ answers \in BOOLEAN

PipelineInit ==
  /\ arrived = 0 /\ inq = <<>> /\ inDropped = 0 /\ ingested = 0
  /\ listening = NoMessage /\ skipped = 0
  /\ stq = <<>> /\ dropped = 0 /\ batch = <<>> /\ run = Selecting
  /\ tick = FALSE /\ cancelled = FALSE /\ written = 0 /\ failed = 0
  /\ table = <<>> /\ settled = {} /\ forgotten = 0
  /\ answers \in BOOLEAN

Rows(list) == {list[i] : i \in DOMAIN list}
\* Where Run goes once writeBatch has returned.
AfterFlush == IF run.final THEN [run EXCEPT !.pc = "stopped"] ELSE Selecting
-----------------------------------------------------------------------------
(* Plausible bugs, each a changed form of a definition below; no run uses them, the *)
(* manifest's mutants do.                                                          *)

\* The store's queue blocks the listener when it is full.
EnqueueBlocks ==
  /\ listening # NoMessage /\ Len(stq) < StoreQueue
  /\ stq' = Append(stq, listening) /\ dropped' = dropped
  /\ listening' = NoMessage
  /\ UNCHANGED <<arrived, inq, inDropped, ingested, skipped, batch, run, tick, ctxVars, fateVars>>

\* Giving up forgets to count.
GiveUpUncounted(landed) ==
  /\ run.pc = "insert" /\ run.attempt = MaxRetries
  /\ table' = IF landed THEN table \o batch ELSE table
  /\ batch' = <<>> /\ run' = AfterFlush
  /\ UNCHANGED <<ingestVars, stq, dropped, tick, written, failed, settled, forgotten, ctxVars>>

\* A failed batch is retried for ever.
GiveUpNever(landed) ==
  /\ run.pc = "insert" /\ run.attempt = MaxRetries
  /\ table' = IF landed THEN table \o batch ELSE table
  /\ run' = [run EXCEPT !.pc = "backoff", !.attempt = 0]
  /\ UNCHANGED <<ingestVars, stq, dropped, batch, tick, written, failed, settled, forgotten, ctxVars>>

\* A row is batched in front of those before it.
TakeRowInFront ==
  /\ run.pc = "select" /\ stq # <<>>
  /\ stq' = Tail(stq) /\ batch' = <<Head(stq)>> \o batch
  /\ run' = IF Len(batch') >= BatchSize THEN [run EXCEPT !.pc = "insert"] ELSE run
  /\ UNCHANGED <<ingestVars, dropped, tick, ctxVars, fateVars>>
-----------------------------------------------------------------------------
(* The ingest daemon *)

\* paho's handler: never blocks; a full queue drops the message, and counts it.
Handle ==
  /\ arrived < MaxMessages /\ arrived' = arrived + 1
  /\ IF Len(inq) < IngestQueue
     THEN inq' = Append(inq, arrived') /\ inDropped' = inDropped
     ELSE inq' = inq /\ inDropped' = inDropped + 1
  /\ UNCHANGED <<storeVars, ingested, listening, skipped>>

\* Run takes the next message and calls the listener, which wants it stored.
Consume ==
  /\ listening = NoMessage /\ inq # <<>>
  /\ listening' = Head(inq) /\ inq' = Tail(inq)
  /\ ingested' = ingested + 1
  /\ UNCHANGED <<storeVars, arrived, inDropped, skipped>>

\* The same, but the agent has no group, or its group's persist toggle is off.
ConsumeOnly ==
  /\ listening = NoMessage /\ inq # <<>>
  /\ inq' = Tail(inq)
  /\ ingested' = ingested + 1 /\ skipped' = skipped + 1
  /\ UNCHANGED <<storeVars, arrived, inDropped, listening>>

\* Store.Enqueue: never blocks either.
Enqueue ==
  /\ listening # NoMessage /\ listening' = NoMessage
  /\ IF Len(stq) < StoreQueue
     THEN stq' = Append(stq, listening) /\ dropped' = dropped
     ELSE stq' = stq /\ dropped' = dropped + 1
  /\ UNCHANGED <<arrived, inq, inDropped, ingested, skipped, batch, run, tick, ctxVars, fateVars>>
-----------------------------------------------------------------------------
(* Store.Run *)

\* The flush interval is over; a tick nobody has taken yet makes this one vanish.
TickerFires ==
  /\ ~tick /\ tick' = TRUE
  /\ UNCHANGED <<ingestVars, stq, dropped, batch, run, ctxVars, fateVars>>

\* A row is taken off the queue; a full batch is flushed.
TakeRow ==
  /\ run.pc = "select" /\ stq # <<>>
  /\ stq' = Tail(stq) /\ batch' = Append(batch, Head(stq))
  /\ run' = IF Len(batch') >= BatchSize THEN [run EXCEPT !.pc = "insert"] ELSE run
  /\ UNCHANGED <<ingestVars, dropped, tick, ctxVars, fateVars>>

\* A tick is taken: what there is is flushed.
TakeTick ==
  /\ run.pc = "select" /\ tick /\ tick' = FALSE
  /\ run' = IF batch = <<>> THEN run ELSE [run EXCEPT !.pc = "insert"]
  /\ UNCHANGED <<ingestVars, stq, dropped, batch, ctxVars, fateVars>>

\* The context is done: the batch is flushed on a context of its own, then Run returns.
\* The select may take this branch with rows still queued.
TakeDone ==
  /\ run.pc = "select" /\ cancelled
  /\ run' = [run EXCEPT !.pc = IF batch = <<>> THEN "stopped" ELSE "insert", !.final = TRUE]
  /\ UNCHANGED <<ingestVars, stq, dropped, batch, tick, ctxVars, fateVars>>

\* The caller of Run cancels its context.
Cancel ==
  /\ ~cancelled /\ cancelled' = TRUE
  /\ UNCHANGED <<ingestVars, stq, dropped, batch, run, tick, answers, fateVars>>
-----------------------------------------------------------------------------
(* writeBatch *)

\* One row that is not JSON fails the INSERT of its whole batch, and each retry of it.
Insertable == Rows(batch) \cap NotJSON = {}

\* The INSERT succeeds.  (One made with a cancelled context fails.)
InsertOk ==
  /\ run.pc = "insert" /\ (run.final \/ ~cancelled) /\ Insertable
  /\ table' = table \o batch /\ written' = written + Len(batch)
  /\ settled' = settled \cup Rows(batch)
  /\ batch' = <<>> /\ run' = AfterFlush
  /\ UNCHANGED <<ingestVars, stq, dropped, tick, failed, forgotten, ctxVars>>

\* It fails, whether or not the rows were committed (landed), and will be tried again.
InsertFails(landed) ==
  /\ run.pc = "insert" /\ run.attempt < MaxRetries /\ (landed => Insertable)
  /\ table' = IF landed THEN table \o batch ELSE table
  /\ run' = [run EXCEPT !.pc = "backoff"]
  /\ UNCHANGED <<ingestVars, stq, dropped, batch, tick, written, failed, settled, forgotten, ctxVars>>

\* It fails for the last time: the rows are dropped and counted.
GiveUp(landed) ==
  /\ run.pc = "insert" /\ run.attempt = MaxRetries /\ (landed => Insertable)
  /\ table' = IF landed THEN table \o batch ELSE table
  /\ failed' = failed + Len(batch) /\ settled' = settled \cup Rows(batch)
  /\ batch' = <<>> /\ run' = AfterFlush
  /\ UNCHANGED <<ingestVars, stq, dropped, tick, written, forgotten, ctxVars>>

BackoffEnds ==
  /\ run.pc = "backoff"
  /\ run' = [run EXCEPT !.pc = "insert", !.attempt = @ + 1]
  /\ UNCHANGED <<ingestVars, stq, dropped, batch, tick, ctxVars, fateVars>>

\* The context ends during the backoff (the final flush's by its timeout): writeBatch
\* returns at once, and Run forgets the batch.
BackoffCut ==
  /\ run.pc = "backoff" /\ (run.final \/ cancelled)
  /\ forgotten' = forgotten + Len(batch)
  /\ batch' = <<>> /\ run' = AfterFlush
  /\ UNCHANGED <<ingestVars, stq, dropped, tick, written, failed, table, settled, ctxVars>>
-----------------------------------------------------------------------------
Daemon == Consume \/ ConsumeOnly \/ Enqueue
Select == TakeRow \/ TakeTick \/ TakeDone
InsertBatch == InsertOk \/ \E landed \in BOOLEAN : InsertFails(landed) \/ GiveUp(landed)
Backoff == BackoffEnds \/ BackoffCut

PipelineNext == Handle \/ Daemon \/ TickerFires \/ Select \/ InsertBatch \/ Backoff \/ Cancel

PipelineSpec == PipelineInit /\ [][PipelineNext]_pipelineVars

\* The consumer goroutine is scheduled; where Postgres answers every INSERT in time, one
\* way or the other, Run goes on too; its select takes each ready branch again and again.
RunAnswered == answers /\ (InsertBatch \/ BackoffEnds)
TickAnswered == answers /\ (TickerFires \/ TakeTick)
RowAnswered == answers /\ TakeRow
-----------------------------------------------------------------------------
(* Properties *)

\* Every message paho handed over is in one place: in the daemon's queue or dropped
\* there, at the listener, skipped, in the store's queue or dropped there, batched, or
\* counted as written or failed.  As long as its context lives the store forgets none.
MessagesAccounted ==
  /\ arrived = Len(inq) + inDropped + ingested
  /\ ingested = (IF listening = NoMessage THEN 0 ELSE 1) + skipped + dropped + Len(stq)
                + Len(batch) + written + failed + forgotten
  /\ ~cancelled => forgotten = 0

\* Rows reach the table in the order their messages came, whatever is dropped on the
\* way; only the retry of a batch can write a row again.
InOrder ==
  /\ \A i, j \in DOMAIN batch : i < j => batch[i] < batch[j]
  /\ \A i, j \in DOMAIN table : i < j /\ table[j] < table[i] =>
       \E h \in 1..i : table[h] = table[j]
  /\ run.pc = "select" => \A b \in Rows(batch) : \A t \in Rows(table) : t < b

PipelineSound == PipelineTypeOK /\ MessagesAccounted /\ InOrder

\* However Postgres behaves, it never holds up the ingest: what paho hands over is consumed.
\* If it answers, each row that got into the store's queue is written or counted as failed in
\* the end, also behind a row that no INSERT can store, unless the context of Run ends.
PipelineGoesOn ==
  <>[](inq = <<>> /\ (answers /\ ~cancelled => stq = <<>> /\ batch = <<>>))
=============================================================================
