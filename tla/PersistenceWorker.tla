--------------------------- MODULE PersistenceWorker ---------------------------
(***************************************************************************)
(* run_persistence_worker of workers/persistence_worker.py: collects the   *)
(* observations of the fusion worker's messages into a batch and writes    *)
(* the batch to the database when it is full or old.  Observations are     *)
(* numbered in the order they are published; time is counted in ticks      *)
(* since the last flush.                                                   *)
(***************************************************************************)
EXTENDS Integers, FiniteSets, Sequences

CONSTANTS BatchSize,      \* batch_size
          FlushInterval,  \* flush_interval, in ticks
          ForeignKeys,    \* the database enforces the foreign keys of models.py
          DatabaseFails,  \* a commit may fail, or succeed and be reported failed
          MaxObs,         \* bound: observations published
          MaxPerMessage,  \* bound: observations in a message
          HighWater       \* messages ZeroMQ queues for the subscriber

ASSUME SizesAssumption ==
  /\ BatchSize \in Nat \ {0} /\ FlushInterval \in Nat
  /\ MaxObs \in Nat /\ MaxPerMessage \in Nat /\ HighWater \in Nat

ASSUME DatabaseAssumption == ForeignKeys \in BOOLEAN /\ DatabaseFails \in BOOLEAN

Obs == 1..MaxObs

VARIABLES inbox,      \* the messages ZeroMQ holds for this subscriber
          nextObs,    \* the next observation to be published
          batch,      \* batch
          elapsed,    \* time.monotonic() - last_flush, no finer than its comparison
          pc,         \* "receiving", "flushing" (in _flush_batch), "stopped" or "killed"
          rows,       \* how often an observation is in track_observations
          received,   \* history: the observations taken from the socket
          failed,     \* history: those of a batch whose failure was logged
          abandoned   \* history: those in the batch when the worker ended

vars == <<inbox, nextObs, batch, elapsed, pc, rows, received, failed, abandoned>>

Init ==
  /\ inbox = <<>>
  /\ nextObs = 1
  /\ batch = {}
  /\ elapsed = 0
  /\ pc = "receiving"
  /\ rows = [o \in Obs |-> 0]
  /\ received = {}
  /\ failed = {}
  /\ abandoned = {}

Alive == pc \in {"receiving", "flushing"}

\* The queue of the subscriber takes another message.
HasRoom == Len(inbox) < HighWater

\* A message of n observations (none when no track was fused) is published; it is
\* dropped when the subscriber's queue is full.
Publish(n) ==
  /\ nextObs + n - 1 <= MaxObs
  /\ nextObs' = nextObs + n
  /\ inbox' = IF HasRoom
              THEN Append(inbox, nextObs .. (nextObs + n - 1))
              ELSE inbox
  /\ UNCHANGED <<batch, elapsed, pc, rows, received, failed, abandoned>>

Tick ==
  /\ Alive /\ elapsed <= FlushInterval
  /\ elapsed' = elapsed + 1
  /\ UNCHANGED <<inbox, nextObs, batch, pc, rows, received, failed, abandoned>>

IsOld == elapsed > FlushInterval

\* Slip: a message replaces the batch.
OnlyLatest == Head(inbox)

\* batch.extend(observations).
Extended == batch \cup Head(inbox)

\* Slip: the interval is looked at only when recv times out.
IsFull(b) == Cardinality(b) >= BatchSize

\* Slip: one observation too many.
IsOverfullOrOld(b) == Cardinality(b) > BatchSize \/ IsOld

\* The condition for a flush after a message.
IsDue(b) == Cardinality(b) >= BatchSize \/ IsOld

\* A message arrives within the timeout.  A batch that is full or old is flushed;
\* flushing an empty one only restarts the clock.
Receive ==
  /\ pc = "receiving" /\ inbox # <<>>
  /\ inbox' = Tail(inbox)
  /\ batch' = Extended
  /\ received' = received \cup Head(inbox)
  /\ pc' = IF IsDue(batch') /\ batch' # {} THEN "flushing" ELSE "receiving"
  /\ elapsed' = IF IsDue(batch') /\ batch' = {} THEN 0 ELSE elapsed
  /\ UNCHANGED <<nextObs, rows, failed, abandoned>>

\* asyncio.TimeoutError: nothing came for 0.1 s and the batch is old.
ReceiveTimesOut ==
  /\ pc = "receiving" /\ inbox = <<>>
  /\ batch # {} /\ IsOld
  /\ pc' = "flushing"
  /\ UNCHANGED <<inbox, nextObs, batch, elapsed, rows, received, failed, abandoned>>

\* Slip: an observation is inserted at a time, and the newest does not get in.
InsertedInPart ==
  [o \in Obs |-> IF \E p \in batch : o \in batch /\ o < p THEN rows[o] + 1 ELSE rows[o]]

\* The rows after a commit of the batch.
Inserted == [o \in Obs |-> IF o \in batch THEN rows[o] + 1 ELSE rows[o]]

\* Slip: the batch is kept to be tried again.
KeptBatch == batch

\* batch.clear().
EmptyBatch == {}

\* _flush_batch has returned, which it does after a failure too: batch.clear() and
\* last_flush = time.monotonic().
FlushReturns ==
  /\ pc = "flushing"
  /\ pc' = "receiving"
  /\ batch' = EmptyBatch
  /\ elapsed' = 0
  /\ UNCHANGED <<inbox, nextObs, received, abandoned>>

\* Every row refers to a global_tracks row by its global id.  No code inserts one,
\* so a database that enforces the key refuses every batch.
CommitSucceeds ==
  /\ FlushReturns
  /\ ~ForeignKeys
  /\ rows' = Inserted
  /\ UNCHANGED failed

\* The exception is logged and swallowed; nothing was stored.
CommitFails ==
  /\ FlushReturns
  /\ ForeignKeys \/ DatabaseFails
  /\ failed' = failed \cup batch
  /\ UNCHANGED rows

\* The database committed but the answer was lost.
CommitUnacknowledged ==
  /\ FlushReturns
  /\ ~ForeignKeys /\ DatabaseFails
  /\ rows' = Inserted
  /\ failed' = failed \cup batch

\* The worker ends with what it holds.  A commit on its way may still take effect.
End ==
  /\ abandoned' = batch
  /\ batch' = {}
  /\ rows' \in {rows} \cup (IF pc = "flushing" /\ ~ForeignKeys THEN {Inserted} ELSE {})
  /\ UNCHANGED <<inbox, nextObs, elapsed, received, failed>>

\* Ctrl+C: asyncio.run turns SIGINT into the cancellation of the task.  The
\* CancelledError comes out of whatever it awaits, and neither the handler for
\* KeyboardInterrupt, which would flush, nor that of _flush_batch catches it.
Interrupt ==
  /\ Alive
  /\ pc' = "stopped"
  /\ End

\* SIGTERM, which the pipeline sends on its way out: no handler runs.
Terminate ==
  /\ Alive
  /\ pc' = "killed"
  /\ End

Work == Receive \/ ReceiveTimesOut
Flush == CommitSucceeds \/ CommitFails \/ CommitUnacknowledged

Next ==
  \/ \E n \in 0..MaxPerMessage : Publish(n)
  \/ Tick
  \/ Work
  \/ Flush
  \/ Interrupt \/ Terminate

Spec == Init /\ [][Next]_vars

\* Time passes, the loop never blocks for longer than the timeout of recv, and the
\* database answers, be it with an error.
Fairness == WF_vars(Tick) /\ WF_vars(Work) /\ WF_vars(Flush)

FairSpec == Spec /\ Fairness

-------------------------------------------------------------------------------
Stored == {o \in Obs : rows[o] > 0}

\* Every variable has a value of its type; a batch is at most one message past the
\* size, and between two messages it is short of batch_size: neither an empty message
\* nor a failed flush leaves a full one waiting.
TypeOK ==
  /\ inbox \in Seq(SUBSET Obs) /\ Len(inbox) <= HighWater
  /\ nextObs \in 1..(MaxObs + 1)
  /\ batch \subseteq Obs /\ Cardinality(batch) < BatchSize + MaxPerMessage
  /\ pc = "receiving" => Cardinality(batch) < BatchSize
  /\ elapsed \in 0..(FlushInterval + 1)
  /\ pc \in {"receiving", "flushing", "stopped", "killed"}
  /\ rows \in [Obs -> Nat]
  /\ received \subseteq Obs /\ failed \subseteq Obs /\ abandoned \subseteq Obs

\* An observation is inserted at most once, though a commit may be reported as
\* failed after it took effect: a flushed batch is never tried again.
AtMostOneRow == \A o \in Obs : rows[o] <= 1

\* What was taken from the socket is in the batch, in the table, in the log of a
\* failed flush, or in the batch the worker ended with -- and nowhere else.
NothingVanishes ==
  /\ received = batch \cup Stored \cup failed \cup abandoned
  /\ batch \cap (Stored \cup failed \cup abandoned) = {}
  /\ Alive => abandoned = {}

\* Observations reach the table in the order they were published: none is stored
\* before an older one has been stored or given up, and everything taken from the
\* queue is older than anything still waiting in it.
FlushedInOrder ==
  /\ \A o \in Stored \cup failed, p \in batch : o < p
  /\ \A i \in DOMAIN inbox : \A o \in inbox[i] : \A p \in received : p < o

\* What the worker has taken or will find in its queue, until it ends.
Unsettled == IF Alive THEN batch \cup UNION {inbox[i] : i \in DOMAIN inbox} ELSE {}

Delivery == INSTANCE OrderedDelivery
              WITH Items <- Obs, next <- nextObs, waiting <- Unsettled, table <- rows,
                   reported <- failed, open <- Alive

\* Queue, batch, timer and commit together settle observations in order, a batch as one
\* and once, and lose none in silence except at their end -- whatever fails meanwhile.
ImplementsOrderedDelivery == Delivery!DeliverySpec

\* Every batch is flushed, however slowly or steadily messages come -- also when
\* they come faster than the timeout and carry no observation.
BatchIsFlushed == batch # {} ~> batch = {}

-------------------------------------------------------------------------------
(* What the documentation says and the code does not do.                   *)

\* ADVANCED_GUIDE.md:59: the PostgreSQL writer flushes every 0.5 s or 100
\* observations -- so what reaches the batch is stored unless the worker is ended.
BatchIsStored == \A o \in Obs : o \in batch ~> o \in Stored \/ ~Alive
===============================================================================
