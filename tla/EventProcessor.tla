---------------------------- MODULE EventProcessor ----------------------------
(***************************************************************************)
(* EventProcessor.processBatch(): a batch of pending events in one         *)
(* transaction that holds their row locks, and, when a handler throws, the *)
(* same events one transaction each, with withDbRetry() around every one.  *)
(* Several workers may run it on the same tables.                          *)
(*                                                                         *)
(* A transaction is one action from the point where it takes effect; a     *)
(* batch is two, because it keeps its row locks in between.  A COMMIT that *)
(* takes effect although its answer is lost is a commit followed by        *)
(* LoseConnection.                                                         *)
(***************************************************************************)
EXTENDS Integers, FiniteSets

CONSTANTS
  Workers,
  Events,       \* positions in the order block, transaction, log
  BatchSize,    \* config.indexer.processBatchSize
  MaxRetries,   \* withDbRetry(): maxRetries
  Nobody,       \* no worker: a lock is free
  MaxFaults     \* bound: disturbances of any kind

ASSUME ProcessorAssumption ==
  /\ Events \subseteq Nat /\ IsFiniteSet(Events)
  /\ BatchSize \in Nat \ {0}
  /\ MaxRetries \in Nat \ {0}
  /\ Nobody \notin Workers
  /\ MaxFaults \in Nat

VARIABLES
  status,    \* _events.status
  applied,   \* committed executions of the handler of each stored event
  lockedBy,  \* the worker whose open transaction locks the row
  step,      \* per worker: where in processBatch()
  batch,     \* per worker: the events it selected and has not settled
  tries,     \* per worker: failed attempts of withDbRetry()
  faults

rowVars == <<status, applied, lockedBy>>
workerVars == <<step, batch, tries>>
processorVars == <<rowVars, workerVars, faults>>

Settled == {"processed", "failed"}

ProcessorInit ==
  /\ status = [e \in Events |-> "absent"]
  /\ applied = [e \in Events |-> 0]
  /\ lockedBy = [e \in Events |-> Nobody]
  /\ step = [w \in Workers |-> "idle"]
  /\ batch = [w \in Workers |-> {}]
  /\ tries = [w \in Workers |-> 0]
  /\ faults = 0

Disturb == faults < MaxFaults /\ faults' = faults + 1

\* The next event of the one-by-one loop.
IsNext(w, e) == e \in batch[w] /\ \A f \in batch[w] : e <= f

\* Faulty variants of Selectable: failed events are tried again; the locks of
\* other transactions are not respected.
SelectableFailed ==
  {e \in Events : status[e] \in {"pending", "failed"} /\ lockedBy[e] = Nobody}
SelectableLocked == {e \in Events : status[e] = "pending"}

\* ... WHERE status = 'pending' ... FOR UPDATE SKIP LOCKED
Selectable ==
  {e \in Events : status[e] = "pending" /\ lockedBy[e] = Nobody}

\* A faulty variant of Selected: ORDER BY ... DESC.
SelectedDescending ==
  {e \in Selectable : Cardinality({f \in Selectable : f > e}) < BatchSize}

\* ... ORDER BY block_number, tx_index, log_index LIMIT batchSize
Selected ==
  {e \in Selectable : Cardinality({f \in Selectable : f < e}) < BatchSize}

Unlocked(w) == [e \in Events |-> IF lockedBy[e] = w THEN Nobody ELSE lockedBy[e]]

\* Worker w leaves processBatch().
Leave(w) ==
  /\ step' = [step EXCEPT ![w] = "idle"]
  /\ batch' = [batch EXCEPT ![w] = {}]
  /\ tries' = [tries EXCEPT ![w] = 0]

-----------------------------------------------------------------------------
(* The batch transaction. *)

SelectBatch(w) ==
  /\ step[w] = "idle"
  /\ Selected # {}
  /\ batch' = [batch EXCEPT ![w] = Selected]
  /\ lockedBy' = [e \in Events |-> IF e \in Selected THEN w ELSE lockedBy[e]]
  /\ step' = [step EXCEPT ![w] = "batch"]
  /\ UNCHANGED <<status, applied, tries, faults>>

CommitBatch(w) ==
  /\ step[w] = "batch"
  /\ status' = [e \in Events |-> IF e \in batch[w] THEN "processed" ELSE status[e]]
  /\ applied' = [e \in Events |-> applied[e] + (IF e \in batch[w] THEN 1 ELSE 0)]
  /\ lockedBy' = Unlocked(w)
  /\ Leave(w)
  /\ UNCHANGED faults

\* A faulty variant of FailBatch: COMMIT instead of ROLLBACK.
FailBatchCommitted(w) ==
  /\ step[w] = "batch"
  /\ applied' = [e \in Events |-> applied[e] + (IF IsNext(w, e) THEN 1 ELSE 0)]
  /\ lockedBy' = Unlocked(w)
  /\ step' = [step EXCEPT ![w] = "event"]
  /\ UNCHANGED <<status, batch, tries, faults>>

\* A handler, or the database, throws: ROLLBACK, which frees the rows.
FailBatch(w) ==
  /\ step[w] = "batch"
  /\ lockedBy' = Unlocked(w)
  /\ step' = [step EXCEPT ![w] = "event"]
  /\ UNCHANGED <<status, applied, batch, tries, faults>>

-----------------------------------------------------------------------------
(* _processEvent() for the events of the failed batch, one after another. *)

Advance(w, e) ==
  /\ batch' = [batch EXCEPT ![w] = batch[w] \ {e}]
  /\ tries' = [tries EXCEPT ![w] = 0]
  /\ step' = [step EXCEPT ![w] = IF batch[w] = {e} THEN "idle" ELSE "event"]

\* markEventProcessed() waits for the row and has no condition on its status.
CommitEvent(w) ==
  /\ step[w] = "event"
  /\ \E e \in Events :
       /\ IsNext(w, e)
       /\ lockedBy[e] = Nobody
       /\ status[e] # "absent"
       /\ status' = [status EXCEPT ![e] = "processed"]
       /\ applied' = [applied EXCEPT ![e] = applied[e] + 1]
       /\ Advance(w, e)
  /\ UNCHANGED <<lockedBy, faults>>

\* A handler throws, or markEventProcessed() finds no row.
ThrowEvent(w) ==
  /\ step[w] = "event"
  /\ step' = [step EXCEPT ![w] = "failure"]
  /\ UNCHANGED <<rowVars, batch, tries, faults>>

\* A faulty variant of MarkFailed: the event stays pending.
MarkFailedNot(w) ==
  /\ step[w] = "failure"
  /\ \E e \in Events : IsNext(w, e) /\ Advance(w, e)
  /\ UNCHANGED <<rowVars, faults>>

\* _handleProcessingFailure(): a transaction of its own.
MarkFailed(w) ==
  /\ step[w] = "failure"
  /\ \E e \in Events :
       /\ IsNext(w, e)
       /\ lockedBy[e] = Nobody
       /\ status' = [status EXCEPT ![e] = IF status[e] = "pending" THEN "failed"
                                                                ELSE status[e]]
       /\ Advance(w, e)
  /\ UNCHANGED <<applied, lockedBy, faults>>

\* A faulty variant of TransientError: one attempt too many.
TransientErrorExtra(w) ==
  /\ step[w] \in {"event", "failure"}
  /\ Disturb
  /\ IF tries[w] < MaxRetries
       THEN /\ tries' = [tries EXCEPT ![w] = tries[w] + 1]
            /\ step' = [step EXCEPT ![w] = "event"]
            /\ UNCHANGED batch
       ELSE Leave(w)
  /\ UNCHANGED rowVars

\* A transient error, of the event or of marking it: withDbRetry() runs the
\* whole of _processEvent() again, or gives up and leaves processBatch().
TransientError(w) ==
  /\ step[w] \in {"event", "failure"}
  /\ Disturb
  /\ IF tries[w] + 1 < MaxRetries
       THEN /\ tries' = [tries EXCEPT ![w] = tries[w] + 1]
            /\ step' = [step EXCEPT ![w] = "event"]
            /\ UNCHANGED batch
       ELSE Leave(w)
  /\ UNCHANGED rowVars

\* The connection breaks, so that ROLLBACK fails as well: its error leaves
\* processBatch() past the one-by-one loop; the server aborts the transaction.
LoseConnection(w) ==
  /\ step[w] # "idle"
  /\ Disturb
  /\ lockedBy' = Unlocked(w)
  /\ Leave(w)
  /\ UNCHANGED <<status, applied>>

ProcessStep(w) ==
  \/ SelectBatch(w) \/ CommitBatch(w) \/ FailBatch(w)
  \/ CommitEvent(w) \/ ThrowEvent(w) \/ MarkFailed(w)

ProcessFault(w) == TransientError(w) \/ LoseConnection(w)

-----------------------------------------------------------------------------
(* What fetching and recovering do to the same rows. *)

\* insertEvents(), up to event n.
InsertEvents(n) ==
  /\ status[n] = "absent"
  /\ status' = [e \in Events |-> IF e <= n /\ status[e] = "absent" THEN "pending"
                                                                ELSE status[e]]
  /\ UNCHANGED <<applied, lockedBy, workerVars, faults>>

\* deleteEventsFromBlock(), which waits for the rows.
DeleteEvents(r) ==
  /\ status[r] # "absent"
  /\ \A e \in Events : e >= r => lockedBy[e] = Nobody
  /\ Disturb
  /\ status' = [e \in Events |-> IF e >= r THEN "absent" ELSE status[e]]
  /\ applied' = [e \in Events |-> IF e >= r THEN 0 ELSE applied[e]]
  /\ UNCHANGED <<lockedBy, workerVars>>
=============================================================================
