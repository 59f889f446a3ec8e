----------------------------- MODULE ChainIndexer -----------------------------
(***************************************************************************)
(* The indexing loop of one chain: Indexer.start() with the ReorgDetector, *)
(* the BlockFetcher and the EventProcessor it calls, the PostgreSQL rows   *)
(* they share, the chain they read over RPC, and the operator who runs     *)
(* scripts/rollback.ts when automatic recovery is off.                     *)
(*                                                                         *)
(* Every await that lets the chain change or the process die ends an       *)
(* action; a database transaction is one action.  Blocks are numbered      *)
(* 1 .. MaxBlock.  What stands at a height is identified by the fork that  *)
(* put it there, so a block hash is the pair of a height and a fork, and   *)
(* two equal hashes have the same ancestors.  A block carries at most one  *)
(* log of a registered contract.                                           *)
(***************************************************************************)
EXTENDS Integers, FiniteSets

CONSTANTS
  StartBlock,           \* config.chain.startBlock
  MaxReorgDepth,        \* MAX_REORG_DEPTH, 100 in the code
  Confirmations,        \* config.chain.confirmations
  FetchBatchSize,       \* config.indexer.fetchBatchSize
  ProcessBatchSize,     \* config.indexer.processBatchSize
  AutoHandleReorgs,     \* config.indexer.autoHandleReorgs
  MaxConsecutiveErrors, \* config.indexer.maxConsecutiveErrors
  EventBlocks,          \* the blocks <<height, fork>> that carry a log
  NullRounds,           \* the heights <<height, fork>> without a block
  EnvAssumptions,       \* what is assumed of reorgs, see ReorgAllowed
  MaxBlock,             \* bound: height the chain grows to
  MaxReorgs,            \* bound: reorgs
  MaxFaults             \* bound: crashes, RPC and database errors

Blocks == 1 .. MaxBlock
Forks == 0 .. MaxReorgs

\* TypeScript's null for a block number, a hash or a result.
None == -1

Statuses == {"absent", "pending", "processed", "failed"}

\* "quiet_scan": no reorg while an iteration detects, recovers or waits to
\* read the logs.  "quiet_read": none between reading the logs and reading
\* the blocks that lets the node answer for all of the blocks.
\* "within_depth": no reorg reaches below the detector's window.
\* "fork_hashed": the first replaced block has a stored hash.
\* "fork_not_null": the first replaced block is not replaced by a null round.
Assumptions ==
  {"quiet_scan", "quiet_read", "within_depth", "fork_hashed", "fork_not_null"}

ASSUME ConstantsAssumption ==
  /\ StartBlock \in Nat \ {0}
  /\ MaxReorgDepth \in Nat \ {0}
  /\ Confirmations \in Nat
  /\ FetchBatchSize \in Nat \ {0}
  /\ ProcessBatchSize \in Nat \ {0}
  /\ AutoHandleReorgs \in BOOLEAN
  /\ MaxConsecutiveErrors \in Nat \ {0}

ASSUME BoundsAssumption ==
  /\ MaxBlock \in Nat \ {0}
  /\ StartBlock <= MaxBlock
  /\ MaxReorgs \in Nat
  /\ MaxFaults \in Nat

ASSUME EnvironmentAssumption ==
  /\ EventBlocks \subseteq (Blocks \X Forks)
  /\ NullRounds \subseteq (Blocks \X Forks)
  /\ EventBlocks \intersect NullRounds = {}
  /\ EnvAssumptions \subseteq Assumptions

VARIABLES
  \* the chain
  head,        \* its height
  chain,       \* the fork at each height; above head, the one that will grow
  forks,       \* reorgs so far
  \* the database
  cursor,      \* _cursor.fetched_to_block, None while there is no row
  pendFrom,    \* _cursor.pending_reorg_validation_from_block
  pendTarget,  \* _cursor.pending_reorg_validation_target_block
  hashes,      \* _block_hashes: the fork whose hash is stored, or None
  events,      \* _events: the fork whose log is stored, or None
  status,      \* _events.status
  \* the process
  pc,
  memFrom,     \* Indexer._pendingReorgValidation
  memTarget,   \* Indexer._pendingReorgValidationTarget
  errors,      \* consecutiveErrors
  scanAt,      \* detect(): blockNumber
  earliest,    \* detect(): earliestReorgBlock
  safe,        \* fetchAndStore(): safeBlock
  logs,        \* fetchAndStore(): logs, as the fork of each height or None
  fetchedTo,   \* fetchResult.toBlock, None for a null result
  todo,        \* events left to the one-by-one fallback
  \* the operator, the bounds, history
  reported,    \* block the exiting indexer told the operator to roll back to
  faults,
  fresh        \* no reorg since this iteration's detect() began

chainVars == <<head, chain, forks>>
dbVars == <<cursor, pendFrom, pendTarget, hashes, events, status>>
memVars == <<memFrom, memTarget>>
iterVars == <<scanAt, earliest, safe, logs, fetchedTo, todo>>
vars == <<chainVars, dbVars, pc, memVars, errors, iterVars,
          reported, faults, fresh>>

Larger(a, b) == IF a > b THEN a ELSE b
Smaller(a, b) == IF a < b THEN a ELSE b

NothingStored == [b \in Blocks |-> None]

-----------------------------------------------------------------------------
(* What an RPC node answers about a height. *)

HasLog(b) == <<b, chain[b]>> \in EventBlocks
IsNullRound(b) == <<b, chain[b]>> \in NullRounds

\* A faulty variant of ScanFrom: one block short.
ScanFromShort ==
  Larger(IF cursor >= MaxReorgDepth - 1 THEN cursor - (MaxReorgDepth - 2)
                                        ELSE StartBlock,
         StartBlock)

(* The window detect() scans. *)
ScanFrom ==
  Larger(IF cursor >= MaxReorgDepth - 1 THEN cursor - (MaxReorgDepth - 1)
                                        ELSE StartBlock,
         StartBlock)

(* The range and the hash window of fetchAndStore(). *)
FetchFrom == cursor + 1
FetchTo == Smaller(FetchFrom + (FetchBatchSize - 1), safe)
HashWindow == IF Confirmations = 0 THEN MaxReorgDepth ELSE Confirmations
ContiguousStart == Larger(FetchFrom, safe - HashWindow)
\* A faulty variant of PruneBefore: only the confirmations are kept.
PruneBeforeConfirmed == FetchTo - Confirmations
PruneBefore == FetchTo - Larger(MaxReorgDepth, 3 * Confirmations)

\* _collectBlockSummaries(): the blocks it asks for.
WantedBlocks ==
  {b \in Blocks :
     \/ logs[b] # None
     \/ b \in ContiguousStart .. FetchTo /\ hashes[b] = None}

\* A faulty variant of CaughtUp: the newest safe block is never fetched.
CaughtUpEarly == cursor + 1 >= head - Confirmations
CaughtUp == cursor >= head - Confirmations

(* The events processBatch() selects: the first pending ones. *)
Pending == {b \in Blocks : status[b] = "pending"}
\* A faulty variant of Batch: the last pending ones.
BatchDescending ==
  {b \in Pending : Cardinality({p \in Pending : p > b}) < ProcessBatchSize}
Batch ==
  {b \in Pending : Cardinality({p \in Pending : p < b}) < ProcessBatchSize}

-----------------------------------------------------------------------------
(* How an iteration of the loop goes on or ends. *)

ClearIteration ==
  /\ scanAt' = None /\ earliest' = None
  /\ safe' = None /\ logs' = NothingStored
  /\ fetchedTo' = None /\ todo' = {}

\* A faulty variant of Throw: one error too many.
ThrowLate ==
  LET last == errors >= MaxConsecutiveErrors IN
  /\ pc' = IF last THEN "stopped" ELSE "idle"
  /\ errors' = IF last THEN 0 ELSE errors + 1
  /\ memFrom' = IF last THEN None ELSE memFrom
  /\ memTarget' = IF last THEN None ELSE memTarget
  /\ ClearIteration

\* catch: back to the top of the loop, or out of start() after too many.
Throw ==
  LET last == errors + 1 >= MaxConsecutiveErrors IN
  /\ pc' = IF last THEN "stopped" ELSE "idle"
  /\ errors' = IF last THEN 0 ELSE errors + 1
  /\ memFrom' = IF last THEN None ELSE memFrom
  /\ memTarget' = IF last THEN None ELSE memTarget
  /\ ClearIteration

FinishIteration ==
  /\ pc' = "idle"
  /\ errors' = 0
  /\ ClearIteration

-----------------------------------------------------------------------------
(* The chain. *)

Grow ==
  /\ head < MaxBlock
  /\ "quiet_read" \in EnvAssumptions /\ pc = "store" => \A b \in WantedBlocks : b <= head
  /\ head' = head + 1
  /\ UNCHANGED <<chain, forks, dbVars, pc, memVars, errors, iterVars,
                 reported, faults, fresh>>

ReorgAllowed(r, h) ==
  /\ "quiet_scan" \in EnvAssumptions =>
       pc \notin {"scan", "reorg", "fetch", "logs"}
  /\ "quiet_read" \in EnvAssumptions /\ pc = "store" => \E b \in WantedBlocks : b > h
  /\ r <= cursor =>
       /\ "within_depth" \in EnvAssumptions => r > cursor - MaxReorgDepth
       /\ "fork_hashed" \in EnvAssumptions => hashes[r] # None
       /\ "fork_not_null" \in EnvAssumptions =>
            <<r, forks + 1>> \notin NullRounds

\* Another fork becomes canonical from r on, up to a height h that may be
\* lower than before.
Reorg(r, h) ==
  /\ forks < MaxReorgs
  /\ ReorgAllowed(r, h)
  /\ forks' = forks + 1
  /\ chain' = [b \in Blocks |-> IF b < r THEN chain[b] ELSE forks + 1]
  /\ head' = h
  /\ fresh' = FALSE
  /\ UNCHANGED <<dbVars, pc, memVars, errors, iterVars, reported, faults>>

-----------------------------------------------------------------------------
(* Starting and dying. *)

\* A faulty variant of Start: the pending validation is not reloaded.
StartForgetful ==
  /\ pc = "stopped"
  /\ pc' = "idle"
  /\ cursor' = IF cursor = None THEN StartBlock - 1 ELSE cursor
  /\ UNCHANGED <<chainVars, pendFrom, pendTarget, hashes, events, status,
                 memVars, errors, iterVars, reported, faults, fresh>>

Start ==
  /\ pc = "stopped"
  /\ pc' = "idle"
  /\ cursor' = IF cursor = None THEN StartBlock - 1 ELSE cursor
  /\ memFrom' = pendFrom
  /\ memTarget' = pendTarget
  /\ UNCHANGED <<chainVars, pendFrom, pendTarget, hashes, events, status,
                 errors, iterVars, reported, faults, fresh>>

Crash ==
  /\ pc # "stopped"
  /\ faults < MaxFaults
  /\ faults' = faults + 1
  /\ pc' = "stopped"
  /\ errors' = 0
  /\ memFrom' = None /\ memTarget' = None
  /\ ClearIteration
  /\ UNCHANGED <<chainVars, dbVars, reported, fresh>>

\* An RPC call or a query fails for good: its transaction rolls back.
Fault ==
  /\ pc \notin {"stopped", "idle"}
  /\ faults < MaxFaults
  /\ faults' = faults + 1
  /\ Throw
  /\ UNCHANGED <<chainVars, dbVars, reported, fresh>>

-----------------------------------------------------------------------------
(* ReorgDetector.detect(): from the cursor down, one RPC call per block. *)

DetectBegin ==
  /\ pc = "idle"
  /\ fresh' = TRUE
  /\ IF \E b \in Blocks : b \in ScanFrom .. cursor /\ hashes[b] # None
       THEN pc' = "scan" /\ scanAt' = cursor
       ELSE pc' = "fetch" /\ scanAt' = None
  /\ UNCHANGED <<chainVars, dbVars, memVars, errors, earliest, safe, logs,
                 fetchedTo, todo, reported, faults>>

Scanning == pc = "scan" /\ scanAt >= ScanFrom

ScanSkip ==
  /\ Scanning
  /\ hashes[scanAt] = None \/ (scanAt <= head /\ IsNullRound(scanAt))
  /\ scanAt' = scanAt - 1
  /\ UNCHANGED <<pc, earliest, errors, memVars>>

ScanMismatch ==
  /\ Scanning
  /\ scanAt <= head /\ ~IsNullRound(scanAt)
  /\ hashes[scanAt] \notin {None, chain[scanAt]}
  /\ earliest' = scanAt
  /\ scanAt' = scanAt - 1
  /\ UNCHANGED <<pc, errors, memVars>>

\* A node has no block there yet: getBlock throws.
ScanBeyondHead ==
  /\ Scanning
  /\ hashes[scanAt] # None /\ scanAt > head
  /\ Throw
  /\ UNCHANGED <<chainVars, dbVars, reported, faults, fresh>>

\* The loop breaks at the first equal hash or runs off the window.
ScanEnd ==
  /\ pc = "scan"
  /\ \/ scanAt < ScanFrom
     \/ /\ Scanning
        /\ scanAt <= head /\ ~IsNullRound(scanAt)
        /\ hashes[scanAt] = chain[scanAt]
  /\ IF earliest # None /\ cursor - earliest > MaxReorgDepth
       THEN Throw
       ELSE /\ pc' = IF earliest = None THEN "fetch" ELSE "reorg"
            /\ scanAt' = None
            /\ UNCHANGED <<errors, memVars, earliest, safe, logs, fetchedTo,
                           todo>>
  /\ UNCHANGED <<chainVars, dbVars, reported, faults, fresh>>

ScanStep ==
  /\ ScanSkip \/ ScanMismatch
  /\ UNCHANGED <<chainVars, dbVars, safe, logs, fetchedTo, todo, reported,
                 faults, fresh>>

-----------------------------------------------------------------------------
(* ReorgDetector.handleReorg(): one transaction. *)

\* A faulty variant of RollBack: the row of the reorged block is kept.
RollBackAbove(r) ==
  /\ cursor' = r - 1
  /\ pendFrom' = r
  /\ pendTarget' = None
  /\ hashes' = [b \in Blocks |-> IF b > r THEN None ELSE hashes[b]]
  /\ events' = [b \in Blocks |-> IF b > r THEN None ELSE events[b]]
  /\ status' = [b \in Blocks |-> IF b > r THEN "absent" ELSE status[b]]

RollBack(r) ==
  /\ cursor' = r - 1
  /\ pendFrom' = r
  /\ pendTarget' = None
  /\ hashes' = [b \in Blocks |-> IF b >= r THEN None ELSE hashes[b]]
  /\ events' = [b \in Blocks |-> IF b >= r THEN None ELSE events[b]]
  /\ status' = [b \in Blocks |-> IF b >= r THEN "absent" ELSE status[b]]

HandleReorg ==
  /\ pc = "reorg" /\ AutoHandleReorgs
  /\ RollBack(earliest)
  /\ memFrom' = earliest
  /\ memTarget' = None
  /\ pc' = "fetch"
  /\ earliest' = None
  /\ UNCHANGED <<chainVars, errors, scanAt, safe, logs, fetchedTo, todo,
                 reported, faults, fresh>>

\* The COMMIT takes effect but its answer is lost: handleReorg() rejects and
\* the loop never assigns its copy of the pending validation.
HandleReorgAckLost ==
  /\ pc = "reorg" /\ AutoHandleReorgs
  /\ faults < MaxFaults
  /\ faults' = faults + 1
  /\ RollBack(earliest)
  /\ Throw
  /\ UNCHANGED <<chainVars, reported, fresh>>

\* A faulty variant of ManualRecoveryRequired: the iteration goes on.
ManualRecoveryLogged ==
  /\ pc = "reorg" /\ ~AutoHandleReorgs
  /\ reported' = earliest
  /\ pc' = "fetch"
  /\ earliest' = None
  /\ UNCHANGED <<chainVars, dbVars, memVars, errors, scanAt, safe, logs,
                 fetchedTo, todo, faults, fresh>>

ManualRecoveryRequired ==
  /\ pc = "reorg" /\ ~AutoHandleReorgs
  /\ reported' = earliest
  /\ Throw
  /\ UNCHANGED <<chainVars, dbVars, faults, fresh>>

\* npm run rollback -- --block <reported>, with the indexer stopped.
OperatorRollback ==
  /\ pc = "stopped"
  /\ reported # None
  /\ RollBack(reported)
  /\ reported' = None
  /\ UNCHANGED <<chainVars, pc, memVars, errors, iterVars, faults, fresh>>

-----------------------------------------------------------------------------
(* BlockFetcher.fetchAndStore(). *)

FetchHead ==
  /\ pc = "fetch"
  /\ IF head <= Confirmations
       THEN Throw
       ELSE /\ safe' = head - Confirmations
            /\ fetchedTo' = None
            /\ pc' = IF CaughtUp THEN "process" ELSE "logs"
            /\ UNCHANGED <<errors, memVars, scanAt, earliest, logs, todo>>
  /\ UNCHANGED <<chainVars, dbVars, reported, faults, fresh>>

FetchLogs ==
  /\ pc = "logs"
  /\ logs' = [b \in Blocks |->
                IF b \in FetchFrom .. FetchTo /\ b <= head /\ HasLog(b)
                  THEN chain[b] ELSE None]
  /\ pc' = "store"
  /\ UNCHANGED <<chainVars, dbVars, memVars, errors, scanAt, earliest, safe,
                 fetchedTo, todo, reported, faults, fresh>>

\* Of the blocks it asks for, those that _collectBlockSummaries() gets.
FetchedBlocks == {b \in WantedBlocks : ~IsNullRound(b)}

\* Either a wanted block is not there, or an event has no timestamp.
StoreFails ==
  /\ pc = "store"
  /\ \/ \E b \in WantedBlocks : b > head
     \/ \E b \in WantedBlocks \ FetchedBlocks : logs[b] # None
  /\ Throw
  /\ UNCHANGED <<chainVars, dbVars, reported, faults, fresh>>

StoreRows ==
  /\ pc = "store"
  /\ \A b \in WantedBlocks : b <= head
  /\ \A b \in WantedBlocks \ FetchedBlocks : logs[b] = None
  /\ hashes' = [b \in Blocks |->
                  IF PruneBefore > 0 /\ b < PruneBefore THEN None
                  ELSE IF b \in FetchedBlocks THEN chain[b] ELSE hashes[b]]
  /\ events' = [b \in Blocks |->
                  IF logs[b] # None /\ events[b] = None THEN logs[b]
                  ELSE events[b]]
  /\ status' = [b \in Blocks |->
                  IF logs[b] # None /\ events[b] = None THEN "pending"
                  ELSE status[b]]
  /\ cursor' = FetchTo
  /\ UNCHANGED <<pendFrom, pendTarget>>

Store ==
  /\ StoreRows
  /\ fetchedTo' = FetchTo
  /\ logs' = NothingStored
  /\ pc' = "process"
  /\ UNCHANGED <<chainVars, memVars, errors, scanAt, earliest, safe, todo,
                 reported, faults, fresh>>

StoreAckLost ==
  /\ StoreRows
  /\ faults < MaxFaults
  /\ faults' = faults + 1
  /\ Throw
  /\ UNCHANGED <<chainVars, reported, fresh>>

-----------------------------------------------------------------------------
(* EventProcessor.processBatch(). *)

ProcessBatch ==
  /\ pc = "process"
  /\ status' = [b \in Blocks |-> IF b \in Batch THEN "processed" ELSE status[b]]
  /\ pc' = "validate"
  /\ UNCHANGED <<chainVars, cursor, pendFrom, pendTarget, hashes, events,
                 memVars, errors, iterVars, reported, faults, fresh>>

\* A handler throws: the batch rolls back and is retried event by event.
FallBack ==
  /\ pc = "process"
  /\ Batch # {}
  /\ todo' = Batch
  /\ pc' = "fallback"
  /\ UNCHANGED <<chainVars, dbVars, memVars, errors, scanAt, earliest, safe,
                 logs, fetchedTo, reported, faults, fresh>>

\* A faulty variant of Outcomes: a failed event is left for the next batch.
OutcomesRetried == {"processed", "pending"}
Outcomes == {"processed", "failed"}

ProcessEvent(b) ==
  /\ pc = "fallback"
  /\ b \in todo
  /\ \A other \in todo : b <= other
  /\ \E outcome \in Outcomes :
       status' = [status EXCEPT ![b] = outcome]
  /\ todo' = todo \ {b}
  /\ pc' = IF todo' = {} THEN "validate" ELSE "fallback"
  /\ UNCHANGED <<chainVars, cursor, pendFrom, pendTarget, hashes, events,
                 memVars, errors, scanAt, earliest, safe, logs, fetchedTo,
                 reported, faults, fresh>>

-----------------------------------------------------------------------------
(* The end of an iteration: validation of a recovered reorg. *)

Validating == pc = "validate" /\ memFrom # None /\ fetchedTo # None

PersistTarget ==
  /\ Validating
  /\ memTarget = None
  /\ pendFrom' = memFrom /\ pendTarget' = safe
  /\ memTarget' = safe
  /\ UNCHANGED <<chainVars, cursor, hashes, events, status, pc, memFrom,
                 errors, iterVars, reported, faults, fresh>>

\* A faulty variant of ReplayedToTarget: the first fetch will do.
ReplayStarted == memTarget # None
ReplayedToTarget == memTarget # None /\ fetchedTo >= memTarget

\* validateCleanup() only reports; the pending validation is then cleared.
ValidateCleanup ==
  /\ Validating
  /\ ReplayedToTarget
  /\ pendFrom' = None /\ pendTarget' = None
  /\ memFrom' = None /\ memTarget' = None
  /\ FinishIteration
  /\ UNCHANGED <<chainVars, cursor, hashes, events, status, reported, faults,
                 fresh>>

\* The write of either step takes effect but its answer is lost.
ValidationAckLost ==
  /\ Validating
  /\ faults < MaxFaults
  /\ faults' = faults + 1
  /\ \/ memTarget = None /\ pendFrom' = memFrom /\ pendTarget' = safe
     \/ ReplayedToTarget /\ pendFrom' = None /\ pendTarget' = None
  /\ Throw
  /\ UNCHANGED <<chainVars, cursor, hashes, events, status, reported, fresh>>

NoValidation ==
  /\ pc = "validate"
  /\ Validating => memTarget # None /\ ~ReplayedToTarget
  /\ FinishIteration
  /\ UNCHANGED <<chainVars, dbVars, memVars, reported, faults, fresh>>

-----------------------------------------------------------------------------

Init ==
  /\ head \in 0 .. MaxBlock
  /\ chain = [b \in Blocks |-> 0]
  /\ forks = 0
  /\ cursor = None /\ pendFrom = None /\ pendTarget = None
  /\ hashes = NothingStored /\ events = NothingStored
  /\ status = [b \in Blocks |-> "absent"]
  /\ pc = "stopped"
  /\ memFrom = None /\ memTarget = None
  /\ errors = 0
  /\ scanAt = None /\ earliest = None
  /\ safe = None /\ logs = NothingStored
  /\ fetchedTo = None /\ todo = {}
  /\ reported = None
  /\ faults = 0
  /\ fresh = FALSE

Detect == DetectBegin \/ ScanStep \/ ScanBeyondHead \/ ScanEnd
Recover == HandleReorg \/ ManualRecoveryRequired
Fetch == FetchHead \/ FetchLogs \/ StoreFails \/ Store
Process == ProcessBatch \/ FallBack \/ \E b \in Blocks : ProcessEvent(b)
Validate == PersistTarget \/ ValidateCleanup \/ NoValidation
Iteration == Detect \/ Recover \/ Fetch \/ Process \/ Validate

Failure ==
  \/ Crash \/ Fault
  \/ HandleReorgAckLost \/ StoreAckLost \/ ValidationAckLost

ChainStep ==
  \/ Grow
  \/ \E r \in Blocks : \E h \in Blocks :
       r \in StartBlock .. head /\ h \in r .. head + 1 /\ Reorg(r, h)

Next == Iteration \/ Failure \/ ChainStep \/ Start \/ OperatorRollback

Spec == Init /\ [][Next]_vars

\* The event loop of the process runs, the supervisor restarts it, the chain
\* grows, and the operator follows the message of the exiting indexer.
Fairness ==
  /\ WF_vars(Iteration)
  /\ WF_vars(Start)
  /\ WF_vars(Grow)
  /\ SF_vars(OperatorRollback)

FairSpec == Spec /\ Fairness

-----------------------------------------------------------------------------

TypeOK ==
  /\ head \in 0 .. MaxBlock
  /\ chain \in [Blocks -> Forks]
  /\ forks \in Forks
  /\ cursor \in {None} \union (StartBlock - 1 .. MaxBlock)
  /\ pendFrom \in {None} \union Blocks
  /\ pendTarget \in {None} \union Blocks
  /\ hashes \in [Blocks -> {None} \union Forks]
  /\ events \in [Blocks -> {None} \union Forks]
  /\ status \in [Blocks -> Statuses]
  /\ pc \in {"stopped", "idle", "scan", "reorg", "fetch", "logs", "store",
             "process", "fallback", "validate"}
  /\ memFrom \in {None} \union Blocks
  /\ memTarget \in {None} \union Blocks
  /\ errors \in 0 .. MaxConsecutiveErrors - 1
  /\ scanAt \in {None} \union (0 .. MaxBlock)
  /\ earliest \in {None} \union Blocks
  /\ safe \in {None} \union Blocks
  /\ logs \in [Blocks -> {None} \union Forks]
  /\ fetchedTo \in {None} \union Blocks
  /\ todo \subseteq Blocks
  /\ reported \in {None} \union Blocks
  /\ faults \in 0 .. MaxFaults
  /\ fresh \in BOOLEAN

(* Nothing is stored for a block before startBlock or beyond the cursor, so  *)
(* a fetch, which starts after the cursor, never meets a stale hash that     *)
(* _collectBlockSummaries() would keep or a stale event that ON CONFLICT DO  *)
(* NOTHING would keep.                                                       *)
NothingBeyondCursor ==
  \A b \in Blocks :
    hashes[b] # None \/ events[b] # None \/ status[b] # "absent" =>
      StartBlock <= b /\ b <= cursor

(* What is stored up to the cursor is what the canonical chain holds.        *)
Stale ==
  {b \in Blocks :
     /\ StartBlock <= b /\ b <= cursor
     /\ \/ events[b] # IF HasLog(b) THEN chain[b] ELSE None
        \/ hashes[b] \notin {None, chain[b]}}
Agrees == Stale = {}

(* Once detect() and the recovery it calls for are done, the index agrees    *)
(* with the chain up to the cursor, unless the chain changed since detect()  *)
(* began: no replaced block survives a detection and a fetch adds none.      *)
DetectionComplete ==
  fresh /\ pc \in {"fetch", "logs", "store", "process", "fallback", "validate"}
    => Agrees

(* Pruning, which runs on every fetch, never deletes a hash in the window    *)
(* that the next detect() compares.                                          *)
PruningSparesWindow ==
  [][cursor' > cursor =>
       \A b \in Blocks : ScanFrom' <= b /\ b <= cursor => hashes'[b] = hashes[b]
    ]_<<cursor, hashes>>

(* The pending validation of a rollback is only cleared after the replay has *)
(* reached the target recorded for that rollback, whatever crashes and lost  *)
(* answers come between (Indexer.start(), lines 177-196).  One that has no   *)
(* target yet can be cleared: the loop whose handleReorg() lost its answer   *)
(* goes on with the target of an earlier rollback.  That takes a fault.      *)
ValidatedAfterReplay ==
  [][pendFrom # None /\ pendFrom' = None =>
       \/ pendTarget # None /\ cursor >= pendTarget
       \/ pendTarget = None /\ faults > 0]_<<pendFrom, pendTarget>>

(* Without automatic recovery, an indexer that reported a reorg adds nothing *)
(* to the index until the operator has rolled it back, however often it is   *)
(* retried and restarted.                                                    *)
FrozenUntilRollback ==
  [][reported # None /\ reported' # None =>
       UNCHANGED <<cursor, hashes, events, status>>]_dbVars

(* The cursor and the events promise what EventIndex says.                   *)
Index == INSTANCE EventIndex WITH Contents <- Forks
ImplementsIndex == Index!Spec

(* When reorgs and faults end, the index ends up at the confirmed head, in   *)
(* agreement with the chain, with every event settled.                       *)
CatchesUp ==
  <>[](/\ cursor >= MaxBlock - Confirmations
       /\ Agrees
       /\ Pending = {})

(* In the absence of faults a rollback, the operator's included, is          *)
(* eventually validated and its pending validation cleared.                  *)
RecoveryValidated == pendFrom # None ~> pendFrom = None

-----------------------------------------------------------------------------
(* What the comments, the messages and DEVELOPMENT.md say, and the code does *)
(* not do.                                                                   *)

(* BlockFetcher.ts:411-414: a reorg between detect() and the fetch is        *)
(* detected in the next iteration, "The system is self-correcting with       *)
(* 1-iteration delay".                                                       *)
SelfCorrecting == fresh /\ pc = "fetch" => Agrees
=============================================================================
