-------------------------- MODULE ChainIndexerProofs --------------------------
(* Proofs, for every value of the constants, that ChainIndexer stores        *)
(* nothing beyond its cursor and implements EventIndex.                      *)
EXTENDS ChainIndexer, FiniteSetTheorems, TLAPS

(* Where the control is, the variables of the iteration are in range.        *)
ControlInv ==
  /\ pc # "stopped" => cursor # None
  /\ pc = "scan" => StartBlock - 1 <= scanAt /\ scanAt <= cursor
  /\ earliest # None =>
       pc \in {"scan", "reorg"} /\ StartBlock <= earliest /\ earliest <= cursor
  /\ pc = "reorg" => earliest # None
  /\ reported # None =>
       ~AutoHandleReorgs /\ StartBlock <= reported /\ reported <= cursor
  /\ pc \in {"logs", "store"} => cursor < safe

(* The logs waiting to be stored lie in the range being fetched.             *)
LogsInv ==
  pc = "store" =>
    \A b \in Blocks : logs[b] # None => FetchFrom <= b /\ b <= FetchTo

(* The fallback works on the first pending events.                           *)
FallbackInv ==
  pc = "fallback" =>
    \A b \in todo :
      /\ status[b] = "pending"
      /\ \A p \in Blocks : status[p] = "pending" /\ p < b => p \in todo

IndInv ==
  TypeOK /\ ControlInv /\ LogsInv /\ FallbackInv /\ NothingBeyondCursor

-----------------------------------------------------------------------------

(* What the ranges of the code stay within, once the cursor is well typed.   *)
LEMMA RangeFacts ==
  ASSUME TypeOK, ControlInv, pc # "stopped"
  PROVE  /\ cursor \in StartBlock - 1 .. MaxBlock
         /\ ScanFrom \in Int /\ StartBlock <= ScanFrom
         /\ FetchFrom \in Int /\ StartBlock <= FetchFrom
         /\ pc \in {"logs", "store"} =>
              FetchTo \in Blocks /\ FetchFrom <= FetchTo /\ FetchTo <= safe
BY ConstantsAssumption, BoundsAssumption
   DEF TypeOK, ControlInv, ScanFrom, FetchFrom, FetchTo, Larger, Smaller,
       Blocks, None

(* The empty database satisfies the invariant.                               *)
LEMMA InitInd == Init => IndInv
<1> SUFFICES ASSUME Init PROVE IndInv
  OBVIOUS
<1>1. TypeOK
  <2>1. 0 \in Forks
    BY BoundsAssumption DEF Forks
  <2>2. /\ chain \in [Blocks -> Forks]
        /\ hashes \in [Blocks -> {None} \union Forks]
        /\ events \in [Blocks -> {None} \union Forks]
        /\ logs \in [Blocks -> {None} \union Forks]
        /\ status \in [Blocks -> Statuses]
    BY <2>1 DEF Init, NothingStored, Statuses
  <2>3. errors \in 0 .. MaxConsecutiveErrors - 1 /\ faults \in 0 .. MaxFaults
    BY ConstantsAssumption, BoundsAssumption DEF Init
  <2>4. todo \subseteq Blocks /\ fresh \in BOOLEAN
    BY DEF Init
  <2>5. QED
    BY <2>1, <2>2, <2>3, <2>4 DEF Init, TypeOK
<1>2. ControlInv /\ LogsInv /\ FallbackInv /\ NothingBeyondCursor
  BY DEF Init, ControlInv, LogsInv, FallbackInv, NothingBeyondCursor,
         NothingStored, None
<1>. QED
  BY <1>1, <1>2 DEF IndInv

(* The rows of the database and the operator's block number, well formed.    *)
RowsOK ==
  /\ cursor \in StartBlock - 1 .. MaxBlock
  /\ pendFrom \in {None} \union Blocks
  /\ pendTarget \in {None} \union Blocks
  /\ hashes \in [Blocks -> {None} \union Forks]
  /\ events \in [Blocks -> {None} \union Forks]
  /\ status \in [Blocks -> Statuses]
  /\ NothingBeyondCursor

ReportedOK ==
  /\ reported \in {None} \union Blocks
  /\ reported # None =>
       ~AutoHandleReorgs /\ StartBlock <= reported /\ reported <= cursor

(* What the row lemmas need of the invariant.                                *)
LEMMA RowsFromInd ==
  ASSUME IndInv
  PROVE  ReportedOK /\ (pc # "stopped" => RowsOK)
BY ConstantsAssumption, BoundsAssumption
   DEF IndInv, TypeOK, ControlInv, RowsOK, ReportedOK, None

(* Leaving an iteration by an exception keeps the invariant, whatever the    *)
(* database writes were, if they left the rows well formed.                  *)
LEMMA ThrowInd ==
  ASSUME IndInv, Throw, UNCHANGED chainVars, RowsOK', ReportedOK',
         faults' \in 0 .. MaxFaults, fresh' \in BOOLEAN
  PROVE  IndInv'
<1>1. /\ pc' \in {"stopped", "idle"}
      /\ earliest' = None /\ cursor' # None
  BY ConstantsAssumption, BoundsAssumption
     DEF Throw, ClearIteration, RowsOK, None
<1>2. TypeOK'
  <2>1. errors' \in 0 .. MaxConsecutiveErrors - 1
    BY ConstantsAssumption DEF IndInv, TypeOK, Throw
  <2>2. /\ memFrom' \in {None} \union Blocks
        /\ memTarget' \in {None} \union Blocks
    BY DEF IndInv, TypeOK, Throw
  <2>3. logs' \in [Blocks -> {None} \union Forks]
    BY DEF Throw, ClearIteration, NothingStored
  <2>4. head' \in 0 .. MaxBlock /\ chain' \in [Blocks -> Forks] /\ forks' \in Forks
    BY DEF IndInv, TypeOK, chainVars
  <2>5. QED
    BY <1>1, <2>1, <2>2, <2>3, <2>4
       DEF TypeOK, Throw, ClearIteration, RowsOK, ReportedOK
<1>3. ControlInv'
  BY <1>1 DEF ControlInv, ReportedOK
<1>4. LogsInv' /\ FallbackInv' /\ NothingBeyondCursor'
  BY <1>1 DEF LogsInv, FallbackInv, RowsOK
<1>. QED
  BY <1>2, <1>3, <1>4 DEF IndInv

(* An exception with no write of its own.                                    *)
LEMMA PlainThrowInd ==
  ASSUME IndInv, Throw, UNCHANGED <<chainVars, dbVars>>, pc # "stopped",
         ReportedOK',
         faults' \in 0 .. MaxFaults, fresh' \in BOOLEAN
  PROVE  IndInv'
<1>1. RowsOK'
  BY RowsFromInd DEF RowsOK, NothingBeyondCursor, dbVars
<1>. QED
  BY <1>1, ThrowInd

(* A rollback to a block the index holds.                                    *)
LEMMA RollBackRows ==
  ASSUME IndInv, NEW r \in Blocks, StartBlock <= r, r <= cursor, RollBack(r)
  PROVE  RowsOK'
<1>1. cursor \in StartBlock - 1 .. MaxBlock
  BY ConstantsAssumption, BoundsAssumption DEF IndInv, TypeOK, None, Blocks
<1>2. cursor' \in StartBlock - 1 .. MaxBlock
  BY <1>1, ConstantsAssumption, BoundsAssumption DEF RollBack, Blocks
<1>3. /\ hashes' \in [Blocks -> {None} \union Forks]
      /\ events' \in [Blocks -> {None} \union Forks]
      /\ status' \in [Blocks -> Statuses]
  BY DEF IndInv, TypeOK, RollBack, Statuses
<1>4. NothingBeyondCursor'
  <2> SUFFICES ASSUME NEW b \in Blocks,
                      hashes'[b] # None \/ events'[b] # None \/ status'[b] # "absent"
               PROVE  StartBlock <= b /\ b <= cursor'
    BY DEF NothingBeyondCursor
  <2>1. ~(b >= r)
    BY DEF RollBack
  <2>2. hashes[b] # None \/ events[b] # None \/ status[b] # "absent"
    BY <2>1 DEF RollBack
  <2>3. StartBlock <= b
    BY <2>2 DEF IndInv, NothingBeyondCursor
  <2>4. QED
    BY <2>1, <2>3, BoundsAssumption DEF RollBack, Blocks
<1>. QED
  BY <1>2, <1>3, <1>4 DEF RowsOK, RollBack

(* The rows a fetch writes.                                                  *)
LEMMA StoreRowsOK ==
  ASSUME IndInv, StoreRows
  PROVE  RowsOK' /\ cursor < cursor'
<1>1. /\ cursor \in StartBlock - 1 .. MaxBlock
      /\ FetchFrom = cursor + 1 /\ FetchTo \in Blocks /\ FetchFrom <= FetchTo
  BY RangeFacts, ConstantsAssumption DEF IndInv, StoreRows, FetchFrom
<1>2. cursor' \in StartBlock - 1 .. MaxBlock /\ cursor < cursor'
  BY <1>1, ConstantsAssumption, BoundsAssumption DEF StoreRows, Blocks
<1>3. /\ hashes' \in [Blocks -> {None} \union Forks]
      /\ events' \in [Blocks -> {None} \union Forks]
      /\ status' \in [Blocks -> Statuses]
  BY DEF IndInv, TypeOK, StoreRows, Statuses
<1>4. NothingBeyondCursor'
  <2> SUFFICES ASSUME NEW b \in Blocks,
                      hashes'[b] # None \/ events'[b] # None \/ status'[b] # "absent"
               PROVE  StartBlock <= b /\ b <= cursor'
    BY DEF NothingBeyondCursor
  <2>1. \/ hashes[b] # None \/ events[b] # None \/ status[b] # "absent"
        \/ logs[b] # None
        \/ b \in ContiguousStart .. FetchTo
    BY DEF StoreRows, FetchedBlocks, WantedBlocks
  <2>2. CASE hashes[b] # None \/ events[b] # None \/ status[b] # "absent"
    BY <2>2, <1>1, <1>2, BoundsAssumption, ConstantsAssumption
       DEF IndInv, NothingBeyondCursor, Blocks
  <2>3. CASE logs[b] # None
    BY <2>3, <1>1, BoundsAssumption, ConstantsAssumption
       DEF IndInv, LogsInv, StoreRows, Blocks
  <2>4. CASE b \in ContiguousStart .. FetchTo
    <3>1. safe \in Int /\ HashWindow \in Int
      BY ConstantsAssumption DEF IndInv, TypeOK, HashWindow, Blocks, None
    <3>2. QED
      BY <2>4, <3>1, <1>1, BoundsAssumption, ConstantsAssumption
         DEF StoreRows, ContiguousStart, Larger, Blocks
  <2>5. QED
    BY <2>1, <2>2, <2>3, <2>4
<1>. QED
  BY <1>2, <1>3, <1>4 DEF RowsOK, StoreRows, IndInv, TypeOK

-----------------------------------------------------------------------------
(* One lemma per part of the next-state relation.                            *)

(* The chain may grow or reorganise under the loop at any moment.            *)
LEMMA ChainStepInd ==
  ASSUME IndInv, ChainStep
  PROVE  IndInv'
<1>1. /\ head' \in 0 .. MaxBlock /\ chain' \in [Blocks -> Forks]
      /\ forks' \in Forks /\ fresh' \in BOOLEAN
  <2>1. CASE Grow
    BY <2>1, BoundsAssumption DEF Grow, IndInv, TypeOK
  <2>2. ASSUME NEW r \in Blocks, NEW h \in Blocks, Reorg(r, h)
        PROVE  /\ head' \in 0 .. MaxBlock /\ chain' \in [Blocks -> Forks]
               /\ forks' \in Forks /\ fresh' \in BOOLEAN
    <3>1. forks + 1 \in Forks
      BY <2>2, BoundsAssumption DEF Reorg, IndInv, TypeOK, Forks
    <3>2. chain' \in [Blocks -> Forks]
      BY <2>2, <3>1 DEF Reorg, IndInv, TypeOK
    <3>3. head' \in 0 .. MaxBlock
      BY <2>2, BoundsAssumption DEF Reorg, Blocks
    <3>4. forks' \in Forks /\ fresh' \in BOOLEAN
      BY <2>2, <3>1 DEF Reorg
    <3>5. QED
      BY <3>2, <3>3, <3>4
  <2>3. QED
    BY <2>1, <2>2 DEF ChainStep
<1>2. UNCHANGED <<dbVars, pc, memVars, errors, iterVars, reported, faults>>
  BY DEF ChainStep, Grow, Reorg
<1>3. TypeOK'
  BY <1>1, <1>2 DEF IndInv, TypeOK, dbVars, memVars, iterVars
<1>4. ControlInv' /\ LogsInv' /\ FallbackInv' /\ NothingBeyondCursor'
  BY <1>2 DEF IndInv, ControlInv, LogsInv, FallbackInv, NothingBeyondCursor,
              FetchFrom, FetchTo, dbVars, memVars, iterVars
<1>. QED
  BY <1>3, <1>4 DEF IndInv

(* Start reloads the pending validation from the cursor row.                 *)
LEMMA StartInd ==
  ASSUME IndInv, Start
  PROVE  IndInv'
<1>1. cursor' \in StartBlock - 1 .. MaxBlock /\ cursor' # None
  BY ConstantsAssumption, BoundsAssumption DEF IndInv, TypeOK, Start, None
<1>2. TypeOK'
  BY <1>1 DEF IndInv, TypeOK, Start, chainVars, iterVars
<1>3. ControlInv'
  <2>1. reported # None => cursor' = cursor
    BY ConstantsAssumption, BoundsAssumption
       DEF IndInv, TypeOK, ControlInv, Start, None
  <2>2. QED
    BY <1>1, <2>1 DEF IndInv, ControlInv, Start, iterVars
<1>4. LogsInv' /\ FallbackInv'
  BY DEF Start, LogsInv, FallbackInv
<1>5. NothingBeyondCursor'
  BY <1>1, ConstantsAssumption, BoundsAssumption
     DEF IndInv, NothingBeyondCursor, TypeOK, Start, Blocks, None
<1>. QED
  BY <1>2, <1>3, <1>4, <1>5 DEF IndInv

(* The rollback script, run between two lives of the process.                *)
LEMMA OperatorRollbackInd ==
  ASSUME IndInv, OperatorRollback
  PROVE  IndInv'
<1>1. reported \in Blocks /\ StartBlock <= reported /\ reported <= cursor
  BY DEF IndInv, TypeOK, ControlInv, OperatorRollback
<1>2. RowsOK'
  BY <1>1, RollBackRows DEF OperatorRollback
<1>3. TypeOK'
  BY <1>2 DEF IndInv, TypeOK, RowsOK, OperatorRollback, chainVars, memVars,
              iterVars
<1>4. ControlInv'
  BY DEF IndInv, ControlInv, OperatorRollback, iterVars
<1>5. LogsInv' /\ FallbackInv' /\ NothingBeyondCursor'
  BY <1>2 DEF LogsInv, FallbackInv, RowsOK, OperatorRollback
<1>. QED
  BY <1>3, <1>4, <1>5 DEF IndInv

(* A crash loses the memory of the process and nothing else.                 *)
LEMMA CrashInd ==
  ASSUME IndInv, Crash
  PROVE  IndInv'
<1>1. TypeOK'
  <2>1. faults' \in 0 .. MaxFaults /\ errors' \in 0 .. MaxConsecutiveErrors - 1
    BY ConstantsAssumption, BoundsAssumption DEF IndInv, TypeOK, Crash
  <2>2. logs' \in [Blocks -> {None} \union Forks]
    BY DEF Crash, ClearIteration, NothingStored
  <2>3. QED
    BY <2>1, <2>2 DEF IndInv, TypeOK, Crash, ClearIteration, chainVars, dbVars
<1>2. ControlInv'
  BY DEF IndInv, ControlInv, Crash, ClearIteration, dbVars
<1>3. LogsInv' /\ FallbackInv' /\ NothingBeyondCursor'
  BY DEF IndInv, LogsInv, FallbackInv, NothingBeyondCursor, Crash, dbVars
<1>. QED
  BY <1>1, <1>2, <1>3 DEF IndInv

(* A failing RPC call or query ends the iteration.                           *)
LEMMA FaultInd ==
  ASSUME IndInv, Fault
  PROVE  IndInv'
<1>1. faults' \in 0 .. MaxFaults /\ fresh' \in BOOLEAN /\ ReportedOK'
  BY RowsFromInd, BoundsAssumption
     DEF IndInv, TypeOK, Fault, ReportedOK, dbVars
<1>. QED
  BY <1>1, PlainThrowInd DEF Fault

(* The steps of detect().                                                    *)
LEMMA DetectInd ==
  ASSUME IndInv, Detect
  PROVE  IndInv'
<1> USE ConstantsAssumption, BoundsAssumption
<1>1. pc # "stopped"
  BY DEF Detect, DetectBegin, ScanStep, ScanSkip, ScanMismatch, Scanning,
         ScanBeyondHead, ScanEnd
<1>2. /\ cursor \in StartBlock - 1 .. MaxBlock
      /\ ScanFrom \in Int /\ StartBlock <= ScanFrom
  BY <1>1, RangeFacts DEF IndInv
<1>3. UNCHANGED <<chainVars, dbVars, reported, faults>>
  BY DEF Detect, DetectBegin, ScanStep, ScanBeyondHead, ScanEnd
<1>4. ASSUME Throw, UNCHANGED fresh PROVE IndInv'
  <2>1. /\ ReportedOK' /\ faults' \in 0 .. MaxFaults /\ fresh' \in BOOLEAN
    BY <1>3, <1>4, RowsFromInd DEF ReportedOK, IndInv, TypeOK, dbVars
  <2>2. QED
    BY <1>1, <1>3, <1>4, <2>1, PlainThrowInd
<1>5. ASSUME UNCHANGED <<memVars, errors, safe, logs, fetchedTo, todo>>,
             fresh' \in BOOLEAN,
             pc' \in {"scan", "reorg", "fetch"},
             scanAt' \in {None} \union (0 .. MaxBlock),
             pc' = "scan" => StartBlock - 1 <= scanAt' /\ scanAt' <= cursor,
             earliest' \in {None} \union Blocks,
             earliest' # None =>
               pc' # "fetch" /\ StartBlock <= earliest' /\ earliest' <= cursor,
             pc' = "reorg" => earliest' # None
      PROVE  IndInv'
  <2>1. TypeOK'
    BY <1>3, <1>5 DEF IndInv, TypeOK, chainVars, dbVars, memVars
  <2>2. ControlInv'
    BY <1>1, <1>3, <1>5 DEF IndInv, ControlInv, dbVars
  <2>3. LogsInv' /\ FallbackInv' /\ NothingBeyondCursor'
    BY <1>3, <1>5 DEF IndInv, LogsInv, FallbackInv, NothingBeyondCursor, dbVars
  <2>4. QED
    BY <2>1, <2>2, <2>3 DEF IndInv
<1>6. CASE DetectBegin
  <2>1. earliest = None
    BY <1>6 DEF IndInv, ControlInv, DetectBegin
  <2>2. QED
    BY <1>2, <1>5, <1>6, <2>1 DEF DetectBegin, memVars, None
<1>7. CASE ScanStep
  <2>1. scanAt \in Blocks /\ StartBlock <= scanAt /\ scanAt <= cursor
    BY <1>2, <1>7
       DEF IndInv, TypeOK, ControlInv, ScanStep, ScanSkip, ScanMismatch,
           Scanning, Blocks, None
  <2>2. /\ scanAt' = scanAt - 1 /\ pc = "scan" /\ pc' = pc
        /\ earliest' \in {earliest, scanAt}
        /\ UNCHANGED <<memVars, errors, safe, logs, fetchedTo, todo, fresh>>
    BY <1>7 DEF ScanStep, ScanSkip, ScanMismatch, Scanning, memVars
  <2>3. scanAt' \in 0 .. MaxBlock /\ StartBlock - 1 <= scanAt' /\ scanAt' <= cursor
    BY <1>2, <2>1, <2>2 DEF Blocks
  <2>4. /\ earliest' \in {None} \union Blocks
        /\ earliest' # None => StartBlock <= earliest' /\ earliest' <= cursor
    BY <2>1, <2>2 DEF IndInv, TypeOK, ControlInv
  <2>5. QED
    BY <1>5, <2>2, <2>3, <2>4 DEF IndInv, TypeOK
<1>8. CASE ScanBeyondHead
  BY <1>4, <1>8 DEF ScanBeyondHead
<1>9. CASE ScanEnd
  <2>1. CASE earliest # None /\ cursor - earliest > MaxReorgDepth
    BY <1>4, <1>9, <2>1 DEF ScanEnd
  <2>2. CASE ~(earliest # None /\ cursor - earliest > MaxReorgDepth)
    BY <1>5, <1>9, <2>2 DEF ScanEnd, IndInv, TypeOK, ControlInv
  <2>3. QED
    BY <2>1, <2>2
<1>. QED
  BY <1>6, <1>7, <1>8, <1>9 DEF Detect

(* The rollback of an automatic recovery, or the report of a manual one.     *)
LEMMA RecoverInd ==
  ASSUME IndInv, HandleReorg \/ HandleReorgAckLost \/ ManualRecoveryRequired
  PROVE  IndInv'
<1>1. earliest \in Blocks /\ StartBlock <= earliest /\ earliest <= cursor
  BY DEF IndInv, TypeOK, ControlInv, HandleReorg, HandleReorgAckLost,
         ManualRecoveryRequired
<1>2. CASE HandleReorg
  <2>1. RowsOK'
    BY <1>1, <1>2, RollBackRows DEF HandleReorg
  <2>2. TypeOK'
    BY <1>1, <1>2, <2>1
       DEF IndInv, TypeOK, RowsOK, HandleReorg, chainVars
  <2>3. ControlInv'
    BY <1>2, <2>1, ConstantsAssumption, BoundsAssumption
       DEF IndInv, ControlInv, RowsOK, HandleReorg, None
  <2>4. LogsInv' /\ FallbackInv' /\ NothingBeyondCursor'
    BY <1>2, <2>1 DEF LogsInv, FallbackInv, RowsOK, HandleReorg
  <2>5. QED
    BY <2>2, <2>3, <2>4 DEF IndInv
<1>3. CASE HandleReorgAckLost
  <2>1. RowsOK' /\ reported' = reported /\ AutoHandleReorgs
    BY <1>1, <1>3, RollBackRows DEF HandleReorgAckLost
  <2>2. ReportedOK'
    BY <2>1, RowsFromInd DEF ReportedOK
  <2>3. faults' \in 0 .. MaxFaults /\ fresh' \in BOOLEAN
    BY <1>3, BoundsAssumption DEF IndInv, TypeOK, HandleReorgAckLost
  <2>4. QED
    BY <1>3, <2>1, <2>2, <2>3, ThrowInd DEF HandleReorgAckLost
<1>4. CASE ManualRecoveryRequired
  <2>1. ReportedOK' /\ faults' \in 0 .. MaxFaults /\ fresh' \in BOOLEAN
    BY <1>1, <1>4
       DEF IndInv, TypeOK, ManualRecoveryRequired, ReportedOK, dbVars
  <2>2. QED
    BY <1>4, <2>1, PlainThrowInd DEF ManualRecoveryRequired
<1>. QED
  BY <1>2, <1>3, <1>4

(* The steps of fetchAndStore().                                             *)
LEMMA FetchInd ==
  ASSUME IndInv, Fetch \/ StoreAckLost
  PROVE  IndInv'
<1> USE ConstantsAssumption, BoundsAssumption
<1>1. pc \in {"fetch", "logs", "store"} /\ earliest = None /\ cursor # None
  BY DEF IndInv, ControlInv, Fetch, FetchHead, FetchLogs, StoreFails, Store,
         StoreAckLost, StoreRows
<1>2. cursor \in StartBlock - 1 .. MaxBlock
  BY <1>1 DEF IndInv, TypeOK
<1>3. ASSUME Throw, UNCHANGED <<chainVars, dbVars, reported, faults, fresh>>
      PROVE  IndInv'
  <2>1. /\ ReportedOK' /\ faults' \in 0 .. MaxFaults /\ fresh' \in BOOLEAN
    BY <1>3, RowsFromInd DEF ReportedOK, IndInv, TypeOK, dbVars
  <2>2. QED
    BY <1>1, <1>3, <2>1, PlainThrowInd
<1>4. CASE FetchHead
  <2>1. CASE head <= Confirmations
    BY <1>3, <1>4, <2>1 DEF FetchHead
  <2>2. CASE ~(head <= Confirmations)
    <3>1. /\ safe' \in Blocks /\ safe' = head - Confirmations
          /\ fetchedTo' = None
          /\ pc' \in {"process", "logs"} /\ (pc' = "logs" => cursor < safe')
          /\ UNCHANGED <<chainVars, dbVars, errors, memVars, scanAt, earliest,
                         logs, todo, reported, faults, fresh>>
      BY <1>2, <1>4, <2>2 DEF FetchHead, CaughtUp, IndInv, TypeOK, Blocks
    <3>2. TypeOK'
      BY <3>1 DEF IndInv, TypeOK, chainVars, dbVars, memVars
    <3>3. ControlInv'
      BY <1>1, <3>1 DEF IndInv, ControlInv, dbVars
    <3>4. LogsInv' /\ FallbackInv' /\ NothingBeyondCursor'
      BY <3>1 DEF IndInv, LogsInv, FallbackInv, NothingBeyondCursor, dbVars
    <3>5. QED
      BY <3>2, <3>3, <3>4 DEF IndInv
  <2>3. QED
    BY <2>1, <2>2
<1>5. CASE FetchLogs
  <2>1. logs' \in [Blocks -> {None} \union Forks]
    BY <1>5 DEF FetchLogs, IndInv, TypeOK
  <2>2. TypeOK'
    BY <1>5, <2>1 DEF FetchLogs, IndInv, TypeOK, chainVars, dbVars, memVars
  <2>3. ControlInv'
    BY <1>1, <1>5 DEF FetchLogs, IndInv, ControlInv, dbVars
  <2>4. LogsInv'
    <3>1. FetchFrom' = FetchFrom /\ FetchTo' = FetchTo
      BY <1>5 DEF FetchLogs, FetchFrom, FetchTo, dbVars
    <3>2. \A b \in Blocks : logs'[b] # None => b \in FetchFrom .. FetchTo
      BY <1>5 DEF FetchLogs
    <3>3. FetchFrom \in Int /\ FetchTo \in Int
      BY <1>1, <1>5, RangeFacts DEF IndInv, FetchLogs, Blocks
    <3>4. QED
      BY <3>1, <3>2, <3>3 DEF LogsInv
  <2>5. FallbackInv' /\ NothingBeyondCursor'
    BY <1>5 DEF FetchLogs, IndInv, FallbackInv, NothingBeyondCursor, dbVars
  <2>6. QED
    BY <2>2, <2>3, <2>4, <2>5 DEF IndInv
<1>6. CASE StoreFails
  BY <1>3, <1>6 DEF StoreFails
<1>7. ASSUME StoreRows PROVE RowsOK' /\ cursor < cursor' /\ FetchTo \in Blocks
  BY <1>1, <1>7, StoreRowsOK, RangeFacts DEF IndInv, StoreRows
<1>8. ASSUME StoreRows, UNCHANGED reported PROVE ReportedOK'
  BY <1>2, <1>7, <1>8, RowsFromInd DEF ReportedOK, RowsOK, Blocks
<1>9. CASE Store
  <2>1. TypeOK'
    BY <1>7, <1>9
       DEF Store, IndInv, TypeOK, RowsOK, chainVars, memVars, NothingStored
  <2>2. ControlInv'
    BY <1>1, <1>7, <1>8, <1>9 DEF Store, ControlInv, RowsOK, ReportedOK, None
  <2>3. LogsInv' /\ FallbackInv' /\ NothingBeyondCursor'
    BY <1>7, <1>9 DEF Store, LogsInv, FallbackInv, RowsOK
  <2>4. QED
    BY <2>1, <2>2, <2>3 DEF IndInv
<1>10. CASE StoreAckLost
  <2>1. faults' \in 0 .. MaxFaults /\ fresh' \in BOOLEAN
    BY <1>10 DEF StoreAckLost, IndInv, TypeOK
  <2>2. QED
    BY <1>7, <1>8, <1>10, <2>1, ThrowInd DEF StoreAckLost
<1>. QED
  BY <1>4, <1>5, <1>6, <1>9, <1>10 DEF Fetch

(* The batch is a prefix of the pending events.                              *)
LEMMA BatchIsPrefix ==
  ASSUME TypeOK, NEW b \in Batch, NEW p \in Pending, p < b
  PROVE  p \in Batch
<1> DEFINE Before(x) == {q \in Pending : q < x}
<1> USE BoundsAssumption, ConstantsAssumption
<1>1. b \in Blocks /\ p \in Blocks
  BY DEF Batch, Pending
<1>2. IsFiniteSet(Before(b))
  <2>1. IsFiniteSet(Blocks)
    BY FS_Interval DEF Blocks
  <2>2. Before(b) \subseteq Blocks
    BY DEF Pending
  <2>3. QED
    BY <2>1, <2>2, FS_Subset
<1>3. Before(p) \subseteq Before(b)
  BY <1>1 DEF Pending, Blocks
<1>4. /\ Cardinality(Before(p)) <= Cardinality(Before(b))
      /\ Cardinality(Before(p)) \in Nat /\ Cardinality(Before(b)) \in Nat
  BY <1>2, <1>3, FS_Subset, FS_CardinalityType
<1>5. Cardinality(Before(b)) < ProcessBatchSize
  BY DEF Batch
<1>. QED
  BY <1>4, <1>5 DEF Batch

(* The steps of processBatch() and of its fallback.                          *)
LEMMA ProcessInd ==
  ASSUME IndInv, Process
  PROVE  IndInv'
<1>1. /\ pc \in {"process", "fallback"} /\ pc' \in {"validate", "fallback"}
      /\ UNCHANGED <<chainVars, cursor, pendFrom, pendTarget, hashes, events,
                     memVars, errors, scanAt, earliest, safe, logs, fetchedTo,
                     reported, faults, fresh>>
  BY DEF Process, ProcessBatch, FallBack, ProcessEvent, dbVars, iterVars
<1>2. ASSUME status' \in [Blocks -> Statuses], todo' \subseteq Blocks,
             \A b \in Blocks : status'[b] # "absent" => status[b] # "absent",
             FallbackInv'
      PROVE  IndInv'
  <2>1. TypeOK'
    BY <1>1, <1>2 DEF IndInv, TypeOK, chainVars, memVars
  <2>2. ControlInv' /\ LogsInv'
    BY <1>1 DEF IndInv, ControlInv, LogsInv
  <2>3. NothingBeyondCursor'
    BY <1>1, <1>2 DEF IndInv, NothingBeyondCursor
  <2>4. QED
    BY <1>2, <2>1, <2>2, <2>3 DEF IndInv
<1>3. CASE ProcessBatch
  <2>1. /\ status' \in [Blocks -> Statuses] /\ todo' \subseteq Blocks
        /\ FallbackInv'
    BY <1>3 DEF ProcessBatch, iterVars, IndInv, TypeOK, FallbackInv, Statuses
  <2>2. \A b \in Blocks : status'[b] # "absent" => status[b] # "absent"
    BY <1>3 DEF ProcessBatch, Batch, Pending
  <2>3. QED
    BY <1>2, <2>1, <2>2
<1>4. CASE FallBack
  <2>1. /\ status' = status /\ todo' = Batch /\ Batch \subseteq Pending
    BY <1>4 DEF FallBack, dbVars, Batch
  <2>2. FallbackInv'
    BY <2>1, BatchIsPrefix DEF FallbackInv, IndInv, Pending
  <2>3. QED
    BY <1>2, <2>1, <2>2 DEF IndInv, TypeOK, Pending
<1>5. ASSUME NEW b \in Blocks, ProcessEvent(b)
      PROVE  IndInv'
  <2>1. b \in todo /\ todo' = todo \ {b} /\ pc = "fallback"
    BY <1>5 DEF ProcessEvent
  <2>2. PICK o \in Outcomes : status' = [status EXCEPT ![b] = o]
    BY <1>5 DEF ProcessEvent
  <2>3. status' \in [Blocks -> Statuses] /\ todo' \subseteq Blocks
    BY <2>1, <2>2 DEF IndInv, TypeOK, Outcomes, Statuses
  <2>4. /\ status[b] = "pending" /\ status'[b] # "pending"
        /\ \A q \in Blocks : q # b => status'[q] = status[q]
    BY <2>1, <2>2 DEF IndInv, TypeOK, FallbackInv, Outcomes
  <2>5. \A q \in Blocks : status'[q] # "absent" => status[q] # "absent"
    BY <2>4
  <2>6. FallbackInv'
    BY <2>1, <2>4 DEF IndInv, TypeOK, FallbackInv
  <2>7. QED
    BY <1>2, <2>3, <2>5, <2>6
<1>. QED
  BY <1>3, <1>4, <1>5 DEF Process

(* The steps that end an iteration.                                          *)
LEMMA ValidateInd ==
  ASSUME IndInv, Validate \/ ValidationAckLost
  PROVE  IndInv'
<1>1. pc = "validate" /\ earliest = None
  BY DEF IndInv, ControlInv, Validate, PersistTarget, ValidateCleanup,
         NoValidation, ValidationAckLost, Validating
<1>2. RowsOK /\ ReportedOK
  BY <1>1, RowsFromInd
<1>3. /\ pendFrom' \in {None} \union Blocks
      /\ pendTarget' \in {None} \union Blocks
      /\ UNCHANGED <<chainVars, cursor, hashes, events, status, reported, fresh>>
  BY DEF IndInv, TypeOK, Validate, PersistTarget, ValidateCleanup,
         NoValidation, ValidationAckLost, dbVars
<1>4. RowsOK' /\ ReportedOK'
  BY <1>2, <1>3 DEF RowsOK, ReportedOK, NothingBeyondCursor
<1>5. CASE ValidationAckLost
  <2>1. faults' \in 0 .. MaxFaults /\ fresh' \in BOOLEAN
    BY <1>3, <1>5, BoundsAssumption DEF ValidationAckLost, IndInv, TypeOK
  <2>2. QED
    BY <1>3, <1>4, <1>5, <2>1, ThrowInd DEF ValidationAckLost
<1>6. CASE Validate
  <2>1. /\ pc' \in {"validate", "idle"} /\ errors' \in 0 .. MaxConsecutiveErrors - 1
        /\ memFrom' \in {None} \union Blocks
        /\ memTarget' \in {None} \union Blocks
        /\ faults' = faults
        /\ scanAt' \in {None, scanAt} /\ earliest' = None
        /\ safe' \in {None, safe} /\ fetchedTo' \in {None, fetchedTo}
    BY <1>1, <1>6, ConstantsAssumption
       DEF Validate, PersistTarget, ValidateCleanup, NoValidation,
           FinishIteration, ClearIteration, IndInv, TypeOK, iterVars, memVars
  <2>2. logs' \in [Blocks -> {None} \union Forks] /\ todo' \subseteq Blocks
    BY <1>6 DEF Validate, PersistTarget, ValidateCleanup, NoValidation,
                FinishIteration, ClearIteration, IndInv, TypeOK, iterVars,
                NothingStored
  <2>3. TypeOK'
    BY <1>3, <1>4, <2>1, <2>2 DEF IndInv, TypeOK, RowsOK, ReportedOK, chainVars
  <2>4. ControlInv'
    BY <1>2, <1>3, <1>4, <2>1, ConstantsAssumption
       DEF ControlInv, RowsOK, ReportedOK, None
  <2>5. LogsInv' /\ FallbackInv' /\ NothingBeyondCursor'
    BY <1>4, <2>1 DEF LogsInv, FallbackInv, RowsOK
  <2>6. QED
    BY <2>3, <2>4, <2>5 DEF IndInv
<1>. QED
  BY <1>5, <1>6

(* Every step of the system keeps the invariant.                             *)
LEMMA NextInd ==
  ASSUME IndInv, [Next]_vars
  PROVE  IndInv'
<1>1. CASE Iteration
  BY <1>1, DetectInd, RecoverInd, FetchInd, ProcessInd, ValidateInd
     DEF Iteration, Recover
<1>2. CASE Failure
  BY <1>2, CrashInd, FaultInd, RecoverInd, FetchInd, ValidateInd DEF Failure
<1>3. CASE UNCHANGED vars
  <2>1. UNCHANGED <<head, chain, forks, cursor, pendFrom, pendTarget, hashes,
                    events, status, pc, memFrom, memTarget, errors, scanAt,
                    earliest, safe, logs, fetchedTo, todo, reported, faults,
                    fresh>>
    BY <1>3 DEF vars, chainVars, dbVars, memVars, iterVars
  <2>2. TypeOK'
    BY <2>1 DEF IndInv, TypeOK
  <2>3. ControlInv' /\ LogsInv' /\ FallbackInv' /\ NothingBeyondCursor'
    BY <2>1 DEF IndInv, ControlInv, LogsInv, FallbackInv, NothingBeyondCursor,
                FetchFrom, FetchTo
  <2>4. QED
    BY <2>2, <2>3 DEF IndInv
<1>. QED
  BY <1>1, <1>2, <1>3, ChainStepInd, StartInd, OperatorRollbackInd DEF Next

(* The inductive invariant holds in every reachable state of the loop.       *)
THEOREM IndexInvariant == Spec => []IndInv
BY InitInd, NextInd, PTL DEF Spec

(* The variables of the indexer stay in their types.                         *)
THEOREM TypeCorrect == Spec => []TypeOK
<1>1. IndInv => TypeOK
  BY DEF IndInv
<1>. QED
  BY <1>1, IndexInvariant, PTL

(* No row outlives the cursor: at every moment, whatever reorgs, crashes and *)
(* lost answers there were, nothing is stored beyond the cursor.             *)
THEOREM StoredWithinCursor == Spec => []NothingBeyondCursor
<1>1. IndInv => NothingBeyondCursor
  BY DEF IndInv
<1>. QED
  BY <1>1, IndexInvariant, PTL

-----------------------------------------------------------------------------
(* Refinement: the rows implement EventIndex.                                *)

(* The empty database is an empty index.                                     *)
LEMMA InitRefines == Init => Index!Init
BY DEF Init, Index!Init, NothingStored, None

(* A rollback is a Rewind of the index.                                      *)
LEMMA RollBackRefines ==
  ASSUME IndInv, NEW r \in Blocks, StartBlock <= r, r <= cursor, RollBack(r)
  PROVE  Index!Next
<1>1. cursor # None
  BY ConstantsAssumption DEF None, Blocks, IndInv, TypeOK
<1>2. Index!Rewind(r)
  BY <1>1 DEF Index!Rewind, RollBack, None
<1>. QED
  BY <1>2 DEF Index!Next

(* The rows of a fetch are an Extend of the index.                           *)
LEMMA StoreRefines ==
  ASSUME IndInv, StoreRows
  PROVE  Index!Next
<1> USE ConstantsAssumption, BoundsAssumption
<1>1. /\ cursor \in StartBlock - 1 .. MaxBlock /\ cursor' = FetchTo
      /\ FetchTo \in Blocks /\ FetchFrom = cursor + 1 /\ cursor < cursor'
  BY RangeFacts, StoreRowsOK DEF IndInv, StoreRows, FetchFrom
<1>2. \A b \in Blocks : logs[b] # None => cursor < b /\ b <= cursor'
  BY <1>1 DEF IndInv, LogsInv, StoreRows, Blocks
<1>3. \A b \in Blocks : b > cursor => events[b] = None /\ status[b] = "absent"
  BY <1>1 DEF IndInv, NothingBeyondCursor, Blocks
<1>4. events' \in [Blocks -> Forks \union {None}]
  BY StoreRowsOK DEF RowsOK
<1>5. \A b \in Blocks :
        events'[b] = IF logs[b] # None THEN logs[b] ELSE events[b]
  BY <1>2, <1>3 DEF StoreRows
<1>6. \A b \in Blocks : (b <= cursor \/ b > cursor') => events'[b] = events[b]
  BY <1>1, <1>2, <1>5 DEF Blocks
<1>7. status' = [b \in Blocks |->
                   IF b > cursor /\ b <= cursor' /\ events'[b] # None
                     THEN "pending" ELSE status[b]]
  BY <1>2, <1>3, <1>5 DEF StoreRows
<1>8. cursor # None /\ cursor' \in Blocks /\ cursor' > cursor
  BY <1>1 DEF None, Blocks
<1>9. Index!Extend
  BY <1>4, <1>6, <1>7, <1>8 DEF Index!Extend, None
<1>. QED
  BY <1>9 DEF Index!Next

(* A batch, or one event of its fallback, is a Settle of the index.          *)
LEMMA ProcessRefines ==
  ASSUME IndInv, Process
  PROVE  [Index!Next]_(Index!vars)
<1>1. CASE ProcessBatch
  <2>1. Index!Settle(Batch)
    <3>1. \A b \in Batch : b \in Blocks /\ status[b] = "pending" /\ status'[b] = "processed"
      BY <1>1 DEF ProcessBatch, Batch, Pending
    <3>2. \A b \in Batch : \A p \in Blocks :
            status[p] = "pending" /\ p < b => p \in Batch
      BY BatchIsPrefix DEF IndInv, Pending
    <3>3. status' = [b \in Blocks |-> IF b \in Batch THEN status'[b] ELSE status[b]]
      BY <1>1, <3>1 DEF ProcessBatch
    <3>4. QED
      BY <1>1, <3>1, <3>2, <3>3 DEF Index!Settle, ProcessBatch
  <2>2. Batch \in SUBSET Blocks
    BY DEF Batch, Pending
  <2>3. QED
    BY <2>1, <2>2 DEF Index!Next
<1>2. CASE FallBack
  BY <1>2 DEF FallBack, dbVars, Index!vars
<1>3. ASSUME NEW b \in Blocks, ProcessEvent(b)
      PROVE  Index!Next
  <2>1. /\ b \in todo /\ pc = "fallback" /\ \A other \in todo : b <= other
        /\ UNCHANGED <<cursor, events>>
    BY <1>3 DEF ProcessEvent
  <2>2. PICK o \in Outcomes : status' = [status EXCEPT ![b] = o]
    BY <1>3 DEF ProcessEvent
  <2>3. status[b] = "pending" /\ status'[b] \in {"processed", "failed"}
    BY <2>1, <2>2 DEF IndInv, TypeOK, FallbackInv, Outcomes
  <2>4. \A p \in Blocks : status[p] = "pending" /\ p < b => p \in {b}
    <3>1. SUFFICES ASSUME NEW p \in Blocks, status[p] = "pending", p < b
                   PROVE  FALSE
      OBVIOUS
    <3>2. p \in todo
      BY <2>1, <3>1 DEF IndInv, FallbackInv
    <3>3. QED
      BY <2>1, <3>1, <3>2, BoundsAssumption DEF Blocks
  <2>5. status' = [q \in Blocks |-> IF q \in {b} THEN status'[q] ELSE status[q]]
    BY <2>2 DEF IndInv, TypeOK
  <2>6. Index!Settle({b})
    BY <2>1, <2>3, <2>4, <2>5 DEF Index!Settle
  <2>7. QED
    BY <2>6 DEF Index!Next
<1>. QED
  BY <1>1, <1>2, <1>3 DEF Process

(* Every step of the loop is a step of the index or leaves it alone.         *)
LEMMA NextRefines ==
  ASSUME IndInv, [Next]_vars
  PROVE  [Index!Next]_(Index!vars)
<1>1. ASSUME UNCHANGED dbVars PROVE UNCHANGED Index!vars
  BY <1>1 DEF dbVars, Index!vars
<1>2. CASE Iteration
  <2>1. CASE Detect
    BY <1>1, <2>1 DEF Detect, DetectBegin, ScanStep, ScanBeyondHead, ScanEnd
  <2>2. CASE HandleReorg
    <3>1. earliest \in Blocks /\ StartBlock <= earliest /\ earliest <= cursor
      BY <2>2 DEF IndInv, TypeOK, ControlInv, HandleReorg
    <3>2. QED
      BY <2>2, <3>1, RollBackRefines DEF HandleReorg
  <2>3. CASE ManualRecoveryRequired
    BY <1>1, <2>3 DEF ManualRecoveryRequired
  <2>4. CASE Fetch
    BY <1>1, <2>4, StoreRefines DEF Fetch, FetchHead, FetchLogs, StoreFails, Store
  <2>5. CASE Process
    BY <2>5, ProcessRefines
  <2>6. CASE Validate
    BY <2>6 DEF Validate, PersistTarget, ValidateCleanup, NoValidation, dbVars,
                Index!vars
  <2>7. QED
    BY <1>2, <2>1, <2>2, <2>3, <2>4, <2>5, <2>6 DEF Iteration, Recover
<1>3. CASE Failure
  <2>1. CASE Crash \/ Fault
    BY <1>1, <2>1 DEF Crash, Fault
  <2>2. CASE HandleReorgAckLost
    <3>1. earliest \in Blocks /\ StartBlock <= earliest /\ earliest <= cursor
      BY <2>2 DEF IndInv, TypeOK, ControlInv, HandleReorgAckLost
    <3>2. QED
      BY <2>2, <3>1, RollBackRefines DEF HandleReorgAckLost
  <2>3. CASE StoreAckLost
    BY <2>3, StoreRefines DEF StoreAckLost
  <2>4. CASE ValidationAckLost
    BY <2>4 DEF ValidationAckLost, Index!vars
  <2>5. QED
    BY <1>3, <2>1, <2>2, <2>3, <2>4 DEF Failure
<1>4. CASE ChainStep
  BY <1>1, <1>4 DEF ChainStep, Grow, Reorg
<1>5. CASE Start
  <2>1. CASE cursor = None
    BY <1>5, <2>1 DEF Start, Index!Next, Index!Open, None
  <2>2. CASE cursor # None
    BY <1>5, <2>2 DEF Start, Index!vars
  <2>3. QED
    BY <2>1, <2>2
<1>6. CASE OperatorRollback
  <2>1. reported \in Blocks /\ StartBlock <= reported /\ reported <= cursor
    BY <1>6 DEF IndInv, TypeOK, ControlInv, OperatorRollback
  <2>2. QED
    BY <1>6, <2>1, RollBackRefines DEF OperatorRollback
<1>7. CASE UNCHANGED vars
  BY <1>1, <1>7 DEF vars
<1>. QED
  BY <1>2, <1>3, <1>4, <1>5, <1>6, <1>7 DEF Next

(* To the readers of _cursor and _events the whole machinery of detection,   *)
(* recovery, fetching, fallback and restart is an EventIndex: it grows and   *)
(* is cut only at its end, and settles each event once and in order.         *)
THEOREM RefinesIndex == Spec => ImplementsIndex
BY InitRefines, NextRefines, IndexInvariant, PTL
   DEF Spec, ImplementsIndex, Index!Spec
=============================================================================
