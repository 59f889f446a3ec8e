------------------------- MODULE ChainDetectionProofs -------------------------
(* Proofs, for every value of the constants, that detection and recovery     *)
(* leave no replaced block in the index, that a reported reorg freezes it    *)
(* until the operator has acted, and that pruning and validation keep what   *)
(* they promise.                                                             *)
EXTENDS ChainIndexerProofs

(* What detect() has to find: r is the lowest block of which the index holds *)
(* a replaced version, and the scan, which starts at the cursor and stops at *)
(* the first equal hash, reaches it.                                         *)
LowestReplaced(r) ==
  /\ StartBlock <= r /\ r <= cursor /\ cursor - MaxReorgDepth < r
  /\ hashes[r] # None /\ ~IsNullRound(r)
  /\ \A b \in Blocks : r <= b => hashes[b] # chain[b]
  /\ \A b \in Blocks : b < r => b \notin Stale

Detectable == Agrees \/ \E r \in Blocks : LowestReplaced(r)

(* No hash is of a fork that is still to come.                               *)
ForkInv == \A b \in Blocks : chain[b] <= forks /\ hashes[b] <= forks

(* The chain is quiet while an iteration detects, recovers and reads logs.   *)
QuietInv == pc \in {"scan", "reorg", "fetch", "logs"} => fresh

(* The scan has found what it has passed.                                    *)
ScanInv ==
  /\ pc = "scan" =>
       \A r \in Blocks : LowestReplaced(r) /\ scanAt < r => earliest = r
  /\ earliest # None => earliest \in Stale
  /\ pc = "reorg" => LowestReplaced(earliest)

(* The logs are those of the chain, or the transaction is bound to fail.     *)
FetchInv ==
  /\ fresh /\ pc \in {"logs", "store"} => safe <= head
  /\ fresh /\ pc = "store" =>
       \A b \in Blocks : FetchFrom <= b /\ b <= FetchTo =>
         logs[b] = IF HasLog(b) THEN chain[b] ELSE None
  /\ ~fresh /\ pc = "store" => \E b \in WantedBlocks : b > head

(* A reported reorg is still in the index.                                   *)
ReportInv ==
  reported # None => ~Agrees /\ pc \in {"stopped", "idle", "scan", "reorg"}

DetectInv ==
  /\ ForkInv /\ Detectable /\ QuietInv /\ ScanInv /\ FetchInv /\ ReportInv
  /\ DetectionComplete

-----------------------------------------------------------------------------

(* What stands at a height and what is stored of it decide what is replaced. *)
LEMMA SameIndex ==
  ASSUME UNCHANGED <<chain, cursor, hashes, events>>
  PROVE  /\ Stale' = Stale /\ Agrees' = Agrees /\ Detectable' = Detectable
         /\ \A r \in Blocks : LowestReplaced(r)' = LowestReplaced(r)
<1>1. Stale' = Stale
  BY DEF Stale, HasLog
<1>2. \A r \in Blocks : LowestReplaced(r)' = LowestReplaced(r)
  BY <1>1 DEF LowestReplaced, IsNullRound
<1>3. Agrees' = Agrees
  BY <1>1 DEF Agrees
<1>4. (\E r \in Blocks : LowestReplaced(r))' = (\E r \in Blocks : LowestReplaced(r))
  BY <1>2
<1>. QED
  BY <1>1, <1>2, <1>3, <1>4 DEF Detectable

(* The lowest replaced block is replaced, so the index disagrees.            *)
LEMMA ReplacedIsStale ==
  ASSUME NEW r \in Blocks, LowestReplaced(r)
  PROVE  r \in Stale /\ ~Agrees
<1>1. StartBlock <= r /\ r <= cursor /\ hashes[r] \notin {None, chain[r]}
  BY BoundsAssumption DEF LowestReplaced, Blocks
<1>. QED
  BY <1>1 DEF Stale, Agrees

(* No block is replaced in an index that holds none.                         *)
LEMMA DisagreementIsReplaced ==
  ASSUME Detectable, ~Agrees
  PROVE  \E r \in Blocks : LowestReplaced(r)
BY DEF Detectable

(* A step that ends the iteration and leaves the index and the chain alone.  *)
LEMMA EndDetect ==
  ASSUME DetectInv, UNCHANGED <<chain, forks, cursor, hashes, events, reported>>,
         pc' \in {"stopped", "idle"}, earliest' = None
  PROVE  DetectInv'
<1>1. Stale' = Stale /\ Agrees' = Agrees /\ Detectable' = Detectable
  BY SameIndex
<1>2. ForkInv' /\ Detectable' /\ ReportInv'
  BY <1>1 DEF DetectInv, ForkInv, ReportInv
<1>3. QuietInv' /\ ScanInv' /\ FetchInv' /\ DetectionComplete'
  BY DEF QuietInv, ScanInv, FetchInv, DetectionComplete
<1>. QED
  BY <1>2, <1>3 DEF DetectInv

-----------------------------------------------------------------------------
(* The chain. *)

(* A reorg either spares the index or leaves a block that detect() reaches.  *)
LEMMA ReorgLeavesTrace ==
  ASSUME IndInv, ForkInv, Detectable, EnvAssumptions = Assumptions,
         NEW r \in Blocks, NEW h \in Blocks, StartBlock <= r, Reorg(r, h)
  PROVE  Detectable' /\ (~Agrees => ~Agrees')
<1> USE BoundsAssumption, ConstantsAssumption
<1>1. /\ UNCHANGED <<cursor, hashes, events>>
      /\ chain' = [b \in Blocks |-> IF b < r THEN chain[b] ELSE forks + 1]
  BY DEF Reorg, dbVars
<1>2. /\ \A b \in Blocks : b < r => chain'[b] = chain[b]
      /\ \A b \in Blocks : ~(b < r) => chain'[b] = forks + 1
  BY <1>1
<1>3. \A b \in Blocks : b < r => (b \in Stale' <=> b \in Stale)
  BY <1>1, <1>2 DEF Stale, HasLog
<1>4. forks \in Nat /\ \A b \in Blocks : hashes[b] \in Int
  BY DEF IndInv, TypeOK, Forks, None
<1>5. \A b \in Blocks : ~(b < r) => hashes'[b] # chain'[b]
  BY <1>1, <1>2, <1>4 DEF ForkInv
<1>6. cursor \in Int
  BY DEF IndInv, TypeOK, None
<1>7. r <= cursor =>
        /\ cursor - MaxReorgDepth < r /\ hashes[r] # None
        /\ <<r, forks + 1>> \notin NullRounds
  BY <1>6 DEF Reorg, ReorgAllowed, Assumptions, Blocks
<1>8. r <= cursor => hashes'[r] # None /\ ~IsNullRound(r)'
  BY <1>1, <1>2, <1>7 DEF IsNullRound, Blocks
<1>9. ASSUME NEW q \in Blocks, LowestReplaced(q)'
       PROVE  Detectable' /\ ~Agrees'
  <2>1. StartBlock <= q /\ q <= cursor' /\ hashes'[q] \notin {None, chain'[q]}
    BY <1>9 DEF LowestReplaced, Blocks
  <2>2. q \in Stale'
    BY <2>1 DEF Stale
  <2>3. QED
    BY <1>9, <2>2 DEF Detectable, Agrees
<1>10. CASE Agrees
  <2>1. \A b \in Blocks : b < r => b \notin Stale'
    BY <1>3, <1>10 DEF Agrees
  <2>2. CASE r <= cursor
    <3>1. LowestReplaced(r)'
      BY <1>1, <1>5, <1>7, <1>8, <2>1, <2>2 DEF LowestReplaced, Blocks
    <3>2. QED
      BY <1>10, <3>1 DEF Detectable
  <2>3. CASE ~(r <= cursor)
    <3>1. \A b \in Blocks : b \in Stale' => b < r
      BY <1>1, <1>6, <2>3 DEF Stale, Blocks
    <3>2. Agrees'
      BY <2>1, <3>1 DEF Agrees, Stale
    <3>3. QED
      BY <1>10, <3>2 DEF Detectable
  <2>4. QED
    BY <2>2, <2>3
<1>11. CASE ~Agrees
  <2>1. PICK q \in Blocks : LowestReplaced(q)
    BY <1>11 DEF Detectable
  <2>2. \A b \in Blocks : q <= b => hashes'[b] # chain'[b]
    BY <1>1, <1>2, <1>5, <2>1 DEF LowestReplaced
  <2>3. CASE q < r
    <3>1. hashes'[q] # None /\ ~IsNullRound(q)'
      BY <1>1, <1>2, <2>1, <2>3 DEF LowestReplaced, IsNullRound
    <3>2. \A b \in Blocks : b < q => b \notin Stale'
      BY <1>3, <2>1, <2>3 DEF LowestReplaced, Blocks
    <3>3. LowestReplaced(q)'
      BY <1>1, <2>1, <2>2, <3>1, <3>2 DEF LowestReplaced
    <3>4. QED
      BY <1>11, <1>9, <3>3
  <2>4. CASE ~(q < r)
    <3>1. r <= cursor
      BY <1>6, <2>1, <2>4 DEF LowestReplaced, Blocks
    <3>2. \A b \in Blocks : b < r => b \notin Stale'
      BY <1>3, <2>1, <2>4 DEF LowestReplaced, Blocks
    <3>3. LowestReplaced(r)'
      BY <1>1, <1>5, <1>7, <1>8, <3>1, <3>2 DEF LowestReplaced, Blocks
    <3>4. QED
      BY <1>11, <1>9, <3>3
  <2>5. QED
    BY <2>3, <2>4
<1>. QED
  BY <1>10, <1>11

(* The chain changes without any regard for the process, but quietly.        *)
LEMMA ChainStepDetect ==
  ASSUME IndInv, DetectInv, EnvAssumptions = Assumptions, ChainStep
  PROVE  DetectInv'
<1> USE BoundsAssumption, ConstantsAssumption
<1>1. CASE Grow
  <2>1. /\ UNCHANGED <<chain, forks, cursor, hashes, events, pc, scanAt, earliest,
                       safe, logs, reported, fresh>>
        /\ head \in Int /\ head' = head + 1
        /\ pc = "store" => \A b \in WantedBlocks : b <= head
    BY <1>1 DEF Grow, Assumptions, chainVars, dbVars, iterVars, IndInv, TypeOK
  <2>2. /\ Stale' = Stale /\ Agrees' = Agrees /\ Detectable' = Detectable
        /\ \A r \in Blocks : LowestReplaced(r)' = LowestReplaced(r)
    BY <2>1, SameIndex
  <2>3. ForkInv' /\ Detectable' /\ QuietInv' /\ ReportInv' /\ DetectionComplete'
    BY <2>1, <2>2
       DEF DetectInv, ForkInv, QuietInv, ReportInv, DetectionComplete
  <2>4. ScanInv'
    BY <2>1, <2>2 DEF DetectInv, ScanInv, IndInv, ControlInv, TypeOK
  <2>5. /\ FetchFrom' = FetchFrom /\ FetchTo' = FetchTo
        /\ WantedBlocks' = WantedBlocks
    BY <2>1 DEF FetchFrom, FetchTo, WantedBlocks, ContiguousStart
  <2>6. FetchInv'
    <3>1. fresh /\ pc \in {"logs", "store"} => safe <= head'
      <4>1. pc \in {"logs", "store"} => safe \in Int
        BY DEF IndInv, TypeOK, Blocks, None
      <4>2. QED
        BY <2>1, <4>1 DEF DetectInv, FetchInv
    <3>2. ~fresh => pc # "store"
      <4>1. WantedBlocks \subseteq Int
        BY DEF WantedBlocks, Blocks
      <4>2. QED
        BY <2>1, <4>1 DEF DetectInv, FetchInv
    <3>3. QED
      BY <2>1, <2>5, <3>1, <3>2 DEF DetectInv, FetchInv, HasLog
  <2>7. QED
    BY <2>3, <2>4, <2>6 DEF DetectInv
<1>2. ASSUME NEW r \in Blocks, NEW h \in Blocks, StartBlock <= r, Reorg(r, h)
      PROVE  DetectInv'
  <2>1. /\ UNCHANGED <<cursor, hashes, events, pc, scanAt, earliest, safe, logs,
                       reported>>
        /\ forks' = forks + 1 /\ fresh' = FALSE /\ head' = h
        /\ pc \notin {"scan", "reorg", "fetch", "logs"}
        /\ pc = "store" => \E b \in WantedBlocks : b > h
    BY <1>2 DEF Reorg, ReorgAllowed, Assumptions, dbVars, iterVars
  <2>2. ForkInv'
    <3>1. forks \in Int /\ \A b \in Blocks : hashes[b] \in Int /\ chain[b] \in Int
      BY DEF IndInv, TypeOK, Forks, None
    <3>2. \A b \in Blocks : chain'[b] \in {chain[b], forks + 1}
      BY <1>2 DEF Reorg
    <3>3. QED
      BY <2>1, <3>1, <3>2 DEF DetectInv, ForkInv
  <2>3. Detectable' /\ (~Agrees => ~Agrees')
    BY <1>2, ReorgLeavesTrace DEF DetectInv
  <2>4. QuietInv' /\ ReportInv' /\ DetectionComplete'
    BY <2>1, <2>3 DEF DetectInv, QuietInv, ReportInv, DetectionComplete
  <2>5. ScanInv'
    BY <2>1 DEF ScanInv, IndInv, ControlInv
  <2>6. FetchInv'
    <3>1. WantedBlocks' = WantedBlocks
      BY <2>1 DEF WantedBlocks, ContiguousStart, FetchFrom, FetchTo
    <3>2. QED
      BY <2>1, <3>1 DEF FetchInv
  <2>7. QED
    BY <2>2, <2>3, <2>4, <2>5, <2>6 DEF DetectInv
<1>. QED
  BY <1>1, <1>2 DEF ChainStep

-----------------------------------------------------------------------------
(* detect() and the recovery. *)

(* A mismatch that the scan meets is a replaced block.                       *)
LEMMA ScannedMismatch ==
  ASSUME IndInv, ScanMismatch
  PROVE  scanAt \in Stale
<1> USE BoundsAssumption, ConstantsAssumption
<1>1. pc = "scan" /\ scanAt >= ScanFrom /\ hashes[scanAt] \notin {None, chain[scanAt]}
  BY DEF ScanMismatch, Scanning
<1>2. ScanFrom \in Int /\ StartBlock <= ScanFrom /\ scanAt <= cursor
  BY <1>1, RangeFacts DEF IndInv, ControlInv
<1>3. scanAt \in Blocks /\ StartBlock <= scanAt
  BY <1>1, <1>2 DEF IndInv, TypeOK, Blocks, None
<1>. QED
  BY <1>1, <1>2, <1>3 DEF Stale

(* The scan steps down one block and never past a replaced one.              *)
LEMMA ScanStepDetect ==
  ASSUME IndInv, DetectInv, ScanStep
  PROVE  DetectInv'
<1> USE BoundsAssumption, ConstantsAssumption
<1>1. /\ UNCHANGED <<chain, head, forks, cursor, hashes, events, reported, fresh>>
      /\ pc = "scan" /\ pc' = pc /\ scanAt' = scanAt - 1 /\ scanAt \in Int
      /\ Scanning
  BY DEF ScanStep, ScanSkip, ScanMismatch, Scanning, chainVars, dbVars, IndInv,
         TypeOK, None
<1>2. /\ Stale' = Stale /\ Agrees' = Agrees /\ Detectable' = Detectable
      /\ \A r \in Blocks : LowestReplaced(r)' = LowestReplaced(r)
  BY <1>1, SameIndex
<1>3. ForkInv' /\ Detectable' /\ QuietInv' /\ FetchInv' /\ ReportInv'
      /\ DetectionComplete'
  BY <1>1, <1>2 DEF DetectInv, ForkInv, QuietInv, FetchInv, ReportInv,
                    DetectionComplete
<1>4. ASSUME NEW r \in Blocks, LowestReplaced(r), scanAt' < r
      PROVE  earliest' = r
  <2>1. CASE scanAt < r
    <3>1. earliest = r
      BY <1>1, <1>4, <2>1 DEF DetectInv, ScanInv
    <3>2. CASE ScanSkip
      BY <3>1, <3>2 DEF ScanSkip
    <3>3. CASE ScanMismatch
      <4>1. scanAt \in Blocks /\ scanAt \in Stale
        BY <3>3, ScannedMismatch DEF Stale
      <4>2. QED
        BY <1>4, <2>1, <4>1 DEF LowestReplaced
    <3>4. QED
      BY <3>2, <3>3 DEF ScanStep
  <2>2. CASE scanAt = r
    <3>1. hashes[r] # None /\ ~IsNullRound(r)
      BY <1>4 DEF LowestReplaced
    <3>2. ~ScanSkip
      BY <2>2, <3>1 DEF ScanSkip
    <3>3. QED
      BY <2>2, <3>2 DEF ScanStep, ScanMismatch
  <2>3. QED
    BY <1>1, <1>4, <2>1, <2>2 DEF Blocks
<1>5. earliest' # None => earliest' \in Stale
  BY ScannedMismatch DEF ScanStep, ScanSkip, ScanMismatch, DetectInv, ScanInv
<1>6. ScanInv'
  BY <1>1, <1>2, <1>4, <1>5 DEF ScanInv
<1>. QED
  BY <1>3, <1>6 DEF DetectInv

(* The scan window reaches down to the lowest replaced block.                *)
LEMMA WindowReaches ==
  ASSUME IndInv, pc # "stopped", NEW r \in Blocks, LowestReplaced(r)
  PROVE  ScanFrom <= r
<1>1. cursor \in Int
  BY ConstantsAssumption DEF IndInv, TypeOK, None
<1>. QED
  BY <1>1, ConstantsAssumption DEF LowestReplaced, ScanFrom, Larger, Blocks

(* The scan starts unless there is nothing to find.                          *)
LEMMA DetectBeginDetect ==
  ASSUME IndInv, DetectInv, DetectBegin
  PROVE  DetectInv'
<1> USE BoundsAssumption, ConstantsAssumption
<1>1. /\ UNCHANGED <<chain, head, forks, cursor, hashes, events, reported, earliest>>
      /\ pc = "idle" /\ fresh' = TRUE /\ pc' \in {"scan", "fetch"}
      /\ pc' = "scan" => scanAt' = cursor
  BY DEF DetectBegin, chainVars, dbVars
<1>2. /\ Stale' = Stale /\ Agrees' = Agrees /\ Detectable' = Detectable
      /\ \A r \in Blocks : LowestReplaced(r)' = LowestReplaced(r)
  BY <1>1, SameIndex
<1>3. pc' = "fetch" => Agrees
  <2>1. SUFFICES ASSUME NEW r \in Blocks, LowestReplaced(r) PROVE pc' = "scan"
    BY <1>1 DEF DetectInv, Detectable
  <2>2. ScanFrom <= r /\ r <= cursor /\ hashes[r] # None
    BY <1>1, <2>1, WindowReaches DEF LowestReplaced
  <2>3. ScanFrom \in Int /\ cursor \in Int
    BY <1>1, RangeFacts DEF IndInv
  <2>4. r \in ScanFrom .. cursor
    BY <2>2, <2>3 DEF Blocks
  <2>5. QED
    BY <2>2, <2>4 DEF DetectBegin
<1>4. earliest = None
  BY <1>1 DEF IndInv, ControlInv
<1>5. ForkInv' /\ Detectable' /\ QuietInv' /\ FetchInv'
  BY <1>1, <1>2 DEF DetectInv, ForkInv, QuietInv, FetchInv
<1>6. ReportInv' /\ DetectionComplete'
  BY <1>1, <1>2, <1>3 DEF DetectInv, ReportInv, DetectionComplete
<1>7. ScanInv'
  <2>1. \A r \in Blocks : LowestReplaced(r) => ~(cursor < r)
    <3>1. cursor \in Int
      BY <1>1, RangeFacts DEF IndInv
    <3>2. QED
      BY <3>1 DEF LowestReplaced, Blocks
  <2>2. QED
    BY <1>1, <1>2, <1>4, <2>1 DEF ScanInv
<1>. QED
  BY <1>5, <1>6, <1>7 DEF DetectInv

(* A scan that ends has found the lowest replaced block, if there is one.    *)
LEMMA ScanEndDetect ==
  ASSUME IndInv, DetectInv, ScanEnd
  PROVE  DetectInv'
<1> USE BoundsAssumption, ConstantsAssumption
<1>1. /\ UNCHANGED <<chain, head, forks, cursor, hashes, events, reported, fresh>>
      /\ pc = "scan"
      /\ scanAt < ScanFrom \/ hashes[scanAt] = chain[scanAt]
  BY DEF ScanEnd, chainVars, dbVars
<1>2. /\ Stale' = Stale /\ Agrees' = Agrees /\ Detectable' = Detectable
      /\ \A r \in Blocks : LowestReplaced(r)' = LowestReplaced(r)
  BY <1>1, SameIndex
<1>3. ASSUME NEW r \in Blocks, LowestReplaced(r) PROVE earliest = r
  <2>1. ScanFrom <= r /\ ScanFrom \in Int /\ scanAt \in Int
    BY <1>1, <1>3, WindowReaches, RangeFacts DEF IndInv, TypeOK, None
  <2>2. scanAt < r
    <3>1. CASE scanAt < ScanFrom
      BY <2>1, <3>1 DEF Blocks
    <3>2. CASE Scanning /\ hashes[scanAt] = chain[scanAt]
      <4>1. scanAt \in Blocks
        BY <1>1, <2>1, <3>2, RangeFacts
           DEF Scanning, IndInv, TypeOK, ControlInv, Blocks, None
      <4>2. QED
        BY <1>3, <2>1, <3>2, <4>1 DEF LowestReplaced, Blocks
    <3>3. QED
      BY <3>1, <3>2 DEF ScanEnd
  <2>3. QED
    BY <1>1, <1>3, <2>2 DEF DetectInv, ScanInv
<1>4. CASE pc' \in {"stopped", "idle"} /\ earliest' = None
  BY <1>1, <1>4, EndDetect
<1>5. CASE /\ pc' = IF earliest = None THEN "fetch" ELSE "reorg"
           /\ UNCHANGED earliest
  <2>1. earliest = None => Agrees
    BY <1>3, DisagreementIsReplaced DEF DetectInv, Blocks, None
  <2>2. earliest # None => LowestReplaced(earliest)
    <3>1. earliest # None => ~Agrees
      BY DEF DetectInv, ScanInv, Agrees
    <3>2. QED
      BY <1>3, <3>1, DisagreementIsReplaced DEF DetectInv
  <2>3. earliest # None => earliest \in Blocks
    BY DEF IndInv, TypeOK
  <2>4. fresh
    BY <1>1 DEF DetectInv, QuietInv
  <2>5. ForkInv' /\ Detectable' /\ QuietInv' /\ FetchInv'
    BY <1>1, <1>2, <1>5, <2>4 DEF DetectInv, ForkInv, QuietInv, FetchInv
  <2>6. ReportInv' /\ DetectionComplete'
    BY <1>1, <1>2, <1>5, <2>1 DEF DetectInv, ReportInv, DetectionComplete
  <2>7. ScanInv'
    BY <1>1, <1>2, <1>5, <2>2, <2>3 DEF DetectInv, ScanInv
  <2>8. QED
    BY <2>5, <2>6, <2>7 DEF DetectInv
<1>. QED
  BY <1>4, <1>5 DEF ScanEnd, Throw, ClearIteration

(* A rollback takes replaced blocks away and adds none; a rollback to the    *)
(* lowest replaced block takes all of them.                                  *)
LEMMA RollBackRepairs ==
  ASSUME IndInv, ForkInv, Detectable, NEW r \in Blocks, StartBlock <= r, r <= cursor,
         RollBack(r), UNCHANGED <<chain, forks>>
  PROVE  ForkInv' /\ Detectable' /\ (LowestReplaced(r) => Agrees')
<1> USE BoundsAssumption, ConstantsAssumption
<1>1. cursor \in Int /\ cursor' = r - 1
  BY DEF IndInv, TypeOK, RollBack, None
<1>2. \A b \in Blocks : /\ b < r => hashes'[b] = hashes[b] /\ events'[b] = events[b]
                        /\ ~(b < r) => hashes'[b] = None
  BY DEF RollBack, Blocks
<1>3. Stale' = {b \in Stale : b < r}
  BY <1>1, <1>2 DEF Stale, HasLog, Blocks
<1>4. ForkInv'
  <2>1. forks \in Nat
    BY DEF IndInv, TypeOK, Forks
  <2>2. \A b \in Blocks : hashes'[b] \in {None, hashes[b]}
    BY <1>2
  <2>3. QED
    BY <2>1, <2>2 DEF ForkInv, None
<1>5. LowestReplaced(r) => Agrees'
  BY <1>3 DEF LowestReplaced, Agrees, Stale
<1>6. Detectable'
  <2>1. CASE Agrees
    BY <1>3, <2>1 DEF Agrees, Detectable
  <2>2. ASSUME NEW q \in Blocks, LowestReplaced(q), ~(q < r)
        PROVE  Agrees'
    <3>1. \A b \in Blocks : b < r => b \notin Stale
      BY <2>2 DEF LowestReplaced, Blocks
    <3>2. QED
      BY <1>3, <3>1 DEF Agrees, Stale
  <2>3. ASSUME NEW q \in Blocks, LowestReplaced(q), q < r
        PROVE  LowestReplaced(q)'
    <3>1. q <= cursor' /\ cursor' - MaxReorgDepth < q
      BY <1>1, <2>3 DEF LowestReplaced, Blocks
    <3>2. \A b \in Blocks : q <= b => hashes'[b] # chain'[b]
      <4>1. \A b \in Blocks : chain[b] # None
        BY DEF IndInv, TypeOK, Forks, None
      <4>2. QED
        BY <1>2, <2>3, <4>1 DEF LowestReplaced
    <3>3. \A b \in Blocks : b < q => b \notin Stale'
      BY <1>3, <2>3 DEF LowestReplaced
    <3>4. QED
      BY <1>2, <2>3, <3>1, <3>2, <3>3 DEF LowestReplaced, IsNullRound
  <2>4. QED
    BY <2>1, <2>2, <2>3 DEF Detectable
<1>. QED
  BY <1>4, <1>5, <1>6

(* The recovery, automatic or by the operator.                               *)
LEMMA RecoverDetect ==
  ASSUME IndInv, DetectInv,
         Recover \/ HandleReorgAckLost \/ OperatorRollback
  PROVE  DetectInv'
<1> USE BoundsAssumption, ConstantsAssumption
<1>1. CASE HandleReorg \/ HandleReorgAckLost
  <2>1. /\ pc = "reorg" /\ RollBack(earliest) /\ AutoHandleReorgs
        /\ UNCHANGED <<chain, forks, reported, fresh>> /\ earliest' = None
        /\ pc' \in {"stopped", "idle", "fetch"}
    BY <1>1 DEF HandleReorg, HandleReorgAckLost, Throw, ClearIteration, chainVars
  <2>2. /\ earliest \in Blocks /\ StartBlock <= earliest /\ earliest <= cursor
        /\ LowestReplaced(earliest) /\ reported = None /\ fresh
    BY <2>1 DEF IndInv, TypeOK, ControlInv, DetectInv, ScanInv, QuietInv
  <2>3. ForkInv' /\ Detectable' /\ Agrees'
    BY <2>1, <2>2, RollBackRepairs DEF DetectInv
  <2>4. /\ QuietInv' /\ ScanInv' /\ FetchInv' /\ ReportInv'
        /\ DetectionComplete'
    BY <2>1, <2>2, <2>3
       DEF QuietInv, ScanInv, FetchInv, ReportInv, DetectionComplete
  <2>5. QED
    BY <2>3, <2>4 DEF DetectInv
<1>2. CASE ManualRecoveryRequired
  <2>1. /\ UNCHANGED <<chain, forks, cursor, hashes, events>> /\ earliest' = None
        /\ pc = "reorg" /\ pc' \in {"stopped", "idle"}
    BY <1>2 DEF ManualRecoveryRequired, Throw, ClearIteration, chainVars, dbVars
  <2>2. /\ Stale' = Stale /\ Agrees' = Agrees /\ Detectable' = Detectable
    BY <2>1, SameIndex
  <2>3. ~Agrees
    BY <2>1 DEF IndInv, ControlInv, DetectInv, ScanInv, Agrees
  <2>4. ForkInv' /\ Detectable' /\ ReportInv'
    BY <2>1, <2>2, <2>3 DEF DetectInv, ForkInv, ReportInv
  <2>5. QuietInv' /\ ScanInv' /\ FetchInv' /\ DetectionComplete'
    BY <2>1 DEF QuietInv, ScanInv, FetchInv, DetectionComplete
  <2>6. QED
    BY <2>4, <2>5 DEF DetectInv
<1>3. CASE OperatorRollback
  <2>1. /\ pc = "stopped" /\ pc' = pc /\ earliest' = earliest
        /\ reported # None /\ RollBack(reported) /\ reported' = None
        /\ UNCHANGED <<chain, forks>>
    BY <1>3 DEF OperatorRollback, chainVars, iterVars
  <2>2. /\ reported \in Blocks /\ StartBlock <= reported /\ reported <= cursor
        /\ earliest = None
    BY <2>1 DEF IndInv, TypeOK, ControlInv
  <2>3. ForkInv' /\ Detectable'
    BY <2>1, <2>2, RollBackRepairs DEF DetectInv
  <2>4. /\ QuietInv' /\ ScanInv' /\ FetchInv' /\ ReportInv'
        /\ DetectionComplete'
    BY <2>1, <2>2
       DEF QuietInv, ScanInv, FetchInv, ReportInv, DetectionComplete
  <2>5. QED
    BY <2>3, <2>4 DEF DetectInv
<1>. QED
  BY <1>1, <1>2, <1>3 DEF Recover

-----------------------------------------------------------------------------
(* The fetch. *)

(* The logs that a fetch reads are those of its range.                       *)
LEMMA FetchLogsDetect ==
  ASSUME IndInv, DetectInv, FetchLogs
  PROVE  DetectInv'
<1> USE BoundsAssumption, ConstantsAssumption
<1>1. /\ UNCHANGED <<chain, head, forks, cursor, hashes, events, reported, fresh,
                     safe, earliest>>
      /\ pc = "logs" /\ pc' = "store"
  BY DEF FetchLogs, chainVars, dbVars
<1>2. Stale' = Stale /\ Agrees' = Agrees /\ Detectable' = Detectable
  BY <1>1, SameIndex
<1>3. fresh /\ safe <= head /\ FetchTo \in Blocks /\ FetchTo <= safe
  BY <1>1, RangeFacts DEF DetectInv, QuietInv, FetchInv, IndInv
<1>4. ForkInv' /\ Detectable' /\ QuietInv' /\ ReportInv' /\ DetectionComplete'
  BY <1>1, <1>2 DEF DetectInv, ForkInv, QuietInv, ReportInv, DetectionComplete
<1>5. ScanInv'
  BY <1>1, <1>2 DEF DetectInv, ScanInv
<1>6. FetchInv'
  <2>1. FetchFrom' = FetchFrom /\ FetchTo' = FetchTo
    BY <1>1 DEF FetchFrom, FetchTo
  <2>2. safe \in Int /\ head \in Int /\ FetchFrom \in Int
    BY <1>1, RangeFacts DEF IndInv, TypeOK, Blocks, None
  <2>3. ASSUME NEW b \in Blocks, FetchFrom <= b, b <= FetchTo
        PROVE  logs'[b] = IF HasLog(b) THEN chain[b] ELSE None
    <3>1. b \in FetchFrom .. FetchTo /\ b <= head
      BY <1>3, <2>2, <2>3 DEF Blocks
    <3>2. QED
      BY <3>1 DEF FetchLogs
  <2>4. QED
    BY <1>1, <1>3, <2>1, <2>3 DEF FetchInv, HasLog
<1>. QED
  BY <1>4, <1>5, <1>6 DEF DetectInv

(* A fetch that goes through leaves the index in agreement with the chain.   *)
LEMMA StoreAgrees ==
  ASSUME IndInv, DetectInv, StoreRows, UNCHANGED <<chain, forks>>
  PROVE  ForkInv' /\ Agrees' /\ Detectable' /\ fresh /\ reported = None
<1> USE BoundsAssumption, ConstantsAssumption
<1>1. pc = "store" /\ fresh
  <2>1. \A b \in WantedBlocks : b <= head /\ b \in Int
    BY DEF StoreRows, WantedBlocks, Blocks
  <2>2. head \in Int
    BY DEF IndInv, TypeOK
  <2>3. QED
    BY <2>1, <2>2 DEF StoreRows, DetectInv, FetchInv
<1>2. Agrees /\ reported = None
  BY <1>1 DEF DetectInv, DetectionComplete, ReportInv
<1>3. /\ cursor \in StartBlock - 1 .. MaxBlock
      /\ FetchFrom = cursor + 1 /\ FetchTo \in Blocks /\ cursor' = FetchTo
  BY <1>1, RangeFacts DEF IndInv, FetchFrom, StoreRows
<1>4. \A b \in Blocks : hashes'[b] \in {None, chain[b], hashes[b]}
  BY DEF StoreRows
<1>5. ForkInv'
  <2>1. forks \in Nat /\ UNCHANGED <<chain, forks>>
    BY DEF IndInv, TypeOK, Forks
  <2>2. QED
    BY <1>4, <2>1 DEF DetectInv, ForkInv, None
<1>6. ASSUME NEW b \in Blocks, StartBlock <= b, b <= cursor'
      PROVE  /\ hashes'[b] \in {None, chain[b]}
             /\ events'[b] = IF HasLog(b) THEN chain[b] ELSE None
  <2>1. CASE b <= cursor
    <3>1. /\ hashes[b] \in {None, chain[b]}
          /\ events[b] = IF HasLog(b) THEN chain[b] ELSE None
      BY <1>2, <1>6, <2>1 DEF Agrees, Stale
    <3>2. logs[b] = None
      BY <1>1, <1>3, <2>1 DEF IndInv, LogsInv, Blocks
    <3>3. QED
      BY <1>4, <3>1, <3>2 DEF StoreRows
  <2>2. CASE ~(b <= cursor)
    <3>1. hashes[b] = None /\ events[b] = None
      BY <2>2 DEF IndInv, NothingBeyondCursor
    <3>2. logs[b] = IF HasLog(b) THEN chain[b] ELSE None
      <4>1. FetchFrom <= b /\ b <= FetchTo
        BY <1>3, <1>6, <2>2 DEF Blocks
      <4>2. QED
        BY <1>1, <4>1 DEF DetectInv, FetchInv
    <3>3. QED
      BY <1>4, <3>1, <3>2 DEF StoreRows
  <2>3. QED
    BY <2>1, <2>2
<1>7. Agrees'
  BY <1>6 DEF Agrees, Stale, HasLog
<1>. QED
  BY <1>1, <1>2, <1>5, <1>7 DEF Detectable

(* The steps of fetchAndStore().                                             *)
LEMMA FetchDetect ==
  ASSUME IndInv, DetectInv, Fetch \/ StoreAckLost
  PROVE  DetectInv'
<1> USE BoundsAssumption, ConstantsAssumption
<1>1. CASE FetchHead
  <2>1. /\ UNCHANGED <<chain, head, forks, cursor, hashes, events, reported, fresh>>
        /\ pc = "fetch"
    BY <1>1 DEF FetchHead, chainVars, dbVars
  <2>2. CASE Throw
    BY <2>1, <2>2, EndDetect DEF Throw, ClearIteration
  <2>3. CASE /\ safe' = head - Confirmations
             /\ pc' \in {"process", "logs"} /\ UNCHANGED earliest
    <3>1. Stale' = Stale /\ Agrees' = Agrees /\ Detectable' = Detectable
      BY <2>1, SameIndex
    <3>2. safe' <= head
      BY <2>3 DEF IndInv, TypeOK
    <3>3. ForkInv' /\ Detectable' /\ QuietInv'
      BY <2>1, <3>1 DEF DetectInv, ForkInv, QuietInv
    <3>4. ScanInv'
      BY <2>1, <2>3, <3>1 DEF DetectInv, ScanInv
    <3>5. FetchInv' /\ ReportInv' /\ DetectionComplete'
      BY <2>1, <2>3, <3>1, <3>2
         DEF DetectInv, FetchInv, ReportInv, DetectionComplete
    <3>6. QED
      BY <3>3, <3>4, <3>5 DEF DetectInv
  <2>4. QED
    BY <1>1, <2>2, <2>3 DEF FetchHead
<1>2. CASE StoreFails
  BY <1>2, EndDetect DEF StoreFails, Throw, ClearIteration, chainVars, dbVars
<1>3. CASE Store \/ StoreAckLost
  <2>1. /\ StoreRows /\ UNCHANGED <<chain, forks, reported, fresh>>
        /\ pc' \in {"stopped", "idle", "process"}
        /\ earliest' = None
    BY <1>3 DEF Store, StoreAckLost, StoreRows, Throw, ClearIteration, chainVars,
                IndInv, ControlInv
  <2>2. ForkInv' /\ Agrees' /\ Detectable' /\ reported = None
    BY <2>1, StoreAgrees
  <2>3. QuietInv' /\ ScanInv' /\ FetchInv' /\ ReportInv' /\ DetectionComplete'
    BY <2>1, <2>2
       DEF QuietInv, ScanInv, FetchInv, ReportInv, DetectionComplete
  <2>4. QED
    BY <2>2, <2>3 DEF DetectInv
<1>. QED
  BY <1>1, <1>2, <1>3, FetchLogsDetect DEF Fetch

-----------------------------------------------------------------------------
(* The rest of the iteration, and the whole. *)

(* Settling events and validating touch neither the chain nor what is stored *)
(* of it.                                                                    *)
LEMMA SettleDetect ==
  ASSUME IndInv, DetectInv, Process \/ PersistTarget
  PROVE  DetectInv'
<1>1. /\ UNCHANGED <<chain, head, forks, cursor, hashes, events, reported, fresh,
                     earliest>>
      /\ pc \in {"process", "fallback", "validate"}
      /\ pc' \in {"process", "fallback", "validate"}
  BY DEF Process, ProcessBatch, FallBack, ProcessEvent, PersistTarget, Validating,
         chainVars, dbVars, iterVars
<1>2. Stale' = Stale /\ Agrees' = Agrees /\ Detectable' = Detectable
  BY <1>1, SameIndex
<1>3. ForkInv' /\ Detectable' /\ QuietInv' /\ FetchInv'
  BY <1>1, <1>2 DEF DetectInv, ForkInv, QuietInv, FetchInv
<1>4. ScanInv' /\ ReportInv' /\ DetectionComplete'
  BY <1>1, <1>2 DEF DetectInv, ScanInv, ReportInv, DetectionComplete
<1>. QED
  BY <1>3, <1>4 DEF DetectInv

(* The steps that only end an iteration or a life of the process.            *)
LEMMA EndingsDetect ==
  ASSUME DetectInv,
         \/ ScanBeyondHead \/ ValidateCleanup \/ NoValidation
         \/ Crash \/ Fault \/ ValidationAckLost
  PROVE  DetectInv'
<1>1. /\ UNCHANGED <<chain, forks, cursor, hashes, events, reported>>
      /\ pc' \in {"stopped", "idle"} /\ earliest' = None
  BY DEF ScanBeyondHead, ValidateCleanup, NoValidation, Crash, Fault,
         ValidationAckLost, FinishIteration, Throw, ClearIteration, chainVars, dbVars
<1>. QED
  BY <1>1, EndDetect

(* A start creates the cursor of an empty index and changes no other.        *)
LEMMA StartDetect ==
  ASSUME IndInv, DetectInv, Start
  PROVE  DetectInv'
<1> USE BoundsAssumption, ConstantsAssumption
<1>1. /\ UNCHANGED <<chain, forks, hashes, events, reported, earliest>>
      /\ pc = "stopped" /\ pc' = "idle"
      /\ earliest = None
  BY DEF Start, chainVars, iterVars, IndInv, ControlInv
<1>2. CASE cursor # None
  BY <1>1, <1>2, EndDetect DEF Start
<1>3. CASE cursor = None
  <2>1. cursor' = StartBlock - 1
    BY <1>3 DEF Start
  <2>2. reported = None
    BY <1>3 DEF IndInv, TypeOK, ControlInv, Blocks, None
  <2>3. Agrees'
    BY <2>1 DEF Agrees, Stale, Blocks
  <2>4. ForkInv' /\ Detectable' /\ ReportInv'
    BY <1>1, <2>2, <2>3 DEF DetectInv, ForkInv, Detectable, ReportInv
  <2>5. QuietInv' /\ ScanInv' /\ FetchInv' /\ DetectionComplete'
    BY <1>1 DEF QuietInv, ScanInv, FetchInv, DetectionComplete
  <2>6. QED
    BY <2>4, <2>5 DEF DetectInv
<1>. QED
  BY <1>2, <1>3

(* Before anything happened there is nothing to detect.                      *)
LEMMA InitDetect == Init => DetectInv
<1> SUFFICES ASSUME Init PROVE DetectInv
  OBVIOUS
<1>1. Agrees
  BY BoundsAssumption, ConstantsAssumption DEF Init, Agrees, Stale, Blocks, None
<1>2. ForkInv
  BY DEF Init, ForkInv, NothingStored, None
<1>3. Detectable /\ ReportInv
  BY <1>1 DEF Init, Detectable, ReportInv
<1>4. QuietInv /\ ScanInv /\ FetchInv /\ DetectionComplete
  BY DEF Init, QuietInv, ScanInv, FetchInv, DetectionComplete
<1>. QED
  BY <1>2, <1>3, <1>4 DEF DetectInv

(* Every step of the system keeps what detection rests on.                   *)
LEMMA NextDetect ==
  ASSUME IndInv, DetectInv, EnvAssumptions = Assumptions, [Next]_vars
  PROVE  DetectInv'
<1>1. CASE Iteration
  BY <1>1, DetectBeginDetect, ScanStepDetect, ScanEndDetect, EndingsDetect,
     RecoverDetect, FetchDetect, SettleDetect
     DEF Iteration, Detect, Validate
<1>2. CASE Failure
  BY <1>2, EndingsDetect, RecoverDetect, FetchDetect DEF Failure
<1>3. CASE UNCHANGED vars
  <2>1. UNCHANGED <<head, chain, forks, cursor, hashes, events, pc, scanAt,
                    earliest, safe, logs, reported, fresh>>
    BY <1>3 DEF vars, chainVars, dbVars, iterVars
  <2>2. /\ Stale' = Stale /\ Agrees' = Agrees /\ Detectable' = Detectable
        /\ \A r \in Blocks : LowestReplaced(r)' = LowestReplaced(r)
    BY <2>1, SameIndex
  <2>3. ForkInv' /\ Detectable' /\ QuietInv' /\ ReportInv' /\ DetectionComplete'
    BY <2>1, <2>2
       DEF DetectInv, ForkInv, QuietInv, ReportInv, DetectionComplete
  <2>4. ScanInv'
    BY <2>1, <2>2 DEF DetectInv, ScanInv, IndInv, ControlInv, TypeOK
  <2>5. FetchInv'
    BY <2>1 DEF DetectInv, FetchInv, FetchFrom, FetchTo, WantedBlocks,
                ContiguousStart, HasLog
  <2>6. QED
    BY <2>3, <2>4, <2>5 DEF DetectInv
<1>. QED
  BY <1>1, <1>2, <1>3, ChainStepDetect, StartDetect, RecoverDetect DEF Next

(* What detection rests on holds in every reachable state.                   *)
LEMMA DetectionInvariant ==
  ASSUME EnvAssumptions = Assumptions
  PROVE  Spec => []DetectInv
BY InitDetect, NextDetect, IndexInvariant, PTL DEF Spec

(* Of a chain that reorganises as Assumptions allows, no replaced block      *)
(* survives the detection and recovery of an iteration, and its fetch adds   *)
(* none: not at the edges of the scan window, not with null rounds in it,    *)
(* not after earlier recoveries, crashes and lost answers.                   *)
THEOREM NoReplacedBlockSurvives ==
  ASSUME EnvAssumptions = Assumptions
  PROVE  Spec => []DetectionComplete
<1>1. DetectInv => DetectionComplete
  BY DEF DetectInv
<1>. QED
  BY <1>1, DetectionInvariant, PTL

-----------------------------------------------------------------------------
(* What a step may never do. *)

(* A reported reorg is answered by the operator or not at all: whoever runs  *)
(* into it again, after retries and restarts, writes nothing.                *)
LEMMA FrozenStep ==
  ASSUME IndInv, DetectInv, Next, reported # None, reported' # None
  PROVE  UNCHANGED <<cursor, hashes, events, status>>
<1>1. /\ pc \in {"stopped", "idle", "scan", "reorg"} /\ ~AutoHandleReorgs
      /\ cursor # None
  BY BoundsAssumption, ConstantsAssumption
     DEF DetectInv, ReportInv, IndInv, TypeOK, ControlInv, Blocks, None
<1>2. CASE Iteration
  BY <1>1, <1>2
     DEF Iteration, Detect, DetectBegin, ScanStep, ScanBeyondHead, ScanEnd,
         Recover, HandleReorg, ManualRecoveryRequired, Fetch, FetchHead,
         FetchLogs, StoreFails, Store, StoreRows, Process, ProcessBatch, FallBack,
         ProcessEvent, Validate, PersistTarget, ValidateCleanup, NoValidation,
         Validating, dbVars
<1>3. CASE Failure
  BY <1>1, <1>3
     DEF Failure, Crash, Fault, HandleReorgAckLost, StoreAckLost, StoreRows,
         ValidationAckLost, dbVars
<1>4. CASE ChainStep \/ Start \/ OperatorRollback
  BY <1>1, <1>4 DEF ChainStep, Grow, Reorg, Start, OperatorRollback, dbVars
<1>. QED
  BY <1>2, <1>3, <1>4 DEF Next

(* With automatic recovery off nothing is added to the index, and no event   *)
(* of it is settled, between the report of a reorg and the rollback.         *)
THEOREM ReportFreezesIndex ==
  ASSUME EnvAssumptions = Assumptions
  PROVE  Spec => FrozenUntilRollback
<1>1. IndInv /\ DetectInv /\ [Next]_vars =>
        [reported # None /\ reported' # None =>
           UNCHANGED <<cursor, hashes, events, status>>]_dbVars
  BY FrozenStep DEF vars
<1>. QED
  BY <1>1, IndexInvariant, DetectionInvariant, PTL DEF Spec, FrozenUntilRollback

(* Only a fetch moves the cursor up, and a start that creates it.            *)
LEMMA CursorAdvances ==
  ASSUME IndInv, Next, cursor' > cursor
  PROVE  StoreRows \/ (Start /\ UNCHANGED hashes)
<1> USE BoundsAssumption, ConstantsAssumption
<1>1. cursor \in Int
  BY DEF IndInv, TypeOK, None
<1>2. UNCHANGED cursor => FALSE
  BY <1>1
<1>3. ASSUME NEW r \in Blocks, r <= cursor, RollBack(r) PROVE FALSE
  BY <1>1, <1>3 DEF RollBack, Blocks
<1>4. CASE HandleReorg \/ HandleReorgAckLost
  <2>1. earliest \in Blocks /\ earliest <= cursor /\ RollBack(earliest)
    BY <1>4 DEF HandleReorg, HandleReorgAckLost, IndInv, TypeOK, ControlInv
  <2>2. QED
    BY <1>3, <2>1
<1>5. CASE OperatorRollback
  <2>1. reported \in Blocks /\ reported <= cursor /\ RollBack(reported)
    BY <1>5 DEF OperatorRollback, IndInv, TypeOK, ControlInv
  <2>2. QED
    BY <1>3, <2>1
<1>6. CASE Iteration
  BY <1>2, <1>4, <1>6
     DEF Iteration, Detect, DetectBegin, ScanStep, ScanBeyondHead, ScanEnd,
         Recover, ManualRecoveryRequired, Fetch, FetchHead, FetchLogs,
         StoreFails, Store, Process, ProcessBatch, FallBack, ProcessEvent,
         Validate, PersistTarget, ValidateCleanup, NoValidation, dbVars
<1>7. CASE Failure
  BY <1>2, <1>4, <1>7
     DEF Failure, Crash, Fault, StoreAckLost, ValidationAckLost, dbVars
<1>8. CASE ChainStep \/ Start
  BY <1>2, <1>8 DEF ChainStep, Grow, Reorg, Start, dbVars
<1>. QED
  BY <1>5, <1>6, <1>7, <1>8 DEF Next

(* The rows that a fetch prunes lie below the next scan, for every depth and *)
(* every number of confirmations.                                            *)
LEMMA StoreSparesWindow ==
  ASSUME IndInv, StoreRows, NEW b \in Blocks, ScanFrom' <= b, b <= cursor
  PROVE  hashes'[b] = hashes[b]
<1> USE BoundsAssumption, ConstantsAssumption
<1>1. /\ pc = "store" /\ cursor \in Int /\ FetchFrom = cursor + 1
      /\ FetchTo \in Blocks /\ cursor' = FetchTo
  BY RangeFacts DEF StoreRows, IndInv, FetchFrom
<1>2. ~(PruneBefore > 0 /\ b < PruneBefore)
  <2>1. CASE cursor' >= MaxReorgDepth - 1
    <3>1. FetchTo - (MaxReorgDepth - 1) <= b
      BY <1>1, <2>1 DEF ScanFrom, Larger, Blocks
    <3>2. PruneBefore <= FetchTo - MaxReorgDepth
      BY <1>1 DEF PruneBefore, Larger, Blocks
    <3>3. PruneBefore \in Int
      BY <1>1 DEF PruneBefore, Larger, Blocks
    <3>4. QED
      BY <1>1, <3>1, <3>2, <3>3 DEF Blocks
  <2>2. CASE ~(cursor' >= MaxReorgDepth - 1)
    <3>1. FetchTo < MaxReorgDepth - 1
      BY <1>1, <2>2 DEF Blocks
    <3>2. MaxReorgDepth <= Larger(MaxReorgDepth, 3 * Confirmations)
          /\ Larger(MaxReorgDepth, 3 * Confirmations) \in Int
      BY DEF Larger
    <3>3. QED
      BY <1>1, <3>1, <3>2 DEF PruneBefore, Blocks
  <2>3. QED
    BY <2>1, <2>2
<1>3. b \notin FetchedBlocks
  <2>1. logs[b] = None
    BY <1>1 DEF IndInv, LogsInv, Blocks
  <2>2. b \notin ContiguousStart .. FetchTo
    <3>1. safe \in Int /\ HashWindow \in Int
      BY <1>1 DEF IndInv, TypeOK, HashWindow, Blocks, None
    <3>2. QED
      BY <1>1, <3>1 DEF ContiguousStart, Larger, Blocks
  <2>3. QED
    BY <2>1, <2>2 DEF FetchedBlocks, WantedBlocks
<1>. QED
  BY <1>2, <1>3 DEF StoreRows

(* Pruning never takes a hash that the next detect() compares.               *)
THEOREM WindowKept == Spec => PruningSparesWindow
<1>1. ASSUME IndInv, [Next]_vars
      PROVE  [cursor' > cursor =>
                \A b \in Blocks :
                  ScanFrom' <= b /\ b <= cursor => hashes'[b] = hashes[b]
             ]_<<cursor, hashes>>
  <2>1. CASE UNCHANGED vars
    BY <2>1 DEF vars, dbVars
  <2>2. ASSUME Next, cursor' > cursor, NEW b \in Blocks, ScanFrom' <= b, b <= cursor
        PROVE  hashes'[b] = hashes[b]
    BY <1>1, <2>2, CursorAdvances, StoreSparesWindow
  <2>3. QED
    BY <1>1, <2>1, <2>2
<1>. QED
  BY <1>1, IndexInvariant, PTL DEF Spec, PruningSparesWindow

-----------------------------------------------------------------------------
(* The pending validation. *)

(* The copy in memory is the row's, or older where an answer was lost: then  *)
(* the row has no target, or the memory has none yet.                        *)
PendingInv ==
  /\ pc # "stopped" =>
       /\ pendTarget # None => memTarget \in {None, pendTarget}
       /\ faults = 0 => memFrom = pendFrom /\ memTarget = pendTarget
  /\ fetchedTo # None =>
       pc \in {"process", "fallback", "validate"} /\ fetchedTo = cursor

(* Leaving an iteration by an exception keeps or drops the copy; a write of  *)
(* its own whose answer was lost is a fault.                                 *)
LEMMA ThrowPending ==
  ASSUME PendingInv, pc # "stopped", Throw,
         faults' = 0 => faults = 0 /\ UNCHANGED <<pendFrom, pendTarget>>,
         pendTarget' \in {None, pendTarget} \/ memTarget = None
  PROVE  PendingInv'
BY DEF PendingInv, Throw, ClearIteration

(* The lives of the process and the rollbacks.                               *)
LEMMA FailurePending ==
  ASSUME IndInv, PendingInv, Failure \/ Start \/ OperatorRollback \/ ChainStep
  PROVE  PendingInv'
<1>1. faults' \in {faults, faults + 1} /\ faults \in Nat
  BY DEF Failure, Crash, Fault, HandleReorgAckLost, StoreAckLost, ValidationAckLost,
         Start, OperatorRollback, ChainStep, Grow, Reorg, IndInv, TypeOK
<1>2. CASE Crash
  BY <1>2 DEF Crash, ClearIteration, PendingInv
<1>3. CASE Fault \/ StoreAckLost
  <2>1. UNCHANGED <<pendFrom, pendTarget>> /\ pc # "stopped" /\ Throw
    BY <1>3 DEF Fault, StoreAckLost, StoreRows, dbVars
  <2>2. faults' = 0 => faults = 0
    BY <1>1
  <2>3. QED
    BY <2>1, <2>2, ThrowPending
<1>4. CASE HandleReorgAckLost \/ ValidationAckLost
  <2>1. faults' # 0 /\ pc # "stopped" /\ Throw
    BY <1>1, <1>4 DEF HandleReorgAckLost, ValidationAckLost, Validating
  <2>2. pendTarget' \in {None, pendTarget} \/ memTarget = None
    BY <1>4 DEF HandleReorgAckLost, RollBack, ValidationAckLost
  <2>3. QED
    BY <2>1, <2>2, ThrowPending
<1>5. CASE Start \/ OperatorRollback
  <2>1. fetchedTo' = None
    BY <1>5 DEF Start, OperatorRollback, iterVars, PendingInv
  <2>2. CASE Start
    BY <2>1, <2>2 DEF Start, PendingInv
  <2>3. CASE OperatorRollback
    BY <2>1, <2>3 DEF OperatorRollback, PendingInv
  <2>4. QED
    BY <1>5, <2>2, <2>3
<1>6. CASE ChainStep
  BY <1>6 DEF ChainStep, Grow, Reorg, PendingInv, dbVars, memVars, iterVars
<1>. QED
  BY <1>2, <1>3, <1>4, <1>5, <1>6 DEF Failure

(* The steps of the loop.                                                    *)
LEMMA IterationPending ==
  ASSUME IndInv, PendingInv, Iteration
  PROVE  PendingInv'
<1>1. faults' = faults
  BY DEF Iteration, Detect, DetectBegin, ScanStep, ScanBeyondHead, ScanEnd,
         Recover, HandleReorg, ManualRecoveryRequired, Fetch, FetchHead,
         FetchLogs, StoreFails, Store, Process, ProcessBatch, FallBack,
         ProcessEvent, Validate, PersistTarget, ValidateCleanup, NoValidation
<1>2. CASE Throw /\ pc # "stopped" /\ UNCHANGED <<pendFrom, pendTarget>>
  BY <1>1, <1>2, ThrowPending
<1>3. ASSUME pc # "stopped",
             UNCHANGED <<pendFrom, pendTarget, memFrom, memTarget>>,
             fetchedTo' # None =>
               pc' \in {"process", "fallback", "validate"} /\ fetchedTo' = cursor'
      PROVE  PendingInv'
  BY <1>1, <1>3 DEF PendingInv
<1>4. CASE Detect
  <2>1. pc \in {"idle", "scan"} /\ UNCHANGED <<pendFrom, pendTarget>>
    BY <1>4 DEF Detect, DetectBegin, ScanStep, ScanSkip, ScanMismatch, Scanning,
                ScanBeyondHead, ScanEnd, dbVars
  <2>2. Throw \/ (UNCHANGED <<memFrom, memTarget, fetchedTo>>)
    BY <1>4 DEF Detect, DetectBegin, ScanStep, ScanSkip, ScanMismatch,
                ScanBeyondHead, ScanEnd, memVars
  <2>3. fetchedTo = None
    BY <2>1 DEF PendingInv
  <2>4. QED
    BY <1>2, <1>3, <2>1, <2>2, <2>3
<1>5. CASE HandleReorg
  BY <1>5 DEF HandleReorg, RollBack, PendingInv
<1>6. CASE ManualRecoveryRequired
  BY <1>2, <1>6 DEF ManualRecoveryRequired, dbVars
<1>7. CASE Fetch
  <2>1. CASE FetchHead \/ FetchLogs \/ StoreFails
    <3>1. pc \in {"fetch", "logs", "store"} /\ UNCHANGED <<pendFrom, pendTarget>>
      BY <2>1 DEF FetchHead, FetchLogs, StoreFails, dbVars
    <3>2. \/ Throw
          \/ UNCHANGED <<memFrom, memTarget>> /\ fetchedTo' \in {None, fetchedTo}
      BY <2>1 DEF FetchHead, FetchLogs, StoreFails, memVars
    <3>3. fetchedTo = None
      BY <3>1 DEF PendingInv
    <3>4. QED
      BY <1>2, <1>3, <3>1, <3>2, <3>3
  <2>2. CASE Store
    BY <1>3, <2>2 DEF Store, StoreRows, memVars
  <2>3. QED
    BY <1>7, <2>1, <2>2 DEF Fetch
<1>8. CASE Process
  BY <1>3, <1>8 DEF Process, ProcessBatch, FallBack, ProcessEvent, dbVars, memVars,
                    iterVars, PendingInv
<1>9. CASE PersistTarget
  BY <1>1, <1>9 DEF PersistTarget, Validating, iterVars, PendingInv
<1>10. CASE ValidateCleanup
  BY <1>10 DEF ValidateCleanup, FinishIteration, ClearIteration, PendingInv
<1>11. CASE NoValidation
  BY <1>3, <1>11 DEF NoValidation, FinishIteration, ClearIteration, dbVars, memVars
<1>. QED
  BY <1>4, <1>5, <1>6, <1>7, <1>8, <1>9, <1>10, <1>11
     DEF Iteration, Recover, Validate

(* A validation is cleared in the loop, with a target that it has reached.   *)
LEMMA ClearedAfterReplay ==
  ASSUME IndInv, PendingInv, Next, pendFrom # None, pendFrom' = None
  PROVE  \/ pendTarget # None /\ cursor >= pendTarget
         \/ pendTarget = None /\ faults > 0
<1>1. ASSUME Validating, ReplayedToTarget
      PROVE  \/ pendTarget # None /\ cursor >= pendTarget
             \/ pendTarget = None /\ faults > 0
  <2>1. fetchedTo = cursor /\ memTarget # None /\ fetchedTo >= memTarget
    BY <1>1 DEF Validating, ReplayedToTarget, PendingInv
  <2>2. CASE pendTarget # None
    BY <1>1, <2>1, <2>2 DEF Validating, PendingInv
  <2>3. CASE pendTarget = None
    <3>1. faults # 0
      BY <1>1, <2>1, <2>3 DEF Validating, PendingInv
    <3>2. faults \in Nat
      BY DEF IndInv, TypeOK
    <3>3. QED
      BY <2>3, <3>1, <3>2
  <2>4. QED
    BY <2>2, <2>3
<1>2. pendFrom' # pendFrom
  OBVIOUS
<1>3. CASE HandleReorg \/ HandleReorgAckLost \/ OperatorRollback
  BY <1>3 DEF HandleReorg, HandleReorgAckLost, OperatorRollback, RollBack, IndInv,
              ControlInv
<1>4. CASE Iteration
  <2>1. HandleReorg \/ ValidateCleanup
    BY <1>2, <1>4
       DEF Iteration, Detect, DetectBegin, ScanStep, ScanBeyondHead, ScanEnd,
           Recover, ManualRecoveryRequired, Fetch, FetchHead, FetchLogs,
           StoreFails, Store, StoreRows, Process, ProcessBatch, FallBack,
           ProcessEvent, Validate, PersistTarget, Validating, NoValidation, dbVars
  <2>2. QED
    BY <1>1, <1>3, <2>1 DEF ValidateCleanup
<1>5. CASE Failure
  <2>1. HandleReorgAckLost \/ (ValidationAckLost /\ ReplayedToTarget)
    BY <1>2, <1>5
       DEF Failure, Crash, Fault, StoreAckLost, StoreRows, ValidationAckLost,
           Validating, dbVars
  <2>2. QED
    BY <1>1, <1>3, <2>1 DEF ValidationAckLost
<1>6. CASE ChainStep \/ Start
  BY <1>2, <1>6 DEF ChainStep, Grow, Reorg, Start, dbVars
<1>. QED
  BY <1>3, <1>4, <1>5, <1>6 DEF Next

(* A pending validation is cleared after the replay it waits for, in every   *)
(* life of the process; only a lost answer can cut it short, and only before *)
(* it has a target.                                                          *)
THEOREM ReplayBeforeClearing == Spec => ValidatedAfterReplay
<1>1. Init => PendingInv
  BY DEF Init, PendingInv
<1>2. PendingInv /\ IndInv /\ [Next]_vars => PendingInv'
  <2>1. ASSUME PendingInv, UNCHANGED vars PROVE PendingInv'
    BY <2>1 DEF vars, dbVars, memVars, iterVars, PendingInv
  <2>2. QED
    BY <2>1, IterationPending, FailurePending DEF Next
<1>3. IndInv /\ PendingInv /\ [Next]_vars =>
        [pendFrom # None /\ pendFrom' = None =>
           \/ pendTarget # None /\ cursor >= pendTarget
           \/ pendTarget = None /\ faults > 0]_<<pendFrom, pendTarget>>
  BY ClearedAfterReplay DEF vars, dbVars
<1>. QED
  BY <1>1, <1>2, <1>3, IndexInvariant, PTL DEF Spec, ValidatedAfterReplay
=============================================================================
