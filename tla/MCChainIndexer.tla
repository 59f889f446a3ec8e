---------------------------- MODULE MCChainIndexer ----------------------------
(* Instances of ChainIndexer for TLC.                                        *)
EXTENDS ChainIndexer

\* The even blocks of the first fork have a log, and all blocks of the later
\* forks but the second.
MCEventBlocks ==
  {<<b, v>> \in Blocks \X Forks : IF v = 0 THEN b % 2 = 0 ELSE b # 2}
NoNullRounds == {}
MCNullRounds == {<<3, 0>>}

AllAssumptions == Assumptions
NoQuietScan == Assumptions \ {"quiet_scan"}
=============================================================================
