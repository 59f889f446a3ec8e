--------------------------- MODULE MCIndexerProcess ---------------------------
(* Instances of IndexerProcess for TLC. *)
EXTENDS IndexerProcess

MCEvents == 0 .. 2
TwoEvents == 0 .. 1
AllAssumptions == Assumptions
NoAssumptions == {}
=============================================================================
