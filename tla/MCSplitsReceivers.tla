-------------------------- MODULE MCSplitsReceivers --------------------------
(* Instances of SplitsReceivers for TLC: an address, a project, a drip list  *)
(* and a sub list that may receive.                                          *)
EXTENDS SplitsReceivers

MCIds == 1..4
MCTypeOf == <<"address", "project", "drip_list", "sub_list">>
MCWeights == 0..2

AllAssumptions == Assumptions
NoAssumptions == {}
=============================================================================
