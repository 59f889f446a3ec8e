---------------------------- MODULE MCHealthServer ----------------------------
(* Instances of HealthServer for TLC.                                        *)
EXTENDS HealthServer, TLC

CONSTANTS r1, r2

OneRequest == {r1}
TwoRequests == {r1, r2}
MCJitter == {1}
RequestsAlike == Permutations(TwoRequests)
=============================================================================
