---------------------------- MODULE MCFinishScan ----------------------------
(* Instances of FinishScan for TLC.                                        *)
EXTENDS FinishScan, TLC

CONSTANTS k1, k2, m1, m2

DeliverySymmetry == Permutations(Keys) \cup Permutations(MsgIds)
=============================================================================
