------------------------------ MODULE MCRelay ------------------------------
(* Instances of Relay for TLC.                                             *)
EXTENDS Relay, TLC

CONSTANTS k1, k2, c1, t1, t2, t3, m1, p1, p2

ProcSymmetry == Permutations(Procs)
SecretSymmetry == Permutations(Procs) \cup Permutations(Tokens)
=============================================================================
