------------------------------ MODULE MCStore ------------------------------
(* Instances of Store for TLC.                                             *)
EXTENDS Store, TLC

CONSTANTS k1, k2, c1, c2, t1, t2, t3, t4, m1, m2

MailboxSymmetry == Permutations(Keys) \cup Permutations(MsgIds)
InviteSymmetry == Permutations(Tokens) \cup Permutations(Caps)
=============================================================================
