------------------------------ MODULE MCConfig ------------------------------
(* Instances of Config for TLC: at most one flag and one variable at once, *)
(* with numbers below and above every ceiling.                             *)
EXTENDS Config

AtMostOne == {{}} \cup {{k} : k \in Settings}
=============================================================================
