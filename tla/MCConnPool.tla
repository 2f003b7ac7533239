----------------------------- MODULE MCConnPool -----------------------------
(* Small instances of ConnPool for TLC. *)
EXTENDS ConnPool, TLC

CallConnSymmetry == Permutations(Calls) \cup Permutations(Conns)
=============================================================================
