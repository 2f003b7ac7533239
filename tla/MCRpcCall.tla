----------------------------- MODULE MCRpcCall -----------------------------
(* Small instances of RpcCall for TLC. *)
EXTENDS RpcCall, TLC

(* Calls are interchangeable if the constants tell them not apart, and so   *)
(* are connections; used by runs without temporal properties.               *)
CallConnSymmetry ==
  Permutations(OnlyCalls) \cup Permutations(Timers \ OnlyCalls)
    \cup Permutations(Calls \ (OnlyCalls \cup Timers))
    \cup Permutations(Conns)
=============================================================================
