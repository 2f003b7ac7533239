---------------------------- MODULE MCRpcServer ----------------------------
(* Small instances of RpcServer for TLC. *)
EXTENDS ServerLife, TLC

CONSTANTS k1, k2, r1, r2, r3, r4

(* Two requests on each of two connections.                                 *)
MCConnOf == (r1 :> k1) @@ (r2 :> k1) @@ (r3 :> k2) @@ (r4 :> k2)
=============================================================================
