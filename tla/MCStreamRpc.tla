---------------------------- MODULE MCStreamRpc -----------------------------
(***************************************************************************)
(* A small instance of StreamRpc, one call of each kind: a ping is under    *)
(* its timeout once it has dialled, a profile request altogether, a request *)
(* for recommendations never.                                               *)
(***************************************************************************)
EXTENDS StreamRpc

CONSTANTS ping, profile, recommend
=============================================================================
