---------------------------- MODULE MCWebGateway ----------------------------
(***************************************************************************)
(* A small instance of WebGateway: two turns, in one conversation or in     *)
(* two, a blank conversation, a pool of two threads, and at most two        *)
(* disturbances: a crash, a failing save, a deletion, a blank conversation. *)
(***************************************************************************)
EXTENDS WebGateway, TLC

CONSTANTS t1, t2, b1

MCEndpoints == {"start", "chat"}

Disturbances == spent.crashes + spent.faults + spent.deletes + Cardinality(made)

MCNext == Next /\ Disturbances' <= 2

MCSpec == Init /\ [][MCNext]_vars /\ Fairness
=============================================================================
