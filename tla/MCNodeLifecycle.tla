-------------------------- MODULE MCNodeLifecycle ---------------------------
(***************************************************************************)
(* A small instance of NodeLifecycle: two nodes.  The first is configured  *)
(* for one capability and scores best on another, may be started again, and *)
(* is the one that searches look for and profiles are fetched of; the       *)
(* second advertises nothing, and its periodic task, which would have       *)
(* nothing to write, does not run.                                          *)
(***************************************************************************)
EXTENDS NodeLifecycle, TLC

CONSTANTS a, b, math, general

MCTop == a :> {math} @@ b :> {}
MCConfigured == a :> {general} @@ b :> {}
MCStarts == a :> 2 @@ b :> 1

MCNext == Next /\ \A m \in Nodes :
    search'[m].of # b /\ listener'[m].of # b /\ periodic'[b] = Asleep

MCSpec == Init /\ [][MCNext]_vars /\ FairnessOf(a)
=============================================================================
