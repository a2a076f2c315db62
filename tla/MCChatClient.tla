---------------------------- MODULE MCChatClient ----------------------------
(***************************************************************************)
(* A small instance of ChatClient: two turns and either a selection and a   *)
(* disturbance (a deletion by this client or another, a failed request), or *)
(* a restart or a failing save of the gateway, or the context meter at work.*)
(***************************************************************************)
EXTENDS ChatClient

CONSTANTS t1, t2, s1, d1

Disturbances ==
    spent.losses + spent.failures + spent.foreign
        + Cardinality({d \in Deletions : delete[d].pc # "idle"})

Selected == Cardinality({s \in Selections : select[s].pc # "idle"})

\* A selection, a disturbance, or both unless the gateway loses turns; or
\* the meter.
Bounded ==
    /\ Disturbances <= 1
    /\ spent.losses > 0 => Selected = 0
    /\ preview.seq > 0 => Disturbances + Selected = 0

MCNext == Next /\ Bounded'

MCSpec == Init /\ [][MCNext]_vars /\ Fairness
=============================================================================
