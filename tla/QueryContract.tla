--------------------------- MODULE QueryContract ----------------------------
(***************************************************************************)
(* What answer_query promises of a query, whatever the network does         *)
(* (src/services/query_service.py, class docstring: local execution,        *)
(* one-hop forwarding to the selected node, rerouting after failed          *)
(* forwards).  The node asks other nodes one after the other, never itself, *)
(* never one twice, never more than MaxForwards; the query ends at most     *)
(* once, with an answer or an error of the last node asked or of the node   *)
(* itself, and nobody is asked after that.                                  *)
(***************************************************************************)
EXTENDS Naturals, Sequences

CONSTANTS Nodes, Self, NoNode, Queries, MaxForwards

VARIABLES
    asked,      \* asked[q]: the nodes q was forwarded to, in order
    outcome,    \* outcome[q]: how it ended
    author      \* author[q]: the node whose generation the outcome reports

contractVars == <<asked, outcome, author>>

Init ==
    /\ asked = [q \in Queries |-> <<>>]
    /\ outcome = [q \in Queries |-> "pending"]
    /\ author = [q \in Queries |-> NoNode]

AskedNodes(q) == {asked[q][i] : i \in DOMAIN asked[q]}

Ask(q, n) ==
    /\ outcome[q] = "pending"
    /\ Len(asked[q]) < MaxForwards
    /\ n \notin AskedNodes(q) \cup {Self}
    /\ asked' = [asked EXCEPT ![q] = Append(@, n)]
    /\ UNCHANGED <<outcome, author>>

End(q, result, by) ==
    /\ outcome[q] = "pending"
    /\ outcome' = [outcome EXCEPT ![q] = result]
    /\ author' = [author EXCEPT ![q] = by]
    /\ UNCHANGED asked

\* The last node asked answers, or reports that its model failed.
Answered(q) ==
    \E result \in {"ok", "generation_error"} :
        asked[q] # <<>> /\ End(q, result, asked[q][Len(asked[q])])

\* The node answers itself, unless it has used up its forwards.
AnsweredLocally(q) == Len(asked[q]) < MaxForwards /\ End(q, "ok", Self)

\* Only a query nobody was asked about ends with an error of the node itself.
FailedLocally(q) == asked[q] = <<>> /\ End(q, "generation_error", Self)
RoutingFailed(q) == asked[q] = <<>> /\ End(q, "routing_error", NoNode)

NobodySuitable(q) == End(q, "no_suitable_node", NoNode)

\* An exception reaches the caller only after a forward has failed.
Escapes(q) ==
    /\ Len(asked[q]) \in 1 .. MaxForwards - 1
    /\ End(q, "escaped", NoNode)

Next ==
    \E q \in Queries :
        \/ \E n \in Nodes : Ask(q, n)
        \/ Answered(q) \/ AnsweredLocally(q) \/ FailedLocally(q)
        \/ RoutingFailed(q) \/ NobodySuitable(q) \/ Escapes(q)

Spec == Init /\ [][Next]_contractVars
=============================================================================
