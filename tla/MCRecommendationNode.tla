------------------------ MODULE MCRecommendationNode ------------------------
(* Two peers that may come back with another profile, and the node.         *)
EXTENDS RecommendationNode

CONSTANTS a, b, good, fair, other, code

MCAdvertises == [o \in Offers |-> IF o = other THEN {} ELSE {code}]
MCQuality ==
    [o \in Offers |-> [c \in Caps |-> IF c \notin MCAdvertises[o] THEN 10
                                      ELSE IF o = good THEN 90 ELSE 60]]
MCExclusions == {{}, {a}}
MCPossible ==
    [n \in Nodes |-> CASE n = a -> {good, other} [] n = b -> {fair} [] OTHER -> {fair}]
=============================================================================
