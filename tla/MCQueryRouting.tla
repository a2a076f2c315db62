--------------------------- MODULE MCQueryRouting ---------------------------
(***************************************************************************)
(* Small instances of QueryRouting: a node and two or three peers that      *)
(* differ in what they are good at.                                         *)
(***************************************************************************)
EXTENDS QueryRouting, TLC

CONSTANTS me, strong, weak, spare, math, general

\* The node knows general matters only.  strong is good enough for math when
\* its round trip is short; weak never reaches the threshold for math.
AllQuality ==
    me     :> (general :> 60 @@ math :> 0) @@
    strong :> (general :> 0  @@ math :> 67) @@
    weak   :> (general :> 30 @@ math :> 40) @@
    spare  :> (general :> 0  @@ math :> 40)

AllAdvertised ==
    me :> {general} @@ strong :> {math} @@ weak :> {general, math} @@
    spare :> {math}

MCQuality == [n \in Nodes |-> AllQuality[n]]

\* A node that can do nothing asked of it.
MCUselessQuality == [MCQuality EXCEPT ![me] = [c \in Caps |-> 0]]
MCAdvertised == [n \in Nodes |-> AllAdvertised[n]]

OnlyMath == <<[cap |-> math, demand |-> 90]>>
MathAndGeneral == <<[cap |-> math, demand |-> 80], [cap |-> general, demand |-> 20]>>

MCMixes == {OnlyMath, MathAndGeneral}
MCOneMix == {OnlyMath}

\* Nothing in it survives normalisation, so it stands for general.
MCRawMixes == {<<[cap |-> math, demand |-> 0]>>}

MCExclusions == {{}, {strong}}
MCNoExclusion == {{}}
MCRtts == {0, 100}
MCOneRtt == {0}
MCTalkers == {weak}
MCPeers == Nodes \ {Self}
MCNobody == {}
MCNoMixes == {}
=============================================================================
