------------------------- MODULE CapabilityProfile --------------------------
(***************************************************************************)
(* What a node says it is good at: the capabilities of its configuration    *)
(* (src/node.py, resolve_profile_capabilities) and the simulated scores     *)
(* that replace them before the node advertises itself                      *)
(* (src/services/capability_scorer.py).                                     *)
(*                                                                          *)
(* A dictionary of scores is its entries in insertion order, one for each   *)
(* name, in hundredths.  A name of the configuration may be unknown.        *)
(***************************************************************************)
EXTENDS RoutingScore

CONSTANTS
    HighScores, MediumScores, LowScores     \* what _sample_score may draw

ASSUME ScoresAssumption ==
    /\ HighScores \subseteq 80 .. 100
    /\ MediumScores \subseteq 50 .. 75
    /\ LowScores \subseteq 10 .. 45

MAX_ADVERTISED_CAPABILITIES == 3

\* dict.fromkeys: every value at its first place.
Unique(s) ==
    LET first == {i \in DOMAIN s : \A j \in 1 .. i - 1 : s[j] # s[i]}
    IN  [k \in 1 .. Cardinality(first) |->
            s[CHOOSE i \in first : Cardinality({j \in first : j <= i}) = k]]

\* The names with a positive score, best first; sorted is stable.
Ranked(scores) ==
    LET positive == {i \in DOMAIN scores : scores[i].score > 0}
        better(i, j) == \/ scores[i].score > scores[j].score
                        \/ scores[i].score = scores[j].score /\ i < j
    IN  [k \in 1 .. Cardinality(positive) |->
            scores[CHOOSE i \in positive :
                      Cardinality({j \in positive : better(j, i)}) = k - 1].cap]

\* MUTANT of Resolved: the ranking comes first.
ResolvedRankedFirst(names, given) ==
    LET explicit == IF names # <<>> \/ given # <<>> THEN names ELSE <<General>>
        scores == IF given # <<>> THEN given
                  ELSE [i \in DOMAIN Unique(explicit) |->
                           [cap |-> Unique(explicit)[i], score |-> 100]]
        all == Unique(Ranked(scores) \o explicit)
    IN  [advertised |-> SubSeq(all, 1, AtMost(Len(all), MAX_ADVERTISED_CAPABILITIES)),
         scores |-> scores]

\* resolve_profile_capabilities(names, given): the names given come first,
\* with a full score each when no scores are given.
Resolved(names, given) ==
    LET explicit == IF names # <<>> \/ given # <<>> THEN names ELSE <<General>>
        scores == IF given # <<>> THEN given
                  ELSE [i \in DOMAIN Unique(explicit) |->
                           [cap |-> Unique(explicit)[i], score |-> 100]]
        all == Unique(explicit \o Ranked(scores))
    IN  [advertised |-> SubSeq(all, 1, AtMost(Len(all), MAX_ADVERTISED_CAPABILITIES)),
         scores |-> scores]

-----------------------------------------------------------------------------
(* CapabilityScorer, which the node makes with the advertised capabilities  *)
(* of its configuration as role hints.                                      *)

\* The first hint that is a known capability.
Primary(hints) ==
    LET known == {i \in DOMAIN hints : hints[i] \in Caps}
    IN  IF known = {} THEN General
        ELSE hints[CHOOSE i \in known : \A j \in known : i <= j]

\* score_all: one strong capability, the primary, one medium and one weak.
Simulated(primary) ==
    {s \in {<<[cap |-> primary, score |-> high], [cap |-> m, score |-> medium], [cap |-> l, score |-> low]>> :
               high \in HighScores, medium \in MediumScores, low \in LowScores,
               m \in Caps \ {primary}, l \in Caps \ {primary}} :
        s[2].cap # s[3].cap}

\* The scores as the router reads them: get(capability, 0.0).
QualityOf(scores) ==
    [c \in Caps |->
        IF \E i \in DOMAIN scores : scores[i].cap = c
        THEN scores[CHOOSE i \in DOMAIN scores : scores[i].cap = c].score ELSE 0]
=============================================================================
