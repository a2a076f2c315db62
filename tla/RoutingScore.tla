---------------------------- MODULE RoutingScore ----------------------------
(***************************************************************************)
(* The pure part of the router (src/services/routing_service.py): what a    *)
(* capability mix is after normalisation, which capabilities are worth a    *)
(* DHT lookup, and the score of a candidate.                                *)
(*                                                                          *)
(* A demand is in hundredths (0.65 is 65), a node's quality for a           *)
(* capability too, a round trip in tens of milliseconds (1000 ms is 100).   *)
(* The score is the code's, multiplied by 30000 and by the total demand of  *)
(* the mix, so that it is an integer:                                       *)
(*     0.75 q + 0.15 fresh - 0.07 failures/3 - 0.08 latency.                *)
(* The code computes it in floating point; this is its exact value.         *)
(***************************************************************************)
EXTENDS Integers, Sequences, FiniteSets

CONSTANTS
    Caps,     \* the capability names the classifier knows
    General   \* the capability every retry falls back on

ASSUME GeneralAssumption == General \in Caps

\* A mix is a dictionary in its insertion order: entries by decreasing demand.
Entry == [cap : Caps, demand : 1 .. 100]

Mix == {mix \in Seq(Entry) : Len(mix) \in 1 .. 3}

CapsOf(mix) == {mix[i].cap : i \in DOMAIN mix}

DefaultMix == <<[cap |-> General, demand |-> 60]>>
GeneralMix == <<[cap |-> General, demand |-> 50]>>

AtMost(x, bound) == IF x < bound THEN x ELSE bound
AtLeast(x, bound) == IF x > bound THEN x ELSE bound
Clamp(x, low, high) == AtLeast(low, AtMost(high, x))

-----------------------------------------------------------------------------
(* _normalize_capability_scores *)

\* The positions whose value reaches the dictionary: a known name, and a
\* positive value once clamped to [0, 1].
Kept(raw) == {i \in DOMAIN raw : raw[i].cap \in Caps /\ raw[i].demand > 0}

\* The dictionary's keys by the position that inserted them, and the value
\* the last assignment left.
Keys(raw) == {i \in Kept(raw) : \A j \in Kept(raw) : raw[j].cap = raw[i].cap => i <= j}

ValueAt(raw, i) ==
    LET last == CHOOSE j \in Kept(raw) :
                    /\ raw[j].cap = raw[i].cap
                    /\ \A k \in Kept(raw) : raw[k].cap = raw[i].cap => k <= j
    IN  Clamp(raw[last].demand, 0, 100)

\* How many keys a stable sort by decreasing value puts before i.
RankOf(raw, i) ==
    Cardinality({j \in Keys(raw) :
        \/ ValueAt(raw, j) > ValueAt(raw, i)
        \/ ValueAt(raw, j) = ValueAt(raw, i) /\ j < i})

\* The dictionary sorted by decreasing value and cut to three.
Largest(raw) ==
    [r \in 1 .. AtMost(Cardinality(Keys(raw)), 3) |->
        LET i == CHOOSE i \in Keys(raw) : RankOf(raw, i) = r - 1
        IN  [cap |-> raw[i].cap, demand |-> ValueAt(raw, i)]]

\* MUTANT of Normalize: the dictionary is cut to three before it is sorted.
NormalizeUnsorted(raw) ==
    IF Keys(raw) = {} THEN DefaultMix
    ELSE [r \in 1 .. AtMost(Cardinality(Keys(raw)), 3) |->
            LET i == CHOOSE i \in Keys(raw) : Cardinality({j \in Keys(raw) : j < i}) = r - 1
            IN  [cap |-> raw[i].cap, demand |-> ValueAt(raw, i)]]

Normalize(raw) == IF Keys(raw) = {} THEN DefaultMix ELSE Largest(raw)

\* What a client sends: names, known or not, with numbers.
IsRaw(raw) ==
    /\ Len(raw) \in Nat /\ DOMAIN raw = 1 .. Len(raw)
    /\ \A i \in DOMAIN raw : raw[i].demand \in Int

\* The value the last positive entry of a name leaves, 0 when there is none.
LastDemand(raw, name) ==
    LET positive == {i \in DOMAIN raw : raw[i].cap = name /\ raw[i].demand > 0}
    IN  IF name \notin Caps \/ positive = {} THEN 0
        ELSE AtMost(raw[CHOOSE i \in positive : \A j \in positive : j <= i].demand, 100)

\* What normalisation should give: at most three known capabilities with
\* demands in (0, 1], the largest ones, largest first, and never an empty mix.
IsNormalFormOf(mix, raw) ==
    LET wanted == {c \in Caps : LastDemand(raw, c) > 0} IN
    /\ mix \in Mix
    /\ wanted = {} => mix = DefaultMix
    /\ wanted # {} =>
        /\ Len(mix) = AtMost(Cardinality(wanted), 3)
        /\ \A i \in DOMAIN mix : mix[i].demand = LastDemand(raw, mix[i].cap)
        /\ \A i, j \in DOMAIN mix :
              i < j => mix[i].cap # mix[j].cap /\ mix[i].demand >= mix[j].demand
        /\ \A c \in wanted \ CapsOf(mix), i \in DOMAIN mix :
              mix[i].demand >= LastDemand(raw, c)

-----------------------------------------------------------------------------
(* _discovery_capabilities *)

\* The capabilities to look up, which the caller visits in the mix's order.
DiscoveryCapabilities(mix) ==
    LET meaningful == {i \in DOMAIN mix : mix[i].demand >= 30}
    IN  IF meaningful = {} THEN {mix[1].cap} ELSE {mix[i].cap : i \in meaningful}

\* What a lookup should cover: an entry point for the DHT at least, and no
\* need of the mix while a larger one is skipped.
IsCoverOf(found, mix) ==
    /\ mix[1].cap \in found
    /\ \A i \in DOMAIN mix : mix[i].cap \in found <=> i = 1 \/ mix[i].demand >= 30

\* c is the first of the capabilities in caps that the mix lists.
IsFirstOf(c, caps, mix) ==
    \E i \in DOMAIN mix :
        /\ mix[i].cap = c
        /\ c \in caps
        /\ \A j \in DOMAIN mix : mix[j].cap \in caps => i <= j

-----------------------------------------------------------------------------
(* _has_any_requested_capability, _weighted_capability_quality and          *)
(* _scored_candidate_routing_score; quality is a node's [Caps -> 0 .. 100]. *)

HasAnyRequested(quality, mix) == \E i \in DOMAIN mix : quality[mix[i].cap] > 0

\* A mix has at most three entries, so its sums are written out.
DemandAt(mix, i) == IF i \in DOMAIN mix THEN mix[i].demand ELSE 0
TotalDemand(mix) == DemandAt(mix, 1) + DemandAt(mix, 2) + DemandAt(mix, 3)

WeightedAt(mix, quality, i) ==
    IF i \in DOMAIN mix THEN mix[i].demand * quality[mix[i].cap] ELSE 0

\* The weighted quality, times the total demand.
WeightedQuality(mix, quality) ==
    Clamp(WeightedAt(mix, quality, 1) + WeightedAt(mix, quality, 2) + WeightedAt(mix, quality, 3),
          0, 100 * TotalDemand(mix))

Scale(mix) == 30000 * TotalDemand(mix)

\* MUTANT of ScoreOf: the failures are not capped at three.
ScoreUncapped(mix, quality, fresh, failures, latency) ==
    Clamp(225 * WeightedQuality(mix, quality)
            + TotalDemand(mix) * ((IF fresh THEN 4500 ELSE 0)
                                    - 700 * failures
                                    - 24 * AtMost(latency, 100)),
          0, Scale(mix))

\* MUTANT of ScoreOf: the latency counts for a candidate.
ScoreLatencyAdded(mix, quality, fresh, failures, latency) ==
    Clamp(225 * WeightedQuality(mix, quality)
            + TotalDemand(mix) * ((IF fresh THEN 4500 ELSE 0)
                                    - 700 * AtMost(failures, 3)
                                    + 24 * AtMost(latency, 100)),
          0, Scale(mix))

ScoreOf(mix, quality, fresh, failures, latency) ==
    Clamp(225 * WeightedQuality(mix, quality)
            + TotalDemand(mix) * ((IF fresh THEN 4500 ELSE 0)
                                    - 700 * AtMost(failures, 3)
                                    - 24 * AtMost(latency, 100)),
          0, Scale(mix))

\* MIN_ROUTING_SCORE_THRESHOLD = 0.65
Threshold(mix) == 19500 * TotalDemand(mix)
=============================================================================
