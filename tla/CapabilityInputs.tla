-------------------------- MODULE CapabilityInputs --------------------------
(***************************************************************************)
(* The pure parts of the router, the classifier and a node's profile, over  *)
(* everything that may be written to them.  Each behaviour takes up one     *)
(* topic and writes an input for it piece by piece, the way a client, a     *)
(* configuration or a language model writes it:                             *)
(*   mixes         the entries of a mix                                     *)
(*   contacts      a mix, and contacts with a candidate that get worse      *)
(*   profiles      a configuration; the node is made with it, and scored    *)
(*   replies       a classifier's reply                                     *)
(***************************************************************************)
EXTENDS CapabilityProfile, ClassifierReply, SequencesExt

CONSTANTS
    NeedEntries, MaxNeeds,      \* bound: what a mix is written from, its entries
    PairEntries, MaxPairNeeds,  \* bound: the same with contacts
    Failures, Latencies,        \* bound: what contacts come to
    Candidates,                 \* the qualities of the nodes that are compared
    ConfigNames, MaxNames,      \* bound: the names of a configuration
    ConfigScores, MaxScores,    \* bound: the scores it gives
    ReplyShapes,                \* bound: objects and entries of a model's replies
    WordSets                    \* the names that stand alone in them

\* A shape of replies: the entries they are written from, how many objects
\* there are, and how many entries a dictionary has.
ASSUME InputsAssumption ==
    /\ \A e \in NeedEntries \cup PairEntries : e.demand \in Int
    /\ Failures \subseteq Nat /\ Latencies \subseteq Nat
    /\ Candidates \subseteq [Caps -> 0 .. 100]
    /\ \A shape \in ReplyShapes : \A e \in shape.entries :
           e.value.number \in BOOLEAN /\ e.value.n \in Int
    /\ \A words \in WordSets : IsFiniteSet(words) /\ words \subseteq Caps

VARIABLES
    topic,
    input       \* what is written so far, a record of the topic's own

inputVars == <<topic, input>>

About(t) == topic = t /\ UNCHANGED topic

-----------------------------------------------------------------------------
(* Mixes and contacts.                                                      *)

NoEntry == [raw |-> <<>>, fresh |-> TRUE, failures |-> 0, latency |-> 0]

NeedWritten(entries, most) ==
    /\ Len(input.raw) < most
    /\ \E e \in entries : input' = [input EXCEPT !.raw = Append(@, e)]

WriteMix == About("mixes") /\ NeedWritten(NeedEntries, MaxNeeds)
WritePair == About("contacts") /\ NeedWritten(PairEntries, MaxPairNeeds)

Worsens(before, after) ==
    /\ after.fresh => before.fresh
    /\ after.failures >= before.failures
    /\ after.latency >= before.latency

ContactWorsens ==
    /\ About("contacts")
    /\ \E failures \in Failures, latency \in Latencies, fresh \in BOOLEAN :
        LET next == [raw |-> input.raw, fresh |-> fresh, failures |-> failures, latency |-> latency] IN
        /\ Worsens(input, next)
        /\ input' = next

-----------------------------------------------------------------------------
(* Configurations: names, and the scores of some.                           *)

NoConfig ==
    [stage |-> "written", names |-> <<>>, given |-> <<>>,
     profile |-> [advertised |-> <<>>, scores |-> <<>>]]

WriteName ==
    /\ About("profiles") /\ input.stage = "written"
    /\ Len(input.names) < MaxNames
    /\ \E n \in ConfigNames : input' = [input EXCEPT !.names = Append(@, n)]

WriteScore ==
    /\ About("profiles") /\ input.stage = "written"
    /\ Len(input.given) < MaxScores
    /\ \E n \in ConfigNames, x \in ConfigScores :
        /\ \A i \in DOMAIN input.given : input.given[i].cap # n
        /\ input' = [input EXCEPT !.given = Append(@, [cap |-> n, score |-> x])]

\* Node.__init__: the advertised names are the scorer's role hints.
Make ==
    /\ About("profiles") /\ input.stage = "written"
    /\ input' = [input EXCEPT !.stage = "made", !.given = <<>>,
                              !.profile = Resolved(input.names, input.given)]

\* score_capabilities_before_advertising
Score ==
    /\ About("profiles") /\ input.stage = "made"
    /\ \E scores \in Simulated(Primary(input.profile.advertised)) :
           input' = [input EXCEPT !.stage = "scored", !.profile = Resolved(<<>>, scores)]

-----------------------------------------------------------------------------
(* Replies of a language model: objects, and names alone in the text.       *)

NoReplies == [objects : {<<>>}, words : WordSets, shape : ReplyShapes]

WriteObject ==
    /\ About("replies")
    /\ Len(input.objects) < input.shape.objects
    /\ \E o \in {Broken, Scores(<<>>)} \cup {Pair(e) : e \in input.shape.entries} :
           input' = [input EXCEPT !.objects = Append(@, o)]

\* An entry more in the last object.
WriteItem ==
    /\ About("replies")
    /\ input.objects # <<>>
    /\ LET last == Last(input.objects) IN
        /\ last.form = "scores" /\ Len(last.entries) < input.shape.items
        /\ \E e \in input.shape.entries :
               input' = [input EXCEPT !.objects[Len(input.objects)] =
                                          Scores(Append(last.entries, e))]

-----------------------------------------------------------------------------
InputInit ==
    \/ topic \in {"mixes", "contacts"} /\ input = NoEntry
    \/ topic = "profiles" /\ input = NoConfig
    \/ topic = "replies" /\ input \in NoReplies

InputNext ==
    \/ WriteMix \/ WritePair \/ ContactWorsens
    \/ WriteName \/ WriteScore \/ Make \/ Score
    \/ WriteObject \/ WriteItem

InputSpec == InputInit /\ [][InputNext]_inputVars

-----------------------------------------------------------------------------
(* Properties of RoutingScore *)

\* Mixes and what they look up are what they should be:
\* _normalize_capability_scores keeps at most three known capabilities with
\* demands in (0, 1], the largest ones, largest first, and never an empty mix;
\* _discovery_capabilities always leaves the DHT an entry point, and never
\* looks up a need of the mix while it skips a larger one.
MixesCorrect ==
    topic \in {"mixes", "contacts"} =>
        LET mix == Normalize(input.raw) IN
        /\ IsNormalFormOf(mix, input.raw)
        /\ IsCoverOf(DiscoveryCapabilities(mix), mix)

\* The history of a peer moves its score by 0.3 at most: a candidate whose
\* quality leads by 0.4 is ahead of any other, however good the other's
\* contacts and however bad its own.
QualityDominates ==
    topic = "contacts" =>
        LET mix == Normalize(input.raw) IN
        \A better, worse \in Candidates :
            WeightedQuality(mix, better) - WeightedQuality(mix, worse) >= 40 * TotalDemand(mix) =>
                ScoreOf(mix, better, input.fresh, input.failures, input.latency)
                    >= ScoreOf(mix, worse, TRUE, 0, 0)

\* A contact that gets worse never improves a score, and never carries a
\* candidate over the threshold.
WorseContactNeverHelps ==
    [][topic = "contacts" /\ input'.raw = input.raw =>
        LET mix == Normalize(input.raw) IN
        \A quality \in Candidates :
            LET before == ScoreOf(mix, quality, input.fresh, input.failures, input.latency)
                after == ScoreOf(mix, quality, input'.fresh, input'.failures, input'.latency) IN
            after <= before /\ (after >= Threshold(mix) => before >= Threshold(mix))]_inputVars

-----------------------------------------------------------------------------
(* Properties of CapabilityProfile *)

IsScored == topic = "profiles" /\ input.stage = "scored"

ScoredQuality == QualityOf(input.profile.scores)

Leading(place) == input.profile.advertised[place]

OnlyFor(c) == <<[cap |-> c, demand |-> 60]>>

\* "The DHT indexes only the strongest capabilities" (node.py:61): what a
\* scored node advertises is what it scored, best first, at most three.
AdvertisesStrongest ==
    IsScored =>
        /\ Len(input.profile.advertised) = 3
        /\ \A i \in 1 .. 3 : ScoredQuality[Leading(i)] > 0
        /\ \A i, j \in 1 .. 3 : i < j => ScoredQuality[Leading(i)] > ScoredQuality[Leading(j)]
        /\ \A c \in Caps : (\A i \in 1 .. 3 : Leading(i) # c) => ScoredQuality[c] = 0

\* A node that names what it is meant for becomes best at it: the first known
\* name of its configuration leads, unless three others stand before it.
FirstNameLeads ==
    IsScored =>
        \A i \in DOMAIN input.names :
            LET before == {input.names[j] : j \in 1 .. i - 1} IN
            input.names[i] \in Caps /\ before \cap Caps = {} /\ Cardinality(before) < 3
                => Leading(1) = input.names[i]

\* A request for the capability a node leads with finds it suitable as long as
\* it answers pings, however slowly, and has not failed since.
LeaderIsSuitable ==
    IsScored =>
        LET mix == OnlyFor(Leading(1)) IN
        \A latency \in Latencies :
            ScoreOf(mix, ScoredQuality, TRUE, 0, latency) >= Threshold(mix)

\* Its weak capability alone never makes it suitable.
WeakIsNotSuitable ==
    IsScored =>
        LET mix == OnlyFor(Leading(3)) IN
        \A fresh \in BOOLEAN : ScoreOf(mix, ScoredQuality, fresh, 0, 0) < Threshold(mix)

\* A node advertises what it scored best on, leads with what it was meant for,
\* and the threshold tells its best capability from its weak one.
ProfilesCorrect ==
    AdvertisesStrongest /\ FirstNameLeads /\ LeaderIsSuitable /\ WeakIsNotSuitable

-----------------------------------------------------------------------------
(* Properties of ClassifierReply *)

\* A reply is classified by what it says, and refused when it says nothing;
\* the router takes the classification as it is.
RepliesCorrect ==
    topic = "replies" =>
        LET mix == Classification(input.objects, input.words) IN
        RouterTakesItAsItIs(mix) /\ IsReadingOf(mix, input.objects, input.words)
=============================================================================
