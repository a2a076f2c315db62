--------------------------- MODULE ClassifierReply ---------------------------
(***************************************************************************)
(* From the text of a language model to a classification of a query         *)
(* (src/services/capability_classifier.py).                                 *)
(*                                                                          *)
(* A reply is the JSON objects in its text, in order, and the capability    *)
(* names that stand alone in it.  An object is broken, or a dictionary of   *)
(* scores, or the form {"capability": c, "score": x}, a pair.  A dictionary *)
(* is its items in order; keys that differ in case are one name.  A value   *)
(* is in hundredths, or is no number.                                       *)
(***************************************************************************)
EXTENDS RoutingScore

Raised == <<>>      \* no classification: the caller gets an exception
NoNumber == [number |-> FALSE, n |-> 0]
Value(n) == [number |-> TRUE, n |-> n]

Broken == [form |-> "broken", entries |-> <<>>]
Scores(entries) == [form |-> "scores", entries |-> entries]
Pair(entry) == [form |-> "pair", entries |-> <<entry>>]

InRange(v) == v.number /\ v.n \in 0 .. 100

-----------------------------------------------------------------------------
(* _parse_scores *)

Readable(objects) == {i \in DOMAIN objects : objects[i].form # "broken"}

\* MUTANT of Parsed: the first object that parses.
ParsedFirst(objects) ==
    IF Readable(objects) = {} THEN Broken
    ELSE objects[CHOOSE i \in Readable(objects) : \A j \in Readable(objects) : i <= j]

\* The object the scores are read from: the last one that parses.
Parsed(objects) ==
    IF Readable(objects) = {} THEN Broken
    ELSE objects[CHOOSE i \in Readable(objects) : \A j \in Readable(objects) : j <= i]

PairScores(entry) ==
    IF entry.cap \in Caps /\ InRange(entry.value) /\ entry.value.n > 0
    THEN <<[cap |-> entry.cap, demand |-> entry.value.n]>> ELSE <<>>

\* The items as needs: what is no number is none.
Demands(entries) ==
    [i \in DOMAIN entries |->
        [cap |-> entries[i].cap,
         demand |-> IF entries[i].value.number THEN entries[i].value.n ELSE 0]]

\* A known name has a value out of range: it spoils them all.
Spoiled(entries) ==
    \E i \in DOMAIN entries :
        entries[i].cap \in Caps /\ entries[i].value.number /\ ~InRange(entries[i].value)

DictScores(entries) == IF Spoiled(entries) THEN <<>> ELSE Largest(Demands(entries))

ParseScores(objects) ==
    LET data == Parsed(objects) IN
    CASE data.form = "pair"   -> PairScores(data.entries[1])
      [] data.form = "scores" -> DictScores(data.entries)
      [] OTHER                -> <<>>

-----------------------------------------------------------------------------
(* classify_scores: without scores, a single name in the text will do.      *)

ParseCapability(words) ==
    IF Cardinality(words) = 1
    THEN <<[cap |-> CHOOSE c \in words : TRUE, demand |-> 100]>> ELSE <<>>

Classification(objects, words) ==
    IF ParseScores(objects) # <<>> THEN ParseScores(objects)
    ELSE IF ParseCapability(words) # <<>> THEN ParseCapability(words)
    ELSE Raised

-----------------------------------------------------------------------------
(* What a classification should be.                                         *)

\* What a model can write.
IsReply(objects, words) ==
    /\ Len(objects) \in Nat /\ DOMAIN objects = 1 .. Len(objects)
    /\ \A i \in DOMAIN objects :
        LET o == objects[i] IN
        /\ o.form \in {"broken", "scores", "pair"}
        /\ Len(o.entries) \in Nat /\ DOMAIN o.entries = 1 .. Len(o.entries)
        /\ o.form = "pair" => Len(o.entries) = 1
        /\ \A k \in DOMAIN o.entries :
              o.entries[k].value.number \in BOOLEAN /\ o.entries[k].value.n \in Int
    /\ IsFiniteSet(words) /\ words \subseteq Caps

\* The objects a reply can be read from: the last one that parses, when a known
\* name has a need in it and none has a value out of range.
Usable(objects) ==
    {i \in DOMAIN objects :
        LET entries == objects[i].entries IN
        /\ objects[i].form # "broken"
        /\ \A j \in DOMAIN objects : j > i => objects[j].form = "broken"
        /\ \A k \in DOMAIN entries :
              entries[k].cap \in Caps /\ entries[k].value.number =>
                  entries[k].value.n \in 0 .. 100
        /\ \E k \in DOMAIN entries :
              entries[k].cap \in Caps /\ entries[k].value.number /\ entries[k].value.n > 0}

\* The router's own normalisation (routing_service.py) neither changes nor
\* reorders a classification.
RouterTakesItAsItIs(mix) == mix # Raised => mix \in Mix /\ Normalize(mix) = mix

\* A usable object is read: its largest needs, each what the model wrote last.
\* Else the text names one capability, or there is nothing to go by.
IsReadingOf(mix, objects, words) ==
    /\ \A i \in Usable(objects) : IsNormalFormOf(mix, Demands(objects[i].entries))
    /\ Usable(objects) = {} =>
          IF \E c \in words : words = {c}
          THEN Len(mix) = 1 /\ words = {mix[1].cap} /\ mix[1].demand = 100
          ELSE mix = Raised
=============================================================================
