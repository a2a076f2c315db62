------------------------------ MODULE MCInputs ------------------------------
(***************************************************************************)
(* Small instances of CapabilityInputs and ContextInputs, in one run.  For  *)
(* the first, names known and unknown, values on both sides of every bound, *)
(* contacts up to and past the caps of their terms; for the second, sizes   *)
(* on both sides of every limit, the gateway's roles "User" and             *)
(* "Assistant", and variables unset, not a number, negative and small.      *)
(*                                                                          *)
(* The two share nothing, so a behaviour writes for one of them only, while *)
(* the other's input is as empty as it was.                                 *)
(***************************************************************************)
EXTENDS CapabilityInputs, ContextInputs

\* The model values of the configuration.
CONSTANTS general, math, code, writing, unknown

MCNeedEntries ==
    [cap : Caps, demand : {0, 20, 70, 140}] \cup {[cap |-> unknown, demand |-> 70]}

MCPairEntries == [cap : {general, math}, demand : {-10, 0, 20, 30, 140}]

\* The candidates, by what they score for the capabilities of a pair.
MCCandidates ==
    {[c \in Caps |-> CASE c = general -> g [] c = math -> m [] OTHER -> 0] :
        g, m \in {0, 50, 90, 100}}

MCConfigNames == {general, math, code, unknown}

\* Short replies of every form, with text, values out of range, unknown names
\* and repeated ones; and one long dictionary.
MCReplyShapes ==
    {[entries |-> [cap : {general, math, unknown},
                   value : {NoNumber, Value(-10), Value(0), Value(30), Value(130)}],
      objects |-> 2, items |-> 2],
     [entries |-> [cap : Caps \cup {unknown}, value : {Value(30), Value(70)}],
      objects |-> 1, items |-> 4]}

\* No, one or two names alone in the text.
MCWordSets == {{}, {general}, {general, math}}

MCMessageSizes == [role : {4, 9}, content : {98, 800, 1500}]

MCSettings == {Unset, Bad, Number(-1), Number(300)}

MCPrompts == {1, 735, 1200}

NothingSet == [perToken |-> Unset, tokens |-> Unset, chars |-> Unset]

NoConversation == history = <<>> /\ asked = 1 /\ environment = NothingSet

NoInput == topic = "mixes" /\ input = NoEntry

MCInit == InputInit /\ ContextInit /\ (NoConversation \/ NoInput)

MCNext ==
    \/ InputNext /\ NoConversation /\ UNCHANGED contextVars
    \/ WriteMessage /\ NoInput /\ UNCHANGED inputVars

MCSpec == MCInit /\ [][MCNext]_<<inputVars, contextVars>>
=============================================================================
