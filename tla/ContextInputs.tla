--------------------------- MODULE ContextInputs ----------------------------
(***************************************************************************)
(* Conversations as they grow, message by message, before a prompt that     *)
(* goes to the network under the limit of an environment: the inputs of     *)
(* ContextWindow.                                                           *)
(***************************************************************************)
EXTENDS ContextWindow

CONSTANTS
    MessageSizes, MaxMessages,  \* bound: the sizes of messages, how many
    Prompts,                    \* the sizes of the prompt
    Settings                    \* what each WEB_ variable may be set to

ASSUME ContextAssumption ==
    /\ MessageSizes \subseteq [role : Nat, content : Nat]
    /\ Prompts \subseteq Nat
    /\ \A v \in Settings : v.set \in BOOLEAN /\ v.ok \in BOOLEAN /\ v.n \in Int

VARIABLES
    history,        \* the messages before the prompt
    asked,          \* the size of the prompt
    environment     \* the WEB_ variables of the process

contextVars == <<history, asked, environment>>

ContextInit ==
    /\ history = <<>>
    /\ asked \in Prompts
    /\ environment \in [perToken : Settings, tokens : Settings, chars : Settings]

WriteMessage ==
    /\ Len(history) < MaxMessages
    /\ \E m \in MessageSizes : history' = Append(history, m)
    /\ UNCHANGED <<asked, environment>>

ContextSpec == ContextInit /\ [][WriteMessage]_contextVars

-----------------------------------------------------------------------------
\* The window of a conversation is as many of the newest messages as fit under
\* the limit, and says so.
WindowCorrect ==
    LET limit == MaxContextChars(environment) IN
    IsWindowOf(NetworkContext(history, asked, limit), history, asked, limit)
=============================================================================
