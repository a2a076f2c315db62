--------------------------- MODULE Conversations ----------------------------
(***************************************************************************)
(* The value in the conversations file, and what the web gateway does to    *)
(* it (src/ui/web_state.py).  A conversation is its messages; a message is  *)
(* the prompt or the answer of a turn.  Titles and times are left out: the  *)
(* list is sorted by time whenever it is loaded, so its order is no state.  *)
(***************************************************************************)
EXTENDS Sequences, Naturals

CONSTANTS
    Turns,      \* prompts sent by clients, each with the id of the
                \* conversation it would create
    Blanks      \* conversations created empty, by POST /api/conversations

ASSUME IdsAssumption == Turns \cap Blanks = {}

Ids == Turns \cup Blanks

Prompt(t) == [role |-> "User", turn |-> t]
Answer(t) == [role |-> "Assistant", turn |-> t]
Messages == [role : {"User", "Assistant"}, turn : Turns]

\* A conversation, and a list of them as load_conversations returns it.
Conversation == [exists : BOOLEAN, messages : Seq(Messages)]
Contents == [Ids -> Conversation]
Missing == [exists |-> FALSE, messages |-> <<>>]
Blank == [exists |-> TRUE, messages |-> <<>>]
Nothing == [c \in Ids |-> Missing]

Existing(convs) == {c \in Ids : convs[c].exists}

\* ensure_conversation: an unknown id stands for a new conversation.
Ensured(convs, id, t) == IF id \in Existing(convs) THEN id ELSE t

WithMessage(convs, c, m) ==
    [convs EXCEPT ![c] = [exists |-> TRUE, messages |-> Append(@.messages, m)]]

WithBlank(convs, b) == [convs EXCEPT ![b] = Blank]
Without(convs, c) == [convs EXCEPT ![c] = Missing]
=============================================================================
