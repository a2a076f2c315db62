----------------------------- MODULE ChatStore ------------------------------
(***************************************************************************)
(* What the web gateway promises of conversations (src/ui/web_app.py),      *)
(* with no lock, file or thread: a turn appends its prompt to a             *)
(* conversation, in one step; later, in one step, its answer, if the node   *)
(* gave one and the conversation still exists; nothing else changes a       *)
(* conversation but its deletion.  A restart forgets every turn, and loses  *)
(* the conversations if it cut a save short; a save that fails loses them,  *)
(* and how the turn it was for ended.                                       *)
(***************************************************************************)
EXTENDS Conversations

VARIABLES
    stored,     \* stored[c]: the messages of conversation c
    outcome,    \* outcome[t]: what became of turn t
    home,       \* home[t]: the conversation of turn t
    made        \* the blank conversations ever created

storeVars == <<stored, outcome, home, made>>

\* A lost turn is forgotten; a stuck one is known, and never done.
Outcomes == {"unsent", "pending", "answered", "failed", "lost", "stuck"}

StoreInit ==
    /\ stored = Nothing
    /\ outcome = [t \in Turns |-> "unsent"]
    /\ home = [t \in Turns |-> t]
    /\ made = {}

Ask(t, id) ==
    /\ outcome[t] = "unsent"
    /\ outcome' = [outcome EXCEPT ![t] = "pending"]
    /\ home' = [home EXCEPT ![t] = Ensured(stored, id, t)]
    /\ stored' = WithMessage(stored, home'[t], Prompt(t))
    /\ UNCHANGED made

Reply(t) ==
    /\ outcome[t] = "pending"
    /\ outcome' = [outcome EXCEPT ![t] = "answered"]
    /\ stored' = IF home[t] \in Existing(stored)
                 THEN WithMessage(stored, home[t], Answer(t)) ELSE stored
    /\ UNCHANGED <<home, made>>

Refuse(t) ==
    /\ outcome[t] = "pending"
    /\ outcome' = [outcome EXCEPT ![t] = "failed"]
    /\ UNCHANGED <<stored, home, made>>

Create(b) ==
    /\ b \notin made
    /\ made' = made \cup {b}
    /\ stored' = WithBlank(stored, b)
    /\ UNCHANGED <<outcome, home>>

Delete(c) ==
    /\ stored' = Without(stored, c)
    /\ UNCHANGED <<outcome, home, made>>

Restart ==
    /\ stored' \in {stored, Nothing}
    /\ outcome' = [t \in Turns |-> IF outcome[t] = "unsent" THEN "unsent" ELSE "lost"]
    /\ UNCHANGED <<home, made>>

\* The save of a prompt, of an answer, or of neither.
SaveFails ==
    /\ stored' = Nothing
    /\ \/ \E t \in Turns : outcome[t] = "pending" /\ outcome' = [outcome EXCEPT ![t] = "lost"]
       \/ \E t \in Turns : outcome[t] = "answered" /\ outcome' = [outcome EXCEPT ![t] = "stuck"]
       \/ UNCHANGED outcome
    /\ UNCHANGED <<home, made>>

StoreNext ==
    \/ \E t \in Turns : (\E id \in Ids : Ask(t, id)) \/ Reply(t) \/ Refuse(t)
    \/ \E b \in Blanks : Create(b)
    \/ \E c \in Ids : Delete(c)
    \/ Restart \/ SaveFails

StoreSpec == StoreInit /\ [][StoreNext]_storeVars
-----------------------------------------------------------------------------
History(c) == stored[c].messages

\* No message is in the history twice: not in two conversations, not at two
\* places of one.  A retry or a lost update would show here.
NothingTwice ==
    \A c, d \in Ids : \A i \in DOMAIN History(c), j \in DOMAIN History(d) :
        History(c)[i] = History(d)[j] => c = d /\ i = j

\* An answer is in the conversation its prompt was put in, after the prompt.
AnswerAfterPrompt ==
    \A c \in Ids : \A j \in DOMAIN History(c) :
        History(c)[j].role = "Assistant" =>
            \E i \in 1 .. j - 1 : History(c)[i] = Prompt(History(c)[j].turn)

\* The history holds the answer of a turn that ended with one, unless its
\* conversation was deleted or lost, and no answer of a turn that failed, is
\* pending or is stuck.
HistoryMatchesOutcome ==
    \A t \in Turns :
        /\ outcome[t] = "answered" /\ home[t] \in Existing(stored) =>
            \E i \in DOMAIN History(home[t]) : History(home[t])[i] = Answer(t)
        /\ outcome[t] \notin {"answered", "lost"} =>
            \A c \in Ids : \A i \in DOMAIN History(c) : History(c)[i] # Answer(t)
=============================================================================
