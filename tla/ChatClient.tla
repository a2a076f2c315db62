----------------------------- MODULE ChatClient -----------------------------
(***************************************************************************)
(* A browser that uses the web gateway (src/ui/static/app.js), over the     *)
(* gateway as ChatStore promises it.  Every handler runs without            *)
(* interruption up to an await; between a request and its reply the user    *)
(* may send, select, delete and start chats, and replies come in any order. *)
(*                                                                          *)
(* A conversation on the screen is an object that messages are pushed to;   *)
(* a send keeps the object it began with, whatever is shown later.  The     *)
(* Enter key sends even while the button is disabled.                       *)
(***************************************************************************)
EXTENDS ChatStore, SequencesExt, FiniteSets

CONSTANTS
    Selections, Deletions,      \* clicks on a conversation, on delete
    MaxLosses, MaxFailures, MaxForeign, MaxPreviews    \* bounds

ASSUME ClientBounds == {MaxLosses, MaxFailures, MaxForeign, MaxPreviews} \subseteq Nat

VARIABLES
    objects,    \* the conversations the browser holds: id and bubbles
    shown,      \* state.currentConversation
    shownId,    \* state.currentConversationId
    send,       \* send[t]: the sendMessage call of turn t
    response,   \* response[t]: the conversation in the status of turn t
    select,     \* select[s]: a selectConversation call
    delete,     \* delete[d]: a deleteChat call
    preview,    \* the context meter, its timer and its requests
    nulled,     \* a reply without a conversation was handled
    spent       \* what the environment has done so far

clientVars == <<objects, shown, shownId, send, response, select, delete, preview,
                nulled, spent>>
vars == <<storeVars, clientVars>>

NoId == <<>>
LocalId(t) == <<"local", t>>
IsLocal(id) == \E t \in Turns : id = LocalId(t)

\* The ids the browser makes up are none of the gateway's.
ASSUME LocalIdsAssumption == NoId \notin Ids /\ \A t \in Turns : LocalId(t) \notin Ids

NoObject == <<>>
Optimistic(t) == <<"optimistic", t>>
Answered(t) == <<"answered", t>>
Fetched(s) == <<"fetched", s>>
Objects == {Optimistic(t) : t \in Turns} \cup {Answered(t) : t \in Turns}
               \cup {Fetched(s) : s \in Selections}

Bubble(m, pending) == [role |-> m.role, turn |-> m.turn, pending |-> pending]
Bubbles(messages) == [i \in DOMAIN messages |-> Bubble(messages[i], FALSE)]
IsPending(b) == b.pending
NotPending(b) == ~b.pending

\* conversation.messages.findIndex(pending), then splice.
WithoutFirstPending(bubbles) ==
    LET i == SelectInSeq(bubbles, IsPending) IN
    IF i = 0 THEN bubbles ELSE RemoveAt(bubbles, i)

Unsent == [pc |-> "idle", on |-> NoObject, asks |-> NoId, learned |-> FALSE,
           blind |-> FALSE, overlaps |-> FALSE]

InFlight(t) == send[t].pc \in {"starting", "started", "waiting", "answered", "refused"}

\* The bubbles of which the meter counts the characters; a meter is the
\* singleton of what it counts, or blank.
Counted == IF shown = NoObject THEN <<>> ELSE SelectSeq(objects[shown].bubbles, NotPending)
NoMeter == {}

Init ==
    /\ StoreInit
    /\ objects = [o \in Objects |-> [id |-> NoId, bubbles |-> <<>>]]
    /\ shown = NoObject /\ shownId = NoId
    /\ send = [t \in Turns |-> Unsent]
    /\ response = [t \in Turns |-> Missing]
    /\ select = [s \in Selections |-> [pc |-> "idle", id |-> NoId]]
    /\ delete = [d \in Deletions |-> [pc |-> "idle", id |-> NoId]]
    /\ preview = [seq |-> 0, timer |-> TRUE, requests |-> {}, meter |-> NoMeter]
    /\ nulled = FALSE
    /\ spent = [losses |-> 0, failures |-> 0, foreign |-> 0]

SchedulePreview == preview' = [preview EXCEPT !.timer = TRUE]

-----------------------------------------------------------------------------
(* sendMessage.                                                             *)

\* ensureOptimisticConversation, the two bubbles and the request.
SendMessage(t) ==
    LET isNew == shown = NoObject
        o == IF isNew THEN Optimistic(t) ELSE shown
        before == IF isNew THEN [id |-> LocalId(t), bubbles |-> <<>>] ELSE objects[o]
        others == {u \in Turns : send[u].on = o}
    IN
    /\ send[t].pc = "idle"
    /\ objects' = [objects EXCEPT ![o] =
          [before EXCEPT !.bubbles =
              @ \o <<Bubble(Prompt(t), FALSE), Bubble(Answer(t), TRUE)>>]]
    /\ shown' = o
    /\ shownId' = IF isNew THEN LocalId(t) ELSE shownId
    /\ send' = [send EXCEPT ![t] =
          [pc |-> "starting", on |-> o,
           asks |-> IF isNew \/ IsLocal(shownId) THEN NoId ELSE shownId,
           learned |-> FALSE,
           blind |-> \E u \in others : ~send[u].learned,
           overlaps |-> \E u \in others : InFlight(u)]]
    /\ SchedulePreview
    /\ UNCHANGED <<storeVars, response, select, delete, nulled, spent>>

Goes(t, pc) == send' = [send EXCEPT ![t].pc = pc]

\* The gateway takes the turn and replies.
TurnTaken(t) ==
    /\ send[t].pc = "starting"
    /\ Ask(t, send[t].asks)
    /\ Goes(t, "started")
    /\ UNCHANGED <<objects, shown, shownId, response, select, delete, preview, nulled, spent>>

\* MUTANT of StartReplied: the object keeps its local id.
StartRepliedKeepsId(t) ==
    /\ send[t].pc = "started"
    /\ send' = [send EXCEPT ![t].pc = "waiting", ![t].learned = TRUE]
    /\ shown' = send[t].on
    /\ shownId' = home[t]
    /\ UNCHANGED <<storeVars, objects, response, select, delete, preview, nulled, spent>>

\* MUTANT of StartReplied: the selection keeps its local id.
StartRepliedKeepsSelection(t) ==
    /\ send[t].pc = "started"
    /\ send' = [send EXCEPT ![t].pc = "waiting", ![t].learned = TRUE]
    /\ shown' = send[t].on
    /\ objects' = [objects EXCEPT ![send[t].on].id = home[t]]
    /\ UNCHANGED <<storeVars, shownId, response, select, delete, preview, nulled, spent>>

\* The reply selects the conversation of the turn, whatever was shown.
StartReplied(t) ==
    /\ send[t].pc = "started"
    /\ send' = [send EXCEPT ![t].pc = "waiting", ![t].learned = TRUE]
    /\ shown' = send[t].on
    /\ shownId' = home[t]
    /\ objects' = [objects EXCEPT ![send[t].on].id = home[t]]
    /\ UNCHANGED <<storeVars, response, select, delete, preview, nulled, spent>>

\* The gateway ends the turn; the status keeps the conversation as it is then.
TurnEnds(t) ==
    /\ \/ Reply(t) /\ response' = [response EXCEPT ![t] = stored'[home[t]]]
       \/ Refuse(t) /\ UNCHANGED response
    /\ UNCHANGED <<objects, shown, shownId, send, select, delete, preview, nulled, spent>>

\* MUTANT of PollReplied: a forgotten query counts as not done.
PollRepliedPatient(t) ==
    /\ send[t].pc = "waiting"
    /\ \/ outcome[t] = "answered" /\ Goes(t, "answered")
       \/ outcome[t] = "failed" /\ Goes(t, "refused")
    /\ UNCHANGED <<storeVars, objects, shown, shownId, response, select, delete, preview,
                   nulled, spent>>

\* A status request after the turn has ended, or was forgotten (404).  The
\* status of a stuck turn is never done: the browser asks again.
PollReplied(t) ==
    /\ send[t].pc = "waiting"
    /\ \/ outcome[t] = "answered" /\ Goes(t, "answered")
       \/ outcome[t] \in {"failed", "lost"} /\ Goes(t, "refused")
    /\ UNCHANGED <<storeVars, objects, shown, shownId, response, select, delete, preview,
                   nulled, spent>>

\* MUTANT of ShowAnswer: the object of the send stays on the screen.
ShowAnswerInPlace(t) ==
    /\ send[t].pc = "answered" /\ response[t].exists
    /\ Goes(t, "ended")
    /\ shown' = send[t].on
    /\ shownId' = home[t]
    /\ SchedulePreview
    /\ UNCHANGED <<storeVars, objects, response, select, delete, nulled, spent>>

\* The gateway's conversation replaces the object.
ShowAnswer(t) ==
    /\ send[t].pc = "answered" /\ response[t].exists
    /\ Goes(t, "ended")
    /\ objects' = [objects EXCEPT ![Answered(t)] =
          [id |-> home[t], bubbles |-> Bubbles(response[t].messages)]]
    /\ shown' = Answered(t)
    /\ shownId' = home[t]
    /\ SchedulePreview
    /\ UNCHANGED <<storeVars, response, select, delete, nulled, spent>>

\* The catch block: the first pending bubble of the object is taken away.
GivesUp(t) ==
    /\ Goes(t, "ended")
    /\ objects' = [objects EXCEPT ![send[t].on].bubbles = WithoutFirstPending(@)]
    /\ SchedulePreview
    /\ UNCHANGED <<storeVars, response, select, delete>>

\* The conversation was deleted meanwhile: it is null in the reply, the
\* screen is emptied, and reading its id raises before shownId is assigned.
AnswerWithoutConversation(t) ==
    /\ send[t].pc = "answered" /\ ~response[t].exists
    /\ shown' = NoObject
    /\ nulled' = TRUE
    /\ GivesUp(t)
    /\ UNCHANGED <<shownId, spent>>

ShowError(t) ==
    /\ send[t].pc = "refused"
    /\ GivesUp(t)
    /\ UNCHANGED <<shown, shownId, nulled, spent>>

\* A request fails, or is refused because its save failed: the gateway may
\* have taken it or not.
RequestFails(t) ==
    /\ send[t].pc \in {"starting", "started", "waiting", "answered", "refused"}
    /\ spent.failures < MaxFailures
    /\ spent' = [spent EXCEPT !.failures = @ + 1]
    /\ GivesUp(t)
    /\ UNCHANGED <<shown, shownId, nulled>>

-----------------------------------------------------------------------------
(* selectConversation, newChat, deleteChat.                                 *)

\* Any conversation that is or was listed, an optimistic one included.
Listed == {home[t] : t \in {u \in Turns : outcome[u] # "unsent"}}
          \cup {LocalId(t) : t \in {u \in Turns : send[u].on = Optimistic(u)}}

SelectConversation(s) ==
    /\ select[s].pc = "idle"
    /\ \E id \in Listed : select' = [select EXCEPT ![s] = [pc |-> "asked", id |-> id]]
    /\ UNCHANGED <<storeVars, objects, shown, shownId, send, response, delete, preview,
                   nulled, spent>>

\* get_conversation finds it, or replies 404 and the screen stays as it is.
ConversationServed(s) ==
    LET id == select[s].id IN
    /\ select[s].pc = "asked"
    /\ IF id \in Existing(stored)
       THEN /\ select' = [select EXCEPT ![s].pc = "served"]
            /\ objects' = [objects EXCEPT ![Fetched(s)] =
                  [id |-> id, bubbles |-> Bubbles(stored[id].messages)]]
       ELSE /\ select' = [select EXCEPT ![s].pc = "done"]
            /\ UNCHANGED objects
    /\ UNCHANGED <<storeVars, shown, shownId, send, response, delete, preview, nulled, spent>>

SelectionReplied(s) ==
    /\ select[s].pc = "served"
    /\ select' = [select EXCEPT ![s].pc = "done"]
    /\ shown' = Fetched(s)
    /\ shownId' = select[s].id
    /\ SchedulePreview
    /\ UNCHANGED <<storeVars, objects, send, response, delete, nulled, spent>>

NewChat ==
    /\ <<shown, shownId>> # <<NoObject, NoId>>
    /\ shown' = NoObject /\ shownId' = NoId
    /\ SchedulePreview
    /\ UNCHANGED <<storeVars, objects, send, response, select, delete, nulled, spent>>

DeleteChat(d) ==
    /\ delete[d].pc = "idle" /\ shownId # NoId
    /\ delete' = [delete EXCEPT ![d] = [pc |-> "asked", id |-> shownId]]
    /\ UNCHANGED <<storeVars, objects, shown, shownId, send, response, select, preview,
                   nulled, spent>>

ConversationDeleted(d) ==
    /\ delete[d].pc = "asked"
    /\ delete' = [delete EXCEPT ![d].pc = "deleted"]
    /\ Delete(delete[d].id)
    /\ UNCHANGED <<objects, shown, shownId, send, response, select, preview, nulled, spent>>

\* The reply clears the screen, whatever was selected since.
DeletionReplied(d) ==
    /\ delete[d].pc = "deleted"
    /\ delete' = [delete EXCEPT ![d].pc = "done"]
    /\ shown' = NoObject /\ shownId' = NoId
    /\ SchedulePreview
    /\ UNCHANGED <<storeVars, objects, send, response, select, nulled, spent>>

-----------------------------------------------------------------------------
(* The context meter: a timer, and requests numbered by contextPreviewSeq.  *)

TimerFires ==
    /\ preview.timer /\ preview.seq < MaxPreviews
    /\ preview' = [preview EXCEPT
          !.timer = FALSE, !.seq = @ + 1,
          !.requests = @ \cup {[seq |-> preview.seq + 1, counts |-> Counted]}]
    /\ UNCHANGED <<storeVars, objects, shown, shownId, send, response, select, delete,
                   nulled, spent>>

\* MUTANT of PreviewReplied: the last reply wins, not the last request.
PreviewRepliedUnordered(p) ==
    /\ p \in preview.requests
    /\ \E m \in {{p.counts}, NoMeter} :
          preview' = [preview EXCEPT !.requests = @ \ {p}, !.meter = m]
    /\ UNCHANGED <<storeVars, objects, shown, shownId, send, response, select, delete,
                   nulled, spent>>

\* Only the reply to the last request is shown; a failed one blanks the meter.
PreviewReplied(p) ==
    /\ p \in preview.requests
    /\ \E m \in {{p.counts}, NoMeter} :
          preview' = [preview EXCEPT
             !.requests = @ \ {p},
             !.meter = IF p.seq = preview.seq THEN m ELSE @]
    /\ UNCHANGED <<storeVars, objects, shown, shownId, send, response, select, delete,
                   nulled, spent>>

-----------------------------------------------------------------------------
(* The gateway restarts or fails to save; other clients delete.             *)

GatewayLoses ==
    /\ spent.losses < MaxLosses
    /\ spent' = [spent EXCEPT !.losses = @ + 1]
    /\ Restart \/ SaveFails
    /\ UNCHANGED <<objects, shown, shownId, send, response, select, delete, preview, nulled>>

ForeignDelete ==
    /\ spent.foreign < MaxForeign
    /\ spent' = [spent EXCEPT !.foreign = @ + 1]
    /\ \E c \in Existing(stored) : Delete(c)
    /\ UNCHANGED <<objects, shown, shownId, send, response, select, delete, preview, nulled>>

Sending(t) ==
    \/ TurnTaken(t) \/ StartReplied(t) \/ TurnEnds(t) \/ PollReplied(t)
    \/ ShowAnswer(t) \/ AnswerWithoutConversation(t) \/ ShowError(t)

Next ==
    \/ \E t \in Turns : SendMessage(t) \/ Sending(t) \/ RequestFails(t)
    \/ \E s \in Selections :
          SelectConversation(s) \/ ConversationServed(s) \/ SelectionReplied(s)
    \/ \E d \in Deletions : DeleteChat(d) \/ ConversationDeleted(d) \/ DeletionReplied(d)
    \/ NewChat
    \/ TimerFires
    \/ \E p \in preview.requests : PreviewReplied(p)
    \/ GatewayLoses \/ ForeignDelete

Spec == Init /\ [][Next]_vars

\* The browser runs its handlers and polls without end, and the gateway ends
\* the turns it took: its threads run, and the node answers or times out.
Fairness == \A t \in Turns : WF_vars(Sending(t))

FairSpec == Spec /\ Fairness
-----------------------------------------------------------------------------
KnownIds == Turns \cup {LocalId(t) : t \in Turns} \cup {NoId}

\* Every variable of the browser has its type.
TypeOK ==
    /\ \A o \in Objects :
          /\ objects[o].id \in KnownIds
          /\ objects[o].bubbles \in
                Seq([role : {"User", "Assistant"}, turn : Turns, pending : BOOLEAN])
    /\ shown \in Objects \cup {NoObject} /\ shownId \in KnownIds
    /\ \A t \in Turns :
          /\ send[t].pc \in {"idle", "starting", "started", "waiting", "answered",
                             "refused", "ended"}
          /\ send[t].on \in Objects \cup {NoObject}
          /\ send[t].asks \in Turns \cup {NoId}
    /\ \A s \in Selections : select[s].id \in KnownIds
    /\ \A d \in Deletions : delete[d].id \in KnownIds

\* What is shown is what state.currentConversationId names, so that the next
\* message and the delete button act on the conversation on the screen;
\* except after a reply without a conversation, which empties the screen and
\* leaves the id (app.js:1629).
ViewConsistent ==
    ~nulled =>
        IF shown = NoObject THEN shownId = NoId ELSE shownId = objects[shown].id

\* Every variable has its type, and the screen agrees with itself.
ScreenSound == TypeOK /\ ViewConsistent

\* When nothing is being sent, no bubble of the conversation shown waits for
\* an answer, unless a message was sent in it while another one was on its
\* way: only the disabled button prevents that, and the Enter key does not
\* ask it.
NoBubbleLeft ==
    /\ shown # NoObject
    /\ \A t \in Turns : ~InFlight(t)
    /\ \A t \in Turns : ~send[t].overlaps
    => \A i \in DOMAIN objects[shown].bubbles : ~objects[shown].bubbles[i].pending

\* The messages of one chat go to one conversation of the gateway, unless it
\* was deleted or lost, or one of them was sent before the reply to another
\* had named the conversation: then the reply that comes last names it, and
\* messages sent later follow that one.
OneConversation ==
    \A t, u \in Turns :
        /\ outcome[t] # "unsent" /\ outcome[u] # "unsent"
        /\ send[t].on = send[u].on
        /\ \A v \in Turns : send[v].on = send[t].on => ~send[v].blind
        /\ spent.losses + spent.foreign = 0
        /\ \A d \in Deletions : delete[d].pc = "idle"
        => home[t] = home[u]

\* When nothing is being sent and no preview is under way, the meter is about
\* the conversation shown, or blank: every change of the screen asks for a new
\* preview, and a late reply to an old request is dropped.
MeterFresh ==
    /\ ~preview.timer
    /\ \A p \in preview.requests : p.seq # preview.seq
    /\ \A t \in Turns : ~InFlight(t)
    => preview.meter \in {{Counted}, NoMeter}

\* Every message that is sent ends, with its answer or an error, even when
\* the gateway restarts and forgets it or a request fails; unless the save of
\* its answer fails, after which the browser polls for ever (app.js:1620, as
\* web_app.py:117 raises before the status is set).
EverySendEnds ==
    \A t \in Turns :
        send[t].pc = "starting" ~>
            send[t].pc = "ended" \/ (send[t].pc = "waiting" /\ outcome[t] = "stuck")
=============================================================================
