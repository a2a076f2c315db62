-------------------------- MODULE ChatClientProofs --------------------------
(***************************************************************************)
(* What holds of ChatClient for any number of turns, selections, deletions, *)
(* failed requests and restarts: the screen agrees with itself, one chat is *)
(* one conversation, no bubble is left waiting, the meter is up to date.    *)
(***************************************************************************)
EXTENDS ChatClient, ChatStoreProofs, FiniteSetTheorems

-----------------------------------------------------------------------------
(* The inductive invariant, in five parts.                                  *)

Speech == [role : {"User", "Assistant"}, turn : Turns, pending : BOOLEAN]
Things == [id : KnownIds, bubbles : Seq(Speech)]
Sends ==
    [pc : {"idle", "starting", "started", "waiting", "answered", "refused", "ended"},
     on : Objects \cup {NoObject}, asks : Turns \cup {NoId},
     learned : BOOLEAN, blind : BOOLEAN, overlaps : BOOLEAN]
ClientTypeOK ==
    /\ objects \in [Objects -> Things]
    /\ shown \in Objects \cup {NoObject} /\ shownId \in KnownIds
    /\ send \in [Turns -> Sends]
    /\ response \in [Turns -> Conversation]
    /\ select \in [Selections -> [pc : {"idle", "asked", "served", "done"}, id : KnownIds]]
    /\ delete \in [Deletions -> [pc : {"idle", "asked", "deleted", "done"}, id : KnownIds]]
    /\ preview = [seq |-> preview.seq, timer |-> preview.timer,
                  requests |-> preview.requests, meter |-> preview.meter]
    /\ preview.seq \in Nat /\ preview.timer \in BOOLEAN
    /\ \A p \in preview.requests : p.seq \in Nat
    /\ nulled \in BOOLEAN
    /\ spent \in [losses : Nat, failures : Nat, foreign : Nat]
    /\ home \in [Turns -> Turns]

\* A conversation of the browser that is shown or that a call works on; those
\* of calls that are still on their way are neither.
Taken(o) == o = shown \/ \E t \in Turns : send[t].on = o

Wired ==
    /\ \A t \in Turns :
          /\ send[t].pc = "idle" <=> send[t].on = NoObject
          /\ send[t].pc = "idle" => ~send[t].learned /\ ~send[t].overlaps /\ ~send[t].blind
          /\ send[t].pc \in {"idle", "starting"} => outcome[t] = "unsent"
          /\ send[t].pc \in {"started", "waiting", "answered"} => outcome[t] # "unsent"
          /\ send[t].learned => outcome[t] # "unsent"
          /\ Taken(Optimistic(t)) => send[t].pc # "idle"
          /\ Taken(Answered(t)) => send[t].pc = "ended"
    /\ \A s \in Selections :
          /\ Taken(Fetched(s)) => select[s].pc = "done"
          /\ select[s].pc = "served" => objects[Fetched(s)].id = select[s].id

\* No conversation was deleted or lost so far.
Calm == spent.losses + spent.foreign = 0 /\ \A d \in Deletions : delete[d].pc = "idle"

Seeing(o) == \A t \in Turns : send[t].on = o => ~send[t].blind

\* In a chat with no blind send, who was told the conversation is in it, and
\* who was not has asked for it, or is alone.
OneChat(o) ==
    \A t \in Turns : send[t].on = o =>
        \/ objects[o].id \in Turns /\ (outcome[t] # "unsent" => home[t] = objects[o].id)
                /\ (~send[t].learned => send[t].asks = objects[o].id)
        \/ ~send[t].learned /\ send[t].asks = NoId /\ \A u \in Turns : send[u].on = o => u = t

ChatsHold ==
    /\ ~nulled
    /\ \A t \in Turns :
          /\ outcome[t] # "unsent" => home[t] \in Existing(stored)
          /\ outcome[t] = "answered" => response[t].exists
          /\ send[t].pc = "answered" => outcome[t] = "answered"
    /\ \A o \in Objects :
          /\ objects[o].id \in Turns => objects[o].id \in Existing(stored)
          /\ Seeing(o) => OneChat(o)

Chats == Calm => ChatsHold

\* Without overlapping sends: one is in flight in a conversation, one bubble of
\* it waits, and none does when none is.
Waits(o) == {i \in DOMAIN objects[o].bubbles : objects[o].bubbles[i].pending}
Flying(o) == {t \in Turns : send[t].on = o /\ InFlight(t)}

Bubbling ==
    (\A t \in Turns : ~send[t].overlaps) =>
        /\ \A o \in Objects :
              /\ \A t, u \in Flying(o) : t = u
              /\ Flying(o) # {} => \A i, j \in Waits(o) : i = j
              /\ shown = o /\ Flying(o) = {} => Waits(o) = {}
        /\ \A s \in Selections : select[s].pc = "served" => Waits(Fetched(s)) = {}

Metered ==
    /\ \A p \in preview.requests : p.seq <= preview.seq
    /\ \/ preview.timer
       \/ \E t \in Turns : InFlight(t)
       \/ /\ \A p \in preview.requests : p.seq = preview.seq => p.counts = Counted
          /\ (\A p \in preview.requests : p.seq # preview.seq) =>
                preview.meter \in {{Counted}, NoMeter}

ClientInvariant ==
    /\ StoreInvariant /\ ClientTypeOK /\ Wired /\ ViewConsistent /\ Chats /\ Bubbling /\ Metered

-----------------------------------------------------------------------------
(* Objects and bubbles.                                                     *)

\* The objects of different calls are different.
LEMMA ObjectNames ==
    /\ \A t \in Turns : Optimistic(t) \in Objects /\ Answered(t) \in Objects
    /\ \A s \in Selections : Fetched(s) \in Objects
    /\ NoObject \notin Objects
    /\ \A t, u \in Turns : /\ Optimistic(t) # Answered(u)
                           /\ Optimistic(t) = Optimistic(u) => t = u
                           /\ Answered(t) = Answered(u) => t = u
    /\ \A s, r \in Selections : Fetched(s) = Fetched(r) => s = r
    /\ \A s \in Selections, t \in Turns : Fetched(s) # Optimistic(t) /\ Fetched(s) # Answered(t)
BY DEF Objects, Optimistic, Answered, Fetched, NoObject

\* A set of numbers has a least one.
LEMMA LeastNumber ==
    ASSUME NEW S \in SUBSET Nat, S # {}
    PROVE  Min(S) \in S
<1> DEFINE R == StrictSubsetOrdering(Nat)
           T == {0 .. n : n \in S}
<1>1. T \subseteq FiniteSubsetsOf(Nat) /\ T # {}
  <2>1. ASSUME NEW n \in S PROVE IsFiniteSet(0 .. n) /\ 0 .. n \in SUBSET Nat
    BY FS_Interval
  <2>2. QED
    BY <2>1 DEF FiniteSubsetsOf
<1>2. PICK I \in T : \A J \in T : ~(<<J, I>> \in R)
  BY <1>1, FS_StrictSubsetOrderingWellFounded, WFMin
<1>3. PICK n \in S : I = 0 .. n
  OBVIOUS
<1>4. ASSUME NEW m \in S, m < n PROVE FALSE
  <2>1. n \in 0 .. n /\ n \notin 0 .. m
    BY <1>4
  <2>2. 0 .. m \in T /\ 0 .. m \subseteq 0 .. n /\ 0 .. m # 0 .. n
    BY <1>4, <2>1
  <2>3. <<0 .. m, 0 .. n>> \in R
    BY <1>4, <2>2 DEF StrictSubsetOrdering
  <2>4. QED
    BY <1>2, <1>3, <2>2, <2>3
<1>5. \A m \in S : n <= m
  BY <1>4
<1>6. QED
  BY <1>5 DEF Min

\* The bubbles after the first one that waits was taken away.
LEMMA FirstPendingGone ==
    ASSUME NEW b \in Seq(Speech)
    PROVE  /\ WithoutFirstPending(b) \in Seq(Speech)
           /\ (\A i, j \in DOMAIN b : b[i].pending /\ b[j].pending => i = j) =>
                 \A i \in DOMAIN WithoutFirstPending(b) : ~WithoutFirstPending(b)[i].pending
<1> DEFINE I == {i \in 1 .. Len(b) : IsPending(b[i])}
           k == SelectInSeq(b, IsPending)
<1>1. Len(b) \in Nat /\ DOMAIN b = 1 .. Len(b) /\ \A i \in 1 .. Len(b) : b[i] \in Speech
  BY LenProperties, ElementOfSeq
<1>2. k = IF I # {} THEN Min(I) ELSE 0
  BY DEF SelectInSeq
<1>0. WithoutFirstPending(b) = IF k = 0 THEN b ELSE RemoveAt(b, k)
  BY DEF WithoutFirstPending
<1>3. CASE I = {}
  <2>1. WithoutFirstPending(b) = b
    BY <1>0, <1>2, <1>3
  <2>2. \A i \in 1 .. Len(b) : ~b[i].pending
    BY <1>3 DEF IsPending
  <2>3. QED
    BY <1>1, <2>1, <2>2
<1>4. CASE I # {}
  <2>1. k \in I
    <3>1. I \in SUBSET Nat
      BY <1>1
    <3>2. QED
      BY <1>2, <1>4, <3>1, LeastNumber
  <2>2. k \in 1 .. Len(b) /\ b[k].pending
    BY <2>1 DEF IsPending
  <2> DEFINE x == SubSeq(b, 1, k - 1)
             y == SubSeq(b, k + 1, Len(b))
  <2> HIDE DEF k, I
  <2>3. WithoutFirstPending(b) = x \o y
    <3>1. k # 0
      BY <2>2
    <3>2. RemoveAt(b, k) = x \o y
      BY DEF RemoveAt
    <3>3. QED
      BY <1>0, <3>1, <3>2
  <2>4. /\ x \in Seq(Speech) /\ Len(x) = k - 1
        /\ \A i \in 1 .. k - 1 : x[i] = b[i]
    BY <1>1, <2>2, SubSeqProperties
  <2>5. /\ y \in Seq(Speech) /\ Len(y) = Len(b) - k
        /\ \A i \in 1 .. Len(b) - k : y[i] = b[k + i]
    <3>1. \A i \in k + 1 .. Len(b) : b[i] \in Speech
      BY <1>1, <2>2
    <3>2. k + 1 \in Int /\ Len(b) \in Int
      BY <1>1, <2>2
    <3>3. /\ y \in Seq(Speech)
          /\ Len(y) = IF k + 1 <= Len(b) THEN Len(b) - (k + 1) + 1 ELSE 0
          /\ \A i \in 1 .. Len(b) - (k + 1) + 1 : y[i] = b[(k + 1) + i - 1]
      BY <3>1, <3>2, SubSeqProperties
    <3>4. \A i \in 1 .. Len(b) - k : (k + 1) + i - 1 = k + i
      BY <1>1, <2>2
    <3>5. Len(b) - (k + 1) + 1 = Len(b) - k
      BY <1>1, <2>2
    <3> HIDE DEF y
    <3>6. Len(y) = Len(b) - k
      <4> DEFINE l == Len(b)
                 h == Len(y)
      <4>1. l \in Nat /\ k \in 1 .. l
        BY <1>1, <2>2
      <4>2. h = IF k + 1 <= l THEN l - (k + 1) + 1 ELSE 0
        BY <3>3
      <4> HIDE DEF l, h
      <4>3. h = l - k
        BY <4>1, <4>2
      <4>4. QED
        BY <4>3 DEF l, h
    <3>7. ASSUME NEW i \in 1 .. Len(b) - k PROVE y[i] = b[k + i]
      <4>1. i \in 1 .. Len(b) - (k + 1) + 1 /\ (k + 1) + i - 1 = k + i
        BY <3>4, <3>5
      <4>2. y[i] = b[(k + 1) + i - 1]
        BY <3>3, <4>1
      <4>3. QED
        BY <4>1, <4>2
    <3>8. QED
      BY <3>3, <3>6, <3>7
  <2> HIDE DEF x, y
  <2>6. /\ x \o y \in Seq(Speech) /\ Len(x \o y) = Len(b) - 1
        /\ \A i \in 1 .. Len(b) - 1 : (x \o y)[i] = IF i <= k - 1 THEN x[i] ELSE y[i - (k - 1)]
    <3>1. /\ x \o y \in Seq(Speech) /\ Len(x \o y) = Len(x) + Len(y)
          /\ \A i \in 1 .. Len(x) + Len(y) :
                (x \o y)[i] = IF i <= Len(x) THEN x[i] ELSE y[i - Len(x)]
      BY <2>4, <2>5, ConcatProperties
    <3>2. Len(x) + Len(y) = Len(b) - 1
      BY <1>1, <2>2, <2>4, <2>5
    <3>3. QED
      BY <2>4, <3>1, <3>2
  <2>7. ASSUME \A i, j \in DOMAIN b : b[i].pending /\ b[j].pending => i = j,
               NEW i \in 1 .. Len(b) - 1
        PROVE  ~(x \o y)[i].pending
    <3>1. CASE i <= k - 1
      <4>1. (x \o y)[i] = b[i] /\ i \in 1 .. Len(b) /\ i # k
        BY <1>1, <2>2, <2>4, <2>6, <3>1
      <4>2. QED
        BY <1>1, <2>2, <2>7, <4>1
    <3>2. CASE ~(i <= k - 1)
      <4>1. (x \o y)[i] = b[i + 1] /\ i + 1 \in 1 .. Len(b) /\ i + 1 # k
        BY <1>1, <2>2, <2>5, <2>6, <3>2
      <4>2. QED
        BY <1>1, <2>2, <2>7, <4>1
    <3>3. QED
      BY <3>1, <3>2
  <2>8. DOMAIN (x \o y) = 1 .. Len(b) - 1
    BY <2>6, LenProperties
  <2>9. QED
    BY <2>3, <2>6, <2>7, <2>8
<1>5. QED
  BY <1>3, <1>4

\* The bubbles of a message that is sent.
LEMMA BubblesPushed ==
    ASSUME NEW b \in Seq(Speech), NEW t \in Turns, NEW c,
           c = b \o <<Bubble(Prompt(t), FALSE), Bubble(Answer(t), TRUE)>>
    PROVE  /\ c \in Seq(Speech)
           /\ DOMAIN c = DOMAIN b \cup {Len(b) + 1, Len(b) + 2}
           /\ \A i \in DOMAIN b : c[i] = b[i]
           /\ ~c[Len(b) + 1].pending
<1> DEFINE p == Bubble(Prompt(t), FALSE)
           a == Bubble(Answer(t), TRUE)
<1>1. p \in Speech /\ a \in Speech /\ ~p.pending
  BY DEF Bubble, Prompt, Answer, Speech
<1> HIDE DEF p, a
<1>2. <<p, a>> \in Seq(Speech) /\ Len(<<p, a>>) = 2 /\ <<p, a>>[1] = p
  BY <1>1
<1>3. Len(b) \in Nat /\ DOMAIN b = 1 .. Len(b)
  BY LenProperties
<1>4. c = b \o <<p, a>>
  BY DEF p, a
<1>5. /\ c \in Seq(Speech) /\ Len(c) = Len(b) + 2
      /\ \A i \in 1 .. Len(b) + 2 : c[i] = IF i <= Len(b) THEN b[i] ELSE <<p, a>>[i - Len(b)]
  <2>1. /\ b \o <<p, a>> \in Seq(Speech) /\ Len(b \o <<p, a>>) = Len(b) + Len(<<p, a>>)
        /\ \A i \in 1 .. Len(b) + Len(<<p, a>>) :
              (b \o <<p, a>>)[i] = IF i <= Len(b) THEN b[i] ELSE <<p, a>>[i - Len(b)]
    BY <1>2, ConcatProperties
  <2> DEFINE two == <<p, a>>
  <2>2. /\ b \o two \in Seq(Speech) /\ Len(b \o two) = Len(b) + Len(two) /\ Len(two) = 2
        /\ \A i \in 1 .. Len(b) + Len(two) :
              (b \o two)[i] = IF i <= Len(b) THEN b[i] ELSE two[i - Len(b)]
        /\ c = b \o two
    BY <1>2, <1>4, <2>1
  <2> HIDE DEF two
  <2>3. /\ c \in Seq(Speech) /\ Len(c) = Len(b) + 2
        /\ \A i \in 1 .. Len(b) + 2 : c[i] = IF i <= Len(b) THEN b[i] ELSE two[i - Len(b)]
    BY <2>2
  <2>4. QED
    BY <2>3 DEF two
<1>6. DOMAIN c = 1 .. Len(b) + 2
  BY <1>5, LenProperties
<1>7. (Len(b) + 1) - Len(b) = 1 /\ Len(b) + 1 \in 1 .. Len(b) + 2 /\ ~(Len(b) + 1 <= Len(b))
  BY <1>3
<1>8. c[Len(b) + 1] = p
  BY <1>2, <1>5, <1>7
<1>9. /\ DOMAIN c = DOMAIN b \cup {Len(b) + 1, Len(b) + 2}
      /\ \A i \in DOMAIN b : i \in 1 .. Len(b) + 2 /\ i <= Len(b)
  BY <1>3, <1>6
<1>10. QED
  BY <1>1, <1>5, <1>8, <1>9

\* The bubbles of a conversation the gateway served: none waits.
LEMMA BubblesServed ==
    ASSUME NEW m \in Seq(Messages)
    PROVE  /\ Bubbles(m) \in Seq(Speech)
           /\ \A i \in DOMAIN Bubbles(m) : ~Bubbles(m)[i].pending
<1>1. Len(m) \in Nat /\ DOMAIN m = 1 .. Len(m) /\ \A i \in 1 .. Len(m) : m[i] \in Messages
  BY LenProperties, ElementOfSeq
<1>2. \A i \in 1 .. Len(m) : Bubble(m[i], FALSE) \in Speech /\ ~Bubble(m[i], FALSE).pending
  BY <1>1 DEF Messages, Bubble, Speech
<1> DEFINE b == Bubbles(m)
<1>3. /\ b \in [1 .. Len(m) -> Speech]
      /\ \A i \in 1 .. Len(m) : b[i] = Bubble(m[i], FALSE)
  BY <1>1, <1>2 DEF Bubbles
<1>4. DOMAIN b = 1 .. Len(m)
  BY <1>3
<1> HIDE DEF b
<1>5. b \in Seq(Speech)
  BY <1>1, <1>3
<1>6. \A i \in DOMAIN b : ~b[i].pending
  BY <1>2, <1>3, <1>4
<1>7. QED
  BY <1>5, <1>6 DEF b

-----------------------------------------------------------------------------
(* The gateway behind the browser is a ChatStore.                           *)

LEMMA StoreStep ==
    ASSUME ClientInvariant, [Next]_vars
    PROVE  [StoreNext]_storeVars /\ home' \in [Turns -> Turns]
<1> USE DEF ClientInvariant
<1>1. ASSUME NEW t \in Turns, TurnTaken(t)
      PROVE  [StoreNext]_storeVars /\ home' \in [Turns -> Turns]
  <2> DEFINE asks == send[t].asks
             id == IF asks \in Existing(stored) THEN asks ELSE t
  <2>1. Ask(t, asks) /\ asks \in Turns \cup {NoId}
    BY <1>1 DEF TurnTaken, ClientTypeOK, Sends
  <2>2. asks \in Existing(stored) => asks \in Turns
    BY <2>1, LocalIdsAssumption DEF Existing
  <2>3. id \in Turns /\ id \in Ids
    BY <2>2 DEF Ids
  <2>4. Ensured(stored, asks, t) = Ensured(stored, id, t) /\ Ensured(stored, asks, t) \in Turns
    BY <2>2 DEF Ensured
  <2>5. Ask(t, id)
    BY <2>1, <2>4 DEF Ask
  <2> HIDE DEF id
  <2>6. StoreNext
    BY <2>3, <2>5 DEF StoreNext
  <2>7. home' \in [Turns -> Turns]
    BY <2>1, <2>4 DEF Ask, ClientTypeOK
  <2>8. QED
    BY <2>6, <2>7
<1>2. ASSUME NEW t \in Turns, TurnEnds(t)
      PROVE  [StoreNext]_storeVars /\ home' \in [Turns -> Turns]
  BY <1>2 DEF TurnEnds, StoreNext, Reply, Refuse, ClientTypeOK
<1>3. ASSUME NEW c, Delete(c)
      PROVE  [StoreNext]_storeVars /\ home' \in [Turns -> Turns]
  <2>1. home' \in [Turns -> Turns]
    BY <1>3 DEF Delete, ClientTypeOK
  <2>2. CASE c \in Ids
    BY <1>3, <2>1, <2>2 DEF StoreNext
  <2>3. CASE c \notin Ids
    <3>1. stored \in Contents
      BY DEF StoreInvariant, StoreTypeOK
    <3>2. stored' = stored
      BY <1>3, <2>3, <3>1 DEF Delete, Without, Contents
    <3>3. QED
      BY <1>3, <2>1, <3>2 DEF Delete, storeVars
  <2>4. QED
    BY <2>2, <2>3
<1>4. ASSUME GatewayLoses
      PROVE  [StoreNext]_storeVars /\ home' \in [Turns -> Turns]
  <2>1. Restart \/ SaveFails
    BY <1>4 DEF GatewayLoses
  <2>2. StoreNext
    BY <2>1 DEF StoreNext
  <2>3. QED
    BY <2>1, <2>2 DEF Restart, SaveFails, ClientTypeOK
<1>5. CASE UNCHANGED storeVars
  BY <1>5 DEF storeVars, ClientTypeOK
<1>6. ASSUME NEW t \in Turns,
             \/ SendMessage(t) \/ StartReplied(t) \/ PollReplied(t) \/ ShowAnswer(t)
             \/ AnswerWithoutConversation(t) \/ ShowError(t) \/ RequestFails(t)
      PROVE  UNCHANGED storeVars
  BY <1>6 DEF SendMessage, StartReplied, PollReplied, ShowAnswer, AnswerWithoutConversation,
              ShowError, RequestFails, GivesUp
<1>7. ASSUME NEW s \in Selections,
             SelectConversation(s) \/ ConversationServed(s) \/ SelectionReplied(s)
      PROVE  UNCHANGED storeVars
  BY <1>7 DEF SelectConversation, ConversationServed, SelectionReplied
<1>8. ASSUME NEW d \in Deletions, DeleteChat(d) \/ DeletionReplied(d)
      PROVE  UNCHANGED storeVars
  BY <1>8 DEF DeleteChat, DeletionReplied
<1>9. ASSUME NEW d \in Deletions, ConversationDeleted(d)
      PROVE  [StoreNext]_storeVars /\ home' \in [Turns -> Turns]
  BY <1>3, <1>9 DEF ConversationDeleted
<1>10. ASSUME NEW p, NewChat \/ TimerFires \/ PreviewReplied(p)
       PROVE  UNCHANGED storeVars
  BY <1>10 DEF NewChat, TimerFires, PreviewReplied
<1>11. CASE ForeignDelete
  BY <1>3, <1>11 DEF ForeignDelete
<1>12. QED
  BY <1>1, <1>2, <1>4, <1>5, <1>6, <1>7, <1>8, <1>9, <1>10, <1>11 DEF Next, Sending, vars

LEMMA StoreKept ==
    ASSUME ClientInvariant, [Next]_vars
    PROVE  StoreInvariant'
BY StoreStep, StoreNextInvariant DEF ClientInvariant

-----------------------------------------------------------------------------
(* Every variable keeps its type.                                           *)

LEMMA NewId ==
    ASSUME ClientInvariant
    PROVE  /\ NoId \in KnownIds
           /\ \A t \in Turns : LocalId(t) \in KnownIds /\ home[t] \in KnownIds
BY DEF ClientInvariant, ClientTypeOK, KnownIds

\* The frame of a send moves on.
LEMMA SendGoes ==
    ASSUME ClientTypeOK, NEW t \in Turns, NEW pc, Goes(t, pc),
           pc \in {"started", "waiting", "answered", "refused", "ended"}
    PROVE  send' \in [Turns -> Sends]
<1>1. [send[t] EXCEPT !.pc = pc] \in Sends
  <2>1. send[t] \in Sends
    BY DEF ClientTypeOK
  <2>2. QED
    BY <2>1 DEF Sends
<1>2. send' = [send EXCEPT ![t] = [send[t] EXCEPT !.pc = pc]]
  BY DEF Goes
<1>3. QED
  BY <1>1, <1>2 DEF ClientTypeOK

LEMMA ObjectWritten ==
    ASSUME ClientTypeOK, NEW o \in Objects, NEW x \in Things, objects' = [objects EXCEPT ![o] = x]
    PROVE  /\ objects' \in [Objects -> Things]
           /\ objects'[o] = x
           /\ \A q \in Objects \ {o} : objects'[q] = objects[q]
BY DEF ClientTypeOK

\* A call of a user that gives up.
LEMMA GivesUpWrites ==
    ASSUME ClientInvariant, NEW t \in Turns, GivesUp(t), send[t].pc # "idle"
    PROVE  /\ send[t].on \in Objects
           /\ [objects[send[t].on] EXCEPT !.bubbles = WithoutFirstPending(@)] \in Things
           /\ objects' = [objects EXCEPT ![send[t].on] =
                             [objects[send[t].on] EXCEPT !.bubbles = WithoutFirstPending(@)]]
<1> DEFINE o == send[t].on
<1>1. o \in Objects
  BY DEF ClientInvariant, ClientTypeOK, Wired, Sends
<1>2. objects[o] \in Things
  BY <1>1 DEF ClientInvariant, ClientTypeOK
<1>3. WithoutFirstPending(objects[o].bubbles) \in Seq(Speech)
  <2>1. objects[o].bubbles \in Seq(Speech)
    BY <1>2 DEF Things
  <2>2. QED
    BY <2>1, FirstPendingGone
<1>4. objects' = [objects EXCEPT ![o] = [objects[o] EXCEPT !.bubbles = WithoutFirstPending(@)]]
  BY DEF GivesUp
<1> HIDE DEF o
<1>5. [objects[o] EXCEPT !.bubbles = WithoutFirstPending(@)] \in Things
  BY <1>2, <1>3 DEF Things
<1>6. QED
  BY <1>1, <1>4, <1>5 DEF o

\* What the gateway keeps of a conversation.
LEMMA StoredType ==
    ASSUME StoreInvariant, NEW c \in Ids
    PROVE  stored[c] \in Conversation /\ stored[c].messages \in Seq(Messages)
BY DEF StoreInvariant, StoreTypeOK, Contents, Conversation

LEMMA PreviewAsked ==
    ASSUME ClientTypeOK, SchedulePreview
    PROVE  /\ preview'.timer /\ preview'.seq = preview.seq
           /\ preview'.requests = preview.requests /\ preview'.meter = preview.meter
           /\ preview' = [seq |-> preview'.seq, timer |-> preview'.timer,
                          requests |-> preview'.requests, meter |-> preview'.meter]
           /\ preview'.seq \in Nat /\ preview'.timer \in BOOLEAN
           /\ \A p \in preview'.requests : p.seq \in Nat
<1> DEFINE x == preview.seq
           r == preview.requests
           m == preview.meter
<1>1. preview' = [seq |-> x, timer |-> TRUE, requests |-> r, meter |-> m]
  BY DEF ClientTypeOK, SchedulePreview
<1>2. x \in Nat /\ \A p \in r : p.seq \in Nat
  BY DEF ClientTypeOK
<1> HIDE DEF x, r, m
<1>3. QED
  BY <1>1, <1>2 DEF x, r, m

LEMMA SendMessageTypes ==
    ASSUME ClientInvariant, NEW t \in Turns, SendMessage(t)
    PROVE  /\ ClientTypeOK'
           /\ shown' \in Objects
           /\ objects'[shown'].bubbles =
                 (IF shown = NoObject THEN <<>> ELSE objects[shown].bubbles)
                     \o <<Bubble(Prompt(t), FALSE), Bubble(Answer(t), TRUE)>>
           /\ objects'[shown'].id =
                 IF shown = NoObject THEN LocalId(t) ELSE objects[shown].id
           /\ \A o \in Objects \ {shown'} : objects'[o] = objects[o]
<1> DEFINE isNew == shown = NoObject
           o == IF isNew THEN Optimistic(t) ELSE shown
           before == IF isNew THEN [id |-> LocalId(t), bubbles |-> <<>>] ELSE objects[o]
           pushed == before.bubbles \o <<Bubble(Prompt(t), FALSE), Bubble(Answer(t), TRUE)>>
           x == [before EXCEPT !.bubbles = pushed]
<1>0. ClientTypeOK
  BY DEF ClientInvariant
<1>1. o \in Objects
  BY <1>0, ObjectNames DEF ClientTypeOK
<1>2. before \in Things
  BY <1>0, <1>1, NewId, EmptySeq DEF ClientTypeOK, Things
<1>3. pushed \in Seq(Speech)
  <2>1. before.bubbles \in Seq(Speech)
    BY <1>2 DEF Things
  <2>2. QED
    BY <2>1, BubblesPushed
<1>4. objects' = [objects EXCEPT ![o] = x] /\ shown' = o
  BY DEF SendMessage
<1>5. x \in Things /\ x.id = before.id /\ x.bubbles = pushed
  <2> HIDE DEF before, pushed
  <2>1. QED
    BY <1>2, <1>3 DEF Things
<1>6. /\ objects' \in [Objects -> Things] /\ objects'[o] = x
      /\ \A q \in Objects \ {o} : objects'[q] = objects[q]
  <2> HIDE DEF x, o
  <2>1. QED
    BY <1>0, <1>1, <1>4, <1>5, ObjectWritten
<1>7. shownId' \in KnownIds
  BY <1>0, NewId DEF SendMessage, ClientTypeOK
<1>8. send' \in [Turns -> Sends]
  <2> DEFINE asks == IF isNew \/ IsLocal(shownId) THEN NoId ELSE shownId
             others == {u \in Turns : send[u].on = o}
             blind == \E u \in others : ~send[u].learned
             overlaps == \E u \in others : InFlight(u)
             f == [pc |-> "starting", on |-> o, asks |-> asks, learned |-> FALSE,
                   blind |-> blind, overlaps |-> overlaps]
  <2>1. asks \in Turns \cup {NoId}
    BY <1>0 DEF ClientTypeOK, KnownIds, IsLocal
  <2>2. blind \in BOOLEAN /\ overlaps \in BOOLEAN
    OBVIOUS
  <2>3. send' = [send EXCEPT ![t] = f]
    BY DEF SendMessage
  <2> HIDE DEF asks, blind, overlaps, o
  <2>4. f \in Sends
    BY <1>1, <2>1, <2>2 DEF Sends
  <2> HIDE DEF f
  <2>5. QED
    BY <1>0, <2>3, <2>4 DEF ClientTypeOK
<1>9. SchedulePreview /\ UNCHANGED <<storeVars, response, select, delete, nulled, spent>>
  BY DEF SendMessage
<1>10. ClientTypeOK'
  <2>1. shown' \in Objects \cup {NoObject} /\ home' = home
    BY <1>1, <1>4, <1>9 DEF storeVars
  <2>2. QED
    BY <1>0, <1>6, <1>7, <1>8, <1>9, <2>1, PreviewAsked DEF ClientTypeOK
<1>11. before.bubbles = IF shown = NoObject THEN <<>> ELSE objects[shown].bubbles
  OBVIOUS
<1>12. before.id = IF shown = NoObject THEN LocalId(t) ELSE objects[shown].id
  OBVIOUS
<1> HIDE DEF before, x, o
<1>13. QED
  BY <1>1, <1>4, <1>5, <1>6, <1>10, <1>11, <1>12

\* The parts of the type that a step of one call does not touch.
LEMMA StartRepliedWrites ==
    ASSUME ClientInvariant, NEW t \in Turns, StartReplied(t)
    PROVE  /\ ClientTypeOK'
           /\ send[t].on \in Objects
           /\ objects'[send[t].on].id = home[t]
           /\ \A o \in Objects : objects'[o].bubbles = objects[o].bubbles
           /\ \A o \in Objects \ {send[t].on} : objects'[o] = objects[o]
           /\ \A u \in Turns \ {t} : send'[u] = send[u]
           /\ send'[t] = [send[t] EXCEPT !.pc = "waiting", !.learned = TRUE]
<1> DEFINE o == send[t].on
           x == [objects[o] EXCEPT !.id = home[t]]
           f == [send[t] EXCEPT !.pc = "waiting", !.learned = TRUE]
<1>0. ClientTypeOK
  BY DEF ClientInvariant
<1>1. send[t] \in Sends /\ o \in Objects
  BY DEF ClientInvariant, ClientTypeOK, Wired, Sends, StartReplied
<1>2. objects[o] \in Things /\ home[t] \in KnownIds
  BY <1>0, <1>1, NewId DEF ClientTypeOK
<1>3. objects' = [objects EXCEPT ![o] = x] /\ send' = [send EXCEPT ![t] = f]
  BY DEF StartReplied
<1>4. f \in Sends
  BY <1>1 DEF Sends
<1> HIDE DEF f, o
<1>5. x \in Things /\ x.id = home[t] /\ x.bubbles = objects[o].bubbles
  BY <1>2 DEF Things
<1> HIDE DEF x
<1>6. /\ objects' \in [Objects -> Things] /\ objects'[o] = x
      /\ \A q \in Objects \ {o} : objects'[q] = objects[q]
  BY <1>0, <1>1, <1>3, <1>5, ObjectWritten
<1>7. send' \in [Turns -> Sends] /\ send'[t] = f /\ \A u \in Turns \ {t} : send'[u] = send[u]
  BY <1>0, <1>3, <1>4 DEF ClientTypeOK
<1>8. shown' \in Objects \cup {NoObject} /\ shownId' \in KnownIds
  BY <1>1, <1>2 DEF StartReplied, o
<1>9. ClientTypeOK'
  BY <1>0, <1>6, <1>7, <1>8 DEF ClientTypeOK, StartReplied, storeVars
<1>10. QED
  BY <1>1, <1>5, <1>6, <1>7, <1>9 DEF o, f

LEMMA ShowAnswerWrites ==
    ASSUME ClientInvariant, NEW t \in Turns, ShowAnswer(t)
    PROVE  /\ ClientTypeOK'
           /\ objects'[Answered(t)].id = home[t]
           /\ \A i \in DOMAIN objects'[Answered(t)].bubbles :
                 ~objects'[Answered(t)].bubbles[i].pending
           /\ \A o \in Objects \ {Answered(t)} : objects'[o] = objects[o]
           /\ \A u \in Turns \ {t} : send'[u] = send[u]
           /\ send'[t] = [send[t] EXCEPT !.pc = "ended"]
<1> DEFINE o == Answered(t)
           b == Bubbles(response[t].messages)
           x == [id |-> home[t], bubbles |-> b]
<1>0. ClientTypeOK
  BY DEF ClientInvariant
<1>1. o \in Objects /\ home[t] \in KnownIds
  BY <1>0, ObjectNames, NewId
<1>2. b \in Seq(Speech) /\ \A i \in DOMAIN b : ~b[i].pending
  <2>1. response[t].messages \in Seq(Messages)
    BY <1>0 DEF ClientTypeOK, Conversation
  <2>2. QED
    BY <2>1, BubblesServed
<1>3. objects' = [objects EXCEPT ![o] = x] /\ Goes(t, "ended")
  BY DEF ShowAnswer
<1> HIDE DEF b
<1>4. x \in Things /\ x.id = home[t] /\ x.bubbles = b
  BY <1>1, <1>2 DEF Things
<1> HIDE DEF x
<1>5. /\ objects' \in [Objects -> Things] /\ objects'[o] = x
      /\ \A q \in Objects \ {o} : objects'[q] = objects[q]
  <2> HIDE DEF o
  <2>1. QED
    BY <1>0, <1>1, <1>3, <1>4, ObjectWritten
<1>6. send' \in [Turns -> Sends]
  BY <1>0, <1>3, SendGoes
<1>7. shown' \in Objects \cup {NoObject} /\ shownId' \in KnownIds /\ SchedulePreview
  BY <1>1 DEF ShowAnswer
<1>8. ClientTypeOK'
  BY <1>0, <1>5, <1>6, <1>7, PreviewAsked DEF ClientTypeOK, ShowAnswer, storeVars
<1>9. /\ \A u \in Turns \ {t} : send'[u] = send[u]
      /\ send'[t] = [send[t] EXCEPT !.pc = "ended"]
  BY <1>0, <1>3 DEF ClientTypeOK, Goes
<1> HIDE DEF o
<1>10. QED
  BY <1>2, <1>4, <1>5, <1>8, <1>9 DEF o

\* A send ends without an answer, in three ways.
Abandons(t) ==
    /\ InFlight(t)
    /\ GivesUp(t)
    /\ \/ shown' = NoObject /\ nulled' = TRUE /\ UNCHANGED shownId
       \/ UNCHANGED <<shown, shownId, nulled>>
    /\ spent' \in [losses : Nat, failures : Nat, foreign : Nat]
    /\ spent'.losses = spent.losses /\ spent'.foreign = spent.foreign

LEMMA Abandoning ==
    ASSUME ClientInvariant, NEW t \in Turns,
           AnswerWithoutConversation(t) \/ ShowError(t) \/ RequestFails(t)
    PROVE  Abandons(t)
<1>1. spent \in [losses : Nat, failures : Nat, foreign : Nat]
  BY DEF ClientInvariant, ClientTypeOK
<1>2. CASE AnswerWithoutConversation(t)
  BY <1>1, <1>2 DEF AnswerWithoutConversation, Abandons, InFlight
<1>3. CASE ShowError(t)
  BY <1>1, <1>3 DEF ShowError, Abandons, InFlight
<1>4. CASE RequestFails(t)
  <2>1. /\ spent' \in [losses : Nat, failures : Nat, foreign : Nat]
        /\ spent'.losses = spent.losses /\ spent'.foreign = spent.foreign
    BY <1>1, <1>4 DEF RequestFails
  <2>2. QED
    BY <1>4, <2>1 DEF RequestFails, Abandons, InFlight
<1>5. QED
  BY <1>2, <1>3, <1>4

LEMMA AbandonsWrites ==
    ASSUME ClientInvariant, NEW t \in Turns, Abandons(t)
    PROVE  /\ ClientTypeOK'
           /\ send[t].on \in Objects
           /\ objects'[send[t].on].bubbles = WithoutFirstPending(objects[send[t].on].bubbles)
           /\ \A o \in Objects : objects'[o].id = objects[o].id
           /\ \A o \in Objects \ {send[t].on} : objects'[o] = objects[o]
           /\ \A u \in Turns \ {t} : send'[u] = send[u]
           /\ send'[t] = [send[t] EXCEPT !.pc = "ended"]
<1> DEFINE o == send[t].on
           b == WithoutFirstPending(objects[o].bubbles)
           x == [objects[o] EXCEPT !.bubbles = WithoutFirstPending(@)]
<1>0. ClientTypeOK /\ GivesUp(t) /\ send[t].pc # "idle"
  BY DEF ClientInvariant, Abandons, InFlight
<1>1. o \in Objects /\ x \in Things /\ objects' = [objects EXCEPT ![o] = x]
  BY <1>0, GivesUpWrites
<1>2. objects[o] \in Things
  BY <1>0, <1>1 DEF ClientTypeOK
<1>3. x.id = objects[o].id /\ x.bubbles = b
  <2> HIDE DEF o
  <2>1. QED
    BY <1>2 DEF Things
<1> HIDE DEF b, x
<1>4. /\ objects' \in [Objects -> Things] /\ objects'[o] = x
      /\ \A q \in Objects \ {o} : objects'[q] = objects[q]
  <2> HIDE DEF o
  <2>1. QED
    BY <1>0, <1>1, ObjectWritten
<1>5. Goes(t, "ended") /\ SchedulePreview /\ UNCHANGED <<storeVars, response, select, delete>>
  BY <1>0 DEF GivesUp
<1>6. send' \in [Turns -> Sends]
  BY <1>0, <1>5, SendGoes
<1>7. /\ shown' \in Objects \cup {NoObject} /\ shownId' \in KnownIds /\ nulled' \in BOOLEAN
      /\ spent' \in [losses : Nat, failures : Nat, foreign : Nat]
  BY <1>0 DEF Abandons, ClientTypeOK
<1>8. ClientTypeOK'
  BY <1>0, <1>4, <1>5, <1>6, <1>7, PreviewAsked DEF ClientTypeOK, storeVars
<1>9. /\ \A u \in Turns \ {t} : send'[u] = send[u]
      /\ send'[t] = [send[t] EXCEPT !.pc = "ended"]
  BY <1>0, <1>5 DEF ClientTypeOK, Goes
<1> HIDE DEF o
<1>10. QED
  BY <1>1, <1>3, <1>4, <1>8, <1>9 DEF o, b

LEMMA ConversationServedWrites ==
    ASSUME ClientInvariant, NEW s \in Selections, ConversationServed(s)
    PROVE  /\ ClientTypeOK'
           /\ \/ /\ UNCHANGED objects
                 /\ select' = [select EXCEPT ![s].pc = "done"]
              \/ /\ objects'[Fetched(s)].id = select[s].id /\ select[s].id \in Existing(stored)
                 /\ \A i \in DOMAIN objects'[Fetched(s)].bubbles :
                       ~objects'[Fetched(s)].bubbles[i].pending
                 /\ \A o \in Objects \ {Fetched(s)} : objects'[o] = objects[o]
                 /\ select' = [select EXCEPT ![s].pc = "served"]
<1> DEFINE id == select[s].id
           o == Fetched(s)
           b == Bubbles(stored[id].messages)
           x == [id |-> id, bubbles |-> b]
<1>0. ClientTypeOK /\ StoreInvariant
  BY DEF ClientInvariant
<1>1. o \in Objects /\ id \in KnownIds
  BY <1>0, ObjectNames DEF ClientTypeOK
<1>2. /\ [select EXCEPT ![s].pc = "done"] \in
             [Selections -> [pc : {"idle", "asked", "served", "done"}, id : KnownIds]]
      /\ [select EXCEPT ![s].pc = "served"] \in
             [Selections -> [pc : {"idle", "asked", "served", "done"}, id : KnownIds]]
  BY <1>0 DEF ClientTypeOK
<1>3. CASE id \in Existing(stored)
  <2>1. b \in Seq(Speech) /\ \A i \in DOMAIN b : ~b[i].pending
    <3>1. id \in Ids
      BY <1>3 DEF Existing
    <3>2. stored[id].messages \in Seq(Messages)
      BY <1>0, <3>1, StoredType
    <3>3. QED
      BY <3>2, BubblesServed
  <2>2. objects' = [objects EXCEPT ![o] = x] /\ select' = [select EXCEPT ![s].pc = "served"]
    BY <1>3 DEF ConversationServed
  <2> HIDE DEF b
  <2>3. x \in Things /\ x.id = id /\ x.bubbles = b
    BY <1>1, <2>1 DEF Things
  <2> HIDE DEF x
  <2>4. /\ objects' \in [Objects -> Things] /\ objects'[o] = x
        /\ \A q \in Objects \ {o} : objects'[q] = objects[q]
    <3> HIDE DEF o
    <3>1. QED
      BY <1>0, <1>1, <2>2, <2>3, ObjectWritten
  <2>5. ClientTypeOK'
    BY <1>0, <1>2, <2>2, <2>4 DEF ClientTypeOK, ConversationServed, storeVars
  <2> HIDE DEF o
  <2>6. QED
    BY <1>3, <2>1, <2>2, <2>3, <2>4, <2>5 DEF o
<1>4. CASE id \notin Existing(stored)
  <2>1. UNCHANGED objects /\ select' = [select EXCEPT ![s].pc = "done"]
    BY <1>4 DEF ConversationServed
  <2>2. ClientTypeOK'
    BY <1>0, <1>2, <2>1 DEF ClientTypeOK, ConversationServed, storeVars
  <2>3. QED
    BY <2>1, <2>2
<1>5. QED
  BY <1>3, <1>4

\* A timer that fires and a reply to a preview, field by field.
LEMMA TimerFiresWrites ==
    ASSUME ClientTypeOK, TimerFires
    PROVE  /\ ClientTypeOK'
           /\ ~preview'.timer /\ preview'.seq = preview.seq + 1
           /\ preview'.requests =
                 preview.requests \cup {[seq |-> preview.seq + 1, counts |-> Counted]}
<1> DEFINE x == preview.seq
           r == preview.requests
           m == preview.meter
           p == [seq |-> x + 1, counts |-> Counted]
<1>1. preview' = [seq |-> x + 1, timer |-> FALSE, requests |-> r \cup {p}, meter |-> m]
  BY DEF ClientTypeOK, TimerFires
<1>2. x \in Nat /\ p.seq = x + 1 /\ \A q \in r : q.seq \in Nat
  BY DEF ClientTypeOK
<1> HIDE DEF x, r, m, p
<1>3. /\ preview'.seq = x + 1 /\ preview'.timer = FALSE /\ preview'.requests = r \cup {p}
      /\ preview'.meter = m
  BY <1>1
<1>4. /\ preview' = [seq |-> preview'.seq, timer |-> preview'.timer,
                     requests |-> preview'.requests, meter |-> preview'.meter]
      /\ preview'.seq \in Nat /\ preview'.timer \in BOOLEAN
      /\ \A q \in preview'.requests : q.seq \in Nat
  BY <1>1, <1>2, <1>3
<1>5. ClientTypeOK'
  BY <1>4 DEF ClientTypeOK, TimerFires, storeVars
<1>6. QED
  BY <1>3, <1>5 DEF x, r, p

LEMMA PreviewRepliedWrites ==
    ASSUME ClientTypeOK, NEW p \in preview.requests, PreviewReplied(p)
    PROVE  /\ ClientTypeOK'
           /\ preview'.timer = preview.timer /\ preview'.seq = preview.seq
           /\ preview'.requests = preview.requests \ {p}
           /\ p.seq # preview.seq => preview'.meter = preview.meter
           /\ p.seq = preview.seq => preview'.meter \in {{p.counts}, NoMeter}
<1>1. PICK m \in {{p.counts}, NoMeter} :
          preview' = [preview EXCEPT
             !.requests = @ \ {p},
             !.meter = IF p.seq = preview.seq THEN m ELSE @]
  BY DEF PreviewReplied
<1> DEFINE x == preview.seq
           c == preview.timer
           r == preview.requests \ {p}
           n == IF p.seq = preview.seq THEN m ELSE preview.meter
<1>2. preview' = [seq |-> x, timer |-> c, requests |-> r, meter |-> n]
  BY <1>1 DEF ClientTypeOK
<1>3. x \in Nat /\ c \in BOOLEAN /\ \A q \in r : q.seq \in Nat
  BY DEF ClientTypeOK
<1> HIDE DEF x, r, c, n
<1>4. preview'.seq = x /\ preview'.timer = c /\ preview'.requests = r /\ preview'.meter = n
  BY <1>2
<1>5. /\ preview' = [seq |-> preview'.seq, timer |-> preview'.timer,
                     requests |-> preview'.requests, meter |-> preview'.meter]
      /\ preview'.seq \in Nat /\ preview'.timer \in BOOLEAN
      /\ \A q \in preview'.requests : q.seq \in Nat
  BY <1>2, <1>3, <1>4
<1>6. ClientTypeOK'
  BY <1>5 DEF ClientTypeOK, PreviewReplied, storeVars
<1>7. QED
  BY <1>1, <1>4, <1>6 DEF x, r, c, n

LEMMA TypesNext ==
    ASSUME ClientInvariant, [Next]_vars
    PROVE  ClientTypeOK'
<1>0. ClientTypeOK /\ StoreInvariant /\ StoreInvariant' /\ home' \in [Turns -> Turns]
  BY StoreStep, StoreKept DEF ClientInvariant
<1>1. ASSUME NEW t \in Turns, SendMessage(t) PROVE ClientTypeOK'
  BY <1>1, SendMessageTypes
<1>2. ASSUME NEW t \in Turns, TurnTaken(t) PROVE ClientTypeOK'
  <2>1. send' \in [Turns -> Sends]
    BY <1>0, <1>2, SendGoes DEF TurnTaken
  <2>2. QED
    BY <1>0, <1>2, <2>1 DEF TurnTaken, ClientTypeOK
<1>3. ASSUME NEW t \in Turns, StartReplied(t) PROVE ClientTypeOK'
  BY <1>3, StartRepliedWrites
<1>4. ASSUME NEW t \in Turns, TurnEnds(t) PROVE ClientTypeOK'
  <2>1. home[t] \in Ids
    BY <1>0 DEF ClientTypeOK, Ids
  <2>2. stored'[home[t]] \in Conversation
    BY <1>0, <2>1 DEF StoreInvariant, StoreTypeOK, Contents
  <2>3. response' \in [Turns -> Conversation]
    BY <1>0, <1>4, <2>2 DEF TurnEnds, ClientTypeOK
  <2>4. QED
    BY <1>0, <1>4, <2>3 DEF TurnEnds, ClientTypeOK
<1>5. ASSUME NEW t \in Turns, PollReplied(t) PROVE ClientTypeOK'
  <2>1. send' \in [Turns -> Sends]
    BY <1>0, <1>5, SendGoes DEF PollReplied
  <2>2. QED
    BY <1>0, <1>5, <2>1 DEF PollReplied, ClientTypeOK
<1>6. ASSUME NEW t \in Turns, ShowAnswer(t) PROVE ClientTypeOK'
  BY <1>6, ShowAnswerWrites
<1>7. ASSUME NEW t \in Turns, AnswerWithoutConversation(t) \/ ShowError(t) \/ RequestFails(t)
      PROVE  ClientTypeOK'
  BY <1>7, Abandoning, AbandonsWrites
<1>8. ASSUME NEW s \in Selections, SelectConversation(s) PROVE ClientTypeOK'
  <2>1. \A c \in Listed : c \in KnownIds
    BY <1>0, NewId DEF Listed, ClientTypeOK, KnownIds
  <2>2. select' \in [Selections -> [pc : {"idle", "asked", "served", "done"}, id : KnownIds]]
    BY <1>0, <1>8, <2>1 DEF SelectConversation, ClientTypeOK
  <2>3. QED
    BY <1>0, <1>8, <2>2 DEF SelectConversation, ClientTypeOK
<1>9. ASSUME NEW s \in Selections, ConversationServed(s) PROVE ClientTypeOK'
  BY <1>9, ConversationServedWrites
<1>10. ASSUME NEW s \in Selections, SelectionReplied(s) PROVE ClientTypeOK'
  <2>1. /\ select' \in [Selections -> [pc : {"idle", "asked", "served", "done"}, id : KnownIds]]
        /\ shown' \in Objects /\ shownId' \in KnownIds
    BY <1>0, <1>10, ObjectNames DEF SelectionReplied, ClientTypeOK
  <2>2. QED
    BY <1>0, <1>10, <2>1, PreviewAsked DEF SelectionReplied, ClientTypeOK
<1>11. CASE NewChat
  BY <1>0, <1>11, NewId, PreviewAsked DEF ClientInvariant, NewChat, ClientTypeOK
<1>12. ASSUME NEW d \in Deletions, DeleteChat(d) \/ ConversationDeleted(d) PROVE ClientTypeOK'
  <2>1. delete' \in [Deletions -> [pc : {"idle", "asked", "deleted", "done"}, id : KnownIds]]
    BY <1>0, <1>12 DEF DeleteChat, ConversationDeleted, ClientTypeOK
  <2>2. QED
    BY <1>0, <1>12, <2>1 DEF DeleteChat, ConversationDeleted, ClientTypeOK
<1>13. ASSUME NEW d \in Deletions, DeletionReplied(d) PROVE ClientTypeOK'
  <2>1. /\ delete' \in [Deletions -> [pc : {"idle", "asked", "deleted", "done"}, id : KnownIds]]
        /\ shownId' \in KnownIds
    BY <1>0, <1>13, NewId DEF DeletionReplied, ClientTypeOK, ClientInvariant
  <2>2. QED
    BY <1>0, <1>13, <2>1, PreviewAsked DEF DeletionReplied, ClientTypeOK
<1>14. CASE TimerFires
  BY <1>0, <1>14, TimerFiresWrites
<1>15. ASSUME NEW p \in preview.requests, PreviewReplied(p) PROVE ClientTypeOK'
  BY <1>0, <1>15, PreviewRepliedWrites
<1>16. CASE GatewayLoses \/ ForeignDelete
  <2>1. spent' \in [losses : Nat, failures : Nat, foreign : Nat]
    BY <1>0, <1>16 DEF GatewayLoses, ForeignDelete, ClientTypeOK
  <2>2. QED
    BY <1>0, <1>16, <2>1 DEF GatewayLoses, ForeignDelete, ClientTypeOK
<1>17. CASE UNCHANGED vars
  BY <1>0, <1>17 DEF vars, clientVars, storeVars, ClientTypeOK
<1>18. QED
  BY <1>1, <1>2, <1>3, <1>4, <1>5, <1>6, <1>7, <1>8, <1>9, <1>10, <1>11, <1>12, <1>13, <1>14,
     <1>15, <1>16, <1>17 DEF Next, Sending

-----------------------------------------------------------------------------
(* Calls and the objects they work on.                                      *)

\* A call moves on, and keeps all but its place.
LEMMA CallMoves ==
    ASSUME ClientTypeOK, NEW t \in Turns, NEW pc, Goes(t, pc)
    PROVE  /\ \A u \in Turns \ {t} : send'[u] = send[u]
           /\ send'[t].pc = pc /\ send'[t].learned = send[t].learned
           /\ \A u \in Turns : /\ send'[u].on = send[u].on /\ send'[u].asks = send[u].asks
                               /\ send'[u].learned = send[u].learned
                               /\ send'[u].blind = send[u].blind
                               /\ send'[u].overlaps = send[u].overlaps
<1>1. send[t] \in Sends /\ send' = [send EXCEPT ![t] = [send[t] EXCEPT !.pc = pc]]
  BY DEF Goes, ClientTypeOK
<1> DEFINE f == [send[t] EXCEPT !.pc = pc]
<1>2. /\ f.pc = pc /\ f.on = send[t].on /\ f.asks = send[t].asks
      /\ f.learned = send[t].learned /\ f.blind = send[t].blind /\ f.overlaps = send[t].overlaps
  BY <1>1 DEF Sends
<1> HIDE DEF f
<1>3. send'[t] = f /\ \A u \in Turns \ {t} : send'[u] = send[u]
  BY <1>1 DEF ClientTypeOK, f
<1>4. QED
  BY <1>2, <1>3

\* A message is sent on the object shown, or on one of its own.
LEMMA SendMessageSends ==
    ASSUME ClientInvariant, NEW t \in Turns, SendMessage(t)
    PROVE  /\ send[t].pc = "idle"
           /\ \A u \in Turns \ {t} : send'[u] = send[u]
           /\ shown' = IF shown = NoObject THEN Optimistic(t) ELSE shown
           /\ shownId' = IF shown = NoObject THEN LocalId(t) ELSE shownId
           /\ send'[t].pc = "starting" /\ send'[t].on = shown' /\ ~send'[t].learned
           /\ send'[t].asks = IF shown = NoObject \/ IsLocal(shownId) THEN NoId ELSE shownId
           /\ send'[t].blind <=> \E u \in Turns : send[u].on = shown' /\ ~send[u].learned
           /\ send'[t].overlaps <=> \E u \in Turns : send[u].on = shown' /\ InFlight(u)
<1> DEFINE isNew == shown = NoObject
           o == IF isNew THEN Optimistic(t) ELSE shown
           asks == IF isNew \/ IsLocal(shownId) THEN NoId ELSE shownId
           blind == \E u \in {v \in Turns : send[v].on = o} : ~send[u].learned
           overlaps == \E u \in {v \in Turns : send[v].on = o} : InFlight(u)
           f == [pc |-> "starting", on |-> o, asks |-> asks, learned |-> FALSE,
                 blind |-> blind, overlaps |-> overlaps]
<1>1. /\ send[t].pc = "idle" /\ send' = [send EXCEPT ![t] = f] /\ shown' = o
      /\ shownId' = IF isNew THEN LocalId(t) ELSE shownId
  BY DEF SendMessage
<1>2. /\ blind <=> \E u \in Turns : send[u].on = o /\ ~send[u].learned
      /\ overlaps <=> \E u \in Turns : send[u].on = o /\ InFlight(u)
  OBVIOUS
<1> HIDE DEF o, asks, blind, overlaps
<1>3. /\ f.pc = "starting" /\ f.on = o /\ f.asks = asks /\ ~f.learned
      /\ f.blind = blind /\ f.overlaps = overlaps
  OBVIOUS
<1> HIDE DEF f
<1>4. send'[t] = f /\ \A u \in Turns \ {t} : send'[u] = send[u]
  BY <1>1 DEF ClientInvariant, ClientTypeOK
<1>5. /\ send'[t].blind <=> \E u \in Turns : send[u].on = shown' /\ ~send[u].learned
      /\ send'[t].overlaps <=> \E u \in Turns : send[u].on = shown' /\ InFlight(u)
  BY <1>1, <1>2, <1>3, <1>4
<1>6. QED
  BY <1>1, <1>3, <1>4, <1>5 DEF o, asks

\* A reply that names the conversation changes its call and its object.
LEMMA StartRepliedSends ==
    ASSUME ClientInvariant, NEW t \in Turns, StartReplied(t)
    PROVE  /\ send[t].pc = "started" /\ send'[t].pc = "waiting" /\ send'[t].learned
           /\ \A u \in Turns \ {t} : send'[u] = send[u]
           /\ \A u \in Turns : /\ send'[u].on = send[u].on /\ send'[u].asks = send[u].asks
                               /\ send'[u].blind = send[u].blind
                               /\ send'[u].overlaps = send[u].overlaps
<1> DEFINE f == [send[t] EXCEPT !.pc = "waiting", !.learned = TRUE]
<1>1. send[t] \in Sends /\ send'[t] = f /\ \A u \in Turns \ {t} : send'[u] = send[u]
  BY StartRepliedWrites DEF ClientInvariant, ClientTypeOK
<1>2. /\ f.pc = "waiting" /\ f.on = send[t].on /\ f.asks = send[t].asks
      /\ f.learned /\ f.blind = send[t].blind /\ f.overlaps = send[t].overlaps
  BY <1>1 DEF Sends
<1>3. send[t].pc = "started"
  BY DEF StartReplied
<1> HIDE DEF f
<1>4. QED
  BY <1>1, <1>2, <1>3

\* A turn that the gateway took stays taken, in its conversation; another one
\* is taken only by TurnTaken.
LEMMA TurnsStayTaken ==
    ASSUME ClientInvariant, [Next]_vars, NEW t \in Turns
    PROVE  /\ outcome[t] # "unsent" => outcome'[t] # "unsent" /\ home'[t] = home[t]
           /\ outcome'[t] # "unsent" /\ outcome[t] = "unsent" => TurnTaken(t)
<1>1. outcome[t] # "unsent" => outcome'[t] # "unsent" /\ home'[t] = home[t]
  BY StoreStep, HomeGrows DEF ClientInvariant
<1>2. outcome \in [Turns -> Outcomes]
  BY DEF ClientInvariant, StoreInvariant, StoreTypeOK
<1>3. ASSUME outcome'[t] # "unsent", outcome[t] = "unsent" PROVE TurnTaken(t)
  <2>1. UNCHANGED outcome => FALSE
    BY <1>3
  <2>2. ASSUME NEW u \in Turns, TurnTaken(u) PROVE u = t
    BY <1>2, <1>3, <2>2 DEF TurnTaken, Ask
  <2>3. ASSUME NEW u \in Turns, TurnEnds(u) PROVE FALSE
    BY <1>2, <1>3, <2>3 DEF TurnEnds, Reply, Refuse
  <2>4. ASSUME GatewayLoses PROVE FALSE
    BY <1>2, <1>3, <2>4 DEF GatewayLoses, Restart, SaveFails
  <2>5. QED
    BY <2>1, <2>2, <2>3, <2>4 DEF Next, Sending, SendMessage, StartReplied, PollReplied, ShowAnswer,
       AnswerWithoutConversation, ShowError, RequestFails, GivesUp, SelectConversation,
       ConversationServed, SelectionReplied, DeleteChat, ConversationDeleted, DeletionReplied,
       NewChat, TimerFires, PreviewReplied, ForeignDelete, Delete, vars, storeVars
<1>4. QED
  BY <1>1, <1>3

\* A step that sends no message: what it must keep for the calls to stay wired.
LEMMA WiredStep ==
    ASSUME ClientTypeOK, Wired,
           \A u \in Turns :
              /\ send'[u].on = send[u].on
              /\ send[u].pc = "idle" => send'[u] = send[u]
              /\ send[u].pc # "idle" => send'[u].pc \notin {"idle", "starting"} \/ send'[u] = send[u]
              /\ send[u].pc = "ended" => send'[u].pc = "ended"
              /\ send'[u].pc \in {"idle", "starting"} => outcome'[u] = "unsent"
              /\ send'[u].pc \in {"started", "waiting", "answered"} => outcome'[u] # "unsent"
              /\ send'[u].learned => outcome'[u] # "unsent",
           \/ shown' \in {shown, NoObject}
           \/ \E u \in Turns : shown' = send[u].on
           \/ \E u \in Turns : shown' = Answered(u) /\ send'[u].pc = "ended"
           \/ \E s \in Selections : shown' = Fetched(s) /\ select'[s].pc = "done",
           \A s \in Selections :
              /\ select[s].pc = "done" => select'[s].pc = "done"
              /\ select'[s].pc = "served" => objects'[Fetched(s)].id = select'[s].id
    PROVE  Wired'
<1>1. \A o \in Objects : Taken(o)' =>
         \/ Taken(o)
         \/ \E u \in Turns : o = Answered(u) /\ send'[u].pc = "ended"
         \/ \E s \in Selections : o = Fetched(s) /\ select'[s].pc = "done"
  BY ObjectNames DEF Taken
<1>2. ASSUME NEW t \in Turns
      PROVE  /\ Taken(Optimistic(t))' => send'[t].pc # "idle"
             /\ Taken(Answered(t))' => send'[t].pc = "ended"
  BY <1>1, ObjectNames DEF Wired
<1>3. ASSUME NEW s \in Selections
      PROVE  Taken(Fetched(s))' => select'[s].pc = "done"
  BY <1>1, ObjectNames DEF Wired
<1>4. ASSUME NEW t \in Turns
      PROVE  /\ send'[t].pc = "idle" <=> send'[t].on = NoObject
             /\ send'[t].pc = "idle" => ~send'[t].learned /\ ~send'[t].overlaps /\ ~send'[t].blind
  BY DEF Wired
<1>5. QED
  BY <1>2, <1>3, <1>4 DEF Wired

\* A step of the browser's other handlers leaves the calls alone.
LEMMA WiredRest ==
    ASSUME ClientTypeOK, Wired, UNCHANGED <<send, objects, select>>, shown' \in {shown, NoObject},
           \A t \in Turns : outcome'[t] = "unsent" <=> outcome[t] = "unsent"
    PROVE  Wired'
<1>1. \A t \in Turns :
         /\ send[t].pc \in {"idle", "starting"} => outcome[t] = "unsent"
         /\ send[t].pc \in {"started", "waiting", "answered"} => outcome[t] # "unsent"
         /\ send[t].learned => outcome[t] # "unsent"
  BY DEF Wired
<1>2. \A s \in Selections : select[s].pc = "served" => objects[Fetched(s)].id = select[s].id
  BY DEF Wired
<1>3. QED
  BY <1>1, <1>2, WiredStep

LEMMA WiredNext ==
    ASSUME ClientInvariant, [Next]_vars
    PROVE  Wired'
<1>0. ClientTypeOK /\ Wired /\ outcome \in [Turns -> Outcomes]
  BY DEF ClientInvariant, StoreInvariant, StoreTypeOK
<1>a. \A t \in Turns :
         /\ send[t].pc \in {"idle", "starting"} => outcome[t] = "unsent"
         /\ send[t].pc \in {"started", "waiting", "answered"} => outcome[t] # "unsent"
         /\ send[t].learned => outcome[t] # "unsent"
         /\ send[t].pc \in {"idle", "starting", "started", "waiting", "answered", "refused", "ended"}
  BY <1>0 DEF Wired, ClientTypeOK, Sends
<1>b. \A s \in Selections : select[s].pc = "served" => objects[Fetched(s)].id = select[s].id
  BY <1>0 DEF Wired
<1>1. ASSUME NEW t \in Turns, SendMessage(t) PROVE Wired'
  <2>1. UNCHANGED <<select, outcome>>
    BY <1>1 DEF SendMessage, storeVars
  <2>2. shown' \in Objects /\ \A o \in Objects \ {shown'} : objects'[o] = objects[o]
    BY <1>1, SendMessageTypes
  <2>3. ASSUME NEW o \in Objects, Taken(o)' PROVE Taken(o) \/ o = Optimistic(t)
    BY <1>1, <2>3, SendMessageSends DEF Taken
  <2>4. ASSUME NEW u \in Turns
        PROVE  /\ Taken(Optimistic(u))' => send'[u].pc # "idle"
               /\ Taken(Answered(u))' => send'[u].pc = "ended"
    <3>1. CASE u = t
      BY <1>0, <1>1, <2>3, <3>1, SendMessageSends, ObjectNames DEF Wired
    <3>2. CASE u # t
      BY <1>0, <1>1, <2>3, <3>2, SendMessageSends, ObjectNames DEF Wired
    <3>3. QED
      BY <3>1, <3>2
  <2>5. ASSUME NEW s \in Selections
        PROVE  /\ Taken(Fetched(s))' => select'[s].pc = "done"
               /\ select'[s].pc = "served" => objects'[Fetched(s)].id = select'[s].id
    <3>1. Taken(Fetched(s))' => select[s].pc = "done"
      BY <1>0, <2>3, ObjectNames DEF Wired
    <3>2. \A o \in Objects : o = shown' => Taken(o)'
      BY DEF Taken
    <3>3. select[s].pc = "served" => Fetched(s) # shown'
      BY <3>1, <3>2, ObjectNames
    <3>4. QED
      BY <1>b, <2>1, <2>2, <3>1, <3>3, ObjectNames
  <2>6. ASSUME NEW u \in Turns
        PROVE  /\ send'[u].pc = "idle" <=> send'[u].on = NoObject
               /\ send'[u].pc = "idle" => ~send'[u].learned /\ ~send'[u].overlaps /\ ~send'[u].blind
               /\ send'[u].pc \in {"idle", "starting"} => outcome'[u] = "unsent"
               /\ send'[u].pc \in {"started", "waiting", "answered"} => outcome'[u] # "unsent"
               /\ send'[u].learned => outcome'[u] # "unsent"
    <3>1. CASE u = t
      BY <1>a, <1>1, <2>1, <2>2, <3>1, SendMessageSends, ObjectNames
    <3>2. CASE u # t
      BY <1>0, <1>1, <2>1, <3>2, SendMessageSends DEF Wired
    <3>3. QED
      BY <3>1, <3>2
  <2>7. QED
    BY <2>4, <2>5, <2>6 DEF Wired
<1>2. ASSUME NEW t \in Turns, TurnTaken(t) PROVE Wired'
  <2>1. /\ Goes(t, "started") /\ send[t].pc = "starting" /\ UNCHANGED <<objects, shown, select>>
        /\ outcome'[t] = "pending" /\ \A u \in Turns \ {t} : outcome'[u] = outcome[u]
    BY <1>0, <1>2 DEF TurnTaken, Ask
  <2>2. QED
    BY <1>0, <1>a, <1>b, <2>1, CallMoves, WiredStep
<1>3. ASSUME NEW t \in Turns, StartReplied(t) PROVE Wired'
  <2>1. /\ UNCHANGED <<select, outcome>> /\ shown' = send[t].on /\ send[t].on \in Objects
        /\ \A o \in Objects \ {send[t].on} : objects'[o] = objects[o]
    BY <1>3, StartRepliedWrites DEF StartReplied, storeVars
  <2>2. ASSUME NEW s \in Selections, select[s].pc = "served" PROVE Fetched(s) # send[t].on
    BY <1>0, <2>2 DEF Wired, Taken
  <2>3. QED
    BY <1>0, <1>3, <1>a, <1>b, <2>1, <2>2, ObjectNames, StartRepliedSends, WiredStep
<1>4. ASSUME NEW t \in Turns, TurnEnds(t) PROVE Wired'
  <2>1. UNCHANGED <<send, objects, select, shown>>
    BY <1>4 DEF TurnEnds
  <2>2. \A u \in Turns : outcome'[u] = "unsent" <=> outcome[u] = "unsent"
    BY <1>0, <1>4 DEF TurnEnds, Reply, Refuse
  <2>3. QED
    BY <1>0, <2>1, <2>2, WiredRest
<1>5. ASSUME NEW t \in Turns, PollReplied(t) PROVE Wired'
  <2>1. /\ Goes(t, "answered") \/ Goes(t, "refused")
        /\ send[t].pc = "waiting" /\ UNCHANGED <<objects, shown, select, outcome>>
    BY <1>5 DEF PollReplied, storeVars
  <2>2. QED
    BY <1>0, <1>a, <1>b, <2>1, CallMoves, WiredStep
<1>6. ASSUME NEW t \in Turns, ShowAnswer(t) PROVE Wired'
  <2>1. /\ Goes(t, "ended") /\ send[t].pc = "answered" /\ UNCHANGED <<select, outcome>>
        /\ shown' = Answered(t)
    BY <1>6 DEF ShowAnswer, storeVars
  <2>2. \A s \in Selections : objects'[Fetched(s)] = objects[Fetched(s)]
    BY <1>6, ShowAnswerWrites, ObjectNames
  <2>3. QED
    BY <1>0, <1>a, <1>b, <2>1, <2>2, CallMoves, WiredStep
<1>7. ASSUME NEW t \in Turns, AnswerWithoutConversation(t) \/ ShowError(t) \/ RequestFails(t)
      PROVE  Wired'
  <2>0. Abandons(t)
    BY <1>7, Abandoning
  <2>1. /\ Goes(t, "ended") /\ send[t].pc # "idle" /\ UNCHANGED <<select, outcome>>
        /\ shown' \in {shown, NoObject}
    BY <2>0 DEF Abandons, InFlight, GivesUp, storeVars
  <2>2. \A s \in Selections : objects'[Fetched(s)].id = objects[Fetched(s)].id
    BY <2>0, AbandonsWrites, ObjectNames
  <2>3. QED
    BY <1>0, <1>a, <1>b, <2>1, <2>2, CallMoves, WiredStep
<1>8. ASSUME NEW s \in Selections, SelectConversation(s) PROVE Wired'
  <2>1. /\ UNCHANGED <<send, outcome, objects, shown>> /\ select[s].pc = "idle"
        /\ select'[s].pc = "asked" /\ \A r \in Selections \ {s} : select'[r] = select[r]
    BY <1>0, <1>8 DEF SelectConversation, storeVars, ClientTypeOK
  <2>2. QED
    BY <1>0, <1>a, <1>b, <2>1, WiredStep
<1>9. ASSUME NEW s \in Selections, ConversationServed(s) PROVE Wired'
  <2>1. /\ UNCHANGED <<send, outcome, shown>> /\ select[s].pc = "asked"
    BY <1>9 DEF ConversationServed, storeVars
  <2>2. \A r \in Selections \ {s} : select'[r] = select[r]
    BY <1>0, <1>9, ConversationServedWrites DEF ClientTypeOK
  <2>3. \A r \in Selections \ {s} : objects'[Fetched(r)] = objects[Fetched(r)]
    BY <1>9, ConversationServedWrites, ObjectNames
  <2>4. /\ select'[s].pc \in {"done", "served"} /\ select'[s].id = select[s].id
        /\ select'[s].pc = "served" => objects'[Fetched(s)].id = select[s].id
    BY <1>0, <1>9, ConversationServedWrites DEF ClientTypeOK
  <2>5. QED
    BY <1>0, <1>a, <1>b, <2>1, <2>2, <2>3, <2>4, WiredStep
<1>10. ASSUME NEW s \in Selections, SelectionReplied(s) PROVE Wired'
  <2>1. /\ UNCHANGED <<send, outcome, objects>> /\ shown' = Fetched(s)
        /\ select'[s].pc = "done" /\ \A r \in Selections \ {s} : select'[r] = select[r]
    BY <1>0, <1>10 DEF SelectionReplied, storeVars, ClientTypeOK
  <2>2. QED
    BY <1>0, <1>a, <1>b, <2>1, WiredStep
<1>11. ASSUME NEW d \in Deletions,
              DeleteChat(d) \/ ConversationDeleted(d) \/ DeletionReplied(d) PROVE Wired'
  <2>1. UNCHANGED <<send, objects, select, outcome>> /\ shown' \in {shown, NoObject}
    BY <1>11 DEF DeleteChat, ConversationDeleted, DeletionReplied, Delete, storeVars
  <2>2. QED
    BY <1>0, <2>1, WiredRest
<1>12. ASSUME NEW p, NewChat \/ TimerFires \/ PreviewReplied(p) PROVE Wired'
  <2>1. UNCHANGED <<send, objects, select, outcome>> /\ shown' \in {shown, NoObject}
    BY <1>12 DEF NewChat, TimerFires, PreviewReplied, storeVars
  <2>2. QED
    BY <1>0, <2>1, WiredRest
<1>13. CASE GatewayLoses \/ ForeignDelete
  <2>1. UNCHANGED <<send, objects, select, shown>>
    BY <1>13 DEF GatewayLoses, ForeignDelete
  <2>2. \A u \in Turns : outcome'[u] = "unsent" <=> outcome[u] = "unsent"
    BY <1>0, <1>13 DEF GatewayLoses, ForeignDelete, Restart, SaveFails, Delete
  <2>3. QED
    BY <1>0, <2>1, <2>2, WiredRest
<1>14. CASE UNCHANGED vars
  <2>1. UNCHANGED <<send, objects, select, shown, outcome>>
    BY <1>14 DEF vars, clientVars, storeVars
  <2>2. QED
    BY <1>0, <2>1, WiredRest
<1>15. QED
  BY <1>1, <1>2, <1>3, <1>4, <1>5, <1>6, <1>7, <1>8, <1>9, <1>10, <1>11, <1>12, <1>13, <1>14
     DEF Next, Sending

-----------------------------------------------------------------------------
(* The screen agrees with itself.                                           *)

LEMMA ViewNext ==
    ASSUME ClientInvariant, [Next]_vars
    PROVE  ViewConsistent'
<1>0. ClientTypeOK /\ Wired /\ ViewConsistent
  BY DEF ClientInvariant
<1>1. ASSUME UNCHANGED <<nulled, shown, shownId>>,
             \A o \in Objects : o = shown => objects'[o].id = objects[o].id
      PROVE  ViewConsistent'
  BY <1>0, <1>1 DEF ViewConsistent, ClientTypeOK
<1>2. ASSUME NEW t \in Turns, SendMessage(t) PROVE ViewConsistent'
  <2>1. UNCHANGED nulled
    BY <1>2 DEF SendMessage
  <2>2. shown' # NoObject /\ (~nulled => shownId' = objects'[shown'].id)
    BY <1>0, <1>2, SendMessageSends, SendMessageTypes, ObjectNames DEF ViewConsistent
  <2>3. QED
    BY <2>1, <2>2 DEF ViewConsistent
<1>3. ASSUME NEW t \in Turns, StartReplied(t) PROVE ViewConsistent'
  <2>1. shown' = send[t].on /\ shownId' = home[t]
    BY <1>3 DEF StartReplied
  <2>2. QED
    BY <1>3, <2>1, StartRepliedWrites, ObjectNames DEF ViewConsistent
<1>4. ASSUME NEW t \in Turns, ShowAnswer(t) PROVE ViewConsistent'
  <2>1. shown' = Answered(t) /\ shownId' = home[t]
    BY <1>4 DEF ShowAnswer
  <2>2. QED
    BY <1>4, <2>1, ShowAnswerWrites, ObjectNames DEF ViewConsistent
<1>5. ASSUME NEW t \in Turns, AnswerWithoutConversation(t) \/ ShowError(t) \/ RequestFails(t)
      PROVE  ViewConsistent'
  <2>1. Abandons(t)
    BY <1>5, Abandoning
  <2>2. \A o \in Objects : objects'[o].id = objects[o].id
    BY <2>1, AbandonsWrites
  <2>3. CASE nulled' = TRUE
    BY <2>3 DEF ViewConsistent
  <2>4. CASE UNCHANGED <<shown, shownId, nulled>>
    BY <1>1, <2>2, <2>4
  <2>5. QED
    BY <2>1, <2>3, <2>4 DEF Abandons
<1>6. ASSUME NEW s \in Selections, ConversationServed(s) PROVE ViewConsistent'
  <2>1. UNCHANGED <<nulled, shown, shownId>> /\ select[s].pc = "asked"
    BY <1>6 DEF ConversationServed
  <2>2. shown # Fetched(s)
    BY <1>0, <2>1 DEF Wired, Taken
  <2>3. \A o \in Objects : o = shown => objects'[o] = objects[o]
    BY <1>6, <2>2, ConversationServedWrites
  <2>4. QED
    BY <1>1, <2>1, <2>3
<1>7. ASSUME NEW s \in Selections, SelectionReplied(s) PROVE ViewConsistent'
  <2>1. /\ shown' = Fetched(s) /\ shownId' = select[s].id /\ UNCHANGED objects
        /\ objects[Fetched(s)].id = select[s].id
    BY <1>0, <1>7 DEF SelectionReplied, Wired
  <2>2. QED
    BY <2>1, ObjectNames DEF ViewConsistent
<1>8. ASSUME NEW d, NewChat \/ DeletionReplied(d) PROVE ViewConsistent'
  BY <1>8 DEF NewChat, DeletionReplied, ViewConsistent
<1>9. ASSUME UNCHANGED <<objects, shown, shownId, nulled>> PROVE ViewConsistent'
  BY <1>1, <1>9
<1>10. ASSUME NEW t, NEW s, NEW d, NEW p,
              \/ TurnTaken(t) \/ TurnEnds(t) \/ PollReplied(t) \/ SelectConversation(s)
              \/ DeleteChat(d) \/ ConversationDeleted(d) \/ TimerFires \/ PreviewReplied(p)
              \/ GatewayLoses \/ ForeignDelete \/ UNCHANGED vars
       PROVE  UNCHANGED <<objects, shown, shownId, nulled>>
  BY <1>10 DEF TurnTaken, TurnEnds, PollReplied, SelectConversation, DeleteChat,
     ConversationDeleted, TimerFires, PreviewReplied, GatewayLoses, ForeignDelete, vars, clientVars
<1>11. QED
  BY <1>2, <1>3, <1>4, <1>5, <1>6, <1>7, <1>8, <1>9, <1>10 DEF Next, Sending

-----------------------------------------------------------------------------
(* The meter.                                                               *)

LEMMA CountedStays ==
    ASSUME shown' = shown,
           shown # NoObject => objects'[shown].bubbles = objects[shown].bubbles
    PROVE  Counted' = Counted
<1>1. CASE shown = NoObject
  BY <1>1 DEF Counted
<1>2. CASE shown # NoObject
  <2>1. objects'[shown'].bubbles = objects[shown].bubbles
    BY <1>2
  <2>2. QED
    BY <1>2, <2>1 DEF Counted
<1>3. QED
  BY <1>1, <1>2

\* A step that asks for a preview, or leaves a call on its way.
LEMMA MeterLater ==
    ASSUME ClientTypeOK, Metered,
           SchedulePreview \/ (UNCHANGED preview /\ \E t \in Turns : InFlight(t)')
    PROVE  Metered'
<1>1. CASE SchedulePreview
  BY <1>1, PreviewAsked DEF Metered
<1>2. CASE UNCHANGED preview /\ \E t \in Turns : InFlight(t)'
  BY <1>2 DEF Metered
<1>3. QED
  BY <1>1, <1>2

\* A step that leaves the meter, the calls and what is shown alone.
LEMMA MeterStays ==
    ASSUME ClientTypeOK, Metered, UNCHANGED <<preview, send, shown>>,
           shown # NoObject => objects'[shown].bubbles = objects[shown].bubbles
    PROVE  Metered'
<1>1. Counted' = Counted
  BY CountedStays
<1>2. \A t \in Turns : InFlight(t)' <=> InFlight(t)
  BY DEF InFlight
<1>3. QED
  BY <1>1, <1>2 DEF Metered

LEMMA MeteredNext ==
    ASSUME ClientInvariant, [Next]_vars
    PROVE  Metered'
<1>0. ClientTypeOK /\ Wired /\ Metered
  BY DEF ClientInvariant
<1>1. ASSUME SchedulePreview PROVE Metered'
  BY <1>0, <1>1, MeterLater
<1>2. ASSUME NEW t \in Turns, TurnTaken(t) \/ PollReplied(t) PROVE Metered'
  <2>1. UNCHANGED preview /\ \E pc \in {"started", "answered", "refused"} : Goes(t, pc)
    BY <1>2 DEF TurnTaken, PollReplied
  <2>2. InFlight(t)'
    BY <1>0, <2>1, CallMoves DEF InFlight
  <2>3. QED
    BY <1>0, <2>1, <2>2, MeterLater
<1>3. ASSUME NEW t \in Turns, StartReplied(t) PROVE Metered'
  <2>1. UNCHANGED preview /\ InFlight(t)'
    BY <1>3, StartRepliedSends DEF StartReplied, InFlight
  <2>2. QED
    BY <1>0, <2>1, MeterLater
<1>4. ASSUME NEW s \in Selections, ConversationServed(s) PROVE Metered'
  <2>1. UNCHANGED <<preview, send, shown>> /\ select[s].pc = "asked"
    BY <1>4 DEF ConversationServed
  <2>2. shown # Fetched(s)
    BY <1>0, <2>1 DEF Wired, Taken
  <2>3. shown # NoObject => objects'[shown] = objects[shown]
    BY <1>0, <1>4, <2>2, ConversationServedWrites DEF ClientTypeOK
  <2>4. QED
    BY <1>0, <2>1, <2>3, MeterStays
<1>5. CASE TimerFires
  <2>1. UNCHANGED <<shown, objects>>
    BY <1>5 DEF TimerFires
  <2>2. Counted' = Counted
    BY <2>1, CountedStays
  <2>3. preview.seq \in Nat /\ \A q \in preview.requests : q.seq \in Nat /\ q.seq <= preview.seq
    BY <1>0 DEF ClientTypeOK, Metered
  <2> DEFINE p == [seq |-> preview.seq + 1, counts |-> Counted]
  <2>4. p.seq = preview.seq + 1 /\ p.counts = Counted
    OBVIOUS
  <2>5. preview'.seq = preview.seq + 1 /\ preview'.requests = preview.requests \cup {p}
    BY <1>0, <1>5, TimerFiresWrites
  <2> HIDE DEF p
  <2>6. \A q \in preview'.requests : q.seq <= preview'.seq /\ (q.seq = preview'.seq => q = p)
    BY <2>3, <2>4, <2>5
  <2>7. p \in preview'.requests /\ p.seq = preview'.seq
    BY <2>4, <2>5
  <2>8. QED
    BY <2>2, <2>4, <2>6, <2>7 DEF Metered
<1>6. ASSUME NEW p \in preview.requests, PreviewReplied(p) PROVE Metered'
  <2>1. UNCHANGED <<shown, objects, send>>
    BY <1>6 DEF PreviewReplied
  <2>2. Counted' = Counted /\ \A t \in Turns : InFlight(t)' <=> InFlight(t)
    BY <2>1, CountedStays DEF InFlight
  <2>3. /\ preview'.timer = preview.timer /\ preview'.seq = preview.seq
        /\ preview'.requests = preview.requests \ {p}
        /\ p.seq # preview.seq => preview'.meter = preview.meter
        /\ p.seq = preview.seq => preview'.meter \in {{p.counts}, NoMeter}
    BY <1>0, <1>6, PreviewRepliedWrites
  <2>4. QED
    BY <1>0, <2>2, <2>3 DEF Metered
<1>7. ASSUME NEW t \in Turns, NEW s, NEW d,
             \/ SendMessage(t) \/ ShowAnswer(t) \/ AnswerWithoutConversation(t) \/ ShowError(t)
             \/ RequestFails(t) \/ SelectionReplied(s) \/ DeletionReplied(d)
      PROVE  SchedulePreview
  BY <1>7 DEF SendMessage, ShowAnswer, AnswerWithoutConversation, ShowError, RequestFails,
              GivesUp, SelectionReplied, DeletionReplied
<1>8. ASSUME NEW t, NEW s, NEW d,
             \/ TurnEnds(t) \/ SelectConversation(s) \/ DeleteChat(d) \/ ConversationDeleted(d)
             \/ GatewayLoses \/ ForeignDelete \/ UNCHANGED vars
      PROVE  Metered'
  <2>1. UNCHANGED <<preview, send, shown, objects>>
    BY <1>8 DEF TurnEnds, SelectConversation, DeleteChat, ConversationDeleted, GatewayLoses,
                ForeignDelete, vars, clientVars
  <2>2. QED
    BY <1>0, <2>1, MeterStays
<1>9. ASSUME NEW s, NEW d, SelectionReplied(s) \/ DeletionReplied(d) \/ NewChat
      PROVE  SchedulePreview
  BY <1>9 DEF SelectionReplied, DeletionReplied, NewChat
<1>10. QED
  BY <1>1, <1>2, <1>3, <1>4, <1>5, <1>6, <1>7, <1>8, <1>9 DEF Next, Sending

-----------------------------------------------------------------------------
(* The bubbles that wait.                                                   *)

\* A step that moves calls and screens, and writes no bubble.
LEMMA BubblingStays ==
    ASSUME ClientTypeOK, Bubbling,
           \A u \in Turns : /\ send'[u].on = send[u].on /\ send'[u].overlaps = send[u].overlaps
                            /\ InFlight(u)' <=> InFlight(u),
           \A o \in Objects : objects'[o].bubbles = objects[o].bubbles,
           \/ shown' \in {shown, NoObject}
           \/ \E u \in Turns : InFlight(u) /\ shown' = send[u].on,
           \A s \in Selections : select'[s].pc = "served" => select[s].pc = "served"
    PROVE  Bubbling'
<1>1. \A o \in Objects : Waits(o)' = Waits(o) /\ Flying(o)' = Flying(o)
  BY DEF Waits, Flying
<1>2. \A o \in Objects : shown' = o /\ Flying(o) = {} => shown = o
  BY ObjectNames DEF Flying
<1>3. QED
  BY <1>1, <1>2, ObjectNames DEF Bubbling

\* A step that writes the bubbles of one conversation.
LEMMA BubblingWrites ==
    ASSUME ClientTypeOK, Bubbling, NEW o \in Objects,
           \A u \in Turns : send[u].overlaps => send'[u].overlaps,
           \A q \in Objects \ {o} : /\ objects'[q].bubbles = objects[q].bubbles
                                    /\ Flying(q)' \subseteq Flying(q)
                                    /\ shown' = q => shown = q /\ Flying(q)' = Flying(q),
           (\A t \in Turns : ~send'[t].overlaps) =>
              /\ \A t, u \in Flying(o)' : t = u
              /\ Flying(o)' # {} => \A i, j \in Waits(o)' : i = j
              /\ shown' = o /\ Flying(o)' = {} => Waits(o)' = {},
           \A s \in Selections : select'[s].pc = "served" =>
              \/ Fetched(s) # o /\ select[s].pc = "served"
              \/ Fetched(s) = o /\ Waits(o)' = {}
    PROVE  Bubbling'
<1>1. \A q \in Objects \ {o} : Waits(q)' = Waits(q)
  BY DEF Waits
<1>2. SUFFICES ASSUME \A t \in Turns : ~send'[t].overlaps
               PROVE  /\ \A q \in Objects :
                            /\ \A t, u \in Flying(q)' : t = u
                            /\ Flying(q)' # {} => \A i, j \in Waits(q)' : i = j
                            /\ shown' = q /\ Flying(q)' = {} => Waits(q)' = {}
                      /\ \A s \in Selections : select'[s].pc = "served" => Waits(Fetched(s))' = {}
  BY DEF Bubbling
<1>3. \A t \in Turns : ~send[t].overlaps
  BY <1>2
<1>4. ASSUME NEW q \in Objects \ {o}
      PROVE  /\ \A t, u \in Flying(q)' : t = u
             /\ Flying(q)' # {} => \A i, j \in Waits(q)' : i = j
             /\ shown' = q /\ Flying(q)' = {} => Waits(q)' = {}
  BY <1>1, <1>3 DEF Bubbling
<1>5. ASSUME NEW s \in Selections, select'[s].pc = "served" PROVE Waits(Fetched(s))' = {}
  BY <1>1, <1>3, <1>5, ObjectNames DEF Bubbling
<1>6. QED
  BY <1>2, <1>4, <1>5

LEMMA BubblingNext ==
    ASSUME ClientInvariant, [Next]_vars
    PROVE  Bubbling'
<1>0. ClientTypeOK /\ Wired /\ Bubbling
  BY DEF ClientInvariant
<1>1. ASSUME NEW t \in Turns, SendMessage(t) PROVE Bubbling'
  <2> DEFINE old == IF shown = NoObject THEN <<>> ELSE objects[shown].bubbles
  <2>0. PICK o \in Objects : o = IF shown = NoObject THEN Optimistic(t) ELSE shown
    BY <1>0, ObjectNames DEF ClientTypeOK
  <2>1. /\ o \in Objects /\ shown' = o
        /\ objects'[o].bubbles = old \o <<Bubble(Prompt(t), FALSE), Bubble(Answer(t), TRUE)>>
        /\ \A q \in Objects \ {o} : objects'[q] = objects[q]
    BY <1>1, <2>0, SendMessageSends, SendMessageTypes
  <2>2. old \in Seq(Speech) /\ Len(old) \in Nat
    <3>1. old \in Seq(Speech)
      BY <1>0, EmptySeq DEF ClientTypeOK, Things
    <3>2. QED
      BY <3>1, LenProperties
  <2>3. shown = NoObject => \A u \in Turns : send[u].on # o
    BY <1>0, <2>0, <1>1, SendMessageSends, ObjectNames DEF Wired, Taken
  <2>4. (\A i \in DOMAIN old : ~old[i].pending) \/ shown # NoObject
    BY EmptySeq
  <2> HIDE DEF old
  <2>5. /\ DOMAIN objects'[o].bubbles = DOMAIN old \cup {Len(old) + 1, Len(old) + 2}
        /\ \A i \in DOMAIN old : objects'[o].bubbles[i] = old[i]
        /\ ~objects'[o].bubbles[Len(old) + 1].pending
    BY <2>1, <2>2, BubblesPushed
  <2>6. \A u \in Turns : send[u].overlaps => send'[u].overlaps
    BY <1>0, <1>1, SendMessageSends DEF Wired
  <2>7. ASSUME NEW q \in Objects \ {o}
        PROVE  /\ objects'[q].bubbles = objects[q].bubbles /\ Flying(q)' = Flying(q)
               /\ shown' # q
    <3>1. Flying(q)' = Flying(q)
      <4>1. ASSUME NEW u \in Turns PROVE u \in Flying(q)' <=> u \in Flying(q)
        BY <1>0, <1>1, <2>1, SendMessageSends, ObjectNames DEF Flying, InFlight, Wired
      <4>2. QED
        BY <4>1 DEF Flying
    <3>2. QED
      BY <2>1, <3>1
  <2>8. ASSUME \A u \in Turns : ~send'[u].overlaps
        PROVE  /\ \A u, v \in Flying(o)' : u = v
               /\ \A i, j \in Waits(o)' : i = j
               /\ t \in Flying(o)'
    <3>1. Flying(o) = {}
      BY <1>1, <2>1, <2>8, SendMessageSends DEF Flying
    <3>2. Flying(o)' = {t}
      <4>1. ASSUME NEW u \in Turns PROVE u \in Flying(o)' <=> u = t
        BY <1>1, <2>1, <3>1, SendMessageSends DEF Flying, InFlight
      <4>2. QED
        BY <4>1 DEF Flying
    <3>3. \A i \in DOMAIN old : ~old[i].pending
      <4>1. CASE shown = NoObject
        BY <2>4, <4>1
      <4>2. CASE shown # NoObject
        <5>1. Waits(o) = {}
          BY <1>0, <2>0, <2>6, <2>8, <3>1, <4>2 DEF Bubbling
        <5>2. QED
          BY <2>0, <4>2, <5>1 DEF Waits, old
      <4>3. QED
        BY <4>1, <4>2
    <3>4. \A i \in Waits(o)' : i = Len(old) + 2
      BY <2>5, <3>3 DEF Waits
    <3>5. QED
      BY <3>2, <3>4
  <2>9. ASSUME NEW s \in Selections, select'[s].pc = "served"
        PROVE  Fetched(s) # o /\ select[s].pc = "served"
    BY <1>0, <1>1, <2>0, <2>9, ObjectNames DEF SendMessage, Wired, Taken
  <2>10. QED
    BY <1>0, <2>1, <2>6, <2>7, <2>8, <2>9, BubblingWrites
<1>2. ASSUME NEW t \in Turns, TurnTaken(t) \/ PollReplied(t) PROVE Bubbling'
  <2>1. /\ UNCHANGED <<objects, shown, select>> /\ InFlight(t)
        /\ \E pc \in {"started", "answered", "refused"} : Goes(t, pc)
    BY <1>2 DEF TurnTaken, PollReplied, InFlight
  <2>2. \A u \in Turns : /\ send'[u].on = send[u].on /\ send'[u].overlaps = send[u].overlaps
                         /\ InFlight(u)' <=> InFlight(u)
    BY <1>0, <2>1, CallMoves DEF InFlight
  <2>3. QED
    BY <1>0, <2>1, <2>2, BubblingStays
<1>3. ASSUME NEW t \in Turns, StartReplied(t) PROVE Bubbling'
  <2>1. UNCHANGED select /\ shown' = send[t].on /\ InFlight(t)
    BY <1>3 DEF StartReplied, InFlight
  <2>2. \A u \in Turns : /\ send'[u].on = send[u].on /\ send'[u].overlaps = send[u].overlaps
                         /\ InFlight(u)' <=> InFlight(u)
    BY <1>3, StartRepliedSends DEF InFlight
  <2>3. \A o \in Objects : objects'[o].bubbles = objects[o].bubbles
    BY <1>3, StartRepliedWrites
  <2>4. QED
    BY <1>0, <2>1, <2>2, <2>3, BubblingStays
<1>4. ASSUME NEW t \in Turns, ShowAnswer(t) PROVE Bubbling'
  <2> DEFINE o == Answered(t)
  <2>1. /\ Goes(t, "ended") /\ send[t].pc = "answered" /\ UNCHANGED select
        /\ shown' = o /\ o \in Objects
    BY <1>4, ObjectNames DEF ShowAnswer
  <2>2. /\ \A i \in DOMAIN objects'[o].bubbles : ~objects'[o].bubbles[i].pending
        /\ \A q \in Objects \ {o} : objects'[q] = objects[q]
    BY <1>4, ShowAnswerWrites
  <2>3. /\ \A u \in Turns : send'[u].on = send[u].on /\ send'[u].overlaps = send[u].overlaps
        /\ \A u \in Turns : InFlight(u)' => InFlight(u)
    BY <1>0, <2>1, CallMoves DEF InFlight
  <2>4. Waits(o)' = {} /\ \A u \in Turns : send[u].on # o
    BY <1>0, <2>1, <2>2 DEF Waits, Wired, Taken
  <2>5. \A q \in Objects : Flying(q)' \subseteq Flying(q)
    BY <2>3 DEF Flying
  <2>6. Flying(o)' = {}
    BY <2>3, <2>4 DEF Flying
  <2>7. \A s \in Selections : Fetched(s) # o
    BY ObjectNames
  <2> HIDE DEF o
  <2>8. QED
    BY <1>0, <2>1, <2>2, <2>3, <2>4, <2>5, <2>6, <2>7, BubblingWrites
<1>5. ASSUME NEW t \in Turns, AnswerWithoutConversation(t) \/ ShowError(t) \/ RequestFails(t)
      PROVE  Bubbling'
  <2>0. Abandons(t)
    BY <1>5, Abandoning
  <2>a. PICK o \in Objects : o = send[t].on
    BY <2>0, AbandonsWrites
  <2> DEFINE b == objects[o].bubbles
  <2>1. Goes(t, "ended") /\ InFlight(t) /\ UNCHANGED select /\ shown' \in {shown, NoObject}
    BY <2>0 DEF Abandons, GivesUp
  <2>2. /\ o \in Objects /\ objects'[o].bubbles = WithoutFirstPending(b)
        /\ \A q \in Objects \ {o} : objects'[q] = objects[q]
    BY <2>0, <2>a, AbandonsWrites
  <2>3. /\ \A u \in Turns : send'[u].on = send[u].on /\ send'[u].overlaps = send[u].overlaps
        /\ \A u \in Turns \ {t} : InFlight(u)' <=> InFlight(u)
        /\ ~InFlight(t)'
    BY <1>0, <2>1, CallMoves DEF InFlight
  <2>4. ASSUME NEW q \in Objects
        PROVE  Flying(q)' = Flying(q) \ {t} /\ (q # o => Flying(q)' = Flying(q))
    BY <2>3, <2>a DEF Flying
  <2>5. t \in Flying(o)
    BY <2>1, <2>a DEF Flying
  <2>6. ASSUME \A u \in Turns : ~send'[u].overlaps
        PROVE  Flying(o)' = {} /\ Waits(o)' = {}
    <3>1. (\A u, v \in Flying(o) : u = v) /\ (\A i, j \in Waits(o) : i = j)
      BY <1>0, <2>2, <2>3, <2>5, <2>6 DEF Bubbling
    <3>2. b \in Seq(Speech)
      BY <1>0, <2>2 DEF ClientTypeOK, Things
    <3>3. \A i, j \in DOMAIN b : b[i].pending /\ b[j].pending => i = j
      BY <3>1 DEF Waits
    <3>4. \A i \in DOMAIN WithoutFirstPending(b) : ~WithoutFirstPending(b)[i].pending
      <4> HIDE DEF b
      <4>1. QED
        BY <3>2, <3>3, FirstPendingGone
    <3>5. Waits(o)' = {}
      <4>1. \A i \in DOMAIN objects'[o].bubbles : ~objects'[o].bubbles[i].pending
        BY <2>2, <3>4
      <4>2. QED
        BY <4>1 DEF Waits
    <3>6. QED
      BY <2>2, <2>4, <2>5, <3>1, <3>5
  <2>7. \A s \in Selections : select[s].pc = "served" => Fetched(s) # o
    BY <1>0, <2>a DEF Wired, Taken
  <2>8. \A q \in Objects \ {o} : shown' = q => shown = q
    BY <2>1, ObjectNames
  <2>9. QED
    BY <1>0, <2>1, <2>2, <2>3, <2>4, <2>6, <2>7, <2>8, BubblingWrites
<1>6. ASSUME NEW s \in Selections, ConversationServed(s) PROVE Bubbling'
  <2> DEFINE o == Fetched(s)
  <2>1. UNCHANGED <<send, shown>> /\ select[s].pc = "asked" /\ o \in Objects
    BY <1>6, ObjectNames DEF ConversationServed
  <2>2. ~Taken(o) /\ \A u \in Turns : InFlight(u)' <=> InFlight(u)
    BY <1>0, <2>1 DEF Wired, InFlight
  <2>3. \A q \in Objects : Flying(q)' = Flying(q)
    BY <2>1, <2>2 DEF Flying
  <2>4. CASE UNCHANGED objects /\ select' = [select EXCEPT ![s].pc = "done"]
    <3>1. \A r \in Selections : select'[r].pc = "served" => select[r].pc = "served"
      BY <1>0, <2>4 DEF ClientTypeOK
    <3>2. QED
      BY <1>0, <2>1, <2>2, <2>4, <3>1, BubblingStays
  <2>5. CASE /\ \A i \in DOMAIN objects'[o].bubbles : ~objects'[o].bubbles[i].pending
             /\ \A q \in Objects \ {o} : objects'[q] = objects[q]
             /\ select' = [select EXCEPT ![s].pc = "served"]
    <3>1. Waits(o)' = {}
      BY <2>5 DEF Waits
    <3>2. \A r \in Selections :
             select'[r].pc = "served" => r = s \/ (Fetched(r) # o /\ select[r].pc = "served")
      BY <1>0, <2>5, ObjectNames DEF ClientTypeOK
    <3>3. Flying(o)' = {}
      BY <2>2, <2>3, <2>1 DEF Flying, Taken
    <3>4. \A r \in Selections : r = s => Fetched(r) = o
      OBVIOUS
    <3> HIDE DEF o
    <3>5. QED
      BY <1>0, <2>1, <2>3, <2>5, <3>1, <3>2, <3>3, <3>4, BubblingWrites
  <2>6. QED
    BY <1>6, <2>4, <2>5, ConversationServedWrites
<1>7. ASSUME NEW s \in Selections, SelectionReplied(s) PROVE Bubbling'
  <2> DEFINE o == Fetched(s)
  <2>1. /\ UNCHANGED <<send, objects>> /\ select[s].pc = "served" /\ o \in Objects /\ shown' = o
        /\ \A r \in Selections : select'[r].pc = "served" => r # s /\ select[r].pc = "served"
    BY <1>0, <1>7, ObjectNames DEF SelectionReplied, ClientTypeOK
  <2>2. \A u \in Turns : InFlight(u)' <=> InFlight(u)
    BY <2>1 DEF InFlight
  <2>3. \A q \in Objects : Flying(q)' = Flying(q) /\ Waits(q)' = Waits(q)
    BY <2>1, <2>2 DEF Flying, Waits
  <2>4. (\A t \in Turns : ~send[t].overlaps) => Waits(o) = {}
    BY <1>0, <2>1 DEF Bubbling
  <2> HIDE DEF o
  <2>5. \A r \in Selections : Fetched(r) \in Objects
    BY ObjectNames
  <2>6. QED
    BY <1>0, <2>1, <2>3, <2>4, <2>5 DEF Bubbling
<1>8. ASSUME NEW t, NEW d, NEW p,
             \/ TurnEnds(t) \/ DeleteChat(d) \/ ConversationDeleted(d) \/ DeletionReplied(d)
             \/ NewChat \/ TimerFires \/ PreviewReplied(p) \/ GatewayLoses \/ ForeignDelete
             \/ UNCHANGED vars
      PROVE  Bubbling'
  <2>1. UNCHANGED <<send, objects, select>> /\ shown' \in {shown, NoObject}
    BY <1>8 DEF TurnEnds, DeleteChat, ConversationDeleted, DeletionReplied, NewChat, TimerFires,
       PreviewReplied, GatewayLoses, ForeignDelete, vars, clientVars
  <2>2. \A u \in Turns : InFlight(u)' <=> InFlight(u)
    BY <2>1 DEF InFlight
  <2>3. QED
    BY <1>0, <2>1, <2>2, BubblingStays
<1>9. ASSUME NEW s \in Selections, SelectConversation(s) PROVE Bubbling'
  <2>1. /\ UNCHANGED <<send, objects, shown>>
        /\ \A r \in Selections : select'[r].pc = "served" => select[r].pc = "served"
    BY <1>0, <1>9 DEF SelectConversation, ClientTypeOK
  <2>2. \A u \in Turns : InFlight(u)' <=> InFlight(u)
    BY <2>1 DEF InFlight
  <2>3. QED
    BY <1>0, <2>1, <2>2, BubblingStays
<1>10. QED
  BY <1>1, <1>2, <1>3, <1>4, <1>5, <1>6, <1>7, <1>8, <1>9 DEF Next, Sending

-----------------------------------------------------------------------------
(* One chat is one conversation.                                            *)

\* What the gateway keeps while it takes and ends turns.
LEMMA TakenExists ==
    ASSUME ClientInvariant, NEW t \in Turns, TurnTaken(t)
    PROVE  /\ send[t].pc = "starting" /\ Goes(t, "started") /\ ~send[t].learned
           /\ UNCHANGED <<objects, response, nulled>>
           /\ outcome[t] = "unsent" /\ outcome'[t] = "pending"
           /\ \A u \in Turns \ {t} : outcome'[u] = outcome[u] /\ home'[u] = home[u]
           /\ Existing(stored) \subseteq Existing(stored)'
           /\ home'[t] \in Existing(stored)'
           /\ send[t].asks \in Existing(stored) => home'[t] = send[t].asks
<1> DEFINE asks == send[t].asks
<1>0. /\ ClientTypeOK /\ Wired /\ stored \in Contents
      /\ outcome \in [Turns -> Outcomes] /\ home \in [Turns -> Ids]
  BY DEF ClientInvariant, StoreInvariant, StoreTypeOK
<1>1. /\ send[t].pc = "starting" /\ Goes(t, "started") /\ Ask(t, asks)
      /\ UNCHANGED <<objects, response, nulled>>
  BY DEF TurnTaken
<1>2. ~send[t].learned
  BY <1>0, <1>1 DEF Wired
<1>3. /\ outcome[t] = "unsent" /\ outcome'[t] = "pending"
      /\ \A u \in Turns \ {t} : outcome'[u] = outcome[u] /\ home'[u] = home[u]
      /\ home'[t] = Ensured(stored, asks, t)
  BY <1>0, <1>1 DEF Ask
<1>4. PICK c \in Ids : c = home'[t]
  BY <1>3, PromptsAndAnswers DEF Ensured, Existing
<1>5. stored' = [stored EXCEPT ![c] =
                    [exists |-> TRUE, messages |-> Append(@.messages, Prompt(t))]]
  BY <1>1, <1>4 DEF Ask, WithMessage
<1>6. stored'[c].exists /\ \A d \in Ids \ {c} : stored'[d] = stored[d]
  BY <1>0, <1>5 DEF Contents
<1>7. Existing(stored) \subseteq Existing(stored)' /\ home'[t] \in Existing(stored)'
  BY <1>4, <1>6 DEF Existing
<1>8. QED
  BY <1>1, <1>2, <1>3, <1>7 DEF Ensured

LEMMA EndedExists ==
    ASSUME ClientInvariant, NEW t \in Turns, TurnEnds(t)
    PROVE  /\ UNCHANGED <<objects, send, nulled, home>>
           /\ outcome[t] = "pending" /\ outcome'[t] # "unsent"
           /\ \A u \in Turns \ {t} : outcome'[u] = outcome[u] /\ response'[u] = response[u]
           /\ Existing(stored) \subseteq Existing(stored)'
           /\ outcome'[t] = "answered" => response'[t] = stored'[home[t]]
<1>0. /\ stored \in Contents /\ outcome \in [Turns -> Outcomes]
      /\ response \in [Turns -> Conversation] /\ home[t] \in Ids
  BY DEF ClientInvariant, ClientTypeOK, StoreInvariant, StoreTypeOK
<1>1. Existing(stored) \subseteq Existing(stored)'
  <2>1. CASE stored' = stored
    BY <2>1
  <2>2. CASE stored' = WithMessage(stored, home[t], Answer(t))
    <3>1. /\ stored'[home[t]].exists
          /\ \A d \in Ids \ {home[t]} : stored'[d] = stored[d]
      BY <1>0, <2>2 DEF WithMessage, Contents
    <3>2. QED
      BY <3>1 DEF Existing
  <2>3. QED
    BY <2>1, <2>2 DEF TurnEnds, Reply, Refuse
<1>2. CASE Reply(t) /\ response' = [response EXCEPT ![t] = stored'[home[t]]]
  BY <1>0, <1>1, <1>2 DEF TurnEnds, Reply
<1>3. CASE Refuse(t) /\ UNCHANGED response
  BY <1>0, <1>1, <1>3 DEF TurnEnds, Refuse
<1>4. QED
  BY <1>2, <1>3 DEF TurnEnds

\* A step that leaves turns and conversations as they are, and names no
\* object that a call works on.
LEMMA ChatsStay ==
    ASSUME ClientTypeOK, ChatsHold, UNCHANGED <<stored, outcome, home, response, nulled>>,
           \A u \in Turns : /\ send'[u].on = send[u].on /\ send'[u].asks = send[u].asks
                            /\ send'[u].learned = send[u].learned
                            /\ send'[u].blind = send[u].blind
                            /\ send'[u].pc = "answered" => outcome[u] = "answered",
           \A o \in Objects :
              \/ objects'[o].id = objects[o].id
              \/ objects'[o].id \in Existing(stored) /\ \A u \in Turns : send[u].on # o
    PROVE  ChatsHold'
<1>1. Existing(stored)' = Existing(stored)
  OBVIOUS
<1>2. ASSUME NEW o \in Objects PROVE Seeing(o)' => OneChat(o)'
  <2>1. CASE \A u \in Turns : send[u].on # o
    BY <2>1 DEF OneChat
  <2>2. CASE objects'[o].id = objects[o].id
    <3>1. Seeing(o)' = Seeing(o)
      BY DEF Seeing
    <3>2. Seeing(o) => OneChat(o)
      BY DEF ChatsHold
    <3>3. OneChat(o) => OneChat(o)'
      BY <2>2 DEF OneChat
    <3>4. QED
      BY <3>1, <3>2, <3>3
  <2>3. QED
    BY <2>1, <2>2
<1>3. ASSUME NEW o \in Objects PROVE objects'[o].id \in Turns => objects'[o].id \in Existing(stored)'
  BY <1>1 DEF ChatsHold
<1>4. QED
  BY <1>1, <1>2, <1>3 DEF ChatsHold

LEMMA ChatsSendMessage ==
    ASSUME ClientInvariant, ChatsHold, NEW t \in Turns, SendMessage(t)
    PROVE  ChatsHold'
<1>0. ClientTypeOK /\ Wired /\ ViewConsistent
  BY DEF ClientInvariant
<1>1. UNCHANGED <<stored, outcome, home, response, nulled>> /\ outcome[t] = "unsent"
  BY <1>0, SendMessageSends DEF SendMessage, storeVars, Wired
<1>2. Existing(stored)' = Existing(stored)
  BY <1>1
<1>3. PICK o \in Objects : o = shown'
  BY SendMessageTypes
<1>4. /\ \A q \in Objects \ {o} : objects'[q] = objects[q]
      /\ objects'[o].id = IF shown = NoObject THEN LocalId(t) ELSE objects[o].id
  BY <1>3, SendMessageTypes, SendMessageSends
<1>5. LocalId(t) \notin Turns /\ \A c \in Turns : ~IsLocal(c)
  BY LocalIdsAssumption DEF IsLocal, Ids
<1>6. \A q \in Objects : objects'[q].id \in Turns => objects'[q].id \in Existing(stored)'
  BY <1>2, <1>4, <1>5 DEF ChatsHold
<1>7. ASSUME NEW u \in Turns
      PROVE  /\ outcome'[u] # "unsent" => home'[u] \in Existing(stored)'
             /\ outcome'[u] = "answered" => response'[u].exists
             /\ send'[u].pc = "answered" => outcome'[u] = "answered"
  BY <1>1, <1>2, SendMessageSends DEF ChatsHold
<1>8. send[t].on = NoObject /\ o # NoObject
  BY <1>0, <1>3, SendMessageSends, ObjectNames DEF Wired
<1>9. ASSUME NEW q \in Objects \ {o}, Seeing(q)' PROVE OneChat(q)'
  <2>1. send'[t].on # q /\ send[t].on # q
    BY <1>3, <1>8, <1>9, SendMessageSends, ObjectNames
  <2>2. \A u \in Turns : send'[u].on = q => send'[u] = send[u] /\ u # t
    BY <2>1, SendMessageSends
  <2>3. \A u \in Turns : send[u].on = q => send'[u] = send[u] /\ u # t
    BY <2>1, SendMessageSends
  <2>4. Seeing(q)
    BY <1>9, <2>3 DEF Seeing
  <2>5. OneChat(q)
    BY <2>4 DEF ChatsHold
  <2>6. QED
    BY <1>1, <1>4, <2>2, <2>3, <2>5 DEF OneChat
<1>10. ASSUME Seeing(o)' PROVE OneChat(o)'
  <2>1. /\ send'[t].on = o /\ ~send'[t].learned /\ outcome'[t] = "unsent"
        /\ \A u \in Turns \ {t} : send'[u] = send[u]
    BY <1>1, <1>3, SendMessageSends
  <2>2. \A u \in Turns : send[u].on = o => send[u].learned /\ u # t
    BY <1>3, <1>8, <1>10, <2>1, SendMessageSends DEF Seeing
  <2>3. OneChat(o)
    <3>1. Seeing(o)
      BY <1>10, <2>1, <2>2 DEF Seeing
    <3>2. QED
      BY <3>1 DEF ChatsHold
  <2>4. CASE shown = NoObject
    <3>1. \A u \in Turns : send[u].on # o
      BY <1>0, <1>3, <2>4, SendMessageSends, ObjectNames DEF Wired, Taken
    <3>2. send'[t].asks = NoId
      BY <2>4, SendMessageSends
    <3>3. \A u \in Turns : send'[u].on = o => u = t
      BY <2>1, <3>1
    <3>4. QED
      BY <2>1, <3>2, <3>3 DEF OneChat
  <2>5. CASE shown # NoObject
    <3>1. o = shown /\ objects'[o].id = objects[o].id /\ shownId = objects[o].id
      BY <1>0, <1>3, <1>4, <2>5, SendMessageSends DEF ViewConsistent, ChatsHold
    <3>2. send'[t].asks = IF IsLocal(objects[o].id) THEN NoId ELSE objects[o].id
      BY <2>5, <3>1, SendMessageSends
    <3>3. CASE objects[o].id \in Turns
      <4>1. send'[t].asks = objects[o].id
        BY <1>5, <3>2, <3>3
      <4>2. ASSUME NEW u \in Turns, u # t, send'[u].on = o
            PROVE  /\ outcome'[u] # "unsent" => home'[u] = objects'[o].id
                   /\ send'[u].learned
        BY <1>1, <2>1, <2>2, <2>3, <3>1, <4>2 DEF OneChat
      <4>3. QED
        BY <2>1, <3>1, <3>3, <4>1, <4>2 DEF OneChat
    <3>4. CASE objects[o].id \notin Turns
      <4>1. \A u \in Turns : send[u].on # o
        BY <2>2, <2>3, <3>4 DEF OneChat
      <4>2. objects[o].id \in KnownIds
        BY <1>0 DEF ClientTypeOK, Things
      <4>3. send'[t].asks = NoId
        BY <3>2, <3>4, <4>2 DEF KnownIds, IsLocal
      <4>4. \A u \in Turns : send'[u].on = o => u = t
        BY <2>1, <4>1
      <4>5. QED
        BY <2>1, <4>3, <4>4 DEF OneChat
    <3>5. QED
      BY <3>3, <3>4
  <2>6. QED
    BY <2>4, <2>5
<1>11. QED
  BY <1>1, <1>6, <1>7, <1>9, <1>10 DEF ChatsHold

LEMMA ChatsTurnTaken ==
    ASSUME ClientInvariant, ChatsHold, NEW t \in Turns, TurnTaken(t)
    PROVE  ChatsHold'
<1>0. ClientTypeOK
  BY DEF ClientInvariant
<1>1. /\ send[t].pc = "starting" /\ ~send[t].learned
      /\ UNCHANGED <<objects, response, nulled>>
      /\ outcome[t] = "unsent" /\ outcome'[t] = "pending"
      /\ \A u \in Turns \ {t} : outcome'[u] = outcome[u] /\ home'[u] = home[u]
      /\ Existing(stored) \subseteq Existing(stored)'
      /\ home'[t] \in Existing(stored)'
      /\ send[t].asks \in Existing(stored) => home'[t] = send[t].asks
  BY TakenExists
<1>2. /\ \A u \in Turns \ {t} : send'[u] = send[u]
      /\ send'[t].pc = "started"
      /\ \A u \in Turns : /\ send'[u].on = send[u].on /\ send'[u].asks = send[u].asks
                          /\ send'[u].learned = send[u].learned
                          /\ send'[u].blind = send[u].blind
  BY <1>0, TakenExists, CallMoves
<1>3. ASSUME NEW u \in Turns
      PROVE  /\ outcome'[u] # "unsent" => home'[u] \in Existing(stored)'
             /\ outcome'[u] = "answered" => response'[u].exists
             /\ send'[u].pc = "answered" => outcome'[u] = "answered"
  <2>1. CASE u = t
    BY <1>1, <1>2, <2>1
  <2>2. CASE u # t
    BY <1>1, <1>2, <2>2 DEF ChatsHold
  <2>3. QED
    BY <2>1, <2>2
<1>4. ASSUME NEW o \in Objects, Seeing(o)' PROVE OneChat(o)'
  <2>1. Seeing(o)
    BY <1>2, <1>4 DEF Seeing
  <2>2. OneChat(o) /\ (objects[o].id \in Turns => objects[o].id \in Existing(stored))
    BY <2>1 DEF ChatsHold
  <2>3. ASSUME NEW u \in Turns, send[u].on = o,
               objects[o].id \in Turns, outcome[u] # "unsent" => home[u] = objects[o].id,
               ~send[u].learned => send[u].asks = objects[o].id
        PROVE  outcome'[u] # "unsent" => home'[u] = objects[o].id
    BY <1>1, <2>2, <2>3
  <2>4. QED
    BY <1>1, <1>2, <2>2, <2>3 DEF OneChat
<1>5. \A o \in Objects : objects'[o].id \in Turns => objects'[o].id \in Existing(stored)'
  BY <1>1 DEF ChatsHold
<1>6. QED
  BY <1>1, <1>3, <1>4, <1>5 DEF ChatsHold

LEMMA ChatsStartReplied ==
    ASSUME ClientInvariant, ChatsHold, NEW t \in Turns, StartReplied(t)
    PROVE  ChatsHold'
<1>0. ClientTypeOK /\ Wired
  BY DEF ClientInvariant
<1>1. UNCHANGED <<stored, outcome, home, response, nulled>>
  BY DEF StartReplied, storeVars
<1>2. Existing(stored)' = Existing(stored)
  BY <1>1
<1>3. PICK o \in Objects : o = send[t].on
  BY StartRepliedWrites
<1>4. /\ \A q \in Objects \ {o} : objects'[q] = objects[q]
      /\ objects'[o].id = home[t]
  BY <1>3, StartRepliedWrites
<1>5. /\ send[t].pc = "started" /\ send'[t].pc = "waiting" /\ send'[t].learned
      /\ \A u \in Turns \ {t} : send'[u] = send[u]
      /\ \A u \in Turns : /\ send'[u].on = send[u].on /\ send'[u].asks = send[u].asks
                          /\ send'[u].blind = send[u].blind
  BY StartRepliedSends
<1>6. outcome[t] # "unsent" /\ home[t] \in Existing(stored) /\ home[t] \in Turns
  BY <1>0, <1>5 DEF Wired, ChatsHold, ClientTypeOK
<1>7. \A q \in Objects : objects'[q].id \in Turns => objects'[q].id \in Existing(stored)'
  BY <1>2, <1>4, <1>6 DEF ChatsHold
<1>8. ASSUME NEW u \in Turns
      PROVE  /\ outcome'[u] # "unsent" => home'[u] \in Existing(stored)'
             /\ outcome'[u] = "answered" => response'[u].exists
             /\ send'[u].pc = "answered" => outcome'[u] = "answered"
  BY <1>1, <1>2, <1>5 DEF ChatsHold
<1>9. ASSUME NEW q \in Objects, Seeing(q)' PROVE OneChat(q)'
  <2>1. Seeing(q)
    BY <1>5, <1>9 DEF Seeing
  <2>2. OneChat(q)
    BY <2>1 DEF ChatsHold
  <2>3. CASE q # o
    <3>1. \A u \in Turns : send'[u].on = q => send'[u] = send[u]
      BY <1>3, <1>5, <2>3
    <3>2. QED
      BY <1>1, <1>4, <1>5, <2>2, <2>3, <3>1 DEF OneChat
  <2>4. CASE q = o
    <3>1. objects[o].id \in Turns => objects'[o].id = objects[o].id \/ \A u \in Turns : send[u].on = o => u = t
      BY <1>3, <1>4, <1>6, <2>2, <2>4 DEF OneChat
    <3>2. ASSUME NEW u \in Turns, send'[u].on = o
          PROVE  /\ outcome'[u] # "unsent" => home'[u] = objects'[o].id
                 /\ ~send'[u].learned => send'[u].asks = objects'[o].id
      <4>1. CASE u = t
        BY <1>1, <1>4, <1>5, <4>1
      <4>2. CASE u # t
        BY <1>1, <1>3, <1>4, <1>5, <1>6, <2>2, <2>4, <3>2, <4>2 DEF OneChat
      <4>3. QED
        BY <4>1, <4>2
    <3>3. QED
      BY <1>4, <1>6, <2>4, <3>2 DEF OneChat
  <2>5. QED
    BY <2>3, <2>4
<1>10. QED
  BY <1>1, <1>7, <1>8, <1>9 DEF ChatsHold

LEMMA ChatsTurnEnds ==
    ASSUME ClientInvariant, ChatsHold, NEW t \in Turns, TurnEnds(t)
    PROVE  ChatsHold'
<1>1. /\ UNCHANGED <<objects, send, nulled, home>>
      /\ outcome[t] = "pending" /\ outcome'[t] # "unsent"
      /\ \A u \in Turns \ {t} : outcome'[u] = outcome[u] /\ response'[u] = response[u]
      /\ Existing(stored) \subseteq Existing(stored)'
      /\ outcome'[t] = "answered" => response'[t] = stored'[home[t]]
  BY EndedExists
<1>2. home[t] \in Existing(stored)'
  BY <1>1 DEF ChatsHold
<1>3. ASSUME NEW u \in Turns
      PROVE  /\ outcome'[u] # "unsent" => home'[u] \in Existing(stored)'
             /\ outcome'[u] = "answered" => response'[u].exists
             /\ send'[u].pc = "answered" => outcome'[u] = "answered"
  <2>1. CASE u = t
    BY <1>1, <1>2, <2>1 DEF ChatsHold, Existing
  <2>2. CASE u # t
    BY <1>1, <2>2 DEF ChatsHold
  <2>3. QED
    BY <2>1, <2>2
<1>4. ASSUME NEW o \in Objects, Seeing(o)' PROVE OneChat(o)'
  <2>1. Seeing(o)
    BY <1>1, <1>4 DEF Seeing
  <2>2. OneChat(o)
    BY <2>1 DEF ChatsHold
  <2>3. \A u \in Turns : outcome'[u] # "unsent" <=> outcome[u] # "unsent"
    BY <1>1
  <2>4. QED
    BY <1>1, <2>2, <2>3 DEF OneChat
<1>5. \A o \in Objects : objects'[o].id \in Turns => objects'[o].id \in Existing(stored)'
  BY <1>1 DEF ChatsHold
<1>6. QED
  BY <1>1, <1>3, <1>4, <1>5 DEF ChatsHold

LEMMA ChatsNext ==
    ASSUME ClientInvariant, [Next]_vars
    PROVE  Chats'
<1>0. ClientTypeOK /\ Wired /\ Chats
  BY DEF ClientInvariant
<1>a. SUFFICES ASSUME Calm' PROVE ChatsHold'
  BY DEF Chats
<1>b. /\ \A d \in Deletions : ~DeleteChat(d) /\ ~ConversationDeleted(d) /\ ~DeletionReplied(d)
      /\ ~GatewayLoses /\ ~ForeignDelete
  <2>1. ASSUME NEW d \in Deletions PROVE ~DeleteChat(d) /\ ~ConversationDeleted(d) /\ ~DeletionReplied(d)
    <3>1. delete'[d].pc = "idle"
      BY <1>a DEF Calm
    <3>2. QED
      BY <1>0, <3>1 DEF DeleteChat, ConversationDeleted, DeletionReplied, ClientTypeOK
  <2>2. ASSUME GatewayLoses \/ ForeignDelete PROVE FALSE
    <3>1. spent'.losses + spent'.foreign = spent.losses + spent.foreign + 1
      BY <1>0, <2>2 DEF GatewayLoses, ForeignDelete, ClientTypeOK
    <3>2. spent.losses + spent.foreign \in Nat
      BY <1>0 DEF ClientTypeOK
    <3>3. QED
      BY <1>a, <3>1, <3>2 DEF Calm
  <2>3. QED
    BY <2>1, <2>2
<1>c. Calm
  <2>1. ASSUME NEW t \in Turns, AnswerWithoutConversation(t) \/ ShowError(t) \/ RequestFails(t)
        PROVE  UNCHANGED delete /\ spent'.losses = spent.losses /\ spent'.foreign = spent.foreign
    BY <2>1, Abandoning DEF Abandons, GivesUp
  <2>2. ASSUME NEW t, NEW s, NEW p,
               \/ SendMessage(t) \/ TurnTaken(t) \/ StartReplied(t) \/ TurnEnds(t) \/ PollReplied(t)
               \/ ShowAnswer(t) \/ SelectConversation(s) \/ ConversationServed(s)
               \/ SelectionReplied(s) \/ NewChat \/ TimerFires \/ PreviewReplied(p)
               \/ UNCHANGED vars
        PROVE  UNCHANGED <<delete, spent>>
    BY <2>2 DEF SendMessage, TurnTaken, StartReplied, TurnEnds, PollReplied, ShowAnswer,
       SelectConversation, ConversationServed, SelectionReplied, NewChat, TimerFires,
       PreviewReplied, vars, clientVars
  <2>3. UNCHANGED delete /\ spent'.losses = spent.losses /\ spent'.foreign = spent.foreign
    BY <1>b, <2>1, <2>2 DEF Next, Sending
  <2>4. QED
    BY <1>a, <2>3 DEF Calm
<1>d. ChatsHold
  BY <1>0, <1>c DEF Chats
<1>1. ASSUME NEW t \in Turns, SendMessage(t) PROVE ChatsHold'
  BY <1>1, <1>d, ChatsSendMessage
<1>2. ASSUME NEW t \in Turns, TurnTaken(t) PROVE ChatsHold'
  BY <1>2, <1>d, ChatsTurnTaken
<1>3. ASSUME NEW t \in Turns, StartReplied(t) PROVE ChatsHold'
  BY <1>3, <1>d, ChatsStartReplied
<1>4. ASSUME NEW t \in Turns, TurnEnds(t) PROVE ChatsHold'
  BY <1>4, <1>d, ChatsTurnEnds
<1>5. ASSUME NEW t \in Turns, PollReplied(t) PROVE ChatsHold'
  <2>1. UNCHANGED <<stored, outcome, home, response, nulled, objects>>
    BY <1>5 DEF PollReplied, storeVars
  <2>2. Goes(t, "refused") \/ (Goes(t, "answered") /\ outcome[t] = "answered")
    BY <1>5 DEF PollReplied
  <2>3. \A u \in Turns : /\ send'[u].on = send[u].on /\ send'[u].asks = send[u].asks
                         /\ send'[u].learned = send[u].learned /\ send'[u].blind = send[u].blind
                         /\ send'[u].pc = "answered" => outcome[u] = "answered"
    BY <1>0, <1>d, <2>2, CallMoves DEF ChatsHold
  <2>4. QED
    BY <1>0, <1>d, <2>1, <2>3, ChatsStay
<1>6. ASSUME NEW t \in Turns, ShowAnswer(t) PROVE ChatsHold'
  <2>1. /\ UNCHANGED <<stored, outcome, home, response, nulled>>
        /\ Goes(t, "ended") /\ send[t].pc = "answered"
    BY <1>6 DEF ShowAnswer, storeVars
  <2>2. \A u \in Turns : /\ send'[u].on = send[u].on /\ send'[u].asks = send[u].asks
                         /\ send'[u].learned = send[u].learned /\ send'[u].blind = send[u].blind
                         /\ send'[u].pc = "answered" => outcome[u] = "answered"
    BY <1>0, <1>d, <2>1, CallMoves DEF ChatsHold
  <2>3. home[t] \in Existing(stored) /\ \A u \in Turns : send[u].on # Answered(t)
    BY <1>0, <1>d, <2>1 DEF Wired, Taken, ChatsHold
  <2>4. /\ objects'[Answered(t)].id = home[t]
        /\ \A o \in Objects \ {Answered(t)} : objects'[o] = objects[o]
    BY <1>6, ShowAnswerWrites
  <2>5. \A o \in Objects :
           \/ objects'[o].id = objects[o].id
           \/ objects'[o].id \in Existing(stored) /\ \A u \in Turns : send[u].on # o
    BY <2>3, <2>4
  <2>6. QED
    BY <1>0, <1>d, <2>1, <2>2, <2>5, ChatsStay
<1>7. ASSUME NEW t \in Turns, AnswerWithoutConversation(t) \/ ShowError(t) \/ RequestFails(t)
      PROVE  ChatsHold'
  <2>0. Abandons(t)
    BY <1>7, Abandoning
  <2>1. Goes(t, "ended") /\ UNCHANGED <<stored, outcome, home, response>>
    BY <2>0 DEF Abandons, GivesUp, storeVars
  <2>2. UNCHANGED nulled
    BY <1>7, <1>d DEF AnswerWithoutConversation, ShowError, RequestFails, ChatsHold
  <2>3. \A u \in Turns : /\ send'[u].on = send[u].on /\ send'[u].asks = send[u].asks
                         /\ send'[u].learned = send[u].learned /\ send'[u].blind = send[u].blind
                         /\ send'[u].pc = "answered" => outcome[u] = "answered"
    BY <1>0, <1>d, <2>1, CallMoves DEF ChatsHold
  <2>4. \A o \in Objects : objects'[o].id = objects[o].id
    BY <2>0, AbandonsWrites
  <2>5. QED
    BY <1>0, <1>d, <2>1, <2>2, <2>3, <2>4, ChatsStay
<1>8. ASSUME NEW s \in Selections, ConversationServed(s) PROVE ChatsHold'
  <2>1. /\ UNCHANGED <<stored, outcome, home, response, nulled, send>>
        /\ select[s].pc = "asked"
    BY <1>8 DEF ConversationServed, storeVars
  <2>2. \A u \in Turns : send[u].on # Fetched(s)
    BY <1>0, <2>1 DEF Wired, Taken
  <2>3. \A o \in Objects :
           \/ objects'[o].id = objects[o].id
           \/ objects'[o].id \in Existing(stored) /\ \A u \in Turns : send[u].on # o
    BY <1>8, <2>2, ConversationServedWrites
  <2>4. \A u \in Turns : send'[u].pc = "answered" => outcome[u] = "answered"
    BY <1>d, <2>1 DEF ChatsHold
  <2>5. QED
    BY <1>0, <1>d, <2>1, <2>3, <2>4, ChatsStay
<1>9. ASSUME NEW s, NEW p,
             \/ SelectConversation(s) \/ SelectionReplied(s) \/ NewChat \/ TimerFires
             \/ PreviewReplied(p) \/ UNCHANGED vars
      PROVE  ChatsHold'
  <2>1. UNCHANGED <<stored, outcome, home, response, nulled, send, objects>>
    BY <1>9 DEF SelectConversation, SelectionReplied, NewChat, TimerFires, PreviewReplied, vars,
       clientVars, storeVars
  <2>2. \A u \in Turns : send'[u].pc = "answered" => outcome[u] = "answered"
    BY <1>d, <2>1 DEF ChatsHold
  <2>3. QED
    BY <1>0, <1>d, <2>1, <2>2, ChatsStay
<1>10. QED
  BY <1>b, <1>1, <1>2, <1>3, <1>4, <1>5, <1>6, <1>7, <1>8, <1>9 DEF Next, Sending

-----------------------------------------------------------------------------
(* The invariant, and what follows from it.                                 *)

LEMMA ClientInitInvariant == Init => ClientInvariant
<1> SUFFICES ASSUME Init PROVE ClientInvariant
  OBVIOUS
<1>1. StoreInvariant
  BY StoreInitInvariant DEF Init
<1>2. /\ \A o \in Objects : objects[o] = [id |-> NoId, bubbles |-> <<>>]
      /\ objects = [o \in Objects |-> [id |-> NoId, bubbles |-> <<>>]]
      /\ \A t \in Turns : send[t] = Unsent /\ response[t] = Missing
      /\ \A s \in Selections : select[s].pc = "idle"
      /\ outcome = [t \in Turns |-> "unsent"] /\ stored = Nothing
      /\ shown = NoObject /\ shownId = NoId /\ nulled = FALSE
  BY DEF Init, StoreInit
<1>3. [id |-> NoId, bubbles |-> <<>>] \in Things /\ Unsent \in Sends /\ Missing \in Conversation
  BY EmptySeq DEF Things, KnownIds, Unsent, Sends, Missing, Conversation
<1>4. /\ preview = [seq |-> 0, timer |-> TRUE, requests |-> {}, meter |-> NoMeter]
      /\ preview.seq = 0 /\ preview.timer = TRUE /\ preview.requests = {} /\ preview.meter = NoMeter
  BY DEF Init
<1>5. ClientTypeOK
  <2>1. /\ objects \in [Objects -> Things] /\ send \in [Turns -> Sends]
        /\ response \in [Turns -> Conversation] /\ home \in [Turns -> Turns]
    BY <1>3 DEF Init, StoreInit
  <2>2. /\ select \in [Selections -> [pc : {"idle", "asked", "served", "done"}, id : KnownIds]]
        /\ delete \in [Deletions -> [pc : {"idle", "asked", "deleted", "done"}, id : KnownIds]]
        /\ spent \in [losses : Nat, failures : Nat, foreign : Nat]
    BY DEF Init, KnownIds
  <2>3. QED
    BY <1>2, <1>4, <2>1, <2>2 DEF ClientTypeOK, KnownIds
<1>6. \A t \in Turns : /\ send[t].pc = "idle" /\ send[t].on = NoObject
                       /\ ~send[t].learned /\ ~send[t].overlaps /\ ~send[t].blind
  <2>1. /\ Unsent.pc = "idle" /\ Unsent.on = NoObject
        /\ ~Unsent.learned /\ ~Unsent.overlaps /\ ~Unsent.blind
    BY DEF Unsent
  <2>2. \A t \in Turns : send[t] = Unsent
    BY <1>2
  <2>3. QED
    BY <2>1, <2>2
<1>7. Wired
  BY <1>2, <1>6, ObjectNames DEF Wired, Taken
<1>8. ViewConsistent
  BY <1>2 DEF ViewConsistent
<1>9. Chats
  <2>1. \A o \in Objects : OneChat(o)
    BY <1>6, ObjectNames DEF OneChat
  <2>2. NoId \notin Turns
    BY LocalIdsAssumption DEF Ids
  <2>3. QED
    BY <1>2, <1>6, <2>1, <2>2 DEF Chats, ChatsHold
<1>10. Bubbling
  <2>1. \A o \in Objects : Waits(o) = {}
    BY <1>2 DEF Waits
  <2>2. \A o \in Objects : Flying(o) = {}
    BY <1>6 DEF Flying, InFlight
  <2>3. QED
    BY <1>2, <2>1, <2>2 DEF Bubbling
<1>11. Metered
  BY <1>4 DEF Metered
<1>12. QED
  BY <1>1, <1>5, <1>7, <1>8, <1>9, <1>10, <1>11 DEF ClientInvariant

LEMMA ClientNextInvariant == ClientInvariant /\ [Next]_vars => ClientInvariant'
BY StoreKept, TypesNext, WiredNext, ViewNext, ChatsNext, BubblingNext, MeteredNext
   DEF ClientInvariant

LEMMA ClientInvariantHolds == Spec => []ClientInvariant
BY ClientInitInvariant, ClientNextInvariant, PTL DEF Spec

\* Every variable of the browser has its type, and the id it keeps is that of
\* the conversation on the screen, however sends, selections, deletions and
\* failing requests interleave: the delete button deletes what is seen.
THEOREM ScreenIsSound == Spec => []ScreenSound
<1>1. ClientInvariant => ScreenSound
  <2> SUFFICES ASSUME ClientInvariant PROVE ScreenSound
    OBVIOUS
  <2>1. ClientTypeOK /\ ViewConsistent
    BY DEF ClientInvariant
  <2>2. \A o \in Objects : objects[o].id \in KnownIds /\ objects[o].bubbles \in Seq(Speech)
    BY <2>1 DEF ClientTypeOK, Things
  <2>3. \A t \in Turns :
          /\ send[t].pc \in {"idle", "starting", "started", "waiting", "answered", "refused", "ended"}
          /\ send[t].on \in Objects \cup {NoObject}
          /\ send[t].asks \in Turns \cup {NoId}
    BY <2>1 DEF ClientTypeOK, Sends
  <2>4. TypeOK
    BY <2>1, <2>2, <2>3 DEF TypeOK, ClientTypeOK, Speech
  <2>5. QED
    BY <2>1, <2>4 DEF ScreenSound
<1>2. QED
  BY <1>1, ClientInvariantHolds, PTL

\* When nothing is on its way and no two sends overlapped in a conversation,
\* no bubble of the one shown waits for an answer: whichever of the three ways
\* a send ends in, its own bubble is the one that goes.
THEOREM NoBubbleWaits == Spec => []NoBubbleLeft
<1>1. ClientInvariant => NoBubbleLeft
  <2> SUFFICES ASSUME ClientInvariant, shown # NoObject, \A t \in Turns : ~InFlight(t),
                      \A t \in Turns : ~send[t].overlaps
               PROVE  \A i \in DOMAIN objects[shown].bubbles : ~objects[shown].bubbles[i].pending
    BY DEF NoBubbleLeft
  <2>1. shown \in Objects /\ Flying(shown) = {}
    BY DEF ClientInvariant, ClientTypeOK, Flying
  <2>2. Waits(shown) = {}
    BY <2>1 DEF ClientInvariant, Bubbling
  <2>3. QED
    BY <2>2 DEF Waits
<1>2. QED
  BY <1>1, ClientInvariantHolds, PTL

\* The messages of a chat go to one conversation of the gateway, as long as
\* none was sent in it before an earlier one had its reply, and nothing was
\* deleted or lost: sends, their replies and selections come in any order.
THEOREM ChatsAreOne == Spec => []OneConversation
<1>1. ClientInvariant => OneConversation
  <2> SUFFICES ASSUME ClientInvariant, NEW t \in Turns, NEW u \in Turns,
                      outcome[t] # "unsent", outcome[u] # "unsent", send[t].on = send[u].on,
                      Seeing(send[t].on), Calm
               PROVE  home[t] = home[u]
    BY DEF OneConversation, Seeing, Calm
  <2>1. send[t].on \in Objects
    BY DEF ClientInvariant, ClientTypeOK, Sends, Wired
  <2>2. OneChat(send[t].on)
    BY <2>1 DEF ClientInvariant, Chats, ChatsHold
  <2>3. QED
    BY <2>2 DEF OneChat
<1>2. QED
  BY <1>1, ClientInvariantHolds, PTL

\* When nothing is on its way, the meter is about what is shown, or blank: no
\* late reply to an older request is ever shown.
THEOREM MeterIsFresh == Spec => []MeterFresh
<1>1. ClientInvariant => MeterFresh
  BY DEF ClientInvariant, Metered, MeterFresh
<1>2. QED
  BY <1>1, ClientInvariantHolds, PTL

=============================================================================
