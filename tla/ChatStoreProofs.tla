--------------------------- MODULE ChatStoreProofs ---------------------------
(***************************************************************************)
(* What follows from ChatStore alone: no message twice, answers after their *)
(* prompts, and a history that matches the outcomes of the turns.           *)
(***************************************************************************)
EXTENDS ChatStore, SequenceTheorems, TLAPS

StoreTypeOK ==
    /\ stored \in Contents
    /\ outcome \in [Turns -> Outcomes]
    /\ home \in [Turns -> Ids]
    /\ made \subseteq Blanks

\* A conversation that does not exist has no messages.
EmptyIfMissing == \A c \in Ids : c \notin Existing(stored) => History(c) = <<>>

\* A conversation has existed: no turn and no request can create it again.
Used(c) == c \in made \/ (c \in Turns /\ outcome[c] # "unsent")

HomesUsed ==
    /\ \A c \in Existing(stored) : Used(c)
    /\ \A t \in Turns : outcome[t] # "unsent" => Used(home[t])

\* Every message is where its turn was put, and an answer is that of a turn
\* that had one.
MessagesOwned ==
    \A c \in Ids : \A i \in DOMAIN History(c) :
        LET m == History(c)[i] IN
        /\ home[m.turn] = c /\ outcome[m.turn] # "unsent"
        /\ m.role = "Assistant" => outcome[m.turn] \in {"answered", "lost"}

\* No conversation has a message twice.
MessagesDistinct ==
    \A c \in Ids : \A i, j \in DOMAIN History(c) : History(c)[i] = History(c)[j] => i = j

\* The prompt of a turn is in its conversation while that exists, and so is
\* the answer of a turn that ended with one.
MessagesThere ==
    \A t \in Turns : home[t] \in Existing(stored) =>
        /\ outcome[t] # "unsent" => \E i \in DOMAIN History(home[t]) : History(home[t])[i] = Prompt(t)
        /\ outcome[t] = "answered" => \E i \in DOMAIN History(home[t]) : History(home[t])[i] = Answer(t)

\* The inductive invariant.
StoreInvariant ==
    /\ StoreTypeOK /\ EmptyIfMissing /\ HomesUsed
    /\ MessagesOwned /\ MessagesDistinct /\ MessagesThere
    /\ AnswerAfterPrompt

-----------------------------------------------------------------------------

LEMMA ContentsRead ==
    ASSUME StoreTypeOK
    PROVE  /\ \A c \in Ids : stored[c] \in Conversation /\ History(c) \in Seq(Messages)
           /\ \A c \in Ids : c \in Existing(stored) <=> stored[c].exists
           /\ \A c \in Ids : \A i \in DOMAIN History(c) :
                 History(c)[i] \in Messages /\ History(c)[i].turn \in Turns
<1>1. \A c \in Ids : stored[c] \in Conversation
  BY DEF StoreTypeOK, Contents
<1>2. \A c \in Ids : History(c) \in Seq(Messages)
  BY <1>1 DEF Conversation, History
<1>3. \A c \in Ids : c \in Existing(stored) <=> stored[c].exists
  BY DEF Existing
<1>4. ASSUME NEW c \in Ids, NEW i \in DOMAIN History(c)
      PROVE  History(c)[i] \in Messages
  BY <1>2, ElementOfSeq, LenProperties
<1>5. \A m \in Messages : m.turn \in Turns
  BY DEF Messages
<1>6. QED
  BY <1>1, <1>2, <1>3, <1>4, <1>5

LEMMA MessageAppended ==
    ASSUME NEW h \in Seq(Messages), NEW m \in Messages
    PROVE  /\ Append(h, m) \in Seq(Messages)
           /\ DOMAIN Append(h, m) = DOMAIN h \cup {Len(h) + 1}
           /\ Len(h) + 1 \notin DOMAIN h
           /\ DOMAIN h = 1 .. Len(h) /\ Len(h) \in Nat
           /\ Append(h, m)[Len(h) + 1] = m
           /\ \A i \in DOMAIN h : Append(h, m)[i] = h[i]
OBVIOUS

LEMMA PromptsAndAnswers ==
    ASSUME NEW t \in Turns
    PROVE  /\ Prompt(t) \in Messages /\ Answer(t) \in Messages
           /\ Prompt(t).turn = t /\ Answer(t).turn = t
           /\ Prompt(t).role # "Assistant" /\ Answer(t).role = "Assistant"
           /\ t \in Ids
BY DEF Prompt, Answer, Messages, Ids

LEMMA StoreInitInvariant == StoreInit => StoreInvariant
<1> SUFFICES ASSUME StoreInit PROVE StoreInvariant
  OBVIOUS
<1>1. \A c \in Ids : History(c) = <<>> /\ c \notin Existing(stored)
  BY DEF StoreInit, Nothing, Missing, History, Existing
<1>2. \A t \in Turns : t \in Ids
  BY PromptsAndAnswers
<1>3. stored \in Contents
  BY DEF StoreInit, Nothing, Missing, Contents, Conversation
<1>4. StoreTypeOK
  BY <1>2, <1>3 DEF StoreInit, StoreTypeOK, Outcomes
<1>5. \A c \in Ids : DOMAIN History(c) = {}
  BY <1>1
<1>6. EmptyIfMissing /\ HomesUsed
  BY <1>1 DEF EmptyIfMissing, HomesUsed, StoreInit, Existing
<1>7. MessagesOwned /\ MessagesDistinct /\ AnswerAfterPrompt
  BY <1>5 DEF MessagesOwned, MessagesDistinct, AnswerAfterPrompt
<1>8. MessagesThere
  BY <1>1 DEF MessagesThere, StoreInit, Existing
<1>9. QED
  BY <1>4, <1>6, <1>7, <1>8 DEF StoreInvariant

\* A message is put at the end of a conversation: the prompt of a turn that
\* was not sent before, or the answer of one that is pending.
LEMMA AppendStep ==
    ASSUME StoreInvariant, StoreTypeOK', made' = made,
           NEW t \in Turns, NEW m, NEW c \in Ids,
           stored' = WithMessage(stored, c, m), home'[t] = c, outcome'[t] # "unsent",
           \A u \in Turns \ {t} : home'[u] = home[u] /\ outcome'[u] = outcome[u],
           \/ /\ m = Prompt(t) /\ outcome[t] = "unsent" /\ outcome'[t] = "pending"
              /\ c \in Existing(stored) \cup {t}
           \/ /\ m = Answer(t) /\ outcome[t] = "pending" /\ outcome'[t] = "answered"
              /\ c = home[t] /\ c \in Existing(stored)
    PROVE  StoreInvariant'
<1> DEFINE k == Len(History(c)) + 1
<1> USE DEF StoreInvariant
<1>1. /\ m \in Messages /\ m.turn = t
      /\ m = Prompt(t) => m.role # "Assistant"
      /\ m = Answer(t) => m.role = "Assistant"
  BY PromptsAndAnswers
<1>2. /\ \A d \in Ids : stored[d] \in Conversation /\ History(d) \in Seq(Messages)
      /\ \A d \in Ids : d \in Existing(stored) <=> stored[d].exists
      /\ \A d \in Ids : \A i \in DOMAIN History(d) :
            History(d)[i] \in Messages /\ History(d)[i].turn \in Turns
  BY ContentsRead
<1>3. /\ stored'[c] = [exists |-> TRUE, messages |-> Append(stored[c].messages, m)]
      /\ \A d \in Ids \ {c} : stored'[d] = stored[d]
  BY DEF WithMessage, StoreTypeOK, Contents
<1>4. \A d \in Ids \ {c} : History(d)' = History(d)
  BY <1>3 DEF History
<1>5. /\ DOMAIN History(c)' = DOMAIN History(c) \cup {k} /\ k \notin DOMAIN History(c)
      /\ DOMAIN History(c) = 1 .. k - 1 /\ k \in Nat
      /\ History(c)'[k] = m
      /\ \A i \in DOMAIN History(c) : History(c)'[i] = History(c)[i]
  <2>1. History(c)' = Append(History(c), m)
    BY <1>3 DEF History
  <2>2. QED
    BY <1>1, <1>2, <2>1, MessageAppended
<1> HIDE DEF k
<1>6. \A d \in Ids : d \in Existing(stored)' <=> d = c \/ d \in Existing(stored)
  BY <1>3 DEF Existing
<1>7. \A d \in Ids : \A i \in DOMAIN History(d) :
        /\ i \in DOMAIN History(d)' /\ History(d)'[i] = History(d)[i]
        /\ History(d)[i] # m
        /\ History(d)[i].turn = t => outcome[t] # "unsent"
  BY <1>1, <1>2, <1>4, <1>5 DEF MessagesOwned
<1>8. \A d \in Ids : \A i \in DOMAIN History(d)' :
        \/ i \in DOMAIN History(d)
        \/ d = c /\ i = k /\ History(d)'[i] = m
  BY <1>4, <1>5
<1>9. EmptyIfMissing'
  BY <1>4, <1>6 DEF EmptyIfMissing
<1>10. HomesUsed'
  <2>1. \A d \in Ids : Used(d) => Used(d)'
    BY DEF Used
  <2>2. Used(c)'
    BY <2>1 DEF HomesUsed, Used
  <2>3. Existing(stored)' \subseteq Ids /\ \A u \in Turns : home[u] \in Ids
    BY DEF Existing, StoreTypeOK
  <2>4. QED
    BY <1>6, <2>1, <2>2, <2>3 DEF HomesUsed
<1>11. MessagesOwned'
  <2>1. SUFFICES ASSUME NEW d \in Ids, NEW i \in DOMAIN History(d)'
                 PROVE  /\ home'[History(d)'[i].turn] = d /\ outcome'[History(d)'[i].turn] # "unsent"
                        /\ History(d)'[i].role = "Assistant" =>
                              outcome'[History(d)'[i].turn] \in {"answered", "lost"}
    BY DEF MessagesOwned
  <2>2. CASE i \in DOMAIN History(d)
    <3>1. /\ home[History(d)[i].turn] = d /\ outcome[History(d)[i].turn] # "unsent"
          /\ History(d)[i].role = "Assistant" => outcome[History(d)[i].turn] \in {"answered", "lost"}
      BY <2>2 DEF MessagesOwned
    <3>2. History(d)'[i] = History(d)[i] /\ History(d)[i].turn \in Turns
      BY <1>2, <1>7, <2>2
    <3>3. CASE History(d)[i].turn = t
      BY <1>7, <2>2, <3>1, <3>2, <3>3
    <3>4. CASE History(d)[i].turn # t
      BY <3>1, <3>2, <3>4
    <3>5. QED
      BY <3>3, <3>4
  <2>3. CASE d = c /\ i = k /\ History(d)'[i] = m
    BY <1>1, <2>3
  <2>4. QED
    BY <1>8, <2>2, <2>3
<1>12. MessagesDistinct'
  BY <1>4, <1>5, <1>7, <1>8 DEF MessagesDistinct
<1>13. MessagesThere'
  <2>1. SUFFICES ASSUME NEW u \in Turns, NEW d \in Ids, d = home'[u], d \in Existing(stored)'
                 PROVE  /\ outcome'[u] # "unsent" =>
                              \E i \in DOMAIN History(d)' : History(d)'[i] = Prompt(u)
                        /\ outcome'[u] = "answered" =>
                              \E i \in DOMAIN History(d)' : History(d)'[i] = Answer(u)
    BY DEF MessagesThere, StoreTypeOK, History
  <2>2. CASE u = t /\ m = Prompt(t)
    <3>1. d = c /\ k \in DOMAIN History(d)' /\ History(d)'[k] = Prompt(u)
      BY <1>5, <2>1, <2>2
    <3>2. outcome'[u] # "answered"
      BY <1>1, <2>2, PromptsAndAnswers
    <3>3. QED
      BY <3>1, <3>2
  <2>3. CASE u = t /\ m = Answer(t)
    <3>1. d = c /\ k \in DOMAIN History(d)' /\ History(d)'[k] = Answer(u)
      BY <1>5, <2>1, <2>3
    <3>2. \E i \in DOMAIN History(c) : History(c)[i] = Prompt(t)
      BY <1>1, <2>3 DEF MessagesThere
    <3>3. QED
      BY <1>7, <2>3, <3>1, <3>2
  <2>4. CASE u # t
    <3>1. home[u] = d /\ outcome'[u] = outcome[u]
      BY <2>1, <2>4
    <3>2. ASSUME outcome[u] # "unsent" PROVE d \in Existing(stored)
      <4>1. Used(d)
        BY <3>1, <3>2 DEF HomesUsed
      <4>2. c \in Existing(stored) \/ ~Used(c)
        BY IdsAssumption DEF Used, StoreTypeOK
      <4>3. QED
        BY <1>6, <2>1, <4>1, <4>2
    <3>3. d \in Existing(stored) =>
            /\ outcome[u] # "unsent" => \E i \in DOMAIN History(d) : History(d)[i] = Prompt(u)
            /\ outcome[u] = "answered" => \E i \in DOMAIN History(d) : History(d)[i] = Answer(u)
      BY <3>1 DEF MessagesThere
    <3>4. QED
      BY <1>7, <3>1, <3>2, <3>3
  <2>5. QED
    BY <2>2, <2>3, <2>4
<1>14. AnswerAfterPrompt'
  <2>1. SUFFICES ASSUME NEW d \in Ids, NEW j \in DOMAIN History(d)', History(d)'[j].role = "Assistant"
                 PROVE  \E i \in 1 .. j - 1 : History(d)'[i] = Prompt(History(d)'[j].turn)
    BY DEF AnswerAfterPrompt
  <2>2. CASE j \in DOMAIN History(d)
    <3>1. PICK i \in 1 .. j - 1 : History(d)[i] = Prompt(History(d)[j].turn)
      BY <1>7, <2>1, <2>2 DEF AnswerAfterPrompt
    <3>2. i \in DOMAIN History(d)
      BY <1>2, <2>2, LenProperties
    <3>3. QED
      BY <1>7, <2>2, <3>1, <3>2
  <2>3. CASE d = c /\ j = k /\ History(d)'[j] = m
    <3>1. m = Answer(t)
      BY <1>1, <2>1, <2>3
    <3>2. PICK i \in DOMAIN History(c) : History(c)[i] = Prompt(t)
      BY <1>1, <3>1 DEF MessagesThere
    <3>3. i \in 1 .. k - 1 /\ History(c)'[i] = Prompt(t)
      BY <1>5, <3>2
    <3>4. QED
      BY <1>1, <2>3, <3>3
  <2>4. QED
    BY <1>8, <2>2, <2>3
<1>15. QED
  BY <1>9, <1>10, <1>11, <1>12, <1>13, <1>14

\* Conversations are emptied or created empty, and turns end without one.
LEMMA RestStep ==
    ASSUME StoreInvariant, StoreTypeOK', EmptyIfMissing', home' = home, made \subseteq made',
           \A c \in Ids : History(c)' = History(c) \/ (History(c)' = <<>> /\ c \notin Existing(stored)'),
           \A c \in Ids : c \in Existing(stored)' /\ c \notin Existing(stored) => c \in made' /\ ~Used(c),
           \A t \in Turns : outcome'[t] # outcome[t] =>
              /\ outcome[t] # "unsent" /\ outcome'[t] # "unsent"
              /\ outcome'[t] = "answered" => home[t] \notin Existing(stored)'
              /\ outcome[t] \in {"answered", "lost"} =>
                     outcome'[t] \in {"answered", "lost"} \/ \A c \in Ids : History(c)' = <<>>
    PROVE  StoreInvariant'
<1> USE DEF StoreInvariant
<1>1. /\ \A c \in Ids : \A i \in DOMAIN History(c) : History(c)[i].turn \in Turns
      /\ \A t \in Turns : home[t] \in Ids
      /\ Existing(stored)' \subseteq Ids
  BY ContentsRead DEF StoreTypeOK, Existing
<1>2. \A c \in Ids : \A i \in DOMAIN History(c)' :
        i \in DOMAIN History(c) /\ History(c)' = History(c)
  OBVIOUS
<1>3. HomesUsed'
  <2>1. \A c \in Ids : Used(c) => Used(c)'
    BY DEF Used
  <2>2. QED
    BY <1>1, <2>1 DEF HomesUsed, Used
<1>4. MessagesOwned'
  <2>1. CASE \A c \in Ids : History(c)' = <<>>
    BY <2>1 DEF MessagesOwned
  <2>2. CASE ~\A c \in Ids : History(c)' = <<>>
    BY <1>1, <1>2, <2>2 DEF MessagesOwned
  <2>3. QED
    BY <2>1, <2>2
<1>5. MessagesDistinct'
  BY <1>2 DEF MessagesDistinct
<1>6. MessagesThere'
  <2>1. SUFFICES ASSUME NEW t \in Turns, home[t] \in Existing(stored)', outcome'[t] # "unsent"
                 PROVE  /\ \E i \in DOMAIN History(home[t])' : History(home[t])'[i] = Prompt(t)
                        /\ outcome'[t] = "answered" =>
                              \E i \in DOMAIN History(home[t])' : History(home[t])'[i] = Answer(t)
    BY DEF MessagesThere
  <2>2. outcome[t] # "unsent" /\ (outcome'[t] = "answered" => outcome[t] = "answered")
    BY <2>1
  <2>3. home[t] \in Existing(stored)
    BY <1>1, <2>1, <2>2 DEF HomesUsed
  <2>4. History(home[t])' = History(home[t])
    BY <1>1, <2>1
  <2>5. QED
    BY <2>2, <2>3, <2>4 DEF MessagesThere
<1>7. AnswerAfterPrompt'
  BY <1>2 DEF AnswerAfterPrompt
<1>8. QED
  BY <1>3, <1>4, <1>5, <1>6, <1>7

LEMMA StoreNextInvariant ==
    ASSUME StoreInvariant, [StoreNext]_storeVars
    PROVE  StoreInvariant'
<1> USE DEF StoreInvariant
<1>1. /\ \A c \in Ids : stored[c] \in Conversation /\ History(c) \in Seq(Messages)
      /\ \A c \in Ids : c \in Existing(stored) <=> stored[c].exists
  BY ContentsRead
<1>2. \A c \in Ids, m \in Messages : WithMessage(stored, c, m) \in Contents
  <2>1. \A c \in Ids, m \in Messages :
          [exists |-> TRUE, messages |-> Append(stored[c].messages, m)] \in Conversation
    BY <1>1 DEF Conversation
  <2>2. QED
    BY <2>1 DEF WithMessage, Contents, StoreTypeOK
<1>3. ASSUME NEW t \in Turns, NEW id \in Ids, Ask(t, id) PROVE StoreInvariant'
  <2>1. PICK c \in Ids : c = home'[t]
    BY <1>3, PromptsAndAnswers DEF Ask, Ensured, StoreTypeOK
  <2>2. /\ home'[t] = Ensured(stored, id, t) /\ c \in Existing(stored) \cup {t}
        /\ home' \in [Turns -> Ids] /\ outcome' \in [Turns -> Outcomes]
        /\ outcome[t] = "unsent" /\ outcome'[t] = "pending" /\ made' = made
        /\ \A u \in Turns \ {t} : home'[u] = home[u] /\ outcome'[u] = outcome[u]
    BY <1>3, <2>1, PromptsAndAnswers DEF Ask, Ensured, StoreTypeOK, Outcomes
  <2>3. stored' = WithMessage(stored, c, Prompt(t)) /\ stored' \in Contents
    BY <1>2, <1>3, <2>1, PromptsAndAnswers DEF Ask
  <2>4. StoreTypeOK'
    BY <2>2, <2>3 DEF StoreTypeOK
  <2>5. QED
    BY <2>1, <2>2, <2>3, <2>4, AppendStep
<1>4. ASSUME NEW t \in Turns, Reply(t), home[t] \in Existing(stored) PROVE StoreInvariant'
  <2>1. PICK c \in Ids : c = home[t]
    BY DEF StoreTypeOK
  <2>2. /\ outcome[t] = "pending" /\ outcome'[t] = "answered"
        /\ outcome' \in [Turns -> Outcomes] /\ home' = home /\ made' = made
        /\ \A u \in Turns \ {t} : outcome'[u] = outcome[u]
    BY <1>4 DEF Reply, StoreTypeOK, Outcomes
  <2>3. stored' = WithMessage(stored, c, Answer(t)) /\ stored' \in Contents
    BY <1>2, <1>4, <2>1, PromptsAndAnswers DEF Reply
  <2>4. StoreTypeOK'
    BY <2>2, <2>3 DEF StoreTypeOK
  <2>5. QED
    BY <1>4, <2>1, <2>2, <2>3, <2>4, AppendStep
<1>5. ASSUME NEW t \in Turns, Refuse(t) \/ (Reply(t) /\ home[t] \notin Existing(stored))
      PROVE  StoreInvariant'
  <2>1. /\ UNCHANGED <<stored, home, made>>
        /\ outcome[t] = "pending" /\ outcome'[t] \in {"answered", "failed"}
        /\ outcome'[t] = "answered" => home[t] \notin Existing(stored)
        /\ \A u \in Turns \ {t} : outcome'[u] = outcome[u]
        /\ outcome' \in [Turns -> Outcomes]
    BY <1>5 DEF Refuse, Reply, StoreTypeOK, Outcomes
  <2>2. StoreTypeOK' /\ EmptyIfMissing'
    BY <2>1 DEF StoreTypeOK, EmptyIfMissing, History, Existing
  <2>3. \A c \in Ids : History(c)' = History(c) /\ (c \in Existing(stored)' <=> c \in Existing(stored))
    BY <2>1 DEF History, Existing
  <2>4. \A u \in Turns : home[u] \in Ids
    BY DEF StoreTypeOK
  <2>5. QED
    BY <2>1, <2>2, <2>3, <2>4, RestStep
<1>6. ASSUME NEW b \in Blanks, Create(b) PROVE StoreInvariant'
  <2>1. b \in Ids /\ ~Used(b)
    BY <1>6, IdsAssumption DEF Create, Used, Ids
  <2>2. b \notin Existing(stored) /\ History(b) = <<>>
    BY <2>1 DEF HomesUsed, EmptyIfMissing
  <2>3. /\ stored'[b] = Blank
        /\ \A c \in Ids \ {b} : stored'[c] = stored[c]
        /\ stored' \in Contents
    BY <1>6, <2>1 DEF Create, WithBlank, StoreTypeOK, Contents, Conversation, Blank
  <2>4. /\ \A c \in Ids : History(c)' = History(c)
        /\ \A c \in Ids : c \in Existing(stored)' <=> c = b \/ c \in Existing(stored)
    BY <2>2, <2>3 DEF History, Existing, Blank
  <2>5. UNCHANGED <<outcome, home>> /\ made' = made \cup {b}
    BY <1>6 DEF Create
  <2>6. StoreTypeOK' /\ EmptyIfMissing'
    BY <2>3, <2>4, <2>5 DEF StoreTypeOK, EmptyIfMissing
  <2>7. QED
    BY <2>1, <2>4, <2>5, <2>6, RestStep
<1>7. ASSUME NEW c \in Ids, Delete(c) PROVE StoreInvariant'
  <2>1. /\ stored'[c] = Missing
        /\ \A d \in Ids \ {c} : stored'[d] = stored[d]
        /\ stored' \in Contents
    BY <1>7 DEF Delete, Without, StoreTypeOK, Contents, Conversation, Missing
  <2>2. /\ History(c)' = <<>>
        /\ \A d \in Ids \ {c} : History(d)' = History(d)
        /\ \A d \in Ids : d \in Existing(stored)' <=> d # c /\ d \in Existing(stored)
    BY <2>1 DEF History, Existing, Missing
  <2>3. UNCHANGED <<outcome, home, made>>
    BY <1>7 DEF Delete
  <2>4. StoreTypeOK' /\ EmptyIfMissing'
    BY <2>1, <2>2, <2>3 DEF StoreTypeOK, EmptyIfMissing
  <2>5. QED
    BY <2>2, <2>3, <2>4, RestStep
<1>8. ASSUME Restart \/ SaveFails PROVE StoreInvariant'
  <2>1. Nothing \in Contents
    BY DEF Nothing, Missing, Contents, Conversation
  <2>2. stored' \in {stored, Nothing} /\ UNCHANGED <<home, made>>
    BY <1>8 DEF Restart, SaveFails
  <2>3. /\ outcome' \in [Turns -> Outcomes]
        /\ \A t \in Turns : outcome'[t] # outcome[t] =>
               /\ outcome[t] # "unsent"
               /\ outcome'[t] = "lost" \/ (outcome'[t] = "stuck" /\ stored' = Nothing)
    BY <1>8 DEF Restart, SaveFails, StoreTypeOK, Outcomes
  <2>4. \A c \in Ids : \/ History(c)' = History(c) /\ (c \in Existing(stored)' <=> c \in Existing(stored))
                       \/ History(c)' = <<>> /\ c \notin Existing(stored)'
    BY <2>2 DEF History, Existing, Nothing, Missing
  <2>5. StoreTypeOK' /\ EmptyIfMissing'
    BY <2>1, <2>2, <2>3, <2>4 DEF StoreTypeOK, EmptyIfMissing
  <2>6. stored' = Nothing => \A c \in Ids : History(c)' = <<>>
    BY DEF History, Nothing, Missing
  <2>7. QED
    BY <2>2, <2>3, <2>4, <2>5, <2>6, RestStep
<1>9. CASE UNCHANGED storeVars
  BY <1>9 DEF storeVars, StoreTypeOK, EmptyIfMissing, HomesUsed, Used, MessagesOwned,
              MessagesDistinct, MessagesThere, AnswerAfterPrompt, History
<1>10. QED
  BY <1>3, <1>4, <1>5, <1>6, <1>7, <1>8, <1>9 DEF StoreNext

LEMMA StoreInvariantSound ==
    ASSUME StoreInvariant
    PROVE  NothingTwice /\ AnswerAfterPrompt /\ HistoryMatchesOutcome
<1> USE DEF StoreInvariant
<1>1. NothingTwice
  BY DEF MessagesOwned, MessagesDistinct, NothingTwice
<1>2. \A t \in Turns : Answer(t).turn = t /\ Answer(t).role = "Assistant"
  BY PromptsAndAnswers
<1>3. ASSUME NEW t \in Turns, outcome[t] \notin {"answered", "lost"},
             NEW c \in Ids, NEW i \in DOMAIN History(c)
      PROVE  History(c)[i] # Answer(t)
  BY <1>2, <1>3 DEF MessagesOwned
<1>4. ASSUME NEW t \in Turns, outcome[t] = "answered", home[t] \in Existing(stored)
      PROVE  \E i \in DOMAIN History(home[t]) : History(home[t])[i] = Answer(t)
  BY <1>4 DEF MessagesThere
<1>5. HistoryMatchesOutcome
  BY <1>3, <1>4 DEF HistoryMatchesOutcome
<1>6. QED
  BY <1>1, <1>5

\* No message twice, no answer before its prompt, and none but those that the
\* turns ended with: what every implementation of ChatStore keeps.
THEOREM StoreIsSound == StoreSpec => [](NothingTwice /\ AnswerAfterPrompt /\ HistoryMatchesOutcome)
<1>1. QED
  BY StoreInitInvariant, StoreNextInvariant, StoreInvariantSound, PTL DEF StoreSpec
-----------------------------------------------------------------------------
(* An answer that is there stays, as long as its conversation does.         *)

\* Turn t was sent, and its answer is in its conversation while that exists.
AnswerKept(t) ==
    /\ outcome[t] # "unsent"
    /\ home[t] \in Existing(stored) =>
          \E i \in DOMAIN History(home[t]) : History(home[t])[i] = Answer(t)

\* The conversation of a turn that was sent cannot be created again once it
\* was deleted or lost, and what is in it is only ever added to.
LEMMA HomeGrows ==
    ASSUME StoreInvariant, [StoreNext]_storeVars, NEW t \in Turns, outcome[t] # "unsent",
           NEW h, h = home[t]
    PROVE  /\ home'[t] = h /\ outcome'[t] # "unsent"
           /\ h \in Existing(stored)' =>
                /\ h \in Existing(stored)
                /\ \A i \in DOMAIN History(h) :
                      i \in DOMAIN History(h)' /\ History(h)'[i] = History(h)[i]
<1> USE DEF StoreInvariant
<1> DEFINE Grows == /\ home'[t] = h /\ outcome'[t] # "unsent"
                    /\ h \in Existing(stored)' =>
                         /\ h \in Existing(stored)
                         /\ \A i \in DOMAIN History(h) :
                               i \in DOMAIN History(h)' /\ History(h)'[i] = History(h)[i]
<1>1. h \in Ids /\ Used(h) /\ History(h) \in Seq(Messages)
  BY ContentsRead DEF StoreTypeOK, HomesUsed
<1>2. ASSUME NEW c \in Ids, NEW m \in Messages, stored' = WithMessage(stored, c, m),
             h \in Existing(stored) \/ h # c, home'[t] = h, outcome'[t] # "unsent"
      PROVE  Grows
  <2>1. /\ stored'[c] = [exists |-> TRUE, messages |-> Append(stored[c].messages, m)]
        /\ \A d \in Ids \ {c} : stored'[d] = stored[d]
    BY <1>2 DEF WithMessage, StoreTypeOK, Contents
  <2>2. CASE h = c
    <3>1. History(h)' = Append(History(h), m)
      BY <2>1, <2>2 DEF History
    <3>2. QED
      BY <1>1, <1>2, <2>2, <3>1, MessageAppended
  <2>3. CASE h # c
    BY <1>1, <1>2, <2>1, <2>3 DEF History, Existing
  <2>4. QED
    BY <2>2, <2>3
<1>3. ASSUME NEW u \in Turns, NEW id \in Ids, Ask(u, id) PROVE Grows
  <2>1. outcome[u] = "unsent" /\ u # t /\ ~Used(u) /\ u # h
    BY <1>1, <1>3, IdsAssumption DEF Ask, Used, StoreTypeOK
  <2>2. home'[t] = h /\ outcome'[t] = outcome[t]
    BY <1>3, <2>1 DEF Ask, StoreTypeOK
  <2>3. PICK c \in Ids : c = home'[u]
    BY <1>3, PromptsAndAnswers DEF Ask, Ensured, StoreTypeOK
  <2>4. c \in Existing(stored) \cup {u} /\ stored' = WithMessage(stored, c, Prompt(u))
    BY <1>3, <2>3, PromptsAndAnswers DEF Ask, Ensured, StoreTypeOK
  <2>5. QED
    BY <1>2, <2>1, <2>2, <2>4, PromptsAndAnswers
<1>4. ASSUME NEW u \in Turns, Reply(u), home[u] \in Existing(stored) PROVE Grows
  <2>1. PICK c \in Ids : c = home[u]
    BY DEF StoreTypeOK
  <2>2. home'[t] = h /\ outcome'[t] # "unsent"
    BY <1>4 DEF Reply, StoreTypeOK
  <2>3. stored' = WithMessage(stored, c, Answer(u))
    BY <1>4, <2>1 DEF Reply
  <2>4. QED
    BY <1>2, <1>4, <2>1, <2>2, <2>3, PromptsAndAnswers
<1>5. ASSUME NEW u \in Turns, Refuse(u) \/ (Reply(u) /\ home[u] \notin Existing(stored))
      PROVE  Grows
  <2>1. stored' = stored /\ home' = home /\ outcome'[t] # "unsent"
    BY <1>5 DEF Refuse, Reply, StoreTypeOK
  <2>2. QED
    BY <2>1 DEF History, Existing
<1>6. ASSUME NEW b \in Blanks, Create(b) PROVE Grows
  <2>1. b \in Ids /\ ~Used(b) /\ b # h
    BY <1>1, <1>6, IdsAssumption DEF Create, Used, Ids
  <2>2. \A c \in Ids \ {b} : stored'[c] = stored[c]
    BY <1>6, <2>1 DEF Create, WithBlank, StoreTypeOK, Contents
  <2>3. UNCHANGED <<outcome, home>>
    BY <1>6 DEF Create
  <2>4. QED
    BY <1>1, <2>1, <2>2, <2>3 DEF History, Existing
<1>7. ASSUME NEW c \in Ids, Delete(c) PROVE Grows
  <2>1. /\ ~stored'[c].exists
        /\ \A d \in Ids \ {c} : stored'[d] = stored[d]
        /\ UNCHANGED <<outcome, home>>
    BY <1>7 DEF Delete, Without, Missing, StoreTypeOK, Contents
  <2>2. QED
    BY <1>1, <2>1 DEF History, Existing
<1>8. ASSUME Restart \/ SaveFails PROVE Grows
  <2>1. home' = home /\ outcome'[t] # "unsent"
    BY <1>8 DEF Restart, SaveFails, StoreTypeOK
  <2>2. CASE stored' = stored
    BY <2>1, <2>2 DEF History, Existing
  <2>3. CASE stored' = Nothing
    BY <1>1, <2>1, <2>3 DEF Existing, Nothing, Missing
  <2>4. QED
    BY <1>8, <2>2, <2>3 DEF Restart, SaveFails
<1>9. CASE UNCHANGED storeVars
  BY <1>9 DEF storeVars, History, Existing
<1>10. QED
  BY <1>3, <1>4, <1>5, <1>6, <1>7, <1>8, <1>9 DEF StoreNext

LEMMA AnswerStays ==
    ASSUME StoreInvariant, [StoreNext]_storeVars, NEW t \in Turns, AnswerKept(t)
    PROVE  AnswerKept(t)'
<1>1. PICK h : h = home[t]
  OBVIOUS
<1>2. outcome[t] # "unsent" /\ (h \in Existing(stored) => \E i \in DOMAIN History(h) : History(h)[i] = Answer(t))
  BY <1>1 DEF AnswerKept
<1>3. /\ home'[t] = h /\ outcome'[t] # "unsent"
      /\ h \in Existing(stored)' =>
           /\ h \in Existing(stored)
           /\ \A i \in DOMAIN History(h) : i \in DOMAIN History(h)' /\ History(h)'[i] = History(h)[i]
  BY <1>1, <1>2, HomeGrows
<1>4. h \in Existing(stored)' => \E i \in DOMAIN History(h)' : History(h)'[i] = Answer(t)
  BY <1>2, <1>3
<1>5. QED
  BY <1>3, <1>4 DEF AnswerKept, History

\* A turn that ended with an answer has it kept.
LEMMA AnsweredIsKept ==
    ASSUME StoreInvariant, NEW t \in Turns, outcome[t] = "answered"
    PROVE  AnswerKept(t)
BY DEF StoreInvariant, MessagesThere, AnswerKept
=============================================================================
