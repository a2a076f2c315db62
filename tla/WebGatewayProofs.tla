-------------------------- MODULE WebGatewayProofs ---------------------------
(***************************************************************************)
(* The web gateway implements ChatStore, for every number of turns, threads *)
(* and crashes: under the lock a load, its change and its save are one      *)
(* step, and a turn passes from the handler to the pool to one thread.      *)
(* What a client is told of a turn agrees with the history, and the context *)
(* window is right for a conversation of any length.                        *)
(***************************************************************************)
EXTENDS WebGateway, ContextInputs, SequenceTheorems, WellFoundedInduction, TLAPS

\* The holder of the lock is who is saving, and the file is torn meanwhile; it
\* is torn without a holder only after a write was cut short.
LockAgrees ==
    /\ lock = EventLoop <=> loop.op \in SavingOps
    /\ \A t \in Turns : lock = t <=> worker[t] = "saving"
    /\ ~LockIsFree => ~disk.whole
    /\ TornOnlyUnderLock

\* The handler of a turn has not handed it to the pool yet.
LoopAgrees ==
    /\ loop.turn \in Turns <=> loop.op \in {"starting", "saved", "registered"}
    /\ loop.turn \in Turns => worker[loop.turn] = "starting"

\* A turn that waits for a thread is in the queue once.
QueueAgrees ==
    /\ \A i \in DOMAIN queue : queue[i].job = "finish" => worker[queue[i].turn] = "waiting"
    /\ \A i, j \in DOMAIN queue : queue[i].job = "finish" /\ queue[j] = queue[i] => i = j

\* A turn that its thread has finished has a final status.
EndsAgree == \A t \in Turns : worker[t] = "finished" => status[t] \in Done

\* The inductive invariant.
Invariant == TypeOK /\ LockAgrees /\ LoopAgrees /\ QueueAgrees /\ EndsAgree

-----------------------------------------------------------------------------
(* The value in the file.                                                   *)

LEMMA NothingIsContents == Nothing \in Contents
BY DEF Nothing, Contents, Missing, Conversation

LEMMA SavedIsContents ==
    ASSUME NEW convs \in Contents, NEW c \in Ids
    PROVE  /\ \A m \in Messages : WithMessage(convs, c, m) \in Contents
           /\ WithBlank(convs, c) \in Contents
           /\ Without(convs, c) \in Contents
<1>1. convs[c] \in Conversation
  BY DEF Contents
<1>2. \A m \in Messages : [exists |-> TRUE, messages |-> Append(convs[c].messages, m)] \in Conversation
  BY <1>1 DEF Conversation
<1>3. Blank \in Conversation /\ Missing \in Conversation
  BY DEF Blank, Missing, Conversation
<1>4. \A m \in Messages : WithMessage(convs, c, m) \in Contents
  BY <1>2 DEF WithMessage, Contents
<1>5. WithBlank(convs, c) \in Contents /\ Without(convs, c) \in Contents
  BY <1>3 DEF WithBlank, Without, Contents
<1>6. QED
  BY <1>4, <1>5

LEMMA MessagesOfTurns ==
    ASSUME NEW t \in Turns
    PROVE  /\ Prompt(t) \in Messages /\ Answer(t) \in Messages
           /\ t \in Ids
BY DEF Prompt, Answer, Messages, Ids

LEMMA LoadIsContents ==
    ASSUME TypeOK
    PROVE  Load(disk) \in Contents
BY NothingIsContents DEF TypeOK, Load

LEMMA CountIsTyped ==
    ASSUME TypeOK, \/ spent' = spent
                   \/ spent' = [spent EXCEPT !.crashes = @ + 1]
                   \/ spent' = [spent EXCEPT !.faults = @ + 1]
    PROVE  /\ spent' \in [crashes : Nat, faults : Nat, deletes : Nat]
           /\ spent' = [spent EXCEPT !.crashes = @ + 1] => spent'.crashes > 0
           /\ spent' = [spent EXCEPT !.faults = @ + 1] => spent'.faults > 0
<1>1. spent \in [crashes : Nat, faults : Nat, deletes : Nat]
  BY DEF TypeOK
<1>2. QED
  BY <1>1

LEMMA FileIsTyped ==
    ASSUME TypeOK
    PROVE  /\ disk \in [whole : BOOLEAN, convs : Contents]
           /\ loop.convs \in Contents /\ Whole(loop.convs) \in [whole : BOOLEAN, convs : Contents]
           /\ \A t \in Turns : Whole(copy[t]) \in [whole : BOOLEAN, convs : Contents]
<1>1. disk \in [whole : BOOLEAN, convs : Contents]
  BY DEF TypeOK
<1>2. loop.convs \in Contents /\ \A t \in Turns : copy[t] \in Contents
  BY DEF TypeOK
<1>3. QED
  BY <1>1, <1>2 DEF Whole

-----------------------------------------------------------------------------
(* Every step keeps the invariant, handler by handler.                      *)

LEMMA InitInvariant == Init => Invariant
<1> SUFFICES ASSUME Init PROVE Invariant
  OBVIOUS
<1> USE NamesAssumption, NothingIsContents, EndpointsAssumption
<1>1. \A t \in Turns : t \in Ids
  BY MessagesOfTurns
<1>2. TypeOK
  BY <1>1 DEF Init, TypeOK, Whole, Idle, Phases, Done, Free
<1>3. LockAgrees
  BY DEF Init, LockAgrees, LockIsFree, TornOnlyUnderLock, Whole, Idle, Free, EventLoop, SavingOps
<1>4. LoopAgrees /\ QueueAgrees /\ EndsAgree
  BY DEF Init, LoopAgrees, QueueAgrees, EndsAgree, Idle, NoTurn
<1>5. QED
  BY <1>2, <1>3, <1>4 DEF Invariant

\* What waits for a thread, and how the queue moves.
Jobs == [job : {"poll", "finish"}, turn : Turns]

LEMMA JobsAreTyped ==
    ASSUME NEW q \in Seq(Jobs), NEW i \in DOMAIN q
    PROVE  q[i] \in Jobs /\ q[i].turn \in Turns
<1>1. q[i] \in Jobs
  BY ElementOfSeq, LenProperties
<1>2. QED
  BY <1>1 DEF Jobs

LEMMA JobAppended ==
    ASSUME NEW q \in Seq(Jobs), NEW j \in Jobs
    PROVE  /\ Append(q, j) \in Seq(Jobs)
           /\ DOMAIN Append(q, j) = DOMAIN q \cup {Len(q) + 1}
           /\ Len(q) + 1 \notin DOMAIN q
           /\ Append(q, j)[Len(q) + 1] = j
           /\ \A i \in DOMAIN q : Append(q, j)[i] = q[i]
OBVIOUS

LEMMA JobTaken ==
    ASSUME NEW q \in Seq(Jobs), q # <<>>
    PROVE  /\ Tail(q) \in Seq(Jobs)
           /\ 1 \in DOMAIN q /\ Head(q) = q[1]
           /\ \A i \in DOMAIN Tail(q) :
                  i + 1 \in DOMAIN q /\ i \in Nat \ {0} /\ Tail(q)[i] = q[i + 1]
BY LenProperties, EmptySeq

\* A handler begins to save.
LEMMA LoopSavesInvariant ==
    ASSUME Invariant, LoopIsFree, LockIsFree,
           NEW op \in SavingOps, NEW t \in Turns \cup {NoTurn}, NEW convs \in Contents,
           LoopSaves(op, t, convs),
           op = "starting" <=> t \in Turns,
           worker' = [u \in Turns |-> IF u = t THEN "starting" ELSE worker[u]],
           t \in Turns => worker[t] = "unsent",
           home' \in [Turns -> Ids], made' \subseteq Blanks,
           spent' \in [crashes : Nat, faults : Nat, deletes : Nat],
           UNCHANGED <<copy, status, queue, poll, told, listing, via>>
    PROVE  Invariant'
<1> USE NamesAssumption DEF Invariant
<1>1. TypeOK'
  BY NothingIsContents DEF TypeOK, LoopSaves, Saving, Torn, SavingOps, EventLoop, Phases
<1>2. LockAgrees'
  BY DEF LockAgrees, LockIsFree, TornOnlyUnderLock, LoopSaves, Saving, Torn, Free, EventLoop, TypeOK
<1>3. LoopAgrees'
  BY DEF LoopAgrees, LoopSaves, Saving, SavingOps, NoTurn, TypeOK
<1>4. QueueAgrees'
  <2>1. \A i \in DOMAIN queue : queue[i].turn \in Turns
    BY JobsAreTyped DEF TypeOK, Jobs
  <2>2. QED
    BY <2>1 DEF QueueAgrees, TypeOK
<1>5. EndsAgree'
  BY DEF EndsAgree
<1>6. QED
  BY <1>1, <1>2, <1>3, <1>4, <1>5

LEMMA HandlersInvariant ==
    ASSUME Invariant,
           \/ \E t \in Turns, id \in Ids : StartChat(t, id)
           \/ \E b \in Blanks : CreateConversation(b)
           \/ \E c \in Ids : DeleteConversation(c)
    PROVE  Invariant'
<1> USE NamesAssumption
<1>1. TypeOK /\ Load(disk) \in Contents
  BY LoadIsContents DEF Invariant
<1>2. ASSUME NEW t \in Turns, NEW id \in Ids, StartChat(t, id) PROVE Invariant'
  <2>1. home' \in [Turns -> Ids] /\ home'[t] \in Ids
    BY <1>1, <1>2, MessagesOfTurns DEF TypeOK, StartChat, Ensured
  <2>2. PICK c \in Ids : c = home'[t]
    BY <2>1
  <2>3. PICK convs \in Contents : convs = WithMessage(Load(disk), c, Prompt(t))
    BY <1>1, <2>2, SavedIsContents, MessagesOfTurns
  <2>4. LoopSaves("starting", t, convs)
    BY <1>2, <2>2, <2>3 DEF StartChat, LoopSaves
  <2>5. worker' = [u \in Turns |-> IF u = t THEN "starting" ELSE worker[u]]
    BY <1>1, <1>2 DEF TypeOK, StartChat
  <2>6. "starting" \in SavingOps
    BY DEF SavingOps
  <2>7. /\ LoopIsFree /\ LockIsFree
        /\ worker[t] = "unsent"
        /\ made' \subseteq Blanks
        /\ spent' \in [crashes : Nat, faults : Nat, deletes : Nat]
        /\ UNCHANGED <<copy, status, queue, poll, told, listing, via>>
    BY <1>1, <1>2 DEF StartChat, TypeOK
  <2>8. QED
    BY <2>1, <2>4, <2>5, <2>6, <2>7, LoopSavesInvariant
<1>3. ASSUME NEW b \in Blanks, CreateConversation(b) PROVE Invariant'
  <2>1. b \in Ids
    BY DEF Ids
  <2>2. PICK convs \in Contents : convs = WithBlank(Load(disk), b)
    BY <1>1, <2>1, SavedIsContents
  <2>3. LoopSaves("creating", NoTurn, convs)
    BY <1>3, <2>2 DEF CreateConversation, LoopSaves
  <2>4. worker' = [u \in Turns |-> IF u = NoTurn THEN "starting" ELSE worker[u]]
    BY <1>1, <1>3 DEF TypeOK, CreateConversation
  <2>5. "creating" \in SavingOps
    BY DEF SavingOps
  <2>6. /\ LoopIsFree /\ LockIsFree
        /\ home' \in [Turns -> Ids]
        /\ made' \subseteq Blanks
        /\ spent' \in [crashes : Nat, faults : Nat, deletes : Nat]
        /\ UNCHANGED <<copy, status, queue, poll, told, listing, via>>
    BY <1>1, <1>3 DEF CreateConversation, TypeOK
  <2>7. "creating" # "starting" /\ NoTurn \notin Turns
    BY NamesAssumption
  <2>8. QED
    BY <2>3, <2>4, <2>5, <2>6, <2>7, LoopSavesInvariant
<1>4. ASSUME NEW c \in Ids, DeleteConversation(c) PROVE Invariant'
  <2>1. PICK convs \in Contents : convs = Without(Load(disk), c)
    BY <1>1, SavedIsContents
  <2>2. LoopSaves("deleting", NoTurn, convs)
    BY <1>4, <2>1 DEF DeleteConversation, LoopSaves
  <2>3. worker' = [u \in Turns |-> IF u = NoTurn THEN "starting" ELSE worker[u]]
    BY <1>1, <1>4 DEF TypeOK, DeleteConversation
  <2>4. "deleting" \in SavingOps
    BY DEF SavingOps
  <2>5. /\ LoopIsFree /\ LockIsFree
        /\ home' \in [Turns -> Ids]
        /\ made' \subseteq Blanks
        /\ UNCHANGED <<copy, status, queue, poll, told, listing, via>>
    BY <1>1, <1>4 DEF DeleteConversation, TypeOK
  <2>6. spent' \in [crashes : Nat, faults : Nat, deletes : Nat]
    BY <1>1, <1>4 DEF DeleteConversation, TypeOK
  <2>7. "deleting" # "starting" /\ NoTurn \notin Turns
    BY NamesAssumption
  <2>8. QED
    BY <2>2, <2>3, <2>4, <2>5, <2>6, <2>7, LoopSavesInvariant
<1>5. QED
  BY <1>2, <1>3, <1>4

\* The handler's save ends; a turn goes on to be registered.
LEMMA LoopSavedInvariant ==
    ASSUME Invariant, LoopSaved \/ LoopSaveFails
    PROVE  Invariant'
<1> USE NamesAssumption DEF Invariant
<1>1. loop \in [op : SavingOps \cup {"idle", "saved", "registered"},
                turn : Turns \cup {NoTurn}, convs : Contents]
  BY DEF TypeOK
<1>2. /\ loop' \in [op : SavingOps \cup {"idle", "saved", "registered"},
                    turn : Turns \cup {NoTurn}, convs : Contents]
      /\ loop'.op \notin SavingOps
      /\ loop'.turn \in Turns <=> loop'.op \in {"starting", "saved", "registered"}
      /\ loop'.turn \in Turns => loop'.turn = loop.turn /\ LoopSaved
  BY <1>1, NothingIsContents DEF LoopSaved, LoopSaveFails, Idle, SavingOps, NoTurn, LoopAgrees
<1>3. /\ worker' \in [Turns -> Phases]
      /\ LoopSaved => worker' = worker
      /\ \A t \in Turns : worker'[t] # worker[t] => worker[t] = "starting" /\ worker'[t] = "broken"
  BY DEF LoopSaved, LoopSaveFails, TypeOK, LoopAgrees, Phases
<1>4. TypeOK'
  <2>1. disk' \in [whole : BOOLEAN, convs : Contents] /\ lock' = Free
    BY FileIsTyped DEF LoopSaved, LoopSaveFails
  <2>2. told' \in [Turns -> {"nothing", "started"} \cup Final]
    BY DEF LoopSaved, LoopSaveFails, TypeOK, Final
  <2>3. spent' \in [crashes : Nat, faults : Nat, deletes : Nat]
    BY CountIsTyped DEF LoopSaved, LoopSaveFails
  <2>4. UNCHANGED <<copy, home, status, queue, poll, listing, via, made>>
    BY DEF LoopSaved, LoopSaveFails
  <2>5. QED
    BY <1>2, <1>3, <2>1, <2>2, <2>3, <2>4 DEF TypeOK
<1>5. LockAgrees'
  <2>1. /\ lock = EventLoop
        /\ lock' = Free
        /\ \A t \in Turns : worker[t] # "saving"
    BY DEF LoopSaved, LoopSaveFails, LockAgrees
  <2>2. \A t \in Turns : worker'[t] # "saving"
    BY <1>3, <2>1
  <2>3. disk'.whole \/ spent'.faults > 0
    BY DEF LoopSaved, LoopSaveFails, Whole, TypeOK
  <2>4. spent'.crashes + spent'.faults = 0 => spent'.faults = 0
    BY <1>4 DEF TypeOK
  <2>5. TornOnlyUnderLock'
    BY <2>3, <2>4, <1>4 DEF TornOnlyUnderLock, TypeOK
  <2>6. Free # EventLoop /\ Free \notin Turns
    BY DEF Free, EventLoop
  <2>7. QED
    BY <1>2, <2>1, <2>2, <2>5, <2>6 DEF LockAgrees, LockIsFree
<1>6. LoopAgrees'
  BY <1>2, <1>3 DEF LoopAgrees, LoopSaved
<1>7. QueueAgrees'
  <2>1. queue' = queue
    BY DEF LoopSaved, LoopSaveFails
  <2>2. \A i \in DOMAIN queue : queue[i].turn \in Turns
    BY JobsAreTyped DEF TypeOK, Jobs
  <2>3. QED
    BY <1>3, <2>1, <2>2 DEF QueueAgrees
<1>8. EndsAgree'
  BY <1>3 DEF EndsAgree, LoopSaved, LoopSaveFails
<1>9. QED
  BY <1>4, <1>5, <1>6, <1>7, <1>8

\* The turn of the handler is registered, and handed to the pool.
LEMMA StartInvariant ==
    ASSUME Invariant, StartRegisters \/ StartReplies
    PROVE  Invariant'
<1> USE NamesAssumption DEF Invariant
<1>1. /\ loop.op \in {"saved", "registered"} /\ loop.op \notin SavingOps
      /\ loop.turn \in Turns /\ worker[loop.turn] = "starting"
      /\ lock # EventLoop
  BY DEF StartRegisters, StartReplies, LoopAgrees, LockAgrees, SavingOps
<1>2. PICK t \in Turns : t = loop.turn
  BY <1>1
<1>3. CASE StartRegisters
  <2>1. TypeOK'
    BY <1>2, <1>3 DEF StartRegisters, TypeOK
  <2>2. /\ loop'.op = "registered" /\ loop'.turn = t
        /\ UNCHANGED <<disk, lock, worker, queue, spent>>
    BY <1>2, <1>3 DEF StartRegisters, TypeOK
  <2>3. LockAgrees'
    BY <1>1, <2>2 DEF LockAgrees, LockIsFree, TornOnlyUnderLock, SavingOps
  <2>4. LoopAgrees' /\ QueueAgrees'
    BY <1>1, <1>2, <2>2 DEF LoopAgrees, QueueAgrees
  <2>5. EndsAgree'
    BY <1>1, <1>2, <1>3 DEF EndsAgree, StartRegisters, TypeOK
  <2>6. QED
    BY <2>1, <2>3, <2>4, <2>5
<1>4. CASE StartReplies
  <2>1. /\ loop' = Idle
        /\ worker' = [worker EXCEPT ![t] = "waiting"]
        /\ queue' = Append(queue, Finished(t))
        /\ UNCHANGED <<disk, lock, copy, home, status, poll, via, made, spent>>
    BY <1>2, <1>4 DEF StartReplies
  <2>2. /\ queue \in Seq(Jobs) /\ Finished(t) \in Jobs
        /\ Finished(t).job = "finish" /\ Finished(t).turn = t
    BY DEF TypeOK, Jobs, Finished
  <2>3. /\ queue' \in Seq(Jobs)
        /\ DOMAIN queue' = DOMAIN queue \cup {Len(queue) + 1}
        /\ Len(queue) + 1 \notin DOMAIN queue
        /\ queue'[Len(queue) + 1] = Finished(t)
        /\ \A i \in DOMAIN queue : queue'[i] = queue[i]
    BY <2>1, <2>2, JobAppended
  <2>4. listing' \in [Turns -> SUBSET Ids] /\ told' \in [Turns -> {"nothing", "started"} \cup Final]
    BY <1>2, <1>4 DEF StartReplies, TypeOK, Existing
  <2>5. worker' \in [Turns -> Phases]
    BY <2>1 DEF TypeOK, Phases
  <2>6. TypeOK'
    BY <2>1, <2>3, <2>4, <2>5, NothingIsContents DEF TypeOK, Idle, Jobs
  <2>7. \A u \in Turns : worker'[u] = IF u = t THEN "waiting" ELSE worker[u]
    BY <2>1 DEF TypeOK
  <2>8. LockAgrees'
    BY <1>1, <1>2, <2>1, <2>7 DEF LockAgrees, LockIsFree, TornOnlyUnderLock, SavingOps, Idle
  <2>9. LoopAgrees'
    BY <2>1 DEF LoopAgrees, Idle, NoTurn
  <2>10. \A i \in DOMAIN queue :
            queue[i].turn \in Turns /\ (queue[i].job = "finish" => queue[i].turn # t)
    BY <1>1, <1>2, <2>2, JobsAreTyped DEF QueueAgrees
  <2>11. QueueAgrees'
    BY <2>2, <2>3, <2>7, <2>10 DEF QueueAgrees
  <2>12. EndsAgree'
    BY <2>1, <2>7 DEF EndsAgree
  <2>13. QED
    BY <2>6, <2>8, <2>9, <2>11, <2>12
<1>5. QED
  BY <1>3, <1>4

\* A thread that does not save goes on.
LEMMA QuietStep ==
    ASSUME Invariant, NEW t \in Turns, worker[t] \notin {"starting", "waiting", "saving"},
           NEW w, w # "saving", worker' = [worker EXCEPT ![t] = w],
           UNCHANGED <<disk, lock, loop, queue, spent>>
    PROVE  LockAgrees' /\ LoopAgrees' /\ QueueAgrees'
<1> USE DEF Invariant
<1>1. \A u \in Turns : worker'[u] = IF u = t THEN w ELSE worker[u]
  BY DEF TypeOK
<1>2. LockAgrees'
  BY <1>1 DEF LockAgrees, LockIsFree, TornOnlyUnderLock
<1>3. LoopAgrees'
  BY <1>1 DEF LoopAgrees
<1>4. \A i \in DOMAIN queue : queue[i].turn \in Turns
  BY JobsAreTyped DEF TypeOK, Jobs
<1>5. QueueAgrees'
  BY <1>1, <1>4 DEF QueueAgrees
<1>6. QED
  BY <1>2, <1>3, <1>5

\* A thread of the pool, outside its save.
LEMMA WorkerInvariant ==
    ASSUME Invariant, NEW t \in Turns,
           WorkerBegins(t) \/ NodeReplies(t) \/ FinishUnsaved(t) \/ WorkerReturns(t)
    PROVE  Invariant'
<1> USE DEF Invariant
<1>1. PICK w \in Phases \ {"saving"} : worker' = [worker EXCEPT ![t] = w]
  <2>1. {"querying", "answered", "failed", "finished", "done", "broken"} \subseteq Phases \ {"saving"}
    BY DEF Phases, Running
  <2>2. QED
    BY <2>1 DEF WorkerBegins, NodeReplies, FinishUnsaved, WorkerReturns
<1>2. worker[t] \notin {"starting", "waiting", "saving"}
  BY DEF WorkerBegins, NodeReplies, FinishUnsaved, WorkerReturns
<1>3. UNCHANGED <<disk, lock, loop, copy, home, queue, poll, listing, via, made, spent>>
  BY DEF WorkerBegins, NodeReplies, FinishUnsaved, WorkerReturns
<1>4. status' \in [Turns -> {"absent", "queued", "waiting"} \cup Done]
  BY DEF WorkerBegins, NodeReplies, FinishUnsaved, WorkerReturns, TypeOK, Done
<1>5. told' \in [Turns -> {"nothing", "started"} \cup Final]
  <2>1. CASE WorkerReturns(t)
    <3>1. worker[t] = "finished" => status[t] \in Done
      BY <2>1 DEF WorkerReturns, EndsAgree
    <3>2. QED
      BY <2>1, <3>1 DEF WorkerReturns, TypeOK, Final, Done
  <2>2. CASE ~WorkerReturns(t)
    BY <2>2 DEF WorkerBegins, NodeReplies, FinishUnsaved, TypeOK
  <2>3. QED
    BY <2>1, <2>2
<1>6. TypeOK'
  BY <1>1, <1>3, <1>4, <1>5 DEF TypeOK
<1>7. EndsAgree'
  BY DEF EndsAgree, WorkerBegins, NodeReplies, FinishUnsaved, WorkerReturns, TypeOK, Done
<1>8. QED
  BY <1>1, <1>2, <1>3, <1>6, <1>7, QuietStep

\* A thread takes the lock to append its answer.
LEMMA FinishSavesInvariant ==
    ASSUME Invariant, NEW t \in Turns, FinishSaves(t)
    PROVE  Invariant'
<1> USE NamesAssumption DEF Invariant
<1>1. home[t] \in Ids /\ Load(disk) \in Contents /\ Answer(t) \in Messages
  BY LoadIsContents, MessagesOfTurns DEF TypeOK
<1>2. copy' \in [Turns -> Contents]
  BY <1>1, SavedIsContents DEF FinishSaves, TypeOK
<1>3. /\ worker[t] = "answered" /\ LockIsFree
      /\ worker' = [worker EXCEPT ![t] = "saving"]
      /\ lock' = t /\ disk' = Torn
      /\ UNCHANGED <<loop, home, status, queue, poll, told, listing, via, made, spent>>
  BY DEF FinishSaves
<1>4. \A u \in Turns : worker'[u] = IF u = t THEN "saving" ELSE worker[u]
  BY <1>3 DEF TypeOK
<1>5. TypeOK'
  <2>1. disk' \in [whole : BOOLEAN, convs : Contents]
    BY <1>3, NothingIsContents DEF Torn
  <2>2. worker' \in [Turns -> Phases]
    BY <1>3 DEF TypeOK, Phases, Running
  <2>3. QED
    BY <1>2, <1>3, <2>1, <2>2 DEF TypeOK
<1>6. LockAgrees'
  <2>1. \A u \in Turns : worker[u] # "saving"
    BY <1>3 DEF LockAgrees, LockIsFree, Free
  <2>2. lock # EventLoop /\ lock' # EventLoop /\ lock' # Free
    BY <1>3 DEF LockIsFree, Free, EventLoop
  <2>3. ~disk'.whole
    BY <1>3 DEF Torn
  <2>4. QED
    BY <1>3, <1>4, <2>1, <2>2, <2>3 DEF LockAgrees, LockIsFree, TornOnlyUnderLock
<1>7. LoopAgrees'
  BY <1>3, <1>4 DEF LoopAgrees
<1>8. \A i \in DOMAIN queue : queue[i].turn \in Turns
  BY JobsAreTyped DEF TypeOK, Jobs
<1>9. QueueAgrees'
  BY <1>3, <1>4, <1>8 DEF QueueAgrees
<1>10. EndsAgree'
  BY <1>3, <1>4 DEF EndsAgree
<1>11. QED
  BY <1>5, <1>6, <1>7, <1>9, <1>10

\* It has written the file, or failed to.
LEMMA FinishSavedInvariant ==
    ASSUME Invariant, NEW t \in Turns, FinishSaved(t) \/ FinishSaveFails(t)
    PROVE  Invariant'
<1> USE NamesAssumption DEF Invariant
<1>1. /\ worker[t] = "saving" /\ lock = t /\ lock' = Free
      /\ UNCHANGED <<loop, home, queue, poll, told, listing, via, made>>
  BY DEF FinishSaved, FinishSaveFails, LockAgrees
<1>2. PICK w \in {"finished", "raised"} : worker' = [worker EXCEPT ![t] = w]
  BY DEF FinishSaved, FinishSaveFails
<1>3. \A u \in Turns : worker'[u] = IF u = t THEN w ELSE worker[u]
  BY <1>2 DEF TypeOK
<1>4. TypeOK'
  <2>1. disk' \in [whole : BOOLEAN, convs : Contents]
    BY FileIsTyped DEF FinishSaved, FinishSaveFails
  <2>2. copy' \in [Turns -> Contents]
    BY NothingIsContents DEF FinishSaved, FinishSaveFails, TypeOK
  <2>3. worker' \in [Turns -> Phases]
    BY <1>2 DEF TypeOK, Phases, Running
  <2>4. status' \in [Turns -> {"absent", "queued", "waiting"} \cup Done]
    BY DEF FinishSaved, FinishSaveFails, TypeOK, Done
  <2>5. spent' \in [crashes : Nat, faults : Nat, deletes : Nat]
    BY DEF FinishSaved, FinishSaveFails, TypeOK
  <2>6. QED
    BY <1>1, <2>1, <2>2, <2>3, <2>4, <2>5 DEF TypeOK
<1>5. LockAgrees'
  <2>1. \A u \in Turns : worker'[u] # "saving"
    BY <1>1, <1>2, <1>3 DEF LockAgrees
  <2>2. Free # EventLoop /\ Free \notin Turns
    BY DEF Free, EventLoop
  <2>3. loop.op \notin SavingOps
    BY <1>1, <2>2 DEF LockAgrees
  <2>4. disk'.whole \/ spent'.faults > 0
    BY DEF FinishSaved, FinishSaveFails, Whole, TypeOK
  <2>5. TornOnlyUnderLock'
    BY <1>4, <2>4 DEF TornOnlyUnderLock, TypeOK
  <2>6. QED
    BY <1>1, <2>1, <2>2, <2>3, <2>5 DEF LockAgrees, LockIsFree
<1>6. LoopAgrees'
  BY <1>1, <1>2, <1>3 DEF LoopAgrees
<1>7. \A i \in DOMAIN queue : queue[i].turn \in Turns
  BY JobsAreTyped DEF TypeOK, Jobs
<1>8. QueueAgrees'
  BY <1>1, <1>3, <1>7 DEF QueueAgrees
<1>9. EndsAgree'
  BY <1>3 DEF EndsAgree, FinishSaved, FinishSaveFails, TypeOK, Done
<1>10. QED
  BY <1>4, <1>5, <1>6, <1>8, <1>9

\* The pool grants its next thread.
LEMMA PoolInvariant ==
    ASSUME Invariant, PoolGrants
    PROVE  Invariant'
<1> USE NamesAssumption DEF Invariant
<1>1. PICK job \in Jobs : job = Head(queue)
  BY HeadTailProperties DEF PoolGrants, TypeOK, Jobs
<1>2. /\ queue \in Seq(Jobs) /\ queue # <<>> /\ queue' = Tail(queue)
      /\ worker' = IF job.job = "finish" THEN [worker EXCEPT ![job.turn] = "running"] ELSE worker
      /\ poll' = IF job.job = "poll" THEN [poll EXCEPT ![job.turn] = "fetching"] ELSE poll
      /\ UNCHANGED <<disk, lock, loop, copy, home, status, told, listing, via, made, spent>>
  BY <1>1 DEF PoolGrants, TypeOK, Jobs
<1>3. /\ queue' \in Seq(Jobs)
      /\ 1 \in DOMAIN queue /\ queue[1] = job
      /\ \A i \in DOMAIN queue' :
            i + 1 \in DOMAIN queue /\ i \in Nat \ {0} /\ queue'[i] = queue[i + 1]
  BY <1>1, <1>2, JobTaken
<1>4. job.turn \in Turns /\ (job.job = "finish" => worker[job.turn] = "waiting")
  BY <1>3 DEF QueueAgrees, Jobs
<1>5. \A u \in Turns :
        worker'[u] = IF job.job = "finish" /\ u = job.turn THEN "running" ELSE worker[u]
  BY <1>2, <1>4 DEF TypeOK
<1>6. TypeOK'
  <2>1. worker' \in [Turns -> Phases]
    BY <1>2, <1>4 DEF TypeOK, Phases, Running
  <2>2. poll' \in [Turns -> {"idle", "waiting", "fetching"}]
    BY <1>2, <1>4 DEF TypeOK
  <2>3. QED
    BY <1>2, <1>3, <2>1, <2>2 DEF TypeOK, Jobs
<1>7. LockAgrees'
  BY <1>2, <1>4, <1>5 DEF LockAgrees, LockIsFree, TornOnlyUnderLock
<1>8. LoopAgrees'
  BY <1>2, <1>4, <1>5 DEF LoopAgrees
<1>9. \A i \in DOMAIN queue' :
        queue'[i].job = "finish" /\ job.job = "finish" => queue'[i].turn # job.turn
  <2>1. SUFFICES ASSUME NEW i \in DOMAIN queue', queue'[i].job = "finish", job.job = "finish",
                        queue'[i].turn = job.turn
                 PROVE  FALSE
    OBVIOUS
  <2>2. queue'[i] \in Jobs
    BY <1>3, JobsAreTyped
  <2>3. queue'[i] = job
    BY <2>1, <2>2 DEF Jobs
  <2>4. i + 1 = 1
    BY <1>3, <2>1, <2>3 DEF QueueAgrees
  <2>5. QED
    BY <1>3, <2>4
<1>10. QueueAgrees'
  <2>1. ASSUME NEW i \in DOMAIN queue', queue'[i].job = "finish"
        PROVE  worker'[queue'[i].turn] = "waiting"
    <3>1. queue'[i].turn \in Turns
      BY <1>3, JobsAreTyped
    <3>2. worker[queue'[i].turn] = "waiting"
      BY <1>3, <2>1 DEF QueueAgrees
    <3>3. QED
      BY <1>5, <1>9, <2>1, <3>1, <3>2
  <2>2. ASSUME NEW i \in DOMAIN queue', NEW j \in DOMAIN queue',
               queue'[i].job = "finish", queue'[j] = queue'[i]
        PROVE  i = j
    <3>1. i + 1 = j + 1
      BY <1>3, <2>2 DEF QueueAgrees
    <3>2. QED
      BY <1>3, <3>1
  <2>3. QED
    BY <2>1, <2>2 DEF QueueAgrees
<1>11. EndsAgree'
  BY <1>2, <1>5 DEF EndsAgree
<1>12. QED
  BY <1>6, <1>7, <1>8, <1>10, <1>11

\* A client polls.
LEMMA PollInvariant ==
    ASSUME Invariant, NEW t \in Turns, PollStatus(t) \/ PollReplies(t)
    PROVE  Invariant'
<1> USE DEF Invariant
<1>1. UNCHANGED <<disk, lock, loop, worker, copy, home, status, listing, via, made, spent>>
  BY DEF PollStatus, PollReplies
<1>2. told' \in [Turns -> {"nothing", "started"} \cup Final]
  BY DEF PollStatus, PollReplies, TypeOK, Final, Done
<1>3. poll' \in [Turns -> {"idle", "waiting", "fetching"}]
  BY DEF PollStatus, PollReplies, TypeOK
<1>4. queue' = queue \/ queue' = Append(queue, Polled(t))
  BY DEF PollStatus, PollReplies
<1>5. queue \in Seq(Jobs) /\ Polled(t) \in Jobs /\ Polled(t).job # "finish"
  BY DEF TypeOK, Jobs, Polled
<1>6. queue' \in Seq(Jobs)
  BY <1>4, <1>5, JobAppended
<1>7. TypeOK'
  BY <1>1, <1>2, <1>3, <1>6 DEF TypeOK, Jobs
<1>8. LockAgrees' /\ LoopAgrees' /\ EndsAgree'
  BY <1>1 DEF LockAgrees, LockIsFree, TornOnlyUnderLock, LoopAgrees, EndsAgree
<1>9. QueueAgrees'
  <2>1. CASE queue' = queue
    BY <1>1, <2>1 DEF QueueAgrees
  <2>2. CASE queue' = Append(queue, Polled(t))
    <3>1. /\ DOMAIN queue' = DOMAIN queue \cup {Len(queue) + 1}
          /\ Len(queue) + 1 \notin DOMAIN queue
          /\ queue'[Len(queue) + 1] = Polled(t)
          /\ \A i \in DOMAIN queue : queue'[i] = queue[i]
      BY <1>5, <2>2, JobAppended
    <3>2. QED
      BY <1>1, <1>5, <3>1 DEF QueueAgrees
  <2>3. QED
    BY <1>4, <2>1, <2>2
<1>10. QED
  BY <1>7, <1>8, <1>9

\* Killed and started again.
LEMMA CrashInvariant ==
    ASSUME Invariant, Crash
    PROVE  Invariant'
<1> USE NamesAssumption DEF Invariant
<1>1. /\ lock' = Free /\ loop' = Idle /\ queue' = <<>>
      /\ worker' = [t \in Turns |-> IF worker[t] = "unsent" THEN "unsent" ELSE "broken"]
      /\ copy' = [t \in Turns |-> Nothing]
      /\ status' = [t \in Turns |-> "absent"]
      /\ poll' = [t \in Turns |-> "idle"]
      /\ UNCHANGED <<disk, home, listing, via, made>>
  BY DEF Crash
<1>2. told' \in [Turns -> {"nothing", "started"} \cup Final]
  BY DEF Crash, TypeOK, Final
<1>3. spent' \in [crashes : Nat, faults : Nat, deletes : Nat] /\ spent'.crashes > 0
  BY CountIsTyped DEF Crash
<1>4. TypeOK'
  BY <1>1, <1>2, <1>3, NothingIsContents DEF TypeOK, Idle, Phases
<1>5. LockAgrees'
  <2>1. TornOnlyUnderLock'
    BY <1>3 DEF TornOnlyUnderLock
  <2>2. QED
    BY <1>1, <2>1 DEF LockAgrees, LockIsFree, Idle, Free, EventLoop, SavingOps
<1>6. LoopAgrees' /\ QueueAgrees' /\ EndsAgree'
  BY <1>1 DEF LoopAgrees, QueueAgrees, EndsAgree, Idle, NoTurn
<1>7. QED
  BY <1>4, <1>5, <1>6

LEMMA NextInvariant ==
    ASSUME Invariant, [Next]_vars
    PROVE  Invariant'
<1>1. CASE Handlers
  BY <1>1, HandlersInvariant, LoopSavedInvariant, StartInvariant DEF Handlers
<1>2. CASE PoolGrants
  BY <1>2, PoolInvariant
<1>3. ASSUME NEW t \in Turns, Finish(t) PROVE Invariant'
  BY <1>3, WorkerInvariant, FinishSavesInvariant, FinishSavedInvariant DEF Finish
<1>4. ASSUME NEW t \in Turns, PollStatus(t) \/ PollReplies(t) PROVE Invariant'
  BY <1>4, PollInvariant
<1>5. CASE Crash
  BY <1>5, CrashInvariant
<1>6. CASE UNCHANGED vars
  BY <1>6 DEF vars, Invariant, TypeOK, LockAgrees, LockIsFree, TornOnlyUnderLock,
              LoopAgrees, QueueAgrees, EndsAgree
<1>7. QED
  BY <1>1, <1>2, <1>3, <1>4, <1>5, <1>6 DEF Next

LEMMA InvariantHolds == Spec => []Invariant
<1>1. QED
  BY InitInvariant, NextInvariant, PTL DEF Spec

\* A turn whose prompt is not saved yet has no status, and one that a thread
\* has begun with has one until a restart.
StatusAgrees ==
    \A t \in Turns :
        /\ worker[t] = "unsent" \/ (loop.op = "starting" /\ loop.turn = t) => status[t] = "absent"
        /\ worker[t] \in {"querying", "answered", "failed", "saving", "raised"} =>
               status[t] # "absent"

LEMMA StatusStep ==
    ASSUME Invariant, StatusAgrees, [Next]_vars
    PROVE  StatusAgrees'
<1>0. /\ worker \in [Turns -> Phases] /\ status \in [Turns -> {"absent", "queued", "waiting"} \cup Done]
      /\ loop.turn \in Turns => worker[loop.turn] = "starting"
      /\ loop.op = "starting" => loop.turn \in Turns
      /\ loop \in [op : SavingOps \cup {"idle", "saved", "registered"},
                   turn : Turns \cup {NoTurn}, convs : Contents]
      /\ NoTurn \notin Turns
  BY NamesAssumption DEF Invariant, TypeOK, LoopAgrees
<1> USE DEF StatusAgrees
<1>1. ASSUME NEW t \in Turns, NEW id \in Ids, StartChat(t, id) PROVE StatusAgrees'
  BY <1>0, <1>1 DEF StartChat, LoopSaves, Saving
<1>2. CASE \/ \E b \in Blanks : CreateConversation(b)
           \/ \E c \in Ids : DeleteConversation(c)
           \/ LoopSaved \/ LoopSaveFails
  <2>1. UNCHANGED status /\ loop'.op # "starting"
    BY <1>0, <1>2 DEF CreateConversation, DeleteConversation, LoopSaves, LoopSaved,
                      LoopSaveFails, Saving, Idle, SavingOps
  <2>2. \A t \in Turns : worker'[t] = worker[t] \/ worker'[t] = "broken"
    BY <1>2 DEF CreateConversation, DeleteConversation, LoopSaved, LoopSaveFails
  <2>3. QED
    BY <2>1, <2>2
<1>3. CASE StartRegisters \/ StartReplies
  <2>1. loop.turn \in Turns /\ loop'.op # "starting"
    BY <1>3 DEF StartRegisters, StartReplies, Idle, Invariant, LoopAgrees, TypeOK
  <2>2. \A t \in Turns : t # loop.turn => worker'[t] = worker[t] /\ status'[t] = status[t]
    BY <1>0, <1>3 DEF StartRegisters, StartReplies
  <2>3. worker'[loop.turn] \in {"starting", "waiting"}
    BY <1>0, <1>3, <2>1 DEF StartRegisters, StartReplies
  <2>4. QED
    BY <2>1, <2>2, <2>3
<1>4. CASE PoolGrants
  <2>1. UNCHANGED <<status, loop>>
    BY <1>4 DEF PoolGrants
  <2>2. \A t \in Turns : worker'[t] = worker[t] \/ worker'[t] = "running"
    BY <1>0, <1>4 DEF PoolGrants
  <2>3. loop.op # "starting"
    BY <1>4 DEF PoolGrants, LoopIsFree, Idle
  <2>4. QED
    BY <2>1, <2>2, <2>3
<1>5. ASSUME NEW t \in Turns, Finish(t) PROVE StatusAgrees'
  <2>1. loop' = loop /\ \A u \in Turns \ {t} : worker'[u] = worker[u] /\ status'[u] = status[u]
    BY <1>0, <1>5 DEF Finish, WorkerBegins, NodeReplies, FinishSaves, FinishSaved,
       FinishSaveFails, FinishUnsaved, WorkerReturns
  <2>2. worker[t] \notin {"unsent", "starting"} /\ worker'[t] # "unsent"
    BY <1>0, <1>5 DEF Finish, WorkerBegins, NodeReplies, FinishSaves, FinishSaved,
       FinishSaveFails, FinishUnsaved, WorkerReturns
  <2>3. worker'[t] \in {"querying", "answered", "failed", "saving", "raised"} => status'[t] # "absent"
    BY <1>0, <1>5 DEF Finish, WorkerBegins, NodeReplies, FinishSaves, FinishSaved,
       FinishSaveFails, FinishUnsaved, WorkerReturns
  <2>4. QED
    BY <1>0, <2>1, <2>2, <2>3
<1>6. CASE Crash
  BY <1>6 DEF Crash
<1>7. ASSUME NEW t \in Turns, PollStatus(t) \/ PollReplies(t) PROVE StatusAgrees'
  BY <1>7 DEF PollStatus, PollReplies
<1>8. CASE UNCHANGED vars
  BY <1>8 DEF vars
<1>9. QED
  BY <1>1, <1>2, <1>3, <1>4, <1>5, <1>6, <1>7, <1>8 DEF Next, Handlers

LEMMA StatusHolds == Spec => []StatusAgrees
<1>1. Init => StatusAgrees
  BY DEF Init, StatusAgrees, Idle
<1>2. QED
  BY <1>1, StatusStep, InvariantHolds, PTL DEF Spec

\* Only the holder of the lock has the file half written, so a load under the
\* lock (web_state.py:122) never takes a save in progress for an empty file.
THEOREM LockCoversSaves == Spec => []FileSound
<1>1. Invariant => FileSound
  BY DEF Invariant, LockAgrees, FileSound
<1>2. QED
  BY <1>1, InvariantHolds, PTL

-----------------------------------------------------------------------------
(* Each step is a step of the store, or changes nothing of it.              *)

\* ChatStore's operators on conversations are those of the gateway.
LEMMA SameOperators ==
    /\ Promise!Nothing = Nothing /\ Promise!Ids = Ids
    /\ \A convs : Promise!Existing(convs) = Existing(convs)
    /\ \A convs, id, t : Promise!Ensured(convs, id, t) = Ensured(convs, id, t)
    /\ \A convs, c, m : Promise!WithMessage(convs, c, m) = WithMessage(convs, c, m)
    /\ \A convs, b : Promise!WithBlank(convs, b) = WithBlank(convs, b)
    /\ \A convs, c : Promise!Without(convs, c) = Without(convs, c)
    /\ \A t : Promise!Prompt(t) = Prompt(t) /\ Promise!Answer(t) = Answer(t)
BY DEF Promise!Nothing, Nothing, Promise!Ids, Ids, Promise!Missing, Missing,
       Promise!Existing, Existing, Promise!Ensured, Ensured,
       Promise!WithMessage, WithMessage, Promise!WithBlank, WithBlank, Promise!Blank, Blank,
       Promise!Without, Without, Promise!Prompt, Prompt, Promise!Answer, Answer

LEMMA StoredWhenFree ==
    ASSUME LockIsFree
    PROVE  Stored = Load(disk)
BY NamesAssumption DEF LockIsFree, Stored, Load, Free, EventLoop

LEMMA InitRefines ==
    ASSUME Init
    PROVE  Promise!StoreInit
<1>1. Stored = Nothing
  BY DEF Init, Stored, Whole
<1>2. \A t \in Turns : OutcomeOf(t) = "unsent"
  BY DEF Init, OutcomeOf
<1>3. QED
  BY <1>1, <1>2, SameOperators DEF Init, Promise!StoreInit

\* The file and the turns are as before.
LEMMA Stutters ==
    ASSUME Stored' = Stored, home' = home, made' = made,
           \A t \in Turns : OutcomeOf(t)' = OutcomeOf(t)
    PROVE  UNCHANGED Promise!storeVars
BY DEF Promise!storeVars

\* The file is as before while lock, file, and what is being saved are.
LEMMA StoredStays ==
    ASSUME UNCHANGED <<disk, lock, copy>>, lock = EventLoop => loop'.convs = loop.convs
    PROVE  Stored' = Stored
BY DEF Stored

LEMMA SavesRefine ==
    ASSUME NEW op, NEW t, NEW convs, LockIsFree, LoopSaves(op, t, convs)
    PROVE  Stored = Load(disk) /\ Stored' = convs
<1>1. Stored = Load(disk)
  BY StoredWhenFree
<1>2. Stored' = convs
  BY DEF LoopSaves, Saving, Torn, Stored
<1>3. QED
  BY <1>1, <1>2

LEMMA StartChatRefines ==
    ASSUME Invariant, NEW t \in Turns, NEW id \in Ids, StartChat(t, id)
    PROVE  Promise!Ask(t, id)
<1>1. PICK convs : convs = WithMessage(Load(disk), home'[t], Prompt(t))
  OBVIOUS
<1>2. LoopSaves("starting", t, convs)
  BY <1>1 DEF StartChat, LoopSaves
<1>3. Stored = Load(disk) /\ Stored' = convs
  BY <1>2, SavesRefine DEF StartChat
<1>4. OutcomeOf(t) = "unsent"
  BY DEF StartChat, OutcomeOf
<1>5. \A u \in Turns : worker'[u] = IF u = t THEN "starting" ELSE worker[u]
  BY DEF StartChat, Invariant, TypeOK
<1>6. status' = status
  BY DEF StartChat
<1>7. \A u \in Turns : OutcomeOf(u)' = IF u = t THEN "pending" ELSE OutcomeOf(u)
  BY <1>5, <1>6 DEF OutcomeOf
<1>8. [u \in Turns |-> OutcomeOf(u)]' = [[u \in Turns |-> OutcomeOf(u)] EXCEPT ![t] = "pending"]
  BY <1>7
<1>9. /\ home' = [home EXCEPT ![t] = Ensured(Stored, id, t)]
      /\ Stored' = WithMessage(Stored, home'[t], Prompt(t))
      /\ made' = made
  BY <1>1, <1>3 DEF StartChat
<1>10. QED
  BY <1>4, <1>8, <1>9, SameOperators DEF Promise!Ask

LEMMA CreateRefines ==
    ASSUME Invariant, NEW b \in Blanks, CreateConversation(b)
    PROVE  Promise!Create(b)
<1>1. PICK convs : convs = WithBlank(Load(disk), b)
  OBVIOUS
<1>2. LoopSaves("creating", NoTurn, convs)
  BY <1>1 DEF CreateConversation, LoopSaves
<1>3. Stored = Load(disk) /\ Stored' = convs
  BY <1>2, SavesRefine DEF CreateConversation
<1>4. \A u \in Turns : OutcomeOf(u)' = OutcomeOf(u)
  BY DEF CreateConversation, OutcomeOf
<1>5. QED
  BY <1>1, <1>3, <1>4, SameOperators DEF CreateConversation, Promise!Create

LEMMA DeleteRefines ==
    ASSUME Invariant, NEW c \in Ids, DeleteConversation(c)
    PROVE  Promise!Delete(c)
<1>1. PICK convs : convs = Without(Load(disk), c)
  OBVIOUS
<1>2. LoopSaves("deleting", NoTurn, convs)
  BY <1>1 DEF DeleteConversation, LoopSaves
<1>3. Stored = Load(disk) /\ Stored' = convs
  BY <1>2, SavesRefine DEF DeleteConversation
<1>4. \A u \in Turns : OutcomeOf(u)' = OutcomeOf(u)
  BY DEF DeleteConversation, OutcomeOf
<1>5. QED
  BY <1>1, <1>3, <1>4, SameOperators DEF DeleteConversation, Promise!Delete

\* A write that failed: what was in the file is lost.
LEMMA FailedSave ==
    ASSUME Invariant, Invariant', lock # Free, lock' = Free, disk' = disk
    PROVE  Stored' = Nothing
<1>1. ~disk.whole /\ LockIsFree'
  BY DEF Invariant, LockAgrees, LockIsFree
<1>2. QED
  BY <1>1, NamesAssumption DEF LockIsFree, Stored, Free, EventLoop

LEMMA LoopSavedRefines ==
    ASSUME Invariant, Invariant', StatusAgrees, LoopSaved \/ LoopSaveFails
    PROVE  [Promise!StoreNext]_(Promise!storeVars)
<1>1. lock = EventLoop /\ ~disk.whole
  BY NamesAssumption DEF Invariant, LockAgrees, LockIsFree, LoopSaved, LoopSaveFails, Free, EventLoop
<1>2. CASE LoopSaved
  <2>1. Stored' = Stored
    BY <1>1, <1>2 DEF LoopSaved, Stored, Whole
  <2>2. \A t \in Turns : OutcomeOf(t)' = OutcomeOf(t)
    BY <1>2 DEF LoopSaved, OutcomeOf
  <2>3. QED
    BY <1>2, <2>1, <2>2, Stutters DEF LoopSaved
<1>3. CASE LoopSaveFails
  <2>1. Stored' = Nothing
    BY <1>1, <1>3, FailedSave DEF LoopSaveFails, Free, EventLoop
  <2>2. \A t \in Turns \ {loop.turn} : OutcomeOf(t)' = OutcomeOf(t)
    BY <1>3 DEF LoopSaveFails, OutcomeOf
  <2>3. CASE loop.turn \in Turns
    <3>1. PICK l \in Turns : l = loop.turn
      BY <2>3
    <3>2. worker[l] = "starting" /\ worker'[l] = "broken"
      BY <1>3, <3>1 DEF LoopSaveFails, Invariant, LoopAgrees
    <3>3. loop.op = "starting"
      BY <1>3, <2>3 DEF LoopSaveFails, Invariant, LoopAgrees, SavingOps
    <3>4. status[l] = "absent" /\ status' = status
      BY <1>3, <3>1, <3>3 DEF LoopSaveFails, StatusAgrees
    <3>5. OutcomeOf(l) = "pending" /\ OutcomeOf(l)' = "lost" /\ \A t \in Turns \ {l} : OutcomeOf(t)' = OutcomeOf(t)
      BY <2>2, <3>1, <3>2, <3>4 DEF OutcomeOf
    <3>6. [t \in Turns |-> OutcomeOf(t)]' = [[t \in Turns |-> OutcomeOf(t)] EXCEPT ![l] = "lost"]
      BY <3>5
    <3>7. QED
      BY <1>3, <2>1, <3>5, <3>6, SameOperators
         DEF LoopSaveFails, Promise!SaveFails, Promise!StoreNext
  <2>4. CASE loop.turn \notin Turns
    <3>1. \A t \in Turns : OutcomeOf(t)' = OutcomeOf(t)
      BY <2>2, <2>4
    <3>2. QED
      BY <1>3, <2>1, <3>1, SameOperators
         DEF LoopSaveFails, Promise!SaveFails, Promise!StoreNext
  <2>5. QED
    BY <2>3, <2>4
<1>4. QED
  BY <1>2, <1>3

\* Steps that neither write the file nor end a turn.
LEMMA QuietRefines ==
    ASSUME Invariant,
           \/ StartRegisters \/ StartReplies \/ PoolGrants
           \/ \E t \in Turns : \/ WorkerBegins(t) \/ NodeReplies(t) \/ WorkerReturns(t)
                               \/ PollStatus(t) \/ PollReplies(t)
           \/ UNCHANGED vars
    PROVE  UNCHANGED Promise!storeVars
<1> USE DEF Invariant
<1>1. /\ UNCHANGED <<disk, lock, copy, home, made>>
      /\ loop' # loop => loop.op \notin SavingOps
  BY DEF StartRegisters, StartReplies, PoolGrants, WorkerBegins, NodeReplies, WorkerReturns,
         PollStatus, PollReplies, vars, SavingOps
<1>2. Stored' = Stored
  BY <1>1, StoredStays DEF LockAgrees
<1>3. CASE StartRegisters
  <2>1. worker' = worker
    BY <1>3 DEF StartRegisters
  <2>2. \A t \in Turns : status'[t] # status[t] => worker[t] = "starting"
    BY <1>3 DEF StartRegisters, TypeOK, LoopAgrees
  <2>3. \A t \in Turns : OutcomeOf(t)' = OutcomeOf(t)
    BY <2>1, <2>2 DEF OutcomeOf
  <2>4. QED
    BY <1>1, <1>2, <2>3, Stutters
<1>4. CASE StartReplies
  <2>1. status' = status
    BY <1>4 DEF StartReplies
  <2>2. \A t \in Turns : worker'[t] # worker[t] => worker[t] = "starting" /\ worker'[t] = "waiting"
    BY <1>4 DEF StartReplies, TypeOK, LoopAgrees
  <2>3. \A t \in Turns : OutcomeOf(t)' = OutcomeOf(t)
    BY <2>1, <2>2 DEF OutcomeOf
  <2>4. QED
    BY <1>1, <1>2, <2>3, Stutters
<1>5. CASE PoolGrants
  <2>1. status' = status
    BY <1>5 DEF PoolGrants
  <2>2. Head(queue) = queue[1] /\ 1 \in DOMAIN queue
    BY <1>5, JobTaken DEF PoolGrants, TypeOK, Jobs
  <2>3. \A t \in Turns : worker'[t] # worker[t] => worker[t] = "waiting" /\ worker'[t] = "running"
    BY <1>5, <2>2 DEF PoolGrants, TypeOK, QueueAgrees
  <2>4. \A t \in Turns : OutcomeOf(t)' = OutcomeOf(t)
    BY <2>1, <2>3 DEF OutcomeOf
  <2>5. QED
    BY <1>1, <1>2, <2>4, Stutters
<1>6. ASSUME NEW t \in Turns, WorkerBegins(t) \/ NodeReplies(t) \/ WorkerReturns(t)
      PROVE  UNCHANGED Promise!storeVars
  <2>1. \A u \in Turns \ {t} : worker'[u] = worker[u] /\ status'[u] = status[u]
    BY <1>6 DEF WorkerBegins, NodeReplies, WorkerReturns, TypeOK
  <2>2. \/ /\ worker[t] \in {"running", "querying"}
           /\ worker'[t] \in {"querying", "answered", "failed"}
        \/ /\ worker[t] = "finished" /\ worker'[t] = "done" /\ status'[t] = status[t]
        \/ /\ worker[t] = "raised" /\ worker'[t] = "broken" /\ status'[t] = status[t]
    BY <1>6 DEF WorkerBegins, NodeReplies, WorkerReturns, TypeOK
  <2>3. OutcomeOf(t)' = OutcomeOf(t)
    BY <2>2 DEF OutcomeOf
  <2>4. \A u \in Turns \ {t} : OutcomeOf(u)' = OutcomeOf(u)
    BY <2>1 DEF OutcomeOf
  <2>5. QED
    BY <1>1, <1>2, <2>3, <2>4, Stutters
<1>7. CASE UNCHANGED vars \/ \E t \in Turns : PollStatus(t) \/ PollReplies(t)
  <2>1. worker' = worker /\ status' = status
    BY <1>7 DEF PollStatus, PollReplies, vars
  <2>2. \A t \in Turns : OutcomeOf(t)' = OutcomeOf(t)
    BY <2>1 DEF OutcomeOf
  <2>3. QED
    BY <1>1, <1>2, <2>2, Stutters
<1>8. QED
  BY <1>3, <1>4, <1>5, <1>6, <1>7

LEMMA AnswerSaved ==
    ASSUME Invariant, NEW t \in Turns, FinishSaves(t)
    PROVE  Stored = Load(disk) /\ Stored' = WithMessage(Stored, home[t], Answer(t))
<1>1. Stored = Load(disk)
  BY StoredWhenFree DEF FinishSaves
<1>2. copy'[t] = WithMessage(Load(disk), home[t], Answer(t))
  BY DEF FinishSaves, Invariant, TypeOK
<1>3. lock' = t /\ ~disk'.whole /\ t # EventLoop
  BY NamesAssumption DEF FinishSaves, Torn
<1>4. QED
  BY <1>1, <1>2, <1>3 DEF Stored

\* The answer enters the history when its save begins.
LEMMA FinishSavesRefines ==
    ASSUME Invariant, NEW t \in Turns, FinishSaves(t)
    PROVE  Promise!Reply(t)
<1>1. Stored = Load(disk)
  BY AnswerSaved
<1>2. Stored' = WithMessage(Stored, home[t], Answer(t))
  BY AnswerSaved
<1>3. \A u \in Turns : worker'[u] = IF u = t THEN "saving" ELSE worker[u]
  BY DEF FinishSaves, Invariant, TypeOK
<1>4. worker[t] = "answered" /\ UNCHANGED <<status, home, made>>
  BY DEF FinishSaves
<1>5. OutcomeOf(t) = "pending"
  BY <1>4 DEF OutcomeOf
<1>6. \A u \in Turns : OutcomeOf(u)' = IF u = t THEN "answered" ELSE OutcomeOf(u)
  BY <1>3, <1>4 DEF OutcomeOf
<1>7. [u \in Turns |-> OutcomeOf(u)]' = [[u \in Turns |-> OutcomeOf(u)] EXCEPT ![t] = "answered"]
  BY <1>6
<1>8. home[t] \in Existing(Stored)
  BY <1>1 DEF FinishSaves
<1>9. QED
  BY <1>2, <1>4, <1>5, <1>7, <1>8, SameOperators DEF Promise!Reply

LEMMA FinishSavedRefines ==
    ASSUME Invariant, Invariant', StatusAgrees, NEW t \in Turns,
           FinishSaved(t) \/ FinishSaveFails(t)
    PROVE  [Promise!StoreNext]_(Promise!storeVars)
<1>1. worker[t] = "saving" /\ lock = t /\ lock # Free /\ lock # EventLoop /\ ~disk.whole
  BY NamesAssumption
     DEF Invariant, LockAgrees, LockIsFree, FinishSaved, FinishSaveFails, Free
<1>2. CASE FinishSaved(t)
  <2>1. Stored' = Stored
    BY <1>1, <1>2 DEF FinishSaved, Stored, Whole
  <2>2. \A u \in Turns \ {t} : worker'[u] = worker[u] /\ status'[u] = status[u]
    BY <1>2 DEF FinishSaved, Invariant, TypeOK
  <2>3. worker'[t] = "finished" /\ status'[t] = "ok"
    BY <1>2 DEF FinishSaved, Invariant, TypeOK
  <2>4. OutcomeOf(t)' = OutcomeOf(t)
    BY <1>1, <2>3 DEF OutcomeOf
  <2>5. \A u \in Turns \ {t} : OutcomeOf(u)' = OutcomeOf(u)
    BY <2>2 DEF OutcomeOf
  <2>6. QED
    BY <1>2, <2>1, <2>4, <2>5, Stutters DEF FinishSaved
<1>3. CASE FinishSaveFails(t)
  <2>1. worker'[t] = "raised" /\ \A u \in Turns \ {t} : worker'[u] = worker[u]
    BY <1>3 DEF FinishSaveFails, Invariant, TypeOK
  <2>2. lock' = Free /\ UNCHANGED <<disk, home, made, status>>
    BY <1>3 DEF FinishSaveFails
  <2>3. Stored' = Nothing
    BY <1>1, <2>2, FailedSave
  <2>4. status[t] # "absent"
    BY <1>1 DEF StatusAgrees
  <2>5. OutcomeOf(t) = "answered" /\ OutcomeOf(t)' = "stuck"
    BY <1>1, <2>1, <2>2, <2>4 DEF OutcomeOf
  <2>6. \A u \in Turns \ {t} : OutcomeOf(u)' = OutcomeOf(u)
    BY <2>1, <2>2 DEF OutcomeOf
  <2>7. QED
    BY <2>2, <2>3, <2>5, <2>6, SameOperators DEF Promise!SaveFails, Promise!StoreNext
<1>4. QED
  BY <1>2, <1>3

\* The turn ends with nothing to save.
LEMMA FinishUnsavedRefines ==
    ASSUME Invariant, NEW t \in Turns, FinishUnsaved(t)
    PROVE  Promise!Reply(t) \/ Promise!Refuse(t)
<1>1. UNCHANGED <<disk, lock, copy, loop, home, made>>
  BY DEF FinishUnsaved
<1>2. Stored' = Stored /\ Stored = Load(disk)
  BY <1>1, StoredStays, StoredWhenFree DEF FinishUnsaved
<1>3. \A u \in Turns \ {t} : worker'[u] = worker[u] /\ status'[u] = status[u]
  BY DEF FinishUnsaved, Invariant, TypeOK
<1>4. /\ worker[t] \in {"failed", "answered"} /\ worker'[t] = "finished"
      /\ status'[t] = IF worker[t] = "answered" THEN "ok" ELSE "error"
      /\ worker[t] = "answered" => home[t] \notin Existing(Load(disk))
  BY DEF FinishUnsaved, Invariant, TypeOK
<1>5. OutcomeOf(t) = "pending"
  BY <1>4 DEF OutcomeOf
<1>6. OutcomeOf(t)' = IF worker[t] = "answered" THEN "answered" ELSE "failed"
  BY <1>4 DEF OutcomeOf
<1>7. \A u \in Turns \ {t} : OutcomeOf(u)' = OutcomeOf(u)
  BY <1>3 DEF OutcomeOf
<1>8. CASE worker[t] = "answered"
  <2>1. [u \in Turns |-> OutcomeOf(u)]' = [[u \in Turns |-> OutcomeOf(u)] EXCEPT ![t] = "answered"]
    BY <1>6, <1>7, <1>8
  <2>2. Promise!Reply(t)
    BY <1>1, <1>2, <1>4, <1>5, <1>8, <2>1, SameOperators DEF Promise!Reply
  <2>3. QED
    BY <2>2
<1>9. CASE worker[t] # "answered"
  <2>1. [u \in Turns |-> OutcomeOf(u)]' = [[u \in Turns |-> OutcomeOf(u)] EXCEPT ![t] = "failed"]
    BY <1>6, <1>7, <1>9
  <2>2. Promise!Refuse(t)
    BY <1>1, <1>2, <1>5, <2>1 DEF Promise!Refuse
  <2>3. QED
    BY <2>2
<1>10. QED
  BY <1>8, <1>9

LEMMA CrashRefines ==
    ASSUME Crash
    PROVE  Promise!Restart
<1>1. Stored' \in {Stored, Nothing}
  <2>1. disk' = disk /\ lock' = Free
    BY DEF Crash
  <2>2. CASE disk.whole
    BY <2>1, <2>2 DEF Stored
  <2>3. CASE ~disk.whole
    BY <2>1, <2>3, NamesAssumption DEF Stored, Free, EventLoop
  <2>4. QED
    BY <2>2, <2>3
<1>2. \A t \in Turns : /\ worker'[t] = IF worker[t] = "unsent" THEN "unsent" ELSE "broken"
                       /\ status'[t] = "absent"
  BY DEF Crash
<1>3. \A t \in Turns : OutcomeOf(t)' = IF OutcomeOf(t) = "unsent" THEN "unsent" ELSE "lost"
  BY <1>2 DEF OutcomeOf
<1>4. QED
  BY <1>1, <1>3, SameOperators DEF Promise!Restart, Crash

LEMMA NextRefines ==
    ASSUME Invariant, Invariant', StatusAgrees, [Next]_vars
    PROVE  [Promise!StoreNext]_(Promise!storeVars)
<1>1. ASSUME NEW t \in Turns, NEW id \in Ids, StartChat(t, id) PROVE Promise!StoreNext
  BY <1>1, StartChatRefines, SameOperators DEF Promise!StoreNext
<1>2. ASSUME NEW b \in Blanks, CreateConversation(b) PROVE Promise!StoreNext
  BY <1>2, CreateRefines DEF Promise!StoreNext
<1>3. ASSUME NEW c \in Ids, DeleteConversation(c) PROVE Promise!StoreNext
  BY <1>3, DeleteRefines, SameOperators DEF Promise!StoreNext
<1>4. CASE LoopSaved \/ LoopSaveFails
  BY <1>4, LoopSavedRefines
<1>5. CASE \/ StartRegisters \/ StartReplies \/ PoolGrants
           \/ \E t \in Turns : \/ WorkerBegins(t) \/ NodeReplies(t) \/ WorkerReturns(t)
                               \/ PollStatus(t) \/ PollReplies(t)
           \/ UNCHANGED vars
  BY <1>5, QuietRefines
<1>6. ASSUME NEW t \in Turns, FinishSaves(t) PROVE Promise!StoreNext
  BY <1>6, FinishSavesRefines DEF Promise!StoreNext
<1>7. ASSUME NEW t \in Turns, FinishSaved(t) \/ FinishSaveFails(t)
      PROVE  [Promise!StoreNext]_(Promise!storeVars)
  BY <1>7, FinishSavedRefines
<1>8. ASSUME NEW t \in Turns, FinishUnsaved(t) PROVE Promise!StoreNext
  BY <1>8, FinishUnsavedRefines DEF Promise!StoreNext
<1>9. CASE Crash
  BY <1>9, CrashRefines DEF Promise!StoreNext
<1>10. QED
  BY <1>1, <1>2, <1>3, <1>4, <1>5, <1>6, <1>7, <1>8, <1>9 DEF Next, Handlers, Finish

\* The gateway implements ChatStore: however handlers, threads, polls and
\* crashes interleave, a turn, a creation or a deletion takes effect in one step
\* (web_app.py:99, 152, 236, 245, each under the lock).
THEOREM StoreIsImplemented == Spec => ImplementsStore
<1>1. Init => Promise!StoreInit
  BY InitRefines
<1>2. Invariant /\ Invariant' /\ StatusAgrees /\ [Next]_vars
      => [Promise!StoreNext]_(Promise!storeVars)
  BY NextRefines
<1>3. QED
  BY <1>1, <1>2, InvariantHolds, StatusHolds, PTL DEF Spec, ImplementsStore, Promise!StoreSpec

\* What ChatStoreProofs shows of every store, for this one.
Kept ==
    INSTANCE ChatStoreProofs WITH
        stored <- Stored, outcome <- [t \in Turns |-> OutcomeOf(t)]

LEMMA KeptInit ==
    ASSUME Promise!StoreInit
    PROVE  Kept!StoreInit
BY DEF Promise!StoreInit, Kept!StoreInit, Promise!Nothing, Kept!Nothing, Promise!Missing,
       Kept!Missing, Promise!Ids, Kept!Ids

LEMMA KeptNext ==
    ASSUME [Promise!StoreNext]_(Promise!storeVars)
    PROVE  [Kept!StoreNext]_(Kept!storeVars)
<1>1. Promise!StoreNext => Kept!StoreNext
  BY DEF Promise!StoreNext, Kept!StoreNext, Promise!Ask, Kept!Ask, Promise!Reply, Kept!Reply,
         Promise!Refuse, Kept!Refuse, Promise!Create, Kept!Create, Promise!Delete, Kept!Delete,
         Promise!Restart, Kept!Restart, Promise!SaveFails, Kept!SaveFails,
         Promise!Existing, Kept!Existing, Promise!Missing,
         Kept!Missing, Promise!Nothing, Kept!Nothing, Promise!Ids, Kept!Ids, Promise!Ensured,
         Kept!Ensured, Promise!WithMessage, Kept!WithMessage, Promise!WithBlank, Kept!WithBlank,
         Promise!Blank, Kept!Blank, Promise!Without, Kept!Without, Promise!Prompt, Kept!Prompt,
         Promise!Answer, Kept!Answer
<1>2. UNCHANGED Promise!storeVars => UNCHANGED Kept!storeVars
  BY DEF Promise!storeVars, Kept!storeVars
<1>3. QED
  BY <1>1, <1>2

LEMMA KeptHistory ==
    ASSUME Kept!NothingTwice, Kept!AnswerAfterPrompt, Kept!HistoryMatchesOutcome
    PROVE  HistorySound
BY DEF HistorySound, Promise!NothingTwice, Kept!NothingTwice, Promise!AnswerAfterPrompt,
       Kept!AnswerAfterPrompt, Promise!HistoryMatchesOutcome, Kept!HistoryMatchesOutcome,
       Promise!History, Kept!History, Promise!Existing, Kept!Existing, Promise!Ids, Kept!Ids,
       Promise!Prompt, Kept!Prompt, Promise!Answer, Kept!Answer

\* The history that clients see is sound, although two threads and the event
\* loop write one file: no message twice, no answer before its prompt, and
\* none of a turn that failed or whose conversation was deleted meanwhile.
THEOREM HistoriesAreSound == Spec => []HistorySound
<1>1. Promise!StoreSpec => Kept!StoreSpec
  BY KeptInit, KeptNext, PTL DEF Promise!StoreSpec, Kept!StoreSpec
<1>2. Kept!StoreSpec => [](Kept!NothingTwice /\ Kept!AnswerAfterPrompt /\ Kept!HistoryMatchesOutcome)
  BY Kept!StoreIsSound, IdsAssumption, PTL
<1>3. QED
  BY <1>1, <1>2, KeptHistory, StoreIsImplemented, PTL DEF ImplementsStore

-----------------------------------------------------------------------------
(* What clients are told agrees with the history.                           *)

\* The status of a turn is "ok" only once its thread has ended with an answer.
OkWhenEnded == \A t \in Turns : status[t] = "ok" => worker[t] \in {"finished", "done"}

\* A client told "ok" has its answer kept, and a restart does not change that.
ToldKept == \A t \in Turns : told[t] = "ok" => Kept!AnswerKept(t)

\* From the save of a prompt to the reply its conversation stays: deletions
\* wait for the loop, and threads only add to it, unless a save fails.
HomeIsStored ==
    loop.turn \in Turns => home[loop.turn] \in Existing(Stored) \/ spent.faults > 0

\* The inductive invariant, relative to Invariant.
ToldInvariant == Kept!StoreInvariant /\ OkWhenEnded /\ ToldKept /\ HomeIsStored

LEMMA ToldInit ==
    ASSUME Init
    PROVE  ToldInvariant
<1>1. Kept!StoreInvariant
  BY InitRefines, KeptInit, Kept!StoreInitInvariant, IdsAssumption
<1>2. OkWhenEnded /\ ToldKept
  BY DEF Init, OkWhenEnded, ToldKept
<1>3. HomeIsStored
  BY NamesAssumption DEF Init, Idle, HomeIsStored
<1>4. QED
  BY <1>1, <1>2, <1>3 DEF ToldInvariant

\* Statuses become "ok" when a thread ends, and ended turns stay ended.
LEMMA OkStep ==
    ASSUME Invariant, OkWhenEnded, [Next]_vars
    PROVE  OkWhenEnded'
<1> USE DEF Invariant, OkWhenEnded
<1>1. ASSUME NEW t \in Turns, NEW id \in Ids, StartChat(t, id) PROVE OkWhenEnded'
  BY <1>1 DEF StartChat, TypeOK
<1>2. CASE LoopSaveFails
  BY <1>2 DEF LoopSaveFails, LoopAgrees
<1>3. CASE StartRegisters \/ StartReplies
  BY <1>3 DEF StartRegisters, StartReplies, TypeOK, LoopAgrees
<1>4. CASE PoolGrants
  <2>1. Head(queue) = queue[1] /\ 1 \in DOMAIN queue
    BY <1>4, JobTaken DEF PoolGrants, TypeOK, Jobs
  <2>2. status' = status
    BY <1>4 DEF PoolGrants
  <2>3. \A t \in Turns : worker'[t] # worker[t] => worker[t] = "waiting"
    BY <1>4, <2>1 DEF PoolGrants, TypeOK, QueueAgrees
  <2>4. QED
    BY <2>2, <2>3
<1>5. ASSUME NEW t \in Turns, Finish(t) PROVE OkWhenEnded'
  <2>1. \A u \in Turns \ {t} : worker'[u] = worker[u] /\ status'[u] = status[u]
    BY <1>5 DEF Finish, WorkerBegins, NodeReplies, FinishSaves, FinishSaved, FinishSaveFails,
                FinishUnsaved, WorkerReturns, TypeOK
  <2>2. status'[t] = "ok" => worker'[t] \in {"finished", "done"}
    BY <1>5 DEF Finish, WorkerBegins, NodeReplies, FinishSaves, FinishSaved, FinishSaveFails,
                FinishUnsaved, WorkerReturns, TypeOK
  <2>3. QED
    BY <2>1, <2>2
<1>6. CASE Crash
  BY <1>6 DEF Crash
<1>7. CASE \/ \E b \in Blanks : CreateConversation(b)
           \/ \E c \in Ids : DeleteConversation(c)
           \/ LoopSaved
           \/ \E t \in Turns : PollStatus(t) \/ PollReplies(t)
           \/ UNCHANGED vars
  <2>1. worker' = worker /\ status' = status
    BY <1>7 DEF CreateConversation, DeleteConversation, LoopSaved, PollStatus, PollReplies, vars
  <2>2. QED
    BY <2>1
<1>8. QED
  BY <1>1, <1>2, <1>3, <1>4, <1>5, <1>6, <1>7 DEF Next, Handlers

\* A client is told "ok" from the status, which says so only of a turn whose
\* answer the history holds; what is kept then stays.
LEMMA ToldStep ==
    ASSUME Invariant, ToldInvariant, [Next]_vars, [Kept!StoreNext]_(Kept!storeVars)
    PROVE  ToldKept'
<1> SUFFICES ASSUME NEW t \in Turns, told'[t] = "ok"
             PROVE  Kept!AnswerKept(t)'
  BY DEF ToldKept
<1> USE DEF ToldInvariant
<1>1. told[t] = "ok" \/ status[t] = "ok"
  <2>1. CASE Handlers
    BY <2>1 DEF Handlers, StartChat, CreateConversation, DeleteConversation, LoopSaved,
                LoopSaveFails, StartRegisters, StartReplies, Invariant, TypeOK, LoopAgrees
  <2>2. CASE \E u \in Turns : Finish(u)
    BY <2>2 DEF Finish, WorkerBegins, NodeReplies, FinishSaves, FinishSaved, FinishSaveFails,
                FinishUnsaved, WorkerReturns, Invariant, TypeOK
  <2>3. CASE \E u \in Turns : PollStatus(u) \/ PollReplies(u)
    BY <2>3 DEF PollStatus, PollReplies, Invariant, TypeOK
  <2>4. CASE PoolGrants \/ Crash \/ UNCHANGED vars
    BY <2>4 DEF PoolGrants, Crash, vars
  <2>5. QED
    BY <2>1, <2>2, <2>3, <2>4 DEF Next
<1>2. CASE told[t] = "ok"
  BY <1>2, Kept!AnswerStays, IdsAssumption DEF ToldKept
<1>3. CASE status[t] = "ok"
  <2>1. OutcomeOf(t) = "answered"
    BY <1>3 DEF OkWhenEnded, OutcomeOf
  <2>2. Kept!AnswerKept(t)
    BY <2>1, Kept!AnsweredIsKept, IdsAssumption
  <2>3. QED
    BY <2>2, Kept!AnswerStays, IdsAssumption
<1>4. QED
  BY <1>1, <1>2, <1>3

LEMMA ToldNext ==
    ASSUME Invariant, Invariant', StatusAgrees, ToldInvariant, [Next]_vars
    PROVE  Kept!StoreInvariant' /\ OkWhenEnded' /\ ToldKept'
<1>1. [Kept!StoreNext]_(Kept!storeVars)
  BY NextRefines, KeptNext
<1>2. Kept!StoreInvariant'
  BY <1>1, Kept!StoreNextInvariant, IdsAssumption DEF ToldInvariant
<1>3. QED
  BY <1>1, <1>2, OkStep, ToldStep DEF ToldInvariant
\* The file has the conversation of the turn that the loop is in.
LEMMA HomeStep ==
    ASSUME Invariant, HomeIsStored, [Next]_vars
    PROVE  HomeIsStored'
<1> USE NamesAssumption DEF HomeIsStored
<1>1. LoopIsFree => loop.turn \notin Turns
  BY DEF LoopIsFree, Idle
<1>2. ASSUME NEW t \in Turns, NEW id \in Ids, StartChat(t, id) PROVE HomeIsStored'
  <2>1. PICK convs : convs = WithMessage(Load(disk), home'[t], Prompt(t))
    OBVIOUS
  <2>2. LoopSaves("starting", t, convs) /\ LockIsFree
    BY <1>2, <2>1 DEF StartChat, LoopSaves
  <2>3. Stored' = convs /\ loop'.turn = t
    BY <2>2, SavesRefine DEF LoopSaves, Saving
  <2>4. home'[t] \in Ids
    BY <1>2, MessagesOfTurns DEF StartChat, Ensured, Invariant, TypeOK
  <2>5. Load(disk) \in Contents
    BY LoadIsContents DEF Invariant
  <2>6. convs[home'[t]].exists
    BY <2>1, <2>4, <2>5 DEF WithMessage, Contents
  <2>7. QED
    BY <2>3, <2>4, <2>6 DEF Existing
<1>3. CASE \/ \E b \in Blanks : CreateConversation(b)
           \/ \E c \in Ids : DeleteConversation(c)
           \/ LoopSaveFails \/ StartReplies \/ PoolGrants \/ Crash
           \/ \E t \in Turns : WorkerReturns(t) \/ PollStatus(t) \/ PollReplies(t)
  <2>1. loop'.turn \notin Turns
    BY <1>1, <1>3 DEF CreateConversation, DeleteConversation, LoopSaves, Saving, LoopSaveFails,
                      StartReplies, PoolGrants, Crash, WorkerReturns, PollStatus, PollReplies, Idle
  <2>2. QED
    BY <2>1
<1>4. CASE LoopSaved
  <2>1. lock = EventLoop /\ ~disk.whole
    BY <1>4 DEF Invariant, LockAgrees, LockIsFree, LoopSaved, Free, EventLoop
  <2>2. Stored' = Stored
    BY <1>4, <2>1 DEF LoopSaved, Stored, Whole
  <2>3. UNCHANGED <<home, spent>> /\ (loop'.turn \in Turns => loop'.turn = loop.turn)
    BY <1>4 DEF LoopSaved, Idle, Invariant, TypeOK
  <2>4. QED
    BY <2>2, <2>3
<1>5. CASE \/ StartRegisters \/ UNCHANGED vars
           \/ \E t \in Turns : WorkerBegins(t) \/ NodeReplies(t) \/ FinishUnsaved(t)
  <2>1. UNCHANGED <<disk, lock, copy, home, spent>> /\ loop'.convs = loop.convs /\ loop'.turn = loop.turn
    BY <1>5 DEF StartRegisters, WorkerBegins, NodeReplies, FinishUnsaved, vars, Invariant, TypeOK
  <2>2. Stored' = Stored
    BY <2>1, StoredStays
  <2>3. QED
    BY <2>1, <2>2
<1>6. ASSUME NEW t \in Turns, FinishSaves(t) PROVE HomeIsStored'
  <2>1. Stored' = WithMessage(Stored, home[t], Answer(t)) /\ UNCHANGED <<home, spent, loop>>
    BY <1>6, AnswerSaved DEF FinishSaves
  <2>2. Stored \in Contents
    BY <1>6, AnswerSaved, LoadIsContents DEF Invariant
  <2>3. Existing(Stored) \subseteq Existing(Stored)'
    BY <2>1, <2>2 DEF Existing, WithMessage, Contents
  <2>4. QED
    BY <2>1, <2>3
<1>7. ASSUME NEW t \in Turns, FinishSaved(t) PROVE HomeIsStored'
  <2>1. lock = t /\ ~disk.whole /\ t # EventLoop
    BY <1>7 DEF Invariant, LockAgrees, LockIsFree, FinishSaved, Free
  <2>2. Stored' = Stored /\ UNCHANGED <<home, spent, loop>>
    BY <1>7, <2>1 DEF FinishSaved, Stored, Whole
  <2>3. QED
    BY <2>2
<1>8. ASSUME NEW t \in Turns, FinishSaveFails(t) PROVE HomeIsStored'
  <2>1. spent'.faults > 0
    BY <1>8, CountIsTyped DEF FinishSaveFails, Invariant
  <2>2. QED
    BY <2>1
<1>9. QED
  BY <1>2, <1>3, <1>4, <1>5, <1>6, <1>7, <1>8 DEF Next, Handlers, Finish

LEMMA ToldInvariantHolds == Spec => []ToldInvariant
<1>1. Init => ToldInvariant
  BY ToldInit
<1>2. Invariant /\ Invariant' /\ StatusAgrees /\ ToldInvariant /\ [Next]_vars => ToldInvariant'
  BY ToldNext, HomeStep DEF ToldInvariant
<1>3. QED
  BY <1>1, <1>2, InvariantHolds, StatusHolds, PTL DEF Spec

\* A client told "ok" (web_app.py:205, 250) finds its answer in the history for
\* as long as the conversation is there, through the saves, failures and
\* restarts that come after.
THEOREM ToldIsTrue == Spec => []ToldMatchesHistory
<1>1. ASSUME ToldInvariant PROVE ToldMatchesHistory
  BY <1>1 DEF ToldInvariant, ToldKept, ToldMatchesHistory, Kept!AnswerKept, Kept!History,
              Kept!Existing, Existing, Kept!Ids, Ids, Kept!Answer, Answer
<1>2. QED
  BY <1>1, ToldInvariantHolds, PTL

\* Only the handler of a turn hands it to the pool, and lists then.
LEMMA ListedStep ==
    ASSUME Invariant, [Next]_vars, NEW t \in Turns,
           worker[t] = "starting", worker'[t] = "waiting"
    PROVE  /\ t = loop.turn /\ loop.op = "registered"
           /\ listing'[t] = Existing(Load(disk))
<1> USE DEF Invariant
<1>1. StartReplies
  <2>1. CASE Handlers
    BY <2>1 DEF Handlers, StartChat, CreateConversation, DeleteConversation, LoopSaved,
                LoopSaveFails, StartRegisters, TypeOK
  <2>2. ~PoolGrants
    BY JobTaken DEF PoolGrants, TypeOK, Jobs, QueueAgrees
  <2>3. \A u \in Turns : ~Finish(u)
    BY DEF Finish, WorkerBegins, NodeReplies, FinishSaves, FinishSaved, FinishSaveFails,
           FinishUnsaved, WorkerReturns, TypeOK
  <2>4. ~Crash /\ ~UNCHANGED vars /\ \A u \in Turns : ~PollStatus(u) /\ ~PollReplies(u)
    BY DEF Crash, PollStatus, PollReplies, vars
  <2>5. QED
    BY <2>1, <2>2, <2>3, <2>4 DEF Next
<1>2. QED
  BY <1>1 DEF StartReplies, TypeOK, LoopAgrees

\* The reply to a turn lists its conversation (web_app.py:185), although the
\* file is read without the lock: another thread must be saving, or a save have
\* failed, for it to be missed.
THEOREM RepliesListTheTurn == Spec => ListingComplete
<1>1. ASSUME Invariant, HomeIsStored, [Next]_vars, NEW t \in Turns,
             worker[t] = "starting", worker'[t] = "waiting"
      PROVE  \/ home[t] \in listing'[t]
             \/ \E u \in Turns : worker[u] = "saving"
             \/ spent.faults > 0
  <2>1. t = loop.turn /\ loop.op = "registered" /\ listing'[t] = Existing(Load(disk))
    BY <1>1, ListedStep
  <2>2. home[t] \in Existing(Stored) \/ spent.faults > 0
    BY <1>1, <2>1 DEF HomeIsStored
  <2>3. lock # EventLoop
    BY <1>1, <2>1 DEF Invariant, LockAgrees, SavingOps
  <2>4. CASE disk.whole
    BY <2>1, <2>2, <2>4 DEF Stored, Load
  <2>5. CASE lock \in Turns
    BY <1>1, <2>5 DEF Invariant, LockAgrees
  <2>6. CASE ~disk.whole /\ lock \notin Turns
    BY <2>2, <2>3, <2>6 DEF Stored, Existing, Nothing, Missing
  <2>7. QED
    BY <2>4, <2>5, <2>6
<1>2. Invariant /\ HomeIsStored /\ [Next]_vars =>
        [\A t \in Turns :
            worker[t] = "starting" /\ worker'[t] = "waiting" =>
                \/ home[t] \in listing'[t]
                \/ \E u \in Turns : worker[u] = "saving"
                \/ spent.faults > 0]_vars
  BY <1>1
<1>3. ToldInvariant => HomeIsStored
  BY DEF ToldInvariant
<1>4. QED
  BY <1>2, <1>3, InvariantHolds, ToldInvariantHolds, PTL DEF Spec, ListingComplete

-----------------------------------------------------------------------------
(* The context window: the messages that go to the network with a prompt.   *)

\* A set of numbers that is not empty has a least one.
LEMMA Least ==
    ASSUME NEW bad \in SUBSET Nat, bad # {}
    PROVE  \E x \in bad : \A y \in bad : ~(y < x)
<1>1. \E x \in bad : \A y \in bad : <<y, x>> \notin OpToRel(<, Nat)
  BY NatLessThanWellFounded, WFMin
<1>2. \A x, y \in Nat : <<y, x>> \in OpToRel(<, Nat) <=> y < x
  BY DEF OpToRel
<1>3. QED
  BY <1>1, <1>2

\* What holds of 0, and of a number when it holds of the one before, holds of
\* all up to n: else there were a least one that it does not hold of.
LEMMA NoneIsBad ==
    ASSUME NEW n \in Nat, NEW bad \in SUBSET (0 .. n),
           0 \notin bad, \A k \in 1 .. n : k - 1 \notin bad => k \notin bad
    PROVE  bad = {}
<1>1. SUFFICES ASSUME bad # {} PROVE FALSE
  OBVIOUS
<1>2. PICK k \in bad : \A y \in bad : ~(y < k)
  BY <1>1, Least
<1>3. k \in 1 .. n /\ k - 1 \notin bad
  BY <1>2
<1>4. QED
  BY <1>2, <1>3

\* f[k] is what k steps make of first.
Iterates(f, n, S, first, next) ==
    /\ f \in [0 .. n -> S]
    /\ f[0] = first
    /\ \A k \in 1 .. n : f[k] = next[<<f[k - 1], k>>]

\* A step that is defined everywhere can be repeated.
LEMMA IterationExists ==
    ASSUME NEW n \in Nat, NEW S, NEW first \in S, NEW next \in [S \X (1 .. n) -> S]
    PROVE  \E f : Iterates(f, n, S, first, next)
<1> DEFINE bad == {k \in 0 .. n : ~\E f : Iterates(f, k, S, first, next)}
<1>1. 0 \notin bad
  <2> DEFINE f == [k \in 0 .. 0 |-> first]
  <2>1. Iterates(f, 0, S, first, next)
    BY DEF Iterates
  <2>2. QED
    BY <2>1
<1>2. ASSUME NEW k \in 1 .. n, k - 1 \notin bad PROVE k \notin bad
  <2>1. k - 1 \in 0 .. n
    OBVIOUS
  <2>2. PICK g : Iterates(g, k - 1, S, first, next)
    BY <1>2, <2>1
  <2> DEFINE last == next[<<g[k - 1], k>>]
             f == [j \in 0 .. k |-> IF j = k THEN last ELSE g[j]]
  <2>3. /\ g \in [0 .. k - 1 -> S] /\ g[0] = first
        /\ \A j \in 1 .. k - 1 : g[j] = next[<<g[j - 1], j>>]
    BY <2>2 DEF Iterates
  <2>4. k - 1 \in 0 .. k - 1 /\ g[k - 1] \in S
    BY <2>3
  <2>5. last \in S
    BY <2>4
  <2> HIDE DEF last
  <2>6. f \in [0 .. k -> S]
    BY <2>3, <2>5
  <2>7. f[0] = first
    BY <2>3
  <2>8. ASSUME NEW j \in 1 .. k PROVE f[j] = next[<<f[j - 1], j>>]
    <3>1. j - 1 \in 0 .. k /\ j - 1 # k /\ f[j - 1] = g[j - 1]
      OBVIOUS
    <3>2. CASE j = k
      <4>1. f[j] = last /\ last = next[<<g[j - 1], j>>]
        BY <3>2 DEF last
      <4>2. QED
        BY <3>1, <4>1
    <3>3. CASE j # k
      <4>1. j \in 1 .. k - 1 /\ f[j] = g[j]
        BY <3>3
      <4>2. QED
        BY <2>3, <3>1, <4>1
    <3>4. QED
      BY <3>2, <3>3
  <2>9. Iterates(f, k, S, first, next)
    <3> HIDE DEF f
    <3>1. QED
      BY <2>6, <2>7, <2>8 DEF Iterates
  <2>10. QED
    BY <2>9
<1> HIDE DEF bad
<1>3. bad = {}
  BY <1>1, <1>2, NoneIsBad DEF bad
<1>4. n \in 0 .. n
  OBVIOUS
<1>5. QED
  BY <1>3, <1>4 DEF bad

-----------------------------------------------------------------------------
(* Messages and blocks.                                                     *)

Sizes == [role : Nat, content : Nat]

LEMMA SizesOfMessages ==
    ASSUME NEW messages \in Seq(Sizes)
    PROVE  /\ Len(messages) \in Nat /\ DOMAIN messages = 1 .. Len(messages)
           /\ \A i \in 1 .. Len(messages) :
                /\ messages[i].role \in Nat /\ messages[i].content \in Nat
                /\ BlockChars(messages[i]) \in Nat
<1>1. Len(messages) \in Nat /\ DOMAIN messages = 1 .. Len(messages)
  BY LenProperties
<1>2. \A i \in 1 .. Len(messages) : messages[i] \in Sizes
  BY ElementOfSeq
<1>3. QED
  BY <1>1, <1>2 DEF Sizes, BlockChars

\* The recursive function that NewestChars defines exists, and its values are
\* what its definition says.
LEMMA CharsOfMessages ==
    ASSUME NEW messages \in Seq(Sizes)
    PROVE  LET n == Len(messages)
               chars == NewestChars(messages)
           IN  /\ chars \in [0 .. n -> Nat] /\ chars[0] = 0
               /\ \A k \in 1 .. n : chars[k] = chars[k - 1] + BlockChars(messages[n + 1 - k])
<1> DEFINE n == Len(messages)
           next == [p \in Nat \X (1 .. n) |-> p[1] + BlockChars(messages[n + 1 - p[2]])]
           block(k) == BlockChars(messages[n + 1 - k])
<1>1. n \in Nat /\ \A k \in 1 .. n : block(k) \in Nat
  BY SizesOfMessages
<1>2. next \in [Nat \X (1 .. n) -> Nat]
  <2> HIDE DEF n
  <2> SUFFICES ASSUME NEW p \in Nat \X (1 .. n)
               PROVE  p[1] + BlockChars(messages[n + 1 - p[2]]) \in Nat
    OBVIOUS
  <2>1. p[1] \in Nat /\ p[2] \in 1 .. n /\ block(p[2]) \in Nat
    BY <1>1
  <2>2. QED
    BY <2>1
<1> HIDE DEF n, next
<1>3. PICK f : Iterates(f, n, Nat, 0, next)
  BY <1>1, <1>2, IterationExists
<1>4. \A k \in 1 .. n : f[k] = f[k - 1] + block(k)
  <2> SUFFICES ASSUME NEW k \in 1 .. n PROVE f[k] = f[k - 1] + block(k)
    OBVIOUS
  <2>1. k - 1 \in 0 .. n
    BY <1>1
  <2>2. <<f[k - 1], k>> \in Nat \X (1 .. n) /\ f[k] = next[<<f[k - 1], k>>]
    BY <1>3, <2>1 DEF Iterates
  <2>3. next[<<f[k - 1], k>>] = <<f[k - 1], k>>[1] + block(<<f[k - 1], k>>[2])
    BY <2>2 DEF next
  <2>4. QED
    BY <2>2, <2>3
<1>5. f = [k \in 0 .. n |-> IF k = 0 THEN 0 ELSE f[k - 1] + block(k)]
  <2>1. f = [k \in 0 .. n |-> f[k]] /\ f[0] = 0
    BY <1>3 DEF Iterates
  <2>2. \A k \in 0 .. n : k # 0 => k \in 1 .. n
    BY <1>1
  <2> HIDE DEF block
  <2>3. \A k \in 0 .. n : f[k] = IF k = 0 THEN 0 ELSE f[k - 1] + block(k)
    BY <1>4, <2>1, <2>2
  <2>4. QED
    BY <2>1, <2>3
<1> DEFINE chars == NewestChars(messages)
<1>6. chars = [k \in 0 .. n |-> IF k = 0 THEN 0 ELSE chars[k - 1] + block(k)]
  BY <1>5 DEF NewestChars, n
<1>7. chars[0] = 0 /\ \A k \in 1 .. n : chars[k] = chars[k - 1] + block(k)
  <2> HIDE DEF chars, block
  <2>1. 0 \in 0 .. n /\ \A k \in 1 .. n : k \in 0 .. n /\ k # 0
    BY <1>1
  <2>2. QED
    BY <1>6, <2>1
<1>8. \A k \in 0 .. n : chars[k] \in Nat
  <2> DEFINE bad == {k \in 0 .. n : chars[k] \notin Nat}
  <2> HIDE DEF chars, block
  <2>1. 0 \notin bad
    BY <1>7
  <2>2. ASSUME NEW k \in 1 .. n, k - 1 \notin bad PROVE k \notin bad
    <3>1. k - 1 \in 0 .. n
      BY <1>1
    <3>2. chars[k - 1] \in Nat /\ block(k) \in Nat
      BY <1>1, <2>2, <3>1
    <3>3. QED
      BY <1>7, <3>2
  <2> HIDE DEF bad
  <2>3. bad = {}
    BY <1>1, <2>1, <2>2, NoneIsBad DEF bad
  <2>4. QED
    BY <2>3 DEF bad
<1>9. chars \in [0 .. n -> Nat]
  <2> HIDE DEF chars, block
  <2>1. chars = [k \in 0 .. n |-> chars[k]]
    <3> DEFINE h == [k \in 0 .. n |-> IF k = 0 THEN 0 ELSE chars[k - 1] + block(k)]
    <3>1. h = [k \in 0 .. n |-> h[k]]
      OBVIOUS
    <3> HIDE DEF h
    <3>2. QED
      BY <1>6, <3>1 DEF h
  <2>2. QED
    BY <1>8, <2>1
<1>10. QED
  BY <1>7, <1>9 DEF n

\* More messages are more characters.
LEMMA CharsIncrease ==
    ASSUME NEW messages \in Seq(Sizes),
           NEW j \in 0 .. Len(messages), NEW k \in 0 .. Len(messages), j <= k
    PROVE  NewestChars(messages)[j] <= NewestChars(messages)[k]
<1> DEFINE n == Len(messages)
           chars == NewestChars(messages)
           bad == {i \in 0 .. n : j <= i /\ ~(chars[j] <= chars[i])}
<1>1. n \in Nat /\ chars \in [0 .. n -> Nat]
  BY SizesOfMessages, CharsOfMessages
<1>2. \A i \in 1 .. n : chars[i - 1] <= chars[i]
  <2> SUFFICES ASSUME NEW i \in 1 .. n PROVE chars[i - 1] <= chars[i]
    OBVIOUS
  <2>1. chars[i] = chars[i - 1] + BlockChars(messages[n + 1 - i])
    BY CharsOfMessages
  <2>2. n + 1 - i \in 1 .. n /\ i - 1 \in 0 .. n
    BY <1>1
  <2>3. BlockChars(messages[n + 1 - i]) \in Nat
    BY <2>2, SizesOfMessages
  <2>4. chars[i - 1] \in Nat
    BY <1>1, <2>2
  <2> HIDE DEF chars
  <2>5. QED
    BY <2>1, <2>3, <2>4
<1> HIDE DEF chars
<1>3. 0 \notin bad
  BY <1>1
<1>4. ASSUME NEW i \in 1 .. n, i - 1 \notin bad PROVE i \notin bad
  <2>1. i - 1 \in 0 .. n /\ chars[i - 1] \in Nat /\ chars[i] \in Nat /\ chars[j] \in Nat
    BY <1>1
  <2>2. CASE j <= i - 1
    BY <1>2, <1>4, <2>1, <2>2
  <2>3. CASE ~(j <= i - 1)
    BY <1>1, <2>1, <2>3
  <2>4. QED
    BY <2>2, <2>3
<1> HIDE DEF bad
<1>5. bad = {}
  <2>1. bad \in SUBSET (0 .. n)
    BY DEF bad
  <2>2. QED
    BY <1>1, <1>3, <1>4, <2>1, NoneIsBad
<1>6. QED
  BY <1>5 DEF bad, n, chars

\* The newest k contents, one by one.
LEMMA NewestContents ==
    ASSUME NEW messages \in Seq(Sizes), NEW k \in 0 .. Len(messages)
    PROVE  /\ Newest(messages, k) \in Seq(Int) /\ Len(Newest(messages, k)) = k
           /\ \A i \in 1 .. k :
                Newest(messages, k)[i] = messages[Len(messages) - k + i].content
<1> DEFINE n == Len(messages)
           e(i) == messages[n - k + i].content
<1>1. n \in Nat /\ k \in Nat
  BY SizesOfMessages
<1>2. \A i \in 1 .. k : n - k + i \in 1 .. n
  BY <1>1
<1>3. \A i \in 1 .. k : e(i) \in Int
  BY <1>2, SizesOfMessages
<1>4. Newest(messages, k) = [i \in 1 .. k |-> e(i)]
  BY DEF Newest
<1> HIDE DEF e
<1>5. [i \in 1 .. k |-> e(i)] \in Seq(Int)
  BY <1>1, <1>3, IsASeq
<1>6. Len([i \in 1 .. k |-> e(i)]) = k
  BY <1>1, <1>5, LenProperties
<1>7. \A i \in 1 .. k : [j \in 1 .. k |-> e(j)][i] = e(i)
  OBVIOUS
<1>8. QED
  BY <1>4, <1>5, <1>6, <1>7 DEF e

LEMMA OneMoreOfTheNewest ==
    ASSUME NEW messages \in Seq(Sizes), NEW k \in 1 .. Len(messages)
    PROVE  /\ <<messages[Len(messages) + 1 - k].content>> \o Newest(messages, k - 1)
                = Newest(messages, k)
           /\ Newest(messages, k - 1) = <<>> <=> k = 1
<1> DEFINE n == Len(messages)
           head == <<messages[n + 1 - k].content>>
           tail == Newest(messages, k - 1)
           all == Newest(messages, k)
<1>1. n \in Nat /\ k - 1 \in 0 .. n /\ k \in 0 .. n /\ n + 1 - k \in 1 .. n
      /\ k \in Nat /\ 1 <= k
  BY SizesOfMessages
<1>2. head \in Seq(Int) /\ Len(head) = 1 /\ head[1] = messages[n + 1 - k].content
  BY <1>1, SizesOfMessages
<1>3. /\ tail \in Seq(Int) /\ Len(tail) = k - 1
      /\ \A i \in 1 .. k - 1 : tail[i] = messages[n - (k - 1) + i].content
  BY <1>1, NewestContents
<1>4. /\ all \in Seq(Int) /\ Len(all) = k
      /\ \A i \in 1 .. k : all[i] = messages[n - k + i].content
  BY <1>1, NewestContents
<1> HIDE DEF n, head, tail, all
<1>5. /\ head \o tail \in Seq(Int) /\ Len(head \o tail) = k
      /\ \A i \in 1 .. k : (head \o tail)[i] = IF i <= 1 THEN head[i] ELSE tail[i - 1]
  <2>1. /\ head \o tail \in Seq(Int) /\ Len(head \o tail) = Len(head) + Len(tail)
        /\ \A i \in 1 .. Len(head) + Len(tail) :
              (head \o tail)[i] = IF i <= Len(head) THEN head[i] ELSE tail[i - Len(head)]
    BY <1>2, <1>3, ConcatProperties
  <2>2. Len(head) + Len(tail) = k
    BY <1>1, <1>2, <1>3
  <2>3. QED
    BY <1>2, <2>1, <2>2
<1>6. \A i \in 1 .. k : (head \o tail)[i] = all[i]
  <2> SUFFICES ASSUME NEW i \in 1 .. k PROVE (head \o tail)[i] = all[i]
    OBVIOUS
  <2>1. CASE i = 1
    <3>1. (head \o tail)[i] = IF i <= 1 THEN head[i] ELSE tail[i - 1]
      BY <1>5
    <3>2. (head \o tail)[i] = head[1]
      BY <2>1, <3>1
    <3>3. n + 1 - k = n - k + 1
      BY <1>1
    <3>4. QED
      BY <1>2, <1>4, <2>1, <3>2, <3>3
  <2>2. CASE i # 1
    <3>1. i - 1 \in 1 .. k - 1 /\ ~(i <= 1)
      BY <2>2
    <3>2. (head \o tail)[i] = tail[i - 1]
      BY <1>5, <3>1
    <3>3. n - (k - 1) + (i - 1) = n - k + i
      BY <1>1, <3>1
    <3>4. QED
      BY <1>3, <1>4, <3>1, <3>2, <3>3
  <2>3. QED
    BY <2>1, <2>2
<1>7. head \o tail = all
  BY <1>4, <1>5, <1>6, SeqEqual
<1>8. tail = <<>> <=> k = 1
  BY <1>3, EmptySeq
<1>9. QED
  BY <1>7, <1>8 DEF n, head, tail, all

-----------------------------------------------------------------------------
(* The loop.                                                               *)

LoopStates == [kept : Seq(Int), used : Int, chat : Int, truncated : BOOLEAN]

LEMMA TakeIsTyped ==
    ASSUME NEW state \in LoopStates, NEW m \in Sizes, NEW remaining \in Int
    PROVE  Take(state, m, remaining) \in LoopStates
<1> DEFINE room == remaining - state.used - m.role - 2 - 1
<1>1. /\ state.used \in Int /\ state.chat \in Int /\ m.role \in Nat /\ m.content \in Nat
      /\ state.kept \in Seq(Int)
  BY DEF LoopStates, Sizes
<1>2. room \in Int /\ BlockChars(m) \in Int
  BY <1>1 DEF BlockChars
<1>3. <<m.content>> \o state.kept \in Seq(Int) /\ <<room>> \o state.kept \in Seq(Int)
  <2>1. <<m.content>> \in Seq(Int) /\ <<room>> \in Seq(Int)
    BY <1>1, <1>2
  <2>2. QED
    BY <1>1, <2>1, ConcatProperties
<1>4. /\ state.used + BlockChars(m) \in Int
      /\ state.chat + m.content \in Int /\ state.chat + room \in Int
  <2> HIDE DEF room
  <2>1. state.used + BlockChars(m) \in Int
    BY <1>1, <1>2
  <2>2. state.chat + m.content \in Int
    BY <1>1
  <2>3. state.chat + room \in Int
    BY <1>1, <1>2
  <2>4. QED
    BY <2>1, <2>2, <2>3
<1>5. QED
  BY <1>3, <1>4 DEF Take, LoopStates

\* The function that Selected defines exists: Selected is its value at the end.
LEMMA SelectedIsTheLoop ==
    ASSUME NEW messages \in Seq(Sizes), NEW remaining \in Int
    PROVE  \E f : /\ f \in [0 .. Len(messages) -> LoopStates] /\ f[0] = Loop
                  /\ \A k \in 1 .. Len(messages) :
                        f[k] = Take(f[k - 1], messages[Len(messages) + 1 - k], remaining)
                  /\ Selected(messages, remaining) = f[Len(messages)]
<1> DEFINE n == Len(messages)
           take(x, k) == Take(x, messages[n + 1 - k], remaining)
           next == [p \in LoopStates \X (1 .. n) |-> take(p[1], p[2])]
           after == CHOOSE f : f = [k \in 0 .. n |-> IF k = 0 THEN Loop ELSE take(f[k - 1], k)]
<1>1. n \in Nat /\ \A k \in 1 .. n : n + 1 - k \in 1 .. n
  BY SizesOfMessages
<1>2. \A x \in LoopStates, k \in 1 .. n : take(x, k) \in LoopStates
  <2> SUFFICES ASSUME NEW x \in LoopStates, NEW k \in 1 .. n PROVE take(x, k) \in LoopStates
    OBVIOUS
  <2>1. messages[n + 1 - k] \in Sizes
    BY <1>1, ElementOfSeq
  <2>2. QED
    BY <2>1, TakeIsTyped
<1>3. Loop \in LoopStates
  BY EmptySeq DEF Loop, LoopStates
<1>4. Selected(messages, remaining) = after[n]
  BY DEF Selected
<1> HIDE DEF n, take
<1>5. next \in [LoopStates \X (1 .. n) -> LoopStates]
  BY <1>2
<1> HIDE DEF next
<1>6. PICK f : Iterates(f, n, LoopStates, Loop, next)
  BY <1>1, <1>3, <1>5, IterationExists
<1>7. \A k \in 1 .. n : f[k] = take(f[k - 1], k)
  <2> SUFFICES ASSUME NEW k \in 1 .. n PROVE f[k] = take(f[k - 1], k)
    OBVIOUS
  <2>1. k - 1 \in 0 .. n
    BY <1>1
  <2>2. <<f[k - 1], k>> \in LoopStates \X (1 .. n) /\ f[k] = next[<<f[k - 1], k>>]
    BY <1>6, <2>1 DEF Iterates
  <2>3. next[<<f[k - 1], k>>] = take(<<f[k - 1], k>>[1], <<f[k - 1], k>>[2])
    BY <2>2 DEF next
  <2>4. QED
    BY <2>2, <2>3
<1>8. f = [k \in 0 .. n |-> f[k]] /\ f[0] = Loop
  BY <1>6 DEF Iterates
<1>9. \A k \in 0 .. n : f[k] = IF k = 0 THEN Loop ELSE take(f[k - 1], k)
  <2>1. \A k \in 0 .. n : k # 0 => k \in 1 .. n
    BY <1>1
  <2>2. QED
    BY <1>7, <1>8, <2>1
<1>10. f = [k \in 0 .. n |-> IF k = 0 THEN Loop ELSE take(f[k - 1], k)]
  BY <1>8, <1>9
<1>11. after = [k \in 0 .. n |-> IF k = 0 THEN Loop ELSE take(after[k - 1], k)]
  BY <1>10
<1> HIDE DEF after
<1>12. after[0] = Loop /\ \A k \in 1 .. n : after[k] = take(after[k - 1], k)
  <2>1. 0 \in 0 .. n /\ \A k \in 1 .. n : k \in 0 .. n /\ k # 0
    BY <1>1
  <2>2. QED
    BY <1>11, <2>1
<1>13. \A k \in 0 .. n : after[k] \in LoopStates
  <2> DEFINE bad == {k \in 0 .. n : after[k] \notin LoopStates}
  <2>1. 0 \notin bad
    BY <1>3, <1>12
  <2>2. ASSUME NEW k \in 1 .. n, k - 1 \notin bad PROVE k \notin bad
    <3>1. k - 1 \in 0 .. n
      BY <1>1
    <3>2. after[k - 1] \in LoopStates
      BY <2>2, <3>1
    <3>3. QED
      BY <1>2, <1>12, <3>2
  <2> HIDE DEF bad
  <2>3. bad = {}
    BY <1>1, <2>1, <2>2, NoneIsBad DEF bad
  <2>4. QED
    BY <2>3 DEF bad
<1>14. after \in [0 .. n -> LoopStates]
  <2> DEFINE h == [k \in 0 .. n |-> IF k = 0 THEN Loop ELSE take(after[k - 1], k)]
  <2>1. h = [k \in 0 .. n |-> h[k]]
    OBVIOUS
  <2> HIDE DEF h
  <2>2. after = [k \in 0 .. n |-> after[k]]
    BY <1>11, <2>1 DEF h
  <2>3. QED
    BY <1>13, <2>2
<1>15. QED
  BY <1>4, <1>12, <1>14 DEF n, take

\* The end of the newest message, when there is no room for all of it.
RoomOf(messages, remaining) == remaining - messages[Len(messages)].role - 3

\* The loop ended at the message after the newest m: they are what is kept, or
\* m is 0 and the room there is holds the end of the newest.
Ended(state, m, messages, remaining) ==
    /\ NewestChars(messages)[m + 1] > remaining
    /\ m > 0 => NewestChars(messages)[m] <= remaining
    /\ \/ /\ state.kept = Newest(messages, m)
          /\ state.used = NewestChars(messages)[m]
          /\ m = 0 => RoomOf(messages, remaining) <= MinRoom
       \/ /\ m = 0
          /\ state.kept = <<RoomOf(messages, remaining)>>
          /\ state.used = remaining
          /\ RoomOf(messages, remaining) > MinRoom

\* The state of the loop after k messages.
After(state, k, messages, remaining) ==
    \/ /\ state.truncated = FALSE
       /\ state.kept = Newest(messages, k)
       /\ state.used = NewestChars(messages)[k]
       /\ k > 0 => NewestChars(messages)[k] <= remaining
    \/ /\ state.truncated = TRUE
       /\ \E m \in 0 .. k - 1 : Ended(state, m, messages, remaining)

LEMMA TakeKeepsAfter ==
    ASSUME NEW messages \in Seq(Sizes), NEW remaining \in Int,
           NEW k \in 1 .. Len(messages), NEW state \in LoopStates,
           After(state, k - 1, messages, remaining)
    PROVE  After(Take(state, messages[Len(messages) + 1 - k], remaining),
                 k, messages, remaining)
<1> DEFINE n == Len(messages)
           chars == NewestChars(messages)
           m == messages[n + 1 - k]
           room == remaining - state.used - m.role - 2 - 1
           next == Take(state, m, remaining)
           older == Newest(messages, k - 1)
<1>1. /\ n \in Nat /\ k - 1 \in 0 .. n /\ k \in 0 .. n /\ n + 1 - k \in 1 .. n
      /\ k \in Nat /\ 1 <= k
  BY SizesOfMessages
<1>2. m.role \in Nat /\ m.content \in Nat /\ BlockChars(m) \in Nat
  BY <1>1, SizesOfMessages
<1>3. chars[k - 1] \in Nat /\ chars[k] \in Nat /\ chars[k] = chars[k - 1] + BlockChars(m)
  <2>1. chars \in [0 .. n -> Nat] /\ chars[k] = chars[k - 1] + BlockChars(m)
    BY CharsOfMessages
  <2> HIDE DEF chars, n, m
  <2>2. QED
    BY <1>1, <2>1
<1>4. state = [kept |-> state.kept, used |-> state.used, chat |-> state.chat,
              truncated |-> state.truncated]
  BY DEF LoopStates
<1>5. <<m.content>> \o older = Newest(messages, k) /\ (older = <<>> <=> k = 1)
  BY OneMoreOfTheNewest
<1>6. chars[0] = 0
  BY CharsOfMessages
<1> HIDE DEF n, chars, older
<1>7. CASE state.truncated = TRUE
  <2>1. next = state
    BY <1>7 DEF Take
  <2>2. PICK e \in 0 .. k - 2 : Ended(state, e, messages, remaining)
    <3>1. \E e \in 0 .. (k - 1) - 1 : Ended(state, e, messages, remaining)
      BY <1>7 DEF After
    <3>2. QED
      BY <1>1, <3>1
  <2>3. e \in 0 .. k - 1
    BY <1>1
  <2>4. QED
    BY <1>7, <2>1, <2>2, <2>3 DEF After, n
<1>8. CASE state.truncated = FALSE
  <2>1. /\ state.kept = older /\ state.used = chars[k - 1]
        /\ k - 1 > 0 => chars[k - 1] <= remaining
    BY <1>8 DEF After, chars, older
  <2>2. CASE state.used + BlockChars(m) <= remaining
    <3>1. /\ next.truncated = FALSE /\ next.kept = <<m.content>> \o state.kept
          /\ next.used = state.used + BlockChars(m)
      <4> HIDE DEF m
      <4>1. QED
        BY <1>4, <1>8, <2>2 DEF Take
    <3> HIDE DEF next, m
    <3>2. next.kept = Newest(messages, k) /\ next.used = chars[k] /\ chars[k] <= remaining
      BY <1>3, <1>5, <2>1, <2>2, <3>1
    <3>3. After(next, k, messages, remaining)
      BY <3>1, <3>2 DEF After, chars
    <3>4. QED
      BY <3>3 DEF next, m, n
  <2>3. CASE ~(state.used + BlockChars(m) <= remaining)
    <3>1. next.truncated = TRUE
      <4> HIDE DEF m, room
      <4>1. CASE room > MinRoom /\ state.kept = <<>>
        BY <1>4, <1>8, <2>3, <4>1 DEF Take, room
      <4>2. CASE ~(room > MinRoom /\ state.kept = <<>>)
        BY <1>4, <1>8, <2>3, <4>2 DEF Take, room
      <4>3. QED
        BY <4>1, <4>2
    <3>2. k - 1 \in 0 .. k - 1 /\ (k - 1) + 1 = k /\ (k - 1 = 0 <=> k = 1)
      BY <1>1
    <3>3. chars[k] > remaining
      <4> HIDE DEF m
      <4>1. QED
        BY <1>2, <1>3, <2>1, <2>3
    <3>4. k = 1 => room = RoomOf(messages, remaining) /\ state.used = 0
      <4>1. k = 1 => state.used = 0
        BY <1>6, <2>1
      <4>2. k = 1 => m = messages[n]
        BY <1>1
      <4> HIDE DEF m
      <4>3. QED
        BY <1>2, <4>1, <4>2 DEF RoomOf, n
    <3>5. CASE room > MinRoom /\ state.kept = <<>>
      <4>1. next.kept = <<room>> \o <<>> /\ next.used = remaining
        <5> HIDE DEF m, room
        <5>1. QED
          BY <1>4, <1>8, <2>3, <3>5 DEF Take, room
      <4>2. k = 1
        BY <1>5, <2>1, <3>5
      <4>3. room \in Int
        <5> HIDE DEF m
        <5>1. state.used \in Int
          BY DEF LoopStates
        <5>2. QED
          BY <1>2, <5>1
      <4>4. <<room>> \o <<>> = <<room>>
        <5> HIDE DEF room
        <5>1. <<room>> \in Seq(Int)
          BY <4>3
        <5>2. QED
          BY <5>1, ConcatEmptySeq
      <4> HIDE DEF next, room, m
      <4>5. Ended(next, 0, messages, remaining)
        <5>1. chars[0 + 1] > remaining
          BY <3>3, <4>2
        <5>2. QED
          BY <3>4, <3>5, <4>1, <4>2, <4>4, <5>1 DEF Ended, chars
      <4>6. After(next, k, messages, remaining)
        BY <3>1, <3>2, <4>2, <4>5 DEF After
      <4>7. QED
        BY <4>6 DEF next, m, n
    <3>6. CASE ~(room > MinRoom /\ state.kept = <<>>)
      <4>1. next.kept = state.kept /\ next.used = state.used
        <5> HIDE DEF m, room
        <5>1. QED
          BY <1>4, <1>8, <2>3, <3>6 DEF Take, room
      <4>2. k = 1 => RoomOf(messages, remaining) <= MinRoom
        <5>1. state.used \in Int
          BY DEF LoopStates
        <5>2. room \in Int
          <6> HIDE DEF m
          <6>1. QED
            BY <1>2, <5>1
        <5> HIDE DEF room
        <5>3. QED
          BY <1>5, <2>1, <3>4, <3>6, <5>2 DEF MinRoom
      <4> HIDE DEF next, room, m
      <4>3. Ended(next, k - 1, messages, remaining)
        BY <2>1, <3>2, <3>3, <4>1, <4>2 DEF Ended, chars, older
      <4>4. After(next, k, messages, remaining)
        BY <3>1, <3>2, <4>3 DEF After
      <4>5. QED
        BY <4>4 DEF next, m, n
    <3>7. QED
      BY <3>5, <3>6
  <2>4. QED
    BY <2>2, <2>3
<1>9. QED
  BY <1>7, <1>8 DEF LoopStates

\* So the loop ends as it should.
LEMMA SelectedIsAfter ==
    ASSUME NEW messages \in Seq(Sizes), NEW remaining \in Int
    PROVE  /\ Selected(messages, remaining) \in LoopStates
           /\ After(Selected(messages, remaining), Len(messages), messages, remaining)
<1> DEFINE n == Len(messages)
<1>1. n \in Nat
  BY SizesOfMessages
<1>2. PICK f : /\ f \in [0 .. n -> LoopStates] /\ f[0] = Loop
               /\ \A k \in 1 .. n : f[k] = Take(f[k - 1], messages[n + 1 - k], remaining)
               /\ Selected(messages, remaining) = f[n]
  BY SelectedIsTheLoop
<1> DEFINE bad == {k \in 0 .. n : ~After(f[k], k, messages, remaining)}
<1>3. 0 \notin bad
  <2>1. NewestChars(messages)[0] = 0
    BY CharsOfMessages
  <2>2. Newest(messages, 0) = <<>>
    <3>1. 0 \in 0 .. n
      BY <1>1
    <3>2. Newest(messages, 0) \in Seq(Int) /\ Len(Newest(messages, 0)) = 0
      BY <3>1, NewestContents
    <3>3. QED
      BY <3>2, EmptySeq
  <2>3. After(Loop, 0, messages, remaining)
    BY <2>1, <2>2 DEF After, Loop
  <2>4. QED
    BY <1>2, <2>3
<1>4. ASSUME NEW k \in 1 .. n, k - 1 \notin bad PROVE k \notin bad
  <2>1. k - 1 \in 0 .. n
    BY <1>1
  <2>2. f[k - 1] \in LoopStates /\ After(f[k - 1], k - 1, messages, remaining)
    BY <1>2, <1>4, <2>1
  <2>3. After(Take(f[k - 1], messages[n + 1 - k], remaining), k, messages, remaining)
    BY <2>2, TakeKeepsAfter
  <2>4. QED
    BY <1>2, <2>3
<1>5. bad = {}
  <2>1. bad \in SUBSET (0 .. n)
    OBVIOUS
  <2> HIDE DEF bad
  <2>2. QED
    BY <1>1, <1>3, <1>4, <2>1, NoneIsBad
<1>6. n \in 0 .. n
  BY <1>1
<1>7. QED
  BY <1>2, <1>5, <1>6

\* The newest k messages, as they are sent, take what NewestChars says.
LEMMA CharsOfSent ==
    ASSUME NEW messages \in Seq(Sizes), NEW k \in 0 .. Len(messages), NEW kept,
           kept = Newest(messages, k)
    PROVE  NewestChars([i \in 1 .. k |->
                [role |-> messages[Len(messages) - k + i].role, content |-> kept[i]]])[k]
             = NewestChars(messages)[k]
<1> DEFINE n == Len(messages)
           e(i) == [role |-> messages[n - k + i].role, content |-> kept[i]]
           sent == [i \in 1 .. k |-> e(i)]
           sum == NewestChars(messages)
           sentSum == NewestChars(sent)
<1>1. n \in Nat /\ k \in Nat /\ k <= n
  BY SizesOfMessages
<1>2. \A i \in 1 .. k : n - k + i \in 1 .. n
  BY <1>1
<1>3. \A i \in 1 .. k : e(i) = messages[n - k + i] /\ e(i) \in Sizes
  <2> SUFFICES ASSUME NEW i \in 1 .. k PROVE e(i) = messages[n - k + i] /\ e(i) \in Sizes
    OBVIOUS
  <2>1. messages[n - k + i] \in Sizes
    BY <1>2, ElementOfSeq
  <2>2. kept[i] = messages[n - k + i].content
    BY NewestContents
  <2>3. QED
    BY <2>1, <2>2 DEF Sizes
<1> HIDE DEF e
<1>4. sent \in Seq(Sizes)
  BY <1>1, <1>3, IsASeq
<1>5. Len(sent) = k /\ \A i \in 1 .. k : sent[i] = e(i)
  BY <1>1, <1>4, LenProperties
<1>6. /\ sentSum \in [0 .. k -> Nat] /\ sentSum[0] = 0
      /\ \A j \in 1 .. k : sentSum[j] = sentSum[j - 1] + BlockChars(sent[k + 1 - j])
  <2> HIDE DEF sent
  <2>1. QED
    BY <1>4, <1>5, CharsOfMessages
<1>7. /\ sum[0] = 0
      /\ \A j \in 1 .. n : sum[j] = sum[j - 1] + BlockChars(messages[n + 1 - j])
  BY CharsOfMessages
<1> HIDE DEF n, sent, sum, sentSum
<1>8. \A j \in 1 .. k : sent[k + 1 - j] = messages[n + 1 - j]
  <2> SUFFICES ASSUME NEW j \in 1 .. k PROVE sent[k + 1 - j] = messages[n + 1 - j]
    OBVIOUS
  <2>1. k + 1 - j \in 1 .. k /\ n - k + (k + 1 - j) = n + 1 - j
    BY <1>1
  <2>2. QED
    BY <1>3, <1>5, <2>1
<1> DEFINE bad == {j \in 0 .. k : sentSum[j] # sum[j]}
<1>9. 0 \notin bad
  BY <1>6, <1>7
<1>10. ASSUME NEW j \in 1 .. k, j - 1 \notin bad PROVE j \notin bad
  <2>1. j - 1 \in 0 .. k /\ j \in 1 .. n
    BY <1>1
  <2>2. sentSum[j - 1] = sum[j - 1]
    BY <1>10, <2>1
  <2>3. QED
    BY <1>6, <1>7, <1>8, <2>1, <2>2
<1>11. bad = {}
  <2>1. bad \in SUBSET (0 .. k)
    OBVIOUS
  <2> HIDE DEF bad
  <2>2. QED
    BY <1>1, <1>9, <1>10, <2>1, NoneIsBad
<1>12. k \in 0 .. k
  BY <1>1
<1>13. QED
  BY <1>11, <1>12 DEF sum, sentSum, sent, e, n

\* The most messages there is room for.
LEMMA MostThatFit ==
    ASSUME NEW messages \in Seq(Sizes), NEW remaining \in Int,
           NEW m \in 0 .. Len(messages),
           m > 0 => NewestChars(messages)[m] <= remaining,
           m < Len(messages) => NewestChars(messages)[m + 1] > remaining
    PROVE  Max({k \in 0 .. Len(messages) :
                    k = 0 \/ NewestChars(messages)[k] <= remaining}) = m
<1> DEFINE n == Len(messages)
           chars == NewestChars(messages)
           fits == {k \in 0 .. n : k = 0 \/ chars[k] <= remaining}
<1>1. n \in Nat /\ chars \in [0 .. n -> Nat]
  BY SizesOfMessages, CharsOfMessages
<1>2. m \in fits
  OBVIOUS
<1>3. ASSUME NEW k \in fits PROVE m >= k
  <2>1. SUFFICES ASSUME m < k PROVE FALSE
    BY <1>1, <1>3
  <2>2. k \in 0 .. n /\ chars[k] <= remaining /\ m + 1 \in 0 .. n /\ m + 1 <= k /\ m < n
    BY <1>1, <2>1
  <2>3. chars[m + 1] <= chars[k]
    BY <2>2, CharsIncrease
  <2>4. chars[k] \in Nat /\ chars[m + 1] \in Nat /\ chars[m + 1] > remaining
    BY <1>1, <2>2
  <2> HIDE DEF chars
  <2>5. QED
    BY <2>2, <2>3, <2>4
<1> HIDE DEF n, chars
<1>4. \A k \in fits : (\A j \in fits : k >= j) => k = m
  <2> SUFFICES ASSUME NEW k \in fits, \A j \in fits : k >= j PROVE k = m
    OBVIOUS
  <2>1. k >= m /\ m >= k /\ k \in Int /\ m \in Int
    BY <1>1, <1>2, <1>3
  <2>2. QED
    BY <2>1
<1> HIDE DEF fits
<1>5. (CHOOSE k \in fits : \A j \in fits : k >= j) = m
  BY <1>2, <1>3, <1>4
<1>6. QED
  BY <1>5 DEF Max, fits, n, chars

\* All there is, sent whole: the window of a conversation that fits.
LEMMA WholeIsWindow ==
    ASSUME NEW messages \in Seq(Sizes), NEW prompt \in Int, NEW limit \in Int,
           NEW m \in 0 .. Len(messages), NEW cut \in BOOLEAN,
           NEW state, state = Selected(messages, Remaining(limit, prompt)),
           state.kept = Newest(messages, m), state.used = NewestChars(messages)[m],
           state.truncated = cut, cut <=> m < Len(messages),
           m > 0 => NewestChars(messages)[m] <= Remaining(limit, prompt),
           cut => NewestChars(messages)[m + 1] > Remaining(limit, prompt),
           m = 0 /\ cut => RoomOf(messages, Remaining(limit, prompt)) <= MinRoom
    PROVE  IsWindowOf(NetworkContext(messages, prompt, limit), messages, prompt, limit)
<1> DEFINE n == Len(messages)
           c == NetworkContext(messages, prompt, limit)
           remaining == Remaining(limit, prompt)
           chars == NewestChars(messages)
<1>1. /\ n \in Nat /\ m \in Nat /\ m <= n /\ remaining \in Int /\ chars[m] \in Nat
      /\ DOMAIN messages = 1 .. n
  BY SizesOfMessages, CharsOfMessages DEF Remaining, HeaderChars, FooterChars
<1>2. Len(state.kept) = m /\ state.kept \in Seq(Int)
  BY NewestContents
<1>3. state.kept = <<>> <=> m = 0
  BY <1>2, EmptySeq
<1>4. /\ c.kept = Newest(messages, m) /\ c.included = m /\ c.history = chars[m]
      /\ c.truncated = (cut \/ m < n)
      /\ m > 0 => c.total = HeaderChars + chars[m] + FooterChars + prompt
  BY <1>2, <1>3 DEF NetworkContext
<1>5. c.truncated <=> m < n
  BY <1>4
<1> HIDE DEF c
<1>6. FitsLimit(c, messages, limit)
  <2>1. SUFFICES ASSUME m > 0
                 PROVE  c.total <= limit /\ c.history = NewestChars(Sent(c, messages))[c.included]
    BY <1>4 DEF FitsLimit
  <2>2. c.total <= limit
    <3> HIDE DEF chars
    <3>1. chars[m] <= remaining
      BY <2>1 DEF chars
    <3>2. QED
      BY <1>1, <1>4, <2>1, <3>1 DEF Remaining, HeaderChars, FooterChars
  <2>3. Sent(c, messages) = [i \in 1 .. m |->
            [role |-> messages[n - m + i].role, content |-> c.kept[i]]]
    BY <1>4 DEF Sent
  <2>4. NewestChars(Sent(c, messages))[m] = chars[m]
    <3>1. NewestChars([i \in 1 .. m |->
            [role |-> messages[n - m + i].role, content |-> c.kept[i]]])[m] = chars[m]
      BY <1>4, CharsOfSent
    <3>2. QED
      BY <2>3, <3>1
  <2>5. QED
    BY <1>4, <2>2, <2>4
<1>7. NewestFirst(c, messages, remaining)
  <2>1. SUFFICES ASSUME messages # <<>>
        PROVE  LET most == Max({k \in 0 .. n : k = 0 \/ chars[k] <= remaining})
                   room == remaining - messages[n].role - 3
               IN  IF most > 0 THEN c.kept = Newest(messages, most)
                   ELSE c.kept = IF room > MinRoom THEN <<room>> ELSE <<>>
    BY DEF NewestFirst
  <2>2. Max({k \in 0 .. n : k = 0 \/ chars[k] <= remaining}) = m
    <3>1. m < n => chars[m + 1] > remaining
      OBVIOUS
    <3>2. QED
      BY <1>1, <3>1, MostThatFit
  <2>3. CASE m > 0
    BY <1>4, <2>2, <2>3
  <2>4. CASE ~(m > 0)
    <3>1. m = 0 /\ n # 0 /\ cut
      BY <1>1, <2>1, <2>4, EmptySeq
    <3>2. n \in 1 .. n
      BY <1>1, <3>1
    <3>3. messages[n].role \in Nat
      BY <3>2, SizesOfMessages
    <3>4. remaining - messages[n].role - 3 <= MinRoom
      BY <3>1 DEF RoomOf
    <3> DEFINE room == remaining - messages[n].role - 3
    <3>5. room \in Int /\ ~(room > MinRoom)
      <4>1. \A x \in Int : x <= MinRoom => ~(x > MinRoom)
        BY DEF MinRoom
      <4>2. room \in Int
        <5> HIDE DEF remaining, n
        <5>1. QED
          BY <1>1, <3>3
      <4>3. QED
        BY <3>4, <4>1, <4>2
    <3>6. c.kept = <<>>
      BY <1>3, <1>4, <3>1
    <3> HIDE DEF remaining, n
    <3>7. QED
      BY <2>2, <2>4, <3>5, <3>6
  <2>5. QED
    BY <2>3, <2>4
<1>8. TruncationTold(c, messages)
  <2> DEFINE all == [i \in DOMAIN messages |-> messages[i].content]
  <2>1. m = n => Newest(messages, m) = all
    <3>1. ASSUME m = n PROVE \A i \in 1 .. n : n - m + i = i
      BY <1>1, <3>1
    <3>2. QED
      BY <1>1, <3>1 DEF Newest
  <2>2. m < n => Newest(messages, m) # all
    <3>1. DOMAIN Newest(messages, m) = 1 .. m /\ DOMAIN all = 1 .. n
      BY <1>1 DEF Newest
    <3>2. m < n => n \in 1 .. n /\ n \notin 1 .. m
      BY <1>1
    <3>3. QED
      BY <3>1, <3>2
  <2> HIDE DEF all
  <2>3. m = n \/ m < n
    <3> HIDE DEF n, remaining, chars
    <3>1. QED
      BY <1>1
  <2>4. c.truncated <=> c.kept # all
    BY <1>1, <1>4, <1>5, <2>1, <2>2, <2>3
  <2>5. QED
    BY <2>4 DEF TruncationTold, all
<1>9. QED
  BY <1>6, <1>7, <1>8 DEF IsWindowOf, c

\* Of the newest message, its end: the window when not even that one fits.
LEMMA EndIsWindow ==
    ASSUME NEW messages \in Seq(Sizes), NEW prompt \in Int, NEW limit \in Int,
           Len(messages) > 0,
           NEW state, state = Selected(messages, Remaining(limit, prompt)),
           state.kept = <<RoomOf(messages, Remaining(limit, prompt))>>,
           state.used = Remaining(limit, prompt), state.truncated = TRUE,
           NewestChars(messages)[1] > Remaining(limit, prompt),
           RoomOf(messages, Remaining(limit, prompt)) > MinRoom
    PROVE  IsWindowOf(NetworkContext(messages, prompt, limit), messages, prompt, limit)
<1> DEFINE n == Len(messages)
           c == NetworkContext(messages, prompt, limit)
           remaining == Remaining(limit, prompt)
           room == RoomOf(messages, remaining)
           chars == NewestChars(messages)
<1>1. /\ n \in Nat /\ remaining \in Int /\ DOMAIN messages = 1 .. n
      /\ 0 \in 0 .. n /\ 1 \in 1 .. n /\ n \in 1 .. n
  BY SizesOfMessages DEF Remaining, HeaderChars, FooterChars
<1>2. messages[n].role \in Nat /\ messages[n].content \in Nat
  BY <1>1, SizesOfMessages
<1>3. room \in Nat /\ remaining = messages[n].role + 2 + room + 1
  <2>1. \A x \in Int : x > MinRoom => x \in Nat
    BY DEF MinRoom
  <2>2. room = remaining - messages[n].role - 3
    BY DEF RoomOf
  <2> HIDE DEF remaining, n, room
  <2>3. room \in Int /\ remaining = messages[n].role + 2 + room + 1
    BY <1>1, <1>2, <2>2
  <2>4. room > MinRoom
    BY DEF room, remaining
  <2>5. QED
    BY <2>1, <2>3, <2>4
<1>4. c.kept = <<room>> /\ c.included = 1 /\ c.history = remaining /\ c.truncated = TRUE
      /\ c.total = HeaderChars + remaining + FooterChars + prompt
  <2>1. Len(<<room>>) = 1 /\ <<room>> # <<>>
    OBVIOUS
  <2> HIDE DEF room, remaining
  <2>2. QED
    BY <2>1 DEF NetworkContext, room, remaining
<1> HIDE DEF c
<1>5. FitsLimit(c, messages, limit)
  <2>1. c.total <= limit
    BY <1>1, <1>4 DEF Remaining, HeaderChars, FooterChars
  <2> DEFINE last == [role |-> messages[n].role, content |-> room]
             sent == [i \in 1 .. 1 |-> last]
  <2>2. last \in Sizes
    BY <1>2, <1>3 DEF Sizes
  <2>3. Sent(c, messages) = sent
    <3>1. \A i \in 1 .. 1 : n - 1 + i = n /\ c.kept[i] = room
      BY <1>1, <1>4
    <3> HIDE DEF room, n
    <3>2. QED
      BY <1>4, <3>1 DEF Sent, n
  <2> HIDE DEF last
  <2>4. sent \in Seq(Sizes) /\ Len(sent) = 1 /\ sent[1] = last
    <3>1. sent = <<last>>
      OBVIOUS
    <3>2. QED
      BY <2>2, <3>1
  <2>5. NewestChars(sent)[1] = BlockChars(last)
    <3> HIDE DEF sent
    <3>1. /\ NewestChars(sent)[0] = 0
          /\ NewestChars(sent)[1] = NewestChars(sent)[0] + BlockChars(sent[1])
      <4>1. /\ NewestChars(sent)[0] = 0
            /\ \A k \in 1 .. 1 :
                  NewestChars(sent)[k] = NewestChars(sent)[k - 1] + BlockChars(sent[1 + 1 - k])
        BY <2>4, CharsOfMessages
      <4>2. QED
        BY <4>1
    <3>2. BlockChars(last) \in Nat
      BY <2>2 DEF Sizes, BlockChars
    <3>3. QED
      BY <2>4, <3>1, <3>2
  <2>6. BlockChars(last) = remaining
    <3> HIDE DEF room, remaining, n
    <3>1. QED
      BY <1>3 DEF BlockChars, last
  <2>7. QED
    BY <1>4, <2>1, <2>3, <2>5, <2>6 DEF FitsLimit
<1>6. NewestFirst(c, messages, remaining)
  <2>1. Max({k \in 0 .. n : k = 0 \/ chars[k] <= remaining}) = 0
    <3>1. chars[0 + 1] > remaining /\ ~(0 > 0)
      OBVIOUS
    <3>2. \A m \in 0 .. n :
            (m > 0 => chars[m] <= remaining) /\ (m < n => chars[m + 1] > remaining) =>
            Max({k \in 0 .. n : k = 0 \/ chars[k] <= remaining}) = m
      BY <1>1, MostThatFit
    <3> HIDE DEF remaining, n, chars
    <3>3. QED
      BY <1>1, <3>1, <3>2
  <2>2. remaining - messages[n].role - 3 = room
    BY DEF RoomOf
  <2>3. room > MinRoom
    OBVIOUS
  <2> HIDE DEF remaining, room
  <2>4. QED
    BY <1>4, <2>1, <2>2, <2>3 DEF NewestFirst
<1>7. TruncationTold(c, messages)
  <2> DEFINE all == [i \in DOMAIN messages |-> messages[i].content]
  <2>1. SUFFICES ASSUME all = <<room>> PROVE FALSE
    BY <1>4 DEF TruncationTold
  <2>2. DOMAIN all = 1 .. n /\ DOMAIN <<room>> = 1 .. 1
    BY <1>1
  <2>3. n = 1
    <3>1. 1 .. n = 1 .. 1
      <4> HIDE DEF room
      <4>1. QED
        BY <2>1, <2>2
    <3>2. n \in 1 .. 1
      BY <1>1, <3>1
    <3>3. QED
      BY <3>2
  <2>4. messages[n].content = room
    <3>1. all[1] = <<room>>[1]
      BY <2>1
    <3>2. QED
      BY <1>1, <2>3, <3>1
  <2>5. chars[1] = messages[n].role + 2 + messages[n].content + 1
    <3>1. chars[0] = 0 /\ chars[1] = chars[0] + BlockChars(messages[n])
      <4>1. /\ chars[0] = 0
            /\ \A k \in 1 .. n : chars[k] = chars[k - 1] + BlockChars(messages[n + 1 - k])
        BY CharsOfMessages
      <4>2. n + 1 - 1 = n /\ 1 - 1 = 0
        BY <1>1
      <4>3. QED
        BY <1>1, <4>1, <4>2
    <3> HIDE DEF chars, n
    <3>2. QED
      BY <1>2, <3>1 DEF BlockChars
  <2>6. chars[1] > remaining
    OBVIOUS
  <2> HIDE DEF chars, n, room, remaining
  <2>7. QED
    BY <1>1, <1>2, <1>3, <2>4, <2>5, <2>6
<1>8. QED
  BY <1>5, <1>6, <1>7 DEF IsWindowOf, c

\* build_network_context, for a conversation of any length, a prompt of any
\* length and any limit: the messages that go to the network are the newest
\* ones, whole, as many as fit, or the end of the newest when not even it
\* fits; a prompt with history keeps the limit, the characters it reports are
\* those it has, and the client is told of what was left out exactly when
\* something was.
THEOREM WindowIsRight ==
    ASSUME NEW messages \in Seq(Sizes), NEW prompt \in Int, NEW limit \in Int
    PROVE  IsWindowOf(NetworkContext(messages, prompt, limit), messages, prompt, limit)
<1> DEFINE n == Len(messages)
           remaining == Remaining(limit, prompt)
           state == Selected(messages, remaining)
<1>1. n \in Nat /\ remaining \in Int
  BY SizesOfMessages DEF Remaining, HeaderChars, FooterChars
<1>2. After(state, n, messages, remaining)
  BY <1>1, SelectedIsAfter
<1> HIDE DEF state
<1>3. CASE state.truncated = FALSE
  <2>1. /\ state.kept = Newest(messages, n) /\ state.used = NewestChars(messages)[n]
        /\ n > 0 => NewestChars(messages)[n] <= remaining
    BY <1>2, <1>3 DEF After
  <2>2. n \in 0 .. n /\ ~(n < n)
    BY <1>1
  <2>3. QED
    BY <1>3, <2>1, <2>2, WholeIsWindow DEF state
<1>4. CASE state.truncated = TRUE
  <2>1. PICK m \in 0 .. n - 1 : Ended(state, m, messages, remaining)
    BY <1>2, <1>4 DEF After
  <2>2. m \in 0 .. n /\ m < n /\ n > 0
    BY <1>1
  <2>3. /\ NewestChars(messages)[m + 1] > remaining
        /\ m > 0 => NewestChars(messages)[m] <= remaining
    BY <2>1 DEF Ended
  <2>4. CASE /\ state.kept = Newest(messages, m)
             /\ state.used = NewestChars(messages)[m]
             /\ m = 0 => RoomOf(messages, remaining) <= MinRoom
    BY <1>4, <2>2, <2>3, <2>4, WholeIsWindow DEF state
  <2>5. CASE /\ m = 0
             /\ state.kept = <<RoomOf(messages, remaining)>>
             /\ state.used = remaining
             /\ RoomOf(messages, remaining) > MinRoom
    <3>1. NewestChars(messages)[1] > remaining
      BY <2>3, <2>5
    <3>2. QED
      BY <1>4, <2>2, <2>5, <3>1, EndIsWindow DEF state
  <2>6. QED
    BY <2>1, <2>4, <2>5 DEF Ended
<1>5. state.truncated \in BOOLEAN
  BY <1>1, SelectedIsAfter DEF state, LoopStates
<1>6. QED
  BY <1>3, <1>4, <1>5
-----------------------------------------------------------------------------
(* The inputs of the window, however long a conversation and whatever the    *)
(* environment.                                                              *)

ContextInvariant ==
    /\ history \in Seq(Sizes)
    /\ asked \in Nat
    /\ MaxContextChars(environment) \in Int

LEMMA MaxOfTwo ==
    ASSUME NEW m \in Int, NEW n \in Int
    PROVE  Max({m, n}) \in Int
<1>1. \E x \in {m, n} : \A y \in {m, n} : x >= y
  OBVIOUS
<1>2. QED
  BY <1>1 DEF Max

\* Whatever the variables are set to, there is a limit.
LEMMA LimitType ==
    ASSUME NEW env \in [perToken : Settings, tokens : Settings, chars : Settings]
    PROVE  MaxContextChars(env) \in Int
<1>1. /\ env.perToken.ok \in BOOLEAN /\ env.tokens.ok \in BOOLEAN /\ env.chars.ok \in BOOLEAN
      /\ env.tokens.set \in BOOLEAN
      /\ env.perToken.n \in Int /\ env.tokens.n \in Int /\ env.chars.n \in Int
  BY ContextAssumption
<1>2. CharsPerToken(env) \in Int
  BY <1>1, MaxOfTwo DEF CharsPerToken
<1>3. /\ Max({env.tokens.n, 250}) \in Int /\ Max({env.chars.n, 1000}) \in Int
  BY <1>1, MaxOfTwo
<1>4. /\ Max({env.tokens.n, 250}) * CharsPerToken(env) \in Int
      /\ 2000 * CharsPerToken(env) \in Int
  BY <1>2, <1>3
<1>5. QED
  BY <1>1, <1>3, <1>4 DEF MaxContextChars

\* The messages that go to the network are the newest ones that fit, and the
\* client is told of what was left out: for every conversation that grows, every
\* prompt and every setting of the environment.
THEOREM WindowsAreRight == ContextSpec => []WindowCorrect
<1>1. ContextInit => ContextInvariant
  BY LimitType, ContextAssumption DEF ContextInit, ContextInvariant
<1>2. ContextInvariant /\ [WriteMessage]_contextVars => ContextInvariant'
  <2> SUFFICES ASSUME ContextInvariant, [WriteMessage]_contextVars PROVE ContextInvariant'
    OBVIOUS
  <2> USE DEF ContextInvariant
  <2>1. CASE WriteMessage
    <3>1. PICK m \in MessageSizes : history' = Append(history, m)
      BY <2>1 DEF WriteMessage
    <3>2. m \in Sizes
      BY ContextAssumption DEF Sizes
    <3>3. history' \in Seq(Sizes)
      BY <3>1, <3>2, AppendProperties
    <3>4. QED
      BY <2>1, <3>3 DEF WriteMessage
  <2>2. CASE UNCHANGED contextVars
    BY <2>2 DEF contextVars
  <2>3. QED
    BY <2>1, <2>2
<1>3. ContextInvariant => WindowCorrect
  BY WindowIsRight DEF ContextInvariant, WindowCorrect
<1>4. QED
  BY <1>1, <1>2, <1>3, PTL DEF ContextSpec
=============================================================================
