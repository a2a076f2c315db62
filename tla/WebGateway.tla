----------------------------- MODULE WebGateway -----------------------------
(***************************************************************************)
(* The web gateway (src/ui/web_app.py, src/ui/web_state.py): one event      *)
(* loop that runs the request handlers, a pool of threads that wait for     *)
(* the node and finish the turns, one lock, the conversations file, and     *)
(* the statuses that clients poll.                                          *)
(*                                                                          *)
(* The event loop runs a handler without interruption up to an await, and   *)
(* is blocked while a thread holds the lock.  A save truncates the file and *)
(* then writes it; a crash or a full disk in between leaves it torn, and a  *)
(* torn file is read as no conversations.  The node's API is external: it   *)
(* answers, fails or times out.                                             *)
(***************************************************************************)
EXTENDS Conversations, FiniteSets, SequencesExt

CONSTANTS
    PoolSize,       \* threads of the pool handlers and tasks share
    Endpoints,      \* how turns are sent: to /api/chat/start or /api/chat
    MaxCrashes, MaxFaults, MaxDeletes   \* bounds of the environment

ASSUME PoolAssumption == PoolSize \in Nat \ {0}
ASSUME EndpointsAssumption == Endpoints \subseteq {"start", "chat"}
ASSUME BoundsAssumption == {MaxCrashes, MaxFaults, MaxDeletes} \subseteq Nat

VARIABLES
    disk,       \* the conversations file
    lock,       \* the thread that holds the lock
    loop,       \* the handler the event loop is in, and its conversations
    worker,     \* worker[t]: where the thread that finishes turn t is
    copy,       \* copy[t]: the conversations that thread is saving
    home,       \* home[t]: the conversation of turn t
    status,     \* status[t]: its entry in QUERY_STATUSES
    queue,      \* what waits for a thread of the pool, first come first served
    poll,       \* poll[t]: the status request of the client of turn t
    told,       \* told[t]: what that client knows of its turn
    listing,    \* listing[t]: the conversations listed in the reply to turn t
    via,        \* via[t]: the endpoint turn t was sent to
    made,       \* the blank conversations ever created
    spent       \* how often the environment crashed, failed and deleted

vars == <<disk, lock, loop, worker, copy, home, status, queue, poll, told,
          listing, via, made, spent>>

Whole(convs) == [whole |-> TRUE, convs |-> convs]
Torn == [whole |-> FALSE, convs |-> Nothing]

\* load_conversations: what does not parse is no conversations.
Load(file) == IF file.whole THEN file.convs ELSE Nothing

\* The lock's holder is a thread: that of a turn, or the event loop.
Free == "free"
EventLoop == "event loop"
NoTurn == "none"

ASSUME NamesAssumption == {Free, EventLoop, NoTurn} \cap Turns = {}

Idle == [op |-> "idle", turn |-> NoTurn, convs |-> Nothing]
SavingOps == {"starting", "creating", "deleting"}
Saving(op, t, convs) == [op |-> op, turn |-> t, convs |-> convs]

Polled(t) == [job |-> "poll", turn |-> t]
Finished(t) == [job |-> "finish", turn |-> t]

Final == {"ok", "error", "unknown"}
Done == {"ok", "error"}

Init ==
    /\ disk = Whole(Nothing)
    /\ lock = Free
    /\ loop = Idle
    /\ worker = [t \in Turns |-> "unsent"]
    /\ copy = [t \in Turns |-> Nothing]
    /\ home = [t \in Turns |-> t]
    /\ status = [t \in Turns |-> "absent"]
    /\ queue = <<>>
    /\ poll = [t \in Turns |-> "idle"]
    /\ told = [t \in Turns |-> "nothing"]
    /\ listing = [t \in Turns |-> {}]
    /\ via \in [Turns -> Endpoints]
    /\ made = {}
    /\ spent = [crashes |-> 0, faults |-> 0, deletes |-> 0]

\* The handler runs: the loop is in no other one.
LoopIsFree == loop = Idle
LockIsFree == lock = Free

-----------------------------------------------------------------------------
(* The handlers that save: load and modify under the lock, truncate.        *)

LoopSaves(op, t, convs) ==
    /\ lock' = EventLoop
    /\ disk' = Torn
    /\ loop' = Saving(op, t, convs)

\* _prepare_chat_query, called by start_chat and chat.
StartChat(t, id) ==
    /\ LoopIsFree /\ LockIsFree
    /\ worker[t] = "unsent"
    /\ worker' = [worker EXCEPT ![t] = "starting"]
    /\ home' = [home EXCEPT ![t] = Ensured(Load(disk), id, t)]
    /\ LoopSaves("starting", t,
                 WithMessage(Load(disk), home'[t], Prompt(t)))
    /\ UNCHANGED <<copy, status, queue, poll, told, listing, via, made, spent>>

CreateConversation(b) ==
    /\ LoopIsFree /\ LockIsFree
    /\ b \in Blanks \ made
    /\ made' = made \cup {b}
    /\ LoopSaves("creating", NoTurn, WithBlank(Load(disk), b))
    /\ UNCHANGED <<worker, copy, home, status, queue, poll, told, listing, via, spent>>

\* MUTANT of DeleteConversation: a plain function, which the server would run
\* in a thread of the pool, between the steps of a handler.
DeleteConversationInThread(c) ==
    /\ LockIsFree
    /\ spent.deletes < MaxDeletes
    /\ spent' = [spent EXCEPT !.deletes = @ + 1]
    /\ disk' = Whole(Without(Load(disk), c))
    /\ UNCHANGED <<lock, loop, worker, copy, home, status, queue, poll, told, listing,
                   via, made>>

DeleteConversation(c) ==
    /\ LoopIsFree /\ LockIsFree
    /\ spent.deletes < MaxDeletes
    /\ spent' = [spent EXCEPT !.deletes = @ + 1]
    /\ LoopSaves("deleting", NoTurn, Without(Load(disk), c))
    /\ UNCHANGED <<worker, copy, home, status, queue, poll, told, listing, via, made>>

\* The write ends; create and delete reply, a turn goes on without the lock.
LoopSaved ==
    /\ loop.op \in SavingOps
    /\ disk' = Whole(loop.convs)
    /\ lock' = Free
    /\ loop' = IF loop.op = "starting" THEN [loop EXCEPT !.op = "saved"] ELSE Idle
    /\ UNCHANGED <<worker, copy, home, status, queue, poll, told, listing, via, made, spent>>

\* The write fails: the handler raises, the reply is an error 500.
LoopSaveFails ==
    /\ loop.op \in SavingOps
    /\ spent.faults < MaxFaults
    /\ spent' = [spent EXCEPT !.faults = @ + 1]
    /\ lock' = Free
    /\ loop' = Idle
    /\ worker' = [t \in Turns |-> IF t = loop.turn THEN "broken" ELSE worker[t]]
    /\ told' = [t \in Turns |-> IF t = loop.turn THEN "error" ELSE told[t]]
    /\ UNCHANGED <<disk, copy, home, status, queue, poll, listing, via, made>>

\* _set_query_status(phase="queued"), the lock taken again.
StartRegisters ==
    /\ loop.op = "saved" /\ LockIsFree
    /\ loop' = [loop EXCEPT !.op = "registered"]
    /\ status' = [status EXCEPT ![loop.turn] = "queued"]
    /\ UNCHANGED <<disk, lock, worker, copy, home, queue, poll, told, listing, via,
                   made, spent>>

\* The listing is loaded without the lock.  start_chat replies; both
\* endpoints hand _finish_chat_query to the pool.
StartReplies ==
    /\ loop.op = "registered"
    /\ loop' = Idle
    /\ listing' = [listing EXCEPT ![loop.turn] = Existing(Load(disk))]
    /\ worker' = [worker EXCEPT ![loop.turn] = "waiting"]
    /\ queue' = Append(queue, Finished(loop.turn))
    /\ told' = [told EXCEPT ![loop.turn] = IF via[loop.turn] = "start" THEN "started" ELSE @]
    /\ UNCHANGED <<disk, lock, copy, home, status, poll, via, made, spent>>

-----------------------------------------------------------------------------
(* The thread pool.                                                         *)

Running == {"running", "querying", "answered", "failed", "saving", "finished", "raised"}
Busy == Cardinality({t \in Turns : worker[t] \in Running})
        + Cardinality({t \in Turns : poll[t] = "fetching"})

PoolGrants ==
    LET first == Head(queue) IN
    /\ LoopIsFree
    /\ queue # <<>> /\ Busy < PoolSize
    /\ queue' = Tail(queue)
    /\ worker' = IF first.job = "finish"
                 THEN [worker EXCEPT ![first.turn] = "running"] ELSE worker
    /\ poll' = IF first.job = "poll"
               THEN [poll EXCEPT ![first.turn] = "fetching"] ELSE poll
    /\ UNCHANGED <<disk, lock, loop, copy, home, status, told, listing, via, made, spent>>

-----------------------------------------------------------------------------
(* _finish_chat_query, in a thread.                                         *)

WorkerBegins(t) ==
    /\ worker[t] = "running" /\ LockIsFree
    /\ worker' = [worker EXCEPT ![t] = "querying"]
    /\ status' = [status EXCEPT ![t] = "waiting"]
    /\ UNCHANGED <<disk, lock, loop, copy, home, queue, poll, told, listing, via,
                   made, spent>>

\* query_node_api returns an answer, or an error, or raises: at its timeout
\* at the latest.
NodeReplies(t) ==
    /\ worker[t] = "querying"
    /\ \E result \in {"answered", "failed"} : worker' = [worker EXCEPT ![t] = result]
    /\ UNCHANGED <<disk, lock, loop, copy, home, status, queue, poll, told, listing,
                   via, made, spent>>

\* MUTANT of FinishSaves: a deleted conversation is created again.
FinishSavesDeleted(t) ==
    /\ worker[t] = "answered" /\ LockIsFree
    /\ worker' = [worker EXCEPT ![t] = "saving"]
    /\ copy' = [copy EXCEPT ![t] = WithMessage(Load(disk), home[t], Answer(t))]
    /\ lock' = t
    /\ disk' = Torn
    /\ UNCHANGED <<loop, home, status, queue, poll, told, listing, via, made, spent>>

\* MUTANT of FinishSaves: saved after the lock was released.
FinishSavesUnlocked(t) ==
    /\ worker[t] = "answered" /\ LockIsFree
    /\ home[t] \in Existing(Load(disk))
    /\ worker' = [worker EXCEPT ![t] = "saving"]
    /\ copy' = [copy EXCEPT ![t] = WithMessage(Load(disk), home[t], Answer(t))]
    /\ disk' = Torn
    /\ UNCHANGED <<lock, loop, home, status, queue, poll, told, listing, via, made, spent>>

\* The answer is appended to what the file holds now.
FinishSaves(t) ==
    /\ worker[t] = "answered" /\ LockIsFree
    /\ home[t] \in Existing(Load(disk))
    /\ worker' = [worker EXCEPT ![t] = "saving"]
    /\ copy' = [copy EXCEPT ![t] =
                   WithMessage(Load(disk), home[t], Answer(t))]
    /\ lock' = t
    /\ disk' = Torn
    /\ UNCHANGED <<loop, home, status, queue, poll, told, listing, via, made, spent>>

FinishSaved(t) ==
    /\ worker[t] = "saving"
    /\ disk' = Whole(copy[t])
    /\ copy' = [copy EXCEPT ![t] = Nothing]
    /\ lock' = Free
    /\ status' = [status EXCEPT ![t] = "ok"]
    /\ worker' = [worker EXCEPT ![t] = "finished"]
    /\ UNCHANGED <<loop, home, queue, poll, told, listing, via, made, spent>>

\* The write fails: the exception ends the task before the status is set.
FinishSaveFails(t) ==
    /\ worker[t] = "saving"
    /\ spent.faults < MaxFaults
    /\ spent' = [spent EXCEPT !.faults = @ + 1]
    /\ copy' = [copy EXCEPT ![t] = Nothing]
    /\ lock' = Free
    /\ worker' = [worker EXCEPT ![t] = "raised"]
    /\ UNCHANGED <<disk, loop, home, status, queue, poll, told, listing, via, made>>

\* MUTANT of FinishUnsaved: without the lock.
FinishUnsavedUnlocked(t) ==
    /\ \/ worker[t] = "failed"
       \/ worker[t] = "answered" /\ home[t] \notin Existing(Load(disk))
    /\ status' = [status EXCEPT ![t] = IF worker[t] = "answered" THEN "ok" ELSE "error"]
    /\ worker' = [worker EXCEPT ![t] = "finished"]
    /\ UNCHANGED <<disk, lock, loop, copy, home, queue, poll, told, listing, via,
                   made, spent>>

\* MUTANT of FinishUnsaved: an error leaves the status as it is.
FinishUnsavedForgets(t) ==
    /\ LockIsFree
    /\ \/ worker[t] = "failed"
       \/ worker[t] = "answered" /\ home[t] \notin Existing(Load(disk))
    /\ status' = [status EXCEPT ![t] = IF worker[t] = "answered" THEN "ok" ELSE @]
    /\ worker' = [worker EXCEPT ![t] = "finished"]
    /\ UNCHANGED <<disk, lock, loop, copy, home, queue, poll, told, listing, via,
                   made, spent>>

\* Nothing to save: no answer, or no conversation any more.
FinishUnsaved(t) ==
    /\ LockIsFree
    /\ \/ worker[t] = "failed"
       \/ worker[t] = "answered" /\ home[t] \notin Existing(Load(disk))
    /\ status' = [status EXCEPT ![t] = IF worker[t] = "answered" THEN "ok" ELSE "error"]
    /\ worker' = [worker EXCEPT ![t] = "finished"]
    /\ UNCHANGED <<disk, lock, loop, copy, home, queue, poll, told, listing, via,
                   made, spent>>

\* The loop takes the thread back; the handler of /api/chat replies.
WorkerReturns(t) ==
    /\ LoopIsFree /\ LockIsFree
    /\ worker[t] \in {"finished", "raised"}
    /\ worker' = [worker EXCEPT ![t] = IF @ = "finished" THEN "done" ELSE "broken"]
    /\ told' = [told EXCEPT ![t] = IF via[t] = "start" THEN @
                                   ELSE IF worker[t] = "finished" THEN status[t]
                                   ELSE "error"]
    /\ UNCHANGED <<disk, lock, loop, copy, home, status, queue, poll, listing, via,
                   made, spent>>

-----------------------------------------------------------------------------
(* chat_status: the status is copied under the lock; if it is not final, a  *)
(* thread asks the node for progress, and the copy is sent with it.         *)

PollStatus(t) ==
    /\ LoopIsFree /\ LockIsFree
    /\ told[t] = "started" /\ poll[t] = "idle"
    /\ IF status[t] \in Done \cup {"absent"}
       THEN /\ told' = [told EXCEPT ![t] = IF status[t] \in Done THEN status[t] ELSE "unknown"]
            /\ UNCHANGED <<poll, queue>>
       ELSE /\ poll' = [poll EXCEPT ![t] = "waiting"]
            /\ queue' = Append(queue, Polled(t))
            /\ UNCHANGED told
    /\ UNCHANGED <<disk, lock, loop, worker, copy, home, status, listing, via, made, spent>>

\* query_node_progress has returned, after its timeout at the latest; the
\* client hears that its query is not done, even if it is by now.  A broken
\* reply of the node raises: the client hears an error and polls no more.
PollReplies(t) ==
    /\ LoopIsFree
    /\ poll[t] = "fetching"
    /\ poll' = [poll EXCEPT ![t] = "idle"]
    /\ told' \in {told, [told EXCEPT ![t] = "error"]}
    /\ UNCHANGED <<disk, lock, loop, worker, copy, home, status, queue, listing,
                   via, made, spent>>

-----------------------------------------------------------------------------
(* The process is killed and started again: the file stays as it is, all    *)
(* the rest is forgotten, and requests in flight fail at their clients.     *)

InFlight(t) ==
    \/ t = loop.turn
    \/ via[t] = "chat" /\ told[t] = "nothing" /\ worker[t] # "unsent"
    \/ poll[t] # "idle"

Crash ==
    /\ spent.crashes < MaxCrashes
    /\ spent' = [spent EXCEPT !.crashes = @ + 1]
    /\ lock' = Free
    /\ loop' = Idle
    /\ worker' = [t \in Turns |-> IF worker[t] = "unsent" THEN "unsent" ELSE "broken"]
    /\ copy' = [t \in Turns |-> Nothing]
    /\ status' = [t \in Turns |-> "absent"]
    /\ queue' = <<>>
    /\ poll' = [t \in Turns |-> "idle"]
    /\ told' = [t \in Turns |-> IF InFlight(t) THEN "error" ELSE told[t]]
    /\ UNCHANGED <<disk, home, listing, via, made>>

Handlers ==
    \/ \E t \in Turns : \E id \in Ids : StartChat(t, id)
    \/ \E b \in Blanks : CreateConversation(b)
    \/ \E c \in Ids : DeleteConversation(c)
    \/ LoopSaved \/ LoopSaveFails \/ StartRegisters \/ StartReplies

Finish(t) ==
    \/ WorkerBegins(t) \/ NodeReplies(t) \/ FinishSaves(t) \/ FinishSaved(t)
    \/ FinishSaveFails(t) \/ FinishUnsaved(t) \/ WorkerReturns(t)

Next ==
    \/ Handlers
    \/ PoolGrants
    \/ \E t \in Turns : Finish(t) \/ PollStatus(t) \/ PollReplies(t)
    \/ Crash

Spec == Init /\ [][Next]_vars

\* The loop and the threads run, the node's API answers within its timeout,
\* and a client that knows its query polls until it is told the end.
Fairness ==
    /\ WF_vars(LoopSaved \/ LoopSaveFails)
    /\ WF_vars(StartRegisters)
    /\ WF_vars(StartReplies)
    /\ WF_vars(PoolGrants)
    /\ \A t \in Turns :
        /\ WF_vars(Finish(t))
        /\ WF_vars(PollStatus(t))
        /\ WF_vars(PollReplies(t))

FairSpec == Spec /\ Fairness
-----------------------------------------------------------------------------
Phases == {"unsent", "starting", "waiting", "done", "broken"} \cup Running

\* Every variable has its type.
TypeOK ==
    /\ disk \in [whole : BOOLEAN, convs : Contents]
    /\ lock \in {Free, EventLoop} \cup Turns
    /\ loop \in [op : SavingOps \cup {"idle", "saved", "registered"},
                turn : Turns \cup {NoTurn}, convs : Contents]
    /\ worker \in [Turns -> Phases]
    /\ copy \in [Turns -> Contents]
    /\ home \in [Turns -> Ids]
    /\ status \in [Turns -> {"absent", "queued", "waiting"} \cup Done]
    /\ queue \in Seq([job : {"poll", "finish"}, turn : Turns])
    /\ poll \in [Turns -> {"idle", "waiting", "fetching"}]
    /\ told \in [Turns -> {"nothing", "started"} \cup Final]
    /\ listing \in [Turns -> SUBSET Ids]
    /\ via \in [Turns -> Endpoints]
    /\ made \subseteq Blanks
    /\ spent \in [crashes : Nat, faults : Nat, deletes : Nat]

\* The file is torn only while the holder of the lock writes it, unless a
\* write was cut short; so no reader that takes the lock loses anything.
TornOnlyUnderLock ==
    ~disk.whole /\ spent.crashes + spent.faults = 0 => ~LockIsFree

\* Every variable has its type, and nobody but the holder of the lock finds
\* the file half written.
FileSound == TypeOK /\ TornOnlyUnderLock

\* What the file holds once the save in progress has ended.
Stored ==
    IF disk.whole THEN disk.convs
    ELSE IF lock = EventLoop THEN loop.convs
    ELSE IF lock \in Turns THEN copy[lock]
    ELSE Nothing

OutcomeOf(t) ==
    CASE worker[t] = "unsent" -> "unsent"
      [] worker[t] = "saving" -> "answered"
      [] worker[t] \in {"finished", "done"} ->
            IF status[t] = "ok" THEN "answered" ELSE "failed"
      [] worker[t] \in {"raised", "broken"} ->
            IF status[t] = "absent" THEN "lost" ELSE "stuck"
      [] OTHER -> "pending"

Promise ==
    INSTANCE ChatStore WITH
        stored <- Stored, outcome <- [t \in Turns |-> OutcomeOf(t)]

\* However the handlers, threads, polls and crashes interleave, every turn,
\* creation and deletion takes effect in one step, as ChatStore says.
ImplementsStore == Promise!StoreSpec

\* What the history of the store must satisfy (ChatStore).
HistorySound ==
    /\ Promise!NothingTwice
    /\ Promise!AnswerAfterPrompt
    /\ Promise!HistoryMatchesOutcome

\* A client told "ok" finds the answer in its conversation, if that is still
\* there, even when the file it was told from is being written again.
ToldMatchesHistory ==
    \A t \in Turns :
        told[t] = "ok" /\ home[t] \in Existing(Stored) =>
            \E i \in DOMAIN Stored[home[t]].messages :
                Stored[home[t]].messages[i] = Answer(t)

\* The listing in the reply to a turn names its conversation, unless a thread
\* is saving at that moment, which the load without the lock may meet
\* (web_app.py:185), or a save failed.
ListingComplete ==
    [][\A t \in Turns :
        worker[t] = "starting" /\ worker'[t] = "waiting" =>
            \/ home[t] \in listing'[t]
            \/ \E u \in Turns : worker[u] = "saving"
            \/ spent.faults > 0]_vars

\* Every client is told how its turn ended, however small the pool that polls
\* and turns share, unless a failing save ended the thread (web_app.py:107)
\* before it set the status: then the client polls for ever.
EveryTurnIsTold ==
    \A t \in Turns :
        worker[t] = "waiting" ~>
            told[t] \in Final \/ (worker[t] = "broken" /\ status[t] = "waiting")
=============================================================================
