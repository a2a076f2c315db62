------------------------------ MODULE NodeApi -------------------------------
(***************************************************************************)
(* A node's HTTP API (src/services/node_api_service.py): queries wait in a  *)
(* thread for the node's trio loop, which appends events to the progress of *)
(* their ids; anybody may read the progress of an id meanwhile.  The web    *)
(* gateway makes its ids up; other clients may use one again.               *)
(*                                                                          *)
(* The record of progress has its own lock, and nothing is awaited while it *)
(* is held, so a step below is a whole critical section.                    *)
(***************************************************************************)
EXTENDS Naturals, SequencesExt

CONSTANTS
    Requests, Ids, Pollers,
    NoId,           \* the id of a query that carries none
    KeptEvents,     \* how many events of an id are kept: 50
    MaxEvents       \* bound: events a query emits

ASSUME ApiAssumption ==
    /\ NoId \notin Ids
    /\ KeptEvents \in Nat \ {0} /\ MaxEvents \in Nat

VARIABLES
    id,         \* id[r]: the id that request r carries
    query,      \* query[r]: where the handler of r is
    emitted,    \* emitted[r]: how many events its execution has emitted
    progress,   \* progress[i]: the events recorded for id i
    reply,      \* reply[r]: the events in the reply to r
    seen,       \* seen[p]: the id poller p follows, what its last poll returned
    before      \* before[r]: the requests that had ended when r arrived

vars == <<id, query, emitted, progress, reply, seen, before>>

Event(r, n) == [of |-> r, n |-> n]
Unseen == [id |-> NoId, events |-> <<>>]
Ended == {"ok", "error"}

Init ==
    /\ id \in [Requests -> Ids \cup {NoId}]
    /\ query = [r \in Requests |-> "unsent"]
    /\ emitted = [r \in Requests |-> 0]
    /\ progress = [i \in Ids |-> <<>>]
    /\ reply = [r \in Requests |-> <<>>]
    /\ seen = [p \in Pollers |-> Unseen]
    /\ before = [r \in Requests |-> {}]

\* MUTANT of Receive: the progress of the id is not reset.
ReceiveUnreset(r) ==
    /\ query[r] = "unsent"
    /\ query' = [query EXCEPT ![r] = "running"]
    /\ before' = [before EXCEPT ![r] = {q \in Requests : query[q] \in Ended}]
    /\ UNCHANGED <<id, emitted, progress, reply, seen>>

\* query: the progress of its id is reset, and a thread hands the query to the
\* node's loop.
Receive(r) ==
    /\ query[r] = "unsent"
    /\ query' = [query EXCEPT ![r] = "running"]
    /\ before' = [before EXCEPT ![r] = {q \in Requests : query[q] \in Ended}]
    /\ progress' = [i \in Ids |-> IF i = id[r] THEN <<>> ELSE progress[i]]
    /\ UNCHANGED <<id, emitted, reply, seen>>

\* MUTANT of Recorded: when there are enough, all are dropped but the new one.
RecordedRestarted(events, e) ==
    IF Len(events) = KeptEvents THEN <<e>> ELSE Append(events, e)

\* _append_progress_event: the last KeptEvents are kept.
Recorded(events, e) ==
    LET all == Append(events, e)
    IN  IF Len(all) > KeptEvents THEN Tail(all) ELSE all

\* The query tells of its progress; an id of none is no key of the record.
Emit(r) ==
    /\ query[r] = "running"
    /\ emitted[r] < MaxEvents
    /\ emitted' = [emitted EXCEPT ![r] = @ + 1]
    /\ progress' = [i \in Ids |->
                       IF i = id[r] THEN Recorded(progress[i], Event(r, emitted'[r]))
                       ELSE progress[i]]
    /\ UNCHANGED <<id, query, reply, seen, before>>

\* answer_query returns, in the node's loop, or raises.
Returns(r) ==
    /\ query[r] = "running"
    /\ \E result \in {"answered", "raised"} : query' = [query EXCEPT ![r] = result]
    /\ UNCHANGED <<id, emitted, progress, reply, seen, before>>

\* The handler goes on later: an answer carries the events its id has then.
Reply(r) ==
    /\ query[r] = "answered"
    /\ query' = [query EXCEPT ![r] = "ok"]
    /\ reply' = [reply EXCEPT ![r] = IF id[r] = NoId THEN <<>> ELSE progress[id[r]]]
    /\ UNCHANGED <<id, emitted, progress, seen, before>>

\* Status 500, with the text of the exception.
ReplyError(r) ==
    /\ query[r] = "raised"
    /\ query' = [query EXCEPT ![r] = "error"]
    /\ UNCHANGED <<id, emitted, progress, reply, seen, before>>

\* query_progress, for a client that follows one id.
Poll(p, i) ==
    /\ seen[p].id \in {NoId, i}
    /\ seen' = [seen EXCEPT ![p] = [id |-> i, events |-> progress[i]]]
    /\ UNCHANGED <<id, query, emitted, progress, reply, before>>

Next ==
    \/ \E r \in Requests : Receive(r) \/ Emit(r) \/ Returns(r) \/ Reply(r) \/ ReplyError(r)
    \/ \E p \in Pollers, i \in Ids : Poll(p, i)

Spec == Init /\ [][Next]_vars
-----------------------------------------------------------------------------
Events == [of : Requests, n : 1 .. MaxEvents]

\* Every variable has its type, and no id has more events than are kept.
TypeOK ==
    /\ id \in [Requests -> Ids \cup {NoId}]
    /\ query \in [Requests -> {"unsent", "running", "answered", "raised"} \cup Ended]
    /\ emitted \in [Requests -> 0 .. MaxEvents]
    /\ progress \in [Ids -> {e \in Seq(Events) : Len(e) <= KeptEvents}]
    /\ reply \in [Requests -> Seq(Events)]
    /\ seen \in [Pollers -> [id : Ids \cup {NoId}, events : Seq(Events)]]
    /\ before \in [Requests -> SUBSET Requests]

\* Nobody used the id of r while r was there.
Alone(r) == \A q \in Requests \ {r} :
    id[q] = id[r] => query[q] = "unsent" \/ q \in before[r]

\* The last of the first n events of r, as many as are kept.
Dropped(n) == IF n > KeptEvents THEN n - KeptEvents ELSE 0
LastEvents(r, n) == [k \in 1 .. n - Dropped(n) |-> Event(r, Dropped(n) + k)]

\* An answer carries the last events of its own execution, in order, up to the
\* final one, and none of a query that used the id before, unless another
\* query uses the id meanwhile.
AnswerCarriesItsEvents ==
    \A r \in Requests :
        query[r] = "ok" /\ id[r] # NoId /\ Alone(r) => reply[r] = LastEvents(r, emitted[r])

\* Every variable has its type, and answers carry their own events.
AnswersSound == TypeOK /\ AnswerCarriesItsEvents

\* What a poller has seen stays true: a later poll shows the same events and
\* newer ones, and the oldest are dropped only when there are enough, unless
\* the id is used twice.
Continues(old, new) ==
    \E drop \in 0 .. Len(old) :
        /\ IsPrefix(SubSeq(old, drop + 1, Len(old)), new)
        /\ drop > 0 => Len(new) = KeptEvents

PollsOnlyAdvance ==
    [][\A p \in Pollers :
        seen[p].id # NoId /\ (\E r \in Requests : {q \in Requests : id[q] = seen[p].id} = {r}) =>
            Continues(seen[p].events, seen'[p].events)]_vars
=============================================================================
