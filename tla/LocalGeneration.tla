-------------------------- MODULE LocalGeneration ---------------------------
(***************************************************************************)
(* The language model calls of one node (src/local_agent.py): answers and   *)
(* classifications, by whichever agents it is configured with.  All of them *)
(* block, so they run in trio's worker threads, which share one limiter.    *)
(*                                                                          *)
(* The AIaaS and the Transformers agent put waiting and running under       *)
(* fail_after and abandon the thread when it fires: the caller goes on, the *)
(* thread keeps its place until the request ends.  The Ollama agent has     *)
(* only the socket's timeout, which each piece of the reply starts anew, so *)
(* a server that trickles holds the thread and the caller.                  *)
(***************************************************************************)
EXTENDS Naturals, FiniteSets, SequencesExt

CONSTANTS
    ModelCalls, \* calls of generate
    ModelTimed, \* those under fail_after
    MayHang,    \* calls to a server, which may never complete its reply
    Places      \* the threads of the limiter: 40

ASSUME CallsAssumption == ModelTimed \subseteq ModelCalls /\ MayHang \subseteq ModelCalls
ASSUME PlacesAssumption == Places \in Nat \ {0}

VARIABLES
    caller,     \* caller[c]: where the await of generate is
    thread,     \* thread[c]: what runs _generate_sync
    queue       \* the calls that wait for a place, in the order they came

generationVars == <<caller, thread, queue>>

GenerateEnded == {"answered", "raised"}
Holding == {c \in ModelCalls : thread[c] \in {"working", "hung"}}

GenerationInit ==
    /\ caller = [c \in ModelCalls |-> "idle"]
    /\ thread = [c \in ModelCalls |-> "none"]
    /\ queue = <<>>

\* run_sync: a place, if one is free and nobody waits for it.
Generate(c) ==
    /\ caller[c] = "idle"
    /\ caller' = [caller EXCEPT ![c] = "awaiting"]
    /\ IF Cardinality(Holding) < Places /\ queue = <<>>
       THEN thread' = [thread EXCEPT ![c] = "working"] /\ UNCHANGED queue
       ELSE queue' = Append(queue, c) /\ UNCHANGED thread

\* The place of c goes to the call that has waited longest.
Freed(c) ==
    IF queue = <<>>
    THEN thread' = [thread EXCEPT ![c] = "ended"] /\ UNCHANGED queue
    ELSE /\ thread' = [thread EXCEPT ![c] = "ended", ![Head(queue)] = "working"]
         /\ queue' = Tail(queue)

\* The result of an abandoned thread is dropped.
Told(c, outcome) ==
    caller' = [caller EXCEPT ![c] = IF @ = "awaiting" THEN outcome ELSE @]

\* _generate_sync returns a text.
ThreadReturns(c) == thread[c] = "working" /\ Freed(c) /\ Told(c, "answered")

\* It raises: no key, a socket timeout, an HTTP error, a reply that does not
\* parse, that reports an error or has no choices.
ThreadRaises(c) == thread[c] = "working" /\ Freed(c) /\ Told(c, "raised")

ThreadEnds(c) == ThreadReturns(c) \/ ThreadRaises(c)

\* The server goes on sending pieces of its reply.
Hangs(c) ==
    /\ c \in MayHang /\ thread[c] = "working"
    /\ thread' = [thread EXCEPT ![c] = "hung"]
    /\ UNCHANGED <<caller, queue>>

\* MUTANT of GenerateTimesOut: who waits for a place is not under the timeout.
GenerateTimesOutRunning(c) ==
    /\ c \in ModelTimed /\ caller[c] = "awaiting" /\ thread[c] # "none"
    /\ caller' = [caller EXCEPT ![c] = "raised"]
    /\ UNCHANGED <<thread, queue>>

\* fail_after: a call that waits leaves the queue, a thread is abandoned.
GenerateTimesOut(c) ==
    /\ c \in ModelTimed /\ caller[c] = "awaiting"
    /\ caller' = [caller EXCEPT ![c] = "raised"]
    /\ queue' = RemoveFirst(queue, c)
    /\ UNCHANGED thread

GenerationNext ==
    \E c \in ModelCalls : Generate(c) \/ ThreadEnds(c) \/ Hangs(c) \/ GenerateTimesOut(c)

GenerationSpec == GenerationInit /\ [][GenerationNext]_generationVars

\* A request that does not hang ends; trio fires timeouts.
GenerationFairness ==
    \A c \in ModelCalls :
        WF_generationVars(ThreadEnds(c)) /\ WF_generationVars(GenerateTimesOut(c))

GenerationFairSpec == GenerationSpec /\ GenerationFairness
-----------------------------------------------------------------------------
\* A call ends, unless it has no timeout and either its own server trickles or
\* every place is held by a thread whose server does.
CallsEnd ==
    \A c \in ModelCalls :
        caller[c] = "awaiting" ~>
            \/ caller[c] \in GenerateEnded
            \/ c \notin ModelTimed /\ thread[c] = "hung"
            \/ c \notin ModelTimed /\ Cardinality({d \in ModelCalls : thread[d] = "hung"}) = Places
=============================================================================
