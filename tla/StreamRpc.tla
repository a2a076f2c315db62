----------------------------- MODULE StreamRpc ------------------------------
(***************************************************************************)
(* One call over a stream of its own, as all four protocols make it         *)
(* (src/transport.py and the services: ping, profile, recommend and query). *)
(* The client connects if it must, opens a stream, writes one JSON message  *)
(* and reads one; the peer's handler reads, works and writes; both close in *)
(* a finally clause.                                                        *)
(*                                                                          *)
(* A read returns what has arrived, which may be a part of the message:     *)
(* then it does not parse, and the reader raises.  A connection may go      *)
(* silent: nothing arrives any more, and nobody is told.                    *)
(***************************************************************************)
EXTENDS Naturals

CONSTANTS
    Calls,
    Timed,      \* the calls under fail_after: all but recommendations
    DialTimed   \* those whose dial is under it, too: not that of a ping

ASSUME TimedAssumption == DialTimed \subseteq Timed /\ Timed \subseteq Calls

VARIABLES
    client,     \* client[c]: where the caller is
    server,     \* server[c]: where the handler is
    sent,       \* sent[c]: the request was written
    request,    \* request[c]: what of it has arrived
    response,   \* response[c]: what of the reply has arrived
    silent      \* silent[c]: nothing arrives any more

rpcVars == <<client, server, sent, request, response, silent>>

Open == {"opening", "writing", "reading"}
CallEnded == {"ok", "failed"}       \* the stream is closed, if there was one
Closed == {"replied", "broken", "gone"}     \* the same, at the handler's side

RpcInit ==
    /\ client = [c \in Calls |-> "idle"]
    /\ server = [c \in Calls |-> "none"]
    /\ sent = [c \in Calls |-> FALSE]
    /\ request = [c \in Calls |-> "none"]
    /\ response = [c \in Calls |-> "none"]
    /\ silent = [c \in Calls |-> FALSE]

-----------------------------------------------------------------------------
(* The caller.                                                              *)

Call(c) ==
    /\ client[c] = "idle"
    /\ client' = [client EXCEPT ![c] = "connecting"]
    /\ UNCHANGED <<server, sent, request, response, silent>>

\* connect_to_peer: what comes of it is logged, and the stream decides.
Dialled(c) ==
    /\ client[c] = "connecting" /\ ~silent[c]
    /\ client' = [client EXCEPT ![c] = "opening"]
    /\ UNCHANGED <<server, sent, request, response, silent>>

\* open_stream; the peer's host starts the handler of the protocol.
Opened(c) ==
    /\ client[c] = "opening" /\ ~silent[c]
    /\ client' = [client EXCEPT ![c] = "writing"]
    /\ server' = [server EXCEPT ![c] = "reading"]
    /\ UNCHANGED <<sent, request, response, silent>>

\* send_message
Writes(c) ==
    /\ client[c] = "writing"
    /\ client' = [client EXCEPT ![c] = "reading"]
    /\ sent' = [sent EXCEPT ![c] = TRUE]
    /\ UNCHANGED <<server, request, response, silent>>

\* MUTANT of Reads: what has arrived is taken for the message.
ReadsAny(c) ==
    /\ client[c] = "reading" /\ response[c] # "none"
    /\ client' = [client EXCEPT ![c] = "ok"]
    /\ UNCHANGED <<server, sent, request, response, silent>>

\* receive_message: the reply parses, or a part of it does not.  (Of the types
\* and fields that are checked next, this code always sends the right ones.)
Reads(c) ==
    /\ client[c] = "reading" /\ response[c] # "none"
    /\ client' = [client EXCEPT ![c] = IF response[c] = "whole" THEN "ok" ELSE "failed"]
    /\ UNCHANGED <<server, sent, request, response, silent>>

\* An empty read: the handler has closed its side, or its process is gone.
ReadsEnd(c) ==
    /\ client[c] \in {"writing", "reading"} /\ response[c] = "none"
    /\ server[c] \in Closed /\ ~silent[c]
    /\ client' = [client EXCEPT ![c] = "failed"]
    /\ UNCHANGED <<server, sent, request, response, silent>>

\* Nothing listens there, or no connection is made.
OpenFails(c) ==
    /\ client[c] = "opening"
    /\ client' = [client EXCEPT ![c] = "failed"]
    /\ UNCHANGED <<server, sent, request, response, silent>>

\* MUTANT of TimesOut: the stream is opened outside of fail_after.
TimesOutOpened(c) ==
    /\ \/ c \in Timed /\ client[c] \in Open \ {"opening"}
       \/ c \in DialTimed /\ client[c] = "connecting"
    /\ client' = [client EXCEPT ![c] = "failed"]
    /\ UNCHANGED <<server, sent, request, response, silent>>

TimesOut(c) ==
    /\ \/ c \in Timed /\ client[c] \in Open
       \/ c \in DialTimed /\ client[c] = "connecting"
    /\ client' = [client EXCEPT ![c] = "failed"]
    /\ UNCHANGED <<server, sent, request, response, silent>>

-----------------------------------------------------------------------------
(* The handler.                                                             *)

HandlerReads(c) ==
    /\ server[c] = "reading" /\ request[c] # "none"
    /\ server' = [server EXCEPT ![c] = IF request[c] = "whole" THEN "working" ELSE "broken"]
    /\ UNCHANGED <<client, sent, request, response, silent>>

\* MUTANT of HandlerReadsEnd: the caller's end is not noticed.
HandlerReadsNoEnd(c) == server[c] = "reading" /\ request[c] # "none" /\ UNCHANGED rpcVars

\* The caller has closed its side; what was on the way may be lost.
HandlerReadsEnd(c) ==
    /\ server[c] = "reading" /\ request[c] = "none"
    /\ client[c] \in CallEnded /\ ~silent[c]
    /\ server' = [server EXCEPT ![c] = "broken"]
    /\ UNCHANGED <<client, sent, request, response, silent>>

\* The work ends and the reply is written, or one of both raises.
HandlerEnds(c) ==
    /\ server[c] = "working"
    /\ \E end \in {"replied", "broken"} : server' = [server EXCEPT ![c] = end]
    /\ UNCHANGED <<client, sent, request, response, silent>>

Dies(c) ==
    /\ server[c] \in {"reading", "working"}
    /\ server' = [server EXCEPT ![c] = "gone"]
    /\ UNCHANGED <<client, sent, request, response, silent>>

-----------------------------------------------------------------------------
(* The connection.                                                          *)

\* What has been written arrives, in one piece or in two.
More(arrived) == IF arrived = "none" THEN {"part", "whole"} ELSE {"whole"}

RequestArrives(c) ==
    /\ sent[c] /\ request[c] # "whole" /\ server[c] = "reading" /\ ~silent[c]
    /\ \E a \in More(request[c]) : request' = [request EXCEPT ![c] = a]
    /\ UNCHANGED <<client, server, sent, response, silent>>

ReplyArrives(c) ==
    /\ server[c] = "replied" /\ response[c] # "whole" /\ client[c] \in Open /\ ~silent[c]
    /\ \E a \in More(response[c]) : response' = [response EXCEPT ![c] = a]
    /\ UNCHANGED <<client, server, sent, request, silent>>

FallsSilent(c) ==
    /\ ~silent[c]
    /\ silent' = [silent EXCEPT ![c] = TRUE]
    /\ UNCHANGED <<client, server, sent, request, response>>

Caller(c) ==
    Dialled(c) \/ Opened(c) \/ OpenFails(c) \/ Writes(c) \/ Reads(c) \/ ReadsEnd(c)

Handler(c) == HandlerReads(c) \/ HandlerReadsEnd(c) \/ HandlerEnds(c)

RpcNext ==
    \E c \in Calls :
        \/ Call(c) \/ Caller(c) \/ TimesOut(c)
        \/ Handler(c) \/ Dies(c)
        \/ RequestArrives(c) \/ ReplyArrives(c) \/ FallsSilent(c)

RpcSpec == RpcInit /\ [][RpcNext]_rpcVars

\* Timeouts fire, tasks run, and what is written arrives unless the
\* connection is silent.  An open that nothing answers need not fail.
RpcFairness ==
    \A c \in Calls :
        /\ WF_rpcVars(TimesOut(c))
        /\ WF_rpcVars(Dialled(c)) /\ WF_rpcVars(Opened(c)) /\ WF_rpcVars(Writes(c))
        /\ WF_rpcVars(Reads(c)) /\ WF_rpcVars(ReadsEnd(c))
        /\ WF_rpcVars(Handler(c))
        /\ WF_rpcVars(RequestArrives(c)) /\ WF_rpcVars(ReplyArrives(c))

RpcFairSpec == RpcSpec /\ RpcFairness
-----------------------------------------------------------------------------
Arrived == {"none", "part", "whole"}

\* Every variable has its type.
RpcTypeOK ==
    /\ client \in [Calls -> {"idle", "connecting"} \cup Open \cup CallEnded]
    /\ server \in [Calls -> {"none", "reading", "working"} \cup Closed]
    /\ sent \in [Calls -> BOOLEAN] /\ silent \in [Calls -> BOOLEAN]
    /\ request \in [Calls -> Arrived] /\ response \in [Calls -> Arrived]

\* A call that succeeds was read whole, worked on and answered whole, however
\* the messages were cut ("WARNING: For this starter version we assume one full
\* JSON message is read at once", transport.py:49): cut ones fail.
OkMeansServed ==
    \A c \in Calls : client[c] = "ok" =>
        server[c] = "replied" /\ request[c] = "whole" /\ response[c] = "whole"

\* Every variable has its type, and a success means what it says.
CallsSound == RpcTypeOK /\ OkMeansServed

\* A call ends, also when the peer dies; and when the connection goes silent,
\* if the timeout covers what the call waits for: recommendations have none
\* (recommendation_service.py:147), and a ping dials before its own begins
\* (health_service.py:37).
EveryCallEnds ==
    \A c \in Calls :
        client[c] = "connecting" ~>
            \/ client[c] \in CallEnded
            \/ silent[c] /\ c \notin Timed
            \/ silent[c] /\ c \notin DialTimed /\ client[c] = "connecting"

\* A handler ends and closes its stream, when the caller gave up, too, unless
\* the connection goes silent: no handler reads under a timeout.
EveryHandlerEnds ==
    \A c \in Calls : server[c] = "reading" ~> server[c] \in Closed \/ silent[c]
=============================================================================
