---------------------------- MODULE QueryRouting ----------------------------
(***************************************************************************)
(* One entry node answering queries: QueryService.answer_query with         *)
(* everything it calls on the node (RoutingService, HealthService, the      *)
(* client sides of PingService, ProfileService, RecommendationService,      *)
(* DHTService and query_peer), and the execution of the forwarded queries   *)
(* at the selected peers.                                                   *)
(*                                                                          *)
(* Each query is a trio task.  trio runs one task at a time and switches    *)
(* only at an await, so a step below is the code between two awaits, or a   *)
(* part of it: a task inside such a stretch keeps the processor (MayRun).   *)
(* The tasks share the peer registry and nothing else.  What an await       *)
(* returns is a choice over everything the network can answer, the timeout  *)
(* included; the remote executions run on their own and outlive the entry   *)
(* node's patience.                                                         *)
(***************************************************************************)
EXTENDS PeerRegistry, RoutingScore

CONSTANTS
    NoNode,            \* no peer selected
    Queries,           \* the queries in flight, one task each
    Quality,           \* Quality[n]: the capability scores in n's profile
    Advertised,        \* Advertised[n]: the capabilities n advertises
    ClassifiedMixes,   \* what the classifier may return
    GivenMixes,        \* mixes a query may arrive with, as the client wrote them
    ClientExclusions,  \* excluded_peer_ids a query may arrive with
    Rtts,              \* measured round trips
    Talkers,           \* peers whose profiles other handlers of the node refresh
    Aging              \* peers whose status may outlive its time to live

ASSUME NoNodeAssumption == NoNode \notin Nodes
ASSUME ProfileAssumption ==
    /\ Quality \in [Nodes -> [Caps -> 0 .. 100]]
    /\ Advertised \in [Nodes -> SUBSET Caps]
ASSUME InputAssumption ==
    /\ ClassifiedMixes \subseteq Mix
    /\ \A raw \in GivenMixes : IsRaw(raw)
    /\ ClientExclusions \subseteq SUBSET Nodes
    /\ Rtts \subseteq Nat
    /\ Talkers \subseteq Nodes \ {Self}
    /\ Aging \subseteq Nodes

MAX_FORWARD_ATTEMPTS == 2
MAX_RECOMMENDATIONS_PER_PEER == 3

VARIABLES
    registry,  \* the node's PeerRegistry
    task,      \* task[q]: the frame of the coroutine answering q
    calls      \* calls[q]: the forwards of q, in order: the peer and how it fares

vars == <<registry, task, calls>>

-----------------------------------------------------------------------------
(* The frame of a task.  pc says what it waits for or is about to do:       *)
(*   idle         the query has not arrived                                 *)
(*   classify     waits for the classifier                                  *)
(*   lookup       waits for the DHT, on the next capability of caps         *)
(*   profiles     waits for the profiles of the providers in todo           *)
(*   direct       waits for pings of the direct candidates in todo          *)
(*   ask          waits for the recommendations of the peers in todo, on    *)
(*                the next capability of caps; ids are the ones to consider *)
(*   fetch        waits for the profile of target, a recommended id         *)
(*   recommended  waits for pings of the recommended candidates in todo     *)
(*   decided      the router has returned target                            *)
(*   generate     waits for the local model                                 *)
(*   connect, reply   wait for the forward to target                        *)
(*   done, escaped    answer_query has returned status, or has raised       *)

PCs == {"idle", "classify", "lookup", "profiles", "direct", "ask", "fetch",
        "recommended", "decided", "generate", "connect", "reply", "done", "escaped"}

Results == {"none", "ok", "no_suitable_node", "routing_error", "generation_error"}

\* The candidate has not been evaluated in this search.
Unscored == -1

NoScores == [n \in Nodes |-> Unscored]

IdleTask ==
    [pc |-> "idle", mix |-> DefaultMix, general |-> FALSE, excluded |-> {},
     caps |-> {}, todo |-> {}, ids |-> {}, direct |-> {}, recommended |-> {},
     score |-> NoScores, target |-> NoNode, status |-> "none"]

\* How a forward fares: the entry node connects, the request is on the wire,
\* the peer generates, the reply is on its way; or it never comes to that.
CallStates == {"connecting", "sent", "running", "lost",
               "ok", "generation_error", "routing_error"}
Replies == {"ok", "generation_error", "routing_error"}

Init ==
    /\ registry = EmptyRegistry
    /\ task = [q \in Queries |-> IdleTask]
    /\ calls = [q \in Queries |-> <<>>]

\* The mix of the search in progress: the query's, or the general retry's.
SearchMix(t) == IF t.general THEN GeneralMix ELSE t.mix

\* The task is suspended at an await.
Awaits(t) ==
    \/ t.pc \in {"idle", "classify", "fetch", "generate", "connect", "reply", "done", "escaped"}
    \/ t.pc = "lookup" /\ t.caps # {}
    \/ t.pc \in {"profiles", "direct", "recommended"} /\ t.todo # {}
    \/ t.pc = "ask" /\ t.ids = {} /\ t.todo # {}

\* No other task is between two awaits.
MayRun(q) == \A p \in Queries \ {q} : Awaits(task[p])

\* The task of q moves to frame t.
Become(q, t) == task' = [task EXCEPT ![q] = t]

Returns(t, status) == [t EXCEPT !.pc = "done", !.status = status]

\* An exception leaves the router.  The first call of route_query is guarded;
\* the one that follows a failed forward is not.
Raises(q, t) ==
    IF calls[q] = <<>> THEN Returns(t, "routing_error") ELSE [t EXCEPT !.pc = "escaped"]

Providers(c) == {n \in Nodes : c \in Advertised[n]}

-----------------------------------------------------------------------------
(* route_query: classification, then the search.                            *)

\* The start of _search_scored_capabilities, in a frame of its own.
BeginSearch(excluded, mix, general) ==
    [IdleTask EXCEPT
        !.pc = "lookup", !.mix = mix, !.general = general, !.excluded = excluded,
        !.caps = DiscoveryCapabilities(IF general THEN GeneralMix ELSE mix)]

\* A query arrives without a mix: the classifier is asked.
Submit(q) ==
    /\ MayRun(q)
    /\ task[q].pc = "idle"
    /\ \E excluded \in ClientExclusions :
           Become(q, [task[q] EXCEPT !.pc = "classify", !.excluded = excluded])
    /\ UNCHANGED <<registry, calls>>

\* A query arrives with a mix, which is normalised and used as it is.
SubmitClassified(q) ==
    /\ MayRun(q)
    /\ task[q].pc = "idle"
    /\ \E excluded \in ClientExclusions, raw \in GivenMixes :
           Become(q, BeginSearch(excluded, Normalize(raw), FALSE))
    /\ UNCHANGED <<registry, calls>>

Classified(q) ==
    /\ MayRun(q)
    /\ task[q].pc = "classify"
    /\ \E mix \in ClassifiedMixes : Become(q, BeginSearch(task[q].excluded, mix, FALSE))
    /\ UNCHANGED <<registry, calls>>

ClassifierRaises(q) ==
    /\ MayRun(q)
    /\ task[q].pc = "classify"
    /\ Become(q, Returns(task[q], "routing_error"))
    /\ UNCHANGED <<registry, calls>>

-----------------------------------------------------------------------------
(* refresh_candidates_from_dht, for each capability worth a lookup.         *)

\* The DHT names some of the providers, none when it times out.
LookupReturns(q) ==
    LET t == task[q] IN
    /\ MayRun(q)
    /\ t.pc = "lookup"
    /\ \E c \in t.caps :
        /\ IsFirstOf(c, t.caps, SearchMix(t))
        /\ \E found \in SUBSET Providers(c) :
               Become(q, [t EXCEPT !.pc = "profiles", !.caps = @ \ {c}, !.todo = found \ {Self}])
    /\ UNCHANGED <<registry, calls>>

LookupRaises(q) ==
    /\ MayRun(q)
    /\ task[q].pc = "lookup"
    /\ task[q].caps # {}
    /\ Become(q, Raises(q, task[q]))
    /\ UNCHANGED <<registry, calls>>

ProfileServed(q) ==
    LET t == task[q] IN
    /\ MayRun(q)
    /\ t.pc = "profiles"
    /\ \E n \in t.todo :
        /\ registry' = Upsert(registry, n)
        /\ Become(q, [t EXCEPT !.todo = @ \ {n}])
    /\ UNCHANGED calls

\* request_profile returns None: too slow, unreachable, or a bad reply.
ProfileMissing(q) ==
    LET t == task[q] IN
    /\ MayRun(q)
    /\ t.pc = "profiles"
    /\ \E n \in t.todo : Become(q, [t EXCEPT !.todo = @ \ {n}])
    /\ UNCHANGED <<registry, calls>>

ProvidersVisited(q) ==
    LET t == task[q] IN
    /\ MayRun(q)
    /\ t.pc = "profiles"
    /\ t.todo = {}
    /\ Become(q, [t EXCEPT !.pc = "lookup"])
    /\ UNCHANGED <<registry, calls>>

-----------------------------------------------------------------------------
(* The direct stage: the node itself and the peers the registry lists.      *)

\* The router never considers these: the query's excluded peers and itself.
Excluded(t) == t.excluded \cup {Self}

Candidate(t, n) ==
    /\ n \notin Excluded(t)
    /\ registry.profile[n] = "available"
    /\ HasAnyRequested(Quality[n], SearchMix(t))

LocalScore(t) == ScoreOf(SearchMix(t), Quality[Self], TRUE, 0, 0)

\* The score of peer n by what registry reg says of it.
RemoteScore(t, n, reg) ==
    LET status == reg.status[n] IN
    ScoreOf(SearchMix(t), Quality[n], IsPeerFreshLive(reg, n),
            status.failures, IF status.rtt = NoRtt THEN 0 ELSE status.rtt)

BeginDirect(q) ==
    LET t == task[q]
        candidates == {n \in Nodes : Candidate(t, n)} IN
    /\ MayRun(q)
    /\ t.pc = "lookup"
    /\ t.caps = {}
    /\ Become(q, [t EXCEPT !.pc = "direct", !.direct = candidates, !.todo = candidates,
                           !.score = IF HasAnyRequested(Quality[Self], SearchMix(t))
                                     THEN [NoScores EXCEPT ![Self] = LocalScore(t)]
                                     ELSE NoScores])
    /\ UNCHANGED <<registry, calls>>

\* The candidates evaluated so far in this search.
Evaluated(t) == {n \in Nodes : t.score[n] # Unscored}

\* MUTANT of PingSucceeds: the score is read before the ping is recorded.
PingSucceedsScoredBefore(q) ==
    LET t == task[q] IN
    /\ MayRun(q)
    /\ t.pc \in {"direct", "recommended"}
    /\ \E n \in t.todo, rtt \in Rtts :
        /\ registry' = MarkAlive(registry, n, rtt)
        /\ Become(q, [t EXCEPT !.todo = @ \ {n},
                               !.score[n] = RemoteScore(t, n, registry)])
    /\ UNCHANGED calls

\* _evaluate_scored_candidate after check_peer: the peer answered the ping, is
\* marked alive, and is scored at once with what the registry then says.
PingSucceeds(q) ==
    LET t == task[q] IN
    /\ MayRun(q)
    /\ t.pc \in {"direct", "recommended"}
    /\ \E n \in t.todo, rtt \in Rtts :
        /\ registry' = MarkAlive(registry, n, rtt)
        /\ Become(q, [t EXCEPT !.todo = @ \ {n},
                               !.score[n] = RemoteScore(t, n, registry')])
    /\ UNCHANGED calls

PingFails(q) ==
    LET t == task[q] IN
    /\ MayRun(q)
    /\ t.pc \in {"direct", "recommended"}
    /\ \E n \in t.todo :
        /\ registry' = MarkUnreachable(registry, n)
        /\ Become(q, [t EXCEPT !.todo = @ \ {n}])
    /\ UNCHANGED calls

\* _best_candidate over a pool: max takes the first of equals, which is the
\* node itself, then the direct candidates, then the recommended ones.
Best(t, pool) ==
    {n \in pool :
        \A m \in pool :
            \/ t.score[n] > t.score[m]
            \/ /\ t.score[n] = t.score[m]
               /\ m = Self => n = Self
               /\ m \in t.direct => n \notin t.recommended}

\* The best of the pool reaches MIN_ROUTING_SCORE_THRESHOLD.
Suffices(t, pool) == \E n \in pool : t.score[n] >= Threshold(SearchMix(t))

Select(q, t, pool) ==
    \E n \in Best(t, pool) : Become(q, [t EXCEPT !.pc = "decided", !.target = n])

\* The direct candidates to ask for recommendations on capability c.
CapableSources(t, c) == {n \in t.direct : c \in Advertised[n]}

\* The loop over the mix's capabilities enters the first of caps.
AskOn(t, caps) ==
    IF caps = {} THEN [t EXCEPT !.pc = "ask", !.caps = {}, !.todo = {}]
    ELSE LET c == CHOOSE c \in caps : IsFirstOf(c, caps, SearchMix(t))
         IN  [t EXCEPT !.pc = "ask", !.caps = caps, !.todo = CapableSources(t, c)]

\* MUTANT of DirectEvaluated: the first stage always decides when it can.
DirectEvaluatedNoThreshold(q) ==
    LET t == task[q] IN
    /\ MayRun(q)
    /\ t.pc = "direct"
    /\ t.todo = {}
    /\ IF t.direct \cap Evaluated(t) # {}
       THEN Select(q, t, t.direct \cap Evaluated(t))
       ELSE Become(q, AskOn(t, CapsOf(SearchMix(t))))
    /\ UNCHANGED <<registry, calls>>

DirectEvaluated(q) ==
    LET t == task[q] IN
    /\ MayRun(q)
    /\ t.pc = "direct"
    /\ t.todo = {}
    /\ IF Suffices(t, Evaluated(t))
       THEN Select(q, t, Evaluated(t))
       ELSE Become(q, AskOn(t, CapsOf(SearchMix(t))))
    /\ UNCHANGED <<registry, calls>>

-----------------------------------------------------------------------------
(* _get_recommended_candidates: for each capability of the mix, each direct *)
(* candidate that advertises it is asked; what it recommends is looked up.  *)

\* The ids a request lists in exclude_peer_ids, which it never takes back.
RecommendationExcluded(t) == Excluded(t) \cup t.direct \cup t.recommended

\* The reply of a peer: peers it knows that advertise c and are not excluded,
\* at most the limit; nothing when the request fails.
Recommendations(t, c) ==
    {ids \in SUBSET (Providers(c) \ RecommendationExcluded(t)) :
        Cardinality(ids) <= MAX_RECOMMENDATIONS_PER_PEER}

RecommendationsReturn(q) ==
    LET t == task[q] IN
    /\ MayRun(q)
    /\ t.pc = "ask"
    /\ t.ids = {}
    /\ \E c \in t.caps, source \in t.todo :
        /\ IsFirstOf(c, t.caps, SearchMix(t))
        /\ \E ids \in Recommendations(t, c) :
               Become(q, [t EXCEPT !.todo = @ \ {source}, !.ids = ids])
    /\ UNCHANGED <<registry, calls>>

\* n joins the recommended candidates if its profile is available and it has
\* a requested capability.
Recommended(t, n, reg) ==
    IF reg.profile[n] = "available" /\ HasAnyRequested(Quality[n], SearchMix(t))
    THEN [t EXCEPT !.recommended = @ \cup {n}] ELSE t

\* A recommended id that is excluded, or that the registry knows.
ConsiderKnown(q) ==
    LET t == task[q] IN
    /\ MayRun(q)
    /\ t.pc = "ask"
    /\ \E n \in t.ids :
        LET rest == [t EXCEPT !.ids = @ \ {n}] IN
        /\ n \in RecommendationExcluded(t) \/ registry.profile[n] # "absent"
        /\ Become(q, IF n \in RecommendationExcluded(t) THEN rest
                     ELSE Recommended(rest, n, registry))
    /\ UNCHANGED <<registry, calls>>

\* A recommended id the registry does not know: its profile is fetched.
FetchRecommended(q) ==
    LET t == task[q] IN
    /\ MayRun(q)
    /\ t.pc = "ask"
    /\ \E n \in t.ids :
        /\ n \notin RecommendationExcluded(t)
        /\ registry.profile[n] = "absent"
        /\ Become(q, [t EXCEPT !.pc = "fetch", !.ids = @ \ {n}, !.target = n])
    /\ UNCHANGED <<registry, calls>>

FetchServed(q) ==
    LET t == task[q] IN
    /\ MayRun(q)
    /\ t.pc = "fetch"
    /\ registry' = Upsert(registry, t.target)
    /\ Become(q, Recommended([t EXCEPT !.pc = "ask", !.target = NoNode], t.target, registry'))
    /\ UNCHANGED calls

FetchMissing(q) ==
    /\ MayRun(q)
    /\ task[q].pc = "fetch"
    /\ Become(q, [task[q] EXCEPT !.pc = "ask", !.target = NoNode])
    /\ UNCHANGED <<registry, calls>>

\* The DHT lookup inside _fetch_profile_from_dht_provider raises.
FetchRaises(q) ==
    /\ MayRun(q)
    /\ task[q].pc = "fetch"
    /\ Become(q, Raises(q, [task[q] EXCEPT !.target = NoNode]))
    /\ UNCHANGED <<registry, calls>>

\* Every source of the current capability has been asked.
SourcesAsked(q) ==
    LET t == task[q] IN
    /\ MayRun(q)
    /\ t.pc = "ask"
    /\ t.ids = {}
    /\ t.todo = {}
    /\ \E c \in t.caps :
        /\ IsFirstOf(c, t.caps, SearchMix(t))
        /\ Become(q, AskOn(t, t.caps \ {c}))
    /\ UNCHANGED <<registry, calls>>

RecommendationsDone(q) ==
    LET t == task[q] IN
    /\ MayRun(q)
    /\ t.pc = "ask"
    /\ t.ids = {}
    /\ t.caps = {}
    /\ Become(q, [t EXCEPT !.pc = "recommended", !.todo = t.recommended])
    /\ UNCHANGED <<registry, calls>>

\* MUTANT of NoCandidate: there is no retry.
NoCandidateGivesUp(q, t) == Become(q, Returns(t, "no_suitable_node"))

\* MUTANT of NoCandidate: the retry's mix becomes the query's.
NoCandidateForgets(q, t) ==
    IF t.general \/ General \in CapsOf(t.mix)
    THEN Become(q, Returns(t, "no_suitable_node"))
    ELSE Become(q, BeginSearch(t.excluded, GeneralMix, TRUE))

\* MUTANT of NoCandidate: the retry is repeated until somebody is found.
NoCandidateRetriesAgain(q, t) ==
    IF General \in CapsOf(t.mix)
    THEN Become(q, Returns(t, "no_suitable_node"))
    ELSE Become(q, BeginSearch(t.excluded, t.mix, TRUE))

\* The end of a search that evaluated no candidate: route_query searches again
\* for the general capability unless the query asked for it already.
NoCandidate(q, t) ==
    IF t.general \/ General \in CapsOf(t.mix)
    THEN Become(q, Returns(t, "no_suitable_node"))
    ELSE Become(q, BeginSearch(t.excluded, t.mix, TRUE))

\* MUTANT of RecommendedEvaluated: below the threshold nobody is suitable.
RecommendedEvaluatedStrict(q) ==
    LET t == task[q] IN
    /\ MayRun(q)
    /\ t.pc = "recommended"
    /\ t.todo = {}
    /\ IF Suffices(t, t.recommended \cap Evaluated(t))
       THEN Select(q, t, t.recommended \cap Evaluated(t))
       ELSE Become(q, Returns(t, "no_suitable_node"))
    /\ UNCHANGED <<registry, calls>>

RecommendedEvaluated(q) ==
    LET t == task[q]
        pool == t.recommended \cap Evaluated(t) IN
    /\ MayRun(q)
    /\ t.pc = "recommended"
    /\ t.todo = {}
    /\ \/ Suffices(t, pool) /\ Select(q, t, pool)
       \/ ~Suffices(t, pool) /\ Evaluated(t) # {} /\ Select(q, t, Evaluated(t))
       \/ Evaluated(t) = {} /\ NoCandidate(q, t)
    /\ UNCHANGED <<registry, calls>>

-----------------------------------------------------------------------------
(* answer_query: what it does with the router's decision.                   *)

ExecuteLocally(q) ==
    /\ MayRun(q)
    /\ task[q].pc = "decided"
    /\ task[q].target = Self
    /\ Become(q, [task[q] EXCEPT !.pc = "generate"])
    /\ UNCHANGED <<registry, calls>>

GenerationSucceeds(q) ==
    /\ MayRun(q)
    /\ task[q].pc = "generate"
    /\ Become(q, Returns(task[q], "ok"))
    /\ UNCHANGED <<registry, calls>>

\* Guarded when the node is the first choice, not after a failed forward.
GenerationRaises(q) ==
    /\ MayRun(q)
    /\ task[q].pc = "generate"
    /\ Become(q, IF calls[q] = <<>> THEN Returns(task[q], "generation_error")
                 ELSE [task[q] EXCEPT !.pc = "escaped"])
    /\ UNCHANGED <<registry, calls>>

StartForward(q) ==
    /\ MayRun(q)
    /\ task[q].pc = "decided"
    /\ task[q].target # Self
    /\ calls' = [calls EXCEPT ![q] = Append(@, [node |-> task[q].target, state |-> "connecting"])]
    /\ Become(q, [task[q] EXCEPT !.pc = "connect"])
    /\ UNCHANGED registry

\* The current forward of q.
Current(q) == Len(calls[q])

\* query_peer has its stream and writes the query.
SendQuery(q) ==
    /\ MayRun(q)
    /\ task[q].pc = "connect"
    /\ calls' = [calls EXCEPT ![q][Current(q)].state = "sent"]
    /\ Become(q, [task[q] EXCEPT !.pc = "reply"])
    /\ UNCHANGED registry

\* MUTANT of ForwardFails: the failed peer is not excluded.
ForwardFailsNotExcluded(q) ==
    LET t == task[q] IN
    /\ MayRun(q)
    /\ t.pc \in {"connect", "reply"}
    /\ registry' = MarkUnreachable(registry, t.target)
    /\ Become(q, IF Current(q) = MAX_FORWARD_ATTEMPTS
                 THEN Returns(t, "no_suitable_node") ELSE BeginSearch(t.excluded, t.mix, FALSE))
    /\ calls' = IF t.pc = "connect" THEN [calls EXCEPT ![q][Current(q)].state = "lost"] ELSE calls

\* MUTANT of ForwardFails: the loop runs once more.
ForwardFailsOnceMore(q) ==
    LET t == task[q]
        failed == [t EXCEPT !.excluded = @ \cup {t.target}] IN
    /\ MayRun(q)
    /\ t.pc \in {"connect", "reply"}
    /\ registry' = MarkUnreachable(registry, t.target)
    /\ Become(q, IF Current(q) > MAX_FORWARD_ATTEMPTS
                 THEN Returns(failed, "no_suitable_node") ELSE BeginSearch(failed.excluded, t.mix, FALSE))
    /\ calls' = IF t.pc = "connect" THEN [calls EXCEPT ![q][Current(q)].state = "lost"] ELSE calls

\* MUTANT of ForwardFails: the query is sent to the same peer again, and again.
ForwardFailsSentAgain(q) ==
    LET t == task[q] IN
    /\ MayRun(q)
    /\ t.pc \in {"connect", "reply"}
    /\ registry' = MarkUnreachable(registry, t.target)
    /\ Become(q, [t EXCEPT !.pc = "reply"])
    /\ calls' = [calls EXCEPT ![q][Current(q)].state = "sent"]

\* query_peer fails: no stream in time, no reply in time, a broken stream, a
\* reply that does not parse or does not match.  The peer is marked and
\* excluded, and unless this was the last attempt the router is called again.
ForwardFails(q) ==
    LET t == task[q]
        failed == [t EXCEPT !.excluded = @ \cup {t.target}] IN
    /\ MayRun(q)
    /\ t.pc \in {"connect", "reply"}
    /\ registry' = MarkUnreachable(registry, t.target)
    /\ Become(q, IF Current(q) = MAX_FORWARD_ATTEMPTS
                 THEN Returns(failed, "no_suitable_node") ELSE BeginSearch(failed.excluded, t.mix, FALSE))
    /\ calls' = IF t.pc = "connect" THEN [calls EXCEPT ![q][Current(q)].state = "lost"] ELSE calls

\* MUTANT of ReplyArrives: a late reply to an earlier attempt is taken too.
AnyReplyArrives(q) ==
    LET t == task[q] IN
    /\ MayRun(q)
    /\ t.pc = "reply"
    /\ \E i \in DOMAIN calls[q] :
        /\ calls[q][i].state \in Replies
        /\ registry' = MarkAlive(registry, t.target, NoRtt)
        /\ Become(q, Returns(t, calls[q][i].state))
    /\ UNCHANGED calls

\* The reply to the current forward: its status is the query's.
ReplyArrives(q) ==
    LET t == task[q]
        reply == calls[q][Current(q)].state IN
    /\ MayRun(q)
    /\ t.pc = "reply"
    /\ reply \in Replies
    /\ registry' = MarkAlive(registry, t.target, NoRtt)
    /\ Become(q, Returns(t, reply))
    /\ UNCHANGED calls

-----------------------------------------------------------------------------
(* The selected peers: the branch of answer_query for forwarded queries.    *)
(* Nothing tells them that the entry node has given up.                     *)

SetCall(q, i, state) ==
    /\ calls' = [calls EXCEPT ![q][i].state = state]
    /\ UNCHANGED <<registry, task>>

\* A node that reads a query it routed itself refuses it; any other generates.
PeerReceives(q, i) ==
    /\ calls[q][i].state = "sent"
    /\ SetCall(q, i, IF calls[q][i].node = Self THEN "routing_error" ELSE "running")

PeerAnswers(q, i) ==
    /\ calls[q][i].state = "running"
    /\ \E state \in {"ok", "generation_error"} : SetCall(q, i, state)

\* The peer stops, or the stream breaks, before the reply is written.
PeerLost(q, i) ==
    /\ calls[q][i].state \in {"sent", "running"}
    /\ SetCall(q, i, "lost")

-----------------------------------------------------------------------------
(* The rest of the node, and time.                                          *)

\* The gossip listener, or a recommendation request being served, stores a
\* profile it was served, in a task of its own.
Refresh(n) ==
    /\ \A q \in Queries : Awaits(task[q])
    /\ registry' = Upsert(registry, n)
    /\ UNCHANGED <<task, calls>>

\* Time passes: the status of n outlives its time to live.
Age(n) ==
    /\ registry.status[n].checked = "fresh"
    /\ registry' = Expire(registry, n)
    /\ UNCHANGED <<task, calls>>

Final(t) == t.pc \in {"done", "escaped"}

AllAnswered ==
    /\ \A q \in Queries : Final(task[q])
    /\ UNCHANGED vars

\* The ends of awaits that may last for ever.
ModelReturns(q) ==
    \/ Classified(q) \/ ClassifierRaises(q)
    \/ GenerationSucceeds(q) \/ GenerationRaises(q)

PingReturns(q) == PingSucceeds(q) \/ PingFails(q)

\* The steps that come in time: none waits, or what it waits for has a timeout.
RouteInTime(q) ==
    \/ LookupReturns(q) \/ LookupRaises(q)
    \/ ProfileServed(q) \/ ProfileMissing(q) \/ ProvidersVisited(q)
    \/ BeginDirect(q) \/ DirectEvaluated(q)
    \/ ConsiderKnown(q) \/ FetchRecommended(q)
    \/ FetchServed(q) \/ FetchMissing(q) \/ FetchRaises(q)
    \/ SourcesAsked(q) \/ RecommendationsDone(q) \/ RecommendedEvaluated(q)

ExecuteInTime(q) ==
    \/ ExecuteLocally(q)
    \/ StartForward(q) \/ SendQuery(q) \/ ForwardFails(q) \/ ReplyArrives(q)

Route(q) == Classified(q) \/ ClassifierRaises(q) \/ PingReturns(q) \/ RouteInTime(q)

Execute(q) == GenerationSucceeds(q) \/ GenerationRaises(q) \/ ExecuteInTime(q)

Peer(q) ==
    \E i \in DOMAIN calls[q] : PeerReceives(q, i) \/ PeerAnswers(q, i) \/ PeerLost(q, i)

Next ==
    \/ \E q \in Queries :
        \/ Submit(q) \/ SubmitClassified(q)
        \/ Route(q) \/ RecommendationsReturn(q) \/ Execute(q)
        \/ Peer(q)
    \/ \E n \in Talkers : Refresh(n)
    \/ \E n \in Aging : Age(n)
    \/ AllAnswered

Spec == Init /\ [][Next]_vars

-----------------------------------------------------------------------------
(* Fairness.  The scheduler runs every task that is ready; profile requests *)
(* and forwards run under fail_after, DHT lookups under move_on_after, and  *)
(* closing a stream is taken to end.  Three awaits have no timeout: the     *)
(* dial before a ping, a call of a model (OllamaAgent has only a timeout of *)
(* its socket), and a recommendation request.                               *)

Fairness == \A q \in Queries : WF_vars(RouteInTime(q) \/ ExecuteInTime(q))

FairSpec == Spec /\ Fairness

\* The models answer and the dials end: what is left is the peers that are
\* asked for recommendations.
ModelsAnswer == \A q \in Queries : WF_vars(ModelReturns(q))
DialsEnd == \A q \in Queries : WF_vars(PingReturns(q))

PatientSpec == FairSpec /\ ModelsAnswer /\ DialsEnd

-----------------------------------------------------------------------------
(* Properties *)

Tasks ==
    [pc : PCs, mix : Mix, general : BOOLEAN, excluded : SUBSET Nodes,
     caps : SUBSET Caps, todo : SUBSET Nodes, ids : SUBSET Nodes,
     direct : SUBSET Nodes, recommended : SUBSET Nodes,
     score : [Nodes -> {Unscored} \cup Nat],
     target : Nodes \cup {NoNode}, status : Results]

Calls == [node : Nodes, state : CallStates]

\* Every variable keeps its type, and a query has at most MAX_FORWARD_ATTEMPTS
\* forwards.
TypeOK ==
    /\ registry \in Registries
    /\ task \in [Queries -> Tasks]
    /\ calls \in [Queries -> Seq(Calls)]
    /\ \A q \in Queries : Len(calls[q]) <= MAX_FORWARD_ATTEMPTS

\* Whatever the tasks, the gossip listener and the recommendation handler do
\* to the registry between each other's awaits, the flag of a profile and the
\* status of its peer never contradict each other.
RegistryConsistent == Consistent(registry)

\* A search never considers the node itself, a peer the client excluded or one
\* a forward of this query failed on, in either stage and in the general
\* retry; and it evaluates no peer in both stages.
SearchRespectsExclusions ==
    \A q \in Queries :
        LET t == task[q] IN
        ~Final(t) =>
            /\ Excluded(t) \cap (t.direct \cup t.recommended) = {}
            /\ t.direct \cap t.recommended = {}
            /\ Evaluated(t) \subseteq {Self} \cup t.direct \cup t.recommended

\* The router is at work on the query, or is about to be.
RoutingPCs == PCs \ {"generate", "connect", "reply", "done", "escaped"}

\* The first search has not begun.
UnroutedPCs == {"idle", "classify"}

\* What is left to do in a loop comes from the pool the loop runs over, and the
\* target of a step is a node the query may be sent to.
PhaseInvariant(t) ==
    /\ t.pc \in UnroutedPCs \cup {"lookup", "profiles"} =>
        t.direct = {} /\ t.recommended = {} /\ t.ids = {} /\ t.score = NoScores
    /\ t.pc = "profiles" => Self \notin t.todo
    /\ t.pc = "direct" => t.todo \subseteq t.direct
    /\ t.pc = "recommended" => t.todo \subseteq t.recommended
    /\ t.pc = "fetch" => t.target \in Nodes \ (RecommendationExcluded(t) \cup t.ids)
    /\ t.pc = "decided" => t.target \in Nodes /\ (t.target = Self \/ t.target \notin t.excluded)
    /\ t.pc = "generate" => t.target = Self
    /\ t.pc \in {"connect", "reply"} => t.target \in Nodes \ Excluded(t)

\* No pool holds an excluded peer, no peer is in two pools.
PoolInvariant(t) ==
    ~Final(t) =>
        /\ Excluded(t) \cap (t.direct \cup t.recommended) = {}
        /\ t.direct \cap t.recommended = {}
        /\ Evaluated(t) \subseteq {Self} \cup t.direct \cup t.recommended
        /\ t.ids \cap RecommendationExcluded(t) = {}

\* The forwards c of a query in frame t: every peer one failed on is excluded,
\* and there is one to spare whenever the router is at work.
ForwardInvariant(t, c) ==
    /\ Len(c) <= MAX_FORWARD_ATTEMPTS
    /\ \A i \in DOMAIN c : c[i].node # Self
    /\ \A i, j \in DOMAIN c : c[i].node = c[j].node => i = j
    /\ t.pc \in UnroutedPCs => c = <<>>
    /\ t.pc \in RoutingPCs \cup {"generate"} =>
        /\ Len(c) < MAX_FORWARD_ATTEMPTS
        /\ \A i \in DOMAIN c : c[i].node \in t.excluded
    /\ t.pc \in {"connect", "reply"} =>
        /\ c # <<>>
        /\ c[Len(c)].node = t.target
        /\ \A i \in DOMAIN c : i # Len(c) => c[i].node \in t.excluded

\* The three hold of every query at every step; the proofs rest on it.
QueriesConsistent ==
    \A q \in Queries :
        /\ PhaseInvariant(task[q])
        /\ PoolInvariant(task[q])
        /\ ForwardInvariant(task[q], calls[q])

\* Types, a registry whose flags and statuses agree, and queries whose pools,
\* targets, exclusions and forwards agree: the inductive invariant.
Invariant == TypeOK /\ RegistryConsistent /\ QueriesConsistent

\* A query is never forwarded twice to one peer, nor to the node itself: at
\* most one execution of it per peer, though an execution the entry node gave
\* up on goes on.
ForwardsDistinct ==
    \A q \in Queries :
        /\ \A i \in DOMAIN calls[q] : calls[q][i].node # Self
        /\ \A i, j \in DOMAIN calls[q] : calls[q][i].node = calls[q][j].node => i = j

\* The two stages, the threshold and the tie-breaks together select a
\* candidate no evaluated one beats.
BestSelected ==
    \A q \in Queries :
        LET t == task[q] IN
        t.pc = "decided" =>
            /\ t.target \in Evaluated(t)
            /\ \A n \in Evaluated(t) : t.score[n] <= t.score[t.target]

\* A peer's score is computed from a contact of this very search: the status
\* it reads is live, fresh and without failures, whatever other tasks did to
\* the registry meanwhile.
ScoredFresh ==
    \A q \in Queries :
        LET t == task[q] IN
        \A n \in Evaluated(t) \ {Self} :
            \E rtt \in Rtts : t.score[n] = ScoreOf(SearchMix(t), Quality[n], TRUE, 0, rtt)

\* What a search selects is beaten by no candidate it evaluated, on scores that
\* were true when they were given.
SelectionSound == BestSelected /\ ScoredFresh

\* A query is told that no node is suitable only when both forwards failed, or
\* when nobody was evaluated by a search for the general capability, its own or
\* the retry; so never before that when the node itself has a score for a
\* requested capability or the general one.
NoSuitableNodeJustified ==
    \A q \in Queries :
        LET t == task[q] IN
        t.pc = "done" /\ t.status = "no_suitable_node" /\ Current(q) < MAX_FORWARD_ATTEMPTS =>
            /\ Evaluated(t) = {}
            /\ General \in CapsOf(SearchMix(t))
            /\ ~HasAnyRequested(Quality[Self], t.mix)
            /\ Quality[Self][General] = 0

\* The status a query returns for a peer is the one of the forward it waits
\* for: a reply that comes after its attempt was given up is never used.
AnswerIsCurrent ==
    \A q \in Queries :
        LET t == task[q] IN
        t.pc = "done" /\ t.status \in {"ok", "generation_error"} /\ t.target # Self =>
            /\ calls[q][Current(q)].node = t.target
            /\ calls[q][Current(q)].state = t.status

\* The mix is resolved once and carried through forwards and retries
\* (routing_service.py:126).
ClassifiedOnce ==
    [][\A q \in Queries :
        task[q].pc \notin {"idle", "classify"} => task'[q].mix = task[q].mix]_vars

\* The searches of an attempt that are still to begin, and the stages that are
\* still before a query.
SearchesLeft(t) ==
    IF t.pc \in {"idle", "classify"} THEN 2 ELSE IF t.general THEN 0 ELSE 1

StagesLeft(t) ==
    CASE t.pc = "idle" -> 9
      [] t.pc = "classify" -> 8
      [] t.pc \in {"lookup", "profiles"} -> 7
      [] t.pc = "direct" -> 6
      [] t.pc \in {"ask", "fetch"} -> 5
      [] t.pc = "recommended" -> 4
      [] t.pc = "decided" -> 3
      [] t.pc \in {"generate", "connect"} -> 2
      [] t.pc = "reply" -> 1
      [] OTHER -> 0

\* What a query in frame t with forwards c has before it, the outermost loop
\* first: attempts, searches, stages, and what the loops of the stage
\* have not visited.
Left(t, c) ==
    <<MAX_FORWARD_ATTEMPTS - IF t.pc \in {"connect", "reply"} THEN Len(c) - 1 ELSE Len(c),
      SearchesLeft(t), StagesLeft(t),
      Cardinality(t.caps), Cardinality(t.todo), Cardinality(t.ids),
      IF t.pc \in {"profiles", "fetch"} THEN 1 ELSE 0>>

\* The first number in which a and b differ is smaller in a.
LowerThan(a, b) ==
    \E i \in DOMAIN b : a[i] < b[i] /\ \A j \in 1 .. i - 1 : a[j] = b[j]

Advances(q) == LowerThan(Left(task'[q], calls'[q]), Left(task[q], calls[q]))

StepOf(q) ==
    Submit(q) \/ SubmitClassified(q) \/ Route(q) \/ RecommendationsReturn(q) \/ Execute(q)

\* No step of a query takes it back or leaves it where it was, whatever the
\* network answers and whatever joins the registry meanwhile: each loop of
\* answer_query and of the router, and the two inside each other, come to an
\* end after finitely many awaits.
QueriesAdvance ==
    [][\A q \in Queries : StepOf(q) => Advances(q)]_vars

\* The node keeps the promise of QueryContract.
Contract ==
    INSTANCE QueryContract WITH
        MaxForwards <- MAX_FORWARD_ATTEMPTS,
        asked <- [q \in Queries |-> [i \in DOMAIN calls[q] |-> calls[q][i].node]],
        outcome <- [q \in Queries |->
            CASE task[q].pc = "done" -> task[q].status
              [] task[q].pc = "escaped" -> "escaped"
              [] OTHER -> "pending"],
        author <- [q \in Queries |->
            IF task[q].pc = "done" /\ task[q].status \in {"ok", "generation_error"}
            THEN task[q].target ELSE NoNode]

KeepsContract == Contract!Spec

\* The search is bounded (query_service.py:331): every query that arrives ends.
EveryQueryEnds == \A q \in Queries : task[q].pc # "idle" ~> Final(task[q])

\* The query waits where nothing bounds the wait: for a model
\* (local_agent.py:140), the dial of a ping (health_service.py:39) or a reply
\* to a recommendation request (recommendation_service.py:165).
WaitsUnbounded(t) ==
    \/ t.pc \in {"classify", "generate"}
    \/ t.pc \in {"direct", "recommended"} /\ t.todo # {}
    \/ t.pc = "ask" /\ t.ids = {} /\ t.todo # {}

\* Every query that arrives ends, unless it waits for ever where no timeout
\* bounds the wait: whatever else fails or stays silent, both forwards, their
\* searches and the general retry come to an end.
QueriesEndOrHang ==
    \A q \in Queries :
        \/ <>[]WaitsUnbounded(task[q])
        \/ task[q].pc # "idle" ~> Final(task[q])
=============================================================================
