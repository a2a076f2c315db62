# Verification of the TSADAI peer network

The program is a peer-to-peer network of language-model nodes. A client hands a
query to one node, the *entry node*. It classifies which capabilities the query
needs, looks for peers that have them (DHT, direct profiles, recommendations),
scores itself and the reachable peers, and either answers itself or forwards
the query over one hop, rerouting after a failed forward. A web gateway and a
browser client keep conversations and show progress.

This directory holds TLA+ modules that model that system, TLC configurations
that check them on small instances, and proofs that TLAPS checks for every
value of the constants. `PROJECT.json` lists the runs, the mutants that show
each property can fail, the source lines of every definition, the hazards and
the theorems. Paths below are relative to the repository root.

## 1. Inventory

| Part | State | Operations | Talks to | Hard behaviour |
|---|---|---|---|---|
| PeerRegistry (`src/peer_registry.py`) | profiles and statuses by peer id | upsert, mark alive, mark unreachable, freshness | every service of the node, same process | shared by all trio tasks; two dictionaries and a flag that must agree |
| RoutingService (`src/services/routing_service.py`) | none of its own; the frame of a search | route_query: classify, look up, score direct candidates, ask for recommendations, select, retry with `general` | DHT, Profile, Health, Recommendation, classifier, registry | many awaits between reading the registry and deciding |
| QueryService (`src/services/query_service.py`) | the frame of a query; excluded peers; hops | answer_query (entry and selected node), query_peer, handle_stream | RoutingService, local agent, other nodes' QueryService | timeouts race late answers; retries repeat work; some exceptions are unguarded |
| HealthService, PingService | none | check_peer, ping with nonce | registry, peers | the dial is outside the ping's timeout |
| ProfileService | none | serve and request a profile | peers | mismatched or missing replies |
| RecommendationService | none | serve and request recommendations | DHT, Profile, registry, peers | the request has no timeout; the handler writes the registry |
| DHTService | provider records (library) | advertise, find providers | routing, recommendation | stale records, lookups that time out |
| PubSubService | subscription (library) | publish and listen for profile updates | Profile, registry | a payload that does not parse ends the listener |
| Node (`src/node.py`) | local profile, background tasks | start-up, scoring, periodic advertising | all services | handlers run before the profile is scored |
| NodeAPIService | progress by query id, under a lock | query, progress | QueryService, web gateway | a thread beside trio; records never evicted |
| TransportService, protocols, network_utils | streams | open, send, receive, connect | libp2p | one read is taken for one message |
| CapabilityClassifier, CapabilityScorer, local_agent | none | model calls and parsing | model backends | exceptions, timeouts |
| Web gateway (`src/ui/web_app.py`, `web_state.py`) | conversations in a file, query statuses | chats, queries, state | NodeAPIService | a load outside the lock, a crash within a write, its own timeout |
| Browser client (`src/ui/static/app.js`) | selection, pending query | send, poll, render | web gateway | overlapping sends and replies |
| Command-line clients, configuration, logging, scripts | none | print, start, stop | | none that a model helps with |

What makes them correct: the registry's flags, liveness and failure counts of a
peer agree; a search respects every exclusion and selects a candidate no other
beats, from scores no older than the search; a query is executed at most once
per peer, forwarded at most twice, never to the node itself; the answer is that
of the attempt in progress; "no suitable node" is said only when it is so; every
query ends; conversations survive concurrent requests and restarts.

## 2. How the modules are built on each other

State and pure algorithms come first, then the components that use them, then
what connects components, then instances for TLC and proofs.

| Module | Models | Uses |
|---|---|---|
| `PeerRegistry` | the registry and its writers | |
| `RoutingScore` | normalisation, discovery and the routing score | |
| `QueryContract` | what answer_query promises, with no mechanism | |
| `QueryRouting` | the entry node, its tasks and its peers | registry, score; implements the contract |
| `RecommendationNode` | the node that recommends | registry |
| `NodeLifecycle` | start-up, advertising, gossip, profiles, restarts | |
| `StreamRpc` | one call over one stream, both ends | |
| `LocalGeneration` | model calls, their threads and timeouts | |
| `ClassifierReply` | what a classification is read from | score |
| `CapabilityProfile` | configured and simulated capabilities | score |
| `CapabilityInputs` | all that may be written to the three above | classifier reply, profile |
| `NodeApi` | the node's HTTP API and its progress records | |
| `Conversations` | the value in the conversations file | |
| `ChatStore` | what the gateway promises of conversations | conversations |
| `WebGateway` | the gateway: loop, threads, lock, file | conversations; implements the store |
| `ContextWindow` | which messages go with a prompt | |
| `ContextInputs` | conversations as they grow before a prompt | context window |
| `ChatClient` | the browser, over the gateway as the store promises it | store |

Two modules stand for a component to those that use it. `ChatClient` runs over
`ChatStore`, which `WebGateway` is shown to implement. `QueryRouting` takes any
recommendation that `RecommendationNode` can give (`ReplyKeepsContract`), any
outcome of a call that `StreamRpc` can have, and any mix a classification can be
(`RouterTakesItAsItIs`, proved by `ClassificationIsRight`). That turns end, which
`ChatClient` assumes of the gateway, is what `EveryTurnIsTold` shows.

Proofs are in a module beside the one they are about: `PeerRegistryProofs`,
`QueryRoutingProofs` (with the algorithms of router, classifier and profile),
`RecommendationNodeProofs`, `NodeLifecycleProofs`, `NodeServicesProofs` (for
`NodeApi` and `StreamRpc`), `ChatStoreProofs`,
`WebGatewayProofs` (with the context window) and `ChatClientProofs`.

What could follow: the composition of several `QueryRouting` nodes over real
copies of each other's registries.

## 3. The modules

### PeerRegistry

Operators on a registry value: `Upsert`, `MarkAlive`, `MarkUnreachable` are the
three writers of `src/peer_registry.py`, `IsPeerFreshLive` its freshness test.
A profile is absent, available or unavailable (its `is_available` flag); a
status keeps `is_alive`, `last_rtt_ms`, the age class of `last_checked_ts_ms`
(never, fresh, stale) and the failure count, which stops at `FailureCap`: no
reader tells three failures from more. `Expire` is the passing of time.
A node always serves its profile with `is_available` set (`NodeProfile`'s
default, which nothing at the serving node clears), so the branches that
ignore an unavailable served profile are not reached.

### RoutingScore

`Normalize`, `DiscoveryCapabilities`, `WeightedQuality` and `ScoreOf` are
`_normalize_capability_scores`, `_discovery_capabilities`,
`_weighted_capability_quality` and `_scored_candidate_routing_score`. Demands
and qualities are hundredths, round trips tens of milliseconds, and the score is
the code's times 30000 and the total demand, an integer. The code computes in
floating point; rounding in the last digits, where two scores are equal or one
sits on the threshold, is outside the model. Entries whose value is not a number are dropped by the code and left out
of the inputs.

### QueryContract

`asked`, `outcome`, `author` of each query and what may happen to them: ask
one more node, end with its answer or its model's error, end with the node's own,
with a routing error before any forward, with no suitable node, or with an
exception after a failed forward.

### QueryRouting

`registry` is the node's registry; `task[q]` is the coroutine's frame, its `pc`
naming the await it is at or the loop it is in; `calls[q]` lists the forwards
and how each fares at the peer. One action per piece of code between awaits:

| Actions | Code |
|---|---|
| Submit, SubmitClassified, Classified, ClassifierRaises | route_query up to the search |
| LookupReturns, LookupRaises, ProfileServed, ProfileMissing, ProvidersVisited | refresh_candidates_from_dht |
| BeginDirect, PingSucceeds, PingFails, DirectEvaluated | the direct stage |
| RecommendationsReturn, ConsiderKnown, FetchRecommended, FetchServed, FetchMissing, FetchRaises, SourcesAsked, RecommendationsDone | _get_recommended_candidates |
| RecommendedEvaluated, NoCandidate | the end of a search and the general retry |
| ExecuteLocally, GenerationSucceeds, GenerationRaises | local execution |
| StartForward, SendQuery, ForwardFails, ReplyArrives | query_peer and the forward loop |
| PeerReceives, PeerAnswers, PeerLost | answer_query and handle_stream at the peer |
| Refresh, Age | gossip listener and recommendation handler; time |

*Interleaving.* trio runs one task at a time and switches at awaits only.
`Awaits` says at which frames a task is suspended, `MayRun(q)` that no other
task is in the middle of such a stretch. Peers and time need no permission.

*Choices.* An await returns anything the network could make it return: any part
of a capability's providers, a profile or none, a ping or none, any
recommendation the peer's code could select, a reply, a failure. A remote execution that the entry node
gave up on goes on.

*Abstractions.* Candidates are visited in any order (a dictionary's order in
the code), and equal scores are decided as `max` does: the node itself, then
direct, then recommended candidates. The profile of a node is constant. A
direct candidate that did not answer its ping is still asked for
recommendations, as in the code. The loop check at the peer is kept although no
step of this node can reach it. Traces and progress events are wording.

### RecommendationNode

`handler[r]` is the frame of the handler that serves request r: lookup, fetch,
send. `Candidates` and `Selections` are `_select_recommendations`: the filter,
the order by score and the cut at the limit. Several handlers share `registry`
and `held`, the profiles it holds, with the node's own searches (`PingSucceeds`,
`PingFails`), and peers come back with other profiles (`ComesBack`). A handler
asks nobody for recommendations in turn, so handlers cannot wait on each other.
`current` is a history variable: providers whose profile the handler stored and
that nothing has disturbed since.

### NodeLifecycle

`phase`, `left` and `periodic` follow `_start_node_logic`, the first advertising
and the task that repeats it, which may wake at any time of the node's life
(`early` remembers that it once did so before the scoring); `index` is the
DHT's, which outlives a node and whose records expire; `inbox`, `listener` and
`search` are announcements and the profile requests they and searches cause;
`registry[m][n]` is the copy of n's profile that m holds. `Start` registers the
handlers, so a node is asked from then on; `Joined` scores the profile. Writes
time out or raise, nodes are killed at any point, and a reply may be stored long
after it was read.

### StreamRpc

The client's and the handler's end of each call, what of a message has arrived,
and whether the connection fell silent. `Timed` are the calls under `fail_after`,
`DialTimed` those whose dial is, too. A read takes what has arrived; a part of a
message does not parse (`transport.py:49`). Handlers have no timeout.

### LocalGeneration

`caller[c]` is the await of `generate`, `thread[c]` the worker thread, `queue`
trio's limiter, which is the library's and about which nothing is claimed. A timeout ends the caller and abandons the thread, which keeps its
place until its request ends. The Ollama agent has no `fail_after`.

### ClassifierReply, CapabilityProfile, ContextWindow

Pure algorithms. `CapabilityInputs` writes inputs for the first two and for
`RoutingScore`, and `ContextInputs` for the third, piece by piece as a client, a
configuration, a model or a conversation writes them; they also state what comes
out. `Make` and `Score` there are the two writers of a node's profile
(`node.py:162-177`, `node.py:491-511`).
`ClassifierReply` reads a text as its JSON objects and the capability names that
stand alone. `CapabilityProfile` is `resolve_profile_capabilities` and the
simulated scores, whose seeded draws are any choice. `ContextWindow` is
`build_network_context` in characters: messages are their sizes.

What these should compute is stated beside them, without the loops and sorts of
the code, so that the run and the theorems (section 5) speak of the same thing:
`IsNormalFormOf` and `IsCoverOf` in `RoutingScore`, `IsReadingOf` in
`ClassifierReply`, `IsWindowOf` in `ContextWindow`.

### NodeApi

One action per critical section of the progress lock: `Receive` resets the
progress of its id, `Emit` appends and drops the oldest beyond `KeptEvents`,
`Reply` adds the events to the reply. Requests may share an id or carry none.

### Conversations, ChatStore, WebGateway

`ChatStore` promises: a prompt, later its answer, a creation, a deletion, each in
one step; a restart forgets every turn and may lose the conversations
(`Restart`), a failing save loses them and leaves the turn whose answer it was
without an end (`SaveFails`, `stuck`). `WebGateway` is the
mechanism: `loop` is the handler the event loop is in, `worker[t]` the thread that
finishes turn t, `lock` its holder, `disk` the file, which a save truncates
(`Torn`) before it is whole again, `queue` and `poll` the thread pool and the
status requests that share it. Handlers that only read under the lock change no
state; they are what `TornOnlyUnderLock` is for. `Stored` maps the file to the
store: what it will hold when the save in progress ends.

| Actions | Code (`web_app.py`) |
|---|---|
| StartChat, LoopSaved, LoopSaveFails, StartRegisters, StartReplies | `_prepare_chat_query`, `start_chat`, `chat` |
| CreateConversation, DeleteConversation | the two endpoints |
| PoolGrants, WorkerBegins, NodeReplies, FinishSaves, FinishSaved, FinishSaveFails, FinishUnsaved, WorkerReturns | `_finish_chat_query` in a thread |
| PollStatus, PollReplies | `chat_status` |
| Crash | the process is killed and started again |

### ChatClient

`sendMessage`, `selectConversation`, `deleteChat`, `newChat` and the context
preview of `app.js`, each cut at its awaits. `objects` are the conversations the
browser holds: a send keeps the object it began with, whatever is shown later.
`shown` and `shownId` are `state.currentConversation` and its id. `overlaps` and
`blind` mark sends made while another was under way; nothing but the disabled
button prevents them, and the Enter key does not ask it (`app.js:1672`).

### Properties

A name before a colon is the conjunction of the names after it, as a run checks
it.

| Property | What would break it |
|---|---|
| `Invariant` of `QueryRouting` | a third forward; a writer of the registry that forgets the flag, the status or the count (`RegistryConsistent`); a failed peer that is not excluded, a pool, target or forward at odds with the frame (`QueriesConsistent`). From it follow `SearchRespectsExclusions` and `ForwardsDistinct` (section 5) |
| `SelectionSound`: `BestSelected`, `ScoredFresh` | a stage that decides without a better candidate already evaluated; an await between the ping and the score |
| `NoSuitableNodeJustified` | giving up with a candidate in hand, at a node that is one itself, or before a search that includes `general` |
| `AnswerIsCurrent` | a late answer of an abandoned attempt |
| `ClassifiedOnce` | the retry's mix leaking into the query (`routing_service.py:126`) |
| `KeepsContract` | any of the above that the client could see |
| `QueriesAdvance` | a retry, a reroute or a turn of a loop that uses nothing up, so that a query is routed for ever although every await ends |
| `QueriesEndOrHang`, `EveryQueryEnds` | a query that neither ends nor waits for a model, a dial or a recommendation; an await that nothing ends |
| `MixesCorrect`: `NormalizeCorrect`, `DiscoveryCorrect` | a cut before the sort, a lost fallback |
| `QualityDominates`, `WorseContactNeverHelps` | a term without its cap, a wrong sign |
| `RepliesSound`: `TypeOK`, `ReplyKeepsContract`; `ServedIsRecommended`, `EveryRequestEnds` | a filter lost, a fetched provider forgotten, a fetch without a timeout |
| `IndexSound`: `TypeOK`, `IndexIsTopScored`; `ProfilesSound`: `AnnouncedIsScored`, `UnscoredOnlyAfterRestart` | advertising or serving an unscored profile where no late start explains it |
| `StaysFindable`, `EveryStartEnds` | an advertising task that dies of one failure or sleeps too long |
| `CallsSound`: `TypeOK`, `OkMeansServed`; `EveryCallEnds`, `EveryHandlerEnds` | a part of a message taken for one, an await without a timeout, a stream left open |
| `CallsEnd` | a call that is abandoned and never told so |
| `RepliesCorrect`: `IsReadingOf`, `RouterTakesItAsItIs` | an earlier object read, a need out of range, a fourth need, a refusal of a usable reply |
| `ProfilesCorrect`: `AdvertisesStrongest`, `FirstNameLeads`, `LeaderIsSuitable`, `WeakIsNotSuitable` | a ranking before a configured name, overlapping ranges |
| `WindowCorrect`: `FitsLimit`, `NewestFirst`, `TruncationTold` | an uncounted newline, a message skipped, truncation untold |
| `AnswersSound`: `TypeOK`, `AnswerCarriesItsEvents`; `PollsOnlyAdvance` | progress of an earlier query under the same id, a gap in the events |
| `FileSound`: `TypeOK`, `TornOnlyUnderLock`; `ImplementsStore` | a load or save outside the lock |
| `HistorySound`, `ToldMatchesHistory` | a late answer in the wrong place, a conversation that comes back |
| `ListingComplete` | a listing without its own conversation |
| `EveryTurnIsTold` | a status never set, the lock held across a wait |
| `ScreenSound`: `TypeOK`, `ViewConsistent`; `NoBubbleLeft`, `OneConversation` | a reply that acts on a selection that has changed |
| `MeterFresh` | an old preview shown for a new conversation |
| `EverySendEnds` | a poll that goes on when the gateway has forgotten the query; a save that fails is the exception it names |

## 4. The runs

| Run | Instance | States | Shows |
|---|---|---|---|
| one_query | `MCQueryRouting_one.cfg`: 1 query, 2 peers, trips of 0 and 1 s, one peer excluded by the client or none, a mix given or classified, gossip, ageing | 64 thousand | the invariant, selection, freshness, one classification; a node that knows general matters gives up only after two forwards |
| three_peers | `MCQueryRouting_three.cfg`: 1 query, 3 peers, so a third forward would find somebody; the node has no quality, so searches end empty | 181 thousand | the current answer, justified refusals, the contract, progress at every step |
| two_queries | `MCQueryRouting_two.cfg`: 2 queries, 1 peer, fair | 136 thousand | the invariant under interleaving; queries end, or wait where nothing bounds the wait |
| silent_peer | `MCQueryRouting_hangs.cfg`: 1 query, 2 peers, fair; models answer and dials end, peers need not answer | violation | see Findings |
| inputs | `MCInputs.cfg`: mixes of 4 entries, contacts of 5 failures and 4 s, configurations of 3 names and 2 scores, replies of 2 objects or 4 entries; conversations of 4 messages, 3 prompts, variables of 4 kinds | 648 thousand | router, profile, classifier and context window against what they should compute |
| chats | `MCWebGateway.cfg`: 2 turns by either endpoint, 2 threads, 2 disturbances of four kinds, fair | 574 thousand | the file, what clients are told, the store refined |
| chat_client | `MCChatClient.cfg`: 2 messages, and a selection with a disturbance, a restart or failing save of the gateway, or 2 previews, fair | 425 thousand | the screen, the meter, every message ends unless its save failed |
| lifecycle | `MCNodeLifecycle.cfg`: 2 nodes, 1 restart, gossip, kills, expiry, early periodic writes, fair | 125 thousand | the index, the copies others hold, how far starts end by themselves |
| node_api | `MCNodeApi.cfg`: 3 queries, 2 ids, in symmetry, 1 poller | 2.9 million | whose events a reply and a poll hold |
| rpc | `MCStreamRpc.cfg`: a ping, a profile request, a recommendation request, fair | 265 thousand | what a success means, who gets stuck |
| generation | `MCLocalGeneration.cfg`: 5 calls of 3 agents, 2 threads, fair | 11 thousand | which model calls end, and how |
| recommend | `MCRecommendationNode.cfg`: 2 handlers, 2 peers of which one may change, fair | 153 thousand | what a reply holds, and that it comes |

*Routing instances.* The nodes are `me` (general only, or nothing), `strong`
(reaches the threshold for math when its round trip is short), `weak` (never
does) and `spare` (math, below the threshold). The mixes are math alone, which
leads to the general retry, and math with some general. Three peers exceed the
two forwards the code allows; two queries are what it takes for one task to
overwrite what another reads; two capabilities give both outcomes of the retry.
`FailureCap` is 3, where the score saturates. `Talkers` and `Aging` bound which
peers gossip and which statuses expire.

*Other bounds.* Two turns are what it takes for one thread to overwrite what
another saved, or for one send to take another's bubble; two threads let both
work while status requests still have to wait. `MCWebGateway` and `MCChatClient`
allow few disturbances in one behaviour (`Disturbances`), each of every kind the
code handles, and two previews are what it takes to overtake. In
`MCNodeLifecycle` searches and listeners fetch the profile of the node that
restarts, and nobody's that of the other, which advertises nothing and is not
assumed to be fair; that one life after the first is
enough shows in `Known`, which asks no more (section 5).
`MCInputs` has values on both sides of every boundary in the code, and one more
entry than the three that are kept; each of its behaviours writes for one of
`CapabilityInputs` and `ContextInputs` and leaves the other's input empty. Two threads in `LocalGeneration` can
both be taken by abandoned threads while a third call waits.

*Deadlock* is checked where a module says what rest is: in `QueryRouting` every
query has ended (`AllAnswered`), and `RecommendationNode` always has a peer that
may change. The other systems may stop: inputs are written to their bounds,
clients have sent what they send, nodes are down for good.

*Fairness.* Each is of the program's own steps, and named for what ends them:

| Module | Fair | Because |
|---|---|---|
| `QueryRouting` | what a query does between awaits, and the awaits with a timeout | the scheduler runs ready tasks; profiles and both halves of a forward are under `fail_after`, lookups under `move_on_after`. Three awaits have no timeout and are not fair: a model (Ollama's `generate`, `local_agent.py:139`), a ping, whose dial is outside its timeout (`health_service.py:37`), a recommendation request (`recommendation_service.py:165`). `QueriesEndOrHang` names them (`WaitsUnbounded`); `silent_peer` assumes that the first two end (`PatientSpec`) |
| `WebGateway` | the loop, the pool, the threads, polls | handlers hold the lock for a save only, the node's API answers within the gateway's timeout, the browser polls until it is told. Nothing of a crash, a deletion or a new request |
| `ChatClient` | the handlers of a send | the browser runs them and polls without end; the gateway ends the turns it took, by `EveryTurnIsTold`, whose exception, a failed save of the answer, is that of `EverySendEnds` (`stuck`) |
| `NodeLifecycle` | the writes of the index, the periodic task | each write is under a timeout, the task is an endless loop. Strong fairness says only that a write tried for ever does not time out for ever. The bootstrap dial (`network_utils.py:27`) and the publication (`node.py:517`) have no timeout and are not fair: that they end are the hypotheses `BootstrapEnds` and `PublicationEnds` of the second half of `EveryStartEnds` |
| `StreamRpc` | timeouts, tasks, what is on its way | `fail_after` fires; a connection may fall silent, and then nothing arrives |
| `LocalGeneration` | timeouts, requests that do not hang | `fail_after` around the thread; a server that trickles never trips the socket's timeout |
| `RecommendationNode` | the steps of a handler | its lookup and its fetches have timeouts |

*Exceptions the properties name*, each a behaviour of the code. A save that
fails ends the thread before the status is set, and that client polls for ever
(`EveryTurnIsTold`, `EverySendEnds`, `web_app.py:117`, `app.js:1620`). A reply whose conversation was deleted
empties the screen and leaves its id (`ViewConsistent`, `app.js:1629`). Messages
sent with the Enter key while another is on its way may leave a bubble, or
create a conversation of their own (`NoBubbleLeft`, `OneConversation`). A
handler that reads from a silent connection waits for ever, and so does a
recommendation request or the dial of a ping (`EveryHandlerEnds`, `EveryCallEnds`). A call of the
Ollama agent may wait for ever for a server, or for threads others abandoned
(`CallsEnd`). A query may wait for ever for a model, a dial or a recommendation
(`QueriesEndOrHang`). After a restart a node may be held as its configuration
describes it (`UnscoredOnlyAfterRestart`); so may one whose start took longer
than the half hour that the periodic task sleeps: the task is started before the
start logic (`node.py:563`) and advertises what the profile holds when it wakes,
so the index may list capabilities of the configuration (`IndexIsTopScored`,
`early`), although `cli/run_node.py:226` says that scores are simulated before
DHT advertising. The listing of a reply may meet a save
(`ListingComplete`, `web_app.py:185`).

*Findings.* `silent_peer`: `request_recommendations`
(`recommendation_service.py:165-179`) has no timeout, so a peer that accepts the
stream and never writes holds the query for ever, although
`query_service.py:331` calls the search bounded and `.env.example:82` says the
timeouts keep a client's wait below `CLIENT_QUERY_TIMEOUT`.

## 5. The proofs

Every theorem holds for all values of the constants under the assumptions the
modules name, which TLC evaluates in the runs.

`PeerRegistryProofs`: each registry operation, applied to a peer other than the
node, keeps the type and `Consistent`. The node's own id is never written, which
the callers ensure and `QueryRoutingProofs` shows.

`QueryRoutingProofs`, on the pure algorithms, for every input:

- *Scores* lie between 0 and 1; the threshold 0.65 needs a weighted quality of
  two thirds (`ThresholdNeedsQuality`); a lead of 0.4 in quality outweighs every
  contact (`QualityOutweighsContact`); a contact that gets worse never raises a
  score (`WorseContactNeverRaises`).
- *Normalisation*: whatever a client sends, of any length, with names unknown or
  repeated and values out of range, the mix is its normal form
  (`NormalizeIsRight`), and what is looked up for it covers it
  (`DiscoveryIsRight`). The stable sort by
  value is a strict order of the dictionary's keys, and `Ranks` says of every
  strict order of a finite set that ranks number it from 0.
- *Classification*: whatever the classifier's model writes, any number of objects
  of any length, is read as `IsReadingOf` says, and the router's normalisation
  leaves the result as it is (`ClassificationIsRight`), which is what
  `InputAssumption` asks of classified mixes. The classifier
  sorts as the router does, so `SortedMixIsNormal` is all it needs beyond
  `NormalizeIsRight`.
- *Profiles*: a scored node advertises its best capabilities, best first
  (`ScoredNodesAdvertiseTheirBest`), led by the first known name of its
  configuration unless three other names stand before it
  (`FirstKnownNameLeads`); and the threshold accepts it for the capability it
  leads with, however slow it is, and never for its weak one
  (`ThresholdTellsLeaderFromWeak`), for configurations of any length and every
  draw the ranges allow.
- *As the runs check them*: `InputSpec => []MixesCorrect`, and likewise
  `QualityDominates`, `ProfilesCorrect`, `RepliesCorrect` and the action property
  `WorseContactNeverHelps`, whatever the bounds of `CapabilityInputs` are. Their
  invariants say what has been written so far: entries (`MixInputs`); the
  configuration a node was made with and the draws it was scored with, which the
  profile alone does not show (`ProfileInputs`); objects of any length
  (`ReplyInputs`).

`QueryRoutingProofs`, on the queries: `Spec => []Invariant`, where `Invariant`
is `TypeOK`, `RegistryConsistent` and `QueriesConsistent`, for every set of
nodes and queries. None of the three is inductive alone: that a writer of the
registry never writes the node's own entry needs that the pools exclude it
(`PoolInvariant`), that a forward goes to a new peer needs that every peer
forwarded to is in the query's exclusions whenever the router works
(`ForwardInvariant`), and that a target is a legal one needs where it came from
(`PhaseInvariant`). `QueryStep`, `FrameStep` and `RegistryStep` reduce a step to
the query that takes it; one lemma per action follows; `NextInvariant` collects
them. `MixIsResolvedOnce` (`ClassifiedOnce`) is an action property: from the
invariant, only the first search of a query sets its mix.

On top of that, `Outcomes` says of each query what its scores come from
(`ScoresOK`), that the second stage begins below the threshold and the general
retry without a score of the node's own (`StagesOK`), and what its decision,
answer and refusal rest on. `ScoredFresh`, `BestSelected`, `AnswerIsCurrent` and
`NoSuitableNodeJustified` follow. `BestSelected` needs the stages: the
recommended pool is compared alone first, and only the threshold says that no
direct candidate beats its best.

Next, `Spec => KeepsContract`. Each action is a step of the contract for its
query, or a stutter; `NeverRefused`, an invariant of its own, excludes a refusal
by the peer, and the pool and forward invariants that a peer is asked twice.

Last, `QueriesGoOn` (`QueriesAdvance`). `Left` is what a query has before it,
outermost loop first: attempts to forward, searches of the attempt (its own and
the general retry), stages of the search, then the capabilities, peers and
recommended ids the loops of the stage have not visited, and a fetch under way.
Every step of a query lowers the first of these numbers that it changes, in
every finite network (`FiniteNetwork`: the registry is a dictionary and the
capabilities four names). A step may raise the later ones: a recommendation adds
ids, a reroute starts all over. `QueriesTakeFinitelyManySteps` adds that they
are numbers in every reachable state, by the invariant, and that the order is
well founded (`MeasuresEnd`: a set of such tuples is narrowed to those with the
least first number, of these to those with the least second, and so on). This
needs no fairness and is the part of termination that can be proved here: a
query that does not end is one whose next await never returns, and what awaits
return is what the fair runs `two_queries` and `silent_peer` are about.

`RecommendationNodeProofs`: `RepliesSound` and `ServedIsRecommended`, for every
finite network. `RepliesSound` says of a reply its limit and where its ids come
from; its ids are a set, so their order is not a claim (the requester scores them
itself). `RecommendInvariant` adds that whatever a handler holds of a
node is something that node served at some time (`ServedSound`), since a profile
changes while a fetch is under way, and that `current` lists only peers that can
be recommended (`CurrentSound`). That a peer is left out only for better ones is
counting: a selection that is not the whole pool has `limit` members.

`NodeLifecycleProofs`: `Invariant` adds to the types that only best capabilities
are written unless the periodic task has ever woken before the scoring (`TopOnly`,
`early`), how phase, profile and pending writes go together (`PhasesAgree`), and
that whatever is heard or held of a node is news of a life that has begun and was
scored, or of one that was listed early (`HeldOK`, `NewsAgree`). The properties do not
speak of announcements and replies under way; the invariant has to, since a
stored copy is as good as the reply it came from.

`ChatStoreProofs`: what every implementation of `ChatStore` keeps. Its invariant
says where messages are (`MessagesOwned`, `MessagesThere`), that none is there
twice, and which conversations can still come to be (`HomesUsed`).
`WebGatewayProofs`: its invariant makes the lock, the file and the threads agree
(`LockAgrees`), the loop and the turn it serves (`LoopAgrees`), a waiting turn and
its place in the queue (`QueueAgrees`: without it a turn could be finished
twice), a finished turn and its status (`EndsAgree`); `StatusAgrees` adds which turns have
no status, which tells a forgotten turn from a stuck one. From them each action is a
step of the store or a stutter (`ImplementsStore`), and `HistorySound` is the
store's theorem, instantiated.

`ToldIsTrue` (`ToldMatchesHistory`) and `RepliesListTheTurn` (`ListingComplete`)
follow from the same invariant, the first with the store's `AnswerKept`: an
answer that was saved is in its conversation for as long as that exists.

`WindowIsRight`, in the same module: for every conversation, prompt and limit the
context is as many of the newest messages as fit (`IsWindowOf`). `build_network_context` is a loop, so this is an induction
over the messages: what is false of some number of messages is false of a least
one (`NoneIsBad`, from the library's `WFMin`), which also shows that the recursive
functions of the loop and of the sums exist (`IterationExists`). Its invariant is
`After`: either every message so far was kept whole and fits, or the loop ended at
the first that did not. `WindowsAreRight` (`WindowCorrect`) applies it to
conversations that grow to any length; `LimitType` says that every setting of the
environment, a missing or malformed one included, gives a limit.

`ChatClientProofs`: the store's invariant and six parts more. `Wired` says which
objects of the browser are in use, and by which call; `ViewConsistent` is that of
the screen; `Chats` gives a chat one conversation, `Bubbling` each object at most
one waiting bubble, `Metered` the meter its newest request. `Chats` is about
deletions and losses that have not happened, `Bubbling` about sends that did not
overlap: both need what a send that overlaps could leave, so the condition is
part of the invariant. The first attempt to prove `OneConversation` found a
counterexample with three turns, one more than the instance that TLC checks has:
the property asks that no message of the chat was `blind`, sent before an earlier
one had its conversation's id, and not only that the two compared were not.

`NodeServicesProofs` holds two services, which share nothing. For the API, `ApiInvariant` says that the record of an id that one
request uses holds the last events of that request (`RecordsKept`) and that a
poller has seen an earlier state of it (`PollsKept`): `AnswersSound` and
`PollsOnlyAdvance` for any number of requests, ids and kept events. For
a stream, `Exchanged` says that a handler works only on a whole request and that
what arrives is what it wrote at its end: `SuccessMeansServed` (`CallsSound`).

*Assumptions.* The node is a node, `FailureCap` positive, `NoNode` not a node,
`General` a capability, profiles with qualities in 0..100, and
`InputAssumption`: classified mixes are mixes (`ClassificationIsRight` proves
it), client mixes are sequences of names with numbers, exclusions are sets of
nodes, trips natural numbers, gossip never about the node itself.
`InputsAssumption` and `ContextAssumption` say what kind of values inputs are
written from (numbers, lengths, sets of names), and bound neither.
The ranges of simulated scores are those of `capability_scorer.py`. For
recommendations, finitely many nodes and a capability at least. In the gateway: a
thread at least, two endpoints, and names of lock holders that differ from turns.
In the browser: ids it makes up differ from the gateway's (`local-` and a
time against a UUID).

*Only model-checked.*

- All liveness, which the prover does not treat: `QueriesEndOrHang`,
  `EveryQueryEnds`, `StaysFindable`, `EveryStartEnds`, `EveryRequestEnds`,
  `EveryCallEnds`, `EveryHandlerEnds`, `CallsEnd`, `EveryTurnIsTold`,
  `EverySendEnds`.

Everything else that a passing run checks is stated by a theorem. The prover cannot
instantiate the library's induction theorems, which take an operator; the proofs
use the least element of a set of numbers instead (`Least`, from the library's
`WFMin`; `Extremes`, from ranks in a finite order).

## 6. Not modelled

- Command-line clients: one request and its reply, printed.
- Configuration, logging and scripts: environment lookup, printing, starting of
  processes; no state of the system.
- Presentation in the browser: lists, layout, markdown, traces and progress
  views. `ChatClient` has what decides which conversation is on the screen.
- Text: prompts, answers and traces; what a language model writes, and the HTTP
  calls that fetch it. A model call succeeds, fails, or hangs.
- The libraries: Kad-DHT, Gossipsub and libp2p streams are what the code can
  observe of them; cryptographic identity is taken for granted.
- Float rounding of scores (section 3).
- Peers run this code: what another implementation could send is not considered,
  such as a gossip payload that does not parse (`pubsub_service.py:77`).
- Two hazards are in the models and claimed by no property, as the code does
  nothing against them: a delayed profile that replaces a newer one
  (`peer_registry.py:23`; `ProfilesSound` bounds what such a copy can be, not its
  age), and two queries under one id, which mix their progress
  (`node_api_service.py:92`; `AnswersSound` is about ids one query uses).
- Two selections in flight in the browser: the later reply wins, not the later
  click (`app.js:1524`); what is shown and its id still agree.
- Progress records of the node's API are never removed
  (`node_api_service.py:64`), so their number grows for as long as it runs;
  `TypeOK` of `NodeApi` bounds each.
