------------------------- MODULE RecommendationNode -------------------------
(***************************************************************************)
(* A node that recommends peers to others (src/services/                   *)
(* recommendation_service.py): for each request it looks the capability up  *)
(* in the DHT, fetches the profiles of the providers one after the other,   *)
(* and answers with the best peers its registry holds.                      *)
(*                                                                          *)
(* Several requests are served at once, over one registry, while the node's *)
(* own searches ping peers and the peers come back with other profiles.  A  *)
(* step of a handler is the code between two awaits.  QueryRouting is the   *)
(* node that asks; ReplyKeepsContract is what it takes for granted.         *)
(***************************************************************************)
EXTENDS PeerRegistry, FiniteSets

CONSTANTS
    Requests,       \* the requests the node is sent
    Caps,
    Offers,         \* the profiles there are
    Advertises,     \* Advertises[o]: the capabilities o advertises
    Quality,        \* Quality[o][c]: its score of c
    Possible,       \* Possible[n]: the profiles n may come back with
    Limits,         \* limits a request may carry
    Exclusions,     \* exclude_peer_ids a request may carry
    NoNode

ASSUME NodesAssumption == IsFiniteSet(Nodes) /\ NoNode \notin Nodes
ASSUME OffersAssumption ==
    /\ Caps # {}
    /\ Advertises \in [Offers -> SUBSET Caps]
    /\ Quality \in [Offers -> [Caps -> Nat]]
    /\ Possible \in [Nodes -> SUBSET Offers]
    /\ Limits \subseteq Nat /\ Exclusions \subseteq SUBSET Nodes

VARIABLES
    registry,   \* the node's PeerRegistry
    held,       \* held[n]: the profile it holds of n, if the registry has one
    offer,      \* offer[n]: the profile n serves now
    past,       \* past[n]: those n has served the network with
    handler,    \* handler[r]: the frame of handle_stream serving r
    current     \* current[r]: providers r stored, undisturbed since (history)

vars == <<registry, held, offer, past, handler, current>>
world == <<offer, past>>

\* pc: idle, not sent; lookup, waits for the DHT; fetch, waits for the profile
\* of target, with todo to follow; send, the reply ids is written; done, the
\* requester holds ids.
PCs == {"idle", "lookup", "fetch", "send", "done"}

IdleHandler ==
    [pc |-> "idle", cap |-> CHOOSE c \in Caps : TRUE, limit |-> 0, excluded |-> {}, todo |-> {},
     target |-> NoNode, got |-> {}, ids |-> {}]

Init ==
    /\ registry = EmptyRegistry
    /\ offer \in {f \in [Nodes -> Offers] : \A n \in Nodes : f[n] \in Possible[n]}
    /\ held = offer
    /\ past = [n \in Nodes |-> {offer[n]}]
    /\ handler = [r \in Requests |-> IdleHandler]
    /\ current = [r \in Requests |-> {}]

\* MUTANT of Candidates: only peers the node has pinged.
CandidatesAlive(reg, copies, f) ==
    {n \in Nodes \ (f.excluded \cup {Self}) :
        /\ reg.profile[n] = "available"
        /\ reg.status[n].alive
        /\ f.cap \in Advertises[copies[n]]}

\* MUTANT of Candidates: the requester's exclusions are only for the lookup.
CandidatesUnfiltered(reg, copies, f) ==
    {n \in Nodes \ {Self} : reg.profile[n] = "available" /\ f.cap \in Advertises[copies[n]]}

\* What _select_recommendations sorts.
Candidates(reg, copies, f) ==
    {n \in Nodes \ (f.excluded \cup {Self}) :
        /\ reg.profile[n] = "available"
        /\ f.cap \in Advertises[copies[n]]}

\* The best of them, at most limit; equal scores in the order they came to be
\* known, which is any.
Selections(reg, copies, f) ==
    LET pool == Candidates(reg, copies, f)
        score(n) == Quality[copies[n]][f.cap]
    IN  {ids \in SUBSET pool :
            /\ Cardinality(ids) = IF Cardinality(pool) < f.limit THEN Cardinality(pool)
                                  ELSE f.limit
            /\ \A n \in ids, m \in pool \ ids : score(n) >= score(m)}

\* The loop over the providers goes on, or the reply is put together with no
\* await in between.
Continues(r, f, reg, copies) ==
    IF f.todo = {}
    THEN \E ids \in Selections(reg, copies, f) :
            handler' = [handler EXCEPT ![r] =
                [f EXCEPT !.pc = "send", !.target = NoNode, !.got = {}, !.ids = ids]]
    ELSE \E n \in f.todo :
            handler' = [handler EXCEPT ![r] =
                [f EXCEPT !.pc = "fetch", !.todo = @ \ {n}, !.target = n, !.got = {}]]

\* The handler raises: the stream is closed, and the requester takes that, or
\* no connection at all, for an empty list.
Fails(r) ==
    /\ handler[r].pc # "done"
    /\ handler' = [handler EXCEPT ![r] =
           [@ EXCEPT !.pc = "done", !.target = NoNode, !.todo = {}, !.got = {}, !.ids = {}]]
    /\ UNCHANGED <<registry, held, world, current>>

-----------------------------------------------------------------------------
(* handle_stream, and request_recommendations at the other end.             *)

Asked(r) ==
    /\ handler[r].pc = "idle"
    /\ \E c \in Caps, k \in Limits, excluded \in Exclusions :
           handler' = [handler EXCEPT ![r] =
               [@ EXCEPT !.pc = "lookup", !.cap = c, !.limit = k, !.excluded = excluded]]
    /\ UNCHANGED <<registry, held, world, current>>

\* Whom the DHT may name: whoever advertised the capability at some time.
Listed(c) == {n \in Nodes : \E o \in past[n] : c \in Advertises[o]}

\* Some are found, none when the lookup times out.
LookupReturns(r) ==
    LET f == handler[r] IN
    /\ f.pc = "lookup"
    /\ \E found \in SUBSET Listed(f.cap) :
           Continues(r, [f EXCEPT !.todo = found \ {Self}], registry, held)
    /\ UNCHANGED <<registry, held, world, current>>

\* The provider replies with its profile of now.
ProfileServed(r) ==
    LET f == handler[r] IN
    /\ f.pc = "fetch" /\ f.got = {}
    /\ handler' = [handler EXCEPT ![r].got = {offer[f.target]}]
    /\ UNCHANGED <<registry, held, world, current>>

\* A profile stored over another one is news to every handler that relied on
\* that one.
Disturbed(n, c, copies) == c \notin Advertises[copies[n]]

\* The reply arrives and is stored, over whatever the registry holds by now.
ProfileArrives(r) ==
    LET f == handler[r] n == f.target IN
    /\ f.pc = "fetch"
    /\ \E o \in f.got :
        /\ held' = [held EXCEPT ![n] = o]
        /\ registry' = Upsert(registry, n)
        /\ current' = [s \in Requests |->
               LET kept == {m \in current[s] : ~(m = n /\ Disturbed(n, handler[s].cap, held'))}
               IN  IF s = r /\ ~Disturbed(n, f.cap, held') THEN kept \cup {n} ELSE kept]
    /\ Continues(r, f, registry', held')
    /\ UNCHANGED world

\* MUTANT of ProfileMissing: without a timeout the handler waits on.
ProfileRefused(r) ==
    LET f == handler[r] IN
    /\ f.pc = "fetch" /\ f.got # {}
    /\ Continues(r, f, registry, held)
    /\ UNCHANGED <<registry, held, world, current>>

\* request_profile returns None: too slow, unreachable, or a bad reply.
ProfileMissing(r) ==
    LET f == handler[r] IN
    /\ f.pc = "fetch"
    /\ Continues(r, f, registry, held)
    /\ UNCHANGED <<registry, held, world, current>>

ReplySent(r) ==
    /\ handler[r].pc = "send"
    /\ handler' = [handler EXCEPT ![r].pc = "done"]
    /\ UNCHANGED <<registry, held, world, current>>

-----------------------------------------------------------------------------
(* The rest of the node, and its peers.                                     *)

\* A search of the node pings a peer.
PingSucceeds(n) ==
    /\ n # Self /\ registry.profile[n] # "absent"
    /\ registry' = MarkAlive(registry, n, 1)
    /\ UNCHANGED <<held, world, handler, current>>

PingFails(n) ==
    /\ n # Self /\ registry.profile[n] # "absent"
    /\ registry' = MarkUnreachable(registry, n)
    /\ current' = [r \in Requests |-> current[r] \ {n}]
    /\ UNCHANGED <<held, world, handler>>

\* A peer is started again and scores itself anew.
ComesBack(n) ==
    /\ n # Self
    /\ \E o \in Possible[n] \ {offer[n]} :
        /\ offer' = [offer EXCEPT ![n] = o]
        /\ past' = [past EXCEPT ![n] = @ \cup {o}]
    /\ UNCHANGED <<registry, held, handler, current>>

Serves(r) ==
    \/ LookupReturns(r) \/ ProfileArrives(r) \/ ProfileMissing(r) \/ ReplySent(r)

Next ==
    \/ \E r \in Requests : Asked(r) \/ Serves(r) \/ ProfileServed(r) \/ Fails(r)
    \/ \E n \in Nodes : PingSucceeds(n) \/ PingFails(n) \/ ComesBack(n)

Spec == Init /\ [][Next]_vars

\* The lookup and every fetch have a timeout; the reply, which is short, is
\* written or raises.
FairSpec == Spec /\ \A r \in Requests : WF_vars(Serves(r))
-----------------------------------------------------------------------------
Frames ==
    [pc : PCs, cap : Caps, limit : Nat, excluded : SUBSET Nodes,
     todo : SUBSET (Nodes \ {Self}), target : (Nodes \ {Self}) \cup {NoNode}, got : SUBSET Offers, ids : SUBSET Nodes]

\* Every variable has its type; the node never asks itself.
TypeOK ==
    /\ registry \in Registries
    /\ held \in [Nodes -> Offers] /\ offer \in [Nodes -> Offers]
    /\ past \in [Nodes -> SUBSET Offers]
    /\ handler \in [Requests -> Frames]
    /\ current \in [Requests -> SUBSET Nodes]

\* What the entry node takes for granted of a reply (QueryRouting,
\* Recommendations): no more names than it asked for, none it excluded, never
\* the node that recommends, and only peers that advertised the capability at
\* some time.
ReplyKeepsContract ==
    \A r \in Requests :
        LET f == handler[r] IN
        /\ Cardinality(f.ids) <= f.limit
        /\ f.ids \subseteq Listed(f.cap) \ (f.excluded \cup {Self})

\* Every variable has its type, and a reply is what the entry node expects.
RepliesSound == TypeOK /\ ReplyKeepsContract

\* A provider that served its profile to a handler is recommended, although
\* it was unreachable before or other tasks wrote the registry meanwhile,
\* unless it was excluded, has been found unreachable since, or as many names
\* as were asked for score at least as well.
ServedIsRecommended ==
    [][\A r \in Requests :
        LET f == handler'[r]
            score(n) == Quality[held'[n]][f.cap]
        IN  handler[r].pc # "send" /\ f.pc = "send" =>
                \A n \in current'[r] \ (f.excluded \cup f.ids) :
                    Cardinality(f.ids) = f.limit /\ \A m \in f.ids : score(m) >= score(n)]_vars

\* Every request that reaches the handler ends, whatever the DHT and the
\* providers do: handlers ask nobody for recommendations in turn, so they
\* cannot wait on each other.
EveryRequestEnds == \A r \in Requests : handler[r].pc # "idle" ~> handler[r].pc = "done"
=============================================================================
