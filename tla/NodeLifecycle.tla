--------------------------- MODULE NodeLifecycle ----------------------------
(***************************************************************************)
(* How nodes come up and are found (src/node.py, services/dht_service.py,   *)
(* services/pubsub_service.py, services/profile_service.py): a node         *)
(* registers its protocol handlers, joins the network, scores its           *)
(* capabilities, writes them to the DHT's index and announces itself.  A     *)
(* task of its own writes the index again every half hour: it runs from the *)
(* first moment on, and writes what the profile advertises then, which a    *)
(* start that takes longer than the half hour has not scored yet.           *)
(*                                                                          *)
(* A node serves its profile from the first moment on, with the scores of its   *)
(* configuration until it has scored itself.  The index outlives the node.  *)
(* A profile another node fetched is a copy that may be old when it is      *)
(* stored: several fetches run at once, and upsert_profile compares no      *)
(* times.                                                                   *)
(***************************************************************************)
EXTENDS Naturals, FiniteSets

CONSTANTS
    Nodes, Caps, NoNode,
    Top,            \* Top[n]: the best capabilities n finds when it scores itself
    Configured,     \* Configured[n]: those its configuration names
    Gossip,         \* whether gossip is enabled
    MaxStarts       \* bound: MaxStarts[n] is how often n is started

ASSUME NodesAssumption == NoNode \notin Nodes
ASSUME TopAssumption ==
    /\ Top \in [Nodes -> SUBSET Caps] /\ Configured \in [Nodes -> SUBSET Caps]
    /\ Gossip \in BOOLEAN /\ MaxStarts \in [Nodes -> Nat]

VARIABLES
    phase,      \* phase[n]: where _start_node_logic is
    starts,     \* starts[n]: how often n was started
    profile,    \* profile[n]: the local profile, by the scores it holds
    left,       \* left[n]: the capabilities its advertising has still to write
    periodic,   \* periodic[n]: the same for the task that repeats it
    index,      \* index[n]: the capabilities the DHT lists n for
    inbox,      \* inbox[m]: announcements m's listener has not taken
    listener,   \* listener[m]: the profile request of m's listener
    search,     \* search[m]: the profile request of a search at m
    registry,   \* registry[m][n]: the copy of n's profile that m holds
    early       \* early[n]: the task has ever woken before a start had scored n
                \* (a history: no other variable depends on it)

vars == <<phase, starts, profile, left, periodic, index, inbox, listener, search,
          registry, early>>

Phases == {"down", "joining", "advertising", "running"}
Profiles == {"configured", "scored"}

Asleep == [awake |-> FALSE, caps |-> {}]
NoFetch == [of |-> NoNode, for |-> 0, from |-> 0, got |-> "none"]
Up(n) == phase[n] # "down"

Init ==
    /\ phase = [n \in Nodes |-> "down"]
    /\ starts = [n \in Nodes |-> 0]
    /\ profile = [n \in Nodes |-> "configured"]
    /\ left = [n \in Nodes |-> {}]
    /\ periodic = [n \in Nodes |-> Asleep]
    /\ index = [n \in Nodes |-> {}]
    /\ inbox = [n \in Nodes |-> {}]
    /\ listener = [n \in Nodes |-> NoFetch]
    /\ search = [n \in Nodes |-> NoFetch]
    /\ registry = [m \in Nodes |-> [n \in Nodes |-> "none"]]
    /\ early = [n \in Nodes |-> FALSE]

-----------------------------------------------------------------------------
(* run_forever and _start_node_logic.                                       *)

\* A process starts: handlers registered, listener subscribed, profile as
\* configured, registry empty.
Start(n) ==
    /\ phase[n] = "down" /\ starts[n] < MaxStarts[n]
    /\ phase' = [phase EXCEPT ![n] = "joining"]
    /\ starts' = [starts EXCEPT ![n] = @ + 1]
    /\ profile' = [profile EXCEPT ![n] = "configured"]
    /\ registry' = [registry EXCEPT ![n] = [m \in Nodes |-> "none"]]
    /\ UNCHANGED <<left, periodic, index, inbox, listener, search, early>>

\* The process ends, killed or by an exception nothing catches; the index and
\* what others hold stay.
Ends(n) ==
    /\ phase' = [phase EXCEPT ![n] = "down"]
    /\ left' = [left EXCEPT ![n] = {}]
    /\ periodic' = [periodic EXCEPT ![n] = Asleep]
    /\ inbox' = [inbox EXCEPT ![n] = {}]
    /\ listener' = [listener EXCEPT ![n] = NoFetch]
    /\ search' = [search EXCEPT ![n] = NoFetch]
    /\ UNCHANGED <<starts, profile, index, registry, early>>

Killed(n) == Up(n) /\ Ends(n)

\* MUTANT of Joined: advertised before it is scored.
JoinedUnscored(n) ==
    /\ phase[n] = "joining"
    /\ phase' = [phase EXCEPT ![n] = "advertising"]
    /\ left' = [left EXCEPT ![n] = Configured[n]]
    /\ UNCHANGED <<starts, profile, periodic, index, inbox, listener, search, registry, early>>

\* The bootstrap connections are made or not and the routing table is
\* refreshed or times out; then the node scores itself and, with no await in
\* between, begins to advertise.
Joined(n) ==
    /\ phase[n] = "joining"
    /\ phase' = [phase EXCEPT ![n] = "advertising"]
    /\ profile' = [profile EXCEPT ![n] = "scored"]
    /\ left' = [left EXCEPT ![n] = Top[n]]
    /\ UNCHANGED <<starts, periodic, index, inbox, listener, search, registry, early>>

\* MUTANT of Advertise: a write that succeeds late is waited for, and one that
\* does not is waited for ever.
AdvertiseWithoutTimeout(n, c) ==
    /\ c \in left[n] /\ c \in index[n]
    /\ left' = [left EXCEPT ![n] = @ \ {c}]
    /\ UNCHANGED <<index, phase, starts, profile, periodic, inbox, listener, search, registry, early>>

\* One turn of advertise_capabilities: written or not, within its timeout.
Advertise(n, c) ==
    /\ c \in left[n]
    /\ left' = [left EXCEPT ![n] = @ \ {c}]
    /\ \E written \in {{}, {c}} : index' = [index EXCEPT ![n] = @ \cup written]
    /\ UNCHANGED <<phase, starts, profile, periodic, inbox, listener, search, registry, early>>

\* An exception of the library is not caught on this path: the node ends.
AdvertiseRaises(n) == left[n] # {} /\ Ends(n)

\* announce_self_via_gossip reaches any of the nodes that are up, the node
\* itself included.
Announce(n) ==
    /\ phase[n] = "advertising" /\ left[n] = {}
    /\ phase' = [phase EXCEPT ![n] = "running"]
    /\ \E reached \in SUBSET {m \in Nodes : Up(m) /\ Gossip} :
          inbox' = [m \in Nodes |-> IF m \in reached
                                    THEN inbox[m] \cup {[of |-> n, for |-> starts[n]]}
                                    ELSE inbox[m]]
    /\ UNCHANGED <<starts, profile, left, periodic, index, listener, search, registry, early>>

-----------------------------------------------------------------------------
(* periodically_advertise_capabilities_to_dht, a task of its own that       *)
(* sleeps first.                                                            *)

\* MUTANT of Advertised: scoring replaces the scores and not the list.
AdvertisedAsConfigured(n) == Configured[n]

\* What the local profile advertises now.
Advertised(n) == IF profile[n] = "scored" THEN Top[n] ELSE Configured[n]

\* It runs from the moment the process starts, whether the start has ended or not.
PeriodicWakes(n) ==
    /\ Up(n) /\ ~periodic[n].awake
    /\ periodic' = [periodic EXCEPT ![n] = [awake |-> TRUE, caps |-> Advertised(n)]]
    /\ early' = [early EXCEPT ![n] = @ \/ profile[n] = "configured"]
    /\ UNCHANGED <<phase, starts, profile, left, index, inbox, listener, search, registry>>

PeriodicWrites(n, c) ==
    /\ c \in periodic[n].caps
    /\ periodic' = [periodic EXCEPT ![n].caps = @ \ {c}]
    /\ index' = [index EXCEPT ![n] = @ \cup {c}]
    /\ UNCHANGED <<phase, starts, profile, left, inbox, listener, search, registry, early>>

PeriodicTimesOut(n, c) ==
    /\ c \in periodic[n].caps
    /\ periodic' = [periodic EXCEPT ![n].caps = @ \ {c}]
    /\ UNCHANGED <<phase, starts, profile, left, index, inbox, listener, search, registry, early>>

\* MUTANT of PeriodicSleeps: no loop, the task ends after its first turn.
PeriodicOnce(n) ==
    /\ periodic[n].awake
    /\ periodic' = [periodic EXCEPT ![n].caps = {}]
    /\ UNCHANGED <<phase, starts, profile, left, index, inbox, listener, search, registry, early>>

\* All are written or have timed out, or one raised and the rest is skipped.
PeriodicSleeps(n) ==
    /\ periodic[n].awake
    /\ periodic' = [periodic EXCEPT ![n] = Asleep]
    /\ UNCHANGED <<phase, starts, profile, left, index, inbox, listener, search, registry, early>>

\* A record of the index expires.
Expires(n, c) ==
    /\ c \in index[n]
    /\ index' = [index EXCEPT ![n] = @ \ {c}]
    /\ UNCHANGED <<phase, starts, profile, left, periodic, inbox, listener, search, registry, early>>

-----------------------------------------------------------------------------
(* Who asks for a profile: the listener, for an announcement; a search, for *)
(* a provider of the index or a node somebody recommends.                   *)

Asks(of, for) == [NoFetch EXCEPT !.of = of, !.for = for]

TakesAnnouncement(m, a) ==
    /\ a \in inbox[m] /\ listener[m] = NoFetch
    /\ inbox' = [inbox EXCEPT ![m] = @ \ {a}]
    /\ listener' = [listener EXCEPT ![m] = IF a.of = m THEN @ ELSE Asks(a.of, a.for)]
    /\ UNCHANGED <<phase, starts, profile, left, periodic, index, search, registry, early>>

Recommended(m, n) == \E r \in Nodes \ {m} : Up(r) /\ registry[r][n] # "none"

SearchAsks(m, n) ==
    /\ Up(m) /\ search[m] = NoFetch /\ n # m
    /\ index[n] # {} \/ Recommended(m, n)
    /\ search' = [search EXCEPT ![m] = Asks(n, 0)]
    /\ UNCHANGED <<phase, starts, profile, left, periodic, index, inbox, listener, registry, early>>

\* The profile handler of the node asked replies with its profile of now.
Served(f) == [f EXCEPT !.got = profile[f.of], !.from = starts[f.of]]
Serves(f) == f.of # NoNode /\ f.got = "none" /\ Up(f.of)

ListenerServed(m) ==
    /\ Serves(listener[m])
    /\ listener' = [listener EXCEPT ![m] = Served(@)]
    /\ UNCHANGED <<phase, starts, profile, left, periodic, index, inbox, search, registry, early>>

SearchServed(m) ==
    /\ Serves(search[m])
    /\ search' = [search EXCEPT ![m] = Served(@)]
    /\ UNCHANGED <<phase, starts, profile, left, periodic, index, inbox, listener, registry, early>>

\* The reply arrives and is stored, or the request fails or times out.
Stored(m, f) ==
    registry' = IF f.got = "none" THEN registry ELSE [registry EXCEPT ![m][f.of] = f.got]

ListenerDone(m) ==
    /\ listener[m] # NoFetch
    /\ Stored(m, listener[m])
    /\ listener' = [listener EXCEPT ![m] = NoFetch]
    /\ UNCHANGED <<phase, starts, profile, left, periodic, index, inbox, search, early>>

SearchDone(m) ==
    /\ search[m] # NoFetch
    /\ Stored(m, search[m])
    /\ search' = [search EXCEPT ![m] = NoFetch]
    /\ UNCHANGED <<phase, starts, profile, left, periodic, index, inbox, listener, early>>

Starting(n) == Joined(n) \/ (\E c \in Caps : Advertise(n, c)) \/ Announce(n)

Periodic(n) ==
    \/ PeriodicWakes(n) \/ PeriodicSleeps(n)
    \/ \E c \in Caps : PeriodicWrites(n, c) \/ PeriodicTimesOut(n, c)

Fetches(m) ==
    \/ \E a \in inbox[m] : TakesAnnouncement(m, a)
    \/ ListenerServed(m) \/ ListenerDone(m)
    \/ \E n \in Nodes : SearchAsks(m, n)
    \/ SearchServed(m) \/ SearchDone(m)

Next ==
    \E n \in Nodes :
        \/ Start(n) \/ Starting(n) \/ AdvertiseRaises(n) \/ Killed(n)
        \/ Periodic(n) \/ Fetches(n)
        \/ \E c \in Caps : Expires(n, c)

Spec == Init /\ [][Next]_vars

\* Every write of the index has a timeout; the periodic task wakes again, ends
\* its turn, and a write that is tried for ever succeeds again and again.
FairnessOf(n) ==
    /\ WF_vars(\E c \in Caps : Advertise(n, c))
    /\ WF_vars(PeriodicWakes(n))
    /\ WF_vars(PeriodicSleeps(n))
    /\ \A c \in Caps : SF_vars(PeriodicWrites(n, c))

Fairness == \A n \in Nodes : FairnessOf(n)

\* The other awaits of a start have no timeout: pubsub coming up, the bootstrap
\* connections (network_utils.py:19) and add_peer before the node is scored, the
\* publication after it has advertised.
BootstrapEnds == \A n \in Nodes : WF_vars(Joined(n))
PublicationEnds == \A n \in Nodes : WF_vars(Announce(n))

FairSpec == Spec /\ Fairness
-----------------------------------------------------------------------------
FetchRecords == [of : Nodes \cup {NoNode}, for : Nat, from : Nat,
             got : Profiles \cup {"none"}]

\* Every variable has its type.
TypeOK ==
    /\ phase \in [Nodes -> Phases]
    /\ starts \in [Nodes -> Nat]
    /\ profile \in [Nodes -> Profiles]
    /\ left \in [Nodes -> SUBSET Caps]
    /\ periodic \in [Nodes -> [awake : BOOLEAN, caps : SUBSET Caps]]
    /\ index \in [Nodes -> SUBSET Caps]
    /\ inbox \in [Nodes -> SUBSET [of : Nodes, for : Nat]]
    /\ listener \in [Nodes -> FetchRecords] /\ search \in [Nodes -> FetchRecords]
    /\ registry \in [Nodes -> [Nodes -> Profiles \cup {"none"}]]
    /\ early \in [Nodes -> BOOLEAN]

\* The index lists a node for capabilities it scored best on and no others,
\* whatever its configuration says, also while the node is down or starts again
\* ("Normal node startup replaces these with simulated scores before DHT
\* advertising", cli/run_node.py:226); unless a start has ever taken so long
\* that the periodic task woke first.
IndexIsTopScored == \A n \in Nodes : ~early[n] => index[n] \subseteq Top[n]

\* Every variable has its type, and the index only lists what was scored best.
IndexSound == TypeOK /\ IndexIsTopScored

\* A profile fetched because of an announcement is the scored one, unless the
\* node has been started again since it announced itself.
AnnouncedIsScored ==
    \A m \in Nodes :
        LET f == listener[m] IN f.got = "configured" => f.from > f.for

\* Nobody holds the unscored profile of a node in its first life: before it
\* has scored itself nothing tells anybody to ask, unless the periodic task
\* listed it before.
UnscoredOnlyAfterRestart ==
    \A m, n \in Nodes : registry[m][n] = "configured" => starts[n] > 1 \/ early[n]

\* Only a restart or a start longer than the half hour lets the unscored profile
\* of a node out; to one who asks because of an announcement, only a restart.
ProfilesSound == AnnouncedIsScored /\ UnscoredOnlyAfterRestart

\* A node that stays up once it has scored itself is found by each of its best
\* capabilities again and again, although records expire, advertising fails and
\* its announcement may never end.
StaysFindable ==
    \A n \in Nodes : \A c \in Top[n] :
        <>[](Up(n) /\ profile[n] = "scored") => []<>(c \in index[n])

\* A start ends its advertising, whatever the DHT does; it ends as a whole, the
\* node running or the process gone, if its awaits without a timeout end.
EveryStartEnds ==
    /\ \A n \in Nodes : left[n] # {} ~> left[n] = {}
    /\ BootstrapEnds /\ PublicationEnds =>
          \A n \in Nodes : phase[n] = "joining" ~> phase[n] \in {"running", "down"}
=============================================================================
