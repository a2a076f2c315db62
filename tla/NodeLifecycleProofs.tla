------------------------ MODULE NodeLifecycleProofs -------------------------
(***************************************************************************)
(* What the index lists and which profiles others hold, for every set of    *)
(* nodes, however often they are started, and however long announcements    *)
(* and replies take.                                                        *)
(***************************************************************************)
EXTENDS NodeLifecycle, TLAPS

\* A write that is pending is of a capability the node scored best on, unless
\* the periodic task has ever woken before the scoring.
TopOnly ==
    \A n \in Nodes :
        /\ left[n] \subseteq Top[n]
        /\ ~early[n] => periodic[n].caps \cup index[n] \subseteq Top[n]

\* A start advertises once the node is scored; only a node that is up writes.
PhasesAgree ==
    \A n \in Nodes :
        /\ Up(n) => starts[n] > 0
        /\ phase[n] \in {"advertising", "running"} => profile[n] = "scored"
        /\ left[n] # {} => phase[n] = "advertising"
        /\ periodic[n].caps # {} => Up(n) /\ (profile[n] = "configured" => early[n])

\* What a node needs to be before anybody hears of it: scored, in its first
\* life, or listed by a task that did not wait for that.
Known(n) ==
    starts[n] > 0 /\ (starts[n] > 1 \/ profile[n] = "scored" \/ early[n])

\* News of n from its for-th life: that life has begun, and scored the node.
NewsOK(n, for) ==
    Known(n) /\ for <= starts[n] /\ (for = starts[n] => profile[n] = "scored")

FetchOK(f) ==
    /\ f.of # NoNode => NewsOK(f.of, f.for)
    /\ f.got = "configured" =>
          f.of # NoNode /\ (starts[f.of] > 1 \/ early[f.of]) /\ f.from > f.for

HeldOK ==
    /\ \A n \in Nodes : index[n] # {} => Known(n)
    /\ \A m, n \in Nodes :
          /\ registry[m][n] # "none" => Known(n)
          /\ registry[m][n] = "configured" => starts[n] > 1 \/ early[n]

NewsAgree ==
    \A m \in Nodes :
        /\ FetchOK(listener[m]) /\ FetchOK(search[m])
        /\ \A a \in inbox[m] : NewsOK(a.of, a.for)

\* The inductive invariant.
Invariant == TypeOK /\ TopOnly /\ PhasesAgree /\ HeldOK /\ NewsAgree

-----------------------------------------------------------------------------

LEMMA InitInvariant == Init => Invariant
<1> SUFFICES ASSUME Init PROVE Invariant
  OBVIOUS
<1> USE NodesAssumption, TopAssumption
<1>1. TypeOK
  BY DEF Init, TypeOK, Phases, Profiles, Asleep, NoFetch, FetchRecords
<1>2. TopOnly /\ PhasesAgree /\ HeldOK
  BY DEF Init, TopOnly, PhasesAgree, HeldOK, Up, Asleep
<1>3. NewsAgree
  BY DEF Init, NewsAgree, FetchOK, NoFetch
<1>4. QED
  BY <1>1, <1>2, <1>3 DEF Invariant

\* Types.
LEMMA NextTypeOK ==
    ASSUME TypeOK, Next
    PROVE  TypeOK'
<1> USE NodesAssumption, TopAssumption DEF TypeOK, Phases, Profiles
<1>1. PICK n \in Nodes :
          \/ Start(n) \/ Starting(n) \/ AdvertiseRaises(n) \/ Killed(n)
          \/ Periodic(n) \/ Fetches(n)
          \/ \E c \in Caps : Expires(n, c)
  BY DEF Next
<1>2. CASE Start(n)
  BY <1>2 DEF Start
<1>3. Asleep \in [awake : BOOLEAN, caps : SUBSET Caps] /\ NoFetch \in FetchRecords
  BY DEF Asleep, NoFetch, FetchRecords
<1>4. CASE AdvertiseRaises(n) \/ Killed(n)
  <2>1. Ends(n)
    BY <1>4 DEF AdvertiseRaises, Killed
  <2>2. QED
    BY <1>3, <2>1 DEF Ends
<1>5. CASE Joined(n)
  BY <1>5 DEF Joined
<1>6. ASSUME NEW c \in Caps, Advertise(n, c) PROVE TypeOK'
  BY <1>6 DEF Advertise
<1>7. CASE Announce(n)
  <2>1. PICK reached \in SUBSET Nodes :
            inbox' = [m \in Nodes |-> IF m \in reached
                                      THEN inbox[m] \cup {[of |-> n, for |-> starts[n]]}
                                      ELSE inbox[m]]
    BY <1>7 DEF Announce
  <2>2. [of |-> n, for |-> starts[n]] \in [of : Nodes, for : Nat]
    OBVIOUS
  <2>3. inbox' \in [Nodes -> SUBSET [of : Nodes, for : Nat]]
    BY <2>1, <2>2
  <2>4. QED
    BY <1>7, <2>3 DEF Announce
<1>8. CASE PeriodicWakes(n) \/ PeriodicSleeps(n)
  <2>1. [awake |-> TRUE, caps |-> Advertised(n)] \in [awake : BOOLEAN, caps : SUBSET Caps]
    BY DEF Advertised
  <2>2. periodic' \in [Nodes -> [awake : BOOLEAN, caps : SUBSET Caps]]
    BY <1>3, <1>8, <2>1 DEF PeriodicWakes, PeriodicSleeps
  <2>3. UNCHANGED <<phase, starts, profile, left, index, inbox, listener, search, registry>>
    BY <1>8 DEF PeriodicWakes, PeriodicSleeps
  <2>4. early' \in [Nodes -> BOOLEAN]
    BY <1>8 DEF PeriodicWakes, PeriodicSleeps
  <2>5. QED
    BY <2>2, <2>3, <2>4
<1>9. ASSUME NEW c \in Caps, PeriodicWrites(n, c) \/ PeriodicTimesOut(n, c) PROVE TypeOK'
  <2>1. periodic' = [periodic EXCEPT ![n].caps = periodic[n].caps \ {c}]
    BY <1>9 DEF PeriodicWrites, PeriodicTimesOut
  <2>2. periodic[n] \in [awake : BOOLEAN, caps : SUBSET Caps]
    OBVIOUS
  <2>3. [periodic[n] EXCEPT !.caps = periodic[n].caps \ {c}] \in [awake : BOOLEAN, caps : SUBSET Caps]
    BY <2>2
  <2>4. periodic' \in [Nodes -> [awake : BOOLEAN, caps : SUBSET Caps]]
    BY <2>1, <2>3
  <2>5. index' \in [Nodes -> SUBSET Caps]
    <3>1. index' \in {index, [index EXCEPT ![n] = index[n] \cup {c}]}
      BY <1>9 DEF PeriodicWrites, PeriodicTimesOut
    <3>2. index \in [Nodes -> SUBSET Caps] /\ index[n] \cup {c} \in SUBSET Caps
      OBVIOUS
    <3>3. CASE index' = index
      BY <3>2, <3>3
    <3>4. CASE index' = [index EXCEPT ![n] = index[n] \cup {c}]
      BY <3>2, <3>4
    <3>5. QED
      BY <3>1, <3>3, <3>4
  <2>6. UNCHANGED <<phase, starts, profile, left, inbox, listener, search, registry, early>>
    BY <1>9 DEF PeriodicWrites, PeriodicTimesOut
  <2>7. QED
    BY <2>4, <2>5, <2>6
<1>10. ASSUME NEW c \in Caps, Expires(n, c) PROVE TypeOK'
  BY <1>10 DEF Expires
<1>11. ASSUME NEW a \in inbox[n], TakesAnnouncement(n, a) PROVE TypeOK'
  <2>1. a \in [of : Nodes, for : Nat]
    OBVIOUS
  <2>2. Asks(a.of, a.for) \in FetchRecords
    BY <2>1 DEF Asks, NoFetch, FetchRecords
  <2>3. QED
    BY <1>11, <2>2 DEF TakesAnnouncement
<1>12. ASSUME NEW m \in Nodes, SearchAsks(n, m) PROVE TypeOK'
  <2>1. Asks(m, 0) \in FetchRecords
    BY DEF Asks, NoFetch, FetchRecords
  <2>2. QED
    BY <1>12, <2>1 DEF SearchAsks
<1>13. ASSUME NEW f \in FetchRecords, Serves(f) PROVE Served(f) \in FetchRecords
  BY <1>13 DEF Serves, Served, FetchRecords
<1>14. CASE ListenerServed(n)
  BY <1>13, <1>14 DEF ListenerServed
<1>15. CASE SearchServed(n)
  BY <1>13, <1>15 DEF SearchServed
<1>16. ASSUME NEW f \in FetchRecords, Stored(n, f)
       PROVE  registry' \in [Nodes -> [Nodes -> Profiles \cup {"none"}]]
  BY <1>16 DEF Stored, FetchRecords
<1>17. CASE ListenerDone(n)
  BY <1>16, <1>17 DEF ListenerDone, NoFetch, FetchRecords
<1>18. CASE SearchDone(n)
  BY <1>16, <1>18 DEF SearchDone, NoFetch, FetchRecords
<1>19. QED
  BY <1>1, <1>2, <1>4, <1>5, <1>6, <1>7, <1>8, <1>9, <1>11, <1>12, <1>14, <1>15, <1>17, <1>18, <1>10
     DEF Starting, Periodic, Fetches

\* The steps that ask for profiles touch nothing of the nodes asked.
LEMMA FetchesLeave ==
    ASSUME NEW m \in Nodes, Fetches(m)
    PROVE  UNCHANGED <<phase, starts, profile, left, periodic, index, early>>
BY DEF Fetches, TakesAnnouncement, ListenerServed, ListenerDone, SearchAsks, SearchServed,
       SearchDone

\* A process that ends leaves nothing to write and nothing to fetch.
LEMMA EndsLeaves ==
    ASSUME TypeOK, NEW n \in Nodes, Ends(n)
    PROVE  /\ UNCHANGED <<starts, profile, index, registry, early>>
           /\ \A m \in Nodes :
                /\ phase'[m] \in {phase[m], "down"} /\ left'[m] \in {left[m], {}}
                /\ periodic'[m] \in {periodic[m], Asleep}
                /\ inbox'[m] \in {inbox[m], {}}
                /\ listener'[m] \in {listener[m], NoFetch}
                /\ search'[m] \in {search[m], NoFetch}
                /\ m = n => left'[m] = {} /\ periodic'[m] = Asleep
                /\ m # n => phase'[m] = phase[m]
BY DEF Ends, TypeOK

\* A turn of the periodic task: from what the profile advertises down.
LEMMA TurnBegins ==
    ASSUME TypeOK, NEW n \in Nodes, PeriodicWakes(n) \/ PeriodicSleeps(n)
    PROVE  /\ UNCHANGED <<phase, starts, profile, left, index, inbox, listener, search, registry>>
           /\ \A m \in Nodes :
                /\ early[m] => early'[m]
                /\ \/ periodic'[m].caps \subseteq periodic[m].caps
                   \/ /\ Up(m) /\ (profile[m] = "configured" => early'[m])
                      /\ profile[m] = "scored" => periodic'[m].caps = Top[m]
<1>1. CASE PeriodicWakes(n)
  <2>1. \A m \in Nodes : /\ m # n => periodic'[m] = periodic[m] /\ early'[m] = early[m]
                         /\ m = n => periodic'[m].caps = Advertised(n)
                         /\ m = n => early'[m] = (early[m] \/ profile[m] = "configured")
    BY <1>1 DEF PeriodicWakes, TypeOK
  <2>2. QED
    BY <1>1, <2>1 DEF PeriodicWakes, Advertised
<1>2. CASE PeriodicSleeps(n)
  <2>1. \A m \in Nodes : periodic'[m] = IF m = n THEN Asleep ELSE periodic[m]
    BY <1>2 DEF PeriodicSleeps, TypeOK
  <2>2. Asleep.caps = {}
    BY DEF Asleep
  <2>3. QED
    BY <1>2, <2>1, <2>2 DEF PeriodicSleeps
<1>3. QED
  BY <1>1, <1>2

LEMMA TurnGoesOn ==
    ASSUME TypeOK, NEW n \in Nodes, NEW c \in Caps, PeriodicWrites(n, c) \/ PeriodicTimesOut(n, c)
    PROVE  /\ UNCHANGED <<phase, starts, profile, left, inbox, listener, search, registry, early>>
           /\ c \in periodic[n].caps
           /\ \A m \in Nodes :
                /\ periodic'[m].caps \subseteq periodic[m].caps
                /\ index'[m] \subseteq index[m] \cup IF m = n THEN {c} ELSE {}
<1>1. /\ c \in periodic[n].caps
      /\ UNCHANGED <<phase, starts, profile, left, inbox, listener, search, registry, early>>
      /\ periodic' = [periodic EXCEPT ![n].caps = periodic[n].caps \ {c}]
      /\ index' \in {index, [index EXCEPT ![n] = index[n] \cup {c}]}
  BY DEF PeriodicWrites, PeriodicTimesOut
<1>2. \A m \in Nodes : periodic'[m].caps \subseteq periodic[m].caps
  BY <1>1 DEF TypeOK
<1>3. \A m \in Nodes : index'[m] \subseteq index[m] \cup IF m = n THEN {c} ELSE {}
  BY <1>1 DEF TypeOK
<1>4. QED
  BY <1>1, <1>2, <1>3

LEMMA NextTopOnly ==
    ASSUME TypeOK, TopOnly, Next
    PROVE  TopOnly'
<1>1. PICK n \in Nodes :
          \/ Start(n) \/ Starting(n) \/ AdvertiseRaises(n) \/ Killed(n)
          \/ Periodic(n) \/ Fetches(n)
          \/ \E c \in Caps : Expires(n, c)
  BY DEF Next
<1>2. CASE Start(n) \/ Announce(n) \/ Fetches(n)
  BY <1>2, FetchesLeave DEF Start, Announce, TopOnly
<1>3. CASE AdvertiseRaises(n) \/ Killed(n)
  <2>1. Ends(n)
    BY <1>3 DEF AdvertiseRaises, Killed
  <2>2. \A m \in Nodes : periodic'[m].caps \subseteq periodic[m].caps
    BY <2>1, EndsLeaves DEF Asleep
  <2>3. QED
    BY <2>1, <2>2, EndsLeaves DEF TopOnly
<1>4. CASE Joined(n)
  BY <1>4 DEF Joined, TypeOK, TopOnly
<1>5. ASSUME NEW c \in Caps, Advertise(n, c) PROVE TopOnly'
  <2>1. c \in Top[n]
    BY <1>5 DEF Advertise, TopOnly
  <2>2. QED
    BY <1>5, <2>1 DEF Advertise, TypeOK, TopOnly
<1>6. CASE PeriodicWakes(n) \/ PeriodicSleeps(n)
  <2>1. \A m \in Nodes : profile[m] \in {"configured", "scored"}
    BY DEF TypeOK, Profiles
  <2>2. QED
    BY <1>6, <2>1, TurnBegins DEF TopOnly
<1>7. ASSUME NEW c \in Caps, PeriodicWrites(n, c) \/ PeriodicTimesOut(n, c) PROVE TopOnly'
  <2>1. ~early[n] => c \in Top[n]
    BY <1>7, TurnGoesOn DEF TopOnly
  <2>2. QED
    BY <1>7, <2>1, TurnGoesOn DEF TopOnly
<1>8. ASSUME NEW c \in Caps, Expires(n, c) PROVE TopOnly'
  BY <1>8 DEF Expires, TypeOK, TopOnly
<1>9. QED
  BY <1>1, <1>2, <1>3, <1>4, <1>5, <1>6, <1>7, <1>8 DEF Starting, Periodic

LEMMA NextPhasesAgree ==
    ASSUME TypeOK, PhasesAgree, Next
    PROVE  PhasesAgree'
<1>1. PICK n \in Nodes :
          \/ Start(n) \/ Starting(n) \/ AdvertiseRaises(n) \/ Killed(n)
          \/ Periodic(n) \/ Fetches(n)
          \/ \E c \in Caps : Expires(n, c)
  BY DEF Next
<1>2. CASE Start(n)
  BY <1>2 DEF Start, TypeOK, PhasesAgree, Up
<1>3. CASE AdvertiseRaises(n) \/ Killed(n)
  <2>1. Ends(n)
    BY <1>3 DEF AdvertiseRaises, Killed
  <2>2. \A m \in Nodes : periodic'[m].caps \in {periodic[m].caps, {}} /\ (m = n => periodic'[m].caps = {})
    BY <2>1, EndsLeaves DEF Asleep
  <2>3. QED
    BY <2>1, <2>2, EndsLeaves DEF PhasesAgree, Up
<1>4. CASE Joined(n)
  BY <1>4 DEF Joined, TypeOK, PhasesAgree, Up
<1>5. ASSUME NEW c \in Caps, Advertise(n, c) PROVE PhasesAgree'
  BY <1>5 DEF Advertise, TypeOK, PhasesAgree, Up
<1>6. CASE Announce(n)
  BY <1>6 DEF Announce, TypeOK, PhasesAgree, Up
<1>7. CASE PeriodicWakes(n) \/ PeriodicSleeps(n)
  BY <1>7, TurnBegins DEF PhasesAgree, Up
<1>8. ASSUME NEW c \in Caps, PeriodicWrites(n, c) \/ PeriodicTimesOut(n, c) PROVE PhasesAgree'
  BY <1>8, TurnGoesOn DEF PhasesAgree, Up
<1>9. ASSUME NEW c \in Caps, Expires(n, c) PROVE PhasesAgree'
  BY <1>9 DEF Expires, PhasesAgree, Up
<1>10. CASE Fetches(n)
  BY <1>10, FetchesLeave DEF PhasesAgree, Up
<1>11. QED
  BY <1>1, <1>2, <1>3, <1>4, <1>5, <1>6, <1>7, <1>8, <1>9, <1>10 DEF Starting, Periodic

-----------------------------------------------------------------------------
(* What is known of a node stays true of it.                                *)

\* Only a start and the scoring after it change a node's life.
LEMMA LivesChange ==
    ASSUME TypeOK, PhasesAgree, Next
    PROVE  \A n \in Nodes :
               /\ \/ starts'[n] = starts[n] /\ profile'[n] = profile[n]
                  \/ starts'[n] = starts[n] + 1
                  \/ starts'[n] = starts[n] /\ profile'[n] = "scored"
               /\ early[n] => early'[n]
<1>1. PICK n \in Nodes :
          \/ Start(n) \/ Starting(n) \/ AdvertiseRaises(n) \/ Killed(n)
          \/ Periodic(n) \/ Fetches(n)
          \/ \E c \in Caps : Expires(n, c)
  BY DEF Next
<1>2. CASE Start(n)
  BY <1>2 DEF Start, TypeOK
<1>3. CASE Joined(n)
  BY <1>3 DEF Joined, TypeOK
<1>4. CASE UNCHANGED <<starts, profile, early>>
  BY <1>4
<1>5. CASE PeriodicWakes(n)
  BY <1>5, TurnBegins
<1>6. QED
  BY <1>1, <1>2, <1>3, <1>4, <1>5, FetchesLeave
     DEF Starting, Advertise, Announce, AdvertiseRaises, Killed, Ends, Periodic,
         PeriodicSleeps, PeriodicWrites, PeriodicTimesOut, Expires

LEMMA NewsStays ==
    ASSUME TypeOK, PhasesAgree, Next, NEW n \in Nodes
    PROVE  /\ Known(n) => Known(n)'
           /\ starts[n] > 1 \/ early[n] => starts'[n] > 1 \/ early'[n]
           /\ \A for \in Nat : NewsOK(n, for) => NewsOK(n, for)'
<1>1. starts[n] \in Nat /\ starts'[n] \in Nat /\ (early[n] => early'[n])
  <2>1. TypeOK'
    BY NextTypeOK
  <2>2. QED
    BY <2>1, LivesChange DEF TypeOK
<1>2. CASE starts'[n] = starts[n] + 1
  BY <1>1, <1>2 DEF Known, NewsOK
<1>3. CASE starts'[n] = starts[n] /\ profile'[n] \in {profile[n], "scored"}
  BY <1>1, <1>3 DEF Known, NewsOK
<1>4. QED
  BY <1>2, <1>3, LivesChange

LEMMA FetchStays ==
    ASSUME TypeOK, PhasesAgree, Next, NEW f \in FetchRecords, FetchOK(f)
    PROVE  FetchOK(f)'
<1>1. f.for \in Nat /\ (f.of # NoNode => f.of \in Nodes)
  BY DEF FetchRecords
<1>2. CASE f.of = NoNode
  BY <1>2 DEF FetchOK
<1>3. CASE f.of # NoNode
  BY <1>1, <1>3, NewsStays DEF FetchOK
<1>4. QED
  BY <1>2, <1>3

\* The profile a node serves to a request that is news of it.
LEMMA ServedOK ==
    ASSUME TypeOK, NEW f \in FetchRecords, Serves(f), FetchOK(f)
    PROVE  FetchOK(Served(f))
<1> DEFINE g == Served(f)
           n == f.of
<1>1. n \in Nodes /\ f.for \in Nat
  BY DEF Serves, FetchRecords
<1>2. g.of = n /\ g.for = f.for /\ g.got = profile[n] /\ g.from = starts[n]
  BY DEF Served, FetchRecords
<1>3. NewsOK(n, f.for) /\ n # NoNode
  BY DEF FetchOK, Serves
<1>4. starts[n] \in Nat
  BY <1>1 DEF TypeOK
<1>5. profile[n] = "configured" => (starts[n] > 1 \/ early[n]) /\ starts[n] > f.for
  BY <1>1, <1>3, <1>4 DEF NewsOK, Known
<1> HIDE DEF g, n
<1>6. FetchOK(g)
  BY <1>2, <1>3, <1>5 DEF FetchOK
<1>7. QED
  BY <1>6 DEF g

LEMMA NextHeldOK ==
    ASSUME Invariant, Next
    PROVE  HeldOK'
<1> USE NodesAssumption
<1>1. PICK n \in Nodes :
          \/ Start(n) \/ Starting(n) \/ AdvertiseRaises(n) \/ Killed(n)
          \/ Periodic(n) \/ Fetches(n)
          \/ \E c \in Caps : Expires(n, c)
  BY DEF Next
<1>2. TypeOK /\ PhasesAgree /\ HeldOK /\ NewsAgree
  BY DEF Invariant
<1>3. \A m \in Nodes : /\ Known(m) => Known(m)'
                       /\ starts[m] > 1 \/ early[m] => starts'[m] > 1 \/ early'[m]
  BY <1>2, NewsStays
<1>4. \A m \in Nodes : index'[m] # {} => Known(m)'
  <2>1. left[n] # {} \/ periodic[n].caps # {} => Known(n)
    <3>1. starts[n] \in Nat /\ profile[n] \in {"configured", "scored"}
      BY <1>2 DEF TypeOK, Profiles
    <3>2. left[n] # {} => starts[n] > 0 /\ profile[n] = "scored"
      BY <1>2 DEF PhasesAgree, Up
    <3>3. periodic[n].caps # {} => starts[n] > 0 /\ (profile[n] = "configured" => early[n])
      BY <1>2 DEF PhasesAgree, Up
    <3>4. QED
      BY <3>1, <3>2, <3>3 DEF Known
  <2>2. ASSUME NEW c \in Caps, Advertise(n, c) PROVE \A m \in Nodes : index'[m] # {} => Known(m)
    <3>1. Known(n)
      BY <2>1, <2>2 DEF Advertise
    <3>2. QED
      BY <1>2, <2>2, <3>1 DEF Advertise, TypeOK, HeldOK
  <2>3. ASSUME NEW c \in Caps, PeriodicWrites(n, c) \/ PeriodicTimesOut(n, c)
        PROVE  \A m \in Nodes : index'[m] # {} => Known(m)
    <3>1. Known(n)
      BY <1>2, <2>1, <2>3, TurnGoesOn
    <3>2. QED
      BY <1>2, <2>3, <3>1, TurnGoesOn DEF HeldOK
  <2>4. ASSUME NEW c \in Caps, Expires(n, c) PROVE \A m \in Nodes : index'[m] # {} => Known(m)
    BY <1>2, <2>4 DEF Expires, TypeOK, HeldOK
  <2>5. CASE UNCHANGED index
    BY <1>2, <1>3, <2>5 DEF HeldOK
  <2>6. QED
    BY <1>1, <1>3, <2>2, <2>3, <2>4, <2>5, FetchesLeave
       DEF Start, Starting, Joined, Announce, AdvertiseRaises, Killed, Ends, Periodic,
           PeriodicWakes, PeriodicSleeps
<1>5. \A m, k \in Nodes : /\ registry'[m][k] # "none" => Known(k)
                          /\ registry'[m][k] = "configured" => starts[k] > 1 \/ early[k]
  <2>1. CASE Start(n)
    BY <1>2, <2>1 DEF Start, TypeOK, HeldOK
  <2>2. ASSUME NEW f \in FetchRecords, FetchOK(f), Stored(n, f)
        PROVE  \A m, k \in Nodes : /\ registry'[m][k] # "none" => Known(k)
                                   /\ registry'[m][k] = "configured" => starts[k] > 1 \/ early[k]
    <3>1. \A m, k \in Nodes : \/ registry'[m][k] = registry[m][k]
                              \/ k = f.of /\ registry'[m][k] = f.got
      BY <1>2, <2>2 DEF Stored, TypeOK
    <3>2. f.of \in Nodes => Known(f.of)
      BY <2>2 DEF FetchOK, NewsOK
    <3>3. f.got = "configured" => starts[f.of] > 1 \/ early[f.of]
      BY <2>2 DEF FetchOK
    <3>4. QED
      BY <1>2, <3>1, <3>2, <3>3 DEF HeldOK
  <2>3. CASE ListenerDone(n) \/ SearchDone(n)
    <3>1. listener[n] \in FetchRecords /\ search[n] \in FetchRecords
      BY <1>2 DEF TypeOK
    <3>2. FetchOK(listener[n]) /\ FetchOK(search[n])
      BY <1>2 DEF NewsAgree
    <3>3. QED
      BY <2>2, <2>3, <3>1, <3>2 DEF ListenerDone, SearchDone
  <2>4. CASE UNCHANGED registry
    BY <1>2, <2>4 DEF HeldOK
  <2>5. QED
    BY <1>1, <2>1, <2>3, <2>4
       DEF Starting, Joined, Advertise, Announce, AdvertiseRaises, Killed, Ends, Periodic,
           PeriodicWakes, PeriodicSleeps, PeriodicWrites, PeriodicTimesOut, Expires, Fetches,
           TakesAnnouncement, ListenerServed, SearchAsks, SearchServed
<1>6. QED
  BY <1>3, <1>4, <1>5 DEF HeldOK

LEMMA NextNewsAgree ==
    ASSUME Invariant, Next
    PROVE  NewsAgree'
<1> USE NodesAssumption
<1>1. PICK n \in Nodes :
          \/ Start(n) \/ Starting(n) \/ AdvertiseRaises(n) \/ Killed(n)
          \/ Periodic(n) \/ Fetches(n)
          \/ \E c \in Caps : Expires(n, c)
  BY DEF Next
<1>2. TypeOK /\ PhasesAgree /\ HeldOK /\ NewsAgree
  BY DEF Invariant
<1>3. /\ NoFetch \in FetchRecords /\ FetchOK(NoFetch)
      /\ \A m \in Nodes : /\ listener[m] \in FetchRecords /\ FetchOK(listener[m])
                          /\ search[m] \in FetchRecords /\ FetchOK(search[m])
                          /\ inbox[m] \subseteq [of : Nodes, for : Nat]
                          /\ \A a \in inbox[m] : NewsOK(a.of, a.for)
  BY <1>2 DEF TypeOK, NewsAgree, NoFetch, FetchRecords, FetchOK
<1>4. \A m \in Nodes : FetchOK(listener'[m])
  <2>1. ASSUME NEW a \in inbox[n], TakesAnnouncement(n, a)
        PROVE  \A m \in Nodes : FetchOK(listener'[m])
    <3>1. FetchOK(Asks(a.of, a.for))
      BY <1>3 DEF FetchOK, Asks, NoFetch
    <3>2. \A m \in Nodes : listener'[m] \in {listener[m], Asks(a.of, a.for)}
      BY <1>2, <2>1 DEF TakesAnnouncement, TypeOK
    <3>3. QED
      BY <1>3, <3>1, <3>2
  <2>2. CASE ListenerServed(n)
    <3>1. FetchOK(Served(listener[n]))
      BY <1>2, <1>3, <2>2, ServedOK DEF ListenerServed
    <3>2. \A m \in Nodes : listener'[m] = IF m = n THEN Served(listener[n]) ELSE listener[m]
      BY <1>2, <2>2 DEF ListenerServed, TypeOK
    <3>3. QED
      BY <1>3, <3>1, <3>2
  <2>3. CASE ListenerDone(n)
    BY <1>2, <1>3, <2>3 DEF ListenerDone, TypeOK
  <2>4. CASE AdvertiseRaises(n) \/ Killed(n)
    BY <1>2, <1>3, <2>4, EndsLeaves DEF AdvertiseRaises, Killed
  <2>5. CASE UNCHANGED listener
    BY <1>3, <2>5
  <2>6. QED
    BY <1>1, <2>1, <2>2, <2>3, <2>4, <2>5
       DEF Start, Starting, Joined, Advertise, Announce, Periodic, PeriodicWakes,
           PeriodicSleeps, PeriodicWrites, PeriodicTimesOut, Expires, Fetches, SearchAsks,
           SearchServed, SearchDone
<1>5. \A m \in Nodes : FetchOK(search'[m])
  <2>1. ASSUME NEW k \in Nodes, SearchAsks(n, k)
        PROVE  \A m \in Nodes : FetchOK(search'[m])
    <3>1. Known(k) /\ starts[k] \in Nat
      BY <1>2, <2>1 DEF SearchAsks, Recommended, HeldOK, TypeOK
    <3>2. NewsOK(k, 0)
      BY <3>1 DEF NewsOK, Known
    <3>3. FetchOK(Asks(k, 0))
      BY <3>2 DEF FetchOK, Asks, NoFetch
    <3>4. \A m \in Nodes : search'[m] \in {search[m], Asks(k, 0)}
      BY <1>2, <2>1 DEF SearchAsks, TypeOK
    <3>5. QED
      BY <1>3, <3>3, <3>4
  <2>2. CASE SearchServed(n)
    <3>1. FetchOK(Served(search[n]))
      BY <1>2, <1>3, <2>2, ServedOK DEF SearchServed
    <3>2. \A m \in Nodes : search'[m] = IF m = n THEN Served(search[n]) ELSE search[m]
      BY <1>2, <2>2 DEF SearchServed, TypeOK
    <3>3. QED
      BY <1>3, <3>1, <3>2
  <2>3. CASE SearchDone(n)
    BY <1>2, <1>3, <2>3 DEF SearchDone, TypeOK
  <2>4. CASE AdvertiseRaises(n) \/ Killed(n)
    BY <1>2, <1>3, <2>4, EndsLeaves DEF AdvertiseRaises, Killed
  <2>5. CASE UNCHANGED search
    BY <1>3, <2>5
  <2>6. QED
    BY <1>1, <2>1, <2>2, <2>3, <2>4, <2>5
       DEF Start, Starting, Joined, Advertise, Announce, Periodic, PeriodicWakes,
           PeriodicSleeps, PeriodicWrites, PeriodicTimesOut, Expires, Fetches,
           TakesAnnouncement, ListenerServed, ListenerDone
<1>6. \A m \in Nodes : \A a \in inbox'[m] : NewsOK(a.of, a.for)
  <2>1. CASE Announce(n)
    <3>1. NewsOK(n, starts[n])
      <4>1. starts[n] \in Nat /\ starts[n] > 0 /\ profile[n] = "scored"
        BY <1>2, <2>1 DEF Announce, PhasesAgree, Up, TypeOK
      <4>2. QED
        BY <4>1 DEF NewsOK, Known
    <3>2. \A m \in Nodes : inbox'[m] \subseteq inbox[m] \cup {[of |-> n, for |-> starts[n]]}
      BY <1>2, <2>1 DEF Announce, TypeOK
    <3>3. QED
      BY <1>3, <3>1, <3>2
  <2>2. ASSUME NEW a \in inbox[n], TakesAnnouncement(n, a)
        PROVE  \A m \in Nodes : inbox'[m] \subseteq inbox[m]
    BY <1>2, <2>2 DEF TakesAnnouncement, TypeOK
  <2>3. CASE AdvertiseRaises(n) \/ Killed(n)
    BY <1>2, <1>3, <2>3, EndsLeaves DEF AdvertiseRaises, Killed
  <2>4. CASE UNCHANGED inbox
    BY <1>3, <2>4
  <2>5. QED
    BY <1>1, <1>3, <2>1, <2>2, <2>3, <2>4
       DEF Start, Starting, Joined, Advertise, Periodic, PeriodicWakes, PeriodicSleeps,
           PeriodicWrites, PeriodicTimesOut, Expires, Fetches, ListenerServed, ListenerDone,
           SearchAsks, SearchServed, SearchDone
<1>7. TypeOK'
  BY <1>2, NextTypeOK
<1>8. \A m \in Nodes : /\ listener'[m] \in FetchRecords /\ search'[m] \in FetchRecords
                       /\ inbox'[m] \subseteq [of : Nodes, for : Nat]
  BY <1>7 DEF TypeOK
<1>9. \A f \in FetchRecords : FetchOK(f) => FetchOK(f)'
  BY <1>2, FetchStays
<1>10. \A k \in Nodes, for \in Nat : NewsOK(k, for) => NewsOK(k, for)'
  BY <1>2, NewsStays
<1>11. QED
  BY <1>4, <1>5, <1>6, <1>8, <1>9, <1>10 DEF NewsAgree, FetchOK, NewsOK, Known

-----------------------------------------------------------------------------
(* The theorems.                                                            *)

\* Types, what is advertised and what is known of a node agree, however often
\* nodes are started and however late announcements and replies come.
THEOREM InvariantHolds == Spec => []Invariant
<1>1. Invariant /\ Next => Invariant'
  BY NextTypeOK, NextTopOnly, NextPhasesAgree, NextHeldOK, NextNewsAgree DEF Invariant
<1>2. Invariant /\ UNCHANGED vars => Invariant'
  BY DEF Invariant, vars, TypeOK, TopOnly, PhasesAgree, Up, HeldOK, NewsAgree, FetchOK,
         NewsOK, Known
<1>3. QED
  BY <1>1, <1>2, InitInvariant, PTL DEF Spec

\* The index never lists a node for a capability it did not score best on,
\* unless a start of it has ever been outlasted by the periodic task's sleep.
THEOREM IndexIsRight == Spec => []IndexSound
<1>1. Invariant => IndexSound
  BY DEF Invariant, TopOnly, IndexIsTopScored, IndexSound
<1>2. QED
  BY <1>1, InvariantHolds, PTL

\* The unscored profile of a node is held by nobody in its first life, unless
\* the periodic task woke before the scoring, and an announcement leads to it
\* only after the node was started again.
THEOREM ProfilesAreScored == Spec => []ProfilesSound
<1>1. Invariant => AnnouncedIsScored
  BY DEF Invariant, NewsAgree, FetchOK, AnnouncedIsScored
<1>2. Invariant => UnscoredOnlyAfterRestart
  BY DEF Invariant, HeldOK, UnscoredOnlyAfterRestart
<1>3. QED
  BY <1>1, <1>2, InvariantHolds, PTL DEF ProfilesSound
=============================================================================
