---------------------- MODULE RecommendationNodeProofs ----------------------
(***************************************************************************)
(* What holds of RecommendationNode for every finite network, any number of *)
(* requests and all profiles, capabilities, limits and exclusions.          *)
(***************************************************************************)
EXTENDS RecommendationNode, PeerRegistryProofs, FiniteSetTheorems

\* Whatever a handler is given was served at some time.
ServedSound ==
    /\ \A n \in Nodes : held[n] \in past[n] /\ offer[n] \in past[n]
    /\ \A r \in Requests : handler[r].pc = "fetch" =>
          handler[r].target # NoNode /\ handler[r].got \subseteq past[handler[r].target]

\* The reply of a frame f, as the entry node expects it.
ReplyOK(f) ==
    /\ Cardinality(f.ids) <= f.limit
    /\ f.ids \subseteq Listed(f.cap) \ (f.excluded \cup {Self})

\* The history variable is right: what it lists can be recommended.
CurrentSound ==
    \A r \in Requests :
        /\ handler[r].pc = "idle" => current[r] = {} /\ handler[r].ids = {}
        /\ \A n \in current[r] :
              /\ n # Self
              /\ registry.profile[n] = "available"
              /\ handler[r].cap \in Advertises[held[n]]

\* The inductive invariant.
RecommendInvariant ==
    /\ TypeOK
    /\ Consistent(registry)
    /\ ServedSound
    /\ CurrentSound
    /\ \A r \in Requests : ReplyOK(handler[r])

-----------------------------------------------------------------------------
(* What a handler selects, and how its loop goes on.                        *)

LEMMA SelectionBounds ==
    ASSUME NEW f \in Frames, NEW reg, NEW copies, NEW ids \in Selections(reg, copies, f)
    PROVE  /\ ids \subseteq Candidates(reg, copies, f)
           /\ Cardinality(ids) \in Nat /\ Cardinality(ids) <= f.limit
           /\ ids # Candidates(reg, copies, f) => Cardinality(ids) = f.limit
<1> DEFINE pool == Candidates(reg, copies, f)
<1>1. IsFiniteSet(pool)
  <2>1. pool \in SUBSET Nodes
    BY DEF Candidates
  <2>2. QED
    BY <2>1, NodesAssumption, FS_Subset
<1>2. /\ ids \in SUBSET pool
      /\ Cardinality(ids) = IF Cardinality(pool) < f.limit THEN Cardinality(pool) ELSE f.limit
  BY DEF Selections
<1> HIDE DEF pool
<1>3. Cardinality(pool) \in Nat /\ f.limit \in Nat
  BY <1>1, FS_CardinalityType DEF Frames
<1>4. Cardinality(ids) \in Nat /\ Cardinality(ids) <= f.limit
  BY <1>2, <1>3
<1>5. Cardinality(ids) = Cardinality(pool) => ids = pool
  BY <1>1, <1>2, FS_Subset
<1>6. ids # pool => Cardinality(ids) = f.limit
  BY <1>2, <1>5
<1>7. QED
  BY <1>2, <1>4, <1>6 DEF pool

\* Who is selected by copies that were served advertised the capability.
LEMMA SelectionListed ==
    ASSUME NEW f \in Frames, NEW reg, NEW copies, \A n \in Nodes : copies[n] \in past[n],
           NEW ids \in Selections(reg, copies, f)
    PROVE  ids \in SUBSET Nodes /\ ids \subseteq Listed(f.cap) \ (f.excluded \cup {Self})
<1>1. ids \subseteq Candidates(reg, copies, f)
  BY SelectionBounds
<1>2. Candidates(reg, copies, f) \subseteq Listed(f.cap) \ (f.excluded \cup {Self})
  BY DEF Candidates, Listed
<1>3. QED
  BY <1>1, <1>2 DEF Candidates

\* The next frame asks another provider, or is the reply.
LEMMA GoesOn ==
    ASSUME NEW r \in Requests, NEW f \in Frames, NEW reg, NEW copies,
           Continues(r, f, reg, copies)
    PROVE  \E g \in Frames :
              /\ handler' = [handler EXCEPT ![r] = g]
              /\ g.cap = f.cap /\ g.limit = f.limit /\ g.excluded = f.excluded
              /\ g.got = {}
              /\ \/ g.pc = "fetch" /\ g.target # NoNode /\ g.ids = f.ids
                 \/ g.pc = "send" /\ g.ids \in Selections(reg, copies, f)
<1>1. CASE f.todo = {}
  <2>1. PICK ids \in Selections(reg, copies, f) :
            handler' = [handler EXCEPT ![r] =
                [f EXCEPT !.pc = "send", !.target = NoNode, !.got = {}, !.ids = ids]]
    BY <1>1 DEF Continues
  <2> DEFINE g == [f EXCEPT !.pc = "send", !.target = NoNode, !.got = {}, !.ids = ids]
  <2>2. ids \in SUBSET Nodes
    BY SelectionBounds DEF Candidates
  <2>3. g \in Frames
    BY <2>2 DEF Frames, PCs
  <2>4. /\ g.pc = "send" /\ g.got = {} /\ g.ids = ids
        /\ g.cap = f.cap /\ g.limit = f.limit /\ g.excluded = f.excluded
    BY DEF Frames
  <2>5. handler' = [handler EXCEPT ![r] = g]
    BY <2>1
  <2> HIDE DEF g
  <2>6. QED
    BY <2>3, <2>4, <2>5
<1>2. CASE f.todo # {}
  <2>1. PICK n \in f.todo :
            handler' = [handler EXCEPT ![r] =
                [f EXCEPT !.pc = "fetch", !.todo = @ \ {n}, !.target = n, !.got = {}]]
    BY <1>2 DEF Continues
  <2> DEFINE g == [f EXCEPT !.pc = "fetch", !.todo = @ \ {n}, !.target = n, !.got = {}]
  <2>2. n \in Nodes \ {Self} /\ n # NoNode
    BY NodesAssumption DEF Frames
  <2>3. g \in Frames
    BY <2>2 DEF Frames, PCs
  <2>4. /\ g.pc = "fetch" /\ g.got = {} /\ g.target = n /\ g.ids = f.ids
        /\ g.cap = f.cap /\ g.limit = f.limit /\ g.excluded = f.excluded
    BY DEF Frames
  <2>5. handler' = [handler EXCEPT ![r] = g]
    BY <2>1
  <2> HIDE DEF g
  <2>6. QED
    BY <2>2, <2>3, <2>4, <2>5
<1>3. QED
  BY <1>1, <1>2

-----------------------------------------------------------------------------
(* The invariant holds at the start.                                        *)

LEMMA InitRecommend == Init => RecommendInvariant
<1> SUFFICES ASSUME Init PROVE RecommendInvariant
  OBVIOUS
<1> DEFINE f == IdleHandler
<1>1. f \in Frames /\ f.pc = "idle" /\ f.ids = {} /\ f.limit = 0
  BY OffersAssumption DEF IdleHandler, Frames, PCs
<1>2. \A r \in Requests : handler[r] = f /\ current[r] = {}
  BY DEF Init
<1>3. /\ offer \in [Nodes -> Offers] /\ held = offer
      /\ past = [n \in Nodes |-> {offer[n]}]
  BY DEF Init
<1>4. handler \in [Requests -> Frames] /\ current \in [Requests -> SUBSET Nodes]
  BY <1>1 DEF Init
<1>5. TypeOK /\ Consistent(registry)
  BY <1>3, <1>4, EmptyRegistryConsistent DEF Init, TypeOK
<1>6. ReplyOK(f)
  BY <1>1, FS_EmptySet DEF ReplyOK
<1> HIDE DEF f
<1>7. ServedSound /\ CurrentSound
  BY <1>1, <1>2, <1>3 DEF ServedSound, CurrentSound
<1>8. \A r \in Requests : ReplyOK(handler[r])
  BY <1>2, <1>6
<1>9. QED
  BY <1>5, <1>7, <1>8 DEF RecommendInvariant

-----------------------------------------------------------------------------
(* Every step keeps the invariant.                                          *)

\* What it takes when only the frame of one request changes.
LEMMA HandlerStep ==
    ASSUME RecommendInvariant, NEW r \in Requests, NEW f \in Frames,
           handler' = [handler EXCEPT ![r] = f],
           UNCHANGED <<registry, held, world, current>>,
           f.pc # "idle", ReplyOK(f),
           f.pc = "fetch" => f.target # NoNode /\ f.got \subseteq past[f.target],
           handler[r].pc = "idle" \/ f.cap = handler[r].cap
    PROVE  RecommendInvariant'
<1>1. \A s \in Requests : handler'[s] = IF s = r THEN f ELSE handler[s]
  BY DEF RecommendInvariant, TypeOK
<1>2. TypeOK' /\ Consistent(registry')
  BY DEF RecommendInvariant, TypeOK, world
<1>3. ServedSound'
  BY <1>1 DEF RecommendInvariant, ServedSound, world
<1>4. CurrentSound'
  BY <1>1 DEF RecommendInvariant, CurrentSound
<1>5. ASSUME NEW s \in Requests PROVE ReplyOK(handler[s])'
  BY <1>1 DEF RecommendInvariant, ReplyOK, Listed, world
<1>6. QED
  BY <1>2, <1>3, <1>4, <1>5 DEF RecommendInvariant

\* A handler goes on without having stored anything.
LEMMA GoesOnStep ==
    ASSUME RecommendInvariant, NEW r \in Requests, NEW f \in Frames,
           Continues(r, f, registry, held), ReplyOK(f), f.cap = handler[r].cap,
           UNCHANGED <<registry, held, world, current>>
    PROVE  RecommendInvariant'
<1>1. PICK g \in Frames :
          /\ handler' = [handler EXCEPT ![r] = g]
          /\ g.cap = f.cap /\ g.limit = f.limit /\ g.excluded = f.excluded
          /\ g.got = {}
          /\ \/ g.pc = "fetch" /\ g.target # NoNode /\ g.ids = f.ids
             \/ g.pc = "send" /\ g.ids \in Selections(registry, held, f)
  BY GoesOn
<1>2. ReplyOK(g)
  <2>1. CASE g.ids = f.ids
    BY <1>1, <2>1 DEF ReplyOK
  <2>2. CASE g.ids \in Selections(registry, held, f)
    <3>1. \A n \in Nodes : held[n] \in past[n]
      BY DEF RecommendInvariant, ServedSound
    <3>2. Cardinality(g.ids) <= f.limit
      BY <2>2, SelectionBounds
    <3>3. g.ids \subseteq Listed(f.cap) \ (f.excluded \cup {Self})
      BY <2>2, <3>1, SelectionListed
    <3>4. QED
      BY <1>1, <3>2, <3>3 DEF ReplyOK
  <2>3. QED
    BY <1>1, <2>1, <2>2
<1>3. g.pc # "idle" /\ (g.pc = "fetch" => g.target # NoNode /\ g.got \subseteq past[g.target])
  BY <1>1
<1>4. QED
  BY <1>1, <1>2, <1>3, HandlerStep

LEMMA AskedStep ==
    ASSUME RecommendInvariant, NEW r \in Requests, Asked(r)
    PROVE  RecommendInvariant'
<1>1. PICK c \in Caps, k \in Limits, excluded \in Exclusions :
          handler' = [handler EXCEPT ![r] =
              [@ EXCEPT !.pc = "lookup", !.cap = c, !.limit = k, !.excluded = excluded]]
  BY DEF Asked
<1> DEFINE h == handler[r]
           f == [h EXCEPT !.pc = "lookup", !.cap = c, !.limit = k, !.excluded = excluded]
<1>2. h \in Frames /\ h.pc = "idle" /\ h.ids = {}
  BY DEF RecommendInvariant, TypeOK, CurrentSound, Asked
<1>3. k \in Nat /\ excluded \in SUBSET Nodes
  BY OffersAssumption
<1>4. f \in Frames /\ f.pc = "lookup" /\ f.ids = {} /\ f.limit = k
  BY <1>2, <1>3 DEF Frames, PCs
<1>5. ReplyOK(f)
  BY <1>3, <1>4, FS_EmptySet DEF ReplyOK
<1>6. handler' = [handler EXCEPT ![r] = f]
  BY <1>1
<1> HIDE DEF f
<1>7. QED
  BY <1>2, <1>4, <1>5, <1>6, HandlerStep DEF Asked

LEMMA FailsStep ==
    ASSUME RecommendInvariant, NEW r \in Requests, Fails(r)
    PROVE  RecommendInvariant'
<1> DEFINE h == handler[r]
           f == [h EXCEPT !.pc = "done", !.target = NoNode, !.todo = {}, !.got = {}, !.ids = {}]
<1>1. h \in Frames
  BY DEF RecommendInvariant, TypeOK
<1>2. f \in Frames /\ f.pc = "done" /\ f.ids = {} /\ f.limit \in Nat /\ f.cap = h.cap
  BY <1>1 DEF Frames, PCs
<1>3. ReplyOK(f)
  BY <1>2, FS_EmptySet DEF ReplyOK
<1>4. handler' = [handler EXCEPT ![r] = f]
  BY DEF Fails
<1> HIDE DEF f
<1>5. QED
  BY <1>2, <1>3, <1>4, HandlerStep DEF Fails

LEMMA LookupReturnsStep ==
    ASSUME RecommendInvariant, NEW r \in Requests, LookupReturns(r)
    PROVE  RecommendInvariant'
<1> DEFINE h == handler[r]
<1>1. PICK found \in SUBSET Listed(h.cap) :
          Continues(r, [h EXCEPT !.todo = found \ {Self}], registry, held)
  BY DEF LookupReturns
<1> DEFINE f == [h EXCEPT !.todo = found \ {Self}]
<1>2. h \in Frames /\ ReplyOK(h)
  BY DEF RecommendInvariant, TypeOK
<1>3. f \in Frames /\ f.cap = h.cap /\ f.limit = h.limit /\ f.excluded = h.excluded /\ f.ids = h.ids
  BY <1>2 DEF Frames, Listed
<1>4. ReplyOK(f)
  BY <1>2, <1>3 DEF ReplyOK
<1>5. Continues(r, f, registry, held)
  BY <1>1
<1> HIDE DEF f
<1>6. QED
  BY <1>3, <1>4, <1>5, GoesOnStep DEF LookupReturns

LEMMA ProfileMissingStep ==
    ASSUME RecommendInvariant, NEW r \in Requests, ProfileMissing(r)
    PROVE  RecommendInvariant'
<1>1. handler[r] \in Frames /\ ReplyOK(handler[r])
  BY DEF RecommendInvariant, TypeOK
<1>2. QED
  BY <1>1, GoesOnStep DEF ProfileMissing

LEMMA ProfileServedStep ==
    ASSUME RecommendInvariant, NEW r \in Requests, ProfileServed(r)
    PROVE  RecommendInvariant'
<1> DEFINE h == handler[r]
           f == [h EXCEPT !.got = {offer[h.target]}]
<1>1. h \in Frames /\ h.pc = "fetch" /\ h.target \in Nodes /\ ReplyOK(h)
  BY DEF RecommendInvariant, TypeOK, ServedSound, ProfileServed, Frames
<1>2. offer[h.target] \in Offers /\ offer[h.target] \in past[h.target]
  BY <1>1 DEF RecommendInvariant, TypeOK, ServedSound
<1>3. /\ f \in Frames /\ f.pc = "fetch" /\ f.got = {offer[h.target]} /\ f.target = h.target
      /\ f.cap = h.cap /\ f.limit = h.limit /\ f.excluded = h.excluded /\ f.ids = h.ids
  BY <1>1, <1>2 DEF Frames
<1>4. ReplyOK(f)
  BY <1>1, <1>3 DEF ReplyOK
<1>5. f.target # NoNode /\ f.got \subseteq past[f.target]
  BY <1>1, <1>2, <1>3, NodesAssumption
<1>6. handler' = [handler EXCEPT ![r] = f]
  BY DEF ProfileServed
<1> HIDE DEF f
<1>7. QED
  BY <1>3, <1>4, <1>5, <1>6, HandlerStep DEF ProfileServed

LEMMA ReplySentStep ==
    ASSUME RecommendInvariant, NEW r \in Requests, ReplySent(r)
    PROVE  RecommendInvariant'
<1> DEFINE h == handler[r]
           f == [h EXCEPT !.pc = "done"]
<1>1. h \in Frames /\ ReplyOK(h)
  BY DEF RecommendInvariant, TypeOK
<1>2. /\ f \in Frames /\ f.pc = "done"
      /\ f.cap = h.cap /\ f.limit = h.limit /\ f.excluded = h.excluded /\ f.ids = h.ids
  BY <1>1 DEF Frames, PCs
<1>3. ReplyOK(f)
  BY <1>1, <1>2 DEF ReplyOK
<1>4. handler' = [handler EXCEPT ![r] = f]
  BY DEF ReplySent
<1> HIDE DEF f
<1>5. QED
  BY <1>2, <1>3, <1>4, HandlerStep DEF ReplySent

\* A profile is stored: it may disturb other handlers, and the frame goes on
\* with the new registry.
LEMMA ProfileArrivesStep ==
    ASSUME RecommendInvariant, NEW r \in Requests, ProfileArrives(r)
    PROVE  RecommendInvariant'
<1> DEFINE f == handler[r]
           n == f.target
<1>1. /\ f \in Frames /\ ReplyOK(f) /\ f.pc = "fetch" /\ n \in Nodes \ {Self}
      /\ f.got \subseteq past[n]
  BY DEF RecommendInvariant, TypeOK, ServedSound, ProfileArrives, Frames
<1>2. PICK o \in f.got :
          /\ held' = [held EXCEPT ![n] = o]
          /\ registry' = Upsert(registry, n)
          /\ current' = [s \in Requests |->
                 LET kept == {m \in current[s] : ~(m = n /\ Disturbed(n, handler[s].cap, held'))}
                 IN  IF s = r /\ ~Disturbed(n, f.cap, held') THEN kept \cup {n} ELSE kept]
  BY DEF ProfileArrives
<1>3. Continues(r, f, registry', held') /\ UNCHANGED world
  BY DEF ProfileArrives
<1>4. o \in Offers /\ o \in past[n]
  BY <1>1, <1>2 DEF Frames
<1>5. held' \in [Nodes -> Offers] /\ \A m \in Nodes : held'[m] \in past[m]
  BY <1>1, <1>2, <1>4 DEF RecommendInvariant, TypeOK, ServedSound
<1>6. registry' \in Registries /\ Consistent(registry')
  BY <1>1, <1>2, UpsertConsistent DEF RecommendInvariant, TypeOK
<1>7. PICK g \in Frames :
          /\ handler' = [handler EXCEPT ![r] = g]
          /\ g.cap = f.cap /\ g.limit = f.limit /\ g.excluded = f.excluded
          /\ g.got = {}
          /\ \/ g.pc = "fetch" /\ g.target # NoNode /\ g.ids = f.ids
             \/ g.pc = "send" /\ g.ids \in Selections(registry', held', f)
  BY <1>1, <1>3, GoesOn
<1>8. \A s \in Requests : handler'[s] = IF s = r THEN g ELSE handler[s]
  BY <1>7 DEF RecommendInvariant, TypeOK
<1>9. ReplyOK(g)
  <2>1. CASE g.ids = f.ids
    BY <1>1, <1>7, <2>1 DEF ReplyOK
  <2>2. CASE g.ids \in Selections(registry', held', f)
    <3>1. Cardinality(g.ids) <= f.limit
      BY <1>1, <2>2, SelectionBounds
    <3>2. g.ids \subseteq Listed(f.cap) \ (f.excluded \cup {Self})
      BY <1>1, <1>5, <2>2, SelectionListed
    <3>3. QED
      BY <1>7, <3>1, <3>2 DEF ReplyOK
  <2>3. QED
    BY <1>7, <2>1, <2>2
<1>10. \A s \in Requests : \A m \in current'[s] :
          /\ m = n => ~Disturbed(n, handler[s].cap, held')
          /\ m # n => m \in current[s]
  BY <1>2
<1>11. \A m \in Nodes \ {n} : /\ registry'.profile[m] = registry.profile[m]
                              /\ held'[m] = held[m]
  BY <1>1, <1>2 DEF Upsert, RecommendInvariant, TypeOK, Registries
<1>12. registry'.profile[n] = "available"
  BY <1>1, <1>2 DEF Upsert, RecommendInvariant, TypeOK, Registries
<1>13. current' \in [Requests -> SUBSET Nodes]
  BY <1>1, <1>2 DEF RecommendInvariant, TypeOK
<1>14. TypeOK'
  BY <1>3, <1>5, <1>6, <1>7, <1>13 DEF RecommendInvariant, TypeOK, world
<1>15. ServedSound'
  BY <1>3, <1>5, <1>7, <1>8 DEF RecommendInvariant, ServedSound, world
<1>16. CurrentSound'
  <2> SUFFICES ASSUME NEW s \in Requests
               PROVE  /\ handler'[s].pc = "idle" => current'[s] = {} /\ handler'[s].ids = {}
                      /\ \A m \in current'[s] :
                            /\ m # Self
                            /\ registry'.profile[m] = "available"
                            /\ handler'[s].cap \in Advertises[held'[m]]
    BY DEF CurrentSound
  <2>1. handler'[s].pc = "idle" => current'[s] = {} /\ handler'[s].ids = {}
    <3>1. handler'[s].pc = "idle" => s # r /\ handler'[s] = handler[s]
      BY <1>7, <1>8
    <3>2. s # r /\ current[s] = {} => current'[s] = {}
      BY <1>2
    <3>3. QED
      BY <3>1, <3>2 DEF RecommendInvariant, CurrentSound
  <2>2. handler'[s].cap = handler[s].cap
    BY <1>7, <1>8
  <2>3. ASSUME NEW m \in current'[s]
        PROVE  /\ m # Self
               /\ registry'.profile[m] = "available"
               /\ handler[s].cap \in Advertises[held'[m]]
    <3>1. CASE m = n
      BY <1>1, <1>10, <1>12, <3>1 DEF Disturbed
    <3>2. CASE m # n
      <4>1. m \in current[s] /\ m \in Nodes \ {n}
        BY <1>10, <1>13, <3>2
      <4>2. QED
        BY <1>11, <4>1 DEF RecommendInvariant, CurrentSound
    <3>3. QED
      BY <3>1, <3>2
  <2>4. QED
    BY <2>1, <2>2, <2>3
<1>17. ASSUME NEW s \in Requests PROVE ReplyOK(handler[s])'
  BY <1>3, <1>8, <1>9 DEF RecommendInvariant, ReplyOK, Listed, world
<1>18. QED
  BY <1>6, <1>14, <1>15, <1>16, <1>17 DEF RecommendInvariant

LEMMA PingSucceedsStep ==
    ASSUME RecommendInvariant, NEW n \in Nodes, PingSucceeds(n)
    PROVE  RecommendInvariant'
<1>1. registry' = MarkAlive(registry, n, 1) /\ n \in Nodes \ {Self}
      /\ UNCHANGED <<held, world, handler, current>>
  BY DEF PingSucceeds
<1>2. registry' \in Registries /\ Consistent(registry')
  BY <1>1, MarkAliveConsistent DEF RecommendInvariant, TypeOK
<1>3. \A m \in Nodes : registry.profile[m] = "available" => registry'.profile[m] = "available"
  BY <1>1 DEF MarkAlive, SetAvailable, RecommendInvariant, TypeOK, Registries
<1>4. CurrentSound'
  BY <1>1, <1>3 DEF RecommendInvariant, TypeOK, CurrentSound
<1>5. TypeOK' /\ ServedSound'
  BY <1>1, <1>2 DEF RecommendInvariant, TypeOK, ServedSound, world
<1>6. ASSUME NEW s \in Requests PROVE ReplyOK(handler[s])'
  BY <1>1 DEF RecommendInvariant, ReplyOK, Listed, world
<1>7. QED
  BY <1>2, <1>4, <1>5, <1>6 DEF RecommendInvariant

LEMMA PingFailsStep ==
    ASSUME RecommendInvariant, NEW n \in Nodes, PingFails(n)
    PROVE  RecommendInvariant'
<1>1. registry' = MarkUnreachable(registry, n) /\ n \in Nodes \ {Self}
      /\ current' = [r \in Requests |-> current[r] \ {n}]
      /\ UNCHANGED <<held, world, handler>>
  BY DEF PingFails
<1>2. registry' \in Registries /\ Consistent(registry')
  BY <1>1, MarkUnreachableConsistent DEF RecommendInvariant, TypeOK
<1>3. \A m \in Nodes \ {n} : registry'.profile[m] = registry.profile[m]
  BY <1>1 DEF MarkUnreachable, RecommendInvariant, TypeOK, Registries
<1>4. CurrentSound'
  BY <1>1, <1>3 DEF RecommendInvariant, TypeOK, CurrentSound
<1>5. TypeOK' /\ ServedSound'
  BY <1>1, <1>2 DEF RecommendInvariant, TypeOK, ServedSound, world
<1>6. ASSUME NEW s \in Requests PROVE ReplyOK(handler[s])'
  BY <1>1 DEF RecommendInvariant, ReplyOK, Listed, world
<1>7. QED
  BY <1>2, <1>4, <1>5, <1>6 DEF RecommendInvariant

LEMMA ComesBackStep ==
    ASSUME RecommendInvariant, NEW n \in Nodes, ComesBack(n)
    PROVE  RecommendInvariant'
<1>1. PICK o \in Possible[n] :
          /\ offer' = [offer EXCEPT ![n] = o]
          /\ past' = [past EXCEPT ![n] = @ \cup {o}]
  BY DEF ComesBack
<1>2. UNCHANGED <<registry, held, handler, current>> /\ o \in Offers
  BY OffersAssumption DEF ComesBack
<1>3. \A m \in Nodes : past[m] \subseteq past'[m] /\ offer'[m] \in past'[m]
  BY <1>1 DEF RecommendInvariant, TypeOK, ServedSound
<1>4. TypeOK' /\ Consistent(registry') /\ CurrentSound'
  BY <1>1, <1>2 DEF RecommendInvariant, TypeOK, CurrentSound
<1>5. ServedSound'
  <2>1. \A r \in Requests : handler[r].pc = "fetch" /\ handler[r].target # NoNode =>
            handler[r].target \in Nodes
    BY DEF RecommendInvariant, TypeOK, Frames
  <2>2. QED
    BY <1>2, <1>3, <2>1 DEF RecommendInvariant, ServedSound
<1>6. ASSUME NEW s \in Requests PROVE ReplyOK(handler[s])'
  BY <1>2, <1>3 DEF RecommendInvariant, ReplyOK, Listed
<1>7. QED
  BY <1>4, <1>5, <1>6 DEF RecommendInvariant

LEMMA NextRecommend == RecommendInvariant /\ [Next]_vars => RecommendInvariant'
<1> SUFFICES ASSUME RecommendInvariant, [Next]_vars PROVE RecommendInvariant'
  OBVIOUS
<1>1. ASSUME NEW r \in Requests, Asked(r) \/ Serves(r) \/ ProfileServed(r) \/ Fails(r)
      PROVE  RecommendInvariant'
  BY <1>1, AskedStep, LookupReturnsStep, ProfileArrivesStep, ProfileMissingStep, ReplySentStep,
     ProfileServedStep, FailsStep DEF Serves
<1>2. ASSUME NEW n \in Nodes, PingSucceeds(n) \/ PingFails(n) \/ ComesBack(n)
      PROVE  RecommendInvariant'
  BY <1>2, PingSucceedsStep, PingFailsStep, ComesBackStep
<1>3. CASE UNCHANGED vars
  BY <1>3 DEF vars, world, RecommendInvariant, TypeOK, ServedSound, CurrentSound, ReplyOK, Listed
<1>4. QED
  BY <1>1, <1>2, <1>3 DEF Next

LEMMA RecommendInvariantHolds == Spec => []RecommendInvariant
BY InitRecommend, NextRecommend, PTL DEF Spec

\* A reply names no more peers than were asked for, none that was excluded,
\* not the node itself, and only peers that advertised the capability at some
\* time, however many requests are served at once.
THEOREM RepliesAreSound == Spec => []RepliesSound
<1>1. RecommendInvariant => RepliesSound
  BY DEF RecommendInvariant, RepliesSound, ReplyKeepsContract, ReplyOK
<1>2. QED
  BY <1>1, RecommendInvariantHolds, PTL

-----------------------------------------------------------------------------
(* Whom a reply leaves out.                                                 *)

\* The reply is selected from the registry as it is after the step.
LEMMA RepliesBySelection ==
    ASSUME RecommendInvariant, [Next]_vars, NEW r \in Requests,
           handler[r].pc # "send", handler'[r].pc = "send"
    PROVE  \E f \in Frames :
              /\ handler'[r].ids \in Selections(registry', held', f)
              /\ handler'[r].cap = f.cap /\ handler'[r].limit = f.limit
              /\ handler'[r].excluded = f.excluded
<1>1. ASSUME NEW f \in Frames, Continues(r, f, registry', held')
      PROVE  /\ handler'[r].ids \in Selections(registry', held', f)
             /\ handler'[r].cap = f.cap /\ handler'[r].limit = f.limit
             /\ handler'[r].excluded = f.excluded
  <2>1. PICK g \in Frames :
            /\ handler' = [handler EXCEPT ![r] = g]
            /\ g.cap = f.cap /\ g.limit = f.limit /\ g.excluded = f.excluded
            /\ g.got = {}
            /\ \/ g.pc = "fetch" /\ g.target # NoNode /\ g.ids = f.ids
               \/ g.pc = "send" /\ g.ids \in Selections(registry', held', f)
    BY <1>1, GoesOn
  <2>2. handler'[r] = g
    BY <2>1 DEF RecommendInvariant, TypeOK
  <2>3. QED
    BY <2>1, <2>2
<1>2. handler[r] \in Frames
  BY DEF RecommendInvariant, TypeOK
<1>3. CASE LookupReturns(r)
  <2>1. PICK found \in SUBSET Listed(handler[r].cap) :
            Continues(r, [handler[r] EXCEPT !.todo = found \ {Self}], registry, held)
    BY <1>3 DEF LookupReturns
  <2> DEFINE f == [handler[r] EXCEPT !.todo = found \ {Self}]
  <2>2. f \in Frames
    BY <1>2 DEF Frames, Listed
  <2>3. Continues(r, f, registry', held')
    BY <1>3, <2>1 DEF LookupReturns
  <2> HIDE DEF f
  <2>4. QED
    BY <1>1, <2>2, <2>3
<1>4. CASE ProfileArrives(r)
  BY <1>1, <1>2, <1>4 DEF ProfileArrives
<1>5. CASE ProfileMissing(r)
  BY <1>1, <1>2, <1>5 DEF ProfileMissing
<1>6. LookupReturns(r) \/ ProfileArrives(r) \/ ProfileMissing(r)
  <2>1. ASSUME NEW s \in Requests, NEW g, handler' = [handler EXCEPT ![s] = g], s # r
        PROVE  FALSE
    BY <2>1 DEF RecommendInvariant, TypeOK
  <2>2. ASSUME NEW s \in Requests, Serves(s) PROVE s = r
    <3>1. ASSUME NEW f \in Frames, NEW reg, NEW copies, Continues(s, f, reg, copies) PROVE s = r
      BY <2>1, <3>1, GoesOn
    <3>2. handler[s] \in Frames
      BY DEF RecommendInvariant, TypeOK
    <3>3. ASSUME NEW found \in SUBSET Listed(handler[s].cap)
          PROVE  [handler[s] EXCEPT !.todo = found \ {Self}] \in Frames
      BY <3>2, <3>3 DEF Frames, Listed
    <3>4. QED
      BY <2>1, <2>2, <3>1, <3>2, <3>3
         DEF Serves, LookupReturns, ProfileArrives, ProfileMissing, ReplySent
  <2>3. ~ReplySent(r)
    BY DEF ReplySent
  <2>4. ASSUME NEW s \in Requests, Asked(s) \/ ProfileServed(s) \/ Fails(s) PROVE FALSE
    <3>1. s = r
      BY <2>1, <2>4 DEF Asked, ProfileServed, Fails
    <3>2. CASE Asked(r)
      BY <1>2, <3>2 DEF Asked, RecommendInvariant, TypeOK, Frames
    <3>3. CASE ProfileServed(r)
      BY <1>2, <3>3 DEF ProfileServed, RecommendInvariant, TypeOK, Frames
    <3>4. CASE Fails(r)
      BY <1>2, <3>4 DEF Fails, RecommendInvariant, TypeOK, Frames
    <3>5. QED
      BY <2>4, <3>1, <3>2, <3>3, <3>4
  <2>5. ASSUME UNCHANGED handler PROVE FALSE
    BY <2>5
  <2>6. ASSUME NEW n \in Nodes, PingSucceeds(n) \/ PingFails(n) \/ ComesBack(n) PROVE FALSE
    BY <2>5, <2>6 DEF PingSucceeds, PingFails, ComesBack
  <2>7. QED
    BY <2>2, <2>3, <2>4, <2>5, <2>6 DEF Next, Serves, vars
<1>7. QED
  BY <1>3, <1>4, <1>5, <1>6

\* A provider that served a handler and was left alone since is left out of
\* the reply only for peers that score as well, as many as were asked for.
LEMMA RecommendStep ==
    ASSUME RecommendInvariant, CurrentSound', [Next]_vars, NEW r \in Requests,
           handler[r].pc # "send", handler'[r].pc = "send",
           current' \in [Requests -> SUBSET Nodes],
           NEW n \in current'[r] \ (handler'[r].excluded \cup handler'[r].ids)
    PROVE  /\ Cardinality(handler'[r].ids) = handler'[r].limit
           /\ \A m \in handler'[r].ids :
                 Quality[held'[m]][handler'[r].cap] >= Quality[held'[n]][handler'[r].cap]
<1> DEFINE ids == handler'[r].ids
<1>1. PICK f \in Frames :
          /\ ids \in Selections(registry', held', f)
          /\ handler'[r].cap = f.cap /\ handler'[r].limit = f.limit
          /\ handler'[r].excluded = f.excluded
  BY RepliesBySelection
<1> DEFINE pool == Candidates(registry', held', f)
<1>2. n \in pool
  BY <1>1 DEF CurrentSound, Candidates
<1>3. Cardinality(ids) = f.limit
  BY <1>1, <1>2, SelectionBounds
<1>4. \A m \in ids : Quality[held'[m]][f.cap] >= Quality[held'[n]][f.cap]
  BY <1>1, <1>2 DEF Selections
<1>5. QED
  BY <1>1, <1>3, <1>4

\* A provider that served its profile to a handler is recommended, although
\* other tasks wrote the registry meanwhile, unless it was excluded, has been
\* found unreachable since, or enough others score at least as well.
THEOREM ServedAreRecommended == Spec => ServedIsRecommended
<1>1. RecommendInvariant /\ RecommendInvariant' /\ [Next]_vars =>
          [\A r \in Requests :
              LET f == handler'[r]
                  score(n) == Quality[held'[n]][f.cap]
              IN  handler[r].pc # "send" /\ f.pc = "send" =>
                      \A n \in current'[r] \ (f.excluded \cup f.ids) :
                          Cardinality(f.ids) = f.limit /\ \A m \in f.ids : score(m) >= score(n)]_vars
  BY RecommendStep DEF RecommendInvariant, TypeOK
<1>2. QED
  BY <1>1, RecommendInvariantHolds, PTL DEF Spec, ServedIsRecommended
=============================================================================
