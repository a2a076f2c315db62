------------------------- MODULE PeerRegistryProofs -------------------------
(***************************************************************************)
(* Every operation of the registry, applied to any peer but the node        *)
(* itself, keeps its type and its consistency.                              *)
(***************************************************************************)
EXTENDS PeerRegistry, TLAPS

\* The state a node starts with.
LEMMA EmptyRegistryConsistent ==
    EmptyRegistry \in Registries /\ Consistent(EmptyRegistry)
<1>1. /\ NoStatus \in Statuses
      /\ ~NoStatus.known
      /\ EntryConsistent("absent", NoStatus)
  BY FailureCapAssumption DEF NoStatus, Statuses, Ages, NoRtt, EntryConsistent
<1>2. EmptyRegistry \in Registries
  BY <1>1 DEF EmptyRegistry, Registries, Profiles
<1>3. Consistent(EmptyRegistry)
  BY <1>1, SelfAssumption DEF EmptyRegistry, Consistent
<1>4. QED
  BY <1>2, <1>3

\* Writing a consistent entry for one peer.
LEMMA EntryWritten ==
    ASSUME NEW reg \in Registries, Consistent(reg), NEW n \in Nodes \ {Self},
           NEW p \in Profiles, NEW s \in Statuses, EntryConsistent(p, s),
           NEW new, new = [profile |-> [reg.profile EXCEPT ![n] = p],
                           status  |-> [reg.status  EXCEPT ![n] = s]]
    PROVE  new \in Registries /\ Consistent(new)
<1>1. new \in Registries
  BY DEF Registries
<1>2. /\ new.profile[n] = p /\ new.status[n] = s
      /\ \A m \in Nodes \ {n} : new.profile[m] = reg.profile[m] /\ new.status[m] = reg.status[m]
  BY DEF Registries
<1>3. Consistent(new)
  BY <1>2, SelfAssumption DEF Consistent
<1>4. QED
  BY <1>1, <1>3

LEMMA EntryRead ==
    ASSUME NEW reg \in Registries, Consistent(reg), NEW n \in Nodes
    PROVE  /\ reg.profile[n] \in Profiles
           /\ reg.status[n] \in Statuses
           /\ EntryConsistent(reg.profile[n], reg.status[n])
BY DEF Registries, Consistent

\* upsert_profile, from any of the four places that call it.
LEMMA UpsertConsistent ==
    ASSUME NEW reg \in Registries, Consistent(reg), NEW n \in Nodes \ {Self}
    PROVE  Upsert(reg, n) \in Registries /\ Consistent(Upsert(reg, n))
<1> DEFINE s == SetDefault(reg.status[n])
<1>1. s \in Statuses /\ EntryConsistent("available", s)
  BY EntryRead, FailureCapAssumption
     DEF SetDefault, FreshStatus, Statuses, Ages, NoRtt, EntryConsistent
<1>2. "available" \in Profiles
  BY DEF Profiles
<1>3. Upsert(reg, n) = [profile |-> [reg.profile EXCEPT ![n] = "available"],
                        status  |-> [reg.status  EXCEPT ![n] = s]]
  BY DEF Upsert
<1> HIDE DEF s
<1>4. QED
  BY <1>1, <1>2, <1>3, EntryWritten

\* mark_peer_alive, after a ping or an answered forward.
LEMMA MarkAliveConsistent ==
    ASSUME NEW reg \in Registries, Consistent(reg), NEW n \in Nodes \ {Self},
           NEW rtt \in {NoRtt} \cup Nat
    PROVE  MarkAlive(reg, n, rtt) \in Registries /\ Consistent(MarkAlive(reg, n, rtt))
<1> DEFINE s == [known |-> TRUE, alive |-> TRUE, rtt |-> rtt, checked |-> "fresh",
                 failures |-> 0]
           p == SetAvailable(reg.profile[n], TRUE)
<1>1. s \in Statuses
  BY FailureCapAssumption DEF Statuses, Ages
<1>2. p \in Profiles /\ p # "unavailable"
  BY EntryRead DEF SetAvailable, Profiles
<1>3. EntryConsistent(p, s)
  BY <1>2 DEF EntryConsistent
<1>4. MarkAlive(reg, n, rtt) = [profile |-> [reg.profile EXCEPT ![n] = p],
                                status  |-> [reg.status  EXCEPT ![n] = s]]
  BY DEF MarkAlive
<1> HIDE DEF s, p
<1>5. QED
  BY <1>1, <1>2, <1>3, <1>4, EntryWritten

\* mark_peer_unreachable, after a failed ping or a failed forward.
LEMMA MarkUnreachableConsistent ==
    ASSUME NEW reg \in Registries, Consistent(reg), NEW n \in Nodes \ {Self}
    PROVE  MarkUnreachable(reg, n) \in Registries /\ Consistent(MarkUnreachable(reg, n))
<1> DEFINE old == reg.status[n]
           f == IF old.failures < FailureCap THEN old.failures + 1 ELSE FailureCap
           s == [known |-> TRUE, alive |-> FALSE, rtt |-> old.rtt, checked |-> "fresh",
                 failures |-> f]
           p == SetAvailable(reg.profile[n], FALSE)
<1>1. old.failures \in 0 .. FailureCap /\ old.rtt \in {NoRtt} \cup Nat
  BY EntryRead DEF Statuses
<1>2. f \in 0 .. FailureCap /\ f > 0
  BY <1>1, FailureCapAssumption
<1> HIDE DEF f
<1>3. s \in Statuses
  BY <1>1, <1>2 DEF Statuses, Ages
<1>4. p \in Profiles
  BY EntryRead DEF SetAvailable, Profiles
<1>5. EntryConsistent(p, s)
  BY <1>2 DEF EntryConsistent
<1>6. MarkUnreachable(reg, n) = [profile |-> [reg.profile EXCEPT ![n] = p],
                                 status  |-> [reg.status  EXCEPT ![n] = s]]
  BY DEF MarkUnreachable, f
<1> HIDE DEF s, p
<1>7. QED
  BY <1>3, <1>4, <1>5, <1>6, EntryWritten

\* The passage of time.
LEMMA ExpireConsistent ==
    ASSUME NEW reg \in Registries, Consistent(reg), NEW n \in Nodes
    PROVE  Expire(reg, n) \in Registries /\ Consistent(Expire(reg, n))
<1> DEFINE old == reg.status[n]
           s == [old EXCEPT !.checked = IF @ = "fresh" THEN "stale" ELSE @]
<1>1. /\ old \in Statuses
      /\ EntryConsistent(reg.profile[n], old)
  BY EntryRead
<1>2. s \in Statuses
  BY <1>1 DEF Statuses, Ages
<1>3. EntryConsistent(reg.profile[n], s)
  BY <1>1 DEF EntryConsistent, Statuses
<1>4. s.known = old.known
  BY <1>1 DEF Statuses
<1>5. Expire(reg, n) = [profile |-> reg.profile, status |-> [reg.status EXCEPT ![n] = s]]
  BY DEF Expire
<1> HIDE DEF s
<1>6. Expire(reg, n) \in Registries
  BY <1>2, <1>5 DEF Registries
<1>7. Consistent(Expire(reg, n))
  BY <1>3, <1>4, <1>5 DEF Consistent, Registries
<1>8. QED
  BY <1>6, <1>7
=============================================================================
