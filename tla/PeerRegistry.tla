---------------------------- MODULE PeerRegistry ----------------------------
(***************************************************************************)
(* The in-memory registry a node keeps of the peers it has heard of        *)
(* (src/peer_registry.py): the last profile it was served by each peer, and *)
(* what the last contact with it showed.  Every trio task of the node       *)
(* shares one registry, so the operations are written as functions of a     *)
(* registry value, and the modules that own a registry variable apply them  *)
(* in the step that performs the call.                                      *)
(*                                                                          *)
(* A profile's data never changes here except its is_available flag; the    *)
(* age of a status is what is_peer_fresh_live distinguishes, within the     *)
(* time to live or beyond it.  The count of consecutive failures stops at   *)
(* FailureCap: the routing score takes min(failures / 3, 1), so no reader   *)
(* tells three failures from more.                                          *)
(***************************************************************************)
EXTENDS Integers

CONSTANTS
    Nodes,       \* the peer ids of the network
    Self,        \* the node that owns the registry
    FailureCap   \* where the count of consecutive failures saturates

ASSUME SelfAssumption == Self \in Nodes
ASSUME FailureCapAssumption == FailureCap \in Nat \ {0}

\* last_rtt_ms is None
NoRtt == -1

\* What the registry holds of the profile of a peer.
Profiles == {"absent", "available", "unavailable"}

\* How old last_checked_ts_ms is: None, within the time to live, or older.
Ages == {"never", "fresh", "stale"}

Statuses ==
    [known : BOOLEAN, alive : BOOLEAN, rtt : {NoRtt} \cup Nat,
     checked : Ages, failures : 0 .. FailureCap]

Registries == [profile : [Nodes -> Profiles], status : [Nodes -> Statuses]]

\* PeerStatus(peer_id): a status nobody has written to yet.
FreshStatus ==
    [known |-> TRUE, alive |-> FALSE, rtt |-> NoRtt, checked |-> "never",
     failures |-> 0]

\* The peer has no entry in _statuses.
NoStatus ==
    [known |-> FALSE, alive |-> FALSE, rtt |-> NoRtt, checked |-> "never",
     failures |-> 0]

EmptyRegistry ==
    [profile |-> [n \in Nodes |-> "absent"], status |-> [n \in Nodes |-> NoStatus]]

\* _statuses.setdefault(peer_id, PeerStatus(peer_id))
SetDefault(status) == IF status.known THEN status ELSE FreshStatus

\* profile.is_available = flag, when there is a profile.
SetAvailable(profile, flag) ==
    IF profile = "absent" THEN profile
    ELSE IF flag THEN "available" ELSE "unavailable"

\* upsert_profile: the served profile replaces the one that was held, the
\* status survives.  A node always serves its profile with is_available set.
Upsert(reg, n) ==
    [profile |-> [reg.profile EXCEPT ![n] = "available"],
     status  |-> [reg.status  EXCEPT ![n] = SetDefault(@)]]

\* mark_peer_alive
MarkAlive(reg, n, rtt) ==
    [profile |-> [reg.profile EXCEPT ![n] = SetAvailable(@, TRUE)],
     status  |-> [reg.status  EXCEPT ![n] =
        [known |-> TRUE, alive |-> TRUE, rtt |-> rtt, checked |-> "fresh",
         failures |-> 0]]]

\* MUTANT of MarkUnreachable: the peer is still held as alive.
MarkUnreachableKeepsAlive(reg, n) ==
    [profile |-> [reg.profile EXCEPT ![n] = SetAvailable(@, FALSE)],
     status  |-> [reg.status  EXCEPT ![n] =
        [known |-> TRUE, alive |-> @.alive, rtt |-> @.rtt, checked |-> "fresh",
         failures |-> IF @.failures < FailureCap THEN @.failures + 1 ELSE FailureCap]]]

\* mark_peer_unreachable: the measured round trip is kept.
MarkUnreachable(reg, n) ==
    [profile |-> [reg.profile EXCEPT ![n] = SetAvailable(@, FALSE)],
     status  |-> [reg.status  EXCEPT ![n] =
        [known |-> TRUE, alive |-> FALSE, rtt |-> @.rtt, checked |-> "fresh",
         failures |-> IF @.failures < FailureCap THEN @.failures + 1 ELSE FailureCap]]]

\* The time to live of a status runs out: what time alone does to a registry.
Expire(reg, n) ==
    [profile |-> reg.profile,
     status  |-> [reg.status  EXCEPT ![n].checked = IF @ = "fresh" THEN "stale" ELSE @]]

\* is_peer_fresh_live
IsPeerFreshLive(reg, n) ==
    /\ reg.status[n].known
    /\ reg.status[n].alive
    /\ reg.status[n].checked = "fresh"

-----------------------------------------------------------------------------
\* The flag of a profile and the status of its peer are two writes of one
\* call, and a profile can be replaced between two calls.  What stays true:
\* a live peer is not flagged unavailable, has no failure on record and has
\* been contacted; a flag that is down has a failed contact behind it; a
\* profile never lacks a status; the node does not list itself.
EntryConsistent(profile, status) ==
    /\ status.alive =>
        status.known /\ status.failures = 0 /\ status.checked # "never" /\ profile # "unavailable"
    /\ profile = "unavailable" => ~status.alive /\ status.failures > 0
    /\ profile # "absent" => status.known

Consistent(reg) ==
    /\ \A n \in Nodes : EntryConsistent(reg.profile[n], reg.status[n])
    /\ reg.profile[Self] = "absent" /\ ~reg.status[Self].known
=============================================================================
