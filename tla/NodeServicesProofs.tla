------------------------- MODULE NodeServicesProofs -------------------------
(***************************************************************************)
(* What holds of the services around a node's queries, for any number of    *)
(* requests and calls: whose events an answer of the HTTP API carries, and  *)
(* what a call over a stream that succeeds has done.                        *)
(***************************************************************************)
EXTENDS NodeApi, StreamRpc, SequenceTheorems, TLAPS

-----------------------------------------------------------------------------
(* The HTTP API: the events that are kept.                                  *)

AllEvents == [of : Requests, n : Nat]

LEMMA LastEventsRead ==
    ASSUME NEW r \in Requests, NEW n \in Nat
    PROVE  /\ Dropped(n) \in 0 .. n /\ n - Dropped(n) \in 0 .. KeptEvents
           /\ LastEvents(r, n) \in Seq(AllEvents)
           /\ n <= MaxEvents => LastEvents(r, n) \in Seq(Events)
           /\ Len(LastEvents(r, n)) = n - Dropped(n)
           /\ \A k \in 1 .. n - Dropped(n) : LastEvents(r, n)[k] = Event(r, Dropped(n) + k)
           /\ n = 0 => LastEvents(r, n) = <<>>
<1> DEFINE d == Dropped(n)
           l == LastEvents(r, n)
<1>1. d \in 0 .. n /\ n - d \in 0 .. KeptEvents /\ KeptEvents \in Nat
  BY ApiAssumption DEF Dropped
<1>2. l = [k \in 1 .. n - d |-> Event(r, d + k)]
  BY DEF LastEvents
<1>3. \A k \in 1 .. n - d : Event(r, d + k) \in AllEvents
  BY <1>1 DEF Event, AllEvents
<1>4. n <= MaxEvents => \A k \in 1 .. n - d : Event(r, d + k) \in Events
  BY <1>1, ApiAssumption DEF Event, Events
<1> HIDE DEF d, l
<1>5. n - d \in Nat
  BY <1>1
<1>6. l \in Seq(AllEvents) /\ (n <= MaxEvents => l \in Seq(Events)) /\ Len(l) = n - d
  BY <1>2, <1>3, <1>4, <1>5
<1>7. \A k \in 1 .. n - d : l[k] = Event(r, d + k)
  BY <1>2
<1>8. n = 0 => l = <<>>
  BY <1>1, <1>6, EmptySeq
<1>9. QED
  BY <1>1, <1>6, <1>7, <1>8 DEF d, l

\* An event is added to the last ones, and the oldest goes if there are enough.
LEMMA EventRecorded ==
    ASSUME NEW r \in Requests, NEW n \in Nat, NEW j, j = n + 1
    PROVE  Recorded(LastEvents(r, n), Event(r, j)) = LastEvents(r, j)
<1> DEFINE l == LastEvents(r, n)
           e == Event(r, j)
           m == LastEvents(r, j)
           all == Append(l, e)
           d == Dropped(n)
           f == Dropped(j)
<1>1. /\ d \in 0 .. n /\ n - d \in 0 .. KeptEvents
      /\ l \in Seq(AllEvents) /\ Len(l) = n - d
      /\ \A k \in 1 .. n - d : l[k] = Event(r, d + k)
  BY LastEventsRead
<1>2. j \in Nat
  OBVIOUS
<1>3. /\ f \in 0 .. j /\ m \in Seq(AllEvents) /\ Len(m) = j - f
      /\ \A k \in 1 .. j - f : m[k] = Event(r, f + k)
  BY <1>2, LastEventsRead
<1>4. KeptEvents \in Nat \ {0} /\ e \in AllEvents
  BY ApiAssumption DEF AllEvents, Event
<1>5. f = IF n - d = KeptEvents THEN d + 1 ELSE d
  BY <1>4 DEF Dropped
<1> HIDE DEF l, m, e, d, f
<1>6. /\ all \in Seq(AllEvents) /\ Len(all) = n - d + 1 /\ all # <<>>
      /\ all[n - d + 1] = e /\ \A k \in 1 .. n - d : all[k] = l[k]
  <2>1. /\ Len(l) \in Nat /\ all \in Seq(AllEvents) /\ all # <<>> /\ Len(all) = Len(l) + 1
        /\ \A k \in 1 .. Len(l) : all[k] = l[k]
        /\ all[Len(l) + 1] = e
    BY <1>1, <1>4, AppendProperties
  <2>2. QED
    BY <1>1, <2>1
<1>7. ASSUME NEW k \in 1 .. n - d + 1 PROVE all[k] = Event(r, d + k)
  <2>1. CASE k = n - d + 1
    <3>1. d + k = n + 1
      BY <1>1, <2>1
    <3>2. QED
      BY <1>6, <2>1, <3>1 DEF e
  <2>2. CASE k # n - d + 1
    BY <1>1, <1>6, <2>2
  <2>3. QED
    BY <2>1, <2>2
<1>8. Recorded(l, e) = IF Len(all) > KeptEvents THEN Tail(all) ELSE all
  BY DEF Recorded
<1> HIDE DEF all
<1>9. CASE n - d = KeptEvents
  <2>1. Recorded(l, e) = Tail(all) /\ f = d + 1
    BY <1>4, <1>5, <1>6, <1>8, <1>9
  <2>2. /\ Tail(all) \in Seq(AllEvents) /\ Len(Tail(all)) = n - d
        /\ \A k \in 1 .. n - d : Tail(all)[k] = all[k + 1]
    BY <1>1, <1>6, HeadTailProperties
  <2>3. Len(m) = n - d
    BY <1>1, <1>3, <2>1
  <2>4. ASSUME NEW k \in 1 .. n - d PROVE Tail(all)[k] = m[k]
    <3>1. k + 1 \in 1 .. n - d + 1 /\ d + (k + 1) = f + k /\ k \in 1 .. n + 1 - f
      BY <1>1, <2>1
    <3>2. QED
      BY <1>3, <1>7, <2>2, <3>1
  <2>5. Tail(all) = m
    BY <1>3, <2>2, <2>3, <2>4, SeqEqual
  <2>6. QED
    BY <2>1, <2>5 DEF l, m, e
<1>10. CASE n - d # KeptEvents
  <2>1. Recorded(l, e) = all /\ f = d
    BY <1>1, <1>4, <1>5, <1>6, <1>8, <1>10
  <2>2. Len(m) = n - d + 1 /\ \A k \in 1 .. n - d + 1 : m[k] = all[k]
    BY <1>1, <1>3, <1>7, <2>1
  <2>3. all = m
    BY <1>3, <1>6, <2>2, SeqEqual
  <2>4. QED
    BY <2>1, <2>3 DEF l, m, e
<1>11. QED
  BY <1>9, <1>10
\* What an event is added to keeps its type, and no more than are kept.
LEMMA RecordedTyped ==
    ASSUME NEW s \in Seq(Events), Len(s) <= KeptEvents, NEW e \in Events
    PROVE  Recorded(s, e) \in Seq(Events) /\ Len(Recorded(s, e)) <= KeptEvents
<1> DEFINE all == Append(s, e)
<1>1. all \in Seq(Events) /\ all # <<>> /\ Len(all) = Len(s) + 1
  BY AppendProperties
<1>2. Tail(all) \in Seq(Events) /\ Len(Tail(all)) = Len(all) - 1
  BY <1>1, HeadTailProperties
<1>3. Len(s) \in Nat /\ KeptEvents \in Nat
  BY ApiAssumption
<1>4. Recorded(s, e) = IF Len(all) > KeptEvents THEN Tail(all) ELSE all
  BY DEF Recorded
<1> HIDE DEF all
<1>5. QED
  BY <1>1, <1>2, <1>3, <1>4

\* Who reads the last events of a request again later reads the same and more.
LEMMA LaterEventsContinue ==
    ASSUME NEW r \in Requests, NEW m \in Nat, NEW n \in Nat, m <= n
    PROVE  Continues(LastEvents(r, m), LastEvents(r, n))
<1> DEFINE old == LastEvents(r, m)
           new == LastEvents(r, n)
           c == Dropped(m)
           d == Dropped(n)
           drop == IF d <= m THEN d - c ELSE m - c
           rest == SubSeq(old, drop + 1, Len(old))
<1>1. /\ c \in 0 .. m /\ old \in Seq(AllEvents) /\ Len(old) = m - c
      /\ \A k \in 1 .. m - c : old[k] = Event(r, c + k)
  BY LastEventsRead
<1>2. /\ d \in 0 .. n /\ new \in Seq(AllEvents) /\ Len(new) = n - d
      /\ \A k \in 1 .. n - d : new[k] = Event(r, d + k)
  BY LastEventsRead
<1>3. c <= d /\ (d > 0 => n - d = KeptEvents)
  BY ApiAssumption DEF Dropped
<1> HIDE DEF c, d, old, new
<1>4. /\ drop \in 0 .. m - c /\ (drop > 0 => d > 0)
      /\ m - c - drop = IF d <= m THEN m - d ELSE 0
      /\ d <= m => drop + c = d
  BY <1>1, <1>2, <1>3
<1> HIDE DEF drop
<1>5. /\ rest \in Seq(AllEvents) /\ Len(rest) = m - c - drop
      /\ \A k \in 1 .. m - c - drop : rest[k] = old[drop + k]
  <2>1. /\ drop + 1 \in Int /\ Len(old) \in Int /\ Len(old) - (drop + 1) + 1 = m - c - drop
        /\ (IF drop + 1 <= Len(old) THEN Len(old) - (drop + 1) + 1 ELSE 0) = m - c - drop
    BY <1>1, <1>4
  <2>2. \A k \in drop + 1 .. Len(old) : old[k] \in AllEvents
    BY <1>1, <1>4
  <2>3. /\ rest \in Seq(AllEvents) /\ Len(rest) = m - c - drop
        /\ \A k \in 1 .. m - c - drop : rest[k] = old[drop + 1 + k - 1]
    BY <2>1, <2>2, SubSeqProperties
  <2>4. \A k \in 1 .. m - c - drop : drop + 1 + k - 1 = drop + k
    BY <1>1, <1>4
  <2>5. QED
    BY <2>3, <2>4
<1> HIDE DEF rest
<1>6. Len(rest) <= Len(new) /\ Len(rest) \in Nat /\ Len(new) \in Nat
  BY <1>1, <1>2, <1>4, <1>5
<1>7. ASSUME NEW k \in 1 .. Len(rest) PROVE rest[k] = new[k]
  <2>1. d <= m /\ drop + k \in 1 .. m - c /\ c + (drop + k) = d + k /\ k \in 1 .. n - d
    BY <1>1, <1>2, <1>4, <1>5
  <2>2. QED
    BY <1>1, <1>2, <1>5, <2>1
<1>8. IsPrefix(rest, new)
  <2> DEFINE a == SubSeq(rest, 1, Len(rest))
             b == SubSeq(new, 1, Len(rest))
  <2>1. \A k \in 1 .. Len(rest) : rest[k] \in AllEvents /\ new[k] \in AllEvents
    BY <1>2, <1>5, <1>6
  <2>2. /\ a \in Seq(AllEvents) /\ Len(a) = Len(rest)
        /\ \A k \in 1 .. Len(rest) : a[k] = rest[k]
    BY <1>6, <2>1, SubSeqProperties
  <2>3. /\ b \in Seq(AllEvents) /\ Len(b) = Len(rest)
        /\ \A k \in 1 .. Len(rest) : b[k] = new[k]
    BY <1>6, <2>1, SubSeqProperties
  <2> HIDE DEF a, b
  <2>4. a = b
    BY <1>7, <2>2, <2>3, SeqEqual
  <2>5. QED
    BY <1>6, <2>4 DEF IsPrefix, a, b
<1>9. drop \in 0 .. Len(old) /\ (drop > 0 => Len(new) = KeptEvents)
  BY <1>1, <1>2, <1>3, <1>4
<1>10. QED
  BY <1>8, <1>9 DEF Continues, rest, old, new

-----------------------------------------------------------------------------
(* The HTTP API: the record of an id that one request uses at a time.        *)

\* The record of the id of r holds the last events of r.
Keeps(r) == progress[id[r]] = LastEvents(r, emitted[r])

\* Nobody else ever uses the id of r.
Sole(r) == id[r] # NoId /\ \A q \in Requests : id[q] = id[r] => q = r

\* A request has emitted nothing before it arrives; what had ended stays so;
\* and its id's record holds its events, while it runs or for good.
RecordsKept ==
    \A r \in Requests :
        /\ query[r] = "unsent" => emitted[r] = 0
        /\ \A q \in before[r] : query[q] \in Ended
        /\ query[r] \in {"running", "answered"} /\ id[r] # NoId /\ Alone(r) => Keeps(r)
        /\ Sole(r) => Keeps(r)

\* A poller of such an id has seen the events up to some earlier moment.
PollsKept ==
    \A p \in Pollers, r \in Requests :
        seen[p].id = id[r] /\ Sole(r) =>
            \E m \in 0 .. emitted[r] : seen[p].events = LastEvents(r, m)

ApiInvariant == TypeOK /\ AnswerCarriesItsEvents /\ RecordsKept /\ PollsKept

LEMMA ApiStarts == Init => ApiInvariant
<1> SUFFICES ASSUME Init PROVE ApiInvariant
  OBVIOUS
<1> USE DEF Init
<1>1. TypeOK
  <2>1. <<>> \in Seq(Events) /\ Len(<<>>) = 0 /\ KeptEvents \in Nat /\ MaxEvents \in Nat
    BY ApiAssumption
  <2>2. QED
    BY <2>1 DEF TypeOK, Unseen
<1>2. \A r \in Requests : emitted[r] = 0 /\ LastEvents(r, 0) = <<>>
  BY LastEventsRead
<1>3. RecordsKept
  BY <1>2 DEF RecordsKept, Keeps, Sole
<1>4. PollsKept
  BY <1>2 DEF PollsKept, Unseen, Sole
<1>5. AnswerCarriesItsEvents
  BY DEF AnswerCarriesItsEvents
<1>6. QED
  BY <1>1, <1>3, <1>4, <1>5 DEF ApiInvariant

\* What a step leaves of the records if it touches none of them.
LEMMA ApiStutters ==
    ASSUME ApiInvariant, UNCHANGED vars
    PROVE  ApiInvariant'
BY DEF ApiInvariant, TypeOK, AnswerCarriesItsEvents, RecordsKept, PollsKept, Keeps, Sole,
       Alone, vars
\* A request that is alone after a step was alone before it, unless it is
\* the one that arrives.
LEMMA AloneBefore ==
    ASSUME TypeOK, RecordsKept, NEW r \in Requests, Alone(r)', id' = id,
           before'[r] = before[r],
           \A q \in Requests : query'[q] = "unsent" => query[q] = "unsent"
    PROVE  Alone(r)
BY DEF Alone

\* Nobody who runs or arrives shares the id of a request that is alone.
LEMMA AloneMeans ==
    ASSUME TypeOK, RecordsKept, NEW r \in Requests, NEW q \in Requests \ {r},
           Alone(r), id[q] = id[r]
    PROVE  query[q] \in {"unsent"} \cup Ended
BY DEF Alone, RecordsKept

LEMMA ReceiveKeeps ==
    ASSUME ApiInvariant, NEW q \in Requests, Receive(q)
    PROVE  ApiInvariant'
<1> USE DEF ApiInvariant, Receive
<1>1. TypeOK'
  <2>1. <<>> \in Seq(Events) /\ Len(<<>>) = 0 /\ KeptEvents \in Nat
    BY ApiAssumption
  <2>2. progress' \in [Ids -> {e \in Seq(Events) : Len(e) <= KeptEvents}]
    BY <2>1 DEF TypeOK
  <2>3. query' \in [Requests -> {"unsent", "running", "answered", "raised"} \cup Ended]
        /\ before' \in [Requests -> SUBSET Requests]
    BY DEF TypeOK
  <2>4. QED
    BY <2>2, <2>3 DEF TypeOK
<1>2. /\ emitted[q] = 0 /\ LastEvents(q, 0) = <<>> /\ emitted' = emitted /\ id' = id
      /\ query[q] = "unsent" /\ query'[q] = "running"
      /\ \A r \in Requests \ {q} : query'[r] = query[r] /\ before'[r] = before[r]
  BY LastEventsRead DEF RecordsKept, TypeOK
<1>3. id[q] # NoId => Keeps(q)'
  BY <1>1, <1>2 DEF Keeps, TypeOK
<1>4. ASSUME NEW r \in Requests \ {q}, Alone(r)', query[r] # "unsent" PROVE Alone(r) /\ id[q] # id[r]
  <2>1. Alone(r)
    BY <1>2, <1>4, AloneBefore
  <2>2. id[q] = id[r] => query'[q] = "unsent" \/ q \in before[r]
    BY <1>2, <1>4 DEF Alone
  <2>3. q \notin before[r]
    BY <1>2 DEF RecordsKept, Ended
  <2>4. QED
    BY <1>2, <2>1, <2>2, <2>3
<1>5. ASSUME NEW r \in Requests, id[r] # NoId, id[r] # id[q], Keeps(r) PROVE Keeps(r)'
  BY <1>2, <1>5 DEF Keeps, TypeOK
<1>6. RecordsKept'
  <2> SUFFICES ASSUME NEW r \in Requests
               PROVE /\ query'[r] = "unsent" => emitted'[r] = 0
                     /\ \A p \in before'[r] : query'[p] \in Ended
                     /\ query'[r] \in {"running", "answered"} /\ id'[r] # NoId /\ Alone(r)' => Keeps(r)'
                     /\ Sole(r)' => Keeps(r)'
    BY DEF RecordsKept
  <2>1. CASE r = q
    <3>1. \A p \in before'[r] : query[p] \in Ended /\ p \in Requests
      BY <2>1 DEF TypeOK
    <3>2. \A p \in before'[r] : query'[p] \in Ended
      BY <1>2, <3>1 DEF Ended
    <3>3. QED
      BY <1>2, <1>3, <2>1, <3>2 DEF Sole
  <2>2. CASE r # q
    <3>1. \A p \in before'[r] : query'[p] \in Ended
      BY <1>2, <2>2 DEF RecordsKept, Ended, TypeOK
    <3>2. Sole(r)' => Keeps(r)'
      BY <1>2, <1>5, <2>2 DEF RecordsKept, Sole
    <3>3. QED
      BY <1>2, <1>4, <1>5, <2>2, <3>1, <3>2 DEF RecordsKept
  <2>3. QED
    BY <2>1, <2>2
<1>7. PollsKept'
  BY <1>2 DEF PollsKept, Sole
<1>8. AnswerCarriesItsEvents'
  <2> SUFFICES ASSUME NEW r \in Requests, query'[r] = "ok", id'[r] # NoId, Alone(r)'
               PROVE reply'[r] = LastEvents(r, emitted'[r])
    BY DEF AnswerCarriesItsEvents
  <2>1. r # q /\ query[r] = "ok"
    BY <1>2
  <2>2. Alone(r)
    BY <1>4, <2>1
  <2>3. QED
    BY <1>2, <2>1, <2>2 DEF AnswerCarriesItsEvents
<1>9. QED
  BY <1>1, <1>6, <1>7, <1>8

LEMMA EmitKeeps ==
    ASSUME ApiInvariant, NEW q \in Requests, Emit(q)
    PROVE  ApiInvariant'
<1> USE DEF ApiInvariant, Emit
<1> DEFINE n == emitted[q]
           k == n + 1
<1>1. /\ n \in Nat /\ n < MaxEvents /\ MaxEvents \in Nat
      /\ emitted'[q] = k /\ \A r \in Requests \ {q} : emitted'[r] = emitted[r]
      /\ id' = id /\ query' = query /\ before' = before /\ query[q] = "running"
  BY ApiAssumption DEF TypeOK
<1>2. Event(q, k) \in Events /\ k \in 0 .. MaxEvents
  BY <1>1 DEF Event, Events
<1>3. TypeOK'
  <2>1. \A i \in Ids : /\ Recorded(progress[i], Event(q, k)) \in Seq(Events)
                       /\ Len(Recorded(progress[i], Event(q, k))) <= KeptEvents
    BY <1>2, RecordedTyped DEF TypeOK
  <2>2. progress' = [i \in Ids |-> IF i = id[q] THEN Recorded(progress[i], Event(q, k)) ELSE progress[i]]
    BY <1>1
  <2> HIDE DEF k
  <2>3. progress' \in [Ids -> {e \in Seq(Events) : Len(e) <= KeptEvents}]
    BY <2>1, <2>2 DEF TypeOK
  <2>4. emitted' \in [Requests -> 0 .. MaxEvents]
    BY <1>1, <1>2 DEF TypeOK
  <2>5. QED
    BY <2>3, <2>4 DEF TypeOK
<1>4. id[q] # NoId /\ Keeps(q) => Keeps(q)'
  <2> SUFFICES ASSUME id[q] # NoId, Keeps(q) PROVE progress'[id[q]] = LastEvents(q, k)
    BY <1>1 DEF Keeps
  <2>1. id[q] \in Ids
    BY DEF TypeOK
  <2>2. progress'[id[q]] = Recorded(LastEvents(q, n), Event(q, k))
    BY <1>1, <2>1 DEF Keeps
  <2>3. QED
    BY <1>1, <2>2, EventRecorded
<1>5. ASSUME NEW r \in Requests \ {q}, Alone(r), query[r] # "unsent" PROVE id[q] # id[r]
  BY <1>1, <1>5, AloneMeans DEF Ended
<1>6. ASSUME NEW r \in Requests \ {q}, id[r] # NoId, id[r] # id[q], Keeps(r) PROVE Keeps(r)'
  BY <1>1, <1>6 DEF Keeps, TypeOK
<1>7. \A r \in Requests : Alone(r)' <=> Alone(r)
  BY <1>1 DEF Alone
<1>8. RecordsKept'
  <2> SUFFICES ASSUME NEW r \in Requests
               PROVE /\ query[r] = "unsent" => emitted'[r] = 0
                     /\ \A p \in before[r] : query[p] \in Ended
                     /\ query[r] \in {"running", "answered"} /\ id[r] # NoId /\ Alone(r) => Keeps(r)'
                     /\ Sole(r) => Keeps(r)'
    BY <1>1, <1>7 DEF RecordsKept, Sole
  <2>1. CASE r = q
    BY <1>1, <1>4, <2>1 DEF RecordsKept, Sole
  <2>2. CASE r # q
    BY <1>1, <1>5, <1>6, <2>2 DEF RecordsKept, Sole
  <2>3. QED
    BY <2>1, <2>2
<1>9. PollsKept'
  <2> SUFFICES ASSUME NEW p \in Pollers, NEW r \in Requests, seen[p].id = id[r], Sole(r)
               PROVE \E m \in 0 .. emitted'[r] : seen[p].events = LastEvents(r, m)
    BY <1>1 DEF PollsKept, Sole
  <2>1. PICK m \in 0 .. emitted[r] : seen[p].events = LastEvents(r, m)
    BY DEF PollsKept
  <2>2. m \in 0 .. emitted'[r]
    BY <1>1 DEF TypeOK
  <2>3. QED
    BY <2>1, <2>2
<1>10. AnswerCarriesItsEvents'
  BY <1>1, <1>7 DEF AnswerCarriesItsEvents
<1>11. QED
  BY <1>3, <1>8, <1>9, <1>10

\* A step that only moves a handler on leaves what is kept, if no handler
\* starts to run or arrives with it.
LEMMA HandlerMoves ==
    ASSUME ApiInvariant, NEW q \in Requests, NEW s \in {"answered", "raised"} \cup Ended,
           query[q] \in {"running", "answered", "raised"},
           s = "answered" => query[q] = "running",
           query' = [query EXCEPT ![q] = s],
           UNCHANGED <<id, emitted, progress, seen, before>>
    PROVE  /\ RecordsKept' /\ PollsKept'
           /\ query' \in [Requests -> {"unsent", "running", "answered", "raised"} \cup Ended]
           /\ \A r \in Requests : Alone(r)' <=> Alone(r)
<1> USE DEF ApiInvariant
<1>1. query' \in [Requests -> {"unsent", "running", "answered", "raised"} \cup Ended]
  BY DEF TypeOK
<1>2. /\ query'[q] = s /\ \A r \in Requests \ {q} : query'[r] = query[r]
      /\ \A r \in Requests : query'[r] = "unsent" <=> query[r] = "unsent"
  BY DEF TypeOK, Ended
<1>3. \A r \in Requests : Alone(r)' <=> Alone(r)
  BY <1>2 DEF Alone
<1>4. \A r \in Requests : (Keeps(r)' <=> Keeps(r)) /\ (Sole(r)' <=> Sole(r))
  BY DEF Keeps, Sole
<1>5. PollsKept'
  BY <1>4 DEF PollsKept
<1>6. \A r \in Requests : query[r] \in Ended => query'[r] \in Ended
  BY <1>2 DEF Ended
<1>7. \A r \in Requests : query'[r] \in {"running", "answered"} => query[r] \in {"running", "answered"}
  BY <1>2 DEF Ended
<1>8. RecordsKept'
  BY <1>2, <1>3, <1>4, <1>6, <1>7 DEF RecordsKept, TypeOK
<1>9. QED
  BY <1>1, <1>3, <1>5, <1>8

LEMMA ReturnsKeeps ==
    ASSUME ApiInvariant, NEW q \in Requests, Returns(q)
    PROVE  ApiInvariant'
<1>1. PICK s \in {"answered", "raised"} : query' = [query EXCEPT ![q] = s]
  BY DEF Returns
<1>2. /\ RecordsKept' /\ PollsKept'
      /\ query' \in [Requests -> {"unsent", "running", "answered", "raised"} \cup Ended]
      /\ \A r \in Requests : Alone(r)' <=> Alone(r)
  BY <1>1, HandlerMoves DEF Returns
<1>3. TypeOK'
  BY <1>2 DEF TypeOK, ApiInvariant, Returns
<1>4. \A r \in Requests : query'[r] = "ok" => query[r] = "ok"
  BY <1>1 DEF TypeOK, ApiInvariant
<1>5. AnswerCarriesItsEvents'
  BY <1>2, <1>4 DEF AnswerCarriesItsEvents, ApiInvariant, Returns
<1>6. QED
  BY <1>2, <1>3, <1>5 DEF ApiInvariant

LEMMA ReplyErrorKeeps ==
    ASSUME ApiInvariant, NEW q \in Requests, ReplyError(q)
    PROVE  ApiInvariant'
<1>1. /\ RecordsKept' /\ PollsKept'
      /\ query' \in [Requests -> {"unsent", "running", "answered", "raised"} \cup Ended]
      /\ \A r \in Requests : Alone(r)' <=> Alone(r)
  BY HandlerMoves DEF ReplyError, Ended
<1>2. TypeOK'
  BY <1>1 DEF TypeOK, ApiInvariant, ReplyError
<1>3. \A r \in Requests : query'[r] = "ok" => query[r] = "ok"
  BY DEF TypeOK, ApiInvariant, ReplyError
<1>4. AnswerCarriesItsEvents'
  BY <1>1, <1>3 DEF AnswerCarriesItsEvents, ApiInvariant, ReplyError
<1>5. QED
  BY <1>1, <1>2, <1>4 DEF ApiInvariant

LEMMA ReplyKeeps ==
    ASSUME ApiInvariant, NEW q \in Requests, Reply(q)
    PROVE  ApiInvariant'
<1>1. /\ RecordsKept' /\ PollsKept'
      /\ query' \in [Requests -> {"unsent", "running", "answered", "raised"} \cup Ended]
      /\ \A r \in Requests : Alone(r)' <=> Alone(r)
  BY HandlerMoves DEF Reply, Ended
<1>2. TypeOK'
  <2>1. <<>> \in Seq(Events)
    OBVIOUS
  <2>2. id[q] # NoId => progress[id[q]] \in Seq(Events)
    BY DEF ApiInvariant, TypeOK
  <2>3. reply' \in [Requests -> Seq(Events)]
    BY <2>1, <2>2 DEF Reply, ApiInvariant, TypeOK
  <2>4. QED
    BY <1>1, <2>3 DEF TypeOK, ApiInvariant, Reply
<1>3. AnswerCarriesItsEvents'
  <2> SUFFICES ASSUME NEW r \in Requests, query'[r] = "ok", id[r] # NoId, Alone(r)
               PROVE reply'[r] = LastEvents(r, emitted[r])
    BY <1>1 DEF AnswerCarriesItsEvents, Reply
  <2>1. CASE r = q
    <3>1. reply'[r] = progress[id[r]] /\ query[r] = "answered"
      BY <2>1 DEF Reply, ApiInvariant, TypeOK
    <3>2. QED
      BY <3>1 DEF ApiInvariant, RecordsKept, Keeps
  <2>2. CASE r # q
    <3>1. reply'[r] = reply[r] /\ query[r] = "ok"
      BY <2>2 DEF Reply, ApiInvariant, TypeOK
    <3>2. QED
      BY <3>1 DEF ApiInvariant, AnswerCarriesItsEvents
  <2>3. QED
    BY <2>1, <2>2
<1>4. QED
  BY <1>1, <1>2, <1>3 DEF ApiInvariant

LEMMA PollKeeps ==
    ASSUME ApiInvariant, NEW o \in Pollers, NEW i \in Ids, Poll(o, i)
    PROVE  ApiInvariant'
<1> USE DEF ApiInvariant, Poll
<1>1. TypeOK'
  BY DEF TypeOK
<1>2. /\ seen'[o] = [id |-> i, events |-> progress[i]]
      /\ \A p \in Pollers \ {o} : seen'[p] = seen[p]
  BY DEF TypeOK
<1>3. RecordsKept'
  BY DEF RecordsKept, Keeps, Sole, Alone
<1>4. AnswerCarriesItsEvents'
  BY DEF AnswerCarriesItsEvents, Alone
<1>5. PollsKept'
  <2> SUFFICES ASSUME NEW p \in Pollers, NEW r \in Requests, seen'[p].id = id[r], Sole(r)
               PROVE \E m \in 0 .. emitted[r] : seen'[p].events = LastEvents(r, m)
    BY DEF PollsKept, Sole
  <2>1. CASE p = o
    <3>1. seen'[p].events = progress[id[r]]
      BY <1>2, <2>1
    <3>2. seen'[p].events = LastEvents(r, emitted[r])
      BY <3>1 DEF RecordsKept, Keeps
    <3>3. emitted[r] \in 0 .. emitted[r]
      BY DEF TypeOK
    <3>4. QED
      BY <3>2, <3>3
  <2>2. CASE p # o
    BY <1>2, <2>2 DEF PollsKept
  <2>3. QED
    BY <2>1, <2>2
<1>6. QED
  BY <1>1, <1>3, <1>4, <1>5

LEMMA ApiStep == ApiInvariant /\ [Next]_vars => ApiInvariant'
BY ReceiveKeeps, EmitKeeps, ReturnsKeeps, ReplyKeeps, ReplyErrorKeeps, PollKeeps, ApiStutters
   DEF Next

\* The record of progress is each request's own while nobody shares its id.
LEMMA ApiInvariantHolds == Spec => []ApiInvariant
BY ApiStarts, ApiStep, PTL DEF Spec

\* An answer carries the last events of its own execution, whatever the other
\* requests did, as long as none used its id meanwhile.
THEOREM AnswersAreSound == Spec => []AnswersSound
<1>1. ApiInvariant => AnswersSound
  BY DEF ApiInvariant, AnswersSound
<1>2. QED
  BY <1>1, ApiInvariantHolds, PTL

\* What a poller has seen of an id that is used once is only ever continued.
THEOREM PollsAdvance == Spec => PollsOnlyAdvance
<1> DEFINE Advance(p) ==
        seen[p].id # NoId /\ (\E r \in Requests : {q \in Requests : id[q] = seen[p].id} = {r}) =>
            Continues(seen[p].events, seen'[p].events)
<1>1. ASSUME ApiInvariant, [Next]_vars, NEW p \in Pollers PROVE Advance(p)
  <2> SUFFICES ASSUME seen[p].id # NoId, NEW r \in Requests,
                      {q \in Requests : id[q] = seen[p].id} = {r}
               PROVE  Continues(seen[p].events, seen'[p].events)
    OBVIOUS
  <2>1. Sole(r) /\ seen[p].id = id[r]
    BY DEF Sole
  <2>2. PICK m \in 0 .. emitted[r] : seen[p].events = LastEvents(r, m)
    BY <1>1, <2>1 DEF ApiInvariant, PollsKept
  <2>3. m \in Nat /\ emitted[r] \in Nat /\ m <= emitted[r]
    BY <1>1, <2>2 DEF ApiInvariant, TypeOK
  <2>4. CASE seen'[p] = seen[p]
    BY <2>2, <2>3, <2>4, LaterEventsContinue
  <2>5. CASE seen'[p] # seen[p]
    <3>1. PICK o \in Pollers, i \in Ids : Poll(o, i)
      BY <1>1, <2>5 DEF Next, vars, Receive, Emit, Returns, Reply, ReplyError
    <3>2. o = p /\ seen'[p] = [id |-> i, events |-> progress[i]]
      BY <1>1, <2>5, <3>1 DEF Poll, ApiInvariant, TypeOK
    <3>3. i = id[r]
      BY <2>1, <3>1, <3>2 DEF Poll
    <3>4. seen'[p].events = LastEvents(r, emitted[r])
      BY <1>1, <2>1, <3>2, <3>3 DEF ApiInvariant, RecordsKept, Keeps
    <3>5. QED
      BY <2>2, <2>3, <3>4, LaterEventsContinue
  <2>6. QED
    BY <2>4, <2>5
<1>2. ApiInvariant /\ [Next]_vars => [\A p \in Pollers : Advance(p)]_vars
  BY <1>1
<1>3. QED
  BY <1>2, ApiInvariantHolds, PTL DEF Spec, PollsOnlyAdvance
-----------------------------------------------------------------------------
(* One call over a stream (module StreamRpc): a call that succeeds.          *)

\* A handler runs only on an open stream, works only on a whole request, and
\* what arrives as a reply is what it wrote at its end.
Exchanged ==
    \A c \in Calls :
        /\ client[c] \in {"idle", "connecting", "opening"} => server[c] = "none"
        /\ server[c] \in {"working", "replied"} => request[c] = "whole"
        /\ response[c] # "none" => server[c] = "replied"
        /\ client[c] = "ok" => response[c] = "whole"

RpcInvariant == RpcTypeOK /\ Exchanged

LEMMA RpcStarts == RpcInit => RpcInvariant
BY DEF RpcInit, RpcInvariant, RpcTypeOK, Exchanged, Open, CallEnded, Closed, Arrived

LEMMA RpcCallerKeeps ==
    ASSUME RpcInvariant, NEW c \in Calls,
           Call(c) \/ Caller(c) \/ TimesOut(c)
    PROVE  RpcInvariant'
<1> USE DEF RpcInvariant, RpcTypeOK, Exchanged, Open, CallEnded, Closed, Arrived
<1>1. CASE Call(c)
  BY <1>1 DEF Call
<1>2. CASE Dialled(c)
  BY <1>2 DEF Dialled
<1>3. CASE Opened(c)
  BY <1>3 DEF Opened
<1>4. CASE OpenFails(c)
  BY <1>4 DEF OpenFails
<1>5. CASE Writes(c)
  BY <1>5 DEF Writes
<1>6. CASE Reads(c)
  BY <1>6 DEF Reads
<1>7. CASE ReadsEnd(c)
  BY <1>7 DEF ReadsEnd
<1>8. CASE TimesOut(c)
  BY <1>8 DEF TimesOut
<1>9. QED
  BY <1>1, <1>2, <1>3, <1>4, <1>5, <1>6, <1>7, <1>8 DEF Caller

LEMMA RpcHandlerKeeps ==
    ASSUME RpcInvariant, NEW c \in Calls,
           Handler(c) \/ Dies(c)
    PROVE  RpcInvariant'
<1> USE DEF RpcInvariant, RpcTypeOK, Exchanged, Open, CallEnded, Closed, Arrived
<1>1. CASE HandlerReads(c)
  BY <1>1 DEF HandlerReads
<1>2. CASE HandlerReadsEnd(c)
  BY <1>2 DEF HandlerReadsEnd
<1>3. CASE HandlerEnds(c)
  BY <1>3 DEF HandlerEnds
<1>4. CASE Dies(c)
  BY <1>4 DEF Dies
<1>5. QED
  BY <1>1, <1>2, <1>3, <1>4 DEF Handler

LEMMA RpcConnectionKeeps ==
    ASSUME RpcInvariant, NEW c \in Calls,
           RequestArrives(c) \/ ReplyArrives(c) \/ FallsSilent(c)
    PROVE  RpcInvariant'
<1> USE DEF RpcInvariant, RpcTypeOK, Exchanged, Open, CallEnded, Closed, Arrived
<1>1. CASE RequestArrives(c)
  BY <1>1 DEF RequestArrives, More
<1>2. CASE ReplyArrives(c)
  BY <1>2 DEF ReplyArrives, More
<1>3. CASE FallsSilent(c)
  BY <1>3 DEF FallsSilent
<1>4. QED
  BY <1>1, <1>2, <1>3

LEMMA RpcStep == RpcInvariant /\ [RpcNext]_rpcVars => RpcInvariant'
<1> SUFFICES ASSUME RpcInvariant, [RpcNext]_rpcVars PROVE RpcInvariant'
  OBVIOUS
<1>1. CASE RpcNext
  BY <1>1, RpcCallerKeeps, RpcHandlerKeeps, RpcConnectionKeeps DEF RpcNext
<1>2. CASE UNCHANGED rpcVars
  BY <1>2 DEF rpcVars, RpcInvariant, RpcTypeOK, Exchanged
<1>3. QED
  BY <1>1, <1>2

\* A call that succeeds was read whole, worked on and answered whole, however
\* the messages were cut and whoever gave up or died.
THEOREM SuccessMeansServed == RpcSpec => []CallsSound
<1>1. RpcInvariant => CallsSound
  BY DEF RpcInvariant, Exchanged, CallsSound, OkMeansServed
<1>2. QED
  BY <1>1, RpcStarts, RpcStep, PTL DEF RpcSpec
=============================================================================
