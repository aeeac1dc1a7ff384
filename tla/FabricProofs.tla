---------------------------- MODULE FabricProofs ----------------------------
(***************************************************************************)
(* The packet fabric loses and invents no packet, its barrier ends a round *)
(* with the last arrival only, and its rings are first-in first-out        *)
(* inboxes, for every number of tiles and every capacity.                  *)
(***************************************************************************)
EXTENDS Fabric, TLAPS, FiniteSetTheorems, FunctionTheorems

(***************************************************************************)
(* Types.  bytesReceived is left out at first: it adds the size of what    *)
(* the ring holds at its head, which is a packet only in a ring that never *)
(* overflowed.                                                             *)
(***************************************************************************)
CounterFields == DOMAIN ZeroCounters

CountersOK ==
    /\ DOMAIN counters = CounterFields
    /\ counters = [f \in CounterFields |-> counters[f]]
    /\ \A f \in CounterFields \ {"bytesReceived"} : counters[f] \in Nat

FabricTypes ==
    /\ queues \in [Tiles -> QueueRecords]
    /\ barrier \in BarrierRecords
    /\ CountersOK
    /\ carried \in Nat

\* The slot that is k places ahead in a ring: indices wrap once at most.
LEMMA SlotAhead ==
    ASSUME NEW d \in Nat \ {0}, NEW h \in 0..d - 1, NEW k \in 0..d
    PROVE  /\ (h + k) % d \in 0..d - 1
           /\ (h + k) % d = IF h + k < d THEN h + k ELSE h + k - d
  BY SMT

\* Slots less than a turn apart are different.
LEMMA SlotsApart ==
    ASSUME NEW d \in Nat \ {0}, NEW h \in 0..d - 1, NEW j \in 0..d, NEW m \in 0..d,
           j < m, m - j < d
    PROVE  (h + j) % d # (h + m) % d
  <1>1. (h + j) % d = IF h + j < d THEN h + j ELSE h + j - d
    BY SlotAhead
  <1>2. (h + m) % d = IF h + m < d THEN h + m ELSE h + m - d
    BY SlotAhead
  <1>3. (IF h + j < d THEN h + j ELSE h + j - d) # (IF h + m < d THEN h + m ELSE h + m - d)
    OBVIOUS
  <1>4. QED
    BY <1>1, <1>2, <1>3

\* The slots ahead of the next head are those ahead of this one.
LEMMA SlotNext ==
    ASSUME NEW d \in Nat \ {0}, NEW h \in 0..d - 1, NEW j \in 0..d - 1, NEW b \in 0..d - 1,
           NEW m \in 0..d, m = j + 1, b = (h + 1) % d
    PROVE  (b + j) % d = (h + m) % d
  <1>1. (b + j) % d = IF b + j < d THEN b + j ELSE b + j - d
    <2>1. j \in 0..d
      OBVIOUS
    <2>2. QED
      BY <2>1, SlotAhead
  <1> b = IF h + 1 < d THEN h + 1 ELSE h + 1 - d
    <2>1. 1 \in 0..d
      OBVIOUS
    <2>2. QED
      BY <2>1, SlotAhead
  <1>2. (h + m) % d = IF h + m < d THEN h + m ELSE h + m - d
    BY SlotAhead
  <1>3. (IF b + j < d THEN b + j ELSE b + j - d) = (IF h + m < d THEN h + m ELSE h + m - d)
    OBVIOUS
  <1>4. QED
    BY <1>1, <1>2, <1>3

LEMMA ConfigTypes ==
    /\ TileCount \in Nat \ {0} /\ QueueCapacity \in Nat \ {0} /\ MaxPayload \in Nat \ {0}
    /\ SizeArgs \subseteq Nat /\ GroupArgs \subseteq Seq(Nat) /\ SetArgs \subseteq Seq(Nat)
    /\ IsFiniteSet(Tiles)
  <1>1. IsFiniteSet(0..TileCount - 1)
    BY FabricConfigValid, FS_Interval
  <1>2. QED
    BY <1>1, FabricConfigValid DEF Tiles

LEMMA FieldNames ==
    CounterFields = {"sent", "received", "broadcast", "bytesSent", "bytesReceived", "full",
                     "invalid", "empty", "arrivals", "completions"}
  BY DEF CounterFields, ZeroCounters

LEMMA CounterTypes ==
    ASSUME CountersOK
    PROVE  /\ counters.sent \in Nat /\ counters.received \in Nat /\ counters.broadcast \in Nat
           /\ counters.bytesSent \in Nat /\ counters.full \in Nat /\ counters.invalid \in Nat
           /\ counters.empty \in Nat /\ counters.arrivals \in Nat
           /\ counters.completions \in Nat
  <1>1. /\ counters["sent"] \in Nat /\ counters["received"] \in Nat
        /\ counters["broadcast"] \in Nat /\ counters["bytesSent"] \in Nat
        /\ counters["full"] \in Nat /\ counters["invalid"] \in Nat
        /\ counters["empty"] \in Nat /\ counters["arrivals"] \in Nat
        /\ counters["completions"] \in Nat
    BY FieldNames DEF CountersOK
  <1>2. QED
    BY <1>1

\* A ring after one enqueue or more.
LEMMA EnqueuedType ==
    ASSUME NEW q \in QueueRecords, NEW m \in Nat, NEW packet \in Packets
    PROVE  /\ Enqueued(q, m, packet) \in QueueRecords
           /\ Enqueued(q, m, packet).count = q.count + m
           /\ Enqueued(q, m, packet).head = q.head
  <1>1. q.head \in Slots /\ q.count + m \in Nat /\ q.slots \in [Slots -> Packets \cup {NoPacket}]
    BY DEF QueueRecords
  <1> DEFINE sl == [k \in Slots |->
                        IF \E j \in 0..m - 1 : k = (q.head + q.count + j) % QueueCapacity
                        THEN packet ELSE q.slots[k]]
  <1>2. sl \in [Slots -> Packets \cup {NoPacket}]
    BY <1>1
  <1>3. Enqueued(q, m, packet) = [head |-> q.head, count |-> q.count + m, slots |-> sl]
    BY DEF Enqueued
  <1> HIDE DEF sl
  <1>4. QED
    BY <1>1, <1>2, <1>3 DEF QueueRecords

(***************************************************************************)
(* The packets queued, as a set of places.                                 *)
(***************************************************************************)
Places(c) == UNION {{t} \X (1..c[t]) : t \in Tiles}
Counts(qs) == [t \in Tiles |-> qs[t].count]

LEMMA InFlightPlaces == \A qs : InFlight(qs) = Cardinality(Places(Counts(qs)))
  <1> TAKE qs
  <1>1. {{t} \X (1..qs[t].count) : t \in Tiles} = {{t} \X (1..Counts(qs)[t]) : t \in Tiles}
    BY DEF Counts
  <1>2. QED
    BY <1>1 DEF InFlight, Places

LEMMA PlacesMembers ==
    \A c, x : x \in Places(c) <=> \E t \in Tiles : \E k \in 1..c[t] : x = <<t, k>>
  BY DEF Places

LEMMA PlacesFinite ==
    ASSUME NEW c \in [Tiles -> Nat]
    PROVE  IsFiniteSet(Places(c)) /\ Cardinality(Places(c)) \in Nat
  <1> DEFINE f == [t \in Tiles |-> {t} \X (1..c[t])]
             T == {{t} \X (1..c[t]) : t \in Tiles}
  <1>1. f \in Surjection(Tiles, T)
    BY DEF Surjection
  <1>2. IsFiniteSet(T)
    BY <1>1, ConfigTypes, FS_Surjection
  <1>3. \A t \in Tiles : IsFiniteSet({t} \X (1..c[t]))
    <2> TAKE t \in Tiles
    <2>1. IsFiniteSet({t})
      BY FS_Singleton
    <2>2. IsFiniteSet(1..c[t])
      BY FS_Interval
    <2>3. QED
      BY <2>1, <2>2, FS_Product
  <1>4. IsFiniteSet(UNION T)
    BY <1>2, <1>3, FS_UNION
  <1>5. QED
    BY <1>4, FS_CardinalityType DEF Places

\* Some more packets for some tiles: as many places as a set that is mapped
\* one to one onto the new ones.
LEMMA PlacesAdded ==
    ASSUME NEW c \in [Tiles -> Nat], NEW m \in [Tiles -> Nat], NEW D, IsFiniteSet(D),
           NEW to \in [D -> Tiles],
           \A t \in Tiles : Cardinality({k \in D : to[k] = t}) = m[t]
    PROVE  Cardinality(Places([t \in Tiles |-> c[t] + m[t]]))
              = Cardinality(Places(c)) + Cardinality(D)
  <1> DEFINE P(t) == {k \in D : to[k] = t}
             rank == [t \in Tiles |-> CHOOSE f : f \in Bijection(P(t), 1..m[t])]
             d == [t \in Tiles |-> c[t] + m[t]]
             New == Places(d) \ Places(c)
             at == [k \in D |-> <<to[k], c[to[k]] + rank[to[k]][k]>>]
  <1>1. \A t \in Tiles : rank[t] \in Bijection(P(t), 1..m[t])
    <2> TAKE t \in Tiles
    <2>1. IsFiniteSet(P(t))
      BY FS_Subset
    <2>2. IsFiniteSet(1..m[t]) /\ Cardinality(1..m[t]) = m[t]
      BY FS_Interval
    <2>3. ExistsBijection(P(t), 1..m[t])
      BY <2>1, <2>2, FS_SameCardinalityBij
    <2>4. QED
      BY <2>3 DEF ExistsBijection
  <1> HIDE DEF rank
  <1>2. d \in [Tiles -> Nat]
    OBVIOUS
  <1>3. \A x : x \in New <=> \E t \in Tiles : \E k \in 1..m[t] : x = <<t, c[t] + k>>
    <2>1. \A x : x \in New =>
              \E t \in Tiles : \E k \in 1..m[t] : x = <<t, c[t] + k>>
      <3> SUFFICES ASSUME NEW x \in New
                   PROVE  \E t \in Tiles : \E k \in 1..m[t] : x = <<t, c[t] + k>>
        OBVIOUS
      <3>1. PICK t \in Tiles : \E k \in 1..d[t] : x = <<t, k>>
        BY PlacesMembers
      <3>2. PICK k \in 1..d[t] : x = <<t, k>>
        BY <3>1
      <3>3. ~ (k \in 1..c[t])
        BY <3>1, <3>2, PlacesMembers
      <3>4. k - c[t] \in 1..m[t] /\ k = c[t] + (k - c[t])
        BY <3>2, <3>3
      <3>5. QED
        BY <3>2, <3>4
    <2>2. ASSUME NEW t \in Tiles, NEW k \in 1..m[t]
          PROVE  <<t, c[t] + k>> \in New
      <3>1. c[t] + k \in 1..d[t] /\ c[t] + k \notin 1..c[t]
        OBVIOUS
      <3>2. <<t, c[t] + k>> \in Places(d)
        BY <3>1, PlacesMembers
      <3>3. <<t, c[t] + k>> \notin Places(c)
        BY <3>1, PlacesMembers
      <3>4. QED
        BY <3>2, <3>3
    <2>3. QED
      BY <2>1, <2>2
  <1>4. at \in Bijection(D, New)
    <2>1. \A k \in D : to[k] \in Tiles /\ k \in P(to[k]) /\ rank[to[k]][k] \in 1..m[to[k]]
      <3> TAKE k \in D
      <3>1. to[k] \in Tiles /\ k \in P(to[k])
        OBVIOUS
      <3>2. rank[to[k]] \in [P(to[k]) -> 1..m[to[k]]]
        BY <1>1, <3>1, Fun_IsBij DEF Bijection, Injection
      <3>3. QED
        BY <3>1, <3>2
    <2>2. at \in [D -> New]
      BY <1>3, <2>1
    <2>3. ASSUME NEW j \in D, NEW k \in D, at[j] = at[k]
          PROVE  j = k
      <3>1. to[j] = to[k] /\ c[to[j]] + rank[to[j]][j] = c[to[k]] + rank[to[k]][k]
        BY <2>3
      <3> DEFINE t == to[j]
      <3>2. t \in Tiles /\ j \in P(t) /\ k \in P(t) /\ rank[t][j] = rank[t][k]
        BY <2>1, <3>1
      <3>3. rank[t] \in Injection(P(t), 1..m[t])
        BY <1>1, <3>2 DEF Bijection
      <3>4. QED
        BY <3>2, <3>3 DEF Injection, IsInjective
    <2>4. ASSUME NEW x \in New
          PROVE  \E k \in D : at[k] = x
      <3>1. PICK t \in Tiles : \E i \in 1..m[t] : x = <<t, c[t] + i>>
        BY <1>3
      <3>2. PICK i \in 1..m[t] : x = <<t, c[t] + i>>
        BY <3>1
      <3>3. PICK k \in P(t) : rank[t][k] = i
        BY <1>1, <3>1, <3>2 DEF Bijection, Surjection
      <3>4. QED
        BY <3>2, <3>3
    <2>5. QED
      BY <2>2, <2>3, <2>4 DEF Bijection, Injection, Surjection, IsInjective
  <1>5. IsFiniteSet(New) /\ Cardinality(New) = Cardinality(D)
    BY <1>4, FS_Bijection DEF ExistsBijection
  <1>6. Places(d) = Places(c) \cup New /\ Places(c) \cap New = {}
    <2>1. Places(c) \subseteq Places(d)
      <3> SUFFICES ASSUME NEW x \in Places(c)
                   PROVE  x \in Places(d)
        OBVIOUS
      <3>1. PICK t \in Tiles : \E k \in 1..c[t] : x = <<t, k>>
        BY PlacesMembers
      <3>2. PICK k \in 1..c[t] : x = <<t, k>>
        BY <3>1
      <3>3. k \in 1..d[t]
        BY <3>2
      <3>4. QED
        BY <3>2, <3>3, PlacesMembers
    <2>2. QED
      BY <2>1
  <1>7. IsFiniteSet(Places(c)) /\ Cardinality(Places(c)) \in Nat /\ Cardinality(D) \in Nat
    BY PlacesFinite, FS_CardinalityType
  <1> HIDE DEF New, d
  <1>8. Cardinality(Places(d)) = Cardinality(Places(c)) + Cardinality(New) - Cardinality({})
    BY <1>5, <1>6, <1>7, FS_Union
  <1>9. QED
    BY <1>5, <1>7, <1>8, FS_EmptySet DEF d

\* One more packet for one tile, or one less.
LEMMA OnePlaceAdded ==
    ASSUME NEW c \in [Tiles -> Nat], NEW t \in Tiles
    PROVE  Cardinality(Places([c EXCEPT ![t] = c[t] + 1])) = Cardinality(Places(c)) + 1
  <1> DEFINE d == [c EXCEPT ![t] = c[t] + 1]
             x == <<t, c[t] + 1>>
  <1>1. x \notin Places(c)
    <2> SUFFICES ASSUME x \in Places(c)
                 PROVE  FALSE
      OBVIOUS
    <2>1. PICK u \in Tiles, k \in Int : k \in 1..c[u] /\ x = <<u, k>>
      BY PlacesMembers
    <2>2. QED
      BY <2>1
  <1>2. Places(d) = Places(c) \cup {x}
    <2>1. \A u \in Tiles : u # t => d[u] = c[u]
      OBVIOUS
    <2>2. d[t] = c[t] + 1
      OBVIOUS
    <2> HIDE DEF d
    <2>3. \A y \in Places(c) : y \in Places(d)
      <3> TAKE y \in Places(c)
      <3>1. PICK u \in Tiles, k \in Int : k \in 1..c[u] /\ y = <<u, k>>
        BY PlacesMembers
      <3>2. k \in 1..d[u]
        BY <2>1, <2>2, <3>1
      <3>3. QED
        BY <3>1, <3>2, PlacesMembers
    <2>4. x \in Places(d)
      <3>1. c[t] + 1 \in 1..d[t]
        BY <2>2
      <3>2. QED
        BY <3>1, PlacesMembers
    <2>5. \A y \in Places(d) : y \in Places(c) \cup {x}
      <3> TAKE y \in Places(d)
      <3>1. PICK u \in Tiles, k \in Int : k \in 1..d[u] /\ y = <<u, k>>
        BY PlacesMembers
      <3>2. k \in 1..c[u] \/ (u = t /\ k = c[t] + 1)
        BY <2>1, <2>2, <3>1
      <3>3. CASE k \in 1..c[u]
        BY <3>1, <3>3, PlacesMembers
      <3>4. QED
        BY <3>1, <3>2, <3>3
    <2>6. QED
      BY <2>3, <2>4, <2>5
  <1>3. IsFiniteSet(Places(c)) /\ Cardinality(Places(c)) \in Nat
    BY PlacesFinite
  <1> HIDE DEF x, d
  <1>4. Cardinality(Places(c) \cup {x}) = Cardinality(Places(c)) + 1
    BY <1>1, <1>3, FS_AddElement
  <1>5. QED
    BY <1>2, <1>4 DEF d

LEMMA OnePlaceTaken ==
    ASSUME NEW c \in [Tiles -> Nat], NEW t \in Tiles, c[t] > 0
    PROVE  Cardinality(Places([c EXCEPT ![t] = c[t] - 1])) + 1 = Cardinality(Places(c))
  <1> DEFINE d == [c EXCEPT ![t] = c[t] - 1]
  <1>1. /\ d \in [Tiles -> Nat] /\ d[t] = c[t] - 1 /\ d[t] + 1 = c[t]
    OBVIOUS
  <1>2. [d EXCEPT ![t] = d[t] + 1] = c
    BY <1>1
  <1> HIDE DEF d
  <1>3. Cardinality(Places([d EXCEPT ![t] = d[t] + 1])) = Cardinality(Places(d)) + 1
    BY <1>1, OnePlaceAdded
  <1>4. QED
    BY <1>2, <1>3 DEF d

LEMMA CountsType ==
    ASSUME NEW qs \in [Tiles -> QueueRecords]
    PROVE  /\ Counts(qs) \in [Tiles -> Nat]
           /\ InFlight(qs) \in Nat
           /\ \A t \in Tiles : qs[t] \in QueueRecords /\ Counts(qs)[t] = qs[t].count
  <1>1. \A t \in Tiles : qs[t].count \in Nat
    BY DEF QueueRecords
  <1>2. Counts(qs) \in [Tiles -> Nat]
    BY <1>1 DEF Counts
  <1>3. QED
    BY <1>2, InFlightPlaces, PlacesFinite DEF Counts

(***************************************************************************)
(* Steps.                                                                  *)
(***************************************************************************)
SendKind ==
    \E s, t : \E size \in SizeArgs, body \in Bodies : Send(s, t, size, body)
ReceiveKind == \E t, room : Receive(t, room)
BroadcastKind ==
    \E s : \E group \in GroupArgs, size \in SizeArgs, body \in Bodies :
        Broadcast(s, group, size, body)
BadSetKind == \E t : \E participants \in SetArgs : BarrierBadSet(t, participants)
RefusedKind == \E t : \E participants \in SetArgs : BarrierRefused(t, participants)
ArriveKind == \E t : \E participants \in SetArgs : BarrierArrive(t, participants)
CountKind == CountOne("full") \/ CountOne("invalid")
EmptyKind == \E t : \E attempts \in Nat : ReceiveEmpty(t, attempts)

LEMMA StepKinds ==
    ASSUME [FabricNext]_fabricVars
    PROVE  \/ SendKind \/ ReceiveKind \/ BroadcastKind
           \/ BadSetKind \/ RefusedKind \/ ArriveKind
           \/ CountKind \/ EmptyKind \/ ResetCounters \/ UNCHANGED fabricVars
  <1>1. ASSUME NEW s, NEW t, NEW size \in SizeArgs, SendStep(s, t, size)
        PROVE  SendKind \/ CountKind
    BY <1>1 DEF SendStep, SendInvalid, SendFull, SendKind, CountKind
  <1>2. ASSUME NEW t, ReceiveStep(t)
        PROVE  ReceiveKind \/ CountKind \/ EmptyKind
    <2>1. PollArgs \subseteq Nat
      BY DEF PollArgs
    <2>2. QED
      BY <1>2, <2>1, Zenon DEF ReceiveStep, ReceiveInvalid, ReceiveKind, CountKind, EmptyKind
  <1>3. ASSUME NEW s, NEW group \in GroupArgs, NEW size \in SizeArgs,
               BroadcastStep(s, group, size)
        PROVE  BroadcastKind \/ CountKind
    BY <1>3, Zenon DEF BroadcastStep, BroadcastInvalid, BroadcastRefused, BroadcastKind, CountKind
  <1>4. ASSUME NEW t, NEW participants \in SetArgs, BarrierStep(t, participants)
        PROVE  BadSetKind \/ RefusedKind \/ ArriveKind \/ CountKind
    BY <1>4, Zenon
       DEF BarrierStep, BarrierBadTile, BarrierOtherSet, BadSetKind, RefusedKind,
           ArriveKind, CountKind
  <1>5. FabricNext => \/ \E s, t \in TileArgs, size \in SizeArgs : SendStep(s, t, size)
                      \/ \E t \in TileArgs : ReceiveStep(t)
                      \/ \E s \in TileArgs, group \in GroupArgs, size \in SizeArgs :
                            BroadcastStep(s, group, size)
                      \/ \E t \in TileArgs, participants \in SetArgs :
                            BarrierStep(t, participants)
                      \/ ResetCounters
    BY Zenon DEF FabricNext
  <1>6. QED
    BY <1>1, <1>2, <1>3, <1>4, <1>5, Zenon

\* What a step does to the queues and the counters of packets.
LEMMA SendFacts ==
    ASSUME FabricTypes, NEW s, NEW t, NEW size \in SizeArgs, NEW body \in Bodies,
           Send(s, t, size, body)
    PROVE  /\ queues' \in [Tiles -> QueueRecords] /\ CountersOK'
           /\ UNCHANGED <<barrier, carried>>
           /\ InFlight(queues') = InFlight(queues) + 1
           /\ \A f \in CounterFields \ {"sent", "bytesSent"} : counters'[f] = counters[f]
           /\ counters'.sent = counters.sent + 1
  <1> DEFINE p == [source |-> s, target |-> t, size |-> size, body |-> body]
             q == Enqueued(queues[t], 1, p)
             c == Counts(queues)
             a == counters.sent + 1
             b == counters.bytesSent + size
  <1>1. /\ s \in Tiles /\ t \in Tiles /\ size \in 0..MaxPayload
        /\ queues' = [queues EXCEPT ![t] = q]
        /\ counters' = [counters EXCEPT !.sent = a, !.bytesSent = b]
        /\ UNCHANGED <<barrier, carried>>
    BY ConfigTypes DEF Send, ValidTile
  <1>2. p \in Packets
    BY <1>1 DEF Packets
  <1> HIDE DEF p
  <1>3. /\ queues[t] \in QueueRecords /\ q \in QueueRecords /\ q.count = queues[t].count + 1
        /\ c \in [Tiles -> Nat] /\ c[t] = queues[t].count
    BY <1>1, <1>2, EnqueuedType, CountsType DEF FabricTypes
  <1> HIDE DEF q
  <1>4. queues' \in [Tiles -> QueueRecords]
    BY <1>1, <1>3 DEF FabricTypes
  <1>5. Counts(queues') = [c EXCEPT ![t] = c[t] + 1]
    BY <1>1, <1>3 DEF FabricTypes, Counts
  <1>6. InFlight(queues') = InFlight(queues) + 1
    <2> HIDE DEF c
    <2>1. Cardinality(Places([c EXCEPT ![t] = c[t] + 1])) = Cardinality(Places(c)) + 1
      BY <1>1, <1>3, OnePlaceAdded
    <2>2. QED
      BY <1>5, <2>1, InFlightPlaces DEF c
  <1>7. a \in Nat /\ b \in Nat
    BY CounterTypes, ConfigTypes DEF FabricTypes
  <1> HIDE DEF a, b
  <1>8. /\ CountersOK'
        /\ \A f \in CounterFields \ {"sent", "bytesSent"} : counters'[f] = counters[f]
        /\ counters'.sent = a
    BY <1>1, <1>7, FieldNames DEF FabricTypes, CountersOK
  <1>9. QED
    BY <1>1, <1>4, <1>6, <1>8 DEF a

\* The ring after its oldest packet is taken.
Taken(q) == [head |-> (q.head + 1) % QueueCapacity, count |-> q.count - 1,
             slots |-> [q.slots EXCEPT ![q.head] = NoPacket]]

LEMMA ReceiveRing ==
    ASSUME queues \in [Tiles -> QueueRecords], NEW t, NEW room, Receive(t, room)
    PROVE  /\ t \in Tiles /\ queues[t] \in QueueRecords /\ queues[t].count > 0
           /\ queues' = [queues EXCEPT ![t] = Taken(queues[t])]
           /\ Taken(queues[t]) \in QueueRecords
           /\ Taken(queues[t]).count = queues[t].count - 1
  <1> DEFINE q == queues[t]
             h == (q.head + 1) % QueueCapacity
             n == q.count - 1
             sl == [q.slots EXCEPT ![q.head] = NoPacket]
  <1>1. /\ t \in Tiles /\ q.count > 0
        /\ queues' = [queues EXCEPT ![t].head = h, ![t].count = n,
                                    ![t].slots[q.head] = NoPacket]
    BY DEF Receive, ValidTile
  <1>2. /\ q \in QueueRecords /\ q.head \in Slots /\ q.count \in Nat
        /\ q.slots \in [Slots -> Packets \cup {NoPacket}]
    BY <1>1 DEF QueueRecords
  <1>3. queues' = [queues EXCEPT ![t] = [q EXCEPT !.head = h, !.count = n, !.slots = sl]]
    BY <1>1
  <1>4. h \in Slots /\ n \in Nat /\ sl \in [Slots -> Packets \cup {NoPacket}]
    <2>1. q.head \in 0..QueueCapacity - 1 /\ 1 \in 0..QueueCapacity
      BY <1>2, ConfigTypes DEF Slots
    <2>2. h \in Slots
      BY <2>1, SlotAhead, ConfigTypes DEF Slots
    <2>3. QED
      BY <1>1, <1>2, <2>2
  <1>5. Taken(q) = [head |-> h, count |-> n, slots |-> sl]
    BY DEF Taken
  <1> HIDE DEF h, n, sl, q
  <1>6. [q EXCEPT !.head = h, !.count = n, !.slots = sl] = Taken(q)
    <2> DEFINE r == [q EXCEPT !.head = h, !.count = n, !.slots = sl]
    <2>1. r \in QueueRecords /\ r.head = h /\ r.count = n /\ r.slots = sl
      BY <1>2, <1>4 DEF QueueRecords
    <2> HIDE DEF r
    <2>2. r = [head |-> r.head, count |-> r.count, slots |-> r.slots]
      BY <2>1 DEF QueueRecords
    <2>3. QED
      BY <1>5, <2>1, <2>2 DEF r
  <1>7. Taken(q) \in QueueRecords /\ Taken(q).count = n
    BY <1>4, <1>5 DEF QueueRecords
  <1>8. QED
    BY <1>1, <1>2, <1>3, <1>6, <1>7 DEF n, q

LEMMA ReceiveFacts ==
    ASSUME FabricTypes, NEW t, NEW room, Receive(t, room)
    PROVE  /\ queues' \in [Tiles -> QueueRecords] /\ CountersOK'
           /\ UNCHANGED <<barrier, carried>>
           /\ InFlight(queues') + 1 = InFlight(queues)
           /\ \A f \in CounterFields \ {"received", "bytesReceived"} : counters'[f] = counters[f]
           /\ counters'.received = counters.received + 1
  <1> DEFINE c == Counts(queues)
             a == counters.received + 1
             b == counters.bytesReceived + Oldest(t).size
  <1>1. /\ t \in Tiles /\ queues[t] \in QueueRecords /\ queues[t].count > 0
        /\ queues' = [queues EXCEPT ![t] = Taken(queues[t])]
        /\ Taken(queues[t]) \in QueueRecords
        /\ Taken(queues[t]).count = queues[t].count - 1
    BY ReceiveRing DEF FabricTypes
  <1>2. /\ counters' = [counters EXCEPT !.received = a, !.bytesReceived = b]
        /\ UNCHANGED <<barrier, carried>>
    BY DEF Receive
  <1>3. c \in [Tiles -> Nat] /\ c[t] = queues[t].count /\ c[t] > 0
    BY <1>1, CountsType DEF FabricTypes
  <1>4. queues' \in [Tiles -> QueueRecords]
    BY <1>1 DEF FabricTypes
  <1>5. Counts(queues') = [c EXCEPT ![t] = c[t] - 1]
    BY <1>1, <1>3 DEF FabricTypes, Counts
  <1>6. InFlight(queues') + 1 = InFlight(queues)
    <2> HIDE DEF c
    <2>1. Cardinality(Places([c EXCEPT ![t] = c[t] - 1])) + 1 = Cardinality(Places(c))
      BY <1>1, <1>3, OnePlaceTaken
    <2>2. QED
      BY <1>5, <2>1, InFlightPlaces DEF c
  <1>7. a \in Nat
    BY CounterTypes DEF FabricTypes
  <1> HIDE DEF a, b
  <1>8. /\ CountersOK'
        /\ \A f \in CounterFields \ {"received", "bytesReceived"} : counters'[f] = counters[f]
        /\ counters'.received = a
    BY <1>2, <1>7, FieldNames DEF FabricTypes, CountersOK
  <1>9. QED
    BY <1>2, <1>4, <1>6, <1>8 DEF a

\* The copies of a broadcast: one for each entry of the group but the source.
LEMMA GroupCopies ==
    ASSUME NEW group \in GroupArgs, NEW s
    PROVE  /\ IsFiniteSet({k \in DOMAIN group : group[k] # s})
           /\ Cardinality({k \in DOMAIN group : group[k] # s}) \in Nat
           /\ \A t : Times(t, group) \in Nat /\ IsFiniteSet({k \in DOMAIN group : group[k] = t})
  <1>1. DOMAIN group = 1..Len(group) /\ Len(group) \in Nat
    BY ConfigTypes
  <1>2. IsFiniteSet(DOMAIN group)
    BY <1>1, FS_Interval
  <1>3. IsFiniteSet({k \in DOMAIN group : group[k] # s})
    BY <1>2, FS_Subset
  <1>4. \A t : IsFiniteSet({k \in DOMAIN group : group[k] = t})
    BY <1>2, FS_Subset
  <1>5. QED
    BY <1>3, <1>4, FS_CardinalityType DEF Times

LEMMA BroadcastFacts ==
    ASSUME FabricTypes, NEW s, NEW group \in GroupArgs, NEW size \in SizeArgs,
           NEW body \in Bodies, Broadcast(s, group, size, body)
    PROVE  /\ queues' \in [Tiles -> QueueRecords] /\ CountersOK'
           /\ UNCHANGED <<barrier, carried>>
           /\ \E copies \in Nat :
                 /\ InFlight(queues') = InFlight(queues) + copies
                 /\ counters'.sent = counters.sent + copies
           /\ \A f \in CounterFields \ {"sent", "bytesSent", "broadcast"} :
                 counters'[f] = counters[f]
  <1> DEFINE p(t) == [source |-> s, target |-> t, size |-> size, body |-> body]
             D == {k \in DOMAIN group : group[k] # s}
             copies == Cardinality(D)
             m == [t \in Tiles |-> IF t = s THEN 0 ELSE Times(t, group)]
             to == [k \in D |-> group[k]]
             c == Counts(queues)
             a == counters.sent + copies
             b == counters.bytesSent + copies * size
             e == counters.broadcast + copies
  <1>1. /\ s \in Tiles /\ size \in 0..MaxPayload
        /\ \A k \in D : group[k] \in Tiles
        /\ queues' = [t \in Tiles |-> IF t = s THEN queues[t]
                                      ELSE Enqueued(queues[t], Times(t, group), p(t))]
        /\ counters' = [counters EXCEPT !.sent = a, !.bytesSent = b, !.broadcast = e]
        /\ UNCHANGED <<barrier, carried>>
    BY ConfigTypes DEF Broadcast, ValidTile, PreflightPasses, Passes
  <1>2. /\ IsFiniteSet(D) /\ copies \in Nat
        /\ \A t : Times(t, group) \in Nat
    BY GroupCopies
  <1>3. \A t \in Tiles : p(t) \in Packets
    BY <1>1 DEF Packets
  <1> HIDE DEF p
  <1>4. \A t \in Tiles :
           /\ queues'[t] \in QueueRecords
           /\ queues'[t].count = c[t] + m[t]
    <2> TAKE t \in Tiles
    <2>1. queues[t] \in QueueRecords /\ c[t] = queues[t].count /\ queues[t].count \in Nat
      BY CountsType DEF FabricTypes, QueueRecords
    <2>2. CASE t = s
      BY <1>1, <2>1, <2>2
    <2>3. CASE t # s
      <3> DEFINE pt == p(t)
                 i == Times(t, group)
                 q == queues[t]
      <3>1. queues'[t] = Enqueued(q, i, pt) /\ c[t] + m[t] = q.count + i
        BY <1>1, <2>1, <2>3
      <3>2. pt \in Packets /\ i \in Nat /\ q \in QueueRecords
        BY <1>2, <1>3, <2>1
      <3> HIDE DEF pt, i, q
      <3>3. QED
        BY <3>1, <3>2, EnqueuedType
    <2>4. QED
      BY <2>2, <2>3
  <1>5. queues' \in [Tiles -> QueueRecords]
    BY <1>1, <1>4
  <1>6. Counts(queues') = [t \in Tiles |-> c[t] + m[t]]
    BY <1>4 DEF Counts
  <1>7. InFlight(queues') = InFlight(queues) + copies
    <2>1. c \in [Tiles -> Nat] /\ m \in [Tiles -> Nat] /\ to \in [D -> Tiles]
      BY <1>1, <1>2, CountsType DEF FabricTypes
    <2>2. \A t \in Tiles : Cardinality({k \in D : to[k] = t}) = m[t]
      <3> TAKE t \in Tiles
      <3>1. CASE t = s
        <4>1. {k \in D : to[k] = t} = {}
          BY <3>1
        <4>2. QED
          BY <3>1, <4>1, FS_EmptySet
      <3>2. CASE t # s
        <4>1. {k \in D : to[k] = t} = {k \in DOMAIN group : group[k] = t}
          BY <3>2
        <4>2. QED
          BY <3>2, <4>1 DEF Times
      <3>3. QED
        BY <3>1, <3>2
    <2> HIDE DEF c, m, to, D
    <2>3. Cardinality(Places([t \in Tiles |-> c[t] + m[t]])) = Cardinality(Places(c)) + copies
      BY <1>2, <2>1, <2>2, PlacesAdded
    <2>4. QED
      BY <1>6, <2>3, InFlightPlaces DEF c
  <1> HIDE DEF D
  <1>8. a \in Nat /\ b \in Nat /\ e \in Nat
    <2> HIDE DEF copies
    <2>1. copies * size \in Nat
      BY <1>2, ConfigTypes
    <2>2. /\ counters.sent \in Nat /\ counters.bytesSent \in Nat
          /\ counters.broadcast \in Nat
      BY CounterTypes DEF FabricTypes
    <2> DEFINE bytes == copies * size
    <2> HIDE DEF bytes
    <2>3. QED
      BY <1>2, <2>1, <2>2 DEF bytes
  <1> HIDE DEF a, b, e
  <1>9. /\ CountersOK'
        /\ \A f \in CounterFields \ {"sent", "bytesSent", "broadcast"} :
              counters'[f] = counters[f]
        /\ counters'.sent = a
    BY <1>1, <1>8, FieldNames DEF FabricTypes, CountersOK
  <1>10. QED
    BY <1>1, <1>2, <1>5, <1>7, <1>9 DEF a, D

(***************************************************************************)
(* The barrier.                                                            *)
(***************************************************************************)
LEMMA MarkedType ==
    ASSUME NEW participants \in SetArgs
    PROVE  /\ Marked(participants) \subseteq Tiles /\ IsFiniteSet(Marked(participants))
           /\ Len(participants) \in Nat
           /\ SetValid(participants) =>
                 /\ Cardinality(Marked(participants)) = Len(participants)
                 /\ Len(participants) \in 1..TileCount
                 /\ Marked(participants) # {}
  <1>1. DOMAIN participants = 1..Len(participants) /\ Len(participants) \in Nat
    BY ConfigTypes
  <1>2. Marked(participants) \subseteq Tiles
    <2> SUFFICES ASSUME NEW x \in Marked(participants)
                 PROVE  x \in Tiles
      OBVIOUS
    <2>1. PICK j \in DOMAIN participants :
              x = participants[j] /\ \A i \in 1..j : ValidTile(participants[i])
      BY DEF Marked
    <2>2. j \in 1..j
      BY <1>1
    <2>3. QED
      BY <2>1, <2>2 DEF ValidTile
  <1>3. IsFiniteSet(Marked(participants))
    BY <1>2, ConfigTypes, FS_Subset
  <1>4. SetValid(participants) =>
           /\ Cardinality(Marked(participants)) = Len(participants)
           /\ Len(participants) \in 1..TileCount
    BY DEF SetValid, SizeValid
  <1>5. SetValid(participants) => Marked(participants) # {}
    BY <1>1, <1>4, FS_EmptySet
  <1>6. QED
    BY <1>1, <1>2, <1>3, <1>4, <1>5

\* A round as it stands when a tile is checked against it.
RoundOpen(b) ==
    /\ b \in BarrierRecords /\ b.active
    /\ b.count = Cardinality(b.expected)
    /\ b.arrived \subseteq b.expected
    /\ b.arrived # b.expected

LEMMA DefinedIsOpen ==
    ASSUME FabricTypes, BarrierConsistent, NEW participants \in SetArgs,
           SetAccepted(participants)
    PROVE  RoundOpen(Defined(participants))
  <1>1. CASE barrier.active
    BY <1>1 DEF Defined, RoundOpen, FabricTypes, BarrierConsistent
  <1>2. CASE ~ barrier.active
    <2>1. SetValid(participants)
      BY <1>2 DEF SetAccepted
    <2> DEFINE m == Marked(participants)
               n == Len(participants)
    <2>2. m \subseteq Tiles /\ n \in 0..TileCount /\ Cardinality(m) = n /\ m # {}
      BY <2>1, MarkedType, ConfigTypes
    <2>3. Defined(participants) = [active |-> TRUE, expected |-> m, count |-> n, arrived |-> {}]
      BY <1>2 DEF Defined
    <2> HIDE DEF m, n
    <2> DEFINE b == [active |-> TRUE, expected |-> m, count |-> n, arrived |-> {}]
    <2>4. /\ b \in BarrierRecords /\ b.active /\ b.expected = m /\ b.count = n
          /\ b.arrived = {}
      BY <2>2 DEF BarrierRecords
    <2>5. QED
      BY <2>2, <2>3, <2>4 DEF RoundOpen
  <1>3. QED
    BY <1>1, <1>2

\* The three calls at the barrier that change it.
LEMMA BadSetFacts ==
    ASSUME FabricTypes, NEW t, NEW participants \in SetArgs, BarrierBadSet(t, participants)
    PROVE  /\ barrier' \in BarrierRecords /\ ~ barrier.active /\ ~ barrier'.active
           /\ UNCHANGED <<queues, carried>>
           /\ counters' = [counters EXCEPT !.invalid = counters.invalid + 1]
  <1>1. /\ ~ barrier.active
        /\ barrier' = IF SizeValid(participants)
                      THEN [barrier EXCEPT !.expected = Marked(participants)]
                      ELSE barrier
        /\ UNCHANGED <<queues, carried>>
        /\ counters' = [counters EXCEPT !.invalid = counters.invalid + 1]
    BY DEF BarrierBadSet
  <1> DEFINE m == Marked(participants)
  <1>2. m \in SUBSET Tiles
    BY MarkedType
  <1> HIDE DEF m
  <1>3. /\ [barrier EXCEPT !.expected = m] \in BarrierRecords
        /\ [barrier EXCEPT !.expected = m].active = barrier.active
    BY <1>2 DEF FabricTypes, BarrierRecords
  <1>4. QED
    BY <1>1, <1>3 DEF FabricTypes, m

LEMMA RefusedFacts ==
    ASSUME FabricTypes, BarrierConsistent, NEW t, NEW participants \in SetArgs,
           BarrierRefused(t, participants)
    PROVE  /\ RoundOpen(barrier')
           /\ barrier.active => barrier' = barrier
           /\ UNCHANGED <<queues, carried>>
           /\ counters' = [counters EXCEPT !.invalid = counters.invalid + 1]
  <1>1. /\ SetAccepted(participants) /\ barrier' = Defined(participants)
        /\ UNCHANGED <<queues, carried>>
        /\ counters' = [counters EXCEPT !.invalid = counters.invalid + 1]
    BY DEF BarrierRefused
  <1>2. QED
    BY <1>1, DefinedIsOpen DEF Defined

\* An arrival that is not the last leaves the round open; the last one is the
\* only one that was missing, and closes it.
LEMMA ArriveFacts ==
    ASSUME FabricTypes, BarrierConsistent, NEW t, NEW participants \in SetArgs,
           BarrierArrive(t, participants)
    PROVE  LET b == Defined(participants) IN
           /\ UNCHANGED <<queues, carried>>
           /\ barrier.active => b = barrier
           /\ \/ /\ barrier' = [b EXCEPT !.arrived = b.arrived \cup {t}]
                 /\ RoundOpen(barrier')
                 /\ barrier'.expected = b.expected
                 /\ barrier'.arrived = b.arrived \cup {t}
                 /\ counters' = [counters EXCEPT !.arrivals = counters.arrivals + 1,
                                                 !.completions = counters.completions + 0]
              \/ /\ barrier' = IdleBarrier
                 /\ b.expected \ b.arrived = {t}
                 /\ counters' = [counters EXCEPT !.arrivals = counters.arrivals + 1,
                                                 !.completions = counters.completions + 1]
  <1> DEFINE b == Defined(participants)
             arrived == b.arrived \cup {t}
             complete == Cardinality(arrived) = b.count
  <1>1. /\ SetAccepted(participants) /\ t \in b.expected /\ t \notin b.arrived
        /\ UNCHANGED <<queues, carried>>
        /\ barrier' = IF complete THEN IdleBarrier ELSE [b EXCEPT !.arrived = arrived]
        /\ counters' = [counters EXCEPT !.arrivals = counters.arrivals + 1,
                            !.completions = counters.completions + (IF complete THEN 1 ELSE 0)]
    BY DEF BarrierArrive
  <1>2. RoundOpen(b) /\ (barrier.active => b = barrier)
    BY <1>1, DefinedIsOpen DEF Defined
  <1> HIDE DEF b
  <1>3. IsFiniteSet(b.expected) /\ arrived \subseteq b.expected /\ b.expected \subseteq Tiles
    <2>1. b.expected \subseteq Tiles /\ arrived \subseteq b.expected
      BY <1>1, <1>2 DEF RoundOpen, BarrierRecords
    <2>2. QED
      BY <2>1, ConfigTypes, FS_Subset
  <1>4. CASE complete
    <2>1. arrived = b.expected
      BY <1>2, <1>3, <1>4, FS_Subset DEF RoundOpen
    <2>2. b.expected \ b.arrived = {t}
      BY <1>1, <2>1
    <2>3. barrier' = IdleBarrier
      BY <1>1, <1>4
    <2>4. counters' = [counters EXCEPT !.arrivals = counters.arrivals + 1,
                                       !.completions = counters.completions + 1]
      BY <1>1, <1>4
    <2>5. QED
      BY <1>1, <1>2, <2>2, <2>3, <2>4 DEF b
  <1>5. CASE ~ complete
    <2>1. arrived # b.expected
      BY <1>2, <1>5 DEF RoundOpen
    <2>2. barrier' = [b EXCEPT !.arrived = arrived]
      BY <1>1, <1>5
    <2>3. counters' = [counters EXCEPT !.arrivals = counters.arrivals + 1,
                                       !.completions = counters.completions + 0]
      BY <1>1, <1>5
    <2> HIDE DEF arrived, complete
    <2>4. /\ RoundOpen(barrier') /\ barrier'.expected = b.expected
          /\ barrier'.arrived = arrived
      BY <1>2, <1>3, <2>1, <2>2 DEF RoundOpen, BarrierRecords
    <2>5. QED
      BY <1>1, <1>2, <2>2, <2>3, <2>4 DEF b, arrived
  <1>6. QED
    BY <1>4, <1>5

(***************************************************************************)
(* Steps that send and receive nothing, and what they count.               *)
(***************************************************************************)
LEMMA OneMore ==
    ASSUME CountersOK, NEW field \in {"full", "invalid"},
           counters' = [counters EXCEPT ![field] = counters[field] + 1]
    PROVE  /\ CountersOK'
           /\ \A f \in CounterFields \ {field} : counters'[f] = counters[f]
           /\ counters'[field] = counters[field] + 1
  <1> DEFINE a == counters[field] + 1
  <1>1. a \in Nat
    BY FieldNames DEF CountersOK
  <1>2. counters' = [counters EXCEPT ![field] = a]
    OBVIOUS
  <1> HIDE DEF a
  <1>3. QED
    BY <1>1, <1>2, FieldNames DEF CountersOK, a

LEMMA EmptyFacts ==
    ASSUME CountersOK, NEW t, NEW attempts \in Nat, ReceiveEmpty(t, attempts)
    PROVE  /\ CountersOK' /\ UNCHANGED <<queues, barrier, carried>>
           /\ \A f \in CounterFields \ {"empty"} : counters'[f] = counters[f]
  <1> DEFINE a == counters.empty + attempts
  <1>1. counters' = [counters EXCEPT !.empty = a] /\ UNCHANGED <<queues, barrier, carried>>
    BY DEF ReceiveEmpty
  <1>2. a \in Nat
    BY CounterTypes
  <1> HIDE DEF a
  <1>3. QED
    BY <1>1, <1>2, FieldNames DEF CountersOK

LEMMA ArrivalCounts ==
    ASSUME CountersOK, NEW n \in {0, 1},
           counters' = [counters EXCEPT !.arrivals = counters.arrivals + 1,
                                        !.completions = counters.completions + n]
    PROVE  /\ CountersOK'
           /\ \A f \in CounterFields \ {"arrivals", "completions"} : counters'[f] = counters[f]
           /\ counters'.completions = counters.completions + n
  <1> DEFINE a == counters.arrivals + 1
             b == counters.completions + n
  <1>1. a \in Nat /\ b \in Nat
    BY CounterTypes
  <1>2. counters' = [counters EXCEPT !.arrivals = a, !.completions = b]
    OBVIOUS
  <1> HIDE DEF a, b
  <1>3. QED
    BY <1>1, <1>2, FieldNames DEF CountersOK, b

LEMMA ZeroCountersOK ==
    ASSUME counters' = ZeroCounters
    PROVE  CountersOK' /\ counters'.sent = 0 /\ counters'.received = 0 /\ counters'.completions = 0
  BY DEF CountersOK, CounterFields, ZeroCounters

(***************************************************************************)
(* The inductive invariant: the types and both statements together.        *)
(***************************************************************************)
FabricInv == FabricTypes /\ PacketsConserved /\ BarrierConsistent

LEMMA InitInv == FabricInit => FabricInv
  <1> SUFFICES ASSUME FabricInit
               PROVE  FabricInv
    OBVIOUS
  <1>1. queues \in [Tiles -> QueueRecords]
    BY ConfigTypes DEF FabricInit, QueueRecords, Slots
  <1>2. barrier \in BarrierRecords /\ ~ barrier.active
    BY ConfigTypes DEF FabricInit, IdleBarrier, BarrierRecords
  <1>3. CountersOK /\ carried = 0 /\ counters.sent = 0 /\ counters.received = 0
    BY DEF FabricInit, CountersOK, CounterFields, ZeroCounters
  <1>4. InFlight(queues) = 0
    <2>1. \A t \in Tiles : Counts(queues)[t] = 0
      BY DEF FabricInit, Counts
    <2>2. Places(Counts(queues)) = {}
      <3> SUFFICES ASSUME NEW x \in Places(Counts(queues))
                   PROVE  FALSE
        OBVIOUS
      <3>1. PICK t \in Tiles, k \in Int : k \in 1..Counts(queues)[t] /\ x = <<t, k>>
        BY PlacesMembers
      <3>2. QED
        BY <2>1, <3>1
    <2>3. QED
      BY <2>2, InFlightPlaces, FS_EmptySet
  <1>5. PacketsConserved
    BY <1>3, <1>4 DEF PacketsConserved
  <1>6. BarrierConsistent
    BY <1>2 DEF BarrierConsistent
  <1>7. QED
    BY <1>1, <1>2, <1>3, <1>5, <1>6 DEF FabricInv, FabricTypes

\* Steps that leave the packets alone.
LEMMA SamePackets ==
    ASSUME PacketsConserved, UNCHANGED <<queues, carried>>,
           counters'.sent = counters.sent, counters'.received = counters.received
    PROVE  PacketsConserved'
  BY DEF PacketsConserved

LEMMA OpenIsConsistent ==
    ASSUME RoundOpen(barrier')
    PROVE  BarrierConsistent'
  BY DEF RoundOpen, BarrierConsistent

LEMMA NextInv == FabricInv /\ [FabricNext]_fabricVars => FabricInv'
  <1> SUFFICES ASSUME FabricInv, [FabricNext]_fabricVars
               PROVE  FabricInv'
    OBVIOUS
  <1>0. /\ FabricTypes /\ PacketsConserved /\ BarrierConsistent /\ CountersOK
        /\ counters.sent \in Nat /\ counters.received \in Nat /\ carried \in Nat
        /\ InFlight(queues) \in Nat
    BY CounterTypes, CountsType DEF FabricInv, FabricTypes
  <1>1. CASE SendKind
    <2>1. PICK s, t : \E size \in SizeArgs, body \in Bodies : Send(s, t, size, body)
      BY <1>1, Zenon DEF SendKind
    <2>2. PICK size \in SizeArgs, body \in Bodies : Send(s, t, size, body)
      BY <2>1
    <2>3. /\ queues' \in [Tiles -> QueueRecords] /\ CountersOK'
          /\ UNCHANGED <<barrier, carried>>
          /\ InFlight(queues') = InFlight(queues) + 1
          /\ \A f \in CounterFields \ {"sent", "bytesSent"} : counters'[f] = counters[f]
          /\ counters'.sent = counters.sent + 1
      BY <1>0, <2>2, SendFacts
    <2>4. counters'.received = counters.received
      BY <2>3, FieldNames
    <2>5. QED
      BY <1>0, <2>3, <2>4 DEF FabricInv, FabricTypes, PacketsConserved, BarrierConsistent
  <1>2. CASE ReceiveKind
    <2>1. PICK t, room : Receive(t, room)
      BY <1>2, Zenon DEF ReceiveKind
    <2>2. /\ queues' \in [Tiles -> QueueRecords] /\ CountersOK'
          /\ UNCHANGED <<barrier, carried>>
          /\ InFlight(queues') + 1 = InFlight(queues)
          /\ \A f \in CounterFields \ {"received", "bytesReceived"} : counters'[f] = counters[f]
          /\ counters'.received = counters.received + 1
      BY <1>0, <2>1, ReceiveFacts
    <2>3. counters'.sent = counters.sent /\ InFlight(queues') \in Nat
      BY <2>2, FieldNames, CountsType, InFlightPlaces, PlacesFinite
    <2>4. QED
      BY <1>0, <2>2, <2>3 DEF FabricInv, FabricTypes, PacketsConserved, BarrierConsistent
  <1>3. CASE BroadcastKind
    <2>1. PICK s : \E group \in GroupArgs, size \in SizeArgs, body \in Bodies :
                      Broadcast(s, group, size, body)
      BY <1>3 DEF BroadcastKind
    <2>2. PICK group \in GroupArgs, size \in SizeArgs, body \in Bodies :
              Broadcast(s, group, size, body)
      BY <2>1
    <2>3. /\ queues' \in [Tiles -> QueueRecords] /\ CountersOK'
          /\ UNCHANGED <<barrier, carried>>
          /\ \E copies \in Nat :
                /\ InFlight(queues') = InFlight(queues) + copies
                /\ counters'.sent = counters.sent + copies
          /\ \A f \in CounterFields \ {"sent", "bytesSent", "broadcast"} :
                counters'[f] = counters[f]
      BY <1>0, <2>2, BroadcastFacts
    <2>4. counters'.received = counters.received
      BY <2>3, FieldNames
    <2>5. QED
      BY <1>0, <2>3, <2>4 DEF FabricInv, FabricTypes, PacketsConserved, BarrierConsistent
  <1>4. CASE BadSetKind
    <2>1. PICK t : \E participants \in SetArgs : BarrierBadSet(t, participants)
      BY <1>4 DEF BadSetKind
    <2>2. PICK participants \in SetArgs : BarrierBadSet(t, participants)
      BY <2>1
    <2>3. /\ barrier' \in BarrierRecords /\ ~ barrier'.active
          /\ UNCHANGED <<queues, carried>>
          /\ counters' = [counters EXCEPT !["invalid"] = counters["invalid"] + 1]
      BY <1>0, <2>2, BadSetFacts
    <2>4. CountersOK' /\ \A f \in CounterFields \ {"invalid"} : counters'[f] = counters[f]
      BY <1>0, <2>3, OneMore
    <2>5. counters'.sent = counters.sent /\ counters'.received = counters.received
      BY <2>4, FieldNames
    <2>6. PacketsConserved' /\ BarrierConsistent'
      BY <1>0, <2>3, <2>5, SamePackets DEF BarrierConsistent
    <2>7. QED
      BY <1>0, <2>3, <2>4, <2>6 DEF FabricInv, FabricTypes
  <1>5. CASE RefusedKind
    <2>1. PICK t : \E participants \in SetArgs : BarrierRefused(t, participants)
      BY <1>5 DEF RefusedKind
    <2>2. PICK participants \in SetArgs : BarrierRefused(t, participants)
      BY <2>1
    <2>3. /\ RoundOpen(barrier') /\ UNCHANGED <<queues, carried>>
          /\ counters' = [counters EXCEPT !["invalid"] = counters["invalid"] + 1]
      BY <1>0, <2>2, RefusedFacts
    <2>4. CountersOK' /\ \A f \in CounterFields \ {"invalid"} : counters'[f] = counters[f]
      BY <1>0, <2>3, OneMore
    <2>5. counters'.sent = counters.sent /\ counters'.received = counters.received
      BY <2>4, FieldNames
    <2>6. PacketsConserved' /\ BarrierConsistent'
      BY <1>0, <2>3, <2>5, SamePackets, OpenIsConsistent
    <2>7. QED
      BY <1>0, <2>3, <2>4, <2>6 DEF FabricInv, FabricTypes, RoundOpen
  <1>6. CASE ArriveKind
    <2>1. PICK t : \E participants \in SetArgs : BarrierArrive(t, participants)
      BY <1>6 DEF ArriveKind
    <2>2. PICK participants \in SetArgs : BarrierArrive(t, participants)
      BY <2>1
    <2>3. /\ UNCHANGED <<queues, carried>>
          /\ RoundOpen(barrier') \/ barrier' = IdleBarrier
          /\ \E n \in {0, 1} :
                counters' = [counters EXCEPT !.arrivals = counters.arrivals + 1,
                                             !.completions = counters.completions + n]
      BY <1>0, <2>2, ArriveFacts
    <2>4. /\ CountersOK'
          /\ \A f \in CounterFields \ {"arrivals", "completions"} : counters'[f] = counters[f]
      BY <1>0, <2>3, ArrivalCounts
    <2>5. counters'.sent = counters.sent /\ counters'.received = counters.received
      BY <2>4, FieldNames
    <2>6. IdleBarrier \in BarrierRecords /\ ~ IdleBarrier.active
      BY ConfigTypes DEF IdleBarrier, BarrierRecords
    <2>7. barrier' \in BarrierRecords /\ BarrierConsistent'
      BY <2>3, <2>6, OpenIsConsistent DEF RoundOpen, BarrierConsistent
    <2>8. QED
      BY <1>0, <2>3, <2>4, <2>5, <2>7, SamePackets DEF FabricInv, FabricTypes
  <1>7. CASE CountKind
    <2>1. PICK field \in {"full", "invalid"} : CountOne(field)
      BY <1>7 DEF CountKind
    <2>2. /\ counters' = [counters EXCEPT ![field] = counters[field] + 1]
          /\ UNCHANGED <<queues, barrier, carried>>
      BY <2>1 DEF CountOne
    <2>3. CountersOK' /\ \A f \in CounterFields \ {field} : counters'[f] = counters[f]
      BY <1>0, <2>2, OneMore
    <2>4. counters'.sent = counters.sent /\ counters'.received = counters.received
      BY <2>3, FieldNames
    <2>5. QED
      BY <1>0, <2>2, <2>3, <2>4, SamePackets DEF FabricInv, FabricTypes, BarrierConsistent
  <1>8. CASE EmptyKind
    <2>1. PICK t : \E attempts \in Nat : ReceiveEmpty(t, attempts)
      BY <1>8 DEF EmptyKind
    <2>2. PICK attempts \in Nat : ReceiveEmpty(t, attempts)
      BY <2>1
    <2>3. /\ CountersOK' /\ UNCHANGED <<queues, barrier, carried>>
          /\ \A f \in CounterFields \ {"empty"} : counters'[f] = counters[f]
      BY <1>0, <2>2, EmptyFacts
    <2>4. counters'.sent = counters.sent /\ counters'.received = counters.received
      BY <2>3, FieldNames
    <2>5. QED
      BY <1>0, <2>3, <2>4, SamePackets DEF FabricInv, FabricTypes, BarrierConsistent
  <1>9. CASE ResetCounters
    <2>1. /\ counters' = ZeroCounters /\ carried' = InFlight(queues)
          /\ UNCHANGED <<queues, barrier>>
      BY <1>9 DEF ResetCounters
    <2>2. CountersOK' /\ counters'.sent = 0 /\ counters'.received = 0
      BY <2>1, ZeroCountersOK
    <2>3. QED
      BY <1>0, <2>1, <2>2 DEF FabricInv, FabricTypes, PacketsConserved, BarrierConsistent
  <1>10. CASE UNCHANGED fabricVars
    BY <1>0, <1>10
       DEF fabricVars, FabricInv, FabricTypes, CountersOK, PacketsConserved, BarrierConsistent
  <1>11. QED
    BY <1>1, <1>2, <1>3, <1>4, <1>5, <1>6, <1>7, <1>8, <1>9, <1>10, StepKinds

\* What a step does to a round under way.
RoundStep ==
    barrier.active =>
        \/ /\ barrier'.active
           /\ barrier'.expected = barrier.expected
           /\ barrier.arrived \subseteq barrier'.arrived
           /\ counters'.completions \in {counters.completions, 0}
        \/ /\ ~barrier'.active
           /\ Cardinality(barrier.expected \ barrier.arrived) = 1
           /\ counters'.completions = counters.completions + 1

LEMMA NextRound == FabricInv /\ [FabricNext]_fabricVars => RoundStep
  <1> SUFFICES ASSUME FabricInv, [FabricNext]_fabricVars, barrier.active
               PROVE  RoundStep
    BY DEF RoundStep
  <1>0. FabricTypes /\ BarrierConsistent /\ CountersOK /\ counters.completions \in Nat
    BY CounterTypes DEF FabricInv, FabricTypes
  <1>1. ASSUME barrier' = barrier, counters'.completions \in {counters.completions, 0}
        PROVE  RoundStep
    BY <1>1 DEF RoundStep
  <1>2. CASE SendKind
    <2>1. PICK s, t : \E size \in SizeArgs, body \in Bodies : Send(s, t, size, body)
      BY <1>2, Zenon DEF SendKind
    <2>2. /\ barrier' = barrier
          /\ \A f \in CounterFields \ {"sent", "bytesSent"} : counters'[f] = counters[f]
      BY <1>0, <2>1, SendFacts
    <2>3. QED
      BY <1>1, <2>2, FieldNames
  <1>3. CASE ReceiveKind
    <2>1. PICK t, room : Receive(t, room)
      BY <1>3, Zenon DEF ReceiveKind
    <2>2. /\ barrier' = barrier
          /\ \A f \in CounterFields \ {"received", "bytesReceived"} : counters'[f] = counters[f]
      BY <1>0, <2>1, ReceiveFacts
    <2>3. QED
      BY <1>1, <2>2, FieldNames
  <1>4. CASE BroadcastKind
    <2>1. PICK s : \E group \in GroupArgs, size \in SizeArgs, body \in Bodies :
                      Broadcast(s, group, size, body)
      BY <1>4 DEF BroadcastKind
    <2>2. /\ barrier' = barrier
          /\ \A f \in CounterFields \ {"sent", "bytesSent", "broadcast"} :
                counters'[f] = counters[f]
      BY <1>0, <2>1, BroadcastFacts
    <2>3. QED
      BY <1>1, <2>2, FieldNames
  <1>5. CASE BadSetKind
    BY <1>0, <1>5, BadSetFacts DEF BadSetKind
  <1>6. CASE RefusedKind
    <2>1. PICK t : \E participants \in SetArgs : BarrierRefused(t, participants)
      BY <1>6 DEF RefusedKind
    <2>2. /\ barrier' = barrier
          /\ counters' = [counters EXCEPT !["invalid"] = counters["invalid"] + 1]
      BY <1>0, <2>1, RefusedFacts
    <2>3. \A f \in CounterFields \ {"invalid"} : counters'[f] = counters[f]
      BY <1>0, <2>2, OneMore
    <2>4. QED
      BY <1>1, <2>2, <2>3, FieldNames
  <1>7. CASE ArriveKind
    <2>1. PICK t : \E participants \in SetArgs : BarrierArrive(t, participants)
      BY <1>7 DEF ArriveKind
    <2>2. PICK participants \in SetArgs : BarrierArrive(t, participants)
      BY <2>1
    <2> DEFINE b == Defined(participants)
    <2>3. b = barrier
      BY <1>0, <2>2, ArriveFacts
    <2>4. CASE /\ RoundOpen(barrier')
               /\ barrier'.expected = b.expected
               /\ barrier'.arrived = b.arrived \cup {t}
               /\ counters' = [counters EXCEPT !.arrivals = counters.arrivals + 1,
                                               !.completions = counters.completions + 0]
      <3>1. counters'.completions = counters.completions + 0
        BY <1>0, <2>4, ArrivalCounts
      <3>2. barrier'.active
        BY <2>4 DEF RoundOpen
      <3>3. counters'.completions = counters.completions
        BY <1>0, <3>1
      <3>4. /\ barrier'.expected = barrier.expected
            /\ barrier.arrived \subseteq barrier'.arrived
        BY <2>3, <2>4
      <3>5. QED
        BY <3>2, <3>3, <3>4 DEF RoundStep
    <2>5. CASE /\ barrier' = IdleBarrier
               /\ b.expected \ b.arrived = {t}
               /\ counters' = [counters EXCEPT !.arrivals = counters.arrivals + 1,
                                               !.completions = counters.completions + 1]
      <3>1. counters'.completions = counters.completions + 1
        BY <1>0, <2>5, ArrivalCounts
      <3>2. ~ barrier'.active
        BY <2>5 DEF IdleBarrier
      <3>3. Cardinality(barrier.expected \ barrier.arrived) = 1
        BY <2>3, <2>5, FS_Singleton
      <3>4. QED
        BY <3>1, <3>2, <3>3 DEF RoundStep
    <2>6. QED
      BY <1>0, <2>2, <2>4, <2>5, ArriveFacts
  <1>8. CASE CountKind
    <2>1. PICK field \in {"full", "invalid"} : CountOne(field)
      BY <1>8 DEF CountKind
    <2>2. /\ counters' = [counters EXCEPT ![field] = counters[field] + 1]
          /\ UNCHANGED <<queues, barrier, carried>>
      BY <2>1 DEF CountOne
    <2>3. \A f \in CounterFields \ {field} : counters'[f] = counters[f]
      BY <1>0, <2>2, OneMore
    <2>4. QED
      BY <1>1, <2>2, <2>3, FieldNames
  <1>9. CASE EmptyKind
    <2>1. PICK t : \E attempts \in Nat : ReceiveEmpty(t, attempts)
      BY <1>9 DEF EmptyKind
    <2>2. /\ barrier' = barrier
          /\ \A f \in CounterFields \ {"empty"} : counters'[f] = counters[f]
      BY <1>0, <2>1, EmptyFacts
    <2>3. QED
      BY <1>1, <2>2, FieldNames
  <1>10. CASE ResetCounters
    <2>1. counters' = ZeroCounters /\ barrier' = barrier
      BY <1>10 DEF ResetCounters
    <2>2. QED
      BY <1>1, <2>1, ZeroCountersOK
  <1>11. CASE UNCHANGED fabricVars
    BY <1>1, <1>11 DEF fabricVars
  <1>12. QED
    BY <1>2, <1>3, <1>4, <1>5, <1>6, <1>7, <1>8, <1>9, <1>10, <1>11, StepKinds

(***************************************************************************)
(* Theorems about every fabric, whatever groups are passed to broadcast.   *)
(***************************************************************************)

\* Packets, counters and barrier marks keep their ranges, and both statements
\* below hold in every reachable state.
THEOREM FabricInductive == FabricSpec => []FabricInv
  BY InitInv, NextInv, PTL DEF FabricSpec

\* Every packet counted as sent, with those queued at the last reset, is counted
\* as received or still queued (att1_fabric_send, _broadcast, _receive,
\* _reset_counters), also where a group names a tile more than once.
THEOREM NoPacketLost == FabricSpec => []PacketsConserved
  BY FabricInductive, PTL DEF FabricInv

\* A round under way has as many participants as att1_fabric_barrier_arrive
\* counts up to, only they have arrived, and one of them is missing.
THEOREM RoundsAreOpen == FabricSpec => []BarrierConsistent
  BY FabricInductive, PTL DEF FabricInv

\* A round keeps its participants and ends with the arrival of the last one only
\* (att1_fabric_barrier_arrive).
THEOREM RoundsEndByArrival == FabricSpec => RoundCompletes
  <1>1. FabricInv /\ [FabricNext]_fabricVars => [RoundStep]_fabricVars
    BY NextRound
  <1>2. FabricSpec => [][RoundStep]_fabricVars
    BY <1>1, FabricInductive, PTL DEF FabricSpec
  <1>3. QED
    BY <1>2, PTL DEF RoundCompletes, RoundStep

(***************************************************************************)
(* The rings as inboxes.  The preflight of a broadcast looks for one free  *)
(* place for each entry of the group; a group that names a tile twice may  *)
(* take two.  What follows is about callers that name each tile once.      *)
(***************************************************************************)
GroupsDistinct ==
    \A group \in GroupArgs : \A j, k \in DOMAIN group : group[j] = group[k] => j = k

InboxOf(q) == [k \in 1..q.count |-> q.slots[(q.head + k - 1) % QueueCapacity]]

RingOK(q) ==
    /\ q \in QueueRecords
    /\ q.count <= QueueCapacity
    /\ \A k \in 1..q.count : InboxOf(q)[k] \in Packets

LEMMA InboxIsInboxOf == \A t : Inbox(t) = InboxOf(queues[t])
  BY DEF Inbox, InboxOf

LEMMA InboxShape ==
    ASSUME NEW q, RingOK(q)
    PROVE  /\ InboxOf(q) \in Seq(Packets) /\ Len(InboxOf(q)) = q.count
           /\ q.head \in Slots /\ q.head \in Int /\ q.count \in Nat
           /\ q.slots \in [Slots -> Packets \cup {NoPacket}]
  <1>1. /\ q.head \in Slots /\ q.head \in Int /\ q.count \in Nat
        /\ q.slots \in [Slots -> Packets \cup {NoPacket}]
    BY ConfigTypes DEF RingOK, QueueRecords, Slots
  <1>2. \A k \in 1..q.count : InboxOf(q)[k] \in Packets
    BY DEF RingOK
  <1> DEFINE n == q.count
             f == [k \in 1..n |-> q.slots[(q.head + k - 1) % QueueCapacity]]
  <1>3. InboxOf(q) = f /\ DOMAIN f = 1..n
    BY DEF InboxOf
  <1> HIDE DEF f
  <1>4. n \in Nat /\ \A k \in 1..n : f[k] \in Packets
    BY <1>1, <1>2, <1>3
  <1> HIDE DEF n
  <1>5. f = [k \in 1..n |-> f[k]]
    BY <1>3 DEF f
  <1>6. f \in Seq(Packets) /\ Len(f) = n
    BY <1>4, <1>5
  <1>7. QED
    BY <1>1, <1>3, <1>6 DEF n

\* One more packet, behind all others.
LEMMA EnqueuedOne ==
    ASSUME NEW q, RingOK(q), q.count < QueueCapacity, NEW p \in Packets
    PROVE  LET r == Enqueued(q, 1, p) IN
           /\ RingOK(r)
           /\ Len(InboxOf(r)) = Len(InboxOf(q)) + 1
           /\ \A k \in 1..Len(InboxOf(q)) : InboxOf(r)[k] = InboxOf(q)[k]
           /\ InboxOf(r)[Len(InboxOf(q)) + 1] = p
  <1> DEFINE r == Enqueued(q, 1, p)
             n == q.count
             h == q.head
             last == (h + n) % QueueCapacity
  <1>1. /\ h \in 0..QueueCapacity - 1 /\ n \in Nat /\ n < QueueCapacity
        /\ q.slots \in [Slots -> Packets \cup {NoPacket}] /\ q \in QueueRecords
        /\ QueueCapacity \in Nat \ {0}
    BY InboxShape, ConfigTypes DEF RingOK, Slots
  <1>2. r \in QueueRecords /\ r.count = n + 1 /\ r.head = h
    BY <1>1, EnqueuedType
  <1>3. last \in Slots
    <2>1. n \in 0..QueueCapacity
      BY <1>1
    <2>2. QED
      BY <1>1, <2>1, SlotAhead DEF Slots
  <1>4. /\ \A i \in 0..QueueCapacity - 1 : i # last => r.slots[i] = q.slots[i]
        /\ r.slots[last] = p
    <2>1. \A k : (\E j \in 0..1 - 1 : k = (h + n + j) % QueueCapacity) <=> k = last
      <3>1. \A j \in 0..1 - 1 : j = 0
        OBVIOUS
      <3>2. 0 \in 0..1 - 1 /\ h + n + 0 = h + n
        BY <1>1
      <3>3. QED
        BY <3>1, <3>2
    <2>2. r.slots = [k \in Slots |->
                       IF \E j \in 0..1 - 1 : k = (h + n + j) % QueueCapacity
                       THEN p ELSE q.slots[k]]
      BY DEF Enqueued
    <2> HIDE DEF r, last
    <2>3. QED
      BY <1>3, <2>1, <2>2 DEF Slots
  <1>5. /\ DOMAIN InboxOf(q) = 1..n /\ Len(InboxOf(q)) = n
        /\ DOMAIN InboxOf(r) = 1..n + 1 /\ Len(InboxOf(r)) = n + 1
    BY <1>1, <1>2 DEF InboxOf
  \* The slot behind the last is none of those in use.
  <1>6. \A k \in 1..n : InboxOf(r)[k] = InboxOf(q)[k]
    <2> TAKE k \in 1..n
    <2> DEFINE slot == (h + k - 1) % QueueCapacity
    <2>1. PICK j \in 0..QueueCapacity : j = k - 1 /\ h + k - 1 = h + j /\ j < n
      BY <1>1
    <2>2. n \in 0..QueueCapacity /\ n - j < QueueCapacity
      BY <1>1, <2>1
    <2>3. (h + j) % QueueCapacity # (h + n) % QueueCapacity
      BY <1>1, <2>1, <2>2, SlotsApart, Zenon
    <2>4. (h + j) % QueueCapacity \in 0..QueueCapacity - 1
      BY <1>1, SlotAhead
    <2>5. slot \in 0..QueueCapacity - 1 /\ slot # last
      BY <2>1, <2>3, <2>4
    <2>6. k \in 1..n + 1
      BY <1>1
    <2>7. InboxOf(r)[k] = r.slots[slot] /\ InboxOf(q)[k] = q.slots[slot]
      BY <1>2, <2>6 DEF InboxOf
    <2>8. QED
      BY <1>4, <2>5, <2>7
  <1>7. InboxOf(r)[n + 1] = p
    <2>1. n + 1 \in 1..n + 1 /\ h + (n + 1) - 1 = h + n
      BY <1>1
    <2>2. InboxOf(r)[n + 1] = r.slots[last]
      BY <1>2, <2>1 DEF InboxOf
    <2>3. QED
      BY <1>4, <2>2
  <1> HIDE DEF r, n, h, last
  <1>8. RingOK(r)
    <2>1. \A k \in 1..n + 1 : k \in 1..n \/ k = n + 1
      BY <1>1
    <2>2. \A k \in 1..n : InboxOf(q)[k] \in Packets
      BY DEF RingOK, n
    <2>3. \A k \in 1..n + 1 : InboxOf(r)[k] \in Packets
      BY <1>6, <1>7, <2>1, <2>2
    <2>4. n + 1 <= QueueCapacity
      BY <1>1
    <2>5. QED
      BY <1>2, <2>3, <2>4 DEF RingOK
  <1>9. QED
    BY <1>5, <1>6, <1>7, <1>8 DEF r

LEMMA EnqueuedNone ==
    ASSUME NEW q \in QueueRecords, NEW p
    PROVE  Enqueued(q, 0, p) = q
  <1>1. /\ q = [head |-> q.head, count |-> q.count, slots |-> q.slots]
        /\ q.count \in Nat /\ q.slots \in [Slots -> Packets \cup {NoPacket}]
    BY DEF QueueRecords
  <1>2. \A k : ~ (\E j \in 0..0 - 1 : k = (q.head + q.count + j) % QueueCapacity)
    OBVIOUS
  <1>3. q.slots = [k \in Slots |->
                     IF \E j \in 0..0 - 1 : k = (q.head + q.count + j) % QueueCapacity
                     THEN p ELSE q.slots[k]]
    BY <1>1, <1>2
  <1>4. q.count + 0 = q.count
    BY <1>1
  <1>5. QED
    BY <1>1, <1>3, <1>4, Zenon DEF Enqueued

\* The oldest packet taken.
LEMMA TakenOne ==
    ASSUME NEW q, RingOK(q), q.count > 0, Taken(q) \in QueueRecords
    PROVE  /\ RingOK(Taken(q))
           /\ q.slots[q.head] = InboxOf(q)[1] /\ q.slots[q.head] \in Packets
           /\ InboxOf(q) # <<>>
           /\ InboxOf(Taken(q)) = Tail(InboxOf(q))
  <1> DEFINE r == Taken(q)
             n == q.count
             h == q.head
             b == (h + 1) % QueueCapacity
             ring == q.slots
             ring2 == [ring EXCEPT ![h] = NoPacket]
  <1>1. /\ h \in 0..QueueCapacity - 1 /\ n \in Nat \ {0} /\ n <= QueueCapacity
        /\ ring \in [Slots -> Packets \cup {NoPacket}] /\ QueueCapacity \in Nat \ {0}
        /\ InboxOf(q) \in Seq(Packets) /\ Len(InboxOf(q)) = n
    BY InboxShape, ConfigTypes DEF RingOK, Slots
  <1>2. r.head = b /\ r.count = n - 1 /\ r.slots = ring2
    BY DEF Taken
  <1>3. /\ b \in 0..QueueCapacity - 1 /\ b = (h + 1) % QueueCapacity
        /\ b = IF h + 1 < QueueCapacity THEN h + 1 ELSE h + 1 - QueueCapacity
    <2>1. 1 \in 0..QueueCapacity
      BY <1>1
    <2>2. QED
      BY <1>1, <2>1, SlotAhead
  <1>4. h % QueueCapacity = h
    <2>1. 0 \in 0..QueueCapacity /\ h + 0 = h /\ h + 0 < QueueCapacity
      BY <1>1
    <2>2. QED
      BY <1>1, <2>1, SlotAhead
  <1> HIDE DEF r, b, n, h, ring, ring2
  \* The slot that is cleared is none of those that remain.
  <1>5. \A k \in 1..n - 1 : InboxOf(r)[k] = InboxOf(q)[k + 1]
    <2> TAKE k \in 1..n - 1
    <2> DEFINE slot == (b + k - 1) % QueueCapacity
    <2>1. PICK j \in 0..QueueCapacity - 1 : j = k - 1 /\ b + k - 1 = b + j
      BY <1>1, <1>3
    <2>2. PICK m \in 0..QueueCapacity : m = j + 1 /\ h + (k + 1) - 1 = h + m
      BY <1>1, <2>1
    <2>3. (b + j) % QueueCapacity = (h + m) % QueueCapacity
      <3>1. m = j + 1 /\ b = (h + 1) % QueueCapacity /\ b \in 0..QueueCapacity - 1
        BY <1>3, <2>2
      <3>2. h \in 0..QueueCapacity - 1 /\ QueueCapacity \in Nat \ {0}
        BY <1>1
      <3>3. QED
        BY <3>1, <3>2, SlotNext
    <2>4. (h + m) % QueueCapacity \in 0..QueueCapacity - 1 /\ (h + m) % QueueCapacity # h
      <3>1. (h + m) % QueueCapacity \in 0..QueueCapacity - 1
        BY <1>1, SlotAhead, Zenon
      <3>2. PICK z \in 0..QueueCapacity : z = 0 /\ h + z = h /\ z < m /\ m - z < QueueCapacity
        BY <1>1, <2>1, <2>2
      <3>3. (h + z) % QueueCapacity # (h + m) % QueueCapacity
        BY <1>1, <3>2, SlotsApart, Zenon
      <3>4. QED
        BY <1>4, <3>1, <3>2, <3>3
    <2>5. slot \in Slots /\ slot # h /\ slot = (h + (k + 1) - 1) % QueueCapacity
      BY <2>1, <2>2, <2>3, <2>4 DEF Slots
    <2>6. k + 1 \in 1..n
      BY <1>1
    <2>7. InboxOf(q)[k + 1] = ring[slot]
      BY <2>5, <2>6 DEF InboxOf, n, h, ring
    <2>8. InboxOf(r)[k] = ring2[slot]
      BY <1>2 DEF InboxOf
    <2> HIDE DEF slot
    <2>9. ring2[slot] = ring[slot]
      BY <1>1, <2>5 DEF ring2
    <2>10. QED
      BY <2>7, <2>8, <2>9
  <1>6. \A k \in 1..n : InboxOf(q)[k] \in Packets
    BY DEF RingOK, n
  <1>7. \A k \in 1..n - 1 : k + 1 \in 1..n
    BY <1>1
  <1>8. \A k \in 1..n - 1 : InboxOf(r)[k] \in Packets
    BY <1>5, <1>6, <1>7
  <1>9. n - 1 \in Nat /\ n - 1 <= QueueCapacity
    BY <1>1
  <1>10. RingOK(r)
    BY <1>2, <1>8, <1>9 DEF RingOK, r
  <1>11. InboxOf(r) \in Seq(Packets) /\ Len(InboxOf(r)) = n - 1
    BY <1>2, <1>10, InboxShape
  <1>12. ring[h] = InboxOf(q)[1] /\ ring[h] \in Packets
    <2>1. 1 \in 1..n /\ h + 1 - 1 = h
      BY <1>1
    <2>2. InboxOf(q)[1] = ring[(h + 1 - 1) % QueueCapacity]
      BY <2>1 DEF InboxOf, n, h, ring
    <2>3. QED
      BY <1>4, <1>6, <2>1, <2>2
  <1> DEFINE u == InboxOf(q)
             v == InboxOf(r)
  <1>13. /\ u \in Seq(Packets) /\ v \in Seq(Packets) /\ Len(u) # 0 /\ Len(v) = Len(u) - 1
         /\ \A k \in 1..Len(u) - 1 : v[k] = u[k + 1]
    BY <1>1, <1>5, <1>11
  <1> HIDE DEF u, v
  <1>14. u # <<>> /\ v = Tail(u)
    <2>1. u # <<>> /\ Tail(u) \in Seq(Packets) /\ Len(Tail(u)) = Len(u) - 1
      BY <1>13
    <2>2. \A k \in 1..Len(u) - 1 : Tail(u)[k] = u[k + 1]
      BY <1>13
    <2>3. QED
      BY <1>13, <2>1, <2>2
  <1>15. QED
    BY <1>10, <1>12, <1>14 DEF u, v, r, n, h, ring

(***************************************************************************)
(* Each step as a step of the first-in first-out inboxes.                  *)
(***************************************************************************)
Inboxes == [t \in Tiles |-> Inbox(t)]
Refusals == counters.full + counters.invalid

RingInv ==
    /\ FabricTypes
    /\ \A t \in Tiles : RingOK(queues[t])
    /\ counters.bytesReceived \in Nat

Packet(s, t, size, body) == [source |-> s, target |-> t, size |-> size, body |-> body]

LEMMA PacketType ==
    ASSUME NEW s \in Tiles, NEW t \in Tiles, NEW size \in 0..MaxPayload, NEW body \in Bodies
    PROVE  /\ Packet(s, t, size, body) \in Packets
           /\ Packet(s, t, size, body).target = t /\ Packet(s, t, size, body).source = s
           /\ \A u : [Packet(s, t, size, body) EXCEPT !.target = u] = Packet(s, u, size, body)
  BY DEF Packet, Packets

LEMMA InboxesAt == \A t \in Tiles : Inboxes[t] = InboxOf(queues[t])
  BY InboxIsInboxOf DEF Inboxes

LEMMA InboxesAtNext == \A t \in Tiles : Inboxes'[t] = InboxOf(queues'[t])
  <1>1. (\A t \in Tiles : Inboxes[t] = InboxOf(queues[t]))'
    BY InboxesAt, PTL
  <1>2. QED
    BY <1>1

\* The same packet, but for its target, put behind the others in the rings of D.
LEMMA DeliverStep ==
    ASSUME RingInv, NEW D \in SUBSET Tiles, NEW s \in Tiles, NEW size \in 0..MaxPayload,
           NEW body \in Bodies,
           \A t \in D : /\ queues[t].count < QueueCapacity
                        /\ queues'[t] = Enqueued(queues[t], 1, Packet(s, t, size, body)),
           \A t \in Tiles \ D : queues'[t] = queues[t],
           \A t, u \in D : t # u => s \notin D,
           Refusals' = Refusals
    PROVE  /\ \A t \in Tiles : RingOK(queues'[t])
           /\ Fifo!FifoNext
  <1>1. ASSUME NEW t \in D
        PROVE  /\ RingOK(queues'[t])
               /\ Len(Inboxes[t]) < QueueCapacity
               /\ Len(Inboxes'[t]) = Len(Inboxes[t]) + 1
               /\ \A k \in 1..Len(Inboxes[t]) : Inboxes'[t][k] = Inboxes[t][k]
               /\ Inboxes'[t][Len(Inboxes[t]) + 1] = Packet(s, t, size, body)
    <2> DEFINE q == queues[t]
               p == Packet(s, t, size, body)
    <2>1. t \in Tiles /\ RingOK(q) /\ q.count < QueueCapacity /\ queues'[t] = Enqueued(q, 1, p)
      BY DEF RingInv
    <2>2. p \in Packets
      BY <2>1, PacketType
    <2>3. Inboxes[t] = InboxOf(q) /\ Inboxes'[t] = InboxOf(Enqueued(q, 1, p))
      BY <2>1, InboxesAt, InboxesAtNext
    <2> HIDE DEF p, q
    <2>4. Len(InboxOf(q)) = q.count
      BY <2>1, InboxShape
    <2>5. /\ RingOK(Enqueued(q, 1, p))
          /\ Len(InboxOf(Enqueued(q, 1, p))) = Len(InboxOf(q)) + 1
          /\ \A k \in 1..Len(InboxOf(q)) :
                InboxOf(Enqueued(q, 1, p))[k] = InboxOf(q)[k]
          /\ InboxOf(Enqueued(q, 1, p))[Len(InboxOf(q)) + 1] = p
      BY <2>1, <2>2, EnqueuedOne
    <2>6. QED
      BY <2>1, <2>3, <2>4, <2>5 DEF p
  <1>2. ASSUME NEW t \in Tiles \ D
        PROVE  RingOK(queues'[t]) /\ Inboxes'[t] = Inboxes[t]
    BY InboxesAt, InboxesAtNext DEF RingInv
  <1>3. \A t, u \in D : [Inboxes'[t][Len(Inboxes[t]) + 1] EXCEPT !.target = u]
                            = Inboxes'[u][Len(Inboxes[u]) + 1]
    <2> TAKE t, u \in D
    <2>1. [Packet(s, t, size, body) EXCEPT !.target = u] = Packet(s, u, size, body)
      BY PacketType
    <2>2. QED
      BY <1>1, <2>1
  <1>4. \A t \in D : /\ Inboxes'[t][Len(Inboxes[t]) + 1].target = t
                     /\ Inboxes'[t][Len(Inboxes[t]) + 1].source = s
    BY <1>1, PacketType
  <1>5. /\ \A t \in D : Len(Inboxes[t]) < QueueCapacity
        /\ \A t \in Tiles \ D : Inboxes'[t] = Inboxes[t]
        /\ \A t \in D :
              /\ Len(Inboxes'[t]) = Len(Inboxes[t]) + 1
              /\ \A k \in 1..Len(Inboxes[t]) : Inboxes'[t][k] = Inboxes[t][k]
              /\ Inboxes'[t][Len(Inboxes[t]) + 1].target = t
        /\ \A t, u \in D : [Inboxes'[t][Len(Inboxes[t]) + 1] EXCEPT !.target = u]
                               = Inboxes'[u][Len(Inboxes[u]) + 1]
        /\ \A t, u \in D : t # u => Inboxes'[t][Len(Inboxes[t]) + 1].source \notin D
        /\ Refusals' = Refusals
    BY <1>1, <1>2, <1>3, <1>4
  <1>6. Fifo!Deliver(D)
    BY <1>5, Zenon DEF Fifo!Deliver, Inboxes, Refusals
  <1>7. Fifo!FifoNext
    BY <1>6 DEF Fifo!FifoNext
  <1>8. QED
    BY <1>1, <1>2, <1>7

\* Steps that leave the rings alone are refusals, resets, or no steps at all.
LEMMA SameRings ==
    ASSUME RingInv, queues' = queues
    PROVE  /\ \A t \in Tiles : RingOK(queues'[t])
           /\ Refusals' = Refusals + 1 \/ Refusals' = 0 => Fifo!FifoNext
           /\ Refusals' = Refusals => UNCHANGED <<Inboxes, Refusals>>
  <1>1. Inboxes' = Inboxes
    BY DEF Inboxes, Inbox
  <1>2. Refusals' = Refusals + 1 => Fifo!Refuse
    BY <1>1, Zenon DEF Fifo!Refuse, Inboxes, Refusals
  <1>3. Refusals' = 0 => Fifo!Forget
    BY <1>1, Zenon DEF Fifo!Forget, Inboxes, Refusals
  <1>4. QED
    BY <1>1, <1>2, <1>3 DEF Fifo!FifoNext, RingInv

LEMMA TakeStep ==
    ASSUME RingInv, NEW t, NEW room, Receive(t, room), Refusals' = Refusals
    PROVE  /\ \A u \in Tiles : RingOK(queues'[u])
           /\ Oldest(t) \in Packets
           /\ Fifo!FifoNext
  <1> DEFINE q == queues[t]
  <1>1. /\ t \in Tiles /\ q.count > 0 /\ RingOK(q)
        /\ queues' = [queues EXCEPT ![t] = Taken(q)]
        /\ Taken(q) \in QueueRecords
    BY ReceiveRing DEF RingInv, FabricTypes
  <1>2. DOMAIN queues = Tiles
    BY DEF RingInv, FabricTypes
  <1>3. Inboxes[t] = InboxOf(q) /\ Inboxes'[t] = InboxOf(Taken(q))
    BY <1>1, <1>2, InboxesAt, InboxesAtNext
  <1>4. Oldest(t) = q.slots[q.head]
    BY DEF Oldest
  <1>5. \A u \in Tiles : u # t => queues'[u] = queues[u]
    BY <1>1, <1>2
  <1>6. queues'[t] = Taken(q)
    BY <1>1, <1>2
  <1> HIDE DEF q
  <1>7. /\ RingOK(Taken(q)) /\ q.slots[q.head] \in Packets
        /\ InboxOf(q) # <<>> /\ InboxOf(Taken(q)) = Tail(InboxOf(q))
    BY <1>1, TakenOne
  <1>8. Inboxes' = [Inboxes EXCEPT ![t] = Tail(Inboxes[t])]
    <2>1. \A u \in Tiles : u # t => Inboxes'[u] = Inboxes[u]
      BY <1>5, InboxesAt, InboxesAtNext
    <2>2. DOMAIN Inboxes = Tiles /\ DOMAIN Inboxes' = Tiles
      BY DEF Inboxes
    <2>3. Inboxes' = [u \in Tiles |-> Inboxes'[u]]
      BY DEF Inboxes
    <2>4. Inboxes'[t] = Tail(Inboxes[t])
      BY <1>3, <1>7
    <2> DEFINE f == Inboxes
               g == Inboxes'
    <2>5. /\ f = [u \in Tiles |-> f[u]] /\ g = [u \in Tiles |-> g[u]]
          /\ g[t] = Tail(f[t]) /\ \A u \in Tiles : u # t => g[u] = f[u]
      BY <2>1, <2>3, <2>4 DEF Inboxes
    <2> HIDE DEF f, g
    <2>6. g = [f EXCEPT ![t] = Tail(f[t])]
      BY <1>1, <2>5
    <2>7. QED
      BY <2>6 DEF f, g
  <1>9. Inboxes[t] # <<>>
    BY <1>3, <1>7
  <1>10. Fifo!Take(t)
    BY <1>8, <1>9, Zenon DEF Fifo!Take, Inboxes, Refusals
  <1>11. \A u \in Tiles : RingOK(queues'[u])
    BY <1>5, <1>6, <1>7 DEF RingInv
  <1>12. QED
    BY <1>1, <1>4, <1>7, <1>10, <1>11 DEF Fifo!FifoNext

\* Each destination is named once, so it gets one packet, and has room for it.
LEMMA BroadcastRings ==
    ASSUME GroupsDistinct, RingInv, NEW s, NEW group \in GroupArgs, NEW size \in SizeArgs,
           NEW body \in Bodies, Broadcast(s, group, size, body), Refusals' = Refusals
    PROVE  /\ \A t \in Tiles : RingOK(queues'[t])
           /\ Fifo!FifoNext
  <1> DEFINE D == {t \in Tiles \ {s} : \E k \in DOMAIN group : group[k] = t}
  <1>1. /\ s \in Tiles /\ size \in 0..MaxPayload
        /\ \A k \in DOMAIN group : group[k] \in Tiles /\ (group[k] = s \/ HasRoom(group[k]))
        /\ queues' = [t \in Tiles |->
                        IF t = s THEN queues[t]
                        ELSE Enqueued(queues[t], Times(t, group), Packet(s, t, size, body))]
    BY ConfigTypes DEF Broadcast, ValidTile, PreflightPasses, Passes, Packet
  <1>2. ASSUME NEW t \in D
        PROVE  /\ queues[t].count < QueueCapacity
               /\ queues'[t] = Enqueued(queues[t], 1, Packet(s, t, size, body))
    <2>1. PICK k \in DOMAIN group : group[k] = t
      OBVIOUS
    <2>2. t \in Tiles /\ t # s
      OBVIOUS
    <2>3. queues[t].count < QueueCapacity
      BY <1>1, <2>1, <2>2 DEF HasRoom
    <2>4. \A j \in DOMAIN group : group[j] = t => j = k
      BY <2>1 DEF GroupsDistinct
    <2>5. {j \in DOMAIN group : group[j] = t} = {k}
      BY <2>1, <2>4
    <2>6. Times(t, group) = 1
      BY <2>5, FS_Singleton DEF Times
    <2>7. QED
      BY <1>1, <2>2, <2>3, <2>6
  <1>3. ASSUME NEW t \in Tiles \ D
        PROVE  queues'[t] = queues[t]
    <2>1. CASE t = s
      BY <1>1, <2>1
    <2>2. CASE t # s
      <3>1. {k \in DOMAIN group : group[k] = t} = {}
        BY <2>2
      <3>2. Times(t, group) = 0
        BY <3>1, FS_EmptySet DEF Times
      <3>3. queues[t] \in QueueRecords
        BY DEF RingInv, FabricTypes
      <3>4. Enqueued(queues[t], 0, Packet(s, t, size, body)) = queues[t]
        BY <3>3, EnqueuedNone
      <3>5. QED
        BY <1>1, <2>2, <3>2, <3>4
    <2>3. QED
      BY <2>1, <2>2
  <1>4. D \in SUBSET Tiles /\ s \notin D
    OBVIOUS
  <1> HIDE DEF D
  <1>5. QED
    BY <1>1, <1>2, <1>3, <1>4, DeliverStep

LEMMA SendRing ==
    ASSUME RingInv, NEW s, NEW t, NEW size \in SizeArgs, NEW body \in Bodies,
           Send(s, t, size, body), Refusals' = Refusals
    PROVE  /\ \A u \in Tiles : RingOK(queues'[u])
           /\ Fifo!FifoNext
  <1> DEFINE D == {t}
  <1>1. /\ s \in Tiles /\ t \in Tiles /\ size \in 0..MaxPayload
        /\ queues[t].count < QueueCapacity
        /\ queues' = [queues EXCEPT ![t] = Enqueued(queues[t], 1, Packet(s, t, size, body))]
    BY ConfigTypes DEF Send, ValidTile, HasRoom, Packet
  <1>2. DOMAIN queues = Tiles
    BY DEF RingInv, FabricTypes
  <1>3. /\ \A u \in D : /\ queues[u].count < QueueCapacity
                        /\ queues'[u] = Enqueued(queues[u], 1, Packet(s, u, size, body))
        /\ \A u \in Tiles \ D : queues'[u] = queues[u]
        /\ \A u, v \in D : u # v => s \notin D
        /\ D \in SUBSET Tiles
    BY <1>1, <1>2
  <1> HIDE DEF D
  <1>4. QED
    BY <1>1, <1>3, DeliverStep

\* The inductive invariant together with the rings, and what a step does to the inboxes.
RingsHold == FabricInv /\ RingInv

LEMMA RefusalFields ==
    ASSUME counters'["full"] = counters["full"], counters'["invalid"] = counters["invalid"]
    PROVE  Refusals' = Refusals
  BY DEF Refusals

LEMMA RingInit == FabricInit => RingsHold /\ Fifo!FifoInit
  <1> SUFFICES ASSUME FabricInit
               PROVE  RingsHold /\ Fifo!FifoInit
    OBVIOUS
  <1>1. FabricInv
    BY InitInv
  <1>2. counters.bytesReceived = 0 /\ counters.full + counters.invalid = 0
    BY DEF FabricInit, ZeroCounters
  <1>3. \A t \in Tiles : queues[t].count = 0 /\ queues[t] \in QueueRecords
    BY <1>1 DEF FabricInit, FabricInv, FabricTypes
  <1>4. \A t \in Tiles : RingOK(queues[t])
    BY <1>3, ConfigTypes DEF RingOK
  <1>5. \A t \in Tiles : Inbox(t) = <<>>
    BY <1>3 DEF Inbox
  <1>6. Fifo!FifoInit
    BY <1>2, <1>5 DEF Fifo!FifoInit
  <1>7. QED
    BY <1>1, <1>2, <1>4, <1>6 DEF RingsHold, RingInv, FabricInv

LEMMA RingNext ==
    ASSUME GroupsDistinct, RingsHold, [FabricNext]_fabricVars
    PROVE  /\ RingsHold'
           /\ Fifo!FifoNext \/ UNCHANGED <<Inboxes, Refusals>>
  <1>0. /\ FabricTypes /\ FabricInv /\ RingInv /\ CountersOK /\ counters["bytesReceived"] \in Nat
        /\ counters.full \in Nat /\ counters.invalid \in Nat
    BY CounterTypes DEF RingsHold, FabricInv, RingInv, FabricTypes
  <1>1. FabricInv' /\ FabricTypes'
    BY <1>0, NextInv DEF FabricInv
  <1>2. SUFFICES /\ \A t \in Tiles : RingOK(queues'[t])
                 /\ counters'["bytesReceived"] \in Nat
                 /\ Fifo!FifoNext \/ UNCHANGED <<Inboxes, Refusals>>
    BY <1>1 DEF RingsHold, RingInv
  <1>3. CASE SendKind
    <2>1. PICK s, t : \E size \in SizeArgs, body \in Bodies : Send(s, t, size, body)
      BY <1>3, Zenon DEF SendKind
    <2>2. PICK size \in SizeArgs, body \in Bodies : Send(s, t, size, body)
      BY <2>1
    <2>3. \A f \in CounterFields \ {"sent", "bytesSent"} : counters'[f] = counters[f]
      BY <1>0, <2>2, SendFacts
    <2>4. Refusals' = Refusals /\ counters'["bytesReceived"] = counters["bytesReceived"]
      BY <2>3, FieldNames, RefusalFields
    <2>5. QED
      BY <1>0, <2>2, <2>4, SendRing
  <1>4. CASE ReceiveKind
    <2>1. PICK t, room : Receive(t, room)
      BY <1>4, Zenon DEF ReceiveKind
    <2>2. \A f \in CounterFields \ {"received", "bytesReceived"} : counters'[f] = counters[f]
      BY <1>0, <2>1, ReceiveFacts
    <2>3. Refusals' = Refusals
      BY <2>2, FieldNames, RefusalFields
    <2>4. /\ \A u \in Tiles : RingOK(queues'[u]) /\ Oldest(t) \in Packets
          /\ Fifo!FifoNext
      BY <1>0, <2>1, <2>3, TakeStep
    <2>5. counters'["bytesReceived"] = counters["bytesReceived"] + Oldest(t).size
      BY <1>0, <2>1, FieldNames DEF Receive, CountersOK
    <2>6. Oldest(t).size \in Nat
      BY <2>1, <2>4, <1>0, ConfigTypes DEF Packets, Receive, ValidTile
    <2>7. QED
      BY <1>0, <2>4, <2>5, <2>6
  <1>5. CASE BroadcastKind
    <2>1. PICK s : \E group \in GroupArgs, size \in SizeArgs, body \in Bodies :
                      Broadcast(s, group, size, body)
      BY <1>5 DEF BroadcastKind
    <2>2. PICK group \in GroupArgs, size \in SizeArgs, body \in Bodies :
              Broadcast(s, group, size, body)
      BY <2>1
    <2>3. \A f \in CounterFields \ {"sent", "bytesSent", "broadcast"} :
              counters'[f] = counters[f]
      BY <1>0, <2>2, BroadcastFacts
    <2>4. Refusals' = Refusals /\ counters'["bytesReceived"] = counters["bytesReceived"]
      BY <2>3, FieldNames, RefusalFields
    <2>5. QED
      BY <1>0, <2>2, <2>4, BroadcastRings
  <1>6. ASSUME queues' = queues, NEW field \in {"full", "invalid"},
               \A f \in CounterFields \ {field} : counters'[f] = counters[f],
               counters'[field] = counters[field] + 1
        PROVE  /\ \A t \in Tiles : RingOK(queues'[t])
               /\ counters'["bytesReceived"] \in Nat
               /\ Fifo!FifoNext
    <2>1. counters'["bytesReceived"] = counters["bytesReceived"]
      BY <1>6, FieldNames
    <2>2. Refusals' = Refusals + 1
      BY <1>0, <1>6, FieldNames DEF Refusals
    <2>3. QED
      BY <1>0, <1>6, <2>1, <2>2, SameRings
  <1>7. ASSUME queues' = queues,
               \A f \in {"full", "invalid", "bytesReceived"} : counters'[f] = counters[f]
        PROVE  /\ \A t \in Tiles : RingOK(queues'[t])
               /\ counters'["bytesReceived"] \in Nat
               /\ UNCHANGED <<Inboxes, Refusals>>
    <2>1. Refusals' = Refusals
      BY <1>7, RefusalFields
    <2>2. QED
      BY <1>0, <1>7, <2>1, SameRings
  <1>8. CASE BadSetKind
    <2>1. PICK t : \E participants \in SetArgs : BarrierBadSet(t, participants)
      BY <1>8 DEF BadSetKind
    <2>2. PICK participants \in SetArgs : BarrierBadSet(t, participants)
      BY <2>1
    <2>3. /\ queues' = queues
          /\ counters' = [counters EXCEPT !["invalid"] = counters["invalid"] + 1]
      BY <1>0, <2>2, BadSetFacts
    <2>4. /\ \A f \in CounterFields \ {"invalid"} : counters'[f] = counters[f]
          /\ counters'["invalid"] = counters["invalid"] + 1
      BY <1>0, <2>3, OneMore
    <2>5. QED
      BY <1>6, <2>3, <2>4
  <1>9. CASE RefusedKind
    <2>1. PICK t : \E participants \in SetArgs : BarrierRefused(t, participants)
      BY <1>9 DEF RefusedKind
    <2>2. PICK participants \in SetArgs : BarrierRefused(t, participants)
      BY <2>1
    <2>3. /\ queues' = queues
          /\ counters' = [counters EXCEPT !["invalid"] = counters["invalid"] + 1]
      BY <1>0, <2>2, RefusedFacts DEF FabricInv
    <2>4. /\ \A f \in CounterFields \ {"invalid"} : counters'[f] = counters[f]
          /\ counters'["invalid"] = counters["invalid"] + 1
      BY <1>0, <2>3, OneMore
    <2>5. QED
      BY <1>6, <2>3, <2>4
  <1>10. CASE ArriveKind
    <2>1. PICK t : \E participants \in SetArgs : BarrierArrive(t, participants)
      BY <1>10 DEF ArriveKind
    <2>2. PICK participants \in SetArgs : BarrierArrive(t, participants)
      BY <2>1
    <2>3. /\ queues' = queues
          /\ \E n \in {0, 1} :
                counters' = [counters EXCEPT !.arrivals = counters.arrivals + 1,
                                             !.completions = counters.completions + n]
      BY <1>0, <2>2, ArriveFacts DEF FabricInv
    <2>4. \A f \in CounterFields \ {"arrivals", "completions"} : counters'[f] = counters[f]
      BY <1>0, <2>3, ArrivalCounts
    <2>5. \A f \in {"full", "invalid", "bytesReceived"} : counters'[f] = counters[f]
      BY <2>4, FieldNames
    <2>6. QED
      BY <1>7, <2>3, <2>5
  <1>11. CASE CountKind
    <2>1. PICK field \in {"full", "invalid"} : CountOne(field)
      BY <1>11 DEF CountKind
    <2>2. /\ counters' = [counters EXCEPT ![field] = counters[field] + 1]
          /\ queues' = queues
      BY <2>1 DEF CountOne
    <2>3. /\ \A f \in CounterFields \ {field} : counters'[f] = counters[f]
          /\ counters'[field] = counters[field] + 1
      BY <1>0, <2>2, OneMore
    <2>4. QED
      BY <1>6, <2>2, <2>3
  <1>12. CASE EmptyKind
    <2>1. PICK t : \E attempts \in Nat : ReceiveEmpty(t, attempts)
      BY <1>12 DEF EmptyKind
    <2>2. PICK attempts \in Nat : ReceiveEmpty(t, attempts)
      BY <2>1
    <2>3. /\ queues' = queues
          /\ \A f \in CounterFields \ {"empty"} : counters'[f] = counters[f]
      BY <1>0, <2>2, EmptyFacts
    <2>4. \A f \in {"full", "invalid", "bytesReceived"} : counters'[f] = counters[f]
      BY <2>3, FieldNames
    <2>5. QED
      BY <1>7, <2>3, <2>4
  <1>13. CASE ResetCounters
    <2>1. queues' = queues /\ counters' = ZeroCounters
      BY <1>13 DEF ResetCounters
    <2>2. counters'["bytesReceived"] = 0 /\ Refusals' = 0
      BY <2>1 DEF ZeroCounters, Refusals
    <2>3. QED
      BY <1>0, <2>1, <2>2, SameRings
  <1>14. CASE UNCHANGED fabricVars
    BY <1>7, <1>14 DEF fabricVars
  <1>15. QED
    BY <1>3, <1>4, <1>5, <1>8, <1>9, <1>10, <1>11, <1>12, <1>13, <1>14, StepKinds

\* No ring is ever overfull, and every index and counter keeps its range
\* (att1_fabric_enqueue does not ask whether there is room; its callers have).
THEOREM RingsStayInBounds ==
    ASSUME GroupsDistinct
    PROVE  FabricSpec => [](FabricTypeOK /\ FixedCapacity)
  <1>1. FabricInit => RingsHold
    BY RingInit
  <1>2. RingsHold /\ [FabricNext]_fabricVars => RingsHold'
    BY RingNext
  <1>3. RingsHold => FabricTypeOK /\ FixedCapacity
    <2> SUFFICES ASSUME RingsHold
                 PROVE  FabricTypeOK /\ FixedCapacity
      OBVIOUS
    <2>1. \A f \in CounterFields : counters[f] \in Nat
      BY FieldNames DEF RingsHold, RingInv, FabricTypes, CountersOK
    <2>2. counters \in CounterRecords
      <3>1. counters = [f \in CounterFields |-> counters[f]]
        BY DEF RingsHold, RingInv, FabricTypes, CountersOK
      <3>2. QED
        BY <2>1, <3>1, FieldNames DEF CounterRecords
    <2>3. QED
      BY <2>2 DEF RingsHold, RingInv, FabricTypes, RingOK, FabricTypeOK, FixedCapacity
  <1>4. QED
    BY <1>1, <1>2, <1>3, PTL DEF FabricSpec

\* The rings are bounded first-in first-out inboxes, and a broadcast reaches all
\* of its destinations or none (att1_fabric_enqueue, _receive, _broadcast).
THEOREM RingsImplementInboxes ==
    ASSUME GroupsDistinct
    PROVE  FabricSpec => ImplementsFifo
  <1>1. FabricInit => RingsHold /\ Fifo!FifoInit
    BY RingInit
  <1>2. RingsHold /\ [FabricNext]_fabricVars => RingsHold'
    BY RingNext
  <1>3. RingsHold /\ [FabricNext]_fabricVars => Fifo!FifoNext \/ UNCHANGED <<Inboxes, Refusals>>
    BY RingNext
  <1>4. UNCHANGED <<Inboxes, Refusals>>
          => UNCHANGED <<[t \in Tiles |-> Inbox(t)], counters.full + counters.invalid>>
    BY DEF Inboxes, Refusals
  <1>5. RingsHold /\ [FabricNext]_fabricVars
          => [Fifo!FifoNext]_<<[t \in Tiles |-> Inbox(t)], counters.full + counters.invalid>>
    BY <1>3, <1>4
  <1>6. QED
    BY <1>1, <1>2, <1>5, PTL DEF FabricSpec, ImplementsFifo, Fifo!FifoSpec
=============================================================================
