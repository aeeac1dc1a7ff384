------------------------------- MODULE Fabric -------------------------------
(***************************************************************************)
(* The packet fabric (src/fabric.c): one ring of packets per tile, a       *)
(* broadcast that is checked before it is sent, one barrier, and counters. *)
(*                                                                         *)
(* Abstractions.  A packet keeps its source, its target, its size and one  *)
(* token for type, tag and payload bytes; the payload slot of              *)
(* payload_storage has the index of its header, so both are one record.    *)
(* A null payload with a positive size is refused like an oversized one,   *)
(* and a null output buffer like one of capacity 0.  A slot is cleared when *)
(* its packet is received: the code leaves the bytes and never reads them.  *)
(***************************************************************************)
EXTENDS Integers, Sequences, FiniteSets

CONSTANTS TileCount,     \* config.tile_count
          QueueCapacity, \* config.queue_capacity
          MaxPayload,    \* config.max_payload_bytes
          Bodies,        \* type, tag and payload of a packet
          NoPacket,      \* a free slot
          SizeArgs,      \* sizes passed by callers, one too many among them
          GroupArgs,     \* broadcast groups passed by callers: sequences of tiles
          SetArgs,       \* participant arrays passed by callers
          CounterLimit,  \* bound on the operations counted between two resets
          PacketLimit    \* bound on the packets queued in all queues

ASSUME FabricConfigValid ==
    /\ TileCount \in Nat \ {0}
    /\ QueueCapacity \in Nat \ {0}
    /\ MaxPayload \in Nat \ {0}
    /\ SizeArgs \subseteq Nat
    /\ GroupArgs \subseteq Seq(Nat) /\ SetArgs \subseteq Seq(Nat)

VARIABLES queues,        \* per tile: head, count and the packets of the ring
          barrier,       \* barrier_active, _expected, _expected_count, _arrived
          counters,      \* fabric->counters
          carried        \* packets that were queued when the counters were reset;
                         \* history, no counterpart in the code

fabricVars == <<queues, barrier, counters, carried>>

Tiles == 0..TileCount - 1
Slots == 0..QueueCapacity - 1
Packets == [source : Tiles, target : Tiles, size : 0..MaxPayload, body : Bodies]

ZeroCounters == [sent |-> 0, received |-> 0, broadcast |-> 0, bytesSent |-> 0,
                 bytesReceived |-> 0, full |-> 0, invalid |-> 0, empty |-> 0,
                 arrivals |-> 0, completions |-> 0]

IdleBarrier == [active |-> FALSE, expected |-> {}, count |-> 0, arrived |-> {}]

FabricInit ==
    /\ queues = [t \in Tiles |->
                    [head |-> 0, count |-> 0, slots |-> [k \in Slots |-> NoPacket]]]
    /\ barrier = IdleBarrier
    /\ counters = ZeroCounters
    /\ carried = 0

-----------------------------------------------------------------------------
ValidTile(t) == t \in Tiles
HasRoom(t) == queues[t].count < QueueCapacity

\* att1_fabric_enqueue called m times for one target with the same packet; the
\* slot wraps around, and the queue is not asked whether it has room.
Enqueued(q, m, packet) ==
    [head  |-> q.head,
     count |-> q.count + m,
     slots |-> [k \in Slots |->
                   IF \E j \in 0..m - 1 : k = (q.head + q.count + j) % QueueCapacity
                   THEN packet ELSE q.slots[k]]]

CountOne(field) ==
    /\ counters' = [counters EXCEPT ![field] = @ + 1]
    /\ UNCHANGED <<queues, barrier, carried>>

-----------------------------------------------------------------------------
(* att1_fabric_send                                                        *)

SendInvalid(s, t, size) ==
    /\ ~ValidTile(s) \/ ~ValidTile(t) \/ size > MaxPayload
    /\ CountOne("invalid")

SendFull(s, t, size) ==
    /\ ValidTile(s) /\ ValidTile(t) /\ size <= MaxPayload
    /\ ~HasRoom(t)
    /\ CountOne("full")

Send(s, t, size, body) ==
    /\ ValidTile(s) /\ ValidTile(t) /\ size <= MaxPayload
    /\ HasRoom(t)
    /\ queues' = [queues EXCEPT ![t] = Enqueued(@, 1,
                    [source |-> s, target |-> t, size |-> size, body |-> body])]
    /\ counters' = [counters EXCEPT !.sent = @ + 1, !.bytesSent = @ + size]
    /\ UNCHANGED <<barrier, carried>>

-----------------------------------------------------------------------------
(* att1_fabric_receive and att1_fabric_receive_timeout.  Nothing else runs *)
(* while the poll loop runs, so an empty queue stays empty for all its     *)
(* attempts.                                                               *)

Oldest(t) == queues[t].slots[queues[t].head]

ReceiveInvalid(t, room) ==
    /\ \/ ~ValidTile(t)
       \/ ValidTile(t) /\ queues[t].count > 0 /\ Oldest(t).size > room
    /\ CountOne("invalid")

\* Mutation of Receive: the head stays.
ReceiveWithoutAdvance(t, room) ==
    /\ ValidTile(t)
    /\ queues[t].count > 0
    /\ Oldest(t).size <= room
    /\ queues' = [queues EXCEPT ![t].count = @ - 1]
    /\ counters' = [counters EXCEPT !.received = @ + 1]
    /\ UNCHANGED <<barrier, carried>>

Receive(t, room) ==
    /\ ValidTile(t)
    /\ queues[t].count > 0
    /\ Oldest(t).size <= room
    /\ queues' = [queues EXCEPT ![t].head = (@ + 1) % QueueCapacity,
                                ![t].count = @ - 1,
                                ![t].slots[queues[t].head] = NoPacket]
    /\ counters' = [counters EXCEPT !.received = @ + 1,
                                    !.bytesReceived = @ + Oldest(t).size]
    /\ UNCHANGED <<barrier, carried>>

\* A plain receive makes one attempt, a receive with timeout ticks + 1.
ReceiveEmpty(t, attempts) ==
    /\ ValidTile(t)
    /\ queues[t].count = 0
    /\ counters' = [counters EXCEPT !.empty = @ + attempts]
    /\ UNCHANGED <<queues, barrier, carried>>

-----------------------------------------------------------------------------
(* att1_fabric_broadcast.  group is the caller's array; a null array means *)
(* all tiles, in order.                                                    *)

AllTiles == [k \in 1..TileCount |-> k - 1]

Times(t, group) == Cardinality({k \in DOMAIN group : group[k] = t})

\* The preflight stops at the first entry that is invalid or full.
Passes(s, t) == ValidTile(t) /\ (t = s \/ HasRoom(t))
FirstFailing(s, group) ==
    CHOOSE k \in DOMAIN group :
        /\ ~Passes(s, group[k])
        /\ \A j \in 1..k - 1 : Passes(s, group[j])

PreflightPasses(s, group) == \A k \in DOMAIN group : Passes(s, group[k])

BroadcastInvalid(s, size) ==
    /\ ~ValidTile(s) \/ size > MaxPayload
    /\ CountOne("invalid")

\* Mutation of BroadcastRefused: what precedes the failing entry is sent.
BroadcastRefusedLate(s, group, size) ==
    LET sent == {group[k] : k \in 1..FirstFailing(s, group) - 1} \ {s} IN
    /\ ValidTile(s) /\ size <= MaxPayload
    /\ ~PreflightPasses(s, group)
    /\ queues' = [t \in Tiles |->
                     IF t \notin sent THEN queues[t]
                     ELSE Enqueued(queues[t], 1, [source |-> s, target |-> t, size |-> size,
                                                  body |-> CHOOSE b \in Bodies : TRUE])]
    /\ counters' = [counters EXCEPT !.full = @ + 1]
    /\ UNCHANGED <<barrier, carried>>

BroadcastRefused(s, group, size) ==
    /\ ValidTile(s) /\ size <= MaxPayload
    /\ ~PreflightPasses(s, group)
    /\ IF ValidTile(group[FirstFailing(s, group)])
       THEN CountOne("full")
       ELSE CountOne("invalid")

\* Mutation of Broadcast: the source is counted like a destination.
BroadcastCountsSource(s, group, size, body) ==
    /\ ValidTile(s) /\ size <= MaxPayload
    /\ PreflightPasses(s, group)
    /\ queues' = [t \in Tiles |->
                     IF t = s THEN queues[t]
                     ELSE Enqueued(queues[t], Times(t, group),
                            [source |-> s, target |-> t, size |-> size, body |-> body])]
    /\ counters' = [counters EXCEPT !.sent = @ + Len(group)]
    /\ UNCHANGED <<barrier, carried>>

Broadcast(s, group, size, body) ==
    LET copies == Cardinality({k \in DOMAIN group : group[k] # s}) IN
    /\ ValidTile(s) /\ size <= MaxPayload
    /\ PreflightPasses(s, group)
    /\ queues' = [t \in Tiles |->
                     IF t = s THEN queues[t]
                     ELSE Enqueued(queues[t], Times(t, group),
                            [source |-> s, target |-> t, size |-> size, body |-> body])]
    /\ counters' = [counters EXCEPT !.sent = @ + copies,
                                    !.bytesSent = @ + copies * size,
                                    !.broadcast = @ + copies]
    /\ UNCHANGED <<barrier, carried>>

-----------------------------------------------------------------------------
(* att1_fabric_barrier_arrive.  participants is the caller's array.        *)

\* The entries before the first invalid or repeated one; these are marked in
\* barrier_expected even when the set is then refused.
Marked(participants) ==
    {participants[k] : k \in {j \in DOMAIN participants :
        \A i \in 1..j : /\ ValidTile(participants[i])
                        /\ \A h \in 1..i - 1 : participants[h] # participants[i]}}

SizeValid(participants) == Len(participants) \in 1..TileCount

SetValid(participants) ==
    /\ SizeValid(participants)
    /\ Cardinality(Marked(participants)) = Len(participants)

SetMatches(participants) ==
    SetValid(participants) /\ Marked(participants) = barrier.expected

\* Mutation of Defined: every call defines the round anew.
DefinedAnew(participants) ==
    [active |-> TRUE, expected |-> Marked(participants),
     count |-> Len(participants), arrived |-> {}]

\* The barrier as it is when the arriving tile is checked against it: a first
\* call has just defined it.
Defined(participants) ==
    IF barrier.active THEN barrier
    ELSE [active |-> TRUE, expected |-> Marked(participants),
          count |-> Len(participants), arrived |-> {}]

BarrierBadTile(t) == ~ValidTile(t) /\ CountOne("invalid")

\* The first call of a round brings no valid set.
BarrierBadSet(t, participants) ==
    /\ ValidTile(t)
    /\ ~barrier.active
    /\ ~SetValid(participants)
    /\ barrier' = IF SizeValid(participants)
                  THEN [barrier EXCEPT !.expected = Marked(participants)]
                  ELSE barrier
    /\ counters' = [counters EXCEPT !.invalid = @ + 1]
    /\ UNCHANGED <<queues, carried>>

\* A later call brings another set, or the comparison runs out of memory.
BarrierOtherSet(t, participants, mallocFails) ==
    /\ ValidTile(t)
    /\ barrier.active
    /\ ~SetMatches(participants) \/ mallocFails
    /\ CountOne("invalid")

SetAccepted(participants) ==
    IF barrier.active THEN SetMatches(participants) ELSE SetValid(participants)

\* The tile is not a participant or has arrived already.  The round the call
\* has just defined stays defined.
BarrierRefused(t, participants) ==
    /\ ValidTile(t)
    /\ SetAccepted(participants)
    /\ \/ t \notin Defined(participants).expected
       \/ t \in Defined(participants).arrived
    /\ barrier' = Defined(participants)
    /\ counters' = [counters EXCEPT !.invalid = @ + 1]
    /\ UNCHANGED <<queues, carried>>

\* Mutation of BarrierArrive: the last arrival does not reset the barrier.
BarrierArriveWithoutReset(t, participants) ==
    LET b == Defined(participants) IN
    /\ ValidTile(t)
    /\ SetAccepted(participants)
    /\ t \in b.expected
    /\ t \notin b.arrived
    /\ barrier' = [b EXCEPT !.arrived = @ \cup {t}]
    /\ counters' = [counters EXCEPT !.arrivals = @ + 1]
    /\ UNCHANGED <<queues, carried>>

\* The last arrival completes the round and resets the barrier.
BarrierArrive(t, participants) ==
    LET b == Defined(participants)
        arrived == b.arrived \cup {t}
        complete == Cardinality(arrived) = b.count
    IN
    /\ ValidTile(t)
    /\ SetAccepted(participants)
    /\ t \in b.expected
    /\ t \notin b.arrived
    /\ barrier' = IF complete THEN IdleBarrier ELSE [b EXCEPT !.arrived = arrived]
    /\ counters' = [counters EXCEPT !.arrivals = @ + 1,
                                    !.completions = @ + (IF complete THEN 1 ELSE 0)]
    /\ UNCHANGED <<queues, carried>>

-----------------------------------------------------------------------------
\* All packets queued.
InFlight(qs) ==
    LET Entries == UNION {{t} \X (1..qs[t].count) : t \in Tiles}
    IN  Cardinality(Entries)

\* att1_fabric_reset_counters
ResetCounters ==
    /\ counters' = ZeroCounters
    /\ carried' = InFlight(queues)
    /\ UNCHANGED <<queues, barrier>>

-----------------------------------------------------------------------------
(* Callers pass tiles up to and including one that does not exist, and the *)
(* sizes and arrays of SizeArgs, GroupArgs and SetArgs.                    *)

TileArgs == 0..TileCount
RoomArgs == {0, MaxPayload}
PollArgs == {1, 2}

Budget ==
    counters.sent + counters.received + counters.full + counters.invalid
        + counters.empty + counters.arrivals < CounterLimit

\* A sender does not start with PacketLimit packets queued.
MaySend == InFlight(queues) < PacketLimit

SendStep(s, t, size) ==
    \/ SendInvalid(s, t, size)
    \/ SendFull(s, t, size)
    \/ \E body \in Bodies : Send(s, t, size, body)

ReceiveStep(t) ==
    \/ \E room \in RoomArgs : ReceiveInvalid(t, room) \/ Receive(t, room)
    \/ \E attempts \in PollArgs : ReceiveEmpty(t, attempts)

BroadcastStep(s, group, size) ==
    \/ BroadcastInvalid(s, size)
    \/ BroadcastRefused(s, group, size)
    \/ \E body \in Bodies : Broadcast(s, group, size, body)

BarrierStep(t, participants) ==
    \/ BarrierBadTile(t)
    \/ BarrierBadSet(t, participants)
    \/ \E mallocFails \in BOOLEAN : BarrierOtherSet(t, participants, mallocFails)
    \/ BarrierRefused(t, participants)
    \/ BarrierArrive(t, participants)

FabricNext ==
    \/ /\ Budget
       /\ \/ \E s, t \in TileArgs, size \in SizeArgs : MaySend /\ SendStep(s, t, size)
          \/ \E t \in TileArgs : ReceiveStep(t)
          \/ \E s \in TileArgs, group \in GroupArgs, size \in SizeArgs :
                MaySend /\ BroadcastStep(s, group, size)
          \/ \E t \in TileArgs, participants \in SetArgs : BarrierStep(t, participants)
    \/ ResetCounters

FabricSpec == FabricInit /\ [][FabricNext]_fabricVars

-----------------------------------------------------------------------------
(* Properties.                                                             *)

QueueRecords == [head : Slots, count : Nat, slots : [Slots -> Packets \cup {NoPacket}]]
BarrierRecords == [active : BOOLEAN, expected : SUBSET Tiles, count : 0..TileCount,
                   arrived : SUBSET Tiles]
CounterRecords == [sent : Nat, received : Nat, broadcast : Nat, bytesSent : Nat,
                   bytesReceived : Nat, full : Nat, invalid : Nat, empty : Nat,
                   arrivals : Nat, completions : Nat]

\* The ring indices, counters and barrier marks keep their ranges.
FabricTypeOK ==
    /\ queues \in [Tiles -> QueueRecords]
    /\ barrier \in BarrierRecords
    /\ counters \in CounterRecords
    /\ carried \in Nat

\* "Each tile has one fixed-capacity inbound queue" (docs/fabric.md): no sequence
\* of sends and broadcasts makes a queue hold more than queue_capacity packets.
FixedCapacity == \A t \in Tiles : queues[t].count <= QueueCapacity

\* Counters and queues agree: what was sent since the last reset, with what was
\* queued then, has been received or is still queued.
PacketsConserved == counters.sent + carried = counters.received + InFlight(queues)

\* The queue of a tile, oldest packet first.
Inbox(t) == [k \in 1..queues[t].count |->
                queues[t].slots[(queues[t].head + k - 1) % QueueCapacity]]

Fifo == INSTANCE FabricFifo WITH
    Capacity <- QueueCapacity,
    inbox <- [t \in Tiles |-> Inbox(t)],
    refused <- counters.full + counters.invalid

\* The rings implement bounded first-in first-out inboxes; a broadcast reaches
\* all its destinations, or is refused and reaches none (att1_fabric_enqueue,
\* _receive, _broadcast).
ImplementsFifo == Fifo!FifoSpec

\* A round under way has a participant missing, and only participants arrived.
BarrierConsistent ==
    barrier.active =>
        /\ barrier.count = Cardinality(barrier.expected)
        /\ barrier.arrived \subseteq barrier.expected
        /\ barrier.arrived # barrier.expected

\* "the barrier completes only when every participant has arrived" (docs/fabric.md):
\* a round under way keeps its participants and its arrivals, and ends, with one
\* more completion, only by the arrival of the last participant.
RoundCompletes ==
    [][barrier.active =>
          \/ /\ barrier'.active
             /\ barrier'.expected = barrier.expected
             /\ barrier.arrived \subseteq barrier'.arrived
             /\ counters'.completions \in {counters.completions, 0}
          \/ /\ ~barrier'.active
             /\ Cardinality(barrier.expected \ barrier.arrived) = 1
             /\ counters'.completions = counters.completions + 1]_fabricVars

\* "The first arrival defines the participants" (docs/fabric.md): a round exists
\* only once a participant has arrived at it.
DefinedByArrival == barrier.active => barrier.arrived # {}
=============================================================================
