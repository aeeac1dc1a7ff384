------------------------------- MODULE Bridge -------------------------------
(***************************************************************************)
(* The cluster bridge (src/aimu_cluster_bridge.c): a host-side relay that  *)
(* moves packets between the fabrics of two endpoints and mirrors arrivals *)
(* at their barriers.  Each fabric has two tiles here, the endpoint's own  *)
(* (LOCAL_TILE) and the slot of its peer (PROXY_TILE).                     *)
(*                                                                         *)
(* A call of the bridge is a sequence of calls on the endpoints, and the   *)
(* first that fails ends it.  One driver thread makes all calls.  An       *)
(* endpoint may be another process: its answer may be lost after the call  *)
(* took effect, or the call may not reach it (a fault).                    *)
(*                                                                         *)
(* Abstractions.  Of a fabric this module keeps what Fabric was shown to   *)
(* implement: inboxes that are first in, first out, and the arrivals of    *)
(* one round.  A packet is its number among those its endpoint has sent.   *)
(***************************************************************************)
EXTENDS Naturals, Sequences, FiniteSets, SequencesExt

CONSTANTS Capacity,      \* fabric_queue_capacity of both endpoints
          SendLimit,     \* packets sent by each endpoint, for a finite model
          BarrierLimit,  \* arrivals of each endpoint, for a finite model
          FailureLimit,  \* calls that fail, for a finite model
          FaultLimit     \* endpoint calls that go wrong, for a finite model

ASSUME BridgeConfigValid ==
    {Capacity, SendLimit, BarrierLimit, FailureLimit, FaultLimit} \subseteq Nat

VARIABLES ends,          \* the fabrics: inboxes, round, rounds completed
          bridge,        \* a_arrived and b_arrived, packets_relayed, barriers_completed
          log            \* what was sent, delivered and refused, for the properties

vars == <<ends, bridge, log>>

Ends == {"a", "b"}
Peer(e) == IF e = "a" THEN "b" ELSE "a"
Ports == {"local", "proxy"}
Foreign == 0             \* a packet that did not come through the bridge

\* att1_aimu_cluster_bridge_init on two fresh endpoints
Init ==
    /\ ends = [e \in Ends |-> [local |-> <<>>, proxy |-> <<>>, round |-> {}, completed |-> 0]]
    /\ bridge = [arrived |-> {}, relayed |-> 0, completed |-> 0]
    /\ log = [sent |-> [e \in Ends |-> 0], joined |-> [e \in Ends |-> 0],
              delivered |-> [e \in Ends |-> <<>>], failed |-> 0, faults |-> 0]

-----------------------------------------------------------------------------
(* Outcomes.  w is the state during a call: ends, bridge and log.          *)

World == [ends |-> ends, bridge |-> bridge, log |-> log]
Ok(w) == [ok |-> TRUE, world |-> w]
Failed(w) == [ok |-> FALSE, world |-> w]
Faulty(w) == IF w.log.faults < FaultLimit
             THEN {Failed([w EXCEPT !.log.faults = @ + 1])} ELSE {}

\* The call goes on with Step only where it has not failed yet.
Then(outcomes, Step(_)) ==
    {o \in outcomes : ~o.ok} \cup UNION {Step(o.world) : o \in {x \in outcomes : x.ok}}

\* A call on an endpoint that would turn w into done: it is answered, answered to
\* nobody, or not made.
Called(w, done) == {Ok(done)} \cup Faulty(done) \cup Faulty(w)

\* The call returns.
Return(outcomes) ==
    \E o \in outcomes :
        /\ ends' = o.world.ends
        /\ bridge' = o.world.bridge
        /\ log' = IF o.ok THEN o.world.log ELSE [o.world.log EXCEPT !.failed = @ + 1]
        /\ log'.failed <= FailureLimit

-----------------------------------------------------------------------------
(* relay_one                                                               *)

\* The packet p that has left the proxy of end e goes to its peer; a full inbox
\* refuses it, and then it is nowhere.
Forwarded(w, e, p) ==
    LET to == Peer(e)
        sent == [w EXCEPT !.ends[to].local = Append(@, <<e, p>>),
                          !.log.delivered[e] = Append(@, p)]
    IN  IF Len(w.ends[to].local) >= Capacity
        THEN {Failed(w)} \cup Faulty(w)
        ELSE Then(Called(w, sent), LAMBDA v : {Ok([v EXCEPT !.bridge.relayed = @ + 1])})

\* Mutation of RelayOne: a full inbox is no failure, as the pump is best-effort.
RelayOneBestEffort(w, e) ==
    IF w.ends[e].proxy = <<>> THEN {Ok(w)}
    ELSE {Ok(o.world) : o \in Forwarded([w EXCEPT !.ends[e].proxy = Tail(@)], e, Head(w.ends[e].proxy))}

\* An empty proxy inbox is no failure.
RelayOne(w, e) ==
    IF w.ends[e].proxy = <<>> THEN {Ok(w)} \cup Faulty(w)
    ELSE Then(Called(w, [w EXCEPT !.ends[e].proxy = Tail(@)]),
              LAMBDA v : Forwarded(v, e, Head(w.ends[e].proxy)))

\* att1_aimu_cluster_bridge_pump: at most one packet in each direction, and none
\* from b when a's failed
Pump(w) == Then(RelayOne(w, "a"), LAMBDA v : RelayOne(v, "b"))

\* The fabric of e takes a packet for its proxy slot.
Enqueued(w, e) ==
    [w EXCEPT !.ends[e].proxy = Append(@, w.log.sent[e] + 1), !.log.sent[e] = @ + 1]

\* att1_aimu_cluster_bridge_send
Send(e) ==
    /\ log.sent[e] < SendLimit
    /\ Return(IF Len(ends[e].proxy) >= Capacity
              THEN {Failed(World)}
              ELSE Then(Called(World, Enqueued(World, e)), Pump))

\* A pump of its own
PumpStep == Return(Pump(World))

-----------------------------------------------------------------------------
(* att1_aimu_cluster_bridge_barrier                                        *)

\* att1_aimu_conformance_fabric_barrier_arrive on endpoint e: a second arrival at one
\* port is refused, the last one completes the round.
ArrivedAt(w, e, port) ==
    LET round == w.ends[e].round \cup {port} IN
    IF port \in w.ends[e].round THEN {Failed(w)} \cup Faulty(w)
    ELSE Called(w, IF round = Ports
                   THEN [w EXCEPT !.ends[e].round = {}, !.ends[e].completed = @ + 1]
                   ELSE [w EXCEPT !.ends[e].round = round])

\* Both sides have arrived: each fabric gets the arrival of the other side.
Rendezvous(w) ==
    Then(ArrivedAt(w, "a", "proxy"),
         LAMBDA v : Then(ArrivedAt(v, "b", "proxy"),
         LAMBDA u : {Ok([u EXCEPT !.bridge.arrived = {}, !.bridge.completed = @ + 1])}))

\* Mutation of Barrier: the side is marked before its arrival was accepted.
BarrierMarksFirst(w, e) ==
    LET marked == [w EXCEPT !.bridge.arrived = @ \cup {e}, !.log.joined[e] = @ + 1] IN
    {o \in ArrivedAt(marked, e, "local") : ~o.ok}
        \cup UNION {IF o.world.bridge.arrived = Ends THEN Rendezvous(o.world) ELSE {Ok(o.world)}
                      : o \in {x \in ArrivedAt(marked, e, "local") : x.ok}}

\* Side e arrives; the call of the second side completes the rendezvous.
Barrier(w, e) ==
    Then(ArrivedAt(w, e, "local"),
         LAMBDA v : LET marked == [v EXCEPT !.bridge.arrived = @ \cup {e}, !.log.joined[e] = @ + 1]
                    IN  IF marked.bridge.arrived = Ends THEN Rendezvous(marked) ELSE {Ok(marked)})

BarrierStep(e) ==
    /\ log.joined[e] < BarrierLimit
    /\ Return(Barrier(World, e))

-----------------------------------------------------------------------------
(* The endpoints' own programs use the same fabrics.                       *)

\* att1_fabric_receive at the local tile
LocalReceive(e) ==
    /\ ends[e].local # <<>>
    /\ ends' = [ends EXCEPT ![e].local = Tail(@)]
    /\ UNCHANGED <<bridge, log>>

\* att1_fabric_send to the local tile, or to the proxy without a pump
LocalSend(e) ==
    /\ Len(ends[e].local) < Capacity
    /\ ends' = [ends EXCEPT ![e].local = Append(@, <<e, Foreign>>)]
    /\ UNCHANGED <<bridge, log>>
ProxySend(e) ==
    /\ log.sent[e] < SendLimit /\ Len(ends[e].proxy) < Capacity
    /\ ends' = Enqueued(World, e).ends
    /\ log' = Enqueued(World, e).log
    /\ UNCHANGED bridge

Next ==
    \/ PumpStep
    \/ \E e \in Ends : Send(e) \/ BarrierStep(e) \/ LocalReceive(e) \/ LocalSend(e) \/ ProxySend(e)

Spec == Init /\ [][Next]_vars

-----------------------------------------------------------------------------
Increasing(s) == \A i, j \in DOMAIN s : i < j => s[i] < s[j]
Missing(e) == log.sent[e] - Len(log.delivered[e]) - Len(ends[e].proxy)

\* The relay reorders and repeats no packet of an endpoint, also when both directions
\* back up and endpoints fail in the middle of a call; and for every packet that is
\* lost on the way some call has failed (relay_one, att1_aimu_cluster_bridge_send).
RelaySound ==
    /\ \A e \in Ends :
          Increasing(log.delivered[e] \o ends[e].proxy)
    /\ Missing("a") + Missing("b") <= log.failed
    /\ bridge.relayed <= Len(log.delivered["a"]) + Len(log.delivered["b"])
    /\ log.faults = 0 => bridge.relayed = Len(log.delivered["a"]) + Len(log.delivered["b"])

\* A rendezvous that is reported has completed a round of both fabrics and used up an
\* arrival of both sides, whatever failed before; and without faults the marks of the
\* bridge are the arrivals its endpoints know of, and both fabrics have completed
\* exactly the rounds that were reported.
RendezvousMeets ==
    /\ \A e \in Ends : bridge.completed <= ends[e].completed /\ bridge.completed <= log.joined[e]
    /\ log.faults = 0 =>
          /\ bridge.arrived = {e \in Ends : "local" \in ends[e].round} /\ bridge.arrived # Ends
          /\ \A e \in Ends : ends[e].completed = bridge.completed

\* "completes only after both physical tiles have reached the rendezvous point"
\* (include/att1_aimu_cluster_bridge.h): a fabric completes no round more often than
\* its peer's side has arrived.
CompletesAfterBoth == \A e \in Ends : ends[e].completed <= log.joined[Peer(e)]
=============================================================================
