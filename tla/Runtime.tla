------------------------------ MODULE Runtime -------------------------------
(***************************************************************************)
(* The tile runtime (src/runtime.c, simulator/sim_tile_thread.c): one      *)
(* worker thread per tile that takes commands from the tile's bounded      *)
(* queue, a barrier over all tiles, and a client thread that starts, stops *)
(* and destroys the runtime and sends commands.  The packet fabric under   *)
(* fabric_mutex is an instance of module Fabric.                           *)
(*                                                                         *)
(* Grain.  A step is a critical section of one mutex, or the part of it    *)
(* before or after a wait on a condition variable.  A thread that waits    *)
(* may be woken for no reason.  The ring of a command queue is a sequence. *)
(* The client makes one call at a time.                                    *)
(*                                                                         *)
(* Abstractions.  LOAD_MODEL_SHARD and RUN_LAYER_RANGE only record their   *)
(* arguments in the tile: both are the kind "record".                      *)
(***************************************************************************)
EXTENDS Integers, Sequences, FiniteSets

CONSTANTS TileCount,        \* config.tile_count
          CommandCapacity,  \* config.command_queue_capacity
          FabricCapacity,   \* config.fabric_queue_capacity
          FabricMaxPayload, \* config.fabric_max_payload_bytes
          CommandMaxPayload,\* ATT1_RUNTIME_MAX_COMMAND_PAYLOAD
          Commands,         \* what the client sends: [kind, peer, size]
          Body, NoPacket, NoCommand,
          CreateMayFail,    \* pthread_create, or the malloc before it, may fail
          MallocMayFail,    \* the malloc of a barrier may fail
          StartLimit,       \* bound on calls of att1_runtime_start
          CommandLimit      \* bound on commands sent

CommandKinds == {"record", "send", "recv", "barrier", "shutdown", "unknown"}

ASSUME RuntimeConfigValid ==
    /\ TileCount \in Nat \ {0}
    /\ CommandCapacity \in Nat \ {0}
    /\ FabricCapacity \in Nat \ {0}
    /\ FabricMaxPayload \in Nat \ {0}
    /\ CommandMaxPayload \in Nat
    /\ Commands \subseteq [kind : CommandKinds, peer : Nat, size : 0..CommandMaxPayload]
    /\ NoCommand \notin Commands

VARIABLES client,         \* where the client thread is: [at, tile, destroying]
          started,        \* threads_started
          stopRequested,  \* stop_requested
          queues,         \* per tile, the commands queued
          workers,        \* per tile, its thread: [at, cmd, generation]
          barrier,        \* barrier_active, _expected, _arrived, _generation
          tiles,          \* runtime->tiles: running and the counters
          starts, sent,   \* calls of start, commands accepted: the bounds
          fabricQueues, fabricBarrier, fabricCounters, fabricCarried

fabric == <<fabricQueues, fabricBarrier, fabricCounters, fabricCarried>>
control == <<client, started, stopRequested, starts, sent>>
vars == <<control, queues, workers, barrier, tiles, fabric>>

Tiles == 0..TileCount - 1

\* The fabric, used through the actions of single calls.
F == INSTANCE Fabric WITH
    QueueCapacity <- FabricCapacity, MaxPayload <- FabricMaxPayload,
    Bodies <- {Body}, SizeArgs <- {}, GroupArgs <- {}, SetArgs <- {},
    CounterLimit <- 0, PacketLimit <- 0,
    queues <- fabricQueues, barrier <- fabricBarrier,
    counters <- fabricCounters, carried <- fabricCarried

ZeroTile == [running |-> FALSE, processed |-> 0, sends |-> 0, recvs |-> 0, errors |-> 0]

IdleClient == [at |-> "idle", tile |-> 0, destroying |-> FALSE]

\* att1_runtime_create
Init ==
    /\ client = IdleClient
    /\ started = FALSE /\ stopRequested = FALSE
    /\ queues = [t \in Tiles |-> <<>>]
    /\ workers = [t \in Tiles |-> [at |-> "none", cmd |-> NoCommand, generation |-> 0]]
    /\ barrier = [active |-> FALSE, expected |-> 0, arrived |-> 0, generation |-> 0]
    /\ tiles = [t \in Tiles |-> ZeroTile]
    /\ starts = 0 /\ sent = 0
    /\ F!FabricInit

-----------------------------------------------------------------------------
(* Threads and condition variables.                                        *)

Gone(t) == workers[t].at \in {"none", "done"}

\* Waking a worker sends it back to the test it waits in.
Woken(w) == CASE w.at = "queueWait" -> [w EXCEPT !.at = "dequeue"]
              [] w.at = "barrierWait" -> [w EXCEPT !.at = "barrierTest"]
              [] OTHER -> w

WakeAll(ws, at) == [t \in Tiles |-> IF ws[t].at = at THEN Woken(ws[t]) ELSE ws[t]]

WorkerAt(t, from) == workers[t].at = from /\ client.at # "destroyed"

Goto(t, to) == workers' = [workers EXCEPT ![t].at = to]

-----------------------------------------------------------------------------
(* The client thread.  att1_runtime_start: the prelude resets the flags    *)
(* and the barrier; then each queue is cleared and each tile marked, and   *)
(* the threads are created.  A start after a failed one, which would put a *)
(* second worker beside each one that is left, is not modelled.            *)

\* Mutation of StartBegin: the barrier keeps the arrivals of the last start.
StartBeginKeepsBarrier ==
    /\ client = IdleClient
    /\ ~started
    /\ \A t \in Tiles : Gone(t)
    /\ starts < StartLimit
    /\ starts' = starts + 1
    /\ client' = [client EXCEPT !.at = "clear"]
    /\ UNCHANGED <<started, stopRequested, sent, queues, workers, barrier, tiles, fabric>>

StartBegin ==
    /\ client = IdleClient
    /\ ~started
    /\ \A t \in Tiles : Gone(t)
    /\ starts < StartLimit
    /\ starts' = starts + 1
    /\ stopRequested' = FALSE
    /\ barrier' = [active |-> FALSE, expected |-> 0, arrived |-> 0,
                   generation |-> barrier.generation + 1]
    /\ client' = [client EXCEPT !.at = "clear"]
    /\ UNCHANGED <<started, sent, queues, workers, tiles, fabric>>

\* Mutation of StartClear: only the worker marks its tile.
StartClearWithoutMark ==
    /\ client.at = "clear"
    /\ queues' = [queues EXCEPT ![client.tile] = <<>>]
    /\ client' = IF client.tile + 1 < TileCount
                 THEN [client EXCEPT !.tile = @ + 1]
                 ELSE [client EXCEPT !.at = "create", !.tile = 0]
    /\ UNCHANGED <<started, stopRequested, starts, sent, workers, barrier, tiles, fabric>>

StartClear ==
    /\ client.at = "clear"
    /\ queues' = [queues EXCEPT ![client.tile] = <<>>]
    /\ tiles' = [tiles EXCEPT ![client.tile].running = TRUE]
    /\ client' = IF client.tile + 1 < TileCount
                 THEN [client EXCEPT !.tile = @ + 1]
                 ELSE [client EXCEPT !.at = "create", !.tile = 0]
    /\ UNCHANGED <<started, stopRequested, starts, sent, workers, barrier, fabric>>

StartCreate ==
    /\ client.at = "create"
    /\ workers' = [workers EXCEPT ![client.tile] =
                      [at |-> "begin", cmd |-> NoCommand, generation |-> 0]]
    /\ IF client.tile + 1 < TileCount
       THEN /\ client' = [client EXCEPT !.tile = @ + 1]
            /\ UNCHANGED started
       ELSE /\ client' = IdleClient
            /\ started' = TRUE
    /\ UNCHANGED <<stopRequested, starts, sent, queues, barrier, tiles, fabric>>

\* att1_runtime_stop up to its first broadcast.  A runtime that has not started,
\* or has not finished starting, is left as it is.
EnterStop(destroying) ==
    /\ IF started
       THEN /\ stopRequested' = TRUE
            /\ client' = [at |-> "signal", tile |-> 0, destroying |-> destroying]
       ELSE /\ client' = [IdleClient EXCEPT
                             !.at = IF destroying THEN "destroyed" ELSE "idle"]
            /\ UNCHANGED stopRequested
    /\ UNCHANGED <<started, starts, sent, queues, workers, barrier, tiles, fabric>>

StartFails == CreateMayFail /\ client.at = "create" /\ EnterStop(FALSE)

Stop == client = IdleClient /\ started /\ EnterStop(FALSE)

\* att1_runtime_destroy stops the runtime and then frees it.
Destroy == client = IdleClient /\ EnterStop(TRUE)

StopSignal ==
    /\ client.at = "signal"
    /\ workers' = [workers EXCEPT ![client.tile] =
                      IF @.at = "queueWait" THEN Woken(@) ELSE @]
    /\ client' = IF client.tile + 1 < TileCount
                 THEN [client EXCEPT !.tile = @ + 1]
                 ELSE [client EXCEPT !.at = "signalBarrier", !.tile = 0]
    /\ UNCHANGED <<started, stopRequested, starts, sent, queues, barrier, tiles, fabric>>

\* Mutation of StopSignalBarrier: the waiters of the barrier are not woken.
StopWithoutBarrierSignal ==
    /\ client.at = "signalBarrier"
    /\ client' = [client EXCEPT !.at = "join"]
    /\ UNCHANGED <<started, stopRequested, starts, sent, queues, workers, barrier, tiles, fabric>>

StopSignalBarrier ==
    /\ client.at = "signalBarrier"
    /\ workers' = WakeAll(workers, "barrierWait")
    /\ client' = [client EXCEPT !.at = "join"]
    /\ UNCHANGED <<started, stopRequested, starts, sent, queues, barrier, tiles, fabric>>

StopJoin ==
    /\ client.at = "join"
    /\ workers[client.tile].at = "done"
    /\ tiles' = [tiles EXCEPT ![client.tile].running = FALSE]
    /\ IF client.tile + 1 < TileCount
       THEN /\ client' = [client EXCEPT !.tile = @ + 1]
            /\ UNCHANGED <<started, stopRequested>>
       ELSE /\ client' = [IdleClient EXCEPT
                             !.at = IF client.destroying THEN "destroyed" ELSE "idle"]
            /\ started' = FALSE
            /\ stopRequested' = FALSE
    /\ UNCHANGED <<starts, sent, queues, workers, barrier, fabric>>

\* Mutation of SendCommand: the condition is not signalled.
SendCommandSilently(t, command) ==
    /\ client = IdleClient
    /\ started
    /\ sent < CommandLimit
    /\ Len(queues[t]) < CommandCapacity
    /\ queues' = [queues EXCEPT ![t] = Append(@, command)]
    /\ sent' = sent + 1
    /\ UNCHANGED <<client, started, stopRequested, starts, workers, barrier, tiles, fabric>>

\* att1_runtime_send_command, when it is accepted; pthread_cond_signal wakes the
\* worker if it waits.
SendCommand(t, command) ==
    /\ client = IdleClient
    /\ started
    /\ sent < CommandLimit
    /\ Len(queues[t]) < CommandCapacity
    /\ queues' = [queues EXCEPT ![t] = Append(@, command)]
    /\ workers' = [workers EXCEPT ![t] = IF @.at = "queueWait" THEN Woken(@) ELSE @]
    /\ sent' = sent + 1
    /\ UNCHANGED <<client, started, stopRequested, starts, barrier, tiles, fabric>>

-----------------------------------------------------------------------------
(* The worker of a tile: att1_sim_tile_thread_main and att1_runtime_dequeue. *)

Begin(t) ==
    /\ WorkerAt(t, "begin")
    /\ tiles' = [tiles EXCEPT ![t].running = TRUE]
    /\ Goto(t, "dequeue")
    /\ UNCHANGED <<control, queues, barrier, fabric>>

\* stop_requested is read twice here; it cannot change back while a worker of
\* this start is alive.
DequeueWait(t) ==
    /\ WorkerAt(t, "dequeue")
    /\ queues[t] = <<>> /\ ~stopRequested
    /\ Goto(t, "queueWait")
    /\ UNCHANGED <<control, queues, barrier, tiles, fabric>>

\* Mutation of DequeueStop: the flag is tested before the queue.
DequeueStopFirst(t) ==
    /\ WorkerAt(t, "dequeue")
    /\ stopRequested
    /\ Goto(t, "leave")
    /\ UNCHANGED <<control, queues, barrier, tiles, fabric>>

DequeueStop(t) ==
    /\ WorkerAt(t, "dequeue")
    /\ queues[t] = <<>> /\ stopRequested
    /\ Goto(t, "leave")
    /\ UNCHANGED <<control, queues, barrier, tiles, fabric>>

Dequeue(t) ==
    /\ WorkerAt(t, "dequeue")
    /\ queues[t] # <<>>
    /\ workers' = [workers EXCEPT ![t].at = "count", ![t].cmd = Head(queues[t])]
    /\ queues' = [queues EXCEPT ![t] = Tail(@)]
    /\ UNCHANGED <<control, barrier, tiles, fabric>>

SpuriousWakeup(t) ==
    /\ WorkerAt(t, "queueWait") \/ WorkerAt(t, "barrierWait")
    /\ workers' = [workers EXCEPT ![t] = Woken(@)]
    /\ UNCHANGED <<control, queues, barrier, tiles, fabric>>

\* att1_runtime_count_command; the recording commands then store their arguments,
\* an unknown one counts a second error, SHUTDOWN ends the loop.
NextPlace(kind) ==
    CASE kind = "record"   -> "dequeue"
      [] kind = "send"     -> "send"
      [] kind = "recv"     -> "recv"
      [] kind = "barrier"  -> "arrive"
      [] kind = "shutdown" -> "leave"
      [] kind = "unknown"  -> "error"

CountCommand(t) ==
    /\ WorkerAt(t, "count")
    /\ tiles' = [tiles EXCEPT ![t].processed = @ + 1,
                    ![t].errors = @ + (IF workers[t].cmd.kind = "unknown" THEN 1 ELSE 0)]
    /\ Goto(t, NextPlace(workers[t].cmd.kind))
    /\ UNCHANGED <<control, queues, barrier, fabric>>

\* att1_runtime_count_error, _count_fabric_send and _count_fabric_recv
CountAs(t, from, field) ==
    /\ WorkerAt(t, from)
    /\ tiles' = [tiles EXCEPT ![t][field] = @ + 1]
    /\ Goto(t, "dequeue")
    /\ UNCHANGED <<control, queues, barrier, fabric>>

Leave(t) ==
    /\ WorkerAt(t, "leave")
    /\ tiles' = [tiles EXCEPT ![t].running = FALSE]
    /\ Goto(t, "done")
    /\ UNCHANGED <<control, queues, barrier, fabric>>

-----------------------------------------------------------------------------
(* Commands that use the fabric.                                           *)

\* Mutation of SendActivation: a full queue of the fabric is no error.
SendActivationIgnoresFull(t) ==
    LET c == workers[t].cmd IN
    /\ WorkerAt(t, "send")
    /\ c.size <= FabricMaxPayload
    /\ F!Send(t, c.peer, c.size, Body) \/ F!SendFull(t, c.peer, c.size)
    /\ Goto(t, "sent")
    /\ UNCHANGED <<control, queues, barrier, tiles>>

SendActivation(t) ==
    LET c == workers[t].cmd IN
    /\ WorkerAt(t, "send")
    /\ \/ /\ c.size <= FabricMaxPayload
          /\ F!Send(t, c.peer, c.size, Body)
          /\ Goto(t, "sent")
       \/ /\ c.size <= FabricMaxPayload
          /\ F!SendInvalid(t, c.peer, c.size) \/ F!SendFull(t, c.peer, c.size)
          /\ Goto(t, "error")
       \/ /\ c.size > FabricMaxPayload
          /\ Goto(t, "error")
          /\ UNCHANGED fabric
    /\ UNCHANGED <<control, queues, barrier, tiles>>

RecvActivation(t) ==
    /\ WorkerAt(t, "recv")
    /\ \/ F!Receive(t, CommandMaxPayload) /\ Goto(t, "received")
       \/ /\ F!ReceiveEmpty(t, 1) \/ F!ReceiveInvalid(t, CommandMaxPayload)
          /\ Goto(t, "error")
    /\ UNCHANGED <<control, queues, barrier, tiles>>

-----------------------------------------------------------------------------
(* att1_runtime_execute_barrier: an arrival at the fabric's barrier, whose *)
(* result is ignored, then one at the runtime's, which waits.              *)

BarrierOutOfMemory(t) ==
    /\ MallocMayFail /\ TileCount # 1
    /\ WorkerAt(t, "arrive")
    /\ Goto(t, "error")
    /\ UNCHANGED <<control, queues, barrier, tiles, fabric>>

FabricArrive(t) ==
    /\ WorkerAt(t, "arrive")
    /\ \/ F!BarrierArrive(t, F!AllTiles)
       \/ F!BarrierRefused(t, F!AllTiles)
       \/ F!BarrierOtherSet(t, F!AllTiles, MallocMayFail)
    /\ Goto(t, "meet")
    /\ UNCHANGED <<control, queues, barrier, tiles>>

\* Mutation of Joined: the round is complete one tile early.
JoinedOneEarly ==
    [active     |-> TRUE,
     expected   |-> IF barrier.active THEN barrier.expected ELSE TileCount - 1,
     arrived    |-> (IF barrier.active THEN barrier.arrived ELSE 0) + 1,
     generation |-> barrier.generation]

\* The barrier as it is once this tile is counted.
Joined ==
    [active     |-> TRUE,
     expected   |-> IF barrier.active THEN barrier.expected ELSE TileCount,
     arrived    |-> (IF barrier.active THEN barrier.arrived ELSE 0) + 1,
     generation |-> barrier.generation]

\* Mutation of MeetLast: the waiters are not woken.
MeetLastSilently(t) ==
    /\ WorkerAt(t, "meet")
    /\ Joined.arrived = Joined.expected
    /\ barrier' = [active |-> FALSE, expected |-> 0, arrived |-> 0,
                   generation |-> barrier.generation + 1]
    /\ Goto(t, "dequeue")
    /\ UNCHANGED <<control, queues, tiles, fabric>>

MeetLast(t) ==
    /\ WorkerAt(t, "meet")
    /\ Joined.arrived = Joined.expected
    /\ barrier' = [active |-> FALSE, expected |-> 0, arrived |-> 0,
                   generation |-> barrier.generation + 1]
    /\ workers' = [WakeAll(workers, "barrierWait") EXCEPT ![t].at = "dequeue"]
    /\ UNCHANGED <<control, queues, tiles, fabric>>

\* The test of the loop, for a tile that waits for the end of its round.
MayWait(b, generation) == ~stopRequested /\ b.active /\ b.generation = generation

AfterTest(b, generation) ==
    IF MayWait(b, generation) THEN "barrierWait"
    ELSE IF stopRequested THEN "error" ELSE "dequeue"

Meet(t) ==
    /\ WorkerAt(t, "meet")
    /\ Joined.arrived # Joined.expected
    /\ barrier' = Joined
    /\ workers' = [workers EXCEPT ![t].at = AfterTest(Joined, barrier.generation),
                                  ![t].generation = barrier.generation]
    /\ UNCHANGED <<control, queues, tiles, fabric>>

\* Mutation of BarrierTest: the wait is an if where the code has a while.
BarrierTestOnce(t) ==
    /\ WorkerAt(t, "barrierTest")
    /\ Goto(t, IF stopRequested THEN "error" ELSE "dequeue")
    /\ UNCHANGED <<control, queues, barrier, tiles, fabric>>

BarrierTest(t) ==
    /\ WorkerAt(t, "barrierTest")
    /\ Goto(t, AfterTest(barrier, workers[t].generation))
    /\ UNCHANGED <<control, queues, barrier, tiles, fabric>>

-----------------------------------------------------------------------------
WorkerStep(t) ==
    \/ Begin(t) \/ DequeueWait(t) \/ DequeueStop(t) \/ Dequeue(t)
    \/ CountCommand(t)
    \/ CountAs(t, "error", "errors")
    \/ CountAs(t, "sent", "sends")
    \/ CountAs(t, "received", "recvs")
    \/ SendActivation(t) \/ RecvActivation(t)
    \/ BarrierOutOfMemory(t) \/ FabricArrive(t)
    \/ MeetLast(t) \/ Meet(t) \/ BarrierTest(t)
    \/ Leave(t)

\* What the client does once it is inside a call.
CallStep ==
    \/ StartClear \/ StartCreate \/ StartFails
    \/ StopSignal \/ StopSignalBarrier \/ StopJoin

ClientStep ==
    \/ StartBegin \/ Stop \/ Destroy
    \/ \E t \in Tiles, command \in Commands : SendCommand(t, command)
    \/ CallStep

\* The runtime is freed; nothing is left to run.
Terminated == client.at = "destroyed" /\ UNCHANGED vars

Next ==
    \/ ClientStep
    \/ \E t \in Tiles : WorkerStep(t) \/ SpuriousWakeup(t)
    \/ Terminated

\* Threads that can run do run; the client finishes the calls it makes.
Fairness == WF_vars(CallStep) /\ \A t \in Tiles : WF_vars(WorkerStep(t))

Spec == Init /\ [][Next]_vars /\ Fairness

-----------------------------------------------------------------------------
(* Properties.                                                             *)

ClientPlaces == {"idle", "clear", "create", "signal", "signalBarrier", "join", "destroyed"}
WorkerPlaces == {"none", "begin", "dequeue", "queueWait", "count", "send", "sent", "recv",
                 "received", "arrive", "meet", "barrierWait", "barrierTest", "error",
                 "leave", "done"}

\* Threads are at places that exist, queues keep their capacity.
TypeOK ==
    /\ client \in [at : ClientPlaces, tile : Tiles, destroying : BOOLEAN]
    /\ started \in BOOLEAN /\ stopRequested \in BOOLEAN
    /\ queues \in [Tiles -> Seq(Commands)]
    /\ \A t \in Tiles : Len(queues[t]) <= CommandCapacity
    /\ workers \in [Tiles -> [at : WorkerPlaces, cmd : Commands \cup {NoCommand},
                              generation : Nat]]
    /\ barrier \in [active : BOOLEAN, expected : {0, TileCount}, arrived : 0..TileCount - 1,
                    generation : Nat]
    /\ tiles \in [Tiles -> [running : BOOLEAN, processed : Nat, sends : Nat,
                            recvs : Nat, errors : Nat]]
    /\ starts \in Nat /\ sent \in Nat
    /\ F!FabricTypeOK

\* Stopping loses no command: a worker that has left without a SHUTDOWN has
\* emptied its queue first (att1_runtime_dequeue tests the queue before the flag).
LeavesNothingBehind ==
    \A t \in Tiles :
        workers[t].at = "done" /\ queues[t] # <<>>
            => workers[t].cmd # NoCommand /\ workers[t].cmd.kind = "shutdown"

\* The running flag of a tile is cleared only by a worker that is gone or on its
\* way out, and stays cleared once a stop has joined the worker.  (A start that
\* fails leaves the flags of workers it did not create set.)
RunningIsTrue ==
    \A t \in Tiles :
        /\ started /\ ~tiles[t].running => workers[t].at = "done"
        /\ client.at = "join" /\ t < client.tile => ~tiles[t].running

\* Both: workers leave an empty queue, and flags that tell so.
WorkersLeaveCleanly == LeavesNothingBehind /\ RunningIsTrue

\* Tiles that are inside the runtime's barrier in the present round.
Inside(t) == /\ workers[t].at \in {"barrierWait", "barrierTest"}
             /\ workers[t].generation = barrier.generation

\* Until a stop, barrier_arrived counts the workers that wait.
ArrivalsAreWaiters ==
    barrier.active /\ ~stopRequested /\ started =>
        barrier.arrived = Cardinality({t \in Tiles : Inside(t)})

\* A round of the barrier ends only when all tiles are at it, unless a stop has
\* been requested (att1_runtime_execute_barrier): also where the arrival at the
\* fabric's barrier, made just before and ignored, was refused.
BarrierMeets ==
    [][barrier'.generation # barrier.generation /\ started /\ ~stopRequested =>
          \A t \in Tiles : Inside(t) \/ workers[t].at = "meet"]_vars

\* "SYNC_BARRIER: enters a runtime barrier across all tiles"
\* (docs/tile_runtime.md): as above, whatever the client does meanwhile.
BarrierAcrossAllTiles ==
    [][barrier'.generation # barrier.generation /\ started =>
          \A t \in Tiles : Inside(t) \/ workers[t].at = "meet"]_vars

\* The sum over the tiles.
Total(f) ==
    LET sum[n \in 0..TileCount] == IF n = 0 THEN 0 ELSE sum[n - 1] + f[n - 1]
    IN  sum[TileCount]

\* Tile counters and fabric counters agree: an operation of the fabric that
\* succeeded is counted by its tile, or its worker is about to count it.
OperationsCounted ==
    LET CountedSends(t) == tiles[t].sends + (IF workers[t].at = "sent" THEN 1 ELSE 0)
        CountedRecvs(t) == tiles[t].recvs + (IF workers[t].at = "received" THEN 1 ELSE 0)
    IN  /\ fabricCounters.sent = Total([t \in Tiles |-> CountedSends(t)])
        /\ fabricCounters.received = Total([t \in Tiles |-> CountedRecvs(t)])

\* att1_runtime_stop returns: no worker misses its wake-up or waits for ever.
StopReturns == client.at \in {"signal", "signalBarrier", "join"} ~> client.at \in {"idle", "destroyed"}

\* A worker whose round is over does not stay in the barrier.
RoundsAreLeft ==
    \A t \in Tiles :
        workers[t].at = "barrierWait" /\ workers[t].generation < barrier.generation
            ~> workers[t].at # "barrierWait"

\* A queued command is taken, unless its worker has left or waits for its peers.
CommandsAreTaken ==
    \A t \in Tiles :
        started /\ queues[t] # <<>>
            ~> queues[t] = <<>> \/ workers[t].at \in {"barrierWait", "done"}

\* "att1_runtime_destroy calls stop before releasing resources"
\* (docs/tile_runtime.md): no worker is alive when the runtime is freed.
DestroyedAfterWorkers == client.at = "destroyed" => \A t \in Tiles : Gone(t)
=============================================================================
