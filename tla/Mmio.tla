-------------------------------- MODULE Mmio --------------------------------
(***************************************************************************)
(* The register file of the AIMU (src/aimu_mmio.c) over the device         *)
(* (src/aimu_device.c), the command queue (CmdQueue) and the counter       *)
(* snapshots (src/aimu_trace.c).  The registers are a cache: nothing       *)
(* changes them when the device or the queue changes, until a call of      *)
(* att1_aimu_mmio_sync or a write with a side effect copies the live       *)
(* state, and a snapshot once taken is copied over the live counters.      *)
(*                                                                         *)
(* Abstractions.  A register is a field of a record, kept where a step of  *)
(* the device, the queue or the trace can make it stale: the identity and  *)
(* the capacities of the device, the registers that only hold what was     *)
(* written to them and the counts of doorbells, resets and snapshots are   *)
(* left out.  A 64-bit counter is a natural number.                        *)
(***************************************************************************)
EXTENDS CmdQueue

CONSTANTS RegisterRange,   \* 2^16, the range of CQ_HEAD and CQ_TAIL
          ErrorCodes       \* the error codes a tile may carry

ASSUME MmioConfigValid ==
    /\ RegisterRange \in Nat \ {0} /\ IndexRange % RegisterRange = 0
    /\ CmdDepth <= RegisterRange
    /\ ErrorCodes \subseteq Nat \ {0}

VARIABLES device,          \* state and last error of each tile of the device
          snapshot,        \* trace->snapshot
          regs,            \* mmio->regs
          attached         \* mmio->cmdq is set

deviceVars == <<device, snapshot, regs, attached>>
mmioVars == <<cmdqVars, deviceVars>>

\* The cells of the register file that are written after creation: bits of
\* GLOBAL_STATUS, the window of each tile, the queue's registers, the
\* counters.
GlobalStatusBits == {"READY", "ANY_ACTIVE", "ANY_ERROR", "TRACE_ACTIVE"}
TileStates == {"IDLE", "ACTIVE", "ERROR"}
QueueRegisters == {"head", "tail", "fence"}
CounterRegisters == {"issued", "completed", "queueFull", "errors"}
GlobalControlBits == {"ENABLE_DEVICE", "DISABLE_DEVICE", "ENABLE_TRACE", "DISABLE_TRACE"}
ResetControlBits == {"SOFT_RESET_ALL", "RESET_COUNTERS"}
TileInfos == [state : TileStates, error : ErrorCodes \cup {0}]
SnapshotStatuses == {"EMPTY", "PARTIAL", "OK"}

IdleTile == [state |-> "IDLE", error |-> 0]
ZeroCounters == [r \in CounterRegisters |-> 0]
EmptySnapshot == [status |-> "EMPTY", cmdq |-> ZeroCounters, tileErrors |-> 0]

ZeroRegisters ==
    [status |-> {}, tileState |-> [t \in Tiles |-> "IDLE"],
     tileError |-> [t \in Tiles |-> 0], queue |-> [r \in QueueRegisters |-> 0],
     processing |-> FALSE, counters |-> ZeroCounters]

-----------------------------------------------------------------------------
(* What a sync copies, in this order.                                      *)

\* mmio_set_defaults
Defaults(r) == [r EXCEPT !.status = {"READY"}]

SomeTile(dev, state) == \E t \in Tiles : dev[t].state = state

\* sync_from_device
FromDevice(r, dev) ==
    [r EXCEPT !.status = {"READY"} \cup (IF SomeTile(dev, "ACTIVE") THEN {"ANY_ACTIVE"} ELSE {})
                                   \cup (IF SomeTile(dev, "ERROR") THEN {"ANY_ERROR"} ELSE {})
                                   \cup (@ \cap {"TRACE_ACTIVE"}),
              !.tileState = [t \in Tiles |-> dev[t].state],
              !.tileError = [t \in Tiles |-> dev[t].error]]

QueueCounters(s) == [issued |-> s.submitted, completed |-> s.completed,
                     queueFull |-> s.queueFull, errors |-> s.failed]

\* What a sync sees of the queue; primed, what it sees at the end of a step.
LiveQueue == [attached |-> attached, head |-> cmdHead, tail |-> cmdTail, stats |-> stats]

\* sync_from_cmdq: CNT_ERRORS_TOTAL is not among the counters it copies.
FromQueue(r, q) ==
    IF ~q.attached THEN r
    ELSE [r EXCEPT !.queue = [head |-> q.head % RegisterRange,
                              tail |-> q.tail % RegisterRange,
                              fence |-> q.stats.fence % RegisterRange],
                   !.processing = (q.head # q.tail),
                   !.counters = [QueueCounters(q.stats) EXCEPT !.errors = r.counters.errors]]

\* Mutation of FromTrace: completed and issued commands are swapped.
FromTraceSwapped(r, s) ==
    IF s.status = "EMPTY" THEN r
    ELSE [r EXCEPT !.counters = [s.cmdq EXCEPT !.issued = s.cmdq.completed,
                                               !.completed = s.cmdq.issued]]

\* sync_from_trace: the snapshot, however old, overrides the live counters.
FromTrace(r, s) ==
    IF s.status = "EMPTY" THEN r
    ELSE [r EXCEPT !.counters = [s.cmdq EXCEPT !.errors = @ + s.tileErrors]]

\* att1_aimu_mmio_sync
Synced(r, dev, q, s) == FromTrace(FromQueue(FromDevice(Defaults(r), dev), q), s)

\* att1_aimu_trace_snapshot_all: a source that is missing keeps its old values.
\* There is always a device; withDma tells whether the DMA engine is passed.
Snapshot(s, withQueue, withDma) ==
    [status |-> IF withQueue /\ withDma THEN "OK" ELSE "PARTIAL",
     cmdq |-> IF withQueue THEN QueueCounters(stats) ELSE s.cmdq,
     tileErrors |-> Cardinality({t \in Tiles : device[t].state = "ERROR"})]

-----------------------------------------------------------------------------
(* The device.                                                             *)

\* att1_aimu_device_reset
DeviceReset == [t \in Tiles |-> IdleTile]

\* att1_aimu_device_reset_tile, which refuses a tile the device does not have.
TileReset(dev, t) == IF t \in Tiles THEN [dev EXCEPT ![t] = IdleTile] ELSE dev

\* A tile starts, ends or fails an execution; the fields of the device are set
\* from outside these sources.
TileChanges(t, state, code) ==
    /\ device[t].state # state
    /\ state = "ERROR" <=> code # 0
    /\ device' = [device EXCEPT ![t] = [state |-> state, error |-> code]]
    /\ UNCHANGED <<snapshot, regs, attached>>

-----------------------------------------------------------------------------
(* att1_aimu_mmio_write32, by the register it writes.  Each case gives the *)
(* new device, snapshot and registers; what is done with them is up to the *)
(* caller (Host).                                                          *)

Effect(dev, s, r) == [device |-> dev, snapshot |-> s, regs |-> r]

\* GLOBAL_CONTROL: the four bits are looked at one after the other.
GlobalControl(bits) ==
    LET ready == (regs.status \cup (IF "ENABLE_DEVICE" \in bits THEN {"READY"} ELSE {}))
                     \ (IF "DISABLE_DEVICE" \in bits THEN {"READY"} ELSE {})
        active == (ready \cup (IF "ENABLE_TRACE" \in bits THEN {"TRACE_ACTIVE"} ELSE {}))
                     \ (IF "DISABLE_TRACE" \in bits THEN {"TRACE_ACTIVE"} ELSE {})
    IN  Effect(device, snapshot, [regs EXCEPT !.status = active])

\* Mutation of ResetControl: RESET_COUNTERS leaves the trace as it is.
ResetControlKeepsTrace(bits) ==
    LET soft == "SOFT_RESET_ALL" \in bits
        dev == IF soft THEN DeviceReset ELSE device
        r == IF soft THEN Synced(regs, dev, LiveQueue, snapshot) ELSE regs
    IN  IF "RESET_COUNTERS" \in bits
        THEN Effect(dev, snapshot, [r EXCEPT !.counters = ZeroCounters])
        ELSE Effect(dev, snapshot, r)

\* RESET_CONTROL: a soft reset copies the trace before RESET_COUNTERS empties it.
ResetControl(bits) ==
    LET soft == "SOFT_RESET_ALL" \in bits
        dev == IF soft THEN DeviceReset ELSE device
        r == IF soft THEN Synced(regs, dev, LiveQueue, snapshot) ELSE regs
    IN  IF "RESET_COUNTERS" \in bits
        THEN Effect(dev, EmptySnapshot, [r EXCEPT !.counters = ZeroCounters])
        ELSE Effect(dev, snapshot, r)

\* TILE_RESET_CONTROL of the window of tile t, whatever is written.
TileResetControl(t) ==
    LET dev == TileReset(device, t)
    IN  Effect(dev, snapshot, FromDevice(regs, dev))

\* CQ_DOORBELL: the tail's cell changes and nothing else of the queue does.
Doorbell(value) ==
    Effect(device, snapshot, [regs EXCEPT !.queue["tail"] = value % RegisterRange])

\* CQ_TAIL itself may be written too, and is stored in all its 32 bits.
TailWrite(value) == Effect(device, snapshot, [regs EXCEPT !.queue["tail"] = value])

\* COUNTER_SNAPSHOT_CONTROL with SNAP_NOW: no DMA engine is passed.
SnapNow ==
    LET s == Snapshot(snapshot, attached, FALSE)
    IN  Effect(device, s, FromTrace(regs, s))

\* TILE_ERROR_STATUS, of which written ones clear the bits, here all of them; the
\* device's own code stays.
ClearTileError(t) ==
    Effect(device, snapshot, [regs EXCEPT !.tileError[t] = 0])

MmioWrites ==
    {GlobalControl(bits) : bits \in SUBSET GlobalControlBits}
    \cup {ResetControl(bits) : bits \in SUBSET ResetControlBits}
    \cup {TileResetControl(t) : t \in 0..TileCount}
    \cup {Doorbell(value) : value \in {0, cmdTail}}
    \cup {TailWrite(value) : value \in {0, cmdTail}}
    \cup {SnapNow}
    \cup {ClearTileError(t) : t \in Tiles}

MmioInit ==
    /\ device = DeviceReset
    /\ snapshot = EmptySnapshot
    /\ attached = FALSE
    /\ regs = FromDevice(Defaults(ZeroRegisters), device)

\* The registers, the snapshot and the device keep their types.
MmioTypeOK ==
    /\ device \in [Tiles -> TileInfos]
    /\ snapshot \in [status : SnapshotStatuses, tileErrors : Nat,
                     cmdq : [CounterRegisters -> Nat]]
    /\ regs \in [status : SUBSET GlobalStatusBits, tileState : [Tiles -> TileStates],
                 tileError : [Tiles -> ErrorCodes \cup {0}],
                 queue : [QueueRegisters -> Nat],
                 processing : BOOLEAN, counters : [CounterRegisters -> Nat]]
    /\ attached \in BOOLEAN
=============================================================================
