-------------------------------- MODULE Host --------------------------------
(***************************************************************************)
(* The host's side of the AIMU (src/aimu_host.c), which owns device,       *)
(* queue, trace and registers, and the calls of src/aimu_userspace.c       *)
(* around it, which copy the registers to a file that other programs map   *)
(* (BAR0).  A call of the userspace library is a call of the host followed *)
(* by flush_bar0 when it succeeded; without a file that is the host's call *)
(* alone.  One thread makes all calls.                                     *)
(*                                                                         *)
(* Abstractions.  Creation either succeeds or leaves nothing behind, so it *)
(* is Init.  A command is what CmdQueue keeps of it; no hook is installed. *)
(* The DMA engine only validates descriptors here and is left out.         *)
(***************************************************************************)
EXTENDS Mmio

VARIABLES probed,          \* h->probed
          ready,           \* h->cmdq_ready
          mapped,          \* u->bar0_map is set
          file             \* what the mapped file shows

hostVars == <<probed, ready>>
vars == <<mmioVars, hostVars, mapped, file>>

\* att1_aimu_userspace_open with a file, which shows the registers from the start,
\* or without one.
UserspaceOpen ==
    \/ mapped = TRUE /\ file = regs
    \/ mapped = FALSE /\ file = ZeroRegisters

\* att1_aimu_host_create, then att1_aimu_userspace_open
HostInit ==
    /\ CmdqInit /\ MmioInit
    /\ probed = FALSE /\ ready = FALSE
    /\ UserspaceOpen

-----------------------------------------------------------------------------
\* A call that is refused.
Refused == UNCHANGED vars

\* Mutation of Flushed: the registers are copied as they are.
FlushedUnsynced(e) ==
    /\ device' = e.device /\ snapshot' = e.snapshot
    /\ regs' = e.regs
    /\ file' = IF mapped THEN regs' ELSE file
    /\ UNCHANGED mapped

\* A successful call of the userspace library with the effect e on the device's
\* side: with a file, the registers are synced once more and copied (flush_bar0).
Flushed(e) ==
    /\ device' = e.device /\ snapshot' = e.snapshot
    /\ regs' = IF mapped THEN Synced(e.regs, e.device, LiveQueue', e.snapshot) ELSE e.regs
    /\ file' = IF mapped THEN regs' ELSE file
    /\ UNCHANGED mapped

\* A call of the host's library alone, or a failing one, with that effect.
Unflushed(e) ==
    /\ device' = e.device /\ snapshot' = e.snapshot /\ regs' = e.regs
    /\ UNCHANGED <<mapped, file>>

NoEffect == Effect(device, snapshot, regs)
SyncedEffect(q, s) == Effect(device, s, Synced(regs, device, q, s))

-----------------------------------------------------------------------------
\* att1_aimu_host_probe_device: the sync that precedes it sets DEVICE_READY, so
\* that the bit is there when it is tested.
Probe ==
    LET e == SyncedEffect(LiveQueue, snapshot) IN
    IF "READY" \notin e.regs.status THEN
        UNCHANGED <<cmdqVars, attached, hostVars>> /\ Unflushed(e)
    ELSE /\ probed' = TRUE
         /\ UNCHANGED <<cmdqVars, attached, ready>>
         /\ Flushed(e)

\* att1_aimu_host_enumerate_tiles reads the device
EnumerateTiles ==
    IF ~probed THEN Refused
    ELSE UNCHANGED <<cmdqVars, attached, hostVars>> /\ Flushed(NoEffect)

\* att1_aimu_host_setup_cmdq
SetupQueue ==
    IF ~probed THEN Refused
    ELSE /\ attached' = TRUE /\ ready' = TRUE
         /\ UNCHANGED <<cmdqVars, probed>>
         /\ Flushed(SyncedEffect([LiveQueue EXCEPT !.attached = TRUE], snapshot))

\* att1_aimu_host_submit_cmd; a submission that fails is not flushed.
\* Every command signals a fence.
SubmitCommand(tile, kind) ==
    IF ~ready THEN Refused
    ELSE /\ UNCHANGED <<attached, hostVars>>
         /\ \/ SubmitBadTile(tile) /\ Unflushed(NoEffect)
            \/ SubmitFull(tile) /\ Unflushed(NoEffect)
            \/ Submit(tile, kind, TRUE) /\ Flushed(NoEffect)

\* att1_aimu_host_ring_doorbell
RingDoorbell ==
    IF ~ready THEN Refused
    ELSE UNCHANGED <<cmdqVars, attached, hostVars>> /\ Flushed(Doorbell(cmdTail))

\* att1_aimu_host_process_one and _read_completion, which ask neither for a
\* probed device nor for a queue that is ready.
ProcessOne ==
    IF CmdUsed = 0 THEN Refused
    ELSE /\ DispatchOne
         /\ Unflushed(NoEffect)
         /\ UNCHANGED <<attached, hostVars>>

ReadCompletion ==
    IF CompUsed = 0 THEN Refused
    ELSE PollCompletion /\ Unflushed(NoEffect) /\ UNCHANGED <<attached, hostVars>>

\* att1_aimu_host_drain: the loop ends with the queue empty, or at the first
\* completion that finds no room; then nothing is flushed.
DrainBegin ==
    /\ DispatchAllBegin
    /\ UNCHANGED <<deviceVars, hostVars, mapped, file>>

DrainStep ==
    /\ draining
    /\ UNCHANGED <<attached, hostVars>>
    /\ \/ DispatchOne /\ Unflushed(NoEffect)
       \/ DispatchAllEnd /\ Flushed(NoEffect)

\* att1_aimu_host_snapshot_counters
SnapshotCounters ==
    /\ UNCHANGED <<cmdqVars, attached, hostVars>>
    /\ Flushed(SyncedEffect(LiveQueue, Snapshot(snapshot, ready, TRUE)))

\* att1_aimu_host_reset: device, registers and trace; the queue stays as it is and
\* stays attached.
HostReset ==
    /\ Unflushed(Effect(DeviceReset, EmptySnapshot,
                        Synced(Defaults(ZeroRegisters), DeviceReset, LiveQueue, EmptySnapshot)))
    /\ probed' = FALSE /\ ready' = FALSE
    /\ UNCHANGED <<cmdqVars, attached>>

\* att1_aimu_userspace_write32
Write ==
    /\ UNCHANGED <<cmdqVars, attached, hostVars>>
    /\ \E e \in MmioWrites : Flushed(e)

\* att1_aimu_mmio_sync, att1_aimu_userspace_flush_bar0
SyncRegisters ==
    /\ Unflushed(SyncedEffect(LiveQueue, snapshot))
    /\ UNCHANGED <<cmdqVars, attached, hostVars>>

FlushBar0 == UNCHANGED <<cmdqVars, attached, hostVars>> /\ Flushed(NoEffect)

TileEvent ==
    /\ \E t \in Tiles, state \in TileStates, code \in ErrorCodes \cup {0} :
          TileChanges(t, state, code)
    /\ UNCHANGED <<cmdqVars, hostVars, mapped, file>>

-----------------------------------------------------------------------------
WithinLimits ==
    /\ stats'.failed + stats'.queueFull <= RefusalLimit
    /\ nextId' <= CommandLimit + 1

Call ==
    \/ Probe \/ EnumerateTiles \/ SetupQueue
    \/ \E tile \in 0..TileCount, kind \in KindArgs : SubmitCommand(tile, kind)
    \/ RingDoorbell \/ ProcessOne \/ ReadCompletion \/ DrainBegin
    \/ SnapshotCounters \/ HostReset \/ Write
    \/ SyncRegisters \/ FlushBar0 \/ TileEvent

HostNext == (DrainStep \/ (~draining /\ Call)) /\ WithinLimits

HostSpec == HostInit /\ [][HostNext]_vars

-----------------------------------------------------------------------------
(* Properties.                                                             *)

\* All of the control plane keeps its types.
HostTypeOK ==
    /\ CmdqTypeOK /\ MmioTypeOK
    /\ {probed, ready, mapped} \subseteq BOOLEAN
    /\ DOMAIN file = DOMAIN regs

\* What a reader of the registers, of the file or of the snapshot sees is never ahead
\* of the queue and never more completed than issued.
NeverAhead ==
    \A c \in {regs.counters, file.counters, snapshot.cmdq} :
        /\ c.issued <= stats.submitted
        /\ c.completed <= c.issued
        /\ c.queueFull <= stats.queueFull

\* An old snapshot hides newer counters at every sync (sync_from_trace), but counters
\* older than the last snapshot are never shown.
NoOlderThanSnapshot ==
    snapshot.status # "EMPTY" =>
        \A r \in {regs} \cup (IF mapped THEN {file} ELSE {}), c \in CounterRegisters :
            snapshot.cmdq[c] <= r.counters[c]

\* Counters that any reader sees were the queue's at one moment, no earlier than the
\* last snapshot, whatever was synced, snapshot, reset or kept from before.
CountersWereTrue == NeverAhead /\ NoOlderThanSnapshot

\* A program that maps the file never sees a queue that contradicts itself, though
\* a doorbell writes CQ_TAIL alone: the head differs from the tail exactly when
\* CQ_STATUS says that the queue is processing.
FileCoherent ==
    (mapped /\ attached /\ ready) =>
        (file.processing <=> file.queue["head"] # file.queue["tail"])

\* "All counters ... are cleared by RESET_COUNTERS" (docs/aimu_register_map.md): without
\* it the commands issued, completed and refused that the registers have shown do not
\* go back in them, whichever snapshot, new, partial or kept, the syncs let win
\* (sync_from_trace, src/aimu_mmio.c).
CountersNeverGoBack ==
    [][(\A bits \in SUBSET ResetControlBits :
            "RESET_COUNTERS" \in bits => ~Flushed(ResetControl(bits)))
       => \A c \in {"issued", "completed", "queueFull"} :
            regs.counters[c] <= regs'.counters[c]]_vars

\* "Reset all sub-simulators" (include/att1_aimu_host.h): no command from before a
\* reset of the host waits in the queue after it.
ResetEmptiesQueue == [][HostReset => CmdUsed' = 0]_vars

\* "Preserve TRACE_ACTIVE if it was previously set" (src/aimu_mmio.c): a sync of the
\* registers does not switch the trace off.
SyncPreservesTrace ==
    [][SyncRegisters /\ "TRACE_ACTIVE" \in regs.status => "TRACE_ACTIVE" \in regs'.status]_vars
=============================================================================
