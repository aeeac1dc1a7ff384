# ATT-1 in TLA+

This directory models the control core of ATT-1 in TLA+, checks the models with
TLC on small instances and proves properties of them with TLAPS.
`PROJECT.json` lists components, runs, the source lines behind every
definition, hazards, findings and theorems.

Run everything from this directory:

    tlc -workers 2 -config KVMMU.cfg MCKVMMU.tla   # any run of section 3
    tlapm KVMMUProofs.tla                          # any module of section 4

## 1. The system

ATT-1 is a C11 simulator of an accelerator made of tiles, the host software
that drives it, and a transformer inference engine that runs on top. Nearly all
of it is sequential and called by one thread. The exceptions are the tile
runtime, which has one thread per tile, and the endpoint daemon, which serves
client processes over a socket.

| Component (source) | State | Operations | What is hard | What makes it correct |
|---|---|---|---|---|
| KV-cache MMU (`src/kv_mmu.c`) | session table, page pool, counters | create/destroy session, append, read, copy_range, lookup_page | pages shared by sessions and layers, reuse after destroy, exhaustion, partial copies | reads return what was appended; no gap; no leaked or doubly mapped page |
| Packet fabric (`src/fabric.c`) | a ring of packets per tile, one barrier, counters | send, receive, receive_timeout, broadcast, barrier_arrive | wrap-around, all-or-nothing broadcast, refused barrier calls | bounded FIFO queues; a round ends with its last participant |
| AIMU command queue (`src/aimu_cmdq.c`) | command ring, completion ring, counters, hook | submit, dispatch_one, dispatch_all, poll_completion | full rings, free-running indices, results counted in several places | submission order kept; every command accounted for |
| Tile runtime (`src/runtime.c`, `simulator/sim_tile_thread.c`) | threads, command queues, stop flag, barrier, tile states, a fabric | create, start, stop, destroy, send_command; worker loop | interleavings, lost or spurious wake-ups, stop against barrier, failing start | no command left behind; stop returns; the barrier meets |
| Device, registers, trace (`src/aimu_device.c`, `aimu_mmio.c`, `aimu_trace.c`) | tile states, register cells, the last snapshot | register access, sync, reset, snapshot | the order of a sync, stale snapshots | what a register shows was true of what it stands for |
| Host, userspace BAR (`src/aimu_host.c`, `aimu_userspace.c`) | probed, ready, the mapped file | probe, set-up, submit, doorbell, drain, snapshot, reset | partial resets, a file flushed after some calls only | the file never contradicts itself |
| DMA (`src/aimu_dma.c`) | regions, counters | register, validate, submit | order of checks, 64-bit wrap | no accepted descriptor leaves its regions |
| Tile memory (`src/aimu_mem.c`) | allocation table | alloc, free, reset, queries | first fit over an unsorted table, alignment that wraps | allocations do not overlap; the lowest fit is found |
| Endpoint client, protocol, daemon (`src/aimu_endpoint_*.c`, `tools/att1-aimu-endpoint.c`, `src/aimu_conformance.c`) | connections, pending tables of both sides, tensor registry | remote submit, dispatch, poll, everything else | clients that die, full tables, a daemon that outlives its clients | a result reaches the buffer of its command; effects happen once |
| PCIe backend (`src/backend_pcie.c`) | weight registry, resident tensors, counters | kernels as commands, chunked loads | stale completions, loads that fail half way | weights and results are the caller's own; resident means moved |
| Cluster bridge (`src/aimu_cluster_bridge.c`) | two endpoints, arrival flags | send, pump, barrier | relay in two steps, rendezvous in four | order kept, losses reported, barriers in step |
| Inference (`src/infer.c`, `attention.c`, `transformer_block.c`, `kv_cache.c`) | KV caches, position, activations, backend | create, decode, generate, set_backend | a step that fails between two layers | caches agree with the position whenever a token is returned |
| Cluster inference (`src/cluster_infer.c`, `shard.c`) | shard plan, fabric, tile counters | the same | empty tiles, metadata plans, packets of failed steps | it answers as a single tile does |
| Kernels, tokenizer, logging, command-line tools, Python tools | none or data only | | floating point, text, files | not modelled |

How they interact. The runtime calls the fabric under one mutex and gives each
worker its own command queue. The host calls the command queue, device,
registers, DMA and trace directly. The conformance endpoint wraps a command
queue, a fabric and a DMA engine; the cluster bridge relays between two
endpoints; the daemon offers one over a socket; the PCIe backend drives one
command at a time through an endpoint. Inference uses the flat cache and, on a
cluster, the fabric. All results are return values; the only callback is the
execution hook of the command queue, and the only concurrency that of the
runtime's workers and of the processes around the endpoints.

## 2. Modules

| Module | Models | Builds on |
|---|---|---|
| `KVStore` | what the KV-MMU promises: an append-only array per session and layer | |
| `KVMMU` | `src/kv_mmu.c` | refines `KVStore` |
| `KVMMUProofs` | the inductive invariant of `KVMMU`, its theorems, the refinement of `KVStore` | `KVMMU` |
| `FabricFifo` | what the fabric promises: bounded FIFO inboxes, deliveries to all or none | |
| `Fabric` | `src/fabric.c` | refines `FabricFifo` |
| `CmdChannel` | what the command queue promises: an ordered channel with at most one answer per command | |
| `CmdQueue` | `src/aimu_cmdq.c` | refines `CmdChannel` |
| `CmdQueueProofs`, `FabricProofs` | invariants, counters, order, and the refinements of `CmdChannel` and `FabricFifo` | `CmdQueue`, `Fabric` |
| `Runtime` | `src/runtime.c`, `simulator/sim_tile_thread.c` | an instance of `Fabric` |
| `RuntimeProofs` | workers, flags, barrier and counters for any number of tiles | `Runtime` |
| `Mmio` | `src/aimu_mmio.c`, `aimu_device.c`, `aimu_trace.c` | extends `CmdQueue` |
| `Host` | `src/aimu_host.c`, `aimu_userspace.c` | extends `Mmio` |
| `HostProofs` | registers, file and snapshot against the queue | `Host`, `CmdQueueProofs` |
| `TileMem` | `src/aimu_mem.c` | |
| `Dma` | `src/aimu_dma.c` | |
| `Transfers` | residency and chunked loads of `src/backend_pcie.c` | extends `Dma` |
| `MemoryProofs` | the verdicts on descriptors, the resident table; the allocator | `Transfers`, `TileMem` |
| `Endpoint` | `src/aimu_endpoint_client.c`, `aimu_endpoint_protocol.c`, the daemon, the hook of `aimu_conformance.c`, the commands of `backend_pcie.c` | extends `CmdQueue` |
| `EndpointProofs` | effects, weights, results and buffers of remote calls | `Endpoint`, `CmdQueueProofs` |
| `Bridge` | `src/aimu_cluster_bridge.c` | two fabrics as `FabricFifo` describes them |
| `Transformer` | a layer: `src/attention.c`, `transformer_block.c`, `kv_cache.c`, the views of `model_view.c` | |
| `Infer` | `src/infer.c` | extends `Transformer` |
| `ShardPlan` | `src/shard.c` | |
| `Cluster` | `src/cluster_infer.c` | extends `Infer`, `ShardPlan`; refines `Infer` |
| `ClusterProofs` | plans, decode steps over tiles, the refinement of `Infer`; the relay and the barriers of the bridge | `Cluster`, `Bridge` |
| `MC...` | instances for TLC | |

Operators named as mutations (each with a comment "Mutation of") are wrong
versions of the definition they precede. No behaviour uses them; each is paired
in `PROJECT.json` with a property that TLC finds violated when the mutation
replaces the definition.

### KVMMU

`sessions` and `pages` are the two tables of the code, entry by entry; `reply`
is what the last call returned. Searches take the first match, as the loops do.
The keys and values of a token over all heads are one payload. `read` and
`copy_range` share `ReadLoop`: n reads that stop at the first failure, with the
counters and the part of the buffer already written. The scan of
`next_position` is `IsNextPosition`, a predicate on where it stops.
Bounds: two sessions, two layers, two payloads and two pages of two tokens, so
that pages run out while sessions are short of `max_positions` (3, which leaves
the last page half usable) and are reused by another session or layer.
Positions and counts go up to `SIZE_MAX` (7), so that their sum wraps. Counters
are reset after every counted operation (`CounterLimit` 1): no operation reads
them, and `CountersConsistent` is a set of linear inequalities that are
preserved by any history when each operation preserves them from zero; what
matters is the tables an operation meets, and those are all there.

### Fabric

Ring, head and count are the code's, with packet headers and payload slots (the
same index) in one record. `Enqueued(q, m, p)` is m calls of
`att1_fabric_enqueue`, which never looks at the capacity. A broadcast is its
preflight, which stops at the first failing entry, and then the deliveries. A
refused barrier call changes what the code changes: `BarrierRefused` keeps a
round that was defined by the same call. `carried` is a history variable: the
packets queued when the counters were last reset. Bounds: three tiles, rings of
two packets that wrap, three packets under way (`PacketLimit`), so that a
broadcast meets a full destination beside a free one while arrivals mix with
everything else. The participant arrays are two ways to name two tiles, all
tiles, and one of each kind that is refused. Groups that name a tile twice, with
which a queue overflows, are apart in `RepeatedGroups` (section 3.2).

### CmdQueue

Indices are the code's free-running counters modulo `IndexRange` (2^w); with
two bits they wrap within the run's four commands. Command types are grouped by
what the dispatcher does with them. `Answer` and `Lose` are the two outcomes of
`write_completion`. `draining` says that `dispatch_all` is under way: nothing
else happens until it returns. `lastRead` is what the host read last. Command
identifiers and the fence values of completions are 32 bits wide in the code and
natural numbers here: the model is exact for the first 2^32 - 1 commands of a queue.

### Runtime

A step is one critical section, or the part of one before or after a condition
wait. `client.at` is where the client thread is in start, stop or destroy;
`workers[t].at` is where the worker of tile t is. A thread in `queueWait` or
`barrierWait` is blocked in `pthread_cond_wait`; waking it, on purpose or
spuriously, sends it back to its test. `stop_requested` is written outside any
mutex, as in the code; it is one step that all later reads see, since a worker
that read the old value in its critical section meets the broadcast that
follows under the same mutex. The fabric is `F`, an instance of `Fabric` whose
actions are the worker's steps under `fabric_mutex`. Bounds: two tiles, two
starts and two accepted commands of the five kinds in `MCRuntime`: enough for a
tile to sit at a barrier, be stopped and meet a restart, and for every send and
thread creation to fail. `Terminated` keeps a freed runtime from counting as a
deadlock; any other deadlock is an error.

### Mmio and Host

The register file is a cache (`regs`): nothing changes it when the device or the
queue changes, until a sync or a write with a side effect copies the live state.
`Synced` composes the four copies of `att1_aimu_mmio_sync` in their order.
`MmioWrites` are the writes that reach a cell kept in `regs`: those with a side
effect, and `TailWrite`, which stores any 32 bits in CQ_TAIL. A write to
TILE_ERROR_STATUS clears all of its bits.
`Host` gives every call of the host its guard and its effect, and says whether
the userspace library's version flushes the file afterwards (`Flushed`) or the
call is the host's own or failed (`Unflushed`). Bounds: one tile, rings of two
slots, two commands; `RegisterRange` (4) is smaller than `IndexRange` (8), as
the registers' 16 bits are smaller than `size_t`, so that indices lose bits on
their way into registers.

### TileMem, Dma, Transfers

`TileMem` keeps the allocation table with its freed entries. `Sorted`, what the
insertion sort of the code returns (live entries by base, ties in table order),
and `Gaps` are the scan; the properties define the same things by sets of
bytes. The capacity (11) just below the address range (12) lets an alignment
wrap; four table entries fill up. `Dma` evaluates the checks of a descriptor in
their order, ends of ranges modulo the address range (16); `ValidIsInside`
quantifies over all descriptors of that size in every reachable set of regions.
`Transfers` is `att1_backend_pcie_load_tensor` with one step per chunk, between
which other programs submit, register and reset, and whose request or answer
may be lost. The caller's data type may be none and a length no multiple of the
Q4 groups (`ChunkForms`), so that a chunk may be refused for its form as well as for
its range. Two tensors, one resident entry, loads of up to two chunks and
three attempts make retries, refusals and the full table happen. Tensors are
interchangeable, which the run declares as a symmetry.

### Endpoint

One step per message: a client's call begins, sends a request, and receives an
answer; the daemon serves the request of the connection at the head of `line`.
A backend's call is submit, dispatch, poll, with a registration of its weight
before the first (`Progress`). Buffers are known by the command they belong to:
`pending` and `table` are the two tables by which results find their way, each
of which reuses slot 0 when it is full. `Die` may happen anywhere; the daemon
notices when it reads or writes. All calls outside the command queue behave
alike here and only their effect is counted (`tally`). The daemon may have been
started with `--once` (`run_once`): then it is gone after its first client. Each
client's connection carries one backend. Bounds: two clients, four
calls, one slot in the clients' tables and two in the daemon's; the completion
ring holds one entry, so that an abandoned completion fills it. The run ends
when clients are gone and calls used up, so deadlock is not checked.

### Bridge

A call is a sequence of calls on the endpoints, each of which is answered,
answered to nobody, or not made (`Called`); the first failure ends it (`Then`),
with the effects that have happened. The fabrics are inboxes that are first in,
first out, as `ImplementsFifo` shows of `Fabric`. The endpoints' own programs
send and receive meanwhile. Bounds: inboxes of two packets, three packets and
two arrivals of each side, one faulty call.

### Transformer, Infer, ShardPlan, Cluster

A float vector is known by how it was computed: the token it started from and
the layers and kind of weights applied. A forward pass is the set of its
outcomes, since every operation of a backend may fail: `Attention` appends
before it computes, so a failure may leave the entry. `Infer` runs one layer per
step. `Cluster` has the same context and runs tile by tile, each receiving and
sending packets of the fabric. Its refinement of `Infer` maps a tile that waits
for a packet to a point between two layers; sends and receives are stutters.
The cluster may refuse a step that a single tile would begin, when it has no memory
to check its plan (`StepRefused`), so that a step of it is one of `Infer`, such a
refusal, or a stutter.
`ShardPlan` has both ways to make a plan. Bounds: models of one to three layers
in three formats with any layers missing, two or four tiles (so that tiles are
empty), caches of two positions, prompts of zero to two tokens with one out of
the vocabulary. `AttemptLimit` bounds the steps begun; the run stops there, so
deadlock is not checked.

## 3. Runs

### 3.1 What holds

| Run | Properties | Shows |
|---|---|---|
| `kvmmu` | `TypeOK MappingUnique PagesOwned PrefixClosed NoEmptyPage CountersConsistent ImplementsStore` | the tables stay consistent through exhaustion, failed appends, destruction and reuse; the paging is invisible: reads and range copies return what was appended; hits, misses, reads and appends balance |
| `fabric` | `PacketsConserved BarrierConsistent ImplementsFifo RoundCompletes` | rings are bounded FIFO inboxes; broadcasts reach all destinations or none; sent = received + queued, across resets; a round loses no arrival and ends with the last |
| `cmdq` | `FencesConsecutive CommandsAccountedFor ImplementsChannel DispatchAllReturns` | order, capacity depth - 1, fences, termination of dispatch_all; each command is waiting, counted or known to be lost |
| `runtime` | `WorkersLeaveCleanly ArrivalsAreWaiters OperationsCounted BarrierMeets StopReturns RoundsAreLeft CommandsAreTaken` | workers, barrier, flags and counters over two starts; no wake-up is lost |
| `host` | `CountersWereTrue FileCoherent` | counters that any reader sees were the queue's at one moment, no earlier than the last snapshot; the mapped file agrees with itself about the queue |
| `tilemem` | `LiveDisjoint FirstFitIsLowest FragIsExact` | the scan finds the lowest aligned room whenever there is any; live allocations share no byte; fragmentation is exact |
| `transfers` | `ValidIsInside ResidencySound` | an accepted descriptor moves bytes of one registered region on each side, a refused one does not; a resident tensor was moved completely and once |
| `endpoint` | `OperandsLive EffectsOnce OwnWeight OwnAnswerBringsResult RequestsReturn` | buffers live as long as their command waits; calls take effect once; no command runs with another client's weight; requests are answered or their sender learns that the daemon is gone |
| `cluster` | `PlanSound CachesAgree FabricDrained ImplementsInfer` | plans cover every layer once; a context torn by a failed step never answers again; no packet outlives its step; the cluster answers as a single tile, unless it refuses a step for want of memory |
| `bridge` | `RelaySound RendezvousMeets` | per direction order without repetition; every loss was reported to some caller; without faults the mirrored barriers stay in step |

Type invariants (`FabricTypeOK`, `CmdqTypeOK`, `MmioTypeOK`, `HostTypeOK`,
`DmaTypeOK`, `MemTypeOK`, `EndpointTypeOK`, `ClusterTypeOK`, and `TypeOK` of
`Runtime`) are stated beside the actions and hold in these runs when added; only
that of `KVMMU`, which is proved, is part of one, the runs being reserved for
properties that say more.

### 3.2 Where documents and code differ

Two runs end in a violation, each of one property that states what a comment or
a document of the repository says:

| Run | Property | What the code does |
|---|---|---|
| `endpoint_answer` | `AnswerIsOwn` | "polls for the matching completion" (`src/backend_pcie.c:14`), but identifiers are not compared (line 123): a completion left by a client that died is taken by the next one, and so on for every later call. `OwnWeight` and `OwnAnswerBringsResult` say what still holds then |
| `cluster_order` | `RoutesInLayerOrder` | "always routes activations in layer order" (`docs/shard_metadata.md:1027`), but tiles run by identifier and a metadata plan may give an earlier layer to a later tile. `Cluster.cfg` therefore takes metadata that ascends; with it the refinement of `Infer` holds |

More such statements are kept as definitions. Each is violated when it is added
to the cfg named (`FixedCapacity` needs `GroupArgs <- RepeatedGroups` there):

| Definition (cfg) | What the code does |
|---|---|
| `Fabric!FixedCapacity` (`Fabric`) | a broadcast group that names a tile twice passes the preflight and overfills the queue (`src/fabric.c:386`) |
| `Host!CountersNeverGoBack` (`Host`) | counters "are cleared by `RESET_COUNTERS`" (`docs/aimu_register_map.md:742`), but a snapshot taken between a reset of the host and the next set-up of the queue leaves the queue out (`src/aimu_host.c:370`), and its older counters override the live ones at the sync |
| `Fabric!DefinedByArrival` (`Fabric`) | a refused first call leaves a round nobody arrived at (`src/fabric.c:522`) |
| `CmdQueue!AlwaysAnswered` (`CmdQueue`) | a full completion ring swallows the command (`src/aimu_cmdq.c:332`) |
| `Runtime!BarrierAcrossAllTiles` (`Runtime`) | after a stop request one tile can complete a round alone (`src/runtime.c:248`) |
| `Runtime!DestroyedAfterWorkers` (`Runtime`) | a start that fails midway leaves workers alive that no stop joins (`src/runtime.c:402`) |
| `TileMem!TableBoundsLive` (`TileMem`) | the table bounds allocations ever made, not live ones (`src/aimu_mem.c:132`) |
| `Host!ResetEmptiesQueue` (`Host`) | the host's reset leaves commands in the queue (`src/aimu_host.c:433`) |
| `Host!SyncPreservesTrace` (`Host`) | every sync clears TRACE_ACTIVE (`src/aimu_mmio.c:216`) |
| `Bridge!CompletesAfterBoth` (`Bridge`) | after a fault one fabric can complete a round its peer never joined (`src/aimu_cluster_bridge.c:163`) |

### 3.3 Fairness

`CmdQueue` assumes only that a call of `dispatch_all` goes on
(`WF(DispatchAllStep)`): it is a loop in one thread. `Runtime` assumes weak
fairness of each worker's steps and of the client's steps inside a call: these
are threads of the operating system, and every critical section is short. The
client is never obliged to make a call, and spurious wake-ups are never
obliged to happen, so no property is rescued by one. `Endpoint` assumes that the
daemon, one loop in one process, serves a request it can read and goes to the
next connection, and that a client blocked in a read wakes up when there is an
answer or the connection is closed. No client is obliged to call, to finish or
to die: `RequestsReturn` is stated for clients with only departed ones before
them in line, since the daemon serves one connection at a time for as long as it
lasts. All other modules have no fairness and no liveness properties: their
calls return at once.

## 4. Proofs

Every theorem holds for all values of the constants that the named assumptions
of its module allow, and for unbounded histories below any of the limits that
TLC's runs need. Each proof module states an inductive invariant, a lemma per
action, and the theorems that follow. The invariants were checked by TLC first,
added to the run of their module.

| Module | Theorems | What they state |
|---|---|---|
| `KVMMUProofs` | `InductiveInvariant` `TypeCorrect` `UniqueSessions` `UniqueMappings` `NoLeakedPage` `NoGaps` `NoIdlePage` `NoOverrun` `CountersAccount` `PagesImplementStore` | `IInv` and its parts, `CountersConsistent`, `ImplementsStore` |
| `CmdQueueProofs` | `QueueInductive` `EveryCommandCounted` `FencesInOrder` `RingsImplementChannel` | `CmdqInv`, `CommandsAccountedFor`, `FencesConsecutive`, `ImplementsChannel` |
| `FabricProofs` | `FabricInductive` `NoPacketLost` `RoundsAreOpen` `RoundsEndByArrival` `RingsStayInBounds` `RingsImplementInboxes` | `FabricInv`, `PacketsConserved`, `BarrierConsistent`, `RoundCompletes`, `FabricTypeOK` and `FixedCapacity`, `ImplementsFifo` |
| `RuntimeProofs` | `RuntimeInductive` `CleanExit` `ArrivalsCounted` `RoundsMeet` `TilesCountAsFabric` | `RuntimeInv`, `WorkersLeaveCleanly`, `ArrivalsAreWaiters`, `BarrierMeets`, `OperationsCounted` |
| `HostProofs` | `HostInductive` `ReadersSeeTruth` `FileStaysCoherent` | `HostInv`, `CountersWereTrue`, `FileCoherent` |
| `MemoryProofs` | `TransfersInductive` `ValidMovesExistingBytes` `ResidentTensorsAreMoved`; `AllocatorInductive` `AllocationsShareNoByte` `ScanFindsLowestRoom` `FragmentationIsExact` | `TransfersInv`, `ValidIsInside`, `ResidencySound`; `MemInv`, `LiveDisjoint`, `FirstFitIsLowest`, `FragIsExact` |
| `EndpointProofs` | `EndpointInductive` `CallsTakeEffectOnce` `WeightsInductive` `CommandsUseOwnWeight` `ResultsInductive` `OwnAnswersBringResults` `RoomInductive` `OperandsStayLive` | `EndpointInv`, `EffectsOnce`, `Weights`, `OwnWeight`, `ResultsKept`, `OwnAnswerBringsResult`, `Room`, `OperandsLive` |
| `ClusterProofs` | `PlansAreSound` `NothingStaysBehind` `ClusterAnswersAsOne` `CachesStayTogether`; `BridgeInductive` `RelayKeepsOrder` `RendezvousIsReal` | `PlanSound`, `FabricDrained`, `ImplementsInfer`, `CachesAgree`; `BridgeInv`, `RelaySound`, `RendezvousMeets` |

What an insertion, a removal and a failed attempt do to the entries of a ring is
proved for every depth, in `CmdQueueProofs` for free-running indices that wrap and
in `FabricProofs` for a head below the capacity.

### 4.1 Arguments

KV-MMU. `PrefixClosed`, on which `next_position` relies, is not inductive alone.
That an append extends the prefix needs `MappingUnique` (the page written is the
one every search finds); that a destroyed session leaves no hole needs
`PagesOwned` and `SessionsUnique` (all of its pages go, and no second entry
keeps it alive); that the first slot of a new page is the one written needs
`NoEmptyPage` and the arithmetic of `p \div d` and `p % d`, proved as `DivMod`
and its corollaries. `IInv` is the conjunction with `TypeOK`. For the
refinement, `WriteTokens` shows that a write changes the token of one address of
the store and no other, which is where the uniqueness of mappings is used;
`ReadLoopIsStoreQuery` shows that a read or a range copy, also one that stops
half way, answers from the store.

Command queue. An invariant about the slots in use (`CommandsKnown`,
`CompletionsKnown`) is enough for the counters and the refinement. The fences
need more: a completion lost to a full ring signals none, and the host has read
some. `FencesOrdered` says it of the sequence of what was read last and what can
still be read, and is preserved when an entry joins at the end or leaves at the
front. All step lemmas speak of `QueueStep`, a step of the queue by whoever
makes it, so that `HostProofs` uses them for the calls of the host.

Fabric. That packets are conserved and that a round is open are inductive with
the types, whatever groups are passed to broadcast. That no ring overflows is
not true of every caller: the preflight of a broadcast asks for one place for
each entry of the group, so a group that names a tile twice may take two.
`RingsStayInBounds` and `RingsImplementInboxes` therefore assume
`GroupsDistinct`: each group names a tile once, as those in the repository's
tests do, although nothing checks it. TLC refutes both without it
(section 3.2). The counter of bytes received is part of the type only there,
because an overfull ring may be read where nothing was written.

Runtime. Which worker may be where depends on where the client is: `Phases` says
it for each step of start and stop, `Leaving` for a worker that is out of its
loop. A round meets all tiles because the count of arrivals is the number of
workers inside (`Rounds`), the last one to arrive makes it `TileCount`, and the
set of all tiles is the only one of that size. `Rounds` holds only while no stop
has been requested, since a stop lets workers go without taking their arrivals
back; `att1_runtime_start` clears the barrier and begins a new generation before it
creates a worker. `OperationsCounted` compares a sum over the tiles with the
counters of the fabric. The sum is a recursive function, which is shown to exist
and to be the one with its equations by the least argument at which two such
functions would differ (`SumsExist`, `TotalIsLastSum`); one more in one table adds
one to the total (`TotalOfOneMore`). With that, `CounterInv` is inductive: each
step counts nothing (`Quiet`), or one packet at a tile and in the fabric.

Host. The registers hold fewer bits than the indices, so that the file's claim
(processing exactly when head and tail differ) follows from the queue only if
equal registers mean an empty queue. `TailAhead`, that the free-running indices
are apart by exactly the entries in the ring, together with
`CmdDepth <= RegisterRange` says so. `CountersWereTrue` has two sides. The counters
of registers, file and snapshot are not ahead of the queue (`NeverAhead`) because
the counters of the queue never decrease, by the lemma `StatsGrow`, and completions
are submitted first. They are no older than the last snapshot (`NoOlderThanSnapshot`)
because an effect shows the snapshot it leaves (`Fresh`): a sync copies the snapshot
last, RESET_COUNTERS empties it, and an effect with a new snapshot is always flushed
to the file (`NoNewSnapshot` holds of the others).

Transfers. That the table holds only tensors that were moved is not inductive:
an entry is made by the last chunk, from what the chunks before it moved.
`LoadHalfWay` keeps that a load under way has moved the bytes up to its offset,
that its tensor has no entry, and that there is room for one.

Tile memory. `MemInv` is short (types, live entries aligned and inside, any two
apart) and inductive because of where the scan puts a new entry. The work is in
the scan. Live entries that are apart have an ascending list (`SortedAscends`), so
that every gap is free of them (`GapsAreFree`), gaps ascend, and every free range
lies in one of them (`FreeBytesInGap`). Since alignments divide the address range,
aligning wraps only where no multiple follows, and otherwise gives the least one
not below the start (`AlignedIsLeast`); a gap whose aligned start has wrapped holds
nothing (`HeldIsRoom`). So the first gap that holds a request has the lowest room
(`FoundIsLowest`). For the fragmentation, the sum over the sorted entries is shown,
entry by entry, to count the bytes they hold (`UsedIsHeld`).

Endpoint. Four invariants build on each other. `EndpointInv` says what is in the
queue by identifier (`QueueOrder`: what waits are the last identifiers given out,
the completions are older and ascend) and what is on the wire (`Wire`: only the
client at the head of the line has begun a call of several requests, and a
request is that of its sender's call). `EffectsBalance`, its last part, is
`EffectsOnce` with the request that was sent and not served kept apart from the
answer that was sent and not read, which is what makes it inductive. `Weights`
follows a weight from its registration to the command: as the daemon serves one
connection at a time, only commands of the same client come between a load and
the runs after it (`RunsFollowLoads`), and commands run in the order of their
identifiers, so the last load executed (`LastLoadIsKept`) is that client's. A
stale completion does not disturb this, because the argument is about
submissions and not about answers. `ResultsKept` says that an entry is in both
tables from the submission's answer to the poll: a new entry may overwrite slot
0 of a full table, but the only call in flight is the one that made the last
entry. `Room` counts debts: every entry of the queue is owed by a client that
waits for it or has died, a client owes at most one (`Debtors`), and each command
in the queue whose buffers are needed has a slot. The table is then never full
when a command is submitted (`TableHasRoom`, by the pigeonhole principle), and
the completion ring never full when one is dispatched.

Cluster. Plans come first. The loop of `att1_shard_plan_build` is a recursive
function (`Boundaries`), whose existence and properties are shown by the least
tile at which they would fail: with q layers for each tile on average, rounded
down, what is left at a tile is enough for q layers on each tile still to come
and not for more than q + 1 (`LeftOver`), and a share rounded up keeps it so
(`ShareIsFair`). Hence the last tile ends at the last layer, every tile has q or
q + 1 layers, and the tile of a layer exists and is unique. For metadata, the
contiguity that `att1_shard_plan_from_meta` checks makes the range of a tile, from
its least to its greatest layer, hold exactly its layers (`RangeHoldsLayers`).
`FabricDrained` is not inductive: `Moves` says which packet is under way at each
point of a step (none, the activation for the tile that waits, or the logits), so
that no receive can find another packet and no send a full queue, and
`CountersMatch` corrects the counters by the one in flight. It needs no order of
layers. The refinement does: `RanUpTo` says which layers have run, in terms of the
plan, and with ascending tiles it follows that the layer to run is the number of
layers the activation has been through (`LayerIsDepth`), and that all have run
when the last tile ends (`AllHaveRun`). A step that the host refuses is a step of
`Infer` that fails, or `StepRefused`. `CachesHold` adds to `CachesAgree` that in
the middle of a step the layers that have run hold its token. A cache that is
ahead after a failed step needs no mention, because attention appends only at
the position and refuses the layer otherwise.

Bridge. A call is a set of outcomes, and the invariant is about the state within a
call (`Good`), so that it composes: each call on an endpoint takes a good
outcome to good outcomes. Packets are in two accounts of each direction, sent
minus delivered and waiting, and relayed minus taken from the proxy; a fault, and
only a fault, forgives one packet in each. For the order it is enough that what
was delivered and what waits ascend together (`InFlow`), which lost packets do
not disturb. For the barriers, `Marked` holds whatever failed (an end marked as
arrived has arrived) and `Exact` (nobody arrived unseen) until the first fault;
a proxy arrival that is refused contradicts `Exact`, so that it implies that a
fault has happened before.

### 4.2 Assumptions

The assumptions are those the modules state, which TLC evaluates in every run.
Those that carry weight in a proof:

- `CmdqConfigValid`: the ring depths divide the range of the indices (powers of
  two, checked by `att1_aimu_cmdq_create`). `NoEntryIsNone`: what stands for a
  slot never written is no command and no completion.
- `MmioConfigValid`: a ring is no longer than what a register can index (at most
  4096 entries, `include/att1_aimu_cmdq.h:37`, and 16 bits).
- `DmaConfigValid`, `TransfersConfigValid`: addresses are below the address range,
  region sizes and chunk lengths are values of it (64-bit and 32-bit fields).
- `TileMemConfigValid`: the address range is a multiple of every alignment that is
  accepted (2^64, and powers of two up to `ATT1_AIMU_MEM_MAX_ALIGN`), and larger
  than the capacity.
- `EndpointConfigValid`: finitely many clients, tables of at least one slot, and
  an execution hook that accepts commands (installed at start-up).
- `RoomForAll`, a hypothesis of `RoomInductive` and `OperandsStayLive` only: the
  daemon's table has a slot, and its completion ring a place, for each client that
  ever connects. The daemon's table has 16 (`tools/att1-aimu-endpoint.c:89`) and its
  ring 64 entries (`src/aimu_conformance.c:52`), so it covers 16 connections in
  the life of a daemon; a client that dies can leave a command behind for good.
  It is needed: TLC refutes `OperandsLive` for three clients with two slots, and
  with three slots and `CompDepth` 2 (in seven calls). With three slots and
  `CompDepth` 4 it finds `OperandsLive` and all four invariants to hold for up to
  four calls. The run `endpoint` has two clients, two slots and a completion ring
  that holds one entry, outside of the hypothesis; its property holds there too.
- `ClusterConfigValid`: models have layers and clusters tiles (refused otherwise,
  `src/model_view.c:242`, `src/cluster_infer.c:607`), a queue holds a packet (a
  configured capacity of zero stands for four, line 613).
- `MetadataInOrder`, a hypothesis of `ClusterAnswersAsOne` and `CachesStayTogether`
  only: where shard metadata is accepted, its tiles ascend with the layers. The code
  does not check it, and the run `cluster_order` shows what happens without it.
  Plans made at run time are proved to be in order.
- `FabricConfigValid`, `ConfigValid`, `ArgumentsAreSizes`: what the callers pass are
  sizes, and arrays of them.

### 4.3 Only model-checked

- Liveness (`DispatchAllReturns`, `StopReturns`, `RoundsAreLeft`,
  `CommandsAreTaken`, `RequestsReturn`): there is no reasoning about ENABLED.
- `ClusterAnswersAsOne` and `CachesStayTogether` outside of `MetadataInOrder`, where
  they do not hold.
- `OperandsLive` outside of `RoomForAll`.

## 5. Not modelled

- Floating-point arithmetic: kernels, quantization, the values of logits. A
  vector is known by how it was computed, and the sampler may choose any token.
- The command-line tools (`tools/att1-size.c`, `att1-aimu-replay-fidelity.c`,
  `att1-bench.c`, ...), tokenizer, model file format, rendering and logging, and
  the Python tools: sequential computation over files and text, without state
  that several calls share.
- `src/aimu_exec.c`: counts commands by type in one pass.
- `src/backend_cuda.c`: copies and kernels around the same operations as the CPU
  backends.
- Runtime: a second start after a failed one, which would put two workers on
  one tile, and several client threads at once.
- Registers that only hold what was written to them; DMA and fabric counters in
  trace snapshots; capabilities of the device.
- Endpoint: requests refused for their sizes, sockets that fail while both ends
  live, commands without an output buffer, two backends on one connection, more than
  one weight per backend. The last bound means that `OwnWeight` speaks of the
  identifier all backends give first.
- Command queue: identifiers and fence values beyond 32 bits.
- Registers: a write to TILE_ERROR_STATUS that clears some of its bits.
- Plans: the refusal of a model that says it is sharded (`src/shard.c:21`), which
  only means that no context is created.
- Cluster: parsing of layer names and the comparison of plans.

## 6. Plan

1. Type correctness of `Mmio` as a theorem of its own.
2. `src/aimu_exec.c` and the replay of command traces, which reuse the command queue.
