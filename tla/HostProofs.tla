----------------------------- MODULE HostProofs -----------------------------
(***************************************************************************)
(* What readers of the registers, of the mapped file and of the counter    *)
(* snapshot see: for every number of tiles, depth of the rings and width   *)
(* of the registers, as long as a ring fits into the registers' indices.   *)
(***************************************************************************)
EXTENDS Host, CmdQueueProofs, FiniteSetTheorems

(***************************************************************************)
(* Indices and their registers.                                            *)
(***************************************************************************)

\* A register keeps of an index what the index has modulo the register's range.
LEMMA ModCoarser ==
    ASSUME NEW d \in Nat \ {0}, NEW R \in Nat \ {0}, R % d = 0,
           NEW x \in Int, NEW y \in Int, x % R = y % R
    PROVE  x % d = y % d
  <1> DEFINE k == R \div d
             a == x \div R
             b == y \div R
             r == x % R
  <1>1. k \in Int /\ R = k * d
    BY DivModInt
  <1>2. a \in Int /\ b \in Int /\ r \in Int /\ x = a * R + r /\ y = b * R + r
    BY DivModInt
  <1> HIDE DEF k, a, b, r
  <1>3. a * k \in Int /\ b * k \in Int /\ x = (a * k) * d + r /\ y = (b * k) * d + r
    BY <1>1, <1>2
  <1> DEFINE p == a * k
             q == b * k
  <1>4. p \in Int /\ q \in Int /\ x = p * d + r /\ y = q * d + r
    BY <1>3
  <1> HIDE DEF p, q
  <1>5. (p * d + r) % d = r % d /\ (q * d + r) % d = r % d
    BY <1>2, <1>4, ModTurns
  <1>6. QED
    BY <1>4, <1>5

\* The indices are as far apart as the ring has entries, whatever has wrapped.
TailAhead == Used(cmdHead, cmdTail, IndexRange) = CmdUsed

LEMMA InitTailAhead == CmdqInit => TailAhead
  <1>1. 0 - 0 = 0 /\ 0 % IndexRange = 0 /\ 0 % CmdDepth = 0
    BY ModSmall, DepthTypes
  <1>2. QED
    BY <1>1 DEF CmdqInit, TailAhead, Used, CmdUsed

\* A ring is no longer than the range of its indices.
LEMMA DepthInRange == CmdDepth <= IndexRange
  BY CmdqConfigValid

LEMMA NextTailAhead ==
    ASSUME CmdqInv, QueueStep, TailAhead
    PROVE  TailAhead'
  <1> DEFINE u == Used(cmdHead, cmdTail, IndexRange)
  <1>0. /\ RingsOK /\ u = CmdUsed /\ CmdUsed \in 0..CmdDepth - 1 /\ CmdUsed \in Nat
        /\ cmdHead \in Int /\ cmdTail \in Int
        /\ CmdDepth \in Nat /\ IndexRange \in Nat \ {0}
    <2>1. RingsOK /\ u = CmdUsed
      BY CmdqInvParts DEF TailAhead
    <2>2. CmdUsed \in 0..CmdDepth - 1
      BY <2>1, PendingTypes
    <2>3. QED
      BY <2>1, <2>2, DepthTypes DEF RingsOK
  <1>1. \A x \in Indexes : Advanced(x) \in Int /\ Advanced(x) % IndexRange = (x + 1) % IndexRange
    <2> TAKE x \in Indexes
    <2>1. Advanced(x) \in Indexes /\ Advanced(x) \in Int
      BY AdvancedIndex, DepthTypes
    <2>2. Advanced(x) % IndexRange = Advanced(x)
      BY <2>1, ModSmall, DepthTypes DEF Indexes
    <2>3. QED
      BY <2>1, <2>2 DEF Advanced
  <1>2. ASSUME NEW tile, NEW kind \in KindArgs, NEW fenced \in BOOLEAN, Submit(tile, kind, fenced)
        PROVE  TailAhead'
    <2> DEFINE e == [id |-> nextId, tile |-> tile, kind |-> kind, fenced |-> fenced]
    <2>1. e \in Commands
      BY <1>2, CmdqConfigValid DEF Submit, Commands, CommandKinds, CmdqInv, CmdqTypeOK
    <2>2. /\ CmdUsed + 1 < CmdDepth
          /\ cmdRing' = [cmdRing EXCEPT ![cmdTail % CmdDepth] = e]
          /\ cmdTail' = Advanced(cmdTail) /\ cmdHead' = cmdHead
      BY <1>2 DEF Submit
    <2> HIDE DEF e
    <2>3. CmdUsed' = CmdUsed + 1
      BY <1>0, <2>1, <2>2, CommandPushed
    <2>4. /\ cmdTail' \in Int /\ cmdTail' % IndexRange = (cmdTail + 1) % IndexRange
          /\ u + 1 < IndexRange
      BY <1>0, <1>1, <2>2, DepthInRange DEF RingsOK
    <2>5. Used(cmdHead, cmdTail', IndexRange) = u + 1
      BY <1>0, <2>4, UsedAfterPush
    <2>6. QED
      BY <1>0, <2>2, <2>3, <2>5 DEF TailAhead
  <1>3. ASSUME DispatchOne
        PROVE  TailAhead'
    <2>1. /\ CmdUsed # 0 /\ cmdHead' = Advanced(cmdHead) /\ cmdRing' = cmdRing
          /\ cmdTail' = cmdTail
      BY <1>3 DEF DispatchOne
    <2>2. CmdUsed' = CmdUsed - 1
      BY <1>0, <2>1, CommandTaken
    <2>3. cmdHead' \in Int /\ cmdHead' % IndexRange = (cmdHead + 1) % IndexRange /\ u # 0
      BY <1>0, <1>1, <2>1 DEF RingsOK
    <2>4. Used(cmdHead', cmdTail, IndexRange) = u - 1
      BY <1>0, <2>3, UsedAfterPop
    <2>5. QED
      BY <1>0, <2>1, <2>2, <2>4 DEF TailAhead
  <1>4. CASE UNCHANGED cmdVars
    BY <1>4 DEF TailAhead, Used, CmdUsed, cmdVars
  <1>5. PollCompletion \/ QuietStep \/ UNCHANGED cmdqVars => UNCHANGED cmdVars
    BY DEF PollCompletion, QuietStep, cmdqVars, cmdVars, SetExecHook, SubmitBadTile, SubmitFull,
           DispatchAllBegin, DispatchAllEnd
  <1>6. QED
    BY <1>2, <1>3, <1>4, <1>5 DEF QueueStep

\* Hence two registers tell whether the ring is empty.
LEMMA RegistersTellEmpty ==
    CmdqInv /\ TailAhead =>
        (cmdHead # cmdTail <=> cmdHead % RegisterRange # cmdTail % RegisterRange)
  <1> SUFFICES ASSUME CmdqInv, TailAhead
               PROVE  cmdHead # cmdTail <=> cmdHead % RegisterRange # cmdTail % RegisterRange
    OBVIOUS
  <1> DEFINE u == CmdUsed
             t == cmdHead + u
  <1>1. /\ RingsOK /\ u \in 0..CmdDepth - 1 /\ u \in Int /\ t \in Int
        /\ cmdHead \in Int /\ cmdTail \in Int
        /\ IndexRange \in Nat \ {0} /\ RegisterRange \in Nat \ {0} /\ CmdDepth \in Nat
        /\ IndexRange % RegisterRange = 0 /\ CmdDepth <= RegisterRange
    <2>1. RingsOK
      BY CmdqInvParts
    <2>2. u \in 0..CmdDepth - 1
      BY <2>1, PendingTypes
    <2>3. QED
      BY <2>1, <2>2, DepthTypes, MmioConfigValid DEF RingsOK
  <1>2. cmdTail % IndexRange = t % IndexRange
    BY <1>1, UsedRange DEF TailAhead
  <1>3. CASE u = 0
    <2>1. cmdTail % IndexRange = cmdHead % IndexRange
      BY <1>1, <1>2, <1>3
    <2>2. cmdHead \in 0..IndexRange - 1 /\ cmdTail \in 0..IndexRange - 1
      BY <1>1 DEF RingsOK, Indexes
    <2>3. cmdTail = cmdHead
      BY <1>1, <2>1, <2>2, ModSmall
    <2>4. QED
      BY <2>3
  <1>4. CASE u # 0
    <2> HIDE DEF t, u
    <2>1. cmdTail % RegisterRange = t % RegisterRange
      <3>1. /\ IndexRange \in Nat \ {0} /\ RegisterRange \in Nat \ {0}
            /\ IndexRange % RegisterRange = 0 /\ cmdTail \in Int /\ t \in Int
            /\ cmdTail % IndexRange = t % IndexRange
        BY <1>1, <1>2
      <3>2. QED
        BY <3>1, ModCoarser, ZenonT(60)
    <2>2. /\ 0 < u /\ u - 0 < RegisterRange /\ RegisterRange \in Nat \ {0}
          /\ cmdHead \in Int /\ 0 \in Int /\ u \in Int
      BY <1>1, <1>4
    <2>3. (cmdHead + 0) % RegisterRange # (cmdHead + u) % RegisterRange
      BY <2>2, ModApart, Zenon
    <2>4. cmdHead % RegisterRange # cmdTail % RegisterRange
      <3>1. cmdHead + 0 = cmdHead
        BY <1>1
      <3>2. QED
        BY <2>1, <2>3, <3>1 DEF t
    <2>5. QED
      BY <2>4
  <1>5. QED
    BY <1>3, <1>4

(***************************************************************************)
(* Registers and snapshots that tell what the queue has counted by s.      *)
(***************************************************************************)
Counters == [CounterRegisters -> Nat]
Devices == [Tiles -> TileInfos]
Snapshots == [status : SnapshotStatuses, tileErrors : Nat, cmdq : Counters]
Registers ==
    [status : SUBSET GlobalStatusBits, tileState : [Tiles -> TileStates],
     tileError : [Tiles -> ErrorCodes \cup {0}],
     queue : [QueueRegisters -> Nat],
     processing : BOOLEAN, counters : Counters]

CountersTrue(c, s) ==
    c.issued <= s.submitted /\ c.completed <= c.issued /\ c.queueFull <= s.queueFull

RegsTrue(r, s) == r \in Registers /\ CountersTrue(r.counters, s)
SnapTrue(x, s) == x \in Snapshots /\ CountersTrue(x.cmdq, s)
StatsTrue(s) == s \in Stats /\ s.completed <= s.submitted

\* Registers r that show no less than the snapshot x.
Fresh(x, r) ==
    x.status # "EMPTY" => \A c \in CounterRegisters : x.cmdq[c] <= r.counters[c]

\* The queue as a sync sees it, with the counters s.
QueueSeen(q, s) ==
    /\ q.attached \in BOOLEAN /\ q.head \in Int /\ q.tail \in Int
    /\ q.stats = s

LEMMA QueueCountersTrue ==
    ASSUME NEW s, StatsTrue(s)
    PROVE  QueueCounters(s) \in Counters /\ CountersTrue(QueueCounters(s), s)
  <1>1. /\ s.submitted \in Nat /\ s.completed \in Nat /\ s.queueFull \in Nat /\ s.failed \in Nat
        /\ s.completed <= s.submitted
    BY DEF StatsTrue, Stats
  <1>2. QueueCounters(s) \in Counters
    BY <1>1 DEF QueueCounters, Counters, CounterRegisters
  <1>3. QED
    BY <1>1, <1>2 DEF QueueCounters, CountersTrue

\* The counter of errors is none that a sync bounds.
LEMMA ErrorsAside ==
    ASSUME NEW c \in Counters, NEW n \in Nat, NEW s, CountersTrue(c, s)
    PROVE  [c EXCEPT !.errors = n] \in Counters /\ CountersTrue([c EXCEPT !.errors = n], s)
  BY DEF Counters, CounterRegisters, CountersTrue

LEMMA ZeroCountersTrue ==
    ASSUME NEW s \in Stats
    PROVE  ZeroCounters \in Counters /\ CountersTrue(ZeroCounters, s)
  BY DEF ZeroCounters, Counters, CounterRegisters, CountersTrue, Stats

\* What was true stays true when the queue counts on.
LEMMA CountersStayTrue ==
    ASSUME NEW c \in Counters, NEW s \in Stats, NEW s2 \in Stats, CountersTrue(c, s),
           s2.submitted >= s.submitted, s2.queueFull >= s.queueFull
    PROVE  CountersTrue(c, s2)
  BY DEF Counters, CounterRegisters, CountersTrue, Stats

\* Putting other values into a register file.
LEMMA RegsWithCounters ==
    ASSUME NEW s, NEW r \in Registers, NEW c \in Counters, CountersTrue(c, s)
    PROVE  RegsTrue([r EXCEPT !.counters = c], s)
  BY DEF RegsTrue, Registers

LEMMA RegsWithStatus ==
    ASSUME NEW s, NEW r, RegsTrue(r, s), NEW bits \in SUBSET GlobalStatusBits
    PROVE  RegsTrue([r EXCEPT !.status = bits], s)
  BY DEF RegsTrue, Registers

LEMMA DefaultsTrue ==
    ASSUME NEW s, NEW r, RegsTrue(r, s)
    PROVE  RegsTrue(Defaults(r), s)
  BY RegsWithStatus DEF Defaults, GlobalStatusBits

LEMMA FromDeviceTrue ==
    ASSUME NEW s, NEW r, RegsTrue(r, s), NEW dev \in Devices
    PROVE  RegsTrue(FromDevice(r, dev), s)
  <1> DEFINE bits == {"READY"} \cup (IF SomeTile(dev, "ACTIVE") THEN {"ANY_ACTIVE"} ELSE {})
                               \cup (IF SomeTile(dev, "ERROR") THEN {"ANY_ERROR"} ELSE {})
                               \cup (r.status \cap {"TRACE_ACTIVE"})
             states == [t \in Tiles |-> dev[t].state]
             errors == [t \in Tiles |-> dev[t].error]
  <1>1. bits \in SUBSET GlobalStatusBits
    BY DEF GlobalStatusBits
  <1>2. states \in [Tiles -> TileStates] /\ errors \in [Tiles -> ErrorCodes \cup {0}]
    BY DEF Devices, TileInfos
  <1>3. FromDevice(r, dev) = [r EXCEPT !.status = bits, !.tileState = states, !.tileError = errors]
    BY DEF FromDevice
  <1> HIDE DEF bits, states, errors
  <1>4. QED
    BY <1>1, <1>2, <1>3 DEF RegsTrue, Registers

LEMMA RegisterTypes == \A x \in Int : x % RegisterRange \in Nat
  BY MmioConfigValid, DivModInt

LEMMA FromQueueTrue ==
    ASSUME NEW s, StatsTrue(s), NEW r, RegsTrue(r, s), NEW q, QueueSeen(q, s)
    PROVE  RegsTrue(FromQueue(r, q), s)
  <1>1. CASE ~q.attached
    BY <1>1 DEF FromQueue
  <1>2. CASE q.attached
    <2> DEFINE cells == [head |-> q.head % RegisterRange, tail |-> q.tail % RegisterRange,
                         fence |-> q.stats.fence % RegisterRange]
               busy == (q.head # q.tail)
               c == [QueueCounters(q.stats) EXCEPT !.errors = r.counters.errors]
    <2>1. cells \in [QueueRegisters -> Nat]
      <3>1. q.head \in Int /\ q.tail \in Int /\ q.stats.fence \in Int
        BY DEF QueueSeen, StatsTrue, Stats
      <3>2. /\ q.head % RegisterRange \in Nat
            /\ q.tail % RegisterRange \in Nat
            /\ q.stats.fence % RegisterRange \in Nat
        BY <3>1, RegisterTypes
      <3>3. QED
        BY <3>2 DEF QueueRegisters
    <2>2. c \in Counters /\ CountersTrue(c, s)
      <3>1. r.counters.errors \in Nat
        BY DEF RegsTrue, Registers, Counters, CounterRegisters
      <3>2. QED
        BY <3>1, QueueCountersTrue, ErrorsAside DEF QueueSeen
    <2>3. FromQueue(r, q) = [r EXCEPT !.queue = cells, !.processing = busy, !.counters = c]
      BY <1>2 DEF FromQueue
    <2>4. busy \in BOOLEAN
      OBVIOUS
    <2> HIDE DEF cells, busy, c
    <2>5. QED
      BY <2>1, <2>2, <2>3, <2>4 DEF RegsTrue, Registers
  <1>3. QED
    BY <1>1, <1>2 DEF QueueSeen

LEMMA FromTraceTrue ==
    ASSUME NEW s, NEW r, RegsTrue(r, s), NEW x, SnapTrue(x, s)
    PROVE  RegsTrue(FromTrace(r, x), s)
  <1> DEFINE c == [x.cmdq EXCEPT !.errors = @ + x.tileErrors]
  <1>1. c \in Counters /\ CountersTrue(c, s)
    <2> DEFINE n == x.cmdq.errors + x.tileErrors
    <2>1. x.cmdq \in Counters /\ n \in Nat
      BY DEF SnapTrue, Snapshots, Counters, CounterRegisters
    <2> HIDE DEF n
    <2>2. [x.cmdq EXCEPT !.errors = n] \in Counters
          /\ CountersTrue([x.cmdq EXCEPT !.errors = n], s)
      BY <2>1, ErrorsAside DEF SnapTrue
    <2>3. QED
      BY <2>2 DEF n
  <1> HIDE DEF c
  <1>2. RegsTrue([r EXCEPT !.counters = c], s)
    BY <1>1, RegsWithCounters DEF RegsTrue
  <1>3. QED
    BY <1>2 DEF FromTrace, c

\* att1_aimu_mmio_sync: its four copies, in their order.
LEMMA SyncedTrue ==
    ASSUME NEW s, StatsTrue(s), NEW r, RegsTrue(r, s), NEW dev \in Devices,
           NEW q, QueueSeen(q, s), NEW x, SnapTrue(x, s)
    PROVE  RegsTrue(Synced(r, dev, q, x), s)
  BY DefaultsTrue, FromDeviceTrue, FromQueueTrue, FromTraceTrue DEF Synced

\* A sync with the queue attached copies both indices and compares them.
\* A sync ends with the snapshot.
LEMMA FromTraceFresh ==
    ASSUME NEW s, NEW r, RegsTrue(r, s), NEW x, SnapTrue(x, s)
    PROVE  Fresh(x, FromTrace(r, x))
  <1> DEFINE c == [x.cmdq EXCEPT !.errors = @ + x.tileErrors]
  <1>1. /\ x.cmdq \in [CounterRegisters -> Nat] /\ x.tileErrors \in Nat
        /\ "counters" \in DOMAIN r
    BY DEF SnapTrue, Snapshots, Counters, RegsTrue, Registers
  <1>2. \A k \in CounterRegisters : x.cmdq[k] <= c[k]
    BY <1>1 DEF CounterRegisters
  <1>3. x.status # "EMPTY" => FromTrace(r, x) = [r EXCEPT !.counters = c]
    BY DEF FromTrace
  <1> HIDE DEF c
  <1>4. x.status # "EMPTY" => FromTrace(r, x).counters = c
    BY <1>1, <1>3
  <1>5. QED
    BY <1>2, <1>4 DEF Fresh

LEMMA SyncedFresh ==
    ASSUME NEW s, StatsTrue(s), NEW r, RegsTrue(r, s), NEW dev \in Devices,
           NEW q, QueueSeen(q, s), NEW x, SnapTrue(x, s)
    PROVE  Fresh(x, Synced(r, dev, q, x))
  BY DefaultsTrue, FromDeviceTrue, FromQueueTrue, FromTraceFresh DEF Synced

LEMMA SyncedQueue ==
    ASSUME NEW s, NEW r, RegsTrue(r, s), NEW dev \in Devices, NEW q, q.attached, NEW x
    PROVE  LET y == Synced(r, dev, q, x)
           IN  /\ y.queue["head"] = q.head % RegisterRange
               /\ y.queue["tail"] = q.tail % RegisterRange
               /\ y.processing = (q.head # q.tail)
  <1> DEFINE a == FromDevice(Defaults(r), dev)
             b == FromQueue(a, q)
  <1>1. a \in Registers
    BY DefaultsTrue, FromDeviceTrue DEF RegsTrue
  <1> HIDE DEF a
  <1>2. /\ b.queue["head"] = q.head % RegisterRange
        /\ b.queue["tail"] = q.tail % RegisterRange
        /\ b.processing = (q.head # q.tail)
        /\ \A c : [b EXCEPT !.counters = c].queue = b.queue
                  /\ [b EXCEPT !.counters = c].processing = b.processing
    BY <1>1 DEF FromQueue, Registers
  <1> HIDE DEF b
  <1>3. Synced(r, dev, q, x) = FromTrace(b, x)
    BY DEF Synced, a, b
  <1>4. QED
    BY <1>2, <1>3 DEF FromTrace

(***************************************************************************)
(* The inductive invariant: the queue's own, the types of the device, the  *)
(* snapshot, the registers and the file, the truth of their counters, and  *)
(* the coherence of the file.                                              *)
(***************************************************************************)
QueueSound == CmdqInv /\ CommandsAccountedFor /\ TailAhead

Flags == probed \in BOOLEAN /\ ready \in BOOLEAN /\ mapped \in BOOLEAN /\ attached \in BOOLEAN

MirrorsTrue ==
    /\ device \in Devices /\ SnapTrue(snapshot, stats)
    /\ RegsTrue(regs, stats) /\ RegsTrue(file, stats)

HostInv == QueueSound /\ Flags /\ MirrorsTrue /\ FileCoherent /\ NoOlderThanSnapshot

EffectTrue(e) ==
    /\ e.device \in Devices /\ SnapTrue(e.snapshot, stats) /\ RegsTrue(e.regs, stats)
    /\ Fresh(e.snapshot, e.regs)

\* Effects after which the file need not be flushed.
NoNewSnapshot(e) == e.snapshot = snapshot \/ e.snapshot.status = "EMPTY"

LEMMA FreshMirrors ==
    NoOlderThanSnapshot <=> Fresh(snapshot, regs) /\ (mapped => Fresh(snapshot, file))
  BY DEF NoOlderThanSnapshot, Fresh

LEMMA CompletedWereSubmitted == QueueSound => StatsTrue(stats)
  <1> SUFFICES ASSUME QueueSound
               PROVE  StatsTrue(stats)
    OBVIOUS
  <1>1. stats \in Stats /\ CmdUsed \in Nat
    BY CmdqInvParts, PendingTypes, DepthTypes DEF QueueSound, ControlOK
  <1>2. /\ stats.completed \in Nat /\ stats.compqFull \in Nat /\ stats.submitted \in Nat
        /\ CmdUsed + stats.completed + stats.compqFull <= stats.submitted
    BY <1>1 DEF QueueSound, CommandsAccountedFor, Stats
  <1>3. QED
    BY <1>1, <1>2 DEF StatsTrue

LEMMA LiveQueueSeen ==
    QueueSound /\ attached \in BOOLEAN => QueueSeen(LiveQueue, stats)
  BY CmdqInvParts, DepthTypes DEF QueueSound, QueueSeen, LiveQueue, RingsOK

\* The step of the queue and what it keeps of the counters.
QueueMoves ==
    /\ QueueSound' /\ stats \in Stats /\ stats' \in Stats
    /\ stats'.submitted >= stats.submitted /\ stats'.queueFull >= stats.queueFull

LEMMA QueueStepMoves ==
    ASSUME QueueSound, QueueStep
    PROVE  QueueMoves
  BY CmdqNextInv, NextAccounts, NextTailAhead, StatsGrow, CmdqInvParts
     DEF QueueSound, QueueMoves, ControlOK

LEMMA EffectStaysTrue ==
    ASSUME QueueMoves, NEW e, EffectTrue(e)
    PROVE  /\ e.device \in Devices /\ SnapTrue(e.snapshot, stats') /\ RegsTrue(e.regs, stats')
           /\ RegsTrue(file, stats) => RegsTrue(file, stats')
  BY CountersStayTrue DEF QueueMoves, EffectTrue, SnapTrue, RegsTrue, Snapshots, Registers

\* A call that is flushed: everything that readers see is the queue's at its end.
LEMMA FlushedKeeps ==
    ASSUME HostInv, QueueMoves, NEW e, EffectTrue(e), Flushed(e),
           probed' \in BOOLEAN, ready' \in BOOLEAN, attached' \in BOOLEAN
    PROVE  HostInv'
  <1>1. /\ e.device \in Devices /\ SnapTrue(e.snapshot, stats') /\ RegsTrue(e.regs, stats')
        /\ RegsTrue(file, stats')
    BY EffectStaysTrue DEF HostInv, MirrorsTrue
  <1>2. StatsTrue(stats') /\ QueueSeen(LiveQueue', stats')
    <2>1. QueueSound' /\ (attached \in BOOLEAN)'
      BY DEF QueueMoves
    <2>2. (QueueSound => StatsTrue(stats))'
      BY CompletedWereSubmitted, PTL
    <2>3. (QueueSound /\ attached \in BOOLEAN => QueueSeen(LiveQueue, stats))'
      BY LiveQueueSeen, PTL
    <2>4. QED
      BY <2>1, <2>2, <2>3 DEF StatsTrue, QueueSeen
  <1>3. /\ device' = e.device /\ snapshot' = e.snapshot /\ mapped' = mapped
        /\ mapped => regs' = Synced(e.regs, e.device, LiveQueue', e.snapshot) /\ file' = regs'
        /\ ~mapped => regs' = e.regs /\ file' = file
    BY DEF Flushed
  <1>4. RegsTrue(Synced(e.regs, e.device, LiveQueue', e.snapshot), stats')
    BY <1>1, <1>2, SyncedTrue
  <1>5. Flags'
    BY <1>3 DEF HostInv, Flags
  <1>6. RegsTrue(regs', stats') /\ RegsTrue(file', stats')
    BY <1>1, <1>3, <1>4
  <1>7. MirrorsTrue'
    BY <1>1, <1>3, <1>6 DEF MirrorsTrue, SnapTrue, RegsTrue
  <1>8. FileCoherent'
    <2> SUFFICES ASSUME mapped', attached'
                 PROVE  file'.processing <=> file'.queue["head"] # file'.queue["tail"]
      BY DEF FileCoherent
    <2>1. file' = Synced(e.regs, e.device, LiveQueue', e.snapshot)
      BY <1>3
    <2>2. /\ LiveQueue'.attached
          /\ LiveQueue'.head = cmdHead' /\ LiveQueue'.tail = cmdTail'
      BY DEF LiveQueue
    <2>3. /\ file'.queue["head"] = cmdHead' % RegisterRange
          /\ file'.queue["tail"] = cmdTail' % RegisterRange
          /\ file'.processing = (cmdHead' # cmdTail')
      BY <1>1, <2>1, <2>2, SyncedQueue
    <2>4. (CmdqInv /\ TailAhead =>
              (cmdHead # cmdTail <=> cmdHead % RegisterRange # cmdTail % RegisterRange))'
      BY RegistersTellEmpty, PTL
    <2>5. cmdHead' # cmdTail' <=> cmdHead' % RegisterRange # cmdTail' % RegisterRange
      BY <2>4 DEF QueueMoves, QueueSound
    <2>6. QED
      BY <2>3, <2>5
  <1>9. NoOlderThanSnapshot'
    <2>1. Fresh(e.snapshot, Synced(e.regs, e.device, LiveQueue', e.snapshot))
      BY <1>1, <1>2, SyncedFresh
    <2>2. Fresh(e.snapshot, regs') /\ (mapped' => Fresh(e.snapshot, file'))
      BY <1>3, <1>5, <2>1 DEF EffectTrue, Flags
    <2>3. (Fresh(snapshot, regs) /\ (mapped => Fresh(snapshot, file)))'
      BY <1>3, <2>2 DEF Fresh
    <2>4. QED
      BY <2>3, FreshMirrors, PTL
  <1>10. QED
    BY <1>5, <1>7, <1>8, <1>9 DEF HostInv, QueueMoves

\* A call that is not flushed: the file keeps what it showed.
LEMMA UnflushedKeeps ==
    ASSUME HostInv, QueueMoves, NEW e, EffectTrue(e), Unflushed(e),
           probed' \in BOOLEAN, ready' \in BOOLEAN, attached' \in BOOLEAN,
           attached' /\ ready' => attached /\ ready, NoNewSnapshot(e)
    PROVE  HostInv'
  <1>1. /\ e.device \in Devices /\ SnapTrue(e.snapshot, stats') /\ RegsTrue(e.regs, stats')
        /\ RegsTrue(file, stats')
    BY EffectStaysTrue DEF HostInv, MirrorsTrue
  <1>2. /\ device' = e.device /\ snapshot' = e.snapshot /\ regs' = e.regs
        /\ mapped' = mapped /\ file' = file
    BY DEF Unflushed
  <1>3. Flags' /\ MirrorsTrue' /\ FileCoherent'
    BY <1>1, <1>2 DEF HostInv, Flags, MirrorsTrue, FileCoherent, SnapTrue, RegsTrue
  <1>4. NoOlderThanSnapshot'
    <2>1. Fresh(e.snapshot, regs') /\ (mapped' => Fresh(e.snapshot, file'))
      BY <1>2, FreshMirrors DEF EffectTrue, NoNewSnapshot, HostInv, Fresh
    <2>2. (Fresh(snapshot, regs) /\ (mapped => Fresh(snapshot, file)))'
      BY <1>2, <2>1 DEF Fresh
    <2>3. QED
      BY <2>2, FreshMirrors, PTL
  <1>5. QED
    BY <1>3, <1>4 DEF HostInv, QueueMoves

(***************************************************************************)
(* The effects of the calls.                                               *)
(***************************************************************************)
LEMMA EffectParts ==
    ASSUME NEW dev, NEW x, NEW r
    PROVE  LET e == Effect(dev, x, r) IN e.device = dev /\ e.snapshot = x /\ e.regs = r
  BY DEF Effect

LEMMA HostInvParts ==
    HostInv =>
        /\ device \in Devices /\ SnapTrue(snapshot, stats) /\ RegsTrue(regs, stats)
        /\ StatsTrue(stats) /\ QueueSeen(LiveQueue, stats) /\ stats \in Stats
        /\ Fresh(snapshot, regs)
  BY CompletedWereSubmitted, LiveQueueSeen, FreshMirrors DEF HostInv, MirrorsTrue, Flags, StatsTrue

LEMMA NoEffectTrue == HostInv => EffectTrue(NoEffect) /\ NoNewSnapshot(NoEffect)
  BY HostInvParts, EffectParts DEF EffectTrue, NoEffect, NoNewSnapshot

\* Registers whose counters stay are as fresh as they were.
LEMMA FreshStays ==
    ASSUME HostInv, NEW r, r.counters = regs.counters
    PROVE  Fresh(snapshot, r)
  BY HostInvParts DEF Fresh

LEMMA EmptyFresh == \A r : Fresh(EmptySnapshot, r)
  BY DEF Fresh, EmptySnapshot

LEMMA SyncedEffectTrue ==
    ASSUME HostInv, NEW q, QueueSeen(q, stats), NEW x, SnapTrue(x, stats)
    PROVE  EffectTrue(SyncedEffect(q, x))
  <1>1. RegsTrue(Synced(regs, device, q, x), stats) /\ Fresh(x, Synced(regs, device, q, x))
    BY HostInvParts, SyncedTrue, SyncedFresh
  <1>2. QED
    BY <1>1, HostInvParts, EffectParts DEF EffectTrue, SyncedEffect

LEMMA ResetDevices ==
    /\ DeviceReset \in Devices
    /\ \A dev \in Devices : \A t : TileReset(dev, t) \in Devices
  <1>1. IdleTile \in TileInfos
    BY DEF IdleTile, TileInfos, TileStates
  <1>2. QED
    BY <1>1 DEF Devices, DeviceReset, TileReset

LEMMA EmptySnapshotTrue == HostInv => SnapTrue(EmptySnapshot, stats)
  BY HostInvParts, ZeroCountersTrue DEF SnapTrue, EmptySnapshot, Snapshots, SnapshotStatuses

\* att1_aimu_trace_snapshot_all: the queue's counters as they are now, or the old ones.
LEMMA SnapshotTrue ==
    ASSUME HostInv, NEW withQueue \in BOOLEAN, NEW withDma \in BOOLEAN
    PROVE  SnapTrue(Snapshot(snapshot, withQueue, withDma), stats)
  <1> DEFINE x == Snapshot(snapshot, withQueue, withDma)
             failing == {t \in Tiles : device[t].state = "ERROR"}
  <1>1. Cardinality(failing) \in Nat
    <2>1. IsFiniteSet(Tiles)
      BY CmdqConfigValid, FS_Interval DEF Tiles
    <2>2. QED
      BY <2>1, FS_Subset, FS_CardinalityType
  <1>2. x = [status |-> IF withQueue /\ withDma THEN "OK" ELSE "PARTIAL",
             cmdq |-> IF withQueue THEN QueueCounters(stats) ELSE snapshot.cmdq,
             tileErrors |-> Cardinality(failing)]
    BY DEF Snapshot
  <1>3. /\ QueueCounters(stats) \in Counters /\ CountersTrue(QueueCounters(stats), stats)
        /\ snapshot.cmdq \in Counters /\ CountersTrue(snapshot.cmdq, stats)
    BY HostInvParts, QueueCountersTrue DEF SnapTrue, Snapshots
  <1>4. x.cmdq \in Counters /\ CountersTrue(x.cmdq, stats)
    BY <1>2, <1>3
  <1>5. x \in Snapshots
    <2> DEFINE st == IF withQueue /\ withDma THEN "OK" ELSE "PARTIAL"
               c == IF withQueue THEN QueueCounters(stats) ELSE snapshot.cmdq
               n == Cardinality(failing)
    <2>1. st \in SnapshotStatuses /\ c \in Counters /\ n \in Nat
      BY <1>1, <1>3 DEF SnapshotStatuses
    <2>2. x = [status |-> st, cmdq |-> c, tileErrors |-> n]
      BY <1>2
    <2> HIDE DEF x, st, c, n
    <2>3. QED
      BY <2>1, <2>2 DEF Snapshots
  <1>6. QED
    BY <1>4, <1>5 DEF SnapTrue

LEMMA TailWriteTrue ==
    ASSUME HostInv, NEW value \in Nat
    PROVE  EffectTrue(TailWrite(value))
  <1> DEFINE r == [regs EXCEPT !.queue["tail"] = value]
             cells == [regs.queue EXCEPT !["tail"] = value]
  <1>1. regs \in Registers
    BY HostInvParts DEF RegsTrue
  <1>2. cells \in [QueueRegisters -> Nat]
    BY <1>1 DEF Registers, QueueRegisters
  <1>3. r = [regs EXCEPT !.queue = cells]
    OBVIOUS
  <1> HIDE DEF cells
  <1>4. r \in Registers /\ r.counters = regs.counters
    BY <1>1, <1>2, <1>3 DEF Registers
  <1>5. /\ RegsTrue(r, stats) /\ Fresh(snapshot, r)
        /\ TailWrite(value) = Effect(device, snapshot, r)
    BY <1>4, HostInvParts, FreshStays DEF RegsTrue, TailWrite
  <1> HIDE DEF r
  <1>6. QED
    BY <1>5, HostInvParts, EffectParts DEF EffectTrue

\* The doorbell writes the same cell.
LEMMA DoorbellTrue ==
    ASSUME HostInv, NEW value \in Int
    PROVE  EffectTrue(Doorbell(value))
  <1>1. value % RegisterRange \in Nat
    BY RegisterTypes
  <1>2. Doorbell(value) = TailWrite(value % RegisterRange)
    BY DEF Doorbell, TailWrite
  <1>3. QED
    BY <1>1, <1>2, TailWriteTrue

LEMMA ClearTileErrorTrue ==
    ASSUME HostInv, NEW t \in Tiles
    PROVE  EffectTrue(ClearTileError(t))
  <1> DEFINE r == [regs EXCEPT !.tileError[t] = 0]
             errors == [regs.tileError EXCEPT ![t] = 0]
  <1>1. regs \in Registers
    BY HostInvParts DEF RegsTrue
  <1>2. errors \in [Tiles -> ErrorCodes \cup {0}]
    BY <1>1 DEF Registers
  <1>3. r = [regs EXCEPT !.tileError = errors]
    OBVIOUS
  <1> HIDE DEF errors
  <1>4. r \in Registers /\ r.counters = regs.counters
    BY <1>1, <1>2, <1>3 DEF Registers
  <1>5. /\ RegsTrue(r, stats) /\ Fresh(snapshot, r)
        /\ ClearTileError(t) = Effect(device, snapshot, r)
    BY <1>4, HostInvParts, FreshStays DEF RegsTrue, ClearTileError
  <1> HIDE DEF r
  <1>6. QED
    BY <1>5, HostInvParts, EffectParts DEF EffectTrue

LEMMA GlobalControlTrue ==
    ASSUME HostInv, NEW bits
    PROVE  EffectTrue(GlobalControl(bits))
  <1> DEFINE on == (regs.status \cup (IF "ENABLE_DEVICE" \in bits THEN {"READY"} ELSE {}))
                       \ (IF "DISABLE_DEVICE" \in bits THEN {"READY"} ELSE {})
             active == (on \cup (IF "ENABLE_TRACE" \in bits THEN {"TRACE_ACTIVE"} ELSE {}))
                           \ (IF "DISABLE_TRACE" \in bits THEN {"TRACE_ACTIVE"} ELSE {})
  <1>1. regs.status \in SUBSET GlobalStatusBits
    BY HostInvParts DEF RegsTrue, Registers
  <1>2. active \in SUBSET GlobalStatusBits
    BY <1>1 DEF GlobalStatusBits
  <1>3. GlobalControl(bits) = Effect(device, snapshot, [regs EXCEPT !.status = active])
    BY DEF GlobalControl
  <1> HIDE DEF active
  <1>4. RegsTrue([regs EXCEPT !.status = active], stats)
        /\ Fresh(snapshot, [regs EXCEPT !.status = active])
    <2> DEFINE r == [regs EXCEPT !.status = active]
    <2>1. RegsTrue(r, stats)
      BY <1>2, HostInvParts, RegsWithStatus
    <2>2. r.counters = regs.counters
      OBVIOUS
    <2> HIDE DEF r
    <2>3. Fresh(snapshot, r)
      BY <2>2, FreshStays
    <2>4. QED
      BY <2>1, <2>3 DEF r
  <1>5. QED
    BY <1>3, <1>4, HostInvParts, EffectParts DEF EffectTrue

LEMMA ResetControlTrue ==
    ASSUME HostInv, NEW bits
    PROVE  EffectTrue(ResetControl(bits))
  <1> DEFINE soft == "SOFT_RESET_ALL" \in bits
             dev == IF soft THEN DeviceReset ELSE device
             r == IF soft THEN Synced(regs, dev, LiveQueue, snapshot) ELSE regs
             z == [r EXCEPT !.counters = ZeroCounters]
  <1>1. dev \in Devices
    BY HostInvParts, ResetDevices
  <1>2. RegsTrue(r, stats) /\ Fresh(snapshot, r)
    BY <1>1, HostInvParts, SyncedTrue, SyncedFresh
  <1>3. ResetControl(bits) = IF "RESET_COUNTERS" \in bits
                             THEN Effect(dev, EmptySnapshot, z) ELSE Effect(dev, snapshot, r)
    BY DEF ResetControl
  <1> HIDE DEF dev, r
  <1>4. RegsTrue(z, stats)
    BY <1>2, HostInvParts, ZeroCountersTrue, RegsWithCounters DEF RegsTrue
  <1> HIDE DEF z
  <1>5. QED
    BY <1>1, <1>2, <1>3, <1>4, HostInvParts, EmptySnapshotTrue, EmptyFresh, EffectParts
       DEF EffectTrue

\* att1_aimu_mmio_write32, whatever is written where.
LEMMA WritesTrue ==
    ASSUME HostInv, NEW e \in MmioWrites
    PROVE  EffectTrue(e)
  <1>1. ASSUME NEW t PROVE EffectTrue(TileResetControl(t))
    <2> DEFINE dev == TileReset(device, t)
    <2>1. dev \in Devices /\ RegsTrue(FromDevice(regs, dev), stats)
      BY HostInvParts, ResetDevices, FromDeviceTrue
    <2>2. TileResetControl(t) = Effect(dev, snapshot, FromDevice(regs, dev))
      BY DEF TileResetControl
    <2>3. FromDevice(regs, dev).counters = regs.counters
      BY DEF FromDevice
    <2> HIDE DEF dev
    <2>4. QED
      BY <2>1, <2>2, <2>3, HostInvParts, FreshStays, EffectParts DEF EffectTrue
  <1>2. EffectTrue(SnapNow)
    <2> DEFINE x == Snapshot(snapshot, attached, FALSE)
    <2>1. SnapTrue(x, stats)
      BY SnapshotTrue DEF HostInv, Flags
    <2>2. SnapNow = Effect(device, x, FromTrace(regs, x))
      BY DEF SnapNow
    <2> HIDE DEF x
    <2>3. QED
      BY <2>1, <2>2, HostInvParts, FromTraceTrue, FromTraceFresh, EffectParts DEF EffectTrue
  <1>3. 0 \in Nat /\ cmdTail \in Nat
    <2>1. RingsOK
      BY CmdqInvParts DEF HostInv, QueueSound
    <2>2. QED
      BY <2>1, DepthTypes DEF RingsOK, Indexes
  <1>4. \A value \in {0, cmdTail} :
            EffectTrue(Doorbell(value)) /\ EffectTrue(TailWrite(value))
    <2> TAKE value \in {0, cmdTail}
    <2>1. value \in Nat /\ value \in Int
      BY <1>3
    <2>2. QED
      BY <2>1, DoorbellTrue, TailWriteTrue
  <1>5. QED
    BY <1>1, <1>2, <1>4, GlobalControlTrue, ResetControlTrue, ClearTileErrorTrue
       DEF MmioWrites

(***************************************************************************)
(* The calls.                                                              *)
(***************************************************************************)
LEMMA HostInitInv == HostInit => HostInv
  <1> SUFFICES ASSUME HostInit
               PROVE  HostInv
    OBVIOUS
  <1>1. CmdqInit /\ stats = ZeroStats /\ stats \in Stats
    <2>1. CmdqInit /\ stats = ZeroStats
      BY DEF HostInit, CmdqInit
    <2>2. QED
      BY <2>1 DEF ZeroStats, Stats
  <1>2. QueueSound
    BY <1>1, CmdqInitInv, InitAccounts, InitTailAhead DEF QueueSound
  <1>3. RegsTrue(ZeroRegisters, stats)
    <2> DEFINE states == [t \in Tiles |-> "IDLE"]
               errors == [t \in Tiles |-> 0]
               cells == [r \in QueueRegisters |-> 0]
    <2>1. /\ states \in [Tiles -> TileStates] /\ errors \in [Tiles -> ErrorCodes \cup {0}]
          /\ cells \in [QueueRegisters -> Nat]
          /\ ZeroCounters \in Counters /\ CountersTrue(ZeroCounters, stats)
      BY <1>1, ZeroCountersTrue, MmioConfigValid DEF TileStates
    <2>2. ZeroRegisters = [status |-> {}, tileState |-> states, tileError |-> errors,
                           queue |-> cells, processing |-> FALSE, counters |-> ZeroCounters]
      BY DEF ZeroRegisters
    <2> HIDE DEF states, errors, cells
    <2>3. QED
      BY <2>1, <2>2 DEF RegsTrue, Registers
  <1>4. device \in Devices
    BY ResetDevices DEF HostInit, MmioInit
  <1>5. RegsTrue(regs, stats)
    BY <1>3, <1>4, DefaultsTrue, FromDeviceTrue DEF HostInit, MmioInit
  <1>6. RegsTrue(file, stats)
    BY <1>3, <1>5 DEF HostInit, UserspaceOpen
  <1>7. SnapTrue(snapshot, stats)
    BY <1>1, ZeroCountersTrue
       DEF HostInit, MmioInit, SnapTrue, EmptySnapshot, Snapshots, SnapshotStatuses
  <1>8. Flags /\ FileCoherent
    BY DEF HostInit, MmioInit, UserspaceOpen, Flags, FileCoherent
  <1>9. NoOlderThanSnapshot
    BY DEF HostInit, MmioInit, EmptySnapshot, NoOlderThanSnapshot
  <1>10. QED
    BY <1>2, <1>4, <1>5, <1>6, <1>7, <1>8, <1>9 DEF HostInv, MirrorsTrue

\* What every call comes down to.
LEMMA CallKeeps ==
    ASSUME HostInv, QueueStep,
           probed' \in BOOLEAN, ready' \in BOOLEAN, attached' \in BOOLEAN,
           NEW e, EffectTrue(e),
           \/ Flushed(e)
           \/ Unflushed(e) /\ NoNewSnapshot(e) /\ (attached' /\ ready' => attached /\ ready)
    PROVE  HostInv'
  <1>1. QueueMoves
    BY QueueStepMoves DEF HostInv
  <1>2. QED
    BY <1>1, FlushedKeeps, UnflushedKeeps

\* Calls that leave the host's own flags and the queue's attachment alone.
LEMMA PlainCallKeeps ==
    ASSUME HostInv, QueueStep, UNCHANGED <<attached, hostVars>>,
           NEW e, EffectTrue(e), Flushed(e) \/ (Unflushed(e) /\ NoNewSnapshot(e))
    PROVE  HostInv'
  <1>1. /\ probed' \in BOOLEAN /\ ready' \in BOOLEAN /\ attached' \in BOOLEAN
        /\ attached' /\ ready' => attached /\ ready
    BY DEF HostInv, Flags, hostVars
  <1>2. QED
    BY <1>1, CallKeeps

LEMMA FlushedCallKeeps ==
    ASSUME HostInv, QueueStep, UNCHANGED <<attached, hostVars>>,
           NEW e, EffectTrue(e), Flushed(e)
    PROVE  HostInv'
  <1>1. probed' \in BOOLEAN /\ ready' \in BOOLEAN /\ attached' \in BOOLEAN
    BY DEF HostInv, Flags, hostVars
  <1>2. QueueMoves
    BY QueueStepMoves DEF HostInv
  <1>3. QED
    BY <1>1, <1>2, FlushedKeeps

LEMMA QueueStands == UNCHANGED cmdqVars => QueueStep
  BY DEF QueueStep

LEMMA RefusedKeeps ==
    ASSUME HostInv, Refused
    PROVE  HostInv'
  <1>1. UNCHANGED <<cmdqVars, attached, hostVars>> /\ Unflushed(NoEffect)
    BY EffectParts DEF Refused, vars, mmioVars, deviceVars, Unflushed, NoEffect
  <1>2. QED
    BY <1>1, NoEffectTrue, QueueStands, PlainCallKeeps

LEMMA SyncKeepsTrue ==
    HostInv => /\ EffectTrue(SyncedEffect(LiveQueue, snapshot))
               /\ NoNewSnapshot(SyncedEffect(LiveQueue, snapshot))
  BY HostInvParts, SyncedEffectTrue, EffectParts DEF SyncedEffect, NoNewSnapshot

LEMMA ProbeKeeps ==
    ASSUME HostInv, Probe
    PROVE  HostInv'
  <1> DEFINE e == SyncedEffect(LiveQueue, snapshot)
  <1>1. EffectTrue(e) /\ NoNewSnapshot(e)
    BY SyncKeepsTrue
  <1>2. \/ UNCHANGED <<cmdqVars, attached, hostVars>> /\ Unflushed(e)
        \/ probed' = TRUE /\ UNCHANGED <<cmdqVars, attached, ready>> /\ Flushed(e)
    BY DEF Probe
  <1> HIDE DEF e
  <1>3. CASE UNCHANGED <<cmdqVars, attached, hostVars>> /\ Unflushed(e)
    BY <1>1, <1>3, QueueStands, PlainCallKeeps
  <1>4. CASE probed' = TRUE /\ UNCHANGED <<cmdqVars, attached, ready>> /\ Flushed(e)
    <2>1. probed' \in BOOLEAN /\ ready' \in BOOLEAN /\ attached' \in BOOLEAN
      BY <1>4 DEF HostInv, Flags
    <2>2. QED
      BY <1>1, <1>4, <2>1, QueueStands, CallKeeps
  <1>5. QED
    BY <1>2, <1>3, <1>4

LEMMA SetupQueueKeeps ==
    ASSUME HostInv, SetupQueue
    PROVE  HostInv'
  <1> DEFINE q == [LiveQueue EXCEPT !.attached = TRUE]
             e == SyncedEffect(q, snapshot)
  <1>1. QueueSeen(q, stats)
    BY HostInvParts DEF QueueSeen, LiveQueue
  <1> HIDE DEF q
  <1>2. EffectTrue(e)
    BY <1>1, HostInvParts, SyncedEffectTrue
  <1> HIDE DEF e
  <1>3. \/ Refused
        \/ /\ attached' = TRUE /\ ready' = TRUE /\ UNCHANGED <<cmdqVars, probed>>
           /\ Flushed(e)
    BY DEF SetupQueue, e, q
  <1>4. CASE /\ attached' = TRUE /\ ready' = TRUE /\ UNCHANGED <<cmdqVars, probed>>
             /\ Flushed(e)
    <2>1. probed' \in BOOLEAN /\ ready' \in BOOLEAN /\ attached' \in BOOLEAN
      BY <1>4 DEF HostInv, Flags
    <2>2. QED
      BY <1>2, <1>4, <2>1, QueueStands, CallKeeps
  <1>5. QED
    BY <1>3, <1>4, RefusedKeeps

\* The calls that the queue answers.
LEMMA QueueCallKeeps ==
    ASSUME HostInv,
           \/ \E tile \in 0..TileCount, kind \in KindArgs : SubmitCommand(tile, kind)
           \/ ProcessOne \/ ReadCompletion \/ DrainBegin \/ DrainStep
    PROVE  HostInv'
  <1>0. EffectTrue(NoEffect) /\ NoNewSnapshot(NoEffect)
    BY NoEffectTrue
  <1>1. ASSUME NEW tile, NEW kind \in KindArgs, SubmitCommand(tile, kind)
        PROVE  HostInv'
    <2>1. CASE ~ready
      BY <1>1, <2>1, RefusedKeeps DEF SubmitCommand
    <2>2. CASE ready
      <3>1. UNCHANGED <<attached, hostVars>>
            /\ \/ (SubmitBadTile(tile) \/ SubmitFull(tile)) /\ Unflushed(NoEffect)
               \/ Submit(tile, kind, TRUE) /\ Flushed(NoEffect)
        BY <1>1, <2>2 DEF SubmitCommand
      <3>2. QueueStep
        BY <3>1 DEF QueueStep, QuietStep
      <3>3. QED
        BY <1>0, <3>1, <3>2, PlainCallKeeps
    <2>3. QED
      BY <2>1, <2>2
  <1>2. CASE ProcessOne
    <2>1. \/ Refused
          \/ DispatchOne /\ Unflushed(NoEffect) /\ UNCHANGED <<attached, hostVars>>
      BY <1>2 DEF ProcessOne
    <2>2. QED
      BY <1>0, <2>1, RefusedKeeps, PlainCallKeeps DEF QueueStep
  <1>3. CASE ReadCompletion
    <2>1. \/ Refused
          \/ PollCompletion /\ Unflushed(NoEffect) /\ UNCHANGED <<attached, hostVars>>
      BY <1>3 DEF ReadCompletion
    <2>2. QED
      BY <1>0, <2>1, RefusedKeeps, PlainCallKeeps DEF QueueStep
  <1>4. CASE DrainBegin
    <2>1. /\ DispatchAllBegin /\ UNCHANGED <<attached, hostVars>>
          /\ Unflushed(NoEffect)
      BY <1>4, EffectParts DEF DrainBegin, deviceVars, Unflushed, NoEffect
    <2>2. QueueStep
      BY <2>1 DEF QueueStep, QuietStep
    <2>3. QED
      BY <1>0, <2>1, <2>2, PlainCallKeeps
  <1>5. CASE DrainStep
    <2>1. /\ UNCHANGED <<attached, hostVars>>
          /\ \/ DispatchOne /\ Unflushed(NoEffect)
             \/ DispatchAllEnd /\ Flushed(NoEffect)
      BY <1>5 DEF DrainStep
    <2>2. QueueStep
      BY <2>1 DEF QueueStep, QuietStep
    <2>3. QED
      BY <1>0, <2>1, <2>2, PlainCallKeeps
  <1>6. QED
    BY <1>1, <1>2, <1>3, <1>4, <1>5

\* The calls on registers, device and snapshot.
LEMMA RegisterCallKeeps ==
    ASSUME HostInv,
           \/ EnumerateTiles \/ RingDoorbell \/ SnapshotCounters \/ Write
           \/ SyncRegisters \/ FlushBar0 \/ TileEvent
    PROVE  HostInv'
  <1>0. EffectTrue(NoEffect) /\ NoNewSnapshot(NoEffect)
    BY NoEffectTrue
  <1>1. CASE EnumerateTiles \/ FlushBar0
    <2>1. \/ Refused
          \/ UNCHANGED <<cmdqVars, attached, hostVars>> /\ Flushed(NoEffect)
      BY <1>1 DEF EnumerateTiles, FlushBar0
    <2>2. QED
      BY <1>0, <2>1, RefusedKeeps, QueueStands, PlainCallKeeps
  <1>2. CASE RingDoorbell
    <2>1. \/ Refused
          \/ UNCHANGED <<cmdqVars, attached, hostVars>> /\ Flushed(Doorbell(cmdTail))
      BY <1>2 DEF RingDoorbell
    <2>2. RingsOK
      BY CmdqInvParts DEF HostInv, QueueSound
    <2>3. EffectTrue(Doorbell(cmdTail))
      BY <2>2, DepthTypes, DoorbellTrue DEF RingsOK
    <2>4. QED
      BY <2>1, <2>3, RefusedKeeps, QueueStands, FlushedCallKeeps
  <1>3. CASE SnapshotCounters
    <2> DEFINE e == SyncedEffect(LiveQueue, Snapshot(snapshot, ready, TRUE))
    <2>1. EffectTrue(e)
      BY HostInvParts, SnapshotTrue, SyncedEffectTrue DEF HostInv, Flags
    <2>2. UNCHANGED <<cmdqVars, attached, hostVars>> /\ Flushed(e)
      BY <1>3 DEF SnapshotCounters
    <2> HIDE DEF e
    <2>3. QED
      BY <2>1, <2>2, QueueStands, FlushedCallKeeps
  <1>4. CASE Write
    <2>1. PICK e \in MmioWrites : Flushed(e)
      BY <1>4 DEF Write
    <2>2. UNCHANGED <<cmdqVars, attached, hostVars>>
      BY <1>4 DEF Write
    <2>3. QED
      BY <2>1, <2>2, WritesTrue, QueueStands, FlushedCallKeeps
  <1>5. CASE SyncRegisters
    <2>1. /\ UNCHANGED <<cmdqVars, attached, hostVars>>
          /\ Unflushed(SyncedEffect(LiveQueue, snapshot))
      BY <1>5 DEF SyncRegisters
    <2>2. QED
      BY <2>1, SyncKeepsTrue, QueueStands, PlainCallKeeps
  <1>6. CASE TileEvent
    <2>1. PICK t \in Tiles, state \in TileStates, code \in ErrorCodes \cup {0} :
             TileChanges(t, state, code)
      BY <1>6 DEF TileEvent
    <2> DEFINE dev == [device EXCEPT ![t] = [state |-> state, error |-> code]]
               e == Effect(dev, snapshot, regs)
    <2>2. dev \in Devices
      BY HostInvParts DEF Devices, TileInfos
    <2>3. device' = dev /\ UNCHANGED <<snapshot, regs, attached>>
      BY <2>1 DEF TileChanges
    <2> HIDE DEF dev
    <2>4. EffectTrue(e) /\ Unflushed(e) /\ NoNewSnapshot(e)
      BY <1>6, <2>2, <2>3, HostInvParts, EffectParts
         DEF EffectTrue, Unflushed, TileEvent, NoNewSnapshot
    <2> HIDE DEF e
    <2>5. UNCHANGED <<cmdqVars, attached, hostVars>>
      BY <1>6, <2>3 DEF TileEvent
    <2>6. QED
      BY <2>4, <2>5, QueueStands, PlainCallKeeps
  <1>7. QED
    BY <1>1, <1>2, <1>3, <1>4, <1>5, <1>6

\* att1_aimu_host_reset: the queue stays attached, but is no longer ready.
LEMMA HostResetKeeps ==
    ASSUME HostInv, HostReset
    PROVE  HostInv'
  <1> DEFINE z == Defaults(ZeroRegisters)
             r == Synced(z, DeviceReset, LiveQueue, EmptySnapshot)
             e == Effect(DeviceReset, EmptySnapshot, r)
  <1>1. RegsTrue(ZeroRegisters, stats)
    <2> DEFINE states == [t \in Tiles |-> "IDLE"]
               errors == [t \in Tiles |-> 0]
               cells == [c \in QueueRegisters |-> 0]
    <2>1. /\ states \in [Tiles -> TileStates] /\ errors \in [Tiles -> ErrorCodes \cup {0}]
          /\ cells \in [QueueRegisters -> Nat]
          /\ ZeroCounters \in Counters /\ CountersTrue(ZeroCounters, stats)
      BY HostInvParts, ZeroCountersTrue, MmioConfigValid DEF TileStates
    <2>2. ZeroRegisters = [status |-> {}, tileState |-> states, tileError |-> errors,
                           queue |-> cells, processing |-> FALSE, counters |-> ZeroCounters]
      BY DEF ZeroRegisters
    <2> HIDE DEF states, errors, cells
    <2>3. QED
      BY <2>1, <2>2 DEF RegsTrue, Registers
  <1>2. RegsTrue(r, stats)
    BY <1>1, DefaultsTrue, ResetDevices, EmptySnapshotTrue, HostInvParts, SyncedTrue
  <1>3. Unflushed(e) /\ probed' = FALSE /\ ready' = FALSE /\ UNCHANGED <<cmdqVars, attached>>
    BY DEF HostReset
  <1> HIDE DEF r
  <1>4. EffectTrue(e) /\ NoNewSnapshot(e)
    BY <1>2, ResetDevices, EmptySnapshotTrue, EmptyFresh, EffectParts
       DEF EffectTrue, NoNewSnapshot, EmptySnapshot
  <1>5. probed' \in BOOLEAN /\ ready' \in BOOLEAN /\ attached' \in BOOLEAN
    BY <1>3 DEF HostInv, Flags
  <1> HIDE DEF e
  <1>6. QED
    BY <1>3, <1>4, <1>5, QueueStands, CallKeeps

\* Every call of the host's and the userspace library, in any order, keeps
\* registers, file and snapshot true to the queue.
THEOREM HostInductive == HostSpec => []HostInv
  <1>1. HostInv /\ [HostNext]_vars => HostInv'
    <2> SUFFICES ASSUME HostInv, [HostNext]_vars
                 PROVE  HostInv'
      OBVIOUS
    <2>1. CASE UNCHANGED vars
      BY <2>1, RefusedKeeps DEF Refused
    <2>2. CASE HostNext
      BY <2>2, ProbeKeeps, SetupQueueKeeps, QueueCallKeeps, RegisterCallKeeps, HostResetKeeps
         DEF HostNext, Call
    <2>3. QED
      BY <2>1, <2>2
  <1>2. QED
    BY <1>1, HostInitInv, PTL DEF HostSpec

\* Counters a reader sees were the queue's at one moment, no earlier than the last
\* snapshot (att1_aimu_mmio_sync, att1_aimu_trace_snapshot_all, mmio_wo_write, flush_bar0).
THEOREM ReadersSeeTruth == HostSpec => []CountersWereTrue
  <1>1. HostInv => NeverAhead
    BY DEF HostInv, MirrorsTrue, RegsTrue, SnapTrue, CountersTrue, NeverAhead
  <1>2. HostInv => CountersWereTrue
    BY <1>1 DEF HostInv, CountersWereTrue
  <1>3. QED
    BY <1>2, HostInductive, PTL

\* The mapped file says that the queue is processing exactly when its head and tail
\* differ (sync_from_cmdq, flush_bar0).
THEOREM FileStaysCoherent == HostSpec => []FileCoherent
  <1>1. HostInv => FileCoherent
    BY DEF HostInv
  <1>2. QED
    BY <1>1, HostInductive, PTL
=============================================================================
