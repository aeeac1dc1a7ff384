------------------------------ MODULE CmdQueue ------------------------------
(***************************************************************************)
(* The AIMU command queue (src/aimu_cmdq.c): a ring of commands from host  *)
(* to device, a dispatcher, and a ring of completions back.  Head and tail *)
(* indices run freely, wrap with their type, and are masked at each use;   *)
(* one slot of each ring stays unused.                                     *)
(*                                                                         *)
(* Abstractions.  Command types are grouped by what the dispatcher does    *)
(* with them (CommandKinds).  Checksum, operands and the session of a      *)
(* command pass through unread and are left out.  Command ids and the      *)
(* fence value of a completion, the low half of the counter, have 32 bits  *)
(* in the code and are naturals here: the module is exact for the first    *)
(* 2^32 - 1 commands of a queue.                                           *)
(***************************************************************************)
EXTENDS Integers, Sequences, FiniteSets

CONSTANTS TileCount,       \* config.tile_count
          CmdDepth,        \* config.cmd_ring_depth
          CompDepth,       \* config.comp_ring_depth
          IndexRange,      \* 2^w for the w bits of a ring index (size_t)
          HookResults,     \* what an installed hook may return
          KindArgs,        \* the kinds of command the host submits
          NoEntry,         \* a ring slot never written, nothing read yet
          CommandLimit,    \* bound on the commands submitted
          RefusalLimit     \* bound on the calls refused

\* att1_aimu_cmdq_create; depths are powers of two, so they divide IndexRange.
ASSUME CmdqConfigValid ==
    /\ TileCount \in Nat \ {0}
    /\ CmdDepth \in Nat \ {0} /\ CompDepth \in Nat \ {0}
    /\ IndexRange \in Nat \ {0}
    /\ IndexRange % CmdDepth = 0 /\ IndexRange % CompDepth = 0
    /\ HookResults \subseteq {"OK", "UNSUPPORTED_OP", "ERROR"}
    /\ KindArgs \subseteq {"control", "reset", "exec", "unknown"}

VARIABLES cmdRing, cmdHead, cmdTail,
          compRing, compHead, compTail,
          nextId,          \* next_command_id
          hooked,          \* exec_hook is set
          stats,           \* q->counters
          draining,        \* a call of att1_aimu_cmdq_dispatch_all is under way
          lastRead         \* what att1_aimu_cmdq_poll_completion returned last

cmdqVars == <<cmdRing, cmdHead, cmdTail, compRing, compHead, compTail, nextId,
              hooked, stats, draining, lastRead>>

Tiles == 0..TileCount - 1
Indexes == 0..IndexRange - 1
CmdSlots == 0..CmdDepth - 1
CompSlots == 0..CompDepth - 1

\* NOP, TRACE_SNAPSHOT, TILE_BARRIER and QUERY_COUNTERS; RESET_TILE; what the
\* hook executes; every other value.
CommandKinds == {"control", "reset", "exec", "unknown"}
Results == {"OK", "UNSUPPORTED_OP", "ERROR", "INVALID_COMMAND"}

ZeroStats == [submitted |-> 0, completed |-> 0, failed |-> 0, queueFull |-> 0,
              compqFull |-> 0, resets |-> 0, unsupported |-> 0, fence |-> 0]

CmdqInit ==
    /\ cmdRing = [k \in CmdSlots |-> NoEntry] /\ cmdHead = 0 /\ cmdTail = 0
    /\ compRing = [k \in CompSlots |-> NoEntry] /\ compHead = 0 /\ compTail = 0
    /\ nextId = 1
    /\ hooked = FALSE
    /\ stats = ZeroStats
    /\ draining = FALSE
    /\ lastRead = NoEntry

-----------------------------------------------------------------------------
Advanced(index) == (index + 1) % IndexRange
CmdUsed == (cmdTail - cmdHead) % CmdDepth
CompUsed == (compTail - compHead) % CompDepth

OneIf(condition) == IF condition THEN 1 ELSE 0

cmdVars == <<cmdRing, cmdHead, cmdTail, nextId>>
compVars == <<compRing, compHead, compTail>>

\* att1_aimu_cmdq_set_exec_hook
SetExecHook(on) ==
    /\ hooked' = on
    /\ UNCHANGED <<cmdVars, compVars, stats, draining, lastRead>>

-----------------------------------------------------------------------------
(* att1_aimu_cmdq_submit                                                   *)

SubmitBadTile(tile) ==
    /\ tile \notin Tiles
    /\ stats' = [stats EXCEPT !.failed = @ + 1]
    /\ UNCHANGED <<cmdVars, compVars, hooked, draining, lastRead>>

SubmitFull(tile) ==
    /\ tile \in Tiles
    /\ CmdUsed + 1 >= CmdDepth
    /\ stats' = [stats EXCEPT !.queueFull = @ + 1]
    /\ UNCHANGED <<cmdVars, compVars, hooked, draining, lastRead>>

\* Mutation of Submit: the last slot is used too.
SubmitToLastSlot(tile, kind, fenced) ==
    /\ tile \in Tiles
    /\ CmdUsed < CmdDepth
    /\ cmdRing' = [cmdRing EXCEPT ![cmdTail % CmdDepth] =
                      [id |-> nextId, tile |-> tile, kind |-> kind, fenced |-> fenced]]
    /\ cmdTail' = Advanced(cmdTail)
    /\ nextId' = nextId + 1
    /\ stats' = [stats EXCEPT !.submitted = @ + 1]
    /\ UNCHANGED <<cmdHead, compVars, hooked, draining, lastRead>>

Submit(tile, kind, fenced) ==
    /\ tile \in Tiles
    /\ CmdUsed + 1 < CmdDepth
    /\ cmdRing' = [cmdRing EXCEPT ![cmdTail % CmdDepth] =
                      [id |-> nextId, tile |-> tile, kind |-> kind, fenced |-> fenced]]
    /\ cmdTail' = Advanced(cmdTail)
    /\ nextId' = nextId + 1
    /\ stats' = [stats EXCEPT !.submitted = @ + 1]
    /\ UNCHANGED <<cmdHead, compVars, hooked, draining, lastRead>>

-----------------------------------------------------------------------------
(* att1_aimu_cmdq_dispatch_one and the loop around it.                     *)

NextCommand == cmdRing[cmdHead % CmdDepth]

PossibleResults(kind) ==
    CASE kind \in {"control", "reset"} -> {"OK"}
      [] kind = "exec" -> IF hooked THEN HookResults ELSE {"UNSUPPORTED_OP"}
      [] kind = "unknown" -> {"INVALID_COMMAND"}

\* The counters the switch over the command type changes.
Executed(kind, result) ==
    [stats EXCEPT !.resets = @ + OneIf(kind = "reset"),
                  !.unsupported = @ + OneIf(kind = "unknown" \/ result = "UNSUPPORTED_OP"),
                  !.failed = @ + OneIf(kind = "unknown")]

\* write_completion finds room, and the result is counted.
Answer(c, result) ==
    LET s == Executed(c.kind, result)
        fence == s.fence + OneIf(c.fenced)
    IN
    /\ CompUsed + 1 < CompDepth
    /\ compRing' = [compRing EXCEPT ![compTail % CompDepth] =
                       [id |-> c.id, tile |-> c.tile, result |-> result,
                        fence |-> IF c.fenced THEN fence ELSE 0]]
    /\ compTail' = Advanced(compTail)
    /\ stats' = [s EXCEPT !.fence = fence,
                          !.completed = @ + OneIf(result \in {"OK", "UNSUPPORTED_OP"}),
                          !.failed = @ + OneIf(result \notin {"OK", "UNSUPPORTED_OP"})]
    /\ UNCHANGED <<compHead, draining>>

\* Mutations of Lose: the loss is not counted, or the fence is signalled.
LoseUncounted(c, result) ==
    /\ CompUsed + 1 >= CompDepth
    /\ stats' = Executed(c.kind, result)
    /\ draining' = FALSE
    /\ UNCHANGED compVars

LoseSignalsFence(c, result) ==
    /\ CompUsed + 1 >= CompDepth
    /\ stats' = [Executed(c.kind, result) EXCEPT !.compqFull = @ + 1,
                                                 !.fence = @ + OneIf(c.fenced)]
    /\ draining' = FALSE
    /\ UNCHANGED compVars

\* write_completion finds the ring full: the command is gone, and so is the
\* rest of the call of dispatch_all.
Lose(c, result) ==
    /\ CompUsed + 1 >= CompDepth
    /\ stats' = [Executed(c.kind, result) EXCEPT !.compqFull = @ + 1]
    /\ draining' = FALSE
    /\ UNCHANGED compVars

\* Mutation of DispatchOne: it waits for room in the completion ring.
DispatchOneWhenRoom ==
    /\ CmdUsed # 0
    /\ cmdHead' = Advanced(cmdHead)
    /\ \E result \in PossibleResults(NextCommand.kind) : Answer(NextCommand, result)
    /\ UNCHANGED <<cmdRing, cmdTail, nextId, hooked, lastRead>>

DispatchOne ==
    /\ CmdUsed # 0
    /\ cmdHead' = Advanced(cmdHead)
    /\ \E result \in PossibleResults(NextCommand.kind) :
          Answer(NextCommand, result) \/ Lose(NextCommand, result)
    /\ UNCHANGED <<cmdRing, cmdTail, nextId, hooked, lastRead>>

DispatchAllBegin ==
    /\ draining' = TRUE
    /\ UNCHANGED <<cmdVars, compVars, hooked, stats, lastRead>>

DispatchAllEnd ==
    /\ CmdUsed = 0
    /\ draining' = FALSE
    /\ UNCHANGED <<cmdVars, compVars, hooked, stats, lastRead>>

-----------------------------------------------------------------------------
\* att1_aimu_cmdq_poll_completion
PollCompletion ==
    /\ CompUsed # 0
    /\ lastRead' = compRing[compHead % CompDepth]
    /\ compHead' = Advanced(compHead)
    /\ UNCHANGED <<cmdVars, compRing, compTail, hooked, stats, draining>>

-----------------------------------------------------------------------------
(* One thread calls all functions; while dispatch_all runs nothing else    *)
(* does.  A dispatch or a poll of an empty ring changes nothing.           *)

SubmitStep(tile) ==
    \/ /\ stats.failed + stats.queueFull < RefusalLimit
       /\ SubmitBadTile(tile) \/ SubmitFull(tile)
    \/ /\ nextId <= CommandLimit
       /\ \E kind \in KindArgs, fenced \in BOOLEAN : Submit(tile, kind, fenced)

DispatchAllStep == draining /\ (DispatchOne \/ DispatchAllEnd)

CmdqNext ==
    \/ /\ ~draining
       /\ \/ \E on \in BOOLEAN : SetExecHook(on)
          \/ \E tile \in 0..TileCount : SubmitStep(tile)
          \/ DispatchOne
          \/ DispatchAllBegin
          \/ PollCompletion
    \/ DispatchAllStep

\* A call of dispatch_all goes on until it returns.
CmdqSpec == CmdqInit /\ [][CmdqNext]_cmdqVars /\ WF_cmdqVars(DispatchAllStep)

-----------------------------------------------------------------------------
(* Properties.                                                             *)

Commands == [id : Nat, tile : Tiles, kind : CommandKinds, fenced : BOOLEAN]
Completions == [id : Nat, tile : Tiles, result : Results, fence : Nat]
Stats == [submitted : Nat, completed : Nat, failed : Nat, queueFull : Nat,
          compqFull : Nat, resets : Nat, unsupported : Nat, fence : Nat]

\* NoEntry is no completion: the code tells them apart by what it has read.
ASSUME NoEntryIsNone == NoEntry \notin Commands \cup Completions

\* Rings, indices and counters keep their types.
CmdqTypeOK ==
    /\ cmdRing \in [CmdSlots -> Commands \cup {NoEntry}]
    /\ compRing \in [CompSlots -> Completions \cup {NoEntry}]
    /\ {cmdHead, cmdTail, compHead, compTail} \subseteq Indexes
    /\ nextId \in Nat \ {0}
    /\ hooked \in BOOLEAN /\ draining \in BOOLEAN
    /\ stats \in Stats
    /\ lastRead \in Completions \cup {NoEntry}

\* The rings' entries, oldest first.
PendingCommands == [k \in 1..CmdUsed |-> cmdRing[(cmdHead + k - 1) % CmdDepth]]
PendingCompletions == [k \in 1..CompUsed |-> compRing[(compHead + k - 1) % CompDepth]]

Ids(entries) == [k \in DOMAIN entries |-> entries[k].id]

Channel == INSTANCE CmdChannel WITH
    CommandRoom <- CmdDepth - 1,
    CompletionRoom <- CompDepth - 1,
    NoCompletion <- NoEntry,
    waiting <- Ids(PendingCommands),
    answers <- Ids(PendingCompletions),
    lastRead <- IF lastRead = NoEntry THEN NoEntry ELSE lastRead.id

\* The rings implement a channel: submission order, one completion at most for a
\* command, full exactly at depth - 1 entries, whatever index wraps around
\* (att1_aimu_cmdq_submit, _dispatch_one, _poll_completion).
ImplementsChannel == Channel!ChannelSpec

\* No command goes uncounted: each one submitted waits, is counted once or twice
\* by its result, or was lost to a full completion ring.
CommandsAccountedFor ==
    LET settled == CmdUsed + stats.completed + stats.compqFull IN
    /\ settled <= stats.submitted
    /\ stats.submitted <= settled + stats.failed
    /\ stats.submitted = nextId - 1

\* The completions a host has seen last or can still read, oldest first.
SeenCompletions ==
    (IF lastRead = NoEntry THEN <<>> ELSE <<lastRead>>) \o PendingCompletions

\* The completions that signal a fence, read last or still to be read, carry
\* consecutive fence values that end with the current one: they increase, and no
\* value between one of them and fence_signaled is missing.
FencesConsecutive ==
    LET seen == SeenCompletions
        fenced == {k \in DOMAIN seen : seen[k].fence # 0}
    IN  /\ \A j, k \in fenced : j < k => seen[j].fence < seen[k].fence
        /\ \A k \in fenced : seen[k].fence <= stats.fence
        /\ \A k \in fenced : \A f \in seen[k].fence..stats.fence :
              \E j \in fenced : seen[j].fence = f

\* "Dispatch all pending commands": the loop of att1_aimu_cmdq_dispatch_all ends.
DispatchAllReturns == draining ~> ~draining

\* "Write completion -- always produced, even for errors" (src/aimu_cmdq.c): no
\* command leaves the command ring without an entry in the completion ring.
AlwaysAnswered ==
    [][cmdHead' # cmdHead => compTail' # compTail]_cmdqVars
=============================================================================
