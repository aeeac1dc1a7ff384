----------------------------- MODULE CmdChannel -----------------------------
(***************************************************************************)
(* What the AIMU command queue promises, without rings: commands wait in   *)
(* the order of submission, are executed one at a time in that order, and  *)
(* their completions are read in the order of execution.  A command whose  *)
(* completion finds no room leaves no trace.  Identifiers are given in     *)
(* increasing order (include/att1_aimu_cmdq.h).                            *)
(***************************************************************************)
EXTENDS Integers, Sequences

CONSTANTS CommandRoom,     \* commands that can wait
          CompletionRoom,  \* completions that can wait
          NoCompletion     \* nothing was read yet

VARIABLES waiting,         \* identifiers of the commands submitted
          answers,         \* identifiers of the completions to read
          lastRead         \* identifier of the completion read last

channelVars == <<waiting, answers, lastRead>>

ChannelInit ==
    /\ waiting = <<>>
    /\ answers = <<>>
    /\ lastRead = NoCompletion

Younger(id) ==
    /\ \A k \in 1..Len(waiting) : waiting[k] < id
    /\ \A k \in 1..Len(answers) : answers[k] < id
    /\ lastRead # NoCompletion => lastRead < id

\* The new command is younger than all others.
Accept ==
    /\ Len(waiting) < CommandRoom
    /\ Len(waiting') = Len(waiting) + 1
    /\ Younger(waiting'[Len(waiting) + 1])
    /\ waiting' = Append(waiting, waiting'[Len(waiting) + 1])
    /\ UNCHANGED <<answers, lastRead>>

Execute ==
    /\ waiting # <<>>
    /\ waiting' = Tail(waiting)
    /\ answers' = IF Len(answers) < CompletionRoom
                  THEN Append(answers, Head(waiting)) ELSE answers
    /\ UNCHANGED lastRead

ReadAnswer ==
    /\ answers # <<>>
    /\ lastRead' = Head(answers)
    /\ answers' = Tail(answers)
    /\ UNCHANGED waiting

ChannelSpec == ChannelInit /\ [][Accept \/ Execute \/ ReadAnswer]_channelVars
=============================================================================
