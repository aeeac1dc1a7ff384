--------------------------- MODULE RuntimeProofs ---------------------------
(***************************************************************************)
(* The workers of the tile runtime leave cleanly and meet at its barrier,  *)
(* for every number of tiles, every queue and whatever the fabric answers; *)
(* what they count agrees with what the fabric counts.                     *)
(***************************************************************************)
EXTENDS Runtime, FiniteSetTheorems, WellFoundedInduction, TLAPS

WorkerRecords == [at : WorkerPlaces, cmd : Commands \cup {NoCommand}, generation : Nat]
ClientRecords == [at : ClientPlaces, tile : Tiles, destroying : BOOLEAN]
BarrierRecords == [active : BOOLEAN, expected : {0, TileCount}, arrived : 0..TileCount - 1,
                   generation : Nat]
TileRecords == [running : BOOLEAN, processed : Nat, sends : Nat, recvs : Nat, errors : Nat]

Types ==
    /\ client \in ClientRecords
    /\ started \in BOOLEAN /\ stopRequested \in BOOLEAN
    /\ queues \in [Tiles -> Seq(Commands)]
    /\ workers \in [Tiles -> WorkerRecords]
    /\ barrier \in BarrierRecords
    /\ tiles \in [Tiles -> TileRecords]

\* A worker of this start that has had no command, and one that is out of its loop.
Fresh == {"begin", "dequeue", "queueWait"}
Left == {"leave", "done"}
Waits == {"barrierWait", "barrierTest"}
Stopping == {"signal", "signalBarrier", "join"}

TookShutdown(t) == workers[t].cmd \in Commands /\ workers[t].cmd.kind = "shutdown"

\* What the place of the client says about the flags, and about the tiles before
\* and behind the one it is at.
Phases ==
    /\ client.at \in Stopping <=> stopRequested
    /\ stopRequested => started
    /\ client.at \in {"clear", "create"} => ~started /\ ~barrier.active
    /\ client.at = "clear" =>
          \A t \in Tiles : /\ Gone(t)
                           /\ t < client.tile => queues[t] = <<>> /\ tiles[t].running
    /\ client.at = "create" =>
          \A t \in Tiles : /\ queues[t] = <<>> /\ tiles[t].running
                           /\ IF t < client.tile THEN workers[t].at \in Fresh ELSE Gone(t)
    /\ client.at = "signalBarrier" => client.tile = 0
    /\ client.at = "join" =>
          \A t \in Tiles : t < client.tile => workers[t].at = "done" /\ ~tiles[t].running

\* A worker is out of its loop by a SHUTDOWN, or by a stop with its queue empty;
\* then nothing can be queued for it before the next start.
Leaving ==
    \A t \in Tiles :
        /\ workers[t].at = "count" => workers[t].cmd \in Commands
        /\ workers[t].at \in Left /\ ~TookShutdown(t)
              => queues[t] = <<>> /\ (stopRequested \/ ~started)

Running == \A t \in Tiles : started /\ ~tiles[t].running => workers[t].at = "done"

\* The workers in the present round of the barrier.
InsideSet == {t \in Tiles : Inside(t)}

Rounds ==
    /\ \A t \in Tiles : workers[t].generation <= barrier.generation
    /\ barrier.active => barrier.expected = TileCount
    /\ started /\ ~stopRequested =>
          IF barrier.active THEN barrier.arrived = Cardinality(InsideSet)
                            ELSE InsideSet = {}

RuntimeInv == Types /\ Phases /\ Leaving /\ Running /\ Rounds

LEMMA Config ==
    /\ TileCount \in Nat \ {0}
    /\ IsFiniteSet(Tiles) /\ Cardinality(Tiles) = TileCount
    /\ 0 \in Tiles
    /\ \A command \in Commands : command.kind \in CommandKinds
  <1>1. TileCount \in Nat \ {0} /\ \A command \in Commands : command.kind \in CommandKinds
    BY RuntimeConfigValid
  <1>2. IsFiniteSet(Tiles) /\ Cardinality(Tiles) = TileCount
    BY <1>1, FS_Interval DEF Tiles
  <1>3. QED
    BY <1>1, <1>2 DEF Tiles

(***************************************************************************)
(* Steps of a worker that moves without entering a command or the barrier. *)
(***************************************************************************)
LEMMA Moved ==
    ASSUME Types, NEW t \in Tiles, NEW to \in WorkerPlaces,
           workers' = [workers EXCEPT ![t].at = to]
    PROVE  /\ workers' \in [Tiles -> WorkerRecords]
           /\ workers'[t].at = to
           /\ workers'[t].cmd = workers[t].cmd
           /\ workers'[t].generation = workers[t].generation
           /\ \A u \in Tiles \ {t} : workers'[u] = workers[u]
  BY DEF Types, WorkerRecords

\* A plain step moves worker t: not into the execution of a command, not into or
\* out of the present round, and out of the loop only after a SHUTDOWN or a stop.
Plain(t, to) ==
    /\ ~Gone(t) /\ to \notin {"none", "count"}
    /\ workers' = [workers EXCEPT ![t].at = to]
    /\ UNCHANGED <<client, started, stopRequested, queues, barrier>>
    /\ tiles' \in [Tiles -> TileRecords]
    /\ \A u \in Tiles :
          \/ tiles'[u].running = tiles[u].running
          \/ tiles'[u].running /\ u = t
          \/ u = t /\ to = "done"
    /\ workers[t].at \in Fresh /\ ~stopRequested => to \in Fresh
    /\ \/ workers[t].at \in Waits <=> to \in Waits
       \/ stopRequested \/ ~started
       \/ workers[t].generation # barrier.generation
    /\ to \in Left => \/ workers[t].at \in Left
                      \/ TookShutdown(t)
                      \/ queues[t] = <<>> /\ stopRequested

LEMMA PlainStep ==
    ASSUME RuntimeInv, NEW t \in Tiles, NEW to \in WorkerPlaces, Plain(t, to)
    PROVE  RuntimeInv'
  <1>1. /\ Types /\ Phases /\ Leaving /\ Running /\ Rounds
        /\ workers' \in [Tiles -> WorkerRecords]
        /\ workers'[t].at = to /\ workers'[t].cmd = workers[t].cmd
        /\ workers'[t].generation = workers[t].generation
        /\ \A u \in Tiles \ {t} : workers'[u] = workers[u]
    BY Moved DEF RuntimeInv, Plain
  <1>2. UNCHANGED <<client, started, stopRequested, queues, barrier>>
    BY DEF Plain
  <1>3. Types'
    BY <1>1, <1>2 DEF Plain, Types
  <1>4. Phases'
    <2>1. client.at = "clear" => ~ Plain(t, to)
      BY <1>1 DEF Phases, Plain
    <2>2. ASSUME client.at = "create", NEW u \in Tiles
          PROVE  /\ tiles'[u].running
                 /\ IF u < client.tile THEN workers'[u].at \in Fresh ELSE Gone(u)'
      <3>1. t < client.tile /\ workers[t].at \in Fresh /\ ~stopRequested
        BY <1>1, <2>2 DEF Phases, Plain, Stopping
      <3>2. to \in Fresh
        BY <3>1 DEF Plain
      <3>3. tiles'[u].running
        BY <1>1, <2>2, <3>2 DEF Phases, Plain, Fresh
      <3>4. QED
        BY <1>1, <2>2, <3>1, <3>2, <3>3 DEF Phases, Gone
    <2>3. ASSUME client.at = "join", NEW u \in Tiles, u < client.tile
          PROVE  workers'[u].at = "done" /\ ~ tiles'[u].running
      <3>1. workers[u].at = "done" /\ ~ tiles[u].running
        BY <1>1, <2>3 DEF Phases
      <3>2. u # t
        BY <3>1 DEF Plain, Gone
      <3>3. QED
        BY <1>1, <3>1, <3>2 DEF Plain
    <2>4. QED
      BY <1>1, <1>2, <2>1, <2>2, <2>3 DEF Phases
  <1>5. Leaving'
    BY <1>1, <1>2 DEF Leaving, Plain, TookShutdown
  <1>6. Running'
    BY <1>1, <1>2 DEF Running, Plain, Gone, Left
  <1>7. Rounds'
    <2>1. ASSUME started, ~ stopRequested
          PROVE  InsideSet' = InsideSet
      <3>1. \A u \in Tiles : Inside(u)' <=> Inside(u)
        BY <1>1, <1>2, <2>1 DEF Inside, Plain, Waits
      <3>2. QED
        BY <3>1 DEF InsideSet
    <2>2. QED
      BY <1>1, <1>2, <2>1 DEF Rounds
  <1>8. QED
    BY <1>3, <1>4, <1>5, <1>6, <1>7 DEF RuntimeInv

\* The counters of a tile may change, its running flag stays.
LEMMA CountedTiles ==
    ASSUME Types, NEW t \in Tiles, NEW field \in {"processed", "sends", "recvs", "errors"},
           NEW n \in Nat, tiles' = [tiles EXCEPT ![t][field] = n]
    PROVE  /\ tiles' \in [Tiles -> TileRecords]
           /\ \A u \in Tiles : tiles'[u].running = tiles[u].running
  <1>1. tiles[t] \in TileRecords /\ tiles \in [Tiles -> TileRecords]
    BY DEF Types
  <1>2. /\ [tiles[t] EXCEPT ![field] = n] \in TileRecords
        /\ [tiles[t] EXCEPT ![field] = n].running = tiles[t].running
    BY <1>1 DEF TileRecords
  <1>3. QED
    BY <1>1, <1>2

LEMMA CountIsPlain ==
    ASSUME RuntimeInv, NEW t \in Tiles, NEW from \in {"error", "sent", "received"},
           NEW field \in {"sends", "recvs", "errors"}, CountAs(t, from, field)
    PROVE  Plain(t, "dequeue")
  <1> DEFINE n == tiles[t][field] + 1
  <1>1. /\ workers[t].at = from /\ workers' = [workers EXCEPT ![t].at = "dequeue"]
        /\ tiles' = [tiles EXCEPT ![t][field] = n]
        /\ UNCHANGED <<client, started, stopRequested, queues, barrier>>
    BY DEF CountAs, WorkerAt, Goto, control
  <1>2. n \in Nat
    BY DEF RuntimeInv, Types, TileRecords
  <1> HIDE DEF n
  <1>3. /\ tiles' \in [Tiles -> TileRecords]
        /\ \A u \in Tiles : tiles'[u].running = tiles[u].running
    BY <1>1, <1>2, CountedTiles DEF RuntimeInv
  <1>4. QED
    BY <1>1, <1>3 DEF Plain, Gone, Fresh, Waits, Left

LEMMA CommandCountIsPlain ==
    ASSUME RuntimeInv, NEW t \in Tiles, CountCommand(t)
    PROVE  \E to \in WorkerPlaces : Plain(t, to)
  <1> DEFINE kind == workers[t].cmd.kind
             to == NextPlace(kind)
             n == tiles[t].processed + 1
             m == tiles[t].errors + (IF kind = "unknown" THEN 1 ELSE 0)
  <1>1. /\ workers[t].at = "count" /\ workers' = [workers EXCEPT ![t].at = to]
        /\ tiles' = [tiles EXCEPT ![t].processed = n, ![t].errors = m]
        /\ UNCHANGED <<client, started, stopRequested, queues, barrier>>
    BY DEF CountCommand, WorkerAt, Goto, control
  <1>2. workers[t].cmd \in Commands /\ kind \in CommandKinds
    BY <1>1, Config DEF RuntimeInv, Leaving
  <1>3. to \in WorkerPlaces \ {"none", "count", "done", "barrierWait", "barrierTest"}
    BY <1>2 DEF CommandKinds, NextPlace, WorkerPlaces
  <1>4. to = "leave" => TookShutdown(t)
    BY <1>2 DEF TookShutdown, CommandKinds, NextPlace
  <1>5. n \in Nat /\ m \in Nat
    BY DEF RuntimeInv, Types, TileRecords
  <1> HIDE DEF n, m, to, kind
  <1>6. /\ tiles' \in [Tiles -> TileRecords]
        /\ \A u \in Tiles : tiles'[u].running = tiles[u].running
    BY <1>1, <1>5 DEF RuntimeInv, Types, TileRecords
  <1>7. Plain(t, to)
    BY <1>1, <1>3, <1>4, <1>6 DEF Plain, Gone, Fresh, Waits, Left
  <1>8. QED
    BY <1>3, <1>7

\* Where the fabric is used, its answer only decides where the worker goes.
LEMMA FabricUseIsPlain ==
    ASSUME RuntimeInv, NEW t \in Tiles,
           \/ SendActivation(t) \/ RecvActivation(t)
           \/ BarrierOutOfMemory(t) \/ FabricArrive(t)
    PROVE  \E to \in WorkerPlaces : Plain(t, to)
  <1>1. PICK to \in {"sent", "received", "error", "meet"} :
            /\ workers[t].at \in {"send", "recv", "arrive"}
            /\ workers' = [workers EXCEPT ![t].at = to]
            /\ UNCHANGED <<client, started, stopRequested, queues, barrier, tiles>>
    BY Zenon DEF SendActivation, RecvActivation, BarrierOutOfMemory, FabricArrive, WorkerAt,
                 Goto, control
  <1>2. tiles' \in [Tiles -> TileRecords]
    BY <1>1 DEF RuntimeInv, Types
  <1>3. Plain(t, to)
    BY <1>1, <1>2 DEF Plain, Gone, Fresh, Waits, Left
  <1>4. QED
    BY <1>3 DEF WorkerPlaces

LEMMA LoopIsPlain ==
    ASSUME RuntimeInv, NEW t \in Tiles,
           \/ Begin(t) \/ DequeueWait(t) \/ DequeueStop(t) \/ SpuriousWakeup(t) \/ Leave(t)
    PROVE  \E to \in WorkerPlaces : Plain(t, to)
  <1>0. tiles \in [Tiles -> TileRecords] /\ workers \in [Tiles -> WorkerRecords]
    BY DEF RuntimeInv, Types
  <1>1. CASE Begin(t)
    <2>1. /\ workers[t].at = "begin" /\ workers' = [workers EXCEPT ![t].at = "dequeue"]
          /\ tiles' = [tiles EXCEPT ![t].running = TRUE]
          /\ UNCHANGED <<client, started, stopRequested, queues, barrier>>
      BY <1>1 DEF Begin, WorkerAt, Goto, control
    <2>2. /\ tiles' \in [Tiles -> TileRecords] /\ tiles'[t].running
          /\ \A u \in Tiles \ {t} : tiles'[u] = tiles[u]
      BY <1>0, <2>1 DEF TileRecords
    <2>3. Plain(t, "dequeue")
      BY <2>1, <2>2 DEF Plain, Gone, Fresh, Waits, Left
    <2>4. QED
      BY <2>3 DEF WorkerPlaces
  <1>2. CASE DequeueWait(t)
    <2>1. Plain(t, "queueWait")
      BY <1>0, <1>2 DEF DequeueWait, WorkerAt, Goto, control, Plain, Gone, Fresh, Waits, Left
    <2>2. QED
      BY <2>1 DEF WorkerPlaces
  <1>3. CASE DequeueStop(t)
    <2>1. Plain(t, "leave")
      BY <1>0, <1>3 DEF DequeueStop, WorkerAt, Goto, control, Plain, Gone, Fresh, Waits, Left
    <2>2. QED
      BY <2>1 DEF WorkerPlaces
  <1>4. CASE SpuriousWakeup(t)
    <2>1. PICK to \in {"dequeue", "barrierTest"} :
              /\ to = IF workers[t].at = "queueWait" THEN "dequeue" ELSE "barrierTest"
              /\ workers[t].at \in {"queueWait", "barrierWait"}
              /\ workers' = [workers EXCEPT ![t].at = to]
              /\ UNCHANGED <<client, started, stopRequested, queues, barrier, tiles>>
      BY <1>4 DEF SpuriousWakeup, Woken, WorkerAt, control
    <2>2. Plain(t, to)
      BY <1>0, <2>1 DEF Plain, Gone, Fresh, Waits, Left
    <2>3. QED
      BY <2>2 DEF WorkerPlaces
  <1>5. CASE Leave(t)
    <2>1. /\ workers[t].at = "leave" /\ workers' = [workers EXCEPT ![t].at = "done"]
          /\ tiles' = [tiles EXCEPT ![t].running = FALSE]
          /\ UNCHANGED <<client, started, stopRequested, queues, barrier>>
      BY <1>5 DEF Leave, WorkerAt, Goto, control
    <2>2. /\ tiles' \in [Tiles -> TileRecords]
          /\ \A u \in Tiles \ {t} : tiles'[u] = tiles[u]
      BY <1>0, <2>1 DEF TileRecords
    <2>3. Plain(t, "done")
      BY <2>1, <2>2 DEF Plain, Gone, Fresh, Waits, Left
    <2>4. QED
      BY <2>3 DEF WorkerPlaces
  <1>6. QED
    BY <1>1, <1>2, <1>3, <1>4, <1>5

\* A worker woken in the barrier stays in it as long as its round is under way.
LEMMA TestIsPlain ==
    ASSUME RuntimeInv, NEW t \in Tiles, BarrierTest(t)
    PROVE  \E to \in WorkerPlaces : Plain(t, to)
  <1> DEFINE to == AfterTest(barrier, workers[t].generation)
  <1>1. /\ workers[t].at = "barrierTest" /\ workers' = [workers EXCEPT ![t].at = to]
        /\ UNCHANGED <<client, started, stopRequested, queues, barrier, tiles>>
    BY DEF BarrierTest, WorkerAt, Goto, control
  <1>2. to \in {"barrierWait", "error", "dequeue"}
    BY DEF AfterTest
  <1>3. started /\ ~stopRequested /\ workers[t].generation = barrier.generation
           => to = "barrierWait"
    <2> SUFFICES ASSUME started, ~stopRequested, workers[t].generation = barrier.generation
                 PROVE  to = "barrierWait"
      OBVIOUS
    <2>1. t \in InsideSet
      BY <1>1 DEF InsideSet, Inside
    <2>2. barrier.active
      BY <2>1 DEF RuntimeInv, Rounds
    <2>3. QED
      BY <2>2 DEF AfterTest, MayWait
  <1> HIDE DEF to
  <1>4. tiles' \in [Tiles -> TileRecords]
    BY <1>1 DEF RuntimeInv, Types
  <1>5. Plain(t, to)
    BY <1>1, <1>2, <1>3, <1>4 DEF Plain, Gone, Fresh, Waits, Left
  <1>6. QED
    BY <1>2, <1>5 DEF WorkerPlaces

(***************************************************************************)
(* The other steps of a worker.                                            *)
(***************************************************************************)
LEMMA DequeueStep ==
    ASSUME RuntimeInv, NEW t \in Tiles, Dequeue(t)
    PROVE  RuntimeInv'
  <1> DEFINE c == Head(queues[t])
             q == Tail(queues[t])
  <1>1. /\ workers[t].at = "dequeue" /\ queues[t] # <<>>
        /\ workers' = [workers EXCEPT ![t].at = "count", ![t].cmd = c]
        /\ queues' = [queues EXCEPT ![t] = q]
        /\ UNCHANGED <<client, started, stopRequested, barrier, tiles>>
    BY DEF Dequeue, WorkerAt, control
  <1>2. /\ Types /\ Phases /\ Leaving /\ Running /\ Rounds
    BY DEF RuntimeInv
  <1>3. queues[t] \in Seq(Commands)
    BY <1>2 DEF Types
  <1>4. c \in Commands /\ q \in Seq(Commands)
    BY <1>1, <1>3
  <1> HIDE DEF c, q
  <1>5. /\ workers' \in [Tiles -> WorkerRecords]
        /\ workers'[t].at = "count" /\ workers'[t].cmd = c
        /\ workers'[t].generation = workers[t].generation
        /\ \A u \in Tiles \ {t} : workers'[u] = workers[u]
    BY <1>1, <1>2, <1>4 DEF Types, WorkerRecords, WorkerPlaces
  <1>6. /\ queues' \in [Tiles -> Seq(Commands)]
        /\ \A u \in Tiles \ {t} : queues'[u] = queues[u]
    BY <1>1, <1>2, <1>4 DEF Types
  <1>7. Types'
    BY <1>1, <1>2, <1>5, <1>6 DEF Types
  <1>8. Phases'
    BY <1>1, <1>2, <1>5, <1>6 DEF Phases, Gone
  <1>9. Leaving'
    BY <1>1, <1>2, <1>4, <1>5, <1>6 DEF Leaving, TookShutdown, Left
  <1>10. Running'
    BY <1>1, <1>2, <1>5 DEF Running
  <1>11. InsideSet' = InsideSet
    <2>1. \A u \in Tiles : Inside(u)' <=> Inside(u)
      BY <1>1, <1>5 DEF Inside
    <2>2. QED
      BY <2>1 DEF InsideSet
  <1>12. Rounds'
    BY <1>1, <1>2, <1>5, <1>11 DEF Rounds
  <1>13. QED
    BY <1>7, <1>8, <1>9, <1>10, <1>12 DEF RuntimeInv

\* The steps from "meet" need a start that is complete: until then the workers
\* have had no command.
LEMMA MeetIsLate ==
    ASSUME RuntimeInv, NEW t \in Tiles, workers[t].at = "meet"
    PROVE  client.at \notin {"clear", "create"}
  BY DEF RuntimeInv, Phases, Gone, Fresh

\* A step at the barrier that leaves the flags, the queues and the tiles alone.
LEMMA BarrierKeeps ==
    ASSUME RuntimeInv, NEW t \in Tiles, workers[t].at = "meet",
           UNCHANGED <<client, started, stopRequested, queues, tiles>>,
           workers' \in [Tiles -> WorkerRecords], barrier' \in BarrierRecords,
           workers'[t].at \in Waits \cup {"error", "dequeue"},
           \A u \in Tiles \ {t} :
              /\ workers'[u].cmd = workers[u].cmd
              /\ \/ workers'[u].at = workers[u].at
                 \/ workers[u].at \in Waits /\ workers'[u].at \in Waits
    PROVE  Types' /\ Phases' /\ Leaving' /\ Running'
  <1>1. Types /\ Phases /\ Leaving /\ Running /\ client.at \notin {"clear", "create"}
    BY MeetIsLate DEF RuntimeInv
  <1>2. Types'
    BY <1>1 DEF Types
  <1>3. Phases'
    BY <1>1 DEF Phases, Waits
  <1>4. Leaving'
    BY <1>1 DEF Leaving, TookShutdown, Waits, Left
  <1>5. Running'
    BY <1>1 DEF Running, Waits
  <1>6. QED
    BY <1>2, <1>3, <1>4, <1>5

\* An arrival that is not the last: one more tile inside, one more arrival.
LEMMA MeetStep ==
    ASSUME RuntimeInv, NEW t \in Tiles, Meet(t)
    PROVE  RuntimeInv'
  <1> DEFINE to == AfterTest(Joined, barrier.generation)
  <1>1. /\ workers[t].at = "meet" /\ Joined.arrived # Joined.expected /\ barrier' = Joined
        /\ workers' = [workers EXCEPT ![t].at = to, ![t].generation = barrier.generation]
        /\ UNCHANGED <<client, started, stopRequested, queues, tiles>>
    BY DEF Meet, WorkerAt, control
  <1>2. to \in {"barrierWait", "error", "dequeue"} /\ (~stopRequested => to = "barrierWait")
    BY DEF AfterTest, MayWait, Joined
  <1> HIDE DEF to
  <1>3. Types /\ Rounds /\ barrier \in BarrierRecords
    BY DEF RuntimeInv, Types
  <1>4. /\ workers' \in [Tiles -> WorkerRecords]
        /\ workers'[t].at = to /\ workers'[t].generation = barrier.generation
        /\ \A u \in Tiles \ {t} : workers'[u] = workers[u]
    BY <1>1, <1>2, <1>3 DEF Types, WorkerRecords, WorkerPlaces, BarrierRecords
  <1>5. /\ barrier'.active /\ barrier'.expected = TileCount
        /\ barrier'.generation = barrier.generation
        /\ barrier'.arrived = (IF barrier.active THEN barrier.arrived ELSE 0) + 1
        /\ barrier' \in BarrierRecords
    BY <1>1, <1>3, Config DEF Joined, Rounds, BarrierRecords
  <1>6. Types' /\ Phases' /\ Leaving' /\ Running'
    BY <1>1, <1>2, <1>4, <1>5, BarrierKeeps DEF Waits
  <1>7. ASSUME started, ~stopRequested
        PROVE  barrier'.arrived = Cardinality(InsideSet')
    <2>1. InsideSet' = InsideSet \cup {t} /\ t \notin InsideSet
      BY <1>1, <1>2, <1>4, <1>5, <1>7 DEF InsideSet, Inside
    <2>2. IsFiniteSet(InsideSet)
      BY Config, FS_Subset DEF InsideSet
    <2>3. Cardinality(InsideSet') = Cardinality(InsideSet) + 1
      BY <2>1, <2>2, FS_AddElement
    <2>4. Cardinality(InsideSet) = IF barrier.active THEN barrier.arrived ELSE 0
      BY <1>3, <1>7, FS_EmptySet DEF Rounds
    <2>5. QED
      BY <1>5, <2>3, <2>4
  <1>8. \A u \in Tiles : workers'[u].generation <= barrier'.generation
    BY <1>3, <1>4, <1>5 DEF Rounds, BarrierRecords
  <1>9. Rounds'
    BY <1>1, <1>5, <1>7, <1>8 DEF Rounds
  <1>10. QED
    BY <1>6, <1>9 DEF RuntimeInv

\* The last arrival: nobody is inside the next round.
LEMMA MeetLastStep ==
    ASSUME RuntimeInv, NEW t \in Tiles, MeetLast(t)
    PROVE  RuntimeInv'
  <1> DEFINE woken == WakeAll(workers, "barrierWait")
             g == barrier.generation + 1
  <1>1. /\ workers[t].at = "meet"
        /\ barrier' = [active |-> FALSE, expected |-> 0, arrived |-> 0, generation |-> g]
        /\ workers' = [woken EXCEPT ![t].at = "dequeue"]
        /\ UNCHANGED <<client, started, stopRequested, queues, tiles>>
    BY DEF MeetLast, WorkerAt, control
  <1>2. Types /\ Rounds /\ barrier \in BarrierRecords /\ workers \in [Tiles -> WorkerRecords]
    BY DEF RuntimeInv, Types
  <1>3. /\ woken \in [Tiles -> WorkerRecords]
        /\ \A u \in Tiles : /\ woken[u].cmd = workers[u].cmd
                            /\ woken[u].generation = workers[u].generation
                            /\ \/ woken[u].at = workers[u].at
                               \/ workers[u].at \in Waits /\ woken[u].at \in Waits
    BY <1>2 DEF WakeAll, Woken, WorkerRecords, WorkerPlaces, Waits
  <1> HIDE DEF woken
  <1>4. /\ workers' \in [Tiles -> WorkerRecords]
        /\ workers'[t].at = "dequeue"
        /\ \A u \in Tiles \ {t} : workers'[u] = woken[u]
        /\ \A u \in Tiles : workers'[u].generation = workers[u].generation
    BY <1>1, <1>3 DEF WorkerRecords, WorkerPlaces
  <1>5. /\ barrier' \in BarrierRecords /\ ~ barrier'.active
        /\ barrier'.generation = barrier.generation + 1
        /\ barrier.generation \in Nat
    BY <1>1, <1>2, Config DEF BarrierRecords
  <1> HIDE DEF g
  <1>6. Types' /\ Phases' /\ Leaving' /\ Running'
    BY <1>1, <1>3, <1>4, <1>5, BarrierKeeps
  <1>7. \A u \in Tiles : workers'[u].generation < barrier'.generation
    BY <1>2, <1>4, <1>5 DEF Rounds, WorkerRecords
  <1>8. InsideSet' = {}
    BY <1>4, <1>5, <1>7 DEF InsideSet, Inside, WorkerRecords
  <1>9. \A u \in Tiles : workers'[u].generation <= barrier'.generation
    BY <1>4, <1>5, <1>7 DEF WorkerRecords
  <1>10. Rounds'
    BY <1>5, <1>8, <1>9 DEF Rounds
  <1>11. QED
    BY <1>6, <1>10 DEF RuntimeInv

LEMMA WorkerKinds ==
    ASSUME RuntimeInv, NEW t \in Tiles, WorkerStep(t) \/ SpuriousWakeup(t)
    PROVE  \/ \E to \in WorkerPlaces : Plain(t, to)
           \/ Dequeue(t) \/ Meet(t) \/ MeetLast(t)
  <1>1. CASE \/ CountAs(t, "error", "errors") \/ CountAs(t, "sent", "sends")
             \/ CountAs(t, "received", "recvs")
    <2>1. Plain(t, "dequeue")
      BY <1>1, CountIsPlain
    <2>2. QED
      BY <2>1 DEF WorkerPlaces
  <1>2. CASE CountCommand(t)
    BY <1>2, CommandCountIsPlain
  <1>3. CASE \/ SendActivation(t) \/ RecvActivation(t)
             \/ BarrierOutOfMemory(t) \/ FabricArrive(t)
    BY <1>3, FabricUseIsPlain
  <1>4. CASE \/ Begin(t) \/ DequeueWait(t) \/ DequeueStop(t) \/ SpuriousWakeup(t)
             \/ Leave(t)
    BY <1>4, LoopIsPlain
  <1>5. CASE BarrierTest(t)
    BY <1>5, TestIsPlain
  <1>6. CASE Dequeue(t) \/ Meet(t) \/ MeetLast(t)
    BY <1>6
  <1>7. QED
    BY <1>1, <1>2, <1>3, <1>4, <1>5, <1>6 DEF WorkerStep

LEMMA WorkerSteps ==
    ASSUME RuntimeInv, NEW t \in Tiles, WorkerStep(t) \/ SpuriousWakeup(t)
    PROVE  RuntimeInv'
  BY WorkerKinds, PlainStep, DequeueStep, MeetStep, MeetLastStep

(***************************************************************************)
(* Steps of the client.                                                    *)
(***************************************************************************)
\* The client goes on to the next tile while there is one.
LEMMA NextTile ==
    ASSUME Types
    PROVE  /\ client.tile \in Nat
           /\ client.tile + 1 < TileCount => client.tile + 1 \in Tiles
           /\ ~ (client.tile + 1 < TileCount) => \A t \in Tiles : t <= client.tile
           /\ \A t \in Tiles : t \in Nat /\ (t < client.tile + 1 <=> t < client.tile \/ t = client.tile)
           /\ client.tile \in Tiles
  BY Config DEF Types, ClientRecords, Tiles

ClientAt(at, t, destroying) == [at |-> at, tile |-> t, destroying |-> destroying]

LEMMA ClientAtType ==
    ASSUME NEW at \in ClientPlaces, NEW t \in Tiles, NEW destroying \in BOOLEAN
    PROVE  /\ ClientAt(at, t, destroying) \in ClientRecords
           /\ ClientAt(at, t, destroying).at = at /\ ClientAt(at, t, destroying).tile = t
  BY DEF ClientAt, ClientRecords

LEMMA ClientAtHome ==
    \A at \in ClientPlaces : /\ ClientAt(at, 0, FALSE) \in ClientRecords
                             /\ ClientAt(at, 0, FALSE).at = at /\ ClientAt(at, 0, FALSE).tile = 0
  BY Config DEF ClientAt, ClientRecords

LEMMA StartBeginStep ==
    ASSUME RuntimeInv, StartBegin
    PROVE  RuntimeInv'
  <1>1. /\ client = IdleClient /\ ~started /\ stopRequested' = FALSE
        /\ \A t \in Tiles : Gone(t)
        /\ barrier' = [active |-> FALSE, expected |-> 0, arrived |-> 0,
                       generation |-> barrier.generation + 1]
        /\ client' = [IdleClient EXCEPT !.at = "clear"]
        /\ UNCHANGED <<started, queues, workers, tiles>>
    BY DEF StartBegin
  <1>2. /\ client'.at = "clear" /\ client'.tile = 0 /\ client' \in ClientRecords
        /\ barrier' \in BarrierRecords /\ ~ barrier'.active
        /\ barrier'.generation = barrier.generation + 1
    <2>1. client' = ClientAt("clear", 0, FALSE)
      BY <1>1 DEF IdleClient, ClientAt
    <2>2. barrier.generation + 1 \in Nat
      BY DEF RuntimeInv, Types, BarrierRecords
    <2>3. barrier' \in BarrierRecords
      BY <1>1, <2>2, Config DEF BarrierRecords
    <2>4. QED
      BY <1>1, <2>1, <2>3, ClientAtHome DEF ClientPlaces
  <1>3. \A t \in Tiles : ~ (t < 0)
    BY DEF Tiles
  <1>4. Types'
    BY <1>1, <1>2 DEF RuntimeInv, Types
  <1>5. Phases'
    BY <1>1, <1>2, <1>3 DEF Phases, Gone, Stopping
  <1>6. Leaving' /\ Running'
    BY <1>1 DEF RuntimeInv, Leaving, Running, TookShutdown, Gone
  <1>7. Rounds'
    BY <1>1, <1>2 DEF RuntimeInv, Rounds, Types, WorkerRecords, BarrierRecords
  <1>8. QED
    BY <1>4, <1>5, <1>6, <1>7 DEF RuntimeInv

LEMMA StartClearStep ==
    ASSUME RuntimeInv, StartClear
    PROVE  RuntimeInv'
  <1> DEFINE k == client.tile
  <1>1. /\ client.at = "clear" /\ queues' = [queues EXCEPT ![k] = <<>>]
        /\ tiles' = [tiles EXCEPT ![k].running = TRUE]
        /\ client' = IF k + 1 < TileCount THEN [client EXCEPT !.tile = k + 1]
                     ELSE [client EXCEPT !.at = "create", !.tile = 0]
        /\ UNCHANGED <<started, stopRequested, workers, barrier>>
    BY DEF StartClear
  <1>2. Types /\ Phases /\ client \in ClientRecords /\ k \in Tiles
    BY NextTile DEF RuntimeInv, Types
  <1>3. /\ client' \in ClientRecords
        /\ client'.at \in {"clear", "create"}
        /\ client'.at = "clear" => client'.tile = k + 1
        /\ client'.at = "create" => client'.tile = 0 /\ \A t \in Tiles : t <= k
    BY <1>1, <1>2, NextTile, Config DEF ClientRecords, ClientPlaces
  <1>4. /\ queues' \in [Tiles -> Seq(Commands)] /\ queues'[k] = <<>>
        /\ \A t \in Tiles \ {k} : queues'[t] = queues[t]
        /\ tiles' \in [Tiles -> TileRecords] /\ tiles'[k].running
        /\ \A t \in Tiles \ {k} : tiles'[t] = tiles[t]
    <2>1. <<>> \in Seq(Commands)
      OBVIOUS
    <2>2. /\ queues' \in [Tiles -> Seq(Commands)] /\ queues'[k] = <<>>
          /\ \A t \in Tiles \ {k} : queues'[t] = queues[t]
      BY <1>1, <1>2, <2>1 DEF Types
    <2>3. /\ tiles' \in [Tiles -> TileRecords] /\ tiles'[k].running
          /\ \A t \in Tiles \ {k} : tiles'[t] = tiles[t]
      BY <1>1, <1>2 DEF Types, TileRecords
    <2>4. QED
      BY <2>2, <2>3
  <1>5. ~started /\ ~stopRequested /\ ~barrier.active
    BY <1>1, <1>2 DEF Phases, Stopping
  <1>6. \A t \in Tiles : /\ Gone(t)
                         /\ t < k \/ t = k => queues'[t] = <<>> /\ tiles'[t].running
    BY <1>1, <1>2, <1>4 DEF Phases
  <1>7. \A t \in Tiles : (t < k + 1 <=> t < k \/ t = k) /\ (t <= k <=> t < k \/ t = k) /\ ~(t < 0)
    BY <1>2, NextTile DEF Tiles
  <1> HIDE DEF k
  <1>8. Types'
    BY <1>1, <1>2, <1>3, <1>4 DEF Types
  <1>9. Phases'
    BY <1>1, <1>3, <1>5, <1>6, <1>7 DEF Phases, Gone, Stopping
  <1>10. Leaving' /\ Running'
    BY <1>1, <1>4, <1>5 DEF RuntimeInv, Leaving, Running, TookShutdown
  <1>11. Rounds'
    BY <1>1, <1>5 DEF RuntimeInv, Rounds
  <1>12. QED
    BY <1>8, <1>9, <1>10, <1>11 DEF RuntimeInv

LEMMA StartCreateStep ==
    ASSUME RuntimeInv, StartCreate
    PROVE  RuntimeInv'
  <1> DEFINE k == client.tile
             fresh == [at |-> "begin", cmd |-> NoCommand, generation |-> 0]
  <1>1. /\ client.at = "create" /\ workers' = [workers EXCEPT ![k] = fresh]
        /\ \/ /\ k + 1 < TileCount /\ client' = [client EXCEPT !.tile = k + 1]
              /\ started' = started
           \/ ~(k + 1 < TileCount) /\ client' = IdleClient /\ started' = TRUE
        /\ UNCHANGED <<stopRequested, queues, barrier, tiles>>
    BY DEF StartCreate
  <1>2. Types /\ Phases /\ client \in ClientRecords /\ k \in Tiles
    BY NextTile DEF RuntimeInv, Types
  <1>3. /\ client' \in ClientRecords
        /\ \/ client'.at = "create" /\ client'.tile = k + 1 /\ started' = started
           \/ client'.at = "idle" /\ started' = TRUE /\ \A t \in Tiles : t <= k
    <2>1. CASE k + 1 < TileCount
      BY <1>1, <1>2, <2>1, NextTile DEF ClientRecords
    <2>2. CASE ~(k + 1 < TileCount)
      <3>1. IdleClient = ClientAt("idle", 0, FALSE)
        BY DEF IdleClient, ClientAt
      <3>2. IdleClient \in ClientRecords /\ IdleClient.at = "idle"
        BY <3>1, ClientAtHome DEF ClientPlaces
      <3>3. QED
        BY <1>1, <1>2, <2>2, <3>2, NextTile
    <2>3. QED
      BY <2>1, <2>2
  <1>4. /\ workers' \in [Tiles -> WorkerRecords] /\ workers'[k] = fresh
        /\ \A t \in Tiles \ {k} : workers'[t] = workers[t]
    BY <1>1, <1>2 DEF Types, WorkerRecords, WorkerPlaces
  <1>5. ~started /\ ~stopRequested /\ ~barrier.active
    BY <1>1, <1>2 DEF Phases, Stopping
  <1>6. \A t \in Tiles : /\ queues[t] = <<>> /\ tiles[t].running
                         /\ IF t < k \/ t = k THEN workers'[t].at \in Fresh
                                              ELSE workers'[t].at \in {"none", "done"}
    BY <1>1, <1>2, <1>4 DEF Phases, Fresh, Gone
  <1>7. \A t \in Tiles : (t < k + 1 <=> t < k \/ t = k) /\ (t <= k <=> t < k \/ t = k)
    BY <1>2, NextTile DEF Tiles
  <1>8. \A t \in Tiles : workers'[t].generation <= barrier.generation
    <2>1. barrier.generation \in Nat /\ fresh.generation = 0
      BY <1>2 DEF Types, BarrierRecords
    <2>2. 0 <= barrier.generation
      BY <2>1
    <2> HIDE DEF fresh
    <2>3. QED
      BY <1>4, <2>1, <2>2 DEF RuntimeInv, Rounds
  <1> HIDE DEF k, fresh
  <1>9. Types'
    BY <1>1, <1>2, <1>3, <1>4 DEF Types
  <1>10. Phases'
    BY <1>1, <1>3, <1>5, <1>6, <1>7 DEF Phases, Gone, Stopping
  <1>11. Leaving'
    <2>1. CASE client'.at = "create"
      BY <2>1, <1>1, <1>3, <1>5, <1>6 DEF Leaving, TookShutdown, Fresh
    <2>2. CASE client'.at = "idle"
      BY <2>2, <1>3, <1>6, <1>7 DEF Leaving, TookShutdown, Fresh, Left
    <2>3. QED
      BY <1>3, <2>1, <2>2
  <1>12. Running'
    BY <1>1, <1>6 DEF Running
  <1>13. Rounds'
    <2>1. started' => InsideSet' = {}
      BY <1>3, <1>5, <1>6, <1>7 DEF InsideSet, Inside, Fresh
    <2>2. QED
      BY <1>1, <1>5, <1>8, <2>1 DEF RuntimeInv, Rounds
  <1>14. QED
    BY <1>9, <1>10, <1>11, <1>12, <1>13 DEF RuntimeInv

\* Also the ends of a start that fails and of a runtime that never started.
LEMMA EnterStopStep ==
    ASSUME RuntimeInv, NEW destroying \in BOOLEAN, EnterStop(destroying),
           client.at \in {"idle", "create"}
    PROVE  RuntimeInv'
  <1>1. /\ UNCHANGED <<started, queues, workers, barrier, tiles>>
        /\ \/ /\ started /\ stopRequested' = TRUE /\ client'.at = "signal"
           \/ /\ ~started /\ UNCHANGED stopRequested /\ client'.at \in {"idle", "destroyed"}
        /\ client' \in ClientRecords
    <2>1. CASE started
      <3>1. client' = ClientAt("signal", 0, destroying)
        BY <2>1 DEF EnterStop, ClientAt
      <3>2. QED
        BY <2>1, <3>1, ClientAtType, Config DEF EnterStop, ClientPlaces
    <2>2. CASE ~started
      <3> DEFINE at == IF destroying THEN "destroyed" ELSE "idle"
      <3>1. client' = [IdleClient EXCEPT !.at = at]
        BY <2>2 DEF EnterStop
      <3>2. at \in {"idle", "destroyed"}
        OBVIOUS
      <3> HIDE DEF at
      <3>3. client' = ClientAt(at, 0, FALSE)
        BY <3>1 DEF IdleClient, ClientAt
      <3>4. client' \in ClientRecords /\ client'.at = at
        BY <3>2, <3>3, ClientAtHome DEF ClientPlaces
      <3>5. QED
        BY <2>2, <3>2, <3>4 DEF EnterStop
    <2>3. QED
      BY <2>1, <2>2
  <1>2. ~stopRequested
    BY DEF RuntimeInv, Phases, Stopping
  <1>3. Types'
    BY <1>1 DEF RuntimeInv, Types
  <1>4. Phases'
    BY <1>1, <1>2 DEF Phases, Stopping
  <1>5. Leaving' /\ Running'
    BY <1>1, <1>2 DEF RuntimeInv, Leaving, Running, TookShutdown
  <1>6. Rounds'
    BY <1>1, <1>2 DEF RuntimeInv, Rounds, InsideSet, Inside
  <1>7. QED
    BY <1>3, <1>4, <1>5, <1>6 DEF RuntimeInv

LEMMA StopSignalStep ==
    ASSUME RuntimeInv, StopSignal
    PROVE  RuntimeInv'
  <1> DEFINE k == client.tile
             w == IF workers[k].at = "queueWait" THEN Woken(workers[k]) ELSE workers[k]
  <1>1. /\ client.at = "signal" /\ workers' = [workers EXCEPT ![k] = w]
        /\ client' = IF k + 1 < TileCount THEN [client EXCEPT !.tile = k + 1]
                     ELSE [client EXCEPT !.at = "signalBarrier", !.tile = 0]
        /\ UNCHANGED <<started, stopRequested, queues, barrier, tiles>>
    BY DEF StopSignal
  <1>2. Types /\ Phases /\ k \in Tiles /\ client \in ClientRecords
    BY NextTile DEF RuntimeInv, Types
  <1>3. /\ client' \in ClientRecords /\ client'.at \in {"signal", "signalBarrier"}
        /\ client'.at = "signalBarrier" => client'.tile = 0
    BY <1>1, <1>2, NextTile, Config DEF ClientRecords, ClientPlaces
  <1>4. workers[k] \in WorkerRecords
    BY <1>2 DEF Types
  <1>5. /\ w \in WorkerRecords /\ w.cmd = workers[k].cmd /\ w.generation = workers[k].generation
        /\ \/ w.at = workers[k].at
           \/ workers[k].at = "queueWait" /\ w.at = "dequeue"
    BY <1>4 DEF Woken, WorkerRecords, WorkerPlaces
  <1> HIDE DEF k, w
  <1>6. /\ workers' \in [Tiles -> WorkerRecords] /\ workers'[k] = w
        /\ \A t \in Tiles \ {k} : workers'[t] = workers[t]
    BY <1>1, <1>2, <1>5 DEF Types
  <1>7. \A t \in Tiles : /\ workers'[t].cmd = workers[t].cmd
                         /\ workers'[t].generation = workers[t].generation
                         /\ \/ workers'[t].at = workers[t].at
                            \/ workers[t].at = "queueWait" /\ workers'[t].at = "dequeue"
    BY <1>5, <1>6
  <1>8. stopRequested /\ started
    BY <1>1, <1>2 DEF Phases, Stopping
  <1>9. Types'
    BY <1>1, <1>2, <1>3, <1>6 DEF Types
  <1>10. Phases'
    BY <1>1, <1>3, <1>8 DEF Phases, Stopping
  <1>11. Leaving' /\ Running'
    BY <1>1, <1>7 DEF RuntimeInv, Leaving, Running, TookShutdown, Left
  <1>12. Rounds'
    BY <1>1, <1>7, <1>8 DEF RuntimeInv, Rounds
  <1>13. QED
    BY <1>9, <1>10, <1>11, <1>12 DEF RuntimeInv

LEMMA StopSignalBarrierStep ==
    ASSUME RuntimeInv, StopSignalBarrier
    PROVE  RuntimeInv'
  <1>1. /\ client.at = "signalBarrier" /\ workers' = WakeAll(workers, "barrierWait")
        /\ client' = [client EXCEPT !.at = "join"]
        /\ UNCHANGED <<started, stopRequested, queues, barrier, tiles>>
    BY DEF StopSignalBarrier
  <1>2. Types /\ Phases /\ client \in ClientRecords /\ workers \in [Tiles -> WorkerRecords]
    BY DEF RuntimeInv, Types
  <1>3. stopRequested /\ started
    BY <1>1, <1>2 DEF Phases, Stopping
  <1>4. client' \in ClientRecords /\ client'.at = "join" /\ client'.tile = client.tile
    BY <1>1, <1>2 DEF ClientRecords, ClientPlaces
  <1>5. /\ workers' \in [Tiles -> WorkerRecords]
        /\ \A t \in Tiles : /\ workers'[t].cmd = workers[t].cmd
                            /\ workers'[t].generation = workers[t].generation
                            /\ \/ workers'[t].at = workers[t].at
                               \/ workers[t].at = "barrierWait" /\ workers'[t].at = "barrierTest"
    BY <1>1, <1>2 DEF WakeAll, Woken, WorkerRecords, WorkerPlaces
  <1>6. client.tile = 0
    BY <1>1, <1>2 DEF Phases
  <1>7. Types'
    BY <1>1, <1>2, <1>4, <1>5 DEF Types
  <1>8. Phases'
    BY <1>1, <1>3, <1>4, <1>6, Config DEF Phases, Stopping, Tiles
  <1>9. Leaving' /\ Running'
    BY <1>1, <1>5 DEF RuntimeInv, Leaving, Running, TookShutdown, Left
  <1>10. Rounds'
    BY <1>1, <1>3, <1>5 DEF RuntimeInv, Rounds
  <1>11. QED
    BY <1>7, <1>8, <1>9, <1>10 DEF RuntimeInv

LEMMA StopJoinStep ==
    ASSUME RuntimeInv, StopJoin
    PROVE  RuntimeInv'
  <1> DEFINE k == client.tile
  <1>1. /\ client.at = "join" /\ workers[k].at = "done"
        /\ tiles' = [tiles EXCEPT ![k].running = FALSE]
        /\ \/ /\ k + 1 < TileCount /\ client' = [client EXCEPT !.tile = k + 1]
              /\ UNCHANGED <<started, stopRequested>>
           \/ /\ client' = [IdleClient EXCEPT
                               !.at = IF client.destroying THEN "destroyed" ELSE "idle"]
              /\ started' = FALSE /\ stopRequested' = FALSE
        /\ UNCHANGED <<queues, workers, barrier>>
    BY DEF StopJoin
  <1>2. Types /\ Phases /\ k \in Tiles /\ client \in ClientRecords
    BY NextTile DEF RuntimeInv, Types
  <1>3. started /\ stopRequested
    BY <1>1, <1>2 DEF Phases, Stopping
  <1>4. /\ tiles' \in [Tiles -> TileRecords] /\ ~ tiles'[k].running
        /\ \A t \in Tiles \ {k} : tiles'[t] = tiles[t]
    BY <1>1, <1>2 DEF Types, TileRecords
  <1>5. /\ client' \in ClientRecords
        /\ \/ /\ client'.at = "join" /\ client'.tile = k + 1
              /\ started' = started /\ stopRequested' = stopRequested
           \/ /\ client'.at \in {"idle", "destroyed"}
              /\ started' = FALSE /\ stopRequested' = FALSE
    <2>1. CASE k + 1 < TileCount /\ client' = [client EXCEPT !.tile = k + 1]
               /\ UNCHANGED <<started, stopRequested>>
      BY <1>1, <1>2, <2>1, NextTile DEF ClientRecords
    <2>2. CASE /\ client' = [IdleClient EXCEPT
                                !.at = IF client.destroying THEN "destroyed" ELSE "idle"]
               /\ started' = FALSE /\ stopRequested' = FALSE
      <3> DEFINE at == IF client.destroying THEN "destroyed" ELSE "idle"
      <3>1. client' = [IdleClient EXCEPT !.at = at]
        BY <2>2
      <3>2. at \in {"idle", "destroyed"}
        OBVIOUS
      <3> HIDE DEF at
      <3>3. client' = ClientAt(at, 0, FALSE)
        BY <3>1 DEF IdleClient, ClientAt
      <3>4. client' \in ClientRecords /\ client'.at = at
        BY <3>2, <3>3, ClientAtHome DEF ClientPlaces
      <3>5. QED
        BY <2>2, <3>2, <3>4
    <2>3. QED
      BY <1>1, <2>1, <2>2
  <1>6. \A t \in Tiles : t < k \/ t = k => workers[t].at = "done" /\ ~ tiles'[t].running
    BY <1>1, <1>2, <1>4 DEF Phases
  <1>7. \A t \in Tiles : (t < k + 1 <=> t < k \/ t = k)
    BY <1>2, NextTile
  <1> HIDE DEF k
  <1>8. Types'
    BY <1>1, <1>2, <1>4, <1>5 DEF Types
  <1>9. Phases'
    BY <1>1, <1>3, <1>5, <1>6, <1>7 DEF Phases, Stopping
  <1>10. Leaving'
    BY <1>1, <1>5 DEF RuntimeInv, Leaving, TookShutdown
  <1>11. Running'
    BY <1>1, <1>3, <1>4, <1>5 DEF RuntimeInv, Running
  <1>12. Rounds'
    BY <1>1, <1>3, <1>5 DEF RuntimeInv, Rounds
  <1>13. QED
    BY <1>8, <1>9, <1>10, <1>11, <1>12 DEF RuntimeInv

LEMMA SendCommandStep ==
    ASSUME RuntimeInv, NEW t \in Tiles, NEW command \in Commands, SendCommand(t, command)
    PROVE  RuntimeInv'
  <1> DEFINE w == IF workers[t].at = "queueWait" THEN Woken(workers[t]) ELSE workers[t]
             q == Append(queues[t], command)
  <1>1. /\ client = IdleClient /\ started
        /\ queues' = [queues EXCEPT ![t] = q] /\ workers' = [workers EXCEPT ![t] = w]
        /\ UNCHANGED <<client, started, stopRequested, barrier, tiles>>
    BY DEF SendCommand
  <1>2. Types /\ Phases /\ workers[t] \in WorkerRecords /\ queues[t] \in Seq(Commands)
    BY DEF RuntimeInv, Types
  <1>3. client.at = "idle" /\ ~stopRequested
    BY <1>1, <1>2 DEF IdleClient, Phases, Stopping
  <1>4. /\ w \in WorkerRecords /\ w.cmd = workers[t].cmd /\ w.generation = workers[t].generation
        /\ \/ w.at = workers[t].at
           \/ workers[t].at = "queueWait" /\ w.at = "dequeue"
    BY <1>2 DEF Woken, WorkerRecords, WorkerPlaces
  <1>5. q \in Seq(Commands)
    BY <1>2
  <1> HIDE DEF q, w
  <1>6. /\ workers' \in [Tiles -> WorkerRecords] /\ workers'[t] = w
        /\ \A u \in Tiles \ {t} : workers'[u] = workers[u]
        /\ queues' \in [Tiles -> Seq(Commands)]
        /\ \A u \in Tiles \ {t} : queues'[u] = queues[u]
    BY <1>1, <1>2, <1>4, <1>5 DEF Types
  <1>7. \A u \in Tiles : /\ workers'[u].cmd = workers[u].cmd
                         /\ workers'[u].generation = workers[u].generation
                         /\ \/ workers'[u].at = workers[u].at
                            \/ workers[u].at = "queueWait" /\ workers'[u].at = "dequeue"
    BY <1>4, <1>6
  <1>8. Types'
    BY <1>1, <1>2, <1>6 DEF Types
  <1>9. Phases'
    BY <1>1, <1>2, <1>3 DEF Phases
  <1>10. Leaving' /\ Running'
    BY <1>1, <1>3, <1>7 DEF RuntimeInv, Leaving, Running, TookShutdown, Left
  <1>11. InsideSet' = InsideSet
    <2>1. \A u \in Tiles : Inside(u)' <=> Inside(u)
      BY <1>1, <1>7 DEF Inside
    <2>2. QED
      BY <2>1 DEF InsideSet
  <1>12. Rounds'
    BY <1>1, <1>7, <1>11 DEF RuntimeInv, Rounds
  <1>13. QED
    BY <1>8, <1>9, <1>10, <1>12 DEF RuntimeInv

(***************************************************************************)
(* The theorems.                                                           *)
(***************************************************************************)
LEMMA InitHolds == Init => RuntimeInv
  <1> SUFFICES ASSUME Init
               PROVE  RuntimeInv
    OBVIOUS
  <1>1. client = ClientAt("idle", 0, FALSE)
    BY DEF Init, IdleClient, ClientAt
  <1>2. client \in ClientRecords /\ client.at = "idle"
    BY <1>1, ClientAtHome DEF ClientPlaces
  <1>3. /\ started = FALSE /\ stopRequested = FALSE
        /\ queues = [t \in Tiles |-> <<>>]
        /\ workers = [t \in Tiles |-> [at |-> "none", cmd |-> NoCommand, generation |-> 0]]
        /\ barrier = [active |-> FALSE, expected |-> 0, arrived |-> 0, generation |-> 0]
        /\ tiles = [t \in Tiles |-> ZeroTile]
    BY DEF Init
  <1>4. queues \in [Tiles -> Seq(Commands)]
    BY <1>3
  <1>5. workers \in [Tiles -> WorkerRecords]
    BY <1>3 DEF WorkerRecords, WorkerPlaces
  <1>6. barrier \in BarrierRecords
    BY <1>3, Config DEF BarrierRecords
  <1>7. tiles \in [Tiles -> TileRecords]
    BY <1>3 DEF TileRecords, ZeroTile
  <1>8. Types
    BY <1>2, <1>3, <1>4, <1>5, <1>6, <1>7 DEF Types
  <1>9. Phases /\ Leaving /\ Running
    BY <1>2, <1>3 DEF Phases, Leaving, Running, Stopping, Left
  <1>10. Rounds
    BY <1>3 DEF Rounds
  <1>11. QED
    BY <1>8, <1>9, <1>10 DEF RuntimeInv

LEMMA NextHolds == RuntimeInv /\ [Next]_vars => RuntimeInv'
  <1> SUFFICES ASSUME RuntimeInv, [Next]_vars
               PROVE  RuntimeInv'
    OBVIOUS
  <1>1. CASE StartBegin \/ StartClear \/ StartCreate
    BY <1>1, StartBeginStep, StartClearStep, StartCreateStep
  <1>2. CASE StartFails \/ Stop \/ Destroy
    <2>1. PICK destroying \in BOOLEAN : EnterStop(destroying)
      BY <1>2 DEF StartFails, Stop, Destroy
    <2>2. client.at \in {"idle", "create"}
      <3>1. IdleClient.at = "idle"
        BY DEF IdleClient
      <3>2. QED
        BY <1>2, <3>1 DEF StartFails, Stop, Destroy
    <2>3. QED
      BY <2>1, <2>2, EnterStopStep
  <1>3. CASE StopSignal \/ StopSignalBarrier \/ StopJoin
    BY <1>3, StopSignalStep, StopSignalBarrierStep, StopJoinStep
  <1>4. CASE \E t \in Tiles, command \in Commands : SendCommand(t, command)
    BY <1>4, SendCommandStep
  <1>5. CASE \E t \in Tiles : WorkerStep(t) \/ SpuriousWakeup(t)
    BY <1>5, WorkerSteps
  <1>6. CASE UNCHANGED vars
    BY <1>6
    DEF vars, control, RuntimeInv, Types, Phases, Gone, Leaving, TookShutdown, Running,
        Rounds, InsideSet, Inside
  <1>7. QED
    BY <1>1, <1>2, <1>3, <1>4, <1>5, <1>6 DEF Next, ClientStep, CallStep, Terminated

\* The places of the client and the workers, the flags and the barrier agree.
THEOREM RuntimeInductive == Spec => []RuntimeInv
  BY InitHolds, NextHolds, PTL DEF Spec

\* Stopping loses no command, and the running flags tell the truth
\* (att1_runtime_dequeue, att1_runtime_start, att1_runtime_stop).
THEOREM CleanExit == Spec => []WorkersLeaveCleanly
  <1>1. RuntimeInv => WorkersLeaveCleanly
    <2> SUFFICES ASSUME RuntimeInv
                 PROVE  WorkersLeaveCleanly
      OBVIOUS
    <2>1. ASSUME NEW t \in Tiles, workers[t].at = "done", queues[t] # <<>>
          PROVE  workers[t].cmd # NoCommand /\ workers[t].cmd.kind = "shutdown"
      <3>1. workers[t].cmd \in Commands /\ workers[t].cmd.kind = "shutdown"
        BY <2>1 DEF RuntimeInv, Leaving, TookShutdown, Left
      <3>2. QED
        BY <3>1, RuntimeConfigValid
    <2>2. LeavesNothingBehind
      BY <2>1 DEF LeavesNothingBehind
    <2>3. RunningIsTrue
      BY DEF RunningIsTrue, RuntimeInv, Running, Phases
    <2>4. QED
      BY <2>2, <2>3 DEF WorkersLeaveCleanly
  <1>2. QED
    BY <1>1, RuntimeInductive, PTL

\* barrier_arrived counts the workers that wait (att1_runtime_execute_barrier).
THEOREM ArrivalsCounted == Spec => []ArrivalsAreWaiters
  <1>1. RuntimeInv => ArrivalsAreWaiters
    BY DEF RuntimeInv, Rounds, ArrivalsAreWaiters, InsideSet
  <1>2. QED
    BY <1>1, RuntimeInductive, PTL

\* The step that ends a round finds every tile in it.
MeetsAll ==
    barrier'.generation # barrier.generation /\ started /\ ~stopRequested =>
        \A t \in Tiles : Inside(t) \/ workers[t].at = "meet"

LEMMA LastFindsAll ==
    ASSUME RuntimeInv, NEW t \in Tiles, MeetLast(t), started, ~stopRequested
    PROVE  \A u \in Tiles : Inside(u) \/ workers[u].at = "meet"
  <1>1. workers[t].at = "meet" /\ Joined.arrived = Joined.expected
    BY DEF MeetLast, WorkerAt
  <1>2. IsFiniteSet(InsideSet) /\ InsideSet \subseteq Tiles /\ t \notin InsideSet
    BY <1>1, Config, FS_Subset DEF InsideSet, Inside
  <1>3. Cardinality(InsideSet) + 1 = TileCount
    <2>1. CASE barrier.active
      BY <1>1, <2>1 DEF RuntimeInv, Rounds, Joined
    <2>2. CASE ~barrier.active
      BY <1>1, <2>2, FS_EmptySet DEF RuntimeInv, Rounds, Joined
    <2>3. QED
      BY <2>1, <2>2
  <1>4. Cardinality(InsideSet \cup {t}) = Cardinality(Tiles)
    BY <1>2, <1>3, Config, FS_AddElement
  <1>5. InsideSet \cup {t} = Tiles
    BY <1>2, <1>4, Config, FS_Subset
  <1>6. QED
    BY <1>1, <1>5 DEF InsideSet

LEMMA NextMeets == RuntimeInv /\ [Next]_vars => MeetsAll
  <1> SUFFICES ASSUME RuntimeInv, [Next]_vars
               PROVE  MeetsAll
    OBVIOUS
  <1>1. CASE \E t \in Tiles : WorkerStep(t) \/ SpuriousWakeup(t)
    <2>1. PICK t \in Tiles : WorkerStep(t) \/ SpuriousWakeup(t)
      BY <1>1
    <2>2. CASE MeetLast(t)
      BY <2>2, LastFindsAll DEF MeetsAll
    <2>3. CASE (\E to \in WorkerPlaces : Plain(t, to)) \/ Dequeue(t) \/ Meet(t)
      <3>1. barrier' = barrier \/ barrier' = Joined
        BY <2>3 DEF Plain, Dequeue, Meet
      <3>2. barrier'.generation = barrier.generation
        BY <3>1 DEF Joined
      <3>3. QED
        BY <3>2 DEF MeetsAll
    <2>4. QED
      BY <2>1, <2>2, <2>3, WorkerKinds
  <1>2. CASE StartBegin
    BY <1>2 DEF StartBegin, MeetsAll
  <1>3. CASE \/ StartClear \/ StartCreate \/ StartFails \/ Stop \/ Destroy
             \/ StopSignal \/ StopSignalBarrier \/ StopJoin
             \/ \E t \in Tiles, command \in Commands : SendCommand(t, command)
             \/ UNCHANGED vars
    <2>1. barrier' = barrier
      BY <1>3 DEF StartClear, StartCreate, StartFails, Stop, Destroy, EnterStop, StopSignal,
                  StopSignalBarrier, StopJoin, SendCommand, vars
    <2>2. QED
      BY <2>1 DEF MeetsAll
  <1>4. QED
    BY <1>1, <1>2, <1>3 DEF Next, ClientStep, CallStep, Terminated

\* A round ends only when every tile is at the barrier, unless a stop has been
\* requested (att1_runtime_execute_barrier), whatever the fabric's barrier says.
THEOREM RoundsMeet == Spec => BarrierMeets
  <1>1. RuntimeInv /\ [Next]_vars => [MeetsAll]_vars
    BY NextMeets
  <1>2. QED
    BY <1>1, RuntimeInductive, PTL DEF Spec, BarrierMeets, MeetsAll

(***************************************************************************)
(* Sums over the tiles.  The recursion of Total has a solution: the least  *)
(* length without one would be one more than a length with one.            *)
(***************************************************************************)
LEMMA LeastNumber ==
    ASSUME NEW S, S \subseteq Nat, S # {}
    PROVE  \E m \in S : \A k \in S : m <= k
  <1> DEFINE R == OpToRel(<, Nat)
  <1>1. IsWellFoundedOn(R, Nat)
    BY NatLessThanWellFounded
  <1>2. PICK m \in S : \A k \in S : ~ (<<k, m>> \in R)
    <2> HIDE DEF R
    <2>1. QED
      BY <1>1, WFMin
  <1>3. ASSUME NEW k \in S
        PROVE  m <= k
    <2>1. ~(k < m)
      BY <1>2 DEF OpToRel
    <2>2. QED
      BY <2>1
  <1>4. QED
    BY <1>3

\* s lists the sums of the first entries of f, up to n of them.
Sums(s, n, f) ==
    s = [k \in 0..n |-> IF k = 0 THEN 0 ELSE s[k - 1] + f[k - 1]]

LEMMA SumsExist ==
    ASSUME NEW f, NEW n \in Nat
    PROVE  \E s : Sums(s, n, f)
  <1> DEFINE Without == {k \in Nat : ~ \E s : Sums(s, k, f)}
  <1>1. ASSUME Without # {}
        PROVE  FALSE
    <2>0. Without \subseteq Nat
      OBVIOUS
    <2>1. PICK m \in Without : \A k \in Without : m <= k
      BY <1>1, <2>0, LeastNumber
    <2>2. m \in Nat /\ ~ \E s : Sums(s, m, f)
      OBVIOUS
    <2>3. m # 0
      <3>1. Sums([k \in 0..0 |-> 0], 0, f)
        BY DEF Sums
      <3>2. QED
        BY <2>2, <3>1
    <2>4. m - 1 \in Nat /\ m - 1 \notin Without
      BY <2>1, <2>2, <2>3
    <2>5. PICK s : Sums(s, m - 1, f)
      BY <2>4
    <2> DEFINE r == [k \in 0..m |-> IF k = m THEN s[m - 1] + f[m - 1] ELSE s[k]]
    <2>6. ASSUME NEW k \in 0..m
          PROVE  r[k] = IF k = 0 THEN 0 ELSE r[k - 1] + f[k - 1]
      <3>1. CASE k = m
        <4>1. k - 1 \in 0..m /\ k - 1 # m /\ k # 0
          BY <2>2, <2>3, <3>1
        <4>2. QED
          BY <3>1, <4>1
      <3>2. CASE k # m /\ k # 0
        <4>1. k \in 0..m - 1 /\ k - 1 \in 0..m /\ k - 1 # m
          BY <2>2, <3>2
        <4>2. s[k] = s[k - 1] + f[k - 1]
          BY <2>5, <3>2, <4>1 DEF Sums
        <4>3. QED
          BY <3>2, <4>1, <4>2
      <3>3. CASE k # m /\ k = 0
        <4>1. k \in 0..m - 1
          BY <2>4, <3>3
        <4>2. s[k] = 0
          BY <2>5, <3>3, <4>1 DEF Sums
        <4>3. QED
          BY <3>3, <4>2
      <3>4. QED
        BY <3>1, <3>2, <3>3
    <2>7. r = [k \in 0..m |-> IF k = 0 THEN 0 ELSE r[k - 1] + f[k - 1]]
      <3>1. r = [k \in 0..m |-> r[k]]
        OBVIOUS
      <3> HIDE DEF r
      <3>2. QED
        BY <2>6, <3>1
    <2>8. Sums(r, m, f)
      BY <2>7 DEF Sums
    <2>9. QED
      BY <2>2, <2>8
  <1>2. QED
    BY <1>1

LEMMA TotalIsLastSum ==
    ASSUME NEW f
    PROVE  \E s : Sums(s, TileCount, f) /\ Total(f) = s[TileCount]
  <1> DEFINE s == CHOOSE r : Sums(r, TileCount, f)
  <1>1. \E r : Sums(r, TileCount, f)
    BY Config, SumsExist
  <1>2. Sums(s, TileCount, f)
    BY <1>1
  <1>3. Total(f) = s[TileCount]
    BY DEF Total, Sums
  <1>4. QED
    BY <1>2, <1>3

LEMMA SumsAdd ==
    ASSUME NEW f, NEW s, Sums(s, TileCount, f)
    PROVE  /\ s[0] = 0
           /\ \A k \in 1..TileCount : s[k] = s[k - 1] + f[k - 1]
  <1>1. 0 \in 0..TileCount /\ \A k \in 1..TileCount : k \in 0..TileCount /\ k # 0
    BY Config
  <1>2. QED
    BY <1>1 DEF Sums

\* g is f with one more at t: so are the sums past t.
LEMMA TotalOfOneMore ==
    ASSUME NEW f \in [Tiles -> Nat], NEW g \in [Tiles -> Nat], NEW t \in Tiles,
           g[t] = f[t] + 1, \A u \in Tiles \ {t} : g[u] = f[u]
    PROVE  Total(g) = Total(f) + 1
  <1>1. PICK s : Sums(s, TileCount, f) /\ Total(f) = s[TileCount]
    BY TotalIsLastSum
  <1>2. PICK r : Sums(r, TileCount, g) /\ Total(g) = r[TileCount]
    BY TotalIsLastSum
  <1>3. /\ s[0] = 0 /\ \A k \in 1..TileCount : s[k] = s[k - 1] + f[k - 1]
        /\ r[0] = 0 /\ \A k \in 1..TileCount : r[k] = r[k - 1] + g[k - 1]
    BY <1>1, <1>2, SumsAdd
  <1>0. TileCount \in Nat /\ TileCount > 0 /\ t \in Nat /\ t < TileCount
    BY Config DEF Tiles
  <1> DEFINE Good(k) == s[k] \in Nat /\ r[k] = s[k] + (IF t < k THEN 1 ELSE 0)
             Wrong == {k \in 0..TileCount : ~Good(k)}
  <1>4. ASSUME Wrong # {}
        PROVE  FALSE
    <2>0. Wrong \subseteq Nat
      BY <1>0
    <2>1. PICK m \in Wrong : \A k \in Wrong : m <= k
      <3> HIDE DEF Wrong
      <3>1. QED
        BY <1>4, <2>0, LeastNumber
    <2>2. m \in 0..TileCount /\ ~Good(m)
      OBVIOUS
    <2>3. m # 0
      BY <1>0, <1>3, <2>2
    <2>4. m \in 1..TileCount /\ m - 1 \in Tiles /\ m - 1 \in 0..TileCount /\ m - 1 < m
      BY <1>0, <2>2, <2>3 DEF Tiles
    <2>5. Good(m - 1)
      BY <2>1, <2>2, <2>4
    <2>6. f[m - 1] \in Nat /\ g[m - 1] = f[m - 1] + (IF m - 1 = t THEN 1 ELSE 0)
      BY <2>4
    <2>7. /\ s[m] = s[m - 1] + f[m - 1]
          /\ r[m] = r[m - 1] + g[m - 1]
      BY <1>3, <2>4
    <2>8. (IF t < m THEN 1 ELSE 0) = (IF t < m - 1 THEN 1 ELSE 0) + (IF m - 1 = t THEN 1 ELSE 0)
      BY <1>0, <2>2, <2>4
    <2>9. Good(m)
      <3>1. s[m] \in Nat
        BY <2>5, <2>6, <2>7
      <3>2. PICK a \in Nat, b \in Nat : a = s[m - 1] /\ b = f[m - 1]
        BY <2>5, <2>6
      <3>3. r[m] = s[m] + (IF t < m THEN 1 ELSE 0)
        BY <1>0, <2>2, <2>4, <2>5, <2>6, <2>7, <2>8, <3>2
      <3>4. QED
        BY <3>1, <3>3
    <2>10. QED
      BY <2>2, <2>9
  <1>5. Good(TileCount)
    BY <1>0, <1>4
  <1>6. QED
    BY <1>0, <1>1, <1>2, <1>5

LEMMA TotalOfNone == Total([t \in Tiles |-> 0]) = 0
  <1> DEFINE f == [t \in Tiles |-> 0]
  <1>1. PICK s : Sums(s, TileCount, f) /\ Total(f) = s[TileCount]
    BY TotalIsLastSum
  <1>2. s[0] = 0 /\ \A k \in 1..TileCount : s[k] = s[k - 1] + f[k - 1]
    BY <1>1, SumsAdd
  <1>0. TileCount \in Nat
    BY Config
  <1> DEFINE Wrong == {k \in 0..TileCount : s[k] # 0}
  <1>3. ASSUME Wrong # {}
        PROVE  FALSE
    <2>0. Wrong \subseteq Nat
      BY <1>0
    <2>1. PICK m \in Wrong : \A k \in Wrong : m <= k
      <3> HIDE DEF Wrong
      <3>1. QED
        BY <1>3, <2>0, LeastNumber
    <2>2. m \in 1..TileCount /\ m - 1 \in Tiles /\ m - 1 \in 0..TileCount /\ m - 1 < m
      BY <1>0, <1>2 DEF Tiles
    <2>3. s[m - 1] = 0
      BY <2>1, <2>2
    <2>4. s[m] = s[m - 1] + f[m - 1] /\ f[m - 1] = 0
      BY <1>2, <2>2
    <2>5. s[m] # 0
      OBVIOUS
    <2>6. QED
      BY <2>3, <2>4, <2>5
  <1>4. QED
    BY <1>0, <1>1, <1>3

(***************************************************************************)
(* Operations counted by the tiles and by the fabric.                      *)
(***************************************************************************)
\* What tile t has counted, with the operation its worker is about to count.
SendsOf(t) == tiles[t].sends + (IF workers[t].at = "sent" THEN 1 ELSE 0)
RecvsOf(t) == tiles[t].recvs + (IF workers[t].at = "received" THEN 1 ELSE 0)
SendTable == [t \in Tiles |-> SendsOf(t)]
RecvTable == [t \in Tiles |-> RecvsOf(t)]

CounterInv ==
    /\ DOMAIN fabricCounters = DOMAIN F!ZeroCounters
    /\ fabricCounters.sent = Total(SendTable)
    /\ fabricCounters.received = Total(RecvTable)

\* Steps that count nothing, one operation that was sent, one that was received.
Quiet ==
    /\ DOMAIN fabricCounters' = DOMAIN fabricCounters
    /\ fabricCounters'.sent = fabricCounters.sent
    /\ fabricCounters'.received = fabricCounters.received
    /\ \A u \in Tiles : SendsOf(u)' = SendsOf(u) /\ RecvsOf(u)' = RecvsOf(u)

SendsOne(t) ==
    /\ DOMAIN fabricCounters' = DOMAIN fabricCounters
    /\ fabricCounters'.sent = fabricCounters.sent + 1
    /\ fabricCounters'.received = fabricCounters.received
    /\ SendsOf(t)' = SendsOf(t) + 1 /\ RecvsOf(t)' = RecvsOf(t)
    /\ \A u \in Tiles \ {t} : SendsOf(u)' = SendsOf(u) /\ RecvsOf(u)' = RecvsOf(u)

ReceivesOne(t) ==
    /\ DOMAIN fabricCounters' = DOMAIN fabricCounters
    /\ fabricCounters'.sent = fabricCounters.sent
    /\ fabricCounters'.received = fabricCounters.received + 1
    /\ RecvsOf(t)' = RecvsOf(t) + 1 /\ SendsOf(t)' = SendsOf(t)
    /\ \A u \in Tiles \ {t} : SendsOf(u)' = SendsOf(u) /\ RecvsOf(u)' = RecvsOf(u)

LEMMA TablesTyped ==
    ASSUME Types, Types'
    PROVE  /\ SendTable \in [Tiles -> Nat] /\ RecvTable \in [Tiles -> Nat]
           /\ SendTable' \in [Tiles -> Nat] /\ RecvTable' \in [Tiles -> Nat]
  <1>1. \A t \in Tiles : SendsOf(t) \in Nat /\ RecvsOf(t) \in Nat
    BY DEF Types, TileRecords, SendsOf, RecvsOf
  <1>2. \A t \in Tiles : SendsOf(t)' \in Nat /\ RecvsOf(t)' \in Nat
    BY DEF Types, TileRecords, SendsOf, RecvsOf
  <1>3. QED
    BY <1>1, <1>2 DEF SendTable, RecvTable

LEMMA CountingSteps ==
    ASSUME Types, Types', CounterInv,
           \/ Quiet
           \/ \E t \in Tiles : SendsOne(t) \/ ReceivesOne(t)
    PROVE  CounterInv'
  <1>1. /\ SendTable \in [Tiles -> Nat] /\ RecvTable \in [Tiles -> Nat]
        /\ SendTable' \in [Tiles -> Nat] /\ RecvTable' \in [Tiles -> Nat]
    BY TablesTyped
  <1>2. CASE Quiet
    <2>1. SendTable' = SendTable /\ RecvTable' = RecvTable
      BY <1>2 DEF Quiet, SendTable, RecvTable
    <2>2. QED
      BY <1>2, <2>1 DEF Quiet, CounterInv
  <1>3. ASSUME NEW t \in Tiles, SendsOne(t)
        PROVE  CounterInv'
    <2>1. RecvTable' = RecvTable
      BY <1>3 DEF SendsOne, RecvTable
    <2>2. SendTable'[t] = SendTable[t] + 1 /\ \A u \in Tiles \ {t} : SendTable'[u] = SendTable[u]
      BY <1>3 DEF SendsOne, SendTable
    <2>3. Total(SendTable') = Total(SendTable) + 1
      BY <1>1, <2>2, TotalOfOneMore
    <2>4. QED
      BY <1>3, <2>1, <2>3 DEF SendsOne, CounterInv
  <1>4. ASSUME NEW t \in Tiles, ReceivesOne(t)
        PROVE  CounterInv'
    <2>1. SendTable' = SendTable
      BY <1>4 DEF ReceivesOne, SendTable
    <2>2. RecvTable'[t] = RecvTable[t] + 1 /\ \A u \in Tiles \ {t} : RecvTable'[u] = RecvTable[u]
      BY <1>4 DEF ReceivesOne, RecvTable
    <2>3. Total(RecvTable') = Total(RecvTable) + 1
      BY <1>1, <2>2, TotalOfOneMore
    <2>4. QED
      BY <1>4, <2>1, <2>3 DEF ReceivesOne, CounterInv
  <1>5. QED
    BY <1>2, <1>3, <1>4

\* What a call of the fabric counts.
CountsNothing ==
    /\ DOMAIN fabricCounters' = DOMAIN fabricCounters
    /\ fabricCounters'.sent = fabricCounters.sent
    /\ fabricCounters'.received = fabricCounters.received

LEMMA FabricFields ==
    ASSUME CounterInv
    PROVE  {"sent", "received"} \subseteq DOMAIN fabricCounters
  BY DEF CounterInv, F!ZeroCounters

LEMMA FabricSends ==
    ASSUME CounterInv, NEW t, NEW peer, NEW size, F!Send(t, peer, size, Body)
    PROVE  /\ DOMAIN fabricCounters' = DOMAIN fabricCounters
           /\ fabricCounters'.sent = fabricCounters.sent + 1
           /\ fabricCounters'.received = fabricCounters.received
  BY FabricFields DEF F!Send

LEMMA FabricReceives ==
    ASSUME CounterInv, NEW t, NEW room, F!Receive(t, room)
    PROVE  /\ DOMAIN fabricCounters' = DOMAIN fabricCounters
           /\ fabricCounters'.sent = fabricCounters.sent
           /\ fabricCounters'.received = fabricCounters.received + 1
  BY FabricFields DEF F!Receive

LEMMA FabricCountsElse ==
    ASSUME CounterInv, NEW t, NEW peer, NEW size, NEW set, NEW mayFail,
           \/ F!SendInvalid(t, peer, size) \/ F!SendFull(t, peer, size)
           \/ F!ReceiveEmpty(t, 1) \/ F!ReceiveInvalid(t, size)
           \/ F!BarrierArrive(t, set) \/ F!BarrierRefused(t, set)
           \/ F!BarrierOtherSet(t, set, mayFail)
    PROVE  CountsNothing
  <1>1. ASSUME NEW field \in {"full", "invalid", "empty", "arrivals"}, NEW n,
               fabricCounters' = [fabricCounters EXCEPT ![field] = n]
        PROVE  CountsNothing
    BY <1>1, FabricFields DEF CountsNothing
  <1>2. CASE F!SendInvalid(t, peer, size) \/ F!SendFull(t, peer, size)
             \/ F!ReceiveInvalid(t, size) \/ F!BarrierOtherSet(t, set, mayFail)
    BY <1>1, <1>2 DEF F!SendInvalid, F!SendFull, F!ReceiveInvalid, F!BarrierOtherSet, F!CountOne
  <1>3. CASE F!ReceiveEmpty(t, 1)
    BY <1>1, <1>3 DEF F!ReceiveEmpty
  <1>4. CASE F!BarrierRefused(t, set)
    BY <1>1, <1>4 DEF F!BarrierRefused
  <1>5. CASE F!BarrierArrive(t, set)
    <2>1. PICK n, m : fabricCounters' = [fabricCounters EXCEPT !.arrivals = n, !.completions = m]
      BY <1>5 DEF F!BarrierArrive
    <2>2. QED
      BY <2>1, FabricFields DEF CountsNothing
  <1>6. QED
    BY <1>2, <1>3, <1>4, <1>5

\* A step that moves no worker to or from the counting of an operation.
Still ==
    \A u \in Tiles :
        /\ tiles'[u].sends = tiles[u].sends /\ tiles'[u].recvs = tiles[u].recvs
        /\ workers'[u].at = "sent" <=> workers[u].at = "sent"
        /\ workers'[u].at = "received" <=> workers[u].at = "received"

LEMMA StillIsQuiet ==
    ASSUME CountsNothing, Still
    PROVE  Quiet
  BY DEF CountsNothing, Still, Quiet, SendsOf, RecvsOf

LEMMA MoveIsStill ==
    ASSUME Types, NEW t \in Tiles, NEW to \in WorkerPlaces,
           workers' = [workers EXCEPT ![t].at = to],
           workers[t].at \notin {"sent", "received"}, to \notin {"sent", "received"},
           \A u \in Tiles : tiles'[u].sends = tiles[u].sends /\ tiles'[u].recvs = tiles[u].recvs
    PROVE  Still
  BY Moved DEF Still

\* Steps of a worker that do not use the fabric.
LEMMA QuietWorker ==
    ASSUME RuntimeInv, NEW t \in Tiles,
           \/ Begin(t) \/ DequeueWait(t) \/ DequeueStop(t) \/ Dequeue(t)
           \/ CountCommand(t) \/ CountAs(t, "error", "errors")
           \/ BarrierOutOfMemory(t) \/ MeetLast(t) \/ Meet(t) \/ BarrierTest(t)
           \/ Leave(t) \/ SpuriousWakeup(t)
    PROVE  Quiet
  <1>1. /\ Types /\ workers \in [Tiles -> WorkerRecords] /\ tiles \in [Tiles -> TileRecords]
        /\ {"dequeue", "queueWait", "leave", "done", "error"} \subseteq WorkerPlaces
    BY DEF RuntimeInv, Types, WorkerPlaces
  <1>2. CountsNothing
    <2>1. fabricCounters' = fabricCounters
      BY DEF Begin, DequeueWait, DequeueStop, Dequeue, CountCommand, CountAs,
             BarrierOutOfMemory, MeetLast, Meet, BarrierTest, Leave, SpuriousWakeup, fabric
    <2>2. QED
      BY <2>1 DEF CountsNothing
  <1>3. CASE Begin(t) \/ Leave(t)
    <2>1. PICK to \in {"dequeue", "done"}, flag \in BOOLEAN :
              /\ workers' = [workers EXCEPT ![t].at = to]
              /\ tiles' = [tiles EXCEPT ![t].running = flag]
              /\ workers[t].at \in {"begin", "leave"}
      BY <1>3 DEF Begin, Leave, WorkerAt, Goto
    <2>2. \A u \in Tiles : tiles'[u].sends = tiles[u].sends /\ tiles'[u].recvs = tiles[u].recvs
      BY <1>1, <2>1 DEF TileRecords
    <2>3. Still
      BY <1>1, <2>1, <2>2, MoveIsStill
    <2>4. QED
      BY <1>2, <2>3, StillIsQuiet
  <1>4. CASE DequeueWait(t) \/ DequeueStop(t) \/ BarrierOutOfMemory(t)
    <2>1. PICK to \in {"queueWait", "leave", "error"} :
              /\ workers' = [workers EXCEPT ![t].at = to] /\ tiles' = tiles
              /\ workers[t].at \in {"dequeue", "arrive"}
      BY <1>4 DEF DequeueWait, DequeueStop, BarrierOutOfMemory, WorkerAt, Goto
    <2>2. Still
      BY <1>1, <2>1, MoveIsStill
    <2>3. QED
      BY <1>2, <2>2, StillIsQuiet
  <1>5. CASE Dequeue(t)
    <2>1. /\ workers' = [workers EXCEPT ![t].at = "count", ![t].cmd = Head(queues[t])]
          /\ tiles' = tiles /\ workers[t].at = "dequeue"
      BY <1>5 DEF Dequeue, WorkerAt
    <2>2. Still
      BY <1>1, <2>1 DEF Still, WorkerRecords
    <2>3. QED
      BY <1>2, <2>2, StillIsQuiet
  <1>6. CASE CountCommand(t)
    <2> DEFINE kind == workers[t].cmd.kind
               to == NextPlace(kind)
               n == tiles[t].processed + 1
               m == tiles[t].errors + (IF kind = "unknown" THEN 1 ELSE 0)
    <2>1. /\ workers[t].at = "count" /\ workers' = [workers EXCEPT ![t].at = to]
          /\ tiles' = [tiles EXCEPT ![t].processed = n, ![t].errors = m]
      BY <1>6 DEF CountCommand, WorkerAt, Goto
    <2>2. kind \in CommandKinds
      BY <2>1, Config DEF RuntimeInv, Leaving
    <2>3. to \in WorkerPlaces \ {"sent", "received"}
      BY <2>2 DEF CommandKinds, NextPlace, WorkerPlaces
    <2> HIDE DEF n, m, to, kind
    <2>4. \A u \in Tiles : tiles'[u].sends = tiles[u].sends /\ tiles'[u].recvs = tiles[u].recvs
      BY <1>1, <2>1 DEF TileRecords
    <2>5. Still
      BY <1>1, <2>1, <2>3, <2>4, MoveIsStill
    <2>6. QED
      BY <1>2, <2>5, StillIsQuiet
  <1>7. CASE CountAs(t, "error", "errors")
    <2> DEFINE n == tiles[t].errors + 1
    <2>1. /\ workers[t].at = "error" /\ workers' = [workers EXCEPT ![t].at = "dequeue"]
          /\ tiles' = [tiles EXCEPT ![t].errors = n]
      BY <1>7 DEF CountAs, WorkerAt, Goto
    <2> HIDE DEF n
    <2>2. \A u \in Tiles : tiles'[u].sends = tiles[u].sends /\ tiles'[u].recvs = tiles[u].recvs
      BY <1>1, <2>1 DEF TileRecords
    <2>3. Still
      BY <1>1, <2>1, <2>2, MoveIsStill
    <2>4. QED
      BY <1>2, <2>3, StillIsQuiet
  <1>8. CASE MeetLast(t)
    <2> DEFINE woken == WakeAll(workers, "barrierWait")
    <2>1. /\ workers[t].at = "meet" /\ tiles' = tiles
          /\ workers' = [woken EXCEPT ![t].at = "dequeue"]
      BY <1>8 DEF MeetLast, WorkerAt
    <2>2. /\ woken \in [Tiles -> WorkerRecords]
          /\ \A u \in Tiles : \/ woken[u].at = workers[u].at
                              \/ workers[u].at \in Waits /\ woken[u].at \in Waits
      BY <1>1 DEF WakeAll, Woken, WorkerRecords, WorkerPlaces, Waits
    <2> HIDE DEF woken
    <2>3. workers'[t].at = "dequeue" /\ \A u \in Tiles \ {t} : workers'[u] = woken[u]
      BY <2>1, <2>2 DEF WorkerRecords
    <2>4. Still
      BY <2>1, <2>2, <2>3 DEF Still, Waits
    <2>5. QED
      BY <1>2, <2>4, StillIsQuiet
  <1>9. CASE Meet(t)
    <2> DEFINE to == AfterTest(Joined, barrier.generation)
    <2>1. /\ workers[t].at = "meet" /\ tiles' = tiles
          /\ workers' = [workers EXCEPT ![t].at = to, ![t].generation = barrier.generation]
      BY <1>9 DEF Meet, WorkerAt
    <2>2. to \in {"barrierWait", "error", "dequeue"}
      BY DEF AfterTest
    <2> HIDE DEF to
    <2>3. workers'[t].at = to /\ \A u \in Tiles \ {t} : workers'[u] = workers[u]
      BY <1>1, <2>1 DEF WorkerRecords
    <2>4. Still
      BY <2>1, <2>2, <2>3 DEF Still
    <2>5. QED
      BY <1>2, <2>4, StillIsQuiet
  <1>10. CASE BarrierTest(t) \/ SpuriousWakeup(t)
    <2>1. PICK to \in {"barrierWait", "barrierTest", "error", "dequeue"} :
              /\ workers' = [workers EXCEPT ![t].at = to] /\ tiles' = tiles
              /\ workers[t].at \in {"queueWait", "barrierWait", "barrierTest"}
      <3>1. CASE BarrierTest(t)
        BY <3>1 DEF BarrierTest, AfterTest, WorkerAt, Goto
      <3>2. CASE SpuriousWakeup(t)
        <4>1. /\ workers[t].at \in {"queueWait", "barrierWait"} /\ tiles' = tiles
              /\ workers' = [workers EXCEPT ![t] = Woken(@)]
          BY <3>2 DEF SpuriousWakeup, WorkerAt
        <4>2. workers' = [workers EXCEPT ![t].at = IF workers[t].at = "queueWait"
                                                   THEN "dequeue" ELSE "barrierTest"]
          BY <4>1 DEF Woken
        <4>3. QED
          BY <4>1, <4>2
      <3>3. QED
        BY <1>10, <3>1, <3>2
    <2>2. to \in WorkerPlaces
      BY DEF WorkerPlaces
    <2>3. Still
      BY <1>1, <2>1, <2>2, MoveIsStill
    <2>4. QED
      BY <1>2, <2>3, StillIsQuiet
  <1>11. QED
    BY <1>3, <1>4, <1>5, <1>6, <1>7, <1>8, <1>9, <1>10

\* A worker counts the operation it was about to count.
LEMMA CountingIsQuiet ==
    ASSUME RuntimeInv, NEW t \in Tiles,
           CountAs(t, "sent", "sends") \/ CountAs(t, "received", "recvs")
    PROVE  Quiet
  <1>1. Types /\ workers \in [Tiles -> WorkerRecords] /\ tiles \in [Tiles -> TileRecords]
    BY DEF RuntimeInv, Types
  <1>2. PICK a \in Nat, b \in Nat : a = tiles[t].sends /\ b = tiles[t].recvs
    BY <1>1 DEF TileRecords
  <1>3. fabricCounters' = fabricCounters /\ workers' = [workers EXCEPT ![t].at = "dequeue"]
    BY DEF CountAs, fabric, Goto
  <1>4. workers'[t].at = "dequeue" /\ \A u \in Tiles \ {t} : workers'[u] = workers[u]
    BY <1>1, <1>3 DEF WorkerRecords
  <1>5. CASE CountAs(t, "sent", "sends")
    <2>1. workers[t].at = "sent" /\ tiles' = [tiles EXCEPT ![t].sends = a + 1]
      BY <1>2, <1>5 DEF CountAs, WorkerAt
    <2>2. /\ tiles'[t].sends = a + 1 /\ tiles'[t].recvs = b
          /\ \A u \in Tiles \ {t} : tiles'[u] = tiles[u]
      BY <1>1, <1>2, <2>1 DEF TileRecords
    <2>3. \A u \in Tiles \ {t} : SendsOf(u)' = SendsOf(u) /\ RecvsOf(u)' = RecvsOf(u)
      BY <1>4, <2>2 DEF SendsOf, RecvsOf
    <2>4. SendsOf(t)' = SendsOf(t) /\ RecvsOf(t)' = RecvsOf(t)
      BY <1>2, <1>4, <2>1, <2>2 DEF SendsOf, RecvsOf
    <2>5. QED
      BY <1>3, <2>3, <2>4 DEF Quiet
  <1>6. CASE CountAs(t, "received", "recvs")
    <2>1. workers[t].at = "received" /\ tiles' = [tiles EXCEPT ![t].recvs = b + 1]
      BY <1>2, <1>6 DEF CountAs, WorkerAt
    <2>2. /\ tiles'[t].recvs = b + 1 /\ tiles'[t].sends = a
          /\ \A u \in Tiles \ {t} : tiles'[u] = tiles[u]
      BY <1>1, <1>2, <2>1 DEF TileRecords
    <2>3. \A u \in Tiles \ {t} : SendsOf(u)' = SendsOf(u) /\ RecvsOf(u)' = RecvsOf(u)
      BY <1>4, <2>2 DEF SendsOf, RecvsOf
    <2>4. SendsOf(t)' = SendsOf(t) /\ RecvsOf(t)' = RecvsOf(t)
      BY <1>2, <1>4, <2>1, <2>2 DEF SendsOf, RecvsOf
    <2>5. QED
      BY <1>3, <2>3, <2>4 DEF Quiet
  <1>7. QED
    BY <1>5, <1>6

\* A worker that uses the fabric: what the call counted is what it will count.
LEMMA FabricUseCounts ==
    ASSUME RuntimeInv, CounterInv, NEW t \in Tiles,
           SendActivation(t) \/ RecvActivation(t) \/ FabricArrive(t)
    PROVE  Quiet \/ SendsOne(t) \/ ReceivesOne(t)
  <1>1. /\ Types /\ workers \in [Tiles -> WorkerRecords] /\ tiles \in [Tiles -> TileRecords]
        /\ {"sent", "received", "error", "meet"} \subseteq WorkerPlaces
    BY DEF RuntimeInv, Types, WorkerPlaces
  <1>2. workers[t].at \in {"send", "recv", "arrive"} /\ tiles' = tiles
    BY DEF SendActivation, RecvActivation, FabricArrive, WorkerAt
  <1>3. PICK a \in Nat, b \in Nat : a = tiles[t].sends /\ b = tiles[t].recvs
    BY <1>1 DEF TileRecords
  <1>4. CASE \E to \in {"error", "meet"} :
                CountsNothing /\ workers' = [workers EXCEPT ![t].at = to]
    <2>1. Still
      BY <1>1, <1>2, <1>4, MoveIsStill
    <2>2. QED
      BY <1>4, <2>1, StillIsQuiet
  <1>5. ASSUME NEW to \in WorkerPlaces, workers' = [workers EXCEPT ![t].at = to]
        PROVE  /\ workers'[t].at = to
               /\ \A u \in Tiles \ {t} : SendsOf(u)' = SendsOf(u) /\ RecvsOf(u)' = RecvsOf(u)
    BY <1>1, <1>2, <1>5, Moved DEF SendsOf, RecvsOf
  <1>6. CASE \E peer, size : /\ F!Send(t, peer, size, Body)
                             /\ workers' = [workers EXCEPT ![t].at = "sent"]
    <2>1. /\ workers'[t].at = "sent"
          /\ \A u \in Tiles \ {t} : SendsOf(u)' = SendsOf(u) /\ RecvsOf(u)' = RecvsOf(u)
      BY <1>1, <1>5, <1>6
    <2>2. SendsOf(t)' = SendsOf(t) + 1 /\ RecvsOf(t)' = RecvsOf(t)
      BY <1>2, <1>3, <2>1 DEF SendsOf, RecvsOf
    <2>3. SendsOne(t)
      BY <1>6, <2>1, <2>2, FabricSends DEF SendsOne
    <2>4. QED
      BY <2>3
  <1>7. CASE \E room : /\ F!Receive(t, room)
                       /\ workers' = [workers EXCEPT ![t].at = "received"]
    <2>1. /\ workers'[t].at = "received"
          /\ \A u \in Tiles \ {t} : SendsOf(u)' = SendsOf(u) /\ RecvsOf(u)' = RecvsOf(u)
      BY <1>1, <1>5, <1>7
    <2>2. SendsOf(t)' = SendsOf(t) /\ RecvsOf(t)' = RecvsOf(t) + 1
      BY <1>2, <1>3, <2>1 DEF SendsOf, RecvsOf
    <2>3. ReceivesOne(t)
      BY <1>7, <2>1, <2>2, FabricReceives DEF ReceivesOne
    <2>4. QED
      BY <2>3
  <1>8. CASE SendActivation(t)
    <2> DEFINE c == workers[t].cmd
    <2>1. \/ F!Send(t, c.peer, c.size, Body) /\ Goto(t, "sent")
          \/ /\ F!SendInvalid(t, c.peer, c.size) \/ F!SendFull(t, c.peer, c.size)
             /\ Goto(t, "error")
          \/ Goto(t, "error") /\ UNCHANGED fabric
      BY <1>8, Zenon DEF SendActivation
    <2>2. CASE F!Send(t, c.peer, c.size, Body) /\ Goto(t, "sent")
      BY <1>6, <2>2 DEF Goto
    <2>3. CASE /\ F!SendInvalid(t, c.peer, c.size) \/ F!SendFull(t, c.peer, c.size)
               /\ Goto(t, "error")
      <3>1. CountsNothing
        BY <2>3, FabricCountsElse
      <3>2. QED
        BY <1>4, <2>3, <3>1 DEF Goto
    <2>4. CASE Goto(t, "error") /\ UNCHANGED fabric
      <3>1. CountsNothing
        BY <2>4 DEF fabric, CountsNothing
      <3>2. QED
        BY <1>4, <2>4, <3>1 DEF Goto
    <2>5. QED
      BY <2>1, <2>2, <2>3, <2>4
  <1>9. CASE RecvActivation(t)
    <2>1. \/ F!Receive(t, CommandMaxPayload) /\ Goto(t, "received")
          \/ /\ F!ReceiveEmpty(t, 1) \/ F!ReceiveInvalid(t, CommandMaxPayload)
             /\ Goto(t, "error")
      BY <1>9, Zenon DEF RecvActivation
    <2>2. CASE F!Receive(t, CommandMaxPayload) /\ Goto(t, "received")
      BY <1>7, <2>2 DEF Goto
    <2>3. CASE /\ F!ReceiveEmpty(t, 1) \/ F!ReceiveInvalid(t, CommandMaxPayload)
               /\ Goto(t, "error")
      <3>1. CountsNothing
        BY <2>3, FabricCountsElse
      <3>2. QED
        BY <1>4, <2>3, <3>1 DEF Goto
    <2>4. QED
      BY <2>1, <2>2, <2>3
  <1>10. CASE FabricArrive(t)
    <2>1. \/ F!BarrierArrive(t, F!AllTiles) \/ F!BarrierRefused(t, F!AllTiles)
          \/ F!BarrierOtherSet(t, F!AllTiles, MallocMayFail)
      BY <1>10, Zenon DEF FabricArrive
    <2>2. Goto(t, "meet")
      BY <1>10, Zenon DEF FabricArrive
    <2>3. CountsNothing
      BY <2>1, FabricCountsElse
    <2>4. QED
      BY <1>4, <2>2, <2>3 DEF Goto
  <1>11. QED
    BY <1>8, <1>9, <1>10

\* The client wakes workers and creates them where there are none; it counts nothing.
LEMMA QuietClient ==
    ASSUME RuntimeInv, ClientStep
    PROVE  Quiet
  <1>1. /\ Types /\ workers \in [Tiles -> WorkerRecords] /\ tiles \in [Tiles -> TileRecords]
        /\ client.tile \in Tiles
    BY NextTile DEF RuntimeInv, Types
  <1>2. fabricCounters' = fabricCounters
    BY DEF ClientStep, CallStep, StartBegin, StartClear, StartCreate, StartFails, Stop, Destroy,
           EnterStop, StopSignal, StopSignalBarrier, StopJoin, SendCommand, fabric
  <1>3. CountsNothing
    BY <1>2 DEF CountsNothing
  <1>4. Still
    <2>1. CASE StartBegin \/ StartFails \/ Stop \/ Destroy
      <3>1. tiles' = tiles /\ workers' = workers
        BY <2>1 DEF StartBegin, StartFails, Stop, Destroy, EnterStop
      <3>2. QED
        BY <3>1 DEF Still
    <2>2. CASE StartClear \/ StopJoin
      <3>1. PICK flag \in BOOLEAN : /\ workers' = workers
                                    /\ tiles' = [tiles EXCEPT ![client.tile].running = flag]
        BY <2>2 DEF StartClear, StopJoin
      <3>2. \A u \in Tiles : tiles'[u].sends = tiles[u].sends /\ tiles'[u].recvs = tiles[u].recvs
        BY <1>1, <3>1 DEF TileRecords
      <3>3. QED
        BY <3>1, <3>2 DEF Still
    <2>3. CASE StartCreate
      <3> DEFINE fresh == [at |-> "begin", cmd |-> NoCommand, generation |-> 0]
      <3>1. /\ client.at = "create" /\ tiles' = tiles
            /\ workers' = [workers EXCEPT ![client.tile] = fresh]
        BY <2>3 DEF StartCreate
      <3>2. fresh.at = "begin"
        OBVIOUS
      <3> HIDE DEF fresh
      <3>3. client.tile \in Nat /\ Gone(client.tile)
        BY <1>1, <3>1, NextTile DEF RuntimeInv, Phases
      <3>4. workers'[client.tile] = fresh /\ \A u \in Tiles \ {client.tile} : workers'[u] = workers[u]
        BY <1>1, <3>1
      <3>5. QED
        BY <3>1, <3>2, <3>3, <3>4 DEF Still, Gone
    <2>4. CASE StopSignal \/ StopSignalBarrier
               \/ \E t \in Tiles, command \in Commands : SendCommand(t, command)
      <3>1. /\ tiles' = tiles
            /\ \A u \in Tiles :
                  \/ workers'[u] = workers[u]
                  \/ /\ workers[u].at \in {"queueWait", "barrierWait"}
                     /\ workers'[u] = Woken(workers[u])
        BY <1>1, <2>4 DEF StopSignal, StopSignalBarrier, SendCommand, WakeAll
      <3>2. \A u \in Tiles : workers[u] \in WorkerRecords
        BY <1>1
      <3>3. \A u \in Tiles :
               \/ workers'[u] = workers[u]
               \/ /\ workers[u].at \in {"queueWait", "barrierWait"}
                  /\ workers'[u].at \in {"dequeue", "barrierTest"}
        BY <3>1, <3>2 DEF Woken, WorkerRecords
      <3>4. QED
        BY <3>1, <3>3 DEF Still
    <2>5. QED
      BY <2>1, <2>2, <2>3, <2>4 DEF ClientStep, CallStep
  <1>5. QED
    BY <1>3, <1>4, StillIsQuiet

LEMMA InitCounts == Init => CounterInv
  <1> SUFFICES ASSUME Init
               PROVE  CounterInv
    OBVIOUS
  <1>1. fabricCounters = F!ZeroCounters
    BY DEF Init, F!FabricInit
  <1>2. \A t \in Tiles : SendsOf(t) = 0 /\ RecvsOf(t) = 0
    BY DEF Init, ZeroTile, SendsOf, RecvsOf
  <1>3. Total(SendTable) = 0 /\ Total(RecvTable) = 0
    <2>1. SendTable = [t \in Tiles |-> 0] /\ RecvTable = [t \in Tiles |-> 0]
      BY <1>2 DEF SendTable, RecvTable
    <2>2. QED
      BY <2>1, TotalOfNone
  <1>4. F!ZeroCounters.sent = 0 /\ F!ZeroCounters.received = 0
    BY DEF F!ZeroCounters
  <1>5. QED
    BY <1>1, <1>3, <1>4 DEF CounterInv

LEMMA NextCounts == RuntimeInv /\ CounterInv /\ [Next]_vars => CounterInv'
  <1> SUFFICES ASSUME RuntimeInv, CounterInv, [Next]_vars
               PROVE  CounterInv'
    OBVIOUS
  <1>1. Types /\ Types'
    BY NextHolds DEF RuntimeInv
  <1>2. CASE ClientStep
    BY <1>1, <1>2, QuietClient, CountingSteps
  <1>3. ASSUME NEW t \in Tiles, WorkerStep(t) \/ SpuriousWakeup(t)
        PROVE  Quiet \/ SendsOne(t) \/ ReceivesOne(t)
    BY <1>3, QuietWorker, CountingIsQuiet, FabricUseCounts DEF WorkerStep
  <1>4. CASE \E t \in Tiles : WorkerStep(t) \/ SpuriousWakeup(t)
    BY <1>1, <1>3, <1>4, CountingSteps
  <1>5. CASE UNCHANGED vars
    <2>1. UNCHANGED <<tiles, workers, fabricCounters>>
      BY <1>5 DEF vars, fabric
    <2>2. Quiet
      BY <2>1 DEF Quiet, SendsOf, RecvsOf
    <2>3. QED
      BY <1>1, <2>2, CountingSteps
  <1>6. QED
    BY <1>2, <1>4, <1>5 DEF Next, Terminated

\* What the tiles have counted, with the operations their workers are about to
\* count, is what the fabric has counted: fabric_sends and fabric_receives against
\* packets_sent and packets_received, whatever ran in between
\* (att1_runtime_count_fabric_send, att1_runtime_count_fabric_recv).
THEOREM TilesCountAsFabric == Spec => []OperationsCounted
  <1>1. CounterInv => OperationsCounted
    BY DEF CounterInv, OperationsCounted, SendTable, RecvTable, SendsOf, RecvsOf
  <1>2. Spec => []CounterInv
    BY InitCounts, NextCounts, RuntimeInductive, PTL DEF Spec
  <1>3. QED
    BY <1>1, <1>2, PTL
=============================================================================
