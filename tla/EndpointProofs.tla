--------------------------- MODULE EndpointProofs ---------------------------
(***************************************************************************)
(* The endpoint's calls take effect once, its commands run with the weight *)
(* of their own client, a client's own answer brings its result, and the   *)
(* buffers of a waiting command live: for every number of clients and of   *)
(* calls, and whoever dies when.                                           *)
(***************************************************************************)
EXTENDS Endpoint, CmdQueueProofs, FiniteSetTheorems, WellFoundedInduction

(***************************************************************************)
(* The queue, by the identifiers in it: what waits in the command ring are *)
(* the last ones given out, and the completions are older and in order.    *)
(***************************************************************************)
DoneUpTo == nextId - 1 - CmdUsed

WaitingId(k) == PendingCommands[k].id
AnswerId(k) == PendingCompletions[k].id

QueueOrder ==
    /\ DoneUpTo \in Nat
    /\ \A k \in 1..CmdUsed : WaitingId(k) = DoneUpTo + k
    /\ \A k \in 1..CompUsed : AnswerId(k) \in 1..DoneUpTo
    /\ \A j, k \in 1..CompUsed : j < k => AnswerId(j) < AnswerId(k)

LEMMA QueueNumbers ==
    ASSUME CmdqInv
    PROVE  /\ RingsOK /\ nextId \in Nat \ {0} /\ CmdUsed \in Nat /\ CompUsed \in Nat
           /\ CmdUsed < CmdDepth /\ CompUsed < CompDepth
           /\ CmdDepth \in Nat \ {0} /\ CompDepth \in Nat \ {0}
           /\ DoneUpTo \in Int
  BY CmdqInvParts, PendingTypes, DepthTypes DEF ControlOK, DoneUpTo

LEMMA InitQueueOrder == CmdqInit => QueueOrder
  <1>1. 0 - 0 = 0 /\ 0 % CmdDepth = 0 /\ 0 % CompDepth = 0
    BY ModSmall, DepthTypes
  <1>2. CmdqInit => CmdUsed = 0 /\ CompUsed = 0 /\ nextId = 1
    BY <1>1 DEF CmdqInit, CmdUsed, CompUsed
  <1>3. QED
    BY <1>2 DEF QueueOrder, DoneUpTo

\* The queue of a call that leaves both rings alone.
LEMMA QuietOrder ==
    ASSUME UNCHANGED <<cmdVars, compVars>>, QueueOrder
    PROVE  QueueOrder' /\ CmdUsed' = CmdUsed /\ CompUsed' = CompUsed /\ nextId' = nextId
           /\ PendingCommands' = PendingCommands /\ PendingCompletions' = PendingCompletions
  <1>1. /\ CmdUsed' = CmdUsed /\ PendingCommands' = PendingCommands
        /\ CompUsed' = CompUsed /\ PendingCompletions' = PendingCompletions
    BY PendingUnchanged DEF cmdVars, compVars
  <1>2. nextId' = nextId
    BY DEF cmdVars
  <1>3. QED
    BY <1>1, <1>2 DEF QueueOrder, DoneUpTo, WaitingId, AnswerId

LEMMA SubmitOrder ==
    ASSUME CmdqInv, QueueOrder, Submit(0, "exec", FALSE)
    PROVE  /\ QueueOrder' /\ QueueStep
           /\ CmdUsed' = CmdUsed + 1 /\ CompUsed' = CompUsed
           /\ nextId' = nextId + 1 /\ DoneUpTo' = DoneUpTo
           /\ \A k \in 1..CompUsed : AnswerId(k)' = AnswerId(k)
  <1> DEFINE e == [id |-> nextId, tile |-> 0, kind |-> "exec", fenced |-> FALSE]
             n == CmdUsed
  <1>0. RingsOK /\ nextId \in Nat \ {0} /\ n \in Nat
    BY QueueNumbers
  <1>1. /\ 0 \in Tiles /\ n + 1 < CmdDepth
        /\ cmdRing' = [cmdRing EXCEPT ![cmdTail % CmdDepth] = e]
        /\ cmdTail' = Advanced(cmdTail) /\ nextId' = nextId + 1
        /\ cmdHead' = cmdHead /\ UNCHANGED compVars
    BY DEF Submit
  <1>2. e \in Commands /\ e.id = nextId
    BY <1>0, <1>1 DEF Commands, CommandKinds
  <1>3. QueueStep
    BY EndpointConfigValid DEF QueueStep
  <1> HIDE DEF e
  <1>4. /\ CmdUsed' = n + 1
        /\ \A k \in 1..n : PendingCommands'[k] = PendingCommands[k]
        /\ PendingCommands'[n + 1] = e
    BY <1>0, <1>1, <1>2, CommandPushed
  <1>5. CompUsed' = CompUsed /\ PendingCompletions' = PendingCompletions
    BY <1>1, PendingUnchanged DEF compVars
  <1>6. DoneUpTo' = DoneUpTo
    BY <1>0, <1>1, <1>4 DEF DoneUpTo
  <1>7. ASSUME NEW k \in 1..n + 1
        PROVE  WaitingId(k)' = DoneUpTo + k
    <2>1. CASE k \in 1..n
      BY <1>4, <2>1 DEF QueueOrder, WaitingId
    <2>2. CASE k = n + 1
      BY <1>0, <1>2, <1>4, <2>2 DEF WaitingId, DoneUpTo
    <2>3. QED
      BY <1>0, <2>1, <2>2
  <1>8. QED
    BY <1>1, <1>3, <1>4, <1>5, <1>6, <1>7 DEF QueueOrder, AnswerId

\* The command executed is the next one; its completion is the youngest, unless the
\* ring is full.
LEMMA DispatchOrder ==
    ASSUME CmdqInv, QueueOrder, DispatchOne
    PROVE  /\ QueueOrder' /\ QueueStep
           /\ CmdUsed # 0 /\ CmdUsed' = CmdUsed - 1 /\ nextId' = nextId
           /\ DoneUpTo' = DoneUpTo + 1 /\ NextCommand.id = DoneUpTo + 1
           /\ IF CompUsed + 1 < CompDepth
              THEN /\ CompUsed' = CompUsed + 1 /\ compTail' # compTail
                   /\ \A k \in 1..CompUsed : AnswerId(k)' = AnswerId(k)
                   /\ PendingCompletions'[CompUsed + 1].id = DoneUpTo + 1
              ELSE /\ CompUsed' = CompUsed /\ compTail' = compTail
                   /\ \A k \in 1..CompUsed : AnswerId(k)' = AnswerId(k)
  <1> DEFINE c == NextCommand
             n == CmdUsed
             m == CompUsed
             d == DoneUpTo
  <1>0. /\ RingsOK /\ nextId \in Nat \ {0} /\ n \in Nat /\ m \in Nat /\ d \in Nat
        /\ CompDepth \in Nat \ {0}
    BY QueueNumbers DEF QueueOrder
  <1>1. /\ n # 0 /\ cmdHead' = Advanced(cmdHead)
        /\ UNCHANGED <<cmdRing, cmdTail, nextId, hooked, lastRead>>
    BY DEF DispatchOne
  <1>2. c \in Commands /\ c = PendingCommands[1] /\ 1 \in 1..n
    BY <1>0, <1>1, OldestCommand DEF CmdqInv, CommandsKnown
  <1>3. PICK result \in PossibleResults(c.kind) : Answer(c, result) \/ Lose(c, result)
    BY DEF DispatchOne
  <1>4. result \in Results
    BY <1>2, <1>3, ResultTypes DEF Commands
  <1>5. c.id = d + 1
    BY <1>2 DEF QueueOrder, WaitingId
  <1> HIDE DEF c
  <1>6. /\ CmdUsed' = n - 1
        /\ \A k \in 1..n - 1 : PendingCommands'[k] = PendingCommands[k + 1]
    BY <1>0, <1>1, CommandTaken
  <1>7. DoneUpTo' = d + 1
    BY <1>0, <1>1, <1>6 DEF DoneUpTo
  <1>8. ASSUME NEW k \in 1..n - 1
        PROVE  WaitingId(k)' = d + 1 + k
    <2>1. k + 1 \in 1..n
      BY <1>0
    <2>2. WaitingId(k)' = WaitingId(k + 1)
      BY <1>6 DEF WaitingId
    <2>3. QED
      BY <1>0, <2>1, <2>2 DEF QueueOrder
  <1>9. CASE Answer(c, result)
    <2>1. PICK e \in Completions :
              /\ e.id = c.id
              /\ m + 1 < CompDepth
              /\ CompUsed' = m + 1
              /\ \A k \in 1..m : PendingCompletions'[k] = PendingCompletions[k]
              /\ PendingCompletions'[m + 1] = e
      BY <1>2, <1>4, <1>9, AnswerPushes
    <2>2. /\ \A k \in 1..m : AnswerId(k)' = AnswerId(k)
          /\ PendingCompletions'[m + 1].id = d + 1
      BY <1>5, <2>1 DEF AnswerId
    <2>3. compTail' # compTail
      <3>1. compTail' = Advanced(compTail) /\ compTail \in Indexes /\ compTail \in Int
        BY <1>0, <1>9, DepthTypes DEF Answer, RingsOK
      <3>2. CompUsed' = (compTail' - compHead') % CompDepth /\ compHead' = compHead
        BY <1>9 DEF CompUsed, Answer
      <3>3. compTail' = compTail => CompUsed' = m
        BY <3>2 DEF CompUsed
      <3>4. QED
        BY <1>0, <2>1, <3>3
    <2>4. QueueOrder'
      <3>1. ASSUME NEW k \in 1..m + 1
            PROVE  AnswerId(k)' \in 1..d + 1
        <4>1. CASE k \in 1..m
          BY <1>0, <2>2, <4>1 DEF QueueOrder
        <4>2. CASE k = m + 1
          BY <1>0, <2>2, <4>2 DEF AnswerId
        <4>3. QED
          BY <1>0, <4>1, <4>2
      <3>2. ASSUME NEW j \in 1..m + 1, NEW k \in 1..m + 1, j < k
            PROVE  AnswerId(j)' < AnswerId(k)'
        <4>1. CASE k \in 1..m
          <5>1. j \in 1..m
            BY <3>2, <4>1, <1>0
          <5>2. QED
            BY <2>2, <3>2, <4>1, <5>1 DEF QueueOrder
        <4>2. CASE k = m + 1
          <5>1. j \in 1..m
            BY <3>2, <4>2, <1>0
          <5>2. AnswerId(j) \in 1..d
            BY <5>1 DEF QueueOrder
          <5>3. QED
            BY <1>0, <2>2, <4>2, <5>1, <5>2 DEF AnswerId
        <4>3. QED
          BY <1>0, <4>1, <4>2
      <3>3. d + 1 \in Nat
        BY <1>0
      <3>4. QED
        BY <1>6, <1>7, <1>8, <2>1, <3>1, <3>2, <3>3 DEF QueueOrder
    <2>5. QED
      BY <1>1, <1>5, <1>6, <1>7, <2>1, <2>2, <2>3, <2>4 DEF QueueStep, c
  <1>10. CASE Lose(c, result)
    <2>1. UNCHANGED compVars /\ m + 1 >= CompDepth
      BY <1>10 DEF Lose
    <2>2. CompUsed' = m /\ PendingCompletions' = PendingCompletions /\ compTail' = compTail
      BY <2>1, PendingUnchanged DEF compVars
    <2>3. \A k \in 1..m : AnswerId(k)' = AnswerId(k)
      BY <2>2 DEF AnswerId
    <2>4. QueueOrder'
      <3>1. d + 1 \in Nat /\ 1..d \subseteq 1..d + 1
        BY <1>0
      <3>2. QED
        BY <1>6, <1>7, <1>8, <2>2, <2>3, <3>1 DEF QueueOrder
    <2>5. ~ (m + 1 < CompDepth)
      BY <1>0, <2>1
    <2>6. QED
      BY <1>1, <1>5, <1>6, <1>7, <2>2, <2>3, <2>4, <2>5 DEF QueueStep, c
  <1>11. QED
    BY <1>3, <1>9, <1>10

LEMMA PollOrder ==
    ASSUME CmdqInv, QueueOrder, PollCompletion
    PROVE  /\ QueueOrder' /\ QueueStep
           /\ CompUsed # 0 /\ CompUsed' = CompUsed - 1 /\ CmdUsed' = CmdUsed
           /\ nextId' = nextId /\ DoneUpTo' = DoneUpTo
           /\ compRing[compHead % CompDepth].id = AnswerId(1)
           /\ compRing[compHead % CompDepth] \in Completions
           /\ \A k \in 1..CompUsed - 1 : AnswerId(k)' = AnswerId(k + 1)
  <1> DEFINE m == CompUsed
  <1>0. RingsOK /\ m \in Nat
    BY QueueNumbers
  <1>1. /\ m # 0 /\ compHead' = Advanced(compHead)
        /\ compRing' = compRing /\ compTail' = compTail /\ UNCHANGED cmdVars
    BY DEF PollCompletion
  <1>2. /\ CompUsed' = m - 1
        /\ \A k \in 1..m - 1 : PendingCompletions'[k] = PendingCompletions[k + 1]
    BY <1>0, <1>1, CompletionTaken
  <1>3. CmdUsed' = CmdUsed /\ PendingCommands' = PendingCommands
    BY <1>1, PendingUnchanged DEF cmdVars
  <1>4. compRing[compHead % CompDepth] = PendingCompletions[1] /\ 1 \in 1..m
    BY <1>0, <1>1, OldestCompletion
  <1>5. compRing[compHead % CompDepth] \in Completions
    BY <1>4 DEF CmdqInv, CompletionsKnown
  <1>6. nextId' = nextId
    BY <1>1 DEF cmdVars
  <1>7. DoneUpTo' = DoneUpTo
    BY <1>3, <1>6 DEF DoneUpTo
  <1>8. ASSUME NEW k \in 1..m - 1
        PROVE  k + 1 \in 1..m /\ AnswerId(k)' = AnswerId(k + 1)
    BY <1>0, <1>2 DEF AnswerId
  <1>9. ASSUME NEW j \in 1..m - 1, NEW k \in 1..m - 1, j < k
        PROVE  AnswerId(j)' < AnswerId(k)'
    <2>1. j + 1 < k + 1 /\ j + 1 \in 1..m /\ k + 1 \in 1..m
      BY <1>0, <1>9
    <2>2. QED
      BY <1>8, <2>1 DEF QueueOrder
  <1>10. QueueOrder'
    BY <1>2, <1>3, <1>7, <1>8, <1>9 DEF QueueOrder, WaitingId
  <1>11. QED
    BY <1>1, <1>2, <1>3, <1>4, <1>5, <1>6, <1>7, <1>8, <1>10 DEF QueueStep, AnswerId

(***************************************************************************)
(* The wire: what each client has sent and not yet been answered, and who  *)
(* is served.                                                              *)
(***************************************************************************)
Ops == {"none", "load", "run", "rope"} \cup OtherCalls
Calls == [op : Ops, stage : {"none"} \cup Operations, id : Nat]
Requests == [kind : Operations, op : Ops]
OkAnswers == [kind : {"ok"}, id : Nat, payload : Nat, result : Results]
Answers == OkAnswers \cup {FailedAnswer}
Works == [client : Clients, op : Ops]
Tallies == [begun : Nat, done : Nat, reported : Nat, unreported : Nat]

WireTypes ==
    /\ daemon \in {"new", "up", "down"}
    /\ line \in Seq(Clients)
    /\ phase \in [Clients -> {"out", "idle", "sent", "gone"}]
    /\ call \in [Clients -> Calls]
    /\ loaded \in [Clients -> BOOLEAN]
    /\ request \in [Clients -> Requests \cup {NoMessage}]
    /\ answer \in [Clients -> Answers \cup {NoMessage}]

\* The steps of the calls that clients make.
Shape(op, stage) ==
    \/ op = "none" /\ stage = "shutdown"
    \/ op \in {"load", "run", "rope"} /\ stage \in {"submit", "dispatch", "poll"}
    \/ op \in CallArgs /\ stage = op

InLine(c) == \E k \in DOMAIN line : line[k] = c

\* The daemon has answered the client before.
Begun(c) ==
    \/ loaded[c] \/ call[c].op = "run" \/ call[c].stage \in {"dispatch", "poll"}
    \/ answer[c] # NoMessage
    \/ request[c] # NoMessage /\ request[c].op = "run"

WireOf(c) ==
    /\ call[c] # NoCall => Shape(call[c].op, call[c].stage)
    /\ request[c] # NoMessage => Shape(request[c].op, request[c].kind)
    /\ phase[c] = "out" => call[c] = NoCall /\ ~loaded[c]
    /\ phase[c] = "gone" => call[c] = NoCall
    /\ phase[c] \in {"out", "idle"} => request[c] = NoMessage
    /\ phase[c] # "sent" => answer[c] = NoMessage
    /\ phase[c] = "sent" =>
          /\ call[c] # NoCall
          /\ request[c] # NoMessage =>
                /\ answer[c] = NoMessage
                /\ request[c].kind = call[c].stage /\ request[c].op = call[c].op
    /\ phase[c] = "out" => ~InLine(c)
    /\ Alive(c) => InLine(c)
    /\ InLine(c) /\ Begun(c) => c = Head(line)

LineDistinct == \A j, k \in DOMAIN line : line[j] = line[k] => j = k

Wire == WireTypes /\ LineDistinct /\ \A c \in Clients : WireOf(c)

LEMMA ServedIsClient ==
    ASSUME line \in Seq(Clients), line # <<>>
    PROVE  /\ Served \in Clients /\ InLine(Served) /\ 1 \in DOMAIN line /\ line[1] = Served
  BY DEF Served, InLine

LEMMA MessageKinds ==
    /\ \A r \in Requests : r # NoMessage /\ r.kind # "none"
    /\ \A m \in Answers : m # NoMessage /\ m.kind # "none"
    /\ NoMessage.kind = "none"
    /\ \A m \in OkAnswers : m.kind = "ok" /\ m # FailedAnswer
    /\ FailedAnswer.kind = "failed" /\ FailedAnswer \in Answers
  BY DEF Requests, Answers, OkAnswers, NoMessage, FailedAnswer, Operations, OtherCalls,
         RegisterCalls, DmaCalls, FabricCalls, KvWrites, KvReads, ReadCalls

LEMMA OpKinds ==
    /\ "none" \notin OtherCalls /\ "load" \notin OtherCalls
    /\ "run" \notin OtherCalls /\ "rope" \notin OtherCalls
    /\ "submit" \notin OtherCalls /\ "dispatch" \notin OtherCalls
    /\ "poll" \notin OtherCalls /\ "shutdown" \notin OtherCalls
    /\ CallArgs \subseteq OtherCalls
  BY EndpointConfigValid
  DEF OtherCalls, RegisterCalls, DmaCalls, FabricCalls, KvWrites, KvReads, ReadCalls

LEMMA ShapeTypes ==
    ASSUME NEW op, NEW stage, Shape(op, stage)
    PROVE  op \in Ops /\ stage \in Operations
  BY OpKinds DEF Shape, Ops, Operations

LEMMA InitWire == Init => Wire
  <1> SUFFICES ASSUME Init
               PROVE  Wire
    OBVIOUS
  <1>1. NoCall \in Calls
    BY DEF NoCall, Calls, Ops
  <1>2. WireTypes
    BY <1>1 DEF Init, WireTypes
  <1>3. QED
    BY <1>2 DEF Init, Wire, LineDistinct, WireOf, InLine, Alive

\* The daemon reads the request of the client it serves, and answers.
LEMMA RespondWire ==
    ASSUME Wire, daemon = "up", line # <<>>, request[Served] # NoMessage,
           NEW m \in Answers, Respond(m)
    PROVE  Wire'
  <1> DEFINE c == Served
  <1>0. /\ WireTypes /\ LineDistinct /\ c \in Clients /\ InLine(c) /\ c = Head(line)
        /\ request[c] # NoMessage
    BY ServedIsClient DEF Wire, WireTypes, Served
  <1>1. /\ request' = [request EXCEPT ![c] = NoMessage]
        /\ answer' = IF Alive(c) THEN [answer EXCEPT ![c] = m] ELSE answer
        /\ daemon' \in {"up", "down"}
        /\ line' = line /\ phase' = phase /\ call' = call /\ loaded' = loaded
    BY DEF Respond, clientVars
  <1> HIDE DEF c
  <1>2. WireTypes'
    BY <1>0, <1>1 DEF WireTypes
  <1>3. ASSUME NEW d \in Clients
        PROVE  WireOf(d)'
    <2>1. WireOf(d) /\ WireOf(c)
      BY <1>0 DEF Wire
    <2>2. (InLine(d))' = InLine(d) /\ (Alive(d))' = Alive(d) /\ Head(line') = Head(line)
      BY <1>1 DEF InLine, Alive
    <2>3. CASE d = c
      <3>1. request'[d] = NoMessage /\ (answer'[d] = m \/ answer'[d] = answer[d])
        BY <1>0, <1>1, <2>3 DEF WireTypes
      <3>2. phase[d] # "sent" => answer'[d] = NoMessage
        <4>1. phase[d] # "sent" => ~Alive(d)
          BY <1>0, <2>1, <2>3 DEF WireOf, Alive
        <4>2. QED
          BY <1>1, <2>1, <2>3, <4>1 DEF WireOf
      <3>3. QED
        BY <1>0, <1>1, <2>1, <2>2, <2>3, <3>1, <3>2 DEF WireOf
    <2>4. CASE d # c
      <3>1. request'[d] = request[d] /\ answer'[d] = answer[d]
        BY <1>0, <1>1, <2>4 DEF WireTypes
      <3>2. QED
        BY <1>1, <2>1, <2>2, <3>1 DEF WireOf, Begun
    <2>5. QED
      BY <2>3, <2>4
  <1>4. LineDistinct'
    BY <1>0, <1>1 DEF LineDistinct
  <1>5. QED
    BY <1>2, <1>3, <1>4 DEF Wire

\* A step of one client, as far as the wire knows.
ClientMoves(c) ==
    /\ daemon' = daemon /\ line' = line
    /\ \A d \in Clients \ {c} :
          /\ phase'[d] = phase[d] /\ call'[d] = call[d] /\ loaded'[d] = loaded[d]
          /\ request'[d] = request[d] /\ answer'[d] = answer[d]

LEMMA ClientWire ==
    ASSUME Wire, NEW c \in Clients, ClientMoves(c), WireTypes', WireOf(c)'
    PROVE  Wire'
  <1>1. ASSUME NEW d \in Clients \ {c}
        PROVE  WireOf(d)'
    <2>1. WireOf(d)
      BY DEF Wire
    <2>2. (InLine(d))' = InLine(d) /\ Head(line') = Head(line)
      BY DEF InLine, ClientMoves
    <2>3. /\ phase'[d] = phase[d] /\ call'[d] = call[d] /\ loaded'[d] = loaded[d]
          /\ request'[d] = request[d] /\ answer'[d] = answer[d]
      BY DEF ClientMoves
    <2>4. QED
      BY <2>1, <2>2, <2>3 DEF WireOf, Begun, Alive
  <1>2. LineDistinct'
    BY DEF Wire, LineDistinct, ClientMoves
  <1>3. QED
    BY <1>1, <1>2 DEF Wire

LEMMA BeginMoves ==
    ASSUME Wire, NEW c \in Clients, NEW op, NEW stage, Begin(c, op, stage)
    PROVE  /\ ClientMoves(c) /\ phase[c] = "idle" /\ call[c] = NoCall
           /\ phase' = phase /\ loaded' = loaded /\ request' = request /\ answer' = answer
           /\ call'[c] = [op |-> op, stage |-> stage, id |-> 0]
           /\ call' = [call EXCEPT ![c] = [op |-> op, stage |-> stage, id |-> 0]]
  BY DEF Begin, ClientMoves, quietVars, Wire, WireTypes

LEMMA BeginWire ==
    ASSUME Wire, NEW c \in Clients, NEW op, NEW stage, Begin(c, op, stage),
           Shape(op, stage), op # "run" \/ loaded[c], stage \notin {"dispatch", "poll"}
    PROVE  Wire'
  <1> DEFINE r == [op |-> op, stage |-> stage, id |-> 0]
  <1>0. WireTypes /\ WireOf(c)
    BY DEF Wire
  <1>1. r \in Calls /\ r # NoCall
    BY ShapeTypes, OpKinds DEF Calls, NoCall, Shape
  <1>2. /\ ClientMoves(c) /\ phase[c] = "idle" /\ call[c] = NoCall
        /\ phase' = phase /\ loaded' = loaded /\ request' = request /\ answer' = answer
        /\ call'[c] = r /\ call' = [call EXCEPT ![c] = r]
        /\ r.op = op /\ r.stage = stage
    BY BeginMoves
  <1> HIDE DEF r
  <1>3. WireTypes'
    BY <1>0, <1>1, <1>2 DEF WireTypes, ClientMoves
  <1>4. (InLine(c))' = InLine(c) /\ Head(line') = Head(line)
    BY <1>2 DEF InLine, ClientMoves
  <1>5. WireOf(c)'
    BY <1>0, <1>1, <1>2, <1>4 DEF WireOf, Begun, Alive
  <1>6. QED
    BY <1>2, <1>3, <1>5, ClientWire

LEMMA SendWire ==
    ASSUME Wire, NEW c \in Clients, Send(c)
    PROVE  Wire'
  <1>0. WireTypes /\ WireOf(c)
    BY DEF Wire
  <1>1. /\ phase[c] = "idle" /\ call[c] # NoCall /\ line' = line /\ daemon' = daemon
        /\ loaded' = loaded /\ answer' = answer
    BY DEF Send, quietVars
  <1>2. (InLine(c))' = InLine(c) /\ Head(line') = Head(line)
    BY <1>1 DEF InLine
  <1>3. CASE daemon = "down"
    <2>1. /\ call' = [call EXCEPT ![c] = NoCall] /\ request' = request
          /\ \E p \in {"gone", "idle"} : phase' = [phase EXCEPT ![c] = p]
      BY <1>3 DEF Send
    <2>2. NoCall \in Calls
      BY DEF NoCall, Calls, Ops
    <2>3. WireTypes'
      BY <1>0, <1>1, <2>1, <2>2 DEF WireTypes
    <2>4. ClientMoves(c) /\ call'[c] = NoCall /\ phase'[c] \in {"gone", "idle"}
      BY <1>0, <1>1, <2>1 DEF WireTypes, ClientMoves
    <2>5. NoCall.op = "none" /\ NoCall.stage = "none"
      BY DEF NoCall
    <2>6. WireOf(c)'
      BY <1>0, <1>1, <1>2, <2>1, <2>4, <2>5 DEF WireOf, Begun, Alive
    <2>7. QED
      BY <2>3, <2>4, <2>6, ClientWire
  <1>4. CASE daemon # "down"
    <2> DEFINE r == [kind |-> call[c].stage, op |-> call[c].op]
    <2>1. /\ request' = [request EXCEPT ![c] = r] /\ phase' = [phase EXCEPT ![c] = "sent"]
          /\ call' = call
      BY <1>4 DEF Send
    <2>2. Shape(call[c].op, call[c].stage)
      BY <1>0, <1>1 DEF WireOf
    <2>3. r \in Requests /\ r # NoMessage /\ r.kind = call[c].stage /\ r.op = call[c].op
      BY <2>2, ShapeTypes, MessageKinds DEF Requests
    <2> HIDE DEF r
    <2>4. WireTypes'
      BY <1>0, <1>1, <2>1, <2>3 DEF WireTypes
    <2>5. ClientMoves(c) /\ request'[c] = r /\ phase'[c] = "sent"
      BY <1>0, <1>1, <2>1 DEF WireTypes, ClientMoves
    <2>6. WireOf(c)'
      BY <1>0, <1>1, <1>2, <2>1, <2>2, <2>3, <2>5 DEF WireOf, Begun, Alive
    <2>7. QED
      BY <2>4, <2>5, <2>6, ClientWire
  <1>5. QED
    BY <1>3, <1>4

\* A call goes on by one step, or ends.
LEMMA ProgressCases ==
    ASSUME NEW c \in Clients, call[c] \in Calls, NEW m \in Answers
    PROVE  \/ Progress(c, m) = NoCall
           \/ /\ m \in OkAnswers /\ call[c].stage = "submit"
              /\ Progress(c, m) = [op |-> call[c].op, stage |-> "dispatch", id |-> m.id]
           \/ /\ m \in OkAnswers /\ call[c].stage = "dispatch"
              /\ Progress(c, m) = [op |-> call[c].op, stage |-> "poll", id |-> call[c].id]
           \/ /\ m \in OkAnswers /\ call[c].stage = "poll" /\ call[c].op = "load"
              /\ Progress(c, m) = [op |-> "run", stage |-> "submit", id |-> 0]
  <1>1. CASE m.kind # "ok"
    BY <1>1 DEF Progress
  <1>2. CASE m.kind = "ok"
    <2>1. m \in OkAnswers
      BY <1>2, MessageKinds DEF Answers
    <2>2. CASE call[c].stage = "submit"
      BY <1>2, <2>1, <2>2 DEF Progress, Calls
    <2>3. CASE call[c].stage = "dispatch"
      BY <1>2, <2>1, <2>3 DEF Progress, Calls
    <2>4. CASE call[c].stage = "poll" /\ call[c].op = "load" /\ m.result = "OK"
      BY <1>2, <2>1, <2>4 DEF Progress, Calls
    <2>5. CASE ~(call[c].stage \in {"submit", "dispatch"} \/ (call[c].stage = "poll" /\ call[c].op = "load" /\ m.result = "OK"))
      BY <1>2, <2>5 DEF Progress
    <2>6. QED
      BY <2>2, <2>3, <2>4, <2>5
  <1>3. QED
    BY <1>1, <1>2

LEMMA UsableAnswers ==
    ASSUME NEW c, NEW m \in Answers
    PROVE  /\ Usable(c, m) \in {m, FailedAnswer}
           /\ Usable(c, m) \in Answers
           /\ Usable(c, m).kind = "ok" => Usable(c, m) = m
  BY MessageKinds DEF Usable

LEMMA ReceiveMoves ==
    ASSUME Wire, NEW c \in Clients, Receive(c)
    PROVE  /\ WireTypes' /\ ClientMoves(c)
           /\ phase[c] = "sent" /\ answer[c] \in Answers /\ answer'[c] = NoMessage
           /\ request' = request
           /\ phase'[c] = IF call[c].stage = "shutdown" THEN "gone" ELSE "idle"
           /\ call'[c] = Progress(c, Usable(c, answer[c]))
           /\ loaded'[c] = (loaded[c] \/ (call'[c].op = "run" /\ call[c].op = "load"))
           /\ \/ call'[c] = NoCall
              \/ /\ answer[c] \in OkAnswers /\ call[c].stage = "submit"
                 /\ call'[c] = [op |-> call[c].op, stage |-> "dispatch", id |-> answer[c].id]
              \/ /\ answer[c] \in OkAnswers /\ call[c].stage = "dispatch"
                 /\ call'[c] = [op |-> call[c].op, stage |-> "poll", id |-> call[c].id]
              \/ /\ answer[c] \in OkAnswers /\ call[c].stage = "poll" /\ call[c].op = "load"
                 /\ call'[c] = [op |-> "run", stage |-> "submit", id |-> 0]
  <1> DEFINE m == Usable(c, answer[c])
             p == Progress(c, m)
  <1>0. WireTypes /\ call[c] \in Calls
    BY DEF Wire, WireTypes
  <1>1. /\ phase[c] = "sent" /\ answer[c] # NoMessage
        /\ answer' = [answer EXCEPT ![c] = NoMessage]
        /\ loaded' = [loaded EXCEPT ![c] = @ \/ (p.op = "run" /\ call[c].op = "load")]
        /\ call' = [call EXCEPT ![c] = p]
        /\ phase' = [phase EXCEPT ![c] = IF call[c].stage = "shutdown" THEN "gone" ELSE "idle"]
        /\ line' = line /\ request' = request /\ daemon' = daemon
    BY DEF Receive, quietVars
  <1>2. answer[c] \in Answers
    BY <1>0, <1>1 DEF WireTypes
  <1>3. m \in Answers /\ (m \in OkAnswers => m = answer[c])
    BY <1>2, UsableAnswers, MessageKinds
  <1> HIDE DEF m
  <1>4. \/ p = NoCall
        \/ /\ m \in OkAnswers /\ call[c].stage = "submit"
           /\ p = [op |-> call[c].op, stage |-> "dispatch", id |-> m.id]
        \/ /\ m \in OkAnswers /\ call[c].stage = "dispatch"
           /\ p = [op |-> call[c].op, stage |-> "poll", id |-> call[c].id]
        \/ /\ m \in OkAnswers /\ call[c].stage = "poll" /\ call[c].op = "load"
           /\ p = [op |-> "run", stage |-> "submit", id |-> 0]
    BY <1>0, <1>3, ProgressCases
  <1> HIDE DEF p
  <1>5. p \in Calls
    BY <1>0, <1>3, <1>4 DEF Calls, Ops, NoCall, Operations, OkAnswers
  <1>6. WireTypes'
    BY <1>0, <1>1, <1>5 DEF WireTypes
  <1>7. ClientMoves(c)
    BY <1>0, <1>1 DEF ClientMoves, WireTypes
  <1>8. /\ answer'[c] = NoMessage /\ call'[c] = p
        /\ phase'[c] = IF call[c].stage = "shutdown" THEN "gone" ELSE "idle"
        /\ loaded'[c] = (loaded[c] \/ (p.op = "run" /\ call[c].op = "load"))
    BY <1>0, <1>1 DEF WireTypes
  <1>9. QED
    BY <1>1, <1>2, <1>3, <1>4, <1>6, <1>7, <1>8 DEF m, p

LEMMA ReceiveWire ==
    ASSUME Wire, NEW c \in Clients, Receive(c)
    PROVE  Wire'
  <1>0. WireTypes /\ WireOf(c)
    BY DEF Wire
  <1>1. /\ WireTypes' /\ ClientMoves(c)
        /\ phase[c] = "sent" /\ answer[c] \in Answers /\ answer'[c] = NoMessage
        /\ request' = request
        /\ phase'[c] = IF call[c].stage = "shutdown" THEN "gone" ELSE "idle"
        /\ \/ call'[c] = NoCall
           \/ /\ answer[c] \in OkAnswers /\ call[c].stage = "submit"
              /\ call'[c] = [op |-> call[c].op, stage |-> "dispatch", id |-> answer[c].id]
           \/ /\ answer[c] \in OkAnswers /\ call[c].stage = "dispatch"
              /\ call'[c] = [op |-> call[c].op, stage |-> "poll", id |-> call[c].id]
           \/ /\ answer[c] \in OkAnswers /\ call[c].stage = "poll" /\ call[c].op = "load"
              /\ call'[c] = [op |-> "run", stage |-> "submit", id |-> 0]
    BY ReceiveMoves
  <1>2. (InLine(c))' = InLine(c) /\ Head(line') = Head(line)
    BY <1>1 DEF InLine, ClientMoves
  <1>3. /\ call[c] # NoCall /\ Shape(call[c].op, call[c].stage) /\ InLine(c)
        /\ answer[c] # NoMessage /\ request[c] = NoMessage /\ c = Head(line)
    BY <1>0, <1>1, MessageKinds DEF WireOf, Alive, Begun
  <1>4. call'[c] # NoCall => Shape(call'[c].op, call'[c].stage) /\ phase'[c] = "idle"
    BY <1>1, <1>3, OpKinds DEF Shape
  <1>5. phase'[c] \in {"idle", "gone"} /\ (phase'[c] = "gone" => call'[c] = NoCall)
    BY <1>1, <1>4
  <1>6. WireOf(c)'
    BY <1>1, <1>2, <1>3, <1>4, <1>5 DEF WireOf
  <1>7. QED
    BY <1>1, <1>6, ClientWire

LEMMA ReceiveNothingWire ==
    ASSUME Wire, NEW c \in Clients, ReceiveNothing(c)
    PROVE  /\ Wire' /\ ClientMoves(c) /\ phase[c] = "sent" /\ answer[c] = NoMessage
           /\ call'[c] = NoCall /\ request'[c] = NoMessage /\ phase'[c] \in {"idle", "gone"}
           /\ answer' = answer /\ daemon = "down" /\ loaded' = loaded
  <1>0. WireTypes /\ WireOf(c) /\ NoCall \in Calls /\ NoCall.op = "none" /\ NoCall.stage = "none"
    BY DEF Wire, NoCall, Calls, Ops
  <1>1. /\ phase[c] = "sent" /\ answer[c] = NoMessage /\ daemon = "down"
        /\ \E q \in {"idle", "gone"} : phase' = [phase EXCEPT ![c] = q]
        /\ call' = [call EXCEPT ![c] = NoCall]
        /\ request' = [request EXCEPT ![c] = NoMessage]
        /\ line' = line /\ daemon' = daemon /\ loaded' = loaded /\ answer' = answer
    BY DEF ReceiveNothing, quietVars
  <1>2. WireTypes'
    BY <1>0, <1>1 DEF WireTypes
  <1>3. /\ ClientMoves(c) /\ call'[c] = NoCall /\ request'[c] = NoMessage
        /\ phase'[c] \in {"idle", "gone"}
    BY <1>0, <1>1 DEF ClientMoves, WireTypes
  <1>4. (InLine(c))' = InLine(c) /\ Head(line') = Head(line)
    BY <1>1 DEF InLine
  <1>5. WireOf(c)'
    BY <1>0, <1>1, <1>3, <1>4 DEF WireOf, Begun, Alive
  <1>6. QED
    BY <1>1, <1>2, <1>3, <1>5, ClientWire

LEMMA DestroyWire ==
    ASSUME Wire, NEW c \in Clients, Destroy(c)
    PROVE  /\ Wire' /\ ClientMoves(c) /\ phase[c] = "idle" /\ call[c] = NoCall
           /\ call'[c].op = "none" /\ call'[c].stage = "shutdown"
           /\ UNCHANGED <<phase, loaded, request, answer>>
  <1> DEFINE r == [op |-> "none", stage |-> "shutdown", id |-> 0]
  <1>0. /\ WireTypes /\ WireOf(c) /\ r \in Calls /\ r # NoCall
        /\ r.op = "none" /\ r.stage = "shutdown"
    BY DEF Wire, NoCall, Calls, Ops, Operations
  <1> HIDE DEF r
  <1>1. /\ phase[c] = "idle" /\ call[c] = NoCall
        /\ call' = [call EXCEPT ![c] = r]
        /\ line' = line /\ daemon' = daemon /\ loaded' = loaded /\ answer' = answer
        /\ phase' = phase /\ request' = request
    BY DEF Destroy, quietVars, r
  <1>2. WireTypes'
    BY <1>0, <1>1 DEF WireTypes
  <1>3. ClientMoves(c) /\ call'[c] = r
    BY <1>0, <1>1 DEF ClientMoves, WireTypes
  <1>4. (InLine(c))' = InLine(c) /\ Head(line') = Head(line)
    BY <1>1 DEF InLine
  <1>5. WireOf(c)'
    BY <1>0, <1>1, <1>3, <1>4 DEF WireOf, Begun, Alive, Shape
  <1>6. QED
    BY <1>0, <1>1, <1>2, <1>3, <1>5, ClientWire

LEMMA DieWire ==
    ASSUME Wire, NEW c \in Clients, Die(c)
    PROVE  /\ Wire' /\ ClientMoves(c) /\ Alive(c)
           /\ call'[c] = NoCall /\ phase'[c] = "gone" /\ answer'[c] = NoMessage
           /\ UNCHANGED <<loaded, request>>
  <1>0. WireTypes /\ WireOf(c) /\ NoCall \in Calls /\ NoCall.op = "none" /\ NoCall.stage = "none"
    BY DEF Wire, NoCall, Calls, Ops
  <1>1. /\ Alive(c) /\ phase' = [phase EXCEPT ![c] = "gone"]
        /\ call' = [call EXCEPT ![c] = NoCall]
        /\ answer' = [answer EXCEPT ![c] = NoMessage]
        /\ line' = line /\ daemon' = daemon /\ loaded' = loaded /\ request' = request
    BY DEF Die, quietVars
  <1>2. WireTypes'
    BY <1>0, <1>1 DEF WireTypes
  <1>3. /\ ClientMoves(c) /\ call'[c] = NoCall /\ answer'[c] = NoMessage
        /\ phase'[c] = "gone"
    BY <1>0, <1>1 DEF ClientMoves, WireTypes
  <1>4. (InLine(c))' = InLine(c) /\ Head(line') = Head(line)
    BY <1>1 DEF InLine
  <1>5. WireOf(c)'
    BY <1>0, <1>1, <1>3, <1>4 DEF WireOf, Begun, Alive
  <1>6. QED
    BY <1>1, <1>2, <1>3, <1>5, ClientWire

LEMMA LineAppended ==
    ASSUME line \in Seq(Clients), NEW c \in Clients, line' = Append(line, c)
    PROVE  /\ line' \in Seq(Clients)
           /\ \A d : (InLine(d))' <=> InLine(d) \/ d = c
           /\ Head(line') = IF line = <<>> THEN c ELSE Head(line)
           /\ LineDistinct /\ ~InLine(c) => LineDistinct'
  <1> DEFINE n == Len(line)
  <1>1. /\ n \in Nat /\ DOMAIN line = 1..n /\ line' \in Seq(Clients)
        /\ DOMAIN line' = 1..n + 1 /\ line'[n + 1] = c
        /\ \A k \in 1..n : line'[k] = line[k]
    OBVIOUS
  <1>2. \A k : k \in 1..n + 1 <=> k \in 1..n \/ k = n + 1
    BY <1>1
  <1>3. \A d : (InLine(d))' <=> InLine(d) \/ d = c
    BY <1>1, <1>2 DEF InLine
  <1>4. Head(line') = IF line = <<>> THEN c ELSE Head(line)
    OBVIOUS
  <1>5. LineDistinct /\ ~InLine(c) => LineDistinct'
    BY <1>1, <1>2 DEF LineDistinct, InLine
  <1>6. QED
    BY <1>1, <1>3, <1>4, <1>5

LEMMA ConnectWire ==
    ASSUME Wire, NEW c \in Clients, Connect(c)
    PROVE  /\ Wire' /\ phase[c] = "out" /\ phase' = [phase EXCEPT ![c] = "idle"]
           /\ daemon = "up" /\ daemon' = daemon
           /\ UNCHANGED <<call, loaded, request, answer>>
           /\ \A d : (InLine(d))' <=> InLine(d) \/ d = c
  <1>0. WireTypes /\ WireOf(c) /\ LineDistinct
    BY DEF Wire
  <1>1. /\ phase[c] = "out" /\ phase' = [phase EXCEPT ![c] = "idle"]
        /\ line' = Append(line, c) /\ daemon = "up" /\ daemon' = daemon
        /\ UNCHANGED <<call, loaded, request, answer>>
    BY DEF Connect, quietVars
  <1>2. /\ line' \in Seq(Clients)
        /\ \A d : (InLine(d))' <=> InLine(d) \/ d = c
        /\ Head(line') = IF line = <<>> THEN c ELSE Head(line)
        /\ LineDistinct'
    BY <1>0, <1>1, LineAppended DEF WireTypes, WireOf
  <1>3. WireTypes'
    BY <1>0, <1>1, <1>2 DEF WireTypes
  <1>4. ASSUME NEW d \in Clients
        PROVE  WireOf(d)'
    <2>1. WireOf(d) /\ NoCall.op = "none" /\ NoCall.stage = "none"
      BY DEF Wire, NoCall
    <2>2. CASE d = c
      BY <1>0, <1>1, <1>2, <2>1, <2>2 DEF WireOf, Begun, Alive, WireTypes
    <2>3. CASE d # c
      <3>1. phase'[d] = phase[d]
        BY <1>0, <1>1, <2>3 DEF WireTypes
      <3>2. InLine(d) => line # <<>>
        BY DEF InLine
      <3>3. QED
        BY <1>1, <1>2, <2>1, <2>3, <3>1, <3>2 DEF WireOf, Begun, Alive
    <2>4. QED
      BY <2>2, <2>3
  <1>5. QED
    BY <1>1, <1>2, <1>3, <1>4 DEF Wire

LEMMA NextClientWire ==
    ASSUME Wire, NextClient
    PROVE  /\ Wire' /\ UNCHANGED <<phase, call, loaded, request, answer>>
           /\ daemon' \in {daemon, "down"}
           /\ line # <<>> /\ ~Alive(Served)
           /\ \A d \in Clients : (InLine(d))' => InLine(d) /\ ~Begun(d) /\ d # Served
  <1> DEFINE n == Len(line)
             h == Served
  <1>0. WireTypes /\ LineDistinct /\ line # <<>> /\ ~Alive(h) /\ line' = Tail(line)
        /\ UNCHANGED <<phase, call, loaded, request, answer>>
        /\ daemon' \in {daemon, "down"}
    BY DEF Wire, NextClient, clientVars
  <1>1. h \in Clients /\ line[1] = h /\ h = Head(line)
    BY <1>0, ServedIsClient DEF WireTypes, Served
  <1> HIDE DEF h
  <1>2. /\ n \in Nat \ {0} /\ DOMAIN line = 1..n /\ line' \in Seq(Clients)
        /\ DOMAIN line' = 1..n - 1
        /\ \A k \in 1..n - 1 : line'[k] = line[k + 1] /\ k + 1 \in 1..n
    BY <1>0 DEF WireTypes
  <1>3. ASSUME NEW d \in Clients
        PROVE  (InLine(d))' <=> InLine(d) /\ d # h
    <2>1. ASSUME (InLine(d))'
          PROVE  InLine(d) /\ d # h
      <3>1. PICK k \in 1..n - 1 : line'[k] = d
        BY <1>2, <2>1 DEF InLine
      <3>2. line[k + 1] = d /\ k + 1 \in 1..n /\ k + 1 # 1 /\ 1 \in 1..n
        BY <1>2, <3>1
      <3>3. QED
        BY <1>0, <1>1, <1>2, <3>2 DEF InLine, LineDistinct
    <2>2. ASSUME InLine(d), d # h
          PROVE  (InLine(d))'
      <3>1. PICK k \in 1..n : line[k] = d
        BY <1>2, <2>2 DEF InLine
      <3>2. k # 1 /\ k - 1 \in 1..n - 1 /\ k - 1 + 1 = k
        BY <1>1, <1>2, <2>2, <3>1
      <3>3. line'[k - 1] = d
        BY <1>2, <3>1, <3>2
      <3>4. QED
        BY <1>2, <3>2, <3>3 DEF InLine
    <2>3. QED
      BY <2>1, <2>2
  <1>4. \A d \in Clients : WireOf(d)
    BY DEF Wire
  <1>5. \A d \in Clients : (InLine(d))' => InLine(d) /\ ~Begun(d) /\ d # h
    BY <1>1, <1>3, <1>4 DEF WireOf
  <1>6. LineDistinct'
    <2>1. ASSUME NEW j \in 1..n - 1, NEW k \in 1..n - 1, line'[j] = line'[k]
          PROVE  j = k
      <3>1. line[j + 1] = line[k + 1] /\ j + 1 \in 1..n /\ k + 1 \in 1..n
        BY <1>2, <2>1
      <3>2. j + 1 = k + 1
        BY <1>0, <1>2, <3>1 DEF LineDistinct
      <3>3. QED
        BY <3>2
    <2>2. QED
      BY <1>2, <2>1 DEF LineDistinct
  <1>7. ASSUME NEW d \in Clients
        PROVE  WireOf(d)'
    <2>1. WireOf(d) /\ (Begun(d))' = Begun(d) /\ (Alive(d))' = Alive(d)
      BY <1>0, <1>4 DEF Begun, Alive
    <2>2. Alive(d) => d # h
      BY <1>0
    <2>3. QED
      BY <1>0, <1>3, <1>5, <2>1, <2>2 DEF WireOf
  <1>8. WireTypes'
    BY <1>0, <1>2 DEF WireTypes
  <1>9. QED
    BY <1>0, <1>5, <1>6, <1>7, <1>8 DEF Wire, h

(***************************************************************************)
(* Steps.                                                                  *)
(***************************************************************************)
LEMMA RequestedMeans ==
    ASSUME Wire, NEW kind, Requested(kind), kind # "none"
    PROVE  /\ daemon = "up" /\ line # <<>> /\ Served \in Clients
           /\ request[Served] # NoMessage /\ request[Served] \in Requests
           /\ request[Served].kind = kind /\ WireOf(Served)
           /\ InLine(Served) /\ Served = Head(line)
  <1>1. daemon = "up" /\ line # <<>> /\ request[Served].kind = kind /\ WireTypes
    BY DEF Requested, Wire
  <1>2. Served \in Clients /\ InLine(Served)
    BY <1>1, ServedIsClient DEF WireTypes
  <1>3. request[Served] # NoMessage
    BY <1>1, MessageKinds
  <1>4. QED
    BY <1>1, <1>2, <1>3 DEF Wire, WireTypes, Served

\* What the daemon does for one request, in the terms of the queue.
LEMMA ServeSubmitCases ==
    ASSUME CmdqInv, QueueOrder, Wire, ServeSubmit
    PROVE  /\ Requested("submit") /\ QueueStep /\ QueueOrder' /\ UNCHANGED <<tensor, tally>>
           /\ \/ /\ Respond(FailedAnswer) /\ UNCHANGED <<table, work, cmdVars, compVars>>
                 /\ CmdUsed' = CmdUsed /\ CompUsed' = CompUsed /\ CmdUsed + 1 >= CmdDepth
                 /\ PendingCommands' = PendingCommands
                 /\ PendingCompletions' = PendingCompletions
              \/ /\ Respond(OkAnswer(nextId, 0)) /\ OkAnswer(nextId, 0) \in OkAnswers
                 /\ Submit(0, "exec", FALSE)
                 /\ work' = Append(work, [client |-> Served, op |-> request[Served].op])
                 /\ table' = IF request[Served].op \in ResultCommands
                             THEN Registered(table, nextId) ELSE table
  <1>1. CASE SubmitFull(0) /\ Respond(FailedAnswer) /\ UNCHANGED <<table, work>>
    <2>1. QueueStep
      BY <1>1 DEF QueueStep, QuietStep
    <2>2. UNCHANGED <<cmdVars, compVars>> /\ CmdUsed + 1 >= CmdDepth
      BY <1>1 DEF SubmitFull
    <2>3. QED
      BY <1>1, <2>1, <2>2, QuietOrder DEF ServeSubmit
  <1>2. CASE /\ Respond(OkAnswer(nextId, 0)) /\ Submit(0, "exec", FALSE)
             /\ work' = Append(work, [client |-> Served, op |-> request[Served].op])
             /\ table' = IF request[Served].op \in ResultCommands
                         THEN Registered(table, nextId) ELSE table
    <2>1. OkAnswer(nextId, 0) \in OkAnswers
      BY QueueNumbers DEF OkAnswer, OkAnswers, Results
    <2>2. QED
      BY <1>2, <2>1, SubmitOrder DEF ServeSubmit
  <1>3. QED
    BY <1>1, <1>2 DEF ServeSubmit

LEMMA ServeDispatchCases ==
    ASSUME CmdqInv, QueueOrder, Wire, ServeDispatch
    PROVE  /\ Requested("dispatch") /\ QueueStep /\ QueueOrder'
           /\ UNCHANGED <<table, work, tally>>
           /\ \/ Respond(FailedAnswer) /\ CmdUsed = 0 /\ UNCHANGED <<cmdqVars, tensor>>
              \/ /\ DispatchOne /\ tensor' = TensorAfter(work[DoneUpTo + 1])
                 /\ \/ Respond(FailedAnswer) /\ CompUsed + 1 >= CompDepth
                    \/ /\ Respond(OkAnswer(0, 0)) /\ OkAnswer(0, 0) \in OkAnswers
                       /\ CompUsed + 1 < CompDepth
  <1>1. CASE CmdUsed = 0
    <2>1. UNCHANGED <<cmdqVars, tensor>> /\ Respond(FailedAnswer)
      BY <1>1 DEF ServeDispatch
    <2>2. QueueStep /\ UNCHANGED <<cmdVars, compVars>>
      BY <2>1 DEF QueueStep, cmdqVars, cmdVars, compVars
    <2>3. QED
      BY <1>1, <2>1, <2>2, QuietOrder DEF ServeDispatch
  <1>2. CASE CmdUsed # 0
    <2>1. /\ DispatchOne /\ tensor' = TensorAfter(work[NextCommand.id])
          /\ \/ compTail' = compTail /\ Respond(FailedAnswer)
             \/ compTail' # compTail /\ Respond(OkAnswer(0, 0))
      BY <1>2 DEF ServeDispatch
    <2>2. /\ QueueOrder' /\ QueueStep /\ NextCommand.id = DoneUpTo + 1
          /\ CompUsed + 1 < CompDepth <=> compTail' # compTail
      BY <2>1, DispatchOrder
    <2>3. compTail' = compTail => CompUsed + 1 >= CompDepth
      BY <2>2, QueueNumbers
    <2>4. OkAnswer(0, 0) \in OkAnswers
      BY DEF OkAnswer, OkAnswers, Results
    <2>5. QED
      BY <2>1, <2>2, <2>3, <2>4 DEF ServeDispatch
  <1>3. QED
    BY <1>1, <1>2

\* What a poll answers: the oldest completion, with the payload of its table entry.
PollAnswer ==
    LET id == AnswerId(1) IN
    [kind |-> "ok", id |-> id, payload |-> IF Holds(table, id) THEN id ELSE 0,
     result |-> compRing[compHead % CompDepth].result]

LEMMA ServePollCases ==
    ASSUME CmdqInv, QueueOrder, Wire, ServePoll
    PROVE  /\ Requested("poll") /\ QueueStep /\ QueueOrder'
           /\ UNCHANGED <<tensor, work, tally>>
           /\ \/ Respond(FailedAnswer) /\ CompUsed = 0 /\ UNCHANGED <<cmdqVars, table>>
              \/ /\ PollCompletion /\ CompUsed # 0
                 /\ table' = Cleared(table, AnswerId(1))
                 /\ Respond(PollAnswer) /\ PollAnswer \in OkAnswers
                 /\ AnswerId(1) \in Nat \ {0}
  <1>1. CASE CompUsed = 0
    <2>1. UNCHANGED <<cmdqVars, table>> /\ Respond(FailedAnswer)
      BY <1>1 DEF ServePoll
    <2>2. QueueStep /\ UNCHANGED <<cmdVars, compVars>>
      BY <2>1 DEF QueueStep, cmdqVars, cmdVars, compVars
    <2>3. QED
      BY <1>1, <2>1, <2>2, QuietOrder DEF ServePoll
  <1>2. CASE CompUsed # 0
    <2> DEFINE id == compRing[compHead % CompDepth].id
    <2>1. /\ PollCompletion /\ table' = Cleared(table, id)
          /\ Respond([OkAnswer(id, IF Holds(table, id) THEN id ELSE 0)
                         EXCEPT !.result = compRing[compHead % CompDepth].result])
      BY <1>2 DEF ServePoll
    <2>2. /\ QueueOrder' /\ QueueStep /\ id = AnswerId(1)
          /\ compRing[compHead % CompDepth].result \in Results
      BY <2>1, PollOrder DEF Completions
    <2>3. AnswerId(1) \in Nat \ {0}
      BY <1>2, QueueNumbers DEF QueueOrder
    <2> HIDE DEF id
    <2>4. Respond(PollAnswer)
      BY <2>1, <2>2 DEF PollAnswer, OkAnswer
    <2>5. PollAnswer \in OkAnswers
      BY <2>2, <2>3 DEF PollAnswer, OkAnswers
    <2>6. QED
      BY <1>2, <2>1, <2>2, <2>3, <2>4, <2>5 DEF ServePoll
  <1>3. QED
    BY <1>1, <1>2

LEMMA ServeOtherCases ==
    ASSUME CmdqInv, QueueOrder, Wire, ServeOther
    PROVE  /\ \E op \in CallArgs \cup {"shutdown"} : Requested(op) /\ op # "none"
           /\ QueueStep /\ QueueOrder' /\ UNCHANGED <<cmdqVars, daemonVars>>
           /\ Respond(OkAnswer(0, 0)) /\ OkAnswer(0, 0) \in OkAnswers
  <1>1. QueueStep /\ UNCHANGED <<cmdVars, compVars>>
    BY DEF ServeOther, QueueStep, cmdqVars, cmdVars, compVars
  <1>2. OkAnswer(0, 0) \in OkAnswers
    BY DEF OkAnswer, OkAnswers, Results
  <1>3. QED
    BY <1>1, <1>2, QuietOrder, OpKinds DEF ServeOther

LEMMA ServeWire ==
    ASSUME CmdqInv, QueueOrder, Wire, Serve
    PROVE  /\ Wire' /\ QueueStep /\ QueueOrder'
           /\ \E kind, m : Requested(kind) /\ kind # "none" /\ m \in Answers /\ Respond(m)
  <1>1. OkAnswers \subseteq Answers /\ FailedAnswer \in Answers
    BY DEF Answers
  <1>2. /\ QueueStep /\ QueueOrder'
        /\ \E kind, m : Requested(kind) /\ kind # "none" /\ m \in Answers /\ Respond(m)
    <2>1. CASE ServeSubmit
      BY <1>1, <2>1, ServeSubmitCases
    <2>2. CASE ServeDispatch
      BY <1>1, <2>2, ServeDispatchCases
    <2>3. CASE ServePoll
      BY <1>1, <2>3, ServePollCases
    <2>4. CASE ServeOther
      BY <1>1, <2>4, ServeOtherCases
    <2>5. QED
      BY <2>1, <2>2, <2>3, <2>4 DEF Serve
  <1>3. PICK kind, m : Requested(kind) /\ kind # "none" /\ m \in Answers /\ Respond(m)
    BY <1>2
  <1>4. Wire'
    BY <1>3, RequestedMeans, RespondWire
  <1>5. QED
    BY <1>2, <1>4

LEMMA BootWire ==
    ASSUME Wire, Boot
    PROVE  /\ Wire' /\ QueueStep /\ daemon = "new" /\ daemon' = "up"
           /\ UNCHANGED <<cmdVars, compVars, line, clientVars, request, answer, daemonVars, tally>>
  <1>1. /\ daemon = "new" /\ daemon' = "up" /\ SetExecHook(TRUE)
        /\ UNCHANGED <<line, clientVars, request, answer, daemonVars, tally>>
    BY DEF Boot
  <1>2. UNCHANGED <<line, phase, call, loaded, request, answer>>
    BY <1>1 DEF clientVars
  <1>3. Wire'
    BY <1>1, <1>2 DEF Wire, WireTypes, LineDistinct, WireOf, InLine, Begun, Alive
  <1>4. QueueStep /\ UNCHANGED <<cmdVars, compVars>>
    BY <1>1 DEF QueueStep, QuietStep, SetExecHook
  <1>5. QED
    BY <1>1, <1>3, <1>4

\* The calls that a client begins.
Beginning(c, op, stage) ==
    /\ Begin(c, op, stage)
    /\ \/ op \in {"load", "run", "rope"} /\ stage = "submit"
       \/ op \in CallArgs /\ stage = op
    /\ op = "run" => loaded[c]

LEMMA ClientCases ==
    ASSUME NEW c \in Clients, ClientStep(c)
    PROVE  \/ Connect(c) \/ (\E op, stage : Beginning(c, op, stage))
           \/ Send(c) \/ Receive(c) \/ ReceiveNothing(c) \/ Destroy(c) \/ Die(c)
  <1>1. BeginWithWeight(c) => Beginning(c, FirstCommand(c), "submit")
    BY DEF BeginWithWeight, Beginning, FirstCommand
  <1>2. BeginWithoutWeight(c) => Beginning(c, "rope", "submit")
    BY DEF BeginWithoutWeight, Beginning
  <1>3. \A op \in CallArgs : BeginOther(c, op) => Beginning(c, op, op)
    BY OpKinds DEF BeginOther, Beginning
  <1>4. QED
    BY <1>1, <1>2, <1>3 DEF ClientStep

LEMMA ClientStepWire ==
    ASSUME Wire, NEW c \in Clients, ClientStep(c)
    PROVE  Wire' /\ UNCHANGED quietVars
  <1>1. ASSUME NEW op, NEW stage, Beginning(c, op, stage)
        PROVE  Wire' /\ UNCHANGED quietVars
    <2>1. /\ Begin(c, op, stage) /\ Shape(op, stage) /\ (op # "run" \/ loaded[c])
          /\ stage \notin {"dispatch", "poll"}
      BY <1>1, OpKinds DEF Beginning, Shape
    <2>2. QED
      BY <2>1, BeginWire DEF Begin
  <1>2. Connect(c) => Wire' /\ UNCHANGED quietVars
    BY ConnectWire DEF Connect
  <1>3. Send(c) => Wire' /\ UNCHANGED quietVars
    BY SendWire DEF Send
  <1>4. Receive(c) => Wire' /\ UNCHANGED quietVars
    BY ReceiveWire DEF Receive
  <1>5. ReceiveNothing(c) => Wire' /\ UNCHANGED quietVars
    BY ReceiveNothingWire DEF ReceiveNothing
  <1>6. Destroy(c) => Wire' /\ UNCHANGED quietVars
    BY DestroyWire DEF Destroy
  <1>7. Die(c) => Wire' /\ UNCHANGED quietVars
    BY DieWire DEF Die
  <1>8. QED
    BY <1>1, <1>2, <1>3, <1>4, <1>5, <1>6, <1>7, ClientCases

\* The queue keeps its invariant and its order, and the wire its own.
LEMMA NextWire ==
    ASSUME CmdqInv, QueueOrder, Wire, [Next]_vars
    PROVE  CmdqInv' /\ QueueOrder' /\ Wire'
  <1>1. CASE Boot
    BY <1>1, BootWire, QuietOrder, CmdqNextInv
  <1>2. CASE Serve
    BY <1>2, ServeWire, CmdqNextInv
  <1>3. ASSUME UNCHANGED cmdqVars
        PROVE  CmdqInv' /\ QueueOrder'
    <2>1. QueueStep /\ UNCHANGED <<cmdVars, compVars>>
      BY <1>3 DEF QueueStep, cmdqVars, cmdVars, compVars
    <2>2. QED
      BY <2>1, QuietOrder, CmdqNextInv
  <1>4. CASE NextClient
    BY <1>3, <1>4, NextClientWire DEF NextClient
  <1>5. ASSUME NEW c \in Clients, ClientStep(c)
        PROVE  CmdqInv' /\ QueueOrder' /\ Wire'
    BY <1>3, <1>5, ClientStepWire DEF quietVars
  <1>6. CASE UNCHANGED vars
    <2>1. UNCHANGED cmdqVars /\ UNCHANGED <<daemon, line, phase, call, loaded, request, answer>>
      BY <1>6 DEF vars, clientVars
    <2>2. Wire'
      BY <2>1 DEF Wire, WireTypes, LineDistinct, WireOf, InLine, Begun, Alive
    <2>3. QED
      BY <1>3, <2>1, <2>2
  <1>7. QED
    BY <1>1, <1>2, <1>4, <1>5, <1>6 DEF Next

(***************************************************************************)
(* Effects of the calls that go to another component than the queue.       *)
(***************************************************************************)
UnderWay == {c \in Clients : phase[c] = "sent" /\ call[c].op \in OtherCalls}
Unserved == {c \in Clients : request[c].kind \in OtherCalls}
Unread == {c \in UnderWay : answer[c] # NoMessage}

\* A call is done before its answer is read, and until it is done its request waits
\* or its client has given it up.
EffectsBalance ==
    /\ tally \in Tallies
    /\ tally.reported + Cardinality(Unread) <= tally.done
    /\ tally.done + Cardinality(Unserved)
          <= tally.reported + tally.unreported + Cardinality(UnderWay)

\* The sets of clients that the balance counts.
LEMMA CountedClients ==
    ASSUME NEW S \in SUBSET Clients, NEW c
    PROVE  /\ IsFiniteSet(S) /\ Cardinality(S) \in Nat
           /\ Cardinality(S \cup {c}) = Cardinality(S) + IF c \in S THEN 0 ELSE 1
           /\ Cardinality(S \ {c}) = Cardinality(S) - IF c \in S THEN 1 ELSE 0
           /\ IsFiniteSet(S \cup {c})
           /\ \A T \in SUBSET S : Cardinality(T) <= Cardinality(S)
  BY EndpointConfigValid, FS_Subset, FS_CardinalityType, FS_AddElement, FS_RemoveElement

Counted(S, c) == IF c \in S THEN 1 ELSE 0

LEMMA RestAndOne ==
    ASSUME NEW S \in SUBSET Clients, NEW T \in SUBSET Clients, NEW c, S \ {c} = T \ {c}
    PROVE  Cardinality(T) = Cardinality(S) + Counted(T, c) - Counted(S, c)
  <1>1. Cardinality(S \ {c}) = Cardinality(S) - Counted(S, c)
    BY CountedClients DEF Counted
  <1>2. Cardinality(T \ {c}) = Cardinality(T) - Counted(T, c)
    BY CountedClients DEF Counted
  <1>3. Cardinality(S) \in Nat /\ Cardinality(T) \in Nat
    BY CountedClients
  <1>4. Counted(S, c) \in 0..1 /\ Counted(T, c) \in 0..1
    BY DEF Counted
  <1>5. Cardinality(S) - Counted(S, c) = Cardinality(T) - Counted(T, c)
    BY <1>1, <1>2
  <1>6. QED
    BY <1>3, <1>4, <1>5

LEMMA InitEffects == Init => EffectsBalance
  <1> SUFFICES ASSUME Init
               PROVE  EffectsBalance
    OBVIOUS
  <1>1. UnderWay = {} /\ Unread = {}
    BY DEF Init, UnderWay, Unread
  <1>2. Unserved = {}
    BY OpKinds, MessageKinds DEF Init, Unserved, NoMessage, OtherCalls, RegisterCalls,
       DmaCalls, FabricCalls, KvWrites, KvReads, ReadCalls
  <1>3. Cardinality({}) = 0
    BY FS_EmptySet
  <1>4. QED
    BY <1>1, <1>2, <1>3 DEF Init, EffectsBalance, Tallies

\* A step changes what is counted of one client only.
OnlyOf(c) ==
    \A d \in Clients \ {c} :
        /\ phase'[d] = phase[d] /\ call'[d] = call[d]
        /\ request'[d] = request[d] /\ answer'[d] = answer[d]

LEMMA BalanceStep ==
    ASSUME EffectsBalance, NEW c, OnlyOf(c), tally' \in Tallies,
           tally'.reported + Counted(Unread', c) + tally.done
               <= tally'.done + tally.reported + Counted(Unread, c),
           tally'.done + Counted(Unserved', c) + Counted(UnderWay, c)
                 + tally.reported + tally.unreported
               <= tally'.reported + tally'.unreported + Counted(UnderWay', c)
                 + tally.done + Counted(Unserved, c)
    PROVE  EffectsBalance'
  <1>1. /\ UnderWay \in SUBSET Clients /\ UnderWay' \in SUBSET Clients
        /\ Unserved \in SUBSET Clients /\ Unserved' \in SUBSET Clients
        /\ Unread \in SUBSET Clients /\ Unread' \in SUBSET Clients
    BY DEF UnderWay, Unserved, Unread
  <1>2. /\ UnderWay \ {c} = UnderWay' \ {c} /\ Unserved \ {c} = Unserved' \ {c}
        /\ Unread \ {c} = Unread' \ {c}
    BY DEF OnlyOf, UnderWay, Unserved, Unread
  <1>3. /\ Cardinality(UnderWay)' = Cardinality(UnderWay) + Counted(UnderWay', c) - Counted(UnderWay, c)
        /\ Cardinality(Unserved)' = Cardinality(Unserved) + Counted(Unserved', c) - Counted(Unserved, c)
        /\ Cardinality(Unread)' = Cardinality(Unread) + Counted(Unread', c) - Counted(Unread, c)
    BY <1>1, <1>2, RestAndOne
  <1>4. /\ Cardinality(UnderWay) \in Nat /\ Cardinality(Unserved) \in Nat
        /\ Cardinality(Unread) \in Nat
    BY <1>1, CountedClients
  <1>5. \A S : Counted(S, c) \in 0..1
    BY DEF Counted
  <1>6. QED
    BY <1>3, <1>4, <1>5 DEF EffectsBalance, Tallies

\* How a client is counted, by what it has sent and what was sent to it.
LEMMA CountedAs ==
    ASSUME NEW c \in Clients
    PROVE  /\ Counted(UnderWay, c) =
                  IF phase[c] = "sent" /\ call[c].op \in OtherCalls THEN 1 ELSE 0
           /\ Counted(Unserved, c) = IF request[c].kind \in OtherCalls THEN 1 ELSE 0
           /\ Counted(Unread, c) =
                  IF phase[c] = "sent" /\ call[c].op \in OtherCalls /\ answer[c] # NoMessage
                  THEN 1 ELSE 0
           /\ Counted(UnderWay', c) =
                  IF phase'[c] = "sent" /\ call'[c].op \in OtherCalls THEN 1 ELSE 0
           /\ Counted(Unserved', c) = IF request'[c].kind \in OtherCalls THEN 1 ELSE 0
           /\ Counted(Unread', c) =
                  IF phase'[c] = "sent" /\ call'[c].op \in OtherCalls /\ answer'[c] # NoMessage
                  THEN 1 ELSE 0
  BY DEF Counted, UnderWay, Unserved, Unread

LEMMA RequestKinds ==
    ASSUME Wire, NEW c \in Clients
    PROVE  /\ request[c].kind \in OtherCalls =>
                 request[c] # NoMessage /\ request[c].op = request[c].kind
           /\ request[c] # NoMessage /\ request[c].op \in OtherCalls =>
                 request[c].kind \in OtherCalls
           /\ call[c].op \in OtherCalls => call[c].stage \in OtherCalls
  <1>1. WireOf(c) /\ NoMessage.kind \notin OtherCalls /\ NoCall.op \notin OtherCalls
    BY OpKinds DEF Wire, NoMessage, NoCall, OtherCalls, RegisterCalls, DmaCalls,
                   FabricCalls, KvWrites, KvReads, ReadCalls
  <1>2. QED
    BY <1>1, OpKinds DEF WireOf, Shape

\* The daemon answers one client, and has done what it was asked for.
LEMMA RespondCounts ==
    ASSUME Wire, NEW kind, Requested(kind), kind # "none", NEW m \in Answers, Respond(m)
    PROVE  /\ OnlyOf(Served) /\ Served \in Clients
           /\ Counted(UnderWay', Served) = Counted(UnderWay, Served)
           /\ Counted(Unserved', Served) = 0 /\ Counted(Unread, Served) = 0
           /\ Counted(Unserved, Served) = IF kind \in OtherCalls THEN 1 ELSE 0
           /\ kind \notin OtherCalls => Counted(Unread', Served) = 0
           /\ Counted(Unread', Served) \in {0, 1}
  <1> DEFINE c == Served
  <1>1. /\ c \in Clients /\ request[c] # NoMessage /\ request[c].kind = kind /\ WireOf(c)
        /\ WireTypes
    BY RequestedMeans DEF Wire
  <1>2. /\ request' = [request EXCEPT ![c] = NoMessage]
        /\ answer' = IF Alive(c) THEN [answer EXCEPT ![c] = m] ELSE answer
        /\ phase' = phase /\ call' = call
    BY DEF Respond, clientVars
  <1> HIDE DEF c
  <1>3. OnlyOf(c) /\ request'[c] = NoMessage
    BY <1>1, <1>2 DEF OnlyOf, WireTypes
  <1>4. NoMessage.kind \notin OtherCalls
    BY DEF NoMessage, OtherCalls, RegisterCalls, DmaCalls, FabricCalls, KvWrites, KvReads, ReadCalls
  <1>5. phase[c] = "sent" => answer[c] = NoMessage /\ request[c].kind = call[c].stage
    BY <1>1 DEF WireOf
  <1>6. call[c].op \in OtherCalls => call[c].stage \in OtherCalls
    BY <1>1, RequestKinds
  <1>7. QED
    BY <1>1, <1>2, <1>3, <1>4, <1>5, <1>6, CountedAs DEF c

LEMMA ServeEffects ==
    ASSUME CmdqInv, QueueOrder, Wire, EffectsBalance, Serve
    PROVE  EffectsBalance'
  <1>0. tally \in Tallies /\ OkAnswers \subseteq Answers /\ FailedAnswer \in Answers
    BY DEF EffectsBalance, Answers
  <1>1. ASSUME NEW kind, Requested(kind), kind \in Operations, kind \notin OtherCalls,
               NEW m \in Answers, Respond(m), tally' = tally
        PROVE  EffectsBalance'
    <2>1. kind # "none"
      BY <1>1, OpKinds DEF Operations
    <2>2. /\ OnlyOf(Served) /\ Served \in Clients
          /\ Counted(UnderWay', Served) = Counted(UnderWay, Served)
          /\ Counted(Unserved', Served) = 0 /\ Counted(Unread, Served) = 0
          /\ Counted(Unserved, Served) = 0 /\ Counted(Unread', Served) = 0
      BY <1>1, <2>1, RespondCounts
    <2>3. Counted(UnderWay, Served) \in {0, 1}
      BY DEF Counted
    <2>4. QED
      BY <1>0, <1>1, <2>2, <2>3, BalanceStep DEF Tallies
  <1>2. CASE ServeSubmit \/ ServeDispatch \/ ServePoll
    <2>1. \E kind \in {"submit", "dispatch", "poll"}, m \in Answers :
              Requested(kind) /\ Respond(m) /\ tally' = tally
      BY <1>0, <1>2, ServeSubmitCases, ServeDispatchCases, ServePollCases
    <2>2. QED
      BY <1>1, <2>1, OpKinds DEF Operations
  <1>3. CASE ServeOther
    <2>1. PICK kind \in CallArgs \cup {"shutdown"} : Requested(kind) /\ kind # "none"
      BY <1>3, ServeOtherCases
    <2>2. request[Served].kind = kind
      BY <2>1 DEF Requested
    <2>3. OkAnswer(0, 0) \in Answers /\ Respond(OkAnswer(0, 0))
      BY <1>0, <1>3, ServeOtherCases
    <2>4. CASE kind = "shutdown"
      <3>1. tally' = tally
        BY <1>3, <2>2, <2>4 DEF ServeOther
      <3>2. QED
        BY <1>1, <2>1, <2>3, <2>4, <3>1, OpKinds DEF Operations
    <2>5. CASE kind # "shutdown"
      <3>1. tally' = [tally EXCEPT !.done = @ + 1] /\ kind \in OtherCalls
        BY <1>3, <2>1, <2>2, <2>5, OpKinds DEF ServeOther
      <3>2. /\ OnlyOf(Served) /\ Served \in Clients
            /\ Counted(UnderWay', Served) = Counted(UnderWay, Served)
            /\ Counted(Unserved', Served) = 0 /\ Counted(Unread, Served) = 0
            /\ Counted(Unserved, Served) = 1 /\ Counted(Unread', Served) \in {0, 1}
        BY <2>1, <2>3, <3>1, RespondCounts
      <3>3. Counted(UnderWay, Served) \in {0, 1}
        BY DEF Counted
      <3>4. QED
        BY <1>0, <3>1, <3>2, <3>3, BalanceStep DEF Tallies
    <2>6. QED
      BY <2>4, <2>5
  <1>4. QED
    BY <1>2, <1>3 DEF Serve

LEMMA ClientEffects ==
    ASSUME Wire, EffectsBalance, NEW c \in Clients, ClientStep(c)
    PROVE  EffectsBalance'
  <1>0. /\ WireTypes /\ WireOf(c) /\ tally \in Tallies
        /\ NoCall.op \notin OtherCalls /\ NoMessage.kind \notin OtherCalls
    BY OpKinds DEF Wire, EffectsBalance, NoCall, NoMessage, OtherCalls, RegisterCalls,
                   DmaCalls, FabricCalls, KvWrites, KvReads, ReadCalls
  <1>1. ASSUME NEW S
        PROVE  Counted(S, c) \in {0, 1}
    BY DEF Counted
  <1>2. ASSUME OnlyOf(c), tally' = tally,
               Counted(Unread', c) = Counted(Unread, c),
               Counted(UnderWay', c) - Counted(UnderWay, c)
                   = Counted(Unserved', c) - Counted(Unserved, c)
        PROVE  EffectsBalance'
    BY <1>0, <1>1, <1>2, BalanceStep DEF Tallies
  <1>3. CASE Connect(c)
    <2>1. /\ phase[c] = "out" /\ phase' = [phase EXCEPT ![c] = "idle"]
          /\ UNCHANGED <<call, request, answer, tally>>
      BY <1>3 DEF Connect
    <2>2. OnlyOf(c) /\ phase'[c] = "idle"
      BY <1>0, <2>1 DEF OnlyOf, WireTypes
    <2>3. QED
      BY <1>2, <2>1, <2>2, CountedAs
  <1>4. ASSUME NEW op, NEW stage, Beginning(c, op, stage)
        PROVE  EffectsBalance'
    <2>1. /\ phase[c] = "idle" /\ tally' = [tally EXCEPT !.begun = @ + 1]
          /\ \E r : call' = [call EXCEPT ![c] = r]
          /\ UNCHANGED <<phase, request, answer>>
      BY <1>4 DEF Beginning, Begin
    <2>2. OnlyOf(c)
      BY <1>0, <2>1 DEF OnlyOf, WireTypes
    <2>3. /\ Counted(Unread', c) = 0 /\ Counted(Unread, c) = 0
          /\ Counted(UnderWay', c) = 0 /\ Counted(UnderWay, c) = 0
          /\ Counted(Unserved', c) = Counted(Unserved, c)
      BY <2>1, CountedAs
    <2>4. tally' \in Tallies /\ tally'.done = tally.done
          /\ tally'.reported = tally.reported /\ tally'.unreported = tally.unreported
      BY <1>0, <2>1 DEF Tallies
    <2>5. QED
      BY <1>0, <1>1, <2>2, <2>3, <2>4, BalanceStep DEF Tallies
  <1>5. CASE Send(c)
    <2>1. /\ phase[c] = "idle" /\ call[c] # NoCall /\ answer' = answer /\ tally' = tally
          /\ request[c] = NoMessage /\ answer[c] = NoMessage
      BY <1>0, <1>5 DEF Send, WireOf
    <2>2. CASE daemon = "down"
      <3>1. /\ call' = [call EXCEPT ![c] = NoCall] /\ request' = request
            /\ \E p \in {"gone", "idle"} : phase' = [phase EXCEPT ![c] = p]
        BY <1>5, <2>2 DEF Send
      <3>2. OnlyOf(c) /\ phase'[c] # "sent"
        BY <1>0, <2>1, <3>1 DEF OnlyOf, WireTypes
      <3>3. QED
        BY <1>2, <2>1, <3>1, <3>2, CountedAs
    <2>3. CASE daemon # "down"
      <3>1. /\ request' = [request EXCEPT ![c] = [kind |-> call[c].stage, op |-> call[c].op]]
            /\ phase' = [phase EXCEPT ![c] = "sent"] /\ call' = call
        BY <1>5, <2>3 DEF Send
      <3>2. OnlyOf(c) /\ phase'[c] = "sent" /\ request'[c].kind = call[c].stage
        BY <1>0, <2>1, <3>1 DEF OnlyOf, WireTypes
      <3>3. call[c].op \in OtherCalls <=> call[c].stage \in OtherCalls
        BY <1>0, <2>1, OpKinds DEF WireOf, Shape
      <3>4. Counted(Unread', c) = 0 /\ Counted(Unread, c) = 0
        BY <2>1, <3>2, CountedAs
      <3>5. Counted(UnderWay, c) = 0 /\ Counted(Unserved, c) = 0
        BY <1>0, <2>1, CountedAs
      <3>6. Counted(UnderWay', c) = Counted(Unserved', c)
        BY <3>1, <3>2, <3>3, CountedAs
      <3>7. QED
        BY <1>1, <1>2, <2>1, <3>2, <3>4, <3>5, <3>6
    <2>4. QED
      BY <2>2, <2>3
  <1>6. CASE Receive(c)
    <2>1. /\ ClientMoves(c) /\ phase[c] = "sent" /\ answer[c] \in Answers
          /\ answer'[c] = NoMessage /\ request' = request /\ phase'[c] # "sent"
      BY <1>6, ReceiveMoves
    <2>2. tally' = [tally EXCEPT !.reported = @ + IF call[c].op \in OtherCalls THEN 1 ELSE 0]
      BY <1>6 DEF Receive
    <2>3. OnlyOf(c) /\ answer[c] # NoMessage
      BY <2>1, MessageKinds DEF ClientMoves, OnlyOf
    <2>4. /\ Counted(Unread', c) = 0 /\ Counted(UnderWay', c) = 0
          /\ Counted(Unserved', c) = Counted(Unserved, c)
      BY <2>1, CountedAs
    <2>5. CASE call[c].op \in OtherCalls
      <3>1. Counted(Unread, c) = 1 /\ Counted(UnderWay, c) = 1
        BY <2>1, <2>3, <2>5, CountedAs
      <3>2. tally' \in Tallies /\ tally'.done = tally.done
            /\ tally'.reported = tally.reported + 1 /\ tally'.unreported = tally.unreported
        BY <1>0, <2>2, <2>5 DEF Tallies
      <3>3. QED
        BY <1>0, <1>1, <2>3, <2>4, <3>1, <3>2, BalanceStep DEF Tallies
    <2>6. CASE call[c].op \notin OtherCalls
      <3>1. Counted(Unread, c) = 0 /\ Counted(UnderWay, c) = 0
        BY <2>6, CountedAs
      <3>2. tally' \in Tallies /\ tally'.done = tally.done
            /\ tally'.reported = tally.reported /\ tally'.unreported = tally.unreported
        BY <1>0, <2>2, <2>6 DEF Tallies
      <3>3. QED
        BY <1>0, <1>1, <2>3, <2>4, <3>1, <3>2, BalanceStep DEF Tallies
    <2>7. QED
      BY <2>5, <2>6
  <1>7. ASSUME OnlyOf(c), request'[c] \in {request[c], NoMessage}, phase'[c] # "sent",
               tally' = [tally EXCEPT !.unreported =
                            @ + IF phase[c] = "sent" /\ call[c].op \in OtherCalls THEN 1 ELSE 0]
        PROVE  EffectsBalance'
    <2>1. /\ Counted(Unread', c) = 0 /\ Counted(UnderWay', c) = 0
          /\ Counted(Unserved', c) = Counted(Unserved, c) \/ Counted(Unserved', c) = 0
      BY <1>0, <1>7, CountedAs
    <2>2. CASE phase[c] = "sent" /\ call[c].op \in OtherCalls
      <3>1. Counted(UnderWay, c) = 1
        BY <2>2, CountedAs
      <3>2. tally' \in Tallies /\ tally'.done = tally.done
            /\ tally'.reported = tally.reported /\ tally'.unreported = tally.unreported + 1
        BY <1>0, <1>7, <2>2 DEF Tallies
      <3>3. QED
        BY <1>0, <1>1, <1>7, <2>1, <3>1, <3>2, BalanceStep DEF Tallies
    <2>3. CASE ~(phase[c] = "sent" /\ call[c].op \in OtherCalls)
      <3>1. Counted(UnderWay, c) = 0 /\ Counted(Unread, c) = 0
        BY <2>3, CountedAs
      <3>2. tally' \in Tallies /\ tally'.done = tally.done
            /\ tally'.reported = tally.reported /\ tally'.unreported = tally.unreported
        BY <1>0, <1>7, <2>3 DEF Tallies
      <3>3. QED
        BY <1>0, <1>1, <1>7, <2>1, <3>1, <3>2, BalanceStep DEF Tallies
    <2>4. QED
      BY <2>2, <2>3
  <1>8. CASE ReceiveNothing(c)
    <2>1. /\ ClientMoves(c) /\ phase[c] = "sent" /\ request'[c] = NoMessage
          /\ phase'[c] # "sent"
          /\ tally' = [tally EXCEPT !.unreported = @ + IF call[c].op \in OtherCalls THEN 1 ELSE 0]
      BY <1>8, ReceiveNothingWire DEF ReceiveNothing
    <2>2. QED
      BY <1>7, <2>1 DEF ClientMoves, OnlyOf
  <1>9. CASE Destroy(c)
    <2>1. /\ ClientMoves(c) /\ phase[c] = "idle" /\ tally' = tally
          /\ UNCHANGED <<phase, request, answer>>
      BY <1>9, DestroyWire DEF Destroy
    <2>2. OnlyOf(c)
      BY <2>1 DEF ClientMoves, OnlyOf
    <2>3. QED
      BY <1>2, <2>1, <2>2, CountedAs
  <1>10. CASE Die(c)
    <2>1. /\ ClientMoves(c) /\ request' = request /\ phase'[c] = "gone"
          /\ tally' = [tally EXCEPT !.unreported =
                          @ + IF phase[c] = "sent" /\ call[c].op \in OtherCalls THEN 1 ELSE 0]
      BY <1>10, DieWire DEF Die
    <2>2. QED
      BY <1>7, <2>1 DEF ClientMoves, OnlyOf
  <1>11. QED
    BY <1>3, <1>4, <1>5, <1>6, <1>8, <1>9, <1>10, ClientCases

LEMMA NextEffects ==
    ASSUME CmdqInv, QueueOrder, Wire, EffectsBalance, [Next]_vars
    PROVE  EffectsBalance'
  <1>1. ASSUME UNCHANGED <<phase, call, request, answer, tally>>
        PROVE  EffectsBalance'
    <2>1. UnderWay' = UnderWay /\ Unserved' = Unserved /\ Unread' = Unread /\ tally' = tally
      BY <1>1 DEF UnderWay, Unserved, Unread
    <2>2. QED
      BY <2>1 DEF EffectsBalance
  <1>2. CASE Boot
    BY <1>1, <1>2 DEF Boot, clientVars
  <1>3. CASE Serve
    BY <1>3, ServeEffects
  <1>4. CASE NextClient
    BY <1>1, <1>4 DEF NextClient, clientVars
  <1>5. ASSUME NEW c \in Clients, ClientStep(c)
        PROVE  EffectsBalance'
    BY <1>5, ClientEffects
  <1>6. CASE UNCHANGED vars
    BY <1>1, <1>6 DEF vars, clientVars
  <1>7. QED
    BY <1>2, <1>3, <1>4, <1>5, <1>6 DEF Next

EndpointInv == CmdqInv /\ QueueOrder /\ Wire /\ EffectsBalance

\* The daemon's queue is in order, the wire carries one request or one answer for each
\* client, and every call's effect is accounted for, at all times
\* (serve_client, endpoint_roundtrip).
THEOREM EndpointInductive == Spec => []EndpointInv
  <1>1. Init => EndpointInv
    BY CmdqInitInv, InitQueueOrder, InitWire, InitEffects DEF Init, EndpointInv
  <1>2. EndpointInv /\ [Next]_vars => EndpointInv'
    BY NextWire, NextEffects DEF EndpointInv
  <1>3. QED
    BY <1>1, <1>2, PTL DEF Spec

\* A call that reported success took effect, and no call took effect twice, whoever
\* died between request and answer (serve_client, endpoint_roundtrip).
THEOREM CallsTakeEffectOnce == Spec => []EffectsOnce
  <1>1. EndpointInv => EffectsOnce
    <2> SUFFICES ASSUME EndpointInv
                 PROVE  EffectsOnce
      OBVIOUS
    <2>1. UnderWay \in SUBSET Clients /\ Unserved \in SUBSET Clients /\ Unread \in SUBSET Clients
      BY DEF UnderWay, Unserved, Unread
    <2>2. /\ Cardinality(UnderWay) \in Nat /\ Cardinality(Unserved) \in Nat
          /\ Cardinality(Unread) \in Nat
      BY <2>1, CountedClients
    <2>3. /\ tally.reported <= tally.done
          /\ tally.done <= tally.reported + tally.unreported + Cardinality(UnderWay)
      BY <2>2 DEF EndpointInv, EffectsBalance, Tallies
    <2>4. QED
      BY <2>3 DEF EffectsOnce, UnderWay
  <1>2. QED
    BY <1>1, EndpointInductive, PTL

(***************************************************************************)
(* Weights.  The commands of a backend that has registered its weight come *)
(* right after that registration, before those of any other backend.       *)
(***************************************************************************)
WorkTypes ==
    /\ work \in Seq(Works) /\ Len(work) = nextId - 1
    /\ tensor \in Clients \cup {Nobody}

\* The client's registration has been submitted, and all that follows is the client's.
HasLoaded(c) ==
    \E j \in 1..Len(work) :
        /\ work[j].op = "load"
        /\ \A m \in j..Len(work) : work[m].client = c

NeedsLoad(c) ==
    \/ loaded[c] \/ call[c].op = "run"
    \/ request[c] # NoMessage /\ request[c].op = "run"
    \/ call[c].op = "load" /\ (call[c].stage # "submit" \/ answer[c].kind = "ok")

RunsFollowLoads ==
    \A k \in 1..Len(work) : work[k].op = "run" =>
        \E j \in 1..k - 1 :
            /\ work[j].op = "load"
            /\ \A m \in j..k : work[m].client = work[k].client

\* What the daemon keeps is the weight of the last registration executed.
LastLoadIsKept ==
    \/ \A i \in 1..DoneUpTo : work[i].op # "load"
    \/ \E j \in 1..DoneUpTo :
          /\ work[j].op = "load" /\ tensor = work[j].client
          /\ \A i \in j + 1..DoneUpTo : work[i].op # "load"

LoadsKnown == \A c \in Clients : InLine(c) /\ NeedsLoad(c) => HasLoaded(c)

Weights == WorkTypes /\ RunsFollowLoads /\ LastLoadIsKept /\ LoadsKnown

LEMMA InitWeights == Init => Weights
  <1> SUFFICES ASSUME Init
               PROVE  Weights
    OBVIOUS
  <1>1. nextId = 1 /\ work = <<>> /\ tensor = Nobody /\ line = <<>>
    BY DEF Init, CmdqInit
  <1>2. WorkTypes /\ RunsFollowLoads /\ LoadsKnown
    BY <1>1 DEF WorkTypes, RunsFollowLoads, LoadsKnown, InLine
  <1>3. DoneUpTo = 0
    <2>1. 0 - 0 = 0 /\ 0 % CmdDepth = 0
      BY ModSmall, DepthTypes
    <2>2. QED
      BY <2>1 DEF Init, CmdqInit, CmdUsed, DoneUpTo
  <1>4. QED
    BY <1>2, <1>3 DEF Weights, LastLoadIsKept

\* A client that needs its weight has been answered before, and is the one served.
LEMMA NeedsLoadIsServed ==
    ASSUME Wire, NEW c \in Clients, InLine(c), NeedsLoad(c)
    PROVE  c = Head(line)
  <1>1. WireOf(c) /\ NoCall.op = "none"
    BY DEF Wire, NoCall
  <1>2. call[c].op = "load" => call[c].stage \in {"submit", "dispatch", "poll"}
    BY <1>1, OpKinds DEF WireOf, Shape
  <1>3. answer[c].kind = "ok" => answer[c] # NoMessage
    BY DEF NoMessage
  <1>4. Begun(c)
    BY <1>2, <1>3 DEF NeedsLoad, Begun
  <1>5. QED
    BY <1>1, <1>4 DEF WireOf

LEMMA RespondNeeds ==
    ASSUME Wire, NEW kind, Requested(kind), kind # "none", NEW m \in Answers, Respond(m),
           NEW s, s = Served
    PROVE  /\ \A c \in Clients \ {s} : (NeedsLoad(c))' = NeedsLoad(c)
           /\ (NeedsLoad(s))' =>
                 \/ NeedsLoad(s)
                 \/ kind = "submit" /\ m.kind = "ok" /\ request[s].op = "load"
           /\ \A c : (InLine(c))' = InLine(c)
  <1>1. /\ s \in Clients /\ request[s] # NoMessage /\ request[s].kind = kind /\ WireOf(s)
        /\ WireTypes /\ NoCall.op = "none" /\ NoCall.stage = "none"
    BY RequestedMeans DEF Wire, NoCall
  <1>2. /\ request' = [request EXCEPT ![s] = NoMessage]
        /\ answer' = IF Alive(s) THEN [answer EXCEPT ![s] = m] ELSE answer
        /\ phase' = phase /\ call' = call /\ loaded' = loaded /\ line' = line
    BY DEF Respond, clientVars
  <1>3. request'[s] = NoMessage /\ answer'[s] = IF Alive(s) THEN m ELSE answer[s]
    BY <1>1, <1>2 DEF WireTypes
  <1>4. call[s] # NoCall /\ Alive(s) =>
            phase[s] = "sent" /\ request[s].kind = call[s].stage /\ request[s].op = call[s].op
    BY <1>1 DEF WireOf, Alive
  <1>5. ~Alive(s) => call[s] = NoCall
    BY <1>1 DEF WireOf, Alive, WireTypes
  <1>6. ASSUME NeedsLoad(s)', ~NeedsLoad(s)
        PROVE  kind = "submit" /\ m.kind = "ok" /\ request[s].op = "load"
    <2>1. /\ call[s].op = "load" /\ call[s].stage = "submit"
          /\ answer[s].kind # "ok" /\ answer'[s].kind = "ok"
      BY <1>2, <1>3, <1>6 DEF NeedsLoad
    <2>2. call[s] # NoCall /\ Alive(s)
      BY <1>1, <1>5, <2>1
    <2>3. QED
      BY <1>1, <1>3, <1>4, <2>1, <2>2
  <1>7. \A c \in Clients \ {s} : (NeedsLoad(c))' = NeedsLoad(c)
    BY <1>1, <1>2 DEF NeedsLoad, WireTypes
  <1>8. \A c : (InLine(c))' = InLine(c)
    BY <1>2 DEF InLine
  <1>9. QED
    BY <1>6, <1>7, <1>8

\* What a backend needs lasts while the work and the daemon's weight do.
LEMMA WeightsLast ==
    ASSUME Weights, work' = work, tensor' = tensor, nextId' = nextId, DoneUpTo' = DoneUpTo,
           \A c \in Clients : (InLine(c) /\ NeedsLoad(c))' => InLine(c) /\ NeedsLoad(c)
    PROVE  Weights'
  <1>1. \A c : (HasLoaded(c))' = HasLoaded(c)
    BY DEF HasLoaded
  <1>2. WorkTypes' /\ RunsFollowLoads' /\ LastLoadIsKept'
    BY DEF Weights, WorkTypes, RunsFollowLoads, LastLoadIsKept
  <1>3. QED
    BY <1>1, <1>2 DEF Weights, LoadsKnown

\* A command submitted is its client's; one with a weight follows the registration.
LEMMA SubmitWeights ==
    ASSUME CmdqInv, QueueOrder, Wire, Weights, ServeSubmit
    PROVE  Weights'
  <1> DEFINE s == Served
             w == [client |-> s, op |-> request[s].op]
             n == Len(work)
  <1>0. OkAnswers \subseteq Answers /\ FailedAnswer \in Answers
    BY DEF Answers
  <1>1. /\ Requested("submit") /\ s \in Clients /\ InLine(s) /\ s = Head(line)
        /\ request[s] # NoMessage /\ Shape(request[s].op, "submit")
        /\ tensor' = tensor
    BY ServeSubmitCases, RequestedMeans DEF WireOf
  <1>2. CASE Respond(FailedAnswer) /\ UNCHANGED <<table, work, cmdVars, compVars>>
             /\ CmdUsed' = CmdUsed
    <2>1. \A c \in Clients : (InLine(c) /\ NeedsLoad(c))' => InLine(c) /\ NeedsLoad(c)
      BY <1>0, <1>1, <1>2, RespondNeeds, MessageKinds
    <2>2. nextId' = nextId /\ DoneUpTo' = DoneUpTo
      BY <1>2 DEF cmdVars, DoneUpTo
    <2>3. QED
      BY <1>1, <1>2, <2>1, <2>2, WeightsLast
  <1>3. CASE /\ Respond(OkAnswer(nextId, 0)) /\ OkAnswer(nextId, 0) \in OkAnswers
             /\ Submit(0, "exec", FALSE) /\ work' = Append(work, w)
    <2>1. /\ \A c \in Clients \ {s} : (NeedsLoad(c))' = NeedsLoad(c)
          /\ (NeedsLoad(s))' => NeedsLoad(s) \/ w.op = "load"
          /\ \A c : (InLine(c))' = InLine(c)
      <3>1. \A t : t = s => /\ \A c \in Clients \ {t} : (NeedsLoad(c))' = NeedsLoad(c)
                            /\ (NeedsLoad(t))' => NeedsLoad(t) \/ w.op = "load"
                            /\ \A c : (InLine(c))' = InLine(c)
        BY <1>0, <1>1, <1>3, RespondNeeds
      <3>2. s' = s
        BY <1>3 DEF Respond, Served
      <3>3. QED
        BY <3>1, <3>2
    <2>2. /\ nextId' = nextId + 1 /\ DoneUpTo' = DoneUpTo /\ DoneUpTo \in Nat
          /\ nextId \in Nat \ {0} /\ CmdUsed \in Nat
      BY <1>3, SubmitOrder, QueueNumbers DEF QueueOrder
    <2>3. w \in Works /\ w.client = s
      BY <1>1, ShapeTypes DEF Works
    <2>4. /\ n \in Nat /\ n = nextId - 1 /\ work \in Seq(Works)
          /\ tensor \in Clients \cup {Nobody}
      BY DEF Weights, WorkTypes
    <2>5. s' = s
      BY <1>3 DEF Respond, Served
    <2>6. w.op = "run" => NeedsLoad(s)
      BY <1>1 DEF NeedsLoad
    <2> HIDE DEF w, s
    <2>7. /\ work' \in Seq(Works) /\ Len(work') = n + 1 /\ work'[n + 1] = w
          /\ \A k \in 1..n : work'[k] = work[k]
      BY <1>3, <2>3, <2>4
    <2>8. WorkTypes'
      BY <1>1, <2>2, <2>4, <2>7 DEF WorkTypes
    <2>9. HasLoaded(s) => \E j \in 1..n : work'[j].op = "load" /\ \A m \in j..n + 1 : work'[m].client = s
      <3>1. ASSUME HasLoaded(s)
            PROVE  \E j \in 1..n : work'[j].op = "load" /\ \A m \in j..n + 1 : work'[m].client = s
        <4>1. PICK j \in 1..n : work[j].op = "load" /\ \A m \in j..n : work[m].client = s
          BY <3>1 DEF HasLoaded
        <4>2. ASSUME NEW m \in j..n + 1
              PROVE  work'[m].client = s
          <5>1. (m \in j..n /\ m \in 1..n) \/ m = n + 1
            BY <2>4, <4>1, <4>2
          <5>2. QED
            BY <2>3, <2>7, <4>1, <5>1
        <4>3. QED
          BY <2>7, <4>1, <4>2
      <3>2. QED
        BY <3>1
    <2>10. InLine(s) /\ NeedsLoad(s) => HasLoaded(s)
      BY <1>1 DEF Weights, LoadsKnown
    <2>11. RunsFollowLoads'
      <3>1. ASSUME NEW k \in 1..n + 1, work'[k].op = "run"
            PROVE  \E j \in 1..k - 1 : work'[j].op = "load"
                                       /\ \A m \in j..k : work'[m].client = work'[k].client
        <4>1. CASE k \in 1..n
          <5>1. work[k].op = "run"
            BY <2>7, <3>1, <4>1
          <5>2. PICK j \in 1..k - 1 : work[j].op = "load"
                                     /\ \A m \in j..k : work[m].client = work[k].client
            BY <4>1, <5>1 DEF Weights, RunsFollowLoads
          <5>3. j \in 1..n /\ \A m \in j..k : m \in 1..n
            BY <2>4, <4>1, <5>2
          <5>4. QED
            BY <2>7, <4>1, <5>2, <5>3
        <4>2. CASE k = n + 1
          <5>1. w.op = "run"
            BY <2>7, <3>1, <4>2
          <5>2. k - 1 = n
            BY <2>4, <4>2
          <5>3. QED
            BY <1>1, <2>3, <2>6, <2>7, <2>9, <2>10, <4>2, <5>1, <5>2
        <4>3. QED
          BY <2>4, <4>1, <4>2
      <3>2. QED
        BY <2>7, <3>1 DEF RunsFollowLoads
    <2>12. LastLoadIsKept'
      <3>1. DoneUpTo <= n
        BY <2>2, <2>4 DEF DoneUpTo
      <3>2. \A i \in 1..DoneUpTo : i \in 1..n
        BY <2>2, <2>4, <3>1
      <3>3. CASE \A i \in 1..DoneUpTo : work[i].op # "load"
        BY <2>2, <2>7, <3>2, <3>3 DEF LastLoadIsKept
      <3>4. CASE \E j \in 1..DoneUpTo :
                    /\ work[j].op = "load" /\ tensor = work[j].client
                    /\ \A i \in j + 1..DoneUpTo : work[i].op # "load"
        <4>1. PICK j \in 1..DoneUpTo :
                    /\ work[j].op = "load" /\ tensor = work[j].client
                    /\ \A i \in j + 1..DoneUpTo : work[i].op # "load"
          BY <3>4
        <4>2. \A i \in j + 1..DoneUpTo : i \in 1..n
          BY <2>2, <2>4, <3>1
        <4>3. QED
          BY <1>1, <2>2, <2>7, <3>2, <4>1, <4>2 DEF LastLoadIsKept
      <3>5. QED
        BY <3>3, <3>4 DEF Weights, LastLoadIsKept
    <2>13. ASSUME NEW c \in Clients, InLine(c)', NeedsLoad(c)'
           PROVE  HasLoaded(c)'
      <3>1. CASE c = s /\ w.op = "load"
        <4>1. n + 1 \in 1..n + 1 /\ \A m \in n + 1..n + 1 : m = n + 1
          BY <2>4
        <4>2. QED
          BY <2>3, <2>7, <3>1, <4>1 DEF HasLoaded
      <3>2. CASE c = s /\ w.op # "load"
        <4>1. HasLoaded(s)
          BY <2>1, <2>5, <2>10, <2>13, <3>2
        <4>2. 1..n \subseteq 1..n + 1
          BY <2>4
        <4>3. QED
          BY <2>7, <2>9, <3>2, <4>1, <4>2 DEF HasLoaded
      <3>3. CASE c # s
        BY <1>1, <2>1, <2>13, <3>3, NeedsLoadIsServed
      <3>4. QED
        BY <3>1, <3>2, <3>3
    <2>14. QED
      BY <2>8, <2>11, <2>12, <2>13 DEF Weights, LoadsKnown
  <1>4. QED
    BY <1>2, <1>3, ServeSubmitCases

LEMMA DispatchWeights ==
    ASSUME CmdqInv, QueueOrder, Wire, Weights, ServeDispatch
    PROVE  Weights'
  <1>0. OkAnswers \subseteq Answers /\ FailedAnswer \in Answers
    BY DEF Answers
  <1>1. PICK m \in Answers : Requested("dispatch") /\ Respond(m) /\ work' = work
    BY <1>0, ServeDispatchCases
  <1>2. \A c \in Clients : (InLine(c) /\ NeedsLoad(c))' => InLine(c) /\ NeedsLoad(c)
    BY <1>1, RespondNeeds
  <1>3. CASE UNCHANGED <<cmdqVars, tensor>>
    <2>1. nextId' = nextId /\ CmdUsed' = CmdUsed
      BY <1>3, PendingUnchanged DEF cmdqVars
    <2>2. DoneUpTo' = DoneUpTo
      BY <2>1 DEF DoneUpTo
    <2>3. QED
      BY <1>1, <1>2, <1>3, <2>1, <2>2, WeightsLast
  <1>4. CASE DispatchOne /\ tensor' = TensorAfter(work[DoneUpTo + 1])
    <2> DEFINE d == DoneUpTo
               w == work[d + 1]
    <2>1. /\ nextId' = nextId /\ DoneUpTo' = d + 1 /\ CmdUsed # 0 /\ CmdUsed \in Nat
          /\ d \in Nat /\ nextId \in Nat
      BY <1>4, DispatchOrder, QueueNumbers DEF QueueOrder
    <2>2. Len(work) = nextId - 1 /\ work \in Seq(Works) /\ tensor \in Clients \cup {Nobody}
      BY DEF Weights, WorkTypes
    <2>3. d + 1 \in 1..Len(work)
      BY <2>1, <2>2 DEF DoneUpTo
    <2>4. w \in Works
      BY <2>2, <2>3
    <2>5. tensor' = IF w.op = "load" THEN w.client ELSE tensor
      BY <1>4 DEF TensorAfter
    <2> HIDE DEF w, d
    <2>6. WorkTypes'
      BY <1>1, <2>1, <2>2, <2>4, <2>5 DEF WorkTypes, Works
    <2>7. LastLoadIsKept'
      <3>1. CASE w.op = "load"
        <4>1. d + 1 \in 1..d + 1 /\ \A i \in d + 1 + 1..d + 1 : FALSE
          BY <2>1
        <4>2. QED
          BY <1>1, <2>1, <2>5, <3>1, <4>1 DEF LastLoadIsKept, w
      <3>2. CASE w.op # "load"
        <4>1. \A i \in 1..d + 1 : i \in 1..d \/ i = d + 1
          BY <2>1
        <4>2. CASE \A i \in 1..d : work[i].op # "load"
          BY <1>1, <2>1, <3>2, <4>1, <4>2 DEF LastLoadIsKept, w
        <4>3. CASE \E j \in 1..d : /\ work[j].op = "load" /\ tensor = work[j].client
                                   /\ \A i \in j + 1..d : work[i].op # "load"
          <5>1. PICK j \in 1..d : /\ work[j].op = "load" /\ tensor = work[j].client
                                  /\ \A i \in j + 1..d : work[i].op # "load"
            BY <4>3
          <5>2. j \in 1..d + 1 /\ \A i \in j + 1..d + 1 : i \in j + 1..d \/ i = d + 1
            BY <2>1
          <5>3. QED
            BY <1>1, <2>1, <2>5, <3>2, <5>1, <5>2 DEF LastLoadIsKept, w
        <4>4. QED
          BY <4>2, <4>3 DEF Weights, LastLoadIsKept, d
      <3>3. QED
        BY <3>1, <3>2
    <2>8. RunsFollowLoads' /\ \A c : (HasLoaded(c))' = HasLoaded(c)
      BY <1>1 DEF Weights, RunsFollowLoads, HasLoaded
    <2>9. QED
      BY <1>2, <2>6, <2>7, <2>8 DEF Weights, LoadsKnown
  <1>5. QED
    BY <1>3, <1>4, ServeDispatchCases

LEMMA ClientWeights ==
    ASSUME Wire, Weights, NEW c \in Clients, ClientStep(c)
    PROVE  Weights'
  <1>0. /\ WireTypes /\ WireOf(c) /\ NoCall.op = "none" /\ NoCall.stage = "none"
        /\ NoMessage.kind = "none"
    BY DEF Wire, NoCall, NoMessage
  <1>1. /\ work' = work /\ tensor' = tensor /\ nextId' = nextId /\ DoneUpTo' = DoneUpTo
    BY ClientStepWire DEF quietVars, cmdqVars, daemonVars, DoneUpTo, CmdUsed
  <1>2. ASSUME ClientMoves(c), NeedsLoad(c)' => NeedsLoad(c)
        PROVE  Weights'
    <2>1. \A d : (InLine(d))' = InLine(d)
      BY <1>2 DEF ClientMoves, InLine
    <2>2. \A d \in Clients \ {c} : (NeedsLoad(d))' = NeedsLoad(d)
      BY <1>2 DEF ClientMoves, NeedsLoad
    <2>3. QED
      BY <1>1, <1>2, <2>1, <2>2, WeightsLast
  <1>3. CASE Connect(c)
    <2>1. /\ phase[c] = "out" /\ UNCHANGED <<call, loaded, request, answer>>
          /\ \A d : (InLine(d))' <=> InLine(d) \/ d = c
      BY <1>3, ConnectWire
    <2>2. ~NeedsLoad(c) /\ \A d : (NeedsLoad(d))' = NeedsLoad(d)
      BY <1>0, <2>1 DEF WireOf, NeedsLoad
    <2>3. QED
      BY <1>1, <2>1, <2>2, WeightsLast
  <1>4. ASSUME NEW op, NEW stage, Beginning(c, op, stage)
        PROVE  Weights'
    <2>1. /\ ClientMoves(c) /\ loaded' = loaded /\ request' = request /\ answer' = answer
          /\ phase[c] = "idle"
          /\ call'[c] = [op |-> op, stage |-> stage, id |-> 0]
      BY <1>4, BeginMoves DEF Beginning
    <2>2. answer[c] = NoMessage /\ (op = "run" => loaded[c]) /\ (op = "load" => stage = "submit")
      BY <1>0, <1>4, <2>1, OpKinds DEF WireOf, Beginning
    <2>3. QED
      BY <1>0, <1>2, <2>1, <2>2 DEF NeedsLoad
  <1>5. CASE Send(c)
    <2>1. /\ phase[c] = "idle" /\ answer' = answer /\ loaded' = loaded /\ line' = line
          /\ daemon' = daemon /\ answer[c] = NoMessage /\ call[c] # NoCall
      BY <1>0, <1>5 DEF Send, quietVars, WireOf
    <2>2. \/ call' = [call EXCEPT ![c] = NoCall] /\ request' = request
          \/ /\ request' = [request EXCEPT ![c] = [kind |-> call[c].stage, op |-> call[c].op]]
             /\ call' = call
      BY <1>5 DEF Send
    <2>3. ClientMoves(c)
      <3>1. \E p : phase' = [phase EXCEPT ![c] = p]
        BY <1>5 DEF Send
      <3>2. QED
        BY <1>0, <2>1, <2>2, <3>1 DEF ClientMoves, WireTypes
    <2>4. NeedsLoad(c)' => NeedsLoad(c)
      BY <1>0, <2>1, <2>2 DEF NeedsLoad, WireTypes
    <2>5. QED
      BY <1>2, <2>3, <2>4
  <1>6. CASE Receive(c)
    <2>1. /\ ClientMoves(c) /\ phase[c] = "sent" /\ answer'[c] = NoMessage
          /\ request' = request
          /\ loaded'[c] = (loaded[c] \/ (call'[c].op = "run" /\ call[c].op = "load"))
          /\ \/ call'[c] = NoCall
             \/ /\ answer[c] \in OkAnswers /\ call[c].stage = "submit"
                /\ call'[c] = [op |-> call[c].op, stage |-> "dispatch", id |-> answer[c].id]
             \/ /\ answer[c] \in OkAnswers /\ call[c].stage = "dispatch"
                /\ call'[c] = [op |-> call[c].op, stage |-> "poll", id |-> call[c].id]
             \/ /\ answer[c] \in OkAnswers /\ call[c].stage = "poll" /\ call[c].op = "load"
                /\ call'[c] = [op |-> "run", stage |-> "submit", id |-> 0]
      BY <1>6, ReceiveMoves
    <2>2. answer[c] \in OkAnswers => answer[c].kind = "ok"
      BY MessageKinds
    <2>3. ASSUME call'[c] # NoCall
          PROVE  /\ call[c].op = "load" => NeedsLoad(c)
                 /\ call'[c].op = "run" => call[c].op \in {"load", "run"}
                 /\ call'[c].op = "load" => call[c].op = "load"
      BY <2>1, <2>2, <2>3 DEF NeedsLoad
    <2>4. loaded'[c] => NeedsLoad(c)
      BY <1>0, <2>1, <2>3 DEF NeedsLoad
    <2>5. call'[c].op \in {"run", "load"} => NeedsLoad(c)
      BY <1>0, <2>3 DEF NeedsLoad
    <2>6. NeedsLoad(c)' => NeedsLoad(c)
      BY <2>1, <2>4, <2>5 DEF NeedsLoad
    <2>7. QED
      BY <1>2, <2>1, <2>6
  <1>7. CASE ReceiveNothing(c)
    <2>1. /\ ClientMoves(c) /\ call'[c] = NoCall /\ request'[c] = NoMessage /\ loaded' = loaded
      BY <1>7, ReceiveNothingWire
    <2>2. QED
      BY <1>0, <1>2, <2>1 DEF NeedsLoad
  <1>8. CASE Destroy(c)
    <2>1. /\ ClientMoves(c) /\ call'[c].op = "none" /\ UNCHANGED <<loaded, request>>
      BY <1>8, DestroyWire
    <2>2. QED
      BY <1>2, <2>1 DEF NeedsLoad
  <1>9. CASE Die(c)
    <2>1. /\ ClientMoves(c) /\ call'[c] = NoCall /\ UNCHANGED <<loaded, request>>
      BY <1>9, DieWire
    <2>2. QED
      BY <1>0, <1>2, <2>1 DEF NeedsLoad
  <1>10. QED
    BY <1>3, <1>4, <1>5, <1>6, <1>7, <1>8, <1>9, ClientCases

LEMMA NextWeights ==
    ASSUME CmdqInv, QueueOrder, Wire, Weights, [Next]_vars
    PROVE  Weights'
  <1>1. ASSUME UNCHANGED <<work, tensor, cmdVars>>,
               \A c \in Clients : (InLine(c) /\ NeedsLoad(c))' => InLine(c) /\ NeedsLoad(c)
        PROVE  Weights'
    <2>1. nextId' = nextId /\ DoneUpTo' = DoneUpTo
      BY <1>1 DEF cmdVars, DoneUpTo, CmdUsed
    <2>2. QED
      BY <1>1, <2>1, WeightsLast
  <1>2. CASE Boot
    <2>1. UNCHANGED <<cmdVars, line, phase, call, loaded, request, answer, work, tensor>>
      BY <1>2, BootWire DEF clientVars, daemonVars
    <2>2. QED
      BY <1>1, <2>1 DEF InLine, NeedsLoad
  <1>3. CASE ServeSubmit
    BY <1>3, SubmitWeights
  <1>4. CASE ServeDispatch
    BY <1>4, DispatchWeights
  <1>5. CASE ServePoll \/ ServeOther
    <2>1. OkAnswers \subseteq Answers /\ FailedAnswer \in Answers
      BY DEF Answers
    <2>2. \E kind, m : Requested(kind) /\ kind \notin {"none", "submit"} /\ m \in Answers /\ Respond(m)
      BY <1>5, <2>1, ServePollCases, ServeOtherCases, OpKinds
    <2>3. \A c \in Clients : (InLine(c) /\ NeedsLoad(c))' => InLine(c) /\ NeedsLoad(c)
      BY <2>2, RespondNeeds
    <2>4. UNCHANGED <<work, tensor, cmdVars>>
      BY <1>5, ServePollCases, ServeOtherCases DEF PollCompletion, cmdqVars, cmdVars, daemonVars
    <2>5. QED
      BY <1>1, <2>3, <2>4
  <1>6. CASE NextClient
    <2>1. /\ UNCHANGED <<phase, call, loaded, request, answer>>
          /\ \A d \in Clients : (InLine(d))' => InLine(d)
      BY <1>6, NextClientWire
    <2>2. UNCHANGED <<work, tensor, cmdVars>>
      BY <1>6 DEF NextClient, daemonVars, cmdqVars, cmdVars
    <2>3. QED
      BY <1>1, <2>1, <2>2 DEF NeedsLoad
  <1>7. ASSUME NEW c \in Clients, ClientStep(c)
        PROVE  Weights'
    BY <1>7, ClientWeights
  <1>8. CASE UNCHANGED vars
    <2>1. UNCHANGED <<cmdVars, line, phase, call, loaded, request, answer, work, tensor>>
      BY <1>8 DEF vars, clientVars, daemonVars, cmdqVars, cmdVars
    <2>2. QED
      BY <1>1, <2>1 DEF InLine, NeedsLoad
  <1>9. QED
    BY <1>2, <1>3, <1>4, <1>5, <1>6, <1>7, <1>8 DEF Next, Serve

\* Every command that needs a weight follows the load of its own client's, with none
\* but that client's commands in between; the daemon serves one connection at a time
\* (serve_client, pcie_register_weight, conf_exec_load_tensor_tile).
THEOREM WeightsInductive == Spec => []Weights
  <1>1. Init => Weights
    BY InitWeights
  <1>2. EndpointInv /\ Weights /\ [Next]_vars => Weights'
    BY NextWeights DEF EndpointInv
  <1>3. QED
    BY <1>1, <1>2, EndpointInductive, PTL DEF Spec

\* Only the daemon's dispatch takes commands.
LEMMA OnlyDispatchTakes ==
    ASSUME CmdqInv, QueueOrder, Wire, [Next]_vars, cmdHead' # cmdHead
    PROVE  DispatchOne
  <1>1. ~Boot
    BY BootWire DEF cmdVars
  <1>2. ~ServeSubmit /\ ~ServePoll /\ ~ServeOther
    BY ServeSubmitCases, ServePollCases, ServeOtherCases
    DEF Submit, PollCompletion, cmdqVars, cmdVars
  <1>3. ServeDispatch => DispatchOne
    BY ServeDispatchCases DEF cmdqVars
  <1>4. ~NextClient /\ ~UNCHANGED vars
    BY DEF NextClient, vars, cmdqVars
  <1>5. \A c \in Clients : ~ClientStep(c)
    BY ClientStepWire DEF quietVars, cmdqVars
  <1>6. QED
    BY <1>1, <1>2, <1>3, <1>4, <1>5 DEF Next, Serve

\* No command is executed with another client's weight, whatever the identifiers and
\* whoever died before (pcie_register_weight, conf_exec_matmul).
THEOREM CommandsUseOwnWeight == Spec => OwnWeight
  <1>1. ASSUME EndpointInv, Weights, [Next]_vars, cmdHead' # cmdHead,
               work[NextCommand.id].op = "run"
        PROVE  tensor = work[NextCommand.id].client
    <2> DEFINE d == DoneUpTo
    <2>1. CmdqInv /\ QueueOrder /\ Wire /\ RunsFollowLoads /\ LastLoadIsKept
      BY <1>1 DEF EndpointInv, Weights
    <2>2. /\ NextCommand.id = d + 1 /\ CmdUsed # 0 /\ CmdUsed \in Nat /\ d \in Nat
          /\ nextId \in Nat
      BY <1>1, <2>1, OnlyDispatchTakes, DispatchOrder, QueueNumbers DEF QueueOrder
    <2>3. PICK n \in 1..Len(work) : n = d + 1
      BY <1>1, <2>2 DEF Weights, WorkTypes, DoneUpTo
    <2>4. work[n].op = "run"
      BY <1>1, <2>2, <2>3
    <2> HIDE DEF d
    <2>5. PICK j \in 1..n - 1 :
              work[j].op = "load" /\ \A m \in j..n : work[m].client = work[n].client
      BY <2>1, <2>4 DEF RunsFollowLoads
    <2>6. j \in 1..d
      BY <2>2, <2>3
    <2>7. PICK k \in 1..d :
              /\ work[k].op = "load" /\ tensor = work[k].client
              /\ \A i \in k + 1..d : work[i].op # "load"
      BY <2>1, <2>5, <2>6 DEF LastLoadIsKept, d
    <2>8. ~(j \in k + 1..d)
      BY <2>5, <2>7
    <2>9. k \in j..n
      BY <2>2, <2>3, <2>6, <2>8
    <2>10. QED
      BY <2>2, <2>3, <2>5, <2>7, <2>9
  <1>2. EndpointInv /\ Weights /\ [Next]_vars =>
            [cmdHead' # cmdHead /\ work[NextCommand.id].op = "run" =>
                tensor = work[NextCommand.id].client]_vars
    BY <1>1
  <1>3. QED
    BY <1>2, EndpointInductive, WeightsInductive, PTL DEF Spec, OwnWeight

(***************************************************************************)
(* Results.  A command's entries in the two tables outlive the call it     *)
(* belongs to, whatever the tables' sizes.                                 *)
(***************************************************************************)
TableTypes ==
    /\ table \in [1..DaemonXfers -> Nat]
    /\ pending \in [Clients -> [1..ClientXfers -> Nat]]

ResultsOf(c) ==
    call[c].op \in ResultCommands =>
        /\ call[c].stage = "submit" /\ answer[c].kind = "ok" => Holds(table, answer[c].id)
        /\ call[c].stage = "dispatch" => Holds(table, call[c].id)
        /\ call[c].stage \in {"dispatch", "poll"} => Holds(pending[c], call[c].id)
        /\ call[c].stage = "poll" =>
              IF answer[c] = NoMessage THEN Holds(table, call[c].id)
              ELSE answer[c].kind = "ok" /\ answer[c].id = call[c].id
                      => answer[c].payload = call[c].id

ResultsKept == TableTypes /\ \A c \in Clients : Alive(c) => ResultsOf(c)

LEMMA LeastOf ==
    ASSUME NEW S, S \subseteq Nat, S # {}
    PROVE  \E x \in S : \A y \in S : x <= y
  <1> DEFINE R == OpToRel(<, Nat)
  <1>1. IsWellFoundedOn(R, Nat)
    BY NatLessThanWellFounded
  <1>2. PICK x \in S : \A y \in S : ~ (<<y, x>> \in R)
    <2> HIDE DEF R
    <2>1. QED
      BY <1>1, WFMin
  <1>3. ASSUME NEW y \in S
        PROVE  x <= y
    <2>1. ~(y < x)
      BY <1>2 DEF OpToRel
    <2>2. QED
      BY <2>1
  <1>4. QED
    BY <1>3

\* A table with a new entry holds it; one with an entry cleared has the others.
LEMMA RegisteredHolds ==
    ASSUME NEW n \in Nat \ {0}, NEW slots \in [1..n -> Nat], NEW id \in Nat
    PROVE  Registered(slots, id) \in [1..n -> Nat] /\ Holds(Registered(slots, id), id)
  <1> DEFINE free == {s \in DOMAIN slots : slots[s] = 0}
             slot == IF free = {} THEN 1 ELSE CHOOSE s \in free : \A t \in free : s <= t
  <1>1. slot \in 1..n
    <2>1. free \subseteq Nat
      OBVIOUS
    <2>2. free # {} => \E s \in free : \A t \in free : s <= t
      BY <2>1, LeastOf
    <2>3. QED
      BY <2>2
  <1>2. Registered(slots, id) = [slots EXCEPT ![slot] = id]
    BY DEF Registered
  <1> HIDE DEF free, slot
  <1>3. QED
    BY <1>1, <1>2 DEF Holds

LEMMA ClearedTypes ==
    ASSUME NEW n \in Nat, NEW slots \in [1..n -> Nat], NEW id
    PROVE  Cleared(slots, id) \in [1..n -> Nat]
  BY DEF Cleared

LEMMA InitResults == Init => ResultsKept
  BY EndpointConfigValid DEF Init, ResultsKept, TableTypes, Alive

\* A client with a result to come is the one served.
LEMMA ResultsOfOthers ==
    ASSUME Wire, NEW c \in Clients, Alive(c), c # Head(line)
    PROVE  answer[c] = NoMessage /\ call[c].stage \notin {"dispatch", "poll"}
  BY DEF Wire, WireOf, Begun

LEMMA ServeResults ==
    ASSUME CmdqInv, QueueOrder, Wire, ResultsKept, Serve
    PROVE  ResultsKept'
  <1>s. PICK s : s = Served
    OBVIOUS
  <1>0. OkAnswers \subseteq Answers /\ FailedAnswer \in Answers
    BY DEF Answers
  <1>1. PICK kind, m : Requested(kind) /\ kind # "none" /\ m \in Answers /\ Respond(m)
    BY ServeWire
  <1>2. /\ s \in Clients /\ request[s] # NoMessage /\ request[s].kind = kind
        /\ WireOf(s) /\ s = Head(line) /\ WireTypes
    BY <1>1, <1>s, RequestedMeans DEF Wire
  <1>3. /\ phase' = phase /\ call' = call /\ pending' = pending
        /\ answer' = IF Alive(s) THEN [answer EXCEPT ![s] = m] ELSE answer
        /\ Alive(s) => answer'[s] = m
    BY <1>1, <1>2, <1>s DEF Respond, clientVars, WireTypes
  <1>4. Alive(s) => /\ call[s].stage = kind /\ call[s].op = request[s].op
                    /\ Shape(call[s].op, kind) /\ answer[s] = NoMessage
    BY <1>2 DEF WireOf, Alive
  <1>5. ASSUME NEW c \in Clients, c # s, Alive(c)'
        PROVE  ResultsOf(c)'
    <2>1. Alive(c) /\ answer'[c] = answer[c]
      BY <1>2, <1>3, <1>5 DEF Alive, WireTypes
    <2>2. answer[c] = NoMessage /\ call[c].stage \notin {"dispatch", "poll"}
      BY <1>2, <1>5, <2>1, ResultsOfOthers
    <2>3. QED
      BY <1>3, <2>1, <2>2, MessageKinds DEF ResultsOf
  <1>6. ASSUME table' \in [1..DaemonXfers -> Nat], Alive(s) => ResultsOf(s)'
        PROVE  ResultsKept'
    <2>1. (Alive(s))' = Alive(s)
      BY <1>3 DEF Alive
    <2>2. QED
      BY <1>3, <1>5, <1>6, <2>1 DEF ResultsKept, TableTypes
  <1>7. TableTypes /\ (Alive(s) => ResultsOf(s))
    BY <1>2 DEF ResultsKept
  <1>8. ASSUME kind \notin {"submit", "dispatch", "poll"}, table' = table
        PROVE  ResultsKept'
    <2>1. Alive(s) => call[s].stage \notin {"submit", "dispatch", "poll"}
      BY <1>4, <1>8
    <2>2. Alive(s) => ResultsOf(s)'
      BY <1>3, <2>1 DEF ResultsOf
    <2>3. QED
      BY <1>6, <1>7, <1>8, <2>2 DEF TableTypes
  <1>9. CASE ServeSubmit
    <2>1. kind = "submit"
      BY <1>s, <1>2, <1>9, ServeSubmitCases DEF Requested
    <2>2. CASE Respond(FailedAnswer) /\ table' = table
      <3>1. Alive(s) => answer'[s] = FailedAnswer
        BY <1>s, <1>2, <2>2 DEF Respond, WireTypes
      <3>2. Alive(s) => ResultsOf(s)'
        BY <1>3, <1>4, <2>1, <3>1, MessageKinds DEF ResultsOf
      <3>3. QED
        BY <1>6, <1>7, <2>2, <3>2 DEF TableTypes
    <2>3. CASE /\ Respond(OkAnswer(nextId, 0))
               /\ table' = IF request[s].op \in ResultCommands
                           THEN Registered(table, nextId) ELSE table
      <3>1. Alive(s) => answer'[s].id = nextId
        BY <1>s, <1>2, <2>3 DEF Respond, WireTypes, OkAnswer
      <3>2. nextId \in Nat
        BY QueueNumbers
      <3>3. /\ Registered(table, nextId) \in [1..DaemonXfers -> Nat]
            /\ Holds(Registered(table, nextId), nextId)
        BY <1>7, <3>2, RegisteredHolds, EndpointConfigValid DEF TableTypes
      <3>4. Alive(s) => ResultsOf(s)'
        BY <1>3, <1>4, <2>1, <2>3, <3>1, <3>3 DEF ResultsOf
      <3>5. QED
        BY <1>6, <1>7, <2>3, <3>3, <3>4 DEF TableTypes
    <2>4. QED
      BY <1>s, <1>9, <2>2, <2>3, ServeSubmitCases
  <1>10. CASE ServeDispatch
    <2>1. kind = "dispatch" /\ table' = table
      BY <1>s, <1>2, <1>10, ServeDispatchCases DEF Requested
    <2>2. Alive(s) => ResultsOf(s)'
      BY <1>3, <1>4, <1>7, <2>1 DEF ResultsOf
    <2>3. QED
      BY <1>6, <1>7, <2>1, <2>2 DEF TableTypes
  <1>11. CASE ServePoll
    <2>1. kind = "poll"
      BY <1>s, <1>2, <1>11, ServePollCases DEF Requested
    <2>2. CASE Respond(FailedAnswer) /\ table' = table
      <3>1. Alive(s) => answer'[s] = FailedAnswer
        BY <1>s, <1>2, <2>2 DEF Respond, WireTypes
      <3>2. Alive(s) => ResultsOf(s)'
        BY <1>3, <1>4, <1>7, <2>1, <3>1, MessageKinds DEF ResultsOf
      <3>3. QED
        BY <1>6, <1>7, <2>2, <3>2 DEF TableTypes
    <2>3. CASE Respond(PollAnswer) /\ table' = Cleared(table, AnswerId(1))
      <3>1. Alive(s) => answer'[s] = PollAnswer
        BY <1>s, <1>2, <2>3 DEF Respond, WireTypes
      <3>2. PollAnswer # NoMessage /\ PollAnswer.id = AnswerId(1)
            /\ PollAnswer.payload = IF Holds(table, AnswerId(1)) THEN AnswerId(1) ELSE 0
        BY DEF PollAnswer, NoMessage
      <3>3. Alive(s) /\ call[s].op \in ResultCommands =>
                Holds(table, call[s].id) /\ Holds(pending[s], call[s].id)
        BY <1>4, <1>7, <2>1 DEF ResultsOf
      <3>4. Alive(s) => ResultsOf(s)'
        BY <1>3, <1>4, <2>1, <3>1, <3>2, <3>3 DEF ResultsOf
      <3>5. table' \in [1..DaemonXfers -> Nat]
        BY <1>7, <2>3, ClearedTypes, EndpointConfigValid DEF TableTypes
      <3>6. QED
        BY <1>6, <3>4, <3>5
    <2>4. QED
      BY <1>11, <2>2, <2>3, ServePollCases
  <1>12. CASE ServeOther
    <2>1. kind \notin {"submit", "dispatch", "poll"} /\ table' = table
      <3>1. PICK op \in CallArgs \cup {"shutdown"} : Requested(op)
        BY <1>12, ServeOtherCases
      <3>2. kind = op
        BY <1>s, <1>2, <3>1 DEF Requested
      <3>3. QED
        BY <1>12, <3>1, <3>2, ServeOtherCases, OpKinds DEF daemonVars
    <2>2. QED
      BY <1>8, <2>1
  <1>13. QED
    BY <1>9, <1>10, <1>11, <1>12 DEF Serve

LEMMA ClientResults ==
    ASSUME Wire, ResultsKept, NEW c \in Clients, ClientStep(c)
    PROVE  ResultsKept'
  <1>0. /\ WireTypes /\ WireOf(c) /\ TableTypes
        /\ NoCall.op \notin ResultCommands /\ "none" \notin ResultCommands
        /\ NoMessage.kind = "none"
    BY DEF Wire, ResultsKept, NoCall, ResultCommands, NoMessage
  <1>1. table' = table
    BY ClientStepWire DEF quietVars, daemonVars
  <1>2. ASSUME OnlyOf(c), pending' \in [Clients -> [1..ClientXfers -> Nat]],
               \A d \in Clients \ {c} : pending'[d] = pending[d],
               Alive(c)' => ResultsOf(c)'
        PROVE  ResultsKept'
    <2>1. ASSUME NEW d \in Clients \ {c}, Alive(d)'
          PROVE  ResultsOf(d)'
      <3>1. Alive(d)
        BY <1>2, <2>1 DEF OnlyOf, Alive
      <3>2. ResultsOf(d)
        BY <3>1 DEF ResultsKept
      <3>3. QED
        BY <1>1, <1>2, <3>2 DEF ResultsOf, OnlyOf
    <2>2. QED
      BY <1>0, <1>1, <1>2, <2>1 DEF ResultsKept, TableTypes
  <1>3. ASSUME OnlyOf(c), pending' = pending, Alive(c)' => ResultsOf(c)'
        PROVE  ResultsKept'
    BY <1>0, <1>2, <1>3 DEF TableTypes
  <1>4. CASE Connect(c)
    <2>1. /\ phase[c] = "out" /\ phase' = [phase EXCEPT ![c] = "idle"]
          /\ UNCHANGED <<call, request, answer, pending>>
      BY <1>4 DEF Connect
    <2>2. OnlyOf(c) /\ call'[c] = NoCall
      BY <1>0, <2>1 DEF OnlyOf, WireTypes, WireOf
    <2>3. QED
      BY <1>0, <1>3, <2>1, <2>2 DEF ResultsOf
  <1>5. ASSUME NEW op, NEW stage, Beginning(c, op, stage)
        PROVE  ResultsKept'
    <2>1. /\ ClientMoves(c) /\ phase[c] = "idle" /\ answer' = answer /\ pending' = pending
          /\ call'[c] = [op |-> op, stage |-> stage, id |-> 0]
      BY <1>5, BeginMoves DEF Beginning, Begin
    <2>2. answer'[c] = NoMessage /\ call'[c].stage \notin {"dispatch", "poll"}
      BY <1>0, <1>5, <2>1, OpKinds DEF WireOf, Beginning
    <2>3. OnlyOf(c)
      BY <2>1 DEF ClientMoves, OnlyOf
    <2>4. QED
      BY <1>0, <1>3, <2>1, <2>2, <2>3 DEF ResultsOf
  <1>6. CASE Send(c)
    <2>1. /\ phase[c] = "idle" /\ answer' = answer /\ pending' = pending
          /\ \E p : phase' = [phase EXCEPT ![c] = p]
          /\ \/ call' = [call EXCEPT ![c] = NoCall] /\ request' = request
             \/ call' = call /\ \E r : request' = [request EXCEPT ![c] = r]
      BY <1>6 DEF Send
    <2>2. OnlyOf(c) /\ (call'[c] = NoCall \/ call'[c] = call[c])
      BY <1>0, <2>1 DEF OnlyOf, WireTypes
    <2>3. ResultsOf(c)
      BY <2>1 DEF ResultsKept, Alive
    <2>4. ResultsOf(c)'
      BY <1>0, <1>1, <2>1, <2>2, <2>3 DEF ResultsOf
    <2>5. QED
      BY <1>3, <2>1, <2>2, <2>4
  <1>7. CASE Receive(c)
    <2>1. /\ ClientMoves(c) /\ phase[c] = "sent" /\ answer[c] \in Answers
          /\ answer'[c] = NoMessage
          /\ \/ call'[c] = NoCall
             \/ /\ answer[c] \in OkAnswers /\ call[c].stage = "submit"
                /\ call'[c] = [op |-> call[c].op, stage |-> "dispatch", id |-> answer[c].id]
             \/ /\ answer[c] \in OkAnswers /\ call[c].stage = "dispatch"
                /\ call'[c] = [op |-> call[c].op, stage |-> "poll", id |-> call[c].id]
             \/ /\ answer[c] \in OkAnswers /\ call[c].stage = "poll" /\ call[c].op = "load"
                /\ call'[c] = [op |-> "run", stage |-> "submit", id |-> 0]
      BY <1>7, ReceiveMoves
    <2>2. pending' = [pending EXCEPT ![c] = Tabled(c, answer[c])]
      BY <1>7 DEF Receive
    <2>3. OnlyOf(c) /\ ResultsOf(c)
      BY <2>1 DEF ClientMoves, OnlyOf, ResultsKept, Alive
    <2>4. /\ pending[c] \in [1..ClientXfers -> Nat] /\ ClientXfers \in Nat \ {0}
          /\ answer[c].kind = "ok" => answer[c].id \in Nat
      BY <1>0, <2>1, EndpointConfigValid DEF TableTypes, Answers, OkAnswers, FailedAnswer
    <2>5. Tabled(c, answer[c]) \in [1..ClientXfers -> Nat]
      <3>1. CASE /\ answer[c].kind = "ok" /\ call[c].stage = "submit"
                 /\ call[c].op \in ResultCommands
        <4>1. Registered(pending[c], answer[c].id) \in [1..ClientXfers -> Nat]
          BY <2>4, <3>1, RegisteredHolds
        <4>2. QED
          BY <3>1, <4>1 DEF Tabled
      <3>2. CASE answer[c].kind = "ok" /\ call[c].stage = "poll"
        <4>1. Cleared(pending[c], answer[c].id) \in [1..ClientXfers -> Nat]
          BY <2>4, ClearedTypes
        <4>2. QED
          BY <3>2, <4>1 DEF Tabled
      <3>3. CASE ~(answer[c].kind = "ok" /\ (call[c].stage = "poll"
                      \/ (call[c].stage = "submit" /\ call[c].op \in ResultCommands)))
        BY <2>4, <3>3 DEF Tabled
      <3>4. QED
        BY <3>1, <3>2, <3>3
    <2>6. /\ pending' \in [Clients -> [1..ClientXfers -> Nat]]
          /\ \A d \in Clients \ {c} : pending'[d] = pending[d]
          /\ pending'[c] = Tabled(c, answer[c])
      BY <1>0, <2>2, <2>5 DEF TableTypes
    <2>7. ResultsOf(c)'
      <3>1. CASE call'[c] = NoCall
        BY <1>0, <3>1 DEF ResultsOf
      <3>2. CASE /\ answer[c] \in OkAnswers /\ call[c].stage = "submit"
                 /\ call'[c] = [op |-> call[c].op, stage |-> "dispatch", id |-> answer[c].id]
        <4>1. SUFFICES ASSUME call[c].op \in ResultCommands
                       PROVE  ResultsOf(c)'
          BY <3>2 DEF ResultsOf
        <4>2. answer[c].kind = "ok" /\ answer[c].id \in Nat
          BY <2>4, <3>2, MessageKinds
        <4>3. Holds(table, answer[c].id)
          BY <2>3, <3>2, <4>1, <4>2 DEF ResultsOf
        <4>4. Holds(pending'[c], answer[c].id)
          <5>1. Holds(Registered(pending[c], answer[c].id), answer[c].id)
            BY <2>4, <4>2, RegisteredHolds
          <5>2. Tabled(c, answer[c]) = Registered(pending[c], answer[c].id)
            BY <3>2, <4>1, <4>2 DEF Tabled
          <5>3. QED
            BY <2>6, <5>1, <5>2
        <4>5. QED
          BY <1>1, <3>2, <4>3, <4>4 DEF ResultsOf
      <3>3. CASE /\ answer[c] \in OkAnswers /\ call[c].stage = "dispatch"
                 /\ call'[c] = [op |-> call[c].op, stage |-> "poll", id |-> call[c].id]
        <4>1. pending'[c] = pending[c]
          BY <2>6, <3>3 DEF Tabled
        <4>2. QED
          BY <1>1, <2>1, <2>3, <3>3, <4>1 DEF ResultsOf
      <3>4. CASE call'[c] = [op |-> "run", stage |-> "submit", id |-> 0]
        BY <1>0, <2>1, <3>4 DEF ResultsOf
      <3>5. QED
        BY <2>1, <3>1, <3>2, <3>3, <3>4
    <2>8. QED
      BY <1>2, <2>3, <2>6, <2>7
  <1>8. CASE ReceiveNothing(c)
    <2>1. ClientMoves(c) /\ call'[c] = NoCall
      BY <1>8, ReceiveNothingWire
    <2>2. OnlyOf(c) /\ pending' = pending
      BY <1>8, <2>1 DEF ClientMoves, OnlyOf, ReceiveNothing
    <2>3. QED
      BY <1>0, <1>3, <2>1, <2>2 DEF ResultsOf
  <1>9. CASE Destroy(c)
    <2>1. ClientMoves(c) /\ call'[c].op = "none"
      BY <1>9, DestroyWire
    <2>2. OnlyOf(c) /\ pending' = pending
      BY <1>9, <2>1 DEF ClientMoves, OnlyOf, Destroy
    <2>3. QED
      BY <1>0, <1>3, <2>1, <2>2 DEF ResultsOf
  <1>10. CASE Die(c)
    <2>1. ClientMoves(c) /\ call'[c] = NoCall
      BY <1>10, DieWire
    <2>2. OnlyOf(c) /\ pending' = pending
      BY <1>10, <2>1 DEF ClientMoves, OnlyOf, Die
    <2>3. QED
      BY <1>0, <1>3, <2>1, <2>2 DEF ResultsOf
  <1>11. QED
    BY <1>4, <1>5, <1>6, <1>7, <1>8, <1>9, <1>10, ClientCases

LEMMA NextResults ==
    ASSUME CmdqInv, QueueOrder, Wire, ResultsKept, [Next]_vars
    PROVE  ResultsKept'
  <1>1. ASSUME UNCHANGED <<phase, call, answer, table, pending>>
        PROVE  ResultsKept'
    BY <1>1 DEF ResultsKept, TableTypes, ResultsOf, Alive
  <1>2. CASE Boot
    BY <1>1, <1>2 DEF Boot, clientVars, daemonVars
  <1>3. CASE Serve
    BY <1>3, ServeResults
  <1>4. CASE NextClient
    BY <1>1, <1>4 DEF NextClient, clientVars, daemonVars
  <1>5. ASSUME NEW c \in Clients, ClientStep(c)
        PROVE  ResultsKept'
    BY <1>5, ClientResults
  <1>6. CASE UNCHANGED vars
    BY <1>1, <1>6 DEF vars, clientVars, daemonVars
  <1>7. QED
    BY <1>2, <1>3, <1>4, <1>5, <1>6 DEF Next

\* A command in flight with a result to come has its entry in the daemon's table and
\* in its library's own (dispatch_cmd_submit, client_cmd_submit).
THEOREM ResultsInductive == Spec => []ResultsKept
  <1>1. Init => ResultsKept
    BY InitResults
  <1>2. EndpointInv /\ ResultsKept /\ [Next]_vars => ResultsKept'
    BY NextResults DEF EndpointInv
  <1>3. QED
    BY <1>1, <1>2, EndpointInductive, PTL DEF Spec

\* A backend's call that ends with its own command's completion has the result, also
\* when the entry it needs was put into a full table
\* (dispatch_cmd_poll_completion, client_cmd_poll_completion).
THEOREM OwnAnswersBringResults == Spec => OwnAnswerBringsResult
  <1> DEFINE A == \A c \in Clients :
          /\ call[c].stage = "poll" /\ call[c].op \in ResultCommands
          /\ phase[c] = "sent" /\ phase'[c] = "idle"
          /\ answer[c].kind = "ok" /\ answer[c].id = call[c].id
          => Holds(pending[c], call[c].id) /\ answer[c].payload = call[c].id
  <1>1. ResultsKept => A
    <2> SUFFICES ASSUME ResultsKept, NEW c \in Clients,
                        call[c].stage = "poll", call[c].op \in ResultCommands,
                        phase[c] = "sent",
                        answer[c].kind = "ok", answer[c].id = call[c].id
                 PROVE  Holds(pending[c], call[c].id) /\ answer[c].payload = call[c].id
      OBVIOUS
    <2>1. ResultsOf(c) /\ answer[c] # NoMessage
      BY DEF ResultsKept, Alive, NoMessage
    <2>2. QED
      BY <2>1 DEF ResultsOf
  <1>2. ResultsKept => [A]_vars
    BY <1>1
  <1>3. QED
    BY <1>2, ResultsInductive, PTL DEF OwnAnswerBringsResult

(***************************************************************************)
(* Room.  A client leaves at most one command in the queue, and as long as *)
(* the daemon's table has a slot for each client no entry is overwritten.  *)
(***************************************************************************)
RoomForAll ==
    Cardinality(Clients) <= DaemonXfers /\ Cardinality(Clients) < CompDepth

\* A client with a command in the queue: one it waits for, or one it left behind.
Debtor(c) ==
    \/ phase[c] = "gone" /\ ~(request[c] # NoMessage /\ request[c].kind = "submit")
    \/ /\ Alive(c)
       /\ \/ call[c].stage = "submit" /\ answer[c].kind = "ok"
          \/ call[c].stage = "dispatch"
          \/ call[c].stage = "poll" /\ answer[c].kind # "ok"

Debtors == {c \in Clients : Debtor(c)}

\* A client's command is where its next step looks for it.
StageOK(c) ==
    /\ call[c].stage \in {"dispatch", "poll"} => answer[c] # FailedAnswer
    /\ \/ call[c].stage = "submit" /\ answer[c].kind = "ok"
       \/ call[c].stage = "dispatch" /\ answer[c] = NoMessage
       => CmdUsed # 0
    /\ \/ call[c].stage = "dispatch" /\ answer[c].kind = "ok"
       \/ call[c].stage = "poll" /\ answer[c] = NoMessage
       => CompUsed # 0

InQueue(id) ==
    \/ \E k \in 1..CmdUsed : WaitingId(k) = id
    \/ \E k \in 1..CompUsed : AnswerId(k) = id

TableOK ==
    /\ \A s \in 1..DaemonXfers : table[s] # 0 => InQueue(table[s])
    /\ \A s, t \in 1..DaemonXfers : table[s] = table[t] /\ table[s] # 0 => s = t
    /\ \A id \in 1..Len(work) :
          InQueue(id) /\ work[id].op \in ResultCommands => Holds(table, id)

InStep ==
    /\ CmdUsed + CompUsed <= Cardinality(Debtors)
    /\ \A c \in Clients : Alive(c) => StageOK(c)

Room == (daemon # "down" => InStep) /\ TableOK

\* The identifiers in the queue, before and after each of its operations.
LEMMA QueuedIds ==
    ASSUME CmdqInv, QueueOrder
    PROVE  /\ \A id : InQueue(id) => id \in 1..nextId - 1
           /\ DoneUpTo \in Nat /\ nextId - 1 = DoneUpTo + CmdUsed
           /\ \A id : InQueue(id) <=> \/ id \in DoneUpTo + 1..DoneUpTo + CmdUsed
                                      \/ \E k \in 1..CompUsed : AnswerId(k) = id
  <1>0. /\ nextId \in Nat \ {0} /\ CmdUsed \in Nat /\ CompUsed \in Nat /\ DoneUpTo \in Nat
        /\ nextId - 1 = DoneUpTo + CmdUsed
    BY QueueNumbers DEF QueueOrder, DoneUpTo
  <1>1. ASSUME NEW id
        PROVE  (\E k \in 1..CmdUsed : WaitingId(k) = id) <=> id \in DoneUpTo + 1..DoneUpTo + CmdUsed
    <2>1. ASSUME NEW k \in 1..CmdUsed, WaitingId(k) = id
          PROVE  id \in DoneUpTo + 1..DoneUpTo + CmdUsed
      BY <1>0, <2>1 DEF QueueOrder
    <2>2. ASSUME id \in DoneUpTo + 1..DoneUpTo + CmdUsed
          PROVE  \E k \in 1..CmdUsed : WaitingId(k) = id
      <3>1. id - DoneUpTo \in 1..CmdUsed /\ DoneUpTo + (id - DoneUpTo) = id
        BY <1>0, <2>2
      <3>2. WaitingId(id - DoneUpTo) = id
        BY <3>1 DEF QueueOrder
      <3>3. QED
        BY <3>1, <3>2
    <2>3. QED
      BY <2>1, <2>2
  <1>2. \A k \in 1..CompUsed : AnswerId(k) \in 1..DoneUpTo
    BY DEF QueueOrder
  <1>3. 1..DoneUpTo \subseteq 1..nextId - 1 /\ DoneUpTo + 1..DoneUpTo + CmdUsed \subseteq 1..nextId - 1
    BY <1>0
  <1>4. QED
    BY <1>0, <1>1, <1>2, <1>3 DEF InQueue

LEMMA QueuedAfter ==
    CmdqInv' /\ QueueOrder' =>
        \A id : (InQueue(id))' <=> \/ id \in DoneUpTo' + 1..DoneUpTo' + CmdUsed'
                                   \/ \E k \in 1..CompUsed' : AnswerId(k)' = id
  <1>1. CmdqInv /\ QueueOrder =>
            \A id : InQueue(id) <=> \/ id \in DoneUpTo + 1..DoneUpTo + CmdUsed
                                    \/ \E k \in 1..CompUsed : AnswerId(k) = id
    BY QueuedIds
  <1>2. (CmdqInv /\ QueueOrder)' =>
            (\A id : InQueue(id) <=> \/ id \in DoneUpTo + 1..DoneUpTo + CmdUsed
                                     \/ \E k \in 1..CompUsed : AnswerId(k) = id)'
    BY <1>1, PTL
  <1>3. QED
    BY <1>2

LEMMA SubmitQueued ==
    ASSUME CmdqInv, QueueOrder, Submit(0, "exec", FALSE), CmdqInv'
    PROVE  \A id : (InQueue(id))' <=> InQueue(id) \/ id = nextId
  <1>1. /\ QueueOrder' /\ CmdUsed' = CmdUsed + 1 /\ CompUsed' = CompUsed
        /\ DoneUpTo' = DoneUpTo
        /\ \A k \in 1..CompUsed : AnswerId(k)' = AnswerId(k)
    BY SubmitOrder
  <1>2. /\ \A id : InQueue(id) <=> \/ id \in DoneUpTo + 1..DoneUpTo + CmdUsed
                                   \/ \E k \in 1..CompUsed : AnswerId(k) = id
        /\ DoneUpTo \in Nat /\ CmdUsed \in Nat /\ nextId \in Nat
        /\ nextId - 1 = DoneUpTo + CmdUsed
    BY QueuedIds, QueueNumbers
  <1>3. \A id : (InQueue(id))' <=> \/ id \in DoneUpTo' + 1..DoneUpTo' + CmdUsed'
                                   \/ \E k \in 1..CompUsed' : AnswerId(k)' = id
    BY <1>1, QueuedAfter
  <1>4. ASSUME NEW id
        PROVE  id \in DoneUpTo' + 1..DoneUpTo' + CmdUsed' <=>
               id \in DoneUpTo + 1..DoneUpTo + CmdUsed \/ id = nextId
    BY <1>1, <1>2
  <1>5. QED
    BY <1>1, <1>2, <1>3, <1>4

LEMMA DispatchQueued ==
    ASSUME CmdqInv, QueueOrder, DispatchOne, CmdqInv', CompUsed + 1 < CompDepth
    PROVE  \A id : (InQueue(id))' <=> InQueue(id)
  <1>1. /\ QueueOrder' /\ CmdUsed' = CmdUsed - 1 /\ CompUsed' = CompUsed + 1
        /\ DoneUpTo' = DoneUpTo + 1 /\ CmdUsed # 0
        /\ \A k \in 1..CompUsed : AnswerId(k)' = AnswerId(k)
        /\ PendingCompletions'[CompUsed + 1].id = DoneUpTo + 1
    BY DispatchOrder
  <1>2. /\ \A id : InQueue(id) <=> \/ id \in DoneUpTo + 1..DoneUpTo + CmdUsed
                                   \/ \E k \in 1..CompUsed : AnswerId(k) = id
        /\ DoneUpTo \in Nat /\ CmdUsed \in Nat /\ CompUsed \in Nat
    BY QueuedIds, QueueNumbers
  <1>3. \A id : (InQueue(id))' <=> \/ id \in DoneUpTo' + 1..DoneUpTo' + CmdUsed'
                                   \/ \E k \in 1..CompUsed' : AnswerId(k)' = id
    BY <1>1, QueuedAfter
  <1>4. ASSUME NEW id
        PROVE  id \in DoneUpTo + 1..DoneUpTo + CmdUsed <=>
               id \in DoneUpTo' + 1..DoneUpTo' + CmdUsed' \/ id = DoneUpTo + 1
    BY <1>1, <1>2
  <1>5. ASSUME NEW id
        PROVE  (\E k \in 1..CompUsed' : AnswerId(k)' = id) <=>
               (\E k \in 1..CompUsed : AnswerId(k) = id) \/ id = DoneUpTo + 1
    <2>1. \A k : k \in 1..CompUsed' <=> k \in 1..CompUsed \/ k = CompUsed + 1
      BY <1>1, <1>2
    <2>2. \A k : k = CompUsed + 1 => AnswerId(k)' = DoneUpTo + 1
      BY <1>1 DEF AnswerId
    <2>3. QED
      BY <1>1, <1>2, <2>1, <2>2
  <1>6. QED
    BY <1>2, <1>3, <1>4, <1>5

LEMMA PollQueued ==
    ASSUME CmdqInv, QueueOrder, PollCompletion, CmdqInv'
    PROVE  \A id : (InQueue(id))' <=> InQueue(id) /\ id # AnswerId(1)
  <1>1. /\ QueueOrder' /\ CmdUsed' = CmdUsed /\ CompUsed' = CompUsed - 1
        /\ DoneUpTo' = DoneUpTo /\ CompUsed # 0
        /\ \A k \in 1..CompUsed - 1 : AnswerId(k)' = AnswerId(k + 1)
    BY PollOrder
  <1>2. /\ \A id : InQueue(id) <=> \/ id \in DoneUpTo + 1..DoneUpTo + CmdUsed
                                   \/ \E k \in 1..CompUsed : AnswerId(k) = id
        /\ DoneUpTo \in Nat /\ CmdUsed \in Nat /\ CompUsed \in Nat
    BY QueuedIds, QueueNumbers
  <1>3. \A id : (InQueue(id))' <=> \/ id \in DoneUpTo' + 1..DoneUpTo' + CmdUsed'
                                   \/ \E k \in 1..CompUsed' : AnswerId(k)' = id
    BY <1>1, QueuedAfter
  <1>4. AnswerId(1) \in 1..DoneUpTo /\ 1 \in 1..CompUsed
    BY <1>1, <1>2 DEF QueueOrder
  <1>5. ASSUME NEW id
        PROVE  (\E k \in 1..CompUsed' : AnswerId(k)' = id) <=>
               (\E k \in 1..CompUsed : AnswerId(k) = id) /\ id # AnswerId(1)
    <2>1. ASSUME NEW k \in 1..CompUsed', AnswerId(k)' = id
          PROVE  (\E j \in 1..CompUsed : AnswerId(j) = id) /\ id # AnswerId(1)
      <3>1. k + 1 \in 1..CompUsed /\ 1 < k + 1 /\ AnswerId(k + 1) = id
        BY <1>1, <1>2, <2>1
      <3>2. AnswerId(1) < AnswerId(k + 1) /\ AnswerId(k + 1) \in 1..DoneUpTo
        BY <1>4, <3>1 DEF QueueOrder
      <3>3. QED
        BY <1>4, <3>1, <3>2
    <2>2. ASSUME NEW k \in 1..CompUsed, AnswerId(k) = id, id # AnswerId(1)
          PROVE  \E j \in 1..CompUsed' : AnswerId(j)' = id
      <3>1. k # 1
        BY <2>2
      <3>2. k - 1 \in 1..CompUsed - 1 /\ k - 1 + 1 = k
        BY <1>2, <3>1
      <3>3. AnswerId(k - 1 + 1) = id
        BY <2>2, <3>2
      <3>4. QED
        BY <1>1, <3>2, <3>3
    <2>3. QED
      BY <2>1, <2>2
  <1>6. ~(AnswerId(1) \in DoneUpTo + 1..DoneUpTo + CmdUsed)
    BY <1>2, <1>4
  <1>7. QED
    BY <1>1, <1>2, <1>3, <1>5, <1>6

\* A full table would hold more commands than the queue.
LEMMA TableHasRoom ==
    ASSUME CmdqInv, QueueOrder, TableOK, TableTypes, CmdUsed + CompUsed < DaemonXfers
    PROVE  \E s \in 1..DaemonXfers : table[s] = 0
  <1> DEFINE n == CmdUsed + CompUsed
             IdAt(p) == IF p <= CmdUsed THEN WaitingId(p) ELSE AnswerId(p - CmdUsed)
             f == [s \in 1..DaemonXfers |-> CHOOSE p \in 1..n : IdAt(p) = table[s]]
  <1>0. /\ CmdUsed \in Nat /\ CompUsed \in Nat /\ DaemonXfers \in Nat /\ n \in Nat
        /\ n < DaemonXfers
    BY QueueNumbers, EndpointConfigValid
  <1>1. ASSUME NEW id, InQueue(id)
        PROVE  \E p \in 1..n : IdAt(p) = id
    <2>1. CASE \E k \in 1..CmdUsed : WaitingId(k) = id
      <3>1. PICK k \in 1..CmdUsed : WaitingId(k) = id
        BY <2>1
      <3>2. k \in 1..n /\ k <= CmdUsed
        BY <1>0
      <3>3. QED
        BY <3>1, <3>2
    <2>2. CASE \E k \in 1..CompUsed : AnswerId(k) = id
      <3>1. PICK k \in 1..CompUsed : AnswerId(k) = id
        BY <2>2
      <3>2. PICK p \in 1..n : ~(p <= CmdUsed) /\ p - CmdUsed = k
        <4>1. CmdUsed + k \in 1..n /\ ~(CmdUsed + k <= CmdUsed) /\ CmdUsed + k - CmdUsed = k
          BY <1>0
        <4>2. QED
          BY <1>0, <4>1, SMT
      <3>3. IdAt(p) = id
        BY <3>1, <3>2
      <3>4. QED
        BY <3>3
    <2>3. QED
      BY <1>1, <2>1, <2>2 DEF InQueue
  <1> HIDE DEF IdAt, n
  <1>2. SUFFICES ASSUME \A s \in 1..DaemonXfers : table[s] # 0
                 PROVE  FALSE
    OBVIOUS
  <1>3. ASSUME NEW s \in 1..DaemonXfers
        PROVE  f[s] \in 1..n /\ IdAt(f[s]) = table[s]
    <2>1. \E p \in 1..n : IdAt(p) = table[s]
      BY <1>1, <1>2 DEF TableOK
    <2>2. QED
      BY <2>1
  <1>4. f \in [1..DaemonXfers -> 1..n]
    BY <1>3
  <1> HIDE DEF f
  <1>5. /\ IsFiniteSet(1..DaemonXfers) /\ IsFiniteSet(1..n)
        /\ Cardinality(1..n) < Cardinality(1..DaemonXfers)
    <2>1. /\ IsFiniteSet(1..DaemonXfers)
          /\ Cardinality(1..DaemonXfers) = IF 1 > DaemonXfers THEN 0 ELSE DaemonXfers - 1 + 1
      BY <1>0, FS_Interval
    <2>2. /\ IsFiniteSet(1..n)
          /\ Cardinality(1..n) = IF 1 > n THEN 0 ELSE n - 1 + 1
      BY <1>0, FS_Interval
    <2>3. QED
      BY <1>0, <2>1, <2>2
  <1>6. PICK s, t \in 1..DaemonXfers : s # t /\ f[s] = f[t]
    BY <1>4, <1>5, FS_PigeonHole
  <1>7. table[s] = table[t] /\ table[s] # 0
    BY <1>2, <1>3, <1>6
  <1>8. QED
    BY <1>6, <1>7 DEF TableOK

\* A new entry takes a free slot, as long as there is one.
LEMMA RegisteredFree ==
    ASSUME NEW n \in Nat \ {0}, NEW slots \in [1..n -> Nat], NEW id \in Nat,
           \E s \in 1..n : slots[s] = 0
    PROVE  \E s \in 1..n : slots[s] = 0 /\ Registered(slots, id) = [slots EXCEPT ![s] = id]
  <1> DEFINE free == {s \in DOMAIN slots : slots[s] = 0}
  <1>1. free \subseteq Nat /\ free # {}
    OBVIOUS
  <1>2. \E s \in free : \A t \in free : s <= t
    BY <1>1, LeastOf
  <1>3. (CHOOSE s \in free : \A t \in free : s <= t) \in free
    BY <1>2
  <1>4. Registered(slots, id) = [slots EXCEPT ![CHOOSE s \in free : \A t \in free : s <= t] = id]
    BY <1>1 DEF Registered
  <1> HIDE DEF free
  <1>5. PICK s \in free : Registered(slots, id) = [slots EXCEPT ![s] = id]
    BY <1>3, <1>4
  <1>6. QED
    BY <1>5 DEF free

LEMMA InitRoom == Init => Room
  <1> SUFFICES ASSUME Init
               PROVE  Room
    OBVIOUS
  <1>1. 0 - 0 = 0 /\ 0 % CmdDepth = 0 /\ 0 % CompDepth = 0
    BY ModSmall, DepthTypes
  <1>2. CmdUsed = 0 /\ CompUsed = 0
    BY <1>1 DEF Init, CmdqInit, CmdUsed, CompUsed
  <1>3. Cardinality(Debtors) \in Nat
    BY CountedClients DEF Debtors
  <1>4. InStep
    BY <1>2, <1>3 DEF InStep, Init, Alive
  <1>5. TableOK
    BY DEF Init, TableOK
  <1>6. QED
    BY <1>4, <1>5 DEF Room

\* A step changes whether one client is a debtor.
LEMMA DebtorsStep ==
    ASSUME NEW c \in Clients, OnlyOf(c)
    PROVE  /\ Cardinality(Debtors) \in Nat /\ Cardinality(Debtors') \in Nat
           /\ Cardinality(Debtors') = Cardinality(Debtors)
                + (IF Debtor(c)' THEN 1 ELSE 0) - (IF Debtor(c) THEN 1 ELSE 0)
  <1>1. Debtors \in SUBSET Clients /\ Debtors' \in SUBSET Clients
    BY DEF Debtors
  <1>2. Debtors \ {c} = Debtors' \ {c}
    BY DEF OnlyOf, Debtors, Debtor, Alive
  <1>3. /\ Counted(Debtors, c) = IF Debtor(c) THEN 1 ELSE 0
        /\ Counted(Debtors', c) = IF Debtor(c)' THEN 1 ELSE 0
    BY DEF Counted, Debtors
  <1>4. Cardinality(Debtors') = Cardinality(Debtors) + Counted(Debtors', c) - Counted(Debtors, c)
    BY <1>1, <1>2, RestAndOne
  <1>5. QED
    BY <1>1, <1>3, <1>4, CountedClients

\* The table is sound as long as queue, work and table are left alone.
LEMMA TableUnchanged ==
    ASSUME CmdqInv, QueueOrder, TableOK, UNCHANGED <<cmdVars, compVars, table, work>>
    PROVE  TableOK' /\ CmdUsed' = CmdUsed /\ CompUsed' = CompUsed
  <1>1. /\ CmdUsed' = CmdUsed /\ CompUsed' = CompUsed
        /\ PendingCommands' = PendingCommands /\ PendingCompletions' = PendingCompletions
    BY QuietOrder
  <1>2. \A id : (InQueue(id))' <=> InQueue(id)
    BY <1>1 DEF InQueue, WaitingId, AnswerId
  <1>3. QED
    BY <1>1, <1>2 DEF TableOK

\* An answer to a submission or a dispatch brings the call to its next step.
LEMMA ReceiveGoesOn ==
    ASSUME Wire, NEW c \in Clients, Receive(c), answer[c].kind = "ok"
    PROVE  /\ call[c].stage = "submit" => call'[c].stage = "dispatch"
           /\ call[c].stage = "dispatch" => call'[c].stage = "poll"
  <1>1. call[c] \in Calls /\ call'[c] = Progress(c, Usable(c, answer[c]))
    BY ReceiveMoves DEF Wire, WireTypes
  <1>2. call[c].stage # "poll" => Usable(c, answer[c]) = answer[c]
    BY DEF Usable
  <1>3. CASE call[c].stage = "submit"
    BY <1>1, <1>2, <1>3 DEF Progress, Calls
  <1>4. CASE call[c].stage = "dispatch"
    BY <1>1, <1>2, <1>4 DEF Progress, Calls
  <1>5. QED
    BY <1>3, <1>4

LEMMA ClientRoom ==
    ASSUME CmdqInv, QueueOrder, Wire, Room, NEW c \in Clients, ClientStep(c)
    PROVE  Room'
  <1>0. /\ WireTypes /\ WireOf(c)
        /\ NoCall.op = "none" /\ NoCall.stage = "none" /\ NoMessage.kind = "none"
        /\ NoMessage # FailedAnswer
    BY DEF Wire, NoCall, NoMessage, FailedAnswer
  <1>1. /\ UNCHANGED <<cmdVars, compVars, table, work, daemon>>
        /\ TableOK' /\ CmdUsed' = CmdUsed /\ CompUsed' = CompUsed
    <2>1. UNCHANGED <<cmdVars, compVars, table, work, daemon>>
      BY ClientStepWire DEF quietVars, cmdqVars, cmdVars, compVars, daemonVars
    <2>2. QED
      BY <2>1, TableUnchanged DEF Room
  <1>2. CASE daemon = "down"
    BY <1>1, <1>2 DEF Room
  <1>3. CASE daemon # "down"
    <2>0. CmdUsed + CompUsed <= Cardinality(Debtors) /\ CmdUsed \in Nat /\ CompUsed \in Nat
      BY <1>3, QueueNumbers DEF Room, InStep
    <2>1. Alive(c) => StageOK(c)
      BY <1>3 DEF Room, InStep
    <2>2. ASSUME OnlyOf(c), Debtor(c) => Debtor(c)', Alive(c)' => StageOK(c)'
          PROVE  Room'
      <3>1. CmdUsed' + CompUsed' <= Cardinality(Debtors)'
        BY <1>1, <2>0, <2>2, DebtorsStep
      <3>2. ASSUME NEW d \in Clients \ {c}, Alive(d)'
            PROVE  StageOK(d)'
        <4>1. StageOK(d)
          BY <1>3, <2>2, <3>2 DEF Room, InStep, OnlyOf, Alive
        <4>2. QED
          BY <1>1, <2>2, <4>1 DEF StageOK, OnlyOf
      <3>3. QED
        BY <1>1, <2>2, <3>1, <3>2 DEF Room, InStep
    <2>3. CASE Connect(c)
      <3>1. /\ phase[c] = "out" /\ phase' = [phase EXCEPT ![c] = "idle"]
            /\ UNCHANGED <<call, request, answer>>
        BY <2>3 DEF Connect
      <3>2. OnlyOf(c) /\ call'[c] = NoCall /\ answer'[c] = NoMessage
        BY <1>0, <3>1 DEF OnlyOf, WireTypes, WireOf
      <3>3. QED
        BY <1>0, <2>2, <3>1, <3>2 DEF Debtor, StageOK, Alive
    <2>4. ASSUME NEW op, NEW stage, Beginning(c, op, stage)
          PROVE  Room'
      <3>1. /\ ClientMoves(c) /\ phase[c] = "idle" /\ phase' = phase /\ answer' = answer
            /\ call[c] = NoCall /\ call'[c] = [op |-> op, stage |-> stage, id |-> 0]
        BY <2>4, BeginMoves DEF Beginning
      <3>2. answer'[c] = NoMessage /\ call'[c].stage \notin {"dispatch", "poll"}
        BY <1>0, <2>4, <3>1, OpKinds DEF WireOf, Beginning
      <3>3. OnlyOf(c)
        BY <3>1 DEF ClientMoves, OnlyOf
      <3>4. QED
        BY <1>0, <2>2, <3>1, <3>2, <3>3 DEF Debtor, StageOK, Alive
    <2>5. CASE Send(c)
      <3>1. /\ phase[c] = "idle" /\ answer' = answer /\ call' = call
            /\ phase' = [phase EXCEPT ![c] = "sent"]
            /\ request' = [request EXCEPT ![c] = [kind |-> call[c].stage, op |-> call[c].op]]
        BY <1>3, <2>5 DEF Send
      <3>2. OnlyOf(c) /\ phase'[c] = "sent"
        BY <1>0, <3>1 DEF OnlyOf, WireTypes
      <3>3. StageOK(c)
        BY <2>1, <3>1 DEF Alive
      <3>4. QED
        BY <1>1, <2>2, <3>1, <3>2, <3>3 DEF Debtor, StageOK, Alive
    <2>6. CASE Receive(c)
      <3>1. /\ ClientMoves(c) /\ phase[c] = "sent" /\ answer[c] \in Answers
            /\ answer'[c] = NoMessage /\ request' = request
            /\ phase'[c] = IF call[c].stage = "shutdown" THEN "gone" ELSE "idle"
            /\ \/ call'[c] = NoCall
               \/ /\ answer[c] \in OkAnswers /\ call[c].stage = "submit"
                  /\ call'[c] = [op |-> call[c].op, stage |-> "dispatch", id |-> answer[c].id]
               \/ /\ answer[c] \in OkAnswers /\ call[c].stage = "dispatch"
                  /\ call'[c] = [op |-> call[c].op, stage |-> "poll", id |-> call[c].id]
               \/ /\ answer[c] \in OkAnswers /\ call[c].stage = "poll" /\ call[c].op = "load"
                  /\ call'[c] = [op |-> "run", stage |-> "submit", id |-> 0]
        BY <2>6, ReceiveMoves
      <3>2. OnlyOf(c) /\ StageOK(c)
        BY <2>1, <3>1 DEF ClientMoves, OnlyOf, Alive
      <3>3. answer[c] \in OkAnswers <=> answer[c].kind = "ok"
        BY <3>1, MessageKinds DEF Answers
      <3>4. answer[c] # FailedAnswer => answer[c].kind = "ok"
        BY <3>1, <3>3 DEF Answers
      <3>5. /\ call[c].stage = "submit" /\ answer[c].kind = "ok" => call'[c].stage = "dispatch"
            /\ call[c].stage = "dispatch" /\ answer[c].kind = "ok" => call'[c].stage = "poll"
        BY <2>6, ReceiveGoesOn
      <3>6. Debtor(c) => Debtor(c)'
        BY <3>1, <3>2, <3>4, <3>5, <1>0 DEF Debtor, StageOK, Alive
      <3>7. StageOK(c)'
        BY <1>0, <1>1, <3>1, <3>2, <3>3 DEF StageOK
      <3>8. QED
        BY <2>2, <3>2, <3>6, <3>7
    <2>7. ~ReceiveNothing(c)
      BY <1>3, ReceiveNothingWire
    <2>8. CASE Destroy(c)
      <3>1. /\ ClientMoves(c) /\ phase[c] = "idle" /\ call[c] = NoCall
            /\ call'[c].stage = "shutdown" /\ UNCHANGED <<phase, request, answer>>
        BY <2>8, DestroyWire
      <3>2. OnlyOf(c)
        BY <3>1 DEF ClientMoves, OnlyOf
      <3>3. QED
        BY <1>0, <2>2, <3>1, <3>2 DEF Debtor, StageOK, Alive
    <2>9. CASE Die(c)
      <3>1. /\ ClientMoves(c) /\ Alive(c) /\ phase'[c] = "gone" /\ request' = request
        BY <2>9, DieWire
      <3>2. OnlyOf(c) /\ ~(Alive(c))'
        BY <3>1 DEF ClientMoves, OnlyOf, Alive
      <3>3. request[c] # NoMessage =>
                phase[c] = "sent" /\ answer[c] = NoMessage /\ request[c].kind = call[c].stage
        BY <1>0, <3>1 DEF WireOf, Alive
      <3>4. Debtor(c) => Debtor(c)'
        BY <1>0, <3>1, <3>3 DEF Debtor, Alive
      <3>5. QED
        BY <2>2, <3>2, <3>4
    <2>10. QED
      BY <2>3, <2>4, <2>5, <2>6, <2>7, <2>8, <2>9, ClientCases
  <1>4. QED
    BY <1>2, <1>3

\* Whether the client served is a debtor, before and after it is answered.
LEMMA ServedDebtor ==
    ASSUME Wire, NEW kind, Requested(kind), kind # "none", NEW m \in Answers, Respond(m),
           NEW s, s = Served
    PROVE  /\ s \in Clients /\ OnlyOf(s) /\ daemon = "up" /\ request[s] # NoMessage
           /\ (Alive(s))' = Alive(s)
           /\ ~Alive(s) => daemon' = "down" /\ phase[s] = "gone"
           /\ Alive(s) => /\ call[s].stage = kind /\ call'[s] = call[s]
                          /\ call[s].op = request[s].op
                          /\ answer[s] = NoMessage /\ answer'[s] = m
                          /\ Debtor(s) <=> kind \in {"dispatch", "poll"}
                          /\ (Debtor(s))' <=> \/ kind = "submit" /\ m.kind = "ok"
                                              \/ kind = "dispatch"
                                              \/ kind = "poll" /\ m.kind # "ok"
           /\ \A d \in Clients : d # s /\ Alive(d)' => (StageOK(d))'
  <1>1. /\ s \in Clients /\ request[s] # NoMessage /\ request[s].kind = kind /\ WireOf(s)
        /\ s = Head(line) /\ WireTypes /\ daemon = "up" /\ NoMessage.kind = "none"
    BY RequestedMeans DEF Wire, NoMessage
  <1>2. /\ request' = [request EXCEPT ![s] = NoMessage]
        /\ answer' = IF Alive(s) THEN [answer EXCEPT ![s] = m] ELSE answer
        /\ ~Alive(s) => daemon' = "down"
        /\ phase' = phase /\ call' = call
    BY DEF Respond, clientVars
  <1>3. OnlyOf(s) /\ (Alive(s))' = Alive(s)
    BY <1>1, <1>2 DEF OnlyOf, WireTypes, Alive
  <1>4. ~Alive(s) => phase[s] = "gone"
    BY <1>1 DEF WireOf, WireTypes, Alive
  <1>5. Alive(s) => /\ call[s].stage = kind /\ call'[s] = call[s]
                    /\ call[s].op = request[s].op /\ phase[s] = "sent"
                    /\ answer[s] = NoMessage /\ answer'[s] = m
    BY <1>1, <1>2 DEF WireOf, WireTypes, Alive
  <1>6. Alive(s) => (Debtor(s) <=> kind \in {"dispatch", "poll"})
    BY <1>1, <1>5 DEF Debtor, Alive
  <1>7. Alive(s) => ((Debtor(s))' <=> \/ kind = "submit" /\ m.kind = "ok"
                                      \/ kind = "dispatch"
                                      \/ kind = "poll" /\ m.kind # "ok")
    BY <1>2, <1>3, <1>5 DEF Debtor, Alive
  <1>8. ASSUME NEW d \in Clients, d # s, Alive(d)'
        PROVE  StageOK(d)'
    <2>1. Alive(d) /\ answer'[d] = answer[d] /\ call'[d] = call[d]
      BY <1>3, <1>8 DEF OnlyOf, Alive
    <2>2. answer[d] = NoMessage /\ call[d].stage \notin {"dispatch", "poll"}
      BY <1>1, <1>8, <2>1, ResultsOfOthers
    <2>3. QED
      BY <1>1, <2>1, <2>2 DEF StageOK
  <1>9. QED
    BY <1>1, <1>2, <1>3, <1>4, <1>5, <1>6, <1>7, <1>8

LEMMA UsedAfter == CmdqInv' => CmdUsed' \in Nat /\ CompUsed' \in Nat
  <1>1. CmdqInv => CmdUsed \in Nat /\ CompUsed \in Nat
    BY QueueNumbers
  <1>2. CmdqInv' => (CmdUsed \in Nat /\ CompUsed \in Nat)'
    BY <1>1, PTL
  <1>3. QED
    BY <1>2

LEMMA DebtsAddUp ==
    ASSUME NEW cmd \in Nat, NEW comp \in Nat, NEW cmdThen \in Nat, NEW compThen \in Nat,
           NEW debts \in Nat, NEW debtsThen \in Nat, NEW before \in 0..1, NEW after \in 0..1,
           cmd + comp <= debts, debtsThen = debts + after - before,
           cmdThen + compThen + before <= cmd + comp + after
    PROVE  cmdThen + compThen <= debtsThen
  OBVIOUS

LEMMA RespondRoom ==
    ASSUME CmdqInv, QueueOrder, CmdqInv', QueueOrder', Wire, Room,
           NEW kind, Requested(kind), kind # "none", NEW m \in Answers, Respond(m),
           NEW s, s = Served, TableOK',
           Alive(s) => /\ StageOK(s)'
                       /\ CmdUsed' + CompUsed' + (IF Debtor(s) THEN 1 ELSE 0)
                             <= CmdUsed + CompUsed + (IF Debtor(s)' THEN 1 ELSE 0)
    PROVE  Room'
  <1>1. /\ s \in Clients /\ OnlyOf(s) /\ daemon = "up" /\ (Alive(s))' = Alive(s)
        /\ ~Alive(s) => daemon' = "down"
        /\ \A d \in Clients : d # s /\ Alive(d)' => (StageOK(d))'
    BY ServedDebtor
  <1>2. CmdUsed + CompUsed <= Cardinality(Debtors)
    BY <1>1 DEF Room, InStep
  <1>3. CmdUsed \in Nat /\ CompUsed \in Nat
    BY QueueNumbers
  <1>4. CmdUsed' \in Nat /\ CompUsed' \in Nat
    BY UsedAfter
  <1>5. CASE Alive(s)
    <2> DEFINE before == IF Debtor(s) THEN 1 ELSE 0
               after == IF Debtor(s)' THEN 1 ELSE 0
    <2>1. /\ Cardinality(Debtors) \in Nat /\ Cardinality(Debtors') \in Nat
          /\ Cardinality(Debtors') = Cardinality(Debtors) + after - before
      BY <1>1, DebtorsStep
    <2>2. CmdUsed' + CompUsed' + before <= CmdUsed + CompUsed + after
      BY <1>5
    <2>3. CmdUsed' + CompUsed' <= Cardinality(Debtors')
      <3>1. before \in 0..1 /\ after \in 0..1
        OBVIOUS
      <3> HIDE DEF before, after
      <3>2. QED
        BY <1>2, <1>3, <1>4, <2>1, <2>2, <3>1, DebtsAddUp, Zenon
    <2>4. InStep'
      BY <1>1, <1>5, <2>3 DEF InStep
    <2>5. QED
      BY <2>4 DEF Room
  <1>6. CASE ~Alive(s)
    BY <1>1, <1>6 DEF Room
  <1>7. QED
    BY <1>5, <1>6

\* A command submitted finds a free slot: its client had none in the queue before.
LEMMA SubmitRoom ==
    ASSUME RoomForAll, CmdqInv, QueueOrder, CmdqInv', QueueOrder', Wire, WorkTypes, TableTypes,
           Room, ServeSubmit
    PROVE  Room'
  <1>s. PICK s : s = Served
    OBVIOUS
  <1>0. OkAnswers \subseteq Answers /\ FailedAnswer \in Answers /\ Requested("submit")
    BY ServeSubmitCases DEF Answers
  <1>1. TableOK /\ CmdUsed \in Nat /\ CompUsed \in Nat /\ nextId \in Nat \ {0}
    BY QueueNumbers DEF Room
  <1>2. CASE Respond(FailedAnswer) /\ UNCHANGED <<table, work, cmdVars, compVars>>
    <2>1. TableOK' /\ CmdUsed' = CmdUsed /\ CompUsed' = CompUsed
      BY <1>1, <1>2, TableUnchanged
    <2>2. Alive(s) => /\ call'[s].stage = "submit" /\ answer'[s] = FailedAnswer
                      /\ ~Debtor(s)
      BY <1>s, <1>0, <1>2, ServedDebtor
    <2>3. Alive(s) => StageOK(s)'
      BY <2>2, MessageKinds DEF StageOK
    <2>4. QED
      BY <1>s, <1>0, <1>1, <1>2, <2>1, <2>2, <2>3, RespondRoom
  <1>3. CASE /\ Respond(OkAnswer(nextId, 0)) /\ OkAnswer(nextId, 0) \in OkAnswers
             /\ Submit(0, "exec", FALSE)
             /\ work' = Append(work, [client |-> Served, op |-> request[Served].op])
             /\ table' = IF request[Served].op \in ResultCommands
                         THEN Registered(table, nextId) ELSE table
    <2> DEFINE m == OkAnswer(nextId, 0)
               w == [client |-> s, op |-> request[s].op]
    <2>0. m \in Answers /\ m.kind = "ok" /\ m # FailedAnswer
      BY <1>0, <1>3, MessageKinds
    <2> HIDE DEF m
    <2>1. /\ s \in Clients /\ OnlyOf(s) /\ daemon = "up" /\ request[s] # NoMessage
          /\ request[s].kind = "submit"
          /\ ~Alive(s) => phase[s] = "gone"
          /\ Alive(s) => /\ call[s].stage = "submit" /\ call'[s] = call[s]
                         /\ answer'[s] = m /\ ~Debtor(s) /\ (Debtor(s))'
      BY <1>s, <1>0, <1>3, <2>0, ServedDebtor DEF Requested, m
    <2>2. ~Debtor(s)
      BY <2>1 DEF Debtor
    <2>3. CmdUsed' = CmdUsed + 1 /\ CompUsed' = CompUsed
      BY <1>3, SubmitOrder
    <2>4. \A id : (InQueue(id))' <=> InQueue(id) \/ id = nextId
      BY <1>3, SubmitQueued
    <2>5. CmdUsed + CompUsed < DaemonXfers
      <3>1. /\ IsFiniteSet(Clients) /\ Clients \in SUBSET Clients
            /\ Cardinality(Clients \ {s}) = Cardinality(Clients) - 1
            /\ Cardinality(Clients) \in Nat
        BY <2>1, CountedClients
      <3>2. /\ Clients \ {s} \in SUBSET Clients /\ Debtors \in SUBSET (Clients \ {s})
        BY <2>2 DEF Debtors
      <3>3. Cardinality(Debtors) <= Cardinality(Clients \ {s}) /\ Cardinality(Debtors) \in Nat
        BY <3>2, CountedClients
      <3>4. CmdUsed + CompUsed <= Cardinality(Debtors)
        BY <2>1 DEF Room, InStep
      <3>5. QED
        BY <1>1, <3>1, <3>3, <3>4, EndpointConfigValid DEF RoomForAll
    <2>6. PICK f \in 1..DaemonXfers :
              table[f] = 0 /\ Registered(table, nextId) = [table EXCEPT ![f] = nextId]
      <3>1. \E t \in 1..DaemonXfers : table[t] = 0
        BY <1>1, <2>5, TableHasRoom
      <3>2. table \in [1..DaemonXfers -> Nat] /\ DaemonXfers \in Nat \ {0} /\ nextId \in Nat
        BY <1>1, EndpointConfigValid DEF TableTypes
      <3>3. QED
        BY <3>1, <3>2, RegisteredFree
    <2>7. /\ \A id : InQueue(id) => id \in 1..Len(work)
          /\ Len(work) = nextId - 1 /\ work \in Seq(Works) /\ Len(work) \in Nat
      BY QueuedIds DEF WorkTypes
    <2>8. /\ work' = Append(work, w)
          /\ table' = IF w.op \in ResultCommands THEN [table EXCEPT ![f] = nextId] ELSE table
          /\ w.op = request[s].op
      BY <1>s, <1>3, <2>6, <2>7
    <2> HIDE DEF w
    <2>9. /\ Len(work') = Len(work) + 1
          /\ work'[nextId] = w /\ \A k \in 1..Len(work) : work'[k] = work[k]
          /\ ~InQueue(nextId) /\ nextId # 0
      BY <1>1, <2>7, <2>8
    <2>10. table \in [1..DaemonXfers -> Nat]
      BY DEF TableTypes
    <2>11. \A t \in 1..DaemonXfers : table'[t] # table[t] => t = f /\ table'[t] = nextId
      BY <2>8, <2>10
    <2>12. TableOK'
      <3>1. ASSUME NEW t \in 1..DaemonXfers, table'[t] # 0
            PROVE  (InQueue(table[t]))'
        <4>1. CASE table'[t] = table[t]
          <5>1. InQueue(table[t])
            BY <1>1, <3>1, <4>1 DEF TableOK
          <5>2. PICK id : id = table'[t]
            OBVIOUS
          <5>3. (InQueue(id))'
            BY <2>4, <4>1, <5>1, <5>2
          <5>4. QED
            BY <5>2, <5>3 DEF InQueue
        <4>2. CASE table'[t] = nextId
          <5>1. PICK id : id = nextId
            OBVIOUS
          <5>2. (InQueue(id))'
            BY <2>4, <5>1
          <5>3. QED
            BY <4>2, <5>1, <5>2 DEF InQueue
        <4>3. QED
          BY <2>11, <4>1, <4>2
      <3>2. \A t \in 1..DaemonXfers : table[t] # nextId
        BY <1>1, <2>9 DEF TableOK
      <3>3. ASSUME NEW t \in 1..DaemonXfers, NEW u \in 1..DaemonXfers,
                   table'[t] = table'[u], table'[t] # 0
            PROVE  t = u
        <4>1. CASE table'[t] = table[t] /\ table'[u] = table[u]
          BY <1>1, <3>3, <4>1 DEF TableOK
        <4>2. CASE ~(table'[t] = table[t] /\ table'[u] = table[u])
          BY <2>11, <3>2, <3>3, <4>2
        <4>3. QED
          BY <4>1, <4>2
      <3>4. ASSUME NEW id \in 1..Len(work'), InQueue(id)', work'[id].op \in ResultCommands
            PROVE  Holds(table', id)
        <4>1. DOMAIN table = 1..DaemonXfers /\ DOMAIN table' = 1..DaemonXfers
          BY <2>8, <2>10
        <4>2. CASE id = nextId
          <5>1. table'[f] = id
            BY <2>8, <2>9, <2>10, <3>4, <4>2
          <5>2. QED
            BY <4>1, <5>1 DEF Holds
        <4>3. CASE id # nextId
          <5>1. InQueue(id) /\ id \in 1..Len(work) /\ work[id].op \in ResultCommands
            BY <2>4, <2>7, <2>9, <3>4, <4>3
          <5>2. PICK t \in 1..DaemonXfers : table[t] = id
            BY <1>1, <4>1, <5>1 DEF TableOK, Holds
          <5>3. table'[t] = table[t]
            <6>1. id # 0
              BY <5>1, <2>7
            <6>2. t # f
              BY <2>6, <5>2, <6>1
            <6>3. QED
              BY <2>11, <6>2
          <5>4. QED
            BY <4>1, <5>2, <5>3 DEF Holds
        <4>4. QED
          BY <4>2, <4>3
      <3>5. QED
        BY <3>1, <3>3, <3>4 DEF TableOK
    <2>13. Alive(s) => StageOK(s)'
      BY <1>1, <2>0, <2>1, <2>3 DEF StageOK
    <2>14. Respond(m)
      BY <1>3 DEF m
    <2>15. Alive(s) => CmdUsed' + CompUsed' + (IF Debtor(s) THEN 1 ELSE 0)
                          <= CmdUsed + CompUsed + (IF Debtor(s)' THEN 1 ELSE 0)
      BY <1>1, <2>1, <2>2, <2>3
    <2>16. QED
      BY <1>s, <1>0, <2>0, <2>12, <2>13, <2>14, <2>15, RespondRoom
  <1>4. QED
    BY <1>2, <1>3, ServeSubmitCases

\* A dispatch finds room for the completion, and nothing leaves the queue.
LEMMA DispatchRoom ==
    ASSUME RoomForAll, CmdqInv, QueueOrder, CmdqInv', QueueOrder', Wire, Room, ServeDispatch
    PROVE  Room'
  <1>s. PICK s : s = Served
    OBVIOUS
  <1>0. OkAnswers \subseteq Answers /\ FailedAnswer \in Answers /\ Requested("dispatch")
    BY ServeDispatchCases DEF Answers
  <1>1. TableOK /\ CmdUsed \in Nat /\ CompUsed \in Nat
    BY QueueNumbers DEF Room
  <1>2. table' = table /\ work' = work
    BY ServeDispatchCases
  <1>3. CASE Respond(FailedAnswer) /\ CmdUsed = 0 /\ UNCHANGED cmdqVars
    <2>1. TableOK' /\ CmdUsed' = CmdUsed /\ CompUsed' = CompUsed
      BY <1>1, <1>2, <1>3, TableUnchanged DEF cmdqVars, cmdVars, compVars
    <2>2. /\ s \in Clients /\ daemon = "up"
          /\ Alive(s) => call[s].stage = "dispatch" /\ answer[s] = NoMessage
      BY <1>s, <1>0, <1>3, ServedDebtor
    <2>3. ~Alive(s)
      BY <1>3, <2>2 DEF Room, InStep, StageOK
    <2>4. QED
      BY <1>s, <1>0, <1>3, <2>1, <2>3, RespondRoom
  <1>4. CASE DispatchOne
    <2>1. CmdUsed + CompUsed <= Cardinality(Debtors) /\ CmdUsed # 0
      BY <1>0, <1>4, DispatchOrder DEF Room, InStep, Requested
    <2>2. /\ Cardinality(Debtors) <= Cardinality(Clients)
          /\ Cardinality(Debtors) \in Nat /\ Cardinality(Clients) \in Nat
      <3>1. Debtors \in SUBSET Clients /\ Clients \in SUBSET Clients
        BY DEF Debtors
      <3>2. QED
        BY <3>1, CountedClients
    <2>3. CompUsed + 1 < CompDepth /\ CompDepth \in Nat
      BY <1>1, <2>1, <2>2, DepthTypes DEF RoomForAll
    <2>4. Respond(OkAnswer(0, 0)) /\ OkAnswer(0, 0) \in OkAnswers
      <3>1. CompUsed + 1 >= CompDepth => FALSE
        BY <1>1, <2>3
      <3>2. QED
        BY <1>4, <2>1, <3>1, ServeDispatchCases
    <2>5. CmdUsed' = CmdUsed - 1 /\ CompUsed' = CompUsed + 1
      BY <1>4, <2>3, DispatchOrder
    <2>6. \A id : (InQueue(id))' <=> InQueue(id)
      BY <1>4, <2>3, DispatchQueued
    <2>7. TableOK'
      BY <1>1, <1>2, <2>6 DEF TableOK
    <2>8. Alive(s) => /\ call'[s].stage = "dispatch" /\ answer'[s] = OkAnswer(0, 0)
                      /\ Debtor(s) /\ (Debtor(s))'
      BY <1>s, <1>0, <2>4, ServedDebtor
    <2>9. OkAnswer(0, 0) # FailedAnswer /\ OkAnswer(0, 0) # NoMessage
      BY <1>0, <2>4, MessageKinds
    <2>10. Alive(s) => StageOK(s)'
      BY <1>1, <2>5, <2>8, <2>9 DEF StageOK
    <2>11. Alive(s) => CmdUsed' + CompUsed' + (IF Debtor(s) THEN 1 ELSE 0)
                          <= CmdUsed + CompUsed + (IF Debtor(s)' THEN 1 ELSE 0)
      BY <1>1, <2>5, <2>8
    <2>12. QED
      BY <1>s, <1>0, <2>4, <2>7, <2>10, <2>11, RespondRoom
  <1>5. QED
    BY <1>3, <1>4, ServeDispatchCases

\* A poll takes the oldest completion and its entry.
LEMMA PollRoom ==
    ASSUME CmdqInv, QueueOrder, CmdqInv', QueueOrder', Wire, WorkTypes, TableTypes, Room,
           ServePoll
    PROVE  Room'
  <1>s. PICK s : s = Served
    OBVIOUS
  <1>0. OkAnswers \subseteq Answers /\ FailedAnswer \in Answers /\ Requested("poll")
    BY ServePollCases DEF Answers
  <1>1. TableOK /\ CmdUsed \in Nat /\ CompUsed \in Nat
    BY QueueNumbers DEF Room
  <1>2. work' = work
    BY ServePollCases
  <1>3. CASE Respond(FailedAnswer) /\ CompUsed = 0 /\ UNCHANGED <<cmdqVars, table>>
    <2>1. TableOK' /\ CmdUsed' = CmdUsed /\ CompUsed' = CompUsed
      BY <1>1, <1>2, <1>3, TableUnchanged DEF cmdqVars, cmdVars, compVars
    <2>2. /\ s \in Clients /\ daemon = "up"
          /\ Alive(s) => call[s].stage = "poll" /\ answer[s] = NoMessage
      BY <1>s, <1>0, <1>3, ServedDebtor
    <2>3. ~Alive(s)
      BY <1>3, <2>2 DEF Room, InStep, StageOK
    <2>4. QED
      BY <1>s, <1>0, <1>3, <2>1, <2>3, RespondRoom
  <1>4. CASE /\ PollCompletion /\ table' = Cleared(table, AnswerId(1))
             /\ Respond(PollAnswer) /\ PollAnswer \in OkAnswers
             /\ AnswerId(1) \in Nat \ {0}
    <2> DEFINE a == AnswerId(1)
    <2>0. \A t \in 1..DaemonXfers : table'[t] = IF table[t] = a THEN 0 ELSE table[t]
      BY <1>4 DEF Cleared, TableTypes
    <2>1. DOMAIN table' = 1..DaemonXfers /\ DOMAIN table = 1..DaemonXfers /\ a # 0
      BY <1>4 DEF Cleared, TableTypes
    <2>2. CmdUsed' = CmdUsed /\ CompUsed' = CompUsed - 1 /\ CompUsed # 0
      BY <1>4, PollOrder
    <2>3. \A id : (InQueue(id))' <=> InQueue(id) /\ id # a
      BY <1>4, PollQueued
    <2>4. \A id : InQueue(id) => id \in 1..Len(work)
      BY QueuedIds DEF WorkTypes
    <2>5. work \in Seq(Works) /\ Len(work) \in Nat
      BY DEF WorkTypes
    <2> HIDE DEF a
    <2>6. TableOK'
      <3>1. ASSUME NEW t \in 1..DaemonXfers, table'[t] # 0
            PROVE  (InQueue(table[t]))'
        <4>1. table'[t] = table[t] /\ table[t] # a /\ InQueue(table[t])
          BY <1>1, <2>0, <3>1 DEF TableOK
        <4>2. PICK id : id = table[t]
          OBVIOUS
        <4>3. (InQueue(id))'
          BY <2>3, <4>1, <4>2
        <4>4. table'[t] = id
          BY <4>1, <4>2
        <4>5. QED
          BY <4>3, <4>4 DEF InQueue
      <3>2. ASSUME NEW t \in 1..DaemonXfers, NEW u \in 1..DaemonXfers,
                   table'[t] = table'[u], table'[t] # 0
            PROVE  t = u
        BY <1>1, <2>0, <3>2 DEF TableOK
      <3>3. ASSUME NEW id \in 1..Len(work'), InQueue(id)', work'[id].op \in ResultCommands
            PROVE  Holds(table', id)
        <4>1. InQueue(id) /\ id # a /\ id \in 1..Len(work) /\ work[id].op \in ResultCommands
          BY <1>2, <2>3, <3>3
        <4>2. PICK t \in 1..DaemonXfers : table[t] = id
          BY <1>1, <2>1, <4>1 DEF TableOK, Holds
        <4>3. table'[t] = id
          BY <2>0, <4>1, <4>2
        <4>4. QED
          BY <2>1, <4>3 DEF Holds
      <3>4. QED
        BY <3>1, <3>2, <3>3 DEF TableOK
    <2>7. Alive(s) => /\ call'[s].stage = "poll" /\ answer'[s] = PollAnswer
                      /\ Debtor(s) /\ ~(Debtor(s))'
      <3>1. PollAnswer.kind = "ok" /\ PollAnswer \in Answers
        BY <1>0, <1>4, MessageKinds
      <3>2. QED
        BY <1>s, <1>0, <1>4, <3>1, ServedDebtor
    <2>8. PollAnswer # FailedAnswer /\ PollAnswer # NoMessage
      BY <1>0, <1>4, MessageKinds
    <2>9. Alive(s) => StageOK(s)'
      BY <2>7, <2>8 DEF StageOK
    <2>10. Alive(s) => CmdUsed' + CompUsed' + (IF Debtor(s) THEN 1 ELSE 0)
                          <= CmdUsed + CompUsed + (IF Debtor(s)' THEN 1 ELSE 0)
      BY <1>1, <2>2, <2>7
    <2>11. QED
      BY <1>s, <1>0, <1>4, <2>6, <2>9, <2>10, RespondRoom
  <1>5. QED
    BY <1>3, <1>4, ServePollCases

LEMMA OtherRoom ==
    ASSUME CmdqInv, QueueOrder, CmdqInv', QueueOrder', Wire, Room, ServeOther
    PROVE  Room'
  <1>s. PICK s : s = Served
    OBVIOUS
  <1> DEFINE m == OkAnswer(0, 0)
  <1>0. m \in Answers /\ Respond(m)
    BY ServeOtherCases DEF Answers
  <1> HIDE DEF m
  <1>1. PICK op \in CallArgs \cup {"shutdown"} : Requested(op) /\ op # "none"
    BY ServeOtherCases
  <1>2. op \notin {"submit", "dispatch", "poll"}
    BY OpKinds
  <1>3. TableOK' /\ CmdUsed' = CmdUsed /\ CompUsed' = CompUsed
    BY ServeOtherCases, TableUnchanged DEF Room, cmdqVars, cmdVars, compVars, daemonVars
  <1>4. Alive(s) => /\ call'[s].stage = op /\ ~Debtor(s) /\ ~(Debtor(s))'
    BY <1>s, <1>0, <1>1, <1>2, ServedDebtor
  <1>5. Alive(s) => StageOK(s)'
    BY <1>2, <1>4 DEF StageOK
  <1>6. CmdUsed \in Nat /\ CompUsed \in Nat
    BY QueueNumbers
  <1>7. Alive(s) => CmdUsed' + CompUsed' + (IF Debtor(s) THEN 1 ELSE 0)
                       <= CmdUsed + CompUsed + (IF Debtor(s)' THEN 1 ELSE 0)
    BY <1>3, <1>4, <1>6
  <1>8. QED
    BY <1>s, <1>0, <1>1, <1>3, <1>5, <1>7, RespondRoom

LEMMA NextRoom ==
    ASSUME RoomForAll, CmdqInv, QueueOrder, CmdqInv', QueueOrder', Wire, WorkTypes, TableTypes,
           Room, [Next]_vars
    PROVE  Room'
  <1>1. ASSUME UNCHANGED <<cmdVars, compVars, table, work, phase, call, request, answer>>,
               daemon' # "down" => daemon # "down"
        PROVE  Room'
    <2>1. TableOK' /\ CmdUsed' = CmdUsed /\ CompUsed' = CompUsed
      BY <1>1, TableUnchanged DEF Room
    <2>2. Debtors' = Debtors
      BY <1>1 DEF Debtors, Debtor, Alive
    <2>3. InStep => InStep'
      BY <1>1, <2>1, <2>2 DEF InStep, StageOK, Alive
    <2>4. QED
      BY <1>1, <2>1, <2>3 DEF Room
  <1>2. CASE Boot
    BY <1>1, <1>2, BootWire DEF Boot, clientVars, daemonVars
  <1>3. CASE Serve
    BY <1>3, SubmitRoom, DispatchRoom, PollRoom, OtherRoom DEF Serve
  <1>4. CASE NextClient
    BY <1>1, <1>4 DEF NextClient, clientVars, daemonVars, cmdqVars, cmdVars, compVars
  <1>5. ASSUME NEW c \in Clients, ClientStep(c)
        PROVE  Room'
    BY <1>5, ClientRoom
  <1>6. CASE UNCHANGED vars
    BY <1>1, <1>6 DEF vars, clientVars, daemonVars, cmdqVars, cmdVars, compVars
  <1>7. QED
    BY <1>2, <1>3, <1>4, <1>5, <1>6 DEF Next

\* With a slot of the table and a place in the completion ring for each client, the
\* queue never holds more than one command of a client, and the table has each of
\* them (pending_xfer_alloc_slot, att1_aimu_cmdq_dispatch_one).
THEOREM RoomInductive ==
    ASSUME RoomForAll
    PROVE  Spec => []Room
  <1>1. Init => Room
    BY InitRoom
  <1>2. /\ EndpointInv /\ Weights /\ ResultsKept /\ Room
        /\ EndpointInv' /\ [Next]_vars
        => Room'
    BY NextRoom DEF EndpointInv, Weights, ResultsKept
  <1>3. QED
    BY <1>1, <1>2, EndpointInductive, WeightsInductive, ResultsInductive, PTL DEF Spec

\* The buffers of a command that waits are not released under it, though a full table
\* gives its first slot to the next command (pending_xfer_alloc_slot).
THEOREM OperandsStayLive ==
    ASSUME RoomForAll
    PROVE  Spec => []OperandsLive
  <1>1. ASSUME CmdqInv, QueueOrder, WorkTypes, TableOK
        PROVE  OperandsLive
    <2>1. SUFFICES ASSUME NEW id \in Waiting, work[id].op \in ResultCommands
                   PROVE  Holds(table, id)
      BY DEF OperandsLive
    <2>2. CmdUsed \in Nat /\ RingsOK
      BY <1>1, QueueNumbers
    <2>3. PICK k \in 0..CmdUsed - 1 : id = cmdRing[(cmdHead + k) % CmdDepth].id
      BY DEF Waiting
    <2>4. PICK j \in 1..CmdUsed : j - 1 = k
      <3>1. k + 1 \in 1..CmdUsed /\ k + 1 - 1 = k
        BY <2>2
      <3>2. QED
        BY <3>1
    <2>5. WaitingId(j) = id
      BY <2>2, <2>3, <2>4 DEF WaitingId, PendingCommands
    <2>6. InQueue(id)
      BY <2>5 DEF InQueue
    <2>7. id \in 1..Len(work)
      BY <1>1, <2>6, QueuedIds DEF WorkTypes
    <2>8. QED
      BY <1>1, <2>1, <2>6, <2>7 DEF TableOK
  <1>2. EndpointInv /\ Weights /\ Room => OperandsLive
    BY <1>1 DEF EndpointInv, Weights, Room
  <1>3. QED
    BY <1>2, EndpointInductive, WeightsInductive, RoomInductive, PTL
=============================================================================
