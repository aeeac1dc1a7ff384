------------------------------ MODULE Endpoint ------------------------------
(***************************************************************************)
(* The endpoint daemon (tools/att1-aimu-endpoint.c), the library its       *)
(* clients link (src/aimu_endpoint_client.c), and the calls the PCIe       *)
(* backend makes through it (src/backend_pcie.c), over the command queue   *)
(* of CmdQueue with the execution hook of src/aimu_conformance.c.          *)
(*                                                                         *)
(* The daemon serves one connection at a time and keeps its queue, buffers *)
(* and tensors from one client to the next.  A call of the library is one  *)
(* request and one answer; a call of the backend is three of them.         *)
(* Clients may die at any point.                                           *)
(*                                                                         *)
(* Abstractions.  A buffer's content is the command that it belongs to or  *)
(* that wrote it.  Each client's program creates one backend on its        *)
(* connection, which uses one weight, under the identifier all             *)
(* backends give their first (65535).  All calls that do not go to the     *)
(* command queue are alike here; their effects are those of Mmio, Dma,     *)
(* Fabric and KVMMU.  Requests that client or daemon refuse for their      *)
(* sizes are left out, as is a socket that fails while both ends live.     *)
(***************************************************************************)
EXTENDS CmdQueue, SequencesExt

CONSTANTS Clients,
          ClientXfers,   \* ATT1_AIMU_ENDPOINT_CLIENT_MAX_PENDING_XFERS
          DaemonXfers,   \* ATT1_AIMU_ENDPOINT_MAX_PENDING_XFERS
          CallArgs,      \* the other calls that clients make
          CallLimit      \* calls of the backend or of the library, for TLC

VARIABLES daemon,        \* "new", "up" or "down"
          run_once,      \* it was started with --once
          line,          \* the connections accepted or waiting, in order
          phase,         \* of each client
          call,          \* the call it is in
          loaded,        \* its backend has registered the weight
          pending,       \* its library's table: command of each slot, 0 for none
          request,       \* what it sent and the daemon has not read
          answer,        \* what the daemon sent and it has not read
          table,         \* the daemon's table: command of each slot, 0 for none
          tensor,        \* whose weight the daemon keeps under the identifier
          work,          \* what each command submitted is, by identifier
          tally          \* calls begun; other calls done, reported, unreported

clientVars == <<phase, call, loaded, pending>>
daemonVars == <<table, tensor, work>>
vars == <<cmdqVars, daemon, run_once, line, clientVars, request, answer, daemonVars, tally>>

Nobody == "nobody"
NoCall == [op |-> "none", stage |-> "none", id |-> 0]
NoMessage == [kind |-> "none"]

\* The calls that are one request and touch another component, by what they touch
RegisterCalls == {"sync_mmio", "snapshot_counters", "mmio_read32", "mmio_write32",
                  "mmio_read64", "mmio_write64"}
DmaCalls == {"dma_validate", "dma_submit", "dma_get_counters"}
FabricCalls == {"fabric_send", "fabric_broadcast", "fabric_receive",
                "fabric_barrier_arrive", "fabric_get_counters"}
KvWrites == {"kv_create_session", "kv_destroy_session", "kv_append"}
KvReads == {"kv_read", "kv_copy_range", "kv_get_counters"}
ReadCalls == {"cmd_get_counters", "trace_get_snapshot"}
OtherCalls ==
    RegisterCalls \cup DmaCalls \cup FabricCalls \cup KvWrites \cup KvReads \cup ReadCalls

\* The endpoint submits commands of one kind, those that the hook executes.
ASSUME EndpointConfigValid ==
    /\ IsFiniteSet(Clients)
    /\ {ClientXfers, DaemonXfers, CallLimit} \subseteq Nat \ {0}
    /\ CallArgs \subseteq OtherCalls
    /\ "exec" \in KindArgs

\* Commands that bring a result: with a weight (matmul_*, rmsnorm), or without one
\* (rope, ffn).  LOAD_TENSOR_TILE, "load", brings none.
ResultCommands == {"run", "rope"}

\* att1_aimu_endpoint_op
Operations == {"submit", "dispatch", "poll", "shutdown"} \cup OtherCalls

\* main of the daemon up to its loop of accept has yet to run
Init ==
    /\ CmdqInit
    /\ daemon = "new" /\ run_once = FALSE /\ line = <<>>
    /\ phase = [c \in Clients |-> "out"]
    /\ call = [c \in Clients |-> NoCall]
    /\ loaded = [c \in Clients |-> FALSE]
    /\ pending = [c \in Clients |-> [s \in 1 .. ClientXfers |-> 0]]
    /\ request = [c \in Clients |-> NoMessage]
    /\ answer = [c \in Clients |-> NoMessage]
    /\ table = [s \in 1 .. DaemonXfers |-> 0]
    /\ tensor = Nobody /\ work = <<>>
    /\ tally = [begun |-> 0, done |-> 0, reported |-> 0, unreported |-> 0]

\* Mutation of Registered: a full table drops the new entry.
RegisteredIfFree(slots, id) ==
    LET free == {s \in DOMAIN slots : slots[s] = 0} IN
    IF free = {} THEN slots
    ELSE [slots EXCEPT ![CHOOSE s \in free : \A t \in free : s <= t] = id]
\* A new entry goes to the first free slot, or overwrites slot 1 of a full table:
\* pending_xfer_register of the client, pending_xfer_alloc_slot of the daemon.
Registered(slots, id) ==
    LET free == {s \in DOMAIN slots : slots[s] = 0}
        slot == IF free = {} THEN 1 ELSE CHOOSE s \in free : \A t \in free : s <= t
    IN [slots EXCEPT ![slot] = id]

\* pending_xfer_find
Holds(slots, id) == \E s \in DOMAIN slots : slots[s] = id
Cleared(slots, id) == [s \in DOMAIN slots |-> IF slots[s] = id THEN 0 ELSE slots[s]]

-----------------------------------------------------------------------------
(* The daemon.                                                             *)

\* main up to listen, which may find --once among its arguments;
\* att1_aimu_conformance_inproc_create installs the hook.
Boot ==
    /\ daemon = "new"
    /\ daemon' = "up" /\ run_once' \in BOOLEAN
    /\ SetExecHook(TRUE)
    /\ UNCHANGED <<line, clientVars, request, answer, daemonVars, tally>>

Alive(c) == phase[c] \in {"idle", "sent"}
Served == Head(line)

\* Mutation of Respond: the request is left to be read again.
RespondAgain(m) ==
    /\ answer' = IF Alive(Served) THEN [answer EXCEPT ![Served] = m] ELSE answer
    /\ daemon' = IF Alive(Served) THEN "up" ELSE "down"
    /\ UNCHANGED <<run_once, line, clientVars, request>>
\* What serve_client does after a request: it sends the answer; if the client has
\* gone the send fails and main leaves its loop, as it does after a shutdown.
Respond(m) ==
    LET shutdown == request[Served].kind = "shutdown" IN
    /\ request' = [request EXCEPT ![Served] = NoMessage]
    /\ answer' = IF Alive(Served) THEN [answer EXCEPT ![Served] = m] ELSE answer
    /\ daemon' = IF Alive(Served) /\ ~shutdown THEN "up" ELSE "down"
    /\ UNCHANGED <<run_once, line, clientVars>>

OkAnswer(id, payload) == [kind |-> "ok", id |-> id, payload |-> payload, result |-> "OK"]
FailedAnswer == [kind |-> "failed"]

Requested(kind) ==
    daemon = "up" /\ line # <<>> /\ request[Served].kind = kind

\* Mutation of ServeSubmit: a registration takes effect when it is submitted.
ServeSubmitEagerly ==
    /\ Requested("submit")
    /\ UNCHANGED tally
    /\ \/ /\ SubmitFull(0)
          /\ UNCHANGED <<table, work, tensor>>
          /\ Respond(FailedAnswer)
       \/ /\ Submit(0, "exec", FALSE)
          /\ work' = Append(work, [client |-> Served, op |-> request[Served].op])
          /\ table' = IF request[Served].op \in ResultCommands THEN Registered(table, nextId) ELSE table
          /\ tensor' = IF request[Served].op = "load" THEN Served ELSE tensor
          /\ Respond(OkAnswer(nextId, 0))
\* dispatch_cmd_submit: a full ring refuses the command and its buffers are freed.
ServeSubmit ==
    /\ Requested("submit")
    /\ UNCHANGED <<tensor, tally>>
    /\ \/ /\ SubmitFull(0)
          /\ UNCHANGED <<table, work>>
          /\ Respond(FailedAnswer)
       \/ /\ Submit(0, "exec", FALSE)
          /\ work' = Append(work, [client |-> Served, op |-> request[Served].op])
          /\ table' = IF request[Served].op \in ResultCommands THEN Registered(table, nextId) ELSE table
          /\ Respond(OkAnswer(nextId, 0))

\* The hook of the command queue, by the form of the command.  LOAD_TENSOR_TILE keeps
\* the sender's weight under its identifier, over what was there.
TensorAfter(w) == IF w.op = "load" THEN w.client ELSE tensor

\* conf_exec_matmul and _rmsnorm look their weight up by its identifier.
WithWeight == IF tensor = Nobody THEN "ERROR" ELSE "OK"

\* conf_exec_rope and _ffn have all they need in the command's buffers.
WithoutWeight == "OK"

HookResult(w) == IF w.op = "run" THEN WithWeight ELSE WithoutWeight

\* att1_aimu_cmdq_dispatch_one, on an empty ring and on one that is not; with no
\* room for the completion the call fails though the command has run.
ServeDispatch ==
    /\ Requested("dispatch")
    /\ UNCHANGED <<table, work, tally>>
    /\ IF CmdUsed = 0 THEN UNCHANGED <<cmdqVars, tensor>> /\ Respond(FailedAnswer)
       ELSE LET w == work[NextCommand.id] IN
            /\ DispatchOne
            /\ tensor' = TensorAfter(w)
            /\ IF compTail' = compTail THEN Respond(FailedAnswer)
               ELSE /\ compRing'[compTail % CompDepth].result = HookResult(w)
                    /\ Respond(OkAnswer(0, 0))

\* Mutation of ServePoll: the entry is released before it is read.
ServePollReleased ==
    /\ Requested("poll")
    /\ UNCHANGED <<tensor, work, tally>>
    /\ IF CompUsed = 0 THEN UNCHANGED <<cmdqVars, table>> /\ Respond(FailedAnswer)
       ELSE LET id == compRing[compHead % CompDepth].id IN
            /\ PollCompletion
            /\ table' = Cleared(table, id)
            /\ Respond([OkAnswer(id, IF Holds(table', id) THEN id ELSE 0)
                           EXCEPT !.result = compRing[compHead % CompDepth].result])
\* dispatch_cmd_poll_completion: the command's entry gives the payload and goes.
ServePoll ==
    /\ Requested("poll")
    /\ UNCHANGED <<tensor, work, tally>>
    /\ IF CompUsed = 0 THEN UNCHANGED <<cmdqVars, table>> /\ Respond(FailedAnswer)
       ELSE LET id == compRing[compHead % CompDepth].id IN
            /\ PollCompletion
            /\ table' = Cleared(table, id)
            /\ Respond([OkAnswer(id, IF Holds(table, id) THEN id ELSE 0)
                           EXCEPT !.result = compRing[compHead % CompDepth].result])

\* dispatch_request for all other operations
ServeOther ==
    /\ \E op \in CallArgs \cup {"shutdown"} : Requested(op)
    /\ UNCHANGED <<cmdqVars, daemonVars>>
    /\ tally' = IF request[Served].kind = "shutdown" THEN tally
                ELSE [tally EXCEPT !.done = @ + 1]
    /\ Respond(OkAnswer(0, 0))

\* Mutation of NextClient: serve_client goes on reading the closed connection.
NextClientSpins ==
    /\ daemon = "up" /\ line # <<>>
    /\ ~Alive(Served) /\ request[Served] = NoMessage
    /\ UNCHANGED vars
\* recv_request of serve_client fails once the client is gone and its requests
\* are read; main accepts the next connection, or with --once leaves its loop.
NextClient ==
    /\ daemon = "up" /\ line # <<>>
    /\ ~Alive(Served) /\ request[Served] = NoMessage
    /\ line' = Tail(line)
    /\ daemon' = IF run_once THEN "down" ELSE daemon
    /\ UNCHANGED <<cmdqVars, run_once, clientVars, request, answer, daemonVars, tally>>

Serve == ServeSubmit \/ ServeDispatch \/ ServePoll \/ ServeOther

-----------------------------------------------------------------------------
(* The clients.                                                            *)

quietVars == <<cmdqVars, daemon, run_once, daemonVars>>

\* att1_aimu_conformance_socket_connect; listen keeps the connection in line.
Connect(c) ==
    /\ phase[c] = "out" /\ daemon = "up"
    /\ phase' = [phase EXCEPT ![c] = "idle"]
    /\ line' = Append(line, c)
    /\ UNCHANGED <<quietVars, call, loaded, pending, request, answer, tally>>

\* The client's program makes a call, whose first step is the given one.
Begin(c, op, stage) ==
    /\ phase[c] = "idle" /\ call[c] = NoCall
    /\ tally.begun < CallLimit
    /\ tally' = [tally EXCEPT !.begun = @ + 1]
    /\ call' = [call EXCEPT ![c] = [op |-> op, stage |-> stage, id |-> 0]]
    /\ UNCHANGED <<quietVars, line, phase, loaded, pending, request, answer>>

\* pcie_register_weight: a weight not seen before is sent ahead of the command.
FirstCommand(c) == IF loaded[c] THEN "run" ELSE "load"

\* pcie_matmul_f32, _q8xf32, _q4xf32 and pcie_rmsnorm_f32
BeginWithWeight(c) == Begin(c, FirstCommand(c), "submit")

\* pcie_rope_f32, pcie_ffn_swiglu_f32
BeginWithoutWeight(c) == Begin(c, "rope", "submit")

\* Any other call of the library: one request.
BeginOther(c, op) == Begin(c, op, op)

\* endpoint_roundtrip, sending; att1_aimu_endpoint_send_request fails when the
\* daemon is gone, and with it the call.
Send(c) ==
    /\ phase[c] = "idle" /\ call[c] # NoCall
    /\ UNCHANGED <<quietVars, line, loaded, pending, answer>>
    /\ IF daemon = "down"
       THEN /\ call' = [call EXCEPT ![c] = NoCall]
            /\ phase' = [phase EXCEPT ![c] = IF call[c].stage = "shutdown" THEN "gone" ELSE "idle"]
            /\ UNCHANGED <<request, tally>>
       ELSE /\ request' = [request EXCEPT ![c] = [kind |-> call[c].stage, op |-> call[c].op]]
            /\ phase' = [phase EXCEPT ![c] = "sent"]
            /\ UNCHANGED <<call, tally>>

\* pcie_submit_exec goes from one step to the next as long as they succeed; after
\* a weight's registration the call goes on to the execution.
Progress(c, m) ==
    IF m.kind # "ok" THEN NoCall
    ELSE CASE call[c].stage = "submit"   -> [call[c] EXCEPT !.stage = "dispatch", !.id = m.id]
           [] call[c].stage = "dispatch" -> [call[c] EXCEPT !.stage = "poll"]
           [] call[c].stage = "poll" /\ call[c].op = "load" /\ m.result = "OK"
                                         -> [op |-> "run", stage |-> "submit", id |-> 0]
           [] OTHER                      -> NoCall

\* client_cmd_poll_completion: an entry whose payload is missing fails the call.
Usable(c, m) ==
    IF call[c].stage = "poll" /\ m.kind = "ok" /\ Holds(pending[c], m.id) /\ m.payload # m.id
    THEN FailedAnswer ELSE m

\* The library's table after an answer: a command with a result to come is entered
\* once it is submitted, and leaves with its completion.
Tabled(c, m) ==
    CASE m.kind = "ok" /\ call[c].stage = "submit" /\ call[c].op \in ResultCommands ->
            Registered(pending[c], m.id)
      [] m.kind = "ok" /\ call[c].stage = "poll" -> Cleared(pending[c], m.id)
      [] OTHER -> pending[c]

\* endpoint_roundtrip, receiving, and the caller's next step
Receive(c) ==
    LET m == Usable(c, answer[c]) IN
    /\ phase[c] = "sent" /\ answer[c] # NoMessage
    /\ answer' = [answer EXCEPT ![c] = NoMessage]
    /\ pending' = [pending EXCEPT ![c] = Tabled(c, answer[c])]
    /\ loaded' = [loaded EXCEPT ![c] = @ \/ (Progress(c, m).op = "run" /\ call[c].op = "load")]
    /\ call' = [call EXCEPT ![c] = Progress(c, m)]
    /\ phase' = [phase EXCEPT ![c] = IF call[c].stage = "shutdown" THEN "gone" ELSE "idle"]
    /\ tally' = [tally EXCEPT !.reported = @ + IF call[c].op \in OtherCalls THEN 1 ELSE 0]
    /\ UNCHANGED <<quietVars, line, request>>

\* The daemon has exited and nothing is left to read: the roundtrip fails.
ReceiveNothing(c) ==
    /\ phase[c] = "sent" /\ answer[c] = NoMessage /\ daemon = "down"
    /\ phase' = [phase EXCEPT ![c] = IF call[c].stage = "shutdown" THEN "gone" ELSE "idle"]
    /\ call' = [call EXCEPT ![c] = NoCall]
    /\ request' = [request EXCEPT ![c] = NoMessage]
    /\ tally' = [tally EXCEPT !.unreported = @ + IF call[c].op \in OtherCalls THEN 1 ELSE 0]
    /\ UNCHANGED <<quietVars, line, loaded, pending, answer>>

\* client_destroy: it tells the daemon to shut down, and waits for the answer.
Destroy(c) ==
    /\ phase[c] = "idle" /\ call[c] = NoCall
    /\ call' = [call EXCEPT ![c] = [op |-> "none", stage |-> "shutdown", id |-> 0]]
    /\ UNCHANGED <<quietVars, line, phase, loaded, pending, request, answer, tally>>

\* The client's process ends without client_destroy; what it sent stays readable.
Die(c) ==
    /\ Alive(c)
    /\ phase' = [phase EXCEPT ![c] = "gone"]
    /\ call' = [call EXCEPT ![c] = NoCall]
    /\ answer' = [answer EXCEPT ![c] = NoMessage]
    /\ tally' = [tally EXCEPT !.unreported =
                    @ + IF phase[c] = "sent" /\ call[c].op \in OtherCalls THEN 1 ELSE 0]
    /\ UNCHANGED <<quietVars, line, loaded, pending, request>>

ClientStep(c) ==
    \/ Connect(c)
    \/ BeginWithWeight(c) \/ BeginWithoutWeight(c)
    \/ \E op \in CallArgs : BeginOther(c, op)
    \/ Send(c) \/ Receive(c) \/ ReceiveNothing(c)
    \/ Destroy(c) \/ Die(c)

Next == Boot \/ Serve \/ NextClient \/ \E c \in Clients : ClientStep(c)

\* The daemon goes on while it has a request or a departed client, and a client
\* that has its answer reads it.
Fairness ==
    /\ WF_vars(Serve) /\ WF_vars(NextClient)
    /\ \A c \in Clients : WF_vars(Receive(c)) /\ WF_vars(ReceiveNothing(c))

Spec == Init /\ [][Next]_vars /\ Fairness

-----------------------------------------------------------------------------
\* The wire carries the protocol's operations, one request or one answer for each
\* client, none before it connects; the tables hold commands that were submitted.
EndpointTypeOK ==
    /\ \A c \in Clients :
          /\ request[c] # NoMessage => request[c].kind \in Operations /\ answer[c] = NoMessage
          /\ phase[c] = "out" => request[c] = NoMessage /\ pending[c] = [s \in 1 .. ClientXfers |-> 0]
          /\ phase[c] = "sent" => call[c].stage \in Operations
    /\ Range(table) \cup UNION {Range(pending[c]) : c \in Clients} \subseteq 0 .. Len(work)
    /\ Len(work) = nextId - 1
    /\ tensor \in Clients \cup {Nobody}

Waiting == {cmdRing[(cmdHead + k) % CmdDepth].id : k \in 0 .. CmdUsed - 1}

\* The buffers of a command that waits in the ring are not released under it: one
\* command in flight per client, and room in the table for one of each client that
\* died, make it safe to reclaim slot 0 of a full table.
OperandsLive == \A id \in Waiting : work[id].op \in ResultCommands => Holds(table, id)

\* Backends give their weights the same identifiers, and the daemon outlives them:
\* still no command is executed with another client's weight, also when the
\* client's own registration has not run yet or its answer came from elsewhere.
OwnWeight ==
    [][cmdHead' # cmdHead /\ work[NextCommand.id].op = "run" =>
          tensor = work[NextCommand.id].client]_vars

\* A backend's call that ends with its own command's completion has the result in
\* its buffer: payload and table entries meet by identifier.
OwnAnswerBringsResult ==
    [][\A c \in Clients :
          /\ call[c].stage = "poll" /\ call[c].op \in ResultCommands
          /\ phase[c] = "sent" /\ phase'[c] = "idle"
          /\ answer[c].kind = "ok" /\ answer[c].id = call[c].id
          => Holds(pending[c], call[c].id) /\ answer[c].payload = call[c].id]_vars

\* A call that reported success took effect, and a call took effect at most once,
\* whoever died in between.
EffectsOnce ==
    LET underWay == {c \in Clients : phase[c] = "sent" /\ call[c].op \in OtherCalls} IN
    /\ tally.reported <= tally.done
    /\ tally.done <= tally.reported + tally.unreported + Cardinality(underWay)

\* Whoever is served, or waits behind clients that are gone, gets its answer or
\* learns that the daemon has exited.
RequestsReturn ==
    \A c \in Clients :
        (phase[c] = "sent" /\ \A k \in DOMAIN line : line[k] = c \/ ~Alive(line[k])) ~> phase[c] # "sent"

\* backend_pcie.c:14, "polls for the matching completion": the completion a call
\* takes for its answer is that of its own command.
AnswerIsOwn ==
    [][\A c \in Clients :
          call[c].stage = "poll" /\ phase[c] = "sent" /\ phase'[c] = "idle" /\ answer[c].kind = "ok"
          => answer[c].id = call[c].id]_vars
=============================================================================
