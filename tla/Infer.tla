------------------------------- MODULE Infer -------------------------------
(***************************************************************************)
(* Single-tile inference (infer.c): one context over one model, its layers *)
(* run in order on one backend.  A decode step is a loop over the layers   *)
(* with a failure exit in every iteration; what a failed step has appended *)
(* to the caches stays there, and there is no operation that takes it back.*)
(***************************************************************************)
EXTENDS Transformer

CONSTANTS
    LayerCounts,   \* numbers of layers of the models considered
    Prompts,       \* prompts of generate calls, of any length including zero
    Wants          \* numbers of tokens asked of generate calls

VARIABLES
    model,         \* the model of the context
    backend,       \* kind of the backend in use
    ready,         \* quantized weights prepared
    kv,            \* layer_kv
    position,      \* tokens decoded
    hidden,        \* the activation buffer
    logits,        \* the logits buffer: the activation they were made from
    phase,         \* where the running call is
    request,       \* the call being served
    status         \* what the last call returned

inferVars == <<model, backend, ready, kv, position, hidden, logits, phase,
               request, status>>

Layers == 0 .. model.layers - 1

Layer == Len(hidden.applied)   \* the layer loop's variable

----------------------------------------------------------------------------
(* Contexts. *)

\* create validates the decoder's shape and takes the default f32 backend;
\* create_q4 validates the layers too and prepares the weights of the q4 backend.
Created ==
    /\ model \in Models(LayerCounts)
    /\ backend = IF model.format = "q4" THEN "q4" ELSE "f32"
    /\ ready = IF model.format = "q4" THEN {"q4"} ELSE {}
    /\ model.format = "q4" => ValidDecoderQ4(model) /\ Preparable(model, "q4")

InferInit ==
    /\ Created
    /\ kv = [l \in Layers |-> KvInit]
    /\ position = 0
    /\ hidden = Embedding(0)
    /\ logits = Embedding(0)
    /\ phase = "idle"
    /\ request = NoRequest
    /\ status = "OK"

----------------------------------------------------------------------------
(* A call returns. *)

Idle == phase = "idle" /\ request.feed = <<>>

Fail ==
    /\ phase' = "idle"
    /\ request' = [request EXCEPT !.feed = <<>>]
    /\ status' = "ERROR"

----------------------------------------------------------------------------
(* The caller. *)

CallDecodeToken(token) ==
    /\ Idle
    /\ request' = [NoRequest EXCEPT !.feed = <<token>>]
    /\ status' = "OK"
    /\ UNCHANGED <<model, backend, ready, kv, position, hidden, logits, phase>>

CallGenerate(prompt, want) ==
    /\ Idle
    /\ request' = [NoRequest EXCEPT !.feed = prompt, !.want = want]
    /\ status' = IF prompt = <<>> THEN "ERROR" ELSE "OK"
    /\ UNCHANGED <<model, backend, ready, kv, position, hidden, logits, phase>>

\* Replaces the backend once the weights it needs are prepared.  A failed
\* preparation leaves the backend in use.
SetBackend(kind) ==
    /\ Idle
    /\ \/ /\ kind \in ready \/ Preparable(model, kind)
          /\ backend' = kind
          /\ ready' = ready \union ({kind} \intersect Quantized)
          /\ status' = "OK"
       \/ /\ kind \notin ready \union {"f32"}
          /\ status' = "ERROR"
          /\ UNCHANGED <<backend, ready>>
    /\ UNCHANGED <<model, kv, position, hidden, logits, phase, request>>

----------------------------------------------------------------------------
(* A decode step. *)

Token == Head(request.feed)

Starts ==
    /\ Token \in Vocabulary
    /\ position < MaxSeqLen
    /\ Decodable(model, backend, ready)

DecodeBegin ==
    /\ phase = "idle"
    /\ request.feed # <<>>
    /\ IF Starts
       THEN /\ hidden' = Embedding(Token)
            /\ phase' = "layers"
            /\ UNCHANGED <<request, status>>
       ELSE Fail /\ UNCHANGED hidden
    /\ UNCHANGED <<model, backend, ready, kv, position, logits>>

RunLayer ==
    /\ phase = "layers"
    /\ Layer \in Layers
    /\ \E block \in RunBlock(model, backend, kv[Layer], hidden, Layer, position) :
          /\ kv' = [kv EXCEPT ![Layer] = block.cache]
          /\ IF block.ok
             THEN /\ hidden' = Through(hidden, Layer, backend)
                  /\ UNCHANGED <<phase, request, status>>
             ELSE Fail /\ UNCHANGED hidden
    /\ UNCHANGED <<model, backend, ready, position, logits>>

\* Output norm, projection, sync; it may fail before or after the projection has
\* written the logits.
Project ==
    /\ phase = "layers"
    /\ Layer \notin Layers
    /\ \/ /\ logits' = hidden
          /\ phase' = "sample"
          /\ UNCHANGED <<request, status>>
       \/ Fail /\ logits' \in {logits, hidden}
    /\ UNCHANGED <<model, backend, ready, kv, position, hidden>>

\* The greedy sampler refuses logits that are not numbers.
Sample ==
    /\ phase = "sample"
    /\ \/ /\ \E next \in Vocabulary : request' = Advanced(request, next)
          /\ position' = position + 1
          /\ phase' = "idle"
          /\ UNCHANGED status
       \/ Fail /\ UNCHANGED position
    /\ UNCHANGED <<model, backend, ready, kv, hidden, logits>>

----------------------------------------------------------------------------

InferNext ==
    \/ \E token \in 0 .. VocabSize : CallDecodeToken(token)
    \/ \E prompt \in Prompts, want \in Wants : CallGenerate(prompt, want)
    \/ \E kind \in Kinds : SetBackend(kind)
    \/ DecodeBegin
    \/ RunLayer
    \/ Project
    \/ Sample

InferSpec == InferInit /\ [][InferNext]_inferVars
=============================================================================
