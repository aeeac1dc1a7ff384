---------------------------- MODULE Transformer ----------------------------
(***************************************************************************)
(* One layer of the decoder and the pieces the two inference contexts      *)
(* share: the flat KV cache of a layer (kv_cache.c), causal attention      *)
(* (attention.c), the transformer block (transformer_block.c), the weights *)
(* a backend needs, and the loop of a generate call.                       *)
(*                                                                         *)
(* A float vector is known by how it was computed: the token it started    *)
(* from and the layers applied to it, each with the kind of weights used.  *)
(* Every operation of a backend may fail (no memory, a device error), so   *)
(* a forward pass is the set of its outcomes.                              *)
(***************************************************************************)
EXTENDS Naturals, Sequences

CONSTANTS
    MaxSeqLen,     \* config.max_seq_len: positions of a layer's cache
    VocabSize      \* config.vocab_size: tokens are 0 .. VocabSize - 1

ASSUME TransformerAssumption ==
    /\ MaxSeqLen \in Nat \ {0}
    /\ VocabSize \in Nat \ {0}

\* The weights a backend computes with, by the name of its operation table.
Kinds == {"f32", "q8", "q4"}
Quantized == {"q8", "q4"}

Vocabulary == 0 .. VocabSize - 1

----------------------------------------------------------------------------
(* Activations. *)

Embedding(token) == [token |-> token, applied |-> <<>>]

Through(hidden, layer, kind) ==
    [hidden EXCEPT !.applied = Append(@, <<layer, kind>>)]

----------------------------------------------------------------------------
(* The cache of one layer is the sequence of its filled positions. *)

KvInit == <<>>

KvAppend(cache, entry) ==
    IF Len(cache) >= MaxSeqLen
    THEN [ok |-> FALSE, cache |-> cache]
    ELSE [ok |-> TRUE, cache |-> Append(cache, entry)]

----------------------------------------------------------------------------
(* Attention refuses any position but the end of the cache.  The key and   *)
(* the value are appended before the scores are computed, so a failure     *)
(* after that leaves the position in the cache.                            *)

\* Mutation of Attention: it takes any position the cache already covers.
AttentionBehindEnd(kind, cache, hidden, layer, position) ==
    LET appended == KvAppend(cache, Through(hidden, layer, kind))
    IN  {[ok |-> FALSE, cache |-> cache]} \union
        IF position > Len(cache) THEN {}
        ELSE {appended, [appended EXCEPT !.ok = FALSE]}

Attention(kind, cache, hidden, layer, position) ==
    LET appended == KvAppend(cache, Through(hidden, layer, kind))
    IN  {[ok |-> FALSE, cache |-> cache]} \union
        IF position # Len(cache) THEN {}
        ELSE {appended, [appended EXCEPT !.ok = FALSE]}

AttentionQ8(cache, hidden, layer, position) ==
    Attention("q8", cache, hidden, layer, position)

AttentionQ4(cache, hidden, layer, position) ==
    Attention("q4", cache, hidden, layer, position)

\* Norm, attention, residual, norm, feed-forward, residual.  The norm before
\* attention fails with the cache untouched, as attention itself may; what
\* comes after attention fails with the cache attention left.
BlockF32(cache, hidden, layer, position) ==
    LET attended == Attention("f32", cache, hidden, layer, position)
    IN  attended \union {[a EXCEPT !.ok = FALSE] : a \in attended}

BlockQ8(cache, hidden, layer, position) ==
    LET attended == AttentionQ8(cache, hidden, layer, position)
    IN  attended \union {[a EXCEPT !.ok = FALSE] : a \in attended}

BlockQ4(cache, hidden, layer, position) ==
    LET attended == AttentionQ4(cache, hidden, layer, position)
    IN  attended \union {[a EXCEPT !.ok = FALSE] : a \in attended}

----------------------------------------------------------------------------
(* A model file: its number of layers, the format of its weights, and the  *)
(* layers whose tensors are missing or misshapen. Creating an f32 context  *)
(* does not look at the tensors of the layers.                             *)

Models(layerCounts) ==
    UNION {[layers: {n}, format: Kinds, broken: SUBSET (0 .. n - 1)] :
              n \in layerCounts}

\* The tensors of the layer are found by their names, in their shapes and in the
\* format of the model.
HasLayer(model, layer) == layer \notin model.broken
HasAllLayers(model) == \A layer \in 0 .. model.layers - 1 : HasLayer(model, layer)

\* Creating a q4 context does look at the layers.
ValidDecoderQ4(model) == model.format = "q4" /\ HasAllLayers(model)

\* Views of the q8 tensors of all layers in the file.
FromFileQ8(model) == model.format = "q8" /\ HasAllLayers(model)

\* q8 weights made of the f32 weights of all layers, unless the file has q8.
RuntimeQ8(model) == model.format = "f32" /\ HasAllLayers(model)

PreparesQ8(model) == FromFileQ8(model) \/ RuntimeQ8(model)

\* Views of the q4 tensors of all layers in the file.
PreparesQ4(model) == model.format = "q4" /\ HasAllLayers(model)

\* The weights a backend needs beyond the f32 tensors can be made.  A layer that
\* is missing is met in the middle, and what was made before it is released.
Preparable(model, kind) ==
    CASE kind = "q8" -> PreparesQ8(model)
      [] kind = "q4" -> PreparesQ4(model)
      [] kind = "f32" -> TRUE

\* The weights a decode step looks up before it runs the first layer.
Decodable(model, kind, ready) ==
    IF kind = "f32" THEN model.format = "f32" ELSE kind \in ready

\* With f32 weights the tensors of a layer are looked up when it is its turn.
RunBlock(model, kind, cache, hidden, layer, position) ==
    CASE kind = "q4" -> BlockQ4(cache, hidden, layer, position)
      [] kind = "q8" -> BlockQ8(cache, hidden, layer, position)
      [] kind = "f32" ->
            IF HasLayer(model, layer) THEN BlockF32(cache, hidden, layer, position)
            ELSE {[ok |-> FALSE, cache |-> cache]}

----------------------------------------------------------------------------
(* A generate call: tokens still to feed, tokens wanted, tokens produced.   *)
(* A single decode call feeds one token and wants none back.               *)

NoRequest == [feed |-> <<>>, want |-> 0, out |-> <<>>]

\* The decode of Head(request.feed) has answered with the token next.
Advanced(request, next) ==
    LET left == Tail(request.feed)
        produced == Append(request.out, next)
    IN  IF left # <<>> \/ request.want = 0 THEN [request EXCEPT !.feed = left]
        ELSE [request EXCEPT
                !.out = produced,
                !.feed = IF Len(produced) < request.want THEN <<next>> ELSE <<>>]
=============================================================================
