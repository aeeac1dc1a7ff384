------------------------------ MODULE Cluster ------------------------------
(***************************************************************************)
(* Cluster inference (cluster_infer.c): the layers of a model spread over  *)
(* the tiles of a shard plan, the activation handed from tile to tile, and *)
(* the logits from the last tile to the host, as packets of a fabric the   *)
(* context owns.  Tiles run in the order of their ids, whatever layers the *)
(* plan gives them.                                                        *)
(*                                                                         *)
(* The contexts of the two programs have the same state otherwise, and the *)
(* cluster is meant to answer as the single tile does: Single is Infer     *)
(* over the variables of this module, and ImplementsInfer says so.         *)
(***************************************************************************)
EXTENDS Infer, ShardPlan

CONSTANTS
    TileCounts,    \* numbers of compute tiles
    Metas(_),      \* shard metadata of models with that many layers
    QueueCapacity, \* packets a tile's queue holds
    AttemptLimit   \* bound on the decode steps begun

\* Models without layers, clusters without tiles are refused; a capacity of zero
\* stands for the default.
ASSUME ClusterConfigValid ==
    /\ LayerCounts \subseteq Nat \ {0}
    /\ TileCounts \subseteq Nat \ {0}
    /\ QueueCapacity \in Nat \ {0}

VARIABLES
    plan,          \* shard_plan
    fabric,        \* packets waiting for each tile, and for the host
    tile,          \* the tile loop's variable
    layer,         \* the layer loop's variable
    counters,      \* tile_counters
    mode           \* the shard plan mode of the configuration

clusterVars == <<inferVars, plan, fabric, tile, layer, counters, mode>>
context == <<model, backend, ready, position>>

TileCount == Cardinality(DOMAIN plan.tiles)
Tiles == TilesOf(TileCount)
Host == TileCount               \* host_tile_id
LastTile == TileCount - 1

ZeroTileCounters ==
    [activations_received |-> 0, activations_sent |-> 0,
     layers_run |-> 0, logits_sent |-> 0]

----------------------------------------------------------------------------
(* Contexts. *)

\* A configuration the metadata of the model does not support makes no context.
RuntimePlan(tiles) ==
    /\ mode = "runtime"
    /\ plan = PlanBuild(model.layers, tiles)

MetadataPlan(tiles) ==
    /\ mode = "metadata"
    /\ \E meta \in Metas(model.layers) :
          /\ FromMetaAccepts(MetaPlanBuild(meta), model.layers, tiles)
          /\ plan = PlanFromMeta(MetaPlanBuild(meta), tiles)

\* create_q4 takes no plan from metadata.
ClusterInit ==
    /\ InferInit
    /\ \E tiles \in TileCounts :
          \/ RuntimePlan(tiles)
          \/ model.format # "q4" /\ MetadataPlan(tiles)
    /\ fabric = [t \in Tiles \union {Host} |-> <<>>]
    /\ tile = 0
    /\ layer = 0
    /\ counters = [t \in Tiles |-> ZeroTileCounters]

----------------------------------------------------------------------------
(* Packets. *)

Sent(destination, type, payload) ==
    [fabric EXCEPT ![destination] = Append(@, [type |-> type, payload |-> payload])]

HasRoom(destination) == Len(fabric[destination]) < QueueCapacity

\* Takes the oldest packet, of whatever type; a call that expected another
\* type fails with the packet gone.
Taken(endpoint) == [fabric EXCEPT ![endpoint] = Tail(@)]
Arrived(endpoint, type) == fabric[endpoint] # <<>> /\ Head(fabric[endpoint]).type = type
Payload(endpoint) == Head(fabric[endpoint]).payload

Count(t, field) == [counters EXCEPT ![t][field] = @ + 1]

----------------------------------------------------------------------------
(* The caller: as for a single tile, the fabric and the plan untouched. *)

Caller ==
    /\ \/ \E token \in 0 .. VocabSize : CallDecodeToken(token)
       \/ \E prompt \in Prompts, want \in Wants : CallGenerate(prompt, want)
    /\ UNCHANGED <<plan, fabric, tile, layer, counters, mode>>

\* The cluster makes its own quantized weights: views of the tensors of a file
\* that has them, or q8 of f32 tensors.  One layer that is missing releases what
\* was made of the others.
ClusterLayerInFile(l) == HasLayer(model, l)

ClusterFileQ8 == \A l \in Layers : ClusterLayerInFile(l)

ClusterRuntimeQ8 ==
    /\ model.format = "f32"
    /\ \A l \in Layers : HasLayer(model, l)

ClusterPreparesQ8 ==
    IF model.format = "q8" THEN ClusterFileQ8 ELSE ClusterRuntimeQ8

ClusterPreparesQ4 ==
    /\ model.format = "q4"
    /\ \A l \in Layers : ClusterLayerInFile(l)

ClusterPrepares(kind) ==
    CASE kind = "q8" -> ClusterPreparesQ8
      [] kind = "q4" -> ClusterPreparesQ4
      [] kind = "f32" -> TRUE

\* Weights made once are kept; memory may run out while they are made.
ClusterSetBackend(kind) ==
    /\ Idle
    /\ \/ /\ kind \in ready \/ ClusterPrepares(kind)
          /\ backend' = kind
          /\ ready' = ready \union ({kind} \intersect Quantized)
          /\ status' = "OK"
       \/ /\ kind \notin ready \union {"f32"}
          /\ status' = "ERROR"
          /\ UNCHANGED <<backend, ready>>
    /\ UNCHANGED <<model, kv, position, hidden, logits, phase, request,
                   plan, fabric, tile, layer, counters, mode>>

----------------------------------------------------------------------------
(* A decode step. *)

\* Mutation of HostSends: the activation is sent before the step is known to be possible.
HostSendsFirst ==
    /\ phase = "idle"
    /\ request.feed # <<>>
    /\ counters[0].activations_received < AttemptLimit
    /\ HasRoom(0)
    /\ hidden' = Embedding(Token)
    /\ fabric' = Sent(0, "ACTIVATION", Embedding(Token))
    /\ IF Starts
       THEN /\ phase' = "receive"
            /\ tile' = 0
            /\ UNCHANGED <<request, status>>
       ELSE Fail /\ UNCHANGED tile
    /\ UNCHANGED <<context, kv, logits, plan, layer, counters, mode>>

\* att1_cluster_infer_decode_token up to the first packet.  cluster_plan_complete also
\* says no when it has no memory for the check.
HostSends ==
    /\ phase = "idle"
    /\ request.feed # <<>>
    /\ Starts =>
          counters[0].activations_received < AttemptLimit
    /\ \E complete \in {PlanComplete(plan, model.layers), FALSE} :
          /\ hidden' = IF Starts /\ complete THEN Embedding(Token) ELSE hidden
          /\ IF Starts /\ complete /\ HasRoom(0)
             THEN /\ fabric' = Sent(0, "ACTIVATION", Embedding(Token))
                  /\ phase' = "receive"
                  /\ tile' = 0
                  /\ UNCHANGED <<request, status>>
             ELSE Fail /\ UNCHANGED <<fabric, tile>>
    /\ UNCHANGED <<context, kv, logits, plan, layer, counters, mode>>

TileReceives ==
    /\ phase = "receive"
    /\ fabric' = IF fabric[tile] = <<>> THEN fabric ELSE Taken(tile)
    /\ IF Arrived(tile, "ACTIVATION")
       THEN /\ hidden' = Payload(tile)
            /\ layer' = plan.tiles[tile].start
            /\ counters' = Count(tile, "activations_received")
            /\ phase' = "layers"
            /\ UNCHANGED <<request, status>>
       ELSE Fail /\ UNCHANGED <<hidden, layer, counters>>
    /\ UNCHANGED <<context, kv, logits, plan, tile, mode>>

TileRunsLayer ==
    /\ phase = "layers"
    /\ layer < plan.tiles[tile].end
    /\ \E block \in RunBlock(model, backend, kv[layer], hidden, layer, position) :
          /\ kv' = [kv EXCEPT ![layer] = block.cache]
          /\ IF block.ok
             THEN /\ hidden' = Through(hidden, layer, backend)
                  /\ counters' = Count(tile, "layers_run")
                  /\ layer' = layer + 1
                  /\ UNCHANGED <<phase, request, status>>
             ELSE Fail /\ UNCHANGED <<hidden, counters, layer>>
    /\ UNCHANGED <<context, logits, plan, fabric, tile, mode>>

TileSends ==
    /\ phase = "layers"
    /\ layer >= plan.tiles[tile].end
    /\ tile < LastTile
    /\ IF HasRoom(tile + 1)
       THEN /\ fabric' = Sent(tile + 1, "ACTIVATION", hidden)
            /\ counters' = Count(tile, "activations_sent")
            /\ tile' = tile + 1
            /\ phase' = "receive"
            /\ UNCHANGED <<request, status>>
       ELSE Fail /\ UNCHANGED <<fabric, counters, tile>>
    /\ UNCHANGED <<context, kv, hidden, logits, plan, layer, mode>>

LastTileProjects ==
    /\ phase = "layers"
    /\ layer >= plan.tiles[tile].end
    /\ tile = LastTile
    /\ \/ /\ HasRoom(Host)
          /\ logits' = hidden
          /\ fabric' = Sent(Host, "LOGITS", hidden)
          /\ counters' = Count(tile, "logits_sent")
          /\ phase' = "sample"
          /\ UNCHANGED <<request, status>>
       \/ /\ Fail
          /\ logits' \in {logits, hidden}
          /\ UNCHANGED <<fabric, counters>>
    /\ UNCHANGED <<context, kv, hidden, plan, tile, layer, mode>>

\* Mutation of HostReceives: the position advances before the sampler has accepted
\* the logits.
HostReceivesAdvancing ==
    /\ phase = "sample"
    /\ fabric' = Taken(Host)
    /\ logits' = Payload(Host)
    /\ position' = position + 1
    /\ \/ /\ \E next \in Vocabulary : request' = Advanced(request, next)
          /\ phase' = "idle"
          /\ UNCHANGED status
       \/ Fail
    /\ UNCHANGED <<model, backend, ready, kv, hidden, plan, tile, layer,
                   counters, mode>>

HostReceives ==
    /\ phase = "sample"
    /\ fabric' = IF fabric[Host] = <<>> THEN fabric ELSE Taken(Host)
    /\ IF Arrived(Host, "LOGITS")
       THEN /\ logits' = Payload(Host)
            /\ \/ /\ \E next \in Vocabulary : request' = Advanced(request, next)
                  /\ position' = position + 1
                  /\ phase' = "idle"
                  /\ UNCHANGED status
               \/ Fail /\ UNCHANGED position
       ELSE Fail /\ UNCHANGED <<logits, position>>
    /\ UNCHANGED <<model, backend, ready, kv, hidden, plan, tile, layer,
                   counters, mode>>

----------------------------------------------------------------------------

ClusterNext ==
    \/ Caller
    \/ \E kind \in Kinds : ClusterSetBackend(kind)
    \/ HostSends
    \/ TileReceives
    \/ TileRunsLayer
    \/ TileSends
    \/ LastTileProjects
    \/ HostReceives

ClusterSpec == ClusterInit /\ [][ClusterNext]_clusterVars

----------------------------------------------------------------------------
(* Type invariant of the cluster context. *)
ClusterTypeOK ==
    /\ phase \in {"idle", "receive", "layers", "sample"}
    /\ status \in {"OK", "ERROR"}
    /\ position \in 0 .. MaxSeqLen
    /\ tile \in Tiles
    /\ layer \in 0 .. model.layers
    /\ \A l \in Layers : Len(kv[l]) <= MaxSeqLen
    /\ \A t \in DOMAIN fabric : Len(fabric[t]) <= QueueCapacity

(* Every layer is on exactly one tile and a tile's layers are consecutive,  *)
(* whichever of the two ways the plan was made; the plan made at run time   *)
(* is in layer order and its tiles differ by at most one layer.            *)
PlanSound ==
    /\ \A l \in Layers :
          {t \in Tiles : l \in LayersIn(plan.tiles[t])} = {plan.layer_to_tile[l]}
    /\ PlanComplete(plan, model.layers)
    /\ mode = "runtime" =>
          /\ InLayerOrder(plan)
          /\ \A t, u \in Tiles :
                Cardinality(LayersIn(plan.tiles[t]))
                    <= Cardinality(LayersIn(plan.tiles[u])) + 1

(* What the caches hold.  Up to the position every layer has one entry per  *)
(* decoded token, computed through exactly the layers before it in order;   *)
(* behind it there is at most one entry, of a step that is running or has   *)
(* failed.  When the host answers, that entry is of the token it answers in *)
(* every layer: a context torn by a failed step never answers again.       *)
LayersOfEntry(entry) == [i \in DOMAIN entry.applied |-> entry.applied[i][1]]
CachesAgree ==
    /\ \A l \in Layers :
          /\ Len(kv[l]) \in {position, position + 1}
          /\ \A i \in DOMAIN kv[l] :
                /\ LayersOfEntry(kv[l][i]) = [k \in 1 .. l + 1 |-> k - 1]
                /\ i <= position => kv[l][i].token = kv[0][i].token
    /\ phase = "sample" =>
          \A l \in Layers :
              Len(kv[l]) = position + 1 /\ kv[l][position + 1].token = hidden.token

(* Between calls no packet waits, and what a tile has sent the next one has *)
(* received, whether calls succeeded or failed: a failed step leaves no     *)
(* packet for the next step to pick up.                                    *)
FabricDrained ==
    phase = "idle" =>
        /\ \A t \in DOMAIN fabric : fabric[t] = <<>>
        /\ \A t \in Tiles \ {LastTile} :
              counters[t].activations_sent = counters[t + 1].activations_received
        /\ counters[LastTile].logits_sent >= position

\* A step that is refused before it begins, whatever the token: the cluster alone checks
\* its plan, for which the memory may be missing.
StepRefused ==
    /\ phase = "idle" /\ request.feed # <<>>
    /\ Fail
    /\ UNCHANGED <<model, backend, ready, kv, position, hidden, logits>>

(* The cluster answers as a single tile: with a plan in layer order every   *)
(* step of the cluster is a step of Infer, refuses to begin one, or leaves  *)
(* its state alone.  A tile that waits for its packet is between two layers *)
(* there.                                                                  *)
Single == INSTANCE Infer WITH
    phase <- IF phase = "receive" THEN "layers" ELSE phase

ImplementsInfer ==
    Single!InferInit /\ [][Single!InferNext \/ StepRefused]_Single!inferVars

(* docs/shard_metadata.md:1027, "The fabric always routes activations in    *)
(* layer order": an activation has always been through the layers before    *)
(* the one it is handed to.                                                *)
RoutesInLayerOrder ==
    phase = "layers" /\ layer < plan.tiles[tile].end
        => LayersOfEntry(hidden) = [k \in 1 .. layer |-> k - 1]
=============================================================================
