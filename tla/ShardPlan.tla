----------------------------- MODULE ShardPlan -----------------------------
(***************************************************************************)
(* Which tile runs which layers (shard.c): the balanced plan made at run   *)
(* time, and the plan derived from the shard metadata of a model file.     *)
(*                                                                         *)
(* A plan is a record: tiles maps a tile to its range of layers            *)
(* [start, end), layer_to_tile a layer to its tile.                        *)
(***************************************************************************)
EXTENDS Naturals, Sequences, FiniteSets, FiniteSetsExt

Unassigned == 2147483647      \* stands for ATT1_SHARD_TILE_UNASSIGNED, which is no tile

LayersOf(n) == 0 .. n - 1
TilesOf(n) == 0 .. n - 1

CeilDiv(a, b) == (a + b - 1) \div b

\* The layer each tile starts at, and the end: every tile takes its share, rounded
\* up, of the layers still to place.
Boundaries(layers, tiles) ==
    LET starts[t \in 0 .. tiles] ==
            IF t = 0 THEN 0
            ELSE starts[t - 1] + CeilDiv(layers - starts[t - 1], tiles - (t - 1))
    IN  starts

\* att1_shard_plan_build, for a model that it accepts: one whose header says that it
\* is sharded already (config.shard_count) is refused, and then no cluster is made.
PlanBuild(layers, tiles) ==
    LET starts == Boundaries(layers, tiles)
    IN  [tiles |-> [t \in TilesOf(tiles) |->
                       [start |-> starts[t], end |-> starts[t + 1]]],
         layer_to_tile |-> [l \in LayersOf(layers) |->
                       CHOOSE t \in TilesOf(tiles) :
                           starts[t] <= l /\ l < starts[t + 1]]]

----------------------------------------------------------------------------
(* Shard metadata: for every layer, the tiles its tensors' records name, in *)
(* the order of the file.  Records of other tensors place nothing.         *)

Placed(meta, l) == SelectSeq(meta[l], LAMBDA tile : tile # Unassigned)

\* The first tile named is proposed; layers that name more than one count as
\* conflicts.
MetaPlanBuild(meta) ==
    [entries |-> [l \in {l \in DOMAIN meta : Placed(meta, l) # <<>>} |->
                     Head(Placed(meta, l))],
     conflict |-> Cardinality(
                     {l \in DOMAIN meta :
                         \E i \in DOMAIN Placed(meta, l) :
                             Placed(meta, l)[i] # Head(Placed(meta, l))})]

\* The layers of one tile.
LayersOn(entries, tile) == {l \in DOMAIN entries : entries[l] = tile}

Contiguous(layers) == layers # {} => layers = Min(layers) .. Max(layers)

FromMetaAccepts(proposed, layers, tiles) ==
    /\ DOMAIN proposed.entries = LayersOf(layers)
    /\ proposed.conflict = 0
    /\ \A l \in LayersOf(layers) : proposed.entries[l] \in TilesOf(tiles)
    /\ \A t \in TilesOf(tiles) : Contiguous(LayersOn(proposed.entries, t))

\* Mutation of RangeOn: a tile without layers keeps the sentinel it was initialised
\* with.
RangeOnWithSentinel(entries, tile) ==
    LET on == LayersOn(entries, tile)
    IN  IF on = {} THEN [start |-> Cardinality(DOMAIN entries), end |-> 0]
        ELSE [start |-> Min(on), end |-> Max(on) + 1]

\* A tile without layers has the range [0, 0).
RangeOn(entries, tile) ==
    LET on == LayersOn(entries, tile)
    IN  IF on = {} THEN [start |-> 0, end |-> 0]
        ELSE [start |-> Min(on), end |-> Max(on) + 1]

PlanFromMeta(proposed, tiles) ==
    [tiles |-> [t \in TilesOf(tiles) |-> RangeOn(proposed.entries, t)],
     layer_to_tile |-> proposed.entries]

----------------------------------------------------------------------------

LayersIn(range) == range.start .. range.end - 1

\* What decode checks of its plan before it runs.
PlanComplete(plan, layers) ==
    /\ DOMAIN plan.tiles # {}
    /\ DOMAIN plan.layer_to_tile = LayersOf(layers)
    /\ \A t \in DOMAIN plan.tiles :
          /\ plan.tiles[t].start <= plan.tiles[t].end
          /\ plan.tiles[t].end <= layers
          /\ \A l \in LayersIn(plan.tiles[t]) : plan.layer_to_tile[l] = t
    /\ \A l \in LayersOf(layers) :
          \E t \in DOMAIN plan.tiles : l \in LayersIn(plan.tiles[t])

\* Where a tile's layers, run tile after tile, are the layers in their order.
InLayerOrder(plan) ==
    \A t, u \in DOMAIN plan.tiles :
        t < u => \A l \in LayersIn(plan.tiles[t]), k \in LayersIn(plan.tiles[u]) : l < k
=============================================================================
