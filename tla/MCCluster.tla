----------------------------- MODULE MCCluster -----------------------------
(***************************************************************************)
(* Cluster for TLC: prompts, and the shard metadata a model file may carry. *)
(***************************************************************************)
EXTENDS Cluster

MCPrompts == {<<>>, <<0, 1>>, <<1, VocabSize>>}

\* Records of one layer: none, one tile, two that agree or not, one of them
\* without a tile, a tile out of range.
Records == {<<>>, <<0>>, <<1>>, <<0, 0>>, <<0, 1>>, <<Unassigned, 1>>, <<9>>}

MCMetas(layers) == [LayersOf(layers) -> Records]

\* The files whose tiles, where they name one, ascend with the layers.
MCOrderedMetas(layers) ==
    {meta \in MCMetas(layers) :
        \A k, l \in LayersOf(layers) :
            k < l /\ Placed(meta, k) # <<>> /\ Placed(meta, l) # <<>>
                => Head(Placed(meta, k)) <= Head(Placed(meta, l))}
=============================================================================
