\* Metadata that may give an earlier layer to a later tile.
SPECIFICATION ClusterSpec
CONSTANTS
    MaxSeqLen = 2
    VocabSize = 2
    LayerCounts = {1, 2, 3}
    TileCounts = {2, 4}
    Prompts <- MCPrompts
    Wants = {0, 2}
    Metas <- MCMetas
    QueueCapacity = 1
    AttemptLimit = 3
CHECK_DEADLOCK FALSE
INVARIANT RoutesInLayerOrder
