\* Two or four tiles over one to three layers, so that tiles may be empty; plans made at
\* run time and from metadata that ascends; queues of one packet.
SPECIFICATION ClusterSpec
CONSTANTS
    MaxSeqLen = 2
    VocabSize = 2
    LayerCounts = {1, 2, 3}
    TileCounts = {2, 4}
    Prompts <- MCPrompts
    Wants = {0, 2}
    Metas <- MCOrderedMetas
    QueueCapacity = 1
    AttemptLimit = 3
CHECK_DEADLOCK FALSE
INVARIANTS PlanSound CachesAgree FabricDrained
PROPERTIES ImplementsInfer
