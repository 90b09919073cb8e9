\* Bounds: a pass in every loop (PassEvery), a warm-up loop; PPP may be away for a pass (PppWait)
\* and is given up in the third without websocket (NetLimit), so that this can fall on every
\* pass that would try it; OffLimit leaves several passes before a restart.
SPECIFICATION Spec
CONSTANTS
    Confs <- MCConfs
    PassEvery = 1
    WarmUp = 0
    NetLimit = 2
    EthLimit = 1
    OffLimit = 6
    PppWait = 1
    QueueSize = 1
INVARIANTS LinkInv
PROPERTIES Reconnects BootCompletes FlagIsTrue
