SPECIFICATION Spec
CONSTANTS
    IVSize = 2
    MacSize = 2
    ChunkSize = 3
    BufferSize = 2
    ReadSizes <- MCReadSizes
    MaxBytes = 5
    MaxFailures = 2
INVARIANTS
    StreamInv
    ReadBack
    OnlySealedFiles
    KeystreamOnce
