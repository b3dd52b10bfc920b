CONSTANTS
    PoolKeys <- MCPoolKeys
    MaxWallets <- MCMaxWallets
    FolderSizes <- MCFolderSizes
    BatchSize <- MCBatchSize
    MaxBundleSize <- MCMaxBundleSize
    MaxRuns <- MCMaxRuns
    Absent = Absent
SPECIFICATION Spec
INVARIANT LutTypeOK
INVARIANT BatchesAreChunks
INVARIANT TxWithinPacket
PROPERTY TablesRefined
PROPERTY LutKeyKept
