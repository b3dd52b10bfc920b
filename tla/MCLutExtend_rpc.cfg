CONSTANTS
    PoolKeys <- MCPoolKeys
    MaxWallets <- MCMaxWallets
    FolderSizes <- MCFolderSizes
    BatchSize <- MCBatchSize
    MaxBundleSize <- MCMaxBundleSize
    MaxRuns <- MCMaxRuns
    Absent = Absent
SPECIFICATION Spec
PROPERTY RpcUrlKept
