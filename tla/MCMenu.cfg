CONSTANTS
    PoolKeys <- MCPoolKeys
    MaxWallets = 10
    FolderSizes <- MCFolderSizes
    BatchSize = 10
    MaxBundleSize = 5
    LutRuns = 1
    Absent = Absent
    NumWallets = 1
    InnerChunk = 1
    OuterChunk = 1
    WrapRuns = 1
    Buyer = Buyer
SPECIFICATION Spec
PROPERTY WrapTerminates
