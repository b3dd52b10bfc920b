CONSTANTS
    NumWallets = 3
    InnerChunk <- MCInnerChunk
    OuterChunk <- MCOuterChunk
    MaxBundleSize <- MCMaxBundleSize
    TotalAmounts <- MCTotalAmounts
    Amounts <- MCAmounts

SPECIFICATION Spec

INVARIANT DistributesTotal
