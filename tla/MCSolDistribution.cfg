CONSTANTS
    NumWallets <- MCNumWallets
    InnerChunk <- MCInnerChunk
    OuterChunk <- MCOuterChunk
    MaxBundleSize <- MCMaxBundleSize
    TotalAmounts <- MCTotalAmounts
    Amounts <- MCAmounts

SPECIFICATION Spec

INVARIANT DistTypeOK
INVARIANT PlanSumsToTotal
INVARIANT FundedIsPrefix

