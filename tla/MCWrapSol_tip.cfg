CONSTANTS
    NumWallets <- MCNumWallets
    InnerChunk <- MCInnerChunk
    OuterChunk <- MCOuterChunk
    MaxBundleSize <- MCMaxBundleSize
    MaxRuns <- MCMaxRuns
    LutStates <- MCLiveLut
    Buyer = Buyer

SPECIFICATION Spec

INVARIANT TipOncePerBundle
