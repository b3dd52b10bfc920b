CONSTANTS
    NumWallets <- MCNumWallets
    InnerChunk <- MCInnerChunk
    OuterChunk <- MCOuterChunk
    MaxBundleSize <- MCMaxBundleSize
    MaxRuns <- MCMaxRuns
    LutStates <- MCLutStates
    Buyer = Buyer

SPECIFICATION Spec

INVARIANT TypeOK
INVARIANT SignersMatch
INVARIANT BundleWithinLimit
INVARIANT WrapAtMostOnce

PROPERTY CompletedRunWrapsAll
PROPERTY Termination
