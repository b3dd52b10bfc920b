CONSTANTS
    MaxWallets <- MCMaxWallets
    SwapChunk <- MCSwapChunk
    MaxBundleSize <- MCMaxBundleSize
    MaxRuns <- MCMaxRuns
    TableWallets <- MCTableWallets
    LutStates <- MCLutStates

SPECIFICATION Spec

INVARIANT PoolTypeOK

PROPERTY LaunchSnipesReadable
PROPERTY Termination
