CONSTANTS
    MaxWallets <- MCPacketWallets
    SwapChunk <- MCPacketChunk
    MaxBundleSize <- MCPacketBundleSize
    MaxRuns <- MCPacketRuns
    TableWallets <- MCPacketTable
    LutStates <- MCLiveLut

SPECIFICATION Spec

INVARIANT TxWithinPacket
