CONSTANTS
    NumWallets <- MCPacketWallets
    InnerChunk <- MCPacketInner
    OuterChunk <- MCPacketOuter
    MaxBundleSize <- MCPacketBundleSize
    TotalAmounts <- MCPacketTotals
    Amounts <- MCPacketAmounts
    Permutations <- [Allocation] MCPermutations

SPECIFICATION Spec

INVARIANT TxWithinPacket
