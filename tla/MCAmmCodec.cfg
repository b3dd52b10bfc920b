CONSTANTS
    Instrs <- MCInstrs
    Inputs <- MCInputs
SPECIFICATION CodecAndPoolSpec
INVARIANT CodecTypeOK
INVARIANT RoundTrip
INVARIANT ReadsPrefix
INVARIANT PoolTypeOK
INVARIANT KeysAtOffsets
INVARIANT PcMintIsSol
PROPERTY LoadTerminates
