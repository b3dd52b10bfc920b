------------------------------ MODULE MCAmmCodec ------------------------------
(***************************************************************************)
(* AmmCodec for TLC.  Every variant is packed with field values 0 and the   *)
(* largest or a multi-byte value of its width (258 stands for the wider     *)
(* integers, whose byte order it tells apart), and UpdateConfigAccount with *)
(* every param, owner and fee.  Raw inputs are all strings of up to three   *)
(* bytes over tags and values that matter, and whole encodings with a       *)
(* trailing byte.                                                           *)
(*                                                                         *)
(* The same run reads pool state with load_amm_keys (module PoolState), a  *)
(* second decoder of the Raydium program's bytes: a behaviour either runs  *)
(* the codec harness or calls load_amm_keys.                               *)
(***************************************************************************)
EXTENDS AmmCodec

VARIABLES lPc, retries, account, keys

Vals(w) == IF w = 1 THEN {0, 255} ELSE {0, 258}

(* the argument tuples of variant t: each field 0 or its test value *)
ArgsOf(t) ==
    LET ws == UnpackLayout[t]
    IN  {a \in [DOMAIN ws -> {0, 255, 258}] : \A i \in DOMAIN ws : a[i] \in Vals(ws[i])}

MCInstrs ==
    UNION {{Ix(t, args, {}, {}) :
              args \in ArgsOf(t)} :
           t \in DOMAIN UnpackLayout}
    \cup {Ix(15, << param >>, owner, fee) :
            param \in 0..3, owner \in {{}, {0}, {1}}, fee \in {{}, {0}, {258}}}

MCInputs ==
    {s \in UNION {[1..n -> {0, 1, 2, 6, 13, 15}] : n \in 0..3} : TRUE}
    \cup {<<15, 1>> \o LE(7, 32), <<15, 2>> \o LE(258, 8) \o <<5>>,
          <<9>> \o LE(258, 8) \o LE(1, 8) \o <<5>>, <<1, 3>> \o LE(258, 8) \o LE(1, 16)}

Zeros(n) == [i \in 1..n |-> 0]

(* a Pubkey with one distinguishing low byte *)
PK(v) == << v >> \o Zeros(31)

MCSol == PK(1)

(* a 752-byte AMM v4 account: nonce 7 and the other integers 0, then the  *)
(* 12 Pubkeys with the given mints, then lpReserve and padding            *)
StateData(base, quote) ==
    Zeros(8) \o << 7 >> \o Zeros(7) \o Zeros(30 * 8) \o Zeros(80)
    \o PK(11) \o PK(12) \o base \o quote
    \o FlattenSeq([i \in 1..8 |-> PK(14 + i)]) \o Zeros(32)

(* pools of SOL as base, SOL as quote, no SOL, and an account one byte short *)
MCAccounts ==
    {[data |-> StateData(MCSol, PK(3)), owner |-> 1],
     [data |-> StateData(PK(3), MCSol), owner |-> 1],
     [data |-> StateData(PK(3), PK(4)), owner |-> 2],
     [data |-> SubSeq(StateData(PK(3), MCSol), 1, 751), owner |-> 1]}

MCMaxRetries == 3

P == INSTANCE PoolState
    WITH Accounts <- MCAccounts, SolMint <- MCSol, MaxRetries <- MCMaxRetries,
         lPc <- lPc, retries <- retries, account <- account, keys <- keys

allVars == <<vars, lPc, retries, account, keys>>

(* the codec harness at rest, and load_amm_keys never called *)
CodecIdle == phase = "done" /\ x = NoIx /\ input = << >> /\ result = NoResult
PoolIdle == lPc = "done" /\ retries = 0 /\ account = P!NoAccount /\ keys = P!NoKeys

(* each behaviour exercises one of the two decoders *)
CodecAndPoolSpec ==
    /\ (Init /\ PoolIdle) \/ (CodecIdle /\ P!PoolInit)
    /\ [][(Next /\ UNCHANGED <<lPc, retries, account, keys>>) \/ (P!PoolNext /\ UNCHANGED vars)]_allVars
    /\ P!PoolFairness

(* the type invariant of module PoolState *)
PoolTypeOK == P!PoolTypeOK
(* load_amm_keys reads the keys at their on-chain offsets (PoolState) *)
KeysAtOffsets == P!KeysAtOffsets
(* the SOL mint ends on the pc side (PoolState) *)
PcMintIsSol == P!PcMintIsSol
(* load_amm_keys always returns (PoolState) *)
LoadTerminates == P!LoadTerminates
====
