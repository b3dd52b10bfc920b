------------------------------- MODULE PoolState -------------------------------
(***************************************************************************)
(* The Raydium pool state and how the bundler reads it:                    *)
(* LIQUIDITY_STATE_LAYOUT_V4::decode with unpack_u64/u128/pubkey in         *)
(* src/src/raydium/instruction/decoder.rs, and load_amm_keys in             *)
(* src/src/raydium/instruction/instruction.rs, which polls the pool account *)
(* at most MaxRetries times, decodes it, puts the SOL mint on the pc side   *)
(* and returns the AMM keys.                                                *)
(*                                                                         *)
(* Every field is kept as the bytes read: a Pubkey is its 32 bytes, and the *)
(* only integer used, the nonce, is the low byte of its u64 (nonce as u8).  *)
(***************************************************************************)
EXTENDS Naturals, Sequences, SequencesExt

CONSTANTS
    Accounts,     \* the pool accounts get_account may return: [data, owner]
    SolMint,      \* the 32 bytes of SOLC_MINT
    MaxRetries    \* max_retries of load_amm_keys (1000)

ASSUME MaxRetries \in Nat \ {0}

(* the Pubkey fields, in declaration order *)
KeyNames ==
    << "baseVault", "quoteVault", "baseMint", "quoteMint", "lpMint",
       "openOrders", "marketId", "marketProgramId", "targetOrders",
       "withdrawQueue", "lpVault", "owner" >>

(* variant: swapBase2QuoteFee is read as a u128 *)
LayoutWideFee ==
    [i \in 1..32 |-> 8] \o << 16, 16, 16, 16, 16, 8 >>
    \o [i \in 1..12 |-> 32] \o << 8, 8, 8, 8 >>

(* the width of every field decode reads: 32 u64 from status to          *)
(* orderbookToInitTime, the swap amounts (u128) and fees (u64), the 12    *)
(* Pubkeys, lpReserve and the three u64 of padding                        *)
Layout ==
    [i \in 1..32 |-> 8] \o << 16, 16, 8, 16, 16, 8 >>
    \o [i \in 1..12 |-> 32] \o << 8, 8, 8, 8 >>

(* position in Layout of each Pubkey field and of the nonce *)
KeyField(name) == 38 + CHOOSE i \in DOMAIN KeyNames : KeyNames[i] = name
NonceField == 2

(* the byte offset at which each field is read: the widths before it *)
Start(i) == FoldSeq(LAMBDA w, acc : w + acc, 0, SubSeq(Layout, 1, i - 1))

(* unpack_u64, unpack_u128, unpack_pubkey: read_exact of the field's      *)
(* width from where the previous read stopped                             *)
ReadField(data, i) == SubSeq(data, Start(i) + 1, Start(i) + Layout[i])

(* decode: the fields in order; a read_exact past the end is an error      *)
(* returned by ?, so decode succeeds exactly when every field fits         *)
Decode(data) ==
    IF Len(data) >= Start(Len(Layout)) + Layout[Len(Layout)]
    THEN [ok |-> TRUE, vals |-> [i \in DOMAIN Layout |-> ReadField(data, i)]]
    ELSE [ok |-> FALSE, vals |-> << >>]

(* variant: the base mint is replaced and the quote mint left as it was *)
SolOnPcSideHalf(base, quote) ==
    IF base = SolMint THEN <<quote, quote>> ELSE <<base, quote>>

(* if info.baseMint == SOLC_MINT the two mints are exchanged: the result  *)
(* is <<coin mint, pc mint>>                                               *)
SolOnPcSide(base, quote) ==
    IF base = SolMint THEN <<quote, SolMint>> ELSE <<base, quote>>

(* program_address(&account.owner): the PDA of "amm authority" *)
Authority(owner) == <<"ammAuthority", owner>>

(* the AmmKeys built from a decoded state *)
AmmKeysOf(vals, owner) ==
    LET key(n) == vals[KeyField(n)]
        mints == SolOnPcSide(key("baseMint"), key("quoteMint"))
    IN  [ok |-> TRUE,
         target |-> key("targetOrders"), coinVault |-> key("baseVault"),
         pcVault |-> key("quoteVault"), lpMint |-> key("lpMint"),
         openOrders |-> key("openOrders"), coinMint |-> mints[1],
         pcMint |-> mints[2], authority |-> Authority(owner),
         market |-> key("marketId"), marketProgram |-> key("marketProgramId"),
         nonce |-> vals[NonceField][1]]

LoadErr == [ok |-> FALSE]
-----------------------------------------------------------------------------
VARIABLES
    lPc,       \* "fetch", "decode" or "done"
    retries,   \* failed get_account calls so far
    account,   \* the account fetched, NoAccount while none
    keys       \* what load_amm_keys returned, NoKeys before

poolVars == <<lPc, retries, account, keys>>

NoAccount == [data |-> << >>, owner |-> 0]
NoKeys == [ok |-> FALSE, pending |-> TRUE]

PoolInit ==
    /\ lPc = "fetch" /\ retries = 0
    /\ account = NoAccount /\ keys = NoKeys

(* variant: the loop is written with || and goes on after a success *)
FetchOkOrLoop ==
    /\ lPc = "fetch" /\ retries < MaxRetries
    /\ account' \in Accounts
    /\ UNCHANGED <<lPc, retries, keys>>

(* get_account returns the pool account: the loop ends *)
FetchOk ==
    /\ lPc = "fetch" /\ retries < MaxRetries
    /\ account' \in Accounts
    /\ lPc' = "decode"
    /\ UNCHANGED <<retries, keys>>

(* variant: the loop bound is inclusive *)
FetchErrPastMax ==
    /\ lPc = "fetch" /\ retries <= MaxRetries
    /\ retries' = retries + 1
    /\ UNCHANGED <<lPc, account, keys>>

(* get_account fails: retries += 1 and the loop goes on *)
FetchErr ==
    /\ lPc = "fetch" /\ retries < MaxRetries
    /\ retries' = retries + 1
    /\ UNCHANGED <<lPc, account, keys>>

(* the loop ran out: "Account not found after maximum retries" *)
GiveUp ==
    /\ lPc = "fetch" /\ retries = MaxRetries
    /\ keys' = LoadErr /\ lPc' = "done"
    /\ UNCHANGED <<retries, account>>

(* decode the data, an error returned by ?, or the keys with the SOL mint *)
(* on the pc side                                                          *)
DecodeAccount ==
    /\ lPc = "decode"
    /\ LET d == Decode(account.data)
       IN  keys' = IF d.ok THEN AmmKeysOf(d.vals, account.owner) ELSE LoadErr
    /\ lPc' = "done"
    /\ UNCHANGED <<retries, account>>

PoolDone ==
    /\ lPc = "done"
    /\ UNCHANGED poolVars

PoolNext == FetchOk \/ FetchErr \/ GiveUp \/ DecodeAccount \/ PoolDone

(* load_amm_keys runs to its return once called *)
PoolFairness == WF_poolVars(FetchOk \/ FetchErr \/ GiveUp) /\ WF_poolVars(DecodeAccount)
-----------------------------------------------------------------------------
PoolTypeOK ==
    /\ lPc \in {"fetch", "decode", "done"}
    /\ retries \in 0..MaxRetries
    /\ account \in Accounts \cup {NoAccount}
    /\ keys.ok \in BOOLEAN

(* the 32 bytes at a byte offset of the account data *)
At(data, offset) == SubSeq(data, offset + 1, offset + 32)

(* offsets of the AMM v4 account, as published for the on-chain layout *)
Offset ==
    ("baseVault" :> 336) @@ ("quoteVault" :> 368) @@ ("baseMint" :> 400)
    @@ ("quoteMint" :> 432) @@ ("lpMint" :> 464) @@ ("openOrders" :> 496)
    @@ ("marketId" :> 528) @@ ("marketProgramId" :> 560) @@ ("targetOrders" :> 592)

(* load_amm_keys returns, for an account of the full 752 bytes, the pool's *)
(* market, market program, target orders, open orders and LP mint as they *)
(* lie at their on-chain offsets, and the nonce's low byte at offset 8;    *)
(* a shorter account is an error, never keys                              *)
KeysAtOffsets ==
    lPc = "done" /\ account # NoAccount =>
        IF Len(account.data) < 752 THEN ~keys.ok
        ELSE LET at(n) == At(account.data, Offset[n])
             IN  /\ keys.ok
                 /\ keys.market = at("marketId")
                 /\ keys.marketProgram = at("marketProgramId")
                 /\ keys.target = at("targetOrders")
                 /\ keys.openOrders = at("openOrders")
                 /\ keys.lpMint = at("lpMint")
                 /\ keys.nonce = account.data[9]

(* the coin and pc mints returned are the pool's two mints, with SOL on   *)
(* the pc side whenever the pool trades SOL                               *)
PcMintIsSol ==
    lPc = "done" /\ keys.ok =>
        LET base == At(account.data, Offset["baseMint"])
            quote == At(account.data, Offset["quoteMint"])
        IN  /\ {keys.coinMint, keys.pcMint} = {base, quote}
            /\ SolMint \in {base, quote} => keys.pcMint = SolMint

(* load_amm_keys always returns: its poll is bounded by max_retries *)
LoadTerminates == lPc = "fetch" ~> lPc = "done"
====
