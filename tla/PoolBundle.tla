------------------------------ MODULE PoolBundle ------------------------------
(***************************************************************************)
(* The "Bundle Liquidity" mode: pool_main in src/src/raydium/bundler.rs.    *)
(*                                                                         *)
(* pool_main builds the pool creation transaction of the deployer, polls   *)
(* the lookup table (forever), then walks the wallets in transactions of    *)
(* SwapChunk wallets (chunks(7)).  A wallet whose wSOL token balance cannot *)
(* be read is skipped (continue); any other gets a swap of that balance.    *)
(* The tip is added after the swap of the last wallet of the last chunk.    *)
(* Every chunk becomes a transaction, an empty one included.  After         *)
(* subscribing to bundle results it refuses more than MaxBundleSize         *)
(* transactions and sends the bundle; a send error is printed and the mode  *)
(* returns Ok.                                                             *)
(*                                                                         *)
(* The chain executes a landed bundle's transactions in order, all or       *)
(* nothing: the pool creation fails if the pool exists, a swap fails unless *)
(* the pool exists and the wallet's wSOL account holds a balance.           *)
(***************************************************************************)
EXTENDS Naturals, Sequences, SequencesExt

CONSTANTS
    MaxWallets,     \* the largest wallet folder the user may pick (it may be empty)
    SwapChunk,      \* wallets per swap transaction: wallets.chunks(7)
    MaxBundleSize,  \* the limit pool_main checks and the relay enforces (5)
    MaxRuns,        \* how many times the user starts the mode
    TableWallets,   \* the wallets whose addresses lut_main put in the table
    LutStates       \* what LUT-KEY may name: a table that exists or not

ASSUME MaxWallets \in Nat \ {0} /\ SwapChunk \in Nat \ {0}
ASSUME MaxBundleSize \in Nat \ {0} /\ MaxRuns \in Nat
ASSUME TableWallets \subseteq Nat \ {0}
ASSUME LutStates \subseteq {"dead", "live"}

VARIABLES
    pc,           \* program point of pool_main, "idle" between runs
    runs,         \* invocations of pool_main so far
    nw,           \* the number of wallets in the folder picked
    ci,           \* chunk_index of the swap loop
    wi,           \* position of the current wallet in its chunk
    ixs,          \* current_instructions of the chunk
    txns,         \* txns_chunk
    skipped,      \* wallets whose balance read failed in this run
    wsol,         \* chain: each wallet's wSOL account, "none" or "funded"
    poolCreated,  \* chain: the AMM pool exists
    swapped,      \* chain: the wallets whose swap has executed
    lutKey,       \* the table LUT-KEY names: "live" exists, "dead" does not
    lutFailed     \* the last get_account of the table failed and is retried

vars == <<pc, runs, nw, ci, wi, ixs, txns, skipped, wsol, poolCreated, swapped, lutKey, lutFailed>>

AllWallets == 1..MaxWallets

(* variant: chunks that drop a short last piece *)
ChunksFloor(s, size) ==
    [i \in 1..(Len(s) \div size) |-> SubSeq(s, (i - 1) * size + 1, i * size)]

(* slice.chunks(size): consecutive pieces of size, the last shorter *)
Chunks(s, size) ==
    [i \in 1..((Len(s) + size - 1) \div size) |->
        SubSeq(s, (i - 1) * size + 1, Min({i * size, Len(s)}))]

WalletChunks == Chunks([i \in 1..nw |-> i], SwapChunk)

Wallet == WalletChunks[ci][wi]

Ix(kind, w) == [kind |-> kind, w |-> w]

(* the deployer's transaction of pool_ixs: create the seeded wSOL account, *)
(* initialise it and initialise the AMM pool                                *)
PoolTx == << Ix("pool", 0) >>

IsLastWallet == ci = Len(WalletChunks) /\ wi = Len(WalletChunks[ci])

(* variant: the loop runs one position past the end of the chunk *)
NextWalletOffByOne ==
    IF wi <= Len(WalletChunks[ci])
    THEN wi' = wi + 1 /\ pc' = "wallet"
    ELSE wi' = wi /\ pc' = "endChunk"

(* move to the next wallet of the chunk, or to the end of the chunk *)
NextWallet ==
    IF wi < Len(WalletChunks[ci])
    THEN wi' = wi + 1 /\ pc' = "wallet"
    ELSE wi' = wi /\ pc' = "endChunk"

BundleIxs(b) == FlattenSeq(b)

Wire == INSTANCE TxWire

(* the keys of the AMM and its Serum market, numbered in the order         *)
(* poolkeys_lut pushes them                                                *)
PoolKeyNo ==
    ("ammPool" :> 1) @@ ("coinMint" :> 2) @@ ("pcMint" :> 3) @@ ("lpMint" :> 4)
    @@ ("authority" :> 5) @@ ("openOrders" :> 6) @@ ("target" :> 7)
    @@ ("coinVault" :> 8) @@ ("pcVault" :> 9) @@ ("marketProgram" :> 10)
    @@ ("market" :> 11) @@ ("reqQ" :> 12) @@ ("eventQ" :> 13) @@ ("bids" :> 14)
    @@ ("asks" :> 15) @@ ("marketCoinVault" :> 16) @@ ("marketPcVault" :> 17)
    @@ ("vaultSigner" :> 18)

K(name) == <<"pool", PoolKeyNo[name]>>
Key(name) == <<name, 0>>
Wr(k) == Wire!Meta(k, FALSE, TRUE)
Ro(k) == Wire!Meta(k, FALSE, FALSE)

(* the lookup table pool_main loads: what poolkeys_lut and accountatas_lut *)
(* pushed, the buyer's two token accounts and each wallet's two token      *)
(* accounts and the wallet itself                                          *)
Table ==
    {K(n) : n \in DOMAIN PoolKeyNo}
    \cup {<<t, i>> : t \in {"mintAta", "solAta"}, i \in {0} \cup TableWallets}
    \cup {<<"wallet", i>> : i \in TableWallets}

(* swap: with out set, the destination is passed to swap_base_in as the   *)
(* source and the source as the destination                               *)
SwapUser(source, destination, out) ==
    IF out THEN <<destination, source>> ELSE <<source, destination>>

(* swap_ixs: the wallet's token account of the mint is the destination;   *)
(* pool_main passes the wallet's wSOL account as the source and out false *)
SwapIxUser(w) == SwapUser(<<"solAta", w>>, <<"mintAta", w>>, FALSE)

(* swap_base_in: the pool, market and user accounts, the wallet signing   *)
(* as owner; the data is the tag and two u64                               *)
SwapWire(w) ==
    Wire!WireIx(Key("ammProgram"),
        << Ro(Key("splToken")), Wr(K("ammPool")), Ro(K("authority")),
           Wr(K("openOrders")), Wr(K("target")), Wr(K("coinVault")), Wr(K("pcVault")),
           Ro(K("marketProgram")), Wr(K("market")), Wr(K("bids")), Wr(K("asks")),
           Wr(K("eventQ")), Wr(K("marketCoinVault")), Wr(K("marketPcVault")),
           Ro(K("vaultSigner")), Wr(SwapIxUser(w)[1]), Wr(SwapIxUser(w)[2]),
           Wire!Meta(<<"wallet", w>>, TRUE, FALSE) >>,
        1 + 8 + 8)

(* jito_tip_acc: one of the eight tip accounts of the tip program, picked *)
(* at random; none is in the table, and which one does not change a size *)
TipAccount == Key("tipAccount")

(* jito_tip_inx: a system transfer from the buyer to a tip account *)
TipWire ==
    Wire!WireIx(Key("system"),
        << Wire!Meta(Key("buyer"), TRUE, TRUE), Wr(TipAccount) >>, 4 + 8)

(* initialize_amm_pool -> initialize2: its 21 accounts, the deployer      *)
(* signing as user wallet, and the tag, nonce and three u64                 *)
Init2Wire(deployer, userTokenCoin, userTokenPc, userTokenLp) ==
    Wire!WireIx(Key("ammProgram"),
        << Ro(Key("splToken")), Ro(Key("ataProgram")), Ro(Key("system")),
           Ro(Key("rent")), Wr(K("ammPool")), Ro(K("authority")),
           Wr(K("openOrders")), Wr(K("lpMint")), Ro(K("coinMint")),
           Ro(K("pcMint")), Wr(K("coinVault")), Wr(K("pcVault")),
           Wr(K("target")), Ro(Key("ammConfig")), Wr(Key("feeDestination")),
           Ro(K("marketProgram")), Ro(K("market")),
           Wire!Meta(deployer, TRUE, TRUE), Wr(userTokenCoin),
           Wr(userTokenPc), Wr(userTokenLp) >>,
        1 + 1 + 8 + 8 + 8)

(* pool_ixs: create_account_with_seed of the deployer (base and payer) for *)
(* a 165-byte token account with a 32-character seed, initialize_account   *)
(* of it for the SOL mint, and the pool's initialize with the deployer's  *)
(* token ATA, the seeded account as pc account and the LP ATA              *)
PoolWire ==
    LET deployer == Key("deployer")
    IN  << Wire!WireIx(Key("system"),
               << Wire!Meta(deployer, TRUE, TRUE), Wr(Key("seeded")),
                  Wire!Meta(deployer, TRUE, FALSE) >>,
               4 + 32 + (8 + 32) + 8 + 8 + 32),
           Wire!WireIx(Key("splToken"),
               << Wr(Key("seeded")), Ro(K("pcMint")), Ro(deployer), Ro(Key("rent")) >>, 1),
           Init2Wire(deployer, Key("deployerMintAta"), Key("seeded"), Key("deployerLpAta")) >>

(* the compiled instructions of a model instruction *)
WireOf(ix) ==
    CASE ix.kind = "pool" -> PoolWire
      [] ix.kind = "swap" -> << SwapWire(ix.w) >>
      [] ix.kind = "tip"  -> << TipWire >>

(* serialize(x).len() of a transaction of the bundle: the pool transaction *)
(* is paid by the deployer, every swap transaction by the buyer, and both  *)
(* are compiled against the table of LUT-KEY                               *)
TxBytes(tx) ==
    LET payer == IF Ix("pool", 0) \in Range(tx) THEN Key("deployer") ELSE Key("buyer")
    IN  Wire!V0Bytes(payer, FlattenSeq([i \in DOMAIN tx |-> WireOf(tx[i])]), Table)

TipCount(b) == Len(SelectSeq(BundleIxs(b), LAMBDA ix : ix.kind = "tip"))

(* the wallets a bundle swaps for *)
SwapsOf(b) == {ix.w : ix \in {x \in Range(BundleIxs(b)) : x.kind = "swap"}}

(* position of the first pool creation in a bundle, Len + 1 if none *)
PoolPos(b) ==
    IF \E t \in DOMAIN b : Ix("pool", 0) \in Range(b[t])
    THEN Min({t \in DOMAIN b : Ix("pool", 0) \in Range(b[t])})
    ELSE Len(b) + 1

(* executing the transactions in order, every one succeeds: the pool is    *)
(* created once and not over an existing pool, and each swap comes after   *)
(* the creation and spends a funded wSOL account                            *)
Executes(b) ==
    /\ poolCreated => PoolPos(b) = Len(b) + 1
    /\ \A t \in DOMAIN b : \A ix \in Range(b[t]) :
          ix.kind = "swap" =>
              /\ poolCreated \/ PoolPos(b) < t
              /\ wsol[ix.w] = "funded"

(* the relay lands a bundle within its limit that pays a tip, executes   *)
(* and has every transaction within a packet                             *)
RelayLands(b) ==
    /\ Len(b) <= MaxBundleSize /\ TipCount(b) >= 1 /\ Executes(b)
    /\ \A t \in DOMAIN b : TxBytes(b[t]) <= Wire!PacketDataSize

Land(b) ==
    /\ poolCreated' = (poolCreated \/ PoolPos(b) <= Len(b))
    /\ swapped' = swapped \cup SwapsOf(b)

-----------------------------------------------------------------------------
Init ==
    /\ pc = "idle" /\ runs = 0 /\ nw = 0
    /\ ci = 1 /\ wi = 1
    /\ ixs = << >> /\ txns = << >> /\ skipped = {}
    /\ wsol \in [AllWallets -> {"none", "funded"}]
    /\ poolCreated = FALSE /\ swapped = {}
    /\ lutKey \in LutStates /\ lutFailed = FALSE

(* variant: the folder is counted with one wallet too many *)
StartOffByOne(k) ==
    /\ pc = "idle"
    /\ runs < MaxRuns
    /\ pc' = "prep" /\ runs' = runs + 1 /\ nw' = k + 1
    /\ skipped' = {}
    /\ UNCHANGED <<lutKey, lutFailed, ci, wi, ixs, txns, wsol, poolCreated, swapped>>

(* the user picks a wallet folder of k wallets and starts pool_main *)
Start(k) ==
    /\ pc = "idle"
    /\ runs < MaxRuns
    /\ pc' = "prep" /\ runs' = runs + 1 /\ nw' = k
    /\ skipped' = {}
    /\ UNCHANGED <<lutKey, lutFailed, ci, wi, ixs, txns, wsol, poolCreated, swapped>>

(* list_folders fails (return Ok), loading settings, pool_ixs or the       *)
(* market keys fail (Err or panic: too little deployer balance, unwrap),    *)
(* or LUT-KEY does not parse (panic)                                       *)
PrepFail ==
    /\ pc = "prep"
    /\ pc' = "idle"
    /\ UNCHANGED <<lutKey, lutFailed, runs, nw, ci, wi, ixs, txns, skipped, wsol, poolCreated, swapped>>

(* the pool instructions are built, the pool id written to                *)
(* mintor_settings.json, the market keys loaded and the tip typed in       *)
PrepOk ==
    /\ pc = "prep"
    /\ pc' = "fetchLut"
    /\ UNCHANGED <<lutKey, lutFailed, runs, nw, ci, wi, ixs, txns, skipped, wsol, poolCreated, swapped>>

(* variant: the fetched account is dropped and the loop goes on *)
FetchLutDropped ==
    /\ pc = "fetchLut"
    /\ UNCHANGED vars

(* while raw_account.is_none(): get_account fails, the error is printed  *)
(* and the call retried at once; at a key with no table it fails every   *)
(* time                                                                   *)
FetchLutFail ==
    /\ pc = "fetchLut"
    /\ lutFailed' = TRUE
    /\ UNCHANGED <<lutKey, pc, runs, nw, ci, wi, ixs, txns, skipped, wsol, poolCreated, swapped>>

(* get_account returns the table and the loop ends *)
FetchLutOk ==
    /\ pc = "fetchLut"
    /\ lutKey = "live"
    /\ pc' = "buildPool"
    /\ lutFailed' = FALSE
    /\ UNCHANGED <<lutKey, runs, nw, ci, wi, ixs, txns, skipped, wsol, poolCreated, swapped>>

(* deserializing the table or fetching a blockhash fails (Err), or the    *)
(* pool transaction cannot be signed (Err)                                 *)
BuildPoolFail ==
    /\ pc = "buildPool"
    /\ pc' = "idle"
    /\ UNCHANGED <<lutKey, lutFailed, runs, nw, ci, wi, ixs, txns, skipped, wsol, poolCreated, swapped>>

(* the pool transaction is signed by the deployer and pushed first; the   *)
(* swap loop runs over the chunks, none for an empty folder                 *)
BuildPool ==
    /\ pc = "buildPool"
    /\ pc' = IF WalletChunks = << >> THEN "subscribe" ELSE "wallet"
    /\ ci' = 1 /\ wi' = 1
    /\ ixs' = << >> /\ txns' = << PoolTx >>
    /\ UNCHANGED <<lutKey, lutFailed, runs, nw, skipped, wsol, poolCreated, swapped>>

(* get_token_account_balance of the wallet's wSOL account fails, because *)
(* the account does not exist or the call fails: the wallet is skipped     *)
WalletSkip ==
    /\ pc = "wallet"
    /\ skipped' = skipped \cup {Wallet}
    /\ NextWallet
    /\ UNCHANGED <<lutKey, lutFailed, runs, nw, ci, ixs, txns, wsol, poolCreated, swapped>>

(* the balance is read: a swap of it, then the tip after the last wallet   *)
(* of the last chunk                                                       *)
WalletSwap ==
    /\ pc = "wallet"
    /\ wsol[Wallet] = "funded"
    /\ ixs' = ixs \o << Ix("swap", Wallet) >>
                  \o (IF IsLastWallet THEN << Ix("tip", 0) >> ELSE << >>)
    /\ NextWallet
    /\ UNCHANGED <<lutKey, lutFailed, runs, nw, ci, skipped, txns, wsol, poolCreated, swapped>>

(* the chunk is compiled and signed by its wallets and the buyer, even     *)
(* when it has no instruction                                              *)
EndChunk ==
    /\ pc = "endChunk"
    /\ txns' = Append(txns, ixs)
    /\ ixs' = << >>
    /\ IF ci < Len(WalletChunks)
       THEN ci' = ci + 1 /\ wi' = 1 /\ pc' = "wallet"
       ELSE ci' = ci /\ wi' = wi /\ pc' = "subscribe"
    /\ UNCHANGED <<lutKey, lutFailed, runs, nw, skipped, wsol, poolCreated, swapped>>

(* get_searcher_client fails (Err), subscribing fails (expect), or there   *)
(* are more than MaxBundleSize transactions (Err)                          *)
SubscribeFail ==
    /\ pc = "subscribe"
    /\ pc' = "idle"
    /\ UNCHANGED <<lutKey, lutFailed, runs, nw, ci, wi, ixs, txns, skipped, wsol, poolCreated, swapped>>

TooManyTxns ==
    /\ pc = "subscribe"
    /\ Len(txns) > MaxBundleSize
    /\ pc' = "idle"
    /\ UNCHANGED <<lutKey, lutFailed, runs, nw, ci, wi, ixs, txns, skipped, wsol, poolCreated, swapped>>

Submit ==
    /\ pc = "subscribe"
    /\ Len(txns) <= MaxBundleSize
    /\ pc' = "submit"
    /\ UNCHANGED <<lutKey, lutFailed, runs, nw, ci, wi, ixs, txns, skipped, wsol, poolCreated, swapped>>

(* send_bundle_with_confirmation: the bundle lands, whatever the result   *)
(* reported; pool_main returns Ok either way                                *)
SendLanded ==
    /\ pc = "submit"
    /\ RelayLands(txns)
    /\ Land(txns)
    /\ pc' = "idle"
    /\ UNCHANGED <<lutKey, lutFailed, runs, nw, ci, wi, ixs, txns, skipped, wsol>>

(* the relay drops the bundle or the connection fails *)
SendNotLanded ==
    /\ pc = "submit"
    /\ pc' = "idle"
    /\ UNCHANGED <<lutKey, lutFailed, runs, nw, ci, wi, ixs, txns, skipped, wsol, poolCreated, swapped>>

(* the user stops using the mode *)
Finished ==
    /\ pc = "idle"
    /\ runs = MaxRuns
    /\ UNCHANGED vars

Next ==
    \/ \E k \in 0..MaxWallets : Start(k)
    \/ PrepFail \/ PrepOk \/ FetchLutFail \/ FetchLutOk
    \/ BuildPoolFail \/ BuildPool \/ WalletSkip \/ WalletSwap \/ EndChunk
    \/ SubscribeFail \/ TooManyTxns \/ Submit
    \/ SendLanded \/ SendNotLanded \/ Finished

(* a started run keeps going while the RPC node and the relay answer *)
Fairness ==
    /\ WF_vars(PrepFail \/ PrepOk)
    /\ WF_vars(FetchLutOk)
    /\ WF_vars(BuildPoolFail \/ BuildPool \/ WalletSkip \/ WalletSwap \/ EndChunk)
    /\ WF_vars(SubscribeFail \/ TooManyTxns \/ Submit)
    /\ WF_vars(SendLanded \/ SendNotLanded)

Spec == Init /\ [][Next]_vars /\ Fairness

-----------------------------------------------------------------------------
PoolTypeOK ==
    /\ pc \in {"idle", "prep", "fetchLut", "buildPool", "wallet", "endChunk",
               "subscribe", "submit"}
    /\ runs \in 0..MaxRuns /\ nw \in 0..MaxWallets
    /\ ci \in 1..MaxWallets /\ wi \in 1..SwapChunk
    /\ ixs \in Seq([kind : {"swap", "tip"}, w : AllWallets \cup {0}])
    /\ txns \in Seq(Seq([kind : {"pool", "swap", "tip"}, w : AllWallets \cup {0}]))
    /\ skipped \subseteq AllWallets
    /\ wsol \in [AllWallets -> {"none", "funded"}]
    /\ poolCreated \in BOOLEAN /\ swapped \subseteq AllWallets
    /\ lutKey \in {"dead", "live"} /\ lutFailed \in BOOLEAN

(* the step that creates the pool swaps for exactly the wallets of the run *)
(* whose balance could be read: none is left out by the chunking, none is  *)
(* swapped in a later bundle                                                *)
LaunchSnipesReadable ==
    [][~poolCreated /\ poolCreated' => swapped' = (1..nw) \ skipped]_vars

(* once started with LUT-KEY naming a table that exists, pool_main returns *)
(* or the process dies; at a key with no table the poll of bundler.rs:88   *)
(* never ends, which menu_lut shows for the same loop of wsol              *)
Termination == (pc # "idle" /\ lutKey = "live") ~> pc = "idle"

(* every transaction of a bundle pool_main sends fits in a network packet: *)
(* the swap transactions of SwapChunk wallets, the last one with the tip,  *)
(* compiled against a table holding every pool key and every wallet's     *)
(* token accounts (pool_main prints txn_size but never checks it)          *)
TxWithinPacket ==
    pc = "submit" => \A t \in DOMAIN txns : TxBytes(txns[t]) <= Wire!PacketDataSize
====
