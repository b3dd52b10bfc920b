------------------------------- MODULE WrapSol -------------------------------
(***************************************************************************)
(* The "Wrap SOL & ATAs" mode: sol_wrap and wsol in                         *)
(* src/src/raydium/atas/wrap_sol.rs.                                        *)
(*                                                                         *)
(* sol_wrap splits the wallet list into bundles of OuterChunk wallets       *)
(* (chunks(14)); for each it calls wsol, which re-reads the lookup table    *)
(* (retrying forever), fetches the buyer balance and a blockhash, and then  *)
(* walks the bundle's wallets in transactions of InnerChunk wallets         *)
(* (chunks(3)).  A wallet whose balance is under the 0.02 SOL threshold is  *)
(* skipped; any other gets two idempotent ATA creations, a transfer of its  *)
(* balance into its wSOL account and a sync_native.  The tip is added for   *)
(* the last wallet of the last chunk.  sol_wrap then sends the bundle and   *)
(* panics on any error.                                                     *)
(*                                                                         *)
(* Lamports are abstracted to the side of the threshold a balance is on.    *)
(* The chain is the part of the state the bundles change: balances and the  *)
(* number of times each wallet's wrap transfer has landed.  The user may    *)
(* run the mode again after it ends or the process dies, MaxRuns times.     *)
(***************************************************************************)
EXTENDS Naturals, Sequences, SequencesExt

CONSTANTS
    NumWallets,     \* wallets read from the selected folder, in list order
    InnerChunk,     \* wallets per transaction: wallets.chunks(3) in wsol
    OuterChunk,     \* wallets per bundle: wallets.chunks(14) in sol_wrap
    MaxBundleSize,  \* the relay's limit on transactions in one bundle (5)
    MaxRuns,        \* how many times the user starts the mode
    LutStates,      \* what LUT-KEY of settings.json may name: "unset", "dead", "live"
    Buyer           \* model value: the buyer keypair, fee payer and tipper

ASSUME NumWallets \in Nat \ {0}
ASSUME InnerChunk \in Nat \ {0} /\ OuterChunk \in Nat \ {0}
ASSUME MaxBundleSize \in Nat \ {0} /\ MaxRuns \in Nat
ASSUME LutStates \subseteq {"unset", "dead", "live"}

VARIABLES
    pc,         \* where the mode is: "idle" (menu), or a step of sol_wrap/wsol
    runs,       \* invocations of sol_wrap so far
    oc,         \* index of the outer chunk (bundle) being built
    ci,         \* chunk_index of wsol: the transaction being built
    wi,         \* position of the current wallet in its chunk
    lutFailed,  \* the last get_account of the LUT failed and is being retried
    ixs,        \* current_instructions of the chunk
    signers,    \* current_wallets of the chunk
    txns,       \* txns_chunk: the transactions of the bundle being built
    balance,    \* chain: each wallet's SOL balance, "low" or "high"
    wrapCount,  \* chain: how often each wallet's wrap transfer has landed
    lutKey      \* the table LUT-KEY names: "unset" (no key), "dead" (no
                \* account at the key) or "live"

vars == <<pc, runs, oc, ci, wi, lutFailed, ixs, signers, txns, balance, wrapCount, lutKey>>

Wallets == 1..NumWallets

(* variant: chunks that drop a short last piece (Len(s) \div k pieces) *)
ChunksFloor(s, k) ==
    [i \in 1..(Len(s) \div k) |-> SubSeq(s, (i - 1) * k + 1, i * k)]

(* slice.chunks(k) on a sequence: consecutive pieces of k, the last shorter *)
Chunks(s, k) ==
    [i \in 1..((Len(s) + k - 1) \div k) |->
        SubSeq(s, (i - 1) * k + 1, Min({i * k, Len(s)}))]

OuterChunks == Chunks([i \in Wallets |-> i], OuterChunk)

(* variant: transactions one wallet smaller than InnerChunk *)
WalletChunksSmall == Chunks(OuterChunks[oc], InnerChunk - 1)

(* wallet_chunks of wsol for the bundle being built *)
WalletChunks == Chunks(OuterChunks[oc], InnerChunk)

Wallet == WalletChunks[ci][wi]

Ix(k, w) == [kind |-> k, w |-> w]

IxKinds == {"ataWsol", "ataMint", "wrap", "tip", "sync"}

(* the instructions wsol pushes for one funded wallet, tip included when   *)
(* it is the last wallet of the last chunk                                 *)
WalletIxs(w, isLast) ==
    << Ix("ataWsol", w), Ix("ataMint", w), Ix("wrap", w) >>
    \o (IF isLast THEN << Ix("tip", Buyer) >> ELSE << >>)
    \o << Ix("sync", w) >>

IsLastWallet == ci = Len(WalletChunks) /\ wi = Len(WalletChunks[ci])

(* variant: the loop runs one position past the end of the chunk *)
NextWalletOffByOne ==
    IF wi <= Len(WalletChunks[ci])
    THEN wi' = wi + 1 /\ pc' = "wallet"
    ELSE wi' = wi /\ pc' = "endChunk"

(* move to the next wallet of the chunk, or to the end of the chunk *)
NextWallet ==
    IF wi < Len(WalletChunks[ci])
    THEN wi' = wi + 1 /\ pc' = "wallet"
    ELSE wi' = wi /\ pc' = "endChunk"

(* all instructions of a bundle, in order *)
BundleIxs(b) == FlattenSeq([t \in DOMAIN b |-> b[t].ixs])

(* the wallets whose wrap transfer a bundle carries *)
WrappedBy(b) == {ix.w : ix \in {x \in Range(BundleIxs(b)) : x.kind = "wrap"}}

TipCount(b) == Len(SelectSeq(BundleIxs(b), LAMBDA ix : ix.kind = "tip"))

(* the relay only lands a non-empty bundle within its size limit that pays *)
(* a tip; it then executes all of its transactions or none                 *)
RelayLands(b) == b # << >> /\ Len(b) <= MaxBundleSize /\ TipCount(b) >= 1

(* the chain effect of a landed bundle *)
Land(b) ==
    /\ balance' = [w \in Wallets |-> IF w \in WrappedBy(b) THEN "low" ELSE balance[w]]
    /\ wrapCount' = [w \in Wallets |-> wrapCount[w] + (IF w \in WrappedBy(b) THEN 1 ELSE 0)]

-----------------------------------------------------------------------------
Init ==
    /\ pc = "idle"
    /\ runs = 0
    /\ oc = 1 /\ ci = 1 /\ wi = 1
    /\ lutFailed = FALSE
    /\ ixs = << >> /\ signers = {} /\ txns = << >>
    /\ balance \in [Wallets -> {"low", "high"}]
    /\ wrapCount = [w \in Wallets |-> 0]
    /\ lutKey \in LutStates

(* sol_wrap is chosen from the menu: it loads settings and wallets and    *)
(* calls wsol for the first bundle                                         *)
Start ==
    /\ pc = "idle"
    /\ runs < MaxRuns
    /\ pc' = "fetchLut"
    /\ runs' = runs + 1
    /\ oc' = 1
    /\ UNCHANGED <<ci, wi, lutFailed, ixs, signers, txns, balance, wrapCount, lutKey>>

(* wsol: Pubkey::from_str of an empty LUT-KEY fails and wsol panics      *)
LutKeyPanic ==
    /\ pc = "fetchLut"
    /\ lutKey = "unset"
    /\ pc' = "idle"
    /\ UNCHANGED <<runs, oc, ci, wi, lutFailed, ixs, signers, txns, balance, wrapCount, lutKey>>

(* while raw_account.is_none(): get_account of the LUT fails, is logged    *)
(* and retried at once, with no bound and no delay; with no account at    *)
(* the key it fails every time                                             *)
FetchLutFail ==
    /\ pc = "fetchLut"
    /\ lutKey # "unset"
    /\ lutFailed' = TRUE
    /\ UNCHANGED <<pc, runs, oc, ci, wi, ixs, signers, txns, balance, wrapCount, lutKey>>

(* variant: the fetched account is never stored, so the loop goes on *)
FetchLutOkNoStore ==
    /\ pc = "fetchLut"
    /\ lutKey = "live"
    /\ lutFailed' = FALSE
    /\ UNCHANGED <<pc, runs, oc, ci, wi, ixs, signers, txns, balance, wrapCount, lutKey>>

FetchLutOk ==
    /\ pc = "fetchLut"
    /\ lutKey = "live"
    /\ pc' = "prepare"
    /\ lutFailed' = FALSE
    /\ UNCHANGED <<runs, oc, ci, wi, ixs, signers, txns, balance, wrapCount, lutKey>>

(* the table is deserialized, the buyer balance and a blockhash fetched;   *)
(* wallet_chunks and txns_chunk start afresh                               *)
Prepare ==
    /\ pc = "prepare"
    /\ pc' = "wallet"
    /\ ci' = 1 /\ wi' = 1
    /\ ixs' = << >> /\ signers' = {} /\ txns' = << >>
    /\ UNCHANGED <<runs, oc, lutFailed, balance, wrapCount, lutKey>>

(* get_balance(...).unwrap() of the buyer or of a wallet, or               *)
(* get_latest_blockhash, returns an error: the process panics              *)
RpcPanic ==
    /\ pc \in {"prepare", "wallet"}
    /\ pc' = "idle"
    /\ UNCHANGED <<runs, oc, ci, wi, lutFailed, ixs, signers, txns, balance, wrapCount, lutKey>>

(* variant: the wallet is pushed to current_wallets before the check *)
WalletSkipSigns ==
    /\ pc = "wallet"
    /\ balance[Wallet] = "low"
    /\ signers' = signers \cup {Wallet}
    /\ NextWallet
    /\ UNCHANGED <<runs, oc, ci, lutFailed, ixs, txns, balance, wrapCount, lutKey>>

(* a wallet under the 0.02 SOL threshold is skipped (continue) *)
WalletSkip ==
    /\ pc = "wallet"
    /\ balance[Wallet] = "low"
    /\ NextWallet
    /\ UNCHANGED <<runs, oc, ci, lutFailed, ixs, signers, txns, balance, wrapCount, lutKey>>

(* variant: the balance threshold is not checked *)
WalletWrapUnguarded ==
    /\ pc = "wallet"
    /\ ixs' = ixs \o WalletIxs(Wallet, IsLastWallet)
    /\ signers' = signers \cup {Wallet}
    /\ NextWallet
    /\ UNCHANGED <<runs, oc, ci, lutFailed, txns, balance, wrapCount, lutKey>>

(* a funded wallet gets its instructions and signs the transaction *)
WalletWrap ==
    /\ pc = "wallet"
    /\ balance[Wallet] = "high"
    /\ ixs' = ixs \o WalletIxs(Wallet, IsLastWallet)
    /\ signers' = signers \cup {Wallet}
    /\ NextWallet
    /\ UNCHANGED <<runs, oc, ci, lutFailed, txns, balance, wrapCount, lutKey>>

(* the chunk is compiled into one transaction signed by its wallets and    *)
(* the buyer, unless it has no instructions (continue)                     *)
EndChunk ==
    /\ pc = "endChunk"
    /\ txns' = IF ixs = << >> THEN txns
               ELSE Append(txns, [ixs |-> ixs, signers |-> signers \cup {Buyer}])
    /\ IF ci < Len(WalletChunks)
       THEN ci' = ci + 1 /\ wi' = 1 /\ pc' = "wallet"
       ELSE ci' = ci /\ wi' = wi /\ pc' = "submit"
    /\ ixs' = << >> /\ signers' = {}
    /\ UNCHANGED <<runs, oc, lutFailed, balance, wrapCount, lutKey>>

(* the bundle lands and send_bundle_with_confirmation returns Ok: the next *)
(* bundle is built, or sol_wrap returns                                    *)
SendLanded ==
    /\ pc = "submit"
    /\ RelayLands(txns)
    /\ Land(txns)
    /\ IF oc < Len(OuterChunks)
       THEN oc' = oc + 1 /\ pc' = "fetchLut"
       ELSE oc' = oc /\ pc' = "idle"
    /\ UNCHANGED <<runs, ci, wi, lutFailed, ixs, signers, txns, lutKey>>

(* the bundle lands but the confirmation wait reports an error: panic *)
SendLandedErr ==
    /\ pc = "submit"
    /\ RelayLands(txns)
    /\ Land(txns)
    /\ pc' = "idle"
    /\ UNCHANGED <<runs, oc, ci, wi, lutFailed, ixs, signers, txns, lutKey>>

(* get_searcher_client fails (Err returned), subscribing fails (expect) or *)
(* the relay does not land the bundle (panic): nothing reaches the chain   *)
SendFailed ==
    /\ pc = "submit"
    /\ pc' = "idle"
    /\ UNCHANGED <<runs, oc, ci, wi, lutFailed, ixs, signers, txns, balance, wrapCount, lutKey>>

(* the user stops using the mode *)
Finished ==
    /\ pc = "idle"
    /\ runs = MaxRuns
    /\ UNCHANGED vars

Next ==
    \/ Start \/ LutKeyPanic \/ FetchLutFail \/ FetchLutOk \/ Prepare \/ RpcPanic
    \/ WalletSkip \/ WalletWrap \/ EndChunk
    \/ SendLanded \/ SendLandedErr \/ SendFailed \/ Finished

(* the task is never blocked but on the network: every step of a started  *)
(* run is taken eventually, and an RPC that keeps being retried answers    *)
Fairness ==
    /\ WF_vars(LutKeyPanic \/ FetchLutOk)
    /\ WF_vars(Prepare \/ RpcPanic \/ WalletSkip \/ WalletWrap \/ EndChunk)
    /\ WF_vars(SendLanded \/ SendLandedErr \/ SendFailed)

Spec == Init /\ [][Next]_vars /\ Fairness

-----------------------------------------------------------------------------
Tx == [ixs : Seq([kind : IxKinds, w : Wallets \cup {Buyer}]), signers : SUBSET (Wallets \cup {Buyer})]

TypeOK ==
    /\ pc \in {"idle", "fetchLut", "prepare", "wallet", "endChunk", "submit"}
    /\ runs \in 0..MaxRuns
    /\ oc \in DOMAIN OuterChunks
    /\ ci \in 1..OuterChunk /\ wi \in 1..InnerChunk
    /\ lutFailed \in BOOLEAN
    /\ ixs \in Seq([kind : IxKinds, w : Wallets \cup {Buyer}])
    /\ signers \subseteq Wallets
    /\ txns \in Seq(Tx)
    /\ balance \in [Wallets -> {"low", "high"}]
    /\ wrapCount \in [Wallets -> Nat]
    /\ lutKey \in {"unset", "dead", "live"}

(* the keys a compiled message needs signatures from: the fee payer and   *)
(* every account an instruction marks as signer (sync_native has none)    *)
RequiredSigners(s) == {Buyer} \cup {s[i].w : i \in {j \in DOMAIN s : s[j].kind # "sync"}}

(* VersionedTransaction::try_new gets exactly the keypairs the message    *)
(* needs, so signing a chunk never panics: a skipped wallet is not passed  *)
(* as a signer and a wrapped one always is                                 *)
SignersMatch == \A t \in DOMAIN txns : txns[t].signers = RequiredSigners(txns[t].ixs)

(* a bundle handed to the relay never has more transactions than it       *)
(* accepts: the chunk sizes of sol_wrap and wsol keep wsol's output within *)
(* the limit although wsol never checks it                                  *)
BundleWithinLimit == pc = "submit" => Len(txns) <= MaxBundleSize

(* every non-empty bundle sent pays the relay tip exactly once *)
TipOncePerBundle == (pc = "submit" /\ txns # << >>) => TipCount(txns) = 1

(* running the mode again after a panic or an error that came after a     *)
(* bundle landed never wraps a wallet's SOL a second time: the balance     *)
(* threshold is what makes the rerun safe                                  *)
WrapAtMostOnce == \A w \in Wallets : wrapCount[w] <= 1

(* when the last bundle of a run lands, no wallet is left with a balance  *)
(* above the threshold: the two levels of chunking visit every wallet      *)
CompletedRunWrapsAll ==
    [][(SendLanded /\ pc' = "idle") => \A w \in Wallets : balance'[w] = "low"]_vars

(* every run that starts ends: sol_wrap returns, or the process dies *)
Termination == pc # "idle" ~> pc = "idle"
====
