--------------------------- MODULE SolDistribution ---------------------------
(***************************************************************************)
(* The "Distribute SOL" mode: distributor and sol_distribution in           *)
(* src/src/raydium/distribution/sol_distribution.rs, composed with          *)
(* distribute_randomly (module Allocation, instantiated with the same       *)
(* variables so that its steps are steps of this specification).            *)
(*                                                                         *)
(* distributor reads the total, max and min amounts once and splits the     *)
(* wallets into bundles of OuterChunk wallets (chunks(104)).  For each it   *)
(* calls sol_distribution, which draws a plan for the bundle's wallets with *)
(* the SAME total, builds one transaction per InnerChunk wallets            *)
(* (chunks(21)) of transfers from the buyer, the relay tip after the last   *)
(* wallet of the last chunk, and hands the bundle back to distributor to    *)
(* send.  A send error ends the mode (return Ok(())).                       *)
(*                                                                         *)
(* The chain state is what the transfers change: the lamports each wallet   *)
(* received and how many transfers to it landed.                           *)
(***************************************************************************)
EXTENDS Naturals, Sequences, SequencesExt

CONSTANTS
    NumWallets,     \* wallets read from the selected folder, in list order
    InnerChunk,     \* wallets per transaction: wallets.chunks(21)
    OuterChunk,     \* wallets per bundle: wallets.chunks(104)
    MaxBundleSize,  \* the relay's limit on transactions in one bundle (5)
    TotalAmounts,   \* the values the user may type as Total Amount
    Amounts         \* the values the user may type as Min and Max amounts

ASSUME NumWallets \in Nat \ {0}
ASSUME InnerChunk \in Nat \ {0} /\ OuterChunk \in Nat \ {0}
ASSUME MaxBundleSize \in Nat \ {0}
ASSUME TotalAmounts \subseteq Nat /\ Amounts \subseteq Nat

VARIABLES
    aPc, total, n, minValue, maxValue, indices, k, amounts, remaining,
    dPc,        \* step of distributor
    uTotal,     \* total_amount typed by the user
    uMin,       \* min_amount
    uMax,       \* max_amount
    oc,         \* index of the wallet chunk (bundle) being distributed
    txns,       \* bundle_txns returned by sol_distribution
    received,   \* chain: lamports each wallet received
    transfers   \* chain: how many transfers to each wallet landed

allocVars == <<aPc, total, n, minValue, maxValue, indices, k, amounts, remaining>>
distVars == <<dPc, uTotal, uMin, uMax, oc, txns, received, transfers>>
vars == <<allocVars, distVars>>

Alloc == INSTANCE Allocation
    WITH Totals <- TotalAmounts, MaxRecipients <- OuterChunk, Bounds <- Amounts

Wallets == 1..NumWallets

(* slice.chunks(size) on a sequence: consecutive pieces of size, the last shorter *)
Chunks(s, size) ==
    [i \in 1..((Len(s) + size - 1) \div size) |->
        SubSeq(s, (i - 1) * size + 1, Min({i * size, Len(s)}))]

OuterChunks == Chunks([i \in Wallets |-> i], OuterChunk)

Transfer(w, amt) == [kind |-> "transfer", to |-> w, amt |-> amt]

(* jito_tip_inx: a transfer to one of the relay's tip accounts (0) *)
Tip == [kind |-> "tip", to |-> 0, amt |-> 0]

(* the transactions of sol_distribution: transfer instruction i of chunk   *)
(* index pays rand_amount[index], and the tip follows the last transfer of *)
(* the last chunk                                                          *)
BuildTxns(plan) ==
    LET cs == Chunks(OuterChunks[oc], InnerChunk)
    IN  [j \in DOMAIN cs |->
            [i \in DOMAIN cs[j] |-> Transfer(cs[j][i], plan[j])]
            \o (IF j = Len(cs) THEN << Tip >> ELSE << >>)]

BundleIxs(b) == FlattenSeq(b)

Wire == INSTANCE TxWire

(* system_instruction::transfer(from, to, lamports): the system program,  *)
(* the payer as a writable signer, the recipient writable, and a 4-byte    *)
(* instruction tag with the 8-byte amount; jito_tip_inx is the same        *)
(* transfer, from the buyer to a tip account                               *)
WireOf(ix) ==
    Wire!WireIx(<<"system", 0>>,
        << Wire!Meta(<<"buyer", 0>>, TRUE, TRUE),
           Wire!Meta(IF ix.kind = "tip" THEN <<"tipAccount", 0>> ELSE <<"wallet", ix.to>>,
                     FALSE, TRUE) >>,
        4 + 8)

(* Message::try_compile(buyer, current_instructions, &[], blockhash), then *)
(* the transaction signed by the buyer, serialized: no lookup table        *)
TxBytes(tx) == Wire!V0Bytes(<<"buyer", 0>>, [i \in DOMAIN tx |-> WireOf(tx[i])], {})

TipCount(b) == Len(SelectSeq(BundleIxs(b), LAMBDA ix : ix.kind = "tip"))

(* the relay lands a bundle within its size limit that pays a tip and    *)
(* whose transactions each fit a packet, all of its transactions or none  *)
RelayLands(b) ==
    /\ Len(b) <= MaxBundleSize
    /\ TipCount(b) >= 1
    /\ \A t \in DOMAIN b : TxBytes(b[t]) <= Wire!PacketDataSize

(* the chain effect of a landed bundle *)
Land(b) ==
    LET ts == SelectSeq(BundleIxs(b), LAMBDA ix : ix.kind = "transfer")
        paid(w) == SelectSeq(ts, LAMBDA ix : ix.to = w)
    IN  /\ received' = [w \in Wallets |->
                           received[w] + FoldSeq(LAMBDA ix, acc : acc + ix.amt, 0, paid(w))]
        /\ transfers' = [w \in Wallets |-> transfers[w] + Len(paid(w))]

(* variant: the loop bound is inclusive *)
NextOuterPastEnd ==
    IF oc <= Len(OuterChunks)
    THEN dPc' = "call" /\ oc' = oc + 1
    ELSE dPc' = "done" /\ oc' = oc

(* the for loop over wallet_chunks goes on with the next bundle, or ends *)
NextOuter ==
    IF oc < Len(OuterChunks)
    THEN dPc' = "call" /\ oc' = oc + 1
    ELSE dPc' = "done" /\ oc' = oc

-----------------------------------------------------------------------------
Init ==
    /\ Alloc!AllocInit
    /\ dPc = "idle"
    /\ uTotal = 0 /\ uMin = 0 /\ uMax = 0
    /\ oc = 1
    /\ txns = << >>
    /\ received = [w \in Wallets |-> 0]
    /\ transfers = [w \in Wallets |-> 0]

(* settings are loaded, the searcher client connected and subscribed, the  *)
(* wallets loaded and the amounts and tip typed in                         *)
Start(t, lo, hi) ==
    /\ dPc = "idle"
    /\ dPc' = "call"
    /\ uTotal' = t /\ uMin' = lo /\ uMax' = hi
    /\ UNCHANGED <<allocVars, oc, txns, received, transfers>>

(* get_searcher_client fails: distributor returns the error to the menu *)
ClientFail ==
    /\ dPc = "idle"
    /\ dPc' = "stopped"
    /\ UNCHANGED <<allocVars, uTotal, uMin, uMax, oc, txns, received, transfers>>

(* sol_distribution is called for the bundle: distribute_randomly starts   *)
(* with the user's total for this bundle's wallets                          *)
Call ==
    /\ dPc = "call"
    /\ Alloc!Begin(uTotal, Len(OuterChunks[oc]), uMin, uMax)
    /\ dPc' = "plan"
    /\ UNCHANGED <<uTotal, uMin, uMax, oc, txns, received, transfers>>

(* a step of distribute_randomly *)
Plan ==
    /\ dPc = "plan"
    /\ Alloc!AllocStep
    /\ UNCHANGED distVars

(* the assertion or gen_range of distribute_randomly panicked *)
PlanPanic ==
    /\ dPc = "plan"
    /\ aPc = "panic"
    /\ dPc' = "panic"
    /\ UNCHANGED <<allocVars, uTotal, uMin, uMax, oc, txns, received, transfers>>

(* the plan is returned, a blockhash fetched and the transactions built *)
Build ==
    /\ dPc = "plan"
    /\ aPc = "done"
    /\ txns' = BuildTxns(amounts)
    /\ dPc' = "submit"
    /\ UNCHANGED <<allocVars, uTotal, uMin, uMax, oc, received, transfers>>

(* get_latest_blockhash fails: sol_distribution returns Err and           *)
(* distributor panics                                                      *)
BlockhashFail ==
    /\ dPc = "plan"
    /\ aPc = "done"
    /\ dPc' = "panic"
    /\ UNCHANGED <<allocVars, uTotal, uMin, uMax, oc, txns, received, transfers>>

(* the bundle lands and is confirmed *)
SendLanded ==
    /\ dPc = "submit"
    /\ RelayLands(txns)
    /\ Land(txns)
    /\ NextOuter
    /\ aPc' = "idle"
    /\ UNCHANGED <<total, n, minValue, maxValue, indices, k, amounts, remaining,
                   uTotal, uMin, uMax, txns>>

(* variant: a send error skips the bundle and goes on with the next one *)
SendFailedContinue ==
    /\ dPc = "submit"
    /\ NextOuter
    /\ aPc' = "idle"
    /\ UNCHANGED <<total, n, minValue, maxValue, indices, k, amounts, remaining,
                   uTotal, uMin, uMax, txns, received, transfers>>

(* send_bundle_with_confirmation returns an error, the bundle having       *)
(* landed or not: "Distribution Error" is printed and distributor returns   *)
(* Ok(()), leaving the remaining bundles unsent                            *)
SendFailed ==
    /\ dPc = "submit"
    /\ \/ RelayLands(txns) /\ Land(txns)
       \/ UNCHANGED <<received, transfers>>
    /\ dPc' = "stopped"
    /\ UNCHANGED <<allocVars, uTotal, uMin, uMax, oc, txns>>

(* distributor has returned or the process died *)
Ended ==
    /\ dPc \in {"done", "stopped", "panic"}
    /\ UNCHANGED vars

Next ==
    \/ \E t \in TotalAmounts, lo, hi \in Amounts : Start(t, lo, hi)
    \/ ClientFail \/ Call \/ Plan \/ PlanPanic \/ Build \/ BlockhashFail
    \/ SendLanded \/ SendFailed \/ Ended

(* the mode runs as one task that only waits on the network, and the relay *)
(* eventually answers every bundle                                          *)
Fairness ==
    /\ WF_vars(Call) /\ WF_vars(Plan) /\ WF_vars(PlanPanic)
    /\ WF_vars(Build \/ BlockhashFail)
    /\ WF_vars(SendLanded \/ SendFailed)

Spec == Init /\ [][Next]_vars /\ Fairness

-----------------------------------------------------------------------------
Ix == [kind : {"transfer", "tip"}, to : Wallets \cup {0}, amt : Nat]

DistTypeOK ==
    /\ Alloc!AllocTypeOK
    /\ dPc \in {"idle", "call", "plan", "submit", "done", "stopped", "panic"}
    /\ uTotal \in TotalAmounts \cup {0} /\ uMin \in Amounts \cup {0} /\ uMax \in Amounts \cup {0}
    /\ oc \in DOMAIN OuterChunks
    /\ txns \in Seq(Seq(Ix))
    /\ received \in [Wallets -> Nat]
    /\ transfers \in [Wallets -> Nat]

(* every plan distribute_randomly returns to sol_distribution hands out    *)
(* exactly the total it was given: the last visited wallet absorbs what    *)
(* the capped draws left                                                   *)
PlanSumsToTotal == Alloc!SumIsTotal

(* the wallets funded so far are exactly those of the first bundles, each  *)
(* funded once: a bundle lands whole or not at all, and a send error ends  *)
(* the mode instead of skipping to the next bundle                         *)
LandedWallets == {w \in Wallets : transfers[w] > 0}

FundedIsPrefix ==
    /\ \A w \in Wallets : transfers[w] <= 1
    /\ \E m \in 0..Len(OuterChunks) :
          LandedWallets = UNION {Range(OuterChunks[j]) : j \in 1..m}

(* every transaction of a bundle distributor sends fits the packet limit: *)
(* sol_distribution compiles it with no lookup table and never checks the *)
(* serialized size it prints                                               *)
TxWithinPacket ==
    dPc = "submit" => \A t \in DOMAIN txns : TxBytes(txns[t]) <= Wire!PacketDataSize

(* when every bundle has landed, the wallets have received the total the   *)
(* user typed, each its share of the plan                                  *)
DistributesTotal == dPc = "done" => SumFunction(received) = uTotal
====
