------------------------- MODULE MCSolDistribution -------------------------
(***************************************************************************)
(* SolDistribution instantiated for TLC.  Chunk sizes are scaled down with  *)
(* the relation of the code kept: a full bundle of OuterChunk wallets needs *)
(* ceil(OuterChunk / InnerChunk) transactions, 5 of 5 in the code (104 and  *)
(* 21) and 2 of 2 here (4 and 2).  Five wallets give a full bundle of two   *)
(* transactions and a second bundle of one wallet.                          *)
(***************************************************************************)
EXTENDS SolDistribution

MCNumWallets == 5
MCInnerChunk == 2
MCOuterChunk == 4
MCMaxBundleSize == 2
MCTotalAmounts == {3, 8}
MCAmounts == {1, 2}

(* the code's sizes: chunks of 21 wallets per transaction and 104 per     *)
(* bundle, and a folder of 21 wallets, one full transaction that also      *)
(* carries the tip.  The shuffle of distribute_randomly is fixed to one    *)
(* order and the amounts to one lamport each: the sizes do not depend on   *)
(* them, and fewer choices keep every trace one the code can take          *)
MCPacketWallets == 21
MCPacketInner == 21
MCPacketOuter == 104
MCPacketBundleSize == 5
MCPacketTotals == {21}
MCPacketAmounts == {1}
MCPermutations(S) == {[i \in S |-> i]}
====
