----------------------------- MODULE MCPoolBundle -----------------------------
(***************************************************************************)
(* PoolBundle for TLC.  In the code, chunks of 7 wallets after the pool    *)
(* transaction fill the limit of 5 at 28 wallets; here chunks of 2 fill a   *)
(* limit of 3 at 4 wallets, and a folder of 5 wallets is one too many.      *)
(* Two runs let the mode be retried after a failed or a landed bundle.     *)
(***************************************************************************)
EXTENDS PoolBundle

MCMaxWallets == 5
MCSwapChunk == 2
MCMaxBundleSize == 3
MCMaxRuns == 2
MCTableWallets == 1..MCMaxWallets

(* LUT-KEY names a table that exists, or one that does not (a failed      *)
(* CreateLUT run leaves such a key)                                        *)
MCLutStates == {"dead", "live"}
MCLiveLut == {"live"}

(* the code's sizes: chunks of 7 wallets, a folder of one full chunk, the *)
(* relay limit of 5 and the table built by lut_main for the same folder    *)
MCPacketWallets == 7
MCPacketChunk == 7
MCPacketBundleSize == 5
MCPacketRuns == 1
MCPacketTable == 1..MCPacketWallets
====
