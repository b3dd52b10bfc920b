----------------------------- MODULE MCWrapSol -----------------------------
(***************************************************************************)
(* WrapSol instantiated for TLC.  The chunk sizes are scaled down with the  *)
(* relation the code relies on kept: in the code one bundle of 14 wallets   *)
(* in transactions of 3 fills the relay limit of 5 exactly, here one bundle *)
(* of 4 wallets in transactions of 2 fills a limit of 2.  Five wallets give *)
(* two bundles, the second with a single one-wallet transaction.            *)
(***************************************************************************)
EXTENDS WrapSol

MCNumWallets == 5
MCInnerChunk == 2
MCOuterChunk == 4
MCMaxBundleSize == 2
MCMaxRuns == 2

(* LUT-KEY empty (wsol panics at the parse) or naming the table; the      *)
(* table's absence, after a failed CreateLUT run, is the question of       *)
(* MCMenu, which composes the two modes                                   *)
MCLutStates == {"unset", "live"}
MCLiveLut == {"live"}
====
