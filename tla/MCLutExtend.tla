----------------------------- MODULE MCLutExtend -----------------------------
(***************************************************************************)
(* LutExtend for TLC, with the code's batch of 30 addresses and limit of 5 *)
(* transactions.  poolkeys_lut pushes 21 keys, 18 distinct: the market and *)
(* the two mints come both from the AMM keys and from the market keys.     *)
(* The folders: empty; 9 wallets (29 addresses, one partial batch); 10     *)
(* (32: a full batch and a partial one); 29 (89: the most that fits in 5   *)
(* transactions); 30 (92: 6 transactions, refused).                        *)
(***************************************************************************)
EXTENDS LutExtend

(* the 21 pushes of poolkeys_lut: AMM pool, coin mint, pc mint, lp mint,   *)
(* authority, open orders, target, coin vault, pc vault, market program,   *)
(* market; then market, request queue, event queue, bids, asks, coin      *)
(* vault, pc vault, vault signer, coin mint, pc mint of the market         *)
MCPushed == <<1, 2, 3, 4, 5, 6, 7, 8, 9, 10, 11, 11, 12, 13, 14, 15, 16, 17, 18, 2, 3>>
MCPoolKeys == [i \in DOMAIN MCPushed |-> <<"pool", MCPushed[i]>>]
MCMaxWallets == 30
MCFolderSizes == {0, 9, 10, 29, 30}
MCBatchSize == 30
MCMaxBundleSize == 5
MCMaxRuns == 2
====
