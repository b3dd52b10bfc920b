------------------------------- MODULE MCMenu -------------------------------
(***************************************************************************)
(* Menu for TLC: runs of lut_main and sol_wrap in any order the menu       *)
(* allows, one of each.  lut_main gets the code's 21 pool keys and limit   *)
(* of 5 transactions, with address batches of 10 instead of 30 so that a   *)
(* folder of 10 wallets (32 addresses, 4 batches, 6 transactions) is       *)
(* refused by the more-than-5 check as one of 30 is in the code; an empty  *)
(* folder gets as far as sending.  sol_wrap runs over one wallet.          *)
(***************************************************************************)
EXTENDS Menu, Sequences

MCPushed == <<1, 2, 3, 4, 5, 6, 7, 8, 9, 10, 11, 11, 12, 13, 14, 15, 16, 17, 18, 2, 3>>
MCPoolKeys == [i \in DOMAIN MCPushed |-> <<"pool", MCPushed[i]>>]
MCFolderSizes == {0, 10}
====
