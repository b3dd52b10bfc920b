---------------------------- MODULE MCAllocation ----------------------------
(***************************************************************************)
(* Allocation for TLC: totals up to 6 lamports over up to 3 recipients with *)
(* bounds from 1 to 3, enough for draws that are capped, draws that exhaust *)
(* the total early, min above max, and totals below the recipient count.    *)
(***************************************************************************)
EXTENDS Allocation

MCTotals == 1..6
MCMaxRecipients == 3
MCBounds == 1..3
====
