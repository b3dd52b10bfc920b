-------------------------------- MODULE Menu --------------------------------
(***************************************************************************)
(* The menu loop, app() in src/src/menu/selector.rs, composing the two     *)
(* modes that meet in settings.json and on the chain: "CreateLUT"           *)
(* (lut_main, module LutExtend) writes LUT-KEY and creates the table, and   *)
(* "Wrap SOL & ATAs" (sol_wrap, module WrapSol) loads the settings and      *)
(* polls the table LUT-KEY names.                                           *)
(*                                                                         *)
(* app() awaits the mode it dispatches to, ignores its result and recurses: *)
(* one mode runs at a time, and a mode that returns, whether Ok or Err,     *)
(* brings the menu back.  A panic ends the process; the user starts it     *)
(* again, which the modes' own reruns stand for.  What wrap sees of the     *)
(* table is a function of settings.json and of the chain, the variables     *)
(* LutExtend owns; wrap's own rewrite of settings.json keeps LUT-KEY and    *)
(* is left out.                                                            *)
(***************************************************************************)
EXTENDS Naturals

CONSTANTS
    MaxWallets, FolderSizes, PoolKeys, BatchSize, MaxBundleSize, LutRuns, Absent,
    NumWallets, InnerChunk, OuterChunk, WrapRuns, Buyer

VARIABLES
    lPc, lRuns, nw, key, lTxns, sPc, file, helper, created, contents,
    wPc, wRuns, oc, ci, wi, lutFailed, ixs, signers, wTxns, balance, wrapCount,
    lutKey  \* the table LUT-KEY names, as wrap would find it

lVars == <<lPc, lRuns, nw, key, lTxns, sPc, file, helper, created, contents>>
wVars == <<wPc, wRuns, oc, ci, wi, lutFailed, ixs, signers, wTxns, balance, wrapCount>>
vars == <<lVars, wVars, lutKey>>

L == INSTANCE LutExtend WITH pc <- lPc, runs <- lRuns, txns <- lTxns, MaxRuns <- LutRuns

S == INSTANCE Settings WITH LutKeys <- 1..LutRuns

(* wsol: the table LUT-KEY names, as the settings load of sol_wrap reads  *)
(* it: no key when the file has none or does not parse (the defaults are  *)
(* used), a dead one when no table exists at the key                       *)
LutNamed(f, tables) ==
    LET lut == S!Parsed(f).lut
    IN  IF lut = 0 THEN "unset" ELSE IF lut \in tables THEN "live" ELSE "dead"

W == INSTANCE WrapSol
    WITH pc <- wPc, runs <- wRuns, txns <- wTxns, MaxRuns <- WrapRuns,
         LutStates <- {"unset", "dead", "live"}

Init == L!Init /\ lutKey = LutNamed(file, created) /\ W!Init

(* app(): "CreateLUT" is selected, or lut_main takes a step; the wrap mode *)
(* is not running                                                          *)
LutStep ==
    /\ wPc = "idle"
    /\ L!Next
    /\ lutKey' = LutNamed(file', created')
    /\ UNCHANGED wVars

(* app(): "Wrap SOL & ATAs" is selected, or sol_wrap takes a step *)
WrapStep ==
    /\ lPc = "idle"
    /\ W!Next
    /\ UNCHANGED lVars

Next == LutStep \/ WrapStep

Spec == Init /\ [][Next]_vars /\ L!Fairness /\ W!Fairness

-----------------------------------------------------------------------------
(* a run of the wrap mode ends, whatever the lookup-table mode did before *)
(* it: sol_wrap returns, or the process dies                               *)
WrapTerminates == W!Termination
====
