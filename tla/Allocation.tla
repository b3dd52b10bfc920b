------------------------------ MODULE Allocation ------------------------------
(***************************************************************************)
(* distribute_randomly in src/src/raydium/distribution/rand.rs: split       *)
(* total into n shares, visiting the recipients in a shuffled order.  Each  *)
(* visited recipient but the last gets a uniform draw from [min, max],      *)
(* capped by max_addition = min(remaining, total - (n-1) * (total / n));    *)
(* the last visited one gets whatever remains.  The loop stops as soon as   *)
(* nothing remains.                                                         *)
(*                                                                         *)
(* The shuffle and the draws of thread_rng are nondeterministic choices.    *)
(* The inputs are variables so that a caller (SolDistribution) can start    *)
(* the algorithm with the amounts the user typed.                           *)
(***************************************************************************)
EXTENDS Naturals, Sequences, SequencesExt

CONSTANTS
    Totals,         \* the totals tried (lamports, scaled down)
    MaxRecipients,  \* the largest number of recipients tried
    Bounds          \* the values tried for min_value and max_value

VARIABLES
    aPc,        \* "idle", "loop", "done" (returned) or "panic"
    total,      \* argument total
    n,          \* argument iterations
    minValue,   \* argument min_value
    maxValue,   \* argument max_value
    indices,    \* the shuffled visiting order
    k,          \* position in indices of the recipient being visited
    amounts,    \* the shares so far
    remaining   \* what is left to hand out

allocVars == <<aPc, total, n, minValue, maxValue, indices, k, amounts, remaining>>

(* the cap on one draw; computed afresh on every iteration *)
MaxAddition ==
    LET minPerIteration == total \div n
        maxPerIteration == total - (n - 1) * minPerIteration
    IN  IF remaining < maxPerIteration THEN remaining ELSE maxPerIteration

(* the recipient visited at position k *)
Index == indices[k]

(* amounts[index] += amount; remaining -= amount; break when nothing is   *)
(* left, otherwise go on to the next position                              *)
Give(amount) ==
    /\ amounts' = [amounts EXCEPT ![Index] = @ + amount]
    /\ remaining' = remaining - amount
    /\ IF remaining - amount = 0 \/ k = n
       THEN aPc' = "done" /\ k' = k
       ELSE aPc' = "loop" /\ k' = k + 1

-----------------------------------------------------------------------------
AllocInit ==
    /\ aPc = "idle"
    /\ total = 0 /\ n = 0 /\ minValue = 0 /\ maxValue = 0
    /\ indices = << >> /\ k = 1
    /\ amounts = << >> /\ remaining = 0

(* distribute_randomly is called: the assertion total >= iterations       *)
(* panics, otherwise the indices are shuffled                              *)
Begin(t, iters, lo, hi) ==
    /\ aPc = "idle"
    /\ total' = t /\ n' = iters /\ minValue' = lo /\ maxValue' = hi
    /\ IF t >= iters
       THEN /\ aPc' = "loop"
            /\ indices' \in Permutations(1..iters)
            /\ amounts' = [i \in 1..iters |-> 0]
            /\ remaining' = t
       ELSE /\ aPc' = "panic"
            /\ UNCHANGED <<indices, amounts, remaining>>
    /\ k' = 1

(* a recipient that is not the last in the order gets a capped draw *)
Draw ==
    /\ aPc = "loop"
    /\ Index # indices[n]
    /\ minValue <= maxValue
    /\ \E drawn \in minValue..maxValue :
          Give(IF drawn < MaxAddition THEN drawn ELSE MaxAddition)
    /\ UNCHANGED <<total, n, minValue, maxValue, indices>>

(* gen_range(min_value..=max_value) on an empty range panics *)
DrawPanic ==
    /\ aPc = "loop"
    /\ Index # indices[n]
    /\ minValue > maxValue
    /\ aPc' = "panic"
    /\ UNCHANGED <<total, n, minValue, maxValue, indices, k, amounts, remaining>>

(* variant: the last recipient gets a capped share like the others *)
AbsorbCapped ==
    /\ aPc = "loop"
    /\ Index = indices[n]
    /\ Give(MaxAddition)
    /\ UNCHANGED <<total, n, minValue, maxValue, indices>>

(* the last recipient in the order absorbs the remainder *)
Absorb ==
    /\ aPc = "loop"
    /\ Index = indices[n]
    /\ Give(remaining)
    /\ UNCHANGED <<total, n, minValue, maxValue, indices>>

AllocStep == Draw \/ DrawPanic \/ Absorb

-----------------------------------------------------------------------------
(* The algorithm on its own, for every input in the bounds *)
Init == AllocInit

Next ==
    \/ \E t \in Totals, iters \in 1..MaxRecipients, lo, hi \in Bounds :
          Begin(t, iters, lo, hi)
    \/ AllocStep
    \/ aPc \in {"done", "panic"} /\ UNCHANGED allocVars

Spec == Init /\ [][Next]_allocVars /\ WF_allocVars(AllocStep)

-----------------------------------------------------------------------------
AllocTypeOK ==
    /\ aPc \in {"idle", "loop", "done", "panic"}
    /\ total \in Nat /\ n \in Nat /\ minValue \in Nat /\ maxValue \in Nat
    /\ indices \in Seq(1..n) /\ k \in 1..(n + 1)
    /\ amounts \in Seq(Nat) /\ remaining \in 0..total

(* a returned plan hands out exactly the total *)
SumIsTotal == aPc = "done" => SumFunction(amounts) = total

(* every recipient of a returned plan gets at least one lamport, which is *)
(* what the assertion total >= iterations is there to make possible       *)
EveryRecipientFunded == aPc = "done" => \A i \in 1..n : amounts[i] >= 1
====
