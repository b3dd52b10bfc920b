------------------------------- MODULE LutTables -------------------------------
(***************************************************************************)
(* What the "CreateLUT" mode promises of the chain, independent of how it   *)
(* batches and sends its instructions: a lookup table appears in a single   *)
(* step already holding one of the address sets the later modes need, and   *)
(* its contents never change afterwards.  A table that is not created is    *)
(* Absent.                                                                  *)
(***************************************************************************)
CONSTANTS
    Keys,       \* addresses a new table may get (one per slot)
    Contents,   \* the address sets a table may be published with
    Absent      \* model value: no table at this address

VARIABLE tables \* the contents of each table, or Absent

Init == tables = [k \in Keys |-> Absent]

(* table k is created and filled with the address set c in one step *)
Publish(k, c) ==
    /\ tables[k] = Absent
    /\ tables' = [tables EXCEPT ![k] = c]

Next == \E k \in Keys, c \in Contents : Publish(k, c)

Spec == Init /\ [][Next]_tables
====
