------------------------------- MODULE AmmCodec -------------------------------
(***************************************************************************)
(* The instruction codec of the Raydium AMM program: AmmInstruction::pack  *)
(* and AmmInstruction::unpack with unpack_u8/u16/u64, in                   *)
(* src/src/raydium/instruction/instruction.rs.                             *)
(*                                                                         *)
(* An instruction is a record: its tag, the integer fields of its variant  *)
(* in declaration order, and for UpdateConfigAccount (tag 15) the two      *)
(* Option fields of ConfigArgs as sets ({} is None, {v} is Some(v)).  A    *)
(* Pubkey is its 32 bytes read as a little-endian number.  Bytes are       *)
(* naturals below 256; integers are little-endian of the field's width.    *)
(*                                                                         *)
(* The harness either packs an instruction and unpacks the bytes again,    *)
(* or unpacks raw input.                                                   *)
(***************************************************************************)
EXTENDS Naturals, Sequences, SequencesExt

CONSTANTS
    Instrs,   \* the instructions the harness packs
    Inputs    \* the raw byte strings the harness unpacks

PubkeyLen == 32

(* the fields of each variant other than UpdateConfigAccount, as read by  *)
(* unpack: the width in bytes of each, in order                            *)
UnpackLayout ==
    (0 :> <<1, 8>>) @@ (1 :> <<1, 8, 8, 8>>) @@ (2 :> <<2, 2, 2>>)
    @@ (3 :> <<8, 8, 8>>) @@ (4 :> <<8>>) @@ (5 :> << >>) @@ (7 :> << >>)
    @@ (8 :> <<8>>) @@ (9 :> <<8, 8>>) @@ (10 :> <<1>>) @@ (11 :> <<8, 8>>)
    @@ (13 :> <<2>>) @@ (14 :> << >>)

(* variant: pack writes the two amounts of Initialize2 in swapped order *)
PackLayoutSwapped(t, args) ==
    IF t = 1 THEN << <<args[1], 1>>, <<args[2], 8>>, <<args[4], 8>>, <<args[3], 8>> >>
    ELSE [i \in DOMAIN args |-> <<args[i], UnpackLayout[t][i]>>]

(* the fields pack writes for a variant other than UpdateConfigAccount:   *)
(* each value with the width of its to_le_bytes, in declaration order     *)
PackLayout(t, args) == [i \in DOMAIN args |-> <<args[i], UnpackLayout[t][i]>>]

(* variant: the bytes are not reduced modulo 256 *)
RECURSIVE LEUnreduced(_, _)
LEUnreduced(v, w) == IF w = 0 THEN << >> ELSE << v >> \o LEUnreduced(v \div 256, w - 1)

(* v.to_le_bytes() of an integer of w bytes *)
RECURSIVE LE(_, _)
LE(v, w) == IF w = 0 THEN << >> ELSE << v % 256 >> \o LE(v \div 256, w - 1)

(* from_le_bytes *)
RECURSIVE FromLE(_)
FromLE(bs) == IF bs = << >> THEN 0 ELSE Head(bs) + 256 * FromLE(Tail(bs))

Err == [kind |-> "err"]
Ok(bs) == [kind |-> "ok", bytes |-> bs]

(* the owner of UpdateConfigAccount must be Some and not Pubkey::default() *)
OwnerOk(owner) == owner \notin {{}, {0}}

(* pack: the tag byte, then the fields; UpdateConfigAccount refuses a     *)
(* missing or default owner, a missing fee and an unknown param           *)
Pack(x) ==
    IF x.tag = 15
    THEN LET param == x.args[1]
         IN  CASE param \in {0, 1} ->
                    IF ~OwnerOk(x.owner) THEN Err
                    ELSE Ok(<<15, param>> \o LE(CHOOSE o \in x.owner : TRUE, PubkeyLen))
               [] param = 2 ->
                    IF x.fee = {} THEN Err
                    ELSE Ok(<<15, param>> \o LE(CHOOSE f \in x.fee : TRUE, 8))
               [] OTHER -> Err
    ELSE LET l == PackLayout(x.tag, x.args)
         IN  Ok(<< x.tag >> \o FlattenSeq([i \in DOMAIN l |-> LE(l[i][1], l[i][2])]))

(* variant: the rest starts at the last byte read *)
UnpackNOverlap(input, w) ==
    IF Len(input) >= w
    THEN [ok |-> TRUE, val |-> FromLE(SubSeq(input, 1, w)), rest |-> SubSeq(input, w, Len(input))]
    ELSE [ok |-> FALSE, val |-> 0, rest |-> << >>]

(* unpack_u8, unpack_u16, unpack_u64: the first w bytes as a number and   *)
(* the rest, or InvalidInstructionData on a shorter input                 *)
UnpackN(input, w) ==
    IF Len(input) >= w
    THEN [ok |-> TRUE, val |-> FromLE(SubSeq(input, 1, w)), rest |-> SubSeq(input, w + 1, Len(input))]
    ELSE [ok |-> FALSE, val |-> 0, rest |-> << >>]

(* the chain of unpack_uN calls of one variant, stopping at the first     *)
(* error (the ? operator)                                                 *)
RECURSIVE ReadFields(_, _)
ReadFields(input, widths) ==
    IF widths = << >>
    THEN [ok |-> TRUE, vals |-> << >>]
    ELSE LET r == UnpackN(input, Head(widths))
             t == ReadFields(r.rest, Tail(widths))
         IN  IF r.ok /\ t.ok THEN [ok |-> TRUE, vals |-> << r.val >> \o t.vals]
             ELSE [ok |-> FALSE, vals |-> << >>]

Ix(t, args, owner, fee) == [tag |-> t, args |-> args, owner |-> owner, fee |-> fee]
Decoded(x) == [kind |-> "ok", ix |-> x]
DecodeErr == [kind |-> "err"]
Panic == [kind |-> "panic"]

(* unpack: split off the tag, then read the variant's fields; for         *)
(* UpdateConfigAccount with param 0 or 1 the owner is taken with          *)
(* array_ref![rest, 0, 32], which panics on fewer than 32 bytes           *)
Unpack(input) ==
    IF input = << >> THEN DecodeErr
    ELSE LET tag == Head(input)
             rest == Tail(input)
             p == UnpackN(rest, 1)
             q == UnpackN(p.rest, 8)
         IN  CASE tag \in DOMAIN UnpackLayout ->
                    IF ReadFields(rest, UnpackLayout[tag]).ok
                    THEN Decoded(Ix(tag, ReadFields(rest, UnpackLayout[tag]).vals, {}, {}))
                    ELSE DecodeErr
               [] tag = 15 /\ ~p.ok -> DecodeErr
               [] tag = 15 /\ p.val \in {0, 1} ->
                    IF Len(p.rest) >= PubkeyLen
                    THEN Decoded(Ix(15, << p.val >>, {FromLE(SubSeq(p.rest, 1, PubkeyLen))}, {}))
                    ELSE Panic
               [] tag = 15 /\ p.val = 2 ->
                    IF q.ok THEN Decoded(Ix(15, << 2 >>, {}, {q.val})) ELSE DecodeErr
               [] OTHER -> DecodeErr
-----------------------------------------------------------------------------
VARIABLES
    phase,    \* "pack", "unpack" or "done"
    x,        \* the instruction packed, NoIx when raw input is unpacked
    input,    \* the bytes given to unpack
    result    \* what unpack returned

vars == <<phase, x, input, result>>

NoIx == Ix(6, << >>, {}, {})   \* tag 6 is no variant
NoResult == [kind |-> "none"]

Init ==
    \/ phase = "pack" /\ x \in Instrs /\ input = << >> /\ result = NoResult
    \/ phase = "unpack" /\ x = NoIx /\ input \in Inputs /\ result = NoResult

(* an instruction builder calls pack: an error ends the call *)
Encode ==
    /\ phase = "pack"
    /\ IF Pack(x).kind = "ok"
       THEN phase' = "unpack" /\ input' = Pack(x).bytes
       ELSE phase' = "done" /\ input' = input
    /\ UNCHANGED <<x, result>>

Decode ==
    /\ phase = "unpack"
    /\ result' = Unpack(input)
    /\ phase' = "done"
    /\ UNCHANGED <<x, input>>

Done ==
    /\ phase = "done"
    /\ UNCHANGED vars

Next == Encode \/ Decode \/ Done

Spec == Init /\ [][Next]_vars
-----------------------------------------------------------------------------
CodecTypeOK ==
    /\ phase \in {"pack", "unpack", "done"}
    /\ x \in Instrs \cup {NoIx}
    /\ input \in Seq(0..255)
    /\ result.kind \in {"none", "ok", "err", "panic"}

(* the instruction unpack returns for pack's bytes: the one packed, with  *)
(* the Option of ConfigArgs that its param does not use set to None       *)
Canonical(y) ==
    IF y.tag = 15
    THEN [y EXCEPT !.owner = IF y.args[1] \in {0, 1} THEN @ ELSE {},
                   !.fee = IF y.args[1] = 2 THEN @ ELSE {}]
    ELSE y

(* unpack inverts pack: every instruction pack accepts decodes back to    *)
(* itself, up to the Option its param ignores, field by field and in      *)
(* declaration order                                                      *)
RoundTrip ==
    phase = "done" /\ x # NoIx /\ Pack(x).kind = "ok" => result = Decoded(Canonical(x))

(* unpack reads strictly in order and keeps nothing it did not read: the  *)
(* input of every successful unpack begins with the packing of what it    *)
(* returned, and any further bytes are ignored (pack refuses a default    *)
(* owner that unpack accepts, so such a result has no packing)            *)
ReadsPrefix ==
    phase = "done" /\ result.kind = "ok" /\ Pack(result.ix).kind = "ok" =>
        IsPrefix(Pack(result.ix).bytes, input)

====
