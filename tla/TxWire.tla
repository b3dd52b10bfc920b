-------------------------------- MODULE TxWire --------------------------------
(***************************************************************************)
(* The size of a version-0 transaction as the modes build it:              *)
(* Message::try_compile(payer, instructions, [table], blockhash), signed by *)
(* every signer the message requires, and bincode's serialize of the       *)
(* VersionedTransaction, whose length pool_main prints as txn_size.        *)
(*                                                                         *)
(* An instruction is its program, its account metas in order and the      *)
(* length of its data.  try_compile merges the metas of every key (signer  *)
(* or writable if any use is), the payer first as a writable signer; a    *)
(* key that is neither a signer nor an invoked program and is in the      *)
(* table is loaded by its index in the table, every other key is written  *)
(* out in full.                                                           *)
(***************************************************************************)
EXTENDS Naturals, Sequences, SequencesExt, FiniteSets

Meta(k, isSigner, isWritable) == [key |-> k, signer |-> isSigner, writable |-> isWritable]

WireIx(program, metas, dataLen) == [program |-> program, metas |-> metas, data |-> dataLen]

(* PACKET_DATA_SIZE: the largest serialized transaction the network and   *)
(* the relay accept                                                       *)
PacketDataSize == 1280 - 40 - 8

(* the short-vec length prefix of the wire format: 7 bits per byte *)
ShortVecLen(v) == IF v < 128 THEN 1 ELSE IF v < 16384 THEN 2 ELSE 3

MetasOf(ixs) == UNION {Range(ixs[i].metas) : i \in DOMAIN ixs}

KeysOf(payer, ixs) ==
    {payer} \cup {ixs[i].program : i \in DOMAIN ixs} \cup {m.key : m \in MetasOf(ixs)}

(* CompiledKeys::compile: the keys some use marks signer or writable, and *)
(* the programs invoked                                                    *)
Signers(payer, ixs) == {payer} \cup {m.key : m \in {x \in MetasOf(ixs) : x.signer}}
Writables(payer, ixs) == {payer} \cup {m.key : m \in {x \in MetasOf(ixs) : x.writable}}
Invoked(ixs) == {ixs[i].program : i \in DOMAIN ixs}

(* try_extract_table_lookup: the keys loaded from the table *)
Looked(payer, ixs, table) ==
    (KeysOf(payer, ixs) \cap table) \ (Signers(payer, ixs) \cup Invoked(ixs))

(* the account keys written in the message *)
StaticKeys(payer, ixs, table) == KeysOf(payer, ixs) \ Looked(payer, ixs, table)

(* a CompiledInstruction: program index, account indexes, data *)
IxBytes(ix) ==
    1 + ShortVecLen(Len(ix.metas)) + Len(ix.metas) + ShortVecLen(ix.data) + ix.data

(* the table lookup: the table's address, then the writable and the       *)
(* read-only indexes; a table nothing is loaded from is left out          *)
LookupBytes(payer, ixs, table) ==
    LET looked == Looked(payer, ixs, table)
        w == Cardinality(looked \cap Writables(payer, ixs))
        r == Cardinality(looked) - w
    IN  IF looked = {} THEN ShortVecLen(0)
        ELSE ShortVecLen(1) + 32 + ShortVecLen(w) + w + ShortVecLen(r) + r

(* serialize(&VersionedTransaction).len(): the signatures, the version    *)
(* prefix, the three header bytes, the static keys, the blockhash, the    *)
(* instructions and the lookups                                           *)
V0Bytes(payer, ixs, table) ==
    LET nsig == Cardinality(Signers(payer, ixs))
        nkeys == Cardinality(StaticKeys(payer, ixs, table))
    IN  ShortVecLen(nsig) + 64 * nsig + 1 + 3
        + ShortVecLen(nkeys) + 32 * nkeys + 32
        + ShortVecLen(Len(ixs)) + FoldSeq(LAMBDA ix, acc : acc + IxBytes(ix), 0, ixs)
        + LookupBytes(payer, ixs, table)
====
