------------------------------- MODULE LutExtend -------------------------------
(***************************************************************************)
(* The "CreateLUT" mode: lut_main, lut_caller, poolkeys_lut,               *)
(* accountatas_lut in src/src/raydium/lut/extend_lut.rs and create_lut in   *)
(* src/src/raydium/lut/create_lut.rs.                                       *)
(*                                                                         *)
(* create_lut derives a new table address from the current slot and writes *)
(* it to settings.json at once.  lut_caller then builds one transaction of  *)
(* the table creation and the extension by the pool keys, one transaction   *)
(* per batch of BatchSize wallet addresses (the buyer's two token accounts, *)
(* then each wallet's two token accounts and the wallet), and one of the    *)
(* tip; it refuses more than MaxBundleSize transactions, subscribes and     *)
(* sends the bundle.  Every error ends in a panic of lut_main.              *)
(*                                                                         *)
(* Addresses are pairs <<kind, owner>>: owner 0 is the buyer.               *)
(***************************************************************************)
EXTENDS Naturals, Sequences, SequencesExt

CONSTANTS
    MaxWallets,     \* the largest wallet folder the user may pick
    FolderSizes,    \* the wallet counts of the folders the user picks
    PoolKeys,       \* the sequence of addresses poolkeys_lut pushes
    BatchSize,      \* addresses per extend instruction of accountatas_lut (30)
    MaxBundleSize,  \* the limit lut_caller checks and the relay enforces (5)
    MaxRuns,        \* how many times the user starts the mode
    Absent          \* model value: no table at an address

ASSUME MaxWallets \in Nat /\ FolderSizes \subseteq 0..MaxWallets /\ BatchSize \in Nat \ {0}
ASSUME MaxBundleSize \in Nat \ {0} /\ MaxRuns \in Nat \ {0}

VARIABLES
    pc,           \* program point of lut_main, "idle" between runs
    runs,         \* invocations of lut_main so far
    nw,           \* the number of wallets loaded
    key,          \* the table address create_lut derived in this run
    txns,         \* versioned_txns of lut_caller
    sPc, file, helper,  \* load_minter_settings and settings.json (module Settings)
    created,      \* chain: the tables that exist
    contents      \* chain: the addresses of each table, in order

lutVars == <<pc, runs, nw, key, txns, created, contents>>
settingsVars == <<sPc, file, helper>>
vars == <<lutVars, settingsVars>>

(* one address per slot the mode is run in *)
Keys == 1..MaxRuns

S == INSTANCE Settings WITH LutKeys <- Keys

(* LUT-KEY as the next load of settings.json will see it, 0 when empty *)
SettingsLut == S!Parsed(file).lut

(* the atas vector of accountatas_lut *)
AtaAddrs(n) ==
    << <<"mintAta", 0>>, <<"solAta", 0>> >>
    \o FlattenSeq([i \in 1..n |-> << <<"mintAta", i>>, <<"solAta", i>>, <<"wallet", i>> >>])

(* slice.chunks(size): consecutive pieces of size, the last shorter *)
Chunks(s, size) ==
    [i \in 1..((Len(s) + size - 1) \div size) |->
        SubSeq(s, (i - 1) * size + 1, Min({i * size, Len(s)}))]

(* variant: the batch is closed one address too late *)
RECURSIVE BatchLoopOffByOne(_, _, _)
BatchLoopOffByOne(atas, chunk, chunks) ==
    IF atas = << >>
    THEN IF Len(chunk) > 0 THEN Append(chunks, chunk) ELSE chunks
    ELSE LET c == Append(chunk, Head(atas))
         IN  IF Len(c) = BatchSize + 1
             THEN BatchLoopOffByOne(Tail(atas), << >>, Append(chunks, c))
             ELSE BatchLoopOffByOne(Tail(atas), c, chunks)

(* variant: the last, partial batch is never pushed *)
RECURSIVE BatchLoopNoRemainder(_, _, _)
BatchLoopNoRemainder(atas, chunk, chunks) ==
    IF atas = << >>
    THEN chunks
    ELSE LET c == Append(chunk, Head(atas))
         IN  IF Len(c) = BatchSize
             THEN BatchLoopNoRemainder(Tail(atas), << >>, Append(chunks, c))
             ELSE BatchLoopNoRemainder(Tail(atas), c, chunks)

(* the loop of accountatas_lut: push each address to the current chunk,   *)
(* close the chunk when it holds BatchSize, and push what is left at the  *)
(* end if it is not empty                                                  *)
RECURSIVE BatchLoop(_, _, _)
BatchLoop(atas, chunk, chunks) ==
    IF atas = << >>
    THEN IF Len(chunk) > 0 THEN Append(chunks, chunk) ELSE chunks
    ELSE LET c == Append(chunk, Head(atas))
         IN  IF Len(c) = BatchSize
             THEN BatchLoop(Tail(atas), << >>, Append(chunks, c))
             ELSE BatchLoop(Tail(atas), c, chunks)

Batches(n) == BatchLoop(AtaAddrs(n), << >>, << >>)

Create(k) == [kind |-> "create", key |-> k, addrs |-> << >>]
Extend(k, a) == [kind |-> "extend", key |-> k, addrs |-> a]
Tip == [kind |-> "tip", key |-> 0, addrs |-> << >>]

(* variant: the first slice takes three instructions *)
BuildTxnsFirstThree(k, n) ==
    LET ixs == << Create(k), Extend(k, PoolKeys) >>
               \o [j \in DOMAIN Batches(n) |-> Extend(k, Batches(n)[j])]
               \o << Tip >>
    IN  << SubSeq(ixs, 1, 3) >> \o [j \in 1..(Len(ixs) - 3) |-> << ixs[j + 3] >>]

(* versioned_txns: the first two instructions together, then each of the  *)
(* others in a transaction of its own                                      *)
BuildTxns(k, n) ==
    LET ixs == << Create(k), Extend(k, PoolKeys) >>
               \o [j \in DOMAIN Batches(n) |-> Extend(k, Batches(n)[j])]
               \o << Tip >>
    IN  << SubSeq(ixs, 1, 2) >> \o [j \in 1..(Len(ixs) - 2) |-> << ixs[j + 2] >>]

BundleIxs(b) == FlattenSeq(b)

Wire == INSTANCE TxWire

Buyer == <<"buyer", 0>>

(* the compiled form of each instruction: create_lookup_table (the table, *)
(* the buyer as authority and as paying signer, the system program; a u32 *)
(* tag, the slot and the bump), extend_lookup_table (the table, the buyer *)
(* as signing authority and payer, the system program; a u32 tag and a    *)
(* Vec of u64 length and 32 bytes per address), and the tip's system      *)
(* transfer from the buyer (a u32 tag and a u64)                          *)
WireOf(ix) ==
    LET table == Wire!Meta(<<"table", ix.key>>, FALSE, TRUE)
        system == Wire!Meta(<<"system", 0>>, FALSE, FALSE)
    IN  CASE ix.kind = "create" ->
               Wire!WireIx(<<"altProgram", 0>>,
                   << table, Wire!Meta(Buyer, FALSE, FALSE), Wire!Meta(Buyer, TRUE, TRUE), system >>,
                   4 + 8 + 1)
          [] ix.kind = "extend" ->
               Wire!WireIx(<<"altProgram", 0>>,
                   << table, Wire!Meta(Buyer, TRUE, FALSE), Wire!Meta(Buyer, TRUE, TRUE), system >>,
                   4 + 8 + 32 * Len(ix.addrs))
          [] ix.kind = "tip" ->
               Wire!WireIx(<<"system", 0>>,
                   << Wire!Meta(Buyer, TRUE, TRUE), Wire!Meta(<<"tipAccount", 0>>, FALSE, TRUE) >>,
                   4 + 8)

(* serialize(x).len() of a transaction Message::try_compile builds with   *)
(* the buyer as payer and no lookup table                                  *)
TxBytes(t) == Wire!V0Bytes(Buyer, [j \in DOMAIN t |-> WireOf(t[j])], {})

(* the address lookup table program, in bundle order: a table is created  *)
(* only where none exists, and only an existing table is extended          *)
Executes(b) ==
    LET ixs == BundleIxs(b)
        madeBefore(k, p) == \E q \in 1..(p - 1) : ixs[q] = Create(k)
    IN  \A p \in DOMAIN ixs :
           /\ ixs[p].kind = "create" =>
                 ixs[p].key \notin created /\ ~madeBefore(ixs[p].key, p)
           /\ ixs[p].kind = "extend" =>
                 ixs[p].key \in created \/ madeBefore(ixs[p].key, p)

RelayLands(b) ==
    /\ Len(b) <= MaxBundleSize
    /\ \A j \in DOMAIN b : TxBytes(b[j]) <= Wire!PacketDataSize
    /\ \E p \in DOMAIN BundleIxs(b) : BundleIxs(b)[p] = Tip
    /\ Executes(b)

(* the chain effect of a landed bundle: tables created, addresses appended *)
Land(b) ==
    LET ixs == BundleIxs(b)
        added(k) == FlattenSeq([p \in DOMAIN SelectSeq(ixs, LAMBDA x : x.kind = "extend" /\ x.key = k) |->
                        SelectSeq(ixs, LAMBDA x : x.kind = "extend" /\ x.key = k)[p].addrs])
    IN  /\ created' = created \cup {ixs[p].key : p \in {q \in DOMAIN ixs : ixs[q].kind = "create"}}
        /\ contents' = [k \in Keys |-> contents[k] \o added(k)]
-----------------------------------------------------------------------------
Init ==
    /\ pc = "idle" /\ runs = 0 /\ nw = 0 /\ key = 0
    /\ txns = << >>
    /\ S!SettingsInit
    /\ created = {}
    /\ contents = [k \in Keys |-> << >>]

(* variant: the wallet count is read one past the folder *)
StartPastFolder(n) ==
    /\ pc = "idle" /\ runs < MaxRuns
    /\ pc' = "prep" /\ runs' = runs + 1 /\ nw' = n + 1
    /\ S!Begin
    /\ UNCHANGED <<key, txns, created, contents>>

(* lut_main is chosen from the menu with a folder of n wallets *)
Start(n) ==
    /\ pc = "idle" /\ runs < MaxRuns
    /\ pc' = "prep" /\ runs' = runs + 1 /\ nw' = n
    /\ S!Begin
    /\ UNCHANGED <<key, txns, created, contents>>

(* load_minter_settings, the first call of lut_main, takes a step *)
Load ==
    /\ pc = "prep"
    /\ S!SettingsStep
    /\ UNCHANGED lutVars

(* load_minter_settings panicked, or it returned and a key parse,         *)
(* load_pool_keys or load_wallets fails: lut_main returns the error or    *)
(* panics                                                                 *)
PrepFail ==
    /\ pc = "prep"
    /\ sPc \in {"done", "dead"}
    /\ pc' = "idle"
    /\ UNCHANGED <<runs, nw, key, txns, created, contents, settingsVars>>

(* load_pool_keys fetches the market account over the RPC URL of the      *)
(* settings and unwraps the answer: it needs the URL set                  *)
PrepOk ==
    /\ pc = "prep"
    /\ sPc = "done" /\ S!Loaded.rpc
    /\ pc' = "create"
    /\ UNCHANGED <<runs, nw, key, txns, created, contents, settingsVars>>

(* create_lut: get_slot fails and lut_caller returns the error *)
CreateLutFail ==
    /\ pc = "create"
    /\ pc' = "idle"
    /\ UNCHANGED <<runs, nw, key, txns, created, contents, settingsVars>>

(* create_lut derives the table address from the slot and rewrites        *)
(* settings.json, the loaded settings with LUT-KEY set, before anything   *)
(* is sent; File::create fails and leaves the file, or truncates it and   *)
(* write_all fails, and the ? ends in lut_main's panic                    *)
CreateLut ==
    /\ pc = "create"
    /\ key' = runs
    /\ \/ file' = S!FileOf([S!Loaded EXCEPT !.lut = key']) /\ pc' = "build"
       \/ file' \in {file, S!GarbageFile} /\ pc' = "idle"
    /\ UNCHANGED <<runs, nw, txns, created, contents, sPc, helper>>

(* the instructions are gathered, a blockhash fetched and the             *)
(* transactions compiled                                                  *)
Build ==
    /\ pc = "build"
    /\ txns' = BuildTxns(key, nw)
    /\ pc' = "check"
    /\ UNCHANGED <<runs, nw, key, created, contents, settingsVars>>

(* get_latest_blockhash or a compile fails *)
BlockhashFail ==
    /\ pc = "build"
    /\ pc' = "idle"
    /\ UNCHANGED <<runs, nw, key, txns, created, contents, settingsVars>>

(* variant: the limit lets one transaction too many through *)
WithinLimitOffByOne == Len(txns) <= MaxBundleSize + 1

(* versioned_txns.len() > 5 is refused *)
WithinLimit == Len(txns) <= MaxBundleSize

(* "Too many transactions": lut_caller returns Err and lut_main panics *)
TooMany ==
    /\ pc = "check"
    /\ ~WithinLimit
    /\ pc' = "idle"
    /\ UNCHANGED <<runs, nw, key, txns, created, contents, settingsVars>>

(* get_searcher_client fails or the subscription's expect panics *)
ClientFail ==
    /\ pc = "check"
    /\ WithinLimit
    /\ pc' = "idle"
    /\ UNCHANGED <<runs, nw, key, txns, created, contents, settingsVars>>

Subscribed ==
    /\ pc = "check"
    /\ WithinLimit
    /\ pc' = "submit"
    /\ UNCHANGED <<runs, nw, key, txns, created, contents, settingsVars>>

(* send_bundle_with_confirmation returns Ok: the bundle landed *)
SendLanded ==
    /\ pc = "submit"
    /\ RelayLands(txns)
    /\ Land(txns)
    /\ pc' = "idle"
    /\ UNCHANGED <<runs, nw, key, txns, settingsVars>>

(* it returns Err, the bundle having been rejected: lut_main panics *)
SendNotLanded ==
    /\ pc = "submit"
    /\ pc' = "idle"
    /\ UNCHANGED <<runs, nw, key, txns, created, contents, settingsVars>>

(* the user has run the mode as often as the model lets them *)
Finished ==
    /\ pc = "idle" /\ runs = MaxRuns
    /\ UNCHANGED vars

Next ==
    \/ \E n \in FolderSizes : Start(n)
    \/ Load \/ PrepFail \/ PrepOk \/ CreateLutFail \/ CreateLut
    \/ Build \/ BlockhashFail \/ TooMany \/ ClientFail \/ Subscribed
    \/ SendLanded \/ SendNotLanded \/ Finished

(* lut_main is one task that only waits on the RPC node and the relay *)
Fairness ==
    /\ WF_vars(Load) /\ WF_vars(PrepFail \/ PrepOk) /\ WF_vars(CreateLutFail \/ CreateLut)
    /\ WF_vars(Build \/ BlockhashFail)
    /\ WF_vars(TooMany \/ ClientFail \/ Subscribed)
    /\ WF_vars(SendLanded \/ SendNotLanded)

Spec == Init /\ [][Next]_vars /\ Fairness
-----------------------------------------------------------------------------
Addr == Range(PoolKeys) \cup ({"mintAta", "solAta", "wallet"} \X (0..MaxWallets))

Ix == [kind : {"create", "extend", "tip"}, key : Keys \cup {0}, addrs : Seq(Addr)]

LutTypeOK ==
    /\ pc \in {"idle", "prep", "create", "build", "check", "submit"}
    /\ runs \in 0..MaxRuns /\ nw \in 0..MaxWallets
    /\ key \in Keys \cup {0}
    /\ sPc \in {"idle", "read", "prompt", "save", "done", "dead"}
    /\ file \in S!Files /\ helper \in S!Records
    /\ txns \in Seq(Seq(Ix))
    /\ created \subseteq Keys
    /\ contents \in [Keys -> Seq(Addr)]

(* for the folder loaded, the push-and-flush loop of accountatas_lut     *)
(* cuts the addresses into consecutive batches of at most BatchSize, the  *)
(* last shorter, losing and repeating none: slice.chunks(BatchSize)       *)
BatchesAreChunks == Batches(nw) = Chunks(AtaAddrs(nw), BatchSize)

(* every transaction lut_caller compiles fits in a network packet: the    *)
(* create-and-extend-by-pool-keys transaction and each extension by a full *)
(* batch of wallet addresses, the largest, both stay under 1232 bytes     *)
TxWithinPacket ==
    pc \in {"check", "submit"} => \A j \in DOMAIN txns : TxBytes(txns[j]) <= Wire!PacketDataSize

(* the addresses the later modes look up for a folder of m wallets: the   *)
(* pool and market keys, the buyer's two token accounts, and each         *)
(* wallet with its two token accounts                                     *)
Needed(m) ==
    {PoolKeys[i] : i \in DOMAIN PoolKeys}
    \cup {<<t, i>> : t \in {"mintAta", "solAta"}, i \in 0..m}
    \cup {<<"wallet", i>> : i \in 1..m}

TableView(k) == IF k \in created THEN Range(contents[k]) ELSE Absent

LutAbs == INSTANCE LutTables
    WITH tables <- [k \in Keys |-> TableView(k)],
         Contents <- {Needed(m) : m \in FolderSizes}

(* seen from the chain, the mode implements LutTables: a table appears in *)
(* one step already holding every address a folder needs, and is never   *)
(* changed again, whatever the rerun, panic and send failures            *)
TablesRefined == LutAbs!Spec

KeepsLut == file.kind = "json" /\ file.lut # 0 /\ file'.kind = "json" => file'.lut # 0
KeepsRpc == file.kind = "json" /\ file.rpc /\ file'.kind = "json" => file'.rpc

(* once settings.json names a table it keeps naming one: every rewrite,   *)
(* by load_minter_settings of what it read or by create_lut of what was   *)
(* loaded, carries LUT-KEY over unless the file was lost to a broken write *)
LutKeyKept ==
    [][KeepsLut]_settingsVars

(* the defaults written when settings.json is missing hold the mainnet    *)
(* RPC URL: once the file has an RPC URL, no later write drops it         *)
RpcUrlKept ==
    [][KeepsRpc]_settingsVars
====
