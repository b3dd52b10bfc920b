# TLA+ models of the Raydium/Jito bundler

This directory holds TLA+ models of the bundler in `src/src`. The bundler is an
interactive tool that prepares wallets and launches a Raydium pool with a
Jito bundle. The tool issues single-threaded async requests. Its only
concurrency is with the outside world:

- the Solana RPC node, which may fail any call;
- the Jito block engine (the "relay"), which lands a bundle of at most 5
  transactions all-or-nothing, and only if the bundle pays a tip;
- the user, who picks modes from a menu, types amounts and may rerun a mode
  after it ended or panicked.

The hard behaviour therefore sits in three places. One is the control flow of
each mode: chunking, skips, early returns and panics. Another is what reaches
the chain when a step fails half-way. The third is what a rerun sees of an
earlier run.

## 1. Inventory of the system

| Part | Source | State | Operations | Interactions |
|---|---|---|---|---|
| Menu | `menu/selector.rs` `app` | none (recursion) | dispatch to a mode, recurse | starts every mode; ignores their errors |
| Settings | `env/mod.rs` `load_minter_settings` | `settings.json` | read, fall back to defaults on a parse error, prompt for missing keys, rewrite the file | read by every mode; `create_lut` writes `LUT-KEY`; `pool_main` writes `mintor_settings.json` |
| Wallets | `raydium/wallets.rs` | wallet folders | generate, list, load | the wallet list is an input of every mode |
| Lookup table | `raydium/lut/create_lut.rs`, `extend_lut.rs` | the on-chain table and its addresses | create (persisting the key first), extend with pool keys and wallet ATAs in batches of 30, send as one bundle (at most 5 transactions) | the wrap and pool modes poll the table named in settings |
| Allocation | `raydium/distribution/rand.rs` `distribute_randomly` | amounts, remaining, shuffled order | assert, shuffle, capped draws, absorb, early break | called by `sol_distribution` |
| Distribute SOL | `raydium/distribution/sol_distribution.rs` | bundle index, transactions | plan, transfers (chunks of 21, bundles of 104), tip, send; stop on a send error | funds the wallets that Wrap SOL then reads |
| Wrap SOL & ATAs | `raydium/atas/wrap_sol.rs` | bundle index, chunk, wallet, instructions, signers | poll the table, skip wallets under 0.02 SOL, create ATAs, wrap, sync, tip, sign, send; panic on errors | reads the balances Distribute SOL left; fills the wSOL accounts that Bundle Liquidity swaps from |
| Bundle Liquidity | `raydium/bundler.rs`, `instruction/pool_ixs.rs`, `swap_ixs.rs` | transactions | pool transaction, then swaps in chunks of 7, skipping unreadable wallets, tip, more-than-5 check, send | needs the table and the wrapped balances |
| Instruction codec | `instruction/instruction.rs` | bytes | `AmmInstruction::unpack`/`pack`, `swap`, `initialize_amm_pool` | builds the pool and swap instructions |
| Pool state decoding | `instruction/decoder.rs`, `instruction.rs` `load_amm_keys`, `get_keys_for_market` | bytes | fixed-layout decode, polling with a bound of 1000 | gives the pool keys that the table and the swaps use |
| Relay tip | `env/jito_auth.rs` | none | a transfer to one of eight tip accounts | part of every bundle |

The properties each part needs come from spec.md and from what the code is
exposed to:

- **Bundles.** At most 5 transactions. Exactly one tip, as the final
  instruction of the final transaction. Exactly the required signers.
- **Allocation.** The plan sums to the total. Every share but the last lies in
  `[min, max]`.
- **Distribution.** The wallets receive their shares. A failure leaves the
  funded wallets a prefix of the bundles.
- **Wrap.** No wallet is wrapped twice across reruns. A completed run leaves no
  funded wallet.
- **Polling.** Every mode ends: spec.md asks for bounded polling.
- **Lookup table.** Extend batches of at most 30. The table exists before a
  mode relies on the key that settings hold.
- **Codec.** `unpack(pack(x)) = x`. A decode error is returned, never a panic.
- **Settings.** A rewrite of `settings.json` keeps what the file held: the
  RPC URL of the defaults and the `LUT-KEY` that `create_lut` wrote.

## 2. Modules

| Module | Models | State (variables) ↔ code | Actions ↔ code |
|---|---|---|---|
| `WrapSol` | `sol_wrap`, `wsol` | `pc` is the program point. `oc`, `ci` and `wi` are the loop indices of the two chunk levels and of the wallet loop. `ixs`, `signers` and `txns` are `current_instructions`, `current_wallets` and `txns_chunk`. On chain: `balance`, abstracted to the side of the 0.02 SOL threshold, and `wrapCount`. | `lutKey` is the table `LUT-KEY` names (`unset`, `dead` or `live`), drawn from the constant `LutStates`. `Start`, `LutKeyPanic` (`Pubkey::from_str` of an empty key panics), `FetchLutFail`/`FetchLutOk` (the `while raw_account.is_none()` poll; with a dead key every call fails), `Prepare`, `RpcPanic`, `WalletSkip`, `WalletWrap`, `EndChunk`, `SendLanded`/`SendLandedErr`/`SendFailed` |
| `Allocation` | `distribute_randomly` | `amounts`, `remaining`, `indices` (shuffled), `k` (loop position), and the arguments | `Begin` (assert and shuffle), `Draw`, `DrawPanic` (empty `gen_range`), `Absorb`, `Give` (update and break) |
| `SolDistribution` | `distributor`, `sol_distribution` | `dPc`, `oc`, `txns`. The user inputs `uTotal`/`uMin`/`uMax`. On chain: `received`, `transfers`. Allocation's variables are shared. | `Start`, `ClientFail`, `Call` (which starts Allocation), `Plan` (an Allocation step), `PlanPanic`, `Build`, `BlockhashFail`, `SendLanded`, `SendFailed`. `WireOf` gives the two metas and 12 data bytes of a `system_instruction::transfer` (the tip is one too), and `TxBytes` compiles a transaction with the buyer as payer and no table. |
| `Menu` | `app` | the variables of `LutExtend` and `WrapSol`, renamed where they collide (`lPc`/`wPc`, `lRuns`/`wRuns`, `lTxns`/`wTxns`), and `lutKey`, the table `settings.json` names as wrap will find it | `LutStep` (a `LutExtend` step, wrap not running), `WrapStep` (a `WrapSol` step, `lut_main` not running). `LutNamed(file, created)` derives `lutKey` from the file and the chain after each `LutExtend` step. |

| `PoolBundle` | `pool_main` | `pc`, `runs`, `nw` (wallets in the folder), `ci`/`wi` (chunk and wallet indices), `ixs`, `txns`, `skipped` (wallets whose wSOL balance read failed). On chain: `wsol` (funded or not per wallet), `poolCreated`, `swapped`. | `lutKey` (`live` or `dead`, drawn from `LutStates`) and `lutFailed`. `Start`, `PrepFail`/`PrepOk`, `FetchLutFail`/`FetchLutOk` (the table poll; at a dead key every call fails), `BuildPoolFail`, `BuildPool`, `WalletSkip` (the `continue`), `WalletSwap`, `EndChunk`, `SubscribeFail`, `TooManyTxns`, `Submit`, `SendLanded`, `SendNotLanded`. `TxBytes` is `serialize(x).len()` of a transaction: `PoolWire` (`create_account_with_seed`, `initialize_account`, and `Init2Wire`, `initialize2` with its 21 accounts), `SwapWire` (`swap_base_in`, 18 accounts, 17 data bytes, with the user accounts in the order `swap` passes them: `SwapUser`) and `TipWire`, compiled against `Table`, the addresses `poolkeys_lut` and `accountatas_lut` put in the table. |
| `LutExtend` | `lut_main`, `lut_caller`, `poolkeys_lut`, `accountatas_lut`, `create_lut` | `pc`, `runs`, `nw`, `key` (the address `create_lut` derived from the slot), `txns` (`versioned_txns`), and `Settings`' variables. On chain: `created`, `contents` (each table's addresses in order). | `Start` (which calls `Settings!Begin`), `Load` (a step of `load_minter_settings`), `PrepFail`/`PrepOk` (`PrepOk` needs the RPC URL that `load_pool_keys` fetches with), `CreateLutFail`, `CreateLut` (derives the key and rewrites `settings.json`, or fails writing it), `Build`, `BlockhashFail`, `TooMany`, `ClientFail`, `Subscribed`, `SendLanded`, `SendNotLanded`. The batching loop is the RECURSIVE operator `BatchLoop`. `WireOf` gives the account metas and data length of `create_lookup_table`, `extend_lookup_table` and the tip; `TxBytes` compiles them with no table. |
| `TxWire` | `Message::try_compile` and `serialize` of a `VersionedTransaction`, as `pool_main`, `lut_caller` and `sol_distribution` call them. That code is `solana_sdk`'s, outside this repository, and the map marks these operators `spec_modelled` | none: operators | `V0Bytes(payer, ixs, table)`: the signatures of every signer, the version and header bytes, the static keys, the blockhash, each instruction's indexes and data, and the table lookups. A key that is in the table and is neither a signer nor an invoked program is loaded by index (`Looked`). |
| `Settings` | `load_minter_settings`, with the prompts of `input.rs` | `sPc` (its step), `file` (`settings.json`: absent, garbage, or JSON with whether the RPC URL and the typed keys are set and the `LUT-KEY`), `helper` (`helper_settings`) | `Begin`, `Read` (read, or write the defaults for a missing file; parse, or fall back to `HelperSettings::default()`), `Prompt`, `Quit` (an interrupted prompt panics in `expect`), `Save` (`File::create` and `write_all`), `SaveInterrupted` (the process dies between truncation and write) |
| `LutTables` | what the mode promises of the chain | `tables`: each table's address set, or `Absent` | `Publish(k, c)`: a table appears once, complete |
| `AmmCodec` | `AmmInstruction::pack`, `unpack`, `unpack_u8/u16/u64` | a harness: `phase`, the instruction `x`, the bytes `input`, the `result` of unpack | `Encode` (a builder calls `pack`), `Decode` (`unpack`). `Pack`, `Unpack`, `UnpackN`, `ReadFields`, `LE`, `FromLE` are operators over byte sequences. |
| `PoolState` | `LIQUIDITY_STATE_LAYOUT_V4::decode`, `unpack_u64/u128/pubkey`, `load_amm_keys` | `lPc`, `retries`, `account` (the account `get_account` returned), `keys` (the `AmmKeys` or the error returned) | `FetchOk`, `FetchErr` (`retries += 1`), `GiveUp` ("Account not found after maximum retries"), `DecodeAccount` (decode, swap the mints if the base is SOL, build the keys). `Decode` reads each field at the sum of the widths before it; it fails exactly when a `read_exact` would run past the end. |

`LutExtend` is shown to implement `LutTables`:
`LutAbs == INSTANCE LutTables WITH tables <- [k \in Keys |-> TableView(k)], Contents <- {Needed(m) : ...}`,
where `TableView(k)` is the set of addresses of table `k` once it exists, and
`Needed(m)` is written independently of the code, from what the wrap and pool
modes look up. The run checks `LutAbs!Spec` as a `PROPERTY`.

`LutExtend` composes `Settings` with `S == INSTANCE Settings WITH LutKeys <- Keys`.
They share `sPc`, `file` and `helper`. `Load` is a `Settings` step taken while
`lut_main` is at its first line. `CreateLut` writes the loaded settings with
the new `LUT-KEY` into the same `file`, or leaves it unchanged, or leaves it
truncated.

`SolDistribution` composes `Allocation` with
`Alloc == INSTANCE Allocation WITH ...`. The two modules share their
variables, so every step of `distribute_randomly` is a `Plan` step of the
distributor.

`Menu` composes `LutExtend` and `WrapSol` the way `app()` runs them: one
mode at a time, each awaited to its end (an `Err` returns to the menu; after a
panic the user starts the tool again and is at the menu too). `lut_main` owns `settings.json` and the chain's tables;
`WrapSol`'s `lutKey` is kept equal to `LutNamed(file, created)`: `unset` when
the file has no key or does not parse, `live` when the table it names was
created, `dead` otherwise. (TLC cannot evaluate a substitution of `lutKey` by
that expression inside `UNCHANGED`, so `Menu` keeps it as a variable of its
own and sets it on every `LutExtend` step.) Wrap's own settings load keeps
`LUT-KEY` and is left out. The other modes share only the wallet folder with
these two, which every model takes as a constant.

The relay itself (`send_bundle_with_confirmation` and the block engine) is not
in this repository. It is modelled from spec.md §3: a bundle lands whole, or not
at all, and only if it is within 5 transactions and pays a tip. In
`PoolBundle`, `LutExtend` and `SolDistribution` it also drops a bundle with a transaction over
`PACKET_DATA_SIZE` (1232 bytes). The map marks
these operators `spec_modelled`.

**Abstractions.**

- Wallets are `1..NumWallets`, in list order.
- Instructions are records `[kind, w]` or `[kind, to, amt]`.
- Keys, blockhashes, URLs and output are left out.
- Lamports are small naturals in the distribution model.
- Addresses in `LutExtend` are pairs `<<kind, owner>>`. The pool keys repeat
  an address, as `poolkeys_lut` pushes the market and the mints twice.
- In `AmmCodec` an instruction is its tag, its integer fields in order, and
  the two `Option`s of `ConfigArgs` as sets. Bytes are naturals below 256.
  Integers are written with the real widths (1, 2, 8, 32 bytes) by
  repeated division, so TLC's 32-bit integers never overflow.
- The wrap model keeps only "under / over 0.02 SOL", which is all that `wsol`
  tests.

## 3. Runs

| Run | Expect | Checks | Shows |
|---|---|---|---|
| `wrapsol` | pass | `TypeOK`, `SignersMatch`, `BundleWithinLimit`, `WrapAtMostOnce`, `CompletedRunWrapsAll`, `Termination` | With a reachable table and two runs of the mode:<br>- every transaction is signed by exactly the keys it needs;<br>- bundles stay within the limit;<br>- reruns never wrap a wallet twice;<br>- a completed run leaves no wallet above the threshold;<br>- the mode ends. |
| `wrapsol_tip` | violation | `TipOncePerBundle` | When the last wallet is under the threshold, the bundle has no tip (`wrap_sol.rs:134`). |
| `allocation_zero_share` | violation | `EveryRecipientFunded` | total 4, n 3, min 1, max 2 can give the plan 2, 2, 0 (`rand.rs:42`). |
| `distribution` | pass | `DistTypeOK`, `PlanSumsToTotal`, `FundedIsPrefix` | Each plan sums to its total. After any send error or panic, the funded wallets are exactly the first bundles, each funded once. (The tip's place is fixed by one guard and every loop of `distributor` is a bounded `for`, so neither is a property here.) |
| `distribution_total` | violation | `DistributesTotal` | Each wallet is paid `rand_amount[index]` with the transaction index (`sol_distribution.rs:54`), so with total 8 over three wallets the plan 1, 1, 6 pays 1, 1, 1. |

| `pool_bundle` | pass | `PoolTypeOK`, `LaunchSnipesReadable`, `Termination` | Over folders of 0–5 wallets, any wSOL accounts, a `LUT-KEY` naming a table that exists or not, and two runs:<br>- the step that creates the pool swaps for exactly the wallets whose balance was read;<br>- a run whose table exists ends. A run whose table does not exist polls forever (`bundler.rs:88`), the hang `menu_lut` shows for `wsol`. |
| `pool_packet` | violation | `TxWithinPacket` | With the code's chunks of 7 and the real account lists, a folder of 7 funded wallets gives transactions of 689 bytes (the pool) and 1281 bytes (7 swaps and the tip), over the 1232-byte limit (`bundler.rs:130`). A full chunk without the tip is 1200 bytes and 6 swaps with the tip 1145, so only a full last chunk fails: folders of 7, 14, 21 or 28 wallets never launch. `pool_main` computes the sizes (`txn_size`) and only prints them. |
| `lut_extend` | pass | `LutTypeOK`, `BatchesAreChunks`, `TxWithinPacket`, `TablesRefined`, `LutKeyKept` | The push-and-flush loop computes `chunks(30)` of the addresses. Every compiled transaction fits in a 1232-byte packet: a full batch takes 1212 bytes, and the first transaction with the 21 pool keys takes 944. Seen from the chain, every table appears in one step with all the addresses the folder needs and never changes again. Once `settings.json` names a table, every later rewrite (the load's or `create_lut`'s) names one too, unless a write broke the file. |
| `menu_lut` | violation | `WrapTerminates` | End to end through the menu: a CreateLUT run writes the new key to `settings.json` in `create_lut` (`create_lut.rs:26`) and then fails (TLC's trace: a blockhash error; the more-than-5 check, a client error or a rejected bundle do the same). The next Wrap SOL & ATAs run finds a key to a table that never exists and polls `get_account` forever (`wrap_sol.rs:44`). |
| `distribution_packet` | violation | `TxWithinPacket` | With the code's chunks of 21 and 104 and a folder of 21 wallets, the one transaction holds 21 transfers and the tip: 24 accounts, 1246 bytes, over the 1232-byte limit (`sol_distribution.rs:42`). 21 transfers alone, or 20 and the tip, are 1197 bytes, so every bundle of 21, 42, 63 or 84 wallets is rejected and `distributor` stops. |
| `codec` | pass | `CodecTypeOK`, `RoundTrip`, `ReadsPrefix`, `PoolTypeOK`, `KeysAtOffsets`, `PcMintIsSol`, `LoadTerminates` | Every variant, packed with boundary values, unpacks to itself. Every successful unpack of raw or packed bytes read a prefix of its input, in field order. `load_amm_keys` reads the market, market program, target orders, open orders and LP mint at the offsets published for the AMM v4 account (`baseMint` at 400, `marketId` at 528). It refuses an account one byte short. It puts SOL on the pc side, and it always returns. |
| `settings_rpc` | violation | `RpcUrlKept` | Without `settings.json`, the first load writes defaults with the mainnet RPC URL, then parses `""` instead of them, falls back to an empty RPC URL and rewrites the file with it (`env/mod.rs:101`). `lut_main` then panics in `load_pool_keys`. |

`unpack` panics on `<<15, 0>>` in `array_ref!` (`instruction.rs:463`) instead
of returning an error. No mode calls `unpack` or `load_amm_keys`, so the panic
cannot occur in the program. The model keeps the `Panic` branch, but no run
checks it.

A behaviour of the `codec` run exercises one of two decoders. It either runs
the codec harness or calls `load_amm_keys` on one of four pool accounts:
SOL as base, SOL as quote, no SOL, and one byte short. Neither `load_amm_keys`
nor `decode` is called by any mode. When the base is SOL, `load_amm_keys`
swaps the mints but not the vaults, so `amm_coin_vault` holds SOL while
`amm_coin_mint` is the token. No property claims the pairing, because no
caller exists to be affected by it.

`Pack` and `Unpack` read the field widths from one table, `UnpackLayout`,
checked by hand against both functions; `RoundTrip` therefore catches a
byte-order or field-order mistake, not a width on which the two disagree.
`RoundTrip` holds up to the `Option` of `ConfigArgs` that the param does not
use: `pack` ignores it, so `UpdateConfigAccount` with param 0 and a fee set
unpacks without the fee. No mode builds such an instruction.

Every property of a passing run is paired in `PROJECT.json` with a mutant: a
plausible bug in the mapped code that TLC must catch.

**Bounds.**

- The chunk sizes of the code (14 and 3 for wrap; 104 and 21 for distribute)
  are scaled down to 4 and 2, with the relay limit scaled to 2. This keeps
  the relation the code relies on: one full bundle exactly fills the limit.
- Five wallets give one full bundle and one short bundle, so the last-chunk
  and last-bundle cases both occur.
- The wrap model draws every initial balance pattern over five wallets and
  lets the user start the mode twice. That covers reruns after a panic.
- Allocation runs over totals 1–6, up to 3 recipients and bounds 1–3. This
  includes `total < n` (assertion), `min > max` (`gen_range` panic) and the
  early break.
- The distribution run uses totals {3, 8} and amounts {1, 2}. Total 3 with four
  wallets hits the assertion. Total 8 with four wallets makes the remainder
  exceed the cap, the case where the absorbing last share matters.

- The `distribution_packet` run keeps the code's chunks of 21 and 104 and
  a folder of 21 wallets, the smallest whose last transaction is full. The
  cfg replaces `Permutations` inside `Allocation` by the identity order and
  offers one amount: the sizes depend on neither, and restricting choices
  only removes behaviours, so the violation found is one the code has.
- `MCMenu` runs `lut_main` once, over an empty folder or one of 10 wallets,
  and `sol_wrap` once over one wallet. The address batch is scaled from 30 to
  10 so that 10 wallets (32 addresses, 6 transactions) meet the
  more-than-5 check as 30 do in the code; the code's batch over a folder of
  29 or 30 wallets overflows TLC's evaluation stack in the composition.
- The pool model takes folders of 0–5 wallets, chunks of 2 and a limit of 3,
  so a bundle can be full, short, or over the limit. The `pool_packet` run
  keeps the code's chunks of 7 and limit of 5 with a folder of 7 wallets,
  every one in the table, one run: the smallest folder with a full last
  chunk.
- The lookup-table model keeps the code's batches of 30, the limit of 5 and
  the 21 pool keys (18 distinct), so the transaction sizes are the real
  ones. The folders hold 0, 9, 10, 29 or 30 wallets:
  - 9 wallets give 29 addresses, one partial batch;
  - 10 wallets give a full batch and a partial one;
  - 29 wallets are the most that fit in 5 transactions;
  - 30 wallets give 6 transactions, which are refused. Two runs of the mode show a rerun after a failure.
  `settings.json` starts absent, garbage, as the defaults, or with the keys
  typed. These are the four files a first start, a broken write, a start
  interrupted at a prompt and a completed load leave.
- The codec packs every variant with 0 and a multi-byte value (255 for
  `u8`, 258 otherwise, whose two bytes tell the byte order apart). It also
  packs every param, owner and fee of `UpdateConfigAccount`. It unpacks every
  string of up to 3 bytes over the tags and values that matter, plus whole
  encodings with a trailing byte.
- The pool accounts are the real 752 bytes, with a distinct low byte in each
  Pubkey. A layout shift of even 8 bytes therefore changes every key read
  after it. `max_retries` is 3 instead of 1000; the bound is what matters to
  `LoadTerminates`, not its size.

**Fairness.** Each mode is one async task that only waits on the network. Weak
fairness on its steps says that a started mode keeps running while the RPC
node and the relay keep answering. The `FetchLutOk` fairness says that a poll
which keeps being retried eventually succeeds, if the table exists. The user's
actions carry no fairness: starting a mode, typing amounts, rerunning.
`LutExtend` has weak fairness on `Load`. `load_minter_settings` runs without
waiting once it is called. A prompt either gets a valid key or is interrupted. `Menu` takes the fairness of both modes and none for
choosing a mode. `PoolState` has weak
fairness on its poll and on its decode. A call of `get_account` returns Ok or
Err; each Err counts towards `max_retries`.

## 4. Plan for the remaining parts

Done so far: `WrapSol`, `Allocation`, `SolDistribution`, `PoolBundle`,
`LutExtend` with its refinement of `LutTables` and its composition with
`Settings`, `AmmCodec` and `PoolState`. Still to
come, in order:

1. **Transaction sizes of `wsol`.** `TxWire` sizes the transactions of
   `pool_main`, `lut_caller` and `sol_distribution`. `wsol`'s chunks of 3
   wallets (5 instructions each, compiled against the table) are not yet
   sized.
2. **`get_keys_for_market`**, the live reader of pool data (through
   `load_pool_keys`). It needs a model of the Serum market layout that
   `serum_dex` transmutes, which is not in this repository. Its
   `remove_dex_account_padding` slices the 5-byte head before checking the
   length, so a shorter account panics. `load_pool_keys` unwraps the result
   anyway, so the outcome is the same panic.
3. **`Workflow`**: `Menu` composes the lookup table (with settings) and
   wrap; the rest would add distribution and the pool bundle through the shared chain state and
   `settings.json`. It would also refine an abstract `BundleSpec`: a bundle
   is submitted, then lands or is rejected, all-or-nothing.

The runs now number 12. New questions will replace shallower runs instead of
being added.

## 5. Not modelled

- Console input, wallet generation and folder listing are pure I/O. Typed
  values appear as nondeterministic choices.
  `wallets_main` can regenerate into an existing folder (answering no to
  a new deployment uses the folder `list_folders` picks). `fs::write` then
  overwrites its `wallet_i.json` files, and the keys of funded wallets are
  lost; with fewer wallets than before, the old `wallet_i.json` files past
  the new count stay and are loaded with the new ones. This is listed as a
  hazard without a property: no model funds wallets of one folder across
  a regeneration, and without that a property would only restate that
  `fs::write` replaces a file.
- `Menu` composes two of the five modes. Generate Wallets, Distribute SOL
  and Bundle Liquidity share no state with them but the wallet folder
  (and, for the pool, the same table poll as wrap), and each is checked on
  its own, with reruns standing for the menu's recursion.
- Which of the eight tip accounts is chosen does not affect any property.
- The amounts moved by the wrap (`balance - 0.006 SOL`) are abstracted to the
  threshold. A balance that changes between the read and the landing is
  listed as a hazard without a property.
- The instruction builders of `instruction.rs` wrap `pack` in a list of
  account metas. The codec model covers `pack`. The account lists of
  `initialize_amm_pool` and `swap_base_in`, the two the modes call, are in
  `PoolBundle`, where they decide the transaction size; the others are
  called by no mode.
- Each mode lists the folders and lets the user pick one again.
  `PoolBundle` takes the table's wallets as the constant `TableWallets`. A
  pool launched with a folder the table was not built for compiles each
  swap's token accounts in full; with none of them in the table, 4 swaps
  and the tip fit in a packet and 5 do not. This is listed as a hazard.
- `pool_main` writes the pool keys to `mintor_settings.json`, a file that
  no mode reads (`load_minter_settings` reads `settings.json`), so the write
  is left out.
- Of `settings.json`, only the RPC URL, whether the typed keys are set, and
  `LUT-KEY` are modelled. The block-engine URL, `POOL-ID` and
  `VOLUME-LUT-KEY` are never prompted for and are carried over as they are.
  The values the user types are valid keys, or the prompt is interrupted.
