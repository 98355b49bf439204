# A formal model of lit

This directory holds TLA+ modules that model `lit` (a Lightning node in Go):
its payment channels from funding to close, payments over several of them,
discreet log contracts, the watchtower, the wallet and its SPV client, and the
encodings and scripts underneath. TLC checks the modules on small instances;
TLAPS checks the proofs. Source paths below are relative to the repository.

## 1. The system

| Part | Source | State it keeps | Operations | Modules |
|---|---|---|---|---|
| Push and pull | `qln/pushpull.go` | `StatCom` on disk; per instance a mutex, the one-slot channel `ClearToSend`, a copy of the state | `PushChannel`, handlers for DeltaSig, GapSigRev, SigRev, Rev, `FailChannel` | `Qchan`, `PushPull`, `Ledger` |
| HTLCs in a channel | `qln/htlc.go` | `StatCom.HTLCs`, `InProgHTLC`, `CollidingHTLC`, collision flags | `OfferHTLC`, `HashSigHandler`, `ClearHTLC`, `PreimageSigHandler`, claims | `HtlcChannel`, `Pay` |
| Transactions, signatures | `qln/buildtx.go`, `signtx.go`, `elkpoints.go` | none | `BuildStateTxs`, `SignState`, `VerifySigs`, `AdvanceElkrem` | `Qchan`, `LitScript` |
| Storage, dispatch | `qln/lnchannels.go`, `serdes.go`, `lndb.go`, `msghandler.go`, `eventhandlers.go` | the channel record in bolt; instances per peer | reload, save, `PopulateQchanMap`, outpoint and height events | `PushPull`, `Fund` |
| Funding | `qln/fund.go`, `dualfund.go` | one `InProg` and one `InProgDual` record per node | point request and response, description, ack, proof, and their dual versions | `Fund` |
| Closing | `qln/break.go`, `close.go` | `CloseData` | `BreakChannel`, `CoopClose`, `CloseReqHandler`, `GetCloseTxos` | `CloseChannel` |
| Revocation tree | `elkrem/` | sender: a root; receiver: a stack of nodes | `AtIndex`, `AddNext`, `UpTo` | `Elkrem`, `ElkremStore` |
| Justice, watchtower | `qln/justicetx.go`, `watchtower/` | one signature per old state; the tower's receivers and txids | `BuildJusticeSig`, `SyncWatch`, tower messages, matching of blocks | `Tower` |
| Multi-hop payments | `qln/multihop.go` | `InProgMultihop` | request, ack, setup along the path, preimage relay, timeouts | `Pay` |
| Routing | `qln/routing.go`, `heap.go` | links and rates heard of | `FindPath` | `Routing` |
| Contracts | `qln/dlc.go`, `dlc/`, `lnutil/dlclib.go` | contracts and their status | draft, offer, accept, fund, settle, claim | `Dlc` |
| Wallet | `wallit/`, `portxo/` | utxos, stxos, frozen coins, sync height | ingest, roll back, send in two steps, coin selection | `Wallet`, `Coins` |
| SPV client | `uspv/` | header file, filters, block queue, wait flag | header sync, reorganisation, merkle blocks, broadcast | `Spv`, `Merkle` |
| Encodings | `lnutil/msglib.go`, `wire/`, `portxo/portxo.go` | none | write and read of every message | `Codec`, `LitMsg`, `BtcMsg` |
| Scripts | `lnutil/lnlib.go`, `btcutil/txscript/` | the engine's stacks | lit's scripts and witnesses, the opcodes | `Script`, `LitScript` |
| Event bus, databases of peers, p2p, transport, RPC, front ends | `eventbus/`, `db/`, `lnp2p/`, `lndc/`, `litrpc/`, `cmd/` | connections, handlers, peers | used by the parts above | none |

How they interact. An RPC call runs `PushChannel` (or an HTLC operation) in a
goroutine of its own; it takes the token out of the instance's `ClearToSend`,
saves the pending operation, sends a message and waits for the token to come
back. The peer's handlers run one at a time. Each reloads the state from disk,
checks the message, *saves the new state and only then answers*. A connection
that breaks loses what is in flight; on reconnect both nodes make new
instances, each with a mutex of its own, whose tokens know nothing of the update
that was under way; a call of the user keeps the instance it was given
(`litrpc/chancmds.go:376`). The
wallet reports confirmations, spends and heights, which rewrite the same channel
record, close channels and time HTLCs out; the wallet in turn is fed by the SPV
client over two channels, one for transactions and one for heights. Preimages
learnt in one channel are carried to the others by goroutines.

What is hard. Operations that cross on the wire; timeouts racing answers;
messages lost between the two saves of two nodes; restarts; a handler blocked on
a one-slot channel; records read, changed and written back under no lock, or
under the lock of an instance nobody else uses any more; one
`InProg` record for all fundings; heights overtaking transactions; goroutines
that try once. `PROJECT.json` lists these hazards with the line where each bites
and the properties that watch it.

What makes it correct:
- no node holds a state it has revoked, unless one save has undone another, and
  the state it holds can be broadcast;
- money is moved once, and only when the peer holds it; at rest both databases
  agree, on balances, HTLCs and keys;
- a funded channel can be refunded, a close pays what was confirmed, and what
  the chain pays is collected;
- a hop that pays gets paid; HTLCs and contracts end;
- the wallet's coins are those of the chain, and what it sends is valid;
- what is written can be read, and what is locked can be spent by its owners and
  by nobody else.

## 2. The modules

Data is symbolic: an elkrem hash is its index (or, in `Elkrem`, a way down from
a root), a signature is the transaction it signs, a verification is an equality
of transactions, a key is a name. A wrong index, point or amount in any signing
or checking path is therefore a failed verification, as it is in the code. A
handler is one step where the code runs it under the instance's mutex; what runs
concurrently with it is a step of its own. A call of the user is one step between
two waits while nobody uses another instance, and several otherwise.

**`Qchan`** (no variables): the state record, the transaction a state stands for,
and what each handler makes of a state.

**`PushPull`**: these functions between two nodes. Variables: `disk` and `closed`
(the channel records), `gen`, `cts`, `fill`, `inited`, `stuck`, `failed` (the
instances in memory: which is current, which hold their token, whose goroutine
has not run, whether the first message of the connection was seen, where a
handler blocks, whose copy says Failed), `call` (user calls, each with its
instance and, in `seen`, the state it has reloaded and not saved yet), `net`
(ordered messages), `saving` (records read but not yet written back), histories
`revoked`, `bcast` and `raced` (nodes where a save has undone another).

| Action | Code |
|---|---|
| `PushStart`, `PushRefused`, `PushNotAtRest`, `PushSend`, `PushDone`, `PushTimeout` | the paths through `PushChannel`; the calls are made by the RPC `Push` |
| `CallReload`, `FailSave` | the same paths in two parts: a call, or its `FailChannel`, reloads the state (`pushpull.go:141`, `htlc.go:415`, `pushpull.go:1064`) and saves what it makes of it later (`pushpull.go:209`, `htlc.go:482`, `pushpull.go:1066`) |
| `DeltaSigHandler`, `GapSigRevHandler`, `SigRevHandler`, `RevHandler` | the handlers, each whole: reload, checks, save, answer, token |
| `FirstMessage`, `FillClearToSend` | repopulation in `makeNeoOmniHandler`, the goroutine of `NewQchanFromChanData` |
| `Reconnect(S)` | a broken connection; the nodes in `S` also restart |
| `BreakChannel`, `OPEventHandler`, `SaveQChan` | close by broadcast, events of the funding outpoint, the second half of `SaveQchanUtxoData` |

A call has its instance's mutex from reload to save (`Holds`, `Unlocked`). Nobody
else can then write, unless they use another instance: the handlers of the next
connection, or a call made on it (`OtherInstance`); only then is the reload a step
of its own (`LoadState`), and every interleaving of the two is there. What a call
saves over (`CallSave`) may be newer than what it read; or a handler of the new
instance has itself reloaded, saves after the call, and undoes that save. Both are
recorded in `raced`, as is a late write-back of the wallet. `ReloadQchanState` and
`SaveQchanState` (`lndb.go:426-460`) are one step each; that the second reads the
record and writes it back in two database transactions, so that it may also bring
back an old `closed`, is not modelled, and neither is that putting a token back
(`pushpull.go:152`, `:253`) blocks if the goroutine of the instance has filled the
slot in between.

**`Ledger`**: the abstract specification, two books and a push offered, taken by
the other side, settled or withdrawn. A side may offer more than it owns, as
`PushChannel` lets it; the receiver does not take that. `PushPull` implements it under the mapping
in `Books`, until the connection breaks: after that the code promises less, and
`Agreement` and `RevocationSafety` are what is left.

**`HtlcChannel`** extends `PushPull` with the HTLC operations and uses its handlers
for the rest of the exchange. Variables more: `op` (what each call does) and
`height` (of each wallet).

| Action | Code |
|---|---|
| `OfferStart`, `ClearStart` | the RPCs `AddHTLC` and `ClearHTLC`; `ClaimHTLC` and `ClaimHTLCTimeouts`, which call `ClearHTLC` |
| `HRefused`, `HNotAtRest`, `HSend` | the paths through `OfferHTLC` and `ClearHTLC` up to the wait; their reload and save are apart as in `PushPull` |
| `HashSigHandler`, `PreimageSigHandler` | the handlers, each whole |
| `NewBlock(S)` | a block that reaches the wallets in `S` |

An HTLC output carries what its spend looks like, looked up as `BuildStateTxs`
does. The order of two keys, on which crossing offers depend, is the constant
`Above`; `MCHtlcChannel` takes one that puts either side first.

**`CloseChannel`** extends `PushPull` with the end of a channel: `CoopClose` and
`SendCloseReq` (the two halves of `CoopClose`, with pushes in between),
`CloseReqHandler` and `CloseReqPanic`, `Confirm` (the chain takes one of the
transactions that spend the channel), `CloseEvent` and `CloseEventPanic`
(`OPEventHandler` with `GetCloseTxos`). Close requests travel on the same ordered
connection as the other messages: `req` holds them, each with the number of
messages that are still ahead of it, and `Deliver` counts that down (`MoveUp`).

**`Fund`**: two nodes, each with its `InProg`, `InProgDual`, channel map and
database. One action per handler of `fund.go` and `dualfund.go`; the dispatch of
`msghandler.go` decides which handler a ChanDesc, ChanAck or SigProof reaches;
`DualFundingReqDeadlock` and `DualLockTaken` are handlers that meet a mutex
nobody will release.

**`Elkrem`**, **`ElkremStore`**, **`Tower`**: the revocation tree as operators;
the tower's `UpdateChannel`, which extends a receiver and files the txid under
the new state number; and the customer (`Revoked`, `SyncWatch`, `Restart`), the
tower's channel records and its blocks. The channel belongs to a customer that
runs lit's code, or to any node that speaks the messages and may send any hash.
`BlockHandler` finds a watched transaction with or without the output its customer
described (`chase`): `BuildJusticeTx` returns nil for one without
(`justice.go:139-142`), and the caller goes down with it (`watchdb.go:335`).

**`Pay`**: a route of N nodes over channels whose updates are one step
(`HtlcChannel` has their messages). What is modelled is what nodes do between
updates: `PayMultihop`, the request, ack and setup handlers, the goroutines that
offer and claim (`task`), `ClaimHTLCTimeouts` at each block, crashes, failed and
broken channels, wallets up to `Skew` blocks apart. `TimedOut` is what `RevHandler`
makes of an HTLC that timed out: it marks the payment of its hash as succeeded,
with a zero preimage, at the peer, and at the payer too if the timeout crossed an
update (`pushpull.go:1009-1024`).

**`Dlc`**: two nodes with a contract each; setters of a draft, the messages from
offer to proof, `AcceptDlc` as several steps of a goroutine with its own copy,
`SettleContract` with any value of the oracle, and the peer's claim. The division
in float64 (`dlc/contract.go:215-219`) is the exact quotient, except at the points
of the constants `Below` and `Above`, where the cut comes out one lower or higher.

**`Wallet`**, **`Spv`**: the wallet's database, frozen coins and two goroutines;
the hook's header file, block queue and wait flag; an external full node that
mines, reorganises and answers. After a restart the hook runs first
(`wallit/init.go:68`); `NewWallit` then registers the addresses, the outpoints one
by one, and starts the wallet's goroutines (`RegisterAddresses`, `RegisterOutPoint`,
`StartHandlers`; `setup` says how far it is). `LoseConnection` ends the hook's
connection, for a hook with a fixed node (`msghandler.go:20-22`); one that may
take any node connects again, which is not modelled.

**`Codec`**, **`LitMsg`**, **`BtcMsg`**: a message is a list of pieces to put
and a list of pieces to get, written down separately from writer and reader;
widths, var-ints, lists, optional tails and limits are those of the code, the
bytes of a field are symbolic. **`Script`**: the script engine, one operator per
opcode handler. **`LitScript`**: lit's scripts and the witnesses it assembles.
**`Merkle`**, **`Coins`**, **`Routing`**: `checkMBlock` and `calcRoot`,
`PickUtxos`, `FindPath`. **`Algo`** puts all of these to work, one job per
behaviour, and compares them with reference definitions.

`MC...` modules give constants their values for TLC; `..._proofs` hold proofs.

## 3. The runs

| Run | Question | Properties |
|---|---|---|
| `push` | Lost messages, restarts, late answers, unaffordable pushes: and calls that outlive their connection: may a node hold a revoked state, count money that is not final, disagree at rest, or leave the ledger? | `RevocationSafety`, `Final`, `Agreement`, `ImplementsLedger` |
| `chain` | With breaks and late rewrites of the record: is the stored state broadcastable at every moment? | `Breakable`, `TypeOK` |
| `close` | Does a close, by agreement or not, pay what was confirmed, is it collected, does it complete? | `ClosePaysConfirmed`, `CollectsCurrent`, `CloseCompletes` |
| `htlc` | Do offers, claims and pushes that cross fail a channel, block a handler, lose money or never end? | `NeverFails`, `NeverStuck`, `HtlcPaidOnce`, `HtlcCompletes` |
| `htlc_wild` | Timeouts of HTLCs, lagging wallets, clears that pay the other side, a broken connection, restarts: do the databases agree at rest, is a revoked state ever held, does an outcome stay? | `HtlcAgreement`, `RevocationSafety`, `ClearedForGood` |
| `fund` | Fundings that cross, get lost or are routed to the wrong handler: is money ever locked up, do both sides agree, does an undisturbed funding complete? | `FundedRefundable`, `FundAgreement`, `FundCompletes` |
| `tower` | Can every accepted hash be made again, is an honest sender refused, is every watched transaction with the output described punished? | `Recoverable`, `HonestAccepted`, `JusticeServed` |
| `pay` | Can a hop pay and not be paid, is success with a preimage real, does every HTLC end? | `HopNeverLoses`, `SuccessMeansPaid`, `HtlcsResolve` |
| `dlc` | Do both sides hold the contract that was funded, does it settle as drawn, does it get there? | `DlcAgreed`, `SettlesAsDrawn`, `DlcCompletes` |
| `spv` | Does the wallet count what the chain holds, is what it sends valid, does the hook go on listening? | `NoPhantom`, `Balanced`, `SendsAccepted`, `ReturnsToWait` |
| `algo` | Encodings, sizes, scripts, opcodes, merkle proofs, coin selection, routes against reference definitions | `RoundTrip`, `TxSizesRight`, `OwnersCanSpend`, `OnlyOwnersSpend`, `OpcodesAlike`, `MerkleProves`, `PicksCover`, `RouteIsBest` |
| `justice` | Does a node get its money when a revoked state is broadcast? | `CollectsRefund`: no, see below |

Every property of a passing run is broken by a mutant of the code's own
definitions, listed in `PROJECT.json`.

Bounds, and why they are enough.
- `push`, `chain`, `close`: a channel of 20, `MinOutput` 2, fee 1. `push`: both
  sides start with 10 and make one call each, of 3, 6 or 9, and the connection
  breaks once. Pushes of 3 and 6 cross, in every combination; one of 9 leaves the
  payer less than an output, so it cannot be built, and after the other side's 6 it
  can. One break is what a call on an old instance needs; the late reload and save
  of both calls, and of a call that fails its channel, come up. `chain`:
  pushes of 2 and of 8, one break or outpoint event with its late write-back.
  `close`: two pushes of A, a close by B, a break by A. One crossing pair plus
  one more push reaches every branch of the handlers: the protocol keeps no
  state that depends on longer histories than the pending update, the previous
  state and the two elkrem points ahead.
- `htlc`, `htlc_wild`: a channel of 40, HTLCs of 3 (`htlc_wild`: also 2, the
  smallest, which cannot be built), three operations, or in `htlc_wild` two and a
  broken connection (`MaxOps`), at most two HTLCs, one block. Two HTLCs are what
  two crossing offers need. Three operations are
  too few for two claims that cross; what then happens is listed below.
- `fund`: capacities below and above the minimum, payments that leave too little,
  two calls per node, one lost connection or restart: enough for two fundings
  that cross and one whose answer comes after a restart.
- `tower`: a tree of 15 hashes (the code's has 2^48 - 1), filled to the last;
  one watched transaction is mined at any moment, with the output described or
  without. Three levels of parents form. The tower is not started again.
- `pay`: three nodes, one payment of 3 or 4 over channels that carry 4 and 3, a
  lock time of 2 per hop, six blocks, one crash of the middle node, one break.
- `dlc`: stakes of 14 and 16, fee 2, ranges of 22 steps up and down, oracle
  values inside, outside and at the ends, one lost connection, accepted up to
  twice. In float64 30 / 22 * 11 comes to less than 15 and is cut off to 14: that
  is `Below`, and the value 11 of the run meets it.
- `spv`: four blocks, one reorganisation, one restart, one payment in, one send;
  the connection may end at any moment.
- `algo`: named at their definitions in `Algo.tla`: every message with its lists
  empty, short and at their limits, witnesses of up to four items, blocks of up
  to six transactions (a damaged hash may be its sibling's), three coins, four nodes
  in one and two coins, with rates of 1, 10, 100 and 1/10.

Deadlock is not checked where users stop after their bounded calls: the system
may then rest. In `pay` blocks keep coming, and it is checked.

Fairness. The Go scheduler runs a goroutine that can run, and a connection that
holds delivers: weak fairness of handlers and goroutines everywhere (`CSpec`,
`FundSpec`, `PFair`, `DSpec`, `SSpec`), and none of users, crashes or lost
connections. Strong fairness in two places: a call that polls `ClearToSend` under
the mutex (`HFairSpec`), which may find the slot empty again and again while
others use it but never stops looking; and `NewBlock` in `PFair`, because blocks
keep coming whatever the nodes do in between. `PFair` also has peers reconnect,
which `autoconnect.go` does on a timer.

Refuted: run `justice`. A node that sees a revoked transaction of its peer needs
the hash the peer revealed; the receiver that holds it is not in the saved
record and is replaced by an empty one at every reload, so `ElkPoint` indexes an
empty slice, and the node goes down before it takes even its own refund output.

Also met while modelling. The models have the code's behaviour; the formula named
was refuted by TLC, or the fact is read off a trace. Where a property of section 3
excludes such a case, its definition says so.

Channels:
- `PushChannel`'s balance check has the wrong sign (`pushpull.go:165`), so a push
  may leave the pusher less than `MinOutput`;
- `NeverStuck` fails after a reconnect: `SigRevHandler` sends on the slot of a new
  instance that a goroutine has already filled (`pushpull.go:917`); and when two
  claims cross, because `RevHandler` locks `MultihopMutex` once per cleared HTLC
  with a deferred unlock (`pushpull.go:1013-1014`);
- a node may hold a state it has revoked. A call made on the instance of an earlier
  connection reloads state N (`pushpull.go:141`), the handler of the new instance
  saves N + 1 and reveals the hash of N (`pushpull.go:466-479`), and the call saves N
  with its delta (`pushpull.go:209`): only the old instance's mutex covers it. In
  the same way its timeout (`pushpull.go:243`) and an HTLC operation
  (`htlc.go:415`, `:482`) bring an old state back, the two databases rest on
  different numbers, and an HTLC that was cleared is open again.
  `SaveQchanUtxoData`, which writes back a whole record read before a handler ran
  (`lndb.go:363`), does the same with `SaveRace = TRUE`. `RevocationSafety`,
  `Agreement` and `ClearedForGood` therefore speak of nodes that are not in `raced`;
  without that TLC refutes each;
- `ClosePaysConfirmed` fails after a reconnect: the goroutine of
  `NewQchanFromChanData` (`serdes.go:76-79`) may fill `ClearToSend` while a push is
  under way, `PushChannel` then returns without an error before the peer has
  answered, and a cooperative close leaves the reported push out;
- after a reconnect a DeltaSig that crosses a pending push overwrites the pending
  delta (`pushpull.go:399`), and an HTLC may be offered while another is being
  cleared;
- a channel that failed by timeout is still moved on by the late answer; a node
  that breaks a channel during an update goes on to revoke the state it broadcast;
- when a PreimageSig crosses another operation and its receiver gains the HTLC,
  `SendGapSigRev` counts the amount again (`pushpull.go:527`, `htlc.go:678`) and
  the channel fails;
- spends of HTLC outputs are built and signed for the wrong HTLC once one has been
  cleared, against `buildtx.go:318-321` (the lookup at `buildtx.go:327`);
- a break between HashSig or PreimageSig and the Rev rebuilds a transaction that
  the stored signature does not sign (`break.go:41`): `Breakable` holds for pushes
  and not for HTLCs;
- a DeltaSig that crosses an HTLC offer does not leave its amount in `Delta`
  (`pushpull.go:397`); a PreimageSig dropped because the wallet lags takes the
  token with it (`htlc.go:616`); an offer of exactly `MinOutput` cannot be built
  and fails the channel (`buildtx.go:286`).

Funding and closing:
- a dual funding never completes: the initiator's HTLC bases are never set, so the
  first signature does not verify; several error returns leave `InProgDual`'s
  mutex locked, and `DualFundingReqHandler` declines while it holds it;
- ChanDesc, ChanAck and SigProof of a single funding reach the dual handlers while
  a dual one is pending (`msghandler.go:178`); `InProg` stays set after a lost
  message until a restart; crossing fundings overwrite each other's index;
- `CoopClose` looks neither at `Delta` nor at `Failed`, and saves the channel as
  closed before it sends, after which `BreakChannel` refuses (`close.go:69`);
- a close request with a bad signature brings the node down (`close.go:159`); a
  node's own break of state 0 is never collected; the comment at `close.go:507`
  ("Also grab HTLCs. They are mine now too :)") is out of reach for the same
  reason as `justice`.

Tower:
- a customer that runs lit gets no further than the description of the channel:
  from state 2 on the Watch command asks the empty receiver; `DeleteChannel` does
  nothing;
- the txid of a transaction that has no output as described brings the tower down
  when it is mined (`watchdb.go:335`, `justice.go:139`): any customer may send one.

Payments and routing:
- a claim that fails is not tried again; a hop cannot time out an HTLC while its
  next peer is away; a timeout that reaches a lagging wallet fails the channel; a
  payment that timed out is marked Succeeded with a zero preimage at receiver and
  hop, and by the payer itself when its timeout crosses a push or an HTLC operation
  of the peer (`pushpull.go:1009-1019`); an Ack is matched to the first pending
  request;
- rates of 10 there and 1/10 back are reported as a negative cycle: the float64
  logarithms sum to -4.4e-16 (`routing.go:170-177`, `:323-327`), so `FindPath` gives
  up on a cycle that gains nothing. `RouteIsBest` says that it gives up only where a
  way round gains or is even;
- the search expands a node with its newest distance and the amount it had when
  it was pushed (`routing.go:404`): in one coin the route is right, with several
  the capacity test may use an old amount;
- `README.md:158` says that lit "Doesn't do multihop yet".

Contracts:
- a settlement in which one share is below the fee is built differently by the two
  sides (`lnutil/dlclib.go:457`), against the comment "Settlement TX should be
  valid here" (`qln/dlc.go:605`); two calls of `AcceptDlc` race; the coins it picks
  are not frozen (`qln/dlc.go:514`), and the wallet may spend them first.

Wallet and chain:
- a roll-back may overtake a transaction of the branch it undoes and leave a coin
  that does not exist; after a restart the previous height is 0 and a
  reorganisation is not noticed (`wallit/init.go:129`); a height is saved before
  the transactions of its block are; the hook started by `NewWallit` ingests blocks
  before it knows the wallet's addresses (`wallit/init.go:68`, `:88-93`), and what
  such a block pays the wallet is missed for good; `RollBack` does not bring spent outputs back;
- the hook may enter the wait state behind the node's tip, when a block is
  announced while it asks for headers (`eight333.go:208-211`, `hardmode.go:222-225`),
  and learns of it with the next block;
- a transaction on its way to the node when lit goes down is lost: `TxMap` is in
  memory only (`chainhook.go:114`, `:172`) and nothing sends it again (the TODO at
  `wallit/dbio.go:423`), so those that spend its change are refused later;
- `IngestHeaders` writes over a branch and leaves a header of zeroes behind the last
  one kept; after a restart below it the hook asks for the block of that header, which
  no node has, and waits. A connection to a fixed node that ends is not made again
  (`uspv/msghandler.go:15-24`). `ReturnsToWait` names both as exceptions; the first
  takes more blocks than the run mines.
- in a merkle block two siblings with the same hash have no parent
  (`mblock.go:15-18`), and `checkMBlock` may then index below its stack
  (`mblock.go:106`) and panic.

Encodings and scripts:
- minimal lengths that readers check are smaller than what they then read; an
  empty chat message and a DlcAck without outcomes are refused; WatchDelMsg is
  written but not read; a `PorTxo` of more than 1024 bytes is written and not read;
- the engine has no CHECKSEQUENCEVERIFY, which a commitment's delay needs, and under
  `StandardVerifyFlags` it would refuse the opcode as an upgradable NOP.

## 4. The proofs

Eight modules hold theorems, each for every value of the constants that the named
assumptions of its component admit. Twenty-five results are listed in
`PROJECT.json`; the rest are steps towards them.

**`PushPull_proofs`** (assumptions `ValueAssumption`, `NoRAssumption`,
`NodeAssumption`, `BoundAssumption`, and `FundingAssumption`, which is what
`FundChannel` checks): `TypeCorrect`, `AlwaysBreakable` (`Breakable`) and
`RevokedStatesAreGone` (`RevocationSafety`). All three follow from one inductive invariant `Inv`:
- `Types`, the type invariant with the HTLC fields of every state empty
  (`PlainCom`). Without it the sums over HTLCs in a transaction would need an
  induction over sequences;
- `GenBound`, at most two instances per connection, needed for the type of
  `gen`; `CallGen`, a call under way has an instance, no newer than the one in use,
  and what it has reloaded is a state with a good signature; in the first connection
  it reloads nothing ahead of its save;
- `AllSigned`, `Breakable` also of the records in `saving`: a late write-back
  brings an old state to disk, but one that had a good signature when it was
  read;
- `Revocations`: where no save has undone another, the database is past every
  revoked state; without late write-backs none has in the first connection.

A save over the very state that was read is one step forward; a save over another
is in `raced`, and nothing more is claimed of that node.

Lemmas `Plain...` say what each state function of `Qchan` makes of a plain
state; `SignedVerified` carries a signature verified by a handler over to the
state it saves; `Successor` and `Reveals` state what a handler may write and
what it may reveal; `...Answers` show that each handler does only that; and
there is one lemma per action for the invariant. The history variable `revoked`
grows only by indexes below the state just saved, and that is the whole of the
"save first, then revoke" discipline.

The second part of the module relates the two databases through the messages
between them: `RestingSidesAgree` (`Agreement`),
`OldStatesAreRevoked` (`raced = {} => Final`) and `PushesKeepTheLedger` (the refinement
`ImplementsLedger`, under `~SaveRace`), because a save that undoes another brings an
old state back. TLC finds `Final` to hold in the run without that condition. The
invariant `PairInv`, also for `raced = {}`, says that the pair of stored states, with
the messages on their way, is in one of twelve stages of an update: no push,
one, two that cross, taken, answered, half revoked, and the forms these keep
after a break has lost the messages. What it does not mention is what makes it
inductive: which signatures are good, who holds a token and whether a message
will be accepted do not matter, since a handler that refuses leaves the record
alone, and a record left alone with fewer messages is a stage as well. Parts
added to the stages: `PointsKnown` ties the elkrem points to the state number,
`Letters` says that every revocation on its way is one the sender has made, and
`Received` that a node has the revocation of every state whose point it has left;
they give `Final`. `TokensSpent` says that while the
connection lasts a node with a push under way has no token, so a second call
cannot overwrite it; only the ledger needs it. `Wedged` stages, from which the
two sides do not come back, occur only after a break. The refinement is then
shown as the code's steps allow: the initial state maps to `LedgerInit`, and
each action, handler by handler, is a ledger step or leaves the books alone
until `conns` grows.

Two more results say that nothing goes wrong on the way.
`HandlersNeverBlock` (`NeverStuck`): while a push is pending the slot of its
instance is empty (`TokensSpent`), and a handler gives the token back only as it
settles one. `FittingPushesNeverFail` (`NeverFails`) needs every check of every
handler to pass, so its invariant `FitInv` ties the messages to the stages: in
each one the signature that is on its way is that of the transaction its receiver
will build, and the collision flags are those the peer expects. It is proved for
behaviours in which both balances always stay above `MinOutput` and the fee
(`Fitting`): `PushChannel` lets a user push more than that, and the peer then
fails the channel, as it should. Calls that time out, closes and broken connections
end the promise (`Undisturbed`), as they fail or replace instances themselves.
Both are about pushes; with HTLCs the properties are model-checked.

**`Close_proofs`** (the assumptions of `PushPull` and `CoopAssumption`).
`CurrentStateCollected` (`CollectsCurrent`) is an action property: when a wallet
first hears of the spend, the transaction is one that `pool` can hold (`CloseTypes`,
`CInv`) and its state hint sends `GetCloseTxos` down the right path.
`ClosesPayConfirmed` (`ClosePaysConfirmed`) relates a close to all the calls that
were ever made, while updates and close requests cross. Its invariant `CPair`, on
top of `PairInv`:
- `Tallied`: of each node's pushes some are settled, all that were reported as done
  among them, and at most one, that of its stored state, is pending; its book is its
  opening balance, less its settled pushes and plus the peer's, with the peer's
  pending push once it has been taken. For the sums the module first shows what the
  fold behind `PushSum` computes: a function with its recursion exists and is unique
  on the subsets of a finite set, by induction over their size (`Sums`), and a call
  that joins a set adds its amount;
- `Asked`: whoever sent a close request has closed, and nothing that could settle a
  push of the receiver comes behind that request (`Behind`), since a closed node
  answers nothing more (`Calm`);
- `Frozen`: once the request was answered both nodes are closed, and the answering
  node's book no longer moves; the transaction pays what it says.

**`Htlc_proofs`** (the assumptions of `PushPull` and `HtlcAssumption`):
`RevokedStatesAreGone` (`RevocationSafety` of `HtlcChannel`) and `OutcomesStay`
(`ClearedForGood`). Neither result depends on amounts, on
signatures or on what the peer does, so the invariant leaves all of that out: it
gives a record, stored, reloaded by a call or waiting to be written back, its fields
and its list of HTLCs, and says that the database of a node outside `raced` is past
every revoked state. The core is one relation, `Follows(st, new)`: the number
of `new` is not smaller than that of `st`, and an HTLC that `st` has cleared is
cleared in `new`, at the same place and with the same preimage. Small lemmas show
it of every operation on a state (`SetClearing`, `MarkCleared`, the collision
marks, the points, appending an HTLC) and compose them to what each handler and
each call makes of the state it read, on both paths of a collision; `Forward` says
it of a step on the nodes where no save is undone, with the revocations limited to
the state before the saved one.

**`Fund_proofs`** (`FundAssumption`): `BroadcastIsRefundable`
(`FundedRefundable`) and `SignedSidesAgree` (`FundAgreement`). The builder of a
funding transaction saves its channel once, under a serial number it has not
used before, and of that record only the signature and the failed mark ever
change. Every message about the channel, and every record of the peer, is tied
to that one record (`Fits`), whichever handler it was routed to. The delicate
part are outpoints whose script does not pay to the keys the builder saved: they
can come up when a dual funding and a single one share a slot, and what keeps
them from being acknowledged is that a dual initiator's description carries no
bases, so the first signature on them does not verify.

**`Pay_proofs`** (`PayAssumption`): `HopsAreCovered` (`HopNeverLoses`) and
`CompletedIsPaid` (`SuccessMeansPaid`), for routes of any length. The assumption
is that a hop's margin `DefaultLockTime` is at least what a claim may be late
(`Slack`), how far wallets may be apart (`Skew`) and one block per crash, since a
node may miss the height event it was handling when it went down; with more
crashes than that a hop really can lose. Heights stay below `Wrap`, where the
code's 32-bit subtraction would turn over. The invariant:
- `OneAtATime`: what carries a hash at a node is one message, one goroutine or
  one HTLC, so that an HTLC is never written over;
- lock times fall by the margin at each hop, for messages, goroutines and HTLCs
  alike; a locked HTLC that no failure has touched is not past its lock time by
  more than the crashes so far; a claim that waits keeps the heights below the
  lock time of the incoming HTLC;
- `Downstream`: what is paid at one hop is paid at all later ones. Where the
  argument walks along the route it takes the least hop of which it fails;
- `Entries`: what is listed with a preimage was paid, and what the payer lists with
  a zero one has been taken back by the payer, for good: its hash is not used again.

**`Dlc_proofs`** (`DlcAssumption`): `FundingIsAgreed` (`DlcAgreed`) and
`SettledAsDrawn` (`SettlesAsDrawn`). Once made, the offer does not change, and
B's contract, the copies its goroutines work on and every message they send are
its mirror image. As long as B has accepted once, what it filled in does not
change after it was sent, and acknowledgement, signatures and chain all carry
the one funding transaction: `DlcAgreed` is stated for that case, and TLC refutes
it for two racing calls. `SettlesAsDrawn` needs no such condition: the settlement
B signs for an oracle value is the one A builds, whatever was accepted how often.
The shares are those of the range to within one unit: `Below` and `Above` are any
sets of points, and `CutNear` bounds what they do to a share, so the result does not
depend on where float64 rounds which way, as long as it is off by less than one.

**`Tower_proofs`** (`TreeAssumption`, `CustomerAssumption`), for trees of every
height, any set of roots and any sender: `HeightsAlwaysFall`, `NothingIsLost`
(`Recoverable`), `HonestIsAccepted` (`HonestAccepted`) and `RevokedArePunished`
(`JusticeServed`). A descent of the tree is a function that refers to itself, so
the module first shows what such functions compute: `Least`, `Induction` and
`Iterates` are induction and recursion over sets of numbers, from the well-founded
order of `Nat`. Then two inductive invariants:
- `ElkInv`: each node of the stack is the root of a subtree that starts after the
  node below it (`Stacked`), the heights fall (`HeightsFall`), and each node makes
  every hash that was given for its subtree (`Makes`). A parent that fits has its
  children's hashes one turn away (`DescendChild`), so what is thrown away with
  them is not lost. `Recoverable` says only that the right node is looked at.
- `Placed`, for an honest sender: every node of the stack hangs to the left of the
  way from the root down to the next index, or is a child of the next node itself
  (`Beside`). The `Way...` lemmas say how such ways narrow, where they end and how
  far two of them agree. `ParentHere` and `LeafHere` conclude that the top two
  heights are equal exactly when the next node is their parent, which is what
  AddNext takes for granted; the bound on the stack follows from the heights.

`JusticeServed` then needs little more: the only way to bring the tower down is a
`BuildJusticeTx` that fails, and `Recoverable` says that it does not for a
transaction that has the output described.
`HeightsFall` is not in a run of its own: the theorem answers it for every instance.

**`Spv_proofs`** (`SpvAssumption`; `PaymentAssumption`, that the spends of others are
left out): `CountsWhatIsMined` (`NoPhantom`), `CountsAllThatIsMined` (`Balanced`) and
`WhatIsSentIsTaken` (`SendsAccepted`).
The invariant `Inv` of the first has two halves. One is the
hook's cycle: at most one question for headers or answer to it is under way, none while
a handler works or blocks are asked for (`Cycle`, `Handler`), and blocks are queued and
handed up in the order of their heights (`QueueOK`). The other, `Chained`, says that
there is a chain of the node's blocks which the header file holds, but for the holes of
earlier reorganisations (`FileOK`), and in which every confirmed coin, and every
transaction on its way up, is in the block of its height (`Counts`). That chain need not
be the best one, and `Reorganised` changes it for another: what then no longer fits is
`Doomed`, above a height that waits in the channel and below the previous one. At rest
the file ends in the best block and a block determines its chain (`OnePath`), so the
chain is the best one; `MinedOnce` makes the height unique. After a reorganisation and a
restart the claim is false (section 3), and without the reorganisation `Linear`
takes the place of what `prev` forgot.

`Balanced` needs, besides `Inv`, that nothing is lost: `More`. Of every transaction in
a block handed up, the coins that are ours are in the database at the height of the
block, or spent, or the transaction is in the channel (`Complete`). Three things could
undo that. A block could be skipped: so the heights asked for, on their way, in the queue
and ingested follow each other without a gap (`Punctual`, `Expected`), and messages keep
their order (`Lined`). An announced transaction could be stored with height 0 after its
block was: so it is seen before its block, from the announcement to the channel
(`Early`), which the order of the two queues gives. A coin could be marked as spent by a
transaction that is not the user's, or spent twice: so each send has a number and a coin
of its own, and leaves only when the user says so (`Names`, `Fresh`). After a restart all
of it is empty, and `sync` is the height up to which the database is complete. The
steps of `NewWallit` change nothing of this (`Otherwise`); a payment that the hook
passes over before it knows the addresses sets `missed`, as do a height that overtakes
a transaction and a restart that loses one, and nothing more is claimed then.

`SendsAccepted` needs a third part, `Sending`, about what the user sends on its way to
the node: announced, asked for, and sent. It goes out in an order in which nothing
precedes what it spends (`InTurn`), so that no transaction arrives before its coins do.
Its coins are the user's, are booked as spent, and come from what the node has, what is
itself on its way, or what was lost (`Leaving`); no two of these transactions share a
coin (`Once`); a coin still frozen is in the database, and its transaction has not left
(`Held`). What is announced is in `TxMap`, signed (`Ready`). A restart empties the queues
and `TxMap`, but not the bookings: a transaction lost there stays lost, and `Refused`
says that only what spends its change is turned down.

Only model-checked:
- liveness (`CloseCompletes`, `HtlcCompletes`, `FundCompletes`, `HtlcsResolve`,
  `DlcCompletes`, `ReturnsToWait`): fairness and ENABLED are out of the prover's
  reach;
- HTLCs in a channel: `HtlcAgreement` and `HtlcPaidOnce`, the latter a sum over
  sequences of HTLCs; `NeverFails` and `NeverStuck` with HTLCs, which hold for the
  bounded calls of the run and not beyond;
- all of `Algo`, whose modules use RECURSIVE operators.


## 5. What is not modelled

- Cryptography: ECDSA, key derivation, hashes; signature encodings and sighash
  types. A break of them is outside every model here.
- The full-node library `btcutil/blockchain`, which lit carries but does not run,
  and the arithmetic of `crypto/koblitz`.
- Proof of work and difficulty in `uspv/header.go`; DNS seeds; the insight hook.
- The gossip of links (`LinkMsgHandler`, `advertiseLinks`, `cleanStaleChannels`):
  `Routing` starts from a set of links. It takes at most one channel per pair and
  coin, and rates that are powers of ten, so that prices can be compared exactly; of
  float64 it has what the logarithms of 10 and 100 and of their reciprocals round to,
  in whole units, not the rounding of any other rate.
- HTLC outputs of a channel that is closed: in `Pay` a claim on chain is one step,
  in `CloseChannel` channels have no HTLCs. The two saves of `HashSigHandler` as
  separate steps; errors of the database itself; `ReSendMsg`, which nothing calls.
- Event bus, peer database, remote control, p2p layer, transport, RPC and front
  ends: used, and represented by their effect (an ordered connection that may
  break, calls made in any order).

`PROJECT.json` gives each component its status and reason.

## 6. Plan

1. A theorem: `HtlcAgreement` of `HtlcChannel`.
2. `CloseChannel` on top of `HtlcChannel`: HTLC outputs on chain, their claims and
   the breaks of channels that have them.
3. `Gossip`: link advertisements, their age and sequence numbers, composed with
   `Routing`.

Runs are kept few, one for each question; a question of this plan replaces a run
whose answer is by then a theorem.
