------------------------------- MODULE Wallet -------------------------------
(***************************************************************************)
(* The wallet (wallit): its database of unspent and spent outputs, the     *)
(* transactions it freezes coins for and may or may not send, and its two  *)
(* goroutines that take transactions and heights from the chain hook over  *)
(* channels of one slot each.                                              *)
(*                                                                         *)
(* A transaction is a record of the outpoints it spends and of who owns    *)
(* its outputs; an outpoint is <<transaction, index>>.                     *)
(***************************************************************************)
EXTENDS Integers, Sequences, FiniteSets, SequencesExt

CONSTANTS
  Me,        \* owner of the outputs that pay this wallet
  Other,     \* owner of every other output
  MaxSend    \* how many transactions the user prepares

VARIABLES
  utxos,     \* BKToutpoint: outpoint -> height (0: unconfirmed)
  stxos,     \* BKTStxos: outpoints spent
  frozen,    \* FreezeSet: outpoint -> the transaction that wants it
  sends,     \* transactions prepared so far
  sync,      \* KEYTipHeight
  prev,      \* HeightHandler's prevHeight
  txUp,      \* the channel of transactions from the hook
  heightUp,  \* the channel of heights from the hook
  tracked,   \* the hook's TrackingOPs
  TxMap,     \* the hook's TxMap: transactions to send when asked for them
  toNode,    \* outMsgQueue: messages to the full node
  setup,     \* how far NewWallit is with telling the hook: "hook", "addresses", "ready"
  missed     \* history: a height is saved for which a transaction was not, or too late

wallet == <<utxos, stxos, frozen, sends, sync, prev, setup, missed>>
Slots == 1                       \* capacity of the two channels

Outpoints(tx) == {<<tx, i>> : i \in DOMAIN tx.outs}
Mine(tx) == {<<tx, i>> : i \in {j \in DOMAIN tx.outs : tx.outs[j] = Me}}

-----------------------------------------------------------------------------
(* The database                                                             *)

\* What Ingest gains: our outputs that the database does not know as spent,
\* with the height of this sighting.
Gain_SpentToo(u, tx, height) ==
  [op \in DOMAIN u \cup Mine(tx) |-> IF op \in Mine(tx) THEN height ELSE u[op]]
Gain(u, tx, height) ==
  [op \in DOMAIN u \cup (Mine(tx) \ stxos) |-> IF op \in Mine(tx) THEN height ELSE u[op]]

Lose(u, tx) == [op \in DOMAIN u \ tx.ins |-> u[op]]

\* Gains first, then losses; a gained output is registered with the hook.
Ingest(tx, height) ==
  LET gained == Gain(utxos, tx, height) IN
  /\ utxos' = Lose(gained, tx)
  /\ stxos' = stxos \cup (tx.ins \cap DOMAIN gained)
  /\ tracked' = tracked \cup (DOMAIN gained \ DOMAIN utxos)

\* Outputs above the height are gone; spent ones do not come back.
RollBack_Inclusive(h) == [op \in {o \in DOMAIN utxos : utxos[o] <= h + 1} |-> utxos[op]]
RollBack(h) == [op \in {o \in DOMAIN utxos : utxos[o] <= h} |-> utxos[op]]

-----------------------------------------------------------------------------
(* The two goroutines                                                       *)

WalletTxHandler ==
  /\ setup = "ready" /\ txUp # <<>>
  /\ Ingest(Head(txUp).tx, Head(txUp).height)
  /\ txUp' = Tail(txUp)
  /\ UNCHANGED <<frozen, sends, sync, prev, setup, heightUp, toNode, TxMap, missed>>

HeightHandler ==
  LET h == Head(heightUp) IN
  /\ setup = "ready" /\ heightUp # <<>>
  /\ utxos' = IF h < prev THEN RollBack(h) ELSE utxos
  /\ sync' = h
  /\ prev' = h
  /\ heightUp' = Tail(heightUp)
  /\ missed' = (missed \/ (h < prev /\ \E i \in DOMAIN txUp : txUp[i].height > h))
  /\ UNCHANGED <<stxos, frozen, sends, setup, txUp, tracked, toNode, TxMap>>

-----------------------------------------------------------------------------
(* Sending                                                                  *)

\* One coin in, a payment and perhaps our change out
NewSend(op, outs) == [n |-> Len(sends) + 1, ins |-> {op}, outs |-> outs]

\* The coins PickUtxos may use
Candidates == DOMAIN utxos \ DOMAIN frozen

\* Prepare a transaction and freeze its coins.
MaybeSend ==
  /\ setup = "ready" /\ Len(sends) < MaxSend
  /\ \E op \in Candidates, outs \in {<<Other>>, <<Other, Me>>} :
       LET tx == NewSend(op, outs) IN
       /\ frozen' = [o \in DOMAIN frozen \cup {op} |-> IF o = op THEN tx ELSE frozen[o]]
       /\ sends' = Append(sends, tx)
  /\ UNCHANGED <<utxos, stxos, sync, prev, setup, txUp, heightUp, tracked, toNode, TxMap, missed>>

FindFreezeTx_Forgets(tx) == tx.ins
FindFreezeTx(tx) == {op \in DOMAIN frozen : frozen[op] = tx}
Thaw(tx) == [op \in DOMAIN frozen \ tx.ins |-> frozen[op]]

\* SignMyInputs leaves alone the inputs the database does not hold.
SignMyInputs(tx) == [tx |-> tx, signed |-> tx.ins \subseteq DOMAIN utxos]

\* The hook keeps the transaction, and announces it.
PushTx(signed) ==
  /\ TxMap' = TxMap \cup {signed}
  /\ toNode' = Append(toNode, [type |-> "inv", tx |-> signed.tx])

\* Sign, put into the database as unconfirmed, announce.
ReallySend(tx) ==
  /\ FindFreezeTx(tx) # {}
  /\ frozen' = Thaw(tx)
  /\ Ingest(tx, 0)
  /\ PushTx(SignMyInputs(tx))
  /\ UNCHANGED <<sends, sync, prev, setup, txUp, heightUp, missed>>

NahDontSend(tx) ==
  /\ FindFreezeTx(tx) # {}
  /\ frozen' = Thaw(tx)
  /\ UNCHANGED <<utxos, stxos, sends, sync, prev, setup, txUp, heightUp, tracked, toNode, TxMap, missed>>

\* The process starts anew: what was frozen, and what waited in the channels, is
\* gone; the database stays.  The new hook runs before it knows what to look for.
WalletRestart ==
  /\ missed' = (missed \/ txUp # <<>> \/ heightUp # <<>>)
  /\ frozen' = <<>> /\ prev' = 0 /\ txUp' = <<>> /\ heightUp' = <<>>
  /\ setup' = "hook" /\ tracked' = {} /\ TxMap' = {}
  /\ UNCHANGED <<utxos, stxos, sends, sync>>

\* NewWallit, behind the hook's back: the addresses, the coins of the database
\* one by one, and only then the two goroutines.
RegisterAddresses ==
  /\ setup = "hook" /\ setup' = "addresses"
  /\ UNCHANGED tracked
RegisterOutPoint(op) ==
  /\ setup = "addresses" /\ tracked' = tracked \cup {op}
  /\ UNCHANGED setup
StartHandlers ==
  /\ setup = "addresses" /\ DOMAIN utxos \subseteq tracked /\ setup' = "ready"
  /\ UNCHANGED tracked
NewWallit ==
  /\ RegisterAddresses \/ (\E op \in DOMAIN utxos \ tracked : RegisterOutPoint(op)) \/ StartHandlers
  /\ UNCHANGED <<utxos, stxos, frozen, sends, sync, prev, txUp, heightUp, toNode, TxMap, missed>>

\* Of a new wallet nobody knows an address before it has told the hook.
WalletInit ==
  /\ utxos = <<>> /\ stxos = {} /\ frozen = <<>> /\ sends = <<>> /\ setup = "ready"
  /\ txUp = <<>> /\ heightUp = <<>> /\ tracked = {} /\ toNode = <<>> /\ TxMap = {} /\ missed = FALSE
=============================================================================
