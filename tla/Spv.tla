-------------------------------- MODULE Spv --------------------------------
(***************************************************************************)
(* The chain hook (uspv) of a wallet and the full node it talks to: header *)
(* sync, reorganisations, the queue of requested blocks, unconfirmed       *)
(* transactions, and what of it reaches the wallet.                        *)
(*                                                                         *)
(* The full node is external: it answers in order, announces blocks and    *)
(* transactions, and may change to a longer branch.  The header file is a  *)
(* sequence whose first entry has height StartHeight.                      *)
(***************************************************************************)
EXTENDS Wallet

CONSTANTS
  StartHeight,   \* height of the first header on disk
  Payments,      \* transactions others make that pay this wallet
  MaxBlock,      \* how many blocks the node ever sees
  MaxReorg,      \* how often it changes branch
  MaxRestart,    \* how often lit restarts
  QueueSize      \* capacity of blockQueue

ASSUME SpvAssumption ==
  StartHeight \in Nat \ {0} /\ {MaxBlock, MaxReorg, MaxRestart, MaxSend} \subseteq Nat /\ QueueSize \in Nat \ {0}

\* What payments of others spend is left out.
ASSUME PaymentAssumption == \A tx \in Payments : tx.ins = {}

VARIABLES
  blocks,    \* blocks[i]: the i-th block mined, [prev, txs]; 1 is the first header
  best,      \* the node's best chain, a sequence of blocks
  mempool,   \* transactions the node has, not yet in the best chain
  rejected,  \* transactions of ours the node did not take
  reorgs,    \* branch changes so far
  toSpv,     \* messages from the node
  file,      \* headerFile
  syncHeight,\* height up to which blocks were ingested
  queue,     \* blockQueue
  wait,      \* inWaitState holds a token
  okTxids,   \* OKTxids: transactions announced
  hh,        \* what the HeaderHandler goroutine has to do
  inc,       \* what the incoming handler still has to hand up
  restarts   \* restarts so far

node == <<blocks, best, mempool, rejected, reorgs>>
hook == <<file, syncHeight, queue, wait, okTxids, hh, inc, restarts>>
svars == <<wallet, txUp, heightUp, tracked, TxMap, toNode, node, toSpv, hook>>

Hole == 0                                  \* 80 bytes of zeros in the header file
Idle == <<>>
HeightOf(seq) == StartHeight + Len(seq) - 1
Index(h) == h - StartHeight + 1            \* position in the file of height h

Confirmed == UNION {ToSet(blocks[best[i]].txs) : i \in DOMAIN best}
HeightIn(tx) == StartHeight - 1 + (CHOOSE i \in DOMAIN best : tx \in ToSet(blocks[best[i]].txs))

SInit ==
  /\ WalletInit /\ sync = StartHeight /\ prev = 0
  /\ blocks = << [prev |-> 0, txs |-> <<>>] >>
  /\ best = <<1>> /\ mempool = {} /\ rejected = {} /\ reorgs = 0
  /\ toSpv = << [type |-> "headers", hdrs |-> <<>>] >>   \* the answer to Start's first question
  /\ file = <<1>> /\ syncHeight = StartHeight
  /\ queue = <<>> /\ wait = FALSE /\ okTxids = {} /\ hh = Idle /\ inc = Idle /\ restarts = 0

-----------------------------------------------------------------------------
(* The full node                                                            *)

Tell(m) == toSpv' = Append(toSpv, m)
Connected == \A i \in DOMAIN toSpv : toSpv[i].type # "closed"

\* Outputs of the chain that no transaction of it spends
Unspent(txs) == (UNION {Outpoints(tx) : tx \in txs}) \ (UNION {tx.ins : tx \in txs})

\* Coins a new transaction may spend: confirmed, or made in the mempool
Valid(tx) == tx.ins \subseteq Unspent(Confirmed \cup mempool)

NodePayment(tx) ==
  /\ tx \notin Confirmed \cup mempool
  /\ mempool' = mempool \cup {tx}
  /\ Tell([type |-> "invtx", tx |-> tx])
  /\ UNCHANGED <<wallet, TxMap, txUp, heightUp, tracked, toNode, blocks, best, rejected, reorgs, hook>>

\* A block with transactions of the mempool, those spent before those that spend
Mineable == {s \in UNION {[1 .. n -> mempool] : n \in 0 .. Cardinality(mempool)} :
               /\ IsInjective(s)
               /\ \A i \in DOMAIN s, op \in UNION {tx.ins : tx \in mempool} :
                    (op \in s[i].ins /\ op[1] \in mempool) => \E j \in 1 .. i - 1 : s[j] = op[1]}

NodeMine(txs) ==
  /\ Len(blocks) < MaxBlock
  /\ blocks' = Append(blocks, [prev |-> Last(best), txs |-> txs])
  /\ best' = Append(best, Len(blocks) + 1)
  /\ mempool' = mempool \ ToSet(txs)
  /\ Tell([type |-> "invblock"])
  /\ UNCHANGED <<wallet, TxMap, txUp, heightUp, tracked, toNode, rejected, reorgs, hook>>

\* The last block gives way to two empty ones; its transactions are pending again.
NodeReorg ==
  /\ reorgs < MaxReorg /\ Len(best) > 1 /\ Len(blocks) + 2 <= MaxBlock
  /\ LET n == Len(blocks)  fork == best[Len(best) - 1] IN
     /\ blocks' = blocks \o << [prev |-> fork, txs |-> <<>>], [prev |-> n + 1, txs |-> <<>>] >>
     /\ best' = Front(best) \o << n + 1, n + 2 >>
  /\ mempool' = mempool \cup ToSet(blocks[Last(best)].txs)
  /\ reorgs' = reorgs + 1
  /\ Tell([type |-> "invblock"])
  /\ UNCHANGED <<wallet, TxMap, txUp, heightUp, tracked, toNode, rejected, hook>>

\* The headers after the newest block of the locator that is in the best chain
HeadersAfter(locator) ==
  LET known == {i \in DOMAIN best : i = 1 \/ best[i] \in locator}
      from  == CHOOSE i \in known : \A j \in known : j <= i
  IN  SubSeq(best, from + 1, Len(best))

\* The connection ends.  What the node sent before is still read; the handler
\* of messages then returns, and nothing makes a new connection.
LoseConnection ==
  /\ Connected
  /\ Tell([type |-> "closed"])
  /\ UNCHANGED <<wallet, TxMap, txUp, heightUp, tracked, toNode, node, hook>>

\* No block has the hash of a hole: asked for one, it does not answer.
NodeServe ==
  LET m == Head(toNode) IN
  /\ Connected /\ toNode # <<>>
  /\ toNode' = Tail(toNode)
  /\ IF m.type = "getheaders" THEN Tell([type |-> "headers", hdrs |-> HeadersAfter(m.locator)])
     ELSE IF m.type = "getblock" /\ m.id # Hole THEN Tell([type |-> "block", id |-> m.id])
     ELSE IF m.type = "gettx" THEN Tell([type |-> "tx", tx |-> m.tx])
     ELSE IF m.type = "inv" THEN Tell([type |-> "getdata", tx |-> m.tx])
     ELSE UNCHANGED toSpv
  /\ IF m.type # "tx" THEN UNCHANGED <<mempool, rejected>>
     ELSE IF m.signed /\ Valid(m.tx) THEN mempool' = mempool \cup {m.tx} /\ UNCHANGED rejected
     ELSE rejected' = rejected \cup {m.tx} /\ UNCHANGED mempool
  /\ UNCHANGED <<wallet, TxMap, txUp, heightUp, tracked, blocks, best, reorgs, hook>>

-----------------------------------------------------------------------------
(* Headers                                                                  *)

\* The tip and older headers down to the second of the file: eleven, then at
\* ever larger steps back
StepsBack == {k \in 1 .. Len(file) - 2 : k <= 11 \/ \E j \in 1 .. 13 : k = 11 * 4 ^ j}
Locator == {Last(file)} \cup {file[Len(file) - k] : k \in StepsBack}
AskForHeaders == Append(toNode, [type |-> "getheaders", locator |-> Locator])

\* FindHeader: the height of the header the message attaches to, searching
\* backwards; -1 when it is not in the file
FindHeader(b) ==
  LET at == {i \in DOMAIN file : file[i] = blocks[b].prev}
  IN  IF at = {} THEN -1 ELSE StartHeight - 1 + CHOOSE i \in at : \A j \in at : j <= i

\* moreWork compares two header lists position by position; only when the
\* message repeats the header file from its start do they ever meet.
MoreWork(new, old) ==
  /\ \E i \in 2 .. (IF Len(new) < Len(old) THEN Len(new) ELSE Len(old)) :
       blocks[new[i]].prev = new[i - 1] /\ old[i] # Hole /\ blocks[old[i]].prev = new[i - 1]
  /\ Len(new) > Len(old)

\* CheckHeaderChain: 0 to append, the height to go back to, or -1 (ignored) or
\* -2 (an error).
CheckHeaderChain(hdrs) ==
  IF blocks[hdrs[1]].prev = Last(file) THEN 0
  ELSE IF FindHeader(hdrs[1]) = -1 THEN -2
  ELSE IF MoreWork(hdrs, file) THEN -1
  ELSE FindHeader(hdrs[1])

\* A reorganisation truncates the file below the header that the new ones attach
\* to, but writes on behind it: that header becomes a hole.
NewFile(hdrs, at) ==
  IF at = 0 THEN file \o hdrs
  ELSE SubSeq(file, 1, Index(at) - 1) \o <<Hole>> \o hdrs

\* IngestHeaders, and HeaderHandler's next question
IngestHeaders ==
  LET hdrs == hh[1].hdrs  at == CheckHeaderChain(hdrs) IN
  /\ hh # Idle /\ hh[1].pc = "ingest" /\ hdrs # <<>>
  /\ at >= 0
  /\ at > 0 => Len(heightUp) < Slots
  /\ file' = NewFile(hdrs, at)
  /\ heightUp' = IF at > 0 THEN Append(heightUp, at) ELSE heightUp
  /\ syncHeight' = IF at > 0 THEN at ELSE syncHeight
  /\ hh' = << [pc |-> "more", hdrs |-> <<>>] >>
  /\ UNCHANGED <<wallet, TxMap, txUp, tracked, toNode, node, toSpv, queue, wait, okTxids, inc, restarts>>

MoreHeaders ==
  /\ hh # Idle /\ hh[1].pc = "more"
  /\ toNode' = AskForHeaders
  /\ hh' = Idle
  /\ UNCHANGED <<wallet, TxMap, txUp, heightUp, tracked, node, toSpv, file, syncHeight, queue, wait, okTxids, inc, restarts>>

\* No headers, or a message that was ignored: on to the blocks.  An error ends
\* the goroutine and nothing asks again.
HeadersDone ==
  /\ hh # Idle /\ hh[1].pc = "ingest"
  /\ hh' = IF hh[1].hdrs = <<>> THEN << [pc |-> "blocks", hdrs |-> <<>>, req |-> syncHeight] >>
           ELSE IF CheckHeaderChain(hh[1].hdrs) = -1
                THEN << [pc |-> "blocks", hdrs |-> <<>>, req |-> syncHeight] >> ELSE Idle
  /\ hh[1].hdrs # <<>> => CheckHeaderChain(hh[1].hdrs) < 0
  /\ UNCHANGED <<wallet, TxMap, txUp, heightUp, tracked, toNode, node, toSpv, file, syncHeight, queue, wait, okTxids, inc, restarts>>

\* AskForBlocks: one request per header, waiting for room in the queue
RequestBlock ==
  /\ hh # Idle /\ hh[1].pc = "blocks"
  /\ hh[1].req < HeightOf(file) /\ Len(queue) < QueueSize
  /\ LET h == hh[1].req + 1 IN
     /\ queue' = Append(queue, [id |-> file[Index(h)], height |-> h, final |-> h = HeightOf(file)])
     /\ toNode' = Append(toNode, [type |-> "getblock", id |-> file[Index(h)]])
     /\ hh' = IF h = HeightOf(file) THEN Idle ELSE << [hh[1] EXCEPT !.req = h] >>
  /\ UNCHANGED <<wallet, TxMap, txUp, heightUp, tracked, node, toSpv, file, syncHeight, wait, okTxids, inc, restarts>>

EnterWaitState ==
  /\ hh # Idle /\ hh[1].pc = "blocks"
  /\ syncHeight = HeightOf(file) /\ ~wait
  /\ wait' = TRUE
  /\ hh' = Idle
  /\ UNCHANGED <<wallet, TxMap, txUp, heightUp, tracked, toNode, node, toSpv, file, syncHeight, queue, okTxids, inc, restarts>>

-----------------------------------------------------------------------------
(* The incoming handler: one message at a time                              *)

Receive(type) ==
  /\ inc = Idle /\ toSpv # <<>> /\ Head(toSpv).type = type
  /\ toSpv' = Tail(toSpv)

\* A goroutine of its own per message of headers
HeaderHandler ==
  /\ Receive("headers") /\ hh = Idle
  /\ hh' = << [pc |-> "ingest", hdrs |-> Head(toSpv).hdrs] >>
  /\ UNCHANGED <<wallet, TxMap, txUp, heightUp, tracked, toNode, node, file, syncHeight, queue, wait, okTxids, inc, restarts>>

\* A new block is asked for only in the wait state.
InvBlock ==
  /\ Receive("invblock")
  /\ wait' = FALSE
  /\ toNode' = IF wait THEN AskForHeaders ELSE toNode
  /\ UNCHANGED <<wallet, TxMap, txUp, heightUp, tracked, node, file, syncHeight, queue, okTxids, hh, inc, restarts>>

InvTx ==
  /\ Receive("invtx")
  /\ okTxids' = okTxids \cup {Head(toSpv).tx}
  /\ toNode' = Append(toNode, [type |-> "gettx", tx |-> Head(toSpv).tx])
  /\ UNCHANGED <<wallet, TxMap, txUp, heightUp, tracked, node, file, syncHeight, queue, wait, hh, inc, restarts>>

\* MatchTx: a payment to a registered address, or a tracked outpoint made or spent
MatchTx(tx) == (setup # "hook" /\ Mine(tx) # {}) \/ (Outpoints(tx) \cup tx.ins) \cap tracked # {}

\* TxHandler panics on a transaction that was never announced.
TxHandler ==
  /\ Receive("tx") /\ Head(toSpv).tx \in okTxids
  /\ inc' = IF MatchTx(Head(toSpv).tx)
            THEN << [txs |-> <<Head(toSpv).tx>>, height |-> 0, block |-> FALSE, final |-> FALSE] >> ELSE Idle
  /\ UNCHANGED <<wallet, TxMap, txUp, heightUp, tracked, toNode, node, file, syncHeight, queue, wait, okTxids, hh, restarts>>

\* The node asks for a transaction of ours.
GetDataHandler ==
  /\ Receive("getdata")
  /\ toNode' = toNode \o SetToSeq({[type |-> "tx", tx |-> t.tx, signed |-> t.signed] :
                                     t \in {s \in TxMap : s.tx = Head(toSpv).tx}})
  /\ UNCHANGED <<wallet, TxMap, txUp, heightUp, tracked, node, file, syncHeight, queue, wait, okTxids, hh, inc, restarts>>

\* IngestBlock takes the next entry of the queue, whatever block comes.
BlockArrives ==
  /\ Receive("block") /\ queue # <<>>
  /\ queue' = Tail(queue)
  /\ inc' = IF Head(queue).id = Head(toSpv).id
            THEN << [txs |-> blocks[Head(queue).id].txs, height |-> Head(queue).height,
                     block |-> TRUE, final |-> Head(queue).final] >>
            ELSE Idle
  /\ UNCHANGED <<wallet, TxMap, txUp, heightUp, tracked, toNode, node, file, syncHeight, wait, okTxids, hh, restarts>>

\* Hand the matching transactions up, one by one: each is matched in its turn,
\* and its outputs to us are tracked from then on.  One that pays us is passed
\* over while the addresses are not registered, and nobody looks again.
HandUp ==
  /\ inc # Idle /\ inc[1].txs # <<>>
  /\ LET tx == Head(inc[1].txs) IN
     IF MatchTx(tx)
     THEN /\ Len(txUp) < Slots
          /\ txUp' = Append(txUp, [tx |-> tx, height |-> inc[1].height])
          /\ tracked' = tracked \cup Mine(tx)
          /\ UNCHANGED missed
     ELSE /\ missed' = (missed \/ Mine(tx) # {})
          /\ UNCHANGED <<txUp, tracked>>
  /\ inc' = IF Len(inc[1].txs) = 1 /\ ~inc[1].block THEN Idle
            ELSE << [inc[1] EXCEPT !.txs = Tail(inc[1].txs)] >>
  /\ UNCHANGED <<utxos, stxos, frozen, sends, sync, prev, setup, TxMap, heightUp, toNode,
                 node, toSpv, file, syncHeight, queue, wait, okTxids, hh, restarts>>

AfterFinal_Waits(final) == toNode
AfterFinal(final) == IF final THEN AskForHeaders ELSE toNode

\* Then the height, and after the last block requested the headers again
BlockDone ==
  /\ inc # Idle /\ inc[1].block /\ inc[1].txs = <<>>
  /\ Len(heightUp) < Slots
  /\ heightUp' = Append(heightUp, inc[1].height)
  /\ syncHeight' = inc[1].height
  /\ toNode' = AfterFinal(inc[1].final)
  /\ inc' = Idle
  /\ UNCHANGED <<wallet, TxMap, txUp, tracked, node, toSpv, file, queue, wait, okTxids, hh, restarts>>

-----------------------------------------------------------------------------
\* A restart finds the header file and the wallet's database, and connects anew.
Restart ==
  /\ restarts < MaxRestart
  /\ restarts' = restarts + 1
  /\ WalletRestart
  /\ syncHeight' = sync
  /\ queue' = <<>> /\ wait' = FALSE /\ okTxids' = {} /\ hh' = Idle /\ inc' = Idle
  /\ toSpv' = <<>>
  /\ toNode' = << [type |-> "getheaders", locator |-> Locator] >>
  /\ UNCHANGED <<node, file>>

Same == UNCHANGED <<node, toSpv, hook>>

Env ==
  \/ \E tx \in Payments : NodePayment(tx)
  \/ \E txs \in Mineable : NodeMine(txs)
  \/ NodeReorg
  \/ LoseConnection

HookStep ==
  \/ IngestHeaders \/ MoreHeaders \/ HeadersDone \/ RequestBlock \/ EnterWaitState
  \/ HeaderHandler \/ InvBlock \/ InvTx \/ TxHandler \/ GetDataHandler \/ BlockArrives \/ HandUp \/ BlockDone

WalletStep == (WalletTxHandler \/ HeightHandler \/ NewWallit) /\ Same

User == /\ \/ MaybeSend
           \/ \E i \in DOMAIN sends : ReallySend(sends[i]) \/ NahDontSend(sends[i])
        /\ Same

SNext == Env \/ Restart \/ NodeServe \/ HookStep \/ WalletStep \/ User

\* The node answers, and the goroutines of the hook and of the wallet run on.
SSpec == SInit /\ [][SNext]_svars /\ WF_svars(NodeServe) /\ WF_svars(HookStep) /\ WF_svars(WalletStep)

-----------------------------------------------------------------------------
(* Properties                                                               *)

\* Nothing under way, and the header file ends in the node's best block
AtRest ==
  /\ toSpv = <<>> /\ toNode = <<>> /\ txUp = <<>> /\ heightUp = <<>> /\ hh = Idle /\ inc = Idle
  /\ wait /\ Last(file) = Last(best)

ConfirmedHere == {op \in DOMAIN utxos : utxos[op] > 0}
OursInChain == {op \in Unspent(Confirmed) : op[1].outs[op[2]] = Me}
Pending == ToSet(sends) \ Confirmed

\* Also after a reorganisation, when the wallet has caught up it counts no
\* confirmed coin that the best chain does not hold, or holds elsewhere.  Not so
\* when the height overtook, on its own channel, a transaction of the old branch,
\* or a start passed one over (see Balanced), and not when lit was down in
\* between: HeightHandler starts with height 0.
NoPhantom ==
  AtRest /\ ~missed /\ (reorgs = 0 \/ restarts = 0) => \A op \in ConfirmedHere : op \in OursInChain /\ utxos[op] = HeightIn(op[1])

\* Without a reorganisation it counts them all, except those that a transaction
\* of its own, not yet mined, spends.  Unless one was missed, which lit does not
\* repair: it was on its way up when lit went down, or its block came after a
\* start before NewWallit had told the hook the addresses.
Balanced ==
  AtRest /\ reorgs = 0 /\ ~missed =>
    ConfirmedHere = OursInChain \ UNION {tx.ins : tx \in {s \in Pending : s.ins \subseteq stxos}}

\* Without a reorganisation every transaction the wallet sends is one the node
\* takes: no coin is promised twice, and each can be signed for.  Except that a
\* transaction on its way when lit goes down is lost (TxMap is in memory, and
\* nothing sends it again), and with it those that later spend its change.
SendsAccepted ==
  reorgs = 0 =>
    \A tx \in rejected :
      restarts > 0 /\ \E s \in ToSet(sends) \ (Confirmed \cup mempool) : tx.ins \subseteq Outpoints(s)

\* While the connection lasts, the hook returns to the state in which it hears
\* of new blocks, whatever comes, or else it waits for a block that does not
\* exist: when a reorganisation left a hole in the header file, and lit goes on
\* after a restart from a height below it, the hook asks for the block of a
\* header of zeroes.
ReturnsToWait == []<>(wait \/ ~Connected \/ \E i \in DOMAIN queue : queue[i].id = Hole)
=============================================================================
