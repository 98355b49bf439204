---------------------------- MODULE CloseChannel ----------------------------
(***************************************************************************)
(* The end of a channel: the cooperative close (qln/close.go) and what the *)
(* wallet's spend event makes of whichever transaction confirms, on top of *)
(* the pushes, breaks and reconnects of PushPull.                          *)
(*                                                                         *)
(* CoopClose runs on a copy of the channel that the RPC read from the      *)
(* database and takes no lock: the transaction it signs (asks) may be      *)
(* stale when the CloseReq leaves.  The peer checks the signature against  *)
(* the state in its own database, and that check is all that keeps a close *)
(* from undoing a push.                                                    *)
(***************************************************************************)
EXTENDS PushPull

CONSTANTS Closers,  \* nodes whose users ask for a cooperative close
          Breakers  \* nodes whose users break the channel

VARIABLES asks,    \* per node: the close transaction CoopClose has signed
          req,     \* close requests on their way to each node
          pool,    \* transactions that were broadcast and spend the channel
          spent,   \* the one of them that confirmed
          wallet   \* per node: what was exported to its wallet

closing == <<asks, req, pool, spent, wallet>>
cvars == <<vars, closing>>

(* A wallet that has not heard of the spend, one whose handler panics.     *)
Unheard == -1
Panicking == -2

Coop == "coop"
ASSUME CoopAssumption == Coop \notin Node

(* SimpleCloseTx: both sides' amounts less the fee, no state number.       *)
SimpleCloseTx(n) ==
    LET amt(m) == IF m = n THEN disk[n].MyAmt ELSE Value - disk[n].MyAmt
    IN [by |-> Coop, idx |-> 0,
        pays |-> [m \in Node |-> IF amt(m) # 0 THEN amt(m) - Fee ELSE 0]]

Closable(n) ==
    LET tx == SimpleCloseTx(n)
    IN /\ Uncleared(disk[n]) = {}
       /\ \E m \in Node : tx.pays[m] # 0
       /\ \A m \in Node : tx.pays[m] # 0 => tx.pays[m] >= MinOutput

(* The commitment transaction of n's stored state.                         *)
CommitTx(n) ==
    LET tx == BuildStateTxs(BreakState(disk[n]), TRUE)
    IN [by |-> n, idx |-> tx.idx, pays |-> [m \in Node |-> IF m = n THEN tx.own ELSE tx.other]]

CInit ==
    /\ Init
    /\ asks = [n \in Node |-> <<>>]
    /\ req = [n \in Node |-> <<>>]
    /\ pool = {}
    /\ spent = <<>>
    /\ wallet = [n \in Node |-> Unheard]

-----------------------------------------------------------------------------
(* CoopClose, up to the signature: nothing asks whether a push is under    *)
(* way or the channel has failed.                                          *)
CoopClose(n) ==
    /\ n \in Closers
    /\ asks[n] = <<>>
    /\ ~closed[n]
    /\ Closable(n)
    /\ asks' = [asks EXCEPT ![n] = <<SimpleCloseTx(n)>>]
    /\ UNCHANGED <<vars, req, pool, spent, wallet>>

(* The connection keeps the order: a request remembers how many messages   *)
(* are ahead of it, and the messages behind it wait until it was handled.  *)
Request(n) == [tx |-> asks[n][1], ahead |-> Len(net[Peer(n)])]
InOrder(n) == \A i \in 1 .. Len(req[n]) : req[n][i].ahead > 0
Arriving(n) == /\ stuck[n] = 0 /\ inited[n]
               /\ req[n] # <<>> /\ Head(req[n]).ahead = 0
MoveUp(n) == req' = [req EXCEPT ![n] = [i \in 1 .. Len(req[n]) |->
                 [req[n][i] EXCEPT !.ahead = @ - 1]]]
NoRequests == [n \in Node |-> <<>>]

(* Mutant: the request waits for a channel at rest, and the save does not. *)
SendCloseReq_AtRest(n) ==
    /\ asks[n] # <<>>
    /\ SaveQchanUtxoData(n, TRUE)
    /\ req' = IF disk[n].Delta # 0 THEN req
              ELSE [req EXCEPT ![Peer(n)] = Append(@, Request(n))]
    /\ asks' = [asks EXCEPT ![n] = <<>>]
    /\ UNCHANGED <<disk, failed, ram, call, net, conns, chainops, hist, pool, spent, wallet>>

(* The rest of it: the channel is saved as closed, then the request goes   *)
(* out.  Nobody sends it again.                                            *)
SendCloseReq(n) ==
    /\ asks[n] # <<>>
    /\ SaveQchanUtxoData(n, TRUE)
    /\ req' = [req EXCEPT ![Peer(n)] = Append(@, Request(n))]
    /\ asks' = [asks EXCEPT ![n] = <<>>]
    /\ UNCHANGED <<disk, failed, ram, call, net, conns, chainops, hist, pool, spent, wallet>>

(* Mutant: signs whatever it is asked to, as the comment above             *)
(* CloseReqHandler has it.                                                 *)
CloseSigGood_Trusting(n) == Closable(n)

CloseSigGood(n) == Closable(n) /\ Head(req[n]).tx = SimpleCloseTx(n)

(* CloseReqHandler: rebuild, verify, sign, save as closed, broadcast.  It  *)
(* does not look at Closed.                                                *)
CloseReqHandler(n) ==
    /\ Arriving(n)
    /\ CloseSigGood(n)
    /\ pool' = pool \cup {Head(req[n]).tx}
    /\ SaveQchanUtxoData(n, TRUE)
    /\ req' = [req EXCEPT ![n] = Tail(@)]
    /\ UNCHANGED <<disk, failed, ram, call, net, conns, chainops, hist, asks, spent, wallet>>

(* A signature that does not verify: the error path formats an error that  *)
(* is nil, and the node goes down.                                         *)
CloseReqPanic(n) ==
    /\ Arriving(n)
    /\ Closable(n)
    /\ ~CloseSigGood(n)
    /\ Reconnect({n})
    /\ asks' = [asks EXCEPT ![n] = <<>>]
    /\ req' = NoRequests
    /\ UNCHANGED <<pool, spent, wallet>>

-----------------------------------------------------------------------------
(* The chain takes one of the transactions that spend the channel.         *)
Confirm(tx) ==
    /\ spent = <<>>
    /\ spent' = <<tx>>
    /\ UNCHANGED <<vars, asks, req, pool, wallet>>

(* GetCloseTxos.  The output to my refund key makes the transaction the    *)
(* peer's (or a cooperative one), and its state number is then read with   *)
(* the peer's hint; without it the hint is mine, which makes nonsense of   *)
(* the peer's.  A state above mine is not looked at further.               *)
PkhIsMine(n, tx) == tx.by # n /\ tx.pays[n] > 0
Future(n, tx) == tx.idx > disk[n].StateIdx \/ (tx.by = Peer(n) /\ ~PkhIsMine(n, tx))

(* Mutant: the state number is compared with the wrong end.                *)
GetCloseTxos_Late(n, tx) ==
    IF PkhIsMine(n, tx) /\ tx.idx # 0 /\ tx.idx = disk[n].StateIdx THEN 0
    ELSE tx.pays[n]

(* What is exported: my refund output, or the delayed output of my own     *)
(* transaction if it is of the state I hold and that is not state 0.       *)
GetCloseTxos(n, tx) ==
    IF \/ PkhIsMine(n, tx)
       \/ ~PkhIsMine(n, tx) /\ ~Future(n, tx) /\ tx.idx # 0 /\ tx.idx = disk[n].StateIdx
    THEN tx.pays[n] ELSE 0

(* An older state of the peer: ElkPoint(true, i) asks the elkrem receiver, *)
(* which every load of the channel makes anew and empty, for hash i; that  *)
(* indexes an empty slice.                                                 *)
JusticePanics(n, tx) == PkhIsMine(n, tx) /\ tx.idx # 0 /\ tx.idx < disk[n].StateIdx

(* The spend half of OPEventHandler: save as closed, then look at the      *)
(* transaction.                                                            *)
CloseEvent(n) ==
    /\ spent # <<>>
    /\ wallet[n] = Unheard
    /\ SaveQchanUtxoData(n, TRUE)
    /\ wallet' = [wallet EXCEPT ![n] = IF JusticePanics(n, spent[1]) THEN Panicking
                                       ELSE GetCloseTxos(n, spent[1])]
    /\ UNCHANGED <<disk, failed, ram, call, net, conns, chainops, hist, asks, req, pool, spent>>

(* The node goes down with nothing exported, its refund output included.   *)
CloseEventPanic(n) ==
    /\ wallet[n] = Panicking
    /\ Reconnect({n})
    /\ asks' = [asks EXCEPT ![n] = <<>>]
    /\ req' = NoRequests
    /\ wallet' = [wallet EXCEPT ![n] = 0]
    /\ UNCHANGED <<pool, spent>>

-----------------------------------------------------------------------------
(* The handlers of PushPull, on the messages that no request is ahead of.  *)
(* A request may be the first message of a connection, too.                *)
Deliver(n) ==
    \/ /\ InOrder(n) /\ Consume(n)
       /\ MoveUp(n)
       /\ UNCHANGED <<asks, pool, spent, wallet>>
    \/ /\ net[n] # <<>> \/ req[n] # <<>>
       /\ Repopulate(n)
       /\ UNCHANGED closing

Protocol ==
    \/ \E n \in Node : Deliver(n) \/ (\E g \in Gen : FillClearToSend(n, g) /\ UNCHANGED closing)
    \/ /\ \E n \in Node, c \in Call :
             (\E amt \in PushAmt : PushStart(n, c, amt)) \/ UserCall(n, c) \/ PushTimeout(n, c)
       /\ UNCHANGED closing

Break(n) == /\ n \in Breakers
            /\ BreakChannel(n)
            /\ pool' = pool \cup {CommitTx(n)}
            /\ UNCHANGED <<asks, req, spent, wallet>>

(* The connection breaks under a close request (PushPull has the breaks    *)
(* under the other messages).                                              *)
CloseReqLost ==
    /\ \E n \in Node : req[n] # <<>>
    /\ Reconnect({})
    /\ req' = NoRequests
    /\ UNCHANGED <<asks, pool, spent, wallet>>

Respond(n) == SendCloseReq(n) \/ CloseReqHandler(n) \/ CloseReqPanic(n)

CNext ==
    \/ Protocol
    \/ \E n \in Node : CoopClose(n) \/ Respond(n) \/ CloseEvent(n) \/ CloseEventPanic(n)
                       \/ Break(n)
    \/ \E tx \in pool : Confirm(tx)
    \/ CloseReqLost

(* Messages are delivered, handlers run, and a call that got as far as its *)
(* signature goes on.                                                      *)
CSpec == /\ CInit
         /\ [][CNext]_cvars
         /\ \A n \in Node : WF_cvars(Respond(n) \/ Deliver(n))

-----------------------------------------------------------------------------
(* The pushes of n whose caller was told of success, and those that left n.*)
OkCalls(n) == {c \in CallsOf(n) : call[n][c].pc = "ok"}
SentCalls(n) == {c \in CallsOf(n) : call[n][c].pc \in {"wait", "ok", "failed", "error", "lost"}}
PushSum(n, C) == IF C = {} THEN 0 ELSE MapThenSumSet(LAMBDA c : call[n][c].amt, C)

(* A cooperative close never undoes a push: whatever updates were under    *)
(* way when the close was signed, sent or answered, the transaction the    *)
(* second node broadcasts (CloseReqHandler) contains every push that was   *)
(* reported to its user as done, and none that was not sent.  Only while   *)
(* the connection lasts: after a break the goroutine of                    *)
(* NewQchanFromChanData may fill ClearToSend in the middle of a push,      *)
(* PushChannel then reports success before the peer has answered, and a    *)
(* close may leave that push out.                                          *)
ClosePaysConfirmed ==
    conns = 0 => \A tx \in pool : tx.by = Coop =>
        \E CA \in SUBSET SentCalls(A), CB \in SUBSET SentCalls(B) :
            /\ OkCalls(A) \subseteq CA
            /\ OkCalls(B) \subseteq CB
            /\ tx.pays[A] = OutAmt(InitAmtA - PushSum(A, CA) + PushSum(B, CB))

(* GetCloseTxos finds a node's money in a cooperative close, in the peer's *)
(* transaction of the state the node holds, and in its own of that state   *)
(* (from state 1 on), whatever was broadcast by whom in the meantime.      *)
CollectsCurrent ==
    [][\A n \in Node :
          (/\ wallet[n] = Unheard /\ wallet'[n] # Unheard
              /\ (spent[1].by = Coop \/ spent[1].idx = disk[n].StateIdx)
              /\ ~(spent[1].by = n /\ spent[1].idx = 0))
              => wallet'[n] = spent[1].pays[n]]_cvars

(* Whatever transaction of the peer confirms, an old one above all, the    *)
(* node's refund output ends up in its wallet (GetCloseTxos, Justice).     *)
CollectsRefund ==
    \A n \in Node : wallet[n] >= 0 /\ spent[1].by # n => wallet[n] >= spent[1].pays[n]

(* A close that was asked for is broadcast, unless the two sides' books    *)
(* differ when the request arrives (then a node goes down) or the          *)
(* connection breaks first.                                                *)
CloseCompletes ==
    \A n \in Node : asks[n] # <<>> ~> (conns > 0 \/ \E tx \in pool : tx.by = Coop)

=============================================================================
