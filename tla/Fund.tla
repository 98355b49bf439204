-------------------------------- MODULE Fund --------------------------------
(***************************************************************************)
(* Opening a channel between two lit nodes: the single-funded exchange of  *)
(* qln/fund.go, the dual-funded one of qln/dualfund.go, and the dispatch   *)
(* of qln/msghandler.go that shares their messages.                        *)
(*                                                                         *)
(* Every key a node uses in a channel (funding, refund, HAKD base, elkrem  *)
(* root, HTLC bases) is derived from the index it gives the channel, so a  *)
(* key is the pair of node and index.  An outpoint is named by the node    *)
(* that built its transaction, a serial number, and the script it pays to: *)
(* the two funding keys.  A handler is one step.  A crash in the middle of *)
(* one leaves what the same handler leaves when its reply is lost.         *)
(***************************************************************************)
EXTENDS Integers, Sequences, FiniteSets

CONSTANTS
  A, B,             \* the two nodes
  Caps, Sends,      \* capacities and initial payments a user may ask for
  MinChanCapacity, MinOutput,
  FundFee,          \* the fee FundChannel reckons with
  Fee,              \* the fee of a state transaction
  DualAmt,          \* what each side puts into a dual-funded channel
  Funders,          \* the nodes whose user calls FundChannel
  DualFunders,      \* the nodes whose user calls DualFundChannel
  MaxFund,          \* bound on the calls of each user
  MaxBreak          \* bound on lost connections and restarts

ASSUME FundAssumption ==
  /\ A # B
  /\ Caps \cup Sends \subseteq Int
  /\ {MinChanCapacity, MinOutput, FundFee, Fee, DualAmt, MaxFund, MaxBreak} \subseteq Nat
  /\ Funders \cup DualFunders \subseteq {A, B}

VARIABLES
  nd,      \* the nodes: memory (InProg, InProgDual, waiting calls) and database
  net,     \* net[n]: the messages on their way to n
  chain,   \* outpoints of broadcast funding transactions
  breaks,  \* connections lost and restarts so far
  odd      \* history: fundings have crossed, or something has failed

vars == <<nd, net, chain, breaks, odd>>

Node == {A, B}
Peer(n) == IF n = A THEN B ELSE A

NoFund == [ChanIdx |-> 0]
NoDual == [ChanIdx |-> 0, init |-> FALSE]
NoKey == [node |-> "none", idx |-> 0]

NoSig == [by |-> NoKey]

\* GetUsePub on the channel's key path: the peer is always the other node.
UsePub(n, idx) == [node |-> n, idx |-> idx]

\* NextChannelIdx counts the keys of the channel map; nothing is reserved.
NextChannelIdx(n) == Cardinality(DOMAIN nd[n].chanMap) + 1

\* A Qchan as saved in state 0.
Qchan(op, idx, mine, theirs, value, amt) ==
  [op |-> op, idx |-> idx, mine |-> mine, theirs |-> theirs,
   value |-> value, amt |-> amt, sig |-> NoSig, failed |-> FALSE]

\* The state transaction that pays the channel out, as signed with q's own key.
StateSig(q, by, amt, otherAmt) ==
  [by |-> by, op |-> q.op, script |-> {q.mine, q.theirs}, pays |-> {<<q.mine, amt>>, <<q.theirs, otherAmt>>}]

\* BuildStateTxs refuses an output below MinOutput, so nothing can be signed.
Buildable(q) == \A amt \in {q.amt, q.value - q.amt} : amt > 0 => amt = Fee \/ amt - Fee >= MinOutput

SignState(q) == StateSig(q, q.mine, q.amt, q.value - q.amt)

VerifySigs_AnyKey(q, sig) == sig.op = q.op

VerifySigs(q, sig) == Buildable(q) /\ sig = StateSig(q, q.theirs, q.amt, q.value - q.amt)

\* SaveQChan: the record under its outpoint, the outpoint under its index.
SaveQChan(s, q) ==
  [s EXCEPT !.db = [op \in DOMAIN s.db \cup {q.op} |-> IF op = q.op THEN q ELSE s.db[op]],
            !.chanMap = [i \in DOMAIN s.chanMap \cup {q.idx} |->
                           IF i = q.idx THEN q.op ELSE s.chanMap[i]]]

\* SaveQchanState after VerifySigs: the state, with the peer's signature.
SaveQchanState(s, op, sig) == [s EXCEPT !.db[op].sig = sig]

FailChannel(s, op) == [s EXCEPT !.db[op].failed = TRUE]

Known(n, op) == op \in DOMAIN nd[n].db

\* Messages are read in order, one at a time, unless an earlier handler hangs.
Gets(n, type) ==
  /\ ~nd[n].blocked
  /\ net[n] # <<>>
  /\ Head(net[n]).type = type

Msg(n) == Head(net[n])

Consume(n) == net' = [net EXCEPT ![n] = Tail(@)]

Reply(n, m) == net' = [net EXCEPT ![n] = Tail(@), ![Peer(n)] = Append(@, m)]

Send(n, m) == net' = [net EXCEPT ![Peer(n)] = Append(@, m)]

\* While a dual funding is in progress every channel message is its.
SingleFunding(n) == nd[n].dual = NoDual
-----------------------------------------------------------------------------
Init ==
  /\ nd = [n \in Node |->
        [inProg |-> NoFund, done |-> <<>>, waiting |-> FALSE,
         dual |-> NoDual, doneDual |-> <<>>, waitingDual |-> FALSE,
         locked |-> FALSE, blocked |-> FALSE, calls |-> 0, built |-> 0,
         db |-> <<>>, chanMap |-> <<>>]]
  /\ net = [n \in Node |-> <<>>]
  /\ chain = {}
  /\ breaks = 0
  /\ odd = FALSE

\* Another funding, or what is left of one, is under way somewhere.
Busy == \E n \in Node : net[n] # <<>> \/ nd[n].inProg # NoFund \/ nd[n].dual # NoDual

\* The checks of FundChannel on its arguments.
Fundable_NoMinimum(ccap, initSend) == initSend >= 0 /\ initSend <= ccap

Fundable(ccap, initSend) ==
  /\ initSend >= 0 /\ ccap >= MinChanCapacity /\ initSend <= ccap
  /\ initSend # 0 => initSend >= MinOutput + FundFee
  /\ ccap - initSend >= MinOutput + FundFee

\* FundChannel up to the point where it waits for InProg.done.
FundChannel(n, ccap, initSend) ==
  /\ n \in Funders /\ nd[n].calls < MaxFund
  /\ ~nd[n].waiting /\ nd[n].inProg = NoFund
  /\ Fundable(ccap, initSend)
  /\ nd' = [nd EXCEPT ![n].calls = @ + 1, ![n].waiting = TRUE,
              ![n].inProg = [ChanIdx |-> NextChannelIdx(n), Amt |-> ccap, InitSend |-> initSend]]
  /\ Send(n, [type |-> "PointReq"])
  /\ odd' = (odd \/ Busy)
  /\ UNCHANGED <<chain, breaks>>

\* The call returns once QChanAckHandler has put the index into done.
FundChannelReturns(n) ==
  /\ nd[n].waiting /\ nd[n].done # <<>>
  /\ nd' = [nd EXCEPT ![n].waiting = FALSE, ![n].done = Tail(@)]
  /\ UNCHANGED <<net, chain, breaks, odd>>

PointReqHandler(n) ==
  /\ Gets(n, "PointReq") /\ SingleFunding(n)
  /\ Reply(n, [type |-> "PointResp", key |-> UsePub(n, NextChannelIdx(n))])
  /\ UNCHANGED <<nd, chain, breaks, odd>>

\* MaybeSend builds and freezes the transaction; the channel is saved before
\* it is described to the peer.
PointRespHandler(n) ==
  /\ Gets(n, "PointResp") /\ SingleFunding(n) /\ nd[n].inProg # NoFund
  /\ LET f == nd[n].inProg
         mine == UsePub(n, f.ChanIdx)
         op == [by |-> n, serial |-> nd[n].built + 1, script |-> {mine, Msg(n).key}]
         q == Qchan(op, f.ChanIdx, mine, Msg(n).key, f.Amt, f.Amt - f.InitSend)
     IN /\ nd' = [nd EXCEPT ![n] = [SaveQChan(@, q) EXCEPT !.built = nd[n].built + 1]]
        /\ Reply(n, [type |-> "ChanDesc", op |-> op, key |-> mine, bases |-> TRUE,
                     value |-> f.Amt, init |-> f.InitSend])
  /\ UNCHANGED <<chain, breaks, odd>>

\* No funding of ours, or MaybeSend fails: InProg stays as it is.
PointRespDropped(n) ==
  /\ Gets(n, "PointResp") /\ SingleFunding(n)
  /\ Consume(n)
  /\ odd' = TRUE
  /\ UNCHANGED <<nd, chain, breaks>>

\* The recipient counts its channels anew: the keys it saves and signs with
\* are the ones of PointResp only if it has saved no channel since.
QChanDescHandler(n) ==
  /\ Gets(n, "ChanDesc") /\ SingleFunding(n) /\ Msg(n).bases
  /\ LET m == Msg(n)
         q == Qchan(m.op, NextChannelIdx(n), UsePub(n, NextChannelIdx(n)), m.key, m.value, m.init)
     IN /\ nd' = [nd EXCEPT ![n] = SaveQChan(@, q)]
        /\ IF Buildable(q) THEN Reply(n, [type |-> "ChanAck", op |-> m.op, sig |-> SignState(q)])
                           ELSE Consume(n)
  /\ UNCHANGED <<chain, breaks, odd>>

\* The funder checks the recipient's signature, saves it, and only then
\* broadcasts; InProg.done has room for one index.
AckAccepted_Unverified(n, op, sig) == Known(n, op)

AckAccepted(n, op, sig) == Known(n, op) /\ VerifySigs(nd[n].db[op], sig)

QChanAckHandler(n) ==
  /\ Gets(n, "ChanAck") /\ SingleFunding(n) /\ AckAccepted(n, Msg(n).op, Msg(n).sig)
  /\ LET op == Msg(n).op
         s == SaveQchanState(nd[n], op, Msg(n).sig)
     IN /\ nd' = [nd EXCEPT ![n] = [s EXCEPT !.done = Append(@, s.db[op].idx), !.inProg = NoFund]]
        /\ chain' = chain \cup {op}
        /\ Reply(n, [type |-> "SigProof", op |-> op, sig |-> SignState(s.db[op])])
  /\ UNCHANGED <<breaks, odd>>

QChanAckFails(n) ==
  /\ Gets(n, "ChanAck") /\ SingleFunding(n) /\ ~AckAccepted(n, Msg(n).op, Msg(n).sig)
  /\ nd' = [nd EXCEPT ![n] = FailChannel(@, Msg(n).op)]
  /\ Consume(n)
  /\ UNCHANGED <<chain, breaks, odd>>

SigProofHandler(n) ==
  /\ Gets(n, "SigProof") /\ SingleFunding(n)
  /\ LET op == Msg(n).op IN
       nd' = [nd EXCEPT ![n] = IF VerifySigs(@.db[op], Msg(n).sig) THEN SaveQchanState(@, op, Msg(n).sig)
                                                                  ELSE FailChannel(@, op)]
  /\ Consume(n)
  /\ UNCHANGED <<chain, breaks, odd>>
-----------------------------------------------------------------------------
(* Dual funding.  Its handlers take the mutex of InProgDual, which some     *)
(* error returns leave locked, and done has room for one result.            *)

DualFundChannel(n) ==
  /\ n \in DualFunders /\ nd[n].calls < MaxFund
  /\ ~nd[n].waitingDual /\ ~nd[n].locked /\ SingleFunding(n)
  /\ 2 * DualAmt >= MinChanCapacity
  /\ nd' = [nd EXCEPT ![n].calls = @ + 1, ![n].waitingDual = TRUE,
              ![n].dual = [ChanIdx |-> NextChannelIdx(n), init |-> TRUE, bases |-> FALSE,
                           mine |-> UsePub(n, NextChannelIdx(n)), theirs |-> NoKey]]
  /\ Send(n, [type |-> "DualReq", key |-> UsePub(n, NextChannelIdx(n))])
  /\ odd' = TRUE
  /\ UNCHANGED <<chain, breaks>>

\* PickUtxos fails: the call returns with the mutex locked.
DualFundChannelFails(n) ==
  /\ n \in DualFunders /\ nd[n].calls < MaxFund
  /\ ~nd[n].waitingDual /\ ~nd[n].locked /\ SingleFunding(n)
  /\ nd' = [nd EXCEPT ![n].calls = @ + 1, ![n].locked = TRUE]
  /\ odd' = TRUE
  /\ UNCHANGED <<net, chain, breaks>>

DualFundReturns(n) ==
  /\ nd[n].waitingDual /\ nd[n].doneDual # <<>>
  /\ nd' = [nd EXCEPT ![n].waitingDual = FALSE, ![n].doneDual = Tail(@)]
  /\ UNCHANGED <<net, chain, breaks, odd>>

\* Our own user answers a request: only one that came from the peer.
Asked(n) == nd[n].dual # NoDual /\ ~nd[n].dual.init

DualFundDecline(n) ==
  /\ Asked(n) /\ ~nd[n].locked
  /\ nd' = [nd EXCEPT ![n].dual = NoDual]
  /\ Send(n, [type |-> "DualDecl"])
  /\ UNCHANGED <<chain, breaks, odd>>

DualFundAccept(n) ==
  /\ Asked(n) /\ ~nd[n].locked /\ ~nd[n].waitingDual
  /\ LET k == UsePub(n, nd[n].dual.ChanIdx) IN
       /\ nd' = [nd EXCEPT ![n].waitingDual = TRUE, ![n].dual.mine = k, ![n].dual.bases = TRUE]
       /\ Send(n, [type |-> "DualAccept", key |-> k])
  /\ UNCHANGED <<chain, breaks, odd>>

\* A request is noted, or declined at once for want of money.
DualFundingReqHandler(n) ==
  /\ Gets(n, "DualReq") /\ ~nd[n].locked /\ SingleFunding(n)
  /\ \/ /\ nd' = [nd EXCEPT ![n].dual =
                    [ChanIdx |-> NextChannelIdx(n), init |-> FALSE, bases |-> FALSE,
                     mine |-> NoKey, theirs |-> Msg(n).key]]
        /\ Consume(n)
     \/ /\ Reply(n, [type |-> "DualDecl"])
        /\ UNCHANGED nd
  /\ UNCHANGED <<chain, breaks, odd>>

\* Another one is pending: the handler declines under the mutex it holds, and
\* DualFundDecline waits for that mutex.
DualFundingReqDeadlock(n) ==
  /\ Gets(n, "DualReq") /\ ~nd[n].locked /\ ~SingleFunding(n)
  /\ nd' = [nd EXCEPT ![n].locked = TRUE, ![n].blocked = TRUE]
  /\ Reply(n, [type |-> "DualDecl"])
  /\ UNCHANGED <<chain, breaks, odd>>

\* The end of a dual funding: the result goes to done, InProgDual is cleared.
Finish(s, result) ==
  [s EXCEPT !.doneDual = Append(@, result), !.dual = NoDual]

\* A handler that needs the mutex of InProgDual, or room in done, and does
\* not get it.
HangsAt(n) == nd[n].locked \/ nd[n].doneDual # <<>>

Hang(s) == [s EXCEPT !.locked = TRUE, !.blocked = TRUE]

DualFundingDeclHandler(n) ==
  /\ Gets(n, "DualDecl")
  /\ nd' = [nd EXCEPT ![n] = IF HangsAt(n) THEN Hang(@) ELSE Finish(@, "declined")]
  /\ Consume(n)
  /\ UNCHANGED <<chain, breaks, odd>>

DualLockTaken(n) ==
  /\ Gets(n, "DualReq") \/ Gets(n, "DualAccept")
  /\ nd[n].locked
  /\ nd' = [nd EXCEPT ![n] = Hang(@)]
  /\ Consume(n)
  /\ UNCHANGED <<chain, breaks, odd>>

\* The channel's outpoint in the transaction of both sides' inputs and change.
BuildDualFundingTransaction(n, d, theirs) ==
  [by |-> n, serial |-> nd[n].built + 1, script |-> {d.mine, theirs}]

\* The initiator never sets its HTLC bases: the description carries none.
DualFundingAcceptHandler(n) ==
  /\ Gets(n, "DualAccept") /\ ~nd[n].locked /\ ~SingleFunding(n)
  /\ LET d == nd[n].dual
         mine == UsePub(n, d.ChanIdx)
         op == BuildDualFundingTransaction(n, d, Msg(n).key)
         q == Qchan(op, d.ChanIdx, mine, Msg(n).key, 2 * DualAmt, DualAmt)
     IN /\ nd' = [nd EXCEPT ![n] = [SaveQChan(@, q) EXCEPT !.built = nd[n].built + 1, !.dual.theirs = Msg(n).key]]
        /\ Reply(n, [type |-> "ChanDesc", op |-> op, key |-> mine, bases |-> d.bases,
                     value |-> 2 * DualAmt, init |-> DualAmt])
  /\ UNCHANGED <<chain, breaks, odd>>

DualFundChanDescHandler(n) ==
  /\ Gets(n, "ChanDesc") /\ ~SingleFunding(n) /\ Msg(n).bases
  /\ LET m == Msg(n)
         q == Qchan(m.op, NextChannelIdx(n), UsePub(n, NextChannelIdx(n)), m.key, m.value, m.init)
     IN /\ nd' = [nd EXCEPT ![n] = SaveQChan(@, q)]
        /\ IF Buildable(q) THEN Reply(n, [type |-> "DualChanAck", op |-> m.op, sig |-> SignState(q)])
                           ELSE Consume(n)
  /\ UNCHANGED <<chain, breaks, odd>>

\* PointReq, PointResp and ChanAck are unknown to DualFundingHandler; a
\* description without HTLC bases is an error to both handlers.
ChannelMsgDropped(n) ==
  /\ \/ /\ ~SingleFunding(n)
        /\ Gets(n, "PointReq") \/ Gets(n, "PointResp") \/ Gets(n, "ChanAck")
     \/ Gets(n, "ChanDesc") /\ ~Msg(n).bases
  /\ Consume(n)
  /\ UNCHANGED <<nd, chain, breaks, odd>>

\* The transaction broadcast here is built from InProgDual, never the one a
\* single funding froze: the outpoint reaches the chain only if it is the
\* dual-funded one.  Verification failing, nothing is marked as failed.
DualFundChanAckHandler(n) ==
  /\ Gets(n, "DualChanAck")
  /\ LET op == Msg(n).op
         s == SaveQchanState(nd[n], op, Msg(n).sig)
     IN IF ~AckAccepted(n, op, Msg(n).sig)
        THEN Consume(n) /\ UNCHANGED <<nd, chain>>
        ELSE /\ chain' = IF ~SingleFunding(n) /\ op.script = {nd[n].dual.mine, nd[n].dual.theirs}
                         THEN chain \cup {op} ELSE chain
             /\ IF HangsAt(n)
                THEN nd' = [nd EXCEPT ![n] = Hang(s)] /\ Consume(n)
                ELSE /\ nd' = [nd EXCEPT ![n] = Finish(s, "accepted")]
                     /\ Reply(n, [type |-> "SigProof", op |-> op, sig |-> SignState(s.db[op])])
  /\ UNCHANGED <<breaks, odd>>

DualFundSigProofHandler(n) ==
  /\ Gets(n, "SigProof") /\ ~SingleFunding(n)
  /\ LET op == Msg(n).op
         s == SaveQchanState(nd[n], op, Msg(n).sig)
     IN nd' = [nd EXCEPT ![n] =
                 IF ~(Known(n, op) /\ VerifySigs(@.db[op], Msg(n).sig)) THEN @
                 ELSE IF HangsAt(n) THEN Hang(s) ELSE Finish(s, "accepted")]
  /\ Consume(n)
  /\ UNCHANGED <<chain, breaks, odd>>
-----------------------------------------------------------------------------
\* The connection is lost with all it carried and made again, with new readers.
Reconnect ==
  /\ breaks < MaxBreak
  /\ breaks' = breaks + 1
  /\ net' = [n \in Node |-> <<>>]
  /\ nd' = [n \in Node |-> [nd[n] EXCEPT !.blocked = FALSE]]
  /\ odd' = TRUE
  /\ UNCHANGED chain

\* A restart keeps the database and the built transactions' numbers only.
Restart(n) ==
  /\ breaks < MaxBreak
  /\ breaks' = breaks + 1
  /\ net' = [k \in Node |-> <<>>]
  /\ nd' = [k \in Node |->
        IF k = n
        THEN [nd[k] EXCEPT !.inProg = NoFund, !.done = <<>>, !.waiting = FALSE,
                           !.dual = NoDual, !.doneDual = <<>>, !.waitingDual = FALSE,
                           !.locked = FALSE, !.blocked = FALSE]
        ELSE [nd[k] EXCEPT !.blocked = FALSE]]
  /\ odd' = TRUE
  /\ UNCHANGED chain

SingleStep(n) ==
  \/ FundChannelReturns(n) \/ PointReqHandler(n) \/ PointRespHandler(n)
  \/ QChanDescHandler(n) \/ QChanAckHandler(n) \/ QChanAckFails(n) \/ SigProofHandler(n)

DualStep(n) ==
  \/ DualFundReturns(n) \/ DualFundDecline(n) \/ DualFundAccept(n)
  \/ DualFundingReqHandler(n) \/ DualFundingReqDeadlock(n) \/ DualFundingDeclHandler(n)
  \/ DualLockTaken(n) \/ DualFundingAcceptHandler(n) \/ DualFundChanDescHandler(n)
  \/ ChannelMsgDropped(n) \/ DualFundChanAckHandler(n) \/ DualFundSigProofHandler(n)

Next ==
  \/ \E n \in Node :
       \/ \E ccap \in Caps, initSend \in Sends : FundChannel(n, ccap, initSend)
       \/ SingleStep(n) \/ PointRespDropped(n)
       \/ DualFundChannel(n) \/ DualFundChannelFails(n) \/ DualStep(n)
       \/ Restart(n)
  \/ Reconnect
\* A connection that holds delivers, and handlers and waiting calls run on.
FundSpec == Init /\ [][Next]_vars /\ \A n \in Node : WF_vars(SingleStep(n))
-----------------------------------------------------------------------------
\* Whatever crosses, gets lost or is rerouted: once a funding transaction is
\* broadcast (QChanAckHandler), its funder's database holds the peer's
\* signature on a state transaction that spends the very script it pays to,
\* so the money can always be taken out again.
FundedRefundable ==
  \A op \in chain :
    LET q == nd[op.by].db[op] IN
      /\ q.sig = StateSig(q, q.theirs, q.amt, q.value - q.amt)
      /\ {q.mine, q.theirs} = op.script /\ Buildable(q)

\* When both databases hold a signature for a channel (QChanAckHandler,
\* SigProofHandler and their dual versions), each node's keys are the other's
\* idea of them and the two balances make up the channel.
FundAgreement ==
  \A op \in DOMAIN nd[A].db \cap DOMAIN nd[B].db :
    LET a == nd[A].db[op]
        b == nd[B].db[op]
    IN NoSig \notin {a.sig, b.sig} =>
         a.mine = b.theirs /\ a.theirs = b.mine /\ a.value = b.value /\ a.amt + b.amt = a.value

\* FundChannel "doesn't return until the channel has been created": when no
\* other funding crosses it, the connection holds and the wallet can pay, the
\* call does return, with the transaction broadcast and both sides signed.
FundCompletes ==
  \A n \in Node :
    nd[n].waiting ~>
      \/ odd
      \/ /\ ~nd[n].waiting
         /\ Cardinality({op \in chain : op.by = n}) = nd[n].calls
         /\ \A op \in chain, k \in Node : nd[k].db[op].sig # NoSig
=============================================================================
