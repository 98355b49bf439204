---------------------------- MODULE Close_proofs ----------------------------
(***************************************************************************)
(* Proofs about CloseChannel, for every capacity, fee, number of calls, of *)
(* closes and of breaks.                                                   *)
(*                                                                         *)
(* The protocol's steps are those of PushPull, so what PushPull_proofs     *)
(* shows of each of them holds here too.                                   *)
(***************************************************************************)
EXTENDS CloseChannel, PushPull_proofs, FiniteSetTheorems, NaturalsInduction,
        WellFoundedInduction

(* The transactions that may spend the channel, and requests for one.      *)
Payout == {tx \in [by : Node \cup {Coop}, idx : Nat, pays : [Node -> Nat]] :
              tx.by = Coop => tx.idx = 0}
Requests == [tx : Payout, ahead : Nat]

CloseTypes ==
    /\ asks \in [Node -> Seq(Payout)]
    /\ req \in [Node -> Seq(Requests)]
    /\ pool \subseteq Payout
    /\ spent \in Seq(Payout)
    /\ wallet \in [Node -> Int]

-----------------------------------------------------------------------------
(* The transactions.                                                       *)

LEMMA SimpleCloseType ==
  ASSUME Inv, NEW n \in Node, Closable(n)
  PROVE  SimpleCloseTx(n) \in Payout
<1> DEFINE amt(m) == IF m = n THEN disk[n].MyAmt ELSE Value - disk[n].MyAmt
           pay(m) == IF amt(m) # 0 THEN amt(m) - Fee ELSE 0
           tx == SimpleCloseTx(n)
<1>1. disk[n].MyAmt \in Int BY PlainFields DEF Inv, Types
<1>2. \A m \in Node : pay(m) \in Int BY <1>1, ValueAssumption
<1>3. tx.by = Coop /\ tx.idx = 0 /\ tx.pays = [m \in Node |-> pay(m)]
      /\ tx = [by |-> Coop, idx |-> 0, pays |-> tx.pays]
  BY DEF SimpleCloseTx
<1>4. \A m \in Node : tx.pays[m] # 0 => tx.pays[m] >= MinOutput
  BY DEF Closable
<1> HIDE DEF pay, tx
<1>5. \A m \in Node : tx.pays[m] \in Nat
  BY <1>2, <1>3, <1>4, ValueAssumption
<1>6. tx.pays \in [Node -> Nat] BY <1>3, <1>5
<1>7. tx \in Payout BY <1>3, <1>6 DEF Payout
<1> QED BY <1>7 DEF tx

LEMMA CommitTxType ==
  ASSUME Inv, NEW n \in Node, Buildable(BreakState(disk[n]))
  PROVE  CommitTx(n) \in Payout
<1> DEFINE st == BreakState(disk[n])
           tx == BuildStateTxs(st, TRUE)
<1>1. disk[n] \in PlainCom BY DEF Inv, Types
<1>2. st \in PlainCom /\ st.MyAmt \in Int /\ st.StateIdx \in Nat BY <1>1, PlainBreak, PlainFields
<1>3. tx = PlainTx(st.StateIdx, st.StateIdx, st.MyAmt, Value - st.MyAmt)
  BY <1>2, PlainBuild, Zenon
<1>4. tx.idx \in Nat /\ tx.own \in Int /\ tx.other \in Int
  <2>1. Value - st.MyAmt \in Int BY <1>2, ValueAssumption
  <2> HIDE DEF tx
  <2>2. tx.idx = st.StateIdx /\ tx.own = OutAmt(st.MyAmt) /\ tx.other = OutAmt(Value - st.MyAmt)
    BY <1>3 DEF PlainTx
  <2>3. \A x \in Int : OutAmt(x) \in Int BY ValueAssumption DEF OutAmt
  <2> QED BY <1>2, <2>1, <2>2, <2>3
<1>5. \A x \in {tx.own, tx.other} : x = 0 \/ x >= MinOutput
  BY Zenon DEF Buildable
<1> HIDE DEF tx
<1>6. tx.own \in Nat /\ tx.other \in Nat BY <1>4, <1>5, ValueAssumption
<1>7. CommitTx(n) = [by |-> n, idx |-> tx.idx,
                     pays |-> [m \in Node |-> IF m = n THEN tx.own ELSE tx.other]]
  BY Zenon DEF CommitTx, tx
<1> QED BY <1>4, <1>6, <1>7, CoopAssumption DEF Payout

(* What a node finds in a transaction.                                     *)
LEMMA Collected ==
  ASSUME NEW n \in Node, NEW tx \in Payout
  PROVE  GetCloseTxos(n, tx) \in Nat
  BY DEF GetCloseTxos, Payout

(* A cooperative close, the peer's transaction of the stored state, and    *)
(* one's own from state 1 on: all of one's money is found.                 *)
LEMMA CollectsAll ==
  ASSUME NEW n \in Node, NEW tx \in Payout, disk[n].StateIdx \in Nat,
         tx.by = Coop \/ tx.idx = disk[n].StateIdx, ~(tx.by = n /\ tx.idx = 0)
  PROVE  GetCloseTxos(n, tx) = tx.pays[n] /\ ~JusticePanics(n, tx)
<1>1. tx.pays[n] \in Nat /\ tx.idx \in Nat /\ tx.by \in Node \cup {Coop}
      /\ (tx.by = Coop => tx.idx = 0)
  BY DEF Payout
<1>2. Peer(n) # n BY NodeFacts
<1>3. ~JusticePanics(n, tx) BY <1>1 DEF JusticePanics
<1>4. CASE PkhIsMine(n, tx) BY <1>4, <1>3 DEF GetCloseTxos
<1>5. CASE ~PkhIsMine(n, tx) /\ tx.by = n
  <2>1. tx.by # Coop BY <1>5, CoopAssumption
  <2>2. ~Future(n, tx) BY <1>1, <1>2, <1>5, <2>1 DEF Future
  <2> QED BY <1>3, <1>5, <2>1, <2>2 DEF GetCloseTxos
<1>6. CASE ~PkhIsMine(n, tx) /\ tx.by # n
  <2>1. tx.pays[n] = 0 BY <1>1, <1>6 DEF PkhIsMine
  <2> QED BY <1>3, <2>1 DEF GetCloseTxos
<1> QED BY <1>4, <1>5, <1>6

-----------------------------------------------------------------------------
(* The types, of PushPull's variables and of the close's.                  *)

CInv == Inv /\ CloseTypes

LEMMA InitCInv ==
  ASSUME CInit
  PROVE  CInv
<1>1. Inv BY InitInv DEF CInit
<1>2. CloseTypes BY DEF CInit, CloseTypes, Unheard
<1> QED BY <1>1, <1>2 DEF CInv

(* The close's half of the invariant, when one of its variables changes.   *)
LEMMA ClosingStays ==
  ASSUME CInv, UNCHANGED closing
  PROVE  CloseTypes'
  BY DEF CInv, CloseTypes, closing

(* A record saved as closed.                                               *)
LEMMA SavedInv ==
  ASSUME Inv, NEW n \in Node, NEW b \in BOOLEAN, SaveQchanUtxoData(n, b),
         UNCHANGED <<disk, failed, ram, call, net, conns, chainops, hist>>
  PROVE  Inv'
<1>1. UNCHANGED <<revoked, bcast, raced>> BY DEF hist
<1>2. bcast' \in [Node -> SUBSET Nat] /\ chainops' \in [Node -> 0 .. MaxChainOp]
  BY <1>1 DEF Inv, Types
<1> QED BY <1>1, <1>2, UtxoDataKeeps, ChainInv

LEMMA UnchangedInv ==
  ASSUME Inv, UNCHANGED vars
  PROVE  Inv'
  BY StepInv

LEMMA CoopCloseInv ==
  ASSUME CInv, NEW n \in Node, CoopClose(n)
  PROVE  CInv'
<1>1. SimpleCloseTx(n) \in Payout BY SimpleCloseType DEF CInv, CoopClose
<1>2. <<SimpleCloseTx(n)>> \in Seq(Payout) BY <1>1
<1>3. asks' \in [Node -> Seq(Payout)] BY <1>2 DEF CInv, CloseTypes, CoopClose
<1>4. Inv' BY UnchangedInv DEF CInv, CoopClose
<1> QED BY <1>3, <1>4 DEF CInv, CloseTypes, CoopClose

LEMMA SendCloseReqInv ==
  ASSUME CInv, NEW n \in Node, SendCloseReq(n)
  PROVE  CInv'
<1> DEFINE p == Peer(n)
<1>1. p \in Node BY NodeFacts
<1>2. asks[n] \in Seq(Payout) /\ asks[n] # <<>> /\ req[p] \in Seq(Requests) /\ net[p] \in Seq(Messages)
  BY <1>1 DEF CInv, CloseTypes, SendCloseReq, Inv, Types
<1>3. asks[n][1] \in Payout BY <1>2
<1>4. Request(n) \in Requests BY <1>2, <1>3 DEF Request, Requests
<1>5. req' = [req EXCEPT ![p] = Append(req[p], Request(n))] BY <1>1 DEF SendCloseReq, CInv, CloseTypes
<1>6. Append(req[p], Request(n)) \in Seq(Requests) BY <1>2, <1>4
<1> HIDE DEF p
<1>7. req' \in [Node -> Seq(Requests)] BY <1>1, <1>5, <1>6 DEF CInv, CloseTypes
<1>8. asks' \in [Node -> Seq(Payout)] BY DEF SendCloseReq, CInv, CloseTypes
<1>9. Inv' BY SavedInv DEF SendCloseReq, CInv
<1> QED BY <1>7, <1>8, <1>9 DEF CInv, CloseTypes, SendCloseReq

LEMMA CloseReqHandlerInv ==
  ASSUME CInv, NEW n \in Node, CloseReqHandler(n)
  PROVE  CInv'
<1>1. req[n] \in Seq(Requests) /\ req[n] # <<>> BY DEF CInv, CloseTypes, CloseReqHandler, Arriving
<1>2. Head(req[n]) \in Requests /\ Tail(req[n]) \in Seq(Requests) BY <1>1
<1>3. pool' \subseteq Payout BY <1>2 DEF CInv, CloseTypes, CloseReqHandler, Requests
<1>4. req' \in [Node -> Seq(Requests)] BY <1>2 DEF CInv, CloseTypes, CloseReqHandler
<1>5. Inv' BY SavedInv DEF CloseReqHandler, CInv
<1> QED BY <1>3, <1>4, <1>5 DEF CInv, CloseTypes, CloseReqHandler

(* A connection that breaks under it.                                      *)
LEMMA RequestsLost ==
  ASSUME CInv, NEW S \in SUBSET Node, Reconnect(S), req' = NoRequests,
         \/ UNCHANGED asks
         \/ \E n \in Node : asks' = [asks EXCEPT ![n] = <<>>],
         UNCHANGED <<pool, spent>>, wallet' \in [Node -> Int]
  PROVE  CInv'
<1>1. req' \in [Node -> Seq(Requests)] BY DEF NoRequests
<1>2. asks' \in [Node -> Seq(Payout)]
  <2>1. asks \in [Node -> Seq(Payout)] BY DEF CInv, CloseTypes
  <2>2. <<>> \in Seq(Payout) OBVIOUS
  <2>3. CASE UNCHANGED asks BY <2>1, <2>3
  <2>4. ASSUME NEW n \in Node, asks' = [asks EXCEPT ![n] = <<>>]
        PROVE  asks' \in [Node -> Seq(Payout)]
    BY <2>1, <2>2, <2>4
  <2> QED BY <2>3, <2>4
<1>3. Inv' BY ReconnectInv DEF CInv
<1> QED BY <1>1, <1>2, <1>3 DEF CInv, CloseTypes

LEMMA CloseEventInv ==
  ASSUME CInv, NEW n \in Node, CloseEvent(n)
  PROVE  CInv'
<1>1. spent \in Seq(Payout) /\ spent # <<>> BY DEF CInv, CloseTypes, CloseEvent
<1>2. GetCloseTxos(n, spent[1]) \in Int BY <1>1, Collected
<1>3. wallet' \in [Node -> Int] BY <1>2 DEF CInv, CloseTypes, CloseEvent, Panicking
<1>4. Inv' BY SavedInv DEF CloseEvent, CInv
<1> QED BY <1>3, <1>4 DEF CInv, CloseTypes, CloseEvent

LEMMA BreakTypes ==
  ASSUME CInv, NEW n \in Node, Break(n)
  PROVE  CInv'
<1>1. CommitTx(n) \in Payout BY CommitTxType DEF CInv, Break, BreakChannel
<1>2. Inv' BY BreakInv DEF CInv, Break
<1> QED BY <1>1, <1>2 DEF CInv, CloseTypes, Break

LEMMA ConfirmInv ==
  ASSUME CInv, NEW tx \in pool, Confirm(tx)
  PROVE  CInv'
<1>1. <<tx>> \in Seq(Payout) BY DEF CInv, CloseTypes
<1>2. Inv' BY UnchangedInv DEF CInv, Confirm
<1> QED BY <1>1, <1>2 DEF CInv, CloseTypes, Confirm

LEMMA ConsumeInv ==
  ASSUME Inv, NEW n \in Node, Consume(n)
  PROVE  Inv'
  BY DeltaSigInv, GapSigRevInv, SigRevInv, RevInv, Zenon DEF Consume

LEMMA DeliverInv ==
  ASSUME CInv, NEW n \in Node, Deliver(n)
  PROVE  CInv'
<1>1. CASE /\ InOrder(n) /\ Consume(n) /\ MoveUp(n)
           /\ UNCHANGED <<asks, pool, spent, wallet>>
  <2> DEFINE r == [i \in 1 .. Len(req[n]) |-> [req[n][i] EXCEPT !.ahead = req[n][i].ahead - 1]]
  <2>1. Len(req[n]) \in Nat BY DEF CInv, CloseTypes
  <2>2. ASSUME NEW i \in 1 .. Len(req[n])
        PROVE  [req[n][i] EXCEPT !.ahead = req[n][i].ahead - 1] \in Requests
    <3>1. req[n] \in Seq(Requests) BY DEF CInv, CloseTypes
    <3>2. req[n][i] \in Requests BY <3>1
    <3>3. req[n][i].ahead \in Nat /\ req[n][i].ahead > 0 BY <1>1, <3>2 DEF InOrder, Requests
    <3>4. req[n][i].ahead - 1 \in Nat BY <3>3
    <3> QED BY <3>2, <3>4 DEF Requests
  <2>3. r \in Seq(Requests) BY <2>1, <2>2
  <2>4. req' = [req EXCEPT ![n] = r] BY <1>1 DEF MoveUp
  <2> HIDE DEF r
  <2>5. req' \in [Node -> Seq(Requests)] BY <2>3, <2>4 DEF CInv, CloseTypes
  <2>6. Inv' BY <1>1, ConsumeInv DEF CInv
  <2> QED BY <1>1, <2>5, <2>6 DEF CInv, CloseTypes
<1>2. CASE Repopulate(n) /\ UNCHANGED closing
  BY <1>2, RepopulateInv, ClosingStays DEF CInv
<1> QED BY <1>1, <1>2 DEF Deliver

LEMMA CallsInv ==
  ASSUME Inv, NEW n \in Node, NEW c \in Call,
         \/ \E amt \in PushAmt : PushStart(n, c, amt)
         \/ UserCall(n, c) \/ PushTimeout(n, c)
  PROVE  Inv'
  BY PushStartInv, PushRefusedInv, PushNotAtRestInv, PushSendInv, PushDoneInv, PushTimeoutInv,
     CallReloadInv, FailSaveInv, Zenon DEF UserCall, CallStep

LEMMA ProtocolInv ==
  ASSUME CInv, Protocol
  PROVE  CInv'
<1>1. ASSUME NEW n \in Node, NEW g \in Gen, FillClearToSend(n, g), UNCHANGED closing
      PROVE  CInv'
  BY <1>1, FillInv, ClosingStays DEF CInv
<1>2. ASSUME NEW n \in Node, NEW c \in Call, UNCHANGED closing,
             \/ \E amt \in PushAmt : PushStart(n, c, amt)
             \/ UserCall(n, c) \/ PushTimeout(n, c)
      PROVE  CInv'
  BY <1>2, CallsInv, ClosingStays DEF CInv
<1> QED BY <1>1, <1>2, DeliverInv, Zenon DEF Protocol

LEMMA CStepInv == CInv /\ [CNext]_cvars => CInv'
<1> SUFFICES ASSUME CInv, [CNext]_cvars PROVE CInv'
  OBVIOUS
<1>1. CASE UNCHANGED cvars
  BY <1>1, UnchangedInv, ClosingStays DEF CInv, cvars
<1>2. ASSUME NEW n \in Node, CloseReqPanic(n) PROVE CInv'
  <2>1. {n} \in SUBSET Node OBVIOUS
  <2>2. wallet' \in [Node -> Int] BY <1>2 DEF CInv, CloseTypes, CloseReqPanic
  <2> QED BY <1>2, <2>1, <2>2, RequestsLost DEF CloseReqPanic
<1>3. ASSUME NEW n \in Node, CloseEventPanic(n) PROVE CInv'
  <2>1. {n} \in SUBSET Node OBVIOUS
  <2>2. wallet' \in [Node -> Int] BY <1>3 DEF CInv, CloseTypes, CloseEventPanic
  <2> QED BY <1>3, <2>1, <2>2, RequestsLost DEF CloseEventPanic
<1>4. CASE CloseReqLost
  <2>1. {} \in SUBSET Node OBVIOUS
  <2>2. wallet' \in [Node -> Int] BY <1>4 DEF CInv, CloseTypes, CloseReqLost
  <2> QED BY <1>4, <2>1, <2>2, RequestsLost DEF CloseReqLost
<1> QED BY <1>1, <1>2, <1>3, <1>4, ProtocolInv, CoopCloseInv, SendCloseReqInv,
           CloseReqHandlerInv, CloseEventInv, BreakTypes, ConfirmInv, Zenon DEF CNext, Respond

LEMMA CloseInvariance == CSpec => []CInv
<1>1. CInit => CInv
  BY InitCInv
<1> QED BY <1>1, CStepInv, PTL DEF CSpec

-----------------------------------------------------------------------------
(* What reaches the wallets.                                               *)

(* A wallet's first news is what GetCloseTxos makes of the transaction     *)
(* that confirmed.                                                         *)
LEMMA FirstNews ==
  ASSUME CInv, CNext, NEW n \in Node, wallet[n] = Unheard, wallet'[n] # Unheard
  PROVE  CloseEvent(n)
<1>1. ASSUME NEW m \in Node, CloseEvent(m) PROVE m = n
  BY <1>1 DEF CloseEvent, CInv, CloseTypes
<1>2. ASSUME NEW m \in Node, CloseEventPanic(m) PROVE FALSE
  <2>1. m # n BY <1>2 DEF CloseEventPanic, Unheard, Panicking
  <2> QED BY <1>2, <2>1 DEF CloseEventPanic, CInv, CloseTypes
<1>3. wallet' # wallet OBVIOUS
<1>4. ~Protocol
  BY <1>3, Zenon DEF Protocol, Deliver, closing
<1>5. \A m \in Node : ~CoopClose(m) /\ ~Respond(m) /\ ~Break(m)
  BY <1>3, Zenon DEF CoopClose, Respond, SendCloseReq, CloseReqHandler, CloseReqPanic, Break
<1>6. ~CloseReqLost /\ \A tx : ~Confirm(tx)
  BY <1>3, Zenon DEF CloseReqLost, Confirm
<1> QED BY <1>1, <1>2, <1>4, <1>5, <1>6, Zenon DEF CNext

(* Whatever was pushed, broken, lost and restarted before: when the wallet *)
(* of a node hears of the spend (GetCloseTxos), it gets the node's whole   *)
(* output of a cooperative close, of the peer's transaction of the stored  *)
(* state, and of the node's own from state 1 on.                           *)
THEOREM CurrentStateCollected == CSpec => CollectsCurrent
<1>1. CInv /\ [CNext]_cvars =>
        [\A n \in Node :
          (/\ wallet[n] = Unheard /\ wallet'[n] # Unheard
              /\ (spent[1].by = Coop \/ spent[1].idx = disk[n].StateIdx)
              /\ ~(spent[1].by = n /\ spent[1].idx = 0))
              => wallet'[n] = spent[1].pays[n]]_cvars
  <2> SUFFICES ASSUME CInv, CNext, NEW n \in Node, wallet[n] = Unheard, wallet'[n] # Unheard,
                      spent[1].by = Coop \/ spent[1].idx = disk[n].StateIdx,
                      ~(spent[1].by = n /\ spent[1].idx = 0)
               PROVE  wallet'[n] = spent[1].pays[n]
    OBVIOUS
  <2>1. CloseEvent(n) BY FirstNews
  <2>2. spent[1] \in Payout BY <2>1 DEF CInv, CloseTypes, CloseEvent
  <2>3. disk[n].StateIdx \in Nat BY PlainFields DEF CInv, Inv, Types
  <2>4. GetCloseTxos(n, spent[1]) = spent[1].pays[n] /\ ~JusticePanics(n, spent[1])
    BY <2>2, <2>3, CollectsAll
  <2> QED BY <2>1, <2>4 DEF CloseEvent, CInv, CloseTypes
<1> QED BY <1>1, CloseInvariance, PTL DEF CSpec, CollectsCurrent

-----------------------------------------------------------------------------
(* Sums over finite sets of numbers that a function gives: what the sum of *)
(* a set gains when one member joins it.  The sum is a fold, which a step  *)
(* of the proof opens by one level.                                        *)

LEMMA Least ==
  ASSUME NEW S \in SUBSET Nat, S # {}
  PROVE  \E x \in S : \A y \in S : x <= y
<1>1. \E x \in S : \A y \in S : ~ (<<y, x>> \in OpToRel(<, Nat))
  BY NatLessThanWellFounded, WFMin
<1>2. ASSUME NEW x \in S, NEW y \in S, y < x PROVE <<y, x>> \in OpToRel(<, Nat)
  BY <1>2 DEF OpToRel
<1>3. ASSUME NEW x \in S, NEW y \in S, ~ (y < x) PROVE x <= y
  BY <1>3
<1> QED BY <1>1, <1>2, <1>3

LEMMA Induction ==
  ASSUME NEW S \in SUBSET Nat, 0 \in S, \A n \in Nat : n \in S => n + 1 \in S
  PROVE  S = Nat
<1> SUFFICES ASSUME Nat \ S # {} PROVE FALSE
  OBVIOUS
<1>1. Nat \ S \in SUBSET Nat
  OBVIOUS
<1>2. PICK x \in Nat \ S : \A y \in Nat \ S : x <= y
  BY <1>1, Least
<1>3. x # 0 /\ x - 1 \in Nat /\ x - 1 \in S
  BY <1>2
<1> QED BY <1>2, <1>3

(* f holds the sum of a over every subset of C, one member taken away after *)
(* the other.                                                              *)
Some(s) == CHOOSE x \in s : TRUE
Adds(a, f, s) == f[s] = IF s = {} THEN 0 ELSE a[Some(s)] + f[s \ {Some(s)}]
Sums(a, C, f) == f \in [SUBSET C -> Int] /\ \A s \in SUBSET C : Adds(a, f, s)
Total(a, C) == (CHOOSE f : Sums(a, C, f))[C]

LEMMA SomeMember == \A s : s # {} => Some(s) \in s
  BY DEF Some

(* A member less.                                                          *)
LEMMA OneLess ==
  ASSUME NEW C, IsFiniteSet(C), NEW s \in SUBSET C
  PROVE  /\ IsFiniteSet(s) /\ Cardinality(s) \in Nat
         /\ Cardinality(s) <= Cardinality(C)
         /\ s = {} <=> Cardinality(s) = 0
         /\ \A x \in s : s \ {x} \in SUBSET C /\ Cardinality(s \ {x}) = Cardinality(s) - 1
<1>1. IsFiniteSet(s) /\ Cardinality(s) <= Cardinality(C) BY FS_Subset
<1>2. Cardinality(s) \in Nat BY <1>1, FS_CardinalityType
<1>3. s = {} <=> Cardinality(s) = 0 BY <1>1, FS_EmptySet
<1>4. \A x \in s : Cardinality(s \ {x}) = Cardinality(s) - 1 BY <1>1, FS_RemoveElement
<1> QED BY <1>1, <1>2, <1>3, <1>4

LEMMA SumsExist ==
  ASSUME NEW C, IsFiniteSet(C), NEW a, \A x \in C : a[x] \in Int
  PROVE  \E f : Sums(a, C, f)
<1> DEFINE Part(k, f) == /\ f \in [SUBSET C -> Int]
                         /\ \A s \in SUBSET C : Cardinality(s) <= k => Adds(a, f, s)
           T == {k \in Nat : \E f : Part(k, f)}
<1>1. 0 \in T
  <2> DEFINE f == [s \in SUBSET C |-> 0]
  <2>1. f \in [SUBSET C -> Int] OBVIOUS
  <2>2. ASSUME NEW s \in SUBSET C, Cardinality(s) <= 0 PROVE Adds(a, f, s)
    <3>1. s = {} BY <2>2, OneLess
    <3> QED BY <3>1 DEF Adds
  <2> HIDE DEF f
  <2>3. Part(0, f) BY <2>1, <2>2
  <2> QED BY <2>3
<1>2. ASSUME NEW k \in Nat, k \in T PROVE k + 1 \in T
  <2>1. PICK f : Part(k, f) BY <1>2
  <2> DEFINE g == [s \in SUBSET C |-> IF Cardinality(s) <= k THEN f[s]
                                      ELSE a[Some(s)] + f[s \ {Some(s)}]]
  <2>2. ASSUME NEW s \in SUBSET C, ~(Cardinality(s) <= k)
        PROVE  Some(s) \in s /\ a[Some(s)] \in Int /\ f[s \ {Some(s)}] \in Int /\ s # {}
    <3>1. s # {} BY <2>2, OneLess
    <3>2. Some(s) \in s BY <3>1, SomeMember
    <3> QED BY <2>1, <3>1, <3>2
  <2>3. g \in [SUBSET C -> Int]
    <3>1. \A s \in SUBSET C : f[s] \in Int BY <2>1
    <3>2. ASSUME NEW s \in SUBSET C, ~(Cardinality(s) <= k)
          PROVE  a[Some(s)] + f[s \ {Some(s)}] \in Int
      BY <2>2, <3>2
    <3> QED BY <3>1, <3>2
  <2>4. ASSUME NEW s \in SUBSET C, Cardinality(s) <= k + 1 PROVE Adds(a, g, s)
    <3>1. CASE s = {}
      <4>1. Cardinality(s) <= k BY <3>1, OneLess
      <4>2. g[s] = f[s] BY <4>1
      <4>3. Adds(a, f, s) BY <2>1, <4>1
      <4> QED BY <3>1, <4>2, <4>3 DEF Adds
    <3>2. CASE s # {}
      <4> DEFINE x == Some(s)
                 t == s \ {x}
      <4>1. x \in s BY <3>2, SomeMember
      <4>2. t \in SUBSET C /\ Cardinality(t) = Cardinality(s) - 1 /\ Cardinality(s) \in Nat
        BY <4>1, OneLess
      <4>3. Cardinality(t) <= k BY <2>4, <4>2
      <4>4. g[t] = f[t] BY <4>2, <4>3
      <4>5. g[s] = a[x] + f[t]
        <5>1. CASE Cardinality(s) <= k
          <6>1. Adds(a, f, s) BY <2>1, <5>1
          <6> QED BY <3>2, <5>1, <6>1 DEF Adds
        <5>2. CASE ~(Cardinality(s) <= k) BY <5>2
        <5> QED BY <5>1, <5>2
      <4> HIDE DEF g
      <4> QED BY <3>2, <4>4, <4>5 DEF Adds
    <3> QED BY <3>1, <3>2
  <2> HIDE DEF g
  <2>5. Part(k + 1, g) BY <2>3, <2>4
  <2> QED BY <2>5
<1>3. T = Nat
  <2>1. T \in SUBSET Nat OBVIOUS
  <2> HIDE DEF T
  <2> QED BY <1>1, <1>2, <2>1, Induction
<1>4. Cardinality(C) \in Nat BY FS_CardinalityType
<1>5. Cardinality(C) \in T BY <1>3, <1>4
<1>6. PICK f : Part(Cardinality(C), f) BY <1>5
<1>7. \A s \in SUBSET C : Cardinality(s) <= Cardinality(C) BY OneLess
<1> QED BY <1>6, <1>7 DEF Sums

(* Two such functions agree.                                               *)
LEMMA SumsAgree ==
  ASSUME NEW C, IsFiniteSet(C), NEW a,
         NEW f, \A s \in SUBSET C : Adds(a, f, s), NEW g, \A s \in SUBSET C : Adds(a, g, s)
  PROVE  f[C] = g[C]
<1> DEFINE T == {k \in Nat : \A s \in SUBSET C : Cardinality(s) = k => f[s] = g[s]}
<1>1. 0 \in T
  <2> SUFFICES ASSUME NEW s \in SUBSET C, Cardinality(s) = 0 PROVE f[s] = g[s]
    OBVIOUS
  <2>1. s = {} BY OneLess
  <2>2. Adds(a, f, s) /\ Adds(a, g, s) OBVIOUS
  <2> QED BY <2>1, <2>2 DEF Adds
<1>2. ASSUME NEW k \in Nat, k \in T PROVE k + 1 \in T
  <2> SUFFICES ASSUME NEW s \in SUBSET C, Cardinality(s) = k + 1 PROVE f[s] = g[s]
    OBVIOUS
  <2> DEFINE x == Some(s)
             t == s \ {x}
  <2>1. s # {} BY OneLess
  <2>2. x \in s /\ x \in C BY <2>1, SomeMember
  <2>3. t \in SUBSET C /\ Cardinality(t) = k BY <2>2, OneLess
  <2>4. f[t] = g[t] BY <1>2, <2>3
  <2>5. Adds(a, f, s) /\ Adds(a, g, s) OBVIOUS
  <2> QED BY <2>1, <2>4, <2>5 DEF Adds
<1>3. T = Nat
  <2>1. T \in SUBSET Nat OBVIOUS
  <2> HIDE DEF T
  <2> QED BY <1>1, <1>2, <2>1, Induction
<1>4. Cardinality(C) \in Nat BY FS_CardinalityType
<1>5. Cardinality(C) \in T BY <1>3, <1>4
<1> QED BY <1>5

LEMMA TotalSums ==
  ASSUME NEW C, IsFiniteSet(C), NEW a, \A x \in C : a[x] \in Int
  PROVE  /\ Total(a, C) \in Int
         /\ \A f, D : C \subseteq D /\ (\A s \in SUBSET D : Adds(a, f, s)) => f[C] = Total(a, C)
<1> DEFINE h == CHOOSE f : Sums(a, C, f)
<1>1. Sums(a, C, h) BY SumsExist
<1>2. Total(a, C) = h[C] BY DEF Total
<1> HIDE DEF h
<1>3. h[C] \in Int /\ \A s \in SUBSET C : Adds(a, h, s) BY <1>1 DEF Sums
<1>4. ASSUME NEW f, NEW D, C \subseteq D, \A s \in SUBSET D : Adds(a, f, s) PROVE f[C] = h[C]
  <2>1. \A s \in SUBSET C : Adds(a, f, s) BY <1>4
  <2> QED BY <1>3, <2>1, SumsAgree
<1> QED BY <1>2, <1>3, <1>4

LEMMA TotalSame ==
  ASSUME NEW C, IsFiniteSet(C), NEW a, NEW b, \A x \in C : a[x] \in Int, \A x \in C : a[x] = b[x]
  PROVE  Total(a, C) = Total(b, C)
<1>1. PICK f : Sums(a, C, f) BY SumsExist
<1>2. \A s \in SUBSET C : Adds(a, f, s) BY <1>1 DEF Sums
<1>3. ASSUME NEW s \in SUBSET C PROVE Adds(b, f, s)
  <2>1. s # {} => a[Some(s)] = b[Some(s)] BY SomeMember
  <2> QED BY <1>2, <2>1 DEF Adds
<1>4. C \subseteq C /\ \A x \in C : b[x] \in Int OBVIOUS
<1>5. f[C] = Total(a, C) BY <1>2, <1>4, TotalSums
<1>6. f[C] = Total(b, C) BY <1>3, <1>4, TotalSums
<1> QED BY <1>5, <1>6

LEMMA TotalEmpty == \A a : Total(a, {}) = 0
<1> SUFFICES ASSUME NEW a PROVE Total(a, {}) = 0
  OBVIOUS
<1>1. IsFiniteSet({}) BY FS_EmptySet
<1>2. PICK f : Sums(a, {}, f) BY <1>1, SumsExist
<1>3. f[{}] = Total(a, {}) BY <1>1, <1>2, TotalSums DEF Sums
<1>4. f[{}] = 0 BY <1>2 DEF Sums, Adds
<1> QED BY <1>3, <1>4

(* The member that is taken away first.                                    *)
LEMMA TotalFirst ==
  ASSUME NEW C, IsFiniteSet(C), NEW a, \A x \in C : a[x] \in Int, C # {}
  PROVE  Total(a, C) = a[Some(C)] + Total(a, C \ {Some(C)})
<1> DEFINE t == C \ {Some(C)}
<1>1. PICK f : Sums(a, C, f) BY SumsExist
<1>2. f[C] = Total(a, C) BY <1>1, TotalSums DEF Sums
<1>3. IsFiniteSet(t) BY FS_Subset
<1>4. f[t] = Total(a, t) BY <1>1, <1>3, TotalSums DEF Sums
<1>5. f[C] = a[Some(C)] + f[t] BY <1>1 DEF Sums, Adds
<1> QED BY <1>2, <1>4, <1>5

(* Which one it is does not matter.                                        *)
LEMMA TotalAdd ==
  ASSUME NEW C, IsFiniteSet(C), NEW a, \A x \in C : a[x] \in Int, NEW d, d \notin C, a[d] \in Int
  PROVE  Total(a, C \cup {d}) = Total(a, C) + a[d]
<1> DEFINE T == {k \in Nat : \A s \in SUBSET C : \A e \in (C \cup {d}) \ s :
                         Cardinality(s) = k => Total(a, s \cup {e}) = Total(a, s) + a[e]}
<1>1. ASSUME NEW s \in SUBSET C PROVE IsFiniteSet(s) /\ Total(a, s) \in Int
  <2>1. IsFiniteSet(s) BY FS_Subset
  <2> QED BY <2>1, TotalSums
<1>2. ASSUME NEW s \in SUBSET C, NEW e \in (C \cup {d}) \ s, Some(s \cup {e}) = e
      PROVE  Total(a, s \cup {e}) = Total(a, s) + a[e]
  <2> DEFINE u == s \cup {e}
  <2>1. IsFiniteSet(u) BY <1>1, FS_AddElement
  <2>2. u \ {e} = s /\ u # {} /\ a[e] \in Int /\ \A x \in u : a[x] \in Int OBVIOUS
  <2>3. Total(a, u) = a[e] + Total(a, s) BY <1>2, <2>1, <2>2, TotalFirst
  <2> HIDE DEF u
  <2> QED BY <1>1, <2>2, <2>3 DEF u
<1>3. 0 \in T
  <2> SUFFICES ASSUME NEW s \in SUBSET C, NEW e, Cardinality(s) = 0, e \in (C \cup {d}) \ s
               PROVE  Total(a, s \cup {e}) = Total(a, s) + a[e]
    OBVIOUS
  <2>1. s = {} BY OneLess
  <2>2. s \cup {e} # {} OBVIOUS
  <2>3. Some(s \cup {e}) = e BY <2>1, <2>2, SomeMember
  <2> QED BY <1>2, <2>3
<1>4. ASSUME NEW k \in Nat, k \in T PROVE k + 1 \in T
  <2> SUFFICES ASSUME NEW s \in SUBSET C, NEW e, Cardinality(s) = k + 1, e \in (C \cup {d}) \ s
               PROVE  Total(a, s \cup {e}) = Total(a, s) + a[e]
    OBVIOUS
  <2> DEFINE u == s \cup {e}
             x == Some(u)
             t == s \ {x}
  <2>1. CASE x = e BY <1>2, <2>1
  <2>2. CASE x # e
    <3>1. u # {} OBVIOUS
    <3>2. x \in u BY <3>1, SomeMember
    <3>3. x \in s /\ x \in C
      <4> HIDE DEF x
      <4> QED BY <2>2, <3>2
    <3>4. t \in SUBSET C /\ Cardinality(t) = k
      <4> HIDE DEF x
      <4>1. s \ {x} \in SUBSET C /\ Cardinality(s \ {x}) = Cardinality(s) - 1 BY <3>3, OneLess
      <4> QED BY <4>1
    <3>5. e \in (C \cup {d}) \ t /\ x \in (C \cup {d}) \ t BY <3>3
    <3>6. Total(a, t \cup {e}) = Total(a, t) + a[e] BY <1>4, <3>4, <3>5
    <3>7. Total(a, t \cup {x}) = Total(a, t) + a[x] BY <1>4, <3>4, <3>5
    <3>8. t \cup {x} = s /\ u \ {x} = t \cup {e} BY <2>2, <3>3
    <3>9. Total(a, u) = a[x] + Total(a, t \cup {e})
      <4>1. IsFiniteSet(u) BY <1>1, FS_AddElement
      <4>2. \A z \in u : a[z] \in Int OBVIOUS
      <4>3. Total(a, u) = a[x] + Total(a, u \ {x}) BY <3>1, <4>1, <4>2, TotalFirst
      <4> QED BY <3>8, <4>3
    <3>10. a[x] \in Int /\ a[e] \in Int /\ Total(a, t) \in Int BY <1>1, <3>3, <3>4
    <3>11. Total(a, s) = Total(a, t) + a[x] BY <3>7, <3>8
    <3> HIDE DEF u, x, t
    <3>12. Total(a, u) = Total(a, s) + a[e] BY <3>6, <3>9, <3>10, <3>11
    <3> QED BY <3>12 DEF u
  <2> QED BY <2>1, <2>2
<1>5. T = Nat
  <2>1. T \in SUBSET Nat OBVIOUS
  <2> HIDE DEF T
  <2> QED BY <1>3, <1>4, <2>1, Induction
<1>6. Cardinality(C) \in Nat BY FS_CardinalityType
<1>7. Cardinality(C) \in T BY <1>5, <1>6
<1> QED BY <1>7

(* The sum that PushSum takes is that of the calls' amounts.               *)
Amts(n) == [c \in Call |-> call[n][c].amt]

LEMMA PushSumTotal ==
  ASSUME NEW n, NEW C \in SUBSET Call, IsFiniteSet(C), \A c \in C : call[n][c].amt \in Int
  PROVE  PushSum(n, C) = Total(Amts(n), C)
<1>1. CASE C = {} BY <1>1, TotalEmpty DEF PushSum
<1>2. CASE C # {}
  <2> DEFINE a == Amts(n)
             Def(f) == f = [s \in SUBSET C |-> IF s = {} THEN 0
                          ELSE call[n][Some(s)].amt + f[s \ {Some(s)}]]
             h == CHOOSE f : Def(f)
  <2>1. PushSum(n, C) = h[C] BY <1>2, Zenon DEF PushSum, MapThenSumSet, MapThenFoldSet, Some
  <2>2. \A x \in C : a[x] = call[n][x].amt /\ a[x] \in Int BY DEF Amts
  <2>3. \A s \in SUBSET C : s # {} => Some(s) \in C BY SomeMember
  <2> HIDE DEF a
  <2>4. \E f : Def(f)
    <3>1. PICK f : Sums(a, C, f) BY <2>2, SumsExist
    <3>2. f \in [SUBSET C -> Int] BY <3>1 DEF Sums
    <3>3. ASSUME NEW s \in SUBSET C
          PROVE  f[s] = IF s = {} THEN 0 ELSE call[n][Some(s)].amt + f[s \ {Some(s)}]
      <4>1. Adds(a, f, s) BY <3>1 DEF Sums
      <4>2. s # {} => a[Some(s)] = call[n][Some(s)].amt BY <2>2, <2>3
      <4> QED BY <4>1, <4>2 DEF Adds
    <3>4. f = [s \in SUBSET C |-> f[s]] BY <3>2
    <3>5. Def(f) BY <3>3, <3>4
    <3> QED BY <3>5
  <2> HIDE DEF Def
  <2>5. Def(h) BY <2>4
  <2> HIDE DEF h
  <2>6. ASSUME NEW s \in SUBSET C PROVE Adds(a, h, s)
    <3>1. h[s] = IF s = {} THEN 0 ELSE call[n][Some(s)].amt + h[s \ {Some(s)}]
      BY <2>5 DEF Def
    <3>2. s # {} => a[Some(s)] = call[n][Some(s)].amt BY <2>2, <2>3
    <3> QED BY <3>1, <3>2 DEF Adds
  <2>7. h[C] = Total(a, C)
    <3>1. C \subseteq C OBVIOUS
    <3> QED BY <2>2, <2>6, <3>1, TotalSums
  <2> QED BY <2>1, <2>7 DEF a
<1> QED BY <1>1, <1>2

-----------------------------------------------------------------------------
(* The steps of the protocol are steps of PushPull; the others leave the   *)
(* two stored states and the messages alone, or break the connection.      *)

(* Nothing changes but what is closed and what is being saved.             *)
LEMMA RecordPair ==
  ASSUME Inv, PairInv, UNCHANGED <<disk, ram, call, net, conns, hist>>
  PROVE  PairInv' /\ LedgerKept
<1>1. TokensSpent' /\ Amounts' BY DEF ram, PairInv, TokensSpent, Amounts
<1> QED BY <1>1, StillStep DEF hist

LEMMA ConsumePair ==
  ASSUME Inv, PairInv, raced = {}, raced' = {}, NEW n \in Node, Consume(n)
  PROVE  PairInv' /\ LedgerKept
  BY DeltaSigPair, GapSigRevPair, SigRevPair, RevPair, Zenon DEF Consume

LEMMA DeliverPair ==
  ASSUME Inv, PairInv, raced = {}, raced' = {}, NEW n \in Node, Deliver(n)
  PROVE  PairInv' /\ LedgerKept
  BY ConsumePair, RepopulatePair, Zenon DEF Deliver

LEMMA CallsPair ==
  ASSUME Inv, PairInv, raced' = {}, NEW n \in Node, NEW c \in Call,
         \/ \E amt \in PushAmt : PushStart(n, c, amt)
         \/ UserCall(n, c) \/ PushTimeout(n, c)
  PROVE  PairInv' /\ LedgerKept
  BY PushStartPair, PushRefusedPair, PushNotAtRestPair, PushSendPair, PushDonePair,
     PushTimeoutPair, CallReloadPair, FailSavePair, Zenon DEF UserCall, CallStep

LEMMA ProtocolPair ==
  ASSUME Inv, PairInv, raced = {}, raced' = {}, Protocol
  PROVE  PairInv' /\ LedgerKept
  BY DeliverPair, CallsPair, FillPair, Zenon DEF Protocol

LEMMA ClosePair ==
  ASSUME Inv, PairInv, NEW n \in Node,
         SendCloseReq(n) \/ CloseReqHandler(n) \/ CloseEvent(n)
  PROVE  PairInv' /\ LedgerKept
<1>1. UNCHANGED <<disk, ram, call, net, conns, hist>>
  BY DEF SendCloseReq, CloseReqHandler, CloseEvent
<1> QED BY <1>1, RecordPair

LEMMA BrokenPair ==
  ASSUME Inv, PairInv, NEW n \in Node,
         CloseReqPanic(n) \/ CloseEventPanic(n) \/ CloseReqLost
  PROVE  PairInv' /\ LedgerKept
<1>1. {n} \in SUBSET Node /\ {} \in SUBSET Node OBVIOUS
<1> QED BY <1>1, ReconnectPair, Zenon DEF CloseReqPanic, CloseEventPanic, CloseReqLost

LEMMA CStepPair ==
  ASSUME Inv, PairInv, raced = {}, raced' = {}, [CNext]_cvars
  PROVE  PairInv' /\ LedgerKept
<1>1. CASE UNCHANGED vars
  BY <1>1, IdlePair
<1>2. ASSUME NEW n \in Node, Break(n) PROVE PairInv' /\ LedgerKept
  BY <1>2, ChainPair DEF Break
<1>3. A \in Node BY DEF Node
<1>4. UNCHANGED cvars \/ (\E n \in Node : CoopClose(n)) \/ (\E tx \in pool : Confirm(tx))
        => UNCHANGED vars
  BY Zenon DEF cvars, CoopClose, Confirm
<1> QED BY <1>1, <1>2, <1>3, <1>4, ProtocolPair, ClosePair, BrokenPair, Zenon DEF CNext, Respond

(* The connection never comes back to the state before its first break.    *)
LEMMA CConnsGrow ==
  ASSUME Inv, [CNext]_cvars, conns' = 0
  PROVE  conns = 0
<1>1. conns \in Nat BY ConnsType
<1>2. ASSUME NEW n \in Node, Deliver(n) PROVE conns' = conns
  <2>1. ASSUME Consume(n) PROVE conns' = conns
    BY <2>1 DEF Consume, DeltaSigHandler, GapSigRevHandler, SigRevHandler, RevHandler, env
  <2>2. ASSUME Repopulate(n) PROVE conns' = conns
    BY <2>2 DEF Repopulate, env
  <2> QED BY <1>2, <2>1, <2>2, Zenon DEF Deliver
<1>3. ASSUME NEW n \in Node, NEW c \in Call, UserCall(n, c) PROVE conns' = conns
  BY <1>3 DEF UserCall, CallStep, CallReload, FailSave, PushRefused, PushNotAtRest, PushSend,
     PushDone, env
<1>4. ASSUME NEW n \in Node, NEW g \in Gen, FillClearToSend(n, g) PROVE conns' = conns
  BY <1>4 DEF FillClearToSend, env
<1>5. ASSUME NEW n \in Node, NEW c \in Call, NEW amt \in PushAmt, PushStart(n, c, amt)
      PROVE  conns' = conns
  BY <1>5 DEF PushStart, env
<1>6. ASSUME NEW n \in Node, NEW c \in Call, PushTimeout(n, c) PROVE conns' = conns
  BY <1>6 DEF PushTimeout, env
<1>7. Protocol => conns' = conns
  BY <1>2, <1>3, <1>4, <1>5, <1>6, Zenon DEF Protocol
<1>8. ASSUME NEW n \in Node, CoopClose(n) \/ SendCloseReq(n) \/ CloseReqHandler(n) \/ CloseEvent(n)
                              \/ Break(n)
      PROVE  conns' = conns
  BY <1>8 DEF CoopClose, SendCloseReq, CloseReqHandler, CloseEvent, Break, BreakChannel, vars, env
<1>9. ASSUME NEW n \in Node, CloseReqPanic(n) \/ CloseEventPanic(n) \/ CloseReqLost
      PROVE  conns' = conns + 1
  BY <1>9 DEF CloseReqPanic, CloseEventPanic, CloseReqLost, Reconnect
<1>10. ASSUME NEW tx, Confirm(tx) PROVE conns' = conns
  BY <1>10 DEF Confirm, vars, env
<1>11. UNCHANGED cvars => conns' = conns BY DEF cvars, vars, env
<1>12. A \in Node BY DEF Node
<1>13. conns' = conns \/ conns' = conns + 1
  BY <1>7, <1>8, <1>9, <1>10, <1>11, <1>12, Zenon DEF CNext, Respond
<1> QED BY <1>1, <1>13

(* Every step that leaves the connection up is none of its breaks.         *)
LEMMA NoBreak ==
  ASSUME Inv, conns' = 0, NEW n, CloseReqPanic(n) \/ CloseEventPanic(n) \/ CloseReqLost
  PROVE  FALSE
<1>1. conns \in Nat BY ConnsType
<1>2. conns' = conns + 1
  BY DEF CloseReqPanic, CloseEventPanic, CloseReqLost, Reconnect
<1> QED BY <1>1, <1>2

-----------------------------------------------------------------------------
(* A closed channel.  Its node takes no push any more, and what settles a  *)
(* push of its own, a SigRev or a GapSigRev, only comes from a node that   *)
(* has taken it.                                                           *)

Settling == {"SigRev", "GapSigRev"}

(* Nothing that settles a push comes in q after the first k messages.      *)
Behind(q, k) == \A i \in 1 .. Len(q) : i > k => q[i].type \notin Settling

(* The sender of a request has closed, and the request is behind whatever  *)
(* may settle a push of its receiver.                                      *)
Asked ==
    \A n \in Node : \A i \in 1 .. Len(req[n]) :
        closed[Peer(n)] /\ Behind(net[n], req[n][i].ahead)

(* What A owns in the book of n.                                           *)
Share(n) == IF n = A THEN disk[A].MyAmt ELSE Value - disk[B].MyAmt

(* The close that n has answered pays what its book says, for good.        *)
Paying(n, tx) ==
    closed[A] /\ closed[B] /\ Behind(net[n], 0) /\ tx.pays[A] = OutAmt(Share(n))
Frozen == \A tx \in pool : tx.by = Coop => \E n \in Node : Paying(n, tx)

LEMMA BehindTail ==
  ASSUME NEW q \in Seq(Messages), q # <<>>, NEW k \in Nat, Behind(q, k)
  PROVE  Behind(Tail(q), k) /\ (k > 0 => Behind(Tail(q), k - 1))
<1>1. Len(q) \in Nat /\ Len(Tail(q)) = Len(q) - 1
      /\ \A i \in 1 .. Len(Tail(q)) : Tail(q)[i] = q[i + 1]
  OBVIOUS
<1>2. ASSUME NEW i \in 1 .. Len(Tail(q)), i + 1 > k PROVE Tail(q)[i].type \notin Settling
  <2>1. i + 1 \in 1 .. Len(q) BY <1>1
  <2> QED BY <1>1, <1>2, <2>1 DEF Behind
<1>3. ASSUME NEW i \in 1 .. Len(Tail(q)), i > k PROVE i + 1 > k
  BY <1>3
<1>4. ASSUME NEW i \in 1 .. Len(Tail(q)), k > 0, i > k - 1 PROVE i + 1 > k
  BY <1>4
<1> QED BY <1>2, <1>3, <1>4 DEF Behind

LEMMA BehindSent ==
  ASSUME NEW q \in Seq(Messages), NEW r \in Seq(Messages), NEW k \in Nat, Behind(q, k), Behind(r, 0)
  PROVE  Behind(q \o r, k)
<1> SUFFICES ASSUME NEW i \in 1 .. Len(q \o r), i > k PROVE (q \o r)[i].type \notin Settling
  BY DEF Behind
<1>1. Len(q) \in Nat /\ Len(r) \in Nat /\ Len(q \o r) = Len(q) + Len(r) OBVIOUS
<1>2. CASE i <= Len(q)
  <2>1. (q \o r)[i] = q[i] /\ i \in 1 .. Len(q) BY <1>1, <1>2
  <2> QED BY <2>1 DEF Behind
<1>3. CASE i > Len(q)
  <2>1. (q \o r)[i] = r[i - Len(q)] /\ i - Len(q) \in 1 .. Len(r) /\ i - Len(q) > 0
    BY <1>1, <1>3
  <2> QED BY <2>1 DEF Behind
<1> QED BY <1>1, <1>2, <1>3

(* A Rev, or nothing.                                                      *)
LEMMA RevBehind ==
  ASSUME NEW reply, Of(reply, "Rev")
  PROVE  reply \in Seq(Messages) /\ Behind(reply, 0)
<1>1. CASE reply = <<>> BY <1>1 DEF Behind
<1>2. CASE \E m \in Messages : reply = <<m>> /\ m.type = "Rev"
  <2>1. PICK m \in Messages : reply = <<m>> /\ m.type = "Rev" BY <1>2
  <2>2. <<m>> \in Seq(Messages) /\ Len(<<m>>) = 1 /\ <<m>>[1] = m OBVIOUS
  <2> QED BY <2>1, <2>2 DEF Behind, Settling
<1> QED BY <1>1, <1>2 DEF Of

(* How a closed channel answers.                                           *)
Harmless(n, s, reply) ==
    /\ Answer(n, s, reply)
    /\ s \in PlainCom /\ reply \in Seq(Messages)
    /\ closed[n] => /\ Behind(reply, 0)
                    /\ Behind(net[n], 0) => s.MyAmt = disk[n].MyAmt

LEMMA HarmlessRest ==
  ASSUME Inv, NEW n \in Node, Ignore(n) \/ Fail(n)
  PROVE  \E s, reply : Harmless(n, s, reply)
<1>1. disk[n] \in PlainCom BY DEF Inv, Types
<1>2. FailChannel(disk[n]) \in PlainCom /\ FailChannel(disk[n]).MyAmt = disk[n].MyAmt
  BY <1>1, PlainFail DEF FailChannel, PlainCom
<1>3. <<>> \in Seq(Messages) /\ Behind(<<>>, 0) BY DEF Behind
<1> QED BY <1>1, <1>2, <1>3, Zenon DEF Ignore, Fail, Harmless

LEMMA DeltaSigHarmless ==
  ASSUME Inv, NEW n \in Node, DeltaSigHandler(n)
  PROVE  \E s, reply : Harmless(n, s, reply)
<1>1. CASE closed[n]
  <2>1. Ignore(n) BY <1>1, Zenon DEF DeltaSigHandler
  <2> QED BY <2>1, HarmlessRest
<1>2. CASE ~closed[n]
  <2>1. PICK s, reply : Answer(n, s, reply) /\ Successor(n, s) /\ Replies(reply, s)
    BY DeltaSigAnswers, Zenon DEF GoodAnswer
  <2>2. reply \in Seq(Messages)
    <3>1. CASE reply = <<>> BY <3>1
    <3>2. ASSUME NEW m, reply = <<m>>, Reveals(m, s) PROVE reply \in Seq(Messages)
      BY <3>2 DEF Reveals
    <3> QED BY <2>1, <3>1, <3>2 DEF Replies
  <2> QED BY <1>2, <2>1, <2>2, Zenon DEF Successor, Harmless
<1> QED BY <1>1, <1>2

LEMMA SettledHarmless ==
  ASSUME Inv, NEW n \in Node, GapSigRevHandler(n) \/ SigRevHandler(n)
  PROVE  \E s, reply : Harmless(n, s, reply)
<1> DEFINE m == Head(net[n])
           g == GapSigRevSaved(disk[n], m)
           s == SigRevSaved(disk[n], m)
           f == IF CanRevoke(disk[n]) THEN disk[n] ELSE FailChannel(disk[n])
<1>1. net[n] \in Seq(Messages) /\ net[n] # <<>> /\ m.type \in Settling
  BY DEF GapSigRevHandler, SigRevHandler, Receiving, Settling, Inv, Types
<1>2. ~Behind(net[n], 0)
  <2>1. 1 \in 1 .. Len(net[n]) /\ 1 > 0 BY <1>1
  <2>2. net[n][1] = m BY <1>1
  <2> QED BY <1>1, <2>1, <2>2 DEF Behind
<1>3. disk[n] \in PlainCom /\ m.Sig \in Tx /\ RevPart(m)
  BY <1>1, MessageFields, HeadMessage DEF GapSigRevHandler, SigRevHandler, Inv, Types, Settling
<1>4. \/ Fail(n)
      \/ GapSigRevOK(disk[n], m) /\ Answer(n, g, <<SendREV(g)>>)
      \/ Answer(n, f, ReplyREV(disk[n]))
      \/ SigRevOK(disk[n], m) /\ Answer(n, s, <<SendREV(s)>>)
  BY Zenon DEF GapSigRevHandler, SigRevHandler
<1>5. CASE Answer(n, f, ReplyREV(disk[n]))
  <2>1. f \in PlainCom BY <1>3, PlainFail
  <2>2. Of(ReplyREV(disk[n]), "Rev") BY <1>3, ReplyOf
  <2> HIDE DEF f
  <2> QED BY <1>2, <1>5, <2>1, <2>2, RevBehind, Zenon DEF Harmless
<1>6. CASE GapSigRevOK(disk[n], m) /\ Answer(n, g, <<SendREV(g)>>)
  <2>1. Successor(n, g) /\ g.StateIdx > 0
    BY <1>3, <1>6, GapSigRevSuccessor, Zenon
  <2>2. g \in PlainCom BY <2>1 DEF Successor
  <2> HIDE DEF g
  <2>3. Of(<<SendREV(g)>>, "Rev") BY <2>1, <2>2, ReplyOf
  <2> QED BY <1>2, <1>6, <2>2, <2>3, RevBehind, Zenon DEF Harmless
<1>7. CASE SigRevOK(disk[n], m) /\ Answer(n, s, <<SendREV(s)>>)
  <2>1. Successor(n, s) /\ s.StateIdx > 0
    BY <1>3, <1>7, SigRevSuccessor, Zenon
  <2>2. s \in PlainCom BY <2>1 DEF Successor
  <2> HIDE DEF s
  <2>3. Of(<<SendREV(s)>>, "Rev") BY <2>1, <2>2, ReplyOf
  <2> QED BY <1>2, <1>7, <2>2, <2>3, RevBehind, Zenon DEF Harmless
<1> QED BY <1>4, <1>5, <1>6, <1>7, HarmlessRest

LEMMA RevHarmless ==
  ASSUME Inv, NEW n \in Node, RevHandler(n)
  PROVE  \E s, reply : Harmless(n, s, reply)
<1> DEFINE m == Head(net[n])
           s == RevSaved(disk[n], m)
<1>1. disk[n] \in PlainCom /\ RevPart(m)
  BY HeadMessage, MessageFields DEF RevHandler, Inv, Types
<1>2. \/ Ignore(n) \/ Fail(n)
      \/ Answer(n, disk[n], ReplyREV(disk[n]))
      \/ Answer(n, s, <<>>)
  BY Zenon DEF RevHandler
<1>3. s \in PlainCom /\ s.MyAmt = disk[n].MyAmt BY <1>1, PlainRev
<1>4. Of(ReplyREV(disk[n]), "Rev") BY <1>1, ReplyOf
<1>5. Of(<<>>, "Rev") BY DEF Of
<1> HIDE DEF m, s
<1>6. CASE Answer(n, disk[n], ReplyREV(disk[n]))
  BY <1>1, <1>4, <1>6, RevBehind, Zenon DEF Harmless
<1>7. CASE Answer(n, s, <<>>)
  BY <1>3, <1>5, <1>7, RevBehind, Zenon DEF Harmless
<1> QED BY <1>2, <1>6, <1>7, HarmlessRest

LEMMA ConsumeHarmless ==
  ASSUME Inv, NEW n \in Node, Consume(n)
  PROVE  net[n] # <<>> /\ \E s, reply : Harmless(n, s, reply)
<1>1. net[n] # <<>>
  BY Zenon DEF Consume, DeltaSigHandler, GapSigRevHandler, SigRevHandler, RevHandler, Receiving
<1> QED BY <1>1, DeltaSigHarmless, SettledHarmless, RevHarmless, Zenon DEF Consume

(* A step that opens nothing, moves no money of a closed node to which     *)
(* nothing comes that settles, and brings nothing of the kind to the peer  *)
(* of a closed node.                                                       *)
Calm ==
    /\ \A n \in Node : closed[n] => closed'[n]
    /\ \A n \in Node : closed[n] /\ Behind(net[n], 0) => disk'[n].MyAmt = disk[n].MyAmt
    /\ \A n \in Node, k \in Nat : closed[Peer(n)] /\ Behind(net[n], k) => Behind(net'[n], k)

LEMMA StillCalm ==
  ASSUME UNCHANGED <<disk, net>>, \A n \in Node : closed[n] => closed'[n]
  PROVE  Calm
  BY DEF Calm

(* What a handler makes of the queues.                                     *)
LEMMA ConsumeQueues ==
  ASSUME Inv, NEW n \in Node, Consume(n)
  PROVE  /\ closed' = closed
         /\ \A h \in Node : closed[h] /\ Behind(net[h], 0) => disk'[h].MyAmt = disk[h].MyAmt
         /\ \A k \in Nat : /\ Behind(net[n], k) => Behind(net'[n], k)
                           /\ k > 0 /\ Behind(net[n], k) => Behind(net'[n], k - 1)
                           /\ closed[n] /\ Behind(net[Peer(n)], k) => Behind(net'[Peer(n)], k)
<1> DEFINE p == Peer(n)
<1>1. p \in Node /\ p # n /\ \A h \in Node : h = n \/ h = p
  BY NodeAssumption DEF Node, Peer
<1>2. net[n] # <<>> /\ net[n] \in Seq(Messages) /\ net[p] \in Seq(Messages)
  BY <1>1, ConsumeHarmless DEF Inv, Types
<1>3. PICK s, reply : Harmless(n, s, reply) BY ConsumeHarmless
<1>4. Answer(n, s, reply) BY <1>3 DEF Harmless
<1>5. disk' = [disk EXCEPT ![n] = s] BY <1>4 DEF Answer, Save
<1>6. net' = [net EXCEPT ![n] = Tail(@), ![p] = @ \o reply] BY <1>4 DEF Answer
<1>7. closed' = closed
  BY DEF Consume, DeltaSigHandler, GapSigRevHandler, SigRevHandler, RevHandler
<1> HIDE DEF p
<1>8. net'[n] = Tail(net[n]) /\ net'[p] = net[p] \o reply
  BY <1>1, <1>6 DEF Inv, Types
<1>9. disk'[n] = s /\ disk'[p] = disk[p]
  BY <1>1, <1>5 DEF Inv, Types
<1>10. ASSUME NEW h \in Node, closed[h] /\ Behind(net[h], 0)
       PROVE  disk'[h].MyAmt = disk[h].MyAmt
  <2>1. CASE h = n BY <1>3, <1>9, <1>10, <2>1 DEF Harmless
  <2>2. CASE h = p BY <1>9, <2>2
  <2> QED BY <1>1, <2>1, <2>2
<1>11. ASSUME NEW k \in Nat, closed[n] /\ Behind(net[p], k) PROVE Behind(net'[p], k)
  <2>1. reply \in Seq(Messages) /\ Behind(reply, 0) BY <1>3, <1>11 DEF Harmless
  <2>2. Behind(net[p] \o reply, k) BY <1>2, <1>11, <2>1, BehindSent
  <2> QED BY <1>8, <2>2
<1>12. \A k \in Nat : /\ Behind(net[n], k) => Behind(net'[n], k)
                      /\ k > 0 /\ Behind(net[n], k) => Behind(net'[n], k - 1)
  BY <1>2, <1>8, BehindTail
<1> QED BY <1>7, <1>10, <1>11, <1>12 DEF p

LEMMA ConsumeCalm ==
  ASSUME Inv, NEW n \in Node, Consume(n)
  PROVE  Calm
<1>1. Peer(Peer(n)) = n /\ \A h \in Node : h = n \/ h = Peer(n)
  BY NodeAssumption DEF Node, Peer
<1>2. ASSUME NEW h \in Node, NEW k \in Nat, closed[Peer(h)], Behind(net[h], k)
      PROVE  Behind(net'[h], k)
  <2>1. CASE h = n BY <1>2, <2>1, ConsumeQueues
  <2>2. CASE h = Peer(n) BY <1>1, <1>2, <2>2, ConsumeQueues
  <2> QED BY <1>1, <2>1, <2>2
<1>3. \A h \in Node : closed[h] => closed'[h] BY ConsumeQueues
<1>4. \A h \in Node : closed[h] /\ Behind(net[h], 0) => disk'[h].MyAmt = disk[h].MyAmt
  BY ConsumeQueues
<1> QED BY <1>2, <1>3, <1>4 DEF Calm

(* A call of PushChannel saves no other amount, and sends a DeltaSig.      *)
LEMMA SavedCalm ==
  ASSUME Inv, NEW n \in Node, NEW s, disk' = [disk EXCEPT ![n] = s], s.MyAmt = disk[n].MyAmt,
         UNCHANGED closed,
         \/ net' = net
         \/ \E m \in Messages : /\ m.type = "DeltaSig"
                                /\ net' = [net EXCEPT ![Peer(n)] = Append(@, m)]
  PROVE  Calm
<1>1. \A h \in Node : disk'[h].MyAmt = disk[h].MyAmt BY DEF Inv, Types
<1>2. ASSUME NEW m \in Messages, m.type = "DeltaSig",
             net' = [net EXCEPT ![Peer(n)] = Append(@, m)],
             NEW h \in Node, NEW k \in Nat, Behind(net[h], k)
      PROVE  Behind(net'[h], k)
  <2>1. net[h] \in Seq(Messages) BY DEF Inv, Types
  <2>2. net'[h] = net[h] \/ net'[h] = Append(net[h], m)
    BY <1>2 DEF Inv, Types
  <2>3. Append(net[h], m) = net[h] \o <<m>> BY <2>1, Sending
  <2>4. <<m>> \in Seq(Messages) /\ Behind(<<m>>, 0) BY <1>2 DEF Behind, Settling
  <2>5. Behind(net[h] \o <<m>>, k) BY <1>2, <2>1, <2>4, BehindSent
  <2> QED BY <1>2, <2>2, <2>3, <2>5
<1> QED BY <1>1, <1>2 DEF Calm

(* The state that a push saves, and a failed one, when no save is undone.  *)
LEMMA SentAlone ==
  ASSUME raced' = {}, NEW n \in Node, NEW c \in Call, PushSend(n, c)
  PROVE  /\ disk' = [disk EXCEPT ![n] = [disk[n] EXCEPT !.Delta = - call[n][c].amt]]
         /\ disk[n].Delta = 0
         /\ \/ /\ net' = [net EXCEPT ![Peer(n)] =
                                Append(@, SendDeltaSig([disk[n] EXCEPT !.Delta = - call[n][c].amt]))]
               /\ call' = [call EXCEPT ![n][c] = [call[n][c] EXCEPT !.pc = "wait", !.seen = Nothing]]
            \/ net' = net /\ Return(n, c, "error")
<1> DEFINE v == View(n, c)
           st == [v EXCEPT !.Delta = - call[n][c].amt]
<1>1. CallSave(n, c, v, st) BY DEF PushSend
<1> HIDE DEF st
<1>2. v = disk[n] /\ disk' = [disk EXCEPT ![n] = st] BY <1>1, SavedAlone, Zenon DEF v
<1> QED BY <1>2 DEF PushSend, st

LEMMA FailSaveMarks ==
  ASSUME Inv, raced' = {}, NEW n \in Node, NEW c \in Call, FailSave(n, c)
  PROVE  \E s : Marked(disk[n], s) /\ disk' = [disk EXCEPT ![n] = s]
<1> DEFINE st == View(n, c)
<1>1. CallSave(n, c, st, FailChannel(st)) BY DEF FailSave
<1> HIDE DEF st
<1>2. st = disk[n] /\ disk' = [disk EXCEPT ![n] = FailChannel(st)]
  BY <1>1, SavedAlone, Zenon
<1>3. Marked(disk[n], FailChannel(st)) BY <1>2, MarkedSame DEF Inv, Types
<1> QED BY <1>2, <1>3

LEMMA PushSendCalm ==
  ASSUME Inv, PairInv, raced' = {}, NEW n \in Node, NEW c \in Call, PushSend(n, c)
  PROVE  Calm
<1> DEFINE s == [disk[n] EXCEPT !.Delta = - call[n][c].amt]
           m == SendDeltaSig(s)
<1>1. disk[n] \in PlainCom /\ call[n][c] \in CallState BY DEF Inv, Types
<1>2. - call[n][c].amt \in Int
  <2>1. call[n][c].amt \in PushAmt \cup {0} BY <1>1 DEF CallState
  <2>2. PushAmt \subseteq Nat /\ 0 \in Nat BY BoundAssumption
  <2>3. call[n][c].amt \in Nat BY <2>1, <2>2, Zenon
  <2> QED BY <2>3
<1>3. s \in PlainCom /\ s.MyAmt = disk[n].MyAmt BY <1>1, <1>2 DEF PlainCom
<1>4. m \in Messages /\ m.type = "DeltaSig" BY <1>3, SentDeltaSig DEF SendDeltaSig
<1>5. disk' = [disk EXCEPT ![n] = s] /\ closed' = closed
      /\ (net' = net \/ net' = [net EXCEPT ![Peer(n)] = Append(@, m)])
  BY SentAlone DEF PushSend
<1> HIDE DEF s, m
<1> QED BY <1>3, <1>4, <1>5, SavedCalm

LEMMA CallsCalm ==
  ASSUME Inv, PairInv, raced' = {}, NEW n \in Node, NEW c \in Call,
         \/ \E amt \in PushAmt : PushStart(n, c, amt)
         \/ UserCall(n, c) \/ PushTimeout(n, c)
  PROVE  Calm
<1>1. ASSUME NEW s, Marked(disk[n], s), disk' = [disk EXCEPT ![n] = s], UNCHANGED <<closed, net>>
      PROVE  Calm
  <2>1. s.MyAmt = disk[n].MyAmt BY <1>1 DEF Marked, SameBooks
  <2> QED BY <1>1, <2>1, SavedCalm
<1>2. ASSUME PushRefused(n, c) \/ PushDone(n, c) \/ CallReload(n, c) PROVE Calm
  BY <1>2, StillCalm DEF PushRefused, PushDone, CallReload, LoadState, db
<1>3. ASSUME PushNotAtRest(n, c) \/ PushTimeout(n, c) PROVE Calm
  <2>1. FailCall(n, c) /\ UNCHANGED <<closed, net>> BY <1>3 DEF PushNotAtRest, PushTimeout
  <2> QED BY <1>1, <2>1, FailMarks
<1>4. ASSUME FailSave(n, c) PROVE Calm
  <2>1. PICK s : Marked(disk[n], s) /\ disk' = [disk EXCEPT ![n] = s] BY <1>4, FailSaveMarks
  <2> QED BY <1>1, <1>4, <2>1 DEF FailSave
<1>5. ASSUME NEW amt \in PushAmt, PushStart(n, c, amt) PROVE Calm
  BY <1>5, StillCalm DEF PushStart, db
<1> QED BY <1>2, <1>3, <1>4, <1>5, PushSendCalm, Zenon DEF UserCall, CallStep

(* A request is only handled, or the record only saved, as closed.         *)
LEMMA SavedClosed ==
  ASSUME Inv, ~SaveRace, NEW n \in Node, SaveQchanUtxoData(n, TRUE)
  PROVE  closed'[n] /\ \A h \in Node : closed[h] => closed'[h]
  BY DEF SaveQchanUtxoData, Inv, Types

LEMMA ChainStays ==
  ASSUME Inv, ~SaveRace, NEW n \in Node, BreakChannel(n)
  PROVE  Calm
<1>1. \A h \in Node : closed[h] => closed'[h]
  BY DEF BreakChannel, SaveQchanUtxoData, Inv, Types
<1> QED BY <1>1, StillCalm DEF BreakChannel

LEMMA CStepCalm ==
  ASSUME Inv, PairInv, ~SaveRace, raced = {}, raced' = {}, CNext, conns' = 0
  PROVE  Calm
<1>1. \A h \in Node : closed[h] => closed[h] OBVIOUS
<1>2. ASSUME NEW n \in Node, Deliver(n) PROVE Calm
  <2>1. ASSUME Repopulate(n) PROVE Calm
    BY <2>1, StillCalm DEF Repopulate
  <2> QED BY <1>2, <2>1, ConsumeCalm, Zenon DEF Deliver
<1>3. ASSUME NEW n \in Node, NEW g \in Gen, FillClearToSend(n, g) PROVE Calm
  BY <1>3, StillCalm DEF FillClearToSend, db
<1>4. Protocol => Calm BY <1>2, <1>3, CallsCalm, Zenon DEF Protocol
<1>5. ASSUME NEW n \in Node, SendCloseReq(n) \/ CloseReqHandler(n) \/ CloseEvent(n) PROVE Calm
  BY <1>5, SavedClosed, StillCalm DEF SendCloseReq, CloseReqHandler, CloseEvent
<1>6. ASSUME UNCHANGED vars PROVE Calm
  BY <1>6, StillCalm DEF vars, db
<1>7. \A n, tx : CoopClose(n) \/ Confirm(tx) => UNCHANGED vars
  BY Zenon DEF CoopClose, Confirm
<1>8. A \in Node BY DEF Node
<1> QED BY <1>4, <1>5, <1>6, <1>7, <1>8, NoBreak, ChainStays, Zenon DEF CNext, Respond, Break

(* One request of n, as Asked has it.                                      *)
Sound(n, r) == closed[Peer(n)] /\ Behind(net[n], r.ahead)

LEMMA SoundStays ==
  ASSUME CInv, Calm, NEW n \in Node, NEW r \in Requests, Sound(n, r)
  PROVE  Sound(n, r)'
<1>1. Peer(n) \in Node /\ r.ahead \in Nat BY NodeFacts DEF Requests
<1> QED BY <1>1 DEF Sound, Calm

LEMMA AskedSame ==
  ASSUME CInv, Asked, Calm, req' = req
  PROVE  Asked'
<1> SUFFICES ASSUME NEW n \in Node, NEW i \in 1 .. Len(req[n]) PROVE Sound(n, req[n][i])'
  BY Zenon DEF Asked, Sound
<1>1. req[n] \in Seq(Requests) BY DEF CInv, CloseTypes
<1>2. req[n][i] \in Requests BY <1>1
<1>3. Sound(n, req[n][i]) BY DEF Asked, Sound
<1> QED BY <1>2, <1>3, SoundStays

LEMMA AskedConsume ==
  ASSUME CInv, Asked, NEW n \in Node, InOrder(n), Consume(n), MoveUp(n)
  PROVE  Asked'
<1> DEFINE r == [i \in 1 .. Len(req[n]) |-> [req[n][i] EXCEPT !.ahead = req[n][i].ahead - 1]]
<1>1. Calm BY ConsumeCalm DEF CInv
<1>2. req' = [req EXCEPT ![n] = r] BY DEF MoveUp
<1>3. req'[n] = r /\ \A h \in Node \ {n} : req'[h] = req[h] BY <1>2 DEF CInv, CloseTypes
<1>4. req[n] \in Seq(Requests) /\ Len(req[n]) \in Nat BY DEF CInv, CloseTypes
<1>5. Len(r) = Len(req[n]) BY <1>4
<1>6. ASSUME NEW i \in 1 .. Len(req[n])
      PROVE  closed'[Peer(n)] /\ Behind(net'[n], r[i].ahead)
  <2>1. req[n][i] \in Requests BY <1>4
  <2>2. req[n][i].ahead \in Nat /\ req[n][i].ahead > 0 BY <2>1 DEF InOrder, Requests
  <2>3. r[i].ahead = req[n][i].ahead - 1 BY <2>1 DEF Requests
  <2>4. closed[Peer(n)] /\ Behind(net[n], req[n][i].ahead) BY DEF Asked
  <2>5. Behind(net'[n], req[n][i].ahead - 1) BY <2>2, <2>4, ConsumeQueues DEF CInv
  <2>6. closed'[Peer(n)] BY <1>1, <2>4, NodeFacts DEF Calm
  <2> QED BY <2>3, <2>5, <2>6
<1> HIDE DEF r
<1>7. ASSUME NEW h \in Node, h # n, NEW i \in 1 .. Len(req[h])
      PROVE  closed'[Peer(h)] /\ Behind(net'[h], req[h][i].ahead)
  <2>1. req[h] \in Seq(Requests) BY DEF CInv, CloseTypes
  <2>2. req[h][i] \in Requests BY <2>1
  <2>3. PICK m \in Requests : m = req[h][i] BY <2>2
  <2>4. Sound(h, m) BY <2>3 DEF Asked, Sound
  <2>5. Sound(h, m)' BY <1>1, <2>3, <2>4, SoundStays
  <2> QED BY <2>3, <2>5 DEF Sound
<1> SUFFICES ASSUME NEW h \in Node, NEW i \in 1 .. Len(req'[h])
             PROVE  closed'[Peer(h)] /\ Behind(net'[h], req'[h][i].ahead)
  BY Zenon DEF Asked
<1> QED BY <1>3, <1>5, <1>6, <1>7

LEMMA AskedSent ==
  ASSUME CInv, Asked, ~SaveRace, NEW n \in Node, SendCloseReq(n)
  PROVE  Asked'
<1> DEFINE p == Peer(n)
           new == Request(n)
<1>1. p \in Node /\ Peer(p) = n BY NodeAssumption DEF Node, Peer
<1>2. Calm BY SavedClosed, StillCalm DEF CInv, SendCloseReq
<1>3. closed'[n] BY SavedClosed DEF CInv, SendCloseReq
<1>4. req[p] \in Seq(Requests) /\ net[p] \in Seq(Messages) /\ net' = net
  BY <1>1 DEF CInv, CloseTypes, Inv, Types, SendCloseReq
<1>5. new.ahead = Len(net[p]) BY DEF Request
<1>6. Behind(net[p], new.ahead)
  <2>1. Len(net[p]) \in Nat BY <1>4
  <2> QED BY <1>5, <2>1 DEF Behind
<1>7. \A h \in Node : req'[h] = IF h = p THEN Append(req[p], new) ELSE req[h]
  BY <1>1 DEF SendCloseReq, CInv, CloseTypes
<1> HIDE DEF p, new
<1>8. \A i \in 1 .. Len(Append(req[p], new)) :
         Append(req[p], new)[i] = new \/ (i \in 1 .. Len(req[p]) /\ Append(req[p], new)[i] = req[p][i])
  <2> DEFINE q == req[p]
  <2>1. q \in Seq(Requests) /\ Len(q) \in Nat BY <1>4
  <2> HIDE DEF q
  <2>2. Len(Append(q, new)) = Len(q) + 1 /\ Append(q, new)[Len(q) + 1] = new
        /\ \A i \in 1 .. Len(q) : Append(q, new)[i] = q[i]
    BY <2>1
  <2>3. \A i \in 1 .. Len(Append(q, new)) : i = Len(q) + 1 \/ i \in 1 .. Len(q) BY <2>1, <2>2
  <2>4. \A i \in 1 .. Len(Append(q, new)) :
           Append(q, new)[i] = new \/ (i \in 1 .. Len(q) /\ Append(q, new)[i] = q[i])
    BY <2>2, <2>3
  <2> QED BY <2>4 DEF q
<1> SUFFICES ASSUME NEW h \in Node, NEW i \in 1 .. Len(req'[h])
             PROVE  closed'[Peer(h)] /\ Behind(net'[h], req'[h][i].ahead)
  BY Zenon DEF Asked
<1>9. CASE req'[h][i] = new /\ h = p BY <1>1, <1>3, <1>4, <1>6, <1>9
<1>10. CASE i \in 1 .. Len(req[h]) /\ req'[h][i] = req[h][i]
  <2>1. closed[Peer(h)] /\ Behind(net[h], req[h][i].ahead) BY <1>10 DEF Asked
  <2>2. closed'[Peer(h)] BY <1>2, <2>1, NodeFacts DEF Calm
  <2> QED BY <1>4, <1>10, <2>1, <2>2
<1> QED BY <1>7, <1>8, <1>9, <1>10

LEMMA AskedHandled ==
  ASSUME CInv, Asked, ~SaveRace, NEW n \in Node, CloseReqHandler(n)
  PROVE  Asked'
<1>1. req[n] \in Seq(Requests) /\ req[n] # <<>> /\ net' = net
  BY DEF CInv, CloseTypes, CloseReqHandler, Arriving
<1>2. Calm BY SavedClosed, StillCalm DEF CInv, CloseReqHandler
<1>3. \A h \in Node : req'[h] = IF h = n THEN Tail(req[n]) ELSE req[h]
  BY DEF CloseReqHandler, CInv, CloseTypes
<1>4. \A i \in 1 .. Len(Tail(req[n])) :
         i + 1 \in 1 .. Len(req[n]) /\ Tail(req[n])[i] = req[n][i + 1]
  <2> DEFINE q == req[n]
  <2>1. q \in Seq(Requests) /\ q # <<>> /\ Len(q) \in Nat BY <1>1
  <2> HIDE DEF q
  <2>2. Len(Tail(q)) = Len(q) - 1 BY <2>1
  <2>3. \A i \in 1 .. Len(Tail(q)) : i + 1 \in 1 .. Len(q) /\ Tail(q)[i] = q[i + 1]
    BY <2>1, <2>2
  <2> QED BY <2>3 DEF q
<1> SUFFICES ASSUME NEW h \in Node, NEW i \in 1 .. Len(req'[h])
             PROVE  closed'[Peer(h)] /\ Behind(net'[h], req'[h][i].ahead)
  BY Zenon DEF Asked
<1>5. \E j \in 1 .. Len(req[h]) : req'[h][i] = req[h][j]
  <2>1. CASE h = n BY <1>3, <1>4, <2>1
  <2>2. CASE h # n BY <1>3, <2>2
  <2> QED BY <2>1, <2>2
<1>6. PICK j \in 1 .. Len(req[h]) : req'[h][i] = req[h][j] BY <1>5
<1>7. closed[Peer(h)] /\ Behind(net[h], req[h][j].ahead) BY DEF Asked
<1>8. closed'[Peer(h)] BY <1>2, <1>7, NodeFacts DEF Calm
<1> QED BY <1>1, <1>6, <1>7, <1>8

LEMMA CStepAsked ==
  ASSUME CInv, PairInv, Asked, ~SaveRace, raced = {}, raced' = {}, CNext, conns' = 0
  PROVE  Asked'
<1>1. Calm BY CStepCalm DEF CInv
<1>2. ASSUME UNCHANGED req PROVE Asked' BY <1>1, <1>2, AskedSame
<1>3. ASSUME NEW n \in Node, Deliver(n) PROVE Asked'
  BY <1>2, <1>3, AskedConsume, Zenon DEF Deliver, closing
<1>4. Protocol => Asked' BY <1>2, <1>3, Zenon DEF Protocol, closing
<1>5. ASSUME NEW n \in Node, CoopClose(n) \/ CloseEvent(n) \/ Break(n) PROVE UNCHANGED req
  BY <1>5, Zenon DEF CoopClose, CloseEvent, Break
<1>6. ASSUME NEW tx, Confirm(tx) PROVE UNCHANGED req
  BY <1>6, Zenon DEF Confirm
<1>7. Inv /\ A \in Node BY DEF CInv, Node
<1> QED BY <1>2, <1>4, <1>5, <1>6, <1>7, NoBreak, AskedSent, AskedHandled, Zenon DEF CNext, Respond

-----------------------------------------------------------------------------
LEMMA PayingStays ==
  ASSUME Calm, NEW n \in Node, NEW tx, Paying(n, tx)
  PROVE  Paying(n, tx)'
<1>1. A \in Node /\ B \in Node /\ Peer(n) \in {A, B} /\ n \in {A, B} /\ 0 \in Nat
  BY NodeFacts DEF Node
<1>2. closed'[A] /\ closed'[B] /\ Behind(net'[n], 0) BY <1>1 DEF Paying, Calm
<1>3. disk'[n].MyAmt = disk[n].MyAmt BY <1>1 DEF Paying, Calm
<1>4. (Share(n))' = Share(n) BY <1>1, <1>3 DEF Share
<1> QED BY <1>2, <1>4 DEF Paying

(* A close that can be made pays A what the book says, less the fee.       *)
LEMMA ClosingPays ==
  ASSUME Inv, NEW n \in Node, Closable(n)
  PROVE  SimpleCloseTx(n).pays[A] = OutAmt(Share(n))
<1> DEFINE amt(m) == IF m = n THEN disk[n].MyAmt ELSE Value - disk[n].MyAmt
           pay(m) == IF amt(m) # 0 THEN amt(m) - Fee ELSE 0
<1>1. A \in Node /\ B \in Node /\ A # B /\ n \in {A, B} BY NodeAssumption DEF Node
<1>2. disk[n].MyAmt \in Int BY PlainFields DEF Inv, Types
<1>3. \A m \in Node : SimpleCloseTx(n).pays[m] = pay(m) BY DEF SimpleCloseTx
<1>4. pay(A) # 0 => pay(A) >= MinOutput BY <1>1, <1>3 DEF Closable
<1>5. Share(n) = amt(A) BY <1>1 DEF Share
<1>6. amt(A) \in Int BY <1>2, ValueAssumption
<1>7. pay(A) = IF amt(A) # 0 THEN amt(A) - Fee ELSE 0 OBVIOUS
<1>8. SimpleCloseTx(n).pays[A] = pay(A) BY <1>1, <1>3
<1> HIDE DEF amt, pay
<1>9. pay(A) = OutAmt(amt(A)) BY <1>4, <1>6, <1>7, ValueAssumption DEF OutAmt
<1> QED BY <1>5, <1>8, <1>9

LEMMA FrozenHandled ==
  ASSUME CInv, Asked, Frozen, ~SaveRace, NEW n \in Node, CloseReqHandler(n)
  PROVE  Frozen'
<1>1. Calm BY SavedClosed, StillCalm DEF CInv, CloseReqHandler
<1>2. req[n] \in Seq(Requests) /\ req[n] # <<>> /\ req[n][1].ahead = 0
      /\ req[n][1].tx = SimpleCloseTx(n) /\ Closable(n)
      /\ UNCHANGED <<disk, net>> /\ pool' = pool \cup {SimpleCloseTx(n)}
  BY DEF CInv, CloseTypes, CloseReqHandler, Arriving, CloseSigGood
<1>3. 1 \in 1 .. Len(req[n]) BY <1>2
<1>4. closed[Peer(n)] /\ Behind(net[n], 0) BY <1>2, <1>3 DEF Asked
<1>5. closed'[n] /\ closed'[Peer(n)]
  BY <1>1, <1>4, SavedClosed, NodeFacts DEF CInv, CloseReqHandler, Calm
<1>6. closed'[A] /\ closed'[B] BY <1>5 DEF Node, Peer
<1>7. SimpleCloseTx(n).pays[A] = OutAmt(Share(n)) BY <1>2, ClosingPays DEF CInv
<1>8. (Share(n))' = Share(n) BY <1>2 DEF Share
<1>0. PICK t : t = SimpleCloseTx(n) OBVIOUS
<1>9. t.pays[A] = OutAmt(Share(n)) /\ pool' = pool \cup {t} BY <1>0, <1>2, <1>7
<1>10. Paying(n, t)' BY <1>2, <1>4, <1>6, <1>8, <1>9 DEF Paying
<1> SUFFICES ASSUME NEW tx \in pool', tx.by = Coop PROVE \E h \in Node : Paying(h, tx)'
  BY Zenon DEF Frozen
<1>11. CASE tx \in pool
  <2>1. PICK h \in Node : Paying(h, tx) BY <1>11 DEF Frozen
  <2> QED BY <1>1, <2>1, PayingStays
<1>12. CASE tx = t BY <1>10, <1>12 DEF Paying
<1> QED BY <1>9, <1>11, <1>12

LEMMA FrozenStays ==
  ASSUME Frozen, Calm, \A tx \in pool' \ pool : tx.by # Coop
  PROVE  Frozen'
<1> SUFFICES ASSUME NEW tx \in pool', tx.by = Coop PROVE \E h \in Node : Paying(h, tx)'
  BY Zenon DEF Frozen
<1>1. tx \in pool OBVIOUS
<1>2. PICK h \in Node : Paying(h, tx) BY <1>1 DEF Frozen
<1> QED BY <1>2, PayingStays

LEMMA CStepFrozen ==
  ASSUME CInv, PairInv, Asked, Frozen, ~SaveRace, raced = {}, raced' = {}, CNext, conns' = 0
  PROVE  Frozen'
<1>1. Calm BY CStepCalm DEF CInv
<1>2. ASSUME UNCHANGED pool PROVE Frozen' BY <1>1, <1>2, FrozenStays
<1>3. Protocol => UNCHANGED pool BY Zenon DEF Protocol, Deliver, closing
<1>4. ASSUME NEW n \in Node, CoopClose(n) \/ CloseEvent(n) \/ SendCloseReq(n) PROVE UNCHANGED pool
  BY <1>4, Zenon DEF CoopClose, CloseEvent, SendCloseReq
<1>5. ASSUME NEW tx, Confirm(tx) PROVE UNCHANGED pool
  BY <1>5, Zenon DEF Confirm
<1>6. ASSUME NEW n \in Node, Break(n) PROVE Frozen'
  <2>1. CommitTx(n).by # Coop BY CoopAssumption DEF CommitTx
  <2>2. pool' = pool \cup {CommitTx(n)} BY <1>6 DEF Break
  <2> QED BY <1>1, <2>1, <2>2, FrozenStays
<1>7. Inv /\ A \in Node BY DEF CInv, Node
<1> QED BY <1>2, <1>3, <1>4, <1>5, <1>6, <1>7, NoBreak, FrozenHandled, Zenon DEF CNext, Respond

-----------------------------------------------------------------------------
(* The pushes behind the books, until the connection breaks.               *)

(* Of the calls cs of a node, which may be any of C.                       *)
Went(cs, C)  == {c \in C : cs[c].pc \in {"wait", "ok", "failed", "error", "lost"}}
Oks(cs, C)   == {c \in C : cs[c].pc = "ok"}
Waits(cs, C) == {c \in C : cs[c].pc = "wait"}
Paid(cs, I)  == Total([c \in Call |-> cs[c].amt], I)

(* The pushes in I are settled, the one in F is the pending one of state x.*)
Entered(cs, C, x, I, F) ==
    /\ I \subseteq Went(cs, C) /\ IsFiniteSet(I)
    /\ Oks(cs, C) \subseteq I
    /\ Waits(cs, C) \subseteq I \cup F
    /\ Owed(x) = 0 => F = {}
    /\ Owed(x) # 0 => \E c \in Went(cs, C) \ I : F = {c} /\ cs[c].amt = Owed(x)

(* x has what it opened with, less what it paid, and what y paid it.       *)
Account(x, y, o, a, b) ==
    x.MyAmt = (o - a) + (b + (IF Counted(y, x) THEN Owed(y) ELSE 0))

Opened(n) == IF n = A THEN InitAmtA ELSE Value - InitAmtA

Tally(I, F) ==
    \A n \in Node :
        /\ Entered(call[n], CallsOf(n), disk[n], I[n], F[n])
        /\ Account(disk[n], disk[Peer(n)], Opened(n),
                   Paid(call[n], I[n]), Paid(call[Peer(n)], I[Peer(n)]))

Tallied == \E I \in [Node -> SUBSET Call], F \in [Node -> SUBSET Call] : Tally(I, F)

LEMMA AmtType ==
  ASSUME NEW cs \in [Call -> CallState], NEW c \in Call
  PROVE  cs[c].amt \in Nat
<1>1. cs[c].amt \in PushAmt \cup {0} BY DEF CallState
<1>2. PushAmt \subseteq Nat /\ 0 \in Nat BY BoundAssumption
<1> QED BY <1>1, <1>2, Zenon

LEMMA PaidType ==
  ASSUME NEW cs \in [Call -> CallState], NEW I \in SUBSET Call, IsFiniteSet(I)
  PROVE  Paid(cs, I) \in Int
<1> DEFINE a == [c \in Call |-> cs[c].amt]
<1>1. \A c \in I : a[c] \in Int BY AmtType
<1> HIDE DEF a
<1>2. Total(a, I) \in Int BY <1>1, TotalSums
<1> QED BY <1>2 DEF Paid, a

LEMMA PaidMore ==
  ASSUME NEW cs \in [Call -> CallState], NEW I \in SUBSET Call, IsFiniteSet(I),
         NEW c \in Call, c \notin I
  PROVE  IsFiniteSet(I \cup {c}) /\ Paid(cs, I \cup {c}) = Paid(cs, I) + cs[c].amt
<1> DEFINE a == [d \in Call |-> cs[d].amt]
<1>1. \A d \in I : a[d] \in Int BY AmtType
<1>2. a[c] \in Int /\ a[c] = cs[c].amt BY AmtType
<1> HIDE DEF a
<1>3. Total(a, I \cup {c}) = Total(a, I) + a[c] BY <1>1, <1>2, TotalAdd
<1>4. IsFiniteSet(I \cup {c}) BY FS_AddElement
<1> QED BY <1>2, <1>3, <1>4 DEF Paid, a

LEMMA PaidSame ==
  ASSUME NEW cs \in [Call -> CallState], NEW ds \in [Call -> CallState],
         NEW I \in SUBSET Call, IsFiniteSet(I), \A c \in I : ds[c].amt = cs[c].amt
  PROVE  Paid(ds, I) = Paid(cs, I)
<1> DEFINE a == [d \in Call |-> cs[d].amt]
           b == [d \in Call |-> ds[d].amt]
<1>1. \A d \in I : a[d] \in Int /\ a[d] = b[d] BY AmtType
<1> HIDE DEF a, b
<1>2. Total(a, I) = Total(b, I) BY <1>1, TotalSame
<1> QED BY <1>2 DEF Paid, a, b

LEMMA WentCalls ==
  ASSUME NEW cs, NEW C \in SUBSET Call
  PROVE  Went(cs, C) \in SUBSET Call /\ Oks(cs, C) \subseteq Went(cs, C)
  BY DEF Went, Oks

LEMMA OwedType ==
  ASSUME NEW x \in PlainCom
  PROVE  Owed(x) \in Nat /\ \A y : Counted(x, y) => Owed(x) # 0
  BY PlainFields DEF Owed, Counted

(* The books of one node when its pending push is settled.                 *)
LEMMA PaidSettles ==
  ASSUME NEW cs \in [Call -> CallState], NEW C \in SUBSET Call, NEW x, NEW I, NEW F,
         Entered(cs, C, x, I, F), Owed(x) # 0
  PROVE  Paid(cs, I \cup F) = Paid(cs, I) + Owed(x)
<1>1. PICK c \in Went(cs, C) \ I : F = {c} /\ cs[c].amt = Owed(x)
  BY DEF Entered
<1>2. c \in Call /\ I \in SUBSET Call /\ IsFiniteSet(I) BY WentCalls DEF Entered
<1>3. IsFiniteSet(I \cup {c}) /\ Paid(cs, I \cup {c}) = Paid(cs, I) + cs[c].amt
  BY <1>1, <1>2, PaidMore
<1> QED BY <1>1, <1>3

LEMMA EnteredSettles ==
  ASSUME NEW cs \in [Call -> CallState], NEW C \in SUBSET Call, NEW x, NEW I, NEW F,
         Entered(cs, C, x, I, F), Owed(x) # 0, NEW s, Owed(s) = 0
  PROVE  Entered(cs, C, s, I \cup F, {})
<1>1. PICK c \in Went(cs, C) \ I : F = {c} /\ cs[c].amt = Owed(x)
  BY DEF Entered
<1>2. IsFiniteSet(I) BY DEF Entered
<1>3. IsFiniteSet(I \cup {c}) BY <1>2, FS_AddElement
<1> QED BY <1>1, <1>3 DEF Entered

(* When its calls move on, and what it owes does not change.               *)
LEMMA EnteredMoves ==
  ASSUME NEW cs \in [Call -> CallState], NEW C \in SUBSET Call, NEW x, NEW s,
         NEW I, NEW F, Entered(cs, C, x, I, F), Owed(s) = Owed(x),
         NEW ds \in [Call -> CallState],
         \A d \in Went(cs, C) : d \in Went(ds, C) /\ ds[d].amt = cs[d].amt,
         Oks(ds, C) \subseteq I, Waits(ds, C) \subseteq I \cup F
  PROVE  Entered(ds, C, s, I, F) /\ Paid(ds, I) = Paid(cs, I)
<1>1. I \in SUBSET Call /\ IsFiniteSet(I) /\ \A c \in I : ds[c].amt = cs[c].amt
  BY WentCalls DEF Entered
<1>2. Paid(ds, I) = Paid(cs, I) BY <1>1, PaidSame
<1>3. Owed(s) # 0 => \E c \in Went(ds, C) \ I : F = {c} /\ ds[c].amt = Owed(s)
  BY DEF Entered
<1>4. I \subseteq Went(ds, C) /\ (Owed(s) = 0 => F = {}) BY DEF Entered
<1> QED BY <1>1, <1>2, <1>3, <1>4 DEF Entered

LEMMA EnteredSame ==
  ASSUME NEW cs, NEW C, NEW x, NEW s, NEW I, NEW F, Entered(cs, C, x, I, F), Owed(s) = Owed(x)
  PROVE  Entered(cs, C, s, I, F)
  BY DEF Entered

(* When it pushes.                                                         *)
LEMMA EnteredOffers ==
  ASSUME NEW cs \in [Call -> CallState], NEW C \in SUBSET Call, NEW x, NEW s,
         NEW I, NEW F, Entered(cs, C, x, I, F), Owed(x) = 0, NEW c \in C, c \notin I,
         NEW ds \in [Call -> CallState], c \in Went(ds, C), ds[c].amt = Owed(s), Owed(s) # 0,
         \A d \in Went(cs, C) : d \in Went(ds, C) /\ ds[d].amt = cs[d].amt,
         Oks(ds, C) \subseteq Oks(cs, C), Waits(ds, C) \subseteq Waits(cs, C) \cup {c}
  PROVE  Entered(ds, C, s, I, {c})
<1>1. c \in Went(ds, C) \ I /\ ds[c].amt = Owed(s) OBVIOUS
<1>2. I \subseteq Went(ds, C) /\ Oks(ds, C) \subseteq I /\ Waits(ds, C) \subseteq I \cup {c}
      /\ IsFiniteSet(I)
  BY DEF Entered
<1> QED BY <1>1, <1>2 DEF Entered

(* Both accounts, when x becomes s.                                        *)
LEMMA AccountsRest ==
  ASSUME NEW x, NEW y, NEW s, NEW o, NEW u, NEW a, NEW b,
         Account(x, y, o, a, b), Account(y, x, u, b, a),
         Rests(x, s, y) \/ Offers(x, s, y)
  PROVE  Account(s, y, o, a, b) /\ Account(y, s, u, b, a)
<1>1. CASE Rests(x, s, y) BY <1>1 DEF Rests, Account
<1>2. CASE Offers(x, s, y) BY <1>2 DEF Offers, Account
<1> QED BY <1>1, <1>2

LEMMA AccountsTake ==
  ASSUME NEW x \in PlainCom, NEW y \in PlainCom, NEW s,
         NEW o \in Int, NEW u \in Int, NEW a \in Int, NEW b \in Int,
         Account(x, y, o, a, b), Account(y, x, u, b, a), Takes(x, s, y)
  PROVE  Account(s, y, o, a, b) /\ Account(y, s, u, b, a)
<1>1. Owed(y) \in Int /\ x.MyAmt \in Int BY OwedType, PlainFields
<1>2. /\ ~Counted(y, x) /\ Counted(y, s) /\ s.MyAmt = x.MyAmt + Owed(y) /\ Owed(s) = Owed(x)
      /\ Counted(s, y) <=> Counted(x, y)
  BY DEF Takes
<1>3. x.MyAmt = (o - a) + (b + 0) BY <1>2 DEF Account
<1>4. s.MyAmt = (o - a) + (b + Owed(y)) BY <1>1, <1>2, <1>3
<1> QED BY <1>2, <1>4 DEF Account

LEMMA AccountsSettle ==
  ASSUME NEW x \in PlainCom, NEW y \in PlainCom, NEW s,
         NEW o \in Int, NEW u \in Int, NEW a \in Int, NEW b \in Int, NEW c,
         Account(x, y, o, a, b), Account(y, x, u, b, a), Settles(x, s, y), c = a + Owed(x)
  PROVE  Account(s, y, o, c, b) /\ Account(y, s, u, b, c)
<1>1. Owed(x) \in Int /\ Owed(y) \in Int /\ x.MyAmt \in Int BY OwedType, PlainFields
<1>2. /\ Counted(x, y) /\ ~Counted(s, y) /\ s.MyAmt = x.MyAmt - Owed(x) /\ Owed(s) = 0
      /\ Counted(y, s) <=> Counted(y, x)
  BY DEF Settles
<1> DEFINE e == IF Counted(y, x) THEN Owed(y) ELSE 0
<1>3. e \in Int /\ e = (IF Counted(y, s) THEN Owed(y) ELSE 0) BY <1>1, <1>2
<1>4. x.MyAmt = (o - a) + (b + e) BY DEF Account
<1> HIDE DEF e
<1>5. s.MyAmt = (o - c) + (b + e) BY <1>1, <1>2, <1>3, <1>4
<1>6. y.MyAmt = (u - b) + (a + Owed(x)) BY <1>2 DEF Account
<1>7. y.MyAmt = (u - b) + (c + 0) BY <1>1, <1>6
<1> QED BY <1>2, <1>3, <1>5, <1>7 DEF Account

LEMMA TallyTypes ==
  ASSUME Inv, NEW n \in Node
  PROVE  /\ call[n] \in [Call -> CallState] /\ CallsOf(n) \in SUBSET Call
         /\ disk[n] \in PlainCom /\ disk[Peer(n)] \in PlainCom
         /\ Opened(n) \in Int /\ Peer(n) \in Node /\ Peer(n) # n /\ Peer(Peer(n)) = n
         /\ \A h \in Node : h = n \/ h = Peer(n)
<1>1. Peer(n) \in Node /\ Peer(n) # n /\ Peer(Peer(n)) = n /\ \A h \in Node : h = n \/ h = Peer(n)
  BY NodeAssumption DEF Node, Peer
<1>2. Opened(n) \in Int BY ValueAssumption, BoundAssumption DEF Opened
<1>3. CallsOf(n) \in SUBSET Call BY DEF CallsOf, Call
<1> QED BY <1>1, <1>2, <1>3 DEF Inv, Types

LEMMA TallyPaid ==
  ASSUME Inv, NEW I, NEW F, Tally(I, F), NEW n \in Node
  PROVE  /\ Entered(call[n], CallsOf(n), disk[n], I[n], F[n])
         /\ Account(disk[n], disk[Peer(n)], Opened(n),
                    Paid(call[n], I[n]), Paid(call[Peer(n)], I[Peer(n)]))
         /\ I[n] \in SUBSET Call /\ IsFiniteSet(I[n]) /\ Paid(call[n], I[n]) \in Int
<1>1. Entered(call[n], CallsOf(n), disk[n], I[n], F[n]) BY DEF Tally
<1>2. I[n] \in SUBSET Call /\ IsFiniteSet(I[n])
  BY <1>1, WentCalls, TallyTypes DEF Entered
<1>3. Paid(call[n], I[n]) \in Int BY <1>2, PaidType, TallyTypes
<1> QED BY <1>1, <1>2, <1>3 DEF Tally

(* Only n's stored state and n's calls change.                             *)
LEMMA TallyMoves ==
  ASSUME Inv, NEW n \in Node, NEW I \in [Node -> SUBSET Call], NEW F \in [Node -> SUBSET Call],
         Tally(I, F), disk'[Peer(n)] = disk[Peer(n)], call'[Peer(n)] = call[Peer(n)],
         NEW J \in SUBSET Call, NEW G \in SUBSET Call,
         Entered(call'[n], CallsOf(n), disk'[n], J, G),
         Account(disk'[n], disk[Peer(n)], Opened(n),
                 Paid(call'[n], J), Paid(call[Peer(n)], I[Peer(n)])),
         Account(disk[Peer(n)], disk'[n], Opened(Peer(n)),
                 Paid(call[Peer(n)], I[Peer(n)]), Paid(call'[n], J))
  PROVE  Tallied'
<1> DEFINE K == [I EXCEPT ![n] = J]
           H == [F EXCEPT ![n] = G]
           p == Peer(n)
<1>1. p \in Node /\ p # n /\ Peer(p) = n /\ \A h \in Node : h = n \/ h = p
  BY TallyTypes
<1>2. K \in [Node -> SUBSET Call] /\ H \in [Node -> SUBSET Call] OBVIOUS
<1>3. K[n] = J /\ H[n] = G /\ K[p] = I[p] /\ H[p] = F[p] BY <1>1
<1>4. Entered(call[p], CallsOf(p), disk[p], I[p], F[p]) BY <1>1, TallyPaid
<1> HIDE DEF K, H, p
<1>5. ASSUME NEW h \in Node
      PROVE  /\ Entered(call'[h], CallsOf(h), disk'[h], K[h], H[h])
             /\ Account(disk'[h], disk'[Peer(h)], Opened(h),
                        Paid(call'[h], K[h]), Paid(call'[Peer(h)], K[Peer(h)]))
  <2>1. CASE h = n BY <1>3, <2>1 DEF p
  <2>2. CASE h = p
    <3>1. call'[p] = call[p] /\ disk'[p] = disk[p] BY DEF p
    <3>2. Entered(call'[p], CallsOf(p), disk'[p], K[p], H[p]) BY <1>3, <1>4, <3>1
    <3>3. Account(disk'[p], disk'[n], Opened(p), Paid(call'[p], K[p]), Paid(call'[n], K[n]))
      BY <1>3, <3>1 DEF p
    <3> QED BY <1>1, <2>2, <3>2, <3>3
  <2> QED BY <1>1, <2>1, <2>2
<1>6. Tally(K, H)' BY <1>5 DEF Tally
<1> QED BY <1>2, <1>6 DEF Tallied

(* A handler, or any other step that no call takes.                        *)
LEMMA TallyBooks ==
  ASSUME Inv, Inv', Tallied, BooksMove, call' = call
  PROVE  Tallied'
<1>1. PICK I \in [Node -> SUBSET Call], F \in [Node -> SUBSET Call] : Tally(I, F)
  BY DEF Tallied
<1>2. PICK n \in Node : /\ disk'[Peer(n)] = disk[Peer(n)]
                        /\ Moves(disk[n], disk'[n], disk[Peer(n)])
  BY DEF BooksMove
<1> DEFINE p == Peer(n)
           x == disk[n]
           y == disk[p]
           s == disk'[n]
           a == Paid(call[n], I[n])
           b == Paid(call[p], I[p])
           o == Opened(n)
           u == Opened(p)
           C == CallsOf(n)
           cs == call[n]
           J == I[n]
           G == F[n]
<1>3. p \in Node /\ Peer(p) = n BY TallyTypes
<1>4. /\ cs \in [Call -> CallState] /\ C \in SUBSET Call /\ x \in PlainCom /\ y \in PlainCom
      /\ o \in Int /\ u \in Int
  BY <1>3, TallyTypes
<1>5. Entered(cs, C, x, J, G) /\ a \in Int /\ b \in Int /\ a = Paid(cs, J)
      /\ Account(x, y, o, a, b) /\ Account(y, x, u, b, a)
  BY <1>1, <1>3, TallyPaid
<1>6. J \in SUBSET Call /\ G \in SUBSET Call OBVIOUS
<1> DEFINE Held(K, H) == /\ Entered(cs, C, s, K, H)
                         /\ Account(s, y, o, Paid(cs, K), b)
                         /\ Account(y, s, u, b, Paid(cs, K))
<1>7. ASSUME NEW K \in SUBSET Call, NEW H \in SUBSET Call, Held(K, H) PROVE Tallied'
  <2>1. Entered(call'[n], CallsOf(n), disk'[n], K, H) BY <1>7
  <2>2. /\ Account(disk'[n], disk[p], Opened(n), Paid(call'[n], K), Paid(call[p], I[p]))
        /\ Account(disk[p], disk'[n], Opened(p), Paid(call[p], I[p]), Paid(call'[n], K))
    BY <1>7
  <2> QED BY <1>1, <1>2, <2>1, <2>2, TallyMoves
<1> HIDE DEF p, x, y, s, a, b, o, u, C, cs, J, G
<1>8. CASE Rests(x, s, y)
  <2>1. Account(s, y, o, a, b) /\ Account(y, s, u, b, a) BY <1>5, <1>8, AccountsRest
  <2>2. Entered(cs, C, s, J, G) BY <1>5, <1>8, EnteredSame DEF Rests
  <2>3. Held(J, G) BY <1>5, <2>1, <2>2
  <2> QED BY <1>6, <1>7, <2>3
<1>9. CASE Takes(x, s, y)
  <2>1. Account(s, y, o, a, b) /\ Account(y, s, u, b, a)
    BY <1>4, <1>5, <1>9, AccountsTake
  <2>2. Entered(cs, C, s, J, G) BY <1>5, <1>9, EnteredSame DEF Takes
  <2>3. Held(J, G) BY <1>5, <2>1, <2>2
  <2> QED BY <1>6, <1>7, <2>3
<1>10. CASE Settles(x, s, y)
  <2>1. Counted(x, y) /\ Owed(s) = 0 BY <1>10 DEF Settles
  <2>2. Entered(cs, C, s, J \cup G, {}) /\ Paid(cs, J \cup G) = a + Owed(x)
    <3>1. Entered(cs, C, x, J, G) /\ cs \in [Call -> CallState] /\ C \in SUBSET Call
          /\ x \in PlainCom
      BY <1>4, <1>5
    <3>2. Owed(x) # 0 BY <1>4, <2>1, OwedType
    <3>3. Paid(cs, J \cup G) = Paid(cs, J) + Owed(x) BY <3>1, <3>2, PaidSettles
    <3>4. Entered(cs, C, s, J \cup G, {}) BY <2>1, <3>1, <3>2, EnteredSettles
    <3> QED BY <1>5, <3>3, <3>4
  <2> DEFINE c == Paid(cs, J \cup G)
  <2>3. c = a + Owed(x) BY <2>2
  <2> HIDE DEF c
  <2>4. Account(s, y, o, c, b) /\ Account(y, s, u, b, c)
    BY <1>4, <1>5, <1>10, <2>3, AccountsSettle
  <2>5. Held(J \cup G, {}) BY <2>2, <2>4 DEF c
  <2>6. J \cup G \in SUBSET Call /\ {} \in SUBSET Call BY <1>6
  <2> HIDE DEF Held
  <2> QED BY <1>7, <2>5, <2>6
<1>11. Rests(x, s, y) \/ Takes(x, s, y) \/ Settles(x, s, y)
  BY <1>2 DEF Moves, x, y, s, p
<1> QED BY <1>8, <1>9, <1>10, <1>11

(* A step of a call that sends nothing.                                    *)
LEMMA TallyCalls ==
  ASSUME Inv, Inv', NEW n \in Node, NEW I \in [Node -> SUBSET Call], NEW F \in [Node -> SUBSET Call],
         Tally(I, F), disk'[Peer(n)] = disk[Peer(n)], call'[Peer(n)] = call[Peer(n)],
         Rests(disk[n], disk'[n], disk[Peer(n)]),
         \A d \in Went(call[n], CallsOf(n)) :
            d \in Went(call'[n], CallsOf(n)) /\ call'[n][d].amt = call[n][d].amt,
         Oks(call'[n], CallsOf(n)) \subseteq I[n],
         Waits(call'[n], CallsOf(n)) \subseteq I[n] \cup F[n]
  PROVE  Tallied'
<1> DEFINE p == Peer(n)
           x == disk[n]
           y == disk[p]
           s == disk'[n]
           a == Paid(call[n], I[n])
           b == Paid(call[p], I[p])
           o == Opened(n)
           u == Opened(p)
           C == CallsOf(n)
           cs == call[n]
           ds == call'[n]
           J == I[n]
           G == F[n]
<1>1. p \in Node /\ Peer(p) = n BY TallyTypes
<1>2. /\ cs \in [Call -> CallState] /\ ds \in [Call -> CallState] /\ C \in SUBSET Call
      /\ J \in SUBSET Call /\ G \in SUBSET Call
  BY TallyTypes DEF Inv, Types
<1>3. Entered(cs, C, x, J, G) /\ Account(x, y, o, a, b) /\ Account(y, x, u, b, a)
      /\ a = Paid(cs, J)
  BY <1>1, TallyPaid
<1>4. /\ Rests(x, s, y)
      /\ \A d \in Went(cs, C) : d \in Went(ds, C) /\ ds[d].amt = cs[d].amt
      /\ Oks(ds, C) \subseteq J /\ Waits(ds, C) \subseteq J \cup G
  OBVIOUS
<1> HIDE DEF p, x, y, s, a, b, o, u, C, cs, ds, J, G
<1>5. Account(s, y, o, a, b) /\ Account(y, s, u, b, a) BY <1>3, <1>4, AccountsRest
<1>6. Owed(s) = Owed(x) BY <1>4 DEF Rests
<1>7. Entered(ds, C, s, J, G) /\ Paid(ds, J) = Paid(cs, J) BY <1>2, <1>3, <1>4, <1>6, EnteredMoves
<1>8. Account(s, y, o, Paid(ds, J), b) /\ Account(y, s, u, b, Paid(ds, J))
  BY <1>3, <1>5, <1>7
<1> QED BY <1>2, <1>7, <1>8, TallyMoves DEF p, x, y, s, b, o, u, C, cs, ds

(* Only the calls that a user of the node makes ever start.                *)
Started == \A n \in Node, c \in Call : call[n][c].pc # "idle" => c \in CallsOf(n)

Gone == {"wait", "ok", "failed", "error", "lost"}

LEMMA CallsMove ==
  ASSUME Inv, NEW n \in Node, NEW c \in Call, NEW new \in CallState,
         call' = [call EXCEPT ![n][c] = new]
  PROVE  /\ call'[Peer(n)] = call[Peer(n)]
         /\ \A d \in Call : call'[n][d] = IF d = c THEN new ELSE call[n][d]
         /\ \A h \in Node, d \in Call : call'[h][d] = IF h = n /\ d = c THEN new ELSE call[h][d]
<1>1. Peer(n) \in Node /\ Peer(n) # n BY TallyTypes
<1> QED BY <1>1 DEF Inv, Types

LEMMA ReturnMoves ==
  ASSUME Inv, NEW n \in Node, NEW c \in Call, NEW pc \in PC, Return(n, c, pc)
  PROVE  \E new \in CallState : /\ new.pc = pc /\ new.amt = call[n][c].amt
                                /\ call' = [call EXCEPT ![n][c] = new]
<1> DEFINE new == [call[n][c] EXCEPT !.pc = pc, !.gen = 0, !.seen = Nothing]
<1>1. call[n][c] \in CallState
  BY DEF Inv, Types
<1>2. new \in CallState
  BY <1>1, CallEnded, Zenon
<1>3. new.pc = pc /\ new.amt = call[n][c].amt
  BY <1>1 DEF CallState
<1>4. call' = [call EXCEPT ![n][c] = new]
  BY <1>1 DEF Return, Inv, Types, CallState
<1> HIDE DEF new
<1> QED BY <1>2, <1>3, <1>4

(* A call moves on and sends nothing; it succeeds only with nothing owed.  *)
LEMMA TallyStep ==
  ASSUME Inv, Inv', Tallied, NEW n \in Node, NEW c \in Call, NEW new \in CallState,
         call' = [call EXCEPT ![n][c] = new],
         disk'[Peer(n)] = disk[Peer(n)], Rests(disk[n], disk'[n], disk[Peer(n)]),
         call[n][c].pc \in Gone => new.pc \in Gone /\ new.amt = call[n][c].amt,
         new.pc = "wait" => call[n][c].pc = "wait",
         new.pc = "ok" => call[n][c].pc = "wait" /\ Owed(disk[n]) = 0
  PROVE  Tallied'
<1>1. PICK I \in [Node -> SUBSET Call], F \in [Node -> SUBSET Call] : Tally(I, F)
  BY DEF Tallied
<1>2. /\ call'[Peer(n)] = call[Peer(n)]
      /\ \A d \in Call : call'[n][d] = IF d = c THEN new ELSE call[n][d]
  BY CallsMove
<1>3. CallsOf(n) \in SUBSET Call BY TallyTypes
<1>4. Entered(call[n], CallsOf(n), disk[n], I[n], F[n]) BY <1>1, TallyPaid
<1>5. \A d \in Went(call[n], CallsOf(n)) :
         d \in Went(call'[n], CallsOf(n)) /\ call'[n][d].amt = call[n][d].amt
  BY <1>2, <1>3 DEF Went, Gone
<1>6. Oks(call'[n], CallsOf(n)) \subseteq I[n]
  <2> SUFFICES ASSUME NEW d \in CallsOf(n), call'[n][d].pc = "ok" PROVE d \in I[n]
    BY DEF Oks
  <2>1. CASE d # c
    <3>1. call[n][d].pc = "ok" BY <1>2, <1>3, <2>1
    <3> QED BY <1>4, <3>1 DEF Entered, Oks
  <2>2. CASE d = c
    <3>1. call[n][d].pc = "wait" /\ Owed(disk[n]) = 0 BY <1>2, <1>3, <2>2
    <3> QED BY <1>4, <3>1 DEF Entered, Waits
  <2> QED BY <2>1, <2>2
<1>7. Waits(call'[n], CallsOf(n)) \subseteq I[n] \cup F[n]
  <2> SUFFICES ASSUME NEW d \in CallsOf(n), call'[n][d].pc = "wait" PROVE d \in I[n] \cup F[n]
    BY DEF Waits
  <2>1. call[n][d].pc = "wait" BY <1>2, <1>3
  <2> QED BY <1>4, <2>1 DEF Entered, Waits
<1> QED BY <1>1, <1>2, <1>5, <1>6, <1>7, TallyCalls

LEMMA StillRests == \A x, y : Rests(x, x, y)
  BY DEF Rests

LEMMA MarkRests ==
  ASSUME Inv, NEW n \in Node, disk' = [disk EXCEPT ![n] = FailChannel(disk[n])]
  PROVE  disk'[Peer(n)] = disk[Peer(n)] /\ Rests(disk[n], disk'[n], disk[Peer(n)])
<1>1. Peer(n) \in Node /\ Peer(n) # n /\ disk[n] \in PlainCom /\ disk[Peer(n)] \in PlainCom
  BY TallyTypes
<1>2. disk'[n] = FailChannel(disk[n]) /\ disk'[Peer(n)] = disk[Peer(n)]
  BY <1>1 DEF Inv, Types
<1>3. Marked(disk[n], FailChannel(disk[n])) BY <1>1, MarkedSame
<1>4. Rests(disk[n], FailChannel(disk[n]), disk[Peer(n)])
  BY <1>1, <1>3, DroppedRests DEF Marked
<1> QED BY <1>2, <1>4

LEMMA SameRests ==
  ASSUME Inv, NEW n \in Node, disk' = [disk EXCEPT ![n] = disk[n]] \/ disk' = disk
  PROVE  disk'[Peer(n)] = disk[Peer(n)] /\ Rests(disk[n], disk'[n], disk[Peer(n)])
<1>1. disk' = disk BY DEF Inv, Types
<1> QED BY <1>1, StillRests

LEMMA PushStartTally ==
  ASSUME Inv, Inv', Tallied, NEW n \in Node, NEW c \in Call, NEW amt \in PushAmt,
         PushStart(n, c, amt)
  PROVE  Tallied'
<1> DEFINE new == [pc |-> "enter", gen |-> gen[n], amt |-> amt, seen |-> Nothing]
<1>1. new \in CallState /\ new.pc = "enter" BY DEF CallState, PC, Inv, Types, Nothing
<1>2. call' = [call EXCEPT ![n][c] = new] /\ call[n][c].pc = "idle" /\ disk' = disk
  BY DEF PushStart, db
<1> HIDE DEF new
<1> QED BY <1>1, <1>2, SameRests, TallyStep DEF Gone

LEMMA PushRefusedTally ==
  ASSUME Inv, Inv', Tallied, NEW n \in Node, NEW c \in Call, PushRefused(n, c)
  PROVE  Tallied'
<1>1. PICK new \in CallState : /\ new.pc = "refused" /\ call' = [call EXCEPT ![n][c] = new]
  BY ReturnMoves DEF PushRefused, PC
<1>2. call[n][c].pc = "enter" /\ disk' = disk
  BY DEF PushRefused, HasChannel
<1> QED BY <1>1, <1>2, SameRests, TallyStep DEF Gone

(* In the first connection a call that fails the channel does so at once.  *)
LEMMA FailsAtOnce ==
  ASSUME Inv, Inv', conns' = 0, raced' = {}, NEW n \in Node, NEW c \in Call, FailCall(n, c)
  PROVE  /\ disk' = [disk EXCEPT ![n] = FailChannel(disk[n])]
         /\ \E new \in CallState : /\ new.pc = "failed" /\ new.amt = call[n][c].amt
                                    /\ call' = [call EXCEPT ![n][c] = new]
<1>1. ~LoadState(n, c, "failing")
  <2> SUFFICES ASSUME LoadState(n, c, "failing") PROVE FALSE
    OBVIOUS
  <2> DEFINE new == [call[n][c] EXCEPT !.pc = "failing", !.seen = <<disk[n]>>]
  <2>1. call[n][c] \in CallState BY DEF Inv, Types
  <2>2. call'[n][c] = new BY DEF LoadState, Inv, Types
  <2>3. new.pc = "failing" BY <2>1 DEF CallState
  <2> HIDE DEF new
  <2> QED BY <2>2, <2>3 DEF Inv, CallGen
<1>2. CallSave(n, c, disk[n], FailChannel(disk[n])) /\ Return(n, c, "failed")
  BY <1>1, Zenon DEF FailCall
<1>3. disk' = [disk EXCEPT ![n] = FailChannel(disk[n])] BY <1>2, SavedAlone, Zenon
<1>4. "failed" \in PC BY DEF PC
<1>5. \E new \in CallState : /\ new.pc = "failed" /\ new.amt = call[n][c].amt
                             /\ call' = [call EXCEPT ![n][c] = new]
  BY <1>2, <1>4, ReturnMoves
<1> QED BY <1>3, <1>5

LEMMA PushNotAtRestTally ==
  ASSUME Inv, Inv', Tallied, conns' = 0, raced' = {}, NEW n \in Node, NEW c \in Call,
         PushNotAtRest(n, c)
  PROVE  Tallied'
<1>1. FailCall(n, c) /\ call[n][c].pc = "enter" BY DEF PushNotAtRest, HasChannel
<1>2. PICK new \in CallState : /\ new.pc = "failed" /\ call' = [call EXCEPT ![n][c] = new]
  BY <1>1, FailsAtOnce
<1>3. disk' = [disk EXCEPT ![n] = FailChannel(disk[n])] BY <1>1, FailsAtOnce
<1> QED BY <1>1, <1>2, <1>3, MarkRests, TallyStep DEF Gone

LEMMA PushTimeoutTally ==
  ASSUME Inv, Inv', Tallied, conns' = 0, raced' = {}, NEW n \in Node, NEW c \in Call,
         PushTimeout(n, c)
  PROVE  Tallied'
<1>1. FailCall(n, c) /\ call[n][c].pc = "wait" BY DEF PushTimeout, Waiting
<1>2. PICK new \in CallState : /\ new.pc = "failed" /\ new.amt = call[n][c].amt
                               /\ call' = [call EXCEPT ![n][c] = new]
  BY <1>1, FailsAtOnce
<1>3. disk' = [disk EXCEPT ![n] = FailChannel(disk[n])] BY <1>1, FailsAtOnce
<1> QED BY <1>1, <1>2, <1>3, MarkRests, TallyStep DEF Gone

(* Nor does it reload ahead of its save.                                   *)
LEMMA LoadsAtOnce ==
  ASSUME Inv, Inv', conns = 0, conns' = 0, NEW n \in Node, NEW c \in Call
  PROVE  ~CallReload(n, c) /\ ~FailSave(n, c)
<1>1. ASSUME CallReload(n, c) PROVE FALSE
  <2> DEFINE new == [call[n][c] EXCEPT !.pc = "enter", !.seen = <<disk[n]>>]
  <2>1. call[n][c] \in CallState BY DEF Inv, Types
  <2>2. call'[n][c] = new BY <1>1 DEF CallReload, LoadState, Inv, Types
  <2>3. new.seen = <<disk[n]>> BY <2>1 DEF CallState
  <2>4. <<disk[n]>> # Nothing BY DEF Nothing
  <2> HIDE DEF new
  <2> QED BY <2>2, <2>3, <2>4 DEF Inv, CallGen
<1>2. ASSUME FailSave(n, c) PROVE FALSE
  BY <1>2 DEF FailSave, Inv, CallGen
<1> QED BY <1>1, <1>2

(* The token is back: nothing is pending, so the push is settled.          *)
LEMMA PushDoneTally ==
  ASSUME Inv, Inv', PairInv, Tallied, conns = 0, NEW n \in Node, NEW c \in Call, PushDone(n, c)
  PROVE  Tallied'
<1>1. PICK new \in CallState : /\ new.pc = "ok" /\ new.amt = call[n][c].amt
                               /\ call' = [call EXCEPT ![n][c] = new]
  BY ReturnMoves DEF PushDone, PC
<1>2. Waiting(n, c) /\ call[n][c].pc = "wait" /\ disk' = disk /\ cts[n][call[n][c].gen]
  BY DEF PushDone, Waiting, db
<1>3. call[n][c].gen = 1
  BY <1>2, CallInstance, GenFacts DEF PairInv, Amounts
<1>4. Resting(disk[n]) BY <1>2, <1>3 DEF PairInv, TokensSpent
<1>5. Owed(disk[n]) = 0 BY <1>4 DEF Resting, Owed
<1> QED BY <1>1, <1>2, <1>5, SameRests, TallyStep DEF Gone

(* A push is pending from now on.                                          *)
LEMMA PushSendTally ==
  ASSUME Inv, Inv', PairInv, Started, Tallied, raced' = {}, NEW n \in Node, NEW c \in Call,
         PushSend(n, c)
  PROVE  Tallied'
<1>1. PICK I \in [Node -> SUBSET Call], F \in [Node -> SUBSET Call] : Tally(I, F)
  BY DEF Tallied
<1> DEFINE amt == call[n][c].amt
           p == Peer(n)
           x == disk[n]
           y == disk[p]
           s == disk'[n]
           o == Opened(n)
           u == Opened(p)
           a == Paid(call[n], I[n])
           b == Paid(call[p], I[p])
           C == CallsOf(n)
           cs == call[n]
           ds == call'[n]
           J == I[n]
           G == F[n]
<1>2. call[n][c].pc = "enter" /\ c \in C BY DEF PushSend, HasChannel, Started
<1>3. amt \in PushAmt /\ amt > 0 /\ amt \in Nat
  <2>1. call[n][c] \in CallState BY DEF Inv, Types
  <2>2. amt > 0 BY <1>2 DEF PairInv, Amounts
  <2>3. amt \in PushAmt \cup {0} BY <2>1 DEF CallState
  <2> HIDE DEF amt
  <2>4. amt # 0 BY <2>2
  <2> QED BY <2>2, <2>3, <2>4, BoundAssumption
<1>4. PICK new \in CallState : /\ new.pc \in {"wait", "error"} /\ new.amt = amt
                               /\ call' = [call EXCEPT ![n][c] = new]
  <2>1. CASE call' = [call EXCEPT ![n][c] = [call[n][c] EXCEPT !.pc = "wait", !.seen = Nothing]]
    <3> DEFINE new == [call[n][c] EXCEPT !.pc = "wait", !.seen = Nothing]
    <3>1. call[n][c] \in CallState BY DEF Inv, Types
    <3>2. new \in CallState
      <4>1. "wait" \in PC /\ Nothing \in Seq(StatCom) BY DEF PC, Nothing
      <4> QED BY <3>1, <4>1, CallWith, Zenon
    <3>3. new.pc = "wait" /\ new.amt = amt BY <3>1 DEF CallState
    <3> HIDE DEF new, amt
    <3> QED BY <2>1, <3>2, <3>3 DEF new
  <2>2. CASE Return(n, c, "error")
    <3>1. PICK new \in CallState : /\ new.pc = "error" /\ new.amt = amt
                                   /\ call' = [call EXCEPT ![n][c] = new]
      BY <2>2, ReturnMoves DEF PC
    <3> QED BY <3>1
  <2> QED BY <2>1, <2>2, SentAlone
<1>5. call'[p] = call[p] /\ \A d \in Call : ds[d] = IF d = c THEN new ELSE cs[d]
  BY <1>4, CallsMove
<1>6. p \in Node /\ p # n /\ Peer(p) = n BY TallyTypes
<1>7. /\ x \in PlainCom /\ y \in PlainCom /\ conns \in Nat
      /\ net[n] \in Seq(Messages) /\ net[p] \in Seq(Messages)
      /\ Pair(x, y, net[n], net[p], conns)
  BY Knowing
<1>8. disk' = [disk EXCEPT ![n] = [x EXCEPT !.Delta = - amt]] /\ x.Delta = 0
  BY SentAlone
<1>9. s = [x EXCEPT !.Delta = - amt] /\ disk'[p] = y /\ s \in PlainCom
  BY <1>6, <1>8 DEF Inv, Types
<1>10. s.StateIdx = x.StateIdx /\ s.MyAmt = x.MyAmt /\ s.Delta = - amt /\ s.Collision = x.Collision
  <2> HIDE DEF amt, s, x
  <2> QED BY <1>7, <1>9 DEF PlainCom
<1>11. /\ cs \in [Call -> CallState] /\ ds \in [Call -> CallState] /\ C \in SUBSET Call
       /\ J \in SUBSET Call /\ G \in SUBSET Call
  BY TallyTypes DEF Inv, Types
<1>12. Entered(cs, C, x, J, G) /\ Account(x, y, o, a, b) /\ Account(y, x, u, b, a) /\ a = Paid(cs, J)
  BY <1>1, <1>6, TallyPaid
<1>13. cs[c].pc = "enter" /\ call'[n] = ds /\ disk'[n] = s BY <1>2
<1>14. c \in Call OBVIOUS
<1> HIDE DEF amt, p, x, y, s, o, u, a, b, C, cs, ds, J, G
<1>15. Offers(x, s, y) BY <1>3, <1>7, <1>8, <1>9, <1>10, PushOffers
<1>16. Owed(s) = amt /\ Owed(s) # 0 /\ Owed(x) = 0
  BY <1>3, <1>8, <1>10 DEF Owed
<1>17. c \notin J /\ c \notin Went(cs, C) BY <1>12, <1>13 DEF Entered, Went
<1>18. ds[c] = new /\ \A d \in Call : d # c => ds[d] = cs[d] BY <1>5, <1>14
<1>19. c \in Went(ds, C) /\ ds[c].amt = Owed(s) BY <1>2, <1>4, <1>16, <1>18 DEF Went
<1>20. /\ \A d \in Went(cs, C) : d \in Went(ds, C) /\ ds[d].amt = cs[d].amt
       /\ Oks(ds, C) \subseteq Oks(cs, C) /\ Waits(ds, C) \subseteq Waits(cs, C) \cup {c}
  BY <1>4, <1>11, <1>17, <1>18 DEF Went, Oks, Waits
<1>21. Entered(ds, C, s, J, {c}) /\ Paid(ds, J) = Paid(cs, J)
  <2>1. c \in C /\ Owed(x) = 0 /\ Owed(s) # 0 BY <1>2, <1>16
  <2>2. Entered(ds, C, s, J, {c})
    BY <1>11, <1>12, <1>17, <1>19, <1>20, <2>1, EnteredOffers
  <2>3. IsFiniteSet(J) /\ \A d \in J : ds[d].amt = cs[d].amt
    BY <1>12, <1>20 DEF Entered
  <2>4. Paid(ds, J) = Paid(cs, J) BY <1>11, <2>3, PaidSame
  <2> QED BY <2>2, <2>4
<1>22. Account(s, y, o, a, b) /\ Account(y, s, u, b, a) BY <1>12, <1>15, AccountsRest
<1>23. Account(s, y, o, Paid(ds, J), b) /\ Account(y, s, u, b, Paid(ds, J))
  BY <1>12, <1>21, <1>22
<1>24. {c} \in SUBSET Call BY <1>14
<1>25. /\ disk'[Peer(n)] = disk[Peer(n)] /\ call'[Peer(n)] = call[Peer(n)]
       /\ Entered(call'[n], CallsOf(n), disk'[n], J, {c})
       /\ Account(disk'[n], disk[Peer(n)], Opened(n),
                  Paid(call'[n], J), Paid(call[Peer(n)], I[Peer(n)]))
       /\ Account(disk[Peer(n)], disk'[n], Opened(Peer(n)),
                  Paid(call[Peer(n)], I[Peer(n)]), Paid(call'[n], J))
  BY <1>5, <1>9, <1>13, <1>21, <1>23 DEF p, y, o, u, b, C
<1> QED BY <1>1, <1>11, <1>24, <1>25, TallyMoves

LEMMA CallsTally ==
  ASSUME Inv, Inv', PairInv, Started, Tallied, conns = 0, conns' = 0, raced' = {},
         NEW n \in Node, NEW c \in Call,
         \/ \E amt \in PushAmt : PushStart(n, c, amt)
         \/ UserCall(n, c) \/ PushTimeout(n, c)
  PROVE  Tallied'
  BY PushStartTally, PushRefusedTally, PushNotAtRestTally, PushSendTally, PushDoneTally,
     PushTimeoutTally, LoadsAtOnce, Zenon DEF UserCall, CallStep

(* A step of a call that was made changes nothing but its own record.      *)
LEMMA CallTouched ==
  ASSUME Inv, NEW n \in Node, NEW c \in Call, UserCall(n, c) \/ PushTimeout(n, c)
  PROVE  call[n][c].pc # "idle" /\ \E new : call' = [call EXCEPT ![n][c] = new]
<1>1. call[n][c].pc # "idle"
  BY Zenon DEF UserCall, CallStep, CallReload, FailSave, PushRefused, PushNotAtRest, PushSend,
     PushDone, PushTimeout, HasChannel, Waiting
<1>2. \A pc : Return(n, c, pc) => \E new : call' = [call EXCEPT ![n][c] = new]
  BY DEF Return
<1>3. \A pc : LoadState(n, c, pc) => \E new : call' = [call EXCEPT ![n][c] = new]
  BY DEF LoadState
<1>4. FailCall(n, c) => \E new : call' = [call EXCEPT ![n][c] = new]
  BY <1>2, <1>3, Zenon DEF FailCall
<1>5. PushSend(n, c) => \E new : call' = [call EXCEPT ![n][c] = new]
  BY <1>2 DEF PushSend
<1> QED BY <1>1, <1>2, <1>3, <1>4, <1>5, Zenon DEF UserCall, CallStep, CallReload, FailSave,
     PushRefused, PushNotAtRest, PushDone, PushTimeout

LEMMA CallsStarted ==
  ASSUME Inv, Started, NEW n \in Node, NEW c \in Call,
         \/ \E amt \in PushAmt : PushStart(n, c, amt)
         \/ UserCall(n, c) \/ PushTimeout(n, c)
  PROVE  Started'
<1>1. c \in CallsOf(n) /\ \A h \in Node, d \in Call : (h = n /\ d = c) \/ call'[h][d] = call[h][d]
  <2>1. ASSUME NEW amt \in PushAmt, PushStart(n, c, amt)
        PROVE  c \in CallsOf(n) /\ \A h \in Node, d \in Call : (h = n /\ d = c) \/ call'[h][d] = call[h][d]
    <3>1. call' = [call EXCEPT ![n][c] = [pc |-> "enter", gen |-> gen[n], amt |-> amt,
                                          seen |-> Nothing]]
          /\ c \in CallsOf(n)
      BY <2>1 DEF PushStart
    <3> QED BY <3>1 DEF Inv, Types
  <2>2. ASSUME NEW new, call' = [call EXCEPT ![n][c] = new]
        PROVE  \A h \in Node, d \in Call : (h = n /\ d = c) \/ call'[h][d] = call[h][d]
    BY <2>2 DEF Inv, Types
  <2>3. ASSUME UserCall(n, c) \/ PushTimeout(n, c)
        PROVE  call[n][c].pc # "idle" /\ \E new : call' = [call EXCEPT ![n][c] = new]
    BY <2>3, CallTouched
  <2> QED BY <2>1, <2>2, <2>3 DEF Started
<1> QED BY <1>1 DEF Started

(* No other step touches a call while the connection lasts.                *)
LEMMA OthersCalls ==
  ASSUME Inv, CNext, conns' = 0,
         \A n \in Node, c \in Call :
            /\ \A amt \in PushAmt : ~PushStart(n, c, amt)
            /\ ~UserCall(n, c) /\ ~PushTimeout(n, c)
  PROVE  call' = call
<1>1. ASSUME NEW n \in Node, Deliver(n) PROVE call' = call
  <2>1. Consume(n) => call' = call
    BY Zenon DEF Consume, DeltaSigHandler, GapSigRevHandler, SigRevHandler, RevHandler
  <2>2. Repopulate(n) => call' = call BY Zenon DEF Repopulate
  <2> QED BY <1>1, <2>1, <2>2, Zenon DEF Deliver
<1>2. ASSUME NEW n \in Node, NEW g \in Gen, FillClearToSend(n, g) PROVE call' = call
  BY <1>2 DEF FillClearToSend
<1>3. Protocol => call' = call BY <1>1, <1>2, Zenon DEF Protocol
<1>4. ASSUME NEW n \in Node, CoopClose(n) \/ SendCloseReq(n) \/ CloseReqHandler(n) \/ CloseEvent(n)
                             \/ Break(n)
      PROVE  call' = call
  BY <1>4 DEF CoopClose, SendCloseReq, CloseReqHandler, CloseEvent, Break, BreakChannel, vars
<1>5. ASSUME NEW tx, Confirm(tx) PROVE call' = call
  BY <1>5 DEF Confirm, vars
<1>6. A \in Node BY DEF Node
<1> QED BY <1>3, <1>4, <1>5, <1>6, NoBreak, Zenon DEF CNext, Respond

LEMMA CStepTally ==
  ASSUME Inv, Inv', PairInv, Started, Tallied, ~SaveRace, raced = {}, raced' = {}, CNext, conns = 0, conns' = 0
  PROVE  Started' /\ Tallied'
<1>1. CASE \E n \in Node, c \in Call :
             \/ \E amt \in PushAmt : PushStart(n, c, amt)
             \/ UserCall(n, c) \/ PushTimeout(n, c)
  BY <1>1, CallsTally, CallsStarted
<1>2. CASE ~(\E n \in Node, c \in Call :
             \/ \E amt \in PushAmt : PushStart(n, c, amt)
             \/ UserCall(n, c) \/ PushTimeout(n, c))
  <2>1. call' = call BY <1>2, OthersCalls
  <2>2. LedgerKept BY CStepPair
  <2>3. BooksMove BY <2>1, <2>2 DEF LedgerKept
  <2>4. Started' BY <2>1 DEF Started
  <2> QED BY <2>1, <2>3, <2>4, TallyBooks
<1> QED BY <1>1, <1>2

(* While the connection has not broken.                                    *)
Unbroken == Started /\ Tallied /\ Asked /\ Frozen

LEMMA InitUnbroken ==
  ASSUME CInit
  PROVE  Unbroken
<1>1. Inv BY InitInv DEF CInit
<1>2. \A n \in Node : /\ disk[n].MyAmt = Opened(n) /\ disk[n].Delta = 0
                      /\ \A c \in Call : call[n][c].pc = "idle"
  BY DEF CInit, Init, InitState, Opened
<1>3. Started BY <1>2 DEF Started
<1>4. Asked /\ Frozen BY DEF CInit, Asked, Frozen
<1> DEFINE I == [n \in Node |-> {}]
<1>5. Tally(I, I)
  <2> SUFFICES ASSUME NEW n \in Node
               PROVE  /\ Entered(call[n], CallsOf(n), disk[n], I[n], I[n])
                      /\ Account(disk[n], disk[Peer(n)], Opened(n),
                                 Paid(call[n], I[n]), Paid(call[Peer(n)], I[Peer(n)]))
    BY DEF Tally
  <2>1. Peer(n) \in Node /\ Opened(n) \in Int /\ CallsOf(n) \in SUBSET Call BY <1>1, TallyTypes
  <2>2. Owed(disk[n]) = 0 /\ ~Counted(disk[Peer(n)], disk[n])
    BY <1>2, <2>1 DEF Owed, Counted
  <2>3. IsFiniteSet({}) BY FS_EmptySet
  <2>4. Oks(call[n], CallsOf(n)) = {} /\ Waits(call[n], CallsOf(n)) = {}
    BY <1>2, <2>1 DEF Oks, Waits
  <2>5. Entered(call[n], CallsOf(n), disk[n], {}, {}) BY <2>2, <2>3, <2>4 DEF Entered
  <2>6. Paid(call[n], {}) = 0 /\ Paid(call[Peer(n)], {}) = 0 BY TotalEmpty DEF Paid
  <2>7. Account(disk[n], disk[Peer(n)], Opened(n), 0, 0)
    BY <1>2, <2>1, <2>2 DEF Account
  <2> QED BY <2>1, <2>5, <2>6, <2>7
<1>6. I \in [Node -> SUBSET Call] OBVIOUS
<1>7. Tallied BY <1>5, <1>6 DEF Tallied
<1> QED BY <1>3, <1>4, <1>7 DEF Unbroken

LEMMA RestUnbroken ==
  ASSUME Unbroken, UNCHANGED cvars
  PROVE  Unbroken'
<1>1. UNCHANGED <<disk, closed, call, net, req, pool>> BY DEF cvars, vars, db, closing
<1>2. Started' BY <1>1 DEF Unbroken, Started
<1>3. Asked' BY <1>1 DEF Unbroken, Asked
<1>4. Frozen' BY <1>1 DEF Unbroken, Frozen, Paying, Share
<1>5. Tallied' BY <1>1 DEF Unbroken, Tallied, Tally
<1> QED BY <1>2, <1>3, <1>4, <1>5 DEF Unbroken

(* The invariant of the channel with its closes, until the connection      *)
(* breaks.                                                                 *)
CPair == ~SaveRace /\ conns = 0 => PairInv /\ Unbroken

LEMMA InitCPair == CInit => CPair
<1> SUFFICES ASSUME CInit PROVE CPair OBVIOUS
<1>1. PairInv BY InitPair DEF CInit
<1> QED BY <1>1, InitUnbroken DEF CPair

LEMMA CStepCPair == CInv /\ CInv' /\ CPair /\ [CNext]_cvars => CPair'
<1> SUFFICES ASSUME CInv, CInv', CPair, [CNext]_cvars, ~SaveRace, conns' = 0
             PROVE  PairInv' /\ Unbroken'
  BY DEF CPair
<1>1. Inv /\ Inv' BY DEF CInv
<1>2. conns = 0 BY <1>1, CConnsGrow
<1>3. raced = {} /\ raced' = {} BY <1>1, <1>2 DEF Inv, Revocations
<1>4. PairInv /\ Unbroken BY <1>2 DEF CPair
<1>5. PairInv' BY <1>1, <1>3, <1>4, CStepPair
<1>6. CASE CNext
  BY <1>1, <1>2, <1>3, <1>4, <1>5, <1>6, CStepTally, CStepAsked, CStepFrozen DEF Unbroken
<1>7. CASE UNCHANGED cvars BY <1>4, <1>5, <1>7, RestUnbroken
<1> QED BY <1>6, <1>7

-----------------------------------------------------------------------------
(* What a close pays.                                                      *)

LEMMA PaidSums ==
  ASSUME Inv, NEW n \in Node, NEW C \in SUBSET Call, IsFiniteSet(C)
  PROVE  PushSum(n, C) = Paid(call[n], C)
<1> DEFINE cs == call[n]
<1>0. cs \in [Call -> CallState] BY TallyTypes
<1>1. \A c \in C : cs[c].amt \in Int BY <1>0, AmtType
<1>2. PushSum(n, C) = Total(Amts(n), C) BY <1>1, PushSumTotal
<1> QED BY <1>2 DEF Amts, Paid

(* The pushes of the node itself that are settled, and those of the peer   *)
(* that are, with the pending one if the node has taken it, make its book. *)
LEMMA BookOf ==
  ASSUME Inv, Tallied, NEW n \in Node
  PROVE  \E C \in SUBSET SentCalls(n), D \in SUBSET SentCalls(Peer(n)) :
            /\ OkCalls(n) \subseteq C /\ OkCalls(Peer(n)) \subseteq D
            /\ PushSum(n, C) \in Int /\ PushSum(Peer(n), D) \in Int
            /\ disk[n].MyAmt = (Opened(n) - PushSum(n, C)) + PushSum(Peer(n), D)
<1>1. PICK I \in [Node -> SUBSET Call], F \in [Node -> SUBSET Call] : Tally(I, F)
  BY DEF Tallied
<1> DEFINE p == Peer(n)
           J == I[n]
           K == I[p]
           x == disk[n]
           y == disk[p]
           o == Opened(n)
           E == IF Counted(y, x) THEN F[p] ELSE {}
<1>2. p \in Node /\ x \in PlainCom /\ y \in PlainCom /\ o \in Int
      /\ call[n] \in [Call -> CallState] /\ call[p] \in [Call -> CallState]
      /\ CallsOf(p) \in SUBSET Call /\ CallsOf(n) \in SUBSET Call
  BY TallyTypes
<1>3. /\ Entered(call[n], CallsOf(n), x, J, F[n]) /\ Entered(call[p], CallsOf(p), y, K, F[p])
      /\ J \in SUBSET Call /\ K \in SUBSET Call /\ IsFiniteSet(J) /\ IsFiniteSet(K)
      /\ Paid(call[n], J) \in Int /\ Paid(call[p], K) \in Int
      /\ Account(x, y, o, Paid(call[n], J), Paid(call[p], K))
  BY <1>1, <1>2, TallyPaid
<1>4. \A h \in Node : /\ SentCalls(h) = Went(call[h], CallsOf(h))
                      /\ OkCalls(h) = Oks(call[h], CallsOf(h))
  BY DEF SentCalls, OkCalls, Went, Oks
<1>5. n \in Node /\ F[p] \in SUBSET Call BY <1>2
<1>6. J \in SUBSET SentCalls(n) /\ OkCalls(n) \subseteq J BY <1>3, <1>4 DEF Entered
<1>7. K \in SUBSET SentCalls(p) /\ OkCalls(p) \subseteq K BY <1>2, <1>3, <1>4 DEF Entered
<1> HIDE DEF p, J, K, x, y, o
<1>8. PushSum(n, J) = Paid(call[n], J) BY <1>3, PaidSums
<1>9. CASE ~Counted(y, x)
  <2>1. PushSum(p, K) = Paid(call[p], K) BY <1>2, <1>3, PaidSums
  <2>2. x.MyAmt = (o - Paid(call[n], J)) + (Paid(call[p], K) + 0) BY <1>3, <1>9 DEF Account
  <2>3. x.MyAmt = (o - PushSum(n, J)) + PushSum(p, K)
    BY <1>2, <1>3, <1>8, <2>1, <2>2
  <2> QED BY <1>3, <1>6, <1>7, <1>8, <2>1, <2>3 DEF p, x, o
<1>10. CASE Counted(y, x)
  <2> DEFINE L == K \cup F[p]
  <2>1. Owed(y) # 0 /\ Owed(y) \in Int BY <1>2, <1>10, OwedType
  <2>2. PICK c \in Went(call[p], CallsOf(p)) \ K : F[p] = {c} /\ call[p][c].amt = Owed(y)
    BY <1>3, <2>1 DEF Entered
  <2>3. L \in SUBSET SentCalls(p) /\ L \in SUBSET Call BY <1>2, <1>3, <1>4, <1>5, <1>7, <2>2
  <2>4. IsFiniteSet(L) /\ Paid(call[p], L) = Paid(call[p], K) + Owed(y)
    <3>1. c \in Call /\ c \notin K BY <1>2, <2>2, WentCalls
    <3>2. IsFiniteSet(K \cup {c}) BY <1>3, FS_AddElement
    <3>3. Paid(call[p], L) = Paid(call[p], K) + Owed(y) BY <1>2, <1>3, <2>1, PaidSettles
    <3> QED BY <2>2, <3>2, <3>3
  <2>5. OkCalls(p) \subseteq L BY <1>7
  <2> HIDE DEF L
  <2>6. PushSum(p, L) = Paid(call[p], L) BY <1>2, <2>3, <2>4, PaidSums
  <2>7. x.MyAmt = (o - Paid(call[n], J)) + (Paid(call[p], K) + Owed(y))
    BY <1>3, <1>10 DEF Account
  <2>8. x.MyAmt = (o - PushSum(n, J)) + PushSum(p, L)
    BY <1>8, <2>4, <2>6, <2>7
  <2>9. PushSum(p, L) \in Int BY <1>3, <2>1, <2>4, <2>6
  <2> QED BY <1>3, <1>6, <1>8, <2>3, <2>5, <2>8, <2>9 DEF p, x, o
<1> QED BY <1>9, <1>10

(* Of a closed node that paid what its book says, the book is its opening  *)
(* balance, less some of its pushes, plus some of its peer's.              *)
LEMMA PaysConfirmed ==
  ASSUME CInv, CPair, ~SaveRace
  PROVE  ClosePaysConfirmed
<1> SUFFICES ASSUME conns = 0, NEW tx \in pool, tx.by = Coop
             PROVE  \E CA \in SUBSET SentCalls(A), CB \in SUBSET SentCalls(B) :
                       /\ OkCalls(A) \subseteq CA
                       /\ OkCalls(B) \subseteq CB
                       /\ tx.pays[A] = OutAmt(InitAmtA - PushSum(A, CA) + PushSum(B, CB))
  BY Zenon DEF ClosePaysConfirmed
<1>1. Inv /\ Tallied /\ Frozen BY DEF CInv, CPair, Unbroken
<1>2. PICK n \in Node : Paying(n, tx) BY <1>1 DEF Frozen
<1>3. tx.pays[A] = OutAmt(Share(n)) BY <1>2 DEF Paying
<1>4. PICK C \in SUBSET SentCalls(n), D \in SUBSET SentCalls(Peer(n)) :
        /\ OkCalls(n) \subseteq C /\ OkCalls(Peer(n)) \subseteq D
        /\ PushSum(n, C) \in Int /\ PushSum(Peer(n), D) \in Int
        /\ disk[n].MyAmt = (Opened(n) - PushSum(n, C)) + PushSum(Peer(n), D)
  BY <1>1, BookOf
<1>5. InitAmtA \in Int /\ Value \in Int BY BoundAssumption, ValueAssumption
<1>6. CASE n = A
  <2>1. Peer(n) = B /\ Opened(n) = InitAmtA /\ Share(n) = disk[n].MyAmt
    BY <1>6 DEF Peer, Opened, Share
  <2>2. Share(n) = InitAmtA - PushSum(A, C) + PushSum(B, D)
    BY <1>4, <1>6, <2>1
  <2> QED BY <1>3, <1>4, <1>6, <2>1, <2>2
<1>7. CASE n = B
  <2>1. Peer(n) = A /\ Opened(n) = Value - InitAmtA /\ Share(n) = Value - disk[n].MyAmt
    BY <1>7, NodeAssumption DEF Peer, Opened, Share
  <2> DEFINE a == PushSum(A, D)
             b == PushSum(B, C)
             m == disk[n].MyAmt
  <2>2. a \in Int /\ b \in Int /\ m = ((Value - InitAmtA) - b) + a BY <1>4, <1>7, <2>1
  <2>3. Share(n) = Value - m BY <2>1
  <2> HIDE DEF a, b, m
  <2>4. Share(n) = InitAmtA - a + b BY <1>5, <2>2, <2>3
  <2>5. tx.pays[A] = OutAmt(InitAmtA - a + b) BY <1>3, <2>4
  <2> QED BY <1>4, <1>7, <2>1, <2>5 DEF a, b
<1> QED BY <1>6, <1>7 DEF Node

(* Unless records are written back late (SaveRace): until the connection   *)
(* breaks, the transaction that CloseReqHandler broadcasts pays each side  *)
(* what it opened with, less its own pushes and plus its peer's; it has    *)
(* every push that PushChannel reported as done, whatever updates the      *)
(* request crossed, and none that was never sent.                          *)
THEOREM ClosesPayConfirmed == CSpec => [](~SaveRace => ClosePaysConfirmed)
<1>1. CInit => CPair BY InitCPair
<1>2. CInv /\ CInv' /\ CPair /\ [CNext]_cvars => CPair' BY CStepCPair
<1>3. CInv /\ CPair => (~SaveRace => ClosePaysConfirmed) BY PaysConfirmed
<1> QED BY <1>1, <1>2, <1>3, CloseInvariance, PTL DEF CSpec
=============================================================================
