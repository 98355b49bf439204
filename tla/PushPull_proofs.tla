--------------------------- MODULE PushPull_proofs ---------------------------
(***************************************************************************)
(* Proofs about PushPull, for every capacity, fee, set of amounts, number  *)
(* of calls, of reconnects and of events.                                  *)
(*                                                                         *)
(* No HTLC is ever added in PushPull, so the states that occur are plain:  *)
(* the lemmas say what each state function of Qchan makes of a plain one.  *)
(*                                                                         *)
(* The second part says what the two databases have to do with each other. *)
(* Who holds the token of ClearToSend, and which signatures are good, does *)
(* not matter for the agreement: the pair of stored states, with the       *)
(* messages between them, is always in one of twelve stages, whichever     *)
(* messages are lost, refused or ignored.  The tokens matter for the       *)
(* ledger: while the connection lasts, a node that waits for the answer to *)
(* its push has none.                                                      *)
(***************************************************************************)
EXTENDS PushPull, TLAPS

PlainCom ==
    [StateIdx : Nat, MyAmt : Int, Delta : Int, Collision : Int,
     ElkPoint : Nat, NextElkPoint : Nat, N2ElkPoint : Nat, Sig : Tx,
     HTLCIdx : Nat, InProgHTLC : {NoHTLC}, CollidingHTLC : {NoHTLC},
     Colliding : {{}}, NextHTLCBase : Nat, N2HTLCBase : Nat,
     MyNextHTLCBase : Nat, MyN2HTLCBase : Nat, HTLCs : {<<>>}, Failed : BOOLEAN]

(* What the pieces of a plain state's transaction come to.                 *)
PlainTx(idx, elk, own, other) ==
    [idx |-> idx, elk |-> elk, own |-> OutAmt(own), other |-> OutAmt(other), htlcs |-> {}]

LEMMA EmptyDomain == DOMAIN <<>> = {}
  OBVIOUS

(* A plain state is a state.                                               *)
LEMMA PlainIsStatCom == PlainCom \subseteq StatCom
<1>1. NoHTLC \in Opt(HTLC) /\ <<>> \in Seq(HTLC)
  BY DEF NoHTLC, Opt
<1>2. SUFFICES ASSUME NEW st \in PlainCom PROVE st \in StatCom
  OBVIOUS
<1>3. {} \in SUBSET CollisionKind
  OBVIOUS
<1> QED BY <1>1, <1>2, <1>3 DEF PlainCom, StatCom

LEMMA PlainFields ==
  ASSUME NEW st \in PlainCom
  PROVE  /\ st.StateIdx \in Nat /\ st.MyAmt \in Int /\ st.Delta \in Int /\ st.Collision \in Int
         /\ st.ElkPoint \in Nat /\ st.NextElkPoint \in Nat /\ st.N2ElkPoint \in Nat
         /\ st.MyN2HTLCBase \in Nat /\ st.Sig \in Tx
         /\ st.InProgHTLC = NoHTLC /\ st.CollidingHTLC = NoHTLC
         /\ st.Colliding = {} /\ st.HTLCs = <<>>
  BY DEF PlainCom

(* The updates that the state functions are made of keep a state plain.    *)
LEMMA SetDelta ==
  ASSUME NEW st \in PlainCom, NEW d \in Int
  PROVE  [st EXCEPT !.Delta = d] \in PlainCom
  BY DEF PlainCom

LEMMA SetMyAmt ==
  ASSUME NEW st \in PlainCom, NEW i \in Nat, NEW d \in Int, NEW a \in Int
  PROVE  [st EXCEPT !.StateIdx = i, !.Delta = d, !.MyAmt = a] \in PlainCom
  BY DEF PlainCom

LEMMA SetSig ==
  ASSUME NEW st \in PlainCom, NEW i \in Nat, NEW sig \in Tx
  PROVE  [st EXCEPT !.StateIdx = i, !.Sig = sig] \in PlainCom
  BY DEF PlainCom

LEMMA SetCollision ==
  ASSUME NEW st \in PlainCom, NEW a \in Int, NEW d \in Int, NEW c \in Int
  PROVE  [st EXCEPT !.MyAmt = a, !.Delta = d, !.Collision = c] \in PlainCom
  BY DEF PlainCom

LEMMA SetElkPoint ==
  ASSUME NEW st \in PlainCom, NEW i \in Nat
  PROVE  [st EXCEPT !.ElkPoint = i] \in PlainCom
  BY DEF PlainCom

LEMMA DropPending ==
  ASSUME NEW st \in PlainCom, NEW d \in Int
  PROVE  /\ [st EXCEPT !.Delta = d, !.Colliding = {}] \in PlainCom
         /\ [st EXCEPT !.Delta = d, !.InProgHTLC = NoHTLC, !.CollidingHTLC = NoHTLC] \in PlainCom
<1>1. [st EXCEPT !.Delta = d, !.Colliding = {}] \in PlainCom
  BY DEF PlainCom
<1>2. [st EXCEPT !.Delta = d, !.InProgHTLC = NoHTLC, !.CollidingHTLC = NoHTLC] \in PlainCom
  BY DEF PlainCom
<1> QED BY <1>1, <1>2

(* No HTLCs: nothing is locked, nothing is settled by them.                *)
LEMMA PlainHTLCs ==
  ASSUME NEW st \in PlainCom
  PROVE  /\ Uncleared(st) = {} /\ InTx(st) = {} /\ ClearingIdxs(st) = {} /\ Won(st) = {}
         /\ TxHTLCs(st) = {}
         /\ AmtOf(st.InProgHTLC, DOMAIN st.InProgHTLC) = 0
         /\ AmtOf(st.CollidingHTLC, DOMAIN st.CollidingHTLC) = 0
         /\ AmtOf(st.HTLCs, {}) = 0
         /\ OwnOffer(st.InProgHTLC) = 0
         /\ OwnOffer(st.CollidingHTLC) = 0
<1>1. st.HTLCs = <<>> /\ st.InProgHTLC = <<>> /\ st.CollidingHTLC = <<>>
  BY DEF PlainCom, NoHTLC
<1>2. Uncleared(st) = {} /\ InTx(st) = {} /\ ClearingIdxs(st) = {} /\ Won(st) = {}
  BY <1>1, EmptyDomain DEF Uncleared, InTx, ClearingIdxs, Won, Idxs
<1>3. TxHTLCs(st) = {}
  BY <1>1, <1>2, EmptyDomain DEF TxHTLCs
<1>4. \A hs : AmtOf(hs, {}) = 0
  BY ZenonT(20) DEF AmtOf
<1>5. {i \in DOMAIN <<>> : ~ <<>>[i].Incoming} = {}
  BY EmptyDomain
<1>6. OwnOffer(<<>>) = 0
  BY <1>4, <1>5 DEF OwnOffer
<1> QED BY <1>1, <1>2, <1>3, <1>4, <1>6, EmptyDomain

LEMMA PlainMap ==
  ASSUME NEW st \in PlainCom, NEW I, NEW b
  PROVE  SetClearing(st, I, b) = st /\ MarkCleared(st) = st
<1>1. st.HTLCs = <<>>
  BY DEF PlainCom
<1>2. [i \in Idxs(st.HTLCs) |-> IF i \in I THEN [st.HTLCs[i] EXCEPT !.Clearing = b] ELSE st.HTLCs[i]] = st.HTLCs
  BY <1>1, EmptyDomain DEF Idxs
<1>3. [i \in Idxs(st.HTLCs) |-> [st.HTLCs[i] EXCEPT !.Cleared = st.HTLCs[i].Cleared \/ st.HTLCs[i].Clearing]] = st.HTLCs
  BY <1>1, EmptyDomain DEF Idxs
<1>4. [st EXCEPT !.HTLCs = st.HTLCs] = st
  BY DEF PlainCom
<1> QED BY <1>2, <1>3, <1>4 DEF SetClearing, MarkCleared

LEMMA PlainSettled ==
  ASSUME NEW st \in PlainCom
  PROVE  Settled(st) = st.MyAmt
<1>1. st.MyAmt - 0 - 0 + 0 = st.MyAmt
  BY DEF PlainCom
<1>2. /\ OwnOffer(st.InProgHTLC) = 0 /\ OwnOffer(st.CollidingHTLC) = 0
      /\ AmtOf(st.HTLCs, Won(st)) = 0
  BY PlainHTLCs
<1> QED BY <1>1, <1>2, Zenon DEF Settled

LEMMA PlainBuild ==
  ASSUME NEW st \in PlainCom
  PROVE  /\ BuildStateTxs(st, TRUE) = PlainTx(st.StateIdx, st.StateIdx, st.MyAmt, Value - st.MyAmt)
         /\ BuildStateTxs(st, FALSE) = PlainTx(st.StateIdx, st.ElkPoint, Value - st.MyAmt, st.MyAmt)
<1>1. \A b : {GenHTLCOut(st, p[1], p[2], b) : p \in TxHTLCs(st)} = {}
  BY PlainHTLCs
<1>2. Value - (0 + 0 + 0) - st.MyAmt = Value - st.MyAmt
  BY ValueAssumption DEF PlainCom
<1> QED BY <1>1, <1>2, PlainHTLCs DEF BuildStateTxs, PlainTx

LEMMA PlainTxType ==
  ASSUME NEW idx \in Nat, NEW elk \in Nat, NEW own \in Int, NEW other \in Int
  PROVE  PlainTx(idx, elk, own, other) \in Tx
  BY ValueAssumption DEF PlainTx, Tx, OutAmt

-----------------------------------------------------------------------------
(* The state functions on plain states, as plain updates.                  *)

LEMMA PlainFail ==
  ASSUME NEW st \in PlainCom
  PROVE  FailChannel(st) \in PlainCom
  BY DEF FailChannel, PlainCom

LEMMA PlainMark ==
  ASSUME NEW st \in PlainCom, NEW d \in Int
  PROVE  MarkDeltaCollision(st, d) = [st EXCEPT !.Collision = d]
<1>1. ClearingIdxs(st) = {} /\ st.InProgHTLC = NoHTLC
  BY PlainHTLCs DEF PlainCom
<1> QED BY <1>1 DEF MarkDeltaCollision

(* What DeltaSigHandler makes of the stored state st, with or without a    *)
(* collision.                                                              *)
Seen(st, d, collision) == IF collision THEN MarkDeltaCollision(st, d) ELSE st

LEMMA PlainSeen ==
  ASSUME NEW st \in PlainCom, NEW d \in Int, NEW c \in BOOLEAN
  PROVE  /\ Seen(st, d, c) \in PlainCom
         /\ Seen(st, d, c) = [st EXCEPT !.Collision = IF c THEN d ELSE @]
<1>1. Seen(st, d, c) = [st EXCEPT !.Collision = IF c THEN d ELSE @]
  BY PlainMark DEF Seen, PlainCom
<1> QED BY <1>1 DEF PlainCom

LEMMA PlainPulled ==
  ASSUME NEW st \in PlainCom, NEW d \in Int, NEW c \in BOOLEAN
  PROVE  /\ PulledState(st, d, c) \in PlainCom
         /\ PulledState(st, d, c) = [st EXCEPT !.StateIdx = @ + 1, !.MyAmt = @ + d,
                                               !.Delta = IF c THEN @ ELSE d]
<1>1. PulledState(st, d, c) = [st EXCEPT !.StateIdx = @ + 1, !.MyAmt = @ + d,
                                         !.Delta = IF c THEN @ ELSE d]
  BY DEF PulledState, PlainCom
<1>2. st.StateIdx + 1 \in Nat /\ st.MyAmt + d \in Int
      /\ (IF c THEN st.Delta ELSE d) \in Int
  BY DEF PlainCom
<1> QED BY <1>1, <1>2 DEF PlainCom

LEMMA PlainDeltaSig ==
  ASSUME NEW st \in PlainCom, NEW d \in Int, NEW sig \in Tx, NEW c \in BOOLEAN
  PROVE  LET new == DeltaSigSaved(st, Seen(st, d, c), d, sig, c)
         IN /\ new \in PlainCom
            /\ new.StateIdx = st.StateIdx + 1 /\ new.MyAmt = st.MyAmt + d /\ new.Sig = sig
<1> DEFINE s == Seen(st, d, c)
           p == PulledState(s, d, c)
<1>1. s \in PlainCom
  BY PlainSeen, Zenon
<1>2. s = [st EXCEPT !.Collision = IF c THEN d ELSE @]
  BY PlainSeen, Zenon
<1> HIDE DEF s
<1>3. p \in PlainCom
  BY <1>1, PlainPulled, Zenon
<1>4. p = [s EXCEPT !.StateIdx = @ + 1, !.MyAmt = @ + d, !.Delta = IF c THEN @ ELSE d]
  BY <1>1 DEF PulledState, PlainCom
<1>5. SetClearing(p, ClearingIdxs(st), TRUE) = p
  BY <1>3, PlainMap, Zenon
<1>6. DeltaSigSaved(st, s, d, sig, c) = [p EXCEPT !.Sig = sig, !.InProgHTLC = st.InProgHTLC]
  BY <1>5, Zenon DEF DeltaSigSaved
<1> HIDE DEF p
<1>7. [p EXCEPT !.Sig = sig, !.InProgHTLC = st.InProgHTLC] \in PlainCom
  BY <1>3 DEF PlainCom
<1> DEFINE new == [p EXCEPT !.Sig = sig, !.InProgHTLC = st.InProgHTLC]
<1>8. new.StateIdx = p.StateIdx /\ new.MyAmt = p.MyAmt /\ new.Sig = sig
  BY <1>3 DEF PlainCom
<1>9. p.StateIdx = s.StateIdx + 1 /\ p.MyAmt = s.MyAmt + d
  BY <1>1, <1>4 DEF PlainCom
<1>10. s.StateIdx = st.StateIdx /\ s.MyAmt = st.MyAmt
  BY <1>2 DEF PlainCom
<1> HIDE DEF new
<1> QED BY <1>6, <1>7, <1>8, <1>9, <1>10, Zenon DEF s, new

LEMMA PlainAdvance ==
  ASSUME NEW st \in PlainCom, NEW n2 \in Nat
  PROVE  AdvanceElkrem(st, n2) \in PlainCom
  BY DEF AdvanceElkrem, PlainCom

LEMMA PlainPushed ==
  ASSUME NEW st \in PlainCom
  PROVE  /\ PushedState(st) \in PlainCom
         /\ PushedState(st) = [st EXCEPT !.StateIdx = @ + 1, !.Delta = 0, !.MyAmt = @ + st.Delta]
<1>1. PushedState(st) = [st EXCEPT !.StateIdx = @ + 1, !.Delta = 0, !.MyAmt = @ + st.Delta]
  BY PlainSettled DEF PushedState
<1>2. st.StateIdx + 1 \in Nat /\ st.MyAmt + st.Delta \in Int /\ 0 \in Int
  BY DEF PlainCom
<1>3. [st EXCEPT !.StateIdx = st.StateIdx + 1, !.Delta = 0, !.MyAmt = st.MyAmt + st.Delta] \in PlainCom
  BY <1>2, SetMyAmt, Zenon
<1> QED BY <1>1, <1>3, Zenon

(* The fields of messages the handlers use.                                *)
RevPart(m) == m.Elk \in Nat /\ m.N2ElkPoint \in Nat /\ m.N2HTLCBase \in Nat

LEMMA PlainSigRev ==
  ASSUME NEW st \in PlainCom, NEW m, m.Sig \in Tx, RevPart(m)
  PROVE  /\ SigRevSaved(st, m) \in PlainCom
         /\ SigRevSaved(st, m) =
              [st EXCEPT !.StateIdx = @ + 1, !.Delta = 0, !.MyAmt = @ + st.Delta, !.Sig = m.Sig,
                         !.ElkPoint = st.NextElkPoint, !.NextElkPoint = st.N2ElkPoint,
                         !.N2ElkPoint = m.N2ElkPoint]
<1> DEFINE p == [PushedState(st) EXCEPT !.Sig = m.Sig]
           a == AdvanceElkrem(p, m.N2ElkPoint)
<1>0. p = [st EXCEPT !.StateIdx = @ + 1, !.Delta = 0, !.MyAmt = @ + st.Delta, !.Sig = m.Sig]
  BY PlainPushed DEF PlainCom
<1>1. p \in PlainCom
  <2>1. PushedState(st) \in PlainCom
    BY PlainPushed
  <2> QED BY <2>1 DEF PlainCom
<1>2. a \in PlainCom
  BY <1>1, PlainAdvance DEF RevPart
<1>3. st.InProgHTLC = NoHTLC /\ st.Colliding = {}
  BY DEF PlainCom
<1>4. SigRevSaved(st, m) = MarkCleared(a)
  BY <1>3 DEF SigRevSaved
<1>5. SigRevSaved(st, m) = a
  BY <1>2, <1>4, PlainMap
<1>6. a = [st EXCEPT !.StateIdx = @ + 1, !.Delta = 0, !.MyAmt = @ + st.Delta, !.Sig = m.Sig,
                     !.ElkPoint = st.NextElkPoint, !.NextElkPoint = st.N2ElkPoint,
                     !.N2ElkPoint = m.N2ElkPoint]
  <2> HIDE DEF p
  <2> QED BY <1>0, <1>1 DEF AdvanceElkrem, PlainCom
<1> QED BY <1>2, <1>5, <1>6

LEMMA PlainNewBase ==
  ASSUME NEW st \in PlainCom, NEW base \in Nat
  PROVE  /\ NewBase(st, base) \in PlainCom
         /\ NewBase(st, base).StateIdx = st.StateIdx
         /\ NewBase(st, base).MyAmt = st.MyAmt
         /\ NewBase(st, base).Delta = st.Delta
         /\ NewBase(st, base).Collision = st.Collision
         /\ NewBase(st, base).Sig = st.Sig
         /\ NewBase(st, base).ElkPoint = st.ElkPoint
         /\ NewBase(st, base).NextElkPoint = st.NextElkPoint
         /\ NewBase(st, base).N2ElkPoint = st.N2ElkPoint
         /\ NewBase(st, base).Failed = st.Failed
  BY DEF NewBase, RotateHTLCBase, PlainCom

LEMMA PlainGap ==
  ASSUME NEW st \in PlainCom, NEW n2 \in Nat
  PROVE  /\ GapState(st, n2) \in PlainCom
         /\ GapState(st, n2) =
              [st EXCEPT !.MyAmt = @ + st.Delta, !.Delta = st.Collision, !.Collision = 0,
                         !.ElkPoint = st.NextElkPoint, !.NextElkPoint = st.N2ElkPoint,
                         !.N2ElkPoint = n2]
<1> DEFINE p == [st EXCEPT !.MyAmt = Settled(st) + st.Delta, !.Delta = st.Collision, !.Collision = 0]
<1>1. p = [st EXCEPT !.MyAmt = @ + st.Delta, !.Delta = st.Collision, !.Collision = 0]
  BY PlainSettled
<1>2. st.MyAmt + st.Delta \in Int /\ st.Collision \in Int /\ 0 \in Int
  BY PlainFields
<1>3. p \in PlainCom
  <2>1. [st EXCEPT !.MyAmt = st.MyAmt + st.Delta, !.Delta = st.Collision, !.Collision = 0] \in PlainCom
    BY <1>2, SetCollision, Zenon
  <2> QED BY <1>1, <2>1, Zenon
<1>4. GapState(st, n2) = AdvanceElkrem(p, n2)
  BY DEF GapState
<1> HIDE DEF p
<1>5. AdvanceElkrem(p, n2) =
        [st EXCEPT !.MyAmt = @ + st.Delta, !.Delta = st.Collision, !.Collision = 0,
                   !.ElkPoint = st.NextElkPoint, !.NextElkPoint = st.N2ElkPoint, !.N2ElkPoint = n2]
  BY <1>1 DEF AdvanceElkrem, PlainCom
<1> QED BY <1>3, <1>4, <1>5, PlainAdvance

LEMMA PlainGapSigRev ==
  ASSUME NEW st \in PlainCom, NEW m, m.Sig \in Tx, RevPart(m)
  PROVE  LET new == GapSigRevSaved(st, m)
         IN /\ new \in PlainCom
            /\ new.StateIdx = st.StateIdx + 1
            /\ new.MyAmt = st.MyAmt + st.Delta
            /\ new.Delta = st.Collision /\ new.Collision = 0
            /\ new.Sig = m.Sig
            /\ new.ElkPoint = st.NextElkPoint /\ new.NextElkPoint = st.N2ElkPoint
            /\ new.N2ElkPoint = m.N2ElkPoint
            /\ new.Failed = st.Failed
<1> DEFINE q == GapState(st, m.N2ElkPoint)
           p == [q EXCEPT !.StateIdx = @ + 1, !.Sig = m.Sig]
<1>1. m.N2ElkPoint \in Nat /\ m.N2HTLCBase \in Nat
  BY DEF RevPart
<1>2. q \in PlainCom
  BY <1>1, PlainGap
<1>3. q = [st EXCEPT !.MyAmt = @ + st.Delta, !.Delta = st.Collision, !.Collision = 0,
                     !.ElkPoint = st.NextElkPoint, !.NextElkPoint = st.N2ElkPoint,
                     !.N2ElkPoint = m.N2ElkPoint]
  BY <1>1, PlainGap
<1>4. st.CollidingHTLC = NoHTLC
  BY DEF PlainCom
<1>5. GapSigRevSaved(st, m) = NewBase(p, m.N2HTLCBase)
  BY <1>4 DEF GapSigRevSaved
<1> HIDE DEF q
<1>6. p \in PlainCom
  <2>1. q.StateIdx + 1 \in Nat
    BY <1>2, PlainFields
  <2>2. [q EXCEPT !.StateIdx = q.StateIdx + 1, !.Sig = m.Sig] \in PlainCom
    BY <1>2, <2>1, SetSig, Zenon
  <2> QED BY <2>2, Zenon
<1>7. /\ p.StateIdx = st.StateIdx + 1
      /\ p.MyAmt = st.MyAmt + st.Delta
      /\ p.Delta = st.Collision /\ p.Collision = 0
      /\ p.Sig = m.Sig
      /\ p.ElkPoint = st.NextElkPoint /\ p.NextElkPoint = st.N2ElkPoint
      /\ p.N2ElkPoint = m.N2ElkPoint
      /\ p.Failed = st.Failed
  BY <1>2, <1>3 DEF PlainCom
<1> HIDE DEF p
<1> DEFINE new == NewBase(p, m.N2HTLCBase)
<1>8. /\ new \in PlainCom /\ new.StateIdx = p.StateIdx /\ new.MyAmt = p.MyAmt
      /\ new.Delta = p.Delta /\ new.Collision = p.Collision /\ new.Sig = p.Sig
      /\ new.ElkPoint = p.ElkPoint /\ new.NextElkPoint = p.NextElkPoint
      /\ new.N2ElkPoint = p.N2ElkPoint /\ new.Failed = p.Failed
  BY <1>1, <1>6, PlainNewBase
<1> HIDE DEF new
<1> QED BY <1>5, <1>7, <1>8 DEF new

LEMMA PlainRev ==
  ASSUME NEW st \in PlainCom, NEW m, RevPart(m)
  PROVE  LET new == RevSaved(st, m)
         IN /\ new \in PlainCom
            /\ new.StateIdx = st.StateIdx
            /\ new.MyAmt = st.MyAmt
            /\ new.Delta = 0 /\ new.Collision = st.Collision
            /\ new.Sig = st.Sig
            /\ new.ElkPoint = st.NextElkPoint /\ new.NextElkPoint = st.N2ElkPoint
            /\ new.N2ElkPoint = m.N2ElkPoint
            /\ new.Failed = st.Failed
<1> DEFINE p == [AdvanceElkrem(st, m.N2ElkPoint) EXCEPT !.Delta = 0, !.Colliding = {}]
           q == NewBase(p, m.N2HTLCBase)
<1>1. m.N2ElkPoint \in Nat /\ m.N2HTLCBase \in Nat
  BY DEF RevPart
<1>2. p \in PlainCom
  <2>1. AdvanceElkrem(st, m.N2ElkPoint) \in PlainCom
    BY <1>1, PlainAdvance, Zenon
  <2>2. 0 \in Int
    OBVIOUS
  <2> QED BY <2>1, <2>2, DropPending, Zenon
<1>3. /\ p.StateIdx = st.StateIdx
      /\ p.MyAmt = st.MyAmt
      /\ p.Delta = 0 /\ p.Collision = st.Collision
      /\ p.Sig = st.Sig
      /\ p.ElkPoint = st.NextElkPoint /\ p.NextElkPoint = st.N2ElkPoint
      /\ p.N2ElkPoint = m.N2ElkPoint
      /\ p.Failed = st.Failed
  BY DEF AdvanceElkrem, PlainCom
<1> HIDE DEF p
<1>4. q \in PlainCom
  BY <1>1, <1>2, PlainNewBase
<1>5. /\ q.StateIdx = st.StateIdx
      /\ q.MyAmt = st.MyAmt
      /\ q.Delta = 0 /\ q.Collision = st.Collision
      /\ q.Sig = st.Sig
      /\ q.ElkPoint = st.NextElkPoint /\ q.NextElkPoint = st.N2ElkPoint
      /\ q.N2ElkPoint = m.N2ElkPoint
      /\ q.Failed = st.Failed
  BY <1>1, <1>2, <1>3, PlainNewBase
<1>6. st.InProgHTLC \o st.CollidingHTLC = <<>> /\ Len(<<>>) = 0
  BY DEF PlainCom, NoHTLC
<1>7. RevSaved(st, m) =
        MarkCleared([AppendHTLC(q, <<>>) EXCEPT !.InProgHTLC = NoHTLC, !.CollidingHTLC = NoHTLC])
  BY <1>6 DEF RevSaved, p
<1> HIDE DEF q
<1>8. q.HTLCs \o <<>> = q.HTLCs /\ q.HTLCIdx + Len(<<>>) = q.HTLCIdx
  BY <1>4, <1>6 DEF PlainCom
<1>9. AppendHTLC(q, <<>>) = q
  BY <1>4, <1>8 DEF AppendHTLC, PlainCom
<1>10. [q EXCEPT !.InProgHTLC = NoHTLC, !.CollidingHTLC = NoHTLC] = q
  BY <1>4 DEF PlainCom
<1>11. RevSaved(st, m) = q
  BY <1>4, <1>7, <1>9, <1>10, PlainMap
<1> QED BY <1>4, <1>5, <1>11

-----------------------------------------------------------------------------
(* Transactions of plain states depend on the number and the amount only.  *)

LEMMA PlainBreak ==
  ASSUME NEW st \in PlainCom
  PROVE  /\ BreakState(st) \in PlainCom
         /\ BreakState(st).StateIdx = st.StateIdx
         /\ BreakState(st).MyAmt = st.MyAmt
<1>1. BreakState(st) = [st EXCEPT !.Delta = 0, !.InProgHTLC = NoHTLC, !.CollidingHTLC = NoHTLC]
  BY PlainMap DEF BreakState
<1>2. BreakState(st) \in PlainCom
  <2>1. 0 \in Int
    OBVIOUS
  <2> QED BY <1>1, <2>1, DropPending, Zenon
<1> QED BY <1>1, <1>2 DEF PlainCom

LEMMA PlainVerify ==
  ASSUME NEW st \in PlainCom, NEW su \in PlainCom, NEW sig,
         st.StateIdx = su.StateIdx, st.MyAmt = su.MyAmt, VerifySigs(st, sig)
  PROVE  VerifySigs(su, sig)
<1>1. BuildStateTxs(st, TRUE) = BuildStateTxs(su, TRUE)
  BY PlainBuild
<1> QED BY <1>1 DEF VerifySigs, Buildable

LEMMA PlainSign ==
  ASSUME NEW st \in PlainCom
  PROVE  SignState(st) \in Tx
<1>1. SignState(st) = PlainTx(st.StateIdx, st.ElkPoint, Value - st.MyAmt, st.MyAmt)
  BY PlainBuild DEF SignState
<1>2. st.StateIdx \in Nat /\ st.ElkPoint \in Nat /\ st.MyAmt \in Int /\ Value - st.MyAmt \in Int
  BY ValueAssumption DEF PlainCom
<1> QED BY <1>1, <1>2, PlainTxType

-----------------------------------------------------------------------------
(* The messages that a plain state sends, and what they reveal.            *)

LEMMA SentDeltaSig ==
  ASSUME NEW st \in PlainCom
  PROVE  SendDeltaSig(st) \in Messages
<1> DEFINE d == DeltaSigState(st)
<1>1. st.StateIdx + 1 \in Nat /\ st.MyAmt + st.Delta \in Int /\ st.NextElkPoint \in Nat
  BY PlainFields
<1>2. d \in PlainCom
  BY <1>1 DEF DeltaSigState, PlainCom
<1>3. SignState(d) \in Tx
  BY <1>2, PlainSign, Zenon
<1> HIDE DEF d
<1>4. - st.Delta \in Int
  BY PlainFields
<1> QED BY <1>3, <1>4 DEF SendDeltaSig, Messages, d

(* A message that reveals the hash of the state before st.                 *)
Reveals(m, st) ==
    /\ m \in Messages
    /\ m.Elk \in Nat
    /\ m.Elk < st.StateIdx

LEMMA SentREV ==
  ASSUME NEW st \in PlainCom, st.StateIdx > 0
  PROVE  Reveals(SendREV(st), st)
<1>1. /\ st.StateIdx - 1 \in Nat /\ st.StateIdx + 2 \in Nat /\ st.MyN2HTLCBase \in Nat
      /\ st.StateIdx - 1 < st.StateIdx
  BY PlainFields
<1> QED BY <1>1 DEF Reveals, SendREV, Messages

LEMMA SentRevoking ==
  ASSUME NEW st \in PlainCom, NEW type \in {"SigRev", "GapSigRev"}, NEW sig \in Tx,
         st.StateIdx > 0
  PROVE  Reveals(Revoking(type, st, sig), st)
<1>1. /\ st.StateIdx - 1 \in Nat /\ st.StateIdx + 2 \in Nat /\ st.MyN2HTLCBase \in Nat
      /\ st.StateIdx - 1 < st.StateIdx
  BY PlainFields
<1> QED BY <1>1 DEF Reveals, Revoking, Messages

LEMMA SentSigRev ==
  ASSUME NEW st \in PlainCom, st.StateIdx > 0
  PROVE  /\ Reveals(SendSigRev(st), st)
         /\ Reveals(SendGapSigRev(st), st)
<1>1. SigRevState(st) \in PlainCom
  BY SetElkPoint, PlainFields DEF SigRevState
<1>2. GapSigRevState(st) \in PlainCom
  <2>1. GapSigRevState(st) = [st EXCEPT !.StateIdx = st.StateIdx + 1, !.ElkPoint = st.N2ElkPoint,
                                        !.MyAmt = st.MyAmt + st.Delta]
    BY PlainSettled DEF GapSigRevState
  <2>2. st.StateIdx + 1 \in Nat /\ st.N2ElkPoint \in Nat /\ st.MyAmt + st.Delta \in Int
    BY PlainFields
  <2>3. \A i \in Nat, e \in Nat, a \in Int :
           [st EXCEPT !.StateIdx = i, !.ElkPoint = e, !.MyAmt = a] \in PlainCom
    BY DEF PlainCom
  <2> QED BY <2>1, <2>2, <2>3, Zenon
<1>3. SignState(SigRevState(st)) \in Tx /\ SignState(GapSigRevState(st)) \in Tx
  BY <1>1, <1>2, PlainSign, Zenon
<1> QED BY <1>3, SentRevoking, Zenon DEF SendSigRev, SendGapSigRev

(* The fields of the message being handled.                                *)
LEMMA MessageFields ==
  ASSUME NEW m \in Messages
  PROVE  /\ m.type = "DeltaSig" => m.Delta \in Int /\ m.Sig \in Tx
         /\ m.type \in {"SigRev", "GapSigRev"} => m.Sig \in Tx /\ RevPart(m)
         /\ m.type = "Rev" => RevPart(m)
  BY DEF Messages, RevPart

-----------------------------------------------------------------------------
(* The invariant.  Its type part is TypeOK with plain states for states.   *)

Types ==
    /\ disk \in [Node -> PlainCom]
    /\ closed \in [Node -> BOOLEAN]
    /\ failed \in [Node -> SUBSET Gen]
    /\ gen \in [Node -> Gen]
    /\ cts \in [Node -> [Gen -> BOOLEAN]]
    /\ fill \in [Node -> SUBSET Gen]
    /\ inited \in [Node -> BOOLEAN]
    /\ stuck \in [Node -> Gen \cup {0}]
    /\ call \in [Node -> [Call -> CallState]]
    /\ net \in [Node -> Seq(Messages)]
    /\ saving \in [Node -> SUBSET [state : PlainCom, closed : BOOLEAN]]
    /\ revoked \in [Node -> SUBSET Nat]
    /\ bcast \in [Node -> SUBSET Nat]
    /\ raced \subseteq Node
    /\ conns \in 0 .. MaxReconnect
    /\ chainops \in [Node -> 0 .. MaxChainOp]

(* A connection makes at most two instances.                               *)
GenBound ==
    \A n \in Node : gen[n] <= IF inited[n] THEN 2 * conns + 1 ELSE 2 * conns

(* The state can be broadcast with the signature stored in it.             *)
Signed(st) == VerifySigs(BreakState(st), st.Sig)

(* So can the states in the records that are about to be written back.     *)
AllSigned ==
    \A n \in Node : Signed(disk[n]) /\ \A rec \in saving[n] : Signed(rec.state)

(* Where no save has undone another, the database is past every revoked    *)
(* state.  Without late records and other instances none undoes another.   *)
Revocations ==
    /\ RevocationSafety
    /\ ~SaveRace => saving = [n \in Node |-> {}]
    /\ ~SaveRace /\ conns = 0 => raced = {}

(* A call under way knows its instance, which is no newer than the one in  *)
(* use.  What it has reloaded can be broadcast, and in the first           *)
(* connection there is nothing that it reloads ahead of its save.          *)
Calling == {"enter", "wait", "failing"}
GoodView(seen) == seen = Nothing \/ \E st \in PlainCom : seen = <<st>> /\ Signed(st)
CallGen ==
    \A n \in Node, c \in Call :
        /\ call[n][c].pc \in Calling => call[n][c].gen \in Gen
        /\ call[n][c].gen <= gen[n]
        /\ GoodView(call[n][c].seen)
        /\ conns = 0 => call[n][c].seen = Nothing /\ call[n][c].pc # "failing"

Inv == Types /\ GenBound /\ CallGen /\ AllSigned /\ Revocations

(* The type invariant follows from the plain one.                          *)
LEMMA TypesImpliesTypeOK == Types => TypeOK
<1> SUFFICES ASSUME Types PROVE TypeOK
  OBVIOUS
<1>1. disk \in [Node -> StatCom]
  BY PlainIsStatCom DEF Types
<1>2. saving \in [Node -> SUBSET [state : StatCom, closed : BOOLEAN]]
  <2>1. [state : PlainCom, closed : BOOLEAN] \subseteq [state : StatCom, closed : BOOLEAN]
    BY PlainIsStatCom
  <2> QED BY <2>1 DEF Types
<1> QED BY <1>1, <1>2 DEF Types, TypeOK

(* The signature stays good while number, amount and signature stay.       *)
LEMMA SignedStays ==
  ASSUME NEW st \in PlainCom, NEW su \in PlainCom,
         st.StateIdx = su.StateIdx, st.MyAmt = su.MyAmt, st.Sig = su.Sig, Signed(st)
  PROVE  Signed(su)
<1>1. /\ BreakState(st) \in PlainCom /\ BreakState(su) \in PlainCom
      /\ BreakState(st).StateIdx = BreakState(su).StateIdx
      /\ BreakState(st).MyAmt = BreakState(su).MyAmt
  BY PlainBreak, Zenon
<1>2. VerifySigs(BreakState(st), su.Sig)
  BY Zenon DEF Signed
<1> QED BY <1>1, <1>2, PlainVerify, Zenon DEF Signed

(* A signature that verifies for some plain state is good for a saved      *)
(* state with the same number and amount.                                  *)
LEMMA SignedVerified ==
  ASSUME NEW st \in PlainCom, NEW su \in PlainCom,
         st.StateIdx = su.StateIdx, st.MyAmt = su.MyAmt, VerifySigs(st, su.Sig)
  PROVE  Signed(su)
<1>1. /\ BreakState(su) \in PlainCom
      /\ st.StateIdx = BreakState(su).StateIdx
      /\ st.MyAmt = BreakState(su).MyAmt
  BY PlainBreak, Zenon
<1> QED BY <1>1, PlainVerify, Zenon DEF Signed

-----------------------------------------------------------------------------
(* Funding leaves a plain state with a good signature.                     *)
LEMMA InitSigned ==
  ASSUME NEW amt \in Int,
         amt = 0 \/ amt >= MinOutput + Fee,
         Value - amt = 0 \/ Value - amt >= MinOutput + Fee,
         amt # 0 \/ Value - amt # 0
  PROVE  InitState(amt) \in PlainCom /\ Signed(InitState(amt))
<1> DEFINE st == InitState(amt)
<1>0. Value - amt \in Int
  BY ValueAssumption
<1>1. st.Sig = PlainTx(0, 0, amt, Value - amt)
  BY DEF InitState, PlainTx
<1>2. PlainTx(0, 0, amt, Value - amt) \in Tx
  BY <1>0, PlainTxType
<1>3. st \in PlainCom
  <2> DEFINE tx == [idx |-> 0, elk |-> 0, own |-> OutAmt(amt), other |-> OutAmt(Value - amt),
                    htlcs |-> {}]
  <2>1. tx \in Tx
    BY <1>2 DEF PlainTx
  <2> HIDE DEF tx
  <2>2. ASSUME NEW t \in Tx
        PROVE
          [StateIdx |-> 0, MyAmt |-> amt, Delta |-> 0, Collision |-> 0,
           ElkPoint |-> 0, NextElkPoint |-> 1, N2ElkPoint |-> 2, Sig |-> t,
           HTLCIdx |-> 0, InProgHTLC |-> NoHTLC, CollidingHTLC |-> NoHTLC,
           Colliding |-> {}, NextHTLCBase |-> 0, N2HTLCBase |-> 1,
           MyNextHTLCBase |-> 0, MyN2HTLCBase |-> 1, HTLCs |-> <<>>, Failed |-> FALSE] \in PlainCom
    <3>1. /\ 0 \in Nat /\ 1 \in Nat /\ 2 \in Nat /\ 0 \in Int /\ FALSE \in BOOLEAN
          /\ NoHTLC \in {NoHTLC} /\ {} \in {{}} /\ <<>> \in {<<>>}
      OBVIOUS
    <3> QED BY <3>1 DEF PlainCom
  <2> QED BY <2>1, <2>2, Zenon DEF InitState, tx
<1>4. BuildStateTxs(st, TRUE) = PlainTx(0, 0, amt, Value - amt)
  <2>1. st.StateIdx = 0 /\ st.MyAmt = amt
    BY DEF InitState
  <2> HIDE DEF st
  <2> QED BY <1>3, <2>1, PlainBuild
<1>5. /\ OutAmt(amt) = 0 \/ OutAmt(amt) >= MinOutput
      /\ OutAmt(Value - amt) = 0 \/ OutAmt(Value - amt) >= MinOutput
      /\ OutAmt(amt) # 0 \/ OutAmt(Value - amt) # 0
  BY ValueAssumption DEF OutAmt
<1> HIDE DEF st
<1>6. Buildable(st)
  <2> DEFINE tx == BuildStateTxs(st, TRUE)
  <2>1. tx.own = OutAmt(amt) /\ tx.other = OutAmt(Value - amt) /\ tx.htlcs = {}
    <3>1. \A a, b : LET t == PlainTx(0, 0, a, b)
                    IN t.own = OutAmt(a) /\ t.other = OutAmt(b) /\ t.htlcs = {}
      BY DEF PlainTx
    <3> QED BY <1>4, <3>1, Zenon
  <2> HIDE DEF tx
  <2>2. /\ \A x \in {tx.own, tx.other} : x = 0 \/ x >= MinOutput
        /\ \A o \in tx.htlcs : o.amt - Fee >= MinOutput
        /\ tx.own # 0 \/ tx.other # 0 \/ tx.htlcs # {}
    BY <1>5, <2>1
  <2> QED BY <2>2, Zenon DEF Buildable, tx
<1>7. VerifySigs(st, st.Sig)
  BY <1>1, <1>4, <1>6 DEF VerifySigs
<1> QED BY <1>3, <1>7, SignedVerified DEF st

-----------------------------------------------------------------------------
(* What a step may write to a node's database, and what it may then send:  *)
(* a state that can be broadcast and is no older than the stored one, and  *)
(* hashes of states older than it.                                         *)

Storable(st) == st \in PlainCom /\ Signed(st)
Successor(n, st) ==
    /\ st \in PlainCom
    /\ Signed(st)
    /\ st.StateIdx >= disk[n].StateIdx

Replies(reply, st) == reply = <<>> \/ \E m : reply = <<m>> /\ Reveals(m, st)

GoodAnswer(n) ==
    \E st, reply : Answer(n, st, reply) /\ Successor(n, st) /\ Replies(reply, st)

(* The part of the invariant that Save and Answer touch.                   *)
Stored ==
    /\ disk \in [Node -> PlainCom]
    /\ failed \in [Node -> SUBSET Gen]
    /\ raced \subseteq Node
    /\ AllSigned
    /\ Revocations

LEMMA NodeFacts ==
  ASSUME NEW n \in Node
  PROVE  Peer(n) \in Node /\ Peer(n) # n
  BY NodeAssumption DEF Node, Peer

LEMMA GenFacts == Gen \subseteq Nat /\ 1 \in Gen /\ 0 \notin Gen
  BY BoundAssumption DEF Gen

(* Writing the state the database already holds, or its failed copy, or a  *)
(* changed delta.                                                          *)
LEMMA SuccessorSame ==
  ASSUME Inv, NEW n \in Node
  PROVE  /\ Successor(n, disk[n])
         /\ Successor(n, FailChannel(disk[n]))
         /\ \A d \in Int : Successor(n, [disk[n] EXCEPT !.Delta = d])
<1> DEFINE st == disk[n]
<1>1. st \in PlainCom /\ Signed(st)
  BY DEF Inv, Types, AllSigned
<1>2. st.StateIdx >= st.StateIdx
  BY <1>1, PlainFields
<1>3. Successor(n, FailChannel(st))
  <2> DEFINE su == FailChannel(st)
  <2>1. su \in PlainCom
    BY <1>1, PlainFail, Zenon
  <2>2. st.StateIdx = su.StateIdx /\ st.MyAmt = su.MyAmt /\ st.Sig = su.Sig
    BY <1>1 DEF FailChannel, PlainCom
  <2> HIDE DEF su
  <2>3. Signed(su)
    BY <1>1, <2>1, <2>2, SignedStays, Zenon
  <2> QED BY <1>2, <2>1, <2>2, <2>3, Zenon DEF Successor, su
<1>4. ASSUME NEW d \in Int PROVE Successor(n, [st EXCEPT !.Delta = d])
  <2> DEFINE su == [st EXCEPT !.Delta = d]
  <2>1. su \in PlainCom
    BY <1>1, SetDelta, Zenon
  <2>2. st.StateIdx = su.StateIdx /\ st.MyAmt = su.MyAmt /\ st.Sig = su.Sig
    BY <1>1 DEF PlainCom
  <2> HIDE DEF su
  <2>3. Signed(su)
    BY <1>1, <2>1, <2>2, SignedStays, Zenon
  <2> QED BY <1>2, <2>1, <2>2, <2>3, Zenon DEF Successor, su
<1> QED BY <1>1, <1>2, <1>3, <1>4, Zenon DEF Successor

(* A save keeps what is stored good, if it is recorded as undoing another   *)
(* when it goes back in the numbers.                                       *)
LEMMA SaveKeeps ==
  ASSUME Inv, NEW n \in Node, NEW g \in Gen, NEW st, Storable(st), Save(n, g, st),
         n \in raced' \/ st.StateIdx >= disk[n].StateIdx,
         raced \subseteq raced', raced' \subseteq Node,
         ~SaveRace /\ conns = 0 => raced' = {},
         UNCHANGED <<saving, revoked, conns>>
  PROVE  Stored'
<1>1. disk' \in [Node -> PlainCom] /\ failed' \in [Node -> SUBSET Gen]
  BY DEF Inv, Types, Save, Copy, Storable
<1>2. \A m \in Node : disk'[m] = IF m = n THEN st ELSE disk[m]
  BY DEF Inv, Types, Save
<1>3. AllSigned'
  BY <1>2 DEF Inv, AllSigned, Storable
<1>4. RevocationSafety'
  <2> SUFFICES ASSUME NEW m \in Node, m \notin raced', NEW i \in revoked[m]
               PROVE  i < disk'[m].StateIdx
    BY DEF RevocationSafety
  <2>1. i < disk[m].StateIdx /\ i \in Nat
    BY DEF Inv, Types, Revocations, RevocationSafety
  <2>2. disk[m].StateIdx \in Nat /\ disk'[m].StateIdx \in Nat
    BY <1>1, PlainFields DEF Inv, Types
  <2>3. disk'[m].StateIdx >= disk[m].StateIdx
    BY <1>2, <2>2
  <2> QED BY <2>1, <2>2, <2>3
<1>5. Revocations'
  BY <1>4 DEF Inv, Revocations
<1> QED BY <1>1, <1>3, <1>5 DEF Stored

LEMMA AnswerKeeps ==
  ASSUME Inv, NEW n \in Node, GoodAnswer(n), net[n] # <<>>, UNCHANGED <<saving, conns>>
  PROVE  Stored' /\ net' \in [Node -> Seq(Messages)] /\ revoked' \in [Node -> SUBSET Nat]
<1>1. PICK st, reply : Answer(n, st, reply) /\ Successor(n, st) /\ Replies(reply, st)
  BY Zenon DEF GoodAnswer
<1>2. reply \in Seq(Messages)
  <2>1. CASE reply = <<>>
    BY <2>1
  <2>2. CASE \E m : reply = <<m>> /\ Reveals(m, st)
    <3>1. PICK m : reply = <<m>> /\ Reveals(m, st)
      BY <2>2, Zenon
    <3>2. m \in Messages
      BY <3>1 DEF Reveals
    <3> QED BY <3>1, <3>2
  <2> QED BY <1>1, <2>1, <2>2, Zenon DEF Replies
<1>3. {reply[i].Elk : i \in DOMAIN reply} \subseteq Nat
  BY <1>1 DEF Replies, Reveals
<1>4. net' \in [Node -> Seq(Messages)]
  <2>1. net[n] \in Seq(Messages) /\ Tail(net[n]) \in Seq(Messages)
    BY DEF Inv, Types
  <2>2. net[Peer(n)] \o reply \in Seq(Messages)
    BY <1>2, NodeFacts DEF Inv, Types
  <2>3. net' = [net EXCEPT ![n] = Tail(net[n]), ![Peer(n)] = net[Peer(n)] \o reply]
    BY <1>1, NodeFacts DEF Answer, Inv, Types
  <2> QED BY <2>1, <2>2, <2>3 DEF Inv, Types
<1>5. revoked' \in [Node -> SUBSET Nat]
  BY <1>1, <1>3 DEF Answer, Inv, Types
<1>6. disk' \in [Node -> PlainCom] /\ failed' \in [Node -> SUBSET Gen]
  BY <1>1 DEF Inv, Types, Answer, Save, Copy, Successor
<1>7. \A m \in Node : disk'[m] = IF m = n THEN st ELSE disk[m]
  BY <1>1 DEF Inv, Types, Answer, Save
<1>8. AllSigned'
  BY <1>1, <1>7 DEF Inv, AllSigned, Successor
<1>9. raced' = raced
  BY <1>1 DEF Answer
<1>10. RevocationSafety'
  <2> SUFFICES ASSUME NEW m \in Node, m \notin raced, NEW i \in revoked'[m]
               PROVE  i < disk'[m].StateIdx
    BY <1>9 DEF RevocationSafety
  <2>1. disk[m].StateIdx \in Nat /\ disk'[m].StateIdx \in Nat /\ i \in Nat
    BY <1>5, <1>6, PlainFields DEF Inv, Types
  <2>2. disk'[m].StateIdx >= disk[m].StateIdx
    BY <1>1, <1>7, <2>1 DEF Successor
  <2>3. CASE i \in revoked[m]
    <3>1. i < disk[m].StateIdx
      BY <2>3 DEF Inv, Revocations, RevocationSafety
    <3> QED BY <2>1, <2>2, <3>1
  <2>4. CASE i \notin revoked[m]
    <3>1. m = n /\ i \in {reply[j].Elk : j \in DOMAIN reply}
      BY <1>1, <2>4 DEF Answer, Inv, Types
    <3>2. i < st.StateIdx
      BY <1>1, <3>1 DEF Replies, Reveals
    <3> QED BY <1>7, <3>1, <3>2
  <2> QED BY <2>3, <2>4
<1>11. Revocations'
  BY <1>9, <1>10 DEF Inv, Revocations
<1> QED BY <1>4, <1>5, <1>6, <1>8, <1>9, <1>11 DEF Stored, Inv, Types

-----------------------------------------------------------------------------
(* Every handler answers well.                                             *)

LEMMA SuccessorFail ==
  ASSUME NEW n \in Node, NEW st, Successor(n, st)
  PROVE  Successor(n, FailChannel(st))
<1> DEFINE su == FailChannel(st)
<1>0. st \in PlainCom /\ Signed(st) /\ st.StateIdx >= disk[n].StateIdx
  BY DEF Successor
<1>1. su \in PlainCom
  BY <1>0, PlainFail, Zenon
<1>2. st.StateIdx = su.StateIdx /\ st.MyAmt = su.MyAmt /\ st.Sig = su.Sig
  BY <1>0 DEF FailChannel, PlainCom
<1> HIDE DEF su
<1>3. Signed(su)
  BY <1>0, <1>1, <1>2, SignedStays, Zenon
<1> QED BY <1>0, <1>1, <1>2, <1>3, Zenon DEF Successor, su

(* The state before a saved successor is the one its message reveals.      *)
LEMMA AnswerSignedGood ==
  ASSUME NEW n \in Node, NEW st, NEW su, NEW msg,
         Successor(n, st), Reveals(msg, st), AnswerSigned(n, st, su, msg)
  PROVE  GoodAnswer(n)
<1>1. Replies(<<msg>>, st) /\ Replies(<<>>, FailChannel(st))
  BY Zenon DEF Replies
<1> QED BY <1>1, SuccessorFail, Zenon DEF AnswerSigned, GoodAnswer

LEMMA AnswerRest ==
  ASSUME Inv, NEW n \in Node, Ignore(n) \/ Fail(n)
  PROVE  GoodAnswer(n)
<1>1. \A st : Replies(<<>>, st)
  BY Zenon DEF Replies
<1> QED BY <1>1, SuccessorSame, Zenon DEF Ignore, Fail, GoodAnswer

(* The hash before the state st also precedes a state with its number.     *)
LEMMA RepliesREV ==
  ASSUME NEW st \in PlainCom, NEW su \in PlainCom, st.StateIdx = su.StateIdx
  PROVE  Replies(ReplyREV(st), su)
<1>1. CASE st.StateIdx > 0
  <2>1. Reveals(SendREV(st), su)
    BY <1>1, SentREV DEF Reveals
  <2>2. ReplyREV(st) = <<SendREV(st)>>
    BY <1>1 DEF ReplyREV, CanRevoke
  <2> QED BY <2>1, <2>2, Zenon DEF Replies
<1>2. CASE ~(st.StateIdx > 0)
  BY <1>2 DEF ReplyREV, CanRevoke, Replies
<1> QED BY <1>1, <1>2

LEMMA HeadMessage ==
  ASSUME Inv, NEW n \in Node, NEW type, Receiving(n, type)
  PROVE  Head(net[n]) \in Messages /\ Head(net[n]).type = type /\ net[n] # <<>>
  BY DEF Receiving, Inv, Types

(* The state that DeltaSigHandler saves is the one whose signature it      *)
(* verified.                                                               *)
LEMMA DeltaSigSuccessor ==
  ASSUME Inv, NEW n \in Node, NEW d \in Int, NEW sig \in Tx, NEW c \in BOOLEAN,
         DeltaSigOK(Seen(disk[n], d, c), d, sig, c)
  PROVE  LET new == DeltaSigSaved(disk[n], Seen(disk[n], d, c), d, sig, c)
         IN Successor(n, new) /\ new.StateIdx = disk[n].StateIdx + 1
<1> DEFINE st == disk[n]
           s == Seen(st, d, c)
           p == PulledState(s, d, c)
           v == [p EXCEPT !.ElkPoint = s.NextElkPoint]
           new == DeltaSigSaved(st, s, d, sig, c)
<1>1. st \in PlainCom /\ s \in PlainCom
  BY PlainSeen DEF Inv, Types
<1>2. s.StateIdx = st.StateIdx /\ s.MyAmt = st.MyAmt
  <2>1. s = [st EXCEPT !.Collision = IF c THEN d ELSE st.Collision]
    BY <1>1, PlainSeen
  <2> HIDE DEF s, st
  <2> QED BY <1>1, <2>1 DEF PlainCom
<1>3. VerifySigs(v, sig)
  BY DEF DeltaSigOK
<1>4. new \in PlainCom
  BY <1>1, PlainDeltaSig, Zenon
<1>5. new.StateIdx = st.StateIdx + 1 /\ new.MyAmt = st.MyAmt + d /\ new.Sig = sig
  <2> HIDE DEF st
  <2> QED BY <1>1, PlainDeltaSig
<1> HIDE DEF s, new, st
<1>6. p \in PlainCom /\ p.StateIdx = s.StateIdx + 1 /\ p.MyAmt = s.MyAmt + d
  <2>1. p \in PlainCom
    BY <1>1, PlainPulled, Zenon
  <2> QED BY <1>1, <2>1 DEF PulledState, PlainCom
<1> HIDE DEF p
<1>7. v \in PlainCom
  BY <1>1, <1>6, SetElkPoint, PlainFields
<1>8. v.StateIdx = p.StateIdx /\ v.MyAmt = p.MyAmt
  BY <1>6 DEF PlainCom
<1> HIDE DEF v
<1>9. Signed(new)
  <2>1. v.StateIdx = new.StateIdx /\ v.MyAmt = new.MyAmt
    BY <1>2, <1>5, <1>6, <1>8
  <2> QED BY <1>3, <1>4, <1>5, <1>7, <2>1, SignedVerified, Zenon
<1>10. new.StateIdx >= st.StateIdx
  BY <1>1, <1>5, PlainFields
<1> QED BY <1>4, <1>5, <1>9, <1>10 DEF Successor, new, st, s

LEMMA DeltaSigAnswers ==
  ASSUME Inv, NEW n \in Node, DeltaSigHandler(n)
  PROVE  GoodAnswer(n)
<1> DEFINE m == Head(net[n])
           st == disk[n]
           c == ~cts[n][gen[n]]
           s == Seen(st, m.Delta, c)
           new == DeltaSigSaved(st, s, m.Delta, m.Sig, c)
<1>1. m.Delta \in Int /\ m.Sig \in Tx /\ c \in BOOLEAN
  BY HeadMessage, MessageFields DEF DeltaSigHandler, Inv, Types
<1>2. st \in PlainCom /\ s \in PlainCom /\ st.StateIdx = s.StateIdx
  <2>1. st \in PlainCom
    BY DEF Inv, Types
  <2>2. s \in PlainCom
    BY <1>1, <2>1, PlainSeen, Zenon
  <2>3. s = [st EXCEPT !.Collision = IF c THEN m.Delta ELSE st.Collision]
    BY <1>1, <2>1, PlainSeen, Zenon
  <2> QED BY <2>1, <2>2, <2>3 DEF PlainCom
<1>3. \/ Ignore(n)
      \/ Answer(n, st, ReplyREV(s))
      \/ Fail(n)
      \/ /\ DeltaSigOK(s, m.Delta, m.Sig, c)
         /\ \/ AnswerSigned(n, new, GapSigRevState(new), SendGapSigRev(new))
            \/ AnswerSigned(n, new, SigRevState(new), SendSigRev(new))
  BY Zenon DEF DeltaSigHandler, Seen
<1>4. CASE Answer(n, st, ReplyREV(s))
  BY <1>2, <1>4, RepliesREV, SuccessorSame, Zenon DEF GoodAnswer
<1>5. CASE DeltaSigOK(s, m.Delta, m.Sig, c)
  <2>1. Successor(n, new) /\ new.StateIdx = st.StateIdx + 1
    BY <1>1, <1>5, DeltaSigSuccessor, Zenon
  <2>2. new \in PlainCom /\ new.StateIdx > 0
    BY <1>2, <2>1, PlainFields DEF Successor
  <2> HIDE DEF new
  <2>3. Reveals(SendSigRev(new), new) /\ Reveals(SendGapSigRev(new), new)
    BY <2>2, SentSigRev, Zenon
  <2>4. CASE AnswerSigned(n, new, GapSigRevState(new), SendGapSigRev(new))
    BY <2>1, <2>3, <2>4, AnswerSignedGood, Zenon
  <2>5. CASE AnswerSigned(n, new, SigRevState(new), SendSigRev(new))
    BY <2>1, <2>3, <2>5, AnswerSignedGood, Zenon
  <2> QED BY <1>3, <1>4, <2>4, <2>5, AnswerRest, Zenon DEF new
<1> QED BY <1>3, <1>4, <1>5, AnswerRest, Zenon

LEMMA GapSigRevSuccessor ==
  ASSUME NEW n \in Node, NEW st \in PlainCom, st = disk[n],
         NEW m, m.Sig \in Tx, RevPart(m), GapSigRevOK(st, m)
  PROVE  Successor(n, GapSigRevSaved(st, m)) /\ GapSigRevSaved(st, m).StateIdx > 0
<1> DEFINE g == GapState(st, m.N2ElkPoint)
           v == [g EXCEPT !.StateIdx = g.StateIdx + 1, !.ElkPoint = g.NextElkPoint]
           new == GapSigRevSaved(st, m)
<1>1. m.N2ElkPoint \in Nat
  BY DEF RevPart
<1>2. new \in PlainCom /\ new.StateIdx = st.StateIdx + 1 /\ new.MyAmt = st.MyAmt + st.Delta
      /\ new.Sig = m.Sig
  BY PlainGapSigRev
<1>3. g \in PlainCom
  BY <1>1, PlainGap, Zenon
<1>4. g.StateIdx = st.StateIdx /\ g.MyAmt = st.MyAmt + st.Delta
  BY PlainSettled DEF GapState, AdvanceElkrem, PlainCom
<1>5. VerifySigs(v, m.Sig)
  BY Zenon DEF GapSigRevOK
<1> HIDE DEF g, new
<1>6. v \in PlainCom
  <2>1. g.StateIdx + 1 \in Nat /\ g.NextElkPoint \in Nat
    BY <1>3, PlainFields
  <2> QED BY <1>3, <2>1 DEF PlainCom
<1>7. v.StateIdx = g.StateIdx + 1 /\ v.MyAmt = g.MyAmt
  BY <1>3 DEF PlainCom
<1> HIDE DEF v
<1>8. Signed(new)
  <2>1. v.StateIdx = new.StateIdx /\ v.MyAmt = new.MyAmt
    BY <1>2, <1>4, <1>7
  <2> QED BY <1>2, <1>5, <1>6, <2>1, SignedVerified, Zenon
<1>9. new.StateIdx >= st.StateIdx /\ new.StateIdx > 0
  BY <1>2, PlainFields
<1> QED BY <1>2, <1>8, <1>9 DEF Successor, new

LEMMA GapSigRevAnswers ==
  ASSUME Inv, NEW n \in Node, GapSigRevHandler(n)
  PROVE  GoodAnswer(n)
<1> DEFINE m == Head(net[n])
           st == disk[n]
           new == GapSigRevSaved(st, m)
<1>1. st \in PlainCom /\ m.Sig \in Tx /\ RevPart(m)
  BY HeadMessage, MessageFields DEF GapSigRevHandler, Inv, Types
<1>2. \/ Fail(n)
      \/ GapSigRevOK(st, m) /\ Answer(n, new, <<SendREV(new)>>)
  BY Zenon DEF GapSigRevHandler
<1>3. CASE GapSigRevOK(st, m) /\ Answer(n, new, <<SendREV(new)>>)
  <2>1. Successor(n, new) /\ new.StateIdx > 0
    BY <1>1, <1>3, GapSigRevSuccessor, Zenon
  <2>2. Reveals(SendREV(new), new)
    BY <2>1, SentREV, Zenon DEF Successor
  <2> HIDE DEF new
  <2> QED BY <1>3, <2>1, <2>2, Zenon DEF GoodAnswer, Replies
<1> QED BY <1>2, <1>3, AnswerRest, Zenon

LEMMA SigRevSuccessor ==
  ASSUME NEW n \in Node, NEW st \in PlainCom, st = disk[n],
         NEW m, m.Sig \in Tx, RevPart(m), SigRevOK(st, m)
  PROVE  Successor(n, SigRevSaved(st, m)) /\ SigRevSaved(st, m).StateIdx > 0
<1> DEFINE p == PushedState(st)
           v == [p EXCEPT !.ElkPoint = st.NextElkPoint]
           new == SigRevSaved(st, m)
<1>1. new \in PlainCom
  BY PlainSigRev, Zenon
<1>2. new.StateIdx = st.StateIdx + 1 /\ new.MyAmt = st.MyAmt + st.Delta /\ new.Sig = m.Sig
  <2>1. new = [st EXCEPT !.StateIdx = @ + 1, !.Delta = 0, !.MyAmt = @ + st.Delta, !.Sig = m.Sig,
                         !.ElkPoint = st.NextElkPoint, !.NextElkPoint = st.N2ElkPoint,
                         !.N2ElkPoint = m.N2ElkPoint]
    BY PlainSigRev
  <2> HIDE DEF new
  <2> QED BY <2>1 DEF PlainCom
<1>3. p \in PlainCom
  BY PlainPushed, Zenon
<1>4. p.StateIdx = st.StateIdx + 1 /\ p.MyAmt = st.MyAmt + st.Delta
  BY PlainSettled DEF PushedState, PlainCom
<1>5. VerifySigs(v, m.Sig)
  BY Zenon DEF SigRevOK
<1> HIDE DEF p, new
<1>6. v \in PlainCom
  BY <1>3, SetElkPoint, PlainFields
<1>7. v.StateIdx = p.StateIdx /\ v.MyAmt = p.MyAmt
  BY <1>3 DEF PlainCom
<1> HIDE DEF v
<1>8. Signed(new)
  <2>1. v.StateIdx = new.StateIdx /\ v.MyAmt = new.MyAmt
    BY <1>2, <1>4, <1>7
  <2> QED BY <1>1, <1>2, <1>5, <1>6, <2>1, SignedVerified, Zenon
<1>9. new.StateIdx >= st.StateIdx /\ new.StateIdx > 0
  BY <1>2, PlainFields
<1> QED BY <1>1, <1>8, <1>9 DEF Successor, new

LEMMA SigRevAnswers ==
  ASSUME Inv, NEW n \in Node, SigRevHandler(n)
  PROVE  GoodAnswer(n)
<1> DEFINE m == Head(net[n])
           st == disk[n]
           new == SigRevSaved(st, m)
<1>1. st \in PlainCom /\ m.Sig \in Tx /\ RevPart(m)
  BY HeadMessage, MessageFields DEF SigRevHandler, Inv, Types
<1>2. \/ Answer(n, IF CanRevoke(st) THEN st ELSE FailChannel(st), ReplyREV(st))
      \/ Fail(n)
      \/ SigRevOK(st, m) /\ Answer(n, new, <<SendREV(new)>>)
  BY Zenon DEF SigRevHandler
<1>3. CASE SigRevOK(st, m) /\ Answer(n, new, <<SendREV(new)>>)
  <2>1. Successor(n, new) /\ new.StateIdx > 0
    BY <1>1, <1>3, SigRevSuccessor, Zenon
  <2>2. Reveals(SendREV(new), new)
    BY <2>1, SentREV, Zenon DEF Successor
  <2> HIDE DEF new
  <2> QED BY <1>3, <2>1, <2>2, Zenon DEF GoodAnswer, Replies
<1>4. CASE Answer(n, IF CanRevoke(st) THEN st ELSE FailChannel(st), ReplyREV(st))
  <2>1. CASE CanRevoke(st)
    BY <1>1, <1>4, <2>1, RepliesREV, SuccessorSame, Zenon DEF GoodAnswer
  <2>2. CASE ~CanRevoke(st)
    <3>1. ReplyREV(st) = <<>>
      BY <2>2, Zenon DEF ReplyREV
    <3> QED BY <1>4, <2>2, <3>1, SuccessorSame, Zenon DEF GoodAnswer, Replies
  <2> QED BY <2>1, <2>2
<1> QED BY <1>2, <1>3, <1>4, AnswerRest, Zenon

LEMMA RevAnswers ==
  ASSUME Inv, NEW n \in Node, RevHandler(n)
  PROVE  GoodAnswer(n)
<1> DEFINE m == Head(net[n])
           st == disk[n]
           new == RevSaved(st, m)
<1>1. st \in PlainCom /\ RevPart(m) /\ Signed(st)
  BY HeadMessage, MessageFields DEF RevHandler, Inv, Types, AllSigned
<1>2. \/ Ignore(n)
      \/ Answer(n, st, ReplyREV(st))
      \/ Fail(n)
      \/ Answer(n, new, <<>>)
  BY Zenon DEF RevHandler
<1>3. CASE Answer(n, new, <<>>)
  <2>1. /\ new \in PlainCom /\ st.StateIdx = new.StateIdx /\ st.MyAmt = new.MyAmt
        /\ st.Sig = new.Sig
    BY <1>1, PlainRev, Zenon
  <2>2. Signed(new)
    BY <1>1, <2>1, SignedStays, Zenon
  <2>3. new.StateIdx >= st.StateIdx
    <3> HIDE DEF new, st
    <3> QED BY <1>1, <2>1, PlainFields
  <2> HIDE DEF new
  <2> QED BY <1>3, <2>1, <2>2, <2>3, Zenon DEF GoodAnswer, Replies, Successor
<1>4. CASE Answer(n, st, ReplyREV(st))
  BY <1>1, <1>4, RepliesREV, SuccessorSame, Zenon DEF GoodAnswer
<1> QED BY <1>2, <1>3, <1>4, AnswerRest, Zenon

-----------------------------------------------------------------------------
(* The invariant holds initially.                                          *)
LEMMA InitInv == Init => Inv
<1> SUFFICES ASSUME Init PROVE Inv
  OBVIOUS
<1> USE DEF Init
<1>1. A # B /\ Node = {A, B}
  BY NodeAssumption DEF Node
<1>2. \A n \in Node : disk[n] \in PlainCom /\ Signed(disk[n])
  <2> DEFINE amt(n) == IF n = A THEN InitAmtA ELSE Value - InitAmtA
  <2> SUFFICES ASSUME NEW n \in Node PROVE InitState(amt(n)) \in PlainCom /\ Signed(InitState(amt(n)))
    OBVIOUS
  <2>1. /\ amt(n) \in Int
        /\ amt(n) = 0 \/ amt(n) >= MinOutput + Fee
        /\ Value - amt(n) = 0 \/ Value - amt(n) >= MinOutput + Fee
        /\ amt(n) # 0 \/ Value - amt(n) # 0
    BY ValueAssumption, BoundAssumption, FundingAssumption
  <2> QED BY <2>1, InitSigned, Zenon
<1>3. Types
  <2>1. disk \in [Node -> PlainCom]
    BY <1>2
  <2>2. gen \in [Node -> Gen] /\ cts \in [Node -> [Gen -> BOOLEAN]]
    BY GenFacts
  <2>3. call \in [Node -> [Call -> CallState]]
    BY DEF CallState, PC, Nothing
  <2>4. conns \in 0 .. MaxReconnect /\ chainops \in [Node -> 0 .. MaxChainOp] /\ raced \subseteq Node
    BY BoundAssumption
  <2> QED BY <2>1, <2>2, <2>3, <2>4 DEF Types
<1>4. GenBound
  BY DEF GenBound
<1>5. AllSigned
  BY <1>2 DEF AllSigned
<1>6. Revocations
  BY DEF Revocations, RevocationSafety
<1>7. CallGen
  BY DEF CallGen, Calling, GoodView
<1> QED BY <1>3, <1>4, <1>5, <1>6, <1>7 DEF Inv

-----------------------------------------------------------------------------
(* The parts of the invariant that the memory of the nodes carries.        *)
Memory ==
    /\ gen \in [Node -> Gen]
    /\ cts \in [Node -> [Gen -> BOOLEAN]]
    /\ fill \in [Node -> SUBSET Gen]
    /\ inited \in [Node -> BOOLEAN]
    /\ stuck \in [Node -> Gen \cup {0}]
    /\ conns \in 0 .. MaxReconnect
    /\ GenBound

LEMMA MemoryStays ==
  ASSUME Inv, UNCHANGED <<gen, fill, inited, conns>>,
         cts' \in [Node -> [Gen -> BOOLEAN]], stuck' \in [Node -> Gen \cup {0}]
  PROVE  Memory'
  BY DEF Memory, Inv, Types, GenBound

LEMMA Tokens ==
  ASSUME Inv, NEW n \in Node, NEW g \in Gen
  PROVE  /\ TakeCts(n, g) => cts' \in [Node -> [Gen -> BOOLEAN]]
         /\ AssertClearToSend(n) => /\ cts' \in [Node -> [Gen -> BOOLEAN]]
                                    /\ stuck' \in [Node -> Gen \cup {0}]
<1>1. gen[n] \in Gen
  BY DEF Inv, Types
<1>2. TakeCts(n, g) => cts' \in [Node -> [Gen -> BOOLEAN]]
  BY DEF TakeCts, Inv, Types
<1>3. AssertClearToSend(n) => /\ cts' \in [Node -> [Gen -> BOOLEAN]]
                              /\ stuck' \in [Node -> Gen \cup {0}]
  <2>1. /\ cts \in [Node -> [Gen -> BOOLEAN]] /\ stuck \in [Node -> Gen \cup {0}]
        /\ gen[n] \in Gen \cup {0}
    BY <1>1 DEF Inv, Types
  <2>2. cts' = [cts EXCEPT ![n][gen[n]] = TRUE] => cts' \in [Node -> [Gen -> BOOLEAN]]
    BY <1>1, <2>1
  <2>3. stuck' = [stuck EXCEPT ![n] = gen[n]] => stuck' \in [Node -> Gen \cup {0}]
    BY <2>1
  <2> QED BY <2>1, <2>2, <2>3, Zenon DEF AssertClearToSend
<1> QED BY <1>2, <1>3

(* A handler that answers well and keeps the memory typed keeps Inv.       *)
LEMMA HandlerInv ==
  ASSUME Inv, NEW n \in Node, GoodAnswer(n), net[n] # <<>>, Memory',
         UNCHANGED <<closed, gen, call, saving, bcast, conns, chainops>>
  PROVE  Inv'
<1>1. Stored' /\ net' \in [Node -> Seq(Messages)] /\ revoked' \in [Node -> SUBSET Nat]
  BY AnswerKeeps
<1>2. CallGen'
  BY DEF Inv, CallGen
<1> QED BY <1>1, <1>2 DEF Inv, Types, Stored, Memory

LEMMA DeltaSigInv == ASSUME Inv, NEW n \in Node, DeltaSigHandler(n) PROVE Inv'
<1>1. GoodAnswer(n) /\ net[n] # <<>>
  BY DeltaSigAnswers DEF DeltaSigHandler, Receiving
<1>2. Memory'
  BY Tokens, MemoryStays DEF DeltaSigHandler, env, Inv, Types
<1> QED BY <1>1, <1>2, HandlerInv DEF DeltaSigHandler, env

LEMMA GapSigRevInv == ASSUME Inv, NEW n \in Node, GapSigRevHandler(n) PROVE Inv'
<1>1. GoodAnswer(n) /\ net[n] # <<>>
  BY GapSigRevAnswers DEF GapSigRevHandler, Receiving
<1>2. Memory'
  BY MemoryStays DEF GapSigRevHandler, env, ram, Inv, Types
<1> QED BY <1>1, <1>2, HandlerInv DEF GapSigRevHandler, env, ram

LEMMA SigRevInv == ASSUME Inv, NEW n \in Node, SigRevHandler(n) PROVE Inv'
<1>1. GoodAnswer(n) /\ net[n] # <<>>
  BY SigRevAnswers DEF SigRevHandler, Receiving
<1>2. AssertClearToSend(n) \/ UNCHANGED <<cts, stuck>>
  BY Zenon DEF SigRevHandler
<1>3. cts' \in [Node -> [Gen -> BOOLEAN]] /\ stuck' \in [Node -> Gen \cup {0}]
  BY <1>2, GenFacts, Tokens DEF Inv, Types
<1>4. Memory'
  BY <1>3, MemoryStays DEF SigRevHandler, env
<1> QED BY <1>1, <1>4, HandlerInv DEF SigRevHandler, env

LEMMA RevInv == ASSUME Inv, NEW n \in Node, RevHandler(n) PROVE Inv'
<1>1. GoodAnswer(n) /\ net[n] # <<>>
  BY RevAnswers DEF RevHandler, Receiving
<1>2. AssertClearToSend(n) \/ HangOnMultihop(n) \/ UNCHANGED <<cts, stuck>>
  BY Zenon DEF RevHandler
<1>3. cts' \in [Node -> [Gen -> BOOLEAN]] /\ stuck' \in [Node -> Gen \cup {0}]
  <2>1. CASE HangOnMultihop(n)
    BY <2>1, GenFacts DEF HangOnMultihop, Inv, Types
  <2> QED BY <1>2, <2>1, GenFacts, Tokens DEF Inv, Types
<1>4. Memory'
  BY <1>3, MemoryStays DEF RevHandler, env
<1> QED BY <1>1, <1>4, HandlerInv DEF RevHandler, env

-----------------------------------------------------------------------------
(* The user's calls.                                                       *)

Calls == call \in [Node -> [Call -> CallState]] /\ CallGen

LEMMA CallInv ==
  ASSUME Inv, Stored', Memory', Calls', net' \in [Node -> Seq(Messages)],
         UNCHANGED <<closed, saving, revoked, bcast, chainops>>
  PROVE  Inv'
  BY DEF Inv, Types, Stored, Memory, Calls

LEMMA StoredStays ==
  ASSUME Inv, failed' \in [Node -> SUBSET Gen], UNCHANGED <<disk, saving, revoked, raced, conns>>
  PROVE  Stored'
  BY DEF Stored, Inv, Types, AllSigned, Revocations, RevocationSafety

(* What a call has reloaded, or can reload now, can be broadcast.          *)
LEMMA ViewStorable ==
  ASSUME Inv, NEW n \in Node, NEW c \in Call
  PROVE  Storable(View(n, c)) /\ (conns = 0 => View(n, c) = disk[n])
<1>1. Storable(disk[n])
  BY DEF Inv, Types, AllSigned, Storable
<1>2. GoodView(call[n][c].seen) /\ (conns = 0 => call[n][c].seen = Nothing)
  BY DEF Inv, CallGen
<1>3. ASSUME NEW st, call[n][c].seen = <<st>>, st \in PlainCom, Signed(st)
      PROVE  Storable(call[n][c].seen[1])
  BY <1>3 DEF Storable
<1>4. call[n][c].seen # Nothing => Storable(call[n][c].seen[1])
  BY <1>2, <1>3, Zenon DEF GoodView
<1> QED BY <1>1, <1>2, <1>4, Zenon DEF View

(* Storing it failed or with another delta.                                *)
LEMMA StorableChanged ==
  ASSUME NEW st, Storable(st)
  PROVE  /\ Storable(FailChannel(st)) /\ FailChannel(st).StateIdx = st.StateIdx
         /\ \A d \in Int : LET su == [st EXCEPT !.Delta = d]
                           IN Storable(su) /\ su.StateIdx = st.StateIdx
<1>1. st \in PlainCom /\ Signed(st)
  BY DEF Storable
<1>2. Storable(FailChannel(st)) /\ FailChannel(st).StateIdx = st.StateIdx
  <2> DEFINE su == FailChannel(st)
  <2>1. su \in PlainCom
    BY <1>1, PlainFail, Zenon
  <2>2. st.StateIdx = su.StateIdx /\ st.MyAmt = su.MyAmt /\ st.Sig = su.Sig
    BY <1>1 DEF FailChannel, PlainCom
  <2> HIDE DEF su
  <2>3. Signed(su)
    BY <1>1, <2>1, <2>2, SignedStays, Zenon
  <2> QED BY <2>1, <2>2, <2>3, Zenon DEF Storable, su
<1>3. ASSUME NEW d \in Int
      PROVE  LET su == [st EXCEPT !.Delta = d]
             IN Storable(su) /\ su.StateIdx = st.StateIdx
  <2> DEFINE su == [st EXCEPT !.Delta = d]
  <2>1. su \in PlainCom
    BY <1>1, SetDelta, Zenon
  <2>2. st.StateIdx = su.StateIdx /\ st.MyAmt = su.MyAmt /\ st.Sig = su.Sig
    BY <1>1 DEF PlainCom
  <2> HIDE DEF su
  <2>3. Signed(su)
    BY <1>1, <2>1, <2>2, SignedStays, Zenon
  <2> QED BY <2>1, <2>2, <2>3, Zenon DEF Storable, su
<1> QED BY <1>2, <1>3, Zenon

LEMMA GenNumbers ==
  ASSUME NEW g \in Gen \cup {0}
  PROVE  g \in Int /\ g >= 0 /\ (g \in Gen => g >= 1)
  BY BoundAssumption DEF Gen

LEMMA CallAges ==
  ASSUME Inv, NEW n \in Node, NEW c \in Call
  PROVE  /\ call[n][c] \in CallState /\ call[n][c].gen \in Int /\ call[n][c].gen <= gen[n]
         /\ call[n][c].gen \in Gen \cup {0}
         /\ conns = 0 /\ call[n][c].gen \in Gen => call[n][c].gen = gen[n]
<1>1. call[n][c] \in CallState /\ gen[n] \in Gen
  BY DEF Inv, Types
<1>2. call[n][c].gen \in Gen \cup {0}
  BY <1>1 DEF CallState
<1>3. call[n][c].gen \in Int /\ call[n][c].gen <= gen[n] /\ gen[n] \in Int
  BY <1>1, <1>2, GenNumbers DEF Inv, CallGen
<1>4. conns = 0 => gen[n] <= 1
  BY <1>3 DEF Inv, GenBound
<1>5. call[n][c].gen \in Gen => call[n][c].gen >= 1
  BY GenNumbers
<1> QED BY <1>1, <1>2, <1>3, <1>4, <1>5

(* What a call saves: something made from the state it read.               *)
LEMMA CallSaveKeeps ==
  ASSUME Inv, NEW n \in Node, NEW c \in Call, NEW read, NEW st,
         call[n][c].gen \in Gen, Storable(st), st.StateIdx = read.StateIdx,
         conns = 0 => read = disk[n],
         CallSave(n, c, read, st), UNCHANGED <<saving, revoked, conns>>
  PROVE  Stored'
<1> DEFINE g == call[n][c].gen
<1>1. CASE Save(n, g, st) /\ raced' = IF read = disk[n] THEN raced ELSE raced \cup {n}
  <2>1. disk[n].StateIdx \in Nat
    BY PlainFields DEF Inv, Types
  <2>2. n \in raced' \/ st.StateIdx >= disk[n].StateIdx
    BY <1>1, <2>1
  <2>3. raced \subseteq raced' /\ raced' \subseteq Node
    BY <1>1 DEF Inv, Types
  <2>4. ~SaveRace /\ conns = 0 => raced' = {}
    BY <1>1 DEF Inv, Revocations
  <2> QED BY <1>1, <2>2, <2>3, <2>4, SaveKeeps
<1>2. CASE g # gen[n] /\ Copy(n, g, st) /\ raced' = raced \cup {n} /\ UNCHANGED disk
  <2>1. conns # 0
    BY <1>2, CallAges
  <2>2. failed' \in [Node -> SUBSET Gen] /\ raced' \subseteq Node
    BY <1>2 DEF Copy, Inv, Types
  <2>3. AllSigned'
    BY <1>2 DEF Inv, AllSigned
  <2>4. RevocationSafety'
    BY <1>2 DEF Inv, Revocations, RevocationSafety
  <2>5. Revocations'
    BY <2>1, <2>4 DEF Inv, Revocations
  <2> QED BY <1>2, <2>2, <2>3, <2>5 DEF Stored, Inv, Types
<1> QED BY <1>1, <1>2, Zenon DEF CallSave

(* One call moves to another place in PushChannel.                         *)
LEMMA CallMoves ==
  ASSUME Inv, NEW n \in Node, NEW c \in Call, NEW new \in CallState,
         new.pc \in Calling => new.gen \in Gen, new.gen <= gen[n],
         GoodView(new.seen), conns = 0 => new.seen = Nothing /\ new.pc # "failing",
         call' = [call EXCEPT ![n][c] = new], UNCHANGED <<gen, conns>>
  PROVE  Calls'
<1>1. call' \in [Node -> [Call -> CallState]]
  BY DEF Inv, Types
<1>2. \A k \in Node, d \in Call : call'[k][d] = IF k = n /\ d = c THEN new ELSE call[k][d]
  BY DEF Inv, Types
<1>3. CallGen'
  BY <1>2 DEF Inv, CallGen
<1> QED BY <1>1, <1>3 DEF Calls

LEMMA OlderCalls ==
  ASSUME Inv, \A m \in Node : gen[m] \in Int /\ gen'[m] \in Int /\ gen[m] <= gen'[m],
         UNCHANGED <<call, conns>>
  PROVE  Calls'
<1>1. \A m \in Node, c \in Call : call[m][c].gen \in Int /\ call[m][c].gen <= gen[m]
  BY CallAges
<1>2. \A m \in Node, c \in Call : call[m][c].gen <= gen'[m]
  BY <1>1
<1> QED BY <1>2 DEF Calls, Inv, Types, CallGen

(* A call as it is, but at another place and with another view.            *)
LEMMA CallFields ==
  ASSUME NEW P, NEW G, NEW M, NEW S, NEW x \in [pc : P, gen : G, amt : M, seen : S],
         NEW p \in P, NEW g \in G, NEW s \in S
  PROVE  /\ [x EXCEPT !.pc = p, !.seen = s] \in [pc : P, gen : G, amt : M, seen : S]
         /\ [x EXCEPT !.pc = p, !.seen = s].pc = p
         /\ [x EXCEPT !.pc = p, !.seen = s].gen = x.gen
         /\ [x EXCEPT !.pc = p, !.seen = s].seen = s
         /\ [x EXCEPT !.pc = p, !.gen = g, !.seen = s] \in [pc : P, gen : G, amt : M, seen : S]
         /\ [x EXCEPT !.pc = p, !.gen = g, !.seen = s].pc = p
         /\ [x EXCEPT !.pc = p, !.gen = g, !.seen = s].gen = g
         /\ [x EXCEPT !.pc = p, !.gen = g, !.seen = s].seen = s
  OBVIOUS

LEMMA CallWith ==
  ASSUME NEW r \in CallState, NEW pc \in PC, NEW seen \in Seq(StatCom)
  PROVE  [r EXCEPT !.pc = pc, !.seen = seen] \in CallState
<1>1. 0 \in Gen \cup {0}
  OBVIOUS
<1> QED BY <1>1, CallFields, Zenon DEF CallState

LEMMA CallEnded ==
  ASSUME NEW r \in CallState, NEW pc \in PC
  PROVE  /\ [r EXCEPT !.pc = pc, !.gen = 0, !.seen = Nothing] \in CallState
         /\ [r EXCEPT !.pc = pc, !.gen = 0, !.seen = Nothing].pc = pc
         /\ [r EXCEPT !.pc = pc, !.gen = 0, !.seen = Nothing].gen = 0
         /\ [r EXCEPT !.pc = pc, !.gen = 0, !.seen = Nothing].seen = Nothing
<1>1. 0 \in Gen \cup {0} /\ Nothing \in Seq(StatCom)
  BY DEF Nothing
<1> QED BY <1>1, CallFields, Zenon DEF CallState

LEMMA CallReturns ==
  ASSUME Inv, NEW n \in Node, NEW c \in Call, NEW pc \in PC \ Calling, Return(n, c, pc),
         UNCHANGED <<gen, conns>>
  PROVE  Calls'
<1> DEFINE new == [call[n][c] EXCEPT !.pc = pc, !.gen = 0, !.seen = Nothing]
<1>1. call[n][c] \in CallState /\ gen[n] \in Gen
  BY DEF Inv, Types
<1>2. new \in CallState /\ new.pc = pc /\ new.gen = 0 /\ new.seen = Nothing
  BY <1>1, CallEnded, Zenon
<1>3. call' = [call EXCEPT ![n][c] = new]
  BY <1>1 DEF Return, Inv, Types, CallState
<1>4. 0 <= gen[n] /\ GoodView(Nothing)
  BY <1>1, GenNumbers DEF GoodView
<1>5. pc # "failing" BY DEF Calling
<1> HIDE DEF new
<1> QED BY <1>2, <1>3, <1>4, <1>5, CallMoves

LEMMA LoadKeeps ==
  ASSUME Inv, NEW n \in Node, NEW c \in Call, NEW pc \in Calling, call[n][c].gen \in Gen,
         LoadState(n, c, pc), UNCHANGED <<saving, revoked, gen, conns>>
  PROVE  Stored' /\ Calls'
<1> DEFINE new == [call[n][c] EXCEPT !.pc = pc, !.seen = <<disk[n]>>]
<1>1. Storable(disk[n]) /\ disk[n] \in StatCom
  BY PlainIsStatCom DEF Inv, Types, AllSigned, Storable
<1>2. <<disk[n]>> \in Seq(StatCom) /\ GoodView(<<disk[n]>>)
  BY <1>1 DEF GoodView, Storable
<1>3. conns # 0
  <2> SUFFICES ASSUME conns = 0 PROVE FALSE
    OBVIOUS
  <2>1. gen[n] # call[n][c].gen \/ \E d \in Call : call[n][d].gen \notin {0, call[n][c].gen}
    BY DEF LoadState, OtherInstance
  <2>2. \A d \in Call : call[n][d].gen \in {0, gen[n]}
    BY CallAges
  <2>3. call[n][c].gen = gen[n]
    BY CallAges
  <2> QED BY <2>1, <2>2, <2>3
<1>4. Stored'
  <2>1. failed' \in [Node -> SUBSET Gen]
    BY DEF LoadState, Copy, Inv, Types
  <2> QED BY <2>1, StoredStays DEF LoadState
<1>5. Calls'
  <2>1. call[n][c] \in CallState /\ pc \in PC /\ call[n][c].gen <= gen[n]
    BY CallAges DEF Calling, PC
  <2>2. new \in CallState /\ new.pc = pc /\ new.gen = call[n][c].gen /\ new.seen = <<disk[n]>>
    <3>1. new \in CallState
      BY <1>2, <2>1, CallWith, Zenon
    <3>2. new.pc = pc /\ new.gen = call[n][c].gen /\ new.seen = <<disk[n]>>
      BY <2>1 DEF CallState
    <3> QED BY <3>1, <3>2
  <2>3. call' = [call EXCEPT ![n][c] = new]
    BY DEF LoadState, Inv, Types
  <2> HIDE DEF new
  <2> QED BY <1>2, <1>3, <2>1, <2>2, <2>3, CallMoves
<1> QED BY <1>4, <1>5

LEMMA FailKeeps ==
  ASSUME Inv, NEW n \in Node, NEW c \in Call, call[n][c].gen \in Gen,
         FailCall(n, c), UNCHANGED <<saving, revoked, gen, conns>>
  PROVE  Stored' /\ Calls'
<1>1. CASE CallSave(n, c, disk[n], FailChannel(disk[n])) /\ Return(n, c, "failed")
  <2>1. Storable(disk[n])
    BY DEF Inv, Types, AllSigned, Storable
  <2>2. Storable(FailChannel(disk[n])) /\ FailChannel(disk[n]).StateIdx = disk[n].StateIdx
    BY <2>1, StorableChanged
  <2>3. Stored'
    BY <1>1, <2>2, CallSaveKeeps
  <2> QED BY <1>1, <2>3, CallReturns DEF PC, Calling
<1>2. CASE LoadState(n, c, "failing")
  BY <1>2, LoadKeeps DEF Calling
<1> QED BY <1>1, <1>2, Zenon DEF FailCall

LEMMA PushStartInv ==
  ASSUME Inv, NEW n \in Node, NEW c \in Call, NEW amt \in PushAmt, PushStart(n, c, amt)
  PROVE  Inv'
<1> DEFINE new == [pc |-> "enter", gen |-> gen[n], amt |-> amt, seen |-> Nothing]
<1>1. gen[n] \in Gen /\ gen[n] <= gen[n]
  BY GenNumbers DEF Inv, Types
<1>2. new \in CallState /\ new.gen = gen[n] /\ new.seen = Nothing /\ new.pc = "enter"
  BY <1>1 DEF CallState, PC, Nothing
<1>3. call' = [call EXCEPT ![n][c] = new] /\ UNCHANGED <<gen, conns>>
  BY DEF PushStart, ram, env
<1>4. Calls'
  BY <1>1, <1>2, <1>3, CallMoves DEF GoodView
<1>5. Stored' /\ Memory'
  BY StoredStays, MemoryStays DEF PushStart, db, env, hist, ram, Inv, Types
<1> QED BY <1>4, <1>5, CallInv DEF PushStart, db, env, hist, Inv, Types

(* A call that holds the instance has one.                                 *)
LEMMA CallInstance ==
  ASSUME Inv, NEW n \in Node, NEW c \in Call,
         HasChannel(n, c) \/ Waiting(n, c) \/ call[n][c].pc = "failing"
  PROVE  call[n][c].gen \in Gen /\ call[n][c].amt \in Int
<1>1. call[n][c].gen \in Gen
  BY DEF Inv, CallGen, HasChannel, Waiting, Calling
<1>2. call[n][c] \in CallState
  BY DEF Inv, Types
<1>3. call[n][c].amt \in PushAmt \cup {0}
  BY <1>2 DEF CallState
<1>4. \A x \in PushAmt \cup {0} : x \in Int
  BY BoundAssumption
<1> QED BY <1>1, <1>3, <1>4, Zenon

LEMMA CallReloadInv ==
  ASSUME Inv, NEW n \in Node, NEW c \in Call, CallReload(n, c)
  PROVE  Inv'
<1>1. Stored' /\ Calls'
  BY CallInstance, LoadKeeps DEF CallReload, ram, env, Calling
<1>2. Memory'
  BY MemoryStays DEF CallReload, ram, env, Inv, Types
<1> QED BY <1>1, <1>2, CallInv DEF CallReload, env, Inv, Types

LEMMA FailSaveInv ==
  ASSUME Inv, NEW n \in Node, NEW c \in Call, FailSave(n, c)
  PROVE  Inv'
<1> DEFINE st == View(n, c)
<1>1. Storable(st) /\ (conns = 0 => st = disk[n])
  BY ViewStorable
<1>2. /\ call[n][c].gen \in Gen /\ CallSave(n, c, st, FailChannel(st))
      /\ UNCHANGED <<saving, revoked, conns>>
  BY CallInstance DEF FailSave, env
<1> HIDE DEF st
<1>3. Stored'
  BY <1>1, <1>2, StorableChanged, CallSaveKeeps
<1>4. Calls'
  BY CallReturns DEF FailSave, PC, Calling, ram, env
<1>5. Memory'
  BY MemoryStays DEF FailSave, ram, env, Inv, Types
<1> QED BY <1>3, <1>4, <1>5, CallInv DEF FailSave, env, Inv, Types

LEMMA PushRefusedInv ==
  ASSUME Inv, NEW n \in Node, NEW c \in Call, PushRefused(n, c)
  PROVE  Inv'
<1>1. Stored'
  <2>1. failed' \in [Node -> SUBSET Gen]
    BY CallInstance DEF PushRefused, Copy, Inv, Types
  <2> QED BY <2>1, StoredStays DEF PushRefused, env, hist
<1>2. Calls'
  BY CallReturns DEF PushRefused, PC, Calling, ram, env
<1>3. Memory'
  BY MemoryStays DEF PushRefused, ram, env, Inv, Types
<1> QED BY <1>1, <1>2, <1>3, CallInv DEF PushRefused, env, hist, Inv, Types

LEMMA PushNotAtRestInv ==
  ASSUME Inv, NEW n \in Node, NEW c \in Call, PushNotAtRest(n, c)
  PROVE  Inv'
<1>1. Stored' /\ Calls'
  BY CallInstance, FailKeeps DEF PushNotAtRest, env
<1>2. Memory'
  BY CallInstance, Tokens, MemoryStays DEF PushNotAtRest, env, Inv, Types
<1> QED BY <1>1, <1>2, CallInv DEF PushNotAtRest, env, Inv, Types

LEMMA PushSendInv ==
  ASSUME Inv, NEW n \in Node, NEW c \in Call, PushSend(n, c)
  PROVE  Inv'
<1> DEFINE read == View(n, c)
           st == [read EXCEPT !.Delta = - call[n][c].amt]
<1>1. call[n][c].gen \in Gen /\ - call[n][c].amt \in Int
  BY CallInstance DEF PushSend
<1>2. Storable(read) /\ (conns = 0 => read = disk[n])
  BY ViewStorable
<1>3. CallSave(n, c, read, st) /\ UNCHANGED <<gen, saving, revoked, conns>>
  BY DEF PushSend, env
<1>4. Storable(st) /\ st.StateIdx = read.StateIdx
  BY <1>1, <1>2, StorableChanged
<1>5. \/ /\ net' = [net EXCEPT ![Peer(n)] = Append(net[Peer(n)], SendDeltaSig(st))]
         /\ call' = [call EXCEPT ![n][c] = [call[n][c] EXCEPT !.pc = "wait", !.seen = Nothing]]
      \/ Return(n, c, "error") /\ net' = net
  BY DEF PushSend, Inv, Types
<1> HIDE DEF st, read
<1>6. Stored'
  BY <1>1, <1>2, <1>3, <1>4, CallSaveKeeps, Zenon
<1>7. SendDeltaSig(st) \in Messages
  BY <1>4, SentDeltaSig, Zenon DEF Storable
<1>8. net' \in [Node -> Seq(Messages)]
  <2>1. Append(net[Peer(n)], SendDeltaSig(st)) \in Seq(Messages)
    BY <1>7, NodeFacts DEF Inv, Types
  <2> QED BY <1>5, <2>1, NodeFacts DEF Inv, Types
<1>9. Calls'
  <2>1. CASE call' = [call EXCEPT ![n][c] = [call[n][c] EXCEPT !.pc = "wait", !.seen = Nothing]]
    <3> DEFINE new == [call[n][c] EXCEPT !.pc = "wait", !.seen = Nothing]
    <3>1. call[n][c] \in CallState /\ call[n][c].gen <= gen[n]
      BY CallAges
    <3>2. "wait" \in PC /\ Nothing \in Seq(StatCom)
      BY DEF PC, Nothing
    <3>3. new \in CallState /\ new.gen = call[n][c].gen /\ new.seen = Nothing /\ new.pc = "wait"
      <4>1. new \in CallState
        BY <3>1, <3>2, CallWith, Zenon
      <4>2. new.gen = call[n][c].gen /\ new.seen = Nothing /\ new.pc = "wait"
        BY <3>1 DEF CallState
      <4> QED BY <4>1, <4>2
    <3> HIDE DEF new
    <3>4. call' = [call EXCEPT ![n][c] = new]
      BY <2>1 DEF new
    <3> QED BY <1>1, <1>3, <3>1, <3>3, <3>4, CallMoves DEF GoodView
  <2>2. CASE Return(n, c, "error")
    BY <1>3, <2>2, CallReturns DEF PC, Calling
  <2> QED BY <1>5, <2>1, <2>2
<1>10. Memory'
  BY <1>1, Tokens, MemoryStays DEF PushSend, env, Inv, Types
<1> QED BY <1>6, <1>8, <1>9, <1>10, CallInv DEF PushSend, env

LEMMA PushDoneInv ==
  ASSUME Inv, NEW n \in Node, NEW c \in Call, PushDone(n, c)
  PROVE  Inv'
<1>1. Stored' /\ Memory'
  BY StoredStays, MemoryStays DEF PushDone, db, env, hist, ram, Inv, Types
<1>2. Calls'
  BY CallReturns DEF PushDone, PC, Calling, ram, env
<1> QED BY <1>1, <1>2, CallInv DEF PushDone, db, env, hist, Inv, Types

LEMMA PushTimeoutInv ==
  ASSUME Inv, NEW n \in Node, NEW c \in Call, PushTimeout(n, c)
  PROVE  Inv'
<1>1. Stored' /\ Calls'
  BY CallInstance, FailKeeps DEF PushTimeout, ram, env
<1>2. Memory'
  BY MemoryStays DEF PushTimeout, ram, env, Inv, Types
<1> QED BY <1>1, <1>2, CallInv DEF PushTimeout, env, Inv, Types

-----------------------------------------------------------------------------
(* Instances and connections.                                              *)

(* Room for another instance: one more connection, or its first message.   *)
LEMMA GenRoom ==
  ASSUME Inv, NEW n \in Node
  PROVE  /\ conns < MaxReconnect => gen[n] + 1 \in Gen
         /\ ~inited[n] => gen[n] + 1 \in Gen
         /\ gen[n] \in Nat /\ conns \in Nat
         /\ gen[n] <= 2 * conns + 1 /\ (~inited[n] => gen[n] <= 2 * conns)
<1>1. /\ gen[n] \in Nat /\ gen[n] >= 1 /\ conns \in Nat /\ conns <= MaxReconnect
      /\ MaxReconnect \in Nat
  BY BoundAssumption DEF Inv, Types, Gen
<1>2. gen[n] <= 2 * conns + 1 /\ (~inited[n] => gen[n] <= 2 * conns)
  BY <1>1 DEF Inv, GenBound
<1>3. conns < MaxReconnect => gen[n] + 1 <= 1 + 2 * MaxReconnect
  BY <1>1, <1>2
<1>4. ~inited[n] => gen[n] + 1 <= 1 + 2 * MaxReconnect
  BY <1>1, <1>2
<1> QED BY <1>1, <1>2, <1>3, <1>4 DEF Gen

LEMMA RepopulateInv ==
  ASSUME Inv, NEW n \in Node, Repopulate(n)
  PROVE  Inv'
<1>1. gen[n] + 1 \in Gen
  BY GenRoom DEF Repopulate
<1>2. gen' = [m \in Node |-> IF m = n THEN gen[m] + 1 ELSE gen[m]]
  BY DEF Repopulate, PopulateQchanMap
<1>3. gen' \in [Node -> Gen] /\ fill' \in [Node -> SUBSET Gen]
  BY <1>1, <1>2 DEF Repopulate, NewFill, Inv, Types
<1>4. inited' = [inited EXCEPT ![n] = TRUE] /\ UNCHANGED <<conns, cts, stuck>>
  BY DEF Repopulate, env
<1>5. GenBound'
  <2> SUFFICES ASSUME NEW m \in Node
               PROVE  gen'[m] <= IF inited'[m] THEN 2 * conns + 1 ELSE 2 * conns
    BY <1>4 DEF GenBound
  <2>1. CASE m = n
    <3>1. gen[n] <= 2 * conns /\ gen[n] \in Nat /\ conns \in Nat
      BY GenRoom DEF Repopulate
    <3> QED BY <1>2, <1>4, <2>1, <3>1 DEF Inv, Types
  <2>2. CASE m # n
    BY <1>2, <1>4, <2>2 DEF Inv, GenBound, Types
  <2> QED BY <2>1, <2>2
<1>6. Memory'
  BY <1>3, <1>4, <1>5 DEF Memory, Inv, Types
<1>7. failed' \in [Node -> SUBSET Gen]
  BY <1>1 DEF Repopulate, PopulateQchanMap, Inv, Types
<1>8. Stored'
  BY <1>7, StoredStays DEF Repopulate, env, hist
<1>9. Calls'
  <2>1. \A m \in Node : gen[m] \in Int /\ gen'[m] \in Int /\ gen[m] <= gen'[m]
    BY <1>2, GenRoom DEF Inv, Types
  <2> QED BY <2>1, OlderCalls DEF Repopulate, env
<1> QED BY <1>6, <1>8, <1>9, CallInv DEF Repopulate, env, hist, Inv, Types

LEMMA FirstMessageInv ==
  ASSUME Inv, NEW n \in Node, FirstMessage(n)
  PROVE  Inv'
  BY RepopulateInv DEF FirstMessage

LEMMA FillInv ==
  ASSUME Inv, NEW n \in Node, NEW g \in Gen, FillClearToSend(n, g)
  PROVE  Inv'
<1>1. Memory'
  <2>1. cts' \in [Node -> [Gen -> BOOLEAN]]
    BY DEF FillClearToSend, Inv, Types
  <2>2. fill' \in [Node -> SUBSET Gen]
    BY DEF FillClearToSend, Inv, Types
  <2> QED BY <2>1, <2>2 DEF FillClearToSend, env, Memory, Inv, Types, GenBound
<1>2. Stored'
  BY StoredStays DEF FillClearToSend, db, env, hist, Inv, Types
<1>3. Calls'
  BY DEF FillClearToSend, env, Calls, Inv, Types, CallGen
<1> QED BY <1>1, <1>2, <1>3, CallInv DEF FillClearToSend, db, env, hist, Inv, Types

LEMMA ReconnectInv ==
  ASSUME Inv, NEW S \in SUBSET Node, Reconnect(S)
  PROVE  Inv'
<1>1. \A n \in Node : gen[n] + 1 \in Gen
  BY GenRoom DEF Reconnect
<1>2. gen' = [n \in Node |-> gen[n] + 1] /\ inited' = [n \in Node |-> FALSE] /\ conns' = conns + 1
  BY DEF Reconnect, PopulateQchanMap
<1>3. Memory'
  <2>1. gen' \in [Node -> Gen] /\ inited' \in [Node -> BOOLEAN]
    BY <1>1, <1>2
  <2>2. fill' \in [Node -> SUBSET Gen]
    <3>1. \A n \in Node : fill[n] \subseteq Gen /\ {gen[n] + 1} \subseteq Gen
      BY <1>1 DEF Inv, Types
    <3>2. \A n \in Node : (IF n \in S THEN {} ELSE fill[n]) \cup {gen[n] + 1} \in SUBSET Gen
      BY <3>1
    <3>3. fill' = [n \in Node |-> (IF n \in S THEN {} ELSE fill[n]) \cup {gen[n] + 1}]
      BY DEF Reconnect, NewFill
    <3> QED BY <3>2, <3>3
  <2>3. stuck' \in [Node -> Gen \cup {0}] /\ cts' \in [Node -> [Gen -> BOOLEAN]]
    BY DEF Reconnect, Inv, Types
  <2>4. conns' \in 0 .. MaxReconnect
    <3>1. conns \in Nat /\ conns < MaxReconnect /\ MaxReconnect \in Nat
      <4>1. conns \in 0 .. MaxReconnect /\ conns < MaxReconnect
        BY DEF Reconnect, Inv, Types
      <4>2. MaxReconnect \in Nat
        BY BoundAssumption
      <4> QED BY <4>1, <4>2
    <3> QED BY <1>2, <3>1
  <2>5. GenBound'
    <3> SUFFICES ASSUME NEW n \in Node PROVE gen'[n] <= 2 * conns'
      BY <1>2 DEF GenBound
    <3>1. gen[n] <= 2 * conns + 1 /\ gen[n] \in Nat /\ conns \in Nat
      BY GenRoom
    <3> QED BY <1>2, <3>1
  <2> QED BY <2>1, <2>2, <2>3, <2>4, <2>5 DEF Memory
<1>4. failed' \in [Node -> SUBSET Gen]
  BY <1>1 DEF Reconnect, PopulateQchanMap, Inv, Types
<1>5. saving' \in [Node -> SUBSET [state : PlainCom, closed : BOOLEAN]]
      /\ \A n \in Node : saving'[n] \subseteq saving[n]
  BY DEF Reconnect, Inv, Types
<1>6. AllSigned'
  BY <1>5 DEF Reconnect, Inv, AllSigned
<1>7. Revocations'
  <2>1. saving = [n \in Node |-> {}] => saving' = [n \in Node |-> {}]
    BY DEF Reconnect
  <2>2. conns' # 0
    BY <1>2, GenRoom, NodeFacts DEF Node
  <2> QED BY <2>1, <2>2 DEF Reconnect, hist, Inv, Revocations, RevocationSafety
<1>8. Calls'
  <2> DEFINE gone(n, c) == [call[n][c] EXCEPT !.pc = "lost", !.gen = 0, !.seen = Nothing]
  <2>1. \A n \in Node, c \in Call : call[n][c] \in CallState
    BY DEF Inv, Types
  <2>2. ASSUME NEW r \in CallState
        PROVE  LET new == [r EXCEPT !.pc = "lost", !.gen = 0, !.seen = Nothing]
               IN new \in CallState /\ new.pc = "lost" /\ new.gen = 0 /\ new.seen = Nothing
    BY CallEnded, Zenon DEF PC
  <2>3. \A n \in Node, c \in Call :
           /\ gone(n, c) \in CallState /\ gone(n, c).pc = "lost" /\ gone(n, c).gen = 0
           /\ gone(n, c).seen = Nothing
    BY <2>1, <2>2, Zenon
  <2> HIDE DEF gone
  <2>4. \A n \in Node, c \in Call : call'[n][c] \in {gone(n, c), call[n][c]}
    BY DEF Reconnect, gone
  <2>5. call' \in [Node -> [Call -> CallState]]
    <3>1. \A n \in Node, c \in Call : call'[n][c] \in CallState
      BY <2>1, <2>3, <2>4
    <3>2. call' = [n \in Node |-> [c \in Call |-> call'[n][c]]]
      BY DEF Reconnect
    <3> QED BY <3>1, <3>2
  <2>6. CallGen'
    <3> SUFFICES ASSUME NEW n \in Node, NEW c \in Call
                 PROVE  /\ call'[n][c].pc \in Calling => call'[n][c].gen \in Gen
                        /\ call'[n][c].gen <= gen'[n]
                        /\ GoodView(call'[n][c].seen)
                        /\ conns' = 0 => call'[n][c].seen = Nothing /\ call'[n][c].pc # "failing"
      BY DEF CallGen
    <3>1. gen'[n] = gen[n] + 1 /\ gen[n] \in Nat /\ conns' # 0
      BY <1>2, GenRoom
    <3>2. CASE call'[n][c] = gone(n, c)
      <4>1. call'[n][c].gen = 0 /\ call'[n][c].seen = Nothing /\ call'[n][c].pc = "lost"
        BY <2>3, <3>2
      <4>2. "lost" \notin Calling /\ GoodView(Nothing)
        BY DEF Calling, GoodView
      <4> QED BY <3>1, <4>1, <4>2
    <3>3. CASE call'[n][c] = call[n][c]
      <4>1. call[n][c].gen \in Int
        BY CallAges
      <4>2. /\ call[n][c].pc \in Calling => call[n][c].gen \in Gen
            /\ call[n][c].gen <= gen[n]
            /\ GoodView(call[n][c].seen)
        BY DEF Inv, CallGen
      <4> QED BY <3>1, <3>3, <4>1, <4>2
    <3> QED BY <2>4, <3>2, <3>3
  <2> QED BY <2>5, <2>6 DEF Calls
<1>10. net' \in [Node -> Seq(Messages)]
  <2>1. <<>> \in Seq(Messages)
    OBVIOUS
  <2>2. net' = [n \in Node |-> <<>>]
    BY DEF Reconnect
  <2> QED BY <2>1, <2>2
<1> QED BY <1>3, <1>4, <1>5, <1>6, <1>7, <1>8, <1>10
        DEF Reconnect, hist, Calls, Inv, Types, Memory

-----------------------------------------------------------------------------
(* The chain.                                                              *)

LEMMA ChainOpType ==
  ASSUME Inv, NEW n \in Node, ChainOp(n)
  PROVE  chainops' \in [Node -> 0 .. MaxChainOp]
<1>1. chainops[n] + 1 \in 0 .. MaxChainOp
  BY BoundAssumption DEF ChainOp, Inv, Types
<1> QED BY <1>1 DEF ChainOp, Inv, Types

(* A record that is read now holds a state with a good signature.          *)
LEMMA UtxoDataKeeps ==
  ASSUME Inv, NEW n \in Node, NEW b \in BOOLEAN, SaveQchanUtxoData(n, b),
         UNCHANGED <<disk, failed, revoked, raced, conns>>
  PROVE  /\ Stored' /\ closed' \in [Node -> BOOLEAN]
         /\ saving' \in [Node -> SUBSET [state : PlainCom, closed : BOOLEAN]]
<1> DEFINE rec == [state |-> disk[n], closed |-> b]
<1>1. rec \in [state : PlainCom, closed : BOOLEAN] /\ Signed(rec.state)
  BY DEF Inv, Types, AllSigned
<1>2. \/ ~SaveRace /\ closed' = [closed EXCEPT ![n] = b] /\ saving' = saving
      \/ SaveRace /\ saving' = [saving EXCEPT ![n] = saving[n] \cup {rec}] /\ closed' = closed
  BY DEF SaveQchanUtxoData
<1>3. closed' \in [Node -> BOOLEAN]
  BY <1>2 DEF Inv, Types
<1> HIDE DEF rec
<1>4. saving' \in [Node -> SUBSET [state : PlainCom, closed : BOOLEAN]]
  <2> DEFINE R == [state : PlainCom, closed : BOOLEAN]
  <2>1. saving \in [Node -> SUBSET R] /\ rec \in R
    BY <1>1 DEF Inv, Types
  <2> HIDE DEF R
  <2>2. saving' \in [Node -> SUBSET R]
    BY <1>2, <2>1
  <2> QED BY <2>2 DEF R
<1>5. \A m \in Node : saving'[m] \subseteq saving[m] \cup {rec}
  BY <1>2 DEF Inv, Types
<1>6. AllSigned'
  BY <1>1, <1>5 DEF Inv, AllSigned
<1>7. Revocations'
  BY <1>2 DEF Inv, Revocations, RevocationSafety
<1> QED BY <1>3, <1>4, <1>6, <1>7 DEF Stored, Inv, Types

(* What the chain's steps leave alone.                                     *)
LEMMA ChainInv ==
  ASSUME Inv, Stored', closed' \in [Node -> BOOLEAN],
         saving' \in [Node -> SUBSET [state : PlainCom, closed : BOOLEAN]],
         bcast' \in [Node -> SUBSET Nat], chainops' \in [Node -> 0 .. MaxChainOp],
         UNCHANGED <<ram, call, net, conns, revoked>>
  PROVE  Inv'
  BY DEF Inv, Types, Stored, ram, GenBound, CallGen

LEMMA BreakInv ==
  ASSUME Inv, NEW n \in Node, BreakChannel(n)
  PROVE  Inv'
<1>1. disk[n].StateIdx \in Nat
  BY PlainFields DEF Inv, Types
<1>2. bcast' \in [Node -> SUBSET Nat]
  BY <1>1 DEF BreakChannel, Inv, Types
<1>3. closed[n] \in BOOLEAN
  BY DEF Inv, Types
<1> QED BY <1>2, <1>3, UtxoDataKeeps, ChainOpType, ChainInv DEF BreakChannel

LEMMA OPEventInv ==
  ASSUME Inv, NEW n \in Node, NEW spend \in BOOLEAN, OPEventHandler(n, spend)
  PROVE  Inv'
<1>1. (closed[n] \/ spend) \in BOOLEAN
  BY Zenon
<1>2. bcast' \in [Node -> SUBSET Nat] /\ UNCHANGED <<revoked, raced>>
  BY DEF OPEventHandler, hist, Inv, Types
<1> QED BY <1>1, <1>2, UtxoDataKeeps, ChainOpType, ChainInv DEF OPEventHandler

LEMMA SaveQChanInv ==
  ASSUME Inv, NEW n \in Node, NEW rec \in saving[n], SaveQChan(n, rec)
  PROVE  Inv'
<1>1. rec.state \in PlainCom /\ rec.closed \in BOOLEAN /\ Signed(rec.state)
  BY DEF Inv, Types, AllSigned
<1>2. SaveRace /\ raced' \subseteq Node /\ raced \subseteq raced'
  BY DEF SaveQChan, Inv, Types, Revocations
<1>3. disk' \in [Node -> PlainCom] /\ closed' \in [Node -> BOOLEAN]
  BY <1>1 DEF SaveQChan, Inv, Types
<1>4. saving' \in [Node -> SUBSET [state : PlainCom, closed : BOOLEAN]]
      /\ \A m \in Node : saving'[m] \subseteq saving[m]
  BY DEF SaveQChan, Inv, Types
<1>5. \A m \in Node : disk'[m] = IF m = n THEN rec.state ELSE disk[m]
  BY DEF SaveQChan, Inv, Types
<1>6. AllSigned'
  BY <1>1, <1>4, <1>5 DEF Inv, AllSigned
<1>7. RevocationSafety'
  <2>1. \A m \in Node : m \notin raced' => disk'[m] = disk[m]
    BY <1>5 DEF SaveQChan
  <2> QED BY <1>2, <2>1 DEF RevocationSafety, Revocations, SaveQChan, Inv
<1>8. Stored'
  BY <1>2, <1>3, <1>6, <1>7 DEF Stored, Revocations, SaveQChan, Inv, Types
<1> QED BY <1>3, <1>4, <1>8, ChainInv DEF SaveQChan, hist, Inv, Types

-----------------------------------------------------------------------------
(* Every step keeps the invariant.                                         *)
LEMMA StepInv == Inv /\ [Next]_vars => Inv'
<1> SUFFICES ASSUME Inv, [Next]_vars PROVE Inv'
  OBVIOUS
<1>1. CASE UNCHANGED vars
  <2>1. Stored' /\ Memory'
    BY <1>1, StoredStays, MemoryStays DEF vars, db, ram, env, hist, Inv, Types
  <2>2. Calls'
    BY <1>1 DEF vars, ram, env, Calls, Inv, Types, CallGen
  <2> QED BY <1>1, <2>1, <2>2, CallInv DEF vars, db, env, hist, Inv, Types
<1>2. ASSUME NEW n \in Node, Handle(n) PROVE Inv'
  BY <1>2, DeltaSigInv, GapSigRevInv, SigRevInv, RevInv, FirstMessageInv, Zenon DEF Handle, Consume
<1>3. ASSUME NEW n \in Node, NEW c \in Call, UserCall(n, c) PROVE Inv'
  BY <1>3, PushRefusedInv, PushNotAtRestInv, PushSendInv, PushDoneInv, CallReloadInv, FailSaveInv,
     Zenon DEF UserCall, CallStep
<1>4. CASE Environment
  BY <1>4, ReconnectInv, BreakInv, OPEventInv, SaveQChanInv, Zenon DEF Environment
<1> QED BY <1>1, <1>2, <1>3, <1>4, FillInv, PushStartInv, PushTimeoutInv, Zenon DEF Next

(* Every reachable state satisfies the invariant.                          *)
THEOREM Invariance == Spec => []Inv
<1>1. Init => Inv
  BY InitInv
<1>2. Inv /\ [Next]_vars => Inv'
  BY StepInv
<1> QED BY <1>1, <1>2, PTL DEF Spec

(* Type correctness: every handler, call and event keeps the variables in  *)
(* their types, whatever the messages, restarts and timeouts.              *)
THEOREM TypeCorrect == Spec => []TypeOK
<1>1. Inv => TypeOK
  BY TypesImpliesTypeOK DEF Inv
<1> QED BY <1>1, Invariance, PTL

(* At every moment the state in the database, rewritten by late records of *)
(* SaveQchanUtxoData too, can be broadcast: DeltaSigHandler, SigRevHandler *)
(* and GapSigRevHandler save a state only with a signature that BreakChannel *)
(* can use.                                                                *)
THEOREM AlwaysBreakable == Spec => []Breakable
<1>1. Inv => Breakable
  BY DEF Inv, AllSigned, Signed, Breakable
<1> QED BY <1>1, Invariance, PTL

(* No handler, repeated Rev, restart, timeout, call on an old instance or  *)
(* late record of SaveQchanUtxoData leaves a node with a state it has      *)
(* revoked, but one whose save undid another: one that a handler of the    *)
(* next instance, or a call, made since the state was read.                *)
THEOREM RevokedStatesAreGone == Spec => []RevocationSafety
<1>1. Inv => RevocationSafety
  BY DEF Inv, Revocations
<1> QED BY <1>1, Invariance, PTL

-----------------------------------------------------------------------------
(* The second part: the two databases.                                      *)

(* What a stored state waits for.  A push of one's own is a negative       *)
(* Delta; a positive one says that a Rev is due; Collision is the peer's   *)
(* push that met one's own, or an empty token channel.                     *)
Resting(st)  == st.Delta = 0 /\ st.Collision = 0
Pushing(st)  == st.Delta < 0 /\ st.Collision = 0
Holding(st)  == st.Delta > 0 /\ st.Collision = 0
Crossing(st) == st.Delta < 0 /\ st.Collision > 0
Struck(st)   == st.Delta = 0 /\ st.Collision > 0

(* The state before the stored one is not revoked yet.                     *)
Due(st) == st.Delta > 0 \/ st.Collision # 0

(* The elkrem points are those of the newest state of the peer that is not *)
(* revoked, and of the next two.                                           *)
Points(st) ==
    /\ Due(st) => st.StateIdx > 0
    /\ st.ElkPoint = IF Due(st) THEN st.StateIdx - 1 ELSE st.StateIdx
    /\ st.NextElkPoint = st.ElkPoint + 1
    /\ st.N2ElkPoint = st.ElkPoint + 2

Level(x, y) == x.StateIdx = y.StateIdx
Ahead(x, y) == x.StateIdx = y.StateIdx + 1

(* The books of both together: just the capacity, or the push of y twice.  *)
Even(x, y)  == x.MyAmt + y.MyAmt = Value
Twice(x, y) == x.MyAmt + y.MyAmt = Value - y.Delta

(* Short queues.                                                           *)
Single(q, t)  == q # <<>> /\ Head(q).type = t /\ Tail(q) = <<>>
AtMost(q, t)  == q = <<>> \/ Single(q, t)
PushOf(q, st) == Single(q, "DeltaSig") /\ Head(q).Delta = - st.Delta
Maybe(q, st)  == q = <<>> \/ PushOf(q, st)
Only(q, T)    == \A i \in 1 .. Len(q) : q[i].type \in T

-----------------------------------------------------------------------------
(* The stages of an update, for the states x and y with the messages q on  *)
(* their way to x and r on their way to y; k counts breaks of the          *)
(* connection.                                                             *)

Idle(x, y, q, r) ==
    Resting(x) /\ Resting(y) /\ Level(x, y) /\ Even(x, y) /\ q = <<>> /\ r = <<>>

(* x has pushed, or both have.                                             *)
OneOffer(x, y, q, r) ==
    Pushing(x) /\ Resting(y) /\ Level(x, y) /\ Even(x, y) /\ q = <<>> /\ Maybe(r, x)
TwoOffers(x, y, q, r) ==
    Pushing(x) /\ Pushing(y) /\ Level(x, y) /\ Even(x, y) /\ Maybe(q, y) /\ Maybe(r, x)

(* Both hold the new state; x waits for the last Rev, and y may push again *)
(* before x has it.  A push that comes too early asks for the Rev again.   *)
LastRev(x, y, q, r) ==
    Holding(x) /\ Resting(y) /\ Level(x, y) /\ Even(x, y) /\ AtMost(q, "Rev") /\ r = <<>>
EarlyOffer(x, y, q, r) ==
    /\ Holding(x) /\ Pushing(y) /\ Level(x, y) /\ Even(x, y)
    /\ \/ r = <<>> /\ Maybe(q, y)
       \/ r = <<>> /\ q # <<>> /\ Head(q).type = "Rev" /\ Maybe(Tail(q), y)
       \/ Single(r, "Rev") /\ q = <<>>

(* x has taken the push of y, whose book still counts it.  A push of x     *)
(* that was on its way is void if the token was there.                     *)
OneTaken(x, y, q, r, k) ==
    /\ Holding(x) /\ Pushing(y) /\ Ahead(x, y) /\ Twice(x, y) /\ q = <<>>
    /\ \/ AtMost(r, "SigRev")
       \/ k > 0 /\ Single(r, "DeltaSig")
       \/ k > 0 /\ r # <<>> /\ Head(r).type = "DeltaSig" /\ Single(Tail(r), "SigRev")

(* x has taken the push of y without a token; it may have one of its own.  *)
TakenStruck(x, y, q, r) ==
    /\ Struck(x) /\ Pushing(y) /\ Ahead(x, y) /\ Twice(x, y)
    /\ x.Collision = - y.Delta /\ q = <<>> /\ AtMost(r, "GapSigRev")
TakenCrossing(x, y, q, r) ==
    /\ Crossing(x) /\ Pushing(y) /\ Ahead(x, y) /\ Twice(x, y)
    /\ x.Collision = - y.Delta /\ q = <<>>
    /\ \/ AtMost(r, "GapSigRev") \/ PushOf(r, x)
       \/ r # <<>> /\ Head(r).type = "GapSigRev" /\ PushOf(Tail(r), x)
       \/ /\ r # <<>> /\ Head(r).type = "DeltaSig" /\ Head(r).Delta = - x.Delta
          /\ Single(Tail(r), "GapSigRev")

(* Each has taken the other's push; then x has settled its own; then both. *)
BothTaken(x, y, q, r) ==
    /\ Crossing(x) /\ Crossing(y) /\ Level(x, y)
    /\ x.MyAmt + y.MyAmt = Value - x.Delta - y.Delta
    /\ AtMost(q, "GapSigRev") /\ AtMost(r, "GapSigRev")
HalfSettled(x, y, q, r) ==
    /\ Holding(x) /\ Crossing(y) /\ Ahead(x, y) /\ Twice(x, y)
    /\ \/ q = <<>> /\ AtMost(r, "Rev")
       \/ q = <<>> /\ r # <<>> /\ Head(r).type = "GapSigRev" /\ Single(Tail(r), "Rev")
       \/ Single(q, "Rev") /\ r = <<>>
TwoRevs(x, y, q, r) ==
    Holding(x) /\ Holding(y) /\ Level(x, y) /\ Even(x, y) /\ AtMost(q, "Rev") /\ AtMost(r, "Rev")

(* The two have taken each other's push with a token that was there, after *)
(* a break of the connection: neither accepts what the other answers.      *)
Wedged(x, y, q, r) ==
    /\ Level(x, y) /\ Holding(x) /\ (Holding(y) \/ Crossing(y))
    /\ Only(q, {"SigRev", "GapSigRev"}) /\ Only(r, {"SigRev"})

Stage(x, y, q, r, k) ==
    \/ Idle(x, y, q, r) \/ OneOffer(x, y, q, r) \/ TwoOffers(x, y, q, r)
    \/ LastRev(x, y, q, r) \/ EarlyOffer(x, y, q, r)
    \/ OneTaken(x, y, q, r, k) \/ TakenStruck(x, y, q, r) \/ TakenCrossing(x, y, q, r)
    \/ BothTaken(x, y, q, r) \/ HalfSettled(x, y, q, r) \/ TwoRevs(x, y, q, r)
    \/ (k > 0 /\ Wedged(x, y, q, r))

Pair(x, y, q, r, k) == Stage(x, y, q, r, k) \/ Stage(y, x, r, q, k)

-----------------------------------------------------------------------------
(* The invariant, on top of that of PushPull_proofs.                       *)

Stages == Pair(disk[A], disk[B], net[A], net[B], conns)

PointsKnown == \A n \in Node : Points(disk[n])

(* Every revocation on its way is one the sender has made.                 *)
Letters ==
    \A n \in Node : \A i \in 1 .. Len(net[n]) :
        net[n][i].type # "DeltaSig" =>
            net[n][i].Elk \in revoked[Peer(n)] /\ net[n][i].N2ElkPoint = net[n][i].Elk + 3

(* A node has the revocation of every state whose point it has left.       *)
Received == \A n \in Node : 0 .. disk[n].ElkPoint - 1 \subseteq revoked[Peer(n)]

(* Until the connection breaks there is one instance, and its token is     *)
(* only there while nothing is pending.                                    *)
TokensSpent ==
    conns = 0 => \A n \in Node :
        /\ gen[n] = 1 /\ fill[n] = {} /\ inited[n]
        /\ cts[n][1] => Resting(disk[n])

Amounts ==
    \A n \in Node, c \in Call :
        /\ call[n][c].pc \in {"enter", "wait"} => call[n][c].amt > 0
        /\ conns = 0 => call[n][c].gen \in {0, 1}

PairInv == Stages /\ PointsKnown /\ Letters /\ Received /\ TokensSpent /\ Amounts

-----------------------------------------------------------------------------
(* Queues.                                                                 *)

(* u is the queue r with the message m behind it.                          *)
Sent(r, u, m) ==
    /\ u # <<>>
    /\ r = <<>> => Head(u) = m /\ Tail(u) = <<>>
    /\ r # <<>> => Head(u) = Head(r)
    /\ r # <<>> /\ Tail(r) = <<>> => Tail(u) # <<>> /\ Head(Tail(u)) = m /\ Tail(Tail(u)) = <<>>
    /\ \A T : Only(r, T) /\ m.type \in T => Only(u, T)

LEMMA Sending ==
  ASSUME NEW r \in Seq(Messages), NEW m \in Messages
  PROVE  Sent(r, r \o <<m>>, m) /\ Append(r, m) = r \o <<m>>
<1> DEFINE u == r \o <<m>>
<1>1. u = Append(r, m) OBVIOUS
<1>2. u \in Seq(Messages) /\ Len(u) = Len(r) + 1 BY <1>1
<1>3. \A i \in 1 .. Len(r) : u[i] = r[i] BY <1>1
<1>4. u[Len(r) + 1] = m BY <1>1
<1>5. Len(r) \in Nat OBVIOUS
<1> HIDE DEF u
<1>6. u # <<>> BY <1>2, <1>5
<1>7. ASSUME r = <<>> PROVE Head(u) = m /\ Tail(u) = <<>>
  <2>1. Len(r) = 0 BY <1>7
  <2>2. Len(u) = 1 /\ u[1] = m BY <1>2, <1>4, <2>1
  <2> QED BY <1>2, <2>2
<1>8. ASSUME r # <<>> PROVE Head(u) = Head(r)
  <2>1. Len(r) > 0 BY <1>8
  <2> QED BY <1>2, <1>3, <1>6, <1>8, <2>1
<1>9. ASSUME r # <<>>, Tail(r) = <<>> PROVE Tail(u) # <<>> /\ Head(Tail(u)) = m /\ Tail(Tail(u)) = <<>>
  <2>1. Len(r) = 1
    <3>1. Len(Tail(r)) = Len(r) - 1 /\ Len(<<>>) = 0 BY <1>9
    <3> QED BY <1>5, <1>9, <3>1
  <2>2. Len(u) = 2 /\ u[2] = m BY <1>2, <1>4, <2>1
  <2> DEFINE t == Tail(u)
  <2>3. t \in Seq(Messages) /\ Len(t) = 1 /\ t[1] = m BY <1>2, <1>6, <2>2
  <2> HIDE DEF t
  <2>4. t # <<>> /\ Head(t) = m BY <2>3
  <2>5. Tail(t) \in Seq(Messages) /\ Len(Tail(t)) = 0 BY <2>3, <2>4
  <2>6. Tail(t) = <<>>
    <3> DEFINE v == Tail(t)
    <3>1. v \in Seq(Messages) /\ Len(v) = 0 BY <2>5
    <3> HIDE DEF v
    <3>2. v = <<>> BY <3>1
    <3> QED BY <3>2 DEF v
  <2> QED BY <2>4, <2>6 DEF t
<1>10. ASSUME NEW T, Only(r, T), m.type \in T PROVE Only(u, T)
  BY <1>2, <1>3, <1>4, <1>5, <1>10 DEF Only
<1> QED BY <1>1, <1>6, <1>7, <1>8, <1>9, <1>10 DEF Sent, u

LEMMA Taking ==
  ASSUME NEW q \in Seq(Messages), q # <<>>, NEW T, Only(q, T)
  PROVE  Only(Tail(q), T) /\ Head(q).type \in T
  BY DEF Only

LEMMA NothingOnly == \A T : Only(<<>>, T)
  BY DEF Only

LEMMA SingleOnly ==
  ASSUME NEW q \in Seq(Messages), NEW t, AtMost(q, t), NEW T, t \in T
  PROVE  Only(q, T)
<1>1. CASE q = <<>> BY <1>1, NothingOnly
<1>2. CASE Single(q, t)
  <2>1. Len(q) = 1
    <3>1. Len(q) \in Nat /\ Len(Tail(q)) = Len(q) - 1 BY <1>2 DEF Single
    <3>2. Len(<<>>) = 0 OBVIOUS
    <3>3. Tail(q) = <<>> BY <1>2 DEF Single
    <3> DEFINE v == Tail(q)
    <3>4. Len(v) = 0 BY <3>2, <3>3, Zenon
    <3>5. Len(v) = Len(q) - 1 BY <3>1
    <3> HIDE DEF v
    <3> QED BY <3>1, <3>4, <3>5
  <2>2. q[1] \in {Head(q)} BY <1>2 DEF Single
  <2>3. \A i \in 1 .. Len(q) : q[i] = Head(q) BY <2>1, <2>2
  <2> QED BY <1>2, <2>3 DEF Single, Only
<1> QED BY <1>1, <1>2 DEF AtMost

-----------------------------------------------------------------------------
(* What each kind of step makes of a stage.                                *)

SameBooks(x, s) ==
    s.StateIdx = x.StateIdx /\ s.MyAmt = x.MyAmt /\ s.Delta = x.Delta /\ s.Collision = x.Collision

(* The message is refused or ignored.                                      *)
LEMMA Dropped ==
  ASSUME NEW x \in PlainCom, NEW y \in PlainCom, NEW s \in PlainCom,
         NEW q \in Seq(Messages), NEW r \in Seq(Messages), NEW k \in Nat,
         Pair(x, y, q, r, k), q # <<>>, SameBooks(x, s)
  PROVE  Pair(s, y, Tail(q), r, k)
<1>1. \A T : Only(q, T) => Only(Tail(q), T) BY Taking
<1> DEFINE t == Tail(q)
<1>2. t = Tail(q) OBVIOUS
<1> HIDE DEF t
<1>3. ASSUME Stage(x, y, q, r, k) PROVE Stage(s, y, t, r, k)
  BY <1>1, <1>2, <1>3 DEF Stage, Idle, OneOffer, TwoOffers, LastRev, EarlyOffer,
     OneTaken, TakenStruck,
     TakenCrossing, BothTaken, HalfSettled, TwoRevs, Wedged, SameBooks, Resting, Pushing, Holding,
     Crossing, Struck, Level, Ahead, Even, Twice, Single, AtMost, PushOf, Maybe
<1>4. ASSUME Stage(y, x, r, q, k) PROVE Stage(y, s, r, t, k)
  BY <1>1, <1>2, <1>4 DEF Stage, Idle, OneOffer, TwoOffers, LastRev, EarlyOffer,
     OneTaken, TakenStruck,
     TakenCrossing, BothTaken, HalfSettled, TwoRevs, Wedged, SameBooks, Resting, Pushing, Holding,
     Crossing, Struck, Level, Ahead, Even, Twice, Single, AtMost, PushOf, Maybe
<1> QED BY <1>2, <1>3, <1>4 DEF Pair

LEMMA CountedTwice ==
  ASSUME NEW x, NEW y, NEW s, NEW d \in Int,
         x.MyAmt \in Int, y.MyAmt \in Int, y.Delta \in Int, Value \in Nat,
         Even(x, y), d = - y.Delta, s.MyAmt = x.MyAmt + d
  PROVE  Twice(s, y)
  BY DEF Even, Twice

LEMMA CountedBoth ==
  ASSUME NEW x, NEW y, NEW s, NEW d \in Int,
         x.MyAmt \in Int, x.Delta \in Int, y.MyAmt \in Int, y.Delta \in Int, Value \in Nat,
         Twice(y, x), d = - y.Delta, s.MyAmt = x.MyAmt + d, s.Delta = x.Delta
  PROVE  s.MyAmt + y.MyAmt = Value - s.Delta - y.Delta
  BY DEF Twice

LEMMA CountedOnce ==
  ASSUME NEW x, NEW y, NEW s,
         x.MyAmt \in Int, x.Delta \in Int, y.MyAmt \in Int, Value \in Nat,
         Twice(y, x), s.MyAmt = x.MyAmt + x.Delta
  PROVE  Even(s, y) /\ Even(y, s)
  BY DEF Twice, Even

LEMMA CountedHalf ==
  ASSUME NEW x, NEW y, NEW s,
         x.MyAmt \in Int, x.Delta \in Int, y.MyAmt \in Int, y.Delta \in Int, Value \in Nat,
         x.MyAmt + y.MyAmt = Value - x.Delta - y.Delta, s.MyAmt = x.MyAmt + x.Delta
  PROVE  Twice(s, y)
  BY DEF Twice

LEMMA Swapped ==
  ASSUME NEW x, NEW y,
         x.MyAmt \in Int, x.Delta \in Int, y.MyAmt \in Int, y.Delta \in Int, Value \in Nat
  PROVE  /\ Level(x, y) <=> Level(y, x)
         /\ Even(x, y) <=> Even(y, x)
         /\ x.MyAmt + y.MyAmt = Value - x.Delta - y.Delta
              <=> y.MyAmt + x.MyAmt = Value - y.Delta - x.Delta
<1>1. x.MyAmt + y.MyAmt = y.MyAmt + x.MyAmt OBVIOUS
<1>2. Value - x.Delta - y.Delta = Value - y.Delta - x.Delta OBVIOUS
<1> QED BY <1>1, <1>2 DEF Level, Even

(* The stages in which a push reaches a node that waits for no Rev.        *)
LEMMA PushStages ==
  ASSUME NEW x \in PlainCom, NEW y \in PlainCom, NEW k \in Nat,
         NEW q \in Seq(Messages), NEW r \in Seq(Messages),
         Pair(x, y, q, r, k), q # <<>>, Head(q).type = "DeltaSig", x.Delta <= 0
  PROVE  \/ /\ Pushing(x) /\ Pushing(y) /\ Level(x, y) /\ Even(x, y) /\ Tail(q) = <<>>
            /\ Head(q).Delta = - y.Delta /\ Maybe(r, x)
         \/ /\ Resting(x) /\ Pushing(y) /\ Level(x, y) /\ Even(x, y) /\ Tail(q) = <<>>
            /\ Head(q).Delta = - y.Delta /\ r = <<>>
         \/ /\ k > 0 /\ Pushing(x) /\ Holding(y) /\ Ahead(y, x) /\ AtMost(Tail(q), "SigRev") /\ r = <<>>
         \/ /\ Pushing(x) /\ Crossing(y) /\ Ahead(y, x) /\ Twice(y, x) /\ y.Collision = - x.Delta
            /\ AtMost(Tail(q), "GapSigRev") /\ Head(q).Delta = - y.Delta /\ r = <<>>
<1>1. /\ x.StateIdx \in Nat /\ x.MyAmt \in Int /\ x.Delta \in Int /\ x.Collision \in Int
      /\ y.StateIdx \in Nat /\ y.MyAmt \in Int /\ y.Delta \in Int /\ y.Collision \in Int
      /\ Value \in Nat
  BY ValueAssumption, PlainFields
<1>2. ~Only(q, {"SigRev", "GapSigRev"}) /\ ~Only(q, {"SigRev"}) BY Taking
<1>3. ASSUME Stage(x, y, q, r, k) PROVE TwoOffers(x, y, q, r)
  BY <1>1, <1>2, <1>3 DEF Stage, Idle, OneOffer, LastRev, EarlyOffer, OneTaken, TakenStruck,
     TakenCrossing, BothTaken, HalfSettled, TwoRevs, Wedged, Holding, Single, AtMost
<1>4. ASSUME Stage(y, x, r, q, k)
      PROVE  \/ TwoOffers(y, x, r, q) \/ OneOffer(y, x, r, q)
             \/ OneTaken(y, x, r, q, k) \/ TakenCrossing(y, x, r, q)
  BY <1>1, <1>2, <1>4 DEF Stage, Idle, LastRev, EarlyOffer, TakenStruck,
     BothTaken, HalfSettled, TwoRevs, Wedged, Holding, Single, AtMost
<1>5. ASSUME TwoOffers(x, y, q, r) \/ TwoOffers(y, x, r, q)
      PROVE  /\ Pushing(x) /\ Pushing(y) /\ Level(x, y) /\ Even(x, y) /\ Tail(q) = <<>>
             /\ Head(q).Delta = - y.Delta /\ Maybe(r, x)
  <2>1. (Level(y, x) <=> Level(x, y)) /\ (Even(y, x) <=> Even(x, y)) BY <1>1, Swapped
  <2>2. Pushing(x) /\ Pushing(y) /\ Level(x, y) /\ Even(x, y) /\ Maybe(q, y) /\ Maybe(r, x)
    BY <1>5, <2>1 DEF TwoOffers
  <2>3. PushOf(q, y) BY <2>2 DEF Maybe
  <2> QED BY <2>2, <2>3 DEF PushOf, Single
<1>6. CASE OneOffer(y, x, r, q)
  BY <1>1, <1>6 DEF OneOffer, Level, Even, Maybe, PushOf, Single
<1>7. CASE OneTaken(y, x, r, q, k)
  BY <1>7 DEF OneTaken, AtMost, Single
<1>8. CASE TakenCrossing(y, x, r, q)
  BY <1>8 DEF TakenCrossing, AtMost, Single, PushOf
<1> QED BY <1>3, <1>4, <1>5, <1>6, <1>7, <1>8 DEF Pair

(* x accepts a push of d while it has the token; a push of its own is      *)
(* void, which only happens after a break.                                 *)
LEMMA PushTaken ==
  ASSUME NEW x \in PlainCom, NEW y \in PlainCom, NEW s \in PlainCom, NEW k \in Nat,
         NEW q \in Seq(Messages), NEW r \in Seq(Messages), NEW u \in Seq(Messages), NEW m,
         NEW d \in Int, d > 0, Pair(x, y, q, r, k), q # <<>>, x.Delta <= 0,
         Head(q).type = "DeltaSig", Head(q).Delta = d,
         Resting(x) \/ k > 0,
         s.StateIdx = x.StateIdx + 1, s.MyAmt = x.MyAmt + d, s.Delta = d, s.Collision = x.Collision,
         u = r \/ (Sent(r, u, m) /\ m.type = "SigRev")
  PROVE  Pair(s, y, Tail(q), u, k) /\ ~Due(x) /\ x.Collision = 0
<1>1. /\ x.StateIdx \in Nat /\ x.MyAmt \in Int /\ x.Delta \in Int /\ x.Collision \in Int
      /\ y.StateIdx \in Nat /\ y.MyAmt \in Int /\ y.Delta \in Int /\ y.Collision \in Int
      /\ Value \in Nat
  BY ValueAssumption, PlainFields
<1> DEFINE t == Tail(q)
<1>2. t \in Seq(Messages) OBVIOUS
<1> HIDE DEF t
<1>3. CASE /\ Pushing(x) /\ Pushing(y) /\ Level(x, y) /\ Even(x, y) /\ t = <<>>
           /\ d = - y.Delta /\ Maybe(r, x)
  <2>1. k > 0 BY <1>1, <1>3 DEF Resting, Pushing
  <2>2. Holding(s) /\ Ahead(s, y) /\ Twice(s, y)
    <3>1. Holding(s) BY <1>1, <1>3 DEF Holding, Pushing
    <3>2. Ahead(s, y) BY <1>1, <1>3 DEF Ahead, Level
    <3>3. Twice(s, y) BY <1>1, <1>3, CountedTwice
    <3> QED BY <3>1, <3>2, <3>3
  <2>3. OneTaken(s, y, t, u, k)
    BY <1>3, <2>1, <2>2 DEF OneTaken, Maybe, PushOf, Single, AtMost, Sent
  <2>4. Pair(s, y, t, u, k) BY <2>3 DEF Pair, Stage
  <2>5. ~Due(x) /\ x.Collision = 0 BY <1>1, <1>3 DEF Due, Pushing
  <2> QED BY <2>4, <2>5, Zenon DEF t
<1>4. CASE /\ Resting(x) /\ Pushing(y) /\ Level(x, y) /\ Even(x, y) /\ t = <<>>
           /\ d = - y.Delta /\ r = <<>>
  <2>1. Holding(s) /\ Ahead(s, y) /\ Twice(s, y)
    <3>1. Holding(s) BY <1>1, <1>4 DEF Holding, Resting
    <3>2. Ahead(s, y) BY <1>1, <1>4 DEF Ahead, Level
    <3>3. Twice(s, y) BY <1>1, <1>4, CountedTwice
    <3> QED BY <3>1, <3>2, <3>3
  <2>2. OneTaken(s, y, t, u, k)
    BY <1>4, <2>1 DEF OneTaken, Single, AtMost, Sent
  <2>3. Pair(s, y, t, u, k) BY <2>2 DEF Pair, Stage
  <2>4. ~Due(x) /\ x.Collision = 0 BY <1>1, <1>4 DEF Due, Resting
  <2> QED BY <2>3, <2>4, Zenon DEF t
<1>5. ASSUME Pushing(x), Level(s, y), Level(y, s), Only(t, {"SigRev", "GapSigRev"}), r = <<>>
      PROVE  Holding(s) /\ Only(u, {"SigRev"}) /\ ~Due(x) /\ x.Collision = 0
  <2>1. AtMost(u, "SigRev") BY <1>5 DEF AtMost, Single, Sent
  <2> QED BY <1>1, <1>5, <2>1, SingleOnly DEF Holding, Pushing, Due
<1>6. CASE k > 0 /\ Pushing(x) /\ Holding(y) /\ Ahead(y, x) /\ AtMost(t, "SigRev") /\ r = <<>>
  <2>1. Level(s, y) /\ Level(y, s) BY <1>1, <1>6 DEF Level, Ahead
  <2>2. Only(t, {"SigRev", "GapSigRev"}) BY <1>2, <1>6, SingleOnly
  <2>3. Wedged(s, y, t, u) BY <1>5, <1>6, <2>1, <2>2 DEF Wedged
  <2> QED BY <1>5, <1>6, <2>1, <2>2, <2>3 DEF Pair, Stage, t
<1>7. CASE /\ Pushing(x) /\ Crossing(y) /\ Ahead(y, x) /\ Twice(y, x) /\ y.Collision = - x.Delta
           /\ AtMost(t, "GapSigRev") /\ d = - y.Delta /\ r = <<>>
  <2>1. Level(s, y) /\ Level(y, s) BY <1>1, <1>7 DEF Level, Ahead
  <2>2. Only(t, {"SigRev", "GapSigRev"}) BY <1>2, <1>7, SingleOnly
  <2>3. k > 0 BY <1>1, <1>7 DEF Resting, Pushing
  <2>4. Wedged(s, y, t, u) BY <1>5, <1>7, <2>1, <2>2 DEF Wedged
  <2> QED BY <1>5, <1>7, <2>1, <2>2, <2>3, <2>4 DEF Pair, Stage, t
<1> QED BY <1>3, <1>4, <1>6, <1>7, PushStages DEF t

(* x accepts a push of d without a token: the two may collide.             *)
LEMMA PushCollides ==
  ASSUME NEW x \in PlainCom, NEW y \in PlainCom, NEW s \in PlainCom, NEW k \in Nat,
         NEW q \in Seq(Messages), NEW r \in Seq(Messages), NEW u \in Seq(Messages), NEW m,
         NEW d \in Int, d > 0, Pair(x, y, q, r, k), q # <<>>, x.Delta <= 0,
         Head(q).type = "DeltaSig", Head(q).Delta = d,
         s.StateIdx = x.StateIdx + 1, s.MyAmt = x.MyAmt + d, s.Delta = x.Delta, s.Collision = d,
         u = r \/ (Sent(r, u, m) /\ m.type = "GapSigRev")
  PROVE  Pair(s, y, Tail(q), u, k) /\ ~Due(x)
<1>1. /\ x.StateIdx \in Nat /\ x.MyAmt \in Int /\ x.Delta \in Int /\ x.Collision \in Int
      /\ y.StateIdx \in Nat /\ y.MyAmt \in Int /\ y.Delta \in Int /\ y.Collision \in Int
      /\ Value \in Nat
  BY ValueAssumption, PlainFields
<1> DEFINE t == Tail(q)
<1>2. t \in Seq(Messages) OBVIOUS
<1> HIDE DEF t
<1>3. CASE /\ Pushing(x) /\ Pushing(y) /\ Level(x, y) /\ Even(x, y) /\ t = <<>>
           /\ d = - y.Delta /\ Maybe(r, x)
  <2>1. Crossing(s) /\ Ahead(s, y) /\ Twice(s, y)
    <3>1. Crossing(s) BY <1>1, <1>3 DEF Crossing, Pushing
    <3>2. Ahead(s, y) BY <1>1, <1>3 DEF Ahead, Level
    <3>3. Twice(s, y) BY <1>1, <1>3, CountedTwice
    <3> QED BY <3>1, <3>2, <3>3
  <2>2. TakenCrossing(s, y, t, u)
    BY <1>3, <2>1 DEF TakenCrossing, Maybe, PushOf, Single, AtMost, Sent
  <2>3. Pair(s, y, t, u, k) BY <2>2 DEF Pair, Stage
  <2>4. ~Due(x) /\ x.Collision = 0 BY <1>1, <1>3 DEF Due, Pushing
  <2> QED BY <2>3, <2>4, Zenon DEF t
<1>4. CASE /\ Resting(x) /\ Pushing(y) /\ Level(x, y) /\ Even(x, y) /\ t = <<>>
           /\ d = - y.Delta /\ r = <<>>
  <2>1. Struck(s) /\ Ahead(s, y) /\ Twice(s, y)
    <3>1. Struck(s) BY <1>1, <1>4 DEF Struck, Resting
    <3>2. Ahead(s, y) BY <1>1, <1>4 DEF Ahead, Level
    <3>3. Twice(s, y) BY <1>1, <1>4, CountedTwice
    <3> QED BY <3>1, <3>2, <3>3
  <2>2. TakenStruck(s, y, t, u)
    BY <1>4, <2>1 DEF TakenStruck, Single, AtMost, Sent
  <2>3. Pair(s, y, t, u, k) BY <2>2 DEF Pair, Stage
  <2>4. ~Due(x) /\ x.Collision = 0 BY <1>1, <1>4 DEF Due, Resting
  <2> QED BY <2>3, <2>4, Zenon DEF t
<1>5. ASSUME Pushing(x), r = <<>>
      PROVE  Crossing(s) /\ AtMost(u, "GapSigRev") /\ ~Due(x)
  BY <1>1, <1>5 DEF Crossing, AtMost, Single, Sent, Pushing, Due
<1>6. CASE k > 0 /\ Pushing(x) /\ Holding(y) /\ Ahead(y, x) /\ AtMost(t, "SigRev") /\ r = <<>>
  <2>1. Level(y, s) BY <1>1, <1>6 DEF Level, Ahead
  <2>2. Only(t, {"SigRev"}) BY <1>2, <1>6, SingleOnly
  <2>3. Only(u, {"SigRev", "GapSigRev"}) BY <1>5, <1>6, SingleOnly
  <2>4. Wedged(y, s, u, t) BY <1>5, <1>6, <2>1, <2>2, <2>3 DEF Wedged
  <2> QED BY <1>5, <1>6, <2>4 DEF Pair, Stage, t
<1>7. CASE /\ Pushing(x) /\ Crossing(y) /\ Ahead(y, x) /\ Twice(y, x) /\ y.Collision = - x.Delta
           /\ AtMost(t, "GapSigRev") /\ d = - y.Delta /\ r = <<>>
  <2>1. Level(s, y) BY <1>1, <1>7 DEF Level, Ahead
  <2>2. s.MyAmt + y.MyAmt = Value - s.Delta - y.Delta BY <1>1, <1>7, CountedBoth
  <2>3. BothTaken(s, y, t, u) BY <1>5, <1>7, <2>1, <2>2 DEF BothTaken
  <2> QED BY <1>5, <1>7, <2>3 DEF Pair, Stage, t
<1> QED BY <1>3, <1>4, <1>6, <1>7, PushStages DEF t

(* A push reaches a node that still waits for the last Rev: it asks for it *)
(* again.                                                                  *)
LEMMA PushTooEarly ==
  ASSUME NEW x \in PlainCom, NEW y \in PlainCom, NEW s \in PlainCom, NEW k \in Nat,
         NEW q \in Seq(Messages), NEW r \in Seq(Messages), NEW u \in Seq(Messages), NEW m,
         Pair(x, y, q, r, k), q # <<>>, Head(q).type = "DeltaSig",
         x.Delta > 0, SameBooks(x, s),
         u = r \/ (Sent(r, u, m) /\ m.type = "Rev")
  PROVE  Pair(s, y, Tail(q), u, k)
<1>1. /\ x.StateIdx \in Nat /\ x.MyAmt \in Int /\ x.Delta \in Int /\ x.Collision \in Int
      /\ y.StateIdx \in Nat /\ y.MyAmt \in Int /\ y.Delta \in Int /\ y.Collision \in Int
      /\ Value \in Nat
  BY ValueAssumption, PlainFields
<1>2. ~Only(q, {"SigRev", "GapSigRev"}) /\ ~Only(q, {"SigRev"}) BY Taking
<1>3. ASSUME Stage(x, y, q, r, k) PROVE EarlyOffer(x, y, q, r)
  BY <1>1, <1>2, <1>3 DEF Stage, Idle, OneOffer, TwoOffers, LastRev, OneTaken,
     TakenStruck, TakenCrossing, BothTaken, HalfSettled, TwoRevs, Wedged, Resting, Pushing,
     Holding, Crossing, Struck, Single, AtMost, Maybe, PushOf
<1>4. ASSUME Stage(y, x, r, q, k) PROVE FALSE
  BY <1>1, <1>2, <1>4 DEF Stage, Idle, OneOffer, TwoOffers, LastRev, EarlyOffer,
     OneTaken, TakenStruck, TakenCrossing, BothTaken, HalfSettled, TwoRevs, Wedged, Resting,
     Pushing, Holding, Crossing, Struck, Single, AtMost, Maybe, PushOf
<1>5. EarlyOffer(s, y, Tail(q), u)
  BY <1>1, <1>3, <1>4 DEF Pair, EarlyOffer, SameBooks, Holding, Level, Even, Single,
     Maybe, PushOf, Sent
<1> QED BY <1>5 DEF Pair, Stage

(* A Rev reaches a node that waits for the answer to its push: it sends    *)
(* its own Rev again.                                                      *)
LEMMA RevAsked ==
  ASSUME NEW x \in PlainCom, NEW y \in PlainCom, NEW s \in PlainCom, NEW k \in Nat,
         NEW q \in Seq(Messages), NEW r \in Seq(Messages), NEW u \in Seq(Messages), NEW m,
         Pair(x, y, q, r, k), q # <<>>, Head(q).type = "Rev",
         x.Delta < 0, SameBooks(x, s),
         u = r \/ (Sent(r, u, m) /\ m.type = "Rev")
  PROVE  Pair(s, y, Tail(q), u, k)
<1>1. /\ x.StateIdx \in Nat /\ x.MyAmt \in Int /\ x.Delta \in Int /\ x.Collision \in Int
      /\ y.StateIdx \in Nat /\ y.MyAmt \in Int /\ y.Delta \in Int /\ y.Collision \in Int
      /\ Value \in Nat
  BY ValueAssumption, PlainFields
<1>2. ~Only(q, {"SigRev", "GapSigRev"}) /\ ~Only(q, {"SigRev"}) BY Taking
<1>3. ASSUME Stage(x, y, q, r, k) PROVE FALSE
  BY <1>1, <1>2, <1>3 DEF Stage, Idle, OneOffer, TwoOffers, LastRev, EarlyOffer,
     OneTaken, TakenStruck, TakenCrossing, BothTaken, HalfSettled, TwoRevs, Wedged, Resting,
     Pushing, Holding, Crossing, Struck, Single, AtMost, Maybe, PushOf
<1>4. ASSUME Stage(y, x, r, q, k) PROVE EarlyOffer(y, x, r, q) \/ HalfSettled(y, x, r, q)
  BY <1>1, <1>2, <1>4 DEF Stage, Idle, OneOffer, TwoOffers, LastRev, OneTaken,
     TakenStruck, TakenCrossing, BothTaken, TwoRevs, Wedged, Resting, Pushing, Holding,
     Crossing, Struck, Single, AtMost, Maybe, PushOf
<1>5. CASE EarlyOffer(y, x, r, q)
  <2>1. EarlyOffer(y, s, u, Tail(q))
    BY <1>1, <1>5 DEF EarlyOffer, SameBooks, Holding, Pushing, Level, Even, Single,
       Maybe, PushOf, Sent
  <2> QED BY <2>1 DEF Pair, Stage
<1>6. CASE HalfSettled(y, x, r, q)
  <2>1. HalfSettled(y, s, u, Tail(q))
    BY <1>1, <1>6 DEF HalfSettled, SameBooks, Crossing, Ahead, Twice, Single, AtMost, Sent
  <2> QED BY <2>1 DEF Pair, Stage
<1> QED BY <1>3, <1>4, <1>5, <1>6 DEF Pair

(* The last Rev arrives.                                                   *)
LEMMA RevTaken ==
  ASSUME NEW x \in PlainCom, NEW y \in PlainCom, NEW s \in PlainCom, NEW k \in Nat,
         NEW q \in Seq(Messages), NEW r \in Seq(Messages), NEW u \in Seq(Messages), NEW m,
         Pair(x, y, q, r, k), q # <<>>, Head(q).type = "Rev",
         x.Delta > 0, x.StateIdx - 1 < y.StateIdx,
         s.StateIdx = x.StateIdx, s.MyAmt = x.MyAmt, s.Delta = 0, s.Collision = x.Collision
  PROVE  Pair(s, y, Tail(q), r, k) /\ Resting(s)
<1>1. /\ x.StateIdx \in Nat /\ x.MyAmt \in Int /\ x.Delta \in Int /\ x.Collision \in Int
      /\ y.StateIdx \in Nat /\ y.MyAmt \in Int /\ y.Delta \in Int /\ y.Collision \in Int
      /\ Value \in Nat
  BY ValueAssumption, PlainFields
<1>2. ~Only(q, {"SigRev", "GapSigRev"}) /\ ~Only(q, {"SigRev"}) BY Taking
<1>3. ASSUME Stage(x, y, q, r, k) PROVE LastRev(x, y, q, r) \/ EarlyOffer(x, y, q, r) \/ HalfSettled(x, y, q, r) \/ TwoRevs(x, y, q, r)
  BY <1>1, <1>2, <1>3 DEF Stage, Idle, OneOffer, TwoOffers, OneTaken, TakenStruck,
     TakenCrossing, BothTaken, Wedged, Resting, Pushing, Holding, Crossing, Struck, Single,
     AtMost, Maybe, PushOf
<1>4. ASSUME Stage(y, x, r, q, k) PROVE TwoRevs(y, x, r, q)
  BY <1>1, <1>2, <1>4 DEF Stage, Idle, OneOffer, TwoOffers, LastRev, EarlyOffer,
     OneTaken, TakenStruck, TakenCrossing, BothTaken, HalfSettled, Wedged, Resting, Pushing,
     Holding, Crossing, Struck, Single, AtMost, Maybe, PushOf
<1>5. ~HalfSettled(x, y, q, r) BY <1>1 DEF HalfSettled, Ahead
<1> DEFINE t == Tail(q)
<1>6. t = Tail(q) OBVIOUS
<1>7. CASE LastRev(x, y, q, r)
  <2>1. Idle(s, y, t, r) /\ Resting(s)
    BY <1>1, <1>6, <1>7 DEF LastRev, Idle, Holding, Resting, Level, Even, AtMost, Single
  <2> QED BY <1>6, <2>1 DEF Pair, Stage
<1> HIDE DEF t
<1>8. CASE EarlyOffer(x, y, q, r)
  <2>1. Holding(x) /\ Pushing(y) /\ Level(x, y) /\ Even(x, y) /\ r = <<>> /\ Maybe(t, y)
    BY <1>6, <1>8 DEF EarlyOffer, Maybe, PushOf, Single
  <2>2. Resting(s) /\ Level(y, s) /\ Even(y, s)
    BY <1>1, <2>1 DEF Holding, Resting, Level, Even
  <2>3. OneOffer(y, s, r, t) BY <2>1, <2>2 DEF OneOffer
  <2> QED BY <1>6, <2>2, <2>3 DEF Pair, Stage
<1>9. CASE TwoRevs(x, y, q, r) \/ TwoRevs(y, x, r, q)
  <2>1. /\ Holding(x) /\ Holding(y) /\ t = <<>> /\ AtMost(r, "Rev")
        /\ Level(x, y) /\ Even(x, y)
    BY <1>1, <1>6, <1>9, Swapped DEF TwoRevs, AtMost, Single
  <2>2. Resting(s) /\ Level(y, s) /\ Even(y, s)
    BY <1>1, <2>1 DEF Holding, Resting, Level, Even
  <2>3. LastRev(y, s, r, t) BY <2>1, <2>2 DEF LastRev
  <2> QED BY <1>6, <2>2, <2>3 DEF Pair, Stage
<1> QED BY <1>3, <1>4, <1>5, <1>7, <1>8, <1>9 DEF Pair

(* The peer has taken the push and sends the new state back.               *)
LEMMA SigRevStage ==
  ASSUME NEW x \in PlainCom, NEW y \in PlainCom, NEW k \in Nat,
         NEW q \in Seq(Messages), NEW r \in Seq(Messages),
         Pair(x, y, q, r, k), q # <<>>, Head(q).type = "SigRev", x.Delta < 0, x.Collision = 0
  PROVE  Pushing(x) /\ Holding(y) /\ Ahead(y, x) /\ Twice(y, x) /\ r = <<>> /\ Tail(q) = <<>>
<1>1. /\ x.StateIdx \in Nat /\ x.MyAmt \in Int /\ x.Delta \in Int /\ x.Collision \in Int
      /\ y.StateIdx \in Nat /\ y.MyAmt \in Int /\ y.Delta \in Int /\ y.Collision \in Int
      /\ Value \in Nat
  BY ValueAssumption, PlainFields
<1>2. ASSUME Stage(x, y, q, r, k) PROVE FALSE
  BY <1>1, <1>2 DEF Stage, Idle, OneOffer, TwoOffers, LastRev, EarlyOffer, OneTaken,
     TakenStruck, TakenCrossing, BothTaken, HalfSettled, TwoRevs, Wedged, Resting, Pushing,
     Holding, Crossing, Struck, Single, AtMost, Maybe, PushOf
<1>3. ASSUME Stage(y, x, r, q, k) PROVE OneTaken(y, x, r, q, k)
  BY <1>1, <1>3 DEF Stage, Idle, OneOffer, TwoOffers, LastRev, EarlyOffer, TakenStruck,
     TakenCrossing, BothTaken, HalfSettled, TwoRevs, Wedged, Resting, Pushing, Holding,
     Crossing, Struck, Single, AtMost, Maybe, PushOf
<1> QED BY <1>2, <1>3 DEF Pair, OneTaken, AtMost, Single

LEMMA SigRevTaken ==
  ASSUME NEW x \in PlainCom, NEW y \in PlainCom, NEW s \in PlainCom, NEW k \in Nat,
         NEW q \in Seq(Messages), NEW r \in Seq(Messages), NEW u \in Seq(Messages), NEW m,
         Pair(x, y, q, r, k), q # <<>>, Head(q).type = "SigRev",
         x.Delta < 0, x.Collision = 0,
         s.StateIdx = x.StateIdx + 1, s.MyAmt = x.MyAmt + x.Delta, s.Delta = 0, s.Collision = 0,
         Sent(r, u, m), m.type = "Rev"
  PROVE  Pair(s, y, Tail(q), u, k)
<1>1. /\ x.StateIdx \in Nat /\ x.MyAmt \in Int /\ x.Delta \in Int
      /\ y.StateIdx \in Nat /\ y.MyAmt \in Int /\ Value \in Nat
  BY ValueAssumption, PlainFields
<1>2. Pushing(x) /\ Holding(y) /\ Ahead(y, x) /\ Twice(y, x) /\ r = <<>> /\ Tail(q) = <<>>
  BY SigRevStage
<1>3. Resting(s) /\ Level(y, s) BY <1>1, <1>2 DEF Resting, Ahead, Level
<1>4. Even(y, s) BY <1>1, <1>2, CountedOnce
<1>5. LastRev(y, s, u, Tail(q)) BY <1>2, <1>3, <1>4 DEF LastRev, AtMost, Single, Sent
<1> QED BY <1>5 DEF Pair, Stage

(* Nobody who waits for nothing gets one.                                  *)
LEMMA SigRevWanted ==
  ASSUME NEW x \in PlainCom, NEW y \in PlainCom, NEW k \in Nat,
         NEW q \in Seq(Messages), NEW r \in Seq(Messages),
         Pair(x, y, q, r, k), q # <<>>, Head(q).type = "SigRev"
  PROVE  x.Delta # 0
<1>1. /\ x.StateIdx \in Nat /\ x.MyAmt \in Int /\ x.Delta \in Int /\ x.Collision \in Int
      /\ y.StateIdx \in Nat /\ y.MyAmt \in Int /\ y.Delta \in Int /\ y.Collision \in Int
      /\ Value \in Nat
  BY ValueAssumption, PlainFields
<1>2. ASSUME Stage(x, y, q, r, k) PROVE x.Delta # 0
  BY <1>1, <1>2 DEF Stage, Idle, OneOffer, TwoOffers, LastRev, EarlyOffer, OneTaken,
     TakenStruck, TakenCrossing, BothTaken, HalfSettled, TwoRevs, Wedged, Resting, Pushing,
     Holding, Crossing, Struck, Single, AtMost, Maybe, PushOf
<1>3. ASSUME Stage(y, x, r, q, k) PROVE x.Delta # 0
  BY <1>1, <1>3 DEF Stage, Idle, OneOffer, TwoOffers, LastRev, EarlyOffer, OneTaken,
     TakenStruck, TakenCrossing, BothTaken, HalfSettled, TwoRevs, Wedged, Resting, Pushing,
     Holding, Crossing, Struck, Single, AtMost, Maybe, PushOf
<1> QED BY <1>2, <1>3 DEF Pair

(* Each has taken the other's push, and the peer sends the state after     *)
(* both.                                                                   *)
LEMMA GapSigRevStage ==
  ASSUME NEW x \in PlainCom, NEW y \in PlainCom, NEW k \in Nat,
         NEW q \in Seq(Messages), NEW r \in Seq(Messages),
         Pair(x, y, q, r, k), q # <<>>, Head(q).type = "GapSigRev", x.Collision # 0
  PROVE  \/ /\ Crossing(x) /\ Crossing(y) /\ Level(x, y) /\ Tail(q) = <<>> /\ AtMost(r, "GapSigRev")
            /\ x.MyAmt + y.MyAmt = Value - x.Delta - y.Delta
         \/ /\ Crossing(x) /\ Holding(y) /\ Ahead(y, x) /\ Twice(y, x) /\ r = <<>>
            /\ Single(Tail(q), "Rev")
<1>1. /\ x.StateIdx \in Nat /\ x.MyAmt \in Int /\ x.Delta \in Int /\ x.Collision \in Int
      /\ y.StateIdx \in Nat /\ y.MyAmt \in Int /\ y.Delta \in Int /\ y.Collision \in Int
      /\ Value \in Nat
  BY ValueAssumption, PlainFields
<1>2. ~Only(q, {"SigRev"}) BY Taking
<1>3. ASSUME Stage(x, y, q, r, k) PROVE BothTaken(x, y, q, r)
  BY <1>1, <1>2, <1>3 DEF Stage, Idle, OneOffer, TwoOffers, LastRev, EarlyOffer,
     OneTaken, TakenStruck, TakenCrossing, HalfSettled, TwoRevs, Wedged, Resting, Pushing,
     Holding, Crossing, Struck, Single, AtMost, Maybe, PushOf
<1>4. ASSUME Stage(y, x, r, q, k) PROVE BothTaken(y, x, r, q) \/ HalfSettled(y, x, r, q)
  BY <1>1, <1>2, <1>4 DEF Stage, Idle, OneOffer, TwoOffers, LastRev, EarlyOffer,
     OneTaken, TakenStruck, TakenCrossing, TwoRevs, Wedged, Resting, Pushing, Holding,
     Crossing, Struck, Single, AtMost, Maybe, PushOf
<1>5. CASE BothTaken(x, y, q, r) \/ BothTaken(y, x, r, q)
  <2>1. Crossing(x) /\ Crossing(y) /\ Level(x, y) /\ Tail(q) = <<>> /\ AtMost(r, "GapSigRev")
    BY <1>5 DEF BothTaken, AtMost, Single, Level
  <2>2. x.MyAmt + y.MyAmt = Value - x.Delta - y.Delta
    BY <1>1, <1>5, Swapped DEF BothTaken
  <2> QED BY <2>1, <2>2
<1>6. CASE HalfSettled(y, x, r, q)
  BY <1>6 DEF HalfSettled, AtMost, Single
<1> QED BY <1>3, <1>4, <1>5, <1>6 DEF Pair

LEMMA GapSigRevTaken ==
  ASSUME NEW x \in PlainCom, NEW y \in PlainCom, NEW s \in PlainCom, NEW k \in Nat,
         NEW q \in Seq(Messages), NEW r \in Seq(Messages), NEW u \in Seq(Messages), NEW m,
         Pair(x, y, q, r, k), q # <<>>, Head(q).type = "GapSigRev",
         x.Collision # 0,
         s.StateIdx = x.StateIdx + 1, s.MyAmt = x.MyAmt + x.Delta,
         s.Delta = x.Collision, s.Collision = 0,
         Sent(r, u, m), m.type = "Rev"
  PROVE  Pair(s, y, Tail(q), u, k) /\ s.Delta > 0
<1>1. /\ x.StateIdx \in Nat /\ x.MyAmt \in Int /\ x.Delta \in Int /\ x.Collision \in Int
      /\ y.StateIdx \in Nat /\ y.MyAmt \in Int /\ y.Delta \in Int /\ y.Collision \in Int
      /\ Value \in Nat
  BY ValueAssumption, PlainFields
<1> DEFINE t == Tail(q)
<1>2. t = Tail(q) OBVIOUS
<1> HIDE DEF t
<1>3. CASE /\ Crossing(x) /\ Crossing(y) /\ Level(x, y) /\ t = <<>> /\ AtMost(r, "GapSigRev")
           /\ x.MyAmt + y.MyAmt = Value - x.Delta - y.Delta
  <2>1. Holding(s) /\ Ahead(s, y) BY <1>1, <1>3 DEF Crossing, Holding, Ahead, Level
  <2>2. Twice(s, y) BY <1>1, <1>3, CountedHalf
  <2>3. HalfSettled(s, y, t, u)
    BY <1>3, <2>1, <2>2 DEF HalfSettled, AtMost, Single, Sent
  <2> QED BY <1>2, <2>1, <2>3 DEF Pair, Stage, Holding
<1>4. CASE /\ Crossing(x) /\ Holding(y) /\ Ahead(y, x) /\ Twice(y, x) /\ r = <<>>
           /\ Single(t, "Rev")
  <2>1. Holding(s) /\ Level(s, y) BY <1>1, <1>4 DEF Crossing, Holding, Ahead, Level
  <2>2. Even(s, y) BY <1>1, <1>4, CountedOnce
  <2>3. TwoRevs(s, y, t, u)
    BY <1>4, <2>1, <2>2 DEF TwoRevs, AtMost, Single, Sent
  <2> QED BY <1>2, <2>1, <2>3 DEF Pair, Stage, Holding
<1> QED BY <1>2, <1>3, <1>4, GapSigRevStage

(* A node at rest pushes; if it cannot sign, nothing is sent.              *)
PushStage(x, y) ==
    \/ Resting(x) /\ (Resting(y) \/ Pushing(y) \/ Holding(y)) /\ Level(x, y)
    \/ Struck(x) /\ Pushing(y) /\ Ahead(x, y)

LEMMA PushedStage ==
  ASSUME NEW x \in PlainCom, NEW y \in PlainCom, NEW k \in Nat,
         NEW q \in Seq(Messages), NEW r \in Seq(Messages), Pair(x, y, q, r, k), x.Delta = 0
  PROVE  PushStage(x, y)
<1>1. /\ x.StateIdx \in Nat /\ x.MyAmt \in Int /\ x.Delta \in Int /\ x.Collision \in Int
      /\ y.StateIdx \in Nat /\ y.MyAmt \in Int /\ y.Delta \in Int /\ y.Collision \in Int
  BY PlainFields
<1>2. ASSUME Stage(x, y, q, r, k) PROVE PushStage(x, y)
  BY <1>1, <1>2 DEF PushStage, Stage, Idle, OneOffer, TwoOffers, LastRev, EarlyOffer,
     OneTaken, TakenStruck, TakenCrossing, BothTaken, HalfSettled, TwoRevs, Wedged, Resting,
     Pushing, Holding, Crossing, Struck
<1>3. ASSUME Stage(y, x, r, q, k) PROVE PushStage(x, y)
  BY <1>1, <1>3 DEF PushStage, Stage, Idle, OneOffer, TwoOffers, LastRev, EarlyOffer,
     OneTaken, TakenStruck, TakenCrossing, BothTaken, HalfSettled, TwoRevs, Wedged, Resting,
     Pushing, Holding, Crossing, Struck, Level
<1> QED BY <1>2, <1>3 DEF Pair

LEMMA Pushed ==
  ASSUME NEW x \in PlainCom, NEW y \in PlainCom, NEW s \in PlainCom, NEW k \in Nat,
         NEW q \in Seq(Messages), NEW r \in Seq(Messages), NEW u \in Seq(Messages), NEW m,
         Pair(x, y, q, r, k), x.Delta = 0,
         s.StateIdx = x.StateIdx, s.MyAmt = x.MyAmt, s.Delta < 0, s.Collision = x.Collision,
         u = r \/ (Sent(r, u, m) /\ m.type = "DeltaSig" /\ m.Delta = - s.Delta)
  PROVE  Pair(s, y, q, u, k)
<1>1. /\ x.StateIdx \in Nat /\ x.MyAmt \in Int /\ x.Delta \in Int /\ x.Collision \in Int
      /\ y.StateIdx \in Nat /\ y.MyAmt \in Int /\ y.Delta \in Int /\ y.Collision \in Int
      /\ Value \in Nat
  BY ValueAssumption, PlainFields
<1>3. ASSUME Stage(x, y, q, r, k) PROVE Idle(x, y, q, r) \/ TakenStruck(x, y, q, r)
  BY <1>1, <1>3 DEF Stage, OneOffer, TwoOffers, LastRev, EarlyOffer, OneTaken,
     TakenCrossing, BothTaken, HalfSettled, TwoRevs, Wedged, Resting, Pushing, Holding,
     Crossing, Struck, Single, AtMost, Maybe, PushOf
<1>4. ASSUME Stage(y, x, r, q, k) PROVE Idle(y, x, r, q) \/ OneOffer(y, x, r, q) \/ LastRev(y, x, r, q)
  BY <1>1, <1>4 DEF Stage, TwoOffers, EarlyOffer, OneTaken, TakenStruck, TakenCrossing,
     BothTaken, HalfSettled, TwoRevs, Wedged, Resting, Pushing, Holding, Crossing, Struck,
     Single, AtMost, Maybe, PushOf
<1>5. CASE Idle(x, y, q, r) \/ Idle(y, x, r, q)
  <2>1. OneOffer(s, y, q, u)
    BY <1>1, <1>5 DEF Idle, OneOffer, Resting, Pushing, Level, Even, Maybe, PushOf,
       Single, Sent
  <2> QED BY <2>1 DEF Pair, Stage
<1>6. CASE OneOffer(y, x, r, q)
  <2>1. TwoOffers(s, y, q, u)
    BY <1>1, <1>6 DEF OneOffer, TwoOffers, Resting, Pushing, Level, Even, Maybe, PushOf,
       Single, Sent
  <2> QED BY <2>1 DEF Pair, Stage
<1>7. CASE LastRev(y, x, r, q)
  <2>1. EarlyOffer(y, s, u, q)
    BY <1>1, <1>7 DEF LastRev, EarlyOffer, Resting, Holding, Pushing, Level, Even, Maybe,
       PushOf, AtMost, Single, Sent
  <2> QED BY <2>1 DEF Pair, Stage
<1>8. CASE TakenStruck(x, y, q, r)
  <2>1. TakenCrossing(s, y, q, u)
    BY <1>1, <1>8 DEF TakenStruck, TakenCrossing, Struck, Crossing, Ahead, Twice, PushOf,
       AtMost, Single, Sent
  <2> QED BY <2>1 DEF Pair, Stage
<1> QED BY <1>3, <1>4, <1>5, <1>6, <1>7, <1>8 DEF Pair

(* The connection breaks.                                                  *)
LEMMA Lost ==
  ASSUME NEW x \in PlainCom, NEW y \in PlainCom, NEW k \in Nat,
         NEW q \in Seq(Messages), NEW r \in Seq(Messages), Pair(x, y, q, r, k)
  PROVE  Pair(x, y, <<>>, <<>>, k + 1)
<1>1. \A T : Only(<<>>, T) BY NothingOnly
<1>2. k + 1 > 0 OBVIOUS
<1>3. ASSUME Stage(x, y, q, r, k) PROVE Stage(x, y, <<>>, <<>>, k + 1)
  BY <1>1, <1>2, <1>3 DEF Stage, Idle, OneOffer, TwoOffers, LastRev, EarlyOffer,
     OneTaken, TakenStruck, TakenCrossing, BothTaken, HalfSettled, TwoRevs, Wedged, AtMost,
     Maybe
<1>4. ASSUME Stage(y, x, r, q, k) PROVE Stage(y, x, <<>>, <<>>, k + 1)
  BY <1>1, <1>2, <1>4 DEF Stage, Idle, OneOffer, TwoOffers, LastRev, EarlyOffer,
     OneTaken, TakenStruck, TakenCrossing, BothTaken, HalfSettled, TwoRevs, Wedged, AtMost,
     Maybe
<1> QED BY <1>3, <1>4 DEF Pair

-----------------------------------------------------------------------------
(* What the handlers' state functions do to the fields of a plain state.   *)

SamePoints(x, s) ==
    s.ElkPoint = x.ElkPoint /\ s.NextElkPoint = x.NextElkPoint /\ s.N2ElkPoint = x.N2ElkPoint
NextPoints(x, s, m) ==
    s.ElkPoint = x.NextElkPoint /\ s.NextElkPoint = x.N2ElkPoint /\ s.N2ElkPoint = m.N2ElkPoint

(* The same state, but for the mark of failure.                            *)
Marked(x, s) == s \in PlainCom /\ SameBooks(x, s) /\ SamePoints(x, s)

LEMMA MarkedSame ==
  ASSUME NEW st \in PlainCom
  PROVE  Marked(st, st) /\ Marked(st, FailChannel(st))
<1>1. FailChannel(st) \in PlainCom BY PlainFail
<1> DEFINE su == FailChannel(st)
<1>2. SameBooks(st, su) /\ SamePoints(st, su)
  BY DEF FailChannel, PlainCom, SameBooks, SamePoints
<1> HIDE DEF su
<1> QED BY <1>1, <1>2 DEF Marked, SameBooks, SamePoints, su

(* What DeltaSigHandler makes of x by a push of d, with the token or not.  *)
Pulled(x, d, s) ==
    s.StateIdx = x.StateIdx + 1 /\ s.MyAmt = x.MyAmt + d /\ SamePoints(x, s)

(* c says that the token was missing.                                      *)
PulledBy(x, d, c, s) ==
    /\ s \in PlainCom /\ Pulled(x, d, s) /\ s.Failed = x.Failed
    /\ c => s.Delta = x.Delta /\ s.Collision = d
    /\ ~c => s.Delta = d /\ s.Collision = x.Collision

LEMMA PulledFields ==
  ASSUME NEW st \in PlainCom, NEW d \in Int, NEW sig \in Tx, NEW c \in BOOLEAN
  PROVE  PulledBy(st, d, c, DeltaSigSaved(st, Seen(st, d, c), d, sig, c))
<1> DEFINE s == Seen(st, d, c)
           p == PulledState(s, d, c)
           new == DeltaSigSaved(st, s, d, sig, c)
<1>1. s \in PlainCom BY PlainSeen, Zenon
<1>2. s = [st EXCEPT !.Collision = IF c THEN d ELSE @] BY PlainSeen, Zenon
<1>3. s.Delta = st.Delta /\ s.Failed = st.Failed /\ SamePoints(st, s)
  BY <1>2 DEF PlainCom, SamePoints
<1>4. /\ c => s.Collision = d
      /\ ~c => s.Collision = st.Collision
  BY <1>2 DEF PlainCom
<1> HIDE DEF s
<1>5. p \in PlainCom BY <1>1, PlainPulled, Zenon
<1>6. p = [s EXCEPT !.StateIdx = @ + 1, !.MyAmt = @ + d, !.Delta = IF c THEN @ ELSE d]
  BY <1>1 DEF PulledState, PlainCom
<1>7. /\ c => p.Delta = s.Delta
      /\ ~c => p.Delta = d
  BY <1>1, <1>6 DEF PlainCom
<1>8. p.Collision = s.Collision /\ p.Failed = s.Failed /\ SamePoints(s, p)
  BY <1>1, <1>6 DEF PlainCom, SamePoints
<1>9. SetClearing(p, ClearingIdxs(st), TRUE) = p BY <1>5, PlainMap, Zenon
<1>10. new = [p EXCEPT !.Sig = sig, !.InProgHTLC = st.InProgHTLC]
  BY <1>9, Zenon DEF DeltaSigSaved
<1> HIDE DEF p, new
<1>11. /\ new.Delta = p.Delta /\ new.Collision = p.Collision /\ new.Failed = p.Failed
       /\ SamePoints(p, new)
  BY <1>5, <1>10 DEF PlainCom, SamePoints
<1>12. new \in PlainCom /\ new.StateIdx = st.StateIdx + 1 /\ new.MyAmt = st.MyAmt + d
  <2> DEFINE v == DeltaSigSaved(st, Seen(st, d, c), d, sig, c)
  <2>1. v \in PlainCom /\ v.StateIdx = st.StateIdx + 1 /\ v.MyAmt = st.MyAmt + d
    BY PlainDeltaSig
  <2>2. v = new BY DEF new, s
  <2> HIDE DEF v
  <2> QED BY <2>1, <2>2
<1>13. SamePoints(st, new) BY <1>3, <1>8, <1>11 DEF SamePoints
<1>14. PulledBy(st, d, c, new)
  BY <1>3, <1>4, <1>7, <1>8, <1>11, <1>12, <1>13, Zenon DEF Pulled, PulledBy
<1> QED BY <1>14, Zenon DEF new, s

(* The receiver takes no push that the sender cannot pay.                  *)
LEMMA PulledCovered ==
  ASSUME NEW st \in PlainCom, NEW d \in Int, NEW sig, NEW c \in BOOLEAN,
         DeltaSigOK(Seen(st, d, c), d, sig, c)
  PROVE  d > 0 /\ d <= Value - st.MyAmt
<1> DEFINE s == Seen(st, d, c)
<1>1. s \in PlainCom BY PlainSeen, Zenon
<1>2. s = [st EXCEPT !.Collision = IF c THEN d ELSE @] BY PlainSeen, Zenon
<1>3. s.MyAmt = st.MyAmt /\ st.MyAmt \in Int BY <1>2, PlainFields DEF PlainCom
<1>4. d >= 1 /\ TheirBalance(s) - (d + Fee) >= MinOutput BY DEF DeltaSigOK
<1> HIDE DEF s
<1>5. Uncleared(s) = {} /\ AmtOf(s.HTLCs, {}) = 0 BY <1>1, PlainHTLCs
<1>6. TheirBalance(s) = Value - 0 - s.MyAmt BY <1>5, Zenon DEF TheirBalance
<1> QED BY <1>3, <1>4, <1>6, ValueAssumption

LEMMA PushedFields ==
  ASSUME NEW st \in PlainCom, NEW m, m.Sig \in Tx, RevPart(m), NEW new,
         new = SigRevSaved(st, m)
  PROVE  /\ new \in PlainCom /\ new.StateIdx = st.StateIdx + 1 /\ new.MyAmt = st.MyAmt + st.Delta
         /\ new.Delta = 0 /\ new.Collision = st.Collision /\ NextPoints(st, new, m)
<1>1. new \in PlainCom BY PlainSigRev, Zenon
<1>2. new = [st EXCEPT !.StateIdx = @ + 1, !.Delta = 0, !.MyAmt = @ + st.Delta, !.Sig = m.Sig,
                       !.ElkPoint = st.NextElkPoint, !.NextElkPoint = st.N2ElkPoint,
                       !.N2ElkPoint = m.N2ElkPoint]
  BY PlainSigRev, Zenon
<1> QED BY <1>1, <1>2 DEF PlainCom, NextPoints

(* Only a message that opens the newest point is let through.              *)
LEMMA SigRevOpens ==
  ASSUME NEW st \in PlainCom, NEW m, SigRevOK(st, m)
  PROVE  m.Elk = st.ElkPoint
<1>1. PushedState(st) = [st EXCEPT !.StateIdx = @ + 1, !.Delta = 0, !.MyAmt = @ + st.Delta]
  BY PlainPushed, Zenon
<1>2. PushedState(st).StateIdx = st.StateIdx + 1 /\ PushedState(st).ElkPoint = st.ElkPoint
  BY <1>1 DEF PlainCom
<1>3. st.StateIdx \in Nat BY PlainFields
<1>4. IngestElkrem(PushedState(st), m.Elk) BY DEF SigRevOK
<1> QED BY <1>2, <1>3, <1>4 DEF IngestElkrem

LEMMA PointsStay ==
  ASSUME NEW x \in PlainCom, NEW s \in PlainCom, Points(x), SamePoints(x, s),
         s.StateIdx = x.StateIdx, Due(s) <=> Due(x)
  PROVE  Points(s)
  BY DEF Points, SamePoints

LEMMA PointsTaken ==
  ASSUME NEW x \in PlainCom, NEW s \in PlainCom, Points(x), SamePoints(x, s),
         s.StateIdx = x.StateIdx + 1, ~Due(x), Due(s)
  PROVE  Points(s)
<1>1. x.StateIdx \in Nat BY PlainFields
<1> QED BY <1>1 DEF Points, SamePoints

LEMMA PointsNext ==
  ASSUME NEW x \in PlainCom, NEW s \in PlainCom, NEW m, Points(x), NextPoints(x, s, m),
         m.Elk = x.ElkPoint, m.N2ElkPoint = m.Elk + 3,
         \/ s.StateIdx = x.StateIdx + 1 /\ (Due(s) <=> Due(x))
         \/ s.StateIdx = x.StateIdx /\ Due(x) /\ ~Due(s)
  PROVE  Points(s) /\ s.ElkPoint = x.ElkPoint + 1
<1>1. x.StateIdx \in Nat /\ x.ElkPoint \in Nat BY PlainFields
<1> QED BY <1>1 DEF Points, NextPoints

-----------------------------------------------------------------------------
(* What the stages make of the ledger, when x becomes s: the push of x that *)
(* waits for its answer, and whether y holds a state that contains it.     *)

Owed(st) == IF st.Delta < 0 THEN - st.Delta ELSE 0
Counted(x, y) == x.Delta < 0 /\ (y.Collision > 0 \/ y.StateIdx = x.StateIdx + 1)

Rests(x, s, y) ==
    /\ s.MyAmt = x.MyAmt /\ Owed(s) = Owed(x)
    /\ Counted(s, y) <=> Counted(x, y)
    /\ Counted(y, s) <=> Counted(y, x)
Offers(x, s, y) ==
    /\ s.MyAmt = x.MyAmt /\ Owed(x) = 0 /\ Owed(s) \in PushAmt \ {0}
    /\ ~Counted(x, y) /\ ~Counted(s, y)
    /\ Counted(y, s) <=> Counted(y, x)
Takes(x, s, y) ==
    /\ Owed(y) \in 1 .. y.MyAmt /\ ~Counted(y, x) /\ Counted(y, s)
    /\ s.MyAmt = x.MyAmt + Owed(y) /\ Owed(s) = Owed(x)
    /\ Counted(s, y) <=> Counted(x, y)
Settles(x, s, y) ==
    /\ Counted(x, y) /\ ~Counted(s, y)
    /\ s.MyAmt = x.MyAmt - Owed(x) /\ Owed(s) = 0
    /\ Counted(y, s) <=> Counted(y, x)

(* Only a call of PushChannel makes an offer.                              *)
Moves(x, s, y) == Rests(x, s, y) \/ Takes(x, s, y) \/ Settles(x, s, y)
OnBooks(x, s, y) == Moves(x, s, y) \/ Offers(x, s, y)

LEMMA Covered ==
  ASSUME NEW x, NEW y, NEW d \in Int,
         x.MyAmt \in Int, y.MyAmt \in Int, x.Delta \in Int, Value \in Nat, d <= Value - x.MyAmt,
         Even(x, y) \/ (x.Delta < 0 /\ Twice(y, x))
  PROVE  d <= y.MyAmt
  BY DEF Even, Twice

LEMMA OwedAmount ==
  ASSUME NEW x, x.MyAmt \in Int, x.Delta \in Int, x.Delta < 0
  PROVE  Owed(x) = - x.Delta /\ x.MyAmt + x.Delta = x.MyAmt - Owed(x)
  BY DEF Owed

LEMMA DroppedRests ==
  ASSUME NEW x \in PlainCom, NEW s \in PlainCom, NEW y \in PlainCom, SameBooks(x, s)
  PROVE  Rests(x, s, y)
  BY DEF SameBooks, Rests, Owed, Counted

LEMMA RevRests ==
  ASSUME NEW x \in PlainCom, NEW s \in PlainCom, NEW y \in PlainCom, x.Delta > 0, s.Delta = 0,
         s.StateIdx = x.StateIdx, s.MyAmt = x.MyAmt, s.Collision = x.Collision
  PROVE  Rests(x, s, y)
<1>1. x.Delta \in Int BY PlainFields
<1>2. ~(x.Delta < 0) /\ ~(s.Delta < 0) BY <1>1
<1> QED BY <1>2 DEF Rests, Owed, Counted

(* While the connection lasts, a node with the token has no push of its    *)
(* own.                                                                    *)
LEMMA PushTakenTakes ==
  ASSUME NEW x \in PlainCom, NEW y \in PlainCom, NEW s \in PlainCom,
         NEW q \in Seq(Messages), NEW r \in Seq(Messages),
         NEW d \in Int, d > 0, d <= Value - x.MyAmt, Pair(x, y, q, r, 0), q # <<>>,
         Head(q).type = "DeltaSig", Head(q).Delta = d, Resting(x),
         s.StateIdx = x.StateIdx + 1, s.MyAmt = x.MyAmt + d, s.Delta = d, s.Collision = x.Collision
  PROVE  Takes(x, s, y)
<1>1. /\ x.StateIdx \in Nat /\ x.MyAmt \in Int /\ x.Delta \in Int /\ x.Collision \in Int
      /\ y.StateIdx \in Nat /\ y.MyAmt \in Int /\ y.Delta \in Int /\ y.Collision \in Int
      /\ Value \in Nat
  BY ValueAssumption, PlainFields
<1>2. x.Delta = 0 /\ x.Collision = 0 BY DEF Resting
<1>3. Pushing(y) /\ Level(x, y) /\ Even(x, y) /\ d = - y.Delta
  <2>1. 0 \in Nat /\ x.Delta <= 0 /\ ~Pushing(x) BY <1>2 DEF Pushing
  <2> QED BY <2>1, PushStages
<1>4. Owed(y) = d BY <1>1, <1>3 DEF Owed, Pushing
<1>5. d <= y.MyAmt BY <1>1, <1>3, Covered
<1>6. ~Counted(y, x) /\ Counted(y, s) BY <1>1, <1>2, <1>3 DEF Counted, Level, Pushing
<1>7. Owed(s) = 0 /\ Owed(x) = 0 /\ ~Counted(s, y) /\ ~Counted(x, y)
  BY <1>1, <1>2 DEF Owed, Counted
<1> QED BY <1>1, <1>4, <1>5, <1>6, <1>7 DEF Takes

LEMMA PushCollidesTakes ==
  ASSUME NEW x \in PlainCom, NEW y \in PlainCom, NEW s \in PlainCom,
         NEW q \in Seq(Messages), NEW r \in Seq(Messages),
         NEW d \in Int, d > 0, d <= Value - x.MyAmt, Pair(x, y, q, r, 0), q # <<>>, x.Delta <= 0,
         Head(q).type = "DeltaSig", Head(q).Delta = d,
         s.StateIdx = x.StateIdx + 1, s.MyAmt = x.MyAmt + d, s.Delta = x.Delta, s.Collision = d
  PROVE  Takes(x, s, y)
<1>1. /\ x.StateIdx \in Nat /\ x.MyAmt \in Int /\ x.Delta \in Int /\ x.Collision \in Int
      /\ y.StateIdx \in Nat /\ y.MyAmt \in Int /\ y.Delta \in Int /\ y.Collision \in Int
      /\ Value \in Nat
  BY ValueAssumption, PlainFields
<1>2. \/ (Pushing(x) \/ Resting(x)) /\ Pushing(y) /\ Level(x, y) /\ Even(x, y) /\ d = - y.Delta
      \/ Pushing(x) /\ Crossing(y) /\ Ahead(y, x) /\ Twice(y, x) /\ d = - y.Delta
  <2>1. 0 \in Nat OBVIOUS
  <2> QED BY <2>1, PushStages
<1>3. Owed(s) = Owed(x) BY DEF Owed
<1>4. Owed(y) = d /\ x.Collision = 0 BY <1>1, <1>2 DEF Owed, Pushing, Crossing, Resting
<1>5. Counted(y, s) BY <1>1, <1>2 DEF Counted, Pushing, Crossing
<1>6. ~Counted(y, x) BY <1>1, <1>2, <1>4 DEF Counted, Level, Ahead
<1>7. Counted(s, y) <=> Counted(x, y)
  <2>1. CASE Pushing(y) /\ Level(x, y)
    BY <1>1, <2>1 DEF Counted, Level, Pushing
  <2>2. CASE Crossing(y)
    BY <1>1, <2>2 DEF Counted, Crossing
  <2> QED BY <1>2, <2>1, <2>2
<1>8. d <= y.MyAmt BY <1>1, <1>2, Covered DEF Pushing
<1> QED BY <1>1, <1>3, <1>4, <1>5, <1>6, <1>7, <1>8 DEF Takes

LEMMA SigRevSettles ==
  ASSUME NEW x \in PlainCom, NEW y \in PlainCom, NEW s \in PlainCom, NEW k \in Nat,
         NEW q \in Seq(Messages), NEW r \in Seq(Messages),
         Pair(x, y, q, r, k), q # <<>>, Head(q).type = "SigRev", x.Delta < 0, x.Collision = 0,
         s.StateIdx = x.StateIdx + 1, s.MyAmt = x.MyAmt + x.Delta, s.Delta = 0, s.Collision = 0
  PROVE  Settles(x, s, y)
<1>1. /\ x.StateIdx \in Nat /\ x.MyAmt \in Int /\ x.Delta \in Int /\ x.Collision \in Int
      /\ y.StateIdx \in Nat /\ y.MyAmt \in Int /\ y.Delta \in Int /\ y.Collision \in Int
  BY PlainFields
<1>2. Holding(y) /\ Ahead(y, x) BY SigRevStage
<1>3. Counted(x, y) /\ ~Counted(y, x) /\ ~Counted(y, s) /\ ~Counted(s, y)
  BY <1>1, <1>2 DEF Holding, Ahead, Counted
<1>4. Owed(s) = 0 BY <1>1 DEF Owed
<1>5. s.MyAmt = x.MyAmt - Owed(x) BY <1>1, OwedAmount
<1> QED BY <1>3, <1>4, <1>5 DEF Settles

LEMMA GapSigRevSettles ==
  ASSUME NEW x \in PlainCom, NEW y \in PlainCom, NEW s \in PlainCom, NEW k \in Nat,
         NEW q \in Seq(Messages), NEW r \in Seq(Messages),
         Pair(x, y, q, r, k), q # <<>>, Head(q).type = "GapSigRev", x.Collision # 0,
         s.StateIdx = x.StateIdx + 1, s.MyAmt = x.MyAmt + x.Delta,
         s.Delta = x.Collision, s.Collision = 0
  PROVE  Settles(x, s, y)
<1>1. /\ x.StateIdx \in Nat /\ x.MyAmt \in Int /\ x.Delta \in Int /\ x.Collision \in Int
      /\ y.StateIdx \in Nat /\ y.MyAmt \in Int /\ y.Delta \in Int /\ y.Collision \in Int
  BY PlainFields
<1>2. \/ Crossing(x) /\ Crossing(y) /\ Level(x, y)
      \/ Crossing(x) /\ Holding(y) /\ Ahead(y, x)
  BY GapSigRevStage
<1>3. Counted(x, y) BY <1>1, <1>2 DEF Crossing, Counted, Ahead
<1>4. ~Counted(s, y) /\ Owed(s) = 0
  BY <1>1, <1>2 DEF Crossing, Counted, Owed
<1>5. Counted(y, s) <=> Counted(y, x)
  BY <1>1, <1>2 DEF Crossing, Holding, Counted, Level
<1>6. s.MyAmt = x.MyAmt - Owed(x) BY <1>1, <1>2, OwedAmount DEF Crossing
<1> QED BY <1>3, <1>4, <1>5, <1>6 DEF Settles

LEMMA PushOffers ==
  ASSUME NEW x \in PlainCom, NEW y \in PlainCom, NEW s \in PlainCom, NEW k \in Nat,
         NEW q \in Seq(Messages), NEW r \in Seq(Messages), NEW amt \in PushAmt, amt > 0,
         Pair(x, y, q, r, k), x.Delta = 0,
         s.StateIdx = x.StateIdx, s.MyAmt = x.MyAmt, s.Delta = - amt, s.Collision = x.Collision
  PROVE  Offers(x, s, y)
<1>1. /\ x.StateIdx \in Nat /\ x.MyAmt \in Int /\ x.Delta \in Int /\ x.Collision \in Int
      /\ y.StateIdx \in Nat /\ y.MyAmt \in Int /\ y.Delta \in Int /\ y.Collision \in Int
      /\ amt \in Nat
  BY PlainFields, BoundAssumption
<1>2. y.Collision = 0 /\ y.StateIdx # x.StateIdx + 1
  <2>1. PushStage(x, y) BY PushedStage
  <2> QED BY <1>1, <2>1 DEF PushStage, Resting, Struck, Pushing, Holding, Level, Ahead
<1>3. ~Counted(x, y) /\ ~Counted(s, y) BY <1>1, <1>2 DEF Counted
<1>4. Counted(y, s) <=> Counted(y, x) BY DEF Counted
<1>5. Owed(x) = 0 /\ Owed(s) = amt BY <1>1 DEF Owed
<1> QED BY <1>1, <1>3, <1>4, <1>5 DEF Offers

-----------------------------------------------------------------------------
(* From stored states and queues to the variables.                         *)

LEMMA PairOf ==
  ASSUME NEW n \in Node
  PROVE  /\ Stages <=> Pair(disk[n], disk[Peer(n)], net[n], net[Peer(n)], conns)
         /\ Stages' <=> Pair(disk'[n], disk'[Peer(n)], net'[n], net'[Peer(n)], conns')
<1>1. CASE n = A
  BY <1>1, NodeAssumption DEF Stages, Pair, Peer
<1>2. CASE n = B
  BY <1>2, NodeAssumption DEF Stages, Pair, Peer
<1> QED BY <1>1, <1>2 DEF Node

(* A step that keeps to the ledger until the connection breaks, and offers *)
(* nothing unless it is one of a call.                                     *)
BooksMove ==
    \E n \in Node : /\ disk'[Peer(n)] = disk[Peer(n)]
                    /\ Moves(disk[n], disk'[n], disk[Peer(n)])
LedgerKept ==
    conns' = 0 => /\ Books!LedgerNext \/ UNCHANGED Books!ledger
                  /\ call' = call => BooksMove

LEMMA TakenIsCounted ==
  ASSUME NEW n \in Node
  PROVE  /\ Taken(n) <=> Counted(disk[n], disk[Peer(n)])
         /\ (Taken(n))' <=> Counted(disk'[n], disk'[Peer(n)])
         /\ Taken(n) \in BOOLEAN /\ (Taken(n))' \in BOOLEAN
         /\ Out(n) = Owed(disk[n]) /\ (Out(n))' = Owed(disk'[n])
  BY DEF Taken, Counted, Out, Owed

LEMMA OnLedger ==
  ASSUME Inv, NEW n \in Node, NEW s \in PlainCom, disk' = [disk EXCEPT ![n] = s],
         conns = 0 => /\ OnBooks(disk[n], s, disk[Peer(n)])
                      /\ call' = call => Moves(disk[n], s, disk[Peer(n)]),
         conns' = conns
  PROVE  LedgerKept
<1>11. ASSUME conns = 0, call' = call PROVE BooksMove
  <2>1. disk'[n] = s /\ disk'[Peer(n)] = disk[Peer(n)]
    BY NodeFacts DEF Inv, Types
  <2> QED BY <1>11, <2>1 DEF BooksMove
<1> SUFFICES ASSUME conns = 0 PROVE Books!LedgerNext \/ UNCHANGED Books!ledger
  BY <1>11 DEF LedgerKept
<1> DEFINE p == Peer(n)
           x == disk[n]
           y == disk[p]
<1>1. p \in Node /\ p # n /\ Peer(p) = n /\ \A h \in Node : h = n \/ h = p
  BY NodeAssumption DEF Node, Peer
<1>2. disk'[n] = s /\ disk'[p] = y
  BY <1>1 DEF Inv, Types
<1>3. /\ Out(n) = Owed(x) /\ Out(p) = Owed(y)
      /\ (Out(n))' = Owed(s) /\ (Out(p))' = Owed(y)
  BY <1>1, <1>2, TakenIsCounted
<1>4. /\ Taken(n) <=> Counted(x, y)
      /\ Taken(p) <=> Counted(y, x)
      /\ (Taken(n))' <=> Counted(s, y)
      /\ (Taken(p))' <=> Counted(y, s)
  BY <1>1, <1>2, TakenIsCounted
<1>5. \A h \in Node : Taken(h) \in BOOLEAN /\ (Taken(h))' \in BOOLEAN
  BY TakenIsCounted
<1>6. OnBooks(x, s, y) OBVIOUS
<1> HIDE DEF x, y
<1>7. CASE Rests(x, s, y)
  <2>1. /\ (Out(n))' = Out(n) /\ (Out(p))' = Out(p)
        /\ disk'[n].MyAmt = disk[n].MyAmt /\ disk'[p].MyAmt = disk[p].MyAmt
    BY <1>2, <1>3, <1>7 DEF Rests, x, y
  <2>2. (Taken(n))' = Taken(n) /\ (Taken(p))' = Taken(p)
    BY <1>1, <1>4, <1>5, <1>7 DEF Rests
  <2>3. UNCHANGED Books!ledger
    BY <1>1, <2>1, <2>2 DEF Books!ledger
  <2> QED BY <2>3
<1> DEFINE out == [h \in Node |-> Out(h)]
           taken == [h \in Node |-> Taken(h)]
           book == [h \in Node |-> disk[h].MyAmt]
<1>8. CASE Offers(x, s, y)
  <2>1. Out(n) = 0 /\ (Out(n))' \in PushAmt \ {0} /\ (Out(p))' = Out(p)
    BY <1>3, <1>8 DEF Offers
  <2>2. (Taken(n))' = Taken(n) /\ (Taken(p))' = Taken(p)
    BY <1>1, <1>4, <1>5, <1>8 DEF Offers
  <2>3. disk'[n].MyAmt = disk[n].MyAmt /\ disk'[p].MyAmt = disk[p].MyAmt
    BY <1>2, <1>8 DEF Offers, x, y
  <2>4. out' = [out EXCEPT ![n] = (Out(n))'] BY <1>1, <2>1
  <2>5. taken' = taken BY <1>1, <2>2
  <2>6. book' = book BY <1>1, <2>3
  <2>7. Books!Offer(n) BY <1>1, <2>1, <2>4, <2>5, <2>6 DEF Books!Offer
  <2> QED BY <2>7 DEF Books!LedgerNext
<1>9. CASE Takes(x, s, y)
  <2>1. (Out(n))' = Out(n) /\ (Out(p))' = Out(p)
    BY <1>3, <1>9 DEF Takes
  <2>2. (Taken(n))' = Taken(n) /\ ~Taken(p) /\ (Taken(p))' = TRUE
    BY <1>1, <1>4, <1>5, <1>9 DEF Takes
  <2>3. disk'[n].MyAmt = disk[n].MyAmt + Out(p) /\ disk'[p].MyAmt = disk[p].MyAmt
    BY <1>2, <1>3, <1>9 DEF Takes, x, y
  <2>4. out' = out BY <1>1, <2>1
  <2>5. taken' = [taken EXCEPT ![p] = TRUE] BY <1>1, <2>2
  <2>6. book' = [book EXCEPT ![n] = book[n] + out[p]] BY <1>1, <2>3
  <2>7. out[p] \in 1 .. book[p] BY <1>1, <1>3, <1>9 DEF Takes, y
  <2>8. Books!Take(p) BY <1>1, <2>2, <2>4, <2>5, <2>6, <2>7 DEF Books!Take
  <2> QED BY <1>1, <2>8 DEF Books!LedgerNext
<1>10. CASE Settles(x, s, y)
  <2>1. (Out(n))' = 0 /\ (Out(p))' = Out(p)
    BY <1>3, <1>10 DEF Settles
  <2>2. (Taken(n))' = FALSE /\ Taken(n) /\ (Taken(p))' = Taken(p)
    BY <1>1, <1>4, <1>5, <1>10 DEF Settles
  <2>3. disk'[n].MyAmt = disk[n].MyAmt - Out(n) /\ disk'[p].MyAmt = disk[p].MyAmt
    BY <1>2, <1>3, <1>10 DEF Settles, x, y
  <2>4. out' = [out EXCEPT ![n] = 0] BY <1>1, <2>1
  <2>5. taken' = [taken EXCEPT ![n] = FALSE] BY <1>1, <2>2
  <2>6. book' = [book EXCEPT ![n] = book[n] - out[n]] BY <1>1, <2>3
  <2>7. Books!Settle(n) BY <1>1, <2>2, <2>4, <2>5, <2>6 DEF Books!Settle
  <2> QED BY <2>7 DEF Books!LedgerNext
<1> QED BY <1>6, <1>7, <1>8, <1>9, <1>10 DEF OnBooks, Moves

-----------------------------------------------------------------------------
(* The handlers.                                                           *)

(* A reply reveals the state before one that its sender has.               *)
Reply(reply) ==
    reply = <<>> \/ \E m \in Messages : /\ reply = <<m>> /\ m.type # "DeltaSig"
                                        /\ m.N2ElkPoint = m.Elk + 3

LEMMA ReplyLetters ==
  ASSUME NEW reply, Reply(reply)
  PROVE  /\ reply \in Seq(Messages)
         /\ \A i \in 1 .. Len(reply) : reply[i].N2ElkPoint = reply[i].Elk + 3
<1>1. CASE reply = <<>> BY <1>1
<1>2. CASE \E m \in Messages : reply = <<m>> /\ m.N2ElkPoint = m.Elk + 3
  <2>1. PICK m \in Messages : reply = <<m>> /\ m.N2ElkPoint = m.Elk + 3 BY <1>2
  <2> QED BY <2>1
<1> QED BY <1>1, <1>2 DEF Reply

(* The tokens after a handler of n: at most its own has changed.           *)
TokensMove(n, s) ==
    /\ \A h \in Node \ {n} : cts'[h] = cts[h]
    /\ conns = 0 => (cts'[n][1] => Resting(s))

LEMMA AnswerPair ==
  ASSUME Inv, PairInv, NEW n \in Node, NEW s \in PlainCom, NEW reply, Reply(reply),
         Answer(n, s, reply), net[n] # <<>>,
         UNCHANGED <<gen, fill, inited, call, conns>>, TokensMove(n, s),
         Pair(s, disk[Peer(n)], Tail(net[n]), net[Peer(n)] \o reply, conns),
         Points(s), 0 .. s.ElkPoint - 1 \subseteq revoked[Peer(n)]
  PROVE  PairInv'
<1> DEFINE p == Peer(n)
<1>1. p \in Node /\ p # n /\ Peer(p) = n /\ \A h \in Node : h = n \/ h = p
  BY NodeAssumption DEF Node, Peer
<1>2. disk'[n] = s /\ disk'[p] = disk[p]
  BY <1>1 DEF Answer, Save, Inv, Types
<1>3. net[n] \in Seq(Messages) /\ net[p] \in Seq(Messages) /\ reply \in Seq(Messages)
  BY <1>1, ReplyLetters DEF Inv, Types
<1>4. net'[n] = Tail(net[n]) /\ net'[p] = net[p] \o reply
  BY <1>1 DEF Answer, Inv, Types
<1>5. revoked'[p] = revoked[p] /\ revoked'[n] = revoked[n] \cup {reply[i].Elk : i \in DOMAIN reply}
  BY <1>1 DEF Answer, Inv, Types
<1> HIDE DEF p
<1>6. Stages' BY <1>1, <1>2, <1>4, PairOf DEF p
<1>7. PointsKnown' BY <1>1, <1>2 DEF PairInv, PointsKnown
<1>8. Letters'
  <2>1. ASSUME NEW i \in 1 .. Len(net'[n]), net'[n][i].type # "DeltaSig"
        PROVE  net'[n][i].Elk \in revoked'[p] /\ net'[n][i].N2ElkPoint = net'[n][i].Elk + 3
    <3>1. i + 1 \in 1 .. Len(net[n]) /\ net'[n][i] = net[n][i + 1]
      BY <1>3, <1>4
    <3> HIDE DEF p
    <3> QED BY <1>1, <1>5, <2>1, <3>1 DEF PairInv, Letters, p
  <2>2. ASSUME NEW i \in 1 .. Len(net'[p]), net'[p][i].type # "DeltaSig"
        PROVE  net'[p][i].Elk \in revoked'[n] /\ net'[p][i].N2ElkPoint = net'[p][i].Elk + 3
    <3> DEFINE z == net[p]
    <3>1. z \in Seq(Messages) /\ net'[p] = z \o reply BY <1>3, <1>4
    <3>2. CASE i \in 1 .. Len(z)
      <4>1. net'[p][i] = net[p][i] BY <1>3, <3>1, <3>2
      <4> QED BY <1>1, <1>5, <2>2, <3>2, <4>1 DEF PairInv, Letters
    <3>3. CASE i \notin 1 .. Len(z)
      <4> HIDE DEF z
      <4>1. Len(net'[p]) = Len(z) + Len(reply) /\ Len(z) \in Nat /\ Len(reply) \in Nat
        BY <1>3, <3>1
      <4> DEFINE j == i - Len(z)
      <4>2. j \in 1 .. Len(reply) BY <2>2, <3>3, <4>1
      <4>3. net'[p][i] = reply[j]
        <5>1. i \in Nat /\ i > Len(z) /\ i <= Len(z) + Len(reply) BY <2>2, <3>3, <4>1
        <5>2. (z \o reply)[i] = reply[i - Len(z)] BY <1>3, <3>1, <5>1
        <5> QED BY <3>1, <5>2
      <4>4. j \in DOMAIN reply BY <1>3, <4>2
      <4> HIDE DEF j
      <4>5. reply[j].Elk \in revoked'[n] BY <1>5, <4>4
      <4>6. reply[j].N2ElkPoint = reply[j].Elk + 3 BY <4>2, ReplyLetters
      <4> HIDE DEF p
      <4> QED BY <4>3, <4>5, <4>6, Zenon
    <3> QED BY <3>2, <3>3
  <2>3. ASSUME NEW h \in Node, NEW i \in 1 .. Len(net'[h]), net'[h][i].type # "DeltaSig"
        PROVE  net'[h][i].Elk \in revoked'[Peer(h)] /\ net'[h][i].N2ElkPoint = net'[h][i].Elk + 3
    <3>1. CASE h = n BY <2>1, <2>3, <3>1 DEF p
    <3>2. CASE h = p BY <1>1, <2>2, <2>3, <3>2
    <3> QED BY <1>1, <3>1, <3>2
  <2> QED BY <2>3, Zenon DEF Letters
<1>9. Received'
  <2>1. 0 .. disk[p].ElkPoint - 1 \subseteq revoked[n] BY <1>1 DEF PairInv, Received
  <2> QED BY <1>1, <1>2, <1>5, <2>1 DEF Received, p
<1>10. TokensSpent'
  BY <1>1, <1>2 DEF PairInv, TokensSpent, TokensMove
<1>11. Amounts' BY DEF PairInv, Amounts
<1> QED BY <1>6, <1>7, <1>8, <1>9, <1>10, <1>11 DEF PairInv

(* What a handler of n knows when it starts.                               *)
LEMMA Knowing ==
  ASSUME Inv, PairInv, NEW n \in Node
  PROVE  /\ disk[n] \in PlainCom /\ disk[Peer(n)] \in PlainCom /\ conns \in Nat
         /\ net[n] \in Seq(Messages) /\ net[Peer(n)] \in Seq(Messages)
         /\ Pair(disk[n], disk[Peer(n)], net[n], net[Peer(n)], conns)
         /\ Points(disk[n]) /\ 0 .. disk[n].ElkPoint - 1 \subseteq revoked[Peer(n)]
         /\ conns = 0 => (cts[n][1] => Resting(disk[n]))
<1>1. Peer(n) \in Node BY NodeFacts
<1>2. conns \in Nat BY BoundAssumption DEF Inv, Types
<1> QED BY <1>1, <1>2, PairOf DEF PairInv, PointsKnown, Received, TokensSpent, Inv, Types

(* A message that is refused or ignored.                                   *)
LEMMA DroppedStep ==
  ASSUME Inv, PairInv, NEW n \in Node, NEW s, Marked(disk[n], s), Answer(n, s, <<>>),
         net[n] # <<>>, UNCHANGED <<gen, fill, inited, call, conns>>,
         TokensMove(n, disk[n])
  PROVE  PairInv' /\ LedgerKept
<1> DEFINE x == disk[n]
           y == disk[Peer(n)]
           q == net[n]
           r == net[Peer(n)]
<1>1. s \in PlainCom /\ SameBooks(x, s) /\ SamePoints(x, s) BY DEF Marked
<1>2. /\ x \in PlainCom /\ y \in PlainCom /\ conns \in Nat /\ q \in Seq(Messages)
      /\ r \in Seq(Messages) /\ Pair(x, y, q, r, conns)
      /\ Points(x) /\ 0 .. x.ElkPoint - 1 \subseteq revoked[Peer(n)]
  BY Knowing
<1>3. r \o <<>> = r BY <1>2
<1> HIDE DEF x, y, q, r
<1>4. Pair(s, y, Tail(q), r, conns) BY <1>1, <1>2, Dropped DEF q
<1>5. Points(s)
  <2>1. Due(s) <=> Due(x) /\ s.StateIdx = x.StateIdx BY <1>1 DEF SameBooks, Due
  <2> QED BY <1>1, <1>2, PointsStay DEF SameBooks, Due
<1>6. 0 .. s.ElkPoint - 1 \subseteq revoked[Peer(n)] BY <1>1, <1>2 DEF SamePoints
<1>7. Reply(<<>>) BY DEF Reply
<1>8. TokensMove(n, s) BY <1>1 DEF TokensMove, SameBooks, Resting, x
<1>9. PairInv' BY <1>1, <1>3, <1>4, <1>5, <1>6, <1>7, <1>8, AnswerPair DEF y, q, r
<1>10. LedgerKept
  <2>1. Moves(x, s, y) /\ OnBooks(x, s, y) BY <1>1, <1>2, DroppedRests DEF Moves, OnBooks
  <2> QED BY <1>1, <2>1, OnLedger DEF Answer, Save, x, y
<1> QED BY <1>9, <1>10

(* A reply of at most one message, of the given type.                      *)
Of(reply, t) ==
    \/ reply = <<>>
    \/ \E m \in Messages : reply = <<m>> /\ m.type = t /\ m.N2ElkPoint = m.Elk + 3

LEMMA OfReply ==
  ASSUME NEW t, t # "DeltaSig", NEW reply, Of(reply, t)
  PROVE  Reply(reply)
  BY Zenon DEF Of, Reply

LEMMA Reached ==
  ASSUME NEW r \in Seq(Messages), NEW t, NEW reply, Of(reply, t)
  PROVE  /\ r \o reply \in Seq(Messages)
         /\ r \o reply = r \/ \E m : Sent(r, r \o reply, m) /\ m.type = t
<1>1. CASE reply = <<>> BY <1>1
<1>2. CASE \E m \in Messages : reply = <<m>> /\ m.type = t
  <2>1. PICK m \in Messages : reply = <<m>> /\ m.type = t BY <1>2
  <2>2. Sent(r, r \o reply, m) BY <2>1, Sending
  <2> QED BY <2>1, <2>2
<1> QED BY <1>1, <1>2 DEF Of

LEMMA ReplyOf ==
  ASSUME NEW st \in PlainCom
  PROVE  /\ Of(ReplyREV(st), "Rev")
         /\ st.StateIdx > 0 => /\ Of(<<SendREV(st)>>, "Rev")
                               /\ Of(<<SendSigRev(st)>>, "SigRev")
                               /\ Of(<<SendGapSigRev(st)>>, "GapSigRev")
<1>1. st.StateIdx \in Nat BY PlainFields
<1>2. st.StateIdx + 2 = (st.StateIdx - 1) + 3 BY <1>1
<1>3. ASSUME st.StateIdx > 0
      PROVE  /\ Of(<<SendREV(st)>>, "Rev")
             /\ Of(<<SendSigRev(st)>>, "SigRev")
             /\ Of(<<SendGapSigRev(st)>>, "GapSigRev")
  <2>1. SendREV(st) \in Messages /\ SendSigRev(st) \in Messages /\ SendGapSigRev(st) \in Messages
    BY <1>3, SentREV, SentSigRev DEF Reveals
  <2>2. /\ SendREV(st).type = "Rev" /\ SendREV(st).N2ElkPoint = SendREV(st).Elk + 3
        /\ SendSigRev(st).type = "SigRev" /\ SendSigRev(st).N2ElkPoint = SendSigRev(st).Elk + 3
        /\ SendGapSigRev(st).type = "GapSigRev"
        /\ SendGapSigRev(st).N2ElkPoint = SendGapSigRev(st).Elk + 3
    BY <1>2 DEF SendREV, SendSigRev, SendGapSigRev, Revoking
  <2> QED BY <2>1, <2>2, Zenon DEF Of
<1>4. Of(ReplyREV(st), "Rev")
  <2>1. CASE st.StateIdx > 0 BY <1>3, <2>1 DEF ReplyREV, CanRevoke
  <2>2. CASE ~(st.StateIdx > 0) BY <2>2 DEF ReplyREV, CanRevoke, Of
  <2> QED BY <2>1, <2>2
<1> QED BY <1>3, <1>4

LEMMA HandlerStep ==
  ASSUME Inv, PairInv, NEW n \in Node, NEW s \in PlainCom, NEW reply, NEW t, t # "DeltaSig",
         Of(reply, t), Answer(n, s, reply), net[n] # <<>>,
         UNCHANGED <<gen, fill, inited, call, conns>>, TokensMove(n, s),
         Pair(s, disk[Peer(n)], Tail(net[n]), net[Peer(n)] \o reply, conns),
         Points(s), 0 .. s.ElkPoint - 1 \subseteq revoked[Peer(n)],
         conns = 0 => Moves(disk[n], s, disk[Peer(n)])
  PROVE  PairInv' /\ LedgerKept
<1>1. PairInv' BY AnswerPair, OfReply
<1>2. LedgerKept BY OnLedger DEF Answer, Save, OnBooks
<1> QED BY <1>1, <1>2

-----------------------------------------------------------------------------
(* DeltaSigHandler.                                                        *)

LEMMA TokenTaken ==
  ASSUME NEW x \in PlainCom, NEW y \in PlainCom, NEW s \in PlainCom, NEW k \in Nat,
         NEW q \in Seq(Messages), NEW r \in Seq(Messages), NEW reply,
         NEW d \in Int, d > 0, d <= Value - x.MyAmt, Pair(x, y, q, r, k), q # <<>>, x.Delta <= 0,
         Head(q).type = "DeltaSig", Head(q).Delta = d, Resting(x) \/ k > 0, Points(x),
         Pulled(x, d, s), s.Delta = d, s.Collision = x.Collision,
         x.Collision = 0 => Of(reply, "SigRev")
  PROVE  /\ Of(reply, "SigRev") /\ Pair(s, y, Tail(q), r \o reply, k)
         /\ Points(s) /\ s.ElkPoint = x.ElkPoint
         /\ k = 0 => Moves(x, s, y)
<1>1. s.StateIdx = x.StateIdx + 1 /\ s.MyAmt = x.MyAmt + d /\ SamePoints(x, s) BY DEF Pulled
<1>2. ~Due(x) /\ x.Collision = 0
  <2>1. \E m : m.type = "SigRev"
    <3>1. [type |-> "SigRev"].type = "SigRev" OBVIOUS
    <3> QED BY <3>1
  <2> QED BY <1>1, <2>1, PushTaken
<1>3. Of(reply, "SigRev") BY <1>2
<1>4. Pair(s, y, Tail(q), r \o reply, k)
  <2> DEFINE u == r \o reply
  <2>1. u \in Seq(Messages) /\ (u = r \/ \E m : Sent(r, u, m) /\ m.type = "SigRev")
    BY <1>3, Reached
  <2> HIDE DEF u
  <2>2. Pair(s, y, Tail(q), u, k) BY <1>1, <2>1, PushTaken
  <2> QED BY <2>2 DEF u
<1>5. Due(s) BY DEF Due
<1>6. Points(s) BY <1>1, <1>2, <1>5, PointsTaken
<1>7. ASSUME k = 0 PROVE Moves(x, s, y)
  <2>1. Resting(x) BY <1>7
  <2>2. Pair(x, y, q, r, 0) BY <1>7
  <2> QED BY <1>1, <2>1, <2>2, PushTakenTakes DEF Moves
<1> QED BY <1>1, <1>3, <1>4, <1>6, <1>7 DEF SamePoints

LEMMA Collided ==
  ASSUME NEW x \in PlainCom, NEW y \in PlainCom, NEW s \in PlainCom, NEW k \in Nat,
         NEW q \in Seq(Messages), NEW r \in Seq(Messages), NEW reply,
         NEW d \in Int, d > 0, d <= Value - x.MyAmt, Pair(x, y, q, r, k), q # <<>>, x.Delta <= 0,
         Head(q).type = "DeltaSig", Head(q).Delta = d, Points(x),
         Pulled(x, d, s), s.Delta = x.Delta, s.Collision = d, Of(reply, "GapSigRev")
  PROVE  /\ Pair(s, y, Tail(q), r \o reply, k)
         /\ Points(s) /\ s.ElkPoint = x.ElkPoint
         /\ k = 0 => Moves(x, s, y)
<1>1. s.StateIdx = x.StateIdx + 1 /\ s.MyAmt = x.MyAmt + d /\ SamePoints(x, s) BY DEF Pulled
<1>2. Pair(s, y, Tail(q), r \o reply, k) /\ ~Due(x)
  <2> DEFINE u == r \o reply
  <2>1. u \in Seq(Messages) /\ (u = r \/ \E m : Sent(r, u, m) /\ m.type = "GapSigRev")
    BY Reached
  <2> HIDE DEF u
  <2>2. Pair(s, y, Tail(q), u, k) /\ ~Due(x) BY <1>1, <2>1, PushCollides
  <2> QED BY <2>2 DEF u
<1>3. Due(s) BY DEF Due
<1>4. Points(s) BY <1>1, <1>2, <1>3, PointsTaken
<1>5. ASSUME k = 0 PROVE Moves(x, s, y)
  <2>1. Pair(x, y, q, r, 0) BY <1>5
  <2> QED BY <1>1, <2>1, PushCollidesTakes DEF Moves
<1> QED BY <1>1, <1>2, <1>4, <1>5 DEF SamePoints

(* The token that DeltaSigHandler takes.                                   *)
LEMMA TakenToken ==
  ASSUME Inv, PairInv, NEW n \in Node, TakeCts(n, gen[n]), NEW s
  PROVE  TokensMove(n, s)
<1>1. gen[n] \in Gen /\ 1 \in Gen /\ (conns = 0 => gen[n] = 1)
  BY GenFacts DEF Inv, Types, PairInv, TokensSpent
<1>2. \A h \in Node \ {n} : cts'[h] = cts[h] BY DEF TakeCts, Inv, Types
<1>3. conns = 0 => ~cts'[n][1] BY <1>1 DEF TakeCts, Inv, Types
<1> QED BY <1>2, <1>3 DEF TokensMove

LEMMA KeptToken ==
  ASSUME Inv, PairInv, NEW n \in Node, UNCHANGED cts, NEW s, Resting(s) <=> Resting(disk[n])
  PROVE  TokensMove(n, s)
  BY Knowing DEF TokensMove

(* A push is accepted, and answered if the answer can be built.            *)
LEMMA Accepted ==
  ASSUME Inv, PairInv, NEW n \in Node, Receiving(n, "DeltaSig"), TakeCts(n, gen[n]),
         UNCHANGED <<gen, fill, inited, call, conns>>, NEW c \in BOOLEAN, c = ~cts[n][gen[n]],
         NEW new, NEW s, Marked(new, s), NEW reply, Answer(n, s, reply),
         disk[n].Delta <= 0,
         DeltaSigOK(Seen(disk[n], Head(net[n]).Delta, c), Head(net[n]).Delta, Head(net[n]).Sig, c),
         new = DeltaSigSaved(disk[n], Seen(disk[n], Head(net[n]).Delta, c),
                             Head(net[n]).Delta, Head(net[n]).Sig, c),
         Of(reply, IF new.Collision # 0 THEN "GapSigRev" ELSE "SigRev")
  PROVE  PairInv' /\ LedgerKept
<1> DEFINE x == disk[n]
           y == disk[Peer(n)]
           q == net[n]
           r == net[Peer(n)]
           d == Head(q).Delta
<1>1. d \in Int /\ Head(q).Sig \in Tx /\ Head(q).type = "DeltaSig" /\ q # <<>>
  BY HeadMessage, MessageFields
<1>2. /\ x \in PlainCom /\ y \in PlainCom /\ conns \in Nat /\ q \in Seq(Messages)
      /\ r \in Seq(Messages) /\ Pair(x, y, q, r, conns)
      /\ Points(x) /\ 0 .. x.ElkPoint - 1 \subseteq revoked[Peer(n)]
  BY Knowing
<1>3. /\ new \in PlainCom /\ Pulled(x, d, new)
      /\ c => new.Delta = x.Delta /\ new.Collision = d
      /\ ~c => new.Delta = d /\ new.Collision = x.Collision
  <2>1. PulledBy(x, d, c, DeltaSigSaved(x, Seen(x, d, c), d, Head(q).Sig, c))
    BY <1>1, <1>2, PulledFields, Zenon
  <2>2. PulledBy(x, d, c, new) BY <2>1, Zenon
  <2> HIDE DEF x, d
  <2> QED BY <2>2, Zenon DEF PulledBy
<1>4. d > 0 /\ d <= Value - x.MyAmt BY <1>1, <1>2, PulledCovered
<1>5. ~c => Resting(x) \/ conns > 0
  <2>1. ~c /\ conns = 0 => cts[n][1] BY DEF PairInv, TokensSpent
  <2>2. conns = 0 \/ conns > 0 BY <1>2
  <2> QED BY <2>1, <2>2, Knowing
<1>6. TokensMove(n, s) BY TakenToken
<1>7. s \in PlainCom /\ s.Delta = new.Delta /\ s.Collision = new.Collision /\ Pulled(x, d, s)
  BY <1>3 DEF Marked, SameBooks, SamePoints, Pulled
<1>8. x.Delta <= 0 OBVIOUS
<1> HIDE DEF x, y, q, r, d
<1>9. CASE ~c
  <2>1. x.Collision = 0 => Of(reply, "SigRev") BY <1>3, <1>9
  <2>2. s.Delta = d /\ s.Collision = x.Collision BY <1>3, <1>7, <1>9
  <2>3. /\ Of(reply, "SigRev") /\ Pair(s, y, Tail(q), r \o reply, conns)
        /\ Points(s) /\ s.ElkPoint = x.ElkPoint
        /\ conns = 0 => Moves(x, s, y)
    BY <1>1, <1>2, <1>4, <1>5, <1>7, <1>8, <1>9, <2>1, <2>2, TokenTaken DEF d
  <2>4. 0 .. s.ElkPoint - 1 \subseteq revoked[Peer(n)] BY <1>2, <2>3
  <2> QED BY <1>1, <1>6, <1>7, <2>3, <2>4, HandlerStep DEF x, y, q, r
<1>10. CASE c
  <2>1. Of(reply, "GapSigRev")
    <3>1. new.Collision # 0 BY <1>1, <1>3, <1>4, <1>10
    <3> QED BY <3>1
  <2>2. s.Delta = x.Delta /\ s.Collision = d BY <1>3, <1>7, <1>10
  <2>3. /\ Pair(s, y, Tail(q), r \o reply, conns)
        /\ Points(s) /\ s.ElkPoint = x.ElkPoint
        /\ conns = 0 => Moves(x, s, y)
    BY <1>1, <1>2, <1>4, <1>7, <1>8, <2>1, <2>2, Collided DEF d
  <2>4. 0 .. s.ElkPoint - 1 \subseteq revoked[Peer(n)] BY <1>2, <2>3
  <2> QED BY <1>1, <1>6, <1>7, <2>1, <2>3, <2>4, HandlerStep DEF x, y, q, r
<1> QED BY <1>9, <1>10

(* A push that comes before the last Rev, or a Rev that meets a push: the  *)
(* last Rev is sent again.                                                 *)
LEMMA RevAgain ==
  ASSUME Inv, PairInv, NEW n \in Node, net[n] # <<>>,
         UNCHANGED <<gen, fill, inited, call, conns>>, TokensMove(n, disk[n]),
         NEW reply, Of(reply, "Rev"), Answer(n, disk[n], reply),
         \/ Head(net[n]).type = "DeltaSig" /\ disk[n].Delta > 0
         \/ Head(net[n]).type = "Rev" /\ disk[n].Delta < 0
  PROVE  PairInv' /\ LedgerKept
<1> DEFINE x == disk[n]
           y == disk[Peer(n)]
           q == net[n]
           r == net[Peer(n)]
           u == r \o reply
<1>1. /\ x \in PlainCom /\ y \in PlainCom /\ conns \in Nat /\ q \in Seq(Messages)
      /\ r \in Seq(Messages) /\ Pair(x, y, q, r, conns)
      /\ Points(x) /\ 0 .. x.ElkPoint - 1 \subseteq revoked[Peer(n)]
  BY Knowing
<1>2. u \in Seq(Messages) /\ (u = r \/ \E m : Sent(r, u, m) /\ m.type = "Rev")
  BY <1>1, Reached
<1>3. SameBooks(x, x) BY DEF SameBooks
<1>4. q # <<>> OBVIOUS
<1> HIDE DEF x, y, q, r, u
<1>5. Pair(x, y, Tail(q), u, conns)
  <2>1. CASE Head(q).type = "DeltaSig" /\ x.Delta > 0
    BY <1>1, <1>2, <1>3, <1>4, <2>1, PushTooEarly
  <2>2. CASE Head(q).type = "Rev" /\ x.Delta < 0
    BY <1>1, <1>2, <1>3, <1>4, <2>2, RevAsked
  <2> QED BY <2>1, <2>2 DEF x, q
<1>6. Moves(x, x, y) BY <1>1, <1>3, DroppedRests DEF Moves
<1> QED BY <1>1, <1>5, <1>6, HandlerStep DEF x, y, q, r, u

(* DeltaSigHandler.                                                        *)
LEMMA DeltaSigPair ==
  ASSUME Inv, PairInv, NEW n \in Node, DeltaSigHandler(n)
  PROVE  PairInv' /\ LedgerKept
<1> DEFINE m == Head(net[n])
           c == ~cts[n][gen[n]]
           x == disk[n]
           seen == Seen(x, m.Delta, c)
           new == DeltaSigSaved(x, seen, m.Delta, m.Sig, c)
<1>1. /\ Receiving(n, "DeltaSig") /\ TakeCts(n, gen[n])
      /\ UNCHANGED <<gen, fill, inited, call, conns>>
  BY DEF DeltaSigHandler, env
<1>2. m.Delta \in Int /\ m.Sig \in Tx /\ m.type = "DeltaSig" /\ c \in BOOLEAN /\ net[n] # <<>>
  BY <1>1, HeadMessage, MessageFields DEF Inv, Types
<1>3. \/ Answer(n, x, <<>>) \/ Answer(n, FailChannel(x), <<>>)
      \/ seen.Delta > 0 /\ Answer(n, x, ReplyREV(seen))
      \/ /\ seen.Delta <= 0 /\ DeltaSigOK(seen, m.Delta, m.Sig, c)
         /\ IF DeltaSigGap(new)
            THEN AnswerSigned(n, new, GapSigRevState(new), SendGapSigRev(new))
            ELSE AnswerSigned(n, new, SigRevState(new), SendSigRev(new))
  BY Zenon DEF DeltaSigHandler, Seen, Ignore, Fail
<1>4. x \in PlainCom BY DEF Inv, Types
<1>5. seen.Delta = x.Delta /\ seen \in PlainCom
  <2>1. seen = [x EXCEPT !.Collision = IF c THEN m.Delta ELSE @] BY <1>2, <1>4, PlainSeen, Zenon
  <2>2. seen \in PlainCom BY <1>2, <1>4, PlainSeen, Zenon
  <2> HIDE DEF seen, x
  <2> QED BY <1>4, <2>1, <2>2 DEF PlainCom
<1>6. \A s : TokensMove(n, s) BY <1>1, TakenToken
<1>7. CASE Answer(n, x, <<>>) \/ Answer(n, FailChannel(x), <<>>)
  BY <1>1, <1>2, <1>4, <1>6, <1>7, MarkedSame, DroppedStep
<1>8. CASE seen.Delta > 0 /\ Answer(n, x, ReplyREV(seen))
  <2>1. Of(ReplyREV(seen), "Rev") BY <1>5, ReplyOf
  <2> HIDE DEF seen
  <2> QED BY <1>1, <1>2, <1>5, <1>6, <1>8, <2>1, RevAgain
<1>9. CASE /\ seen.Delta <= 0 /\ DeltaSigOK(seen, m.Delta, m.Sig, c)
           /\ IF DeltaSigGap(new)
              THEN AnswerSigned(n, new, GapSigRevState(new), SendGapSigRev(new))
              ELSE AnswerSigned(n, new, SigRevState(new), SendSigRev(new))
  <2>1. new \in PlainCom /\ new.StateIdx = x.StateIdx + 1
    <3>1. PulledBy(x, m.Delta, c, new) BY <1>2, <1>4, PulledFields, Zenon
    <3> HIDE DEF x, new, c, m
    <3> QED BY <3>1, Zenon DEF PulledBy, Pulled
  <2>2. new.StateIdx > 0 BY <1>4, <2>1, PlainFields
  <2>3. new.Colliding = {} BY <2>1, PlainFields
  <2>4. DeltaSigGap(new) <=> new.Collision # 0 BY <2>3 DEF DeltaSigGap
  <2> DEFINE t == IF new.Collision # 0 THEN "GapSigRev" ELSE "SigRev"
  <2>5. PICK s, reply : Marked(new, s) /\ Answer(n, s, reply) /\ Of(reply, t)
    <3>1. Of(<<SendSigRev(new)>>, "SigRev") /\ Of(<<SendGapSigRev(new)>>, "GapSigRev")
      BY <2>1, <2>2, ReplyOf, Zenon
    <3>2. Of(<<>>, t) BY DEF Of
    <3>3. Marked(new, new) /\ Marked(new, FailChannel(new)) BY <2>1, MarkedSame, Zenon
    <3>4. \/ new.Collision # 0 /\ AnswerSigned(n, new, GapSigRevState(new), SendGapSigRev(new))
          \/ new.Collision = 0 /\ AnswerSigned(n, new, SigRevState(new), SendSigRev(new))
      BY <1>9, <2>4
    <3> HIDE DEF new
    <3> QED BY <3>1, <3>2, <3>3, <3>4, Zenon DEF AnswerSigned
  <2>6. x.Delta <= 0 BY <1>5, <1>9
  <2> HIDE DEF t
  <2> QED BY <1>1, <1>2, <1>9, <2>5, <2>6, Accepted, Zenon DEF t
<1> QED BY <1>3, <1>7, <1>8, <1>9

-----------------------------------------------------------------------------
(* The messages that carry a revocation.                                   *)

LEMMA HeadReveals ==
  ASSUME Inv, PairInv, NEW n \in Node, net[n] # <<>>, Head(net[n]).type # "DeltaSig"
  PROVE  Head(net[n]).Elk \in revoked[Peer(n)] /\ Head(net[n]).N2ElkPoint = Head(net[n]).Elk + 3
<1>1. net[n] \in Seq(Messages) BY DEF Inv, Types
<1>2. 1 \in 1 .. Len(net[n]) /\ net[n][1] = Head(net[n]) BY <1>1
<1> QED BY <1>2 DEF PairInv, Letters

(* A revocation of the newest point is taken.                              *)
LEMMA Advanced ==
  ASSUME Inv, PairInv, NEW n \in Node, NEW s \in PlainCom, NEW m, m = Head(net[n]),
         net[n] # <<>>, m.type # "DeltaSig", m.Elk = disk[n].ElkPoint, NextPoints(disk[n], s, m),
         \/ s.StateIdx = disk[n].StateIdx + 1 /\ (Due(s) <=> Due(disk[n]))
         \/ s.StateIdx = disk[n].StateIdx /\ Due(disk[n]) /\ ~Due(s)
  PROVE  Points(s) /\ 0 .. s.ElkPoint - 1 \subseteq revoked[Peer(n)]
<1> DEFINE x == disk[n]
<1>1. x \in PlainCom /\ Points(x) /\ 0 .. x.ElkPoint - 1 \subseteq revoked[Peer(n)] BY Knowing
<1>2. x.ElkPoint \in Nat BY <1>1, PlainFields
<1>3. m.Elk \in revoked[Peer(n)] /\ m.N2ElkPoint = m.Elk + 3 BY HeadReveals
<1>4. m.Elk = x.ElkPoint /\ NextPoints(x, s, m) OBVIOUS
<1>5. \/ s.StateIdx = x.StateIdx + 1 /\ (Due(s) <=> Due(x))
      \/ s.StateIdx = x.StateIdx /\ Due(x) /\ ~Due(s)
  OBVIOUS
<1> HIDE DEF x
<1>6. Points(s) /\ s.ElkPoint = x.ElkPoint + 1 BY <1>1, <1>3, <1>4, <1>5, PointsNext
<1>7. \A i \in 0 .. s.ElkPoint - 1 : i \in 0 .. x.ElkPoint - 1 \/ i = x.ElkPoint BY <1>2, <1>6
<1> QED BY <1>1, <1>3, <1>4, <1>6, <1>7

LEMMA FailedStep ==
  ASSUME Inv, PairInv, NEW n \in Node, Fail(n) \/ Ignore(n), net[n] # <<>>,
         UNCHANGED <<gen, cts, fill, inited, call, conns>>
  PROVE  PairInv' /\ LedgerKept
<1>1. Marked(disk[n], disk[n]) /\ Marked(disk[n], FailChannel(disk[n]))
  BY MarkedSame DEF Inv, Types
<1>2. TokensMove(n, disk[n]) BY KeptToken
<1> QED BY <1>1, <1>2, DroppedStep DEF Fail, Ignore

(* A GapSigRev is accepted.                                                *)
LEMMA GapAccepted ==
  ASSUME Inv, PairInv, NEW n \in Node, Receiving(n, "GapSigRev"),
         UNCHANGED <<gen, cts, fill, inited, call, conns>>,
         NEW m, m = Head(net[n]), disk[n].Collision # 0, GapSigRevOK(disk[n], m),
         NEW s, s = GapSigRevSaved(disk[n], m), Answer(n, s, <<SendREV(s)>>)
  PROVE  PairInv' /\ LedgerKept
<1> DEFINE x == disk[n]
           y == disk[Peer(n)]
           q == net[n]
           r == net[Peer(n)]
           u == r \o <<SendREV(s)>>
<1>1. /\ x \in PlainCom /\ y \in PlainCom /\ conns \in Nat /\ q \in Seq(Messages)
      /\ r \in Seq(Messages) /\ Pair(x, y, q, r, conns)
      /\ Points(x) /\ 0 .. x.ElkPoint - 1 \subseteq revoked[Peer(n)]
      /\ conns = 0 => (cts[n][1] => Resting(x))
  BY Knowing
<1>2. m.Sig \in Tx /\ RevPart(m) /\ m.type = "GapSigRev" /\ q # <<>>
  BY HeadMessage, MessageFields
<1>3. /\ s \in PlainCom
      /\ s.StateIdx = x.StateIdx + 1 /\ s.MyAmt = x.MyAmt + x.Delta
      /\ s.Delta = x.Collision /\ s.Collision = 0 /\ NextPoints(x, s, m)
  BY <1>1, <1>2, PlainGapSigRev DEF NextPoints
<1>4. IngestElkrem(x, m.Elk) BY DEF GapSigRevOK
<1>5. x.Collision # 0 OBVIOUS
<1>6. s.StateIdx > 0 BY <1>1, <1>3, PlainFields
<1>7. Of(<<SendREV(s)>>, "Rev") BY <1>3, <1>6, ReplyOf
<1>8. u \in Seq(Messages) /\ \E w : Sent(r, u, w) /\ w.type = "Rev"
  BY <1>1, <1>7, Sending DEF Of
<1>9. m = Head(q) OBVIOUS
<1> HIDE DEF x, y, q, r, u
<1>10. Due(x) /\ m.Elk = x.ElkPoint
  <2>1. Due(x) BY <1>5 DEF Due
  <2>2. x.StateIdx > 0 /\ x.StateIdx \in Nat BY <1>1, <2>1, PlainFields DEF Points
  <2> QED BY <1>4, <2>1, <2>2 DEF IngestElkrem
<1>11. Pair(s, y, Tail(q), u, conns) /\ s.Delta > 0
  BY <1>1, <1>2, <1>3, <1>5, <1>8, <1>9, GapSigRevTaken
<1>12. Moves(x, s, y)
  BY <1>1, <1>2, <1>3, <1>5, <1>9, GapSigRevSettles DEF Moves
<1>13. Points(s) /\ 0 .. s.ElkPoint - 1 \subseteq revoked[Peer(n)]
  <2>1. Due(s) BY <1>11 DEF Due
  <2> QED BY <1>2, <1>3, <1>9, <1>10, <2>1, Advanced DEF x, q
<1>14. TokensMove(n, s)
  <2>1. ~Resting(x) BY <1>5 DEF Resting
  <2> QED BY <1>1, <2>1 DEF TokensMove
<1> QED BY <1>2, <1>3, <1>7, <1>11, <1>12, <1>13, <1>14, HandlerStep DEF x, y, q, r, u

(* GapSigRevHandler.                                                       *)
LEMMA GapSigRevPair ==
  ASSUME Inv, PairInv, NEW n \in Node, GapSigRevHandler(n)
  PROVE  PairInv' /\ LedgerKept
<1> DEFINE m == Head(net[n])
           s == GapSigRevSaved(disk[n], m)
<1>1. /\ Receiving(n, "GapSigRev") /\ net[n] # <<>>
      /\ UNCHANGED <<gen, cts, fill, inited, call, conns>>
  BY DEF GapSigRevHandler, env, ram, Receiving
<1>2. \/ Fail(n)
      \/ /\ GapSigRevExpected(disk[n]) /\ GapSigRevOK(disk[n], m)
         /\ Answer(n, s, <<SendREV(s)>>)
  BY Zenon DEF GapSigRevHandler
<1>3. GapSigRevExpected(disk[n]) => disk[n].Collision # 0
  <2>1. disk[n] \in PlainCom BY DEF Inv, Types
  <2> QED BY <2>1, PlainFields DEF GapSigRevExpected
<1> HIDE DEF m, s
<1> QED BY <1>1, <1>2, <1>3, FailedStep, GapAccepted, Zenon DEF m, s

(* The token that comes back with the last message of an update.           *)
LEMMA TokenBack ==
  ASSUME Inv, NEW n \in Node, NEW s, Resting(s), AssertClearToSend(n)
  PROVE  TokensMove(n, s)
<1>1. \A h \in Node \ {n} : cts'[h] = cts[h] BY DEF AssertClearToSend, Inv, Types
<1> QED BY <1>1 DEF TokensMove

(* A SigRev is accepted.                                                   *)
LEMMA SigRevAccepted ==
  ASSUME Inv, PairInv, NEW n \in Node, Receiving(n, "SigRev"),
         UNCHANGED <<gen, fill, inited, call, conns>>, AssertClearToSend(n),
         NEW m, m = Head(net[n]), disk[n].Delta < 0, disk[n].Collision = 0, SigRevOK(disk[n], m),
         NEW s, s = SigRevSaved(disk[n], m), Answer(n, s, <<SendREV(s)>>)
  PROVE  PairInv' /\ LedgerKept
<1> DEFINE x == disk[n]
           y == disk[Peer(n)]
           q == net[n]
           r == net[Peer(n)]
           u == r \o <<SendREV(s)>>
<1>1. /\ x \in PlainCom /\ y \in PlainCom /\ conns \in Nat /\ q \in Seq(Messages)
      /\ r \in Seq(Messages) /\ Pair(x, y, q, r, conns)
      /\ Points(x) /\ 0 .. x.ElkPoint - 1 \subseteq revoked[Peer(n)]
  BY Knowing
<1>2. m.Sig \in Tx /\ RevPart(m) /\ m.type = "SigRev" /\ q # <<>>
  BY HeadMessage, MessageFields
<1>3. /\ s \in PlainCom
      /\ s.StateIdx = x.StateIdx + 1 /\ s.MyAmt = x.MyAmt + x.Delta
      /\ s.Delta = 0 /\ s.Collision = x.Collision /\ NextPoints(x, s, m)
  BY <1>1, <1>2, PushedFields
<1>4. m.Elk = x.ElkPoint BY <1>1, SigRevOpens
<1>5. x.Delta < 0 /\ x.Collision = 0 OBVIOUS
<1>6. s.StateIdx > 0 BY <1>1, <1>3, PlainFields
<1>7. Of(<<SendREV(s)>>, "Rev") BY <1>3, <1>6, ReplyOf
<1>8. u \in Seq(Messages) /\ \E w : Sent(r, u, w) /\ w.type = "Rev"
  BY <1>1, <1>7, Sending DEF Of
<1>9. m = Head(q) OBVIOUS
<1> HIDE DEF x, y, q, r, u
<1>10. ~Due(x) /\ ~Due(s) /\ Resting(s)
  <2>1. x.Delta \in Int BY <1>1, PlainFields
  <2> QED BY <1>3, <1>5, <2>1 DEF Due, Resting
<1>11. Pair(s, y, Tail(q), u, conns)
  BY <1>1, <1>2, <1>3, <1>5, <1>8, <1>9, SigRevTaken
<1>12. Moves(x, s, y)
  BY <1>1, <1>2, <1>3, <1>5, <1>9, SigRevSettles DEF Moves
<1>13. Points(s) /\ 0 .. s.ElkPoint - 1 \subseteq revoked[Peer(n)]
  BY <1>2, <1>3, <1>4, <1>9, <1>10, Advanced DEF x, q
<1>14. TokensMove(n, s) BY <1>10, TokenBack
<1> QED BY <1>2, <1>3, <1>7, <1>11, <1>12, <1>13, <1>14, HandlerStep DEF x, y, q, r, u

(* SigRevHandler.                                                          *)
LEMMA SigRevPair ==
  ASSUME Inv, PairInv, NEW n \in Node, SigRevHandler(n)
  PROVE  PairInv' /\ LedgerKept
<1> DEFINE m == Head(net[n])
           st == disk[n]
           s == SigRevSaved(st, m)
<1>1. /\ Receiving(n, "SigRev") /\ net[n] # <<>>
      /\ UNCHANGED <<gen, fill, inited, call, conns>>
  BY DEF SigRevHandler, env, Receiving
<1>2. st \in PlainCom BY DEF Inv, Types
<1>3. ~NothingPending(st)
  <2>1. st.Delta # 0 BY <1>1, HeadMessage, Knowing, SigRevWanted
  <2> QED BY <2>1 DEF NothingPending
<1>4. \/ Fail(n) /\ UNCHANGED <<cts, stuck>>
      \/ /\ st.Delta <= 0 /\ SigRevExpected(st) /\ SigRevOK(st, m)
         /\ Answer(n, s, <<SendREV(s)>>) /\ AssertClearToSend(n)
  BY <1>3, Zenon DEF SigRevHandler
<1>5. st.Delta <= 0 => st.Delta < 0
  <2>1. st.Delta # 0 BY <1>1, HeadMessage, Knowing, SigRevWanted
  <2>2. st.Delta \in Int BY <1>2, PlainFields
  <2> QED BY <2>1, <2>2
<1>6. SigRevExpected(st) => st.Collision = 0 BY DEF SigRevExpected
<1>7. CASE Fail(n) /\ UNCHANGED <<cts, stuck>>
  BY <1>1, <1>7, FailedStep
<1>8. CASE /\ st.Delta <= 0 /\ SigRevExpected(st) /\ SigRevOK(st, m)
           /\ Answer(n, s, <<SendREV(s)>>) /\ AssertClearToSend(n)
  <2> HIDE DEF m, s
  <2> QED BY <1>1, <1>5, <1>6, <1>8, SigRevAccepted, Zenon DEF m, s
<1> QED BY <1>4, <1>7, <1>8

(* The last Rev is accepted.                                               *)
LEMMA RevAccepted ==
  ASSUME Inv, PairInv, raced = {}, NEW n \in Node, Receiving(n, "Rev"),
         UNCHANGED <<gen, fill, inited, call, conns>>, AssertClearToSend(n),
         NEW m, m = Head(net[n]), disk[n].Delta > 0, IngestElkrem(disk[n], m.Elk),
         NEW s, s = RevSaved(disk[n], m), Answer(n, s, <<>>)
  PROVE  PairInv' /\ LedgerKept
<1> DEFINE x == disk[n]
           y == disk[Peer(n)]
           q == net[n]
           r == net[Peer(n)]
<1>1. /\ x \in PlainCom /\ y \in PlainCom /\ conns \in Nat /\ q \in Seq(Messages)
      /\ r \in Seq(Messages) /\ Pair(x, y, q, r, conns)
      /\ Points(x) /\ 0 .. x.ElkPoint - 1 \subseteq revoked[Peer(n)]
  BY Knowing
<1>2. RevPart(m) /\ m.type = "Rev" /\ q # <<>>
  BY HeadMessage, MessageFields
<1>3. /\ s \in PlainCom
      /\ s.StateIdx = x.StateIdx /\ s.MyAmt = x.MyAmt
      /\ s.Delta = 0 /\ s.Collision = x.Collision /\ NextPoints(x, s, m)
  BY <1>1, <1>2, PlainRev DEF NextPoints
<1>4. x.Delta > 0 /\ IngestElkrem(x, m.Elk) OBVIOUS
<1>5. r \o <<>> = r BY <1>1
<1>6. m = Head(q) OBVIOUS
<1>7. m.Elk \in revoked[Peer(n)] BY <1>2, HeadReveals
<1>8. m.Elk < y.StateIdx BY <1>7, NodeFacts DEF Inv, Revocations, RevocationSafety
<1> HIDE DEF x, y, q, r
<1>9. Due(x) /\ m.Elk = x.ElkPoint /\ x.StateIdx - 1 < y.StateIdx
  <2>1. Due(x) BY <1>4 DEF Due
  <2>2. x.StateIdx > 0 /\ x.StateIdx \in Nat /\ x.ElkPoint = x.StateIdx - 1
    BY <1>1, <2>1, PlainFields DEF Points
  <2> QED BY <1>4, <1>8, <2>1, <2>2 DEF IngestElkrem
<1>10. Pair(s, y, Tail(q), r, conns) /\ Resting(s)
  BY <1>1, <1>2, <1>3, <1>4, <1>6, <1>9, RevTaken
<1>11. Moves(x, s, y) BY <1>1, <1>3, <1>4, RevRests DEF Moves
<1>12. Points(s) /\ 0 .. s.ElkPoint - 1 \subseteq revoked[Peer(n)]
  <2>1. ~Due(s)
    <3>1. s.Delta = 0 /\ s.Collision = 0 BY <1>10 DEF Resting
    <3> QED BY <3>1 DEF Due
  <2> QED BY <1>2, <1>3, <1>6, <1>9, <2>1, Advanced DEF x, q
<1>13. TokensMove(n, s) BY <1>10, TokenBack
<1>14. Of(<<>>, "Rev") BY DEF Of
<1> QED BY <1>2, <1>3, <1>5, <1>10, <1>11, <1>12, <1>13, <1>14, HandlerStep DEF x, y, q, r

(* RevHandler.                                                             *)
LEMMA RevPair ==
  ASSUME Inv, PairInv, raced = {}, NEW n \in Node, RevHandler(n)
  PROVE  PairInv' /\ LedgerKept
<1> DEFINE m == Head(net[n])
           st == disk[n]
           s == RevSaved(st, m)
<1>1. /\ Receiving(n, "Rev") /\ net[n] # <<>> /\ m.type = "Rev"
      /\ UNCHANGED <<gen, fill, inited, call, conns>>
  BY DEF RevHandler, env, Receiving
<1>2. st \in PlainCom /\ st.Delta \in Int BY PlainFields DEF Inv, Types
<1>3. \/ (Fail(n) \/ Ignore(n)) /\ UNCHANGED cts
      \/ st.Delta < 0 /\ Answer(n, st, ReplyREV(st)) /\ UNCHANGED cts
      \/ /\ ~NothingPending(st) /\ st.Delta >= 0 /\ IngestElkrem(st, m.Elk)
         /\ Answer(n, s, <<>>) /\ AssertClearToSend(n)
  BY Zenon DEF RevHandler, HangOnMultihop
<1>4. ~NothingPending(st) => st.Delta # 0
  BY <1>2, PlainFields, PlainHTLCs DEF NothingPending
<1>5. CASE (Fail(n) \/ Ignore(n)) /\ UNCHANGED cts
  BY <1>1, <1>5, FailedStep
<1>6. CASE st.Delta < 0 /\ Answer(n, st, ReplyREV(st)) /\ UNCHANGED cts
  <2>1. Of(ReplyREV(st), "Rev") BY <1>2, ReplyOf
  <2>2. TokensMove(n, st) BY <1>6, KeptToken
  <2> HIDE DEF m
  <2> QED BY <1>1, <1>6, <2>1, <2>2, RevAgain DEF m
<1>7. CASE /\ ~NothingPending(st) /\ st.Delta >= 0 /\ IngestElkrem(st, m.Elk)
           /\ Answer(n, s, <<>>) /\ AssertClearToSend(n)
  <2>1. st.Delta > 0 BY <1>2, <1>4, <1>7
  <2> HIDE DEF m, s
  <2> QED BY <1>1, <1>7, <2>1, RevAccepted, Zenon DEF m, s
<1> QED BY <1>3, <1>5, <1>6, <1>7

-----------------------------------------------------------------------------
(* The calls of PushChannel.                                               *)

(* One stored state changes, and the messages to the other side at most.   *)
LEMMA CallStores ==
  ASSUME Inv, PairInv, NEW n \in Node, NEW s \in PlainCom, disk' = [disk EXCEPT ![n] = s],
         UNCHANGED <<gen, fill, inited, conns, revoked>>, TokensMove(n, s), Amounts', Letters',
         Pair(s, disk[Peer(n)], net'[n], net'[Peer(n)], conns),
         Points(s), 0 .. s.ElkPoint - 1 \subseteq revoked[Peer(n)],
         OnBooks(disk[n], s, disk[Peer(n)]), call' = call => Moves(disk[n], s, disk[Peer(n)])
  PROVE  PairInv' /\ LedgerKept
<1> DEFINE p == Peer(n)
<1>1. p \in Node /\ p # n /\ Peer(p) = n /\ \A h \in Node : h = n \/ h = p
  BY NodeAssumption DEF Node, Peer
<1>2. disk'[n] = s /\ disk'[p] = disk[p]
  BY <1>1 DEF Inv, Types
<1> HIDE DEF p
<1>3. Stages' BY <1>1, <1>2, PairOf DEF p
<1>4. PointsKnown' BY <1>1, <1>2 DEF PairInv, PointsKnown
<1>5. Received' BY <1>1, <1>2 DEF PairInv, Received, p
<1>6. TokensSpent'
  BY <1>1, <1>2 DEF PairInv, TokensSpent, TokensMove
<1>7. LedgerKept BY OnLedger
<1> QED BY <1>3, <1>4, <1>5, <1>6, <1>7 DEF PairInv

LEMMA Unmoved ==
  ASSUME NEW x \in PlainCom, NEW y \in PlainCom, NEW s \in PlainCom,
         NEW q \in Seq(Messages), NEW r \in Seq(Messages), NEW k \in Nat,
         Pair(x, y, q, r, k), SameBooks(x, s)
  PROVE  Pair(s, y, q, r, k)
<1>1. /\ Resting(s) <=> Resting(x)
      /\ Pushing(s) <=> Pushing(x)
      /\ Holding(s) <=> Holding(x)
      /\ Crossing(s) <=> Crossing(x)
      /\ Struck(s) <=> Struck(x)
  BY DEF SameBooks, Resting, Pushing, Holding, Crossing, Struck
<1>2. /\ Level(s, y) <=> Level(x, y)
      /\ Level(y, s) <=> Level(y, x)
      /\ Ahead(s, y) <=> Ahead(x, y)
      /\ Ahead(y, s) <=> Ahead(y, x)
      /\ Even(s, y) <=> Even(x, y)
      /\ Even(y, s) <=> Even(y, x)
      /\ Twice(s, y) <=> Twice(x, y)
      /\ Twice(y, s) <=> Twice(y, x)
  BY DEF SameBooks, Level, Ahead, Even, Twice
<1>3. \A z : PushOf(z, s) <=> PushOf(z, x)
  BY DEF SameBooks, PushOf
<1>4. s.MyAmt = x.MyAmt /\ s.Delta = x.Delta /\ s.Collision = x.Collision
  BY DEF SameBooks
<1>5. ASSUME Stage(x, y, q, r, k) PROVE Stage(s, y, q, r, k)
  BY <1>1, <1>2, <1>3, <1>4, <1>5 DEF Stage, Idle, OneOffer, TwoOffers, LastRev, EarlyOffer,
     OneTaken, TakenStruck, TakenCrossing, BothTaken, HalfSettled, TwoRevs, Wedged, Maybe
<1>6. ASSUME Stage(y, x, r, q, k) PROVE Stage(y, s, r, q, k)
  BY <1>1, <1>2, <1>3, <1>4, <1>6 DEF Stage, Idle, OneOffer, TwoOffers, LastRev, EarlyOffer,
     OneTaken, TakenStruck, TakenCrossing, BothTaken, HalfSettled, TwoRevs, Wedged, Maybe
<1> QED BY <1>5, <1>6 DEF Pair

(* A call that saves the state as it was, or marked failed.                *)
LEMMA CallMarks ==
  ASSUME Inv, PairInv, NEW n \in Node, NEW s, Marked(disk[n], s), disk' = [disk EXCEPT ![n] = s],
         UNCHANGED <<gen, fill, inited, conns, revoked, net>>, TokensMove(n, disk[n]), Amounts'
  PROVE  PairInv' /\ LedgerKept
<1> DEFINE x == disk[n]
           y == disk[Peer(n)]
           q == net[n]
           r == net[Peer(n)]
<1>1. s \in PlainCom /\ SameBooks(x, s) /\ SamePoints(x, s) BY DEF Marked
<1>2. /\ x \in PlainCom /\ y \in PlainCom /\ conns \in Nat /\ q \in Seq(Messages)
      /\ r \in Seq(Messages) /\ Pair(x, y, q, r, conns)
      /\ Points(x) /\ 0 .. x.ElkPoint - 1 \subseteq revoked[Peer(n)]
  BY Knowing
<1>3. Letters' BY DEF PairInv, Letters
<1>4. net'[n] = q /\ net'[Peer(n)] = r OBVIOUS
<1> HIDE DEF x, y, q, r
<1>5. Pair(s, y, q, r, conns) BY <1>1, <1>2, Unmoved
<1>6. Points(s)
  <2>1. Due(s) <=> Due(x) /\ s.StateIdx = x.StateIdx BY <1>1 DEF SameBooks, Due
  <2> QED BY <1>1, <1>2, PointsStay DEF SameBooks, Due
<1>7. 0 .. s.ElkPoint - 1 \subseteq revoked[Peer(n)] BY <1>1, <1>2 DEF SamePoints
<1>8. TokensMove(n, s) BY <1>1 DEF TokensMove, SameBooks, Resting, x
<1>9. Moves(x, s, y) /\ OnBooks(x, s, y) BY <1>1, <1>2, DroppedRests DEF Moves, OnBooks
<1> QED BY <1>1, <1>3, <1>4, <1>5, <1>6, <1>7, <1>8, <1>9, CallStores DEF x, y, q, r

(* Nothing stored and nothing sent changes.                                *)
LEMMA StillStep ==
  ASSUME Inv, PairInv, UNCHANGED <<disk, net, revoked, conns>>, TokensSpent', Amounts'
  PROVE  PairInv' /\ LedgerKept
<1>1. Stages' /\ PointsKnown' /\ Letters' /\ Received'
  BY DEF PairInv, Stages, PointsKnown, Letters, Received
<1>2. UNCHANGED Books!ledger
  BY DEF Books!ledger, Out, Taken
<1>3. BooksMove
  <2>1. A \in Node BY DEF Node
  <2> QED BY <2>1 DEF BooksMove, Moves, Rests
<1> QED BY <1>1, <1>2, <1>3 DEF PairInv, LedgerKept

(* Where a call stands, and what that leaves of Amounts.                   *)
LEMMA AmountsMove ==
  ASSUME Inv, PairInv, NEW n \in Node, NEW c \in Call, UNCHANGED conns, NEW new \in CallState,
         call' = [call EXCEPT ![n][c] = new], new.pc \in {"enter", "wait"} => new.amt > 0,
         conns = 0 => new.gen \in {0, 1}
  PROVE  Amounts'
<1>1. \A h \in Node, d \in Call : call'[h][d] = IF h = n /\ d = c THEN new ELSE call[h][d]
  BY DEF Inv, Types
<1> QED BY <1>1 DEF PairInv, Amounts

LEMMA AmountsReturn ==
  ASSUME Inv, PairInv, NEW n \in Node, NEW c \in Call, UNCHANGED conns,
         NEW pc \in PC \ {"enter", "wait"}, Return(n, c, pc)
  PROVE  Amounts'
<1> DEFINE new == [call[n][c] EXCEPT !.pc = pc, !.gen = 0, !.seen = Nothing]
<1>1. call[n][c] \in CallState
  BY DEF Inv, Types
<1>2. new \in CallState /\ new.pc = pc /\ new.gen = 0
  BY <1>1, CallEnded, Zenon
<1>3. call' = [call EXCEPT ![n][c] = new]
  BY <1>1 DEF Return, Inv, Types, CallState
<1> HIDE DEF new
<1> QED BY <1>2, <1>3, AmountsMove

(* The token that a call takes is the one of the instance it was given.    *)
LEMMA CallTakesToken ==
  ASSUME Inv, PairInv, NEW n \in Node, NEW c \in Call, HasChannel(n, c),
         TakeCts(n, call[n][c].gen), NEW s
  PROVE  TokensMove(n, s)
<1> DEFINE g == call[n][c].gen
<1>1. g \in Gen BY CallInstance
<1>2. conns = 0 => g = 1 BY <1>1, GenFacts DEF PairInv, Amounts
<1>3. TakeCts(n, g) OBVIOUS
<1> HIDE DEF g
<1>4. \A h \in Node \ {n} : cts'[h] = cts[h] BY <1>3 DEF TakeCts, Inv, Types
<1>5. conns = 0 => ~cts'[n][1] BY <1>1, <1>2, <1>3 DEF TakeCts, Inv, Types
<1> QED BY <1>4, <1>5 DEF TokensMove

LEMMA PushStartPair ==
  ASSUME Inv, PairInv, NEW n \in Node, NEW c \in Call, NEW amt \in PushAmt, PushStart(n, c, amt)
  PROVE  PairInv' /\ LedgerKept
<1> DEFINE new == [pc |-> "enter", gen |-> gen[n], amt |-> amt, seen |-> Nothing]
<1>1. gen[n] \in Gen /\ (conns = 0 => gen[n] = 1)
  BY DEF Inv, Types, PairInv, TokensSpent
<1>2. new \in CallState /\ new.amt > 0 /\ new.gen = gen[n]
  BY <1>1 DEF CallState, PC, PushStart, Nothing
<1>3. Amounts'
  <2>1. call' = [call EXCEPT ![n][c] = new] /\ UNCHANGED conns BY DEF PushStart, env
  <2> HIDE DEF new
  <2> QED BY <1>1, <1>2, <2>1, AmountsMove
<1>4. TokensSpent' BY DEF PushStart, db, ram, env, PairInv, TokensSpent
<1> QED BY <1>3, <1>4, StillStep DEF PushStart, db, env, hist

(* A save that undoes none.                                                *)
LEMMA SavedAlone ==
  ASSUME raced' = {}, NEW n \in Node, NEW c \in Call, NEW read, NEW st, CallSave(n, c, read, st)
  PROVE  read = disk[n] /\ disk' = [disk EXCEPT ![n] = st]
  BY DEF CallSave, Save

(* A call that fails the channel marks the stored state or leaves it.      *)
LEMMA FailMarks ==
  ASSUME Inv, raced' = {}, NEW n \in Node, NEW c \in Call, FailCall(n, c)
  PROVE  \E s : Marked(disk[n], s) /\ disk' = [disk EXCEPT ![n] = s]
<1>1. Marked(disk[n], FailChannel(disk[n])) /\ Marked(disk[n], disk[n])
  BY MarkedSame DEF Inv, Types
<1>2. CASE CallSave(n, c, disk[n], FailChannel(disk[n]))
  <2>1. disk' = [disk EXCEPT ![n] = FailChannel(disk[n])] BY <1>2, SavedAlone, Zenon
  <2> QED BY <1>1, <2>1, Zenon
<1>3. CASE LoadState(n, c, "failing")
  <2>1. disk' = [disk EXCEPT ![n] = disk[n]] BY <1>3 DEF LoadState, Inv, Types
  <2> QED BY <1>1, <2>1, Zenon
<1> QED BY <1>2, <1>3, Zenon DEF FailCall

(* A reload changes the place of its call, not the amount.                 *)
LEMMA AmountsLoad ==
  ASSUME Inv, PairInv, NEW n \in Node, NEW c \in Call, UNCHANGED conns, NEW pc,
         LoadState(n, c, pc), pc = "enter" => call[n][c].pc = "enter", pc # "wait"
  PROVE  Amounts'
<1>1. call[n][c] \in CallState BY DEF Inv, Types
<1> DEFINE new == [call[n][c] EXCEPT !.pc = pc, !.seen = <<disk[n]>>]
<1>2. new.pc = pc /\ new.gen = call[n][c].gen /\ new.amt = call[n][c].amt
  BY <1>1 DEF CallState
<1>3. \A h \in Node, d \in Call : call'[h][d] = IF h = n /\ d = c THEN new ELSE call[h][d]
  BY DEF LoadState, Inv, Types
<1> HIDE DEF new
<1> QED BY <1>2, <1>3 DEF PairInv, Amounts

LEMMA AmountsFail ==
  ASSUME Inv, PairInv, NEW n \in Node, NEW c \in Call, UNCHANGED conns, FailCall(n, c)
  PROVE  Amounts'
<1>1. Return(n, c, "failed") \/ LoadState(n, c, "failing") BY Zenon DEF FailCall
<1> QED BY <1>1, AmountsReturn, AmountsLoad DEF PC

LEMMA PushRefusedPair ==
  ASSUME Inv, PairInv, NEW n \in Node, NEW c \in Call, PushRefused(n, c)
  PROVE  PairInv' /\ LedgerKept
<1>1. Amounts' BY AmountsReturn DEF PushRefused, PC, env
<1>2. TokensSpent' BY DEF PushRefused, ram, env, PairInv, TokensSpent
<1> QED BY <1>1, <1>2, StillStep DEF PushRefused, env, hist

LEMMA PushNotAtRestPair ==
  ASSUME Inv, PairInv, raced' = {}, NEW n \in Node, NEW c \in Call, PushNotAtRest(n, c)
  PROVE  PairInv' /\ LedgerKept
<1>1. PICK s : Marked(disk[n], s) /\ disk' = [disk EXCEPT ![n] = s]
  BY FailMarks, Zenon DEF PushNotAtRest
<1>2. TokensMove(n, disk[n]) BY CallTakesToken DEF PushNotAtRest
<1>3. Amounts' BY AmountsFail DEF PushNotAtRest, env
<1> QED BY <1>1, <1>2, <1>3, CallMarks DEF PushNotAtRest, env

LEMMA PushTimeoutPair ==
  ASSUME Inv, PairInv, raced' = {}, NEW n \in Node, NEW c \in Call, PushTimeout(n, c)
  PROVE  PairInv' /\ LedgerKept
<1>1. PICK s : Marked(disk[n], s) /\ disk' = [disk EXCEPT ![n] = s]
  BY FailMarks, Zenon DEF PushTimeout
<1>2. TokensMove(n, disk[n]) BY KeptToken DEF PushTimeout, ram
<1>3. Amounts' BY AmountsFail DEF PushTimeout, env
<1> QED BY <1>1, <1>2, <1>3, CallMarks DEF PushTimeout, ram, env

LEMMA FailSavePair ==
  ASSUME Inv, PairInv, raced' = {}, NEW n \in Node, NEW c \in Call, FailSave(n, c)
  PROVE  PairInv' /\ LedgerKept
<1> DEFINE st == View(n, c)
<1>1. CallSave(n, c, st, FailChannel(st)) BY DEF FailSave
<1> HIDE DEF st
<1>2. st = disk[n] /\ disk' = [disk EXCEPT ![n] = FailChannel(st)]
  BY <1>1, SavedAlone, Zenon
<1>3. Marked(disk[n], FailChannel(st)) BY <1>2, MarkedSame DEF Inv, Types
<1>4. TokensMove(n, disk[n]) BY KeptToken DEF FailSave, ram
<1>5. Amounts' BY AmountsReturn DEF FailSave, PC, env
<1> QED BY <1>2, <1>3, <1>4, <1>5, CallMarks DEF FailSave, ram, env

LEMMA CallReloadPair ==
  ASSUME Inv, PairInv, NEW n \in Node, NEW c \in Call, CallReload(n, c)
  PROVE  PairInv' /\ LedgerKept
<1>1. Amounts' BY AmountsLoad DEF CallReload, HasChannel, env
<1>2. TokensSpent' BY DEF CallReload, LoadState, ram, env, PairInv, TokensSpent
<1> QED BY <1>1, <1>2, StillStep DEF CallReload, LoadState, env

LEMMA PushDonePair ==
  ASSUME Inv, PairInv, NEW n \in Node, NEW c \in Call, PushDone(n, c)
  PROVE  PairInv' /\ LedgerKept
<1>1. Amounts' BY AmountsReturn DEF PushDone, PC, env
<1>2. TokensSpent' BY DEF PushDone, db, ram, env, PairInv, TokensSpent
<1> QED BY <1>1, <1>2, StillStep DEF PushDone, db, env, hist

(* The push itself.                                                        *)
LEMMA PushSendPair ==
  ASSUME Inv, PairInv, raced' = {}, NEW n \in Node, NEW c \in Call, PushSend(n, c)
  PROVE  PairInv' /\ LedgerKept
<1> DEFINE amt == call[n][c].amt
           x == disk[n]
           y == disk[Peer(n)]
           q == net[n]
           r == net[Peer(n)]
           s == [disk[n] EXCEPT !.Delta = - amt]
           m == SendDeltaSig(s)
           u == net'[Peer(n)]
<1>1. /\ x \in PlainCom /\ y \in PlainCom /\ conns \in Nat /\ q \in Seq(Messages)
      /\ r \in Seq(Messages) /\ Pair(x, y, q, r, conns)
      /\ Points(x) /\ 0 .. x.ElkPoint - 1 \subseteq revoked[Peer(n)]
  BY Knowing
<1>2. HasChannel(n, c) /\ call[n][c].pc = "enter" BY DEF PushSend, HasChannel
<1>3. amt \in PushAmt /\ amt > 0 /\ amt \in Nat
  <2>1. call[n][c] \in CallState BY DEF Inv, Types
  <2>2. amt > 0 BY <1>2 DEF PairInv, Amounts
  <2>3. amt \in PushAmt \cup {0} BY <2>1 DEF CallState
  <2> HIDE DEF amt
  <2>4. amt # 0 BY <2>2
  <2> QED BY <2>2, <2>3, <2>4, BoundAssumption
<1>4. /\ s \in PlainCom /\ s.Delta = - amt /\ s.StateIdx = x.StateIdx /\ s.MyAmt = x.MyAmt
      /\ s.Collision = x.Collision /\ SamePoints(x, s)
  <2> HIDE DEF amt
  <2>1. - amt \in Int BY <1>3
  <2> QED BY <1>1, <2>1 DEF PlainCom, SamePoints
<1>5. /\ x.Delta = 0 /\ TakeCts(n, call[n][c].gen) /\ disk' = [disk EXCEPT ![n] = s]
      /\ UNCHANGED <<gen, fill, inited, conns, revoked>>
      /\ \/ /\ net' = [net EXCEPT ![Peer(n)] = Append(r, m)]
            /\ call' = [call EXCEPT ![n][c] = [call[n][c] EXCEPT !.pc = "wait", !.seen = Nothing]]
         \/ net' = net /\ Return(n, c, "error")
  <2> DEFINE st == [View(n, c) EXCEPT !.Delta = - amt]
  <2>1. CallSave(n, c, View(n, c), st) BY DEF PushSend
  <2>2. View(n, c) = disk[n] /\ disk' = [disk EXCEPT ![n] = st]
    <3> HIDE DEF st
    <3> QED BY <2>1, SavedAlone
  <2>3. st = s BY <2>2
  <2>4. \/ /\ net' = [net EXCEPT ![Peer(n)] = Append(r, m)]
           /\ call' = [call EXCEPT ![n][c] = [call[n][c] EXCEPT !.pc = "wait", !.seen = Nothing]]
        \/ net' = net /\ Return(n, c, "error")
    BY <2>2 DEF PushSend, Inv, Types
  <2>5. x.Delta = 0 BY <2>2 DEF PushSend
  <2> QED BY <2>2, <2>3, <2>4, <2>5 DEF PushSend, env
<1>6. m \in Messages /\ m.type = "DeltaSig" /\ m.Delta = - s.Delta
  BY <1>4, SentDeltaSig DEF SendDeltaSig
<1>7. net'[n] = q /\ (u = r \/ u = Append(r, m))
  BY <1>5, NodeFacts DEF Inv, Types
<1>8. u = r \/ (Sent(r, u, m) /\ m.type = "DeltaSig" /\ m.Delta = - s.Delta)
  BY <1>1, <1>6, <1>7, Sending
<1>9. u \in Seq(Messages)
  <2> HIDE DEF r, m, u
  <2> QED BY <1>1, <1>6, <1>7
<1>10. Letters'
  <2>1. \A h \in Node : net'[h] = net[h] \/ (h = Peer(n) /\ net'[h] = Append(r, m))
    BY <1>5 DEF Inv, Types
  <2> SUFFICES ASSUME NEW h \in Node, NEW i \in 1 .. Len(net'[h]), net'[h][i].type # "DeltaSig"
               PROVE  net'[h][i].Elk \in revoked'[Peer(h)] /\ net'[h][i].N2ElkPoint = net'[h][i].Elk + 3
    BY Zenon DEF Letters
  <2>2. i \in 1 .. Len(net[h]) /\ net'[h][i] = net[h][i]
    <3>1. CASE net'[h] = net[h] BY <3>1
    <3>2. CASE h = Peer(n) /\ net'[h] = Append(r, m)
      <4> HIDE DEF r, m
      <4>1. Append(r, m)[i].type # "DeltaSig" /\ i \in 1 .. Len(Append(r, m)) BY <3>2
      <4>2. Append(r, m)[Len(r) + 1] = m /\ Len(Append(r, m)) = Len(r) + 1 /\ Len(r) \in Nat
        BY <1>1, <1>6
      <4>3. i # Len(r) + 1 BY <1>6, <4>1, <4>2
      <4>4. i \in 1 .. Len(r) BY <4>1, <4>2, <4>3
      <4>5. Append(r, m)[i] = r[i] BY <1>1, <1>6, <4>4
      <4> QED BY <3>2, <4>4, <4>5 DEF r
    <3> QED BY <2>1, <3>1, <3>2
  <2> QED BY <1>5, <2>2 DEF PairInv, Letters
<1>11. Amounts'
  <2>1. CASE Return(n, c, "error") BY <1>5, <2>1, AmountsReturn DEF PC
  <2>2. CASE call' = [call EXCEPT ![n][c] = [call[n][c] EXCEPT !.pc = "wait", !.seen = Nothing]]
    <3> DEFINE new == [call[n][c] EXCEPT !.pc = "wait", !.seen = Nothing]
    <3>1. call[n][c] \in CallState BY DEF Inv, Types
    <3>2. new \in CallState
      <4>1. "wait" \in PC /\ Nothing \in Seq(StatCom) BY DEF PC, Nothing
      <4> QED BY <3>1, <4>1, CallWith, Zenon
    <3>3. new.amt = amt /\ new.gen = call[n][c].gen
      BY <3>1 DEF CallState
    <3>4. call' = [call EXCEPT ![n][c] = new] BY <2>2
    <3>5. conns = 0 => new.gen \in {0, 1} BY <3>3 DEF PairInv, Amounts
    <3> HIDE DEF new, amt
    <3> QED BY <1>3, <1>5, <3>2, <3>3, <3>4, <3>5, AmountsMove
  <2> QED BY <1>5, <2>1, <2>2
<1>12. TokensMove(n, s) BY <1>2, <1>5, CallTakesToken
<1> HIDE DEF amt, x, y, q, r, s, m, u
<1>13. s.Delta < 0 BY <1>3, <1>4
<1>14. Pair(s, y, q, u, conns) BY <1>1, <1>4, <1>5, <1>8, <1>9, <1>13, Pushed
<1>15. OnBooks(x, s, y) BY <1>1, <1>3, <1>4, <1>5, PushOffers DEF OnBooks
<1>16. Points(s) /\ 0 .. s.ElkPoint - 1 \subseteq revoked[Peer(n)]
  <2>1. Due(s) <=> Due(x)
    <3>1. ~(x.Delta > 0) /\ ~(s.Delta > 0) BY <1>3, <1>4, <1>5
    <3> QED BY <1>4, <3>1 DEF Due
  <2> QED BY <1>1, <1>4, <2>1, PointsStay DEF SamePoints
<1>17. call' # call
  <2>1. call[n][c] \in CallState BY DEF Inv, Types
  <2>2. [call[n][c] EXCEPT !.pc = "wait", !.seen = Nothing].pc = "wait" BY <2>1 DEF CallState
  <2>3. [call[n][c] EXCEPT !.pc = "error", !.gen = 0, !.seen = Nothing].pc = "error"
    BY <2>1 DEF CallState
  <2>4. \/ call'[n][c] = [call[n][c] EXCEPT !.pc = "wait", !.seen = Nothing]
        \/ call'[n][c] = [call[n][c] EXCEPT !.pc = "error", !.gen = 0, !.seen = Nothing]
    BY <1>5 DEF Return, Inv, Types
  <2>5. call'[n][c].pc # "enter"
    <3> DEFINE w == [call[n][c] EXCEPT !.pc = "wait", !.seen = Nothing]
               e == [call[n][c] EXCEPT !.pc = "error", !.gen = 0, !.seen = Nothing]
    <3>1. w.pc = "wait" /\ e.pc = "error" /\ (call'[n][c] = w \/ call'[n][c] = e)
      BY <2>2, <2>3, <2>4, Zenon
    <3> HIDE DEF w, e
    <3> QED BY <3>1
  <2> QED BY <1>2, <2>5
<1> QED BY <1>4, <1>5, <1>7, <1>10, <1>11, <1>12, <1>14, <1>15, <1>16, <1>17, CallStores
  DEF x, y, q, r, u

-----------------------------------------------------------------------------
(* Instances, connections, restarts and the chain.                         *)

LEMMA ConnsType ==
  ASSUME Inv
  PROVE  conns \in Nat
<1>1. conns \in 0 .. MaxReconnect BY DEF Inv, Types
<1> QED BY <1>1, BoundAssumption

LEMMA RepopulatePair ==
  ASSUME Inv, PairInv, NEW n \in Node, Repopulate(n)
  PROVE  PairInv' /\ LedgerKept
<1>1. conns' # 0 BY DEF Repopulate, env, PairInv, TokensSpent
<1>2. TokensSpent' BY <1>1 DEF TokensSpent
<1>3. Amounts' BY DEF Repopulate, env, PairInv, Amounts
<1> QED BY <1>2, <1>3, StillStep DEF Repopulate, env, hist

LEMMA FirstMessagePair ==
  ASSUME Inv, PairInv, NEW n \in Node, FirstMessage(n)
  PROVE  PairInv' /\ LedgerKept
  BY RepopulatePair DEF FirstMessage

LEMMA FillPair ==
  ASSUME Inv, PairInv, NEW n \in Node, NEW g \in Gen, FillClearToSend(n, g)
  PROVE  PairInv' /\ LedgerKept
<1>1. conns' # 0 BY DEF FillClearToSend, env, PairInv, TokensSpent
<1>2. TokensSpent' BY <1>1 DEF TokensSpent
<1>3. Amounts' BY DEF FillClearToSend, env, PairInv, Amounts
<1> QED BY <1>2, <1>3, StillStep DEF FillClearToSend, db, env, hist

LEMMA ReconnectPair ==
  ASSUME Inv, PairInv, NEW S \in SUBSET Node, Reconnect(S)
  PROVE  PairInv' /\ LedgerKept
<1>1. conns \in Nat /\ conns' = conns + 1 BY ConnsType DEF Reconnect
<1>2. conns' # 0 BY <1>1
<1>3. disk' = disk /\ revoked' = revoked /\ \A n \in Node : net'[n] = <<>>
  BY DEF Reconnect, hist
<1>4. Stages'
  <2>1. A \in Node /\ Peer(A) \in Node BY NodeFacts DEF Node
  <2>2. Pair(disk[A], disk[Peer(A)], <<>>, <<>>, conns + 1)
    BY <1>1, <2>1, Knowing, Lost
  <2> QED BY <1>1, <1>3, <2>1, <2>2, PairOf
<1>5. Letters' BY <1>3 DEF Letters
<1>6. PointsKnown' /\ Received' BY <1>3 DEF PairInv, PointsKnown, Received
<1>7. TokensSpent' BY <1>2 DEF TokensSpent
<1>8. Amounts'
  <2> SUFFICES ASSUME NEW n \in Node, NEW c \in Call, call'[n][c].pc \in {"enter", "wait"}
               PROVE  call'[n][c].amt > 0
    BY <1>2 DEF Amounts
  <2>1. call[n][c] \in CallState BY DEF Inv, Types
  <2>2. call'[n][c] = call[n][c] BY <2>1 DEF Reconnect, CallState
  <2> QED BY <2>2 DEF PairInv, Amounts
<1>9. LedgerKept BY <1>2 DEF LedgerKept
<1> QED BY <1>4, <1>5, <1>6, <1>7, <1>8, <1>9 DEF PairInv

LEMMA ChainPair ==
  ASSUME Inv, PairInv, NEW n \in Node, BreakChannel(n) \/ \E spend \in BOOLEAN : OPEventHandler(n, spend)
  PROVE  PairInv' /\ LedgerKept
<1>1. UNCHANGED <<disk, ram, call, net, conns, revoked>>
  BY DEF BreakChannel, OPEventHandler, hist
<1>2. TokensSpent' /\ Amounts'
  BY <1>1 DEF ram, PairInv, TokensSpent, Amounts
<1> QED BY <1>1, <1>2, StillStep

LEMMA IdlePair ==
  ASSUME Inv, PairInv, UNCHANGED vars
  PROVE  PairInv' /\ LedgerKept
<1>1. TokensSpent' /\ Amounts'
  BY DEF vars, db, ram, env, PairInv, TokensSpent, Amounts
<1> QED BY <1>1, StillStep DEF vars, db, env, hist

(* A record that is written back as it was.                                *)
LEMMA SaveQChanPair ==
  ASSUME Inv, PairInv, raced' = {}, NEW n \in Node, NEW rec \in saving[n], SaveQChan(n, rec)
  PROVE  PairInv' /\ LedgerKept
<1>1. disk' = disk BY DEF SaveQChan, Inv, Types
<1>2. TokensSpent' /\ Amounts'
  BY <1>1 DEF SaveQChan, ram, PairInv, TokensSpent, Amounts
<1> QED BY <1>1, <1>2, StillStep DEF SaveQChan

(* In some worlds no record is written back late.                          *)
LEMMA NoLateRecord ==
  ASSUME Inv, ~SaveRace, NEW n \in Node, NEW rec \in saving[n]
  PROVE  FALSE
  BY DEF Inv, Revocations

(* A save that was undone stays undone.                                    *)
LEMMA RacedGrow ==
  ASSUME Inv, [Next]_vars
  PROVE  raced \subseteq raced'
<1>1. ASSUME NEW n \in Node, Handle(n) PROVE raced' = raced
  BY <1>1 DEF Handle, Consume, DeltaSigHandler, GapSigRevHandler, SigRevHandler, RevHandler,
     FirstMessage, Repopulate, hist, Fail, Ignore, Answer, AnswerSigned
<1>2. ASSUME NEW n \in Node, NEW c \in Call, NEW read, NEW st, CallSave(n, c, read, st)
      PROVE  raced \subseteq raced'
  BY <1>2 DEF CallSave
<1>3. ASSUME NEW n \in Node, NEW c \in Call, FailCall(n, c) PROVE raced \subseteq raced'
  BY <1>2, <1>3 DEF FailCall, LoadState
<1>4. ASSUME NEW n \in Node, NEW c \in Call, UserCall(n, c) \/ PushTimeout(n, c)
      PROVE  raced \subseteq raced'
  BY <1>2, <1>3, <1>4 DEF UserCall, CallStep, CallReload, LoadState, FailSave, PushRefused,
     PushNotAtRest, PushSend, PushDone, PushTimeout, hist
<1>5. ASSUME Environment PROVE raced \subseteq raced'
  BY <1>5 DEF Environment, Reconnect, BreakChannel, OPEventHandler, SaveQChan, hist
<1>6. ASSUME NEW n \in Node, NEW g \in Gen, FillClearToSend(n, g) PROVE raced' = raced
  BY <1>6 DEF FillClearToSend, hist
<1>7. ASSUME NEW n \in Node, NEW c \in Call, NEW amt \in PushAmt, PushStart(n, c, amt)
      PROVE  raced' = raced
  BY <1>7 DEF PushStart, hist
<1>8. UNCHANGED vars => raced' = raced BY DEF vars, hist
<1> QED BY <1>1, <1>4, <1>5, <1>6, <1>7, <1>8 DEF Next

-----------------------------------------------------------------------------
(* Every step keeps the pair of states in a stage, and keeps to the ledger *)
(* until the connection breaks.                                            *)
LEMMA StepPair ==
  ASSUME Inv, PairInv, raced' = {}, [Next]_vars
  PROVE  PairInv' /\ LedgerKept
<1>0. raced = {} BY RacedGrow
<1>1. ASSUME NEW n \in Node, Handle(n) PROVE PairInv' /\ LedgerKept
  BY <1>1, <1>0, DeltaSigPair, GapSigRevPair, SigRevPair, RevPair, FirstMessagePair, Zenon DEF Handle,
     Consume
<1>2. ASSUME NEW n \in Node, NEW c \in Call, UserCall(n, c) PROVE PairInv' /\ LedgerKept
  BY <1>2, PushRefusedPair, PushNotAtRestPair, PushSendPair, PushDonePair, CallReloadPair,
     FailSavePair, Zenon DEF UserCall, CallStep
<1>3. CASE Environment
  BY <1>3, ReconnectPair, ChainPair, SaveQChanPair, Zenon DEF Environment
<1> QED BY <1>1, <1>2, <1>3, FillPair, PushStartPair, PushTimeoutPair, IdlePair, Zenon DEF Next

LEMMA InitPair ==
  ASSUME Init
  PROVE  PairInv /\ Books!LedgerInit
<1>1. A # B /\ Node = {A, B} BY NodeAssumption DEF Node
<1>2. /\ disk[A] = InitState(InitAmtA) /\ disk[B] = InitState(Value - InitAmtA)
      /\ net[A] = <<>> /\ net[B] = <<>>
  BY <1>1 DEF Init
<1>3. \A n \in Node : /\ disk[n].StateIdx = 0 /\ disk[n].Delta = 0 /\ disk[n].Collision = 0
                      /\ disk[n].ElkPoint = 0 /\ disk[n].NextElkPoint = 1 /\ disk[n].N2ElkPoint = 2
                      /\ disk[n].MyAmt = IF n = A THEN InitAmtA ELSE Value - InitAmtA
  BY <1>1, <1>2 DEF InitState
<1>4. Stages
  <2>1. Even(disk[A], disk[B])
    BY <1>1, <1>3, ValueAssumption, BoundAssumption DEF Even
  <2>2. Idle(disk[A], disk[B], net[A], net[B])
    BY <1>1, <1>2, <1>3, <2>1 DEF Idle, Resting, Level
  <2> QED BY <2>2 DEF Stages, Pair, Stage
<1>5. PointsKnown BY <1>3 DEF PointsKnown, Points, Due
<1>6. Letters BY DEF Init, Letters
<1>7. Received BY <1>3 DEF Received
<1>8. TokensSpent BY <1>3 DEF Init, TokensSpent, Resting
<1>9. Amounts BY DEF Init, Amounts
<1>10. Books!LedgerInit
  BY <1>3 DEF Books!LedgerInit, Out, Taken
<1> QED BY <1>4, <1>5, <1>6, <1>7, <1>8, <1>9, <1>10 DEF PairInv

LEMMA ConnsGrow ==
  ASSUME Inv, [Next]_vars, conns' = 0
  PROVE  conns = 0
<1>1. conns \in Nat BY ConnsType
<1>2. ASSUME NEW n \in Node, Handle(n) PROVE conns' = conns
  BY <1>2 DEF Handle, Consume, DeltaSigHandler, GapSigRevHandler, SigRevHandler, RevHandler,
     FirstMessage, Repopulate, env
<1>3. ASSUME NEW n \in Node, NEW c \in Call, UserCall(n, c) PROVE conns' = conns
  BY <1>3 DEF UserCall, CallStep, CallReload, FailSave, PushRefused, PushNotAtRest, PushSend,
     PushDone, env
<1>4. ASSUME Environment PROVE conns' = conns \/ conns' = conns + 1
  BY <1>4 DEF Environment, Reconnect, BreakChannel, OPEventHandler, SaveQChan
<1>5. ASSUME NEW n \in Node, NEW g \in Gen, FillClearToSend(n, g) PROVE conns' = conns
  BY <1>5 DEF FillClearToSend, env
<1>6. ASSUME NEW n \in Node, NEW c \in Call, NEW amt \in PushAmt, PushStart(n, c, amt)
      PROVE  conns' = conns
  BY <1>6 DEF PushStart, env
<1>7. ASSUME NEW n \in Node, NEW c \in Call, PushTimeout(n, c) PROVE conns' = conns
  BY <1>7 DEF PushTimeout, env
<1>8. UNCHANGED vars => conns' = conns BY DEF vars, env
<1>9. conns' = conns \/ conns' = conns + 1
  BY <1>2, <1>3, <1>4, <1>5, <1>6, <1>7, <1>8, Zenon DEF Next
<1> QED BY <1>1, <1>9

-----------------------------------------------------------------------------
(* What the stages say when nothing is under way.                          *)

LEMMA PairAgrees ==
  ASSUME Inv, PairInv, AtRest
  PROVE  Agreement
<1>1. /\ disk[A] \in PlainCom /\ disk[B] \in PlainCom
      /\ A \in Node /\ B \in Node /\ Peer(A) = B /\ Peer(B) = A
  BY NodeAssumption DEF Inv, Types, Node, Peer
<1> DEFINE x == disk[A]
           y == disk[B]
<1>2. x.Delta = 0 /\ y.Delta = 0 /\ net[A] = <<>> /\ net[B] = <<>> BY <1>1 DEF AtRest
<1>3. Pair(x, y, net[A], net[B], conns) BY DEF PairInv, Stages
<1>4. Points(x) /\ Points(y) BY <1>1 DEF PairInv, PointsKnown
<1>5. /\ x.StateIdx \in Nat /\ x.MyAmt \in Int /\ y.StateIdx \in Nat /\ y.MyAmt \in Int
  BY <1>1, PlainFields
<1> HIDE DEF x, y
<1>6. Resting(x) /\ Resting(y) /\ Level(x, y) /\ (Even(x, y) \/ Even(y, x))
  BY <1>2, <1>3, <1>5 DEF Pair, Stage, Idle, OneOffer, TwoOffers, LastRev, EarlyOffer,
     OneTaken,
     TakenStruck, TakenCrossing, BothTaken, HalfSettled, TwoRevs, Wedged, Resting, Pushing, Holding,
     Crossing, Struck, Level
<1>7. x.MyAmt + y.MyAmt = Value BY <1>5, <1>6 DEF Even
<1>8. ~Due(x) /\ ~Due(y) BY <1>6 DEF Resting, Due
<1>9. /\ x.StateIdx = y.StateIdx
      /\ x.ElkPoint = y.StateIdx /\ x.NextElkPoint = y.StateIdx + 1 /\ x.N2ElkPoint = y.StateIdx + 2
      /\ y.ElkPoint = x.StateIdx /\ y.NextElkPoint = x.StateIdx + 1 /\ y.N2ElkPoint = x.StateIdx + 2
  BY <1>4, <1>6, <1>8 DEF Points, Level
<1> QED BY <1>1, <1>7, <1>9 DEF Agreement, Node, x, y

LEMMA PairFinal ==
  ASSUME Inv, PairInv
  PROVE  Final
<1> SUFFICES ASSUME NEW n \in Node, disk[n].Delta <= 0, disk[n].Collision = 0
             PROVE  0 .. (disk[n].StateIdx - 1) \subseteq revoked[Peer(n)]
  BY DEF Final
<1>1. disk[n].Delta \in Int BY PlainFields DEF Inv, Types
<1>2. ~Due(disk[n]) BY <1>1 DEF Due
<1>3. disk[n].ElkPoint = disk[n].StateIdx BY <1>2, Knowing DEF Points
<1> QED BY <1>3, Knowing

-----------------------------------------------------------------------------
(* The invariant of the pair, where no save has undone another.            *)
THEOREM PairInvariance == Spec => [](raced = {} => PairInv)
<1>1. Init => (raced = {} => PairInv)
  BY InitPair
<1>2. Inv /\ (raced = {} => PairInv) /\ [Next]_vars => (raced = {} => PairInv)'
  BY StepPair, RacedGrow
<1> QED BY <1>1, <1>2, Invariance, PTL DEF Spec

(* Whenever PushChannel and the handlers have left both databases at rest, *)
(* after any collisions, lost messages, timeouts, restarts and calls on    *)
(* instances of earlier connections, they hold the same state number,      *)
(* complementary amounts and each other's points, unless one of them has   *)
(* lost a save: another instance or the wallet wrote over it.              *)
THEOREM RestingSidesAgree == Spec => []Agreement
<1>1. Inv /\ (raced = {} => PairInv) => Agreement
  BY PairAgrees DEF Agreement
<1> QED BY <1>1, Invariance, PairInvariance, PTL

(* A node whose state expects no Rev has the revocation of every earlier   *)
(* one: SigRevHandler, GapSigRevHandler and RevHandler move the points on  *)
(* only with the hash that opens the old one.                              *)
THEOREM OldStatesAreRevoked == Spec => [](raced = {} => Final)
<1>1. Inv /\ (raced = {} => PairInv) => (raced = {} => Final)
  BY PairFinal
<1> QED BY <1>1, Invariance, PairInvariance, PTL

(* Until the connection breaks, every step of the two nodes is a step of   *)
(* the ledger or leaves it alone: PushChannel offers, DeltaSigHandler      *)
(* takes, and SigRevHandler or GapSigRevHandler settles.                   *)
THEOREM PushesKeepTheLedger == Spec => (~SaveRace => ImplementsLedger)
<1>1. Init => Books!LedgerInit
  BY InitPair
<1>2. Inv /\ Inv' /\ (raced = {} => PairInv) /\ [Next]_vars
        => (~SaveRace => [conns' = 0 => Books!LedgerNext]_<<Books!ledger, conns>>)
  <2> SUFFICES ASSUME Inv, Inv', raced = {} => PairInv, [Next]_vars, ~SaveRace, conns' = 0
               PROVE  [conns' = 0 => Books!LedgerNext]_<<Books!ledger, conns>>
    OBVIOUS
  <2>0. raced' = {} /\ raced = {} BY RacedGrow DEF Inv, Revocations
  <2>1. LedgerKept BY <2>0, StepPair
  <2>2. CASE conns' = 0 /\ UNCHANGED Books!ledger
    <3>1. conns = 0
      BY <2>2, ConnsGrow
    <3> QED BY <2>2, <3>1
  <2> QED BY <2>1, <2>2 DEF LedgerKept
<1>3. ~SaveRace => [](~SaveRace)
  OBVIOUS
<1> QED BY <1>1, <1>2, <1>3, Invariance, PairInvariance, PTL DEF Spec, ImplementsLedger

-----------------------------------------------------------------------------
(* Handlers that fill the slot of ClearToSend.                             *)

(* A state with something pending has spent its token, so the handler that *)
(* puts it back finds the slot empty.                                      *)
LEMMA SlotEmpty ==
  ASSUME Inv, PairInv, conns = 0, NEW n \in Node, ~NothingPending(disk[n])
  PROVE  ~cts[n][gen[n]]
<1>1. disk[n] \in PlainCom BY DEF Inv, Types
<1>2. disk[n].Delta # 0 BY <1>1, PlainFields, PlainHTLCs DEF NothingPending
<1>3. gen[n] = 1 /\ (cts[n][1] => Resting(disk[n])) BY DEF PairInv, TokensSpent
<1> QED BY <1>2, <1>3 DEF Resting

LEMMA ReleaseFree ==
  ASSUME Inv, PairInv, conns = 0, NeverStuck, NEW n \in Node, ~NothingPending(disk[n]),
         AssertClearToSend(n)
  PROVE  NeverStuck'
<1>1. stuck' = stuck BY SlotEmpty, Zenon DEF AssertClearToSend
<1> QED BY <1>1 DEF NeverStuck

(* No HTLC, no second claim of the multi-hop mutex.                        *)
LEMMA NoMultihop ==
  ASSUME Inv, NEW n \in Node
  PROVE  ~RelocksMultihop(disk[n])
<1>1. disk[n].HTLCs = <<>> BY PlainFields DEF Inv, Types
<1> QED BY <1>1, EmptyDomain DEF RelocksMultihop

LEMMA SigRevFree ==
  ASSUME Inv, PairInv, conns = 0, NeverStuck, NEW n \in Node, SigRevHandler(n)
  PROVE  NeverStuck'
<1>1. stuck' = stuck \/ (~NothingPending(disk[n]) /\ AssertClearToSend(n))
  BY Zenon DEF SigRevHandler
<1>2. CASE stuck' = stuck BY <1>2 DEF NeverStuck
<1> QED BY <1>1, <1>2, ReleaseFree

LEMMA RevFree ==
  ASSUME Inv, PairInv, conns = 0, NeverStuck, NEW n \in Node, RevHandler(n)
  PROVE  NeverStuck'
<1>1. stuck' = stuck \/ (~NothingPending(disk[n]) /\ AssertClearToSend(n))
  BY NoMultihop, Zenon DEF RevHandler
<1>2. CASE stuck' = stuck BY <1>2 DEF NeverStuck
<1> QED BY <1>1, <1>2, ReleaseFree

LEMMA StepFree ==
  ASSUME Inv, PairInv, conns = 0, NeverStuck, [Next]_vars, conns' = 0
  PROVE  NeverStuck'
<1>1. ASSUME UNCHANGED stuck PROVE NeverStuck' BY <1>1 DEF NeverStuck
<1>2. ASSUME NEW n \in Node, Handle(n) PROVE NeverStuck'
  <2>1. UNCHANGED stuck \/ SigRevHandler(n) \/ RevHandler(n)
    BY <1>2, Zenon DEF Handle, Consume, DeltaSigHandler, GapSigRevHandler, FirstMessage, Repopulate,
       ram
  <2> QED BY <1>1, <2>1, SigRevFree, RevFree
<1>3. ASSUME NEW n \in Node, NEW c \in Call, UserCall(n, c) PROVE UNCHANGED stuck
  BY <1>3 DEF UserCall, CallStep, CallReload, FailSave, PushRefused, PushNotAtRest, PushSend,
     PushDone, ram
<1>4. ASSUME NEW n \in Node, NEW c \in Call, NEW amt \in PushAmt,
             PushStart(n, c, amt) \/ PushTimeout(n, c)
      PROVE  UNCHANGED stuck
  BY <1>4 DEF PushStart, PushTimeout, ram
<1>5. ASSUME Environment PROVE UNCHANGED stuck
  <2>1. ASSUME NEW S \in SUBSET Node, Reconnect(S) PROVE FALSE
    <3>1. conns' = conns + 1 BY <2>1, Zenon DEF Reconnect
    <3> QED BY <3>1
  <2> QED BY <1>5, <2>1 DEF Environment, BreakChannel, OPEventHandler, SaveQChan, ram
<1>6. ASSUME NEW n \in Node, NEW g \in Gen, FillClearToSend(n, g) PROVE UNCHANGED stuck
  BY <1>6 DEF FillClearToSend
<1>7. ASSUME NEW n \in Node, NEW c \in Call, PushTimeout(n, c) PROVE UNCHANGED stuck
  BY <1>7 DEF PushTimeout, ram
<1>8. UNCHANGED vars => UNCHANGED stuck BY DEF vars, ram
<1> QED BY <1>1, <1>2, <1>3, <1>4, <1>5, <1>6, <1>7, <1>8, Zenon DEF Next

(* While the connection lasts, no handler of a push blocks on ClearToSend  *)
(* with the channel's mutex held, whichever messages are refused, whichever*)
(* pushes cross or time out: SigRevHandler and RevHandler fill the slot    *)
(* only when a push is pending, and its token was taken when it began.     *)
THEOREM HandlersNeverBlock == Spec => [](~SaveRace /\ conns = 0 => NeverStuck)
<1>1. Init => NeverStuck BY DEF Init, NeverStuck
<1>2. /\ Inv /\ (raced = {} => PairInv) /\ (~SaveRace /\ conns = 0 => NeverStuck)
      /\ [Next]_vars
      => (~SaveRace /\ conns = 0 => NeverStuck)'
  <2> SUFFICES ASSUME Inv, raced = {} => PairInv, (~SaveRace /\ conns = 0 => NeverStuck), [Next]_vars,
                      ~SaveRace, conns' = 0
               PROVE  NeverStuck'
    BY Zenon
  <2>1. conns = 0 BY ConnsGrow
  <2>2. raced = {} BY <2>1 DEF Inv, Revocations
  <2> QED BY <2>1, <2>2, StepFree
<1> QED BY <1>1, <1>2, Invariance, PairInvariance, PTL DEF Spec

-----------------------------------------------------------------------------
(* Pushes that fit.                                                        *)

(* An amount that leaves both sides an output.                             *)
Room(a) == a >= MinOutput + Fee /\ Value - a >= MinOutput + Fee

(* A good signature for state i of the side that holds a in it.            *)
For(sig, i, a) == sig = PlainTx(i, i, a, Value - a) /\ Room(a)

LEMMA RoomBuilds ==
  ASSUME NEW st \in PlainCom, Room(st.MyAmt)
  PROVE  Buildable(st)
<1> DEFINE a == st.MyAmt
           tx == BuildStateTxs(st, TRUE)
<1>1. tx = PlainTx(st.StateIdx, st.StateIdx, a, Value - a) BY PlainBuild
<1>2. a \in Int /\ MinOutput \in Nat \ {0} /\ Fee \in Nat /\ Value \in Nat
  BY PlainFields, ValueAssumption
<1>3. Room(a) OBVIOUS
<1> HIDE DEF a
<1>4. OutAmt(a) >= MinOutput /\ OutAmt(Value - a) >= MinOutput
  BY <1>2, <1>3 DEF OutAmt, Room
<1>5. tx.own = OutAmt(a) /\ tx.other = OutAmt(Value - a) /\ tx.htlcs = {}
  <2> HIDE DEF tx
  <2> QED BY <1>1 DEF PlainTx
<1> HIDE DEF tx
<1>6. tx.own # 0 BY <1>2, <1>4, <1>5
<1> QED BY <1>4, <1>5, <1>6 DEF Buildable, tx

LEMMA ForVerifies ==
  ASSUME NEW st \in PlainCom, NEW sig, For(sig, st.StateIdx, st.MyAmt)
  PROVE  VerifySigs(st, sig)
<1>1. Buildable(st) BY RoomBuilds DEF For
<1> QED BY <1>1, PlainBuild DEF VerifySigs, For

LEMMA SignedFor ==
  ASSUME NEW st \in PlainCom, Room(st.MyAmt), st.ElkPoint = st.StateIdx,
         NEW a \in Int, a = Value - st.MyAmt
  PROVE  For(SignState(st), st.StateIdx, a)
<1>1. st.MyAmt \in Int /\ Value \in Nat BY PlainFields, ValueAssumption
<1>2. Value - a = st.MyAmt BY <1>1
<1>3. Room(a) BY <1>1, <1>2 DEF Room
<1>4. SignState(st) = PlainTx(st.StateIdx, st.ElkPoint, Value - st.MyAmt, st.MyAmt)
  BY PlainBuild DEF SignState
<1> QED BY <1>2, <1>3, <1>4 DEF For

(* What each message is good for.                                          *)
LEMMA PushAcceptable ==
  ASSUME NEW x \in PlainCom, NEW d \in Int, d > 0, NEW c \in BOOLEAN, NEW sig,
         For(sig, x.StateIdx + 1, x.MyAmt + d)
  PROVE  DeltaSigOK(Seen(x, d, c), d, sig, c)
<1> DEFINE s == Seen(x, d, c)
           p == PulledState(s, d, c)
           v == [p EXCEPT !.ElkPoint = s.NextElkPoint]
<1>1. s \in PlainCom /\ s = [x EXCEPT !.Collision = IF c THEN d ELSE @] BY PlainSeen, Zenon
<1>2. s.StateIdx = x.StateIdx /\ s.MyAmt = x.MyAmt BY <1>1 DEF PlainCom
<1> HIDE DEF s
<1>3. p \in PlainCom BY <1>1, PlainPulled, Zenon
<1>4. p.StateIdx = x.StateIdx + 1 /\ p.MyAmt = x.MyAmt + d
  BY <1>1, <1>2 DEF PulledState, PlainCom
<1> HIDE DEF p
<1>5. s.NextElkPoint \in Nat BY <1>1, PlainFields
<1>6. v \in PlainCom /\ v.StateIdx = x.StateIdx + 1 /\ v.MyAmt = x.MyAmt + d
  BY <1>3, <1>4, <1>5 DEF PlainCom
<1> HIDE DEF v
<1>7. VerifySigs(v, sig)
  <2>1. For(sig, v.StateIdx, v.MyAmt) BY <1>6
  <2> QED BY <1>6, <2>1, ForVerifies
<1>8. Uncleared(s) = {} /\ AmtOf(s.HTLCs, {}) = 0 BY <1>1, PlainHTLCs
<1>9. TheirBalance(s) = Value - 0 - x.MyAmt /\ MyBalance(s) = x.MyAmt
  BY <1>2, <1>8, Zenon DEF TheirBalance, MyBalance
<1>10. x.MyAmt \in Int BY PlainFields
<1>11. Room(x.MyAmt + d) BY DEF For
<1>12. TheirBalance(s) - (d + Fee) >= MinOutput /\ MyBalance(s) + d - Fee >= MinOutput /\ d >= 1
  BY <1>9, <1>10, <1>11, ValueAssumption DEF Room
<1>13. DeltaSigOK(s, d, sig, c) BY <1>7, <1>12, Zenon DEF DeltaSigOK, v, p
<1> QED BY <1>13, Zenon DEF s

LEMMA SigRevAcceptable ==
  ASSUME NEW x \in PlainCom, NEW m, For(m.Sig, x.StateIdx + 1, x.MyAmt + x.Delta),
         m.Elk = x.ElkPoint
  PROVE  SigRevOK(x, m)
<1> DEFINE p == PushedState(x)
           v == [p EXCEPT !.ElkPoint = x.NextElkPoint]
<1>1. p \in PlainCom /\ p = [x EXCEPT !.StateIdx = @ + 1, !.Delta = 0, !.MyAmt = @ + x.Delta]
  BY PlainPushed, Zenon
<1> HIDE DEF p
<1>2. p.StateIdx = x.StateIdx + 1 /\ p.MyAmt = x.MyAmt + x.Delta /\ p.ElkPoint = x.ElkPoint
  BY <1>1 DEF PlainCom
<1>3. x.NextElkPoint \in Nat BY PlainFields
<1>4. v \in PlainCom /\ v.StateIdx = x.StateIdx + 1 /\ v.MyAmt = x.MyAmt + x.Delta
  <2>1. v \in PlainCom BY <1>1, <1>3, SetElkPoint
  <2>2. v.StateIdx = p.StateIdx /\ v.MyAmt = p.MyAmt BY <1>1 DEF PlainCom
  <2> QED BY <1>2, <2>1, <2>2
<1> HIDE DEF v
<1>5. For(m.Sig, v.StateIdx, v.MyAmt) BY <1>4
<1>6. VerifySigs(v, m.Sig) BY <1>4, <1>5, ForVerifies
<1>7. IngestElkrem(p, m.Elk) BY <1>2 DEF IngestElkrem
<1> QED BY <1>6, <1>7, Zenon DEF SigRevOK, v, p

LEMMA GapAcceptable ==
  ASSUME NEW x \in PlainCom, NEW m, For(m.Sig, x.StateIdx + 1, x.MyAmt + x.Delta),
         m.Elk = x.ElkPoint, m.N2ElkPoint \in Nat
  PROVE  GapSigRevOK(x, m)
<1> DEFINE g == GapState(x, m.N2ElkPoint)
           v == [g EXCEPT !.StateIdx = @ + 1, !.ElkPoint = g.NextElkPoint]
<1>1. g \in PlainCom BY PlainGap, Zenon
<1>2. g = [x EXCEPT !.MyAmt = @ + x.Delta, !.Delta = x.Collision, !.Collision = 0,
                    !.ElkPoint = x.NextElkPoint, !.NextElkPoint = x.N2ElkPoint,
                    !.N2ElkPoint = m.N2ElkPoint]
  BY PlainGap, Zenon
<1>3. g.StateIdx = x.StateIdx /\ g.MyAmt = x.MyAmt + x.Delta BY <1>2 DEF PlainCom
<1> HIDE DEF g
<1>4. v \in PlainCom /\ v.StateIdx = x.StateIdx + 1 /\ v.MyAmt = x.MyAmt + x.Delta
  <2>1. g.StateIdx + 1 \in Nat /\ g.NextElkPoint \in Nat BY <1>1, PlainFields
  <2>2. v \in PlainCom BY <1>1, <2>1 DEF PlainCom
  <2>3. v.StateIdx = g.StateIdx + 1 /\ v.MyAmt = g.MyAmt BY <1>1 DEF PlainCom
  <2> QED BY <1>3, <2>2, <2>3
<1> HIDE DEF v
<1>5. For(m.Sig, v.StateIdx, v.MyAmt) BY <1>4
<1>6. VerifySigs(v, m.Sig) BY <1>4, <1>5, ForVerifies
<1>7. IngestElkrem(x, m.Elk) BY DEF IngestElkrem
<1> QED BY <1>6, <1>7, Zenon DEF GapSigRevOK, v, g

(* What each message is signed for.                                        *)
LEMMA PushSigned ==
  ASSUME NEW s \in PlainCom, s.NextElkPoint = s.StateIdx + 1, Room(s.MyAmt + s.Delta),
         NEW a \in Int, a = Value - (s.MyAmt + s.Delta)
  PROVE  For(SendDeltaSig(s).Sig, s.StateIdx + 1, a) /\ Buildable(DeltaSigState(s))
<1> DEFINE v == DeltaSigState(s)
<1>1. s.StateIdx + 1 \in Nat /\ s.MyAmt + s.Delta \in Int BY PlainFields
<1>2. v \in PlainCom /\ v.StateIdx = s.StateIdx + 1 /\ v.MyAmt = s.MyAmt + s.Delta
      /\ v.ElkPoint = s.NextElkPoint
  BY <1>1 DEF DeltaSigState, PlainCom
<1>3. SendDeltaSig(s).Sig = SignState(v) BY DEF SendDeltaSig
<1> HIDE DEF v
<1>4. Room(v.MyAmt) /\ v.ElkPoint = v.StateIdx /\ a = Value - v.MyAmt BY <1>2
<1>5. For(SignState(v), v.StateIdx, a) BY <1>2, <1>4, SignedFor
<1>6. Buildable(v) BY <1>2, <1>4, RoomBuilds
<1> QED BY <1>2, <1>3, <1>5, <1>6 DEF v

LEMMA SigRevSigned ==
  ASSUME NEW s \in PlainCom, s.NextElkPoint = s.StateIdx, Room(s.MyAmt),
         NEW a \in Int, a = Value - s.MyAmt
  PROVE  For(SendSigRev(s).Sig, s.StateIdx, a) /\ Buildable(SigRevState(s))
<1> DEFINE v == SigRevState(s)
<1>1. v \in PlainCom /\ v.StateIdx = s.StateIdx /\ v.MyAmt = s.MyAmt /\ v.ElkPoint = s.NextElkPoint
  BY DEF SigRevState, PlainCom
<1>2. SendSigRev(s).Sig = SignState(v) BY DEF SendSigRev, Revoking
<1> HIDE DEF v
<1>3. Room(v.MyAmt) /\ v.ElkPoint = v.StateIdx /\ a = Value - v.MyAmt BY <1>1
<1>4. For(SignState(v), v.StateIdx, a) BY <1>1, <1>3, SignedFor
<1>5. Buildable(v) BY <1>1, <1>3, RoomBuilds
<1> QED BY <1>1, <1>2, <1>4, <1>5 DEF v

LEMMA GapSigned ==
  ASSUME NEW s \in PlainCom, s.N2ElkPoint = s.StateIdx + 1, Room(s.MyAmt + s.Delta),
         NEW a \in Int, a = Value - (s.MyAmt + s.Delta)
  PROVE  For(SendGapSigRev(s).Sig, s.StateIdx + 1, a) /\ Buildable(GapSigRevState(s))
<1> DEFINE v == GapSigRevState(s)
<1>1. s.StateIdx + 1 \in Nat /\ s.MyAmt + s.Delta \in Int BY PlainFields
<1>2. v = [s EXCEPT !.StateIdx = @ + 1, !.ElkPoint = s.N2ElkPoint, !.MyAmt = s.MyAmt + s.Delta]
  BY PlainSettled DEF GapSigRevState
<1>3. v \in PlainCom /\ v.StateIdx = s.StateIdx + 1 /\ v.MyAmt = s.MyAmt + s.Delta
      /\ v.ElkPoint = s.N2ElkPoint
  BY <1>1, <1>2 DEF PlainCom
<1>4. SendGapSigRev(s).Sig = SignState(v) BY DEF SendGapSigRev, Revoking
<1> HIDE DEF v
<1>5. Room(v.MyAmt) /\ v.ElkPoint = v.StateIdx /\ a = Value - v.MyAmt BY <1>3
<1>6. For(SignState(v), v.StateIdx, a) BY <1>3, <1>5, SignedFor
<1>7. Buildable(v) BY <1>3, <1>5, RoomBuilds
<1> QED BY <1>3, <1>4, <1>6, <1>7 DEF v

-----------------------------------------------------------------------------
(* The stages of pushes that fit, with what the messages between the two   *)
(* are good for.  Each is a stage from above, without lost or refused      *)
(* messages.                                                               *)

(* y's push, x's answer to it, and x's answer to crossing pushes, before   *)
(* and after y has taken x's.                                              *)
PushFor(m, y, x) ==
    m.type = "DeltaSig" /\ m.Delta = - y.Delta /\ For(m.Sig, x.StateIdx + 1, x.MyAmt - y.Delta)
AnswerFor(m, y) ==
    m.type = "SigRev" /\ m.Elk = y.StateIdx /\ For(m.Sig, y.StateIdx + 1, y.MyAmt + y.Delta)
GapFor(m, y) ==
    m.type = "GapSigRev" /\ m.Elk = y.StateIdx - 1 /\ For(m.Sig, y.StateIdx + 1, y.MyAmt + y.Delta)
NextGapFor(m, y, x) ==
    /\ m.type = "GapSigRev" /\ m.Elk = y.StateIdx
    /\ For(m.Sig, y.StateIdx + 2, y.MyAmt + y.Delta - x.Delta)
RevFor(m, y) == m.type = "Rev" /\ m.Elk = y.StateIdx - 1
NextRevFor(m, y) == m.type = "Rev" /\ m.Elk = y.StateIdx

Lone(q) == q # <<>> /\ Tail(q) = <<>>
Two(q)  == q # <<>> /\ Lone(Tail(q))

FitIdle(x, y, q, r) ==
    Resting(x) /\ Resting(y) /\ Level(x, y) /\ Even(x, y) /\ q = <<>> /\ r = <<>>
FitOffer(x, y, q, r) ==
    /\ Pushing(x) /\ Resting(y) /\ Level(x, y) /\ Even(x, y)
    /\ q = <<>> /\ Lone(r) /\ PushFor(Head(r), x, y)
FitOffers(x, y, q, r) ==
    /\ Pushing(x) /\ Pushing(y) /\ Level(x, y) /\ Even(x, y)
    /\ Lone(q) /\ PushFor(Head(q), y, x) /\ Lone(r) /\ PushFor(Head(r), x, y)
FitTaken(x, y, q, r) ==
    /\ Holding(x) /\ Pushing(y) /\ Ahead(x, y) /\ Twice(x, y)
    /\ q = <<>> /\ Lone(r) /\ AnswerFor(Head(r), y)
FitLast(x, y, q, r) ==
    /\ Holding(x) /\ Resting(y) /\ Level(x, y) /\ Even(x, y)
    /\ Lone(q) /\ RevFor(Head(q), x) /\ r = <<>>
FitEarly(x, y, q, r) ==
    /\ Holding(x) /\ Pushing(y) /\ Level(x, y) /\ Even(x, y)
    /\ Two(q) /\ RevFor(Head(q), x) /\ PushFor(Head(Tail(q)), y, x) /\ r = <<>>
FitCrossing(x, y, q, r) ==
    /\ Crossing(x) /\ Pushing(y) /\ Ahead(x, y) /\ Twice(x, y) /\ x.Collision = - y.Delta
    /\ q = <<>> /\ Two(r) /\ PushFor(Head(r), x, y) /\ NextGapFor(Head(Tail(r)), y, x)
FitBoth(x, y, q, r) ==
    /\ Crossing(x) /\ Crossing(y) /\ Level(x, y)
    /\ x.MyAmt + y.MyAmt = Value - x.Delta - y.Delta
    /\ Lone(q) /\ GapFor(Head(q), x) /\ Lone(r) /\ GapFor(Head(r), y)
FitHalf(x, y, q, r) ==
    /\ Holding(x) /\ Crossing(y) /\ Ahead(x, y) /\ Twice(x, y)
    /\ q = <<>> /\ Two(r) /\ GapFor(Head(r), y) /\ NextRevFor(Head(Tail(r)), y)
FitRevs(x, y, q, r) ==
    /\ Holding(x) /\ Holding(y) /\ Level(x, y) /\ Even(x, y)
    /\ Lone(q) /\ RevFor(Head(q), x) /\ Lone(r) /\ RevFor(Head(r), y)

FitStage(x, y, q, r) ==
    \/ FitIdle(x, y, q, r) \/ FitOffer(x, y, q, r) \/ FitOffers(x, y, q, r)
    \/ FitTaken(x, y, q, r) \/ FitLast(x, y, q, r) \/ FitEarly(x, y, q, r)
    \/ FitCrossing(x, y, q, r) \/ FitBoth(x, y, q, r) \/ FitHalf(x, y, q, r)
    \/ FitRevs(x, y, q, r)
FitPair(x, y, q, r) == FitStage(x, y, q, r) \/ FitStage(y, x, r, q)

(* A push in a stored state leaves the pusher an output.                   *)
Fits(x) == x.Delta < 0 => x.MyAmt + x.Delta >= MinOutput + Fee

(* The stages in which a push arrives.                                     *)
PushComes(x, y, q, r) ==
    \/ /\ Resting(x) /\ Pushing(y) /\ Level(x, y) /\ Even(x, y)
       /\ Lone(q) /\ PushFor(Head(q), y, x) /\ r = <<>>
    \/ /\ Pushing(x) /\ Pushing(y) /\ Level(x, y) /\ Even(x, y)
       /\ Lone(q) /\ PushFor(Head(q), y, x) /\ Lone(r) /\ PushFor(Head(r), x, y)
    \/ /\ Pushing(x) /\ Crossing(y) /\ Ahead(y, x) /\ Twice(y, x) /\ y.Collision = - x.Delta
       /\ Two(q) /\ PushFor(Head(q), y, x) /\ NextGapFor(Head(Tail(q)), x, y) /\ r = <<>>

LEMMA FitPushComes ==
  ASSUME NEW x \in PlainCom, NEW y \in PlainCom,
         NEW q \in Seq(Messages), NEW r \in Seq(Messages),
         FitPair(x, y, q, r), q # <<>>, Head(q).type = "DeltaSig"
  PROVE  PushComes(x, y, q, r)
<1>1. /\ x.StateIdx \in Nat /\ x.MyAmt \in Int /\ x.Delta \in Int /\ x.Collision \in Int
      /\ y.StateIdx \in Nat /\ y.MyAmt \in Int /\ y.Delta \in Int /\ y.Collision \in Int
      /\ Value \in Nat
  BY ValueAssumption, PlainFields
<1>2. ASSUME FitStage(x, y, q, r) PROVE FitOffers(x, y, q, r)
  BY <1>2 DEF FitStage, FitIdle, FitOffer, FitTaken, FitLast, FitEarly, FitCrossing, FitBoth,
     FitHalf, FitRevs, AnswerFor, GapFor, RevFor, Lone, Two
<1>3. ASSUME FitStage(y, x, r, q)
      PROVE  FitOffer(y, x, r, q) \/ FitOffers(y, x, r, q) \/ FitCrossing(y, x, r, q)
  BY <1>3 DEF FitStage, FitIdle, FitTaken, FitLast, FitEarly, FitBoth,
     FitHalf, FitRevs, AnswerFor, GapFor, RevFor, Lone, Two
<1>4. ASSUME FitOffers(x, y, q, r) PROVE PushComes(x, y, q, r)
  BY <1>4 DEF FitOffers, PushComes
<1>5. (Level(y, x) <=> Level(x, y)) /\ (Even(y, x) <=> Even(x, y)) BY <1>1, Swapped
<1>6. ASSUME FitOffer(y, x, r, q) PROVE PushComes(x, y, q, r)
  BY <1>5, <1>6 DEF FitOffer, PushComes
<1>7. ASSUME FitOffers(y, x, r, q) PROVE PushComes(x, y, q, r)
  BY <1>5, <1>7 DEF FitOffers, PushComes
<1>8. ASSUME FitCrossing(y, x, r, q) PROVE PushComes(x, y, q, r)
  BY <1>8 DEF FitCrossing, PushComes
<1> QED BY <1>2, <1>3, <1>4, <1>6, <1>7, <1>8 DEF FitPair

(* Whichever it is, the push can be accepted.                              *)
LEMMA PushWelcome ==
  ASSUME NEW x \in PlainCom, NEW y \in PlainCom,
         NEW q \in Seq(Messages), NEW r \in Seq(Messages), PushComes(x, y, q, r)
  PROVE  /\ Head(q).Delta = - y.Delta /\ Head(q).Delta > 0 /\ x.Delta <= 0 /\ ~Due(x)
         /\ For(Head(q).Sig, x.StateIdx + 1, x.MyAmt + Head(q).Delta)
         /\ Resting(x) \/ Pushing(x)
<1>1. x.MyAmt \in Int /\ x.Delta \in Int /\ y.Delta \in Int BY PlainFields
<1>2. PushFor(Head(q), y, x) /\ y.Delta < 0 BY DEF PushComes, Pushing, Crossing
<1>3. Resting(x) \/ Pushing(x) BY DEF PushComes
<1>4. Head(q).Delta = - y.Delta BY <1>2 DEF PushFor
<1>5. Head(q).Delta > 0 BY <1>1, <1>2, <1>4
<1>6. x.Delta <= 0 /\ ~Due(x) BY <1>1, <1>3 DEF Resting, Pushing, Due
<1>7. x.MyAmt - y.Delta = x.MyAmt + Head(q).Delta BY <1>1, <1>4
<1>8. For(Head(q).Sig, x.StateIdx + 1, x.MyAmt + Head(q).Delta) BY <1>2, <1>7 DEF PushFor
<1> QED BY <1>3, <1>4, <1>5, <1>6, <1>8

-----------------------------------------------------------------------------
(* What a handler makes of a stage of pushes that fit.                     *)

(* What the points of s say of the messages it sends.                      *)
LEMMA DuePoints ==
  ASSUME NEW s \in PlainCom, Points(s), Due(s)
  PROVE  /\ s.NextElkPoint = s.StateIdx /\ s.N2ElkPoint = s.StateIdx + 1
         /\ s.ElkPoint = s.StateIdx - 1 /\ s.StateIdx \in Nat /\ s.StateIdx > 0
<1>1. s.StateIdx \in Nat BY PlainFields
<1> QED BY <1>1 DEF Points

LEMMA AnswerSent ==
  ASSUME NEW s \in PlainCom, NEW y \in PlainCom, Points(s), Due(s), Room(s.MyAmt),
         Ahead(s, y), Twice(s, y)
  PROVE  AnswerFor(SendSigRev(s), y) /\ Buildable(SigRevState(s))
<1> DEFINE m == SendSigRev(s)
           a == y.MyAmt + y.Delta
<1>1. /\ s.MyAmt \in Int /\ y.MyAmt \in Int /\ y.Delta \in Int /\ Value \in Nat
      /\ s.StateIdx \in Nat /\ y.StateIdx \in Nat
  BY PlainFields, ValueAssumption
<1>2. m.type = "SigRev" /\ m.Elk = s.StateIdx - 1 BY DEF SendSigRev, Revoking
<1>3. a \in Int /\ a = Value - s.MyAmt BY <1>1 DEF Twice
<1>4. s.NextElkPoint = s.StateIdx BY DuePoints
<1> HIDE DEF a
<1>5. For(m.Sig, s.StateIdx, a) /\ Buildable(SigRevState(s)) BY <1>3, <1>4, SigRevSigned
<1> HIDE DEF m
<1>6. s.StateIdx = y.StateIdx + 1 /\ m.Elk = y.StateIdx BY <1>1, <1>2 DEF Ahead
<1>7. For(m.Sig, y.StateIdx + 1, y.MyAmt + y.Delta) BY <1>5, <1>6 DEF a
<1>8. AnswerFor(m, y) BY <1>2, <1>6, <1>7 DEF AnswerFor
<1> QED BY <1>5, <1>8 DEF m

LEMMA GapSent ==
  ASSUME NEW s \in PlainCom, Points(s), Due(s), Room(s.MyAmt + s.Delta),
         NEW a \in Int, a = Value - (s.MyAmt + s.Delta)
  PROVE  /\ SendGapSigRev(s).type = "GapSigRev" /\ SendGapSigRev(s).Elk = s.StateIdx - 1
         /\ For(SendGapSigRev(s).Sig, s.StateIdx + 1, a) /\ Buildable(GapSigRevState(s))
<1> DEFINE m == SendGapSigRev(s)
<1>1. m.type = "GapSigRev" /\ m.Elk = s.StateIdx - 1 BY DEF SendGapSigRev, Revoking
<1>2. s.N2ElkPoint = s.StateIdx + 1 BY DuePoints
<1>3. For(m.Sig, s.StateIdx + 1, a) /\ Buildable(GapSigRevState(s)) BY <1>2, GapSigned
<1> QED BY <1>1, <1>3

(* The push meets a node at rest, which has its token.                     *)
LEMMA RestingTakes ==
  ASSUME NEW x \in PlainCom, NEW y \in PlainCom, NEW s \in PlainCom,
         NEW q \in Seq(Messages), NEW r \in Seq(Messages), NEW u \in Seq(Messages),
         PushComes(x, y, q, r), Resting(x), NEW d, d = Head(q).Delta,
         s.StateIdx = x.StateIdx + 1, s.MyAmt = x.MyAmt + d, s.Delta = d, s.Collision = 0,
         Points(s)
  PROVE  /\ Buildable(SigRevState(s))
         /\ Sent(r, u, SendSigRev(s)) => FitPair(s, y, Tail(q), u)
<1>1. /\ x.StateIdx \in Nat /\ x.MyAmt \in Int /\ x.Delta \in Int /\ x.Collision \in Int
      /\ y.StateIdx \in Nat /\ y.MyAmt \in Int /\ y.Delta \in Int /\ y.Collision \in Int
      /\ Value \in Nat
  BY ValueAssumption, PlainFields
<1>2. Pushing(y) /\ Level(x, y) /\ Even(x, y) /\ Lone(q) /\ r = <<>>
  BY <1>1 DEF PushComes, Resting, Pushing
<1>3. d = - y.Delta /\ d > 0 /\ Room(x.MyAmt + d) BY PushWelcome DEF For
<1>4. d \in Int BY <1>1, <1>3
<1>5. Holding(s) BY <1>3 DEF Holding
<1>6. Ahead(s, y) BY <1>1, <1>2 DEF Ahead, Level
<1>7. Twice(s, y) BY <1>1, <1>2, <1>3, <1>4, CountedTwice
<1>8. Due(s) BY <1>5 DEF Due, Holding
<1>9. Room(s.MyAmt) BY <1>3
<1>10. AnswerFor(SendSigRev(s), y) /\ Buildable(SigRevState(s))
  BY <1>6, <1>7, <1>8, <1>9, AnswerSent
<1> DEFINE m == SendSigRev(s)
<1> HIDE DEF m
<1>11. AnswerFor(m, y) BY <1>10 DEF m
<1>12. ASSUME Sent(r, u, m) PROVE FitPair(s, y, Tail(q), u)
  <2>1. Lone(u) /\ Head(u) = m BY <1>2, <1>12 DEF Sent, Lone
  <2>2. Tail(q) = <<>> BY <1>2 DEF Lone
  <2> DEFINE t == Tail(q)
  <2> HIDE DEF t
  <2>3. FitTaken(s, y, t, u) BY <1>2, <1>5, <1>6, <1>7, <1>11, <2>1, <2>2 DEF FitTaken, t
  <2> QED BY <2>3 DEF FitPair, FitStage, t
<1> QED BY <1>10, <1>12 DEF m

(* The amounts of a push that crosses another.                             *)
LEMMA CrossedDelta ==
  ASSUME NEW x \in PlainCom, NEW y \in PlainCom, NEW m, PushFor(m, y, x),
         Pushing(y) \/ Crossing(y), NEW d, d = m.Delta
  PROVE  d = - y.Delta /\ d > 0 /\ d \in Int
<1>1. y.Delta \in Int /\ y.Delta < 0 BY PlainFields DEF Pushing, Crossing
<1>2. d = - y.Delta BY DEF PushFor
<1>3. d > 0 /\ d \in Int BY <1>1, <1>2
<1> QED BY <1>2, <1>3

LEMMA CrossedAmount ==
  ASSUME NEW x \in PlainCom, NEW d \in Int, d > 0, x.Delta < 0, Fits(x),
         NEW a, a = x.MyAmt + d
  PROVE  a + x.Delta >= MinOutput + Fee
<1>1. x.MyAmt \in Int /\ x.Delta \in Int /\ Fee \in Nat /\ MinOutput \in Nat
  BY PlainFields, ValueAssumption
<1>2. x.MyAmt + x.Delta >= MinOutput + Fee BY DEF Fits
<1> QED BY <1>1, <1>2

LEMMA CrossedOther ==
  ASSUME NEW y \in PlainCom, y.Delta < 0, Fits(y), NEW e \in Int, e < 0
  PROVE  y.MyAmt + y.Delta - e >= MinOutput + Fee
<1>1. y.MyAmt \in Int /\ y.Delta \in Int /\ Fee \in Nat /\ MinOutput \in Nat
  BY PlainFields, ValueAssumption
<1>2. y.MyAmt + y.Delta >= MinOutput + Fee BY DEF Fits
<1> QED BY <1>1, <1>2

LEMMA GapCounted ==
  ASSUME NEW s \in PlainCom, NEW y \in PlainCom, Twice(s, y),
         NEW a, a = y.MyAmt + y.Delta - s.Delta
  PROVE  a = Value - (s.MyAmt + s.Delta)
<1>1. /\ s.MyAmt \in Int /\ s.Delta \in Int /\ y.MyAmt \in Int /\ y.Delta \in Int /\ Value \in Nat
  BY PlainFields, ValueAssumption
<1> QED BY <1>1 DEF Twice

LEMMA GapCountedBoth ==
  ASSUME NEW s \in PlainCom, NEW y \in PlainCom,
         s.MyAmt + y.MyAmt = Value - s.Delta - y.Delta, NEW a, a = y.MyAmt + y.Delta
  PROVE  a = Value - (s.MyAmt + s.Delta)
<1>1. /\ s.MyAmt \in Int /\ s.Delta \in Int /\ y.MyAmt \in Int /\ y.Delta \in Int /\ Value \in Nat
  BY PlainFields, ValueAssumption
<1> QED BY <1>1

LEMMA CrossedSum ==
  ASSUME NEW x \in PlainCom, NEW y \in PlainCom, NEW s, NEW d, d = - y.Delta,
         s.MyAmt = x.MyAmt + d, s.Delta = x.Delta
  PROVE  x.MyAmt + x.Delta - y.Delta = s.MyAmt + s.Delta
<1>1. x.MyAmt \in Int /\ x.Delta \in Int /\ y.Delta \in Int BY PlainFields
<1> QED BY <1>1

LEMMA NextOfNext ==
  ASSUME NEW i \in Nat, NEW j, j = i + 1
  PROVE  j - 1 = i /\ j + 1 = i + 2
  OBVIOUS

(* It crosses the node's own push.                                         *)
LEMMA CrossingFits ==
  ASSUME NEW x \in PlainCom, NEW y \in PlainCom, NEW s \in PlainCom,
         NEW q \in Seq(Messages), NEW r \in Seq(Messages), NEW u \in Seq(Messages),
         Pushing(x), Pushing(y), Level(x, y), Even(x, y), Lone(q), PushFor(Head(q), y, x),
         Lone(r), PushFor(Head(r), x, y), NEW d, d = Head(q).Delta, Fits(x), Fits(y),
         s.StateIdx = x.StateIdx + 1, s.MyAmt = x.MyAmt + d, s.Delta = x.Delta, s.Collision = d,
         Points(s)
  PROVE  /\ Buildable(GapSigRevState(s))
         /\ Sent(r, u, SendGapSigRev(s)) => FitPair(s, y, Tail(q), u)
<1>1. /\ x.StateIdx \in Nat /\ x.MyAmt \in Int /\ x.Delta \in Int /\ x.Collision \in Int
      /\ y.StateIdx \in Nat /\ y.MyAmt \in Int /\ y.Delta \in Int /\ y.Collision \in Int
      /\ Value \in Nat /\ Fee \in Nat /\ MinOutput \in Nat
  BY ValueAssumption, PlainFields
<1>2. d = - y.Delta /\ d > 0 /\ d \in Int BY CrossedDelta
<1>3. Crossing(s) BY <1>2 DEF Crossing, Pushing
<1>4. Ahead(s, y) BY <1>1 DEF Ahead, Level
<1>5. Twice(s, y) BY <1>1, <1>2, CountedTwice
<1>6. Due(s) BY <1>2 DEF Due
<1> DEFINE a == y.MyAmt + y.Delta - s.Delta
<1>7. a \in Int /\ a = Value - (s.MyAmt + s.Delta)
  <2>1. s.Delta \in Int BY PlainFields
  <2>2. a \in Int BY <1>1, <2>1
  <2>3. a = Value - (s.MyAmt + s.Delta) BY <1>5, GapCounted
  <2> QED BY <2>2, <2>3
<1>8. Room(s.MyAmt + s.Delta)
  <2>1. x.Delta < 0 /\ y.Delta < 0 /\ s.Delta < 0 BY DEF Pushing
  <2>2. s.MyAmt + x.Delta >= MinOutput + Fee BY <1>2, <2>1, CrossedAmount
  <2>3. s.MyAmt + s.Delta >= MinOutput + Fee BY <2>2
  <2>4. s.Delta \in Int BY PlainFields
  <2>5. a >= MinOutput + Fee BY <2>1, <2>4, CrossedOther
  <2> HIDE DEF a
  <2>6. Value - (s.MyAmt + s.Delta) >= MinOutput + Fee BY <1>7, <2>5
  <2> QED BY <2>3, <2>6 DEF Room
<1> HIDE DEF a
<1> DEFINE m == SendGapSigRev(s)
<1>9. /\ m.type = "GapSigRev" /\ m.Elk = s.StateIdx - 1
      /\ For(m.Sig, s.StateIdx + 1, a) /\ Buildable(GapSigRevState(s))
  BY <1>6, <1>7, <1>8, GapSent
<1> HIDE DEF m
<1>10. NextGapFor(m, y, s)
  <2>1. m.Elk = y.StateIdx /\ s.StateIdx + 1 = y.StateIdx + 2 BY <1>1, <1>4, <1>9 DEF Ahead
  <2>2. For(m.Sig, y.StateIdx + 2, y.MyAmt + y.Delta - s.Delta) BY <1>9, <2>1 DEF a
  <2> QED BY <1>9, <2>1, <2>2 DEF NextGapFor
<1>11. PushFor(Head(r), s, y) BY DEF PushFor
<1>12. ASSUME Sent(r, u, m) PROVE FitPair(s, y, Tail(q), u)
  <2>1. Two(u) /\ Head(u) = Head(r) /\ Head(Tail(u)) = m BY <1>12 DEF Sent, Lone, Two
  <2> DEFINE t == Tail(q)
  <2>2. t = <<>> BY DEF Lone
  <2> HIDE DEF t
  <2>3. s.Collision = - y.Delta BY <1>2
  <2>4. FitCrossing(s, y, t, u)
    BY <1>3, <1>4, <1>5, <1>10, <1>11, <2>1, <2>2, <2>3 DEF FitCrossing
  <2> QED BY <2>4 DEF FitPair, FitStage, t
<1> QED BY <1>9, <1>12 DEF m

(* It comes after the peer has taken the node's push.                      *)
LEMMA CrossedFits ==
  ASSUME NEW x \in PlainCom, NEW y \in PlainCom, NEW s \in PlainCom,
         NEW q \in Seq(Messages), NEW r \in Seq(Messages), NEW u \in Seq(Messages),
         Pushing(x), Crossing(y), Ahead(y, x), Twice(y, x), Two(q),
         PushFor(Head(q), y, x), NextGapFor(Head(Tail(q)), x, y), r = <<>>,
         NEW d, d = Head(q).Delta, Fits(x), Fits(y),
         s.StateIdx = x.StateIdx + 1, s.MyAmt = x.MyAmt + d, s.Delta = x.Delta, s.Collision = d,
         Points(s)
  PROVE  /\ Buildable(GapSigRevState(s))
         /\ Sent(r, u, SendGapSigRev(s)) => FitPair(s, y, Tail(q), u)
<1>1. /\ x.StateIdx \in Nat /\ x.MyAmt \in Int /\ x.Delta \in Int /\ x.Collision \in Int
      /\ y.StateIdx \in Nat /\ y.MyAmt \in Int /\ y.Delta \in Int /\ y.Collision \in Int
      /\ Value \in Nat /\ Fee \in Nat /\ MinOutput \in Nat
  BY ValueAssumption, PlainFields
<1>2. d = - y.Delta /\ d > 0 /\ d \in Int BY CrossedDelta
<1>3. Crossing(s) BY <1>2 DEF Crossing, Pushing
<1>4. Level(s, y) BY <1>1 DEF Ahead, Level
<1>5. s.MyAmt + y.MyAmt = Value - s.Delta - y.Delta BY <1>1, <1>2, CountedBoth
<1>6. Due(s) BY <1>2 DEF Due
<1> DEFINE a == y.MyAmt + y.Delta
<1>7. a \in Int /\ a = Value - (s.MyAmt + s.Delta)
  <2>1. a \in Int BY <1>1
  <2>2. a = Value - (s.MyAmt + s.Delta) BY <1>5, GapCountedBoth
  <2> QED BY <2>1, <2>2
<1>8. Room(s.MyAmt + s.Delta)
  <2>1. x.Delta < 0 /\ y.Delta < 0 BY DEF Pushing, Crossing
  <2>2. s.MyAmt + x.Delta >= MinOutput + Fee BY <1>2, <2>1, CrossedAmount
  <2>3. s.MyAmt + s.Delta >= MinOutput + Fee BY <2>2
  <2>4. a >= MinOutput + Fee BY <2>1 DEF Fits
  <2> HIDE DEF a
  <2>5. Value - (s.MyAmt + s.Delta) >= MinOutput + Fee BY <1>7, <2>4
  <2> QED BY <2>3, <2>5 DEF Room
<1> HIDE DEF a
<1> DEFINE m == SendGapSigRev(s)
<1>9. /\ m.type = "GapSigRev" /\ m.Elk = s.StateIdx - 1
      /\ For(m.Sig, s.StateIdx + 1, a) /\ Buildable(GapSigRevState(s))
  BY <1>6, <1>7, <1>8, GapSent
<1> HIDE DEF m
<1>10. GapFor(m, y)
  <2>1. m.Elk = y.StateIdx - 1 /\ s.StateIdx + 1 = y.StateIdx + 1 BY <1>1, <1>4, <1>9 DEF Level
  <2>2. For(m.Sig, y.StateIdx + 1, y.MyAmt + y.Delta) BY <1>9, <2>1 DEF a
  <2> QED BY <1>9, <2>1, <2>2 DEF GapFor
<1> DEFINE z == Head(Tail(q))
<1>11. NextGapFor(z, x, y) OBVIOUS
<1> HIDE DEF z
<1>12. GapFor(z, s)
  <2>1. s.StateIdx - 1 = x.StateIdx /\ s.StateIdx + 1 = x.StateIdx + 2 BY <1>1, NextOfNext
  <2>2. x.MyAmt + x.Delta - y.Delta = s.MyAmt + s.Delta BY <1>2, CrossedSum
  <2> QED BY <1>11, <2>1, <2>2 DEF NextGapFor, GapFor
<1>13. ASSUME Sent(r, u, m) PROVE FitPair(s, y, Tail(q), u)
  <2>1. Lone(u) /\ Head(u) = m BY <1>13 DEF Sent, Lone
  <2> DEFINE t == Tail(q)
  <2>2. Lone(t) /\ Head(t) = z BY DEF Two, z
  <2> HIDE DEF t
  <2>3. FitBoth(s, y, t, u)
    BY <1>3, <1>4, <1>5, <1>10, <1>12, <2>1, <2>2 DEF FitBoth
  <2> QED BY <2>3 DEF FitPair, FitStage, t
<1> QED BY <1>9, <1>13 DEF m

LEMMA PushingTakes ==
  ASSUME NEW x \in PlainCom, NEW y \in PlainCom, NEW s \in PlainCom,
         NEW q \in Seq(Messages), NEW r \in Seq(Messages), NEW u \in Seq(Messages),
         PushComes(x, y, q, r), ~Resting(x), NEW d, d = Head(q).Delta, Fits(x), Fits(y),
         s.StateIdx = x.StateIdx + 1, s.MyAmt = x.MyAmt + d, s.Delta = x.Delta, s.Collision = d,
         Points(s)
  PROVE  /\ Buildable(GapSigRevState(s))
         /\ Sent(r, u, SendGapSigRev(s)) => FitPair(s, y, Tail(q), u)
  BY CrossingFits, CrossedFits, Zenon DEF PushComes

(* The answer to the node's push.                                          *)
LEMMA FitSigRevComes ==
  ASSUME NEW x \in PlainCom, NEW y \in PlainCom,
         NEW q \in Seq(Messages), NEW r \in Seq(Messages),
         FitPair(x, y, q, r), q # <<>>, Head(q).type = "SigRev"
  PROVE  FitTaken(y, x, r, q)
<1>1. ~FitStage(x, y, q, r)
  BY DEF FitStage, FitIdle, FitOffer, FitOffers, FitTaken, FitLast, FitEarly, FitCrossing, FitBoth,
     FitHalf, FitRevs, PushFor, AnswerFor, GapFor, RevFor, Lone, Two
<1>2. ASSUME FitStage(y, x, r, q) PROVE FitTaken(y, x, r, q)
  BY <1>2 DEF FitStage, FitIdle, FitOffer, FitOffers, FitLast, FitEarly, FitCrossing, FitBoth,
     FitHalf, FitRevs, PushFor, GapFor, RevFor, Lone, Two
<1> QED BY <1>1, <1>2 DEF FitPair

LEMMA SigRevWelcome ==
  ASSUME NEW x \in PlainCom, NEW y \in PlainCom, Points(x), NEW q, NEW r, FitTaken(y, x, r, q)
  PROVE  x.Delta < 0 /\ x.Collision = 0 /\ SigRevOK(x, Head(q))
<1> DEFINE m == Head(q)
<1>1. Pushing(x) /\ AnswerFor(m, x) BY DEF FitTaken
<1>2. x.Delta \in Int BY PlainFields
<1>3. x.ElkPoint = x.StateIdx BY <1>1, <1>2 DEF Points, Due, Pushing
<1> HIDE DEF m
<1>4. For(m.Sig, x.StateIdx + 1, x.MyAmt + x.Delta) /\ m.Elk = x.ElkPoint
  BY <1>1, <1>3 DEF AnswerFor
<1>5. SigRevOK(x, m) BY <1>4, SigRevAcceptable
<1> QED BY <1>1, <1>5 DEF Pushing, m

LEMMA SigRevFits ==
  ASSUME NEW x \in PlainCom, NEW y \in PlainCom, NEW s \in PlainCom,
         NEW q \in Seq(Messages), NEW r \in Seq(Messages), NEW u \in Seq(Messages),
         FitTaken(y, x, r, q), Sent(r, u, SendREV(s)),
         s.StateIdx = x.StateIdx + 1, s.MyAmt = x.MyAmt + x.Delta,
         s.Delta = 0, s.Collision = x.Collision
  PROVE  FitPair(s, y, Tail(q), u)
<1>1. /\ x.StateIdx \in Nat /\ x.MyAmt \in Int /\ x.Delta \in Int
      /\ y.StateIdx \in Nat /\ y.MyAmt \in Int /\ Value \in Nat
  BY ValueAssumption, PlainFields
<1>2. Holding(y) /\ Pushing(x) /\ Ahead(y, x) /\ Twice(y, x) /\ r = <<>> /\ Lone(q)
  BY DEF FitTaken
<1> DEFINE m == SendREV(s)
           t == Tail(q)
<1>3. m.type = "Rev" /\ m.Elk = s.StateIdx - 1 BY DEF SendREV
<1>4. t = <<>> BY <1>2 DEF Lone
<1> HIDE DEF m, t
<1>5. Lone(u) /\ Head(u) = m BY <1>2 DEF Sent, Lone, m
<1>6. Level(y, s) BY <1>2 DEF Ahead, Level
<1>7. Even(y, s) BY <1>1, <1>2, CountedOnce
<1>8. Resting(s) BY <1>2 DEF Resting, Pushing
<1>9. RevFor(m, y) BY <1>3, <1>6 DEF RevFor, Level
<1>10. FitLast(y, s, u, t) BY <1>2, <1>4, <1>5, <1>6, <1>7, <1>8, <1>9 DEF FitLast
<1> QED BY <1>10 DEF FitPair, FitStage, t

(* The answer to crossing pushes.                                          *)
LEMMA FitGapComes ==
  ASSUME NEW x \in PlainCom, NEW y \in PlainCom,
         NEW q \in Seq(Messages), NEW r \in Seq(Messages),
         FitPair(x, y, q, r), q # <<>>, Head(q).type = "GapSigRev"
  PROVE  FitBoth(x, y, q, r) \/ FitHalf(y, x, r, q)
<1>1. /\ x.StateIdx \in Nat /\ x.MyAmt \in Int /\ x.Delta \in Int
      /\ y.StateIdx \in Nat /\ y.MyAmt \in Int /\ y.Delta \in Int /\ Value \in Nat
  BY ValueAssumption, PlainFields
<1>2. ASSUME FitStage(x, y, q, r) PROVE FitBoth(x, y, q, r)
  BY <1>2 DEF FitStage, FitIdle, FitOffer, FitOffers, FitTaken, FitLast, FitEarly, FitCrossing,
     FitHalf, FitRevs, PushFor, AnswerFor, RevFor, Lone, Two
<1>3. ASSUME FitStage(y, x, r, q) PROVE FitBoth(y, x, r, q) \/ FitHalf(y, x, r, q)
  BY <1>3 DEF FitStage, FitIdle, FitOffer, FitOffers, FitTaken, FitLast, FitEarly, FitCrossing,
     FitRevs, PushFor, AnswerFor, RevFor, Lone, Two
<1>4. ASSUME FitBoth(y, x, r, q) PROVE FitBoth(x, y, q, r)
  <2>1. y.MyAmt + x.MyAmt = Value - y.Delta - x.Delta /\ Level(y, x) BY <1>4 DEF FitBoth
  <2>2. x.MyAmt + y.MyAmt = Value - x.Delta - y.Delta /\ Level(x, y) BY <1>1, <2>1 DEF Level
  <2> QED BY <1>4, <2>2 DEF FitBoth
<1> QED BY <1>2, <1>3, <1>4 DEF FitPair

LEMMA GapWelcome ==
  ASSUME NEW x \in PlainCom, NEW y \in PlainCom, Points(x), NEW q, NEW r,
         FitBoth(x, y, q, r) \/ FitHalf(y, x, r, q), Head(q).N2ElkPoint \in Nat
  PROVE  Crossing(x) /\ GapSigRevOK(x, Head(q))
<1> DEFINE m == Head(q)
<1>1. Crossing(x) /\ GapFor(m, x) BY DEF FitBoth, FitHalf
<1>2. x.Collision \in Int BY PlainFields
<1>3. x.ElkPoint = x.StateIdx - 1 BY <1>1, <1>2 DEF Points, Due, Crossing
<1> HIDE DEF m
<1>4. For(m.Sig, x.StateIdx + 1, x.MyAmt + x.Delta) /\ m.Elk = x.ElkPoint
  BY <1>1, <1>3 DEF GapFor
<1>5. m.N2ElkPoint \in Nat BY DEF m
<1>6. GapSigRevOK(x, m) BY <1>4, <1>5, GapAcceptable
<1> QED BY <1>1, <1>6 DEF m

LEMMA GapFits ==
  ASSUME NEW x \in PlainCom, NEW y \in PlainCom, NEW s \in PlainCom,
         NEW q \in Seq(Messages), NEW r \in Seq(Messages), NEW u \in Seq(Messages),
         FitBoth(x, y, q, r) \/ FitHalf(y, x, r, q), Sent(r, u, SendREV(s)),
         s.StateIdx = x.StateIdx + 1, s.MyAmt = x.MyAmt + x.Delta,
         s.Delta = x.Collision, s.Collision = 0
  PROVE  FitPair(s, y, Tail(q), u)
<1>1. /\ x.StateIdx \in Nat /\ x.MyAmt \in Int /\ x.Delta \in Int /\ x.Collision \in Int
      /\ y.StateIdx \in Nat /\ y.MyAmt \in Int /\ y.Delta \in Int /\ Value \in Nat
  BY ValueAssumption, PlainFields
<1> DEFINE m == SendREV(s)
           t == Tail(q)
<1>2. m.type = "Rev" /\ m.Elk = s.StateIdx - 1 BY DEF SendREV
<1> HIDE DEF m
<1>3. m.Elk = x.StateIdx BY <1>1, <1>2
<1>4. Crossing(x) BY DEF FitBoth, FitHalf
<1>5. Holding(s) BY <1>4 DEF Holding, Crossing
<1>6. CASE FitBoth(x, y, q, r)
  <2>1. /\ Crossing(y) /\ Level(x, y) /\ Lone(q) /\ Lone(r) /\ GapFor(Head(r), y)
        /\ x.MyAmt + y.MyAmt = Value - x.Delta - y.Delta
    BY <1>6 DEF FitBoth
  <2>2. Ahead(s, y) BY <2>1 DEF Ahead, Level
  <2>3. Twice(s, y) BY <1>1, <2>1, CountedHalf
  <2>4. t = <<>> BY <2>1 DEF Lone
  <2>5. Two(u) /\ Head(u) = Head(r) /\ Head(Tail(u)) = m BY <2>1 DEF Sent, Lone, Two, m
  <2>6. NextRevFor(m, y) BY <1>2, <1>3, <2>1 DEF NextRevFor, Level
  <2> HIDE DEF t
  <2>7. FitHalf(s, y, t, u) BY <1>5, <2>1, <2>2, <2>3, <2>4, <2>5, <2>6 DEF FitHalf
  <2> QED BY <2>7 DEF FitPair, FitStage, t
<1>7. CASE FitHalf(y, x, r, q)
  <2>1. /\ Holding(y) /\ Ahead(y, x) /\ Twice(y, x) /\ r = <<>> /\ Two(q)
        /\ NextRevFor(Head(Tail(q)), x)
    BY <1>7 DEF FitHalf
  <2>2. Level(s, y) BY <2>1 DEF Ahead, Level
  <2>3. Even(s, y) BY <1>1, <2>1, CountedOnce
  <2>4. Lone(t) /\ NextRevFor(Head(t), x) BY <2>1 DEF Two
  <2>5. Lone(u) /\ Head(u) = m BY <2>1 DEF Sent, Lone, m
  <2>6. RevFor(m, y) BY <1>2, <2>2 DEF RevFor, Level
  <2> HIDE DEF t
  <2>7. RevFor(Head(t), s) BY <1>2, <1>3, <2>4 DEF RevFor, NextRevFor
  <2>8. FitRevs(s, y, t, u) BY <1>5, <2>1, <2>2, <2>3, <2>4, <2>5, <2>6, <2>7 DEF FitRevs
  <2> QED BY <2>8 DEF FitPair, FitStage, t
<1> QED BY <1>6, <1>7

(* The last message of an update.                                          *)
LEMMA FitRevComes ==
  ASSUME NEW x \in PlainCom, NEW y \in PlainCom,
         NEW q \in Seq(Messages), NEW r \in Seq(Messages),
         FitPair(x, y, q, r), q # <<>>, Head(q).type = "Rev"
  PROVE  FitLast(x, y, q, r) \/ FitEarly(x, y, q, r) \/ FitRevs(x, y, q, r)
<1>1. /\ x.StateIdx \in Nat /\ x.MyAmt \in Int /\ x.Delta \in Int
      /\ y.StateIdx \in Nat /\ y.MyAmt \in Int /\ y.Delta \in Int /\ Value \in Nat
  BY ValueAssumption, PlainFields
<1>2. ASSUME FitStage(x, y, q, r)
      PROVE  FitLast(x, y, q, r) \/ FitEarly(x, y, q, r) \/ FitRevs(x, y, q, r)
  BY <1>2 DEF FitStage, FitIdle, FitOffer, FitOffers, FitTaken, FitCrossing, FitBoth,
     FitHalf, PushFor, AnswerFor, GapFor, Lone, Two
<1>3. ASSUME FitStage(y, x, r, q) PROVE FitRevs(y, x, r, q)
  BY <1>3 DEF FitStage, FitIdle, FitOffer, FitOffers, FitTaken, FitLast, FitEarly, FitCrossing, FitBoth,
     FitHalf, PushFor, AnswerFor, GapFor, Lone, Two
<1>4. (Level(y, x) <=> Level(x, y)) /\ (Even(y, x) <=> Even(x, y)) BY <1>1, Swapped
<1>5. ASSUME FitRevs(y, x, r, q) PROVE FitRevs(x, y, q, r)
  BY <1>4, <1>5 DEF FitRevs
<1> QED BY <1>2, <1>3, <1>5 DEF FitPair

LEMMA RevWelcome ==
  ASSUME NEW x \in PlainCom, NEW y \in PlainCom, Points(x), NEW q, NEW r,
         FitLast(x, y, q, r) \/ FitEarly(x, y, q, r) \/ FitRevs(x, y, q, r)
  PROVE  x.Delta > 0 /\ IngestElkrem(x, Head(q).Elk)
<1>1. Holding(x) /\ RevFor(Head(q), x) BY DEF FitLast, FitEarly, FitRevs
<1>2. x.ElkPoint = x.StateIdx - 1 BY <1>1 DEF Points, Due, Holding
<1> QED BY <1>1, <1>2 DEF Holding, RevFor, IngestElkrem

LEMMA RevFits ==
  ASSUME NEW x \in PlainCom, NEW y \in PlainCom, NEW s \in PlainCom,
         NEW q \in Seq(Messages), NEW r \in Seq(Messages),
         FitLast(x, y, q, r) \/ FitEarly(x, y, q, r) \/ FitRevs(x, y, q, r),
         s.StateIdx = x.StateIdx, s.MyAmt = x.MyAmt, s.Delta = 0, s.Collision = x.Collision
  PROVE  FitPair(s, y, Tail(q), r)
<1>1. /\ s.StateIdx \in Nat /\ s.MyAmt \in Int /\ s.Delta \in Int
      /\ y.StateIdx \in Nat /\ y.MyAmt \in Int /\ y.Delta \in Int /\ Value \in Nat
  BY ValueAssumption, PlainFields
<1>2. Holding(x) /\ Level(x, y) /\ Even(x, y) BY DEF FitLast, FitEarly, FitRevs
<1>3. Resting(s) /\ Level(s, y) /\ Even(s, y) BY <1>2 DEF Holding, Resting, Level, Even
<1>4. Level(y, s) /\ Even(y, s) BY <1>1, <1>3, Swapped
<1> DEFINE t == Tail(q)
<1>5. CASE FitLast(x, y, q, r)
  <2>1. Resting(y) /\ t = <<>> /\ r = <<>> BY <1>5 DEF FitLast, Lone
  <2> HIDE DEF t
  <2>2. FitIdle(s, y, t, r) BY <1>3, <2>1 DEF FitIdle
  <2> QED BY <2>2 DEF FitPair, FitStage, t
<1>6. CASE FitEarly(x, y, q, r)
  <2>1. Pushing(y) /\ Lone(t) /\ PushFor(Head(t), y, x) /\ r = <<>> BY <1>6 DEF FitEarly, Two
  <2> HIDE DEF t
  <2>2. PushFor(Head(t), y, s) BY <2>1 DEF PushFor
  <2>3. FitOffer(y, s, r, t) BY <1>3, <1>4, <2>1, <2>2 DEF FitOffer
  <2> QED BY <2>3 DEF FitPair, FitStage, t
<1>7. CASE FitRevs(x, y, q, r)
  <2>1. Holding(y) /\ t = <<>> /\ Lone(r) /\ RevFor(Head(r), y) BY <1>7 DEF FitRevs, Lone
  <2> HIDE DEF t
  <2>2. FitLast(y, s, r, t) BY <1>3, <1>4, <2>1 DEF FitLast
  <2> QED BY <2>2 DEF FitPair, FitStage, t
<1> QED BY <1>5, <1>6, <1>7

(* A push of the node's own.                                               *)
LEMMA FitCallComes ==
  ASSUME NEW x \in PlainCom, NEW y \in PlainCom,
         NEW q \in Seq(Messages), NEW r \in Seq(Messages), FitPair(x, y, q, r), Resting(x)
  PROVE  FitIdle(x, y, q, r) \/ FitOffer(y, x, r, q) \/ FitLast(y, x, r, q)
<1>1. /\ x.StateIdx \in Nat /\ x.MyAmt \in Int /\ x.Delta \in Int /\ x.Collision \in Int
      /\ y.StateIdx \in Nat /\ y.MyAmt \in Int /\ y.Delta \in Int /\ Value \in Nat
  BY ValueAssumption, PlainFields
<1>2. ~Pushing(x) /\ ~Holding(x) /\ ~Crossing(x)
  BY <1>1 DEF Resting, Pushing, Holding, Crossing
<1>3. ASSUME FitStage(x, y, q, r) PROVE FitIdle(x, y, q, r)
  BY <1>2, <1>3 DEF FitStage, FitOffer, FitOffers, FitTaken, FitLast, FitEarly, FitCrossing,
     FitBoth, FitHalf, FitRevs
<1>4. ASSUME FitStage(y, x, r, q)
      PROVE  FitIdle(y, x, r, q) \/ FitOffer(y, x, r, q) \/ FitLast(y, x, r, q)
  BY <1>2, <1>4 DEF FitStage, FitOffers, FitTaken, FitEarly, FitCrossing, FitBoth, FitHalf, FitRevs
<1>5. (Level(y, x) <=> Level(x, y)) /\ (Even(y, x) <=> Even(x, y)) BY <1>1, Swapped
<1>6. ASSUME FitIdle(y, x, r, q) PROVE FitIdle(x, y, q, r) BY <1>5, <1>6 DEF FitIdle
<1> QED BY <1>3, <1>4, <1>6 DEF FitPair

LEMMA OfferedAmount ==
  ASSUME NEW x \in PlainCom, NEW y \in PlainCom, Even(x, y), NEW d \in Int,
         NEW a, a = y.MyAmt - d
  PROVE  a = Value - (x.MyAmt + d)
<1>1. x.MyAmt \in Int /\ y.MyAmt \in Int /\ Value \in Nat BY PlainFields, ValueAssumption
<1> QED BY <1>1 DEF Even

LEMMA OfferedRoom ==
  ASSUME NEW x \in PlainCom, NEW d \in Int, NEW amt \in Nat, d = - amt,
         PushAffordable(x, amt), x.MyAmt + d >= MinOutput + Fee
  PROVE  Room(x.MyAmt + d)
<1>1. x.MyAmt \in Int /\ Value \in Nat /\ Fee \in Nat /\ MinOutput \in Nat
  BY PlainFields, ValueAssumption
<1>2. Uncleared(x) = {} /\ AmtOf(x.HTLCs, {}) = 0 BY PlainHTLCs
<1>3. TheirBalance(x) = Value - 0 - x.MyAmt BY <1>2, Zenon DEF TheirBalance
<1>4. TheirBalance(x) + (amt - Fee) >= MinOutput BY Zenon DEF PushAffordable
<1>5. Value - (x.MyAmt + d) >= MinOutput + Fee BY <1>1, <1>3, <1>4
<1> QED BY <1>5 DEF Room

LEMMA PushFits ==
  ASSUME NEW x \in PlainCom, NEW y \in PlainCom, NEW s \in PlainCom,
         NEW q \in Seq(Messages), NEW r \in Seq(Messages), NEW u \in Seq(Messages),
         FitPair(x, y, q, r), Resting(x), Points(x), NEW amt \in Nat, amt > 0, PushAffordable(x, amt),
         s.StateIdx = x.StateIdx, s.MyAmt = x.MyAmt, s.Delta = - amt, s.Collision = x.Collision,
         s.NextElkPoint = x.NextElkPoint, Fits(s)
  PROVE  /\ Buildable(DeltaSigState(s))
         /\ Sent(r, u, SendDeltaSig(s)) => FitPair(s, y, q, u)
<1>1. /\ x.StateIdx \in Nat /\ x.MyAmt \in Int /\ y.MyAmt \in Int /\ y.StateIdx \in Nat
      /\ s.Delta \in Int /\ s.Delta < 0
  BY PlainFields
<1>2. Pushing(s) BY <1>1 DEF Resting, Pushing
<1>3. s.NextElkPoint = s.StateIdx + 1
  <2>1. ~Due(x) BY DEF Resting, Due
  <2> QED BY <2>1 DEF Points
<1>4. FitIdle(x, y, q, r) \/ FitOffer(y, x, r, q) \/ FitLast(y, x, r, q)
  BY FitCallComes
<1>5. (Level(y, x) <=> Level(x, y)) /\ (Even(y, x) <=> Even(x, y))
  BY <1>1 DEF Level, Even
<1>6. Level(x, y) /\ Even(x, y) BY <1>4, <1>5 DEF FitIdle, FitOffer, FitLast
<1>7. Level(s, y) /\ Even(s, y) /\ Level(y, s) /\ Even(y, s)
  BY <1>5, <1>6 DEF Level, Even
<1>8. Room(s.MyAmt + s.Delta)
  <2> DEFINE d == s.Delta
  <2>1. x.MyAmt + d >= MinOutput + Fee BY <1>1 DEF Fits
  <2>2. d \in Int /\ d = - amt BY <1>1
  <2> HIDE DEF d
  <2>3. Room(x.MyAmt + d) BY <2>1, <2>2, OfferedRoom
  <2> QED BY <2>3 DEF d
<1> DEFINE a == y.MyAmt - s.Delta
           m == SendDeltaSig(s)
<1>9. a \in Int /\ a = Value - (s.MyAmt + s.Delta)
  <2>1. a \in Int BY <1>1
  <2>2. a = Value - (s.MyAmt + s.Delta)
    <3> DEFINE d == s.Delta
    <3>1. d \in Int /\ a = y.MyAmt - d BY <1>1
    <3> HIDE DEF d, a
    <3>2. a = Value - (s.MyAmt + d) BY <1>7, <3>1, OfferedAmount
    <3> QED BY <3>2 DEF d
  <2> QED BY <2>1, <2>2
<1> HIDE DEF a
<1>10. For(m.Sig, s.StateIdx + 1, a) /\ Buildable(DeltaSigState(s))
  BY <1>3, <1>8, <1>9, PushSigned
<1>11. m.type = "DeltaSig" /\ m.Delta = - s.Delta BY DEF SendDeltaSig
<1> HIDE DEF m
<1>12. PushFor(m, s, y) BY <1>7, <1>10, <1>11 DEF PushFor, Level, a
<1>13. ASSUME Sent(r, u, m) PROVE FitPair(s, y, q, u)
  <2>1. CASE FitIdle(x, y, q, r)
    <3>1. Resting(y) /\ q = <<>> /\ r = <<>> BY <2>1 DEF FitIdle
    <3>2. Lone(u) /\ Head(u) = m BY <1>13, <3>1 DEF Sent, Lone
    <3>3. FitOffer(s, y, q, u) BY <1>2, <1>7, <1>12, <3>1, <3>2 DEF FitOffer
    <3> QED BY <3>3 DEF FitPair, FitStage
  <2>2. CASE FitOffer(y, x, r, q)
    <3>1. Pushing(y) /\ r = <<>> /\ Lone(q) /\ PushFor(Head(q), y, x) BY <2>2 DEF FitOffer
    <3>2. Lone(u) /\ Head(u) = m BY <1>13, <3>1 DEF Sent, Lone
    <3>3. PushFor(Head(q), y, s) BY <3>1 DEF PushFor
    <3>4. FitOffers(s, y, q, u) BY <1>2, <1>7, <1>12, <3>1, <3>2, <3>3 DEF FitOffers
    <3> QED BY <3>4 DEF FitPair, FitStage
  <2>3. CASE FitLast(y, x, r, q)
    <3>1. Holding(y) /\ Lone(r) /\ RevFor(Head(r), y) /\ q = <<>> BY <2>3 DEF FitLast
    <3>2. Two(u) /\ Head(u) = Head(r) /\ Head(Tail(u)) = m BY <1>13, <3>1 DEF Sent, Lone, Two
    <3>3. FitEarly(y, s, u, q) BY <1>2, <1>7, <1>12, <3>1, <3>2 DEF FitEarly
    <3> QED BY <3>3 DEF FitPair, FitStage
  <2> QED BY <1>4, <2>1, <2>2, <2>3
<1> QED BY <1>10, <1>13 DEF m

-----------------------------------------------------------------------------
(* The invariant of pushes that fit: the pair is in a stage without lost   *)
(* or refused messages, and a node at rest has its token.                  *)
FitBooks == FitPair(disk[A], disk[B], net[A], net[B])
RestTokens == \A n \in Node : Resting(disk[n]) => cts[n][1]
FitInv == FitBooks /\ RestTokens /\ NeverFails

(* Every push in a stored state fits.                                      *)
Fitting == \A n \in Node : Fits(disk[n])

(* The connection has not broken, nobody has closed the channel or lost    *)
(* patience.                                                               *)
Undisturbed == ~SaveRace /\ ~Timeouts /\ conns = 0 /\ \A n \in Node : ~closed[n]

LEMMA FitOf ==
  ASSUME NEW n \in Node
  PROVE  /\ FitBooks <=> FitPair(disk[n], disk[Peer(n)], net[n], net[Peer(n)])
         /\ FitBooks' <=> FitPair(disk'[n], disk'[Peer(n)], net'[n], net'[Peer(n)])
<1>1. CASE n = A
  BY <1>1, NodeAssumption DEF FitBooks, FitPair, Peer
<1>2. CASE n = B
  BY <1>2, NodeAssumption DEF FitBooks, FitPair, Peer
<1> QED BY <1>1, <1>2 DEF Node

LEMMA FitStep ==
  ASSUME Inv, FitInv, NEW n \in Node, NEW s, disk' = [disk EXCEPT ![n] = s], ~s.Failed,
         FitPair(s, disk[Peer(n)], net'[n], net'[Peer(n)]),
         \A h \in Node \ {n} : cts'[h] = cts[h], Resting(s) => cts'[n][1]
  PROVE  FitInv'
<1>1. Peer(n) \in Node /\ Peer(n) # n BY NodeFacts
<1>2. disk'[n] = s /\ \A h \in Node \ {n} : disk'[h] = disk[h] BY DEF Inv, Types
<1>3. FitBooks' BY <1>1, <1>2, FitOf
<1>4. RestTokens' BY <1>2 DEF FitInv, RestTokens
<1>5. NeverFails' BY <1>2 DEF FitInv, NeverFails
<1> QED BY <1>3, <1>4, <1>5 DEF FitInv

LEMMA AnswerFits ==
  ASSUME Inv, FitInv, NEW n \in Node, NEW s, NEW reply, Answer(n, s, reply), ~s.Failed,
         FitPair(s, disk[Peer(n)], Tail(net[n]), net[Peer(n)] \o reply),
         \A h \in Node \ {n} : cts'[h] = cts[h], Resting(s) => cts'[n][1]
  PROVE  FitInv'
<1>1. Peer(n) \in Node /\ Peer(n) # n BY NodeFacts
<1>2. net'[n] = Tail(net[n]) /\ net'[Peer(n)] = net[Peer(n)] \o reply
  BY <1>1 DEF Answer, Inv, Types
<1>3. disk' = [disk EXCEPT ![n] = s] BY DEF Answer, Save
<1> QED BY <1>2, <1>3, FitStep

(* What is known when a message arrives.                                   *)
LEMMA FitKnowing ==
  ASSUME Inv, PairInv, FitInv, conns = 0, NEW n \in Node
  PROVE  /\ disk[n] \in PlainCom /\ disk[Peer(n)] \in PlainCom
         /\ net[n] \in Seq(Messages) /\ net[Peer(n)] \in Seq(Messages)
         /\ FitPair(disk[n], disk[Peer(n)], net[n], net[Peer(n)])
         /\ Points(disk[n]) /\ gen[n] = 1 /\ (cts[n][1] <=> Resting(disk[n])) /\ ~disk[n].Failed
         /\ cts[n][1] \in BOOLEAN
<1>1. FitPair(disk[n], disk[Peer(n)], net[n], net[Peer(n)]) BY FitOf DEF FitInv
<1>2. gen[n] = 1 /\ (cts[n][1] => Resting(disk[n])) BY DEF PairInv, TokensSpent
<1>3. (Resting(disk[n]) => cts[n][1]) /\ ~disk[n].Failed BY DEF FitInv, RestTokens, NeverFails
<1>4. cts[n][1] \in BOOLEAN BY GenFacts DEF Inv, Types
<1> QED BY <1>1, <1>2, <1>3, <1>4, Knowing, Zenon

(* The token that comes back.                                              *)
LEMMA TokenReturns ==
  ASSUME Inv, PairInv, conns = 0, NEW n \in Node, ~NothingPending(disk[n]), AssertClearToSend(n)
  PROVE  /\ \A h \in Node \ {n} : cts'[h] = cts[h]
         /\ cts'[n][1]
<1>1. cts' = [cts EXCEPT ![n][gen[n]] = TRUE] BY SlotEmpty, Zenon DEF AssertClearToSend
<1>2. gen[n] = 1 /\ 1 \in Gen BY GenFacts DEF PairInv, TokensSpent
<1> QED BY <1>1, <1>2 DEF Inv, Types

(* A reply is sent behind what is on its way.                              *)
LEMMA ReplySent ==
  ASSUME NEW r \in Seq(Messages), NEW m, NEW t, Of(<<m>>, t)
  PROVE  r \o <<m>> \in Seq(Messages) /\ Sent(r, r \o <<m>>, m)
<1>1. <<m>> # <<>> OBVIOUS
<1>2. PICK w \in Messages : <<m>> = <<w>> BY <1>1 DEF Of
<1>3. m = w BY <1>2
<1>4. m \in Messages BY <1>3
<1>5. Sent(r, r \o <<m>>, m) BY <1>4, Sending
<1> QED BY <1>4, <1>5

LEMMA RevFit ==
  ASSUME Inv, PairInv, FitInv, conns = 0, NEW n \in Node, RevHandler(n)
  PROVE  FitInv'
<1> DEFINE x == disk[n]
           y == disk[Peer(n)]
           q == net[n]
           r == net[Peer(n)]
           m == Head(net[n])
           s == RevSaved(x, m)
<1>1. /\ x \in PlainCom /\ y \in PlainCom /\ q \in Seq(Messages) /\ r \in Seq(Messages)
      /\ FitPair(x, y, q, r) /\ Points(x) /\ ~x.Failed
  BY FitKnowing
<1>2. Receiving(n, "Rev") BY DEF RevHandler
<1>3. m.type = "Rev" /\ q # <<>> /\ RevPart(m) /\ m = Head(q) BY <1>2, HeadMessage, MessageFields
<1>4. r \o <<>> = r BY <1>1
<1>5. RevSaved(x, m) = s /\ s \in PlainCom /\ s.StateIdx = x.StateIdx /\ s.MyAmt = x.MyAmt
      /\ s.Delta = 0 /\ s.Collision = x.Collision /\ s.Failed = x.Failed
  BY <1>1, <1>3, PlainRev, Zenon
<1>6. /\ (NothingPending(x) => x.Delta = 0) BY Zenon DEF NothingPending
<1>7. \/ NothingPending(x) \/ x.Delta < 0
      \/ x.Delta >= 0 /\ ~IngestElkrem(x, m.Elk)
      \/ ~NothingPending(x) /\ Answer(n, s, <<>>) /\ AssertClearToSend(n)
  BY NoMultihop, Zenon DEF RevHandler
<1> HIDE DEF x, y, q, r, m, s
<1>8. FitLast(x, y, q, r) \/ FitEarly(x, y, q, r) \/ FitRevs(x, y, q, r)
  BY <1>1, <1>3, FitRevComes
<1>9. x.Delta > 0 /\ IngestElkrem(x, m.Elk) BY <1>1, <1>3, <1>8, RevWelcome
<1>10. x.Delta \in Int BY <1>1, PlainFields
<1>11. ~NothingPending(x) /\ Answer(n, s, <<>>) /\ AssertClearToSend(n)
  <2>1. x.Delta # 0 /\ ~(x.Delta < 0) BY <1>9, <1>10
  <2> QED BY <1>6, <1>7, <1>9, <2>1
<1>12. FitPair(s, y, Tail(q), r) BY <1>1, <1>5, <1>8, RevFits
<1>13. (\A h \in Node \ {n} : cts'[h] = cts[h]) /\ cts'[n][1] BY <1>11, TokenReturns DEF x
<1> QED BY <1>1, <1>4, <1>5, <1>11, <1>12, <1>13, AnswerFits DEF x, y, q, r

LEMMA SigRevFit ==
  ASSUME Inv, PairInv, FitInv, conns = 0, NEW n \in Node, SigRevHandler(n)
  PROVE  FitInv'
<1> DEFINE x == disk[n]
           y == disk[Peer(n)]
           q == net[n]
           r == net[Peer(n)]
           m == Head(net[n])
           s == SigRevSaved(x, m)
           u == r \o <<SendREV(s)>>
<1>1. /\ x \in PlainCom /\ y \in PlainCom /\ q \in Seq(Messages) /\ r \in Seq(Messages)
      /\ FitPair(x, y, q, r) /\ Points(x) /\ ~x.Failed
  BY FitKnowing
<1>2. Receiving(n, "SigRev") BY DEF SigRevHandler
<1>3. m.type = "SigRev" /\ q # <<>> /\ m.Sig \in Tx /\ RevPart(m) /\ m = Head(q)
  BY <1>2, HeadMessage, MessageFields
<1>4. /\ s \in PlainCom /\ s.StateIdx = x.StateIdx + 1 /\ s.MyAmt = x.MyAmt + x.Delta
      /\ s.Delta = 0 /\ s.Collision = x.Collision /\ s.Failed = x.Failed
  <2>1. s \in PlainCom BY <1>1, <1>3, PlainSigRev, Zenon
  <2>2. s = [x EXCEPT !.StateIdx = @ + 1, !.Delta = 0, !.MyAmt = @ + x.Delta, !.Sig = m.Sig,
                      !.ElkPoint = x.NextElkPoint, !.NextElkPoint = x.N2ElkPoint,
                      !.N2ElkPoint = m.N2ElkPoint]
    BY <1>1, <1>3, PlainSigRev, Zenon
  <2> HIDE DEF s, x, m
  <2> QED BY <1>1, <2>1, <2>2 DEF PlainCom
<1>5. \/ NothingPending(x)
      \/ ~(x.Delta <= 0 /\ SigRevExpected(x) /\ SigRevOK(x, m))
      \/ ~NothingPending(x) /\ Answer(n, s, <<SendREV(s)>>) /\ AssertClearToSend(n)
  BY Zenon DEF SigRevHandler
<1>6. (NothingPending(x) => x.Delta = 0) BY Zenon DEF NothingPending
<1>7. s.StateIdx > 0 BY <1>1, <1>4, PlainFields
<1>8. Of(<<SendREV(s)>>, "Rev") BY <1>4, <1>7, ReplyOf, Zenon
<1>9. u \in Seq(Messages) /\ Sent(r, u, SendREV(s)) BY <1>1, <1>8, ReplySent, Zenon
<1> HIDE DEF x, y, q, r, m, s, u
<1>10. FitTaken(y, x, r, q) BY <1>1, <1>3, FitSigRevComes
<1>11. x.Delta < 0 /\ x.Collision = 0 /\ SigRevOK(x, m) BY <1>1, <1>3, <1>10, SigRevWelcome
<1>12. x.Delta \in Int /\ x.CollidingHTLC = NoHTLC BY <1>1, PlainFields
<1>13. ~NothingPending(x) /\ Answer(n, s, <<SendREV(s)>>) /\ AssertClearToSend(n)
  <2>1. x.Delta # 0 /\ x.Delta <= 0 BY <1>11, <1>12
  <2>2. SigRevExpected(x) BY <1>11, <1>12 DEF SigRevExpected
  <2> QED BY <1>5, <1>6, <1>11, <2>1, <2>2
<1>14. FitPair(s, y, Tail(q), u) BY <1>1, <1>4, <1>9, <1>10, SigRevFits
<1>15. (\A h \in Node \ {n} : cts'[h] = cts[h]) /\ cts'[n][1] BY <1>13, TokenReturns DEF x
<1> QED BY <1>1, <1>4, <1>13, <1>14, <1>15, AnswerFits DEF x, y, q, r, u

LEMMA GapFit ==
  ASSUME Inv, PairInv, FitInv, conns = 0, NEW n \in Node, GapSigRevHandler(n)
  PROVE  FitInv'
<1> DEFINE x == disk[n]
           y == disk[Peer(n)]
           q == net[n]
           r == net[Peer(n)]
           m == Head(net[n])
           s == GapSigRevSaved(x, m)
           u == r \o <<SendREV(s)>>
<1>1. /\ x \in PlainCom /\ y \in PlainCom /\ q \in Seq(Messages) /\ r \in Seq(Messages)
      /\ FitPair(x, y, q, r) /\ Points(x) /\ ~x.Failed
  BY FitKnowing
<1>2. Receiving(n, "GapSigRev") BY DEF GapSigRevHandler
<1>3. m.type = "GapSigRev" /\ q # <<>> /\ m.Sig \in Tx /\ RevPart(m) /\ m = Head(q)
  BY <1>2, HeadMessage, MessageFields
<1>4. /\ s \in PlainCom /\ s.StateIdx = x.StateIdx + 1 /\ s.MyAmt = x.MyAmt + x.Delta
      /\ s.Delta = x.Collision /\ s.Collision = 0 /\ s.Failed = x.Failed
  BY <1>1, <1>3, PlainGapSigRev, Zenon
<1>5. \/ ~(GapSigRevExpected(x) /\ GapSigRevOK(x, m))
      \/ Answer(n, s, <<SendREV(s)>>)
  BY Zenon DEF GapSigRevHandler
<1>6. s.StateIdx > 0 BY <1>1, <1>4, PlainFields
<1>7. Of(<<SendREV(s)>>, "Rev") BY <1>4, <1>6, ReplyOf, Zenon
<1>8. u \in Seq(Messages) /\ Sent(r, u, SendREV(s)) BY <1>1, <1>7, ReplySent, Zenon
<1>9. UNCHANGED cts BY DEF GapSigRevHandler, ram
<1> HIDE DEF x, y, q, r, m, s, u
<1>10. FitBoth(x, y, q, r) \/ FitHalf(y, x, r, q) BY <1>1, <1>3, FitGapComes
<1>11. m.N2ElkPoint \in Nat BY <1>3 DEF RevPart
<1>12. Crossing(x) /\ GapSigRevOK(x, m) BY <1>1, <1>3, <1>10, <1>11, GapWelcome
<1>13. x.Collision \in Int BY <1>1, PlainFields
<1>14. x.Collision > 0 BY <1>12 DEF Crossing
<1>15. GapSigRevExpected(x)
  <2>1. x.Collision # 0 BY <1>13, <1>14
  <2> QED BY <2>1 DEF GapSigRevExpected
<1>16. Answer(n, s, <<SendREV(s)>>) BY <1>5, <1>12, <1>15
<1>17. FitPair(s, y, Tail(q), u) BY <1>1, <1>4, <1>8, <1>10, GapFits
<1>18. ~Resting(s)
  <2>1. s.Delta # 0 BY <1>4, <1>13, <1>14
  <2> QED BY <2>1 DEF Resting
<1> QED BY <1>1, <1>4, <1>9, <1>16, <1>17, <1>18, AnswerFits DEF x, y, q, r, u

LEMMA DeltaSigFit ==
  ASSUME Inv, PairInv, FitInv, conns = 0, Fitting, NEW n \in Node, ~closed[n], DeltaSigHandler(n)
  PROVE  FitInv'
<1> DEFINE x == disk[n]
           y == disk[Peer(n)]
           q == net[n]
           r == net[Peer(n)]
           m == Head(net[n])
           c == ~cts[n][gen[n]]
           d == m.Delta
           s == DeltaSigSaved(x, Seen(x, d, c), d, m.Sig, c)
<1>1. /\ x \in PlainCom /\ y \in PlainCom /\ q \in Seq(Messages) /\ r \in Seq(Messages)
      /\ FitPair(x, y, q, r) /\ Points(x) /\ ~x.Failed
      /\ gen[n] = 1 /\ (cts[n][1] <=> Resting(x)) /\ cts[n][1] \in BOOLEAN
  BY FitKnowing, Zenon
<1>2. Receiving(n, "DeltaSig") /\ TakeCts(n, gen[n]) BY DEF DeltaSigHandler
<1>3. m.type = "DeltaSig" /\ q # <<>> /\ m.Sig \in Tx /\ d \in Int /\ m = Head(q)
  BY <1>2, HeadMessage, MessageFields
<1>4. c \in BOOLEAN /\ (c <=> ~Resting(x)) BY <1>1, Zenon
<1>5. PulledBy(x, d, c, s) BY <1>1, <1>3, <1>4, PulledFields, Zenon
<1>6. Seen(x, d, c).Delta = x.Delta
  <2>1. Seen(x, d, c) = [x EXCEPT !.Collision = IF c THEN d ELSE @] BY <1>1, <1>3, <1>4, PlainSeen, Zenon
  <2> HIDE DEF c, d, x
  <2> QED BY <1>1, <2>1 DEF PlainCom
<1>7. Fits(x) /\ Fits(y) BY NodeFacts DEF Fitting
<1>8. \/ Seen(x, d, c).Delta > 0
      \/ ~DeltaSigOK(Seen(x, d, c), d, m.Sig, c)
      \/ /\ DeltaSigGap(s)
         /\ AnswerSigned(n, s, GapSigRevState(s), SendGapSigRev(s))
      \/ /\ ~DeltaSigGap(s)
         /\ AnswerSigned(n, s, SigRevState(s), SendSigRev(s))
  BY Zenon DEF DeltaSigHandler, Seen
<1>9. /\ \A h \in Node \ {n} : cts'[h] = cts[h]
      /\ ~cts'[n][1]
  BY <1>1, <1>2, GenFacts DEF TakeCts, Inv, Types
<1> DEFINE v == SendSigRev(s)
           w == SendGapSigRev(s)
<1> HIDE DEF x, y, q, r, m, c, d, s
<1>10. PushComes(x, y, q, r) BY <1>1, <1>3, FitPushComes
<1>11. m.Delta = d BY DEF d
<1>12. /\ d > 0 /\ x.Delta <= 0 /\ ~Due(x) /\ For(m.Sig, x.StateIdx + 1, x.MyAmt + d)
  BY <1>1, <1>3, <1>10, <1>11, PushWelcome
<1>13. DeltaSigOK(Seen(x, d, c), d, m.Sig, c) BY <1>1, <1>3, <1>4, <1>12, PushAcceptable
<1>14. x.Delta \in Int /\ x.StateIdx \in Nat /\ x.Collision \in Int BY <1>1, PlainFields
<1>15. ~(Seen(x, d, c).Delta > 0) BY <1>6, <1>12, <1>14
<1>16. /\ s \in PlainCom /\ s.StateIdx = x.StateIdx + 1 /\ s.MyAmt = x.MyAmt + d
       /\ SamePoints(x, s) /\ s.Failed = x.Failed
  BY <1>5, Zenon DEF PulledBy, Pulled
<1>17. (c => s.Delta = x.Delta /\ s.Collision = d) /\ (~c => s.Delta = d /\ s.Collision = x.Collision)
  BY <1>5, Zenon DEF PulledBy
<1>18. s.Colliding = {} BY <1>16, PlainFields
<1>19. DeltaSigGap(s) <=> s.Collision # 0 BY <1>18 DEF DeltaSigGap
<1>20. s.StateIdx > 0 BY <1>14, <1>16
<1>21. Of(<<v>>, "SigRev") /\ Of(<<w>>, "GapSigRev") BY <1>16, <1>20, ReplyOf, Zenon
<1>22. /\ r \o <<v>> \in Seq(Messages) /\ Sent(r, r \o <<v>>, v)
       /\ r \o <<w>> \in Seq(Messages) /\ Sent(r, r \o <<w>>, w)
  BY <1>1, <1>21, ReplySent, Zenon
<1>23. d = Head(q).Delta BY <1>3, <1>11
<1>24. CASE ~c
  <2>1. Resting(x) BY <1>4, <1>24
  <2>2. s.Delta = d /\ s.Collision = 0 BY <1>17, <1>24, <2>1 DEF Resting
  <2>3. ~DeltaSigGap(s) BY <1>19, <2>2
  <2>4. Due(s) /\ ~Resting(s) BY <1>3, <1>12, <2>2 DEF Due, Resting
  <2>5. Points(s) BY <1>1, <1>12, <1>16, <2>4, PointsTaken
  <2>6. /\ Buildable(SigRevState(s))
        /\ Sent(r, r \o <<v>>, SendSigRev(s)) => FitPair(s, y, Tail(q), r \o <<v>>)
    <3> DEFINE u == r \o <<v>>
    <3>1. u \in Seq(Messages) BY <1>22
    <3> HIDE DEF u
    <3>2. Buildable(SigRevState(s)) /\ (Sent(r, u, SendSigRev(s)) => FitPair(s, y, Tail(q), u))
      BY <1>1, <1>10, <1>16, <1>23, <2>1, <2>2, <2>5, <3>1, RestingTakes
    <3> QED BY <3>2 DEF u
  <2>7. Answer(n, s, <<v>>) BY <1>8, <1>13, <1>15, <2>3, <2>6, Zenon DEF AnswerSigned, v
  <2>8. FitPair(s, y, Tail(q), r \o <<v>>) BY <1>22, <2>6 DEF v
  <2> HIDE DEF v
  <2> QED BY <1>1, <1>9, <1>16, <2>4, <2>7, <2>8, AnswerFits DEF x, y, q, r
<1>25. CASE c
  <2>1. ~Resting(x) BY <1>4, <1>25
  <2>2. s.Delta = x.Delta /\ s.Collision = d BY <1>17, <1>25
  <2>3. s.Collision # 0 BY <1>3, <1>12, <2>2
  <2>4. DeltaSigGap(s) /\ Due(s) /\ ~Resting(s) BY <1>19, <2>3 DEF Due, Resting
  <2>5. Points(s) BY <1>1, <1>12, <1>16, <2>4, PointsTaken
  <2>6. /\ Buildable(GapSigRevState(s))
        /\ Sent(r, r \o <<w>>, SendGapSigRev(s)) => FitPair(s, y, Tail(q), r \o <<w>>)
    <3> DEFINE u == r \o <<w>>
    <3>1. u \in Seq(Messages) BY <1>22
    <3> HIDE DEF u
    <3>2. Buildable(GapSigRevState(s)) /\ (Sent(r, u, SendGapSigRev(s)) => FitPair(s, y, Tail(q), u))
      BY <1>1, <1>7, <1>10, <1>16, <1>23, <2>1, <2>2, <2>5, <3>1, PushingTakes
    <3> QED BY <3>2 DEF u
  <2>7. Answer(n, s, <<w>>) BY <1>8, <1>13, <1>15, <2>4, <2>6, Zenon DEF AnswerSigned, w
  <2>8. FitPair(s, y, Tail(q), r \o <<w>>) BY <1>22, <2>6 DEF w
  <2> HIDE DEF w
  <2> QED BY <1>1, <1>9, <1>16, <2>4, <2>7, <2>8, AnswerFits DEF x, y, q, r
<1> QED BY <1>24, <1>25

LEMMA PushSendFit ==
  ASSUME Inv, PairInv, FitInv, conns = 0, raced' = {}, Fitting', NEW n \in Node, NEW c \in Call,
         PushSend(n, c)
  PROVE  FitInv'
<1> DEFINE amt == call[n][c].amt
           x == disk[n]
           y == disk[Peer(n)]
           q == net[n]
           r == net[Peer(n)]
           s == [disk[n] EXCEPT !.Delta = - amt]
           m == SendDeltaSig(s)
           u == r \o <<m>>
<1>1. /\ x \in PlainCom /\ y \in PlainCom /\ q \in Seq(Messages) /\ r \in Seq(Messages)
      /\ FitPair(x, y, q, r) /\ Points(x) /\ ~x.Failed
      /\ (cts[n][1] <=> Resting(x))
  BY FitKnowing, Zenon
<1>2. HasChannel(n, c) /\ call[n][c].pc = "enter" /\ PushAffordable(x, amt)
  BY ViewStorable DEF PushSend, HasChannel
<1>3. amt \in Nat /\ amt > 0
  <2>1. call[n][c] \in CallState BY DEF Inv, Types
  <2>2. amt > 0 BY <1>2 DEF PairInv, Amounts
  <2>3. amt \in PushAmt \cup {0} BY <2>1 DEF CallState
  <2> HIDE DEF amt
  <2> QED BY <2>2, <2>3, BoundAssumption
<1>4. call[n][c].gen = 1
  <2>1. call[n][c].gen \in Gen BY <1>2, CallInstance
  <2>2. call[n][c].gen \in {0, 1} BY DEF PairInv, Amounts
  <2> QED BY <2>1, <2>2, GenFacts
<1>5. Resting(x) BY <1>1, <1>2, <1>4 DEF HasChannel
<1>6. /\ s \in PlainCom /\ s.Delta = - amt /\ s.StateIdx = x.StateIdx /\ s.MyAmt = x.MyAmt
      /\ s.Collision = x.Collision /\ s.NextElkPoint = x.NextElkPoint /\ s.Failed = x.Failed
  <2> HIDE DEF amt
  <2>1. - amt \in Int BY <1>3
  <2> QED BY <1>1, <2>1 DEF PlainCom
<1>7. /\ TakeCts(n, call[n][c].gen) /\ disk' = [disk EXCEPT ![n] = s]
      /\ \/ net' = [net EXCEPT ![Peer(n)] = Append(r, m)]
         \/ ~Buildable(DeltaSigState(s))
  <2> DEFINE st == [View(n, c) EXCEPT !.Delta = - amt]
  <2>1. CallSave(n, c, View(n, c), st) BY DEF PushSend
  <2>2. View(n, c) = disk[n] /\ disk' = [disk EXCEPT ![n] = st]
    <3> HIDE DEF st
    <3> QED BY <2>1, SavedAlone
  <2> QED BY <2>2 DEF PushSend
<1>8. disk'[n] = s BY <1>7 DEF Inv, Types
<1>9. Fits(s) BY <1>8 DEF Fitting
<1>10. \A h \in Node \ {n} : cts'[h] = cts[h] BY <1>7 DEF TakeCts, Inv, Types
<1>11. Peer(n) \in Node /\ Peer(n) # n BY NodeFacts
<1> HIDE DEF x, y, q, r, s, amt
<1>12. m \in Messages BY <1>6, SentDeltaSig
<1> HIDE DEF m
<1>13. u \in Seq(Messages) /\ Sent(r, u, m) /\ Append(r, m) = u BY <1>1, <1>12, Sending
<1> HIDE DEF u
<1>14. /\ Buildable(DeltaSigState(s))
       /\ Sent(r, u, SendDeltaSig(s)) => FitPair(s, y, q, u)
  BY <1>1, <1>2, <1>3, <1>5, <1>6, <1>9, <1>13, PushFits
<1>15. FitPair(s, y, q, u) BY <1>13, <1>14 DEF m
<1>16. net' = [net EXCEPT ![Peer(n)] = u] BY <1>7, <1>13, <1>14
<1>17. net'[n] = q /\ net'[Peer(n)] = u BY <1>11, <1>16 DEF Inv, Types, q
<1>18. ~Resting(s)
  <2>1. s.Delta # 0 BY <1>3, <1>6
  <2> QED BY <2>1 DEF Resting
<1> QED BY <1>1, <1>6, <1>7, <1>10, <1>15, <1>17, <1>18, FitStep DEF y

(* A call that has the token finds the channel at rest.                    *)
LEMMA NotAtRestNever ==
  ASSUME Inv, PairInv, FitInv, conns = 0, NEW n \in Node, NEW c \in Call, PushNotAtRest(n, c)
  PROVE  FALSE
<1>1. HasChannel(n, c) /\ disk[n].Delta # 0 BY ViewStorable DEF PushNotAtRest
<1>2. call[n][c].gen = 1
  <2>1. call[n][c].gen \in Gen BY <1>1, CallInstance
  <2>2. call[n][c].gen \in {0, 1} BY DEF PairInv, Amounts
  <2> QED BY <2>1, <2>2, GenFacts
<1>3. Resting(disk[n]) BY <1>1, <1>2, FitKnowing DEF HasChannel
<1> QED BY <1>1, <1>3 DEF Resting

LEMMA StepFits ==
  ASSUME Inv, PairInv, FitInv, conns = 0, conns' = 0, raced' = {}, ~SaveRace, ~Timeouts,
         \A n \in Node : ~closed[n], Fitting, Fitting', [Next]_vars
  PROVE  FitInv'
<1>1. ASSUME UNCHANGED <<disk, net, cts>> PROVE FitInv'
  BY <1>1 DEF FitInv, FitBooks, RestTokens, NeverFails
<1>2. ASSUME NEW n \in Node, Handle(n) PROVE FitInv'
  <2>1. CASE Consume(n) BY <2>1, DeltaSigFit, GapFit, SigRevFit, RevFit DEF Consume
  <2>2. CASE FirstMessage(n)
    <3>1. ~inited[n] BY <2>2 DEF FirstMessage, Repopulate
    <3> QED BY <3>1 DEF PairInv, TokensSpent
  <2> QED BY <1>2, <2>1, <2>2 DEF Handle
<1>3. ASSUME NEW n \in Node, NEW g \in Gen, FillClearToSend(n, g) PROVE FitInv'
  <2>1. fill[n] = {} BY DEF PairInv, TokensSpent
  <2> QED BY <1>3, <2>1 DEF FillClearToSend
<1>4. ASSUME NEW n \in Node, NEW c \in Call, UserCall(n, c) PROVE FitInv'
  <2>1. CASE PushRefused(n, c)
    BY <1>1, <2>1 DEF PushRefused, ram
  <2>2. CASE PushDone(n, c) BY <1>1, <2>2 DEF PushDone, db, ram
  <2>3. CASE CallReload(n, c) BY <1>1, <2>3 DEF CallReload, LoadState, ram
  <2>4. CASE FailSave(n, c) BY <2>4 DEF FailSave, Inv, CallGen
  <2> QED BY <1>4, <2>1, <2>2, <2>3, <2>4, NotAtRestNever, PushSendFit DEF UserCall, CallStep
<1>5. ASSUME NEW n \in Node, NEW c \in Call, NEW amt \in PushAmt, PushStart(n, c, amt)
      PROVE  FitInv'
  BY <1>1, <1>5 DEF PushStart, db, ram
<1>6. ASSUME NEW n \in Node, NEW c \in Call, PushTimeout(n, c) PROVE FitInv'
  BY <1>6 DEF PushTimeout
<1>7. ASSUME Environment PROVE FitInv'
  <2>1. ASSUME NEW S \in SUBSET Node, Reconnect(S) PROVE FALSE
    <3>1. conns' = conns + 1 BY <2>1, Zenon DEF Reconnect
    <3> QED BY <3>1
  <2>2. ASSUME NEW n \in Node, BreakChannel(n) \/ \E spend \in BOOLEAN : OPEventHandler(n, spend)
        PROVE  FitInv'
    BY <1>1, <2>2 DEF BreakChannel, OPEventHandler, ram
  <2> QED BY <1>7, <2>1, <2>2, NoLateRecord, Zenon DEF Environment
<1>8. UNCHANGED vars => FitInv' BY <1>1 DEF vars, db, ram
<1> QED BY <1>2, <1>3, <1>4, <1>5, <1>6, <1>7, <1>8, Zenon DEF Next

LEMMA ClosedStays ==
  ASSUME Inv, ~SaveRace, [Next]_vars, \A n \in Node : ~closed'[n]
  PROVE  \A n \in Node : ~closed[n]
<1>1. ASSUME closed' = closed PROVE \A n \in Node : ~closed[n] BY <1>1
<1>2. ASSUME NEW n \in Node, NEW b, closed' = [closed EXCEPT ![n] = b], closed[n] => b
      PROVE  \A h \in Node : ~closed[h]
  BY <1>2 DEF Inv, Types
<1>3. ASSUME NEW n \in Node, Handle(n) PROVE closed' = closed
  BY <1>3 DEF Handle, Consume, DeltaSigHandler, GapSigRevHandler, SigRevHandler, RevHandler,
     FirstMessage, Repopulate
<1>4. ASSUME NEW n \in Node, NEW c \in Call, UserCall(n, c) PROVE closed' = closed
  BY <1>4 DEF UserCall, CallStep, CallReload, FailSave, PushRefused, PushNotAtRest, PushSend,
     PushDone, db
<1>5. ASSUME NEW n \in Node, BreakChannel(n) PROVE closed' = [closed EXCEPT ![n] = closed[n]]
  BY <1>5 DEF BreakChannel, SaveQchanUtxoData
<1>6. ASSUME NEW n \in Node, NEW spend \in BOOLEAN, OPEventHandler(n, spend)
      PROVE  closed' = [closed EXCEPT ![n] = closed[n] \/ spend]
  BY <1>6 DEF OPEventHandler, SaveQchanUtxoData
<1>7. ASSUME Environment PROVE \A n \in Node : ~closed[n]
  <2>1. ASSUME NEW S \in SUBSET Node, Reconnect(S) PROVE closed' = closed BY <2>1 DEF Reconnect
  <2> QED BY <1>1, <1>2, <1>5, <1>6, <1>7, <2>1, NoLateRecord, Zenon DEF Environment
<1>8. ASSUME NEW n \in Node, NEW g \in Gen, FillClearToSend(n, g) PROVE closed' = closed
  BY <1>8 DEF FillClearToSend, db
<1>9. ASSUME NEW n \in Node, NEW c \in Call, NEW amt \in PushAmt, PushStart(n, c, amt)
      PROVE  closed' = closed
  BY <1>9 DEF PushStart, db
<1>10. ASSUME NEW n \in Node, NEW c \in Call, PushTimeout(n, c) PROVE closed' = closed
  BY <1>10 DEF PushTimeout
<1>11. UNCHANGED vars => closed' = closed BY DEF vars, db
<1> QED BY <1>1, <1>3, <1>4, <1>7, <1>8, <1>9, <1>10, <1>11, Zenon DEF Next

LEMMA InitFits ==
  ASSUME Init
  PROVE  FitInv
<1>1. A # B /\ Node = {A, B} BY NodeAssumption DEF Node
<1>2. /\ disk[A] = InitState(InitAmtA) /\ disk[B] = InitState(Value - InitAmtA)
      /\ net[A] = <<>> /\ net[B] = <<>>
  BY <1>1 DEF Init
<1>3. \A n \in Node : /\ disk[n].StateIdx = 0 /\ disk[n].Delta = 0 /\ disk[n].Collision = 0
                      /\ disk[n].MyAmt = (IF n = A THEN InitAmtA ELSE Value - InitAmtA)
                      /\ ~disk[n].Failed
  BY <1>1, <1>2 DEF InitState
<1>4. Even(disk[A], disk[B]) BY <1>1, <1>3, ValueAssumption, BoundAssumption DEF Even
<1>5. FitIdle(disk[A], disk[B], net[A], net[B])
  BY <1>1, <1>2, <1>3, <1>4 DEF FitIdle, Resting, Level
<1>6. FitBooks BY <1>5 DEF FitBooks, FitPair, FitStage
<1>7. RestTokens BY GenFacts DEF Init, RestTokens
<1>8. NeverFails BY <1>3 DEF NeverFails
<1> QED BY <1>6, <1>7, <1>8 DEF FitInv

(* If every push that a node saves leaves the node itself its minimal      *)
(* output and fee, no channel is marked failed while the connection lasts, *)
(* whatever the order in which pushes cross, answers and revocations       *)
(* arrive, and new pushes start before the last Rev: every push, signature *)
(* and revocation that a handler gets is one that it accepts, and a call   *)
(* that has the token finds the channel at rest.  The condition is one the *)
(* code does not check: PushChannel adds the amount where it should        *)
(* subtract it (qln/pushpull.go:166), so that a node can push more than it *)
(* has, and the peer fails the channel.  The rest of the premise is where  *)
(* the code fails channels of honest nodes: ChannelTimeout, a record saved *)
(* late, a connection that breaks, and a node that closes while a push is  *)
(* on its way.                                                             *)
THEOREM FittingPushesNeverFail == Spec /\ []Fitting => [](Undisturbed => NeverFails)
<1>1. Init => (Undisturbed => FitInv) BY InitFits
<1>2. /\ Inv /\ Inv' /\ (raced = {} => PairInv) /\ (Undisturbed => FitInv) /\ Fitting /\ Fitting'
      /\ [Next]_vars
      => (Undisturbed => FitInv)'
  <2> SUFFICES ASSUME Inv, Inv', raced = {} => PairInv, Undisturbed => FitInv, Fitting, Fitting',
                      [Next]_vars, Undisturbed'
               PROVE  FitInv'
    OBVIOUS
  <2>1. ~SaveRace /\ ~Timeouts /\ conns' = 0 /\ \A n \in Node : ~closed'[n] BY DEF Undisturbed
  <2>2. conns = 0 BY <2>1, ConnsGrow
  <2>3. \A n \in Node : ~closed[n] BY <2>1, ClosedStays
  <2>4. raced' = {} /\ raced = {} BY <2>1, <2>2 DEF Inv, Revocations
  <2>5. FitInv /\ PairInv BY <2>1, <2>2, <2>3, <2>4 DEF Undisturbed
  <2> QED BY <2>1, <2>2, <2>3, <2>4, <2>5, StepFits
<1>3. (Undisturbed => FitInv) => (Undisturbed => NeverFails) BY DEF FitInv
<1> QED BY <1>1, <1>2, <1>3, Invariance, PairInvariance, PTL DEF Spec

=============================================================================
