------------------------------- MODULE Qchan -------------------------------
(***************************************************************************)
(* The state of one payment channel as one node stores it (StatCom), the   *)
(* commitment transaction a state stands for, and the state functions that *)
(* the handlers of qln/pushpull.go and qln/htlc.go are made of.  Nothing   *)
(* here is an action: PushPull and HtlcChannel put these functions between *)
(* two nodes, a database and a network.                                    *)
(*                                                                         *)
(* Data is symbolic.  The elkrem hash with index i of a node and the point *)
(* derived from it are both the number i; the HTLC base key with key path  *)
(* index i is the number i; a preimage and its hash are the same member of *)
(* Preimage; a signature is the transaction it signs.  A pointer that may  *)
(* be nil is a sequence of at most one element.                            *)
(***************************************************************************)
EXTENDS Integers, Sequences, FiniteSetsExt

CONSTANTS Value,      \* capacity of the channel (Qchan.Value)
          Fee,        \* StatCom.Fee, fixed at funding
          MinOutput,  \* consts.MinOutput
          Preimage,   \* preimages that occur
          NoR         \* the all-zero R that stands for a timeout

ASSUME ValueAssumption == Value \in Nat /\ Fee \in Nat /\ MinOutput \in Nat \ {0}
ASSUME NoRAssumption == NoR \notin Preimage

HTLC == [Idx : Nat, Incoming : BOOLEAN, Amt : Nat, RHash : Preimage, Locktime : Nat,
         MyHTLCBase : Nat, TheirHTLCBase : Nat, R : Preimage \cup {NoR},
         Clearing : BOOLEAN, Cleared : BOOLEAN]

Opt(S) == {s \in Seq(S) : Len(s) <= 1}

(* An output of a commitment transaction that pays to an HTLC script, as   *)
(* seen by the transaction's owner, with the second transaction that       *)
(* spends it (success, spendLock, and the key that signs it).              *)
HTLCTxOut == [amt : Nat, rhash : Preimage, locktime : Nat, offered : BOOLEAN,
              ownerBase : Nat, ownerElk : Nat, otherBase : Nat, otherElk : Nat,
              success : BOOLEAN, spendLock : Nat, spendBase : Nat]

(* A commitment transaction: the state number in its locktime bits, the    *)
(* owner's elkrem point in its keys, the owner's delayed output, the other *)
(* side's output (0: no output), and the HTLC outputs.                     *)
Tx == [idx : Nat, elk : Nat, own : Int, other : Int, htlcs : SUBSET HTLCTxOut]

(* The collision flags CollidingHashDelta, CollidingHashPreimage,          *)
(* CollidingPreimages and CollidingPreimageDelta are a set of names.       *)
CollisionKind == {"HashDelta", "HashPreimage", "Preimages", "PreimageDelta"}

StatCom == [StateIdx : Nat, MyAmt : Int, Delta : Int, Collision : Int,
            ElkPoint : Nat, NextElkPoint : Nat, N2ElkPoint : Nat, Sig : Tx,
            HTLCIdx : Nat, InProgHTLC : Opt(HTLC), CollidingHTLC : Opt(HTLC),
            Colliding : SUBSET CollisionKind, NextHTLCBase : Nat, N2HTLCBase : Nat,
            MyNextHTLCBase : Nat, MyN2HTLCBase : Nat, HTLCs : Seq(HTLC),
            Failed : BOOLEAN]

Messages ==
    [type : {"DeltaSig"}, Delta : Int, Sig : Tx]
    \cup [type : {"SigRev", "GapSigRev"}, Sig : Tx, Elk : Nat, N2ElkPoint : Nat, N2HTLCBase : Nat]
    \cup [type : {"Rev"}, Elk : Nat, N2ElkPoint : Nat, N2HTLCBase : Nat]
    \cup [type : {"HashSig"}, Amt : Nat, RHash : Preimage, Locktime : Nat, Sig : Tx]
    \cup [type : {"PreimageSig"}, Idx : Nat, R : Preimage \cup {NoR}, Sig : Tx]

-----------------------------------------------------------------------------
(* Amounts and transactions.                                               *)

AmtOf(hs, I) == IF I = {} THEN 0 ELSE MapThenSumSet(LAMBDA i : hs[i].Amt, I)

Idxs(hs) == DOMAIN hs

(* The HTLCs whose money the channel state still holds apart.              *)
Uncleared(st) == {i \in Idxs(st.HTLCs) : ~st.HTLCs[i].Cleared}
InTx(st) == {i \in Uncleared(st) : ~st.HTLCs[i].Clearing}

(* GetChannelBalances: what is mine and what is theirs outside HTLCs.      *)
MyBalance(st) == st.MyAmt
TheirBalance(st) == Value - AmtOf(st.HTLCs, Uncleared(st)) - st.MyAmt

(* The HTLCs a transaction of this state has an output for, each with the  *)
(* place that BuildStateTxs gives its output.                              *)
TxHTLCs(st) ==
    LET stored == Cardinality(InTx(st))
    IN {<<Cardinality({k \in InTx(st) : k < i}), st.HTLCs[i]>> : i \in InTx(st)}
         \cup {<<stored, st.InProgHTLC[i]>> : i \in DOMAIN st.InProgHTLC}
         \cup {<<stored + Len(st.InProgHTLC), st.CollidingHTLC[i]>> : i \in DOMAIN st.CollidingHTLC}

(* The HTLC that the spend of the output at place j is made for: places    *)
(* count the outputs, and this looks them up among all HTLCs.              *)
SpendHTLC(st, j) == (st.HTLCs \o st.InProgHTLC \o st.CollidingHTLC)[j + 1]

(* GenHTLCOut and GenHTLCScript: the script is an offer of the owner or a  *)
(* receipt with a locktime, over both sides' HTLC keys of this state.  The *)
(* spend is a success or, after a locktime, a timeout, and the other side  *)
(* signs it with its key for an HTLC.                                      *)
GenHTLCOut(st, j, h, mine) ==
    LET offered == h.Incoming # mine
        s == SpendHTLC(st, j)
    IN [amt |-> h.Amt, rhash |-> h.RHash, offered |-> offered,
        locktime |-> IF offered THEN 0 ELSE h.Locktime,
        ownerBase |-> IF mine THEN h.MyHTLCBase ELSE h.TheirHTLCBase,
        ownerElk |-> IF mine THEN st.StateIdx ELSE st.ElkPoint,
        otherBase |-> IF mine THEN h.TheirHTLCBase ELSE h.MyHTLCBase,
        otherElk |-> IF mine THEN st.ElkPoint ELSE st.StateIdx,
        success |-> s.Incoming = mine,
        spendLock |-> IF s.Incoming = mine THEN 0 ELSE s.Locktime,
        spendBase |-> IF mine THEN s.TheirHTLCBase ELSE s.MyHTLCBase]

(* A positive amount pays the fee; no positive amount, no output.          *)
OutAmt(x) == IF x > 0 THEN x - Fee ELSE 0

(* BuildStateTxs: the transaction I keep (mine) or the one I sign.         *)
BuildStateTxs(st, mine) ==
    LET locked == AmtOf(st.InProgHTLC, DOMAIN st.InProgHTLC)
                    + AmtOf(st.CollidingHTLC, DOMAIN st.CollidingHTLC)
                    + AmtOf(st.HTLCs, InTx(st))
        theirs == Value - locked - st.MyAmt
    IN [idx |-> st.StateIdx,
        elk |-> IF mine THEN st.StateIdx ELSE st.ElkPoint,
        own |-> OutAmt(IF mine THEN st.MyAmt ELSE theirs),
        other |-> OutAmt(IF mine THEN theirs ELSE st.MyAmt),
        htlcs |-> {GenHTLCOut(st, p[1], p[2], mine) : p \in TxHTLCs(st)}]

(* BuildStateTxs returns no error: no output is dust, and there is one.    *)
Buildable(st) ==
    LET tx == BuildStateTxs(st, TRUE)
    IN /\ \A x \in {tx.own, tx.other} : x = 0 \/ x >= MinOutput
       /\ \A o \in tx.htlcs : o.amt - Fee >= MinOutput
       /\ tx.own # 0 \/ tx.other # 0 \/ tx.htlcs # {}

SignState(st) == BuildStateTxs(st, FALSE)
VerifySigs(st, sig) == Buildable(st) /\ sig = BuildStateTxs(st, TRUE)

(* The elkrem hash opens the point of the state being revoked.  The tree   *)
(* check of AddNext never fails: every reload makes a new, empty receiver. *)
IngestElkrem(st, elk) == st.StateIdx = 0 \/ elk = st.ElkPoint
AdvanceElkrem(st, n2) == [st EXCEPT !.ElkPoint = st.NextElkPoint,
                                    !.NextElkPoint = st.N2ElkPoint,
                                    !.N2ElkPoint = n2]

FailChannel(st) == [st EXCEPT !.Failed = TRUE]

-----------------------------------------------------------------------------
(* HTLC bookkeeping shared by the handlers.                                *)

NoHTLC == <<>>

ClearingIdxs(st) == {i \in Idxs(st.HTLCs) : st.HTLCs[i].Clearing}

SetClearing(st, I, b) ==
    [st EXCEPT !.HTLCs = [i \in Idxs(st.HTLCs) |->
        IF i \in I THEN [st.HTLCs[i] EXCEPT !.Clearing = b] ELSE st.HTLCs[i]]]

(* Clearing HTLCs that pay me: an incoming one with its preimage, one of   *)
(* mine that timed out.                                                    *)
Won(st) == {i \in Uncleared(st) \cap ClearingIdxs(st) :
               st.HTLCs[i].Incoming # (st.HTLCs[i].R = NoR)}

OwnOffer(p) == AmtOf(p, {i \in DOMAIN p : ~p[i].Incoming})

(* My amount once every pending HTLC operation of this state is applied.   *)
Settled(st) == st.MyAmt - OwnOffer(st.InProgHTLC) - OwnOffer(st.CollidingHTLC)
                 + AmtOf(st.HTLCs, Won(st))

MarkCleared(st) ==
    [st EXCEPT !.HTLCs = [i \in Idxs(st.HTLCs) |->
        [st.HTLCs[i] EXCEPT !.Cleared = @ \/ st.HTLCs[i].Clearing]]]

AppendHTLC(st, p) ==
    [st EXCEPT !.HTLCs = @ \o p, !.HTLCIdx = @ + Len(p)]

RotateMyHTLCBase(st, ahead) ==
    [st EXCEPT !.MyNextHTLCBase = st.MyN2HTLCBase, !.MyN2HTLCBase = st.HTLCIdx + ahead]

RotateHTLCBase(st, base) ==
    [st EXCEPT !.NextHTLCBase = st.N2HTLCBase, !.N2HTLCBase = base]

-----------------------------------------------------------------------------
(* The messages.  A signing message is built from the state it signs; its  *)
(* revocation is always that of the state before the stored one.           *)

(* What SendDeltaSig signs: the next state, with my push applied.          *)
DeltaSigState(st) == [st EXCEPT !.StateIdx = @ + 1, !.MyAmt = @ + st.Delta,
                                !.ElkPoint = st.NextElkPoint]
SendDeltaSig(st) == [type |-> "DeltaSig", Delta |-> - st.Delta,
                     Sig |-> SignState(DeltaSigState(st))]

(* What SendSigRev signs: the stored state, with their next point.         *)
SigRevState(st) == [st EXCEPT !.ElkPoint = st.NextElkPoint]

(* What SendGapSigRev signs: the state after the stored one, in which my   *)
(* own pending operation is applied as well.                               *)
GapSigRevState(st) == [st EXCEPT !.StateIdx = @ + 1, !.ElkPoint = st.N2ElkPoint,
                                 !.MyAmt = Settled(st) + st.Delta]

(* Mutants: the hash of the stored state is revealed; the index is one too *)
(* low.                                                                    *)
Revoking_Current(type, st, sig) ==
    [type |-> type, Sig |-> sig, Elk |-> st.StateIdx,
     N2ElkPoint |-> st.StateIdx + 2, N2HTLCBase |-> st.MyN2HTLCBase]
Revoking_TwoBack(type, st, sig) ==
    [type |-> type, Sig |-> sig, Elk |-> st.StateIdx - 2,
     N2ElkPoint |-> st.StateIdx + 2, N2HTLCBase |-> st.MyN2HTLCBase]

Revoking(type, st, sig) ==
    [type |-> type, Sig |-> sig, Elk |-> st.StateIdx - 1,
     N2ElkPoint |-> st.StateIdx + 2, N2HTLCBase |-> st.MyN2HTLCBase]
SendSigRev(st) == Revoking("SigRev", st, SignState(SigRevState(st)))
SendGapSigRev(st) == Revoking("GapSigRev", st, SignState(GapSigRevState(st)))
SendREV(st) == [type |-> "Rev", Elk |-> st.StateIdx - 1,
                N2ElkPoint |-> st.StateIdx + 2, N2HTLCBase |-> st.MyN2HTLCBase]

(* The elkrem sender has no hash before index 0: SendREV errors in state 0.*)
CanRevoke(st) == st.StateIdx > 0

-----------------------------------------------------------------------------
(* Mutant: the pending push is dropped when a DeltaSig collides with it.   *)
MarkDeltaCollision_Reset(st, d) == [st EXCEPT !.Collision = d, !.Delta = 0]

(* DeltaSigHandler.  A DeltaSig that arrives while ClearToSend is empty    *)
(* collides with an HTLC of mine in progress, with an HTLC being cleared,  *)
(* or with a push of mine.                                                 *)
MarkDeltaCollision(st, d) ==
    CASE st.InProgHTLC # NoHTLC ->
            [RotateMyHTLCBase(st, 2) EXCEPT !.InProgHTLC = NoHTLC, !.Colliding = @ \cup {"HashDelta"}]
      [] st.InProgHTLC = NoHTLC /\ ClearingIdxs(st) # {} ->
            [SetClearing(st, ClearingIdxs(st), FALSE) EXCEPT !.Colliding = @ \cup {"PreimageDelta"}]
      [] OTHER -> [st EXCEPT !.Collision = d]

(* Mutant: the delta that says a Rev is due is not set.                    *)
PulledState_NoDelta(st, d, collision) == [st EXCEPT !.StateIdx = @ + 1, !.MyAmt = @ + d]

(* The state that a DeltaSig of d moves to, while it is being verified.    *)
PulledState(st, d, collision) ==
    [st EXCEPT !.StateIdx = @ + 1, !.MyAmt = @ + d,
               !.Delta = IF ~collision \/ st.InProgHTLC # NoHTLC THEN d ELSE @]

(* The amount leaves both sides enough, and the signature is good.         *)
DeltaSigOK(st, d, sig, collision) ==
    /\ d >= 1
    /\ TheirBalance(st) - (d + Fee) >= MinOutput
    /\ MyBalance(st) + d - Fee >= MinOutput
    /\ VerifySigs([PulledState(st, d, collision) EXCEPT !.ElkPoint = st.NextElkPoint], sig)

(* Mutant: the new state is saved with the old signature.                  *)
DeltaSigSaved_OldSig(st, seen, d, sig, collision) ==
    [SetClearing(PulledState(seen, d, collision), ClearingIdxs(st), TRUE)
        EXCEPT !.InProgHTLC = st.InProgHTLC]

(* What is saved: st is the state read from disk, seen the one after       *)
(* collision marking; what marking took out for the check is put back.     *)
DeltaSigSaved(st, seen, d, sig, collision) ==
    [SetClearing(PulledState(seen, d, collision), ClearingIdxs(st), TRUE)
        EXCEPT !.Sig = sig, !.InProgHTLC = st.InProgHTLC]

DeltaSigGap(st) == st.Collision # 0 \/ st.Colliding \cap {"HashDelta", "PreimageDelta"} # {}

-----------------------------------------------------------------------------
(* SigRevHandler: the pusher's second message.                             *)

NothingPending(st) == /\ st.Delta = 0
                      /\ st.InProgHTLC = NoHTLC
                      /\ ClearingIdxs(st) = {}

SigRevExpected(st) == st.Collision = 0 /\ st.CollidingHTLC = NoHTLC

PushedState(st) == [st EXCEPT !.StateIdx = @ + 1, !.Delta = 0,
                              !.MyAmt = Settled(st) + st.Delta]

SigRevOK(st, m) ==
    /\ VerifySigs([PushedState(st) EXCEPT !.ElkPoint = st.NextElkPoint], m.Sig)
    /\ IngestElkrem(PushedState(st), m.Elk)

(* Mutant: the amount goes back to the old one, for the justice signature, *)
(* before the save and not after it.                                       *)
SigRevSaved_RolledBack(st, m) ==
    AdvanceElkrem([PushedState(st) EXCEPT !.Sig = m.Sig, !.MyAmt = st.MyAmt], m.N2ElkPoint)

SigRevSaved(st, m) ==
    LET adv == AdvanceElkrem([PushedState(st) EXCEPT !.Sig = m.Sig], m.N2ElkPoint)
        mine == IF st.InProgHTLC # NoHTLC \/ "HashDelta" \in st.Colliding
                THEN RotateMyHTLCBase(adv, 2) ELSE adv
        added == IF st.InProgHTLC # NoHTLC
                 THEN RotateHTLCBase(AppendHTLC([mine EXCEPT !.InProgHTLC = NoHTLC],
                                                st.InProgHTLC), m.N2HTLCBase)
                 ELSE mine
    IN MarkCleared(added)

-----------------------------------------------------------------------------
(* GapSigRevHandler: both sides have sent an update.                       *)

GapSigRevExpected(st) == \/ st.Collision # 0
                         \/ st.CollidingHTLC # NoHTLC
                         \/ st.Colliding # {}

GapState(st, n2) == AdvanceElkrem([st EXCEPT !.MyAmt = Settled(st) + st.Delta,
                                            !.Delta = st.Collision, !.Collision = 0], n2)

GapSigRevOK(st, m) ==
    LET g == GapState(st, m.N2ElkPoint)
    IN /\ IngestElkrem(st, m.Elk)
       /\ VerifySigs([g EXCEPT !.StateIdx = @ + 1, !.ElkPoint = g.NextElkPoint], m.Sig)

(* Mutant: the other side's next HTLC base is not taken over.              *)
NewBase_Kept(st, base) == st

(* A base that was not sent before is the other side's next but one.       *)
NewBase(st, base) == IF base # st.N2HTLCBase THEN RotateHTLCBase(st, base) ELSE st

GapSigRevSaved(st, m) ==
    LET g == NewBase([GapState(st, m.N2ElkPoint) EXCEPT !.StateIdx = @ + 1, !.Sig = m.Sig],
                     m.N2HTLCBase)
    IN IF st.CollidingHTLC # NoHTLC THEN RotateMyHTLCBase(g, 3) ELSE g

-----------------------------------------------------------------------------
(* RevHandler: the last message of an update.                              *)

(* Mutant: the elkrem points stay where they were.                         *)
RevSaved_NoPoint(st, m) == MarkCleared([st EXCEPT !.Delta = 0, !.Colliding = {}])

RevSaved(st, m) ==
    LET adv == NewBase([AdvanceElkrem(st, m.N2ElkPoint) EXCEPT !.Delta = 0, !.Colliding = {}],
                       m.N2HTLCBase)
        both == AppendHTLC(adv, st.InProgHTLC \o st.CollidingHTLC)
    IN MarkCleared([both EXCEPT !.InProgHTLC = NoHTLC, !.CollidingHTLC = NoHTLC])

-----------------------------------------------------------------------------
(* BreakChannel drops whatever is in progress and rebuilds the transaction *)
(* that the stored signature is for.                                       *)
BreakState(st) ==
    LET open == SetClearing(st, Uncleared(st), FALSE)
    IN [open EXCEPT !.Delta = 0, !.InProgHTLC = NoHTLC, !.CollidingHTLC = NoHTLC]

=============================================================================
