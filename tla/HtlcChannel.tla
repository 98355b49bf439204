----------------------------- MODULE HtlcChannel -----------------------------
(***************************************************************************)
(* The channel of PushPull with hash time-locked payments (qln/htlc.go):   *)
(* OfferHTLC and HashSigHandler add one, ClearHTLC and PreimageSigHandler  *)
(* take one out, with its preimage or after its timeout.  The exchange     *)
(* goes on with the SigRev, GapSigRev and Rev of PushPull, whose handlers  *)
(* are used as they are, and may cross a push or another HTLC operation.   *)
(*                                                                         *)
(* A user call of OfferHTLC or ClearHTLC waits for the token, and for its  *)
(* answer, like one of PushChannel; op says which of the three it is.      *)
(***************************************************************************)
EXTENDS PushPull

CONSTANTS OfferAmt,    \* amounts that users offer
          Locktime,    \* locktimes of offers
          ClearR,      \* what users clear with: preimages, or NoR
          MaxHeight,   \* bounds the chain
          MaxHTLC,     \* bounds the HTLCs a channel sees
          MaxOps,      \* bounds the user calls and reconnects together
          AnyClear,    \* TRUE: users clear HTLCs that pay the other side, too
          Lag,         \* TRUE: a block may reach one wallet before the other
          Above        \* pairs of indexes such that A's HTLC base sorts above B's

ASSUME HtlcAssumption ==
    /\ OfferAmt \subseteq Nat \ {0} /\ Locktime \subseteq Nat
    /\ ClearR \subseteq Preimage \cup {NoR}
    /\ {MaxHeight, MaxHTLC, MaxOps} \subseteq Nat /\ AnyClear \in BOOLEAN /\ Lag \in BOOLEAN
    /\ Above \subseteq Nat \X Nat

VARIABLES op,      \* what each user call does
          height   \* the height each node's wallet knows

hvars == <<vars, op, height>>

Push == [kind |-> "push"]
Op == {Push}
      \cup [kind : {"offer"}, amt : OfferAmt, rhash : Preimage, locktime : Locktime]
      \cup [kind : {"clear"}, idx : Nat, R : ClearR]

HInit == /\ Init
         /\ op = [n \in Node |-> [c \in Call |-> Push]]
         /\ height = [n \in Node |-> 0]

-----------------------------------------------------------------------------
(* An HTLC that is added now: its key and the other side's next one.       *)
NewHTLC(st, idx, incoming, amt, rhash, locktime) ==
    [Idx |-> idx, Incoming |-> incoming, Amt |-> amt, RHash |-> rhash, Locktime |-> locktime,
     MyHTLCBase |-> idx, TheirHTLCBase |-> st.NextHTLCBase, R |-> NoR,
     Clearing |-> FALSE, Cleared |-> FALSE]

(* Position in HTLCs of the HTLC that users and messages call idx.         *)
Pos(idx) == idx + 1

NotAtRest(st) == st.Delta # 0 \/ st.InProgHTLC # NoHTLC

(* OfferHTLC's balance check and the state it saves.                       *)
OfferAffordable(st, o) == MyBalance(st) - (Fee + o.amt) >= MinOutput
OfferState(st, o) ==
    [st EXCEPT !.InProgHTLC = <<NewHTLC(st, st.HTLCIdx, FALSE, o.amt, o.rhash, o.locktime)>>]

(* What SendHashSig signs: the next state, with the HTLC in progress.      *)
HashSigState(st) == [st EXCEPT !.StateIdx = @ + 1, !.MyAmt = @ - st.InProgHTLC[1].Amt,
                               !.ElkPoint = st.NextElkPoint]
SendHashSig(st) ==
    LET h == st.InProgHTLC[1]
    IN [type |-> "HashSig", Amt |-> h.Amt, RHash |-> h.RHash, Locktime |-> h.Locktime,
        Sig |-> SignState(HashSigState(st))]

(* Mutant: does not look whether the HTLC was cleared before.              *)
Clearable_Again(st, idx, R, now) ==
    /\ idx < Len(st.HTLCs)
    /\ LET h == st.HTLCs[Pos(idx)]
       IN IF R = NoR THEN h.Locktime <= now ELSE h.RHash = R

(* The checks that ClearHTLC and PreimageSigHandler share.                 *)
Clearable(st, idx, R, now) ==
    /\ idx < Len(st.HTLCs)
    /\ LET h == st.HTLCs[Pos(idx)]
       IN /\ ~h.Cleared
          /\ IF R = NoR THEN h.Locktime <= now ELSE h.RHash = R

MarkClearing(st, idx, R) ==
    [st EXCEPT !.HTLCs[Pos(idx)] = [@ EXCEPT !.Clearing = TRUE, !.R = R]]

(* What clearing this HTLC pays me.                                        *)
Payout(h) == IF h.Incoming # (h.R = NoR) THEN h.Amt ELSE 0

PreimageSigState(st, idx) ==
    [st EXCEPT !.StateIdx = @ + 1, !.MyAmt = @ + Payout(st.HTLCs[Pos(idx)]),
               !.ElkPoint = st.NextElkPoint]
SendPreimageSig(st, idx) ==
    [type |-> "PreimageSig", Idx |-> idx, R |-> st.HTLCs[Pos(idx)].R,
     Sig |-> SignState(PreimageSigState(st, idx))]

-----------------------------------------------------------------------------
(* The user's calls.                                                       *)

HStart(n, c, o) ==
    /\ c \in CallsOf(n)
    /\ call[n][c].pc = "idle"
    /\ ~closed[n]
    /\ gen[n] \notin failed[n]
    /\ call' = [call EXCEPT ![n][c] =
                 [pc |-> "enter", gen |-> gen[n], amt |-> 0, seen |-> Nothing]]
    /\ op' = [op EXCEPT ![n][c] = o]
    /\ UNCHANGED <<db, ram, net, env, hist, height>>

(* The RPC turns away amounts below MinOutput.                             *)
OfferStart(n, c) ==
    /\ Len(disk[n].HTLCs) < MaxHTLC
    /\ \E amt \in {x \in OfferAmt : x >= MinOutput}, r \in Preimage, t \in Locktime :
          HStart(n, c, [kind |-> "offer", amt |-> amt, rhash |-> r, locktime |-> t])

(* ClaimHTLC clears incoming HTLCs with their preimage, ClaimHTLCTimeouts  *)
(* one's own after their timeout; the RPC clears whatever it is told to.   *)
ClearStart(n, c) ==
    \E idx \in 0 .. (Len(disk[n].HTLCs) - 1), R \in ClearR :
        /\ AnyClear \/ disk[n].HTLCs[Pos(idx)].Incoming # (R = NoR)
        /\ HStart(n, c, [kind |-> "clear", idx |-> idx, R |-> R])

Accepted(n, c) ==
    LET o == op[n][c]
    IN CASE o.kind = "offer" -> OfferAffordable(View(n, c), o)
         [] o.kind = "clear" -> Clearable(View(n, c), o.idx, o.R, height[n])

HEntered(n, c) == HasChannel(n, c) /\ op[n][c].kind # "push"

(* The token goes back, the call returns an error.                         *)
HRefused(n, c) ==
    /\ HEntered(n, c)
    /\ ~Accepted(n, c)
    /\ Copy(n, call[n][c].gen, View(n, c))
    /\ Return(n, c, "refused")
    /\ UNCHANGED <<disk, closed, ram, net, env, hist, op, height>>

HNotAtRest(n, c) ==
    /\ HEntered(n, c)
    /\ Accepted(n, c)
    /\ NotAtRest(View(n, c))
    /\ TakeCts(n, call[n][c].gen)
    /\ FailCall(n, c)
    /\ UNCHANGED <<closed, gen, fill, inited, stuck, net, env, revoked, bcast, op, height>>

(* Save the operation, then sign and send; unlike PushChannel, a state     *)
(* that cannot be signed fails the channel.                                *)
StartUpdate(n, c, st, signed, msg) ==
    \/ /\ Buildable(signed)
       /\ CallSave(n, c, View(n, c), st)
       /\ net' = [net EXCEPT ![Peer(n)] = Append(@, msg)]
       /\ call' = [call EXCEPT ![n][c] = [@ EXCEPT !.pc = "wait", !.seen = Nothing]]
    \/ /\ ~Buildable(signed)
       /\ CallSave(n, c, View(n, c), FailChannel(st))
       /\ Return(n, c, "failed")
       /\ UNCHANGED net

SendOffer(n, c, st) == StartUpdate(n, c, st, HashSigState(st), SendHashSig(st))
SendClear(n, c, st, idx) ==
    StartUpdate(n, c, st, PreimageSigState(st, idx), SendPreimageSig(st, idx))

HSend(n, c) ==
    /\ HEntered(n, c)
    /\ Accepted(n, c)
    /\ ~NotAtRest(View(n, c))
    /\ TakeCts(n, call[n][c].gen)
    /\ LET o == op[n][c]
       IN \/ o.kind = "offer" /\ SendOffer(n, c, OfferState(View(n, c), o))
          \/ o.kind = "clear" /\ SendClear(n, c, MarkClearing(View(n, c), o.idx, o.R), o.idx)
    /\ UNCHANGED <<closed, gen, fill, inited, stuck, env, revoked, bcast, op, height>>

-----------------------------------------------------------------------------
(* HashSigHandler.  Without the token it collides with an offer of mine,   *)
(* with an HTLC being cleared, or with a push of mine.                     *)

MarkHashCollision(st) ==
    CASE st.InProgHTLC # NoHTLC -> st
      [] st.InProgHTLC = NoHTLC /\ ClearingIdxs(st) # {} ->
            [SetClearing(st, ClearingIdxs(st), FALSE) EXCEPT !.Colliding = @ \cup {"HashPreimage"}]
      [] OTHER -> [st EXCEPT !.Colliding = @ \cup {"HashDelta"}]

(* The HTLC offered, as the only one in progress while it is verified.     *)
IncomingHTLC(st, m, collision) ==
    NewHTLC(st, IF collision /\ st.InProgHTLC # NoHTLC THEN st.InProgHTLC[1].Idx ELSE st.HTLCIdx,
            TRUE, m.Amt, m.RHash, m.Locktime)
OfferedState(st, h) == [st EXCEPT !.StateIdx = @ + 1, !.InProgHTLC = <<h>>]

HashSigOK(seen, h, sig) ==
    /\ h.Amt >= MinOutput
    /\ TheirBalance(seen) - h.Amt >= MinOutput
    /\ VerifySigs([OfferedState(seen, h) EXCEPT !.ElkPoint = seen.NextElkPoint], sig)

(* My HTLC base sorts above the other side's.                              *)
MineAbove(n, st) == LET i == st.MyNextHTLCBase
                        j == st.NextHTLCBase
                    IN IF n = A THEN <<i, j>> \in Above ELSE <<j, i>> \notin Above

(* Mutant: both offers use the same keys.                                  *)
OrderOffers_SameBase(n, st, own, h) ==
    LET first == IF MineAbove(n, st) THEN h ELSE own
        second == IF MineAbove(n, st) THEN own ELSE h
    IN [st EXCEPT !.InProgHTLC = <<[first EXCEPT !.Idx = h.Idx]>>,
                  !.CollidingHTLC = <<[second EXCEPT !.Idx = st.HTLCIdx + 1,
                                                     !.MyHTLCBase = st.HTLCIdx + 1]>>]

(* Two offers that crossed: the one with the higher base goes second, and  *)
(* gets the next index and keys.                                           *)
OrderOffers(n, st, own, h) ==
    LET first == IF MineAbove(n, st) THEN h ELSE own
        second == IF MineAbove(n, st) THEN own ELSE h
        next == st.HTLCIdx + 1
    IN [st EXCEPT !.InProgHTLC = <<[first EXCEPT !.Idx = h.Idx]>>,
                  !.CollidingHTLC = <<[second EXCEPT !.Idx = next, !.MyHTLCBase = next,
                                                     !.TheirHTLCBase = st.N2HTLCBase]>>]

HashSigSaved(n, st, seen, h, sig, collision) ==
    LET new == [SetClearing(OfferedState(seen, h), ClearingIdxs(st), TRUE) EXCEPT !.Sig = sig]
    IN RotateMyHTLCBase(IF collision /\ st.InProgHTLC # NoHTLC
                        THEN OrderOffers(n, new, st.InProgHTLC[1], h) ELSE new, 2)

HashSigGap(st) == \/ st.Collision # 0
                  \/ st.CollidingHTLC # NoHTLC
                  \/ st.Colliding \cap {"HashPreimage", "HashDelta"} # {}

(* The answer of both HTLC handlers.                                       *)
AnswerUpdate(n, saved, gap) ==
    IF gap THEN AnswerSigned(n, saved, GapSigRevState(saved), SendGapSigRev(saved))
    ELSE AnswerSigned(n, saved, SigRevState(saved), SendSigRev(saved))

TakeOffer(n, seen, h, sig, saved) ==
    \/ closed[n] /\ Ignore(n)
    \/ ~closed[n] /\ ~HashSigOK(seen, h, sig) /\ Fail(n)
    \/ ~closed[n] /\ HashSigOK(seen, h, sig) /\ AnswerUpdate(n, saved, HashSigGap(saved))

HashSigHandler(n) ==
    /\ Receiving(n, "HashSig")
    /\ TakeCts(n, gen[n])
    /\ LET m == Head(net[n])
           collision == ~cts[n][gen[n]]
       IN \E h \in {IncomingHTLC(disk[n], m, collision)},
             seen \in {IF collision THEN MarkHashCollision(disk[n]) ELSE disk[n]} :
          \E saved \in {HashSigSaved(n, disk[n], seen, h, m.Sig, collision)} :
             TakeOffer(n, seen, h, m.Sig, saved)
    /\ UNCHANGED <<closed, gen, fill, inited, stuck, call, env, bcast, op, height>>

-----------------------------------------------------------------------------
(* PreimageSigHandler.                                                     *)

MarkPreimageCollision(st) ==
    CASE st.InProgHTLC # NoHTLC ->
            [st EXCEPT !.InProgHTLC = NoHTLC, !.Colliding = @ \cup {"HashPreimage"}]
      [] st.InProgHTLC = NoHTLC /\ ClearingIdxs(st) # {} ->
            [SetClearing(st, ClearingIdxs(st), FALSE) EXCEPT !.Colliding = @ \cup {"Preimages"}]
      [] OTHER -> [st EXCEPT !.Colliding = @ \cup {"PreimageDelta"}]

ClearedState(st, idx, R) ==
    LET c == MarkClearing(st, idx, R)
    IN [c EXCEPT !.StateIdx = @ + 1, !.MyAmt = @ + Payout(c.HTLCs[Pos(idx)])]

PreimageSigOK(seen, m) ==
    VerifySigs([ClearedState(seen, m.Idx, m.R) EXCEPT !.ElkPoint = seen.NextElkPoint], m.Sig)

PreimageSigSaved(st, seen, m) ==
    LET new == [SetClearing(ClearedState(seen, m.Idx, m.R), ClearingIdxs(st), TRUE)
                    EXCEPT !.InProgHTLC = st.InProgHTLC, !.Sig = m.Sig]
    IN IF "HashPreimage" \in new.Colliding THEN RotateMyHTLCBase(new, 2) ELSE new

PreimageSigGap(st) == \/ st.Collision # 0
                      \/ st.Colliding \cap {"HashPreimage", "Preimages", "PreimageDelta"} # {}

(* A message that does not fit is dropped, and the token with it.          *)
TakePreimage(n, st, seen, m, saved) ==
    \/ closed[n] /\ Ignore(n)
    \/ ~closed[n] /\ st.Delta > 0 /\ Answer(n, st, ReplyREV(st))
    \/ /\ ~closed[n] /\ st.Delta <= 0 /\ ~Clearable(st, m.Idx, m.R, height[n])
       /\ Ignore(n)
    \/ /\ ~closed[n] /\ st.Delta <= 0 /\ Clearable(st, m.Idx, m.R, height[n])
       /\ \/ ~PreimageSigOK(seen, m) /\ Fail(n)
          \/ PreimageSigOK(seen, m) /\ AnswerUpdate(n, saved, PreimageSigGap(saved))

PreimageSigHandler(n) ==
    /\ Receiving(n, "PreimageSig")
    /\ TakeCts(n, gen[n])
    /\ LET m == Head(net[n])
           seen == IF cts[n][gen[n]] THEN disk[n] ELSE MarkPreimageCollision(disk[n])
       IN TakePreimage(n, disk[n], seen, m, PreimageSigSaved(disk[n], seen, m))
    /\ UNCHANGED <<closed, gen, fill, inited, stuck, call, env, bcast, op, height>>

-----------------------------------------------------------------------------
(* A block reaches the wallets of both nodes, or of one of them first.      *)
NewBlock(S) ==
    /\ S = Node \/ Lag
    /\ \A n \in S : height[n] < MaxHeight
    /\ height' = [n \in Node |-> IF n \in S THEN height[n] + 1 ELSE height[n]]
    /\ UNCHANGED <<vars, op>>

HCallStep(n, c) ==
    OfferStart(n, c) \/ ClearStart(n, c) \/ HRefused(n, c) \/ HNotAtRest(n, c) \/ HSend(n, c)

(* The steps of PushPull; the entry of a call into PushChannel is one only *)
(* if that is what the call is for.                                        *)
PushStep ==
    \/ \E n \in Node : Handle(n) \/ (\E g \in Gen : FillClearToSend(n, g))
    \/ \E n \in Node, c \in Call :
          /\ op[n][c].kind = "push"
          /\ (\E amt \in PushAmt : PushStart(n, c, amt)) \/ PushRefused(n, c)
                \/ PushNotAtRest(n, c) \/ PushSend(n, c)
    \/ \E n \in Node, c \in Call : CallStep(n, c) \/ PushTimeout(n, c)
    \/ Environment

Ops == conns + Cardinality({x \in Node \X Call : call[x[1]][x[2]].pc # "idle"})

HNext ==
    /\ \/ PushStep /\ UNCHANGED <<op, height>>
       \/ \E n \in Node : HashSigHandler(n) \/ PreimageSigHandler(n)
       \/ \E S \in (SUBSET Node) \ {{}} : NewBlock(S)
       \/ \E n \in Node, c \in Call : HCallStep(n, c)
    /\ Ops' <= MaxOps

HSpec == HInit /\ [][HNext]_hvars

(* Handlers and calls that can run do run: the Go scheduler.  A call polls *)
(* for its token, so it may need to be lucky again and again.              *)
HHandle(n) == \/ Handle(n) /\ UNCHANGED <<op, height>>
              \/ HashSigHandler(n) \/ PreimageSigHandler(n)
HUserCall(n, c) ==
    \/ HRefused(n, c) \/ HNotAtRest(n, c) \/ HSend(n, c)
    \/ /\ op[n][c].kind = "push"
       /\ PushRefused(n, c) \/ PushNotAtRest(n, c) \/ PushSend(n, c)
       /\ UNCHANGED <<op, height>>
    \/ CallStep(n, c) /\ UNCHANGED <<op, height>>
HRunning == /\ \A n \in Node : WF_hvars(HHandle(n))
            /\ \A n \in Node : \A c \in CallsOf(n) : SF_hvars(HUserCall(n, c))
HFairSpec == HSpec /\ HRunning

-----------------------------------------------------------------------------
(* No update of either node is under way.  An HTLC stays marked Clearing    *)
(* after it is cleared.                                                    *)
Settling(st) == ClearingIdxs(st) \cap Uncleared(st)
HAtRest == \A n \in Node : /\ disk[n].Delta = 0 /\ disk[n].InProgHTLC = NoHTLC
                           /\ Settling(disk[n]) = {} /\ net[n] = <<>>

(* While the connection lasts, whenever both databases are at rest they    *)
(* list the same HTLCs, at the same indexes, under the same keys and with  *)
(* the same outcome, and hold each other's elkrem points and HTLC bases.   *)
SameHTLC(h, g) ==
    /\ h.Incoming = ~g.Incoming
    /\ h.MyHTLCBase = g.TheirHTLCBase
    /\ \A f \in {"Idx", "Amt", "RHash", "Locktime", "R", "Cleared"} : h[f] = g[f]
HtlcAgreement ==
    HAtRest /\ conns = 0 =>
        \A n \in Node :
            LET st == disk[n]
                p == disk[Peer(n)]
            IN /\ st.StateIdx = p.StateIdx
               /\ <<st.ElkPoint, st.NextElkPoint, st.N2ElkPoint>>
                    = [i \in 1 .. 3 |-> p.StateIdx + i - 1]
               /\ st.NextHTLCBase = p.MyNextHTLCBase /\ st.N2HTLCBase = p.MyN2HTLCBase
               /\ Len(st.HTLCs) = Len(p.HTLCs) /\ st.HTLCIdx = Len(st.HTLCs)
               /\ \A i \in Idxs(st.HTLCs) :
                     st.HTLCs[i].Idx = i - 1 /\ SameHTLC(st.HTLCs[i], p.HTLCs[i])

(* At rest the money of the channel is the two balances and the HTLCs that *)
(* are not cleared, and A's share follows from what was confirmed: pushes  *)
(* moved, offers set apart, and each cleared HTLC paid to one side, once.  *)
Spent(h) == ~h.Incoming /\ ~(h.Cleared /\ h.R = NoR)
Earned(h) == h.Incoming /\ h.Cleared /\ h.R # NoR
HtlcPaidOnce ==
    HAtRest /\ Returned =>
        LET hs == disk[A].HTLCs
        IN /\ disk[A].MyAmt + disk[B].MyAmt + AmtOf(hs, Uncleared(disk[A])) = Value
           /\ disk[A].MyAmt = InitAmtA - Confirmed(A) + Confirmed(B)
                                - AmtOf(hs, {i \in Idxs(hs) : Spent(hs[i])})
                                + AmtOf(hs, {i \in Idxs(hs) : Earned(hs[i])})

(* An HTLC once cleared keeps its outcome, as long as no save of the node  *)
(* undoes another: a late one can open the HTLC again.                     *)
ClearedForGood ==
    [][\A n \in Node \ raced' : \A i \in Idxs(disk[n].HTLCs) :
          disk[n].HTLCs[i].Cleared =>
              /\ i \in Idxs(disk'[n].HTLCs)
              /\ disk'[n].HTLCs[i].Cleared
              /\ disk'[n].HTLCs[i].R = disk[n].HTLCs[i].R]_hvars

(* Every push, offer and clearing that users start is in the end confirmed *)
(* or refused, and the channel comes to rest.                              *)
HtlcCompletes ==
    <>[](HAtRest /\ Returned /\ \A n \in Node, c \in Call : call[n][c].pc # "failed")

=============================================================================
