----------------------------- MODULE Htlc_proofs -----------------------------
(***************************************************************************)
(* Proofs about HtlcChannel, for every capacity, fee, amounts, timeouts,   *)
(* order of keys, number of calls, HTLCs, blocks and reconnects.           *)
(*                                                                         *)
(* Neither result depends on what the other side does, on amounts or on    *)
(* signatures: whatever a handler makes of the stored state, and however   *)
(* operations cross, the new state number is not smaller, only the one     *)
(* before the new state is revoked, and an HTLC that is cleared stays in   *)
(* its place of the list with the outcome it has.                          *)
(***************************************************************************)
EXTENDS HtlcChannel, SequenceTheorems, TLAPS

HtlcFields == {"Idx", "Incoming", "Amt", "RHash", "Locktime",
               "MyHTLCBase", "TheirHTLCBase", "R", "Clearing", "Cleared"}

StateFields == {"StateIdx", "MyAmt", "Delta", "Collision", "ElkPoint", "NextElkPoint",
                "N2ElkPoint", "Sig", "HTLCIdx", "InProgHTLC", "CollidingHTLC", "Colliding",
                "NextHTLCBase", "N2HTLCBase", "MyNextHTLCBase", "MyN2HTLCBase", "HTLCs", "Failed"}

(* A list of HTLCs, whatever they hold.                                    *)
IsHTLC(h) == DOMAIN h = HtlcFields
Listed(hs) == hs \in Seq({hs[i] : i \in DOMAIN hs}) /\ \A i \in DOMAIN hs : IsHTLC(hs[i])

State(st) ==
    /\ DOMAIN st = StateFields
    /\ st.StateIdx \in Nat
    /\ Listed(st.HTLCs) /\ Listed(st.InProgHTLC) /\ Listed(st.CollidingHTLC)

(* What is cleared in hs is cleared in gs, at the same place and with the  *)
(* same preimage or timeout.                                               *)
Kept(hs, gs) ==
    \A i \in DOMAIN hs : hs[i].Cleared => i \in DOMAIN gs /\ gs[i].Cleared /\ gs[i].R = hs[i].R

(* new may be saved over st.                                               *)
Follows(st, new) ==
    State(new) /\ Kept(st.HTLCs, new.HTLCs) /\ new.StateIdx >= st.StateIdx

Revokes(n, st) == revoked'[n] \subseteq revoked[n] \cup {i \in Int : i < st.StateIdx}

(* What a call has reloaded, and what waits to be written back, are        *)
(* channel records.                                                        *)
CallFields == {"pc", "gen", "amt", "seen"}
GoodView(seen) == seen # Nothing => State(seen[1])
Stocks ==
    /\ DOMAIN saving = Node /\ \A n \in Node : \A rec \in saving[n] : State(rec.state)
    /\ DOMAIN call = Node /\ \A n \in Node : DOMAIN call[n] = Call
    /\ \A n \in Node, c \in Call : DOMAIN call[n][c] = CallFields /\ GoodView(call[n][c].seen)

Inv ==
    /\ DOMAIN disk = Node /\ \A n \in Node : State(disk[n])
    /\ revoked \in [Node -> SUBSET Int]
    /\ Stocks
    /\ RevocationSafety

(* What every step does to the record and the revocations of a node.       *)
Advances(n) ==
    /\ State(disk'[n]) /\ Revokes(n, disk'[n])
    /\ n \in raced' \/ Follows(disk[n], disk'[n])
Forward ==
    /\ DOMAIN disk' = Node /\ revoked' = [n \in Node |-> revoked'[n]]
    /\ raced \subseteq raced'
    /\ \A n \in Node : Advances(n)

-----------------------------------------------------------------------------
(* Lists.                                                                  *)

LEMMA ListedLen ==
  ASSUME NEW hs, Listed(hs)
  PROVE  Len(hs) \in Nat /\ DOMAIN hs = 1 .. Len(hs) /\ hs = [i \in 1 .. Len(hs) |-> hs[i]]
  BY DEF Listed

LEMMA ListedMade ==
  ASSUME NEW hs, NEW k \in Nat, DOMAIN hs = 1 .. k, hs = [i \in 1 .. k |-> hs[i]],
         \A i \in 1 .. k : IsHTLC(hs[i])
  PROVE  Listed(hs)
<1> DEFINE S == {hs[i] : i \in DOMAIN hs}
<1>1. hs \in [1 .. k -> S]
  OBVIOUS
<1> HIDE DEF S
<1>2. hs \in Seq(S)
  BY <1>1
<1> QED BY <1>2 DEF Listed, S

LEMMA ListedNone == Listed(<<>>)
<1>1. DOMAIN <<>> = {}
  OBVIOUS
<1> QED BY <1>1 DEF Listed

LEMMA ListedOne ==
  ASSUME NEW h, IsHTLC(h)
  PROVE  Listed(<<h>>)
<1>1. DOMAIN <<h>> = {1} /\ <<h>>[1] = h /\ <<h>> \in Seq({h})
  OBVIOUS
<1> QED BY <1>1 DEF Listed

LEMMA ListedConcat ==
  ASSUME NEW s, Listed(s), NEW t, Listed(t)
  PROVE  Listed(s \o t) /\ \A i \in DOMAIN s : i \in DOMAIN (s \o t) /\ (s \o t)[i] = s[i]
<1> DEFINE S == {s[i] : i \in DOMAIN s}
           T == {t[i] : i \in DOMAIN t}
           U == S \cup T
           u == s \o t
<1>1. s \in Seq(S) /\ t \in Seq(T)
  BY DEF Listed
<1>2. s \in Seq(U) /\ t \in Seq(U)
  BY <1>1
<1> HIDE DEF S, T, U
<1>3. u \in Seq(U) /\ Len(u) = Len(s) + Len(t) /\ Len(s) \in Nat /\ Len(t) \in Nat
      /\ DOMAIN s = 1 .. Len(s) /\ DOMAIN t = 1 .. Len(t) /\ DOMAIN u = 1 .. Len(u)
      /\ u = [i \in 1 .. Len(u) |-> u[i]]
  <2>1. u \in Seq(U) /\ Len(u) = Len(s) + Len(t)
    BY <1>2, ConcatProperties, Zenon
  <2> HIDE DEF u
  <2> QED BY <1>2, <2>1
<1>4. \A i \in 1 .. Len(u) : u[i] = IF i <= Len(s) THEN s[i] ELSE t[i - Len(s)]
  <2>1. \A i \in 1 .. Len(s) + Len(t) : u[i] = IF i <= Len(s) THEN s[i] ELSE t[i - Len(s)]
    BY <1>2, ConcatProperties, Zenon
  <2>2. Len(u) = Len(s) + Len(t)
    BY <1>3
  <2> HIDE DEF u
  <2> QED BY <2>1, <2>2
<1>5. \A i \in DOMAIN s : i \in DOMAIN u /\ u[i] = s[i]
  BY <1>3, <1>4
<1>6. ASSUME NEW i \in 1 .. Len(u) PROVE IsHTLC(u[i])
  <2>1. CASE i <= Len(s)
    <3>1. i \in DOMAIN s /\ u[i] = s[i] BY <1>3, <1>4, <2>1
    <3> QED BY <3>1 DEF Listed
  <2>2. CASE ~(i <= Len(s))
    <3>1. i - Len(s) \in DOMAIN t /\ u[i] = t[i - Len(s)] BY <1>3, <1>4, <2>2
    <3> QED BY <3>1 DEF Listed
  <2> QED BY <2>1, <2>2
<1>7. Len(u) \in Nat
  BY <1>3
<1> HIDE DEF u
<1>8. Listed(u)
  BY <1>3, <1>6, <1>7, ListedMade
<1> QED BY <1>5, <1>8 DEF u

LEMMA KeptSame == ASSUME NEW hs PROVE Kept(hs, hs)
  BY DEF Kept

LEMMA FollowsSame == ASSUME NEW st, State(st) PROVE Follows(st, st)
  BY KeptSame DEF Follows, State

LEMMA FollowsOn ==
  ASSUME NEW r, NEW s, NEW t, State(r), Follows(r, s), Follows(s, t)
  PROVE  Follows(r, t)
<1>1. Kept(r.HTLCs, t.HTLCs)
  BY DEF Follows, Kept
<1>2. r.StateIdx \in Nat /\ s.StateIdx \in Nat /\ t.StateIdx \in Nat
  BY DEF Follows, State
<1> QED BY <1>1, <1>2 DEF Follows

-----------------------------------------------------------------------------
(* What the state functions of Qchan do to a state.                        *)

(* Nothing but the three lists and the number matters.                     *)
Alike(st, new) ==
    /\ DOMAIN new = DOMAIN st
    /\ new.StateIdx \in {st.StateIdx, st.StateIdx + 1}
    /\ new.HTLCs = st.HTLCs /\ new.InProgHTLC = st.InProgHTLC
    /\ new.CollidingHTLC = st.CollidingHTLC

LEMMA AlikeFollows ==
  ASSUME NEW st, State(st), NEW new, Alike(st, new)
  PROVE  Follows(st, new)
  BY KeptSame DEF Follows, State, Alike

LEMMA AlikeOn ==
  ASSUME NEW r, NEW s, NEW t, State(r), Follows(r, s), Alike(s, t)
  PROVE  Follows(r, t)
<1>1. Follows(s, t)
  BY AlikeFollows DEF Follows
<1> QED BY <1>1, FollowsOn

LEMMA PutHTLC ==
  ASSUME NEW st, State(st), NEW p, Listed(p)
  PROVE  /\ Follows(st, [st EXCEPT !.InProgHTLC = p])
         /\ Follows(st, [st EXCEPT !.CollidingHTLC = p])
<1>1. Follows(st, [st EXCEPT !.InProgHTLC = p])
  BY KeptSame DEF Follows, State, StateFields
<1>2. Follows(st, [st EXCEPT !.CollidingHTLC = p])
  BY KeptSame DEF Follows, State, StateFields
<1> QED BY <1>1, <1>2

LEMMA NewList ==
  ASSUME NEW st, State(st), NEW hs, Listed(hs), Kept(st.HTLCs, hs)
  PROVE  Follows(st, [st EXCEPT !.HTLCs = hs])
  BY DEF Follows, State, StateFields

LEMMA FailFollows ==
  ASSUME NEW st, State(st)
  PROVE  Follows(st, FailChannel(st)) /\ FailChannel(st).StateIdx = st.StateIdx
<1>1. Alike(st, FailChannel(st)) /\ FailChannel(st).StateIdx = st.StateIdx
  BY DEF FailChannel, Alike, State, StateFields
<1> QED BY <1>1, AlikeFollows

(* The HTLC at p, if there is one, is not cleared.                         *)
Open(st, p) == p \in DOMAIN st.HTLCs => ~st.HTLCs[p].Cleared

LEMMA ClearingFollows ==
  ASSUME NEW st, State(st), NEW I, NEW b
  PROVE  /\ Follows(st, SetClearing(st, I, b)) /\ SetClearing(st, I, b).StateIdx = st.StateIdx
         /\ \A p : Open(st, p) => Open(SetClearing(st, I, b), p)
<1> DEFINE hs == [i \in Idxs(st.HTLCs) |->
                    IF i \in I THEN [st.HTLCs[i] EXCEPT !.Clearing = b] ELSE st.HTLCs[i]]
<1>1. Listed(st.HTLCs)
  BY DEF State
<1>2. /\ DOMAIN hs = DOMAIN st.HTLCs
      /\ \A i \in DOMAIN st.HTLCs :
            /\ IsHTLC(hs[i]) /\ hs[i].Cleared = st.HTLCs[i].Cleared /\ hs[i].R = st.HTLCs[i].R
  BY <1>1 DEF Listed, IsHTLC, HtlcFields, Idxs
<1>3. hs = [i \in 1 .. Len(st.HTLCs) |-> hs[i]]
  BY <1>1, ListedLen DEF Idxs
<1> HIDE DEF hs
<1>4. Listed(hs)
  BY <1>1, <1>2, <1>3, ListedLen, ListedMade
<1>5. Kept(st.HTLCs, hs)
  BY <1>2 DEF Kept
<1>6. SetClearing(st, I, b) = [st EXCEPT !.HTLCs = hs]
  BY DEF SetClearing, hs
<1>7. SetClearing(st, I, b).HTLCs = hs /\ SetClearing(st, I, b).StateIdx = st.StateIdx
  BY <1>6 DEF State, StateFields
<1>8. Follows(st, SetClearing(st, I, b))
  BY <1>4, <1>5, <1>6, NewList
<1>9. \A p : Open(st, p) => Open(SetClearing(st, I, b), p)
  BY <1>2, <1>7 DEF Open
<1> QED BY <1>7, <1>8, <1>9

LEMMA ClearedFollows ==
  ASSUME NEW st, State(st)
  PROVE  Follows(st, MarkCleared(st)) /\ MarkCleared(st).StateIdx = st.StateIdx
<1> DEFINE hs == [i \in Idxs(st.HTLCs) |->
                    [st.HTLCs[i] EXCEPT !.Cleared = @ \/ st.HTLCs[i].Clearing]]
<1>1. Listed(st.HTLCs)
  BY DEF State
<1>2. /\ DOMAIN hs = DOMAIN st.HTLCs
      /\ \A i \in DOMAIN st.HTLCs :
            /\ IsHTLC(hs[i]) /\ hs[i].Cleared = (st.HTLCs[i].Cleared \/ st.HTLCs[i].Clearing)
            /\ hs[i].R = st.HTLCs[i].R
  BY <1>1 DEF Listed, IsHTLC, HtlcFields, Idxs
<1>3. hs = [i \in 1 .. Len(st.HTLCs) |-> hs[i]]
  BY <1>1, ListedLen DEF Idxs
<1> HIDE DEF hs
<1>4. Listed(hs)
  BY <1>1, <1>2, <1>3, ListedLen, ListedMade
<1>5. Kept(st.HTLCs, hs)
  BY <1>2 DEF Kept
<1>6. MarkCleared(st) = [st EXCEPT !.HTLCs = hs]
  BY DEF MarkCleared, hs
<1> QED BY <1>4, <1>5, <1>6, NewList DEF State, StateFields

LEMMA MarkingFollows ==
  ASSUME NEW st, State(st), NEW idx, NEW R, Open(st, Pos(idx))
  PROVE  Follows(st, MarkClearing(st, idx, R)) /\ MarkClearing(st, idx, R).StateIdx = st.StateIdx
<1> DEFINE p == Pos(idx)
           hs == [st.HTLCs EXCEPT ![p] = [@ EXCEPT !.Clearing = TRUE, !.R = R]]
<1>1. Listed(st.HTLCs)
  BY DEF State
<1>2. /\ DOMAIN hs = DOMAIN st.HTLCs
      /\ \A i \in DOMAIN st.HTLCs : IsHTLC(hs[i]) /\ (i # p => hs[i] = st.HTLCs[i])
  <2> HIDE DEF p
  <2> QED BY <1>1 DEF Listed, IsHTLC, HtlcFields
<1>3. hs = [i \in 1 .. Len(st.HTLCs) |-> hs[i]]
  <2> HIDE DEF p
  <2> QED BY <1>1, ListedLen
<1> HIDE DEF hs
<1>4. Listed(hs)
  BY <1>1, <1>2, <1>3, ListedLen, ListedMade
<1>5. Kept(st.HTLCs, hs)
  BY <1>2 DEF Kept, Open
<1>6. MarkClearing(st, idx, R) = [st EXCEPT !.HTLCs = hs]
  BY DEF MarkClearing, hs, State, StateFields
<1> QED BY <1>4, <1>5, <1>6, NewList DEF State, StateFields

LEMMA AppendFollows ==
  ASSUME NEW st, State(st), NEW p, Listed(p)
  PROVE  Follows(st, AppendHTLC(st, p))
<1>1. Listed(st.HTLCs \o p) /\ Kept(st.HTLCs, st.HTLCs \o p)
  BY ListedConcat DEF State, Kept
<1>2. AppendHTLC(st, p).HTLCs = st.HTLCs \o p
  BY DEF AppendHTLC, State, StateFields
<1>3. /\ DOMAIN AppendHTLC(st, p) = StateFields
      /\ AppendHTLC(st, p).StateIdx = st.StateIdx
      /\ AppendHTLC(st, p).InProgHTLC = st.InProgHTLC
      /\ AppendHTLC(st, p).CollidingHTLC = st.CollidingHTLC
  BY DEF AppendHTLC, State, StateFields
<1> QED BY <1>1, <1>2, <1>3 DEF Follows, State

LEMMA PointsFollow ==
  ASSUME NEW st, State(st), NEW x
  PROVE  /\ Follows(st, AdvanceElkrem(st, x)) /\ Follows(st, RotateMyHTLCBase(st, x))
         /\ Follows(st, RotateHTLCBase(st, x)) /\ Follows(st, NewBase(st, x))
         /\ RotateMyHTLCBase(st, x).StateIdx = st.StateIdx
<1>1. Alike(st, AdvanceElkrem(st, x))
  BY DEF AdvanceElkrem, Alike, State, StateFields
<1>2. Alike(st, RotateMyHTLCBase(st, x)) /\ RotateMyHTLCBase(st, x).StateIdx = st.StateIdx
  BY DEF RotateMyHTLCBase, Alike, State, StateFields
<1>3. Alike(st, RotateHTLCBase(st, x))
  BY DEF RotateHTLCBase, Alike, State, StateFields
<1>4. Follows(st, NewBase(st, x))
  BY <1>3, FollowsSame, AlikeFollows DEF NewBase
<1> QED BY <1>1, <1>2, <1>3, <1>4, AlikeFollows

(* Marking a collision takes nothing out that is cleared.                  *)
LEMMA DeltaMarkFollows ==
  ASSUME NEW st, State(st), NEW d
  PROVE  /\ Follows(st, MarkDeltaCollision(st, d))
         /\ MarkDeltaCollision(st, d).StateIdx = st.StateIdx
<1>1. CASE st.InProgHTLC # NoHTLC
  <2> DEFINE r == RotateMyHTLCBase(st, 2)
             q == [r EXCEPT !.InProgHTLC = NoHTLC]
             new == [q EXCEPT !.Colliding = @ \cup {"HashDelta"}]
  <2>1. MarkDeltaCollision(st, d) = new
    BY <1>1 DEF MarkDeltaCollision
  <2>2. Follows(st, r) /\ r.StateIdx = st.StateIdx /\ State(r)
    BY PointsFollow DEF Follows
  <2> HIDE DEF r
  <2>3. Follows(r, q) /\ q.StateIdx = r.StateIdx /\ State(q)
    BY <2>2, PutHTLC, ListedNone DEF NoHTLC, State, StateFields, Follows
  <2> HIDE DEF q
  <2>4. Alike(q, new) /\ new.StateIdx = q.StateIdx
    BY <2>3 DEF Alike, State, StateFields
  <2> HIDE DEF new
  <2> QED BY <2>1, <2>2, <2>3, <2>4, FollowsOn, AlikeOn DEF r, q, new
<1>2. CASE st.InProgHTLC = NoHTLC /\ ClearingIdxs(st) # {}
  <2> DEFINE q == SetClearing(st, ClearingIdxs(st), FALSE)
             new == [q EXCEPT !.Colliding = @ \cup {"PreimageDelta"}]
  <2>1. MarkDeltaCollision(st, d) = new
    BY <1>2 DEF MarkDeltaCollision
  <2>2. Follows(st, q) /\ q.StateIdx = st.StateIdx /\ State(q)
    BY ClearingFollows DEF Follows
  <2> HIDE DEF q
  <2>3. Alike(q, new) /\ new.StateIdx = q.StateIdx
    BY <2>2 DEF Alike, State, StateFields
  <2> HIDE DEF new
  <2> QED BY <2>1, <2>2, <2>3, AlikeOn
<1>3. CASE ~(st.InProgHTLC # NoHTLC) /\ ~(st.InProgHTLC = NoHTLC /\ ClearingIdxs(st) # {})
  <2> DEFINE new == [st EXCEPT !.Collision = d]
  <2>1. MarkDeltaCollision(st, d) = new
    BY <1>3 DEF MarkDeltaCollision
  <2>2. Alike(st, new) /\ new.StateIdx = st.StateIdx
    BY DEF Alike, State, StateFields
  <2> HIDE DEF new
  <2> QED BY <2>1, <2>2, AlikeFollows
<1> QED BY <1>1, <1>2, <1>3

(* What a handler saves when it takes a DeltaSig.                          *)
LEMMA DeltaSigFollows ==
  ASSUME NEW st, State(st), NEW seen, Follows(st, seen), NEW d, NEW sig, NEW c
  PROVE  Follows(st, DeltaSigSaved(st, seen, d, sig, c))
<1> DEFINE r == PulledState(seen, d, c)
           s == SetClearing(r, ClearingIdxs(st), TRUE)
           t == [s EXCEPT !.Sig = sig]
           new == [t EXCEPT !.InProgHTLC = st.InProgHTLC]
<1>1. DeltaSigSaved(st, seen, d, sig, c) = new
  BY DEF DeltaSigSaved
<1>2. State(seen)
  BY DEF Follows
<1>3. Alike(seen, r)
  BY <1>2 DEF PulledState, Alike, State, StateFields
<1> HIDE DEF r
<1>4. Follows(st, r) /\ State(r)
  BY <1>3, AlikeOn DEF Follows
<1>5. Follows(r, s)
  BY <1>4, ClearingFollows
<1> HIDE DEF s
<1>6. Follows(st, s) /\ State(s)
  BY <1>4, <1>5, FollowsOn DEF Follows
<1>7. Alike(s, t)
  BY <1>6 DEF Alike, State, StateFields
<1> HIDE DEF t
<1>8. Follows(st, t) /\ State(t)
  BY <1>6, <1>7, AlikeOn DEF Follows
<1>9. Follows(t, new)
  BY <1>8, PutHTLC DEF State
<1> HIDE DEF new
<1> QED BY <1>1, <1>8, <1>9, FollowsOn

LEMMA SigRevFollows ==
  ASSUME NEW st, State(st), NEW m
  PROVE  Follows(st, SigRevSaved(st, m))
<1> DEFINE p == [PushedState(st) EXCEPT !.Sig = m.Sig]
           adv == AdvanceElkrem(p, m.N2ElkPoint)
           mine == IF st.InProgHTLC # NoHTLC \/ "HashDelta" \in st.Colliding
                   THEN RotateMyHTLCBase(adv, 2) ELSE adv
           none == [mine EXCEPT !.InProgHTLC = NoHTLC]
           longer == AppendHTLC(none, st.InProgHTLC)
           added == IF st.InProgHTLC # NoHTLC THEN RotateHTLCBase(longer, m.N2HTLCBase) ELSE mine
<1>1. SigRevSaved(st, m) = MarkCleared(added)
  BY DEF SigRevSaved
<1>2. Alike(st, p)
  BY DEF PushedState, Alike, State, StateFields
<1> HIDE DEF p
<1>3. Follows(st, p) /\ State(p)
  BY <1>2, AlikeFollows DEF Follows
<1>4. Follows(st, adv) /\ State(adv)
  BY <1>3, PointsFollow, FollowsOn DEF Follows
<1> HIDE DEF adv
<1>5. Follows(st, mine) /\ State(mine)
  BY <1>4, PointsFollow, FollowsOn DEF Follows
<1> HIDE DEF mine
<1>6. Follows(st, none) /\ State(none)
  <2>1. Follows(mine, none)
    BY <1>5, PutHTLC, ListedNone DEF NoHTLC
  <2> HIDE DEF none
  <2> QED BY <1>5, <2>1, FollowsOn DEF Follows
<1> HIDE DEF none
<1>7. Listed(st.InProgHTLC)
  BY DEF State
<1>8. Follows(st, longer) /\ State(longer)
  BY <1>6, <1>7, AppendFollows, FollowsOn DEF Follows
<1> HIDE DEF longer
<1>9. Follows(st, added) /\ State(added)
  BY <1>5, <1>8, PointsFollow, FollowsOn DEF Follows
<1> HIDE DEF added
<1> QED BY <1>1, <1>9, ClearedFollows, FollowsOn

LEMMA GapSigRevFollows ==
  ASSUME NEW st, State(st), NEW m
  PROVE  Follows(st, GapSigRevSaved(st, m))
<1> DEFINE p == [st EXCEPT !.MyAmt = Settled(st) + st.Delta, !.Delta = st.Collision, !.Collision = 0]
           q == GapState(st, m.N2ElkPoint)
           r == [q EXCEPT !.StateIdx = @ + 1, !.Sig = m.Sig]
           g == NewBase(r, m.N2HTLCBase)
<1>1. GapSigRevSaved(st, m) = IF st.CollidingHTLC # NoHTLC THEN RotateMyHTLCBase(g, 3) ELSE g
  BY DEF GapSigRevSaved
<1>2. Alike(st, p)
  BY DEF Alike, State, StateFields
<1>3. q = AdvanceElkrem(p, m.N2ElkPoint)
  BY DEF GapState
<1> HIDE DEF p, q
<1>4. Follows(st, p) /\ State(p)
  BY <1>2, AlikeFollows DEF Follows
<1>5. Follows(st, q) /\ State(q)
  BY <1>3, <1>4, PointsFollow, FollowsOn DEF Follows
<1>6. Alike(q, r)
  BY <1>5 DEF Alike, State, StateFields
<1> HIDE DEF r
<1>7. Follows(st, r) /\ State(r)
  BY <1>5, <1>6, AlikeOn DEF Follows
<1>8. Follows(st, g) /\ State(g)
  BY <1>7, PointsFollow, FollowsOn DEF Follows
<1> HIDE DEF g
<1>9. Follows(st, RotateMyHTLCBase(g, 3))
  BY <1>8, PointsFollow, FollowsOn
<1> QED BY <1>1, <1>8, <1>9

LEMMA RevFollows ==
  ASSUME NEW st, State(st), NEW m
  PROVE  Follows(st, RevSaved(st, m))
<1> DEFINE p == AdvanceElkrem(st, m.N2ElkPoint)
           q == [p EXCEPT !.Delta = 0, !.Colliding = {}]
           adv == NewBase(q, m.N2HTLCBase)
           both == AppendHTLC(adv, st.InProgHTLC \o st.CollidingHTLC)
           r == [both EXCEPT !.InProgHTLC = NoHTLC]
           s == [r EXCEPT !.CollidingHTLC = NoHTLC]
<1>1. RevSaved(st, m) = MarkCleared(s)
  BY DEF RevSaved
<1>2. Follows(st, p) /\ State(p)
  BY PointsFollow DEF Follows
<1> HIDE DEF p
<1>3. Alike(p, q)
  BY <1>2 DEF Alike, State, StateFields
<1> HIDE DEF q
<1>4. Follows(st, q) /\ State(q)
  BY <1>2, <1>3, AlikeOn DEF Follows
<1>5. Follows(st, adv) /\ State(adv)
  BY <1>4, PointsFollow, FollowsOn DEF Follows
<1> HIDE DEF adv
<1>6. Listed(st.InProgHTLC \o st.CollidingHTLC)
  BY ListedConcat DEF State
<1>7. Follows(st, both) /\ State(both)
  BY <1>5, <1>6, AppendFollows, FollowsOn DEF Follows
<1> HIDE DEF both
<1>8. Follows(both, r)
  BY <1>7, PutHTLC, ListedNone DEF NoHTLC
<1> HIDE DEF r
<1>9. Follows(st, r) /\ State(r)
  BY <1>7, <1>8, FollowsOn DEF Follows
<1>10. Follows(r, s)
  BY <1>9, PutHTLC, ListedNone DEF NoHTLC
<1> HIDE DEF s
<1>11. Follows(st, s) /\ State(s)
  BY <1>9, <1>10, FollowsOn DEF Follows
<1> QED BY <1>1, <1>11, ClearedFollows, FollowsOn

-----------------------------------------------------------------------------
(* The same for the handlers of HTLCs.                                     *)

LEMMA NewIsHTLC ==
  ASSUME NEW st, NEW i, NEW b, NEW a, NEW r, NEW t
  PROVE  IsHTLC(NewHTLC(st, i, b, a, r, t))
  BY DEF NewHTLC, IsHTLC, HtlcFields

LEMMA OfferFollows ==
  ASSUME NEW st, State(st), NEW o
  PROVE  Follows(st, OfferState(st, o))
<1> DEFINE h == NewHTLC(st, st.HTLCIdx, FALSE, o.amt, o.rhash, o.locktime)
<1>1. Listed(<<h>>)
  BY NewIsHTLC, ListedOne
<1>2. OfferState(st, o) = [st EXCEPT !.InProgHTLC = <<h>>]
  BY DEF OfferState
<1> HIDE DEF h
<1> QED BY <1>1, <1>2, PutHTLC

LEMMA HashMarkFollows ==
  ASSUME NEW st, State(st)
  PROVE  Follows(st, MarkHashCollision(st))
<1>1. CASE st.InProgHTLC # NoHTLC
  <2>1. MarkHashCollision(st) = st
    BY <1>1 DEF MarkHashCollision
  <2> QED BY <2>1, FollowsSame
<1>2. CASE st.InProgHTLC = NoHTLC /\ ClearingIdxs(st) # {}
  <2> DEFINE q == SetClearing(st, ClearingIdxs(st), FALSE)
             new == [q EXCEPT !.Colliding = @ \cup {"HashPreimage"}]
  <2>1. MarkHashCollision(st) = new
    BY <1>2 DEF MarkHashCollision
  <2>2. Follows(st, q) /\ State(q)
    BY ClearingFollows DEF Follows
  <2> HIDE DEF q
  <2>3. Alike(q, new)
    BY <2>2 DEF Alike, State, StateFields
  <2> HIDE DEF new
  <2> QED BY <2>1, <2>2, <2>3, AlikeOn
<1>3. CASE ~(st.InProgHTLC # NoHTLC) /\ ~(st.InProgHTLC = NoHTLC /\ ClearingIdxs(st) # {})
  <2> DEFINE new == [st EXCEPT !.Colliding = @ \cup {"HashDelta"}]
  <2>1. MarkHashCollision(st) = new
    BY <1>3 DEF MarkHashCollision
  <2>2. Alike(st, new)
    BY DEF Alike, State, StateFields
  <2> HIDE DEF new
  <2> QED BY <2>1, <2>2, AlikeFollows
<1> QED BY <1>1, <1>2, <1>3

(* Two offers that crossed are put in order in the state that is saved.    *)
LEMMA OrderFollows ==
  ASSUME NEW n, NEW st, State(st), NEW own, IsHTLC(own), NEW h, IsHTLC(h)
  PROVE  Follows(st, OrderOffers(n, st, own, h))
<1> DEFINE first == [(IF MineAbove(n, st) THEN h ELSE own) EXCEPT !.Idx = h.Idx]
           second == [(IF MineAbove(n, st) THEN own ELSE h) EXCEPT
                        !.Idx = st.HTLCIdx + 1, !.MyHTLCBase = st.HTLCIdx + 1,
                        !.TheirHTLCBase = st.N2HTLCBase]
           q == [st EXCEPT !.InProgHTLC = <<first>>]
           new == [q EXCEPT !.CollidingHTLC = <<second>>]
<1>1. OrderOffers(n, st, own, h) = new
  BY DEF OrderOffers
<1>2. IsHTLC(first) /\ IsHTLC(second)
  BY DEF IsHTLC
<1> HIDE DEF first, second
<1>3. Listed(<<first>>) /\ Listed(<<second>>)
  BY <1>2, ListedOne
<1>4. Follows(st, q) /\ State(q)
  BY <1>3, PutHTLC DEF Follows
<1> HIDE DEF q
<1>5. Follows(q, new)
  BY <1>3, <1>4, PutHTLC
<1> HIDE DEF new
<1> QED BY <1>1, <1>4, <1>5, FollowsOn

LEMMA HashSigFollows ==
  ASSUME NEW n, NEW st, State(st), NEW seen, Follows(st, seen), NEW h, IsHTLC(h),
         NEW sig, NEW c
  PROVE  Follows(st, HashSigSaved(n, st, seen, h, sig, c))
<1> DEFINE p == [seen EXCEPT !.StateIdx = @ + 1]
           r == [p EXCEPT !.InProgHTLC = <<h>>]
           s == SetClearing(r, ClearingIdxs(st), TRUE)
           t == [s EXCEPT !.Sig = sig]
           both == OrderOffers(n, t, st.InProgHTLC[1], h)
           u == IF c /\ st.InProgHTLC # NoHTLC THEN both ELSE t
<1>1. HashSigSaved(n, st, seen, h, sig, c) = RotateMyHTLCBase(u, 2)
  BY DEF HashSigSaved, OfferedState
<1>2. State(seen)
  BY DEF Follows
<1>3. Alike(seen, p)
  BY <1>2 DEF Alike, State, StateFields
<1> HIDE DEF p
<1>4. Follows(st, p) /\ State(p)
  BY <1>3, AlikeOn DEF Follows
<1>5. Follows(p, r)
  BY <1>4, ListedOne, PutHTLC
<1> HIDE DEF r
<1>6. Follows(st, r) /\ State(r)
  BY <1>4, <1>5, FollowsOn DEF Follows
<1>7. Follows(st, s) /\ State(s)
  BY <1>6, ClearingFollows, FollowsOn DEF Follows
<1> HIDE DEF s
<1>8. Alike(s, t)
  BY <1>7 DEF Alike, State, StateFields
<1> HIDE DEF t
<1>9. Follows(st, t) /\ State(t)
  BY <1>7, <1>8, AlikeOn DEF Follows
<1>10. ASSUME st.InProgHTLC # NoHTLC PROVE Follows(st, both)
  <2>1. IsHTLC(st.InProgHTLC[1])
    BY <1>10 DEF State, Listed, NoHTLC
  <2>2. Follows(t, both)
    BY <1>9, <2>1, OrderFollows
  <2> HIDE DEF both
  <2> QED BY <1>9, <2>2, FollowsOn
<1> HIDE DEF both
<1>11. Follows(st, u) /\ State(u)
  BY <1>9, <1>10 DEF Follows
<1> HIDE DEF u
<1> QED BY <1>1, <1>11, PointsFollow, FollowsOn

LEMMA PreimageMarkFollows ==
  ASSUME NEW st, State(st)
  PROVE  /\ Follows(st, MarkPreimageCollision(st))
         /\ \A p : Open(st, p) => Open(MarkPreimageCollision(st), p)
<1>1. CASE st.InProgHTLC # NoHTLC
  <2> DEFINE q == [st EXCEPT !.InProgHTLC = NoHTLC]
             new == [q EXCEPT !.Colliding = @ \cup {"HashPreimage"}]
  <2>1. MarkPreimageCollision(st) = new
    BY <1>1 DEF MarkPreimageCollision
  <2>2. Follows(st, q) /\ State(q) /\ q.HTLCs = st.HTLCs
    BY PutHTLC, ListedNone DEF NoHTLC, Follows, State, StateFields
  <2> HIDE DEF q
  <2>3. Alike(q, new)
    BY <2>2 DEF Alike, State, StateFields
  <2> HIDE DEF new
  <2>4. new.HTLCs = st.HTLCs
    BY <2>2, <2>3 DEF Alike
  <2> QED BY <2>1, <2>2, <2>3, <2>4, AlikeOn DEF Open
<1>2. CASE st.InProgHTLC = NoHTLC /\ ClearingIdxs(st) # {}
  <2> DEFINE q == SetClearing(st, ClearingIdxs(st), FALSE)
             new == [q EXCEPT !.Colliding = @ \cup {"Preimages"}]
  <2>1. MarkPreimageCollision(st) = new
    BY <1>2 DEF MarkPreimageCollision
  <2>2. Follows(st, q) /\ State(q) /\ \A p : Open(st, p) => Open(q, p)
    BY ClearingFollows DEF Follows
  <2> HIDE DEF q
  <2>3. Alike(q, new)
    BY <2>2 DEF Alike, State, StateFields
  <2> HIDE DEF new
  <2>4. new.HTLCs = q.HTLCs
    BY <2>3 DEF Alike
  <2> QED BY <2>1, <2>2, <2>3, <2>4, AlikeOn DEF Open
<1>3. CASE ~(st.InProgHTLC # NoHTLC) /\ ~(st.InProgHTLC = NoHTLC /\ ClearingIdxs(st) # {})
  <2> DEFINE new == [st EXCEPT !.Colliding = @ \cup {"PreimageDelta"}]
  <2>1. MarkPreimageCollision(st) = new
    BY <1>3 DEF MarkPreimageCollision
  <2>2. Alike(st, new)
    BY DEF Alike, State, StateFields
  <2> HIDE DEF new
  <2>3. new.HTLCs = st.HTLCs
    BY <2>2 DEF Alike
  <2> QED BY <2>1, <2>2, <2>3, AlikeFollows DEF Open
<1> QED BY <1>1, <1>2, <1>3

LEMMA PreimageSigFollows ==
  ASSUME NEW st, State(st), NEW seen, Follows(st, seen), NEW m, Open(seen, Pos(m.Idx))
  PROVE  Follows(st, PreimageSigSaved(st, seen, m))
<1> DEFINE c == MarkClearing(seen, m.Idx, m.R)
           r == [c EXCEPT !.StateIdx = @ + 1, !.MyAmt = @ + Payout(c.HTLCs[Pos(m.Idx)])]
           s == SetClearing(r, ClearingIdxs(st), TRUE)
           t == [s EXCEPT !.InProgHTLC = st.InProgHTLC]
           new == [t EXCEPT !.Sig = m.Sig]
<1>1. PreimageSigSaved(st, seen, m)
        = IF "HashPreimage" \in new.Colliding THEN RotateMyHTLCBase(new, 2) ELSE new
  BY DEF PreimageSigSaved, ClearedState
<1>2. State(seen)
  BY DEF Follows
<1>3. Follows(st, c) /\ State(c)
  BY <1>2, MarkingFollows, FollowsOn DEF Follows
<1> HIDE DEF c
<1>4. Alike(c, r)
  BY <1>3 DEF Alike, State, StateFields
<1> HIDE DEF r
<1>5. Follows(st, r) /\ State(r)
  BY <1>3, <1>4, AlikeOn DEF Follows
<1>6. Follows(st, s) /\ State(s)
  BY <1>5, ClearingFollows, FollowsOn DEF Follows
<1> HIDE DEF s
<1>7. Follows(s, t)
  BY <1>6, PutHTLC DEF State
<1> HIDE DEF t
<1>8. Follows(st, t) /\ State(t)
  BY <1>6, <1>7, FollowsOn DEF Follows
<1>9. Alike(t, new)
  BY <1>8 DEF Alike, State, StateFields
<1> HIDE DEF new
<1>10. Follows(st, new) /\ State(new)
  BY <1>8, <1>9, AlikeOn DEF Follows
<1>11. Follows(st, RotateMyHTLCBase(new, 2))
  BY <1>10, PointsFollow, FollowsOn
<1> QED BY <1>1, <1>10, <1>11

-----------------------------------------------------------------------------
(* Steps that write the record of one node, and the revocations it sends.  *)

LEMMA Unwritten ==
  ASSUME Inv, UNCHANGED <<disk, revoked>>, raced \subseteq raced'
  PROVE  Forward
<1>1. ASSUME NEW n \in Node PROVE Advances(n)
  <2>1. State(disk[n])
    BY DEF Inv
  <2> QED BY <2>1, FollowsSame DEF Advances, Revokes
<1> QED BY <1>1 DEF Forward, Inv

LEMMA Written ==
  ASSUME Inv, NEW n \in Node, NEW st, State(st), n \in raced' \/ Follows(disk[n], st),
         disk' = [disk EXCEPT ![n] = st], raced \subseteq raced',
         NEW E, revoked' = [revoked EXCEPT ![n] = @ \cup E],
         \A i \in E : i \in Int /\ i < st.StateIdx
  PROVE  Forward
<1>1. DOMAIN disk' = Node /\ revoked' = [m \in Node |-> revoked'[m]]
  BY DEF Inv
<1>2. ASSUME NEW m \in Node PROVE Advances(m)
  <2>1. CASE m = n
    <3>1. disk'[m] = st /\ revoked'[m] = revoked[m] \cup E
      BY <2>1 DEF Inv
    <3>2. Revokes(m, st)
      BY <3>1 DEF Revokes
    <3> QED BY <2>1, <3>1, <3>2 DEF Advances
  <2>2. CASE m # n
    <3>1. disk'[m] = disk[m] /\ revoked'[m] = revoked[m] /\ State(disk[m])
      BY <2>2 DEF Inv
    <3> QED BY <3>1, FollowsSame DEF Advances, Revokes
  <2> QED BY <2>1, <2>2
<1> QED BY <1>1, <1>2 DEF Forward

LEMMA Overwritten ==
  ASSUME Inv, NEW n \in Node, NEW st, State(st), n \in raced' \/ Follows(disk[n], st),
         disk' = [disk EXCEPT ![n] = st], raced \subseteq raced', UNCHANGED revoked
  PROVE  Forward
<1> DEFINE E == {}
<1>1. revoked \in [Node -> SUBSET Int]
  BY DEF Inv
<1>2. revoked' = [revoked EXCEPT ![n] = @ \cup E]
  BY <1>1
<1>3. \A i \in E : i \in Int /\ i < st.StateIdx
  OBVIOUS
<1> HIDE DEF E
<1> QED BY <1>2, <1>3, Written

(* Every answer reveals the state before the one it saves, at the most.    *)
Reply(reply, st) ==
    \A i \in DOMAIN reply : reply[i].Elk = st.StateIdx - 1

LEMMA AnswerForward ==
  ASSUME Inv, NEW n \in Node, NEW st, Follows(disk[n], st), NEW reply, Reply(reply, st),
         Answer(n, st, reply)
  PROVE  Forward
<1> DEFINE E == {reply[i].Elk : i \in DOMAIN reply}
<1>1. /\ disk' = [disk EXCEPT ![n] = st] /\ raced' = raced
      /\ revoked' = [revoked EXCEPT ![n] = @ \cup E]
  BY DEF Answer, Save
<1>2. State(st) /\ st.StateIdx \in Nat
  BY DEF Follows, State
<1>3. \A i \in E : i \in Int /\ i < st.StateIdx
  BY <1>2 DEF Reply
<1> HIDE DEF E
<1> QED BY <1>1, <1>2, <1>3, Written

LEMMA NoReply == ASSUME NEW st PROVE Reply(<<>>, st)
<1>1. DOMAIN <<>> = {}
  OBVIOUS
<1> QED BY <1>1 DEF Reply

LEMMA OneReply == ASSUME NEW st, NEW m, m.Elk = st.StateIdx - 1 PROVE Reply(<<m>>, st)
<1>1. DOMAIN <<m>> = {1} /\ <<m>>[1] = m
  OBVIOUS
<1> QED BY <1>1 DEF Reply

LEMMA Replies ==
  ASSUME NEW st
  PROVE  /\ Reply(ReplyREV(st), st) /\ Reply(<<SendREV(st)>>, st)
         /\ Reply(<<SendSigRev(st)>>, st) /\ Reply(<<SendGapSigRev(st)>>, st)
<1>1. SendREV(st).Elk = st.StateIdx - 1
  BY DEF SendREV
<1>2. SendSigRev(st).Elk = st.StateIdx - 1
  BY DEF SendSigRev, Revoking
<1>3. SendGapSigRev(st).Elk = st.StateIdx - 1
  BY DEF SendGapSigRev, Revoking
<1>4. Reply(<<SendREV(st)>>, st)
  BY <1>1, OneReply
<1>5. Reply(ReplyREV(st), st)
  BY <1>4, NoReply DEF ReplyREV
<1> QED BY <1>2, <1>3, <1>4, <1>5, OneReply

LEMMA IgnoreForward ==
  ASSUME Inv, NEW n \in Node, Ignore(n)
  PROVE  Forward
<1>1. Follows(disk[n], disk[n])
  BY FollowsSame DEF Inv
<1>2. Answer(n, disk[n], <<>>)
  BY DEF Ignore
<1> QED BY <1>1, <1>2, NoReply, AnswerForward

LEMMA FailForward ==
  ASSUME Inv, NEW n \in Node, Fail(n)
  PROVE  Forward
<1>1. Follows(disk[n], FailChannel(disk[n]))
  BY FailFollows DEF Inv
<1>2. Answer(n, FailChannel(disk[n]), <<>>)
  BY DEF Fail
<1> QED BY <1>1, <1>2, NoReply, AnswerForward

LEMMA SignedForward ==
  ASSUME Inv, NEW n \in Node, NEW st, Follows(disk[n], st), NEW signed, NEW m,
         Reply(<<m>>, st), AnswerSigned(n, st, signed, m)
  PROVE  Forward
<1>1. CASE Answer(n, st, <<m>>)
  BY <1>1, AnswerForward
<1>2. CASE Answer(n, FailChannel(st), <<>>)
  <2>1. State(disk[n]) /\ State(st)
    BY DEF Inv, Follows
  <2>2. Follows(disk[n], FailChannel(st))
    BY <2>1, FailFollows, FollowsOn
  <2> QED BY <1>2, <2>2, NoReply, AnswerForward
<1> QED BY <1>1, <1>2 DEF AnswerSigned

-----------------------------------------------------------------------------
(* The handlers.                                                           *)

LEMMA DeltaSigForward ==
  ASSUME Inv, NEW n \in Node, DeltaSigHandler(n)
  PROVE  Forward
<1> DEFINE m == Head(net[n])
           collision == ~cts[n][gen[n]]
           seen == IF collision THEN MarkDeltaCollision(disk[n], m.Delta) ELSE disk[n]
           saved == DeltaSigSaved(disk[n], seen, m.Delta, m.Sig, collision)
           good == DeltaSigOK(seen, m.Delta, m.Sig, collision)
<1>1. \/ Ignore(n)
      \/ Answer(n, disk[n], ReplyREV(seen))
      \/ Fail(n)
      \/ AnswerSigned(n, saved, GapSigRevState(saved), SendGapSigRev(saved))
      \/ AnswerSigned(n, saved, SigRevState(saved), SendSigRev(saved))
  BY DEF DeltaSigHandler
<1>2. State(disk[n])
  BY DEF Inv
<1>3. Follows(disk[n], seen) /\ seen.StateIdx = disk[n].StateIdx
  BY <1>2, DeltaMarkFollows, FollowsSame
<1> HIDE DEF m, collision, seen
<1>4. Follows(disk[n], saved)
  BY <1>2, <1>3, DeltaSigFollows
<1> HIDE DEF saved
<1>5. Reply(ReplyREV(seen), disk[n])
  BY <1>3, Replies DEF Reply
<1> QED BY <1>1, <1>2, <1>4, <1>5, Replies, FollowsSame, IgnoreForward, FailForward,
           AnswerForward, SignedForward

LEMMA GapSigRevForward ==
  ASSUME Inv, NEW n \in Node, GapSigRevHandler(n)
  PROVE  Forward
<1> DEFINE saved == GapSigRevSaved(disk[n], Head(net[n]))
<1>1. Fail(n) \/ Answer(n, saved, <<SendREV(saved)>>)
  BY DEF GapSigRevHandler
<1>2. Follows(disk[n], saved)
  BY GapSigRevFollows DEF Inv
<1> HIDE DEF saved
<1> QED BY <1>1, <1>2, Replies, FailForward, AnswerForward

LEMMA SigRevForward ==
  ASSUME Inv, NEW n \in Node, SigRevHandler(n)
  PROVE  Forward
<1> DEFINE saved == SigRevSaved(disk[n], Head(net[n]))
           again == IF CanRevoke(disk[n]) THEN disk[n] ELSE FailChannel(disk[n])
<1>1. \/ Answer(n, again, ReplyREV(disk[n]))
      \/ Fail(n)
      \/ Answer(n, saved, <<SendREV(saved)>>)
  BY DEF SigRevHandler
<1>2. Follows(disk[n], saved)
  BY SigRevFollows DEF Inv
<1>3. State(disk[n])
  BY DEF Inv
<1>4. Follows(disk[n], again) /\ again.StateIdx = disk[n].StateIdx
  BY <1>3, FollowsSame, FailFollows
<1> HIDE DEF saved, again
<1>5. Reply(ReplyREV(disk[n]), again)
  BY <1>4, Replies DEF Reply
<1> QED BY <1>1, <1>2, <1>4, <1>5, Replies, FailForward, AnswerForward

LEMMA RevForward ==
  ASSUME Inv, NEW n \in Node, RevHandler(n)
  PROVE  Forward
<1>1. \/ Ignore(n)
      \/ Answer(n, disk[n], ReplyREV(disk[n]))
      \/ Fail(n)
      \/ Answer(n, RevSaved(disk[n], Head(net[n])), <<>>)
  BY DEF RevHandler
<1>2. Follows(disk[n], RevSaved(disk[n], Head(net[n]))) /\ Follows(disk[n], disk[n])
  BY RevFollows, FollowsSame DEF Inv
<1> QED BY <1>1, <1>2, NoReply, Replies, IgnoreForward, FailForward, AnswerForward

LEMMA UpdateForward ==
  ASSUME Inv, NEW n \in Node, NEW saved, Follows(disk[n], saved), NEW gap \in BOOLEAN,
         AnswerUpdate(n, saved, gap)
  PROVE  Forward
<1>1. \/ AnswerSigned(n, saved, GapSigRevState(saved), SendGapSigRev(saved))
      \/ AnswerSigned(n, saved, SigRevState(saved), SendSigRev(saved))
  BY DEF AnswerUpdate
<1> QED BY <1>1, Replies, SignedForward

LEMMA HashSigForward ==
  ASSUME Inv, NEW n \in Node, HashSigHandler(n)
  PROVE  Forward
<1> DEFINE m == Head(net[n])
           collision == ~cts[n][gen[n]]
           h == IncomingHTLC(disk[n], m, collision)
           seen == IF collision THEN MarkHashCollision(disk[n]) ELSE disk[n]
           saved == HashSigSaved(n, disk[n], seen, h, m.Sig, collision)
<1>1. TakeOffer(n, seen, h, m.Sig, saved)
  BY DEF HashSigHandler
<1>2. State(disk[n])
  BY DEF Inv
<1>3. Follows(disk[n], seen)
  BY <1>2, HashMarkFollows, FollowsSame
<1>4. IsHTLC(h)
  BY NewIsHTLC DEF IncomingHTLC
<1> HIDE DEF m, collision, h, seen
<1>5. Follows(disk[n], saved)
  BY <1>2, <1>3, <1>4, HashSigFollows
<1> HIDE DEF saved
<1>6. Ignore(n) \/ Fail(n) \/ AnswerUpdate(n, saved, HashSigGap(saved))
  BY <1>1 DEF TakeOffer
<1>7. HashSigGap(saved) \in BOOLEAN
  BY DEF HashSigGap
<1> QED BY <1>5, <1>6, <1>7, IgnoreForward, FailForward, UpdateForward

LEMMA PreimageSigForward ==
  ASSUME Inv, NEW n \in Node, PreimageSigHandler(n)
  PROVE  Forward
<1> DEFINE m == Head(net[n])
           st == disk[n]
           seen == IF cts[n][gen[n]] THEN st ELSE MarkPreimageCollision(st)
           saved == PreimageSigSaved(st, seen, m)
<1>1. TakePreimage(n, st, seen, m, saved)
  BY DEF PreimageSigHandler
<1>2. State(st)
  BY DEF Inv
<1>3. Follows(st, seen) /\ \A p : Open(st, p) => Open(seen, p)
  BY <1>2, PreimageMarkFollows, FollowsSame
<1> HIDE DEF m, seen
<1>4. ASSUME Clearable(st, m.Idx, m.R, height[n]) PROVE Follows(st, saved)
  <2>1. Open(st, Pos(m.Idx))
    BY <1>4 DEF Clearable, Open
  <2> QED BY <1>2, <1>3, <2>1, PreimageSigFollows
<1> HIDE DEF saved
<1>5. \/ Ignore(n)
      \/ Fail(n)
      \/ Answer(n, st, ReplyREV(st))
      \/ Clearable(st, m.Idx, m.R, height[n]) /\ AnswerUpdate(n, saved, PreimageSigGap(saved))
  BY <1>1 DEF TakePreimage
<1>6. PreimageSigGap(saved) \in BOOLEAN
  BY DEF PreimageSigGap
<1>7. Follows(disk[n], disk[n])
  BY <1>2, FollowsSame
<1> QED BY <1>4, <1>5, <1>6, <1>7, Replies, IgnoreForward, FailForward, AnswerForward,
           UpdateForward

-----------------------------------------------------------------------------
(* The user's calls.                                                       *)

LEMMA StocksStay ==
  ASSUME Inv, UNCHANGED <<saving, call>>
  PROVE  Stocks'
  BY DEF Inv, Stocks

LEMMA ViewState ==
  ASSUME Inv, NEW n \in Node, NEW c \in Call
  PROVE  State(View(n, c))
  BY DEF Inv, Stocks, View, GoodView

(* One call moves to another place.                                        *)
LEMMA CallMoves ==
  ASSUME Inv, NEW n \in Node, NEW c \in Call, NEW new, DOMAIN new = CallFields,
         GoodView(new.seen), call' = [call EXCEPT ![n][c] = new], UNCHANGED saving
  PROVE  Stocks'
<1>1. DOMAIN call' = Node /\ \A m \in Node : DOMAIN call'[m] = Call
  BY DEF Inv, Stocks
<1>2. \A m \in Node, d \in Call : call'[m][d] = IF m = n /\ d = c THEN new ELSE call[m][d]
  BY DEF Inv, Stocks
<1> QED BY <1>1, <1>2 DEF Inv, Stocks

LEMMA CallReturns ==
  ASSUME Inv, NEW n \in Node, NEW c \in Call, NEW pc, Return(n, c, pc), UNCHANGED saving
  PROVE  Stocks'
<1> DEFINE new == [call[n][c] EXCEPT !.pc = pc, !.gen = 0, !.seen = Nothing]
<1>1. DOMAIN call[n][c] = CallFields /\ "seen" \in CallFields
  BY DEF Inv, Stocks, CallFields
<1>2. DOMAIN new = CallFields /\ new.seen = Nothing
  BY <1>1
<1>3. call' = [call EXCEPT ![n][c] = new]
  BY DEF Return, Inv, Stocks
<1> HIDE DEF new
<1> QED BY <1>2, <1>3, CallMoves DEF GoodView

LEMMA CallWaits ==
  ASSUME Inv, NEW n \in Node, NEW c \in Call, UNCHANGED saving,
         call' = [call EXCEPT ![n][c] = [@ EXCEPT !.pc = "wait", !.seen = Nothing]]
  PROVE  Stocks'
<1> DEFINE new == [call[n][c] EXCEPT !.pc = "wait", !.seen = Nothing]
<1>1. DOMAIN call[n][c] = CallFields /\ "seen" \in CallFields
  BY DEF Inv, Stocks, CallFields
<1>2. DOMAIN new = CallFields /\ new.seen = Nothing
  BY <1>1
<1>3. call' = [call EXCEPT ![n][c] = new]
  BY DEF Inv, Stocks
<1> HIDE DEF new
<1> QED BY <1>2, <1>3, CallMoves DEF GoodView

LEMMA CallLoads ==
  ASSUME Inv, NEW n \in Node, NEW c \in Call, NEW pc, LoadState(n, c, pc), UNCHANGED <<saving, revoked>>
  PROVE  Forward /\ Stocks'
<1> DEFINE new == [call[n][c] EXCEPT !.pc = pc, !.seen = <<disk[n]>>]
<1>1. DOMAIN call[n][c] = CallFields /\ "seen" \in CallFields
  BY DEF Inv, Stocks, CallFields
<1>2. DOMAIN new = CallFields /\ new.seen = <<disk[n]>>
  BY <1>1
<1>3. call' = [call EXCEPT ![n][c] = new]
  BY DEF LoadState, Inv, Stocks
<1>4. GoodView(<<disk[n]>>)
  BY DEF GoodView, Inv
<1> HIDE DEF new
<1>5. Stocks'
  BY <1>2, <1>3, <1>4, CallMoves
<1>6. Forward
  BY Unwritten DEF LoadState
<1> QED BY <1>5, <1>6

(* What a call saves follows the state that it read: over another one it   *)
(* is an undone save.                                                      *)
LEMMA CallSaves ==
  ASSUME Inv, NEW n \in Node, NEW c \in Call, NEW read, NEW st, Follows(read, st),
         CallSave(n, c, read, st), UNCHANGED revoked
  PROVE  Forward
<1>1. CASE disk' = [disk EXCEPT ![n] = st] /\ raced' = IF read = disk[n] THEN raced ELSE raced \cup {n}
  BY <1>1, Overwritten DEF Follows
<1>2. CASE raced' = raced \cup {n} /\ UNCHANGED disk
  BY <1>2, Unwritten
<1> QED BY <1>1, <1>2 DEF CallSave, Save

LEMMA FailSaves ==
  ASSUME Inv, NEW n \in Node, NEW c \in Call, NEW read, State(read),
         CallSave(n, c, read, FailChannel(read)), UNCHANGED revoked
  PROVE  Forward
<1>1. Follows(read, FailChannel(read))
  BY FailFollows
<1> QED BY <1>1, CallSaves

LEMMA FailCalls ==
  ASSUME Inv, NEW n \in Node, NEW c \in Call, FailCall(n, c), UNCHANGED <<revoked, saving>>
  PROVE  Forward /\ Stocks'
<1>1. State(disk[n])
  BY DEF Inv
<1>2. CASE CallSave(n, c, disk[n], FailChannel(disk[n])) /\ Return(n, c, "failed")
  BY <1>1, <1>2, FailSaves, CallReturns
<1> QED BY <1>2, CallLoads DEF FailCall

LEMMA PushCallForward ==
  ASSUME Inv, NEW n \in Node, NEW c \in Call,
         \/ \E amt \in PushAmt : PushStart(n, c, amt)
         \/ PushRefused(n, c) \/ PushNotAtRest(n, c) \/ PushSend(n, c)
         \/ CallStep(n, c) \/ PushTimeout(n, c)
  PROVE  Forward /\ Stocks'
<1>1. ASSUME NEW amt \in PushAmt, PushStart(n, c, amt) PROVE Forward /\ Stocks'
  <2> DEFINE new == [pc |-> "enter", gen |-> gen[n], amt |-> amt, seen |-> Nothing]
  <2>1. DOMAIN new = CallFields /\ GoodView(new.seen)
    BY DEF CallFields, GoodView
  <2>2. call' = [call EXCEPT ![n][c] = new] /\ UNCHANGED <<disk, revoked, raced, saving>>
    BY <1>1 DEF PushStart, db, env, hist
  <2> HIDE DEF new
  <2> QED BY <2>1, <2>2, CallMoves, Unwritten
<1>2. CASE PushRefused(n, c)
  <2>1. Return(n, c, "refused") /\ UNCHANGED <<disk, revoked, raced, saving>>
    BY <1>2 DEF PushRefused, env, hist
  <2> QED BY <2>1, CallReturns, Unwritten
<1>3. CASE PushNotAtRest(n, c)
  <2>1. FailCall(n, c) /\ UNCHANGED <<revoked, saving>>
    BY <1>3 DEF PushNotAtRest, env
  <2> QED BY <2>1, FailCalls
<1>4. CASE PushSend(n, c)
  <2> DEFINE read == View(n, c)
             st == [read EXCEPT !.Delta = - call[n][c].amt]
  <2>1. CallSave(n, c, read, st) /\ UNCHANGED <<revoked, saving>>
    BY <1>4 DEF PushSend, env
  <2>2. State(read)
    BY ViewState
  <2> HIDE DEF read
  <2>3. Alike(read, st)
    BY <2>2 DEF Alike, State, StateFields
  <2> HIDE DEF st
  <2>4. Follows(read, st)
    BY <2>2, <2>3, AlikeFollows
  <2>5. \/ call' = [call EXCEPT ![n][c] = [@ EXCEPT !.pc = "wait", !.seen = Nothing]]
        \/ Return(n, c, "error")
    BY <1>4, Zenon DEF PushSend
  <2> QED BY <2>1, <2>4, <2>5, CallSaves, CallWaits, CallReturns
<1>5. CASE PushDone(n, c)
  <2>1. Return(n, c, "ok") /\ UNCHANGED <<disk, revoked, raced, saving>>
    BY <1>5 DEF PushDone, db, env, hist
  <2> QED BY <2>1, CallReturns, Unwritten
<1>6. CASE PushTimeout(n, c)
  <2>1. FailCall(n, c) /\ UNCHANGED <<revoked, saving>>
    BY <1>6 DEF PushTimeout, env
  <2> QED BY <2>1, FailCalls
<1>7. CASE CallReload(n, c)
  <2>1. LoadState(n, c, "enter") /\ UNCHANGED <<revoked, saving>>
    BY <1>7 DEF CallReload, env
  <2> QED BY <2>1, CallLoads
<1>8. CASE FailSave(n, c)
  <2> DEFINE read == View(n, c)
  <2>1. State(read)
    BY ViewState
  <2>2. CallSave(n, c, read, FailChannel(read)) /\ Return(n, c, "failed") /\ UNCHANGED <<revoked, saving>>
    BY <1>8 DEF FailSave, env
  <2> HIDE DEF read
  <2> QED BY <2>1, <2>2, FailSaves, CallReturns
<1> QED BY <1>1, <1>2, <1>3, <1>4, <1>5, <1>6, <1>7, <1>8 DEF CallStep

LEMMA UpdateStarts ==
  ASSUME Inv, NEW n \in Node, NEW c \in Call, NEW st, Follows(View(n, c), st), NEW signed, NEW msg,
         StartUpdate(n, c, st, signed, msg), UNCHANGED <<revoked, saving>>
  PROVE  Forward /\ Stocks'
<1> DEFINE read == View(n, c)
<1>1. State(read) /\ State(st)
  BY ViewState DEF Follows
<1>2. \/ /\ CallSave(n, c, read, st)
         /\ call' = [call EXCEPT ![n][c] = [@ EXCEPT !.pc = "wait", !.seen = Nothing]]
      \/ CallSave(n, c, read, FailChannel(st)) /\ Return(n, c, "failed")
  BY Zenon DEF StartUpdate
<1>3. Follows(read, st)
  OBVIOUS
<1> HIDE DEF read
<1>4. Follows(read, FailChannel(st))
  BY <1>1, <1>3, FailFollows, FollowsOn
<1> QED BY <1>2, <1>3, <1>4, CallSaves, CallWaits, CallReturns

LEMMA HCallForward ==
  ASSUME Inv, NEW n \in Node, NEW c \in Call, HCallStep(n, c)
  PROVE  Forward /\ Stocks'
<1>1. CASE OfferStart(n, c) \/ ClearStart(n, c)
  <2> DEFINE new == [pc |-> "enter", gen |-> gen[n], amt |-> 0, seen |-> Nothing]
  <2>1. DOMAIN new = CallFields /\ GoodView(new.seen)
    BY DEF CallFields, GoodView
  <2>2. call' = [call EXCEPT ![n][c] = new] /\ UNCHANGED <<disk, revoked, raced, saving>>
    BY <1>1 DEF OfferStart, ClearStart, HStart, db, env, hist
  <2> HIDE DEF new
  <2> QED BY <2>1, <2>2, CallMoves, Unwritten
<1>2. CASE HRefused(n, c)
  <2>1. Return(n, c, "refused") /\ UNCHANGED <<disk, revoked, raced, saving>>
    BY <1>2 DEF HRefused, env, hist
  <2> QED BY <2>1, CallReturns, Unwritten
<1>3. CASE HNotAtRest(n, c)
  <2>1. FailCall(n, c) /\ UNCHANGED <<revoked, saving>>
    BY <1>3 DEF HNotAtRest, env
  <2> QED BY <2>1, FailCalls
<1>4. CASE HSend(n, c)
  <2> DEFINE o == op[n][c]
             read == View(n, c)
             offered == OfferState(read, o)
             marked == MarkClearing(read, o.idx, o.R)
  <2>1. UNCHANGED <<revoked, saving>>
    BY <1>4 DEF HSend, env
  <2>2. State(read)
    BY ViewState
  <2>3. \/ o.kind = "offer" /\ SendOffer(n, c, offered)
        \/ o.kind = "clear" /\ SendClear(n, c, marked, o.idx)
    BY <1>4 DEF HSend
  <2>4. CASE SendOffer(n, c, offered)
    <3>1. Follows(read, offered)
      BY <2>2, OfferFollows
    <3> HIDE DEF offered
    <3> QED BY <2>1, <2>4, <3>1, UpdateStarts DEF SendOffer
  <2>5. CASE o.kind = "clear" /\ SendClear(n, c, marked, o.idx)
    <3>1. Clearable(read, o.idx, o.R, height[n])
      BY <1>4, <2>5 DEF HSend, Accepted
    <3>2. Open(read, Pos(o.idx))
      BY <3>1 DEF Clearable, Open
    <3>3. Follows(read, marked)
      BY <2>2, <3>2, MarkingFollows
    <3> HIDE DEF marked, o
    <3> QED BY <2>1, <2>5, <3>3, UpdateStarts DEF SendClear
  <2> QED BY <2>3, <2>4, <2>5
<1> QED BY <1>1, <1>2, <1>3, <1>4 DEF HCallStep

-----------------------------------------------------------------------------
(* Instances, connections and the chain.                                   *)

LEMMA ReconnectForward ==
  ASSUME Inv, NEW S \in SUBSET Node, Reconnect(S)
  PROVE  Forward /\ Stocks'
<1>1. UNCHANGED <<disk, revoked, raced>>
  BY DEF Reconnect, hist
<1>2. DOMAIN saving' = Node /\ \A m \in Node : saving'[m] \subseteq saving[m]
  BY DEF Reconnect
<1>3. DOMAIN call' = Node /\ \A m \in Node : DOMAIN call'[m] = Call
  BY DEF Reconnect
<1>4. ASSUME NEW m \in Node, NEW d \in Call
      PROVE  DOMAIN call'[m][d] = CallFields /\ GoodView(call'[m][d].seen)
  <2> DEFINE new == [call[m][d] EXCEPT !.pc = "lost", !.gen = 0, !.seen = Nothing]
  <2>1. call'[m][d] = new \/ call'[m][d] = call[m][d]
    BY DEF Reconnect
  <2>2. DOMAIN call[m][d] = CallFields /\ "seen" \in CallFields /\ GoodView(call[m][d].seen)
    BY DEF Inv, Stocks, CallFields
  <2>3. DOMAIN new = CallFields /\ new.seen = Nothing
    BY <2>2
  <2> HIDE DEF new
  <2> QED BY <2>1, <2>2, <2>3 DEF GoodView
<1>5. ASSUME NEW m \in Node, NEW rec \in saving'[m] PROVE State(rec.state)
  <2>1. rec \in saving[m]
    BY <1>2
  <2> QED BY <2>1 DEF Inv, Stocks
<1>6. \A m \in Node : \A rec \in saving'[m] : State(rec.state)
  BY <1>5
<1>7. \A m \in Node, d \in Call : DOMAIN call'[m][d] = CallFields /\ GoodView(call'[m][d].seen)
  BY <1>4
<1>8. DOMAIN saving' = Node
  BY <1>2
<1>9. Stocks'
  BY <1>3, <1>6, <1>7, <1>8, Zenon DEF Stocks, GoodView
<1> QED BY <1>1, <1>9, Unwritten

LEMMA ChainForward ==
  ASSUME Inv, NEW n \in Node, BreakChannel(n) \/ \E spend \in BOOLEAN : OPEventHandler(n, spend)
  PROVE  Forward /\ Stocks'
<1>1. UNCHANGED <<disk, revoked, raced, call>>
  BY DEF BreakChannel, OPEventHandler, hist
<1>2. \/ saving' = saving
      \/ \E b : saving' = [saving EXCEPT ![n] = @ \cup {[state |-> disk[n], closed |-> b]}]
  BY DEF BreakChannel, OPEventHandler, SaveQchanUtxoData
<1>3. ASSUME NEW b, saving' = [saving EXCEPT ![n] = @ \cup {[state |-> disk[n], closed |-> b]}]
      PROVE  Stocks'
  <2>1. \A m \in Node : saving'[m] = IF m = n THEN saving[n] \cup {[state |-> disk[n], closed |-> b]}
                                              ELSE saving[m]
    BY <1>3 DEF Inv, Stocks
  <2>2. State(disk[n])
    BY DEF Inv
  <2> QED BY <1>1, <1>3, <2>1, <2>2 DEF Inv, Stocks
<1> QED BY <1>1, <1>2, <1>3, StocksStay, Unwritten

LEMMA SaveQChanForward ==
  ASSUME Inv, NEW n \in Node, NEW rec \in saving[n], SaveQChan(n, rec)
  PROVE  Forward /\ Stocks'
<1>1. State(rec.state)
  BY DEF Inv, Stocks
<1>2. Follows(rec.state, rec.state)
  BY <1>1, FollowsSame
<1>3. Forward
  BY <1>1, <1>2, Overwritten DEF SaveQChan
<1>4. call' = call /\ saving' = [saving EXCEPT ![n] = @ \ {rec}]
  BY DEF SaveQChan
<1>5. Stocks'
  BY <1>4 DEF Inv, Stocks
<1> QED BY <1>3, <1>5

LEMMA HandleForward ==
  ASSUME Inv, NEW n \in Node, Handle(n)
  PROVE  Forward /\ Stocks'
<1>1. UNCHANGED <<saving, call>>
  BY DEF Handle, Consume, DeltaSigHandler, GapSigRevHandler, SigRevHandler, RevHandler,
     FirstMessage, Repopulate, env
<1>2. CASE FirstMessage(n)
  BY <1>1, <1>2, Unwritten, StocksStay DEF FirstMessage, Repopulate, hist
<1> QED BY <1>1, <1>2, StocksStay, DeltaSigForward, GapSigRevForward, SigRevForward, RevForward
        DEF Handle, Consume

LEMMA StepForward ==
  ASSUME Inv, [HNext]_hvars
  PROVE  Forward /\ Stocks'
<1>1. ASSUME NEW n \in Node, NEW g \in Gen, FillClearToSend(n, g) PROVE Forward /\ Stocks'
  BY <1>1, Unwritten, StocksStay DEF FillClearToSend, db, env, hist
<1>2. CASE Environment
  BY <1>2, ReconnectForward, ChainForward, SaveQChanForward DEF Environment
<1>3. CASE PushStep
  BY <1>1, <1>2, <1>3, HandleForward, PushCallForward DEF PushStep
<1>4. ASSUME NEW S, NewBlock(S) PROVE Forward /\ Stocks'
  BY <1>4, Unwritten, StocksStay DEF NewBlock, vars, db, env, hist
<1>5. ASSUME NEW n \in Node, HashSigHandler(n) \/ PreimageSigHandler(n) PROVE Forward /\ Stocks'
  <2>1. UNCHANGED <<saving, call>>
    BY <1>5 DEF HashSigHandler, PreimageSigHandler, env
  <2> QED BY <1>5, <2>1, StocksStay, HashSigForward, PreimageSigForward
<1>6. CASE UNCHANGED hvars
  BY <1>6, Unwritten, StocksStay DEF hvars, vars, db, env, hist
<1> QED BY <1>3, <1>4, <1>5, <1>6, HCallForward DEF HNext

-----------------------------------------------------------------------------
(* A step that writes forward, but where it undoes a save, keeps the       *)
(* invariant, and every outcome.                                           *)

LEMMA ForwardKeeps ==
  ASSUME Inv, Forward, Stocks'
  PROVE  Inv'
<1>1. ASSUME NEW n \in Node PROVE State(disk'[n])
  BY DEF Forward, Advances
<1>2. ASSUME NEW n \in Node \ raced' PROVE disk[n].StateIdx \in Nat /\ disk'[n].StateIdx \in Nat
                                           /\ disk'[n].StateIdx >= disk[n].StateIdx
  BY <1>1 DEF Forward, Advances, Follows, State, Inv
<1>3. ASSUME NEW n \in Node PROVE revoked'[n] \subseteq revoked[n] \cup {i \in Int : i < disk'[n].StateIdx}
  BY DEF Forward, Advances, Revokes
<1>4. ASSUME NEW n \in Node PROVE revoked[n] \subseteq Int
  BY DEF Inv
<1>5. ASSUME NEW n \in Node PROVE revoked'[n] \subseteq Int
  BY <1>3, <1>4
<1>6. ASSUME NEW n \in Node \ raced', NEW i \in revoked'[n] PROVE i < disk'[n].StateIdx
  <2>1. i \in Int
    BY <1>5
  <2>2. i \in revoked[n] \/ i < disk'[n].StateIdx
    BY <1>3
  <2>3. i \in revoked[n] => i < disk[n].StateIdx
    BY DEF Inv, Forward, RevocationSafety
  <2> QED BY <1>2, <2>1, <2>2, <2>3
<1>7. revoked' \in [Node -> SUBSET Int]
  BY <1>5 DEF Forward
<1> QED BY <1>1, <1>6, <1>7 DEF Inv, Forward, RevocationSafety

LEMMA ForwardClears ==
  ASSUME Inv, Forward
  PROVE  \A n \in Node \ raced' : \A i \in Idxs(disk[n].HTLCs) :
           disk[n].HTLCs[i].Cleared =>
              /\ i \in Idxs(disk'[n].HTLCs)
              /\ disk'[n].HTLCs[i].Cleared
              /\ disk'[n].HTLCs[i].R = disk[n].HTLCs[i].R
  BY DEF Forward, Advances, Follows, Kept, Idxs

LEMMA InitInv == HInit => Inv
<1> SUFFICES ASSUME HInit PROVE Inv
  OBVIOUS
<1>1. ASSUME NEW amt PROVE State(InitState(amt))
  BY ListedNone DEF InitState, State, StateFields, NoHTLC
<1>2. \A n \in Node : \E amt : disk[n] = InitState(amt)
  BY DEF HInit, Init
<1>3. Stocks
  BY DEF HInit, Init, Stocks, GoodView, CallFields
<1> QED BY <1>1, <1>2, <1>3 DEF HInit, Init, Inv, RevocationSafety

THEOREM Invariance == HSpec => []Inv
<1>1. HInit => Inv
  BY InitInv
<1>2. Inv /\ [HNext]_hvars => Inv'
  BY StepForward, ForwardKeeps
<1> QED BY <1>1, <1>2, PTL DEF HSpec

(* No node ever holds a state that it has revoked, with HTLC offers and    *)
(* clearings, pushes, collisions, timeouts, broken connections, restarts,  *)
(* calls on instances of earlier connections and late records of the       *)
(* wallet in any order, unless one save has undone another: OfferHTLC,     *)
(* ClearHTLC and all the handlers save the new state before they reveal    *)
(* the hash of the one before it.                                          *)
THEOREM RevokedStatesAreGone == HSpec => []RevocationSafety
<1>1. Inv => RevocationSafety
  BY DEF Inv
<1> QED BY <1>1, Invariance, PTL

(* No handler, collision marking or late message ever makes an HTLC that   *)
(* is cleared open again, moves it, or changes the preimage it was cleared *)
(* with (or that it timed out): only a save that undoes another can.       *)
THEOREM OutcomesStay == HSpec => ClearedForGood
<1>1. Inv /\ [HNext]_hvars
        => [\A n \in Node \ raced' : \A i \in Idxs(disk[n].HTLCs) :
                 disk[n].HTLCs[i].Cleared =>
                     /\ i \in Idxs(disk'[n].HTLCs)
                     /\ disk'[n].HTLCs[i].Cleared
                     /\ disk'[n].HTLCs[i].R = disk[n].HTLCs[i].R]_hvars
  BY StepForward, ForwardClears
<1> QED BY <1>1, Invariance, PTL DEF HSpec, ClearedForGood

=============================================================================
