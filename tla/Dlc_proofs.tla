----------------------------- MODULE Dlc_proofs -----------------------------
(***************************************************************************)
(* Proofs about Dlc, for every stake, range, coin, oracle value, and       *)
(* number of acceptances, settlements, spent coins and lost connections.   *)
(*                                                                         *)
(* The offer is made once and frozen: from then on B's contract, the       *)
(* copies its accepting goroutines work on and the messages they send are  *)
(* its mirror image, so what B signs is what A will settle with.  When B   *)
(* accepts once, what it filled in does not change after it was sent, and  *)
(* the acknowledgement, the funding signatures and the chain carry the one *)
(* funding transaction both have saved.                                    *)
(***************************************************************************)
EXTENDS Dlc, SequenceTheorems, FiniteSetTheorems, TLAPS

(* Sequences are used through the set of their elements.                   *)
IsSeq(s) == s \in Seq(ToSet(s))
Mail(n) == ToSet(wires[n])

Fields == DOMAIN NewContract
Multisig(n) == <<n, "multisig">>
Payout(n) == <<n, "payout">>
PayoutPKH(n) == <<n, "payoutPKH">>

(* k is the other side's view of the offer q.                              *)
Mirrors(k, q) ==
  /\ k.our = q.their /\ k.their = q.our
  /\ k.theirIns = q.ourIns /\ k.theirPub = q.ourPub
  /\ k.theirBase = q.ourBase /\ k.theirChange = q.ourChange
  /\ k.division = [i \in DOMAIN q.division |-> q.our + q.their - q.division[i]]

(* The same contract but for its status and what was drafted besides.      *)
Same(k, q) ==
  /\ k.our = q.our /\ k.their = q.their /\ k.division = q.division
  /\ k.ourIns = q.ourIns /\ k.theirIns = q.theirIns
  /\ k.ourChange = q.ourChange /\ k.theirChange = q.theirChange
  /\ k.ourPub = q.ourPub /\ k.theirPub = q.theirPub
  /\ k.ourBase = q.ourBase /\ k.theirBase = q.theirBase
  /\ k.ourPKH = q.ourPKH /\ k.theirPKH = q.theirPKH
  /\ k.outpoint = q.outpoint /\ k.sigs = q.sigs

(* B has funded its part and knows the funding transaction.                *)
Complete(k) ==
  /\ k.ourPub = Multisig("B") /\ k.ourBase = Payout("B") /\ k.ourPKH = PayoutPKH("B")
  /\ k.outpoint = BuildDlcFundingTransaction(k)

(* What an accepting peer signs for us.                                    *)
PeerSigned(k, i) ==
  LET v == SettlementValues(k.our + k.their - k.division[i], k.our + k.their)
  IN  [spends |-> k.outpoint,
       outs   |-> Paying(DlcOutput(k.ourBase, k.theirBase, i, v.theirs))
                    \o Paying(PkhOutput(k.theirPKH, v.ours))]

(* The range the offerer drew its division from, if it has one.            *)
Drawn(k) ==
  \/ k.division = NoDivision
  \/ \E r \in Ranges : k.division = LinearDivision(r[1], r[2], k.our + k.their)

Offered == c["A"].ourPub = Multisig("A")

Shapes ==
  /\ DOMAIN c = Nodes /\ \A n \in Nodes : DOMAIN c[n] = Fields
  /\ DOMAIN wires = Nodes /\ \A n \in Nodes : IsSeq(wires[n])
  /\ IsSeq(job) /\ \A j \in ToSet(job) : DOMAIN j = {"pc", "k"} /\ DOMAIN j.k = Fields
  /\ paid \in [Nodes -> Int]
  /\ DOMAIN bound = {"accept", "settle", "spend", "drop"} /\ bound.accept = Len(job)
  /\ \A tx \in Settlements : \A o \in ToSet(tx.outs) : o.value \in Int
  /\ NoTx \notin chain

(* The contract of A: what the user drew, and whether B has accepted it.   *)
Terms ==
  LET a == c["A"] IN
  /\ a.our \in Nat /\ a.their \in Nat /\ Drawn(a)
  /\ a.ourPub = NoKey \/ (Offered /\ a.ourBase = Payout("A") /\ a.status \notin {None, "Draft"})
  /\ \/ a.outpoint = NoTx
     \/ /\ Offered /\ a.outpoint = BuildDlcFundingTransaction(a)
        /\ a.theirPub = Multisig("B") /\ a.theirPKH = PayoutPKH("B")
        /\ a.sigs = [i \in DOMAIN a.division |-> PeerSigned(a, i)]

(* Until B has heard of the offer there is nothing but the offer.          *)
Quiet ==
  c["B"].status = None =>
    /\ job = <<>> /\ chain = {} /\ wires["A"] = <<>> /\ Len(wires["B"]) <= 1
    /\ c["A"].outpoint = NoTx
    /\ c["B"].division = NoDivision /\ c["B"].outpoint = NoTx
    /\ ~Offered => wires["B"] = <<>>

(* From then on B's contract, its goroutines' copies and what it sends are *)
(* the other side of A's.                                                  *)
MirrorImages ==
  LET a == c["A"]  b == c["B"] IN
  /\ b.status # None => Offered /\ Mirrors(b, a)
  /\ \A j \in ToSet(job) :
       /\ j.pc \in {"start", "fund", "send", "done"}
       /\ Mirrors(j.k, a)
       /\ j.pc = "send" => Complete(j.k)
  /\ \A m \in Mail("B") :
       /\ m.type \in {"offer", "ack", "proof"}
       /\ m.type = "offer" =>
            /\ b.status = None /\ DOMAIN m.k = Fields
            /\ m.k.our = a.our /\ m.k.their = a.their /\ m.k.division = a.division
            /\ m.k.ourIns = a.ourIns /\ m.k.ourPub = a.ourPub
            /\ m.k.ourBase = a.ourBase /\ m.k.ourChange = a.ourChange
  /\ \A m \in Mail("A") :
       /\ m.type \in {"decline", "accept", "sigs"}
       /\ m.type = "accept" =>
            /\ DOMAIN m.k = Fields /\ Mirrors(m.k, a) /\ Complete(m.k)
            /\ m.sigs = SignSettlementDivisions(m.k)
       /\ m.type = "sigs" => "ins" \in DOMAIN m.tx /\ "spends" \notin DOMAIN m.tx

Answering == Len(job) = 0 \/ (Len(job) = 1 /\ job[1].pc # "done")
Answered == Len(job) = 1 /\ job[1].pc = "done"

(* The one funding transaction, as both databases have it.                 *)
Matched ==
  LET a == c["A"]  b == c["B"] IN
  /\ a.outpoint = b.outpoint /\ a.outpoint = BuildDlcFundingTransaction(a)
  /\ b.outpoint = BuildDlcFundingTransaction(b)
  /\ b.ourPub = Multisig("B") /\ b.theirPub = Multisig("A")
  /\ a.ourPub = Multisig("A") /\ a.theirPub = Multisig("B")

(* Accepted once, nothing B fills in changes after it has been sent.       *)
Once ==
  /\ Answering =>
       /\ \A m \in Mail("A") : m.type = "decline"
       /\ \A m \in Mail("B") : m.type = "offer"
       /\ FundingTxs = {}
  /\ Len(job) = 1 /\ job[1].pc = "send" => Same(c["B"], job[1].k)
  /\ Answered =>
       /\ \A m \in Mail("A") :
            /\ m.type = "accept" => Same(m.k, c["B"])
            /\ m.type = "sigs" => Matched /\ m.tx = c["B"].outpoint
       /\ \A m \in Mail("B") : m.type = "ack" => Matched
       /\ \A tx \in FundingTxs : Matched /\ tx = c["B"].outpoint

Inv == Shapes /\ Terms /\ Quiet /\ MirrorImages /\ Once

-----------------------------------------------------------------------------
(* Sequences.                                                              *)

LEMMA NothingYet == IsSeq(<<>>) /\ ToSet(<<>>) = {} /\ Len(<<>>) = 0
  BY EmptySeq DEF IsSeq, ToSet

LEMMA Larger ==
  ASSUME NEW S, NEW T, S \subseteq T, NEW s \in Seq(S)
  PROVE  s \in Seq(T)
  OBVIOUS

LEMMA OwnElements ==
  ASSUME NEW S, NEW s \in Seq(S)
  PROVE  IsSeq(s)
<1>1. \A i \in 1 .. Len(s) : s[i] \in ToSet(s) BY DEF ToSet
<1> QED BY <1>1 DEF IsSeq

LEMMA Elements ==
  ASSUME NEW s, IsSeq(s)
  PROVE  /\ Len(s) \in Nat /\ DOMAIN s = 1 .. Len(s)
         /\ \A i \in 1 .. Len(s) : s[i] \in ToSet(s)
         /\ \A e \in ToSet(s) : \E i \in 1 .. Len(s) : s[i] = e
         /\ s = <<>> <=> Len(s) = 0
  BY DEF IsSeq, ToSet

LEMMA Grown ==
  ASSUME NEW s, IsSeq(s), NEW e
  PROVE  /\ IsSeq(Append(s, e)) /\ ToSet(Append(s, e)) = ToSet(s) \cup {e}
         /\ Len(Append(s, e)) = Len(s) + 1
         /\ \A i \in 1 .. Len(s) : Append(s, e)[i] = s[i]
         /\ Append(s, e)[Len(s) + 1] = e
<1> DEFINE T == ToSet(s) \cup {e}
           t == Append(s, e)
<1>1. s \in Seq(T) BY Larger DEF IsSeq
<1>2. /\ t \in Seq(T) /\ Len(t) = Len(s) + 1 /\ Len(s) \in Nat
      /\ \A i \in 1 .. Len(s) : t[i] = s[i]
      /\ t[Len(s) + 1] = e
  BY <1>1, AppendProperties
<1> HIDE DEF t
<1>3. DOMAIN t = 1 .. Len(s) + 1 /\ DOMAIN s = 1 .. Len(s) BY <1>1, <1>2
<1>4. ToSet(t) = T
  <2>1. \A i \in 1 .. Len(s) + 1 : i \in 1 .. Len(s) \/ i = Len(s) + 1 BY <1>2
  <2> QED BY <1>2, <1>3, <2>1 DEF ToSet
<1> QED BY <1>2, <1>4 DEF IsSeq, t

LEMMA Joined ==
  ASSUME NEW s, IsSeq(s), NEW t, IsSeq(t)
  PROVE  IsSeq(s \o t) /\ ToSet(s \o t) = ToSet(s) \cup ToSet(t) /\ Len(s \o t) = Len(s) + Len(t)
<1> DEFINE T == ToSet(s) \cup ToSet(t)
           u == s \o t
<1>1. s \in Seq(T) /\ t \in Seq(T) BY Larger DEF IsSeq
<1>2. /\ u \in Seq(T) /\ Len(u) = Len(s) + Len(t) /\ Len(s) \in Nat /\ Len(t) \in Nat
      /\ \A i \in 1 .. Len(s) + Len(t) : u[i] = IF i <= Len(s) THEN s[i] ELSE t[i - Len(s)]
  BY <1>1, ConcatProperties
<1> HIDE DEF u
<1>3. /\ DOMAIN u = 1 .. Len(s) + Len(t) /\ DOMAIN s = 1 .. Len(s) /\ DOMAIN t = 1 .. Len(t)
  BY <1>1, <1>2
<1>4. ToSet(u) \subseteq T BY <1>2, <1>3 DEF ToSet
<1>5. ToSet(s) \subseteq ToSet(u) BY <1>2, <1>3 DEF ToSet
<1>6. ASSUME NEW i \in 1 .. Len(t) PROVE t[i] \in ToSet(u)
  <2>1. Len(s) + i \in 1 .. Len(s) + Len(t) /\ ~(Len(s) + i <= Len(s)) /\ (Len(s) + i) - Len(s) = i
    BY <1>2
  <2>2. u[Len(s) + i] = t[i] BY <1>2, <2>1
  <2> QED BY <1>3, <2>1, <2>2 DEF ToSet
<1>7. ToSet(t) \subseteq ToSet(u) BY <1>3, <1>6 DEF ToSet
<1>8. ToSet(u) = T BY <1>4, <1>5, <1>7
<1> QED BY <1>2, <1>8 DEF IsSeq, u

LEMMA Shorter ==
  ASSUME NEW s, IsSeq(s), s # <<>>
  PROVE  /\ Head(s) \in ToSet(s) /\ IsSeq(Tail(s)) /\ ToSet(Tail(s)) \subseteq ToSet(s)
         /\ Len(Tail(s)) = Len(s) - 1 /\ Len(s) \in Nat \ {0}
<1>1. /\ Tail(s) \in Seq(ToSet(s)) /\ Head(s) = s[1] /\ Len(Tail(s)) = Len(s) - 1
      /\ Len(s) \in Nat \ {0}
      /\ \A i \in 1 .. Len(Tail(s)) : Tail(s)[i] = s[i + 1]
  BY HeadTailProperties DEF IsSeq
<1>2. DOMAIN s = 1 .. Len(s) /\ DOMAIN Tail(s) = 1 .. Len(s) - 1 BY <1>1 DEF IsSeq
<1>3. ToSet(Tail(s)) \subseteq ToSet(s)
  <2> SUFFICES ASSUME NEW i \in 1 .. Len(s) - 1 PROVE Tail(s)[i] \in ToSet(s)
    BY <1>2 DEF ToSet
  <2>1. i + 1 \in 1 .. Len(s) BY <1>1
  <2> QED BY <1>1, <1>2, <2>1 DEF ToSet
<1>4. IsSeq(Tail(s)) BY <1>1, OwnElements
<1> QED BY <1>1, <1>2, <1>3, <1>4 DEF ToSet

Replaced(s, i, e) == [s EXCEPT ![i] = e]

LEMMA Changed ==
  ASSUME NEW s, IsSeq(s), NEW i \in 1 .. Len(s), NEW e
  PROVE  /\ IsSeq(Replaced(s, i, e)) /\ Len(Replaced(s, i, e)) = Len(s)
         /\ ToSet(Replaced(s, i, e)) \subseteq ToSet(s) \cup {e}
         /\ Replaced(s, i, e)[i] = e
<1> DEFINE T == ToSet(s) \cup {e}
           t == Replaced(s, i, e)
<1>1. s \in Seq(T) BY Larger DEF IsSeq
<1>2. t \in Seq(T) /\ Len(t) = Len(s) /\ t[i] = e /\ DOMAIN t = 1 .. Len(s) BY <1>1 DEF Replaced
<1> HIDE DEF t
<1>3. IsSeq(t) BY <1>2, OwnElements
<1>4. ToSet(t) \subseteq T BY <1>2 DEF ToSet
<1> QED BY <1>2, <1>3, <1>4 DEF t

-----------------------------------------------------------------------------
(* Contracts.                                                              *)

LEMMA FieldNames ==
  Fields = {"status", "oracleA", "oracleR", "time", "coin", "our", "their", "division",
            "ourIns", "theirIns", "ourChange", "theirChange", "ourPub", "theirPub",
            "ourBase", "theirBase", "ourPKH", "theirPKH", "outpoint", "sigs"}
  BY DEF Fields, NewContract

(* Everything the proofs say of a contract is in the fields Same compares. *)
LEMMA SameContract ==
  ASSUME NEW k, NEW q, Same(k, q)
  PROVE  /\ BuildDlcFundingTransaction(k) = BuildDlcFundingTransaction(q)
         /\ \A i : PeerSigned(k, i) = PeerSigned(q, i)
         /\ Complete(k) <=> Complete(q)
         /\ Drawn(k) <=> Drawn(q)
         /\ \A x : (Mirrors(k, x) <=> Mirrors(q, x)) /\ (Mirrors(x, k) <=> Mirrors(x, q))
<1>1. BuildDlcFundingTransaction(k) = BuildDlcFundingTransaction(q)
  BY DEF Same, BuildDlcFundingTransaction
<1>2. \A i : PeerSigned(k, i) = PeerSigned(q, i) BY DEF Same, PeerSigned
<1>3. Complete(k) <=> Complete(q) BY <1>1 DEF Same, Complete
<1>4. Drawn(k) <=> Drawn(q) BY DEF Same, Drawn
<1>5. \A x : (Mirrors(k, x) <=> Mirrors(q, x)) /\ (Mirrors(x, k) <=> Mirrors(x, q))
  BY DEF Same, Mirrors
<1> QED BY <1>1, <1>2, <1>3, <1>4, <1>5

LEMMA SameBothWays ==
  /\ \A k : Same(k, k)
  /\ \A k, q : Same(k, q) => Same(q, k)
  /\ \A k, q, r : Same(k, q) /\ Same(q, r) => Same(k, r)
  BY DEF Same

LEMMA StatusOnly ==
  ASSUME NEW k, DOMAIN k = Fields, NEW s
  PROVE  LET q == [k EXCEPT !.status = s]
         IN  DOMAIN q = Fields /\ Same(q, k) /\ q.status = s
  BY FieldNames DEF Same

(* A funding transaction is the same from either side.                     *)
LEMMA SameTransaction ==
  ASSUME NEW k, NEW q, q.our \in Nat, q.their \in Nat,
         Mirrors(k, q), k.ourIns = q.theirIns, k.ourChange = q.theirChange, k.ourPub = q.theirPub
  PROVE  BuildDlcFundingTransaction(k) = BuildDlcFundingTransaction(q)
<1>1. k.our + k.their = q.our + q.their BY DEF Mirrors
<1>2. k.ourIns \cup k.theirIns = q.ourIns \cup q.theirIns BY DEF Mirrors
<1>3. {k.ourPub, k.theirPub} = {q.ourPub, q.theirPub} BY DEF Mirrors
<1> QED BY <1>1, <1>2, <1>3 DEF Mirrors, BuildDlcFundingTransaction

(* And what one side signs for the other is what the other expects.        *)
LEMMA SameSettlements ==
  ASSUME NEW k, NEW q, q.our \in Nat, q.their \in Nat, Mirrors(k, q),
         k.outpoint = q.outpoint, k.ourBase = q.theirBase, k.ourPKH = q.theirPKH
  PROVE  SignSettlementDivisions(k) = [i \in DOMAIN q.division |-> PeerSigned(q, i)]
<1>1. k.our + k.their = q.our + q.their BY DEF Mirrors
<1>2. DOMAIN k.division = DOMAIN q.division BY DEF Mirrors
<1>3. ASSUME NEW i \in DOMAIN q.division
      PROVE  SettlementTx(k, i, TRUE) = PeerSigned(q, i)
  <2>1. k.division[i] = q.our + q.their - q.division[i] BY DEF Mirrors
  <2> QED BY <1>1, <2>1 DEF Mirrors, SettlementTx, PeerSigned
<1> QED BY <1>2, <1>3 DEF SignSettlementDivisions

(* What float64 makes of a share is at most one off.                       *)
LEMMA CutNear ==
  ASSUME NEW t \in Nat, NEW w \in Nat \ {0}, NEW n \in Int
  PROVE  /\ Cut(t, w, n) \in Int
         /\ \E off \in {-1, 0, 1} : Cut(t, w, n) = (t * n) \div w + off
<1> DEFINE e == (t * n) \div w
<1>1. e \in Int
  <2>1. t * n \in Int OBVIOUS
  <2> QED BY <2>1
<1>2. Cut(t, w, n) = IF <<t, w, n>> \in Below THEN e - 1
                     ELSE IF <<t, w, n>> \in Above THEN e + 1 ELSE e
  BY DEF Cut
<1> HIDE DEF e
<1>3. Cut(t, w, n) \in Int BY <1>1, <1>2
<1>4. \E off \in {-1, 0, 1} : Cut(t, w, n) = e + off
  BY <1>1, <1>2
<1> QED BY <1>3, <1>4 DEF e

(* A division gives amounts, so settlements do.                            *)
LEMMA DrawnNumbers ==
  ASSUME NEW k, Drawn(k), k.our \in Nat, k.their \in Nat, NEW i \in DOMAIN k.division
  PROVE  k.division[i] \in Int
<1>1. CASE k.division = NoDivision BY <1>1 DEF NoDivision
<1>2. ASSUME NEW r \in Ranges, k.division = LinearDivision(r[1], r[2], k.our + k.their)
      PROVE  k.division[i] \in Int
  <2>1. r[1] \in Nat /\ r[2] \in Nat /\ r[1] # r[2] BY DlcAssumption
  <2> DEFINE t == k.our + k.their
             lo == IF r[2] > r[1] THEN r[1] ELSE r[2]
             hi == IF r[2] > r[1] THEN r[2] ELSE r[1]
             w == hi - lo
  <2>2. w \in Nat \ {0} /\ lo \in Nat /\ hi \in Nat /\ t \in Nat BY <2>1
  <2>3. DOMAIN k.division = (IF lo < w THEN 0 ELSE lo - w) .. hi + w
    BY <1>2 DEF LinearDivision
  <2>4. i \in Int BY <2>2, <2>3
  <2>5. k.division[i] = IF r[1] > r[2]
                        THEN IF i >= r[1] THEN t
                             ELSE IF i <= r[2] THEN 0 ELSE Cut(t, w, i - r[2])
                        ELSE IF i <= r[1] THEN t
                             ELSE IF i >= r[2] THEN 0 ELSE t - Cut(t, w, i - r[1])
    BY <1>2, <2>3 DEF LinearDivision
  <2> HIDE DEF w, lo, hi, t
  <2>7. Cut(t, w, i - r[2]) \in Int /\ Cut(t, w, i - r[1]) \in Int
    <3>1. i - r[2] \in Int /\ i - r[1] \in Int BY <2>1, <2>4
    <3> QED BY <2>2, <3>1, CutNear
  <2> QED BY <2>2, <2>5, <2>7
<1> QED BY <1>1, <1>2 DEF Drawn

LEMMA ValuesAreNumbers ==
  ASSUME NEW value \in Int, NEW total \in Int
  PROVE  /\ SettlementValues(value, total).ours \in Int
         /\ SettlementValues(value, total).theirs \in Int
  BY DlcAssumption DEF SettlementValues

LEMMA Single ==
  ASSUME NEW x
  PROVE  IsSeq(<<x>>) /\ ToSet(<<x>>) = {x} /\ Len(<<x>>) = 1
<1>1. <<x>> \in Seq({x}) BY SMT
<1>2. ToSet(<<x>>) = {x} BY SMT DEF ToSet
<1> QED BY <1>1, <1>2, OwnElements

LEMMA Kept ==
  ASSUME NEW o, NEW p, o.value \in Int, p.value \in Int
  PROVE  \A q \in ToSet(Paying(o) \o Paying(p)) : q \in {o, p}
<1>1. /\ IsSeq(Paying(o)) /\ ToSet(Paying(o)) \subseteq {o}
      /\ IsSeq(Paying(p)) /\ ToSet(Paying(p)) \subseteq {p}
  BY NothingYet, Single DEF Paying
<1> QED BY <1>1, Joined

LEMMA SettlementNumbers ==
  ASSUME NEW k, NEW i, k.our \in Nat, k.their \in Nat, k.division[i] \in Int, NEW b \in BOOLEAN
  PROVE  \A o \in ToSet(SettlementTx(k, i, b).outs) : o.value \in Int
<1> DEFINE v == SettlementValues(k.division[i], k.our + k.their)
<1>1. v.ours \in Int /\ v.theirs \in Int BY ValuesAreNumbers
<1> HIDE DEF v
<1>2. \A x, y, z : DlcOutput(x, y, i, v.ours).value = v.ours /\ DlcOutput(x, y, i, v.theirs).value = v.theirs
                   /\ PkhOutput(z, v.ours).value = v.ours /\ PkhOutput(z, v.theirs).value = v.theirs
  BY DEF DlcOutput, PkhOutput
<1> DEFINE d1 == DlcOutput(k.theirBase, k.ourBase, i, v.theirs)
           p1 == PkhOutput(k.ourPKH, v.ours)
           d2 == DlcOutput(k.ourBase, k.theirBase, i, v.ours)
           p2 == PkhOutput(k.theirPKH, v.theirs)
<1>3. SettlementTx(k, i, b).outs = IF b THEN Paying(d1) \o Paying(p1) ELSE Paying(d2) \o Paying(p2)
  BY DEF SettlementTx, v
<1>4. d1.value \in Int /\ p1.value \in Int /\ d2.value \in Int /\ p2.value \in Int BY <1>1, <1>2
<1> HIDE DEF d1, p1, d2, p2
<1>5. /\ \A o \in ToSet(Paying(d1) \o Paying(p1)) : o.value \in Int
      /\ \A o \in ToSet(Paying(d2) \o Paying(p2)) : o.value \in Int
  BY <1>4, Kept
<1> QED BY <1>3, <1>5

-----------------------------------------------------------------------------
(* Messages.                                                               *)

LEMMA Peers == \A n \in Nodes : Peer(n) \in Nodes /\ Peer(n) # n /\ Nodes = {n, Peer(n)}
  BY DEF Nodes, Peer

LEMMA SendEffect ==
  ASSUME Shapes, NEW n \in Nodes, NEW m, Send(n, m)
  PROVE  /\ DOMAIN wires' = Nodes /\ \A p \in Nodes : IsSeq(wires'[p])
         /\ wires'[n] = wires[n]
         /\ Mail(n)' = Mail(n) /\ Mail(Peer(n))' \subseteq Mail(Peer(n)) \cup {m}
         /\ Len(wires'[Peer(n)]) <= Len(wires[Peer(n)]) + 1
<1>1. Peer(n) \in Nodes /\ Peer(n) # n /\ Nodes = {n, Peer(n)} BY Peers
<1>2. DOMAIN wires = Nodes /\ IsSeq(wires[n]) /\ IsSeq(wires[Peer(n)]) BY <1>1 DEF Shapes
<1>3. DOMAIN wires' = Nodes /\ wires'[n] = wires[n] BY <1>1, <1>2 DEF Send
<1>4. wires'[Peer(n)] \in {wires[Peer(n)], Append(wires[Peer(n)], m)} BY <1>1, <1>2 DEF Send
<1>5. /\ IsSeq(wires'[Peer(n)]) /\ ToSet(wires'[Peer(n)]) \subseteq ToSet(wires[Peer(n)]) \cup {m}
      /\ Len(wires'[Peer(n)]) <= Len(wires[Peer(n)]) + 1
  <2>1. Len(wires[Peer(n)]) \in Nat BY <1>2, Elements
  <2>2. CASE wires'[Peer(n)] = wires[Peer(n)] BY <1>2, <2>1, <2>2
  <2>3. CASE wires'[Peer(n)] = Append(wires[Peer(n)], m) BY <1>2, <2>1, <2>3, Grown
  <2> QED BY <1>4, <2>2, <2>3
<1> QED BY <1>1, <1>2, <1>3, <1>5 DEF Mail

LEMMA ReplyEffect ==
  ASSUME Shapes, NEW n \in Nodes, NEW answers, IsSeq(answers), wires[n] # <<>>, Reply(n, answers)
  PROVE  /\ DOMAIN wires' = Nodes /\ \A p \in Nodes : IsSeq(wires'[p])
         /\ Head(wires[n]) \in Mail(n)
         /\ Mail(n)' \subseteq Mail(n) /\ Len(wires'[n]) = Len(wires[n]) - 1
         /\ Mail(Peer(n))' \subseteq Mail(Peer(n)) \cup ToSet(answers)
<1>1. Peer(n) \in Nodes /\ Peer(n) # n /\ Nodes = {n, Peer(n)} BY Peers
<1>2. DOMAIN wires = Nodes /\ IsSeq(wires[n]) /\ IsSeq(wires[Peer(n)]) BY <1>1 DEF Shapes
<1>3. DOMAIN wires' = Nodes /\ wires'[n] = Tail(wires[n]) BY <1>1, <1>2 DEF Reply
<1>4. wires'[Peer(n)] \in {wires[Peer(n)], wires[Peer(n)] \o answers} BY <1>1, <1>2 DEF Reply
<1>5. IsSeq(wires'[Peer(n)]) /\ ToSet(wires'[Peer(n)]) \subseteq ToSet(wires[Peer(n)]) \cup ToSet(answers)
  BY <1>2, <1>4, Joined
<1>6. /\ Head(wires[n]) \in ToSet(wires[n]) /\ IsSeq(wires'[n])
      /\ ToSet(wires'[n]) \subseteq ToSet(wires[n]) /\ Len(wires'[n]) = Len(wires[n]) - 1
  BY <1>2, <1>3, Shorter
<1> QED BY <1>1, <1>3, <1>5, <1>6 DEF Mail

LEMMA NoMail ==
  ASSUME Shapes, NEW n \in Nodes
  PROVE  /\ Len(wires[n]) \in Nat
         /\ wires[n] = <<>> <=> Mail(n) = {}
         /\ wires[n] = <<>> <=> Len(wires[n]) = 0
<1>1. IsSeq(wires[n]) BY DEF Shapes
<1>2. /\ Len(wires[n]) \in Nat
      /\ \A i \in 1 .. Len(wires[n]) : wires[n][i] \in ToSet(wires[n])
      /\ \A e \in ToSet(wires[n]) : \E i \in 1 .. Len(wires[n]) : wires[n][i] = e
      /\ wires[n] = <<>> <=> Len(wires[n]) = 0
  BY <1>1, Elements
<1>3. Len(wires[n]) # 0 => 1 \in 1 .. Len(wires[n]) BY <1>2
<1> QED BY <1>2, <1>3 DEF Mail

(* The messages that reach B before the offer does, and after.             *)
LEMMA Heard ==
  ASSUME Inv
  PROVE  /\ \A m \in Mail("A") : c["B"].status # None
         /\ \A m \in Mail("B") : m.type # "offer" => c["B"].status # None
         /\ \A tx \in chain : c["B"].status # None
         /\ \A j \in ToSet(job) : c["B"].status # None
         /\ c["A"].outpoint # NoTx => c["B"].status # None
         /\ c["B"].status = None /\ Mail("B") # {} => Offered
         /\ c["B"].status # None => Offered
<1>1. Shapes /\ Quiet /\ MirrorImages /\ Once BY DEF Inv
<1>2. "A" \in Nodes /\ "B" \in Nodes BY DEF Nodes
<1>3. c["B"].status = None => Mail("A") = {} /\ chain = {} /\ job = <<>> BY <1>1, <1>2, NoMail DEF Quiet
<1>4. c["B"].status = None => \A m \in Mail("B") : m.type = "offer"
  BY <1>1, <1>3 DEF Once, Answering
<1>5. c["B"].status = None /\ Mail("B") # {} => Offered BY <1>1, <1>2, NoMail DEF Quiet
<1>6. job = <<>> => ToSet(job) = {} BY NothingYet
<1> QED BY <1>1, <1>3, <1>4, <1>5, <1>6 DEF Quiet, MirrorImages

-----------------------------------------------------------------------------
(* A step that changes no contract but for its status, and no goroutine.   *)

LEMMA Frame ==
  ASSUME Inv,
         DOMAIN c' = Nodes,
         \A n \in Nodes : DOMAIN c'[n] = Fields /\ Same(c'[n], c[n]),
         c'["A"].status \in {None, "Draft"} => c["A"].status \in {None, "Draft"},
         c'["B"].status = None <=> c["B"].status = None,
         job' = job, bound'.accept = bound.accept,
         DOMAIN bound' = {"accept", "settle", "spend", "drop"},
         paid' \in [Nodes -> Int],
         DOMAIN wires' = Nodes, \A n \in Nodes : IsSeq(wires'[n]),
         c["B"].status = None =>
           /\ chain' = {} /\ wires'["A"] = <<>>
           /\ wires'["B"] = wires["B"] \/ wires'["B"] = <<>>,
         \A m \in Mail("A")' :
           \/ m \in Mail("A") \/ m.type = "decline"
           \/ /\ m.type = "sigs" /\ "ins" \in DOMAIN m.tx /\ "spends" \notin DOMAIN m.tx
              /\ ~Answering /\ (Answered => Matched /\ m.tx = c["B"].outpoint),
         \A m \in Mail("B")' : m \in Mail("B") \/ (m.type = "proof" /\ ~Answering),
         \A tx \in chain' :
           \/ tx \in chain
           \/ /\ "ins" \in DOMAIN tx /\ "spends" \notin DOMAIN tx
              /\ ~Answering /\ (Answered => Matched /\ tx = c["B"].outpoint)
           \/ /\ "ins" \notin DOMAIN tx /\ tx # NoTx
              /\ "spends" \in DOMAIN tx => \A o \in ToSet(tx.outs) : o.value \in Int
  PROVE  Inv'
<1>1. Shapes /\ Terms /\ Quiet /\ MirrorImages /\ Once BY DEF Inv
<1>2. "A" \in Nodes /\ "B" \in Nodes BY DEF Nodes
<1> DEFINE a == c["A"]
           b == c["B"]
           a1 == c'["A"]
           b1 == c'["B"]
<1>3. Same(a1, a) /\ Same(b1, b) BY <1>2
<1>4. /\ BuildDlcFundingTransaction(a1) = BuildDlcFundingTransaction(a)
      /\ \A i : PeerSigned(a1, i) = PeerSigned(a, i)
      /\ Drawn(a1) <=> Drawn(a)
      /\ \A x : Mirrors(x, a1) <=> Mirrors(x, a)
  BY <1>3, SameContract
<1>5. /\ BuildDlcFundingTransaction(b1) = BuildDlcFundingTransaction(b)
      /\ \A x : Mirrors(b1, x) <=> Mirrors(b, x)
  BY <1>3, SameContract
<1>6. Offered' <=> Offered BY <1>3 DEF Same, Offered
<1>7. Matched' <=> Matched BY <1>3, <1>4, <1>5 DEF Same, Matched
<1>8. (Answering' <=> Answering) /\ (Answered' <=> Answered) BY DEF Answering, Answered
<1>9. \A tx \in chain' : tx # NoTx
  BY <1>1 DEF Shapes, NoTx
<1>10. \A tx \in Settlements' : \A o \in ToSet(tx.outs) : o.value \in Int
  BY <1>1 DEF Shapes, Settlements
<1>11. Shapes' BY <1>1, <1>9, <1>10 DEF Shapes
<1>12. Terms'
  <2>1. a1.our \in Nat /\ a1.their \in Nat /\ Drawn(a1) BY <1>1, <1>3, <1>4 DEF Terms, Same
  <2>2. a1.ourPub = NoKey \/ (Offered' /\ a1.ourBase = Payout("A") /\ a1.status \notin {None, "Draft"})
    BY <1>1, <1>3, <1>6 DEF Terms, Same
  <2>3. CASE a.outpoint = NoTx BY <1>3, <2>1, <2>2, <2>3 DEF Terms, Same
  <2>4. CASE a.outpoint # NoTx
    <3>1. /\ Offered /\ a.outpoint = BuildDlcFundingTransaction(a)
          /\ a.theirPub = Multisig("B") /\ a.theirPKH = PayoutPKH("B")
          /\ a.sigs = [i \in DOMAIN a.division |-> PeerSigned(a, i)]
      BY <1>1, <2>4 DEF Terms
    <3>2. /\ a1.outpoint = a.outpoint /\ a1.theirPub = a.theirPub /\ a1.theirPKH = a.theirPKH
          /\ a1.sigs = a.sigs /\ a1.division = a.division
      BY <1>3 DEF Same
    <3>3. a1.sigs = [i \in DOMAIN a1.division |-> PeerSigned(a1, i)]
      BY <1>4, <3>1, <3>2
    <3> QED BY <1>4, <1>6, <2>1, <2>2, <3>1, <3>2, <3>3 DEF Terms
  <2> QED BY <2>3, <2>4
<1>13. Quiet'
  <2> SUFFICES ASSUME b1.status = None PROVE Quiet'
    BY DEF Quiet
  <2>1. b.status = None OBVIOUS
  <2>2. /\ job = <<>> /\ Len(wires["B"]) <= 1 /\ a.outpoint = NoTx
        /\ b.division = NoDivision /\ b.outpoint = NoTx
        /\ ~Offered => wires["B"] = <<>>
    BY <1>1, <2>1 DEF Quiet
  <2>3. wires'["B"] = wires["B"] \/ wires'["B"] = <<>> BY <2>1
  <2>4. Len(wires'["B"]) <= 1 /\ (~Offered => wires'["B"] = <<>>) BY <2>2, <2>3, NothingYet
  <2> QED BY <1>3, <1>6, <2>1, <2>2, <2>4 DEF Quiet, Same
<1>14. MirrorImages'
  <2>1. b1.status # None => Offered' /\ Mirrors(b1, a1) BY <1>1, <1>4, <1>5, <1>6 DEF MirrorImages
  <2>2. \A j \in ToSet(job') :
          /\ j.pc \in {"start", "fund", "send", "done"}
          /\ Mirrors(j.k, a1)
          /\ j.pc = "send" => Complete(j.k)
    BY <1>1, <1>4 DEF MirrorImages
  <2>3. ASSUME NEW m \in Mail("B")'
        PROVE  /\ m.type \in {"offer", "ack", "proof"}
               /\ m.type = "offer" =>
                    /\ b1.status = None /\ DOMAIN m.k = Fields
                    /\ m.k.our = a1.our /\ m.k.their = a1.their /\ m.k.division = a1.division
                    /\ m.k.ourIns = a1.ourIns /\ m.k.ourPub = a1.ourPub
                    /\ m.k.ourBase = a1.ourBase /\ m.k.ourChange = a1.ourChange
    <3>1. m \in Mail("B") \/ m.type = "proof" OBVIOUS
    <3> QED BY <1>1, <1>3, <3>1 DEF MirrorImages, Same
  <2>4. ASSUME NEW m \in Mail("A")'
        PROVE  /\ m.type \in {"decline", "accept", "sigs"}
               /\ m.type = "accept" =>
                    /\ DOMAIN m.k = Fields /\ Mirrors(m.k, a1) /\ Complete(m.k)
                    /\ m.sigs = SignSettlementDivisions(m.k)
               /\ m.type = "sigs" => "ins" \in DOMAIN m.tx /\ "spends" \notin DOMAIN m.tx
    <3>1. \/ m \in Mail("A") \/ m.type = "decline"
          \/ m.type = "sigs" /\ "ins" \in DOMAIN m.tx /\ "spends" \notin DOMAIN m.tx
      OBVIOUS
    <3> QED BY <1>1, <1>4, <3>1 DEF MirrorImages
  <2> QED BY <2>1, <2>2, <2>3, <2>4 DEF MirrorImages
<1>15. Once'
  <2>1. ASSUME Answering
        PROVE  /\ \A m \in Mail("A")' : m.type = "decline"
               /\ \A m \in Mail("B")' : m.type = "offer"
               /\ FundingTxs' = {}
    <3>1. /\ \A m \in Mail("A") : m.type = "decline"
          /\ \A m \in Mail("B") : m.type = "offer"
          /\ FundingTxs = {}
      BY <1>1, <2>1 DEF Once
    <3>2. FundingTxs' = {}
      BY <2>1, <3>1 DEF FundingTxs
    <3> QED BY <2>1, <3>1, <3>2
  <2>2. Len(job) = 1 /\ job[1].pc = "send" => Same(b1, job[1].k)
    BY <1>1, <1>3, SameBothWays DEF Once
  <2>3. ASSUME Answered
        PROVE  /\ \A m \in Mail("A")' :
                    /\ m.type = "accept" => Same(m.k, b1)
                    /\ m.type = "sigs" => Matched /\ m.tx = b1.outpoint
               /\ \A m \in Mail("B")' : m.type = "ack" => Matched
               /\ \A tx \in FundingTxs' : Matched /\ tx = b1.outpoint
    <3>1. /\ \A m \in Mail("A") :
               /\ m.type = "accept" => Same(m.k, b)
               /\ m.type = "sigs" => Matched /\ m.tx = b.outpoint
          /\ \A m \in Mail("B") : m.type = "ack" => Matched
          /\ \A tx \in FundingTxs : Matched /\ tx = b.outpoint
      BY <1>1, <2>3 DEF Once
    <3>2. b1.outpoint = b.outpoint /\ Same(b, b1) BY <1>3, SameBothWays DEF Same
    <3>3. ASSUME NEW m \in Mail("A")'
          PROVE  /\ m.type = "accept" => Same(m.k, b1)
                 /\ m.type = "sigs" => Matched /\ m.tx = b1.outpoint
      <4>1. \/ m \in Mail("A") \/ m.type = "decline"
            \/ m.type = "sigs" /\ Matched /\ m.tx = b.outpoint
        BY <2>3
      <4> QED BY <3>1, <3>2, <4>1, SameBothWays
    <3>4. \A m \in Mail("B")' : m.type = "ack" => Matched
      <4> SUFFICES ASSUME NEW m \in Mail("B")', m.type = "ack" PROVE Matched
        OBVIOUS
      <4>1. m \in Mail("B") \/ m.type = "proof" OBVIOUS
      <4> QED BY <3>1, <4>1
    <3>5. ASSUME NEW tx \in FundingTxs' PROVE Matched /\ tx = b1.outpoint
      <4>1. tx \in chain' /\ "ins" \in DOMAIN tx BY DEF FundingTxs
      <4>2. tx \in FundingTxs \/ (Matched /\ tx = b.outpoint) BY <2>3, <4>1 DEF FundingTxs
      <4> QED BY <3>1, <3>2, <4>2
    <3> QED BY <3>3, <3>4, <3>5
  <2> QED BY <1>7, <1>8, <2>1, <2>2, <2>3 DEF Once
<1> QED BY <1>11, <1>12, <1>13, <1>14, <1>15 DEF Inv

-----------------------------------------------------------------------------
(* What the frame asks of messages, when they do not change.               *)
LEMMA SameMail ==
  ASSUME Inv, wires' = wires
  PROVE  /\ DOMAIN wires' = Nodes /\ \A n \in Nodes : IsSeq(wires'[n])
         /\ Mail("A")' = Mail("A") /\ Mail("B")' = Mail("B")
  BY DEF Inv, Shapes, Mail

(* And of contracts, when one gets a new status.                           *)
LEMMA NewStatus ==
  ASSUME Inv, NEW n \in Nodes, NEW s, c' = [c EXCEPT ![n] = [c[n] EXCEPT !.status = s]]
  PROVE  /\ DOMAIN c' = Nodes
         /\ \A p \in Nodes : DOMAIN c'[p] = Fields /\ Same(c'[p], c[p])
         /\ c'[n].status = s /\ \A p \in Nodes : p # n => c'[p] = c[p]
<1>1. DOMAIN c = Nodes /\ \A p \in Nodes : DOMAIN c[p] = Fields BY DEF Inv, Shapes
<1> DEFINE q == [c[n] EXCEPT !.status = s]
<1>2. DOMAIN q = Fields /\ Same(q, c[n]) /\ q.status = s BY <1>1, StatusOnly
<1> HIDE DEF q
<1>3. DOMAIN c' = Nodes /\ c'[n] = q /\ \A p \in Nodes : p # n => c'[p] = c[p]
  BY <1>1 DEF q
<1> QED BY <1>1, <1>2, <1>3, SameBothWays

LEMMA SameContracts ==
  ASSUME Inv, c' = c
  PROVE  DOMAIN c' = Nodes /\ \A p \in Nodes : DOMAIN c'[p] = Fields /\ Same(c'[p], c[p])
  BY SameBothWays DEF Inv, Shapes

LEMMA Counters ==
  ASSUME Inv
  PROVE  /\ DOMAIN bound = {"accept", "settle", "spend", "drop"} /\ paid \in [Nodes -> Int]
         /\ [bound EXCEPT !.settle = @ + 1].accept = bound.accept
         /\ DOMAIN [bound EXCEPT !.settle = @ + 1] = DOMAIN bound
         /\ [bound EXCEPT !.spend = @ + 1].accept = bound.accept
         /\ DOMAIN [bound EXCEPT !.spend = @ + 1] = DOMAIN bound
         /\ [bound EXCEPT !.drop = @ + 1].accept = bound.accept
         /\ DOMAIN [bound EXCEPT !.drop = @ + 1] = DOMAIN bound
  BY DEF Inv, Shapes

LEMMA AB == "A" \in Nodes /\ "B" \in Nodes /\ "A" # "B" /\ Peer("A") = "B" /\ Peer("B") = "A"
  BY DEF Nodes, Peer

-----------------------------------------------------------------------------
(* The steps that keep the terms: messages, settlement, surroundings.      *)

LEMMA DeclineDlcInv ==
  ASSUME Inv, DeclineDlc PROVE Inv'
<1>1. /\ c["B"].status = "OfferedToMe" /\ c' = [c EXCEPT !["B"] = [c["B"] EXCEPT !.status = "Declined"]]
      /\ Send("B", [type |-> "decline"])
      /\ job' = job /\ chain' = chain /\ paid' = paid /\ bound' = bound
  BY DEF DeclineDlc, Save, DeclinedContract, Rest
<1>2. /\ DOMAIN wires' = Nodes /\ \A p \in Nodes : IsSeq(wires'[p])
      /\ Mail("B")' = Mail("B") /\ Mail("A")' \subseteq Mail("A") \cup {[type |-> "decline"]}
  BY <1>1, AB, SendEffect DEF Inv
<1>3. \A m \in Mail("A")' : m \in Mail("A") \/ m.type = "decline" BY <1>2
<1>4. /\ DOMAIN c' = Nodes /\ \A p \in Nodes : DOMAIN c'[p] = Fields /\ Same(c'[p], c[p])
      /\ c'["B"].status = "Declined" /\ c'["A"] = c["A"]
  BY <1>1, AB, NewStatus
<1>5. c["B"].status # None /\ c'["B"].status # None BY <1>1, <1>4 DEF None
<1> QED BY <1>1, <1>2, <1>3, <1>4, <1>5, Counters, Frame

LEMMA DlcDeclineHandlerInv ==
  ASSUME Inv, DlcDeclineHandler PROVE Inv'
<1>1. /\ wires["A"] # <<>> /\ Reply("A", <<>>)
      /\ c' = [c EXCEPT !["A"] = [c["A"] EXCEPT !.status = "Declined"]]
      /\ job' = job /\ chain' = chain /\ paid' = paid /\ bound' = bound
  BY DEF DlcDeclineHandler, Handle, Save, DeclinedContract, Rest
<1>2. /\ DOMAIN wires' = Nodes /\ \A p \in Nodes : IsSeq(wires'[p])
      /\ Head(wires["A"]) \in Mail("A")
      /\ Mail("A")' \subseteq Mail("A") /\ Mail("B")' \subseteq Mail("B")
  BY <1>1, AB, ReplyEffect, NothingYet DEF Inv
<1>4. /\ DOMAIN c' = Nodes /\ \A p \in Nodes : DOMAIN c'[p] = Fields /\ Same(c'[p], c[p])
      /\ c'["A"].status = "Declined" /\ c'["B"] = c["B"]
  BY <1>1, AB, NewStatus
<1>5. c["B"].status # None BY <1>2, Heard
<1>6. c'["A"].status \notin {None, "Draft"} BY <1>4 DEF None
<1> QED BY <1>1, <1>2, <1>4, <1>5, <1>6, Counters, Frame

LEMMA AckRefusedInv ==
  ASSUME Inv, AckRefused PROVE Inv'
<1>1. /\ wires["B"] # <<>> /\ Head(wires["B"]).type = "ack" /\ Reply("B", <<>>) /\ c' = c
      /\ job' = job /\ chain' = chain /\ paid' = paid /\ bound' = bound
  BY DEF AckRefused, Handle, Rest
<1>2. /\ DOMAIN wires' = Nodes /\ \A p \in Nodes : IsSeq(wires'[p])
      /\ Head(wires["B"]) \in Mail("B")
      /\ Mail("A")' \subseteq Mail("A") /\ Mail("B")' \subseteq Mail("B")
  BY <1>1, AB, ReplyEffect, NothingYet DEF Inv
<1>3. c["B"].status # None BY <1>1, <1>2, Heard
<1> QED BY <1>1, <1>2, <1>3, SameContracts, Counters, Frame

LEMMA DlcContractAckHandlerInv ==
  ASSUME Inv, DlcContractAckHandler PROVE Inv'
<1> DEFINE m == [type |-> "sigs", tx |-> BuildDlcFundingTransaction(c["B"]),
                 signed |-> c["B"].ourIns \cap coins["B"]]
<1>1. /\ wires["B"] # <<>> /\ Head(wires["B"]).type = "ack" /\ Reply("B", <<m>>)
      /\ c' = [c EXCEPT !["B"] = [c["B"] EXCEPT !.status = "Acknowledged"]]
      /\ job' = job /\ chain' = chain /\ paid' = paid /\ bound' = bound
  BY DEF DlcContractAckHandler, Handle, Save, Rest
<1>2. /\ m.type = "sigs" /\ m.tx = BuildDlcFundingTransaction(c["B"])
      /\ "ins" \in DOMAIN m.tx /\ "spends" \notin DOMAIN m.tx
  BY DEF BuildDlcFundingTransaction
<1> HIDE DEF m
<1>3. /\ DOMAIN wires' = Nodes /\ \A p \in Nodes : IsSeq(wires'[p])
      /\ Head(wires["B"]) \in Mail("B")
      /\ Mail("A")' \subseteq Mail("A") \cup {m} /\ Mail("B")' \subseteq Mail("B")
  BY <1>1, AB, ReplyEffect, Single DEF Inv
<1>4. /\ DOMAIN c' = Nodes /\ \A p \in Nodes : DOMAIN c'[p] = Fields /\ Same(c'[p], c[p])
      /\ c'["B"].status = "Acknowledged" /\ c'["A"] = c["A"]
  BY <1>1, AB, NewStatus
<1>5. c["B"].status # None /\ c'["B"].status # None BY <1>1, <1>3, <1>4, Heard DEF None
<1>6. ~Answering /\ (Answered => Matched)
  BY <1>1, <1>3 DEF Inv, Once
<1>7. Answered => Matched /\ m.tx = c["B"].outpoint BY <1>2, <1>6 DEF Matched
<1>8. \A x \in Mail("A")' :
        \/ x \in Mail("A") \/ x.type = "decline"
        \/ /\ x.type = "sigs" /\ "ins" \in DOMAIN x.tx /\ "spends" \notin DOMAIN x.tx
           /\ ~Answering /\ (Answered => Matched /\ x.tx = c["B"].outpoint)
  BY <1>2, <1>3, <1>6, <1>7
<1> QED BY <1>1, <1>3, <1>4, <1>5, <1>8, Counters, Frame

LEMMA DlcFundingSigsHandlerInv ==
  ASSUME Inv, DlcFundingSigsHandler PROVE Inv'
<1> DEFINE m == Head(wires["A"])
<1>1. /\ wires["A"] # <<>> /\ m.type = "sigs" /\ Reply("A", << [type |-> "proof"] >>)
      /\ c' = [c EXCEPT !["A"] = [c["A"] EXCEPT !.status = "Active"]]
      /\ job' = job /\ paid' = paid /\ bound' = bound
      /\ chain' \subseteq chain \cup {m.tx}
  BY DEF DlcFundingSigsHandler, Handle, Save
<1>2. /\ DOMAIN wires' = Nodes /\ \A p \in Nodes : IsSeq(wires'[p])
      /\ m \in Mail("A")
      /\ Mail("A")' \subseteq Mail("A") /\ Mail("B")' \subseteq Mail("B") \cup {[type |-> "proof"]}
  BY <1>1, AB, ReplyEffect, Single DEF Inv
<1> HIDE DEF m
<1>3. /\ DOMAIN c' = Nodes /\ \A p \in Nodes : DOMAIN c'[p] = Fields /\ Same(c'[p], c[p])
      /\ c'["A"].status = "Active" /\ c'["B"] = c["B"]
  BY <1>1, AB, NewStatus
<1>4. c["B"].status # None BY <1>2, Heard
<1>5. c'["A"].status \notin {None, "Draft"} BY <1>3 DEF None
<1>6. /\ ~Answering /\ (Answered => Matched /\ m.tx = c["B"].outpoint)
      /\ "ins" \in DOMAIN m.tx /\ "spends" \notin DOMAIN m.tx
  BY <1>1, <1>2 DEF Inv, Once, MirrorImages
<1>7. \A x \in Mail("B")' : x \in Mail("B") \/ (x.type = "proof" /\ ~Answering)
  BY <1>2, <1>6
<1>8. \A tx \in chain' : tx \in chain \/ tx = m.tx BY <1>1
<1> QED BY <1>1, <1>2, <1>3, <1>4, <1>5, <1>6, <1>7, <1>8, Counters, Frame

LEMMA DlcSigProofHandlerInv ==
  ASSUME Inv, DlcSigProofHandler PROVE Inv'
<1>1. /\ wires["B"] # <<>> /\ Head(wires["B"]).type = "proof" /\ Reply("B", <<>>)
      /\ c' = [c EXCEPT !["B"] = [c["B"] EXCEPT !.status = "Active"]]
      /\ job' = job /\ chain' = chain /\ paid' = paid /\ bound' = bound
  BY DEF DlcSigProofHandler, Handle, Save
<1>2. /\ DOMAIN wires' = Nodes /\ \A p \in Nodes : IsSeq(wires'[p])
      /\ Head(wires["B"]) \in Mail("B")
      /\ Mail("A")' \subseteq Mail("A") /\ Mail("B")' \subseteq Mail("B")
  BY <1>1, AB, ReplyEffect, NothingYet DEF Inv
<1>3. /\ DOMAIN c' = Nodes /\ \A p \in Nodes : DOMAIN c'[p] = Fields /\ Same(c'[p], c[p])
      /\ c'["B"].status = "Active" /\ c'["A"] = c["A"]
  BY <1>1, AB, NewStatus
<1>4. c["B"].status # None /\ c'["B"].status # None BY <1>1, <1>2, <1>3, Heard DEF None
<1> QED BY <1>1, <1>2, <1>3, <1>4, Counters, Frame

(* A division's entry is an amount on both sides.                          *)
LEMMA DivisionNumbers ==
  ASSUME Inv, NEW n \in Nodes, NEW i \in DOMAIN c[n].division
  PROVE  c[n].division[i] \in Int /\ c[n].our \in Nat /\ c[n].their \in Nat
<1>1. Terms /\ Quiet /\ MirrorImages BY DEF Inv
<1>2. n \in {"A", "B"} BY DEF Nodes
<1>3. c["A"].our \in Nat /\ c["A"].their \in Nat /\ Drawn(c["A"]) BY <1>1 DEF Terms
<1>4. \A x \in DOMAIN c["A"].division : c["A"].division[x] \in Int BY <1>3, DrawnNumbers
<1>5. CASE n = "A" BY <1>3, <1>4, <1>5
<1>6. CASE n = "B" /\ c["B"].status = None
  BY <1>1, <1>6 DEF Quiet, NoDivision
<1>7. CASE n = "B" /\ c["B"].status # None
  <2>1. Mirrors(c["B"], c["A"]) BY <1>1, <1>7 DEF MirrorImages
  <2> QED BY <1>3, <1>4, <1>7, <2>1 DEF Mirrors
<1> QED BY <1>2, <1>5, <1>6, <1>7

LEMMA SettleContractInv ==
  ASSUME Inv, NEW n \in Nodes, NEW i \in Outcomes, SettleContract(n, i) PROVE Inv'
<1> DEFINE tx == SettlementTx(c[n], i, FALSE)
<1>1. PICK s \in {"Settling", "Closed"} : c' = [c EXCEPT ![n] = [c[n] EXCEPT !.status = s]]
  BY DEF SettleContract, Save
<1>2. /\ c[n].status # None
      /\ job' = job /\ wires' = wires /\ bound' = [bound EXCEPT !.settle = @ + 1]
  BY DEF SettleContract
<1>3. \/ chain' = chain /\ paid' = paid
      \/ /\ chain' = chain \cup {tx} /\ c[n].outpoint \in chain /\ i \in DOMAIN c[n].division
         /\ paid' = [paid EXCEPT ![n] = paid[n] + ClaimOf(c[n], i, tx)]
  BY DEF SettleContract, SettleValid
<1>4. /\ DOMAIN c' = Nodes /\ \A p \in Nodes : DOMAIN c'[p] = Fields /\ Same(c'[p], c[p])
      /\ c'[n].status = s /\ \A p \in Nodes : p # n => c'[p] = c[p]
  BY <1>1, NewStatus
<1>5. s \notin {None, "Draft"} BY DEF None
<1>6. c'["B"].status = None <=> c["B"].status = None BY <1>2, <1>4, <1>5, AB
<1>7. c'["A"].status \in {None, "Draft"} => c["A"].status \in {None, "Draft"} BY <1>4, <1>5, AB
<1>8. c["B"].status = None => chain' = {}
  <2> SUFFICES ASSUME c["B"].status = None PROVE chain' = {}
    OBVIOUS
  <2>1. chain = {} BY DEF Inv, Quiet
  <2> QED BY <1>3, <2>1
<1>9. i \in DOMAIN c[n].division => c[n].division[i] \in Int /\ c[n].our \in Nat /\ c[n].their \in Nat
  BY DivisionNumbers
<1>10. i \in DOMAIN c[n].division => \A o \in ToSet(tx.outs) : o.value \in Int
  BY <1>9, SettlementNumbers
<1>11. "ins" \notin DOMAIN tx /\ tx # NoTx BY DEF SettlementTx, NoTx
<1>12. i \in DOMAIN c[n].division => ClaimOf(c[n], i, tx) \in Int
  <2> HIDE DEF tx
  <2> QED BY <1>9, DlcAssumption DEF ClaimOf
<1> HIDE DEF tx
<1>13. paid' \in [Nodes -> Int]
  <2>1. paid \in [Nodes -> Int] BY Counters
  <2>2. CASE paid' = paid BY <2>1, <2>2
  <2>3. CASE i \in DOMAIN c[n].division /\ paid' = [paid EXCEPT ![n] = paid[n] + ClaimOf(c[n], i, tx)]
    <3>1. paid[n] + ClaimOf(c[n], i, tx) \in Int BY <1>12, <2>1, <2>3
    <3> QED BY <2>1, <2>3, <3>1
  <2> QED BY <1>3, <2>2, <2>3
<1>14. \A x \in chain' :
         \/ x \in chain
         \/ /\ "ins" \notin DOMAIN x /\ x # NoTx
            /\ "spends" \in DOMAIN x => \A o \in ToSet(x.outs) : o.value \in Int
  BY <1>3, <1>10, <1>11
<1>15. c["B"].status = None => wires["A"] = <<>> BY DEF Inv, Quiet
<1> QED BY <1>2, <1>4, <1>6, <1>7, <1>8, <1>13, <1>14, <1>15, SameMail, Counters, Frame

LEMMA QuietSurroundings ==
  ASSUME Inv, c["B"].status = None PROVE chain = {} /\ wires["A"] = <<>>
  BY DEF Inv, Quiet

LEMMA MinedInv ==
  ASSUME Inv, NEW tx, Mined(tx) PROVE Inv'
<1>1. c' = c /\ job' = job /\ wires' = wires /\ chain' = chain /\ paid' = paid /\ bound' = bound
  BY DEF Mined
<1> QED BY <1>1, SameContracts, SameMail, Counters, QuietSurroundings, Frame

LEMMA HandleContractOPEventInv ==
  ASSUME Inv, NEW n \in Nodes, NEW tx \in Settlements, HandleContractOPEvent(n, tx) PROVE Inv'
<1> DEFINE k == c[n]
           mine == {o \in ToSet(tx.outs) : o.to = k.ourPKH}
           claim == [claims |-> tx, by |-> n]
           o1 == CHOOSE o \in mine : TRUE
<1>1. /\ mine # {} /\ chain' \subseteq chain \cup {claim}
      /\ paid' = paid \/ paid' = [paid EXCEPT ![n] = paid[n] + o1.value - FeeUnit]
      /\ c' = [c EXCEPT ![n] = [c[n] EXCEPT !.status = "Closed"]]
      /\ job' = job /\ wires' = wires /\ bound' = bound
  BY DEF HandleContractOPEvent, Save
<1>2. tx \in chain BY DEF Settlements
<1>3. c["B"].status # None BY <1>2, Heard
<1>4. /\ DOMAIN c' = Nodes /\ \A p \in Nodes : DOMAIN c'[p] = Fields /\ Same(c'[p], c[p])
      /\ c'[n].status = "Closed" /\ \A p \in Nodes : p # n => c'[p] = c[p]
  BY <1>1, NewStatus
<1>5. o1 \in ToSet(tx.outs) BY <1>1
<1>6. o1.value \in Int BY <1>5 DEF Inv, Shapes
<1>7. "ins" \notin DOMAIN claim /\ "spends" \notin DOMAIN claim /\ claim # NoTx
  BY DEF NoTx
<1> HIDE DEF claim, o1, mine
<1>8. paid' \in [Nodes -> Int]
  <2>1. paid \in [Nodes -> Int] BY Counters
  <2>2. paid[n] + o1.value - FeeUnit \in Int BY <1>6, <2>1, DlcAssumption
  <2> QED BY <1>1, <2>1, <2>2
<1>9. c'["B"].status # None BY <1>3, <1>4, AB DEF None
<1>10. c'["A"].status \in {None, "Draft"} => c["A"].status \in {None, "Draft"} BY <1>4, AB DEF None
<1> QED BY <1>1, <1>3, <1>4, <1>7, <1>8, <1>9, <1>10, SameMail, Counters, Frame

LEMMA SpendElsewhereInv ==
  ASSUME Inv, NEW n \in Nodes, SpendElsewhere(n) PROVE Inv'
<1>1. /\ c' = c /\ job' = job /\ wires' = wires /\ chain' = chain /\ paid' = paid
      /\ bound' = [bound EXCEPT !.spend = @ + 1]
  BY DEF SpendElsewhere
<1> QED BY <1>1, SameContracts, SameMail, Counters, QuietSurroundings, Frame

LEMMA DisconnectInv ==
  ASSUME Inv, Disconnect PROVE Inv'
<1>1. /\ c' = c /\ job' = job /\ chain' = chain /\ paid' = paid
      /\ bound' = [bound EXCEPT !.drop = @ + 1]
      /\ wires' = [n \in Nodes |-> <<>>]
  BY DEF Disconnect
<1>2. /\ DOMAIN wires' = Nodes /\ \A n \in Nodes : IsSeq(wires'[n]) /\ wires'[n] = <<>>
      /\ Mail("A")' = {} /\ Mail("B")' = {}
  BY <1>1, AB, NothingYet DEF Mail
<1> QED BY <1>1, <1>2, AB, SameContracts, Counters, QuietSurroundings, Frame

LEMMA ReconnectInv ==
  ASSUME Inv, Reconnect PROVE Inv'
<1>1. c' = c /\ job' = job /\ wires' = wires /\ chain' = chain /\ paid' = paid /\ bound' = bound
  BY DEF Reconnect
<1> QED BY <1>1, SameContracts, SameMail, Counters, QuietSurroundings, Frame

-----------------------------------------------------------------------------
(* Drafting and the offer: nobody but A has heard of the contract.         *)

LEMMA Unoffered ==
  ASSUME Inv, c["A"].status \in {None, "Draft"}
  PROVE  /\ ~Offered /\ c["B"].status = None /\ job = <<>> /\ chain = {}
         /\ wires["A"] = <<>> /\ wires["B"] = <<>> /\ Mail("A") = {} /\ Mail("B") = {}
         /\ c["A"].ourPub = NoKey /\ c["A"].outpoint = NoTx
         /\ c["B"].division = NoDivision /\ c["B"].outpoint = NoTx
<1>1. c["A"].ourPub = NoKey BY DEF Inv, Terms
<1>2. ~Offered BY <1>1 DEF Offered, NoKey, Multisig
<1>3. c["B"].status = None BY <1>2, Heard
<1> QED BY <1>1, <1>2, <1>3, AB, NoMail DEF Inv, Quiet

(* The contract of A changes while B knows nothing, and an offer of what   *)
(* it has become may be on its way.                                        *)
LEMMA DraftedInv ==
  ASSUME Inv, c["A"].status \in {None, "Draft"},
         NEW k, DOMAIN k = Fields, k.our \in Nat, k.their \in Nat, Drawn(k), k.outpoint = NoTx,
         \/ k.ourPub = NoKey
         \/ k.ourPub = Multisig("A") /\ k.ourBase = Payout("A") /\ k.status \notin {None, "Draft"},
         c' = [c EXCEPT !["A"] = k],
         job' = job, chain' = chain, paid' = paid, bound' = bound,
         DOMAIN wires' = Nodes, \A n \in Nodes : IsSeq(wires'[n]),
         wires'["A"] = <<>>, Len(wires'["B"]) <= 1,
         k.ourPub = NoKey => wires'["B"] = <<>>,
         \A m \in Mail("B")' : /\ m.type = "offer" /\ DOMAIN m.k = Fields
                               /\ m.k.our = k.our /\ m.k.their = k.their /\ m.k.division = k.division
                               /\ m.k.ourIns = k.ourIns /\ m.k.ourPub = k.ourPub
                               /\ m.k.ourBase = k.ourBase /\ m.k.ourChange = k.ourChange
  PROVE  Inv'
<1>1. /\ ~Offered /\ c["B"].status = None /\ job = <<>> /\ chain = {}
      /\ c["B"].division = NoDivision /\ c["B"].outpoint = NoTx
  BY Unoffered
<1>2. DOMAIN c = Nodes /\ \A n \in Nodes : DOMAIN c[n] = Fields BY DEF Inv, Shapes
<1>3. DOMAIN c' = Nodes /\ c'["A"] = k /\ c'["B"] = c["B"] /\ \A n \in Nodes : DOMAIN c'[n] = Fields
  BY <1>2, AB DEF Nodes
<1>4. Settlements' = {} /\ FundingTxs' = {} BY <1>1 DEF Settlements, FundingTxs
<1>5. Shapes' BY <1>1, <1>3, <1>4 DEF Inv, Shapes
<1>6. Terms' BY <1>3 DEF Terms, Offered
<1>7. Mail("A")' = {} BY NothingYet DEF Mail
<1>8. ToSet(job') = {} BY <1>1, NothingYet
<1>9. Offered' <=> k.ourPub = Multisig("A") BY <1>3 DEF Offered
<1>10. NoKey # Multisig("A") BY DEF NoKey, Multisig
<1>11. Quiet' BY <1>1, <1>3, <1>9 DEF Quiet
<1>12. MirrorImages'
  <2>1. c'["B"].status = None BY <1>1, <1>3
  <2> QED BY <1>3, <1>7, <1>8, <2>1 DEF MirrorImages
<1>13. Once'
  <2>1. Len(job') = 0 BY <1>1, NothingYet
  <2> QED BY <1>4, <1>7, <2>1 DEF Once, Answering, Answered
<1> QED BY <1>5, <1>6, <1>11, <1>12, <1>13 DEF Inv

LEMMA DraftingInv ==
  ASSUME Inv, Drafting PROVE Inv'
<1> DEFINE a == c["A"]
<1>1. /\ a.status \in {None, "Draft"}
      /\ job' = job /\ wires' = wires /\ chain' = chain /\ paid' = paid /\ bound' = bound
  BY DEF Drafting, AddContract, SetContractOracle, SetContractSettlementTime, SetContractDatafeed,
         SetContractRPoint, SetContractCoinType, SetContractFunding, SetContractDivision, SetDraft, Rest
<1>2. DOMAIN a = Fields BY AB DEF Inv, Shapes
<1>3. a.our \in Nat /\ a.their \in Nat /\ Drawn(a) BY DEF Inv, Terms
<1>4. /\ wires["A"] = <<>> /\ wires["B"] = <<>> /\ a.ourPub = NoKey /\ a.outpoint = NoTx
      /\ Mail("B") = {}
  BY <1>1, Unoffered
<1>5. DOMAIN wires = Nodes /\ \A n \in Nodes : IsSeq(wires[n]) BY DEF Inv, Shapes
<1>6. ASSUME NEW k, Save("A", k), DOMAIN k = Fields, k.our \in Nat, k.their \in Nat, Drawn(k),
             k.ourPub = NoKey, k.outpoint = NoTx
      PROVE  Inv'
  <2>1. c' = [c EXCEPT !["A"] = k] BY <1>6 DEF Save
  <2>2. Len(wires'["B"]) <= 1 BY <1>1, <1>4, NothingYet
  <2>3. Mail("B")' = {} BY <1>1, <1>4 DEF Mail
  <2> QED BY <1>1, <1>4, <1>5, <1>6, <2>1, <2>2, <2>3, DraftedInv
<1>7. CASE AddContract
  <2> DEFINE k == [NewContract EXCEPT !.status = "Draft"]
  <2>1. Save("A", k) BY <1>7 DEF AddContract
  <2>2. DOMAIN k = Fields /\ Same(k, NewContract) BY StatusOnly DEF Fields
  <2> HIDE DEF k
  <2>3. /\ k.our = 0 /\ k.their = 0 /\ k.division = NoDivision /\ k.ourPub = NoKey /\ k.outpoint = NoTx
    BY <2>2 DEF Same, NewContract
  <2> QED BY <2>1, <2>2, <2>3, <1>6 DEF Drawn
<1>8. ASSUME NEW k, SetDraft(k), DOMAIN k = Fields, k.our = a.our, k.their = a.their,
             k.division = a.division, k.ourPub = a.ourPub, k.outpoint = a.outpoint
      PROVE  Inv'
  <2>1. Save("A", k) BY <1>8 DEF SetDraft
  <2>2. Drawn(k) BY <1>3, <1>8 DEF Drawn
  <2> QED BY <1>3, <1>4, <1>6, <1>8, <2>1, <2>2
<1>9. CASE SetContractOracle BY <1>2, <1>8, <1>9, FieldNames DEF SetContractOracle
<1>10. CASE SetContractSettlementTime BY <1>2, <1>8, <1>10, FieldNames DEF SetContractSettlementTime
<1>11. CASE SetContractDatafeed BY <1>2, <1>8, <1>11, FieldNames DEF SetContractDatafeed
<1>12. CASE SetContractRPoint BY <1>2, <1>8, <1>12, FieldNames DEF SetContractRPoint
<1>13. ASSUME NEW coin \in {SharedCoin, OnlyACoin}, SetContractCoinType(coin) PROVE Inv'
  <2> DEFINE k == [a EXCEPT !.coin = coin]
  <2>1. SetDraft(k) BY <1>13 DEF SetContractCoinType
  <2>2. /\ DOMAIN k = Fields /\ k.our = a.our /\ k.their = a.their /\ k.division = a.division
        /\ k.ourPub = a.ourPub /\ k.outpoint = a.outpoint
    BY <1>2, FieldNames
  <2> HIDE DEF k
  <2> QED BY <1>8, <2>1, <2>2
<1>14. ASSUME NEW f \in Fundings, SetContractFunding(f[1], f[2]) PROVE Inv'
  <2> DEFINE k == [a EXCEPT !.our = f[1], !.their = f[2], !.division = NoDivision]
  <2>1. Save("A", k) BY <1>14 DEF SetContractFunding, SetDraft
  <2>2. /\ DOMAIN k = Fields /\ k.our = f[1] /\ k.their = f[2] /\ k.division = NoDivision
        /\ k.ourPub = a.ourPub /\ k.outpoint = a.outpoint
    BY <1>2, FieldNames
  <2> HIDE DEF k
  <2>3. f[1] \in Nat /\ f[2] \in Nat BY DlcAssumption
  <2>4. Drawn(k) BY <2>2 DEF Drawn
  <2> QED BY <1>4, <1>6, <2>1, <2>2, <2>3, <2>4
<1>15. ASSUME NEW r \in Ranges, SetContractDivision(r[1], r[2]) PROVE Inv'
  <2> DEFINE d == LinearDivision(r[1], r[2], a.our + a.their)
             k == [a EXCEPT !.division = d]
  <2>1. Save("A", k) BY <1>15 DEF SetContractDivision, SetDraft
  <2> HIDE DEF d
  <2>2. /\ DOMAIN k = Fields /\ k.our = a.our /\ k.their = a.their /\ k.division = d
        /\ k.ourPub = a.ourPub /\ k.outpoint = a.outpoint
    BY <1>2, FieldNames
  <2> HIDE DEF k
  <2>3. Drawn(k) BY <2>2 DEF Drawn, d
  <2> QED BY <1>3, <1>4, <1>6, <2>1, <2>2, <2>3
<1> QED BY <1>7, <1>9, <1>10, <1>11, <1>12, <1>13, <1>14, <1>15 DEF Drafting

LEMMA OfferDlcInv ==
  ASSUME Inv, OfferDlc PROVE Inv'
<1> DEFINE a == c["A"]
           a1 == [a EXCEPT !.ourPub = <<"A", "multisig">>, !.ourBase = <<"A", "payout">>]
<1>1. a.status = "Draft" BY DEF OfferDlc
<1>2. PICK coin \in Pickable("A", a.our) :
        /\ Save("A", [Funded("A", a1, coin) EXCEPT !.status = "OfferedByMe"])
        /\ Send("A", [type |-> "offer", k |-> Funded("A", a1, coin)])
  BY DEF OfferDlc
<1>3. job' = job /\ chain' = chain /\ paid' = paid /\ bound' = bound BY DEF OfferDlc
<1> DEFINE f == Funded("A", a1, coin)
           k == [f EXCEPT !.status = "OfferedByMe"]
           m == [type |-> "offer", k |-> f]
<1>4. DOMAIN a = Fields BY AB DEF Inv, Shapes
<1>5. a.our \in Nat /\ a.their \in Nat /\ Drawn(a) BY DEF Inv, Terms
<1>6. /\ wires["A"] = <<>> /\ wires["B"] = <<>> /\ Mail("B") = {} /\ a.outpoint = NoTx
  BY <1>1, Unoffered
<1>7. /\ DOMAIN f = Fields /\ f.our = a.our /\ f.their = a.their /\ f.division = a.division
      /\ f.outpoint = a.outpoint /\ f.ourPub = Multisig("A") /\ f.ourBase = Payout("A")
  BY <1>4, FieldNames DEF Funded, Multisig, Payout
<1>8. m.type = "offer" /\ m.k = f OBVIOUS
<1>9. c' = [c EXCEPT !["A"] = k] /\ Send("A", m) BY <1>2 DEF Save
<1> HIDE DEF m, f
<1>10. DOMAIN k = Fields /\ Same(k, f) /\ k.status = "OfferedByMe" BY <1>7, StatusOnly
<1> HIDE DEF k
<1>11. /\ DOMAIN wires' = Nodes /\ \A n \in Nodes : IsSeq(wires'[n])
       /\ wires'["A"] = <<>> /\ Mail("B")' \subseteq {m} /\ Len(wires'["B"]) <= 1
  <2>1. Len(wires["B"]) = 0 BY <1>6, NothingYet
  <2> QED BY <1>6, <1>9, <2>1, AB, SendEffect DEF Inv
<1>12. Drawn(k) BY <1>5, <1>7, <1>10 DEF Drawn, Same
<1>13. k.status \notin {None, "Draft"} BY <1>10 DEF None
<1>14. Multisig("A") # NoKey BY DEF Multisig, NoKey
<1>15. /\ k.our = a.our /\ k.their = a.their /\ k.outpoint = NoTx
       /\ k.ourPub = Multisig("A") /\ k.ourBase = Payout("A")
  BY <1>6, <1>7, <1>10 DEF Same
<1>16. \A x \in Mail("B")' : /\ x.type = "offer" /\ DOMAIN x.k = Fields
                             /\ x.k.our = k.our /\ x.k.their = k.their /\ x.k.division = k.division
                             /\ x.k.ourIns = k.ourIns /\ x.k.ourPub = k.ourPub
                             /\ x.k.ourBase = k.ourBase /\ x.k.ourChange = k.ourChange
  <2> SUFFICES ASSUME NEW x \in Mail("B")'
               PROVE  /\ x.type = "offer" /\ DOMAIN x.k = Fields
                      /\ x.k.our = k.our /\ x.k.their = k.their /\ x.k.division = k.division
                      /\ x.k.ourIns = k.ourIns /\ x.k.ourPub = k.ourPub
                      /\ x.k.ourBase = k.ourBase /\ x.k.ourChange = k.ourChange
    OBVIOUS
  <2>1. x = m BY <1>11
  <2> QED BY <1>7, <1>8, <1>10, <2>1 DEF Same
<1> QED BY <1>1, <1>3, <1>5, <1>9, <1>10, <1>11, <1>12, <1>13, <1>14, <1>15, <1>16, DraftedInv

-----------------------------------------------------------------------------
(* B hears of the offer.                                                   *)

LEMMA MirroredIsMirror ==
  ASSUME NEW m, NEW q, m.our = q.our, m.their = q.their, m.division = q.division,
         m.ourIns = q.ourIns, m.ourPub = q.ourPub, m.ourBase = q.ourBase, m.ourChange = q.ourChange
  PROVE  /\ DOMAIN Mirrored(m) = Fields /\ Mirrors(Mirrored(m), q)
         /\ Mirrored(m).status = "OfferedToMe"
<1> DEFINE d == [i \in DOMAIN m.division |-> m.our + m.their - m.division[i]]
<1>1. /\ DOMAIN Mirrored(m) = Fields /\ Mirrored(m).status = "OfferedToMe"
      /\ Mirrored(m).our = m.their /\ Mirrored(m).their = m.our
      /\ Mirrored(m).theirIns = m.ourIns /\ Mirrored(m).theirPub = m.ourPub
      /\ Mirrored(m).theirBase = m.ourBase /\ Mirrored(m).theirChange = m.ourChange
      /\ Mirrored(m).division = d
  <2> HIDE DEF d
  <2>1. Mirrored(m) =
          [NewContract EXCEPT
             !.status = "OfferedToMe", !.our = m.their, !.their = m.our,
             !.theirIns = m.ourIns, !.theirPub = m.ourPub, !.theirBase = m.ourBase,
             !.theirChange = m.ourChange, !.coin = m.coin, !.oracleA = m.oracleA,
             !.oracleR = m.oracleR, !.time = m.time, !.division = d]
    BY DEF Mirrored, d
  <2>2. DOMAIN NewContract = Fields BY DEF Fields
  <2> QED BY <2>1, <2>2, FieldNames
<1>2. d = [i \in DOMAIN q.division |-> q.our + q.their - q.division[i]] OBVIOUS
<1> QED BY <1>1, <1>2 DEF Mirrors

LEMMA DlcOfferHandlerInv ==
  ASSUME Inv, DlcOfferHandler PROVE Inv'
<1> DEFINE m == Head(wires["B"])
           a == c["A"]
           k == Mirrored(m.k)
<1>1. /\ wires["B"] # <<>> /\ m.type = "offer"
      /\ job' = job /\ chain' = chain /\ paid' = paid /\ bound' = bound
  BY DEF DlcOfferHandler, Handle, Rest
<1>2. PICK answers \in {<<>>, << [type |-> "decline"] >>}, q \in {k, DeclinedContract(k)} :
        Reply("B", answers) /\ Save("B", q)
  BY DEF DlcOfferHandler
<1>3. IsSeq(answers) /\ ToSet(answers) \subseteq {[type |-> "decline"]} BY NothingYet, Single
<1>4. /\ DOMAIN wires' = Nodes /\ \A p \in Nodes : IsSeq(wires'[p])
      /\ m \in Mail("B") /\ Len(wires'["B"]) = Len(wires["B"]) - 1
      /\ Mail("A")' \subseteq Mail("A") \cup {[type |-> "decline"]}
  BY <1>1, <1>2, <1>3, AB, ReplyEffect DEF Inv
<1>5. /\ c["B"].status = None
      /\ m.k.our = a.our /\ m.k.their = a.their /\ m.k.division = a.division
      /\ m.k.ourIns = a.ourIns /\ m.k.ourPub = a.ourPub
      /\ m.k.ourBase = a.ourBase /\ m.k.ourChange = a.ourChange
  BY <1>1, <1>4 DEF Inv, MirrorImages
<1>6. /\ DOMAIN k = Fields /\ Mirrors(k, a) /\ k.status = "OfferedToMe" BY <1>5, MirroredIsMirror
<1> HIDE DEF k
<1>7. DOMAIN q = Fields /\ Mirrors(q, a) /\ q.status # None
  <2> DEFINE r == [k EXCEPT !.status = "Declined"]
  <2>1. q \in {k, r} BY DEF DeclinedContract
  <2>2. DOMAIN r = Fields /\ Same(r, k) /\ r.status = "Declined" BY <1>6, StatusOnly
  <2> HIDE DEF r
  <2>3. Mirrors(r, a) BY <1>6, <2>2, SameContract
  <2> QED BY <1>6, <2>1, <2>2, <2>3 DEF None
<1>8. /\ job = <<>> /\ chain = {} /\ Mail("A") = {} /\ Len(wires["B"]) <= 1 /\ Offered
  <2>1. Mail("B") # {} BY <1>4
  <2> QED BY <1>5, <2>1, AB, NoMail, Heard DEF Inv, Quiet
<1>9. Mail("B")' = {} /\ \A x \in Mail("A")' : x.type = "decline"
  <2>0. Shapes BY DEF Inv
  <2>1. Len(wires["B"]) \in Nat /\ Len(wires["B"]) # 0 BY <1>1, <2>0, AB, NoMail
  <2>2. Len(wires'["B"]) = 0
    <3>1. Len(wires["B"]) = 1
      <4>1. Len(wires["B"]) <= 1 BY <1>8
      <4> HIDE DEF m
      <4>2. \A l \in Nat : l # 0 /\ l <= 1 => l = 1 OBVIOUS
      <4> QED BY <2>1, <4>1, <4>2
    <3>2. Len(wires'["B"]) = Len(wires["B"]) - 1 BY <1>4
    <3> QED BY <3>1, <3>2
  <2>3. wires'["B"] = <<>> BY <1>4, <2>2, AB, Elements
  <2> QED BY <1>4, <1>8, <2>3, NothingYet DEF Mail
<1>10. c' = [c EXCEPT !["B"] = q] BY <1>2 DEF Save
<1> HIDE DEF m
<1>11. /\ DOMAIN c' = Nodes /\ c'["A"] = a /\ c'["B"] = q /\ \A p \in Nodes : DOMAIN c'[p] = Fields
  BY <1>7, <1>10, AB DEF Inv, Shapes, Nodes
<1>12. ToSet(job) = {} /\ Len(job) = 0 BY <1>8, NothingYet
<1>13. Settlements' = {} /\ FundingTxs' = {} BY <1>1, <1>8 DEF Settlements, FundingTxs
<1>14. Shapes' BY <1>1, <1>4, <1>11, <1>13 DEF Inv, Shapes
<1>15. Terms' BY <1>11 DEF Inv, Terms, Offered
<1>16. Quiet' BY <1>7, <1>11 DEF Quiet
<1>17. MirrorImages' BY <1>1, <1>7, <1>8, <1>9, <1>11, <1>12 DEF MirrorImages, Offered
<1>18. Once' BY <1>1, <1>9, <1>12, <1>13 DEF Once, Answering, Answered
<1> QED BY <1>14, <1>15, <1>16, <1>17, <1>18 DEF Inv

-----------------------------------------------------------------------------
(* B accepts.                                                              *)

JobShape(j) == DOMAIN j = {"pc", "k"} /\ DOMAIN j.k = Fields

AcceptFits(m, a) ==
  /\ m.type = "accept" /\ DOMAIN m.k = Fields /\ Mirrors(m.k, a) /\ Complete(m.k)
  /\ m.sigs = SignSettlementDivisions(m.k)

JobFits(j, a) ==
  /\ j.pc \in {"start", "fund", "send", "done"}
  /\ Mirrors(j.k, a)
  /\ j.pc = "send" => Complete(j.k)

LEMMA Jobs ==
  ASSUME Inv
  PROVE  /\ IsSeq(job) /\ Len(job) \in Nat /\ bound.accept = Len(job)
         /\ \A j \in ToSet(job) : JobShape(j) /\ JobFits(j, c["A"])
         /\ \A i \in 1 .. Len(job) : job[i] \in ToSet(job)
<1>1. IsSeq(job) /\ bound.accept = Len(job) /\ \A j \in ToSet(job) : JobShape(j)
  BY DEF Inv, Shapes, JobShape
<1>2. \A j \in ToSet(job) : JobFits(j, c["A"]) BY DEF Inv, MirrorImages, JobFits
<1> QED BY <1>1, <1>2, Elements

(* What a step of an accepting goroutine leaves as it is.                  *)
LEMMA AcceptFrame ==
  ASSUME Inv, c["B"].status # None,
         DOMAIN c' = Nodes, c'["A"] = c["A"], DOMAIN c'["B"] = Fields,
         c'["B"].status # None, Mirrors(c'["B"], c["A"]),
         IsSeq(job'), \A j \in ToSet(job') : JobShape(j) /\ JobFits(j, c["A"]),
         DOMAIN bound' = {"accept", "settle", "spend", "drop"}, bound'.accept = Len(job'),
         chain' = chain, paid' = paid,
         DOMAIN wires' = Nodes, \A n \in Nodes : IsSeq(wires'[n]),
         Mail("B")' = Mail("B"),
         \A m \in Mail("A")' : m \in Mail("A") \/ AcceptFits(m, c["A"])
  PROVE  Shapes' /\ Terms' /\ Quiet' /\ MirrorImages'
<1>1. Shapes /\ Terms /\ Quiet /\ MirrorImages BY DEF Inv
<1>2. Settlements' = Settlements BY DEF Settlements
<1>3. \A n \in Nodes : DOMAIN c'[n] = Fields BY <1>1, AB DEF Shapes, Nodes
<1>4. Shapes' BY <1>1, <1>2, <1>3 DEF Shapes, JobShape
<1>5. Terms' BY <1>1 DEF Terms, Offered
<1>6. Quiet' BY DEF Quiet
<1>7. Offered' /\ Offered BY <1>1 DEF MirrorImages, Offered
<1>8. \A m \in Mail("B") : m.type \in {"ack", "proof"} BY <1>1 DEF MirrorImages
<1>9. ASSUME NEW m \in Mail("A")'
      PROVE  /\ m.type \in {"decline", "accept", "sigs"}
             /\ m.type = "accept" =>
                  /\ DOMAIN m.k = Fields /\ Mirrors(m.k, c["A"]) /\ Complete(m.k)
                  /\ m.sigs = SignSettlementDivisions(m.k)
             /\ m.type = "sigs" => "ins" \in DOMAIN m.tx /\ "spends" \notin DOMAIN m.tx
  <2>1. m \in Mail("A") \/ AcceptFits(m, c["A"]) OBVIOUS
  <2>2. CASE m \in Mail("A") BY <1>1, <2>2 DEF MirrorImages
  <2>3. CASE AcceptFits(m, c["A"]) BY <2>3 DEF AcceptFits
  <2> QED BY <2>1, <2>2, <2>3
<1>10. MirrorImages' BY <1>7, <1>8, <1>9 DEF MirrorImages, JobFits
<1> QED BY <1>4, <1>5, <1>6, <1>10

LEMMA AcceptDlcInv ==
  ASSUME Inv, AcceptDlc PROVE Inv'
<1> DEFINE b == c["B"]
           j == [pc |-> "start", k |-> b]
<1>1. /\ b.status = "OfferedToMe" /\ job' = Append(job, j)
      /\ bound' = [bound EXCEPT !.accept = @ + 1]
      /\ c' = c /\ wires' = wires /\ chain' = chain /\ paid' = paid
  BY DEF AcceptDlc
<1>2. b.status # None BY <1>1 DEF None
<1>3. j.pc = "start" /\ j.k = b /\ DOMAIN j = {"pc", "k"} OBVIOUS
<1> HIDE DEF j
<1>4. DOMAIN c = Nodes /\ DOMAIN b = Fields BY AB DEF Inv, Shapes
<1>5. Mirrors(b, c["A"]) BY <1>2 DEF Inv, MirrorImages
<1>6. JobShape(j) /\ JobFits(j, c["A"]) BY <1>3, <1>4, <1>5 DEF JobShape, JobFits
<1>7. IsSeq(job') /\ ToSet(job') = ToSet(job) \cup {j} /\ Len(job') = Len(job) + 1
  BY <1>1, Jobs, Grown
<1>8. DOMAIN bound' = {"accept", "settle", "spend", "drop"} /\ bound'.accept = Len(job')
  <2>1. bound.accept = Len(job) /\ DOMAIN bound = {"accept", "settle", "spend", "drop"}
    BY Jobs, Counters
  <2>2. bound' = [bound EXCEPT !.accept = bound.accept + 1] BY <1>1
  <2> QED BY <1>7, <2>1, <2>2
<1>9. Shapes' /\ Terms' /\ Quiet' /\ MirrorImages'
  BY <1>1, <1>2, <1>4, <1>5, <1>6, <1>7, <1>8, Jobs, SameMail, AcceptFrame
<1>10. Once'
  <2>1. CASE Len(job) = 0
    <3>1. Answering BY <2>1 DEF Answering
    <3>2. /\ \A m \in Mail("A") : m.type = "decline"
          /\ \A m \in Mail("B") : m.type = "offer"
          /\ FundingTxs = {}
      BY <3>1 DEF Inv, Once
    <3>3. Len(job') = 1 /\ job'[1] = j BY <1>1, <1>7, <2>1, Jobs, Grown
    <3>4. job'[1].pc = "start" BY <1>3, <3>3
    <3>5. Mail("A")' = Mail("A") /\ Mail("B")' = Mail("B") /\ FundingTxs' = FundingTxs
      BY <1>1, SameMail DEF FundingTxs
    <3> QED BY <3>2, <3>3, <3>4, <3>5 DEF Once, Answered
  <2>2. CASE Len(job) # 0
    <3>1. Len(job') # 0 /\ Len(job') # 1 BY <1>7, <2>2, Jobs
    <3> QED BY <3>1 DEF Once, Answering, Answered
  <2> QED BY <2>1, <2>2
<1> QED BY <1>9, <1>10 DEF Inv

(* The i-th goroutine moves on, with another copy of the contract perhaps. *)
LEMMA JobStep ==
  ASSUME Inv, NEW i \in 1 .. Len(job), NEW j, JobShape(j), JobFits(j, c["A"]),
         job' = [job EXCEPT ![i] = j]
  PROVE  /\ IsSeq(job') /\ Len(job') = Len(job)
         /\ \A x \in ToSet(job') : JobShape(x) /\ JobFits(x, c["A"])
         /\ Len(job) = 1 => i = 1 /\ job'[1] = j
         /\ job[i] \in ToSet(job) /\ c["B"].status # None
<1>1. IsSeq(job) /\ Len(job) \in Nat BY Jobs
<1>2. /\ IsSeq(job') /\ Len(job') = Len(job) /\ ToSet(job') \subseteq ToSet(job) \cup {j}
      /\ job'[i] = j
  <2>1. job' = Replaced(job, i, j) BY DEF Replaced
  <2>2. IsSeq(Replaced(job, i, j)) BY <1>1, Changed
  <2>3. Len(Replaced(job, i, j)) = Len(job) BY <1>1, Changed
  <2>4. ToSet(Replaced(job, i, j)) \subseteq ToSet(job) \cup {j} BY <1>1, Changed
  <2>5. Replaced(job, i, j)[i] = j BY <1>1, Changed
  <2> QED BY <2>1, <2>2, <2>3, <2>4, <2>5
<1>3. Len(job) = 1 => i = 1 BY <1>1
<1>4. job[i] \in ToSet(job) BY Jobs
<1>5. c["B"].status # None BY <1>4, Heard
<1> QED BY <1>2, <1>3, <1>4, <1>5, Jobs

LEMMA PcChange ==
  ASSUME NEW j, JobShape(j), NEW p
  PROVE  /\ [j EXCEPT !.pc = p].pc = p /\ [j EXCEPT !.pc = p].k = j.k
         /\ JobShape([j EXCEPT !.pc = p])
  BY DEF JobShape

LEMMA AcceptStartInv ==
  ASSUME Inv, NEW i \in 1 .. Len(job), AcceptStart(i) PROVE Inv'
<1> DEFINE j == job[i]
           j1 == [j EXCEPT !.pc = "fund"]
           q == [j.k EXCEPT !.status = "Accepting"]
<1>1. /\ j.pc = "start" /\ job' = [job EXCEPT ![i] = j1]
      /\ c' = [c EXCEPT !["B"] = q]
      /\ wires' = wires /\ chain' = chain /\ paid' = paid /\ bound' = bound
  BY DEF AcceptStart, Save
<1>2. JobShape(j) /\ JobFits(j, c["A"]) BY Jobs
<1>3. j1.pc = "fund" /\ j1.k = j.k /\ JobShape(j1) BY <1>2, PcChange
<1>4. DOMAIN q = Fields /\ Same(q, j.k) /\ q.status = "Accepting" BY <1>2, StatusOnly DEF JobShape
<1> HIDE DEF q, j1
<1>5. JobFits(j1, c["A"]) BY <1>2, <1>3 DEF JobFits
<1>6. Mirrors(q, c["A"]) BY <1>2, <1>4, SameContract DEF JobFits
<1>7. /\ IsSeq(job') /\ Len(job') = Len(job)
      /\ \A x \in ToSet(job') : JobShape(x) /\ JobFits(x, c["A"])
      /\ Len(job) = 1 => i = 1 /\ job'[1] = j1
      /\ c["B"].status # None
  BY <1>1, <1>3, <1>5, JobStep
<1>8. DOMAIN c' = Nodes /\ c'["B"] = q /\ c'["A"] = c["A"] BY <1>1, AB DEF Inv, Shapes
<1>9. q.status # None BY <1>4 DEF None
<1>10. Shapes' /\ Terms' /\ Quiet' /\ MirrorImages'
  BY <1>1, <1>4, <1>6, <1>7, <1>8, <1>9, Jobs, Counters, SameMail, AcceptFrame
<1>11. Once'
  <2>1. Mail("A")' = Mail("A") /\ Mail("B")' = Mail("B") /\ FundingTxs' = FundingTxs
    BY <1>1, SameMail DEF FundingTxs
  <2>2. ASSUME Len(job) = 1
        PROVE  Answering /\ job'[1].pc = "fund"
    BY <1>1, <1>3, <1>7, <2>2 DEF Answering
  <2>3. Len(job) # 0 BY Jobs
  <2> QED BY <1>7, <2>1, <2>2, <2>3 DEF Inv, Once, Answering, Answered
<1> QED BY <1>10, <1>11 DEF Inv

LEMMA AcceptFundInv ==
  ASSUME Inv, NEW i \in 1 .. Len(job), AcceptFund(i) PROVE Inv'
<1> DEFINE j == job[i]
<1>1. PICK coin \in Pickable("B", j.k.our) :
        LET k == WithOutpoint(WithKeys(Funded("B", j.k, coin)))
        IN  /\ Save("B", [k EXCEPT !.status = "Accepted"])
            /\ job' = [job EXCEPT ![i] = [pc |-> "send", k |-> k]]
  BY DEF AcceptFund
<1> DEFINE f == WithKeys(Funded("B", j.k, coin))
           k == WithOutpoint(f)
           j1 == [pc |-> "send", k |-> k]
           q == [k EXCEPT !.status = "Accepted"]
<1>2. /\ j.pc = "fund" /\ job' = [job EXCEPT ![i] = j1]
      /\ c' = [c EXCEPT !["B"] = q]
      /\ wires' = wires /\ chain' = chain /\ paid' = paid /\ bound' = bound
  BY <1>1 DEF AcceptFund, Save
<1>3. JobShape(j) /\ JobFits(j, c["A"]) BY Jobs
<1>4. /\ DOMAIN f = Fields /\ f.our = j.k.our /\ f.their = j.k.their
      /\ f.theirIns = j.k.theirIns /\ f.theirPub = j.k.theirPub
      /\ f.theirBase = j.k.theirBase /\ f.theirChange = j.k.theirChange
      /\ f.division = j.k.division
      /\ f.ourPub = Multisig("B") /\ f.ourBase = Payout("B") /\ f.ourPKH = PayoutPKH("B")
  BY <1>3, FieldNames DEF JobShape, WithKeys, Funded, Multisig, Payout, PayoutPKH
<1> HIDE DEF f
<1>5. DOMAIN k = Fields /\ Mirrors(k, c["A"]) /\ Complete(k)
  <2> DEFINE t == BuildDlcFundingTransaction(f)
  <2>1. k = [f EXCEPT !.outpoint = t] BY DEF WithOutpoint
  <2> HIDE DEF t
  <2>2. /\ DOMAIN k = Fields /\ k.outpoint = t
        /\ k.our = f.our /\ k.their = f.their /\ k.division = f.division
        /\ k.ourIns = f.ourIns /\ k.theirIns = f.theirIns
        /\ k.ourChange = f.ourChange /\ k.theirChange = f.theirChange
        /\ k.ourPub = f.ourPub /\ k.theirPub = f.theirPub
        /\ k.ourBase = f.ourBase /\ k.theirBase = f.theirBase
        /\ k.ourPKH = f.ourPKH
    BY <1>4, <2>1, FieldNames
  <2> HIDE DEF k
  <2>3. BuildDlcFundingTransaction(k) = t BY <2>2 DEF BuildDlcFundingTransaction, t
  <2> QED BY <1>3, <1>4, <2>2, <2>3 DEF JobFits, Mirrors, Complete
<1> HIDE DEF k
<1>6. DOMAIN q = Fields /\ Same(q, k) /\ q.status = "Accepted" BY <1>5, StatusOnly
<1>7. j1.pc = "send" /\ j1.k = k /\ JobShape(j1) /\ JobFits(j1, c["A"]) BY <1>5 DEF JobShape, JobFits
<1> HIDE DEF q, j1
<1>8. Mirrors(q, c["A"]) BY <1>5, <1>6, SameContract
<1>9. /\ IsSeq(job') /\ Len(job') = Len(job)
      /\ \A x \in ToSet(job') : JobShape(x) /\ JobFits(x, c["A"])
      /\ Len(job) = 1 => i = 1 /\ job'[1] = j1
      /\ c["B"].status # None
  BY <1>2, <1>7, JobStep
<1>10. DOMAIN c' = Nodes /\ c'["B"] = q /\ c'["A"] = c["A"] BY <1>2, AB DEF Inv, Shapes
<1>11. q.status # None BY <1>6 DEF None
<1>12. Shapes' /\ Terms' /\ Quiet' /\ MirrorImages'
  BY <1>2, <1>6, <1>8, <1>9, <1>10, <1>11, Jobs, Counters, SameMail, AcceptFrame
<1>13. Once'
  <2>1. Mail("A")' = Mail("A") /\ Mail("B")' = Mail("B") /\ FundingTxs' = FundingTxs
    BY <1>2, SameMail DEF FundingTxs
  <2>2. ASSUME Len(job) = 1
        PROVE  Answering /\ job'[1].pc = "send" /\ Same(c'["B"], job'[1].k)
    BY <1>2, <1>6, <1>7, <1>9, <1>10, <2>2 DEF Answering
  <2>3. Len(job) # 0 BY Jobs
  <2> QED BY <1>9, <2>1, <2>2, <2>3 DEF Inv, Once, Answering, Answered
<1> QED BY <1>12, <1>13 DEF Inv

LEMMA AcceptErrorInv ==
  ASSUME Inv, NEW i \in 1 .. Len(job), AcceptError(i) PROVE Inv'
<1> DEFINE j == job[i]
           j1 == [j EXCEPT !.pc = "done"]
           q == [j.k EXCEPT !.status = "Error"]
<1>1. /\ j.pc = "fund" /\ job' = [job EXCEPT ![i] = j1]
      /\ c' = [c EXCEPT !["B"] = q]
      /\ wires' = wires /\ chain' = chain /\ paid' = paid /\ bound' = bound
  BY DEF AcceptError, Save
<1>2. JobShape(j) /\ JobFits(j, c["A"]) BY Jobs
<1>3. j1.pc = "done" /\ j1.k = j.k /\ JobShape(j1) BY <1>2, PcChange
<1>4. DOMAIN q = Fields /\ Same(q, j.k) /\ q.status = "Error" BY <1>2, StatusOnly DEF JobShape
<1> HIDE DEF q, j1
<1>5. JobFits(j1, c["A"]) BY <1>2, <1>3 DEF JobFits
<1>6. Mirrors(q, c["A"]) BY <1>2, <1>4, SameContract DEF JobFits
<1>7. /\ IsSeq(job') /\ Len(job') = Len(job)
      /\ \A x \in ToSet(job') : JobShape(x) /\ JobFits(x, c["A"])
      /\ Len(job) = 1 => i = 1 /\ job'[1] = j1
      /\ c["B"].status # None
  BY <1>1, <1>3, <1>5, JobStep
<1>8. DOMAIN c' = Nodes /\ c'["B"] = q /\ c'["A"] = c["A"] BY <1>1, AB DEF Inv, Shapes
<1>9. q.status # None BY <1>4 DEF None
<1>10. Shapes' /\ Terms' /\ Quiet' /\ MirrorImages'
  BY <1>1, <1>4, <1>6, <1>7, <1>8, <1>9, Jobs, Counters, SameMail, AcceptFrame
<1>11. Once'
  <2>1. Mail("A")' = Mail("A") /\ Mail("B")' = Mail("B") /\ FundingTxs' = FundingTxs
    BY <1>1, SameMail DEF FundingTxs
  <2>2. ASSUME Len(job) = 1
        PROVE  Answering /\ job'[1].pc = "done"
    BY <1>1, <1>3, <1>7, <2>2 DEF Answering
  <2>3. Len(job) # 0 BY Jobs
  <2>4. Len(job) = 1 => /\ \A m \in Mail("A") : m.type = "decline"
                        /\ \A m \in Mail("B") : m.type = "offer"
                        /\ FundingTxs = {}
    BY <2>2 DEF Inv, Once
  <2> QED BY <1>7, <2>1, <2>2, <2>3, <2>4 DEF Once, Answering, Answered
<1> QED BY <1>10, <1>11 DEF Inv

LEMMA AcceptSendInv ==
  ASSUME Inv, NEW i \in 1 .. Len(job), AcceptSend(i) PROVE Inv'
<1> DEFINE j == job[i]
           j1 == [j EXCEPT !.pc = "done"]
           m == [type |-> "accept", k |-> j.k, sigs |-> SignSettlementDivisions(j.k)]
<1>1. /\ j.pc = "send" /\ job' = [job EXCEPT ![i] = j1] /\ Send("B", m)
      /\ c' = c /\ chain' = chain /\ paid' = paid /\ bound' = bound
  BY DEF AcceptSend
<1>2. JobShape(j) /\ JobFits(j, c["A"]) BY Jobs
<1>3. j1.pc = "done" /\ j1.k = j.k /\ JobShape(j1) BY <1>2, PcChange
<1>4. m.type = "accept" /\ m.k = j.k /\ m.sigs = SignSettlementDivisions(j.k) OBVIOUS
<1> HIDE DEF j1, m
<1>5. JobFits(j1, c["A"]) BY <1>2, <1>3 DEF JobFits
<1>6. AcceptFits(m, c["A"]) BY <1>1, <1>2, <1>4 DEF AcceptFits, JobFits, JobShape
<1>7. /\ IsSeq(job') /\ Len(job') = Len(job)
      /\ \A x \in ToSet(job') : JobShape(x) /\ JobFits(x, c["A"])
      /\ Len(job) = 1 => i = 1 /\ job'[1] = j1
      /\ c["B"].status # None
  BY <1>1, <1>3, <1>5, JobStep
<1>8. /\ DOMAIN wires' = Nodes /\ \A p \in Nodes : IsSeq(wires'[p])
      /\ Mail("B")' = Mail("B") /\ Mail("A")' \subseteq Mail("A") \cup {m}
  BY <1>1, AB, SendEffect DEF Inv
<1>9. \A x \in Mail("A")' : x \in Mail("A") \/ AcceptFits(x, c["A"]) BY <1>6, <1>8
<1>10. DOMAIN c' = Nodes /\ DOMAIN c'["B"] = Fields /\ Mirrors(c["B"], c["A"])
  BY <1>1, <1>7, AB DEF Inv, Shapes, MirrorImages
<1>11. Shapes' /\ Terms' /\ Quiet' /\ MirrorImages'
  BY <1>1, <1>7, <1>8, <1>9, <1>10, Jobs, Counters, AcceptFrame
<1>12. Once'
  <2>1. FundingTxs' = FundingTxs BY <1>1 DEF FundingTxs
  <2>2. Len(job) # 0 BY Jobs
  <2>3. ASSUME Len(job) = 1
        PROVE  /\ job'[1].pc = "done" /\ FundingTxs = {}
               /\ \A x \in Mail("A")' : x.type = "decline" \/ (x.type = "accept" /\ Same(x.k, c["B"]))
               /\ \A x \in Mail("B") : x.type = "offer"
    <3>1. i = 1 /\ job'[1] = j1 BY <1>7, <2>3
    <3>2. Answering BY <1>1, <2>3, <3>1 DEF Answering
    <3>3. Same(c["B"], j.k) BY <1>1, <2>3, <3>1 DEF Inv, Once
    <3>4. Same(m.k, c["B"]) BY <1>4, <3>3, SameBothWays
    <3>5. /\ \A x \in Mail("A") : x.type = "decline"
          /\ \A x \in Mail("B") : x.type = "offer"
          /\ FundingTxs = {}
      BY <3>2 DEF Inv, Once
    <3>6. \A x \in Mail("A")' : x \in Mail("A") \/ x = m BY <1>8
    <3> QED BY <1>3, <1>4, <3>1, <3>4, <3>5, <3>6
  <2>4. CASE Len(job) = 1 BY <1>1, <1>7, <1>8, <2>1, <2>3, <2>4 DEF Once, Answering, Answered
  <2>5. CASE Len(job) # 1 BY <1>7, <2>2, <2>5 DEF Once, Answering, Answered
  <2> QED BY <2>4, <2>5
<1> QED BY <1>11, <1>12 DEF Inv

-----------------------------------------------------------------------------
(* A learns that the offer was accepted.                                   *)

Acknowledged(k, m) == [AcceptedContract(k, m) EXCEPT !.status = "Acknowledged"]

AcceptedFrom(q, k, m) ==
  /\ DOMAIN q = Fields /\ q.status = "Acknowledged"
  /\ q.our = k.our /\ q.their = k.their /\ q.division = k.division
  /\ q.ourIns = k.ourIns /\ q.ourChange = k.ourChange
  /\ q.ourPub = k.ourPub /\ q.ourBase = k.ourBase
  /\ q.theirIns = m.k.ourIns /\ q.theirChange = m.k.ourChange
  /\ q.theirPub = m.k.ourPub /\ q.theirBase = m.k.ourBase /\ q.theirPKH = m.k.ourPKH
  /\ q.sigs = m.sigs /\ q.outpoint = BuildDlcFundingTransaction(q)

LEMMA AcceptedFields ==
  ASSUME NEW k, DOMAIN k = Fields, NEW m
  PROVE  AcceptedFrom(Acknowledged(k, m), k, m)
<1> DEFINE f == [k EXCEPT
     !.theirChange = m.k.ourChange, !.theirIns = m.k.ourIns, !.sigs = m.sigs,
     !.theirPub = m.k.ourPub, !.theirBase = m.k.ourBase, !.theirPKH = m.k.ourPKH]
<1>1. /\ DOMAIN f = Fields
      /\ f.our = k.our /\ f.their = k.their /\ f.division = k.division
      /\ f.ourIns = k.ourIns /\ f.ourChange = k.ourChange
      /\ f.ourPub = k.ourPub /\ f.ourBase = k.ourBase
      /\ f.theirIns = m.k.ourIns /\ f.theirChange = m.k.ourChange
      /\ f.theirPub = m.k.ourPub /\ f.theirBase = m.k.ourBase /\ f.theirPKH = m.k.ourPKH
      /\ f.sigs = m.sigs
  BY FieldNames
<1>2. AcceptedContract(k, m) = WithOutpoint(f) BY DEF AcceptedContract
<1> HIDE DEF f
<1> DEFINE t == BuildDlcFundingTransaction(f)
           w == [f EXCEPT !.outpoint = t]
           q == Acknowledged(k, m)
<1>3. AcceptedContract(k, m) = w BY <1>2 DEF WithOutpoint
<1> HIDE DEF t
<1>4. q = [w EXCEPT !.status = "Acknowledged"] BY <1>3 DEF Acknowledged
<1>5. /\ DOMAIN q = Fields /\ q.status = "Acknowledged" /\ q.outpoint = t
      /\ q.our = f.our /\ q.their = f.their /\ q.division = f.division
      /\ q.ourIns = f.ourIns /\ q.theirIns = f.theirIns
      /\ q.ourChange = f.ourChange /\ q.theirChange = f.theirChange
      /\ q.ourPub = f.ourPub /\ q.theirPub = f.theirPub
      /\ q.ourBase = f.ourBase /\ q.theirBase = f.theirBase
      /\ q.theirPKH = f.theirPKH /\ q.sigs = f.sigs
  BY <1>1, <1>4, FieldNames
<1> HIDE DEF q
<1>6. BuildDlcFundingTransaction(q) = t BY <1>5 DEF BuildDlcFundingTransaction, t
<1> QED BY <1>1, <1>5, <1>6 DEF AcceptedFrom, q

LEMMA DlcAcceptHandlerInv ==
  ASSUME Inv, DlcAcceptHandler PROVE Inv'
<1> DEFINE a == c["A"]
           b == c["B"]
           m == Head(wires["A"])
           q == Acknowledged(a, m)
<1>1. /\ wires["A"] # <<>> /\ m.type = "accept" /\ Reply("A", << [type |-> "ack"] >>)
      /\ c' = [c EXCEPT !["A"] = q]
      /\ job' = job /\ chain' = chain /\ paid' = paid /\ bound' = bound
  BY DEF DlcAcceptHandler, Handle, Save, Rest, Acknowledged
<1>2. /\ DOMAIN wires' = Nodes /\ \A p \in Nodes : IsSeq(wires'[p])
      /\ m \in Mail("A")
      /\ Mail("A")' \subseteq Mail("A") /\ Mail("B")' \subseteq Mail("B") \cup {[type |-> "ack"]}
  BY <1>1, AB, ReplyEffect, Single DEF Inv
<1> HIDE DEF m
<1>3. DOMAIN a = Fields /\ DOMAIN c = Nodes /\ DOMAIN b = Fields BY AB DEF Inv, Shapes
<1>4. /\ DOMAIN q = Fields /\ q.status = "Acknowledged"
      /\ q.our = a.our /\ q.their = a.their /\ q.division = a.division
      /\ q.ourIns = a.ourIns /\ q.ourChange = a.ourChange
      /\ q.ourPub = a.ourPub /\ q.ourBase = a.ourBase
      /\ q.theirIns = m.k.ourIns /\ q.theirChange = m.k.ourChange
      /\ q.theirPub = m.k.ourPub /\ q.theirBase = m.k.ourBase /\ q.theirPKH = m.k.ourPKH
      /\ q.sigs = m.sigs /\ q.outpoint = BuildDlcFundingTransaction(q)
  <2>1. AcceptedFrom(q, a, m) BY <1>3, AcceptedFields
  <2> HIDE DEF q
  <2> QED BY <2>1 DEF AcceptedFrom
<1> HIDE DEF q
<1>5. /\ Mirrors(m.k, a) /\ Complete(m.k) /\ m.sigs = SignSettlementDivisions(m.k)
  BY <1>1, <1>2 DEF Inv, MirrorImages
<1>6. b.status # None /\ Offered BY <1>2, Heard
<1>7. a.our \in Nat /\ a.their \in Nat /\ Drawn(a) /\ a.ourBase = Payout("A")
  BY <1>6 DEF Inv, Terms, Offered, NoKey, Multisig
<1>8. \A x : Mirrors(x, q) <=> Mirrors(x, a) BY <1>4 DEF Mirrors
<1>9. m.k.outpoint = q.outpoint
  <2>1. BuildDlcFundingTransaction(m.k) = BuildDlcFundingTransaction(q)
    BY <1>4, <1>5, <1>7, <1>8, SameTransaction
  <2> QED BY <1>4, <1>5, <2>1 DEF Complete
<1>10. q.sigs = [i \in DOMAIN q.division |-> PeerSigned(q, i)]
  BY <1>4, <1>5, <1>7, <1>8, <1>9, SameSettlements
<1>11. /\ DOMAIN c' = Nodes /\ c'["A"] = q /\ c'["B"] = b /\ \A p \in Nodes : DOMAIN c'[p] = Fields
  BY <1>1, <1>3, <1>4, AB DEF Nodes
<1>12. Settlements' = Settlements /\ FundingTxs' = FundingTxs BY <1>1 DEF Settlements, FundingTxs
<1>13. Shapes' BY <1>1, <1>2, <1>11, <1>12 DEF Inv, Shapes
<1>14. Offered' BY <1>4, <1>6, <1>11 DEF Offered
<1>15. Terms'
  <2>1. Drawn(q) BY <1>4, <1>7 DEF Drawn
  <2>2. q.status \notin {None, "Draft"} BY <1>4 DEF None
  <2>3. q.theirPub = Multisig("B") /\ q.theirPKH = PayoutPKH("B") BY <1>4, <1>5 DEF Complete
  <2> QED BY <1>4, <1>7, <1>10, <1>11, <1>14, <2>1, <2>2, <2>3 DEF Terms
<1>16. Quiet' BY <1>6, <1>11 DEF Quiet
<1>17. MirrorImages'
  <2>1. /\ Mirrors(b, a)
        /\ \A j \in ToSet(job) :
             /\ j.pc \in {"start", "fund", "send", "done"}
             /\ Mirrors(j.k, a)
             /\ j.pc = "send" => Complete(j.k)
    BY <1>6 DEF Inv, MirrorImages
  <2>2. \A x \in Mail("B")' : x.type \in {"ack", "proof"}
    <3>1. \A x \in Mail("B") : x.type \in {"ack", "proof"} BY <1>6 DEF Inv, MirrorImages
    <3> QED BY <1>2, <3>1
  <2>3. \A x \in Mail("A")' :
          /\ x.type \in {"decline", "accept", "sigs"}
          /\ x.type = "accept" =>
               /\ DOMAIN x.k = Fields /\ Mirrors(x.k, a) /\ Complete(x.k)
               /\ x.sigs = SignSettlementDivisions(x.k)
          /\ x.type = "sigs" => "ins" \in DOMAIN x.tx /\ "spends" \notin DOMAIN x.tx
    BY <1>2 DEF Inv, MirrorImages
  <2> QED BY <1>1, <1>8, <1>11, <1>14, <2>1, <2>2, <2>3 DEF MirrorImages
<1>18. Once'
  <2>1. ~Answering BY <1>1, <1>2 DEF Inv, Once
  <2>2. ASSUME Answered PROVE Matched' /\ q.outpoint = b.outpoint
    <3>1. Same(m.k, b) BY <1>1, <1>2, <2>2 DEF Inv, Once
    <3>2. BuildDlcFundingTransaction(m.k) = BuildDlcFundingTransaction(b) BY <3>1, SameContract
    <3>3. b.outpoint = q.outpoint /\ b.outpoint = BuildDlcFundingTransaction(b)
      BY <1>5, <1>9, <3>1, <3>2 DEF Same, Complete
    <3>4. b.ourPub = Multisig("B") /\ q.theirPub = Multisig("B")
      BY <1>4, <1>5, <3>1 DEF Same, Complete
    <3>5. q.ourPub = Multisig("A") /\ b.theirPub = Multisig("A")
      BY <1>4, <1>5, <1>6, <3>1 DEF Same, Mirrors, Offered
    <3> QED BY <1>4, <1>11, <3>3, <3>4, <3>5 DEF Matched
  <2>3. ASSUME Answered
        PROVE  /\ \A x \in Mail("A") :
                    /\ x.type = "accept" => Same(x.k, b)
                    /\ x.type = "sigs" => x.tx = b.outpoint
               /\ \A tx \in FundingTxs : tx = b.outpoint
    BY <2>3 DEF Inv, Once
  <2>4. (Answered' <=> Answered) /\ (Answering' <=> Answering) BY <1>1 DEF Answered, Answering
  <2>5. ASSUME Answered
        PROVE  /\ \A x \in Mail("A")' :
                    /\ x.type = "accept" => Same(x.k, b)
                    /\ x.type = "sigs" => Matched' /\ x.tx = b.outpoint
               /\ \A x \in Mail("B")' : x.type = "ack" => Matched'
               /\ \A tx \in FundingTxs' : Matched' /\ tx = b.outpoint
    BY <1>2, <1>12, <2>2, <2>3, <2>5
  <2>6. ~(Len(job) = 1 /\ job[1].pc = "send") BY <2>1 DEF Answering
  <2> QED BY <1>1, <1>11, <2>1, <2>4, <2>5, <2>6 DEF Once
<1> QED BY <1>13, <1>15, <1>16, <1>17, <1>18 DEF Inv

-----------------------------------------------------------------------------
(* The invariant.                                                          *)

LEMMA InitInv == DInit => Inv
<1> SUFFICES ASSUME DInit PROVE Inv
  OBVIOUS
<1>1. /\ c = [n \in Nodes |-> NewContract] /\ job = <<>> /\ wires = [n \in Nodes |-> <<>>]
      /\ chain = {} /\ paid = [n \in Nodes |-> 0]
      /\ bound = [accept |-> 0, settle |-> 0, spend |-> 0, drop |-> 0]
  BY DEF DInit
<1>2. c["A"] = NewContract /\ c["B"] = NewContract BY <1>1, AB
<1>3. /\ IsSeq(job) /\ ToSet(job) = {} /\ Len(job) = 0
      /\ \A n \in Nodes : wires[n] = <<>> /\ IsSeq(wires[n]) /\ Mail(n) = {} /\ Len(wires[n]) = 0
  BY <1>1, NothingYet DEF Mail
<1>4. Settlements = {} /\ FundingTxs = {} BY <1>1 DEF Settlements, FundingTxs
<1>5. Shapes BY <1>1, <1>3, <1>4 DEF Shapes, Fields
<1>6. /\ NewContract.status = None /\ NewContract.our = 0 /\ NewContract.their = 0
      /\ NewContract.division = NoDivision /\ NewContract.ourPub = NoKey
      /\ NewContract.outpoint = NoTx
  BY DEF NewContract
<1>7. Terms BY <1>2, <1>6 DEF Terms, Drawn
<1>8. Quiet BY <1>1, <1>2, <1>3, <1>6, AB DEF Quiet
<1>9. MirrorImages BY <1>2, <1>3, <1>6, AB DEF MirrorImages
<1>10. Once BY <1>3, <1>4, AB DEF Once, Answered
<1> QED BY <1>5, <1>7, <1>8, <1>9, <1>10 DEF Inv

LEMMA StutterInv ==
  ASSUME Inv, UNCHANGED dvars PROVE Inv'
<1>1. c' = c /\ job' = job /\ wires' = wires /\ chain' = chain /\ paid' = paid /\ bound' = bound
  BY DEF dvars
<1> QED BY <1>1, SameContracts, SameMail, Counters, QuietSurroundings, Frame

LEMMA StepInv ==
  ASSUME Inv, [DNext]_dvars PROVE Inv'
<1>1. CASE Drafting BY <1>1, DraftingInv
<1>2. CASE OfferDlc BY <1>2, OfferDlcInv
<1>3. CASE DeclineDlc BY <1>3, DeclineDlcInv
<1>4. CASE AcceptDlc BY <1>4, AcceptDlcInv
<1>5. CASE Handling
  BY <1>5, DlcOfferHandlerInv, DlcDeclineHandlerInv, DlcAcceptHandlerInv, DlcContractAckHandlerInv,
     AckRefusedInv, DlcFundingSigsHandlerInv, DlcSigProofHandlerInv DEF Handling
<1>6. CASE Accepting
  BY <1>6, AcceptStartInv, AcceptFundInv, AcceptErrorInv, AcceptSendInv DEF Accepting
<1>7. CASE Reporting BY <1>7, MinedInv, HandleContractOPEventInv DEF Reporting
<1>8. CASE \E n \in Nodes, i \in Outcomes : SettleContract(n, i) BY <1>8, SettleContractInv
<1>9. CASE \E n \in Nodes : SpendElsewhere(n) BY <1>9, SpendElsewhereInv
<1>10. CASE Disconnect BY <1>10, DisconnectInv
<1>11. CASE Reconnect BY <1>11, ReconnectInv
<1>12. CASE UNCHANGED dvars BY <1>12, StutterInv
<1> QED BY <1>1, <1>2, <1>3, <1>4, <1>5, <1>6, <1>7, <1>8, <1>9, <1>10, <1>11, <1>12 DEF DNext

(* At every moment the contracts, the copies, the messages and the chain   *)
(* fit together as Inv says.                                               *)
THEOREM Invariance == DSpec => []Inv
<1>1. DInit => Inv BY InitInv
<1>2. Inv /\ [DNext]_dvars => Inv' BY StepInv
<1> QED BY <1>1, <1>2, PTL DEF DSpec

-----------------------------------------------------------------------------
(* The theorems.                                                           *)

LEMMA TwoKeys == Cardinality({Multisig("A"), Multisig("B")}) = 2
<1>1. Multisig("A") # Multisig("B") BY DEF Multisig
<1>2. IsFiniteSet({Multisig("A")}) /\ Cardinality({Multisig("A")}) = 1 BY FS_Singleton
<1>3. {Multisig("A"), Multisig("B")} = {Multisig("A")} \cup {Multisig("B")} OBVIOUS
<1>4. Multisig("B") \notin {Multisig("A")} BY <1>1
<1> QED BY <1>2, <1>3, <1>4, FS_AddElement

(* A funding transaction in the chain, after one acceptance, is the one    *)
(* both databases have, with both keys and stakes and the right change.    *)
THEOREM FundingIsAgreed == DSpec => []DlcAgreed
<1>1. Inv => DlcAgreed
  <2> SUFFICES ASSUME Inv, NEW tx \in FundingTxs, bound.accept = 1
               PROVE  /\ \A n \in Nodes : c[n].outpoint = tx /\ c[n].ourPub \in tx.keys
                      /\ tx.value = c["A"].our + c["B"].our /\ Cardinality(tx.keys) = 2
                      /\ \A n \in Nodes : <<InputTotal(c[n].ourIns) - c[n].our - FeeUnit, c[n].ourChange>> \in tx.outs
    BY DEF DlcAgreed
  <2> DEFINE a == c["A"]
             b == c["B"]
  <2>1. Len(job) = 1 BY Jobs
  <2>2. Answered BY <2>1 DEF Inv, Once, Answering, Answered
  <2>3. Matched /\ tx = b.outpoint BY <2>2 DEF Inv, Once
  <2>4. /\ a.outpoint = tx /\ tx = BuildDlcFundingTransaction(a) /\ tx = BuildDlcFundingTransaction(b)
        /\ b.ourPub = Multisig("B") /\ a.ourPub = Multisig("A") /\ a.theirPub = Multisig("B")
    BY <2>3 DEF Matched
  <2>5. tx \in chain BY DEF FundingTxs
  <2>6. b.our = a.their BY <2>5, Heard DEF Inv, MirrorImages, Mirrors
  <2>7. tx.keys = {Multisig("A"), Multisig("B")} /\ tx.value = a.our + a.their
    BY <2>4 DEF BuildDlcFundingTransaction
  <2>8. <<InputTotal(a.ourIns) - a.our - FeeUnit, a.ourChange>> \in tx.outs
    BY <2>4 DEF BuildDlcFundingTransaction
  <2>9. <<InputTotal(b.ourIns) - b.our - FeeUnit, b.ourChange>> \in tx.outs
    <3>1. tx = BuildDlcFundingTransaction(b) BY <2>4
    <3> HIDE DEF b
    <3> QED BY <3>1 DEF BuildDlcFundingTransaction
  <2> QED BY <2>3, <2>4, <2>6, <2>7, <2>8, <2>9, TwoKeys DEF Nodes
<1> QED BY <1>1, Invariance, PTL

(* Two outputs that hold something are both kept.                          *)
LEMMA BothKept ==
  ASSUME NEW o, NEW p, o.value \in Int, p.value \in Int, o.value > 0, p.value > 0
  PROVE  Paying(o) \o Paying(p) = <<o, p>>
<1>1. Paying(o) = <<o>> /\ Paying(p) = <<p>> BY DEF Paying
<1>2. <<o>> \in Seq({o, p}) /\ <<p>> \in Seq({o, p}) OBVIOUS
<1> DEFINE s == <<o>> \o <<p>>
<1>3. /\ s \in Seq({o, p}) /\ Len(s) = 2
      /\ s[1] = o /\ s[2] = p
  <2>1. Len(<<o>>) = 1 /\ Len(<<p>>) = 1 /\ <<o>>[1] = o /\ <<p>>[1] = p OBVIOUS
  <2>2. /\ s \in Seq({o, p}) /\ Len(s) = Len(<<o>>) + Len(<<p>>)
        /\ \A i \in 1 .. Len(<<o>>) + Len(<<p>>) :
             s[i] = IF i <= Len(<<o>>) THEN <<o>>[i] ELSE <<p>>[i - Len(<<o>>)]
    BY <1>2, ConcatProperties
  <2> HIDE DEF s
  <2> QED BY <2>1, <2>2
<1> HIDE DEF s
<1>4. s = <<o, p>> BY <1>3
<1> QED BY <1>1, <1>4 DEF s

(* A drawn division holds what the range gives, or one more or less        *)
(* inside the range.                                                       *)
LEMMA DrawnShare ==
  ASSUME NEW k, k.our \in Nat, k.their \in Nat, NEW r \in Ranges,
         k.division = LinearDivision(r[1], r[2], k.our + k.their),
         NEW i \in DOMAIN k.division
  PROVE  /\ DOMAIN k.division = DOMAIN LinearDivision(r[1], r[2], 0)
         /\ \E off \in {-1, 0, 1} :
              k.division[i] = Share(k, i, r) + off /\ (Between(i, r) \/ off = 0)
<1>1. r[1] \in Nat /\ r[2] \in Nat /\ r[1] # r[2] BY DlcAssumption
<1> DEFINE lo == IF r[2] > r[1] THEN r[1] ELSE r[2]
           hi == IF r[2] > r[1] THEN r[2] ELSE r[1]
           w == hi - lo
           t == k.our + k.their
           asc == (t * (i - r[2])) \div w
           desc == (t * (i - r[1])) \div w
<1>2. DOMAIN k.division = (IF lo < w THEN 0 ELSE lo - w) .. hi + w
  BY DEF LinearDivision
<1>3. DOMAIN k.division = DOMAIN LinearDivision(r[1], r[2], 0) BY DEF LinearDivision
<1>4. k.division[i] = IF r[1] > r[2]
                      THEN IF i >= r[1] THEN t
                           ELSE IF i <= r[2] THEN 0 ELSE Cut(t, w, i - r[2])
                      ELSE IF i <= r[1] THEN t
                           ELSE IF i >= r[2] THEN 0 ELSE t - Cut(t, w, i - r[1])
  BY <1>2 DEF LinearDivision
<1>5. i \in Int BY <1>1, <1>2
<1>6. Share(k, i, r) =
        IF r[1] > r[2]
        THEN IF i <= r[2] THEN 0 ELSE IF i >= r[1] THEN t ELSE (t * (i - r[2])) \div (r[1] - r[2])
        ELSE t - (IF i <= r[1] THEN 0 ELSE IF i >= r[2] THEN t ELSE (t * (i - r[1])) \div (r[2] - r[1]))
  BY DEF Share
<1>7. /\ t \in Nat /\ w \in Nat \ {0}
      /\ i - r[2] \in Int /\ i - r[1] \in Int
  <2>1. t \in Nat OBVIOUS
  <2>2. w \in Nat \ {0}
    <3>1. CASE r[2] > r[1] BY <1>1, <3>1
    <3>2. CASE ~(r[2] > r[1])
      <4>1. r[1] > r[2] BY <1>1, <3>2
      <4> QED BY <1>1, <3>2, <4>1
    <3> QED BY <3>1, <3>2
  <2> HIDE DEF t, w
  <2> QED BY <1>1, <1>5, <2>1, <2>2
<1>8. PICK u \in {-1, 0, 1} : Cut(t, w, i - r[2]) = asc + u BY <1>7, CutNear
<1>9. PICK d \in {-1, 0, 1} : Cut(t, w, i - r[1]) = desc + d BY <1>7, CutNear
<1>10. asc \in Int /\ desc \in Int
  <2>1. t * (i - r[2]) \in Int /\ t * (i - r[1]) \in Int BY <1>7
  <2> HIDE DEF t, w
  <2> QED BY <1>7, <2>1
<1>11. CASE r[1] > r[2]
  <2>1. w = r[1] - r[2] BY <1>1, <1>11
  <2>2. Share(k, i, r) = IF i <= r[2] THEN 0 ELSE IF i >= r[1] THEN t ELSE asc BY <1>6, <1>11, <2>1
  <2> HIDE DEF w, t, asc, desc
  <2>3. CASE r[2] < i /\ i < r[1]
    <3>1. k.division[i] = Share(k, i, r) + u BY <1>1, <1>4, <1>5, <1>8, <1>11, <2>2, <2>3
    <3>2. Between(i, r) BY <2>3 DEF Between
    <3> QED BY <1>3, <3>1, <3>2
  <2>4. CASE ~(r[2] < i /\ i < r[1])
    <3>1. k.division[i] = Share(k, i, r) + 0 BY <1>1, <1>4, <1>5, <1>7, <1>11, <2>2, <2>4
    <3> QED BY <1>3, <3>1
  <2> QED BY <2>3, <2>4
<1>12. CASE ~(r[1] > r[2])
  <2>1. w = r[2] - r[1] /\ r[1] < r[2] BY <1>1, <1>12
  <2>2. Share(k, i, r) = t - (IF i <= r[1] THEN 0 ELSE IF i >= r[2] THEN t ELSE desc)
    BY <1>6, <1>12, <2>1
  <2> HIDE DEF w, t, asc, desc
  <2>3. CASE r[1] < i /\ i < r[2]
    <3>1. k.division[i] = Share(k, i, r) + (-d)
      BY <1>1, <1>4, <1>5, <1>7, <1>9, <1>10, <1>12, <2>1, <2>2, <2>3
    <3>2. Between(i, r) BY <2>3 DEF Between
    <3>3. -d \in {-1, 0, 1} OBVIOUS
    <3> QED BY <1>3, <3>1, <3>2, <3>3
  <2>4. CASE ~(r[1] < i /\ i < r[2])
    <3>1. k.division[i] = Share(k, i, r) + 0 BY <1>1, <1>4, <1>5, <1>7, <1>12, <2>1, <2>2, <2>4
    <3> QED BY <1>3, <3>1
  <2> QED BY <2>3, <2>4
<1> QED BY <1>11, <1>12

(* Where both sides are left something, the settlement the offerer makes   *)
(* is the one its peer signed.                                             *)
LEMMA Settlement ==
  ASSUME NEW k, NEW i, NEW x \in Int, NEW total \in Int,
         k.our \in Int, k.their \in Int,
         k.division[i] = x, k.our + k.their = total,
         x > 2 * FeeUnit, total - x > FeeUnit
  PROVE  LET own == DlcOutput(k.ourBase, k.theirBase, i, x - FeeUnit)
             their == PkhOutput(k.theirPKH, total - x - FeeUnit)
         IN  /\ SettlementTx(k, i, FALSE) = [spends |-> k.outpoint, outs |-> <<own, their>>]
             /\ PeerSigned(k, i) = SettlementTx(k, i, FALSE)
<1> DEFINE own == DlcOutput(k.ourBase, k.theirBase, i, x - FeeUnit)
           their == PkhOutput(k.theirPKH, total - x - FeeUnit)
           v == SettlementValues(x, total)
           w == SettlementValues(total - x, total)
<1>1. FeeUnit \in Nat \ {0} BY DlcAssumption
<1>2. v.ours = x - FeeUnit /\ v.theirs = total - x - FeeUnit BY <1>1 DEF SettlementValues
<1>3. w.ours = total - x - FeeUnit /\ w.theirs = x - FeeUnit BY <1>1 DEF SettlementValues
<1>4. own.value = x - FeeUnit /\ their.value = total - x - FeeUnit BY DEF DlcOutput, PkhOutput
<1>5. own.value \in Int /\ their.value \in Int /\ own.value > 0 /\ their.value > 0 BY <1>1, <1>4
<1> HIDE DEF v, w
<1>6. SettlementTx(k, i, FALSE) = [spends |-> k.outpoint, outs |-> Paying(own) \o Paying(their)]
  BY <1>2 DEF SettlementTx, v
<1>7. PeerSigned(k, i) = [spends |-> k.outpoint, outs |-> Paying(own) \o Paying(their)]
  <2>1. SettlementValues(k.our + k.their - k.division[i], k.our + k.their) = w
    <3>1. k.our + k.their - k.division[i] = total - x OBVIOUS
    <3> QED BY <3>1 DEF w
  <2> QED BY <1>3, <2>1 DEF PeerSigned
<1> HIDE DEF own, their
<1>8. Paying(own) \o Paying(their) = <<own, their>> BY <1>5, BothKept
<1> QED BY <1>6, <1>7, <1>8 DEF own, their

(* A settlement of a funded contract that leaves both sides more than the  *)
(* fees is valid and pays each side its share of the range, but for the    *)
(* one satoshi that the division in floating point may move between them.  *)
THEOREM SettledAsDrawn == DSpec => SettlesAsDrawn
<1> DEFINE P(i) == \E r \in Ranges, off \in {-1, 0, 1} :
            LET share == Share(c["A"], i, r) + off IN
            /\ Between(i, r) \/ off = 0
            /\ DOMAIN c["A"].division = DOMAIN LinearDivision(r[1], r[2], 0)
            /\ paid'["A"] = paid["A"] + share - 2 * FeeUnit
            /\ \E tx \in chain' \ chain :
                 \E o \in ToSet(tx.outs) :
                    /\ o.to = <<"B", "payoutPKH">>
                    /\ o.value = c["A"].our + c["A"].their - share - FeeUnit
           A == \A i \in Outcomes :
                  /\ Settles(i)
                  /\ c["A"].division[i] > 2 * FeeUnit
                  /\ c["A"].our + c["A"].their - c["A"].division[i] > FeeUnit
                  => P(i)
<1>1. Inv /\ [DNext]_dvars => [A]_dvars
  <2> SUFFICES ASSUME Inv, NEW i \in Outcomes, Settles(i),
                      c["A"].division[i] > 2 * FeeUnit,
                      c["A"].our + c["A"].their - c["A"].division[i] > FeeUnit
               PROVE  P(i)
    OBVIOUS
  <2> DEFINE k == c["A"]
             x == k.division[i]
             total == k.our + k.their
             tx == SettlementTx(k, i, FALSE)
             own == DlcOutput(k.ourBase, k.theirBase, i, x - FeeUnit)
             their == PkhOutput(k.theirPKH, total - x - FeeUnit)
  <2>1. /\ k.outpoint \in chain /\ ~Settled(k.outpoint) /\ i \in DOMAIN k.division
        /\ SettleContract("A", i)
    BY DEF Settles
  <2>2. k.our \in Nat /\ k.their \in Nat /\ Drawn(k) BY DEF Inv, Terms
  <2>3. x \in Int BY <2>1, <2>2, DrawnNumbers
  <2>4. k.outpoint # NoTx BY <2>1 DEF Inv, Shapes
  <2>5. k.theirPKH = PayoutPKH("B") /\ k.sigs = [z \in DOMAIN k.division |-> PeerSigned(k, z)]
    BY <2>4 DEF Inv, Terms
  <2>6. total \in Int BY <2>2
  <2>7. /\ tx = [spends |-> k.outpoint, outs |-> <<own, their>>]
        /\ PeerSigned(k, i) = tx
    <3>1. x > 2 * FeeUnit OBVIOUS
    <3>2. total - x > FeeUnit
      <4>1. k.our + k.their - x > FeeUnit OBVIOUS
      <4>2. total - x = k.our + k.their - x
        <5>1. k.our \in Int /\ k.their \in Int BY <2>2
        <5> HIDE DEF k, x
        <5> QED BY <2>3, <5>1
      <4> QED BY <4>1, <4>2
    <3>3. k.our \in Int /\ k.their \in Int /\ k.division[i] = x /\ k.our + k.their = total BY <2>2
    <3> HIDE DEF k, x, total
    <3> QED BY <2>3, <2>6, <3>1, <3>2, <3>3, Settlement DEF tx, own, their
  <2>8. tx.spends = k.outpoint /\ tx.outs = <<own, their>> /\ DOMAIN tx = {"spends", "outs"}
    <3>1. tx = [spends |-> k.outpoint, outs |-> <<own, their>>] BY <2>7
    <3> HIDE DEF tx, k, own, their
    <3> QED BY <3>1
  <2>9. own.to = <<k.ourBase, i, k.theirBase>> /\ their.to = PayoutPKH("B") /\ their.value = total - x - FeeUnit
    BY <2>5 DEF DlcOutput, PkhOutput
  <2> HIDE DEF tx, own, their
  <2>10. i \in DOMAIN k.sigs /\ k.sigs[i] = tx BY <2>1, <2>5, <2>7
  <2>11. SettleValid(k, i, tx) BY <2>1, <2>10 DEF SettleValid
  <2>12. /\ chain' = chain \cup {tx} /\ paid' = [paid EXCEPT !["A"] = paid["A"] + ClaimOf(k, i, tx)]
    BY <2>1, <2>11 DEF SettleContract, tx
  <2>13. tx \notin chain
    <3> SUFFICES ASSUME tx \in chain PROVE FALSE
      OBVIOUS
    <3>1. tx \in Settlements BY <2>8 DEF Settlements
    <3> QED BY <2>1, <2>8, <3>1 DEF Settled
  <2>14. tx.outs # <<>> /\ tx.outs[1] = own /\ their \in ToSet(tx.outs) BY <2>8 DEF ToSet
  <2>15. ClaimOf(k, i, tx) = x - 2 * FeeUnit BY <2>9, <2>14 DEF ClaimOf
  <2>16. FeeUnit \in Int BY DlcAssumption
  <2>17. paid'["A"] = paid["A"] + x - 2 * FeeUnit
    <3>1. paid \in [Nodes -> Int] BY Counters
    <3>2. paid'["A"] = paid["A"] + ClaimOf(k, i, tx) BY <2>12, <3>1, AB
    <3>3. paid["A"] \in Int BY <3>1, AB
    <3> QED BY <2>3, <2>15, <2>16, <3>2, <3>3
  <2>18. PICK r \in Ranges : k.division = LinearDivision(r[1], r[2], k.our + k.their)
    BY <2>1, <2>2 DEF Drawn, NoDivision
  <2>19. PICK off \in {-1, 0, 1} :
           /\ DOMAIN k.division = DOMAIN LinearDivision(r[1], r[2], 0)
           /\ x = Share(k, i, r) + off
           /\ Between(i, r) \/ off = 0
    <3> HIDE DEF k, x
    <3>1. k.division[i] = x BY DEF x
    <3> QED BY <2>1, <2>2, <2>18, <3>1, DrawnShare
  <2> DEFINE share == Share(k, i, r) + off
  <2>24. x = share BY <2>19
  <2> HIDE DEF share
  <2>20. tx \in chain' \ chain BY <2>12, <2>13
  <2> HIDE DEF x, total
  <2>21. their.to = <<"B", "payoutPKH">> BY <2>9 DEF PayoutPKH
  <2>22. their.value = k.our + k.their - share - FeeUnit
    <3>1. k.our + k.their - x - FeeUnit = total - x - FeeUnit
      <4>1. total = k.our + k.their BY DEF total
      <4>2. k.our \in Int /\ k.their \in Int BY <2>2
      <4> HIDE DEF k
      <4> QED BY <2>3, <2>16, <4>1, <4>2
    <3> QED BY <2>9, <2>24, <3>1
  <2>23. paid'["A"] = paid["A"] + share - 2 * FeeUnit BY <2>17, <2>24
  <2> QED BY <2>14, <2>19, <2>20, <2>21, <2>22, <2>23 DEF share
<1>2. DSpec => []Inv BY Invariance
<1>3. DSpec => [][DNext]_dvars BY PTL DEF DSpec
<1>4. SettlesAsDrawn <=> [][A]_dvars BY DEF SettlesAsDrawn
<1> HIDE DEF A
<1> QED BY <1>1, <1>2, <1>3, <1>4, PTL
=============================================================================
