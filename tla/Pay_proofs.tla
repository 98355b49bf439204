----------------------------- MODULE Pay_proofs -----------------------------
(***************************************************************************)
(* Proofs about Pay, for routes of every length, any amounts, capacities,  *)
(* lock times and delays that leave the margin of a hop, and any number of *)
(* payments, blocks, crashes and broken channels.                          *)
(*                                                                         *)
(* What is passed on along the route for a hash is one thing at a time at  *)
(* each node: a message, a goroutine that will offer, or an HTLC.  So an   *)
(* HTLC is never written over, and the preimage and the expiry can be      *)
(* followed from channel to channel.                                       *)
(***************************************************************************)
EXTENDS Pay, SequenceTheorems, FiniteSetTheorems, WellFoundedInduction, TLAPS

EntryType == [amt : Nat, hash : Hash \cup {NoHash}, pre : BOOLEAN, ok : BOOLEAN]
Message == [type : {"Request"}] \cup [type : {"Ack", "Setup"}, hash : Hash]
HtlcType == [st : {"none", "locked", "paid", "refunded"}, amt : Nat, lock : Nat]
Offer == [kind : {"offer"}, born : Nat, hash : Hash, amt : Nat, lock : Nat]
Claim == [kind : {"claim"}, born : Nat, hash : Hash]

Types ==
  /\ inprog \in [Node -> Seq(EntryType)]
  /\ net \in [Node -> Seq(Message)]
  /\ task \in [Node -> SUBSET (Offer \cup Claim)]
  /\ htlc \in [Chan -> [Hash -> HtlcType]]
  /\ chan \in [Chan -> {"open", "failed", "closed"}]
  /\ conn \in [Chan -> BOOLEAN]
  /\ height \in [Node -> 0 .. MaxHeight]
  /\ tick \in [Node -> BOOLEAN]
  /\ drawn \in 0 .. MaxPay
  /\ faults \in [crash : 0 .. MaxCrash, break : 0 .. MaxBreak]

(* The wallets stay together; one that has just seen a block is not behind *)
(* by all it may be.                                                       *)
Clocks ==
  \A n, m \in Node :
    /\ height[m] <= height[n] + Skew
    /\ tick[n] => height[m] < height[n] + Skew

(* What carries hash k at node n: the message that tells it to go on, the  *)
(* goroutine that will offer, the HTLC offered.                            *)
Told(n, j, k) == j \in 1 .. Len(net[n]) /\ net[n][j].type \in {"Ack", "Setup"} /\ net[n][j].hash = k
Offers(n, t, k) == t \in task[n] /\ t.kind = "offer" /\ t.hash = k
Made(n, k) == htlc[n][k].st # "none"
Begun(n, k) == IF n = 1 THEN k <= drawn ELSE Made(n - 1, k)

Once(n, k) ==
  /\ \A j : Told(n, j, k) => /\ Begun(n, k) /\ ~Made(n, k)
                             /\ \A t : ~Offers(n, t, k)
                             /\ \A i : Told(n, i, k) => i = j
  /\ \A t : Offers(n, t, k) => /\ Begun(n, k) /\ ~Made(n, k)
                               /\ \A u : Offers(n, u, k) => u = t
  /\ Made(n, k) => Begun(n, k)

OneAtATime == \A n \in Chan, k \in Hash : Once(n, k)

Latest == MaxHeight + N * (DefaultLockTime + Leeway)

(* An offer that waits has been there for Slack blocks at the most, leaves *)
(* the node the margin of a hop, and the incoming HTLC is still there.     *)
OfferFits(n, t) ==
  /\ n \in Chan
  /\ t.born <= height[n] /\ height[n] <= t.born + Slack
  /\ t.born + DefaultLockTime <= t.lock /\ t.lock <= Latest
  /\ n > 1 => LET in == htlc[n - 1][t.hash] IN
                /\ in.st = "locked"
                /\ t.lock + DefaultLockTime <= in.lock /\ t.born + 2 * DefaultLockTime <= in.lock

(* An HTLC expires a margin before the one that pays for it.  Each crash   *)
(* may make its node miss one block.                                       *)
LockFits(n, k) ==
  LET out == htlc[n][k] IN
    Made(n, k) =>
      /\ DefaultLockTime <= out.lock /\ out.lock <= Latest
      /\ n > 1 => out.lock + DefaultLockTime <= htlc[n - 1][k].lock
      /\ out.st = "locked" /\ <<n, k>> \notin dropped =>
           /\ height[n] <= out.lock + faults.crash
           /\ ~tick[n] => height[n] < out.lock + faults.crash

Paid(n, k) == htlc[n][k].st = "paid"
TakenBack(k) == htlc[1][k].st = "refunded"

(* A node that claims has been paid for; so have all after it.  It claims  *)
(* before the node before it can take the money back.                      *)
ClaimFits(n, t) ==
  n < N =>
    /\ Paid(n, t.hash)
    /\ t.born <= height[n] /\ height[n] <= t.born + Slack
    /\ <<n, t.hash>> \notin dropped =>
         /\ t.born <= htlc[n][t.hash].lock + MaxCrash
         /\ \A m \in Node : height[m] < htlc[n][t.hash].lock + MaxCrash + Slack + Skew

Tasks == \A n \in Node : \A t \in task[n] : IF t.kind = "offer" THEN OfferFits(n, t) ELSE ClaimFits(n, t)

Locks == \A n \in Chan, k \in Hash : LockFits(n, k)

Downstream == \A n, m \in Chan, k \in Hash : n <= m /\ Paid(n, k) => Paid(m, k)

(* The payments a node remembers.                                          *)
Entries ==
  \A n \in Node : \A j \in DOMAIN inprog[n] :
    LET e == inprog[n][j] IN
      /\ n < N /\ e.pre => e.hash # NoHash /\ Paid(n, e.hash)
      /\ n = 1 /\ e.ok /\ ~e.pre => e.hash # NoHash /\ TakenBack(e.hash)

(* A hop that has been paid for, or can still be, gets its money.          *)
Hop(n, k) ==
  <<n, k>> \notin dropped =>
    /\ Paid(n, k) => \/ Paid(n - 1, k)
                     \/ /\ htlc[n - 1][k].st = "locked"
                        /\ \E t \in task[n] : t.kind = "claim" /\ t.hash = k
    /\ htlc[n][k].st = "locked" => htlc[n - 1][k].st # "refunded"

Hops == \A n \in 2 .. N - 1, k \in Hash : Hop(n, k)

Inv == Types /\ Clocks /\ OneAtATime /\ Locks /\ Tasks /\ Downstream /\ Entries /\ Hops

-----------------------------------------------------------------------------
(* Finite sets and least elements.                                         *)

LEMMA Least ==
  ASSUME NEW S \in SUBSET Nat, S # {}
  PROVE  \E x \in S : \A y \in S : x <= y
<1>1. \E x \in S : \A y \in S : ~ (<<y, x>> \in OpToRel(<, Nat))
  BY NatLessThanWellFounded, WFMin
<1>2. ASSUME NEW x \in S, NEW y \in S, y < x PROVE <<y, x>> \in OpToRel(<, Nat)
  BY <1>2 DEF OpToRel
<1>3. ASSUME NEW x \in S, NEW y \in S, ~ (y < x) PROVE x <= y
  BY <1>3
<1> QED BY <1>1, <1>2, <1>3

(* Every position up to the number of its elements is the rank of one      *)
(* element of a set of positions.                                          *)
LEMMA Ranked ==
  ASSUME NEW l \in Nat, NEW at \in SUBSET (1 .. l), NEW i \in 1 .. Cardinality(at)
  PROVE  \E j \in at : Cardinality({x \in at : x <= j}) = i
<1> DEFINE Below(j) == {x \in at : x <= j}
           rank(j) == Cardinality(Below(j))
           S == {j \in 0 .. l : i <= rank(j)}
<1>1. IsFiniteSet(at)
  <2>1. IsFiniteSet(1 .. l) BY FS_Interval
  <2> QED BY <2>1, FS_Subset
<1>0. \A x \in at : x \in Nat /\ 1 <= x /\ x <= l
  OBVIOUS
<1>2. Below(l) = at
  BY <1>0
<1>3. Below(0) = {}
  <2>1. \A x \in at : ~ (x <= 0) BY <1>0
  <2> QED BY <2>1
<1>4. ASSUME NEW j \in 1 .. l
      PROVE  Below(j) = IF j \in at THEN Below(j - 1) \cup {j} ELSE Below(j - 1)
  <2>1. \A x \in at : x <= j <=> x <= j - 1 \/ x = j
    BY <1>0
  <2>2. CASE j \in at
    BY <2>1, <2>2
  <2>3. CASE j \notin at
    BY <2>1, <2>3
  <2> QED BY <2>2, <2>3
<1>5. \A j \in 1 .. l : j \notin Below(j - 1)
  OBVIOUS
<1>6. \A j \in 0 .. l : Below(j) \subseteq at
  OBVIOUS
<1> HIDE DEF Below
<1>7. \A j \in 0 .. l : IsFiniteSet(Below(j)) /\ rank(j) \in Nat
  BY <1>1, <1>6, FS_Subset, FS_CardinalityType
<1>8. rank(0) = 0 /\ i <= rank(l)
  BY <1>2, <1>3, FS_EmptySet, <1>1, FS_CardinalityType
<1>9. ASSUME NEW j \in 1 .. l PROVE rank(j) = IF j \in at THEN rank(j - 1) + 1 ELSE rank(j - 1)
  <2>1. j - 1 \in 0 .. l OBVIOUS
  <2>2. IsFiniteSet(Below(j - 1)) /\ j \notin Below(j - 1) BY <2>1, <1>7, <1>5
  <2>3. CASE j \in at
    BY <2>2, <2>3, <1>4, FS_AddElement
  <2>4. CASE j \notin at
    BY <2>4, <1>4
  <2> QED BY <2>3, <2>4
<1> HIDE DEF rank
<1>10. PICK j \in S : \A y \in S : j <= y
  <2>1. S \in SUBSET Nat /\ S # {} BY <1>8
  <2> HIDE DEF S
  <2> QED BY <2>1, Least
<1>11. j \in 1 .. l /\ i <= rank(j) /\ j - 1 \notin S
  BY <1>10, <1>8
<1>12. rank(j - 1) < i
  BY <1>11, <1>7
<1>13. j \in at /\ rank(j) = i
  BY <1>9, <1>11, <1>12, <1>7
<1> QED BY <1>13 DEF rank, Below

(* A restart finds entries it had before.                                  *)
LEMMA SavedEntries ==
  ASSUME NEW S, NEW s \in Seq(S)
  PROVE  /\ Saved(s) \in Seq(S)
         /\ \A i \in DOMAIN Saved(s) : \E j \in DOMAIN s : Saved(s)[i] = s[j]
<1> DEFINE at == {j \in DOMAIN s : s[j].hash # NoHash}
<1> DEFINE nth(i) == CHOOSE j \in at : Cardinality({x \in at : x <= j}) = i
<1> DEFINE q == [i \in 1 .. Cardinality(at) |-> s[nth(i)]]
<1>1. Len(s) \in Nat /\ DOMAIN s = 1 .. Len(s) /\ s \in [1 .. Len(s) -> S]
  BY LenProperties
<1>2. at \in SUBSET (1 .. Len(s)) BY <1>1
<1>3. IsFiniteSet(at) /\ Cardinality(at) \in Nat
  <2>1. IsFiniteSet(1 .. Len(s)) BY <1>1, FS_Interval
  <2> QED BY <2>1, <1>2, FS_Subset, FS_CardinalityType
<1>4. ASSUME NEW i \in 1 .. Cardinality(at) PROVE nth(i) \in at
  <2>1. \E j \in at : Cardinality({x \in at : x <= j}) = i
    <3> HIDE DEF at
    <3> QED BY <1>1, <1>2, Ranked
  <2> QED BY <2>1
<1>5. Saved(s) = q BY DEF Saved
<1> HIDE DEF nth
<1>6. \A i \in 1 .. Cardinality(at) : nth(i) \in DOMAIN s /\ s[nth(i)] \in S
  BY <1>4, <1>1
<1> DEFINE c == Cardinality(at)
<1>7. q \in [1 .. c -> S] /\ DOMAIN q = 1 .. c /\ \A i \in 1 .. c : q[i] = s[nth(i)]
  BY <1>6
<1>8. q \in Seq(S)
  <2> HIDE DEF q
  <2>1. c \in Nat BY <1>3
  <2> HIDE DEF c
  <2> QED BY <2>1, <1>7, SeqDef
<1> QED BY <1>5, <1>6, <1>7, <1>8

-----------------------------------------------------------------------------
(* Messages.                                                               *)

LEMMA NoOutput == \A p \in Node : Nothing[p] = <<>>
BY DEF Nothing

LEMMA OneOutput ==
  ASSUME NEW m \in Node, NEW msg
  PROVE  \A p \in Node : To(m, msg)[p] = IF p = m THEN <<msg>> ELSE <<>>
BY DEF To, Nothing

(* A handler takes its message and leaves the other queues alone.          *)
LEMMA Taken ==
  ASSUME net \in [Node -> Seq(Message)], NEW n \in Node, net[n] # <<>>, Consume(n, Nothing)
  PROVE  /\ net' \in [Node -> Seq(Message)]
         /\ net'[n] = Tail(net[n])
         /\ \A p \in Node \ {n} : net'[p] = net[p]
<1>1. Tail(net[n]) \in Seq(Message)
  BY HeadTailProperties
<1>2. \A p \in Node : net'[p] = IF p = n THEN Tail(net[p]) ELSE net[p]
  <2> SUFFICES ASSUME NEW p \in Node PROVE net'[p] = IF p = n THEN Tail(net[p]) ELSE net[p]
    OBVIOUS
  <2>1. net'[p] = (IF p = n THEN Tail(net[p]) ELSE net[p]) \o Nothing[p]
    BY DEF Consume
  <2> QED BY <2>1, <1>1, NoOutput, ConcatEmptySeq
<1>3. net' = [p \in Node |-> net'[p]]
  BY DEF Consume
<1> QED BY <1>1, <1>2, <1>3

(* ... except for the one it answers to.                                   *)
LEMMA Answered ==
  ASSUME net \in [Node -> Seq(Message)], NEW n \in Node, net[n] # <<>>,
         NEW m \in Node, m # n, NEW msg \in Message, Consume(n, To(m, msg))
  PROVE  /\ net' \in [Node -> Seq(Message)]
         /\ net'[n] = Tail(net[n])
         /\ net'[m] = Append(net[m], msg)
         /\ \A p \in Node \ {n, m} : net'[p] = net[p]
<1>1. Tail(net[n]) \in Seq(Message) /\ Append(net[m], msg) \in Seq(Message)
  BY HeadTailProperties, AppendProperties
<1>2. \A p \in Node : net'[p] = (IF p = n THEN Tail(net[p]) ELSE net[p])
                                   \o (IF p = m THEN <<msg>> ELSE <<>>)
  BY OneOutput DEF Consume
<1>3. net'[m] = Append(net[m], msg)
  <2>1. net'[m] = net[m] \o <<msg>> BY <1>2
  <2> QED BY <2>1, AppendIsConcat
<1>4. net'[n] = Tail(net[n])
  <2>1. net'[n] = Tail(net[n]) \o <<>> BY <1>2
  <2> QED BY <2>1, <1>1, ConcatEmptySeq
<1>5. \A p \in Node \ {n, m} : net'[p] = net[p]
  <2> SUFFICES ASSUME NEW p \in Node \ {n, m} PROVE net'[p] = net[p]
    OBVIOUS
  <2>1. net'[p] = net[p] \o <<>> BY <1>2
  <2> QED BY <2>1, ConcatEmptySeq
<1>6. net' = [p \in Node |-> net'[p]]
  BY DEF Consume
<1>7. \A p \in Node : net'[p] \in Seq(Message)
  BY <1>1, <1>3, <1>4, <1>5
<1> QED BY <1>3, <1>4, <1>5, <1>6, <1>7

(* What tells a node about k after its queue has moved on or grown.        *)
LEMMA ToldTail ==
  ASSUME net \in [Node -> Seq(Message)], NEW n \in Node, net[n] # <<>>,
         net'[n] = Tail(net[n]), NEW k, NEW j, Told(n, j, k)'
  PROVE  Told(n, j + 1, k)
<1>1. Len(Tail(net[n])) = Len(net[n]) - 1 /\ Len(net[n]) \in Nat
      /\ \A i \in 1 .. Len(Tail(net[n])) : Tail(net[n])[i] = net[n][i + 1]
  BY HeadTailProperties, LenProperties
<1> QED BY <1>1 DEF Told

LEMMA ToldAppend ==
  ASSUME net \in [Node -> Seq(Message)], NEW n \in Node, NEW msg \in Message,
         net'[n] = Append(net[n], msg), NEW k, NEW j, Told(n, j, k)'
  PROVE  \/ Told(n, j, k)
         \/ j = Len(net[n]) + 1 /\ msg.type \in {"Ack", "Setup"} /\ msg.hash = k
<1>1. Len(net[n]) \in Nat /\ Len(Append(net[n], msg)) = Len(net[n]) + 1
      /\ (\A i \in 1 .. Len(net[n]) : Append(net[n], msg)[i] = net[n][i])
      /\ Append(net[n], msg)[Len(net[n]) + 1] = msg
  BY AppendProperties, LenProperties
<1> QED BY <1>1 DEF Told

LEMMA ToldSame ==
  ASSUME NEW n, net'[n] = net[n], NEW k, NEW j
  PROVE  Told(n, j, k)' <=> Told(n, j, k)
BY DEF Told

(* The message a handler takes.                                            *)
LEMMA HeadTold ==
  ASSUME net \in [Node -> Seq(Message)], NEW n \in Node, NEW type \in {"Ack", "Setup"},
         Receiving(n, type)
  PROVE  Head(net[n]).hash \in Hash /\ Told(n, 1, Head(net[n]).hash)
<1>1. net[n] # <<>> /\ Head(net[n]).type = type
  BY DEF Receiving
<1>2. Head(net[n]) \in Message /\ Len(net[n]) \in Nat /\ Len(net[n]) # 0 /\ Head(net[n]) = net[n][1]
  BY <1>1, HeadTailProperties, LenProperties, EmptySeq
<1>3. Head(net[n]).hash \in Hash
  BY <1>1, <1>2 DEF Message
<1> QED BY <1>1, <1>2, <1>3 DEF Told

-----------------------------------------------------------------------------
(* Lock times.                                                             *)

LEMMA Constants ==
  /\ N \in Nat /\ N >= 3
  /\ DefaultLockTime \in Nat /\ Leeway \in Nat /\ Slack \in Nat /\ Skew \in Nat /\ Wrap \in Nat
  /\ MaxPay \in Nat /\ MaxHeight \in Nat /\ MaxCrash \in Nat /\ MaxBreak \in Nat
  /\ Slack < DefaultLockTime /\ Slack + Skew + MaxCrash <= DefaultLockTime
  /\ MaxHeight + N * (DefaultLockTime + Leeway) < Wrap
BY PayAssumption

LEMMA Margins ==
  /\ DefaultLockTime \in Nat /\ Slack \in Nat /\ Skew \in Nat /\ MaxCrash \in Nat
  /\ Slack < DefaultLockTime /\ Slack + Skew + MaxCrash <= DefaultLockTime
BY Constants

LEMMA ChanNumbers ==
  /\ \A n \in Chan : /\ n \in Int /\ n >= 1 /\ n <= N - 1
                     /\ n # n + 1 /\ n + 1 # 1 /\ (n + 1) - 1 = n /\ n - 1 # n
  /\ \A n \in Node : n \in Int /\ n >= 1 /\ n <= N
  /\ N \in Int /\ N >= 3
BY Constants DEF Chan, Node

LEMMA LatestFits ==
  /\ Latest \in Nat /\ Latest < Wrap
  /\ MaxHeight + 3 * DefaultLockTime <= Latest
<1> DEFINE d == DefaultLockTime + Leeway
<1>1. d \in Nat /\ DefaultLockTime <= d BY Constants
<1>2. N * d \in Nat /\ 3 * d <= N * d
  <2> HIDE DEF d
  <2> QED BY <1>1, Constants
<1>3. Latest = MaxHeight + N * d BY DEF Latest
<1> HIDE DEF d
<1>4. MaxHeight + N * d < Wrap BY Constants DEF d
<1> DEFINE p == N * d
<1> HIDE DEF p
<1> QED BY <1>1, <1>2, <1>3, <1>4, Constants DEF p

LEMMA FirstFits ==
  ASSUME NEW h \in 0 .. MaxHeight
  PROVE  /\ FirstLocktime(h) \in Nat
         /\ h + DefaultLockTime <= FirstLocktime(h) /\ FirstLocktime(h) <= Latest
<1> DEFINE p == N * (DefaultLockTime + Leeway)
<1>1. p \in Nat /\ DefaultLockTime <= p
  <2> DEFINE d == DefaultLockTime + Leeway
  <2>1. d \in Nat /\ DefaultLockTime <= d BY Constants
  <2>2. p = N * d OBVIOUS
  <2> HIDE DEF d, p
  <2>3. N * d \in Nat /\ d <= N * d BY <2>1, Constants
  <2> QED BY <2>1, <2>2, <2>3, Constants
<1>2. FirstLocktime(h) = h + p /\ Latest = MaxHeight + p
  BY DEF FirstLocktime, Latest
<1> HIDE DEF p
<1> QED BY <1>1, <1>2, Constants

(* A hop that does not find the incoming HTLC too close takes a margin for *)
(* itself and leaves one to the next hop; nothing wraps around.            *)
LEMMA NextFits ==
  ASSUME NEW h \in 0 .. MaxHeight, NEW lock \in Nat,
         DefaultLockTime <= lock, lock <= Latest, ~TooClose(lock, h)
  PROVE  /\ NextLocktime(lock, h) \in Nat
         /\ h + DefaultLockTime <= NextLocktime(lock, h)
         /\ NextLocktime(lock, h) + DefaultLockTime <= lock
<1> DEFINE D == DefaultLockTime
<1>0. D \in Nat /\ D > 0 /\ Wrap \in Nat /\ lock < Wrap /\ h \in Nat /\ h + D < Wrap
  BY Constants, LatestFits
<1>1. (lock - D) % Wrap = lock - D /\ (h + D) % Wrap = h + D
  BY <1>0
<1>2. h + 2 * D <= lock
  BY <1>0, <1>1 DEF TooClose
<1> DEFINE q == (lock - h) \div D
<1>3. (lock - h) % Wrap = lock - h
  BY <1>0, <1>2
<1>4. q \in Nat /\ q * D <= lock - h /\ lock - h < q * D + D
  BY <1>0, <1>2
<1>5. q >= 2
  BY <1>4, <1>2, <1>0
<1> DEFINE x == (q - 1) * D + h
<1>6. x \in Nat /\ x + D <= lock /\ h + D <= x
  <2>1. (q - 1) * D = q * D - D /\ q * D \in Nat /\ q * D >= 2 * D
    <3> HIDE DEF q, D
    <3> QED BY <1>0, <1>5, <1>4
  <2> HIDE DEF q, D
  <2> QED BY <2>1, <1>0, <1>4
<1>7. x % Wrap = x
  <2> HIDE DEF x
  <2> QED BY <1>6, <1>0
<1>8. NextLocktime(lock, h) = x
  BY <1>3, <1>7 DEF NextLocktime
<1> HIDE DEF x
<1> QED BY <1>6, <1>8

-----------------------------------------------------------------------------
(* What a step keeps of each part of the invariant.                        *)

LEMMA OnceKept ==
  ASSUME NEW n, NEW k, NEW d \in Nat, Once(n, k), net'[n] \in Seq(Message),
         \A j : Told(n, j, k)' => Told(n, j + d, k),
         \A t : Offers(n, t, k)' => Offers(n, t, k),
         Made(n, k)' => Made(n, k),
         Begun(n, k) => Begun(n, k)'
  PROVE  Once(n, k)'
<1>1. Len(net'[n]) \in Nat
  BY LenProperties
<1>2. \A j : Told(n, j, k)' => j \in Nat
  BY <1>1 DEF Told
<1>3. ASSUME NEW j, Told(n, j, k)'
      PROVE  /\ Begun(n, k)' /\ ~Made(n, k)'
             /\ \A t : ~Offers(n, t, k)'
             /\ \A i : Told(n, i, k)' => i = j
  <2>1. Told(n, j + d, k) BY <1>3
  <2>2. Begun(n, k) /\ ~Made(n, k) /\ \A t : ~Offers(n, t, k) BY <2>1 DEF Once
  <2>3. ASSUME NEW i, Told(n, i, k)' PROVE i = j
    <3>1. Told(n, i + d, k) BY <2>3
    <3>2. i + d = j + d BY <2>1, <3>1 DEF Once
    <3>3. i \in Nat /\ j \in Nat BY <1>2, <1>3, <2>3
    <3> QED BY <3>2, <3>3
  <2> QED BY <2>2, <2>3
<1>4. ASSUME NEW t, Offers(n, t, k)'
      PROVE  Begun(n, k)' /\ ~Made(n, k)' /\ \A u : Offers(n, u, k)' => u = t
  <2>1. Offers(n, t, k) BY <1>4
  <2> QED BY <2>1 DEF Once
<1>5. Made(n, k)' => Begun(n, k)'
  BY DEF Once
<1> QED BY <1>3, <1>4, <1>5 DEF Once

LEMMA OnceSame ==
  ASSUME NEW n, NEW k, Once(n, k), net'[n] \in Seq(Message),
         \A j : Told(n, j, k)' => Told(n, j, k),
         \A t : Offers(n, t, k)' => Offers(n, t, k),
         Made(n, k)' => Made(n, k),
         Begun(n, k) => Begun(n, k)'
  PROVE  Once(n, k)'
<1>1. \A j : Told(n, j, k)' => j \in Nat BY LenProperties DEF Told
<1>2. \A j \in Nat : j + 0 = j OBVIOUS
<1>3. \A j : Told(n, j, k)' => Told(n, j + 0, k) BY <1>1, <1>2
<1> QED BY <1>3, OnceKept

LEMMA HtlcFields ==
  ASSUME Types, NEW n \in Chan, NEW k \in Hash
  PROVE  /\ htlc[n][k] \in HtlcType
         /\ htlc[n][k].st \in {"none", "locked", "paid", "refunded"}
         /\ htlc[n][k].amt \in Nat /\ htlc[n][k].lock \in Nat
<1>1. htlc[n][k] \in HtlcType BY DEF Types
<1> QED BY <1>1 DEF HtlcType

LEMMA Numbers ==
  ASSUME Types
  PROVE  /\ \A n \in Node : height[n] \in Nat /\ height[n] <= MaxHeight
         /\ faults.crash \in Nat /\ faults.crash <= MaxCrash
         /\ faults.break \in Nat
         /\ \A n \in Node : tick[n] \in BOOLEAN
         /\ drawn \in Nat /\ drawn <= MaxPay
BY Constants DEF Types

LEMMA Channels ==
  /\ \A n \in Chan : n \in Node /\ n + 1 \in Node /\ n # N /\ n < N
  /\ \A n \in Node : n > 1 => n - 1 \in Chan /\ n - 1 \in Node /\ n - 1 # n
  /\ \A n \in Node : n < N => n \in Chan
  /\ \A n \in Node : n = N \/ n \in Chan
  /\ \A n \in Node : n = 1 \/ n > 1
  /\ \A n \in 2 .. N - 1 : n \in Chan /\ n \in Node /\ n > 1 /\ n < N /\ n - 1 \in Chan
  /\ 1 \in Node /\ N \in Node /\ 1 \in Chan /\ N - 1 \in Chan /\ 1 # N /\ N \notin Chan
BY Constants DEF Node, Chan

LEMMA TaskFields ==
  ASSUME Types, NEW n \in Node, NEW t \in task[n]
  PROVE  /\ t.born \in Nat /\ t.hash \in Hash
         /\ t.kind = "offer" \/ t.kind = "claim"
         /\ t.kind = "offer" => t \in Offer /\ t.amt \in Nat /\ t.lock \in Nat
         /\ t.kind = "claim" => t \in Claim
<1>1. t \in Offer \/ t \in Claim
  BY DEF Types
<1> QED BY <1>1 DEF Offer, Claim

LEMMA ClocksKept ==
  ASSUME Clocks, height' = height, \A n \in Node : tick'[n] => tick[n]
  PROVE  Clocks'
BY DEF Clocks

LEMMA LockKept ==
  ASSUME Types, Types', NEW n \in Chan, NEW k \in Hash, LockFits(n, k),
         Made(n, k)' => Made(n, k),
         htlc'[n][k].lock = htlc[n][k].lock,
         n > 1 => htlc'[n - 1][k].lock = htlc[n - 1][k].lock,
         htlc'[n][k].st = "locked" => htlc[n][k].st = "locked",
         dropped \subseteq dropped', height'[n] = height[n],
         faults.crash <= faults'.crash,
         ~tick'[n] => ~tick[n] \/ faults.crash < faults'.crash
  PROVE  LockFits(n, k)'
<1> DEFINE c == faults.crash
           d == faults'.crash
           h == height[n]
           l == htlc[n][k].lock
<1>1. c \in Nat /\ d \in Nat /\ h \in Nat /\ l \in Nat /\ c <= d
  <2>1. n \in Node BY Channels
  <2>2. c \in Nat /\ h \in Nat /\ l \in Nat BY <2>1, Numbers, HtlcFields
  <2>3. d \in Nat BY Constants DEF Types
  <2> QED BY <2>2, <2>3
<1>2. Made(n, k)' =>
        /\ DefaultLockTime <= l /\ l <= Latest
        /\ n > 1 => l + DefaultLockTime <= htlc[n - 1][k].lock
  BY DEF LockFits
<1>3. htlc'[n][k].st = "locked" /\ <<n, k>> \notin dropped' =>
        h <= l + d /\ (~tick'[n] => h < l + d)
  <2> SUFFICES ASSUME htlc'[n][k].st = "locked", <<n, k>> \notin dropped'
               PROVE  h <= l + d /\ (~tick'[n] => h < l + d)
    OBVIOUS
  <2>1. htlc[n][k].st = "locked" /\ <<n, k>> \notin dropped /\ Made(n, k)
    BY DEF Made
  <2>2. h <= l + c /\ (~tick[n] => h < l + c)
    BY <2>1 DEF LockFits
  <2>3. ~tick'[n] => ~tick[n] \/ c < d
    OBVIOUS
  <2> HIDE DEF c, d, h, l
  <2> QED BY <2>2, <2>3, <1>1
<1> QED BY <1>2, <1>3 DEF LockFits

LEMMA OfferKept ==
  ASSUME NEW n, NEW t, OfferFits(n, t), height'[n] = height[n],
         n > 1 => /\ htlc'[n - 1][t.hash].st = "locked"
                  /\ htlc'[n - 1][t.hash].lock = htlc[n - 1][t.hash].lock
  PROVE  OfferFits(n, t)'
BY DEF OfferFits

LEMMA ClaimKept ==
  ASSUME NEW n, NEW t, ClaimFits(n, t), height' = height, dropped \subseteq dropped',
         n < N => Paid(n, t.hash)' /\ htlc'[n][t.hash].lock = htlc[n][t.hash].lock
  PROVE  ClaimFits(n, t)'
BY DEF ClaimFits

(* The parts that only need the HTLCs, the preimages and the claims.       *)
LEMMA DownstreamKept ==
  ASSUME Downstream, htlc' = htlc
  PROVE  Downstream'
BY DEF Downstream, Paid

LEMMA HopKept ==
  ASSUME NEW n, NEW k, Hop(n, k), htlc' = htlc, dropped \subseteq dropped',
         <<n, k>> \notin dropped' =>
           \A t \in task[n] : t.kind = "claim" /\ t.hash = k => t \in task'[n]
  PROVE  Hop(n, k)'
<1> SUFFICES ASSUME <<n, k>> \notin dropped'
             PROVE  /\ Paid(n, k)' => \/ Paid(n - 1, k)'
                                      \/ /\ htlc'[n - 1][k].st = "locked"
                                         /\ \E t \in task'[n] : t.kind = "claim" /\ t.hash = k
                    /\ htlc'[n][k].st = "locked" => htlc'[n - 1][k].st # "refunded"
  BY DEF Hop
<1>1. <<n, k>> \notin dropped OBVIOUS
<1>2. htlc[n][k].st = "locked" => htlc[n - 1][k].st # "refunded"
  BY <1>1 DEF Hop
<1>3. ASSUME Paid(n, k), ~Paid(n - 1, k)
      PROVE  htlc[n - 1][k].st = "locked" /\ \E t \in task'[n] : t.kind = "claim" /\ t.hash = k
  BY <1>1, <1>3 DEF Hop
<1> QED BY <1>2, <1>3 DEF Paid

EntryFits(n, e) ==
  /\ n < N /\ e.pre => e.hash # NoHash /\ Paid(n, e.hash)
  /\ n = 1 /\ e.ok /\ ~e.pre => e.hash # NoHash /\ TakenBack(e.hash)

(* A step that changes no HTLC: what is left to show of it is that a hash  *)
(* still has one carrier, that the new goroutines fit and that the         *)
(* payments a node remembers do.                                           *)
LEMMA NoHtlcStep ==
  ASSUME Inv, Types', htlc' = htlc, height' = height, dropped \subseteq dropped',
         faults.crash <= faults'.crash,
         \A n \in Node : tick'[n] = tick[n] \/ (~tick'[n] /\ faults.crash < faults'.crash),
         \A n \in Node : \A t \in task'[n] :
           t \in task[n] \/ (IF t.kind = "offer" THEN OfferFits(n, t) ELSE ClaimFits(n, t)),
         \A n \in Node, k \in Hash : <<n, k>> \notin dropped' =>
           \A t \in task[n] : t.kind = "claim" /\ t.hash = k => t \in task'[n],
         OneAtATime',
         \A n \in Node : \A j \in DOMAIN inprog'[n] :
           (\E i \in DOMAIN inprog[n] : inprog'[n][j] = inprog[n][i]) \/ EntryFits(n, inprog'[n][j])
  PROVE  Inv'
<1>1. Types /\ Clocks /\ OneAtATime /\ Locks /\ Tasks /\ Downstream /\ Entries /\ Hops
  BY DEF Inv
<1>2. Clocks' BY <1>1, ClocksKept
<1>3. Locks'
  <2> SUFFICES ASSUME NEW n \in Chan, NEW k \in Hash PROVE LockFits(n, k)'
    BY DEF Locks
  <2>1. LockFits(n, k) /\ n \in Node BY <1>1, Channels DEF Locks
  <2>2. Made(n, k)' => Made(n, k) BY DEF Made
  <2> QED BY <1>1, <2>1, <2>2, LockKept
<1>4. Tasks'
  <2> SUFFICES ASSUME NEW n \in Node, NEW t \in task'[n]
               PROVE  IF t.kind = "offer" THEN OfferFits(n, t)' ELSE ClaimFits(n, t)'
    BY DEF Tasks
  <2>1. IF t.kind = "offer" THEN OfferFits(n, t) ELSE ClaimFits(n, t)
    BY Zenon, <1>1 DEF Tasks
  <2>2. ASSUME OfferFits(n, t) PROVE OfferFits(n, t)'
    <3>1. n > 1 => htlc[n - 1][t.hash].st = "locked"
      BY <2>2 DEF OfferFits
    <3> QED BY <3>1, <2>2, OfferKept
  <2>3. ASSUME ClaimFits(n, t) PROVE ClaimFits(n, t)'
    <3>1. n < N => Paid(n, t.hash)' BY <2>3 DEF ClaimFits, Paid
    <3> QED BY <3>1, <2>3, ClaimKept
  <2> QED BY <2>1, <2>2, <2>3
<1>5. Downstream' BY <1>1, DownstreamKept
<1>6. Entries'
  <2> SUFFICES ASSUME NEW n \in Node, NEW j \in DOMAIN inprog'[n]
               PROVE  EntryFits(n, inprog[n][j])'
    BY DEF Entries, EntryFits
  <2>1. ASSUME NEW i \in DOMAIN inprog[n], inprog'[n][j] = inprog[n][i]
        PROVE  EntryFits(n, inprog'[n][j])
    BY <2>1, <1>1 DEF Entries, EntryFits
  <2>2. EntryFits(n, inprog'[n][j])
    BY <2>1, Zenon
  <2> QED BY <2>2 DEF EntryFits, Paid, TakenBack
<1>7. Hops'
  <2> SUFFICES ASSUME NEW n \in 2 .. N - 1, NEW k \in Hash PROVE Hop(n, k)'
    BY DEF Hops
  <2>1. Hop(n, k) /\ n \in Node BY <1>1, Channels DEF Hops
  <2> QED BY <2>1, HopKept
<1> QED BY <1>2, <1>3, <1>4, <1>5, <1>6, <1>7 DEF Inv

(* No new message, offer or HTLC: every hash keeps its carrier or loses it.*)
LEMMA OnceQuiet ==
  ASSUME Types, net' \in [Node -> Seq(Message)], NEW n \in Chan, NEW k \in Hash, Once(n, k),
         net'[n] = net[n] \/ net'[n] = <<>> \/ (net[n] # <<>> /\ net'[n] = Tail(net[n])),
         \A t \in task'[n] : t \in task[n] \/ t.kind # "offer" \/ t.hash # k,
         \A m \in Chan : Made(m, k)' <=> Made(m, k),
         drawn <= drawn', drawn' \in Nat
  PROVE  Once(n, k)'
<1>0. n \in Node /\ (n # 1 => n - 1 \in Chan) /\ net \in [Node -> Seq(Message)] /\ net'[n] \in Seq(Message)
  BY Channels, Constants DEF Types, Chan
<1>1. \A t : Offers(n, t, k)' => Offers(n, t, k)
  BY DEF Offers
<1>2. Begun(n, k) => Begun(n, k)'
  <2>1. drawn \in Nat /\ k \in Nat BY Numbers DEF Hash
  <2> QED BY <1>0, <2>1 DEF Begun
<1>3. CASE net'[n] = net[n]
  <2>1. \A j : Told(n, j, k)' => Told(n, j, k) BY <1>3, ToldSame
  <2> QED BY <1>0, <1>1, <1>2, <2>1, OnceSame
<1>4. CASE net'[n] = <<>>
  <2>1. \A j : ~Told(n, j, k)'
    <3>1. Len(net'[n]) = 0 BY <1>4, EmptySeq
    <3>2. 1 .. Len(net'[n]) = {} BY <3>1
    <3> QED BY <3>2 DEF Told
  <2> QED BY <1>0, <1>1, <1>2, <2>1, OnceKept
<1>5. CASE net[n] # <<>> /\ net'[n] = Tail(net[n])
  <2>1. \A j : Told(n, j, k)' => Told(n, j + 1, k) BY <1>0, <1>5, ToldTail
  <2> QED BY <1>0, <1>1, <1>2, <2>1, OnceKept
<1> QED BY <1>3, <1>4, <1>5

LEMMA OneAtATimeQuiet ==
  ASSUME Types, net' \in [Node -> Seq(Message)], OneAtATime,
         \A n \in Chan : net'[n] = net[n] \/ net'[n] = <<>> \/ (net[n] # <<>> /\ net'[n] = Tail(net[n])),
         \A n \in Chan : \A t \in task'[n] : t \in task[n] \/ t.kind # "offer",
         \A m \in Chan, k \in Hash : Made(m, k)' <=> Made(m, k),
         drawn <= drawn', drawn' \in Nat
  PROVE  OneAtATime'
<1> SUFFICES ASSUME NEW n \in Chan, NEW k \in Hash PROVE Once(n, k)'
  BY DEF OneAtATime
<1>1. Once(n, k) BY DEF OneAtATime
<1> QED BY <1>1, OnceQuiet

-----------------------------------------------------------------------------
LEMMA InitInv == PInit => Inv
<1> SUFFICES ASSUME PInit PROVE Inv
  OBVIOUS
<1>1. Types
  <2>1. NoHtlc \in HtlcType BY DEF NoHtlc, HtlcType
  <2>2. <<>> \in Seq(EntryType) /\ <<>> \in Seq(Message) BY EmptySeq
  <2>3. faults \in [crash : 0 .. MaxCrash, break : 0 .. MaxBreak] BY Constants DEF PInit
  <2>4. 0 \in 0 .. MaxHeight /\ 0 \in 0 .. MaxPay BY Constants
  <2> QED BY <2>1, <2>2, <2>3, <2>4 DEF PInit, Types
<1>2. Clocks BY Constants DEF PInit, Clocks
<1>3. \A n \in Chan, k \in Hash : htlc[n][k].st = "none"
  BY DEF PInit, NoHtlc
<1>4. \A n \in Node : task[n] = {} /\ net[n] = <<>> /\ inprog[n] = <<>>
  BY DEF PInit
<1>5. OneAtATime
  <2> SUFFICES ASSUME NEW n \in Chan, NEW k \in Hash PROVE Once(n, k)
    BY DEF OneAtATime
  <2>1. \A j : ~Told(n, j, k) BY <1>4, Channels DEF Told
  <2>2. \A t : ~Offers(n, t, k) BY <1>4, Channels DEF Offers
  <2>3. ~Made(n, k) BY <1>3 DEF Made
  <2> QED BY <2>1, <2>2, <2>3 DEF Once
<1>6. Locks BY <1>3 DEF Locks, LockFits, Made
<1>7. Tasks BY <1>4 DEF Tasks
<1>8. Downstream BY <1>3 DEF Downstream, Paid
<1>9. Entries BY <1>4 DEF Entries
<1>10. Hops
  <2> SUFFICES ASSUME NEW n \in 2 .. N - 1, NEW k \in Hash PROVE Hop(n, k)
    BY DEF Hops
  <2>1. htlc[n][k].st = "none" BY <1>3, Channels
  <2> QED BY <2>1 DEF Hop, Paid
<1> QED BY <1>1, <1>2, <1>5, <1>6, <1>7, <1>8, <1>9, <1>10 DEF Inv

(* A payment is added to those a node remembers.                           *)
LEMMA Remembered ==
  ASSUME Types, NEW m \in Node, NEW e \in EntryType, EntryFits(m, e),
         inprog' = [inprog EXCEPT ![m] = Append(inprog[m], e)]
  PROVE  /\ inprog' \in [Node -> Seq(EntryType)]
         /\ \A n \in Node : \A j \in DOMAIN inprog'[n] :
              (\E i \in DOMAIN inprog[n] : inprog'[n][j] = inprog[n][i]) \/ EntryFits(n, inprog'[n][j])
<1>1. Append(inprog[m], e) \in Seq(EntryType)
  BY AppendProperties DEF Types
<1>2. inprog' \in [Node -> Seq(EntryType)]
  BY <1>1 DEF Types
<1>3. ASSUME NEW n \in Node, NEW j \in DOMAIN inprog'[n]
      PROVE  (\E i \in DOMAIN inprog[n] : inprog'[n][j] = inprog[n][i]) \/ EntryFits(n, inprog'[n][j])
  <2>1. inprog[n] \in Seq(EntryType) BY DEF Types
  <2>2. CASE n # m
    BY <2>2 DEF Types
  <2>3. CASE n = m
    <3>1. inprog'[n] = Append(inprog[n], e) BY <2>3 DEF Types
    <3>2. j \in DOMAIN inprog[n] \/ inprog'[n][j] = e
      BY <2>1, <3>1, AppendProperties, LenProperties
    <3>3. CASE j \in DOMAIN inprog[n]
      BY <2>1, <3>1, <3>3, AppendProperties, LenProperties
    <3>4. CASE inprog'[n][j] = e
      BY <2>3, <3>4
    <3> QED BY <3>2, <3>3, <3>4
  <2> QED BY <2>2, <2>3
<1> QED BY <1>2, <1>3

LEMMA PayMultihopInv ==
  ASSUME Inv, NEW amt \in Amt, PayMultihop(amt)
  PROVE  Inv'
<1> DEFINE e == Entry(amt, NoHash, FALSE)
           r == [type |-> "Request"]
<1>1. Types BY DEF Inv
<1>2. e \in EntryType /\ e.pre = FALSE /\ e.ok = FALSE
  BY PayAssumption DEF Entry, EntryType
<1>3. r \in Message BY DEF Message
<1> HIDE DEF e, r
<1>4. /\ inprog' = [inprog EXCEPT ![1] = Append(inprog[1], e)]
      /\ net' = [net EXCEPT ![N] = Append(net[N], r)]
      /\ UNCHANGED <<task, htlc, chan, conn, height, tick, drawn, faults, dropped>>
  BY DEF PayMultihop, e, r
<1>5. Types'
  <2>1. Append(inprog[1], e) \in Seq(EntryType) /\ Append(net[N], r) \in Seq(Message)
    BY <1>1, <1>2, <1>3, Channels, AppendProperties DEF Types
  <2> QED BY <2>1, <1>1, <1>4 DEF Types
<1>6. OneAtATime'
  <2>1. \A n \in Chan : net'[n] = net[n] BY <1>1, <1>4, Channels DEF Types
  <2>2. \A m \in Chan, k \in Hash : Made(m, k)' <=> Made(m, k) BY <1>4 DEF Made
  <2>3. drawn \in Nat BY <1>1, Numbers
  <2> QED BY <1>1, <1>4, <1>5, <2>1, <2>2, <2>3, OneAtATimeQuiet DEF Inv, Types
<1>7. EntryFits(1, e) BY <1>2 DEF EntryFits
<1>8. \A n \in Node : tick'[n] = tick[n] BY <1>4
<1>9. faults.crash <= faults'.crash BY <1>1, <1>4, Numbers
<1> QED BY <1>4, <1>5, <1>6, <1>7, <1>8, <1>9, <1>2, <1>1, Channels, Remembered, NoHtlcStep

LEMMA MultihopPaymentRequestHandlerInv ==
  ASSUME Inv, MultihopPaymentRequestHandler
  PROVE  Inv'
<1> DEFINE k == drawn + 1
           e == Entry(0, drawn + 1, TRUE)
           ack == [type |-> "Ack", hash |-> drawn + 1]
<1>1. Types /\ drawn \in Nat BY Numbers DEF Inv
<1>2. k \in Hash /\ k # NoHash
  BY <1>1, Constants DEF MultihopPaymentRequestHandler, Hash, NoHash
<1>3. e \in EntryType /\ EntryFits(N, e)
  BY <1>2, Channels, Constants DEF Entry, EntryType, EntryFits
<1>4. ack \in Message /\ ack.hash = k /\ ack.type = "Ack"
  BY <1>2 DEF Message
<1>5. /\ net[N] # <<>> /\ Consume(N, To(1, ack))
      /\ inprog' = [inprog EXCEPT ![N] = Append(inprog[N], e)]
      /\ UNCHANGED <<task, htlc, chan, conn, height, tick, faults, dropped>>
  BY DEF MultihopPaymentRequestHandler, Receiving
<1>6. drawn' = k
  BY DEF MultihopPaymentRequestHandler
<1> HIDE DEF e, ack
<1>7. /\ net' \in [Node -> Seq(Message)]
      /\ net'[1] = Append(net[1], ack)
      /\ \A p \in Chan \ {1} : net'[p] = net[p]
  <2>1. net \in [Node -> Seq(Message)] /\ 1 \in Node /\ N \in Node /\ 1 # N
    BY <1>1, Channels DEF Types
  <2>2. \A p \in Chan \ {1} : p \in Node \ {N, 1}
    BY Channels
  <2>3. /\ net' \in [Node -> Seq(Message)]
        /\ net'[1] = Append(net[1], ack)
        /\ \A p \in Node \ {N, 1} : net'[p] = net[p]
    BY <1>4, <1>5, <2>1, Answered
  <2> QED BY <2>2, <2>3
<1>8. Types'
  <2>1. inprog' \in [Node -> Seq(EntryType)] BY <1>1, <1>3, <1>5, Channels, Remembered
  <2>2. drawn' \in 0 .. MaxPay BY <1>2, <1>6 DEF Hash
  <2> QED BY <2>1, <2>2, <1>1, <1>5, <1>7 DEF Types
<1>9. OneAtATime'
  <2> SUFFICES ASSUME NEW n \in Chan, NEW l \in Hash PROVE Once(n, l)'
    BY DEF OneAtATime
  <2>1. Once(n, l) BY DEF Inv, OneAtATime
  <2>2. \A m \in Chan : Made(m, l)' <=> Made(m, l) BY <1>5 DEF Made
  <2>3. drawn <= drawn' /\ drawn' \in Nat BY <1>1, <1>6
  <2>4. \A t \in task'[n] : t \in task[n] BY <1>5
  <2>5. CASE n # 1
    BY <1>1, <1>7, <2>1, <2>2, <2>3, <2>4, <2>5, OnceQuiet
  <2>6. CASE n = 1
    <3>1. ASSUME NEW j, Told(1, j, l)' PROVE Told(1, j, l) \/ (j = Len(net[1]) + 1 /\ l = k)
      <4>1. net \in [Node -> Seq(Message)] /\ 1 \in Node BY <1>1, Channels DEF Types
      <4>2. Told(1, j, l) \/ (j = Len(net[1]) + 1 /\ ack.type \in {"Ack", "Setup"} /\ ack.hash = l)
        <5>1. ack \in Message /\ net'[1] = Append(net[1], ack) BY <1>4, <1>7
        <5> QED BY <5>1, <3>1, <4>1, ToldAppend
      <4> QED BY <1>4, <4>2
    <3>2. \A t : Offers(1, t, l)' => Offers(1, t, l) BY <1>5 DEF Offers
    <3>3. Made(1, l)' => Made(1, l) BY <2>2, Channels
    <3>4. Begun(1, l) => Begun(1, l)' BY <1>1, <1>6 DEF Begun, Hash
    <3>5. net'[1] \in Seq(Message) BY <1>7, Channels
    <3>6. CASE l # k
      <4>1. \A j : Told(1, j, l)' => Told(1, j, l) BY <3>1, <3>6
      <4> QED BY <2>1, <2>6, <3>2, <3>3, <3>4, <3>5, <4>1, OnceSame
    <3>7. CASE l = k
      <4>1. ~Begun(1, l) BY <1>1, <3>7 DEF Begun
      <4>2. (\A j : ~Told(1, j, l)) /\ ~Made(1, l) /\ \A t : ~Offers(1, t, l)
        BY <4>1, <2>1, <2>6 DEF Once
      <4>3. Begun(1, l)' BY <1>6, <3>7, <1>1 DEF Begun
      <4>4. \A j : Told(1, j, l)' => j = Len(net[1]) + 1 BY <3>1, <4>2
      <4>5. ~Made(1, l)' /\ \A t : ~Offers(1, t, l)' BY <4>2, <3>2, <3>3
      <4> QED BY <2>6, <4>3, <4>4, <4>5 DEF Once
    <3> QED BY <3>6, <3>7
  <2> QED BY <2>5, <2>6
<1>10. /\ \A n \in Node : tick'[n] = tick[n]
       /\ faults.crash <= faults'.crash
  BY <1>1, <1>5, Numbers
<1>11. \A n \in Node : \A j \in DOMAIN inprog'[n] :
         (\E i \in DOMAIN inprog[n] : inprog'[n][j] = inprog[n][i]) \/ EntryFits(n, inprog'[n][j])
  BY <1>1, <1>3, <1>5, Channels, Remembered
<1> QED BY <1>5, <1>8, <1>9, <1>10, <1>11, NoHtlcStep

(* The payment that gets the hash exists.                                  *)
LEMMA FirstWaiting ==
  ASSUME Types, Waiting(1) # {}
  PROVE  LET j == CHOOSE x \in Waiting(1) : \A y \in Waiting(1) : x <= y IN
           j \in DOMAIN inprog[1] /\ ~inprog[1][j].ok /\ inprog[1][j].hash = NoHash
<1>1. inprog[1] \in Seq(EntryType) BY Channels DEF Types
<1>2. Waiting(1) \in SUBSET Nat BY <1>1, LenProperties DEF Waiting
<1>3. \E x \in Waiting(1) : \A y \in Waiting(1) : x <= y BY <1>2, Least
<1> DEFINE j == CHOOSE x \in Waiting(1) : \A y \in Waiting(1) : x <= y
<1>4. j \in Waiting(1) BY <1>3
<1> HIDE DEF j
<1>5. j \in DOMAIN inprog[1] /\ ~inprog[1][j].ok /\ inprog[1][j].hash = NoHash
  BY <1>4 DEF Waiting
<1> QED BY <1>5 DEF j

(* A message of n for hash k was the only carrier: when n takes it, it may *)
(* start one offer.                                                        *)
LEMMA OfferStarts ==
  ASSUME Types, net' \in [Node -> Seq(Message)], OneAtATime, NEW n \in Chan, NEW k \in Hash,
         NEW t \in Offer, t.hash = k, Told(n, 1, k),
         net[n] # <<>>, net'[n] = Tail(net[n]), \A p \in Node \ {n} : net'[p] = net[p],
         task' = [task EXCEPT ![n] = task[n] \cup {t}],
         htlc' = htlc, drawn' = drawn
  PROVE  OneAtATime'
<1> SUFFICES ASSUME NEW m \in Chan, NEW l \in Hash PROVE Once(m, l)'
  BY DEF OneAtATime
<1>1. Once(m, l) /\ Once(n, l) BY DEF OneAtATime
<1>2. \A p \in Chan : Made(p, l)' <=> Made(p, l) BY DEF Made
<1>3. drawn <= drawn' /\ drawn' \in Nat BY Numbers
<1>4. m \in Node /\ n \in Node BY Channels
<1>5. CASE m # n \/ l # k
  <2>1. net'[m] = net[m] \/ (net[m] # <<>> /\ net'[m] = Tail(net[m])) BY <1>4
  <2>2. \A u \in task'[m] : u \in task[m] \/ u.hash # l
    BY <1>4, <1>5 DEF Types
  <2> QED BY <1>1, <1>2, <1>3, <2>1, <2>2, OnceQuiet
<1>6. CASE m = n /\ l = k
  <2>1. /\ Begun(n, k) /\ ~Made(n, k) /\ \A u : ~Offers(n, u, k)
        /\ \A i : Told(n, i, k) => i = 1
    BY <1>1, <1>6 DEF Once
  <2>2. \A j : ~Told(n, j, k)'
    <3> SUFFICES ASSUME NEW j, Told(n, j, k)' PROVE FALSE
      OBVIOUS
    <3>1. net \in [Node -> Seq(Message)] /\ net'[n] \in Seq(Message) BY <1>4 DEF Types
    <3>2. Told(n, j + 1, k) BY <3>1, <1>4, ToldTail
    <3>3. j \in Nat /\ j >= 1 BY <3>1, LenProperties DEF Told
    <3>4. j + 1 = 1 BY <3>2, <2>1
    <3> QED BY <3>3, <3>4
  <2>3. \A u : Offers(n, u, k)' => u = t
    <3>1. task'[n] = task[n] \cup {t} BY <1>4 DEF Types
    <3> QED BY <3>1, <2>1 DEF Offers
  <2>4. Begun(n, k)' /\ ~Made(n, k)'
    BY <2>1 DEF Begun, Made
  <2> QED BY <1>6, <2>2, <2>3, <2>4 DEF Once
<1> QED BY <1>5, <1>6

(* What the two handlers that may start an offer have in common.           *)
LEMMA OfferStep ==
  ASSUME Inv, NEW n \in Chan, NEW k \in Hash, NEW t \in Offer, t.hash = k, Told(n, 1, k),
         net[n] # <<>>, Consume(n, Nothing), OfferFits(n, t),
         task' = [task EXCEPT ![n] = task[n] \cup {t}],
         inprog' \in [Node -> Seq(EntryType)],
         \A m \in Node : \A j \in DOMAIN inprog'[m] :
           (\E i \in DOMAIN inprog[m] : inprog'[m][j] = inprog[m][i]) \/ EntryFits(m, inprog'[m][j]),
         UNCHANGED <<htlc, chan, conn, height, tick, drawn, faults, dropped>>
  PROVE  Inv'
<1>1. Types /\ OneAtATime /\ n \in Node BY Channels DEF Inv
<1>2. /\ net' \in [Node -> Seq(Message)]
      /\ net'[n] = Tail(net[n])
      /\ \A p \in Node \ {n} : net'[p] = net[p]
  <2>1. net \in [Node -> Seq(Message)] BY <1>1 DEF Types
  <2> QED BY <1>1, <2>1, Taken
<1>3. Types'
  <2>1. task' \in [Node -> SUBSET (Offer \cup Claim)] BY <1>1 DEF Types
  <2> QED BY <1>1, <1>2, <2>1 DEF Types
<1>4. OneAtATime' BY <1>1, <1>2, OfferStarts
<1>5. \A m \in Node : \A u \in task'[m] :
        u \in task[m] \/ (IF u.kind = "offer" THEN OfferFits(m, u) ELSE ClaimFits(m, u))
  <2>1. t.kind = "offer" BY DEF Offer
  <2>2. \A m \in Node : task'[m] = IF m = n THEN task[m] \cup {t} ELSE task[m]
    BY <1>1 DEF Types
  <2> QED BY <2>1, <2>2
<1>6. \A m \in Node : task[m] \subseteq task'[m]
  BY <1>1 DEF Types
<1>7. (\A m \in Node : tick'[m] = tick[m]) /\ faults.crash <= faults'.crash
  BY <1>1, Numbers
<1> QED BY <1>3, <1>4, <1>5, <1>6, <1>7, NoHtlcStep

(* A handler that takes its message and starts nothing but claims that fit.*)
LEMMA QuietStep ==
  ASSUME Inv, NEW n \in Node, net[n] # <<>>, Consume(n, Nothing),
         task' \in [Node -> SUBSET (Offer \cup Claim)],
         \A m \in Node : /\ task[m] \subseteq task'[m]
                         /\ \A t \in task'[m] : t \in task[m] \/ (t.kind # "offer" /\ ClaimFits(m, t)),
         inprog' \in [Node -> Seq(EntryType)],
         \A m \in Node : \A j \in DOMAIN inprog'[m] :
           (\E i \in DOMAIN inprog[m] : inprog'[m][j] = inprog[m][i]) \/ EntryFits(m, inprog'[m][j]),
         UNCHANGED <<htlc, chan, conn, height, tick, drawn, faults, dropped>>
  PROVE  Inv'
<1>1. Types /\ OneAtATime BY DEF Inv
<1>2. /\ net' \in [Node -> Seq(Message)]
      /\ net'[n] = Tail(net[n])
      /\ \A p \in Node \ {n} : net'[p] = net[p]
  <2>1. net \in [Node -> Seq(Message)] BY <1>1 DEF Types
  <2> QED BY <1>1, <2>1, Taken
<1>3. Types' BY <1>1, <1>2 DEF Types
<1>4. OneAtATime'
  <2>1. \A m \in Chan : net'[m] = net[m] \/ (net[m] # <<>> /\ net'[m] = Tail(net[m]))
    BY <1>2, Channels
  <2>2. \A m \in Chan : \A t \in task'[m] : t \in task[m] \/ t.kind # "offer" BY Channels
  <2>3. \A m \in Chan, k \in Hash : Made(m, k)' <=> Made(m, k) BY DEF Made
  <2>4. drawn <= drawn' /\ drawn' \in Nat BY <1>1, Numbers
  <2> QED BY <1>1, <1>2, <2>1, <2>2, <2>3, <2>4, OneAtATimeQuiet
<1>5. (\A m \in Node : tick'[m] = tick[m]) /\ faults.crash <= faults'.crash
  BY <1>1, Numbers
<1> QED BY <1>3, <1>4, <1>5, NoHtlcStep

LEMMA MultihopPaymentAckHandlerInv ==
  ASSUME Inv, MultihopPaymentAckHandler
  PROVE  Inv'
<1> DEFINE k == Head(net[1]).hash
           j == CHOOSE x \in Waiting(1) : \A y \in Waiting(1) : x <= y
           amt == inprog[1][j].amt
           t == [kind |-> "offer", born |-> height[1], hash |-> k, amt |-> amt,
                 lock |-> FirstLocktime(height[1])]
<1>1. Types /\ 1 \in Node /\ 1 \in Chan BY Channels DEF Inv
<1>2. /\ net[1] # <<>> /\ Consume(1, Nothing) /\ Receiving(1, "Ack")
      /\ UNCHANGED <<htlc, chan, conn, height, tick, drawn, faults, dropped>>
  BY DEF MultihopPaymentAckHandler, Receiving
<1>3. \/ UNCHANGED <<inprog, task>>
      \/ /\ Waiting(1) # {}
         /\ inprog' = [inprog EXCEPT ![1][j].hash = k]
         /\ task' = [task EXCEPT ![1] = task[1] \cup {t}]
  BY DEF MultihopPaymentAckHandler, Start
<1>4. CASE UNCHANGED <<inprog, task>>
  BY <1>1, <1>2, <1>4, QuietStep DEF Types
<1>5. CASE /\ Waiting(1) # {}
           /\ inprog' = [inprog EXCEPT ![1][j].hash = k]
           /\ task' = [task EXCEPT ![1] = task[1] \cup {t}]
  <2>1. k \in Hash /\ Told(1, 1, k) BY <1>1, <1>2, HeadTold DEF Types
  <2>2. j \in DOMAIN inprog[1] /\ ~inprog[1][j].ok /\ inprog[1][j].hash = NoHash
    BY <1>1, <1>5, FirstWaiting
  <2> HIDE DEF k, j
  <2>3. inprog[1] \in Seq(EntryType) /\ inprog[1][j] \in EntryType
    BY <1>1, <2>2, ElementOfSeq, LenProperties DEF Types
  <2>4. t \in Offer /\ t.hash = k /\ t.kind = "offer"
    <3>1. amt \in Nat BY <2>3 DEF EntryType
    <3>2. height[1] \in Nat BY <1>1, Numbers
    <3>3. FirstLocktime(height[1]) \in Nat BY <1>1, FirstFits DEF Types
    <3> HIDE DEF amt
    <3> QED BY <2>1, <3>1, <3>2, <3>3 DEF Offer
  <2>5. OfferFits(1, t)
    <3>1. t.born = height[1] /\ t.lock = FirstLocktime(height[1]) OBVIOUS
    <3>2. height[1] \in 0 .. MaxHeight BY <1>1 DEF Types
    <3>3. height[1] + DefaultLockTime <= FirstLocktime(height[1]) /\ FirstLocktime(height[1]) <= Latest
      BY <3>2, FirstFits
    <3>4. height[1] \in Nat BY <1>1, Numbers
    <3> HIDE DEF t
    <3> QED BY <1>1, <3>1, <3>3, <3>4, Constants DEF OfferFits
  <2> HIDE DEF t
  <2> DEFINE e == [inprog[1][j] EXCEPT !.hash = k]
             q == [inprog[1] EXCEPT ![j] = e]
  <2>6. inprog' = [inprog EXCEPT ![1] = q]
    BY <1>5
  <2>7. e \in EntryType /\ EntryFits(1, e)
    <3>1. e \in EntryType BY <2>1, <2>3 DEF EntryType
    <3>2. e.pre = inprog[1][j].pre /\ e.ok = inprog[1][j].ok BY <2>3 DEF EntryType
    <3>3. ~inprog[1][j].pre
      <4>1. 1 < N BY Constants
      <4> QED BY <4>1, <1>1, <2>2 DEF Inv, Entries
    <3> HIDE DEF e
    <3> QED BY <3>1, <3>2, <3>3, <2>2 DEF EntryFits
  <2> HIDE DEF e
  <2>8. /\ q \in Seq(EntryType) /\ DOMAIN q = DOMAIN inprog[1]
        /\ \A i \in DOMAIN q : q[i] = IF i = j THEN e ELSE inprog[1][i]
    <3>1. j \in 1 .. Len(inprog[1]) BY <2>2, <2>3, LenProperties
    <3> QED BY <3>1, <2>3, <2>7, ExceptSeq, LenProperties
  <2> HIDE DEF q
  <2>9. inprog' \in [Node -> Seq(EntryType)]
    BY <1>1, <2>6, <2>8 DEF Types
  <2>10. \A m \in Node : \A i \in DOMAIN inprog'[m] :
           (\E x \in DOMAIN inprog[m] : inprog'[m][i] = inprog[m][x]) \/ EntryFits(m, inprog'[m][i])
    <3> SUFFICES ASSUME NEW m \in Node, NEW i \in DOMAIN inprog'[m]
                 PROVE  (\E x \in DOMAIN inprog[m] : inprog'[m][i] = inprog[m][x]) \/ EntryFits(m, inprog'[m][i])
      OBVIOUS
    <3>1. inprog'[m] = IF m = 1 THEN q ELSE inprog[m] BY <1>1, <2>6 DEF Types
    <3>2. CASE m = 1
      BY <3>1, <3>2, <2>7, <2>8
    <3>3. CASE m # 1
      BY <3>1, <3>3
    <3> QED BY <3>2, <3>3
  <2> QED BY <1>1, <1>2, <1>5, <2>1, <2>4, <2>5, <2>9, <2>10, OfferStep
<1> QED BY <1>3, <1>4, <1>5

(* A node of the route that is told to go on has not paid on yet, so it    *)
(* does not know the preimage: only the receiver claims here.              *)
LEMMA MultihopPaymentSetupHandlerInv ==
  ASSUME Inv, NEW n \in Node, n > 1, MultihopPaymentSetupHandler(n)
  PROVE  Inv'
<1> DEFINE k == Head(net[n]).hash
           in == htlc[n - 1][k]
           known == \E j \in DOMAIN inprog[n] : inprog[n][j].hash = k /\ inprog[n][j].pre
           entry == Entry(0, k, FALSE)
           c == [kind |-> "claim", born |-> height[n], hash |-> k]
           t == [kind |-> "offer", born |-> height[n], hash |-> k, amt |-> in.amt,
                 lock |-> NextLocktime(in.lock, height[n])]
<1>1. Types /\ n - 1 \in Chan /\ n - 1 \in Node BY Channels DEF Inv
<1>2. /\ net[n] # <<>> /\ Consume(n, Nothing) /\ Receiving(n, "Setup")
      /\ UNCHANGED <<htlc, chan, conn, height, tick, drawn, faults, dropped>>
  BY DEF MultihopPaymentSetupHandler, Receiving
<1>3. k \in Hash /\ Told(n, 1, k) /\ height[n] \in Nat BY <1>1, <1>2, HeadTold, Numbers DEF Types
<1>4. \/ /\ known
         /\ inprog' = inprog
         /\ task' = [task EXCEPT ![n] = task[n] \cup {c}]
      \/ /\ Uncleared(n - 1, k) /\ n < N /\ ~TooClose(in.lock, height[n])
         /\ inprog' = [inprog EXCEPT ![n] = Append(inprog[n], entry)]
         /\ task' = [task EXCEPT ![n] = task[n] \cup {t}] \/ task' = task
      \/ inprog' = inprog /\ task' = task
  <2> DEFINE A == Uncleared(n - 1, k) /\ known
             B == Uncleared(n - 1, k) /\ ~known /\ n < N /\ ~TooClose(in.lock, height[n])
             P == Start(n, c) /\ UNCHANGED inprog
             Q == /\ inprog' = [inprog EXCEPT ![n] = Append(@, entry)]
                  /\ IF Usable(n) /\ Spendable(n) >= in.amt THEN Start(n, t) ELSE UNCHANGED task
             R == UNCHANGED <<inprog, task>>
  <2>1. (CASE A -> P [] B -> Q [] OTHER -> R)
    BY DEF MultihopPaymentSetupHandler
  <2>2. (A /\ P) \/ (B /\ Q) \/ R
    <3>1. ~(A /\ B) OBVIOUS
    <3> HIDE DEF A, B, P, Q, R
    <3> QED BY <2>1, <3>1
  <2> QED BY <2>2, Zenon DEF Start
<1>5. CASE /\ known
           /\ inprog' = inprog
           /\ task' = [task EXCEPT ![n] = task[n] \cup {c}]
  <2>1. ~(n < N)
    <3> SUFFICES ASSUME n < N PROVE FALSE
      OBVIOUS
    <3>1. n \in Chan BY Channels
    <3>2. ~Made(n, k) BY <3>1, <1>3 DEF Inv, OneAtATime, Once
    <3>3. Paid(n, k) BY <1>5 DEF Inv, Entries
    <3> QED BY <3>2, <3>3 DEF Made, Paid
  <2>2. c \in Claim /\ c.kind # "offer" /\ ClaimFits(n, c)
    BY <1>3, <2>1 DEF Claim, ClaimFits
  <2> HIDE DEF c
  <2>3. \A m \in Node : task'[m] = IF m = n THEN task[m] \cup {c} ELSE task[m]
    BY <1>1, <1>5 DEF Types
  <2>4. task' \in [Node -> SUBSET (Offer \cup Claim)]
    BY <1>1, <1>5, <2>2 DEF Types
  <2>5. \A m \in Node : /\ task[m] \subseteq task'[m]
                        /\ \A u \in task'[m] : u \in task[m] \/ (u.kind # "offer" /\ ClaimFits(m, u))
    BY <2>2, <2>3
  <2> QED BY <1>1, <1>2, <1>5, <2>4, <2>5, QuietStep DEF Types
<1>6. CASE /\ Uncleared(n - 1, k) /\ n < N /\ ~TooClose(in.lock, height[n])
           /\ inprog' = [inprog EXCEPT ![n] = Append(inprog[n], entry)]
           /\ task' = [task EXCEPT ![n] = task[n] \cup {t}] \/ task' = task
  <2> HIDE DEF k
  <2>1. entry \in EntryType /\ EntryFits(n, entry)
    BY <1>3 DEF Entry, EntryType, EntryFits
  <2> HIDE DEF entry
  <2>2. /\ inprog' \in [Node -> Seq(EntryType)]
        /\ \A m \in Node : \A j \in DOMAIN inprog'[m] :
             (\E i \in DOMAIN inprog[m] : inprog'[m][j] = inprog[m][i]) \/ EntryFits(m, inprog'[m][j])
    BY <1>1, <1>6, <2>1, Remembered
  <2>3. CASE task' = task
    <3>1. task' \in [Node -> SUBSET (Offer \cup Claim)] BY <1>1, <2>3 DEF Types
    <3> QED BY <1>2, <2>2, <2>3, <3>1, QuietStep
  <2>4. CASE task' = [task EXCEPT ![n] = task[n] \cup {t}]
    <3>1. n \in Chan /\ n \in Nat BY <1>6, Channels, Constants DEF Node
    <3>2. in.amt \in Nat /\ in.lock \in Nat /\ in.st = "locked" BY <1>1, <1>3, <1>6, HtlcFields DEF Uncleared
    <3>3. DefaultLockTime <= in.lock /\ in.lock <= Latest
      BY <1>1, <1>3, <3>2 DEF Inv, Locks, LockFits, Made
    <3>4. height[n] \in 0 .. MaxHeight BY <1>1 DEF Types
    <3> DEFINE l == NextLocktime(in.lock, height[n])
    <3>5. l \in Nat /\ height[n] + DefaultLockTime <= l /\ l + DefaultLockTime <= in.lock
      BY <1>6, <3>2, <3>3, <3>4, NextFits
    <3> HIDE DEF l
    <3>6. t \in Offer /\ t.hash = k /\ t.born = height[n] /\ t.lock = l
      <4> DEFINE a == in.amt
      <4>1. a \in Nat BY <3>2
      <4>2. t = [kind |-> "offer", born |-> height[n], hash |-> k, amt |-> a, lock |-> l]
        BY DEF l
      <4> HIDE DEF t, a
      <4> QED BY <1>3, <3>5, <4>1, <4>2 DEF Offer
    <3>7. OfferFits(n, t)
      <4>1. /\ height[n] + 2 * DefaultLockTime <= in.lock
            /\ l <= Latest /\ height[n] <= height[n] + Slack
        BY <1>3, <3>2, <3>3, <3>5, Constants, LatestFits
      <4> DEFINE s == in.st
                 x == in.lock
      <4> HIDE DEF t
      <4> QED BY <3>1, <3>2, <3>5, <3>6, <4>1, <1>3 DEF OfferFits
    <3> HIDE DEF t
    <3> QED BY <1>2, <1>3, <2>2, <2>4, <3>1, <3>6, <3>7, OfferStep
  <2> QED BY <1>6, <2>3, <2>4
<1>7. CASE inprog' = inprog /\ task' = task
  <2>1. inprog' \in [Node -> Seq(EntryType)] /\ task' \in [Node -> SUBSET (Offer \cup Claim)]
    BY <1>1, <1>7 DEF Types
  <2> QED BY <1>2, <1>7, <2>1, QuietStep
<1> QED BY <1>4, <1>5, <1>6, <1>7

(* A restart loses claims, which are dropped, and a height event, for      *)
(* which the crashes are counted.                                          *)
LEMMA CrashInv ==
  ASSUME Inv, NEW n \in Node, Crash(n)
  PROVE  Inv'
<1>1. Types BY DEF Inv
<1>2. /\ task' = [task EXCEPT ![n] = {}]
      /\ dropped' = dropped \cup {<<n, t.hash>> : t \in {u \in task[n] : u.kind = "claim"}}
      /\ inprog' = [inprog EXCEPT ![n] = Saved(inprog[n])]
      /\ net' = [net EXCEPT ![n] = <<>>]
      /\ conn' = [i \in Chan |-> conn[i] /\ n \notin {i, i + 1}]
      /\ tick' = [tick EXCEPT ![n] = FALSE]
      /\ UNCHANGED <<htlc, chan, height, drawn>>
  BY DEF Crash
<1>3. /\ faults' \in [crash : 0 .. MaxCrash, break : 0 .. MaxBreak]
      /\ faults.crash < faults'.crash /\ faults.crash <= faults'.crash
  <2> DEFINE c == faults.crash + 1
  <2>1. faults.crash \in Nat /\ faults.break \in Nat /\ faults.crash < MaxCrash
    BY <1>1, Numbers DEF Crash
  <2>2. c \in 0 .. MaxCrash /\ faults.crash < c
    BY <2>1, Constants
  <2>3. faults' = [faults EXCEPT !.crash = c] BY DEF Crash
  <2> HIDE DEF c
  <2>4. faults' \in [crash : 0 .. MaxCrash, break : 0 .. MaxBreak] /\ faults'.crash = c
    BY <1>1, <2>2, <2>3 DEF Types
  <2>5. c \in Nat BY <2>2, Constants
  <2> QED BY <2>1, <2>2, <2>4, <2>5
<1>4. inprog[n] \in Seq(EntryType) BY <1>1 DEF Types
<1>5. Saved(inprog[n]) \in Seq(EntryType)
      /\ \A i \in DOMAIN Saved(inprog[n]) : \E j \in DOMAIN inprog[n] : Saved(inprog[n])[i] = inprog[n][j]
  BY <1>4, SavedEntries
<1>6. Types'
  <2>1. <<>> \in Seq(Message) BY EmptySeq
  <2>2. conn' \in [Chan -> BOOLEAN] BY <1>2
  <2> QED BY <1>1, <1>2, <1>3, <1>5, <2>1, <2>2 DEF Types
<1>7. \A m \in Node : task'[m] = IF m = n THEN {} ELSE task[m]
  BY <1>1, <1>2 DEF Types
<1>8. OneAtATime'
  <2>1. \A m \in Chan : net'[m] = net[m] \/ net'[m] = <<>> BY <1>1, <1>2, Channels DEF Types
  <2>2. \A m \in Chan : \A t \in task'[m] : t \in task[m] BY <1>7, Channels
  <2>3. \A m \in Chan, k \in Hash : Made(m, k)' <=> Made(m, k) BY <1>2 DEF Made
  <2>4. drawn <= drawn' /\ drawn' \in Nat BY <1>1, <1>2, Numbers
  <2>5. net' \in [Node -> Seq(Message)] BY <1>6 DEF Types
  <2> QED BY <1>1, <2>1, <2>2, <2>3, <2>4, <2>5, OneAtATimeQuiet DEF Inv
<1>9. \A m \in Node : tick'[m] = tick[m] \/ (~tick'[m] /\ faults.crash < faults'.crash)
  BY <1>1, <1>2, <1>3 DEF Types
<1>10. \A m \in Node, k \in Hash : <<m, k>> \notin dropped' =>
         \A t \in task[m] : t.kind = "claim" /\ t.hash = k => t \in task'[m]
  BY <1>2, <1>7
<1>11. \A m \in Node : \A j \in DOMAIN inprog'[m] :
         (\E i \in DOMAIN inprog[m] : inprog'[m][j] = inprog[m][i]) \/ EntryFits(m, inprog'[m][j])
  BY <1>1, <1>2, <1>5 DEF Types
<1>12. \A m \in Node : \A t \in task'[m] : t \in task[m] BY <1>7
<1> QED BY <1>2, <1>3, <1>6, <1>8, <1>9, <1>10, <1>11, <1>12, NoHtlcStep

(* Nothing of the invariant is about connections and broken channels.      *)
LEMMA ChannelOnly ==
  ASSUME Inv, Types', UNCHANGED <<inprog, net, task, htlc, height, tick, drawn, dropped>>,
         faults'.crash = faults.crash
  PROVE  Inv'
<1>1. Types BY DEF Inv
<1>2. faults.crash <= faults'.crash /\ drawn <= drawn' /\ drawn' \in Nat
  BY <1>1, Numbers
<1>3. OneAtATime'
  <2>1. net' \in [Node -> Seq(Message)] BY DEF Types
  <2>2. \A m \in Chan, k \in Hash : Made(m, k)' <=> Made(m, k) BY DEF Made
  <2> QED BY <1>1, <1>2, <2>1, <2>2, OneAtATimeQuiet DEF Inv
<1> QED BY <1>2, <1>3, NoHtlcStep

LEMMA ReconnectInv ==
  ASSUME Inv, NEW i \in Chan, Reconnect(i)
  PROVE  Inv'
BY ChannelOnly DEF Inv, Types, Reconnect

LEMMA BreakChannelInv ==
  ASSUME Inv, NEW i \in Chan, BreakChannel(i)
  PROVE  Inv'
<1> DEFINE b == faults.break + 1
<1>1. Types BY DEF Inv
<1>2. b \in 0 .. MaxBreak
  BY <1>1, Numbers, Constants DEF BreakChannel
<1>3. faults' = [faults EXCEPT !.break = b] BY DEF BreakChannel
<1> HIDE DEF b
<1>4. faults' \in [crash : 0 .. MaxCrash, break : 0 .. MaxBreak] /\ faults'.crash = faults.crash
  BY <1>1, <1>2, <1>3 DEF Types
<1> QED BY <1>1, <1>4, ChannelOnly DEF Types, BreakChannel

LEMMA NewBlockInv ==
  ASSUME Inv, NEW n \in Node, NewBlock(n)
  PROVE  Inv'
<1>1. Types /\ Clocks /\ OneAtATime /\ Locks /\ Tasks /\ Downstream /\ Entries /\ Hops
  BY DEF Inv
<1>2. /\ \A m \in Node : height[n] < height[m] + Skew
      /\ \A m \in Node : ~tick[m]
      /\ \A m \in Node : \A t \in task[m] : height[m] < t.born + Slack
      /\ UNCHANGED <<inprog, net, task, htlc, chan, conn, drawn, faults, dropped>>
  BY DEF NewBlock, Prompt
<1>3. \A m \in Node : height[m] \in Nat /\ height[m] <= MaxHeight
  BY <1>1, Numbers
<1> DEFINE h == IF height[n] < MaxHeight THEN height[n] + 1 ELSE height[n]
<1>4. \A m \in Node : height'[m] = IF m = n THEN h ELSE height[m]
  BY <1>1 DEF NewBlock, Types
<1>5. h \in 0 .. MaxHeight /\ h \in Nat /\ height[n] <= h /\ h <= height[n] + 1
      /\ (h = height[n] + 1 \/ (h = height[n] /\ h = MaxHeight))
  BY <1>3, Constants
<1>6. height' = [height EXCEPT ![n] = h] BY DEF NewBlock
<1> HIDE DEF h
<1>7. \A m \in Node : tick'[m] = IF m = n THEN n < N /\ \E k \in Hash : Uncleared(n, k) ELSE FALSE
  BY <1>1, <1>2 DEF NewBlock, Types
<1>8. Types'
  <2>1. height' \in [Node -> 0 .. MaxHeight] BY <1>1, <1>5, <1>6 DEF Types
  <2>2. tick' \in [Node -> BOOLEAN]
    <3> DEFINE b == n < N /\ \E k \in Hash : Uncleared(n, k)
    <3>1. b \in BOOLEAN OBVIOUS
    <3>2. tick' = [tick EXCEPT ![n] = b] BY DEF NewBlock
    <3> HIDE DEF b
    <3> QED BY <1>1, <3>1, <3>2 DEF Types
  <2> QED BY <1>1, <1>2, <2>1, <2>2 DEF Types
<1>9. Clocks'
  <2> SUFFICES ASSUME NEW a \in Node, NEW b \in Node
               PROVE  height'[b] <= height'[a] + Skew /\ (tick'[a] => height'[b] < height'[a] + Skew)
    BY DEF Clocks
  <2>1. height[b] <= height[a] + Skew /\ height[b] <= height[n] + Skew BY <1>1 DEF Clocks
  <2>2. height[n] < height[a] + Skew /\ height[n] < height[n] + Skew BY <1>2
  <2>3. height[a] \in Nat /\ height[b] \in Nat /\ height[n] \in Nat /\ height[b] <= MaxHeight /\ Skew \in Nat
    BY <1>3, Constants
  <2>4. height'[a] = (IF a = n THEN h ELSE height[a]) /\ height'[b] = (IF b = n THEN h ELSE height[b])
        /\ (tick'[a] => a = n)
    BY <1>4, <1>7
  <2>5. CASE a = n
    BY <2>1, <2>2, <2>3, <2>4, <2>5, <1>5
  <2>6. CASE a # n
    BY <2>1, <2>2, <2>3, <2>4, <2>6, <1>5
  <2> QED BY <2>5, <2>6
<1>10. OneAtATime'
  <2>1. \A m \in Chan, k \in Hash : Made(m, k)' <=> Made(m, k) BY <1>2 DEF Made
  <2>2. net' \in [Node -> Seq(Message)] BY <1>8 DEF Types
  <2>3. drawn <= drawn' /\ drawn' \in Nat BY <1>1, <1>2, Numbers
  <2> QED BY <1>1, <1>2, <2>1, <2>2, <2>3, OneAtATimeQuiet
<1>11. Locks'
  <2> SUFFICES ASSUME NEW m \in Chan, NEW k \in Hash PROVE LockFits(m, k)'
    BY DEF Locks
  <2>0. LockFits(m, k) /\ m \in Node /\ m < N BY <1>1, Channels DEF Locks
  <2> DEFINE l == htlc[m][k].lock
             c == faults.crash
  <2>1. l \in Nat /\ c \in Nat /\ height[m] \in Nat BY <1>1, <1>3, <2>0, HtlcFields, Numbers
  <2>2. ASSUME htlc[m][k].st = "locked", <<m, k>> \notin dropped
        PROVE  height'[m] <= l + c /\ (~tick'[m] => height'[m] < l + c)
    <3>1. height[m] < l + c
      BY <1>2, <2>0, <2>2 DEF LockFits, Made
    <3>2. m = n => tick'[m] BY <1>7, <2>0, <2>2 DEF Uncleared
    <3>3. height'[m] = IF m = n THEN h ELSE height[m] BY <1>4, <2>0
    <3> HIDE DEF l, c
    <3> QED BY <3>1, <3>2, <3>3, <2>1, <1>5
  <2> QED BY <2>0, <2>2, <1>2 DEF LockFits, Made
<1>12. Tasks'
  <2> SUFFICES ASSUME NEW m \in Node, NEW t \in task[m]
               PROVE  IF t.kind = "offer" THEN OfferFits(m, t)' ELSE ClaimFits(m, t)'
    BY <1>2 DEF Tasks
  <2>0. IF t.kind = "offer" THEN OfferFits(m, t) ELSE ClaimFits(m, t)
    BY Zenon, <1>1 DEF Tasks
  <2>1. t.born \in Nat /\ t.hash \in Hash BY <1>1, TaskFields
  <2>2. height[m] < t.born + Slack BY <1>2
  <2>3. height[m] <= height'[m] /\ height'[m] <= t.born + Slack
    <3>1. height'[m] = IF m = n THEN h ELSE height[m] BY <1>4
    <3> QED BY <3>1, <2>1, <2>2, <1>3, <1>5, Constants
  <2>4. ASSUME OfferFits(m, t) PROVE OfferFits(m, t)'
    <3>1. t.born <= height'[m]
      <4>1. t.born <= height[m] BY <2>4 DEF OfferFits
      <4>2. height'[m] \in Nat BY <1>3, <1>4, <1>5
      <4> QED BY <4>1, <4>2, <2>1, <2>3, <1>3
    <3> QED BY <1>2, <2>3, <2>4, <3>1 DEF OfferFits
  <2>5. ASSUME ClaimFits(m, t) PROVE ClaimFits(m, t)'
    <3> SUFFICES ASSUME m < N PROVE ClaimFits(m, t)'
      BY DEF ClaimFits
    <3>1. m \in Chan BY Channels
    <3> DEFINE l == htlc[m][t.hash].lock
    <3>2. l \in Nat BY <1>1, <2>1, <3>1, HtlcFields
    <3>3. t.born <= height'[m]
      <4>1. t.born <= height[m] BY <2>5 DEF ClaimFits
      <4>2. height'[m] \in Nat BY <1>3, <1>4, <1>5
      <4> QED BY <4>1, <4>2, <2>1, <2>3, <1>3
    <3>4. ASSUME <<m, t.hash>> \notin dropped
          PROVE  \A p \in Node : height'[p] < l + MaxCrash + Slack + Skew
      <4> SUFFICES ASSUME NEW p \in Node PROVE height'[p] < l + MaxCrash + Slack + Skew
        OBVIOUS
      <4>1. t.born <= l + MaxCrash /\ height[p] < l + MaxCrash + Slack + Skew
        BY <2>5, <3>4 DEF ClaimFits
      <4>2. height[n] < height[m] + Skew BY <1>2
      <4>3. height'[p] = IF p = n THEN h ELSE height[p] BY <1>4
      <4> HIDE DEF l
      <4> QED BY <4>1, <4>2, <4>3, <1>3, <1>5, <2>1, <2>2, <3>2, Constants
    <3>5. <<m, t.hash>> \notin dropped => t.born <= l + MaxCrash
      BY <2>5 DEF ClaimFits
    <3>6. Paid(m, t.hash)' BY <1>2, <2>5 DEF ClaimFits, Paid
    <3> QED BY <1>2, <2>3, <3>3, <3>4, <3>5, <3>6 DEF ClaimFits
  <2> QED BY <2>0, <2>4, <2>5
<1>13. Downstream' BY <1>1, <1>2, DownstreamKept
<1>14. Entries' BY <1>1, <1>2 DEF Entries, Paid, TakenBack
<1>15. Hops'
  <2> SUFFICES ASSUME NEW m \in 2 .. N - 1, NEW k \in Hash PROVE Hop(m, k)'
    BY DEF Hops
  <2>1. Hop(m, k) /\ m \in Node BY <1>1, Channels DEF Hops
  <2> QED BY <1>2, <2>1, HopKept
<1> QED BY <1>8, <1>9, <1>10, <1>11, <1>12, <1>13, <1>14, <1>15 DEF Inv

-----------------------------------------------------------------------------
(* An offer that is made in time is far from its own lock time.            *)
LEMMA OfferInTime ==
  ASSUME Types, NEW n \in Node, NEW t \in task[n], t.kind = "offer", OfferFits(n, t)
  PROVE  DefaultLockTime <= t.lock /\ height[n] < t.lock + faults.crash
<1>1. t.born \in Nat /\ t.lock \in Nat BY TaskFields
<1>2. /\ t.born <= height[n] /\ height[n] <= t.born + Slack
      /\ t.born + DefaultLockTime <= t.lock
  BY DEF OfferFits
<1>3. height[n] \in Nat /\ faults.crash \in Nat BY Numbers
<1> QED BY <1>1, <1>2, <1>3, Margins

(* The offer's HTLC takes the place of the goroutine, and the message that *)
(* follows it is the first the next node hears of the hash.                *)
LEMMA HtlcOfferedInv ==
  ASSUME Inv, NEW n \in Node, NEW t \in task[n], t.kind = "offer",
         task' = [task EXCEPT ![n] = task[n] \ {t}],
         htlc' = [htlc EXCEPT ![n] = [htlc[n] EXCEPT ![t.hash] =
                    [st |-> "locked", amt |-> t.amt, lock |-> t.lock]]],
         net' = [net EXCEPT ![n + 1] = Append(net[n + 1], [type |-> "Setup", hash |-> t.hash])],
         UNCHANGED <<inprog, chan, conn, height, tick, drawn, faults, dropped>>
  PROVE  Inv'
<1> DEFINE k == t.hash
           q == [st |-> "locked", amt |-> t.amt, lock |-> t.lock]
           r == [type |-> "Setup", hash |-> t.hash]
<1>1. Types /\ Clocks /\ OneAtATime /\ Locks /\ Tasks /\ Downstream /\ Entries /\ Hops
  BY DEF Inv
<1>2. /\ t.born \in Nat /\ k \in Hash /\ t.amt \in Nat /\ t.lock \in Nat
  BY <1>1, TaskFields
<1>3. OfferFits(n, t) BY <1>1 DEF Tasks
<1>4. n \in Chan /\ n + 1 \in Node /\ n # n + 1 BY <1>3, Channels, Constants DEF OfferFits, Chan
<1>5. q \in HtlcType /\ q.st = "locked" /\ q.lock = t.lock BY <1>2 DEF HtlcType
<1>6. r \in Message /\ r.type = "Setup" /\ r.hash = k BY <1>2 DEF Message
<1>7. /\ htlc' = [htlc EXCEPT ![n] = [htlc[n] EXCEPT ![k] = q]]
      /\ net' = [net EXCEPT ![n + 1] = Append(net[n + 1], r)]
  OBVIOUS
<1>8. Once(n, k) /\ Offers(n, t, k) BY <1>1, <1>2, <1>4 DEF OneAtATime, Offers
<1>9. /\ Begun(n, k) /\ ~Made(n, k) /\ (\A j : ~Told(n, j, k))
      /\ \A u : Offers(n, u, k) => u = t
  BY <1>8 DEF Once
<1> HIDE DEF q, r
<1>10. \A m \in Chan, l \in Hash :
         htlc'[m][l] = IF m = n /\ l = k THEN q ELSE htlc[m][l]
  BY <1>1, <1>2, <1>4, <1>7 DEF Types
<1>11. \A m \in Node : task'[m] = IF m = n THEN task[m] \ {t} ELSE task[m]
  BY <1>1 DEF Types
<1>12. \A m \in Node : net'[m] = IF m = n + 1 THEN Append(net[m], r) ELSE net[m]
  BY <1>1, <1>4, <1>7 DEF Types
<1>13. htlc[n][k].st = "none" BY <1>9 DEF Made
<1>14. Types'
  <2>1. Append(net[n + 1], r) \in Seq(Message) BY <1>1, <1>4, <1>6, AppendProperties DEF Types
  <2>2. net' \in [Node -> Seq(Message)] BY <2>1, <1>1, <1>7 DEF Types
  <2>3. htlc' \in [Chan -> [Hash -> HtlcType]] BY <1>1, <1>2, <1>4, <1>5, <1>7 DEF Types
  <2>4. task' \in [Node -> SUBSET (Offer \cup Claim)] BY <1>1 DEF Types
  <2> QED BY <1>1, <2>2, <2>3, <2>4 DEF Types
<1>15. Clocks' BY <1>1, ClocksKept
<1>16. OneAtATime'
  <2> SUFFICES ASSUME NEW m \in Chan, NEW l \in Hash PROVE Once(m, l)'
    BY DEF OneAtATime
  <2>1. Once(m, l) /\ m \in Node /\ (m # 1 => m - 1 \in Chan) /\ net'[m] \in Seq(Message)
    BY <1>1, <1>14, Channels, Constants DEF OneAtATime, Types, Chan
  <2>2. Made(m, l)' <=> (Made(m, l) \/ (m = n /\ l = k)) BY <1>5, <1>10 DEF Made
  <2>3. Begun(m, l) => Begun(m, l)'
    <3>1. m # 1 => (Made(m - 1, l) => Made(m - 1, l)')
      <4> SUFFICES ASSUME m # 1, Made(m - 1, l) PROVE Made(m - 1, l)'
        OBVIOUS
      <4> QED BY <1>5, <1>10, <2>1 DEF Made
    <3> QED BY <3>1 DEF Begun
  <2>4. \A u : Offers(m, u, l)' => Offers(m, u, l) BY <1>11, <2>1 DEF Offers
  <2>5. CASE m = n /\ l = k
    <3>1. \A j : ~Told(n, j, k)' BY <1>4, <1>9, <1>12, ToldSame
    <3>2. \A u : ~Offers(m, u, l)'
      <4> SUFFICES ASSUME NEW u, Offers(m, u, l)' PROVE FALSE
        OBVIOUS
      <4>1. u = t BY <1>9, <2>4, <2>5
      <4>2. u \in task'[m] /\ task'[m] = task[m] \ {t} BY <1>11, <2>1, <2>5 DEF Offers
      <4> QED BY <4>1, <4>2
    <3> QED BY <1>9, <2>3, <2>5, <3>1, <3>2 DEF Once
  <2>6. CASE m = n + 1 /\ l = k
    <3>1. m # 1 /\ m - 1 = n BY <1>4, <2>6, ChanNumbers
    <3>2. ~Begun(m, l) BY <1>9, <2>6, <3>1 DEF Begun
    <3>3. (\A j : ~Told(m, j, l)) /\ ~Made(m, l) /\ \A u : ~Offers(m, u, l)
      BY <2>1, <3>2 DEF Once
    <3>4. Begun(m, l)' BY <1>4, <1>5, <1>10, <2>6, <3>1 DEF Begun, Made
    <3>5. \A j : Told(m, j, l)' => j = Len(net[m]) + 1
      <4> SUFFICES ASSUME NEW j, Told(m, j, l)' PROVE j = Len(net[m]) + 1
        OBVIOUS
      <4>1. net \in [Node -> Seq(Message)] BY <1>1 DEF Types
      <4>2. net'[m] = Append(net[m], r) BY <1>12, <2>1, <2>6
      <4>3. Told(m, j, l) \/ (j = Len(net[m]) + 1 /\ r.type \in {"Ack", "Setup"} /\ r.hash = l)
        BY <4>1, <4>2, <1>6, <2>1, ToldAppend
      <4> QED BY <4>3, <3>3
    <3>6. ~Made(m, l)' BY <2>2, <2>6, <3>3, <1>4
    <3> QED BY <2>4, <3>3, <3>4, <3>5, <3>6 DEF Once
  <2>7. CASE ~(m = n /\ l = k) /\ ~(m = n + 1 /\ l = k)
    <3>1. \A j : Told(m, j, l)' => Told(m, j, l)
      <4> SUFFICES ASSUME NEW j, Told(m, j, l)' PROVE Told(m, j, l)
        OBVIOUS
      <4>1. CASE m # n + 1
        <5>1. net'[m] = net[m] BY <1>12, <2>1, <4>1
        <5> QED BY <5>1, ToldSame
      <4>2. CASE m = n + 1
        <5>1. net \in [Node -> Seq(Message)] BY <1>1 DEF Types
        <5>2. net'[m] = Append(net[m], r) BY <1>12, <2>1, <4>2
        <5>3. r.hash # l BY <1>6, <2>7, <4>2
        <5> QED BY <5>1, <5>2, <5>3, <1>6, <2>1, ToldAppend
      <4> QED BY <4>1, <4>2
    <3> QED BY <2>1, <2>2, <2>3, <2>4, <2>7, <3>1, OnceSame
  <2> QED BY <2>5, <2>6, <2>7
<1>17. Locks'
  <2> SUFFICES ASSUME NEW m \in Chan, NEW l \in Hash PROVE LockFits(m, l)'
    BY DEF Locks
  <2>1. LockFits(m, l) /\ m \in Node /\ (m > 1 => m - 1 \in Chan) BY <1>1, Channels DEF Locks
  <2>2. CASE m = n /\ l = k
    <3>1. /\ t.born <= height[n] /\ height[n] <= t.born + Slack
          /\ t.born + DefaultLockTime <= t.lock /\ t.lock <= Latest
          /\ n > 1 => t.lock + DefaultLockTime <= htlc[n - 1][k].lock
      BY <1>3 DEF OfferFits
    <3>2. height[n] \in Nat /\ faults.crash \in Nat /\ height'[n] = height[n] /\ faults' = faults
      BY <1>1, Numbers
    <3>3. htlc'[n][k] = q /\ (n > 1 => htlc'[n - 1][k] = htlc[n - 1][k])
      BY <1>2, <1>4, <1>10, <2>1, <2>2, ChanNumbers
    <3>4. DefaultLockTime <= t.lock /\ height[n] < t.lock + faults.crash BY <1>1, <1>3, OfferInTime
    <3>5. height[n] <= t.lock + faults.crash BY <3>2, <3>4, <1>2
    <3> QED BY <1>5, <2>2, <3>1, <3>2, <3>3, <3>4, <3>5 DEF LockFits
  <2>3. CASE m = n + 1 /\ l = k
    <3>1. m # 1 /\ m - 1 = n BY <1>4, <2>3, ChanNumbers
    <3>2. ~Begun(m, l) BY <1>9, <2>3, <3>1 DEF Begun
    <3>3. ~Made(m, l) BY <1>1, <3>2 DEF OneAtATime, Once
    <3>4. ~Made(m, l)' BY <1>4, <1>10, <2>3, <3>3 DEF Made
    <3> QED BY <3>4 DEF LockFits
  <2>4. CASE ~(m = n /\ l = k) /\ ~(m = n + 1 /\ l = k)
    <3>1. htlc'[m][l] = htlc[m][l] BY <1>10, <2>4
    <3>2. m > 1 => htlc'[m - 1][l] = htlc[m - 1][l]
      <4>1. m \in Int /\ n \in Int BY <1>4, Constants DEF Chan
      <4>2. ~(m - 1 = n /\ l = k) BY <2>4, <4>1
      <4> QED BY <1>10, <2>1, <4>2
    <3>3. Made(m, l)' => Made(m, l) BY <3>1 DEF Made
    <3> QED BY <1>1, <1>14, <2>1, <3>1, <3>2, <3>3, Numbers, LockKept
  <2> QED BY <2>2, <2>3, <2>4
<1>18. Tasks'
  <2> SUFFICES ASSUME NEW m \in Node, NEW u \in task'[m]
               PROVE  IF u.kind = "offer" THEN OfferFits(m, u)' ELSE ClaimFits(m, u)'
    BY DEF Tasks
  <2>1. u \in task[m] BY <1>11
  <2>2. IF u.kind = "offer" THEN OfferFits(m, u) ELSE ClaimFits(m, u)
    BY Zenon, <1>1, <2>1 DEF Tasks
  <2>3. u.hash \in Hash BY <1>1, <2>1, TaskFields
  <2>4. ASSUME OfferFits(m, u) PROVE OfferFits(m, u)'
    <3>1. m > 1 => htlc[m - 1][u.hash].st = "locked" /\ m - 1 \in Chan
      BY <2>4, Channels DEF OfferFits
    <3>2. m > 1 => htlc'[m - 1][u.hash] = htlc[m - 1][u.hash]
      BY <1>10, <1>13, <2>3, <3>1
    <3> QED BY <2>4, <3>1, <3>2, OfferKept
  <2>5. ASSUME ClaimFits(m, u) PROVE ClaimFits(m, u)'
    <3>1. m < N => htlc'[m][u.hash] = htlc[m][u.hash]
      <4> SUFFICES ASSUME m < N PROVE htlc'[m][u.hash] = htlc[m][u.hash]
        OBVIOUS
      <4>1. m \in Chan /\ htlc[m][u.hash].st = "paid" BY <2>5, Channels DEF ClaimFits, Paid
      <4> QED BY <1>10, <1>13, <2>3, <4>1
    <3>2. m < N => Paid(m, u.hash)' BY <2>5, <3>1 DEF ClaimFits, Paid
    <3> QED BY <2>5, <3>1, <3>2, ClaimKept
  <2> QED BY <2>2, <2>4, <2>5
<1>19. \A m \in Chan, l \in Hash : Paid(m, l)' <=> Paid(m, l)
  BY <1>5, <1>10, <1>13 DEF Paid
<1>20. Downstream' BY <1>1, <1>19 DEF Downstream
<1>21. Entries'
  <2> SUFFICES ASSUME NEW m \in Node, NEW j \in DOMAIN inprog[m]
               PROVE  EntryFits(m, inprog[m][j])'
    BY DEF Entries, EntryFits
  <2>1. EntryFits(m, inprog[m][j]) BY <1>1 DEF Entries, EntryFits
  <2>2. inprog[m][j].hash \in Hash \cup {NoHash}
    <3>1. inprog[m][j] \in EntryType BY <1>1, ElementOfSeq, LenProperties DEF Types
    <3> QED BY <3>1 DEF EntryType
  <2>3. \A l \in Hash : TakenBack(l) => TakenBack(l)'
    BY <1>5, <1>10, <1>13, Channels DEF TakenBack
  <2> QED BY <1>19, <2>1, <2>2, <2>3, Channels DEF EntryFits
<1>22. Hops'
  <2> SUFFICES ASSUME NEW m \in 2 .. N - 1, NEW l \in Hash, <<m, l>> \notin dropped
               PROVE  /\ Paid(m, l)' => \/ Paid(m - 1, l)'
                                        \/ /\ htlc'[m - 1][l].st = "locked"
                                           /\ \E u \in task'[m] : u.kind = "claim" /\ u.hash = l
                      /\ htlc'[m][l].st = "locked" => htlc'[m - 1][l].st # "refunded"
    BY DEF Hops, Hop
  <2>1. m \in Chan /\ m \in Node /\ m - 1 \in Chan /\ m > 1 BY Channels
  <2>2. /\ Paid(m, l) => \/ Paid(m - 1, l)
                         \/ /\ htlc[m - 1][l].st = "locked"
                            /\ \E u \in task[m] : u.kind = "claim" /\ u.hash = l
        /\ htlc[m][l].st = "locked" => htlc[m - 1][l].st # "refunded"
    BY <1>1 DEF Hops, Hop
  <2>3. \A u \in task[m] : u.kind = "claim" => u \in task'[m] BY <1>11, <2>1
  <2>4. htlc[m - 1][l].st # "none" => htlc'[m - 1][l] = htlc[m - 1][l]
    BY <1>10, <1>13, <2>1
  <2>5. Paid(m, l)' => Paid(m - 1, l)' \/ (htlc'[m - 1][l].st = "locked" /\ \E u \in task'[m] : u.kind = "claim" /\ u.hash = l)
    <3> SUFFICES ASSUME Paid(m, l)', ~Paid(m - 1, l)'
                 PROVE  htlc'[m - 1][l].st = "locked" /\ \E u \in task'[m] : u.kind = "claim" /\ u.hash = l
      OBVIOUS
    <3>1. Paid(m, l) /\ ~Paid(m - 1, l) BY <1>19, <2>1
    <3> QED BY <2>2, <2>3, <2>4, <3>1
  <2>6. htlc'[m][l].st = "locked" => htlc'[m - 1][l].st # "refunded"
    <3> SUFFICES ASSUME htlc'[m][l].st = "locked" PROVE htlc'[m - 1][l].st # "refunded"
      OBVIOUS
    <3>1. CASE m = n /\ l = k
      <4>1. htlc[m - 1][l].st = "locked" BY <1>3, <2>1, <3>1 DEF OfferFits
      <4> QED BY <2>4, <4>1
    <3>2. CASE ~(m = n /\ l = k)
      <4>1. htlc[m][l].st = "locked" BY <1>10, <2>1, <3>2
      <4>2. htlc[m - 1][l].st # "refunded" BY <2>2, <4>1
      <4>3. htlc'[m - 1][l].st \in {htlc[m - 1][l].st, "locked"} BY <1>5, <1>10, <2>1
      <4> QED BY <4>2, <4>3
    <3> QED BY <3>1, <3>2
  <2> QED BY <2>5, <2>6
<1> QED BY <1>14, <1>15, <1>16, <1>17, <1>18, <1>20, <1>21, <1>22 DEF Inv

LEMMA OfferHTLCInv ==
  ASSUME Inv, NEW n \in Node, NEW t \in task[n], OfferHTLC(n, t)
  PROVE  Inv'
<1>1. Types /\ t.kind = "offer" BY DEF Inv, OfferHTLC
<1>2. /\ task' = [task EXCEPT ![n] = task[n] \ {t}]
      /\ UNCHANGED <<inprog, conn, height, tick, drawn, faults, dropped>>
  BY DEF OfferHTLC
<1>3. CASE Usable(n) /\ Spendable(n) >= t.amt
  <2>1. /\ htlc' = [htlc EXCEPT ![n] = [htlc[n] EXCEPT ![t.hash] =
                     [st |-> "locked", amt |-> t.amt, lock |-> t.lock]]]
        /\ net' = [net EXCEPT ![n + 1] = Append(net[n + 1], [type |-> "Setup", hash |-> t.hash])]
        /\ UNCHANGED chan
    BY <1>3 DEF OfferHTLC
  <2> QED BY <1>1, <1>2, <2>1, HtlcOfferedInv
<1>4. CASE ~(Usable(n) /\ Spendable(n) >= t.amt)
  <2>1. /\ chan' = [chan EXCEPT ![n] = IF chan[n] = "open" /\ ~conn[n] THEN "failed" ELSE chan[n]]
        /\ UNCHANGED <<htlc, net>>
    BY <1>4 DEF OfferHTLC
  <2>2. \A m \in Node : task'[m] \subseteq task[m] BY <1>1, <1>2 DEF Types
  <2>3. Types'
    <3>1. task' \in [Node -> SUBSET (Offer \cup Claim)] BY <1>1, <1>2 DEF Types
    <3>2. chan' \in [Chan -> {"open", "failed", "closed"}] BY <1>1, <2>1 DEF Types
    <3> QED BY <1>1, <1>2, <2>1, <3>1, <3>2 DEF Types
  <2>4. OneAtATime'
    <3>1. net' \in [Node -> Seq(Message)] BY <2>3 DEF Types
    <3>2. \A m \in Chan, k \in Hash : Made(m, k)' <=> Made(m, k) BY <2>1 DEF Made
    <3>3. drawn <= drawn' /\ drawn' \in Nat BY <1>1, <1>2, Numbers
    <3>4. \A m \in Chan : \A u \in task'[m] : u \in task[m] BY <2>2, Channels
    <3> QED BY <1>1, <2>1, <3>1, <3>2, <3>3, <3>4, OneAtATimeQuiet DEF Inv
  <2>5. \A m \in Node, k \in Hash :
          \A u \in task[m] : u.kind = "claim" /\ u.hash = k => u \in task'[m]
    <3>1. \A m \in Node : \A u \in task[m] : u # t => u \in task'[m] BY <1>1, <1>2 DEF Types
    <3> QED BY <1>1, <3>1
  <2>6. faults.crash <= faults'.crash BY <1>1, <1>2, Numbers
  <2> QED BY <1>2, <2>1, <2>2, <2>3, <2>4, <2>5, <2>6, NoHtlcStep
<1> QED BY <1>3, <1>4

(* A claim that cannot be carried out is dropped.                          *)
LEMMA ClaimDroppedInv ==
  ASSUME Inv, NEW n \in Node, NEW t \in task[n],
         task' = [task EXCEPT ![n] = task[n] \ {t}],
         dropped' = dropped \cup {<<n, t.hash>>},
         UNCHANGED <<inprog, net, htlc, chan, conn, height, tick, drawn, faults>>,
         t.kind = "claim"
  PROVE  Inv'
<1>1. Types BY DEF Inv
<1>2. \A m \in Node : task'[m] = IF m = n THEN task[m] \ {t} ELSE task[m] BY <1>1 DEF Types
<1>3. Types'
  <2>1. task' \in [Node -> SUBSET (Offer \cup Claim)] BY <1>1 DEF Types
  <2> QED BY <1>1, <2>1 DEF Types
<1>4. OneAtATime'
  <2>1. net' \in [Node -> Seq(Message)] BY <1>3 DEF Types
  <2>2. \A m \in Chan, k \in Hash : Made(m, k)' <=> Made(m, k) BY DEF Made
  <2>3. drawn <= drawn' /\ drawn' \in Nat BY <1>1, Numbers
  <2>4. \A m \in Chan : \A u \in task'[m] : u \in task[m] BY <1>2, Channels
  <2> QED BY <1>1, <2>1, <2>2, <2>3, <2>4, OneAtATimeQuiet DEF Inv
<1>5. \A m \in Node, k \in Hash : <<m, k>> \notin dropped' =>
        \A u \in task[m] : u.kind = "claim" /\ u.hash = k => u \in task'[m]
  BY <1>2
<1>6. faults.crash <= faults'.crash BY <1>1, Numbers
<1>7. \A m \in Node : \A u \in task'[m] : u \in task[m] BY <1>2
<1> QED BY <1>3, <1>4, <1>5, <1>6, <1>7, NoHtlcStep

LEMMA MarkEntries ==
  ASSUME Types, NEW n \in Node, NEW k
  PROVE  /\ Mark(n, k, TRUE) \in Seq(EntryType)
         /\ DOMAIN Mark(n, k, TRUE) = DOMAIN inprog[n]
         /\ \A j \in DOMAIN inprog[n] :
              \/ Mark(n, k, TRUE)[j] = inprog[n][j]
              \/ Mark(n, k, TRUE)[j].hash = k /\ Mark(n, k, TRUE)[j].pre
<1> DEFINE s == inprog[n]
           l == Len(s)
           q == Mark(n, k, TRUE)
<1>1. s \in Seq(EntryType) /\ l \in Nat /\ DOMAIN s = 1 .. l /\ s \in [1 .. l -> EntryType]
  BY LenProperties DEF Types
<1>2. q = [j \in 1 .. l |-> IF s[j].hash = k /\ ~s[j].ok
                            THEN [s[j] EXCEPT !.ok = TRUE, !.pre = TRUE] ELSE s[j]]
  BY <1>1 DEF Mark
<1> HIDE DEF s, l, q
<1>3. \A j \in 1 .. l : /\ [s[j] EXCEPT !.ok = TRUE, !.pre = TRUE] \in EntryType /\ s[j] \in EntryType
                        /\ [s[j] EXCEPT !.ok = TRUE, !.pre = TRUE].hash = s[j].hash
                        /\ [s[j] EXCEPT !.ok = TRUE, !.pre = TRUE].pre
  BY <1>1 DEF EntryType
<1>4. q \in [1 .. l -> EntryType] /\ DOMAIN q = 1 .. l
  BY <1>2, <1>3
<1>5. \A j \in 1 .. l : q[j] = s[j] \/ (q[j].hash = k /\ q[j].pre)
  BY <1>2, <1>3
<1>6. q \in Seq(EntryType) BY <1>1, <1>4, SeqDef
<1> QED BY <1>1, <1>4, <1>5, <1>6 DEF s, q

(* The preimage goes up one channel.  An offer cannot wait at the node     *)
(* that claims, and the node before it has all the margin to claim.        *)
LEMMA ClaimDoneInv ==
  ASSUME Inv, NEW n \in Node, NEW i \in Chan, i = n - 1, NEW t \in task[n], t.kind = "claim",
         NEW k, t.hash = k, ClaimHTLC(n, t),
         Uncleared(i, k), Usable(i) \/ chan[i] = "closed"
  PROVE  Inv'
<1> DEFINE up == [kind |-> "claim", born |-> height[i], hash |-> k]
           q == [htlc[i][k] EXCEPT !.st = "paid"]
<1>0. /\ htlc[i][k].st = "locked"
      /\ htlc' = [htlc EXCEPT ![i] = [htlc[i] EXCEPT ![k] = q]]
      /\ task' = [task EXCEPT ![n] = task[n] \ {t}, ![i] = task[i] \cup {up}]
      /\ inprog' = [inprog EXCEPT
           ![n] = Mark(n, k, TRUE),
           ![i] = IF chan[i] = "open" THEN Mark(i, k, TRUE) ELSE inprog[i]]
      /\ UNCHANGED <<net, chan, conn, height, tick, drawn, faults, dropped>>
  <2> DEFINE done == n - 1 > 0 /\ Uncleared(n - 1, k) /\ (Usable(n - 1) \/ chan[n - 1] = "closed")
             u == [kind |-> "claim", born |-> height[n - 1], hash |-> k]
  <2>1. i >= 1 /\ i # n BY ChanNumbers
  <2>2. done BY <2>1
  <2>3. /\ htlc' = [htlc EXCEPT ![n - 1][k].st = "paid"]
        /\ task' = [task EXCEPT ![n] = @ \ {t}, ![n - 1] = @ \cup {u}]
        /\ inprog' = [inprog EXCEPT
             ![n] = Mark(n, k, TRUE),
             ![n - 1] = IF chan[n - 1] = "open" THEN Mark(n - 1, k, TRUE) ELSE @]
        /\ UNCHANGED <<net, chan, conn, height, tick, drawn, faults, dropped>>
    BY <2>2 DEF ClaimHTLC
  <2> HIDE DEF done
  <2>4. /\ htlc' = [htlc EXCEPT ![i][k].st = "paid"]
        /\ task' = [task EXCEPT ![n] = @ \ {t}, ![i] = @ \cup {up}]
        /\ inprog' = [inprog EXCEPT
             ![n] = Mark(n, k, TRUE),
             ![i] = IF chan[i] = "open" THEN Mark(i, k, TRUE) ELSE @]
    BY <2>3
  <2> HIDE DEF up
  <2>5. task' = [task EXCEPT ![n] = task[n] \ {t}, ![i] = task[i] \cup {up}]
    BY <2>1, <2>4
  <2>6. inprog' = [inprog EXCEPT
           ![n] = Mark(n, k, TRUE),
           ![i] = IF chan[i] = "open" THEN Mark(i, k, TRUE) ELSE inprog[i]]
    BY <2>1, <2>4
  <2> QED BY <2>3, <2>4, <2>5, <2>6 DEF Uncleared
<1>1. Types /\ Clocks /\ OneAtATime /\ Locks /\ Tasks /\ Downstream /\ Entries /\ Hops
  BY DEF Inv
<1>2. i \in Chan /\ i \in Node /\ i # n /\ i < N /\ n # 1 /\ n > 1
  <2>1. n \in Int /\ i \in Int /\ i >= 1 BY PayAssumption DEF Node, Chan
  <2> QED BY <2>1, Channels
<1>3. k \in Hash /\ k # NoHash BY <1>1, TaskFields DEF Hash, NoHash
<1>4. htlc[i][k] \in HtlcType /\ htlc[i][k].lock \in Nat BY <1>1, <1>2, <1>3, HtlcFields
<1>5. q \in HtlcType /\ q.st = "paid" /\ q.lock = htlc[i][k].lock BY <1>4 DEF HtlcType
<1>6. up \in Claim /\ up.kind = "claim" /\ up.hash = k /\ up.born = height[i]
  <2>1. height[i] \in Nat BY <1>1, <1>2, Numbers
  <2> QED BY <1>3, <2>1 DEF Claim
<1>7. ClaimFits(n, t) BY <1>1 DEF Tasks
<1> HIDE DEF q, up
<1>8. \A m \in Chan, l \in Hash : htlc'[m][l] = IF m = i /\ l = k THEN q ELSE htlc[m][l]
  BY <1>0, <1>1, <1>2, <1>3 DEF Types
<1>9. /\ task'[n] = task[n] \ {t}
      /\ task'[i] = task[i] \cup {up}
      /\ \A m \in Node \ {n, i} : task'[m] = task[m]
  <2> DEFINE x == task[n] \ {t}
             y == task[i] \cup {up}
  <2>1. task' = [task EXCEPT ![n] = x, ![i] = y] BY <1>0
  <2> HIDE DEF x, y
  <2>2. task'[n] = x /\ task'[i] = y /\ \A m \in Node \ {n, i} : task'[m] = task[m]
    BY <1>1, <1>2, <2>1 DEF Types
  <2> QED BY <2>2 DEF x, y
<1>10. Types'
  <2>1. htlc' \in [Chan -> [Hash -> HtlcType]]
    <3> DEFINE row == [htlc[i] EXCEPT ![k] = q]
    <3>1. htlc' = [htlc EXCEPT ![i] = row] BY <1>0
    <3>2. row \in [Hash -> HtlcType] BY <1>0, <1>1, <1>2, <1>5 DEF Types
    <3> HIDE DEF row
    <3> QED BY <1>0, <1>1, <3>1, <3>2 DEF Types
  <2>2. task' \in [Node -> SUBSET (Offer \cup Claim)]
    <3> DEFINE x == task[n] \ {t}
               y == task[i] \cup {up}
               T == SUBSET (Offer \cup Claim)
    <3>1. task' = [task EXCEPT ![n] = x, ![i] = y] BY <1>0
    <3>2. x \in T /\ y \in T /\ task \in [Node -> T] BY <1>0, <1>1, <1>2, <1>6 DEF Types
    <3> HIDE DEF x, y, T
    <3>3. task' \in [Node -> T] BY <3>1, <3>2
    <3> QED BY <3>3 DEF T
  <2>3. inprog' \in [Node -> Seq(EntryType)]
    <3>1. Mark(n, k, TRUE) \in Seq(EntryType) /\ Mark(i, k, TRUE) \in Seq(EntryType)
      BY <1>0, <1>1, <1>2, MarkEntries
    <3> QED BY <1>0, <1>1, <1>2, <3>1 DEF Types
  <2> QED BY <1>0, <1>1, <2>1, <2>2, <2>3 DEF Types
<1>11. Clocks' BY <1>0, <1>1, ClocksKept
<1>12. \A m \in Chan, l \in Hash : Made(m, l)' <=> Made(m, l)
  BY <1>0, <1>5, <1>8 DEF Made
<1>13. OneAtATime'
  <2>1. net' \in [Node -> Seq(Message)] BY <1>10 DEF Types
  <2>2. drawn <= drawn' /\ drawn' \in Nat BY <1>0, <1>1, Numbers
  <2>3. \A m \in Chan : \A u \in task'[m] : u \in task[m] \/ u.kind # "offer"
    BY <1>6, <1>9, Channels
  <2> QED BY <1>0, <1>1, <1>12, <2>1, <2>2, <2>3, OneAtATimeQuiet
<1>14. \A m \in Chan, l \in Hash : htlc'[m][l].lock = htlc[m][l].lock
  BY <1>5, <1>8
<1>15. \A m \in Chan, l \in Hash : Paid(m, l)' <=> (Paid(m, l) \/ (m = i /\ l = k))
  BY <1>5, <1>8 DEF Paid
<1>16. Locks'
  <2> SUFFICES ASSUME NEW m \in Chan, NEW l \in Hash PROVE LockFits(m, l)'
    BY DEF Locks
  <2>1. LockFits(m, l) /\ m \in Node /\ (m > 1 => m - 1 \in Chan) BY <1>0, <1>1, Channels DEF Locks
  <2>2. htlc'[m][l].st = "locked" => htlc[m][l].st = "locked" BY <1>5, <1>8
  <2>3. m > 1 => htlc'[m - 1][l].lock = htlc[m - 1][l].lock BY <1>14, <2>1
  <2> QED BY <1>0, <1>1, <1>10, <1>12, <1>14, <2>1, <2>2, <2>3, Numbers, LockKept
<1>17. n < N => ~ \E u : Offers(n, u, k)
  <2> SUFFICES ASSUME n < N, NEW u, Offers(n, u, k) PROVE FALSE
    OBVIOUS
  <2>1. n \in Chan BY Channels
  <2>2. Made(n, k) BY <1>7 DEF ClaimFits, Paid, Made
  <2> QED BY <1>0, <1>1, <1>3, <2>1, <2>2 DEF OneAtATime, Once
<1>18. ASSUME NEW x, x.hash = k, x.born = height[i]
       PROVE  ClaimFits(i, x)'
  <2> DEFINE l == htlc[i][k].lock
             h == height[i]
             c == faults.crash
  <2>1. l \in Nat /\ h \in Nat /\ c \in Nat /\ c <= MaxCrash /\ MaxCrash \in Nat
    BY <1>0, <1>1, <1>2, <1>4, Numbers, Constants
  <2>2. Paid(i, k)' BY <1>2, <1>3, <1>15
  <2>3. h <= h + Slack BY <2>1, Margins
  <2>4. ASSUME <<i, k>> \notin dropped
        PROVE  h <= l + MaxCrash /\ \A m \in Node : height[m] < l + MaxCrash + Slack + Skew
    <3>1. LockFits(i, k) BY <1>0, <1>1, <1>2, <1>3 DEF Locks
    <3>2. h <= l + c /\ (~tick[i] => h < l + c)
      BY <1>0, <2>4, <3>1 DEF LockFits, Made
    <3>3. ASSUME NEW m \in Node PROVE height[m] < l + MaxCrash + Slack + Skew
      <4>1. height[m] <= h + Skew /\ (tick[i] => height[m] < h + Skew) BY <1>0, <1>1, <1>2 DEF Clocks
      <4>2. height[m] \in Nat BY <1>0, <1>1, Numbers
      <4> HIDE DEF l, h, c
      <4> QED BY <2>1, <3>2, <4>1, <4>2, Margins
    <3> HIDE DEF l, h, c
    <3> QED BY <2>1, <3>2, <3>3, Margins
  <2>5. htlc'[i][k].lock = l BY <1>2, <1>3, <1>14
  <2>6. height[i] = h OBVIOUS
  <2> HIDE DEF l, h
  <2> QED BY <1>0, <1>18, <2>1, <2>2, <2>3, <2>4, <2>5, <2>6 DEF ClaimFits
<1>19. Tasks'
  <2> SUFFICES ASSUME NEW m \in Node, NEW u \in task'[m]
               PROVE  IF u.kind = "offer" THEN OfferFits(m, u)' ELSE ClaimFits(m, u)'
    BY DEF Tasks
  <2>1. CASE u \in task[m]
    <3>1. IF u.kind = "offer" THEN OfferFits(m, u) ELSE ClaimFits(m, u)
      BY Zenon, <1>0, <1>1, <2>1 DEF Tasks
    <3>2. u.hash \in Hash BY <1>0, <1>1, <2>1, TaskFields
    <3>3. ASSUME u.kind = "offer", OfferFits(m, u) PROVE OfferFits(m, u)'
      <4>1. m > 1 => htlc[m - 1][u.hash].st = "locked" /\ m - 1 \in Chan
        BY <3>3, Channels DEF OfferFits
      <4>2. m > 1 => htlc'[m - 1][u.hash] = htlc[m - 1][u.hash]
        <5> SUFFICES ASSUME m > 1, m - 1 = i, u.hash = k PROVE FALSE
          BY <1>8, <3>2, <4>1
        <5>1. m = n BY Constants DEF Node
        <5>2. n < N BY <3>3, <5>1, Channels DEF OfferFits
        <5>3. Offers(n, u, k) BY <2>1, <3>3, <5>1 DEF Offers
        <5> QED BY <1>17, <5>2, <5>3
      <4> QED BY <1>0, <3>3, <4>1, <4>2, OfferKept
    <3>4. ASSUME ClaimFits(m, u) PROVE ClaimFits(m, u)'
      <4>1. m < N => Paid(m, u.hash) /\ m \in Chan BY <3>4, Channels DEF ClaimFits
      <4>2. m < N => Paid(m, u.hash)' /\ htlc'[m][u.hash].lock = htlc[m][u.hash].lock
        BY <1>14, <1>15, <3>2, <4>1
      <4> QED BY <1>0, <3>4, <4>2, ClaimKept
    <3> QED BY <3>1, <3>3, <3>4
  <2>2. CASE u \notin task[m]
    <3>1. m = i /\ u = up BY <1>9, <2>2
    <3>2. ClaimFits(m, u)' BY <1>6, <1>18, <3>1
    <3> QED BY <1>6, <3>1, <3>2
  <2> QED BY <2>1, <2>2
<1>20. n < N => \A b \in Chan : n <= b => Paid(b, k)
  <2>1. n < N => Paid(n, k) /\ n \in Chan BY <1>7, Channels DEF ClaimFits
  <2> QED BY <1>0, <1>1, <1>3, <2>1 DEF Downstream
<1>21. Downstream'
  <2> SUFFICES ASSUME NEW a \in Chan, NEW b \in Chan, NEW l \in Hash, a <= b, Paid(a, l)'
               PROVE  Paid(b, l)'
    BY DEF Downstream
  <2>1. CASE Paid(a, l)
    <3>1. Paid(b, l) BY <1>0, <1>1, <2>1 DEF Downstream
    <3> QED BY <1>15, <3>1
  <2>2. CASE a = i /\ l = k
    <3>1. b = i \/ (n < N /\ n <= b) BY <2>2, ChanNumbers
    <3>2. CASE b = i
      BY <1>15, <2>2, <3>2
    <3>3. CASE n < N /\ n <= b
      BY <1>15, <1>20, <2>2, <3>3
    <3> QED BY <3>1, <3>2, <3>3
  <2> QED BY <1>15, <2>1, <2>2
<1>22. Entries'
  <2> SUFFICES ASSUME NEW m \in Node, NEW j \in DOMAIN inprog'[m]
               PROVE  EntryFits(m, inprog[m][j])'
    BY DEF Entries, EntryFits
  <2>1. \/ inprog'[m] = inprog[m]
        \/ inprog'[m] = Mark(m, k, TRUE) /\ (m = n \/ m = i)
    BY <1>0, <1>1, <1>2 DEF Types
  <2>2. j \in DOMAIN inprog[m]
    <3>1. CASE inprog'[m] = inprog[m] BY <3>1
    <3>2. CASE inprog'[m] = Mark(m, k, TRUE)
      <4>1. DOMAIN Mark(m, k, TRUE) = DOMAIN inprog[m] BY <1>0, <1>1, MarkEntries
      <4> QED BY <3>2, <4>1
    <3> QED BY <2>1, <3>1, <3>2
  <2> DEFINE e == inprog[m][j]
  <2>3. e \in EntryType /\ e.hash \in Hash \cup {NoHash}
    <3>1. e \in EntryType BY <1>0, <1>1, <2>2, ElementOfSeq, LenProperties DEF Types
    <3> QED BY <3>1 DEF EntryType
  <2>4. inprog'[m][j] = e \/ (inprog'[m][j].hash = k /\ inprog'[m][j].pre /\ (m = n \/ m = i))
    <3>1. CASE inprog'[m] = inprog[m] BY <3>1
    <3>2. CASE inprog'[m] = Mark(m, k, TRUE) /\ (m = n \/ m = i)
      <4>1. Mark(m, k, TRUE)[j] = e \/ (Mark(m, k, TRUE)[j].hash = k /\ Mark(m, k, TRUE)[j].pre)
        <5>1. \A x \in DOMAIN inprog[m] :
                \/ Mark(m, k, TRUE)[x] = inprog[m][x]
                \/ Mark(m, k, TRUE)[x].hash = k /\ Mark(m, k, TRUE)[x].pre
          BY ONLY <1>1, MarkEntries, m \in Node
        <5> QED BY <2>2, <5>1
      <4> HIDE DEF e
      <4> QED BY <3>2, <4>1
    <3> QED BY <2>1, <3>1, <3>2
  <2>5. CASE inprog'[m][j] = e
    <3>1. EntryFits(m, e) BY <1>0, <1>1, <2>2 DEF Entries, EntryFits
    <3>2. /\ m < N /\ e.pre => e.hash # NoHash /\ Paid(m, e.hash)'
          /\ m = 1 /\ e.ok /\ ~e.pre => e.hash # NoHash /\ TakenBack(e.hash)'
      <4>1. (m < N => m \in Chan) /\ 1 \in Chan BY Channels
      <4>2. \A c \in Chan : e.hash # NoHash /\ Paid(c, e.hash) => Paid(c, e.hash)'
        <5> SUFFICES ASSUME NEW c \in Chan, e.hash # NoHash, Paid(c, e.hash) PROVE Paid(c, e.hash)'
          OBVIOUS
        <5>1. \A l \in Hash : Paid(c, l) => htlc'[c][l].st = "paid" BY <1>5, <1>8 DEF Paid
        <5> QED BY <2>3, <2>5, <5>1 DEF Paid
      <4>3. e.hash # NoHash /\ TakenBack(e.hash) => TakenBack(e.hash)'
        <5> SUFFICES ASSUME e.hash # NoHash, TakenBack(e.hash) PROVE TakenBack(e.hash)'
          OBVIOUS
        <5>1. \A l \in Hash : TakenBack(l) => htlc'[1][l].st = "refunded"
          <6>1. htlc[i][k].st = "locked" BY <1>0 DEF Uncleared
          <6> QED BY <6>1, <1>8, Channels DEF TakenBack
        <5> QED BY <2>3, <2>5, <5>1 DEF TakenBack
      <4> QED BY <3>1, <2>5, <4>1, <4>2, <4>3 DEF EntryFits
    <3> QED BY <2>5, <3>2 DEF EntryFits
  <2>6. CASE inprog'[m][j].hash = k /\ inprog'[m][j].pre /\ (m = n \/ m = i)
    <3>2. m < N => htlc'[m][k].st = "paid"
      <4>1. m < N => m \in Chan BY Channels
      <4>2. n < N => Paid(n, k) BY <1>7 DEF ClaimFits
      <4>3. CASE m = i
        BY <1>3, <1>5, <1>8, <1>2, <4>3
      <4>4. CASE m = n
        BY <1>2, <1>3, <1>8, <4>1, <4>2, <4>4 DEF Paid
      <4> QED BY <2>6, <4>3, <4>4
    <3>4. 1 < N BY ChanNumbers
    <3> HIDE DEF e
    <3> QED BY <1>3, <2>6, <3>2, <3>4 DEF EntryFits, Paid
  <2> QED BY <2>4, <2>5, <2>6
<1>23. Hops'
  <2> SUFFICES ASSUME NEW m \in 2 .. N - 1, NEW l \in Hash, <<m, l>> \notin dropped
               PROVE  /\ Paid(m, l)' => \/ Paid(m - 1, l)'
                                        \/ /\ htlc'[m - 1][l].st = "locked"
                                           /\ \E u \in task'[m] : u.kind = "claim" /\ u.hash = l
                      /\ htlc'[m][l].st = "locked" => htlc'[m - 1][l].st # "refunded"
    BY <1>0 DEF Hops, Hop
  <2>1. m \in Chan /\ m \in Node /\ m - 1 \in Chan /\ m > 1 /\ m \in Int BY Channels
  <2>2. /\ Paid(m, l) => \/ Paid(m - 1, l)
                         \/ /\ htlc[m - 1][l].st = "locked"
                            /\ \E u \in task[m] : u.kind = "claim" /\ u.hash = l
        /\ htlc[m][l].st = "locked" => htlc[m - 1][l].st # "refunded"
    BY <1>0, <1>1 DEF Hops, Hop
  <2>3. CASE m = n /\ l = k
    <3>1. Paid(m - 1, l)' BY <1>2, <1>15, <2>3
    <3>2. htlc'[m - 1][l].st = "paid" BY <3>1 DEF Paid
    <3> QED BY <3>1, <3>2
  <2>4. CASE m = i /\ l = k
    <3>1. htlc[m][l].st = "locked" BY <1>0, <2>4
    <3>2. Made(m - 1, l)
      <4>1. Made(m, l) BY <3>1 DEF Made
      <4>2. Begun(m, l) BY <1>0, <1>1, <2>1, <4>1 DEF OneAtATime, Once
      <4> QED BY <2>1, <4>2 DEF Begun
    <3>3. htlc[m - 1][l].st \in {"locked", "paid"}
      BY <1>0, <1>1, <2>1, <2>2, <3>1, <3>2, HtlcFields DEF Made
    <3>4. htlc'[m - 1][l] = htlc[m - 1][l] BY <1>8, <2>1, <2>4
    <3>5. up \in task'[m] BY <1>2, <1>9, <2>4
    <3>6. htlc'[m][l].st # "locked" BY <1>5, <1>8, <2>1, <2>4
    <3>7. \E u \in task'[m] : u.kind = "claim" /\ u.hash = l BY <1>6, <2>4, <3>5
    <3> QED BY <3>3, <3>4, <3>6, <3>7 DEF Paid
  <2>5. CASE ~(m = n /\ l = k) /\ ~(m = i /\ l = k)
    <3>1. htlc'[m][l] = htlc[m][l] BY <1>8, <2>1, <2>5
    <3>2. htlc'[m - 1][l] = htlc[m - 1][l]
      <4>1. n \in Int BY Constants DEF Node
      <4>2. ~(m - 1 = i /\ l = k) BY <2>1, <2>5, <4>1
      <4> QED BY <1>8, <2>1, <4>2
    <3>3. \A u \in task[m] : u.kind = "claim" /\ u.hash = l => u \in task'[m]
      BY <1>9, <2>1, <2>5
    <3>4. htlc[m][l].st = "locked" => htlc[m - 1][l].st # "refunded" BY <2>2
    <3>5. Paid(m, l) => Paid(m - 1, l) \/ (htlc[m - 1][l].st = "locked" /\ \E u \in task'[m] : u.kind = "claim" /\ u.hash = l)
      BY <2>2, <3>3
    <3> QED BY <3>1, <3>2, <3>4, <3>5 DEF Paid
  <2> QED BY <2>3, <2>4, <2>5
<1> QED BY <1>10, <1>11, <1>13, <1>16, <1>19, <1>21, <1>22, <1>23 DEF Inv

LEMMA ClaimHTLCInv ==
  ASSUME Inv, NEW n \in Node, NEW t \in task[n], ClaimHTLC(n, t)
  PROVE  Inv'
<1> DEFINE i == n - 1
           k == t.hash
           done == i > 0 /\ Uncleared(i, k) /\ (Usable(i) \/ chan[i] = "closed")
<1>1. Types /\ t.kind = "claim" BY DEF Inv, ClaimHTLC
<1>2. UNCHANGED <<net, chan, conn, height, tick, drawn, faults>>
  BY DEF ClaimHTLC
<1>3. CASE done
  <2>1. i \in Chan
    <3>1. n \in Int /\ i > 0 BY <1>3, ChanNumbers
    <3>2. n > 1 BY <3>1
    <3> QED BY <3>2, Channels
  <2> QED BY <1>1, <1>3, <2>1, ClaimDoneInv
<1>4. CASE ~done
  <2>1. /\ task' = [task EXCEPT ![n] = @ \ {t}]
        /\ dropped' = dropped \cup {<<n, k>>}
        /\ UNCHANGED <<htlc, inprog>>
    BY <1>4 DEF ClaimHTLC
  <2> QED BY <1>1, <1>2, <2>1, ClaimDroppedInv
<1> QED BY <1>3, <1>4

-----------------------------------------------------------------------------
(* A node takes back its HTLCs that have expired.  By then the next hop    *)
(* has no offer, HTLC or claim left that the HTLC would have to pay for.   *)
LEMMA TimedOutEntries ==
  ASSUME Types, NEW n \in Node, NEW ks
  PROVE  /\ TimedOut(inprog[n], ks) \in Seq(EntryType)
         /\ DOMAIN TimedOut(inprog[n], ks) = DOMAIN inprog[n]
         /\ \A j \in DOMAIN inprog[n] :
              \/ TimedOut(inprog[n], ks)[j] = inprog[n][j]
              \/ TimedOut(inprog[n], ks)[j].hash \in ks /\ TimedOut(inprog[n], ks)[j].pre = FALSE
<1> DEFINE s == inprog[n]
           l == Len(s)
           q == TimedOut(s, ks)
<1>1. s \in Seq(EntryType) /\ l \in Nat /\ DOMAIN s = 1 .. l /\ s \in [1 .. l -> EntryType]
  BY LenProperties DEF Types
<1>2. q = [j \in 1 .. l |-> IF s[j].hash \in ks /\ ~s[j].ok
                            THEN [s[j] EXCEPT !.ok = TRUE, !.pre = FALSE] ELSE s[j]]
  BY <1>1 DEF TimedOut
<1> HIDE DEF s, l, q
<1>3. \A j \in 1 .. l : /\ [s[j] EXCEPT !.ok = TRUE, !.pre = FALSE] \in EntryType /\ s[j] \in EntryType
                        /\ [s[j] EXCEPT !.ok = TRUE, !.pre = FALSE].hash = s[j].hash
                        /\ [s[j] EXCEPT !.ok = TRUE, !.pre = FALSE].pre = FALSE
  BY <1>1 DEF EntryType
<1>4. q \in [1 .. l -> EntryType] /\ DOMAIN q = 1 .. l
  BY <1>2, <1>3
<1>5. \A j \in 1 .. l : q[j] = s[j] \/ (q[j].hash \in ks /\ q[j].pre = FALSE)
  BY <1>2, <1>3
<1>6. q \in Seq(EntryType) BY <1>1, <1>4, SeqDef
<1> QED BY <1>1, <1>4, <1>5, <1>6 DEF s, q

LEMMA TimeoutsEffect ==
  ASSUME Inv, NEW n \in Node, ClaimHTLCTimeouts(n)
  PROVE  /\ Types'
         /\ \A m \in Chan, l \in Hash :
              IF m = n /\ l \in Agreed(n)
              THEN /\ htlc[m][l].st = "locked" /\ htlc[m][l].lock <= height[n]
                   /\ htlc'[m][l].st = "refunded" /\ htlc'[m][l].lock = htlc[m][l].lock
              ELSE htlc'[m][l] = htlc[m][l]
         /\ \A m \in Node : tick'[m] = IF m = n THEN FALSE ELSE tick[m]
         /\ dropped \subseteq dropped'
         /\ \A l \in Hash : n \in Chan /\ l \notin Agreed(n) /\ <<n, l>> \notin dropped' /\ htlc[n][l].st = "locked"
              => height[n] < htlc[n][l].lock
         /\ \A m \in Node : DOMAIN inprog'[m] = DOMAIN inprog[m]
         /\ \A m \in Node : \A j \in DOMAIN inprog[m] :
              \/ inprog'[m][j] = inprog[m][j]
              \/ inprog'[m][j].pre = FALSE /\ (m = 1 => n = 1 /\ inprog'[m][j].hash \in Agreed(n))
         /\ UNCHANGED <<net, task, conn, height, drawn, faults>>
<1> DEFINE a == Agreed(n)
           f == Expired(n) \ Agreed(n)
           r == [k \in Hash |-> IF k \in a THEN [htlc[n][k] EXCEPT !.st = "refunded"] ELSE htlc[n][k]]
           c == IF Usable(n) /\ f # {} THEN "failed" ELSE chan[n]
<1>1. Types BY DEF Inv
<1> HIDE DEF a
<1>2. PICK x \in SUBSET a :
      /\ htlc' = [htlc EXCEPT ![n] = r]
      /\ chan' = [chan EXCEPT ![n] = c]
      /\ inprog' = IF chan[n] = "closed" \/ n = N THEN inprog
                   ELSE [inprog EXCEPT ![n] = TimedOut(@, x), ![n + 1] = TimedOut(@, a)]
      /\ dropped' = dropped \cup {<<n, k>> : k \in f}
      /\ tick' = [tick EXCEPT ![n] = FALSE]
      /\ UNCHANGED <<net, task, conn, height, drawn, faults>>
  BY DEF ClaimHTLCTimeouts, a
<1>3. a \subseteq Hash /\ f \subseteq Hash
      /\ (n \in Chan => \A k \in a : htlc[n][k].st = "locked" /\ height[n] >= htlc[n][k].lock)
  BY DEF a, Agreed, Expired, Uncleared
<1>4. n \in Chan => \A k \in Hash : htlc[n][k] \in HtlcType BY <1>1 DEF Types
<1> HIDE DEF a, f
<1>5. n \in Chan => r \in [Hash -> HtlcType]
  <2>1. n \in Chan => \A k \in Hash : [htlc[n][k] EXCEPT !.st = "refunded"] \in HtlcType
    BY <1>4 DEF HtlcType
  <2> QED BY <1>4, <2>1
<1>6. \A k \in Hash : r[k] = IF k \in a THEN [htlc[n][k] EXCEPT !.st = "refunded"] ELSE htlc[n][k]
  OBVIOUS
<1>7. n \in Chan => \A k \in a : r[k].st = "refunded" /\ r[k].lock = htlc[n][k].lock
  BY <1>3, <1>4, <1>6 DEF HtlcType
<1>8. n \in Chan => c \in {"open", "failed", "closed"} BY <1>1 DEF Types
<1>9. n # N => n + 1 \in Node /\ n + 1 # 1 /\ n + 1 # n BY Channels, ChanNumbers
<1> HIDE DEF r, c
<1>11. \A m \in Chan, l \in Hash : htlc'[m][l] = IF m = n THEN r[l] ELSE htlc[m][l]
  BY <1>1, <1>2 DEF Types
<1>12. \A m \in Chan, l \in Hash :
              IF m = n /\ l \in Agreed(n)
              THEN /\ htlc[m][l].st = "locked" /\ htlc[m][l].lock <= height[n]
                   /\ htlc'[m][l].st = "refunded" /\ htlc'[m][l].lock = htlc[m][l].lock
              ELSE htlc'[m][l] = htlc[m][l]
  <2> SUFFICES ASSUME NEW m \in Chan, NEW l \in Hash
               PROVE  IF m = n /\ l \in a
                      THEN /\ htlc[m][l].st = "locked" /\ htlc[m][l].lock <= height[n]
                           /\ htlc'[m][l].st = "refunded" /\ htlc'[m][l].lock = htlc[m][l].lock
                      ELSE htlc'[m][l] = htlc[m][l]
    BY DEF a
  <2>1. CASE m = n /\ l \in a
    <3>1. htlc[m][l].st = "locked" /\ height[n] >= htlc[n][l].lock BY <1>3, <2>1
    <3>2. height[n] \in Nat /\ htlc[n][l].lock \in Nat BY <1>1, <2>1, Numbers, HtlcFields
    <3>3. htlc'[m][l].st = "refunded" /\ htlc'[m][l].lock = htlc[m][l].lock
      BY <1>7, <1>11, <2>1
    <3> QED BY <2>1, <3>1, <3>2, <3>3
  <2>2. CASE ~(m = n /\ l \in a)
    BY <1>6, <1>11, <2>2
  <2> QED BY <2>1, <2>2
<1>13. ASSUME NEW l \in Hash, n \in Chan, l \notin Agreed(n), <<n, l>> \notin dropped', htlc[n][l].st = "locked"
       PROVE  height[n] < htlc[n][l].lock
  <2>1. l \notin f BY <1>2, <1>13
  <2>2. l \notin Expired(n) BY <2>1, <1>13 DEF f
  <2>3. ~(height[n] >= htlc[n][l].lock) BY <2>2, <1>13, Channels DEF Expired, Uncleared
  <2>4. height[n] \in Nat /\ htlc[n][l].lock \in Nat BY <1>1, <1>13, Numbers, HtlcFields
  <2> QED BY <2>3, <2>4
<1>14. \A m \in Node : /\ DOMAIN inprog'[m] = DOMAIN inprog[m]
                       /\ inprog'[m] \in Seq(EntryType)
                       /\ \A j \in DOMAIN inprog[m] :
                            \/ inprog'[m][j] = inprog[m][j]
                            \/ inprog'[m][j].pre = FALSE /\ (m = 1 => n = 1 /\ inprog'[m][j].hash \in Agreed(n))
  <2>1. CASE inprog' = inprog
    BY <1>1, <2>1 DEF Types
  <2>2. CASE n # N /\ inprog' = [inprog EXCEPT ![n] = TimedOut(@, x), ![n + 1] = TimedOut(@, a)]
    <3> SUFFICES ASSUME NEW m \in Node
                 PROVE  /\ DOMAIN inprog'[m] = DOMAIN inprog[m]
                        /\ inprog'[m] \in Seq(EntryType)
                        /\ \A j \in DOMAIN inprog[m] :
                             \/ inprog'[m][j] = inprog[m][j]
                             \/ inprog'[m][j].pre = FALSE /\ (m = 1 => n = 1 /\ inprog'[m][j].hash \in a)
      BY DEF a
    <3>0. n + 1 # n /\ n + 1 # 1 BY <1>9, <2>2
    <3>1. CASE m = n + 1
      <4>1. inprog'[m] = TimedOut(inprog[m], a) BY <1>1, <2>2, <3>0, <3>1 DEF Types
      <4>2. /\ TimedOut(inprog[m], a) \in Seq(EntryType)
            /\ DOMAIN TimedOut(inprog[m], a) = DOMAIN inprog[m]
            /\ \A j \in DOMAIN inprog[m] :
                 \/ TimedOut(inprog[m], a)[j] = inprog[m][j]
                 \/ TimedOut(inprog[m], a)[j].hash \in a /\ TimedOut(inprog[m], a)[j].pre = FALSE
        BY <1>1, TimedOutEntries
      <4> QED BY <3>0, <3>1, <4>1, <4>2
    <3>2. CASE m = n
      <4>1. inprog'[m] = TimedOut(inprog[m], x) BY <1>1, <2>2, <3>0, <3>2 DEF Types
      <4>2. /\ TimedOut(inprog[m], x) \in Seq(EntryType)
            /\ DOMAIN TimedOut(inprog[m], x) = DOMAIN inprog[m]
            /\ \A j \in DOMAIN inprog[m] :
                 \/ TimedOut(inprog[m], x)[j] = inprog[m][j]
                 \/ TimedOut(inprog[m], x)[j].hash \in x /\ TimedOut(inprog[m], x)[j].pre = FALSE
        BY <1>1, TimedOutEntries
      <4> QED BY <3>0, <3>2, <4>1, <4>2
    <3>3. CASE m # n /\ m # n + 1
      <4>1. inprog'[m] = inprog[m] BY <1>1, <2>2, <3>3 DEF Types
      <4> QED BY <1>1, <4>1 DEF Types
    <3> QED BY <3>1, <3>2, <3>3
  <2> QED BY <1>2, <2>1, <2>2
<1>15. Types'
  <2>1. htlc' \in [Chan -> [Hash -> HtlcType]] BY <1>1, <1>2, <1>5 DEF Types
  <2>2. chan' \in [Chan -> {"open", "failed", "closed"}] BY <1>1, <1>2, <1>8 DEF Types
  <2>3. inprog' \in [Node -> Seq(EntryType)]
    <3>1. inprog' = [m \in Node |-> inprog'[m]] BY <1>1, <1>2 DEF Types
    <3> QED BY <1>14, <3>1
  <2>4. tick' \in [Node -> BOOLEAN] BY <1>1, <1>2 DEF Types
  <2> QED BY <1>1, <1>2, <2>1, <2>2, <2>3, <2>4 DEF Types
<1>16. \A m \in Node : tick'[m] = IF m = n THEN FALSE ELSE tick[m] BY <1>1, <1>2 DEF Types
<1>17. dropped \subseteq dropped' BY <1>2
<1> QED BY <1>2, <1>12, <1>13, <1>14, <1>15, <1>16, <1>17

LEMMA ClaimHTLCTimeoutsInv ==
  ASSUME Inv, NEW n \in Node, ClaimHTLCTimeouts(n)
  PROVE  Inv'
<1>1. Types /\ Clocks /\ OneAtATime /\ Locks /\ Tasks /\ Downstream /\ Entries /\ Hops
  BY DEF Inv
<1> DEFINE a == Agreed(n)
<1>2. /\ Types'
      /\ \A m \in Node : tick'[m] = IF m = n THEN FALSE ELSE tick[m]
      /\ dropped \subseteq dropped'
      /\ UNCHANGED <<net, task, conn, height, drawn, faults>>
  BY TimeoutsEffect
<1>3. \A m \in Chan, l \in Hash :
        IF m = n /\ l \in a
        THEN /\ htlc[m][l].st = "locked" /\ htlc[m][l].lock <= height[n]
             /\ htlc'[m][l].st = "refunded" /\ htlc'[m][l].lock = htlc[m][l].lock
        ELSE htlc'[m][l] = htlc[m][l]
  BY TimeoutsEffect
<1>4. \A l \in Hash : n \in Chan /\ l \notin a /\ <<n, l>> \notin dropped' /\ htlc[n][l].st = "locked"
              => height[n] < htlc[n][l].lock
  BY TimeoutsEffect
<1>5. \A m \in Node : DOMAIN inprog'[m] = DOMAIN inprog[m]
  BY TimeoutsEffect
<1>6. \A m \in Node : \A j \in DOMAIN inprog[m] :
        \/ inprog'[m][j] = inprog[m][j]
        \/ inprog'[m][j].pre = FALSE /\ (m = 1 => n = 1 /\ inprog'[m][j].hash \in Agreed(n))
  BY TimeoutsEffect
<1> HIDE DEF a
<1>7. \A m \in Node : height[m] \in Nat BY <1>1, Numbers
<1>8. \A m \in Chan, l \in Hash : htlc[m][l].lock \in Nat BY <1>1, HtlcFields
<1>9. Clocks' BY <1>1, <1>2, ClocksKept
<1>10. \A m \in Chan, l \in Hash : /\ Made(m, l)' <=> Made(m, l)
                                   /\ Paid(m, l)' <=> Paid(m, l)
                                   /\ htlc[m][l].st = "refunded" => htlc'[m][l].st = "refunded"
                                   /\ htlc'[m][l].lock = htlc[m][l].lock
                                   /\ htlc'[m][l].st = "locked" => htlc[m][l].st = "locked"
  <2> SUFFICES ASSUME NEW m \in Chan, NEW l \in Hash
               PROVE  /\ Made(m, l)' <=> Made(m, l)
                      /\ Paid(m, l)' <=> Paid(m, l)
                      /\ htlc[m][l].st = "refunded" => htlc'[m][l].st = "refunded"
                      /\ htlc'[m][l].lock = htlc[m][l].lock
                      /\ htlc'[m][l].st = "locked" => htlc[m][l].st = "locked"
    OBVIOUS
  <2>1. CASE m = n /\ l \in a
    BY <1>3, <2>1 DEF Made, Paid
  <2>2. CASE ~(m = n /\ l \in a)
    <3>1. htlc'[m][l] = htlc[m][l] BY <1>3, <2>2
    <3> QED BY <3>1 DEF Made, Paid
  <2> QED BY <2>1, <2>2
<1>11. OneAtATime'
  <2>1. net' \in [Node -> Seq(Message)] BY <1>2 DEF Types
  <2>2. drawn <= drawn' /\ drawn' \in Nat BY <1>1, <1>2, Numbers
  <2> QED BY <1>1, <1>2, <1>10, <2>1, <2>2, OneAtATimeQuiet
<1>12. Locks'
  <2> SUFFICES ASSUME NEW m \in Chan, NEW l \in Hash PROVE LockFits(m, l)'
    BY DEF Locks
  <2>1. LockFits(m, l) /\ m \in Node /\ (m > 1 => m - 1 \in Chan) BY <1>1, Channels DEF Locks
  <2>2. m > 1 => htlc'[m - 1][l].lock = htlc[m - 1][l].lock BY <1>10, <2>1
  <2>3. CASE m # n
    <3>1. tick'[m] = tick[m] BY <1>2, <2>1, <2>3
    <3>2. faults.crash <= faults'.crash BY <1>1, <1>2, Numbers
    <3> QED BY <1>1, <1>2, <1>10, <2>1, <2>2, <3>1, <3>2, LockKept
  <2>4. CASE m = n
    <3>1. ASSUME htlc'[m][l].st = "locked", <<m, l>> \notin dropped'
          PROVE  height[m] < htlc[m][l].lock + faults.crash /\ height[m] <= htlc[m][l].lock + faults.crash
      <4>1. htlc[m][l].st = "locked" /\ l \notin a BY <1>3, <1>10, <2>4, <3>1
      <4>2. height[m] < htlc[m][l].lock BY <1>4, <2>4, <3>1, <4>1
      <4>3. faults.crash \in Nat BY <1>1, Numbers
      <4> QED BY <1>7, <1>8, <2>1, <4>2, <4>3
    <3> QED BY <1>2, <1>10, <2>1, <2>2, <3>1 DEF LockFits
  <2> QED BY <2>3, <2>4
<1>13. Tasks'
  <2> SUFFICES ASSUME NEW m \in Node, NEW t \in task[m]
               PROVE  IF t.kind = "offer" THEN OfferFits(m, t)' ELSE ClaimFits(m, t)'
    BY <1>2 DEF Tasks
  <2>1. IF t.kind = "offer" THEN OfferFits(m, t) ELSE ClaimFits(m, t)
    BY Zenon, <1>1 DEF Tasks
  <2>2. t.hash \in Hash /\ t.born \in Nat BY <1>1, TaskFields
  <2>3. ASSUME OfferFits(m, t) PROVE OfferFits(m, t)'
    <3>1. m > 1 => m - 1 \in Chan BY Channels
    <3>2. m > 1 => htlc'[m - 1][t.hash] = htlc[m - 1][t.hash]
      <4> SUFFICES ASSUME m > 1, m - 1 = n, t.hash \in a PROVE FALSE
        BY <1>3, <2>2, <3>1
      <4>1. htlc[n][t.hash].lock <= height[n] /\ n \in Chan BY <1>3, <2>2, <3>1
      <4>2. height[m] <= t.born + Slack /\ t.born + 2 * DefaultLockTime <= htlc[n][t.hash].lock
        BY <2>3 DEF OfferFits
      <4>3. height[n] <= height[m] + Skew BY <1>1 DEF Clocks
      <4> QED BY <1>7, <1>8, <2>2, <4>1, <4>2, <4>3, Margins
    <3>3. m > 1 => htlc[m - 1][t.hash].st = "locked" BY <2>3 DEF OfferFits
    <3> QED BY <1>2, <2>3, <3>2, <3>3, OfferKept
  <2>4. ASSUME ClaimFits(m, t) PROVE ClaimFits(m, t)'
    <3>1. m < N => Paid(m, t.hash) /\ m \in Chan BY <2>4, Channels DEF ClaimFits
    <3>2. m < N => Paid(m, t.hash)' /\ htlc'[m][t.hash].lock = htlc[m][t.hash].lock
      BY <1>10, <2>2, <3>1
    <3> QED BY <1>2, <2>4, <3>2, ClaimKept
  <2> QED BY <2>1, <2>3, <2>4
<1>14. Downstream' BY <1>1, <1>10 DEF Downstream
<1>15. Entries'
  <2> SUFFICES ASSUME NEW m \in Node, NEW j \in DOMAIN inprog[m]
               PROVE  EntryFits(m, inprog[m][j])'
    BY <1>5 DEF Entries, EntryFits
  <2> DEFINE e == inprog[m][j]
  <2>1. e.hash \in Hash \cup {NoHash}
    <3>1. e \in EntryType BY <1>1, ElementOfSeq, LenProperties DEF Types
    <3> QED BY <3>1 DEF EntryType
  <2>2. CASE inprog'[m][j] = e
    <3>1. EntryFits(m, e) BY <1>1 DEF Entries, EntryFits
    <3>2. (m < N => m \in Chan) /\ 1 \in Chan BY Channels
    <3>3. \A c \in Chan : e.hash # NoHash /\ Paid(c, e.hash) => htlc'[c][e.hash].st = "paid"
      <4>1. \A c \in Chan, l \in Hash : Paid(c, l) => htlc'[c][l].st = "paid" BY <1>10 DEF Paid
      <4> QED BY <2>1, <4>1
    <3>4. /\ m < N /\ e.pre => e.hash # NoHash /\ htlc'[m][e.hash].st = "paid"
          /\ m = 1 /\ e.ok /\ ~e.pre => e.hash # NoHash /\ htlc'[1][e.hash].st = "refunded"
      <4>1. \A l \in Hash : TakenBack(l) => htlc'[1][l].st = "refunded"
        BY <1>10, <3>2 DEF TakenBack
      <4>2. e.hash # NoHash /\ TakenBack(e.hash) => htlc'[1][e.hash].st = "refunded"
        BY <2>1, <4>1
      <4> QED BY <3>1, <3>2, <3>3, <4>2 DEF EntryFits
    <3> HIDE DEF e
    <3> QED BY <2>2, <3>4 DEF EntryFits, Paid, TakenBack
  <2>3. CASE inprog'[m][j].pre = FALSE /\ (m = 1 => n = 1 /\ inprog'[m][j].hash \in a)
    <3>1. m = 1 => inprog'[m][j].hash # NoHash /\ htlc'[1][inprog'[m][j].hash].st = "refunded"
      <4> SUFFICES ASSUME m = 1
                   PROVE  inprog'[m][j].hash # NoHash /\ htlc'[1][inprog'[m][j].hash].st = "refunded"
        OBVIOUS
      <4>1. inprog'[m][j].hash \in a /\ n = 1 BY <2>3
      <4>2. a \subseteq Hash BY DEF a, Agreed, Expired
      <4>3. \A l \in a : htlc'[1][l].st = "refunded" BY <1>3, <4>1, <4>2, Channels
      <4>4. NoHash \notin Hash BY DEF NoHash, Hash
      <4> QED BY <4>1, <4>2, <4>3, <4>4
    <3> QED BY <2>3, <3>1 DEF EntryFits, TakenBack
  <2> QED BY <1>6, <2>2, <2>3 DEF a
<1>16. Hops'
  <2> SUFFICES ASSUME NEW m \in 2 .. N - 1, NEW l \in Hash, <<m, l>> \notin dropped'
               PROVE  /\ Paid(m, l)' => \/ Paid(m - 1, l)'
                                        \/ /\ htlc'[m - 1][l].st = "locked"
                                           /\ \E u \in task[m] : u.kind = "claim" /\ u.hash = l
                      /\ htlc'[m][l].st = "locked" => htlc'[m - 1][l].st # "refunded"
    BY <1>2 DEF Hops, Hop
  <2>1. m \in Chan /\ m \in Node /\ m - 1 \in Chan /\ m > 1 /\ m < N BY Channels
  <2>2. <<m, l>> \notin dropped BY <1>2
  <2>3. /\ Paid(m, l) => \/ Paid(m - 1, l)
                         \/ /\ htlc[m - 1][l].st = "locked"
                            /\ \E u \in task[m] : u.kind = "claim" /\ u.hash = l
        /\ htlc[m][l].st = "locked" => htlc[m - 1][l].st # "refunded"
    BY <1>1, <2>2 DEF Hops, Hop
  <2>4. CASE ~(m - 1 = n /\ l \in a)
    <3>1. htlc'[m - 1][l] = htlc[m - 1][l] BY <1>3, <2>1, <2>4
    <3> QED BY <1>10, <2>1, <2>3, <3>1 DEF Paid
  <2>5. CASE m - 1 = n /\ l \in a
    <3>1. htlc[n][l].st = "locked" /\ htlc[n][l].lock <= height[n] /\ n \in Chan
      BY <1>3, <2>1, <2>5
    <3> DEFINE o == htlc[m][l].lock
    <3>2. Made(m, l) => o + DefaultLockTime <= htlc[n][l].lock
      BY <1>1, <2>1, <2>5 DEF Locks, LockFits
    <3>3. o \in Nat /\ htlc[n][l].lock \in Nat /\ height[n] \in Nat /\ height[m] \in Nat
      BY <1>7, <1>8, <2>1, <3>1
    <3>4. ~Paid(m, l)
      <4> SUFFICES ASSUME Paid(m, l) PROVE FALSE
        OBVIOUS
      <4>1. ~Paid(m - 1, l) BY <2>5, <3>1 DEF Paid
      <4>2. PICK u \in task[m] : u.kind = "claim" /\ u.hash = l BY <2>3, <4>1
      <4>3. ClaimFits(m, u)
        <5>1. IF u.kind = "offer" THEN OfferFits(m, u) ELSE ClaimFits(m, u)
          BY Zenon, <1>1, <2>1 DEF Tasks
        <5> QED BY <4>2, <5>1
      <4>4. height[n] < o + MaxCrash + Slack + Skew
        BY <2>1, <2>2, <4>2, <4>3 DEF ClaimFits
      <4>5. Made(m, l) BY DEF Made, Paid
      <4> HIDE DEF o
      <4> QED BY <3>1, <3>2, <3>3, <4>4, <4>5, Margins
    <3>5. htlc[m][l].st # "locked"
      <4> SUFFICES ASSUME htlc[m][l].st = "locked" PROVE FALSE
        OBVIOUS
      <4> DEFINE c == faults.crash
      <4>1. c \in Nat /\ c <= MaxCrash BY <1>1, Numbers
      <4>2. Made(m, l) BY DEF Made
      <4>3. height[m] <= o + c /\ (~tick[m] => height[m] < o + c)
        BY <1>1, <2>1, <2>2, <4>2 DEF Locks, LockFits
      <4>4. height[n] <= height[m] + Skew /\ (tick[m] => height[n] < height[m] + Skew)
        BY <1>1, <2>1 DEF Clocks
      <4> HIDE DEF o, c
      <4> QED BY <3>1, <3>2, <3>3, <4>1, <4>2, <4>3, <4>4, Margins
    <3> QED BY <1>10, <2>1, <3>4, <3>5
  <2> QED BY <2>4, <2>5
<1> QED BY <1>2, <1>9, <1>11, <1>12, <1>13, <1>14, <1>15, <1>16 DEF Inv

-----------------------------------------------------------------------------
LEMMA StepInv == Inv /\ [PNext]_pvars => Inv'
<1> SUFFICES ASSUME Inv, [PNext]_pvars PROVE Inv'
  OBVIOUS
<1>1. ASSUME NEW amt \in Amt, PayMultihop(amt) PROVE Inv'
  BY <1>1, PayMultihopInv
<1>2. ASSUME NEW n \in Node, NEW t \in task[n], OfferHTLC(n, t) PROVE Inv'
  BY <1>2, OfferHTLCInv
<1>3. ASSUME NEW n \in Node, NEW t \in task[n], ClaimHTLC(n, t) PROVE Inv'
  BY <1>3, ClaimHTLCInv
<1>4. ASSUME NEW n \in Node, ClaimHTLCTimeouts(n) PROVE Inv'
  BY <1>4, ClaimHTLCTimeoutsInv
<1>5. ASSUME MultihopPaymentAckHandler PROVE Inv'
  BY <1>5, MultihopPaymentAckHandlerInv
<1>6. ASSUME MultihopPaymentRequestHandler PROVE Inv'
  BY <1>6, MultihopPaymentRequestHandlerInv
<1>7. ASSUME NEW n \in Node, n > 1, MultihopPaymentSetupHandler(n) PROVE Inv'
  BY <1>7, MultihopPaymentSetupHandlerInv
<1>8. ASSUME NEW n \in Node, NewBlock(n) PROVE Inv'
  BY <1>8, NewBlockInv
<1>9. ASSUME NEW n \in Node, Crash(n) PROVE Inv'
  BY <1>9, CrashInv
<1>10. ASSUME NEW i \in Chan, Reconnect(i) PROVE Inv'
  BY <1>10, ReconnectInv
<1>11. ASSUME NEW i \in Chan, BreakChannel(i) PROVE Inv'
  BY <1>11, BreakChannelInv
<1>12. CASE UNCHANGED pvars
  BY <1>12, ChannelOnly DEF pvars, Inv, Types
<1> QED BY <1>1, <1>2, <1>3, <1>4, <1>5, <1>6, <1>7, <1>8, <1>9, <1>10, <1>11, <1>12 DEF PNext, Run

(* Hashes are carried one at a time, lock times shrink by a margin at each *)
(* hop and claims are early enough, in every reachable state.              *)
THEOREM Invariance == PSpec => []Inv
<1>1. PInit => Inv BY InitInv
<1>2. Inv /\ [PNext]_pvars => Inv' BY StepInv
<1> QED BY <1>1, <1>2, PTL DEF PSpec

(* A hop that was taken money from with the preimage is not left without   *)
(* its own: ClaimHTLCTimeouts of the node before comes too late.           *)
THEOREM HopsAreCovered == PSpec => []HopNeverLoses
<1>1. Inv => HopNeverLoses
  <2> SUFFICES ASSUME Inv, NEW n \in 2 .. N - 1, NEW k \in Hash,
                      htlc[n][k].st = "paid", htlc[n - 1][k].st = "refunded", <<n, k>> \notin dropped
               PROVE  FALSE
    BY DEF HopNeverLoses
  <2>1. Hop(n, k) BY DEF Inv, Hops
  <2> QED BY <2>1 DEF Hop, Paid
<1> QED BY <1>1, Invariance, PTL

(* What RevHandler and the preimage of a peer let the payer list as        *)
(* succeeded, with a preimage, has been paid to the receiver; if the       *)
(* preimage is zero, the payer's own HTLC has been taken back.             *)
THEOREM CompletedIsPaid == PSpec => []SuccessMeansPaid
<1>1. Inv => SuccessMeansPaid
  <2> SUFFICES ASSUME Inv, NEW j \in DOMAIN inprog[1], inprog[1][j].ok
               PROVE  IF inprog[1][j].pre THEN htlc[N - 1][inprog[1][j].hash].st = "paid"
                                          ELSE htlc[1][inprog[1][j].hash].st = "refunded"
    BY Zenon DEF SuccessMeansPaid
  <2> DEFINE k == inprog[1][j].hash
  <2>1. 1 \in Node /\ 1 < N /\ 1 \in Chan /\ N - 1 \in Chan /\ 1 <= N - 1 BY Channels, ChanNumbers
  <2>2. /\ inprog[1][j].pre => k # NoHash /\ Paid(1, k)
        /\ ~inprog[1][j].pre => TakenBack(k)
    BY <2>1 DEF Inv, Entries
  <2>3. CASE inprog[1][j].pre
    <3>1. inprog[1][j] \in EntryType
      <4>1. inprog[1] \in Seq(EntryType) BY <2>1 DEF Inv, Types
      <4> QED BY <4>1, ElementOfSeq, LenProperties
    <3>2. k \in Hash BY <2>2, <2>3, <3>1 DEF EntryType
    <3>3. Paid(N - 1, k) BY <2>1, <2>2, <2>3, <3>2 DEF Inv, Downstream
    <3> QED BY <2>3, <3>3 DEF Paid
  <2>4. CASE ~inprog[1][j].pre
    BY <2>2, <2>4 DEF TakenBack
  <2> QED BY <2>3, <2>4
<1> QED BY <1>1, Invariance, PTL
=============================================================================
