----------------------------- MODULE Spv_proofs -----------------------------
(***************************************************************************)
(* Proofs about Spv, for any payments of others, any number of blocks, of  *)
(* reorganisations or of restarts, and any height to start from.           *)
(*                                                                         *)
(* The file of headers holds a chain of blocks of the node, from the       *)
(* first, but for holes where a rollback was written over; what the wallet *)
(* counts as confirmed is in that chain, at the height it says, unless the *)
(* rollback that takes it away is on its way.  At rest the file is the     *)
(* chain of the node.  That takes care of the whole cycle of the hook: one *)
(* question at a time, no new one before the blocks that the last one led  *)
(* to are handed up, and these in the order of their heights.              *)
(*                                                                         *)
(* It does not hold once the chain was both reorganised and lit restarted: *)
(* the header file and the height of the wallet are then read back as they *)
(* were, and the height alone says nothing of what it was the height of.   *)
(*                                                                         *)
(* Without a reorganisation more holds: blocks are asked for, come and are *)
(* handed up in the order of their heights, a transaction that is          *)
(* announced is seen before its block, and so all that is ours in the      *)
(* blocks handed up is in the database, or on its way there, but for what  *)
(* was missed around a restart.  At rest these are all the blocks of the   *)
(* node.                                                                   *)
(*                                                                         *)
(* What the user sends is announced, asked for and sent in one order, and  *)
(* none spends what is not ahead of it, so that the node takes it all, but *)
(* for what spends a transaction lost on its way at a restart.             *)
(***************************************************************************)
EXTENDS Spv, SequenceTheorems, FiniteSetTheorems, WellFoundedInduction, TLAPS

(* Sequences are used through their elements.                              *)
IsSeq(s) == s \in Seq(ToSet(s))

(* Positions of the messages of a type, and that there is at most one.     *)
At(q, type) == {i \in 1 .. Len(q) : q[i].type = type}
Single(S) == \A i \in S : \A j \in S : i = j

-----------------------------------------------------------------------------
(* The node.                                                               *)

(* Blocks that follow one another; a chain from the first one on, and one  *)
(* that starts later.                                                      *)
Linked(bs, s) == \A i \in 1 .. Len(s) - 1 : bs[s[i + 1]].prev = s[i]
Path(bs, c) == c \in Seq(1 .. Len(bs)) /\ Len(c) >= 1 /\ c[1] = 1 /\ Linked(bs, c)
Run(bs, s) == s \in Seq(2 .. Len(bs)) /\ Linked(bs, s)
Txs(bs, b) == ToSet(bs[b].txs)

Mined(bs) ==
  /\ IsSeq(bs) /\ 1 <= Len(bs)
  /\ bs[1].prev = 0
  /\ \A b \in 2 .. Len(bs) : bs[b].prev \in 1 .. Len(bs)
  /\ \A b \in 1 .. Len(bs) : IsSeq(bs[b].txs)

BlocksOK == Mined(blocks) /\ Path(blocks, best) /\ reorgs \in Nat /\ restarts \in Nat

(* A transaction is in one block of the best chain, or waits for it.       *)
Apart(bs, c, pool) ==
  \A i \in 1 .. Len(c) :
    /\ Txs(bs, c[i]) \cap pool = {}
    /\ \A j \in 1 .. Len(c) : Txs(bs, c[i]) \cap Txs(bs, c[j]) # {} => i = j
MinedOnce == Apart(blocks, best, mempool)

(* A payment, or a transaction of ours whose coin is booked as spent.      *)
Ours == ToSet(sends)
Booked(tx) == tx \in Payments \/ (tx \in Ours /\ tx.ins \subseteq stxos)

NodeTxs ==
  /\ \A tx \in mempool : Booked(tx)
  /\ \A b \in 1 .. Len(blocks) : \A tx \in Txs(blocks, b) : Booked(tx)

-----------------------------------------------------------------------------
(* The wallet.                                                             *)

SendsOK == IsSeq(sends) /\ \A tx \in Ours : tx.ins # {}

CoinsOK == \A op \in DOMAIN utxos : utxos[op] \in Nat /\ op \in Mine(op[1]) /\ op \notin stxos

SlotsOK ==
  /\ IsSeq(txUp) /\ Len(txUp) <= 1
  /\ \A u \in ToSet(txUp) : u.height \in Nat /\ Booked(u.tx)
  /\ heightUp = <<>> \/ heightUp = <<syncHeight>>
  /\ prev \in Nat /\ sync \in Nat /\ syncHeight \in Nat /\ StartHeight <= sync /\ StartHeight <= syncHeight
  /\ missed \in BOOLEAN

-----------------------------------------------------------------------------
(* The messages.                                                           *)

FromNode(m) ==
  /\ m.type \in {"invtx", "tx"} => m.tx \in Payments
  /\ m.type = "headers" => Run(blocks, m.hdrs)
  /\ m.type = "block" => m.id \in 1 .. Len(blocks)
ToTheNode(m) ==
  /\ m.type = "gettx" => m.tx \in Payments
  /\ m.type = "getblock" => m.id \in 0 .. Len(blocks)
  /\ m.type = "tx" => m.tx.ins # {} /\ (m.signed => Booked(m.tx))
FromOK == IsSeq(toSpv) /\ \A m \in ToSet(toSpv) : FromNode(m)
ToOK == IsSeq(toNode) /\ \A m \in ToSet(toNode) : ToTheNode(m)
MapOK == IsFiniteSet(TxMap) /\ \A t \in TxMap : t.tx.ins # {} /\ (t.signed => Booked(t.tx))

-----------------------------------------------------------------------------
(* The hook.                                                               *)

InBlock == inc # Idle /\ inc[1].block = TRUE

IncOK ==
  inc # Idle =>
    /\ inc = <<inc[1]>>
    /\ inc[1] = [txs |-> inc[1].txs, height |-> inc[1].height, block |-> inc[1].block, final |-> inc[1].final]
    /\ inc[1].block \in BOOLEAN /\ inc[1].final \in BOOLEAN
    /\ inc[1].height \in Nat /\ (inc[1].block = FALSE => inc[1].height = 0)
    /\ IsSeq(inc[1].txs) /\ \A tx \in ToSet(inc[1].txs) : Booked(tx)

(* Where the hook is in its cycle of questions: one at a time, and none    *)
(* while blocks are under way.                                             *)
Quiet == queue = <<>> /\ ~InBlock
Busy == hh # Idle /\ hh[1].pc # "blocks"
Requesting == hh # Idle /\ hh[1].pc = "blocks"
Asked == At(toNode, "getheaders") # {}
Told == At(toSpv, "headers") # {}

Cycle ==
  /\ Single(At(toNode, "getheaders")) /\ Single(At(toSpv, "headers"))
  /\ Asked => ~Told
  /\ Asked \/ Told => hh = Idle /\ ~wait /\ Quiet
  /\ wait \in BOOLEAN
  /\ wait => hh = Idle /\ Quiet

Handler ==
  hh # Idle =>
    /\ hh = <<hh[1]>> /\ hh[1].pc \in {"ingest", "more", "blocks"}
    /\ Busy => Quiet /\ Run(blocks, hh[1].hdrs)
    /\ Requesting =>
         /\ hh[1] = [pc |-> "blocks", hdrs |-> hh[1].hdrs, req |-> hh[1].req]
         /\ hh[1].req \in Nat /\ syncHeight <= hh[1].req
         /\ \A e \in ToSet(queue) : e.final = FALSE /\ e.height <= hh[1].req
         /\ InBlock => inc[1].final = FALSE /\ inc[1].height <= hh[1].req

FileSeq ==
  file \in Seq(Nat) /\ 1 <= Len(file) /\ \A i \in 1 .. Len(file) : file[i] <= Len(blocks)

QueueOK ==
  /\ IsSeq(queue)
  /\ \A i \in 1 .. Len(queue) :
       /\ queue[i].height \in Nat /\ queue[i].final \in BOOLEAN
       /\ syncHeight < queue[i].height /\ queue[i].height <= HeightOf(file)
       /\ InBlock => inc[1].height < queue[i].height
       /\ queue[i].final = TRUE => i = Len(queue)
       /\ \A j \in 1 .. Len(queue) : i < j => queue[i].height < queue[j].height
  /\ InBlock =>
       /\ syncHeight < inc[1].height /\ inc[1].height <= HeightOf(file)
       /\ inc[1].final = TRUE => queue = <<>>

-----------------------------------------------------------------------------
(* Without a reorganisation all is one line of blocks.                     *)

OneChain ==
  /\ Len(best) = Len(blocks) /\ \A i \in 1 .. Len(best) : best[i] = i
  /\ Len(file) <= Len(blocks) /\ \A i \in 1 .. Len(file) : file[i] = i
Next1(s) == \A i \in 1 .. Len(s) : s[i] = Len(file) + i
InStep ==
  /\ \A m \in ToSet(toNode) : m.type = "getheaders" => Len(file) \in m.locator /\ m.locator \subseteq 1 .. Len(file)
  /\ \A m \in ToSet(toSpv) : m.type = "headers" => Next1(m.hdrs)
  /\ hh # Idle /\ hh[1].pc = "ingest" => Next1(hh[1].hdrs)
  /\ sync <= syncHeight
Linear == reorgs = 0 => OneChain /\ InStep

-----------------------------------------------------------------------------
(* The file holds a chain, but for holes below what was asked for.         *)

FileOK(c) ==
  /\ Path(blocks, c) /\ Len(c) = Len(file)
  /\ \A i \in 1 .. Len(file) :
       file[i] = c[i] \/ (file[i] = Hole /\ StartHeight - 1 + i <= syncHeight /\ i < Len(file))
  /\ \A i \in 1 .. Len(queue) : queue[i].id = c[Index(queue[i].height)]
  /\ InBlock => ToSet(inc[1].txs) \subseteq Txs(blocks, c[Index(inc[1].height)])
  /\ syncHeight <= HeightOf(file)

(* What the wallet counts is in that chain, at the height that has been    *)
(* reached, unless a rollback that takes it away is on its way.            *)
Top == IF InBlock THEN inc[1].height ELSE syncHeight
Doomed(h) == heightUp # <<>> /\ heightUp[1] < h /\ heightUp[1] < prev
Placed(c, tx, h) == Index(h) \in 1 .. Len(c) /\ tx \in Txs(blocks, c[Index(h)])
Good(c, tx, h) == h > 0 => Doomed(h) \/ (Placed(c, tx, h) /\ (restarts = 0 => h <= Top))

Counts(c) ==
  ~missed =>
    /\ \A op \in DOMAIN utxos : Good(c, op[1], utxos[op])
    /\ \A u \in ToSet(txUp) : Good(c, u.tx, u.height)

Heights ==
  restarts = 0 /\ heightUp = <<>> => prev = syncHeight \/ (prev = 0 /\ syncHeight = StartHeight)

Tame == reorgs = 0 \/ restarts = 0
Chained == Tame => Heights /\ \E c : FileOK(c) /\ Counts(c)

Inv ==
  /\ BlocksOK /\ MinedOnce /\ NodeTxs
  /\ SendsOK /\ CoinsOK /\ SlotsOK
  /\ FromOK /\ ToOK /\ MapOK /\ IncOK /\ Cycle /\ Handler /\ FileSeq /\ QueueOK
  /\ Linear /\ Chained

-----------------------------------------------------------------------------
(* Sequences.                                                              *)

LEMMA NothingYet == IsSeq(<<>>) /\ ToSet(<<>>) = {} /\ Len(<<>>) = 0
  BY EmptySeq DEF IsSeq, ToSet

LEMMA Larger ==
  ASSUME NEW S, NEW T, S \subseteq T, NEW s \in Seq(S)
  PROVE  s \in Seq(T)
  OBVIOUS

LEMMA OwnElements ==
  ASSUME NEW S, NEW s \in Seq(S)
  PROVE  IsSeq(s)
<1>1. \A i \in 1 .. Len(s) : s[i] \in ToSet(s) BY DEF ToSet
<1> QED BY <1>1 DEF IsSeq

LEMMA Elements ==
  ASSUME NEW s, IsSeq(s)
  PROVE  /\ Len(s) \in Nat /\ DOMAIN s = 1 .. Len(s)
         /\ \A i \in 1 .. Len(s) : s[i] \in ToSet(s)
         /\ \A e \in ToSet(s) : \E i \in 1 .. Len(s) : s[i] = e
         /\ s = <<>> <=> Len(s) = 0
  BY DEF IsSeq, ToSet

LEMMA Grown ==
  ASSUME NEW s, IsSeq(s), NEW e
  PROVE  /\ IsSeq(Append(s, e)) /\ ToSet(Append(s, e)) = ToSet(s) \cup {e}
         /\ Len(Append(s, e)) = Len(s) + 1
         /\ \A i \in 1 .. Len(s) : Append(s, e)[i] = s[i]
         /\ Append(s, e)[Len(s) + 1] = e
<1> DEFINE T == ToSet(s) \cup {e}
           t == Append(s, e)
<1>1. s \in Seq(T) BY Larger DEF IsSeq
<1>2. /\ t \in Seq(T) /\ Len(t) = Len(s) + 1 /\ Len(s) \in Nat
      /\ \A i \in 1 .. Len(s) : t[i] = s[i]
      /\ t[Len(s) + 1] = e
  BY <1>1, AppendProperties
<1> HIDE DEF t
<1>3. DOMAIN t = 1 .. Len(s) + 1 /\ DOMAIN s = 1 .. Len(s) BY <1>1, <1>2
<1>4. ToSet(t) = T
  <2>1. \A i \in 1 .. Len(s) + 1 : i \in 1 .. Len(s) \/ i = Len(s) + 1 BY <1>2
  <2> QED BY <1>2, <1>3, <2>1 DEF ToSet
<1> QED BY <1>2, <1>4 DEF IsSeq, t

LEMMA Joined ==
  ASSUME NEW s, IsSeq(s), NEW t, IsSeq(t)
  PROVE  IsSeq(s \o t) /\ ToSet(s \o t) = ToSet(s) \cup ToSet(t) /\ Len(s \o t) = Len(s) + Len(t)
<1> DEFINE T == ToSet(s) \cup ToSet(t)
           u == s \o t
<1>1. s \in Seq(T) /\ t \in Seq(T) BY Larger DEF IsSeq
<1>2. /\ u \in Seq(T) /\ Len(u) = Len(s) + Len(t) /\ Len(s) \in Nat /\ Len(t) \in Nat
      /\ \A i \in 1 .. Len(s) + Len(t) : u[i] = IF i <= Len(s) THEN s[i] ELSE t[i - Len(s)]
  BY <1>1, ConcatProperties
<1> HIDE DEF u
<1>3. /\ DOMAIN u = 1 .. Len(s) + Len(t) /\ DOMAIN s = 1 .. Len(s) /\ DOMAIN t = 1 .. Len(t)
  BY <1>1, <1>2
<1>4. ToSet(u) \subseteq T BY <1>2, <1>3 DEF ToSet
<1>5. ToSet(s) \subseteq ToSet(u) BY <1>2, <1>3 DEF ToSet
<1>6. ASSUME NEW i \in 1 .. Len(t) PROVE t[i] \in ToSet(u)
  <2>1. Len(s) + i \in 1 .. Len(s) + Len(t) /\ ~(Len(s) + i <= Len(s)) /\ (Len(s) + i) - Len(s) = i
    BY <1>2
  <2>2. u[Len(s) + i] = t[i] BY <1>2, <2>1
  <2> QED BY <1>3, <2>1, <2>2 DEF ToSet
<1>7. ToSet(t) \subseteq ToSet(u) BY <1>3, <1>6 DEF ToSet
<1>8. ToSet(u) = T BY <1>4, <1>5, <1>7
<1> QED BY <1>2, <1>8 DEF IsSeq, u

LEMMA Shorter ==
  ASSUME NEW s, IsSeq(s), s # <<>>
  PROVE  /\ Head(s) \in ToSet(s) /\ IsSeq(Tail(s)) /\ ToSet(Tail(s)) \subseteq ToSet(s)
         /\ Len(Tail(s)) = Len(s) - 1 /\ Len(s) \in Nat \ {0}
<1>1. /\ Tail(s) \in Seq(ToSet(s)) /\ Head(s) = s[1] /\ Len(Tail(s)) = Len(s) - 1
      /\ Len(s) \in Nat \ {0}
      /\ \A i \in 1 .. Len(Tail(s)) : Tail(s)[i] = s[i + 1]
  BY HeadTailProperties DEF IsSeq
<1>2. DOMAIN s = 1 .. Len(s) /\ DOMAIN Tail(s) = 1 .. Len(s) - 1 BY <1>1 DEF IsSeq
<1>3. ToSet(Tail(s)) \subseteq ToSet(s)
  <2> SUFFICES ASSUME NEW i \in 1 .. Len(s) - 1 PROVE Tail(s)[i] \in ToSet(s)
    BY <1>2 DEF ToSet
  <2>1. i + 1 \in 1 .. Len(s) BY <1>1
  <2> QED BY <1>1, <1>2, <2>1 DEF ToSet
<1>4. IsSeq(Tail(s)) BY <1>1, OwnElements
<1> QED BY <1>1, <1>2, <1>3, <1>4 DEF ToSet

LEMMA Least ==
  ASSUME NEW S \in SUBSET Nat, S # {}
  PROVE  \E x \in S : \A y \in S : x <= y
<1>1. \E x \in S : \A y \in S : ~ (<<y, x>> \in OpToRel(<, Nat))
  BY NatLessThanWellFounded, WFMin
<1>2. ASSUME NEW x \in S, NEW y \in S, y < x PROVE <<y, x>> \in OpToRel(<, Nat)
  BY <1>2 DEF OpToRel
<1>3. ASSUME NEW x \in S, NEW y \in S, ~ (y < x) PROVE x <= y
  BY <1>3
<1> QED BY <1>1, <1>2, <1>3

-----------------------------------------------------------------------------
(* Messages of a type in a queue.                                          *)

LEMMA AtOther ==
  ASSUME NEW q, IsSeq(q), NEW m, NEW type, m.type # type
  PROVE  At(Append(q, m), type) = At(q, type)
<1> DEFINE a == Append(q, m)
<1>1. /\ Len(q) \in Nat /\ Len(a) = Len(q) + 1 /\ a[Len(q) + 1] = m
      /\ \A i \in 1 .. Len(q) : a[i] = q[i]
  BY Grown, Elements
<1> HIDE DEF a
<1>2. \A i \in 1 .. Len(a) : i \in 1 .. Len(q) \/ i = Len(q) + 1 BY <1>1
<1>3. \A i \in 1 .. Len(q) : i \in 1 .. Len(a) BY <1>1
<1>4. At(a, type) = At(q, type) BY <1>1, <1>2, <1>3 DEF At
<1> QED BY <1>4 DEF a

LEMMA AtFirst ==
  ASSUME NEW q, IsSeq(q), NEW m, NEW type, At(q, type) = {}
  PROVE  Single(At(Append(q, m), type))
<1> DEFINE a == Append(q, m)
<1>1. /\ Len(q) \in Nat /\ Len(a) = Len(q) + 1
      /\ \A i \in 1 .. Len(q) : a[i] = q[i]
  BY Grown, Elements
<1> HIDE DEF a
<1>2. \A i \in 1 .. Len(a) : i \in 1 .. Len(q) \/ i = Len(q) + 1 BY <1>1
<1>3. \A i \in At(a, type) : i = Len(q) + 1 BY <1>1, <1>2 DEF At
<1>4. Single(At(a, type)) BY <1>3 DEF Single
<1> QED BY <1>4 DEF a

LEMMA AtAdded ==
  ASSUME NEW q, IsSeq(q), NEW m, NEW type, m.type = type
  PROVE  At(Append(q, m), type) # {}
<1> DEFINE a == Append(q, m)
<1>1. Len(q) \in Nat /\ Len(a) = Len(q) + 1 /\ a[Len(q) + 1] = m BY Grown, Elements
<1> HIDE DEF a
<1>2. Len(q) + 1 \in At(a, type) BY <1>1 DEF At
<1> QED BY <1>2 DEF a

LEMMA AtTail ==
  ASSUME NEW q, IsSeq(q), q # <<>>, NEW type
  PROVE  \A i \in At(Tail(q), type) : i + 1 \in At(q, type) /\ i \in Nat /\ i >= 1
<1>1. /\ Len(Tail(q)) = Len(q) - 1 /\ Len(q) \in Nat
      /\ \A i \in 1 .. Len(Tail(q)) : Tail(q)[i] = q[i + 1]
  BY HeadTailProperties DEF IsSeq
<1>2. \A i \in 1 .. Len(Tail(q)) : i + 1 \in 1 .. Len(q) BY <1>1
<1> QED BY <1>1, <1>2 DEF At

LEMMA AtShorter ==
  ASSUME NEW q, IsSeq(q), q # <<>>, NEW type
  PROVE  At(q, type) = {} => At(Tail(q), type) = {}
  BY AtTail

LEMMA AtStillSingle ==
  ASSUME NEW q, IsSeq(q), q # <<>>, NEW type, Single(At(q, type))
  PROVE  Single(At(Tail(q), type))
<1>1. ASSUME NEW i \in At(Tail(q), type), NEW j \in At(Tail(q), type) PROVE i = j
  <2>1. i + 1 \in At(q, type) /\ j + 1 \in At(q, type) /\ i \in Nat /\ j \in Nat BY AtTail
  <2>2. i + 1 = j + 1 BY <2>1 DEF Single
  <2> QED BY <2>1, <2>2
<1> QED BY <1>1 DEF Single

LEMMA AtTaken ==
  ASSUME NEW q, IsSeq(q), q # <<>>, NEW type, Single(At(q, type)), Head(q).type = type
  PROVE  At(Tail(q), type) = {} /\ At(q, type) # {}
<1>1. 1 \in At(q, type)
  BY Shorter, HeadTailProperties DEF At, IsSeq
<1>2. ASSUME NEW i \in At(Tail(q), type) PROVE FALSE
  <2>1. i + 1 \in At(q, type) /\ i \in Nat /\ i >= 1 BY AtTail
  <2>2. i + 1 = 1 BY <1>1, <2>1 DEF Single
  <2> QED BY <2>1, <2>2
<1> QED BY <1>1, <1>2

LEMMA AtJoined ==
  ASSUME NEW q, IsSeq(q), NEW t, IsSeq(t), NEW type, \A m \in ToSet(t) : m.type # type
  PROVE  At(q \o t, type) = At(q, type)
<1> DEFINE u == q \o t
           T == ToSet(q) \cup ToSet(t)
<1>1. q \in Seq(T) /\ t \in Seq(T) BY Larger DEF IsSeq
<1>2. /\ Len(u) = Len(q) + Len(t) /\ Len(q) \in Nat /\ Len(t) \in Nat
      /\ \A i \in 1 .. Len(q) + Len(t) : u[i] = IF i <= Len(q) THEN q[i] ELSE t[i - Len(q)]
  BY <1>1, ConcatProperties
<1> HIDE DEF u
<1>3. ASSUME NEW i \in At(u, type) PROVE i \in At(q, type)
  <2>1. i \in 1 .. Len(q) + Len(t) /\ u[i].type = type BY <1>2 DEF At
  <2>2. CASE i <= Len(q) BY <1>2, <2>1, <2>2 DEF At
  <2>3. CASE ~(i <= Len(q))
    <3>1. i - Len(q) \in 1 .. Len(t) /\ u[i] = t[i - Len(q)] BY <1>2, <2>1, <2>3
    <3>2. t[i - Len(q)] \in ToSet(t) BY <3>1, Elements
    <3> QED BY <2>1, <3>1, <3>2
  <2> QED BY <2>2, <2>3
<1>4. ASSUME NEW i \in At(q, type) PROVE i \in At(u, type)
  <2>1. i \in 1 .. Len(q) /\ q[i].type = type BY DEF At
  <2>2. i \in 1 .. Len(q) + Len(t) /\ i <= Len(q) BY <1>2, <2>1
  <2>3. u[i] = q[i] BY <1>2, <2>2
  <2> QED BY <1>2, <2>1, <2>2, <2>3 DEF At
<1>5. At(u, type) = At(q, type) BY <1>3, <1>4
<1> QED BY <1>5 DEF u

LEMMA AtNone == \A type : At(<<>>, type) = {}
  BY NothingYet DEF At

LEMMA AtOne ==
  ASSUME NEW m, NEW type
  PROVE  Single(At(<<m>>, type)) /\ (m.type # type => At(<<m>>, type) = {})
  BY DEF At, Single

(* A sequence made of a set has its members.                               *)
LEMMA MadeOf ==
  ASSUME NEW S, IsFiniteSet(S)
  PROVE  IsSeq(SetToSeq(S)) /\ ToSet(SetToSeq(S)) \subseteq S
<1> DEFINE n == Cardinality(S)
<1>1. n \in Nat /\ ExistsBijection(1 .. n, S) BY FS_CardinalityType
<1>2. PICK f : f \in Bijection(1 .. n, S) BY <1>1 DEF ExistsBijection
<1>3. f \in [1 .. n -> S] /\ IsInjective(f)
  BY <1>2 DEF Bijection, Injection, IsInjective
<1>4. SetToSeq(S) \in [1 .. n -> S] BY <1>3 DEF SetToSeq
<1>5. SetToSeq(S) \in Seq(S) BY <1>1, <1>4
<1> QED BY <1>1, <1>4, <1>5, OwnElements DEF ToSet

-----------------------------------------------------------------------------
(* Chains of blocks.                                                       *)

(* Blocks are only added.                                                  *)
Extends(bs, new) ==
  /\ IsSeq(bs) /\ IsSeq(new) /\ Len(bs) <= Len(new)
  /\ \A b \in 1 .. Len(bs) : new[b] = bs[b]

LEMMA ExtendsTxs ==
  ASSUME NEW bs, NEW new, Extends(bs, new), NEW b \in 1 .. Len(bs)
  PROVE  Txs(new, b) = Txs(bs, b)
  BY DEF Extends, Txs

LEMMA PathStays ==
  ASSUME NEW bs, NEW new, Extends(bs, new), NEW c, Path(bs, c)
  PROVE  Path(new, c)
<1>1. Len(bs) \in Nat /\ Len(new) \in Nat BY Elements DEF Extends
<1>2. 1 .. Len(bs) \subseteq 1 .. Len(new) BY <1>1 DEF Extends
<1>3. c \in Seq(1 .. Len(bs)) /\ Len(c) \in Nat BY DEF Path
<1>4. c \in Seq(1 .. Len(new)) BY <1>2, <1>3, Larger
<1>5. ASSUME NEW i \in 1 .. Len(c) - 1 PROVE new[c[i + 1]].prev = c[i]
  <2>1. i + 1 \in 1 .. Len(c) BY <1>3
  <2>2. c[i + 1] \in 1 .. Len(bs) BY <1>3, <2>1
  <2> QED BY <2>2 DEF Extends, Path, Linked
<1> QED BY <1>4, <1>5 DEF Path, Linked

LEMMA RunStays ==
  ASSUME NEW bs, NEW new, Extends(bs, new), NEW c, Run(bs, c)
  PROVE  Run(new, c)
<1>1. Len(bs) \in Nat /\ Len(new) \in Nat BY Elements DEF Extends
<1>2. 2 .. Len(bs) \subseteq 2 .. Len(new) BY <1>1 DEF Extends
<1>3. c \in Seq(2 .. Len(bs)) /\ Len(c) \in Nat BY DEF Run
<1>4. c \in Seq(2 .. Len(new)) BY <1>2, <1>3, Larger
<1>5. ASSUME NEW i \in 1 .. Len(c) - 1 PROVE new[c[i + 1]].prev = c[i]
  <2>1. i + 1 \in 1 .. Len(c) BY <1>3
  <2>2. c[i + 1] \in 2 .. Len(bs) BY <1>3, <2>1
  <2>3. c[i + 1] \in 1 .. Len(bs) BY <2>2, <1>1
  <2> QED BY <2>3 DEF Extends, Run, Linked
<1> QED BY <1>4, <1>5 DEF Run, Linked

LEMMA RunNone == ASSUME NEW bs PROVE Run(bs, <<>>)
  BY EmptySeq DEF Run, Linked

(* A chain that a run of blocks continues.                                 *)
LEMMA PathJoined ==
  ASSUME NEW bs, NEW c, Path(bs, c), NEW r, Run(bs, r), r # <<>>,
         bs[r[1]].prev = c[Len(c)], Len(bs) \in Nat
  PROVE  Path(bs, c \o r)
<1> DEFINE u == c \o r
           S == 1 .. Len(bs)
<1>1. c \in Seq(S) /\ r \in Seq(2 .. Len(bs)) BY DEF Path, Run
<1>2. r \in Seq(S) BY <1>1, Larger
<1>3. /\ u \in Seq(S) /\ Len(u) = Len(c) + Len(r) /\ Len(c) \in Nat /\ Len(r) \in Nat
      /\ \A i \in 1 .. Len(c) + Len(r) : u[i] = IF i <= Len(c) THEN c[i] ELSE r[i - Len(c)]
  BY <1>1, <1>2, ConcatProperties
<1> HIDE DEF u
<1>4. Len(c) >= 1 /\ c[1] = 1 BY DEF Path
<1>5. u[1] = 1 /\ Len(u) >= 1 BY <1>3, <1>4
<1>6. ASSUME NEW i \in 1 .. Len(u) - 1 PROVE bs[u[i + 1]].prev = u[i]
  <2>1. i \in 1 .. Len(c) + Len(r) /\ i + 1 \in 1 .. Len(c) + Len(r) BY <1>3
  <2>2. CASE i + 1 <= Len(c)
    <3>1. i <= Len(c) BY <1>3, <2>1, <2>2
    <3>2. u[i] = c[i] BY <1>3, <2>1, <3>1
    <3>3. u[i + 1] = c[i + 1] BY <1>3, <2>1, <2>2
    <3>4. i \in 1 .. Len(c) - 1 BY <1>3, <2>1, <2>2
    <3> QED BY <3>2, <3>3, <3>4 DEF Path, Linked
  <2>3. CASE i = Len(c)
    <3>1. u[i] = c[Len(c)] BY <1>3, <2>1, <2>3
    <3>2. ~(i + 1 <= Len(c)) /\ (i + 1) - Len(c) = 1 BY <1>3, <2>3
    <3>3. u[i + 1] = r[1] BY <1>3, <2>1, <3>2
    <3> QED BY <3>1, <3>3
  <2>4. CASE i > Len(c)
    <3>1. ~(i <= Len(c)) /\ ~(i + 1 <= Len(c)) /\ (i + 1) - Len(c) = (i - Len(c)) + 1
      BY <1>3, <2>1, <2>4
    <3>4. u[i] = r[i - Len(c)] BY <1>3, <2>1, <3>1
    <3>5. u[i + 1] = r[(i + 1) - Len(c)] BY <1>3, <2>1, <3>1
    <3>2. u[i] = r[i - Len(c)] /\ u[i + 1] = r[(i - Len(c)) + 1] BY <3>1, <3>4, <3>5
    <3>3. i - Len(c) \in 1 .. Len(r) - 1 BY <1>3, <2>1, <2>4
    <3> QED BY <3>2, <3>3 DEF Run, Linked
  <2> QED BY <1>3, <2>1, <2>2, <2>3, <2>4
<1>7. Path(bs, u) BY <1>3, <1>5, <1>6 DEF Path, Linked
<1> QED BY <1>7 DEF u

(* A chain cut short.                                                      *)
LEMMA PathCut ==
  ASSUME NEW bs, NEW c, Path(bs, c), NEW n \in 1 .. Len(c)
  PROVE  /\ Path(bs, SubSeq(c, 1, n)) /\ Len(SubSeq(c, 1, n)) = n
         /\ \A i \in 1 .. n : SubSeq(c, 1, n)[i] = c[i]
<1> DEFINE u == SubSeq(c, 1, n)
<1>1. c \in Seq(1 .. Len(bs)) /\ Len(c) \in Nat /\ c[1] = 1 BY DEF Path
<1>2. \A i \in 1 .. n : c[i] \in 1 .. Len(bs) BY <1>1
<1>3. u \in Seq(1 .. Len(bs)) /\ Len(u) = n /\ \A i \in 1 .. n : u[i] = c[i]
  BY <1>1, <1>2
<1> HIDE DEF u
<1>4. ASSUME NEW i \in 1 .. n - 1 PROVE bs[u[i + 1]].prev = u[i]
  <2>1. i \in 1 .. n /\ i + 1 \in 1 .. n /\ i \in 1 .. Len(c) - 1 BY <1>1
  <2>2. u[i] = c[i] /\ u[i + 1] = c[i + 1] BY <1>3, <2>1
  <2> QED BY <2>1, <2>2 DEF Path, Linked
<1>5. u[1] = 1 /\ Len(u) >= 1 BY <1>1, <1>3
<1>6. Path(bs, u) BY <1>3, <1>4, <1>5 DEF Path, Linked
<1> QED BY <1>3, <1>6 DEF u

(* What comes after a block of a chain is a run.                           *)
LEMMA PathRest ==
  ASSUME NEW bs, Mined(bs), NEW c, Path(bs, c), NEW n \in 1 .. Len(c)
  PROVE  /\ Run(bs, SubSeq(c, n + 1, Len(c)))
         /\ Len(SubSeq(c, n + 1, Len(c))) = Len(c) - n
         /\ \A i \in 1 .. Len(c) - n : SubSeq(c, n + 1, Len(c))[i] = c[n + i]
<1> DEFINE u == SubSeq(c, n + 1, Len(c))
<1>1. c \in Seq(1 .. Len(bs)) /\ Len(c) \in Nat /\ Len(bs) \in Nat BY Elements DEF Path, Mined
<1>2. ASSUME NEW i \in n + 1 .. Len(c) PROVE c[i] \in 2 .. Len(bs)
  <2>1. i - 1 \in 1 .. Len(c) - 1 /\ (i - 1) + 1 = i /\ i \in 1 .. Len(c) /\ i - 1 \in 1 .. Len(c)
    BY <1>1
  <2>2. bs[c[i]].prev = c[i - 1] BY <2>1 DEF Path, Linked
  <2>3. c[i - 1] \in 1 .. Len(bs) /\ c[i] \in 1 .. Len(bs) BY <1>1, <2>1
  <2>4. c[i] # 1 BY <1>1, <2>2, <2>3 DEF Mined
  <2> QED BY <1>1, <2>3, <2>4
<1>3. n + 1 \in Int /\ Len(c) \in Int BY <1>1
<1>4. /\ u \in Seq(2 .. Len(bs)) /\ Len(u) = IF n + 1 <= Len(c) THEN Len(c) - (n + 1) + 1 ELSE 0
      /\ \A i \in 1 .. Len(c) - (n + 1) + 1 : u[i] = c[n + 1 + i - 1]
  BY <1>2, <1>3, SubSeqProperties
<1> HIDE DEF u
<1>5. Len(u) = Len(c) - n BY <1>1, <1>4
<1>6. ASSUME NEW i \in 1 .. Len(c) - n PROVE u[i] = c[n + i]
  <2>1. i \in 1 .. Len(c) - (n + 1) + 1 /\ n + 1 + i - 1 = n + i BY <1>1
  <2> QED BY <1>4, <2>1
<1>7. ASSUME NEW i \in 1 .. Len(u) - 1 PROVE bs[u[i + 1]].prev = u[i]
  <2>1. i \in 1 .. Len(c) - n /\ i + 1 \in 1 .. Len(c) - n /\ n + i \in 1 .. Len(c) - 1
        /\ n + (i + 1) = (n + i) + 1
    BY <1>1, <1>5
  <2>2. u[i] = c[n + i] BY <1>6, <2>1
  <2>3. u[i + 1] = c[n + (i + 1)] BY <1>6, <2>1
  <2>4. u[i + 1] = c[(n + i) + 1] BY <2>1, <2>3
  <2> QED BY <2>1, <2>2, <2>4 DEF Path, Linked
<1>8. Run(bs, u) BY <1>4, <1>7 DEF Run, Linked
<1> QED BY <1>5, <1>6, <1>8 DEF u

(* The last block of a chain determines it.                                *)
LEMMA Shared ==
  ASSUME NEW bs, Mined(bs), NEW c, Path(bs, c), NEW d, Path(bs, d),
         c[Len(c)] = d[Len(d)], Len(c) <= Len(d)
  PROVE  \A k \in 0 .. Len(c) - 1 : c[Len(c) - k] = d[Len(d) - k]
<1>1. Len(c) \in Nat /\ Len(d) \in Nat BY DEF Path
<1> DEFINE bad == {k \in 0 .. Len(c) - 1 : c[Len(c) - k] # d[Len(d) - k]}
<1> SUFFICES ASSUME bad # {} PROVE FALSE
  OBVIOUS
<1>2. bad \in SUBSET Nat BY <1>1
<1>3. PICK k \in bad : \A j \in bad : k <= j BY <1>2, Least
<1>4. k # 0 BY <1>1, <1>3
<1>5. k - 1 \in 0 .. Len(c) - 1 /\ k \in 0 .. Len(c) - 1 /\ ~(k <= k - 1) BY <1>1, <1>3, <1>4
<1>6. k - 1 \notin bad BY <1>3, <1>5
<1>7. c[Len(c) - (k - 1)] = d[Len(d) - (k - 1)] BY <1>5, <1>6
<1>8. /\ Len(c) - k \in 1 .. Len(c) - 1 /\ (Len(c) - k) + 1 = Len(c) - (k - 1)
      /\ Len(d) - k \in 1 .. Len(d) - 1 /\ (Len(d) - k) + 1 = Len(d) - (k - 1)
  BY <1>1, <1>4, <1>5
<1>9. bs[c[Len(c) - (k - 1)]].prev = c[Len(c) - k] BY <1>8 DEF Path, Linked
<1>10. bs[d[Len(d) - (k - 1)]].prev = d[Len(d) - k] BY <1>8 DEF Path, Linked
<1>11. c[Len(c) - k] # d[Len(d) - k] BY <1>3
<1> QED BY <1>7, <1>9, <1>10, <1>11

LEMMA SameLength ==
  ASSUME NEW bs, Mined(bs), NEW c, Path(bs, c), NEW d, Path(bs, d),
         c[Len(c)] = d[Len(d)], Len(c) <= Len(d)
  PROVE  Len(c) = Len(d)
<1>1. Len(c) \in Nat /\ Len(d) \in Nat /\ Len(c) >= 1 /\ c[1] = 1 /\ d \in Seq(1 .. Len(bs))
  BY DEF Path
<1> SUFFICES ASSUME Len(c) < Len(d) PROVE FALSE
  BY <1>1
<1>2. Len(c) - 1 \in 0 .. Len(c) - 1 /\ Len(c) - (Len(c) - 1) = 1 BY <1>1
<1>9. \A k \in 0 .. Len(c) - 1 : c[Len(c) - k] = d[Len(d) - k] BY Shared
<1>10. c[Len(c) - (Len(c) - 1)] = d[Len(d) - (Len(c) - 1)] BY <1>2, <1>9
<1>3. d[Len(d) - (Len(c) - 1)] = 1 BY <1>1, <1>2, <1>10
<1>4. /\ Len(d) - Len(c) \in 1 .. Len(d) - 1 /\ (Len(d) - Len(c)) + 1 = Len(d) - (Len(c) - 1)
      /\ Len(d) - Len(c) \in 1 .. Len(d)
  BY <1>1
<1>5. bs[1].prev = d[Len(d) - Len(c)] BY <1>3, <1>4 DEF Path, Linked
<1>6. d[Len(d) - Len(c)] \in 1 .. Len(bs) BY <1>1, <1>4
<1>7. d[Len(d) - Len(c)] = 0 BY <1>5 DEF Mined
<1>8. 0 \notin 1 .. Len(bs) BY Elements DEF Mined
<1> QED BY <1>6, <1>7, <1>8

LEMMA OnePath ==
  ASSUME NEW bs, Mined(bs), NEW c, Path(bs, c), NEW d, Path(bs, d), c[Len(c)] = d[Len(d)]
  PROVE  c = d
<1>1. Len(c) \in Nat /\ Len(d) \in Nat BY DEF Path
<1>2. Len(c) = Len(d)
  <2>1. CASE Len(c) <= Len(d) BY <2>1, SameLength
  <2>2. CASE Len(d) <= Len(c) BY <2>2, SameLength
  <2> QED BY <1>1, <2>1, <2>2
<1>3. \A k \in 0 .. Len(c) - 1 : c[Len(c) - k] = d[Len(d) - k] BY <1>1, <1>2, Shared
<1>4. ASSUME NEW i \in 1 .. Len(c) PROVE c[i] = d[i]
  <2>1. Len(c) - i \in 0 .. Len(c) - 1 /\ Len(c) - (Len(c) - i) = i BY <1>1
  <2>2. c[Len(c) - (Len(c) - i)] = d[Len(c) - (Len(c) - i)] BY <1>2, <1>3, <2>1
  <2> QED BY <2>1, <2>2
<1>5. c \in Seq(1 .. Len(bs)) /\ d \in Seq(1 .. Len(bs)) BY DEF Path
<1> QED BY <1>2, <1>4, <1>5, SeqEqual

-----------------------------------------------------------------------------
(* What stays, if what it speaks of stays.                                 *)

(* The wallet forgets no transaction of its own, and no coin it spent.     *)
Growing == ToSet(sends) \subseteq ToSet(sends') /\ stxos \subseteq stxos'

LEMMA StillBooked ==
  ASSUME Growing, NEW tx, Booked(tx)
  PROVE  Booked(tx)'
  BY DEF Growing, Booked, Ours

LEMMA Typed ==
  ASSUME BlocksOK
  PROVE  /\ IsSeq(blocks) /\ Len(blocks) \in Nat /\ 1 <= Len(blocks) /\ Extends(blocks, blocks)
         /\ best \in Seq(1 .. Len(blocks)) /\ Len(best) \in Nat /\ 1 <= Len(best)
         /\ reorgs \in Nat /\ restarts \in Nat /\ StartHeight \in Nat /\ StartHeight >= 1
  BY SpvAssumption, Elements DEF BlocksOK, Mined, Path, Extends

LEMMA KeepBlocks ==
  ASSUME BlocksOK, UNCHANGED <<blocks, best, reorgs, restarts>>
  PROVE  BlocksOK'
  BY DEF BlocksOK

LEMMA KeepMined ==
  ASSUME MinedOnce, UNCHANGED <<blocks, best, mempool>>
  PROVE  MinedOnce'
  BY DEF MinedOnce

LEMMA KeepTxs ==
  ASSUME NodeTxs, UNCHANGED <<blocks, mempool>>, Growing
  PROVE  NodeTxs'
<1>1. \A tx : Booked(tx) => Booked(tx)' BY StillBooked
<1> QED BY <1>1, Zenon DEF NodeTxs

LEMMA KeepSends ==
  ASSUME SendsOK, UNCHANGED sends
  PROVE  SendsOK'
  BY DEF SendsOK, Ours

LEMMA KeepCoins ==
  ASSUME CoinsOK, UNCHANGED <<utxos, stxos>>
  PROVE  CoinsOK'
  BY DEF CoinsOK

LEMMA KeepSlots ==
  ASSUME SlotsOK, UNCHANGED <<txUp, heightUp, prev, sync, syncHeight, missed>>, Growing
  PROVE  SlotsOK'
<1>1. \A tx : Booked(tx) => Booked(tx)' BY StillBooked
<1> QED BY <1>1, Zenon DEF SlotsOK

LEMMA MoreBlocks ==
  ASSUME Extends(blocks, blocks')
  PROVE  Len(blocks) \in Nat /\ Len(blocks') \in Nat /\ Len(blocks) <= Len(blocks')
  BY Elements DEF Extends

LEMMA KeepFromNode ==
  ASSUME Extends(blocks, blocks'), NEW m, FromNode(m)
  PROVE  FromNode(m)'
<1>1. m.type = "headers" => Run(blocks', m.hdrs) BY RunStays DEF FromNode
<1>2. m.type = "block" => m.id \in 1 .. Len(blocks') BY MoreBlocks DEF FromNode
<1> QED BY <1>1, <1>2 DEF FromNode

LEMMA KeepFrom ==
  ASSUME FromOK, UNCHANGED toSpv, Extends(blocks, blocks')
  PROVE  FromOK'
<1>1. \A m : FromNode(m) => FromNode(m)' BY KeepFromNode
<1> QED BY <1>1, Zenon DEF FromOK

LEMMA KeepToTheNode ==
  ASSUME Growing, Extends(blocks, blocks'), NEW m, ToTheNode(m)
  PROVE  ToTheNode(m)'
<1>1. \A tx : Booked(tx) => Booked(tx)' BY StillBooked
<1>2. m.type = "getblock" => m.id \in 0 .. Len(blocks') BY MoreBlocks DEF ToTheNode
<1> QED BY <1>1, <1>2, Zenon DEF ToTheNode

LEMMA KeepTo ==
  ASSUME ToOK, UNCHANGED toNode, Growing, Extends(blocks, blocks')
  PROVE  ToOK'
<1>1. \A m : ToTheNode(m) => ToTheNode(m)' BY KeepToTheNode
<1> QED BY <1>1, Zenon DEF ToOK

LEMMA KeepMap ==
  ASSUME MapOK, UNCHANGED TxMap, Growing
  PROVE  MapOK'
<1>1. \A tx : Booked(tx) => Booked(tx)' BY StillBooked
<1> QED BY <1>1, Zenon DEF MapOK

LEMMA KeepInc ==
  ASSUME IncOK, UNCHANGED inc, Growing
  PROVE  IncOK'
<1>1. \A tx : Booked(tx) => Booked(tx)' BY StillBooked
<1> QED BY <1>1, Zenon DEF IncOK

(* The incoming handler works on the same block, if on any.                *)
SameBlock ==
  /\ InBlock' <=> InBlock
  /\ InBlock => /\ inc'[1].height = inc[1].height /\ inc'[1].final = inc[1].final
                /\ ToSet(inc'[1].txs) \subseteq ToSet(inc[1].txs)

LEMMA SameInc == ASSUME UNCHANGED inc PROVE SameBlock
  BY DEF SameBlock, InBlock

LEMMA KeepCycle ==
  ASSUME Cycle, UNCHANGED <<hh, wait, queue>>, SameBlock,
         At(toNode', "getheaders") = At(toNode, "getheaders"),
         At(toSpv', "headers") = At(toSpv, "headers")
  PROVE  Cycle'
  BY DEF Cycle, Asked, Told, Quiet, SameBlock

LEMMA KeepHandler ==
  ASSUME Handler, UNCHANGED <<hh, queue, syncHeight>>, SameBlock, Extends(blocks, blocks')
  PROVE  Handler'
<1>1. \A s : Run(blocks, s) => Run(blocks', s) BY RunStays
<1> QED BY <1>1, Zenon DEF Handler, Busy, Requesting, Quiet, SameBlock

LEMMA KeepFile ==
  ASSUME FileSeq, UNCHANGED file, Extends(blocks, blocks')
  PROVE  FileSeq'
  BY MoreBlocks DEF FileSeq

LEMMA KeepQueue ==
  ASSUME QueueOK, UNCHANGED <<queue, syncHeight, file>>, SameBlock
  PROVE  QueueOK'
  BY DEF QueueOK, SameBlock

LEMMA KeepLinear ==
  ASSUME Linear, UNCHANGED <<reorgs, best, blocks, file, hh, sync, syncHeight>>,
         \A m \in ToSet(toNode') : m.type = "getheaders" => m \in ToSet(toNode),
         \A m \in ToSet(toSpv') : m.type = "headers" => m \in ToSet(toSpv)
  PROVE  Linear'
<1>1. \A s : Next1(s) <=> Next1(s)' BY DEF Next1
<1>2. OneChain => OneChain' BY DEF OneChain
<1>3. InStep => InStep' BY <1>1, Zenon DEF InStep
<1> QED BY <1>2, <1>3 DEF Linear

LEMMA KeepFileOK ==
  ASSUME UNCHANGED <<file, queue, syncHeight>>, SameBlock, Extends(blocks, blocks'), NEW c, FileOK(c),
         SlotsOK, IncOK, QueueOK, FileSeq
  PROVE  FileOK(c)'
<1>1. Path(blocks', c) BY PathStays DEF FileOK
<1>2. ASSUME InBlock PROVE Txs(blocks', c[Index(inc[1].height)]) = Txs(blocks, c[Index(inc[1].height)])
  <2>1. inc[1].height \in Nat /\ syncHeight < inc[1].height /\ inc[1].height <= HeightOf(file)
    BY <1>2 DEF IncOK, QueueOK, InBlock
  <2>2. syncHeight \in Nat /\ StartHeight <= syncHeight /\ StartHeight \in Nat /\ Len(file) \in Nat
    BY SpvAssumption DEF SlotsOK, FileSeq
  <2>3. Index(inc[1].height) \in 1 .. Len(file) BY <2>1, <2>2 DEF Index, HeightOf
  <2>4. c[Index(inc[1].height)] \in 1 .. Len(blocks) BY <2>3 DEF FileOK, Path
  <2> QED BY <2>4, ExtendsTxs
<1> QED BY <1>1, <1>2 DEF FileOK, SameBlock

LEMMA PlacedStays ==
  ASSUME Extends(blocks, blocks'), NEW c, Path(blocks, c), NEW tx, NEW h, Placed(c, tx, h)
  PROVE  Placed(c, tx, h)'
<1>1. c[Index(h)] \in 1 .. Len(blocks) BY DEF Placed, Path
<1> QED BY <1>1, ExtendsTxs DEF Placed

LEMMA KeepGood ==
  ASSUME Extends(blocks, blocks'), UNCHANGED <<syncHeight, heightUp, prev, restarts>>, SameBlock,
         NEW c, Path(blocks, c), NEW tx, NEW h, Good(c, tx, h)
  PROVE  Good(c, tx, h)'
<1>1. Placed(c, tx, h) => Placed(c, tx, h)' BY PlacedStays
<1> QED BY <1>1 DEF Good, Doomed, Top, SameBlock

LEMMA KeepCounts ==
  ASSUME Extends(blocks, blocks'),
         UNCHANGED <<syncHeight, heightUp, prev, restarts, utxos, txUp, missed>>, SameBlock,
         NEW c, Path(blocks, c), Counts(c)
  PROVE  Counts(c)'
<1>1. \A tx, h : Good(c, tx, h) => Good(c, tx, h)' BY KeepGood
<1> QED BY <1>1, Zenon DEF Counts

LEMMA KeepChained ==
  ASSUME Chained, Extends(blocks, blocks'), SlotsOK, IncOK, QueueOK, FileSeq, BlocksOK,
         UNCHANGED <<file, queue, syncHeight, heightUp, prev, restarts, utxos, txUp, missed>>,
         SameBlock,
         reorgs' = reorgs \/ reorgs' = reorgs + 1
  PROVE  Chained'
<1> SUFFICES ASSUME Tame' PROVE Heights' /\ \E c : (FileOK(c) /\ Counts(c))'
  BY DEF Chained
<1>1. Tame BY Typed DEF Tame
<1>2. Heights' BY <1>1 DEF Chained, Heights
<1>3. PICK c : FileOK(c) /\ Counts(c) BY <1>1 DEF Chained
<1>4. FileOK(c)' BY <1>3, KeepFileOK
<1>5. Counts(c)' BY <1>3, KeepCounts DEF FileOK
<1> QED BY <1>2, <1>4, <1>5

-----------------------------------------------------------------------------
(* Messages that come and go.                                              *)

SameAsks ==
  /\ At(toNode', "getheaders") = At(toNode, "getheaders")
  /\ \A m \in ToSet(toNode') : m.type = "getheaders" => m \in ToSet(toNode)
SameTold ==
  /\ At(toSpv', "headers") = At(toSpv, "headers")
  /\ \A m \in ToSet(toSpv') : m.type = "headers" => m \in ToSet(toSpv)

LEMMA NoNewAsk == ASSUME UNCHANGED toNode PROVE SameAsks
  BY DEF SameAsks

LEMMA NoNewTold == ASSUME UNCHANGED toSpv PROVE SameTold
  BY DEF SameTold

LEMMA OtherCall ==
  ASSUME ToOK, NEW m, toNode' = Append(toNode, m), m.type # "getheaders"
  PROVE  SameAsks
<1>1. IsSeq(toNode) BY DEF ToOK
<1>2. ToSet(toNode') = ToSet(toNode) \cup {m} BY <1>1, Grown
<1>3. At(toNode', "getheaders") = At(toNode, "getheaders") BY <1>1, AtOther
<1> QED BY <1>2, <1>3 DEF SameAsks

LEMMA OtherNews ==
  ASSUME FromOK, NEW m, toSpv' = Append(toSpv, m), m.type # "headers"
  PROVE  SameTold
<1>1. IsSeq(toSpv) BY DEF FromOK
<1>2. ToSet(toSpv') = ToSet(toSpv) \cup {m} BY <1>1, Grown
<1>3. At(toSpv', "headers") = At(toSpv, "headers") BY <1>1, AtOther
<1> QED BY <1>2, <1>3 DEF SameTold

(* A message of another type taken from the front leaves the asks where    *)
(* they are, one position nearer.                                          *)
LEMMA AtMoved ==
  ASSUME NEW q, IsSeq(q), q # <<>>, NEW type, Head(q).type # type
  PROVE  At(q, type) # {} => At(Tail(q), type) # {}
<1>1. /\ Len(Tail(q)) = Len(q) - 1 /\ Len(q) \in Nat /\ Head(q) = q[1]
      /\ \A i \in 1 .. Len(Tail(q)) : Tail(q)[i] = q[i + 1]
  BY HeadTailProperties DEF IsSeq
<1> SUFFICES ASSUME NEW i \in At(q, type) PROVE i - 1 \in At(Tail(q), type)
  OBVIOUS
<1>2. i \in 1 .. Len(q) /\ q[i].type = type BY DEF At
<1>3. i # 1 BY <1>1, <1>2
<1>4. i - 1 \in 1 .. Len(Tail(q)) /\ (i - 1) + 1 = i BY <1>1, <1>2, <1>3
<1>5. Tail(q)[i - 1] = q[i] BY <1>1, <1>4
<1> QED BY <1>2, <1>4, <1>5 DEF At

LEMMA ToSent ==
  ASSUME ToOK, Growing, Extends(blocks, blocks'), NEW m, toNode' = Append(toNode, m), ToTheNode(m)'
  PROVE  ToOK'
<1>1. IsSeq(toNode) BY DEF ToOK
<1>2. IsSeq(toNode') /\ ToSet(toNode') = ToSet(toNode) \cup {m} BY <1>1, Grown
<1>3. \A x : ToTheNode(x) => ToTheNode(x)' BY KeepToTheNode
<1> QED BY <1>2, <1>3, Zenon DEF ToOK

LEMMA ToTaken ==
  ASSUME ToOK, Growing, Extends(blocks, blocks'), toNode # <<>>, toNode' = Tail(toNode)
  PROVE  ToOK'
<1>1. IsSeq(toNode) BY DEF ToOK
<1>2. IsSeq(toNode') /\ ToSet(toNode') \subseteq ToSet(toNode) BY <1>1, Shorter
<1>3. \A x : ToTheNode(x) => ToTheNode(x)' BY KeepToTheNode
<1> QED BY <1>2, <1>3, Zenon DEF ToOK

LEMMA FromSent ==
  ASSUME FromOK, Extends(blocks, blocks'), NEW m, toSpv' = Append(toSpv, m), FromNode(m)'
  PROVE  FromOK'
<1>1. IsSeq(toSpv) BY DEF FromOK
<1>2. IsSeq(toSpv') /\ ToSet(toSpv') = ToSet(toSpv) \cup {m} BY <1>1, Grown
<1>3. \A x : FromNode(x) => FromNode(x)' BY KeepFromNode
<1> QED BY <1>2, <1>3, Zenon DEF FromOK

LEMMA FromTaken ==
  ASSUME FromOK, Extends(blocks, blocks'), toSpv # <<>>, toSpv' = Tail(toSpv)
  PROVE  FromOK'
<1>1. IsSeq(toSpv) BY DEF FromOK
<1>2. IsSeq(toSpv') /\ ToSet(toSpv') \subseteq ToSet(toSpv) BY <1>1, Shorter
<1>3. \A x : FromNode(x) => FromNode(x)' BY KeepFromNode
<1> QED BY <1>2, <1>3, Zenon DEF FromOK

(* A message that is no answer to a question is taken.                     *)
LEMMA OtherTaken ==
  ASSUME FromOK, Cycle, toSpv # <<>>, toSpv' = Tail(toSpv), Head(toSpv).type # "headers",
         SameAsks, UNCHANGED <<hh, wait, queue>>, SameBlock
  PROVE  Cycle'
<1>1. IsSeq(toSpv) BY DEF FromOK
<1>2. Single(At(toSpv', "headers")) BY <1>1, AtStillSingle DEF Cycle
<1>3. At(toSpv, "headers") = {} <=> At(toSpv', "headers") = {} BY <1>1, AtShorter, AtMoved
<1> QED BY <1>2, <1>3 DEF Cycle, SameAsks, Asked, Told, Quiet, SameBlock

-----------------------------------------------------------------------------
(* The chain of the node.                                                  *)

LEMMA ConfirmedIs ==
  ASSUME BlocksOK, NEW tx
  PROVE  tx \in Confirmed <=> \E i \in 1 .. Len(best) : tx \in Txs(blocks, best[i])
<1>1. DOMAIN best = 1 .. Len(best) BY Typed
<1> QED BY <1>1 DEF Confirmed, Txs

LEMMA Greatest ==
  ASSUME NEW n \in Nat, NEW S \in SUBSET (1 .. n), S # {}
  PROVE  \E x \in S : \A y \in S : y <= x
<1> DEFINE T == {n - x : x \in S}
<1>5. \A x \in S : x \in 1 .. n /\ n - x \in Nat
  OBVIOUS
<1>6. T # {}
  OBVIOUS
<1>1. T \in SUBSET Nat /\ T # {} BY <1>5, <1>6
<1>2. PICK k \in T : \A j \in T : k <= j BY <1>1, Least
<1>3. PICK x \in S : k = n - x BY <1>2
<1>4. ASSUME NEW y \in S PROVE y <= x
  <2>1. n - x <= n - y BY <1>2, <1>3
  <2>2. y \in Nat /\ x \in Nat
    OBVIOUS
  <2> QED BY <2>1, <2>2
<1> QED BY <1>4

LEMMA MinedAdded ==
  ASSUME NEW bs, Mined(bs), NEW b, b.prev \in 1 .. Len(bs), IsSeq(b.txs)
  PROVE  /\ Mined(Append(bs, b)) /\ Extends(bs, Append(bs, b))
         /\ Len(Append(bs, b)) = Len(bs) + 1 /\ Append(bs, b)[Len(bs) + 1] = b
<1> DEFINE new == Append(bs, b)
<1>1. IsSeq(bs) /\ Len(bs) \in Nat /\ 1 <= Len(bs) BY Elements DEF Mined
<1>2. /\ IsSeq(new) /\ Len(new) = Len(bs) + 1 /\ new[Len(bs) + 1] = b
      /\ \A i \in 1 .. Len(bs) : new[i] = bs[i]
  BY <1>1, Grown
<1> HIDE DEF new
<1>3. Extends(bs, new) BY <1>1, <1>2 DEF Extends
<1>4. ASSUME NEW i \in 2 .. Len(new) PROVE new[i].prev \in 1 .. Len(new)
  <2>1. CASE i = Len(bs) + 1 BY <1>1, <1>2, <2>1
  <2>2. CASE i # Len(bs) + 1
    <3>1. i \in 2 .. Len(bs) /\ i \in 1 .. Len(bs) BY <1>1, <1>2, <2>2
    <3>2. bs[i].prev \in 1 .. Len(bs) BY <3>1 DEF Mined
    <3>3. new[i] = bs[i] BY <1>2, <3>1
    <3> QED BY <1>1, <1>2, <3>2, <3>3
  <2> QED BY <2>1, <2>2
<1>5. ASSUME NEW i \in 1 .. Len(new) PROVE IsSeq(new[i].txs)
  <2>1. i = Len(bs) + 1 \/ i \in 1 .. Len(bs) BY <1>1, <1>2
  <2> QED BY <1>2, <2>1 DEF Mined
<1>6. new[1].prev = 0 BY <1>1, <1>2 DEF Mined
<1>7. Mined(new) BY <1>1, <1>2, <1>4, <1>5, <1>6 DEF Mined
<1> QED BY <1>2, <1>3, <1>7 DEF new

LEMMA ExtendsOn ==
  ASSUME NEW a, NEW b, NEW c, Extends(a, b), Extends(b, c)
  PROVE  Extends(a, c)
<1>1. Len(a) \in Nat /\ Len(b) \in Nat /\ Len(c) \in Nat BY Elements DEF Extends
<1> QED BY <1>1 DEF Extends

LEMMA PathAdded ==
  ASSUME NEW bs, Mined(bs), NEW c, Path(bs, c), NEW b \in 2 .. Len(bs), bs[b].prev = c[Len(c)]
  PROVE  Path(bs, Append(c, b))
<1>1. Len(bs) \in Nat BY Elements DEF Mined
<1>2. Run(bs, <<b>>) /\ <<b>> # <<>> /\ <<b>>[1] = b BY DEF Run, Linked
<1>3. Path(bs, c \o <<b>>) BY <1>1, <1>2, PathJoined
<1>4. c \in Seq(1 .. Len(bs)) BY DEF Path
<1>5. c \o <<b>> = Append(c, b) BY <1>1, <1>4
<1> QED BY <1>3, <1>5

LEMMA ApartAdded ==
  ASSUME NEW bs, NEW new, Extends(bs, new), NEW c \in Seq(1 .. Len(bs)), NEW pool,
         Apart(bs, c, pool), NEW b, Txs(new, b) \subseteq pool
  PROVE  Apart(new, Append(c, b), pool \ Txs(new, b))
<1> DEFINE d == Append(c, b)
           rest == pool \ Txs(new, b)
<1>1. /\ IsSeq(c) /\ Len(c) \in Nat BY OwnElements
<1>2. Len(d) = Len(c) + 1 /\ d[Len(c) + 1] = b /\ \A i \in 1 .. Len(c) : d[i] = c[i]
  BY <1>1, Grown
<1> HIDE DEF d
<1>3. ASSUME NEW i \in 1 .. Len(c) PROVE Txs(new, d[i]) = Txs(bs, c[i])
  BY <1>2, ExtendsTxs
<1>4. ASSUME NEW i \in 1 .. Len(d)
      PROVE  /\ Txs(new, d[i]) \cap rest = {}
             /\ \A j \in 1 .. Len(d) : Txs(new, d[i]) \cap Txs(new, d[j]) # {} => i = j
  <2>1. i \in 1 .. Len(c) \/ i = Len(c) + 1 BY <1>1, <1>2
  <2>2. Txs(new, d[i]) \cap rest = {}
    <3>1. CASE i \in 1 .. Len(c) BY <1>3, <3>1 DEF Apart
    <3>2. CASE i = Len(c) + 1 BY <1>2, <3>2
    <3> QED BY <2>1, <3>1, <3>2
  <2>3. ASSUME NEW j \in 1 .. Len(d), Txs(new, d[i]) \cap Txs(new, d[j]) # {} PROVE i = j
    <3>1. j \in 1 .. Len(c) \/ j = Len(c) + 1 BY <1>1, <1>2
    <3>2. CASE i \in 1 .. Len(c) /\ j \in 1 .. Len(c)
      <4>1. Txs(bs, c[i]) \cap Txs(bs, c[j]) # {} BY <1>3, <2>3, <3>2
      <4> QED BY <3>2, <4>1 DEF Apart
    <3>3. CASE i \in 1 .. Len(c) /\ j = Len(c) + 1
      <4>1. Txs(new, d[j]) \subseteq pool BY <1>2, <3>3
      <4>2. Txs(bs, c[i]) \cap pool # {} BY <1>3, <2>3, <3>3, <4>1
      <4> QED BY <3>3, <4>2 DEF Apart
    <3>4. CASE i = Len(c) + 1 /\ j \in 1 .. Len(c)
      <4>1. Txs(new, d[i]) \subseteq pool BY <1>2, <3>4
      <4>2. Txs(bs, c[j]) \cap pool # {} BY <1>3, <2>3, <3>4, <4>1
      <4> QED BY <3>4, <4>2 DEF Apart
    <3> QED BY <2>1, <3>1, <3>2, <3>3, <3>4
  <2> QED BY <2>2, <2>3
<1>5. Apart(new, d, rest) BY <1>4 DEF Apart
<1> QED BY <1>5 DEF d

(* The last block is taken back.                                           *)
LEMMA ApartCut ==
  ASSUME NEW bs, NEW c \in Seq(1 .. Len(bs)), Len(c) > 1, NEW pool, Apart(bs, c, pool),
         NEW d \in Seq(1 .. Len(bs)), Len(d) = Len(c) - 1, \A i \in 1 .. Len(d) : d[i] = c[i]
  PROVE  Apart(bs, d, pool \cup Txs(bs, c[Len(c)]))
<1>1. Len(c) \in Nat /\ Len(c) \in 1 .. Len(c)
  OBVIOUS
<1>2. ASSUME NEW i \in 1 .. Len(d)
      PROVE  /\ Txs(bs, d[i]) \cap (pool \cup Txs(bs, c[Len(c)])) = {}
             /\ \A j \in 1 .. Len(d) : Txs(bs, d[i]) \cap Txs(bs, d[j]) # {} => i = j
  <2>1. i \in 1 .. Len(c) /\ i # Len(c) /\ d[i] = c[i] BY <1>1
  <2>2. Txs(bs, c[i]) \cap pool = {} /\ Txs(bs, c[i]) \cap Txs(bs, c[Len(c)]) = {}
    BY <1>1, <2>1 DEF Apart
  <2>3. ASSUME NEW j \in 1 .. Len(d), Txs(bs, d[i]) \cap Txs(bs, d[j]) # {} PROVE i = j
    <3>1. j \in 1 .. Len(c) /\ d[j] = c[j] BY <1>1
    <3> QED BY <2>1, <2>3, <3>1 DEF Apart
  <2> QED BY <2>1, <2>2, <2>3
<1> QED BY <1>2 DEF Apart

LEMMA TwoMore ==
  ASSUME NEW S, NEW s \in Seq(S), NEW a, NEW b
  PROVE  s \o <<a, b>> = Append(Append(s, a), b)
<1>1. s \in Seq(S \cup {a, b}) BY Larger
<1>2. a \in S \cup {a, b} /\ b \in S \cup {a, b}
  OBVIOUS
<1> DEFINE T == S \cup {a, b}
<1>3. a \in T /\ b \in T /\ s \in Seq(T) BY <1>1, <1>2
<1> HIDE DEF T
<1>4. s \o <<a, b>> = Append(Append(s, a), b) BY <1>3
<1> QED BY <1>4

-----------------------------------------------------------------------------
(* The steps of the node.                                                  *)

LEMMA PaymentStep ==
  ASSUME Inv, NEW tx \in Payments, NodePayment(tx)
  PROVE  Inv'
<1>1. UNCHANGED <<utxos, stxos, frozen, sends, sync, prev, missed, txUp, heightUp, tracked, TxMap, toNode, blocks, best, rejected, reorgs, file, syncHeight, queue, wait, okTxids, hh, inc, restarts>>
  BY DEF NodePayment, wallet, hook
<1>2. Growing BY <1>1 DEF Growing
<1>3. Extends(blocks, blocks') BY <1>1, Typed DEF Inv
<1>4. SameAsks BY <1>1, NoNewAsk
<1>5. SameTold BY OtherNews DEF NodePayment, Tell, Inv
<1>19. SameBlock BY <1>1, SameInc
<1>20. BlocksOK' BY <1>1, KeepBlocks DEF Inv
<1>21. MinedOnce'
  <2>1. mempool' = mempool \cup {tx} /\ tx \notin Confirmed BY DEF NodePayment
  <2>2. \A i \in 1 .. Len(best) : tx \notin Txs(blocks, best[i]) BY <2>1, ConfirmedIs DEF Inv
  <2> QED BY <1>1, <2>1, <2>2 DEF Inv, MinedOnce, Apart
<1>22. NodeTxs'
  <2>1. \A t : Booked(t) => Booked(t)' BY <1>2, StillBooked
  <2>2. mempool' = mempool \cup {tx} BY DEF NodePayment
  <2>3. Booked(tx)' BY DEF Booked
  <2> QED BY <1>1, <2>1, <2>2, <2>3 DEF Inv, NodeTxs
<1>23. SendsOK' BY <1>1, KeepSends DEF Inv
<1>24. CoinsOK' BY <1>1, KeepCoins DEF Inv
<1>25. SlotsOK' BY <1>1, <1>2, KeepSlots DEF Inv
<1>26. FromOK'
  <2>1. FromNode([type |-> "invtx", tx |-> tx])' BY DEF FromNode
  <2> QED BY <1>3, <2>1, FromSent DEF Inv, NodePayment, Tell
<1>27. ToOK' BY <1>1, <1>2, <1>3, KeepTo DEF Inv
<1>28. MapOK' BY <1>1, <1>2, KeepMap DEF Inv
<1>29. IncOK' BY <1>1, <1>2, KeepInc DEF Inv
<1>30. Cycle' BY <1>1, <1>4, <1>5, <1>19, KeepCycle DEF Inv, SameAsks, SameTold
<1>31. Handler' BY <1>1, <1>3, <1>19, KeepHandler DEF Inv
<1>32. FileSeq' BY <1>1, <1>3, KeepFile DEF Inv
<1>33. QueueOK' BY <1>1, <1>19, KeepQueue DEF Inv
<1>34. Linear' BY <1>1, <1>4, <1>5, KeepLinear DEF Inv, SameAsks, SameTold
<1>35. Chained' BY <1>1, <1>3, <1>19, KeepChained DEF Inv
<1> QED BY <1>20, <1>21, <1>22, <1>23, <1>24, <1>25, <1>26, <1>27, <1>28,
  <1>29, <1>30, <1>31, <1>32, <1>33, <1>34, <1>35 DEF Inv

(* The connection ends.                                                    *)
LEMMA Closing ==
  ASSUME LoseConnection
  PROVE  \E m : m.type = "closed" /\ toSpv' = Append(toSpv, m)
<1>1. PICK m : m = [type |-> "closed"]
  OBVIOUS
<1>2. m.type = "closed" BY <1>1
<1> QED BY <1>1, <1>2 DEF LoseConnection, Tell

LEMMA ClosedStep ==
  ASSUME Inv, LoseConnection
  PROVE  Inv'
<1>1. UNCHANGED <<utxos, stxos, frozen, sends, sync, prev, missed, txUp, heightUp, tracked, TxMap, toNode, blocks, best, mempool, rejected, reorgs, file, syncHeight, queue, wait, okTxids, hh, inc, restarts>>
  BY DEF LoseConnection, wallet, node, hook
<1>2. Growing BY <1>1 DEF Growing
<1>3. Extends(blocks, blocks') BY <1>1, Typed DEF Inv
<1>4. SameAsks BY <1>1, NoNewAsk
<1>6. PICK m : m.type = "closed" /\ toSpv' = Append(toSpv, m) BY Closing
<1>5. SameTold
  <2>1. m.type # "headers" BY <1>6
  <2> QED BY <1>6, <2>1, OtherNews DEF Inv
<1>19. SameBlock BY <1>1, SameInc
<1>20. BlocksOK' BY <1>1, KeepBlocks DEF Inv
<1>21. MinedOnce' BY <1>1, KeepMined DEF Inv
<1>22. NodeTxs' BY <1>1, <1>2, KeepTxs DEF Inv
<1>23. SendsOK' BY <1>1, KeepSends DEF Inv
<1>24. CoinsOK' BY <1>1, KeepCoins DEF Inv
<1>25. SlotsOK' BY <1>1, <1>2, KeepSlots DEF Inv
<1>26. FromOK'
  <2>1. FromNode(m)' BY <1>6 DEF FromNode
  <2> QED BY <1>3, <1>6, <2>1, FromSent DEF Inv
<1>27. ToOK' BY <1>1, <1>2, <1>3, KeepTo DEF Inv
<1>28. MapOK' BY <1>1, <1>2, KeepMap DEF Inv
<1>29. IncOK' BY <1>1, <1>2, KeepInc DEF Inv
<1>30. Cycle' BY <1>1, <1>4, <1>5, <1>19, KeepCycle DEF Inv, SameAsks, SameTold
<1>31. Handler' BY <1>1, <1>3, <1>19, KeepHandler DEF Inv
<1>32. FileSeq' BY <1>1, <1>3, KeepFile DEF Inv
<1>33. QueueOK' BY <1>1, <1>19, KeepQueue DEF Inv
<1>34. Linear' BY <1>1, <1>4, <1>5, KeepLinear DEF Inv, SameAsks, SameTold
<1>35. Chained' BY <1>1, <1>3, <1>19, KeepChained DEF Inv
<1> QED BY <1>20, <1>21, <1>22, <1>23, <1>24, <1>25, <1>26, <1>27, <1>28,
  <1>29, <1>30, <1>31, <1>32, <1>33, <1>34, <1>35 DEF Inv

LEMMA MineStep ==
  ASSUME Inv, NEW txs \in Mineable, NodeMine(txs)
  PROVE  Inv'
<1>1. UNCHANGED <<utxos, stxos, frozen, sends, sync, prev, missed, txUp, heightUp, tracked, TxMap, toNode, rejected, reorgs, file, syncHeight, queue, wait, okTxids, hh, inc, restarts>>
  BY DEF NodeMine, wallet, hook
<1>2. Growing BY <1>1 DEF Growing
<1>6. ToSet(txs) \subseteq mempool /\ IsSeq(txs)
  <2>1. PICK k \in 0 .. Cardinality(mempool) : txs \in [1 .. k -> mempool] BY DEF Mineable
  <2>2. k \in Nat BY <2>1
  <2>3. txs \in Seq(mempool) BY <2>1, <2>2
  <2> QED BY <2>1, <2>3, OwnElements DEF ToSet
<1>8. Len(blocks) \in Nat /\ 1 <= Len(blocks) BY Typed DEF Inv
<1>7. /\ Mined(blocks') /\ Extends(blocks, blocks') /\ Len(blocks') = Len(blocks) + 1
      /\ blocks'[Len(blocks) + 1] = [prev |-> best[Len(best)], txs |-> txs]
  <2> DEFINE b == [prev |-> best[Len(best)], txs |-> txs]
  <2>1. best[Len(best)] \in 1 .. Len(blocks) /\ Last(best) = best[Len(best)] BY Typed DEF Inv, Last
  <2>2. blocks' = Append(blocks, b) BY <2>1 DEF NodeMine
  <2>3. b.prev \in 1 .. Len(blocks) /\ IsSeq(b.txs) BY <1>6, <2>1
  <2> HIDE DEF b
  <2>4. /\ Mined(blocks') /\ Extends(blocks, blocks') /\ Len(blocks') = Len(blocks) + 1
        /\ blocks'[Len(blocks) + 1] = b
    BY <2>2, <2>3, MinedAdded DEF Inv, BlocksOK
  <2> QED BY <2>4 DEF b
<1>9. /\ Len(blocks) + 1 \in 2 .. Len(blocks') /\ best' = Append(best, Len(blocks) + 1)
      /\ blocks'[Len(blocks) + 1].prev = best[Len(best)]
  BY <1>7, <1>8 DEF NodeMine
<1>3. Extends(blocks, blocks') BY <1>7
<1>4. SameAsks BY <1>1, NoNewAsk
<1>5. SameTold BY OtherNews DEF NodeMine, Tell, Inv
<1>19. SameBlock BY <1>1, SameInc
<1>20. BlocksOK'
  <2>1. Path(blocks', best) BY <1>3, PathStays DEF Inv, BlocksOK
  <2>2. Path(blocks', best') BY <1>7, <1>8, <1>9, <2>1, PathAdded
  <2> QED BY <1>1, <1>7, <2>2 DEF Inv, BlocksOK
<1>21. MinedOnce'
  <2>1. Txs(blocks', Len(blocks) + 1) = ToSet(txs) BY <1>7 DEF Txs
  <2>2. Apart(blocks', Append(best, Len(blocks) + 1), mempool \ ToSet(txs))
    BY <1>3, <1>6, <2>1, Typed, ApartAdded DEF Inv, MinedOnce
  <2> QED BY <2>2 DEF MinedOnce, NodeMine
<1>22. NodeTxs'
  <2>1. \A t : Booked(t) => Booked(t)' BY <1>2, StillBooked
  <2>2. \A t \in mempool : Booked(t)' BY <2>1 DEF Inv, NodeTxs
  <2>3. ASSUME NEW k \in 1 .. Len(blocks') PROVE \A t \in Txs(blocks', k) : Booked(t)'
    <3>1. CASE k \in 1 .. Len(blocks) BY <1>3, <2>1, <3>1, ExtendsTxs DEF Inv, NodeTxs
    <3>2. CASE k = Len(blocks) + 1
      <4>1. Txs(blocks', k) = ToSet(txs) BY <1>7, <3>2 DEF Txs
      <4> QED BY <1>6, <2>2, <4>1
    <3> QED BY <1>7, <1>8, <3>1, <3>2
  <2>4. mempool' \subseteq mempool BY DEF NodeMine
  <2> QED BY <2>2, <2>3, <2>4 DEF NodeTxs
<1>23. SendsOK' BY <1>1, KeepSends DEF Inv
<1>24. CoinsOK' BY <1>1, KeepCoins DEF Inv
<1>25. SlotsOK' BY <1>1, <1>2, KeepSlots DEF Inv
<1>26. FromOK'
  <2>1. FromNode([type |-> "invblock"])' BY DEF FromNode
  <2> QED BY <1>3, <2>1, FromSent DEF Inv, NodeMine, Tell
<1>27. ToOK' BY <1>1, <1>2, <1>3, KeepTo DEF Inv
<1>28. MapOK' BY <1>1, <1>2, KeepMap DEF Inv
<1>29. IncOK' BY <1>1, <1>2, KeepInc DEF Inv
<1>30. Cycle' BY <1>1, <1>4, <1>5, <1>19, KeepCycle DEF Inv, SameAsks, SameTold
<1>31. Handler' BY <1>1, <1>3, <1>19, KeepHandler DEF Inv
<1>32. FileSeq' BY <1>1, <1>3, KeepFile DEF Inv
<1>33. QueueOK' BY <1>1, <1>19, KeepQueue DEF Inv
<1>34. Linear'
  <2> SUFFICES ASSUME reorgs = 0 PROVE OneChain' /\ InStep'
    BY <1>1 DEF Linear
  <2>1. OneChain /\ InStep BY DEF Inv, Linear
  <2>2. Len(best') = Len(best) + 1 /\ best'[Len(best) + 1] = Len(blocks) + 1
        /\ \A i \in 1 .. Len(best) : best'[i] = best[i]
    <3>1. IsSeq(best) BY Typed, OwnElements DEF Inv
    <3> QED BY <3>1, Grown DEF NodeMine
  <2>3. Len(best) \in Nat BY Typed DEF Inv
  <2>4. \A i \in 1 .. Len(best') : i \in 1 .. Len(best) \/ i = Len(best) + 1 BY <2>2, <2>3
  <2>5. Len(best) = Len(blocks) /\ (\A i \in 1 .. Len(best) : best[i] = i) /\ Len(file) <= Len(blocks)
        /\ \A i \in 1 .. Len(file) : file[i] = i
    BY <2>1 DEF OneChain
  <2>6. OneChain'
    <3>1. Len(best') = Len(blocks') BY <1>7, <2>2, <2>5
    <3>2. \A i \in 1 .. Len(best') : best'[i] = i BY <2>2, <2>4, <2>5
    <3>3. Len(file) <= Len(blocks') BY <1>7, <1>8, <2>5, Typed DEF Inv, FileSeq
    <3> QED BY <1>1, <2>5, <3>1, <3>2, <3>3 DEF OneChain
  <2>7. \A s : Next1(s) <=> Next1(s)' BY <1>1 DEF Next1
  <2>8. InStep' BY <1>1, <1>4, <1>5, <2>1, <2>7, Zenon DEF InStep, SameAsks, SameTold
  <2> QED BY <2>6, <2>8
<1>35. Chained' BY <1>1, <1>3, <1>19, KeepChained DEF Inv
<1> QED BY <1>20, <1>21, <1>22, <1>23, <1>24, <1>25, <1>26, <1>27, <1>28,
  <1>29, <1>30, <1>31, <1>32, <1>33, <1>34, <1>35 DEF Inv

LEMMA ReorgStep ==
  ASSUME Inv, NodeReorg
  PROVE  Inv'
<1>1. UNCHANGED <<utxos, stxos, frozen, sends, sync, prev, missed, txUp, heightUp, tracked, TxMap, toNode, rejected, file, syncHeight, queue, wait, okTxids, hh, inc, restarts>>
  BY DEF NodeReorg, wallet, hook
<1>2. Growing BY <1>1 DEF Growing
<1> DEFINE n == Len(blocks)
           x == [prev |-> best[Len(best) - 1], txs |-> <<>>]
           y == [prev |-> n + 1, txs |-> <<>>]
           mid == Append(blocks, x)
           bs == Append(mid, y)
<1>6. /\ n \in Nat /\ 1 <= n /\ Len(best) \in Nat /\ Len(best) > 1
      /\ best \in Seq(1 .. n) /\ Last(best) = best[Len(best)]
  BY Typed DEF Inv, NodeReorg, Last
<1>8. /\ Mined(mid) /\ Extends(blocks, mid) /\ Len(mid) = n + 1 /\ mid[n + 1] = x
  <2>1. x.prev \in 1 .. n BY <1>6
  <2>2. IsSeq(x.txs) BY NothingYet
  <2> HIDE DEF x
  <2> QED BY <2>1, <2>2, MinedAdded DEF Inv, BlocksOK
<1>9. /\ Mined(bs) /\ Extends(mid, bs) /\ Len(bs) = n + 2 /\ bs[n + 2] = y /\ bs[n + 1] = x
      /\ bs[n + 2].prev = n + 1 /\ bs[n + 1].prev = best[Len(best) - 1]
  <2>1. y.prev \in 1 .. Len(mid) BY <1>6, <1>8
  <2>2. IsSeq(y.txs) BY NothingYet
  <2>3. y.prev = n + 1 /\ x.prev = best[Len(best) - 1]
    OBVIOUS
  <2> HIDE DEF x, y, mid
  <2>4. Mined(bs) /\ Extends(mid, bs) /\ Len(bs) = Len(mid) + 1 /\ bs[Len(mid) + 1] = y
    BY <1>8, <2>1, <2>2, MinedAdded
  <2> HIDE DEF bs
  <2>5. n + 1 \in 1 .. Len(mid) /\ Len(mid) + 1 = n + 2 BY <1>6, <1>8
  <2>6. bs[n + 1] = x BY <1>8, <2>4, <2>5 DEF Extends
  <2> QED BY <2>3, <2>4, <2>5, <2>6
<1>7. Extends(blocks, bs)
  <2> HIDE DEF mid, bs
  <2> QED BY <1>8, <1>9, ExtendsOn
<1>10. blocks' = bs
  <2>1. blocks \in Seq(ToSet(blocks)) BY Typed DEF Inv, IsSeq
  <2>2. blocks' = blocks \o <<x, y>> BY DEF NodeReorg
  <2> HIDE DEF x, y
  <2> QED BY <2>1, <2>2, TwoMore
<1>11. /\ Path(blocks, Front(best)) /\ Len(Front(best)) = Len(best) - 1
       /\ \A i \in 1 .. Len(best) - 1 : Front(best)[i] = best[i]
       /\ Front(best)[Len(Front(best))] = best[Len(best) - 1]
  <2>1. Len(best) - 1 \in 1 .. Len(best) /\ Path(blocks, best) BY <1>6 DEF Inv, BlocksOK
  <2>2. Front(best) = SubSeq(best, 1, Len(best) - 1) BY DEF Front
  <2>3. /\ Path(blocks, Front(best)) /\ Len(Front(best)) = Len(best) - 1
        /\ \A i \in 1 .. Len(best) - 1 : Front(best)[i] = best[i]
    BY <2>1, <2>2, PathCut
  <2>4. Len(best) - 1 \in 1 .. Len(best) - 1 BY <1>6
  <2> QED BY <2>3, <2>4
<1>12. best' = Append(Append(Front(best), n + 1), n + 2)
  <2>1. Front(best) \in Seq(1 .. n) BY <1>11 DEF Path
  <2>2. best' = Front(best) \o <<n + 1, n + 2>> BY DEF NodeReorg
  <2> QED BY <2>1, <2>2, TwoMore
<1> HIDE DEF x, y, mid, bs
<1>3. Extends(blocks, blocks') BY <1>7, <1>10
<1>4. SameAsks BY <1>1, NoNewAsk
<1>5. SameTold BY OtherNews DEF NodeReorg, Tell, Inv
<1>19. SameBlock BY <1>1, SameInc
<1>20. BlocksOK'
  <2>1. Path(bs, Front(best)) BY <1>7, <1>11, PathStays
  <2>2. n + 1 \in 2 .. Len(bs) /\ n + 2 \in 2 .. Len(bs) BY <1>6, <1>9
  <2>3. Path(bs, Append(Front(best), n + 1)) BY <1>9, <1>11, <2>1, <2>2, PathAdded
  <2> DEFINE c == Append(Front(best), n + 1)
  <2>4. c[Len(c)] = n + 1
    <3>1. IsSeq(Front(best)) BY <1>11, OwnElements DEF Path
    <3> QED BY <3>1, Grown
  <2> HIDE DEF c
  <2>5. Path(bs, Append(c, n + 2)) BY <1>9, <2>2, <2>3, <2>4, PathAdded DEF c
  <2>6. Path(blocks', best') BY <1>10, <1>12, <2>5 DEF c
  <2>7. reorgs' \in Nat /\ restarts' \in Nat
    <3>1. reorgs \in Nat /\ restarts \in Nat BY DEF Inv, BlocksOK
    <3>2. reorgs' = reorgs + 1 BY DEF NodeReorg
    <3> QED BY <1>1, <3>1, <3>2
  <2>8. Mined(blocks') BY <1>9, <1>10
  <2> QED BY <2>6, <2>7, <2>8 DEF BlocksOK
<1>21. MinedOnce'
  <2> DEFINE d == Front(best)
             pool == mempool \cup Txs(blocks, best[Len(best)])
  <2>1. Apart(blocks, d, pool) BY <1>6, <1>11, Typed, ApartCut DEF Inv, MinedOnce, Path
  <2>2. d \in Seq(1 .. n) BY <1>11 DEF Path
  <2>3. Txs(mid, n + 1) = {} /\ Txs(bs, n + 2) = {} BY <1>8, <1>9, NothingYet DEF Txs, x, y
  <2>4. Apart(mid, Append(d, n + 1), pool)
    <3> HIDE DEF d, pool, mid
    <3>1. Apart(mid, Append(d, n + 1), pool \ Txs(mid, n + 1))
      BY <1>8, <2>1, <2>2, <2>3, ApartAdded
    <3> QED BY <2>3, <3>1
  <2>5. Append(d, n + 1) \in Seq(1 .. Len(mid))
    <3>1. 1 .. n \subseteq 1 .. Len(mid) /\ n + 1 \in 1 .. Len(mid) BY <1>6, <1>8
    <3>2. d \in Seq(1 .. Len(mid)) BY <2>2, <3>1, Larger
    <3> HIDE DEF d, mid
    <3> QED BY <3>1, <3>2, AppendProperties
  <2>6. Apart(bs, Append(Append(d, n + 1), n + 2), pool)
    <3> DEFINE c == Append(d, n + 1)
    <3> HIDE DEF d, pool, c, mid, bs
    <3>1. Apart(bs, Append(c, n + 2), pool \ Txs(bs, n + 2))
      BY <1>9, <2>3, <2>4, <2>5, ApartAdded DEF c
    <3> QED BY <2>3, <3>1 DEF c
  <2>7. mempool' = pool BY <1>6 DEF NodeReorg, Txs
  <2> QED BY <1>10, <1>12, <2>6, <2>7 DEF MinedOnce
<1>22. NodeTxs'
  <2>1. \A t : Booked(t) => Booked(t)' BY <1>2, StillBooked
  <2>2. best[Len(best)] \in 1 .. Len(blocks) BY <1>6, Typed DEF Inv
  <2>3. mempool' = mempool \cup Txs(blocks, best[Len(best)]) BY <1>6 DEF NodeReorg, Txs
  <2>4. \A t \in mempool' : Booked(t)' BY <2>1, <2>2, <2>3 DEF Inv, NodeTxs
  <2>5. Len(bs) = n + 2 BY <1>6, <1>8, <1>9
  <2>6. ASSUME NEW k \in 1 .. Len(bs) PROVE \A t \in Txs(bs, k) : Booked(t)'
    <3>1. CASE k \in 1 .. n
      <4>1. Txs(bs, k) = Txs(blocks, k) BY <1>7, <3>1, ExtendsTxs
      <4> QED BY <2>1, <3>1, <4>1 DEF Inv, NodeTxs
    <3>2. CASE k = n + 1 \/ k = n + 2 BY <1>8, <1>9, <3>2, NothingYet DEF Txs, x, y
    <3> QED BY <1>6, <2>5, <3>1, <3>2
  <2> QED BY <1>10, <2>4, <2>6 DEF NodeTxs
<1>23. SendsOK' BY <1>1, KeepSends DEF Inv
<1>24. CoinsOK' BY <1>1, KeepCoins DEF Inv
<1>25. SlotsOK' BY <1>1, <1>2, KeepSlots DEF Inv
<1>26. FromOK'
  <2>1. FromNode([type |-> "invblock"])' BY DEF FromNode
  <2> QED BY <1>3, <2>1, FromSent DEF Inv, NodeReorg, Tell
<1>27. ToOK' BY <1>1, <1>2, <1>3, KeepTo DEF Inv
<1>28. MapOK' BY <1>1, <1>2, KeepMap DEF Inv
<1>29. IncOK' BY <1>1, <1>2, KeepInc DEF Inv
<1>30. Cycle' BY <1>1, <1>4, <1>5, <1>19, KeepCycle DEF Inv, SameAsks, SameTold
<1>31. Handler' BY <1>1, <1>3, <1>19, KeepHandler DEF Inv
<1>32. FileSeq' BY <1>1, <1>3, KeepFile DEF Inv
<1>33. QueueOK' BY <1>1, <1>19, KeepQueue DEF Inv
<1>34. Linear'
  <2>1. reorgs' # 0 BY Typed DEF NodeReorg, Inv
  <2> QED BY <2>1 DEF Linear
<1>35. Chained'
  <2>1. reorgs' = reorgs + 1 BY DEF NodeReorg
  <2> QED BY <1>1, <1>3, <2>1, <1>19, KeepChained DEF Inv
<1> QED BY <1>20, <1>21, <1>22, <1>23, <1>24, <1>25, <1>26, <1>27, <1>28,
  <1>29, <1>30, <1>31, <1>32, <1>33, <1>34, <1>35 DEF Inv

(* The headers that the node answers with follow one another, and follow   *)
(* the newest block of the locator.                                        *)
LEMMA Newest ==
  ASSUME BlocksOK, NEW locator
  PROVE  \E k \in 1 .. Len(best) :
           /\ k = 1 \/ best[k] \in locator
           /\ \A i \in 1 .. Len(best) : best[i] \in locator => i <= k
           /\ HeadersAfter(locator) = SubSeq(best, k + 1, Len(best))
<1> DEFINE known == {i \in DOMAIN best : i = 1 \/ best[i] \in locator}
           from == CHOOSE i \in known : \A j \in known : j <= i
<1>1. DOMAIN best = 1 .. Len(best) /\ Len(best) \in Nat /\ 1 <= Len(best) BY Typed
<1>2. known \in SUBSET (1 .. Len(best)) /\ 1 \in known BY <1>1
<1> HIDE DEF known
<1>3. \E x \in known : \A y \in known : y <= x BY <1>1, <1>2, Greatest
<1>4. from \in known /\ \A j \in known : j <= from BY <1>3
<1>5. HeadersAfter(locator) = SubSeq(best, from + 1, Len(best)) BY DEF HeadersAfter, known
<1> HIDE DEF from
<1> QED BY <1>1, <1>2, <1>4, <1>5 DEF known

LEMMA HeadersRun ==
  ASSUME BlocksOK, NEW locator
  PROVE  Run(blocks, HeadersAfter(locator))
<1>1. PICK k \in 1 .. Len(best) : HeadersAfter(locator) = SubSeq(best, k + 1, Len(best)) BY Newest
<1>2. Mined(blocks) /\ Path(blocks, best) BY DEF BlocksOK
<1> QED BY <1>1, <1>2, PathRest

LEMMA HeadersNext ==
  ASSUME BlocksOK, FileSeq, OneChain, NEW locator,
         Len(file) \in locator, locator \subseteq 1 .. Len(file)
  PROVE  Next1(HeadersAfter(locator))
<1>1. PICK k \in 1 .. Len(best) :
           /\ k = 1 \/ best[k] \in locator
           /\ \A i \in 1 .. Len(best) : best[i] \in locator => i <= k
           /\ HeadersAfter(locator) = SubSeq(best, k + 1, Len(best))
  BY Newest
<1>2. /\ Len(best) \in Nat /\ Len(file) \in Nat /\ 1 <= Len(file) /\ Len(file) <= Len(best)
      /\ \A i \in 1 .. Len(best) : best[i] = i
  BY Typed DEF OneChain, FileSeq
<1>3. Len(file) \in 1 .. Len(best) /\ Len(file) <= k BY <1>1, <1>2
<1>4. k <= Len(file) BY <1>1, <1>2
<1>5. k = Len(file) BY <1>1, <1>2, <1>3, <1>4
<1>6. Mined(blocks) /\ Path(blocks, best) BY DEF BlocksOK
<1> DEFINE h == HeadersAfter(locator)
<1>7. Len(h) = Len(best) - k /\ \A i \in 1 .. Len(best) - k : h[i] = best[k + i]
  BY <1>1, <1>6, PathRest
<1> HIDE DEF h
<1>8. \A i \in 1 .. Len(best) - k : k + i \in 1 .. Len(best) BY <1>2
<1>9. Next1(h) BY <1>2, <1>5, <1>7, <1>8 DEF Next1
<1> QED BY <1>9 DEF h

(* Cycle tells queues apart only by whether a question or an answer is in. *)
LEMMA CycleMoved ==
  ASSUME Cycle, UNCHANGED <<hh, wait, queue>>, SameBlock,
         Single(At(toNode', "getheaders")), Single(At(toSpv', "headers")),
         At(toNode', "getheaders") = {} <=> At(toNode, "getheaders") = {},
         At(toSpv', "headers") = {} <=> At(toSpv, "headers") = {}
  PROVE  Cycle'
  BY DEF Cycle, Asked, Told, Quiet, SameBlock

(* What is in no block of the chain may join what waits.                   *)
LEMMA OneMoreApart ==
  ASSUME NEW bs, NEW c, NEW pool, NEW tx, Apart(bs, c, pool),
         \A i \in 1 .. Len(c) : tx \notin Txs(bs, c[i])
  PROVE  Apart(bs, c, pool \cup {tx})
<1> SUFFICES ASSUME NEW i \in 1 .. Len(c)
    PROVE  /\ Txs(bs, c[i]) \cap (pool \cup {tx}) = {}
           /\ \A j \in 1 .. Len(c) : Txs(bs, c[i]) \cap Txs(bs, c[j]) # {} => i = j
    BY DEF Apart
<1>1. Txs(bs, c[i]) \cap pool = {} BY DEF Apart
<1>2. tx \notin Txs(bs, c[i])
  OBVIOUS
<1>3. \A j \in 1 .. Len(c) : Txs(bs, c[i]) \cap Txs(bs, c[j]) # {} => i = j BY DEF Apart
<1> QED BY <1>1, <1>2, <1>3

(* A transaction is not taken twice.                                       *)
LEMMA TakenOnce ==
  ASSUME NEW tx, Valid(tx), tx.ins # {}
  PROVE  tx \notin Confirmed \cup mempool
<1> DEFINE C == Confirmed \cup mempool
<1> SUFFICES ASSUME tx \in C PROVE FALSE
  OBVIOUS
<1> DEFINE used == UNION {t.ins : t \in C}
<1>1. tx.ins \subseteq (UNION {Outpoints(t) : t \in C}) \ used
  BY DEF Valid, Unspent
<1>2. tx.ins \subseteq used
  OBVIOUS
<1>3. PICK op : op \in tx.ins
  OBVIOUS
<1> HIDE DEF C, used
<1> QED BY <1>1, <1>2, <1>3

LEMMA ServeStep ==
  ASSUME Inv, NodeServe
  PROVE  Inv'
<1>1. UNCHANGED <<utxos, stxos, frozen, sends, sync, prev, missed, txUp, heightUp, tracked, TxMap, blocks, best, reorgs, file, syncHeight, queue, wait, okTxids, hh, inc, restarts>>
  BY DEF NodeServe, wallet, hook
<1>2. Growing BY <1>1 DEF Growing
<1>3. Extends(blocks, blocks') BY <1>1, Typed DEF Inv
<1>19. SameBlock BY <1>1, SameInc
<1> DEFINE m == Head(toNode)
<1>6. /\ toNode # <<>> /\ toNode' = Tail(toNode) /\ IsSeq(toNode)
      /\ m \in ToSet(toNode) /\ ToTheNode(m)
  <2>1. toNode # <<>> /\ IsSeq(toNode) BY DEF NodeServe, Inv, ToOK
  <2>2. m \in ToSet(toNode) BY <2>1, Shorter
  <2> QED BY <2>1, <2>2 DEF NodeServe, Inv, ToOK
<1>7. m.type = "getheaders" =>
        toSpv' = Append(toSpv, [type |-> "headers", hdrs |-> HeadersAfter(m.locator)])
  BY DEF NodeServe, Tell
<1> HIDE DEF m
<1>8. \/ UNCHANGED mempool
      \/ m.type = "tx" /\ m.signed /\ Valid(m.tx) /\ mempool' = mempool \cup {m.tx}
  BY DEF NodeServe, m
<1>9. m.type # "getheaders" =>
        \/ UNCHANGED toSpv
        \/ \E a : toSpv' = Append(toSpv, a) /\ a.type # "headers" /\ FromNode(a)'
  <2>1. CASE m.type = "getblock" /\ m.id # Hole
    <3>1. toSpv' = Append(toSpv, [type |-> "block", id |-> m.id]) BY <2>1 DEF NodeServe, Tell, m
    <3>2. PICK a : a = [type |-> "block", id |-> m.id]
      OBVIOUS
    <3>4. m.id \in 1 .. Len(blocks) BY <1>6, <2>1, Typed DEF ToTheNode, Hole, Inv
    <3>3. FromNode(a)' /\ a.type # "headers" BY <1>1, <3>2, <3>4 DEF FromNode
    <3> QED BY <3>1, <3>2, <3>3
  <2>2. CASE m.type = "gettx"
    <3>1. toSpv' = Append(toSpv, [type |-> "tx", tx |-> m.tx]) BY <2>2 DEF NodeServe, Tell, m
    <3>2. PICK a : a = [type |-> "tx", tx |-> m.tx]
      OBVIOUS
    <3>3. FromNode(a)' /\ a.type # "headers" BY <1>6, <2>2, <3>2 DEF FromNode, ToTheNode
    <3> QED BY <3>1, <3>2, <3>3
  <2>3. CASE m.type = "inv"
    <3>1. toSpv' = Append(toSpv, [type |-> "getdata", tx |-> m.tx]) BY <2>3 DEF NodeServe, Tell, m
    <3>2. PICK a : a = [type |-> "getdata", tx |-> m.tx]
      OBVIOUS
    <3>3. FromNode(a)' /\ a.type # "headers" BY <3>2 DEF FromNode
    <3> QED BY <3>1, <3>2, <3>3
  <2>4. CASE m.type \notin {"getheaders", "getblock", "gettx", "inv"}
    BY <2>4 DEF NodeServe, m
  <2>5. CASE m.type = "getblock" /\ ~(m.id # Hole)
    BY <2>5 DEF NodeServe, m
  <2> QED BY <2>1, <2>2, <2>3, <2>4, <2>5
<1>5. m.type # "getheaders" => SameTold
  <2> SUFFICES ASSUME m.type # "getheaders" PROVE SameTold
    OBVIOUS
  <2>1. CASE UNCHANGED toSpv BY <2>1, NoNewTold
  <2>2. CASE ~UNCHANGED toSpv
    <3>1. PICK a : toSpv' = Append(toSpv, a) /\ a.type # "headers" BY <1>9, <2>2
    <3> QED BY <3>1, OtherNews DEF Inv
  <2> QED BY <2>1, <2>2
<1>20. BlocksOK' BY <1>1, KeepBlocks DEF Inv
<1>21. MinedOnce'
  <2>1. CASE UNCHANGED mempool BY <1>1, <2>1, KeepMined DEF Inv
  <2>2. CASE m.type = "tx" /\ m.signed /\ Valid(m.tx) /\ mempool' = mempool \cup {m.tx}
    <3>1. m.tx \notin Confirmed BY <1>6, <2>2, TakenOnce DEF ToTheNode
    <3>2. \A i \in 1 .. Len(best) : m.tx \notin Txs(blocks, best[i]) BY <3>1, ConfirmedIs DEF Inv
    <3>3. MinedOnce BY DEF Inv
    <3>4. mempool' = mempool \cup {m.tx} BY <2>2
    <3> QED BY <1>1, <3>2, <3>3, <3>4, OneMoreApart DEF MinedOnce
  <2> QED BY <1>8, <2>1, <2>2
<1>22. NodeTxs'
  <2>1. CASE UNCHANGED mempool BY <1>1, <1>2, <2>1, KeepTxs DEF Inv
  <2>2. CASE m.type = "tx" /\ m.signed /\ Valid(m.tx) /\ mempool' = mempool \cup {m.tx}
    <3>1. \A t : Booked(t) => Booked(t)' BY <1>2, StillBooked
    <3>2. Booked(m.tx) BY <1>6, <2>2 DEF ToTheNode
    <3>3. PICK u : u = m.tx
      OBVIOUS
    <3>6. Booked(u)' BY <3>1, <3>2, <3>3
    <3>4. \A t \in mempool' : Booked(t)'
      <4>1. \A t \in mempool : Booked(t)' BY <3>1 DEF Inv, NodeTxs
      <4> QED BY <2>2, <3>3, <3>6, <4>1
    <3>5. \A k \in 1 .. Len(blocks) : \A t \in Txs(blocks, k) : Booked(t)' BY <3>1 DEF Inv, NodeTxs
    <3> QED BY <1>1, <3>4, <3>5 DEF NodeTxs
  <2> QED BY <1>8, <2>1, <2>2
<1>23. SendsOK' BY <1>1, KeepSends DEF Inv
<1>24. CoinsOK' BY <1>1, KeepCoins DEF Inv
<1>25. SlotsOK' BY <1>1, <1>2, KeepSlots DEF Inv
<1>26. FromOK'
  <2>1. CASE m.type = "getheaders"
    <3>1. PICK h : h = HeadersAfter(m.locator)
      OBVIOUS
    <3>2. Run(blocks, h) BY <3>1, HeadersRun DEF Inv
    <3>3. FromNode([type |-> "headers", hdrs |-> h])' BY <1>1, <3>2 DEF FromNode
    <3>4. toSpv' = Append(toSpv, [type |-> "headers", hdrs |-> h]) BY <1>7, <2>1, <3>1
    <3> QED BY <1>3, <3>3, <3>4, FromSent DEF Inv
  <2>2. CASE m.type # "getheaders"
    <3>1. CASE UNCHANGED toSpv BY <1>3, <3>1, KeepFrom DEF Inv
    <3>2. CASE ~UNCHANGED toSpv
      <4>1. PICK a : toSpv' = Append(toSpv, a) /\ FromNode(a)' BY <1>9, <2>2, <3>2
      <4> QED BY <1>3, <4>1, FromSent DEF Inv
    <3> QED BY <3>1, <3>2
  <2> QED BY <2>1, <2>2
<1>27. ToOK' BY <1>2, <1>3, <1>6, ToTaken DEF Inv
<1>28. MapOK' BY <1>1, <1>2, KeepMap DEF Inv
<1>29. IncOK' BY <1>1, <1>2, KeepInc DEF Inv
<1>30. Cycle'
  <2>1. IsSeq(toNode) /\ IsSeq(toSpv) BY DEF Inv, ToOK, FromOK
  <2>2. Single(At(toNode', "getheaders")) BY <1>6, <2>1, AtStillSingle DEF Inv, Cycle
  <2>3. CASE m.type = "getheaders"
    <3>1. At(toNode', "getheaders") = {} /\ At(toNode, "getheaders") # {}
      BY <1>6, <2>1, <2>3, AtTaken DEF Inv, Cycle, m
    <3>2. ~Told /\ hh = Idle /\ ~wait /\ Quiet BY <3>1 DEF Inv, Cycle, Asked
    <3>3. At(toSpv, "headers") = {} BY <3>2 DEF Told
    <3>4. Single(At(toSpv', "headers")) BY <1>7, <2>1, <2>3, <3>3, AtFirst
    <3>5. hh' = Idle /\ ~wait' /\ Quiet' BY <1>1, <3>2 DEF Quiet, InBlock
    <3>6. wait' \in BOOLEAN BY <1>1 DEF Inv, Cycle
    <3> QED BY <2>2, <3>1, <3>4, <3>5, <3>6 DEF Cycle, Asked, Told
  <2>4. CASE m.type # "getheaders"
    <3>1. At(toNode', "getheaders") = {} <=> At(toNode, "getheaders") = {}
      BY <1>6, <2>1, <2>4, AtShorter, AtMoved DEF m
    <3>2. At(toSpv', "headers") = At(toSpv, "headers") BY <1>5, <2>4 DEF SameTold
    <3>3. Single(At(toSpv', "headers")) BY <3>2 DEF Inv, Cycle
    <3> QED BY <1>1, <2>2, <3>1, <3>2, <3>3, <1>19, CycleMoved DEF Inv
  <2> QED BY <2>3, <2>4
<1>31. Handler' BY <1>1, <1>3, <1>19, KeepHandler DEF Inv
<1>32. FileSeq' BY <1>1, <1>3, KeepFile DEF Inv
<1>33. QueueOK' BY <1>1, <1>19, KeepQueue DEF Inv
<1>34. Linear'
  <2> SUFFICES ASSUME reorgs = 0 PROVE OneChain' /\ InStep'
    BY <1>1 DEF Linear
  <2>1. OneChain /\ InStep BY DEF Inv, Linear
  <2>2. OneChain' BY <1>1, <2>1 DEF OneChain
  <2>3. \A s : Next1(s) <=> Next1(s)' BY <1>1 DEF Next1
  <2>4. \A x \in ToSet(toNode') : x \in ToSet(toNode) BY <1>6, Shorter
  <2>5. ASSUME NEW x \in ToSet(toSpv'), x.type = "headers" PROVE Next1(x.hdrs)
    <3>1. CASE m.type = "getheaders"
      <4> DEFINE h == HeadersAfter(m.locator)
      <4>1. Next1(h) BY <1>6, <2>1, <3>1, HeadersNext DEF InStep, Inv
      <4> HIDE DEF h
      <4>3. PICK a : a = [type |-> "headers", hdrs |-> h]
        OBVIOUS
      <4>4. toSpv' = Append(toSpv, a) BY <1>7, <3>1, <4>3 DEF h
      <4>5. IsSeq(toSpv) BY DEF Inv, FromOK
      <4>2. ToSet(toSpv') = ToSet(toSpv) \cup {[type |-> "headers", hdrs |-> h]}
        BY <4>3, <4>4, <4>5, Grown
      <4> QED BY <2>1, <2>5, <4>1, <4>2 DEF InStep
    <3>2. CASE m.type # "getheaders" BY <1>5, <2>1, <2>5, <3>2 DEF SameTold, InStep
    <3> QED BY <3>1, <3>2
  <2>6. InStep' BY <1>1, <2>1, <2>3, <2>4, <2>5, Zenon DEF InStep
  <2> QED BY <2>2, <2>6
<1>35. Chained' BY <1>1, <1>3, <1>19, KeepChained DEF Inv
<1> QED BY <1>20, <1>21, <1>22, <1>23, <1>24, <1>25, <1>26, <1>27, <1>28,
  <1>29, <1>30, <1>31, <1>32, <1>33, <1>34, <1>35 DEF Inv

-----------------------------------------------------------------------------
(* Headers.                                                                *)

LEMMA NoneIn ==
  ASSUME NEW q, IsSeq(q), NEW type, At(q, type) = {}
  PROVE  \A m \in ToSet(q) : m.type # type
<1> SUFFICES ASSUME NEW m \in ToSet(q), m.type = type PROVE FALSE
  OBVIOUS
<1>1. PICK i \in 1 .. Len(q) : q[i] = m BY Elements
<1>2. i \in At(q, type) BY <1>1 DEF At
<1> QED BY <1>2

(* While HeaderHandler works nothing else is asked or answered.            *)
LEMMA Alone ==
  ASSUME Inv, hh # Idle
  PROVE  /\ At(toNode, "getheaders") = {} /\ At(toSpv, "headers") = {} /\ ~wait /\ wait \in BOOLEAN
         /\ \A m \in ToSet(toNode) : m.type # "getheaders"
         /\ \A m \in ToSet(toSpv) : m.type # "headers"
         /\ Handler /\ hh = <<hh[1]>> /\ hh[1].pc \in {"ingest", "more", "blocks"}
<1>1. At(toNode, "getheaders") = {} /\ At(toSpv, "headers") = {} /\ ~wait /\ wait \in BOOLEAN
  BY DEF Inv, Cycle, Asked, Told
<1>2. IsSeq(toNode) /\ IsSeq(toSpv) BY DEF Inv, ToOK, FromOK
<1> QED BY <1>1, <1>2, NoneIn DEF Inv, Handler

(* The message attaches to the last header, or to one in the file.         *)
LEMMA Attaches ==
  ASSUME FileSeq, NEW hs, CheckHeaderChain(hs) >= 0
  PROVE  \/ CheckHeaderChain(hs) = 0 /\ blocks[hs[1]].prev = Last(file)
         \/ /\ blocks[hs[1]].prev # Last(file)
            /\ \E i \in 1 .. Len(file) :
                 /\ file[i] = blocks[hs[1]].prev
                 /\ CheckHeaderChain(hs) = StartHeight - 1 + i
<1> DEFINE prv == blocks[hs[1]].prev
           at == {i \in DOMAIN file : file[i] = prv}
           i == CHOOSE i \in at : \A j \in at : j <= i
<1>1. CASE prv = Last(file) BY <1>1 DEF CheckHeaderChain
<1>2. CASE prv # Last(file)
  <2>1. CheckHeaderChain(hs) = FindHeader(hs[1]) /\ FindHeader(hs[1]) # -1
    BY <1>2 DEF CheckHeaderChain
  <2>2. FindHeader(hs[1]) = IF at = {} THEN -1 ELSE StartHeight - 1 + i BY DEF FindHeader
  <2>3. at # {} BY <2>1, <2>2
  <2>4. DOMAIN file = 1 .. Len(file) /\ Len(file) \in Nat BY DEF FileSeq
  <2>5. at \in SUBSET (1 .. Len(file)) BY <2>4
  <2>6. \E x \in at : \A y \in at : y <= x
    <3> HIDE DEF at
    <3> QED BY <2>3, <2>4, <2>5, Greatest
  <2>7. i \in at BY <2>6
  <2>8. FindHeader(hs[1]) = StartHeight - 1 + i BY <2>2, <2>3
  <2>9. i \in 1 .. Len(file) /\ file[i] = prv BY <2>4, <2>7
  <2> HIDE DEF i, at
  <2> QED BY <1>2, <2>1, <2>8, <2>9
<1> QED BY <1>1, <1>2

Joins(u, s, t) ==
  /\ Len(u) = Len(s) + Len(t) /\ Len(s) \in Nat /\ Len(t) \in Nat
  /\ \A i \in 1 .. Len(s) : u[i] = s[i]
  /\ \A i \in 1 .. Len(t) : u[Len(s) + i] = t[i]

LEMMA Grows2 ==
  ASSUME NEW S, NEW s \in Seq(S), NEW t \in Seq(S)
  PROVE  s \o t \in Seq(S) /\ Joins(s \o t, s, t)
<1>1. /\ s \o t \in Seq(S) /\ Len(s \o t) = Len(s) + Len(t) /\ Len(s) \in Nat /\ Len(t) \in Nat
      /\ \A i \in 1 .. Len(s) + Len(t) : (s \o t)[i] = IF i <= Len(s) THEN s[i] ELSE t[i - Len(s)]
  BY ConcatProperties
<1>2. \A i \in 1 .. Len(s) : (s \o t)[i] = s[i] BY <1>1
<1>3. ASSUME NEW i \in 1 .. Len(t) PROVE (s \o t)[Len(s) + i] = t[i]
  <2>1. Len(s) + i \in 1 .. Len(s) + Len(t) /\ ~(Len(s) + i <= Len(s)) /\ (Len(s) + i) - Len(s) = i
    BY <1>1
  <2>2. (s \o t)[Len(s) + i] = t[(Len(s) + i) - Len(s)] BY <1>1, <2>1
  <2> QED BY <2>1, <2>2
<1> QED BY <1>1, <1>2, <1>3 DEF Joins

(* The file after a reorganisation.                                        *)
LEMMA Rewritten ==
  ASSUME NEW i \in 1 .. Len(file), FileSeq, NEW hs \in Seq(Nat)
  PROVE  LET f == SubSeq(file, 1, i - 1) \o <<Hole>> \o hs
         IN  /\ f \in Seq(Nat) /\ Len(f) = i + Len(hs)
             /\ \A j \in 1 .. i - 1 : f[j] = file[j]
             /\ f[i] = Hole
             /\ \A j \in 1 .. Len(hs) : f[i + j] = hs[j]
<1> DEFINE a == SubSeq(file, 1, i - 1)
           g == a \o <<Hole>>
<1>1. file \in Seq(Nat) /\ Len(file) \in Nat /\ i \in Nat /\ i >= 1 BY DEF FileSeq
<1>2. a \in Seq(Nat) /\ Len(a) = i - 1 /\ \A j \in 1 .. i - 1 : a[j] = file[j]
  <2>1. \A j \in 1 .. i - 1 : file[j] \in Nat BY <1>1
  <2>2. /\ a \in Seq(Nat) /\ Len(a) = IF 1 <= i - 1 THEN (i - 1) - 1 + 1 ELSE 0
        /\ \A j \in 1 .. (i - 1) - 1 + 1 : a[j] = file[1 + j - 1]
    <3>1. 1 \in Int /\ i - 1 \in Int BY <1>1
    <3> QED BY <2>1, <3>1, SubSeqProperties
  <2> HIDE DEF a
  <2>3. Len(a) = i - 1 BY <1>1, <2>2
  <2>4. \A j \in 1 .. i - 1 : j \in 1 .. (i - 1) - 1 + 1 /\ 1 + j - 1 = j BY <1>1
  <2> QED BY <2>2, <2>3, <2>4
<1> HIDE DEF a
<1>3. <<Hole>> \in Seq(Nat) /\ Len(<<Hole>>) = 1 /\ <<Hole>>[1] = Hole BY DEF Hole
<1> DEFINE k == Len(a)
           o == <<Hole>>
<1> HIDE DEF o
<1>10. o \in Seq(Nat) /\ Len(o) = 1 /\ o[1] = Hole BY <1>3 DEF o
<1>11. /\ a \o o \in Seq(Nat) /\ Len(a \o o) = k + Len(o)
       /\ \A j \in 1 .. k : (a \o o)[j] = a[j]
       /\ \A j \in 1 .. Len(o) : (a \o o)[k + j] = o[j]
  <2>1. a \o o \in Seq(Nat) /\ Joins(a \o o, a, o) BY <1>2, <1>10, Grows2
  <2> QED BY <2>1 DEF Joins
<1>12. k = i - 1 /\ k + 1 = i /\ 1 \in 1 .. Len(o) BY <1>1, <1>2, <1>10
<1>13. (a \o o)[k + 1] = Hole BY <1>10, <1>11, <1>12
<1>14. g = a \o o BY DEF o
<1> HIDE DEF k
<1> HIDE DEF g
<1>15. g \in Seq(Nat) /\ \A j \in 1 .. i - 1 : g[j] = a[j] BY <1>11, <1>12, <1>14
<1>16. Len(g) = (i - 1) + 1 BY <1>10, <1>11, <1>12, <1>14
<1>4. /\ g \in Seq(Nat) /\ Len(g) = (i - 1) + 1
      /\ \A j \in 1 .. i - 1 : g[j] = a[j]
  BY <1>15, <1>16
<1>5. g[i] = Hole BY <1>12, <1>13, <1>14
<1>6. Len(g) = i BY <1>1, <1>4
<1> DEFINE f == g \o hs
<1>7. /\ f \in Seq(Nat) /\ Len(f) = i + Len(hs)
      /\ \A j \in 1 .. i : f[j] = g[j]
      /\ \A j \in 1 .. Len(hs) : f[i + j] = hs[j]
  <2>1. f \in Seq(Nat) /\ Joins(f, g, hs) BY <1>4, Grows2
  <2> HIDE DEF f
  <2> QED BY <1>6, <2>1 DEF Joins
<1> HIDE DEF f
<1>8. ASSUME NEW j \in 1 .. i - 1 PROVE f[j] = file[j]
  <2>1. j \in 1 .. i BY <1>1
  <2>2. f[j] = g[j] BY <1>7, <2>1
  <2>3. g[j] = a[j] BY <1>4
  <2>4. a[j] = file[j] BY <1>2
  <2> QED BY <2>2, <2>3, <2>4
<1>9. f[i] = Hole BY <1>1, <1>5, <1>7
<1> QED BY <1>7, <1>8, <1>9 DEF f, g, a

LEMMA CountsMoved ==
  ASSUME NEW c, NEW d, Counts(c), CoinsOK, SlotsOK, UNCHANGED <<utxos, txUp, missed>>,
         \A tx : \A h \in Nat : Good(c, tx, h) => Good(d, tx, h)'
  PROVE  Counts(d)'
<1>1. \A op \in DOMAIN utxos : utxos[op] \in Nat BY DEF CoinsOK
<1>2. \A u \in ToSet(txUp) : u.height \in Nat BY DEF SlotsOK
<1> QED BY <1>1, <1>2, Zenon DEF Counts

(* Headers that continue the file continue its chain.                      *)
LEMMA Appended ==
  ASSUME Inv, NEW hs, Run(blocks, hs), hs # <<>>, Quiet, NEW c, FileOK(c), Counts(c),
         blocks[hs[1]].prev = Last(file), file' = file \o hs,
         UNCHANGED <<blocks, queue, inc, syncHeight, heightUp, prev, restarts, utxos, txUp, missed>>
  PROVE  \E d : FileOK(d)' /\ Counts(d)'
<1> DEFINE d == c \o hs
           S == 1 .. Len(blocks)
<1>1. /\ Path(blocks, c) /\ Len(c) = Len(file) /\ file \in Seq(Nat) /\ 1 <= Len(file)
      /\ Len(blocks) \in Nat /\ Len(file) \in Nat /\ StartHeight \in Nat /\ syncHeight \in Nat
  BY Typed DEF FileOK, Inv, FileSeq, SlotsOK
<1>2. Last(file) = file[Len(file)] /\ file[Len(file)] = c[Len(file)]
  <2>1. Len(file) \in 1 .. Len(file) BY <1>1
  <2>2. file[Len(file)] = c[Len(file)] BY <2>1, <1>1 DEF FileOK
  <2> QED BY <2>2 DEF Last
<1>3. Path(blocks, d)
  <2>1. blocks[hs[1]].prev = c[Len(c)] BY <1>1, <1>2
  <2> QED BY <1>1, <2>1, PathJoined
<1>4. c \in Seq(S) /\ hs \in Seq(2 .. Len(blocks)) BY <1>1 DEF Path, Run
<1>5. hs \in Seq(S) /\ hs \in Seq(Nat) BY <1>1, <1>4, Larger
<1>6. /\ Len(d) = Len(file) + Len(hs) /\ Len(hs) \in Nat
      /\ \A i \in 1 .. Len(file) : d[i] = c[i]
      /\ \A i \in 1 .. Len(hs) : d[Len(file) + i] = hs[i]
  <2> HIDE DEF S
  <2>1. Joins(d, c, hs) BY <1>4, <1>5, Grows2
  <2> HIDE DEF d
  <2> QED BY <1>1, <2>1 DEF Joins
<1>7. /\ Len(file') = Len(file) + Len(hs)
      /\ \A i \in 1 .. Len(file) : file'[i] = file[i]
      /\ \A i \in 1 .. Len(hs) : file'[Len(file) + i] = hs[i]
  <2>1. Joins(file', file, hs) BY <1>1, <1>5, Grows2
  <2> QED BY <2>1 DEF Joins
<1> HIDE DEF d
<1>8. ASSUME NEW i \in 1 .. Len(file')
      PROVE  file'[i] = d[i] \/ (file'[i] = Hole /\ StartHeight - 1 + i <= syncHeight' /\ i < Len(file'))
  <2>1. CASE i \in 1 .. Len(file)
    <3>1. file'[i] = file[i] /\ d[i] = c[i] /\ syncHeight' = syncHeight BY <1>6, <1>7, <2>1
    <3>2. file[i] = c[i] \/ (file[i] = Hole /\ StartHeight - 1 + i <= syncHeight /\ i < Len(file))
      BY <2>1 DEF FileOK
    <3>3. Len(file) <= Len(file') BY <1>1, <1>6, <1>7
    <3>4. i < Len(file) => i < Len(file') BY <1>1, <1>6, <1>7, <2>1, <3>3
    <3> QED BY <3>1, <3>2, <3>4
  <2>2. CASE i \notin 1 .. Len(file)
    <3>1. i - Len(file) \in 1 .. Len(hs) /\ Len(file) + (i - Len(file)) = i BY <1>1, <1>6, <1>7, <2>2
    <3> QED BY <1>6, <1>7, <3>1
  <2> QED BY <2>1, <2>2
<1>9. queue' = <<>> /\ ~InBlock' BY DEF Quiet, InBlock
<1>10. syncHeight' <= HeightOf(file')
  <2>1. syncHeight <= HeightOf(file) BY DEF FileOK
  <2> QED BY <1>1, <1>6, <1>7, <2>1 DEF HeightOf
<1>11. FileOK(d)'
  <2>1. Path(blocks', d) BY <1>3
  <2>2. Len(d) = Len(file') BY <1>6, <1>7
  <2>3. \A i \in 1 .. Len(queue') : FALSE BY <1>9, NothingYet
  <2> QED BY <1>8, <1>9, <1>10, <2>1, <2>2, <2>3 DEF FileOK
<1>12. ASSUME NEW tx, NEW h \in Nat, Good(c, tx, h) PROVE Good(d, tx, h)'
  <2>1. ASSUME Placed(c, tx, h) PROVE Placed(d, tx, h)'
    <3>1. Index(h) \in 1 .. Len(file) /\ tx \in Txs(blocks, c[Index(h)]) BY <1>1, <2>1 DEF Placed
    <3>2. Index(h) \in 1 .. Len(d) BY <1>1, <1>6, <3>1
    <3>3. d[Index(h)] = c[Index(h)] BY <1>6, <3>1
    <3> QED BY <3>1, <3>2, <3>3 DEF Placed
  <2> QED BY <1>12, <2>1 DEF Good, Doomed, Top, InBlock
<1>13. Counts(d)' BY <1>12, CountsMoved DEF Inv
<1> QED BY <1>11, <1>13

(* Arithmetic: what stands at or before position i of a file that goes on is *)
(* not above the height of i, and not last.                                 *)
LEMMA AtOrBefore ==
  ASSUME NEW s \in Nat, NEW i \in Nat, NEW j \in Nat, NEW l \in Nat, j <= i, l >= 1,
         NEW top, NEW n, top = s - 1 + i, n = i + l
  PROVE  s - 1 + j <= top /\ j < n
  OBVIOUS

(* Arithmetic: the height of a position is one, and not below the first.    *)
LEMMA NotBelow ==
  ASSUME NEW s \in Nat, NEW i \in Nat, i >= 1, NEW a, a = s - 1 + i
  PROVE  a \in Nat /\ s <= a
  OBVIOUS

(* Headers that attach further down take the end of the chain away; the    *)
(* rollback of what was counted there is then on its way.                  *)
LEMMA Reorganised ==
  ASSUME Inv, NEW hs, Run(blocks, hs), hs # <<>>, Quiet, NEW c, FileOK(c), Counts(c),
         restarts = 0, Heights, heightUp = <<>>,
         NEW i \in 1 .. Len(file), file[i] = blocks[hs[1]].prev,
         file' = SubSeq(file, 1, i - 1) \o <<Hole>> \o hs,
         NEW a, a = StartHeight - 1 + i, heightUp' = <<a>>, syncHeight' = a,
         UNCHANGED <<blocks, queue, inc, prev, restarts, utxos, txUp, missed>>
  PROVE  \E d : FileOK(d)' /\ Counts(d)'
<1> DEFINE b == SubSeq(c, 1, i)
           d == b \o hs
           S == 1 .. Len(blocks)
<1>1. /\ Path(blocks, c) /\ Len(c) = Len(file) /\ file \in Seq(Nat) /\ 1 <= Len(file)
      /\ Len(blocks) \in Nat /\ Len(file) \in Nat /\ StartHeight \in Nat /\ syncHeight \in Nat
      /\ prev \in Nat /\ i \in Nat /\ i >= 1 /\ i <= Len(file) /\ a \in Nat /\ StartHeight <= a
      /\ StartHeight >= 1
  <2>1. file \in Seq(Nat) /\ 1 <= Len(file) /\ Len(file) \in Nat BY DEF Inv, FileSeq
  <2>2. Path(blocks, c) /\ Len(c) = Len(file) BY DEF FileOK
  <2>3. syncHeight \in Nat /\ prev \in Nat BY DEF Inv, SlotsOK
  <2>4. Len(blocks) \in Nat /\ StartHeight \in Nat /\ StartHeight >= 1 BY Typed DEF Inv
  <2>5. i \in Nat /\ i >= 1 /\ i <= Len(file) BY <2>1
  <2>6. a \in Nat /\ StartHeight <= a
    <3>1. a = StartHeight - 1 + i
      OBVIOUS
    <3> QED BY <2>4, <2>5, <3>1, NotBelow, Zenon
  <2> QED BY <2>1, <2>2, <2>3, <2>4, <2>5, <2>6
<1>2. hs \in Seq(2 .. Len(blocks)) /\ Len(hs) \in Nat /\ Len(hs) >= 1 /\ 1 \in 1 .. Len(hs) BY DEF Run
<1>3. file[i] \in 1 .. Len(blocks)
  <2>1. hs[1] \in 2 .. Len(blocks) BY <1>2
  <2>2. Mined(blocks) BY DEF Inv, BlocksOK
  <2> QED BY <2>1, <2>2 DEF Mined
<1>4. file[i] = c[i] BY <1>1, <1>3 DEF FileOK, Hole
<1>5. Path(blocks, b) /\ Len(b) = i /\ \A j \in 1 .. i : b[j] = c[j]
  <2>1. i \in 1 .. Len(c) BY <1>1
  <2> QED BY <1>1, <2>1, PathCut
<1> HIDE DEF b
<1>6. b[Len(b)] = c[i]
  <2>1. i \in 1 .. i BY <1>1
  <2> QED BY <1>5, <2>1
<1>7. Path(blocks, d)
  <2>1. blocks[hs[1]].prev = b[Len(b)] BY <1>4, <1>6
  <2>2. Len(blocks) \in Nat BY <1>1
  <2> QED BY <1>5, <2>1, <2>2, PathJoined, Zenon
<1>8. b \in Seq(S) BY <1>5 DEF Path
<1>9. hs \in Seq(S) /\ hs \in Seq(Nat)
  <2>1. 2 .. Len(blocks) \subseteq S /\ 2 .. Len(blocks) \subseteq Nat BY <1>1
  <2> HIDE DEF S
  <2> QED BY <1>2, <2>1, Larger, Zenon
<1>10. /\ Len(d) = i + Len(hs)
       /\ \A j \in 1 .. i : d[j] = c[j]
       /\ \A j \in 1 .. Len(hs) : d[i + j] = hs[j]
  <2> HIDE DEF S
  <2>1. Joins(d, b, hs) BY <1>8, <1>9, Grows2
  <2> HIDE DEF d
  <2> QED BY <1>5, <2>1 DEF Joins
<1> HIDE DEF d
<1>11. /\ Len(file') = i + Len(hs)
       /\ \A j \in 1 .. i - 1 : file'[j] = file[j]
       /\ file'[i] = Hole
       /\ \A j \in 1 .. Len(hs) : file'[i + j] = hs[j]
  BY <1>9, Rewritten DEF Inv
<1>18. ASSUME NEW j \in Nat, j <= i
       PROVE  StartHeight - 1 + j <= syncHeight' /\ j < Len(file')
  <2>1. StartHeight \in Nat /\ i \in Nat /\ Len(hs) \in Nat /\ Len(hs) >= 1 BY <1>1, <1>2
  <2>2. Len(file') = i + Len(hs) BY <1>11
  <2>3. syncHeight' = StartHeight - 1 + i
    OBVIOUS
  <2> QED BY <1>18, <2>1, <2>2, <2>3, AtOrBefore, Zenon
<1>12. ASSUME NEW j \in 1 .. Len(file')
       PROVE  file'[j] = d[j] \/ (file'[j] = Hole /\ StartHeight - 1 + j <= syncHeight' /\ j < Len(file'))
  <2>1. CASE j \in 1 .. i - 1
    <3>1. j \in 1 .. i /\ j \in 1 .. Len(file) BY <1>1, <2>1
    <3>2. file'[j] = file[j] /\ d[j] = c[j] BY <1>10, <1>11, <2>1, <3>1
    <3>3. file[j] = c[j] \/ file[j] = Hole BY <3>1 DEF FileOK
    <3>4. j \in Nat /\ j <= i BY <1>1, <2>1
    <3>5. StartHeight - 1 + j <= syncHeight' /\ j < Len(file') BY <1>18, <3>4
    <3> QED BY <3>2, <3>3, <3>5
  <2>2. CASE j = i
    <3>1. StartHeight - 1 + j <= syncHeight' /\ j < Len(file')
      <4>1. j \in Nat /\ j <= i BY <1>1, <2>2
      <4> QED BY <1>18, <4>1
    <3> QED BY <1>11, <2>2, <3>1
  <2>3. CASE j > i
    <3>1. j - i \in 1 .. Len(hs) /\ i + (j - i) = j BY <1>1, <1>2, <1>11, <2>3
    <3> QED BY <1>10, <1>11, <3>1
  <2>4. j \in 1 .. i - 1 \/ j = i \/ j > i BY <1>1
  <2> QED BY <2>1, <2>2, <2>3, <2>4
<1>13. queue' = <<>> /\ ~InBlock' BY DEF Quiet, InBlock
<1>14. syncHeight' <= HeightOf(file')
  <2>1. StartHeight - 1 + i <= syncHeight' /\ i < Len(file') BY <1>1, <1>18
  <2>2. syncHeight' = StartHeight - 1 + i
    OBVIOUS
  <2>3. Len(file') = i + Len(hs) /\ Len(hs) \in Nat /\ i \in Nat /\ StartHeight \in Nat BY <1>1, <1>2, <1>11
  <2> QED BY <2>1, <2>2, <2>3 DEF HeightOf
<1>15. FileOK(d)'
  <2>1. Path(blocks', d) BY <1>7
  <2>2. Len(d) = Len(file') BY <1>10, <1>11
  <2>3. \A j \in 1 .. Len(queue') : FALSE BY <1>13, NothingYet
  <2> QED BY <1>12, <1>13, <1>14, <2>1, <2>2, <2>3 DEF FileOK
<1>16. ASSUME NEW tx, NEW h \in Nat, Good(c, tx, h) PROVE Good(d, tx, h)'
  <2> SUFFICES ASSUME h > 0 PROVE Doomed(h)' \/ (Placed(d, tx, h)' /\ h <= Top')
    BY DEF Good
  <2>1. ~InBlock /\ ~InBlock' BY <1>13 DEF Quiet
  <2>2. Placed(c, tx, h) /\ h <= syncHeight BY <1>16, <2>1 DEF Good, Doomed, Top
  <2>3. CASE h > a
    <3>1. prev = syncHeight \/ (prev = 0 /\ syncHeight = StartHeight) BY DEF Heights
    <3>2. a < prev BY <1>1, <2>2, <2>3, <3>1
    <3> QED BY <1>1, <2>3, <3>2 DEF Doomed
  <2>4. CASE ~(h > a)
    <3>1. Index(h) \in 1 .. Len(c) /\ tx \in Txs(blocks, c[Index(h)]) BY <2>2 DEF Placed
    <3>2. Index(h) \in 1 .. i BY <1>1, <2>4, <3>1 DEF Index
    <3>6. d[Index(h)] = c[Index(h)] BY <1>10, <3>2
    <3>7. Index(h) \in 1 .. Len(d) BY <1>1, <1>2, <1>10, <3>2
    <3>3. d[Index(h)] = c[Index(h)] /\ Index(h) \in 1 .. Len(d) BY <3>6, <3>7
    <3>4. Placed(d, tx, h)' BY <3>1, <3>3 DEF Placed
    <3>5. h <= Top' BY <1>1, <2>1, <2>4 DEF Top
    <3> QED BY <3>4, <3>5
  <2> QED BY <2>3, <2>4
<1>17. Counts(d)' BY <1>16, CountsMoved DEF Inv
<1> QED BY <1>15, <1>17

(* In a line of blocks headers continue the file.                          *)
LEMMA NoBranch ==
  ASSUME BlocksOK, FileSeq, OneChain, NEW hs, Run(blocks, hs), hs # <<>>, Next1(hs)
  PROVE  /\ blocks[hs[1]].prev = Last(file)
         /\ Len(file) + Len(hs) <= Len(blocks)
<1>1. /\ Len(file) \in Nat /\ 1 <= Len(file) /\ Len(blocks) \in Nat
      /\ Len(best) = Len(blocks) /\ (\A i \in 1 .. Len(best) : best[i] = i)
      /\ \A i \in 1 .. Len(file) : file[i] = i
  BY Typed DEF OneChain, FileSeq
<1>2. hs \in Seq(2 .. Len(blocks)) /\ Len(hs) \in Nat /\ Len(hs) >= 1 BY DEF Run
<1>3. 1 \in 1 .. Len(hs) /\ Len(hs) \in 1 .. Len(hs) BY <1>2
<1>4. hs[1] = Len(file) + 1 /\ hs[Len(hs)] = Len(file) + Len(hs) BY <1>3 DEF Next1
<1>5. hs[1] \in 2 .. Len(blocks) /\ hs[Len(hs)] \in 2 .. Len(blocks) BY <1>2, <1>3
<1>6. Len(file) \in 1 .. Len(best) - 1 /\ Len(file) + 1 \in 1 .. Len(best) /\ Len(file) \in 1 .. Len(best)
  BY <1>1, <1>4, <1>5
<1>7. Path(blocks, best) BY DEF BlocksOK
<1>8. blocks[best[Len(file) + 1]].prev = best[Len(file)] BY <1>6, <1>7 DEF Path, Linked
<1>9. best[Len(file) + 1] = hs[1] /\ best[Len(file)] = Len(file) BY <1>1, <1>4, <1>6
<1>10. Last(file) = Len(file)
  <2>1. Len(file) \in 1 .. Len(file) BY <1>1
  <2> QED BY <1>1, <2>1 DEF Last
<1> QED BY <1>1, <1>4, <1>5, <1>8, <1>9, <1>10

LEMMA IngestHeadersStep ==
  ASSUME Inv, IngestHeaders
  PROVE  Inv'
<1>1. UNCHANGED <<utxos, stxos, frozen, sends, sync, prev, missed, txUp, tracked, TxMap, toNode,
                 blocks, best, mempool, rejected, reorgs, toSpv, queue, wait, okTxids, inc, restarts>>
  BY DEF IngestHeaders, wallet, node
<1>2. Growing BY <1>1 DEF Growing
<1>3. Extends(blocks, blocks') BY <1>1, Typed DEF Inv
<1>4. SameAsks BY <1>1, NoNewAsk
<1>5. SameTold BY <1>1, NoNewTold
<1>19. SameBlock BY <1>1, SameInc
<1> DEFINE hs == hh[1].hdrs
           a == CheckHeaderChain(hs)
<1>6. hh # Idle /\ hh[1].pc = "ingest" /\ hs # <<>> /\ Quiet /\ Run(blocks, hs)
  BY DEF IngestHeaders, Inv, Handler, Busy
<1>7. hh' = << [pc |-> "more", hdrs |-> <<>>] >> BY DEF IngestHeaders
<1> HIDE DEF hs
<1>8. /\ StartHeight \in Nat /\ StartHeight >= 1
      /\ \/ a = 0 /\ blocks[hs[1]].prev = Last(file)
         \/ /\ a > 0 /\ a \in Nat /\ StartHeight <= a
            /\ blocks[hs[1]].prev # Last(file)
            /\ \E i \in 1 .. Len(file) : file[i] = blocks[hs[1]].prev /\ a = StartHeight - 1 + i
            /\ \A i \in 1 .. Len(file) : a = StartHeight - 1 + i => Index(a) = i
  <2>1. a >= 0 BY DEF IngestHeaders, hs
  <2>2. StartHeight \in Nat /\ StartHeight >= 1 /\ Len(file) \in Nat BY Typed DEF Inv, FileSeq
  <2>3. CASE blocks[hs[1]].prev = Last(file)
    <3>1. a = 0 BY <2>3 DEF CheckHeaderChain
    <3> QED BY <2>2, <2>3, <3>1
  <2>4. CASE blocks[hs[1]].prev # Last(file)
    <3>1. PICK i \in 1 .. Len(file) : file[i] = blocks[hs[1]].prev /\ a = StartHeight - 1 + i
      BY <2>1, <2>4, Attaches DEF Inv
    <3>2. a > 0 /\ a \in Nat /\ StartHeight <= a BY <2>2, <3>1
    <3>3. \A j \in 1 .. Len(file) : a = StartHeight - 1 + j => Index(a) = j
      <4> HIDE DEF a
      <4> QED BY <2>2 DEF Index
    <3> QED BY <2>2, <2>4, <3>1, <3>2, <3>3
  <2> QED BY <2>3, <2>4
<1>9. /\ a = 0 => file' = file \o hs /\ heightUp' = heightUp /\ syncHeight' = syncHeight
      /\ a > 0 => /\ file' = SubSeq(file, 1, Index(a) - 1) \o <<Hole>> \o hs
                  /\ heightUp = <<>> /\ heightUp' = <<a>> /\ syncHeight' = a
  <2>1. /\ file' = NewFile(hs, a) /\ (a > 0 => Len(heightUp) < Slots)
        /\ heightUp' = (IF a > 0 THEN Append(heightUp, a) ELSE heightUp)
        /\ syncHeight' = IF a > 0 THEN a ELSE syncHeight
    BY DEF IngestHeaders, hs
  <2>2. StartHeight \in Nat /\ syncHeight \in Nat BY Typed DEF Inv, SlotsOK
  <2>3. Len(heightUp) < Slots => heightUp = <<>> BY <2>2 DEF Inv, SlotsOK, Slots
  <2> HIDE DEF a
  <2>4. a = 0 => ~(a > 0)
    OBVIOUS
  <2>5. Append(<<>>, a) = <<a>>
    OBVIOUS
  <2> QED BY <2>1, <2>3, <2>4, <2>5 DEF NewFile
<1>10. hs \in Seq(Nat) /\ Len(hs) \in Nat /\ Len(hs) >= 1
  <2>1. hs \in Seq(2 .. Len(blocks)) BY <1>6 DEF Run
  <2>2. 2 .. Len(blocks) \subseteq Nat
    OBVIOUS
  <2> QED BY <1>6, <2>1, <2>2, Larger
<1>11. \A i \in 1 .. Len(hs) : hs[i] <= Len(blocks)
  <2>1. hs \in Seq(2 .. Len(blocks)) BY <1>6 DEF Run
  <2> QED BY <2>1, Typed DEF Inv
<1> HIDE DEF a
<1>20. BlocksOK' BY <1>1, KeepBlocks DEF Inv
<1>21. MinedOnce' BY <1>1, KeepMined DEF Inv
<1>22. NodeTxs' BY <1>1, <1>2, KeepTxs DEF Inv
<1>23. SendsOK' BY <1>1, KeepSends DEF Inv
<1>24. CoinsOK' BY <1>1, KeepCoins DEF Inv
<1>25. SlotsOK'
  <2>1. \A tx : Booked(tx) => Booked(tx)' BY <1>2, StillBooked
  <2>2. \A u \in ToSet(txUp) : u.height \in Nat /\ Booked(u.tx)' BY <2>1 DEF Inv, SlotsOK
  <2>3. heightUp' = <<>> \/ heightUp' = <<syncHeight'>>
    <3>1. CASE a = 0 BY <1>9, <3>1 DEF Inv, SlotsOK
    <3>2. CASE a > 0 BY <1>9, <3>2
    <3> QED BY <1>8, <3>1, <3>2
  <2>4. syncHeight' \in Nat /\ StartHeight <= syncHeight'
    <3>1. CASE a = 0 BY <1>9, <3>1 DEF Inv, SlotsOK
    <3>2. CASE a > 0 BY <1>8, <1>9, <3>2
    <3> QED BY <1>8, <3>1, <3>2
  <2> QED BY <1>1, <2>2, <2>3, <2>4 DEF Inv, SlotsOK
<1>26. FromOK' BY <1>1, <1>3, KeepFrom DEF Inv
<1>27. ToOK' BY <1>1, <1>2, <1>3, KeepTo DEF Inv
<1>28. MapOK' BY <1>1, <1>2, KeepMap DEF Inv
<1>29. IncOK' BY <1>1, <1>2, KeepInc DEF Inv
<1>30. Cycle'
  <2>1. ~Asked /\ ~Told /\ ~wait /\ wait \in BOOLEAN BY <1>6, Alone DEF Asked, Told
  <2>2. ~Asked' /\ ~Told' BY <1>1, <2>1 DEF Asked, Told
  <2> QED BY <1>1, <2>1, <2>2 DEF Inv, Cycle
<1>31. Handler'
  <2>1. Quiet' BY <1>1, <1>6 DEF Quiet, InBlock
  <2>2. Run(blocks', <<>>) BY RunNone
  <2> QED BY <1>7, <2>1, <2>2 DEF Handler, Busy, Requesting, Idle
<1>32. FileSeq'
  <2>1. CASE a = 0
    <3>1. file' = file \o hs BY <1>9, <2>1
    <3>2. file' \in Seq(Nat) /\ Joins(file', file, hs) BY <1>10, <3>1, Grows2 DEF Inv, FileSeq
    <3>3. ASSUME NEW i \in 1 .. Len(file') PROVE file'[i] <= Len(blocks)
      <4>1. CASE i \in 1 .. Len(file) BY <3>2, <4>1 DEF Joins, Inv, FileSeq
      <4>2. CASE i \notin 1 .. Len(file)
        <5>1. i - Len(file) \in 1 .. Len(hs) /\ Len(file) + (i - Len(file)) = i BY <3>2, <4>2 DEF Joins
        <5> QED BY <1>11, <3>2, <5>1 DEF Joins
      <4> QED BY <4>1, <4>2
    <3> QED BY <1>1, <3>2, <3>3 DEF Joins, Inv, FileSeq
  <2>2. CASE a > 0
    <3>1. PICK i \in 1 .. Len(file) : a = StartHeight - 1 + i BY <1>8, <2>2
    <3>9. Index(a) = i BY <1>8, <2>2, <3>1
    <3>2. file' = SubSeq(file, 1, i - 1) \o <<Hole>> \o hs BY <1>9, <2>2, <3>9
    <3>3. /\ file' \in Seq(Nat) /\ Len(file') = i + Len(hs)
          /\ \A j \in 1 .. i - 1 : file'[j] = file[j]
          /\ file'[i] = Hole
          /\ \A j \in 1 .. Len(hs) : file'[i + j] = hs[j]
      BY <1>10, <3>2, Rewritten DEF Inv
    <3>4. ASSUME NEW j \in 1 .. Len(file') PROVE file'[j] <= Len(blocks)
      <4>1. CASE j \in 1 .. i - 1
        <5>1. j \in 1 .. Len(file) BY <3>1, <4>1 DEF Inv, FileSeq
        <5> QED BY <3>3, <4>1, <5>1 DEF Inv, FileSeq
      <4>2. CASE j = i BY <3>3, <4>2, Typed DEF Hole, Inv
      <4>3. CASE j > i
        <5>1. j - i \in 1 .. Len(hs) /\ i + (j - i) = j BY <1>10, <3>1, <3>3, <4>3
        <5> QED BY <1>11, <3>3, <5>1
      <4>4. j \in 1 .. i - 1 \/ j = i \/ j > i BY <3>1
      <4> QED BY <4>1, <4>2, <4>3, <4>4, Zenon
    <3>5. 1 <= Len(file') /\ blocks' = blocks BY <1>1, <1>10, <3>1, <3>3
    <3> QED BY <3>3, <3>4, <3>5, Zenon DEF FileSeq
  <2> QED BY <1>8, <2>1, <2>2
<1>33. QueueOK'
  <2>1. queue' = <<>> /\ ~InBlock' BY <1>1, <1>6 DEF Quiet, InBlock
  <2> QED BY <2>1, NothingYet DEF QueueOK
<1>34. Linear'
  <2> SUFFICES ASSUME reorgs = 0 PROVE OneChain' /\ InStep'
    BY <1>1 DEF Linear
  <2>1. OneChain /\ InStep BY DEF Inv, Linear
  <2>2. Next1(hs) BY <1>6, <2>1 DEF InStep, hs
  <2>3. blocks[hs[1]].prev = Last(file) /\ Len(file) + Len(hs) <= Len(blocks)
    BY <1>6, <2>1, <2>2, NoBranch DEF Inv
  <2>4. a = 0 /\ file' = file \o hs /\ syncHeight' = syncHeight BY <1>8, <1>9, <2>3
  <2>5. Joins(file', file, hs) BY <1>10, <2>4, Grows2 DEF Inv, FileSeq
  <2>6. \A i \in 1 .. Len(file') : file'[i] = i
    <3> SUFFICES ASSUME NEW i \in 1 .. Len(file') PROVE file'[i] = i
      OBVIOUS
    <3>1. CASE i \in 1 .. Len(file) BY <2>1, <2>5, <3>1 DEF Joins, OneChain
    <3>2. CASE i \notin 1 .. Len(file)
      <4>1. i - Len(file) \in 1 .. Len(hs) /\ Len(file) + (i - Len(file)) = i BY <2>5, <3>2 DEF Joins
      <4>2. file'[i] = hs[i - Len(file)] BY <2>5, <4>1 DEF Joins
      <4>3. hs[i - Len(file)] = Len(file) + (i - Len(file)) BY <2>2, <4>1 DEF Next1
      <4> QED BY <4>1, <4>2, <4>3
    <3> QED BY <3>1, <3>2
  <2>7. OneChain' BY <1>1, <2>1, <2>3, <2>5, <2>6 DEF OneChain, Joins
  <2>8. /\ \A m \in ToSet(toNode') : m.type # "getheaders"
        /\ \A m \in ToSet(toSpv') : m.type # "headers"
        /\ hh'[1].pc # "ingest"
    BY <1>1, <1>6, <1>7, Alone
  <2>9. sync' <= syncHeight' BY <1>1, <2>1, <2>4 DEF InStep
  <2>10. InStep' BY <2>8, <2>9 DEF InStep
  <2> QED BY <2>7, <2>10
<1>35. Chained'
  <2> SUFFICES ASSUME Tame' PROVE Heights' /\ \E d : (FileOK(d) /\ Counts(d))'
    BY DEF Chained
  <2>1. Tame BY <1>1 DEF Tame
  <2>2. Heights /\ \E c : FileOK(c) /\ Counts(c) BY <2>1 DEF Inv, Chained
  <2>3. PICK c : FileOK(c) /\ Counts(c) BY <2>2
  <2>4. CASE a = 0
    <3>1. heightUp' = heightUp /\ syncHeight' = syncHeight /\ file' = file \o hs BY <1>9, <2>4
    <3>2. Heights' BY <1>1, <2>2, <3>1 DEF Heights
    <3>3. \E d : FileOK(d)' /\ Counts(d)' BY <1>1, <1>6, <1>8, <2>3, <2>4, <3>1, Appended
    <3> QED BY <3>2, <3>3
  <2>5. CASE a > 0
    <3>1. PICK i \in 1 .. Len(file) : a = StartHeight - 1 + i /\ file[i] = blocks[hs[1]].prev
      BY <1>8, <2>5
    <3>9. Index(a) = i BY <1>8, <2>5, <3>1
    <3>2. file' = SubSeq(file, 1, i - 1) \o <<Hole>> \o hs BY <1>9, <2>5, <3>9
    <3>3. heightUp = <<>> /\ heightUp' = <<a>> /\ syncHeight' = a BY <1>9, <2>5
    <3>4. Heights' BY <3>3 DEF Heights
    <3>5. restarts = 0
      <4> SUFFICES ASSUME reorgs = 0 PROVE FALSE
        BY <2>1 DEF Tame
      <4>1. OneChain /\ InStep BY DEF Inv, Linear
      <4>2. Next1(hs) BY <1>6, <4>1 DEF InStep, hs
      <4>3. blocks[hs[1]].prev = Last(file) BY <1>6, <4>1, <4>2, NoBranch DEF Inv
      <4> QED BY <1>8, <2>5, <4>3
    <3>6. \E d : FileOK(d)' /\ Counts(d)'
      BY <1>1, <1>6, <2>2, <2>3, <3>1, <3>2, <3>3, <3>5, Reorganised
    <3> QED BY <3>4, <3>6
  <2> QED BY <1>8, <2>4, <2>5
<1> QED BY <1>20, <1>21, <1>22, <1>23, <1>24, <1>25, <1>26, <1>27, <1>28,
  <1>29, <1>30, <1>31, <1>32, <1>33, <1>34, <1>35 DEF Inv

-----------------------------------------------------------------------------
(* Questions.                                                              *)

LEMMA LocatorIn ==
  ASSUME FileSeq, OneChain
  PROVE  Len(file) \in Locator /\ Locator \subseteq 1 .. Len(file)
<1>1. Len(file) \in Nat /\ 1 <= Len(file) /\ \A i \in 1 .. Len(file) : file[i] = i
  BY DEF FileSeq, OneChain
<1>2. Last(file) = Len(file)
  <2>1. Len(file) \in 1 .. Len(file) BY <1>1
  <2> QED BY <1>1, <2>1 DEF Last
<1>3. ASSUME NEW k \in StepsBack PROVE file[Len(file) - k] \in 1 .. Len(file)
  <2>1. k \in 1 .. Len(file) - 2 BY DEF StepsBack
  <2>2. Len(file) - k \in 1 .. Len(file) BY <1>1, <2>1
  <2> QED BY <1>1, <2>2
<1> QED BY <1>1, <1>2, <1>3 DEF Locator

(* What a step does to the line of blocks, if it adds none.                *)
LEMMA LinearMoved ==
  ASSUME Linear, FileSeq, UNCHANGED <<reorgs, best, blocks, file>>,
         \A m \in ToSet(toNode') : m.type = "getheaders" => m \in ToSet(toNode) \/ m.locator = Locator,
         \A m \in ToSet(toSpv') : m.type = "headers" => m \in ToSet(toSpv),
         hh' # Idle /\ hh'[1].pc = "ingest" =>
           \/ hh' = hh
           \/ \E m \in ToSet(toSpv) : m.type = "headers" /\ hh'[1].hdrs = m.hdrs,
         sync <= syncHeight => sync' <= syncHeight'
  PROVE  Linear'
<1> SUFFICES ASSUME reorgs = 0 PROVE OneChain' /\ InStep'
  BY DEF Linear
<1>1. OneChain /\ InStep BY DEF Linear
<1>2. OneChain' BY <1>1 DEF OneChain
<1>3. \A s : Next1(s) <=> Next1(s)' BY DEF Next1
<1>4. Len(file) \in Locator /\ Locator \subseteq 1 .. Len(file) BY <1>1, LocatorIn
<1>5. \A m \in ToSet(toNode') : m.type = "getheaders" =>
        Len(file) \in m.locator /\ m.locator \subseteq 1 .. Len(file)
  BY <1>1, <1>4 DEF InStep
<1>6. \A m \in ToSet(toSpv') : m.type = "headers" => Next1(m.hdrs) BY <1>1 DEF InStep
<1>7. hh' # Idle /\ hh'[1].pc = "ingest" => Next1(hh'[1].hdrs) BY <1>1 DEF InStep
<1>8. sync' <= syncHeight' BY <1>1 DEF InStep
<1>9. file' = file
  OBVIOUS
<1>10. InStep' BY <1>3, <1>5, <1>6, <1>7, <1>8, <1>9, Zenon DEF InStep
<1> QED BY <1>2, <1>10

LEMMA ChainedMoved ==
  ASSUME Chained, UNCHANGED <<reorgs, restarts, heightUp, prev, syncHeight>>,
         \A c : FileOK(c) /\ Counts(c) => FileOK(c)' /\ Counts(c)'
  PROVE  Chained'
<1> SUFFICES ASSUME Tame' PROVE Heights' /\ \E c : FileOK(c)' /\ Counts(c)'
  BY DEF Chained
<1>1. Tame BY DEF Tame
<1>2. Heights' BY <1>1 DEF Chained, Heights
<1>3. PICK c : FileOK(c) /\ Counts(c) BY <1>1 DEF Chained
<1> QED BY <1>2, <1>3

(* The next question, asked when none is under way.                        *)
LEMMA Asking ==
  ASSUME ToOK, Growing, Extends(blocks, blocks'), toNode' = AskForHeaders, At(toNode, "getheaders") = {}
  PROVE  /\ ToOK'
         /\ Single(At(toNode', "getheaders")) /\ At(toNode', "getheaders") # {}
         /\ \A m \in ToSet(toNode') : m.type = "getheaders" => m \in ToSet(toNode) \/ m.locator = Locator
<1>1. PICK a : a = [type |-> "getheaders", locator |-> Locator]
  OBVIOUS
<1>2. toNode' = Append(toNode, a) BY <1>1 DEF AskForHeaders
<1>3. a.type = "getheaders" /\ a.locator = Locator BY <1>1
<1>4. ToTheNode(a)' BY <1>3 DEF ToTheNode
<1>5. ToOK' BY <1>2, <1>4, ToSent
<1>6. IsSeq(toNode) BY DEF ToOK
<1>7. Single(At(toNode', "getheaders")) /\ At(toNode', "getheaders") # {}
  BY <1>2, <1>3, <1>6, AtFirst, AtAdded
<1>8. ToSet(toNode') = ToSet(toNode) \cup {a} BY <1>2, <1>6, Grown
<1> QED BY <1>3, <1>5, <1>7, <1>8

LEMMA MoreHeadersStep ==
  ASSUME Inv, MoreHeaders
  PROVE  Inv'
<1>1. UNCHANGED <<utxos, stxos, frozen, sends, sync, prev, missed, txUp, heightUp, tracked, TxMap, blocks, best, mempool, rejected, reorgs,
                 toSpv, file, syncHeight, queue, wait, okTxids, inc, restarts>>
  BY DEF MoreHeaders, wallet, node
<1>2. Growing BY <1>1 DEF Growing
<1>3. Extends(blocks, blocks') BY <1>1, Typed DEF Inv
<1>5. SameTold BY <1>1, NoNewTold
<1>19. SameBlock BY <1>1, SameInc
<1>6. hh # Idle /\ hh[1].pc = "more" /\ Quiet BY DEF MoreHeaders, Inv, Handler, Busy
<1>7. /\ ToOK' /\ Single(At(toNode', "getheaders"))
      /\ \A m \in ToSet(toNode') : m.type = "getheaders" => m \in ToSet(toNode) \/ m.locator = Locator
  <2>1. At(toNode, "getheaders") = {} BY <1>6, Alone
  <2>2. toNode' = AskForHeaders BY DEF MoreHeaders
  <2> QED BY <1>2, <1>3, <2>1, <2>2, Asking DEF Inv
<1>8. hh' = Idle BY DEF MoreHeaders
<1>20. BlocksOK' BY <1>1, KeepBlocks DEF Inv
<1>21. MinedOnce' BY <1>1, KeepMined DEF Inv
<1>22. NodeTxs' BY <1>1, <1>2, KeepTxs DEF Inv
<1>23. SendsOK' BY <1>1, KeepSends DEF Inv
<1>24. CoinsOK' BY <1>1, KeepCoins DEF Inv
<1>25. SlotsOK' BY <1>1, <1>2, KeepSlots DEF Inv
<1>26. FromOK' BY <1>1, <1>3, KeepFrom DEF Inv
<1>27. ToOK' BY <1>7
<1>28. MapOK' BY <1>1, <1>2, KeepMap DEF Inv
<1>29. IncOK' BY <1>1, <1>2, KeepInc DEF Inv
<1>30. Cycle'
  <2>1. At(toSpv, "headers") = {} /\ ~wait /\ wait \in BOOLEAN BY <1>6, Alone
  <2>2. hh' = Idle BY DEF MoreHeaders
  <2>3. Quiet' BY <1>1, <1>6 DEF Quiet, InBlock
  <2> QED BY <1>1, <1>5, <1>7, <2>1, <2>2, <2>3 DEF Cycle, Asked, Told, SameTold, Single
<1>31. Handler' BY DEF MoreHeaders, Handler, Busy, Requesting
<1>32. FileSeq' BY <1>1, <1>3, KeepFile DEF Inv
<1>33. QueueOK' BY <1>1, <1>19, KeepQueue DEF Inv
<1>34. Linear' BY <1>1, <1>5, <1>7, <1>8, LinearMoved DEF Inv, SameTold
<1>35. Chained' BY <1>1, <1>3, <1>19, KeepChained DEF Inv
<1> QED BY <1>20, <1>21, <1>22, <1>23, <1>24, <1>25, <1>26, <1>27, <1>28,
  <1>29, <1>30, <1>31, <1>32, <1>33, <1>34, <1>35 DEF Inv

LEMMA HeadersDoneStep ==
  ASSUME Inv, HeadersDone
  PROVE  Inv'
<1>1. UNCHANGED <<utxos, stxos, frozen, sends, sync, prev, missed, txUp, heightUp, tracked, TxMap, toNode, blocks, best, mempool, rejected, reorgs,
                 toSpv, file, syncHeight, queue, wait, okTxids, inc, restarts>>
  BY DEF HeadersDone, wallet, node
<1>2. Growing BY <1>1 DEF Growing
<1>3. Extends(blocks, blocks') BY <1>1, Typed DEF Inv
<1>4. SameAsks BY <1>1, NoNewAsk
<1>5. SameTold BY <1>1, NoNewTold
<1>19. SameBlock BY <1>1, SameInc
<1>6. hh # Idle /\ hh[1].pc = "ingest" /\ Quiet BY DEF HeadersDone, Inv, Handler, Busy
<1>7. hh' = Idle \/ hh' = << [pc |-> "blocks", hdrs |-> <<>>, req |-> syncHeight] >>
  BY DEF HeadersDone
<1>20. BlocksOK' BY <1>1, KeepBlocks DEF Inv
<1>21. MinedOnce' BY <1>1, KeepMined DEF Inv
<1>22. NodeTxs' BY <1>1, <1>2, KeepTxs DEF Inv
<1>23. SendsOK' BY <1>1, KeepSends DEF Inv
<1>24. CoinsOK' BY <1>1, KeepCoins DEF Inv
<1>25. SlotsOK' BY <1>1, <1>2, KeepSlots DEF Inv
<1>26. FromOK' BY <1>1, <1>3, KeepFrom DEF Inv
<1>27. ToOK' BY <1>1, <1>2, <1>3, KeepTo DEF Inv
<1>28. MapOK' BY <1>1, <1>2, KeepMap DEF Inv
<1>29. IncOK' BY <1>1, <1>2, KeepInc DEF Inv
<1>30. Cycle'
  <2>1. At(toNode, "getheaders") = {} /\ At(toSpv, "headers") = {} /\ ~wait /\ wait \in BOOLEAN
    BY <1>6, Alone
  <2> QED BY <1>1, <2>1 DEF Cycle, Asked, Told, Single
<1>31. Handler'
  <2>1. CASE hh' = Idle BY <2>1 DEF Handler, Busy, Requesting
  <2>2. CASE hh' = << [pc |-> "blocks", hdrs |-> <<>>, req |-> syncHeight] >>
    <3>1. PICK r : r = [pc |-> "blocks", hdrs |-> <<>>, req |-> syncHeight]
      OBVIOUS
    <3>2. hh' = <<r>> /\ hh'[1] = r BY <2>2, <3>1
    <3>3. r = [pc |-> "blocks", hdrs |-> r.hdrs, req |-> r.req] /\ r.req = syncHeight /\ r.pc = "blocks"
      BY <3>1
    <3>4. queue' = <<>> /\ ~InBlock' BY <1>1, <1>6 DEF Quiet, InBlock
    <3>5. syncHeight' = syncHeight /\ syncHeight \in Nat BY <1>1 DEF Inv, SlotsOK
    <3>6. \A e \in ToSet(queue') : FALSE BY <3>4, NothingYet
    <3>7. ~Busy' BY <3>2, <3>3 DEF Busy
    <3> QED BY <3>2, <3>3, <3>4, <3>5, <3>6, <3>7 DEF Handler
  <2> QED BY <1>7, <2>1, <2>2
<1>32. FileSeq' BY <1>1, <1>3, KeepFile DEF Inv
<1>33. QueueOK' BY <1>1, <1>19, KeepQueue DEF Inv
<1>34. Linear'
  BY <1>1, <1>4, <1>5, <1>7, LinearMoved DEF Inv, SameAsks, SameTold, Idle
<1>35. Chained' BY <1>1, <1>3, <1>19, KeepChained DEF Inv
<1> QED BY <1>20, <1>21, <1>22, <1>23, <1>24, <1>25, <1>26, <1>27, <1>28,
  <1>29, <1>30, <1>31, <1>32, <1>33, <1>34, <1>35 DEF Inv

LEMMA EnterWaitStep ==
  ASSUME Inv, EnterWaitState
  PROVE  Inv'
<1>1. UNCHANGED <<utxos, stxos, frozen, sends, sync, prev, missed, txUp, heightUp, tracked, TxMap, toNode, blocks, best, mempool, rejected, reorgs,
                 toSpv, file, syncHeight, queue, okTxids, inc, restarts>>
  BY DEF EnterWaitState, wallet, node
<1>2. Growing BY <1>1 DEF Growing
<1>3. Extends(blocks, blocks') BY <1>1, Typed DEF Inv
<1>4. SameAsks BY <1>1, NoNewAsk
<1>5. SameTold BY <1>1, NoNewTold
<1>19. SameBlock BY <1>1, SameInc
<1>6. hh # Idle BY DEF EnterWaitState
<1>7. syncHeight = HeightOf(file) BY DEF EnterWaitState
<1>8. syncHeight \in Nat BY DEF Inv, SlotsOK
<1>20. BlocksOK' BY <1>1, KeepBlocks DEF Inv
<1>21. MinedOnce' BY <1>1, KeepMined DEF Inv
<1>22. NodeTxs' BY <1>1, <1>2, KeepTxs DEF Inv
<1>23. SendsOK' BY <1>1, KeepSends DEF Inv
<1>24. CoinsOK' BY <1>1, KeepCoins DEF Inv
<1>25. SlotsOK' BY <1>1, <1>2, KeepSlots DEF Inv
<1>26. FromOK' BY <1>1, <1>3, KeepFrom DEF Inv
<1>27. ToOK' BY <1>1, <1>2, <1>3, KeepTo DEF Inv
<1>28. MapOK' BY <1>1, <1>2, KeepMap DEF Inv
<1>29. IncOK' BY <1>1, <1>2, KeepInc DEF Inv
<1>30. Cycle'
  <2>1. At(toNode, "getheaders") = {} /\ At(toSpv, "headers") = {} BY <1>6, Alone
  <2>2. queue = <<>>
    <3> SUFFICES ASSUME queue # <<>> PROVE FALSE
      OBVIOUS
    <3>1. IsSeq(queue) BY DEF Inv, QueueOK
    <3>2. Len(queue) \in Nat /\ Len(queue) # 0 BY <3>1, Elements
    <3>3. 1 \in 1 .. Len(queue) BY <3>2
    <3>4. queue[1].height \in Nat /\ syncHeight < queue[1].height /\ queue[1].height <= HeightOf(file)
      BY <3>3 DEF Inv, QueueOK
    <3> QED BY <1>7, <1>8, <3>4
  <2>3. ~InBlock
    <3> SUFFICES ASSUME InBlock PROVE FALSE
      OBVIOUS
    <3>1. inc[1].height \in Nat /\ syncHeight < inc[1].height /\ inc[1].height <= HeightOf(file)
      BY DEF Inv, QueueOK, IncOK, InBlock
    <3> QED BY <1>7, <1>8, <3>1
  <2>4. wait' = TRUE /\ hh' = Idle BY DEF EnterWaitState
  <2>5. Quiet' BY <1>1, <2>2, <2>3 DEF Quiet, InBlock
  <2> QED BY <1>1, <2>1, <2>4, <2>5 DEF Cycle, Asked, Told, Single
<1>31. Handler' BY DEF EnterWaitState, Handler, Busy, Requesting
<1>32. FileSeq' BY <1>1, <1>3, KeepFile DEF Inv
<1>33. QueueOK' BY <1>1, <1>19, KeepQueue DEF Inv
<1>34. Linear'
  <2>1. hh' = Idle BY DEF EnterWaitState
  <2> QED BY <1>1, <1>4, <1>5, <2>1, LinearMoved DEF Inv, SameAsks, SameTold
<1>35. Chained' BY <1>1, <1>3, <1>19, KeepChained DEF Inv
<1> QED BY <1>20, <1>21, <1>22, <1>23, <1>24, <1>25, <1>26, <1>27, <1>28,
  <1>29, <1>30, <1>31, <1>32, <1>33, <1>34, <1>35 DEF Inv

-----------------------------------------------------------------------------
(* Blocks are asked for.                                                   *)

LEMMA RequestBlockStep ==
  ASSUME Inv, RequestBlock
  PROVE  Inv'
<1>1. UNCHANGED <<utxos, stxos, frozen, sends, sync, prev, missed, txUp, heightUp, tracked, TxMap, blocks, best, mempool, rejected, reorgs,
                 toSpv, file, syncHeight, wait, okTxids, inc, restarts>>
  BY DEF RequestBlock, wallet, node
<1>2. Growing BY <1>1 DEF Growing
<1>3. Extends(blocks, blocks') BY <1>1, Typed DEF Inv
<1>7. PICK h : h = hh[1].req + 1
  OBVIOUS
<1>14. PICK q : q = [id |-> file[Index(h)], height |-> h, final |-> h = HeightOf(file)]
  OBVIOUS
<1>15. PICK a : a = [type |-> "getblock", id |-> file[Index(h)]]
  OBVIOUS
<1>6. /\ hh # Idle /\ Requesting /\ hh[1].req \in Nat /\ syncHeight <= hh[1].req
      /\ hh[1] = [pc |-> "blocks", hdrs |-> hh[1].hdrs, req |-> hh[1].req]
      /\ \A e \in ToSet(queue) : e.final = FALSE /\ e.height <= hh[1].req
      /\ InBlock => inc[1].final = FALSE /\ inc[1].height <= hh[1].req
      /\ hh[1].req < HeightOf(file)
  <2>1. hh # Idle /\ Requesting /\ hh[1].req < HeightOf(file) BY DEF RequestBlock, Requesting
  <2> QED BY <2>1 DEF Inv, Handler
<1>8. /\ hh' = Idle \/ (h # HeightOf(file) /\ hh' = <<[hh[1] EXCEPT !.req = h]>>)
      /\ queue' = Append(queue, q) /\ toNode' = Append(toNode, a)
  BY <1>7, <1>14, <1>15 DEF RequestBlock
<1>13. q.height = h /\ q.id = file[Index(h)] /\ q.final = (h = HeightOf(file)) /\ a.type = "getblock"
  BY <1>14, <1>15
<1>9. /\ toNode' = Append(toNode, a) /\ a.type = "getblock"
      /\ q.height = h /\ q.id = file[Index(h)] /\ q.final = (h = HeightOf(file))
  BY <1>8, <1>13
<1>10. /\ IsSeq(queue) /\ Len(queue) \in Nat
       /\ \A i \in 1 .. Len(queue) : queue[i] \in ToSet(queue)
       /\ \A e \in ToSet(queue) : e.height \in Nat
  <2>1. IsSeq(queue) BY DEF Inv, QueueOK
  <2>2. \A e \in ToSet(queue) : \E i \in 1 .. Len(queue) : queue[i] = e BY <2>1, Elements
  <2> QED BY <2>1, <2>2, Elements DEF Inv, QueueOK
<1>11. /\ IsSeq(queue') /\ ToSet(queue') = ToSet(queue) \cup {q} /\ Len(queue') = Len(queue) + 1
       /\ \A i \in 1 .. Len(queue) : queue'[i] = queue[i]
       /\ queue'[Len(queue) + 1] = q
  BY <1>8, <1>10, Grown
<1>12. /\ syncHeight \in Nat /\ StartHeight \in Nat /\ StartHeight <= syncHeight
       /\ Len(file) \in Nat /\ h <= HeightOf(file)
  <2>1. syncHeight \in Nat /\ StartHeight \in Nat /\ StartHeight <= syncHeight /\ Len(file) \in Nat
    BY Typed DEF Inv, SlotsOK, FileSeq
  <2> QED BY <1>6, <1>7, <2>1 DEF HeightOf
<1>4. SameAsks
  <2>1. IsSeq(toNode) BY DEF Inv, ToOK
  <2>2. a.type # "getheaders" BY <1>9
  <2> QED BY <1>9, <2>2, OtherCall DEF Inv
<1>5. SameTold BY <1>1, NoNewTold
<1>19. SameBlock BY <1>1, SameInc
<1>20. BlocksOK' BY <1>1, KeepBlocks DEF Inv
<1>21. MinedOnce' BY <1>1, KeepMined DEF Inv
<1>22. NodeTxs' BY <1>1, <1>2, KeepTxs DEF Inv
<1>23. SendsOK' BY <1>1, KeepSends DEF Inv
<1>24. CoinsOK' BY <1>1, KeepCoins DEF Inv
<1>25. SlotsOK' BY <1>1, <1>2, KeepSlots DEF Inv
<1>26. FromOK' BY <1>1, <1>3, KeepFrom DEF Inv
<1>27. ToOK'
  <2>2. Index(h) \in 1 .. Len(file) BY <1>6, <1>7, <1>12 DEF Index, HeightOf
  <2>3. file[Index(h)] \in Nat /\ file[Index(h)] <= Len(blocks) BY <2>2 DEF Inv, FileSeq
  <2>4. a.id \in 0 .. Len(blocks) BY <1>15, <2>3, Typed DEF Inv
  <2>1. ToTheNode(a)' BY <1>1, <1>9, <2>4 DEF ToTheNode
  <2> QED BY <1>2, <1>3, <1>9, <2>1, ToSent DEF Inv
<1>28. MapOK' BY <1>1, <1>2, KeepMap DEF Inv
<1>29. IncOK' BY <1>1, <1>2, KeepInc DEF Inv
<1>30. Cycle'
  <2>1. At(toNode, "getheaders") = {} /\ At(toSpv, "headers") = {} /\ ~wait /\ wait \in BOOLEAN
    BY <1>6, Alone
  <2> QED BY <1>1, <1>4, <2>1 DEF Cycle, Asked, Told, Single, SameAsks
<1>31. Handler'
  <2>1. CASE hh' = Idle BY <2>1 DEF Handler, Busy, Requesting
  <2>2. CASE hh' # Idle
    <3>1. h # HeightOf(file) /\ hh' = <<[hh[1] EXCEPT !.req = h]>> BY <1>8, <2>2
    <3>2. hh[1] = [pc |-> "blocks", hdrs |-> hh[1].hdrs, req |-> hh[1].req] BY <1>6
    <3>3. PICK r : r = [hh[1] EXCEPT !.req = h]
      OBVIOUS
    <3>4. r = [pc |-> "blocks", hdrs |-> hh[1].hdrs, req |-> h] BY <3>2, <3>3
    <3>5. r = [pc |-> "blocks", hdrs |-> r.hdrs, req |-> r.req] /\ r.req = h /\ r.pc = "blocks"
      BY <3>4
    <3>6. hh' = <<r>> /\ hh'[1] = r BY <3>1, <3>3
    <3>7. ~Busy' BY <3>5, <3>6 DEF Busy
    <3>8. ASSUME NEW e \in ToSet(queue') PROVE e.final = FALSE /\ e.height <= h
      <4>1. CASE e \in ToSet(queue)
        <5>1. e.final = FALSE /\ e.height <= hh[1].req BY <1>6, <4>1
        <5>2. e.height \in Nat BY <1>10, <4>1
        <5> QED BY <1>6, <1>7, <5>1, <5>2
      <4>2. CASE e = q
        <5>1. q.final = FALSE BY <1>9, <3>1, Zenon
        <5>2. q.height <= h BY <1>6, <1>7, <1>9
        <5> QED BY <4>2, <5>1, <5>2
      <4> QED BY <1>11, <4>1, <4>2
    <3>9. ASSUME InBlock' PROVE inc'[1].final = FALSE /\ inc'[1].height <= h
      <4>1. InBlock /\ inc' = inc BY <1>1, <3>9 DEF InBlock
      <4>2. inc[1].height \in Nat BY <4>1 DEF Inv, IncOK, InBlock
      <4> QED BY <1>6, <1>7, <4>1, <4>2
    <3>10. h \in Nat /\ syncHeight' <= h BY <1>1, <1>6, <1>7, <1>12
    <3>11. hh' = <<hh'[1]>> /\ hh'[1].pc \in {"ingest", "more", "blocks"} BY <3>5, <3>6
    <3> QED BY <3>5, <3>6, <3>7, <3>8, <3>9, <3>10, <3>11 DEF Handler
  <2> QED BY <2>1, <2>2
<1>32. FileSeq' BY <1>1, <1>3, KeepFile DEF Inv
<1>33. QueueOK'
  <2>1. IsSeq(queue') BY <1>11
  <2>2. ASSUME NEW i \in 1 .. Len(queue')
        PROVE  /\ queue'[i].height \in Nat /\ queue'[i].final \in BOOLEAN
               /\ syncHeight < queue'[i].height /\ queue'[i].height <= HeightOf(file)
               /\ InBlock => inc[1].height < queue'[i].height
               /\ queue'[i].final = TRUE => i = Len(queue')
               /\ \A j \in 1 .. Len(queue') : i < j => queue'[i].height < queue'[j].height
    <3>1. CASE i \in 1 .. Len(queue)
      <4>1. queue'[i] = queue[i] /\ queue[i] \in ToSet(queue) BY <1>10, <1>11, <3>1
      <4>2. queue[i].final = FALSE /\ queue[i].height <= hh[1].req BY <1>6, <4>1
      <4>3. /\ queue[i].height \in Nat
            /\ syncHeight < queue[i].height /\ queue[i].height <= HeightOf(file)
            /\ InBlock => inc[1].height < queue[i].height
            /\ \A j \in 1 .. Len(queue) : i < j => queue[i].height < queue[j].height
        BY <3>1 DEF Inv, QueueOK
      <4>4. ASSUME NEW j \in 1 .. Len(queue'), i < j PROVE queue[i].height < queue'[j].height
        <5>1. CASE j \in 1 .. Len(queue) BY <1>11, <4>3, <4>4, <5>1
        <5>2. CASE j = Len(queue) + 1
          <6>1. queue'[j].height = h BY <1>9, <1>11, <5>2
          <6> QED BY <1>6, <1>7, <4>2, <4>3, <6>1
        <5> QED BY <1>10, <1>11, <5>1, <5>2
      <4> QED BY <4>1, <4>2, <4>3, <4>4
    <3>2. CASE i = Len(queue) + 1
      <4>1. queue'[i].height = h /\ queue'[i].final = (h = HeightOf(file)) BY <1>9, <1>11, <3>2
      <4>2. h \in Nat /\ syncHeight < h /\ h <= HeightOf(file) BY <1>6, <1>7, <1>12
      <4>3. ASSUME InBlock PROVE inc[1].height < h
        <5>1. inc[1].height \in Nat BY <4>3 DEF Inv, IncOK, InBlock
        <5> QED BY <1>6, <1>7, <4>3, <5>1
      <4>4. i = Len(queue') /\ \A j \in 1 .. Len(queue') : ~(i < j) BY <1>10, <1>11, <3>2
      <4> QED BY <4>1, <4>2, <4>3, <4>4
    <3>3. i \in 1 .. Len(queue) \/ i = Len(queue) + 1 BY <1>10, <1>11
    <3> QED BY <3>1, <3>2, <3>3, Zenon
  <2>3. inc' = inc /\ syncHeight' = syncHeight /\ file' = file BY <1>1
  <2>4. ASSUME InBlock
        PROVE  /\ syncHeight < inc[1].height /\ inc[1].height <= HeightOf(file)
               /\ inc[1].final = FALSE
    BY <1>6, <2>4 DEF Inv, QueueOK
  <2> QED BY <2>1, <2>2, <2>3, <2>4 DEF QueueOK, InBlock
<1>34. Linear'
  <2>1. hh' # Idle => hh'[1].pc # "ingest"
    <3> SUFFICES ASSUME hh' # Idle PROVE hh'[1].pc # "ingest"
      OBVIOUS
    <3>1. hh' = <<[hh[1] EXCEPT !.req = h]>> BY <1>8
    <3>2. hh[1] = [pc |-> "blocks", hdrs |-> hh[1].hdrs, req |-> hh[1].req] BY <1>6
    <3>3. hh'[1].pc = "blocks" BY <3>1, <3>2
    <3> QED BY <3>3
  <2> QED BY <1>1, <1>4, <1>5, <2>1, LinearMoved DEF Inv, SameAsks, SameTold
<1>35. Chained'
  <2>1. ASSUME NEW c, FileOK(c), Counts(c) PROVE FileOK(c)' /\ Counts(c)'
    <3>1. Index(h) \in 1 .. Len(file) /\ StartHeight - 1 + Index(h) = h
      BY <1>6, <1>7, <1>12 DEF Index, HeightOf
    <3>2. file[Index(h)] = c[Index(h)]
      <4>1. ~(StartHeight - 1 + Index(h) <= syncHeight) BY <1>6, <1>7, <1>12, <3>1
      <4> QED BY <2>1, <3>1, <4>1 DEF FileOK
    <3>3. \A i \in 1 .. Len(queue') : queue'[i].id = c[Index(queue'[i].height)]
      <4> SUFFICES ASSUME NEW i \in 1 .. Len(queue') PROVE queue'[i].id = c[Index(queue'[i].height)]
        OBVIOUS
      <4>1. CASE i \in 1 .. Len(queue) BY <1>11, <2>1, <4>1 DEF FileOK
      <4>2. CASE i = Len(queue) + 1
        <5>1. queue'[i].height = h /\ queue'[i].id = file[Index(h)] BY <1>9, <1>11, <4>2
        <5> QED BY <3>2, <5>1
      <4> QED BY <1>10, <1>11, <4>1, <4>2
    <3>4. FileOK(c)' BY <1>1, <2>1, <3>3 DEF FileOK, InBlock
    <3>5. Counts(c)' BY <1>1, <1>3, <1>19, <2>1, KeepCounts DEF FileOK
    <3> QED BY <3>4, <3>5
  <2> QED BY <1>1, <2>1, ChainedMoved DEF Inv
<1> QED BY <1>20, <1>21, <1>22, <1>23, <1>24, <1>25, <1>26, <1>27, <1>28,
  <1>29, <1>30, <1>31, <1>32, <1>33, <1>34, <1>35 DEF Inv

-----------------------------------------------------------------------------
(* The incoming handler takes a message.                                   *)

LEMMA HeaderHandlerStep ==
  ASSUME Inv, HeaderHandler
  PROVE  Inv'
<1>1. UNCHANGED <<utxos, stxos, frozen, sends, sync, prev, missed, txUp, heightUp, tracked, TxMap, toNode, blocks, best, mempool, rejected, reorgs,
                 file, syncHeight, queue, wait, okTxids, inc, restarts>>
  BY DEF HeaderHandler, wallet, node
<1>2. Growing BY <1>1 DEF Growing
<1>3. Extends(blocks, blocks') BY <1>1, Typed DEF Inv
<1>4. SameAsks BY <1>1, NoNewAsk
<1>19. SameBlock BY <1>1, SameInc
<1>6. /\ inc = Idle /\ ~InBlock /\ toSpv # <<>> /\ toSpv' = Tail(toSpv) /\ IsSeq(toSpv)
      /\ Head(toSpv).type = "headers" /\ FromNode(Head(toSpv)) /\ Head(toSpv) \in ToSet(toSpv)
      /\ \A m \in ToSet(toSpv') : m \in ToSet(toSpv)
  <2>1. inc = Idle /\ toSpv # <<>> /\ toSpv' = Tail(toSpv) /\ Head(toSpv).type = "headers"
    BY DEF HeaderHandler, Receive
  <2>2. IsSeq(toSpv) BY DEF Inv, FromOK
  <2>3. Head(toSpv) \in ToSet(toSpv) /\ ToSet(Tail(toSpv)) \subseteq ToSet(toSpv) BY <2>1, <2>2, Shorter
  <2> QED BY <2>1, <2>2, <2>3 DEF Inv, FromOK, InBlock

<1>7. /\ hh' = << [pc |-> "ingest", hdrs |-> Head(toSpv).hdrs] >>
      /\ At(toNode, "getheaders") = {} /\ ~wait /\ wait \in BOOLEAN /\ Quiet
  <2>1. At(toSpv, "headers") # {} BY <1>6, AtTaken DEF Inv, Cycle
  <2> QED BY <2>1 DEF HeaderHandler, Inv, Cycle, Asked, Told
<1>20. BlocksOK' BY <1>1, KeepBlocks DEF Inv
<1>21. MinedOnce' BY <1>1, KeepMined DEF Inv
<1>22. NodeTxs' BY <1>1, <1>2, KeepTxs DEF Inv
<1>23. SendsOK' BY <1>1, KeepSends DEF Inv
<1>24. CoinsOK' BY <1>1, KeepCoins DEF Inv
<1>25. SlotsOK' BY <1>1, <1>2, KeepSlots DEF Inv
<1>26. FromOK' BY <1>3, <1>6, FromTaken DEF Inv
<1>27. ToOK' BY <1>1, <1>2, <1>3, KeepTo DEF Inv
<1>28. MapOK' BY <1>1, <1>2, KeepMap DEF Inv
<1>29. IncOK' BY <1>1, <1>2, KeepInc DEF Inv
<1>30. Cycle'
  <2>1. At(toSpv', "headers") = {} BY <1>6, AtTaken DEF Inv, Cycle
  <2> QED BY <1>1, <1>7, <2>1 DEF Cycle, Asked, Told, Single
<1>31. Handler'
  <2>1. Quiet' BY <1>1, <1>7 DEF Quiet, InBlock
  <2>2. PICK r : r = [pc |-> "ingest", hdrs |-> Head(toSpv).hdrs]
    OBVIOUS
  <2>3. hh' = <<r>> /\ hh'[1] = r BY <1>7, <2>2
  <2>4. Run(blocks', r.hdrs) /\ r.pc = "ingest" BY <1>1, <1>6, <2>2 DEF FromNode
  <2>5. ~Requesting' BY <2>3, <2>4 DEF Requesting
  <2> QED BY <2>1, <2>3, <2>4, <2>5 DEF Handler
<1>32. FileSeq' BY <1>1, <1>3, KeepFile DEF Inv
<1>33. QueueOK' BY <1>1, <1>19, KeepQueue DEF Inv
<1>34. Linear'
  <2>1. hh'[1].hdrs = Head(toSpv).hdrs BY <1>7
  <2> QED BY <1>1, <1>4, <1>6, <2>1, LinearMoved DEF Inv, SameAsks
<1>35. Chained' BY <1>1, <1>3, <1>19, KeepChained DEF Inv
<1> QED BY <1>20, <1>21, <1>22, <1>23, <1>24, <1>25, <1>26, <1>27, <1>28,
  <1>29, <1>30, <1>31, <1>32, <1>33, <1>34, <1>35 DEF Inv

LEMMA InvBlockStep ==
  ASSUME Inv, InvBlock
  PROVE  Inv'
<1>1. UNCHANGED <<utxos, stxos, frozen, sends, sync, prev, missed, txUp, heightUp, tracked, TxMap, blocks, best, mempool, rejected, reorgs,
                 file, syncHeight, queue, okTxids, hh, inc, restarts>>
  BY DEF InvBlock, wallet, node
<1>2. Growing BY <1>1 DEF Growing
<1>3. Extends(blocks, blocks') BY <1>1, Typed DEF Inv
<1>19. SameBlock BY <1>1, SameInc
<1>6. /\ inc = Idle /\ ~InBlock /\ toSpv # <<>> /\ toSpv' = Tail(toSpv) /\ IsSeq(toSpv)
      /\ Head(toSpv).type = "invblock" /\ FromNode(Head(toSpv)) /\ Head(toSpv) \in ToSet(toSpv)
      /\ \A m \in ToSet(toSpv') : m \in ToSet(toSpv)
  <2>1. inc = Idle /\ toSpv # <<>> /\ toSpv' = Tail(toSpv) /\ Head(toSpv).type = "invblock"
    BY DEF InvBlock, Receive
  <2>2. IsSeq(toSpv) BY DEF Inv, FromOK
  <2>3. Head(toSpv) \in ToSet(toSpv) /\ ToSet(Tail(toSpv)) \subseteq ToSet(toSpv) BY <2>1, <2>2, Shorter
  <2> QED BY <2>1, <2>2, <2>3 DEF Inv, FromOK, InBlock

<1>8. /\ wait = TRUE \/ wait = FALSE
      /\ wait' = FALSE
      /\ wait = TRUE => toNode' = AskForHeaders
      /\ wait = FALSE => toNode' = toNode
  BY DEF InvBlock, Inv, Cycle
<1>7. wait = TRUE =>
        /\ ToOK' /\ Single(At(toNode', "getheaders"))
        /\ \A m \in ToSet(toNode') : m.type = "getheaders" => m \in ToSet(toNode) \/ m.locator = Locator
  <2> SUFFICES ASSUME wait = TRUE
               PROVE  /\ ToOK' /\ Single(At(toNode', "getheaders"))
                      /\ \A m \in ToSet(toNode') :
                           m.type = "getheaders" => m \in ToSet(toNode) \/ m.locator = Locator
    OBVIOUS
  <2>1. At(toNode, "getheaders") = {} BY DEF Inv, Cycle, Asked
  <2> QED BY <1>2, <1>3, <1>8, <2>1, Asking DEF Inv
<1>20. BlocksOK' BY <1>1, KeepBlocks DEF Inv
<1>21. MinedOnce' BY <1>1, KeepMined DEF Inv
<1>22. NodeTxs' BY <1>1, <1>2, KeepTxs DEF Inv
<1>23. SendsOK' BY <1>1, KeepSends DEF Inv
<1>24. CoinsOK' BY <1>1, KeepCoins DEF Inv
<1>25. SlotsOK' BY <1>1, <1>2, KeepSlots DEF Inv
<1>26. FromOK' BY <1>3, <1>6, FromTaken DEF Inv
<1>27. ToOK'
  <2>1. CASE wait = TRUE BY <1>7, <2>1
  <2>2. CASE wait = FALSE BY <1>2, <1>3, <1>8, <2>2, KeepTo DEF Inv
  <2> QED BY <1>8, <2>1, <2>2
<1>28. MapOK' BY <1>1, <1>2, KeepMap DEF Inv
<1>29. IncOK' BY <1>1, <1>2, KeepInc DEF Inv
<1>30. Cycle'
  <2>1. CASE wait = TRUE
    <3>1. At(toSpv, "headers") = {} /\ hh = Idle /\ Quiet BY <2>1 DEF Inv, Cycle, Told
    <3>2. At(toSpv', "headers") = {} BY <1>6, <3>1, AtShorter
    <3>3. Quiet' BY <1>1, <3>1 DEF Quiet, InBlock
    <3> QED BY <1>1, <1>7, <1>8, <2>1, <3>1, <3>2, <3>3 DEF Cycle, Asked, Told, Single
  <2>2. CASE wait = FALSE
    <3>1. SameAsks BY <1>8, <2>2, NoNewAsk
    <3> QED BY <1>1, <1>6, <1>8, <1>19, <2>2, <3>1, OtherTaken DEF Inv
  <2> QED BY <1>8, <2>1, <2>2
<1>31. Handler' BY <1>1, <1>3, <1>19, KeepHandler DEF Inv
<1>32. FileSeq' BY <1>1, <1>3, KeepFile DEF Inv
<1>33. QueueOK' BY <1>1, <1>19, KeepQueue DEF Inv
<1>34. Linear'
  <2>1. \A m \in ToSet(toNode') : m.type = "getheaders" => m \in ToSet(toNode) \/ m.locator = Locator
    <3>1. CASE wait = TRUE BY <1>7, <3>1
    <3>2. CASE wait = FALSE BY <1>8, <3>2
    <3> QED BY <1>8, <3>1, <3>2
  <2> QED BY <1>1, <1>6, <2>1, LinearMoved DEF Inv
<1>35. Chained' BY <1>1, <1>3, <1>19, KeepChained DEF Inv
<1> QED BY <1>20, <1>21, <1>22, <1>23, <1>24, <1>25, <1>26, <1>27, <1>28,
  <1>29, <1>30, <1>31, <1>32, <1>33, <1>34, <1>35 DEF Inv

LEMMA InvTxStep ==
  ASSUME Inv, InvTx
  PROVE  Inv'
<1>1. UNCHANGED <<utxos, stxos, frozen, sends, sync, prev, missed, txUp, heightUp, tracked, TxMap, blocks, best, mempool, rejected, reorgs,
                 file, syncHeight, queue, wait, hh, inc, restarts>>
  BY DEF InvTx, wallet, node
<1>2. Growing BY <1>1 DEF Growing
<1>3. Extends(blocks, blocks') BY <1>1, Typed DEF Inv
<1>7. PICK a : toNode' = Append(toNode, a) /\ a.type = "gettx" /\ a.type # "getheaders" /\ ToTheNode(a)'
  <2>1. PICK a : a = [type |-> "gettx", tx |-> Head(toSpv).tx]
    OBVIOUS
  <2>2. Head(toSpv).tx \in Payments /\ Head(toSpv).type = "invtx"
    <3>1. Head(toSpv).type = "invtx" /\ Head(toSpv) \in ToSet(toSpv) 
      <4>1. Head(toSpv).type = "invtx" /\ toSpv # <<>> BY DEF InvTx, Receive
      <4> QED BY <4>1, Shorter DEF Inv, FromOK
    <3> QED BY <3>1 DEF Inv, FromOK, FromNode
  <2>3. ToTheNode(a)' /\ a.type = "gettx" BY <2>1, <2>2 DEF ToTheNode
  <2> QED BY <2>1, <2>3 DEF InvTx
<1>4. SameAsks BY <1>7, OtherCall DEF Inv
<1>19. SameBlock BY <1>1, SameInc
<1>6. /\ inc = Idle /\ ~InBlock /\ toSpv # <<>> /\ toSpv' = Tail(toSpv) /\ IsSeq(toSpv)
      /\ Head(toSpv).type = "invtx" /\ FromNode(Head(toSpv)) /\ Head(toSpv) \in ToSet(toSpv)
      /\ \A m \in ToSet(toSpv') : m \in ToSet(toSpv)
  <2>1. inc = Idle /\ toSpv # <<>> /\ toSpv' = Tail(toSpv) /\ Head(toSpv).type = "invtx"
    BY DEF InvTx, Receive
  <2>2. IsSeq(toSpv) BY DEF Inv, FromOK
  <2>3. Head(toSpv) \in ToSet(toSpv) /\ ToSet(Tail(toSpv)) \subseteq ToSet(toSpv) BY <2>1, <2>2, Shorter
  <2> QED BY <2>1, <2>2, <2>3 DEF Inv, FromOK, InBlock
<1>20. BlocksOK' BY <1>1, KeepBlocks DEF Inv
<1>21. MinedOnce' BY <1>1, KeepMined DEF Inv
<1>22. NodeTxs' BY <1>1, <1>2, KeepTxs DEF Inv
<1>23. SendsOK' BY <1>1, KeepSends DEF Inv
<1>24. CoinsOK' BY <1>1, KeepCoins DEF Inv
<1>25. SlotsOK' BY <1>1, <1>2, KeepSlots DEF Inv
<1>26. FromOK' BY <1>3, <1>6, FromTaken DEF Inv
<1>27. ToOK' BY <1>2, <1>3, <1>7, ToSent DEF Inv
<1>28. MapOK' BY <1>1, <1>2, KeepMap DEF Inv
<1>29. IncOK' BY <1>1, <1>2, KeepInc DEF Inv
<1>30. Cycle' BY <1>1, <1>4, <1>6, <1>19, OtherTaken DEF Inv
<1>31. Handler' BY <1>1, <1>3, <1>19, KeepHandler DEF Inv
<1>32. FileSeq' BY <1>1, <1>3, KeepFile DEF Inv
<1>33. QueueOK' BY <1>1, <1>19, KeepQueue DEF Inv
<1>34. Linear' BY <1>1, <1>4, <1>6, LinearMoved DEF Inv, SameAsks
<1>35. Chained' BY <1>1, <1>3, <1>19, KeepChained DEF Inv
<1> QED BY <1>20, <1>21, <1>22, <1>23, <1>24, <1>25, <1>26, <1>27, <1>28,
  <1>29, <1>30, <1>31, <1>32, <1>33, <1>34, <1>35 DEF Inv

LEMMA TxHandlerStep ==
  ASSUME Inv, TxHandler
  PROVE  Inv'
<1>1. UNCHANGED <<utxos, stxos, frozen, sends, sync, prev, missed, txUp, heightUp, tracked, TxMap, toNode, blocks, best, mempool, rejected, reorgs,
                 file, syncHeight, queue, wait, okTxids, hh, restarts>>
  BY DEF TxHandler, wallet, node
<1>2. Growing BY <1>1 DEF Growing
<1>3. Extends(blocks, blocks') BY <1>1, Typed DEF Inv
<1>4. SameAsks BY <1>1, NoNewAsk
<1>6. /\ inc = Idle /\ ~InBlock /\ toSpv # <<>> /\ toSpv' = Tail(toSpv) /\ IsSeq(toSpv)
      /\ Head(toSpv).type = "tx" /\ FromNode(Head(toSpv)) /\ Head(toSpv) \in ToSet(toSpv)
      /\ \A m \in ToSet(toSpv') : m \in ToSet(toSpv)
  <2>1. inc = Idle /\ toSpv # <<>> /\ toSpv' = Tail(toSpv) /\ Head(toSpv).type = "tx"
    BY DEF TxHandler, Receive
  <2>2. IsSeq(toSpv) BY DEF Inv, FromOK
  <2>3. Head(toSpv) \in ToSet(toSpv) /\ ToSet(Tail(toSpv)) \subseteq ToSet(toSpv) BY <2>1, <2>2, Shorter
  <2> QED BY <2>1, <2>2, <2>3 DEF Inv, FromOK, InBlock
<1>8. PICK x : x = Head(toSpv).tx /\ x \in Payments BY <1>6 DEF FromNode
<1>9. PICK r : /\ r = [txs |-> <<x>>, height |-> 0, block |-> FALSE, final |-> FALSE]
               /\ inc' = Idle \/ inc' = <<r>>
  BY <1>8 DEF TxHandler
<1>19. SameBlock
  <2>1. ~InBlock'
    <3>1. CASE inc' = Idle BY <3>1 DEF InBlock
    <3>2. CASE inc' = <<r>>
      <4>1. inc'[1].block = FALSE BY <1>9, <3>2
      <4> QED BY <4>1 DEF InBlock
    <3> QED BY <1>9, <3>1, <3>2
  <2> QED BY <1>6, <2>1 DEF SameBlock
<1>20. BlocksOK' BY <1>1, KeepBlocks DEF Inv
<1>21. MinedOnce' BY <1>1, KeepMined DEF Inv
<1>22. NodeTxs' BY <1>1, <1>2, KeepTxs DEF Inv
<1>23. SendsOK' BY <1>1, KeepSends DEF Inv
<1>24. CoinsOK' BY <1>1, KeepCoins DEF Inv
<1>25. SlotsOK' BY <1>1, <1>2, KeepSlots DEF Inv
<1>26. FromOK' BY <1>3, <1>6, FromTaken DEF Inv
<1>27. ToOK' BY <1>1, <1>2, <1>3, KeepTo DEF Inv
<1>28. MapOK' BY <1>1, <1>2, KeepMap DEF Inv
<1>29. IncOK'
  <2>1. CASE inc' = Idle BY <2>1 DEF IncOK
  <2>2. CASE inc' = <<r>>
    <3>1. inc'[1] = r BY <2>2
    <3>2. IsSeq(r.txs) /\ ToSet(r.txs) = {x}
      <4>1. PICK e : e = <<>>
        OBVIOUS
      <4>2. IsSeq(e) /\ ToSet(e) = {} BY <4>1, NothingYet
      <4>3. IsSeq(Append(e, x)) /\ ToSet(Append(e, x)) = {x} BY <4>2, Grown
      <4>4. Append(e, x) = <<x>> BY <4>1
      <4>5. r.txs = <<x>> BY <1>9
      <4> QED BY <4>3, <4>4, <4>5
    <3>3. Booked(x)' BY <1>8 DEF Booked
    <3>4. \A tx \in ToSet(r.txs) : Booked(tx)' BY <3>2, <3>3
    <3>5. /\ r = [txs |-> r.txs, height |-> r.height, block |-> r.block, final |-> r.final]
          /\ r.height = 0 /\ r.block \in BOOLEAN /\ r.final \in BOOLEAN
      BY <1>9
    <3> QED BY <2>2, <3>1, <3>2, <3>4, <3>5 DEF IncOK
  <2> QED BY <1>9, <2>1, <2>2
<1>30. Cycle' BY <1>1, <1>4, <1>6, <1>19, OtherTaken DEF Inv
<1>31. Handler' BY <1>1, <1>3, <1>19, KeepHandler DEF Inv
<1>32. FileSeq' BY <1>1, <1>3, KeepFile DEF Inv
<1>33. QueueOK' BY <1>1, <1>19, KeepQueue DEF Inv
<1>34. Linear' BY <1>1, <1>4, <1>6, LinearMoved DEF Inv, SameAsks
<1>35. Chained' BY <1>1, <1>3, <1>19, KeepChained DEF Inv
<1> QED BY <1>20, <1>21, <1>22, <1>23, <1>24, <1>25, <1>26, <1>27, <1>28,
  <1>29, <1>30, <1>31, <1>32, <1>33, <1>34, <1>35 DEF Inv

LEMMA GetDataStep ==
  ASSUME Inv, GetDataHandler
  PROVE  Inv'
<1>1. UNCHANGED <<utxos, stxos, frozen, sends, sync, prev, missed, txUp, heightUp, tracked, TxMap, blocks, best, mempool, rejected, reorgs,
                 file, syncHeight, queue, wait, okTxids, hh, inc, restarts>>
  BY DEF GetDataHandler, wallet, node
<1>2. Growing BY <1>1 DEF Growing
<1>3. Extends(blocks, blocks') BY <1>1, Typed DEF Inv
<1>6. /\ inc = Idle /\ ~InBlock /\ toSpv # <<>> /\ toSpv' = Tail(toSpv) /\ IsSeq(toSpv)
      /\ Head(toSpv).type = "getdata" /\ FromNode(Head(toSpv)) /\ Head(toSpv) \in ToSet(toSpv)
      /\ \A m \in ToSet(toSpv') : m \in ToSet(toSpv)
  <2>1. inc = Idle /\ toSpv # <<>> /\ toSpv' = Tail(toSpv) /\ Head(toSpv).type = "getdata"
    BY DEF GetDataHandler, Receive
  <2>2. IsSeq(toSpv) BY DEF Inv, FromOK
  <2>3. Head(toSpv) \in ToSet(toSpv) /\ ToSet(Tail(toSpv)) \subseteq ToSet(toSpv) BY <2>1, <2>2, Shorter
  <2> QED BY <2>1, <2>2, <2>3 DEF Inv, FromOK, InBlock
<1>8. IsSeq(toNode) BY DEF Inv, ToOK
<1>7. PICK ms : /\ IsSeq(ms) /\ toNode' = toNode \o ms
                /\ \A m \in ToSet(ms) :
                     \E t \in TxMap : m = [type |-> "tx", tx |-> t.tx, signed |-> t.signed]
  <2> DEFINE S == {s \in TxMap : s.tx = Head(toSpv).tx}
             T == {[type |-> "tx", tx |-> t.tx, signed |-> t.signed] : t \in S}
             f == [t \in S |-> [type |-> "tx", tx |-> t.tx, signed |-> t.signed]]
  <2>1. IsFiniteSet(S) BY FS_Subset DEF Inv, MapOK
  <2>2. f \in Surjection(S, T)
    <3>1. f \in [S -> T]
      OBVIOUS
    <3>2. \A t \in T : \E s \in S : f[s] = t
      OBVIOUS
    <3> HIDE DEF f, S, T
    <3> QED BY <3>1, <3>2 DEF Surjection
  <2>3. toNode' = toNode \o SetToSeq(T) BY DEF GetDataHandler
  <2>4. \A m \in T : \E t \in TxMap : m = [type |-> "tx", tx |-> t.tx, signed |-> t.signed]
    OBVIOUS
  <2> HIDE DEF f, S, T
  <2>5. IsFiniteSet(T) BY <2>1, <2>2, FS_Surjection
  <2>6. IsSeq(SetToSeq(T)) /\ ToSet(SetToSeq(T)) \subseteq T BY <2>5, MadeOf
  <2> QED BY <2>3, <2>4, <2>6
<1>4. SameAsks
  <2>1. \A m \in ToSet(ms) : m.type # "getheaders"
    <3> SUFFICES ASSUME NEW m \in ToSet(ms) PROVE m.type # "getheaders"
      OBVIOUS
    <3>1. PICK t \in TxMap : m = [type |-> "tx", tx |-> t.tx, signed |-> t.signed] BY <1>7
    <3> QED BY <3>1
  <2>2. At(toNode', "getheaders") = At(toNode, "getheaders") BY <1>7, <1>8, <2>1, AtJoined
  <2>3. ToSet(toNode') = ToSet(toNode) \cup ToSet(ms) BY <1>7, <1>8, Joined
  <2> QED BY <2>1, <2>2, <2>3 DEF SameAsks
<1>19. SameBlock BY <1>1, SameInc
<1>20. BlocksOK' BY <1>1, KeepBlocks DEF Inv
<1>21. MinedOnce' BY <1>1, KeepMined DEF Inv
<1>22. NodeTxs' BY <1>1, <1>2, KeepTxs DEF Inv
<1>23. SendsOK' BY <1>1, KeepSends DEF Inv
<1>24. CoinsOK' BY <1>1, KeepCoins DEF Inv
<1>25. SlotsOK' BY <1>1, <1>2, KeepSlots DEF Inv
<1>26. FromOK' BY <1>3, <1>6, FromTaken DEF Inv
<1>27. ToOK'
  <2>1. \A m : ToTheNode(m) => ToTheNode(m)' BY <1>2, <1>3, KeepToTheNode
  <2>2. ASSUME NEW m \in ToSet(ms) PROVE ToTheNode(m)
    <3>1. PICK t \in TxMap : m = [type |-> "tx", tx |-> t.tx, signed |-> t.signed] BY <1>7
    <3>2. t.tx.ins # {} /\ (t.signed => Booked(t.tx)) BY DEF Inv, MapOK
    <3>3. m.type = "tx" /\ m.tx = t.tx /\ m.signed = t.signed BY <3>1
    <3>4. m.tx.ins # {} /\ (m.signed => Booked(m.tx)) BY <3>2, <3>3
    <3> QED BY <3>3, <3>4 DEF ToTheNode
  <2>3. IsSeq(toNode') /\ ToSet(toNode') = ToSet(toNode) \cup ToSet(ms) BY <1>7, <1>8, Joined
  <2>4. \A m \in ToSet(toNode) : ToTheNode(m) BY DEF Inv, ToOK
  <2> QED BY <2>1, <2>2, <2>3, <2>4 DEF ToOK
<1>28. MapOK' BY <1>1, <1>2, KeepMap DEF Inv
<1>29. IncOK' BY <1>1, <1>2, KeepInc DEF Inv
<1>30. Cycle' BY <1>1, <1>4, <1>6, <1>19, OtherTaken DEF Inv
<1>31. Handler' BY <1>1, <1>3, <1>19, KeepHandler DEF Inv
<1>32. FileSeq' BY <1>1, <1>3, KeepFile DEF Inv
<1>33. QueueOK' BY <1>1, <1>19, KeepQueue DEF Inv
<1>34. Linear' BY <1>1, <1>4, <1>6, LinearMoved DEF Inv, SameAsks
<1>35. Chained' BY <1>1, <1>3, <1>19, KeepChained DEF Inv
<1> QED BY <1>20, <1>21, <1>22, <1>23, <1>24, <1>25, <1>26, <1>27, <1>28,
  <1>29, <1>30, <1>31, <1>32, <1>33, <1>34, <1>35 DEF Inv

LEMMA TailIs ==
  ASSUME NEW q, IsSeq(q), q # <<>>
  PROVE  /\ Head(q) = q[1] /\ Len(q) \in Nat /\ 1 <= Len(q) /\ Len(Tail(q)) = Len(q) - 1
         /\ IsSeq(Tail(q)) /\ \A i \in 1 .. Len(Tail(q)) : Tail(q)[i] = q[i + 1]
<1>1. IsSeq(Tail(q)) BY Shorter
<1>2. /\ Head(q) = q[1] /\ Len(q) \in Nat /\ Len(Tail(q)) = Len(q) - 1
      /\ \A i \in 1 .. Len(Tail(q)) : Tail(q)[i] = q[i + 1]
  BY HeadTailProperties DEF IsSeq
<1>3. Len(q) # 0 BY Elements
<1> QED BY <1>1, <1>2, <1>3

LEMMA BlockArrivesStep ==
  ASSUME Inv, BlockArrives
  PROVE  Inv'
<1>1. UNCHANGED <<utxos, stxos, frozen, sends, sync, prev, missed, txUp, heightUp, tracked, TxMap, toNode, blocks, best, mempool, rejected, reorgs,
                 file, syncHeight, wait, okTxids, hh, restarts>>
  BY DEF BlockArrives, wallet, node
<1>2. Growing BY <1>1 DEF Growing
<1>3. Extends(blocks, blocks') BY <1>1, Typed DEF Inv
<1>4. SameAsks BY <1>1, NoNewAsk
<1>6. /\ inc = Idle /\ ~InBlock /\ toSpv # <<>> /\ toSpv' = Tail(toSpv) /\ IsSeq(toSpv)
      /\ Head(toSpv).type = "block" /\ FromNode(Head(toSpv)) /\ Head(toSpv) \in ToSet(toSpv)
      /\ \A m \in ToSet(toSpv') : m \in ToSet(toSpv)
  <2>1. inc = Idle /\ toSpv # <<>> /\ toSpv' = Tail(toSpv) /\ Head(toSpv).type = "block"
    BY DEF BlockArrives, Receive
  <2>2. IsSeq(toSpv) BY DEF Inv, FromOK
  <2>3. Head(toSpv) \in ToSet(toSpv) /\ ToSet(Tail(toSpv)) \subseteq ToSet(toSpv) BY <2>1, <2>2, Shorter
  <2> QED BY <2>1, <2>2, <2>3 DEF Inv, FromOK, InBlock
<1>7. queue # <<>> /\ queue' = Tail(queue) /\ IsSeq(queue) /\ Head(queue) \in ToSet(queue)
  <2>1. queue # <<>> /\ queue' = Tail(queue) /\ IsSeq(queue) BY DEF BlockArrives, Inv, QueueOK
  <2> QED BY <2>1, Shorter
<1>11. PICK e : e = Head(queue)
  OBVIOUS
<1>8. /\ e = queue[1] /\ 1 \in 1 .. Len(queue) /\ e \in ToSet(queue)
      /\ e.height \in Nat /\ e.final \in BOOLEAN
      /\ Len(queue) \in Nat /\ Len(queue') = Len(queue) - 1 /\ IsSeq(queue')
      /\ (1 = Len(queue) => Len(queue') = 0)
      /\ \A i \in 1 .. Len(queue') : queue'[i] = queue[i + 1]
  <2>1. /\ e = queue[1] /\ Len(queue) \in Nat /\ 1 <= Len(queue) /\ Len(queue') = Len(queue) - 1
        /\ IsSeq(queue') /\ \A i \in 1 .. Len(queue') : queue'[i] = queue[i + 1]
    BY <1>7, <1>11, TailIs
  <2>2. 1 \in 1 .. Len(queue) BY <2>1
  <2>3. e.height \in Nat /\ e.final \in BOOLEAN BY <2>1, <2>2 DEF Inv, QueueOK
  <2>4. ASSUME 1 = Len(queue) PROVE Len(queue') = 0
    <3>1. Len(queue') = 1 - 1 BY <2>1, <2>4
    <3> QED BY <3>1
  <2> QED BY <1>7, <1>11, <2>1, <2>2, <2>3, <2>4
<1>12. PICK b : b = Head(toSpv).id /\ b \in 1 .. Len(blocks) BY <1>6 DEF FromNode
<1>9. PICK r : /\ r = [txs |-> blocks[b].txs, height |-> e.height, block |-> TRUE, final |-> e.final]
               /\ b \in 1 .. Len(blocks)
               /\ inc' = Idle \/ (inc' = <<r>> /\ e.id = b)
  <2>1. PICK r : r = [txs |-> blocks[e.id].txs, height |-> e.height, block |-> TRUE, final |-> e.final]
    OBVIOUS
  <2>2. inc' = IF e.id = b THEN <<r>> ELSE Idle BY <1>11, <1>12, <2>1 DEF BlockArrives
  <2>3. CASE e.id = b BY <1>12, <2>1, <2>2, <2>3
  <2>4. CASE e.id # b
    <3>1. inc' = Idle BY <2>2, <2>4
    <3> QED BY <1>12, <3>1
  <2> QED BY <2>3, <2>4
<1>10. InBlock' => /\ e.id = b /\ inc'[1].height = e.height /\ inc'[1].final = e.final
                   /\ ToSet(inc'[1].txs) = Txs(blocks, b)
  <2> SUFFICES ASSUME InBlock'
               PROVE  /\ e.id = b /\ inc'[1].height = e.height /\ inc'[1].final = e.final
                      /\ ToSet(inc'[1].txs) = Txs(blocks, b)
    OBVIOUS
  <2>1. inc' = <<r>> /\ e.id = b BY <1>9 DEF InBlock
  <2>2. inc'[1] = r BY <2>1
  <2>3. r.height = e.height /\ r.final = e.final /\ r.txs = blocks[b].txs BY <1>9
  <2> QED BY <2>1, <2>2, <2>3 DEF Txs
<1>20. BlocksOK' BY <1>1, KeepBlocks DEF Inv
<1>21. MinedOnce' BY <1>1, KeepMined DEF Inv
<1>22. NodeTxs' BY <1>1, <1>2, KeepTxs DEF Inv
<1>23. SendsOK' BY <1>1, KeepSends DEF Inv
<1>24. CoinsOK' BY <1>1, KeepCoins DEF Inv
<1>25. SlotsOK' BY <1>1, <1>2, KeepSlots DEF Inv
<1>26. FromOK' BY <1>3, <1>6, FromTaken DEF Inv
<1>27. ToOK' BY <1>1, <1>2, <1>3, KeepTo DEF Inv
<1>28. MapOK' BY <1>1, <1>2, KeepMap DEF Inv
<1>29. IncOK'
  <2>1. CASE inc' = Idle BY <2>1 DEF IncOK
  <2>2. CASE inc' = <<r>> /\ e.id = b
    <3>1. inc'[1] = r /\ r.txs = blocks[b].txs /\ ToSet(r.txs) = Txs(blocks, b) BY <1>9, <2>2 DEF Txs
    <3>2. IsSeq(r.txs) BY <1>9, <3>1 DEF Inv, BlocksOK, Mined
    <3>3. \A tx : Booked(tx) => Booked(tx)' BY <1>2, StillBooked
    <3>4. \A tx \in ToSet(r.txs) : Booked(tx)' BY <1>9, <3>1, <3>3 DEF Inv, NodeTxs
    <3>5. /\ r = [txs |-> r.txs, height |-> r.height, block |-> r.block, final |-> r.final]
          /\ r.height = e.height /\ r.block = TRUE /\ r.final = e.final
      BY <1>9
    <3>6. r.height \in Nat /\ r.final \in BOOLEAN /\ r.block \in BOOLEAN BY <1>8, <3>5
    <3>7. r.block # FALSE BY <3>5
    <3> QED BY <2>2, <3>1, <3>2, <3>4, <3>5, <3>6, <3>7 DEF IncOK
  <2> QED BY <1>9, <2>1, <2>2
<1>30. Cycle'
  <2>1. ~Asked /\ ~Told /\ ~wait /\ wait \in BOOLEAN BY <1>7 DEF Inv, Cycle, Quiet
  <2>2. At(toSpv', "headers") = {} BY <1>6, <2>1, AtShorter DEF Told
  <2>3. At(toNode', "getheaders") = {} BY <1>1, <2>1 DEF Asked
  <2> QED BY <1>1, <2>1, <2>2, <2>3 DEF Cycle, Asked, Told, Single
<1>31. Handler'
  <2> SUFFICES ASSUME hh # Idle PROVE Handler'
    BY <1>1 DEF Handler
  <2>1. ~Busy /\ hh = <<hh[1]>> /\ hh[1].pc \in {"ingest", "more", "blocks"}
    BY <1>7 DEF Inv, Handler, Quiet
  <2>2. Requesting BY <2>1 DEF Busy, Requesting
  <2>3. /\ hh[1] = [pc |-> "blocks", hdrs |-> hh[1].hdrs, req |-> hh[1].req]
        /\ hh[1].req \in Nat /\ syncHeight <= hh[1].req
        /\ \A x \in ToSet(queue) : x.final = FALSE /\ x.height <= hh[1].req
    BY <2>2 DEF Inv, Handler
  <2>4. ASSUME InBlock' PROVE inc'[1].final = FALSE /\ inc'[1].height <= hh[1].req
    BY <1>8, <1>10, <2>3, <2>4
  <2>5. \A x \in ToSet(queue') : x \in ToSet(queue) BY <1>7, Shorter
  <2>6. ~Busy' BY <1>1, <2>1 DEF Busy
  <2> QED BY <1>1, <2>1, <2>3, <2>4, <2>5, <2>6 DEF Handler
<1>32. FileSeq' BY <1>1, <1>3, KeepFile DEF Inv
<1>33. QueueOK'
  <2>1. ASSUME NEW i \in 1 .. Len(queue')
        PROVE  /\ queue'[i].height \in Nat /\ queue'[i].final \in BOOLEAN
               /\ syncHeight < queue'[i].height /\ queue'[i].height <= HeightOf(file)
               /\ e.height < queue'[i].height
               /\ queue'[i].final = TRUE => i = Len(queue')
               /\ \A j \in 1 .. Len(queue') : i < j => queue'[i].height < queue'[j].height
    <3>1. i + 1 \in 1 .. Len(queue) /\ 1 \in 1 .. Len(queue) /\ 1 < i + 1 /\ queue'[i] = queue[i + 1]
      BY <1>8
    <3>2. /\ queue[i + 1].height \in Nat /\ queue[i + 1].final \in BOOLEAN
          /\ syncHeight < queue[i + 1].height /\ queue[i + 1].height <= HeightOf(file)
          /\ queue[i + 1].final = TRUE => i + 1 = Len(queue)
      BY <3>1 DEF Inv, QueueOK
    <3>3. e.height < queue[i + 1].height BY <1>8, <3>1 DEF Inv, QueueOK
    <3>4. ASSUME NEW j \in 1 .. Len(queue'), i < j PROVE queue[i + 1].height < queue'[j].height
      <4>1. j + 1 \in 1 .. Len(queue) /\ i + 1 < j + 1 /\ queue'[j] = queue[j + 1] BY <1>8, <3>4
      <4>2. queue[i + 1].height < queue[j + 1].height BY <3>1, <4>1 DEF Inv, QueueOK
      <4> QED BY <4>1, <4>2
    <3>5. i + 1 = Len(queue) => i = Len(queue') BY <1>8
    <3> QED BY <3>1, <3>2, <3>3, <3>4, <3>5, Zenon
  <2>2. ASSUME InBlock'
        PROVE  /\ inc'[1].height = e.height /\ syncHeight < e.height /\ e.height <= HeightOf(file)
               /\ inc'[1].final = TRUE => queue' = <<>>
    <3>1. inc'[1].height = e.height /\ inc'[1].final = e.final BY <1>10, <2>2
    <3>2. syncHeight < e.height /\ e.height <= HeightOf(file) /\ (e.final = TRUE => 1 = Len(queue))
      BY <1>8 DEF Inv, QueueOK
    <3>3. 1 = Len(queue) => Len(queue') = 0 BY <1>8
    <3>4. Len(queue') = 0 => queue' = <<>> BY <1>8, Elements
    <3> QED BY <3>1, <3>2, <3>3, <3>4, Zenon
  <2>3. IsSeq(queue') BY <1>8
  <2> QED BY <1>1, <2>1, <2>2, <2>3 DEF QueueOK
<1>34. Linear' BY <1>1, <1>4, <1>6, LinearMoved DEF Inv, SameAsks
<1>35. Chained'
  <2>1. ASSUME NEW c, FileOK(c), Counts(c) PROVE FileOK(c)' /\ Counts(c)'
    <3>1. ASSUME NEW i \in 1 .. Len(queue') PROVE queue'[i].id = c[Index(queue'[i].height)]
      <4>1. i + 1 \in 1 .. Len(queue) /\ queue'[i] = queue[i + 1] BY <1>8
      <4> QED BY <2>1, <4>1 DEF FileOK
    <3>2. ASSUME InBlock' PROVE ToSet(inc'[1].txs) \subseteq Txs(blocks, c[Index(inc'[1].height)])
      <4>1. e.id = b /\ inc'[1].height = e.height /\ ToSet(inc'[1].txs) = Txs(blocks, b) BY <1>10, <3>2
      <4>2. e.id = c[Index(e.height)] BY <1>8, <2>1 DEF FileOK
      <4> QED BY <4>1, <4>2
    <3>3. FileOK(c)' BY <1>1, <2>1, <3>1, <3>2 DEF FileOK
    <3>4. ASSUME NEW tx, NEW h \in Nat, Good(c, tx, h) PROVE Good(c, tx, h)'
      <4>1. Placed(c, tx, h) => Placed(c, tx, h)' BY <1>1 DEF Placed
      <4>2. Top = syncHeight /\ syncHeight \in Nat BY <1>6 DEF Top, Inv, SlotsOK
      <4>3. Top' = e.height \/ Top' = syncHeight BY <1>1, <1>10 DEF Top
      <4>4. syncHeight < e.height /\ e.height \in Nat BY <1>8 DEF Inv, QueueOK
      <4>5. h <= Top => h <= Top' BY <4>2, <4>3, <4>4
      <4> QED BY <1>1, <3>4, <4>1, <4>5 DEF Good, Doomed
    <3>5. Counts(c)' BY <1>1, <2>1, <3>4, CountsMoved DEF Inv
    <3> QED BY <3>3, <3>5
  <2> QED BY <1>1, <2>1, ChainedMoved DEF Inv
<1> QED BY <1>20, <1>21, <1>22, <1>23, <1>24, <1>25, <1>26, <1>27, <1>28,
  <1>29, <1>30, <1>31, <1>32, <1>33, <1>34, <1>35 DEF Inv

-----------------------------------------------------------------------------
(* Transactions and heights are handed up.                                 *)

LEMMA FirstOne ==
  ASSUME NEW q, q = <<>>, NEW u
  PROVE  IsSeq(Append(q, u)) /\ ToSet(Append(q, u)) = {u} /\ Len(Append(q, u)) = 1
<1>1. IsSeq(q) /\ ToSet(q) = {} /\ Len(q) = 0 BY NothingYet
<1>2. /\ IsSeq(Append(q, u)) /\ ToSet(Append(q, u)) = ToSet(q) \cup {u}
      /\ Len(Append(q, u)) = Len(q) + 1
  BY <1>1, Grown
<1> QED BY <1>1, <1>2

LEMMA OneLess ==
  ASSUME NEW i, i = [txs |-> i.txs, height |-> i.height, block |-> i.block, final |-> i.final], NEW e
  PROVE  [i EXCEPT !.txs = e] = [txs |-> e, height |-> i.height, block |-> i.block, final |-> i.final]
<1> DEFINE a == i.txs
           b == i.height
           c == i.block
           d == i.final
<1>1. i = [txs |-> a, height |-> b, block |-> c, final |-> d]
  OBVIOUS
<1> HIDE DEF a, b, c, d
<1>2. [[txs |-> a, height |-> b, block |-> c, final |-> d] EXCEPT !.txs = e] =
        [txs |-> e, height |-> b, block |-> c, final |-> d]
  OBVIOUS
<1>3. [i EXCEPT !.txs = e] = [txs |-> e, height |-> b, block |-> c, final |-> d]
  BY <1>1, <1>2
<1> QED BY <1>3 DEF a, b, c, d

LEMMA CountsOneMore ==
  ASSUME NEW c, Counts(c), UNCHANGED <<utxos, missed>>,
         \A tx, h : Good(c, tx, h) => Good(c, tx, h)',
         \A v \in ToSet(txUp') : Good(c, v.tx, v.height)
  PROVE  Counts(c)'
  BY Zenon DEF Counts

LEMMA HandUpStep ==
  ASSUME Inv, HandUp
  PROVE  Inv'
<1>1. UNCHANGED <<utxos, stxos, frozen, sends, sync, prev, heightUp, TxMap, toNode,
                 blocks, best, mempool, rejected, reorgs, toSpv, file, syncHeight, queue, wait, okTxids, hh, restarts>>
  BY DEF HandUp, node
<1>2. Growing BY <1>1 DEF Growing
<1>3. Extends(blocks, blocks') BY <1>1, Typed DEF Inv
<1>4. SameAsks BY <1>1, NoNewAsk
<1>5. SameTold BY <1>1, NoNewTold
<1>6. /\ inc # Idle /\ inc = <<inc[1]>>
      /\ inc[1] = [txs |-> inc[1].txs, height |-> inc[1].height, block |-> inc[1].block, final |-> inc[1].final]
      /\ inc[1].block = TRUE \/ inc[1].block = FALSE
      /\ inc[1].block \in BOOLEAN /\ inc[1].final \in BOOLEAN
      /\ inc[1].height \in Nat /\ (inc[1].block = FALSE => inc[1].height = 0)
  BY DEF HandUp, Inv, IncOK
<1>7. /\ inc[1].txs # <<>> /\ IsSeq(inc[1].txs) /\ IsSeq(Tail(inc[1].txs))
      /\ ToSet(Tail(inc[1].txs)) \subseteq ToSet(inc[1].txs) /\ Head(inc[1].txs) \in ToSet(inc[1].txs)
      /\ \A tx \in ToSet(inc[1].txs) : Booked(tx)
  <2>1. inc[1].txs # <<>> /\ IsSeq(inc[1].txs) /\ \A tx \in ToSet(inc[1].txs) : Booked(tx)
    BY <1>6 DEF HandUp, Inv, IncOK
  <2> QED BY <2>1, Shorter
<1>8. PICK u : /\ u = [tx |-> Head(inc[1].txs), height |-> inc[1].height]
               /\ u.height = inc[1].height /\ u.height \in Nat /\ u.tx \in ToSet(inc[1].txs) /\ Booked(u.tx)
  <2>1. PICK u : u = [tx |-> Head(inc[1].txs), height |-> inc[1].height]
    OBVIOUS
  <2>2. u.tx = Head(inc[1].txs) /\ u.height = inc[1].height BY <2>1
  <2>3. Booked(u.tx) BY <1>7, <2>2
  <2> QED BY <1>6, <1>7, <2>1, <2>2, <2>3
<1>9. txUp' = txUp \/ (txUp = <<>> /\ txUp' = Append(txUp, u))
  <2>1. IsSeq(txUp) BY DEF Inv, SlotsOK
  <2>2. Len(txUp) < Slots => txUp = <<>>
    <3>1. Len(txUp) \in Nat /\ (txUp = <<>> <=> Len(txUp) = 0) BY <2>1, Elements
    <3> QED BY <3>1 DEF Slots
  <2> QED BY <1>8, <2>2 DEF HandUp
<1>11. missed' \in BOOLEAN /\ (missed' \/ missed' = missed) BY DEF HandUp, Inv, SlotsOK
<1>10. PICK r : /\ r = [txs |-> Tail(inc[1].txs), height |-> inc[1].height, block |-> inc[1].block,
                        final |-> inc[1].final]
                /\ r = [txs |-> r.txs, height |-> r.height, block |-> r.block, final |-> r.final]
                /\ r.txs = Tail(inc[1].txs) /\ r.height = inc[1].height /\ r.block = inc[1].block
                /\ r.final = inc[1].final
                /\ inc' = <<r>> \/ (inc' = Idle /\ inc[1].block = FALSE)
  <2>1. PICK r : r = [txs |-> Tail(inc[1].txs), height |-> inc[1].height, block |-> inc[1].block,
                      final |-> inc[1].final]
    OBVIOUS
  <2>2. /\ r = [txs |-> r.txs, height |-> r.height, block |-> r.block, final |-> r.final]
        /\ r.txs = Tail(inc[1].txs) /\ r.height = inc[1].height /\ r.block = inc[1].block
        /\ r.final = inc[1].final
    BY <2>1
  <2>3. [inc[1] EXCEPT !.txs = Tail(inc[1].txs)] = r BY <1>6, <2>1, OneLess
  <2>4. inc' = <<r>> \/ (inc' = Idle /\ ~inc[1].block) BY <2>3, Zenon DEF HandUp
  <2>5. ~inc[1].block => inc[1].block = FALSE BY <1>6, Zenon
  <2> QED BY <2>1, <2>2, <2>4, <2>5, Zenon
<1>19. SameBlock
  <2>1. CASE inc' = <<r>>
    <3>1. inc'[1] = r /\ inc' # Idle BY <2>1 DEF Idle
    <3> QED BY <1>6, <1>7, <1>10, <3>1 DEF SameBlock, InBlock
  <2>2. CASE inc' = Idle /\ inc[1].block = FALSE BY <2>2 DEF SameBlock, InBlock
  <2> QED BY <1>10, <2>1, <2>2
<1>20. BlocksOK' BY <1>1, KeepBlocks DEF Inv
<1>21. MinedOnce' BY <1>1, KeepMined DEF Inv
<1>22. NodeTxs' BY <1>1, <1>2, KeepTxs DEF Inv
<1>23. SendsOK' BY <1>1, KeepSends DEF Inv
<1>24. CoinsOK' BY <1>1, KeepCoins DEF Inv
<1>25. SlotsOK'
  <2>1. \A tx : Booked(tx) => Booked(tx)' BY <1>2, StillBooked
  <2>2. CASE txUp' = txUp
    <3>1. \A v \in ToSet(txUp) : v.height \in Nat /\ Booked(v.tx)' BY <2>1 DEF Inv, SlotsOK
    <3> QED BY <1>1, <1>11, <2>2, <3>1 DEF Inv, SlotsOK
  <2>3. CASE txUp = <<>> /\ txUp' = Append(txUp, u)
    <3>1. IsSeq(txUp) BY DEF Inv, SlotsOK
    <3>2. IsSeq(txUp') /\ ToSet(txUp') = {u} /\ Len(txUp') = 1 BY <2>3, FirstOne
    <3>3. u.height \in Nat /\ Booked(u.tx)' BY <1>8, <2>1
    <3>4. \A v \in ToSet(txUp') : v.height \in Nat /\ Booked(v.tx)' BY <3>2, <3>3
    <3> QED BY <1>1, <1>11, <3>2, <3>4 DEF Inv, SlotsOK
  <2> QED BY <1>9, <2>2, <2>3
<1>26. FromOK' BY <1>1, <1>3, KeepFrom DEF Inv
<1>27. ToOK' BY <1>1, <1>2, <1>3, KeepTo DEF Inv
<1>28. MapOK' BY <1>1, <1>2, KeepMap DEF Inv
<1>29. IncOK'
  <2>1. CASE inc' = Idle BY <2>1 DEF IncOK
  <2>2. CASE inc' = <<r>>
    <3>1. \A tx : Booked(tx) => Booked(tx)' BY <1>2, StillBooked
    <3>2. inc'[1] = r BY <2>2
    <3>3. \A tx \in ToSet(r.txs) : Booked(tx)' BY <1>7, <1>10, <3>1
    <3>4. r.height \in Nat /\ r.block \in BOOLEAN /\ r.final \in BOOLEAN /\ (r.block = FALSE => r.height = 0)
      BY <1>6, <1>10
    <3>5. r = [txs |-> r.txs, height |-> r.height, block |-> r.block, final |-> r.final] BY <1>10
    <3>6. IsSeq(r.txs) BY <1>7, <1>10
    <3>7. inc' = <<inc'[1]>> BY <2>2
    <3> QED BY <3>2, <3>3, <3>4, <3>5, <3>6, <3>7, Zenon DEF IncOK
  <2> QED BY <1>10, <2>1, <2>2
<1>30. Cycle' BY <1>1, <1>4, <1>5, <1>19, KeepCycle DEF Inv, SameAsks, SameTold
<1>31. Handler' BY <1>1, <1>3, <1>19, KeepHandler DEF Inv
<1>32. FileSeq' BY <1>1, <1>3, KeepFile DEF Inv
<1>33. QueueOK' BY <1>1, <1>19, KeepQueue DEF Inv
<1>34. Linear' BY <1>1, <1>4, <1>5, KeepLinear DEF Inv, SameAsks, SameTold
<1>35. Chained'
  <2>1. ASSUME NEW c, FileOK(c), Counts(c) PROVE FileOK(c)' /\ Counts(c)'
    <3>1. FileOK(c)' BY <1>1, <1>3, <1>19, <2>1, KeepFileOK DEF Inv
    <3>5. Path(blocks, c) BY <2>1 DEF FileOK
    <3>2. \A tx, h : Good(c, tx, h) => Good(c, tx, h)' BY <1>1, <1>3, <1>19, <2>1, KeepGood DEF FileOK
    <3>6. CASE missed' BY <3>1, <3>6 DEF Counts
    <3>3. CASE txUp' = txUp /\ missed' = missed BY <1>1, <1>3, <1>19, <2>1, <3>1, <3>3, <3>5, KeepCounts
    <3>4. CASE txUp = <<>> /\ txUp' = Append(txUp, u) /\ missed' = missed
      <4>1. IsSeq(txUp) BY DEF Inv, SlotsOK
      <4>2. ToSet(txUp') = {u} BY <3>4, FirstOne
      <4>3. Good(c, u.tx, u.height)
        <5> SUFFICES ASSUME u.height > 0 PROVE Placed(c, u.tx, u.height) /\ u.height <= Top
          BY DEF Good
        <5>1. InBlock /\ u.height = inc[1].height /\ u.tx \in ToSet(inc[1].txs) BY <1>6, <1>8 DEF InBlock
        <5>2. u.tx \in Txs(blocks, c[Index(u.height)]) /\ Len(c) = Len(file) BY <2>1, <5>1 DEF FileOK
        <5>3. /\ syncHeight < u.height /\ u.height <= HeightOf(file) /\ u.height \in Nat
              /\ syncHeight \in Nat /\ StartHeight <= syncHeight
          BY <1>6, <5>1 DEF Inv, QueueOK, SlotsOK
        <5>4. StartHeight \in Nat /\ Len(file) \in Nat BY Typed DEF Inv, FileSeq
        <5>5. Index(u.height) \in 1 .. Len(c) BY <5>2, <5>3, <5>4 DEF Index, HeightOf
        <5>6. u.height <= Top BY <5>1, <5>3 DEF Top
        <5> QED BY <5>2, <5>5, <5>6 DEF Placed
      <4>4. \A v \in ToSet(txUp') : Good(c, v.tx, v.height) BY <4>2, <4>3
      <4>5. UNCHANGED <<utxos, missed>> BY <1>1, <3>4
      <4> QED BY <2>1, <3>1, <3>2, <4>4, <4>5, CountsOneMore, Zenon
    <3> QED BY <1>9, <1>11, <3>1, <3>3, <3>4, <3>6
  <2> QED BY <1>1, <2>1, ChainedMoved DEF Inv
<1> QED BY <1>20, <1>21, <1>22, <1>23, <1>24, <1>25, <1>26, <1>27, <1>28,
  <1>29, <1>30, <1>31, <1>32, <1>33, <1>34, <1>35 DEF Inv

LEMMA BlockDoneStep ==
  ASSUME Inv, BlockDone
  PROVE  Inv'
<1>1. UNCHANGED <<utxos, stxos, frozen, sends, sync, prev, missed, txUp, tracked, TxMap,
                 blocks, best, mempool, rejected, reorgs, toSpv, file, queue, wait, okTxids, hh, restarts>>
  BY DEF BlockDone, wallet, node
<1>2. Growing BY <1>1 DEF Growing
<1>3. Extends(blocks, blocks') BY <1>1, Typed DEF Inv
<1>5. SameTold BY <1>1, NoNewTold
<1>6. InBlock
  <2>1. inc # Idle /\ inc[1].block BY DEF BlockDone
  <2>2. inc[1].block \in BOOLEAN BY <2>1 DEF Inv, IncOK
  <2> QED BY <2>1, <2>2, Zenon DEF InBlock
<1>12. PICK k : k = inc[1].height
  OBVIOUS
<1>13. PICK g : g = inc[1].final
  OBVIOUS
<1>7. k = inc[1].height /\ k \in Nat /\ g = inc[1].final /\ (g = TRUE \/ g = FALSE)
  BY <1>6, <1>12, <1>13 DEF Inv, IncOK, InBlock
<1>8. /\ inc' = Idle /\ syncHeight' = k /\ heightUp = <<>> /\ heightUp' = <<k>>
      /\ g = TRUE => toNode' = AskForHeaders
      /\ g = FALSE => toNode' = toNode
  <2>1. heightUp' = Append(heightUp, k) /\ Len(heightUp) < Slots /\ inc' = Idle /\ syncHeight' = k
        /\ toNode' = IF g THEN AskForHeaders ELSE toNode
    BY <1>12, <1>13 DEF BlockDone, AfterFinal
  <2>2. heightUp = <<>> \/ heightUp = <<syncHeight>> BY DEF Inv, SlotsOK
  <2>3. heightUp = <<>> BY <2>1, <2>2 DEF Slots
  <2>4. heightUp' = <<k>> BY <2>1, <2>3
  <2>5. g = TRUE => toNode' = AskForHeaders BY <2>1
  <2>6. g = FALSE => toNode' = toNode BY <2>1
  <2> QED BY <2>1, <2>3, <2>4, <2>5, <2>6
<1>9. /\ k \in Nat /\ syncHeight \in Nat /\ syncHeight < k /\ k <= HeightOf(file) /\ StartHeight <= k
      /\ StartHeight \in Nat
  <2>1. syncHeight < k /\ k <= HeightOf(file) BY <1>6, <1>7 DEF Inv, QueueOK
  <2>2. syncHeight \in Nat /\ StartHeight <= syncHeight /\ StartHeight \in Nat BY Typed DEF Inv, SlotsOK
  <2> QED BY <1>7, <2>1, <2>2
<1>11. /\ At(toNode, "getheaders") = {} /\ At(toSpv, "headers") = {} /\ ~wait /\ wait \in BOOLEAN
       /\ g = TRUE => hh = Idle /\ queue = <<>>
  <2>1. ~Quiet BY <1>6 DEF Quiet
  <2>2. g = TRUE => queue = <<>> BY <1>6, <1>7 DEF Inv, QueueOK
  <2>3. hh # Idle => g = FALSE
    <3> SUFFICES ASSUME hh # Idle PROVE g = FALSE
      OBVIOUS
    <3>1. Requesting BY <2>1 DEF Inv, Handler, Busy, Requesting
    <3> QED BY <1>6, <1>7, <3>1 DEF Inv, Handler
  <2>4. ~Asked /\ ~Told /\ ~wait /\ wait \in BOOLEAN BY <2>1 DEF Inv, Cycle
  <2> QED BY <2>2, <2>3, <2>4 DEF Asked, Told
<1>10. g = TRUE =>
         /\ ToOK' /\ Single(At(toNode', "getheaders"))
         /\ \A m \in ToSet(toNode') : m.type = "getheaders" => m \in ToSet(toNode) \/ m.locator = Locator
  BY <1>2, <1>3, <1>8, <1>11, Asking DEF Inv
<1>20. BlocksOK' BY <1>1, KeepBlocks DEF Inv
<1>21. MinedOnce' BY <1>1, KeepMined DEF Inv
<1>22. NodeTxs' BY <1>1, <1>2, KeepTxs DEF Inv
<1>23. SendsOK' BY <1>1, KeepSends DEF Inv
<1>24. CoinsOK' BY <1>1, KeepCoins DEF Inv
<1>25. SlotsOK'
  <2>1. \A tx : Booked(tx) => Booked(tx)' BY <1>2, StillBooked
  <2>2. \A v \in ToSet(txUp) : v.height \in Nat /\ Booked(v.tx)' BY <2>1 DEF Inv, SlotsOK
  <2>3. syncHeight' \in Nat /\ StartHeight <= syncHeight' /\ heightUp' = <<syncHeight'>> BY <1>7, <1>8, <1>9
  <2> QED BY <1>1, <2>2, <2>3 DEF Inv, SlotsOK
<1>26. FromOK' BY <1>1, <1>3, KeepFrom DEF Inv
<1>27. ToOK'
  <2>1. CASE g = TRUE BY <1>10, <2>1
  <2>2. CASE g = FALSE BY <1>2, <1>3, <1>8, <2>2, KeepTo DEF Inv
  <2> QED BY <1>7, <2>1, <2>2
<1>28. MapOK' BY <1>1, <1>2, KeepMap DEF Inv
<1>29. IncOK' BY <1>8 DEF IncOK
<1>30. Cycle'
  <2>1. At(toSpv', "headers") = {} /\ ~wait' /\ wait' \in BOOLEAN BY <1>1, <1>11
  <2>2. ~InBlock' BY <1>8 DEF InBlock
  <2>3. CASE g = TRUE
    <3>1. hh' = Idle /\ queue' = <<>> BY <1>1, <1>11, <2>3
    <3> QED BY <1>10, <2>1, <2>2, <2>3, <3>1 DEF Cycle, Asked, Told, Single, Quiet
  <2>4. CASE g = FALSE
    <3>1. At(toNode', "getheaders") = {} BY <1>8, <1>11, <2>4
    <3> QED BY <2>1, <3>1 DEF Cycle, Asked, Told, Single
  <2> QED BY <1>7, <2>3, <2>4
<1>31. Handler'
  <2> SUFFICES ASSUME hh # Idle PROVE Handler'
    BY <1>1 DEF Handler
  <2>1. ~Busy /\ hh = <<hh[1]>> /\ hh[1].pc \in {"ingest", "more", "blocks"}
    BY <1>6 DEF Inv, Handler, Quiet
  <2>2. Requesting BY <2>1 DEF Busy, Requesting
  <2>3. /\ hh[1] = [pc |-> "blocks", hdrs |-> hh[1].hdrs, req |-> hh[1].req]
        /\ hh[1].req \in Nat /\ inc[1].height <= hh[1].req
        /\ \A x \in ToSet(queue) : x.final = FALSE /\ x.height <= hh[1].req
    BY <1>6, <2>2 DEF Inv, Handler
  <2>4. ~InBlock' BY <1>8 DEF InBlock
  <2>5. ~Busy' BY <1>1, <2>1 DEF Busy
  <2> QED BY <1>1, <1>7, <1>8, <2>1, <2>3, <2>4, <2>5 DEF Handler
<1>32. FileSeq' BY <1>1, <1>3, KeepFile DEF Inv
<1>33. QueueOK'
  <2>1. ~InBlock' BY <1>8 DEF InBlock
  <2>2. syncHeight' = k /\ \A i \in 1 .. Len(queue) : k < queue[i].height
    BY <1>6, <1>7, <1>8 DEF Inv, QueueOK
  <2> QED BY <1>1, <2>1, <2>2 DEF Inv, QueueOK
<1>34. Linear'
  <2>1. \A m \in ToSet(toNode') : m.type = "getheaders" => m \in ToSet(toNode) \/ m.locator = Locator
    <3>1. CASE g = TRUE BY <1>10, <3>1
    <3>2. CASE g = FALSE BY <1>8, <3>2
    <3> QED BY <1>7, <3>1, <3>2
  <2>2. sync <= syncHeight => sync' <= syncHeight'
    <3>1. sync \in Nat /\ sync' = sync BY <1>1 DEF Inv, SlotsOK
    <3> QED BY <1>8, <1>9, <3>1
  <2> QED BY <1>1, <1>5, <2>1, <2>2, LinearMoved DEF Inv, SameTold
<1>35. Chained'
  <2> SUFFICES ASSUME Tame' PROVE Heights' /\ \E c : FileOK(c)' /\ Counts(c)'
    BY DEF Chained
  <2>1. Tame BY <1>1 DEF Tame
  <2>2. PICK c : FileOK(c) /\ Counts(c) BY <2>1 DEF Inv, Chained
  <2>3. Heights' BY <1>8 DEF Heights
  <2>4. FileOK(c)'
    <3>1. ~InBlock' BY <1>8 DEF InBlock
    <3>2. syncHeight' <= HeightOf(file') BY <1>1, <1>8, <1>9
    <3>3. ASSUME NEW i \in 1 .. Len(file)
          PROVE  file[i] = c[i] \/ (file[i] = Hole /\ StartHeight - 1 + i <= syncHeight' /\ i < Len(file))
      <4>1. file[i] = c[i] \/ (file[i] = Hole /\ StartHeight - 1 + i <= syncHeight /\ i < Len(file))
        BY <2>2 DEF FileOK
      <4>2. StartHeight - 1 + i <= syncHeight => StartHeight - 1 + i <= syncHeight'
        <5>1. StartHeight \in Nat /\ i \in Nat BY Typed DEF Inv
        <5> QED BY <1>8, <1>9, <5>1
      <4> QED BY <4>1, <4>2
    <3> QED BY <1>1, <2>2, <3>1, <3>2, <3>3 DEF FileOK
  <2>5. ASSUME NEW tx, NEW h \in Nat, Good(c, tx, h) PROVE Good(c, tx, h)'
    <3>1. Top = k /\ Top' = k BY <1>6, <1>7, <1>8 DEF Top, InBlock
    <3>2. Placed(c, tx, h) => Placed(c, tx, h)' BY <1>1 DEF Placed
    <3>3. ~Doomed(h) BY <1>8 DEF Doomed
    <3> QED BY <1>1, <2>5, <3>1, <3>2, <3>3 DEF Good
  <2>6. Counts(c)' BY <1>1, <2>2, <2>5, CountsMoved DEF Inv
  <2> QED BY <2>3, <2>4, <2>6
<1> QED BY <1>20, <1>21, <1>22, <1>23, <1>24, <1>25, <1>26, <1>27, <1>28,
  <1>29, <1>30, <1>31, <1>32, <1>33, <1>34, <1>35 DEF Inv

-----------------------------------------------------------------------------
(* The wallet takes what is handed up.                                     *)

(* What a transaction put into the database leaves there.                  *)
Gained(tx, height) ==
  \A op \in DOMAIN utxos' :
    \/ op[1] = tx /\ utxos'[op] = height
    \/ op \in DOMAIN utxos /\ utxos'[op] = utxos[op]

LEMMA Ingested ==
  ASSUME CoinsOK, NEW tx, NEW h \in Nat, Ingest(tx, h)
  PROVE  /\ CoinsOK' /\ stxos \subseteq stxos' /\ Gained(tx, h)
         /\ tx.ins \subseteq DOMAIN utxos => tx.ins \subseteq stxos'
<1> DEFINE gained == Gain(utxos, tx, h)
<1>1. /\ DOMAIN gained = DOMAIN utxos \cup (Mine(tx) \ stxos)
      /\ \A op \in DOMAIN gained : gained[op] = IF op \in Mine(tx) THEN h ELSE utxos[op]
  BY DEF Gain
<1>2. /\ utxos' = Lose(gained, tx) /\ stxos' = stxos \cup (tx.ins \cap DOMAIN gained)
  BY DEF Ingest
<1> HIDE DEF gained
<1>3. DOMAIN utxos' = DOMAIN gained \ tx.ins /\ \A op \in DOMAIN utxos' : utxos'[op] = gained[op]
  BY <1>2 DEF Lose
<1>4. ASSUME NEW op \in Mine(tx) PROVE op[1] = tx
  BY DEF Mine
<1>5. Gained(tx, h)
  <2> SUFFICES ASSUME NEW op \in DOMAIN utxos'
               PROVE  \/ op[1] = tx /\ utxos'[op] = h
                      \/ op \in DOMAIN utxos /\ utxos'[op] = utxos[op]
    BY DEF Gained
  <2>1. op \in DOMAIN gained /\ utxos'[op] = gained[op] BY <1>3
  <2>2. CASE op \in Mine(tx)
    <3>1. gained[op] = h BY <1>1, <2>1, <2>2
    <3> QED BY <1>4, <2>1, <2>2, <3>1
  <2>3. CASE op \notin Mine(tx)
    <3>1. gained[op] = utxos[op] /\ op \in DOMAIN utxos BY <1>1, <2>1, <2>3
    <3> QED BY <2>1, <3>1
  <2> QED BY <2>2, <2>3
<1>6. ASSUME NEW op \in DOMAIN utxos'
      PROVE  utxos'[op] \in Nat /\ op \in Mine(op[1]) /\ op \notin stxos'
  <2>1. op \in DOMAIN gained /\ op \notin tx.ins /\ utxos'[op] = gained[op] BY <1>3
  <2>2. op \in DOMAIN utxos => utxos[op] \in Nat /\ op \in Mine(op[1]) /\ op \notin stxos
    BY DEF CoinsOK
  <2>3. op \notin stxos BY <1>1, <2>1, <2>2
  <2>4. op \notin stxos' BY <1>2, <2>1, <2>3
  <2>5. CASE op \in Mine(tx)
    <3>1. gained[op] = h BY <1>1, <2>1, <2>5
    <3>2. op \in Mine(op[1]) BY <1>4, <2>5
    <3> QED BY <2>1, <2>4, <3>1, <3>2
  <2>6. CASE op \notin Mine(tx)
    <3>1. gained[op] = utxos[op] /\ op \in DOMAIN utxos BY <1>1, <2>1, <2>6
    <3> QED BY <2>1, <2>2, <2>4, <3>1
  <2> QED BY <2>5, <2>6
<1>7. CoinsOK' BY <1>6 DEF CoinsOK
<1>8. tx.ins \subseteq DOMAIN utxos => tx.ins \subseteq stxos' BY <1>1, <1>2
<1> QED BY <1>2, <1>5, <1>7, <1>8

(* Coins that were counted well, and a transaction that is where it is     *)
(* said to be.                                                             *)
LEMMA CountsGained ==
  ASSUME NEW c, Counts(c), UNCHANGED missed,
         NEW tx, NEW h, Gained(tx, h), Good(c, tx, h) \/ missed,
         \A t, g : Good(c, t, g) => Good(c, t, g)',
         ToSet(txUp') \subseteq ToSet(txUp)
  PROVE  Counts(c)'
<1> SUFFICES ASSUME ~missed
             PROVE  /\ \A op \in DOMAIN utxos' : Good(c, op[1], utxos[op])'
                    /\ \A u \in ToSet(txUp') : Good(c, u.tx, u.height)'
  BY DEF Counts
<1>1. ASSUME NEW op \in DOMAIN utxos' PROVE Good(c, op[1], utxos[op])'
  <2>1. PICK t : t = op[1]
    OBVIOUS
  <2>2. PICK g : g = utxos'[op]
    OBVIOUS
  <2>3. CASE t = tx /\ g = h
    <3>1. Good(c, t, g) BY <2>3
    <3>2. Good(c, t, g)' BY <3>1
    <3> QED BY <2>1, <2>2, <3>2
  <2>4. CASE op \in DOMAIN utxos /\ g = utxos[op]
    <3>1. Good(c, t, g) BY <2>1, <2>4 DEF Counts
    <3>2. Good(c, t, g)' BY <3>1
    <3> QED BY <2>1, <2>2, <3>2
  <2> QED BY <2>1, <2>2, <2>3, <2>4 DEF Gained
<1>2. ASSUME NEW u \in ToSet(txUp') PROVE Good(c, u.tx, u.height)'
  <2>1. Good(c, u.tx, u.height) BY DEF Counts
  <2> QED BY <2>1
<1> QED BY <1>1, <1>2

LEMMA WalletTxStep ==
  ASSUME Inv, WalletTxHandler, Same
  PROVE  Inv'
<1>1. UNCHANGED <<frozen, sends, sync, prev, missed, heightUp, TxMap, toNode,
                 blocks, best, mempool, rejected, reorgs, toSpv, file, syncHeight, queue, wait, okTxids, hh, inc, restarts>>
  BY DEF WalletTxHandler, Same, node, hook
<1>6. PICK u : u = Head(txUp) /\ u \in ToSet(txUp) /\ u.height \in Nat /\ Booked(u.tx)
  <2>1. txUp # <<>> /\ IsSeq(txUp) BY DEF WalletTxHandler, Inv, SlotsOK
  <2>2. Head(txUp) \in ToSet(txUp) BY <2>1, Shorter
  <2> QED BY <2>2 DEF Inv, SlotsOK
<1>7. CoinsOK' /\ stxos \subseteq stxos' /\ Gained(u.tx, u.height)
  <2>1. Ingest(u.tx, u.height) BY <1>6 DEF WalletTxHandler
  <2> QED BY <1>6, <2>1, Ingested DEF Inv
<1>8. IsSeq(txUp') /\ ToSet(txUp') \subseteq ToSet(txUp) /\ Len(txUp') \in Nat /\ Len(txUp') <= 1
  <2>1. txUp # <<>> /\ txUp' = Tail(txUp) /\ IsSeq(txUp) /\ Len(txUp) <= 1
    BY DEF WalletTxHandler, Inv, SlotsOK
  <2>2. /\ IsSeq(txUp') /\ ToSet(txUp') \subseteq ToSet(txUp) /\ Len(txUp') = Len(txUp) - 1
        /\ Len(txUp) \in Nat \ {0}
    BY <2>1, Shorter
  <2> QED BY <2>1, <2>2
<1>2. Growing BY <1>1, <1>7 DEF Growing
<1>3. Extends(blocks, blocks') BY <1>1, Typed DEF Inv
<1>4. SameAsks BY <1>1, NoNewAsk
<1>5. SameTold BY <1>1, NoNewTold
<1>19. SameBlock BY <1>1, SameInc
<1>20. BlocksOK' BY <1>1, KeepBlocks DEF Inv
<1>21. MinedOnce' BY <1>1, KeepMined DEF Inv
<1>22. NodeTxs' BY <1>1, <1>2, KeepTxs DEF Inv
<1>23. SendsOK' BY <1>1, KeepSends DEF Inv
<1>24. CoinsOK' BY <1>7
<1>25. SlotsOK'
  <2>1. \A tx : Booked(tx) => Booked(tx)' BY <1>2, StillBooked
  <2>2. \A v \in ToSet(txUp') : v.height \in Nat /\ Booked(v.tx)' BY <1>8, <2>1 DEF Inv, SlotsOK
  <2>3. Len(txUp') <= 1 BY <1>8
  <2> QED BY <1>1, <1>8, <2>2, <2>3 DEF Inv, SlotsOK
<1>26. FromOK' BY <1>1, <1>3, KeepFrom DEF Inv
<1>27. ToOK' BY <1>1, <1>2, <1>3, KeepTo DEF Inv
<1>28. MapOK' BY <1>1, <1>2, KeepMap DEF Inv
<1>29. IncOK' BY <1>1, <1>2, KeepInc DEF Inv
<1>30. Cycle' BY <1>1, <1>4, <1>5, <1>19, KeepCycle DEF Inv, SameAsks, SameTold
<1>31. Handler' BY <1>1, <1>3, <1>19, KeepHandler DEF Inv
<1>32. FileSeq' BY <1>1, <1>3, KeepFile DEF Inv
<1>33. QueueOK' BY <1>1, <1>19, KeepQueue DEF Inv
<1>34. Linear' BY <1>1, <1>4, <1>5, KeepLinear DEF Inv, SameAsks, SameTold
<1>35. Chained'
  <2>1. ASSUME NEW c, FileOK(c), Counts(c) PROVE FileOK(c)' /\ Counts(c)'
    <3>1. FileOK(c)' BY <1>1, <1>3, <1>19, <2>1, KeepFileOK DEF Inv
    <3>2. Path(blocks, c) BY <2>1 DEF FileOK
    <3>3. \A t, g : Good(c, t, g) => Good(c, t, g)' BY <1>1, <1>3, <1>19, <3>2, KeepGood
    <3>4. ~missed => Good(c, u.tx, u.height) BY <1>6, <2>1 DEF Counts
    <3>5. Counts(c)' BY <1>1, <1>7, <1>8, <2>1, <3>3, <3>4, CountsGained
    <3> QED BY <3>1, <3>5
  <2> QED BY <1>1, <2>1, ChainedMoved DEF Inv
<1> QED BY <1>20, <1>21, <1>22, <1>23, <1>24, <1>25, <1>26, <1>27, <1>28,
  <1>29, <1>30, <1>31, <1>32, <1>33, <1>34, <1>35 DEF Inv

LEMMA HeightStep ==
  ASSUME Inv, HeightHandler, Same
  PROVE  Inv'
<1>1. UNCHANGED <<stxos, frozen, sends, txUp, tracked, TxMap, toNode,
                 blocks, best, mempool, rejected, reorgs, toSpv, file, syncHeight, queue, wait, okTxids, hh, inc, restarts>>
  BY DEF HeightHandler, Same, node, hook
<1>2. Growing BY <1>1 DEF Growing
<1>3. Extends(blocks, blocks') BY <1>1, Typed DEF Inv
<1>4. SameAsks BY <1>1, NoNewAsk
<1>5. SameTold BY <1>1, NoNewTold
<1>19. SameBlock BY <1>1, SameInc
<1>6. PICK h : /\ h = syncHeight /\ heightUp = <<h>> /\ Head(heightUp) = h /\ h \in Nat
               /\ sync' = h /\ prev' = h /\ heightUp' = <<>>
  <2>1. heightUp # <<>> /\ syncHeight \in Nat /\ (heightUp = <<>> \/ heightUp = <<syncHeight>>)
    BY DEF HeightHandler, Inv, SlotsOK
  <2>2. heightUp = <<syncHeight>> BY <2>1
  <2>3. Head(heightUp) = syncHeight /\ Tail(heightUp) = <<>> BY <2>2
  <2> QED BY <2>1, <2>2, <2>3 DEF HeightHandler
<1>7. /\ \A op \in DOMAIN utxos' : op \in DOMAIN utxos /\ utxos'[op] = utxos[op]
      /\ h < prev => \A op \in DOMAIN utxos' : utxos'[op] <= h
  <2>1. utxos' = IF h < prev THEN RollBack(h) ELSE utxos BY <1>6 DEF HeightHandler
  <2>2. CASE h < prev BY <2>1, <2>2 DEF RollBack
  <2>3. CASE ~(h < prev) BY <2>1, <2>3
  <2> QED BY <2>2, <2>3
<1>20. BlocksOK' BY <1>1, KeepBlocks DEF Inv
<1>21. MinedOnce' BY <1>1, KeepMined DEF Inv
<1>22. NodeTxs' BY <1>1, <1>2, KeepTxs DEF Inv
<1>23. SendsOK' BY <1>1, KeepSends DEF Inv
<1>24. CoinsOK'
  <2>1. \A op \in DOMAIN utxos' : op \in DOMAIN utxos /\ utxos'[op] = utxos[op] BY <1>7
  <2> QED BY <1>1, <2>1 DEF Inv, CoinsOK
<1>25. SlotsOK'
  <2>1. \A tx : Booked(tx) => Booked(tx)' BY <1>2, StillBooked
  <2>2. \A v \in ToSet(txUp) : v.height \in Nat /\ Booked(v.tx)' BY <2>1 DEF Inv, SlotsOK
  <2>3. missed' \in BOOLEAN BY DEF HeightHandler
  <2>4. prev' \in Nat /\ sync' \in Nat /\ StartHeight <= sync' BY <1>6 DEF Inv, SlotsOK
  <2> QED BY <1>1, <1>6, <2>2, <2>3, <2>4 DEF Inv, SlotsOK
<1>26. FromOK' BY <1>1, <1>3, KeepFrom DEF Inv
<1>27. ToOK' BY <1>1, <1>2, <1>3, KeepTo DEF Inv
<1>28. MapOK' BY <1>1, <1>2, KeepMap DEF Inv
<1>29. IncOK' BY <1>1, <1>2, KeepInc DEF Inv
<1>30. Cycle' BY <1>1, <1>4, <1>5, <1>19, KeepCycle DEF Inv, SameAsks, SameTold
<1>31. Handler' BY <1>1, <1>3, <1>19, KeepHandler DEF Inv
<1>32. FileSeq' BY <1>1, <1>3, KeepFile DEF Inv
<1>33. QueueOK' BY <1>1, <1>19, KeepQueue DEF Inv
<1>34. Linear'
  <2>1. sync' <= syncHeight' BY <1>1, <1>6 DEF Inv, SlotsOK
  <2> QED BY <1>1, <1>4, <1>5, <2>1, LinearMoved DEF Inv, SameAsks, SameTold
<1>35. Chained'
  <2> SUFFICES ASSUME Tame' PROVE Heights' /\ \E c : FileOK(c)' /\ Counts(c)'
    BY DEF Chained
  <2>1. Tame BY <1>1 DEF Tame
  <2>2. PICK c : FileOK(c) /\ Counts(c) BY <2>1 DEF Inv, Chained
  <2>3. Heights' BY <1>1, <1>6 DEF Heights
  <2>4. FileOK(c)' BY <1>1, <1>3, <1>19, <2>2, KeepFileOK DEF Inv
  <2>5. ASSUME NEW tx, NEW g, Good(c, tx, g), ~(h < prev /\ g > h) PROVE Good(c, tx, g)'
    <3>1. ~Doomed(g) BY <1>6, <2>5 DEF Doomed
    <3>2. Placed(c, tx, g) => Placed(c, tx, g)' BY <1>1 DEF Placed
    <3>3. Top' = Top BY <1>1 DEF Top, InBlock
    <3> QED BY <1>1, <2>5, <3>1, <3>2, <3>3 DEF Good
  <2>6. Counts(c)'
    <3> SUFFICES ASSUME ~missed'
                 PROVE  /\ \A op \in DOMAIN utxos' : Good(c, op[1], utxos[op])'
                        /\ \A u \in ToSet(txUp') : Good(c, u.tx, u.height)'
      BY DEF Counts
    <3>1. ~missed /\ \A i \in DOMAIN txUp : ~(h < prev /\ txUp[i].height > h) BY <1>6 DEF HeightHandler
    <3>2. ASSUME NEW op \in DOMAIN utxos' PROVE Good(c, op[1], utxos[op])'
      <4>1. PICK t : t = op[1]
        OBVIOUS
      <4>2. PICK g : g = utxos'[op]
        OBVIOUS
      <4>3. op \in DOMAIN utxos /\ g = utxos[op] BY <1>7, <4>2
      <4>4. Good(c, t, g) BY <2>2, <3>1, <4>1, <4>3 DEF Counts
      <4>5. ~(h < prev /\ g > h)
        <5>1. h < prev => g <= h BY <1>7, <4>2
        <5>2. g \in Nat /\ h \in Nat BY <1>6, <4>3 DEF Inv, CoinsOK
        <5> QED BY <5>1, <5>2
      <4>6. Good(c, t, g)' BY <2>5, <4>4, <4>5
      <4> QED BY <4>1, <4>2, <4>6
    <3>3. ASSUME NEW u \in ToSet(txUp') PROVE Good(c, u.tx, u.height)'
      <4>1. u \in ToSet(txUp) BY <1>1
      <4>2. Good(c, u.tx, u.height) BY <2>2, <3>1, <4>1 DEF Counts
      <4>3. IsSeq(txUp) BY DEF Inv, SlotsOK
      <4>4. PICK i \in DOMAIN txUp : txUp[i] = u BY <4>1, <4>3, Elements
      <4>5. ~(h < prev /\ u.height > h) BY <3>1, <4>4
      <4> QED BY <2>5, <4>2, <4>5
    <3> QED BY <3>2, <3>3
  <2> QED BY <2>3, <2>4, <2>6
<1> QED BY <1>20, <1>21, <1>22, <1>23, <1>24, <1>25, <1>26, <1>27, <1>28,
  <1>29, <1>30, <1>31, <1>32, <1>33, <1>34, <1>35 DEF Inv

-----------------------------------------------------------------------------
(* The user sends.                                                         *)

LEMMA MaybeSendStep ==
  ASSUME Inv, MaybeSend, Same
  PROVE  Inv'
<1>1. UNCHANGED <<utxos, stxos, sync, prev, txUp, heightUp, tracked, toNode, TxMap, missed,
                 blocks, best, mempool, rejected, reorgs, toSpv, file, syncHeight, queue, wait, okTxids, hh, inc, restarts>>
  BY DEF MaybeSend, Same, node, hook
<1>6. PICK tx : IsSeq(sends') /\ ToSet(sends') = ToSet(sends) \cup {tx} /\ tx.ins # {}
  <2>1. PICK op, outs : sends' = Append(sends, NewSend(op, outs)) BY DEF MaybeSend
  <2>2. PICK tx : tx = NewSend(op, outs)
    OBVIOUS
  <2>3. tx.ins = {op} BY <2>2 DEF NewSend
  <2>4. IsSeq(sends) BY DEF Inv, SendsOK
  <2> QED BY <2>1, <2>2, <2>3, <2>4, Grown
<1>2. Growing BY <1>1, <1>6 DEF Growing
<1>3. Extends(blocks, blocks') BY <1>1, Typed DEF Inv
<1>4. SameAsks BY <1>1, NoNewAsk
<1>5. SameTold BY <1>1, NoNewTold
<1>19. SameBlock BY <1>1, SameInc
<1>20. BlocksOK' BY <1>1, KeepBlocks DEF Inv
<1>21. MinedOnce' BY <1>1, KeepMined DEF Inv
<1>22. NodeTxs' BY <1>1, <1>2, KeepTxs DEF Inv
<1>23. SendsOK'
  <2>1. \A t \in ToSet(sends) : t.ins # {} BY DEF Inv, SendsOK, Ours
  <2>2. \A t \in ToSet(sends') : t.ins # {} BY <1>6, <2>1
  <2> QED BY <1>6, <2>2 DEF SendsOK, Ours
<1>24. CoinsOK' BY <1>1, KeepCoins DEF Inv
<1>25. SlotsOK' BY <1>1, <1>2, KeepSlots DEF Inv
<1>26. FromOK' BY <1>1, <1>3, KeepFrom DEF Inv
<1>27. ToOK' BY <1>1, <1>2, <1>3, KeepTo DEF Inv
<1>28. MapOK' BY <1>1, <1>2, KeepMap DEF Inv
<1>29. IncOK' BY <1>1, <1>2, KeepInc DEF Inv
<1>30. Cycle' BY <1>1, <1>4, <1>5, <1>19, KeepCycle DEF Inv, SameAsks, SameTold
<1>31. Handler' BY <1>1, <1>3, <1>19, KeepHandler DEF Inv
<1>32. FileSeq' BY <1>1, <1>3, KeepFile DEF Inv
<1>33. QueueOK' BY <1>1, <1>19, KeepQueue DEF Inv
<1>34. Linear' BY <1>1, <1>4, <1>5, KeepLinear DEF Inv, SameAsks, SameTold
<1>35. Chained' BY <1>1, <1>3, <1>19, KeepChained DEF Inv
<1> QED BY <1>20, <1>21, <1>22, <1>23, <1>24, <1>25, <1>26, <1>27, <1>28,
  <1>29, <1>30, <1>31, <1>32, <1>33, <1>34, <1>35 DEF Inv

LEMMA NahDontSendStep ==
  ASSUME Inv, NEW tx, NahDontSend(tx), Same
  PROVE  Inv'
<1>1. UNCHANGED <<utxos, stxos, sends, sync, prev, txUp, heightUp, tracked, toNode, TxMap, missed,
                 blocks, best, mempool, rejected, reorgs, toSpv, file, syncHeight, queue, wait, okTxids, hh, inc, restarts>>
  BY DEF NahDontSend, Same, node, hook
<1>2. Growing BY <1>1 DEF Growing
<1>3. Extends(blocks, blocks') BY <1>1, Typed DEF Inv
<1>4. SameAsks BY <1>1, NoNewAsk
<1>5. SameTold BY <1>1, NoNewTold
<1>19. SameBlock BY <1>1, SameInc
<1>20. BlocksOK' BY <1>1, KeepBlocks DEF Inv
<1>21. MinedOnce' BY <1>1, KeepMined DEF Inv
<1>22. NodeTxs' BY <1>1, <1>2, KeepTxs DEF Inv
<1>23. SendsOK' BY <1>1, KeepSends DEF Inv
<1>24. CoinsOK' BY <1>1, KeepCoins DEF Inv
<1>25. SlotsOK' BY <1>1, <1>2, KeepSlots DEF Inv
<1>26. FromOK' BY <1>1, <1>3, KeepFrom DEF Inv
<1>27. ToOK' BY <1>1, <1>2, <1>3, KeepTo DEF Inv
<1>28. MapOK' BY <1>1, <1>2, KeepMap DEF Inv
<1>29. IncOK' BY <1>1, <1>2, KeepInc DEF Inv
<1>30. Cycle' BY <1>1, <1>4, <1>5, <1>19, KeepCycle DEF Inv, SameAsks, SameTold
<1>31. Handler' BY <1>1, <1>3, <1>19, KeepHandler DEF Inv
<1>32. FileSeq' BY <1>1, <1>3, KeepFile DEF Inv
<1>33. QueueOK' BY <1>1, <1>19, KeepQueue DEF Inv
<1>34. Linear' BY <1>1, <1>4, <1>5, KeepLinear DEF Inv, SameAsks, SameTold
<1>35. Chained' BY <1>1, <1>3, <1>19, KeepChained DEF Inv
<1> QED BY <1>20, <1>21, <1>22, <1>23, <1>24, <1>25, <1>26, <1>27, <1>28,
  <1>29, <1>30, <1>31, <1>32, <1>33, <1>34, <1>35 DEF Inv

LEMMA ReallySendStep ==
  ASSUME Inv, NEW tx \in Ours, ReallySend(tx), Same
  PROVE  Inv'
<1>1. UNCHANGED <<sends, sync, prev, txUp, heightUp, missed,
                 blocks, best, mempool, rejected, reorgs, toSpv, file, syncHeight, queue, wait, okTxids, hh, inc, restarts>>
  BY DEF ReallySend, Same, node, hook
<1>6. PICK s : /\ s.tx = tx /\ (s.signed <=> tx.ins \subseteq DOMAIN utxos)
               /\ TxMap' = TxMap \cup {s} /\ toNode' = Append(toNode, [type |-> "inv", tx |-> s.tx])
  <2>1. PICK s : s = SignMyInputs(tx)
    OBVIOUS
  <2>2. s.tx = tx /\ (s.signed <=> tx.ins \subseteq DOMAIN utxos) BY <2>1 DEF SignMyInputs
  <2>3. TxMap' = TxMap \cup {s} /\ toNode' = Append(toNode, [type |-> "inv", tx |-> s.tx])
    BY <2>1 DEF ReallySend, PushTx
  <2> QED BY <2>2, <2>3
<1>7. /\ CoinsOK' /\ stxos \subseteq stxos' /\ Gained(tx, 0)
      /\ tx.ins \subseteq DOMAIN utxos => tx.ins \subseteq stxos'
  <2>1. Ingest(tx, 0) BY DEF ReallySend
  <2> QED BY <2>1, Ingested DEF Inv
<1>2. Growing BY <1>1, <1>7 DEF Growing
<1>3. Extends(blocks, blocks') BY <1>1, Typed DEF Inv
<1>4. SameAsks
  <2>1. PICK a : a = [type |-> "inv", tx |-> s.tx]
    OBVIOUS
  <2>2. a.type # "getheaders" BY <2>1
  <2> QED BY <1>6, <2>1, <2>2, OtherCall DEF Inv
<1>5. SameTold BY <1>1, NoNewTold
<1>19. SameBlock BY <1>1, SameInc
<1>20. BlocksOK' BY <1>1, KeepBlocks DEF Inv
<1>21. MinedOnce' BY <1>1, KeepMined DEF Inv
<1>22. NodeTxs' BY <1>1, <1>2, KeepTxs DEF Inv
<1>23. SendsOK' BY <1>1, KeepSends DEF Inv
<1>24. CoinsOK' BY <1>7
<1>25. SlotsOK' BY <1>1, <1>2, KeepSlots DEF Inv
<1>26. FromOK' BY <1>1, <1>3, KeepFrom DEF Inv
<1>27. ToOK'
  <2>1. PICK a : a = [type |-> "inv", tx |-> s.tx]
    OBVIOUS
  <2>2. a.type = "inv" BY <2>1
  <2>3. ToTheNode(a)' BY <2>2 DEF ToTheNode
  <2> QED BY <1>2, <1>3, <1>6, <2>1, <2>3, ToSent DEF Inv
<1>28. MapOK'
  <2>1. \A t : Booked(t) => Booked(t)' BY <1>2, StillBooked
  <2>2. \A t \in TxMap : t.tx.ins # {} /\ (t.signed => Booked(t.tx)') BY <2>1, Zenon DEF Inv, MapOK
  <2>3. IsFiniteSet(TxMap')
    <3>1. IsFiniteSet(TxMap) BY DEF Inv, MapOK
    <3> QED BY <1>6, <3>1, FS_AddElement
  <2>4. s.tx.ins # {} BY <1>6 DEF Inv, SendsOK
  <2>5. s.signed => Booked(s.tx)'
    <3> SUFFICES ASSUME s.signed PROVE Booked(s.tx)'
      OBVIOUS
    <3>1. tx.ins \subseteq DOMAIN utxos BY <1>6
    <3>2. tx.ins \subseteq stxos' BY <1>7, <3>1
    <3>3. tx \in Ours' BY <1>1 DEF Ours
    <3>4. Booked(tx)' BY <3>2, <3>3 DEF Booked
    <3> QED BY <1>6, <3>4
  <2>6. ASSUME NEW t \in TxMap' PROVE t.tx.ins # {} /\ (t.signed => Booked(t.tx)')
    <3>1. CASE t \in TxMap BY <2>2, <3>1
    <3>2. CASE t = s BY <2>4, <2>5, <3>2
    <3> QED BY <1>6, <3>1, <3>2
  <2> QED BY <2>3, <2>6, Zenon DEF MapOK
<1>29. IncOK' BY <1>1, <1>2, KeepInc DEF Inv
<1>30. Cycle' BY <1>1, <1>4, <1>5, <1>19, KeepCycle DEF Inv, SameAsks, SameTold
<1>31. Handler' BY <1>1, <1>3, <1>19, KeepHandler DEF Inv
<1>32. FileSeq' BY <1>1, <1>3, KeepFile DEF Inv
<1>33. QueueOK' BY <1>1, <1>19, KeepQueue DEF Inv
<1>34. Linear' BY <1>1, <1>4, <1>5, LinearMoved DEF Inv, SameAsks, SameTold
<1>35. Chained'
  <2>1. ASSUME NEW c, FileOK(c), Counts(c) PROVE FileOK(c)' /\ Counts(c)'
    <3>1. FileOK(c)' BY <1>1, <1>3, <1>19, <2>1, KeepFileOK DEF Inv
    <3>2. Path(blocks, c) BY <2>1 DEF FileOK
    <3>3. \A t, g : Good(c, t, g) => Good(c, t, g)' BY <1>1, <1>3, <1>19, <3>2, KeepGood
    <3>4. Good(c, tx, 0) BY DEF Good
    <3>5. ToSet(txUp') \subseteq ToSet(txUp) BY <1>1
    <3>6. Counts(c)' BY <1>1, <1>7, <2>1, <3>3, <3>4, <3>5, CountsGained
    <3> QED BY <3>1, <3>6
  <2> QED BY <1>1, <2>1, ChainedMoved DEF Inv
<1> QED BY <1>20, <1>21, <1>22, <1>23, <1>24, <1>25, <1>26, <1>27, <1>28,
  <1>29, <1>30, <1>31, <1>32, <1>33, <1>34, <1>35 DEF Inv

-----------------------------------------------------------------------------
(* A restart.                                                              *)

LEMMA RestartStep ==
  ASSUME Inv, Restart
  PROVE  Inv'
<1>1. UNCHANGED <<utxos, stxos, sends, sync, blocks, best, mempool, rejected, reorgs, file>>
  BY DEF Restart, WalletRestart, node
<1>2. Growing BY <1>1 DEF Growing
<1>3. Extends(blocks, blocks') BY <1>1, Typed DEF Inv
<1>6. /\ syncHeight' = sync /\ queue' = <<>> /\ wait' = FALSE /\ hh' = Idle /\ inc' = Idle
      /\ toSpv' = <<>> /\ prev' = 0 /\ txUp' = <<>> /\ heightUp' = <<>> /\ TxMap' = {}
  BY DEF Restart, WalletRestart
<1>7. PICK a : /\ a.type = "getheaders" /\ a.locator = Locator
               /\ IsSeq(toNode') /\ ToSet(toNode') = {a} /\ Single(At(toNode', "getheaders"))
  <2>1. PICK a : a = [type |-> "getheaders", locator |-> Locator]
    OBVIOUS
  <2>2. toNode' = <<a>> BY <2>1 DEF Restart
  <2>3. PICK q : q = <<>>
    OBVIOUS
  <2>4. Append(q, a) = <<a>> BY <2>3
  <2>5. IsSeq(toNode') /\ ToSet(toNode') = {a} BY <2>2, <2>3, <2>4, FirstOne
  <2>6. Single(At(toNode', "getheaders")) BY <2>2, AtOne
  <2> QED BY <2>1, <2>5, <2>6
<1>20. BlocksOK'
  <2>1. restarts' \in Nat BY Typed DEF Restart, Inv
  <2> QED BY <1>1, <2>1 DEF Inv, BlocksOK
<1>21. MinedOnce' BY <1>1, KeepMined DEF Inv
<1>22. NodeTxs' BY <1>1, <1>2, KeepTxs DEF Inv
<1>23. SendsOK' BY <1>1, KeepSends DEF Inv
<1>24. CoinsOK' BY <1>1, KeepCoins DEF Inv
<1>25. SlotsOK'
  <2>1. missed' \in BOOLEAN BY DEF Restart, WalletRestart
  <2>2. sync \in Nat /\ StartHeight <= sync BY DEF Inv, SlotsOK
  <2> QED BY <1>1, <1>6, <2>1, <2>2, NothingYet DEF SlotsOK
<1>26. FromOK' BY <1>6, NothingYet DEF FromOK
<1>27. ToOK'
  <2>1. IsSeq(toNode') /\ ToSet(toNode') = {a} BY <1>7
  <2>2. ToTheNode(a)' BY <1>7 DEF ToTheNode
  <2> QED BY <2>1, <2>2 DEF ToOK
<1>28. MapOK' BY <1>6, FS_EmptySet DEF MapOK
<1>29. IncOK' BY <1>6 DEF IncOK
<1>30. Cycle'
  <2>1. Single(At(toNode', "getheaders")) BY <1>7
  <2>2. At(toSpv', "headers") = {} BY <1>6, AtNone
  <2>3. Quiet' BY <1>6 DEF Quiet, InBlock
  <2> QED BY <1>6, <2>1, <2>2, <2>3 DEF Cycle, Told, Asked, Single
<1>31. Handler' BY <1>6 DEF Handler, Busy, Requesting
<1>32. FileSeq' BY <1>1, <1>3, KeepFile DEF Inv
<1>33. QueueOK'
  <2>1. ~InBlock' BY <1>6 DEF InBlock
  <2> QED BY <1>6, <2>1, NothingYet DEF QueueOK
<1>34. Linear'
  <2> SUFFICES ASSUME reorgs = 0 PROVE OneChain' /\ InStep'
    BY <1>1 DEF Linear
  <2>1. OneChain BY DEF Inv, Linear
  <2>2. OneChain' BY <1>1, <2>1 DEF OneChain
  <2>3. Len(file) \in Locator /\ Locator \subseteq 1 .. Len(file) BY <2>1, LocatorIn DEF Inv
  <2>4. \A m \in ToSet(toNode') : Len(file') \in m.locator /\ m.locator \subseteq 1 .. Len(file')
    BY <1>1, <1>7, <2>3
  <2>5. \A m \in ToSet(toSpv') : FALSE BY <1>6, NothingYet
  <2>6. sync' <= syncHeight' BY <1>1, <1>6 DEF Inv, SlotsOK
  <2>7. InStep' BY <1>6, <2>4, <2>5, <2>6 DEF InStep
  <2> QED BY <2>2, <2>7
<1>35. Chained'
  <2> SUFFICES ASSUME Tame' PROVE Heights' /\ \E c : FileOK(c)' /\ Counts(c)'
    BY DEF Chained
  <2>1. restarts' # 0 BY Typed DEF Restart, Inv
  <2>2. reorgs = 0 /\ Tame BY <1>1, <2>1 DEF Tame
  <2>3. Heights' BY <2>1 DEF Heights
  <2>4. PICK c : FileOK(c) /\ Counts(c) BY <2>2 DEF Inv, Chained
  <2>5. OneChain /\ sync <= syncHeight BY <2>2 DEF Inv, Linear, InStep
  <2>6. FileOK(c)'
    <3>1. ~InBlock' BY <1>6 DEF InBlock
    <3>2. \A i \in 1 .. Len(queue') : FALSE BY <1>6, NothingYet
    <3>3. syncHeight' <= HeightOf(file')
      <4>1. syncHeight <= HeightOf(file) BY <2>4 DEF FileOK
      <4>2. sync \in Nat /\ syncHeight \in Nat BY DEF Inv, SlotsOK
      <4>3. StartHeight \in Nat /\ Len(file) \in Nat BY Typed DEF Inv, FileSeq
      <4> QED BY <1>1, <1>6, <2>5, <4>1, <4>2, <4>3 DEF HeightOf
    <3>4. \A i \in 1 .. Len(file) : file[i] = c[i]
      <4>1. \A i \in 1 .. Len(file) : file[i] = c[i] \/ file[i] = Hole BY <2>4 DEF FileOK
      <4>2. \A i \in 1 .. Len(file) : file[i] # Hole BY <2>5 DEF OneChain, Hole
      <4> QED BY <4>1, <4>2
    <3>5. Path(blocks, c) /\ Len(c) = Len(file) BY <2>4 DEF FileOK
    <3> QED BY <1>1, <3>1, <3>2, <3>3, <3>4, <3>5 DEF FileOK
  <2>7. Counts(c)'
    <3> SUFFICES ASSUME ~missed'
                 PROVE  /\ \A op \in DOMAIN utxos' : Good(c, op[1], utxos[op])'
                        /\ \A u \in ToSet(txUp') : Good(c, u.tx, u.height)'
      BY DEF Counts
    <3>1. ~missed /\ heightUp = <<>> BY DEF Restart, WalletRestart
    <3>2. \A u \in ToSet(txUp') : FALSE BY <1>6, NothingYet
    <3>3. ASSUME NEW op \in DOMAIN utxos' PROVE Good(c, op[1], utxos[op])'
      <4>1. PICK t : t = op[1]
        OBVIOUS
      <4>2. PICK g : g = utxos[op] /\ g = utxos'[op] BY <1>1
      <4>3. Good(c, t, g) BY <1>1, <2>4, <3>1, <4>1, <4>2 DEF Counts
      <4>4. g > 0 => Placed(c, t, g) BY <3>1, <4>3 DEF Good, Doomed
      <4>5. Placed(c, t, g) => Placed(c, t, g)' BY <1>1 DEF Placed
      <4>6. Good(c, t, g)' BY <2>1, <4>4, <4>5 DEF Good
      <4> QED BY <4>1, <4>2, <4>6
    <3> QED BY <3>2, <3>3
  <2> QED BY <2>3, <2>6, <2>7
<1> QED BY <1>20, <1>21, <1>22, <1>23, <1>24, <1>25, <1>26, <1>27, <1>28,
  <1>29, <1>30, <1>31, <1>32, <1>33, <1>34, <1>35 DEF Inv

-----------------------------------------------------------------------------
(* The invariant holds, and what follows from it.                          *)

LEMMA Holds == SInit => Inv
<1> SUFFICES ASSUME SInit PROVE Inv
  OBVIOUS
<1>1. /\ utxos = <<>> /\ stxos = {} /\ sends = <<>> /\ txUp = <<>> /\ heightUp = <<>> /\ toNode = <<>>
      /\ TxMap = {} /\ missed = FALSE /\ sync = StartHeight /\ prev = 0
      /\ best = <<1>> /\ mempool = {} /\ reorgs = 0 /\ restarts = 0
      /\ file = <<1>> /\ syncHeight = StartHeight
      /\ queue = <<>> /\ wait = FALSE /\ hh = Idle /\ inc = Idle
      /\ blocks = << [prev |-> 0, txs |-> <<>>] >>
      /\ toSpv = << [type |-> "headers", hdrs |-> <<>>] >>
  BY DEF SInit, WalletInit
<1>2. StartHeight \in Nat /\ StartHeight >= 1 BY SpvAssumption
<1>3. PICK z : z = <<>>
  OBVIOUS
<1>4. PICK x : x = [prev |-> 0, txs |-> <<>>]
  OBVIOUS
<1>5. x.prev = 0 /\ IsSeq(x.txs) /\ ToSet(x.txs) = {} BY <1>4, NothingYet
<1>6. blocks = <<x>> /\ IsSeq(blocks) /\ Len(blocks) = 1 /\ blocks[1] = x
  <2>1. Append(z, x) = <<x>> BY <1>3
  <2> QED BY <1>1, <1>3, <1>4, <2>1, FirstOne
<1>7. Len(best) = 1 /\ best[1] = 1 /\ best \in Seq(1 .. Len(blocks)) BY <1>1, <1>6
<1>8. Len(file) = 1 /\ file[1] = 1 /\ file \in Seq(Nat) BY <1>1
<1>9. PICK m : m = [type |-> "headers", hdrs |-> <<>>]
  OBVIOUS
<1>10. m.type = "headers" /\ m.hdrs = <<>> BY <1>9
<1>11. toSpv = <<m>> /\ IsSeq(toSpv) /\ ToSet(toSpv) = {m}
  <2>1. Append(z, m) = <<m>> BY <1>3
  <2> QED BY <1>1, <1>3, <1>9, <2>1, FirstOne
<1>12. ~InBlock BY <1>1 DEF InBlock
<1>13. Path(blocks, best)
  <2>1. \A i \in 1 .. Len(best) - 1 : FALSE BY <1>7
  <2> QED BY <1>7, <2>1 DEF Path, Linked
<1>14. Txs(blocks, 1) = {} BY <1>5, <1>6 DEF Txs
<1>20. BlocksOK
  <2>1. \A b \in 2 .. Len(blocks) : FALSE BY <1>6
  <2>2. \A b \in 1 .. Len(blocks) : IsSeq(blocks[b].txs) BY <1>5, <1>6
  <2>3. Mined(blocks) BY <1>5, <1>6, <2>1, <2>2 DEF Mined
  <2> QED BY <1>1, <1>13, <2>3 DEF BlocksOK
<1>21. MinedOnce BY <1>1, <1>7, <1>14 DEF MinedOnce, Apart
<1>22. NodeTxs BY <1>1, <1>6, <1>14 DEF NodeTxs
<1>23. SendsOK BY <1>1, NothingYet DEF SendsOK, Ours
<1>24. CoinsOK BY <1>1 DEF CoinsOK
<1>25. SlotsOK
  <2>1. IsSeq(txUp) /\ Len(txUp) <= 1 BY <1>1, NothingYet
  <2>2. \A u \in ToSet(txUp) : FALSE BY <1>1, NothingYet
  <2>3. /\ prev \in Nat /\ sync \in Nat /\ syncHeight \in Nat
        /\ StartHeight <= sync /\ StartHeight <= syncHeight
    BY <1>1, <1>2
  <2>4. missed \in BOOLEAN BY <1>1
  <2>5. heightUp = <<>> \/ heightUp = <<syncHeight>> BY <1>1
  <2> QED BY <2>1, <2>2, <2>3, <2>4, <2>5, Zenon DEF SlotsOK
<1>26. FromOK
  <2>1. FromNode(m) BY <1>10, RunNone DEF FromNode
  <2> QED BY <1>11, <2>1 DEF FromOK
<1>27. ToOK BY <1>1, NothingYet DEF ToOK
<1>28. MapOK BY <1>1, FS_EmptySet DEF MapOK
<1>29. IncOK BY <1>1 DEF IncOK
<1>30. Cycle
  <2>1. At(toNode, "getheaders") = {} BY <1>1, AtNone
  <2>2. Single(At(toSpv, "headers")) BY <1>11, AtOne
  <2> QED BY <1>1, <1>12, <2>1, <2>2 DEF Cycle, Asked, Told, Single, Quiet
<1>31. Handler BY <1>1 DEF Handler, Busy, Requesting
<1>32. FileSeq BY <1>6, <1>8 DEF FileSeq
<1>33. QueueOK BY <1>1, <1>12, NothingYet DEF QueueOK
<1>34. Linear
  <2>1. OneChain BY <1>6, <1>7, <1>8 DEF OneChain
  <2>2. \A k \in ToSet(toNode) : FALSE BY <1>1, NothingYet
  <2>3. Next1(<<>>) BY NothingYet DEF Next1
  <2>4. \A k \in ToSet(toSpv) : k.type = "headers" => Next1(k.hdrs) BY <1>10, <1>11, <2>3
  <2>5. sync <= syncHeight BY <1>1, <1>2
  <2>6. InStep BY <1>1, <2>2, <2>4, <2>5 DEF InStep
  <2> QED BY <2>1, <2>6 DEF Linear
<1>35. Chained
  <2>1. Heights BY <1>1 DEF Heights
  <2>2. FileOK(best)
    <3>1. \A i \in 1 .. Len(queue) : FALSE BY <1>1, NothingYet
    <3>2. syncHeight <= HeightOf(file) BY <1>1, <1>2, <1>8 DEF HeightOf
    <3>3. \A i \in 1 .. Len(file) : file[i] = best[i] BY <1>7, <1>8
    <3> QED BY <1>7, <1>8, <1>12, <1>13, <3>1, <3>2, <3>3 DEF FileOK
  <2>3. Counts(best)
    <3>1. \A u \in ToSet(txUp) : FALSE BY <1>1, NothingYet
    <3>2. \A op \in DOMAIN utxos : FALSE BY <1>1
    <3> QED BY <3>1, <3>2 DEF Counts
  <2> QED BY <2>1, <2>2, <2>3 DEF Chained
<1> QED BY <1>20, <1>21, <1>22, <1>23, <1>24, <1>25, <1>26, <1>27, <1>28, <1>29, <1>30, <1>31, <1>32,
     <1>33, <1>34, <1>35 DEF Inv

(* Nothing changes but what the hook is told to look for.                  *)
Otherwise ==
  UNCHANGED <<utxos, stxos, frozen, sends, sync, prev, missed, txUp, heightUp, TxMap, toNode,
              blocks, best, mempool, rejected, reorgs, toSpv, file, syncHeight, queue, wait, okTxids, hh, inc, restarts>>

LEMMA NothingElse == UNCHANGED svars \/ (NewWallit /\ Same) => Otherwise
  BY DEF Otherwise, svars, wallet, node, hook, NewWallit, Same

LEMMA StutterStep ==
  ASSUME Inv, Otherwise
  PROVE  Inv'
<1>1. UNCHANGED <<utxos, stxos, frozen, sends, sync, prev, missed, txUp, heightUp, TxMap, toNode,
                 blocks, best, mempool, rejected, reorgs, toSpv, file, syncHeight, queue, wait, okTxids, hh, inc, restarts>>
  BY DEF Otherwise
<1>2. Growing BY <1>1 DEF Growing
<1>3. Extends(blocks, blocks') BY <1>1, Typed DEF Inv
<1>4. SameAsks BY <1>1, NoNewAsk
<1>5. SameTold BY <1>1, NoNewTold
<1>19. SameBlock BY <1>1, SameInc
<1>20. BlocksOK' BY <1>1, KeepBlocks DEF Inv
<1>21. MinedOnce' BY <1>1, KeepMined DEF Inv
<1>22. NodeTxs' BY <1>1, <1>2, KeepTxs DEF Inv
<1>23. SendsOK' BY <1>1, KeepSends DEF Inv
<1>24. CoinsOK' BY <1>1, KeepCoins DEF Inv
<1>25. SlotsOK' BY <1>1, <1>2, KeepSlots DEF Inv
<1>26. FromOK' BY <1>1, <1>3, KeepFrom DEF Inv
<1>27. ToOK' BY <1>1, <1>2, <1>3, KeepTo DEF Inv
<1>28. MapOK' BY <1>1, <1>2, KeepMap DEF Inv
<1>29. IncOK' BY <1>1, <1>2, KeepInc DEF Inv
<1>30. Cycle' BY <1>1, <1>4, <1>5, <1>19, KeepCycle DEF Inv, SameAsks, SameTold
<1>31. Handler' BY <1>1, <1>3, <1>19, KeepHandler DEF Inv
<1>32. FileSeq' BY <1>1, <1>3, KeepFile DEF Inv
<1>33. QueueOK' BY <1>1, <1>19, KeepQueue DEF Inv
<1>34. Linear' BY <1>1, <1>4, <1>5, KeepLinear DEF Inv, SameAsks, SameTold
<1>35. Chained' BY <1>1, <1>3, <1>19, KeepChained DEF Inv
<1> QED BY <1>20, <1>21, <1>22, <1>23, <1>24, <1>25, <1>26, <1>27, <1>28,
  <1>29, <1>30, <1>31, <1>32, <1>33, <1>34, <1>35 DEF Inv

LEMMA Kept == Inv /\ [SNext]_svars => Inv'
<1> SUFFICES ASSUME Inv, [SNext]_svars PROVE Inv'
  OBVIOUS
<1>1. CASE UNCHANGED svars BY <1>1, NothingElse, StutterStep
<1>2. CASE Env
  <2>1. ASSUME NEW tx \in Payments, NodePayment(tx) PROVE Inv' BY <2>1, PaymentStep
  <2>2. ASSUME NEW txs \in Mineable, NodeMine(txs) PROVE Inv' BY <2>2, MineStep
  <2>3. CASE NodeReorg BY <2>3, ReorgStep
  <2>4. CASE LoseConnection BY <2>4, ClosedStep
  <2> QED BY <1>2, <2>1, <2>2, <2>3, <2>4 DEF Env
<1>3. CASE Restart BY <1>3, RestartStep
<1>4. CASE NodeServe BY <1>4, ServeStep
<1>5. CASE HookStep
  <2>1. CASE IngestHeaders BY <2>1, IngestHeadersStep
  <2>2. CASE MoreHeaders BY <2>2, MoreHeadersStep
  <2>3. CASE HeadersDone BY <2>3, HeadersDoneStep
  <2>4. CASE RequestBlock BY <2>4, RequestBlockStep
  <2>5. CASE EnterWaitState BY <2>5, EnterWaitStep
  <2>6. CASE HeaderHandler BY <2>6, HeaderHandlerStep
  <2>7. CASE InvBlock BY <2>7, InvBlockStep
  <2>8. CASE InvTx BY <2>8, InvTxStep
  <2>9. CASE TxHandler BY <2>9, TxHandlerStep
  <2>10. CASE GetDataHandler BY <2>10, GetDataStep
  <2>11. CASE BlockArrives BY <2>11, BlockArrivesStep
  <2>12. CASE HandUp BY <2>12, HandUpStep
  <2>13. CASE BlockDone BY <2>13, BlockDoneStep
  <2> QED BY <1>5, <2>1, <2>2, <2>3, <2>4, <2>5, <2>6, <2>7, <2>8, <2>9, <2>10, <2>11, <2>12, <2>13
      DEF HookStep
<1>6. CASE WalletStep BY <1>6, WalletTxStep, HeightStep, NothingElse, StutterStep DEF WalletStep
<1>7. CASE User
  <2>1. Same BY <1>7 DEF User
  <2>2. CASE MaybeSend BY <2>1, <2>2, MaybeSendStep
  <2>3. ASSUME NEW i \in DOMAIN sends, ReallySend(sends[i]) PROVE Inv'
    <3>1. sends[i] \in Ours
      <4>1. IsSeq(sends) BY DEF Inv, SendsOK
      <4> QED BY <4>1, Elements DEF Ours
    <3> QED BY <2>1, <2>3, <3>1, ReallySendStep
  <2>4. ASSUME NEW i \in DOMAIN sends, NahDontSend(sends[i]) PROVE Inv'
    BY <2>1, <2>4, NahDontSendStep
  <2> QED BY <1>7, <2>2, <2>3, <2>4 DEF User
<1> QED BY <1>1, <1>2, <1>3, <1>4, <1>5, <1>6, <1>7 DEF SNext

(* At rest the file is the chain of the node, and what the wallet counts   *)
(* is there.                                                               *)
LEMMA NothingImagined == Inv => NoPhantom
<1> SUFFICES ASSUME Inv, AtRest, ~missed, reorgs = 0 \/ restarts = 0, NEW op \in ConfirmedHere
             PROVE  op \in OursInChain /\ utxos[op] = HeightIn(op[1])
  BY DEF NoPhantom
<1>1. PICK c : FileOK(c) /\ Counts(c) BY DEF Inv, Chained, Tame
<1>2. c = best
  <2>1. Len(file) \in Nat /\ 1 <= Len(file) BY DEF Inv, FileSeq
  <2>2. Len(file) \in 1 .. Len(file) /\ ~(Len(file) < Len(file)) BY <2>1
  <2>3. file[Len(file)] = c[Len(file)] /\ Len(c) = Len(file) /\ Path(blocks, c)
    BY <1>1, <2>2 DEF FileOK
  <2>4. best[Len(best)] = c[Len(c)] BY <2>3 DEF AtRest, Last
  <2>5. Mined(blocks) /\ Path(blocks, best) BY DEF Inv, BlocksOK
  <2> QED BY <2>3, <2>4, <2>5, OnePath
<1>3. PICK tx : tx = op[1]
  OBVIOUS
<1>4. PICK h : h = utxos[op]
  OBVIOUS
<1>5. h > 0 /\ h \in Nat /\ op \in Mine(tx) /\ op \notin stxos
  BY <1>3, <1>4 DEF ConfirmedHere, Inv, CoinsOK
<1>6. Placed(best, tx, h)
  <2>1. op \in DOMAIN utxos BY DEF ConfirmedHere
  <2>2. Good(c, tx, h) BY <1>1, <1>3, <1>4, <2>1 DEF Counts
  <2>3. ~Doomed(h) BY DEF AtRest, Doomed
  <2> QED BY <1>2, <1>5, <2>2, <2>3 DEF Good
<1>7. Index(h) \in 1 .. Len(best) /\ tx \in Txs(blocks, best[Index(h)]) BY <1>6 DEF Placed
<1>8. tx \in Confirmed BY <1>7, ConfirmedIs DEF Inv
<1>9. ASSUME NEW t \in Confirmed PROVE op \notin t.ins
  <2>1. PICK i \in 1 .. Len(best) : t \in Txs(blocks, best[i]) BY ConfirmedIs DEF Inv
  <2>2. best[i] \in 1 .. Len(blocks) BY Typed DEF Inv
  <2>3. Booked(t) BY <2>1, <2>2 DEF Inv, NodeTxs
  <2>4. CASE t \in Payments BY <2>4, PaymentAssumption
  <2>5. CASE t.ins \subseteq stxos BY <1>5, <2>5
  <2> QED BY <2>3, <2>4, <2>5 DEF Booked
<1>10. op \in Outpoints(tx) /\ op[1].outs[op[2]] = Me
  <2>1. PICK j \in DOMAIN tx.outs : tx.outs[j] = Me /\ op = <<tx, j>> BY <1>5 DEF Mine
  <2> QED BY <2>1 DEF Outpoints
<1>11. op \in OursInChain
  <2>1. op \in UNION {Outpoints(t) : t \in Confirmed} BY <1>8, <1>10
  <2>2. op \notin UNION {t.ins : t \in Confirmed} BY <1>9
  <2>3. op \in Unspent(Confirmed) BY <2>1, <2>2 DEF Unspent
  <2> QED BY <1>10, <2>3 DEF OursInChain
<1>12. h = HeightIn(tx)
  <2> DEFINE i == CHOOSE i \in DOMAIN best : tx \in ToSet(blocks[best[i]].txs)
  <2>1. DOMAIN best = 1 .. Len(best) BY Typed DEF Inv
  <2>2. \E k \in DOMAIN best : tx \in ToSet(blocks[best[k]].txs) BY <1>7, <2>1 DEF Txs
  <2>3. i \in 1 .. Len(best) /\ tx \in Txs(blocks, best[i]) BY <2>1, <2>2 DEF Txs
  <2>4. HeightIn(tx) = StartHeight - 1 + i BY DEF HeightIn
  <2> HIDE DEF i
  <2>5. Txs(blocks, best[Index(h)]) \cap Txs(blocks, best[i]) # {} BY <1>7, <2>3
  <2>6. Index(h) = i BY <1>7, <2>3, <2>5 DEF Inv, MinedOnce, Apart
  <2>7. StartHeight \in Nat BY Typed DEF Inv
  <2> QED BY <1>5, <2>4, <2>6, <2>7 DEF Index
<1> QED BY <1>3, <1>4, <1>11, <1>12

(* However blocks, headers, transactions and the user's sends interleave,  *)
(* once HeaderHandler, IngestHeaders, GetBlocks and the wallet's handlers  *)
(* have come to rest, every coin the wallet counts as confirmed is in the  *)
(* node's best chain, unspent, at the height it has in the wallet: unless  *)
(* a block was taken back and lit restarted, or a height overtook a        *)
(* transaction on its own channel, or NewWallit came too late with the     *)
(* addresses.                                                              *)
THEOREM CountsWhatIsMined == SSpec => []NoPhantom
<1>1. SSpec => []Inv BY Holds, Kept, PTL DEF SSpec
<1> QED BY <1>1, NothingImagined, PTL

-----------------------------------------------------------------------------
(* What more holds without a reorganisation.                               *)

(* Transactions of the user: each for one coin, and told apart by number.  *)
(* A coin that is spent is spent by one of them.                           *)
Names ==
  /\ \A i \in 1 .. Len(sends) : sends[i].n = i
  /\ \A tx \in Ours : \E op \in tx.ins : tx.ins = {op}
  /\ \A op \in DOMAIN frozen : frozen[op] \in Ours /\ frozen[op].ins = {op}
  /\ \A op \in stxos : \E s \in Ours : s.ins = {op}

(* What waits for the user's word has not left.                            *)
Unsent(tx) ==
  /\ tx \notin mempool
  /\ \A b \in 1 .. Len(blocks) : tx \notin Txs(blocks, b)
  /\ \A t \in TxMap : t.tx # tx
  /\ \A m \in ToSet(toNode) : m.type = "tx" => m.tx # tx
Fresh ==
  /\ \A t \in TxMap : t.tx \in Ours
  /\ \A m \in ToSet(toNode) : m.type = "tx" => m.tx \in Ours
  /\ \A op \in DOMAIN frozen : Unsent(frozen[op])

(* Blocks are asked for, and come, one height after the other.             *)
Ahead == IF InBlock THEN syncHeight + 1 ELSE syncHeight
Punctual == reorgs = 0 =>
  /\ InBlock => inc[1].height = syncHeight + 1
  /\ \A i \in 1 .. Len(queue) : queue[i].height = Ahead + i
  /\ Requesting => hh[1].req = Ahead + Len(queue)
  /\ prev <= syncHeight
  /\ wait => syncHeight = HeightOf(file)

(* Of two messages the first: blocks in their order, and a transaction     *)
(* that is announced, or asked for, before the block it is in.             *)
Before(bs, m, k) ==
  /\ m.type = "block" /\ k.type = "block" => m.id < k.id
  /\ m.type = "getblock" /\ k.type = "getblock" => m.id < k.id
  /\ m.type = "block" /\ k.type = "tx" => k.tx \notin Txs(bs, m.id)
  /\ m.type = "getblock" /\ k.type = "gettx" => k.tx \notin Txs(bs, m.id)
  /\ m.type = "headers" /\ k.type = "invtx" => \A b \in ToSet(m.hdrs) : k.tx \notin Txs(bs, b)
Ordered(bs, q) == \A i \in 1 .. Len(q) : \A j \in 1 .. Len(q) : i < j => Before(bs, q[i], q[j])
Across(bs, m, k) ==
  m.type = "block" =>
    /\ k.type = "getblock" => m.id < k.id
    /\ k.type = "gettx" => k.tx \notin Txs(bs, m.id)

Line(bs, p, q) ==
  /\ Ordered(bs, p) /\ Ordered(bs, q)
  /\ \A m \in ToSet(p) : m.type # "getblock" /\ \A k \in ToSet(q) : Across(bs, m, k)
  /\ \A k \in ToSet(q) : k.type \notin {"block", "headers"}
Lined == reorgs = 0 => Line(blocks, toSpv, toNode)

(* These blocks are the ones in the queue.                                 *)
Coming(p, q) ==
  {m.id : m \in {x \in ToSet(p) : x.type = "block"}} \cup {k.id : k \in {x \in ToSet(q) : x.type = "getblock"}}
Wanted(q) == {q[i].id : i \in 1 .. Len(q)}
Expected == reorgs = 0 => Coming(toSpv, toNode) = Wanted(queue)

(* A transaction seen on its own is seen before its block.                 *)
High(b) == StartHeight - 1 + b
Fetched(b) == High(b) <= syncHeight \/ (InBlock /\ inc[1].height = High(b))
Sighted(tx) == \A b \in 1 .. Len(blocks) : tx \in Txs(blocks, b) => ~Fetched(b)
Ingesting == hh # Idle /\ hh[1].pc = "ingest"
News(tx) ==
  \A b \in 1 .. Len(blocks) : tx \in Txs(blocks, b) =>
    b > Len(file) /\ (Ingesting => b \notin ToSet(hh[1].hdrs))
Rising(tx) ==
  \A b \in 1 .. Len(blocks) : tx \in Txs(blocks, b) =>
    syncHeight < High(b) /\ (InBlock /\ inc[1].height = High(b) => tx \in ToSet(inc[1].txs))
Early == reorgs = 0 =>
  /\ \A m \in ToSet(toSpv) : (m.type = "invtx" => News(m.tx)) /\ (m.type = "tx" => Sighted(m.tx))
  /\ \A k \in ToSet(toNode) : k.type = "gettx" => Sighted(k.tx)
  /\ inc # Idle /\ ~InBlock => \A tx \in ToSet(inc[1].txs) : Sighted(tx)
  /\ ~missed => \A u \in ToSet(txUp) : u.height = 0 /\ Mine(u.tx) # {} => Rising(u.tx)

(* All that is ours in the blocks so far is counted, or on its way up.     *)
Stored(tx, h) == \A op \in Mine(tx) : op \in stxos \/ (op \in DOMAIN utxos /\ utxos[op] = h)
HandedUp(tx, h) == (\E u \in ToSet(txUp) : u.tx = tx /\ u.height = h) \/ Stored(tx, h)
Done(tx, b) == High(b) <= syncHeight \/ (InBlock /\ inc[1].height = High(b) /\ tx \notin ToSet(inc[1].txs))
Complete == reorgs = 0 /\ ~missed =>
  /\ \A b \in 1 .. Len(blocks) : \A tx \in Txs(blocks, b) : Done(tx, b) => HandedUp(tx, High(b))
  /\ heightUp = <<>> => sync = syncHeight

More == Names /\ Fresh /\ Punctual /\ Lined /\ Expected /\ Early /\ Complete

-----------------------------------------------------------------------------
(* Messages in their order.                                                *)

LEMMA OrderedAdded ==
  ASSUME NEW bs, NEW q, IsSeq(q), Ordered(bs, q), NEW m, \A k \in ToSet(q) : Before(bs, k, m)
  PROVE  Ordered(bs, Append(q, m))
<1> DEFINE a == Append(q, m)
<1>1. /\ Len(q) \in Nat /\ Len(a) = Len(q) + 1 /\ a[Len(q) + 1] = m
      /\ \A i \in 1 .. Len(q) : a[i] = q[i] /\ q[i] \in ToSet(q)
  BY Grown, Elements
<1> HIDE DEF a
<1>2. ASSUME NEW i \in 1 .. Len(a), NEW j \in 1 .. Len(a), i < j PROVE Before(bs, a[i], a[j])
  <2>1. i \in 1 .. Len(q) BY <1>1, <1>2
  <2>2. CASE j \in 1 .. Len(q)
    <3>1. Before(bs, q[i], q[j]) BY <1>2, <2>1, <2>2 DEF Ordered
    <3> QED BY <1>1, <2>1, <2>2, <3>1
  <2>3. CASE j = Len(q) + 1
    <3>1. a[j] = m /\ a[i] = q[i] BY <1>1, <2>1, <2>3
    <3> QED BY <1>1, <2>1, <3>1
  <2> QED BY <1>1, <2>2, <2>3
<1>3. Ordered(bs, a) BY <1>2 DEF Ordered
<1> QED BY <1>3 DEF a

LEMMA OrderedTail ==
  ASSUME NEW bs, NEW q, IsSeq(q), q # <<>>, Ordered(bs, q)
  PROVE  Ordered(bs, Tail(q)) /\ \A k \in ToSet(Tail(q)) : Before(bs, Head(q), k)
<1> DEFINE t == Tail(q)
<1>1. /\ Len(t) = Len(q) - 1 /\ Len(q) \in Nat /\ Len(q) >= 1 /\ Head(q) = q[1]
      /\ \A i \in 1 .. Len(t) : t[i] = q[i + 1]
  BY HeadTailProperties DEF IsSeq
<1>2. IsSeq(t) BY Shorter
<1> HIDE DEF t
<1>3. ASSUME NEW i \in 1 .. Len(t), NEW j \in 1 .. Len(t), i < j PROVE Before(bs, t[i], t[j])
  <2>1. i + 1 \in 1 .. Len(q) /\ j + 1 \in 1 .. Len(q) /\ i + 1 < j + 1 BY <1>1, <1>3
  <2>2. Before(bs, q[i + 1], q[j + 1]) BY <2>1 DEF Ordered
  <2> QED BY <1>1, <2>2
<1>4. ASSUME NEW k \in ToSet(t) PROVE Before(bs, q[1], k)
  <2>1. PICK i \in 1 .. Len(t) : t[i] = k BY <1>2, Elements
  <2>2. 1 \in 1 .. Len(q) /\ i + 1 \in 1 .. Len(q) /\ 1 < i + 1 BY <1>1
  <2>3. Before(bs, q[1], q[i + 1]) BY <2>2 DEF Ordered
  <2> QED BY <1>1, <2>1, <2>3
<1>5. Ordered(bs, t) BY <1>3 DEF Ordered
<1> QED BY <1>1, <1>4, <1>5 DEF t

LEMMA FrontAndRest ==
  ASSUME NEW q, IsSeq(q), q # <<>>
  PROVE  ToSet(q) = {Head(q)} \cup ToSet(Tail(q))
<1> DEFINE t == Tail(q)
<1>1. /\ Len(t) = Len(q) - 1 /\ Len(q) \in Nat /\ Len(q) >= 1 /\ Head(q) = q[1]
      /\ \A i \in 1 .. Len(t) : t[i] = q[i + 1]
  BY HeadTailProperties DEF IsSeq
<1>2. IsSeq(t) /\ ToSet(t) \subseteq ToSet(q) /\ Head(q) \in ToSet(q) BY Shorter
<1> HIDE DEF t
<1>3. ASSUME NEW k \in ToSet(q) PROVE k = Head(q) \/ k \in ToSet(t)
  <2>1. PICK i \in 1 .. Len(q) : q[i] = k BY Elements
  <2>2. CASE i = 1 BY <1>1, <2>1, <2>2
  <2>3. CASE i # 1
    <3>1. i - 1 \in 1 .. Len(t) /\ (i - 1) + 1 = i BY <1>1, <2>3
    <3>2. t[i - 1] = k BY <1>1, <2>1, <3>1
    <3> QED BY <1>2, <3>1, <3>2, Elements
  <2> QED BY <2>2, <2>3
<1> QED BY <1>2, <1>3 DEF t

LEMMA OrderedJoined ==
  ASSUME NEW bs, NEW q, IsSeq(q), Ordered(bs, q), NEW t, IsSeq(t),
         \A m \in ToSet(t) : m.type = "tx", \A k \in ToSet(q) : k.type # "block"
  PROVE  Ordered(bs, q \o t)
<1> DEFINE u == q \o t
           T == ToSet(q) \cup ToSet(t)
<1>1. q \in Seq(T) /\ t \in Seq(T) BY Larger DEF IsSeq
<1>2. /\ u \in Seq(T) /\ Len(u) = Len(q) + Len(t) /\ Len(q) \in Nat /\ Len(t) \in Nat
      /\ \A i \in 1 .. Len(q) + Len(t) : u[i] = IF i <= Len(q) THEN q[i] ELSE t[i - Len(q)]
  BY <1>1, ConcatProperties
<1> HIDE DEF u
<1>3. ASSUME NEW i \in 1 .. Len(u), ~(i <= Len(q)) PROVE u[i].type = "tx"
  <2>1. i - Len(q) \in 1 .. Len(t) /\ u[i] = t[i - Len(q)] BY <1>2, <1>3
  <2> QED BY <2>1, Elements
<1>4. ASSUME NEW i \in 1 .. Len(u), i <= Len(q) PROVE i \in 1 .. Len(q) /\ u[i] = q[i] /\ u[i].type # "block"
  <2>1. i \in 1 .. Len(q) /\ u[i] = q[i] BY <1>2, <1>4
  <2> QED BY <2>1, Elements
<1>5. ASSUME NEW i \in 1 .. Len(u), NEW j \in 1 .. Len(u), i < j PROVE Before(bs, u[i], u[j])
  <2>1. CASE j <= Len(q)
    <3>1. i <= Len(q) BY <1>2, <1>5, <2>1
    <3>2. i \in 1 .. Len(q) /\ j \in 1 .. Len(q) /\ u[i] = q[i] /\ u[j] = q[j] BY <1>4, <2>1, <3>1
    <3>3. Before(bs, q[i], q[j]) BY <1>5, <3>2 DEF Ordered
    <3> QED BY <3>2, <3>3
  <2>2. CASE ~(j <= Len(q))
    <3>1. u[j].type = "tx" BY <1>3, <2>2
    <3>2. u[i].type # "block"
      <4>1. CASE i <= Len(q) BY <1>4, <4>1
      <4>2. CASE ~(i <= Len(q)) BY <1>3, <4>2
      <4> QED BY <4>1, <4>2
    <3> QED BY <3>1, <3>2 DEF Before
  <2> QED BY <2>1, <2>2
<1>6. Ordered(bs, u) BY <1>5 DEF Ordered
<1> QED BY <1>6 DEF u

LEMMA OrderedFew == \A bs : Ordered(bs, <<>>) /\ \A m : Ordered(bs, <<m>>)
  BY DEF Ordered

-----------------------------------------------------------------------------
(* Without a reorganisation a block's number gives its height.             *)

LEMMA Flat ==
  ASSUME Inv, reorgs = 0
  PROVE  /\ \A i \in 1 .. Len(best) : best[i] = i
         /\ Len(best) = Len(blocks) /\ Len(file) <= Len(blocks)
         /\ \A i \in 1 .. Len(file) : file[i] = i
         /\ Len(file) \in Nat /\ Len(blocks) \in Nat /\ StartHeight \in Nat /\ StartHeight >= 1
         /\ HeightOf(file) = High(Len(file)) /\ syncHeight \in Nat /\ syncHeight <= HeightOf(file)
<1>1. OneChain BY DEF Inv, Linear
<1>2. Tame BY DEF Tame
<1>3. PICK c : FileOK(c) BY <1>2 DEF Inv, Chained
<1>4. syncHeight <= HeightOf(file) BY <1>3 DEF FileOK
<1>5. Len(file) \in Nat BY DEF Inv, FileSeq
<1>6. Len(blocks) \in Nat BY Elements DEF Inv, BlocksOK, Mined
<1>7. StartHeight \in Nat /\ StartHeight >= 1 BY SpvAssumption
<1>8. syncHeight \in Nat BY DEF Inv, SlotsOK
<1> QED BY <1>1, <1>4, <1>5, <1>6, <1>7, <1>8 DEF OneChain, HeightOf, High

LEMMA FlatQueue ==
  ASSUME Inv, reorgs = 0
  PROVE  /\ \A i \in 1 .. Len(queue) :
              /\ queue[i].height \in Nat /\ queue[i].id \in 1 .. Len(file)
              /\ High(queue[i].id) = queue[i].height
         /\ InBlock => \E b \in 1 .. Len(file) :
              inc[1].height = High(b) /\ ToSet(inc[1].txs) \subseteq Txs(blocks, b)
<1>1. Tame BY DEF Tame
<1>2. PICK c : FileOK(c) BY <1>1 DEF Inv, Chained
<1>3. Len(file) \in Nat /\ StartHeight \in Nat /\ syncHeight \in Nat /\ HeightOf(file) = StartHeight - 1 + Len(file)
  BY Flat DEF High
<1>4. \A i \in 1 .. Len(file) : c[i] = i
  <2> SUFFICES ASSUME NEW i \in 1 .. Len(file) PROVE c[i] = i
    OBVIOUS
  <2>1. file[i] = i BY Flat
  <2>2. file[i] = c[i] \/ file[i] = Hole BY <1>2 DEF FileOK
  <2>3. i # Hole BY DEF Hole
  <2> QED BY <2>1, <2>2, <2>3
<1>5. StartHeight <= syncHeight BY DEF Inv, SlotsOK
<1>6. ASSUME NEW h \in Nat, syncHeight < h, h <= HeightOf(file)
      PROVE  Index(h) \in 1 .. Len(file) /\ High(Index(h)) = h /\ c[Index(h)] = Index(h)
  <2>1. Index(h) \in 1 .. Len(file) /\ High(Index(h)) = h BY <1>3, <1>5, <1>6 DEF Index, High
  <2> QED BY <1>4, <2>1
<1>7. ASSUME NEW i \in 1 .. Len(queue)
      PROVE  /\ queue[i].height \in Nat /\ queue[i].id \in 1 .. Len(file)
             /\ High(queue[i].id) = queue[i].height
  <2>1. queue[i].height \in Nat /\ syncHeight < queue[i].height /\ queue[i].height <= HeightOf(file)
    BY DEF Inv, QueueOK
  <2>2. queue[i].id = c[Index(queue[i].height)] BY <1>2 DEF FileOK
  <2> QED BY <1>6, <2>1, <2>2
<1>8. ASSUME InBlock
      PROVE  \E b \in 1 .. Len(file) : inc[1].height = High(b) /\ ToSet(inc[1].txs) \subseteq Txs(blocks, b)
  <2>1. inc[1].height \in Nat BY <1>8 DEF Inv, IncOK, InBlock
  <2>2. syncHeight < inc[1].height /\ inc[1].height <= HeightOf(file) BY <1>8 DEF Inv, QueueOK
  <2>3. ToSet(inc[1].txs) \subseteq Txs(blocks, c[Index(inc[1].height)]) BY <1>2, <1>8 DEF FileOK
  <2> QED BY <1>6, <2>1, <2>2, <2>3
<1> QED BY <1>7, <1>8

LEMMA QueuedIs ==
  ASSUME Inv, reorgs = 0, NEW id \in Wanted(queue)
  PROVE  id \in 1 .. Len(file) /\ syncHeight < High(id) /\ (InBlock => inc[1].height < High(id))
<1>1. PICK i \in 1 .. Len(queue) : queue[i].id = id BY DEF Wanted
<1>2. queue[i].id \in 1 .. Len(file) /\ High(queue[i].id) = queue[i].height BY FlatQueue
<1>3. syncHeight < queue[i].height /\ (InBlock => inc[1].height < queue[i].height) BY DEF Inv, QueueOK
<1> QED BY <1>1, <1>2, <1>3

-----------------------------------------------------------------------------
(* Messages that come and go, in line.                                     *)

LEMMA LineSpvAdded ==
  ASSUME NEW bs, NEW p, IsSeq(p), NEW q, Line(bs, p, q), NEW m, m.type # "getblock",
         \A k \in ToSet(p) : Before(bs, k, m), \A k \in ToSet(q) : Across(bs, m, k)
  PROVE  Line(bs, Append(p, m), q)
<1>1. ToSet(Append(p, m)) = ToSet(p) \cup {m} BY Grown
<1>2. Ordered(bs, Append(p, m)) BY OrderedAdded DEF Line
<1> QED BY <1>1, <1>2 DEF Line

LEMMA LineNodeAdded ==
  ASSUME NEW bs, NEW p, NEW q, IsSeq(q), Line(bs, p, q), NEW k, k.type \notin {"block", "headers"},
         \A x \in ToSet(q) : Before(bs, x, k), \A m \in ToSet(p) : Across(bs, m, k)
  PROVE  Line(bs, p, Append(q, k))
<1>1. ToSet(Append(q, k)) = ToSet(q) \cup {k} BY Grown
<1>2. Ordered(bs, Append(q, k)) BY OrderedAdded DEF Line
<1> QED BY <1>1, <1>2 DEF Line

LEMMA LineSpvTaken ==
  ASSUME NEW bs, NEW p, IsSeq(p), p # <<>>, NEW q, Line(bs, p, q)
  PROVE  Line(bs, Tail(p), q)
<1>1. ToSet(Tail(p)) \subseteq ToSet(p) BY Shorter
<1>2. Ordered(bs, Tail(p)) BY OrderedTail DEF Line
<1> QED BY <1>1, <1>2 DEF Line

LEMMA LineNodeTaken ==
  ASSUME NEW bs, NEW p, NEW q, IsSeq(q), q # <<>>, Line(bs, p, q)
  PROVE  Line(bs, p, Tail(q))
<1>1. ToSet(Tail(q)) \subseteq ToSet(q) BY Shorter
<1>2. Ordered(bs, Tail(q)) BY OrderedTail DEF Line
<1> QED BY <1>1, <1>2 DEF Line

(* Messages of no account for the order.                                   *)
Idler(m) == m.type \notin {"block", "getblock", "tx", "gettx", "headers", "invtx"}

LEMMA IdlerBefore ==
  ASSUME NEW bs, NEW m, NEW k, Idler(m) \/ m.type = "headers"
  PROVE  Before(bs, k, m) /\ Across(bs, m, k) /\ Across(bs, k, m)
  BY DEF Idler, Before, Across

LEMMA ComingSpv ==
  ASSUME NEW p, IsSeq(p), NEW q, NEW m
  PROVE  Coming(Append(p, m), q) = Coming(p, q) \cup (IF m.type = "block" THEN {m.id} ELSE {})
<1>1. ToSet(Append(p, m)) = ToSet(p) \cup {m} BY Grown
<1> QED BY <1>1 DEF Coming

LEMMA ComingNode ==
  ASSUME NEW p, NEW q, IsSeq(q), NEW m
  PROVE  Coming(p, Append(q, m)) = Coming(p, q) \cup (IF m.type = "getblock" THEN {m.id} ELSE {})
<1>1. ToSet(Append(q, m)) = ToSet(q) \cup {m} BY Grown
<1> QED BY <1>1 DEF Coming

LEMMA ComingOther ==
  ASSUME NEW p, IsSeq(p), NEW q, NEW m, m.type # "block"
  PROVE  Coming(Append(p, m), q) = Coming(p, q)
<1>1. ToSet(Append(p, m)) = ToSet(p) \cup {m} BY Grown
<1>2. {x \in ToSet(Append(p, m)) : x.type = "block"} = {x \in ToSet(p) : x.type = "block"} BY <1>1
<1> QED BY <1>2 DEF Coming

LEMMA ComingSpvTaken ==
  ASSUME NEW p, IsSeq(p), p # <<>>, NEW q
  PROVE  Coming(p, q) = Coming(Tail(p), q) \cup (IF Head(p).type = "block" THEN {Head(p).id} ELSE {})
<1>1. ToSet(p) = {Head(p)} \cup ToSet(Tail(p)) BY FrontAndRest
<1> QED BY <1>1 DEF Coming

LEMMA ComingNodeTaken ==
  ASSUME NEW p, NEW q, IsSeq(q), q # <<>>
  PROVE  Coming(p, q) = Coming(p, Tail(q)) \cup (IF Head(q).type = "getblock" THEN {Head(q).id} ELSE {})
<1>1. ToSet(q) = {Head(q)} \cup ToSet(Tail(q)) BY FrontAndRest
<1> QED BY <1>1 DEF Coming

-----------------------------------------------------------------------------
(* What stays of More, if what it speaks of stays.                         *)

LEMMA KeepNames == ASSUME Names, UNCHANGED <<sends, frozen, stxos>> PROVE Names'
  BY DEF Names, Ours

LEMMA KeepFresh ==
  ASSUME Fresh, UNCHANGED <<sends, frozen, TxMap, mempool, blocks>>,
         \A m \in ToSet(toNode') : m.type = "tx" => m \in ToSet(toNode)
  PROVE  Fresh'
<1>1. \A tx : Unsent(tx) => Unsent(tx)' BY DEF Unsent, Txs
<1> QED BY <1>1 DEF Fresh, Ours

LEMMA KeepPunctual ==
  ASSUME Punctual, UNCHANGED <<reorgs, syncHeight, queue, prev, wait, file>>, SameBlock,
         Requesting' => Requesting /\ UNCHANGED hh
  PROVE  Punctual'
<1>1. Ahead' = Ahead BY DEF Ahead, SameBlock
<1> QED BY <1>1 DEF Punctual, SameBlock, HeightOf

LEMMA KeepLined == ASSUME Lined, UNCHANGED <<reorgs, blocks, toSpv, toNode>> PROVE Lined'
  BY DEF Lined

LEMMA KeepExpected == ASSUME Expected, UNCHANGED <<reorgs, queue, toSpv, toNode>> PROVE Expected'
  BY DEF Expected

NoNewSights ==
  /\ \A m \in ToSet(toSpv') : m.type \in {"invtx", "tx"} => m \in ToSet(toSpv)
  /\ \A k \in ToSet(toNode') : k.type = "gettx" => k \in ToSet(toNode)

LEMMA KeepEarly ==
  ASSUME Early, UNCHANGED <<reorgs, blocks, inc, txUp, syncHeight, file>>, NoNewSights, missed => missed',
         Ingesting' => Ingesting /\ UNCHANGED hh
  PROVE  Early'
<1>1. \A tx : News(tx) => News(tx)' BY DEF News, Txs
<1>2. InBlock' = InBlock BY DEF InBlock
<1>3. \A b : Fetched(b)' = Fetched(b) BY <1>2 DEF Fetched, High
<1>4. \A tx : Sighted(tx) => Sighted(tx)' BY <1>3 DEF Sighted, Txs
<1>5. \A tx : Rising(tx) => Rising(tx)' BY <1>2 DEF Rising, Txs, High
<1> QED BY <1>1, <1>2, <1>4, <1>5 DEF Early, NoNewSights

LEMMA KeepComplete ==
  ASSUME Complete, UNCHANGED <<reorgs, missed, blocks, syncHeight, txUp, stxos, utxos, heightUp, sync>>,
         InBlock' = InBlock, InBlock => UNCHANGED inc
  PROVE  Complete'
<1>1. \A tx, b : Done(tx, b)' => Done(tx, b) BY DEF Done, High
<1>2. \A tx, h : HandedUp(tx, h) => HandedUp(tx, h)' BY DEF HandedUp, Stored
<1> QED BY <1>1, <1>2 DEF Complete, Txs, High

-----------------------------------------------------------------------------
(* The steps of the node, without a reorganisation.                        *)

LEMMA NotOurs ==
  ASSUME Names, NEW tx \in Payments
  PROVE  /\ tx \notin Ours /\ \A op \in DOMAIN frozen : frozen[op] # tx
  BY PaymentAssumption DEF Names

LEMMA NowhereYet ==
  ASSUME Inv, reorgs = 0, NEW tx, tx \notin Confirmed
  PROVE  \A b \in 1 .. Len(blocks) : tx \notin Txs(blocks, b)
<1>1. \A i \in 1 .. Len(best) : best[i] = i /\ Len(best) = Len(blocks) BY Flat
<1>2. \A i \in 1 .. Len(best) : tx \notin Txs(blocks, best[i]) BY ConfirmedIs DEF Inv
<1> QED BY <1>1, <1>2, Flat

LEMMA RunIds == ASSUME NEW bs, NEW hs, Run(bs, hs), Len(bs) \in Nat PROVE ToSet(hs) \subseteq 2 .. Len(bs) /\ ToSet(hs) \subseteq 1 .. Len(bs)
<1>1. hs \in Seq(2 .. Len(bs)) BY DEF Run
<1>2. DOMAIN hs = 1 .. Len(hs) /\ \A i \in 1 .. Len(hs) : hs[i] \in 2 .. Len(bs) BY <1>1
<1>3. ToSet(hs) \subseteq 2 .. Len(bs) BY <1>2 DEF ToSet
<1> QED BY <1>3

LEMMA SameViews ==
  ASSUME UNCHANGED <<blocks, inc, syncHeight, file, hh>>
  PROVE  \A t : (News(t) => News(t)') /\ (Sighted(t) => Sighted(t)') /\ (Rising(t) => Rising(t)')
<1>1. InBlock' = InBlock /\ Ingesting' = Ingesting BY DEF InBlock, Ingesting
<1>2. \A b : Fetched(b)' = Fetched(b) BY <1>1 DEF Fetched, High
<1> QED BY <1>1, <1>2 DEF News, Sighted, Rising, Txs, High

LEMMA MorePayment ==
  ASSUME Inv, Inv', More, NEW tx \in Payments, NodePayment(tx)
  PROVE  More'
<1>1. UNCHANGED <<utxos, stxos, frozen, sends, sync, prev, missed, txUp, heightUp, tracked, TxMap, toNode, blocks, best, rejected, reorgs, file, syncHeight, queue, wait, okTxids, hh, inc, restarts>>
  BY DEF NodePayment, wallet, hook
<1>2. SameBlock BY <1>1, SameInc
<1>4. PICK m : /\ m.type = "invtx" /\ m.tx = tx /\ toSpv' = Append(toSpv, m)
               /\ mempool' = mempool \cup {tx} /\ tx \notin Confirmed
  <2>1. PICK m : m = [type |-> "invtx", tx |-> tx]
    OBVIOUS
  <2>2. m.type = "invtx" /\ m.tx = tx BY <2>1
  <2> QED BY <2>1, <2>2 DEF NodePayment, Tell
<1>20. Names' BY <1>1, KeepNames DEF More
<1>21. Fresh'
  <2>1. \A op \in DOMAIN frozen : frozen[op] # tx BY NotOurs DEF More
  <2>2. mempool' = mempool \cup {tx} BY <1>4
  <2>3. \A op \in DOMAIN frozen : Unsent(frozen[op]) => Unsent(frozen[op])' BY <1>1, <2>1, <2>2 DEF Unsent, Txs
  <2> QED BY <1>1, <2>3 DEF More, Fresh, Ours
<1>22. Punctual' BY <1>1, <1>2, KeepPunctual DEF More, Requesting
<1>23. Lined'
  <2> SUFFICES ASSUME reorgs = 0 PROVE Line(blocks, toSpv', toNode)
    BY <1>1 DEF Lined
  <2>1. Line(blocks, toSpv, toNode) BY DEF More, Lined
  <2>2. \A b \in 1 .. Len(blocks) : tx \notin Txs(blocks, b) BY <1>4, NowhereYet
  <2>3. ASSUME NEW k \in ToSet(toSpv) PROVE Before(blocks, k, m)
    <3>1. k.type = "headers" => ToSet(k.hdrs) \subseteq 1 .. Len(blocks)
      <4> SUFFICES ASSUME k.type = "headers" PROVE ToSet(k.hdrs) \subseteq 1 .. Len(blocks)
        OBVIOUS
      <4>1. Run(blocks, k.hdrs) BY DEF Inv, FromOK, FromNode
      <4> QED BY <4>1, RunIds
    <3> QED BY <1>4, <2>2, <3>1 DEF Before
  <2>4. \A k \in ToSet(toNode) : Across(blocks, m, k) BY <1>4 DEF Across
  <2>5. IsSeq(toSpv) /\ m.type # "getblock" BY <1>4 DEF Inv, FromOK
  <2> QED BY <1>4, <2>1, <2>3, <2>4, <2>5, LineSpvAdded
<1>24. Expected'
  <2>1. Coming(toSpv', toNode) = Coming(toSpv, toNode)
    <3>1. IsSeq(toSpv) BY DEF Inv, FromOK
    <3>2. m.type # "block" /\ toSpv' = Append(toSpv, m) BY <1>4
    <3> QED BY <3>1, <3>2, ComingOther
  <2> QED BY <1>1, <2>1 DEF More, Expected
<1>25. Early'
  <2> SUFFICES ASSUME reorgs = 0 PROVE Early'
    BY <1>1 DEF Early
  <2>1. \A b \in 1 .. Len(blocks) : tx \notin Txs(blocks, b) BY <1>4, NowhereYet
  <2>2. News(tx) BY <2>1 DEF News
  <2>3. \A t : (News(t) => News(t)') /\ (Sighted(t) => Sighted(t)') /\ (Rising(t) => Rising(t)')
    BY <1>1, SameViews
  <2>4. ToSet(toSpv') = ToSet(toSpv) \cup {m}
    <3>1. IsSeq(toSpv) BY DEF Inv, FromOK
    <3> QED BY <1>4, <3>1, Grown
  <2>5. \A k \in ToSet(toSpv') : (k.type = "invtx" => News(k.tx)') /\ (k.type = "tx" => Sighted(k.tx)')
    BY <1>4, <2>2, <2>3, <2>4 DEF More, Early
  <2> QED BY <1>1, <2>3, <2>5 DEF More, Early, InBlock
<1>26. Complete' BY <1>1, KeepComplete DEF More, InBlock
<1> QED BY <1>20, <1>21, <1>22, <1>23, <1>24, <1>25, <1>26 DEF More

LEMMA MoreClosed ==
  ASSUME Inv, Inv', More, LoseConnection
  PROVE  More'
<1>1. UNCHANGED <<utxos, stxos, frozen, sends, sync, prev, missed, txUp, heightUp, tracked, TxMap, toNode, blocks, best, mempool, rejected, reorgs, file, syncHeight, queue, wait, okTxids, hh, inc, restarts>>
  BY DEF LoseConnection, wallet, node, hook
<1>2. SameBlock BY <1>1, SameInc
<1>4. PICK m : m.type = "closed" /\ toSpv' = Append(toSpv, m) BY Closing
<1>5. /\ IsSeq(toSpv)
      /\ m.type \notin {"headers", "block", "getblock", "invtx", "tx", "gettx"}
  BY <1>4 DEF Inv, FromOK
<1>3. NoNewSights
  <2>1. ToSet(toSpv') = ToSet(toSpv) \cup {m} BY <1>4, <1>5, Grown
  <2> QED BY <1>1, <1>5, <2>1 DEF NoNewSights
<1>20. Names' BY <1>1, KeepNames DEF More
<1>21. Fresh' BY <1>1, KeepFresh DEF More
<1>22. Punctual' BY <1>1, <1>2, KeepPunctual DEF More, Requesting
<1>23. Lined'
  <2> SUFFICES ASSUME reorgs = 0 PROVE Line(blocks, toSpv', toNode)
    BY <1>1 DEF Lined
  <2>1. Line(blocks, toSpv, toNode) BY DEF More, Lined
  <2>2. \A k \in ToSet(toSpv) : Before(blocks, k, m) BY <1>5 DEF Before
  <2>3. \A k \in ToSet(toNode) : Across(blocks, m, k) BY <1>5 DEF Across
  <2> QED BY <1>4, <1>5, <2>1, <2>2, <2>3, LineSpvAdded
<1>24. Expected'
  <2>1. Coming(toSpv', toNode) = Coming(toSpv, toNode) BY <1>4, <1>5, ComingOther
  <2> QED BY <1>1, <2>1 DEF More, Expected
<1>25. Early' BY <1>1, <1>3, KeepEarly DEF More, Ingesting
<1>26. Complete' BY <1>1, KeepComplete DEF More, InBlock
<1> QED BY <1>20, <1>21, <1>22, <1>23, <1>24, <1>25, <1>26 DEF More

LEMMA LineBlocks ==
  ASSUME NEW bs, NEW new, Extends(bs, new), NEW p, IsSeq(p), NEW q, IsSeq(q), Line(bs, p, q),
         \A m \in ToSet(p) : m.type = "block" => m.id \in 1 .. Len(bs),
         \A m \in ToSet(p) : m.type = "headers" => ToSet(m.hdrs) \subseteq 1 .. Len(bs),
         \A k \in ToSet(q) : k.type = "getblock" => k.id \in 1 .. Len(bs)
  PROVE  Line(new, p, q)
<1>1. ASSUME NEW b \in 1 .. Len(bs) PROVE Txs(new, b) = Txs(bs, b) BY ExtendsTxs
<1>2. ASSUME NEW m \in ToSet(p), NEW k, Before(bs, m, k) PROVE Before(new, m, k)
  <2>1. m.type # "getblock" BY DEF Line
  <2>2. m.type = "block" => Txs(new, m.id) = Txs(bs, m.id) BY <1>1
  <2>3. m.type = "headers" => \A b \in ToSet(m.hdrs) : Txs(new, b) = Txs(bs, b) BY <1>1
  <2> QED BY <1>2, <2>1, <2>2, <2>3 DEF Before
<1>3. ASSUME NEW m \in ToSet(q), NEW k, Before(bs, m, k) PROVE Before(new, m, k)
  <2>1. m.type # "block" /\ m.type # "headers" BY DEF Line
  <2>2. m.type = "getblock" => Txs(new, m.id) = Txs(bs, m.id) BY <1>1
  <2> QED BY <1>3, <2>1, <2>2 DEF Before
<1>4. ASSUME NEW m \in ToSet(p), NEW k, Across(bs, m, k) PROVE Across(new, m, k)
  <2>1. m.type = "block" => Txs(new, m.id) = Txs(bs, m.id) BY <1>1
  <2> QED BY <1>4, <2>1 DEF Across
<1>5. Ordered(new, p)
  <2>1. \A i \in 1 .. Len(p) : p[i] \in ToSet(p) BY Elements
  <2> QED BY <1>2, <2>1 DEF Line, Ordered
<1>6. Ordered(new, q)
  <2>1. \A i \in 1 .. Len(q) : q[i] \in ToSet(q) BY Elements
  <2> QED BY <1>3, <2>1 DEF Line, Ordered
<1> QED BY <1>4, <1>5, <1>6 DEF Line

(* A block that is mined is above all that was asked for.                  *)
LEMMA MinedBlock ==
  ASSUME Inv, NEW txs \in Mineable, NodeMine(txs)
  PROVE  /\ Extends(blocks, blocks') /\ Len(blocks') = Len(blocks) + 1
         /\ Txs(blocks', Len(blocks) + 1) \subseteq mempool
<1>1. ToSet(txs) \subseteq mempool /\ IsSeq(txs)
  <2>1. PICK k \in 0 .. Cardinality(mempool) : txs \in [1 .. k -> mempool] BY DEF Mineable
  <2>2. k \in Nat BY <2>1
  <2>3. txs \in Seq(mempool) BY <2>1, <2>2
  <2> QED BY <2>1, <2>3, OwnElements DEF ToSet
<1>2. PICK b : b = [prev |-> Last(best), txs |-> txs]
  OBVIOUS
<1>3. blocks' = Append(blocks, b) /\ b.txs = txs BY <1>2 DEF NodeMine
<1>4. b.prev \in 1 .. Len(blocks)
  <2>1. best[Len(best)] \in 1 .. Len(blocks) /\ Last(best) = best[Len(best)] BY Typed DEF Inv, Last
  <2> QED BY <1>2, <2>1
<1>5. /\ Extends(blocks, blocks') /\ Len(blocks') = Len(blocks) + 1
      /\ blocks'[Len(blocks) + 1] = b
  BY <1>1, <1>3, <1>4, MinedAdded DEF Inv, BlocksOK
<1> QED BY <1>1, <1>3, <1>5 DEF Txs

LEMMA AboveAll ==
  ASSUME Inv, reorgs = 0, NEW b, b = Len(blocks) + 1
  PROVE  /\ b > Len(file) /\ syncHeight < High(b) /\ (InBlock => inc[1].height # High(b))
         /\ Ingesting => b \notin ToSet(hh[1].hdrs)
<1>1. /\ Len(file) <= Len(blocks) /\ Len(file) \in Nat /\ Len(blocks) \in Nat
      /\ StartHeight \in Nat /\ StartHeight >= 1
      /\ HeightOf(file) = High(Len(file)) /\ syncHeight \in Nat /\ syncHeight <= HeightOf(file)
  BY Flat
<1>2. b > Len(file) /\ syncHeight < High(b) BY <1>1 DEF High
<1>3. InBlock => inc[1].height # High(b)
  <2> SUFFICES ASSUME InBlock PROVE inc[1].height # High(b)
    OBVIOUS
  <2>1. PICK a \in 1 .. Len(file) : inc[1].height = High(a) BY FlatQueue
  <2>2. a < b BY <1>1, <1>2, <2>1
  <2> QED BY <1>1, <2>1, <2>2 DEF High
<1>4. Ingesting => b \notin ToSet(hh[1].hdrs)
  <2> SUFFICES ASSUME Ingesting PROVE b \notin ToSet(hh[1].hdrs)
    OBVIOUS
  <2>1. Run(blocks, hh[1].hdrs) BY DEF Inv, Handler, Busy, Ingesting
  <2>2. ToSet(hh[1].hdrs) \subseteq 1 .. Len(blocks) BY <1>1, <2>1, RunIds
  <2> QED BY <1>1, <2>2
<1> QED BY <1>2, <1>3, <1>4

LEMMA MoreMine ==
  ASSUME Inv, Inv', More, NEW txs \in Mineable, NodeMine(txs)
  PROVE  More'
<1>1. UNCHANGED <<utxos, stxos, frozen, sends, sync, prev, missed, txUp, heightUp, tracked, TxMap, toNode, rejected, reorgs, file, syncHeight, queue, wait, okTxids, hh, inc, restarts>>
  BY DEF NodeMine, wallet, hook
<1>2. SameBlock BY <1>1, SameInc
<1>4. Extends(blocks, blocks') /\ Len(blocks') = Len(blocks) + 1 /\ Txs(blocks', Len(blocks) + 1) \subseteq mempool
      /\ mempool' \subseteq mempool
  BY MinedBlock DEF NodeMine
<1>5. \A b \in 1 .. Len(blocks) : Txs(blocks', b) = Txs(blocks, b) BY <1>4, ExtendsTxs
<1>6. Len(blocks) \in Nat BY Typed DEF Inv
<1>7. PICK m : m.type = "invblock" /\ toSpv' = Append(toSpv, m)
  <2>1. PICK m : m = [type |-> "invblock"]
    OBVIOUS
  <2>2. m.type = "invblock" BY <2>1
  <2> QED BY <2>1, <2>2 DEF NodeMine, Tell
<1>20. Names' BY <1>1, KeepNames DEF More
<1>21. Fresh'
  <2>1. ASSUME NEW tx, Unsent(tx) PROVE Unsent(tx)'
    <3>1. tx \notin mempool' BY <1>4, <2>1 DEF Unsent
    <3>2. ASSUME NEW b \in 1 .. Len(blocks') PROVE tx \notin Txs(blocks', b)
      <4>1. CASE b \in 1 .. Len(blocks) BY <1>5, <2>1, <4>1 DEF Unsent
      <4>2. CASE b = Len(blocks) + 1 BY <1>4, <2>1, <4>2 DEF Unsent
      <4> QED BY <1>4, <1>6, <4>1, <4>2
    <3> QED BY <1>1, <2>1, <3>1, <3>2 DEF Unsent
  <2> QED BY <1>1, <2>1 DEF More, Fresh, Ours
<1>22. Punctual' BY <1>1, <1>2, KeepPunctual DEF More, Requesting
<1>23. Lined'
  <2> SUFFICES ASSUME reorgs = 0 PROVE Line(blocks', toSpv', toNode)
    BY <1>1 DEF Lined
  <2>1. Line(blocks, toSpv, toNode) BY DEF More, Lined
  <2>2. IsSeq(toSpv) /\ IsSeq(toNode) BY DEF Inv, FromOK, ToOK
  <2>3. \A k \in ToSet(toSpv) : k.type = "block" => k.id \in 1 .. Len(blocks) BY DEF Inv, FromOK, FromNode
  <2>4. \A k \in ToSet(toSpv) : k.type = "headers" => ToSet(k.hdrs) \subseteq 1 .. Len(blocks)
    <3> SUFFICES ASSUME NEW k \in ToSet(toSpv), k.type = "headers" PROVE ToSet(k.hdrs) \subseteq 1 .. Len(blocks)
      OBVIOUS
    <3>1. Run(blocks, k.hdrs) BY DEF Inv, FromOK, FromNode
    <3> QED BY <1>6, <3>1, RunIds
  <2>5. \A k \in ToSet(toNode) : k.type = "getblock" => k.id \in 1 .. Len(blocks)
    <3> SUFFICES ASSUME NEW k \in ToSet(toNode), k.type = "getblock" PROVE k.id \in 1 .. Len(blocks)
      OBVIOUS
    <3>1. k.id \in Wanted(queue) BY DEF More, Expected, Coming
    <3>2. k.id \in 1 .. Len(file) /\ Len(file) <= Len(blocks) /\ Len(file) \in Nat BY <3>1, QueuedIs, Flat
    <3> QED BY <1>6, <3>2
  <2>6. Line(blocks', toSpv, toNode) BY <1>4, <2>1, <2>2, <2>3, <2>4, <2>5, LineBlocks
  <2>7. \A k : Before(blocks', k, m) /\ Across(blocks', m, k) BY <1>7, IdlerBefore DEF Idler
  <2>8. m.type # "getblock" BY <1>7
  <2> QED BY <1>7, <2>2, <2>6, <2>7, <2>8, LineSpvAdded
<1>24. Expected'
  <2>1. Coming(toSpv', toNode) = Coming(toSpv, toNode)
    <3>1. IsSeq(toSpv) BY DEF Inv, FromOK
    <3>2. m.type # "block" /\ toSpv' = Append(toSpv, m) BY <1>7
    <3> QED BY <3>1, <3>2, ComingOther
  <2> QED BY <1>1, <2>1 DEF More, Expected
<1>25. Early'
  <2> SUFFICES ASSUME reorgs = 0 PROVE Early'
    BY <1>1 DEF Early
  <2>1. PICK n : n = Len(blocks) + 1
    OBVIOUS
  <2>2. /\ n > Len(file) /\ syncHeight < High(n) /\ (InBlock => inc[1].height # High(n))
        /\ Ingesting => n \notin ToSet(hh[1].hdrs)
    BY <2>1, AboveAll
  <2>3. InBlock' = InBlock /\ Ingesting' = Ingesting BY <1>1 DEF InBlock, Ingesting
  <2>4. \A b : Fetched(b)' = Fetched(b) BY <1>1, <2>3 DEF Fetched, High
  <2>5. ~Fetched(n)
    <3>1. High(n) \in Int /\ syncHeight \in Int BY <1>6, <2>1, Flat DEF High
    <3>2. ~(High(n) <= syncHeight) BY <2>2, <3>1
    <3> QED BY <2>2, <3>2 DEF Fetched
  <2>6. \A b \in 1 .. Len(blocks') : b \in 1 .. Len(blocks) \/ b = n BY <1>4, <1>6, <2>1
  <2>7. \A t : News(t) => News(t)'
    <3>1. \A t : News(t) => \A b \in 1 .. Len(blocks') : t \in Txs(blocks', b) =>
            b > Len(file) /\ (Ingesting => b \notin ToSet(hh[1].hdrs))
      BY <1>5, <2>2, <2>6 DEF News
    <3> QED BY <1>1, <2>3, <3>1 DEF News
  <2>8. \A t : Sighted(t) => Sighted(t)'
    <3>1. \A t : Sighted(t) => \A b \in 1 .. Len(blocks') : t \in Txs(blocks', b) => ~Fetched(b)
      BY <1>5, <2>5, <2>6 DEF Sighted
    <3> QED BY <2>4, <3>1 DEF Sighted
  <2>9. \A t : Rising(t) => Rising(t)'
    <3>1. \A t : Rising(t) => \A b \in 1 .. Len(blocks') : t \in Txs(blocks', b) =>
             syncHeight < High(b) /\ (InBlock /\ inc[1].height = High(b) => t \in ToSet(inc[1].txs))
      BY <1>5, <2>2, <2>6 DEF Rising
    <3> QED BY <1>1, <2>3, <3>1 DEF Rising, High
  <2>10. \A k \in ToSet(toSpv') : k.type \in {"invtx", "tx"} => k \in ToSet(toSpv)
    <3>1. IsSeq(toSpv) BY DEF Inv, FromOK
    <3>2. ToSet(toSpv') = ToSet(toSpv) \cup {m} BY <1>7, <3>1, Grown
    <3> QED BY <1>7, <3>2
  <2>11. \A k \in ToSet(toSpv') : (k.type = "invtx" => News(k.tx)') /\ (k.type = "tx" => Sighted(k.tx)')
    BY <2>7, <2>8, <2>10 DEF More, Early
  <2> QED BY <1>1, <2>3, <2>8, <2>9, <2>11 DEF More, Early
<1>26. Complete'
  <2> SUFFICES ASSUME reorgs = 0, ~missed PROVE Complete'
    BY <1>1 DEF Complete
  <2>1. PICK n : n = Len(blocks) + 1
    OBVIOUS
  <2>2. syncHeight < High(n) /\ (InBlock => inc[1].height # High(n)) BY <2>1, AboveAll
  <2>3. \A b \in 1 .. Len(blocks') : b \in 1 .. Len(blocks) \/ b = n BY <1>4, <1>6, <2>1
  <2>4. \A t, b : Done(t, b)' = Done(t, b) BY <1>1 DEF Done, High, InBlock
  <2>5. \A t, h : HandedUp(t, h)' = HandedUp(t, h) BY <1>1 DEF HandedUp, Stored
  <2>6. \A t : ~Done(t, n)
    <3>1. High(n) \in Int /\ syncHeight \in Int BY <1>6, <2>1, Flat DEF High
    <3>2. ~(High(n) <= syncHeight) BY <2>2, <3>1
    <3> QED BY <2>2, <3>2 DEF Done
  <2>7. \A b \in 1 .. Len(blocks') : \A t \in Txs(blocks', b) : Done(t, b)' => HandedUp(t, High(b))'
    <3> SUFFICES ASSUME NEW b \in 1 .. Len(blocks'), NEW t \in Txs(blocks', b), Done(t, b)
                 PROVE  HandedUp(t, High(b))'
      BY <2>4
    <3>1. b \in 1 .. Len(blocks) BY <2>3, <2>6
    <3>2. HandedUp(t, High(b)) BY <1>5, <3>1 DEF More, Complete
    <3> QED BY <1>1, <2>5, <3>2
  <2> QED BY <1>1, <2>7 DEF More, Complete, High
<1> QED BY <1>20, <1>21, <1>22, <1>23, <1>24, <1>25, <1>26 DEF More

(* Afterwards there has been a reorganisation.                             *)
LEMMA Nevermore ==
  ASSUME reorgs' # 0
  PROVE  Punctual' /\ Lined' /\ Expected' /\ Early' /\ Complete'
  BY DEF Punctual, Lined, Expected, Early, Complete

LEMMA TwoEmpty ==
  ASSUME Inv, NodeReorg
  PROVE  /\ Len(blocks') = Len(blocks) + 2 /\ \A b \in 1 .. Len(blocks) : Txs(blocks', b) = Txs(blocks, b)
         /\ Txs(blocks', Len(blocks) + 1) = {} /\ Txs(blocks', Len(blocks) + 2) = {}
<1>1. PICK n : n = Len(blocks)
  OBVIOUS
<1>2. PICK x : x = [prev |-> best[Len(best) - 1], txs |-> <<>>]
  OBVIOUS
<1>3. PICK y : y = [prev |-> n + 1, txs |-> <<>>]
  OBVIOUS
<1>4. /\ IsSeq(blocks) /\ n \in Nat BY <1>1, Typed DEF Inv
<1>5. x.txs = <<>> /\ y.txs = <<>> BY <1>2, <1>3
<1>6. blocks' = Append(Append(blocks, x), y)
  <2>1. blocks \in Seq(ToSet(blocks)) BY <1>4 DEF IsSeq
  <2>2. blocks' = blocks \o <<x, y>> BY <1>1, <1>2, <1>3 DEF NodeReorg
  <2> QED BY <2>1, <2>2, TwoMore
<1>7. PICK mid : mid = Append(blocks, x)
  OBVIOUS
<1>8. /\ IsSeq(mid) /\ Len(mid) = n + 1 /\ mid[n + 1] = x
      /\ \A b \in 1 .. n : mid[b] = blocks[b]
  BY <1>1, <1>4, <1>7, Grown
<1>9. /\ Len(blocks') = n + 2 /\ blocks'[n + 2] = y /\ \A b \in 1 .. n + 1 : blocks'[b] = mid[b]
  <2>1. /\ Len(blocks') = Len(mid) + 1 /\ blocks'[Len(mid) + 1] = y
        /\ \A b \in 1 .. Len(mid) : blocks'[b] = mid[b]
    BY <1>6, <1>7, <1>8, Grown
  <2>2. Len(mid) + 1 = n + 2 BY <1>4, <1>8
  <2> QED BY <1>8, <2>1, <2>2
<1>10. \A b \in 1 .. n : b \in 1 .. n + 1 BY <1>4
<1>11. n + 1 \in 1 .. n + 1 BY <1>4
<1> QED BY <1>1, <1>5, <1>8, <1>9, <1>10, <1>11, NothingYet DEF Txs

LEMMA MoreReorg ==
  ASSUME Inv, Inv', More, NodeReorg
  PROVE  More'
<1>1. UNCHANGED <<utxos, stxos, frozen, sends, sync, prev, missed, txUp, heightUp, tracked, TxMap, toNode, rejected, file, syncHeight, queue, wait, okTxids, hh, inc, restarts>>
  BY DEF NodeReorg, wallet, hook
<1>2. reorgs' # 0
  <2>1. reorgs \in Nat /\ reorgs' = reorgs + 1 BY Typed DEF NodeReorg, Inv
  <2> QED BY <2>1
<1>3. Names' BY <1>1, KeepNames DEF More
<1>4. mempool' = mempool \cup Txs(blocks, best[Len(best)]) /\ best[Len(best)] \in 1 .. Len(blocks)
  <2>1. best[Len(best)] \in 1 .. Len(blocks) /\ Last(best) = best[Len(best)] BY Typed DEF Inv, Last
  <2>2. mempool' = mempool \cup ToSet(blocks[Last(best)].txs) BY DEF NodeReorg
  <2> QED BY <2>1, <2>2 DEF Txs
<1>5. ASSUME NEW tx, Unsent(tx) PROVE Unsent(tx)'
  <2>1. tx \notin mempool' BY <1>4, <1>5 DEF Unsent
  <2>2. ASSUME NEW b \in 1 .. Len(blocks') PROVE tx \notin Txs(blocks', b)
    <3>1. b \in 1 .. Len(blocks) \/ b = Len(blocks) + 1 \/ b = Len(blocks) + 2
      <4>1. Len(blocks) \in Nat /\ Len(blocks') = Len(blocks) + 2 BY TwoEmpty, Typed DEF Inv
      <4> QED BY <4>1
    <3> QED BY <1>5, <3>1, TwoEmpty DEF Unsent
  <2> QED BY <1>1, <1>5, <2>1, <2>2 DEF Unsent
<1>6. Fresh' BY <1>1, <1>5 DEF More, Fresh, Ours
<1> QED BY <1>2, <1>3, <1>6, Nevermore DEF More

(* What the node answers.                                                  *)
Answer(m, a) ==
  \/ m.type = "getheaders" /\ a.type = "headers"
  \/ m.type = "getblock" /\ a.type = "block" /\ a.id = m.id
  \/ m.type = "gettx" /\ a.type = "tx" /\ a.tx = m.tx
  \/ m.type = "inv" /\ a.type = "getdata"

LEMMA Answers ==
  ASSUME NodeServe, NEW m, m = Head(toNode), m.type = "getblock" => m.id # Hole
  PROVE  (UNCHANGED toSpv /\ m.type # "getblock") \/ \E a : toSpv' = Append(toSpv, a) /\ Answer(m, a)
<1>1. CASE m.type = "getheaders"
  <2>1. PICK a : a = [type |-> "headers", hdrs |-> HeadersAfter(m.locator)]
    OBVIOUS
  <2>2. toSpv' = Append(toSpv, a) BY <1>1, <2>1 DEF NodeServe, Tell
  <2>3. a.type = "headers" BY <2>1
  <2> QED BY <1>1, <2>2, <2>3 DEF Answer
<1>2. CASE m.type = "getblock"
  <2>1. PICK a : a = [type |-> "block", id |-> m.id]
    OBVIOUS
  <2>2. toSpv' = Append(toSpv, a) BY <1>2, <2>1 DEF NodeServe, Tell
  <2>3. a.type = "block" /\ a.id = m.id BY <2>1
  <2> QED BY <1>2, <2>2, <2>3 DEF Answer
<1>3. CASE m.type = "gettx"
  <2>1. PICK a : a = [type |-> "tx", tx |-> m.tx]
    OBVIOUS
  <2>2. toSpv' = Append(toSpv, a) BY <1>3, <2>1 DEF NodeServe, Tell
  <2>3. a.type = "tx" /\ a.tx = m.tx BY <2>1
  <2> QED BY <1>3, <2>2, <2>3 DEF Answer
<1>4. CASE m.type = "inv"
  <2>1. PICK a : a = [type |-> "getdata", tx |-> m.tx]
    OBVIOUS
  <2>2. toSpv' = Append(toSpv, a) BY <1>4, <2>1 DEF NodeServe, Tell
  <2>3. a.type = "getdata" BY <2>1
  <2> QED BY <1>4, <2>2, <2>3 DEF Answer
<1>5. CASE m.type \notin {"getheaders", "getblock", "gettx", "inv"}
  BY <1>5 DEF NodeServe
<1> QED BY <1>1, <1>2, <1>3, <1>4, <1>5

(* The answer takes the place of the question.                             *)
LEMMA LineAnswer ==
  ASSUME NEW bs, NEW p, IsSeq(p), NEW q, IsSeq(q), q # <<>>, Line(bs, p, q), NEW a, Answer(Head(q), a)
  PROVE  Line(bs, Append(p, a), Tail(q))
<1>1. PICK m : m = Head(q)
  OBVIOUS
<1>2. Line(bs, p, Tail(q)) BY LineNodeTaken
<1>3. m \in ToSet(q) /\ ToSet(Tail(q)) \subseteq ToSet(q) /\ Answer(m, a) BY <1>1, Shorter
<1>4. \A k \in ToSet(Tail(q)) : Before(bs, m, k) BY <1>1, OrderedTail DEF Line
<1>5. \A k \in ToSet(p) : Across(bs, k, m) /\ k.type # "getblock" BY <1>3 DEF Line
<1>6. a.type # "getblock" BY <1>3 DEF Answer
<1>7. ASSUME NEW k \in ToSet(p) PROVE Before(bs, k, a)
  <2>1. CASE a.type = "block"
    <3>1. m.type = "getblock" /\ a.id = m.id BY <1>3, <2>1 DEF Answer
    <3> QED BY <1>5, <2>1, <3>1 DEF Before, Across
  <2>2. CASE a.type = "tx"
    <3>1. m.type = "gettx" /\ a.tx = m.tx BY <1>3, <2>2 DEF Answer
    <3> QED BY <1>5, <2>2, <3>1 DEF Before, Across
  <2>3. CASE a.type \notin {"block", "tx"}
    <3>1. a.type \in {"headers", "getdata"} BY <1>3, <2>3 DEF Answer
    <3> QED BY <3>1 DEF Before
  <2> QED BY <2>1, <2>2, <2>3
<1>8. ASSUME NEW k \in ToSet(Tail(q)) PROVE Across(bs, a, k)
  <2> SUFFICES ASSUME a.type = "block" PROVE Across(bs, a, k)
    BY DEF Across
  <2>1. m.type = "getblock" /\ a.id = m.id BY <1>3 DEF Answer
  <2> QED BY <1>4, <2>1 DEF Before, Across
<1> QED BY <1>2, <1>6, <1>7, <1>8, LineSpvAdded

LEMMA MoreServe ==
  ASSUME Inv, Inv', More, NodeServe
  PROVE  More'
<1>1. UNCHANGED <<utxos, stxos, frozen, sends, sync, prev, missed, txUp, heightUp, tracked, TxMap, blocks, best, reorgs, file, syncHeight, queue, wait, okTxids, hh, inc, restarts>>
  BY DEF NodeServe, wallet, hook
<1>2. SameBlock BY <1>1, SameInc
<1>7. PICK m : m = Head(toNode)
  OBVIOUS
<1>4. /\ toNode # <<>> /\ toNode' = Tail(toNode) /\ IsSeq(toNode) /\ IsSeq(toSpv) /\ IsSeq(toNode')
      /\ m = Head(toNode) /\ m \in ToSet(toNode) /\ ToSet(toNode') \subseteq ToSet(toNode)
  <2>1. toNode # <<>> /\ toNode' = Tail(toNode) /\ IsSeq(toNode) /\ IsSeq(toSpv) BY DEF NodeServe, Inv, ToOK, FromOK
  <2> QED BY <1>7, <2>1, Shorter
<1>5. \A t \in mempool' : t \in mempool \/ (m.type = "tx" /\ t = m.tx)
  BY <1>7 DEF NodeServe
<1>6. reorgs = 0 => (UNCHANGED toSpv /\ m.type # "getblock") \/ \E a : toSpv' = Append(toSpv, a) /\ Answer(m, a)
  <2> SUFFICES ASSUME reorgs = 0
               PROVE  (UNCHANGED toSpv /\ m.type # "getblock") \/ \E a : toSpv' = Append(toSpv, a) /\ Answer(m, a)
    OBVIOUS
  <2>1. m.type = "getblock" => m.id # Hole
    <3> SUFFICES ASSUME m.type = "getblock" PROVE m.id # Hole
      OBVIOUS
    <3>1. m.id \in Wanted(queue) BY <1>4 DEF More, Expected, Coming
    <3>2. m.id \in 1 .. Len(file) BY <3>1, QueuedIs
    <3> QED BY <3>2 DEF Hole
  <2> QED BY <1>7, <2>1, Answers
<1>20. Names' BY <1>1, KeepNames DEF More
<1>21. Fresh'
  <2>1. m.type = "tx" => \A op \in DOMAIN frozen : frozen[op] # m.tx BY <1>4 DEF More, Fresh, Unsent
  <2>2. \A op \in DOMAIN frozen : frozen[op] \notin mempool' BY <1>5, <2>1 DEF More, Fresh, Unsent
  <2>3. \A op \in DOMAIN frozen : Unsent(frozen[op]) => Unsent(frozen[op])' BY <1>1, <1>4, <2>2 DEF Unsent, Txs
  <2> QED BY <1>1, <1>4, <2>3 DEF More, Fresh, Ours
<1>22. Punctual' BY <1>1, <1>2, KeepPunctual DEF More, Requesting
<1>23. Lined'
  <2> SUFFICES ASSUME reorgs = 0 PROVE Line(blocks, toSpv', toNode')
    BY <1>1 DEF Lined
  <2>1. Line(blocks, toSpv, toNode) BY DEF More, Lined
  <2>2. CASE UNCHANGED toSpv BY <1>4, <2>1, <2>2, LineNodeTaken
  <2>3. CASE \E a : toSpv' = Append(toSpv, a) /\ Answer(m, a) BY <1>4, <2>1, <2>3, LineAnswer
  <2> QED BY <1>6, <2>2, <2>3
<1>24. Expected'
  <2> SUFFICES ASSUME reorgs = 0 PROVE Coming(toSpv', toNode') = Wanted(queue)
    BY <1>1 DEF Expected
  <2>1. Coming(toSpv, toNode) = Wanted(queue) BY DEF More, Expected
  <2>2. Coming(toSpv, toNode) = Coming(toSpv, toNode') \cup (IF m.type = "getblock" THEN {m.id} ELSE {})
    BY <1>4, ComingNodeTaken
  <2>3. CASE UNCHANGED toSpv /\ m.type # "getblock" BY <2>1, <2>2, <2>3
  <2>4. CASE \E a : toSpv' = Append(toSpv, a) /\ Answer(m, a)
    <3>1. PICK a : toSpv' = Append(toSpv, a) /\ Answer(m, a) BY <2>4
    <3>2. Coming(toSpv', toNode') = Coming(toSpv, toNode') \cup (IF a.type = "block" THEN {a.id} ELSE {})
      BY <1>4, <3>1, ComingSpv
    <3>3. (a.type = "block" <=> m.type = "getblock") /\ (a.type = "block" => a.id = m.id) BY <3>1 DEF Answer
    <3> QED BY <2>1, <2>2, <3>2, <3>3
  <2> QED BY <1>6, <2>3, <2>4
<1>25. Early'
  <2> SUFFICES ASSUME reorgs = 0 PROVE Early'
    BY <1>1 DEF Early
  <2>1. \A t : (News(t) => News(t)') /\ (Sighted(t) => Sighted(t)') /\ (Rising(t) => Rising(t)')
    BY <1>1, SameViews
  <2>2. \A k \in ToSet(toSpv') : (k.type = "invtx" => News(k.tx)) /\ (k.type = "tx" => Sighted(k.tx))
    <3>1. CASE UNCHANGED toSpv BY <3>1 DEF More, Early
    <3>2. CASE \E a : toSpv' = Append(toSpv, a) /\ Answer(m, a)
      <4>1. PICK a : toSpv' = Append(toSpv, a) /\ Answer(m, a) BY <3>2
      <4>2. ToSet(toSpv') = ToSet(toSpv) \cup {a} BY <1>4, <4>1, Grown
      <4>3. a.type # "invtx" /\ (a.type = "tx" => m.type = "gettx" /\ a.tx = m.tx) BY <4>1 DEF Answer
      <4>4. a.type = "tx" => Sighted(a.tx) BY <1>4, <4>3 DEF More, Early
      <4> QED BY <4>2, <4>3, <4>4 DEF More, Early
    <3> QED BY <1>6, <3>1, <3>2
  <2>3. \A k \in ToSet(toSpv') : (k.type = "invtx" => News(k.tx)') /\ (k.type = "tx" => Sighted(k.tx)')
    BY <2>1, <2>2
  <2>4. \A k \in ToSet(toNode') : k.type = "gettx" => Sighted(k.tx)' BY <1>4, <2>1 DEF More, Early
  <2>5. InBlock' = InBlock BY <1>1 DEF InBlock
  <2> QED BY <1>1, <2>1, <2>3, <2>4, <2>5 DEF More, Early
<1>26. Complete' BY <1>1, KeepComplete DEF More, InBlock
<1> QED BY <1>20, <1>21, <1>22, <1>23, <1>24, <1>25, <1>26 DEF More

-----------------------------------------------------------------------------
(* The steps of the hook, without a reorganisation.                        *)

LEMMA MoreIngestHeaders ==
  ASSUME Inv, Inv', More, IngestHeaders
  PROVE  More'
<1>1. UNCHANGED <<utxos, stxos, frozen, sends, sync, prev, missed, txUp, tracked, TxMap, blocks, best, mempool, rejected, reorgs, toNode, toSpv, queue, wait, okTxids, inc, restarts>>
  BY DEF IngestHeaders, wallet, node
<1>2. SameBlock BY <1>1, SameInc
<1>6. PICK hs : hs = hh[1].hdrs
  OBVIOUS
<1>4. /\ hs = hh[1].hdrs /\ Quiet /\ ~wait /\ Run(blocks, hs) /\ hs # <<>> /\ Ingesting
      /\ ~Ingesting' /\ ~Requesting'
  <2>1. hh # Idle /\ hh[1].pc = "ingest" /\ hs # <<>> BY <1>6 DEF IngestHeaders
  <2>2. Quiet /\ Run(blocks, hs) BY <1>6, <2>1 DEF Inv, Handler, Busy
  <2>3. ~wait BY <2>1, Alone
  <2>4. PICK r : r = [pc |-> "more", hdrs |-> <<>>]
    OBVIOUS
  <2>5. hh' = <<r>> /\ r.pc = "more" BY <2>4 DEF IngestHeaders
  <2> QED BY <1>6, <2>1, <2>2, <2>3, <2>5 DEF Ingesting, Requesting
<1>5. reorgs = 0 =>
        /\ UNCHANGED <<syncHeight, heightUp>>
        /\ Len(file') = Len(file) + Len(hs) /\ Next1(hs) /\ IsSeq(hs) /\ Len(hs) \in Nat /\ Len(file) \in Nat
  <2> SUFFICES ASSUME reorgs = 0
               PROVE  /\ UNCHANGED <<syncHeight, heightUp>>
                      /\ Len(file') = Len(file) + Len(hs) /\ Next1(hs) /\ IsSeq(hs)
                      /\ Len(hs) \in Nat /\ Len(file) \in Nat
    OBVIOUS
  <2>1. OneChain /\ Next1(hs) BY <1>4 DEF Inv, Linear, InStep, Ingesting
  <2>2. blocks[hs[1]].prev = Last(file) BY <1>4, <2>1, NoBranch DEF Inv
  <2>3. CheckHeaderChain(hs) = 0 BY <2>2 DEF CheckHeaderChain
  <2>4. /\ file' = NewFile(hs, 0)
        /\ heightUp' = (IF 0 > 0 THEN Append(heightUp, 0) ELSE heightUp)
        /\ syncHeight' = IF 0 > 0 THEN 0 ELSE syncHeight
    BY <1>6, <2>3 DEF IngestHeaders
  <2>5. file' = file \o hs /\ UNCHANGED <<syncHeight, heightUp>> BY <2>4 DEF NewFile
  <2>6. hs \in Seq(2 .. Len(blocks)) BY <1>4 DEF Run
  <2>7. IsSeq(hs) /\ IsSeq(file) BY <2>6, OwnElements DEF Inv, FileSeq
  <2>8. Len(hs) \in Nat /\ Len(file) \in Nat BY <2>7, Elements
  <2>9. Len(file') = Len(file) + Len(hs) BY <2>5, <2>7, Joined
  <2> QED BY <2>1, <2>5, <2>7, <2>8, <2>9
<1>20. Names' BY <1>1, KeepNames DEF More
<1>21. Fresh' BY <1>1, KeepFresh DEF More
<1>22. Punctual'
  <2> SUFFICES ASSUME reorgs = 0 PROVE Punctual'
    BY <1>1 DEF Punctual
  <2>1. queue' = <<>> /\ ~InBlock' /\ ~wait' /\ ~Requesting' BY <1>1, <1>4 DEF Quiet, InBlock
  <2>2. \A i \in 1 .. Len(queue') : FALSE BY <2>1, NothingYet
  <2>3. prev' <= syncHeight' BY <1>1, <1>5 DEF More, Punctual
  <2> QED BY <2>1, <2>2, <2>3 DEF Punctual
<1>23. Lined' BY <1>1, KeepLined DEF More
<1>24. Expected' BY <1>1, KeepExpected DEF More
<1>25. Early'
  <2> SUFFICES ASSUME reorgs = 0 PROVE Early'
    BY <1>1 DEF Early
  <2>1. syncHeight' = syncHeight BY <1>5
  <2>2. InBlock' = InBlock /\ ~Ingesting' BY <1>1, <1>4 DEF InBlock
  <2>3. \A b : Fetched(b)' = Fetched(b) BY <1>1, <2>1, <2>2 DEF Fetched, High
  <2>4. \A t : Sighted(t) => Sighted(t)' BY <1>1, <2>3 DEF Sighted, Txs
  <2>5. \A t : Rising(t) => Rising(t)' BY <1>1, <2>1, <2>2 DEF Rising, Txs, High
  <2>6. \A t : News(t) => News(t)'
    <3> SUFFICES ASSUME NEW t, News(t), NEW b \in 1 .. Len(blocks), t \in Txs(blocks, b) PROVE b > Len(file')
      BY <1>1, <2>2 DEF News, Txs
    <3>1. b > Len(file) /\ b \notin ToSet(hs) BY <1>4 DEF News
    <3>2. Len(file') = Len(file) + Len(hs) /\ Next1(hs) /\ IsSeq(hs) /\ Len(hs) \in Nat /\ Len(file) \in Nat BY <1>5
    <3> SUFFICES ASSUME ~(b > Len(file')) PROVE FALSE
      OBVIOUS
    <3>3. b - Len(file) \in 1 .. Len(hs) /\ Len(file) + (b - Len(file)) = b BY <3>1, <3>2
    <3>4. hs[b - Len(file)] = b BY <3>2, <3>3 DEF Next1
    <3>5. b \in ToSet(hs) BY <3>2, <3>3, <3>4, Elements
    <3> QED BY <3>1, <3>5
  <2> QED BY <1>1, <2>2, <2>4, <2>5, <2>6 DEF More, Early
<1>26. Complete'
  <2> SUFFICES ASSUME reorgs = 0 PROVE Complete'
    BY <1>1 DEF Complete
  <2>1. UNCHANGED <<syncHeight, heightUp>> BY <1>5
  <2> QED BY <1>1, <2>1, KeepComplete DEF More, InBlock
<1> QED BY <1>20, <1>21, <1>22, <1>23, <1>24, <1>25, <1>26 DEF More

LEMMA AskedInLine ==
  ASSUME NEW bs, NEW p, IsSeq(toNode), Line(bs, p, toNode) \/ reorgs # 0
  PROVE  /\ reorgs = 0 => Line(bs, p, AskForHeaders)
         /\ Coming(p, AskForHeaders) = Coming(p, toNode)
         /\ \A m \in ToSet(AskForHeaders) : m.type = "getheaders" \/ m \in ToSet(toNode)
<1>1. PICK a : a = [type |-> "getheaders", locator |-> Locator]
  OBVIOUS
<1>2. AskForHeaders = Append(toNode, a) BY <1>1 DEF AskForHeaders
<1>3. a.type = "getheaders" BY <1>1
<1>4. \A m \in ToSet(AskForHeaders) : m.type = "getheaders" \/ m \in ToSet(toNode)
  BY <1>2, <1>3, Grown
<1>5. Coming(p, AskForHeaders) = Coming(p, toNode)
  <2>1. Coming(p, Append(toNode, a)) = Coming(p, toNode) \cup (IF a.type = "getblock" THEN {a.id} ELSE {})
    BY ComingNode
  <2>2. a.type # "getblock" BY <1>3
  <2> QED BY <1>2, <2>1, <2>2
<1>6. ASSUME reorgs = 0 PROVE Line(bs, p, AskForHeaders)
  <2>1. \A k : Before(bs, k, a) /\ Across(bs, k, a)
    <3>1. Idler(a) BY <1>3 DEF Idler
    <3> QED BY <3>1, IdlerBefore
  <2>2. a.type \notin {"block", "headers"} BY <1>3
  <2>3. Line(bs, p, toNode) BY <1>6
  <2>4. Line(bs, p, Append(toNode, a)) BY <2>1, <2>2, <2>3, LineNodeAdded
  <2> QED BY <1>2, <2>4
<1> QED BY <1>4, <1>5, <1>6

LEMMA MoreMoreHeaders ==
  ASSUME Inv, Inv', More, MoreHeaders
  PROVE  More'
<1>1. UNCHANGED <<utxos, stxos, frozen, sends, sync, prev, missed, txUp, tracked, TxMap, blocks, best, mempool, rejected, reorgs, heightUp, toSpv, file, syncHeight, queue, wait, okTxids, inc, restarts>>
  BY DEF MoreHeaders, wallet, node
<1>2. SameBlock BY <1>1, SameInc
<1>4. toNode' = AskForHeaders /\ IsSeq(toNode) /\ hh' = Idle BY DEF MoreHeaders, Inv, ToOK
<1>5. \A m \in ToSet(toNode') : m.type = "getheaders" \/ m \in ToSet(toNode)
  <2>1. Line(blocks, toSpv, toNode) \/ reorgs # 0 BY DEF More, Lined
  <2> QED BY <1>4, <2>1, AskedInLine
<1>3. NoNewSights BY <1>1, <1>5 DEF NoNewSights
<1>20. Names' BY <1>1, KeepNames DEF More
<1>21. Fresh' BY <1>1, <1>5, KeepFresh DEF More
<1>22. Punctual' BY <1>1, <1>2, <1>4, KeepPunctual DEF More, Requesting
<1>23. Lined'
  <2> SUFFICES ASSUME reorgs = 0 PROVE Line(blocks, toSpv, toNode')
    BY <1>1 DEF Lined
  <2>1. Line(blocks, toSpv, toNode) BY DEF More, Lined
  <2> QED BY <1>4, <2>1, AskedInLine
<1>24. Expected'
  <2> SUFFICES ASSUME reorgs = 0 PROVE Coming(toSpv, toNode') = Wanted(queue)
    BY <1>1 DEF Expected
  <2>1. Line(blocks, toSpv, toNode) BY DEF More, Lined
  <2> QED BY <1>4, <2>1, AskedInLine DEF More, Expected
<1>25. Early' BY <1>1, <1>3, <1>4, KeepEarly DEF More, Ingesting
<1>26. Complete' BY <1>1, KeepComplete DEF More, InBlock
<1> QED BY <1>20, <1>21, <1>22, <1>23, <1>24, <1>25, <1>26 DEF More

LEMMA MoreHeadersDone ==
  ASSUME Inv, Inv', More, HeadersDone
  PROVE  More'
<1>1. UNCHANGED <<utxos, stxos, frozen, sends, sync, prev, missed, txUp, tracked, TxMap, blocks, best, mempool, rejected, reorgs, heightUp, toNode, toSpv, file, syncHeight, queue, wait, okTxids, inc, restarts>>
  BY DEF HeadersDone, wallet, node
<1>2. SameBlock BY <1>1, SameInc
<1>4. Quiet /\ ~wait /\ ~Ingesting' /\ (Requesting' => hh'[1].req = syncHeight)
  <2>1. hh # Idle /\ hh[1].pc = "ingest" BY DEF HeadersDone
  <2>2. Quiet BY <2>1 DEF Inv, Handler, Busy
  <2>3. ~wait BY <2>1, Alone
  <2>4. PICK r : r = [pc |-> "blocks", hdrs |-> <<>>, req |-> syncHeight]
    OBVIOUS
  <2>5. hh' = Idle \/ hh' = <<r>> BY <2>4 DEF HeadersDone
  <2>6. r.pc = "blocks" /\ r.req = syncHeight BY <2>4
  <2> QED BY <2>2, <2>3, <2>5, <2>6 DEF Ingesting, Requesting
<1>3. NoNewSights BY <1>1 DEF NoNewSights
<1>20. Names' BY <1>1, KeepNames DEF More
<1>21. Fresh' BY <1>1, KeepFresh DEF More
<1>22. Punctual'
  <2> SUFFICES ASSUME reorgs = 0 PROVE Punctual'
    BY <1>1 DEF Punctual
  <2>1. queue' = <<>> /\ ~InBlock' /\ ~wait' BY <1>1, <1>4 DEF Quiet, InBlock
  <2>2. (\A i \in 1 .. Len(queue') : FALSE) /\ Len(queue') = 0 BY <2>1, NothingYet
  <2>3. prev' <= syncHeight' BY <1>1 DEF More, Punctual
  <2>4. Ahead' = syncHeight /\ syncHeight \in Nat BY <1>1, <2>1 DEF Ahead, Inv, SlotsOK
  <2>5. Requesting' => hh'[1].req = Ahead' + Len(queue') BY <1>4, <2>2, <2>4
  <2> QED BY <2>1, <2>2, <2>3, <2>5 DEF Punctual
<1>23. Lined' BY <1>1, KeepLined DEF More
<1>24. Expected' BY <1>1, KeepExpected DEF More
<1>25. Early' BY <1>1, <1>3, <1>4, KeepEarly DEF More
<1>26. Complete' BY <1>1, KeepComplete DEF More, InBlock
<1> QED BY <1>20, <1>21, <1>22, <1>23, <1>24, <1>25, <1>26 DEF More

LEMMA MoreRequestBlock ==
  ASSUME Inv, Inv', More, RequestBlock
  PROVE  More'
<1>1. UNCHANGED <<utxos, stxos, frozen, sends, sync, prev, missed, txUp, tracked, TxMap, blocks, best, mempool, rejected, reorgs, heightUp, toSpv, file, syncHeight, wait, okTxids, inc, restarts>>
  BY DEF RequestBlock, wallet, node
<1>2. SameBlock BY <1>1, SameInc
<1>4. /\ hh # Idle /\ Requesting /\ hh[1].req \in Nat /\ syncHeight <= hh[1].req /\ ~wait
      /\ hh[1] = [pc |-> "blocks", hdrs |-> hh[1].hdrs, req |-> hh[1].req]
      /\ hh[1].req < HeightOf(file)
  <2>1. hh # Idle /\ Requesting /\ hh[1].req < HeightOf(file) BY DEF RequestBlock, Requesting
  <2>2. ~wait BY <2>1, Alone
  <2> QED BY <2>1, <2>2 DEF Inv, Handler
<1>11. PICK h : h = hh[1].req + 1
  OBVIOUS
<1>12. PICK q : q = [id |-> file[Index(h)], height |-> h, final |-> h = HeightOf(file)]
  OBVIOUS
<1>13. PICK a : a = [type |-> "getblock", id |-> file[Index(h)]]
  OBVIOUS
<1>5. /\ toNode' = Append(toNode, a) /\ a.type = "getblock" /\ a.id = q.id /\ q.id = file[Index(h)] /\ q.height = h
      /\ IsSeq(toNode) /\ IsSeq(queue) /\ queue' = Append(queue, q)
      /\ ~Ingesting' /\ (Requesting' => hh'[1].req = h)
  <2>1. a.type = "getblock" /\ a.id = file[Index(h)] BY <1>13
  <2>2. q.height = h /\ q.id = file[Index(h)] BY <1>12
  <2>3. toNode' = Append(toNode, a) /\ queue' = Append(queue, q) /\ IsSeq(toNode) /\ IsSeq(queue)
    BY <1>11, <1>12, <1>13 DEF RequestBlock, Inv, ToOK, QueueOK
  <2>4. PICK r : r = [hh[1] EXCEPT !.req = h]
    OBVIOUS
  <2>5. r = [pc |-> "blocks", hdrs |-> hh[1].hdrs, req |-> h] BY <1>4, <2>4
  <2>6. r.pc = "blocks" /\ r.req = h BY <2>5
  <2>7. hh' = Idle \/ hh' = <<r>> BY <1>11, <2>4 DEF RequestBlock
  <2>8. ~Ingesting' /\ (Requesting' => hh'[1].req = h) BY <2>6, <2>7 DEF Ingesting, Requesting
  <2> QED BY <2>1, <2>2, <2>3, <2>8
<1>6. \A m \in ToSet(toNode') : m.type = "getblock" \/ m \in ToSet(toNode) BY <1>5, Grown
<1>7. /\ Len(queue) \in Nat /\ Len(queue') = Len(queue) + 1 /\ queue'[Len(queue) + 1] = q
      /\ \A i \in 1 .. Len(queue) : queue'[i] = queue[i]
  BY <1>5, Grown, Elements
<1>9. reorgs = 0 => h = Ahead + Len(queue) + 1 /\ Ahead \in Nat
  <2>1. reorgs = 0 => hh[1].req = Ahead + Len(queue) BY <1>4 DEF More, Punctual
  <2>2. syncHeight \in Nat BY DEF Inv, SlotsOK
  <2>3. Ahead \in Nat BY <2>2 DEF Ahead
  <2> QED BY <1>7, <1>11, <2>1, <2>3
<1>10. reorgs = 0 => \A id \in Wanted(queue) : id < a.id
  <2> SUFFICES ASSUME reorgs = 0, NEW id \in Wanted(queue) PROVE id < a.id
    OBVIOUS
  <2>1. PICK i \in 1 .. Len(queue) : queue[i].id = id BY DEF Wanted
  <2>2. queue[i].height = Ahead + i BY DEF More, Punctual
  <2>3. High(id) = Ahead + i /\ id \in 1 .. Len(file) BY <2>1, <2>2, FlatQueue
  <2>4. /\ Len(file) \in Nat /\ StartHeight \in Nat /\ HeightOf(file) = High(Len(file)) /\ syncHeight \in Nat
        /\ \A j \in 1 .. Len(file) : file[j] = j
    BY Flat
  <2>5. StartHeight <= syncHeight BY DEF Inv, SlotsOK
  <2>6. Index(h) \in 1 .. Len(file) /\ High(Index(h)) = h
    BY <1>4, <1>11, <2>4, <2>5 DEF Index, High
  <2>7. a.id = Index(h) BY <1>5, <2>4, <2>6
  <2>8. Ahead + i < h BY <1>7, <1>9
  <2>9. High(id) < High(a.id) BY <2>3, <2>6, <2>7, <2>8
  <2>10. id \in Nat /\ a.id \in Nat BY <2>3, <2>4, <2>6, <2>7
  <2> QED BY <2>4, <2>9, <2>10 DEF High
<1>3. NoNewSights BY <1>1, <1>6 DEF NoNewSights
<1>20. Names' BY <1>1, KeepNames DEF More
<1>21. Fresh' BY <1>1, <1>6, KeepFresh DEF More
<1>22. Punctual'
  <2> SUFFICES ASSUME reorgs = 0 PROVE Punctual'
    BY <1>1 DEF Punctual
  <2>1. InBlock' = InBlock /\ Ahead' = Ahead /\ Ahead \in Nat BY <1>1, <1>9 DEF InBlock, Ahead
  <2>2. h = Ahead + Len(queue) + 1 BY <1>9
  <2>3. ASSUME NEW i \in 1 .. Len(queue') PROVE queue'[i].height = Ahead + i
    <3>1. CASE i \in 1 .. Len(queue) BY <1>7, <3>1 DEF More, Punctual
    <3>2. CASE i = Len(queue) + 1 BY <1>5, <1>7, <2>1, <2>2, <3>2
    <3>3. i \in 1 .. Len(queue) \/ i = Len(queue) + 1 BY <1>7
    <3> QED BY <3>1, <3>2, <3>3
  <2>4. Requesting' => hh'[1].req = Ahead + Len(queue') BY <1>5, <1>7, <2>1, <2>2
  <2>5. InBlock => inc[1].height = syncHeight + 1 BY DEF More, Punctual
  <2>6. prev <= syncHeight BY DEF More, Punctual
  <2> QED BY <1>1, <1>4, <2>1, <2>3, <2>4, <2>5, <2>6 DEF Punctual
<1>23. Lined'
  <2> SUFFICES ASSUME reorgs = 0 PROVE Line(blocks, toSpv, toNode')
    BY <1>1 DEF Lined
  <2>1. Line(blocks, toSpv, toNode) BY DEF More, Lined
  <2>2. ASSUME NEW m \in ToSet(toNode) PROVE Before(blocks, m, a)
    <3>1. m.type = "getblock" => m.id \in Coming(toSpv, toNode) BY DEF Coming
    <3>2. m.type = "getblock" => m.id < a.id BY <1>10, <3>1 DEF More, Expected
    <3> QED BY <1>5, <3>2 DEF Before
  <2>3. ASSUME NEW m \in ToSet(toSpv) PROVE Across(blocks, m, a)
    <3>1. m.type = "block" => m.id \in Coming(toSpv, toNode) BY DEF Coming
    <3>2. m.type = "block" => m.id < a.id BY <1>10, <3>1 DEF More, Expected
    <3> QED BY <1>5, <3>2 DEF Across
  <2>4. a.type \notin {"block", "headers"} BY <1>5
  <2> QED BY <1>5, <2>1, <2>2, <2>3, <2>4, LineNodeAdded
<1>24. Expected'
  <2> SUFFICES ASSUME reorgs = 0 PROVE Coming(toSpv, toNode') = Wanted(queue')
    BY <1>1 DEF Expected
  <2>1. Coming(toSpv, toNode) = Wanted(queue) BY DEF More, Expected
  <2>2. Coming(toSpv, toNode') = Coming(toSpv, toNode) \cup {a.id} BY <1>5, ComingNode
  <2>3. Wanted(queue') = Wanted(queue) \cup {q.id}
    <3>1. \A i \in 1 .. Len(queue') : i \in 1 .. Len(queue) \/ i = Len(queue) + 1 BY <1>7
    <3>2. \A i \in 1 .. Len(queue) : i \in 1 .. Len(queue') BY <1>7
    <3>3. Len(queue) + 1 \in 1 .. Len(queue') BY <1>7
    <3> QED BY <1>7, <3>1, <3>2, <3>3 DEF Wanted
  <2> QED BY <1>5, <2>1, <2>2, <2>3
<1>25. Early' BY <1>1, <1>3, <1>5, KeepEarly DEF More
<1>26. Complete' BY <1>1, KeepComplete DEF More, InBlock
<1> QED BY <1>20, <1>21, <1>22, <1>23, <1>24, <1>25, <1>26 DEF More

LEMMA MoreEnterWait ==
  ASSUME Inv, Inv', More, EnterWaitState
  PROVE  More'
<1>1. UNCHANGED <<utxos, stxos, frozen, sends, sync, prev, missed, txUp, tracked, TxMap, blocks, best, mempool, rejected, reorgs, heightUp, toNode, toSpv, file, syncHeight, queue, okTxids, inc, restarts>>
  BY DEF EnterWaitState, wallet, node
<1>2. SameBlock BY <1>1, SameInc
<1>4. syncHeight = HeightOf(file) /\ ~Requesting' /\ ~Ingesting'
  BY DEF EnterWaitState, Requesting, Ingesting
<1>3. NoNewSights BY <1>1 DEF NoNewSights
<1>20. Names' BY <1>1, KeepNames DEF More
<1>21. Fresh' BY <1>1, KeepFresh DEF More
<1>22. Punctual'
  <2> SUFFICES ASSUME reorgs = 0 PROVE Punctual'
    BY <1>1 DEF Punctual
  <2>1. Punctual /\ InBlock' = InBlock BY <1>1 DEF More, InBlock
  <2>2. Ahead' = Ahead /\ HeightOf(file') = HeightOf(file) BY <1>1, <2>1 DEF Ahead, HeightOf
  <2> QED BY <1>1, <1>4, <2>1, <2>2 DEF Punctual
<1>23. Lined' BY <1>1, KeepLined DEF More
<1>24. Expected' BY <1>1, KeepExpected DEF More
<1>25. Early' BY <1>1, <1>3, <1>4, KeepEarly DEF More
<1>26. Complete' BY <1>1, KeepComplete DEF More, InBlock
<1> QED BY <1>20, <1>21, <1>22, <1>23, <1>24, <1>25, <1>26 DEF More

-----------------------------------------------------------------------------
(* The incoming handler takes a message, without a reorganisation.         *)

LEMMA Took ==
  ASSUME Inv, More, NEW type, Receive(type)
  PROVE  /\ inc = Idle /\ ~InBlock /\ toSpv # <<>> /\ toSpv' = Tail(toSpv) /\ IsSeq(toSpv)
         /\ Head(toSpv).type = type /\ FromNode(Head(toSpv)) /\ Head(toSpv) \in ToSet(toSpv)
         /\ \A m \in ToSet(toSpv') : m \in ToSet(toSpv)
         /\ reorgs = 0 => Line(blocks, toSpv', toNode)
         /\ reorgs = 0 => \A k \in ToSet(toSpv') : Before(blocks, Head(toSpv), k)
         /\ type # "block" => Coming(toSpv', toNode) = Coming(toSpv, toNode)
<1>1. inc = Idle /\ toSpv # <<>> /\ toSpv' = Tail(toSpv) /\ Head(toSpv).type = type
  BY DEF Receive
<1>2. IsSeq(toSpv) BY DEF Inv, FromOK
<1>3. Head(toSpv) \in ToSet(toSpv) /\ ToSet(Tail(toSpv)) \subseteq ToSet(toSpv) BY <1>1, <1>2, Shorter
<1>4. ~InBlock BY <1>1 DEF InBlock
<1>5. FromNode(Head(toSpv)) BY <1>3 DEF Inv, FromOK
<1>6. ASSUME reorgs = 0
      PROVE  Line(blocks, Tail(toSpv), toNode) /\ \A k \in ToSet(Tail(toSpv)) : Before(blocks, Head(toSpv), k)
  <2>1. Line(blocks, toSpv, toNode) BY <1>6 DEF More, Lined
  <2>2. Line(blocks, Tail(toSpv), toNode) BY <1>1, <1>2, <2>1, LineSpvTaken
  <2>3. Ordered(blocks, toSpv) BY <2>1 DEF Line
  <2> QED BY <1>1, <1>2, <2>2, <2>3, OrderedTail
<1>7. ASSUME type # "block" PROVE Coming(Tail(toSpv), toNode) = Coming(toSpv, toNode)
  <2>1. Coming(toSpv, toNode) = Coming(Tail(toSpv), toNode)
           \cup (IF Head(toSpv).type = "block" THEN {Head(toSpv).id} ELSE {})
    BY <1>1, <1>2, ComingSpvTaken
  <2>2. Head(toSpv).type # "block" BY <1>1, <1>7
  <2> QED BY <2>1, <2>2
<1> QED BY <1>1, <1>2, <1>3, <1>4, <1>5, <1>6, <1>7

LEMMA MoreHeaderHandler ==
  ASSUME Inv, Inv', More, HeaderHandler
  PROVE  More'
<1>1. UNCHANGED <<utxos, stxos, frozen, sends, sync, prev, missed, txUp, tracked, TxMap, blocks, best, mempool, rejected, reorgs, heightUp, toNode, file, syncHeight, queue, wait, okTxids, inc, restarts>>
  BY DEF HeaderHandler, wallet, node
<1>2. SameBlock BY <1>1, SameInc
<1>6. /\ inc = Idle /\ ~InBlock /\ toSpv # <<>> /\ toSpv' = Tail(toSpv) /\ IsSeq(toSpv)
      /\ Head(toSpv).type = "headers" /\ FromNode(Head(toSpv)) /\ Head(toSpv) \in ToSet(toSpv)
      /\ \A m \in ToSet(toSpv') : m \in ToSet(toSpv)
      /\ reorgs = 0 => Line(blocks, toSpv', toNode)
      /\ reorgs = 0 => \A k \in ToSet(toSpv') : Before(blocks, Head(toSpv), k)
      /\ Coming(toSpv', toNode) = Coming(toSpv, toNode)
  <2>1. Receive("headers") BY DEF HeaderHandler
  <2> QED BY <2>1, Took
<1>4. ~Requesting' /\ hh'[1].hdrs = Head(toSpv).hdrs
  <2>1. PICK r : r = [pc |-> "ingest", hdrs |-> Head(toSpv).hdrs]
    OBVIOUS
  <2>2. hh' = <<r>> /\ r.pc = "ingest" /\ r.hdrs = Head(toSpv).hdrs BY <2>1 DEF HeaderHandler
  <2> QED BY <2>2 DEF Requesting
<1>3. NoNewSights BY <1>1, <1>6 DEF NoNewSights
<1>20. Names' BY <1>1, KeepNames DEF More
<1>21. Fresh' BY <1>1, KeepFresh DEF More
<1>22. Punctual' BY <1>1, <1>2, <1>4, KeepPunctual DEF More, Requesting
<1>23. Lined'
  <2> SUFFICES ASSUME reorgs = 0 PROVE Line(blocks, toSpv', toNode)
    BY <1>1 DEF Lined
  <2> QED BY <1>6
<1>24. Expected' BY <1>1, <1>6 DEF More, Expected
<1>25. Early'
  <2> SUFFICES ASSUME reorgs = 0 PROVE Early'
    BY <1>1 DEF Early
  <2>1. InBlock' = InBlock BY <1>1 DEF InBlock
  <2>2. \A b : Fetched(b)' = Fetched(b) BY <1>1, <2>1 DEF Fetched, High
  <2>3. \A t : Sighted(t) => Sighted(t)' BY <1>1, <2>2 DEF Sighted, Txs
  <2>4. \A t : Rising(t) => Rising(t)' BY <1>1, <2>1 DEF Rising, Txs, High
  <2>5. ASSUME NEW k \in ToSet(toSpv'), k.type = "invtx" PROVE News(k.tx)'
    <3>1. k \in ToSet(toSpv) /\ Before(blocks, Head(toSpv), k) BY <1>6
    <3>2. News(k.tx) BY <2>5, <3>1 DEF More, Early
    <3>3. \A b \in ToSet(Head(toSpv).hdrs) : k.tx \notin Txs(blocks, b) BY <1>6, <2>5, <3>1 DEF Before
    <3>4. hh'[1].hdrs = Head(toSpv).hdrs BY <1>4
    <3> QED BY <1>1, <3>2, <3>3, <3>4 DEF News, Txs
  <2> QED BY <1>1, <1>6, <2>1, <2>3, <2>4, <2>5 DEF More, Early
<1>26. Complete' BY <1>1, KeepComplete DEF More, InBlock
<1> QED BY <1>20, <1>21, <1>22, <1>23, <1>24, <1>25, <1>26 DEF More

LEMMA MoreInvBlock ==
  ASSUME Inv, Inv', More, InvBlock
  PROVE  More'
<1>1. UNCHANGED <<utxos, stxos, frozen, sends, sync, prev, missed, txUp, tracked, TxMap, blocks, best, mempool, rejected, reorgs, heightUp, file, syncHeight, queue, okTxids, hh, inc, restarts>>
  BY DEF InvBlock, wallet, node
<1>2. SameBlock BY <1>1, SameInc
<1>6. /\ inc = Idle /\ ~InBlock /\ toSpv # <<>> /\ toSpv' = Tail(toSpv) /\ IsSeq(toSpv)
      /\ Head(toSpv).type = "invblock" /\ FromNode(Head(toSpv)) /\ Head(toSpv) \in ToSet(toSpv)
      /\ \A m \in ToSet(toSpv') : m \in ToSet(toSpv)
      /\ reorgs = 0 => Line(blocks, toSpv', toNode)
      /\ reorgs = 0 => \A k \in ToSet(toSpv') : Before(blocks, Head(toSpv), k)
      /\ Coming(toSpv', toNode) = Coming(toSpv, toNode)
  <2>1. Receive("invblock") BY DEF InvBlock
  <2> QED BY <2>1, Took
<1>4. wait' = FALSE /\ (toNode' = AskForHeaders \/ toNode' = toNode) BY DEF InvBlock
<1>5. /\ \A m \in ToSet(toNode') : m.type = "getheaders" \/ m \in ToSet(toNode)
      /\ reorgs = 0 => Line(blocks, toSpv', toNode')
      /\ Coming(toSpv', toNode') = Coming(toSpv', toNode)
  <2>1. IsSeq(toNode) BY DEF Inv, ToOK
  <2>2. Line(blocks, toSpv', toNode) \/ reorgs # 0 BY <1>6
  <2>3. PICK p : p = toSpv'
    OBVIOUS
  <2>4. Line(blocks, p, toNode) \/ reorgs # 0 BY <2>2, <2>3
  <2>5. CASE toNode' = AskForHeaders
    <3>1. /\ reorgs = 0 => Line(blocks, p, AskForHeaders)
          /\ Coming(p, AskForHeaders) = Coming(p, toNode)
          /\ \A m \in ToSet(AskForHeaders) : m.type = "getheaders" \/ m \in ToSet(toNode)
      BY <2>1, <2>4, AskedInLine
    <3> QED BY <2>3, <2>5, <3>1
  <2>6. CASE toNode' = toNode BY <2>3, <2>4, <2>6
  <2> QED BY <1>4, <2>5, <2>6
<1>3. NoNewSights BY <1>5, <1>6 DEF NoNewSights
<1>20. Names' BY <1>1, KeepNames DEF More
<1>21. Fresh' BY <1>1, <1>5, KeepFresh DEF More
<1>22. Punctual'
  <2> SUFFICES ASSUME reorgs = 0 PROVE Punctual'
    BY <1>1 DEF Punctual
  <2>1. Punctual /\ InBlock' = InBlock BY <1>1 DEF More, InBlock
  <2>2. Ahead' = Ahead BY <1>1, <2>1 DEF Ahead
  <2> QED BY <1>1, <1>4, <2>1, <2>2 DEF Punctual, Requesting
<1>23. Lined'
  <2> SUFFICES ASSUME reorgs = 0 PROVE Line(blocks, toSpv', toNode')
    BY <1>1 DEF Lined
  <2> QED BY <1>5
<1>24. Expected' BY <1>1, <1>5, <1>6 DEF More, Expected
<1>25. Early' BY <1>1, <1>3, KeepEarly DEF More, Ingesting
<1>26. Complete' BY <1>1, KeepComplete DEF More, InBlock
<1> QED BY <1>20, <1>21, <1>22, <1>23, <1>24, <1>25, <1>26 DEF More

LEMMA MoreInvTx ==
  ASSUME Inv, Inv', More, InvTx
  PROVE  More'
<1>1. UNCHANGED <<utxos, stxos, frozen, sends, sync, prev, missed, txUp, tracked, TxMap, blocks, best, mempool, rejected, reorgs, heightUp, file, syncHeight, queue, wait, hh, inc, restarts>>
  BY DEF InvTx, wallet, node
<1>2. SameBlock BY <1>1, SameInc
<1>6. /\ inc = Idle /\ ~InBlock /\ toSpv # <<>> /\ toSpv' = Tail(toSpv) /\ IsSeq(toSpv)
      /\ Head(toSpv).type = "invtx" /\ FromNode(Head(toSpv)) /\ Head(toSpv) \in ToSet(toSpv)
      /\ \A m \in ToSet(toSpv') : m \in ToSet(toSpv)
      /\ reorgs = 0 => Line(blocks, toSpv', toNode)
      /\ reorgs = 0 => \A k \in ToSet(toSpv') : Before(blocks, Head(toSpv), k)
      /\ Coming(toSpv', toNode) = Coming(toSpv, toNode)
  <2>1. Receive("invtx") BY DEF InvTx
  <2> QED BY <2>1, Took
<1>7. PICK a : toNode' = Append(toNode, a) /\ a.type = "gettx" /\ a.tx = Head(toSpv).tx /\ IsSeq(toNode)
  <2>1. PICK a : a = [type |-> "gettx", tx |-> Head(toSpv).tx]
    OBVIOUS
  <2>2. a.type = "gettx" /\ a.tx = Head(toSpv).tx BY <2>1
  <2> QED BY <2>1, <2>2 DEF InvTx, Inv, ToOK
<1>8. \A m \in ToSet(toNode') : m = a \/ m \in ToSet(toNode)
  <2>1. ToSet(Append(toNode, a)) = ToSet(toNode) \cup {a} BY <1>7, Grown
  <2> QED BY <1>7, <2>1
<1>9. reorgs = 0 => News(a.tx) BY <1>6, <1>7 DEF More, Early
<1>20. Names' BY <1>1, KeepNames DEF More
<1>21. Fresh' BY <1>1, <1>7, <1>8, KeepFresh DEF More
<1>22. Punctual' BY <1>1, <1>2, KeepPunctual DEF More, Requesting
<1>23. Lined'
  <2> SUFFICES ASSUME reorgs = 0 PROVE Line(blocks, toSpv', toNode')
    BY <1>1 DEF Lined
  <2>1. Coming(toSpv, toNode) = Wanted(queue) BY DEF More, Expected
  <2>2. ASSUME NEW id \in Coming(toSpv, toNode) PROVE a.tx \notin Txs(blocks, id)
    <3>1. id \in 1 .. Len(file) BY <2>1, <2>2, QueuedIs
    <3>2. Len(file) \in Nat /\ Len(blocks) \in Nat /\ Len(file) <= Len(blocks) BY Flat
    <3>3. id \in 1 .. Len(blocks) /\ ~(id > Len(file)) BY <3>1, <3>2
    <3> QED BY <1>9, <3>3 DEF News
  <2>3. ASSUME NEW m \in ToSet(toNode) PROVE Before(blocks, m, a)
    <3>1. m.type = "getblock" => m.id \in Coming(toSpv, toNode) BY DEF Coming
    <3>2. m.type # "block"
      <4>1. Line(blocks, toSpv', toNode) BY <1>6
      <4> QED BY <4>1 DEF Line
    <3> QED BY <1>7, <2>2, <3>1, <3>2 DEF Before
  <2>4. ASSUME NEW m \in ToSet(toSpv') PROVE Across(blocks, m, a)
    <3>1. m \in ToSet(toSpv) BY <1>6
    <3>2. m.type = "block" => m.id \in Coming(toSpv, toNode) BY <3>1 DEF Coming
    <3> QED BY <1>7, <2>2, <3>2 DEF Across
  <2>5. a.type \notin {"block", "headers"} BY <1>7
  <2>6. PICK p : p = toSpv'
    OBVIOUS
  <2>7. Line(blocks, p, Append(toNode, a))
    <3>1. Line(blocks, p, toNode) /\ \A m \in ToSet(p) : Across(blocks, m, a) BY <1>6, <2>4, <2>6
    <3> QED BY <1>7, <2>3, <2>5, <3>1, LineNodeAdded
  <2> QED BY <1>7, <2>6, <2>7
<1>24. Expected'
  <2>1. PICK p : p = toSpv'
    OBVIOUS
  <2>2. Coming(p, Append(toNode, a)) = Coming(p, toNode) \cup (IF a.type = "getblock" THEN {a.id} ELSE {})
    BY <1>7, ComingNode
  <2>3. Coming(toSpv', toNode') = Coming(toSpv, toNode) BY <1>6, <1>7, <2>1, <2>2
  <2> QED BY <1>1, <2>3 DEF More, Expected
<1>25. Early'
  <2> SUFFICES ASSUME reorgs = 0 PROVE Early'
    BY <1>1 DEF Early
  <2>1. \A t : (News(t) => News(t)') /\ (Sighted(t) => Sighted(t)') /\ (Rising(t) => Rising(t)')
    BY <1>1, SameViews
  <2>2. Sighted(a.tx)
    <3> SUFFICES ASSUME NEW b \in 1 .. Len(blocks), a.tx \in Txs(blocks, b) PROVE ~Fetched(b)
      BY DEF Sighted
    <3>1. b > Len(file) BY <1>9 DEF News
    <3>2. /\ Len(file) \in Nat /\ StartHeight \in Nat /\ HeightOf(file) = High(Len(file))
          /\ syncHeight \in Nat /\ syncHeight <= HeightOf(file)
      BY Flat
    <3>3. ~(High(b) <= syncHeight) BY <3>1, <3>2 DEF High
    <3> QED BY <1>6, <3>3 DEF Fetched
  <2>3. \A k \in ToSet(toNode') : k.type = "gettx" => Sighted(k.tx)'
    BY <1>8, <2>1, <2>2 DEF More, Early
  <2>4. \A k \in ToSet(toSpv') : (k.type = "invtx" => News(k.tx)') /\ (k.type = "tx" => Sighted(k.tx)')
    BY <1>6, <2>1 DEF More, Early
  <2> QED BY <1>1, <2>1, <2>3, <2>4 DEF More, Early, InBlock
<1>26. Complete' BY <1>1, KeepComplete DEF More, InBlock
<1> QED BY <1>20, <1>21, <1>22, <1>23, <1>24, <1>25, <1>26 DEF More

LEMMA HighIs ==
  ASSUME NEW x \in Nat, NEW y \in Nat
  PROVE  /\ High(x) = High(y) <=> x = y
         /\ High(x) < High(y) <=> x < y
  BY SpvAssumption DEF High

LEMMA OneOf ==
  ASSUME NEW x
  PROVE  IsSeq(<<x>>) /\ ToSet(<<x>>) = {x}
<1>1. PICK e : e = <<>>
  OBVIOUS
<1>2. IsSeq(e) /\ ToSet(e) = {} BY <1>1, NothingYet
<1>3. IsSeq(Append(e, x)) /\ ToSet(Append(e, x)) = {x} BY <1>2, Grown
<1>4. Append(e, x) = <<x>> BY <1>1
<1> QED BY <1>3, <1>4

LEMMA MoreTxHandler ==
  ASSUME Inv, Inv', More, TxHandler
  PROVE  More'
<1>1. UNCHANGED <<utxos, stxos, frozen, sends, sync, prev, missed, txUp, tracked, TxMap, blocks, best, mempool, rejected, reorgs, heightUp, toNode, file, syncHeight, queue, wait, okTxids, hh, restarts>>
  BY DEF TxHandler, wallet, node
<1>6. /\ inc = Idle /\ ~InBlock /\ toSpv # <<>> /\ toSpv' = Tail(toSpv) /\ IsSeq(toSpv)
      /\ Head(toSpv).type = "tx" /\ FromNode(Head(toSpv)) /\ Head(toSpv) \in ToSet(toSpv)
      /\ \A m \in ToSet(toSpv') : m \in ToSet(toSpv)
      /\ reorgs = 0 => Line(blocks, toSpv', toNode)
      /\ reorgs = 0 => \A k \in ToSet(toSpv') : Before(blocks, Head(toSpv), k)
      /\ Coming(toSpv', toNode) = Coming(toSpv, toNode)
  <2>1. Receive("tx") BY DEF TxHandler
  <2> QED BY <2>1, Took
<1>2. SameBlock
  <2>1. ~InBlock'
    <3>1. PICK r : /\ r = [txs |-> <<Head(toSpv).tx>>, height |-> 0, block |-> FALSE, final |-> FALSE]
                   /\ inc' = Idle \/ inc' = <<r>>
      BY DEF TxHandler
    <3>2. r.block = FALSE BY <3>1
    <3> QED BY <3>1, <3>2 DEF InBlock
  <2> QED BY <1>6, <2>1 DEF SameBlock
<1>8. PICK x : x = Head(toSpv).tx
  OBVIOUS
<1>9. PICK r : /\ r = [txs |-> <<x>>, height |-> 0, block |-> FALSE, final |-> FALSE]
               /\ inc' = Idle \/ inc' = <<r>>
  BY <1>8 DEF TxHandler
<1>10. ~InBlock' /\ (inc' # Idle => ToSet(inc'[1].txs) = {x})
  <2>1. CASE inc' = Idle BY <2>1 DEF InBlock
  <2>2. CASE inc' = <<r>>
    <3>1. inc'[1].block = FALSE /\ inc'[1].txs = <<x>> BY <1>9, <2>2
    <3>2. ToSet(<<x>>) = {x} BY OneOf
    <3> QED BY <3>1, <3>2 DEF InBlock
  <2> QED BY <1>9, <2>1, <2>2
<1>20. Names' BY <1>1, KeepNames DEF More
<1>21. Fresh' BY <1>1, KeepFresh DEF More
<1>22. Punctual' BY <1>1, <1>2, KeepPunctual DEF More, Requesting
<1>23. Lined'
  <2> SUFFICES ASSUME reorgs = 0 PROVE Line(blocks, toSpv', toNode)
    BY <1>1 DEF Lined
  <2> QED BY <1>6
<1>24. Expected' BY <1>1, <1>6 DEF More, Expected
<1>25. Early'
  <2> SUFFICES ASSUME reorgs = 0 PROVE Early'
    BY <1>1 DEF Early
  <2>1. ~InBlock' /\ ~InBlock BY <1>6, <1>10
  <2>2. \A b : Fetched(b)' = Fetched(b) BY <1>1, <2>1 DEF Fetched, High
  <2>3. \A t : Sighted(t) => Sighted(t)' BY <1>1, <2>2 DEF Sighted, Txs
  <2>4. \A t : Rising(t) => Rising(t)' BY <1>1, <2>1 DEF Rising, Txs, High
  <2>5. \A t : News(t) => News(t)' BY <1>1 DEF News, Txs, Ingesting
  <2>6. Sighted(x) BY <1>6, <1>8 DEF More, Early
  <2>7. \A k \in ToSet(toSpv') : (k.type = "invtx" => News(k.tx)') /\ (k.type = "tx" => Sighted(k.tx)')
    BY <1>6, <2>3, <2>5 DEF More, Early
  <2>8. inc' # Idle => \A tx \in ToSet(inc'[1].txs) : Sighted(tx)'
    BY <1>10, <2>3, <2>6
  <2>9. \A k \in ToSet(toNode') : k.type = "gettx" => Sighted(k.tx)' BY <1>1, <2>3 DEF More, Early
  <2>10. ~missed' => \A u \in ToSet(txUp') : u.height = 0 /\ Mine(u.tx) # {} => Rising(u.tx)' BY <1>1, <2>4 DEF More, Early
  <2> QED BY <2>7, <2>8, <2>9, <2>10 DEF Early
<1>26. Complete'
  <2>1. InBlock' = InBlock /\ ~InBlock BY <1>6, <1>10 DEF InBlock
  <2> QED BY <1>1, <2>1, KeepComplete DEF More
<1> QED BY <1>20, <1>21, <1>22, <1>23, <1>24, <1>25, <1>26 DEF More

LEMMA AnswersOfData ==
  ASSUME Inv, GetDataHandler
  PROVE  \E ms :
           /\ IsSeq(ms) /\ toNode' = toNode \o ms
           /\ \A m \in ToSet(ms) :
                \E t \in TxMap : m = [type |-> "tx", tx |-> t.tx, signed |-> t.signed]
<1> DEFINE S == {s \in TxMap : s.tx = Head(toSpv).tx}
           T == {[type |-> "tx", tx |-> t.tx, signed |-> t.signed] : t \in S}
           f == [t \in S |-> [type |-> "tx", tx |-> t.tx, signed |-> t.signed]]
<1>1. IsFiniteSet(S) BY FS_Subset DEF Inv, MapOK
<1>2. f \in Surjection(S, T)
  <2>1. f \in [S -> T]
    OBVIOUS
  <2>2. \A t \in T : \E s \in S : f[s] = t
    OBVIOUS
  <2> HIDE DEF f, S, T
  <2> QED BY <2>1, <2>2 DEF Surjection
<1>3. toNode' = toNode \o SetToSeq(T) BY DEF GetDataHandler
<1>4. \A m \in T : \E t \in TxMap : m = [type |-> "tx", tx |-> t.tx, signed |-> t.signed]
  OBVIOUS
<1> HIDE DEF f, S, T
<1>5. IsFiniteSet(T) BY <1>1, <1>2, FS_Surjection
<1>6. IsSeq(SetToSeq(T)) /\ ToSet(SetToSeq(T)) \subseteq T BY <1>5, MadeOf
<1> QED BY <1>3, <1>4, <1>6

LEMMA MoreGetData ==
  ASSUME Inv, Inv', More, GetDataHandler
  PROVE  More'
<1>1. UNCHANGED <<utxos, stxos, frozen, sends, sync, prev, missed, txUp, tracked, TxMap, blocks, best, mempool, rejected, reorgs, heightUp, file, syncHeight, queue, wait, okTxids, hh, inc, restarts>>
  BY DEF GetDataHandler, wallet, node
<1>2. SameBlock BY <1>1, SameInc
<1>6. /\ inc = Idle /\ ~InBlock /\ toSpv # <<>> /\ toSpv' = Tail(toSpv) /\ IsSeq(toSpv)
      /\ Head(toSpv).type = "getdata" /\ FromNode(Head(toSpv)) /\ Head(toSpv) \in ToSet(toSpv)
      /\ \A m \in ToSet(toSpv') : m \in ToSet(toSpv)
      /\ reorgs = 0 => Line(blocks, toSpv', toNode)
      /\ reorgs = 0 => \A k \in ToSet(toSpv') : Before(blocks, Head(toSpv), k)
      /\ Coming(toSpv', toNode) = Coming(toSpv, toNode)
  <2>1. Receive("getdata") BY DEF GetDataHandler
  <2> QED BY <2>1, Took
<1>8. IsSeq(toNode) BY DEF Inv, ToOK
<1>7. PICK ms : /\ IsSeq(ms) /\ toNode' = toNode \o ms
                /\ \A m \in ToSet(ms) :
                     \E t \in TxMap : m = [type |-> "tx", tx |-> t.tx, signed |-> t.signed]
  BY AnswersOfData
<1>9. \A m \in ToSet(ms) : m.type = "tx" /\ \E t \in TxMap : m.tx = t.tx
  <2> SUFFICES ASSUME NEW m \in ToSet(ms) PROVE m.type = "tx" /\ \E t \in TxMap : m.tx = t.tx
    OBVIOUS
  <2>1. PICK t \in TxMap : m = [type |-> "tx", tx |-> t.tx, signed |-> t.signed] BY <1>7
  <2> QED BY <2>1
<1>10. ToSet(toNode') = ToSet(toNode) \cup ToSet(ms) BY <1>7, <1>8, Joined
<1>3. NoNewSights BY <1>6, <1>9, <1>10 DEF NoNewSights
<1>20. Names' BY <1>1, KeepNames DEF More
<1>21. Fresh'
  <2>1. \A m \in ToSet(toNode') : m.type = "tx" => m \in ToSet(toNode) \/ \E t \in TxMap : m.tx = t.tx
    BY <1>9, <1>10
  <2>2. \A op \in DOMAIN frozen : Unsent(frozen[op]) => Unsent(frozen[op])'
    <3> SUFFICES ASSUME NEW op \in DOMAIN frozen, Unsent(frozen[op]) PROVE Unsent(frozen[op])'
      OBVIOUS
    <3> QED BY <1>1, <2>1 DEF Unsent, Txs
  <2> QED BY <1>1, <2>1, <2>2 DEF More, Fresh, Ours
<1>22. Punctual' BY <1>1, <1>2, KeepPunctual DEF More, Requesting
<1>23. Lined'
  <2> SUFFICES ASSUME reorgs = 0 PROVE Line(blocks, toSpv', toNode')
    BY <1>1 DEF Lined
  <2>1. Line(blocks, toSpv', toNode) BY <1>6
  <2>2. \A k \in ToSet(toNode) : k.type # "block" BY <2>1 DEF Line
  <2>3. Ordered(blocks, toNode) BY <2>1 DEF Line
  <2>4. \A m \in ToSet(ms) : m.type = "tx" BY <1>9
  <2>5. Ordered(blocks, toNode \o ms) BY <1>7, <1>8, <2>2, <2>3, <2>4, OrderedJoined
  <2>6. ASSUME NEW m, NEW k \in ToSet(ms) PROVE Across(blocks, m, k) /\ k.type \notin {"block", "headers"}
    BY <2>4 DEF Across
  <2> QED BY <1>7, <1>10, <2>1, <2>5, <2>6 DEF Line
<1>24. Expected'
  <2>1. \A m \in ToSet(toNode') : m.type = "getblock" => m \in ToSet(toNode) BY <1>9, <1>10
  <2>2. \A m \in ToSet(toNode) : m \in ToSet(toNode') BY <1>10
  <2>3. Coming(toSpv', toNode') = Coming(toSpv', toNode) BY <2>1, <2>2 DEF Coming
  <2> QED BY <1>1, <1>6, <2>3 DEF More, Expected
<1>25. Early' BY <1>1, <1>3, KeepEarly DEF More, Ingesting
<1>26. Complete' BY <1>1, KeepComplete DEF More, InBlock
<1> QED BY <1>20, <1>21, <1>22, <1>23, <1>24, <1>25, <1>26 DEF More

LEMMA MoreBlockArrives ==
  ASSUME Inv, Inv', More, BlockArrives
  PROVE  More'
<1>1. UNCHANGED <<utxos, stxos, frozen, sends, sync, prev, missed, txUp, tracked, TxMap, blocks, best, mempool, rejected, reorgs, heightUp, toNode, file, syncHeight, wait, okTxids, hh, restarts>>
  BY DEF BlockArrives, wallet, node
<1>6. /\ inc = Idle /\ ~InBlock /\ toSpv # <<>> /\ toSpv' = Tail(toSpv) /\ IsSeq(toSpv)
      /\ Head(toSpv).type = "block" /\ FromNode(Head(toSpv)) /\ Head(toSpv) \in ToSet(toSpv)
      /\ \A m \in ToSet(toSpv') : m \in ToSet(toSpv)
      /\ reorgs = 0 => Line(blocks, toSpv', toNode)
      /\ reorgs = 0 => \A k \in ToSet(toSpv') : Before(blocks, Head(toSpv), k)
  <2>1. Receive("block") BY DEF BlockArrives
  <2> QED BY <2>1, Took
<1>7. queue # <<>> /\ queue' = Tail(queue) /\ IsSeq(queue) BY DEF BlockArrives, Inv, QueueOK
<1>11. PICK e : e = Head(queue)
  OBVIOUS
<1>8. /\ e = queue[1] /\ 1 \in 1 .. Len(queue) /\ e.height \in Nat
      /\ Len(queue) \in Nat /\ Len(queue') = Len(queue) - 1 /\ IsSeq(queue')
      /\ \A i \in 1 .. Len(queue') : queue'[i] = queue[i + 1]
  <2>1. /\ e = queue[1] /\ Len(queue) \in Nat /\ 1 <= Len(queue) /\ Len(queue') = Len(queue) - 1
        /\ IsSeq(queue') /\ \A i \in 1 .. Len(queue') : queue'[i] = queue[i + 1]
    BY <1>7, <1>11, TailIs
  <2>2. 1 \in 1 .. Len(queue) BY <2>1
  <2>3. e.height \in Nat BY <2>1, <2>2 DEF Inv, QueueOK
  <2> QED BY <2>1, <2>2, <2>3
<1>12. PICK b : b = Head(toSpv).id /\ b \in 1 .. Len(blocks) BY <1>6 DEF FromNode
<1>9. PICK r : /\ r = [txs |-> blocks[e.id].txs, height |-> e.height, block |-> TRUE, final |-> e.final]
               /\ e.id = b => inc' = <<r>>
               /\ e.id # b => inc' = Idle
  <2>1. PICK r : r = [txs |-> blocks[e.id].txs, height |-> e.height, block |-> TRUE, final |-> e.final]
    OBVIOUS
  <2>2. inc' = IF e.id = b THEN <<r>> ELSE Idle BY <1>11, <1>12, <2>1 DEF BlockArrives
  <2> QED BY <2>1, <2>2
<1>10. reorgs = 0 =>
         /\ e.id = b /\ b \in 1 .. Len(blocks) /\ e.height = High(b) /\ e.height = syncHeight + 1
         /\ Coming(toSpv', toNode) = Wanted(queue')
  <2> SUFFICES ASSUME reorgs = 0
               PROVE  /\ e.id = b /\ b \in 1 .. Len(blocks) /\ e.height = High(b) /\ e.height = syncHeight + 1
                      /\ Coming(toSpv', toNode) = Wanted(queue')
    OBVIOUS
  <2>1. Coming(toSpv, toNode) = Wanted(queue) BY DEF More, Expected
  <2>2. Coming(toSpv, toNode) = Coming(toSpv', toNode) \cup {b}
    <3>1. Coming(toSpv, toNode) = Coming(Tail(toSpv), toNode)
             \cup (IF Head(toSpv).type = "block" THEN {Head(toSpv).id} ELSE {})
      BY <1>6, ComingSpvTaken
    <3>2. Head(toSpv).type = "block" BY <1>6
    <3> QED BY <1>6, <1>12, <3>1, <3>2
  <2>3. ASSUME NEW id \in Coming(toSpv', toNode) PROVE b < id
    <3>1. CASE \E m \in ToSet(toSpv') : m.type = "block" /\ m.id = id
      BY <1>6, <1>12, <3>1 DEF Before
    <3>2. CASE \E k \in ToSet(toNode) : k.type = "getblock" /\ k.id = id
      <4>1. Line(blocks, toSpv, toNode) BY DEF More, Lined
      <4>2. \A k \in ToSet(toNode) : Across(blocks, Head(toSpv), k) BY <1>6, <4>1 DEF Line
      <4> QED BY <1>6, <1>12, <3>2, <4>2 DEF Across
    <3> QED BY <3>1, <3>2 DEF Coming
  <2>4. \A i \in 1 .. Len(queue) : queue[i].height \in Nat /\ queue[i].id \in 1 .. Len(file) /\ High(queue[i].id) = queue[i].height
    BY FlatQueue
  <2>5. Len(file) \in Nat BY Flat
  <2>6. \A i \in 1 .. Len(queue) : queue[i].id \in Nat BY <2>4, <2>5
  <2>7. ASSUME NEW id \in Wanted(queue') PROVE e.id < id /\ id \in Wanted(queue)
    <3>1. PICK i \in 1 .. Len(queue') : queue'[i].id = id BY DEF Wanted
    <3>2. i + 1 \in 1 .. Len(queue) /\ 1 < i + 1 /\ queue'[i] = queue[i + 1] BY <1>8
    <3>3. queue[1].height < queue[i + 1].height BY <1>8, <3>2 DEF Inv, QueueOK
    <3>4. High(e.id) < High(id) BY <1>8, <2>4, <3>1, <3>2, <3>3
    <3>5. e.id \in Nat /\ id \in Nat BY <1>8, <2>6, <3>1, <3>2
    <3>6. e.id < id BY <3>4, <3>5, HighIs
    <3> QED BY <3>1, <3>2, <3>6 DEF Wanted
  <2>8. Wanted(queue) = {e.id} \cup Wanted(queue')
    <3>1. e.id \in Wanted(queue) BY <1>8 DEF Wanted
    <3>2. ASSUME NEW i \in 1 .. Len(queue) PROVE queue[i].id \in {e.id} \cup Wanted(queue')
      <4>1. CASE i = 1 BY <1>8, <4>1
      <4>2. CASE i # 1
        <5>1. i - 1 \in 1 .. Len(queue') /\ (i - 1) + 1 = i BY <1>8, <4>2
        <5>2. queue'[i - 1] = queue[i] BY <1>8, <5>1
        <5> QED BY <5>1, <5>2 DEF Wanted
      <4> QED BY <4>1, <4>2
    <3> QED BY <2>7, <3>1, <3>2 DEF Wanted
  <2>9. e.id \in Nat /\ b \in Nat BY <1>8, <1>12, <2>6
  <2>10. \A id \in Wanted(queue') : id \in Nat
    <3> SUFFICES ASSUME NEW id \in Wanted(queue') PROVE id \in Nat
      OBVIOUS
    <3>1. id \in Wanted(queue) BY <2>7
    <3> QED BY <2>6, <3>1 DEF Wanted
  <2>11. e.id = b
    <3> SUFFICES ASSUME e.id # b PROVE FALSE
      OBVIOUS
    <3>1. b \in Wanted(queue') BY <2>1, <2>2, <2>8
    <3>2. e.id \in Coming(toSpv', toNode) BY <2>1, <2>2, <2>8
    <3>3. e.id < b /\ b < e.id BY <2>3, <2>7, <3>1, <3>2
    <3> QED BY <2>9, <3>3
  <2>12. b \notin Wanted(queue') /\ b \notin Coming(toSpv', toNode)
    <3>1. ~(b < b) BY <2>9
    <3> QED BY <2>3, <2>7, <2>11, <3>1
  <2>13. Coming(toSpv', toNode) = Wanted(queue')
    <3>1. PICK A : A = Coming(toSpv', toNode)
      OBVIOUS
    <3>2. PICK B : B = Wanted(queue')
      OBVIOUS
    <3>3. A \cup {b} = {b} \cup B BY <2>1, <2>2, <2>8, <2>11, <3>1, <3>2
    <3>4. b \notin A /\ b \notin B BY <2>12, <3>1, <3>2
    <3>5. A = B BY <3>3, <3>4
    <3> QED BY <3>1, <3>2, <3>5
  <2>14. e.height = High(b) BY <1>8, <2>4, <2>11
  <2>15. e.height = syncHeight + 1
    <3>1. Ahead = syncHeight BY <1>6 DEF Ahead
    <3>2. queue[1].height = Ahead + 1 BY <1>8 DEF More, Punctual
    <3> QED BY <1>8, <3>1, <3>2
  <2> QED BY <1>12, <2>11, <2>13, <2>14, <2>15
<1>13. reorgs = 0 => InBlock' /\ inc'[1].height = e.height /\ ToSet(inc'[1].txs) = Txs(blocks, b)
  <2> SUFFICES ASSUME reorgs = 0
               PROVE  InBlock' /\ inc'[1].height = e.height /\ ToSet(inc'[1].txs) = Txs(blocks, b)
    OBVIOUS
  <2>1. inc' = <<r>> /\ e.id = b BY <1>9, <1>10
  <2>2. inc'[1] = r /\ inc' # Idle BY <2>1 DEF Idle
  <2>3. r.block = TRUE /\ r.height = e.height /\ r.txs = blocks[e.id].txs BY <1>9
  <2> QED BY <2>1, <2>2, <2>3 DEF InBlock, Txs
<1>14. reorgs = 0 => \A x \in 1 .. Len(blocks) : inc'[1].height = High(x) => x = b
  <2> SUFFICES ASSUME reorgs = 0, NEW x \in 1 .. Len(blocks), inc'[1].height = High(x) PROVE x = b
    OBVIOUS
  <2>1. High(x) = High(b) BY <1>10, <1>13
  <2>2. x \in Nat /\ b \in Nat BY <1>12
  <2> QED BY <2>1, <2>2, HighIs
<1>20. Names' BY <1>1, KeepNames DEF More
<1>21. Fresh' BY <1>1, KeepFresh DEF More
<1>22. Punctual'
  <2> SUFFICES ASSUME reorgs = 0 PROVE Punctual'
    BY <1>1 DEF Punctual
  <2>1. syncHeight \in Nat BY DEF Inv, SlotsOK
  <2>2. Ahead = syncHeight /\ Ahead' = syncHeight + 1 BY <1>1, <1>6, <1>13 DEF Ahead
  <2>3. InBlock' => inc'[1].height = syncHeight' + 1 BY <1>1, <1>10, <1>13
  <2>4. ASSUME NEW i \in 1 .. Len(queue') PROVE queue'[i].height = Ahead' + i
    <3>1. i + 1 \in 1 .. Len(queue) /\ queue'[i] = queue[i + 1] /\ i \in Nat BY <1>8
    <3>2. queue[i + 1].height = Ahead + (i + 1) BY <3>1 DEF More, Punctual
    <3> QED BY <2>1, <2>2, <3>1, <3>2
  <2>5. Requesting' => hh'[1].req = Ahead' + Len(queue')
    <3>1. Requesting => hh[1].req = Ahead + Len(queue) BY DEF More, Punctual
    <3>2. Ahead + Len(queue) = Ahead' + Len(queue') BY <1>8, <2>1, <2>2
    <3> QED BY <1>1, <3>1, <3>2 DEF Requesting
  <2>6. prev' <= syncHeight' BY <1>1 DEF More, Punctual
  <2>7. wait' => syncHeight' = HeightOf(file') BY <1>1 DEF More, Punctual
  <2> QED BY <2>3, <2>4, <2>5, <2>6, <2>7 DEF Punctual
<1>23. Lined'
  <2> SUFFICES ASSUME reorgs = 0 PROVE Line(blocks, toSpv', toNode)
    BY <1>1 DEF Lined
  <2> QED BY <1>6
<1>24. Expected' BY <1>1, <1>10 DEF Expected
<1>25. Early'
  <2> SUFFICES ASSUME reorgs = 0 PROVE Early'
    BY <1>1 DEF Early
  <2>1. \A x \in 1 .. Len(blocks) : Fetched(x)' => Fetched(x) \/ x = b
    BY <1>1, <1>14 DEF Fetched, High
  <2>2. \A t : Sighted(t) /\ t \notin Txs(blocks, b) => Sighted(t)' BY <1>1, <2>1 DEF Sighted, Txs
  <2>3. \A t : Rising(t) => Rising(t)'
    <3> SUFFICES ASSUME NEW t, Rising(t), NEW x \in 1 .. Len(blocks), t \in Txs(blocks, x)
                 PROVE  syncHeight < High(x) /\ (inc'[1].height = High(x) => t \in ToSet(inc'[1].txs))
      BY <1>1 DEF Rising, Txs, High
    <3>1. syncHeight < High(x) BY DEF Rising
    <3>2. inc'[1].height = High(x) => x = b BY <1>14
    <3> QED BY <1>13, <3>1, <3>2
  <2>4. \A t : News(t) => News(t)' BY <1>1 DEF News, Txs, Ingesting
  <2>5. ASSUME NEW k \in ToSet(toSpv') PROVE (k.type = "invtx" => News(k.tx)') /\ (k.type = "tx" => Sighted(k.tx)')
    <3>1. k \in ToSet(toSpv) /\ Before(blocks, Head(toSpv), k) BY <1>6
    <3>2. k.type = "tx" => k.tx \notin Txs(blocks, b) BY <1>6, <1>12, <3>1 DEF Before
    <3> QED BY <2>2, <2>4, <3>1, <3>2 DEF More, Early
  <2>6. ASSUME NEW k \in ToSet(toNode'), k.type = "gettx" PROVE Sighted(k.tx)'
    <3>1. Line(blocks, toSpv, toNode) BY DEF More, Lined
    <3>2. Across(blocks, Head(toSpv), k) BY <1>1, <1>6, <3>1 DEF Line
    <3>3. k.tx \notin Txs(blocks, b) BY <1>6, <1>12, <2>6, <3>2 DEF Across
    <3> QED BY <1>1, <2>2, <2>6, <3>3 DEF More, Early
  <2>7. ~missed' => \A u \in ToSet(txUp') : u.height = 0 /\ Mine(u.tx) # {} => Rising(u.tx)' BY <1>1, <2>3 DEF More, Early
  <2> QED BY <1>13, <2>5, <2>6, <2>7 DEF Early
<1>26. Complete'
  <2> SUFFICES ASSUME reorgs = 0, ~missed PROVE Complete'
    BY <1>1 DEF Complete
  <2>1. \A t, h : HandedUp(t, h) => HandedUp(t, h)' BY <1>1 DEF HandedUp, Stored
  <2>2. ASSUME NEW x \in 1 .. Len(blocks), NEW t \in Txs(blocks, x), Done(t, x)' PROVE Done(t, x)
    <3>1. CASE InBlock' /\ inc'[1].height = High(x) /\ t \notin ToSet(inc'[1].txs)
      <4>1. x = b BY <1>14, <3>1
      <4> QED BY <1>13, <3>1, <4>1
    <3>2. CASE High(x) <= syncHeight BY <3>2 DEF Done
    <3> QED BY <1>1, <2>2, <3>1, <3>2 DEF Done, High
  <2> QED BY <1>1, <2>1, <2>2 DEF More, Complete, Txs, High
<1> QED BY <1>20, <1>21, <1>22, <1>23, <1>24, <1>25, <1>26 DEF More

-----------------------------------------------------------------------------
(* Transactions and heights are handed up, without a reorganisation.       *)

LEMMA MoreHandUp ==
  ASSUME Inv, Inv', More, HandUp
  PROVE  More'
<1>1. UNCHANGED <<utxos, stxos, frozen, sends, sync, prev, TxMap, blocks, best, mempool, rejected, reorgs, heightUp, toNode, toSpv, file, syncHeight, queue, wait, okTxids, hh, restarts>>
  BY DEF HandUp, node
<1>6. /\ inc # Idle /\ inc = <<inc[1]>>
      /\ inc[1] = [txs |-> inc[1].txs, height |-> inc[1].height, block |-> inc[1].block, final |-> inc[1].final]
      /\ inc[1].block \in BOOLEAN
  BY DEF HandUp, Inv, IncOK
<1>13. PICK x : x = Head(inc[1].txs)
  OBVIOUS
<1>7. /\ IsSeq(inc[1].txs) /\ inc[1].txs # <<>> /\ x \in ToSet(inc[1].txs)
      /\ ToSet(inc[1].txs) = {x} \cup ToSet(Tail(inc[1].txs))
  <2>1. inc[1].txs # <<>> /\ IsSeq(inc[1].txs) BY <1>6 DEF HandUp, Inv, IncOK
  <2> QED BY <1>13, <2>1, FrontAndRest
<1>8. PICK u : u = [tx |-> x, height |-> inc[1].height] /\ u.tx = x /\ u.height = inc[1].height
  <2>1. PICK u : u = [tx |-> x, height |-> inc[1].height]
    OBVIOUS
  <2> QED BY <2>1
<1>9. /\ txUp' = txUp \/ (txUp = <<>> /\ txUp' = Append(txUp, u))
      /\ ~missed' => ~missed /\ (Mine(x) # {} => txUp = <<>> /\ u \in ToSet(txUp'))
  <2>1. IsSeq(txUp) BY DEF Inv, SlotsOK
  <2>2. Len(txUp) < Slots => txUp = <<>>
    <3>1. Len(txUp) \in Nat /\ (txUp = <<>> <=> Len(txUp) = 0) BY <2>1, Elements
    <3> QED BY <3>1 DEF Slots
  <2>3. \/ Len(txUp) < Slots /\ txUp' = Append(txUp, u) /\ missed' = missed
        \/ txUp' = txUp /\ missed' = (missed \/ Mine(x) # {})
    BY <1>8, <1>13, Zenon DEF HandUp
  <2>4. \/ Len(txUp) < Slots /\ txUp' = Append(txUp, u) /\ (~missed' => ~missed)
        \/ txUp' = txUp /\ (~missed' => ~missed /\ Mine(x) = {})
    BY <2>3
  <2>5. u \in ToSet(Append(txUp, u)) BY <2>1, Grown
  <2> QED BY <2>2, <2>4, <2>5, Zenon
<1>11. \A v : v \in ToSet(txUp') => v \in ToSet(txUp) \/ v = u
  <2>1. IsSeq(txUp) BY DEF Inv, SlotsOK
  <2>2. ToSet(Append(txUp, u)) = ToSet(txUp) \cup {u} BY <2>1, Grown
  <2> QED BY <1>9, <2>2
<1>14. \A v : v \in ToSet(txUp) => v \in ToSet(txUp')
  <2>1. IsSeq(txUp) BY DEF Inv, SlotsOK
  <2>2. ToSet(Append(txUp, u)) = ToSet(txUp) \cup {u} BY <2>1, Grown
  <2> QED BY <1>9, <2>2
<1>10. PICK r : /\ r.txs = Tail(inc[1].txs) /\ r.height = inc[1].height /\ r.block = inc[1].block
                /\ r.final = inc[1].final
                /\ inc' = <<r>> \/ (inc' = Idle /\ inc[1].block = FALSE)
  <2>1. PICK r : r = [txs |-> Tail(inc[1].txs), height |-> inc[1].height, block |-> inc[1].block,
                      final |-> inc[1].final]
    OBVIOUS
  <2>2. /\ r.txs = Tail(inc[1].txs) /\ r.height = inc[1].height /\ r.block = inc[1].block
        /\ r.final = inc[1].final
    BY <2>1
  <2>3. [inc[1] EXCEPT !.txs = Tail(inc[1].txs)] = r BY <1>6, <2>1, OneLess
  <2>4. inc' = <<r>> \/ (inc' = Idle /\ ~inc[1].block) BY <2>3, Zenon DEF HandUp
  <2>5. ~inc[1].block => inc[1].block = FALSE BY <1>6, Zenon
  <2> QED BY <2>1, <2>2, <2>4, <2>5, Zenon
<1>12. /\ InBlock => InBlock' /\ inc'[1].height = inc[1].height /\ inc'[1].txs = Tail(inc[1].txs)
       /\ InBlock' => InBlock
       /\ inc' # Idle => /\ \A t \in ToSet(inc'[1].txs) : t \in ToSet(inc[1].txs)
                         /\ \A t \in ToSet(inc[1].txs) : t = x \/ t \in ToSet(inc'[1].txs)
  <2>1. CASE inc' = <<r>>
    <3>1. inc'[1] = r /\ inc' # Idle BY <2>1 DEF Idle
    <3> QED BY <1>6, <1>7, <1>10, <3>1 DEF InBlock
  <2>2. CASE inc' = Idle /\ inc[1].block = FALSE BY <2>2 DEF InBlock
  <2> QED BY <1>10, <2>1, <2>2
<1>2. SameBlock
  <2>1. CASE inc' = <<r>>
    <3>1. inc'[1] = r /\ inc' # Idle BY <2>1 DEF Idle
    <3> QED BY <1>6, <1>7, <1>10, <3>1 DEF SameBlock, InBlock
  <2>2. CASE inc' = Idle /\ inc[1].block = FALSE BY <2>2 DEF SameBlock, InBlock
  <2> QED BY <1>10, <2>1, <2>2
<1>20. Names' BY <1>1, KeepNames DEF More
<1>21. Fresh' BY <1>1, KeepFresh DEF More
<1>22. Punctual' BY <1>1, <1>2, KeepPunctual DEF More, Requesting
<1>23. Lined' BY <1>1, KeepLined DEF More
<1>24. Expected' BY <1>1, KeepExpected DEF More
<1>25. Early'
  <2> SUFFICES ASSUME reorgs = 0 PROVE Early'
    BY <1>1 DEF Early
  <2>1. InBlock' = InBlock /\ (InBlock => inc'[1].height = inc[1].height) BY <1>12 DEF InBlock
  <2>2. \A b : Fetched(b)' = Fetched(b) BY <1>1, <2>1 DEF Fetched, High
  <2>3. \A t : Sighted(t) => Sighted(t)' BY <1>1, <2>2 DEF Sighted, Txs
  <2>4. \A t : News(t) => News(t)' BY <1>1 DEF News, Txs, Ingesting
  <2>5. ASSUME NEW t, Rising(t), t # x PROVE Rising(t)'
    <3> SUFFICES ASSUME NEW b \in 1 .. Len(blocks), t \in Txs(blocks, b)
                 PROVE  syncHeight < High(b) /\ (InBlock' /\ inc'[1].height = High(b) => t \in ToSet(inc'[1].txs))
      BY <1>1 DEF Rising, Txs, High
    <3>1. syncHeight < High(b) /\ (InBlock /\ inc[1].height = High(b) => t \in ToSet(inc[1].txs))
      BY <2>5 DEF Rising
    <3>2. InBlock' => inc' # Idle BY DEF InBlock
    <3> QED BY <1>12, <2>1, <2>5, <3>1, <3>2
  <2>6. ASSUME ~missed', NEW v \in ToSet(txUp'), v.height = 0, Mine(v.tx) # {} PROVE Rising(v.tx)'
    <3>1. CASE v \in ToSet(txUp)
      <4>1. Rising(v.tx) BY <1>9, <2>6, <3>1 DEF More, Early
      <4>2. v.tx # x
        <5> SUFFICES ASSUME v.tx = x PROVE FALSE
          OBVIOUS
        <5>1. Mine(x) # {} BY <2>6
        <5>2. txUp = <<>> BY <1>9, <2>6, <5>1
        <5> QED BY <3>1, <5>2, NothingYet
      <4> QED BY <2>5, <4>1, <4>2
    <3>2. CASE v = u
      <4>1. ~InBlock
        <5> SUFFICES ASSUME InBlock PROVE FALSE
          OBVIOUS
        <5>1. inc[1].height = syncHeight + 1 /\ syncHeight \in Nat BY DEF More, Punctual, Inv, SlotsOK
        <5> QED BY <1>8, <2>6, <3>2, <5>1
      <4>2. Sighted(x) BY <1>6, <1>7, <4>1 DEF More, Early
      <4>3. \A b \in 1 .. Len(blocks) : x \in Txs(blocks, b) => ~(High(b) <= syncHeight)
        BY <4>2 DEF Sighted, Fetched
      <4>4. \A b \in 1 .. Len(blocks) : High(b) \in Int /\ syncHeight \in Int
        <5>1. StartHeight \in Nat /\ syncHeight \in Nat BY Typed DEF Inv, SlotsOK
        <5> QED BY <5>1 DEF High
      <4>5. \A b \in 1 .. Len(blocks) : x \in Txs(blocks, b) => syncHeight < High(b) BY <4>3, <4>4
      <4> QED BY <1>1, <1>8, <2>1, <3>2, <4>1, <4>5 DEF Rising, Txs, High
    <3> QED BY <1>11, <3>1, <3>2
  <2>7. inc' # Idle /\ ~InBlock' => \A t \in ToSet(inc'[1].txs) : Sighted(t)'
    BY <1>6, <1>12, <2>1, <2>3 DEF More, Early
  <2>8. \A k \in ToSet(toSpv') : (k.type = "invtx" => News(k.tx)') /\ (k.type = "tx" => Sighted(k.tx)')
    BY <1>1, <2>3, <2>4 DEF More, Early
  <2>9. \A k \in ToSet(toNode') : k.type = "gettx" => Sighted(k.tx)' BY <1>1, <2>3 DEF More, Early
  <2> QED BY <2>6, <2>7, <2>8, <2>9 DEF Early
<1>26. Complete'
  <2> SUFFICES ASSUME reorgs = 0, ~missed' PROVE Complete'
    BY <1>1 DEF Complete
  <2>1. \A t, h : Stored(t, h)' = Stored(t, h) BY <1>1 DEF Stored
  <2>2. \A t, h : HandedUp(t, h) => HandedUp(t, h)' BY <1>14, <2>1 DEF HandedUp
  <2>3. ASSUME NEW b \in 1 .. Len(blocks), NEW t \in Txs(blocks, b), Done(t, b)' PROVE HandedUp(t, High(b))'
    <3>1. CASE Done(t, b)
      <4>1. HandedUp(t, High(b)) BY <1>9, <3>1 DEF More, Complete
      <4> QED BY <2>2, <4>1
    <3>2. CASE ~Done(t, b)
      <4>4. InBlock' /\ inc'[1].height = High(b) /\ t \notin ToSet(inc'[1].txs)
        BY <1>1, <2>3, <3>2 DEF Done, High
      <4>5. InBlock /\ inc[1].height = High(b) /\ inc' # Idle BY <1>12, <4>4 DEF InBlock
      <4>6. t \in ToSet(inc[1].txs) BY <3>2, <4>5 DEF Done
      <4>1. InBlock /\ inc[1].height = High(b) /\ t = x BY <1>12, <4>4, <4>5, <4>6
      <4>2. CASE Mine(x) # {}
        <5>1. u \in ToSet(txUp') BY <1>9, <4>2
        <5> QED BY <1>8, <4>1, <5>1 DEF HandedUp
      <4>3. CASE Mine(x) = {}
        <5>1. Stored(t, High(b)) BY <4>1, <4>3 DEF Stored
        <5> QED BY <2>1, <5>1 DEF HandedUp
      <4> QED BY <4>2, <4>3
    <3> QED BY <3>1, <3>2
  <2> QED BY <1>1, <1>9, <2>3 DEF More, Complete, Txs, High
<1> QED BY <1>20, <1>21, <1>22, <1>23, <1>24, <1>25, <1>26 DEF More

LEMMA MoreBlockDone ==
  ASSUME Inv, Inv', More, BlockDone
  PROVE  More'
<1>1. UNCHANGED <<utxos, stxos, frozen, sends, sync, prev, missed, TxMap, blocks, best, mempool, rejected, reorgs, txUp, toSpv, file, queue, wait, okTxids, hh, restarts>>
  BY DEF BlockDone, wallet, node
<1>6. InBlock
  <2>1. inc # Idle /\ inc[1].block BY DEF BlockDone
  <2>2. inc[1].block \in BOOLEAN BY <2>1 DEF Inv, IncOK
  <2> QED BY <2>1, <2>2, Zenon DEF InBlock
<1>12. PICK k : k = inc[1].height
  OBVIOUS
<1>13. PICK g : g = inc[1].final
  OBVIOUS
<1>7. \A t : t \notin ToSet(inc[1].txs)
  <2>1. inc[1].txs = <<>> BY DEF BlockDone
  <2> QED BY <2>1, NothingYet
<1>8. inc' = Idle /\ syncHeight' = k /\ heightUp' # <<>> /\ (toNode' = AskForHeaders \/ toNode' = toNode)
  <2>1. heightUp' = Append(heightUp, k) /\ inc' = Idle /\ syncHeight' = k
        /\ toNode' = IF g THEN AskForHeaders ELSE toNode
    BY <1>12, <1>13 DEF BlockDone, AfterFinal
  <2>2. heightUp = <<>> \/ heightUp = <<syncHeight>> BY DEF Inv, SlotsOK
  <2>3. heightUp' # <<>> BY <2>1, <2>2
  <2> QED BY <2>1, <2>3
<1>9. /\ \A m \in ToSet(toNode') : m.type = "getheaders" \/ m \in ToSet(toNode)
      /\ reorgs = 0 => Line(blocks, toSpv, toNode')
      /\ Coming(toSpv, toNode') = Coming(toSpv, toNode)
  <2>1. IsSeq(toNode) BY DEF Inv, ToOK
  <2>2. Line(blocks, toSpv, toNode) \/ reorgs # 0 BY DEF More, Lined
  <2>3. CASE toNode' = AskForHeaders BY <2>1, <2>2, <2>3, AskedInLine
  <2>4. CASE toNode' = toNode BY <2>2, <2>4
  <2> QED BY <1>8, <2>3, <2>4
<1>10. /\ syncHeight \in Nat /\ StartHeight \in Nat
       /\ reorgs = 0 => k = syncHeight + 1
  <2>1. reorgs = 0 => k = syncHeight + 1 BY <1>6, <1>12 DEF More, Punctual
  <2> QED BY <2>1, Typed DEF Inv, SlotsOK
<1>11. ~wait
  <2>1. ~Quiet BY <1>6 DEF Quiet
  <2> QED BY <2>1 DEF Inv, Cycle
<1>20. Names' BY <1>1, KeepNames DEF More
<1>21. Fresh' BY <1>1, <1>9, KeepFresh DEF More
<1>22. Punctual'
  <2> SUFFICES ASSUME reorgs = 0 PROVE Punctual'
    BY <1>1 DEF Punctual
  <2>1. Ahead = syncHeight + 1 /\ Ahead' = syncHeight + 1 /\ ~InBlock' BY <1>6, <1>8, <1>10 DEF Ahead, InBlock, Idle
  <2>2. prev' <= syncHeight'
    <3>1. prev <= syncHeight /\ prev \in Nat BY DEF More, Punctual, Inv, SlotsOK
    <3> QED BY <1>1, <1>8, <1>10, <3>1
  <2>3. ~wait' BY <1>1, <1>11
  <2> QED BY <1>1, <2>1, <2>2, <2>3 DEF More, Punctual, Requesting
<1>23. Lined'
  <2> SUFFICES ASSUME reorgs = 0 PROVE Line(blocks, toSpv, toNode')
    BY <1>1 DEF Lined
  <2> QED BY <1>9
<1>24. Expected' BY <1>1, <1>9 DEF More, Expected
<1>25. Early'
  <2> SUFFICES ASSUME reorgs = 0 PROVE Early'
    BY <1>1 DEF Early
  <2>1. ~InBlock' BY <1>8 DEF InBlock, Idle
  <2>2. ASSUME NEW b \in 1 .. Len(blocks), Fetched(b)' PROVE Fetched(b)
    <3>1. High(b) <= syncHeight' BY <1>8, <2>1, <2>2 DEF Fetched, High
    <3>2. High(b) \in Int BY <1>10 DEF High
    <3>3. High(b) <= syncHeight \/ High(b) = k BY <1>8, <1>10, <3>1, <3>2
    <3> QED BY <1>6, <1>12, <3>3 DEF Fetched
  <2>3. \A t : Sighted(t) => Sighted(t)' BY <1>1, <2>2 DEF Sighted, Txs
  <2>4. \A t : News(t) => News(t)' BY <1>1 DEF News, Txs, Ingesting
  <2>5. ASSUME NEW t, Rising(t) PROVE Rising(t)'
    <3> SUFFICES ASSUME NEW b \in 1 .. Len(blocks), t \in Txs(blocks, b) PROVE syncHeight' < High(b)
      BY <1>1, <2>1 DEF Rising, Txs, High
    <3>1. syncHeight < High(b) /\ (High(b) = k => t \in ToSet(inc[1].txs)) BY <1>6, <1>12, <2>5 DEF Rising
    <3>2. High(b) # k BY <1>7, <3>1
    <3>3. High(b) \in Int BY <1>10 DEF High
    <3> QED BY <1>8, <1>10, <3>1, <3>2, <3>3
  <2>6. \A m \in ToSet(toSpv') : (m.type = "invtx" => News(m.tx)') /\ (m.type = "tx" => Sighted(m.tx)')
    BY <1>1, <2>3, <2>4 DEF More, Early
  <2>7. \A m \in ToSet(toNode') : m.type = "gettx" => Sighted(m.tx)' BY <1>9, <2>3 DEF More, Early
  <2>8. ~missed' => \A u \in ToSet(txUp') : u.height = 0 /\ Mine(u.tx) # {} => Rising(u.tx)' BY <1>1, <2>5 DEF More, Early
  <2> QED BY <1>8, <2>6, <2>7, <2>8 DEF Early
<1>26. Complete'
  <2> SUFFICES ASSUME reorgs = 0, ~missed PROVE Complete'
    BY <1>1 DEF Complete
  <2>1. \A t, h : HandedUp(t, h) => HandedUp(t, h)' BY <1>1 DEF HandedUp, Stored
  <2>2. ASSUME NEW b \in 1 .. Len(blocks), NEW t, Done(t, b)' PROVE Done(t, b)
    <3>1. ~InBlock' BY <1>8 DEF InBlock, Idle
    <3>2. High(b) <= syncHeight' BY <1>8, <2>2, <3>1 DEF Done, High
    <3>3. High(b) \in Int BY <1>10 DEF High
    <3>4. High(b) <= syncHeight \/ High(b) = k BY <1>8, <1>10, <3>2, <3>3
    <3> QED BY <1>6, <1>7, <1>12, <3>4 DEF Done
  <2>3. heightUp' # <<>> BY <1>8
  <2> QED BY <1>1, <2>1, <2>2, <2>3 DEF More, Complete, Txs, High
<1> QED BY <1>20, <1>21, <1>22, <1>23, <1>24, <1>25, <1>26 DEF More

-----------------------------------------------------------------------------
(* The wallet takes what is handed up, without a reorganisation.           *)

(* A transaction put into the database is stored at its height, and what   *)
(* it does not make itself stays as it was, or is spent.                   *)
LEMMA StoredSo ==
  ASSUME CoinsOK, NEW tx, NEW h \in Nat, Ingest(tx, h)
  PROVE  /\ \A op \in Mine(tx) : op \in stxos' \/ (op \in DOMAIN utxos' /\ utxos'[op] = h)
         /\ \A op \in DOMAIN utxos : op \notin Mine(tx) =>
              op \in stxos' \/ (op \in DOMAIN utxos' /\ utxos'[op] = utxos[op])
         /\ \A op \in stxos : op \in stxos'
         /\ \A op \in stxos' : op \in stxos \/ op \in tx.ins
<1> DEFINE gained == Gain(utxos, tx, h)
<1>1. /\ DOMAIN gained = DOMAIN utxos \cup (Mine(tx) \ stxos)
      /\ \A op \in DOMAIN gained : gained[op] = IF op \in Mine(tx) THEN h ELSE utxos[op]
  BY DEF Gain
<1>2. /\ utxos' = Lose(gained, tx) /\ stxos' = stxos \cup (tx.ins \cap DOMAIN gained)
  BY DEF Ingest
<1> HIDE DEF gained
<1>3. DOMAIN utxos' = DOMAIN gained \ tx.ins /\ \A op \in DOMAIN utxos' : utxos'[op] = gained[op]
  BY <1>2 DEF Lose
<1>4. ASSUME NEW op \in DOMAIN gained PROVE op \in stxos' \/ (op \in DOMAIN utxos' /\ utxos'[op] = gained[op])
  <2>1. CASE op \in tx.ins BY <1>2, <2>1
  <2>2. CASE op \notin tx.ins BY <1>3, <2>2
  <2> QED BY <2>1, <2>2
<1>5. ASSUME NEW op \in Mine(tx) PROVE op \in stxos' \/ (op \in DOMAIN utxos' /\ utxos'[op] = h)
  <2>1. CASE op \in stxos BY <1>2, <2>1
  <2>2. CASE op \notin stxos
    <3>1. op \in DOMAIN gained /\ gained[op] = h BY <1>1, <2>2
    <3> QED BY <1>4, <3>1
  <2> QED BY <2>1, <2>2
<1>6. ASSUME NEW op \in DOMAIN utxos, op \notin Mine(tx)
      PROVE  op \in stxos' \/ (op \in DOMAIN utxos' /\ utxos'[op] = utxos[op])
  <2>1. op \in DOMAIN gained /\ gained[op] = utxos[op] BY <1>1, <1>6
  <2> QED BY <1>4, <2>1
<1> QED BY <1>2, <1>5, <1>6

LEMMA MadeBy == ASSUME NEW tx, NEW op \in Mine(tx) PROVE op[1] = tx
  BY DEF Mine

LEMMA ChainIs ==
  ASSUME Inv, reorgs = 0, NEW c, FileOK(c)
  PROVE  \A i \in 1 .. Len(c) : c[i] = i /\ i \in 1 .. Len(blocks)
<1>1. Len(c) = Len(file) BY DEF FileOK
<1>2. ASSUME NEW i \in 1 .. Len(file) PROVE c[i] = i /\ i \in 1 .. Len(blocks)
  <2>1. file[i] = i /\ Len(file) \in Nat /\ Len(blocks) \in Nat /\ Len(file) <= Len(blocks) BY Flat
  <2>2. file[i] = c[i] \/ file[i] = Hole BY DEF FileOK
  <2>3. i # Hole BY DEF Hole
  <2> QED BY <2>1, <2>2, <2>3
<1> QED BY <1>1, <1>2

LEMMA InOneBlock ==
  ASSUME Inv, reorgs = 0, NEW x \in 1 .. Len(blocks), NEW y \in 1 .. Len(blocks), NEW tx,
         tx \in Txs(blocks, x), tx \in Txs(blocks, y)
  PROVE  x = y
<1>1. (\A i \in 1 .. Len(best) : best[i] = i) /\ Len(best) = Len(blocks) BY Flat
<1>2. Txs(blocks, best[x]) \cap Txs(blocks, best[y]) # {} BY <1>1
<1> QED BY <1>1, <1>2 DEF Inv, MinedOnce, Apart

(* What is handed up of a block is handed up at its height.                *)
LEMMA RightHeight ==
  ASSUME Inv, More, reorgs = 0, ~missed, NEW u \in ToSet(txUp), NEW b \in 1 .. Len(blocks),
         u.tx \in Txs(blocks, b), u.height > 0
  PROVE  u.height = High(b)
<1>1. PICK c : FileOK(c) /\ Counts(c) BY DEF Inv, Chained, Tame
<1>2. PICK h : h = u.height
  OBVIOUS
<1>3. h \in Nat BY <1>2 DEF Inv, SlotsOK
<1>4. Good(c, u.tx, h) BY <1>1, <1>2 DEF Counts
<1>5. ~Doomed(h)
  <2>1. heightUp = <<>> \/ heightUp = <<syncHeight>> BY DEF Inv, SlotsOK
  <2>2. prev <= syncHeight /\ prev \in Nat /\ syncHeight \in Nat BY DEF More, Punctual, Inv, SlotsOK
  <2>3. ~(syncHeight < prev) BY <2>2
  <2> QED BY <2>1, <2>3 DEF Doomed
<1>6. Index(h) \in 1 .. Len(c) /\ u.tx \in Txs(blocks, c[Index(h)]) BY <1>2, <1>4, <1>5 DEF Good, Placed
<1>7. c[Index(h)] = Index(h) /\ Index(h) \in 1 .. Len(blocks) BY <1>1, <1>6, ChainIs
<1>8. Index(h) = b BY <1>6, <1>7, InOneBlock
<1>9. StartHeight \in Nat BY Typed DEF Inv
<1> QED BY <1>2, <1>3, <1>8, <1>9 DEF Index, High

LEMMA MoreWalletTx ==
  ASSUME Inv, Inv', More, WalletTxHandler, Same
  PROVE  More'
<1>1. UNCHANGED <<frozen, sends, sync, prev, missed, heightUp, TxMap, toNode, blocks, best, mempool, rejected, reorgs, toSpv, file, syncHeight, queue, wait, okTxids, hh, inc, restarts>>
  BY DEF WalletTxHandler, Same, node, hook
<1>2. SameBlock BY <1>1, SameInc
<1>6. PICK u : u = Head(txUp) /\ u \in ToSet(txUp) /\ u.height \in Nat /\ Booked(u.tx)
  <2>1. txUp # <<>> /\ IsSeq(txUp) BY DEF WalletTxHandler, Inv, SlotsOK
  <2>2. Head(txUp) \in ToSet(txUp) BY <2>1, Shorter
  <2> QED BY <2>2 DEF Inv, SlotsOK
<1>7. /\ \A op \in Mine(u.tx) : op \in stxos' \/ (op \in DOMAIN utxos' /\ utxos'[op] = u.height)
      /\ \A op \in DOMAIN utxos : op \notin Mine(u.tx) =>
           op \in stxos' \/ (op \in DOMAIN utxos' /\ utxos'[op] = utxos[op])
      /\ \A op \in stxos : op \in stxos'
      /\ \A op \in stxos' : op \in stxos \/ op \in u.tx.ins
  <2>1. Ingest(u.tx, u.height) BY <1>6 DEF WalletTxHandler
  <2> QED BY <1>6, <2>1, StoredSo DEF Inv
<1>8. /\ \A v \in ToSet(txUp') : v \in ToSet(txUp)
      /\ \A v \in ToSet(txUp) : v = u
  <2>1. txUp # <<>> /\ txUp' = Tail(txUp) /\ IsSeq(txUp) /\ Len(txUp) <= 1
    BY DEF WalletTxHandler, Inv, SlotsOK
  <2>2. ToSet(txUp') \subseteq ToSet(txUp) BY <2>1, Shorter
  <2>3. Len(txUp) \in Nat /\ Len(txUp) >= 1 /\ Head(txUp) = txUp[1] BY <2>1, TailIs
  <2>4. \A v \in ToSet(txUp) : \E i \in 1 .. Len(txUp) : txUp[i] = v BY <2>1, Elements
  <2>5. \A i \in 1 .. Len(txUp) : i = 1 BY <2>1, <2>3
  <2> QED BY <1>6, <2>2, <2>3, <2>4, <2>5
<1>3. NoNewSights BY <1>1 DEF NoNewSights
<1>20. Names'
  <2>1. ASSUME NEW op \in u.tx.ins PROVE \E s \in Ours : s.ins = {op}
    <3>1. u.tx \in Ours
      <4>1. u.tx \notin Payments BY PaymentAssumption
      <4> QED BY <1>6, <4>1 DEF Booked
    <3>2. PICK o \in u.tx.ins : u.tx.ins = {o} BY <3>1 DEF More, Names
    <3> QED BY <3>1, <3>2
  <2>2. \A op \in stxos' : \E s \in Ours : s.ins = {op} BY <1>7, <2>1 DEF More, Names
  <2> QED BY <1>1, <2>2 DEF More, Names, Ours
<1>21. Fresh' BY <1>1, KeepFresh DEF More
<1>22. Punctual' BY <1>1, <1>2, KeepPunctual DEF More, Requesting
<1>23. Lined' BY <1>1, KeepLined DEF More
<1>24. Expected' BY <1>1, KeepExpected DEF More
<1>25. Early'
  <2> SUFFICES ASSUME reorgs = 0 PROVE Early'
    BY <1>1 DEF Early
  <2>1. \A t : (News(t) => News(t)') /\ (Sighted(t) => Sighted(t)') /\ (Rising(t) => Rising(t)')
    BY <1>1, SameViews
  <2>2. ~missed' => \A v \in ToSet(txUp') : v.height = 0 /\ Mine(v.tx) # {} => Rising(v.tx)'
    BY <1>1, <1>8, <2>1 DEF More, Early
  <2> QED BY <1>1, <2>1, <2>2 DEF More, Early, InBlock
<1>26. Complete'
  <2> SUFFICES ASSUME reorgs = 0, ~missed PROVE Complete'
    BY <1>1 DEF Complete
  <2>1. InBlock' = InBlock BY <1>1 DEF InBlock
  <2>2. \A t, b : Done(t, b)' => Done(t, b) BY <1>1, <2>1 DEF Done, High
  <2>3. ASSUME NEW b \in 1 .. Len(blocks), NEW t \in Txs(blocks, b), Done(t, b) PROVE Stored(t, High(b))'
    <3>1. ASSUME u.tx = t, Mine(t) # {} PROVE u.height = High(b)
      <4>1. u.height # 0
        <5> SUFFICES ASSUME u.height = 0 PROVE FALSE
          OBVIOUS
        <5>1. Rising(t) BY <1>6, <3>1 DEF More, Early
        <5>2. syncHeight < High(b) /\ (InBlock /\ inc[1].height = High(b) => t \in ToSet(inc[1].txs))
          BY <5>1 DEF Rising
        <5>3. High(b) <= syncHeight BY <2>3, <5>2 DEF Done
        <5>4. syncHeight \in Nat /\ High(b) \in Int BY Typed DEF Inv, SlotsOK, High
        <5> QED BY <5>2, <5>3, <5>4
      <4>2. u.height > 0 BY <1>6, <4>1
      <4> QED BY <1>6, <3>1, <4>2, RightHeight
    <3>2. ASSUME NEW op \in Mine(t) PROVE op \in stxos' \/ (op \in DOMAIN utxos' /\ utxos'[op] = High(b))
      <4>1. CASE u.tx = t
        <5>1. u.height = High(b) BY <3>1, <4>1
        <5> QED BY <1>7, <4>1, <5>1
      <4>2. CASE u.tx # t
        <5>1. op \notin Mine(u.tx) BY <4>2, MadeBy
        <5>2. HandedUp(t, High(b)) BY <2>3 DEF More, Complete
        <5>3. Stored(t, High(b))
          <6>1. \A v \in ToSet(txUp) : v.tx # t BY <1>8, <4>2
          <6> QED BY <5>2, <6>1 DEF HandedUp
        <5>4. op \in stxos \/ (op \in DOMAIN utxos /\ utxos[op] = High(b)) BY <5>3 DEF Stored
        <5> QED BY <1>7, <5>1, <5>4
      <4> QED BY <4>1, <4>2
    <3>3. High(b)' = High(b) BY DEF High
    <3> QED BY <3>2, <3>3 DEF Stored
  <2> QED BY <1>1, <2>2, <2>3 DEF More, Complete, Txs, High, HandedUp
<1> QED BY <1>20, <1>21, <1>22, <1>23, <1>24, <1>25, <1>26 DEF More

LEMMA MoreHeight ==
  ASSUME Inv, Inv', More, HeightHandler, Same
  PROVE  More'
<1>1. UNCHANGED <<stxos, frozen, sends, txUp, tracked, TxMap, toNode, blocks, best, mempool, rejected, reorgs, toSpv, file, syncHeight, queue, wait, okTxids, hh, inc, restarts>>
  BY DEF HeightHandler, Same, node, hook
<1>2. SameBlock BY <1>1, SameInc
<1>6. PICK h : /\ h = syncHeight /\ Head(heightUp) = h /\ h \in Nat /\ sync' = h /\ prev' = h
  <2>1. heightUp # <<>> /\ syncHeight \in Nat /\ (heightUp = <<>> \/ heightUp = <<syncHeight>>)
    BY DEF HeightHandler, Inv, SlotsOK
  <2>2. heightUp = <<syncHeight>> BY <2>1
  <2>3. Head(heightUp) = syncHeight BY <2>2
  <2> QED BY <2>1, <2>3 DEF HeightHandler
<1>3. NoNewSights BY <1>1 DEF NoNewSights
<1>20. Names' BY <1>1, KeepNames DEF More
<1>21. Fresh' BY <1>1, KeepFresh DEF More
<1>22. Punctual'
  <2> SUFFICES ASSUME reorgs = 0 PROVE Punctual'
    BY <1>1 DEF Punctual
  <2>1. InBlock' = InBlock BY <1>1 DEF InBlock
  <2>2. Ahead' = Ahead BY <1>1, <2>1 DEF Ahead
  <2>3. prev' <= syncHeight' BY <1>1, <1>6
  <2> QED BY <1>1, <2>1, <2>2, <2>3 DEF More, Punctual, Requesting, HeightOf
<1>23. Lined' BY <1>1, KeepLined DEF More
<1>24. Expected' BY <1>1, KeepExpected DEF More
<1>25. Early'
  <2>1. missed => missed' BY DEF HeightHandler
  <2> QED BY <1>1, <1>3, <2>1, KeepEarly DEF More, Ingesting
<1>26. Complete'
  <2> SUFFICES ASSUME reorgs = 0, ~missed' PROVE Complete'
    BY <1>1 DEF Complete
  <2>1. utxos' = utxos /\ ~missed
    <3>1. prev <= syncHeight /\ prev \in Nat BY DEF More, Punctual, Inv, SlotsOK
    <3>2. ~(h < prev) BY <1>6, <3>1
    <3>3. utxos' = IF h < prev THEN RollBack(h) ELSE utxos BY <1>6 DEF HeightHandler
    <3>4. ~missed BY DEF HeightHandler
    <3> QED BY <3>2, <3>3, <3>4
  <2>2. \A t, b : Done(t, b)' => Done(t, b)
    <3>1. InBlock' = InBlock BY <1>1 DEF InBlock
    <3> QED BY <1>1, <3>1 DEF Done, High
  <2>3. \A t, g : HandedUp(t, g) => HandedUp(t, g)' BY <1>1, <2>1 DEF HandedUp, Stored
  <2>4. sync' = syncHeight' BY <1>1, <1>6
  <2> QED BY <1>1, <2>1, <2>2, <2>3, <2>4 DEF More, Complete, Txs, High
<1> QED BY <1>20, <1>21, <1>22, <1>23, <1>24, <1>25, <1>26 DEF More

-----------------------------------------------------------------------------
(* The user sends, and lit restarts.                                       *)

(* A transaction told apart from all that are ours, and spending a coin,   *)
(* is nowhere yet.                                                         *)
LEMMA NeverSeen ==
  ASSUME Inv, Fresh, NEW tx, tx \notin Ours, tx.ins # {}
  PROVE  Unsent(tx)
<1>1. ~Booked(tx) BY PaymentAssumption DEF Booked
<1>2. tx \notin mempool BY <1>1 DEF Inv, NodeTxs
<1>3. \A b \in 1 .. Len(blocks) : tx \notin Txs(blocks, b) BY <1>1 DEF Inv, NodeTxs
<1>4. \A t \in TxMap : t.tx # tx BY DEF Fresh
<1>5. \A m \in ToSet(toNode) : m.type = "tx" => m.tx # tx BY DEF Fresh
<1> QED BY <1>2, <1>3, <1>4, <1>5 DEF Unsent

LEMMA StillUnsent ==
  ASSUME NEW tx, Unsent(tx), UNCHANGED <<mempool, blocks, TxMap, toNode>>
  PROVE  Unsent(tx)'
  BY DEF Unsent, Txs

LEMMA MoreMaybeSend ==
  ASSUME Inv, Inv', More, MaybeSend, Same
  PROVE  More'
<1>1. UNCHANGED <<utxos, stxos, sync, prev, txUp, heightUp, tracked, toNode, TxMap, missed, blocks, best, mempool, rejected, reorgs, toSpv, file, syncHeight, queue, wait, okTxids, hh, inc, restarts>>
  BY DEF MaybeSend, Same, node, hook
<1>2. SameBlock BY <1>1, SameInc
<1>6. PICK op, tx : /\ tx.n = Len(sends) + 1 /\ tx.ins = {op} /\ tx.ins # {} /\ sends' = Append(sends, tx)
                    /\ frozen' = [o \in DOMAIN frozen \cup {op} |-> IF o = op THEN tx ELSE frozen[o]]
  <2>1. PICK op, outs : /\ sends' = Append(sends, NewSend(op, outs))
                        /\ frozen' = [o \in DOMAIN frozen \cup {op} |-> IF o = op THEN NewSend(op, outs) ELSE frozen[o]]
    BY DEF MaybeSend
  <2>2. PICK tx : tx = NewSend(op, outs)
    OBVIOUS
  <2>3. tx.ins = {op} /\ tx.n = Len(sends) + 1 BY <2>2 DEF NewSend
  <2>4. tx.ins # {} BY <2>3
  <2> QED BY <2>1, <2>2, <2>3, <2>4
<1>7. /\ IsSeq(sends) /\ Len(sends) \in Nat /\ Len(sends') = Len(sends) + 1 /\ sends'[Len(sends) + 1] = tx
      /\ \A i \in 1 .. Len(sends) : sends'[i] = sends[i]
  <2>1. IsSeq(sends) BY DEF Inv, SendsOK
  <2> QED BY <1>6, <2>1, Grown, Elements
<1>8. Ours' = Ours \cup {tx} BY <1>6, <1>7, Grown DEF Ours
<1>9. /\ DOMAIN frozen' = DOMAIN frozen \cup {op}
      /\ \A o \in DOMAIN frozen' : (o = op /\ frozen'[o] = tx) \/ (o \in DOMAIN frozen /\ frozen'[o] = frozen[o])
  BY <1>6
<1>3. NoNewSights BY <1>1 DEF NoNewSights
<1>20. Names'
  <2>1. \A i \in 1 .. Len(sends') : sends'[i].n = i
    <3>1. ASSUME NEW i \in 1 .. Len(sends') PROVE sends'[i].n = i
      <4>1. CASE i \in 1 .. Len(sends) BY <1>7, <4>1 DEF More, Names
      <4>2. CASE i = Len(sends) + 1 BY <1>6, <1>7, <4>2
      <4> QED BY <1>7, <4>1, <4>2
    <3> QED BY <3>1
  <2>2. \A t \in Ours' : \E o \in t.ins : t.ins = {o}
    <3>1. op \in tx.ins BY <1>6
    <3> QED BY <1>6, <1>8, <3>1 DEF More, Names
  <2>3. \A o \in DOMAIN frozen' : frozen'[o] \in Ours' /\ frozen'[o].ins = {o}
    BY <1>6, <1>8, <1>9 DEF More, Names
  <2>4. \A o \in stxos' : \E s \in Ours' : s.ins = {o} BY <1>1, <1>8 DEF More, Names
  <2> QED BY <2>1, <2>2, <2>3, <2>4 DEF Names
<1>21. Fresh'
  <2>1. tx \notin Ours
    <3> SUFFICES ASSUME tx \in Ours PROVE FALSE
      OBVIOUS
    <3>1. PICK i \in 1 .. Len(sends) : sends[i] = tx BY <1>7, Elements DEF Ours
    <3>2. sends[i].n = i BY DEF More, Names
    <3> QED BY <1>6, <1>7, <3>1, <3>2
  <2>2. Unsent(tx) BY <1>6, <2>1, NeverSeen DEF More
  <2>3. \A o \in DOMAIN frozen' : Unsent(frozen'[o]) BY <1>9, <2>2 DEF More, Fresh
  <2>4. ASSUME NEW o \in DOMAIN frozen' PROVE Unsent(frozen[o])' 
    <3>1. PICK t : t = frozen'[o]
      OBVIOUS
    <3>2. Unsent(t) BY <2>3, <3>1
    <3>3. Unsent(t)' BY <1>1, <3>2, StillUnsent
    <3> QED BY <3>1, <3>3
  <2>5. \A t \in TxMap' : t.tx \in Ours' BY <1>1, <1>8 DEF More, Fresh
  <2>6. \A m \in ToSet(toNode') : m.type = "tx" => m.tx \in Ours' BY <1>1, <1>8 DEF More, Fresh
  <2> QED BY <2>4, <2>5, <2>6 DEF Fresh
<1>22. Punctual' BY <1>1, <1>2, KeepPunctual DEF More, Requesting
<1>23. Lined' BY <1>1, KeepLined DEF More
<1>24. Expected' BY <1>1, KeepExpected DEF More
<1>25. Early' BY <1>1, <1>3, KeepEarly DEF More, Ingesting
<1>26. Complete' BY <1>1, KeepComplete DEF More, InBlock
<1> QED BY <1>20, <1>21, <1>22, <1>23, <1>24, <1>25, <1>26 DEF More

LEMMA MoreNahDontSend ==
  ASSUME Inv, Inv', More, NEW tx, NahDontSend(tx), Same
  PROVE  More'
<1>1. UNCHANGED <<utxos, stxos, sends, sync, prev, txUp, heightUp, tracked, toNode, TxMap, missed, blocks, best, mempool, rejected, reorgs, toSpv, file, syncHeight, queue, wait, okTxids, hh, inc, restarts>>
  BY DEF NahDontSend, Same, node, hook
<1>2. SameBlock BY <1>1, SameInc
<1>6. \A o \in DOMAIN frozen' : o \in DOMAIN frozen /\ o \notin tx.ins /\ frozen'[o] = frozen[o]
  <2>1. frozen' = Thaw(tx) BY DEF NahDontSend
  <2> QED BY <2>1 DEF Thaw
<1>3. NoNewSights BY <1>1 DEF NoNewSights
<1>20. Names' BY <1>1, <1>6 DEF More, Names, Ours
<1>21. Fresh'
  <2>1. ASSUME NEW o \in DOMAIN frozen' PROVE Unsent(frozen[o])'
    <3>1. PICK t : t = frozen'[o] /\ t = frozen[o] /\ o \in DOMAIN frozen BY <1>6
    <3>2. Unsent(t) BY <3>1 DEF More, Fresh
    <3>3. Unsent(t)' BY <1>1, <3>2, StillUnsent
    <3> QED BY <3>1, <3>3
  <2> QED BY <1>1, <2>1 DEF More, Fresh, Ours
<1>22. Punctual' BY <1>1, <1>2, KeepPunctual DEF More, Requesting
<1>23. Lined' BY <1>1, KeepLined DEF More
<1>24. Expected' BY <1>1, KeepExpected DEF More
<1>25. Early' BY <1>1, <1>3, KeepEarly DEF More, Ingesting
<1>26. Complete' BY <1>1, KeepComplete DEF More, InBlock
<1> QED BY <1>20, <1>21, <1>22, <1>23, <1>24, <1>25, <1>26 DEF More

LEMMA MoreReallySend ==
  ASSUME Inv, Inv', More, NEW tx \in Ours, ReallySend(tx), Same
  PROVE  More'
<1>1. UNCHANGED <<sends, sync, prev, txUp, heightUp, missed, blocks, best, mempool, rejected, reorgs, toSpv, file, syncHeight, queue, wait, okTxids, hh, inc, restarts>>
  BY DEF ReallySend, Same, node, hook
<1>2. SameBlock BY <1>1, SameInc
<1>6. \A o \in DOMAIN frozen' : o \in DOMAIN frozen /\ o \notin tx.ins /\ frozen'[o] = frozen[o]
  <2>1. frozen' = Thaw(tx) BY DEF ReallySend
  <2> QED BY <2>1 DEF Thaw
<1>7. /\ \A op \in DOMAIN utxos : op \notin Mine(tx) =>
           op \in stxos' \/ (op \in DOMAIN utxos' /\ utxos'[op] = utxos[op])
      /\ \A op \in stxos : op \in stxos'
      /\ \A op \in stxos' : op \in stxos \/ op \in tx.ins
  <2>1. Ingest(tx, 0) BY DEF ReallySend
  <2> QED BY <2>1, StoredSo DEF Inv
<1>8. \A k \in TxMap' : k \in TxMap \/ k.tx = tx
  <2>1. PICK s : s = SignMyInputs(tx)
    OBVIOUS
  <2>2. s.tx = tx BY <2>1 DEF SignMyInputs
  <2>3. TxMap' = TxMap \cup {s} BY <2>1 DEF ReallySend, PushTx
  <2> QED BY <2>2, <2>3
<1>9. PICK a : toNode' = Append(toNode, a) /\ a.type = "inv" /\ IsSeq(toNode)
  <2>1. PICK a : a = [type |-> "inv", tx |-> SignMyInputs(tx).tx]
    OBVIOUS
  <2>2. a.type = "inv" BY <2>1
  <2> QED BY <2>1, <2>2 DEF ReallySend, PushTx, Inv, ToOK
<1>10. \A m \in ToSet(toNode') : m.type = "inv" \/ m \in ToSet(toNode)
  <2>1. ToSet(Append(toNode, a)) = ToSet(toNode) \cup {a} BY <1>9, Grown
  <2> QED BY <1>9, <2>1
<1>11. Unsent(tx)
  <2>1. PICK o \in DOMAIN frozen : frozen[o] = tx BY DEF ReallySend, FindFreezeTx
  <2> QED BY <2>1 DEF More, Fresh
<1>3. NoNewSights BY <1>1, <1>10 DEF NoNewSights
<1>20. Names'
  <2>1. PICK o \in tx.ins : tx.ins = {o} BY DEF More, Names
  <2>2. \A op \in stxos' : \E s \in Ours : s.ins = {op} BY <1>7, <2>1 DEF More, Names
  <2> QED BY <1>1, <1>6, <2>2 DEF More, Names, Ours
<1>21. Fresh'
  <2>1. ASSUME NEW o \in DOMAIN frozen' PROVE Unsent(frozen[o])'
    <3>1. PICK t : t = frozen'[o] /\ t = frozen[o] /\ o \in DOMAIN frozen /\ o \notin tx.ins BY <1>6
    <3>2. Unsent(t) /\ t.ins = {o} BY <3>1 DEF More, Fresh, Names
    <3>3. t # tx BY <3>1, <3>2
    <3>4. \A k \in TxMap' : k.tx # t BY <1>8, <3>2, <3>3 DEF Unsent
    <3>5. \A m \in ToSet(toNode') : m.type = "tx" => m.tx # t BY <1>10, <3>2 DEF Unsent
    <3>6. Unsent(t)' BY <1>1, <3>2, <3>4, <3>5 DEF Unsent, Txs
    <3> QED BY <3>1, <3>6
  <2>2. \A t \in TxMap' : t.tx \in Ours' BY <1>1, <1>8 DEF More, Fresh, Ours
  <2>3. \A m \in ToSet(toNode') : m.type = "tx" => m.tx \in Ours' BY <1>1, <1>10 DEF More, Fresh, Ours
  <2> QED BY <2>1, <2>2, <2>3 DEF Fresh
<1>22. Punctual' BY <1>1, <1>2, KeepPunctual DEF More, Requesting
<1>23. Lined'
  <2> SUFFICES ASSUME reorgs = 0 PROVE Line(blocks, toSpv, toNode')
    BY <1>1 DEF Lined
  <2>1. Line(blocks, toSpv, toNode) BY DEF More, Lined
  <2>2. \A m : Before(blocks, m, a) /\ Across(blocks, m, a)
    <3>1. Idler(a) BY <1>9 DEF Idler
    <3> QED BY <3>1, IdlerBefore
  <2>3. a.type \notin {"block", "headers"} BY <1>9
  <2> QED BY <1>9, <2>1, <2>2, <2>3, LineNodeAdded
<1>24. Expected'
  <2>1. Coming(toSpv, Append(toNode, a)) = Coming(toSpv, toNode) \cup (IF a.type = "getblock" THEN {a.id} ELSE {})
    BY <1>9, ComingNode
  <2>2. a.type # "getblock" BY <1>9
  <2>3. Coming(toSpv, toNode') = Coming(toSpv, toNode) BY <1>9, <2>1, <2>2
  <2> QED BY <1>1, <2>3 DEF More, Expected
<1>25. Early' BY <1>1, <1>3, KeepEarly DEF More, Ingesting
<1>26. Complete'
  <2> SUFFICES ASSUME reorgs = 0, ~missed PROVE Complete'
    BY <1>1 DEF Complete
  <2>1. InBlock' = InBlock BY <1>1 DEF InBlock
  <2>2. \A t, b : Done(t, b)' => Done(t, b) BY <1>1, <2>1 DEF Done, High
  <2>3. ASSUME NEW t, t # tx, NEW g, Stored(t, g) PROVE Stored(t, g)'
    <3>1. ASSUME NEW op \in Mine(t) PROVE op \in stxos' \/ (op \in DOMAIN utxos' /\ utxos'[op] = g)
      <4>1. op \notin Mine(tx) BY <2>3, MadeBy
      <4>2. op \in stxos \/ (op \in DOMAIN utxos /\ utxos[op] = g) BY <2>3 DEF Stored
      <4> QED BY <1>7, <4>1, <4>2
    <3> QED BY <3>1 DEF Stored
  <2>4. ASSUME NEW b \in 1 .. Len(blocks), NEW t \in Txs(blocks, b), Done(t, b) PROVE HandedUp(t, High(b))'
    <3>1. t # tx BY <1>11 DEF Unsent
    <3>2. HandedUp(t, High(b)) BY <2>4 DEF More, Complete
    <3>3. High(b)' = High(b) BY DEF High
    <3>4. Stored(t, High(b)) => Stored(t, High(b))' BY <2>3, <3>1, <3>3 DEF Stored
    <3> QED BY <1>1, <3>2, <3>3, <3>4 DEF HandedUp
  <2> QED BY <1>1, <2>2, <2>4 DEF More, Complete, Txs, High
<1> QED BY <1>20, <1>21, <1>22, <1>23, <1>24, <1>25, <1>26 DEF More

-----------------------------------------------------------------------------
(* A restart, and nothing at all.                                          *)

LEMMA MoreRestart ==
  ASSUME Inv, Inv', More, Restart
  PROVE  More'
<1>1. UNCHANGED <<utxos, stxos, sends, sync, blocks, best, mempool, rejected, reorgs, file>>
  BY DEF Restart, WalletRestart, node
<1>6. /\ syncHeight' = sync /\ queue' = <<>> /\ wait' = FALSE /\ hh' = Idle /\ inc' = Idle /\ frozen' = <<>>
      /\ toSpv' = <<>> /\ prev' = 0 /\ txUp' = <<>> /\ heightUp' = <<>> /\ TxMap' = {}
  BY DEF Restart, WalletRestart
<1>7. PICK a : a.type = "getheaders" /\ toNode' = <<a>> /\ ToSet(toNode') = {a}
  <2>1. PICK a : a = [type |-> "getheaders", locator |-> Locator]
    OBVIOUS
  <2>2. toNode' = <<a>> BY <2>1 DEF Restart
  <2>3. a.type = "getheaders" BY <2>1
  <2> QED BY <2>2, <2>3, OneOf
<1>20. Names'
  <2>1. \A o \in DOMAIN frozen' : FALSE BY <1>6
  <2> QED BY <1>1, <2>1 DEF More, Names, Ours
<1>21. Fresh'
  <2>1. \A o \in DOMAIN frozen' : FALSE BY <1>6
  <2>2. \A t \in TxMap' : FALSE BY <1>6
  <2>3. \A m \in ToSet(toNode') : m.type # "tx" BY <1>7
  <2> QED BY <2>1, <2>2, <2>3 DEF Fresh
<1>22. Punctual'
  <2>1. Len(queue') = 0 BY <1>6, NothingYet
  <2>2. \A i \in 1 .. Len(queue') : FALSE BY <2>1
  <2>3. prev' <= syncHeight'
    <3>1. sync \in Nat BY DEF Inv, SlotsOK
    <3> QED BY <1>6, <3>1
  <2>4. ~InBlock' /\ ~Requesting' /\ ~wait' BY <1>6 DEF InBlock, Requesting
  <2> QED BY <2>2, <2>3, <2>4 DEF Punctual
<1>23. Lined'
  <2>1. Ordered(blocks', toSpv') BY <1>6, OrderedFew
  <2>2. Ordered(blocks', toNode') BY <1>7, OrderedFew
  <2>3. \A m \in ToSet(toSpv') : FALSE BY <1>6, NothingYet
  <2>4. \A k \in ToSet(toNode') : k.type \notin {"block", "headers"} BY <1>7
  <2> QED BY <2>1, <2>2, <2>3, <2>4 DEF Lined, Line
<1>24. Expected'
  <2>1. \A m \in ToSet(toSpv') : FALSE BY <1>6, NothingYet
  <2>2. \A k \in ToSet(toNode') : k.type # "getblock" BY <1>7
  <2>3. Coming(toSpv', toNode') = {} BY <2>1, <2>2 DEF Coming
  <2>4. Len(queue') = 0 BY <1>6, NothingYet
  <2>5. \A i \in 1 .. Len(queue') : FALSE BY <2>4
  <2>6. Wanted(queue') = {} BY <2>5 DEF Wanted
  <2> QED BY <2>3, <2>6 DEF Expected
<1>25. Early'
  <2>1. \A m \in ToSet(toSpv') : FALSE BY <1>6, NothingYet
  <2>2. \A u \in ToSet(txUp') : FALSE BY <1>6, NothingYet
  <2>3. \A k \in ToSet(toNode') : k.type # "gettx" BY <1>7
  <2>4. inc' = Idle BY <1>6
  <2> QED BY <2>1, <2>2, <2>3, <2>4 DEF Early
<1>26. Complete'
  <2> SUFFICES ASSUME reorgs = 0, ~missed' PROVE Complete'
    BY <1>1 DEF Complete
  <2>1. ~missed /\ txUp = <<>> /\ heightUp = <<>> BY DEF Restart, WalletRestart
  <2>2. sync = syncHeight BY <2>1 DEF More, Complete
  <2>3. \A u \in ToSet(txUp) : FALSE BY <2>1, NothingYet
  <2>4. ASSUME NEW b \in 1 .. Len(blocks'), NEW t \in Txs(blocks', b), Done(t, b)'
        PROVE  HandedUp(t, High(b))'
    <3>1. b \in 1 .. Len(blocks) /\ t \in Txs(blocks, b) BY <1>1
    <3>2. ~InBlock' BY <1>6 DEF InBlock
    <3>3. High(b) <= syncHeight BY <1>6, <2>2, <2>4, <3>2 DEF Done, High
    <3>4. Done(t, b) BY <3>3 DEF Done
    <3>5. HandedUp(t, High(b)) BY <2>1, <3>1, <3>4 DEF More, Complete
    <3>6. Stored(t, High(b)) BY <2>3, <3>5 DEF HandedUp
    <3>7. Stored(t, High(b))' BY <1>1, <3>6 DEF Stored, High
    <3> QED BY <3>7 DEF HandedUp
  <2>5. sync' = syncHeight' BY <1>1, <1>6
  <2> QED BY <2>4, <2>5 DEF Complete
<1> QED BY <1>20, <1>21, <1>22, <1>23, <1>24, <1>25, <1>26 DEF More

LEMMA MoreStutter ==
  ASSUME Inv, Inv', More, Otherwise
  PROVE  More'
<1>1. UNCHANGED <<utxos, stxos, frozen, sends, sync, prev, missed, txUp, heightUp, TxMap, toNode, blocks, best, mempool, rejected, reorgs, toSpv, file, syncHeight, queue, wait, okTxids, hh, inc, restarts>>
  BY DEF Otherwise
<1>2. SameBlock BY <1>1, SameInc
<1>3. NoNewSights BY <1>1 DEF NoNewSights
<1>20. Names' BY <1>1, KeepNames DEF More
<1>21. Fresh' BY <1>1, KeepFresh DEF More
<1>22. Punctual' BY <1>1, <1>2, KeepPunctual DEF More, Requesting
<1>23. Lined' BY <1>1, KeepLined DEF More
<1>24. Expected' BY <1>1, KeepExpected DEF More
<1>25. Early' BY <1>1, <1>3, KeepEarly DEF More, Ingesting
<1>26. Complete' BY <1>1, KeepComplete DEF More, InBlock
<1> QED BY <1>20, <1>21, <1>22, <1>23, <1>24, <1>25, <1>26 DEF More

-----------------------------------------------------------------------------
(* All of it holds, and what follows from it.                              *)

LEMMA MoreHolds == SInit => More
<1> SUFFICES ASSUME SInit PROVE More
  OBVIOUS
<1>1. /\ stxos = {} /\ frozen = <<>> /\ sends = <<>> /\ txUp = <<>> /\ toNode = <<>>
      /\ TxMap = {} /\ sync = StartHeight /\ prev = 0 /\ syncHeight = StartHeight
      /\ queue = <<>> /\ wait = FALSE /\ hh = Idle /\ inc = Idle
      /\ blocks = << [prev |-> 0, txs |-> <<>>] >>
      /\ toSpv = << [type |-> "headers", hdrs |-> <<>>] >>
  BY DEF SInit, WalletInit
<1>2. PICK m : m.type = "headers" /\ toSpv = <<m>> /\ ToSet(toSpv) = {m}
  <2>1. PICK m : m = [type |-> "headers", hdrs |-> <<>>]
    OBVIOUS
  <2>2. m.type = "headers" /\ toSpv = <<m>> BY <1>1, <2>1
  <2> QED BY <2>2, OneOf
<1>3. Len(blocks) = 1 /\ Txs(blocks, 1) = {}
  <2>1. PICK x : x = [prev |-> 0, txs |-> <<>>]
    OBVIOUS
  <2>2. x.txs = <<>> /\ blocks = <<x>> BY <1>1, <2>1
  <2>3. Len(blocks) = 1 /\ blocks[1] = x BY <2>2
  <2> QED BY <2>2, <2>3, NothingYet DEF Txs
<1>4. \A b \in 1 .. Len(blocks) : \A t \in Txs(blocks, b) : FALSE
  <2>1. \A b \in 1 .. Len(blocks) : b = 1 BY <1>3
  <2> QED BY <1>3, <2>1
<1>5. \A k \in ToSet(toNode) : FALSE BY <1>1, NothingYet
<1>6. \A u \in ToSet(txUp) : FALSE BY <1>1, NothingYet
<1>7. \A i \in 1 .. Len(queue) : FALSE
  <2>1. Len(queue) = 0 BY <1>1, NothingYet
  <2> QED BY <2>1
<1>8. \A i \in 1 .. Len(sends) : FALSE
  <2>1. Len(sends) = 0 BY <1>1, NothingYet
  <2> QED BY <2>1
<1>9. \A tx \in Ours : FALSE BY <1>1, NothingYet DEF Ours
<1>10. \A o \in DOMAIN frozen : FALSE BY <1>1
<1>11. ~InBlock /\ ~Requesting /\ inc = Idle BY <1>1 DEF InBlock, Requesting
<1>20. Names BY <1>1, <1>8, <1>9, <1>10 DEF Names
<1>21. Fresh BY <1>1, <1>5, <1>10 DEF Fresh
<1>22. Punctual
  <2>1. prev <= syncHeight BY <1>1, SpvAssumption
  <2> QED BY <1>1, <1>7, <1>11, <2>1 DEF Punctual
<1>23. Lined
  <2>1. Ordered(blocks, toSpv) BY <1>2, OrderedFew
  <2>2. Ordered(blocks, toNode) BY <1>1, OrderedFew
  <2>3. \A k \in ToSet(toSpv) : k.type # "getblock" BY <1>2
  <2> QED BY <1>5, <2>1, <2>2, <2>3 DEF Lined, Line
<1>24. Expected
  <2>1. \A k \in ToSet(toSpv) : k.type # "block" BY <1>2
  <2>2. Coming(toSpv, toNode) = {} BY <1>5, <2>1 DEF Coming
  <2>3. Wanted(queue) = {} BY <1>7 DEF Wanted
  <2> QED BY <2>2, <2>3 DEF Expected
<1>25. Early
  <2>1. \A k \in ToSet(toSpv) : k.type # "invtx" /\ k.type # "tx" BY <1>2
  <2> QED BY <1>5, <1>6, <1>11, <2>1 DEF Early
<1>26. Complete BY <1>1, <1>4 DEF Complete
<1> QED BY <1>20, <1>21, <1>22, <1>23, <1>24, <1>25, <1>26 DEF More

LEMMA KeptMore == Inv /\ Inv' /\ More /\ [SNext]_svars => More'
<1> SUFFICES ASSUME Inv, Inv', More, [SNext]_svars PROVE More'
  OBVIOUS
<1>1. CASE UNCHANGED svars BY <1>1, NothingElse, MoreStutter
<1>2. CASE Env
  <2>1. ASSUME NEW tx \in Payments, NodePayment(tx) PROVE More' BY <2>1, MorePayment
  <2>2. ASSUME NEW txs \in Mineable, NodeMine(txs) PROVE More' BY <2>2, MoreMine
  <2>3. CASE NodeReorg BY <2>3, MoreReorg
  <2>4. CASE LoseConnection BY <2>4, MoreClosed
  <2> QED BY <1>2, <2>1, <2>2, <2>3, <2>4 DEF Env
<1>3. CASE Restart BY <1>3, MoreRestart
<1>4. CASE NodeServe BY <1>4, MoreServe
<1>5. CASE HookStep
  <2>1. CASE IngestHeaders BY <2>1, MoreIngestHeaders
  <2>2. CASE MoreHeaders BY <2>2, MoreMoreHeaders
  <2>3. CASE HeadersDone BY <2>3, MoreHeadersDone
  <2>4. CASE RequestBlock BY <2>4, MoreRequestBlock
  <2>5. CASE EnterWaitState BY <2>5, MoreEnterWait
  <2>6. CASE HeaderHandler BY <2>6, MoreHeaderHandler
  <2>7. CASE InvBlock BY <2>7, MoreInvBlock
  <2>8. CASE InvTx BY <2>8, MoreInvTx
  <2>9. CASE TxHandler BY <2>9, MoreTxHandler
  <2>10. CASE GetDataHandler BY <2>10, MoreGetData
  <2>11. CASE BlockArrives BY <2>11, MoreBlockArrives
  <2>12. CASE HandUp BY <2>12, MoreHandUp
  <2>13. CASE BlockDone BY <2>13, MoreBlockDone
  <2> QED BY <1>5, <2>1, <2>2, <2>3, <2>4, <2>5, <2>6, <2>7, <2>8, <2>9, <2>10, <2>11, <2>12, <2>13
      DEF HookStep
<1>6. CASE WalletStep BY <1>6, MoreWalletTx, MoreHeight, NothingElse, MoreStutter DEF WalletStep
<1>7. CASE User
  <2>1. Same BY <1>7 DEF User
  <2>2. CASE MaybeSend BY <2>1, <2>2, MoreMaybeSend
  <2>3. ASSUME NEW i \in DOMAIN sends, ReallySend(sends[i]) PROVE More'
    <3>1. sends[i] \in Ours
      <4>1. IsSeq(sends) BY DEF Inv, SendsOK
      <4> QED BY <4>1, Elements DEF Ours
    <3> QED BY <2>1, <2>3, <3>1, MoreReallySend
  <2>4. ASSUME NEW i \in DOMAIN sends, NahDontSend(sends[i]) PROVE More'
    BY <2>1, <2>4, MoreNahDontSend
  <2> QED BY <1>7, <2>2, <2>3, <2>4 DEF User
<1> QED BY <1>1, <1>2, <1>3, <1>4, <1>5, <1>6, <1>7 DEF SNext

(* At rest and without a reorganisation, what is ours in a block is in     *)
(* the database: unspent at the height of the block, or spent.             *)
LEMMA AtRestStored ==
  ASSUME Inv, More, AtRest, reorgs = 0, ~missed, NEW t \in Confirmed
  PROVE  \E h \in Nat \ {0} : Stored(t, h)
<1>1. PICK i \in 1 .. Len(best) : t \in Txs(blocks, best[i]) BY ConfirmedIs DEF Inv
<1>2. /\ best[i] = i /\ Len(best) = Len(blocks)
      /\ (\A k \in 1 .. Len(file) : file[k] = k) /\ Len(file) \in Nat /\ Len(blocks) \in Nat
      /\ StartHeight \in Nat /\ StartHeight >= 1 /\ HeightOf(file) = High(Len(file))
  BY Flat
<1>3. Len(file) = Len(blocks)
  <2>1. file[Len(file)] = best[Len(best)] BY DEF AtRest, Last
  <2>2. Len(file) >= 1 /\ Len(best) >= 1 BY <1>1, <1>2 DEF Inv, FileSeq
  <2>3. Len(file) \in 1 .. Len(file) /\ Len(best) \in 1 .. Len(best) BY <1>2, <2>2
  <2>4. best[Len(best)] = Len(best) BY <2>3, Flat
  <2>5. file[Len(file)] = Len(file) BY <1>2, <2>3
  <2> QED BY <1>2, <2>1, <2>4, <2>5
<1>4. syncHeight = High(Len(blocks)) BY <1>2, <1>3 DEF AtRest, More, Punctual
<1>5. Done(t, i)
  <2>1. High(i) <= syncHeight BY <1>2, <1>4 DEF High
  <2> QED BY <2>1 DEF Done
<1>6. HandedUp(t, High(i)) BY <1>1, <1>2, <1>5 DEF More, Complete
<1>7. \A u \in ToSet(txUp) : FALSE BY NothingYet DEF AtRest
<1>8. Stored(t, High(i)) BY <1>6, <1>7 DEF HandedUp
<1>9. High(i) \in Nat \ {0} BY <1>2 DEF High
<1> QED BY <1>8, <1>9

LEMMA AllCounted == Inv /\ More => Balanced
<1> SUFFICES ASSUME Inv, More, AtRest, reorgs = 0, ~missed
             PROVE  ConfirmedHere = OursInChain \ UNION {tx.ins : tx \in {s \in Pending : s.ins \subseteq stxos}}
  BY DEF Balanced
<1> DEFINE Under == UNION {tx.ins : tx \in {s \in Pending : s.ins \subseteq stxos}}
<1>1. Under \subseteq stxos
  OBVIOUS
<1>2. \A s \in Pending : s.ins \subseteq stxos => s.ins \subseteq Under
  OBVIOUS
<1> HIDE DEF Under
<1>3. ASSUME NEW op \in ConfirmedHere PROVE op \in OursInChain /\ op \notin Under
  <2>1. op \in OursInChain BY <1>3, NothingImagined DEF NoPhantom
  <2>2. op \notin stxos BY <1>3 DEF ConfirmedHere, Inv, CoinsOK
  <2> QED BY <1>1, <2>1, <2>2
<1>4. ASSUME NEW op \in OursInChain, op \notin Under PROVE op \in ConfirmedHere
  <2>1. op \in Unspent(Confirmed) /\ op[1].outs[op[2]] = Me BY <1>4 DEF OursInChain
  <2>2. PICK t \in Confirmed : op \in Outpoints(t) BY <2>1 DEF Unspent
  <2>3. op \in Mine(t)
    <3>1. PICK j \in DOMAIN t.outs : op = <<t, j>> BY <2>2 DEF Outpoints
    <3>2. t.outs[j] = Me BY <2>1, <3>1
    <3> QED BY <3>1, <3>2 DEF Mine
  <2>4. PICK h \in Nat \ {0} : Stored(t, h) BY AtRestStored
  <2>5. op \notin stxos
    <3> SUFFICES ASSUME op \in stxos PROVE FALSE
      OBVIOUS
    <3>1. PICK s \in Ours : s.ins = {op} BY DEF More, Names
    <3>2. s \notin Confirmed BY <2>1, <3>1 DEF Unspent
    <3>3. s \in Pending BY <3>2 DEF Pending, Ours
    <3>4. s.ins \subseteq stxos BY <3>1
    <3>5. op \in Under BY <1>2, <3>1, <3>3, <3>4
    <3> QED BY <1>4, <3>5
  <2>6. op \in DOMAIN utxos /\ utxos[op] = h BY <2>3, <2>4, <2>5 DEF Stored
  <2>7. h > 0
    OBVIOUS
  <2> QED BY <2>6, <2>7 DEF ConfirmedHere
<1>5. ConfirmedHere = OursInChain \ Under BY <1>3, <1>4
<1> QED BY <1>5 DEF Under

(* However IngestBlock, TxHandler and GotTx hand up what they find, in     *)
(* blocks asked for by AskForBlocks and in announced transactions, and     *)
(* however Ingest, HeightHandler and the user's sends take turns with      *)
(* them: as long as no block is taken back, the wallet that has come to    *)
(* rest counts every coin of the best chain that is its own, and leaves    *)
(* out exactly those that a transaction of its own spends that is not in a *)
(* block yet.  It does so after any number of restarts in which nothing    *)
(* waited in its channels, and after which no transaction that pays it     *)
(* came before NewWallit had told the hook the addresses: in each of these *)
(* cases the coin is missed for good.                                      *)
THEOREM CountsAllThatIsMined == SSpec => []Balanced
<1>1. SSpec => [](Inv /\ More)
  <2>1. SInit => Inv /\ More BY Holds, MoreHolds
  <2>2. (Inv /\ More) /\ [SNext]_svars => (Inv /\ More)' BY Kept, KeptMore
  <2> QED BY <2>1, <2>2, PTL DEF SSpec
<1> QED BY <1>1, AllCounted, PTL

-----------------------------------------------------------------------------
(* What the user sends, without a reorganisation.                          *)

(* What the node has taken, and what is on its way to it: announced, asked *)
(* for, or sent.                                                           *)
Taken == Confirmed \cup mempool
Said(q, type) == {m.tx : m \in {x \in ToSet(q) : x.type = type}}
Way(p, q) == Said(q, "inv") \cup Said(p, "getdata") \cup Said(q, "tx")
OnWay == Way(toSpv, toNode)

(* Nothing is sent twice, nor ahead of what it spends.                     *)
Past(s, p) == s # p /\ s.ins \cap Outpoints(p) = {}
AllPast(S, T) == \A s \in S : \A p \in T : Past(s, p)
Sorted(q, type) ==
  \A i \in 1 .. Len(q) : \A j \in 1 .. Len(q) :
    i < j /\ q[i].type = type /\ q[j].type = type => Past(q[i].tx, q[j].tx)
InTurn(p, q) ==
  /\ Sorted(q, "inv") /\ Sorted(p, "getdata") /\ Sorted(q, "tx")
  /\ AllPast(Said(q, "tx"), Said(p, "getdata") \cup Said(q, "inv"))
  /\ AllPast(Said(p, "getdata"), Said(q, "inv"))

(* A transaction that was on its way when lit went down is not sent again. *)
Gone(p) == p \in Ours /\ p \notin Taken /\ p \notin OnWay /\ \A op \in DOMAIN frozen : frozen[op] # p
Lost(p) == restarts > 0 /\ Gone(p)
Source(op) == op[1] \in Taken \/ op[1] \in OnWay \/ Lost(op[1])

(* The coins of the wallet and of what it sends come from somewhere.       *)
Funded == \A op \in DOMAIN utxos : Source(op)
Held == \A op \in DOMAIN frozen : op \in DOMAIN utxos /\ frozen[op] \notin OnWay
Leaving ==
  \A tx \in OnWay :
    /\ tx \in Ours /\ tx \notin Taken /\ tx.ins \subseteq stxos
    /\ \A op \in tx.ins : op \in Mine(op[1]) /\ Source(op)
Older == \A tx \in Ours : \A op \in tx.ins : op[1] # tx
Once == \A s \in Taken \cup OnWay : \A t \in Taken \cup OnWay : s.ins \cap t.ins # {} => s = t

(* What is announced can be had, with a signature.                         *)
Ready ==
  /\ \A t \in TxMap : t.signed = TRUE
  /\ \A m \in ToSet(toNode) : m.type = "tx" => m.signed = TRUE
  /\ \A tx \in Said(toNode, "inv") \cup Said(toSpv, "getdata") : \E t \in TxMap : t.tx = tx

(* What the hook hears of, the node has.                                   *)
Heard ==
  /\ \A m \in ToSet(toSpv) : m.type \in {"invtx", "tx"} => m.tx \in Taken
  /\ \A k \in ToSet(toNode) : k.type = "gettx" => k.tx \in Taken
  /\ inc # Idle => ToSet(inc[1].txs) \subseteq Taken
  /\ \A u \in ToSet(txUp) : u.tx \in Taken

Refused == \A tx \in rejected : \E p \in Ours : Lost(p) /\ tx.ins \subseteq Outpoints(p)

Flow == Funded /\ Held /\ Leaving /\ Older /\ Once /\ Ready /\ Heard /\ Refused
Sending == reorgs = 0 => InTurn(toSpv, toNode) /\ Flow

-----------------------------------------------------------------------------
(* Messages of one type, as they come and go.                              *)

LEMMA SaidAdded ==
  ASSUME NEW q, IsSeq(q), NEW m, NEW type, m.type = type
  PROVE  Said(Append(q, m), type) = Said(q, type) \cup {m.tx}
<1>1. ToSet(Append(q, m)) = ToSet(q) \cup {m} BY Grown
<1>2. {x \in ToSet(Append(q, m)) : x.type = type} = {x \in ToSet(q) : x.type = type} \cup {m} BY <1>1
<1> QED BY <1>2 DEF Said

LEMMA SaidOther ==
  ASSUME NEW q, IsSeq(q), NEW m, NEW type, m.type # type
  PROVE  Said(Append(q, m), type) = Said(q, type)
<1>1. ToSet(Append(q, m)) = ToSet(q) \cup {m} BY Grown
<1>2. {x \in ToSet(Append(q, m)) : x.type = type} = {x \in ToSet(q) : x.type = type} BY <1>1
<1> QED BY <1>2 DEF Said

LEMMA SaidTaken ==
  ASSUME NEW q, IsSeq(q), q # <<>>, NEW type, Head(q).type = type
  PROVE  Said(q, type) = Said(Tail(q), type) \cup {Head(q).tx}
<1>1. ToSet(q) = {Head(q)} \cup ToSet(Tail(q)) BY FrontAndRest
<1>2. {x \in ToSet(q) : x.type = type} = {x \in ToSet(Tail(q)) : x.type = type} \cup {Head(q)} BY <1>1
<1> QED BY <1>2 DEF Said

LEMMA SaidTakenOther ==
  ASSUME NEW q, IsSeq(q), q # <<>>, NEW type, Head(q).type # type
  PROVE  Said(Tail(q), type) = Said(q, type)
<1>1. ToSet(q) = {Head(q)} \cup ToSet(Tail(q)) BY FrontAndRest
<1>2. {x \in ToSet(q) : x.type = type} = {x \in ToSet(Tail(q)) : x.type = type} BY <1>1
<1> QED BY <1>2 DEF Said

LEMMA SaidNone == \A type : Said(<<>>, type) = {}
  BY NothingYet DEF Said

LEMMA SortedAdded ==
  ASSUME NEW q, IsSeq(q), NEW type, Sorted(q, type), NEW m,
         m.type = type => \A s \in Said(q, type) : Past(s, m.tx)
  PROVE  Sorted(Append(q, m), type)
<1> DEFINE a == Append(q, m)
<1>1. /\ Len(q) \in Nat /\ Len(a) = Len(q) + 1 /\ a[Len(q) + 1] = m
      /\ \A i \in 1 .. Len(q) : a[i] = q[i] /\ q[i] \in ToSet(q)
  BY Grown, Elements
<1> HIDE DEF a
<1>2. ASSUME NEW i \in 1 .. Len(a), NEW j \in 1 .. Len(a), i < j, a[i].type = type, a[j].type = type
      PROVE  Past(a[i].tx, a[j].tx)
  <2>1. i \in 1 .. Len(q) BY <1>1, <1>2
  <2>2. CASE j \in 1 .. Len(q)
    <3>1. a[i] = q[i] /\ a[j] = q[j] BY <1>1, <2>1, <2>2
    <3> QED BY <1>2, <2>1, <2>2, <3>1 DEF Sorted
  <2>3. CASE j = Len(q) + 1
    <3>1. a[j] = m /\ a[i] = q[i] /\ q[i] \in ToSet(q) BY <1>1, <2>1, <2>3
    <3>2. q[i].tx \in Said(q, type) BY <1>2, <3>1 DEF Said
    <3> QED BY <1>2, <3>1, <3>2
  <2> QED BY <1>1, <2>2, <2>3
<1>3. Sorted(a, type) BY <1>2 DEF Sorted
<1> QED BY <1>3 DEF a

LEMMA SortedTail ==
  ASSUME NEW q, IsSeq(q), q # <<>>, NEW type, Sorted(q, type)
  PROVE  /\ Sorted(Tail(q), type)
         /\ Head(q).type = type => \A s \in Said(Tail(q), type) : Past(Head(q).tx, s)
<1> DEFINE t == Tail(q)
<1>1. /\ Len(t) = Len(q) - 1 /\ Len(q) \in Nat /\ Len(q) >= 1 /\ Head(q) = q[1]
      /\ \A i \in 1 .. Len(t) : t[i] = q[i + 1]
  BY HeadTailProperties DEF IsSeq
<1>2. IsSeq(t) BY Shorter
<1> HIDE DEF t
<1>3. ASSUME NEW i \in 1 .. Len(t), NEW j \in 1 .. Len(t), i < j, t[i].type = type, t[j].type = type
      PROVE  Past(t[i].tx, t[j].tx)
  <2>1. i + 1 \in 1 .. Len(q) /\ j + 1 \in 1 .. Len(q) /\ i + 1 < j + 1 BY <1>1, <1>3
  <2>2. t[i] = q[i + 1] /\ t[j] = q[j + 1] BY <1>1
  <2> QED BY <1>3, <2>1, <2>2 DEF Sorted
<1>4. ASSUME q[1].type = type, NEW s \in Said(t, type) PROVE Past(q[1].tx, s)
  <2>1. PICK k \in ToSet(t) : k.type = type /\ s = k.tx BY <1>4 DEF Said
  <2>2. PICK i \in 1 .. Len(t) : t[i] = k BY <1>2, Elements
  <2>3. 1 \in 1 .. Len(q) /\ i + 1 \in 1 .. Len(q) /\ 1 < i + 1 BY <1>1
  <2>4. q[i + 1].type = type /\ q[i + 1].tx = s BY <1>1, <2>1, <2>2
  <2> QED BY <1>4, <2>3, <2>4 DEF Sorted
<1>5. Sorted(t, type) BY <1>3 DEF Sorted
<1> QED BY <1>1, <1>4, <1>5 DEF t

-----------------------------------------------------------------------------
(* Steps that move none of the user's transactions.                        *)

SpvStill ==
  /\ Said(toSpv', "getdata") = Said(toSpv, "getdata")
  /\ Sorted(toSpv, "getdata") => Sorted(toSpv', "getdata")
NodeStill ==
  /\ Said(toNode', "inv") = Said(toNode, "inv") /\ Said(toNode', "tx") = Said(toNode, "tx")
  /\ Sorted(toNode, "inv") => Sorted(toNode', "inv")
  /\ Sorted(toNode, "tx") => Sorted(toNode', "tx")
  /\ \A m \in ToSet(toNode') : m.type = "tx" => m \in ToSet(toNode)

LEMMA SpvAsBefore == UNCHANGED toSpv => SpvStill
  BY DEF SpvStill
LEMMA NodeAsBefore == UNCHANGED toNode => NodeStill
  BY DEF NodeStill

LEMMA SpvStillAdded ==
  ASSUME IsSeq(toSpv), NEW m, m.type # "getdata", toSpv' = Append(toSpv, m)
  PROVE  SpvStill
<1>1. Said(Append(toSpv, m), "getdata") = Said(toSpv, "getdata") BY SaidOther
<1>2. Sorted(toSpv, "getdata") => Sorted(Append(toSpv, m), "getdata") BY SortedAdded
<1> QED BY <1>1, <1>2 DEF SpvStill

LEMMA SpvStillTaken ==
  ASSUME IsSeq(toSpv), toSpv # <<>>, Head(toSpv).type # "getdata", toSpv' = Tail(toSpv)
  PROVE  SpvStill
<1>1. Said(Tail(toSpv), "getdata") = Said(toSpv, "getdata") BY SaidTakenOther
<1>2. Sorted(toSpv, "getdata") => Sorted(Tail(toSpv), "getdata") BY SortedTail
<1> QED BY <1>1, <1>2 DEF SpvStill

LEMMA NodeStillAdded ==
  ASSUME IsSeq(toNode), NEW m, m.type # "inv", m.type # "tx", toNode' = Append(toNode, m)
  PROVE  NodeStill
<1>1. Said(Append(toNode, m), "inv") = Said(toNode, "inv") BY SaidOther
<1>2. Said(Append(toNode, m), "tx") = Said(toNode, "tx") BY SaidOther
<1>3. Sorted(toNode, "inv") => Sorted(Append(toNode, m), "inv") BY SortedAdded
<1>4. Sorted(toNode, "tx") => Sorted(Append(toNode, m), "tx") BY SortedAdded
<1>5. ToSet(Append(toNode, m)) = ToSet(toNode) \cup {m} BY Grown
<1>6. \A k \in ToSet(toNode') : k.type = "tx" => k \in ToSet(toNode) BY <1>5
<1> QED BY <1>1, <1>2, <1>3, <1>4, <1>6 DEF NodeStill

LEMMA NodeStillTaken ==
  ASSUME IsSeq(toNode), toNode # <<>>, Head(toNode).type # "inv", Head(toNode).type # "tx", toNode' = Tail(toNode)
  PROVE  NodeStill
<1>1. Said(Tail(toNode), "inv") = Said(toNode, "inv") BY SaidTakenOther
<1>2. Said(Tail(toNode), "tx") = Said(toNode, "tx") BY SaidTakenOther
<1>3. Sorted(toNode, "inv") => Sorted(Tail(toNode), "inv") BY SortedTail
<1>4. Sorted(toNode, "tx") => Sorted(Tail(toNode), "tx") BY SortedTail
<1>5. ToSet(Tail(toNode)) \subseteq ToSet(toNode) BY Shorter
<1> QED BY <1>1, <1>2, <1>3, <1>4, <1>5 DEF NodeStill

LEMMA AskedStill ==
  ASSUME Inv, toNode' = AskForHeaders
  PROVE  NodeStill
<1>1. PICK a : a = [type |-> "getheaders", locator |-> Locator]
  OBVIOUS
<1>2. toNode' = Append(toNode, a) BY <1>1 DEF AskForHeaders
<1>3. a.type # "inv" /\ a.type # "tx" BY <1>1
<1>4. IsSeq(toNode) BY DEF Inv, ToOK
<1> QED BY <1>2, <1>3, <1>4, NodeStillAdded

LEMMA HeardOn ==
  ASSUME Heard, NoNewSights, Taken' = Taken, \A u \in ToSet(txUp') : u \in ToSet(txUp),
         inc' # Idle => inc # Idle /\ ToSet(inc'[1].txs) \subseteq ToSet(inc[1].txs)
  PROVE  Heard'
  BY DEF Heard, NoNewSights

LEMMA SameTaken == UNCHANGED <<blocks, best, mempool>> => Taken' = Taken
  BY DEF Taken, Confirmed

(* What is on its way stays there; the node may take what others send.     *)
LEMMA FlowOn ==
  ASSUME Flow, OnWay' = OnWay, Taken \subseteq Taken', \A t \in Taken' : t \in Taken \/ (t \notin Ours /\ t.ins = {}),
         UNCHANGED <<utxos, stxos, frozen, sends, rejected, restarts>>, Ready', Heard'
  PROVE  Flow'
<1>1. ASSUME NEW p, Gone(p) PROVE Gone(p)' BY <1>1 DEF Gone, Ours
<1>2. \A p : Lost(p) => Lost(p)' BY <1>1 DEF Lost
<1>3. \A op : Source(op) => Source(op)' BY <1>2 DEF Source
<1>4. Funded' BY <1>3 DEF Flow, Funded
<1>5. Held' BY DEF Flow, Held
<1>6. Leaving' BY <1>3 DEF Flow, Leaving, Ours
<1>7. Older' BY DEF Flow, Older, Ours
<1>8. Once'
  <2> SUFFICES ASSUME NEW s \in Taken' \cup OnWay, NEW t \in Taken' \cup OnWay, s.ins \cap t.ins # {} PROVE s = t
    BY DEF Once
  <2>1. s.ins # {} /\ t.ins # {}
    OBVIOUS
  <2>2. s \in Taken \cup OnWay /\ t \in Taken \cup OnWay BY <2>1
  <2> QED BY <2>2 DEF Flow, Once
<1>9. Refused' BY <1>2 DEF Flow, Refused, Ours
<1> QED BY <1>4, <1>5, <1>6, <1>7, <1>8, <1>9 DEF Flow

LEMMA OnwardTaking ==
  ASSUME Sending, SpvStill, NodeStill,
         Taken \subseteq Taken', \A t \in Taken' : t \in Taken \/ (t \notin Ours /\ t.ins = {}),
         UNCHANGED <<reorgs, utxos, stxos, frozen, sends, TxMap, rejected, restarts>>,
         Heard => Heard'
  PROVE  Sending'
<1> SUFFICES ASSUME reorgs = 0 PROVE InTurn(toSpv', toNode') /\ Flow'
  BY DEF Sending
<1>1. InTurn(toSpv, toNode) /\ Flow BY DEF Sending
<1>2. InTurn(toSpv', toNode') BY <1>1 DEF InTurn, SpvStill, NodeStill
<1>3. OnWay' = OnWay BY DEF OnWay, Way, SpvStill, NodeStill
<1>4. Ready' BY <1>1 DEF Flow, Ready, SpvStill, NodeStill
<1>5. Heard' BY <1>1 DEF Flow
<1>6. Flow' BY <1>1, <1>3, <1>4, <1>5, FlowOn
<1> QED BY <1>2, <1>6

LEMMA Onward ==
  ASSUME Sending, SpvStill, NodeStill, Taken' = Taken,
         UNCHANGED <<reorgs, utxos, stxos, frozen, sends, TxMap, rejected, restarts>>,
         Heard => Heard'
  PROVE  Sending'
<1>1. Taken \subseteq Taken' /\ \A t \in Taken' : t \in Taken \/ (t \notin Ours /\ t.ins = {})
  OBVIOUS
<1> QED BY <1>1, OnwardTaking

-----------------------------------------------------------------------------
(* The hook.                                                               *)

LEMMA AskedUnseen ==
  ASSUME Inv, toNode' = AskForHeaders
  PROVE  \A k \in ToSet(toNode') : k.type = "gettx" => k \in ToSet(toNode)
<1>1. PICK a : a = [type |-> "getheaders", locator |-> Locator]
  OBVIOUS
<1>2. toNode' = Append(toNode, a) BY <1>1 DEF AskForHeaders
<1>3. a.type # "gettx" BY <1>1
<1>4. IsSeq(toNode) BY DEF Inv, ToOK
<1>5. ToSet(Append(toNode, a)) = ToSet(toNode) \cup {a} BY <1>4, Grown
<1> QED BY <1>2, <1>3, <1>5

(* The first message is taken.                                             *)
LEMMA ReceivedStill ==
  ASSUME Inv, NEW type, Receive(type)
  PROVE  /\ type # "getdata" => SpvStill
         /\ IsSeq(toSpv) /\ toSpv # <<>> /\ toSpv' = Tail(toSpv) /\ inc = Idle
         /\ Head(toSpv) \in ToSet(toSpv) /\ Head(toSpv).type = type
         /\ \A m \in ToSet(toSpv') : m \in ToSet(toSpv)
<1>1. inc = Idle /\ toSpv # <<>> /\ toSpv' = Tail(toSpv) /\ Head(toSpv).type = type
  BY DEF Receive
<1>2. IsSeq(toSpv) BY DEF Inv, FromOK
<1>3. Head(toSpv) \in ToSet(toSpv) /\ ToSet(Tail(toSpv)) \subseteq ToSet(toSpv) BY <1>1, <1>2, Shorter
<1>4. type # "getdata" => SpvStill BY <1>1, <1>2, SpvStillTaken
<1> QED BY <1>1, <1>2, <1>3, <1>4

LEMMA SendingIngestHeaders ==
  ASSUME Inv, Sending, IngestHeaders
  PROVE  Sending'
<1>1. UNCHANGED <<reorgs, utxos, stxos, frozen, sends, TxMap, rejected, restarts, blocks, best, mempool, toSpv, toNode, txUp, inc>>
  BY DEF IngestHeaders, wallet, node
<1>2. Taken' = Taken BY <1>1, SameTaken
<1>3. SpvStill BY <1>1, SpvAsBefore
<1>4. NodeStill BY <1>1, NodeAsBefore
<1>5. Heard => Heard' BY <1>1, <1>2, HeardOn DEF NoNewSights
<1> QED BY <1>1, <1>2, <1>3, <1>4, <1>5, Onward

LEMMA SendingHeadersDone ==
  ASSUME Inv, Sending, HeadersDone
  PROVE  Sending'
<1>1. UNCHANGED <<reorgs, utxos, stxos, frozen, sends, TxMap, rejected, restarts, blocks, best, mempool, toSpv, toNode, txUp, inc>>
  BY DEF HeadersDone, wallet, node
<1>2. Taken' = Taken BY <1>1, SameTaken
<1>3. SpvStill BY <1>1, SpvAsBefore
<1>4. NodeStill BY <1>1, NodeAsBefore
<1>5. Heard => Heard' BY <1>1, <1>2, HeardOn DEF NoNewSights
<1> QED BY <1>1, <1>2, <1>3, <1>4, <1>5, Onward

LEMMA SendingEnterWait ==
  ASSUME Inv, Sending, EnterWaitState
  PROVE  Sending'
<1>1. UNCHANGED <<reorgs, utxos, stxos, frozen, sends, TxMap, rejected, restarts, blocks, best, mempool, toSpv, toNode, txUp, inc>>
  BY DEF EnterWaitState, wallet, node
<1>2. Taken' = Taken BY <1>1, SameTaken
<1>3. SpvStill BY <1>1, SpvAsBefore
<1>4. NodeStill BY <1>1, NodeAsBefore
<1>5. Heard => Heard' BY <1>1, <1>2, HeardOn DEF NoNewSights
<1> QED BY <1>1, <1>2, <1>3, <1>4, <1>5, Onward

LEMMA SendingMoreHeaders ==
  ASSUME Inv, Sending, MoreHeaders
  PROVE  Sending'
<1>1. UNCHANGED <<reorgs, utxos, stxos, frozen, sends, TxMap, rejected, restarts, blocks, best, mempool, toSpv, txUp, inc>>
  BY DEF MoreHeaders, wallet, node
<1>2. Taken' = Taken BY <1>1, SameTaken
<1>6. toNode' = AskForHeaders BY DEF MoreHeaders
<1>3. SpvStill BY <1>1, SpvAsBefore
<1>4. NodeStill BY <1>6, AskedStill
<1>5. Heard => Heard' BY <1>1, <1>2, <1>6, AskedUnseen, HeardOn DEF NoNewSights
<1> QED BY <1>1, <1>2, <1>3, <1>4, <1>5, Onward

LEMMA SendingRequestBlock ==
  ASSUME Inv, Sending, RequestBlock
  PROVE  Sending'
<1>1. UNCHANGED <<reorgs, utxos, stxos, frozen, sends, TxMap, rejected, restarts, blocks, best, mempool, toSpv, txUp, inc>>
  BY DEF RequestBlock, wallet, node
<1>2. Taken' = Taken BY <1>1, SameTaken
<1>6. PICK a : /\ a.type # "inv" /\ a.type # "tx" /\ a.type # "gettx" /\ toNode' = Append(toNode, a)
               /\ IsSeq(toNode)
  <2>1. PICK a : a = [type |-> "getblock", id |-> file[Index(hh[1].req + 1)]]
    OBVIOUS
  <2>2. toNode' = Append(toNode, a) BY <2>1 DEF RequestBlock
  <2>3. a.type # "inv" /\ a.type # "tx" /\ a.type # "gettx" BY <2>1
  <2> QED BY <2>2, <2>3 DEF Inv, ToOK
<1>3. SpvStill BY <1>1, SpvAsBefore
<1>4. NodeStill BY <1>6, NodeStillAdded
<1>5. Heard => Heard'
  <2>1. ToSet(Append(toNode, a)) = ToSet(toNode) \cup {a} BY <1>6, Grown
  <2>2. \A k \in ToSet(toNode') : k.type = "gettx" => k \in ToSet(toNode) BY <1>6, <2>1
  <2> QED BY <1>1, <1>2, <2>2, HeardOn DEF NoNewSights
<1> QED BY <1>1, <1>2, <1>3, <1>4, <1>5, Onward

LEMMA SendingHeaderHandler ==
  ASSUME Inv, Sending, HeaderHandler
  PROVE  Sending'
<1>1. UNCHANGED <<reorgs, utxos, stxos, frozen, sends, TxMap, rejected, restarts, blocks, best, mempool, toNode, txUp, inc>>
  BY DEF HeaderHandler, wallet, node
<1>2. Taken' = Taken BY <1>1, SameTaken
<1>6. SpvStill /\ \A m \in ToSet(toSpv') : m \in ToSet(toSpv)
  BY ReceivedStill DEF HeaderHandler
<1>3. SpvStill BY <1>6
<1>4. NodeStill BY <1>1, NodeAsBefore
<1>5. Heard => Heard' BY <1>1, <1>2, <1>6, HeardOn DEF NoNewSights
<1> QED BY <1>1, <1>2, <1>3, <1>4, <1>5, Onward

LEMMA SendingInvBlock ==
  ASSUME Inv, Sending, InvBlock
  PROVE  Sending'
<1>1. UNCHANGED <<reorgs, utxos, stxos, frozen, sends, TxMap, rejected, restarts, blocks, best, mempool, txUp, inc>>
  BY DEF InvBlock, wallet, node
<1>2. Taken' = Taken BY <1>1, SameTaken
<1>6. SpvStill /\ \A m \in ToSet(toSpv') : m \in ToSet(toSpv)
  BY ReceivedStill DEF InvBlock
<1>7. toNode' = AskForHeaders \/ UNCHANGED toNode BY DEF InvBlock
<1>3. SpvStill BY <1>6
<1>4. NodeStill BY <1>7, AskedStill, NodeAsBefore
<1>5. Heard => Heard'
  <2>1. \A k \in ToSet(toNode') : k.type = "gettx" => k \in ToSet(toNode) BY <1>7, AskedUnseen
  <2> QED BY <1>1, <1>2, <1>6, <2>1, HeardOn DEF NoNewSights
<1> QED BY <1>1, <1>2, <1>3, <1>4, <1>5, Onward

LEMMA SendingInvTx ==
  ASSUME Inv, Sending, InvTx
  PROVE  Sending'
<1>1. UNCHANGED <<reorgs, utxos, stxos, frozen, sends, TxMap, rejected, restarts, blocks, best, mempool, txUp, inc>>
  BY DEF InvTx, wallet, node
<1>2. Taken' = Taken BY <1>1, SameTaken
<1>6. /\ SpvStill /\ (\A m \in ToSet(toSpv') : m \in ToSet(toSpv))
      /\ Head(toSpv) \in ToSet(toSpv) /\ Head(toSpv).type = "invtx"
  BY ReceivedStill DEF InvTx
<1>7. PICK a : /\ a.type = "gettx" /\ a.tx = Head(toSpv).tx /\ toNode' = Append(toNode, a)
               /\ IsSeq(toNode)
  <2>1. PICK a : a = [type |-> "gettx", tx |-> Head(toSpv).tx]
    OBVIOUS
  <2>2. toNode' = Append(toNode, a) BY <2>1 DEF InvTx
  <2>3. a.type = "gettx" /\ a.tx = Head(toSpv).tx BY <2>1
  <2> QED BY <2>2, <2>3 DEF Inv, ToOK
<1>3. SpvStill BY <1>6
<1>4. NodeStill BY <1>7, NodeStillAdded
<1>5. Heard => Heard'
  <2> SUFFICES ASSUME Heard PROVE Heard'
    OBVIOUS
  <2>1. ToSet(Append(toNode, a)) = ToSet(toNode) \cup {a} BY <1>7, Grown
  <2>2. a.tx \in Taken BY <1>6, <1>7 DEF Heard
  <2>3. \A k \in ToSet(toNode') : k.type = "gettx" => k.tx \in Taken BY <1>7, <2>1, <2>2 DEF Heard
  <2> QED BY <1>1, <1>2, <1>6, <2>3 DEF Heard
<1> QED BY <1>1, <1>2, <1>3, <1>4, <1>5, Onward

LEMMA SendingTxHandler ==
  ASSUME Inv, Sending, TxHandler
  PROVE  Sending'
<1>1. UNCHANGED <<reorgs, utxos, stxos, frozen, sends, TxMap, rejected, restarts, blocks, best, mempool, toNode, txUp>>
  BY DEF TxHandler, wallet, node
<1>2. Taken' = Taken BY <1>1, SameTaken
<1>6. /\ SpvStill /\ (\A m \in ToSet(toSpv') : m \in ToSet(toSpv))
      /\ Head(toSpv) \in ToSet(toSpv) /\ Head(toSpv).type = "tx"
  BY ReceivedStill DEF TxHandler
<1>3. SpvStill BY <1>6
<1>4. NodeStill BY <1>1, NodeAsBefore
<1>5. Heard => Heard'
  <2> SUFFICES ASSUME Heard PROVE Heard'
    OBVIOUS
  <2>1. Head(toSpv).tx \in Taken BY <1>6 DEF Heard
  <2>2. inc' # Idle => ToSet(inc'[1].txs) \subseteq Taken
    <3>1. PICK t : t = Head(toSpv).tx
      OBVIOUS
    <3>2. PICK r : /\ r = [txs |-> <<t>>, height |-> 0, block |-> FALSE, final |-> FALSE]
                   /\ inc' = Idle \/ inc' = <<r>>
      BY <3>1 DEF TxHandler
    <3>3. r.txs = <<t>> BY <3>2
    <3>4. ToSet(r.txs) = {t} BY <3>3, OneOf
    <3>6. inc' = Idle \/ inc' = <<r>> BY <3>2
    <3>7. inc' = <<r>> => inc'[1] = r
      OBVIOUS
    <3>5. inc' = Idle \/ inc'[1] = r BY <3>6, <3>7
    <3> QED BY <2>1, <3>1, <3>4, <3>5
  <2> QED BY <1>1, <1>2, <1>6, <2>2 DEF Heard
<1> QED BY <1>1, <1>2, <1>3, <1>4, <1>5, Onward

LEMMA BlockTaken ==
  ASSUME Inv, reorgs = 0, NEW b \in 1 .. Len(blocks)
  PROVE  Txs(blocks, b) \subseteq Confirmed
<1>1. best[b] = b /\ b \in 1 .. Len(best) BY Flat
<1> QED BY <1>1, ConfirmedIs DEF Inv

LEMMA SendingBlockArrives ==
  ASSUME Inv, Sending, reorgs = 0, BlockArrives
  PROVE  Sending'
<1>1. UNCHANGED <<reorgs, utxos, stxos, frozen, sends, TxMap, rejected, restarts, blocks, best, mempool, toNode, txUp>>
  BY DEF BlockArrives, wallet, node
<1>2. Taken' = Taken BY <1>1, SameTaken
<1>6. /\ SpvStill /\ (\A m \in ToSet(toSpv') : m \in ToSet(toSpv))
      /\ Head(toSpv) \in ToSet(toSpv) /\ Head(toSpv).type = "block"
  BY ReceivedStill DEF BlockArrives
<1>3. SpvStill BY <1>6
<1>4. NodeStill BY <1>1, NodeAsBefore
<1>5. Heard => Heard'
  <2> SUFFICES ASSUME Heard PROVE Heard'
    OBVIOUS
  <2>2. inc' # Idle => ToSet(inc'[1].txs) \subseteq Taken
    <3> SUFFICES ASSUME inc' # Idle PROVE ToSet(inc'[1].txs) \subseteq Taken
      OBVIOUS
    <3>1. PICK b : b = Head(queue).id
      OBVIOUS
    <3>2. PICK r : r = [txs |-> blocks[b].txs, height |-> Head(queue).height,
                        block |-> TRUE, final |-> Head(queue).final]
      OBVIOUS
    <3>3. inc' = <<r>> /\ b = Head(toSpv).id BY <3>1, <3>2 DEF BlockArrives
    <3>4. r.txs = blocks[b].txs /\ inc'[1] = r BY <3>2, <3>3
    <3>5. b \in 1 .. Len(blocks) BY <1>6, <3>3 DEF Inv, FromOK, FromNode
    <3>6. Txs(blocks, b) \subseteq Confirmed BY <3>5, BlockTaken
    <3> QED BY <3>4, <3>6 DEF Txs, Taken
  <2> QED BY <1>1, <1>2, <1>6, <2>2 DEF Heard
<1> QED BY <1>1, <1>2, <1>3, <1>4, <1>5, Onward

LEMMA SendingHandUp ==
  ASSUME Inv, Sending, HandUp
  PROVE  Sending'
<1>1. UNCHANGED <<reorgs, utxos, stxos, frozen, sends, TxMap, rejected, restarts, blocks, best, mempool, toSpv, toNode>>
  BY DEF HandUp, node
<1>2. Taken' = Taken BY <1>1, SameTaken
<1>3. SpvStill BY <1>1, SpvAsBefore
<1>4. NodeStill BY <1>1, NodeAsBefore
<1>5. Heard => Heard'
  <2> SUFFICES ASSUME Heard PROVE Heard'
    OBVIOUS
  <2>1. PICK tx : tx = Head(inc[1].txs)
    OBVIOUS
  <2>2. inc # Idle /\ inc[1].txs # <<>> BY DEF HandUp
  <2>3. IsSeq(inc[1].txs) /\ IsSeq(txUp) BY <2>2 DEF Inv, IncOK, SlotsOK
  <2>4. tx \in ToSet(inc[1].txs) /\ ToSet(Tail(inc[1].txs)) \subseteq ToSet(inc[1].txs) BY <2>1, <2>2, <2>3, Shorter
  <2>5. tx \in Taken /\ ToSet(inc[1].txs) \subseteq Taken BY <2>2, <2>4 DEF Heard
  <2>6. \A u \in ToSet(txUp') : u.tx \in Taken
    <3>1. PICK u : u = [tx |-> tx, height |-> inc[1].height]
      OBVIOUS
    <3>2. u.tx = tx /\ (UNCHANGED txUp \/ txUp' = Append(txUp, u)) BY <2>1, <3>1 DEF HandUp
    <3>3. ToSet(Append(txUp, u)) = ToSet(txUp) \cup {u} BY <2>3, Grown
    <3> QED BY <2>5, <3>2, <3>3 DEF Heard
  <2>7. inc' # Idle => ToSet(inc'[1].txs) \subseteq Taken
    <3>1. PICK r : /\ r = [inc[1] EXCEPT !.txs = Tail(inc[1].txs)]
                   /\ inc' = Idle \/ inc' = <<r>>
      BY DEF HandUp
    <3>2. r.txs = Tail(inc[1].txs)
      <4>1. inc[1] = [txs |-> inc[1].txs, height |-> inc[1].height, block |-> inc[1].block, final |-> inc[1].final]
        BY <2>2 DEF Inv, IncOK
      <4> QED BY <3>1, <4>1
    <3>6. inc' = Idle \/ inc' = <<r>> BY <3>1
    <3>7. inc' = <<r>> => inc'[1] = r
      OBVIOUS
    <3>3. inc' = Idle \/ inc'[1] = r BY <3>6, <3>7
    <3> QED BY <2>4, <2>5, <3>2, <3>3
  <2> QED BY <1>1, <1>2, <2>6, <2>7 DEF Heard
<1> QED BY <1>1, <1>2, <1>3, <1>4, <1>5, Onward

LEMMA SendingBlockDone ==
  ASSUME Inv, Sending, BlockDone
  PROVE  Sending'
<1>1. UNCHANGED <<reorgs, utxos, stxos, frozen, sends, TxMap, rejected, restarts, blocks, best, mempool, toSpv, txUp>>
  BY DEF BlockDone, wallet, node
<1>2. Taken' = Taken BY <1>1, SameTaken
<1>6. inc' = Idle BY DEF BlockDone
<1>7. toNode' = AskForHeaders \/ UNCHANGED toNode BY DEF BlockDone, AfterFinal
<1>3. SpvStill BY <1>1, SpvAsBefore
<1>4. NodeStill BY <1>7, AskedStill, NodeAsBefore
<1>5. Heard => Heard'
  <2>1. \A k \in ToSet(toNode') : k.type = "gettx" => k \in ToSet(toNode) BY <1>7, AskedUnseen
  <2> QED BY <1>1, <1>2, <1>6, <2>1, HeardOn DEF NoNewSights
<1> QED BY <1>1, <1>2, <1>3, <1>4, <1>5, Onward

-----------------------------------------------------------------------------
(* The node.                                                               *)

LEMMA SendingStutter ==
  ASSUME Inv, Sending, Otherwise
  PROVE  Sending'
<1>1. UNCHANGED <<reorgs, utxos, stxos, frozen, sends, TxMap, rejected, restarts, blocks, best, mempool, toSpv, toNode, txUp, inc>>
  BY DEF Otherwise
<1>2. Taken' = Taken BY <1>1, SameTaken
<1>3. SpvStill BY <1>1, SpvAsBefore
<1>4. NodeStill BY <1>1, NodeAsBefore
<1>5. Heard => Heard' BY <1>1, <1>2, HeardOn DEF NoNewSights
<1> QED BY <1>1, <1>2, <1>3, <1>4, <1>5, Onward

LEMMA SendingClosed ==
  ASSUME Inv, Sending, LoseConnection
  PROVE  Sending'
<1>1. UNCHANGED <<reorgs, utxos, stxos, frozen, sends, TxMap, rejected, restarts, blocks, best, mempool, toNode, txUp, inc>>
  BY DEF LoseConnection, wallet, node, hook
<1>2. Taken' = Taken BY <1>1, SameTaken
<1>6. PICK m : m.type = "closed" /\ toSpv' = Append(toSpv, m) BY Closing
<1>7. IsSeq(toSpv) /\ m.type \notin {"getdata", "invtx", "tx"} BY <1>6 DEF Inv, FromOK
<1>3. SpvStill BY <1>6, <1>7, SpvStillAdded
<1>4. NodeStill BY <1>1, NodeAsBefore
<1>5. Heard => Heard'
  <2>1. ToSet(toSpv') = ToSet(toSpv) \cup {m} BY <1>6, <1>7, Grown
  <2>2. NoNewSights BY <1>1, <1>7, <2>1 DEF NoNewSights
  <2> QED BY <1>1, <1>2, <2>2, HeardOn
<1> QED BY <1>1, <1>2, <1>3, <1>4, <1>5, Onward

LEMMA SendingReorg ==
  ASSUME Inv, NodeReorg
  PROVE  Sending'
<1>1. reorgs' # 0
  <2>1. reorgs \in Nat /\ reorgs' = reorgs + 1 BY Typed DEF NodeReorg, Inv
  <2> QED BY <2>1
<1> QED BY <1>1 DEF Sending

LEMMA SendingPayment ==
  ASSUME Inv, More, Sending, NEW tx \in Payments, NodePayment(tx)
  PROVE  Sending'
<1>1. UNCHANGED <<reorgs, utxos, stxos, frozen, sends, TxMap, rejected, restarts, blocks, best, toNode, txUp, inc>>
  BY DEF NodePayment, wallet, hook
<1>2. PICK m : m.type = "invtx" /\ m.tx = tx /\ toSpv' = Append(toSpv, m)
  <2>1. PICK m : m = [type |-> "invtx", tx |-> tx]
    OBVIOUS
  <2>2. m.type = "invtx" /\ m.tx = tx BY <2>1
  <2> QED BY <2>1, <2>2 DEF NodePayment, Tell
<1>3. IsSeq(toSpv) BY DEF Inv, FromOK
<1>4. SpvStill
  <2>1. m.type # "getdata" BY <1>2
  <2> QED BY <1>2, <1>3, <2>1, SpvStillAdded
<1>5. NodeStill BY <1>1, NodeAsBefore
<1>6. Taken' = Taken \cup {tx}
  <2>1. mempool' = mempool \cup {tx} BY DEF NodePayment
  <2>2. Confirmed' = Confirmed BY <1>1 DEF Confirmed
  <2> QED BY <2>1, <2>2 DEF Taken
<1>7. tx \notin Ours /\ tx.ins = {} BY NotOurs, PaymentAssumption DEF More
<1>8. Taken \subseteq Taken' /\ \A t \in Taken' : t \in Taken \/ (t \notin Ours /\ t.ins = {})
  BY <1>6, <1>7
<1>9. Heard => Heard'
  <2> SUFFICES ASSUME Heard PROVE Heard'
    OBVIOUS
  <2>1. ToSet(toSpv') = ToSet(toSpv) \cup {m} BY <1>2, <1>3, Grown
  <2>2. \A k \in ToSet(toSpv') : k.type \in {"invtx", "tx"} => k.tx \in Taken' BY <1>2, <1>6, <2>1 DEF Heard
  <2> QED BY <1>1, <1>6, <2>2 DEF Heard
<1> QED BY <1>1, <1>4, <1>5, <1>8, <1>9, OnwardTaking

(* What a block holds was in the mempool.                                  *)
LEMMA MinedTaken ==
  ASSUME Inv, NEW txs \in Mineable, NodeMine(txs)
  PROVE  Taken' = Taken
<1>1. PICK b : b.txs = txs /\ blocks' = Append(blocks, b)
  <2>1. PICK b : b = [prev |-> Last(best), txs |-> txs]
    OBVIOUS
  <2>2. b.txs = txs BY <2>1
  <2> QED BY <2>1, <2>2 DEF NodeMine
<1>2. PICK n : n = Len(blocks) + 1
  OBVIOUS
<1>3. /\ blocks'[n] = b /\ (\A i \in 1 .. Len(blocks) : blocks'[i] = blocks[i])
      /\ IsSeq(best) /\ Len(best) \in Nat /\ best \in Seq(1 .. Len(blocks)) /\ best' = Append(best, n)
  <2>1. IsSeq(blocks) /\ best \in Seq(1 .. Len(blocks)) /\ Len(best) \in Nat BY Typed DEF Inv
  <2>2. IsSeq(best) BY <2>1, OwnElements
  <2> QED BY <1>1, <1>2, <2>1, <2>2, Grown DEF NodeMine
<1>4. /\ Len(best') = Len(best) + 1 /\ best'[Len(best) + 1] = n /\ IsSeq(best')
      /\ \A i \in 1 .. Len(best) : best'[i] = best[i]
  BY <1>3, Grown
<1>5. DOMAIN best' = 1 .. Len(best) + 1 BY <1>3, <1>4, Elements
<1>6. ASSUME NEW i \in 1 .. Len(best) PROVE Txs(blocks', best'[i]) = Txs(blocks, best[i])
  <2>1. best[i] \in 1 .. Len(blocks) BY <1>3
  <2> QED BY <1>3, <1>4, <2>1 DEF Txs
<1>7. Txs(blocks', best'[Len(best) + 1]) = ToSet(txs) BY <1>1, <1>3, <1>4 DEF Txs
<1>8. ToSet(txs) \subseteq mempool /\ mempool' = mempool \ ToSet(txs)
  <2>1. /\ Len(blocks') = Len(blocks) + 1 /\ Txs(blocks', Len(blocks) + 1) \subseteq mempool
    BY MinedBlock
  <2>2. Txs(blocks', Len(blocks) + 1) = ToSet(txs) BY <1>1, <1>2, <1>3 DEF Txs
  <2> QED BY <2>1, <2>2 DEF NodeMine
<1>9. ASSUME NEW t PROVE t \in Confirmed' <=> t \in Confirmed \/ t \in ToSet(txs)
  <2>1. t \in Confirmed' <=> \E i \in 1 .. Len(best) + 1 : t \in Txs(blocks', best'[i])
    BY <1>5 DEF Confirmed, Txs
  <2>2. t \in Confirmed <=> \E i \in 1 .. Len(best) : t \in Txs(blocks, best[i]) BY ConfirmedIs DEF Inv
  <2>3. \A i : i \in 1 .. Len(best) + 1 <=> i \in 1 .. Len(best) \/ i = Len(best) + 1 BY <1>3
  <2> QED BY <1>6, <1>7, <2>1, <2>2, <2>3
<1> QED BY <1>8, <1>9 DEF Taken

LEMMA SendingMine ==
  ASSUME Inv, Sending, NEW txs \in Mineable, NodeMine(txs)
  PROVE  Sending'
<1>1. UNCHANGED <<reorgs, utxos, stxos, frozen, sends, TxMap, rejected, restarts, toNode, txUp, inc>>
  BY DEF NodeMine, wallet, hook
<1>2. Taken' = Taken BY MinedTaken
<1>3. PICK m : m.type = "invblock" /\ toSpv' = Append(toSpv, m)
  <2>1. PICK m : m = [type |-> "invblock"]
    OBVIOUS
  <2>2. m.type = "invblock" BY <2>1
  <2> QED BY <2>1, <2>2 DEF NodeMine, Tell
<1>4. IsSeq(toSpv) BY DEF Inv, FromOK
<1>5. SpvStill
  <2>1. m.type # "getdata" BY <1>3
  <2> QED BY <1>3, <1>4, <2>1, SpvStillAdded
<1>6. NodeStill BY <1>1, NodeAsBefore
<1>7. Heard => Heard'
  <2>1. ToSet(toSpv') = ToSet(toSpv) \cup {m} BY <1>3, <1>4, Grown
  <2>2. \A k \in ToSet(toSpv') : k.type \in {"invtx", "tx"} => k \in ToSet(toSpv) BY <1>3, <2>1
  <2> QED BY <1>1, <1>2, <2>2, HeardOn DEF NoNewSights
<1> QED BY <1>1, <1>2, <1>5, <1>6, <1>7, Onward

(* A transaction arrives at the node.  Unless it spends what was lost, it  *)
(* is taken: what it spends came before it, and nothing else spends it.    *)
LEMMA Fate ==
  ASSUME More, Flow, NEW x \in OnWay, NEW on, on \subseteq OnWay, OnWay \subseteq on \cup {x},
         \A s \in on : Past(x, s)
  PROVE  Valid(x) \/ \E p \in Ours : Lost(p) /\ x.ins \subseteq Outpoints(p)
<1>1. /\ x \in Ours /\ x \notin Taken
      /\ \A op \in x.ins : op \in Mine(op[1]) /\ Source(op) /\ op[1] # x
  BY DEF Flow, Leaving, Older
<1>2. PICK op \in x.ins : x.ins = {op} BY <1>1 DEF More, Names
<1>3. op \in Outpoints(op[1])
  <2>1. op \in Mine(op[1]) BY <1>1, <1>2
  <2> QED BY <2>1 DEF Mine, Outpoints
<1>4. CASE op[1] \in Taken
  <2>1. ASSUME NEW t \in Taken, op \in t.ins PROVE FALSE
    <3>1. t.ins \cap x.ins # {} BY <1>2, <2>1
    <3>2. t = x BY <3>1 DEF Flow, Once
    <3> QED BY <1>1, <3>2
  <2>2. op \in UNION {Outpoints(t) : t \in Taken} BY <1>3, <1>4
  <2>3. op \notin UNION {t.ins : t \in Taken} BY <2>1
  <2>4. op \in Unspent(Taken) BY <2>2, <2>3 DEF Unspent
  <2> QED BY <1>2, <2>4 DEF Valid, Taken
<1>5. CASE op[1] \in OnWay
  <2>1. op[1] \in on BY <1>1, <1>2, <1>5
  <2>2. x.ins \cap Outpoints(op[1]) = {} BY <2>1 DEF Past
  <2> QED BY <1>2, <1>3, <2>2
<1>6. CASE Lost(op[1])
  <2>1. op[1] \in Ours BY <1>6 DEF Lost, Gone
  <2>2. x.ins \subseteq Outpoints(op[1]) BY <1>2, <1>3
  <2> QED BY <1>6, <2>1, <2>2
<1>7. Source(op) BY <1>1, <1>2
<1> QED BY <1>4, <1>5, <1>6, <1>7 DEF Source

Sent(x) ==
  \/ Taken' = Taken \cup {x} /\ UNCHANGED rejected
  \/ /\ UNCHANGED Taken /\ rejected' = rejected \cup {x}
     /\ \E p \in Ours : Lost(p) /\ x.ins \subseteq Outpoints(p)

LEMMA Arrived ==
  ASSUME Flow, NEW x \in OnWay, OnWay' = OnWay \ {x}, Sent(x),
         UNCHANGED <<utxos, stxos, frozen, sends, restarts>>, Ready', Heard'
  PROVE  Flow'
<1>1. Ours' = Ours BY DEF Ours
<1>2. Taken \subseteq Taken' /\ (\A t \in Taken' : t \in Taken \/ t = x) BY DEF Sent
<1>3. x \in Ours /\ x \notin Taken /\ \A op \in DOMAIN frozen : frozen[op] # x BY DEF Flow, Leaving, Held
<1>4. ASSUME NEW p, Gone(p) PROVE Gone(p)'
  <2>1. p \in Ours /\ p \notin Taken /\ p \notin OnWay /\ \A op \in DOMAIN frozen : frozen[op] # p
    BY <1>4 DEF Gone
  <2>2. p \notin Taken' BY <1>2, <2>1
  <2>3. p \notin OnWay' BY <2>1
  <2> QED BY <1>1, <2>1, <2>2, <2>3 DEF Gone
<1>5. \A p : Lost(p) => Lost(p)' BY <1>4 DEF Lost
<1>6. x \in Taken' \/ Lost(x)'
  <2>1. CASE Taken' = Taken \cup {x} BY <2>1
  <2>2. CASE UNCHANGED Taken /\ \E p \in Ours : Lost(p)
    <3>1. x \notin Taken' /\ x \notin OnWay' BY <1>3, <2>2
    <3>2. Gone(x)' BY <1>1, <1>3, <3>1 DEF Gone
    <3>3. restarts' > 0 BY <2>2 DEF Lost
    <3> QED BY <3>2, <3>3 DEF Lost
  <2> QED BY <2>1, <2>2 DEF Sent
<1>7. ASSUME NEW op, Source(op) PROVE Source(op)'
  <2>1. CASE op[1] \in Taken BY <1>2, <2>1 DEF Source
  <2>2. CASE op[1] \in OnWay
    <3>1. CASE op[1] = x
      <4>1. op[1] \in Taken' \/ Lost(op[1])' BY <1>6, <3>1
      <4> QED BY <4>1 DEF Source
    <3>2. CASE op[1] # x BY <2>2, <3>2 DEF Source
    <3> QED BY <3>1, <3>2
  <2>3. CASE Lost(op[1]) BY <1>5, <2>3 DEF Source
  <2> QED BY <1>7, <2>1, <2>2, <2>3 DEF Source
<1>8. Funded' BY <1>7 DEF Flow, Funded
<1>9. Held' BY DEF Flow, Held
<1>10. Leaving'
  <2>1. ASSUME NEW t \in OnWay' PROVE t \in OnWay /\ t \notin Taken' BY <1>2, <2>1 DEF Flow, Leaving
  <2> QED BY <1>1, <1>7, <2>1 DEF Flow, Leaving
<1>11. Older' BY <1>1 DEF Flow, Older
<1>12. Once'
  <2>1. Taken' \cup OnWay' \subseteq Taken \cup OnWay BY <1>2
  <2> QED BY <2>1 DEF Flow, Once
<1>13. Refused'
  <2>1. \A t \in rejected : \E p \in Ours : Lost(p)' /\ t.ins \subseteq Outpoints(p)
    BY <1>5 DEF Flow, Refused
  <2>2. CASE UNCHANGED rejected BY <1>1, <2>1, <2>2 DEF Refused
  <2>3. CASE rejected' = rejected \cup {x} /\ \E p \in Ours : Lost(p) /\ x.ins \subseteq Outpoints(p)
    <3>1. \E p \in Ours : Lost(p)' /\ x.ins \subseteq Outpoints(p) BY <1>5, <2>3
    <3> QED BY <1>1, <2>1, <2>3, <3>1 DEF Refused
  <2> QED BY <2>2, <2>3 DEF Sent
<1> QED BY <1>8, <1>9, <1>10, <1>11, <1>12, <1>13 DEF Flow

(* The node hears of a transaction, and asks for it.                       *)
LEMMA AskedFor ==
  ASSUME Inv, InTurn(toSpv, toNode), Flow, toNode # <<>>, Head(toNode).type = "inv", toNode' = Tail(toNode),
         NEW a, a.type = "getdata", a.tx = Head(toNode).tx, toSpv' = Append(toSpv, a),
         UNCHANGED <<utxos, stxos, frozen, sends, TxMap, rejected, restarts, inc, txUp>>, Taken' = Taken
  PROVE  InTurn(toSpv', toNode') /\ Flow'
<1>1. IsSeq(toSpv) /\ IsSeq(toNode) BY DEF Inv, FromOK, ToOK
<1>2. PICK x : x = a.tx
  OBVIOUS
<1>3. PICK asked, said, rest : asked = Said(toSpv, "getdata") /\ said = Said(toNode, "tx") /\ rest = Said(Tail(toNode), "inv")
  OBVIOUS
<1>4. Said(toNode, "inv") = rest \cup {x} BY <1>1, <1>2, <1>3, SaidTaken
<1>5. /\ Said(toNode', "inv") = rest /\ Said(toNode', "tx") = said /\ Said(toSpv', "getdata") = asked \cup {x}
  <2>1. Said(Append(toSpv, a), "getdata") = asked \cup {x} BY <1>1, <1>2, <1>3, SaidAdded
  <2>2. Head(toNode).type # "tx"
    OBVIOUS
  <2>3. Said(Tail(toNode), "tx") = said BY <1>1, <1>3, <2>2, SaidTakenOther
  <2> QED BY <1>3, <2>1, <2>3
<1>6. AllPast(said, asked \cup (rest \cup {x})) /\ AllPast(asked, rest \cup {x})
  BY <1>3, <1>4 DEF InTurn
<1>7. InTurn(toSpv', toNode')
  <2>1. Sorted(Tail(toNode), "inv") /\ \A s \in rest : Past(x, s) BY <1>1, <1>2, <1>3, SortedTail DEF InTurn
  <2>2. Sorted(Tail(toNode), "tx") BY <1>1, SortedTail DEF InTurn
  <2>3. Sorted(Append(toSpv, a), "getdata")
    <3>1. \A s \in Said(toSpv, "getdata") : Past(s, a.tx) BY <1>2, <1>3, <1>6 DEF AllPast
    <3>2. Sorted(toSpv, "getdata") BY DEF InTurn
    <3> QED BY <1>1, <3>1, <3>2, SortedAdded
  <2>4. AllPast(said, (asked \cup {x}) \cup rest) BY <1>6 DEF AllPast
  <2>5. AllPast(asked \cup {x}, rest) BY <1>6, <2>1 DEF AllPast
  <2> QED BY <1>5, <2>1, <2>2, <2>3, <2>4, <2>5 DEF InTurn
<1>8. OnWay' = OnWay
  <2>1. OnWay = ((rest \cup {x}) \cup asked) \cup said BY <1>3, <1>4 DEF OnWay, Way
  <2>2. OnWay' = (rest \cup (asked \cup {x})) \cup said BY <1>5 DEF OnWay, Way
  <2> QED BY <2>1, <2>2
<1>9. ToSet(toNode') \subseteq ToSet(toNode) BY <1>1, Shorter
<1>10. Ready'
  <2>1. \A m \in ToSet(toNode') : m.type = "tx" => m.signed = TRUE BY <1>9 DEF Flow, Ready
  <2>2. Said(toNode', "inv") \cup Said(toSpv', "getdata") = Said(toNode, "inv") \cup Said(toSpv, "getdata")
    BY <1>3, <1>4, <1>5
  <2> QED BY <2>1, <2>2 DEF Flow, Ready
<1>11. Heard'
  <2>1. ToSet(toSpv') = ToSet(toSpv) \cup {a} BY <1>1, Grown
  <2>2. \A k \in ToSet(toSpv') : k.type \in {"invtx", "tx"} => k \in ToSet(toSpv) BY <2>1
  <2> QED BY <1>9, <2>2, HeardOn DEF Flow, NoNewSights
<1>12. Taken \subseteq Taken' /\ \A t \in Taken' : t \in Taken \/ (t \notin Ours /\ t.ins = {})
  OBVIOUS
<1> QED BY <1>7, <1>8, <1>10, <1>11, <1>12, FlowOn

(* The node is sent a transaction.                                         *)
LEMMA TakenOrNot ==
  ASSUME Inv, More, InTurn(toSpv, toNode), Flow, NodeServe, Head(toNode).type = "tx"
  PROVE  InTurn(toSpv', toNode') /\ Flow'
<1>1. UNCHANGED <<utxos, stxos, frozen, sends, TxMap, blocks, best, restarts, inc, txUp, toSpv>>
  BY DEF NodeServe, wallet, hook
<1>2. IsSeq(toNode) /\ toNode # <<>> /\ toNode' = Tail(toNode) BY DEF NodeServe, Inv, ToOK
<1>3. PICK x : x = Head(toNode).tx
  OBVIOUS
<1>4. PICK asked, said, rest : asked = Said(toSpv, "getdata") /\ said = Said(toNode, "inv") /\ rest = Said(Tail(toNode), "tx")
  OBVIOUS
<1>5. Said(toNode, "tx") = rest \cup {x} BY <1>2, <1>3, <1>4, SaidTaken
<1>6. Said(toNode', "inv") = said /\ Said(toNode', "tx") = rest /\ Said(toSpv', "getdata") = asked
  <2>1. Head(toNode).type # "inv"
    OBVIOUS
  <2>2. Said(Tail(toNode), "inv") = said BY <1>2, <1>4, <2>1, SaidTakenOther
  <2> QED BY <1>1, <1>2, <1>4, <2>2
<1>7. AllPast(rest \cup {x}, asked \cup said) /\ AllPast(asked, said) BY <1>4, <1>5 DEF InTurn
<1>8. Sorted(Tail(toNode), "tx") /\ \A s \in rest : Past(x, s) BY <1>2, <1>3, <1>4, SortedTail DEF InTurn
<1>9. InTurn(toSpv', toNode')
  <2>1. Sorted(Tail(toNode), "inv") BY <1>2, SortedTail DEF InTurn
  <2>2. Sorted(toSpv', "getdata") BY <1>1 DEF InTurn
  <2>3. AllPast(rest, asked \cup said) BY <1>7 DEF AllPast
  <2> QED BY <1>2, <1>6, <1>7, <1>8, <2>1, <2>2, <2>3 DEF InTurn
<1>10. PICK on : on = OnWay'
  OBVIOUS
<1>11. OnWay = on \cup {x} /\ (\A s \in on : Past(x, s)) /\ x \in OnWay /\ on \subseteq OnWay
  <2>1. on = (said \cup asked) \cup rest BY <1>6, <1>10 DEF OnWay, Way
  <2>2. OnWay = (said \cup asked) \cup (rest \cup {x}) BY <1>4, <1>5 DEF OnWay, Way
  <2>3. \A s \in on : Past(x, s) BY <1>7, <1>8, <2>1 DEF AllPast
  <2> QED BY <2>1, <2>2, <2>3
<1>12. OnWay' = OnWay \ {x}
  <2>1. \A s \in on : s # x BY <1>11 DEF Past
  <2> QED BY <1>10, <1>11, <2>1
<1>13. Head(toNode).signed = TRUE
  <2>1. Head(toNode) \in ToSet(toNode) BY <1>2, Shorter
  <2> QED BY <2>1 DEF Flow, Ready
<1>14. Confirmed' = Confirmed BY <1>1 DEF Confirmed
<1>15. Sent(x)
  <2>1. CASE Valid(x)
    <3>1. mempool' = mempool \cup {x} /\ UNCHANGED rejected BY <1>3, <1>13, <2>1 DEF NodeServe
    <3>2. Taken' = Taken \cup {x} BY <1>14, <3>1 DEF Taken
    <3> QED BY <3>1, <3>2 DEF Sent
  <2>2. CASE ~Valid(x)
    <3>1. rejected' = rejected \cup {x} /\ UNCHANGED mempool BY <1>3, <2>2 DEF NodeServe
    <3>2. UNCHANGED Taken BY <1>14, <3>1 DEF Taken
    <3>3. OnWay \subseteq on \cup {x} BY <1>11
    <3>4. \E p \in Ours : Lost(p) /\ x.ins \subseteq Outpoints(p) BY <1>11, <2>2, <3>3, Fate
    <3> QED BY <3>1, <3>2, <3>4 DEF Sent
  <2> QED BY <2>1, <2>2
<1>16. ToSet(toNode') \subseteq ToSet(toNode) BY <1>2, Shorter
<1>17. Ready'
  <2>1. \A m \in ToSet(toNode') : m.type = "tx" => m.signed = TRUE BY <1>16 DEF Flow, Ready
  <2> QED BY <1>1, <1>4, <1>6, <2>1 DEF Flow, Ready
<1>18. Heard'
  <2>1. Taken \subseteq Taken' BY <1>15 DEF Sent
  <2> QED BY <1>1, <1>16, <2>1 DEF Flow, Heard
<1>19. Flow' BY <1>1, <1>11, <1>12, <1>15, <1>17, <1>18, Arrived
<1> QED BY <1>9, <1>19

LEMMA SendingServe ==
  ASSUME Inv, More, Sending, NodeServe
  PROVE  Sending'
<1>1. UNCHANGED <<reorgs, utxos, stxos, frozen, sends, TxMap, blocks, best, restarts, inc, txUp>>
  BY DEF NodeServe, wallet, hook
<1> SUFFICES ASSUME reorgs = 0 PROVE Sending'
  BY <1>1 DEF Sending
<1>2. InTurn(toSpv, toNode) /\ Flow BY DEF Sending
<1>3. PICK m : m = Head(toNode)
  OBVIOUS
<1>4. /\ toNode # <<>> /\ toNode' = Tail(toNode) /\ IsSeq(toNode) /\ IsSeq(toSpv)
      /\ m \in ToSet(toNode) /\ ToSet(toNode') \subseteq ToSet(toNode)
  <2>1. toNode # <<>> /\ toNode' = Tail(toNode) /\ IsSeq(toNode) /\ IsSeq(toSpv) BY DEF NodeServe, Inv, ToOK, FromOK
  <2> QED BY <1>3, <2>1, Shorter
<1>5. CASE m.type = "inv"
  <2>1. PICK a : a.type = "getdata" /\ a.tx = m.tx /\ toSpv' = Append(toSpv, a)
    <3>1. PICK a : a = [type |-> "getdata", tx |-> m.tx]
      OBVIOUS
    <3>2. toSpv' = Append(toSpv, a) BY <1>3, <1>5, <3>1 DEF NodeServe, Tell
    <3>3. a.type = "getdata" /\ a.tx = m.tx BY <3>1
    <3> QED BY <3>2, <3>3
  <2>2. UNCHANGED <<mempool, rejected>> BY <1>3, <1>5 DEF NodeServe
  <2>3. Taken' = Taken BY <1>1, <2>2, SameTaken
  <2>4. InTurn(toSpv', toNode') /\ Flow' BY <1>1, <1>2, <1>3, <1>4, <1>5, <2>1, <2>2, <2>3, AskedFor
  <2> QED BY <2>4 DEF Sending
<1>6. CASE m.type = "tx"
  <2>1. InTurn(toSpv', toNode') /\ Flow' BY <1>2, <1>3, <1>6, TakenOrNot
  <2> QED BY <2>1 DEF Sending
<1>7. CASE m.type # "inv" /\ m.type # "tx"
  <2>1. UNCHANGED <<mempool, rejected>> BY <1>3, <1>7 DEF NodeServe
  <2>2. Taken' = Taken BY <1>1, <2>1, SameTaken
  <2>3. m.type = "getblock" => m.id # Hole
    <3> SUFFICES ASSUME m.type = "getblock" PROVE m.id # Hole
      OBVIOUS
    <3>1. m.id \in Wanted(queue) BY <1>4 DEF More, Expected, Coming
    <3>2. m.id \in 1 .. Len(file) BY <3>1, QueuedIs
    <3> QED BY <3>2 DEF Hole
  <2>4. UNCHANGED toSpv \/ \E a : toSpv' = Append(toSpv, a) /\ Answer(m, a) BY <1>3, <2>3, Answers
  <2>5. NodeStill BY <1>3, <1>4, <1>7, NodeStillTaken
  <2>6. CASE UNCHANGED toSpv
    <3>1. SpvStill BY <2>6, SpvAsBefore
    <3>2. Heard => Heard' BY <1>1, <1>4, <2>2, <2>6, HeardOn DEF NoNewSights
    <3> QED BY <1>1, <2>1, <2>2, <2>5, <3>1, <3>2, Onward
  <2>7. CASE \E a : toSpv' = Append(toSpv, a) /\ Answer(m, a)
    <3>1. PICK a : toSpv' = Append(toSpv, a) /\ Answer(m, a) BY <2>7
    <3>2. a.type # "getdata" /\ a.type # "invtx" /\ (a.type = "tx" => m.type = "gettx" /\ a.tx = m.tx)
      BY <1>7, <3>1 DEF Answer
    <3>3. SpvStill BY <1>4, <3>1, <3>2, SpvStillAdded
    <3>4. Heard => Heard'
      <4> SUFFICES ASSUME Heard PROVE Heard'
        OBVIOUS
      <4>1. ToSet(toSpv') = ToSet(toSpv) \cup {a} BY <1>4, <3>1, Grown
      <4>2. a.type = "tx" => a.tx \in Taken BY <1>4, <3>2 DEF Heard
      <4>3. \A k \in ToSet(toSpv') : k.type \in {"invtx", "tx"} => k.tx \in Taken BY <3>2, <4>1, <4>2 DEF Heard
      <4> QED BY <1>1, <1>4, <2>2, <4>3 DEF Heard
    <3> QED BY <1>1, <2>1, <2>2, <2>5, <3>3, <3>4, Onward
  <2> QED BY <2>4, <2>6, <2>7
<1> QED BY <1>5, <1>6, <1>7

-----------------------------------------------------------------------------
(* The node asks for a transaction of ours.                                *)

LEMMA SetOfOne ==
  ASSUME NEW r
  PROVE  SetToSeq({r}) = <<r>>
<1>1. Cardinality({r}) = 1 BY FS_Singleton
<1>2. PICK n : n = Cardinality({r})
  OBVIOUS
<1>3. n = 1 BY <1>1, <1>2
<1> DEFINE P(f) == f \in [1 .. n -> {r}] /\ IsInjective(f)
<1>4. SetToSeq({r}) = CHOOSE f : P(f) BY <1>2 DEF SetToSeq
<1>5. P(<<r>>) BY <1>3 DEF IsInjective
<1>6. P(CHOOSE f : P(f)) BY <1>5
<1>7. SetToSeq({r}) \in [1 .. 1 -> {r}] BY <1>3, <1>4, <1>6
<1> QED BY <1>7

LEMMA OneAnswer ==
  ASSUME Inv, Ready, GetDataHandler, NEW x, x = Head(toSpv).tx
  PROVE  \E r : r.type = "tx" /\ r.tx = x /\ r.signed = TRUE /\ toNode' = Append(toNode, r)
<1>1. PICK t \in TxMap : t.tx = x
  <2>1. Head(toSpv) \in ToSet(toSpv) /\ Head(toSpv).type = "getdata" BY ReceivedStill DEF GetDataHandler
  <2>2. x \in Said(toSpv, "getdata") BY <2>1 DEF Said
  <2> QED BY <2>2 DEF Ready
<1>2. PICK r : r = [type |-> "tx", tx |-> x, signed |-> TRUE]
  OBVIOUS
<1> DEFINE T == {[type |-> "tx", tx |-> s.tx, signed |-> s.signed] : s \in {k \in TxMap : k.tx = x}}
<1>3. \A s \in TxMap : s.tx = x => [type |-> "tx", tx |-> s.tx, signed |-> s.signed] = r
  <2>1. \A s \in TxMap : s.signed = TRUE BY DEF Ready
  <2> QED BY <1>2, <2>1
<1>4. T = {r}
  <2>1. \A e \in T : e = r BY <1>3
  <2>2. r \in T
    <3>1. [type |-> "tx", tx |-> t.tx, signed |-> t.signed] = r BY <1>1, <1>3
    <3>2. [type |-> "tx", tx |-> t.tx, signed |-> t.signed] \in T BY <1>1
    <3> QED BY <3>1, <3>2
  <2> HIDE DEF T
  <2> QED BY <2>1, <2>2
<1>5. toNode' = toNode \o SetToSeq(T) BY DEF GetDataHandler
<1> HIDE DEF T
<1>6. toNode' = toNode \o <<r>> BY <1>4, <1>5, SetOfOne
<1>7. toNode' = Append(toNode, r)
  <2>1. toNode \in Seq(ToSet(toNode)) BY DEF Inv, ToOK, IsSeq
  <2> QED BY <1>6, <2>1
<1>8. r.type = "tx" /\ r.tx = x /\ r.signed = TRUE BY <1>2
<1> QED BY <1>7, <1>8

LEMMA SendingGetData ==
  ASSUME Inv, Sending, GetDataHandler
  PROVE  Sending'
<1>1. UNCHANGED <<reorgs, utxos, stxos, frozen, sends, TxMap, rejected, restarts, blocks, best, mempool, txUp, inc>>
  BY DEF GetDataHandler, wallet, node
<1> SUFFICES ASSUME reorgs = 0 PROVE InTurn(toSpv', toNode') /\ Flow'
  BY <1>1 DEF Sending
<1>2. InTurn(toSpv, toNode) /\ Flow /\ Ready BY DEF Sending, Flow
<1>3. Taken' = Taken BY <1>1, SameTaken
<1>4. /\ IsSeq(toSpv) /\ toSpv # <<>> /\ toSpv' = Tail(toSpv) /\ Head(toSpv).type = "getdata"
      /\ \A m \in ToSet(toSpv') : m \in ToSet(toSpv)
  BY ReceivedStill DEF GetDataHandler
<1>5. PICK x : x = Head(toSpv).tx
  OBVIOUS
<1>6. PICK r : r.type = "tx" /\ r.tx = x /\ r.signed = TRUE /\ toNode' = Append(toNode, r)
  BY <1>2, <1>5, OneAnswer
<1>7. IsSeq(toNode) BY DEF Inv, ToOK
<1>8. PICK rest, inv, said : rest = Said(Tail(toSpv), "getdata") /\ inv = Said(toNode, "inv") /\ said = Said(toNode, "tx")
  OBVIOUS
<1>9. Said(toSpv, "getdata") = rest \cup {x} BY <1>4, <1>5, <1>8, SaidTaken
<1>10. /\ Said(toSpv', "getdata") = rest /\ Said(toNode', "inv") = inv /\ Said(toNode', "tx") = said \cup {x}
  <2>1. Said(Append(toNode, r), "tx") = said \cup {x} BY <1>6, <1>7, <1>8, SaidAdded
  <2>2. r.type # "inv" BY <1>6
  <2>3. Said(Append(toNode, r), "inv") = inv BY <1>7, <1>8, <2>2, SaidOther
  <2> QED BY <1>4, <1>6, <1>8, <2>1, <2>3
<1>11. AllPast(said, (rest \cup {x}) \cup inv) /\ AllPast(rest \cup {x}, inv)
  BY <1>2, <1>8, <1>9 DEF InTurn
<1>12. InTurn(toSpv', toNode')
  <2>1. Sorted(Tail(toSpv), "getdata") /\ \A s \in rest : Past(x, s)
    BY <1>2, <1>4, <1>5, <1>8, SortedTail DEF InTurn
  <2>2. Sorted(Append(toNode, r), "inv")
    <3>1. r.type # "inv" BY <1>6
    <3> QED BY <1>2, <1>7, <3>1, SortedAdded DEF InTurn
  <2>3. Sorted(Append(toNode, r), "tx")
    <3>1. \A s \in Said(toNode, "tx") : Past(s, r.tx) BY <1>6, <1>8, <1>11 DEF AllPast
    <3> QED BY <1>2, <1>7, <3>1, SortedAdded DEF InTurn
  <2>4. AllPast(said \cup {x}, rest \cup inv) BY <1>11, <2>1 DEF AllPast
  <2>5. AllPast(rest, inv) BY <1>11 DEF AllPast
  <2> QED BY <1>4, <1>6, <1>10, <2>1, <2>2, <2>3, <2>4, <2>5 DEF InTurn
<1>13. OnWay' = OnWay
  <2>1. OnWay = (inv \cup (rest \cup {x})) \cup said BY <1>8, <1>9 DEF OnWay, Way
  <2>2. OnWay' = (inv \cup rest) \cup (said \cup {x}) BY <1>10 DEF OnWay, Way
  <2> QED BY <2>1, <2>2
<1>14. ToSet(toNode') = ToSet(toNode) \cup {r} BY <1>6, <1>7, Grown
<1>15. Ready'
  <2>1. \A m \in ToSet(toNode') : m.type = "tx" => m.signed = TRUE BY <1>2, <1>6, <1>14 DEF Ready
  <2>2. inv \cup rest \subseteq Said(toNode, "inv") \cup Said(toSpv, "getdata") BY <1>8, <1>9
  <2>3. \A t \in inv \cup rest : \E s \in TxMap : s.tx = t BY <1>2, <2>2 DEF Ready
  <2> QED BY <1>1, <1>2, <1>10, <2>1, <2>3 DEF Ready
<1>16. Heard'
  <2>1. \A k \in ToSet(toNode') : k.type = "gettx" => k \in ToSet(toNode) BY <1>6, <1>14
  <2> QED BY <1>1, <1>2, <1>3, <1>4, <2>1, HeardOn DEF Flow, NoNewSights
<1>17. Taken \subseteq Taken' /\ \A t \in Taken' : t \in Taken \/ (t \notin Ours /\ t.ins = {}) BY <1>3
<1>18. Flow' BY <1>1, <1>2, <1>13, <1>15, <1>16, <1>17, FlowOn
<1> QED BY <1>12, <1>18

-----------------------------------------------------------------------------
(* The wallet takes what is handed up.                                     *)

LEMMA SendingWalletTx ==
  ASSUME Inv, Sending, WalletTxHandler, Same
  PROVE  Sending'
<1>1. UNCHANGED <<frozen, sends, TxMap, toNode, blocks, best, mempool, rejected, reorgs, toSpv, inc, restarts>>
  BY DEF WalletTxHandler, Same, node, hook
<1> SUFFICES ASSUME reorgs = 0 PROVE InTurn(toSpv', toNode') /\ Flow'
  BY <1>1 DEF Sending
<1>2. InTurn(toSpv, toNode) /\ Flow BY DEF Sending
<1>3. Taken' = Taken BY <1>1, SameTaken
<1>4. OnWay' = OnWay BY <1>1 DEF OnWay, Way
<1>5. PICK u : u = Head(txUp) /\ u \in ToSet(txUp) /\ u.height \in Nat /\ Booked(u.tx)
  <2>1. txUp # <<>> /\ IsSeq(txUp) BY DEF WalletTxHandler, Inv, SlotsOK
  <2>2. Head(txUp) \in ToSet(txUp) BY <2>1, Shorter
  <2> QED BY <2>2 DEF Inv, SlotsOK
<1>6. ToSet(txUp') \subseteq ToSet(txUp)
  <2>1. txUp # <<>> /\ IsSeq(txUp) /\ txUp' = Tail(txUp) BY DEF WalletTxHandler, Inv, SlotsOK
  <2> QED BY <2>1, Shorter
<1>7. Ingest(u.tx, u.height) BY <1>5 DEF WalletTxHandler
<1>8. u.tx \in Taken BY <1>2, <1>5 DEF Flow, Heard
<1>9. u.tx.ins \subseteq stxos BY <1>5, PaymentAssumption DEF Booked
<1>10. /\ \A op \in DOMAIN utxos' : op \in DOMAIN utxos \/ op[1] = u.tx
       /\ stxos \subseteq stxos'
  BY <1>5, <1>7, Ingested DEF Inv, Gained
<1>11. \A op \in DOMAIN utxos : op \in DOMAIN utxos'
  <2> SUFFICES ASSUME NEW op \in DOMAIN utxos PROVE op \in DOMAIN utxos'
    OBVIOUS
  <2>1. op \notin stxos BY DEF Inv, CoinsOK
  <2>2. op \notin stxos' BY <1>5, <1>7, <1>9, <2>1, StoredSo DEF Inv
  <2> QED BY <1>5, <1>7, <2>2, StoredSo DEF Inv
<1>12. Ours' = Ours BY <1>1 DEF Ours
<1>13. \A p : Lost(p)' = Lost(p) BY <1>1, <1>3, <1>4, <1>12 DEF Lost, Gone
<1>14. \A op : Source(op)' = Source(op) BY <1>3, <1>4, <1>13 DEF Source
<1>20. Funded'
  <2>1. \A op : op[1] = u.tx => Source(op) BY <1>8 DEF Source
  <2> QED BY <1>2, <1>10, <1>14, <2>1 DEF Flow, Funded
<1>21. Held' BY <1>1, <1>2, <1>4, <1>11 DEF Flow, Held
<1>22. Leaving' BY <1>2, <1>3, <1>4, <1>10, <1>12, <1>14 DEF Flow, Leaving
<1>23. Older' BY <1>2, <1>12 DEF Flow, Older
<1>24. Once' BY <1>2, <1>3, <1>4 DEF Flow, Once
<1>25. Ready' BY <1>1, <1>2 DEF Flow, Ready
<1>26. Heard' BY <1>1, <1>2, <1>3, <1>6, HeardOn DEF Flow, NoNewSights
<1>27. Refused' BY <1>1, <1>2, <1>12, <1>13 DEF Flow, Refused
<1> QED BY <1>1, <1>2, <1>20, <1>21, <1>22, <1>23, <1>24, <1>25, <1>26, <1>27 DEF Flow

LEMMA SendingHeight ==
  ASSUME Inv, More, Sending, HeightHandler, Same
  PROVE  Sending'
<1>1. UNCHANGED <<stxos, frozen, sends, TxMap, toNode, blocks, best, mempool, rejected, reorgs, toSpv, inc, restarts, txUp>>
  BY DEF HeightHandler, Same, node, hook
<1> SUFFICES ASSUME reorgs = 0 PROVE Sending'
  BY <1>1 DEF Sending
<1>2. utxos' = utxos
  <2>1. heightUp = <<syncHeight>> /\ syncHeight \in Nat /\ prev \in Nat
    BY DEF HeightHandler, Inv, SlotsOK
  <2>2. Head(heightUp) = syncHeight BY <2>1
  <2>3. prev <= syncHeight BY DEF More, Punctual
  <2>4. ~(Head(heightUp) < prev) BY <2>1, <2>2, <2>3
  <2> QED BY <2>4 DEF HeightHandler
<1>3. Taken' = Taken BY <1>1, SameTaken
<1>4. SpvStill BY <1>1, SpvAsBefore
<1>5. NodeStill BY <1>1, NodeAsBefore
<1>6. Heard => Heard' BY <1>1, <1>3, HeardOn DEF NoNewSights
<1> QED BY <1>1, <1>2, <1>3, <1>4, <1>5, <1>6, Onward

-----------------------------------------------------------------------------
(* The user sends.                                                         *)

LEMMA UnsentApart ==
  ASSUME Inv, NEW tx, Unsent(tx)
  PROVE  tx \notin Taken
<1>1. tx \notin mempool BY DEF Unsent
<1>2. tx \notin Confirmed
  <2>1. best \in Seq(1 .. Len(blocks)) BY Typed DEF Inv
  <2>2. \A i \in 1 .. Len(best) : best[i] \in 1 .. Len(blocks) BY <2>1
  <2>3. \A i \in 1 .. Len(best) : tx \notin Txs(blocks, best[i]) BY <2>2 DEF Unsent
  <2> QED BY <2>3, ConfirmedIs DEF Inv
<1> QED BY <1>1, <1>2 DEF Taken

LEMMA SendingMaybeSend ==
  ASSUME Inv, More, Sending, MaybeSend, Same
  PROVE  Sending'
<1>1. UNCHANGED <<utxos, stxos, txUp, toNode, TxMap, blocks, best, mempool, rejected, reorgs, toSpv, inc, restarts>>
  BY DEF MaybeSend, Same, node, hook
<1> SUFFICES ASSUME reorgs = 0 PROVE InTurn(toSpv', toNode') /\ Flow'
  BY <1>1 DEF Sending
<1>2. InTurn(toSpv, toNode) /\ Flow BY DEF Sending
<1>3. PICK op, tx : /\ tx.n = Len(sends) + 1 /\ tx.ins = {op} /\ tx.ins # {} /\ sends' = Append(sends, tx)
                    /\ op \in DOMAIN utxos
                    /\ frozen' = [o \in DOMAIN frozen \cup {op} |-> IF o = op THEN tx ELSE frozen[o]]
  <2>1. PICK op, outs :
          /\ op \in DOMAIN utxos
          /\ sends' = Append(sends, NewSend(op, outs))
          /\ frozen' = [o \in DOMAIN frozen \cup {op} |-> IF o = op THEN NewSend(op, outs) ELSE frozen[o]]
    BY DEF MaybeSend, Candidates
  <2>2. PICK tx : tx = NewSend(op, outs)
    OBVIOUS
  <2>3. tx.ins = {op} /\ tx.n = Len(sends) + 1 BY <2>2 DEF NewSend
  <2>4. tx.ins # {} BY <2>3
  <2> QED BY <2>1, <2>2, <2>3, <2>4
<1>4. IsSeq(sends) /\ Len(sends) \in Nat BY Elements DEF Inv, SendsOK
<1>5. Ours' = Ours \cup {tx} BY <1>3, <1>4, Grown DEF Ours
<1>6. tx \notin Ours
  <2> SUFFICES ASSUME tx \in Ours PROVE FALSE
    OBVIOUS
  <2>1. PICK i \in 1 .. Len(sends) : sends[i] = tx BY <1>4, Elements DEF Ours
  <2>2. sends[i].n = i BY DEF More, Names
  <2> QED BY <1>3, <1>4, <2>1, <2>2
<1>7. tx \notin Taken BY <1>3, <1>6, NeverSeen, UnsentApart DEF More
<1>8. tx \notin OnWay BY <1>2, <1>6 DEF Flow, Leaving
<1>9. /\ DOMAIN frozen' = DOMAIN frozen \cup {op}
      /\ \A o \in DOMAIN frozen' : (o = op /\ frozen'[o] = tx) \/ (o \in DOMAIN frozen /\ frozen'[o] = frozen[o])
  BY <1>3
<1>10. Taken' = Taken BY <1>1, SameTaken
<1>11. OnWay' = OnWay BY <1>1 DEF OnWay, Way
<1>12. ASSUME NEW p, Lost(p) PROVE Lost(p)'
  <2>1. p \in Ours /\ p # tx BY <1>6, <1>12 DEF Lost, Gone
  <2>2. \A o \in DOMAIN frozen' : frozen'[o] # p BY <1>9, <1>12, <2>1 DEF Lost, Gone
  <2> QED BY <1>1, <1>5, <1>10, <1>11, <1>12, <2>1, <2>2 DEF Lost, Gone
<1>13. \A o : Source(o) => Source(o)' BY <1>10, <1>11, <1>12 DEF Source
<1>20. Funded' BY <1>1, <1>2, <1>13 DEF Flow, Funded
<1>21. Held' BY <1>1, <1>2, <1>3, <1>8, <1>9, <1>11 DEF Flow, Held
<1>22. Leaving' BY <1>1, <1>2, <1>5, <1>10, <1>11, <1>13 DEF Flow, Leaving
<1>23. Older'
  <2>1. op[1] # tx
    <3>1. Source(op) BY <1>2, <1>3 DEF Flow, Funded
    <3> QED BY <1>6, <1>7, <1>8, <3>1 DEF Source, Lost, Gone
  <2> QED BY <1>2, <1>3, <1>5, <2>1 DEF Flow, Older
<1>24. Once' BY <1>2, <1>10, <1>11 DEF Flow, Once
<1>25. Ready' BY <1>1, <1>2 DEF Flow, Ready
<1>26. Heard' BY <1>1, <1>2, <1>10, HeardOn DEF Flow, NoNewSights
<1>27. Refused' BY <1>1, <1>2, <1>5, <1>12 DEF Flow, Refused
<1> QED BY <1>1, <1>2, <1>20, <1>21, <1>22, <1>23, <1>24, <1>25, <1>26, <1>27 DEF Flow

LEMMA SendingNahDontSend ==
  ASSUME Inv, Sending, NEW tx, NahDontSend(tx), Same
  PROVE  Sending'
<1>1. UNCHANGED <<utxos, stxos, sends, txUp, toNode, TxMap, blocks, best, mempool, rejected, reorgs, toSpv, inc, restarts>>
  BY DEF NahDontSend, Same, node, hook
<1> SUFFICES ASSUME reorgs = 0 PROVE InTurn(toSpv', toNode') /\ Flow'
  BY <1>1 DEF Sending
<1>2. InTurn(toSpv, toNode) /\ Flow BY DEF Sending
<1>3. \A o \in DOMAIN frozen' : o \in DOMAIN frozen /\ o \notin tx.ins /\ frozen'[o] = frozen[o]
  <2>1. frozen' = Thaw(tx) BY DEF NahDontSend
  <2> QED BY <2>1 DEF Thaw
<1>4. Taken' = Taken BY <1>1, SameTaken
<1>5. OnWay' = OnWay BY <1>1 DEF OnWay, Way
<1>6. Ours' = Ours BY <1>1 DEF Ours
<1>7. \A p : Lost(p) => Lost(p)' BY <1>1, <1>3, <1>4, <1>5, <1>6 DEF Lost, Gone
<1>8. \A o : Source(o) => Source(o)' BY <1>4, <1>5, <1>7 DEF Source
<1>20. Funded' BY <1>1, <1>2, <1>8 DEF Flow, Funded
<1>21. Held' BY <1>1, <1>2, <1>3, <1>5 DEF Flow, Held
<1>22. Leaving' BY <1>1, <1>2, <1>4, <1>5, <1>6, <1>8 DEF Flow, Leaving
<1>23. Older' BY <1>2, <1>6 DEF Flow, Older
<1>24. Once' BY <1>2, <1>4, <1>5 DEF Flow, Once
<1>25. Ready' BY <1>1, <1>2 DEF Flow, Ready
<1>26. Heard' BY <1>1, <1>2, <1>4, HeardOn DEF Flow, NoNewSights
<1>27. Refused' BY <1>1, <1>2, <1>6, <1>7 DEF Flow, Refused
<1> QED BY <1>1, <1>2, <1>20, <1>21, <1>22, <1>23, <1>24, <1>25, <1>26, <1>27 DEF Flow

(* Nothing that is on its way spends what has not been sent yet.           *)
LEMMA NoneAhead ==
  ASSUME Flow, NEW tx, tx \notin Taken, tx \notin OnWay, NEW o \in DOMAIN frozen, frozen[o] = tx
  PROVE  \A s \in OnWay : Past(s, tx)
<1> SUFFICES ASSUME NEW s \in OnWay PROVE s # tx /\ s.ins \cap Outpoints(tx) = {}
  BY DEF Past
<1>1. ASSUME NEW e \in s.ins, e \in Outpoints(tx) PROVE FALSE
  <2>1. e[1] = tx BY <1>1 DEF Outpoints
  <2>2. Source(e) BY DEF Flow, Leaving
  <2>3. ~Lost(tx) BY DEF Lost, Gone
  <2> QED BY <2>1, <2>2, <2>3 DEF Source
<1> QED BY <1>1

LEMMA SendingReallySend ==
  ASSUME Inv, More, Sending, NEW tx \in Ours, ReallySend(tx), Same
  PROVE  Sending'
<1>1. UNCHANGED <<sends, txUp, blocks, best, mempool, rejected, reorgs, toSpv, inc, restarts>>
  BY DEF ReallySend, Same, node, hook
<1> SUFFICES ASSUME reorgs = 0 PROVE InTurn(toSpv', toNode') /\ Flow'
  BY <1>1 DEF Sending
<1>2. InTurn(toSpv, toNode) /\ Flow BY DEF Sending
<1>3. PICK o \in DOMAIN frozen : frozen[o] = tx BY DEF ReallySend, FindFreezeTx
<1>4. tx.ins = {o} /\ Unsent(tx) /\ o \in DOMAIN utxos /\ tx \notin OnWay
  BY <1>2, <1>3 DEF More, Names, Fresh, Flow, Held
<1>5. o \notin stxos /\ o \in Mine(o[1]) BY <1>4 DEF Inv, CoinsOK
<1>6. tx \notin Taken BY <1>4, UnsentApart
<1>7. \A s \in OnWay : Past(s, tx) BY <1>2, <1>3, <1>4, <1>6, NoneAhead
<1>8. \A e \in DOMAIN frozen' : e \in DOMAIN frozen /\ e \notin tx.ins /\ frozen'[e] = frozen[e]
  <2>1. frozen' = Thaw(tx) BY DEF ReallySend
  <2> QED BY <2>1 DEF Thaw
<1>9. Ingest(tx, 0) BY DEF ReallySend
<1>10. /\ stxos \subseteq stxos' /\ tx.ins \subseteq stxos'
       /\ \A e \in DOMAIN utxos' : e \in DOMAIN utxos \/ e[1] = tx
  <2>1. tx.ins \subseteq DOMAIN utxos BY <1>4
  <2> QED BY <1>9, <2>1, Ingested DEF Inv, Gained
<1>11. \A e \in DOMAIN utxos : e \in stxos' \/ e \in DOMAIN utxos'
  BY <1>9, StoredSo DEF Inv
<1>12. \A e \in stxos' : e \in stxos \/ e \in tx.ins BY <1>9, StoredSo DEF Inv
<1>13. PICK s : s.tx = tx /\ s.signed = TRUE /\ TxMap' = TxMap \cup {s}
  <2>1. PICK s : s = [tx |-> tx, signed |-> tx.ins \subseteq DOMAIN utxos]
    OBVIOUS
  <2>2. TxMap' = TxMap \cup {s} BY <2>1 DEF ReallySend, PushTx, SignMyInputs
  <2>3. (tx.ins \subseteq DOMAIN utxos) = TRUE BY <1>4
  <2>4. s.tx = tx /\ s.signed = TRUE BY <2>1, <2>3
  <2> QED BY <2>2, <2>4
<1>14. PICK a : toNode' = Append(toNode, a) /\ a.type = "inv" /\ a.tx = tx /\ IsSeq(toNode)
  <2>1. PICK a : a = [type |-> "inv", tx |-> SignMyInputs(tx).tx]
    OBVIOUS
  <2>2. SignMyInputs(tx).tx = tx BY DEF SignMyInputs
  <2>3. a.type = "inv" /\ a.tx = tx BY <2>1, <2>2
  <2> QED BY <2>1, <2>3 DEF ReallySend, PushTx, Inv, ToOK
<1>15. PICK asked, said, sent : asked = Said(toSpv, "getdata") /\ said = Said(toNode, "inv") /\ sent = Said(toNode, "tx")
  OBVIOUS
<1>16. Said(toSpv', "getdata") = asked /\ Said(toNode', "inv") = said \cup {tx} /\ Said(toNode', "tx") = sent
  <2>1. Said(Append(toNode, a), "inv") = said \cup {tx} BY <1>14, <1>15, SaidAdded
  <2>2. a.type # "tx" BY <1>14
  <2>3. Said(Append(toNode, a), "tx") = sent BY <1>14, <1>15, <2>2, SaidOther
  <2> QED BY <1>1, <1>14, <1>15, <2>1, <2>3
<1>17. OnWay = (said \cup asked) \cup sent BY <1>15 DEF OnWay, Way
<1>18. OnWay' = OnWay \cup {tx}
  <2>1. OnWay' = ((said \cup {tx}) \cup asked) \cup sent BY <1>16 DEF OnWay, Way
  <2> QED BY <1>17, <2>1
<1>19. InTurn(toSpv', toNode')
  <2>1. AllPast(sent, asked \cup said) /\ AllPast(asked, said) BY <1>2, <1>15 DEF InTurn
  <2>2. \A r \in (said \cup asked) \cup sent : Past(r, tx) BY <1>7, <1>17
  <2>3. Sorted(Append(toNode, a), "inv")
    <3>1. \A r \in Said(toNode, "inv") : Past(r, a.tx) BY <1>14, <1>15, <2>2
    <3>2. Sorted(toNode, "inv") BY <1>2 DEF InTurn
    <3> QED BY <1>14, <3>1, <3>2, SortedAdded
  <2>4. Sorted(Append(toNode, a), "tx")
    <3>1. a.type # "tx" /\ Sorted(toNode, "tx") BY <1>2, <1>14 DEF InTurn
    <3> QED BY <1>14, <3>1, SortedAdded
  <2>5. Sorted(toSpv', "getdata") BY <1>1, <1>2 DEF InTurn
  <2>6. AllPast(sent, asked \cup (said \cup {tx})) BY <2>1, <2>2 DEF AllPast
  <2>7. AllPast(asked, said \cup {tx}) BY <2>1, <2>2 DEF AllPast
  <2> QED BY <1>14, <1>16, <2>3, <2>4, <2>5, <2>6, <2>7 DEF InTurn
<1>20. Taken' = Taken BY <1>1, SameTaken
<1>21. Ours' = Ours BY <1>1 DEF Ours
<1>22. ASSUME NEW p, Lost(p) PROVE Lost(p)'
  <2>1. p # tx BY <1>3, <1>22 DEF Lost, Gone
  <2>2. \A e \in DOMAIN frozen' : frozen'[e] # p BY <1>8, <1>22 DEF Lost, Gone
  <2> QED BY <1>1, <1>18, <1>20, <1>21, <1>22, <2>1, <2>2 DEF Lost, Gone
<1>23. \A e : Source(e) => Source(e)' BY <1>18, <1>20, <1>22 DEF Source
<1>30. Funded'
  <2>1. \A e : e[1] = tx => Source(e)' BY <1>18 DEF Source
  <2> QED BY <1>2, <1>10, <1>23, <2>1 DEF Flow, Funded
<1>31. Held'
  <2> SUFFICES ASSUME NEW e \in DOMAIN frozen' PROVE e \in DOMAIN utxos' /\ frozen'[e] \notin OnWay'
    BY DEF Held
  <2>1. e \in DOMAIN frozen /\ e \notin tx.ins /\ frozen'[e] = frozen[e] BY <1>8
  <2>2. e \in DOMAIN utxos /\ frozen[e] \notin OnWay BY <1>2, <2>1 DEF Flow, Held
  <2>3. e \notin stxos BY <2>2 DEF Inv, CoinsOK
  <2>4. e \in DOMAIN utxos' BY <1>11, <1>12, <2>1, <2>2, <2>3
  <2>5. frozen[e].ins = {e} BY <2>1 DEF More, Names
  <2>6. frozen[e] # tx BY <2>1, <2>5
  <2> QED BY <1>18, <2>1, <2>2, <2>4, <2>6
<1>32. Leaving'
  <2>1. ASSUME NEW t \in OnWay
        PROVE  /\ t \in Ours' /\ t \notin Taken' /\ t.ins \subseteq stxos'
               /\ \A e \in t.ins : e \in Mine(e[1]) /\ Source(e)'
    BY <1>2, <1>10, <1>20, <1>21, <1>23 DEF Flow, Leaving
  <2>2. Source(o)' BY <1>2, <1>4, <1>23 DEF Flow, Funded
  <2>3. \A e \in tx.ins : e \in Mine(e[1]) /\ Source(e)' BY <1>4, <1>5, <2>2
  <2>4. tx \in Ours' /\ tx \notin Taken' /\ tx.ins \subseteq stxos' BY <1>6, <1>10, <1>20, <1>21
  <2> QED BY <1>18, <2>1, <2>3, <2>4 DEF Leaving
<1>33. Older' BY <1>2, <1>21 DEF Flow, Older
<1>34. Once'
  <2>1. ASSUME NEW t \in Taken \cup OnWay, o \in t.ins PROVE FALSE
    <3>1. t \in OnWay => t.ins \subseteq stxos BY <1>2 DEF Flow, Leaving
    <3>2. t \in Taken => Booked(t)
      <4>1. best \in Seq(1 .. Len(blocks)) BY Typed DEF Inv
      <4>2. \A i \in 1 .. Len(best) : best[i] \in 1 .. Len(blocks) BY <4>1
      <4>3. t \in Confirmed => \E b \in 1 .. Len(blocks) : t \in Txs(blocks, b) BY <4>2, ConfirmedIs DEF Inv
      <4> QED BY <4>3 DEF Taken, Inv, NodeTxs
    <3>3. Booked(t) => t.ins \subseteq stxos BY PaymentAssumption DEF Booked
    <3> QED BY <1>5, <2>1, <3>1, <3>2, <3>3
  <2>2. \A t \in Taken \cup OnWay : t.ins \cap tx.ins = {} BY <1>4, <2>1
  <2> QED BY <1>2, <1>18, <1>20, <2>2 DEF Flow, Once
<1>35. ToSet(toNode') = ToSet(toNode) \cup {a} BY <1>14, Grown
<1>36. Ready'
  <2>1. \A t \in TxMap' : t.signed = TRUE BY <1>2, <1>13 DEF Flow, Ready
  <2>2. \A m \in ToSet(toNode') : m.type = "tx" => m.signed = TRUE BY <1>2, <1>14, <1>35 DEF Flow, Ready
  <2>3. \A t \in said \cup asked : \E k \in TxMap' : k.tx = t BY <1>2, <1>13, <1>15 DEF Flow, Ready
  <2>4. \E k \in TxMap' : k.tx = tx BY <1>13
  <2> QED BY <1>16, <2>1, <2>2, <2>3, <2>4 DEF Ready
<1>37. Heard'
  <2>1. \A k \in ToSet(toNode') : k.type = "gettx" => k \in ToSet(toNode) BY <1>14, <1>35
  <2> QED BY <1>1, <1>2, <1>20, <2>1, HeardOn DEF Flow, NoNewSights
<1>38. Refused' BY <1>1, <1>2, <1>21, <1>22 DEF Flow, Refused
<1> QED BY <1>19, <1>30, <1>31, <1>32, <1>33, <1>34, <1>36, <1>37, <1>38 DEF Flow

-----------------------------------------------------------------------------
(* A restart loses what was on its way.                                    *)

LEMMA NoneSaid ==
  ASSUME NEW m, NEW type, m.type # type
  PROVE  Said(<<m>>, type) = {} /\ Sorted(<<m>>, type)
<1>1. ToSet(<<m>>) = {m} BY OneOf
<1>2. Said(<<m>>, type) = {} BY <1>1 DEF Said
<1>3. PICK q : q = <<m>>
  OBVIOUS
<1>4. Len(q) = 1 BY <1>3
<1>5. \A i \in 1 .. Len(q) : \A j \in 1 .. Len(q) : ~(i < j) BY <1>4
<1>6. Sorted(q, type) BY <1>5 DEF Sorted
<1> QED BY <1>2, <1>3, <1>6

LEMMA SortedNone == \A type : Sorted(<<>>, type)
<1>1. PICK q : q = <<>>
  OBVIOUS
<1>2. Len(q) = 0 BY <1>1, NothingYet
<1>3. \A i \in 1 .. Len(q) : FALSE BY <1>2
<1>4. \A type : Sorted(q, type) BY <1>3 DEF Sorted
<1> QED BY <1>1, <1>4

LEMMA SendingRestart ==
  ASSUME Inv, Sending, Restart
  PROVE  Sending'
<1>1. UNCHANGED <<utxos, stxos, sends, blocks, best, mempool, rejected, reorgs>>
  BY DEF Restart, WalletRestart, node
<1> SUFFICES ASSUME reorgs = 0 PROVE InTurn(toSpv', toNode') /\ Flow'
  BY <1>1 DEF Sending
<1>2. Flow BY DEF Sending
<1>3. inc' = Idle /\ toSpv' = <<>> /\ frozen' = <<>> /\ txUp' = <<>> /\ TxMap' = {} /\ restarts' > 0
  <2>1. restarts \in Nat /\ restarts' = restarts + 1 BY Typed DEF Restart, Inv
  <2>2. restarts' > 0 BY <2>1
  <2> QED BY <2>2 DEF Restart, WalletRestart
<1>4. PICK a : a.type = "getheaders" /\ toNode' = <<a>> /\ ToSet(toNode') = {a}
  <2>1. PICK a : a = [type |-> "getheaders", locator |-> Locator]
    OBVIOUS
  <2>2. toNode' = <<a>> BY <2>1 DEF Restart
  <2>3. a.type = "getheaders" BY <2>1
  <2> QED BY <2>2, <2>3, OneOf
<1>5. /\ Said(toSpv', "getdata") = {} /\ Said(toNode', "inv") = {} /\ Said(toNode', "tx") = {}
      /\ Sorted(toSpv', "getdata") /\ Sorted(toNode', "inv") /\ Sorted(toNode', "tx")
  <2>1. a.type # "inv" /\ a.type # "tx" BY <1>4
  <2> QED BY <1>3, <1>4, <2>1, NoneSaid, SortedNone, SaidNone
<1>6. InTurn(toSpv', toNode') BY <1>5 DEF InTurn, AllPast
<1>7. OnWay' = {} BY <1>5 DEF OnWay, Way
<1>8. Taken' = Taken BY <1>1, SameTaken
<1>9. Ours' = Ours BY <1>1 DEF Ours
<1>10. \A o \in DOMAIN frozen' : FALSE BY <1>3
<1>11. \A p : p \in Ours /\ p \notin Taken => Lost(p)' BY <1>3, <1>7, <1>8, <1>9, <1>10 DEF Lost, Gone
<1>12. \A p : Lost(p) => Lost(p)' BY <1>11 DEF Lost, Gone
<1>13. \A o : Source(o) => Source(o)'
  <2>1. \A p \in OnWay : Lost(p)' BY <1>2, <1>11 DEF Flow, Leaving
  <2> QED BY <1>8, <1>12, <2>1 DEF Source
<1>20. Funded' BY <1>1, <1>2, <1>13 DEF Flow, Funded
<1>21. Held' BY <1>10 DEF Held
<1>22. Leaving' BY <1>7 DEF Leaving
<1>23. Older' BY <1>2, <1>9 DEF Flow, Older
<1>24. Once' BY <1>2, <1>7, <1>8 DEF Flow, Once
<1>25. Ready'
  <2>1. \A t \in TxMap' : FALSE BY <1>3
  <2>2. \A m \in ToSet(toNode') : m.type # "tx" BY <1>4
  <2> QED BY <1>5, <2>1, <2>2 DEF Ready
<1>26. Heard'
  <2>1. \A m \in ToSet(toSpv') : FALSE BY <1>3, NothingYet
  <2>2. \A u \in ToSet(txUp') : FALSE BY <1>3, NothingYet
  <2>3. \A k \in ToSet(toNode') : k.type # "gettx" BY <1>4
  <2> QED BY <1>3, <2>1, <2>2, <2>3 DEF Heard
<1>27. Refused' BY <1>1, <1>2, <1>9, <1>12 DEF Flow, Refused
<1> QED BY <1>6, <1>20, <1>21, <1>22, <1>23, <1>24, <1>25, <1>26, <1>27 DEF Flow

LEMMA SendingHolds == SInit => Sending
<1> SUFFICES ASSUME SInit PROVE InTurn(toSpv, toNode) /\ Flow
  BY DEF Sending
<1>1. /\ utxos = <<>> /\ frozen = <<>> /\ sends = <<>> /\ txUp = <<>> /\ toNode = <<>>
      /\ TxMap = {} /\ inc = Idle /\ mempool = {} /\ rejected = {} /\ best = <<1>>
      /\ blocks = << [prev |-> 0, txs |-> <<>>] >>
      /\ toSpv = << [type |-> "headers", hdrs |-> <<>>] >>
  BY DEF SInit, WalletInit
<1>2. PICK m : m.type = "headers" /\ toSpv = <<m>> /\ ToSet(toSpv) = {m}
  <2>1. PICK m : m = [type |-> "headers", hdrs |-> <<>>]
    OBVIOUS
  <2>2. m.type = "headers" /\ toSpv = <<m>> BY <1>1, <2>1
  <2> QED BY <2>2, OneOf
<1>3. /\ Said(toSpv, "getdata") = {} /\ Said(toNode, "inv") = {} /\ Said(toNode, "tx") = {}
      /\ Sorted(toSpv, "getdata") /\ Sorted(toNode, "inv") /\ Sorted(toNode, "tx")
  <2>1. m.type # "getdata" BY <1>2
  <2> QED BY <1>1, <1>2, <2>1, NoneSaid, SortedNone, SaidNone
<1>4. InTurn(toSpv, toNode) BY <1>3 DEF InTurn, AllPast
<1>5. OnWay = {} BY <1>3 DEF OnWay, Way
<1>6. Taken = {}
  <2>1. PICK x : x = [prev |-> 0, txs |-> <<>>]
    OBVIOUS
  <2>2. x.txs = <<>> /\ blocks = <<x>> BY <1>1, <2>1
  <2>3. blocks[1] = x /\ DOMAIN best = {1} /\ best[1] = 1 BY <1>1, <2>2
  <2>4. \A i \in DOMAIN best : ToSet(blocks[best[i]].txs) = {} BY <2>2, <2>3, NothingYet
  <2>5. Confirmed = {} BY <2>4 DEF Confirmed
  <2> QED BY <1>1, <2>5 DEF Taken
<1>7. \A tx \in Ours : FALSE BY <1>1, NothingYet DEF Ours
<1>8. (\A o \in DOMAIN frozen : FALSE) /\ (\A o \in DOMAIN utxos : FALSE) BY <1>1
<1>9. \A k \in ToSet(toNode) : FALSE BY <1>1, NothingYet
<1>10. \A u \in ToSet(txUp) : FALSE BY <1>1, NothingYet
<1>20. Funded /\ Held BY <1>8 DEF Funded, Held
<1>21. Leaving BY <1>5 DEF Leaving
<1>22. Older BY <1>7 DEF Older
<1>23. Once BY <1>5, <1>6 DEF Once
<1>24. Ready BY <1>1, <1>3, <1>9 DEF Ready
<1>25. Heard
  <2>1. \A k \in ToSet(toSpv) : k.type \notin {"invtx", "tx"} BY <1>2
  <2> QED BY <1>1, <1>9, <1>10, <2>1 DEF Heard
<1>26. Refused BY <1>1 DEF Refused
<1> QED BY <1>4, <1>20, <1>21, <1>22, <1>23, <1>24, <1>25, <1>26 DEF Flow

LEMMA KeptSending == Inv /\ More /\ Sending /\ [SNext]_svars => Sending'
<1> SUFFICES ASSUME Inv, More, Sending, [SNext]_svars PROVE Sending'
  OBVIOUS
<1>1. CASE UNCHANGED svars BY <1>1, NothingElse, SendingStutter
<1>2. CASE Env
  <2>1. ASSUME NEW tx \in Payments, NodePayment(tx) PROVE Sending' BY <2>1, SendingPayment
  <2>2. ASSUME NEW txs \in Mineable, NodeMine(txs) PROVE Sending' BY <2>2, SendingMine
  <2>3. CASE NodeReorg BY <2>3, SendingReorg
  <2>4. CASE LoseConnection BY <2>4, SendingClosed
  <2> QED BY <1>2, <2>1, <2>2, <2>3, <2>4 DEF Env
<1>3. CASE Restart BY <1>3, SendingRestart
<1>4. CASE NodeServe BY <1>4, SendingServe
<1>5. CASE HookStep
  <2>1. CASE IngestHeaders BY <2>1, SendingIngestHeaders
  <2>2. CASE MoreHeaders BY <2>2, SendingMoreHeaders
  <2>3. CASE HeadersDone BY <2>3, SendingHeadersDone
  <2>4. CASE RequestBlock BY <2>4, SendingRequestBlock
  <2>5. CASE EnterWaitState BY <2>5, SendingEnterWait
  <2>6. CASE HeaderHandler BY <2>6, SendingHeaderHandler
  <2>7. CASE InvBlock BY <2>7, SendingInvBlock
  <2>8. CASE InvTx BY <2>8, SendingInvTx
  <2>9. CASE TxHandler BY <2>9, SendingTxHandler
  <2>10. CASE GetDataHandler BY <2>10, SendingGetData
  <2>11. CASE BlockArrives
    <3>1. CASE reorgs = 0 BY <2>11, <3>1, SendingBlockArrives
    <3>2. CASE reorgs # 0
      <4>1. reorgs' = reorgs BY <2>11 DEF BlockArrives, node
      <4> QED BY <3>2, <4>1 DEF Sending
    <3> QED BY <3>1, <3>2
  <2>12. CASE HandUp BY <2>12, SendingHandUp
  <2>13. CASE BlockDone BY <2>13, SendingBlockDone
  <2> QED BY <1>5, <2>1, <2>2, <2>3, <2>4, <2>5, <2>6, <2>7, <2>8, <2>9, <2>10, <2>11, <2>12, <2>13
      DEF HookStep
<1>6. CASE WalletStep BY <1>6, SendingWalletTx, SendingHeight, NothingElse, SendingStutter DEF WalletStep
<1>7. CASE User
  <2>1. Same BY <1>7 DEF User
  <2>2. CASE MaybeSend BY <2>1, <2>2, SendingMaybeSend
  <2>3. ASSUME NEW i \in DOMAIN sends, ReallySend(sends[i]) PROVE Sending'
    <3>1. sends[i] \in Ours
      <4>1. IsSeq(sends) BY DEF Inv, SendsOK
      <4> QED BY <4>1, Elements DEF Ours
    <3> QED BY <2>1, <2>3, <3>1, SendingReallySend
  <2>4. ASSUME NEW i \in DOMAIN sends, NahDontSend(sends[i]) PROVE Sending'
    BY <2>1, <2>4, SendingNahDontSend
  <2> QED BY <1>7, <2>2, <2>3, <2>4 DEF User
<1> QED BY <1>1, <1>2, <1>3, <1>4, <1>5, <1>6, <1>7 DEF SNext

LEMMA NothingRefused == Sending => SendsAccepted
<1> SUFFICES ASSUME Sending, reorgs = 0, NEW tx \in rejected
             PROVE  restarts > 0 /\ \E s \in ToSet(sends) \ (Confirmed \cup mempool) : tx.ins \subseteq Outpoints(s)
  BY DEF SendsAccepted
<1>1. PICK p \in Ours : Lost(p) /\ tx.ins \subseteq Outpoints(p) BY DEF Sending, Flow, Refused
<1>2. p \in ToSet(sends) /\ p \notin Confirmed \cup mempool /\ restarts > 0 BY <1>1 DEF Lost, Gone, Ours, Taken
<1> QED BY <1>1, <1>2

(* MaybeSend freezes the coin it picks and ReallySend has signed for it    *)
(* and booked it as spent before the transaction is announced, PushTx puts *)
(* it into TxMap before the announcement is sent, and all of it goes out   *)
(* in the order in which it was made: so, as long as no block is taken     *)
(* back, the node takes everything the wallet sends.  The one exception    *)
(* follows a restart: what was on its way then is lost, and a transaction  *)
(* that later spends its change is refused.                                *)
THEOREM WhatIsSentIsTaken == SSpec => []SendsAccepted
<1>1. SSpec => [](Inv /\ More /\ Sending)
  <2>1. SInit => Inv /\ More /\ Sending BY Holds, MoreHolds, SendingHolds
  <2>2. (Inv /\ More /\ Sending) /\ [SNext]_svars => (Inv /\ More /\ Sending)'
    BY Kept, KeptMore, KeptSending
  <2> QED BY <2>1, <2>2, PTL DEF SSpec
<1> QED BY <1>1, NothingRefused, PTL
=============================================================================
