------------------------------- MODULE Merkle -------------------------------
(***************************************************************************)
(* The merkle tree of a block as uspv reads it (mblock.go, hardmode.go): a *)
(* whole block's root, and a merkle block that proves some of its          *)
(* transactions.  A hash is <<i>> for transaction i, <<l, r>> for a node;  *)
(* Nil is none.  Positions count the leaves from 0, then level by level.   *)
(***************************************************************************)
EXTENDS Integers, Sequences

NoHash == <<>>
Outcome(how, txids) == [how |-> how, txids |-> txids]
Error == Outcome("error", <<>>)

MakeMerkleParent(left, right) ==
    IF left = NoHash \/ left = right THEN NoHash
    ELSE <<left, IF right = NoHash THEN left ELSE right>>

treeDepth(n) == CHOOSE e \in 0 .. n : 2 ^ e >= n /\ \A f \in 0 .. e - 1 : 2 ^ f < n
nextPowerOfTwo(n) == 2 ^ treeDepth(n)

(* x>>1 | msb: the position above x.                                       *)
Above(x, msb) == x \div 2 + msb
Sibling(x) == IF x % 2 = 0 THEN x + 1 ELSE x

RECURSIVE PastLast(_, _, _, _)
PastLast(pos, h, last, msb) ==
    IF pos >= h THEN PastLast(pos, Above(h, msb), Above(last, msb), msb) ELSE pos > last

(* Mutant: the last position is the number of leaves.                      *)
inDeadZone_Size(pos, size) ==
    LET msb == nextPowerOfTwo(size)
    IN pos > 2 * msb - 2 \/ PastLast(pos, msb, size, msb)

inDeadZone(pos, size) ==
    LET msb == nextPowerOfTwo(size)
    IN pos > 2 * msb - 2 \/ PastLast(pos, msb, size - 1, msb)

RECURSIVE FoldPairs(_)
FoldPairs(hashes) ==
    IF Len(hashes) = 1 THEN hashes[1]
    ELSE FoldPairs(Append(SubSeq(hashes, 3, Len(hashes)), MakeMerkleParent(hashes[1], hashes[2])))
calcRoot(hashes) ==
    FoldPairs(hashes \o [i \in 1 .. nextPowerOfTwo(Len(hashes)) - Len(hashes) |-> NoHash])

(* One turn of the loop of checkMBlock: combine what is on the stack, or   *)
(* take the next flag bit and perhaps the next hash.  Two siblings that    *)
(* are equal have no parent; once that empties the stack but for the root, *)
(* the code reads below its bottom, and panics.                            *)
PartialParent(c) ==
    LET t == Len(c.s)
    IN [c EXCEPT !.s = [SubSeq(@, 1, t - 1) EXCEPT ![t - 1].h = MakeMerkleParent(c.s[t].h, NoHash)],
                 !.pos = Sibling(c.s[t - 1].p)]
Combine(c) ==
    LET t == Len(c.s)
    IN [c EXCEPT !.s = [SubSeq(@, 1, t - 2) EXCEPT ![t - 2].h = MakeMerkleParent(c.s[t - 1].h, c.s[t].h)],
                 !.pos = Sibling(c.s[t - 2].p)]
TakeNode(c, msb) ==
    LET upper == c.pos >= msb
        flag == c.bits[1] = 1
        fill == ~upper \/ ~flag
        h == IF fill THEN c.hashes[1] ELSE NoHash
    IN [c EXCEPT !.s = Append(@, [p |-> c.pos, h |-> h]),
                 !.bits = Tail(@),
                 !.hashes = IF fill THEN Tail(@) ELSE @,
                 !.r = IF ~upper /\ flag THEN Append(@, h) ELSE @,
                 !.pos = IF ~fill THEN (@ - msb) * 2
                         ELSE IF upper /\ @ % 2 = 1 THEN Above(@, msb) ELSE Sibling(@)]

RECURSIVE Parse(_, _, _)
Parse(c, n, root) ==
    LET t == Len(c.s)
    IN CASE t = 1 /\ c.s[1].h # NoHash -> IF c.s[1].h = root THEN Outcome("ok", c.r) ELSE Error
         [] ~(t = 1 /\ c.s[1].h # NoHash) /\ inDeadZone(c.pos, n) ->
              IF t < 2 THEN Outcome("panic", <<>>) ELSE Parse(PartialParent(c), n, root)
         [] OTHER ->
              IF t > 2 /\ c.s[t - 1].h # NoHash /\ c.s[t].h # NoHash THEN Parse(Combine(c), n, root)
              ELSE IF c.hashes = <<>> \/ c.bits = <<>> THEN Error
              ELSE Parse(TakeNode(c, nextPowerOfTwo(n)), n, root)

checkMBlock(m) ==
    IF m.n = 0 \/ m.bits = <<>> THEN Error
    ELSE Parse([s |-> <<>>, r |-> <<>>, pos |-> 2 * nextPowerOfTwo(m.n) - 2,
                hashes |-> m.hashes, bits |-> m.bits], m.n, m.root)

-----------------------------------------------------------------------------
(* The full node (BIP 37): the hash of every subtree, the last node of an  *)
(* odd row paired with itself, and the tree cut off where no transaction   *)
(* matches.                                                                *)
Width(n, height) == (n + 2 ^ height - 1) \div 2 ^ height
RECURSIVE HashAt(_, _, _)
HashAt(n, height, i) ==
    IF height = 0 THEN <<i + 1>>
    ELSE LET l == HashAt(n, height - 1, 2 * i)
         IN <<l, IF 2 * i + 1 < Width(n, height - 1) THEN HashAt(n, height - 1, 2 * i + 1) ELSE l>>
RootOf(n) == HashAt(n, treeDepth(n), 0)

Matches(n, height, i, match) ==
    \E x \in match : i * 2 ^ height < x /\ x <= (i + 1) * 2 ^ height
RECURSIVE Build(_, _, _, _)
Build(n, height, i, match) ==
    LET m == Matches(n, height, i, match)
        bit == IF m THEN <<1>> ELSE <<0>>
    IN IF height = 0 \/ ~m THEN [bits |-> bit, hashes |-> <<HashAt(n, height, i)>>]
       ELSE LET l == Build(n, height - 1, 2 * i, match)
                r == IF 2 * i + 1 < Width(n, height - 1) THEN Build(n, height - 1, 2 * i + 1, match)
                     ELSE [bits |-> <<>>, hashes |-> <<>>]
            IN [bits |-> bit \o l.bits \o r.bits, hashes |-> l.hashes \o r.hashes]

(* Flag bits are sent in whole bytes.                                      *)
PadBits(bits) == bits \o [i \in 1 .. (8 - (Len(bits) % 8)) % 8 |-> 0]
MerkleBlock(n, match) ==
    LET b == Build(n, treeDepth(n), 0, match)
    IN [n |-> n, root |-> RootOf(n), hashes |-> b.hashes, bits |-> PadBits(b.bits)]

=============================================================================
