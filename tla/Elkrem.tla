------------------------------- MODULE Elkrem -------------------------------
(***************************************************************************)
(* The elkrem tree (elkrem/elkrem.go, serdes.go): a sender makes the hash  *)
(* of every index from one root, a receiver that is given them in order    *)
(* keeps a short stack of nodes from which all of them can be made again.  *)
(*                                                                         *)
(* A hash is the root it comes from and the way down from there: LeftSha   *)
(* and RightSha add a step, and no two ways give the same hash.            *)
(***************************************************************************)
EXTENDS Integers, Sequences, SequencesExt

CONSTANTS Root,        \* roots that senders have
          TreeHeight   \* maxHeight of the code

ASSUME TreeAssumption == TreeHeight \in Nat

(* 1 << k.                                                                 *)
Pow2[k \in Nat] == IF k = 0 THEN 1 ELSE 2 * Pow2[k - 1]

maxIndex == Pow2[TreeHeight + 1] - 2

LeftSha(sha) == [sha EXCEPT !.path = Append(@, "L")]
RightSha(sha) == [sha EXCEPT !.path = Append(@, "R")]

(* Mutant: the last node of the left subtree is looked for on the right.   *)
DescendStep_Edge(w, cur, h) ==
    CASE w >= cur.i -> cur
      [] w < cur.i /\ w < cur.i - Pow2[h] -> [i |-> cur.i - Pow2[h], sha |-> LeftSha(cur.sha)]
      [] OTHER -> [i |-> cur.i - 1, sha |-> RightSha(cur.sha)]

(* One turn of descend's loop, at height h of the tree.                    *)
DescendStep(w, cur, h) ==
    CASE w >= cur.i -> cur
      [] w < cur.i /\ w <= cur.i - Pow2[h] -> [i |-> cur.i - Pow2[h], sha |-> LeftSha(cur.sha)]
      [] OTHER -> [i |-> cur.i - 1, sha |-> RightSha(cur.sha)]

(* Where descend ends that starts at a node of index i and height h; it is *)
(* an error if that is not the index w it was asked for.                   *)
Descend(w, i, h, sha) ==
    LET turn[k \in 0 .. h + 1] ==
            IF k = 0 THEN [i |-> i, sha |-> sha] ELSE DescendStep(w, turn[k - 1], h + 1 - k)
    IN turn[h + 1]

(* ElkremSender.AtIndex, for indexes that the tree has.                    *)
SenderAtIndex(root, w) ==
    Descend(w, maxIndex, TreeHeight, [root |-> root, path |-> <<>>]).sha

-----------------------------------------------------------------------------
(* The receiver: a stack of nodes.                                         *)

UpTo(nodes) == IF nodes = <<>> THEN 0 ELSE Last(nodes).I
NextIndex(nodes) == IF nodes = <<>> THEN 0 ELSE Last(nodes).I + 1

(* The top two nodes are siblings: what comes next is their parent.        *)
ParentNext(nodes) ==
    LET t == Len(nodes)
    IN t > 1 /\ nodes[t - 1].H = nodes[t].H

(* Mutant: the left child is not looked at.                                *)
Fits_RightOnly(nodes, sha) ==
    LET t == Len(nodes)
    IN ParentNext(nodes) => RightSha(sha) = nodes[t].Sha

Fits(nodes, sha) ==
    LET t == Len(nodes)
    IN ParentNext(nodes) => LeftSha(sha) = nodes[t - 1].Sha /\ RightSha(sha) = nodes[t].Sha

(* AddNext, for a hash that fits.                                          *)
AddNext(nodes, sha) ==
    LET t == Len(nodes)
        node(h) == [H |-> h, I |-> NextIndex(nodes), Sha |-> sha]
    IN IF ParentNext(nodes) THEN Append(SubSeq(nodes, 1, t - 2), node(nodes[t].H + 1))
       ELSE Append(nodes, node(0))

(* ElkremReceiver.AtIndex: from the first node at or past the index.       *)
ReceiverAtIndex(nodes, w) ==
    LET n == nodes[SelectInSeq(nodes, LAMBDA x : w <= x.I)]
    IN Descend(w, n.I, n.H, n.Sha)

(* What ToBytes writes, and what ElkremReceiverFromBytes reads back.       *)
Writable(nodes) == Len(nodes) <= TreeHeight + 1
Readable(nodes) ==
    /\ Len(nodes) <= TreeHeight + 1
    /\ \A k \in 1 .. Len(nodes) : nodes[k].H <= TreeHeight /\ nodes[k].I <= maxIndex
    /\ \A k \in 2 .. Len(nodes) : nodes[k - 1].H >= nodes[k].H

=============================================================================
