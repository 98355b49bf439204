---------------------------- MODULE Tower_proofs ----------------------------
(***************************************************************************)
(* Proofs about the elkrem tree, the receiver a watchtower stores for a    *)
(* channel, and the tower that looks its hashes up: for trees of every     *)
(* height, any set of roots, and senders of any kind.                      *)
(*                                                                         *)
(* A tree is descended by a function that refers to itself, and what such  *)
(* a function computes is shown by induction: the section on recursion     *)
(* has it for sets of numbers, which is all that is needed.                *)
(***************************************************************************)
EXTENDS Tower, SequenceTheorems, FiniteSetTheorems, NaturalsInduction,
        WellFoundedInduction, TLAPS

-----------------------------------------------------------------------------
(* Induction and recursion.                                                *)

LEMMA Least ==
  ASSUME NEW S \in SUBSET Nat, S # {}
  PROVE  \E x \in S : \A y \in S : x <= y
<1>1. \E x \in S : \A y \in S : ~ (<<y, x>> \in OpToRel(<, Nat))
  BY NatLessThanWellFounded, WFMin
<1>2. ASSUME NEW x \in S, NEW y \in S, y < x PROVE <<y, x>> \in OpToRel(<, Nat)
  BY <1>2 DEF OpToRel
<1>3. ASSUME NEW x \in S, NEW y \in S, ~ (y < x) PROVE x <= y
  BY <1>3
<1> QED BY <1>1, <1>2, <1>3

LEMMA Induction ==
  ASSUME NEW S \in SUBSET Nat, 0 \in S, \A n \in Nat : n \in S => n + 1 \in S
  PROVE  S = Nat
<1> SUFFICES ASSUME Nat \ S # {} PROVE FALSE
  OBVIOUS
<1>1. Nat \ S \in SUBSET Nat
  OBVIOUS
<1>2. PICK x \in Nat \ S : \A y \in Nat \ S : x <= y
  BY <1>1, Least
<1>3. x # 0 /\ x - 1 \in Nat /\ x - 1 \in S
  BY <1>2
<1> QED BY <1>2, <1>3

(* f starts at base and takes one step after the other, n times.           *)
Runs(f, n, S, base, step) ==
    /\ f \in [0 .. n -> S]
    /\ f[0] = base
    /\ \A k \in 0 .. n - 1 : f[k + 1] = step[<<k, f[k]>>]

LEMMA RunExists ==
  ASSUME NEW S, NEW base \in S, NEW step \in [Nat \X S -> S], NEW n \in Nat
  PROVE  \E f : Runs(f, n, S, base, step)
<1> DEFINE T == {m \in Nat : \E f : Runs(f, m, S, base, step)}
<1>1. 0 \in T
  <2>1. Runs([k \in 0 .. 0 |-> base], 0, S, base, step)
    BY DEF Runs
  <2> QED BY <2>1
<1>2. ASSUME NEW m \in Nat, m \in T PROVE m + 1 \in T
  <2>1. PICK f : Runs(f, m, S, base, step)
    BY <1>2
  <2> DEFINE g == [k \in 0 .. m + 1 |-> IF k = m + 1 THEN step[<<m, f[m]>>] ELSE f[k]]
  <2>2. f[m] \in S /\ step[<<m, f[m]>>] \in S
    BY <2>1 DEF Runs
  <2>3. /\ f \in [0 .. m -> S] /\ f[0] = base
        /\ \A k \in 0 .. m - 1 : f[k + 1] = step[<<k, f[k]>>]
    BY <2>1 DEF Runs
  <2>4. /\ g \in [0 .. m + 1 -> S] /\ g[0] = base
        /\ \A k \in 0 .. m : g[k + 1] = step[<<k, g[k]>>]
    <3>1. ASSUME NEW k \in 0 .. m + 1 PROVE k = m + 1 \/ (k \in 0 .. m /\ k # m + 1)
      OBVIOUS
    <3>2. g[m + 1] = step[<<m, f[m]>>]
      <4>1. m + 1 \in 0 .. m + 1
        OBVIOUS
      <4> QED BY <4>1, Zenon
    <3>3. ASSUME NEW k \in 0 .. m PROVE g[k] = f[k]
      OBVIOUS
    <3>4. ASSUME NEW k \in 0 .. m + 1 PROVE g[k] \in S
      BY <2>2, <2>3, <3>1, <3>2, <3>3
    <3>5. ASSUME NEW k \in 0 .. m PROVE g[k + 1] = step[<<k, g[k]>>]
      <4>1. CASE k = m
        BY <3>2, <3>3, <4>1
      <4>2. CASE k # m
        <5>1. k \in 0 .. m - 1 /\ k + 1 \in 0 .. m
          BY <4>2
        <5> HIDE DEF g
        <5> QED BY <2>3, <3>3, <5>1
      <4> QED BY <4>1, <4>2
    <3>6. g = [k \in 0 .. m + 1 |-> g[k]] /\ 0 \in 0 .. m
      OBVIOUS
    <3> HIDE DEF g
    <3> QED BY <2>3, <3>3, <3>4, <3>5, <3>6
  <2> HIDE DEF g
  <2>5. Runs(g, m + 1, S, base, step)
    <3>1. (m + 1) - 1 = m
      OBVIOUS
    <3> QED BY <2>4, <3>1 DEF Runs
  <2> QED BY <2>5
<1> HIDE DEF T
<1>3. T \in SUBSET Nat
  BY DEF T
<1>4. T = Nat
  BY <1>1, <1>2, <1>3, Induction
<1> QED BY <1>4 DEF T

LEMMA RunUnique ==
  ASSUME NEW S, NEW base, NEW step, NEW m \in Nat, NEW n \in Nat, m <= n,
         NEW f, Runs(f, m, S, base, step), NEW g, Runs(g, n, S, base, step)
  PROVE  \A k \in 0 .. m : f[k] = g[k]
<1> DEFINE T == {k \in Nat : k <= m => f[k] = g[k]}
<1>1. 0 \in T
  BY DEF Runs
<1>2. ASSUME NEW k \in Nat, k \in T PROVE k + 1 \in T
  <2>1. CASE k + 1 <= m
    <3>1. f[k] = g[k] /\ k \in 0 .. m - 1 /\ k \in 0 .. n - 1
      BY <1>2, <2>1
    <3>2. f[k + 1] = step[<<k, f[k]>>] /\ g[k + 1] = step[<<k, g[k]>>]
      BY <3>1 DEF Runs
    <3> QED BY <3>1, <3>2
  <2> QED BY <2>1
<1>3. T = Nat
  <2>1. T \in SUBSET Nat
    OBVIOUS
  <2> HIDE DEF T
  <2> QED BY <1>1, <1>2, <2>1, Induction
<1> QED BY <1>3

Steps(g, base, step) == g[0] = base /\ \A k \in Nat : g[k + 1] = step[<<k, g[k]>>]

(* A step that can always be taken can be taken for ever.                  *)
LEMMA Iterates ==
  ASSUME NEW S, NEW base \in S, NEW step \in [Nat \X S -> S]
  PROVE  \E g \in [Nat -> S] : Steps(g, base, step)
<1> DEFINE run(n) == CHOOSE f : Runs(f, n, S, base, step)
           g == [n \in Nat |-> run(n)[n]]
<1>1. ASSUME NEW n \in Nat PROVE Runs(run(n), n, S, base, step)
  BY RunExists
<1> HIDE DEF run
<1>2. ASSUME NEW n \in Nat PROVE g[n] \in S
  BY <1>1 DEF Runs
<1>3. g[0] = base
  BY <1>1 DEF Runs
<1>4. ASSUME NEW n \in Nat PROVE g[n + 1] = step[<<n, g[n]>>]
  <2>1. run(n)[n] = run(n + 1)[n]
    <3>1. Runs(run(n), n, S, base, step) /\ Runs(run(n + 1), n + 1, S, base, step)
      BY <1>1
    <3> QED BY <3>1, RunUnique
  <2>2. run(n + 1)[n + 1] = step[<<n, run(n + 1)[n]>>]
    <3>1. n \in 0 .. (n + 1) - 1 /\ n + 1 \in Nat
      OBVIOUS
    <3> QED BY <1>1, <3>1 DEF Runs
  <2> QED BY <2>1, <2>2
<1>5. g \in [Nat -> S]
  BY <1>2
<1> QED BY <1>3, <1>4, <1>5 DEF Steps

(* What 1 << k is.                                                         *)
LEMMA Powers ==
  /\ Pow2[0] = 1
  /\ \A k \in Nat : Pow2[k + 1] = 2 * Pow2[k]
  /\ \A k \in Nat : Pow2[k] \in Nat /\ Pow2[k] > 0
<1> DEFINE step == [p \in Nat \X Nat |-> 2 * p[2]]
           Def(f) == f = [k \in Nat |-> IF k = 0 THEN 1 ELSE 2 * f[k - 1]]
<1>1. \E f : Def(f)
  <2>1. step \in [Nat \X Nat -> Nat]
    OBVIOUS
  <2>2. \A k, x \in Nat : step[<<k, x>>] = 2 * x
    OBVIOUS
  <2> HIDE DEF step
  <2>3. PICK g \in [Nat -> Nat] : g[0] = 1 /\ \A k \in Nat : g[k + 1] = step[<<k, g[k]>>]
    <3>1. \A one \in Nat : \E g \in [Nat -> Nat] : Steps(g, one, step)
      BY <2>1, Iterates, Zenon
    <3> QED BY <3>1 DEF Steps
  <2>4. ASSUME NEW k \in Nat PROVE g[k] = IF k = 0 THEN 1 ELSE 2 * g[k - 1]
    <3>1. CASE k # 0
      <4>1. k - 1 \in Nat /\ (k - 1) + 1 = k
        BY <3>1
      <4> QED BY <2>2, <2>3, <3>1, <4>1
    <3> QED BY <2>3, <3>1
  <2>5. Def(g)
    BY <2>4
  <2> QED BY <2>5
<1>2. Pow2 = CHOOSE f : Def(f)
  BY DEF Pow2
<1>3. Def(Pow2)
  <2> HIDE DEF Def
  <2> QED BY <1>1, <1>2
<1>4. Pow2[0] = 1 /\ \A k \in Nat : Pow2[k + 1] = 2 * Pow2[k]
  BY <1>3
<1> DEFINE T == {k \in Nat : Pow2[k] \in Nat /\ Pow2[k] > 0}
<1>5. T = Nat
  <2>1. T \in SUBSET Nat /\ 0 \in T /\ \A k \in Nat : k \in T => k + 1 \in T
    BY <1>4
  <2> HIDE DEF T
  <2> QED BY <2>1, Induction
<1> QED BY <1>4, <1>5

-----------------------------------------------------------------------------
(* The descent from a node of the tree.                                    *)

Sha == [root : Root, path : Seq({"L", "R"})]
Place == [i : Int, sha : Sha]

LEMMA ShaChildren ==
  ASSUME NEW sha \in Sha
  PROVE  LeftSha(sha) \in Sha /\ RightSha(sha) \in Sha
<1>1. sha.root \in Root /\ sha.path \in Seq({"L", "R"})
  BY DEF Sha
<1>2. Append(sha.path, "L") \in Seq({"L", "R"}) /\ Append(sha.path, "R") \in Seq({"L", "R"})
  BY <1>1
<1>3. /\ LeftSha(sha) = [root |-> sha.root, path |-> Append(sha.path, "L")]
      /\ RightSha(sha) = [root |-> sha.root, path |-> Append(sha.path, "R")]
  <2>1. sha = [root |-> sha.root, path |-> sha.path]
    BY DEF Sha
  <2>2. \A v : [sha EXCEPT !.path = v] = [root |-> sha.root, path |-> v]
    BY <2>1
  <2> QED BY <2>2 DEF LeftSha, RightSha
<1> QED BY <1>1, <1>2, <1>3 DEF Sha

LEMMA StepType ==
  ASSUME NEW w \in Int, NEW cur \in Place, NEW h \in Nat
  PROVE  DescendStep(w, cur, h) \in Place
<1>1. cur.i \in Int /\ cur.sha \in Sha /\ LeftSha(cur.sha) \in Sha /\ RightSha(cur.sha) \in Sha
  BY ShaChildren DEF Place
<1>2. Pow2[h] \in Int
  BY Powers
<1>3. CASE w >= cur.i
  <2>1. DescendStep(w, cur, h) = cur
    BY <1>1, <1>3 DEF DescendStep
  <2> QED BY <2>1
<1>4. CASE w < cur.i /\ w <= cur.i - Pow2[h]
  <2>1. DescendStep(w, cur, h) = [i |-> cur.i - Pow2[h], sha |-> LeftSha(cur.sha)]
    BY <1>1, <1>4 DEF DescendStep
  <2> QED BY <1>1, <1>2, <2>1 DEF Place
<1>5. CASE w < cur.i /\ ~ (w <= cur.i - Pow2[h])
  <2>1. DescendStep(w, cur, h) = [i |-> cur.i - 1, sha |-> RightSha(cur.sha)]
    BY <1>1, <1>5 DEF DescendStep
  <2> QED BY <1>1, <2>1 DEF Place
<1> QED BY <1>1, <1>3, <1>4, <1>5

(* t lists the turns of descend's loop, from the node cur at height h.     *)
Turns(t, w, cur, h) ==
    /\ t \in [0 .. h + 1 -> Place]
    /\ t[0] = cur
    /\ \A k \in 0 .. h : t[k + 1] = DescendStep(w, t[k], h - k)

LEMMA DescendTurns ==
  ASSUME NEW w \in Nat, NEW i \in Int, NEW h \in Nat, NEW sha \in Sha
  PROVE  \E t : Turns(t, w, [i |-> i, sha |-> sha], h) /\ Descend(w, i, h, sha) = t[h + 1]
<1> DEFINE cur == [i |-> i, sha |-> sha]
           step == [p \in Nat \X Place |-> IF p[1] <= h THEN DescendStep(w, p[2], h - p[1]) ELSE p[2]]
           Def(f) == f = [k \in 0 .. h + 1 |-> IF k = 0 THEN cur ELSE DescendStep(w, f[k - 1], h + 1 - k)]
           turn == CHOOSE f : Def(f)
<1>1. cur \in Place
  BY DEF Place
<1>2. step \in [Nat \X Place -> Place]
  <2>1. ASSUME NEW k \in Nat, NEW c \in Place, k <= h PROVE DescendStep(w, c, h - k) \in Place
    <3>1. h - k \in Nat /\ w \in Int
      BY <2>1
    <3> QED BY <3>1, StepType
  <2> QED BY <2>1
<1>3. \A k \in Nat, c \in Place : k <= h => step[<<k, c>>] = DescendStep(w, c, h - k)
  OBVIOUS
<1> HIDE DEF step, cur
<1>4. PICK g \in [Nat -> Place] : Steps(g, cur, step)
  BY <1>1, <1>2, Iterates, Zenon
<1> DEFINE r == [k \in 0 .. h + 1 |-> g[k]]
<1>5. ASSUME NEW k \in 0 .. h PROVE g[k + 1] = DescendStep(w, g[k], h - k)
  <2>1. k \in Nat /\ k <= h /\ g[k] \in Place
    OBVIOUS
  <2> QED BY <1>3, <1>4, <2>1 DEF Steps
<1>6. r[0] = cur /\ \A k \in 0 .. h : r[k] = g[k] /\ r[k + 1] = g[k + 1]
  BY <1>4 DEF Steps
<1>7. Def(r)
  <2>1. ASSUME NEW k \in 0 .. h + 1, k # 0 PROVE r[k] = DescendStep(w, r[k - 1], h + 1 - k)
    <3>1. k - 1 \in 0 .. h /\ (k - 1) + 1 = k /\ h - (k - 1) = h + 1 - k
      BY <2>1
    <3> HIDE DEF r
    <3> QED BY <1>5, <1>6, <3>1
  <2>2. ASSUME NEW k \in 0 .. h + 1
        PROVE  r[k] = IF k = 0 THEN cur ELSE DescendStep(w, r[k - 1], h + 1 - k)
    BY <1>6, <2>1
  <2>3. r = [k \in 0 .. h + 1 |-> r[k]]
    OBVIOUS
  <2> HIDE DEF r
  <2> QED BY <2>2, <2>3
<1>8. Def(turn)
  <2> HIDE DEF Def, r
  <2> QED BY <1>7
<1>9. Descend(w, i, h, sha) = turn[h + 1]
  BY DEF Descend, cur
<1> HIDE DEF turn
<1>10. turn[0] = cur /\ turn = [k \in 0 .. h + 1 |-> turn[k]]
  BY <1>8
<1>11. ASSUME NEW k \in 0 .. h PROVE turn[k + 1] = DescendStep(w, turn[k], h - k)
  <2>1. k + 1 \in 0 .. h + 1 /\ k + 1 # 0 /\ (k + 1) - 1 = k /\ h + 1 - (k + 1) = h - k
    OBVIOUS
  <2> QED BY <1>8, <2>1
<1> HIDE DEF Def
<1> DEFINE T == {k \in Nat : k <= h + 1 => turn[k] \in Place}
<1>12. T = Nat
  <2>1. 0 \in T
    BY <1>1, <1>10
  <2>2. ASSUME NEW k \in Nat, k \in T PROVE k + 1 \in T
    <3>1. CASE k + 1 <= h + 1
      <4>1. k \in 0 .. h /\ turn[k] \in Place /\ h - k \in Nat /\ w \in Int
        BY <2>2, <3>1
      <4>2. turn[k + 1] \in Place
        BY <4>1, <1>11, StepType
      <4> QED BY <4>2
    <3> QED BY <3>1
  <2>3. T \in SUBSET Nat
    OBVIOUS
  <2> HIDE DEF T
  <2> QED BY <2>1, <2>2, <2>3, Induction
<1>13. \A k \in 0 .. h + 1 : turn[k] \in Place
  BY <1>12
<1>14. Turns(turn, w, cur, h)
  BY <1>10, <1>11, <1>13 DEF Turns
<1> QED BY <1>9, <1>14 DEF cur

(* A descent that is where it wants to go stays there.                     *)
LEMMA DescendStays ==
  ASSUME NEW i \in Nat, NEW h \in Nat, NEW sha \in Sha
  PROVE  Descend(i, i, h, sha) = [i |-> i, sha |-> sha]
<1> DEFINE cur == [i |-> i, sha |-> sha]
<1>1. PICK t : Turns(t, i, cur, h) /\ Descend(i, i, h, sha) = t[h + 1]
  <2>1. i \in Int
    OBVIOUS
  <2> QED BY <2>1, DescendTurns, Zenon
<1>2. \A k : DescendStep(i, cur, k) = cur
  BY DEF DescendStep
<1> HIDE DEF cur
<1> DEFINE T == {k \in Nat : k <= h + 1 => t[k] = cur}
<1>3. T = Nat
  <2>1. 0 \in T
    BY <1>1 DEF Turns
  <2>2. ASSUME NEW k \in Nat, k \in T PROVE k + 1 \in T
    <3>1. CASE k + 1 <= h + 1
      <4>1. k \in 0 .. h /\ t[k] = cur
        BY <2>2, <3>1
      <4> QED BY <1>1, <1>2, <4>1 DEF Turns
    <3> QED BY <3>1
  <2>3. T \in SUBSET Nat
    OBVIOUS
  <2> HIDE DEF T
  <2> QED BY <2>1, <2>2, <2>3, Induction
<1>4. t[h + 1] = cur
  BY <1>3
<1> QED BY <1>1, <1>4 DEF cur

(* After one turn, what is left is the descent from the child.             *)
LEMMA DescendChild ==
  ASSUME NEW w \in Nat, NEW i \in Int, NEW h \in Nat, NEW sha \in Sha,
         NEW j \in Int, NEW child \in Sha,
         DescendStep(w, [i |-> i, sha |-> sha], h + 1) = [i |-> j, sha |-> child]
  PROVE  Descend(w, i, h + 1, sha) = Descend(w, j, h, child)
<1> DEFINE top == [i |-> i, sha |-> sha]
           cur == [i |-> j, sha |-> child]
<1>1. PICK t : Turns(t, w, top, h + 1) /\ Descend(w, i, h + 1, sha) = t[(h + 1) + 1]
  <2>1. h + 1 \in Nat
    OBVIOUS
  <2> QED BY <2>1, DescendTurns, Zenon
<1>2. PICK u : Turns(u, w, cur, h) /\ Descend(w, j, h, child) = u[h + 1]
  BY DescendTurns
<1>3. DescendStep(w, top, h + 1) = cur
  OBVIOUS
<1> HIDE DEF top, cur
<1> DEFINE T == {k \in Nat : k <= h + 1 => t[k + 1] = u[k]}
<1>4. T = Nat
  <2>1. 0 \in T
    <3>1. t[0 + 1] = DescendStep(w, t[0], (h + 1) - 0) /\ t[0] = top /\ u[0] = cur
      BY <1>1, <1>2 DEF Turns
    <3>2. t[0 + 1] = u[0]
      BY <1>3, <3>1
    <3> QED BY <3>2
  <2>2. ASSUME NEW k \in Nat, k \in T PROVE k + 1 \in T
    <3>1. CASE k + 1 <= h + 1
      <4>1. k \in 0 .. h /\ k + 1 \in 0 .. h + 1 /\ (h + 1) - (k + 1) = h - k /\ t[k + 1] = u[k]
        BY <2>2, <3>1
      <4>2. t[(k + 1) + 1] = DescendStep(w, t[k + 1], (h + 1) - (k + 1))
        BY <1>1, <4>1 DEF Turns
      <4>3. u[k + 1] = DescendStep(w, u[k], h - k)
        BY <1>2, <4>1 DEF Turns
      <4> QED BY <4>1, <4>2, <4>3
    <3> QED BY <3>1
  <2>3. T \in SUBSET Nat
    OBVIOUS
  <2> HIDE DEF T
  <2> QED BY <2>1, <2>2, <2>3, Induction
<1>5. t[(h + 1) + 1] = u[h + 1]
  BY <1>4
<1> QED BY <1>1, <1>2, <1>5

LEMMA RevealedType == Revealed \in SUBSET Sha
<1> SUFFICES ASSUME NEW r \in Root, NEW w \in 0 .. maxIndex PROVE SenderAtIndex(r, w) \in Sha
  BY DEF Revealed
<1> DEFINE sha == [root |-> r, path |-> <<>>]
<1>1. sha \in Sha
  BY DEF Sha
<1>2. maxIndex \in Int /\ TreeHeight \in Nat /\ w \in Nat
  BY Powers, TreeAssumption DEF maxIndex
<1>3. SenderAtIndex(r, w) = Descend(w, maxIndex, TreeHeight, sha).sha
  BY DEF SenderAtIndex
<1> HIDE DEF sha
<1>4. PICK t : Turns(t, w, [i |-> maxIndex, sha |-> sha], TreeHeight)
               /\ Descend(w, maxIndex, TreeHeight, sha) = t[TreeHeight + 1]
  BY <1>1, <1>2, DescendTurns
<1>5. t[TreeHeight + 1] \in Place
  BY <1>2, <1>4 DEF Turns
<1> QED BY <1>3, <1>4, <1>5 DEF Place

-----------------------------------------------------------------------------
(* The receiver's stack.                                                   *)

(* Each node is the root of a subtree that ends at its index, and whose    *)
(* first index is the one after the node below it in the stack.            *)
Under(nodes, k) == IF k = 1 THEN -1 ELSE nodes[k - 1].I
Stacked(nodes) ==
    \A k \in 1 .. Len(nodes) : nodes[k].I = Under(nodes, k) + Pow2[nodes[k].H + 1] - 1

(* The node at place k makes every hash of its subtree that was given.     *)
Makes(nodes, k, hashes) ==
    \A w \in DOMAIN hashes : Under(nodes, k) < w /\ w <= nodes[k].I =>
        Descend(w, nodes[k].I, nodes[k].H, nodes[k].Sha) = [i |-> w, sha |-> hashes[w]]

Indexed == /\ DOMAIN given = 0 .. NextIndex(store) - 1
           /\ txids = [t \in DOMAIN given |-> t]

ElkInv ==
    /\ TypeOK
    /\ HeightsFall
    /\ Stacked(store)
    /\ Indexed
    /\ \A k \in 1 .. Len(store) : Makes(store, k, given)

(* What a stack of nodes is.                                               *)
LEMMA NodeFields ==
  ASSUME NEW nodes \in Seq(ElkremNode)
  PROVE  /\ Len(nodes) \in Nat
         /\ \A k \in 1 .. Len(nodes) :
               nodes[k].H \in Nat /\ nodes[k].I \in Nat /\ nodes[k].Sha \in Sha
         /\ \A k \in 1 .. Len(nodes) : Under(nodes, k) \in Int
         /\ NextIndex(nodes) = IF Len(nodes) = 0 THEN 0 ELSE nodes[Len(nodes)].I + 1
         /\ UpTo(nodes) = IF Len(nodes) = 0 THEN 0 ELSE nodes[Len(nodes)].I
<1>1. Len(nodes) \in Nat /\ \A k \in 1 .. Len(nodes) : nodes[k] \in ElkremNode
  OBVIOUS
<1>2. \A k \in 1 .. Len(nodes) : nodes[k].H \in Nat /\ nodes[k].I \in Nat /\ nodes[k].Sha \in Sha
  BY <1>1, RevealedType DEF ElkremNode
<1>3. ASSUME NEW k \in 1 .. Len(nodes) PROVE Under(nodes, k) \in Int
  <2>1. k # 1 => k - 1 \in 1 .. Len(nodes)
    BY <1>1
  <2> QED BY <1>2, <2>1 DEF Under
<1>4. nodes = <<>> <=> Len(nodes) = 0
  BY <1>1
<1> QED BY <1>1, <1>2, <1>3, <1>4 DEF NextIndex, UpTo, Last

(* The indexes in a stack rise from bottom to top.                         *)
LEMMA IndexesRise ==
  ASSUME NEW nodes \in Seq(ElkremNode), Stacked(nodes)
  PROVE  /\ \A k \in 1 .. Len(nodes) : Under(nodes, k) < nodes[k].I
         /\ \A k \in 1 .. Len(nodes) : nodes[k].I < NextIndex(nodes)
         /\ NextIndex(nodes) \in Nat
<1> DEFINE t == Len(nodes)
           T == {d \in Nat : \A k \in 1 .. t : k + d = t => nodes[k].I < NextIndex(nodes)}
<1>0. t \in Nat /\ \A k \in 1 .. t : nodes[k].I \in Nat /\ nodes[k].H \in Nat /\ Under(nodes, k) \in Int
  BY NodeFields
<1>1. NextIndex(nodes) = IF t = 0 THEN 0 ELSE nodes[t].I + 1
  BY NodeFields
<1>2. ASSUME NEW k \in 1 .. t PROVE Under(nodes, k) < nodes[k].I
  <2>1. nodes[k].I = Under(nodes, k) + Pow2[nodes[k].H + 1] - 1
    BY DEF Stacked
  <2>2. Pow2[nodes[k].H + 1] = 2 * Pow2[nodes[k].H] /\ Pow2[nodes[k].H] \in Nat /\ Pow2[nodes[k].H] > 0
    BY <1>0, Powers
  <2> QED BY <1>0, <2>1, <2>2
<1>3. NextIndex(nodes) \in Nat
  BY <1>0, <1>1
<1> HIDE DEF t
<1>4. 0 \in T
  BY <1>0, <1>1
<1>5. ASSUME NEW d \in Nat, d \in T PROVE d + 1 \in T
  <2>1. ASSUME NEW k \in 1 .. t, k + (d + 1) = t PROVE nodes[k].I < NextIndex(nodes)
    <3>1. k + 1 \in 1 .. t /\ (k + 1) + d = t /\ k + 1 # 1
      BY <1>0, <2>1
    <3>2. nodes[k + 1].I < NextIndex(nodes)
      BY <1>5, <3>1
    <3>3. nodes[k].I < nodes[k + 1].I
      <4>1. (k + 1) - 1 = k
        OBVIOUS
      <4> QED BY <1>2, <3>1, <4>1 DEF Under
    <3> QED BY <1>0, <1>3, <3>1, <3>2, <3>3
  <2> QED BY <2>1
<1>6. T = Nat
  <2>1. T \in SUBSET Nat
    OBVIOUS
  <2> HIDE DEF T
  <2> QED BY <1>4, <1>5, <2>1, Induction
<1>7. ASSUME NEW k \in 1 .. t PROVE nodes[k].I < NextIndex(nodes)
  <2>1. t - k \in Nat /\ k + (t - k) = t
    BY <1>0
  <2> QED BY <1>6, <2>1
<1> QED BY <1>2, <1>3, <1>7 DEF t

(* A prefix of a sequence has its length and its elements.                 *)
LEMMA Prefix ==
    ASSUME NEW S, NEW s \in Seq(S), NEW m \in Nat, m <= Len(s)
    PROVE  /\ SubSeq(s, 1, m) \in Seq(S)
           /\ Len(SubSeq(s, 1, m)) = m
           /\ \A k \in 1 .. m : SubSeq(s, 1, m)[k] = s[k]
<1>1. \A k \in 1 .. m : s[k] \in S
  OBVIOUS
<1>2. SubSeq(s, 1, m) \in Seq(S)
  BY <1>1, SubSeqProperties
<1>3. Len(SubSeq(s, 1, m)) = m
  BY <1>1
<1>4. \A k \in 1 .. m : SubSeq(s, 1, m)[k] = s[k]
  BY <1>1
<1> QED
  BY <1>2, <1>3, <1>4

(* What AddNext returns, node by node: the two children leave for their    *)
(* parent, or a leaf is added.                                             *)
LEMMA AddNextParent ==
    ASSUME NEW nodes \in Seq(ElkremNode), NEW sha \in Revealed, ParentNext(nodes)
    PROVE  /\ AddNext(nodes, sha) \in Seq(ElkremNode)
           /\ Len(AddNext(nodes, sha)) = Len(nodes) - 1
           /\ \A k \in 1 .. Len(nodes) - 2 : AddNext(nodes, sha)[k] = nodes[k]
           /\ AddNext(nodes, sha)[Len(nodes) - 1]
                = [H |-> nodes[Len(nodes)].H + 1, I |-> NextIndex(nodes), Sha |-> sha]
<1> DEFINE t == Len(nodes)
           n == [H |-> nodes[t].H + 1, I |-> NextIndex(nodes), Sha |-> sha]
           rest == SubSeq(nodes, 1, t - 2)
<1>1. t \in Nat /\ t > 1 /\ nodes[t] \in ElkremNode /\ nodes # <<>>
  BY DEF ParentNext
<1>2. NextIndex(nodes) = nodes[t].I + 1
  BY <1>1 DEF NextIndex, Last
<1>3. n \in ElkremNode
  BY <1>1, <1>2 DEF ElkremNode
<1>4. /\ rest \in Seq(ElkremNode) /\ Len(rest) = t - 2
      /\ \A k \in 1 .. t - 2 : rest[k] = nodes[k]
  <2>1. t - 2 \in Nat /\ t - 2 <= Len(nodes)
    BY <1>1
  <2> HIDE DEF t
  <2> QED
    BY <2>1, Prefix, Zenon
<1>5. AddNext(nodes, sha) = Append(rest, n)
  BY DEF AddNext
<1> HIDE DEF n, rest
<1>6. /\ Append(rest, n) \in Seq(ElkremNode) /\ Len(Append(rest, n)) = t - 1
      /\ \A k \in 1 .. t - 2 : Append(rest, n)[k] = rest[k]
      /\ Append(rest, n)[t - 1] = n
  BY <1>1, <1>3, <1>4
<1>7. n = [H |-> nodes[t].H + 1, I |-> NextIndex(nodes), Sha |-> sha]
  BY DEF n
<1> QED
  BY <1>4, <1>5, <1>6, <1>7

LEMMA AddNextLeaf ==
    ASSUME NEW nodes \in Seq(ElkremNode), NEW sha \in Revealed, ~ ParentNext(nodes)
    PROVE  /\ AddNext(nodes, sha) \in Seq(ElkremNode)
           /\ Len(AddNext(nodes, sha)) = Len(nodes) + 1
           /\ \A k \in 1 .. Len(nodes) : AddNext(nodes, sha)[k] = nodes[k]
           /\ AddNext(nodes, sha)[Len(nodes) + 1]
                = [H |-> 0, I |-> NextIndex(nodes), Sha |-> sha]
<1> DEFINE t == Len(nodes)
           n == [H |-> 0, I |-> NextIndex(nodes), Sha |-> sha]
<1>1. t \in Nat /\ (nodes # <<>> => t > 0 /\ nodes[t] \in ElkremNode)
  OBVIOUS
<1>2. NextIndex(nodes) \in Nat
  BY <1>1 DEF NextIndex, Last, ElkremNode
<1>3. n \in ElkremNode
  BY <1>2 DEF ElkremNode
<1>4. AddNext(nodes, sha) = Append(nodes, n)
  BY DEF AddNext
<1> HIDE DEF n
<1>5. /\ Append(nodes, n) \in Seq(ElkremNode) /\ Len(Append(nodes, n)) = t + 1
      /\ \A k \in 1 .. t : Append(nodes, n)[k] = nodes[k]
      /\ Append(nodes, n)[t + 1] = n
  BY <1>1, <1>3
<1> QED
  BY <1>4, <1>5 DEF n


(* The two ways a stack grows.                                             *)
Leaf(nodes, new, sha) ==
    /\ ~ ParentNext(nodes)
    /\ new \in Seq(ElkremNode) /\ Len(new) = Len(nodes) + 1
    /\ \A k \in 1 .. Len(nodes) : new[k] = nodes[k]
    /\ new[Len(nodes) + 1] = [H |-> 0, I |-> NextIndex(nodes), Sha |-> sha]

Parent(nodes, new, sha) ==
    /\ Len(nodes) > 1 /\ nodes[Len(nodes) - 1].H = nodes[Len(nodes)].H
    /\ new \in Seq(ElkremNode) /\ Len(new) = Len(nodes) - 1
    /\ \A k \in 1 .. Len(nodes) - 2 : new[k] = nodes[k]
    /\ new[Len(nodes) - 1] = [H |-> nodes[Len(nodes)].H + 1, I |-> NextIndex(nodes), Sha |-> sha]
    /\ LeftSha(sha) = nodes[Len(nodes) - 1].Sha /\ RightSha(sha) = nodes[Len(nodes)].Sha

LEMMA Grows ==
  ASSUME NEW nodes \in Seq(ElkremNode), NEW sha \in Revealed, Fits(nodes, sha)
  PROVE  Leaf(nodes, AddNext(nodes, sha), sha) \/ Parent(nodes, AddNext(nodes, sha), sha)
<1>1. CASE ParentNext(nodes)
  <2>1. Len(nodes) > 1 /\ nodes[Len(nodes) - 1].H = nodes[Len(nodes)].H
    BY <1>1 DEF ParentNext
  <2>2. LeftSha(sha) = nodes[Len(nodes) - 1].Sha /\ RightSha(sha) = nodes[Len(nodes)].Sha
    BY <1>1 DEF Fits
  <2> QED BY <1>1, <2>1, <2>2, AddNextParent DEF Parent
<1>2. CASE ~ ParentNext(nodes)
  BY <1>2, AddNextLeaf DEF Leaf
<1> QED BY <1>1, <1>2

(* The index of the node that comes next is the next one, and the stack    *)
(* goes on from there.                                                     *)
LEMMA GrowsByOne ==
  ASSUME NEW nodes \in Seq(ElkremNode), NEW new, NEW sha \in Sha,
         Leaf(nodes, new, sha) \/ Parent(nodes, new, sha)
  PROVE  UpTo(new) = NextIndex(nodes) /\ NextIndex(new) = NextIndex(nodes) + 1
<1>1. new \in Seq(ElkremNode) /\ Len(nodes) \in Nat
  BY DEF Leaf, Parent
<1>2. Len(new) \in Nat /\ Len(new) > 0
  BY <1>1 DEF Leaf, Parent
<1>3. new[Len(new)].I = NextIndex(nodes)
  BY <1>1 DEF Leaf, Parent
<1> QED BY <1>1, <1>2, <1>3, NodeFields

LEMMA HeightsLeaf ==
  ASSUME NEW nodes \in Seq(ElkremNode), NEW new, NEW sha, Leaf(nodes, new, sha),
         \A k \in 1 .. Len(nodes) - 1 : nodes[k].H >= nodes[k + 1].H,
         \A k \in 1 .. Len(nodes) - 2 : nodes[k].H > nodes[k + 1].H
  PROVE  /\ \A k \in 1 .. Len(new) - 1 : new[k].H >= new[k + 1].H
         /\ \A k \in 1 .. Len(new) - 2 : new[k].H > new[k + 1].H
<1> DEFINE t == Len(nodes)
<1>1. t \in Nat /\ \A k \in 1 .. t : nodes[k].H \in Nat
  BY NodeFields
<1>2. Len(new) = t + 1 /\ (\A k \in 1 .. t : new[k] = nodes[k]) /\ new[t + 1].H = 0
  BY DEF Leaf
<1>3. t > 1 => nodes[t - 1].H > nodes[t].H
  BY <1>1 DEF Leaf, ParentNext
<1> HIDE DEF t
<1>4. ASSUME NEW k \in 1 .. t PROVE new[k].H >= new[k + 1].H
  <2>1. CASE k = t
    BY <1>1, <1>2, <2>1
  <2>2. CASE k < t
    BY <1>1, <1>2, <2>2 DEF t
  <2> QED BY <1>1, <2>1, <2>2
<1>5. ASSUME NEW k \in 1 .. t - 1 PROVE new[k].H > new[k + 1].H
  BY SMTT(20), <1>1, <1>2, <1>3 DEF t
<1> QED BY <1>1, <1>2, <1>4, <1>5

LEMMA HeightsParent ==
  ASSUME NEW nodes \in Seq(ElkremNode), NEW new, NEW sha, Parent(nodes, new, sha),
         \A k \in 1 .. Len(nodes) - 1 : nodes[k].H >= nodes[k + 1].H,
         \A k \in 1 .. Len(nodes) - 2 : nodes[k].H > nodes[k + 1].H
  PROVE  /\ \A k \in 1 .. Len(new) - 1 : new[k].H >= new[k + 1].H
         /\ \A k \in 1 .. Len(new) - 2 : new[k].H > new[k + 1].H
<1> DEFINE t == Len(nodes)
<1>1. t \in Nat /\ t > 1 /\ \A k \in 1 .. t : nodes[k].H \in Nat
  BY NodeFields DEF Parent
<1>2. /\ Len(new) = t - 1 /\ \A k \in 1 .. t - 2 : new[k] = nodes[k]
      /\ new[t - 1].H = nodes[t].H + 1 /\ nodes[t - 1].H = nodes[t].H
  BY DEF Parent
<1>0. /\ \A k \in 1 .. t - 1 : nodes[k].H >= nodes[k + 1].H
      /\ \A k \in 1 .. t - 2 : nodes[k].H > nodes[k + 1].H
  OBVIOUS
<1> HIDE DEF t
<1>3. ASSUME NEW k \in 1 .. t - 2 PROVE new[k].H >= new[k + 1].H
  <2>0. k \in 1 .. t /\ k + 1 \in 1 .. t /\ new[k] = nodes[k] /\ nodes[k].H > nodes[k + 1].H
    BY <1>0, <1>1, <1>2
  <2>1. CASE k = t - 2
    <3>1. k + 1 = t - 1 /\ t \in 1 .. t
      BY <1>1, <2>1
    <3>2. new[k + 1].H = nodes[t].H + 1 /\ nodes[k].H > nodes[t].H
      BY <1>2, <2>0, <3>1
    <3>3. nodes[k].H \in Nat /\ nodes[t].H \in Nat
      BY <1>1, <2>0, <3>1
    <3> QED BY SMTT(20), <2>0, <3>2, <3>3
  <2>2. CASE k < t - 2
    <3>1. k + 1 \in 1 .. t - 2
      BY <1>1, <2>2
    <3>2. new[k + 1] = nodes[k + 1] /\ nodes[k].H \in Nat /\ nodes[k + 1].H \in Nat
      BY <1>1, <1>2, <2>0, <3>1
    <3> QED BY <2>0, <3>2
  <2> QED BY <1>1, <2>1, <2>2
<1>4. ASSUME NEW k \in 1 .. t - 3 PROVE new[k].H > new[k + 1].H
  <2>1. k \in 1 .. t - 2 /\ k + 1 \in 1 .. t - 2
    BY <1>1
  <2> QED BY <1>0, <1>2, <2>1
<1> QED BY <1>1, <1>2, <1>3, <1>4

LEMMA StackedLeaf ==
  ASSUME NEW nodes \in Seq(ElkremNode), NEW new, NEW sha, Leaf(nodes, new, sha), Stacked(nodes)
  PROVE  /\ Stacked(new)
         /\ \A k \in 1 .. Len(nodes) : Under(new, k) = Under(nodes, k)
         /\ Under(new, Len(new)) = NextIndex(nodes) - 1
<1> DEFINE t == Len(nodes)
<1>1. /\ t \in Nat /\ NextIndex(nodes) = IF t = 0 THEN 0 ELSE nodes[t].I + 1
      /\ \A k \in 1 .. t : nodes[k].I \in Nat
  BY NodeFields
<1>2. /\ Len(new) = t + 1 /\ \A k \in 1 .. t : new[k] = nodes[k]
      /\ new[t + 1].H = 0 /\ new[t + 1].I = NextIndex(nodes)
  BY DEF Leaf
<1>3. \A k \in 1 .. t : nodes[k].I = Under(nodes, k) + Pow2[nodes[k].H + 1] - 1
  BY DEF Stacked
<1> HIDE DEF t
<1>4. ASSUME NEW k \in 1 .. t PROVE Under(new, k) = Under(nodes, k)
  <2>1. k # 1 => k - 1 \in 1 .. t
    BY <1>1
  <2> QED BY <1>2, <2>1 DEF Under
<1>5. Under(new, t + 1) = NextIndex(nodes) - 1
  <2>1. t + 1 = 1 <=> t = 0
    BY <1>1
  <2>2. t # 0 => t \in 1 .. t /\ (t + 1) - 1 = t
    BY <1>1
  <2> QED BY <1>1, <1>2, <2>1, <2>2 DEF Under
<1>6. Pow2[0 + 1] = 2
  BY SMTT(20), Powers
<1>7. ASSUME NEW k \in 1 .. t + 1
      PROVE  new[k].I = Under(new, k) + Pow2[new[k].H + 1] - 1
  <2>1. CASE k = t + 1
    <3>1. NextIndex(nodes) \in Int
      BY <1>1
    <3> QED BY <1>2, <1>5, <1>6, <2>1, <3>1
  <2>2. CASE k # t + 1
    <3>1. k \in 1 .. t
      BY <1>1, <2>2
    <3> QED BY <1>2, <1>3, <1>4, <3>1
  <2> QED BY <2>1, <2>2
<1> QED BY <1>2, <1>4, <1>5, <1>7 DEF Stacked, t

LEMMA Doubled ==
  ASSUME NEW u \in Int, NEW p \in Int, NEW q \in Int, NEW left \in Int, NEW right \in Int,
         NEW n \in Int, right = left + p - 1, left = u + p - 1, q = 2 * p, n = right + 1
  PROVE  right = n - 1 /\ left = n - p /\ n = u + q - 1
  OBVIOUS

LEMMA StackedParent ==
  ASSUME NEW nodes \in Seq(ElkremNode), NEW new, NEW sha, Parent(nodes, new, sha), Stacked(nodes)
  PROVE  /\ Stacked(new)
         /\ \A k \in 1 .. Len(new) : Under(new, k) = Under(nodes, k)
         /\ nodes[Len(nodes)].I = NextIndex(nodes) - 1
         /\ nodes[Len(nodes) - 1].I = NextIndex(nodes) - Pow2[nodes[Len(nodes)].H + 1]
<1> DEFINE t == Len(nodes)
           N == NextIndex(nodes)
           h == nodes[t].H
<1>1. /\ t \in Nat /\ t > 1 /\ N = nodes[t].I + 1 /\ h \in Nat
      /\ \A k \in 1 .. t : nodes[k].I \in Nat /\ Under(nodes, k) \in Int
  BY NodeFields DEF Parent
<1>2. /\ Len(new) = t - 1 /\ \A k \in 1 .. t - 2 : new[k] = nodes[k]
      /\ new[t - 1].H = h + 1 /\ new[t - 1].I = N /\ nodes[t - 1].H = h
  BY DEF Parent
<1>3. \A k \in 1 .. t : nodes[k].I = Under(nodes, k) + Pow2[nodes[k].H + 1] - 1
  BY DEF Stacked
<1> HIDE DEF t, N
<1>4. ASSUME NEW k \in 1 .. t - 1 PROVE Under(new, k) = Under(nodes, k)
  <2>1. k # 1 => k - 1 \in 1 .. t - 2
    BY <1>1
  <2> QED BY <1>2, <2>1 DEF Under
<1>5. Pow2[h + 1] \in Nat /\ Pow2[(h + 1) + 1] = 2 * Pow2[h + 1]
  <2>1. h \in Nat
    BY <1>1
  <2> HIDE DEF h
  <2>2. h + 1 \in Nat
    BY <2>1
  <2> QED BY <2>2, Powers
<1>6. /\ nodes[t].I = nodes[t - 1].I + Pow2[h + 1] - 1
      /\ nodes[t - 1].I = Under(nodes, t - 1) + Pow2[h + 1] - 1
  <2>1. t \in 1 .. t /\ t - 1 \in 1 .. t /\ t # 1
    BY <1>1
  <2>2. Under(nodes, t) = nodes[t - 1].I
    BY <2>1 DEF Under
  <2> QED BY <1>2, <1>3, <2>1, <2>2
<1> HIDE DEF h
<1>7. /\ nodes[t].I = N - 1 /\ nodes[t - 1].I = N - Pow2[h + 1]
      /\ N = Under(nodes, t - 1) + Pow2[(h + 1) + 1] - 1
  <2>1. /\ nodes[t].I \in Int /\ nodes[t - 1].I \in Int /\ Under(nodes, t - 1) \in Int
        /\ N = nodes[t].I + 1
    <3>1. t - 1 \in 1 .. t /\ t \in 1 .. t
      BY <1>1
    <3> QED BY <1>1, <3>1
  <2>2. /\ Pow2[h + 1] \in Int /\ Pow2[(h + 1) + 1] \in Int /\ N \in Int
        /\ Pow2[(h + 1) + 1] = 2 * Pow2[h + 1]
    BY <1>5, <2>1
  <2> DEFINE right == nodes[t].I
             left == nodes[t - 1].I
             u == Under(nodes, t - 1)
             p == Pow2[h + 1]
             q == Pow2[(h + 1) + 1]
  <2>3. /\ right \in Int /\ left \in Int /\ u \in Int /\ p \in Int /\ q \in Int
        /\ N = right + 1 /\ right = left + p - 1 /\ left = u + p - 1 /\ q = 2 * p
    BY <1>6, <2>1, <2>2
  <2> HIDE DEF right, left, u, p, q
  <2>4. right = N - 1 /\ left = N - p /\ N = u + q - 1
    BY <2>2, <2>3, Doubled
  <2> QED BY <2>4 DEF right, left, u, p, q
<1>8. ASSUME NEW k \in 1 .. t - 1
      PROVE  new[k].I = Under(new, k) + Pow2[new[k].H + 1] - 1
  <2>1. CASE k = t - 1
    BY <1>2, <1>4, <1>7, <2>1
  <2>2. CASE k # t - 1
    <3>1. k \in 1 .. t - 2 /\ k \in 1 .. t
      BY <1>1, <2>2
    <3> QED BY <1>2, <1>3, <1>4, <3>1
  <2> QED BY <2>1, <2>2
<1> QED BY <1>2, <1>4, <1>7, <1>8 DEF Stacked, t, N, h

(* One more hash was accepted: sha, for the index n.                       *)
Extends(more, hashes, n, sha) ==
    /\ DOMAIN hashes = 0 .. n - 1 /\ DOMAIN more = 0 .. n
    /\ more[n] = sha
    /\ \A w \in 0 .. n - 1 : more[w] = hashes[w]

(* A node that stays where it is goes on making what it made.              *)
LEMMA MakesStays ==
  ASSUME NEW nodes \in Seq(ElkremNode), NEW k \in 1 .. Len(nodes), Stacked(nodes),
         NEW new, new[k] = nodes[k], Under(new, k) = Under(nodes, k),
         NEW hashes, NEW more, NEW sha, Extends(more, hashes, NextIndex(nodes), sha),
         Makes(nodes, k, hashes)
  PROVE  Makes(new, k, more)
<1> DEFINE N == NextIndex(nodes)
<1>1. N \in Nat /\ nodes[k].I < N /\ nodes[k].I \in Nat
  BY IndexesRise, NodeFields
<1>2. DOMAIN hashes = 0 .. N - 1 /\ DOMAIN more = 0 .. N /\ \A w \in 0 .. N - 1 : more[w] = hashes[w]
  BY DEF Extends
<1> HIDE DEF N
<1> SUFFICES ASSUME NEW w \in DOMAIN more, Under(nodes, k) < w, w <= nodes[k].I
             PROVE  Descend(w, nodes[k].I, nodes[k].H, nodes[k].Sha) = [i |-> w, sha |-> more[w]]
  BY DEF Makes
<1>3. w \in DOMAIN hashes /\ more[w] = hashes[w]
  BY <1>1, <1>2
<1> QED BY <1>3 DEF Makes

LEMMA MakesLeaf ==
  ASSUME NEW nodes \in Seq(ElkremNode), NEW new, NEW sha \in Sha, Leaf(nodes, new, sha),
         Stacked(nodes), NEW hashes, NEW more, Extends(more, hashes, NextIndex(nodes), sha),
         \A k \in 1 .. Len(nodes) : Makes(nodes, k, hashes)
  PROVE  \A k \in 1 .. Len(new) : Makes(new, k, more)
<1> DEFINE t == Len(nodes)
           N == NextIndex(nodes)
<1>1. t \in Nat /\ N \in Nat
  BY NodeFields, IndexesRise
<1>2. /\ Len(new) = t + 1 /\ \A k \in 1 .. t : new[k] = nodes[k]
      /\ new[t + 1] = [H |-> 0, I |-> N, Sha |-> sha]
  BY DEF Leaf
<1>3. Under(new, t + 1) = N - 1 /\ \A k \in 1 .. t : Under(new, k) = Under(nodes, k)
  BY <1>2, StackedLeaf
<1>4. DOMAIN more = 0 .. N /\ more[N] = sha
  BY DEF Extends
<1>5. ASSUME NEW k \in 1 .. t PROVE Makes(new, k, more)
  BY <1>2, <1>3, MakesStays
<1>6. Makes(new, t + 1, more)
  <2>1. ASSUME NEW w \in 0 .. N, N - 1 < w PROVE w = N
    BY <1>1, <2>1
  <2>2. Descend(N, N, 0, sha) = [i |-> N, sha |-> sha]
    BY <1>1, DescendStays
  <2> HIDE DEF N, t
  <2> QED BY <1>2, <1>3, <1>4, <2>1, <2>2 DEF Makes
<1> HIDE DEF N, t
<1>7. \A k \in 1 .. t + 1 : k \in 1 .. t \/ k = t + 1
  BY <1>1
<1> QED BY <1>2, <1>5, <1>6, <1>7

LEMMA MakesParent ==
  ASSUME NEW nodes \in Seq(ElkremNode), NEW new, NEW sha \in Sha, Parent(nodes, new, sha),
         Stacked(nodes), NEW hashes, NEW more, Extends(more, hashes, NextIndex(nodes), sha),
         \A k \in 1 .. Len(nodes) : Makes(nodes, k, hashes)
  PROVE  \A k \in 1 .. Len(new) : Makes(new, k, more)
<1> DEFINE t == Len(nodes)
           N == NextIndex(nodes)
           h == nodes[t].H
           left == nodes[t - 1]
           right == nodes[t]
<1>1. t \in Nat /\ t > 1 /\ N \in Nat
  BY NodeFields, IndexesRise DEF Parent
<1>2. /\ Len(new) = t - 1 /\ \A k \in 1 .. t - 2 : new[k] = nodes[k]
      /\ new[t - 1] = [H |-> h + 1, I |-> N, Sha |-> sha]
      /\ left.H = h /\ LeftSha(sha) = left.Sha /\ RightSha(sha) = right.Sha
  BY DEF Parent
<1>3. /\ right.I = N - 1 /\ left.I = N - Pow2[h + 1]
      /\ \A k \in 1 .. t - 1 : Under(new, k) = Under(nodes, k)
  BY <1>2, StackedParent
<1>4. /\ h \in Nat /\ left.I \in Nat /\ right.I \in Nat /\ left.Sha \in Sha /\ right.Sha \in Sha
      /\ left.I < N /\ right.I < N /\ Under(nodes, t - 1) \in Int /\ Under(nodes, t) = left.I
  <2>1. t - 1 \in 1 .. t /\ t \in 1 .. t /\ t # 1
    <3> HIDE DEF t
    <3> QED BY <1>1
  <2>2. Under(nodes, t) = nodes[t - 1].I
    BY <2>1 DEF Under
  <2> QED BY <2>1, <2>2, NodeFields, IndexesRise
<1>5. /\ DOMAIN hashes = 0 .. N - 1 /\ DOMAIN more = 0 .. N /\ more[N] = sha
      /\ \A w \in 0 .. N - 1 : more[w] = hashes[w]
  BY DEF Extends
<1>6. ASSUME NEW k \in 1 .. t - 2 PROVE Makes(new, k, more)
  <2>1. k \in 1 .. t /\ k \in 1 .. t - 1
    BY <1>1
  <2> QED BY <1>2, <1>3, <2>1, MakesStays
<1>7. Makes(nodes, t - 1, hashes) /\ Makes(nodes, t, hashes)
  BY <1>1
<1>8. Makes(new, t - 1, more)
  <2>1. SUFFICES ASSUME NEW w \in 0 .. N, Under(nodes, t - 1) < w
                 PROVE  Descend(w, N, h + 1, sha) = [i |-> w, sha |-> more[w]]
    <3>1. t - 1 \in 1 .. t - 1
      BY <1>1
    <3> HIDE DEF t, N, h
    <3> QED BY <1>2, <1>3, <1>5, <3>1 DEF Makes
  <2> HIDE DEF t, N, h, left, right
  <2>2. w \in Nat /\ w <= N /\ N \in Int
    BY <1>1
  <2>3. CASE w = N
    <3>1. h + 1 \in Nat
      BY <1>4
    <3>2. Descend(N, N, h + 1, sha) = [i |-> N, sha |-> sha]
      BY <1>1, <3>1, DescendStays
    <3> QED BY <1>5, <2>3, <3>2
  <2>4. CASE w < N /\ w <= left.I
    <3>1. DescendStep(w, [i |-> N, sha |-> sha], h + 1) = [i |-> left.I, sha |-> left.Sha]
      BY <1>1, <1>2, <1>3, <2>2, <2>4 DEF DescendStep
    <3>2. Descend(w, N, h + 1, sha) = Descend(w, left.I, h, left.Sha)
      BY <1>4, <2>2, <3>1, DescendChild
    <3>3. w \in DOMAIN hashes /\ more[w] = hashes[w]
      BY <1>1, <1>5, <2>2, <2>4
    <3>4. Descend(w, left.I, h, left.Sha) = [i |-> w, sha |-> hashes[w]]
      BY <1>2, <1>7, <2>1, <2>4, <3>3 DEF Makes, left
    <3> QED BY <3>2, <3>3, <3>4
  <2>5. CASE w < N /\ ~ (w <= left.I)
    <3>1. DescendStep(w, [i |-> N, sha |-> sha], h + 1) = [i |-> right.I, sha |-> right.Sha]
      BY <1>1, <1>2, <1>3, <2>2, <2>5 DEF DescendStep
    <3>2. Descend(w, N, h + 1, sha) = Descend(w, right.I, h, right.Sha)
      BY <1>4, <2>2, <3>1, DescendChild
    <3>3. w \in DOMAIN hashes /\ more[w] = hashes[w] /\ left.I < w /\ w <= right.I
      BY <1>1, <1>3, <1>4, <1>5, <2>2, <2>5
    <3>4. Descend(w, right.I, h, right.Sha) = [i |-> w, sha |-> hashes[w]]
      BY <1>4, <1>7, <3>3 DEF Makes, right, h
    <3> QED BY <3>2, <3>3, <3>4
  <2> QED BY <1>4, <2>2, <2>3, <2>4, <2>5
<1> HIDE DEF t, N, h, left, right
<1>9. \A k \in 1 .. t - 1 : k \in 1 .. t - 2 \/ k = t - 1
  BY <1>1
<1> QED BY <1>2, <1>6, <1>8, <1>9

-----------------------------------------------------------------------------
(* One message.                                                            *)

LEMMA InitElk == Init => ElkInv
<1> SUFFICES ASSUME Init PROVE ElkInv
  OBVIOUS
<1>1. store = <<>> /\ txids = <<>> /\ given = <<>>
  BY DEF Init
<1>2. store \in Seq(ElkremNode) /\ Len(store) = 0 /\ NextIndex(store) = 0
  BY <1>1 DEF NextIndex
<1>3. DOMAIN given = {} /\ 0 .. NextIndex(store) - 1 = {}
  BY <1>1, <1>2
<1>4. txids = [t \in DOMAIN given |-> t]
  BY <1>1, <1>3
<1>5. 1 .. Len(store) = {} /\ 1 .. Len(store) - 1 = {} /\ 1 .. Len(store) - 2 = {}
  BY <1>2
<1> QED BY <1>2, <1>3, <1>4, <1>5 DEF ElkInv, TypeOK, HeightsFall, Stacked, Indexed

LEMMA StepElk == ElkInv /\ [Next]_vars => ElkInv'
<1> SUFFICES ASSUME ElkInv, [Next]_vars PROVE ElkInv'
  OBVIOUS
<1>1. CASE UNCHANGED vars
  BY <1>1 DEF vars, ElkInv, TypeOK, HeightsFall, Stacked, Indexed, Makes, Under
<1>2. CASE Next
  <2> DEFINE N == NextIndex(store)
  <2>1. PICK elk \in Revealed : UpdateChannel([Elk |-> elk, ParTxid |-> Cardinality(DOMAIN given)])
    BY <1>2 DEF Next
  <2>2. store \in Seq(ElkremNode) /\ Stacked(store) /\ Revealed \subseteq Sha /\ elk \in Sha
    BY RevealedType DEF ElkInv, TypeOK
  <2>3. N \in Nat
    BY <2>2, IndexesRise
  <2>4. Cardinality(DOMAIN given) = N
    <3>1. DOMAIN given = 0 .. N - 1
      BY DEF ElkInv, Indexed
    <3> HIDE DEF N
    <3>2. Cardinality(0 .. N - 1) = N
      <4>1. 0 \in Int /\ N - 1 \in Int
        BY <2>3
      <4>2. Cardinality(0 .. N - 1) = IF 0 > N - 1 THEN 0 ELSE (N - 1) - 0 + 1
        BY <4>1, FS_Interval, Zenon
      <4> QED BY <2>3, <4>2
    <3> QED BY <3>1, <3>2
  <2>5. /\ Fits(store, elk) /\ store' = AddNext(store, elk)
        /\ txids' = Put(txids, N, UpTo(store'))
        /\ given' = Put(given, N, elk)
    BY <2>1, <2>4 DEF UpdateChannel
  <2>6. Leaf(store, store', elk) \/ Parent(store, store', elk)
    BY <2>2, <2>5, Grows
  <2>7. store' \in Seq(ElkremNode) /\ UpTo(store') = N /\ NextIndex(store') = N + 1
    <3>1. store' \in Seq(ElkremNode)
      BY <2>6 DEF Leaf, Parent
    <3> QED BY <2>2, <2>6, <3>1, GrowsByOne
  <2>8. DOMAIN given = 0 .. N - 1 /\ txids = [t \in 0 .. N - 1 |-> t]
    BY DEF ElkInv, Indexed
  <2> HIDE DEF N
  <2>9. Extends(given', given, N, elk)
    <3>1. 0 .. N = {N} \cup 0 .. N - 1 /\ N \notin 0 .. N - 1
      BY <2>3
    <3>2. /\ DOMAIN given' = {N} \cup DOMAIN given
          /\ given'[N] = elk
          /\ \A w \in DOMAIN given : w # N => given'[w] = given[w]
      BY <2>5 DEF Put
    <3> QED BY <2>8, <3>1, <3>2 DEF Extends
  <2>10. Indexed'
    <3>1. 0 .. N = {N} \cup 0 .. N - 1 /\ N \notin 0 .. N - 1 /\ (N + 1) - 1 = N
      BY <2>3
    <3>2. txids' = [t \in {N} \cup 0 .. N - 1 |-> IF t \in {N} THEN N ELSE t]
      BY <2>5, <2>7, <2>8 DEF Put
    <3>3. txids' = [t \in 0 .. N |-> t]
      BY <3>1, <3>2
    <3>4. DOMAIN given' = 0 .. N
      BY <2>9 DEF Extends
    <3> QED BY <2>7, <3>1, <3>3, <3>4 DEF Indexed
  <2>11. Stacked(store') /\ \A k \in 1 .. Len(store') : Makes(store', k, given')
    BY <2>2, <2>6, <2>9, StackedLeaf, StackedParent, MakesLeaf, MakesParent DEF ElkInv, N
  <2>12. HeightsFall'
    BY <2>2, <2>6, HeightsLeaf, HeightsParent DEF ElkInv, HeightsFall
  <2> QED BY <2>7, <2>10, <2>11, <2>12 DEF ElkInv, TypeOK, ElkremNode, Revealed
<1> QED BY <1>1, <1>2

(* The node that ReceiverAtIndex takes is the one whose subtree the index  *)
(* lies in.                                                                *)
LEMMA ElkRecovers == ElkInv => Recoverable
<1> SUFFICES ASSUME ElkInv, NEW w \in DOMAIN txids
             PROVE  ReceiverAtIndex(store, txids[w]) = [i |-> w, sha |-> given[w]] /\ txids[w] = w
  BY DEF Recoverable
<1> DEFINE t == Len(store)
           I == {k \in 1 .. t : w <= store[k].I}
<1>1. store \in Seq(ElkremNode) /\ Stacked(store)
  BY DEF ElkInv, TypeOK
<1>2. w \in DOMAIN given /\ w \in 0 .. NextIndex(store) - 1 /\ txids[w] = w
  BY DEF ElkInv, Indexed
<1>3. /\ t \in Nat /\ \A k \in 1 .. t : store[k].I \in Nat
      /\ NextIndex(store) = IF t = 0 THEN 0 ELSE store[t].I + 1
  BY <1>1, NodeFields
<1>4. t \in I
  BY <1>2, <1>3
<1>5. PICK m \in I : \A k \in I : m <= k
  <2>1. I \in SUBSET Nat /\ I # {}
    BY <1>4
  <2> HIDE DEF I
  <2> QED BY <2>1, Least
<1>6. SelectInSeq(store, LAMBDA x : w <= x.I) = m
  <2>1. \A k \in I : k \in Int
    OBVIOUS
  <2>2. \A x \in I : (\A y \in I : x <= y) => x = m
    BY <1>5, <2>1
  <2>3. (CHOOSE x \in I : \A y \in I : x <= y) = m
    BY <1>5, <2>2
  <2> QED BY <1>4, <2>3 DEF SelectInSeq, Min
<1>7. Under(store, m) < w
  <2>1. CASE m = 1
    BY <1>2, <2>1 DEF Under
  <2>2. CASE m # 1
    <3>1. m - 1 \in 1 .. t /\ m - 1 < m /\ m - 1 \in Int
      BY <1>3, <2>2
    <3>2. m - 1 \notin I
      BY <1>5, <3>1
    <3>3. ~ (w <= store[m - 1].I) /\ store[m - 1].I \in Nat /\ w \in Nat
      BY <1>2, <1>3, <3>1, <3>2
    <3> QED BY <2>2, <3>3 DEF Under
  <2> QED BY <2>1, <2>2
<1>8. Makes(store, m, given) /\ w <= store[m].I
  BY DEF ElkInv
<1>9. Descend(w, store[m].I, store[m].H, store[m].Sha) = [i |-> w, sha |-> given[w]]
  BY <1>2, <1>7, <1>8 DEF Makes
<1>10. ReceiverAtIndex(store, w) = Descend(w, store[m].I, store[m].H, store[m].Sha)
  BY <1>6 DEF ReceiverAtIndex
<1> QED BY <1>2, <1>9, <1>10

-----------------------------------------------------------------------------
(* The way from a root down to an index of its tree.                       *)

RootSha(r) == [root |-> r, path |-> <<>>]
Way(t, r, w) == Turns(t, w, [i |-> maxIndex, sha |-> RootSha(r)], TreeHeight)

(* The first index of the subtree that the way has come to after j turns.  *)
Low(t, j) == t[j].i - 2 * Pow2[TreeHeight - j] + 2

LEMMA RootType ==
  /\ TreeHeight \in Nat /\ maxIndex \in Nat /\ maxIndex = 2 * Pow2[TreeHeight] - 2
  /\ \A r \in Root : RootSha(r) \in Sha
<1>1. TreeHeight \in Nat
  BY TreeAssumption
<1>2. Pow2[TreeHeight + 1] = 2 * Pow2[TreeHeight] /\ Pow2[TreeHeight] \in Nat /\ Pow2[TreeHeight] > 0
  BY <1>1, Powers
<1>3. maxIndex \in Nat /\ maxIndex = 2 * Pow2[TreeHeight] - 2
  BY <1>2 DEF maxIndex
<1> QED BY <1>1, <1>3 DEF RootSha, Sha

(* The sender's hash is at the end of the way.                             *)
LEMMA WayExists ==
  ASSUME NEW r \in Root, NEW w \in 0 .. maxIndex
  PROVE  \E t : Way(t, r, w) /\ SenderAtIndex(r, w) = t[TreeHeight + 1].sha
<1>1. TreeHeight \in Nat /\ maxIndex \in Int /\ RootSha(r) \in Sha /\ w \in Nat
  BY RootType
<1>2. SenderAtIndex(r, w) = Descend(w, maxIndex, TreeHeight, RootSha(r)).sha
  BY DEF SenderAtIndex, RootSha
<1>3. PICK t : Turns(t, w, [i |-> maxIndex, sha |-> RootSha(r)], TreeHeight)
               /\ Descend(w, maxIndex, TreeHeight, RootSha(r)) = t[TreeHeight + 1]
  BY <1>1, DescendTurns, Zenon
<1> QED BY <1>2, <1>3 DEF Way

(* One turn: stay, go left or go right.                                    *)
Turn(t, w, j) ==
    LET P == Pow2[TreeHeight - j]
    IN /\ t[j].i <= w => t[j + 1].i = t[j].i /\ t[j + 1].sha = t[j].sha
       /\ t[j].i > w /\ w <= t[j].i - P => t[j + 1].i = t[j].i - P /\ t[j + 1].sha = LeftSha(t[j].sha)
       /\ t[j].i > w /\ w > t[j].i - P => t[j + 1].i = t[j].i - 1 /\ t[j + 1].sha = RightSha(t[j].sha)

LEMMA WayTurns ==
  ASSUME NEW r \in Root, NEW w \in 0 .. maxIndex, NEW t, Way(t, r, w)
  PROVE  /\ t[0].i = maxIndex /\ t[0].sha = RootSha(r)
         /\ \A j \in 0 .. TreeHeight + 1 : t[j].i \in Int
         /\ \A j \in 0 .. TreeHeight : Turn(t, w, j)
<1>1. /\ t \in [0 .. TreeHeight + 1 -> Place]
      /\ t[0] = [i |-> maxIndex, sha |-> RootSha(r)]
      /\ \A j \in 0 .. TreeHeight : t[j + 1] = DescendStep(w, t[j], TreeHeight - j)
  BY DEF Way, Turns
<1>2. \A j \in 0 .. TreeHeight + 1 : t[j].i \in Int
  BY <1>1 DEF Place
<1> SUFFICES ASSUME NEW j \in 0 .. TreeHeight PROVE Turn(t, w, j)
  BY <1>1, <1>2
<1>3. /\ TreeHeight \in Nat /\ j \in 0 .. TreeHeight + 1 /\ TreeHeight - j \in Nat /\ w \in Int
      /\ t[j].i \in Int /\ Pow2[TreeHeight - j] \in Nat
  BY <1>2, RootType, Powers
<1>4. t[j + 1] = DescendStep(w, t[j], TreeHeight - j)
  BY <1>1
<1>5. CASE t[j].i <= w
  <2>1. DescendStep(w, t[j], TreeHeight - j) = t[j]
    BY <1>3, <1>5 DEF DescendStep
  <2> QED BY <1>3, <1>4, <1>5, <2>1 DEF Turn
<1>6. CASE t[j].i > w /\ w <= t[j].i - Pow2[TreeHeight - j]
  <2>1. DescendStep(w, t[j], TreeHeight - j)
          = [i |-> t[j].i - Pow2[TreeHeight - j], sha |-> LeftSha(t[j].sha)]
    BY <1>3, <1>6 DEF DescendStep
  <2> QED BY <1>3, <1>4, <1>6, <2>1 DEF Turn
<1>7. CASE t[j].i > w /\ w > t[j].i - Pow2[TreeHeight - j]
  <2>1. DescendStep(w, t[j], TreeHeight - j) = [i |-> t[j].i - 1, sha |-> RightSha(t[j].sha)]
    BY <1>3, <1>7 DEF DescendStep
  <2> QED BY <1>3, <1>4, <1>7, <2>1 DEF Turn
<1> QED BY <1>3, <1>5, <1>6, <1>7

(* The subtree holds w until it is found, and it is found in time.         *)
LEMMA WayHolds ==
  ASSUME NEW r \in Root, NEW w \in 0 .. maxIndex, NEW t, Way(t, r, w)
  PROVE  /\ \A j \in 0 .. TreeHeight : w <= t[j].i /\ (t[j].i # w => Low(t, j) <= w)
         /\ t[TreeHeight].i = w
<1> DEFINE holds(j) == w <= t[j].i /\ (t[j].i # w => Low(t, j) <= w)
           T == {j \in Nat : j <= TreeHeight => holds(j)}
<1>1. TreeHeight \in Nat /\ maxIndex \in Nat /\ w \in Int /\ maxIndex = 2 * Pow2[TreeHeight] - 2
  BY RootType
<1>0. /\ t[0].i = maxIndex
      /\ \A j \in 0 .. TreeHeight + 1 : t[j].i \in Int
  BY WayTurns, Zenon
<1>2. \A j \in 0 .. TreeHeight : t[j].i \in Int
  BY <1>0, <1>1
<1>3. 0 \in T
  <2>1. t[0].i = maxIndex /\ TreeHeight - 0 = TreeHeight
    BY <1>0, <1>1
  <2>2. Pow2[TreeHeight] \in Nat
    BY <1>1, Powers
  <2> QED BY <1>1, <2>1, <2>2 DEF Low
<1>4. ASSUME NEW j \in Nat, j \in T PROVE j + 1 \in T
  <2> SUFFICES ASSUME j + 1 <= TreeHeight PROVE holds(j + 1)
    OBVIOUS
  <2> DEFINE P == Pow2[TreeHeight - j]
             Q == Pow2[TreeHeight - (j + 1)]
             i == t[j].i
  <2>1. /\ j \in 0 .. TreeHeight /\ j + 1 \in 0 .. TreeHeight /\ TreeHeight - (j + 1) \in Nat
        /\ (TreeHeight - (j + 1)) + 1 = TreeHeight - j
    BY <1>1
  <2>2. P = 2 * Q /\ Q \in Nat /\ Q > 0 /\ P \in Nat
    BY <2>1, Powers
  <2>3. i \in Int /\ w <= i /\ (i # w => i - 2 * P + 2 <= w)
    BY <1>2, <1>4, <2>1 DEF Low
  <2>4. Low(t, j + 1) = t[j + 1].i - 2 * Q + 2
    BY DEF Low
  <2>5. /\ i <= w => t[j + 1].i = i
        /\ i > w /\ w <= i - P => t[j + 1].i = i - P
        /\ i > w /\ w > i - P => t[j + 1].i = i - 1
    <3>1. Turn(t, w, j)
      BY <2>1, WayTurns
    <3> QED BY <3>1 DEF Turn
  <2> HIDE DEF P, Q, i
  <2> QED BY <1>1, <2>2, <2>3, <2>4, <2>5
<1>5. T = Nat
  <2>1. T \in SUBSET Nat
    OBVIOUS
  <2> HIDE DEF T
  <2> QED BY <1>3, <1>4, <2>1, Induction
<1>6. \A j \in 0 .. TreeHeight : holds(j)
  BY <1>5
<1>7. t[TreeHeight].i = w
  <2>1. TreeHeight \in 0 .. TreeHeight /\ TreeHeight - TreeHeight = 0 /\ Pow2[0] = 1
    BY <1>1, Powers
  <2>2. holds(TreeHeight) /\ t[TreeHeight].i \in Int /\ Low(t, TreeHeight) = t[TreeHeight].i - 2 * 1 + 2
    BY <1>2, <1>6, <2>1 DEF Low
  <2> QED BY <1>1, <2>2
<1> QED BY <1>6, <1>7

(* The turn after which w is found.                                        *)
Depth(t, w, d) ==
    /\ d \in 0 .. TreeHeight
    /\ t[d].i = w
    /\ \A j \in 0 .. d - 1 : t[j].i > w

LEMMA WayEnds ==
  ASSUME NEW r \in Root, NEW w \in 0 .. maxIndex, NEW t, Way(t, r, w)
  PROVE  \E d \in 0 .. TreeHeight : Depth(t, w, d) /\ t[TreeHeight + 1].sha = t[d].sha
<1> DEFINE S == {j \in 0 .. TreeHeight : t[j].i = w}
<1>1. TreeHeight \in Nat /\ w \in Int
  BY RootType
<1>2. t[TreeHeight].i = w /\ \A j \in 0 .. TreeHeight : w <= t[j].i
  BY WayHolds, Zenon
<1>3. /\ \A j \in 0 .. TreeHeight + 1 : t[j].i \in Int
      /\ \A j \in 0 .. TreeHeight : Turn(t, w, j)
  BY WayTurns, Zenon
<1>4. TreeHeight \in S
  BY <1>1, <1>2
<1>5. PICK d \in S : \A j \in S : d <= j
  <2>1. S \in SUBSET Nat /\ S # {}
    BY <1>4
  <2> HIDE DEF S
  <2> QED BY <2>1, Least
<1>6. Depth(t, w, d)
  <2>1. ASSUME NEW j \in 0 .. d - 1 PROVE t[j].i > w
    <3>1. j \in 0 .. TreeHeight /\ j \notin S /\ j \in 0 .. TreeHeight + 1
      BY <1>1, <1>5
    <3> QED BY <1>1, <1>2, <1>3, <3>1
  <2> QED BY <2>1 DEF Depth
<1> DEFINE T == {k \in Nat : d <= k /\ k <= TreeHeight + 1 => t[k].i = w /\ t[k].sha = t[d].sha}
<1>7. T = Nat
  <2>1. 0 \in T
    <3>1. d <= 0 => d = 0
      OBVIOUS
    <3> QED BY <3>1
  <2>2. ASSUME NEW k \in Nat, k \in T PROVE k + 1 \in T
    <3> SUFFICES ASSUME d <= k + 1, k + 1 <= TreeHeight + 1
                 PROVE  t[k + 1].i = w /\ t[k + 1].sha = t[d].sha
      OBVIOUS
    <3>1. CASE d = k + 1
      BY <3>1
    <3>2. CASE d # k + 1
      <4>1. k \in 0 .. TreeHeight /\ d <= k /\ k <= TreeHeight + 1
        BY <1>1, <3>2
      <4>2. t[k].i = w /\ t[k].sha = t[d].sha /\ Turn(t, w, k)
        BY <1>3, <2>2, <4>1
      <4> QED BY <1>1, <4>2 DEF Turn
    <3> QED BY <3>1, <3>2
  <2>3. T \in SUBSET Nat
    OBVIOUS
  <2> HIDE DEF T
  <2> QED BY <2>1, <2>2, <2>3, Induction
<1>8. t[TreeHeight + 1].sha = t[d].sha
  <2>1. TreeHeight + 1 \in T /\ d <= TreeHeight + 1 /\ TreeHeight + 1 <= TreeHeight + 1
    BY <1>1, <1>7
  <2> QED BY <2>1
<1> QED BY <1>6, <1>8

(* At a node that is not yet the right one, w lies in the child's subtree  *)
(* that the way goes to.                                                   *)
LEMMA WayBranches ==
  ASSUME NEW r \in Root, NEW w \in 0 .. maxIndex, NEW t, Way(t, r, w),
         NEW d, Depth(t, w, d), NEW j \in 0 .. d - 1, NEW P, P = Pow2[TreeHeight - j]
  PROVE  /\ t[j].i \in Int /\ t[j].i > w /\ P \in Nat /\ P >= 2
         /\ Low(t, j) = t[j].i - 2 * P + 2
         /\ w <= t[j].i - P => t[j + 1].i = t[j].i - P /\ Low(t, j + 1) = Low(t, j)
         /\ w > t[j].i - P => t[j + 1].i = t[j].i - 1 /\ Low(t, j + 1) = t[j].i - P + 1
<1> DEFINE Q == Pow2[TreeHeight - (j + 1)]
<1>1. TreeHeight \in Nat /\ w \in Int /\ d \in 0 .. TreeHeight /\ t[j].i > w
  BY RootType DEF Depth
<1>2. /\ j \in 0 .. TreeHeight /\ j \in 0 .. TreeHeight + 1 /\ TreeHeight - (j + 1) \in Nat
      /\ (TreeHeight - (j + 1)) + 1 = TreeHeight - j
  BY <1>1
<1>3. t[j].i \in Int /\ Turn(t, w, j)
  BY <1>2, WayTurns
<1>4. P = 2 * Q /\ Q \in Nat /\ Q > 0
  BY <1>2, Powers
<1>5. Low(t, j) = t[j].i - 2 * P + 2 /\ Low(t, j + 1) = t[j + 1].i - 2 * Q + 2
  BY DEF Low
<1>6. /\ w <= t[j].i - P => t[j + 1].i = t[j].i - P
      /\ w > t[j].i - P => t[j + 1].i = t[j].i - 1
  BY <1>1, <1>3 DEF Turn
<1> HIDE DEF Q
<1> QED BY <1>1, <1>3, <1>4, <1>5, <1>6

(* The subtrees on the way lie one in the other.                           *)
LEMMA WayNarrows ==
  ASSUME NEW r \in Root, NEW w \in 0 .. maxIndex, NEW t, Way(t, r, w),
         NEW d, Depth(t, w, d), NEW j \in 0 .. d
  PROVE  \A k \in j .. d : t[k].i <= t[j].i /\ Low(t, j) <= Low(t, k)
<1> DEFINE T == {n \in Nat : j + n <= d => t[j + n].i <= t[j].i /\ Low(t, j) <= Low(t, j + n)}
<1>1. TreeHeight \in Nat /\ w \in Int /\ d \in 0 .. TreeHeight
  BY RootType DEF Depth
<1>2. \A k \in 0 .. d : t[k].i \in Int /\ Low(t, k) \in Int
  <2>1. ASSUME NEW k \in 0 .. d PROVE t[k].i \in Int /\ Low(t, k) \in Int
    <3>1. k \in 0 .. TreeHeight + 1 /\ TreeHeight - k \in Nat
      BY <1>1
    <3>2. t[k].i \in Int /\ Pow2[TreeHeight - k] \in Nat
      BY <3>1, WayTurns, Powers
    <3> QED BY <3>2 DEF Low
  <2> QED BY <2>1
<1>3. 0 \in T
  <2>1. j + 0 = j /\ t[j].i \in Int /\ Low(t, j) \in Int
    BY <1>2
  <2> QED BY <2>1
<1>4. ASSUME NEW n \in Nat, n \in T PROVE n + 1 \in T
  <2> SUFFICES ASSUME j + (n + 1) <= d
               PROVE  t[j + (n + 1)].i <= t[j].i /\ Low(t, j) <= Low(t, j + (n + 1))
    OBVIOUS
  <2> DEFINE k == j + n
             P == Pow2[TreeHeight - k]
  <2>1. k \in 0 .. d - 1 /\ k \in 0 .. d /\ k + 1 \in 0 .. d /\ j + (n + 1) = k + 1 /\ j + n <= d
    BY <1>1
  <2>2. t[k].i <= t[j].i /\ Low(t, j) <= Low(t, k)
    BY <1>4, <2>1
  <2> HIDE DEF k
  <2>3. /\ t[k].i \in Int /\ t[k].i > w /\ P \in Nat /\ P >= 2
        /\ Low(t, k) = t[k].i - 2 * P + 2
        /\ w <= t[k].i - P => t[k + 1].i = t[k].i - P /\ Low(t, k + 1) = Low(t, k)
        /\ w > t[k].i - P => t[k + 1].i = t[k].i - 1 /\ Low(t, k + 1) = t[k].i - P + 1
    BY <2>1, WayBranches
  <2> HIDE DEF P
  <2>4. t[j].i \in Int /\ Low(t, j) \in Int /\ Low(t, k + 1) \in Int
    BY <1>2, <2>1
  <2>5. t[k + 1].i <= t[j].i /\ Low(t, j) <= Low(t, k + 1)
    BY <1>1, <2>2, <2>3, <2>4
  <2> QED BY <2>1, <2>5
<1>5. T = Nat
  <2>1. T \in SUBSET Nat
    OBVIOUS
  <2> HIDE DEF T
  <2> QED BY <1>3, <1>4, <2>1, Induction
<1> SUFFICES ASSUME NEW k \in j .. d PROVE t[k].i <= t[j].i /\ Low(t, j) <= Low(t, k)
  OBVIOUS
<1>6. k - j \in Nat /\ j + (k - j) = k /\ j + (k - j) <= d
  BY <1>1
<1> QED BY <1>5, <1>6

(* Whatever lies in a subtree on the way shares the way to there.          *)
LEMMA WaysAgree ==
  ASSUME NEW r \in Root, NEW w \in 0 .. maxIndex, NEW t, Way(t, r, w),
         NEW d, Depth(t, w, d), NEW j \in 0 .. d,
         NEW v \in 0 .. maxIndex, NEW u, Way(u, r, v), Low(t, j) <= v, v <= t[j].i
  PROVE  \A k \in 0 .. j : u[k].i = t[k].i /\ u[k].sha = t[k].sha
<1> DEFINE T == {k \in Nat : k <= j => u[k].i = t[k].i /\ u[k].sha = t[k].sha}
<1>1. TreeHeight \in Nat /\ w \in Int /\ v \in Int /\ d \in 0 .. TreeHeight
  BY RootType DEF Depth
<1>2. \A k \in 0 .. d : t[k].i \in Int /\ Low(t, k) \in Int
  <2>1. ASSUME NEW k \in 0 .. d PROVE t[k].i \in Int /\ Low(t, k) \in Int
    <3>1. k \in 0 .. TreeHeight + 1 /\ TreeHeight - k \in Nat
      BY <1>1
    <3>2. t[k].i \in Int /\ Pow2[TreeHeight - k] \in Nat
      BY <3>1, WayTurns, Powers
    <3> QED BY <3>2 DEF Low
  <2> QED BY <2>1
<1>3. 0 \in T
  BY WayTurns
<1>4. ASSUME NEW k \in Nat, k \in T PROVE k + 1 \in T
  <2> SUFFICES ASSUME k + 1 <= j PROVE u[k + 1].i = t[k + 1].i /\ u[k + 1].sha = t[k + 1].sha
    OBVIOUS
  <2> DEFINE P == Pow2[TreeHeight - k]
  <2>1. k \in 0 .. d - 1 /\ k + 1 \in 0 .. d /\ k \in 0 .. TreeHeight /\ j \in k + 1 .. d /\ k <= j
    BY <1>1
  <2>2. u[k].i = t[k].i /\ u[k].sha = t[k].sha
    BY <1>4, <2>1
  <2>3. t[j].i <= t[k + 1].i /\ Low(t, k + 1) <= Low(t, j)
    BY <2>1, WayNarrows
  <2>4. /\ t[k].i \in Int /\ t[k].i > w /\ P \in Nat /\ P >= 2
        /\ w <= t[k].i - P => t[k + 1].i = t[k].i - P /\ Low(t, k + 1) = Low(t, k)
        /\ w > t[k].i - P => t[k + 1].i = t[k].i - 1 /\ Low(t, k + 1) = t[k].i - P + 1
    BY <2>1, WayBranches
  <2>5. Turn(t, w, k) /\ Turn(u, v, k)
    BY <2>1, WayTurns
  <2>6. t[j].i \in Int /\ Low(t, j) \in Int /\ t[k + 1].i \in Int /\ Low(t, k + 1) \in Int
    BY <1>2, <2>1
  <2>7. CASE w <= t[k].i - P
    <3>1. v < t[k].i /\ v <= t[k].i - P
      BY <1>1, <2>3, <2>4, <2>6, <2>7
    <3> QED BY <2>2, <2>4, <2>5, <2>7, <3>1 DEF Turn
  <2>8. CASE w > t[k].i - P
    <3>1. v < t[k].i /\ v > t[k].i - P
      BY <1>1, <2>3, <2>4, <2>6, <2>8
    <3> QED BY <2>2, <2>4, <2>5, <2>8, <3>1 DEF Turn
  <2>9. w <= t[k].i - P \/ w > t[k].i - P
    BY <1>1, <2>4
  <2> QED BY <2>7, <2>8, <2>9
<1>5. T = Nat
  <2>1. T \in SUBSET Nat
    OBVIOUS
  <2> HIDE DEF T
  <2> QED BY <1>3, <1>4, <2>1, Induction
<1> QED BY <1>5

-----------------------------------------------------------------------------
(* The stack and the way to the next index: each node of the stack is the  *)
(* left child of a node on the way that the way does not go to the left    *)
(* of, or the right child of the next node itself.                         *)
Beside(t, w, node) ==
    LET j == TreeHeight - 1 - node.H
    IN /\ j >= 0
       /\ \A l \in 0 .. j - 1 : t[l].i # w
       /\ \/ node.I = t[j].i - Pow2[node.H + 1] /\ node.I < w
          \/ node.I = t[j].i - 1 /\ w = t[j].i

Placed(nodes) ==
    \A r \in Root : \A t :
        NextIndex(nodes) <= maxIndex /\ Way(t, r, NextIndex(nodes)) =>
            \A k \in 1 .. Len(nodes) : Beside(t, NextIndex(nodes), nodes[k])

(* The node hangs from the way above the next node, or from that itself.   *)
Above(t, w, d, node) ==
    /\ TreeHeight - 1 - node.H \in 0 .. d - 1
    /\ node.I = t[TreeHeight - 1 - node.H].i - Pow2[node.H + 1]
    /\ node.I < Low(t, d) /\ node.I < w

At(w, d, node) ==
    /\ TreeHeight - 1 - node.H = d
    /\ node.I = w - Pow2[node.H + 1] \/ node.I = w - 1

LEMMA BesideWay ==
  ASSUME NEW r \in Root, NEW w \in 0 .. maxIndex, NEW t, Way(t, r, w),
         NEW d, Depth(t, w, d), NEW node \in ElkremNode, Beside(t, w, node)
  PROVE  Above(t, w, d, node) \/ At(w, d, node)
<1> DEFINE j == TreeHeight - 1 - node.H
           P == Pow2[node.H + 1]
<1>1. TreeHeight \in Nat /\ w \in Int /\ d \in 0 .. TreeHeight /\ t[d].i = w
  BY RootType DEF Depth
<1>2. node.H \in Nat /\ node.I \in Nat
  BY DEF ElkremNode
<1>3. j \in Int /\ TreeHeight - j = node.H + 1
  BY <1>1, <1>2
<1>4. /\ j >= 0
      /\ \A l \in 0 .. j - 1 : t[l].i # w
      /\ \/ node.I = t[j].i - P /\ node.I < w
         \/ node.I = t[j].i - 1 /\ w = t[j].i
  BY DEF Beside
<1>5. At(w, d, node) <=> j = d /\ (node.I = w - P \/ node.I = w - 1)
  BY DEF At
<1>6. Above(t, w, d, node) <=> /\ j \in 0 .. d - 1
                               /\ node.I = t[j].i - P
                               /\ node.I < Low(t, d) /\ node.I < w
  BY DEF Above
<1> HIDE DEF j
<1>7. j <= d
  BY <1>1, <1>3, <1>4
<1>8. CASE j = d
  BY <1>1, <1>4, <1>5, <1>8
<1>9. CASE j < d
  <2>1. j \in 0 .. d - 1 /\ j + 1 \in 0 .. d /\ d \in j + 1 .. d
    BY <1>1, <1>3, <1>4, <1>9
  <2>2. P = Pow2[TreeHeight - j]
    BY <1>3
  <2> HIDE DEF P
  <2>3. /\ t[j].i \in Int /\ t[j].i > w /\ P \in Nat
        /\ w > t[j].i - P => Low(t, j + 1) = t[j].i - P + 1
    BY <2>1, <2>2, WayBranches
  <2>4. node.I = t[j].i - P /\ node.I < w
    BY <1>1, <1>4, <2>3
  <2>5. Low(t, j + 1) <= Low(t, d)
    BY <2>1, WayNarrows
  <2>6. Low(t, d) \in Int
    <3>1. d \in 0 .. TreeHeight + 1 /\ TreeHeight - d \in Nat
      BY <1>1
    <3>2. t[d].i \in Int /\ Pow2[TreeHeight - d] \in Nat
      BY <3>1, WayTurns, Powers
    <3> QED BY <3>2 DEF Low
  <2>7. node.I < Low(t, d)
    BY <1>1, <1>2, <2>3, <2>4, <2>5, <2>6
  <2> QED BY <1>6, <2>1, <2>4, <2>7 DEF P
<1> QED BY <1>1, <1>3, <1>7, <1>8, <1>9

(* The heights fall by one at least from node to node.                     *)
LEMMA HeightsDown ==
  ASSUME TypeOK, HeightsFall, NEW k \in 1 .. Len(store) - 1
  PROVE  store[k].H >= store[Len(store) - 1].H + (Len(store) - 1 - k)
<1> DEFINE t == Len(store)
           T == {n \in Nat : \A m \in 1 .. t - 1 : m + n = t - 1 => store[m].H >= store[t - 1].H + n}
<1>1. t \in Nat /\ \A m \in 1 .. t : store[m].H \in Nat
  BY NodeFields DEF TypeOK
<1>2. \A m \in 1 .. t - 2 : store[m].H > store[m + 1].H
  BY DEF HeightsFall
<1> HIDE DEF t
<1>3. 0 \in T
  BY <1>1
<1>4. ASSUME NEW n \in Nat, n \in T PROVE n + 1 \in T
  <2>1. ASSUME NEW m \in 1 .. t - 1, m + (n + 1) = t - 1 PROVE store[m].H >= store[t - 1].H + (n + 1)
    <3> DEFINE a == store[m].H
               b == store[m + 1].H
               c == store[t - 1].H
    <3>1. m + 1 \in 1 .. t - 1 /\ (m + 1) + n = t - 1 /\ m \in 1 .. t - 2
          /\ m \in 1 .. t /\ m + 1 \in 1 .. t /\ t - 1 \in 1 .. t
      BY <1>1, <2>1
    <3>2. b >= c + n /\ a > b
      BY <1>2, <1>4, <3>1
    <3>3. a \in Nat /\ b \in Nat /\ c \in Nat
      BY <1>1, <3>1
    <3> HIDE DEF a, b, c
    <3>4. a >= c + (n + 1)
      BY <3>2, <3>3
    <3> QED BY <3>4 DEF a, c
  <2> QED BY <2>1
<1>5. T = Nat
  <2>1. T \in SUBSET Nat
    OBVIOUS
  <2> HIDE DEF T
  <2> QED BY <1>3, <1>4, <2>1, Induction
<1>6. k \in 1 .. t - 1 /\ (t - 1) - k \in Nat /\ k + ((t - 1) - k) = t - 1 /\ t - 1 - k = (t - 1) - k
  BY <1>1 DEF t
<1>7. store[k].H >= store[t - 1].H + ((t - 1) - k)
  BY <1>5, <1>6
<1> QED BY <1>6, <1>7 DEF t

(* What is known where the next index is looked for.                       *)
Sought(t, r, d) ==
    /\ TypeOK /\ HeightsFall /\ Stacked(store) /\ Placed(store)
    /\ NextIndex(store) \in 0 .. maxIndex
    /\ Way(t, r, NextIndex(store))
    /\ Depth(t, NextIndex(store), d)

LEMMA SoughtNodes ==
  ASSUME NEW r \in Root, NEW t, NEW d, Sought(t, r, d)
  PROVE  /\ Len(store) \in Nat /\ TreeHeight \in Nat /\ d \in 0 .. TreeHeight
         /\ \A k \in 1 .. Len(store) :
               /\ store[k].H \in Nat /\ store[k].I \in Nat
               /\ Above(t, NextIndex(store), d, store[k]) \/ At(NextIndex(store), d, store[k])
               /\ Under(store, k) < store[k].I
               /\ store[k].I = Under(store, k) + Pow2[store[k].H + 1] - 1
               /\ Pow2[store[k].H + 1] \in Nat
         /\ Len(store) > 0 => NextIndex(store) = store[Len(store)].I + 1
         /\ Len(store) = 0 => NextIndex(store) = 0
<1> DEFINE N == NextIndex(store)
<1>1. store \in Seq(ElkremNode) /\ N \in 0 .. maxIndex /\ Way(t, r, N) /\ Depth(t, N, d) /\ Stacked(store)
  BY DEF Sought, TypeOK
<1>2. /\ Len(store) \in Nat
      /\ \A k \in 1 .. Len(store) : store[k].H \in Nat /\ store[k].I \in Nat
      /\ N = IF Len(store) = 0 THEN 0 ELSE store[Len(store)].I + 1
  BY <1>1, NodeFields
<1>3. TreeHeight \in Nat /\ d \in 0 .. TreeHeight
  BY <1>1, RootType DEF Depth
<1>4. ASSUME NEW k \in 1 .. Len(store) PROVE Above(t, N, d, store[k]) \/ At(N, d, store[k])
  <2>1. Placed(store) /\ N <= maxIndex
    BY <1>1, RootType DEF Sought
  <2>2. Beside(t, N, store[k])
    BY <1>1, <2>1, Zenon DEF Placed
  <2>3. store[k] \in ElkremNode
    BY <1>1
  <2> HIDE DEF N
  <2> QED BY <1>1, <2>2, <2>3, BesideWay
<1>5. \A k \in 1 .. Len(store) : Under(store, k) < store[k].I
  BY <1>1, IndexesRise
<1>6. \A k \in 1 .. Len(store) : store[k].I = Under(store, k) + Pow2[store[k].H + 1] - 1
  BY <1>1 DEF Stacked
<1>7. ASSUME NEW k \in 1 .. Len(store) PROVE Pow2[store[k].H + 1] \in Nat
  <2>1. store[k].H + 1 \in Nat
    BY <1>2
  <2> QED BY <2>1, Powers
<1>8. /\ Len(store) > 0 => N = store[Len(store)].I + 1
      /\ Len(store) = 0 => N = 0
  BY <1>2
<1>9. Len(store) \in Nat
  BY <1>2
<1>10. ASSUME NEW k \in 1 .. Len(store) PROVE store[k].H \in Nat /\ store[k].I \in Nat
  BY <1>2
<1> QED BY <1>3, <1>4, <1>5, <1>6, <1>7, <1>8, <1>9, <1>10, Zenon

(* Where the heights of the top two are equal they are the children of the *)
(* next node.                                                              *)
LEMMA ParentHere ==
  ASSUME NEW r \in Root, NEW t, NEW d, Sought(t, r, d), ParentNext(store)
  PROVE  /\ d < TreeHeight
         /\ store[Len(store)].H = TreeHeight - d - 1
         /\ store[Len(store) - 1].I = NextIndex(store) - Pow2[TreeHeight - d]
         /\ \A k \in 1 .. Len(store) - 2 : Above(t, NextIndex(store), d, store[k])
<1> DEFINE N == NextIndex(store)
           T == Len(store)
           P == Pow2[store[T].H + 1]
<1>1. T > 1 /\ store[T - 1].H = store[T].H
  BY DEF ParentNext
<1>2. /\ T \in Nat /\ TreeHeight \in Nat /\ d \in 0 .. TreeHeight
      /\ \A k \in 1 .. T : /\ store[k].H \in Nat /\ store[k].I \in Nat
                           /\ Above(t, N, d, store[k]) \/ At(N, d, store[k])
                           /\ Under(store, k) < store[k].I
      /\ N = store[T].I + 1
  BY <1>1, SoughtNodes
<1>3. T \in 1 .. T /\ T - 1 \in 1 .. T /\ T # 1
  BY <1>1, <1>2
<1>4. store[T - 1].I < store[T].I
  BY <1>2, <1>3 DEF Under
<1>5. At(N, d, store[T]) /\ At(N, d, store[T - 1])
  <2> DEFINE j == TreeHeight - 1 - store[T].H
  <2>1. ~ (Above(t, N, d, store[T]) /\ Above(t, N, d, store[T - 1]))
    <3>1. ASSUME Above(t, N, d, store[T]), Above(t, N, d, store[T - 1]) PROVE FALSE
      <4>1. store[T].I = t[j].i - P /\ store[T - 1].I = t[j].i - P
        BY <1>1, <3>1 DEF Above
      <4> QED BY <1>2, <1>3, <1>4, <4>1
    <3> QED BY <3>1
  <2>2. ~ (Above(t, N, d, store[T]) /\ At(N, d, store[T - 1]))
    BY <1>1, <1>2 DEF Above, At
  <2>3. ~ (At(N, d, store[T]) /\ Above(t, N, d, store[T - 1]))
    BY <1>1, <1>2 DEF Above, At
  <2> QED BY <1>2, <1>3, <2>1, <2>2, <2>3, Zenon
<1>6. TreeHeight - 1 - store[T].H = d /\ (store[T - 1].I = N - P \/ store[T - 1].I = N - 1)
  BY <1>1, <1>5 DEF At
<1>7. store[T].H = TreeHeight - d - 1 /\ d < TreeHeight /\ TreeHeight - d = store[T].H + 1
  <2>1. store[T].H \in Nat
    BY <1>2, <1>3
  <2> QED BY <1>2, <1>6, <2>1
<1>8. store[T - 1].I = N - P
  <2>1. store[T].I \in Nat /\ store[T - 1].I \in Nat
    BY <1>2, <1>3
  <2> HIDE DEF N, T, P
  <2> QED BY <1>2, <1>4, <1>6, <2>1
<1>9. ASSUME NEW k \in 1 .. T - 2 PROVE Above(t, N, d, store[k])
  <2>1. k \in 1 .. T - 1 /\ k \in 1 .. T
    BY <1>2
  <2>2. store[k].H >= store[T - 1].H + (T - 1 - k)
    BY <2>1, HeightsDown DEF Sought
  <2>3. store[k].H > store[T].H
    <3>1. store[k].H \in Nat /\ store[T].H \in Nat
      BY <1>2, <1>3, <2>1
    <3> HIDE DEF T
    <3> QED BY <1>1, <1>2, <2>2, <3>1
  <2>4. ~ At(N, d, store[k])
    <3>1. store[k].H \in Nat /\ store[T].H \in Nat
      BY <1>2, <1>3, <2>1
    <3> QED BY <1>2, <1>6, <2>3, <3>1 DEF At
  <2> QED BY <1>2, <2>1, <2>4
<1> QED BY <1>7, <1>8, <1>9

(* Otherwise the next node is a leaf.                                      *)
LEMMA LeafHere ==
  ASSUME NEW r \in Root, NEW t, NEW d, Sought(t, r, d), ~ ParentNext(store)
  PROVE  d = TreeHeight /\ \A k \in 1 .. Len(store) : Above(t, NextIndex(store), d, store[k])
<1> DEFINE N == NextIndex(store)
           T == Len(store)
           P == Pow2[TreeHeight - d]
<1>1. /\ T \in Nat /\ TreeHeight \in Nat /\ d \in 0 .. TreeHeight
      /\ \A k \in 1 .. T : /\ store[k].H \in Nat /\ store[k].I \in Nat
                           /\ Above(t, N, d, store[k]) \/ At(N, d, store[k])
                           /\ Under(store, k) < store[k].I
                           /\ store[k].I = Under(store, k) + Pow2[store[k].H + 1] - 1
      /\ T > 0 => N = store[T].I + 1
      /\ T = 0 => N = 0
  BY SoughtNodes
<1>2. N \in 0 .. maxIndex /\ Way(t, r, N) /\ Depth(t, N, d) /\ N \in Nat
  BY RootType DEF Sought
<1>3. Low(t, d) = N - 2 * P + 2 /\ P \in Nat
  <2>1. t[d].i = N /\ TreeHeight - d \in Nat
    BY <1>1, <1>2 DEF Depth
  <2> QED BY <2>1, Powers DEF Low
<1>4. Low(t, d) >= 0
  <2>1. 0 \in 0 .. d /\ d \in 0 .. d
    BY <1>1
  <2>2. Low(t, 0) <= Low(t, d)
    BY <1>2, <2>1, WayNarrows
  <2>3. Low(t, 0) = 0
    <3>1. t[0].i = maxIndex /\ TreeHeight - 0 = TreeHeight
      BY <1>1, <1>2, WayTurns
    <3>2. maxIndex = 2 * Pow2[TreeHeight] - 2 /\ Pow2[TreeHeight] \in Nat
      BY <1>1, RootType, Powers
    <3> QED BY <3>1, <3>2 DEF Low
  <2> HIDE DEF N, P
  <2> QED BY <1>2, <1>3, <2>2, <2>3
<1>5. d = TreeHeight
  <2> SUFFICES ASSUME d < TreeHeight PROVE FALSE
    BY <1>1
  <2>1. P >= 2
    <3>1. TreeHeight - d - 1 \in Nat /\ (TreeHeight - d - 1) + 1 = TreeHeight - d
      BY <1>1
    <3>2. P = 2 * Pow2[TreeHeight - d - 1] /\ Pow2[TreeHeight - d - 1] \in Nat /\ Pow2[TreeHeight - d - 1] > 0
      BY <3>1, Powers
    <3> HIDE DEF P
    <3> QED BY <3>2
  <2>2. T > 0 /\ T \in 1 .. T /\ N = store[T].I + 1 /\ store[T].I \in Nat
    <3> HIDE DEF P
    <3>1. T # 0
      BY <1>1, <1>3, <1>4, <2>1
    <3> QED BY <1>1, <3>1
  <2>3. At(N, d, store[T])
    <3>1. ~ Above(t, N, d, store[T])
      <4>1. Above(t, N, d, store[T]) => store[T].I < Low(t, d)
        BY DEF Above
      <4> HIDE DEF N, P, T
      <4> QED BY <1>2, <1>3, <2>1, <2>2, <4>1
    <3> QED BY <1>1, <2>2, <3>1
  <2>4. store[T].H + 1 = TreeHeight - d
    <3>1. store[T].H \in Nat
      BY <1>1, <2>2
    <3> QED BY <1>1, <2>3, <3>1 DEF At
  <2>5. Under(store, T) = N - P
    <3>1. store[T].I = Under(store, T) + P - 1 /\ Under(store, T) \in Int
      BY <1>1, <2>2, <2>4, NodeFields DEF Sought, TypeOK
    <3> HIDE DEF N, P, T
    <3> QED BY <1>2, <1>3, <2>2, <3>1
  <2>6. T - 1 \in 1 .. T /\ store[T - 1].I = N - P
    <3>1. N - P >= 0
      <4> HIDE DEF N, P
      <4> QED BY <1>2, <1>3, <1>4, <2>1
    <3>2. T # 1
      <4>1. T = 1 => Under(store, T) = -1
        BY DEF Under
      <4> HIDE DEF N, P
      <4> QED BY <2>5, <3>1, <4>1
    <3>3. Under(store, T) = store[T - 1].I
      BY <3>2 DEF Under
    <3>4. T - 1 \in 1 .. T
      <4>1. T \in Nat
        BY <1>1
      <4> HIDE DEF T
      <4> QED BY <2>2, <3>2, <4>1
    <3> QED BY <2>5, <3>3, <3>4, Zenon
  <2>7. At(N, d, store[T - 1])
    <3>1. ~ Above(t, N, d, store[T - 1])
      <4>1. Above(t, N, d, store[T - 1]) => store[T - 1].I < Low(t, d)
        BY DEF Above
      <4> HIDE DEF N, P, T
      <4> QED BY <1>2, <1>3, <2>1, <2>6, <4>1
    <3> QED BY <1>1, <2>6, <3>1
  <2>8. store[T - 1].H = store[T].H
    <3>1. store[T - 1].H \in Nat /\ store[T].H \in Nat
      BY <1>1, <2>2, <2>6
    <3> QED BY <1>1, <2>3, <2>7, <3>1 DEF At
  <2>9. T > 1
    BY <1>1, <2>6
  <2> QED BY <2>8, <2>9 DEF ParentNext
<1>6. ASSUME NEW k \in 1 .. T PROVE Above(t, N, d, store[k])
  <2>1. ~ At(N, d, store[k])
    <3>1. store[k].H \in Nat
      BY <1>1
    <3> QED BY <1>1, <1>5, <3>1 DEF At
  <2> QED BY <1>1, <2>1
<1> QED BY <1>5, <1>6

LEMMA PlacedStep ==
  ASSUME ElkInv, Placed(store), NEW elk \in Sha, NEW new,
         Leaf(store, new, elk) \/ Parent(store, new, elk)
  PROVE  Placed(new)
<1> DEFINE N == NextIndex(store)
           T == Len(store)
<1>1. store \in Seq(ElkremNode) /\ Stacked(store) /\ TypeOK /\ HeightsFall
  BY DEF ElkInv, TypeOK
<1>2. NextIndex(new) = N + 1
  BY <1>1, GrowsByOne
<1>3. N \in Nat
  BY <1>1, IndexesRise
<1> HIDE DEF N
<1> SUFFICES ASSUME NEW r \in Root, NEW u, N + 1 <= maxIndex, Way(u, r, N + 1), NEW k \in 1 .. Len(new)
             PROVE  Beside(u, N + 1, new[k])
  BY <1>2 DEF Placed
<1>4. TreeHeight \in Nat /\ maxIndex \in Nat /\ N \in 0 .. maxIndex /\ N + 1 \in 0 .. maxIndex
  BY <1>3, RootType
<1>5. PICK t : Way(t, r, N)
  BY <1>4, WayExists
<1>6. PICK d \in 0 .. TreeHeight : Depth(t, N, d)
  BY <1>4, <1>5, WayEnds
<1>7. Sought(t, r, d)
  BY <1>1, <1>4, <1>5, <1>6 DEF Sought, N
<1> DEFINE j == d - 1
<1>8. j \in 0 .. d - 1 /\ j \in 0 .. d /\ j \in 0 .. TreeHeight /\ j + 1 = d
  <2>1. t[0].i = maxIndex /\ t[d].i = N
    BY <1>4, <1>5, <1>6, WayTurns DEF Depth
  <2>2. d # 0
    BY <1>4, <2>1
  <2> QED BY <1>4, <2>2
<1>9. t[j].i \in Int /\ t[j].i > N /\ t[j].i >= N + 1 /\ Low(t, j) \in Int /\ Low(t, j) <= N
  <2>1. t[j].i \in Int /\ t[j].i > N /\ Low(t, j) = t[j].i - 2 * Pow2[TreeHeight - j] + 2
        /\ Pow2[TreeHeight - j] \in Nat
    BY <1>4, <1>5, <1>6, <1>8, WayBranches
  <2>2. t[j].i # N => Low(t, j) <= N
    BY <1>4, <1>5, <1>8, WayHolds
  <2> HIDE DEF j
  <2> QED BY <1>3, <2>1, <2>2
<1>10. \A l \in 0 .. j : u[l].i = t[l].i
  <2>1. Low(t, j) <= N + 1 /\ N + 1 <= t[j].i
    BY <1>3, <1>9
  <2> HIDE DEF j
  <2> QED BY <1>4, <1>5, <1>6, <1>8, <2>1, WaysAgree
<1>11. ASSUME NEW m \in 0 .. j - 1 PROVE t[m].i > N + 1 /\ u[m].i # N + 1
  <2>1. m \in 0 .. d - 1 /\ m + 1 \in 0 .. d /\ j \in m + 1 .. d /\ m \in 0 .. j
    BY <1>8
  <2>2. t[j].i <= t[m + 1].i
    BY <1>4, <1>5, <1>6, <2>1, WayNarrows
  <2> DEFINE P == Pow2[TreeHeight - m]
  <2>3. /\ t[m].i \in Int /\ P \in Nat /\ P >= 2
        /\ N <= t[m].i - P => t[m + 1].i = t[m].i - P
        /\ N > t[m].i - P => t[m + 1].i = t[m].i - 1
    BY SMTT(20), <1>4, <1>5, <1>6, <2>1, WayBranches
  <2> HIDE DEF P, j
  <2>4. t[m + 1].i < t[m].i /\ t[m + 1].i \in Int
    <3>1. N \in Int BY <1>3
    <3>2. CASE N <= t[m].i - P BY <2>3, <3>2
    <3>3. CASE N > t[m].i - P BY <2>3, <3>3
    <3>4. t[m].i - P \in Int BY <2>3
    <3> QED BY <3>1, <3>2, <3>3, <3>4
  <2>5. t[m].i > N + 1
    <3>1. t[j].i \in Int /\ t[j].i >= N + 1 /\ t[m].i \in Int
      BY <1>9, <2>3
    <3> QED BY <1>3, <2>2, <2>4, <3>1
  <2>6. u[m].i = t[m].i
    BY <1>10, <2>1
  <2> QED BY <1>3, <2>3, <2>5, <2>6
<1>12. ASSUME NEW node \in ElkremNode, Above(t, N, d, node) PROVE Beside(u, N + 1, node)
  <2> DEFINE l == TreeHeight - 1 - node.H
             P == Pow2[node.H + 1]
  <2>1. l \in 0 .. d - 1 /\ node.I = t[l].i - P /\ node.I < N /\ node.I \in Nat
    BY <1>12 DEF Above, ElkremNode
  <2>2. l \in 0 .. j /\ l >= 0 /\ 0 .. l - 1 \subseteq 0 .. j - 1
    <3> HIDE DEF l
    <3> QED BY <1>8, <2>1
  <2>3. node.I = u[l].i - P /\ node.I < N + 1
    BY <1>3, <1>10, <2>1, <2>2
  <2>4. \A m \in 0 .. l - 1 : u[m].i # N + 1
    <3> HIDE DEF l, j
    <3> QED BY <1>11, <2>2
  <2> QED BY <2>2, <2>3, <2>4 DEF Beside
<1>13. ASSUME NEW node \in ElkremNode, node.H = TreeHeight - d, node.I = N PROVE Beside(u, N + 1, node)
  <2> DEFINE P == Pow2[node.H + 1]
  <2>1. node.H + 1 = TreeHeight - j /\ TreeHeight - 1 - node.H = j
    BY <1>4, <1>8, <1>13
  <2>2. t[d].i = N
    BY <1>6 DEF Depth
  <2>3. /\ t[j].i \in Int /\ P \in Nat
        /\ N <= t[j].i - P => t[d].i = t[j].i - P
        /\ N > t[j].i - P => t[d].i = t[j].i - 1
    BY SMTT(20), <1>4, <1>5, <1>6, <1>8, <2>1, WayBranches
  <2>4. u[j].i = t[j].i
    BY <1>8, <1>10
  <2> HIDE DEF P, j
  <2>5. \/ node.I = u[j].i - P /\ node.I < N + 1
        \/ node.I = u[j].i - 1 /\ N + 1 = u[j].i
    BY <1>3, <1>13, <2>2, <2>3, <2>4
  <2>6. j >= 0 /\ \A m \in 0 .. j - 1 : u[m].i # N + 1
    BY <1>8, <1>11
  <2> QED BY <2>1, <2>5, <2>6 DEF Beside, P
<1>14. T \in Nat /\ \A m \in 1 .. T : store[m] \in ElkremNode
  BY <1>1
<1>15. CASE Leaf(store, new, elk)
  <2>1. /\ ~ ParentNext(store) /\ new \in Seq(ElkremNode) /\ Len(new) = T + 1
        /\ \A m \in 1 .. T : new[m] = store[m]
        /\ new[T + 1].H = 0 /\ new[T + 1].I = N
    BY <1>15 DEF Leaf, N
  <2>2. d = TreeHeight /\ \A m \in 1 .. T : Above(t, N, d, store[m])
    BY <1>7, <2>1, LeafHere DEF N
  <2>3. new[k] \in ElkremNode
    BY <2>1
  <2>4. CASE k = T + 1
    BY <1>4, <1>13, <2>1, <2>2, <2>3, <2>4
  <2>5. CASE k # T + 1
    <3>1. k \in 1 .. T
      BY <1>14, <2>1, <2>5
    <3> QED BY <1>12, <1>14, <2>1, <2>2, <3>1
  <2> QED BY <2>4, <2>5
<1>16. CASE Parent(store, new, elk)
  <2>1. /\ ParentNext(store) /\ new \in Seq(ElkremNode) /\ Len(new) = T - 1 /\ T > 1
        /\ \A m \in 1 .. T - 2 : new[m] = store[m]
        /\ new[T - 1].H = store[T].H + 1 /\ new[T - 1].I = N
    BY <1>16 DEF Parent, N, ParentNext
  <2>2. /\ store[T].H = TreeHeight - d - 1
        /\ \A m \in 1 .. T - 2 : Above(t, N, d, store[m])
    BY <1>7, <2>1, ParentHere DEF N
  <2>3. new[k] \in ElkremNode
    BY <2>1
  <2>4. CASE k = T - 1
    <3>1. new[k].H = TreeHeight - d /\ new[k].I = N
      <4>1. new[k].H = (TreeHeight - d - 1) + 1 /\ new[k].I = N
        BY <2>1, <2>2, <2>4
      <4> QED BY <1>4, <4>1
    <3> QED BY <1>13, <2>3, <3>1
  <2>5. CASE k # T - 1
    <3>1. k \in 1 .. T - 2 /\ k \in 1 .. T
      BY <1>14, <2>1, <2>5
    <3> QED BY <1>12, <1>14, <2>1, <2>2, <3>1
  <2> QED BY <2>4, <2>5
<1> QED BY <1>15, <1>16

(* The hashes of a node's children are the children of its hash.           *)
LEMMA LeftOfSender ==
  ASSUME NEW r \in Root, NEW w \in 0 .. maxIndex, NEW t, Way(t, r, w),
         NEW d, Depth(t, w, d), d < TreeHeight
  PROVE  /\ w - Pow2[TreeHeight - d] \in 0 .. maxIndex
         /\ SenderAtIndex(r, w - Pow2[TreeHeight - d]) = LeftSha(t[d].sha)
         /\ w - 1 \in 0 .. maxIndex
         /\ SenderAtIndex(r, w - 1) = RightSha(t[d].sha)
<1> DEFINE P == Pow2[TreeHeight - d]
<1>1. /\ TreeHeight \in Nat /\ d \in 0 .. TreeHeight - 1 /\ d \in 0 .. TreeHeight /\ w \in Int /\ t[d].i = w
      /\ maxIndex \in Nat /\ d \in 0 .. d /\ 0 \in 0 .. d /\ d + 1 \in 0 .. TreeHeight
  BY RootType DEF Depth
<1>2. P \in Nat /\ P >= 2
  <2>1. TreeHeight - d - 1 \in Nat /\ (TreeHeight - d - 1) + 1 = TreeHeight - d
    BY <1>1
  <2>2. P = 2 * Pow2[TreeHeight - d - 1] /\ Pow2[TreeHeight - d - 1] \in Nat /\ Pow2[TreeHeight - d - 1] > 0
    BY <2>1, Powers
  <2> HIDE DEF P
  <2> QED BY <2>2
<1>3. Low(t, d) = w - 2 * P + 2
  BY <1>1 DEF Low
<1>4. Low(t, d) >= 0
  <2>1. Low(t, 0) <= Low(t, d)
    BY <1>1, WayNarrows
  <2>2. Low(t, 0) = 0
    <3>1. t[0].i = maxIndex /\ TreeHeight - 0 = TreeHeight
      BY <1>1, WayTurns
    <3>2. maxIndex = 2 * Pow2[TreeHeight] - 2 /\ Pow2[TreeHeight] \in Nat
      BY <1>1, RootType, Powers
    <3> QED BY <3>1, <3>2 DEF Low
  <2> HIDE DEF P
  <2> QED BY <1>1, <1>2, <1>3, <2>1, <2>2
<1> HIDE DEF P
<1>5. ASSUME NEW v \in 0 .. maxIndex, Low(t, d) <= v, v < w, NEW u, Way(u, r, v)
      PROVE  /\ v = w - P => u[TreeHeight + 1].sha = LeftSha(t[d].sha)
             /\ v = w - 1 => u[TreeHeight + 1].sha = RightSha(t[d].sha)
  <2>1. v \in Int /\ v <= t[d].i
    BY <1>1, <1>5
  <2>2. u[d].i = w /\ u[d].sha = t[d].sha
    <3>1. \A k \in 0 .. d : u[k].i = t[k].i /\ u[k].sha = t[k].sha
      BY <1>1, <1>5, <2>1, WaysAgree
    <3> QED BY <1>1, <3>1
  <2>3. Turn(u, v, d)
    BY <1>1, <1>5, WayTurns
  <2>4. /\ v = w - P => u[d + 1].i = v /\ u[d + 1].sha = LeftSha(t[d].sha)
        /\ v = w - 1 => u[d + 1].i = v /\ u[d + 1].sha = RightSha(t[d].sha)
    <3>1. /\ v <= w - P => u[d + 1].i = w - P /\ u[d + 1].sha = LeftSha(t[d].sha)
          /\ v > w - P => u[d + 1].i = w - 1 /\ u[d + 1].sha = RightSha(t[d].sha)
      BY <1>1, <1>5, <2>1, <2>2, <2>3 DEF Turn, P
    <3>2. /\ v = w - P => v <= w - P
          /\ v = w - 1 => v > w - P
      BY <1>1, <1>2, <2>1
    <3> QED BY <3>1, <3>2
  <2>5. PICK e \in 0 .. TreeHeight : Depth(u, v, e) /\ u[TreeHeight + 1].sha = u[e].sha
    BY <1>5, WayEnds
  <2>6. u[d + 1].i = v => e = d + 1
    <3>1. d + 1 <= e
      <4>1. ASSUME e < d + 1 PROVE FALSE
        <5>1. e \in 0 .. d /\ e \in 0 .. TreeHeight + 1
          BY <1>1, <4>1
        <5>2. u[e].i = t[e].i /\ u[e].i = v
          BY SMTT(20), <1>1, <1>5, <2>1, <2>5, <5>1, WaysAgree DEF Depth
        <5>3. t[d].i <= t[e].i
          BY <1>1, <5>1, WayNarrows
        <5> QED BY <1>1, <1>5, <2>1, <5>2, <5>3
      <4> QED BY <1>1, <4>1
    <3>2. u[d + 1].i = v => ~ (d + 1 < e)
      <4>1. ASSUME d + 1 < e PROVE u[d + 1].i > v
        <5>1. d + 1 \in 0 .. e - 1
          BY <1>1, <4>1
        <5> QED BY <2>5, <5>1 DEF Depth
      <4> QED BY <2>1, <4>1
    <3> QED BY <1>1, <3>1, <3>2
  <2> QED BY <2>4, <2>5, <2>6
<1>6. ASSUME NEW v \in 0 .. maxIndex, Low(t, d) <= v, v < w
      PROVE  /\ v = w - P => SenderAtIndex(r, v) = LeftSha(t[d].sha)
             /\ v = w - 1 => SenderAtIndex(r, v) = RightSha(t[d].sha)
  <2>1. PICK u : Way(u, r, v) /\ SenderAtIndex(r, v) = u[TreeHeight + 1].sha
    BY <1>6, WayExists
  <2> QED BY <1>5, <1>6, <2>1
<1>7. /\ w - P \in 0 .. maxIndex /\ Low(t, d) <= w - P /\ w - P < w
      /\ w - 1 \in 0 .. maxIndex /\ Low(t, d) <= w - 1 /\ w - 1 < w
  BY <1>1, <1>2, <1>3, <1>4
<1> QED BY <1>6, <1>7 DEF P

(* A stored node is the one its own hash was given for.                    *)
LEMMA NodeGiven ==
  ASSUME ElkInv, NEW k \in 1 .. Len(store)
  PROVE  store[k].I \in DOMAIN given /\ store[k].Sha = given[store[k].I]
<1> DEFINE n == store[k]
<1>1. store \in Seq(ElkremNode) /\ Stacked(store) /\ Makes(store, k, given)
  BY DEF ElkInv, TypeOK
<1>2. n.I \in Nat /\ n.H \in Nat /\ n.Sha \in Sha
  BY <1>1, NodeFields
<1>3. Under(store, k) < n.I /\ n.I < NextIndex(store) /\ NextIndex(store) \in Nat
  BY <1>1, IndexesRise
<1>4. n.I \in DOMAIN given
  <2>1. DOMAIN given = 0 .. NextIndex(store) - 1
    BY DEF ElkInv, Indexed
  <2> HIDE DEF n
  <2> QED BY <1>2, <1>3, <2>1
<1>5. Descend(n.I, n.I, n.H, n.Sha) = [i |-> n.I, sha |-> given[n.I]]
  <2>1. n.I <= n.I
    BY <1>2
  <2> QED BY <1>1, <1>3, <1>4, <2>1 DEF Makes
<1>6. Descend(n.I, n.I, n.H, n.Sha) = [i |-> n.I, sha |-> n.Sha]
  BY <1>2, DescendStays
<1> QED BY <1>4, <1>5, <1>6

(* A hash of the root that all the others came from is accepted.           *)
LEMMA PlacedAccepts == ElkInv /\ Placed(store) => HonestAccepted
<1> DEFINE N == NextIndex(store)
           T == Len(store)
<1> SUFFICES ASSUME ElkInv, Placed(store), NEW r \in Root,
                    \A w \in DOMAIN given : given[w] = SenderAtIndex(r, w),
                    Cardinality(DOMAIN given) <= maxIndex
             PROVE  LET elk == SenderAtIndex(r, Cardinality(DOMAIN given))
                    IN Readable(store) /\ Fits(store, elk) /\ Writable(AddNext(store, elk))
  BY DEF HonestAccepted
<1>1. store \in Seq(ElkremNode) /\ Stacked(store) /\ TypeOK /\ HeightsFall
      /\ DOMAIN given = 0 .. N - 1
  BY DEF ElkInv, TypeOK, Indexed
<1>2. N \in Nat /\ T \in Nat
  BY <1>1, IndexesRise
<1>3. Cardinality(DOMAIN given) = N
  <2> HIDE DEF N
  <2>1. Cardinality(0 .. N - 1) = N
    <3>1. 0 \in Int /\ N - 1 \in Int
      BY <1>2
    <3>2. Cardinality(0 .. N - 1) = IF 0 > N - 1 THEN 0 ELSE (N - 1) - 0 + 1
      BY <3>1, FS_Interval, Zenon
    <3> QED BY <1>2, <3>2
  <2> QED BY <1>1, <2>1
<1>4. N \in 0 .. maxIndex /\ TreeHeight \in Nat /\ maxIndex \in Nat
  <2> HIDE DEF N
  <2> QED BY <1>2, <1>3, RootType
<1> DEFINE elk == SenderAtIndex(r, N)
<1>5. PICK t : Way(t, r, N) /\ elk = t[TreeHeight + 1].sha
  BY <1>4, WayExists
<1>6. PICK d \in 0 .. TreeHeight : Depth(t, N, d) /\ t[TreeHeight + 1].sha = t[d].sha
  BY <1>4, <1>5, WayEnds
<1>7. Sought(t, r, d)
  BY <1>1, <1>4, <1>5, <1>6 DEF Sought
<1>8. elk \in Revealed
  BY <1>4 DEF Revealed
<1> HIDE DEF N, elk, T
<1>9. \A k \in 1 .. T : /\ store[k].H \in Nat /\ store[k].I \in Nat
                        /\ store[k].H <= TreeHeight - 1 /\ store[k].I <= maxIndex
  <2> SUFFICES ASSUME NEW k \in 1 .. T
               PROVE  /\ store[k].H \in Nat /\ store[k].I \in Nat
                      /\ store[k].H <= TreeHeight - 1 /\ store[k].I <= maxIndex
    OBVIOUS
  <2>1. store[k].H \in Nat /\ store[k].I \in Nat
    BY <1>1, NodeFields DEF T
  <2>2. store[k].I < N
    BY <1>1, IndexesRise DEF N, T
  <2>3. Beside(t, N, store[k])
    <3>1. N <= maxIndex
      BY <1>4
    <3> QED BY <1>5, <3>1, Zenon DEF Placed, N, T
  <2>4. TreeHeight - 1 - store[k].H >= 0
    BY <2>3 DEF Beside
  <2> QED BY <1>4, <2>1, <2>2, <2>4
<1>10. T <= TreeHeight + 1 /\ (~ ParentNext(store) => T <= TreeHeight)
  <2>1. CASE T = 0
    BY <1>4, <2>1
  <2>2. CASE T = 1
    <3>1. 1 \in 1 .. T
      BY <2>2
    <3>2. store[1].H \in Nat /\ store[1].H <= TreeHeight - 1
      BY <1>9, <3>1
    <3> QED BY <1>4, <2>2, <3>2
  <2>3. CASE T > 1
    <3>1. 1 \in 1 .. T - 1 /\ T - 1 \in 1 .. T - 1 /\ 1 \in 1 .. T /\ T - 1 \in 1 .. T /\ T \in 1 .. T
      BY <1>2, <2>3
    <3>2. store[1].H >= store[T - 1].H + (T - 1 - 1)
      BY <1>1, <3>1, HeightsDown DEF T
    <3>3. store[1].H <= TreeHeight - 1 /\ store[1].H \in Nat /\ store[T - 1].H \in Nat /\ store[T].H \in Nat
      BY <1>9, <3>1
    <3>4. ~ ParentNext(store) => store[T - 1].H > store[T].H
      <4>1. store[T - 1].H >= store[(T - 1) + 1].H /\ (T - 1) + 1 = T
        BY <1>1, <1>2, <3>1 DEF HeightsFall, T
      <4>2. ~ ParentNext(store) => store[T - 1].H # store[T].H
        BY <2>3 DEF ParentNext, T
      <4> QED BY <3>3, <4>1, <4>2
    <3> QED BY <1>2, <1>4, <3>2, <3>3, <3>4
  <2> QED BY <1>2, <2>1, <2>2, <2>3
<1>11. Readable(store)
  <2>1. ASSUME NEW k \in 2 .. T PROVE store[k - 1].H >= store[k].H
    <3>1. k - 1 \in 1 .. T - 1 /\ (k - 1) + 1 = k
      BY <1>2, <2>1
    <3> QED BY <1>1, <3>1 DEF HeightsFall, T
  <2>2. \A k \in 1 .. T : store[k].H <= TreeHeight /\ store[k].I <= maxIndex
    BY <1>4, <1>9
  <2> QED BY <1>10, <2>1, <2>2 DEF Readable, T
<1>12. Fits(store, elk)
  <2> SUFFICES ASSUME ParentNext(store)
               PROVE  LeftSha(elk) = store[T - 1].Sha /\ RightSha(elk) = store[T].Sha
    BY DEF Fits, T
  <2>1. T > 1 /\ T \in 1 .. T /\ T - 1 \in 1 .. T
    BY <1>2 DEF ParentNext, T
  <2>2. d < TreeHeight /\ store[T - 1].I = N - Pow2[TreeHeight - d]
    BY <1>7, ParentHere DEF N, T
  <2>3. store[T].I = N - 1
    <3>1. N = store[T].I + 1 /\ store[T].I \in Nat
      BY <1>1, <2>1, NodeFields DEF N, T
    <3> QED BY <3>1
  <2>4. /\ SenderAtIndex(r, N - Pow2[TreeHeight - d]) = LeftSha(t[d].sha)
        /\ SenderAtIndex(r, N - 1) = RightSha(t[d].sha)
    BY <1>4, <1>5, <1>6, <2>2, LeftOfSender
  <2>5. /\ store[T - 1].I \in DOMAIN given /\ store[T - 1].Sha = given[store[T - 1].I]
        /\ store[T].I \in DOMAIN given /\ store[T].Sha = given[store[T].I]
    BY <2>1, NodeGiven DEF T
  <2>6. store[T - 1].Sha = SenderAtIndex(r, store[T - 1].I) /\ store[T].Sha = SenderAtIndex(r, store[T].I)
    BY <2>5
  <2> QED BY <1>5, <1>6, <2>2, <2>3, <2>4, <2>6
<1>13. Writable(AddNext(store, elk))
  <2>1. CASE ParentNext(store)
    <3>1. Len(AddNext(store, elk)) = T - 1
      BY <1>1, <1>8, <2>1, AddNextParent DEF T
    <3> QED BY <1>2, <1>4, <1>10, <3>1 DEF Writable
  <2>2. CASE ~ ParentNext(store)
    <3>1. Len(AddNext(store, elk)) = T + 1
      BY <1>1, <1>8, <2>2, AddNextLeaf DEF T
    <3> QED BY <1>2, <1>4, <1>10, <2>2, <3>1 DEF Writable
  <2> QED BY <2>1, <2>2
<1> QED BY <1>3, <1>11, <1>12, <1>13 DEF elk

LEMMA InitPlaced == Init => Placed(store)
<1>1. Init => store = <<>>
  BY DEF Init
<1>2. store = <<>> => 1 .. Len(store) = {}
  OBVIOUS
<1> QED BY <1>1, <1>2 DEF Placed

LEMMA StepPlaced == ElkInv /\ Placed(store) /\ [Next]_vars => Placed(store)'
<1> SUFFICES ASSUME ElkInv, Placed(store), [Next]_vars PROVE Placed(store')
  BY DEF Placed, Way, Turns, Beside
<1>1. CASE UNCHANGED vars
  BY <1>1 DEF vars
<1>2. CASE Next
  <2>1. PICK elk \in Revealed : UpdateChannel([Elk |-> elk, ParTxid |-> Cardinality(DOMAIN given)])
    BY <1>2 DEF Next
  <2>2. store \in Seq(ElkremNode) /\ elk \in Sha
    BY RevealedType DEF ElkInv, TypeOK
  <2>3. Fits(store, elk) /\ store' = AddNext(store, elk)
    BY <2>1 DEF UpdateChannel
  <2>4. Leaf(store, store', elk) \/ Parent(store, store', elk)
    BY <2>2, <2>3, Grows
  <2> QED BY <2>2, <2>4, PlacedStep
<1> QED BY <1>1, <1>2

-----------------------------------------------------------------------------
(* The stored receiver.                                                    *)

LEMMA ElkInvariance == Spec => []ElkInv
<1> QED
  BY InitElk, StepElk, PTL DEF Spec

(* In every reachable state, for every tree height, the heights in the     *)
(* stored stack fall, the top two alone being allowed to be equal: the     *)
(* descending check of ElkremReceiverFromBytes never refuses what AddNext  *)
(* left.                                                                   *)
THEOREM HeightsAlwaysFall == Spec => [](TypeOK /\ HeightsFall)
<1>1. ElkInv => TypeOK /\ HeightsFall
  BY DEF ElkInv
<1> QED
  BY <1>1, ElkInvariance, PTL

-----------------------------------------------------------------------------
(* The tower.                                                              *)

LEMMA InitTower == TInit => Init
  BY DEF TInit

(* Of all that tower and customer do, UpdateChannel alone touches the      *)
(* receiver.                                                               *)
LEMMA TowerSteps == [TNext]_tvars => [Next]_vars
  BY DEF TNext, tvars, NewChannel, Update, BlockHandler, Revoked, SyncWatch, Restart

(* The hash for every state number the tower saved can be made from the    *)
(* nodes its receiver kept, and is the one that came with the number: the  *)
(* hashes AddNext throws away when it finds a parent are the parent's to   *)
(* make (AddNext in elkrem.go, UpdateChannel in watchdb.go).               *)
THEOREM NothingIsLost == TSpec => []Recoverable
<1> QED
  BY InitTower, TowerSteps, InitElk, StepElk, ElkRecovers, PTL DEF TSpec

(* A sender that keeps to one root is never refused: AddNext finds each of *)
(* its hashes fitting, to the last index of the tree, and the receiver can *)
(* be written and read back (AddNext in elkrem.go, ToBytes and             *)
(* ElkremReceiverFromBytes in serdes.go).                                  *)
THEOREM HonestIsAccepted == TSpec => []HonestAccepted
<1> QED
  BY InitTower, TowerSteps, InitElk, StepElk, InitPlaced, StepPlaced, PlacedAccepts, PTL DEF TSpec

(* The tower has sent a justice transaction out for every watched          *)
(* transaction that was mined and has the output its description and hash  *)
(* make: BuildJusticeTx does not fail for the txid of such a one, whatever *)
(* any customer sent.  BlockHandler goes on with the nil result of a       *)
(* BuildJusticeTx that failed, and panics, only for the txid of a          *)
(* transaction without such an output.                                     *)
THEOREM RevokedArePunished == TSpec => []JusticeServed
<1> DEFINE Watched == chase \subseteq mined /\ mined \subseteq DOMAIN txids
<1>1. TInit => JusticeServed /\ Watched
  BY DEF TInit, JusticeServed
<1>2. Recoverable /\ JusticeServed /\ Watched /\ [TNext]_tvars => JusticeServed' /\ Watched'
  <2> SUFFICES ASSUME Recoverable, JusticeServed, Watched, [TNext]_tvars
               PROVE  JusticeServed' /\ Watched'
    OBVIOUS
  <2>1. CASE UNCHANGED tvars
    BY <2>1 DEF tvars, vars, JusticeServed
  <2>2. CASE NewChannel
    BY <2>2 DEF NewChannel, vars, JusticeServed
  <2>3. CASE Update
    <3>1. mined = {} /\ UNCHANGED <<mined, chase, pool, down>>
      BY <2>3 DEF Update
    <3> QED BY <3>1 DEF JusticeServed
  <2>4. ASSUME NEW t \in DOMAIN txids, BlockHandler(t) PROVE JusticeServed' /\ Watched'
    <3>1. t \notin mined /\ mined' = mined \cup {t} /\ txids' = txids
      BY <2>4 DEF BlockHandler, vars
    <3>2. PICK outs \in {{given[t]}, {}} :
            /\ chase' = IF outs = {} THEN chase \cup {t} ELSE chase
            /\ pool' = IF BuildJusticeTx(t, outs) THEN pool \cup {t} ELSE pool
            /\ down' = IF BuildJusticeTx(t, outs) THEN down ELSE down \cup {"tower"}
      BY <2>4, Zenon DEF BlockHandler
    <3>3. BuildJusticeTx(t, outs) <=> outs # {}
      BY <3>2 DEF Recoverable, BuildJusticeTx
    <3>4. CASE outs = {}
      BY <3>1, <3>2, <3>3, <3>4 DEF JusticeServed
    <3>5. CASE outs # {}
      BY <3>1, <3>2, <3>3, <3>5 DEF JusticeServed
    <3> QED BY <3>4, <3>5
  <2>5. CASE Revoked
    BY <2>5 DEF Revoked, vars, JusticeServed
  <2>6. CASE SyncWatch
    <3>1. UNCHANGED <<txids, mined, chase, pool>> /\ (down' = down \/ down' = down \cup {"customer"})
      BY <2>6 DEF SyncWatch, vars
    <3> QED BY <3>1 DEF JusticeServed
  <2>7. CASE Restart
    BY <2>7 DEF Restart, vars, JusticeServed
  <2> QED BY <2>1, <2>2, <2>3, <2>4, <2>5, <2>6, <2>7 DEF TNext
<1> QED
  BY <1>1, <1>2, NothingIsLost, PTL DEF TSpec

=============================================================================
