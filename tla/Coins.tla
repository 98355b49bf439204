------------------------------- MODULE Coins -------------------------------
(***************************************************************************)
(* PickUtxos (wallit/signsend.go): which of the coins that are not frozen  *)
(* a transaction spends.  A coin is [value, height, seq, mode]; height 0   *)
(* is unconfirmed, seq the blocks it stays locked.                         *)
(***************************************************************************)
EXTENDS Integers, Sequences

FeePerByte == 1
FeeGuess == FeePerByte * 10000      \* consts.MaxTxCount
FirstHeight == 100                  \* no confirmed coin is lower

EstSize(u) == CASE u.mode = "p2pkh" -> 144 [] u.mode = "p2wpkh" -> 66 [] u.mode = "p2wsh" -> 76

Mature(u, curHeight) ==
    ~(u.seq > 1 /\ (u.height < FirstHeight \/ u.height + u.seq > curHeight))

(* TxoSliceByAmt, reversed: the largest first, the unconfirmed last.       *)
Before(a, b) == \/ a.height > 0 /\ b.height = 0
                \/ (a.height = 0) = (b.height = 0) /\ a.value > b.value
Orders(U) ==
    LET n == Len(U)
    IN {[i \in 1 .. n |-> U[f[i]]] : f \in {p \in [1 .. n -> 1 .. n] :
           /\ \A i, j \in 1 .. n : i # j => p[i] # p[j]
           /\ \A i \in 1 .. n - 1 : ~Before(U[p[i + 1]], U[p[i]])}}

FitsUse(u, ow) == ow => u.mode # "p2pkh"

(* The first coin is more than is needed, as the next ones would do.       *)
RECURSIVE DropLarge(_, _, _)
DropLarge(us, amt, ow) ==
    IF /\ Len(us) > 1 /\ us[2].value > amt + FeeGuess
       /\ us[2].height > FirstHeight /\ FitsUse(us[2], ow)
    THEN DropLarge(Tail(us), amt, ow) ELSE us
RECURSIVE DropForTwo(_, _, _, _)
DropForTwo(us, amt, ow, curHeight) ==
    IF /\ Len(us) > 2 /\ us[3].height > FirstHeight
       /\ Mature(us[2], curHeight) /\ Mature(us[3], curHeight)
       /\ us[2].value + us[3].value > amt + FeeGuess
       /\ FitsUse(us[2], ow) /\ FitsUse(us[3], ow)
    THEN DropForTwo(Tail(us), amt, ow, curHeight) ELSE us

RECURSIVE SizeOfAll(_)
SizeOfAll(us) == IF us = <<>> THEN 0 ELSE EstSize(Head(us)) + SizeOfAll(Tail(us))
RECURSIVE ValueOfAll(_)
ValueOfAll(us) == IF us = <<>> THEN 0 ELSE Head(us).value + ValueOfAll(Tail(us))

EstFee(us, outputByteSize) == (40 + outputByteSize + SizeOfAll(us)) * FeePerByte

(* Mutant: the fee is estimated before the coin is added.                  *)
PickStep_FeeBefore(s, u, out) ==
    LET left == s.remaining - u.value
        paid == IF left <= 0 THEN left + EstFee(s.picked, out) ELSE left
    IN [picked |-> Append(s.picked, u), remaining |-> paid,
        done |-> left <= 0 /\ paid < - EstFee(s.picked, out)]

(* One coin more; the fee is charged in every round that has enough.       *)
PickStep(s, u, out) ==
    LET picked == Append(s.picked, u)
        left == s.remaining - u.value
        fee == EstFee(picked, out)
        paid == IF left <= 0 THEN left + fee ELSE left
    IN [picked |-> picked, remaining |-> paid, done |-> left <= 0 /\ paid < - fee]

RECURSIVE PickRest(_, _, _, _, _)
PickRest(s, us, out, ow, curHeight) ==
    IF s.done \/ us = <<>> THEN s
    ELSE PickRest(IF Mature(us[1], curHeight) /\ FitsUse(us[1], ow) /\ us[1].value >= 1
                  THEN PickStep(s, us[1], out) ELSE s, Tail(us), out, ow, curHeight)

PickUtxos(sorted, amt, out, ow, curHeight) ==
    PickRest([picked |-> <<>>, remaining |-> amt, done |-> FALSE],
             DropForTwo(DropLarge(sorted, amt, ow), amt, ow, curHeight), out, ow, curHeight)

=============================================================================
