------------------------------- MODULE MCDlc -------------------------------
(* The instance of Dlc that TLC checks: stakes of 14 and 16 and a range of   *)
(* 22 steps in either direction, of which float64 divides the middle one so  *)
(* that 15 becomes 14; two coins for B and one for A.                        *)
EXTENDS Dlc

MCFundings == {<<14, 16>>, <<0, 0>>}
MCRanges == {<<22, 0>>, <<1, 23>>}
MCBelow == {<<30, 22, 11>>}
MCCoins == [n \in {"A", "B"} |-> IF n = "A" THEN {<<1, 17>>} ELSE {<<2, 19>>, <<3, 17>>}]
============================================================================
