---------------------------- MODULE MCHtlcChannel ----------------------------
(***************************************************************************)
(* Instances of HtlcChannel for TLC.                                       *)
(***************************************************************************)
EXTENDS HtlcChannel

(* An order of the HTLC bases in which either side may come first.         *)
MCAbove == {p \in (0 .. 9) \X (0 .. 9) : (p[1] + p[2]) % 2 = 0}

=============================================================================
