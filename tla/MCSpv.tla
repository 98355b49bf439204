------------------------------- MODULE MCSpv -------------------------------
(* The instance of Spv that TLC checks: one payment to the wallet, which may  *)
(* spend it.                                                                 *)
EXTENDS Spv

MCPayments == { [n |-> 0, ins |-> {}, outs |-> <<Me>>] }
============================================================================
