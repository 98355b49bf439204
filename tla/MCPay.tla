------------------------------- MODULE MCPay -------------------------------
(* Pay with a second channel that can carry one payment only.              *)
EXTENDS Pay

MCCapacity == <<4, 3>>

=============================================================================
