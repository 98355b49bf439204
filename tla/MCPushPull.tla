----------------------------- MODULE MCPushPull -----------------------------
(***************************************************************************)
(* Instances of PushPull for TLC.  The channel holds 20, an output at      *)
(* least 2 and a fee of 1.  Both sides can pay 3 and 6, so that such pushes *)
(* collide, and a push of 9 leaves the payer less than an output; with all *)
(* the money on one side, a push of 2 leaves the other less than one.      *)
(***************************************************************************)
EXTENDS PushPull

=============================================================================
