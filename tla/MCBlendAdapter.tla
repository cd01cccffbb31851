--------------------------- MODULE MCBlendAdapter ---------------------------
(* A small instance of the Blend adapter over the vault and its feed. *)
EXTENDS BlendAdapter, TLC

CONSTANT alice

EndowAlice == [a \in Accounts |-> IF a = alice THEN 2 ELSE 0]
=============================================================================
