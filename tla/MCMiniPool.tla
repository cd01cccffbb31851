----------------------------- MODULE MCMiniPool -----------------------------
(* A small instance of the pool, its vault and what is shown of them. *)
EXTENDS Previews, TLC

CONSTANTS alice, liq, Stake, Purse

EndowAlice == [a \in Accounts |-> IF a = alice THEN Stake ELSE 0]
CashLiquidator == [a \in Accounts |-> IF a = liq THEN Purse ELSE 0]
=============================================================================
