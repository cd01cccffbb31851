------------------------------ MODULE MCVault ------------------------------
(***************************************************************************)
(* Small instances of Vault for TLC.  MCVault_money.cfg fixes one admin,   *)
(* one adapter and no allowances, and explores deposits, withdrawals,      *)
(* transfers, rebases, fees and NAV moves.                                 *)
(***************************************************************************)
EXTENDS Vault, TLC

CONSTANTS alice, bob

SF == INSTANCE Functions

\* Total agrees with the community modules' recursive sum
ASSUME TotalIsSum ==
  \A f \in [{"a", "b", "c"} -> 0..3] : Total(f) = SF!SumFunction(f)

EndowBoth == [a \in Accounts |-> IF a = alice THEN 4 ELSE 2]
EndowAlice == [a \in Accounts |-> IF a = alice THEN 2 ELSE 0]

=============================================================================
