---------------------------- MODULE MCVaultCalls ----------------------------
(***************************************************************************)
(* A small instance of VaultCalls for TLC: one adapter and one NAV, two    *)
(* accounts, allowances and their expiry, pausing, the admin entry points. *)
(***************************************************************************)
EXTENDS VaultCalls, MCVault

=============================================================================
