---------------------------- MODULE PricedVault ----------------------------
(***************************************************************************)
(* The vault together with the adapter it reads.  deposit and withdraw     *)
(* call get_nav inside their own invocation, so the adapter's record and   *)
(* the vault's books change together or, when any later check fails, not   *)
(* at all; share_price and total_assets_value read it when a contract      *)
(* calls them, and a bare get_nav is open to anyone.                       *)
(*                                                                         *)
(* Vault abstracts the adapter to `quote`, an answer its own steps leave   *)
(* alone.  Here the answer is computed from the adapter's state, and the   *)
(* composition is shown to implement Vault!Spec.                           *)
(***************************************************************************)
EXTENDS OracleAdapter

CONSTANTS
  Adapter,         \* the address of the one adapter
  Accounts, Signers, Admins, Successors, NoOne, SCALE, VIRT, Navs, Amounts, Fees,
  Parcels, Rebases, Caps, Pauses, Approvals, Endowment, MaxSupply, MaxSeq

VARIABLES bal, total, allow, cap, paused, oracle, admin, pending, wallet, reserve, seq

V == INSTANCE Vault WITH Oracles <- {Adapter}, quote <- [o \in {Adapter} |-> Answer]

\* Navs is every NAV the adapter can compute, and none is so large that the
\* deviation check would overflow on it (see ComparableWith)
ASSUME PricedAssumption ==
  /\ \A p \in Prices, d \in Decimals :
       Normalize(p, d) \in 1..I128Max => Normalize(p, d) \in Navs
  /\ \A n \in Navs, dev \in Devs \cup {DefaultDev} : n * dev <= U128Max

vars == <<adapterVars, bal, total, allow, cap, paused, oracle, admin, pending,
          wallet, reserve, seq>>

books == <<bal, total, allow, cap, paused, oracle, admin, pending, wallet, reserve, seq>>

\* a ledger closes: its sequence number and its timestamp advance together
LedgerStep ==
  /\ seq < MaxSeq /\ seq' = seq + 1
  /\ Tick
  /\ UNCHANGED <<bal, total, allow, cap, paused, oracle, admin, pending, wallet, reserve>>

PricedInit ==
  /\ AdapterInit
  /\ bal = [a \in Accounts |-> 0] /\ total = 0
  /\ allow = [p \in Accounts \X Accounts |-> V!NoAllowance]
  /\ cap = 0 /\ paused = FALSE
  /\ oracle = NoOne /\ admin = NoOne /\ pending = NoOne
  /\ wallet = Endowment /\ reserve = 0
  /\ seq = 0

PricedNext ==
  \/ (\E from \in Signers : V!PricedCall(from)) /\ GetNav
  \/ (\E from \in Signers : V!UnpricedCall(from)) /\ UNCHANGED adapterVars
  \/ V!Lifecycle /\ UNCHANGED adapterVars
  \/ UNCHANGED adapterVars /\ \E n \in Rebases : V!Rebase(n)
  \/ (GetNav \/ AdminStep \/ SourceStep) /\ UNCHANGED books
  \/ LedgerStep

PricedSpec == PricedInit /\ [][PricedNext]_vars

-----------------------------------------------------------------------------
\* The composition implements the vault's specification: although every priced
\* call writes the adapter's record, neither it nor anything else a vault entry
\* point does moves the answer the next caller gets, and the adapter's own
\* steps touch nothing of the vault but that answer.
VaultSpec == V!Spec
=============================================================================
