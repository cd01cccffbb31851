------------------------------- MODULE Vault -------------------------------
(***************************************************************************)
(* contracts/vault: one vault wraps one underlying token and issues        *)
(* ld-shares (a SEP-41 token) priced by a fail-closed NAV oracle.          *)
(*                                                                         *)
(* A contract invocation is atomic: it commits, or on any error rolls      *)
(* everything back.  So every entry point is one action whose guard is the *)
(* conjunction of the checks the code makes, and a rejected call is a      *)
(* stuttering step.  An entry point's first parameter is the account that  *)
(* authorises it; only Signers sign, contracts sign for themselves.        *)
(*                                                                         *)
(* Two parts of the environment are state: the underlying token (external, *)
(* `wallet` for the accounts and `reserve` for the vault's own balance)    *)
(* and `quote`, the NAV each oracle adapter would answer now, with 0 for   *)
(* every way get_nav can fail.  The entry points leave `quote` to whoever  *)
(* composes them: Next keeps it still, and PricedVault, where the adapter  *)
(* is a contract with a state of its own, shows that this is what happens. *)
(***************************************************************************)
EXTENDS FixedPoint, Balances

CONSTANTS
  Accounts,        \* every address that may hold shares or the underlying
  Signers,         \* those among them that sign calls to the vault
  Admins,          \* those that may initialise the vault
  Successors,      \* those an admin may hand its vault to
  NoOne,           \* stands for an absent admin, pending admin or oracle
  Oracles,         \* adapters the admin may point the vault at
  SCALE, VIRT,     \* price scale and virtual offset (constants.rs)
  Navs,            \* NAVs an adapter may answer
  Amounts, Fees,   \* amounts a depositor names, what the token withholds
  Parcels,         \* share amounts a caller names, besides a whole balance
  Rebases,         \* growth or donations landing on the vault's balance
  Caps, Pauses,    \* caps and pause flags an admin may set
  Approvals,       \* allowances an owner may grant
  Endowment,       \* underlying each account starts with
  MaxSupply,       \* bound on the underlying in existence, for Rebase
  MaxSeq           \* bound on the ledger sequence

ASSUME AccountsAssumption ==
  /\ IsFiniteSet(Accounts)
  /\ Signers \subseteq Accounts /\ Admins \subseteq Accounts /\ Successors \subseteq Accounts
  /\ NoOne \notin Accounts \cup Oracles
  /\ Endowment \in [Accounts -> Nat]

ASSUME NumbersAssumption ==
  /\ SCALE \in Nat \ {0}
  /\ VIRT \in Nat \ {0}
  /\ Navs \subseteq Nat \ {0}
  /\ Amounts \subseteq Nat \ {0}
  /\ Fees \subseteq Nat
  /\ Parcels \subseteq Nat
  /\ Rebases \subseteq Nat \ {0}
  /\ Caps \subseteq Nat /\ Pauses \subseteq BOOLEAN
  /\ Approvals \subseteq Nat
  /\ MaxSupply \in Nat
  /\ MaxSeq \in Nat

VARIABLES
  bal,             \* DataKey::Bal, the share balances
  total,           \* DataKey::TotalShares
  allow,           \* DataKey::Allow, [amount, live] per <<owner, spender>>
  cap, paused, oracle, admin, pending,     \* instance storage
  wallet, reserve, \* the underlying token's balances
  quote,           \* what each adapter's get_nav answers, 0 = it fails
  seq              \* ledger sequence number

shareVars  == <<bal, total>>
configVars == <<cap, paused, oracle, admin, pending>>
tokenVars  == <<wallet, reserve>>
holdings   == <<shareVars, allow, configVars, tokenVars, seq>>
vaultVars  == <<holdings, quote>>

NoAllowance == [amount |-> 0, live |-> 0]      \* an absent storage entry

TypeOK ==
  /\ bal \in [Accounts -> Nat]
  /\ total \in Nat
  /\ allow \in [Accounts \X Accounts -> [amount : Nat, live : Nat]]
  /\ cap \in Nat
  /\ paused \in BOOLEAN
  /\ oracle \in Oracles \cup {NoOne}
  /\ admin \in Accounts \cup {NoOne}
  /\ pending \in Accounts \cup {NoOne}
  /\ wallet \in [Accounts -> Nat]
  /\ reserve \in Nat
  /\ quote \in [Oracles -> Navs \cup {0}]
  /\ seq \in Nat

-----------------------------------------------------------------------------
(* Pricing.  Both legs carry the virtual offset VIRT. *)

Initialized == admin # NoOne

Nav == IF oracle = NoOne THEN 0 ELSE quote[oracle]

PoolValue == MulDivFloor(reserve, Nav, SCALE)

PoolValueFits == Fits(reserve * Nav) /\ Fits(PoolValue + VIRT) /\ Fits(total + VIRT)

SharePrice == MulDivFloor(PoolValue + VIRT, SCALE, total + VIRT)

\* mutant: mint rounded in the depositor's favour
SharesRoundedUp(valueIn) == MulDivCeil(valueIn, total + VIRT, PoolValue + VIRT)

\* shares minted for a contribution worth valueIn
SharesFor(valueIn) == MulDivFloor(valueIn, total + VIRT, PoolValue + VIRT)

\* mutants: the two roundings of a redemption taken the other way
ClaimRoundedUp(n) == MulDivCeil(n, PoolValue + VIRT, total + VIRT)
PayoutRoundedUp(n) ==
  AtMost(MulDivCeil(MulDivFloor(n, PoolValue + VIRT, total + VIRT), SCALE, Nav), reserve)

\* quote value of the claim of n shares, and the underlying paid out for it
ClaimValue(n) == MulDivFloor(n, PoolValue + VIRT, total + VIRT)
Payout(n) == AtMost(MulDivFloor(ClaimValue(n), SCALE, Nav), reserve)
PayoutFits(n) ==
  PoolValueFits /\ Fits(n * (PoolValue + VIRT)) /\ Fits(ClaimValue(n) * SCALE)

-----------------------------------------------------------------------------
(* Lifecycle and admin entry points.  init is open to any caller, once. *)

InitVault(adm, o, c) ==
  /\ ~Initialized
  /\ admin' = adm /\ oracle' = o /\ cap' = c /\ paused' = FALSE
  /\ UNCHANGED <<shareVars, allow, pending, tokenVars, seq>>

SetCap(c) ==
  /\ Initialized
  /\ cap' = c
  /\ UNCHANGED <<shareVars, allow, paused, oracle, admin, pending, tokenVars, seq>>

SetOracle(o) ==
  /\ Initialized
  /\ oracle' = o
  /\ UNCHANGED <<shareVars, allow, cap, paused, admin, pending, tokenVars, seq>>

SetPaused(p) ==
  /\ Initialized
  /\ paused' = p
  /\ UNCHANGED <<shareVars, allow, cap, oracle, admin, pending, tokenVars, seq>>

TransferAdmin(new) ==
  /\ Initialized
  /\ pending' = new
  /\ UNCHANGED <<shareVars, allow, cap, paused, oracle, admin, tokenVars, seq>>

AcceptAdmin ==
  /\ pending # NoOne
  /\ admin' = pending
  /\ pending' = NoOne
  /\ UNCHANGED <<shareVars, allow, cap, paused, oracle, tokenVars, seq>>

-----------------------------------------------------------------------------
(* deposit and withdraw *)

\* mutant: withdrawals gated on the pause flag, as deposits are
ExitGated == Initialized /\ ~paused

\* withdraw only probes that the vault was initialised, it has no pause gate
ExitOpen == Initialized

\* `fee` is what the token withholds: the vault accounts for the measured
\* balance difference, never for the argument.
Deposit(from, amount, fee) ==
  LET received == amount - fee
      valueIn  == MulDivFloor(received, Nav, SCALE)
      shares   == SharesFor(valueIn)
  IN /\ Initialized /\ ~paused
     /\ Nav > 0
     /\ amount <= wallet[from]
     /\ received > 0
     /\ reserve + received <= cap
     /\ PoolValueFits /\ Fits(received * Nav) /\ Fits(valueIn * (total + VIRT))
     /\ valueIn > 0
     /\ shares > 0
     /\ Fits(total + shares)
     /\ bal' = Credit(bal, from, shares)
     /\ total' = total + shares
     /\ wallet' = Debit(wallet, from, amount)
     /\ reserve' = reserve + received
     /\ UNCHANGED <<allow, configVars, seq>>

MayWithdraw(from, shares) ==
  /\ ExitOpen
  /\ shares > 0
  /\ shares <= bal[from]
  /\ Nav > 0
  /\ PayoutFits(shares)
  /\ Payout(shares) > 0

Withdraw(from, shares) ==
  LET amount == Payout(shares)
  IN /\ MayWithdraw(from, shares)
     /\ bal' = Debit(bal, from, shares)
     /\ total' = total - shares
     /\ wallet' = Credit(wallet, from, amount)
     /\ reserve' = reserve - amount
     /\ UNCHANGED <<allow, configVars, seq>>

-----------------------------------------------------------------------------
(* The SEP-41 surface *)

\* mutant: no balance check before the debit
MoveUnchecked(from, to, n) == bal' = Move(bal, from, to, n)

MayTransfer(from, n) == n <= bal[from]

MoveShares(from, to, n) ==
  /\ MayTransfer(from, n)
  /\ bal' = Move(bal, from, to, n)

Transfer(from, to, n) ==
  /\ MoveShares(from, to, n)
  /\ UNCHANGED <<total, allow, configVars, tokenVars, seq>>

\* mutant: the allowance is checked but not reduced
SpendWithoutDebit(pair, n) ==
  /\ allow[pair].live >= seq /\ allow[pair].amount >= n
  /\ UNCHANGED allow

SpendAllowance(pair, n) ==
  LET granted == allow[pair]
  IN /\ granted # NoAllowance
     /\ granted.live >= seq
     /\ granted.amount >= n
     /\ allow' = [allow EXCEPT ![pair] =
                    IF granted.amount = n THEN NoAllowance
                    ELSE [granted EXCEPT !.amount = @ - n]]

TransferFrom(spender, from, to, n) ==
  /\ SpendAllowance(<<from, spender>>, n)
  /\ MoveShares(from, to, n)
  /\ UNCHANGED <<total, configVars, tokenVars, seq>>

Approve(from, spender, n, live) ==
  /\ n > 0 => live >= seq
  /\ allow' = [allow EXCEPT ![<<from, spender>>] =
                 IF n = 0 THEN NoAllowance ELSE [amount |-> n, live |-> live]]
  /\ UNCHANGED <<shareVars, configVars, tokenVars, seq>>

\* the `allowance` view: an expired grant reads as zero
Allowance(pair) == IF allow[pair].live >= seq THEN allow[pair].amount ELSE 0
-----------------------------------------------------------------------------
(* The environment: the adapters' answers move, the underlying rebases or  *)
(* somebody sends underlying straight to the vault, ledgers close.         *)

QuoteMoves(o, n) ==
  /\ n # quote[o]
  /\ quote' = [quote EXCEPT ![o] = n]
  /\ UNCHANGED <<shareVars, allow, configVars, tokenVars, seq>>

Rebase(n) ==
  /\ reserve + Total(wallet) + n <= MaxSupply
  /\ reserve' = reserve + n
  /\ UNCHANGED <<shareVars, allow, configVars, wallet, quote, seq>>

\* with the ledger's time, an adapter's answer may expire or become valid
LedgerCloses(q) ==
  /\ seq < MaxSeq
  /\ seq' = seq + 1
  /\ quote' = q
  /\ UNCHANGED <<shareVars, allow, configVars, tokenVars>>

-----------------------------------------------------------------------------
Init ==
  /\ bal = [a \in Accounts |-> 0] /\ total = 0
  /\ allow = [p \in Accounts \X Accounts |-> NoAllowance]
  /\ cap = 0 /\ paused = FALSE
  /\ oracle = NoOne /\ admin = NoOne /\ pending = NoOne
  /\ wallet = Endowment /\ reserve = 0
  /\ quote \in [Oracles -> Navs \cup {0}]
  /\ seq = 0

Lifecycle ==
  \/ \E adm \in Admins, o \in Oracles, c \in Caps : InitVault(adm, o, c)
  \/ \E c \in Caps : SetCap(c)
  \/ \E o \in Oracles : SetOracle(o)
  \/ \E p \in Pauses : SetPaused(p)
  \/ \E new \in Successors : TransferAdmin(new)
  \/ AcceptAdmin

\* the calls that read the adapter, and those that do not
PricedCall(from) ==
  \/ \E amount \in Amounts, fee \in Fees : Deposit(from, amount, fee)
  \/ \E n \in Parcels \cup {bal[from]} : Withdraw(from, n)

UnpricedCall(from) ==
  \/ \E to \in Accounts, n \in Parcels \cup {bal[from]} : Transfer(from, to, n)
  \/ \E owner, to \in Accounts : \E n \in Parcels \cup {bal[owner]} :
       TransferFrom(from, owner, to, n)
  \/ \E spender \in Accounts, n \in Approvals, live \in 0..MaxSeq :
       Approve(from, spender, n, live)

Environment ==
  \/ \E o \in Oracles, n \in Navs \cup {0} : QuoteMoves(o, n)
  \/ \E n \in Rebases : Rebase(n)
  \/ \E q \in [Oracles -> Navs \cup {0}] : LedgerCloses(q)

Call == Lifecycle \/ \E from \in Signers : PricedCall(from) \/ UnpricedCall(from)

Next == (Call /\ UNCHANGED quote) \/ Environment

Spec == Init /\ [][Next]_vaultVars

-----------------------------------------------------------------------------
(* Properties *)

\* The share supply is exactly what the balances add up to, whatever mix of
\* deposits, withdrawals, self-transfers and allowance transfers led here
\* (prop.rs property (e)).
SharesConserved == total = Total(bal)

\* Solvency.  The value of all holders' claims together never exceeds the
\* value of the pool, except that the virtual offset may promise up to VIRT
\* quote units more once the price has fallen below par: that is the excess
\* the clamp in withdraw takes from whoever exits last.
ClaimsCovered ==
  Nav > 0 =>
    Total([a \in Accounts |-> ClaimValue(bal[a])]) <=
      PoolValue + (IF total <= PoolValue THEN 0 ELSE VIRT)

\* While the adapter's answer and the choice of adapter stay the same, nothing
\* anybody does lowers the share price: rounding is always against the caller
\* and donations only raise it (prop.rs properties (b) and (d)).  The price is
\* compared as the exact ratio (V + VIRT) / (S + VIRT).
PriceNotDiluted ==
  (Nav' = Nav /\ Nav > 0) =>
    (PoolValue' + VIRT) * (total + VIRT) >= (PoolValue + VIRT) * (total' + VIRT)
SharePriceNeverDiluted == [][PriceNotDiluted]_vaultVars

\* Shares just minted can never be redeemed, at the NAV they were bought at,
\* for more underlying than the vault received for them.
MintedNotWorthMore ==
  (total' > total /\ Nav' > 0) =>
    \A minted \in {total' - total} : Payout(minted)' <= reserve' - reserve
RoundTripNeverGains == [][MintedNotWorthMore]_vaultVars

\* Exits stay open and honest.  Whenever the adapter answers and a holder's
\* shares are worth, at the price the share_price view reports, at least one
\* unit of the underlying the vault still holds, the holder can withdraw all
\* of them at once and is paid no less than that quoted value buys: neither
\* a pause, a cap below the reserve nor a change of admin stands in the way.
QuotedUnits(n) ==
  AtMost(MulDivFloor(MulDivFloor(n, SharePrice, SCALE), SCALE, Nav), reserve)
ExitPaysQuotedPrice ==
  \A u \in Signers :
    (Nav > 0 /\ bal[u] > 0 /\ PayoutFits(bal[u]) /\ QuotedUnits(bal[u]) > 0) =>
      MayWithdraw(u, bal[u]) /\ Payout(bal[u]) >= QuotedUnits(bal[u])
=============================================================================
