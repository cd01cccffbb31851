------------------------------ MODULE MiniPool ------------------------------
(***************************************************************************)
(* contracts/mini-pool, composed with the vault whose shares it takes as   *)
(* collateral.  The pool is itself a share holder (the account Pool): each *)
(* entry point that moves collateral makes the vault's own transfer part   *)
(* of its step, so the pool's book of positions and the vault's book of    *)
(* balances change together or not at all.  The debt token is external:    *)
(* `cash` is what accounts hold of it, `poolCash` what the pool holds.     *)
(*                                                                         *)
(* Prices are read through vault.share_price, which fails whenever the     *)
(* adapter fails, and nothing stands in for it.                            *)
(***************************************************************************)
EXTENDS Vault

CONSTANTS
  Pool,            \* the pool's address; contracts sign only for themselves
  BPS, LTV, LIQ, BONUS,   \* constants.rs: BPS, LTV_BPS, LIQ_THRESHOLD_BPS, ...
  CloseFactorDiv,
  Liquidators,     \* accounts the admin may whitelist
  Loans, CashFees, \* debt-token amounts a caller names, what it may withhold
  CashEndowment,   \* debt token each account starts with
  PoolSeed         \* debt token lenders placed in the pool

ASSUME PoolAssumption ==
  /\ Pool \in Accounts \ Signers
  /\ BPS \in Nat \ {0} /\ LTV \in Nat /\ LIQ \in Nat /\ BONUS \in Nat
  /\ LTV <= LIQ
  /\ CloseFactorDiv \in Nat \ {0}
  /\ Liquidators \subseteq Signers
  /\ Loans \subseteq Nat /\ CashFees \subseteq Nat
  /\ CashEndowment \in [Accounts -> Nat]
  /\ PoolSeed \in Nat

VARIABLES
  poolAdmin,       \* instance storage, set once by init
  coll, debt,      \* DataKey::Position(user)
  white,           \* DataKey::Whitelist
  cash, poolCash   \* the debt token's balances

poolVars == <<poolAdmin, coll, debt, white, cash, poolCash>>
vars == <<vaultVars, poolVars>>

PoolTypeOK ==
  /\ poolAdmin \in Accounts \cup {NoOne}
  /\ coll \in [Accounts -> Nat]
  /\ debt \in [Accounts -> Nat]
  /\ white \subseteq Accounts
  /\ cash \in [Accounts -> Nat]
  /\ poolCash \in Nat

-----------------------------------------------------------------------------
(* Valuation.  A position without shares is worth 0 and one without debt   *)
(* is healthy, both without consulting the price.                          *)

PoolReady == poolAdmin # NoOne

\* vault.share_price answered with a positive price
PriceKnown ==
  /\ Nav > 0 /\ PoolValueFits
  /\ Fits((PoolValue + VIRT) * SCALE)
  /\ SharePrice > 0

CollValue(shares) == IF shares = 0 THEN 0 ELSE MulDivFloor(shares, SharePrice, SCALE)
CollKnown(shares) == shares # 0 => PriceKnown /\ Fits(shares * SharePrice)

MaxDebt(shares) == MulDivFloor(CollValue(shares), LTV, BPS)

Adjusted(shares) == MulDivFloor(CollValue(shares), LIQ, BPS)

\* mutant: the price is consulted whether or not there is debt
HfAlwaysPriced(shares, owed) == PriceKnown

\* hf(pos) returned a value, and it is at least SCALE
HfKnown(shares, owed) ==
  owed # 0 => /\ CollKnown(shares)
              /\ Fits(CollValue(shares) * LIQ)
              /\ Fits(Adjusted(shares) * SCALE)
Healthy(shares, owed) ==
  owed # 0 => MulDivFloor(Adjusted(shares), SCALE, owed) >= SCALE

\* mutant: the position is judged before the shares leave it
JudgedBefore(from, shares) ==
  HfKnown(coll[from], debt[from]) /\ Healthy(coll[from], debt[from])

\* what remains after a release must be healthy
MayRelease(from, shares) ==
  LET left == coll[from] - shares
  IN HfKnown(left, debt[from]) /\ Healthy(left, debt[from])

\* mutant: the strict half of an odd or even debt
MaxRepayBelowHalf(owed) == (owed - 1) \div CloseFactorDiv

\* the close factor: what one liquidation call may repay
MaxRepay(owed) == owed \div CloseFactorDiv

-----------------------------------------------------------------------------
(* Entry points *)

InitPool(adm) ==
  /\ ~PoolReady
  /\ poolAdmin' = adm
  /\ UNCHANGED <<holdings, coll, debt, white, cash, poolCash>>

SetWhitelist(who, ok) ==
  /\ PoolReady
  /\ white' = IF ok THEN white \cup {who} ELSE white \ {who}
  /\ UNCHANGED <<holdings, poolAdmin, coll, debt, cash, poolCash>>

SupplyCollateral(from, shares) ==
  /\ PoolReady
  /\ shares > 0
  /\ Transfer(from, Pool, shares)
  /\ coll' = Credit(coll, from, shares)
  /\ UNCHANGED <<poolAdmin, debt, white, cash, poolCash>>

MayWithdrawCollateral(from, shares) ==
  /\ PoolReady
  /\ shares > 0
  /\ coll[from] >= shares
  /\ MayRelease(from, shares)
  /\ MayTransfer(Pool, shares)

WithdrawCollateral(from, shares) ==
  /\ MayWithdrawCollateral(from, shares)
  /\ coll' = Debit(coll, from, shares)
  /\ Transfer(Pool, from, shares)
  /\ UNCHANGED <<poolAdmin, debt, white, cash, poolCash>>

MayBorrow(from, amount) ==
  /\ PoolReady
  /\ amount > 0
  /\ amount <= poolCash
  /\ Fits(debt[from] + amount)
  /\ CollKnown(coll[from])
  /\ Fits(CollValue(coll[from]) * LTV)
  /\ debt[from] + amount <= MaxDebt(coll[from])

Borrow(from, amount) ==
  /\ MayBorrow(from, amount)
  /\ debt' = Credit(debt, from, amount)
  /\ cash' = Credit(cash, from, amount)
  /\ poolCash' = poolCash - amount
  /\ UNCHANGED <<holdings, poolAdmin, coll, white>>

\* mutant: what was sent is credited, not what arrived
Sent(pay, fee) == pay

\* the pool's measured balance difference, `fee` being what the token withholds
Measured(pay, fee) == pay - fee

\* an amount above the debt is clamped
Pay(from, amount) == AtMost(amount, debt[from])

MayRepay(from, amount, fee) ==
  /\ PoolReady
  /\ amount > 0
  /\ debt[from] # 0
  /\ Pay(from, amount) <= cash[from]
  /\ Measured(Pay(from, amount), fee) > 0

Repay(from, amount, fee) ==
  LET pay      == Pay(from, amount)
      received == Measured(pay, fee)
  IN /\ MayRepay(from, amount, fee)
     /\ debt' = Debit(debt, from, AtMost(received, debt[from]))
     /\ cash' = Debit(cash, from, pay)
     /\ poolCash' = poolCash + (pay - fee)
     /\ UNCHANGED <<holdings, poolAdmin, coll, white>>

\* mutant: rounded against the liquidator
SharesOwedFloored(received) ==
  MulDivFloor(MulDivFloor(received, BPS + BONUS, BPS), SCALE, SharePrice)

\* shares owed to a liquidator who brought in `received`
BonusValue(received) == MulDivCeil(received, BPS + BONUS, BPS)
SharesOwed(received) == MulDivCeil(BonusValue(received), SCALE, SharePrice)

\* mutant: not limited to the position's own collateral
SeizureFromAnyone(received, available) == SharesOwed(received)

Seizure(received, available) == AtMost(SharesOwed(received), available)

MayLiquidate(liquidator, user, repay, fee) ==
  LET received == Measured(repay, fee)
  IN /\ PoolReady
     /\ liquidator \in white
     /\ repay > 0
     /\ HfKnown(coll[user], debt[user])
     /\ ~Healthy(coll[user], debt[user])
     /\ repay <= MaxRepay(debt[user])
     /\ repay <= cash[liquidator]
     /\ received > 0
     /\ received <= MaxRepay(debt[user])
     /\ PriceKnown
     /\ Fits(received * (BPS + BONUS) + (BPS - 1))
     /\ Fits(BonusValue(received) * SCALE + (SharePrice - 1))
     /\ MayTransfer(Pool, Seizure(received, coll[user]))

Liquidate(liquidator, user, repay, fee) ==
  LET received == Measured(repay, fee)
      seize    == Seizure(received, coll[user])
  IN /\ MayLiquidate(liquidator, user, repay, fee)
     /\ debt' = Debit(debt, user, received)
     /\ coll' = Debit(coll, user, seize)
     /\ cash' = Debit(cash, liquidator, repay)
     /\ poolCash' = poolCash + (repay - fee)
     /\ Transfer(Pool, liquidator, seize)
     /\ UNCHANGED <<poolAdmin, white>>

-----------------------------------------------------------------------------
PoolInit ==
  /\ Init
  /\ poolAdmin = NoOne
  /\ coll = [a \in Accounts |-> 0]
  /\ debt = [a \in Accounts |-> 0]
  /\ white = {}
  /\ cash = CashEndowment /\ poolCash = PoolSeed

PoolCall(from) ==
  \/ \E n \in Parcels \cup {bal[from]} : SupplyCollateral(from, n)
  \/ \E n \in Parcels \cup {coll[from]} : WithdrawCollateral(from, n)
  \/ \E n \in Loans : Borrow(from, n)
  \/ \E n \in Loans \cup {debt[from]}, fee \in CashFees : Repay(from, n, fee)
  \/ \E user \in Accounts, fee \in CashFees :
       \E n \in Loans \cup {MaxRepay(debt[user])} : Liquidate(from, user, n, fee)

PoolStep ==
  \/ \E adm \in Admins : InitPool(adm)
  \/ \E who \in Liquidators, ok \in BOOLEAN : SetWhitelist(who, ok)
  \/ \E from \in Signers : PoolCall(from)

VaultStep == Next /\ UNCHANGED poolVars

PoolNext == VaultStep \/ (PoolStep /\ UNCHANGED quote)

PoolSpec == PoolInit /\ [][PoolNext]_vars

-----------------------------------------------------------------------------
(* Properties *)

\* The pool always holds, in the vault's books, at least the shares its own
\* positions record: no sequence of pledges, releases, seizures and direct
\* share transfers leaves a position that could not be returned.
PoolBacked == Total(coll) <= bal[Pool]

\* Lenders' money is always either in the pool or owed to it: clamped
\* repayments, liquidations that exhaust the collateral and tokens that
\* withhold a fee never make a unit of debt disappear unpaid.
CashConserved == poolCash + Total(debt) = PoolSeed

\* A position that is healthy can become unhealthy only because the NAV the
\* vault sees changed.  Nothing that any account does to its own position, to
\* the vault, or to someone else's position pushes it below the threshold.
HealthKept(a) ==
  (Healthy(coll[a], debt[a]) /\ HfKnown(coll[a], debt[a]) /\ HfKnown(coll[a], debt[a])')
     => Healthy(coll[a], debt[a])'
OnlyNavHurtsHealth ==
  [][(Nav' = Nav /\ Nav > 0) => \A a \in Accounts : HealthKept(a)]_vars

\* Whenever a step takes collateral away together with debt it is a
\* liquidation: the position was unhealthy, at most half the debt was repaid,
\* and the shares seized are worth at least the repayment plus bonus (or are
\* all there were), yet never more than one share and one unit beyond it
\* (prop.rs, liquidation_rounding_never_undercompensates).
SeizureFair(a) ==
  LET repaid == debt[a] - debt'[a]
      seized == coll[a] - coll'[a]
      owed   == repaid * (BPS + BONUS)
  IN (repaid > 0 /\ seized > 0) =>
       /\ ~Healthy(coll[a], debt[a])
       /\ repaid * CloseFactorDiv <= debt[a]
       /\ seized * SharePrice * BPS >= owed * SCALE \/ coll'[a] = 0
       /\ (seized - 1) * SharePrice * BPS < (owed + BPS) * SCALE
LiquidationSettlesFairly == [][\A a \in Accounts : SeizureFair(a)]_vars

\* Leaving needs no oracle.  Even while the adapter answers nothing, a
\* borrower with the cash can repay in full, and an account without debt can
\* take all its collateral back.
ExitNeedsNoOracle ==
  PoolReady => \A a \in Signers :
    /\ (debt[a] > 0 /\ cash[a] >= debt[a]) => MayRepay(a, debt[a], 0)
    /\ (debt[a] = 0 /\ coll[a] > 0) => MayWithdrawCollateral(a, coll[a])

\* An unhealthy position is never out of reach: while the price is known, any
\* whitelisted account with the cash can repay one unit of a debt of at least
\* CloseFactorDiv.  (A smaller debt is below the close factor and stays.)
LiquidationAvailable ==
  (PoolReady /\ PriceKnown) => \A l \in white, a \in Accounts :
    (/\ HfKnown(coll[a], debt[a]) /\ ~Healthy(coll[a], debt[a])
     /\ debt[a] >= CloseFactorDiv /\ cash[l] > 0
     /\ Fits(BPS + BONUS + (BPS - 1))
     /\ Fits(BonusValue(1) * SCALE + (SharePrice - 1)))
    => MayLiquidate(l, a, 1, 0)

=============================================================================
