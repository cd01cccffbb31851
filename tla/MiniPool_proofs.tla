--------------------------- MODULE MiniPool_proofs ---------------------------
(***************************************************************************)
(* The pool over the vault, for every value of the constants.              *)
(*                                                                         *)
(* Its books.  That the pool can return every position's shares            *)
(* (PoolBacked) is inductive only together with the vault's own invariant  *)
(* and the fact that the pool never granted an allowance over its shares:  *)
(* otherwise transfer_from could drain it without the pool's book of       *)
(* positions noticing.                                                     *)
(*                                                                         *)
(* Health.  While the NAV stands still, no step makes a healthy position   *)
(* unhealthy.  Two independent results meet there: the vault never dilutes *)
(* its price, so collateral nobody touches keeps its value through         *)
(* everybody else's deposits, withdrawals and donations; and each pool     *)
(* entry point re-checks, or only improves, the position it changes.       *)
(* Borrow re-checks against the tighter limit LTV, which is why the        *)
(* assumption LTV <= LIQ is needed.                                        *)
(*                                                                         *)
(* Settlement.  A liquidation takes what the bonus says, within a share.   *)
(*                                                                         *)
(* Ways out.  Repaying, and leaving without debt, wait for nothing but the *)
(* caller's own cash, because PoolBacked makes every position movable; and *)
(* an unhealthy position is within reach while there is a price.           *)
(*                                                                         *)
(* What is shown.  The figures of the app, the SDK and the indexer are the *)
(* contracts' own, before a call and after it.                             *)
(*                                                                         *)
(* The vault below.  The pool is one more holder of shares: what is        *)
(* promised of the vault holds under the pool, too.                        *)
(***************************************************************************)
EXTENDS Previews, Vault_proofs

PoolGrantsNothing == \A s \in Accounts : allow[<<Pool, s>>] = NoAllowance

PoolInv == IInv /\ PoolTypeOK /\ PoolGrantsNothing /\ PoolBacked /\ CashConserved

-----------------------------------------------------------------------------
\* The rounding-up helper returns a natural number.
LEMMA MulDivCeilNat ==
  ASSUME NEW a \in Nat, NEW b \in Nat, NEW den \in Nat \ {0}
  PROVE  MulDivCeil(a, b, den) \in Nat
<1>1. a * b + (den - 1) \in Nat
  BY ProductNat
<1> QED BY <1>1, FloorBounds DEF MulDivCeil

\* A quotient by a positive number does not exceed what is divided.
LEMMA HalfAtMost ==
  ASSUME NEW n \in Nat, NEW d \in Nat \ {0}
  PROVE  n \div d \in Nat /\ n \div d <= n
<1>1. n \div d \in Nat /\ (n \div d) * d <= n
  BY FloorBounds
<1>2. \A q \in Nat : q * d <= n => q <= n
  OBVIOUS
<1> QED BY <1>1, <1>2

\* The price the pool reads is a natural number.
LEMMA SharePriceNat ==
  ASSUME IInv
  PROVE  SharePrice \in Nat
BY PricingTypes, MulDivFloorNat, NumbersAssumption DEF IInv, SharePrice

\* A liquidator is given a natural number of shares, never more than there are.
LEMMA SeizureBounds ==
  ASSUME IInv, PriceKnown, NEW received \in Nat, NEW available \in Nat
  PROVE  Seizure(received, available) \in Nat /\ Seizure(received, available) <= available
<1>1. SharePrice \in Nat \ {0}
  BY SharePriceNat DEF PriceKnown
<1>2. BPS + BONUS \in Nat /\ BPS \in Nat \ {0} /\ SCALE \in Nat
  BY PoolAssumption, NumbersAssumption
<1>3. BonusValue(received) \in Nat
  BY <1>2, MulDivCeilNat DEF BonusValue
<1>4. SharesOwed(received) \in Nat
  BY <1>1, <1>2, <1>3, MulDivCeilNat DEF SharesOwed
<1> QED BY <1>4 DEF Seizure, AtMost

-----------------------------------------------------------------------------
\* No vault call by a signer takes shares from the pool: it does not sign, and
\* it granted nobody an allowance.
LEMMA VaultLeavesPoolShares ==
  ASSUME PoolInv, [Next]_vaultVars
  PROVE  bal[Pool] <= bal'[Pool]
<1> USE DEF PoolInv, IInv, TypeOK
<1>0. Pool \in Accounts /\ Pool \notin Signers /\ Signers \subseteq Accounts
  BY PoolAssumption, AccountsAssumption
<1>1. ASSUME NEW from \in Accounts \ {Pool}, NEW to \in Accounts, NEW n \in Nat,
             MoveShares(from, to, n)
      PROVE  bal[Pool] <= bal'[Pool]
  BY <1>0, <1>1 DEF MoveShares, MayTransfer, Move, Credit, Debit
<1>2. ASSUME bal' = bal PROVE bal[Pool] <= bal'[Pool]
  BY <1>0, <1>2
<1>3. ASSUME NEW from \in Signers, NEW amount \in Amounts, NEW fee \in Fees,
             Deposit(from, amount, fee)
      PROVE  bal[Pool] <= bal'[Pool]
  <2>1. \E sh : bal' = Credit(bal, from, sh)
    BY <1>3 DEF Deposit
  <2> QED BY <1>0, <2>1 DEF Credit
<1>4. ASSUME NEW from \in Signers, NEW n, Withdraw(from, n)
      PROVE  bal[Pool] <= bal'[Pool]
  <2>1. bal' = Debit(bal, from, n)
    BY <1>4 DEF Withdraw, MayWithdraw
  <2> QED BY <1>0, <2>1 DEF Debit
<1>5. ASSUME NEW from \in Signers, UnpricedCall(from)
      PROVE  bal[Pool] <= bal'[Pool]
  <2>1. ASSUME NEW to \in Accounts, NEW n \in Parcels \cup {bal[from]}, Transfer(from, to, n)
        PROVE  bal[Pool] <= bal'[Pool]
    <3>1. n \in Nat /\ from \in Accounts \ {Pool}
      BY <1>0, NumbersAssumption
    <3> QED BY <1>1, <2>1, <3>1 DEF Transfer
  <2>2. ASSUME NEW owner \in Accounts, NEW to \in Accounts,
               NEW n \in Parcels \cup {bal[owner]}, TransferFrom(from, owner, to, n)
        PROVE  bal[Pool] <= bal'[Pool]
    <3>1. n \in Nat
      BY <1>0, NumbersAssumption
    <3>2. allow[<<owner, from>>] # NoAllowance
      BY <2>2 DEF TransferFrom, SpendAllowance
    <3>3. owner # Pool
      BY <1>0, <3>2 DEF PoolGrantsNothing
    <3> QED BY <1>1, <2>2, <3>1, <3>3 DEF TransferFrom
  <2>3. ASSUME NEW spender \in Accounts, NEW n \in Approvals, NEW live \in 0..MaxSeq,
               Approve(from, spender, n, live)
        PROVE  bal[Pool] <= bal'[Pool]
    BY <1>2, <2>3 DEF Approve, shareVars
  <2> QED BY <1>5, <2>1, <2>2, <2>3 DEF UnpricedCall
<1>6. ASSUME Lifecycle PROVE bal' = bal
  BY <1>6 DEF Lifecycle, InitVault, SetCap, SetOracle, SetPaused, TransferAdmin,
              AcceptAdmin, shareVars
<1>7. ASSUME Environment PROVE bal' = bal
  BY <1>7 DEF Environment, QuoteMoves, Rebase, LedgerCloses, shareVars
<1>8. ASSUME UNCHANGED vaultVars PROVE bal' = bal
  BY <1>8 DEF vaultVars, holdings, shareVars
<1> QED
  BY <1>2, <1>3, <1>4, <1>5, <1>6, <1>7, <1>8 DEF Next, Call, PricedCall

\* A vault call never creates an allowance over the pool's shares.
LEMMA VaultGrantsNothing ==
  ASSUME PoolInv, [Next]_vaultVars
  PROVE  PoolGrantsNothing'
<1> USE DEF PoolInv, IInv, TypeOK
<1>0. Pool \in Accounts /\ Pool \notin Signers
  BY PoolAssumption
<1>1. ASSUME UNCHANGED allow PROVE PoolGrantsNothing'
  BY <1>1 DEF PoolGrantsNothing
<1>2. ASSUME NEW from \in Signers, PricedCall(from) PROVE PoolGrantsNothing'
  BY <1>1, <1>2 DEF PricedCall, Deposit, Withdraw, MayWithdraw
<1>3. ASSUME NEW from \in Signers, UnpricedCall(from) PROVE PoolGrantsNothing'
  <2>1. ASSUME NEW to \in Accounts, NEW n, Transfer(from, to, n)
        PROVE  PoolGrantsNothing'
    BY <1>1, <2>1 DEF Transfer
  <2>2. ASSUME NEW owner \in Accounts, NEW to \in Accounts, NEW n,
               TransferFrom(from, owner, to, n)
        PROVE  PoolGrantsNothing'
    <3>1. allow[<<owner, from>>] # NoAllowance
      BY <2>2 DEF TransferFrom, SpendAllowance
    <3>2. owner # Pool
      BY <1>0, <3>1, AccountsAssumption DEF PoolGrantsNothing
    <3>3. \E g : allow' = [allow EXCEPT ![<<owner, from>>] = g]
      BY <2>2 DEF TransferFrom, SpendAllowance
    <3>4. ASSUME NEW s \in Accounts PROVE allow'[<<Pool, s>>] = allow[<<Pool, s>>]
      BY <1>0, <3>2, <3>3
    <3> QED BY <3>4 DEF PoolGrantsNothing
  <2>3. ASSUME NEW spender \in Accounts, NEW n, NEW live, Approve(from, spender, n, live)
        PROVE  PoolGrantsNothing'
    <3>1. \E g : allow' = [allow EXCEPT ![<<from, spender>>] = g]
      BY <2>3 DEF Approve
    <3>2. ASSUME NEW s \in Accounts PROVE allow'[<<Pool, s>>] = allow[<<Pool, s>>]
      BY <1>0, <3>1
    <3> QED BY <3>2 DEF PoolGrantsNothing
  <2> QED BY <1>3, <2>1, <2>2, <2>3 DEF UnpricedCall
<1>4. ASSUME Lifecycle PROVE PoolGrantsNothing'
  BY <1>1, <1>4 DEF Lifecycle, InitVault, SetCap, SetOracle, SetPaused, TransferAdmin,
                    AcceptAdmin
<1>5. ASSUME Environment PROVE PoolGrantsNothing'
  BY <1>1, <1>5 DEF Environment, QuoteMoves, Rebase, LedgerCloses
<1>6. ASSUME UNCHANGED vaultVars PROVE PoolGrantsNothing'
  BY <1>1, <1>6 DEF vaultVars, holdings
<1> QED
  BY <1>2, <1>3, <1>4, <1>5, <1>6 DEF Next, Call

\* So a vault call keeps the pool's invariant.
LEMMA VaultStepKeeps ==
  ASSUME PoolInv, [Next]_vaultVars, UNCHANGED poolVars
  PROVE  PoolInv'
<1>1. IInv'
  BY IInvStep DEF PoolInv
<1>2. PoolTypeOK' /\ CashConserved'
  BY DEF PoolInv, PoolTypeOK, CashConserved, poolVars
<1>3. PoolBacked'
  <2>1. bal[Pool] \in Nat /\ bal'[Pool] \in Nat
    BY <1>1, PoolAssumption DEF PoolInv, IInv, TypeOK
  <2>2. Total(coll) \in Nat
    BY TotalNat, AccountsAssumption DEF PoolInv, PoolTypeOK
  <2>3. bal[Pool] <= bal'[Pool] /\ Total(coll) <= bal[Pool] /\ coll' = coll
    BY VaultLeavesPoolShares DEF PoolInv, PoolBacked, poolVars
  <2> QED BY <2>1, <2>2, <2>3 DEF PoolBacked
<1> QED BY <1>1, <1>2, <1>3, VaultGrantsNothing DEF PoolInv

-----------------------------------------------------------------------------
\* Shares pledged arrive in the pool and in the position together.
LEMMA SupplyKeeps ==
  ASSUME PoolInv, NEW from \in Signers, NEW n \in Nat,
         SupplyCollateral(from, n), UNCHANGED quote
  PROVE  PoolInv'
<1>1. /\ from \in Accounts /\ Pool \in Accounts /\ from # Pool
      /\ bal \in [Accounts -> Nat] /\ coll \in [Accounts -> Nat]
  BY AccountsAssumption, PoolAssumption DEF PoolInv, IInv, TypeOK, PoolTypeOK
<1>2. /\ Transfer(from, Pool, n) /\ coll' = Credit(coll, from, n)
      /\ UNCHANGED <<poolAdmin, debt, white, cash, poolCash>>
  BY DEF SupplyCollateral
<1>3. IInv'
  BY <1>1, <1>2, TransferKeeps DEF PoolInv
<1>4. coll' \in [Accounts -> Nat] /\ Total(coll') = Total(coll) + n /\ Total(coll) \in Nat
  <2>1. IsFiniteSet(Accounts)
    BY AccountsAssumption
  <2>2. coll' \in [Accounts -> Nat]
    BY <1>1, <1>2, <2>1, BookType
  <2>3. Total(coll') = Total(coll) + n /\ Total(coll) \in Nat
    BY <1>1, <1>2, <2>1, TotalCredit, TotalNat
  <2> QED BY <2>2, <2>3
<1>5. bal'[Pool] = bal[Pool] + n
  BY <1>1, <1>2 DEF Transfer, MoveShares, MayTransfer, Move, Credit, Debit
<1>6. PoolBacked'
  BY <1>1, <1>4, <1>5 DEF PoolInv, PoolBacked
<1>7. PoolTypeOK' /\ CashConserved'
  BY <1>2, <1>4 DEF PoolInv, PoolTypeOK, CashConserved
<1>8. PoolGrantsNothing'
  BY <1>2 DEF Transfer, PoolInv, PoolGrantsNothing
<1> QED BY <1>3, <1>6, <1>7, <1>8 DEF PoolInv

\* Shares released or seized leave the pool and the position together.
LEMMA ReleaseKeeps ==
  ASSUME PoolInv, NEW user \in Accounts, NEW to \in Signers, NEW n \in Nat,
         n <= coll[user], coll' = Debit(coll, user, n), Transfer(Pool, to, n),
         UNCHANGED <<quote, poolAdmin, white>>,
         debt' \in [Accounts -> Nat], cash' \in [Accounts -> Nat], poolCash' \in Nat,
         CashConserved'
  PROVE  PoolInv'
<1>1. /\ to \in Accounts /\ Pool \in Accounts /\ to # Pool
      /\ bal \in [Accounts -> Nat] /\ coll \in [Accounts -> Nat]
  BY AccountsAssumption, PoolAssumption DEF PoolInv, IInv, TypeOK, PoolTypeOK
<1>2. IInv'
  BY <1>1, TransferKeeps DEF PoolInv
<1>3. coll' \in [Accounts -> Nat] /\ Total(coll') = Total(coll) - n /\ Total(coll) \in Nat
  <2>1. coll' \in [Accounts -> Nat]
    BY <1>1, BookType
  <2>2. Total(coll') = Total(coll) - n
    BY <1>1, TotalDebit, AccountsAssumption
  <2>3. Total(coll) \in Nat
    BY <1>1, TotalNat, AccountsAssumption
  <2> QED BY <2>1, <2>2, <2>3
<1>4. bal'[Pool] = bal[Pool] - n
  BY <1>1 DEF Transfer, MoveShares, MayTransfer, Move, Credit, Debit
<1>5. PoolBacked'
  BY <1>1, <1>3, <1>4 DEF PoolInv, PoolBacked
<1>6. PoolTypeOK'
  BY <1>3 DEF PoolInv, PoolTypeOK
<1>7. PoolGrantsNothing'
  BY DEF Transfer, PoolInv, PoolGrantsNothing
<1> QED BY <1>2, <1>5, <1>6, <1>7 DEF PoolInv

\* A withdrawal of collateral is a release that leaves the debt alone.
LEMMA WithdrawCollateralKeeps ==
  ASSUME PoolInv, NEW from \in Signers, NEW n \in Nat,
         WithdrawCollateral(from, n), UNCHANGED quote
  PROVE  PoolInv'
<1>1. /\ n <= coll[from] /\ coll' = Debit(coll, from, n) /\ Transfer(Pool, from, n)
      /\ UNCHANGED <<poolAdmin, debt, white, cash, poolCash>>
  BY AccountsAssumption DEF WithdrawCollateral, MayWithdrawCollateral, PoolInv, PoolTypeOK
<1>2. /\ debt' \in [Accounts -> Nat] /\ cash' \in [Accounts -> Nat] /\ poolCash' \in Nat
      /\ CashConserved'
  BY <1>1 DEF PoolInv, PoolTypeOK, CashConserved
<1> QED BY <1>1, <1>2, ReleaseKeeps, AccountsAssumption

-----------------------------------------------------------------------------
\* The calls that leave the vault alone keep everything said about it.
LEMMA HoldingsKept ==
  ASSUME PoolInv, UNCHANGED <<holdings, quote>>, UNCHANGED coll
  PROVE  IInv' /\ PoolGrantsNothing' /\ PoolBacked'
BY DEF PoolInv, IInv, TypeOK, SharesConserved, PoolGrantsNothing, PoolBacked,
       holdings, shareVars, configVars, tokenVars

\* What is lent leaves the pool's cash and is added to the debts.
LEMMA BorrowKeeps ==
  ASSUME PoolInv, NEW from \in Signers, NEW amount \in Loans,
         Borrow(from, amount), UNCHANGED quote
  PROVE  PoolInv'
<1>1. from \in Accounts /\ amount \in Nat
  BY AccountsAssumption, PoolAssumption
<1>2. /\ amount <= poolCash
      /\ debt' = Credit(debt, from, amount) /\ cash' = Credit(cash, from, amount)
      /\ poolCash' = poolCash - amount
      /\ UNCHANGED <<holdings, poolAdmin, coll, white>>
  BY DEF Borrow, MayBorrow
<1>3. debt \in [Accounts -> Nat] /\ cash \in [Accounts -> Nat] /\ poolCash \in Nat
  BY DEF PoolInv, PoolTypeOK
<1>4. /\ debt' \in [Accounts -> Nat] /\ cash' \in [Accounts -> Nat]
      /\ Total(debt') = Total(debt) + amount /\ Total(debt) \in Nat
  <2>1. debt' \in [Accounts -> Nat] /\ cash' \in [Accounts -> Nat]
    BY <1>1, <1>2, <1>3, BookType
  <2>2. Total(debt') = Total(debt) + amount
    BY <1>1, <1>2, <1>3, TotalCredit, AccountsAssumption
  <2>3. Total(debt) \in Nat
    BY <1>3, TotalNat, AccountsAssumption
  <2> QED BY <2>1, <2>2, <2>3
<1>5. PoolTypeOK' /\ CashConserved'
  BY <1>1, <1>2, <1>3, <1>4 DEF PoolInv, PoolTypeOK, CashConserved
<1> QED BY <1>2, <1>5, HoldingsKept DEF PoolInv

\* What a payer brings in, net of what the token withholds, is the debt paid.
LEMMA PaidDown ==
  ASSUME PoolInv, NEW payer \in Accounts, NEW user \in Accounts,
         NEW pay \in Nat, NEW fee \in Nat, Measured(pay, fee) > 0,
         pay <= cash[payer], Measured(pay, fee) <= debt[user],
         debt' = Debit(debt, user, Measured(pay, fee)),
         cash' = Debit(cash, payer, pay), poolCash' = poolCash + (pay - fee)
  PROVE  /\ debt' \in [Accounts -> Nat] /\ cash' \in [Accounts -> Nat]
         /\ poolCash' \in Nat /\ CashConserved'
<1>1. Measured(pay, fee) = pay - fee /\ pay - fee \in Nat
  BY DEF Measured
<1>2. debt \in [Accounts -> Nat] /\ cash \in [Accounts -> Nat] /\ poolCash \in Nat
  BY DEF PoolInv, PoolTypeOK
<1>3. /\ debt' \in [Accounts -> Nat] /\ cash' \in [Accounts -> Nat]
      /\ Total(debt') = Total(debt) - (pay - fee) /\ Total(debt) \in Nat
  <2>0. /\ debt' = Debit(debt, user, pay - fee) /\ pay - fee <= debt[user]
        /\ cash' = Debit(cash, payer, pay)
    BY <1>1
  <2>1. debt' \in [Accounts -> Nat] /\ cash' \in [Accounts -> Nat]
    <3> DEFINE got == pay - fee
    <3>1. got \in Nat /\ got <= debt[user] /\ debt' = Debit(debt, user, got)
      BY <1>1, <2>0
    <3> HIDE DEF got
    <3>2. debt' \in [Accounts -> Nat]
      <4>1. debt \in [Accounts -> Nat] /\ user \in Accounts
        BY <1>2
      <4>2. Debit(debt, user, got) \in [Accounts -> Nat]
        BY ONLY <3>1, <4>1, BookType
      <4> QED BY ONLY <3>1, <4>2
    <3>3. cash' \in [Accounts -> Nat]
      BY <1>2, <2>0, BookType
    <3> QED BY <3>2, <3>3
  <2>2. Total(debt') = Total(debt) - (pay - fee)
    BY <1>1, <1>2, <2>0, TotalDebit, AccountsAssumption
  <2>3. Total(debt) \in Nat
    BY <1>2, TotalNat, AccountsAssumption
  <2> QED BY <2>1, <2>2, <2>3
<1> QED BY <1>1, <1>2, <1>3 DEF PoolInv, CashConserved

\* A repayment is clamped to the debt, so the whole of what arrived counts.
LEMMA RepayKeeps ==
  ASSUME PoolInv, NEW from \in Signers, NEW amount \in Nat, NEW fee \in CashFees,
         Repay(from, amount, fee), UNCHANGED quote
  PROVE  PoolInv'
<1> DEFINE pay == AtMost(amount, debt[from])
           received == Measured(pay, fee)
<1>1. from \in Accounts /\ fee \in Nat
  BY AccountsAssumption, PoolAssumption
<1>2. debt[from] \in Nat
  BY <1>1 DEF PoolInv, PoolTypeOK
<1>3. pay \in Nat /\ pay <= debt[from]
  BY <1>2 DEF AtMost
<1>4. /\ pay <= cash[from] /\ received > 0
      /\ debt' = Debit(debt, from, AtMost(received, debt[from]))
      /\ cash' = Debit(cash, from, pay) /\ poolCash' = poolCash + (pay - fee)
      /\ UNCHANGED <<holdings, poolAdmin, coll, white>>
  BY DEF Repay, MayRepay, Pay
<1> HIDE DEF pay
<1>5. received <= debt[from] /\ AtMost(received, debt[from]) = received
  BY <1>1, <1>2, <1>3 DEF Measured, AtMost
<1>6. /\ debt' \in [Accounts -> Nat] /\ cash' \in [Accounts -> Nat]
      /\ poolCash' \in Nat /\ CashConserved'
  BY <1>1, <1>3, <1>4, <1>5, PaidDown
<1>7. PoolTypeOK'
  BY <1>4, <1>6 DEF PoolInv, PoolTypeOK
<1> QED BY <1>4, <1>6, <1>7, HoldingsKept DEF PoolInv

\* A liquidation pays debt down like a repayment and releases the seizure.
LEMMA LiquidateKeeps ==
  ASSUME PoolInv, NEW liquidator \in Signers, NEW user \in Accounts,
         NEW repay \in Nat, NEW fee \in CashFees,
         Liquidate(liquidator, user, repay, fee), UNCHANGED quote
  PROVE  PoolInv'
<1> DEFINE received == Measured(repay, fee)
           seize == Seizure(received, coll[user])
<1>1. /\ liquidator \in Accounts /\ fee \in Nat /\ CloseFactorDiv \in Nat \ {0}
      /\ debt[user] \in Nat /\ coll[user] \in Nat
  BY AccountsAssumption, PoolAssumption DEF PoolInv, PoolTypeOK
<1>2. /\ repay <= cash[liquidator] /\ received > 0 /\ received <= MaxRepay(debt[user])
      /\ PriceKnown
      /\ debt' = Debit(debt, user, received) /\ coll' = Debit(coll, user, seize)
      /\ cash' = Debit(cash, liquidator, repay) /\ poolCash' = poolCash + (repay - fee)
      /\ Transfer(Pool, liquidator, seize)
      /\ UNCHANGED <<poolAdmin, white>>
  BY DEF Liquidate, MayLiquidate
<1>3. received \in Nat
  BY <1>1, <1>2 DEF Measured
<1>4. MaxRepay(debt[user]) \in Nat /\ MaxRepay(debt[user]) <= debt[user]
  BY <1>1, HalfAtMost DEF MaxRepay
<1>5. received <= debt[user]
  BY <1>1, <1>2, <1>3, <1>4
<1>6. seize \in Nat /\ seize <= coll[user]
  BY <1>1, <1>2, <1>3, SeizureBounds DEF PoolInv
<1> HIDE DEF seize
<1>7. /\ debt' \in [Accounts -> Nat] /\ cash' \in [Accounts -> Nat]
      /\ poolCash' \in Nat /\ CashConserved'
  BY <1>1, <1>2, <1>5, PaidDown
<1> QED BY <1>2, <1>6, <1>7, ReleaseKeeps

-----------------------------------------------------------------------------
\* Every pool entry point keeps the invariant.
LEMMA PoolStepKeeps ==
  ASSUME PoolInv, PoolStep, UNCHANGED quote
  PROVE  PoolInv'
<1>1. ASSUME NEW adm \in Admins, InitPool(adm)
      PROVE  PoolInv'
  <2>1. UNCHANGED <<holdings, coll, debt, white, cash, poolCash>> /\ poolAdmin' = adm
    BY <1>1 DEF InitPool
  <2>2. PoolTypeOK' /\ CashConserved'
    BY <2>1, AccountsAssumption DEF PoolInv, PoolTypeOK, CashConserved
  <2> QED BY <2>1, <2>2, HoldingsKept DEF PoolInv
<1>2. ASSUME NEW who \in Liquidators, NEW ok \in BOOLEAN, SetWhitelist(who, ok)
      PROVE  PoolInv'
  <2>1. /\ UNCHANGED <<holdings, poolAdmin, coll, debt, cash, poolCash>>
        /\ white' = IF ok THEN white \cup {who} ELSE white \ {who}
    BY <1>2 DEF SetWhitelist
  <2>2. PoolTypeOK' /\ CashConserved'
    BY <2>1, AccountsAssumption, PoolAssumption DEF PoolInv, PoolTypeOK, CashConserved
  <2> QED BY <2>1, <2>2, HoldingsKept DEF PoolInv
<1>3. ASSUME NEW from \in Signers, PoolCall(from)
      PROVE  PoolInv'
  <2>0. /\ from \in Accounts /\ bal[from] \in Nat /\ coll[from] \in Nat /\ debt[from] \in Nat
        /\ Parcels \subseteq Nat /\ Loans \subseteq Nat
    BY AccountsAssumption, NumbersAssumption, PoolAssumption
       DEF PoolInv, IInv, TypeOK, PoolTypeOK
  <2>1. ASSUME NEW n \in Parcels \cup {bal[from]}, SupplyCollateral(from, n)
        PROVE  PoolInv'
    BY <2>0, <2>1, SupplyKeeps
  <2>2. ASSUME NEW n \in Parcels \cup {coll[from]}, WithdrawCollateral(from, n)
        PROVE  PoolInv'
    BY <2>0, <2>2, WithdrawCollateralKeeps
  <2>3. ASSUME NEW n \in Loans, Borrow(from, n)
        PROVE  PoolInv'
    BY <2>3, BorrowKeeps
  <2>4. ASSUME NEW n \in Loans \cup {debt[from]}, NEW fee \in CashFees, Repay(from, n, fee)
        PROVE  PoolInv'
    BY <2>0, <2>4, RepayKeeps
  <2>5. ASSUME NEW user \in Accounts, NEW fee \in CashFees,
               NEW n \in Loans \cup {MaxRepay(debt[user])}, Liquidate(from, user, n, fee)
        PROVE  PoolInv'
    <3>1. debt[user] \in Nat /\ CloseFactorDiv \in Nat \ {0}
      BY PoolAssumption DEF PoolInv, PoolTypeOK
    <3>2. n \in Nat
      BY <2>0, <3>1, HalfAtMost DEF MaxRepay
    <3> QED BY <2>5, <3>2, LiquidateKeeps
  <2> QED BY <1>3, <2>1, <2>2, <2>3, <2>4, <2>5 DEF PoolCall
<1> QED BY <1>1, <1>2, <1>3 DEF PoolStep

\* Every step of the composition keeps the invariant.
LEMMA PoolInvStep ==
  ASSUME PoolInv, [PoolNext]_vars
  PROVE  PoolInv'
<1>1. CASE UNCHANGED vars
  BY <1>1, VaultStepKeeps DEF vars
<1>2. CASE VaultStep
  BY <1>2, VaultStepKeeps DEF VaultStep
<1>3. CASE PoolStep /\ UNCHANGED quote
  BY <1>3, PoolStepKeeps
<1> QED BY <1>1, <1>2, <1>3 DEF PoolNext

\* It holds initially: nothing pledged, nothing owed, nothing granted.
LEMMA PoolInvInit == PoolInit => PoolInv
<1> SUFFICES ASSUME PoolInit PROVE PoolInv
  OBVIOUS
<1>1. IInv
  BY IInvInit DEF PoolInit
<1>2. PoolTypeOK /\ PoolGrantsNothing
  BY AccountsAssumption, PoolAssumption DEF PoolInit, PoolTypeOK, Init, PoolGrantsNothing
<1>3. Total(coll) = 0 /\ Total(debt) = 0
  BY TotalZero DEF PoolInit
<1>4. PoolBacked /\ CashConserved
  <2>1. bal[Pool] \in Nat /\ PoolSeed \in Nat /\ poolCash = PoolSeed
    BY <1>1, PoolAssumption DEF IInv, TypeOK, PoolInit
  <2> QED BY <1>3, <2>1 DEF PoolBacked, CashConserved
<1> QED BY <1>1, <1>2, <1>4 DEF PoolInv

\* The pool's invariant holds in every reachable state of pool and vault.
THEOREM PoolInvariant == PoolSpec => []PoolInv
<1>1. PoolInit => PoolInv
  BY PoolInvInit
<1>2. PoolInv /\ [PoolNext]_vars => PoolInv'
  BY PoolInvStep
<1> QED BY <1>1, <1>2, PTL DEF PoolSpec

\* Type correctness of the pool (every entry point of contracts/mini-pool).
THEOREM PoolTypesHold == PoolSpec => []PoolTypeOK
<1>1. PoolInv => PoolTypeOK
  BY DEF PoolInv
<1> QED BY <1>1, PoolInvariant, PTL

\* No interleaving of pledges, releases, seizures, direct share transfers and
\* allowance transfers leaves a position the pool could not return.
THEOREM PoolAlwaysBacked == PoolSpec => []PoolBacked
<1>1. PoolInv => PoolBacked
  BY DEF PoolInv
<1> QED BY <1>1, PoolInvariant, PTL

\* No loan, clamped repayment, fee or exhausted collateral makes a unit of the
\* lenders' money disappear: it is in the pool or owed to it.
THEOREM PoolCashConserved == PoolSpec => []CashConserved
<1>1. PoolInv => CashConserved
  BY DEF PoolInv
<1> QED BY <1>1, PoolInvariant, PTL

-----------------------------------------------------------------------------
(* Arithmetic *)

\* A ratio that does not fall keeps the floor of its multiples from falling.
LEMMA RatioFloor ==
  ASSUME NEW a \in Nat, NEW c \in Nat, NEW s \in Nat,
         NEW b \in Nat \ {0}, NEW e \in Nat \ {0}, a * e <= c * b
  PROVE  MulDivFloor(a, s, b) <= MulDivFloor(c, s, e)
<1> DEFINE f == MulDivFloor(a, s, b)
<1>1. f \in Nat /\ f * b <= a * s
  BY MulDivFloorBounds
<1> HIDE DEF f
<1>2. /\ a * e \in Nat /\ c * b \in Nat /\ a * s \in Nat /\ c * s \in Nat
      /\ f * b \in Nat /\ f * e \in Nat
  BY <1>1, ProductNat
<1>3. (f * b) * e <= (a * s) * e
  BY <1>1, <1>2, TimesKeepsOrder
<1>4. (a * e) * s <= (c * b) * s
  BY <1>2, TimesKeepsOrder
<1>5. /\ (f * b) * e = (f * e) * b /\ (a * s) * e = (a * e) * s
      /\ (c * b) * s = (c * s) * b
  BY <1>1
<1>6. (f * e) * b \in Nat /\ (a * e) * s \in Nat /\ (c * s) * b \in Nat
  BY <1>2, ProductNat
<1>7. (f * e) * b <= (c * s) * b
  BY <1>3, <1>4, <1>5, <1>6
<1>8. f * e <= c * s
  BY <1>2, <1>7, FactorCancels
<1>9. f <= (c * s) \div e
  BY <1>1, <1>2, <1>8, FloorGreatest
<1> QED BY <1>9 DEF f, MulDivFloor

\* A health factor of at least SCALE says that the adjusted collateral covers
\* the debt: the last division loses nothing.
LEMMA HealthyMeansCovered ==
  ASSUME NEW x \in Nat, NEW owed \in Nat \ {0}
  PROVE  MulDivFloor(x, SCALE, owed) >= SCALE <=> owed <= x
<1>0. SCALE \in Nat \ {0}
  BY NumbersAssumption
<1> DEFINE h == MulDivFloor(x, SCALE, owed)
<1>1. h \in Nat /\ h * owed <= x * SCALE
  BY <1>0, MulDivFloorBounds
<1>2. x * SCALE \in Nat /\ owed * SCALE = SCALE * owed /\ SCALE * owed \in Nat
  BY <1>0, ProductNat
<1>3. ASSUME owed <= x PROVE h >= SCALE
  <2>1. owed * SCALE <= x * SCALE
    BY <1>0, <1>3, TimesKeepsOrder
  <2>2. SCALE <= (x * SCALE) \div owed
    BY <1>0, <1>2, <2>1, FloorGreatest
  <2> QED BY <1>0, <1>1, <2>2 DEF MulDivFloor
<1>4. ASSUME h >= SCALE PROVE owed <= x
  <2> HIDE DEF h
  <2>1. SCALE * owed <= h * owed
    BY <1>0, <1>1, <1>4, TimesKeepsOrder
  <2>2. h * owed \in Nat
    BY <1>1, ProductNat
  <2>3. owed * SCALE <= x * SCALE
    BY <1>1, <1>2, <2>1, <2>2
  <2> QED BY <1>0, <2>3, FactorCancels
<1> QED BY <1>3, <1>4

-----------------------------------------------------------------------------
(* Collateral value at a given price *)

AdjustedAt(price, shares) ==
  MulDivFloor(IF shares = 0 THEN 0 ELSE MulDivFloor(shares, price, SCALE), LIQ, BPS)

\* Adjusted collateral is a natural that grows with the price and the shares.
LEMMA AdjustedKeepsOrder ==
  ASSUME NEW p \in Nat, NEW q \in Nat, NEW m \in Nat, NEW n \in Nat, p <= q, m <= n
  PROVE  /\ AdjustedAt(p, m) \in Nat /\ AdjustedAt(q, n) \in Nat
         /\ AdjustedAt(p, m) <= AdjustedAt(q, n)
<1>0. SCALE \in Nat \ {0} /\ BPS \in Nat \ {0} /\ LIQ \in Nat
  BY NumbersAssumption, PoolAssumption
<1> DEFINE v == IF m = 0 THEN 0 ELSE MulDivFloor(m, p, SCALE)
           w == IF n = 0 THEN 0 ELSE MulDivFloor(n, q, SCALE)
<1>1. v \in Nat /\ w \in Nat
  BY <1>0, MulDivFloorNat
<1>2. v <= w
  <2>1. MulDivFloor(m, p, SCALE) <= MulDivFloor(n, q, SCALE)
    BY <1>0, MulDivFloorKeepsOrder
  <2> QED BY <1>1, <2>1
<1>3. AdjustedAt(p, m) = MulDivFloor(v, LIQ, BPS) /\ AdjustedAt(q, n) = MulDivFloor(w, LIQ, BPS)
  BY DEF AdjustedAt
<1> HIDE DEF v, w
<1>4. LIQ <= LIQ
  BY <1>0
<1>5. MulDivFloor(v, LIQ, BPS) \in Nat /\ MulDivFloor(w, LIQ, BPS) \in Nat
  BY <1>0, <1>1, MulDivFloorNat
<1>6. MulDivFloor(v, LIQ, BPS) <= MulDivFloor(w, LIQ, BPS)
  BY <1>0, <1>1, <1>2, <1>4, MulDivFloorKeepsOrder
<1> QED BY <1>3, <1>5, <1>6

\* A leg of the price with its offset is a positive number.
LEMMA OffsetSum ==
  ASSUME NEW x \in Nat, NEW v \in Nat \ {0}
  PROVE  x + v \in Nat /\ x + v \in Nat \ {0}
OBVIOUS

\* The vault's reported price does not fall while the NAV stands still.
LEMMA PriceKeptByVault ==
  ASSUME IInv, [Next]_vaultVars, Nav' = Nav, Nav > 0
  PROVE  SharePrice \in Nat /\ SharePrice' \in Nat /\ SharePrice <= SharePrice'
<1>1. IInv'
  BY IInvStep
<1>2. /\ PoolValue + VIRT \in Nat /\ PoolValue' + VIRT \in Nat
      /\ total + VIRT \in Nat \ {0} /\ total' + VIRT \in Nat \ {0} /\ SCALE \in Nat
  <2>1. Nav \in Nat /\ SCALE \in Nat \ {0} /\ VIRT \in Nat \ {0}
    BY PricingTypes, NumbersAssumption DEF IInv
  <2>2. reserve' \in Nat /\ total' \in Nat
    BY <1>1 DEF IInv, TypeOK
  <2>3. PoolValue' = MulDivFloor(reserve', Nav, SCALE)
    BY DEF PoolValue
  <2>4. PoolValue' \in Nat
    BY <2>1, <2>2, <2>3, MulDivFloorNat
  <2>5. PoolValue + VIRT \in Nat /\ total + VIRT \in Nat \ {0}
    BY PricingTypes DEF IInv
  <2>6. PoolValue' + VIRT \in Nat
    BY <2>1, <2>4, OffsetSum
  <2>7. total' + VIRT \in Nat \ {0}
    BY <2>1, <2>2, OffsetSum
  <2> QED BY <2>1, <2>5, <2>6, <2>7
<1>3. (PoolValue' + VIRT) * (total + VIRT) >= (PoolValue + VIRT) * (total' + VIRT)
  BY PriceStep DEF PriceNotDiluted
<1> DEFINE a == PoolValue + VIRT
           b == total + VIRT
           c == PoolValue' + VIRT
           e == total' + VIRT
<1>4. SharePrice = MulDivFloor(a, SCALE, b) /\ SharePrice' = MulDivFloor(c, SCALE, e)
  BY DEF SharePrice
<1>5. a \in Nat /\ b \in Nat \ {0} /\ c \in Nat /\ e \in Nat \ {0}
  BY <1>2
<1>6. a * e <= c * b
  BY <1>3
<1> HIDE DEF a, b, c, e
<1>7. MulDivFloor(a, SCALE, b) <= MulDivFloor(c, SCALE, e)
  BY <1>2, <1>5, <1>6, RatioFloor
<1>8. MulDivFloor(a, SCALE, b) \in Nat /\ MulDivFloor(c, SCALE, e) \in Nat
  BY <1>2, <1>5, MulDivFloorNat
<1> QED BY <1>4, <1>7, <1>8

\* The pool's own entry points leave the price where it was.
LEMMA PriceKeptByPool ==
  ASSUME UNCHANGED <<total, configVars, tokenVars, quote>>
  PROVE  SharePrice' = SharePrice
BY DEF SharePrice, PoolValue, Nav, configVars, tokenVars

-----------------------------------------------------------------------------
(* Health *)

\* Health, said with the price made explicit.
LEMMA HealthyAtPrice ==
  ASSUME NEW s, NEW d, NEW s2, NEW d2
  PROVE  /\ Healthy(s, d) <=>
              (d # 0 => MulDivFloor(AdjustedAt(SharePrice, s), SCALE, d) >= SCALE)
BY DEF Healthy, Adjusted, CollValue, AdjustedAt

\* The same for a position after the step.
LEMMA HealthyAtNextPrice ==
  ASSUME NEW a \in Accounts
  PROVE  Healthy(coll[a], debt[a])' <=>
           (debt'[a] # 0 =>
              MulDivFloor(AdjustedAt(SharePrice', coll'[a]), SCALE, debt'[a]) >= SCALE)
BY DEF Healthy, Adjusted, CollValue, AdjustedAt

\* A position that loses no collateral, takes no debt and meets no lower price
\* stays healthy.
LEMMA HealthFollows ==
  ASSUME PoolInv, PoolInv', NEW a \in Accounts,
         SharePrice' \in Nat, SharePrice <= SharePrice',
         coll[a] <= coll'[a], debt'[a] <= debt[a],
         Healthy(coll[a], debt[a])
  PROVE  Healthy(coll[a], debt[a])'
<1>1. /\ coll[a] \in Nat /\ coll'[a] \in Nat /\ debt[a] \in Nat /\ debt'[a] \in Nat
      /\ SharePrice \in Nat
  BY SharePriceNat DEF PoolInv, PoolTypeOK
<1>2. SUFFICES ASSUME debt'[a] # 0
               PROVE  MulDivFloor(AdjustedAt(SharePrice', coll'[a]), SCALE, debt'[a]) >= SCALE
  BY HealthyAtNextPrice
<1> DEFINE x == AdjustedAt(SharePrice, coll[a])
           y == AdjustedAt(SharePrice', coll'[a])
<1>3. x \in Nat /\ y \in Nat /\ x <= y
  BY <1>1, AdjustedKeepsOrder
<1>4. debt[a] \in Nat \ {0} /\ debt'[a] \in Nat \ {0}
  BY <1>1, <1>2
<1>5. MulDivFloor(x, SCALE, debt[a]) >= SCALE
  BY <1>4 DEF Healthy, Adjusted, CollValue, AdjustedAt
<1> HIDE DEF x, y
<1>6. debt[a] <= x
  BY <1>3, <1>4, <1>5, HealthyMeansCovered
<1>7. debt'[a] <= y
  BY <1>1, <1>3, <1>6
<1>8. MulDivFloor(y, SCALE, debt'[a]) >= SCALE
  BY <1>3, <1>4, <1>7, HealthyMeansCovered
<1> QED BY <1>8 DEF y

-----------------------------------------------------------------------------
(* The steps *)

\* What other accounts do to the vault leaves every position healthy.
LEMMA VaultKeepsHealth ==
  ASSUME PoolInv, [Next]_vaultVars, UNCHANGED poolVars, Nav' = Nav, Nav > 0,
         NEW a \in Accounts
  PROVE  HealthKept(a)
<1>1. PoolInv'
  BY VaultStepKeeps
<1>2. SharePrice' \in Nat /\ SharePrice <= SharePrice'
  BY PriceKeptByVault DEF PoolInv
<1>3. coll[a] \in Nat /\ debt[a] \in Nat /\ coll'[a] = coll[a] /\ debt'[a] = debt[a]
  BY DEF PoolInv, PoolTypeOK, poolVars
<1>4. Healthy(coll[a], debt[a]) => Healthy(coll[a], debt[a])'
  BY <1>1, <1>2, <1>3, HealthFollows
<1> QED BY <1>4 DEF HealthKept

\* A pool call that takes nothing from a position and adds no debt to it.
LEMMA UntouchedKeepsHealth ==
  ASSUME PoolInv, PoolInv', NEW a \in Accounts, SharePrice' = SharePrice,
         coll[a] <= coll'[a], debt'[a] <= debt[a]
  PROVE  HealthKept(a)
<1>1. SharePrice \in Nat /\ SharePrice' \in Nat /\ SharePrice <= SharePrice'
  BY SharePriceNat DEF PoolInv
<1>2. Healthy(coll[a], debt[a]) => Healthy(coll[a], debt[a])'
  BY <1>1, HealthFollows
<1> QED BY <1>2 DEF HealthKept

\* A withdrawal of collateral is allowed only if what is left is healthy.
LEMMA ReleaseKeepsHealth ==
  ASSUME PoolInv, PoolInv', NEW from \in Signers, NEW n \in Nat,
         WithdrawCollateral(from, n), UNCHANGED quote, NEW a \in Accounts
  PROVE  HealthKept(a)
<1>0. from \in Accounts /\ coll \in [Accounts -> Nat] /\ debt \in [Accounts -> Nat]
  BY AccountsAssumption DEF PoolInv, PoolTypeOK
<1>1. SharePrice' = SharePrice
  BY PriceKeptByPool DEF WithdrawCollateral, MayWithdrawCollateral, Transfer
<1>2. coll' = Debit(coll, from, n) /\ debt' = debt /\ MayRelease(from, n)
  BY DEF WithdrawCollateral, MayWithdrawCollateral
<1>3. CASE a = from
  <2>1. coll'[a] = coll[a] - n /\ debt'[a] = debt[a]
    BY <1>0, <1>2, <1>3 DEF Debit
  <2>2. Healthy(coll[a] - n, debt[a])
    BY <1>2, <1>3 DEF MayRelease
  <2>3. Healthy(coll[a], debt[a])'
    BY <1>1, <2>1, <2>2, HealthyAtPrice, HealthyAtNextPrice
  <2> QED BY <2>3 DEF HealthKept
<1>4. CASE a # from
  <2>1. coll'[a] = coll[a] /\ debt'[a] = debt[a] /\ coll[a] \in Nat /\ debt[a] \in Nat
    BY <1>0, <1>2, <1>4 DEF Debit
  <2> QED BY <1>1, <2>1, UntouchedKeepsHealth
<1> QED BY <1>3, <1>4

\* A loan is checked against LTV, and what LTV allows is below LIQ.
LEMMA BorrowKeepsHealth ==
  ASSUME PoolInv, PoolInv', NEW from \in Signers, NEW amount \in Loans,
         Borrow(from, amount), UNCHANGED quote, NEW a \in Accounts
  PROVE  HealthKept(a)
<1>0. /\ from \in Accounts /\ coll \in [Accounts -> Nat] /\ debt \in [Accounts -> Nat]
      /\ amount \in Nat \ {0}
  BY AccountsAssumption, PoolAssumption DEF PoolInv, PoolTypeOK, Borrow, MayBorrow
<1>1. SharePrice' = SharePrice
  BY PriceKeptByPool DEF Borrow, MayBorrow, holdings, shareVars
<1>2. /\ debt' = Credit(debt, from, amount) /\ coll' = coll
      /\ debt[from] + amount <= MaxDebt(coll[from])
  BY DEF Borrow, MayBorrow
<1>3. CASE a = from
  <2> DEFINE owed == debt[a] + amount
             v == CollValue(coll[a])
  <2>1. coll'[a] = coll[a] /\ debt'[a] = owed /\ owed \in Nat \ {0}
    BY <1>0, <1>2, <1>3 DEF Credit
  <2>2. SharePrice \in Nat /\ coll[a] \in Nat
    BY <1>0, SharePriceNat DEF PoolInv
  <2>3. v \in Nat
    BY <2>2, MulDivFloorNat, NumbersAssumption DEF CollValue
  <2>4. /\ LTV \in Nat /\ LIQ \in Nat /\ BPS \in Nat \ {0} /\ LTV <= LIQ
    BY PoolAssumption
  <2>5. owed <= MulDivFloor(v, LTV, BPS)
    BY <1>2, <1>3 DEF MaxDebt
  <2>6. Adjusted(coll[a]) = MulDivFloor(v, LIQ, BPS)
    BY DEF Adjusted
  <2>7. AdjustedAt(SharePrice, coll[a]) = Adjusted(coll[a])
    BY DEF AdjustedAt, Adjusted, CollValue
  <2> HIDE DEF owed, v
  <2>8. /\ MulDivFloor(v, LTV, BPS) \in Nat /\ MulDivFloor(v, LIQ, BPS) \in Nat
    BY <2>3, <2>4, MulDivFloorNat
  <2>9. v <= v
    BY <2>3
  <2>10. MulDivFloor(v, LTV, BPS) <= MulDivFloor(v, LIQ, BPS)
    BY <2>3, <2>4, <2>9, MulDivFloorKeepsOrder
  <2>11. owed <= Adjusted(coll[a]) /\ Adjusted(coll[a]) \in Nat
    BY <2>1, <2>5, <2>6, <2>8, <2>10
  <2>12. MulDivFloor(Adjusted(coll[a]), SCALE, owed) >= SCALE
    BY <2>1, <2>11, HealthyMeansCovered
  <2>13. Healthy(coll[a], debt[a])'
    BY <1>1, <2>1, <2>7, <2>12, HealthyAtNextPrice
  <2> QED BY <2>13 DEF HealthKept
<1>4. CASE a # from
  <2>1. coll'[a] = coll[a] /\ debt'[a] = debt[a] /\ coll[a] \in Nat /\ debt[a] \in Nat
    BY <1>0, <1>2, <1>4 DEF Credit
  <2> QED BY <1>1, <2>1, UntouchedKeepsHealth
<1> QED BY <1>3, <1>4

\* Supplying and repaying only improve the position they touch.
LEMMA ImprovingKeepsHealth ==
  ASSUME PoolInv, PoolInv', NEW from \in Signers, UNCHANGED quote, NEW a \in Accounts,
         \/ \E n \in Nat : SupplyCollateral(from, n)
         \/ \E n \in Nat, fee \in CashFees : Repay(from, n, fee)
  PROVE  HealthKept(a)
<1>0. from \in Accounts /\ coll \in [Accounts -> Nat] /\ debt \in [Accounts -> Nat]
  BY AccountsAssumption DEF PoolInv, PoolTypeOK
<1>1. ASSUME NEW n \in Nat, SupplyCollateral(from, n) PROVE HealthKept(a)
  <2>1. coll' = Credit(coll, from, n) /\ debt' = debt
    BY <1>1 DEF SupplyCollateral
  <2>2. SharePrice' = SharePrice
    BY <1>1, PriceKeptByPool DEF SupplyCollateral, Transfer
  <2>3. coll[a] <= coll'[a] /\ debt'[a] <= debt[a]
    BY <1>0, <2>1 DEF Credit
  <2> QED BY <2>2, <2>3, UntouchedKeepsHealth
<1>2. ASSUME NEW n \in Nat, NEW fee \in CashFees, Repay(from, n, fee) PROVE HealthKept(a)
  <2> DEFINE got == AtMost(Measured(AtMost(n, debt[from]), fee), debt[from])
  <2>1. debt' = Debit(debt, from, got) /\ coll' = coll /\ UNCHANGED holdings
    BY <1>2 DEF Repay, MayRepay, Pay
  <2>2. SharePrice' = SharePrice
    BY <2>1, PriceKeptByPool DEF holdings, shareVars
  <2>3. got \in Nat
    <3>1. /\ Measured(AtMost(n, debt[from]), fee) > 0 /\ fee \in Nat /\ debt[from] \in Nat
      BY <1>0, <1>2, PoolAssumption DEF Repay, MayRepay, Pay
    <3> QED BY <3>1 DEF Measured, AtMost
  <2> HIDE DEF got
  <2>4. coll[a] <= coll'[a] /\ debt'[a] <= debt[a]
    BY <1>0, <2>1, <2>3 DEF Debit
  <2> QED BY <2>2, <2>4, UntouchedKeepsHealth
<1> QED BY <1>1, <1>2

\* A liquidation never touches a healthy position.
LEMMA LiquidateKeepsHealth ==
  ASSUME PoolInv, PoolInv', NEW liquidator \in Signers, NEW user \in Accounts,
         NEW repay, NEW fee, Liquidate(liquidator, user, repay, fee),
         UNCHANGED quote, NEW a \in Accounts
  PROVE  HealthKept(a)
<1>0. coll \in [Accounts -> Nat] /\ debt \in [Accounts -> Nat]
  BY DEF PoolInv, PoolTypeOK
<1>1. SharePrice' = SharePrice
  BY PriceKeptByPool DEF Liquidate, MayLiquidate, Transfer
<1>2. /\ ~Healthy(coll[user], debt[user])
      /\ \E d : debt' = Debit(debt, user, d)
      /\ \E c : coll' = Debit(coll, user, c)
  BY DEF Liquidate, MayLiquidate
<1>3. CASE a = user
  BY <1>2, <1>3 DEF HealthKept
<1>4. CASE a # user
  <2>1. coll'[a] = coll[a] /\ debt'[a] = debt[a] /\ coll[a] \in Nat /\ debt[a] \in Nat
    BY <1>0, <1>2, <1>4 DEF Debit
  <2> QED BY <1>1, <2>1, UntouchedKeepsHealth
<1> QED BY <1>3, <1>4

\* No step of the composition hurts a healthy position at a standing NAV.
LEMMA HealthStep ==
  ASSUME PoolInv, [PoolNext]_vars, Nav' = Nav, Nav > 0, NEW a \in Accounts
  PROVE  HealthKept(a)
<1>0. PoolInv'
  BY PoolInvStep
<1>1. ASSUME [Next]_vaultVars, UNCHANGED poolVars PROVE HealthKept(a)
  BY <1>1, VaultKeepsHealth
<1>2. ASSUME NEW from \in Signers, PoolCall(from), UNCHANGED quote
      PROVE  HealthKept(a)
  <2>0. /\ from \in Accounts /\ bal[from] \in Nat /\ coll[from] \in Nat /\ debt[from] \in Nat
        /\ Parcels \subseteq Nat /\ Loans \subseteq Nat
    BY AccountsAssumption, NumbersAssumption, PoolAssumption
       DEF PoolInv, IInv, TypeOK, PoolTypeOK
  <2>1. ASSUME NEW n \in Parcels \cup {bal[from]}, SupplyCollateral(from, n)
        PROVE  HealthKept(a)
    BY <1>0, <1>2, <2>0, <2>1, ImprovingKeepsHealth
  <2>2. ASSUME NEW n \in Parcels \cup {coll[from]}, WithdrawCollateral(from, n)
        PROVE  HealthKept(a)
    BY <1>0, <1>2, <2>0, <2>2, ReleaseKeepsHealth
  <2>3. ASSUME NEW n \in Loans, Borrow(from, n)
        PROVE  HealthKept(a)
    BY <1>0, <1>2, <2>3, BorrowKeepsHealth
  <2>4. ASSUME NEW n \in Loans \cup {debt[from]}, NEW fee \in CashFees, Repay(from, n, fee)
        PROVE  HealthKept(a)
    BY <1>0, <1>2, <2>0, <2>4, ImprovingKeepsHealth
  <2>5. ASSUME NEW user \in Accounts, NEW fee \in CashFees, NEW n,
               Liquidate(from, user, n, fee)
        PROVE  HealthKept(a)
    BY <1>0, <1>2, <2>5, LiquidateKeepsHealth
  <2> QED BY <1>2, <2>1, <2>2, <2>3, <2>4, <2>5 DEF PoolCall
<1>3. ASSUME \/ \E adm \in Admins : InitPool(adm)
             \/ \E who \in Liquidators, ok \in BOOLEAN : SetWhitelist(who, ok),
             UNCHANGED quote
      PROVE  HealthKept(a)
  <2>1. UNCHANGED <<holdings, coll, debt>>
    BY <1>3 DEF InitPool, SetWhitelist
  <2>2. SharePrice' = SharePrice
    BY <1>3, <2>1, PriceKeptByPool DEF holdings, shareVars
  <2>3. coll[a] <= coll'[a] /\ debt'[a] <= debt[a]
    BY <2>1 DEF PoolInv, PoolTypeOK
  <2> QED BY <1>0, <2>2, <2>3, UntouchedKeepsHealth
<1>4. CASE UNCHANGED vars
  BY <1>1, <1>4 DEF vars
<1> QED
  BY <1>1, <1>2, <1>3, <1>4 DEF PoolNext, VaultStep, PoolStep

\* Nothing that any account does to its own position, to the vault, or to
\* somebody else's position pushes a healthy position below the threshold:
\* only a change of the NAV does.
THEOREM PoolHealthOnlyByNav == PoolSpec => OnlyNavHurtsHealth
<1>1. ASSUME PoolInv, [PoolNext]_vars
      PROVE  (Nav' = Nav /\ Nav > 0) => \A a \in Accounts : HealthKept(a)
  BY <1>1, HealthStep
<1> QED BY <1>1, PoolInvariant, PTL DEF PoolSpec, OnlyNavHurtsHealth

-----------------------------------------------------------------------------
(* Settlement *)

\* The rounding-up helper, by its defining bounds.
LEMMA MulDivCeilBounds ==
  ASSUME NEW a \in Nat, NEW b \in Nat, NEW den \in Nat \ {0}
  PROVE  /\ a * b <= MulDivCeil(a, b, den) * den
         /\ MulDivCeil(a, b, den) * den < a * b + den
<1> DEFINE q == MulDivCeil(a, b, den)
<1>1. a * b \in Nat /\ a * b + (den - 1) \in Nat
  BY ProductNat
<1>2. q \in Nat /\ q * den <= a * b + (den - 1) /\ a * b + (den - 1) < q * den + den
  BY <1>1, FloorBounds DEF MulDivCeil
<1> HIDE DEF q
<1>3. q * den \in Nat
  BY <1>2, ProductNat
<1> QED BY <1>1, <1>2, <1>3 DEF q

\* Multiplication keeps a strict inequality between naturals.
LEMMA TimesKeepsStrictOrder ==
  ASSUME NEW a \in Nat, NEW b \in Nat, NEW c \in Nat \ {0}, a < b
  PROVE  a * c < b * c
<1>1. (a + 1) * c <= b * c
  BY TimesKeepsOrder
<1>2. (a + 1) * c = a * c + c
  OBVIOUS
<1> QED BY <1>1, <1>2, ProductNat

\* The shares owed for `got` are worth got plus the bonus, and less than one
\* share and one unit more: both divisions round up, by less than one each.
LEMMA SharesOwedWorth ==
  ASSUME NEW got \in Nat, NEW price \in Nat \ {0}, SharePrice = price
  PROVE  LET owed == got * (BPS + BONUS)
             n    == SharesOwed(got)
         IN /\ n \in Nat
            /\ n * price * BPS >= owed * SCALE
            /\ \A m \in Nat : m < n => m * price * BPS < (owed + BPS) * SCALE
<1> DEFINE owed == got * (BPS + BONUS)
           v == BonusValue(got)
           n == SharesOwed(got)
<1>0. BPS \in Nat \ {0} /\ BPS + BONUS \in Nat /\ SCALE \in Nat \ {0}
  BY PoolAssumption, NumbersAssumption
<1>1. owed \in Nat
  BY <1>0, ProductNat
<1>2. v \in Nat /\ owed <= v * BPS /\ v * BPS < owed + BPS
  BY <1>0, MulDivCeilNat, MulDivCeilBounds DEF BonusValue
<1> HIDE DEF owed, v
<1>3. n \in Nat /\ v * SCALE <= n * price /\ n * price < v * SCALE + price
  BY <1>0, <1>2, MulDivCeilNat, MulDivCeilBounds DEF SharesOwed, v
<1> HIDE DEF n
<1>4. /\ v * SCALE \in Nat /\ n * price \in Nat /\ v * BPS \in Nat /\ owed * SCALE \in Nat
      /\ owed + BPS \in Nat /\ (owed + BPS) * SCALE \in Nat
  BY <1>0, <1>1, <1>2, <1>3, ProductNat
<1>5. (v * SCALE) * BPS = (v * BPS) * SCALE
  BY <1>0, <1>2
<1>6. (v * SCALE) * BPS \in Nat /\ (n * price) * BPS \in Nat
  BY <1>0, <1>4, ProductNat
<1>7. n * price * BPS >= owed * SCALE
  <2>1. owed * SCALE <= (v * BPS) * SCALE
    BY <1>0, <1>1, <1>2, <1>4, TimesKeepsOrder
  <2>2. (v * SCALE) * BPS <= (n * price) * BPS
    BY <1>0, <1>3, <1>4, TimesKeepsOrder
  <2> QED BY <1>4, <1>5, <1>6, <2>1, <2>2
<1>8. ASSUME NEW m \in Nat, m < n
      PROVE  m * price * BPS < (owed + BPS) * SCALE
  <2>1. (m + 1) * price <= n * price /\ (m + 1) * price = m * price + price
    BY <1>3, <1>8, TimesKeepsOrder
  <2>2. m * price \in Nat
    BY ProductNat
  <2>3. m * price < v * SCALE
    BY <1>3, <1>4, <2>1, <2>2
  <2>4. (m * price) * BPS <= (v * SCALE) * BPS
    BY <1>0, <1>4, <2>2, <2>3, TimesKeepsOrder
  <2>5. (v * BPS) * SCALE < (owed + BPS) * SCALE
    BY <1>0, <1>2, <1>4, TimesKeepsStrictOrder
  <2>6. (m * price) * BPS \in Nat
    BY <1>0, <2>2, ProductNat
  <2> QED BY <1>4, <1>5, <1>6, <2>4, <2>5, <2>6
<1> QED BY <1>3, <1>7, <1>8 DEF n, owed

\* A liquidation settles fairly for its user, and touches nobody else.
LEMMA LiquidateFair ==
  ASSUME PoolInv, NEW user \in Accounts, NEW liquidator, NEW repay \in Nat, NEW fee \in CashFees,
         Liquidate(liquidator, user, repay, fee), NEW a \in Accounts
  PROVE  SeizureFair(a)
<1> DEFINE got == Measured(repay, fee)
           seize == Seizure(got, coll[user])
<1>0. /\ coll \in [Accounts -> Nat] /\ debt \in [Accounts -> Nat] /\ fee \in Nat
      /\ CloseFactorDiv \in Nat \ {0}
  BY PoolAssumption DEF PoolInv, PoolTypeOK
<1>1. /\ ~Healthy(coll[user], debt[user]) /\ got > 0 /\ got <= MaxRepay(debt[user])
      /\ PriceKnown
      /\ debt' = Debit(debt, user, got) /\ coll' = Debit(coll, user, seize)
  BY DEF Liquidate, MayLiquidate
<1>2. got \in Nat
  BY <1>0, <1>1 DEF Measured
<1>3. seize \in Nat /\ seize <= coll[user]
  BY <1>0, <1>1, <1>2, SeizureBounds DEF PoolInv
<1>4. SharePrice \in Nat \ {0}
  BY <1>1, SharePriceNat DEF PoolInv, PriceKnown
<1>5. seize = IF SharesOwed(got) <= coll[user] THEN SharesOwed(got) ELSE coll[user]
  BY DEF Seizure, AtMost
<1> HIDE DEF seize, got
<1>6. CASE a # user
  BY <1>0, <1>1, <1>6 DEF Debit, SeizureFair
<1>7. CASE a = user
  <2>1. /\ debt'[a] = debt[a] - got /\ coll'[a] = coll[a] - seize
        /\ coll[a] \in Nat /\ debt[a] \in Nat
    BY <1>0, <1>1, <1>7 DEF Debit
  <2>2. debt[a] - debt'[a] = got /\ coll[a] - coll'[a] = seize
    BY <1>2, <1>3, <2>1
  <2>3. got * CloseFactorDiv <= debt[a]
    <3> DEFINE half == MaxRepay(debt[a])
    <3>1. half \in Nat /\ half * CloseFactorDiv <= debt[a] /\ got <= half
      BY <1>0, <1>1, <1>7, <2>1, FloorBounds DEF MaxRepay
    <3> HIDE DEF half
    <3>2. got * CloseFactorDiv <= half * CloseFactorDiv
      BY <1>0, <1>2, <3>1, TimesKeepsOrder
    <3>3. got * CloseFactorDiv \in Nat /\ half * CloseFactorDiv \in Nat
      BY <1>0, <1>2, <3>1, ProductNat
    <3> QED BY <2>1, <3>1, <3>2, <3>3
  <2> DEFINE owed == got * (BPS + BONUS)
  <2>4. /\ SharesOwed(got) \in Nat
        /\ SharesOwed(got) * SharePrice * BPS >= owed * SCALE
        /\ \A m \in Nat : m < SharesOwed(got) => m * SharePrice * BPS < (owed + BPS) * SCALE
    BY <1>2, <1>4, SharesOwedWorth
  <2> HIDE DEF owed
  <2>5. seize * SharePrice * BPS >= owed * SCALE \/ coll'[a] = 0
    BY <1>5, <1>7, <2>1, <2>4
  <2>6. ASSUME seize > 0
        PROVE  (seize - 1) * SharePrice * BPS < (owed + BPS) * SCALE
    <3>1. seize - 1 \in Nat /\ seize - 1 < SharesOwed(got)
      BY <1>3, <1>5, <1>7, <2>1, <2>4, <2>6
    <3> QED BY <2>4, <3>1
  <2>7. ~Healthy(coll[a], debt[a])
    BY <1>1, <1>7
  <2> QED BY <2>2, <2>3, <2>5, <2>6, <2>7 DEF SeizureFair, owed
<1> QED BY <1>6, <1>7

\* No other step takes collateral and debt from a position together.
LEMMA SettlementStep ==
  ASSUME PoolInv, [PoolNext]_vars, NEW a \in Accounts
  PROVE  SeizureFair(a)
<1>0. /\ coll \in [Accounts -> Nat] /\ debt \in [Accounts -> Nat]
      /\ bal \in [Accounts -> Nat] /\ Signers \subseteq Accounts
      /\ Parcels \subseteq Nat /\ Loans \subseteq Nat
  BY AccountsAssumption, NumbersAssumption, PoolAssumption
     DEF PoolInv, IInv, TypeOK, PoolTypeOK
<1>1. ASSUME UNCHANGED coll \/ UNCHANGED debt PROVE SeizureFair(a)
  <2>1. coll[a] \in Nat /\ debt[a] \in Nat
    BY <1>0
  <2>2. coll[a] - coll[a] = 0 /\ debt[a] - debt[a] = 0
    BY <2>1
  <2> QED BY <1>1, <2>2 DEF SeizureFair
<1>2. ASSUME NEW from \in Signers, PoolCall(from) PROVE SeizureFair(a)
  <2>1. CASE \E n : SupplyCollateral(from, n)
    BY <1>1, <2>1 DEF SupplyCollateral
  <2>2. CASE \E n : WithdrawCollateral(from, n)
    BY <1>1, <2>2 DEF WithdrawCollateral, MayWithdrawCollateral
  <2>3. CASE \E n : Borrow(from, n)
    BY <1>1, <2>3 DEF Borrow, MayBorrow
  <2>4. CASE \E n, fee : Repay(from, n, fee)
    BY <1>1, <2>4 DEF Repay, MayRepay, Pay
  <2>5. ASSUME NEW user \in Accounts, NEW fee \in CashFees,
               NEW n \in Loans \cup {MaxRepay(debt[user])}, Liquidate(from, user, n, fee)
        PROVE  SeizureFair(a)
    <3>1. debt[user] \in Nat /\ CloseFactorDiv \in Nat \ {0}
      BY <1>0, PoolAssumption
    <3>2. n \in Nat
      BY <1>0, <3>1, HalfAtMost DEF MaxRepay
    <3> QED BY <2>5, <3>2, LiquidateFair
  <2> QED BY <1>2, <2>1, <2>2, <2>3, <2>4, <2>5 DEF PoolCall
<1>3. CASE PoolStep
  BY <1>1, <1>2, <1>3 DEF PoolStep, InitPool, SetWhitelist
<1>4. CASE VaultStep \/ UNCHANGED vars
  BY <1>1, <1>4 DEF VaultStep, vars, poolVars
<1> QED BY <1>3, <1>4 DEF PoolNext

\* Collateral leaves a position together with debt only in a liquidation of an
\* unhealthy position, for at most half its debt, and at the bonus: never less
\* than owed unless everything was taken, never a share and a unit too much.
THEOREM PoolSettlesFairly == PoolSpec => LiquidationSettlesFairly
<1>1. ASSUME PoolInv, [PoolNext]_vars
      PROVE  \A a \in Accounts : SeizureFair(a)
  BY <1>1, SettlementStep
<1> QED BY <1>1, PoolInvariant, PTL DEF PoolSpec, LiquidationSettlesFairly

-----------------------------------------------------------------------------
(* Ways out *)

\* The pool can hand out any part of a position.
LEMMA PositionsMovable ==
  ASSUME PoolInv, NEW a \in Accounts, NEW n \in Nat, n <= coll[a]
  PROVE  MayTransfer(Pool, n)
<1>1. /\ coll \in [Accounts -> Nat] /\ IsFiniteSet(Accounts) /\ Pool \in Accounts
      /\ bal[Pool] \in Nat /\ coll[a] \in Nat
  BY AccountsAssumption, PoolAssumption DEF PoolInv, PoolTypeOK, IInv, TypeOK
<1>2. coll[a] <= Total(coll) /\ Total(coll) \in Nat
  BY <1>1, EntryBound, TotalNat
<1> QED BY <1>1, <1>2 DEF MayTransfer, PoolInv, PoolBacked

\* repay and withdraw_collateral: without any price, whoever has the cash can
\* pay a debt off, and whoever has none can take the collateral back.
THEOREM PoolExitNeedsNoOracle == PoolSpec => []ExitNeedsNoOracle
<1>1. ASSUME PoolInv, PoolReady, NEW a \in Signers
      PROVE  /\ (debt[a] > 0 /\ cash[a] >= debt[a]) => MayRepay(a, debt[a], 0)
             /\ (debt[a] = 0 /\ coll[a] > 0) => MayWithdrawCollateral(a, coll[a])
  <2>1. a \in Accounts /\ coll[a] \in Nat /\ debt[a] \in Nat /\ cash[a] \in Nat
    BY AccountsAssumption, <1>1 DEF PoolInv, PoolTypeOK
  <2>2. MayTransfer(Pool, coll[a])
    BY <1>1, <2>1, PositionsMovable
  <2>3. ASSUME debt[a] > 0, cash[a] >= debt[a]
        PROVE  MayRepay(a, debt[a], 0)
    BY <1>1, <2>1, <2>3 DEF MayRepay, Pay, AtMost, Measured
  <2>4. ASSUME debt[a] = 0, coll[a] > 0
        PROVE  MayWithdrawCollateral(a, coll[a])
    BY <1>1, <2>1, <2>2, <2>4 DEF MayWithdrawCollateral, MayRelease, HfKnown, Healthy
  <2> QED BY <2>3, <2>4
<1>2. PoolInv => ExitNeedsNoOracle
  BY <1>1 DEF ExitNeedsNoOracle
<1> QED BY <1>2, PoolInvariant, PTL

\* liquidate: an unhealthy position of at least CloseFactorDiv can be repaid in
\* part by any whitelisted account with cash, as long as there is a price.
THEOREM PoolLiquidationAvailable == PoolSpec => []LiquidationAvailable
<1>1. ASSUME PoolInv, PoolReady, PriceKnown, NEW l \in white, NEW a \in Accounts,
             HfKnown(coll[a], debt[a]), ~Healthy(coll[a], debt[a]),
             debt[a] >= CloseFactorDiv, cash[l] > 0,
             Fits(BPS + BONUS + (BPS - 1)), Fits(BonusValue(1) * SCALE + (SharePrice - 1))
      PROVE  MayLiquidate(l, a, 1, 0)
  <2>1. /\ coll[a] \in Nat /\ debt[a] \in Nat /\ cash[l] \in Nat
        /\ CloseFactorDiv \in Nat \ {0} /\ BPS \in Nat /\ BONUS \in Nat
    BY <1>1, PoolAssumption DEF PoolInv, PoolTypeOK
  <2>2. 1 <= MaxRepay(debt[a])
    <3>1. 1 * CloseFactorDiv <= debt[a]
      BY <1>1, <2>1
    <3>2. 1 <= debt[a] \div CloseFactorDiv
      BY <2>1, <3>1, FloorGreatest
    <3> QED BY <3>2 DEF MaxRepay
  <2>3. Measured(1, 0) = 1
    BY DEF Measured
  <2>4. MayTransfer(Pool, Seizure(1, coll[a]))
    BY <1>1, <2>1, SeizureBounds, PositionsMovable DEF PoolInv
  <2>5. Fits(1 * (BPS + BONUS) + (BPS - 1))
    BY <1>1, <2>1 DEF Fits
  <2>6. 1 > 0 /\ 1 <= cash[l]
    BY <1>1, <2>1
  <2> QED BY <1>1, <2>2, <2>3, <2>4, <2>5, <2>6 DEF MayLiquidate
<1>2. PoolInv => LiquidationAvailable
  BY <1>1 DEF LiquidationAvailable
<1> QED BY <1>2, PoolInvariant, PTL

-----------------------------------------------------------------------------
(* What is shown.  The app, the SDK and the indexer compute with the same  *)
(* floors as the contracts, so most figures are the contracts' own up to   *)
(* the order of operations; where they are not, a floor of a floor is      *)
(* compared with one.                                                      *)

\* The value shown for some shares is the one the pool takes them for.
LEMMA ShownValue ==
  ASSUME IInv, NEW n \in Nat
  PROVE  (n * SharePrice) \div SCALE = CollValue(n) /\ CollValue(n) \in Nat
<1>1. SharePrice \in Nat /\ SCALE \in Nat \ {0}
  BY SharePriceNat, NumbersAssumption
<1>2. MulDivFloor(n, SharePrice, SCALE) \in Nat
  BY <1>1, MulDivFloorNat
<1>3. CASE n = 0
  <2>1. n * SharePrice = 0
    BY <1>1, <1>3
  <2>2. 0 \div SCALE = 0
    BY <1>1
  <2> QED BY <1>3, <2>1, <2>2 DEF CollValue
<1>4. CASE n # 0
  BY <1>2, <1>4 DEF CollValue, MulDivFloor
<1> QED BY <1>3, <1>4

\* The health shown is the pool's, of the same shares and debt.
LEMMA ShownHealthIs ==
  ASSUME IInv, NEW n \in Nat, NEW owed \in Nat \ {0}
  PROVE  /\ Adjusted(n) \in Nat
         /\ ShownHealth(n, owed) = MulDivFloor(Adjusted(n), SCALE, owed)
         /\ ShownHealth(n, owed) \in Nat
<1>1. CollValue(n) \in Nat /\ LIQ \in Nat /\ BPS \in Nat \ {0} /\ SCALE \in Nat
  BY ShownValue, PoolAssumption, NumbersAssumption
<1>2. Adjusted(n) \in Nat
  BY <1>1, MulDivFloorNat DEF Adjusted
<1>3. MulDivFloor(Adjusted(n), SCALE, owed) \in Nat
  BY <1>1, <1>2, MulDivFloorNat
<1> QED BY <1>2, <1>3, ShownValue DEF ShownHealth, MulDivFloor, Adjusted

\* The pool never lends up to what it would liquidate.
LEMMA LentBelowThreshold ==
  ASSUME IInv, NEW n \in Nat
  PROVE  MaxDebt(n) \in Nat /\ MaxDebt(n) <= Adjusted(n) /\ MaxDebt(n) <= CollValue(n) * LTV
<1>1. /\ CollValue(n) \in Nat /\ CollValue(n) <= CollValue(n)
      /\ LTV \in Nat /\ LIQ \in Nat /\ LTV <= LIQ /\ BPS \in Nat \ {0}
  BY ShownValue, PoolAssumption
<1>2. MulDivFloor(CollValue(n), LTV, BPS) <= MulDivFloor(CollValue(n), LIQ, BPS)
  BY <1>1, MulDivFloorKeepsOrder
<1>3. CollValue(n) * LTV \in Nat
  BY <1>1, ProductNat
<1>4. MulDivFloor(CollValue(n), LTV, BPS) \in Nat
      /\ MulDivFloor(CollValue(n), LTV, BPS) <= CollValue(n) * LTV
  BY <1>1, <1>3, HalfAtMost DEF MulDivFloor
<1> QED BY <1>2, <1>4 DEF MaxDebt, Adjusted

\* Fewer shares are worth no more, and their sums stay in range.
LEMMA FewerKnown ==
  ASSUME IInv, NEW m \in Nat, NEW n \in Nat, NEW owed \in Nat, m <= n, n # 0,
         HfKnown(n, owed)
  PROVE  HfKnown(m, owed)
<1>1. SUFFICES ASSUME owed # 0 PROVE HfKnown(m, owed)
  BY DEF HfKnown
<1>2. /\ SharePrice \in Nat /\ SharePrice <= SharePrice /\ SCALE \in Nat \ {0} /\ LIQ \in Nat
      /\ LIQ <= LIQ /\ BPS \in Nat \ {0} /\ I128Max \in Nat /\ SCALE <= SCALE
  BY SharePriceNat, NumbersAssumption, PoolAssumption, I128MaxAssumption
<1>3. PriceKnown /\ n * SharePrice <= I128Max /\ CollValue(n) * LIQ <= I128Max
      /\ Adjusted(n) * SCALE <= I128Max
  BY <1>1 DEF HfKnown, CollKnown, Fits
<1>4. /\ CollValue(m) \in Nat /\ CollValue(n) \in Nat
      /\ Adjusted(m) = AdjustedAt(SharePrice, m) /\ Adjusted(n) = AdjustedAt(SharePrice, n)
  BY ShownValue DEF Adjusted, AdjustedAt, CollValue
<1>5. m * SharePrice <= n * SharePrice
  BY <1>2, TimesKeepsOrder
<1>6. CollValue(m) <= CollValue(n)
  <2>1. MulDivFloor(m, SharePrice, SCALE) <= MulDivFloor(n, SharePrice, SCALE)
    BY <1>2, MulDivFloorKeepsOrder
  <2> QED BY <1>4, <2>1 DEF CollValue
<1>7. Adjusted(m) \in Nat /\ Adjusted(n) \in Nat /\ Adjusted(m) <= Adjusted(n)
  BY <1>2, <1>4, AdjustedKeepsOrder
<1>8. CollValue(m) * LIQ <= CollValue(n) * LIQ /\ Adjusted(m) * SCALE <= Adjusted(n) * SCALE
  BY <1>2, <1>4, <1>6, <1>7, TimesKeepsOrder
<1>9. /\ m * SharePrice \in Nat /\ n * SharePrice \in Nat
      /\ CollValue(m) * LIQ \in Nat /\ CollValue(n) * LIQ \in Nat
      /\ Adjusted(m) * SCALE \in Nat /\ Adjusted(n) * SCALE \in Nat
  BY <1>2, <1>4, <1>7, ProductNat
<1> QED BY <1>2, <1>3, <1>5, <1>8, <1>9 DEF HfKnown, CollKnown, Fits

\* Borrow.tsx, "Max borrow remaining".
LEMMA HeadroomIsLent ==
  ASSUME PoolInv, PoolReady, PriceKnown, NEW a \in Signers, InRange(a)
  PROVE  HeadroomLent(a)
<1> DEFINE lent == MaxDebt(coll[a])
<1>1. /\ coll[a] \in Nat /\ debt[a] \in Nat /\ poolCash \in Nat /\ IInv
      /\ I128Max \in Nat
  BY AccountsAssumption, I128MaxAssumption DEF PoolInv, PoolTypeOK
<1>2. lent \in Nat /\ lent <= CollValue(coll[a]) * LTV
  BY <1>1, LentBelowThreshold
<1>3. CollValue(coll[a]) * LTV \in Nat /\ CollValue(coll[a]) * LTV <= I128Max
  <2>1. CollValue(coll[a]) \in Nat /\ LTV \in Nat
    BY <1>1, ShownValue, PoolAssumption
  <2> QED BY <2>1, ProductNat DEF InRange, Fits
<1>4. Headroom(a) = lent - debt[a]
  BY <1>1, ShownValue DEF Headroom, MaxDebt, MulDivFloor
<1> HIDE DEF lent
<1>5. debt[a] + Headroom(a) = lent /\ Headroom(a) \in Int
  BY <1>1, <1>2, <1>4
<1>6. ASSUME Headroom(a) > 0, Headroom(a) <= poolCash
      PROVE  MayBorrow(a, Headroom(a))
  <2>1. Fits(debt[a] + Headroom(a))
    BY <1>1, <1>2, <1>3, <1>5 DEF Fits
  <2>2. debt[a] + Headroom(a) <= MaxDebt(coll[a])
    BY <1>2, <1>5 DEF lent
  <2> QED BY <1>6, <2>1, <2>2 DEF MayBorrow, InRange
<1>7. ~MayBorrow(a, Headroom(a) + 1)
  <2>1. ~(debt[a] + (Headroom(a) + 1) <= lent)
    BY <1>1, <1>2, <1>4
  <2> QED BY <2>1 DEF MayBorrow, lent
<1> QED BY <1>6, <1>7 DEF HeadroomLent

\* Borrow.tsx, the warnings of the two tabs that lower the health.
LEMMA WarningsAreTrue ==
  ASSUME PoolInv, PoolReady, PriceKnown, NEW a \in Signers, InRange(a)
  PROVE  WarningsTrue(a)
<1>1. /\ a \in Accounts /\ coll[a] \in Nat /\ debt[a] \in Nat /\ IInv
      /\ Parcels \subseteq Nat /\ Loans \subseteq Nat /\ SCALE \in Nat \ {0}
  BY AccountsAssumption, NumbersAssumption, PoolAssumption DEF PoolInv, PoolTypeOK
<1>2. ASSUME NEW n \in Nat, n > 0, UnsafeBorrow(a, n)
      PROVE  ~MayBorrow(a, n)
  <2>1. debt[a] + n \in Nat \ {0}
    BY <1>1, <1>2
  <2>2. ~(MulDivFloor(Adjusted(coll[a]), SCALE, debt[a] + n) >= SCALE)
        /\ Adjusted(coll[a]) \in Nat
    BY <1>1, <1>2, <2>1, ShownHealthIs DEF UnsafeBorrow
  <2>3. ~(debt[a] + n <= Adjusted(coll[a]))
    BY <2>1, <2>2, HealthyMeansCovered
  <2>4. MaxDebt(coll[a]) \in Nat /\ MaxDebt(coll[a]) <= Adjusted(coll[a])
    BY <1>1, LentBelowThreshold
  <2>5. ~(debt[a] + n <= MaxDebt(coll[a]))
    BY <2>1, <2>2, <2>3, <2>4
  <2> QED BY <2>5 DEF MayBorrow
<1>3. ASSUME NEW n \in Nat, n > 0, n <= coll[a]
      PROVE  UnsafeWithdraw(a, n) <=> ~MayWithdrawCollateral(a, n)
  <2> DEFINE left == coll[a] - n
  <2>1. left \in Nat /\ left <= coll[a] /\ coll[a] # 0
    BY <1>1, <1>3
  <2>2. HfKnown(left, debt[a])
    BY <1>1, <2>1, FewerKnown DEF InRange
  <2>3. MayTransfer(Pool, n)
    BY <1>1, <1>3, PositionsMovable
  <2>4. MayWithdrawCollateral(a, n) <=> Healthy(left, debt[a])
    BY <1>1, <1>3, <2>2, <2>3 DEF MayWithdrawCollateral, MayRelease
  <2>5. UnsafeWithdraw(a, n) <=> ~Healthy(left, debt[a])
    <3>1. CASE debt[a] = 0
      BY <3>1 DEF UnsafeWithdraw, Healthy
    <3>2. CASE debt[a] # 0
      <4>1. ShownHealth(left, debt[a]) = MulDivFloor(Adjusted(left), SCALE, debt[a])
            /\ ShownHealth(left, debt[a]) \in Nat
        BY <1>1, <2>1, <3>2, ShownHealthIs
      <4> QED BY <1>1, <3>2, <4>1 DEF UnsafeWithdraw, Healthy
    <3> QED BY <3>1, <3>2
  <2> QED BY <2>4, <2>5
<1>4. \A n \in Parcels \cup Loans \cup {coll[a]} : n \in Nat
  BY <1>1
<1> QED BY <1>2, <1>3, <1>4 DEF WarningsTrue

\* The SDK's rounding up is the contracts'.
LEMMA CeilingAgrees ==
  ASSUME NEW a \in Nat, NEW b \in Nat, NEW d \in Nat \ {0}
  PROVE  CeilDiv(a * b, d) = MulDivCeil(a, b, d)
<1>1. a * b \in Nat
  BY ProductNat
<1>2. a * b + d - 1 = a * b + (d - 1)
  BY <1>1
<1> QED BY <1>2 DEF CeilDiv, MulDivCeil

\* math.ts, Liquidate.tsx and VaultDetail.tsx: no figure for a seizure is above
\* what is owed, and none for a redemption above what is claimed.
LEMMA FiguresAreSafe ==
  ASSUME IInv, PriceKnown, NEW n \in Nat
  PROVE  /\ QuoteSeize(n) = SharesOwed(n)
         /\ SeizePreview(n) <= QuoteSeize(n)
         /\ UnwrapFigure(n) <= ClaimValue(n)
<1> DEFINE p    == SharePrice
           owed == n * (BPS + BONUS)
           v    == BonusValue(n)
           w    == SharesOwed(n)
           x    == (owed * SCALE) \div BPS
<1>1. /\ p \in Nat \ {0} /\ BPS \in Nat \ {0} /\ BPS + BONUS \in Nat /\ SCALE \in Nat
  BY SharePriceNat, PoolAssumption, NumbersAssumption DEF PriceKnown
<1>2. owed \in Nat /\ owed * SCALE \in Nat
  BY <1>1, ProductNat
<1>3. v \in Nat /\ owed <= v * BPS
  BY <1>1, MulDivCeilNat, MulDivCeilBounds DEF BonusValue
<1>4. w \in Nat /\ v * SCALE <= w * p
  BY <1>1, <1>3, MulDivCeilNat, MulDivCeilBounds DEF SharesOwed
<1>5. QuoteSeize(n) = w
  <2>1. CeilDiv(owed, BPS) = v
    BY <1>1, CeilingAgrees DEF BonusValue
  <2>2. CeilDiv(v * SCALE, p) = w
    BY <1>1, <1>3, CeilingAgrees DEF SharesOwed
  <2> QED BY <2>1, <2>2 DEF QuoteSeize
<1>6. SeizePreview(n) = x \div p
  BY DEF SeizePreview
<1> HIDE DEF p, owed, v, w
<1>7. x \in Nat /\ x * BPS <= owed * SCALE
  BY <1>1, <1>2, FloorBounds
<1> HIDE DEF x
<1>8. /\ v * BPS \in Nat /\ v * SCALE \in Nat /\ w * p \in Nat /\ x * BPS \in Nat
      /\ (v * BPS) * SCALE \in Nat /\ (v * SCALE) * BPS \in Nat
  BY <1>1, <1>3, <1>4, <1>7, ProductNat
<1>9. owed * SCALE <= (v * BPS) * SCALE /\ (v * BPS) * SCALE = (v * SCALE) * BPS
  BY <1>1, <1>2, <1>3, <1>8, TimesKeepsOrder
<1>10. x * BPS <= (v * SCALE) * BPS
  BY <1>2, <1>7, <1>8, <1>9
<1>11. x <= v * SCALE
  BY <1>1, <1>7, <1>8, <1>10, FactorCancels
<1>12. x \div p <= w
  <2> DEFINE y == x \div p
  <2>1. y \in Nat /\ y * p <= x
    BY <1>1, <1>7, FloorBounds
  <2> HIDE DEF y
  <2>2. y * p \in Nat
    BY <1>1, <2>1, ProductNat
  <2>3. y * p <= w * p
    BY <1>4, <1>7, <1>8, <1>11, <2>1, <2>2
  <2>4. y <= w
    BY <1>1, <1>4, <2>1, <2>3, FactorCancels
  <2> QED BY <2>4 DEF y
<1>13. UnwrapFigure(n) <= ClaimValue(n)
  BY QuotedAtMostClaim DEF IInv, UnwrapFigure, MulDivFloor
<1> QED BY <1>5, <1>6, <1>12, <1>13 DEF w

\* risk.ts: the at-risk list at 1.0 is the list of what can be liquidated.
LEMMA AtRiskIsUnhealthy ==
  ASSUME PoolInv
  PROVE  AtRisk(SCALE) = {a \in Accounts : ~Healthy(coll[a], debt[a])}
<1>1. ASSUME NEW a \in Accounts
      PROVE  (debt[a] > 0 /\ ShownHealth(coll[a], debt[a]) < SCALE) <=> ~Healthy(coll[a], debt[a])
  <2>1. coll[a] \in Nat /\ debt[a] \in Nat /\ IInv /\ SCALE \in Nat
    BY NumbersAssumption DEF PoolInv, PoolTypeOK
  <2>2. CASE debt[a] = 0
    BY <2>2 DEF Healthy
  <2>3. CASE debt[a] # 0
    <3>1. ShownHealth(coll[a], debt[a]) = MulDivFloor(Adjusted(coll[a]), SCALE, debt[a])
          /\ ShownHealth(coll[a], debt[a]) \in Nat
      BY <2>1, <2>3, ShownHealthIs
    <3> QED BY <2>1, <2>3, <3>1 DEF Healthy
  <2> QED BY <2>2, <2>3
<1> QED BY <1>1 DEF AtRisk, ComputeAtRisk

\* What the app and the indexer show of positions is what the pool enforces,
\* for every value of its parameters and of anybody's position.
THEOREM PoolEnforcesShown == PoolSpec => []ShownIsEnforced
<1>1. ASSUME PoolInv, PoolReady, PriceKnown
      PROVE  FiguresSafe
  <2>1. \A n \in Parcels \cup Loans : n \in Nat
    BY NumbersAssumption, PoolAssumption
  <2>2. IInv
    BY <1>1 DEF PoolInv
  <2> QED BY <1>1, <2>1, <2>2, FiguresAreSafe DEF FiguresSafe
<1>2. PoolInv => ShownIsEnforced
  BY <1>1, HeadroomIsLent, WarningsAreTrue, AtRiskIsUnhealthy DEF ShownIsEnforced
<1> QED BY <1>2, PoolInvariant, PTL

-----------------------------------------------------------------------------
(* What a call does.  Each tab of the borrow form calls one entry point,   *)
(* and none of those moves the price, so the health after the call is the  *)
(* one shown for the position that the call leaves.                        *)

\* health_factor after a step that leaves the price is the figure shown for the
\* position there is then.
LEMMA HealthAfterIs ==
  ASSUME IInv, SharePrice' = SharePrice, NEW a \in Accounts,
         coll'[a] \in Nat, debt'[a] \in Nat
  PROVE  HealthAfter(a) = HfEstimate(coll'[a], debt'[a])
<1>1. Adjusted(coll[a])' = Adjusted(coll'[a])
  <2>1. Adjusted(coll[a])' = AdjustedAt(SharePrice', coll'[a])
    BY DEF Adjusted, CollValue, AdjustedAt
  <2>2. Adjusted(coll'[a]) = AdjustedAt(SharePrice, coll'[a])
    BY DEF Adjusted, CollValue, AdjustedAt
  <2> QED BY <2>1, <2>2
<1>2. CASE debt'[a] = 0
  BY <1>2 DEF HealthAfter, HfEstimate
<1>3. CASE debt'[a] # 0
  <2>1. ShownHealth(coll'[a], debt'[a]) = MulDivFloor(Adjusted(coll'[a]), SCALE, debt'[a])
    BY <1>3, ShownHealthIs
  <2> QED BY <1>1, <1>3, <2>1 DEF HealthAfter, HfEstimate
<1> QED BY <1>2, <1>3

\* The entry points behind the four tabs, by what they do to the caller's position.
LEMMA TabMoves ==
  ASSUME PoolInv, NEW a \in Signers, NEW n \in Nat, NEW tab \in Tabs, TabCall(tab, a, n)
  PROVE  /\ SharePrice' = SharePrice
         /\ coll'[a] \in Nat /\ debt'[a] \in Nat
         /\ HfEstimate(coll'[a], debt'[a]) = PostHf(tab, a, n)
<1>1. /\ a \in Accounts /\ a # Pool /\ coll[a] \in Nat /\ debt[a] \in Nat
      /\ coll \in [Accounts -> Nat] /\ debt \in [Accounts -> Nat]
  BY AccountsAssumption, PoolAssumption DEF PoolInv, PoolTypeOK
<1>2. CASE tab = "supply"
  <2>1. SupplyCollateral(a, n) /\ UNCHANGED quote
    BY <1>2 DEF TabCall, ClientCall
  <2>2. coll'[a] = coll[a] + n /\ debt'[a] = debt[a]
    BY <1>1, <2>1 DEF SupplyCollateral, Credit
  <2>3. SharePrice' = SharePrice
    BY <2>1, PriceKeptByPool DEF SupplyCollateral, Transfer
  <2>4. PostHf(tab, a, n) = HfEstimate(coll[a] + n, debt[a])
    BY <1>2 DEF PostHf
  <2> QED BY <1>1, <2>2, <2>3, <2>4
<1>3. CASE tab = "withdraw"
  <2>1. WithdrawCollateral(a, n) /\ UNCHANGED quote
    BY <1>3 DEF TabCall, ClientCall
  <2>2. coll'[a] = coll[a] - n /\ n <= coll[a] /\ debt'[a] = debt[a]
    BY <1>1, <2>1 DEF WithdrawCollateral, MayWithdrawCollateral, Debit
  <2>3. SharePrice' = SharePrice
    BY <2>1, PriceKeptByPool DEF WithdrawCollateral, Transfer
  <2>4. PostHf(tab, a, n) = HfEstimate(coll[a] + -n, debt[a])
    BY <1>3 DEF PostHf
  <2>5. coll[a] + -n = coll[a] - n /\ coll[a] - n \in Nat
    BY <1>1, <2>2
  <2> QED BY <1>1, <2>2, <2>3, <2>4, <2>5
<1>4. CASE tab = "borrow"
  <2>1. Borrow(a, n) /\ UNCHANGED quote
    BY <1>4 DEF TabCall, ClientCall
  <2>2. coll'[a] = coll[a] /\ debt'[a] = debt[a] + n
    BY <1>1, <2>1 DEF Borrow, Credit
  <2>3. SharePrice' = SharePrice
    BY <2>1, PriceKeptByPool DEF Borrow, holdings, shareVars
  <2>4. PostHf(tab, a, n) = HfEstimate(coll[a] + 0, debt[a] + n)
    BY <1>4 DEF PostHf
  <2> QED BY <1>1, <2>2, <2>3, <2>4
<1>5. CASE tab = "repay"
  <2>1. Repay(a, n, 0) /\ UNCHANGED quote
    BY <1>5 DEF TabCall, ClientCall
  <2> DEFINE left == IF debt[a] > n THEN debt[a] - n ELSE 0
  <2>2. coll'[a] = coll[a] /\ debt'[a] = left
    <3>1. AtMost(Measured(Pay(a, n), 0), debt[a]) = (IF debt[a] > n THEN n ELSE debt[a])
      BY <1>1 DEF AtMost, Measured, Pay
    <3>2. debt' = Debit(debt, a, AtMost(Measured(Pay(a, n), 0), debt[a])) /\ coll' = coll
      BY <2>1 DEF Repay
    <3> QED BY <1>1, <3>1, <3>2 DEF Debit
  <2>3. SharePrice' = SharePrice
    BY <2>1, PriceKeptByPool DEF Repay, holdings, shareVars
  <2>4. PostHf(tab, a, n) = HfEstimate(coll[a] + 0, left)
    BY <1>1, <1>5 DEF PostHf
  <2>5. left \in Nat
    BY <1>1
  <2> QED BY <1>1, <2>2, <2>3, <2>4, <2>5
<1> QED BY <1>2, <1>3, <1>4, <1>5 DEF Tabs

\* The fourth tab when the token keeps a fee: less of the debt is gone.
LEMMA FeeLeavesLess ==
  ASSUME PoolInv, NEW a \in Signers, NEW n \in Nat, NEW fee \in CashFees,
         Repay(a, n, fee), UNCHANGED quote, debt[a] > n
  PROVE  HealthAfter(a) <= PostHf("repay", a, n)
<1> DEFINE left == debt[a] - n
           owed == debt[a] - (n - fee)
<1>1. /\ a \in Accounts /\ coll[a] \in Nat /\ debt[a] \in Nat /\ debt \in [Accounts -> Nat]
      /\ fee \in Nat /\ SCALE \in Nat /\ IInv
  BY AccountsAssumption, PoolAssumption, NumbersAssumption DEF PoolInv, PoolTypeOK
<1>2. n - fee > 0 /\ n - fee <= debt[a]
  BY <1>1 DEF Repay, MayRepay, Measured, Pay, AtMost
<1>3. coll'[a] = coll[a] /\ debt'[a] = owed
  <2>1. AtMost(Measured(Pay(a, n), fee), debt[a]) = n - fee
    BY <1>1, <1>2 DEF AtMost, Measured, Pay
  <2>2. debt' = Debit(debt, a, AtMost(Measured(Pay(a, n), fee), debt[a])) /\ coll' = coll
    BY DEF Repay
  <2> QED BY <1>1, <2>1, <2>2 DEF Debit
<1>4. left \in Nat \ {0} /\ owed \in Nat \ {0} /\ left <= owed
  BY <1>1, <1>2
<1>5. SharePrice' = SharePrice
  BY PriceKeptByPool DEF Repay, holdings, shareVars
<1>6. HealthAfter(a) = HfEstimate(coll[a], owed)
  BY <1>1, <1>3, <1>4, <1>5, HealthAfterIs
<1>7. PostHf("repay", a, n) = HfEstimate(coll[a], left)
  <2>1. PostHf("repay", a, n) = HfEstimate(coll[a] + 0, left)
    BY <1>1 DEF PostHf
  <2> QED BY <1>1, <2>1
<1> HIDE DEF left, owed
<1>8. /\ Adjusted(coll[a]) \in Nat
      /\ ShownHealth(coll[a], owed) = MulDivFloor(Adjusted(coll[a]), SCALE, owed)
      /\ ShownHealth(coll[a], left) = MulDivFloor(Adjusted(coll[a]), SCALE, left)
  BY <1>1, <1>4, ShownHealthIs
<1>9. MulDivFloor(Adjusted(coll[a]), SCALE, owed) <= MulDivFloor(Adjusted(coll[a]), SCALE, left)
  <2> DEFINE x == Adjusted(coll[a])
  <2>1. left * x <= owed * x /\ left * x = x * left /\ owed * x = x * owed
    BY <1>4, <1>8, TimesKeepsOrder
  <2> QED BY <1>1, <1>4, <1>8, <2>1, RatioFloor
<1>10. HfEstimate(coll[a], owed) = ShownHealth(coll[a], owed)
       /\ HfEstimate(coll[a], left) = ShownHealth(coll[a], left)
  BY <1>4 DEF HfEstimate
<1> QED BY <1>6, <1>7, <1>8, <1>9, <1>10

\* Borrow.tsx, "HF before -> after", and the SDK's preview of it.
LEMMA HealthIsForeseen ==
  ASSUME PoolInv, NEW a \in Signers, NEW n \in Nat
  PROVE  HealthForeseen(a, n)
<1>1. a \in Accounts /\ coll[a] \in Nat /\ IInv
  BY AccountsAssumption DEF PoolInv, PoolTypeOK
<1>2. ASSUME NEW tab \in Tabs, TabCall(tab, a, n)
      PROVE  HealthAfter(a) = PostHf(tab, a, n)
  <2>1. /\ SharePrice' = SharePrice /\ coll'[a] \in Nat /\ debt'[a] \in Nat
        /\ HfEstimate(coll'[a], debt'[a]) = PostHf(tab, a, n)
    BY <1>2, TabMoves
  <2> QED BY <1>1, <2>1, HealthAfterIs
<1>3. PostHf("borrow", a, n) = PreviewHealthFactor(a, 0, n)
  BY DEF PostHf, PreviewHealthFactor
<1>4. ASSUME NEW fee \in CashFees \ {0}, Repay(a, n, fee), UNCHANGED quote, debt[a] > n
      PROVE  HealthAfter(a) <= PostHf("repay", a, n)
  BY <1>4, FeeLeavesLess
<1> QED BY <1>2, <1>3, <1>4 DEF HealthForeseen

\* What a deposit mints is at most what its value buys at the share price.
LEMMA MintAtMostPrice ==
  ASSUME NEW P \in Nat, NEW T \in Nat \ {0}, NEW p \in Nat, NEW vi \in Nat, NEW sh \in Nat,
         NEW paid \in Nat, NEW scale \in Nat,
         sh * P <= vi * T, vi * scale <= paid, p * T <= P * scale
  PROVE  sh * p <= paid
<1>1. /\ sh * P \in Nat /\ vi * T \in Nat /\ vi * scale \in Nat /\ p * T \in Nat
      /\ P * scale \in Nat /\ sh * p \in Nat /\ paid * T \in Nat
      /\ (p * T) * sh \in Nat /\ (P * scale) * sh \in Nat
      /\ (sh * P) * scale \in Nat /\ (vi * T) * scale \in Nat
      /\ (vi * scale) * T \in Nat /\ (sh * p) * T \in Nat
  BY ProductNat
<1>2. (sh * p) * T = (p * T) * sh
  OBVIOUS
<1>3. (p * T) * sh <= (P * scale) * sh
  BY <1>1, TimesKeepsOrder
<1>4. (P * scale) * sh = (sh * P) * scale
  OBVIOUS
<1>5. (sh * P) * scale <= (vi * T) * scale
  BY <1>1, TimesKeepsOrder
<1>6. (vi * T) * scale = (vi * scale) * T
  OBVIOUS
<1>7. (vi * scale) * T <= paid * T
  BY <1>1, TimesKeepsOrder
<1> DEFINE lhs == (sh * p) * T
           m1  == (P * scale) * sh
           m2  == (vi * T) * scale
           rhs == paid * T
<1>8. lhs <= m1 /\ m1 <= m2 /\ m2 <= rhs
  BY <1>2, <1>3, <1>4, <1>5, <1>6, <1>7
<1>9. lhs \in Nat /\ m1 \in Nat /\ m2 \in Nat /\ rhs \in Nat
  BY <1>1
<1>10. lhs <= rhs
  <2> HIDE DEF lhs, m1, m2, rhs
  <2> QED BY <1>8, <1>9
<1> QED BY <1>1, <1>10, FactorCancels

\* client.ts: the balance reconstructed from its value is never worth more.
LEMMA ReconstructedAtMost ==
  ASSUME NEW v \in Nat, NEW nav \in Nat \ {0}
  PROVE  /\ (v * SCALE) \div nav \in Nat
         /\ (((v * SCALE) \div nav) * nav) \div SCALE \in Nat
         /\ (((v * SCALE) \div nav) * nav) \div SCALE <= v
<1> DEFINE b == (v * SCALE) \div nav
           y == (b * nav) \div SCALE
<1>1. SCALE \in Nat \ {0} /\ v * SCALE \in Nat
  BY NumbersAssumption, ProductNat
<1>2. b \in Nat /\ b * nav <= v * SCALE
  BY <1>1, FloorBounds
<1> HIDE DEF b
<1>3. b * nav \in Nat
  BY <1>2, ProductNat
<1>4. y \in Nat /\ y * SCALE <= b * nav
  BY <1>1, <1>3, FloorBounds
<1> HIDE DEF y
<1>5. y * SCALE \in Nat
  BY <1>1, <1>4, ProductNat
<1>6. y * SCALE <= v * SCALE
  BY <1>1, <1>2, <1>3, <1>4, <1>5
<1>7. y <= v
  BY <1>1, <1>4, <1>6, FactorCancels
<1> QED BY <1>2, <1>4, <1>7 DEF b, y

\* math.ts: an unwrap and a mint are quoted to the unit, and a mint never too
\* low from the reconstructed balance or by the form's figure.
LEMMA QuotesAreExact ==
  ASSUME PoolInv, PriceKnown, NEW a \in Signers, NEW n \in Nat
  PROVE  QuotesExact(a, n)
<1> DEFINE vi == MulDivFloor(n, Nav, SCALE)
           T  == total + VIRT
           P  == PoolValue + VIRT
           sh == MulDivFloor(vi, T, P)
           b  == (PoolValue * SCALE) \div Nav
           Q  == ((b * Nav) \div SCALE) + VIRT
<1>1. /\ a \in Accounts /\ bal \in [Accounts -> Nat] /\ wallet \in [Accounts -> Nat]
      /\ Nav \in Nat \ {0} /\ PoolValue \in Nat /\ P \in Nat \ {0} /\ T \in Nat \ {0}
      /\ SharePrice \in Nat \ {0} /\ SCALE \in Nat \ {0} /\ VIRT \in Nat \ {0}
  BY AccountsAssumption, NumbersAssumption, PricingTypes, SharePriceNat
     DEF PoolInv, IInv, TypeOK, PriceKnown
<1>2. ASSUME ClientCall("unwrap", a, n)
      PROVE  wallet'[a] = wallet[a] + QuoteWithdraw(n)
  <2>1. wallet' = Credit(wallet, a, Payout(n))
    BY <1>2 DEF ClientCall, Withdraw
  <2>2. QuoteWithdraw(n) = Payout(n)
    BY DEF QuoteWithdraw, Payout, ClaimValue, PoolValue, MulDivFloor
  <2> QED BY <1>1, <2>1, <2>2 DEF Credit
<1>3. ASSUME ClientCall("wrap", a, n)
      PROVE  /\ bal'[a] = bal[a] + QuoteShares(n, Nav, reserve, total)
             /\ bal'[a] <= bal[a] + AtMost(ClientQuoteShares(n), WrapFigure(n))
  <2>1. bal'[a] = bal[a] + sh
    <3>1. n - 0 = n
      OBVIOUS
    <3>2. bal' = Credit(bal, a, SharesFor(MulDivFloor(n - 0, Nav, SCALE)))
      BY <1>3 DEF ClientCall, Deposit
    <3> QED BY <1>1, <3>1, <3>2 DEF Credit, SharesFor
  <2>2. QuoteShares(n, Nav, reserve, total) = sh
    BY DEF QuoteShares, PoolValue, MulDivFloor
  <2>3. ClientQuoteShares(n) = MulDivFloor(vi, T, Q)
    BY DEF ClientQuoteShares, QuoteShares, MulDivFloor
  <2>4. WrapFigure(n) = (n * Nav) \div SharePrice
    BY DEF WrapFigure
  <2>5. vi \in Nat /\ vi * SCALE <= n * Nav /\ n * Nav \in Nat
    BY <1>1, MulDivFloorBounds, ProductNat
  <2>6. Q \in Nat \ {0} /\ Q <= P
    <3> DEFINE y == (b * Nav) \div SCALE
    <3>1. y \in Nat /\ y <= PoolValue
      BY <1>1, ReconstructedAtMost
    <3>2. Q = y + VIRT /\ P = PoolValue + VIRT
      OBVIOUS
    <3> HIDE DEF y, Q, P
    <3> QED BY <1>1, <3>1, <3>2
  <2>7. SharePrice * T <= P * SCALE
    BY <1>1, MulDivFloorBounds DEF SharePrice
  <2> HIDE DEF vi, T, P, Q
  <2>8. sh \in Nat /\ sh * P <= vi * T
    BY <1>1, <2>5, MulDivFloorBounds
  <2>9. sh <= MulDivFloor(vi, T, Q)
    <3>1. Q * vi <= P * vi /\ Q * vi = vi * Q /\ P * vi = vi * P
      BY <1>1, <2>5, <2>6, TimesKeepsOrder
    <3> QED BY <1>1, <2>5, <2>6, <3>1, RatioFloor
  <2>10. sh <= WrapFigure(n)
    <3>1. sh * SharePrice <= n * Nav
      BY <1>1, <2>5, <2>7, <2>8, MintAtMostPrice
    <3> QED BY <1>1, <2>4, <2>5, <2>8, <3>1, FloorGreatest
  <2> HIDE DEF sh
  <2>11. MulDivFloor(vi, T, Q) \in Nat /\ (n * Nav) \div SharePrice \in Nat
    BY <1>1, <2>5, <2>6, MulDivFloorNat, FloorBounds
  <2>12. bal[a] + sh <= bal[a] + AtMost(ClientQuoteShares(n), WrapFigure(n))
    <3>1. sh <= AtMost(ClientQuoteShares(n), WrapFigure(n))
      BY <2>3, <2>9, <2>10 DEF AtMost
    <3>2. AtMost(ClientQuoteShares(n), WrapFigure(n)) \in Nat /\ bal[a] \in Nat
      BY <1>1, <2>3, <2>4, <2>11 DEF AtMost
    <3> QED BY <2>8, <3>1, <3>2
  <2> QED BY <2>1, <2>2, <2>12
<1> QED BY <1>2, <1>3 DEF QuotesExact

\* Borrow.tsx, math.ts and client.ts: what is shown before a call is what the
\* call does, whatever has happened before and for every parameter of the pool.
THEOREM PoolCallsAsShown == PoolSpec => CallsAsShown
<1>1. ASSUME PoolInv, PriceKnown, NEW a \in Signers, NEW n \in Amounts \cup Parcels \cup Loans
      PROVE  HealthForeseen(a, n) /\ QuotesExact(a, n)
  <2>1. n \in Nat
    BY NumbersAssumption, PoolAssumption
  <2> QED BY <1>1, <2>1, HealthIsForeseen, QuotesAreExact
<1>2. PoolInv =>
        [PriceKnown => \A a \in Signers : BooksMove(a) =>
           \A n \in Amounts \cup Parcels \cup Loans : HealthForeseen(a, n) /\ QuotesExact(a, n)]_vars
  BY <1>1
<1> QED BY <1>2, PoolInvariant, PTL DEF CallsAsShown

-----------------------------------------------------------------------------
(* The vault below the pool.  Whatever the pool does to its collateral, it *)
(* does as a holder of shares: `Book` is the vault's own specification     *)
(* with one signer more, the pool, and with any number of shares where     *)
(* users name one, since what a liquidation seizes is computed.            *)

Book == INSTANCE Vault WITH Signers <- Signers \cup {Pool}, Parcels <- Nat

\* An entry point of the vault is the same one with one more signer.
LEMMA SameDeposit ==
  ASSUME NEW from, NEW amount, NEW fee, Deposit(from, amount, fee)
  PROVE  Book!Deposit(from, amount, fee)
BY DEF Deposit, Book!Deposit, Initialized, Book!Initialized, Nav, Book!Nav,
       PoolValue, Book!PoolValue, PoolValueFits, Book!PoolValueFits, SharesFor, Book!SharesFor,
       Fits, Book!Fits, MulDivFloor, Book!MulDivFloor, Credit, Book!Credit, Debit, Book!Debit,
       configVars, Book!configVars

\* So is a redemption, of any number of shares.
LEMMA SameWithdraw ==
  ASSUME NEW from, NEW n, Withdraw(from, n)
  PROVE  Book!Withdraw(from, n)
BY DEF Withdraw, Book!Withdraw, MayWithdraw, Book!MayWithdraw, ExitOpen, Book!ExitOpen,
       Initialized, Book!Initialized, Nav, Book!Nav, Payout, Book!Payout,
       ClaimValue, Book!ClaimValue, PayoutFits, Book!PayoutFits,
       PoolValue, Book!PoolValue, PoolValueFits, Book!PoolValueFits, AtMost, Book!AtMost,
       Fits, Book!Fits, MulDivFloor, Book!MulDivFloor, Credit, Book!Credit, Debit, Book!Debit,
       configVars, Book!configVars

\* And a transfer, whoever makes it.
LEMMA SameTransfer ==
  ASSUME NEW from \in Signers \cup {Pool}, NEW to \in Accounts, NEW n \in Nat,
         Transfer(from, to, n), UNCHANGED quote
  PROVE  Book!Next
<1>1. Book!Transfer(from, to, n)
  BY DEF Transfer, Book!Transfer, MoveShares, Book!MoveShares, MayTransfer, Book!MayTransfer,
         Move, Book!Move, Credit, Book!Credit, Debit, Book!Debit, configVars, Book!configVars,
         tokenVars, Book!tokenVars
<1>2. Book!UnpricedCall(from)
  BY <1>1 DEF Book!UnpricedCall
<1> QED BY <1>2 DEF Book!Next, Book!Call

\* The vault's own steps are steps of the vault with one signer more.
LEMMA VaultStepIsBooks ==
  ASSUME Next
  PROVE  Book!Next
<1>0. Parcels \subseteq Nat
  BY NumbersAssumption
<1>1. ASSUME NEW from \in Signers, PricedCall(from), UNCHANGED quote
      PROVE  Book!Next
  <2>1. ASSUME NEW amount \in Amounts, NEW fee \in Fees, Deposit(from, amount, fee)
        PROVE  Book!PricedCall(from)
    BY <2>1, SameDeposit DEF Book!PricedCall
  <2>2. ASSUME NEW n \in Parcels \cup {bal[from]}, Withdraw(from, n)
        PROVE  Book!PricedCall(from)
    BY <1>0, <2>2, SameWithdraw DEF Book!PricedCall
  <2>3. Book!PricedCall(from)
    BY <1>1, <2>1, <2>2 DEF PricedCall
  <2> QED BY <1>1, <2>3 DEF Book!Next, Book!Call
<1>2. ASSUME NEW from \in Signers, UnpricedCall(from), UNCHANGED quote
      PROVE  Book!Next
  <2> USE DEF MoveShares, Book!MoveShares, MayTransfer, Book!MayTransfer, Move, Book!Move,
              Credit, Book!Credit, Debit, Book!Debit, configVars, Book!configVars,
              tokenVars, Book!tokenVars, shareVars, Book!shareVars,
              NoAllowance, Book!NoAllowance
  <2>1. ASSUME NEW to \in Accounts, NEW n \in Parcels \cup {bal[from]}, Transfer(from, to, n)
        PROVE  Book!UnpricedCall(from)
    <3>1. Book!Transfer(from, to, n)
      BY <2>1 DEF Transfer, Book!Transfer
    <3> QED BY <1>0, <3>1 DEF Book!UnpricedCall
  <2>2. ASSUME NEW owner \in Accounts, NEW to \in Accounts,
               NEW n \in Parcels \cup {bal[owner]}, TransferFrom(from, owner, to, n)
        PROVE  Book!UnpricedCall(from)
    <3>1. Book!TransferFrom(from, owner, to, n)
      BY <2>2 DEF TransferFrom, Book!TransferFrom, SpendAllowance, Book!SpendAllowance
    <3> QED BY <1>0, <3>1 DEF Book!UnpricedCall
  <2>3. ASSUME NEW spender \in Accounts, NEW n \in Approvals, NEW live \in 0..MaxSeq,
               Approve(from, spender, n, live)
        PROVE  Book!UnpricedCall(from)
    <3>1. Book!Approve(from, spender, n, live)
      BY <2>3 DEF Approve, Book!Approve
    <3> QED BY <3>1 DEF Book!UnpricedCall
  <2>4. Book!UnpricedCall(from)
    BY <1>2, <2>1, <2>2, <2>3 DEF UnpricedCall
  <2> QED BY <1>2, <2>4 DEF Book!Next, Book!Call
<1>3. ASSUME Lifecycle, UNCHANGED quote PROVE Book!Next
  <2> USE DEF Initialized, Book!Initialized, shareVars, Book!shareVars,
              tokenVars, Book!tokenVars
  <2>1. ASSUME NEW adm \in Admins, NEW o \in Oracles, NEW c \in Caps, InitVault(adm, o, c)
        PROVE  Book!InitVault(adm, o, c)
    BY <2>1 DEF InitVault, Book!InitVault
  <2>2. ASSUME NEW c \in Caps, SetCap(c) PROVE Book!SetCap(c)
    BY <2>2 DEF SetCap, Book!SetCap
  <2>3. ASSUME NEW o \in Oracles, SetOracle(o) PROVE Book!SetOracle(o)
    BY <2>3 DEF SetOracle, Book!SetOracle
  <2>4. ASSUME NEW p \in Pauses, SetPaused(p) PROVE Book!SetPaused(p)
    BY <2>4 DEF SetPaused, Book!SetPaused
  <2>5. ASSUME NEW new \in Successors, TransferAdmin(new) PROVE Book!TransferAdmin(new)
    BY <2>5 DEF TransferAdmin, Book!TransferAdmin
  <2>6. ASSUME AcceptAdmin PROVE Book!AcceptAdmin
    BY <2>6 DEF AcceptAdmin, Book!AcceptAdmin
  <2>7. Book!Lifecycle
    BY <1>3, <2>1, <2>2, <2>3, <2>4, <2>5, <2>6 DEF Lifecycle, Book!Lifecycle
  <2> QED BY <1>3, <2>7 DEF Book!Next, Book!Call
<1>4. ASSUME Environment PROVE Book!Next
  <2> USE DEF shareVars, Book!shareVars, configVars, Book!configVars, tokenVars, Book!tokenVars
  <2>1. ASSUME NEW o \in Oracles, NEW n \in Navs \cup {0}, QuoteMoves(o, n)
        PROVE  Book!QuoteMoves(o, n)
    BY <2>1 DEF QuoteMoves, Book!QuoteMoves
  <2>2. ASSUME NEW n \in Rebases, Rebase(n) PROVE Book!Rebase(n)
    <3>1. Book!Total(wallet) = Total(wallet)
      BY Zenon DEF Total, Book!Total, Units, Book!Units, Slots, Book!Slots,
                   Cardinality, Book!Cardinality, IsFiniteSet, Book!IsFiniteSet
    <3> QED BY <2>2, <3>1 DEF Rebase, Book!Rebase
  <2>3. ASSUME NEW q \in [Oracles -> Navs \cup {0}], LedgerCloses(q)
        PROVE  Book!LedgerCloses(q)
    BY <2>3 DEF LedgerCloses, Book!LedgerCloses
  <2>4. Book!Environment
    BY <1>4, <2>1, <2>2, <2>3 DEF Environment, Book!Environment
  <2> QED BY <2>4 DEF Book!Next
<1> QED BY <1>1, <1>2, <1>3, <1>4 DEF Next, Call

\* What leaves the vault's books and its adapters' answers alone stutters.
LEMMA BooksStutter ==
  ASSUME UNCHANGED holdings, UNCHANGED quote
  PROVE  UNCHANGED Book!vaultVars
BY DEF holdings, shareVars, configVars, tokenVars, Book!vaultVars, Book!holdings,
       Book!shareVars, Book!configVars, Book!tokenVars

\* Each call to the pool makes at most one call to the vault, a transfer.
LEMMA PoolStepIsBooks ==
  ASSUME PoolInv, PoolStep, UNCHANGED quote
  PROVE  [Book!Next]_Book!vaultVars
<1>0. /\ Pool \in Accounts /\ Signers \subseteq Accounts
      /\ Parcels \subseteq Nat /\ Loans \subseteq Nat /\ CashFees \subseteq Nat
      /\ bal \in [Accounts -> Nat] /\ coll \in [Accounts -> Nat] /\ debt \in [Accounts -> Nat]
  BY AccountsAssumption, PoolAssumption, NumbersAssumption DEF PoolInv, IInv, TypeOK, PoolTypeOK
<1>1. ASSUME NEW adm \in Admins, InitPool(adm)
      PROVE  UNCHANGED holdings
  BY <1>1 DEF InitPool
<1>2. ASSUME NEW who \in Liquidators, NEW ok \in BOOLEAN, SetWhitelist(who, ok)
      PROVE  UNCHANGED holdings
  BY <1>2 DEF SetWhitelist
<1>3. ASSUME NEW from \in Signers, PoolCall(from)
      PROVE  UNCHANGED holdings \/ Book!Next
  <2>1. ASSUME NEW n \in Parcels \cup {bal[from]}, SupplyCollateral(from, n)
        PROVE  Book!Next
    <3>1. Transfer(from, Pool, n) /\ n \in Nat
      BY <1>0, <2>1 DEF SupplyCollateral
    <3> QED BY <1>0, <3>1, SameTransfer
  <2>2. ASSUME NEW n \in Parcels \cup {coll[from]}, WithdrawCollateral(from, n)
        PROVE  Book!Next
    <3>1. Transfer(Pool, from, n) /\ n \in Nat /\ from \in Accounts
      BY <1>0, <2>2 DEF WithdrawCollateral
    <3> QED BY <3>1, SameTransfer
  <2>3. ASSUME NEW n \in Loans, Borrow(from, n)
        PROVE  UNCHANGED holdings
    BY <2>3 DEF Borrow
  <2>4. ASSUME NEW n, NEW fee \in CashFees, Repay(from, n, fee)
        PROVE  UNCHANGED holdings
    BY <2>4 DEF Repay
  <2>5. ASSUME NEW user \in Accounts, NEW fee \in CashFees,
               NEW n \in Loans \cup {MaxRepay(debt[user])}, Liquidate(from, user, n, fee)
        PROVE  Book!Next
    <3> DEFINE seize == Seizure(Measured(n, fee), coll[user])
    <3>1. Transfer(Pool, from, seize) /\ PriceKnown /\ Measured(n, fee) > 0
      BY <2>5 DEF Liquidate, MayLiquidate
    <3>2. Measured(n, fee) \in Nat
      <4>1. n \in Nat
        BY <1>0, PoolAssumption, HalfAtMost DEF MaxRepay
      <4> QED BY <1>0, <3>1, <4>1 DEF Measured
    <3>3. seize \in Nat
      BY <1>0, <3>1, <3>2, SeizureBounds DEF PoolInv
    <3> HIDE DEF seize
    <3> QED BY <1>0, <3>1, <3>3, SameTransfer
  <2> QED BY <1>3, <2>1, <2>2, <2>3, <2>4, <2>5 DEF PoolCall
<1> QED BY <1>1, <1>2, <1>3, BooksStutter DEF PoolStep

\* The pool uses the vault only as one more holder does: below it runs the
\* vault's own specification, so that no sequence of pledges, releases, loans
\* and seizures takes the vault anywhere its entry points would not.
THEOREM PoolUsesVaultOnly == PoolSpec => Book!Spec
<1>1. PoolInit => Book!Init
  BY DEF PoolInit, Init, Book!Init, NoAllowance, Book!NoAllowance
<1>2. ASSUME PoolInv, [PoolNext]_vars PROVE [Book!Next]_Book!vaultVars
  <2>1. CASE VaultStep
    BY <2>1, VaultStepIsBooks DEF VaultStep
  <2>2. CASE PoolStep /\ UNCHANGED quote
    BY <1>2, <2>2, PoolStepIsBooks
  <2>3. CASE UNCHANGED vars
    BY <2>3, BooksStutter DEF vars, vaultVars
  <2> QED BY <1>2, <2>1, <2>2, <2>3 DEF PoolNext
<1>3. PoolInv /\ [PoolNext]_vars => [Book!Next]_Book!vaultVars
  BY <1>2
<1> QED BY <1>1, <1>3, PoolInvariant, PTL DEF PoolSpec, Book!Spec

\* A step of the pool leaves what the vault is worth and what it issued alone.
LEMMA PoolStepLeavesValue ==
  ASSUME PoolInv, PoolStep, UNCHANGED quote
  PROVE  UNCHANGED <<total, configVars, tokenVars, quote>>
<1>1. ASSUME NEW from \in Signers, PoolCall(from)
      PROVE  UNCHANGED <<total, configVars, tokenVars>>
  BY <1>1 DEF PoolCall, SupplyCollateral, WithdrawCollateral, Borrow, Repay, Liquidate,
              Transfer, holdings, shareVars
<1> QED BY <1>1 DEF PoolStep, InitPool, SetWhitelist, holdings, shareVars

\* deposit and withdraw keep their promises under the pool: claims stay covered,
\* exits stay open at the quoted price, nobody's step dilutes the price, and
\* shares just minted are worth no more than was paid for them, whatever is
\* pledged, lent and liquidated meanwhile.
THEOREM PoolKeepsVaultPromises ==
  PoolSpec => /\ []ClaimsCovered /\ []ExitPaysQuotedPrice
              /\ SharePriceNeverDiluted /\ RoundTripNeverGains
<1>1. PoolInv => ClaimsCovered
  BY ClaimsFollow DEF PoolInv
<1>2. PoolInv /\ AdaptedOnlyByAdmin => ExitPaysQuotedPrice
  BY ExitsFollow DEF PoolInv
<1>3. PoolInit => AdaptedOnlyByAdmin
  BY DEF PoolInit, Init, AdaptedOnlyByAdmin
<1>4. ASSUME PoolInv, PoolStep, UNCHANGED quote
      PROVE  /\ UNCHANGED <<oracle, admin>>
             /\ PoolValue' = PoolValue /\ total' = total
  BY <1>4, PoolStepLeavesValue DEF configVars, tokenVars, PoolValue, Nav
<1>5. PoolInv /\ AdaptedOnlyByAdmin /\ [PoolNext]_vars => AdaptedOnlyByAdmin'
  <2> SUFFICES ASSUME PoolInv, AdaptedOnlyByAdmin, [PoolNext]_vars PROVE AdaptedOnlyByAdmin'
    OBVIOUS
  <2>1. CASE VaultStep \/ UNCHANGED vars
    <3>1. [Next]_vaultVars /\ TypeOK
      BY <2>1 DEF VaultStep, vars, PoolInv, IInv
    <3> QED BY <3>1, AdminStays
  <2>2. CASE PoolStep /\ UNCHANGED quote
    BY <1>4, <2>2 DEF AdaptedOnlyByAdmin, Initialized
  <2> QED BY <2>1, <2>2 DEF PoolNext
<1>6. PoolInv /\ [PoolNext]_vars => [PriceNotDiluted /\ MintedNotWorthMore]_vaultVars
  <2> SUFFICES ASSUME PoolInv, [PoolNext]_vars
               PROVE  (PriceNotDiluted /\ MintedNotWorthMore) \/ UNCHANGED vaultVars
    OBVIOUS
  <2>1. CASE VaultStep \/ UNCHANGED vars
    <3>1. [Next]_vaultVars /\ IInv
      BY <2>1 DEF VaultStep, vars, PoolInv
    <3> QED BY <3>1, PriceStep, RoundTripStep
  <2>2. CASE PoolStep /\ UNCHANGED quote
    <3> DEFINE worth == (PoolValue + VIRT) * (total + VIRT)
    <3>1. PoolValue' = PoolValue /\ total' = total
      BY <1>4, <2>2
    <3>2. worth \in Nat /\ total \in Nat
      BY PricingTypes, ProductNat DEF PoolInv, IInv, TypeOK
    <3>3. (PoolValue' + VIRT) * (total + VIRT) = worth
          /\ (PoolValue + VIRT) * (total' + VIRT) = worth
      BY <3>1
    <3> HIDE DEF worth
    <3>4. PriceNotDiluted
      BY <3>2, <3>3 DEF PriceNotDiluted
    <3>5. MintedNotWorthMore
      BY <3>1, <3>2 DEF MintedNotWorthMore
    <3> QED BY <3>4, <3>5
  <2> QED BY <2>1, <2>2 DEF PoolNext
<1> QED
  BY <1>1, <1>2, <1>3, <1>5, <1>6, PoolInvariant, PTL
     DEF PoolSpec, SharePriceNeverDiluted, RoundTripNeverGains
=============================================================================
