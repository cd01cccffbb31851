------------------------------ MODULE Previews ------------------------------
(***************************************************************************)
(* What users and bots are shown before they act: the quotes of the SDK    *)
(* (packages/sdk/src/math.ts, client.ts), the forms of the web app         *)
(* (app/src/routes) and the indexer's at-risk list (risk.ts, api.ts).      *)
(* Each restates the contracts' integer arithmetic in its own code; here   *)
(* they stand beside the contracts, on the same state.  bigint divides     *)
(* towards zero, which differs from \div only for a withdrawal above the   *)
(* collateral, where both give a health below 1.                           *)
(***************************************************************************)
EXTENDS MiniPool

-----------------------------------------------------------------------------
(* math.ts and client.ts *)

\* quoteShares, for given vault totals
QuoteShares(received, nav, balBefore, shares) ==
  (((received * nav) \div SCALE) * (shares + VIRT))
    \div (((balBefore * nav) \div SCALE) + VIRT)

\* LeontiefClient.quoteShares: the balance is reconstructed from its value
ClientQuoteShares(amount) ==
  QuoteShares(amount, Nav, (PoolValue * SCALE) \div Nav, total)

\* mutant: a redemption quoted at the share price
QuoteAtPrice(shares) ==
  AtMost((((shares * SharePrice) \div SCALE) * SCALE) \div Nav, reserve)

QuoteWithdraw(shares) ==
  LET v        == (reserve * Nav) \div SCALE
      valueOut == (shares * (v + VIRT)) \div (total + VIRT)
  IN AtMost((valueOut * SCALE) \div Nav, reserve)

CeilDiv(a, b) == (a + b - 1) \div b
QuoteSeize(repay) == CeilDiv(CeilDiv(repay * (BPS + BONUS), BPS) * SCALE, SharePrice)

\* healthFactor, in the SDK, the form and the indexer alike; of a debt above 0
ShownHealth(shares, owed) ==
  (((((shares * SharePrice) \div SCALE) * LIQ) \div BPS) * SCALE) \div owed

\* without debt there is no figure; the contract answers its largest number
Infinite == -1
HfEstimate(shares, owed) == IF owed <= 0 THEN Infinite ELSE ShownHealth(shares, owed)

\* LeontiefClient.previewHealthFactor, with the price shown
PreviewHealthFactor(a, moreColl, moreDebt) == HfEstimate(coll[a] + moreColl, debt[a] + moreDebt)

\* the client's writes, each an entry point called for the signer itself
ClientCall(method, signer, n) ==
  /\ CASE method = "wrap"               -> Deposit(signer, n, 0) /\ UNCHANGED poolVars
       [] method = "unwrap"             -> Withdraw(signer, n) /\ UNCHANGED poolVars
       [] method = "supplyCollateral"   -> SupplyCollateral(signer, n)
       [] method = "withdrawCollateral" -> WithdrawCollateral(signer, n)
       [] method = "borrow"             -> Borrow(signer, n)
       [] method = "repay"              -> Repay(signer, n, 0)
  /\ UNCHANGED quote

-----------------------------------------------------------------------------
(* VaultDetail.tsx: the figure under the amount.  The second is the value  *)
(* of the shares in quote units, although it is labelled as underlying.    *)

WrapFigure(n)   == (n * Nav) \div SharePrice
UnwrapFigure(n) == (n * SharePrice) \div SCALE

-----------------------------------------------------------------------------
(* Borrow.tsx *)

\* mutant: the debt already there is not taken off
HeadroomOfCollateral(a) == (((coll[a] * SharePrice) \div SCALE) * LTV) \div BPS

\* maxBorrow; the form shows 0 for a negative one
Headroom(a) == (((coll[a] * SharePrice) \div SCALE) * LTV) \div BPS - debt[a]

\* unsafe, the warning that also disables the button, of the tabs that have it
UnsafeBorrow(a, n) == ShownHealth(coll[a], debt[a] + n) < SCALE
UnsafeWithdraw(a, n) == debt[a] # 0 /\ ShownHealth(coll[a] - n, debt[a]) < SCALE

Tabs == {"supply", "borrow", "repay", "withdraw"}

\* act: what the button of each tab calls
TabCall(tab, a, n) ==
  ClientCall([supply |-> "supplyCollateral", borrow |-> "borrow",
              repay |-> "repay", withdraw |-> "withdrawCollateral"][tab], a, n)

\* postHf: "HF before -> after"
PostHf(tab, a, n) ==
  HfEstimate(coll[a] + (CASE tab = "supply" -> n [] tab = "withdraw" -> -n [] OTHER -> 0),
             CASE tab = "borrow" -> debt[a] + n
               [] tab = "repay" /\ debt[a] > n -> debt[a] - n
               [] tab = "repay" /\ debt[a] <= n -> 0
               [] OTHER -> debt[a])

-----------------------------------------------------------------------------
(* Liquidate.tsx: seizePreview rounds down what the comment on it rounds up *)

SeizePreview(n) == ((n * (BPS + BONUS) * SCALE) \div BPS) \div SharePrice

-----------------------------------------------------------------------------
(* risk.ts and api.ts *)

ComputeAtRisk(rows, limit) ==
  {a \in rows : debt[a] > 0 /\ ShownHealth(coll[a], debt[a]) < limit}

\* /positions/at-risk, from up-to-date snapshots and an up-to-date share price
AtRisk(limit) == ComputeAtRisk({a \in Accounts : debt[a] > 0}, limit)

-----------------------------------------------------------------------------
(* Properties *)

\* the pool's own sums about a position stay in range
InRange(a) ==
  /\ CollKnown(coll[a]) /\ Fits(CollValue(coll[a]) * LTV)
  /\ HfKnown(coll[a], debt[a])

\* "Max borrow remaining" is exact: the pool lends it, and not one unit more.
HeadroomLent(a) ==
  /\ (Headroom(a) > 0 /\ Headroom(a) <= poolCash) => MayBorrow(a, Headroom(a))
  /\ Headroom(a) >= 0 => ~MayBorrow(a, Headroom(a) + 1)

\* "the pool will reject it": it does whatever the form warns of, and a
\* withdrawal the form lets through is accepted.
WarningsTrue(a) ==
  \A n \in Parcels \cup Loans \cup {coll[a]} : n > 0 =>
    /\ UnsafeBorrow(a, n) => ~MayBorrow(a, n)
    /\ n <= coll[a] => (UnsafeWithdraw(a, n) <=> ~MayWithdrawCollateral(a, n))

\* A seizure is quoted to the unit by the SDK, and never above what is owed by
\* the console; a redemption never above its value by the web app.
FiguresSafe ==
  \A n \in Parcels \cup Loans :
    /\ QuoteSeize(n) = SharesOwed(n)
    /\ SeizePreview(n) <= QuoteSeize(n)
    /\ UnwrapFigure(n) <= ClaimValue(n)

\* Whatever has happened to vault and pool before, the pool refuses what the app
\* warns of, although three code bases compute it apart from the contracts: the
\* borrow form's headroom is the pool's to the unit, its warnings are of calls
\* the pool does refuse, and the at-risk list holds at 1.0 exactly the positions
\* that can be liquidated.
ShownIsEnforced ==
  (PoolReady /\ PriceKnown) =>
    /\ \A a \in Signers : InRange(a) => HeadroomLent(a) /\ WarningsTrue(a)
    /\ FiguresSafe
    /\ AtRisk(SCALE) = {a \in Accounts : ~Healthy(coll[a], debt[a])}

\* health_factor answered for what a position has become
HealthAfter(a) == IF debt'[a] = 0 THEN Infinite
                  ELSE MulDivFloor(Adjusted(coll[a])', SCALE, debt'[a])

\* "HF before -> after": the call of each tab leaves the health the form has
\* shown, which the SDK previews alike; a token that keeps a fee of a repayment
\* leaves no more than that.
HealthForeseen(a, n) ==
  /\ \A tab \in Tabs : TabCall(tab, a, n) => HealthAfter(a) = PostHf(tab, a, n)
  /\ PostHf("borrow", a, n) = PreviewHealthFactor(a, 0, n)
  /\ \A fee \in CashFees \ {0} :
       (Repay(a, n, fee) /\ UNCHANGED quote /\ debt[a] > n) =>
         HealthAfter(a) <= PostHf("repay", a, n)

\* The quotes "mirror their integer math": what an unwrap pays is quoted to the
\* unit, a mint to the unit from the vault's totals, and never too low from the
\* balance that the client reconstructs or from the price alone.
QuotesExact(a, n) ==
  /\ ClientCall("unwrap", a, n) => wallet'[a] = wallet[a] + QuoteWithdraw(n)
  /\ ClientCall("wrap", a, n) =>
       /\ bal'[a] = bal[a] + QuoteShares(n, Nav, reserve, total)
       /\ bal'[a] <= bal[a] + AtMost(ClientQuoteShares(n), WrapFigure(n))

\* What is shown before a call is what the call then does to the books of the
\* account that makes it: the borrow form's forecast of the health and the SDK's
\* quotes, against the contracts' entry points, while there is a price.
BooksMove(a) == bal'[a] # bal[a] \/ coll'[a] # coll[a] \/ debt'[a] # debt[a]
CallsAsShown ==
  [][PriceKnown => \A a \in Signers : BooksMove(a) =>
       \A n \in Amounts \cup Parcels \cup Loans : HealthForeseen(a, n) /\ QuotesExact(a, n)]_vars

=============================================================================
