------------------------ MODULE AgentTreasury_proofs ------------------------
(***************************************************************************)
(* AgentTreasury for any prices, amounts and limits: the position cap, the *)
(* repayment of the draw, and what the SDK's headroom is worth.            *)
(***************************************************************************)
EXTENDS AgentTreasury, TLAPS

-----------------------------------------------------------------------------
(* math.ts *)

\* Division by a positive number, as the greatest quotient.
LEMMA DivGreatest ==
  ASSUME NEW a \in Nat, NEW b \in Nat \ {0}
  PROVE  /\ a \div b \in Nat
         /\ \A q \in Nat : q <= a \div b <=> q * b <= a
  <1>1. /\ a \div b \in Int /\ a % b \in 0..(b - 1)
        /\ a = b * (a \div b) + (a % b)
    BY SMT
  <1>2. a \div b \in Nat
    BY SMT
  <1>3. ASSUME NEW q \in Nat, q <= a \div b PROVE q * b <= a
    <2>1. q * b <= (a \div b) * b
      BY <1>2, <1>3, SMT
    <2> QED  BY <1>1, <2>1, SMT
  <1>4. ASSUME NEW q \in Nat, q * b <= a PROVE q <= a \div b
    <2> SUFFICES ASSUME q >= a \div b + 1 PROVE FALSE
      BY <1>2, SMT
    <2>1. q * b >= (a \div b + 1) * b
      BY <1>2, SMT
    <2>2. (a \div b + 1) * b = b * (a \div b) + b
      BY <1>2, SMT
    <2> QED  BY <1>1, <1>4, <2>1, <2>2, SMT
  <1> QED  BY <1>2, <1>3, <1>4

\* The adjusted collateral is a natural number.
LEMMA AdjustedNat ==
  ASSUME AgentAssumption, NEW coll \in Nat, NEW price \in Nat
  PROVE  Adjusted(coll, price) \in Nat
  <1>1. coll * price \in Nat
    BY SMT
  <1>2. CollValue(coll, price) \in Nat
    BY <1>1, DivGreatest DEF AgentAssumption, CollValue
  <1>3. ThresholdPct \in Nat
    BY SMT DEF AgentAssumption
  <1>4. CollValue(coll, price) * ThresholdPct \in Nat
    BY <1>2, <1>3, SMT
  <1>5. 100 \in Nat \ {0}
    OBVIOUS
  <1> QED  BY <1>4, <1>5, DivGreatest DEF Adjusted

\* What maxBorrowForHealthFactor offers is exact: at the price it was computed
\* for, a draw within it leaves the health factor at the floor or above, and a
\* draw beyond it, of a position that has debt then, leaves it below.
THEOREM RoomKeepsFloor ==
  ASSUME AgentAssumption, NEW coll \in Nat, NEW price \in Nat, NEW debt \in Nat,
         NEW amount \in Nat \ {0}
  PROVE  amount <= Room(coll, debt, price)
           <=> HealthFactor(coll, debt + amount, price) >= Floor
  <1> DEFINE A == Adjusted(coll, price) * SCALE
             owed == debt + amount
  <1>1. A \in Nat
    <2>1. Adjusted(coll, price) \in Nat /\ SCALE \in Nat
      BY AdjustedNat DEF AgentAssumption
    <2> QED  BY <2>1, SMT
  <1>2. Floor \in Nat \ {0} /\ owed \in Nat \ {0}
    BY SMT DEF AgentAssumption
  <1>3. HealthFactor(coll, owed, price) = A \div owed /\ A \div owed \in Nat
    BY <1>1, <1>2, DivGreatest DEF HealthFactor
  <1>4. A \div Floor \in Nat
    BY <1>1, <1>2, DivGreatest
  <1>5. amount <= Room(coll, debt, price) <=> owed <= A \div Floor
    <2>1. Room(coll, debt, price) = IF A \div Floor > debt THEN (A \div Floor) - debt ELSE 0
      BY DEF Room
    <2> HIDE DEF A
    <2> QED  BY <1>4, <2>1, SMT
  <1>6. owed <= A \div Floor <=> owed * Floor <= A
    <2> HIDE DEF A
    <2> QED  BY <1>1, <1>2, DivGreatest
  <1>7. Floor <= A \div owed <=> Floor * owed <= A
    <2> HIDE DEF A, owed
    <2> QED  BY <1>1, <1>2, DivGreatest
  <1>8. owed * Floor = Floor * owed
    BY <1>2, SMT
  <1>9. A \div owed >= Floor <=> Floor <= A \div owed
    <2> HIDE DEF A
    <2> QED  BY <1>2, <1>3, SMT
  <1> QED  BY <1>3, <1>5, <1>6, <1>7, <1>8, <1>9

-----------------------------------------------------------------------------
(* The policy *)

Account == [idle : Nat, coins : Int, shares : Int, coll : Nat, debt : Nat, price : Prices]
FirstCalls == {"earn", "allocate", "work", "settle", "unwind"}
WrapCalls == {"buy", "wrap", "supply"}
DrawCalls == {"preview", "borrow"}

AgentTypes ==
  /\ chain \in Account /\ seen \in Account
  /\ phase \in Phases
  /\ at \in {"top", "unwrap"} \cup FirstCalls \cup WrapCalls \cup DrawCalls
  /\ invoices \in Nat
  /\ opened \in Int
  /\ draw \in 0..MaxDraw

\* Which calls a phase makes, and what its snapshot still says of the chain: the
\* idle cash exactly until the first call, an upper bound on collateral and debt.
CallsOrdered ==
  /\ at # "top" => chain.coll <= seen.coll /\ chain.debt <= seen.debt
  /\ at \in FirstCalls => phase = at /\ seen.idle = chain.idle
  /\ at \in WrapCalls => phase = "allocate" /\ seen.idle > IdleMax
  /\ at \in DrawCalls => phase = "work"
  /\ at = "unwrap" => phase = "unwind"

\* What may be owed in each phase, and the revenue that is there to settle it.
OweBounded ==
  /\ phase \in {"allocate", "work"} => invoices >= 1
  /\ phase \in {"allocate", "work", "unwind", "done"} => chain.debt <= DebtBefore
  /\ (phase = "earn" /\ invoices = 0) => chain.debt <= DebtBefore
  /\ phase \in {"earn", "settle"} => chain.debt <= DebtBefore + MaxDraw
  /\ phase = "settle" => chain.idle >= Revenue

PolicyInv == AgentTypes /\ CallsOrdered /\ OweBounded /\ PositionCapKept

\* What a seizure takes from a position leaves a natural number behind.
LEMMA SeizureLeaves ==
  ASSUME AgentAssumption, NEW repay \in Nat, NEW price \in Nat \ {0}, NEW coll \in Nat
  PROVE  coll - Least(Seize(repay, price), coll) \in 0..coll
  <1> DEFINE value == CeilDiv(repay * (100 + BonusPct), 100)
  <1>1. value \in Nat
    <2>1. repay * (100 + BonusPct) \in Nat
      BY SMT DEF AgentAssumption
    <2> QED  BY <2>1, SMT DEF CeilDiv
  <1>2. value * SCALE \in Nat
    BY <1>1, SMT DEF AgentAssumption
  <1>3. value * SCALE + price - 1 \in Nat
    BY <1>2, SMT
  <1>4. Seize(repay, price) \in Nat
    BY <1>3, DivGreatest DEF Seize, CeilDiv
  <1> QED  BY <1>4, SMT DEF Least

\* The planned draw is within its cap.
LEMMA DrawCapped ==
  ASSUME AgentAssumption, AgentTypes
  PROVE  Least(Room(seen.coll, seen.debt, seen.price), MaxDraw) \in 0..MaxDraw
  <1>1. seen.coll \in Nat /\ seen.debt \in Nat /\ seen.price \in Nat
    BY DEF AgentTypes, Account, AgentAssumption
  <1>2. Adjusted(seen.coll, seen.price) * SCALE \in Nat
    <2>1. Adjusted(seen.coll, seen.price) \in Nat /\ SCALE \in Nat
      BY <1>1, AdjustedNat DEF AgentAssumption
    <2> QED  BY <2>1, SMT
  <1>3. (Adjusted(seen.coll, seen.price) * SCALE) \div Floor \in Nat
    BY <1>2, DivGreatest DEF AgentAssumption
  <1>4. Room(seen.coll, seen.debt, seen.price) \in Nat
    BY <1>1, <1>3, SMT DEF Room
  <1>5. MaxDraw \in Nat
    BY DEF AgentAssumption
  <1> QED  BY <1>4, <1>5, SMT DEF Least

\* The policy's invariant holds before the first tick.
LEMMA PolicyInit == AgentAssumption /\ AgentInit => PolicyInv
  <1> SUFFICES ASSUME AgentAssumption, AgentInit PROVE PolicyInv
    OBVIOUS
  <1> USE DEF AgentAssumption
  <1>1. PICK p \in Prices, held \in CollsBefore :
          chain = [idle |-> IdleBefore, coins |-> 0, shares |-> 0,
                   coll |-> held, debt |-> DebtBefore, price |-> p]
    BY DEF AgentInit
  <1>2. held \in Nat /\ held <= MaxPosition
    BY SMT
  <1>3. AgentTypes
    BY <1>1, <1>2 DEF AgentInit, AgentTypes, Account, Phases
  <1>4. CallsOrdered /\ OweBounded
    BY <1>1 DEF AgentInit, CallsOrdered, OweBounded, FirstCalls, WrapCalls, DrawCalls
  <1> QED  BY <1>1, <1>2, <1>3, <1>4 DEF PolicyInv, PositionCapKept

\* The calls of a tick.
LEMMA PolicyStep == AgentAssumption /\ PolicyInv /\ Policy => PolicyInv'
  <1> SUFFICES ASSUME AgentAssumption, PolicyInv, Policy PROVE PolicyInv'
    OBVIOUS
  <1> USE DEF PolicyInv, AgentTypes, Account, Phases, FirstCalls, WrapCalls, DrawCalls,
              CallsOrdered, OweBounded, PositionCapKept, books
  <1>0. /\ IdleKeep \in Nat /\ IdleMax \in Nat /\ Revenue \in Nat /\ MaxDraw \in Nat
        /\ DebtBefore \in Nat /\ MaxPosition \in Nat
        /\ IdleKeep <= IdleMax /\ MaxDraw <= Revenue
    BY DEF AgentAssumption
  <1>1. CASE Observe \/ Throw
    BY <1>0, <1>1 DEF Observe, Throw, Snapshot, Proceed, Enter
  <1>2. CASE Earn
    BY <1>0, <1>2 DEF Earn, Enter
  <1>3. CASE PayDesk
    BY <1>0, <1>3 DEF PayDesk, Spend, Enter, Proceed
  <1>4. CASE Buy
    <2>1. chain' = [chain EXCEPT !.coins = @ + Spend] /\ Spend \in Int
      BY <1>0, <1>4, SMT DEF Buy, Spend
    <2>2. chain' \in Account /\ chain'.idle = chain.idle
          /\ chain'.coll = chain.coll /\ chain'.debt = chain.debt
      <3>1. chain.coins + Spend \in Int
        BY <2>1, SMT
      <3>2. chain' \in Account
        BY <2>1, <3>1
      <3> QED  BY <2>1, <3>2
    <2> QED  BY <1>0, <1>4, <2>2 DEF Buy, Proceed
  <1>5. CASE Wrap
    <2>1. /\ chain' = [chain EXCEPT !.coins = @ - Spend, !.shares = @ + Spend]
          /\ Spend \in Int
      BY <1>0, <1>5, SMT DEF Wrap, Spend
    <2>2. chain' \in Account /\ chain'.idle = chain.idle
          /\ chain'.coll = chain.coll /\ chain'.debt = chain.debt
      <3>1. chain.coins - Spend \in Int /\ chain.shares + Spend \in Int
        BY <2>1, SMT
      <3>2. chain' \in Account
        BY <2>1, <3>1
      <3> QED  BY <2>1, <3>2
    <2> QED  BY <1>0, <1>5, <2>1, <2>2 DEF Wrap, Proceed
  <1>6. CASE Supply
    <2>1. /\ chain' = [chain EXCEPT !.shares = @ - Spend, !.coll = @ + Spend]
          /\ Spend \in Nat /\ seen.coll + Spend <= MaxPosition
          /\ phase = "allocate" /\ chain.coll <= seen.coll
      BY <1>0, <1>6, SMT DEF Supply, Spend, PositionAfter
    <2>2. chain' \in Account /\ chain'.idle = chain.idle
          /\ chain'.coll = chain.coll + Spend /\ chain'.debt = chain.debt
      <3>1. chain.shares - Spend \in Int /\ chain.coll + Spend \in Nat
        BY <2>1, SMT
      <3>2. chain' \in Account
        BY <2>1, <3>1
      <3> QED  BY <2>1, <3>2
    <2>3. chain'.coll <= MaxPosition
      <3>1. seen.coll \in Nat /\ chain.coll \in Nat
        OBVIOUS
      <3> QED  BY ONLY <1>0, <2>1, <2>2, <3>1, SMT
    <2> QED  BY <1>0, <1>6, <2>1, <2>2, <2>3 DEF Supply, Enter
  <1>7. CASE Plan
    <2>1. draw' \in 0..MaxDraw
      BY <1>7, DrawCapped DEF Plan
    <2>2. \/ phase' = "earn" /\ at' = "top"
          \/ phase' = phase /\ at' = "preview"
      BY <1>7 DEF Plan, Enter, Proceed
    <2> QED  BY <1>0, <1>7, <2>1, <2>2 DEF Plan
  <1>8. CASE Preview
    BY <1>0, <1>8 DEF Preview, Proceed
  <1>9. CASE Borrow
    <2>1. chain' = [chain EXCEPT !.idle = @ + draw, !.debt = @ + draw] /\ draw \in Nat
      BY <1>0, <1>9, SMT DEF Borrow
    <2>2. chain' \in Account /\ chain'.idle = chain.idle + draw
          /\ chain'.coll = chain.coll /\ chain'.debt = chain.debt + draw
      <3>1. chain.idle + draw \in Nat /\ chain.debt + draw \in Nat
        BY <2>1, SMT
      <3>2. chain' \in Account
        BY <2>1, <3>1
      <3> QED  BY <2>1, <3>2
    <2>3. chain'.debt <= DebtBefore + MaxDraw
      <3>1. chain.debt \in Nat /\ chain.debt <= DebtBefore /\ draw <= MaxDraw
        BY <1>0, <1>9 DEF Borrow
      <3> QED  BY ONLY <1>0, <2>1, <2>2, <3>1, SMT
    <2> QED  BY <1>0, <1>9, <2>2, <2>3 DEF Borrow, Enter
  <1>10. CASE Settle
    <2> DEFINE paid == Least(Repayment, chain.debt)
    <2>1. /\ chain.idle \in Nat /\ chain.debt \in Nat /\ seen.debt \in Nat
          /\ seen.idle = chain.idle /\ chain.debt <= seen.debt
          /\ chain.idle >= Revenue /\ chain.debt <= DebtBefore + MaxDraw
      BY <1>10 DEF Settle
    <2>2. /\ paid \in Nat /\ paid <= chain.idle /\ paid <= chain.debt
          /\ chain.debt - paid <= DebtBefore
      BY <1>0, <2>1, SMT DEF Repayment, Least
    <2>3. /\ chain' \in Account /\ chain'.coll = chain.coll
          /\ chain'.debt <= chain.debt /\ chain'.debt <= DebtBefore
      <3>1. CASE seen.debt <= 0 /\ UNCHANGED chain
        <4>1. chain.debt = 0
          BY <2>1, <3>1, SMT
        <4> QED  BY <1>0, <3>1, <4>1
      <3>2. CASE chain' = [chain EXCEPT !.idle = @ - paid, !.debt = @ - paid]
        <4> HIDE DEF paid
        <4>1. chain.idle - paid \in Nat /\ chain.debt - paid \in Nat
              /\ chain.debt - paid <= chain.debt
          BY <2>1, <2>2, SMT
        <4> QED  BY <2>2, <3>2, <4>1
      <3> QED  BY <1>10, <3>1, <3>2 DEF Settle
    <2> QED  BY <1>0, <1>10, <2>3 DEF Settle, Enter
  <1>11. CASE Withdraw
    <2>1. CASE opened = 0
      BY <1>0, <1>11, <2>1 DEF Withdraw, Enter
    <2>2. CASE opened > 0
      <3>1. /\ chain' = [chain EXCEPT !.coll = @ - opened, !.shares = @ + opened]
            /\ chain.coll >= opened /\ phase' = phase /\ at' = "unwrap"
        BY <1>11, <2>2, SMT DEF Withdraw, Proceed
      <3>2. chain.coll - opened \in Nat /\ chain.coll - opened <= chain.coll
        BY <2>2, <3>1, SMT
      <3>3. chain' \in Account /\ chain'.idle = chain.idle
            /\ chain'.coll = chain.coll - opened /\ chain'.debt = chain.debt
        <4>1. chain.shares + opened \in Int
          OBVIOUS
        <4>2. chain' \in Account
          BY <3>1, <3>2, <4>1
        <4> QED  BY <3>1, <4>2
      <3> QED  BY <1>0, <1>11, <3>1, <3>2, <3>3 DEF Withdraw
    <2> QED  BY <1>11, <2>1, <2>2 DEF Withdraw
  <1>12. CASE Unwrap
    <2>1. chain' = [chain EXCEPT !.shares = @ - opened, !.coins = @ + opened]
      BY <1>12 DEF Unwrap
    <2>2. chain' \in Account /\ chain'.coll = chain.coll /\ chain'.debt = chain.debt
      <3>1. chain.shares - opened \in Int /\ chain.coins + opened \in Int
        BY <2>1, SMT
      <3>2. chain' \in Account
        BY <2>1, <3>1
      <3> QED  BY <2>1, <3>2
    <2> QED  BY <1>0, <1>12, <2>2 DEF Unwrap, Enter
  <1> QED
    BY <1>1, <1>2, <1>3, <1>4, <1>5, <1>6, <1>7, <1>8, <1>9, <1>10, <1>11, <1>12
    DEF Policy

\* The steps of the others.
LEMMA OthersStep ==
  AgentAssumption /\ PolicyInv /\ (PriceMoves \/ Liquidated \/ UNCHANGED agentVars) => PolicyInv'
  <1> SUFFICES ASSUME AgentAssumption, PolicyInv,
                      PriceMoves \/ Liquidated \/ UNCHANGED agentVars
               PROVE  PolicyInv'
    OBVIOUS
  <1> USE DEF PolicyInv, AgentTypes, Account, CallsOrdered, OweBounded, PositionCapKept, books
  <1>1. CASE PriceMoves
    BY <1>1 DEF PriceMoves
  <1>2. CASE Liquidated
    <2>1. PICK repay \in 1..(chain.debt \div 2) :
            chain' = [chain EXCEPT !.debt = @ - repay,
                                   !.coll = @ - Least(Seize(repay, chain.price), @)]
      BY <1>2 DEF Liquidated
    <2>2. chain.debt \in Nat /\ chain.coll \in Nat /\ chain.price \in Nat \ {0}
      BY DEF AgentAssumption
    <2>3. repay \in Nat /\ chain.debt - repay \in 0..chain.debt
      BY <2>2, SMT
    <2>4. chain.coll - Least(Seize(repay, chain.price), chain.coll) \in 0..chain.coll
      BY <2>2, <2>3, SeizureLeaves
    <2>5. /\ chain'.debt = chain.debt - repay
          /\ chain'.coll = chain.coll - Least(Seize(repay, chain.price), chain.coll)
          /\ chain'.idle = chain.idle
      BY <2>1
    <2>6. /\ chain'.debt \in 0..chain.debt /\ chain'.coll \in 0..chain.coll
      BY <2>3, <2>4, <2>5
    <2>7. chain' \in Account
      <3>1. chain.debt - repay \in Nat
        BY <2>2, <2>3, SMT
      <3>2. chain.coll - Least(Seize(repay, chain.price), chain.coll) \in Nat
        BY <2>2, <2>4, SMT
      <3> QED  BY <2>1, <3>1, <3>2
    <2>8. UNCHANGED <<seen, phase, at, invoices, opened, draw>>
      BY <1>2 DEF Liquidated
    <2>9. MaxPosition \in Nat /\ DebtBefore \in Nat /\ MaxDraw \in Nat
      BY DEF AgentAssumption
    <2> QED  BY <2>2, <2>5, <2>6, <2>7, <2>8, <2>9
  <1>3. CASE UNCHANGED agentVars
    BY <1>3 DEF agentVars
  <1> QED  BY <1>1, <1>2, <1>3

\* It holds in every reachable state, whatever the market does between two calls.
THEOREM AgentInvariant == AgentSpec => []PolicyInv
  <1>1. PolicyInv /\ [AgentNext]_agentVars => PolicyInv'
    BY AgentAssumption, PolicyStep, OthersStep DEF AgentNext
  <1> QED  BY AgentAssumption, PolicyInit, <1>1, PTL DEF AgentSpec

\* MAX_POSITION is never exceeded, although the cap is checked on collateral
\* read several transactions before the supply that it admits: collateral only
\* falls in between.
THEOREM AgentPositionCapKept == AgentSpec => []PositionCapKept
  <1>1. PolicyInv => PositionCapKept
    BY DEF PolicyInv
  <1> QED  BY AgentInvariant, <1>1, PTL

\* A run that finishes owes no more than before it began, for any prices and
\* liquidations, as long as a draw is at most one invoice.
THEOREM AgentDrawRepaid == AgentSpec => []DrawRepaid
  <1>1. PolicyInv => DrawRepaid
    BY DEF PolicyInv, OweBounded, DrawRepaid
  <1> QED  BY AgentInvariant, <1>1, PTL
=============================================================================
