--------------------------- MODULE AgentTreasury ---------------------------
(***************************************************************************)
(* packages/sdk/examples/agent-treasury.ts: a policy that earns, wraps its *)
(* idle cash into shares, supplies them, borrows against them, repays and  *)
(* unwinds.  It decides on a snapshot taken at the head of each tick; the  *)
(* share price moves, and others liquidate, between any two of its calls.  *)
(* A call that fails throws, which ends the run with what it has open.     *)
(*                                                                         *)
(* The contracts are reduced to what the policy meets of them: the vault   *)
(* mints and redeems at the current price without its virtual offset, the  *)
(* pool applies its LTV, health and close-factor rules (MiniPool has them  *)
(* in full).  Arithmetic is that of the SDK's math.ts.                     *)
(***************************************************************************)
EXTENDS Integers

CONSTANTS
  SCALE, Floor,                  \* Floor is HF_FLOOR, scaled by SCALE
  LtvPct, ThresholdPct, BonusPct,
  Revenue, IdleMax, IdleKeep, WorkingMin, MaxDraw, MaxPosition, MaxTicks,
  Prices,                        \* share prices, in quote per SCALE shares
  MaxMoves,                      \* bound on the price moves of a behaviour
  IdleBefore, CollsBefore, DebtBefore  \* what the agent may hold when it starts

ASSUME AgentAssumption ==
  /\ SCALE \in Nat \ {0} /\ Floor \in Nat \ {0}
  /\ LtvPct \in 1..100 /\ ThresholdPct \in LtvPct..100 /\ BonusPct \in Nat
  /\ \A n \in {Revenue, IdleMax, IdleKeep, WorkingMin, MaxDraw, MaxPosition, MaxTicks,
               MaxMoves, IdleBefore, DebtBefore} : n \in Nat
  /\ Prices \subseteq Nat \ {0}
  /\ IdleKeep <= IdleMax /\ IdleKeep < WorkingMin /\ MaxDraw <= Revenue
  /\ CollsBefore \subseteq 0..MaxPosition

VARIABLES
  chain,           \* the agent's [idle, coins, shares, coll, debt], and the price
  seen,            \* the snapshot s of this tick
  phase,           \* the policy's phase
  at,              \* the next call within the tick; "top" between ticks
  tick, invoices,
  opened,          \* shares this run has minted
  draw,            \* the amount it is about to borrow
  moves

agentVars == <<chain, seen, phase, at, tick, invoices, opened, draw, moves>>
books == <<seen, tick>>

Phases == {"earn", "allocate", "work", "settle", "unwind", "done", "stopped"}

-----------------------------------------------------------------------------
(* math.ts *)

CollValue(coll, price) == (coll * price) \div SCALE
Adjusted(coll, price) == (CollValue(coll, price) * ThresholdPct) \div 100

\* healthFactor; only asked of a position with debt
HealthFactor(coll, debt, price) == (Adjusted(coll, price) * SCALE) \div debt

\* maxBorrowForHealthFactor at the floor
Room(coll, debt, price) ==
  LET maxDebt == (Adjusted(coll, price) * SCALE) \div Floor
  IN IF maxDebt > debt THEN maxDebt - debt ELSE 0

\* quoteSeize
CeilDiv(a, b) == (a + b - 1) \div b
Seize(repay, price) == CeilDiv(CeilDiv(repay * (100 + BonusPct), 100) * SCALE, price)

Least(a, b) == IF a < b THEN a ELSE b

\* the pool's own gates
MayOwe(coll, debt, price) == debt <= (CollValue(coll, price) * LtvPct) \div 100
Healthy(coll, debt, price) == debt # 0 => HealthFactor(coll, debt, price) >= SCALE

-----------------------------------------------------------------------------
(* One tick *)

Enter(next) == phase' = next /\ at' = "top"
Proceed(next) == at' = next /\ UNCHANGED phase

\* a call or a check throws: the run is over
Throw ==
  /\ phase \notin {"done", "stopped"}
  /\ Enter("stopped")
  /\ UNCHANGED <<chain, books, invoices, opened, draw, moves>>

\* mutant: the state is read once, not in every tick
FirstSnapshot == IF tick = 0 THEN chain ELSE seen

Snapshot == chain

Observe ==
  /\ at = "top"
  /\ phase \notin {"done", "stopped"}
  /\ tick < MaxTicks
  /\ tick' = tick + 1
  /\ seen' = Snapshot
  /\ Proceed(phase)
  /\ UNCHANGED <<chain, invoices, opened, draw, moves>>

Earn ==
  /\ at = "earn"
  /\ chain' = [chain EXCEPT !.idle = @ + Revenue]
  /\ invoices' = invoices + 1
  /\ Enter(IF invoices = 0 THEN "allocate" ELSE "settle")
  /\ UNCHANGED <<books, opened, draw, moves>>

Spend == seen.idle - IdleKeep

PayDesk ==
  /\ at = "allocate"
  /\ \/ /\ seen.idle <= IdleMax
        /\ Enter("work") /\ UNCHANGED chain
     \/ /\ seen.idle > IdleMax
        /\ chain' = [chain EXCEPT !.idle = @ - Spend]
        /\ Proceed("buy")
  /\ UNCHANGED <<books, invoices, opened, draw, moves>>

Buy ==
  /\ at = "buy"
  /\ chain' = [chain EXCEPT !.coins = @ + Spend]
  /\ Proceed("wrap")
  /\ UNCHANGED <<books, invoices, opened, draw, moves>>

\* deposit mints at par with the underlying; `opened` remembers it
Wrap ==
  /\ at = "wrap"
  /\ chain' = [chain EXCEPT !.coins = @ - Spend, !.shares = @ + Spend]
  /\ opened' = opened + Spend
  /\ Proceed("supply")
  /\ UNCHANGED <<books, invoices, draw, moves>>

\* mutant: the cap looks at this run's shares only
PositionOfRun(minted) == minted

PositionAfter(minted) == seen.coll + minted

Supply ==
  /\ at = "supply"
  /\ PositionAfter(Spend) <= MaxPosition
  /\ chain' = [chain EXCEPT !.shares = @ - Spend, !.coll = @ + Spend]
  /\ Enter("work")
  /\ UNCHANGED <<books, invoices, opened, draw, moves>>

Plan ==
  /\ at = "work"
  /\ draw' = Least(Room(seen.coll, seen.debt, seen.price), MaxDraw)
  /\ IF seen.idle >= WorkingMin \/ draw' <= 0 THEN Enter("earn") ELSE Proceed("preview")
  /\ UNCHANGED <<chain, books, invoices, opened, moves>>

\* on the position and price of the moment
PreviewHealthFactor(deltaDebt) ==
  HealthFactor(chain.coll, chain.debt + deltaDebt, chain.price)

Preview ==
  /\ at = "preview"
  /\ PreviewHealthFactor(draw) >= Floor
  /\ Proceed("borrow")
  /\ UNCHANGED <<chain, books, invoices, opened, draw, moves>>

Borrow ==
  /\ at = "borrow"
  /\ MayOwe(chain.coll, chain.debt + draw, chain.price)
  /\ chain' = [chain EXCEPT !.idle = @ + draw, !.debt = @ + draw]
  /\ Enter("earn")
  /\ UNCHANGED <<books, invoices, opened, draw, moves>>

Repayment == Least(seen.idle, seen.debt)

\* the pool clamps a repayment to the debt that is left
Settle ==
  /\ at = "settle"
  /\ \/ seen.debt <= 0 /\ UNCHANGED chain
     \/ /\ seen.debt > 0 /\ chain.debt > 0
        /\ chain' = [chain EXCEPT !.idle = @ - Least(Repayment, chain.debt),
                                  !.debt = @ - Least(Repayment, chain.debt)]
  /\ Enter("unwind")
  /\ UNCHANGED <<books, invoices, opened, draw, moves>>

Withdraw ==
  /\ at = "unwind"
  /\ \/ /\ opened = 0
        /\ Enter("done") /\ UNCHANGED chain
     \/ /\ opened > 0
        /\ chain.coll >= opened
        /\ Healthy(chain.coll - opened, chain.debt, chain.price)
        /\ chain' = [chain EXCEPT !.coll = @ - opened, !.shares = @ + opened]
        /\ Proceed("unwrap")
  /\ UNCHANGED <<books, invoices, opened, draw, moves>>

Unwrap ==
  /\ at = "unwrap"
  /\ chain' = [chain EXCEPT !.shares = @ - opened, !.coins = @ + opened]
  /\ Enter("done")
  /\ UNCHANGED <<books, invoices, opened, draw, moves>>

-----------------------------------------------------------------------------
(* The others *)

PriceMoves ==
  /\ moves < MaxMoves
  /\ \E p \in Prices \ {chain.price} : chain' = [chain EXCEPT !.price = p]
  /\ moves' = moves + 1
  /\ UNCHANGED <<books, phase, at, invoices, opened, draw>>

Liquidated ==
  /\ ~Healthy(chain.coll, chain.debt, chain.price)
  /\ \E repay \in 1..(chain.debt \div 2) :
       chain' = [chain EXCEPT !.debt = @ - repay,
                              !.coll = @ - Least(Seize(repay, chain.price), @)]
  /\ UNCHANGED <<books, phase, at, invoices, opened, draw, moves>>

Policy ==
  \/ Observe \/ Earn \/ PayDesk \/ Buy \/ Wrap \/ Supply \/ Plan \/ Preview
  \/ Borrow \/ Settle \/ Withdraw \/ Unwrap
  \/ Throw

AgentInit ==
  /\ \E p \in Prices, held \in CollsBefore :
       chain = [idle |-> IdleBefore, coins |-> 0, shares |-> 0,
                coll |-> held, debt |-> DebtBefore, price |-> p]
  /\ seen = chain
  /\ phase = "earn" /\ at = "top"
  /\ tick = 0 /\ invoices = 0 /\ opened = 0 /\ draw = 0 /\ moves = 0

AgentNext == Policy \/ PriceMoves \/ Liquidated

AgentSpec == AgentInit /\ [][AgentNext]_agentVars

-----------------------------------------------------------------------------
(* Properties *)

\* "total collateral cap": whatever the run started with and whenever the
\* snapshot was taken, the position never exceeds MAX_POSITION.
PositionCapKept == chain.coll <= MaxPosition

\* "The next revenue arrival clears the draw": a run that finishes owes no more
\* than before it began, also when it began with debt.
DrawRepaid == phase = "done" => chain.debt <= DebtBefore

=============================================================================
