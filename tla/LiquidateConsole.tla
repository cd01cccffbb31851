-------------------------- MODULE LiquidateConsole --------------------------
(***************************************************************************)
(* app/src/routes/Liquidate.tsx: a liquidator types an address, checks it, *)
(* is shown its position and health, types a repayment and liquidates.     *)
(*                                                                         *)
(* check and liquidate are async handlers: each runs on with the address   *)
(* and amount of the render its click came from, while the user types and  *)
(* clicks on and the chain moves.  What a handler sets between two awaits  *)
(* is rendered as one.  The pool is external here, reduced to the rules a  *)
(* liquidation meets (MiniPool has it in full); health is one bit.         *)
(***************************************************************************)
EXTENDS Integers

CONSTANTS
  Borrowers, Junk,      \* addresses with a position, text that is no address
  Debts,                \* debts a position may have
  Repays,               \* amounts the user may type
  Nothing,              \* null
  MaxTasks              \* bound on handlers running at once

ASSUME ConsoleAssumption ==
  /\ Junk \notin Borrowers
  /\ Debts \subseteq Nat /\ Repays \subseteq Nat /\ MaxTasks \in Nat

VARIABLES
  debt, sick,           \* the pool: debts, and who has a health factor below 1
  target, repay,        \* the two inputs
  pos, hf,              \* the position and the health shown, with whose they are
  checking,             \* the Check button reads and is disabled
  tasks                 \* the handlers under way

chain == <<debt, sick>>
inputs == <<target, repay>>
vars == <<chain, inputs, pos, hf, checking, tasks>>

Inputs == Borrowers \cup {Junk}
Slots == 1..MaxTasks
Free == [at |-> "free", of |-> Junk, amount |-> 0, p |-> Nothing]

-----------------------------------------------------------------------------
(* The pool *)

PoolMoves(t, d, ill) ==
  /\ ill => d > 0
  /\ debt' = [debt EXCEPT ![t] = d]
  /\ sick' = IF ill THEN sick \cup {t} ELSE sick \ {t}
  /\ chain' # chain
  /\ UNCHANGED <<inputs, pos, hf, checking, tasks>>

\* liquidate as the pool does it, or rejected, or lost
Liquidation(t, n) ==
  \/ /\ t \in sick /\ n > 0 /\ n <= debt[t] \div 2
     /\ debt' = [debt EXCEPT ![t] = @ - n]
     /\ UNCHANGED sick
  \/ UNCHANGED chain

-----------------------------------------------------------------------------
(* The inputs.  Typing an address leaves what is shown as it is. *)

TypeTarget(t) ==
  /\ target' = t
  /\ UNCHANGED <<chain, repay, pos, hf, checking, tasks>>

TypeRepay(n) ==
  /\ repay' = n
  /\ UNCHANGED <<chain, target, pos, hf, checking, tasks>>

-----------------------------------------------------------------------------
(* check *)

Run(k, step) == tasks' = [tasks EXCEPT ![k] = step]
Finish(k) == Run(k, Free)

\* the handler's first part, up to its first await
CheckFrom(k, t) ==
  /\ pos' = Nothing
  /\ \/ /\ t = Junk
        /\ Finish(k) /\ UNCHANGED checking
     \/ /\ t # Junk
        /\ Run(k, [Free EXCEPT !.at = "position", !.of = t])
        /\ checking' = TRUE

ClickCheck(k) ==
  /\ tasks[k] = Free
  /\ ~checking
  /\ CheckFrom(k, target)
  /\ UNCHANGED <<chain, inputs, hf>>

\* mutant: the position is shown as soon as it is read
PosOnRead(p) == p

\* nothing is shown before both reads are in
PosKept(p) == pos

ReadPosition(k) ==
  LET t == tasks[k].of
  IN /\ tasks[k].at = "position"
     /\ \/ /\ Run(k, [tasks[k] EXCEPT !.at = "health", !.p = [of |-> t, debt |-> debt[t]]])
           /\ pos' = PosKept([of |-> t, debt |-> debt[t]])
           /\ UNCHANGED checking
        \/ /\ Finish(k)                              \* read threw
           /\ checking' = FALSE
           /\ UNCHANGED pos
     /\ UNCHANGED <<chain, inputs, hf>>

UnknownHealth == Nothing

ReadHealth(k) ==
  LET t == tasks[k].of
  IN /\ tasks[k].at = "health"
     /\ hf' \in {[of |-> t, sick |-> t \in sick], UnknownHealth}
     /\ pos' = tasks[k].p
     /\ checking' = FALSE
     /\ Finish(k)
     /\ UNCHANGED <<chain, inputs>>

-----------------------------------------------------------------------------
(* liquidate *)

\* a health that is unknown is not taken for healthy
Enabled ==
  /\ pos # Nothing
  /\ hf # Nothing => hf.sick
  /\ repay > 0 /\ repay <= pos.debt \div 2

ClickLiquidate(k) ==
  /\ tasks[k] = Free
  /\ Enabled
  /\ Run(k, [Free EXCEPT !.at = "submit", !.of = target, !.amount = repay])
  /\ UNCHANGED <<chain, inputs, pos, hf, checking>>

\* submit never throws, and the check that follows is of the same address
SubmitEnds(k) ==
  /\ tasks[k].at = "submit"
  /\ Liquidation(tasks[k].of, tasks[k].amount)
  /\ CheckFrom(k, tasks[k].of)
  /\ UNCHANGED <<inputs, hf>>

-----------------------------------------------------------------------------
Init ==
  /\ debt \in [Borrowers -> Debts] /\ sick = {}
  /\ target = Junk /\ repay = 0
  /\ pos = Nothing /\ hf = Nothing
  /\ checking = FALSE
  /\ tasks = [k \in Slots |-> Free]

Handler(k) == ReadPosition(k) \/ ReadHealth(k) \/ SubmitEnds(k)

Next ==
  \/ \E t \in Borrowers, d \in Debts, ill \in BOOLEAN : PoolMoves(t, d, ill)
  \/ \E t \in Inputs : TypeTarget(t)
  \/ \E n \in Repays : TypeRepay(n)
  \/ \E k \in Slots : ClickCheck(k) \/ ClickLiquidate(k) \/ Handler(k)

Spec == Init /\ [][Next]_vars

-----------------------------------------------------------------------------
(* Properties *)

\* The gauge beside a position is that position's: whichever handlers overlap,
\* the position and the health on the screen are of one account.
ShownTogether == (pos # Nothing /\ hf # Nothing) => pos.of = hf.of

=============================================================================
