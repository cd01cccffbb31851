------------------------------ MODULE MCWebApp ------------------------------
(***************************************************************************)
(* What a visitor meets: the liquidator's console, the pages with the      *)
(* wallet, the figures and the forms, or the early-access intake.  The     *)
(* three share no state, so a behaviour is of one of them and the others   *)
(* stay as they began.                                                     *)
(***************************************************************************)
EXTENDS LiquidateConsole, AppPages, Waitlist

VARIABLE visit

ConsoleAtRest == Init /\ debt = [b \in Borrowers |-> 0]
PagesAtRest == PagesInit /\ kind = "hf" /\ page = "borrow"

WebInit ==
  \/ visit = "console" /\ Init /\ PagesAtRest /\ WaitInit
  \/ visit = "pages" /\ PagesInit /\ ConsoleAtRest /\ WaitInit
  \/ visit = "waitlist" /\ WaitInit /\ ConsoleAtRest /\ PagesAtRest

WebNext ==
  /\ \/ visit = "console" /\ Next /\ UNCHANGED <<pageVars, waitVars>>
     \/ visit = "pages" /\ PagesNext /\ UNCHANGED <<vars, waitVars>>
     \/ visit = "waitlist" /\ WaitNext /\ UNCHANGED <<vars, pageVars>>
  /\ UNCHANGED visit

\* elsewhere than on the pages no figure is on the screen to be asked for
WebSpec ==
  /\ WebInit /\ [][WebNext]_<<visit, vars, pageVars, waitVars>>
  /\ PagesFair
=============================================================================
