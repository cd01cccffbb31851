------------------------------ MODULE Monitor ------------------------------
(***************************************************************************)
(* services/monitor: once per cycle it reads the live contracts, compares  *)
(* with the share price kept in its state file, and posts what it found to *)
(* a webhook; each cycle also pings a heartbeat.                           *)
(*                                                                         *)
(* The contracts are the environment: `chain` changes between any two      *)
(* reads.  A read goes through an RPC server that may fail.  The process   *)
(* may be killed anywhere (a cron job, a redeploy) and the post may get    *)
(* lost, which the code logs or ignores.                                   *)
(***************************************************************************)
EXTENDS Integers

CONSTANTS
  Prices,          \* share prices the vault may report
  StepLimit,       \* a price move beyond this is a step (SHARE_STEP_BPS)
  Navs,            \* NAVs the adapter may answer
  SCALE,           \* price scale
  Holdings,        \* underlying the vault may hold
  Cap,             \* the vault's deposit cap, in units of the underlying
  UtilPct,         \* CAP_UTIL_PCT
  MaxFaults,       \* bound on the reads that fail in a behaviour
  MaxLosses        \* bound on its kills and lost posts

ASSUME MonitorAssumption ==
  /\ Prices \subseteq Nat \ {0} /\ Navs \subseteq Nat \ {0}
  /\ StepLimit \in Nat /\ SCALE \in Nat \ {0}
  /\ Holdings \subseteq Nat /\ Cap \in Nat /\ UtilPct \in Nat
  /\ MaxFaults \in Nat /\ MaxLosses \in Nat

NoPrice == 0

VARIABLES
  chain,           \* [price, nav, halted, aged, paused, held], as the calls would answer
  file,            \* the state file's sharePrice
  pc,              \* where the cycle is; "off" between cycles
  price,           \* the cycle's copy of the state
  alerts,          \* alerts of this cycle
  posted,          \* history: what this cycle, or the last one, delivered
  faults, losses   \* reads that failed, kills and lost posts so far

cycle == <<file, pc, price, alerts, posted>>
vars == <<chain, cycle, faults, losses>>

-----------------------------------------------------------------------------
(* What the reads answer.  Halted, the adapter answers nothing, nor does   *)
(* any view of the vault that needs a price.                               *)

Fault == faults < MaxFaults /\ faults' = faults + 1
Loss == losses < MaxLosses /\ losses' = losses + 1
Answers == ~chain.halted /\ UNCHANGED faults
FailsToAnswer == (chain.halted /\ UNCHANGED faults) \/ Fault

Distance(a, b) == IF a > b THEN a - b ELSE b - a

\* mutant: the step is judged with the sign of the move
StepUpwards(new) == price # NoPrice /\ new - price > StepLimit

Step(new) == price # NoPrice /\ Distance(new, price) > StepLimit

\* total_assets_value (quote units) over cap
Utilization == (((chain.held * chain.nav) \div SCALE) * 100) \div Cap
CapAlert == Cap > 0 /\ Utilization > UtilPct

-----------------------------------------------------------------------------
(* One cycle *)

Start ==
  /\ pc = "off"
  /\ pc' = "nav" /\ alerts' = {} /\ price' = file
  /\ posted' = {}
  /\ UNCHANGED <<chain, file, faults, losses>>

\* mutant: a reading that fails is passed over
ReadNavTrusting ==
  /\ pc = "nav"
  /\ \/ Answers /\ alerts' = alerts \cup (IF chain.aged THEN {"stale"} ELSE {})
     \/ FailsToAnswer /\ UNCHANGED alerts
  /\ pc' = "price"
  /\ UNCHANGED <<chain, file, price, posted, losses>>

ReadNav ==
  /\ pc = "nav"
  /\ \/ Answers /\ alerts' = alerts \cup (IF chain.aged THEN {"stale"} ELSE {})
     \/ FailsToAnswer /\ alerts' = alerts \cup {"halted"}
  /\ pc' = "price"
  /\ UNCHANGED <<chain, file, price, posted, losses>>

\* mutant: a read that fails forgets the price to compare with
Forgotten == NoPrice

\* a read that fails keeps the price to compare with
Kept == price

ReadPrice ==
  /\ pc = "price"
  /\ \/ /\ Answers
        /\ price' = chain.price
        /\ alerts' = alerts \cup (IF Step(chain.price) THEN {"step"} ELSE {})
     \/ FailsToAnswer /\ price' = Kept /\ UNCHANGED alerts
  /\ pc' = "cap"
  /\ UNCHANGED <<chain, file, posted, losses>>

\* three reads at once: one that fails discards all three
ReadCap ==
  /\ pc = "cap"
  /\ \/ /\ Answers
        /\ alerts' = alerts
             \cup (IF CapAlert THEN {"cap"} ELSE {})
             \cup (IF chain.paused THEN {"paused"} ELSE {})
     \/ FailsToAnswer /\ UNCHANGED alerts
  /\ pc' = "save"
  /\ UNCHANGED <<chain, file, price, posted, losses>>

Save ==
  /\ pc = "save"
  /\ file' = price
  /\ pc' = "ping"
  /\ UNCHANGED <<chain, price, alerts, posted, faults, losses>>

Heartbeat ==
  /\ pc = "ping"
  /\ pc' = "post"
  /\ UNCHANGED <<chain, file, price, alerts, posted, faults, losses>>

\* nothing to post, a post that arrives, one that fails and is logged
Discord ==
  /\ pc = "post"
  /\ \/ posted' = alerts /\ UNCHANGED losses
     \/ Loss /\ UNCHANGED posted
  /\ pc' = "off"
  /\ UNCHANGED <<chain, file, price, alerts, faults>>

-----------------------------------------------------------------------------
(* The process is killed; while it writes, the file may be left unreadable. *)

Crash ==
  /\ pc # "off"
  /\ Loss
  /\ file' = file \/ (pc = "save" /\ file' = NoPrice)
  /\ pc' = "off"
  /\ UNCHANGED <<chain, price, alerts, posted, faults>>

\* one contract call, or the passing of time, changes one of the answers
ChainMoves ==
  /\ \/ \E p \in Prices : chain' = [chain EXCEPT !.price = p]
     \/ \E n \in Navs : chain' = [chain EXCEPT !.nav = n]
     \/ \E u \in Holdings : chain' = [chain EXCEPT !.held = u]
     \/ \E field \in {"halted", "aged", "paused"} : chain' = [chain EXCEPT ![field] = ~@]
  /\ chain' # chain
  /\ UNCHANGED <<cycle, faults, losses>>

-----------------------------------------------------------------------------
Init ==
  /\ chain \in [price : Prices, nav : Navs, halted : {FALSE}, aged : {FALSE},
               paused : {FALSE}, held : Holdings]
  /\ file = NoPrice /\ price = NoPrice
  /\ pc = "off" /\ alerts = {} /\ posted = {}
  /\ faults = 0 /\ losses = 0

Cycle == Start \/ ReadNav \/ ReadPrice \/ ReadCap \/ Save \/ Heartbeat \/ Discord

Next == Cycle \/ Crash \/ ChainMoves

Spec == Init /\ [][Next]_vars

\* --loop, or a cron job, begins a cycle again and again, and a cycle that is
\* not killed goes on.
FairSpec == Spec /\ WF_vars(Cycle)

-----------------------------------------------------------------------------
(* Properties: "posts to a Discord webhook when any of these trip" *)

Overfull == ~chain.halted /\ CapAlert

\* A condition that lasts reaches the webhook, whatever finite number of reads
\* fail, posts get lost and cycles are killed: a halted oracle, and, while it
\* answers, an old NAV, a pause, a vault filled beyond the threshold.
StandingReported ==
  /\ [](<>[]chain.halted => <>("halted" \in posted))
  /\ []([](chain.aged /\ ~chain.halted) => <>("stale" \in posted))
  /\ []([](chain.paused /\ ~chain.halted) => <>("paused" \in posted))
  /\ []([]Overfull => <>("cap" \in posted))

\* A share price that has moved by more than the limit from the one a cycle
\* last saved, and stays there, is reported as a step, however many reads fail
\* and however often the oracle halts before: a failed read keeps the price to
\* compare with.  A kill or a lost post from then on voids the promise, since
\* the file holds the new price before the alert is posted.
StepReported ==
  \A old, new \in Prices, n \in 0..MaxLosses :
    Distance(old, new) > StepLimit =>
      []((/\ file = old /\ pc = "off"
          /\ [](chain.price = new /\ losses = n) /\ <>[](~chain.halted))
           => <>("step" \in posted))

\* "Vault paused | `is_paused == true`" is one of the conditions the webhook
\* gets "when any of these trip" (docs/MONITORING.md:5-14).  is_paused needs no
\* price, but it is awaited with two reads that do: while the oracle is halted
\* the three fail together and a pause that lasts goes unreported.
PauseReported == []([]chain.paused => <>("paused" \in posted))

=============================================================================
