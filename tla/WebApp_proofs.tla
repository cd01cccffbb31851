---------------------------- MODULE WebApp_proofs ----------------------------
(***************************************************************************)
(* What a visitor is shown, for any number of wallets, handlers, writes    *)
(* and requests at once: the console's gauge is the shown position's, a    *)
(* receipt is in the figures its form shows or they are read again, and a  *)
(* signup answered with 201 is kept.                                       *)
(*                                                                         *)
(* Each is about an async handler that goes on with what it captured, so   *)
(* each invariant says what the captured copies still have to do with the  *)
(* state they were taken of.                                               *)
(***************************************************************************)
EXTENDS LiquidateConsole, AppPages, Waitlist, TLAPS

-----------------------------------------------------------------------------
(* The console *)

Position == [of : Borrowers, debt : Nat]
Task == [at : {"free", "position", "health", "submit"}, of : Inputs, amount : Nat,
         p : Position \cup {Nothing}]

\* a handler between its two reads holds the position of the account it asks
\* the health of
ConsoleInv ==
  /\ debt \in [Borrowers -> Nat]
  /\ target \in Inputs /\ repay \in Nat
  /\ tasks \in [Slots -> Task]
  /\ \A k \in Slots : /\ tasks[k].at \in {"position", "health"} => tasks[k].of \in Borrowers
                      /\ tasks[k].at = "health" => tasks[k].p.of = tasks[k].of
  /\ ShownTogether

\* Nothing is shown at first.
LEMMA ConsoleStarts == Init => ConsoleInv
<1> SUFFICES ASSUME Init PROVE ConsoleInv
  OBVIOUS
<1>1. Free \in Task /\ Free.at = "free"
  BY DEF Free, Task, Inputs
<1>2. debt \in [Borrowers -> Nat] /\ target \in Inputs /\ repay \in Nat
  BY ConsoleAssumption DEF Init, Inputs
<1>3. ShownTogether
  BY DEF Init, ShownTogether
<1> QED BY <1>1, <1>2, <1>3 DEF Init, ConsoleInv

\* What runs up to the first await of a check takes the position off the
\* screen, and asks for the address it was given.
LEMMA CheckFromKeeps ==
  ASSUME ConsoleInv, NEW k \in Slots, NEW t \in Inputs, CheckFrom(k, t),
         debt' \in [Borrowers -> Nat], UNCHANGED <<target, repay, hf>>
  PROVE  ConsoleInv'
<1>1. t # Junk => t \in Borrowers
  BY DEF Inputs
<1>2. /\ Free \in Task /\ Free.at = "free"
      /\ t # Junk => /\ [Free EXCEPT !.at = "position", !.of = t] \in Task
                     /\ [Free EXCEPT !.at = "position", !.of = t].at = "position"
                     /\ [Free EXCEPT !.at = "position", !.of = t].of = t
  BY <1>1, ConsoleAssumption DEF Free, Task, Inputs
<1>3. tasks' \in [Slots -> Task]
  BY <1>2 DEF CheckFrom, Run, Finish, ConsoleInv
<1>4. \A j \in Slots : j # k => tasks'[j] = tasks[j]
  BY DEF CheckFrom, Run, Finish, ConsoleInv
<1>5. tasks'[k].at = "free" \/ (tasks'[k].at = "position" /\ tasks'[k].of \in Borrowers)
  BY <1>1, <1>2 DEF CheckFrom, Run, Finish, ConsoleInv
<1>6. ShownTogether'
  BY DEF CheckFrom, ShownTogether
<1> QED BY <1>3, <1>4, <1>5, <1>6 DEF ConsoleInv

\* Every step of a handler, of the visitor or of the pool keeps it.
LEMMA ConsoleStep == ConsoleInv /\ [Next]_vars => ConsoleInv'
<1> SUFFICES ASSUME ConsoleInv, [Next]_vars PROVE ConsoleInv'
  OBVIOUS
<1>1. ASSUME NEW t \in Borrowers, NEW d \in Debts, NEW ill \in BOOLEAN, PoolMoves(t, d, ill)
      PROVE  ConsoleInv'
  BY <1>1, ConsoleAssumption DEF PoolMoves, ConsoleInv, inputs, ShownTogether
<1>2. ASSUME NEW t \in Inputs, TypeTarget(t)
      PROVE  ConsoleInv'
  BY <1>2 DEF TypeTarget, ConsoleInv, chain, ShownTogether
<1>3. ASSUME NEW n \in Repays, TypeRepay(n)
      PROVE  ConsoleInv'
  BY <1>3, ConsoleAssumption DEF TypeRepay, ConsoleInv, chain, ShownTogether
<1>4. ASSUME NEW k \in Slots, ClickCheck(k)
      PROVE  ConsoleInv'
  BY <1>4, CheckFromKeeps DEF ClickCheck, ConsoleInv, chain, inputs
<1>5. ASSUME NEW k \in Slots, ClickLiquidate(k)
      PROVE  ConsoleInv'
  BY <1>5 DEF ClickLiquidate, Run, Free, Task, ConsoleInv, chain, inputs, ShownTogether
<1>6. ASSUME NEW k \in Slots, ReadPosition(k)
      PROVE  ConsoleInv'
  <2>1. tasks[k] \in Task /\ tasks[k].at = "position" /\ tasks[k].of \in Borrowers
    BY <1>6 DEF ReadPosition, ConsoleInv
  <2> DEFINE read == [tasks[k] EXCEPT !.at = "health",
                                      !.p = [of |-> tasks[k].of, debt |-> debt[tasks[k].of]]]
  <2>2. read \in Task /\ read.at = "health" /\ read.of = tasks[k].of /\ read.p.of = read.of
    BY <2>1 DEF Task, Position, ConsoleInv
  <2>3. Free \in Task /\ Free.at = "free"
    BY DEF Free, Task, Inputs
  <2>4. tasks' = [tasks EXCEPT ![k] = read] \/ tasks' = [tasks EXCEPT ![k] = Free]
    BY <1>6 DEF ReadPosition, Run, Finish
  <2> HIDE DEF read
  <2>5. UNCHANGED <<debt, target, repay, pos, hf>>
    BY <1>6 DEF ReadPosition, PosKept, chain, inputs
  <2> QED BY <2>1, <2>2, <2>3, <2>4, <2>5 DEF ConsoleInv, ShownTogether
<1>7. ASSUME NEW k \in Slots, ReadHealth(k)
      PROVE  ConsoleInv'
  <2>1. /\ tasks[k].at = "health" /\ tasks[k].p.of = tasks[k].of
        /\ pos' = tasks[k].p /\ tasks' = [tasks EXCEPT ![k] = Free]
        /\ hf' = [of |-> tasks[k].of, sick |-> tasks[k].of \in sick] \/ hf' = Nothing
        /\ UNCHANGED <<debt, target, repay>>
    BY <1>7 DEF ReadHealth, ConsoleInv, UnknownHealth, Finish, Run, chain, inputs
  <2>2. Free \in Task /\ Free.at = "free"
    BY DEF Free, Task, Inputs
  <2>3. ShownTogether'
    BY <2>1 DEF ShownTogether
  <2> QED BY <2>1, <2>2, <2>3 DEF ConsoleInv
<1>8. ASSUME NEW k \in Slots, SubmitEnds(k)
      PROVE  ConsoleInv'
  <2>1. debt' \in [Borrowers -> Nat]
    <3> DEFINE t == tasks[k].of
               n == tasks[k].amount
    <3>1. n \in Nat
      BY DEF ConsoleInv, Task
    <3>2. CASE debt' = [debt EXCEPT ![t] = @ - n] /\ n <= debt[t] \div 2
      <4>1. \A d \in Nat : n <= d \div 2 => d - n \in Nat
        BY <3>1
      <4> QED BY <3>2, <4>1 DEF ConsoleInv
    <3>3. CASE debt' = debt
      BY <3>3 DEF ConsoleInv
    <3> QED BY <1>8, <3>2, <3>3 DEF SubmitEnds, Liquidation, chain
  <2>2. tasks[k].of \in Inputs
    BY DEF ConsoleInv, Task
  <2> QED BY <1>8, <2>1, <2>2, CheckFromKeeps DEF SubmitEnds, inputs
<1>9. CASE UNCHANGED vars
  BY <1>9 DEF vars, chain, inputs, ConsoleInv, ShownTogether
<1> QED BY <1>1, <1>2, <1>3, <1>4, <1>5, <1>6, <1>7, <1>8, <1>9 DEF Next, Handler

\* Whichever checks and liquidations overlap, and whatever the visitor types
\* meanwhile, the gauge on the screen is of the position beside it.
THEOREM ConsoleShownTogether == Spec => []ShownTogether
<1>1. ConsoleInv => ShownTogether
  BY DEF ConsoleInv
<1> QED BY <1>1, ConsoleStarts, ConsoleStep, PTL DEF Spec

-----------------------------------------------------------------------------
(* The pages *)

Anyone == Wallets \cup {NoWallet}
Figure == [since : Nat, says : BOOLEAN \cup Wallets \cup {Absent}]
Fetch  == [at : {"idle", "asked", "answered"}, got : Figure]
Write  == [at : {"done", "sign", "sent", "landed"}, op : Ops \cup {"none", "send"},
           by : Anyone, on : Anyone, hash : Nat, busy : BOOLEAN]
Receipts == [of : Keys, hash : Nat]

PagesTypeOK ==
  /\ kind \in OfWallet \cup OfAll /\ height \in Nat
  /\ truth \in [Keys -> Figure] /\ data \in [Keys -> Figure] /\ flight \in [Keys -> Fetch]
  /\ wallet \in Anyone
  /\ calls \in [CallIds -> Write]
  /\ log \in SUBSET Receipts

\* what has landed is in the figure from its own change of the chain on
TruthKnows ==
  /\ \A k \in Keys : truth[k].since <= height
  /\ \A c \in CallIds :
       calls[c].at = "landed" =>
         /\ calls[c].op \in Ops
         /\ kind \in Changes(calls[c].op) =>
              \A k \in Changed(calls[c]) : calls[c].hash <= truth[k].since

\* a receipt's write is in the figure; a fetch still to be delivered has seen
\* it; and what is on the screen has, or is marked
Vouched(k, hash) ==
  /\ hash <= truth[k].since
  /\ flight[k].at = "answered" => hash <= flight[k].got.since
  /\ data[k].since >= hash \/ k \in stale

\* between its click and its end a write acts for somebody, on somebody
ActsFor(call) == call.by \in Wallets /\ call.on \in Wallets /\ call.op \in Ops \cup {"send"}
ActsForSomebody == \A c \in CallIds : calls[c].at # "done" => ActsFor(calls[c])

PagesInv ==
  /\ PagesTypeOK
  /\ TruthKnows
  /\ ActsForSomebody
  /\ \A e \in log : Vouched(e.of, e.hash)

\* The wallet's key is one of the keys followed.
LEMMA KeyOfWallet == \A w \in Wallets : Key(w) \in Keys
BY DEF Keys

\* A write under way changes figures that are followed.
LEMMA ChangedFollowed ==
  ASSUME NEW call, call.by \in Wallets, call.on \in Wallets
  PROVE  Changed(call) \subseteq Keys
BY KeyOfWallet DEF Changed

\* The keys depend on the kind followed alone.
LEMMA KeysStand ==
  ASSUME kind' = kind
  PROVE  Keys' = Keys /\ (\A w : Key(w)' = Key(w)) /\ \A call : Changed(call)' = Changed(call)
<1>1. Keys' = Keys /\ \A w : Key(w)' = Key(w)
  BY DEF Keys, Key
<1> QED BY <1>1 DEF Changed

\* Every form invalidates the figures of its own page that its writes change.
LEMMA ChangesInvalidated ==
  ASSUME NEW op \in Ops
  PROVE  Changes(op) \cap Reads[Home(op)] \subseteq Invalidates(op)
<1>1. CASE op \in BorrowOps
  <2>1. Home(op) = "borrow" /\ Invalidates(op) = BorrowInvalidates
    BY <1>1 DEF Home, Invalidates, BorrowOps, WrapOps, IssuerOps, LiquidateOps
  <2>2. Changes(op) \subseteq CollateralMoves \cup DebtMoves
    BY <1>1 DEF Changes, BorrowOps, WrapOps, IssuerOps, LiquidateOps
  <2> QED BY <2>1, <2>2 DEF Reads, Borrow, CollateralMoves, DebtMoves, BorrowInvalidates
<1>2. CASE op \in WrapOps
  <2>1. Home(op) = "vault" /\ Invalidates(op) = WrapInvalidates /\ Changes(op) = VaultTrades
    BY <1>2 DEF Home, Invalidates, Changes, BorrowOps, WrapOps, IssuerOps, LiquidateOps
  <2> QED BY <2>1 DEF Reads, VaultDetail, VaultTrades, WrapInvalidates
<1>3. CASE op \in IssuerOps
  <2>1. Invalidates(op) = IssuerInvalidates /\ Changes(op) = VaultSettings
    BY <1>3 DEF Invalidates, Changes, BorrowOps, WrapOps, IssuerOps, LiquidateOps
  <2> QED BY <2>1 DEF VaultSettings, IssuerInvalidates
<1>4. CASE op \in LiquidateOps
  <2>1. Home(op) = "liquidate" /\ Changes(op) = LiquidationMoves
    BY <1>4 DEF Home, Changes, BorrowOps, WrapOps, IssuerOps, LiquidateOps
  <2> QED BY <2>1 DEF Reads, Liquidate, LiquidationMoves, CollateralMoves, DebtMoves
<1> QED BY <1>1, <1>2, <1>3, <1>4, PagesAssumption

\* The constant records are of their types.
LEMMA PageRecords ==
  /\ NoData \in Figure /\ Idle \in Fetch /\ Asked \in Fetch /\ Done \in Write
  /\ Idle.at = "idle" /\ Asked.at = "asked" /\ Done.at = "done"
  /\ Done.hash = 0
BY DEF NoData, Idle, Asked, Done, Figure, Fetch, Write, Anyone

\* What a figure may say.
LEMMA SayingsType == Sayings \subseteq BOOLEAN \cup Wallets \cup {Absent}
<1>1. CASE kind = "vaultAdmin"
  BY <1>1 DEF Sayings
<1>2. CASE kind \in {"vaultTotals", "nav", "whitelist"}
  BY <1>2 DEF Sayings
<1>3. CASE kind \notin {"vaultAdmin", "vaultTotals", "nav", "whitelist"}
  <2>1. Sayings = {TRUE}
    BY <1>3 DEF Sayings
  <2> QED BY <2>1
<1> QED BY <1>1, <1>2, <1>3

\* Nobody is connected and nothing read at first.
LEMMA PagesStart == PagesInit => PagesInv
<1> SUFFICES ASSUME PagesInit PROVE PagesInv
  OBVIOUS
<1>1. kind \in OfWallet \cup OfAll
  BY PagesAssumption DEF PagesInit
<1>2. truth \in [Keys -> Figure] /\ \A k \in Keys : truth[k].since = 1
  <2>1. Sayings \subseteq BOOLEAN \cup Wallets \cup {Absent}
    BY SayingsType
  <2>2. [since : {1}, says : Sayings] \subseteq Figure
    BY <2>1 DEF Figure
  <2> QED BY <2>2 DEF PagesInit
<1>3. PagesTypeOK
  BY <1>1, <1>2, PageRecords DEF PagesInit, PagesTypeOK, Anyone
<1>4. TruthKnows /\ ActsForSomebody
  BY <1>2, PageRecords DEF PagesInit, TruthKnows, ActsForSomebody
<1> QED BY <1>3, <1>4 DEF PagesInit, PagesInv

\* Steps of the cache: the chain and the writes stand, and what is delivered or
\* asked for again has seen every receipt's write.
LEMMA CacheKeeps ==
  ASSUME PagesInv, UNCHANGED <<chainVars, wallet, calls, log>>,
         data' \in [Keys -> Figure], flight' \in [Keys -> Fetch],
         \A k \in Keys, hash \in Nat : Vouched(k, hash) => Vouched(k, hash)'
  PROVE  PagesInv'
<1>1. kind' = kind /\ Keys' = Keys /\ (\A w : Key(w)' = Key(w)) /\ \A w : Changed(w)' = Changed(w)
  BY KeysStand DEF chainVars
<1>2. PagesTypeOK'
  BY <1>1 DEF PagesInv, PagesTypeOK, chainVars, Receipts
<1>3. TruthKnows' /\ ActsForSomebody'
  BY <1>1 DEF PagesInv, TruthKnows, ActsForSomebody, chainVars
<1>4. \A e \in log : e.of \in Keys /\ e.hash \in Nat
  BY DEF PagesInv, PagesTypeOK, Receipts
<1> QED BY <1>2, <1>3, <1>4 DEF PagesInv

\* A fetch that starts, is answered, fails or is delivered.
LEMMA FetchKeeps ==
  ASSUME PagesInv, NEW k \in Keys,
         StartFetch(k) \/ ServerAnswers(k) \/ ServerAnswersPartly(k)
           \/ FetchFails(k) \/ Deliver(k)
  PROVE  PagesInv'
<1>0. /\ truth \in [Keys -> Figure] /\ data \in [Keys -> Figure] /\ flight \in [Keys -> Fetch]
      /\ UNCHANGED <<chainVars, wallet, calls, log>>
  BY DEF PagesInv, PagesTypeOK, StartFetch, ServerAnswers, ServerAnswersPartly, Answer,
         FetchFails, Deliver
<1>1. ASSUME NEW step \in {Idle, Asked}, flight' = [flight EXCEPT ![k] = step],
             UNCHANGED <<data, stale>>
      PROVE  PagesInv'
  <2>1. flight' \in [Keys -> Fetch] /\ flight'[k].at # "answered"
    BY <1>0, <1>1, PageRecords
  <2> QED BY <1>0, <1>1, <2>1, CacheKeeps DEF Vouched, chainVars
<1>2. ASSUME NEW got \in Figure, got.since = truth[k].since, Answer(k, got)
      PROVE  PagesInv'
  <2> DEFINE full == [at |-> "answered", got |-> got]
  <2>1. flight' = [flight EXCEPT ![k] = full] /\ UNCHANGED <<data, stale, truth>>
    BY <1>2 DEF Answer, chainVars
  <2>2. full \in Fetch /\ full.at = "answered" /\ full.got = got
    BY DEF Fetch
  <2> HIDE DEF full
  <2>3. flight' \in [Keys -> Fetch]
    BY <1>0, <2>1, <2>2
  <2>4. ASSUME NEW j \in Keys, NEW hash \in Nat, Vouched(j, hash)
        PROVE  Vouched(j, hash)'
    BY <1>0, <1>2, <2>1, <2>2, <2>4 DEF Vouched
  <2> QED BY <1>0, <2>1, <2>3, <2>4, CacheKeeps
<1>3. CASE ServerAnswersPartly(k)
  <2> DEFINE partly == [truth[k] EXCEPT !.says = Swallowed[kind]]
  <2>0. Swallowed[kind] \in BOOLEAN \cup {Absent}
    <3>1. CASE kind = "vaultTotals"
      BY <3>1 DEF Swallowed
    <3>2. CASE kind = "nav"
      BY <3>2 DEF Swallowed
    <3>3. DOMAIN Swallowed = {"vaultTotals", "nav"}
      BY DEF Swallowed
    <3> QED BY <1>3, <3>1, <3>2, <3>3 DEF ServerAnswersPartly
  <2>1. partly \in Figure /\ partly.since = truth[k].since
    BY <1>0, <2>0 DEF Figure
  <2> QED BY <1>2, <1>3, <2>1 DEF ServerAnswersPartly
<1>4. CASE ServerAnswers(k)
  BY <1>0, <1>2, <1>4 DEF ServerAnswers
<1>5. CASE Deliver(k)
  <2>1. /\ flight[k].at = "answered" /\ flight[k].got \in Figure
        /\ data' = [data EXCEPT ![k] = flight[k].got]
        /\ flight' = [flight EXCEPT ![k] = Idle]
        /\ stale' = stale \ {k} /\ truth' = truth
    BY <1>0, <1>5 DEF Deliver, Fetch, chainVars
  <2>2. data' \in [Keys -> Figure] /\ flight' \in [Keys -> Fetch]
    BY <1>0, <2>1, PageRecords
  <2>3. ASSUME NEW j \in Keys, NEW hash \in Nat, Vouched(j, hash)
        PROVE  Vouched(j, hash)'
    BY <1>0, <2>1, <2>3, PageRecords DEF Vouched, Figure
  <2> QED BY <1>0, <2>2, <2>3, CacheKeeps
<1> QED BY <1>1, <1>3, <1>4, <1>5 DEF StartFetch, FetchFails

\* A call of the session's that only moves a write on, or ends it.
LEMMA WriteKeeps ==
  ASSUME PagesInv, UNCHANGED <<chainVars, cacheVars>>,
         calls' \in [CallIds -> Write], wallet' \in Anyone, log' \subseteq log,
         \A c \in CallIds :
           /\ calls'[c].at = "landed" => calls'[c] = [calls[c] EXCEPT !.busy = calls'[c].busy]
           /\ calls'[c].at # "done" => ActsFor(calls'[c])
  PROVE  PagesInv'
<1>1. kind' = kind /\ Keys' = Keys /\ (\A w : Key(w)' = Key(w)) /\ \A w : Changed(w)' = Changed(w)
  BY KeysStand DEF chainVars
<1>2. PagesTypeOK'
  BY <1>1 DEF PagesInv, PagesTypeOK, chainVars, cacheVars, Receipts
<1>3. ASSUME NEW c \in CallIds, calls'[c].at = "landed"
      PROVE  /\ calls[c].at = "landed" /\ calls'[c].op = calls[c].op
             /\ calls'[c].hash = calls[c].hash /\ Changed(calls'[c]) = Changed(calls[c])
  <2>1. /\ calls[c].at = "landed" /\ calls'[c].op = calls[c].op /\ calls'[c].on = calls[c].on
        /\ calls'[c].hash = calls[c].hash /\ calls'[c].by = calls[c].by
    BY <1>3 DEF PagesInv, PagesTypeOK, Write
  <2> QED BY <2>1 DEF Changed
<1>4. TruthKnows'
  BY <1>1, <1>3 DEF PagesInv, TruthKnows, chainVars, Changes
<1>5. ActsForSomebody'
  BY DEF ActsForSomebody
<1>6. \A e \in log' : Vouched(e.of, e.hash)'
  BY <1>1 DEF PagesInv, Vouched, chainVars, cacheVars
<1> QED BY <1>2, <1>4, <1>5, <1>6 DEF PagesInv

\* The visitor connects, disconnects, goes to another page, clicks; the wallet
\* signs; a write fails.
LEMMA VisitorKeeps ==
  ASSUME PagesInv,
         \/ Disconnect \/ \E w \in Wallets : Connect(w)
         \/ \E p \in Visited : Navigate(p)
         \/ \E c \in CallIds : \/ \E op \in Ops : Click(c, op)
                               \/ TryRestrictedSend(c) \/ Sign(c) \/ Fail(c)
  PROVE  PagesInv'
<1>0. /\ calls \in [CallIds -> Write] /\ wallet \in Anyone
      /\ \A c \in CallIds : calls[c].at # "done" => ActsFor(calls[c])
  BY DEF PagesInv, PagesTypeOK, ActsForSomebody
<1>1. ASSUME NEW w \in Anyone, SwitchTo(w)
      PROVE  PagesInv'
  <2>1. /\ wallet' = w /\ log' \subseteq log
        /\ calls' = calls /\ UNCHANGED <<chainVars, cacheVars, page>>
    BY <1>1 DEF SwitchTo, StillShown
  <2>2. \A c \in CallIds : calls[c] = [calls[c] EXCEPT !.busy = calls[c].busy]
    BY <1>0 DEF Write
  <2> QED BY <1>0, <2>1, <2>2, WriteKeeps
<1>2. ASSUME NEW p \in Visited, Navigate(p)
      PROVE  PagesInv'
  <2>1. /\ calls' = [c \in CallIds |-> [calls[c] EXCEPT !.busy = FALSE]]
        /\ log' \subseteq log /\ UNCHANGED <<chainVars, cacheVars, wallet>>
    BY <1>2 DEF Navigate, StillShown
  <2>2. calls' \in [CallIds -> Write]
    BY <1>0, <2>1 DEF Write
  <2>3. ASSUME NEW c \in CallIds
        PROVE  /\ calls'[c] = [calls[c] EXCEPT !.busy = calls'[c].busy]
               /\ calls'[c].at = calls[c].at /\ calls'[c].by = calls[c].by
               /\ calls'[c].on = calls[c].on /\ calls'[c].op = calls[c].op
    BY <1>0, <2>1 DEF Write
  <2> QED BY <1>0, <2>1, <2>2, <2>3, WriteKeeps DEF ActsFor
<1>3. ASSUME NEW c \in CallIds, NEW call \in Write,
             calls' = [calls EXCEPT ![c] = call], UNCHANGED <<chainVars, cacheVars, wallet, page, log>>,
             call.at # "landed", call.at # "done" => ActsFor(call)
      PROVE  PagesInv'
  <2>1. /\ calls' \in [CallIds -> Write]
        /\ \A d \in CallIds : calls'[d] = IF d = c THEN call ELSE calls[d]
    BY <1>0, <1>3
  <2>2. \A d \in CallIds : calls[d] = [calls[d] EXCEPT !.busy = calls[d].busy]
    BY <1>0 DEF Write
  <2> QED BY <1>0, <1>3, <2>1, <2>2, WriteKeeps
<1>4. ASSUME NEW c \in CallIds, NEW op \in Ops \cup {"send"}, NEW on \in Wallets \cup {wallet},
             NEW busy \in BOOLEAN, Begin(c, op, on, busy)
      PROVE  PagesInv'
  <2> DEFINE call == [Done EXCEPT !.at = "sign", !.op = op, !.by = wallet, !.on = on, !.busy = busy]
  <2>1. wallet \in Wallets /\ on \in Wallets
    BY <1>0, <1>4 DEF Begin, Anyone
  <2>2. call \in Write /\ call.at = "sign" /\ ActsFor(call)
    BY <2>1 DEF Done, Write, Anyone, ActsFor
  <2>3. calls' = [calls EXCEPT ![c] = call]
        /\ UNCHANGED <<chainVars, cacheVars, wallet, page, log>>
    BY <1>4 DEF Begin
  <2> HIDE DEF call
  <2> QED BY <1>3, <2>1, <2>2, <2>3
<1>5. ASSUME NEW c \in CallIds, Sign(c)
      PROVE  PagesInv'
  <2> DEFINE call == [calls[c] EXCEPT !.at = "sent"]
  <2>1. calls[c] \in Write /\ ActsFor(calls[c])
    BY <1>0, <1>5 DEF Sign
  <2>2. call \in Write /\ call.at = "sent" /\ ActsFor(call)
    BY <2>1 DEF Write, Anyone, ActsFor
  <2>3. calls' = [calls EXCEPT ![c] = call]
        /\ UNCHANGED <<chainVars, cacheVars, wallet, page, log>>
    BY <1>0, <1>5 DEF Sign
  <2> HIDE DEF call
  <2> QED BY <1>3, <2>1, <2>2, <2>3
<1>6. ASSUME NEW c \in CallIds, Fail(c)
      PROVE  PagesInv'
  BY <1>3, <1>6, PageRecords DEF Fail
<1>7. NoWallet \in Anyone /\ \A w \in Wallets : w \in Anyone
  BY DEF Anyone
<1>8. ASSUME NEW c \in CallIds, NEW op \in Ops, Click(c, op)
      PROVE  PagesInv'
  BY <1>4, <1>8 DEF Click, Subjects
<1>9. ASSUME NEW c \in CallIds, TryRestrictedSend(c)
      PROVE  PagesInv'
  BY <1>4, <1>9 DEF TryRestrictedSend
<1> QED BY <1>1, <1>2, <1>5, <1>6, <1>7, <1>8, <1>9 DEF Disconnect, Connect

\* Figures the chain changes are then newer than every receipt, the others stay.
LEMMA TruthMoves ==
  ASSUME PagesInv, NEW moved \in SUBSET Keys, NEW figs \in [Keys -> Figure],
         \A k \in Keys : figs[k].since = height + 1, height' = height + 1,
         truth' = [k \in Keys |-> IF k \in moved THEN figs[k] ELSE truth[k]]
  PROVE  /\ truth' \in [Keys -> Figure]
         /\ \A j \in Keys : truth[j].since <= truth'[j].since /\ truth'[j].since <= height'
         /\ \A j \in moved : truth'[j].since = height'
<1>1. /\ truth \in [Keys -> Figure] /\ height \in Nat
      /\ \A k \in Keys : truth[k].since \in Nat /\ truth[k].since <= height
  BY DEF PagesInv, PagesTypeOK, TruthKnows, Figure
<1>2. truth' \in [Keys -> Figure]
  BY <1>1
<1>3. ASSUME NEW j \in Keys
      PROVE  /\ truth[j].since <= truth'[j].since /\ truth'[j].since <= height'
             /\ j \in moved => truth'[j].since = height'
  <2>1. CASE j \in moved
    <3>1. truth'[j] = figs[j]
      BY <2>1
    <3> QED BY <1>1, <2>1, <3>1
  <2>2. CASE j \notin moved
    <3>1. truth'[j] = truth[j]
      BY <2>2
    <3> QED BY <1>1, <2>2, <3>1
  <2> QED BY <2>1, <2>2
<1> QED BY <1>2, <1>3

\* What holds of writes and receipts holds when figures only become newer.
LEMMA ChainKeeps ==
  ASSUME PagesInv, UNCHANGED <<kind, cacheVars, wallet, log>>, height' = height + 1,
         truth' \in [Keys -> Figure],
         \A j \in Keys : truth[j].since <= truth'[j].since /\ truth'[j].since <= height',
         calls' \in [CallIds -> Write],
         \A c \in CallIds : \/ calls'[c] = calls[c]
                            \/ /\ ActsFor(calls'[c]) /\ calls'[c].op \in Ops
                               /\ kind \in Changes(calls'[c].op) =>
                                    \A k \in Changed(calls'[c]) : calls'[c].hash <= truth'[k].since
  PROVE  PagesInv'
<1>1. Keys' = Keys /\ (\A w : Key(w)' = Key(w)) /\ \A call : Changed(call)' = Changed(call)
  BY KeysStand
<1>2. PagesTypeOK'
  BY <1>1 DEF PagesInv, PagesTypeOK, cacheVars, Receipts
<1>3. \A j \in Keys : truth[j].since \in Nat /\ truth'[j].since \in Nat
  BY DEF PagesInv, PagesTypeOK, Figure
<1>4. ASSUME NEW c \in CallIds, calls'[c].at = "landed"
      PROVE  /\ calls'[c].op \in Ops
             /\ kind \in Changes(calls'[c].op) =>
                  \A k \in Changed(calls'[c]) : calls'[c].hash <= truth'[k].since
  <2>1. CASE calls'[c] = calls[c]
    <3> DEFINE call == calls[c]
    <3>1. /\ call.op \in Ops /\ call.by \in Wallets /\ call.on \in Wallets /\ call.hash \in Nat
          /\ kind \in Changes(call.op) => \A k \in Changed(call) : call.hash <= truth[k].since
      BY <1>4, <2>1 DEF PagesInv, TruthKnows, ActsForSomebody, ActsFor, PagesTypeOK, Write
    <3>2. Changed(call) \subseteq Keys
      BY <3>1, ChangedFollowed
    <3> QED BY <1>3, <2>1, <3>1, <3>2
  <2>2. CASE calls'[c] # calls[c]
    BY <2>2
  <2> QED BY <2>1, <2>2
<1>5. TruthKnows'
  BY <1>1, <1>4 DEF TruthKnows, Changes
<1>6. ActsForSomebody'
  BY DEF PagesInv, ActsForSomebody
<1>7. ASSUME NEW e \in log
      PROVE  Vouched(e.of, e.hash)'
  <2>1. e.of \in Keys /\ e.hash \in Nat /\ Vouched(e.of, e.hash)
    BY DEF PagesInv, PagesTypeOK, Receipts
  <2> QED BY <1>3, <2>1 DEF Vouched, cacheVars
<1> QED BY <1>2, <1>5, <1>6, <1>7 DEF PagesInv

\* A write that has landed is what it was, with a hash.
LEMMA LandedWrite ==
  ASSUME NEW w \in Write, NEW h \in Nat
  PROVE  LET l == [w EXCEPT !.at = "landed", !.hash = h]
         IN l \in Write /\ l.op = w.op /\ l.by = w.by /\ l.on = w.on /\ l.hash = h
BY DEF Write

\* A write lands: the figures it changes are as new as the write.
LEMMA LandKeeps ==
  ASSUME PagesInv, NEW c \in CallIds, Land(c)
  PROVE  PagesInv'
<1> DEFINE call   == calls[c]
           fig(k) == [since |-> height + 1, says |-> Says(call.op, k)]
           figs   == [k \in Keys |-> fig(k)]
           moved  == IF kind \in Changes(call.op) THEN Changed(call) ELSE {}
           landed == [call EXCEPT !.at = "landed", !.hash = height + 1]
<1>1. call \in Write /\ call.at = "sent" /\ call.op \in Ops /\ ActsFor(call)
  BY DEF Land, PagesInv, PagesTypeOK, ActsForSomebody, ActsFor
<1>2. height \in Nat /\ height' = height + 1 /\ truth \in [Keys -> Figure]
      /\ calls \in [CallIds -> Write]
  BY DEF Land, PagesInv, PagesTypeOK
<1>3. ASSUME NEW k \in Keys
      PROVE  fig(k) \in Figure /\ fig(k).since = height + 1
  <2>1. Says(call.op, k) \in BOOLEAN \cup Wallets \cup {Absent}
    BY <1>2 DEF Says, Figure
  <2> QED BY <1>2, <2>1 DEF Figure
<1>4. moved \in SUBSET Keys
  BY <1>1, ChangedFollowed DEF ActsFor
<1>5. /\ UNCHANGED <<kind, cacheVars, wallet, log>> /\ calls' = [calls EXCEPT ![c] = landed]
      /\ truth' = [k \in Keys |-> IF k \in moved THEN figs[k] ELSE truth[k]]
  BY <1>2 DEF Land
<1>6. landed \in Write /\ landed.op = call.op /\ landed.by = call.by
      /\ landed.on = call.on /\ landed.hash = height'
  <2>1. call \in Write /\ height + 1 \in Nat /\ height' = height + 1
    BY <1>1, <1>2
  <2> HIDE DEF call
  <2> QED BY <2>1, LandedWrite DEF landed
<1> HIDE DEF fig, landed
<1>7. figs \in [Keys -> Figure] /\ \A k \in Keys : figs[k].since = height + 1
  BY <1>3
<1> HIDE DEF figs
<1>8. /\ truth' \in [Keys -> Figure]
      /\ \A j \in Keys : truth[j].since <= truth'[j].since /\ truth'[j].since <= height'
      /\ \A j \in moved : truth'[j].since = height'
  <2> HIDE DEF moved
  <2> QED BY <1>2, <1>4, <1>5, <1>7, TruthMoves
<1>9. calls' \in [CallIds -> Write] /\ \A d \in CallIds : calls'[d] = IF d = c THEN landed ELSE calls[d]
  BY <1>2, <1>5, <1>6
<1>10. Changed(landed) = Changed(call)
  BY <1>6 DEF Changed
<1>11. /\ ActsFor(landed) /\ landed.op \in Ops
       /\ kind \in Changes(landed.op) => \A k \in Changed(landed) : landed.hash <= truth'[k].since
  BY <1>1, <1>2, <1>6, <1>8, <1>10 DEF ActsFor
<1> QED BY <1>2, <1>5, <1>8, <1>9, <1>11, ChainKeeps

\* Somebody else changes a figure.
LEMMA MoveKeeps ==
  ASSUME PagesInv, NEW k \in Keys, NEW says \in Sayings, ChainMoves(k, says)
  PROVE  PagesInv'
<1> DEFINE fig   == [since |-> height + 1, says |-> says]
           figs  == [j \in Keys |-> fig]
           moved == {k}
<1>1. height \in Nat /\ calls \in [CallIds -> Write] /\ truth \in [Keys -> Figure]
  BY DEF PagesInv, PagesTypeOK
<1>2. fig \in Figure /\ fig.since = height + 1
  BY <1>1, SayingsType DEF Figure
<1>3. /\ UNCHANGED <<kind, cacheVars, wallet, log, calls>> /\ height' = height + 1
      /\ truth' = [truth EXCEPT ![k] = fig]
  BY DEF ChainMoves
<1> HIDE DEF fig
<1>4. truth' = [j \in Keys |-> IF j \in moved THEN figs[j] ELSE truth[j]]
  BY <1>1, <1>3
<1>5. moved \in SUBSET Keys /\ figs \in [Keys -> Figure] /\ \A j \in Keys : figs[j].since = height + 1
  BY <1>2
<1> HIDE DEF moved, figs
<1>6. /\ truth' \in [Keys -> Figure]
      /\ \A j \in Keys : truth[j].since <= truth'[j].since /\ truth'[j].since <= height'
  BY <1>3, <1>4, <1>5, TruthMoves
<1> QED BY <1>1, <1>3, <1>6, ChainKeeps

\* The write is confirmed: its receipt goes in the log and its figures are
\* marked, and read again, whatever fetch was under way.
LEMMA ConfirmKeeps ==
  ASSUME PagesInv, NEW c \in CallIds, Confirm(c)
  PROVE  PagesInv'
<1> DEFINE call == calls[c]
           hit  == {j \in Keys : kind \in Invalidates(call.op) /\ data[j] # NoData}
<1>1. /\ call \in Write /\ call.at = "landed" /\ call.op \in Ops
      /\ call.by \in Wallets /\ call.on \in Wallets
      /\ kind \in Changes(call.op) => \A k \in Changed(call) : call.hash <= truth[k].since
  BY DEF Confirm, PagesInv, PagesTypeOK, TruthKnows, ActsForSomebody, ActsFor
<1>2. Changed(call) \subseteq Keys /\ call.hash \in Nat
  BY <1>1, ChangedFollowed DEF Write
<1>3. /\ log' = log \cup Receipt(c) /\ calls' = [calls EXCEPT ![c] = Done]
      /\ stale' = stale \cup hit /\ UNCHANGED <<chainVars, data, wallet>>
  BY DEF Confirm, MarkStale
<1>4. /\ flight' \in [Keys -> Fetch]
      /\ \A j \in Keys : flight'[j] = flight[j] \/ flight'[j].at = "asked"
      /\ \A j \in hit : Active(j) => flight'[j].at = "asked"
  <2>1. flight' = [j \in Keys |-> IF j \in hit /\ Active(j) THEN Asked ELSE flight[j]]
    BY DEF Confirm, MarkStale
  <2>2. flight \in [Keys -> Fetch]
    BY DEF PagesInv, PagesTypeOK
  <2> QED BY <2>1, <2>2, PageRecords
<1>5. kind' = kind /\ Keys' = Keys /\ (\A w : Key(w)' = Key(w)) /\ \A w : Changed(w)' = Changed(w)
  BY <1>3, KeysStand DEF chainVars
<1>6. Receipt(c) \in SUBSET Receipts
  BY <1>2 DEF Receipt, Receipts
<1>7. PagesTypeOK'
  BY <1>3, <1>4, <1>5, <1>6, PageRecords DEF PagesInv, PagesTypeOK, chainVars, Receipts
<1>8. TruthKnows' /\ ActsForSomebody'
  BY <1>3, <1>5, PageRecords
     DEF PagesInv, PagesTypeOK, TruthKnows, ActsForSomebody, ActsFor, chainVars, Changes
<1>9. ASSUME NEW e \in log
      PROVE  Vouched(e.of, e.hash)'
  <2>1. e.of \in Keys /\ Vouched(e.of, e.hash)
    BY DEF PagesInv, PagesTypeOK, Receipts
  <2> QED BY <1>3, <1>4, <2>1 DEF Vouched, chainVars
<1>10. ASSUME NEW e \in Receipt(c)
       PROVE  Vouched(e.of, e.hash)'
  <2>1. /\ e.of \in Changed(call) /\ e.hash = call.hash
        /\ kind \in Changes(call.op) \cap Reads[Home(call.op)]
        /\ Active(e.of) /\ data[e.of] # NoData
    BY <1>10 DEF Receipt
  <2>2. e.of \in hit
    BY <1>1, <1>2, <2>1, ChangesInvalidated
  <2> QED BY <1>1, <1>3, <1>4, <2>1, <2>2 DEF Vouched, chainVars
<1> QED BY <1>3, <1>7, <1>8, <1>9, <1>10 DEF PagesInv

\* Every step of pages, wallet, server and chain keeps it.
LEMMA PagesStep == PagesInv /\ [PagesNext]_pageVars => PagesInv'
<1> SUFFICES ASSUME PagesInv, [PagesNext]_pageVars PROVE PagesInv'
  OBVIOUS
<1>1. CASE UNCHANGED pageVars
  <2>1. Keys' = Keys /\ UNCHANGED <<chainVars, wallet, calls, log, data, flight, stale>>
    BY <1>1, KeysStand DEF pageVars, chainVars, cacheVars
  <2>2. data \in [Keys -> Figure] /\ flight \in [Keys -> Fetch]
    BY DEF PagesInv, PagesTypeOK
  <2> QED BY <2>1, <2>2, CacheKeeps DEF Vouched, chainVars
<1> QED BY <1>1, FetchKeeps, VisitorKeeps, LandKeeps, ConfirmKeeps, MoveKeeps DEF PagesNext

\* The inductive invariant of the pages.
LEMMA PagesInvariant == PagesSpec => []PagesInv
BY PagesStart, PagesStep, PTL DEF PagesSpec

\* What the session's log reports as done is in the figures of its form's page,
\* wherever they are on the screen beside it, or they are marked to be read
\* again, whatever was answered or under way before.
THEOREM PagesReceiptsShown == PagesSpec => []ReceiptsShown
<1>1. PagesInv => ReceiptsShown
  BY DEF PagesInv, Vouched, ReceiptsShown
<1> QED BY <1>1, PagesInvariant, PTL

-----------------------------------------------------------------------------
(* The intake.  A field that was stored is never emptied again, and a      *)
(* person's row holds nothing but what the person's own posts said.        *)

Rows  == [email : Emails, fields : Forms]
Posts == [at : {"sent", "stored"}, email : Emails, fields : Forms]

WaitTypeOK ==
  /\ rows \in [People -> Rows \cup {NoRow}]
  /\ posts \in [PostIds -> Posts \cup {NoPost}]

\* all that a form fills in was posted for p
PostedBy(p, form) == \A f \in Fields : form[f] # Left => <<p, f, form[f]>> \in given

\* p's row says something in field f
Holds(p, f) == rows[p] # NoRow /\ rows[p].fields[f] # Left

\* what a post has stored is there until it is answered
Recorded(i) == posts[i].at = "stored" =>
  \A f \in Fields : posts[i].fields[f] # Left => Holds(Lower(posts[i].email), f)

WaitInv ==
  /\ WaitTypeOK
  /\ \A i \in PostIds : posts[i] # NoPost => PostedBy(Lower(posts[i].email), posts[i].fields)
  /\ \A i \in PostIds : Recorded(i)
  /\ \A p \in People : rows[p] # NoRow => PostedBy(p, rows[p].fields)
  /\ \A p \in People, f \in Fields : <<p, f>> \in answered => Holds(p, f)

\* What a post is, for those that need no more of it.
LEMMA PostFacts ==
  ASSUME WaitTypeOK, NEW i \in PostIds, posts[i].at \in {"sent", "stored"}
  PROVE  /\ posts[i] \in Posts /\ posts[i] # NoPost
         /\ Lower(posts[i].email) \in People /\ posts[i].fields \in Forms
<1>1. posts[i] \in Posts
  <2>1. NoPost.at = "none"
    BY DEF NoPost
  <2> QED BY <2>1 DEF WaitTypeOK
<1> QED BY <1>1 DEF Posts, NoPost, Emails, Lower

\* The statement leaves a row of the person's with each field as posted, or,
\* where the post left it out, as it was.
LEMMA UpsertedRow ==
  ASSUME NEW row \in Rows \cup {NoRow}, NEW email \in Emails, NEW form \in Forms
  PROVE  LET r == Upserted(row, email, form) IN
         /\ r \in Rows /\ r # NoRow
         /\ \A f \in Fields : \/ r.fields[f] = form[f] /\ (row # NoRow => form[f] # Left)
                              \/ row # NoRow /\ form[f] = Left /\ r.fields[f] = row.fields[f]
<1>1. NoRow \notin Rows
  BY WaitlistAssumption DEF Rows
<1>2. CASE row = NoRow
  <2>1. Upserted(row, email, form) = [email |-> email, fields |-> form]
    BY <1>2 DEF Upserted
  <2> QED BY <1>1, <1>2, <2>1 DEF Rows
<1>3. CASE row # NoRow
  <2> DEFINE merged == [f \in Fields |-> Merge(form[f], row.fields[f])]
  <2>1. row \in Rows /\ Upserted(row, email, form) = [row EXCEPT !.fields = merged]
    BY <1>3 DEF Upserted
  <2>2. \A f \in Fields : merged[f] = IF form[f] = Left THEN row.fields[f] ELSE form[f]
    BY DEF Merge
  <2>3. row.fields \in Forms
    BY <2>1 DEF Rows
  <2>4. merged \in Forms
    BY <2>3 DEF Forms, Merge
  <2> HIDE DEF merged
  <2>5. Upserted(row, email, form) \in Rows /\ Upserted(row, email, form).fields = merged
    BY <2>1, <2>4 DEF Rows
  <2> QED BY <1>1, <1>3, <2>2, <2>5
<1> QED BY <1>2, <1>3

\* Posts only add to what was given.
LEMMA PostKeeps ==
  ASSUME WaitInv, NEW i \in PostIds, NEW email \in Emails, NEW form \in Forms,
         Post(i, email, form)
  PROVE  WaitInv'
<1> DEFINE post == [at |-> "sent", email |-> email, fields |-> form]
<1>1. /\ post \in Posts /\ post.at = "sent" /\ post.email = email /\ post.fields = form
  BY DEF Posts
<1>2. /\ posts' = [posts EXCEPT ![i] = post] /\ UNCHANGED <<rows, answered>>
      /\ given \subseteq given'
      /\ \A f \in Fields : form[f] # Left => <<Lower(email), f, form[f]>> \in given'
  BY DEF Post
<1> HIDE DEF post
<1>3. WaitTypeOK' /\ \A j \in PostIds : posts'[j] = IF j = i THEN post ELSE posts[j]
  BY <1>1, <1>2 DEF WaitInv, WaitTypeOK
<1>4. \A j \in PostIds : posts'[j] # NoPost => PostedBy(Lower(posts[j].email), posts[j].fields)'
  BY <1>1, <1>2, <1>3 DEF WaitInv, PostedBy
<1>5. \A j \in PostIds : Recorded(j)'
  BY <1>1, <1>2, <1>3 DEF WaitInv, Recorded, Holds
<1> QED BY <1>2, <1>3, <1>4, <1>5 DEF WaitInv, PostedBy, Holds

\* A statement empties no field, and writes what the post says.
LEMMA StoreKeeps ==
  ASSUME WaitInv, NEW i \in PostIds, Store(i)
  PROVE  WaitInv'
<1> DEFINE post   == posts[i]
           p      == Lower(post.email)
           row    == Upserted(rows[p], post.email, post.fields)
           stored == [post EXCEPT !.at = "stored"]
<1>1. post \in Posts /\ post # NoPost /\ p \in People /\ post.fields \in Forms /\ post.email \in Emails
  BY PostFacts DEF WaitInv, Store, Posts
<1>2. rows[p] \in Rows \cup {NoRow} /\ rows \in [People -> Rows \cup {NoRow}]
      /\ posts \in [PostIds -> Posts \cup {NoPost}]
  BY <1>1 DEF WaitInv, WaitTypeOK
<1>3. row \in Rows /\ row # NoRow
      /\ \A f \in Fields :
           \/ row.fields[f] = post.fields[f] /\ (rows[p] # NoRow => post.fields[f] # Left)
           \/ rows[p] # NoRow /\ post.fields[f] = Left /\ row.fields[f] = rows[p].fields[f]
  BY <1>1, <1>2, UpsertedRow
<1>4. /\ rows' = [rows EXCEPT ![p] = row] /\ posts' = [posts EXCEPT ![i] = stored]
      /\ UNCHANGED <<given, answered>>
  BY <1>2 DEF Store
<1>5. stored \in Posts /\ stored.at = "stored" /\ stored.email = post.email
      /\ stored.fields = post.fields
  <2> HIDE DEF post
  <2> QED BY <1>1 DEF Posts
<1>6. PostedBy(p, post.fields)
  BY <1>1 DEF WaitInv
<1> HIDE DEF row, stored
<1>7. /\ \A q \in People : rows'[q] = IF q = p THEN row ELSE rows[q]
      /\ \A j \in PostIds : posts'[j] = IF j = i THEN stored ELSE posts[j]
      /\ WaitTypeOK'
  BY <1>1, <1>2, <1>3, <1>4, <1>5 DEF WaitTypeOK
<1>8. \A q \in People, f \in Fields : Holds(q, f) => Holds(q, f)'
  BY <1>3, <1>7 DEF Holds
<1>9. \A f \in Fields : post.fields[f] # Left => rows'[p] # NoRow /\ rows'[p].fields[f] # Left
  BY <1>1, <1>3, <1>7
<1>10. \A q \in People : rows'[q] # NoRow => PostedBy(q, rows[q].fields)'
  BY <1>3, <1>4, <1>6, <1>7 DEF WaitInv, PostedBy
<1>11. \A j \in PostIds : posts'[j] # NoPost => PostedBy(Lower(posts[j].email), posts[j].fields)'
  BY <1>1, <1>4, <1>5, <1>7 DEF WaitInv, PostedBy
<1>12. ASSUME NEW j \in PostIds
       PROVE  Recorded(j)'
  <2>1. CASE j = i
    BY <1>5, <1>7, <1>9, <2>1 DEF Recorded, Holds
  <2>2. CASE j # i
    <3>1. posts'[j] = posts[j]
      BY <1>7, <2>2
    <3>2. posts[j].at = "stored" => Lower(posts[j].email) \in People
      BY PostFacts DEF WaitInv
    <3> QED BY <1>8, <3>1, <3>2 DEF WaitInv, Recorded
  <2> QED BY <2>1, <2>2
<1> QED BY <1>4, <1>7, <1>8, <1>10, <1>11, <1>12 DEF WaitInv

\* Every step of the intake preserves the invariant.
LEMMA WaitStep == WaitInv /\ [WaitNext]_waitVars => WaitInv'
<1> SUFFICES ASSUME WaitInv, [WaitNext]_waitVars PROVE WaitInv'
  OBVIOUS
<1>1. CASE UNCHANGED waitVars
  BY <1>1 DEF waitVars, WaitInv, WaitTypeOK, PostedBy, Recorded, Holds
<1>2. ASSUME NEW i \in PostIds, NEW email \in Emails, NEW form \in Forms, Post(i, email, form)
      PROVE  WaitInv'
  BY <1>2, PostKeeps
<1>3. ASSUME NEW i \in PostIds, Store(i)
      PROVE  WaitInv'
  BY <1>3, StoreKeeps
<1>4. ASSUME NEW i \in PostIds, NEW post \in Posts \cup {NoPost},
             post = NoPost \/ (post.at = "sent" /\ posts[i] # NoPost /\ post.email = posts[i].email
                               /\ post.fields = posts[i].fields),
             posts' = [posts EXCEPT ![i] = post], UNCHANGED <<rows, given>>,
             \A p \in People, f \in Fields : <<p, f>> \in answered' => Holds(p, f)
      PROVE  WaitInv'
  <2>1. NoPost.at # "stored"
    BY DEF NoPost
  <2>2. WaitTypeOK' /\ \A j \in PostIds : posts'[j] = IF j = i THEN post ELSE posts[j]
    BY <1>4 DEF WaitInv, WaitTypeOK
  <2>3. \A j \in PostIds : posts'[j] # NoPost => PostedBy(Lower(posts[j].email), posts[j].fields)'
    BY <1>4, <2>2 DEF WaitInv, PostedBy
  <2>4. \A j \in PostIds : Recorded(j)'
    BY <1>4, <2>1, <2>2 DEF WaitInv, Recorded, Holds
  <2> QED BY <1>4, <2>2, <2>3, <2>4 DEF WaitInv, PostedBy, Holds
<1>5. ASSUME NEW i \in PostIds, Created(i)
      PROVE  WaitInv'
  <2>1. /\ posts' = [posts EXCEPT ![i] = NoPost] /\ UNCHANGED <<rows, given>>
        /\ answered' = answered \cup
             {<<Lower(posts[i].email), f>> : f \in {g \in Fields : posts[i].fields[g] # Left}}
        /\ posts[i].at = "stored"
    BY <1>5 DEF Created
  <2>2. \A f \in Fields : posts[i].fields[f] # Left => Holds(Lower(posts[i].email), f)
    BY <2>1 DEF WaitInv, Recorded
  <2>3. \A p \in People, f \in Fields : <<p, f>> \in answered' => Holds(p, f)
    BY <2>1, <2>2 DEF WaitInv
  <2> QED BY <1>4, <2>1, <2>3
<1>6. ASSUME NEW i \in PostIds, Refuse(i) \/ LoseAnswer(i)
      PROVE  WaitInv'
  <2> DEFINE again == [posts[i] EXCEPT !.at = "sent"]
  <2>1. posts[i] \in Posts /\ posts[i] # NoPost /\ posts \in [PostIds -> Posts \cup {NoPost}]
    BY <1>6, PostFacts DEF Refuse, LoseAnswer, WaitInv, WaitTypeOK
  <2>2. again \in Posts /\ again.at = "sent" /\ again.email = posts[i].email
        /\ again.fields = posts[i].fields
    BY <2>1 DEF Posts
  <2>3. UNCHANGED <<rows, given, answered>>
        /\ (posts' = [posts EXCEPT ![i] = NoPost] \/ posts' = [posts EXCEPT ![i] = again])
    BY <1>6, <2>1 DEF Refuse, LoseAnswer
  <2>4. \A p \in People, f \in Fields : <<p, f>> \in answered' => Holds(p, f)
    BY <2>3 DEF WaitInv
  <2> HIDE DEF again
  <2> QED BY <1>4, <2>1, <2>2, <2>3, <2>4
<1> QED BY <1>1, <1>2, <1>3, <1>5, <1>6 DEF WaitNext

\* services/api, whoever posts what, how often and in whatever spelling: a field
\* of a sign-up once answered with 201 is in the table from then on, and says
\* what one of that person's own posts said.
THEOREM SignupsKept == WaitSpec => []SignupKept
<1>1. WaitInit => WaitInv
  <2>1. NoPost.at # "stored"
    BY DEF NoPost
  <2> QED BY <2>1 DEF WaitInit, WaitInv, WaitTypeOK, PostedBy, Recorded, Holds
<1>2. WaitInv => SignupKept
  BY DEF WaitInv, SignupKept, Holds, PostedBy
<1> QED BY <1>1, <1>2, WaitStep, PTL DEF WaitSpec
=============================================================================
