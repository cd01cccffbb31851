------------------------------ MODULE AppPages ------------------------------
(***************************************************************************)
(* The web app around its forms: app/src/ctx.tsx (the wallet), hooks.ts    *)
(* and main.tsx (the figures, read through TanStack's query cache),        *)
(* useSubmit.ts (writes, which end by invalidating figures), the forms of  *)
(* Borrow.tsx, VaultDetail.tsx, Issuer.tsx and Liquidate.tsx, and the      *)
(* pages that only show figures.  A handler that awaits runs on with the   *)
(* wallet of the render its click came from, while the visitor goes on.    *)
(*                                                                         *)
(* A behaviour follows one kind of figure, for every wallet; a button that *)
(* depends on another kind may be enabled or not.  Tabs and amounts are    *)
(* chosen with the click; the wallet's modal is one step.                  *)
(*                                                                         *)
(* External: the chain, reduced to when a figure last changed and what     *)
(* buttons depend on of it; the query cache, as the hooks use it (a fetch  *)
(* that throws leaves the last answer on the screen); the wallet's kit,    *)
(* which signs in its own time or fails.  Whose key it signs with is its   *)
(* own affair: the address of the click is an option to it (ctx.tsx:45),   *)
(* nothing in the app checks the signature, and the network takes no other *)
(* key's for the account the transaction is of.                            *)
(***************************************************************************)
EXTENDS Integers, FiniteSets

CONSTANTS
  Wallets, NoWallet,   \* addresses that connect; no address
  Absent,              \* undefined
  Kinds, Visited, Ops, \* the figures, pages and writes followed, of those below
  MaxHeight, MaxCalls  \* bounds on chain changes and on writes at once

\* hooks.ts: figures of the connected wallet, and everybody's
OfWallet == {"vaultBalance", "tokenBalance", "position", "hf", "whitelist"}
OfAll == {"nav", "sharePrice", "totalAssets", "vaultTotals", "poolCollateral",
          "poolLiquidity", "feedConfig", "vaultAdmin"}

\* what each page reads
Vaults      == {"nav", "sharePrice", "totalAssets", "vaultTotals", "vaultBalance"}
VaultDetail == {"nav", "sharePrice", "tokenBalance", "vaultBalance"}
Borrow      == {"position", "hf", "sharePrice", "vaultBalance", "tokenBalance"}
Positions   == {"vaultBalance", "sharePrice", "tokenBalance", "position"}
Stats       == {"totalAssets", "vaultTotals", "sharePrice", "poolCollateral", "poolLiquidity"}
Issuer      == {"vaultTotals", "totalAssets", "nav", "feedConfig", "vaultAdmin"}
Liquidate   == {"whitelist", "sharePrice"}

Reads == [vaults |-> Vaults, vault |-> VaultDetail, borrow |-> Borrow,
          positions |-> Positions, stats |-> Stats, issuer |-> Issuer,
          liquidate |-> Liquidate]

\* what each page writes
BorrowOps    == {"supply", "borrow", "repay", "withdraw"}
WrapOps      == {"wrap", "unwrap"}
IssuerOps    == {"pause", "unpause", "set_cap"}
LiquidateOps == {"liquidate"}

ASSUME PagesAssumption ==
  /\ NoWallet \notin Wallets
  /\ Kinds \subseteq OfWallet \cup OfAll /\ Visited \subseteq DOMAIN Reads
  /\ Ops \subseteq BorrowOps \cup WrapOps \cup IssuerOps \cup LiquidateOps
  /\ MaxHeight \in Nat /\ MaxCalls \in Nat

VARIABLES
  kind, height, truth, \* the figure followed, chain changes so far, of each
                       \* wallet's figure when it changed last and what it says
  data, flight, stale, \* the cache: last answer, fetch under way, marked invalid
  wallet, page,        \* the address connected, the route
  calls, log           \* writes under way, the session's log

chainVars == <<kind, height, truth>>
cacheVars == <<data, flight, stale>>
pageVars  == <<chainVars, cacheVars, wallet, page, calls, log>>

\* the followed figure for wallet w
Key(w) == IF kind \in OfWallet THEN w ELSE NoWallet
Keys == {Key(w) : w \in Wallets}
CallIds == 1..MaxCalls

NoData == [since |-> 0, says |-> Absent]
Idle   == [at |-> "idle", got |-> NoData]
Asked  == [at |-> "asked", got |-> NoData]
Done   == [at |-> "done", op |-> "none", by |-> NoWallet, on |-> NoWallet,
           hash |-> 0, busy |-> FALSE]

\* a query is mounted, and enabled: somebody is connected if it needs that
Active(k) == kind \in Reads[page] /\ (kind \in OfWallet => k = wallet)

\* what a figure on the screen says; one not followed may say anything
MayShow(figure, p(_)) == figure = kind => p(data[Key(wallet)].says)

-----------------------------------------------------------------------------
(* The cache.  A fetch starts when a page mounts and every 12 s.           *)

\* mutant: no refetchInterval
DueOnMount(k) == data[k] = NoData \/ k \in stale

Due(k) == Active(k)

StartFetch(k) ==
  /\ Due(k) /\ flight[k] = Idle
  /\ flight' = [flight EXCEPT ![k] = Asked]
  /\ UNCHANGED <<chainVars, data, stale, wallet, page, calls, log>>

Answer(k, got) ==
  /\ flight[k] = Asked
  /\ flight' = [flight EXCEPT ![k] = [at |-> "answered", got |-> got]]
  /\ UNCHANGED <<chainVars, data, stale, wallet, page, calls, log>>

ServerAnswers(k) == Answer(k, truth[k])

\* two hooks swallow a failed read and answer all the same: useVaultTotals
\* without that field, useNav with "Halted"
Swallowed == [vaultTotals |-> Absent, nav |-> FALSE]

ServerAnswersPartly(k) ==
  /\ kind \in DOMAIN Swallowed
  /\ Answer(k, [truth[k] EXCEPT !.says = Swallowed[kind]])

Deliver(k) ==
  /\ flight[k].at = "answered"
  /\ data' = [data EXCEPT ![k] = flight[k].got]
  /\ flight' = [flight EXCEPT ![k] = Idle]
  /\ stale' = stale \ {k}
  /\ UNCHANGED <<chainVars, wallet, page, calls, log>>

\* read threw, or tryRead answered undefined: to the cache, an error
FetchFails(k) ==
  /\ kind \notin DOMAIN Swallowed
  /\ flight[k] = Asked
  /\ flight' = [flight EXCEPT ![k] = Idle]
  /\ UNCHANGED <<chainVars, data, stale, wallet, page, calls, log>>

\* invalidateQueries: mark, and on the screen read again, a fetch under way
\* given up for that.  A figure's first fetch is left to end.
MarkStale(kinds) ==
  LET hit == {k \in Keys : kind \in kinds /\ data[k] # NoData}
  IN /\ stale' = stale \cup hit
     /\ flight' = [k \in Keys |-> IF k \in hit /\ Active(k) THEN Asked ELSE flight[k]]

-----------------------------------------------------------------------------
(* The wallet and the route *)

\* receipts vouch for a figure only as long as it stays on the screen
StillShown(p, w) ==
  {e \in log : kind \in Reads[p] /\ e.of \in {w, NoWallet}}

SwitchTo(w) ==
  /\ wallet' = w
  /\ log' = StillShown(page, w)
  /\ UNCHANGED <<chainVars, cacheVars, page, calls>>

Connect(w) == wallet = NoWallet /\ SwitchTo(w)

Disconnect == wallet # NoWallet /\ SwitchTo(NoWallet)

\* the page is unmounted with its form; handlers run on without it
Navigate(p) ==
  /\ p # page
  /\ page' = p
  /\ calls' = [c \in CallIds |-> [calls[c] EXCEPT !.busy = FALSE]]
  /\ log' = StillShown(p, wallet)
  /\ UNCHANGED <<chainVars, cacheVars, wallet>>

-----------------------------------------------------------------------------
(* The forms *)

IsTrue(v) == v = TRUE
NotTrue(v) == v # TRUE
NotFalse(v) == v # FALSE
IsMine(v) == v = wallet

\* the page of the form
Home(op) ==
  CASE op \in BorrowOps    -> "borrow"
    [] op \in WrapOps      -> "vault"
    [] op \in IssuerOps    -> "issuer"
    [] op \in LiquidateOps -> "liquidate"

\* the buttons that are not disabled: a write under way disables none of them
BorrowOffers(op)    == op \in BorrowOps
WrapOffers(op)      == op \in WrapOps /\ MayShow("nav", NotFalse)
LiquidateOffers(op) == op \in LiquidateOps /\ MayShow("whitelist", NotFalse)
IssuerOffers(op) ==
  /\ MayShow("vaultAdmin", IsMine)
  /\ \/ op = "pause" /\ MayShow("vaultTotals", NotTrue)
     \/ op = "unpause" /\ MayShow("vaultTotals", IsTrue)
     \/ op = "set_cap"

\* the figures a call of the contracts changes: the pool's collateral moves,
\* its debt moves and its liquidation, the vault's trades, its admin's calls
CollateralMoves  == {"position", "hf", "vaultBalance", "poolCollateral"}
DebtMoves        == {"position", "hf", "tokenBalance", "poolLiquidity"}
LiquidationMoves == CollateralMoves \cup DebtMoves
VaultTrades      == {"vaultBalance", "tokenBalance", "sharePrice", "totalAssets", "vaultTotals", "hf"}
VaultSettings    == {"vaultTotals"}

Changes(op) ==
  CASE op \in {"supply", "withdraw"} -> CollateralMoves
    [] op \in {"borrow", "repay"}    -> DebtMoves
    [] op \in LiquidateOps           -> LiquidationMoves
    [] op \in WrapOps                -> VaultTrades
    [] op \in IssuerOps              -> VaultSettings

\* whose: a liquidation is of another's position, and everybody's health is
\* judged at the vault's price
Changed(call) ==
  IF kind = "hf" /\ call.op \in WrapOps THEN Keys
  ELSE IF kind \in {"position", "hf"} THEN {Key(call.on)}
  ELSE {Key(call.by)}

\* mutant: the health is forgotten, as the console forgets the wallet's tokens
BorrowInvalidatesLess == {"position", "vaultBalance", "tokenBalance"}

\* the `invalidate` list of each form
BorrowInvalidates    == {"position", "hf", "vaultBalance", "tokenBalance"}
WrapInvalidates      == {"vaultBalance", "tokenBalance", "sharePrice", "totalAssets", "vaultTotals"}
IssuerInvalidates    == {"vaultTotals"}
LiquidateInvalidates == {"position", "hf", "vaultBalance"}

Invalidates(op) ==
  CASE op \in BorrowOps    -> BorrowInvalidates
    [] op \in WrapOps      -> WrapInvalidates
    [] op \in IssuerOps    -> IssuerInvalidates
    [] op \in LiquidateOps -> LiquidateInvalidates

-----------------------------------------------------------------------------
(* A write: useSubmit around submitTx, or submitTx alone for the transfer  *)
(* that is restricted, whose button is disabled meanwhile                  *)

Begin(c, op, on, busy) ==
  /\ wallet # NoWallet /\ calls[c] = Done
  /\ calls' = [calls EXCEPT ![c] =
       [Done EXCEPT !.at = "sign", !.op = op, !.by = wallet, !.on = on, !.busy = busy]]
  /\ UNCHANGED <<chainVars, cacheVars, wallet, page, log>>

\* the console's form names another account, every other form acts on one's own
Subjects(op) == IF op \in LiquidateOps THEN Wallets ELSE {wallet}

Click(c, op) ==
  /\ wallet # NoWallet /\ page = Home(op)
  /\ BorrowOffers(op) \/ WrapOffers(op) \/ IssuerOffers(op) \/ LiquidateOffers(op)
  /\ \E on \in Subjects(op) : Begin(c, op, on, FALSE)

TryRestrictedSend(c) ==
  /\ page = "vault" /\ ~\E d \in CallIds : calls[d].busy
  /\ Begin(c, "send", wallet, TRUE)

Sign(c) ==
  /\ calls[c].at = "sign"
  /\ calls' = [calls EXCEPT ![c].at = "sent"]
  /\ UNCHANGED <<chainVars, cacheVars, wallet, page, log>>

Says(op, k) ==
  CASE op = "pause" /\ kind = "vaultTotals"   -> TRUE
    [] op = "unpause" /\ kind = "vaultTotals" -> FALSE
    [] OTHER -> truth[k].says

\* on the ledger; the restricted transfer never gets there
Land(c) ==
  LET call == calls[c]
      New(k) == [since |-> height + 1, says |-> Says(call.op, k)]
  IN
  /\ call.at = "sent" /\ call.op # "send"
  /\ height < MaxHeight
  /\ height' = height + 1
  /\ truth' = [k \in Keys |-> IF kind \in Changes(call.op) /\ k \in Changed(call)
                              THEN New(k) ELSE truth[k]]
  /\ calls' = [calls EXCEPT ![c].at = "landed", ![c].hash = height + 1]
  /\ UNCHANGED <<kind, cacheVars, wallet, page, log>>

\* what the visitor was looking at when the write was asked for, if the write
\* has changed it and it is on the screen
Receipt(c) ==
  LET call == calls[c] IN
  IF kind \in Changes(call.op) \cap Reads[Home(call.op)]
  THEN {[of |-> k, hash |-> call.hash] : k \in {j \in Changed(call) : Active(j) /\ data[j] # NoData}}
  ELSE {}

Confirm(c) ==
  /\ calls[c].at = "landed"
  /\ log' = log \cup Receipt(c)
  /\ MarkStale(Invalidates(calls[c].op))
  /\ calls' = [calls EXCEPT ![c] = Done]
  /\ UNCHANGED <<chainVars, data, wallet, page>>

\* refused, or given up; what landed may go unnoticed
Fail(c) ==
  /\ calls[c] # Done
  /\ calls' = [calls EXCEPT ![c] = Done]
  /\ UNCHANGED <<chainVars, cacheVars, wallet, page, log>>

-----------------------------------------------------------------------------
\* others use the contracts, the NAV moves, the feed halts, the admin changes
ChainMoves(k, says) ==
  /\ height < MaxHeight
  /\ height' = height + 1
  /\ truth' = [truth EXCEPT ![k] = [since |-> height + 1, says |-> says]]
  /\ UNCHANGED <<kind, cacheVars, wallet, page, calls, log>>

Sayings ==
  CASE kind = "vaultAdmin" -> Wallets
    [] kind \in {"vaultTotals", "nav", "whitelist"} -> BOOLEAN
    [] OTHER -> {TRUE}

PagesInit ==
  /\ kind \in Kinds
  /\ height = 1 /\ truth \in [Keys -> [since : {1}, says : Sayings]]
  /\ data = [k \in Keys |-> NoData] /\ flight = [k \in Keys |-> Idle] /\ stale = {}
  /\ wallet = NoWallet /\ page \in Visited
  /\ calls = [c \in CallIds |-> Done] /\ log = {}

PagesNext ==
  \/ \E k \in Keys : StartFetch(k) \/ ServerAnswers(k) \/ ServerAnswersPartly(k)
                    \/ FetchFails(k) \/ Deliver(k)
  \/ Disconnect \/ \E w \in Wallets : Connect(w)
  \/ \E p \in Visited : Navigate(p)
  \/ \E c \in CallIds : \/ \E op \in Ops : Click(c, op)
                        \/ TryRestrictedSend(c) \/ Sign(c) \/ Land(c) \/ Confirm(c) \/ Fail(c)
  \/ \E k \in Keys, says \in Sayings : ChainMoves(k, says)

PagesSpec == PagesInit /\ [][PagesNext]_pageVars

\* figures on the screen are asked for again and again, and an RPC server
\* that is asked again and again answers in the end
PagesFair ==
  LET OnScreen(Step(_)) == \E k \in Keys : Active(k) /\ Step(k)
  IN /\ WF_pageVars(OnScreen(StartFetch))
     /\ SF_pageVars(OnScreen(ServerAnswers)) /\ SF_pageVars(OnScreen(Deliver))

-----------------------------------------------------------------------------
(* Properties *)

\* What the app has reported as done is in the figures beside it, or they are
\* marked for another read: an answer given before the write, or a fetch then
\* under way, never settles on the screen as the state after it.  Claimed of
\* the figures that the form's own page shows, wherever they are on the screen
\* when the receipt comes and as long as they stay there; no form's list has
\* all that its call changes on other pages (the pool's figures, the health
\* after a wrap, the tokens after a liquidation), and those wait for the poll.
ReceiptsShown ==
  \A e \in log : data[e.of].since >= e.hash \/ e.of \in stale

\* A figure that stays on the screen comes round to what the chain says,
\* whatever fetches failed, answered in part or were overtaken before.
FiguresCatchUp ==
  \A w \in Wallets \cup {NoWallet} :
    <>[](w \in Keys /\ Active(w)) => []<>(w \in Keys /\ data[w] = truth[w])
=============================================================================
