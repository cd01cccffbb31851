-------------------------------- MODULE Demo --------------------------------
(***************************************************************************)
(* app/src/routes/Demo.tsx over the NAV feed it drives through a halt and  *)
(* back: six buttons, each running its transactions one after the other,   *)
(* signed with the testnet keys of lib/demoSigner.ts.  A beat is disabled  *)
(* only while it runs itself, and runs on when the page is left.           *)
(*                                                                         *)
(* External: the token, the vault's books and the pool, reduced to whether *)
(* a call prices and whether it may be refused; the clock of the browser,  *)
(* which is the ledger's here.                                             *)
(***************************************************************************)
EXTENDS OracleAdapter, Sequences

CONSTANTS
  Mock,                            \* env.MOCK_ORACLE, one of Mocks
  FeedDecimals,                    \* as setup_testnet.sh configures the feed
  StartPrice, RaisedPrice, DropPrice, DropNav,  \* the literals of the beats
  Keyed,                           \* roles whose demo key is configured
  MaxLosses                        \* bound on transactions lost

VARIABLES
  status, step,        \* of each beat: what it shows, its current transaction
  losses

demoVars == <<adapterVars, status, step, losses>>

Beats == {"send", "wrap", "borrow", "raise", "drop", "raid"}

Actor ==
  [send |-> "user", wrap |-> "user", borrow |-> "user", raise |-> "admin",
   drop |-> "admin", raid |-> "rando"]

Transactions ==
  [send   |-> <<"transfer">>,
   wrap   |-> <<"deposit">>,
   borrow |-> <<"supply_collateral", "borrow">>,
   raise  |-> <<"set_price">>,
   drop   |-> <<"accept_override", "set_price", "liquidate">>,
   raid   |-> <<"liquidate">>]

Call(b) == Transactions[b][step[b]]

\* the roles whose key signs a beat's transaction
SignerOfCall(b) == IF Call(b) = "liquidate" /\ b = "drop" THEN "liquidator" ELSE Actor[b]

-----------------------------------------------------------------------------
(* What a transaction does.  The host hands a contract its arguments by    *)
(* their types; an argument of another type fails the call.                *)

\* mock-oracle: set_price(asset: Symbol, price: i128, ts: u64)
TypeOfTs == "u64"

\* lib/chain.ts knows no 64-bit argument, so the demo sends u32Now()
\* (reduced modulo 2^31, which MaxNow is far below)
u32Now == [type |-> "u32", value |-> now]

SetPriceCall(price, ts) ==
  /\ ts.type = TypeOfTs
  /\ SetPrice(Mock, price, ts.value)

Applies(b) ==
  CASE Call(b) = "accept_override" -> AcceptOverride(DropNav)
    [] Call(b) = "set_price" -> SetPriceCall(IF b = "drop" THEN DropPrice ELSE RaisedPrice, u32Now)
    [] Call(b) \in {"deposit", "borrow", "liquidate"} -> b # "raid" /\ GetNav
    [] Call(b) = "supply_collateral" -> UNCHANGED adapterVars
    [] OTHER -> FALSE                      \* the restricted transfer

\* refused for balances, health, authorization: anything but the admin's calls
MayBeRefused(b) ==
  \/ Call(b) \notin {"accept_override", "set_price"}
  \/ Call(b) = "set_price" /\ u32Now.type # TypeOfTs

-----------------------------------------------------------------------------
(* Running a beat *)

\* beats that are meant to be refused show any error as the one expected
Caught(b) == IF b \in {"send", "raid"} THEN "fail-expected" ELSE "error"
Finished(b) == IF b \in {"send", "raid"} THEN "error" ELSE "ok"

ClickBeat(b) ==
  /\ status[b] # "running"
  /\ status' = [status EXCEPT ![b] = "running"]
  /\ step' = [step EXCEPT ![b] = 1]
  /\ UNCHANGED <<adapterVars, losses>>

Stop(b, shown) ==
  /\ status' = [status EXCEPT ![b] = shown]
  /\ UNCHANGED step

\* demoSigner throws: no demo mode, another network, no key for the role
NoSigner(b) ==
  /\ status[b] = "running" /\ SignerOfCall(b) \notin Keyed
  /\ Stop(b, Caught(b))
  /\ UNCHANGED <<adapterVars, losses>>

Sends(b) == status[b] = "running" /\ SignerOfCall(b) \in Keyed

Done(b) ==
  /\ Sends(b) /\ Applies(b)
  /\ IF step[b] < Len(Transactions[b])
     THEN step' = [step EXCEPT ![b] = @ + 1] /\ UNCHANGED status
     ELSE Stop(b, Finished(b))
  /\ UNCHANGED losses

Refused(b) ==
  /\ Sends(b) /\ MayBeRefused(b)
  /\ Stop(b, Caught(b))
  /\ UNCHANGED <<adapterVars, losses>>

\* lost on its way, or applied without the app being told
Lost(b) ==
  /\ Sends(b)
  /\ losses < MaxLosses /\ losses' = losses + 1
  /\ Applies(b) \/ UNCHANGED adapterVars
  /\ Stop(b, Caught(b))

-----------------------------------------------------------------------------
\* as setup_testnet.sh leaves the feed, the contracts having read it or not
DemoInit ==
  /\ hasAdmin = TRUE /\ mapped = {} /\ now = 0
  /\ feed = [source |-> Mock, decimals |-> FeedDecimals, maxAge |-> DefaultAge, maxDev |-> DefaultDev]
  /\ point = [s \in Sources |-> IF s = Mock THEN [price |-> StartPrice, timestamp |-> 0] ELSE NoPoint]
  /\ last \in {NoNav, [nav |-> Normalize(StartPrice, FeedDecimals), ts |-> 0]}
  /\ status = [b \in Beats |-> "idle"] /\ step = [b \in Beats |-> 1]
  /\ losses = 0

Answered(b) == Done(b) \/ Refused(b) \/ NoSigner(b)

\* besides the demo: other contracts read, the keep-alive job renews a price
Elsewhere == GetNav \/ Tick \/ SetPrice(Mock, point[Mock].price, now)

DemoNext ==
  \/ \E b \in Beats : ClickBeat(b) \/ Answered(b) \/ Lost(b)
  \/ Elsewhere /\ UNCHANGED <<status, step, losses>>

\* submitTx returns or throws in the end
DemoSpec ==
  DemoInit /\ [][DemoNext]_demoVars /\ \A b \in Beats : WF_demoVars(Answered(b) \/ Lost(b))

-----------------------------------------------------------------------------
(* Properties *)

\* "so all five beats run with no wallet" (docs/APP.md:16), of beat 5a, which
\* overrides the NAV in one transaction and sets the price in a second: once
\* the second is answered, with the override still in force and nothing lost,
\* the feed answers the dropped NAV, and the liquidation has a price.
DropTakesEffect ==
  [][(Answered("drop") /\ Call("drop") = "set_price" /\ last.nav = DropNav)
       => Answer' = DropNav]_demoVars
=============================================================================
