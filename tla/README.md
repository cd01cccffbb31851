# Leontief, specified

TLA+ models of the Leontief protocol (vault, lending pool, oracle adapters,
factory) and of the programs around it (SDK, indexer, monitor, agent example, web
app), the TLC runs that check them on small instances, and theorems about them
that TLAPS proves for every value of the constants. Paths are relative to the
repository root (`src/` here).

    tlc -workers 2 -config MCVault_money.cfg MCVault     # one run
    tlapm Vault_proofs.tla                               # one module's proofs

## The system

| Component | State it keeps | Operations | Talks to |
|---|---|---|---|
| **vault** (`contracts/vault`) | share balances, total shares, allowances; cap, pause flag, oracle, admin, pending admin | `init`, `deposit`, `withdraw`, SEP-41 `transfer` / `transfer_from` / `approve`, `set_cap`, `set_oracle`, `pause`, `unpause`, `transfer_admin`, `accept_admin`; views `share_price`, `total_assets_value` | the underlying token; `get_nav` of the adapter |
| **mini-pool** (`contracts/mini-pool`) | a position (collateral shares, debt) per user, liquidator whitelist, admin | `init`, `supply_collateral`, `withdraw_collateral`, `borrow`, `repay`, `liquidate`, `set_whitelist` | the vault (`transfer`, `share_price`); the debt token |
| **oracle-adapter** (`contracts/oracle-adapter`) | feed configuration and last accepted NAV per asset, admin | `init`, `get_nav` (a read that writes), `configure_feed`, `set_bounds`, `accept_override` | `lastprice` of a source |
| **mock-oracle**, **reflector-feed** | a price point per asset; an asset mapping | `set_price`; `map_asset`; `lastprice` | the live Reflector (external) |
| **vault-factory** | vault wasm hash, registry underlying → vault, admin | `init`, `deploy_vault`, `set_wasm_hash` | deploys and initialises vaults |
| **blend-price-adapter** | price source per asset, admin | `init`, `set_vault_source`, `set_fixed_source`, `remove_source`, `lastprice` | the vault (`share_price`) |
| **indexer** (`services/indexer`) | tables `cursor`, `events`, `metrics_daily`, `positions_snapshot`, `share_price_series` | `pollOnce` in an endless loop; a read API | Stellar RPC, Postgres |
| **monitor** (`services/monitor`) | last share price in a state file | one cycle: read, compare, save, heartbeat, post | RPC, webhooks |
| **early-access api** (`services/api`) | table `early_access`, a row per address | `POST /early-access` (validate, upsert), the count | Postgres |
| **sdk** (`packages/sdk`) | none | `simulateRead`, `submit` (build, simulate, sign, send, poll for 60 s); quotes and risk arithmetic | RPC |
| **agent treasury** (`packages/sdk/examples`) | phase of its loop, what it opened | earn, allocate, borrow, repay, unwind | sdk |
| **web app** (`app`) | the connected address, the query cache, form inputs, a session log | connect, navigate, refetch every 12 s; `useSubmit` under the forms of Borrow, VaultDetail and Issuer; the liquidator console | contracts over RPC, a wallet |
| **guided demo** (`app/src/routes/Demo.tsx`) | the status of its six buttons | one to three transactions each, signed with testnet keys | the adapter, its mock source, vault, pool |
| landing, documentation sites | none | static pages | |

The contracts call one another inside one atomic invocation: `borrow` calls
`share_price`, which calls `get_nav`, which calls `lastprice`. Any failure on the
way rolls everything back; there is no fallback price ("fail closed"). The one
exception is `blend-price-adapter`, which answers `None` when the nested call
fails. Off chain, every call is a read or a transaction over RPC, and anything may
happen between two of them.

### What is hard here

- **Rounding and offsets.** All amounts are integers; every conversion rounds, and
  a virtual offset is added to both legs of the price. One rounding in the wrong
  direction shows only after a long sequence of calls by several holders.
- **A read that writes.** `get_nav` records what it answers, and the next answer is
  compared with it. Anyone may call it, so every consumer changes the state all the
  others read.
- **Two books of one thing.** The vault records that the pool holds shares; the pool
  records whose they are. Direct transfers, seizures and allowances touch one or
  both.
- **Other people's steps.** A position's health depends on a price that other
  accounts' deposits, withdrawals and donations move.
- **Halts.** While the oracle answers nothing, exits must not wait for it where they
  do not need a price.
- **Awaits, failures and restarts.** The indexer's and the monitor's cycles are many
  awaits long; any may fail, the process may be killed, the chain goes on.
- **Uncertain submissions.** A transaction may be dropped, refused, delayed, or
  included after its caller has stopped looking; callers repeat failed calls.
- **Decisions on snapshots.** The agent, the console and the pages act on state read
  several transactions, or renders, earlier, while wallets come and go.
- **Answers out of order.** A figure's fetch may begin before a write and be answered
  after it, or the other way round; the write ends by asking for another one.

### What makes each component correct

- *Vault*: the supply is the sum of balances; nobody's step dilutes the others;
  minting and redeeming at once never gains; claims are covered by the holdings;
  exits stay open and pay the quoted price; shares leave an account only by consent.
- *Pool*: positions are backed by shares the pool really holds; debt never vanishes
  unpaid; only the NAV makes a healthy position unhealthy; liquidations settle
  fairly and stay available; exits need no oracle.
- *Adapter*: reads are harmless to other readers; a halt ends only by a source or the
  admin; prices of two sources, or at two scales, are never compared; the admin can
  always re-arm.
- *Blend adapter*: its reads do not change its answers; the age its stamp hides is
  bounded by the feed.
- *Factory*: every registered vault is its underlying's, initialised, and governed by
  a key that still signs.
- *Indexer*: no event is counted twice, and an abandoned cycle costs the counts one
  event at most; no ledger is passed over silently; every event is stored in the end;
  snapshots and the price sample catch up.
- *Monitor*: a lasting condition is reported in the end; a step of the share price is
  not hidden by an outage.
- *SDK*: giving up is final; repeating after a refusal never does a thing twice; every
  call ends; what is quoted is what the contracts do.
- *Agent*: its caps hold whatever moves between its calls, and the draw is repaid.
- *Console*: position and health on the screen are of one account.
- *Pages*: what is reported as done is in the figures of its form's page, or they are
  about to be read again; any figure left on the screen comes round.
- *Intake*: what was acknowledged stays, and is the person's own.
- *Demo*: each beat does what its caption says.

## The modules

| Module | Models | Notes |
|---|---|---|
| `FixedPoint` | the checked `mul_div_floor` / `mul_div_ceil` of the contracts | the width of `i128` is the constant `I128Max`; overflow is the guard `Fits` |
| `Balances` | credit, debit, move on a book of accounts, and its total | the total is the cardinality of a set of units, so that it can be reasoned about; `MCVault` checks it against the recursive sum of the community modules |
| `Vault` | `contracts/vault`, all entry points, the underlying token, the adapters' answers | `quote` is what each adapter would answer now, 0 for a failure |
| `VaultCalls` | `Vault` with the signer of the last call as a history variable | so that consent can be stated: a transfer by the owner and one by a spender change the vault alike |
| `MiniPool` | `contracts/mini-pool`, composed with `Vault` | each entry point conjoins the vault's own `Transfer` |
| `Previews` | the quotes of `packages/sdk/src/math.ts` and `client.ts`, with the client's writes; the figures of `Borrow.tsx`, `VaultDetail.tsx` and `Liquidate.tsx`; the indexer's at-risk list | operators beside the contracts' own, on the state of `MiniPool` |
| `OracleAdapter` | `contracts/oracle-adapter` and its sources, for one asset | no operation touches two assets |
| `PricedVault` | vault + adapter; refines `Vault` | `quote` becomes the answer computed from the adapter's state |
| `BlendAdapter` | `contracts/blend-price-adapter` over `PricedVault` | a price read is a write two contracts further down |
| `VaultFactory` | `contracts/vault-factory`, the vaults' two admin entry points, the handover of `docs/MAINNET.md` | |
| `Indexer` | `services/indexer/src/poller.ts` over the tables of `db.ts` | one action per statement that can fail |
| `Monitor` | `services/monitor/src/monitor.ts` | one action per read, save, ping and post |
| `TxSubmit` | `submit` of `packages/sdk/src/tx.ts`, the web app's `submitTx` | the network and the RPC server are external |
| `AgentTreasury` | `packages/sdk/examples/agent-treasury.ts` | one action per call of a tick |
| `LiquidateConsole` | `app/src/routes/Liquidate.tsx` | one action per stretch between two awaits |
| `AppPages` | `ctx.tsx`, `hooks.ts`, `main.tsx`, `useSubmit.ts`, `sessionLog.ts`, the forms' writes, the console's among them, and the seven pages that show figures | one kind of figure per behaviour, for every wallet; one action per stretch between two awaits |
| `Waitlist` | `services/api` | one action per statement and per answer |
| `Demo` | `app/src/routes/Demo.tsx` and `lib/demoSigner.ts` over `OracleAdapter` | one action per transaction of a beat |
| `MC...` | small instances; `MCOracleAdapter` adds a history variable, the source and the decimals of the last accepted NAV; `MCWebApp`, `MCSdk` and `MCOperations` check modules that share no state side by side | |
| `..._proofs` | theorems | below |

**Correspondence, contracts.** An invocation either commits or rolls back, so an
entry point is one action: its guard is the conjunction of the code's checks, its
effect the writes of the whole call including the nested calls, and a rejected call
is a stuttering step. `require_auth` appears as the action's first parameter: an
account in `Signers` acts for itself; contracts (the pool) are accounts that do not
sign. The admin's calls are always possible once the contract is initialised, which
is the most permissive admin. `DataKey` entries are functions, an absent entry is its
default (`0`, `NoAllowance`, `NoFeed`, ...); storage TTLs, events and metadata getters
are left out. Tokens are external: `wallet`/`reserve` and `cash`/`poolCash` are their
balances, and `fee` is what a token withholds on the way, which the code measures by
balance difference.

**Correspondence, programs.** An action is what runs between two awaits that may
fail or let something else in. Local variables that live across an await are state
(`pc`, `page`, `price`, `seen`, `tasks`); a failed await is an action or a branch of
its own. A process that is killed keeps what it wrote: the indexer its tables, the
monitor its file. Reads issued together and awaited together (`Promise.all`) are
taken as one. In `TxSubmit` a timer is what is left of it, so that time needs no
bound, and the account's sequence number is what makes the network include
transactions in order. `AgentTreasury` and `LiquidateConsole` meet a reduced pool, of
which they keep the rules that can refuse them; `MiniPool` has it in full.

**Correspondence, pages.** A figure is a query of the cache: its last answer (`data`), a
fetch under way (`flight`: asked, then answered but not yet delivered) and the mark
`invalidateQueries` leaves (`stale`). Of the chain the module keeps when a figure last
changed (`since`) and what buttons depend on (`says`: paused, halted, who is admin). The
kinds of figures do not meet in the code, except that a button of one form is disabled
by another kind, so a behaviour follows one kind and lets a button that depends on
another be enabled or not. The cache library is external and modelled by how the hooks
use it: a fetch that fails leaves the last answer (`tryRead` answers `undefined`, which
the library takes for a failure), an invalidation cancels the fetch under way and
starts another, except for the first fetch of a figure, which goes on. Two hooks never
fail: `useVaultTotals` answers without the field it could not read, and `useNav` answers
"Halted", which disables the wrap form (`Swallowed`). What a write changes (`Changes`,
`Changed`) is taken from the contracts, what is read again after it (`Invalidates`) from
the forms; the two differ. The wallet's kit is external: the app passes it the address a
click was made with as an option (`ctx.tsx:45`) and takes whatever it returns, the
network judges the signature, and nothing is claimed of which key signs.

**Names of bounds.** `MaxSupply` (underlying that rebases may create), `MaxSeq` (ledger
sequence), `MaxNow` (timestamp), `MaxLedger`, `MaxBatch` (the indexer's chain),
`MaxFaults` (abandoned cycles and failed reads), `MaxLosses` (kills and lost posts;
transactions of the demo lost), `MaxTries` (calls a client makes), `MaxMoves` (price
moves around the agent), `MaxTasks` (handlers at once), `MaxHeight` and `MaxCalls`
(chain changes and writes at once, on the pages), `MaxPosts` (requests under way).
`MaxTicks` and `Window` are the code's own `MAX_TICKS` and 60 s. Nothing else caps the
models; amounts, NAVs, prices and so on come from the sets given as constants.

## The runs

| Run | Shows | Bounds, and why they are enough |
|---|---|---|
| `vault_money` | books balance; claims covered; no dilution; no round-trip gain; exits open and paid the quoted price | two holders, 7 units, parcels of 1 and 2, deposits of 1 and 4, two NAVs, a fee, donations, a cap that is set below the holdings, a pause. `SCALE` = 5 and `VIRT` = 2 make every rounding and the offset visible at single units; `I128Max` = 30 puts overflow within reach |
| `vault_access` | consent and allowances | two accounts, so self-transfer, self-approval and third-party spending all occur; two ledgers, so an allowance expires; partial and full spends; the admin may hand the vault over (`Successors`), which the other runs leave out because it touches no balance: that a handover does not close the exit is left to the theorem `VaultExitPaysQuotedPrice` |
| `pool` | backing, cash, health, liquidation, exits; what is shown is enforced, and what a call does is what was shown | a borrower and a liquidator who also trade in the vault; a NAV falling from 10 to 6 makes positions unhealthy and then insolvent; fees of 0 and 1; the adapter halts; shares move in parcels of 3 or whole balances |
| `adapter` | regimes kept apart; overrides re-arm; reads harmless; halts end only from outside | one source of each kind, prices negative, 2 % apart, and the same two at the next decimals, so that a NAV kept over a change of scale would pass as one of the new, timestamps before and after now, decimals below, at, above the scale and above the limit |
| `blend` | reads agree; hidden age bounded; vault + adapter implement `Vault!Spec` | two reserves, one vault-priced and one pinned, or both on the vault; an age bound of one ledger makes observations expire; a NAV step that is rejected and an override |
| `indexer` | no event is lost to the counts but with an abandoned cycle, none counted twice; no silent gap; every event stored; snapshots and sample catch up | a window of one ledger makes the indexer fall behind; two faults, at any await; one event per ledger, pages that hold what is due |
| `indexer_page` | the statement of `db.ts:56` that the code does not keep | a page of one event stands for one of 200 |
| `sdk` | submission: giving up is final; done at most once; every call ends. Agent: the position cap and the repayment | two overlapping calls of one account, two tries each: a refused sequence number, a dropped, delayed or never queued transaction, a lagging RPC server. Of the agent: three prices, so that health falls below 1 and recovers; eight ticks as in the code; a run that begins with collateral and debt |
| `operations` | registered vaults stay governed; lasting conditions and steps are reported | of the factory: two underlyings, two builds, the deployer's key and the multisig's, deployments before, between and after the steps of the handover. Of the monitor: prices on both sides of the limit, a NAV on each side of the cap threshold, two failing reads, one kill or lost post |
| `web` | console: shown together. Pages: receipts; figures come round. Intake: kept | console: two accounts and a text that is no address, two handlers at once. Pages: four kinds of figure, one that its form reads again and another form forgets, the two whose failed reads are answered, and one that no form reads again; two wallets, five pages with a write of each form and the restricted transfer, two chain states, one write at a time. Intake: one person in two spellings, two posts at once |
| `monitor_halt` | the line of `docs/MONITORING.md` that the code does not keep | one price, no failing read, no kill: a halt and a pause are all it takes |
| `demo` | the sentence of `docs/APP.md` that the code does not keep | the prices of the beats at a scale of two decimals, one source, one transaction lost |

`MCWebApp`, `MCSdk` and `MCOperations` choose at the start which of their parts a behaviour
is of, and leave the others at rest: the parts share no state, so nothing is lost, and
each is checked in full. The invariants of `web` also hold, checked once, with another
kind of figure, who the admin is, and with one more chain state.

`CHECK_DEADLOCK` is off in `sdk` and `operations`, which really stop: the calls are
made, the ticks are over, everything is deployed and handed over. All other models can
always take some step.

**Fairness.** Stated only where the code's scheduling gives it:

- `Indexer`: `WF_vars(Poll)`. `pollLoop` is an endless loop that catches every error and
  sleeps for a fixed time. Abandoned cycles are not fair and are bounded: what is
  claimed is claimed for any finite number of failures. The chain is not assumed to
  move.
- `Monitor` (in `operations`, when that is what runs, and in `monitor_halt`):
  `WF_vars(Cycle)`, for `--loop` or the cron job that starts it again. Kills and lost
  posts are not fair and are bounded.
- `TxSubmit` (in `sdk`, when that is what runs): `WF` of the tick of time and of each
  step of the polling loop, which sleeps 1.5 s and looks again. The network owes
  nothing: it may never include a transaction.
- `AppPages` (in `web`): `WF` of the next fetch of a figure on the screen, which
  `refetchInterval` starts every 12 s whatever the last one came to; `SF` of the
  server's answer and of its delivery, since a server that is asked again and again
  answers in the end. Nothing is assumed of figures off the screen, of the visitor, or
  of the chain.
- `Demo`: `WF` of each beat's next transaction coming to an end, as `submitTx` does.

**Liveness is conditional** where the code's is: `EveryEventIndexed` on the chain
staying in the retention window, `SnapshotsCatchUp` also on no cycle failing,
`FiguresCatchUp` on the figure staying on the screen,
`StepReported` on no kill and no lost post from the step on.

## Where the code and the words differ

Checked by a run of its own:

- `NoSilentGap` with small pages (`indexer_page`): `getEvents` is asked for one page of
  200, and the cursor is then set to the chain's latest ledger whatever the page held
  (`poller.ts:162`); `db.ts:56` says "never gap".

- `DropTakesEffect` (`demo`): `u32Now()` sends the timestamp of `set_price` as a `u32`
  (`Demo.tsx:174`; `lib/chain.ts:18` has no 64-bit kind of argument), and the contract
  takes `ts: u64` (`mock-oracle/src/lib.rs:71`). The host does not convert, so beats 4 and
  5a fail every time, and 5a leaves its `accept_override` committed: the old price then
  deviates from the override and the feed halts. `docs/APP.md:16` says that all five
  beats run. With the type of the contract the property holds; `scripts/demo.sh` is not
  affected, since the command line types its arguments.

- `PauseReported` (`monitor_halt`): while the oracle is halted a pause is not reported:
  the flag is awaited together with a value that needs a price, and one `catch` drops
  both (`monitor.ts:151`). `docs/MONITORING.md:14` lists `is_paused == true` among the
  conditions that are posted when they trip. `StandingReported` claims a pause only
  while the oracle answers.

Seen while modelling, without a run of their own:

- A healthy position may owe more than the LTV maximum, because `withdraw_collateral`
  re-checks the liquidation threshold only (`mini-pool/src/lib.rs:198`);
  `fuzz_pool_sequences.rs:4` speaks of the LTV.
- Once collateral is worth less than debt plus bonus, a round of liquidation lowers
  the health factor of what is left.
- The deviation bound is per read: an adapter that is read in between follows a drift
  that one left alone rejects (`oracle-adapter/src/lib.rs:195`).
- An event stored by a cycle that then fails is never counted in `metrics_daily`, nor
  its position refreshed, because the next cycle finds the row present
  (`poller.ts:114`). `MetricsLoseOnlyAborts` bounds the loss.
- `/health` shows a discontinuity until the next cycle ends, which clears the flag.
- The monitor saves the new share price before it posts the step (`monitor.ts:165`), so
  a kill or a failed post in between loses the alert.
- The cap alert divides a value in quote units by a cap in units of the underlying
  (`monitor.ts:157`); the model computes what the code computes.
- The wrap form labels the quote value of redeemed shares as underlying
  (`VaultDetail.tsx:40`), off by the NAV. `math.ts` has the exact `quoteWithdraw`.
- The agent checks its health floor, then borrows in another transaction: the floor
  holds at the check, not afterwards (`agent-treasury.ts:152`).
- Of the contracts, only the vault has `transfer_admin`; `docs/MAINNET.md` hands over
  the admin of all of them.
- The console's liquidate button acts on the address in the input, which may no longer
  be that of the position shown (`Liquidate.tsx:69`).
- No form has read again all that its call changes: Borrow's list lacks the pool figures
  of Stats (`Borrow.tsx:82`), the wrap form's the health that the new price gives every
  position (`VaultDetail.tsx:73`), the console's the wallet's tokens and the pool figures
  (`Liquidate.tsx:70`). A visitor who moves to such a page before the receipt comes sees
  the old figure beside it, unmarked, until the poll brings the new one. `ReceiptsShown`
  is therefore claimed of the figures of the form's own page, `FiguresCatchUp` of all.
- A write goes to the kit with the address of its click, but the kit is one for the whole
  page and its selected wallet may have changed since (`ctx.tsx:23`, `ctx.tsx:45`); the app
  does not look at who signed. A wrong signature is the network's to refuse.
- `seizePreview` rounds down where its comment says `ceil` (`Liquidate.tsx:56`).
- A feed that fails to answer over the network is shown as "Halted" (`hooks.ts:32`), which
  disables the wrap form, and while it is halted the other figures keep the last price.
- After a partial answer of the totals the issuer's panel says OPEN and a cap of 0.
- The cap utilisation on Vaults, Stats and Issuer divides quote units by units of the
  underlying, as the monitor does.
- "." as a new cap asks for `set_cap(0)` (`Issuer.tsx:36`), and the Max buttons read back
  a number printed for the visitor's locale (`VaultDetail.tsx:144`).
- Beats 1 and 5b of the demo show any error, a lost connection or a missing key too, as
  the refusal they expect; beat 4 reports success whatever the price then reads.
- An empty `role` or `handle` in a signup overwrites an earlier one, as only an absent
  one is kept; the honeypot's branch is never reached, since the schema already refuses
  a filled one (`schema.ts:18`, `server.ts:43`).

## What is proved

All constants are arbitrary within the modules' named assumptions: any finite set of
accounts, any scale, offset, NAVs, fees and bounds.

| Theorem | Module |
|---|---|
| `Spec => []TypeOK`, `Spec => []SharesConserved` | `Vault_proofs` |
| `Spec => SharePriceNeverDiluted`, `Spec => RoundTripNeverGains`, `Spec => []ClaimsCovered`, `Spec => []ExitPaysQuotedPrice` | `Vault_proofs` |
| `CallsSpec => SharesLeaveByConsent` | `Vault_proofs` |
| `PoolSpec => []PoolTypeOK`, `[]PoolBacked`, `[]CashConserved` | `MiniPool_proofs` |
| `PoolSpec => OnlyNavHurtsHealth`, `LiquidationSettlesFairly`, `[]ExitNeedsNoOracle`, `[]LiquidationAvailable` | `MiniPool_proofs` |
| `PoolSpec => []ShownIsEnforced`, `PoolSpec => CallsAsShown` | `MiniPool_proofs` |
| `PoolSpec => Book!Spec` (refinement: the vault under the pool is a vault), and the vault's four promises under the pool | `MiniPool_proofs` |
| `AdapterSpec => []AdapterTypeOK`, `ReadKeepsAnswer`, `HaltEndsOnlyBySourceOrAdmin`, `[]OverrideRearms`; `HistSpec => []ComparedWithinRegime` | `OracleAdapter_proofs` |
| `BlendSpec => VaultSpec` (refinement), `PoolReadsAgree`, `[]StampHidesBoundedAge` | `OracleAdapter_proofs` |
| `FactorySpec => []VaultsStayGoverned` | `VaultFactory_proofs` |
| `Spec => MetricsLoseOnlyAborts`, `[]MetricsNeverOvercount`; `Spec /\ []DueFits => NoSilentGap` | `Indexer_proofs` |
| `Spec => TimedOutIsFinal`; `Spec => []DoneAtMostOnce` if `RetryOn` is at most `contractError` | `TxSubmit_proofs` |
| `AgentSpec => []PositionCapKept`, `AgentSpec => []DrawRepaid`; `RoomKeepsFloor` | `AgentTreasury_proofs` |
| `Spec => []ShownTogether` (console); `PagesSpec => []ReceiptsShown`; `WaitSpec => []SignupKept` | `WebApp_proofs` |

**The vault's books.** `IInv == TypeOK /\ SharesConserved`. Neither half is inductive by
itself: a withdrawal keeps the supply a natural number only because no balance exceeds
the total, which is what conservation says; and conservation is preserved because
balances are functions into the naturals. The lemmas on totals at the head of
`Vault_proofs` say what a credit, debit and move do to one, by counting units.

**The price.** `PriceNotDiluted` compares the exact ratios by cross-multiplication. A
deposit mints at most its value's share, a redemption's payout is worth at most the
claim burnt, and a donation only adds. Each is a chain of the defining inequalities of
the floor (`MulDivFloorBounds`), kept free of nonlinear goals by a few lemmas on order
and cancellation. The round-trip theorem follows from the same bounds: what is minted
claims at most what was received.

**The claims.** `ClaimsCovered` sums a floor for each holder. `ClaimsAtMostShare` bounds
each claim by its exact fraction, `TotalScale` and `TotalProportional` turn bounds of
the parts into one of the total, and `OffsetBoundsClaims` compares the total of `S * (V
+ VIRT) / (S + VIRT)` with `V`, by whether the price is below par. Conservation is what
makes the parts add up to `S`.

**Exits.** The quote rounds twice, the share price and then the claim at it; a
withdrawal rounds the claim itself and pays no less (`PaidAsQuoted`). Paused or not,
what could still close the exit is a vault without an admin, and an oracle is set only
where there is one (`AdaptedOnlyByAdmin`, inductive with the types).

**Consent.** `ConsentStep` goes through the calls one by one: a move takes from one
account only (`MoveTakesFromOne`), which is the caller's, or the spender's allowance
pays for it (`SpendShrinksAllowance`).

**The pool's books.** `PoolInv` is the vault's `IInv`, the pool's types, `PoolBacked`,
`CashConserved` and `PoolGrantsNothing`: the pool never granted an allowance over its
shares. Without the last conjunct backing is not inductive: a `transfer_from` could
drain the pool without its book of positions noticing. Vault calls by signers cannot
lower the pool's balance (`VaultLeavesPoolShares`); each pool call changes both books by
the same amount.

**Health.** `OnlyNavHurtsHealth` combines both: the vault's price does not fall at a
standing NAV, so untouched collateral keeps its value; releasing re-checks what is left;
borrowing is checked against `LTV <= LIQ` (an assumption on the constants, 80 % and 85 %
in the code); supplying and repaying only improve; a liquidation needs an unhealthy
position. `HealthyMeansCovered` shows that the last division of the health factor loses
nothing: `hf >= SCALE` exactly when the adjusted collateral covers the debt.

**Settlement.** `PoolSettlesFairly` needs no invariant beyond `PoolInv`: in a step that
lowers both a debt and its collateral, which only `Liquidate` is, each clause follows
from the bounds of the two ceilings, or from the clamp to the collateral there is.

**Ways out.** Repaying and leaving without debt wait for the caller's own cash only:
`PoolBacked` makes every position's shares movable (`PositionsMovable`), whatever the
oracle answers. An unhealthy position of at least two units of debt is within a
liquidator's reach as long as there is a price and the products fit the integers: the
clamp of the seizure keeps what is taken within the position.

**What is shown.** `ShownIsEnforced` compares figures with guards in one state. Where
the app, the SDK and the indexer take the contracts' floors in the contracts' order, the
two are equal; where they do not (`SeizePreview`, `UnwrapFigure`), a floor of a floor is
compared with one. Products are kept within `i128` by `InRange`: beyond, the contracts
fail and the figures, being big integers, do not. `CallsAsShown` is about a step: no
call of the pool moves the share price, the position becomes what the form has put into
its forecast, and a fee leaves more debt and hence less health; for a mint,
`MintAtMostPrice` cancels the share price and the value against each other (`sh * P <=
vi * T` and `p * T <= P * scale` give `sh * p <= paid`).

**The vault under the pool.** `Book` is the vault with the pool among those who may call
it and parcels of any size. Every step of the pool is one transfer of that vault, or
leaves it alone, so that `PoolSpec => Book!Spec`: no sequence of pledges, loans and
seizures takes the vault anywhere its own entry points would not. The promises
themselves are carried over with the vault's step lemmas.

**The feed.** Types are inductive by themselves: only a NAV that passed the checks is
recorded, and none that is zero (`AdapterTypeOK` says so of what is kept). `ReadKeeps`
follows from a read leaving everything the next reader sees but the NAV it is compared
with, and any NAV being within any bound of itself (`WithinItself`, where the product
does not overflow). For halts, only the passage of time needs an argument (`TickKeeps`):
a point not in the future that is fresh one second later was fresh before. An override
at the price observed is accepted, since the only refusals are of a NAV that is not
positive and of one too wide for the types, and the read after it compares a NAV with
itself. `ComparedWithinRegime` is about the history variable `via`: `configure_feed`
drops the accepted NAV in the step that changes the source or the decimals
(`RegimeStands`), so what is kept was read from the source there is, at the decimals
there are, or planted.

**The composition.** `BlendInv` is the adapter's types, `FeedInRange` (prices, decimals
and bounds are those somebody set) and that the vault's oracle is the one adapter or
none. From it every step of the Blend adapter is a step of vault + adapter
(`PricedSteps`), and every such step one of `Vault!Spec` or a stutter, with `quote` the
answer computed from the adapter's state: a priced call also writes that state, and
`ReadKeeps` is why its answer stays the same for the rest of the call and after it.
`PricedAssumption` says what the vault's set of NAVs must contain, and that no NAV times
a deviation bound exceeds `u128`: beyond, the deviation check panics, and an answer once
given need not be given again.

**The factory.** `FactoryInv`: a registry entry leads to the underlying's own address
and there is its vault; what is deployed is its underlying's and answers to a key in
use. The key signs in each step that makes it an admin, and the last step of the
handover retires only keys that administer none of the vaults deployed by then; what is
deployed later needs the factory's own admin to sign.

**The indexer.** `CountInv` says that a kind's metric is at most the number of its
stored events whose metric is not still to come (`Settled`); the event in hand between
the insert and the increment is why the second half is needed. `MetricsLoseOnlyAborts`
counts exactly: per kind, a step adds to what is stored and never counted one event if
it abandons a cycle between that event's insert and its increment, and otherwise
nothing; that no event is counted twice follows. `GapInv` says, for each place a cycle
can stop, that every event between the ledger it reads from and the one it will save as
its cursor is stored, or in the page it has still to store; and that it reads from no
later than the old cursor's successor unless it will raise the flag. Without `DueFits`
(what is due to a fetch fits on one page) the theorem fails, which is what
`indexer_page` shows.

**Submission.** `TimerInv` says that the deadline of a polling call, taken after the
send, is never before its transaction's time bound, taken at the build. So one that
gives up finds the bound passed, and an expired transaction is never included.
`DoneAtMostOnce` adds that a client at its n-th try has had none of the earlier ones
done (`OnceOrdered`), which needs `RetryOn` to exclude the outcomes that say nothing
about the network, as the hypothesis of the theorem states.

**The agent.** `PolicyInv` says which calls each phase makes and what its snapshot still
tells: the idle cash exactly until the tick's first call, an upper bound on collateral
and debt afterwards, since others can only lower them. With the bound on what may be
owed in each phase (`OweBounded`) the cap and the repayment follow; the latter needs
`MaxDraw <= Revenue`, which the constants of the code satisfy. `RoomKeepsFloor` is the
arithmetic behind the draw: `maxBorrowForHealthFactor` is exact in both directions.

**The console.** `ConsoleInv`: a handler between its two reads holds the position of the
account whose health it is about to ask for, so that what it then puts on the screen
together is of one account, whichever handlers finish in between.

**The pages.** `PagesInv` says of each entry of the session log that its write is in the
figure it is about, on the chain (`TruthKnows`) and in whatever a fetch has been
answered; and that what is on the screen either has it or is marked to be read again
(`Vouched`). `Confirm` marks the figures and starts their fetches over, and each form
marks all that its writes change of its own page (`ChangesInvalidated`); for a figure
the writes change elsewhere there is no receipt to keep. `ActsForSomebody`: a write
acts, from its click to its end, for the wallet that clicked.

**The intake.** `WaitInv`: all a row says was posted for its person (`PostedBy`), what a
post stored is there until it is answered (`Recorded`), and what was answered is there
(`Holds`). The statement keeps a field that a later post leaves out (`UpsertedRow`), so
nothing stored is emptied again.

**Only model-checked.** Every safety invariant and action property that a passing run
checks is proved. Left to TLC is liveness under fairness, which the prover does not do:
`EveryEventIndexed`, `SnapshotsCatchUp`, `SendEnds`, `StandingReported`, `StepReported`,
`FiguresCatchUp`; and the refutations of `DropTakesEffect` and `PauseReported`. No
property is stated with `ENABLED`: that a call is possible is said with its guard
(`MayRepay`, `MayBorrow`), which the action itself uses. `AdapterTypeOK`, `PoolTypeOK`,
the types of submission, and `MetricsNeverOvercount` are proved and have no run of their
own. `NoSilentGap` and `DoneAtMostOnce` are proved under the hypotheses above, which the
runs that check them satisfy.

## What is not modelled

Storage expiry (TTL): every entry point extends what it touches by months. Event
contents, metadata and getters carry no state. `init` of the two price sources, and the
decimals of the mock. The indexer's API beyond the at-risk list: sums and listings of
tables that `Indexer` has. Of the web app, layout, typing and printing of amounts, toasts,
and the sums a page makes of two figures; wallets and their modal, the query cache and
the RPC server are external. The vault and the pool behind the demo's beats are reduced to
whether a call prices. The landing page and the documentation sites are static pages; the
landing page has no form that posts to the intake, although its README speaks of one.

## Plan

Done: the vault, its money and access runs, its invariant and price theorems; the pool
over it; the adapter; vault + adapter as a refinement, with the Blend adapter on top;
the factory; the indexer with its samples; the monitor; submission; the agent; the
console, the pages, the intake and the demo; the previews.

Left, in this order:

1. Theorems about the safety half of liveness: what a cycle of the monitor has posted
   once it ends, and that a cycle of the indexer ends with the snapshots of all users it
   touched.
2. `PricedPool`: pool over vault over adapter, for the order in which nested reads
   record.
3. The indexer's API as a reader between the statements of a cycle.
4. The demo over the whole pool, for what its liquidation leaves to the user.
