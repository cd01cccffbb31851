--------------------------- MODULE OracleAdapter ---------------------------
(***************************************************************************)
(* contracts/oracle-adapter: the fail-closed NAV feed, with the sources it *)
(* reads (contracts/mock-oracle, contracts/reflector-feed).  Storage keeps *)
(* one feed and one last accepted NAV per asset and no operation touches   *)
(* two assets, so the module follows one asset.                            *)
(*                                                                         *)
(* get_nav is a read that writes: on success it records the NAV, which is  *)
(* what the next read is compared with.  A failed read is rolled back, so  *)
(* it is a stuttering step.                                                *)
(***************************************************************************)
EXTENDS FixedPoint

CONSTANTS
  Mocks, Shims,         \* mock-oracle and reflector-feed contracts
  NoSource,             \* the source of a feed never configured
  BASE, SCALE_DECIMALS, \* NAVs are scaled to BASE^SCALE_DECIMALS (10^12)
  MAX_DECIMALS,         \* configure_feed rejects more (38)
  U128Max, BPS,         \* the deviation check multiplies in u128
  DefaultAge, DefaultDev,
  Prices, Decimals, Ages, Devs, Overrides,    \* what callers pass
  MaxNow                \* bound on the ledger timestamp

Sources == Mocks \cup Shims

ASSUME AdapterAssumption ==
  /\ NoSource \notin Sources
  /\ Mocks \cap Shims = {}
  /\ BASE \in Nat \ {0} /\ SCALE_DECIMALS \in Nat /\ MAX_DECIMALS \in Nat
  /\ U128Max \in Nat /\ BPS \in Nat \ {0}
  /\ DefaultAge \in Nat /\ DefaultDev \in Nat
  /\ Prices \subseteq Int /\ Decimals \subseteq Nat
  /\ Ages \subseteq Nat /\ Devs \subseteq Nat /\ Overrides \subseteq Int
  /\ MaxNow \in Nat

VARIABLES
  hasAdmin,             \* DataKey::Admin is set
  feed,                 \* DataKey::Feed
  last,                 \* DataKey::Last
  point,                \* the price point behind each source
  mapped,               \* shims whose admin has mapped the asset
  now                   \* ledger timestamp

adapterVars == <<hasAdmin, feed, last, point, mapped, now>>

\* absent entries; a missing price and a non-positive one fail alike
NoFeed  == [source |-> NoSource, decimals |-> 0, maxAge |-> 0, maxDev |-> 0]
NoNav   == [nav |-> 0, ts |-> 0]
NoPoint == [price |-> 0, timestamp |-> 0]

AdapterTypeOK ==
  /\ hasAdmin \in BOOLEAN
  /\ feed \in [source : Sources \cup {NoSource}, decimals : Nat, maxAge : Nat, maxDev : Nat]
  /\ last \in [nav : Nat \ {0}, ts : Nat] \cup {NoNav}
  /\ point \in [Sources -> [price : Int, timestamp : Nat]]
  /\ mapped \subseteq Shims
  /\ now \in Nat

-----------------------------------------------------------------------------
(* What a read sees *)

pow10[n \in Nat] == IF n = 0 THEN 1 ELSE BASE * pow10[n - 1]

Normalize(price, decimals) ==
  IF decimals <= SCALE_DECIMALS
  THEN price * pow10[SCALE_DECIMALS - decimals]
  ELSE price \div pow10[decimals - SCALE_DECIMALS]

\* an unmapped shim answers None, as does a failing Reflector
LastPrice(src) ==
  IF src = NoSource \/ src \in Shims \ mapped THEN NoPoint ELSE point[src]

Configured  == feed.source # NoSource
Observed    == LastPrice(feed.source)
ObservedNav == Normalize(Observed.price, feed.decimals)

\* a positive price that neither overflows nor floors to nothing
Normalizes == Observed.price > 0 /\ ObservedNav \in 1..I128Max

\* mutant: no bound on the age
FreshAtAnyAge == Observed.timestamp <= now

\* a timestamp from the future fails
Fresh == Observed.timestamp <= now /\ now - Observed.timestamp <= feed.maxAge

Distance(a, b) == IF a >= b THEN a - b ELSE b - a

\* mutant: the bound itself no longer accepted
StrictlyWithin(nav, ref) == Distance(nav, ref) * BPS < ref * feed.maxDev

\* u128 products that overflow fail the read
Within(nav, ref) ==
  /\ Distance(nav, ref) * BPS <= U128Max
  /\ ref * feed.maxDev <= U128Max
  /\ Distance(nav, ref) * BPS <= ref * feed.maxDev

Accepts(ref) == ref # NoNav => Within(ObservedNav, ref.nav)

WithinDeviation == Accepts(last)

Answers == Configured /\ Normalizes /\ Fresh /\ WithinDeviation

\* what get_nav would return now, 0 for an error
Answer == IF Answers THEN ObservedNav ELSE 0

-----------------------------------------------------------------------------
(* Entry points *)

InitAdapter ==
  /\ ~hasAdmin
  /\ hasAdmin' = TRUE
  /\ UNCHANGED <<feed, last, point, mapped, now>>

\* mutants: the observation recorded before it is compared with the last one,
\* and recorded as it came instead of normalised
MayRecordFirst == Configured /\ Normalizes /\ Fresh
AcceptedRaw == [nav |-> Observed.price, ts |-> Observed.timestamp]

MayRecord == Answers
Accepted == [nav |-> ObservedNav, ts |-> Observed.timestamp]

GetNav ==
  /\ MayRecord
  /\ last' = Accepted
  /\ UNCHANGED <<hasAdmin, feed, point, mapped, now>>

\* mutant: a NAV at the old scale survives where only the decimals change
LastKept(src) == IF src = feed.source THEN last ELSE NoNav

LastCleared(src) == NoNav

ConfigureFeed(src, decimals) ==
  /\ hasAdmin
  /\ decimals <= MAX_DECIMALS
  /\ feed' = [source |-> src, decimals |-> decimals,
              maxAge |-> DefaultAge, maxDev |-> DefaultDev]
  /\ last' = LastCleared(src)
  /\ UNCHANGED <<hasAdmin, point, mapped, now>>

SetBounds(age, dev) ==
  /\ hasAdmin
  /\ Configured
  /\ feed' = [feed EXCEPT !.maxAge = age, !.maxDev = dev]
  /\ UNCHANGED <<hasAdmin, last, point, mapped, now>>

\* mutant: the override itself held to the deviation bound
PlantableWithin(nav) == nav > 0 /\ (last # NoNav => Within(nav, last.nav))

Plantable(nav) == nav > 0

MayOverride(nav) == hasAdmin /\ Plantable(nav) /\ Configured
Planted(nav) == [nav |-> nav, ts |-> now]

AcceptOverride(nav) ==
  /\ MayOverride(nav)
  /\ last' = Planted(nav)
  /\ UNCHANGED <<hasAdmin, feed, point, mapped, now>>

-----------------------------------------------------------------------------
(* The sources.  mock-oracle's admin sets any price with any timestamp; a  *)
(* live Reflector (external) may answer anything, or nothing.              *)

SetPrice(src, price, ts) ==
  /\ point' = [point EXCEPT ![src] = [price |-> price, timestamp |-> ts]]
  /\ UNCHANGED <<hasAdmin, feed, last, mapped, now>>

ReflectorMoves(src, price, ts) ==
  /\ point' = [point EXCEPT ![src] = [price |-> price, timestamp |-> ts]]
  /\ UNCHANGED <<hasAdmin, feed, last, mapped, now>>

MapAsset(src) ==
  /\ mapped' = mapped \cup {src}
  /\ UNCHANGED <<hasAdmin, feed, last, point, now>>

Tick ==
  /\ now < MaxNow
  /\ now' = now + 1
  /\ UNCHANGED <<hasAdmin, feed, last, point, mapped>>

-----------------------------------------------------------------------------
AdapterInit ==
  /\ hasAdmin = FALSE
  /\ feed = NoFeed /\ last = NoNav
  /\ point = [s \in Sources |-> NoPoint]
  /\ mapped = {}
  /\ now = 0

AdminStep ==
  \/ InitAdapter
  \/ \E src \in Sources, d \in Decimals : ConfigureFeed(src, d)
  \/ \E age \in Ages, dev \in Devs : SetBounds(age, dev)
  \/ \E nav \in Overrides : AcceptOverride(nav)

SourceStep ==
  \/ \E src \in Mocks, p \in Prices, ts \in 0..MaxNow : SetPrice(src, p, ts)
  \/ \E src \in Shims, p \in Prices, ts \in 0..MaxNow : ReflectorMoves(src, p, ts)
  \/ \E src \in Shims : MapAsset(src)

AdapterNext == GetNav \/ AdminStep \/ SourceStep \/ Tick

AdapterSpec == AdapterInit /\ [][AdapterNext]_adapterVars

-----------------------------------------------------------------------------
(* Properties *)

\* The u128 products of the deviation check stay in range against this NAV.
ComparableWith(nav) == nav * feed.maxDev <= U128Max

\* Reading is harmless.  Although get_nav writes, whoever reads next gets the
\* same answer: one contract's read never halts, moves or re-arms the feed for
\* the others.  (The one exception is a NAV so large that nav * max_dev_bps
\* leaves u128: accepted as the first price, it fails every later read.)
ReadKeepsAnswer ==
  [][GetNav /\ ComparableWith(ObservedNav) => Answer' = Answer]_adapterVars

\* A halted feed does not restart by itself.  A new answer appears only when a
\* source publishes or is mapped, when the admin reconfigures, re-bounds or
\* overrides, or when a point dated in the future falls due: no sequence of
\* reads and no passage of time brings back a rejected or an expired price.
HaltEndsOnlyBySourceOrAdmin ==
  [][(Answer' > 0 /\ Answer' # Answer) =>
       SourceStep \/ AdminStep \/ Observed.timestamp > now]_adapterVars

\* The admin can always re-arm: once the source's price is present and fresh,
\* an override at that price makes the adapter answer it, however far it is
\* from what was last accepted.
OverrideRearms ==
  (hasAdmin /\ Configured /\ Normalizes /\ Fresh /\ ComparableWith(ObservedNav)) =>
    MayOverride(ObservedNav) /\ Accepts(Planted(ObservedNav))

=============================================================================
