------------------------ MODULE OracleAdapter_proofs ------------------------
(***************************************************************************)
(* The NAV feed, the vault over it, and the Blend adapter over both, for   *)
(* any prices, decimals, bounds and width of the integers.                 *)
(*                                                                         *)
(* Of the feed: the records it keeps are well formed, what a new NAV is    *)
(* compared with is of the source and the scale now configured, a read     *)
(* does not change what the next reader is told, a halt does not end by    *)
(* itself, and an override ends it.                                        *)
(*                                                                         *)
(* Of the composition: the vault's specification takes the NAV as an       *)
(* answer its own calls leave alone; here the answer is computed from a    *)
(* state those calls write, and the composition is proved to implement it. *)
(* The crux is that a successful read answers the next reader the same     *)
(* (ReadKeeps).  The pool's reads inherit that, and the age of what they   *)
(* are told is bounded by the feed.                                        *)
(***************************************************************************)
EXTENDS BlendAdapter, MCOracleAdapter, TLAPS

-----------------------------------------------------------------------------
(* Types *)

\* What LastPrice returns for any source.
LEMMA ObservedType ==
  ASSUME AdapterTypeOK
  PROVE  Observed.price \in Int /\ Observed.timestamp \in Nat
  BY DEF AdapterTypeOK, Observed, LastPrice, NoPoint

\* Only a positive NAV is ever recorded.
LEMMA AcceptedType ==
  ASSUME AdapterTypeOK, Answers
  PROVE  Accepted \in [nav : Nat \ {0}, ts : Nat] /\ Accepted.nav = ObservedNav
  <1>1. ObservedNav \in Nat /\ ObservedNav > 0
    BY I128MaxAssumption DEF Answers, Normalizes
  <1> QED  BY <1>1, ObservedType DEF Accepted

\* The records are well formed before the adapter is initialised.
LEMMA InitTypes == AdapterInit => AdapterTypeOK
  <1> SUFFICES ASSUME AdapterInit PROVE AdapterTypeOK
    OBVIOUS
  <1> USE DEF AdapterInit
  <1>1. feed \in [source : Sources \cup {NoSource}, decimals : Nat, maxAge : Nat, maxDev : Nat]
    BY DEF NoFeed
  <1>2. last = NoNav
    OBVIOUS
  <1>3. point \in [Sources -> [price : Int, timestamp : Nat]]
    BY DEF NoPoint
  <1>4. hasAdmin \in BOOLEAN /\ mapped \subseteq Shims /\ now \in Nat
    OBVIOUS
  <1> QED  BY <1>1, <1>2, <1>3, <1>4 DEF AdapterTypeOK

\* Every step of the adapter, of its admin and of its sources keeps them so.
LEMMA NextTypes == AdapterTypeOK /\ [AdapterNext]_adapterVars => AdapterTypeOK'
  <1> SUFFICES ASSUME AdapterTypeOK, [AdapterNext]_adapterVars PROVE AdapterTypeOK'
    OBVIOUS
  <1>1. CASE GetNav
    BY <1>1, AcceptedType DEF AdapterTypeOK, GetNav, MayRecord
  <1>2. CASE AdminStep
    <2>1. CASE InitAdapter
      BY <2>1 DEF AdapterTypeOK, InitAdapter
    <2>2. ASSUME NEW s \in Sources, NEW d \in Decimals, ConfigureFeed(s, d)
          PROVE  AdapterTypeOK'
      BY <2>2, AdapterAssumption DEF AdapterTypeOK, ConfigureFeed, LastCleared, NoNav
    <2>3. ASSUME NEW age \in Ages, NEW dev \in Devs, SetBounds(age, dev)
          PROVE  AdapterTypeOK'
      BY <2>3, AdapterAssumption DEF AdapterTypeOK, SetBounds
    <2>4. ASSUME NEW nav \in Overrides, AcceptOverride(nav)
          PROVE  AdapterTypeOK'
      BY <2>4, AdapterAssumption DEF AdapterTypeOK, AcceptOverride, MayOverride, Planted, Plantable
    <2> QED  BY <1>2, <2>1, <2>2, <2>3, <2>4 DEF AdminStep
  <1>3. CASE SourceStep
    <2>1. ASSUME NEW s \in Sources, NEW p \in Prices, NEW ts \in 0..MaxNow,
                 SetPrice(s, p, ts) \/ ReflectorMoves(s, p, ts)
          PROVE  AdapterTypeOK'
      BY <2>1, AdapterAssumption DEF AdapterTypeOK, SetPrice, ReflectorMoves
    <2>2. ASSUME NEW s \in Shims, MapAsset(s)
          PROVE  AdapterTypeOK'
      BY <2>2 DEF AdapterTypeOK, MapAsset
    <2> QED  BY <1>3, <2>1, <2>2 DEF SourceStep, Sources
  <1>4. CASE Tick
    BY <1>4 DEF AdapterTypeOK, Tick
  <1>5. CASE UNCHANGED adapterVars
    BY <1>5 DEF AdapterTypeOK, adapterVars
  <1> QED  BY <1>1, <1>2, <1>3, <1>4, <1>5 DEF AdapterNext

\* The adapter's storage is well formed: in particular nothing negative, and
\* nothing that floored away to zero, is ever kept as the NAV to compare with.
THEOREM AdapterTypesHold == AdapterSpec => []AdapterTypeOK
  BY InitTypes, NextTypes, PTL DEF AdapterSpec

-----------------------------------------------------------------------------
(* Reads *)

\* A NAV is within any bound of itself, unless the product overflows.
LEMMA WithinItself ==
  ASSUME NEW nav \in Nat, AdapterTypeOK, ComparableWith(nav)
  PROVE  Within(nav, nav)
  <1>1. Distance(nav, nav) = 0
    BY DEF Distance
  <1>2. feed.maxDev \in Nat /\ BPS \in Nat /\ U128Max \in Nat
    BY AdapterAssumption DEF AdapterTypeOK
  <1>3. nav * feed.maxDev \in Nat
    BY <1>2, SMT
  <1>4. 0 * BPS = 0
    BY <1>2, SMT
  <1> QED  BY <1>1, <1>2, <1>3, <1>4 DEF Within, ComparableWith

\* What get_nav leaves alone is everything the next reader sees, but the NAV it
\* is compared with.
LEMMA ReadLeavesObservation ==
  ASSUME GetNav
  PROVE  /\ Observed' = Observed /\ ObservedNav' = ObservedNav
         /\ Configured' = Configured /\ Normalizes' = Normalizes /\ Fresh' = Fresh
  <1>1. UNCHANGED <<feed, point, mapped, now>>
    BY DEF GetNav
  <1>2. Observed' = Observed
    BY <1>1 DEF Observed, LastPrice
  <1>3. ObservedNav' = ObservedNav
    BY <1>1, <1>2 DEF ObservedNav, Normalize
  <1> QED  BY <1>1, <1>2, <1>3 DEF Configured, Normalizes, Fresh

\* A read records the NAV it answers, and that NAV is within any bound of itself.
LEMMA ReadKeeps ==
  ASSUME AdapterTypeOK, GetNav, ComparableWith(ObservedNav)
  PROVE  Answer' = Answer
  <1>1. Answers /\ last' = Accepted /\ feed' = feed
    BY DEF GetNav, MayRecord
  <1>2. last'.nav = ObservedNav /\ ObservedNav \in Nat
    BY <1>1, AcceptedType
  <1>3. Within(ObservedNav, ObservedNav)
    BY <1>2, WithinItself
  <1>4. WithinDeviation'
    BY <1>1, <1>2, <1>3, ReadLeavesObservation DEF WithinDeviation, Accepts, Within
  <1>5. Answers'
    BY <1>1, <1>4, ReadLeavesObservation DEF Answers
  <1> QED  BY <1>1, <1>5, ReadLeavesObservation DEF Answer

\* One contract's read never halts or moves the feed for the others.
THEOREM AdapterReadKeepsAnswer == AdapterSpec => ReadKeepsAnswer
  <1>1. AdapterTypeOK /\ [AdapterNext]_adapterVars
          => [GetNav /\ ComparableWith(ObservedNav) => Answer' = Answer]_adapterVars
    BY ReadKeeps
  <1> QED  BY AdapterTypesHold, <1>1, PTL DEF AdapterSpec, ReadKeepsAnswer

-----------------------------------------------------------------------------
(* Halts *)

\* Time alone only takes answers away, except from a point dated in the future.
LEMMA TickKeeps ==
  ASSUME AdapterTypeOK, Tick, Answers', ~(Observed.timestamp > now)
  PROVE  Answer' = Answer
  <1>1. UNCHANGED <<feed, last, point, mapped>> /\ now' = now + 1
    BY DEF Tick
  <1>2. Observed' = Observed
    BY <1>1 DEF Observed, LastPrice
  <1>3. ObservedNav' = ObservedNav
    BY <1>1, <1>2 DEF ObservedNav, Normalize
  <1>4. Fresh
    <2>1. Observed.timestamp \in Nat /\ now \in Nat /\ feed.maxAge \in Nat
      BY ObservedType DEF AdapterTypeOK
    <2>2. (now + 1) - Observed.timestamp <= feed.maxAge
      BY <1>1, <1>2 DEF Answers, Fresh
    <2> QED  BY <2>1, <2>2, SMT DEF Fresh
  <1>5. Answers
    BY <1>1, <1>2, <1>3, <1>4
    DEF Answers, Configured, Normalizes, WithinDeviation, Accepts, Within
  <1> QED  BY <1>3, <1>5 DEF Answer

\* A halted feed comes back only through its sources or the admin.
THEOREM AdapterHaltEnds == AdapterSpec => HaltEndsOnlyBySourceOrAdmin
  <1> DEFINE Ended == (Answer' > 0 /\ Answer' # Answer) =>
                        SourceStep \/ AdminStep \/ Observed.timestamp > now
  <1>1. AdapterTypeOK /\ [AdapterNext]_adapterVars => [Ended]_adapterVars
    <2> SUFFICES ASSUME AdapterTypeOK, AdapterNext, Answer' > 0, Answer' # Answer
                 PROVE  SourceStep \/ AdminStep \/ Observed.timestamp > now
      OBVIOUS
    <2>1. Answers'
      BY DEF Answer
    <2>2. CASE GetNav
      <3>1. Answer = ObservedNav
        BY <2>2 DEF GetNav, MayRecord, Answer
      <3>2. Answer' = ObservedNav
        BY <2>1, <2>2, ReadLeavesObservation DEF Answer
      <3> QED  BY <3>1, <3>2
    <2>3. CASE Tick
      BY <2>1, <2>3, TickKeeps
    <2> QED  BY <2>2, <2>3 DEF AdapterNext
  <1> QED
    BY AdapterTypesHold, <1>1, PTL DEF AdapterSpec, HaltEndsOnlyBySourceOrAdmin

\* The admin's way out of a halt: an override at a price that is there and fresh
\* is not refused, and the adapter then answers that price.
THEOREM AdapterOverrideRearms == AdapterSpec => []OverrideRearms
  <1>1. ASSUME AdapterTypeOK, hasAdmin, Configured, Normalizes, ComparableWith(ObservedNav)
        PROVE  MayOverride(ObservedNav) /\ Accepts(Planted(ObservedNav))
    <2>1. ObservedNav \in Nat /\ ObservedNav > 0
      BY <1>1, I128MaxAssumption DEF Normalizes
    <2>2. Within(ObservedNav, ObservedNav)
      BY <1>1, <2>1, WithinItself
    <2> QED  BY <1>1, <2>1, <2>2 DEF MayOverride, Plantable, Accepts, Planted
  <1>2. AdapterTypeOK => OverrideRearms
    BY <1>1 DEF OverrideRearms
  <1> QED  BY AdapterTypesHold, <1>2, PTL

-----------------------------------------------------------------------------
(* The history of the last accepted NAV *)

\* Source and scale change only where the NAV accepted under the ones before is
\* dropped, and a NAV is accepted only by a read or an override.
LEMMA RegimeStands ==
  ASSUME AdapterTypeOK, [AdapterNext]_adapterVars
  PROVE  \/ last' = NoNav
         \/ Regime' = Regime /\ (last' = last \/ GetNav \/ Overridden)
<1> USE DEF AdapterTypeOK, Regime
<1>1. CASE GetNav
  BY <1>1 DEF GetNav
<1>2. CASE AdminStep
  <2>1. CASE Overridden
    BY <2>1 DEF Overridden, AcceptOverride
  <2>2. CASE ~Overridden
    BY <1>2, <2>2 DEF AdminStep, InitAdapter, ConfigureFeed, LastCleared, SetBounds, Overridden
  <2> QED BY <2>1, <2>2
<1>3. CASE SourceStep
  BY <1>3 DEF SourceStep, SetPrice, ReflectorMoves, MapAsset
<1>4. CASE Tick \/ UNCHANGED adapterVars
  BY <1>4 DEF Tick, adapterVars
<1> QED BY <1>1, <1>2, <1>3, <1>4 DEF AdapterNext

\* configure_feed: whatever is configured, overridden, published and read in
\* whatever order, a NAV is compared only with one read from the source and at
\* the decimals now configured, or planted by the admin.
THEOREM AdapterComparesWithinRegime == HistSpec => []ComparedWithinRegime
<1>1. HistInit => AdapterTypeOK /\ ComparedWithinRegime
  BY InitTypes DEF HistInit, AdapterInit, ComparedWithinRegime
<1>2. ASSUME AdapterTypeOK, ComparedWithinRegime, [AdapterNext /\ TrackVia]_<<adapterVars, via>>
      PROVE  AdapterTypeOK' /\ ComparedWithinRegime'
  <2>1. [AdapterNext]_adapterVars
    BY <1>2 DEF adapterVars
  <2>2. AdapterTypeOK'
    BY <1>2, <2>1, NextTypes
  <2>3. CASE UNCHANGED <<adapterVars, via>>
    BY <1>2, <2>2, <2>3 DEF adapterVars, ComparedWithinRegime, Regime
  <2>4. CASE TrackVia
    <3>1. CASE last' = NoNav
      BY <2>2, <3>1 DEF ComparedWithinRegime
    <3>2. CASE Regime' = Regime /\ (last' = last \/ GetNav \/ Overridden)
      BY <1>2, <2>2, <2>4, <3>2 DEF TrackVia, ComparedWithinRegime
    <3> QED BY <1>2, <2>1, <3>1, <3>2, RegimeStands
  <2> QED BY <1>2, <2>2, <2>3, <2>4
<1> QED BY <1>1, <1>2, PTL DEF HistSpec

-----------------------------------------------------------------------------
(* The composition *)

\* what a configured feed may hold, beyond its type
FeedInRange ==
  /\ \A s \in Sources : point[s].price \in Prices \cup {0}
  /\ Configured => feed.decimals \in Decimals /\ feed.maxDev \in Devs \cup {DefaultDev}

BlendInv == AdapterTypeOK /\ FeedInRange /\ oracle \in {Adapter, NoOne}

-----------------------------------------------------------------------------
(* The invariant *)

\* No step of the adapter or its sources brings in another price or bound.
LEMMA FeedInRangeStep ==
  ASSUME AdapterTypeOK, FeedInRange, [AdapterNext]_adapterVars
  PROVE  FeedInRange'
<1>1. ASSUME UNCHANGED <<feed, point>> PROVE FeedInRange'
  BY <1>1 DEF FeedInRange, Configured
<1>2. CASE GetNav \/ Tick \/ UNCHANGED adapterVars
  BY <1>1, <1>2 DEF GetNav, Tick, adapterVars
<1>3. CASE AdminStep
  <2>1. CASE InitAdapter \/ \E nav \in Overrides : AcceptOverride(nav)
    BY <1>1, <2>1 DEF InitAdapter, AcceptOverride
  <2>2. ASSUME NEW src0 \in Sources, NEW d \in Decimals, ConfigureFeed(src0, d)
        PROVE  FeedInRange'
    BY <2>2 DEF ConfigureFeed, FeedInRange, Configured
  <2>3. ASSUME NEW age \in Ages, NEW dev \in Devs, SetBounds(age, dev)
        PROVE  FeedInRange'
    BY <2>3 DEF SetBounds, FeedInRange, Configured, AdapterTypeOK
  <2> QED BY <1>3, <2>1, <2>2, <2>3 DEF AdminStep
<1>4. CASE SourceStep
  <2>1. ASSUME NEW s0 \in Sources, NEW p \in Prices, NEW ts \in 0..MaxNow,
               SetPrice(s0, p, ts) \/ ReflectorMoves(s0, p, ts)
        PROVE  FeedInRange'
    BY <2>1 DEF SetPrice, ReflectorMoves, FeedInRange, Configured, AdapterTypeOK
  <2>2. CASE \E s0 \in Shims : MapAsset(s0)
    BY <1>1, <2>2 DEF MapAsset
  <2> QED BY <1>4, <2>1, <2>2 DEF SourceStep, Sources
<1> QED BY <1>2, <1>3, <1>4 DEF AdapterNext

\* Whatever the composition does, the adapter takes one of its steps or none.
LEMMA AdapterSteps ==
  ASSUME [PricedNext]_vars
  PROVE  [AdapterNext]_adapterVars
BY DEF PricedNext, LedgerStep, AdapterNext, vars, adapterVars

\* The Blend adapter, too, is only a reader of what it is put over.
LEMMA PricedSteps ==
  ASSUME [BlendNext]_allVars
  PROVE  [PricedNext]_vars
BY DEF BlendNext, InitBlend, StoreSource, SetVaultSource, SetFixedSource, RemoveSource,
       BlendLastprice, PricedNext, allVars

\* The vault is never pointed at anything but the one adapter.
LEMMA OracleStep ==
  ASSUME oracle \in {Adapter, NoOne}, [PricedNext]_vars
  PROVE  oracle' \in {Adapter, NoOne}
<1>1. CASE oracle' = oracle
  BY <1>1
<1>2. CASE \E from \in Signers : V!PricedCall(from)
  BY <1>1, <1>2 DEF V!PricedCall, V!Deposit, V!Withdraw, V!configVars
<1>3. CASE \E from \in Signers : V!UnpricedCall(from)
  BY <1>1, <1>3 DEF V!UnpricedCall, V!Transfer, V!TransferFrom, V!Approve, V!configVars
<1>4. CASE V!Lifecycle
  BY <1>4 DEF V!Lifecycle, V!InitVault, V!SetCap, V!SetOracle, V!SetPaused,
              V!TransferAdmin, V!AcceptAdmin
<1>5. CASE \E n \in Rebases : V!Rebase(n)
  BY <1>1, <1>5 DEF V!Rebase, V!configVars
<1> QED BY <1>1, <1>2, <1>3, <1>4, <1>5 DEF PricedNext, LedgerStep, books, vars

\* The invariant holds at the start.
LEMMA BlendInvInit == PricedInit => BlendInv
<1> SUFFICES ASSUME PricedInit PROVE BlendInv
  OBVIOUS
<1>1. AdapterTypeOK
  BY InitTypes DEF PricedInit
<1>2. FeedInRange
  BY DEF PricedInit, AdapterInit, FeedInRange, Configured, NoFeed, NoPoint
<1> QED BY <1>1, <1>2 DEF BlendInv, PricedInit

\* It is kept along every step of the composition.
LEMMA BlendInvStep == BlendInv /\ [PricedNext]_vars => BlendInv'
BY AdapterSteps, NextTypes, FeedInRangeStep, OracleStep DEF BlendInv

-----------------------------------------------------------------------------
(* What the vault is told *)

\* The adapter answers a NAV the vault's specification allows, or fails.
LEMMA AnswerAllowed ==
  ASSUME BlendInv
  PROVE  Answer \in Navs \cup {0} /\ (Answers => ComparableWith(ObservedNav))
<1>1. ASSUME Answers
      PROVE  ObservedNav \in Navs /\ ComparableWith(ObservedNav)
  <2>1. Configured /\ Observed.price > 0 /\ ObservedNav \in 1..I128Max
    BY <1>1 DEF Answers, Normalizes
  <2>2. feed.source \in Sources
    BY <2>1 DEF Configured, BlendInv, AdapterTypeOK
  <2>3. Observed = point[feed.source]
    BY <2>1 DEF Observed, LastPrice, NoPoint
  <2>4. Observed.price \in Prices
    BY <2>1, <2>2, <2>3 DEF BlendInv, FeedInRange
  <2>5. feed.decimals \in Decimals /\ feed.maxDev \in Devs \cup {DefaultDev}
    BY <2>1 DEF BlendInv, FeedInRange
  <2>6. ObservedNav \in Navs
    BY <2>1, <2>4, <2>5, PricedAssumption DEF ObservedNav
  <2> QED BY <2>5, <2>6, PricedAssumption DEF ComparableWith
<1> QED BY <1>1 DEF Answer

AnswerInRange == Answer \in Navs \cup {0}

\* So it does after a step.
LEMMA AnswerStaysAllowed == BlendInv' => Answer' \in Navs \cup {0}
<1>1. BlendInv => AnswerInRange
  BY AnswerAllowed DEF AnswerInRange
<1>2. BlendInv' => AnswerInRange'
  BY <1>1, PTL
<1> QED BY <1>2 DEF AnswerInRange

\* A priced call reads, and what it read stands.
LEMMA PricedReadKeeps ==
  ASSUME BlendInv, GetNav
  PROVE  Answer' = Answer
BY AnswerAllowed, ReadKeeps DEF BlendInv, GetNav, MayRecord

\* The answer depends on nothing but the adapter's own state.
LEMMA AnswerStands ==
  ASSUME UNCHANGED adapterVars
  PROVE  Answer' = Answer
BY DEF adapterVars, Answer, Answers, Configured, Normalizes, Fresh, WithinDeviation, Accepts, Within,
       ObservedNav, Normalize, Observed, LastPrice

Quote == [o \in {Adapter} |-> Answer]

-----------------------------------------------------------------------------
(* The refinement *)

\* Nothing is configured at first, so the vault starts over a failing quote.
LEMMA RefinesInit == PricedInit => V!Init
<1> SUFFICES ASSUME PricedInit PROVE V!Init
  OBVIOUS
<1>1. Answer \in Navs \cup {0}
  BY BlendInvInit, AnswerAllowed
<1>2. Quote \in [{Adapter} -> Navs \cup {0}]
  BY <1>1 DEF Quote
<1> QED BY <1>2 DEF PricedInit, V!Init, Quote

\* Each step of the composition is a step of the vault, or none.
LEMMA RefinesNext ==
  ASSUME BlendInv, [PricedNext]_vars
  PROVE  [V!Next]_V!vaultVars
<1>0. BlendInv' /\ Answer' \in Navs \cup {0}
  BY BlendInvStep, AnswerStaysAllowed
<1>1. ASSUME NEW from \in Signers, V!PricedCall(from), GetNav
      PROVE  V!Next
  <2>1. Quote' = Quote
    BY <1>1, PricedReadKeeps DEF Quote
  <2> QED BY <1>1, <2>1 DEF V!Next, V!Call, Quote
<1>2. ASSUME NEW from \in Signers, V!UnpricedCall(from), UNCHANGED adapterVars
      PROVE  V!Next
  <2>1. Quote' = Quote
    BY <1>2, AnswerStands DEF Quote
  <2> QED BY <1>2, <2>1 DEF V!Next, V!Call, Quote
<1>3. ASSUME V!Lifecycle, UNCHANGED adapterVars
      PROVE  V!Next
  <2>1. Quote' = Quote
    BY <1>3, AnswerStands DEF Quote
  <2> QED BY <1>3, <2>1 DEF V!Next, V!Call, Quote
<1>4. ASSUME NEW n \in Rebases, V!Rebase(n)
      PROVE  V!Next
  BY <1>4 DEF V!Next, V!Environment
<1>5. ASSUME UNCHANGED books
      PROVE  [V!Next]_V!vaultVars
  <2>1. UNCHANGED V!holdings
    BY <1>5 DEF books, V!holdings, V!shareVars, V!configVars, V!tokenVars
  <2>2. CASE Answer' = Answer
    BY <2>1, <2>2 DEF V!vaultVars
  <2>3. CASE Answer' # Answer
    <3>1. Quote' = [Quote EXCEPT ![Adapter] = Answer'] /\ Answer' # Quote[Adapter]
      BY <2>3 DEF Quote
    <3>2. V!QuoteMoves(Adapter, Answer')
      BY <1>5, <3>1 DEF V!QuoteMoves, Quote, books, V!shareVars, V!configVars, V!tokenVars
    <3> QED BY <1>0, <3>2 DEF V!Next, V!Environment
  <2> QED BY <2>2, <2>3
<1>6. CASE LedgerStep
  <2>1. Quote' \in [{Adapter} -> Navs \cup {0}]
    BY <1>0 DEF Quote
  <2>2. V!LedgerCloses(Quote')
    BY <1>6 DEF LedgerStep, V!LedgerCloses, Quote, V!shareVars, V!configVars, V!tokenVars
  <2> QED BY <2>1, <2>2 DEF V!Next, V!Environment
<1>7. CASE UNCHANGED vars
  <2>1. UNCHANGED books
    BY <1>7 DEF vars, books
  <2> QED BY <1>5, <2>1
<1> QED
  BY <1>1, <1>2, <1>3, <1>4, <1>5, <1>6, <1>7 DEF PricedNext

\* The vault over a real adapter, read by a Blend pool as often as it likes,
\* behaves as contracts/vault is specified to behave over an arbitrary quote.
THEOREM VaultOverAdapterImplements == BlendSpec => VaultSpec
<1>1. BlendInit => BlendInv /\ V!Init
  BY BlendInvInit, RefinesInit DEF BlendInit
<1>2. BlendInv /\ [BlendNext]_allVars => BlendInv' /\ [V!Next]_V!vaultVars
  BY PricedSteps, BlendInvStep, RefinesNext
<1> QED BY <1>1, <1>2, PTL DEF BlendSpec, VaultSpec, V!Spec

-----------------------------------------------------------------------------
(* What the pool is told *)

\* Every asset's answer is a function of the adapter's answer and the books.
LEMMA BlendPriceStands ==
  ASSUME Answer' = Answer, UNCHANGED <<books, blendVars>>, NEW b \in Assets
  PROVE  BlendPrice(b)' = BlendPrice(b)
<1>1. UNCHANGED <<src, total, reserve, oracle>>
  BY DEF books, blendVars
<1>2. V!Nav' = V!Nav
  BY <1>1 DEF V!Nav
<1>3. V!PoolValue' = V!PoolValue
  BY <1>1, <1>2 DEF V!PoolValue
<1>4. V!PoolValueFits' = V!PoolValueFits /\ V!SharePrice' = V!SharePrice
  BY <1>1, <1>2, <1>3 DEF V!PoolValueFits, V!SharePrice
<1>5. SharePriceReturns' = SharePriceReturns
  BY <1>2, <1>3, <1>4 DEF SharePriceReturns
<1> QED BY <1>1, <1>4, <1>5 DEF BlendPrice

\* However often the pool asks and for whichever asset, it is told what it
\* would have been told had it not asked.
THEOREM BlendReadsAgree == BlendSpec => PoolReadsAgree
<1>1. ASSUME BlendInv, NEW a \in Assets, BlendLastprice(a), NEW b \in Assets
      PROVE  BlendPrice(b)' = BlendPrice(b)
  <2>1. GetNav /\ UNCHANGED <<books, blendVars>>
    BY <1>1 DEF BlendLastprice
  <2> QED BY <1>1, <2>1, PricedReadKeeps, BlendPriceStands
<1>2. BlendInv /\ [BlendNext]_allVars
        => BlendInv' /\ [(\E a \in Assets : BlendLastprice(a)) =>
                           \A b \in Assets : BlendPrice(b)' = BlendPrice(b)]_allVars
  BY <1>1, PricedSteps, BlendInvStep
<1>3. BlendInit => BlendInv
  BY BlendInvInit DEF BlendInit
<1> QED BY <1>2, <1>3, PTL DEF BlendSpec, PoolReadsAgree

\* The time the pool sees on an answer is that of its own read; the NAV under
\* it was nevertheless observed within the feed's bound.
THEOREM BlendAgeBounded == BlendSpec => []StampHidesBoundedAge
<1>1. BlendInv => StampHidesBoundedAge
  <2> SUFFICES ASSUME BlendInv, NEW a \in Assets, src[a] = VaultSrc, BlendPrice(a) > 0
               PROVE  now - Observed.timestamp \in 0..feed.maxAge
    BY DEF StampHidesBoundedAge
  <2>1. SharePriceReturns
    BY BlendAssumption DEF BlendPrice
  <2>2. Answer > 0
    BY <2>1 DEF SharePriceReturns, V!Nav, BlendInv
  <2>3. Observed.timestamp <= now /\ now - Observed.timestamp <= feed.maxAge
    BY <2>2 DEF Answer, Answers, Fresh
  <2>4. now \in Nat /\ Observed.timestamp \in Nat /\ feed.maxAge \in Nat
    BY ObservedType DEF BlendInv, AdapterTypeOK
  <2> QED BY <2>3, <2>4
<1>2. BlendInv /\ [BlendNext]_allVars => BlendInv'
  BY PricedSteps, BlendInvStep
<1>3. BlendInit => BlendInv
  BY BlendInvInit DEF BlendInit
<1> QED BY <1>1, <1>2, <1>3, PTL DEF BlendSpec
=============================================================================
