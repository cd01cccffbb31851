---------------------------- MODULE Indexer_proofs ----------------------------
(***************************************************************************)
(* The poller's safety claims, for any chain, any page limit and any       *)
(* number of abandoned cycles and restarts: no event is ever counted       *)
(* twice, one is lost to the metrics only with a cycle abandoned before    *)
(* its count, and, as long as the events due to a cycle fit on one page of *)
(* getEvents, the cursor never passes an event that was not stored.        *)
(*                                                                         *)
(* They are about what is left when a cycle stops between two awaits, so   *)
(* their invariants say, for each place the cycle can stop, how the tables *)
(* relate to the page in hand.                                             *)
(***************************************************************************)
EXTENDS Indexer, FiniteSetTheorems, SequenceTheorems, WellFoundedInduction, TLAPS

Event == [ledger : Nat, kind : Kinds, user : Users]

Places == {"idle", "fetch", "store", "count", "refresh", "upsert", "sample", "save"}

-----------------------------------------------------------------------------
(* The chain only grows *)

ChainOK == chain \in Seq(Event) /\ ledger \in Nat

\* A ledger's events are its own, and follow the others.
LEMMA LedgerAppends ==
  ASSUME ChainOK, NEW batch \in Batches, CloseLedger(batch)
  PROVE  /\ ChainOK'
         /\ DOMAIN chain \subseteq DOMAIN chain'
         /\ \A i \in DOMAIN chain : chain'[i] = chain[i]
         /\ \A i \in DOMAIN chain' \ DOMAIN chain : chain'[i].ledger = ledger + 1
<1> DEFINE new == [i \in DOMAIN batch |->
                     [ledger |-> ledger + 1, kind |-> batch[i][1], user |-> batch[i][2]]]
<1>1. chain \in Seq(Event) /\ ledger \in Nat /\ MaxBatch \in Nat
  BY IndexerAssumption DEF ChainOK
<1>2. PICK n \in 0..MaxBatch : batch \in [1..n -> Kinds \X Users]
  BY DEF Batches
<1>3. new \in [1..n -> Event]
  BY <1>1, <1>2 DEF Event
<1>4. chain' = chain \o new /\ ledger' = ledger + 1
  BY DEF CloseLedger
<1>5. \A i \in 1..n : new[i].ledger = ledger + 1
  BY <1>2
<1> HIDE DEF new
<1>6. new \in Seq(Event) /\ Len(new) = n
  <2>1. n \in Nat
    BY <1>1, <1>2
  <2> QED BY <1>3, <2>1, IsASeq, LenProperties
<1>7. /\ chain' \in Seq(Event) /\ Len(chain') = Len(chain) + n
      /\ \A i \in 1..(Len(chain) + n) :
           chain'[i] = IF i <= Len(chain) THEN chain[i] ELSE new[i - Len(chain)]
  BY <1>1, <1>4, <1>6, ConcatProperties
<1>8. /\ DOMAIN chain = 1..Len(chain) /\ Len(chain) \in Nat /\ DOMAIN chain' = 1..Len(chain')
      /\ n \in Nat
  BY <1>1, <1>2, <1>7, LenProperties
<1>9. ChainOK'
  BY <1>1, <1>4, <1>7 DEF ChainOK
<1> QED BY <1>5, <1>7, <1>8, <1>9

\* The places of the chain are its first so many naturals.
LEMMA ChainPlaces ==
  ASSUME ChainOK
  PROVE  DOMAIN chain = 1..Len(chain) /\ Len(chain) \in Nat
BY LenProperties DEF ChainOK

\* Every event carries the number of its ledger.
LEMMA EventLedger ==
  ASSUME ChainOK, NEW i \in DOMAIN chain
  PROVE  chain[i].ledger \in Nat
<1>1. chain \in Seq(Event) /\ i \in 1..Len(chain)
  BY ChainPlaces DEF ChainOK
<1>2. chain[i] \in Event
  BY <1>1, ElementOfSeq
<1> QED BY <1>2 DEF Event

\* The oldest event of a page is one of its events.
LEMMA FirstInPage ==
  ASSUME NEW s \in SUBSET Nat, s # {}
  PROVE  First(s) \in s
<1>1. PICK x \in s : \A y \in s : ~(<<y, x>> \in OpToRel(<, Nat))
  BY NatLessThanWellFounded, WFMin
<1>2. \A y \in s : x <= y
  <2>1. \A y \in s : ~(y < x)
    BY <1>1 DEF OpToRel
  <2>2. x \in Nat /\ \A y \in s : y \in Nat
    OBVIOUS
  <2>3. \A y \in Nat : ~(y < x) => x <= y
    BY <2>2
  <2> QED BY <2>1, <2>2, <2>3
<1> QED BY <1>1, <1>2 DEF First

-----------------------------------------------------------------------------
(* Counting *)

CountInv ==
  /\ ChainOK
  /\ events \in SUBSET DOMAIN chain /\ page \in SUBSET DOMAIN chain
  /\ metrics \in [Counted -> Nat]
  /\ pc = "count" => current \in events
  /\ \A k \in Counted : metrics[k] <= Cardinality(Settled(k))

\* Any set of places in the chain is finite.
LEMMA PlacesFinite ==
  ASSUME ChainOK, NEW s \in SUBSET DOMAIN chain
  PROVE  IsFiniteSet(s) /\ Cardinality(s) \in Nat
<1>1. IsFiniteSet(DOMAIN chain)
  BY ChainPlaces, FS_Interval
<1> QED BY <1>1, FS_Subset, FS_CardinalityType

\* A step that stores nothing and counts nothing may settle, but not unsettle.
LEMMA NothingCounted ==
  ASSUME CountInv, UNCHANGED <<chainVars, events, metrics>>,
         page' \in SUBSET DOMAIN chain, pc' # "count"
  PROVE  CountInv'
<1>1. ChainOK' /\ chain' = chain
  BY DEF CountInv, ChainOK, chainVars
<1>2. ASSUME NEW k \in Counted
      PROVE  metrics'[k] <= Cardinality(Settled(k)')
  <2>1. Settled(k) \subseteq Settled(k)'
    BY <1>1 DEF Settled, Pending
  <2>2. Settled(k)' \in SUBSET DOMAIN chain /\ Settled(k) \in SUBSET DOMAIN chain
    BY <1>1 DEF Settled, CountInv
  <2>3. /\ IsFiniteSet(Settled(k)') /\ Cardinality(Settled(k)') \in Nat
        /\ Cardinality(Settled(k)) \in Nat
    BY <2>2, PlacesFinite DEF CountInv
  <2>4. Cardinality(Settled(k)) <= Cardinality(Settled(k)')
    BY <2>1, <2>3, FS_Subset
  <2>5. metrics'[k] \in Nat /\ metrics'[k] <= Cardinality(Settled(k))
    BY DEF CountInv
  <2> QED BY <2>3, <2>4, <2>5
<1> QED BY <1>1, <1>2 DEF CountInv

\* Storing the next event: a new row waits for its metric, an old one does not.
LEMMA StoreCounts ==
  ASSUME CountInv, StoreNext
  PROVE  CountInv'
<1> DEFINE e == First(page)
<1>1. /\ pc = "store" /\ page' = page \ {e} /\ events' = events \cup {e}
      /\ chain' = chain /\ ledger' = ledger /\ metrics' = metrics
      /\ IF e \notin events THEN current' = e /\ pc' = "count" ELSE UNCHANGED <<current, pc>>
  BY DEF StoreNext, NewRow, chainVars
<1>2. e \in DOMAIN chain
  <2>1. page \in SUBSET Nat /\ page # {}
    BY ChainPlaces DEF CountInv, StoreNext
  <2> QED BY <2>1, FirstInPage DEF CountInv
<1> HIDE DEF e
<1>3. ChainOK'
  BY <1>1 DEF CountInv, ChainOK
<1>4. ASSUME NEW k \in Counted
      PROVE  Settled(k)' = Settled(k)
  BY <1>1 DEF Settled, Pending
<1> QED BY <1>1, <1>2, <1>3, <1>4 DEF CountInv

\* Counting the event in hand settles it, and counts one of its kind.
LEMMA CountCounts ==
  ASSUME CountInv, CountMetric
  PROVE  CountInv'
<1> DEFINE kind == chain[current].kind
<1>1. /\ pc = "count" /\ pc' = "store" /\ chain' = chain /\ ledger' = ledger
      /\ events' = events /\ page' = page
      /\ metrics' = [k \in Counted |-> metrics[k] + (IF k = kind THEN 1 ELSE 0)]
  BY DEF CountMetric, Bump, chainVars
<1>2. current \in events /\ events \in SUBSET DOMAIN chain
  BY <1>1 DEF CountInv
<1>3. ASSUME NEW k \in Counted
      PROVE  metrics'[k] <= Cardinality(Settled(k)')
  <2>1. metrics[k] \in Nat /\ metrics[k] <= Cardinality(Settled(k))
    BY DEF CountInv
  <2>2. IsFiniteSet(Settled(k)) /\ Cardinality(Settled(k)) \in Nat
    <3>1. Settled(k) \in SUBSET DOMAIN chain
      BY <1>2 DEF Settled
    <3> QED BY <3>1, PlacesFinite DEF CountInv
  <2>3. CASE k = kind
    <3>1. current \notin Settled(k) /\ Settled(k)' = Settled(k) \cup {current}
      BY <1>1, <1>2, <2>3 DEF Settled, Pending
    <3>2. Cardinality(Settled(k)') = Cardinality(Settled(k)) + 1
      BY <2>2, <3>1, FS_AddElement
    <3> QED BY <1>1, <2>1, <2>2, <2>3, <3>2
  <2>4. CASE k # kind
    <3>1. Settled(k)' = Settled(k)
      BY <1>1, <1>2, <2>4 DEF Settled, Pending
    <3> QED BY <1>1, <2>1, <2>4, <3>1
  <2> QED BY <2>3, <2>4
<1>4. metrics' \in [Counted -> Nat]
  BY <1>1 DEF CountInv
<1>5. ChainOK'
  BY <1>1 DEF CountInv, ChainOK
<1> QED BY <1>1, <1>3, <1>4, <1>5 DEF CountInv

\* A ledger closing adds events that nothing has stored yet.
LEMMA CloseCounts ==
  ASSUME CountInv, NEW batch \in Batches, CloseLedger(batch)
  PROVE  CountInv'
<1>1. /\ ChainOK' /\ DOMAIN chain \subseteq DOMAIN chain'
      /\ \A i \in DOMAIN chain : chain'[i] = chain[i]
  BY LedgerAppends DEF CountInv
<1>2. UNCHANGED <<events, metrics, page, pc, current>>
  BY DEF CloseLedger, cycle
<1>3. ASSUME NEW k \in Counted PROVE Settled(k)' = Settled(k)
  <2>1. events \in SUBSET DOMAIN chain
    BY DEF CountInv
  <2> QED BY <1>1, <1>2, <2>1 DEF Settled, Pending
<1> QED BY <1>1, <1>2, <1>3 DEF CountInv

\* Every step of poller, chain and faults keeps the count.
LEMMA CountInvStep == CountInv /\ [Next]_vars => CountInv'
<1> SUFFICES ASSUME CountInv, [Next]_vars PROVE CountInv'
  OBVIOUS
<1>1. CASE BeginPoll
  BY <1>1, NothingCounted DEF BeginPoll, tables, CountInv
<1>2. CASE FetchPage
  <2>1. page' \in SUBSET DOMAIN chain
    BY <1>2 DEF FetchPage, Due
  <2> QED BY <1>2, <2>1, NothingCounted DEF FetchPage, tables
<1>3. CASE StoreNext
  BY <1>3, StoreCounts
<1>4. CASE CountMetric
  BY <1>4, CountCounts
<1>5. CASE PageDone
  BY <1>5, NothingCounted DEF PageDone, tables, CountInv
<1>6. ASSUME NEW u \in Users, ReadPosition(u) \/ ReadFails(u)
      PROVE  CountInv'
  BY <1>6, NothingCounted DEF ReadPosition, ReadFails, tables, CountInv
<1>7. CASE UpsertPosition
  BY <1>7, NothingCounted DEF UpsertPosition, CountInv
<1>8. CASE SampleSharePrice
  BY <1>8, NothingCounted DEF SampleSharePrice, CountInv
<1>9. CASE SaveCursor
  BY <1>9, NothingCounted DEF SaveCursor, EndCycle
<1>10. CASE Abort
  BY <1>10, NothingCounted DEF Abort, EndCycle, tables
<1>11. ASSUME NEW batch \in Batches, CloseLedger(batch)
       PROVE  CountInv'
  BY <1>11, CloseCounts
<1>12. CASE UNCHANGED vars
  BY <1>12 DEF vars, chainVars, tables, cycle, CountInv, ChainOK, Settled, Pending
<1>13. CASE NothingNew
  BY <1>12, <1>13 DEF NothingNew
<1> QED
  BY <1>1, <1>2, <1>3, <1>4, <1>5, <1>6, <1>7, <1>8, <1>9, <1>10, <1>11, <1>12, <1>13
     DEF Next, Poll

\* The chain starts empty.
LEMMA ChainStarts == Init => ChainOK
BY IndexerAssumption, EmptySeq DEF Init, ChainOK

\* Nothing is stored or counted at first.
LEMMA CountInvInit == Init => CountInv
<1> SUFFICES ASSUME Init PROVE CountInv
  OBVIOUS
<1>1. \A k \in Counted : Settled(k) = {}
  BY DEF Init, Settled
<1>2. Cardinality({}) = 0
  BY FS_EmptySet
<1>3. \A k \in Counted : metrics[k] = 0 /\ metrics[k] <= Cardinality(Settled(k))
  BY <1>1, <1>2 DEF Init
<1>4. metrics \in [Counted -> Nat] /\ events = {} /\ page = {} /\ pc # "count"
  BY DEF Init
<1> QED BY <1>3, <1>4, ChainStarts DEF CountInv

\* However often cycles are abandoned between the insert and the metric, and
\* pages fetched again, no event is counted twice.
THEOREM IndexerNeverOvercounts == Spec => []MetricsNeverOvercount
<1>1. CountInv => MetricsNeverOvercount
  <2> SUFFICES ASSUME CountInv, NEW k \in Counted
               PROVE  metrics[k] <= Cardinality(Stored(k))
    BY DEF MetricsNeverOvercount
  <2>1. Settled(k) \subseteq Stored(k) /\ Stored(k) \in SUBSET DOMAIN chain
        /\ Settled(k) \in SUBSET DOMAIN chain
    BY DEF Settled, Stored, CountInv
  <2>2. /\ IsFiniteSet(Stored(k)) /\ Cardinality(Stored(k)) \in Nat
        /\ Cardinality(Settled(k)) \in Nat
    BY <2>1, PlacesFinite DEF CountInv
  <2>3. Cardinality(Settled(k)) <= Cardinality(Stored(k))
    BY <2>1, <2>2, FS_Subset
  <2>4. metrics[k] \in Nat /\ metrics[k] <= Cardinality(Settled(k))
    BY DEF CountInv
  <2> QED BY <2>2, <2>3, <2>4
<1> QED BY <1>1, CountInvInit, CountInvStep, PTL DEF Spec

\* Only the metric of the event in hand, and a cycle abandoned before it, settle
\* anything; every other step leaves what is settled and what is counted alone.
LEMMA SettledStands ==
  ASSUME CountInv, [Next]_vars, ~CountMetric, ~Abort, NEW k \in Counted
  PROVE  /\ Settled(k)' = Settled(k) /\ metrics' = metrics
         /\ pc = "count" => pc' = "count"
<1>1. CASE BeginPoll \/ FetchPage \/ PageDone
  BY <1>1 DEF BeginPoll, FetchPage, PageDone, chainVars, tables, Settled, Pending
<1>2. CASE StoreNext
  BY <1>2 DEF StoreNext, NewRow, chainVars, Settled, Pending
<1>3. ASSUME NEW u \in Users, ReadPosition(u) \/ ReadFails(u)
      PROVE  Settled(k)' = Settled(k) /\ metrics' = metrics /\ pc # "count"
  BY <1>3 DEF ReadPosition, ReadFails, chainVars, tables, Settled, Pending
<1>4. CASE UpsertPosition \/ SampleSharePrice \/ SaveCursor
  BY <1>4 DEF UpsertPosition, SampleSharePrice, SaveCursor, EndCycle, chainVars, Settled, Pending
<1>5. ASSUME NEW batch \in Batches, CloseLedger(batch)
      PROVE  Settled(k)' = Settled(k) /\ metrics' = metrics /\ pc' = pc
  <2>1. \A i \in DOMAIN chain : chain'[i] = chain[i]
    BY <1>5, LedgerAppends DEF CountInv
  <2>2. UNCHANGED <<events, metrics, pc, current>> /\ events \in SUBSET DOMAIN chain
    BY <1>5 DEF CloseLedger, cycle, CountInv
  <2> QED BY <2>1, <2>2 DEF Settled, Pending
<1>6. CASE UNCHANGED vars \/ NothingNew
  BY <1>6 DEF NothingNew, vars, chainVars, tables, cycle, Settled, Pending
<1> QED BY <1>1, <1>2, <1>3, <1>4, <1>5, <1>6 DEF Next, Poll

\* poller.ts: an event's metric is lost only with a cycle that is abandoned between
\* its insert and its count, and that is one event of the kind for each such cycle.
THEOREM IndexerLosesOnlyAborts == Spec => MetricsLoseOnlyAborts
<1> DEFINE Exact == \A k \in Counted :
                      Lost(k)' = Lost(k) + (IF AbandonedOn(k) THEN 1 ELSE 0)
<1>1. ASSUME CountInv, [Next]_vars, NEW k \in Counted
      PROVE  Lost(k)' = Lost(k) + (IF AbandonedOn(k) THEN 1 ELSE 0)
  <2> DEFINE more == IF AbandonedOn(k) THEN 1 ELSE 0
  <2>0. (AbandonedOn(k) => more = 1) /\ (~AbandonedOn(k) => more = 0)
    OBVIOUS
  <2> HIDE DEF more
  <2> SUFFICES Cardinality(Settled(k)') - metrics'[k] = Cardinality(Settled(k)) - metrics[k] + more
    BY DEF more, Lost
  <2>1. /\ Settled(k) \in SUBSET DOMAIN chain /\ events \in SUBSET DOMAIN chain
        /\ metrics[k] \in Nat
        /\ pc = "count" => current \in events
    BY <1>1 DEF CountInv, Settled
  <2>2. IsFiniteSet(Settled(k)) /\ Cardinality(Settled(k)) \in Nat
    BY <1>1, <2>1, PlacesFinite DEF CountInv
  <2>3. ASSUME pc = "count", current \in events, chain[current].kind = k,
               UNCHANGED <<chain, events>>, pc' # "count"
        PROVE  Cardinality(Settled(k)') = Cardinality(Settled(k)) + 1
    <3>1. current \notin Settled(k) /\ Settled(k)' = Settled(k) \cup {current}
      BY <2>3 DEF Settled, Pending
    <3> QED BY <2>2, <3>1, FS_AddElement
  <2>4. CASE CountMetric
    <3>1. /\ pc = "count" /\ pc' = "store" /\ UNCHANGED <<chain, events>>
          /\ metrics'[k] = metrics[k] + (IF chain[current].kind = k THEN 1 ELSE 0)
      BY <2>4 DEF CountMetric, Bump, chainVars
    <3>2. more = 0
      BY <2>0, <3>1 DEF AbandonedOn, Abort, EndCycle
    <3>3. CASE chain[current].kind = k
      BY <2>1, <2>2, <2>3, <3>1, <3>2, <3>3
    <3>4. CASE chain[current].kind # k
      <4>1. Settled(k)' = Settled(k)
        BY <3>1, <3>4 DEF Settled, Pending
      <4> QED BY <2>1, <2>2, <3>1, <3>2, <3>4, <4>1
    <3> QED BY <3>3, <3>4
  <2>5. CASE Abort
    <3>1. pc' = "idle" /\ UNCHANGED <<chain, events, metrics>>
      BY <2>5 DEF Abort, EndCycle, chainVars, tables
    <3>2. CASE AbandonedOn(k)
      <4>1. more = 1 /\ pc = "count" /\ chain[current].kind = k
        BY <2>0, <3>2 DEF AbandonedOn
      <4> QED BY <2>1, <2>2, <2>3, <3>1, <4>1
    <3>3. CASE ~AbandonedOn(k)
      <4>1. Settled(k)' = Settled(k)
        BY <2>5, <3>1, <3>3 DEF Settled, Pending, AbandonedOn
      <4>2. more = 0
        BY <2>0, <3>3
      <4> QED BY <2>1, <2>2, <3>1, <4>1, <4>2
    <3> QED BY <3>2, <3>3
  <2>6. CASE ~CountMetric /\ ~Abort
    <3>1. Settled(k)' = Settled(k) /\ metrics' = metrics
      BY <1>1, <2>6, SettledStands
    <3>2. more = 0
      BY <2>0, <2>6 DEF AbandonedOn
    <3> QED BY <2>1, <2>2, <3>1, <3>2
  <2> QED BY <2>4, <2>5, <2>6
<1>2. CountInv /\ [Next]_vars => [Exact]_vars
  BY <1>1
<1> QED BY <1>2, CountInvInit, CountInvStep, PTL DEF Spec, MetricsLoseOnlyAborts

-----------------------------------------------------------------------------
(* Gaps *)

\* the events a cycle has promised to store before it saves its cursor
InWindow(i) == start <= chain[i].ledger /\ chain[i].ledger <= reported

GapInv ==
  /\ ChainOK
  /\ pc \in Places /\ cursor \in Nat
  /\ pc \in {"store", "count"} =>
       \A i \in DOMAIN chain : InWindow(i) => i \in page \cup events
  /\ pc \in {"refresh", "upsert", "sample", "save"} =>
       \A i \in DOMAIN chain : InWindow(i) => i \in events
  /\ pc # "idle" => start <= cursor + 1 \/ skipped \/ cursor = 0
  /\ start \in Nat /\ reported \in Nat /\ reported <= ledger

\* what getEvents is asked for does not exceed what it returns at once
DueFits == pc = "fetch" => Cardinality(Due) <= Limit

\* Where everything due fits on one page, the page is everything due.
LEMMA OnePage ==
  ASSUME ChainOK, Cardinality(Due) <= Limit, NEW i \in Due
  PROVE  Cardinality({j \in Due : j < i}) < Limit
<1> DEFINE earlier == {j \in Due : j < i}
<1>1. IsFiniteSet(Due) /\ Cardinality(Due) \in Nat
  BY PlacesFinite DEF Due
<1>2. IsFiniteSet(Due \ {i}) /\ Cardinality(Due \ {i}) = Cardinality(Due) - 1
  BY <1>1, FS_RemoveElement
<1>3. earlier \in SUBSET (Due \ {i})
  <2>1. Due \in SUBSET Nat
    BY ChainPlaces DEF Due
  <2> QED BY <2>1
<1> HIDE DEF earlier
<1>4. Cardinality(earlier) <= Cardinality(Due) - 1 /\ Cardinality(earlier) \in Nat
  BY <1>2, <1>3, FS_Subset, FS_CardinalityType
<1>5. Limit \in Nat
  BY IndexerAssumption
<1> QED BY <1>1, <1>4, <1>5 DEF earlier

\* A step within a cycle that keeps what the cycle knows.
LEMMA GapFrame ==
  ASSUME GapInv, UNCHANGED <<chainVars, cursor, events, start, skipped, reported>>,
         pc # "idle", pc' \in {"refresh", "upsert", "sample", "save"},
         pc \in {"refresh", "upsert", "sample"} \/ (pc = "store" /\ page = {})
  PROVE  GapInv'
BY DEF GapInv, ChainOK, InWindow, Places, chainVars

\* Every step of poller, chain and faults keeps what the cycle promised.
LEMMA GapInvStep ==
  ASSUME DueFits, GapInv, [Next]_vars
  PROVE  GapInv'
<1>0. ASSUME UNCHANGED chainVars PROVE ChainOK'
  BY <1>0 DEF GapInv, ChainOK, chainVars
<1>1. CASE BeginPoll
  <2>1. /\ start' = StartLedger /\ skipped' = Skipped /\ pc' = "fetch"
        /\ UNCHANGED <<chainVars, cursor, reported>>
    BY <1>1 DEF BeginPoll, tables
  <2>2. cursor \in Nat /\ ledger \in Nat /\ Backfill \in Nat
    BY IndexerAssumption DEF GapInv, ChainOK
  <2>3. start' \in Nat /\ (~Behind => start' <= cursor + 1)
    BY <2>1, <2>2 DEF StartLedger, Behind, WindowStart
  <2>4. Behind /\ cursor # 0 => skipped'
    <3>1. cursor # 0 => cursor > 0
      BY <2>2
    <3> QED BY <2>1, <3>1, Zenon DEF Skipped
  <2> QED BY <1>0, <2>1, <2>3, <2>4 DEF GapInv, Places, chainVars
<1>2. CASE FetchPage
  <2>1. /\ page' = {i \in Due : Cardinality({j \in Due : j < i}) < Limit}
        /\ reported' = ledger /\ pc' = "store"
        /\ UNCHANGED <<chainVars, cursor, events, start, skipped>>
    BY <1>2 DEF FetchPage, tables
  <2>2. \A i \in DOMAIN chain : start <= chain[i].ledger => i \in page'
    <3>1. \A i \in DOMAIN chain : start <= chain[i].ledger => i \in Due
      <4>1. \A i \in DOMAIN chain : chain[i].ledger \in Nat
        BY EventLedger DEF GapInv
      <4> QED BY <4>1 DEF Due, GapInv
    <3>2. \A i \in Due : i \in page'
      BY <1>2, <2>1, OnePage DEF GapInv, DueFits, FetchPage
    <3> QED BY <3>1, <3>2
  <2>3. pc # "idle"
    BY <1>2 DEF FetchPage
  <2> QED BY <1>0, <2>1, <2>2, <2>3 DEF GapInv, ChainOK, InWindow, Places, chainVars
<1>3. CASE StoreNext
  <2>1. /\ page' = page \ {First(page)} /\ events' = events \cup {First(page)}
        /\ pc = "store" /\ pc' \in {"store", "count"}
        /\ UNCHANGED <<chainVars, cursor, start, skipped, reported>>
    BY <1>3 DEF StoreNext
  <2> QED BY <1>0, <2>1 DEF GapInv, InWindow, Places, chainVars
<1>4. CASE CountMetric
  <2>1. /\ pc = "count" /\ pc' = "store"
        /\ UNCHANGED <<chainVars, cursor, events, page, start, skipped, reported>>
    BY <1>4 DEF CountMetric
  <2> QED BY <1>0, <2>1 DEF GapInv, InWindow, Places, chainVars
<1>5. CASE PageDone
  BY <1>5, GapFrame DEF PageDone, tables
<1>6. ASSUME NEW u \in Users, ReadPosition(u) \/ ReadFails(u)
      PROVE  GapInv'
  BY <1>6, GapFrame DEF ReadPosition, ReadFails, tables
<1>7. CASE UpsertPosition
  BY <1>7, GapFrame DEF UpsertPosition
<1>8. CASE SampleSharePrice
  BY <1>8, GapFrame DEF SampleSharePrice
<1>9. CASE SaveCursor
  <2>1. /\ cursor' = reported /\ pc' = "idle" /\ start' = 0 /\ reported' = 0
        /\ UNCHANGED chainVars
    BY <1>9 DEF SaveCursor, EndCycle, LastSeen
  <2> QED BY <1>0, <2>1 DEF GapInv, ChainOK, Places, chainVars
<1>10. CASE Abort
  <2>1. /\ pc' = "idle" /\ start' = 0 /\ reported' = 0 /\ UNCHANGED <<chainVars, cursor>>
    BY <1>10 DEF Abort, EndCycle, tables
  <2> QED BY <1>0, <2>1 DEF GapInv, ChainOK, Places, chainVars
<1>11. ASSUME NEW batch \in Batches, CloseLedger(batch)
       PROVE  GapInv'
  <2>1. /\ ChainOK'
        /\ \A i \in DOMAIN chain : chain'[i] = chain[i]
        /\ \A i \in DOMAIN chain' \ DOMAIN chain : chain'[i].ledger = ledger + 1
    BY <1>11, LedgerAppends DEF GapInv
  <2>2. /\ ledger' = ledger + 1
        /\ UNCHANGED <<cursor, events, page, pc, start, skipped, reported>>
    BY <1>11 DEF CloseLedger, cycle
  <2>3. ledger \in Nat /\ reported \in Nat /\ reported <= ledger
    BY DEF GapInv, ChainOK
  <2>4. ASSUME NEW i \in DOMAIN chain', InWindow(i)'
        PROVE  i \in DOMAIN chain /\ InWindow(i)
    BY <2>1, <2>2, <2>3, <2>4 DEF InWindow
  <2>5. reported' <= ledger'
    BY <2>2, <2>3
  <2> QED BY <2>1, <2>2, <2>4, <2>5 DEF GapInv
<1>12. CASE UNCHANGED vars
  BY <1>12 DEF vars, chainVars, tables, cycle, GapInv, ChainOK, InWindow
<1>13. CASE NothingNew
  BY <1>12, <1>13 DEF NothingNew
<1> QED
  BY <1>1, <1>2, <1>3, <1>4, <1>5, <1>6, <1>7, <1>8, <1>9, <1>10, <1>11, <1>12, <1>13
     DEF Next, Poll

\* As long as no cycle has more events due than one page of getEvents holds,
\* the cursor never passes an event that was not stored without raising the
\* flag, wherever cycles are abandoned.  (Without that bound TLC finds the gap.)
THEOREM IndexerNeverGapsOnOnePage == Spec /\ []DueFits => NoSilentGap
<1>1. Init => GapInv
  BY ChainStarts DEF Init, GapInv, ChainOK, Places
<1>2. DueFits /\ GapInv /\ [Next]_vars => GapInv'
  BY GapInvStep
<1>3. ASSUME GapInv, [Next]_vars, NEW i \in DOMAIN chain,
             0 < cursor, cursor < chain[i].ledger, chain[i].ledger <= cursor'
      PROVE  i \in events \/ discontinuity'
  <2>1. chain[i].ledger \in Nat /\ cursor \in Nat
    BY <1>3, EventLedger DEF GapInv
  <2>2. cursor' # cursor
    BY <1>3, <2>1
  <2>3. SaveCursor
    BY <1>3, <2>2 DEF Next, Poll, BeginPoll, FetchPage, StoreNext, CountMetric, PageDone,
                      ReadPosition, ReadFails, UpsertPosition, SampleSharePrice, Abort,
                      CloseLedger, NothingNew, vars, tables
  <2>4. pc = "save" /\ cursor' = reported /\ discontinuity' = skipped
    BY <2>3 DEF SaveCursor, LastSeen
  <2>5. CASE skipped
    BY <2>4, <2>5
  <2>6. CASE start <= cursor + 1
    <3>1. InWindow(i)
      BY <1>3, <2>1, <2>4, <2>6 DEF InWindow, GapInv
    <3> QED BY <1>3, <2>4, <3>1 DEF GapInv
  <2> QED BY <1>3, <2>1, <2>4, <2>5, <2>6 DEF GapInv
<1>4. GapInv /\ [Next]_vars
        => [\A i \in DOMAIN chain :
              (0 < cursor /\ cursor < chain[i].ledger /\ chain[i].ledger <= cursor')
                => i \in events \/ discontinuity']_vars
  BY <1>3
<1> QED BY <1>1, <1>2, <1>4, PTL DEF Spec, NoSilentGap
=============================================================================
