------------------------------ MODULE Indexer ------------------------------
(***************************************************************************)
(* services/indexer/src/poller.ts over the tables of db.ts: a loop that    *)
(* asks the RPC for the contract events since the persisted cursor, stores *)
(* them, derives metrics and position snapshots, and saves the cursor.     *)
(*                                                                         *)
(* Every database statement and RPC call is an await of its own, and any   *)
(* of them may throw or the process may die: the cycle is then abandoned,  *)
(* its local variables are lost, and the loop starts over from the cursor. *)
(* Of the share price, which may move with every ledger, the module keeps  *)
(* whether the last sample is of the latest ledger.                        *)
(*                                                                         *)
(* The chain is external: ledgers close with a batch of events each, and   *)
(* an event is known by its place in the chain, which stands for its       *)
(* unique key (ledger, tx_hash, event_index).                              *)
(***************************************************************************)
EXTENDS Integers, Sequences, FiniteSets

CONSTANTS
  Users, Kinds,
  Counted,              \* METRIC_BY_TOPIC and "liquidated"
  Touching,             \* POSITION_TOPICS
  Limit,                \* events per getEvents page (200)
  Backfill,             \* BACKFILL_LEDGERS
  MaxLedger, MaxBatch,  \* bounds on the chain
  MaxFaults             \* bound on abandoned cycles and failed reads

ASSUME IndexerAssumption ==
  /\ Counted \subseteq Kinds /\ Touching \subseteq Kinds
  /\ Limit \in Nat \ {0} /\ Backfill \in Nat
  /\ MaxLedger \in Nat /\ MaxBatch \in Nat /\ MaxFaults \in Nat

VARIABLES
  chain, ledger,            \* events so far, latest ledger sequence
  cursor, discontinuity,    \* table cursor
  events, metrics, snap,    \* tables events, metrics_daily, positions_snapshot
  sample,                   \* table share_price_series: its last row is of this ledger
  pc, start, skipped,       \* the cycle's local state: where it is,
  page, reported,           \*   the response of getEvents,
  current, touched, pos,    \*   the event in hand, accounts to refresh, a read
  faults                    \* cycles abandoned and reads failed so far

chainVars == <<chain, ledger>>
tables    == <<cursor, discontinuity, events, metrics, snap, sample>>
cycle     == <<pc, start, skipped, page, reported, current, touched, pos>>
vars      == <<chainVars, tables, cycle, faults>>

\* a position's state on chain, as the number of events that changed it
Version(u) == Cardinality({i \in DOMAIN chain : chain[i].user = u /\ chain[i].kind \in Touching})

-----------------------------------------------------------------------------
(* The chain *)

Batches == UNION {[1..n -> Kinds \X Users] : n \in 0..MaxBatch}

CloseLedger(batch) ==
  /\ ledger < MaxLedger
  /\ ledger' = ledger + 1 /\ sample' = FALSE
  /\ chain' = chain \o [i \in DOMAIN batch |->
                          [ledger |-> ledger + 1, kind |-> batch[i][1], user |-> batch[i][2]]]
  /\ UNCHANGED <<cursor, discontinuity, events, metrics, snap, cycle, faults>>

-----------------------------------------------------------------------------
(* One cycle of pollOnce *)

\* the cursor was lost, or has fallen behind the window the RPC retains
Behind == cursor + 1 < ledger - Backfill

WindowStart == IF ledger - Backfill >= 1 THEN ledger - Backfill ELSE 1

\* mutant: resume at the cursor's own ledger plus two
StartPastNext == IF Behind THEN WindowStart ELSE cursor + 2

StartLedger == IF Behind THEN WindowStart ELSE cursor + 1

\* mutant: falling behind is never reported
SkippedSilently == FALSE

\* a first start is not a discontinuity
Skipped == Behind /\ cursor > 0

BeginPoll ==
  /\ pc = "idle"
  /\ StartLedger <= ledger
  /\ start' = StartLedger
  /\ skipped' = Skipped
  /\ pc' = "fetch"
  /\ UNCHANGED <<chainVars, tables, page, reported, current, touched, pos, faults>>

NothingNew ==
  /\ pc = "idle"
  /\ StartLedger > ledger
  /\ UNCHANGED vars

Due == {i \in DOMAIN chain : chain[i].ledger >= start}

\* the oldest Limit of the events due, and the latest ledger at that moment
FetchPage ==
  /\ pc = "fetch"
  /\ page' = {i \in Due : Cardinality({j \in Due : j < i}) < Limit}
  /\ reported' = ledger
  /\ pc' = "store"
  /\ UNCHANGED <<chainVars, tables, start, skipped, current, touched, pos, faults>>

First(s) == CHOOSE i \in s : \A j \in s : i <= j

NewRow(i) == i \notin events

\* INSERT ... ON CONFLICT DO NOTHING; a row already there is passed over
StoreNext ==
  /\ pc = "store" /\ page # {}
  /\ page' = page \ {First(page)}
  /\ events' = events \cup {First(page)}
  /\ IF NewRow(First(page)) THEN current' = First(page) /\ pc' = "count" ELSE UNCHANGED <<current, pc>>
  /\ UNCHANGED <<chainVars, cursor, discontinuity, metrics, snap, sample, start, skipped,
                 reported, touched, pos, faults>>

\* mutant: the row of the day inserted, never updated
BumpOnce(kind) == [k \in Counted |-> IF k = kind THEN 1 ELSE metrics[k]]

Bump(kind) == [k \in Counted |-> metrics[k] + (IF k = kind THEN 1 ELSE 0)]

CountMetric ==
  LET e == chain[current]
  IN /\ pc = "count"
     /\ metrics' = Bump(e.kind)
     /\ touched' = IF e.kind \in Touching THEN touched \cup {e.user} ELSE touched
     /\ pc' = "store" /\ current' = 0
     /\ UNCHANGED <<chainVars, cursor, discontinuity, events, snap, sample, start, skipped, page,
                    reported, pos, faults>>

PageDone ==
  /\ pc = "store" /\ page = {}
  /\ pc' = IF touched = {} THEN "sample" ELSE "refresh"
  /\ UNCHANGED <<chainVars, tables, start, skipped, page, reported, current, touched, pos, faults>>

\* positionOf, then the upsert of what it answered
ReadPosition(u) ==
  /\ pc = "refresh" /\ u \in touched
  /\ pos' = [user |-> u, version |-> Version(u)]
  /\ touched' = touched \ {u}
  /\ pc' = "upsert"
  /\ UNCHANGED <<chainVars, tables, start, skipped, page, reported, current, faults>>

ReadFails(u) ==
  /\ pc = "refresh" /\ u \in touched
  /\ faults < MaxFaults
  /\ faults' = faults + 1
  /\ touched' = touched \ {u}
  /\ pc' = IF touched = {u} THEN "sample" ELSE "refresh"
  /\ UNCHANGED <<chainVars, tables, start, skipped, page, reported, current, pos>>

\* mutant: an existing row is left as it is
UpsertOnce(old, new) == IF old = 0 THEN new ELSE old

Upsert(old, new) == new

UpsertPosition ==
  /\ pc = "upsert"
  /\ snap' = [snap EXCEPT ![pos.user] = Upsert(@, pos.version)]
  /\ pos' = <<>>
  /\ pc' = IF touched = {} THEN "sample" ELSE "refresh"
  /\ UNCHANGED <<chainVars, cursor, discontinuity, events, metrics, sample, start, skipped, page,
                 reported, current, touched, faults>>

\* the read and the insert share one try: a halted oracle, too, costs a sample
SampleSharePrice ==
  /\ pc = "sample"
  /\ \/ sample' = TRUE /\ UNCHANGED faults
     \/ faults < MaxFaults /\ faults' = faults + 1 /\ UNCHANGED sample
  /\ pc' = "save"
  /\ UNCHANGED <<chainVars, cursor, discontinuity, events, metrics, snap, start, skipped,
                 page, reported, current, touched, pos>>

\* the cycle's local variables are gone
EndCycle == pc' = "idle" /\ start' = 0 /\ skipped' = FALSE /\ page' = {} /\ reported' = 0
              /\ current' = 0 /\ touched' = {} /\ pos' = <<>>

LastSeen == reported

SaveCursor ==
  /\ pc = "save"
  /\ cursor' = LastSeen
  /\ discontinuity' = skipped
  /\ EndCycle
  /\ UNCHANGED <<chainVars, events, metrics, snap, sample, faults>>

\* a call throws, or the process dies and is started again
Abort ==
  /\ pc # "idle"
  /\ faults < MaxFaults
  /\ faults' = faults + 1
  /\ EndCycle
  /\ UNCHANGED <<chainVars, tables>>

-----------------------------------------------------------------------------
Init ==
  /\ chain = <<>> /\ ledger = 1
  /\ cursor = 0 /\ discontinuity = FALSE
  /\ events = {} /\ metrics = [k \in Counted |-> 0] /\ snap = [u \in Users |-> 0]
  /\ sample = FALSE
  /\ pc = "idle" /\ start = 0 /\ skipped = FALSE
  /\ page = {} /\ reported = 0 /\ current = 0 /\ touched = {} /\ pos = <<>>
  /\ faults = 0

Poll ==
  \/ BeginPoll \/ FetchPage \/ StoreNext \/ CountMetric \/ PageDone
  \/ \E u \in Users : ReadPosition(u) \/ ReadFails(u)
  \/ UpsertPosition \/ SampleSharePrice \/ SaveCursor

Next == Poll \/ NothingNew \/ Abort \/ \E batch \in Batches : CloseLedger(batch)

\* the loop never exits: after a cycle, failed or not, it sleeps and polls again
Fairness == WF_vars(Poll)

Spec == Init /\ [][Next]_vars /\ Fairness

-----------------------------------------------------------------------------
(* Properties *)

Stored(k) == {i \in events : chain[i].kind = k}

\* Whenever the cursor moves over a ledger, that ledger's events are stored,
\* or the discontinuity flag is raised in the same statement; only a first
\* start may begin after the chain's beginning without a flag (db.ts:56, the
\* persisted cursor never gaps).
NoSilentGap ==
  [][\A i \in DOMAIN chain :
       (0 < cursor /\ cursor < chain[i].ledger /\ chain[i].ledger <= cursor')
         => i \in events \/ discontinuity']_vars

\* What a cycle abandoned between the insert and the metric loses is lost for
\* good, since the row is there the next time: that one event of that kind for
\* each such cycle, and nothing by any other step.  Nor does any step make up
\* for it, or count an event again that an abandoned page had stored.
Pending == IF pc = "count" THEN {current} ELSE {}
Settled(k) == {i \in events \ Pending : chain[i].kind = k}
Lost(k) == Cardinality(Settled(k)) - metrics[k]
AbandonedOn(k) == Abort /\ pc = "count" /\ chain[current].kind = k
MetricsLoseOnlyAborts ==
  [][\A k \in Counted : Lost(k)' = Lost(k) + (IF AbandonedOn(k) THEN 1 ELSE 0)]_vars

\* However often cycles are abandoned and pages fetched again, no event is
\* counted twice in metrics_daily (db.ts: no duplicate rows on restart).
\* MetricsLoseOnlyAborts says more, since at the start nothing is lost.
MetricsNeverOvercount == \A k \in Counted : metrics[k] <= Cardinality(Stored(k))

\* While the chain stays inside the retention window, and what is due fits one
\* page, every event is eventually stored, whatever finite number of cycles fail
\* half way.
EveryEventIndexed ==
  <>Behind \/ \A i \in 1..(MaxLedger * MaxBatch) : (i \in DOMAIN chain) ~> (i \in events)

\* Unless a cycle was abandoned, a read failed or the chain left the window,
\* what /positions/at-risk is computed from ends up as the chain has it: every
\* position's snapshot, although each is read before an await and written after
\* it while the chain goes on, and the sample of the price.
SnapshotsCatchUp ==
  <>(faults > 0) \/ <>Behind
    \/ <>[](sample /\ \A u \in Users : snap[u] = Version(u))

=============================================================================
