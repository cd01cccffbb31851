------------------------------ MODULE Balances ------------------------------
(***************************************************************************)
(* Sums over account books.  Total(f) counts the units recorded in f one   *)
(* by one, as pairs <<account, i>>, instead of adding them up recursively: *)
(* both give the same number (MCVault compares them), and the provers can  *)
(* reason about a cardinality where they cannot about a recursive sum.     *)
(***************************************************************************)
EXTENDS Integers, FiniteSets

Slots(x, I) == {<<x, i>> : i \in I}

Units(f) == UNION {Slots(x, 1..f[x]) : x \in DOMAIN f}

Total(f) == Cardinality(Units(f))

\* moving n units from one account to another, `to` re-read after `from` is
\* written, so that from = to leaves the book unchanged
Credit(f, x, n) == [f EXCEPT ![x] = @ + n]
Debit(f, x, n)  == [f EXCEPT ![x] = @ - n]

\* mutant: both balances read before either is written
MoveFromStale(f, from, to, n) ==
  [[f EXCEPT ![from] = f[from] - n] EXCEPT ![to] = f[to] + n]

Move(f, from, to, n) == Credit(Debit(f, from, n), to, n)
=============================================================================
