---------------------------- MODULE BlendAdapter ----------------------------
(***************************************************************************)
(* contracts/blend-price-adapter: the price oracle of a Blend pool, over   *)
(* the vault and the NAV adapter behind it.  lastprice asks the vault's    *)
(* share_price, which asks get_nav, which records what it answers: a read  *)
(* by the pool is a write two contracts further down.  It is the only      *)
(* caller that goes on when a nested call fails (try_share_price): that    *)
(* call alone is rolled back, and the pool is told None.                   *)
(*                                                                         *)
(* External: the Blend pool, which may ask for any asset at any time.      *)
(***************************************************************************)
EXTENDS PricedVault

CONSTANTS
  Assets,          \* assets of the pool's reserves
  Pins,            \* prices an admin may pin an asset to
  NoSrc, VaultSrc  \* absent source; Source::Vault of the one vault

ASSUME BlendAssumption == Pins \subseteq Int /\ NoSrc # VaultSrc

VARIABLES blendAdmin, src    \* DataKey::Admin is set; DataKey::Src

blendVars == <<blendAdmin, src>>
allVars == <<vars, blendVars>>

-----------------------------------------------------------------------------
\* share_price returns; its price may have floored to zero
SharePriceReturns ==
  /\ V!Nav > 0 /\ V!PoolValueFits
  /\ Fits((V!PoolValue + VIRT) * SCALE)

\* what lastprice answers, 0 for None
BlendPrice(a) ==
  CASE src[a] = NoSrc    -> 0
    [] src[a] = VaultSrc -> IF SharePriceReturns THEN V!SharePrice ELSE 0
    [] OTHER             -> src[a]

\* the one entry point of the read surface with an effect
BlendLastprice(a) ==
  /\ src[a] = VaultSrc
  /\ SharePriceReturns
  /\ GetNav
  /\ UNCHANGED <<books, blendVars>>

InitBlend ==
  /\ ~blendAdmin
  /\ blendAdmin' = TRUE
  /\ UNCHANGED <<vars, src>>

StoreSource(a, s) ==
  /\ blendAdmin
  /\ src' = [src EXCEPT ![a] = s]
  /\ UNCHANGED <<vars, blendAdmin>>

Pinnable(p) == p > 0

SetVaultSource(a) == StoreSource(a, VaultSrc)
SetFixedSource(a, p) == Pinnable(p) /\ StoreSource(a, p)
RemoveSource(a) == StoreSource(a, NoSrc)

-----------------------------------------------------------------------------
BlendInit ==
  /\ PricedInit
  /\ blendAdmin = FALSE /\ src = [a \in Assets |-> NoSrc]

BlendNext ==
  \/ PricedNext /\ UNCHANGED blendVars
  \/ InitBlend
  \/ \E a \in Assets : SetVaultSource(a)
  \/ \E a \in Assets, p \in Pins : SetFixedSource(a, p)
  \/ \E a \in Assets : RemoveSource(a)
  \/ \E a \in Assets : BlendLastprice(a)

BlendSpec == BlendInit /\ [][BlendNext]_allVars

-----------------------------------------------------------------------------
(* Properties *)

\* "The halt propagates", and it is the pool's own reads that must not end it:
\* whatever the pool asks, in whatever order and how often, it gets the same
\* answers as if it had not asked.  Two reserves on one vault, or one read
\* twice in a borrow, agree, and None stays None.
PoolReadsAgree ==
  [][(\E a \in Assets : BlendLastprice(a)) =>
       \A b \in Assets : BlendPrice(b)' = BlendPrice(b)]_allVars

\* An answer is stamped with the time of the read, so the pool's own staleness
\* check never fires.  What stands in for it: the NAV under a vault-priced
\* answer was observed no longer ago than the feed's bound, and not in the
\* future.
StampHidesBoundedAge ==
  \A a \in Assets :
    (src[a] = VaultSrc /\ BlendPrice(a) > 0) => now - Observed.timestamp \in 0..feed.maxAge
=============================================================================
