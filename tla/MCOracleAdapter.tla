-------------------------- MODULE MCOracleAdapter --------------------------
(***************************************************************************)
(* A small instance of the adapter, with a history variable: `via` is the  *)
(* source the last accepted NAV was read from and the decimals it was read *)
(* at, or Admin if it was planted.                                         *)
(***************************************************************************)
EXTENDS OracleAdapter

CONSTANT Admin

\* a source may quote a negative price; 10 and 1020 give the same NAV as 100
\* and 102 at other decimals
SomePrices == {-10, 10, 100, 102, 1020}

VARIABLE via

\* what a price means: whose it is, and at which scale
Regime == [source |-> feed.source, decimals |-> feed.decimals]

Overridden == \E nav \in Overrides : AcceptOverride(nav)

TrackVia == via' = IF GetNav THEN Regime ELSE IF Overridden THEN Admin ELSE via

HistInit == AdapterInit /\ via = Regime

HistSpec == HistInit /\ [][AdapterNext /\ TrackVia]_<<adapterVars, via>>

\* The NAV a new observation is compared with was read from the source now
\* configured, at the decimals now configured, or planted by the admin: no price
\* of a replaced source, or of a scale since corrected, ever decides whether the
\* next one is believed (configure_feed).
ComparedWithinRegime == last # NoNav => via \in {Regime, Admin}
=============================================================================
