--------------------------- MODULE MCTicker ---------------------------
(* Constants of Ticker and FeaturedAssets for TLC. *)
EXTENDS Ticker

\* The seeded order is not the alphabetical one.
TwoDefaults  == (1 :> 2) @@ (2 :> 1)
=============================================================================
