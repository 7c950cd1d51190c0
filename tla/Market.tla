------------------------------- MODULE Market -------------------------------
(***************************************************************************)
(* What the server and the traders have in common: the tickers there are.  *)
(***************************************************************************)
EXTENDS FiniteSets

CONSTANT Ticker

ASSUME TickerAssumption == IsFiniteSet(Ticker)
=============================================================================
