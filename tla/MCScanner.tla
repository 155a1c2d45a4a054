----------------------------- MODULE MCScanner -----------------------------
(* Symbols in the order of the catalogue.                                  *)
EXTENDS Scanner, TLC

CONSTANTS ada, btc

OneSymbol == <<btc>>
TwoSymbols == <<ada, btc>>

Symmetry == Permutations(Trades) \cup Permutations(Exchanges)
=============================================================================
