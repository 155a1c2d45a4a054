------------------------------- MODULE MCOBI -------------------------------
\* Two symbols, one moving up and one moving down at the lead venue; a third
\* book of the lead is not lopsided enough.
EXTENDS OBI

CONSTANTS A, B
MCSymbols == {A, B}
MCMoves == {[sym |-> A, bids |-> 4, asks |-> 1, mid |-> 8],
            [sym |-> B, bids |-> 1, asks |-> 4, mid |-> 2],
            [sym |-> B, bids |-> 1, asks |-> 3, mid |-> 1]}
\* higher, lower, without asks
MCBooks == {[sym |-> A, bid |-> 3, ask |-> 4], [sym |-> A, bid |-> 1, ask |-> 2],
            [sym |-> A, bid |-> 3, ask |-> 0],
            [sym |-> B, bid |-> 3, ask |-> 4], [sym |-> B, bid |-> 1, ask |-> 2]}
=============================================================================
