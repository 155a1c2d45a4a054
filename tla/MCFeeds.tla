------------------------------ MODULE MCFeeds ------------------------------
\* Two venues, a rising and a crossed price; an archive in which one venue lacks
\* a minute; open interest that grew over the whole file, not at its end.
EXTENDS Feeds, TLC

CONSTANTS A, B
MCExchanges == {A, B}
MCInputs == {[px |-> 2, kind |-> "fit"], [px |-> 3, kind |-> "crossed"],
             [px |-> 2, kind |-> "one-sided"]}
MCArchive == (A :> {8, 9, 10}) @@ (B :> {8, 10})
MCOI == <<[min |-> 1, oi |-> 100], [min |-> 6, oi |-> 105], [min |-> 10, oi |-> 105]>>
=============================================================================
