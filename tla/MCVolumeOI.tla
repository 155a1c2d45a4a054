----------------------------- MODULE MCVolumeOI -----------------------------
(* Ticks wide enough for a trailing stop to move twice before the take-    *)
(* profit, and time for a run of losses, its pause and an order after it.  *)
EXTENDS VolumeOI

SmallOffsets == {-3, -2, 0, 2, 3, 4}
NarrowQuotes == {q \in SmallOffsets \X SmallOffsets : q[1] - q[2] \in -2..2}
=============================================================================
