----------------------------- MODULE MCStorage -----------------------------
(* A queue of a few rows, which the engine can fill.                       *)
EXTENDS Storage, TLC
=============================================================================
