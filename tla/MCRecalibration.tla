-------------------------- MODULE MCRecalibration --------------------------
\* One pair, of the coin whose file is modelled.
EXTENDS Recalibration

CONSTANT P
MCPairs == {P}
MCLocal == {P}
=============================================================================
