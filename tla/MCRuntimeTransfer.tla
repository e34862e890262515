------------------------- MODULE MCRuntimeTransfer --------------------------
\* Instances of RuntimeTransfer for TLC.
EXTENDS RuntimeTransfer
=============================================================================
