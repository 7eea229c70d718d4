--------------------------- MODULE MCLoweredExec ---------------------------
EXTENDS LoweredExec
=============================================================================
