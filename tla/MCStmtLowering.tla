--------------------------- MODULE MCStmtLowering ---------------------------
EXTENDS StmtLowering
=============================================================================
