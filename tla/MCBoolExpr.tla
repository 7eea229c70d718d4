----------------------------- MODULE MCBoolExpr -----------------------------
EXTENDS BoolExprLowering
=============================================================================
