----------------------------- MODULE MCDispatch -----------------------------
EXTENDS Dispatch
=============================================================================
