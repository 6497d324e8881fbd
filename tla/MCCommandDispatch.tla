------------------------- MODULE MCCommandDispatch -------------------------
EXTENDS CommandDispatch
=============================================================================
