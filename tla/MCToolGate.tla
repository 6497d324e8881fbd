----------------------------- MODULE MCToolGate -----------------------------
EXTENDS ToolGate, TLC

\* Tool invocations are interchangeable.
Symmetry == Permutations(Gates)
=============================================================================
