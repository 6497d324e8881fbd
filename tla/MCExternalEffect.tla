-------------------------- MODULE MCExternalEffect --------------------------
EXTENDS ExternalEffect, TLC

\* Controllers differ only in the order they come and go.
Symmetry == Permutations(Controllers)
=============================================================================
