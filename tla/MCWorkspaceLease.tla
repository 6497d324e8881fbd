-------------------------- MODULE MCWorkspaceLease --------------------------
EXTENDS WorkspaceLease, TLC

\* Owners are interchangeable: no action or property names one.
Symmetry == Permutations(Owners)
=============================================================================
