---------------------------- MODULE MCMissionRun ----------------------------
EXTENDS MissionRun, TLC

\* Controllers are interchangeable.
Symmetry == Permutations(Controllers)
=============================================================================
