-------------------------- MODULE MCCheckpointReplay --------------------------
EXTENDS CheckpointReplay, TLC
CONSTANTS p1, p2, c1, m1
MCPlaybacks == {p1, p2}
MCCached == {c1}
MCCounterfactuals == {m1}
MCExact == {"posted"}
MCVague == {"tool"}
Same == Permutations(MCPlaybacks)
=============================================================================
