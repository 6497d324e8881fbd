------------------------- MODULE MCOutcomeRegression -------------------------
EXTENDS OutcomeRegression
CONSTANTS r1, p1, c1, k1
MCReruns == {r1}
MCPlain == {p1}
MCCriteria == {c1}
MCClients == {k1}
MCLookAfter == {"receipt"}
=============================================================================
