----------------------------- MODULE MCWorkbench -----------------------------
EXTENDS Workbench

CONSTANTS m1, m2

\* The second Mission may be created from the page.
MCOpenings == {{m1}, {m1, m2}}
=============================================================================
