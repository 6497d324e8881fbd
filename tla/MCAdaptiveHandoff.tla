-------------------------- MODULE MCAdaptiveHandoff --------------------------
EXTENDS AdaptiveHandoff

CONSTANTS c1, e1

\* Codex that may write, Qoder that may too, and a Claude with a budget too
\* small for a capsule that names two Effects.
MCPlan ==
  LET stage(harness, onFailure, writes, budget) ==
        [harness |-> harness, onFailure |-> onFailure, gate |-> {}, writes |-> writes,
         hosted |-> FALSE, budget |-> budget]
  IN  << stage("codex", "handoff", {"workspace-write"}, 3),
         stage("qoder", "handoff", {"workspace-write"}, 9),
         stage("claude", "stop", {"workspace-write"}, 3) >>
=============================================================================
