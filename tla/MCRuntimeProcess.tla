------------------------- MODULE MCRuntimeProcess -------------------------
EXTENDS RuntimeProcess

(* A stage whose output is compacted, one that takes over with a capsule,  *)
(* and a detection.                                                        *)
MCTasks ==
  {[adapter |-> "claude", probe |-> FALSE, capsule |-> FALSE],
   [adapter |-> "codex", probe |-> FALSE, capsule |-> TRUE],
   [adapter |-> "qoder", probe |-> TRUE, capsule |-> FALSE]}
=============================================================================
