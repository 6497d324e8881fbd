----------------------------- MODULE MissionPlan -----------------------------
(***************************************************************************)
(* Contract revisions and Mission Plan revisions as data (mission-plan.ts): *)
(* when a Plan stands, what a revision of the Contract invalidates, and     *)
(* what a join may consolidate.                                             *)
(*                                                                         *)
(* A Contract maps the requirements it may have to what they say, or to     *)
(* Absent; a digest of a requirement is what it says.  A Plan has nodes, a  *)
(* function from their ids to their records, and edges, pairs of ids.       *)
(***************************************************************************)
EXTENDS Naturals, FiniteSets

CONSTANT Absent   \* the Contract does not have the requirement

NodeKinds == {"task", "review", "diagnostic", "branch", "join"}

Inputs(edges, n) == {e[1] : e \in {x \in edges : x[2] = n}}
Present(content) == {r \in DOMAIN content : content[r] # Absent}

-----------------------------------------------------------------------------
(* createMissionPlanRevision                                               *)

\* normalizePlanNodes: a node names why it is there, by requirements that the
\* Contract has.
NodesStand(nodes, content) ==
  /\ DOMAIN nodes # {}
  /\ \A n \in DOMAIN nodes :
       /\ nodes[n].requirements # {}
       /\ nodes[n].requirements \subseteq Present(content)

\* normalizePlanEdges.
EdgesStand(nodes, edges) ==
  \A e \in edges : {e[1], e[2]} \subseteq DOMAIN nodes /\ e[1] # e[2]

\* validateDag: no set of nodes waits for itself.
Acyclic(nodes, edges) ==
  \A S \in (SUBSET DOMAIN nodes) \ {{}} : {n \in S : Inputs(edges, n) \cap S = {}} # {}

\* validateNodeShapes.
ShapesStand(nodes, edges) ==
  \A n \in DOMAIN nodes :
    /\ nodes[n].kind = "join" => Cardinality(Inputs(edges, n)) >= 2
    /\ nodes[n].kind \in {"review", "diagnostic", "branch"} => Inputs(edges, n) # {}

\* validateWorkspaceIsolation: no two nodes write into one workspace.
Isolated(nodes) ==
  \A n, m \in DOMAIN nodes : n # m => nodes[n].writes \cap nodes[m].writes = {}

PlanStands(nodes, edges, content) ==
  /\ NodesStand(nodes, content)
  /\ Isolated(nodes)
  /\ EdgesStand(nodes, edges)
  /\ Acyclic(nodes, edges)
  /\ ShapesStand(nodes, edges)

-----------------------------------------------------------------------------
(* createContractRevision, analyzeSelectiveInvalidation                    *)

\* changedIds, requirementSemanticDigest.
ChangedRequirements(old, new) == {r \in DOMAIN old : old[r] # new[r]}

\* The nodes a revision touches by a requirement or an authority scope, ...
Direct(nodes, changed, scopes) ==
  {n \in DOMAIN nodes : \/ nodes[n].requirements \cap changed # {}
                        \/ nodes[n].scopes \cap scopes # {}}

\* Mutant: what builds on a touched node is left alone.
TouchedOnly(nodes, edges, D) == D

\* ... and everything downstream of them (downstreamClosure): what no set that has
\* the targets of its edges, and them, is without.
Downstream(nodes, edges, D) ==
  LET closed == {S \in SUBSET DOMAIN nodes :
                   D \subseteq S /\ \A e \in edges : e[1] \in S => e[2] \in S}
  IN {n \in DOMAIN nodes : \A S \in closed : n \in S}

\* What an artifact was made from: the one it was adopted from, or what a join
\* joined.  What a work node builds on is not among its sources.
Sources(a, nodes, edges, artifacts) ==
  IF a.rev > a.origin
    THEN {b \in artifacts : b.node = a.node /\ b.origin = a.origin /\ b.rev + 1 = a.rev}
    ELSE IF nodes[a.node].kind = "join"
      THEN {b \in artifacts : b.rev = a.rev /\ b.node \in Inputs(edges, a.node)}
      ELSE {}

\* Artifacts of an older revision, unverified ones, those of a touched node,
\* and those made from any of them.
InvalidArtifacts(nodes, edges, artifacts, rev, direct) ==
  LET present == {a \in artifacts : a.rev = rev}
      spoilt  == {a \in present : ~a.passed \/ a.node \in direct}
                 \cup (artifacts \ present)
      closed  == {S \in SUBSET present :
                    \A a \in present :
                      Sources(a, nodes, edges, artifacts) \cap (spoilt \cup S) # {} =>
                        a \in spoilt \cup S}
  IN {a \in artifacts : \A S \in closed : a \in spoilt \cup S}

\* What the log says of the revision that follows rev.
Invalidation(nodes, edges, old, new, scopes, artifacts, rev) ==
  LET changed == ChangedRequirements(old, new)
      direct  == Direct(nodes, changed, scopes)
      invalid == Downstream(nodes, edges, direct)
  IN [nodes     |-> invalid,
      reusable  |-> {a \in artifacts \ InvalidArtifacts(nodes, edges, artifacts, rev, direct) :
                       a.node \notin invalid},
      unplanned |-> changed \ UNION {nodes[n].requirements : n \in DOMAIN nodes}]

-----------------------------------------------------------------------------
(* planConsolidationAttempt                                                *)

\* normalizeConsolidationSources: a source is an artifact of this Plan revision,
\* by a node that the revision has.
SourcesStand(nodes, sources, rev) == \A a \in sources : a.rev = rev /\ a.node \in DOMAIN nodes

\* hasPassedVerifier: passing evidence about the artifact as it is.
Passed(artifacts) == {a \in artifacts : a.passed}

\* Why a join may not start, or "none".  conflicts are those unresolved,
\* granted the scopes with an explicit authority.
ConsolidationBlocker(nodes, edges, join, sources, conflicts, granted) ==
  CASE \/ Cardinality(sources) < 2
       \/ ~(Inputs(edges, join) \subseteq {a.node : a \in sources}) -> "JOIN_INPUT_MISSING"
    [] sources # Passed(sources)        -> "SOURCE_VERIFICATION_REQUIRED"
    [] conflicts # {}                    -> "UNRESOLVED_INTEGRATION_CONFLICT"
    [] ~(nodes[join].scopes \subseteq granted) -> "EXPLICIT_AUTHORITY_REQUIRED"
    [] OTHER                             -> "none"
=============================================================================
