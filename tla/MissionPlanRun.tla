--------------------------- MODULE MissionPlanRun ---------------------------
(***************************************************************************)
(* Execution of a Mission Plan DAG while its Contract is being revised     *)
(* (engine.ts, mission-plan.ts).  One run at a time, under the workspace   *)
(* lease, dispatches every ready node to an Agent of its own, waits for    *)
(* all of them, and consolidates their artifacts in a join.  Revisions     *)
(* arrive between any two awaits of the run and under the run's own fence. *)
(*                                                                         *)
(* A step of a node is what its async function does between two awaits.    *)
(* What a run that ended leaves behind is refused by the fence             *)
(* (WorkspaceLease), so the Agents it abandoned write nothing any more.    *)
(***************************************************************************)
EXTENDS MissionDraft

CONSTANTS Forms,         \* what people fill in on the page: a sequence
          Bodies,        \* requests sent without the page: a sequence
          Runtimes,      \* sets of Runtimes and Adapters that may be ready
          Spare,         \* requirements that a later Contract may add
          Edits,         \* what a revision may change: [texts, a set of
                         \* <<requirement, text>>, scopes, those of an authority,
                         \* verifiers: another criterion or another command]
          MaxRevisions,  \* bound on Contract revisions
          MaxRuns        \* bound on runs of the Plan

\* What is made of the fields of a form is no mark.
Unmarked(form) ==
  /\ Verifier(form, form.args) # None /\ PageCriteria(form) # None /\ PagePlan(form) # None
  /\ <<form.a.requirement, form.b.requirement>> # None
  /\ Absent \notin {form.objective, form.a.requirement, form.b.requirement}

\* The page sends nothing else.
ASSUME FormAssumption ==
  /\ Forms \in Seq(Range(Forms)) /\ Bodies \in Seq(Range(Bodies))
  /\ \A i \in DOMAIN Forms : PageSends(Forms[i]) /\ Unmarked(Forms[i])

Requests == [i \in DOMAIN Forms |-> Payload(Forms[i])] \o Bodies

\* The nodes of a request are a list.
ASSUME PlanAssumption ==
  /\ \A i \in DOMAIN Requests : Requests[i].plan # None =>
       Requests[i].plan.nodes \in Seq(Range(Requests[i].plan.nodes))
  /\ MaxRevisions \in Nat \ {0}

VARIABLES creation,   \* the last request to create the Mission: [request, status]
          mission,    \* the Mission: the nodes and edges its Plan begins with
          revisions,  \* Contract and Plan revisions, committed pairwise
          artifacts,  \* artifacts in the log: [node, rev, origin, passed], passed if
              \* there is evidence for it
          stranded,   \* an ended run has left an Attempt, its Effect intended, open
          past,       \* Attempts of the newest Plan revision that no run has any
                      \* more: nodes with an open, a failed, an ended one; and those
              \* that succeeded without evidence among the ended
          receipt,    \* the newest receipt: revision and joined artifacts
          run,        \* where executeMissionPlan is, "none" without a run
          view,       \* the revision its current round has read
          step,       \* step[n]: where the Attempt of node n is
          runs,       \* how often the Plan was run
          fenced      \* nodes whose Attempt a revision has asked to stop

log == <<creation, mission, revisions, artifacts, stranded, past, receipt>>
vars == <<log, run, view, step, runs, fenced>>

Steps == {"none", "detecting", "integrating", "running", "verifying",
          "sealing", "settled", "receipt", "done", "failed", "abandoned"}
\* From attempt.started to attempt.finished.
Bound == {"integrating", "running", "verifying", "sealing"}
Ended == {"none", "done", "failed", "abandoned"}

Nothing == [open |-> {}, failed |-> {}, ended |-> {}]

Init ==
  /\ creation = [request |-> 0, status |-> 0]
  /\ mission = [nodes |-> <<>>, edges |-> {}]
  /\ revisions = <<>>
  /\ artifacts = {}
  /\ stranded = FALSE
  /\ past = Nothing
  /\ receipt = [rev |-> 0, joined |-> {}]
  /\ run = "none"
  /\ view = 0
  /\ step = <<>>
  /\ runs = 0
  /\ fenced = {}

-----------------------------------------------------------------------------
(* The Mission.                                                            *)

\* The requirements that the Mission has or may be given.
Contract(spec) ==
  [r \in RequirementIds(spec) \cup Spare |->
     IF r \in RequirementIds(spec) THEN FirstContract(spec)[r] ELSE Absent]

Exists == creation.status \in Created

TypeOK ==
  /\ creation \in [request : 0..Len(Requests), status : {0, 201, 202, 400, 409, 500}]
  /\ Len(revisions) \in 0..MaxRevisions /\ view \in 0..Len(revisions)
  /\ \A a \in artifacts : a.node \in DOMAIN step /\ a.passed \in BOOLEAN
  /\ stranded \in BOOLEAN /\ run \in {"none", "loop", "round", "join"}
  /\ \A n \in DOMAIN step : step[n] \in Steps
  /\ fenced \subseteq DOMAIN step

\* The Mission has an explicit Plan, and may be run.
Planned == creation.status = 201
Plan == mission.nodes
Edges == mission.edges
Nodes == DOMAIN Plan
Work == {n \in Nodes : Plan[n].kind # "join"}
Join == CHOOSE n \in Nodes : Plan[n].kind = "join"

\* create: the first Contract and Plan are in the batch that makes the Mission.
CreateMission ==
  /\ ~Exists
  /\ \E i \in DOMAIN Requests, ready \in Runtimes :
       LET status == Answer(Requests[i], ready)
           spec   == Resolved(Document(Requests[i]))
           nodes  == FirstNodes(spec)
       IN /\ creation' = [request |-> i, status |-> status]
          /\ IF status \in Created
               THEN /\ mission' = [nodes |-> nodes, edges |-> FirstEdges(spec)]
                    /\ revisions' = <<[content |-> Contract(spec),
                                       owns |-> [n \in DOMAIN nodes |-> nodes[n].requirements],
                                       invalid |-> {}, unplanned |-> {}, reusable |-> {}]>>
                    /\ step' = [n \in DOMAIN nodes |-> "none"]
               ELSE UNCHANGED <<mission, revisions, step>>
  /\ UNCHANGED <<artifacts, stranded, past, receipt, run, view, runs, fenced>>

-----------------------------------------------------------------------------
(* Revisions and what they invalidate.                                     *)

Latest == Len(revisions)

\* The nodes of a Plan revision; only their requirements change.
NodesOf(owns) == [n \in Nodes |-> [Plan[n] EXCEPT !.requirements = owns[n]]]
Owned(v) == UNION {v.owns[n] : n \in Nodes}

\* Mutant: a new requirement is taken for planned.
AllPlanned == {}

\* activeUnplannedRequirementIds: a revision has found it without a node, and
\* it is in the Contract and without one still.
Unplanned ==
  {r \in (UNION {revisions[k].unplanned : k \in DOMAIN revisions}) \ Owned(revisions[Latest]) :
     revisions[Latest].content[r] # Absent}

\* The event loop is inside the synchronous end of an Attempt: only the next
\* append, or the end of the process, can follow.
Busy == \E n \in DOMAIN step : step[n] \in {"settled", "receipt"}

\* Attempts in run.attempts: a node is registered once its Attempt is bound,
\* the join before its Runtime is detected.
Registered(n) == step[n] \in Bound \/ (n = Join /\ step[n] = "detecting")

Edited(content, edit) ==
  [r \in DOMAIN content |->
     IF \E e \in edit.texts : e[1] = r
       THEN (CHOOSE e \in edit.texts : e[1] = r)[2]
       ELSE content[r]]

\* reviseMissionContract: under the fence of the run, or a lease of its own.
MayRevise == Exists /\ ~Busy /\ Latest < MaxRevisions

\* assertSupportedExecutableContractRevision: the commands that verify, and the
\* criteria they are for, stay what they are.
Supported(edit) == ~edit.verifiers

\* #reviseMissionContractUnderFence: contract, plan, invalidation and fence
\* requests in one batch; a requirement that leaves the Contract leaves its
\* nodes, and the Plan must stand.  Registered Attempts of the newest Plan that
\* the revision invalidates are asked to stop.
ReviseMissionContract ==
  /\ MayRevise
  /\ \E edit \in {e \in Edits : Supported(e)} :
       LET u == revisions[Latest]
           content == Edited(u.content, edit)
           owns == [n \in Nodes |-> {r \in u.owns[n] : content[r] # Absent}]
           found == Invalidation(NodesOf(u.owns), Edges, u.content, content, edit.scopes, artifacts, Latest)
       IN /\ PlanStands(NodesOf(owns), Edges, content)
          /\ revisions' = Append(revisions, [content |-> content, owns |-> owns,
               invalid |-> found.nodes, unplanned |-> found.unplanned,
               reusable |-> found.reusable])
          /\ fenced' = IF view = Latest
                         THEN fenced \cup {n \in found.nodes : Registered(n)}
                         ELSE fenced
  /\ past' = Nothing
  /\ UNCHANGED <<creation, mission, artifacts, stranded, receipt, run, view, step, runs>>

-----------------------------------------------------------------------------
(* The run.                                                                *)

EndRun ==
  /\ run' = "none"
  /\ UNCHANGED runs
  /\ view' = 0
  /\ step' = [n \in DOMAIN step |-> "none"]
  /\ fenced' = {}

\* What a run leaves of its Attempts counts if it read the newest revision.
Left(open, ended) ==
  IF view = Latest THEN [past EXCEPT !.open = @ \cup open, !.ended = @ \cup ended] ELSE past

\* A Mission without an explicit Plan has no Plan run.
StartRun ==
  /\ run = "none"
  /\ Planned
  /\ runs < MaxRuns
  /\ runs' = runs + 1
  /\ run' = "loop"
  /\ UNCHANGED <<log, view, step, fenced>>

\* Mutant: an artifact is adopted if its node's requirements are as they were.
AdoptedByVersion ==
  {[a EXCEPT !.rev = Latest] :
     a \in {b \in artifacts : \A r \in revisions[Latest].owns[b.node] :
              revisions[b.rev].content[r] = revisions[Latest].content[r]}}

\* artifactMatchesCurrentRevision: the artifacts bound to a revision of the Plan.
OfRevision(S, rev) == {a \in S : a.rev = rev}

\* #adoptReusablePlanArtifacts: artifacts of the parent Plan whose node the
\* newest invalidation leaves alone.
Adopted ==
  {[a EXCEPT !.rev = Latest] :
     a \in {b \in OfRevision(Passed(artifacts), Latest - 1) :
              b.node \notin revisions[Latest].invalid}}

\* Nodes with an artifact of the newest revision (currentPlanArtifactByNode).
Complete(S) == {a.node : a \in OfRevision(Passed(S), Latest)}

Ready(S) == {n \in Work \ Complete(S) : Inputs(Edges, n) \subseteq Complete(S)}

\* Before it is registered the join looks at its sources: a worktree that is
\* not what was sealed in it, or two that changed one path, and it throws.
RefuseJoin == EndRun

\* The nodes that a turn of the loop starts, and with them the await.
Dispatch(S, as) ==
  /\ run' = as
  /\ view' = Latest
  /\ step' = [n \in Nodes |-> IF n \in S THEN "detecting" ELSE "none"]
  /\ UNCHANGED <<runs, fenced>>

\* One turn of the loop, up to its await: wait for a replan, dispatch the
\* ready nodes, or start the join.
NextRound ==
  /\ run = "loop"
  /\ IF Unplanned # {}
       THEN EndRun /\ UNCHANGED artifacts
       ELSE LET current == artifacts \cup Adopted
            IN /\ artifacts' = current
               /\ IF Work \subseteq Complete(current)
                    THEN Dispatch({Join}, "join") \/ RefuseJoin
                    ELSE Dispatch(Ready(current), "round")
  /\ UNCHANGED <<creation, mission, revisions, stranded, past, receipt>>

\* Mutant: a failed node is tried again for ever.
EndRoundRetries ==
  /\ run = "round"
  /\ \A n \in DOMAIN step : step[n] \in Ended
  /\ run' = "loop"
  /\ step' = [n \in DOMAIN step |-> "none"]
  /\ UNCHANGED <<log, view, runs, fenced>>

\* Promise.all is over: a failed or abandoned node ends the run, unless a
\* newer revision calls for another round.
EndRound ==
  /\ run = "round"
  /\ \A n \in DOMAIN step : step[n] \in Ended
  /\ IF view = Latest /\ \E n \in Nodes : step[n] \in {"failed", "abandoned"}
       THEN EndRun
       ELSE /\ run' = "loop"
            /\ step' = [n \in DOMAIN step |-> "none"]
            /\ UNCHANGED <<view, runs, fenced>>
  /\ UNCHANGED log

\* The process ends, its signal aborts the loop, its lease is lost, or a node
\* throws: Promise.all rejects and the other nodes are left where they are.
LoseRun ==
  /\ run # "none"
  /\ EndRun
  /\ stranded' = (stranded \/ \E n \in Nodes : step[n] \in Bound)
  /\ past' = Left({n \in Nodes : step[n] \in Bound}, {n \in Nodes : step[n] = "settled"})
  /\ UNCHANGED <<creation, mission, revisions, artifacts, receipt>>

-----------------------------------------------------------------------------
(* The Attempt of a node.                                                  *)

\* missionPlanAttemptFence: the Attempt was asked to stop, or its revision is
\* no longer the newest.
Fenced(n) == n \in fenced \/ view # Latest

Goto(n, s) ==
  /\ step' = [step EXCEPT ![n] = s]
  /\ UNCHANGED <<log, run, view, runs, fenced>>

\* effect.status_changed and attempt.finished in one batch.  A node reports to
\* its round; the join goes back to the loop when abandoned, throws if failed.
Finish(n, outcome) ==
  /\ past' = IF outcome = "failed" /\ step[n] \in Bound /\ view = Latest
               THEN [past EXCEPT !.failed = @ \cup {n}]
               ELSE past
  /\ IF n # Join
       THEN /\ step' = [step EXCEPT ![n] = outcome]
            /\ fenced' = fenced \ {n}
            /\ UNCHANGED <<run, view, runs>>
       ELSE IF outcome = "abandoned"
         THEN run' = "loop" /\ step' = [step EXCEPT ![n] = "none"]
              /\ fenced' = {} /\ UNCHANGED <<view, runs>>
         ELSE EndRun
  /\ UNCHANGED <<creation, mission, revisions, artifacts, stranded, receipt>>

\* createMissionPlanNodePrompt: the requirements the node was made with, in the
\* Contract of the view.
PromptStands(n) == \A r \in Plan[n].requirements : revisions[view].content[r] # Absent

\* Bound, started and its Effect intended in one batch, for the revision of the
\* view; then registered.  If a requirement of the node has left the Contract,
\* its prompt throws, and the Attempt stays open.
StartNode(n) ==
  \/ PromptStands(n) /\ Goto(n, "running")
  \/ /\ ~PromptStands(n)
     /\ EndRun /\ stranded' = TRUE
     /\ past' = Left({m \in Nodes : step[m] \in Bound} \cup {n}, {})
     /\ UNCHANGED <<creation, mission, revisions, artifacts, receipt>>

\* A Runtime that is not available fails the node before it is bound.
BindNode(n) ==
  /\ n \in Work
  /\ step[n] = "detecting"
  /\ Finish(n, "failed") \/ StartNode(n)

\* What the join joins: the artifacts of its inputs that count for the view.
JoinSources == {a \in OfRevision(Passed(artifacts), view) : a.node \in Inputs(Edges, Join)}

\* planConsolidationAttempt: each scope of the join has a grant of its own, and
\* no conflict is handed to it.
JoinBlocker ==
  ConsolidationBlocker(NodesOf(revisions[view].owns), Edges, Join, JoinSources, {}, Plan[Join].scopes)

\* Bound and started in one batch, then the paths of each source are checked
\* out into its worktree.
StartJoin ==
  /\ SourcesStand(Plan, JoinSources, view)
  /\ JoinBlocker = "none"
  /\ Goto(Join, "integrating")

\* The join looks whether it is obsolete first.
BindJoin ==
  /\ step[Join] = "detecting"
  /\ IF Fenced(Join) THEN Finish(Join, "abandoned") ELSE StartJoin \/ Finish(Join, "failed")

\* The source artifacts are checked out; then the same look.
StartJoinRuntime ==
  /\ step[Join] = "integrating"
  /\ IF Fenced(Join) THEN Finish(Join, "abandoned") ELSE Goto(Join, "running")

\* What an await has brought: fences come first, then its result.
After(n, next) ==
  IF Fenced(n) THEN Finish(n, "abandoned") ELSE Goto(n, next) \/ Finish(n, "failed")

\* The process of a node succeeds if it changed declared outputs and no others.
FinishRuntime(n) ==
  /\ n \in Work
  /\ step[n] = "running"
  /\ After(n, "verifying")

\* The process of the join may add its outputs, and change no path it was given.
FinishJoinRuntime ==
  /\ step[Join] = "running"
  /\ After(Join, "verifying")

\* #verifyPlanNode: the criteria of the node, one command after the other, with
\* every path of the workspace in them put into its worktree.
FinishVerification(n) ==
  /\ n \in Work
  /\ step[n] = "verifying"
  /\ After(n, "sealing")

\* Every criterion of the Contract; a verifier that changes a file has failed.
FinishJoinVerification ==
  /\ step[Join] = "verifying"
  /\ After(Join, "sealing")

\* The control directory is gone and the worktree committed.  Only the join
\* looks for changed sources, and again for a newer revision and what it leaves
\* unplanned, before the Attempt has succeeded.
Seal(n) ==
  /\ step[n] = "sealing"
  /\ \/ IF n = Join /\ (Fenced(n) \/ Unplanned # {}) THEN Finish(n, "abandoned") ELSE Goto(n, "settled")
     \/ n = Join /\ Finish(n, "failed")

\* mission.plan_artifact.recorded, for the revision of the view: with the evidence
\* of each criterion of the node, so without any if it has none.
RecordArtifact(n) ==
  /\ step[n] = "settled"
  /\ artifacts' = artifacts \cup {[node |-> n, rev |-> view, origin |-> view,
                                   passed |-> Plan[n].verified]}
  /\ step' = [step EXCEPT ![n] = IF n = Join THEN "receipt" ELSE "done"]
  /\ fenced' = fenced \ {n}
  /\ past' = IF Plan[n].verified THEN past ELSE Left({}, {n})
  /\ UNCHANGED <<creation, mission, revisions, stranded, receipt, run, view, runs>>

\* A receipt is bound to the newest revisions of the log, or is refused.
BindsNewest == view = Latest

\* receipt.issued: for the newest revision with every requirement planned; and
\* #assertReceipt refuses a verified receipt that discloses an intended Effect.
IssueReceipt ==
  /\ step[Join] = "receipt"
  /\ receipt' = IF BindsNewest /\ Unplanned = {} /\ ~stranded
                  THEN [rev |-> view, joined |-> JoinSources]
                  ELSE receipt
  /\ EndRun
  /\ UNCHANGED <<creation, mission, revisions, artifacts, stranded, past>>

-----------------------------------------------------------------------------
Attempt(n) ==
  \/ BindNode(n) \/ FinishRuntime(n) \/ FinishVerification(n) \/ Seal(n)

Advance ==
  /\ run # "none"
  /\ \/ /\ ~Busy
        /\ \/ NextRound \/ EndRound \/ BindJoin \/ StartJoinRuntime
          \/ FinishJoinRuntime \/ FinishJoinVerification
           \/ \E n \in Nodes : Attempt(n)
     \/ \E n \in Nodes : RecordArtifact(n)
     \/ IssueReceipt

Next == CreateMission \/ StartRun \/ Advance \/ LoseRun \/ ReviseMissionContract

Spec == Init /\ [][Next]_vars

\* A run that is not interrupted gets its detections, Runtimes, verifiers and
\* appends done; runs and revisions come as they like.
FairSpec == Spec /\ WF_vars(Advance)

-----------------------------------------------------------------------------
(* What is shown of the Plan (missionPlanRuntime, mission-plan-runtime.ts). *)

\* The nodes with an Attempt that has not finished (reconstructExecutionState),
\* whatever became of the run it belonged to.
Active == past.open \cup {n \in Nodes : view = Latest /\ step[n] \in Bound}

\* A verified receipt names every Attempt of the Mission; what such an Attempt left
\* at its checkpoint is taken for an artifact of the newest revision, whatever the
\* revision it was made for.
Certified == IF receipt.rev = 0 THEN {} ELSE {a.node : a \in artifacts}

\* resolveStatus: what is known of a node by itself.  No invalidation has the
\* newest Plan revision as its source, so none is stale.
OwnStatus(n) ==
  IF n \in Active THEN "running"
  ELSE IF n \in Complete(artifacts) \cup Certified THEN "succeeded"
  ELSE IF n \in past.failed THEN "failed"
  ELSE IF n \in past.ended THEN "unknown"
  ELSE "none"

\* resolveStatus: a node without Attempt and artifact is what its inputs make it.
NodeStatus(n) ==
  LET inputs == {OwnStatus(p) : p \in Inputs(Edges, n)}
  IN IF OwnStatus(n) # "none" THEN OwnStatus(n)
     ELSE IF inputs \subseteq {"succeeded"} THEN "ready"
     ELSE IF n = Join /\ "failed" \notin inputs THEN "waiting-join"
     ELSE "blocked"

-----------------------------------------------------------------------------
\* An artifact counts for a revision only if no revision since the one it was
\* made for touched its node or anything upstream of it, whatever rounds,
\* adoptions, crashes and late recordings lie between.
ArtifactsAreUnaffected ==
  \A a \in artifacts :
    /\ a.origin <= a.rev /\ a.rev <= Latest
    /\ \A k \in (a.origin + 1)..a.rev : a.node \notin revisions[k].invalid

\* What a node builds on has evidence and is not newer than its own artifact: no
\* adopted artifact stands downstream of a node that has been run again since.
BuildsOnOlder ==
  \A a \in artifacts : \A e \in Edges : e[2] = a.node =>
    \E b \in Passed(artifacts) : b.node = e[1] /\ b.rev = a.rev /\ b.origin <= a.origin

\* What an invalidation finds reusable counts for its revision as soon as a
\* round has read it (missionRevision.invalidated, #adoptReusablePlanArtifacts).
ReusableIsAdopted ==
  run # "none" /\ view = Latest /\ view # 0 =>
    \A a \in revisions[view].reusable : [a EXCEPT !.rev = view] \in artifacts

\* A join that is started finds every source it needs: what counted when the
\* loop looked still counts (planConsolidationAttempt).
JoinIsFed ==
  run = "join" /\ view = Latest =>
    SourcesStand(Plan, JoinSources, view) /\ JoinBlocker = "none"

\* What is shown as ready, when no run is under way, the next one starts, unless
\* it adopts it; and what counts is not shown as waiting.
ShownIsTrue ==
  \A n \in Nodes :
    /\ run = "none" /\ NodeStatus(n) = "ready" =>
         LET current == artifacts \cup Adopted
         IN \/ n \in Complete(current) \cup Ready(current)
            \/ n = Join /\ Inputs(Edges, Join) \subseteq Complete(artifacts)
    /\ n \in Complete(artifacts) => NodeStatus(n) \in {"succeeded", "running"}

\* What counts for a revision still satisfies it, was built on what counts for
\* it too, is kept when the revision lets it stand, is shown, and feeds the join
\* (mission-plan.ts, analyzeSelectiveInvalidation, planConsolidationAttempt).
ArtifactsHold ==
  Planned => ArtifactsAreUnaffected /\ BuildsOnOlder /\ ReusableIsAdopted /\ JoinIsFed /\ ShownIsTrue

\* A receipt is for the newest revision, joins one artifact of every input of
\* the join, made under requirements that still say the same, with evidence for
\* every work node of the Plan, and leaves no requirement of the Contract without
\* a node but those that the first Plan had none for and no revision has touched
\* (receipt.issued).
ReceiptIsCurrent ==
  [][receipt' # receipt =>
       LET now == revisions[Latest] IN
       /\ receipt'.rev = Latest
       /\ Work \subseteq Complete(artifacts)
       /\ \A r \in Present(now.content) \ Owned(now) :
            r \notin Owned(revisions[1]) /\ revisions[1].content[r] = now.content[r]
       /\ \A e \in Edges : e[2] = Join => \E a \in receipt'.joined :
            /\ a.node = e[1]
            /\ \A r \in now.owns[e[1]] : revisions[a.origin].content[r] = now.content[r]]_vars

\* What the page sends is served if the texts are plain, the workspace is a
\* repository of its own and the Runtimes are ready; and the Plan it draws up
\* covers the Contract the engine makes of it (app-page.ts, submitMission;
\* mission-draft.ts; spec.ts; engine.ts, create).
FormsAreServed ==
  creation.request \in DOMAIN Forms =>
    /\ Plain(Forms[creation.request]) => creation.status \in Created \cup {409}
    /\ Planned => Owned(revisions[1]) = Present(revisions[1].content)

\* A run ends by itself: no revision, fence or failure keeps it in its loop for
\* ever, unless a node other than the join has no criterion.  Such a node leaves
\* no evidence, so that it is never taken for complete and, once its inputs are,
\* is run again in every round until it fails (planArtifactHasPassingEvidence).
Verifiable == \A n \in Work : Plan[n].verified
RunEnds == (run # "none" /\ Verifiable) ~> run = "none"

-----------------------------------------------------------------------------
(* What documents and comments say, and the code does not do.              *)

\* mission-plan.ts, analyzeSelectiveInvalidation: "changing the Contract
\* revision alone is not a reason to terminate useful work": an Attempt is
\* abandoned only when a revision has invalidated its node.
UnaffectedWorkIsKept ==
  [][\A n \in Work : step[n] # "abandoned" /\ step'[n] = "abandoned" =>
       \E k \in (view + 1)..Latest : n \in revisions[k].invalid]_vars

\* engine.ts, missionPlanRuntime: "A node is `succeeded` only when a verifier-backed
\* PlanArtifact is available": when no run is under way, one that the newest revision
\* lets stand.
SucceededIsEvidenced ==
  Planned /\ run = "none" =>
    \A n \in Nodes : NodeStatus(n) = "succeeded" => n \in Complete(artifacts \cup Adopted)

\* StaleAttemptFenceV1: "acceptsFurtherEffects: false": an Attempt that was
\* asked to stop neither succeeds nor records an artifact.
FencedAcceptsNoEffects ==
  [][\A n \in fenced : step'[n] # "settled"]_vars

\* docs/product-requirements.md: "A restart must reconcile incomplete
\* dispatch": when a later run has consolidated the Plan, no Attempt of an
\* earlier run is still open and in the way of the receipt.
RestartReconciles ==
  Planned => ~(step[Join] = "settled" /\ stranded)
=============================================================================
