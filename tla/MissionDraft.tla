---------------------------- MODULE MissionDraft ----------------------------
(***************************************************************************)
(* How a Mission is asked for and made: the form of the page               *)
(* (app-page.ts), the draft the application accepts (mission-draft.ts), the *)
(* file the engine loads and the snapshot it keeps (spec.ts), and the first *)
(* Contract and Plan of the Mission (engine.ts, create).                    *)
(*                                                                         *)
(* A text is a string; what the checks tell apart has a name below.  The id *)
(* of a requirement, "constraint-1" or "acceptance-x", is a pair.           *)
(***************************************************************************)
EXTENDS MissionPlan, Sequences, Functions

CONSTANTS None,     \* a field that is not given
          Adapters  \* the loaded Adapters, by id: [harness, provider]

Blank == ""               \* or nothing but white space
Known == "${WORKSPACE}"   \* a variable of the Mission file
Unknown == "${NAME}"        \* another one
Secret == "password=..."   \* what looks like a credential
Phrase == "two words"      \* no identifier
Scoped == "owner:name"     \* no identifier here, but one to the Adapter SDK

\* The marks of a field that is not given and of a requirement that is absent are no
\* texts.
ASSUME MarkAssumption ==
  /\ None \notin {Blank, Known, Unknown, Secret, Phrase, Scoped, "handoff", "mutable-tools"}
  /\ Absent \notin {"the-objective", "workstream-a", "workstream-b", "mission-outcome"}
  /\ None # <<>> /\ None \notin DOMAIN Adapters

\* requireIdentifier.
IsIdentifier(t) == t \notin {Blank, Known, Unknown, Secret, Phrase, Scoped}

Column(s, field) == [i \in DOMAIN s |-> s[i][field]]
Given(s) == IF s = None THEN <<>> ELSE s

PermissionModes ==
  [codex  |-> {"read-only", "workspace-write", "danger-full-access"},
   qoder  |-> {"default", "plan", "auto", "bypass_permissions", "accept_edits", "dont_ask"},
   claude |-> {"default", "acceptEdits", "auto", "bypassPermissions", "manual", "dontAsk", "plan"}]

\* isSupportedHarnessV1.
Native == DOMAIN PermissionModes

Shells == {"sh", "bash", "zsh", "dash", "fish", "ksh", "csh", "tcsh", "cmd", "cmd.exe",
           "powershell", "powershell.exe", "pwsh", "pwsh.exe"}

Relations == {"depends-on", "review-input", "diagnostic-input", "branch-input", "join-input"}

MaxRuntimeProfiles == 16

-----------------------------------------------------------------------------
(* The form of the page                                                    *)

\* routeStages: the Runtimes whose model and reasoning must be filled in.
Uses(route) ==
  CASE route \in Native         -> {route}
    [] route = "mission-plan"   -> {"qoder", "claude"}
    [] route = "codex-qoder"    -> {"codex", "qoder"}
    [] route = "codex-qoder-claude" -> Native
    [] OTHER                    -> {}

\* A stage as the page sends it: no onFailure, and an instruction only in a Plan.
PageStage(form, id, harness, instruction) ==
  [stageId |-> id, harness |-> harness, adapterId |-> None, providerWorkspaceRef |-> None,
   model |-> IF harness \in Uses(form.route) THEN form.models[harness] ELSE Blank,
   permissionMode |-> [codex |-> "workspace-write", qoder |-> "bypass_permissions",
                       claude |-> "bypassPermissions"][harness],
   injectionBudgetTokens |-> 1600, instruction |-> instruction,
   breakpoint |-> IF harness = "claude" /\ form.gate THEN "mutable-tools" ELSE None,
   onFailure |-> None]

\* adapterForRoute: an Adapter that has gone from the list since leaves the
\* last alternative of RouteStages, without models.
AdapterStage(form) ==
  [stageId |-> "adapter-primary", harness |-> Adapters[form.adapter].harness,
   adapterId |-> form.adapter,
   providerWorkspaceRef |-> IF form.ref = Blank THEN None ELSE form.ref,
   model |-> "default", permissionMode |-> "adapter-default",
   injectionBudgetTokens |-> 1600, instruction |-> None, breakpoint |-> None, onFailure |-> None]

\* routeStages: the ordered Runtimes of a route.
RouteStages(form) ==
  LET stage(id, harness) == PageStage(form, id, harness, None)
  IN CASE form.adapter \in DOMAIN Adapters -> <<AdapterStage(form)>>
       [] form.route = "mission-plan" ->
            <<PageStage(form, "qoder-workstream", "qoder", form.a.requirement),
              PageStage(form, "claude-workstream", "claude", form.b.requirement),
              PageStage(form, "qoder-consolidation", "qoder", "integrate-both")>>
       [] form.route = "codex"  -> <<stage("codex-primary", "codex")>>
       [] form.route = "qoder"  -> <<stage("qoder-primary", "qoder")>>
       [] form.route = "claude" -> <<stage("claude-primary", "claude")>>
       [] form.route = "codex-qoder-claude" ->
            <<stage("codex-primary", "codex"), stage("qoder-continuation", "qoder"),
              stage("claude-continuation", "claude")>>
       [] OTHER -> <<stage("codex-primary", "codex"), stage("qoder-continuation", "qoder")>>

\* selectedRoute.
Routes == {"mission-plan", "codex", "qoder", "claude", "codex-qoder", "codex-qoder-claude", "adapter"}

\* fieldLines: lines with nothing in them are left out.
Lines(form) == {form.args, form.outputs, form.a.args, form.a.outputs, form.b.args, form.b.outputs}

\* submitMission, requiredValue, requiredLines: the page sends nothing else.
PageSends(form) ==
  /\ form.route \in Routes /\ (form.route = "adapter") = (form.adapter # None)
  /\ form.models \in [Native -> STRING]
  /\ Blank \notin {form.title, form.objective, form.workspace, form.executable}
  /\ \A lines \in Lines(form) : Blank \notin Range(lines)
  /\ \A h \in Uses(form.route) : form.models[h] # Blank
  /\ form.adapter \in DOMAIN Adapters => (Adapters[form.adapter].provider => form.ref # Blank)
  /\ form.route = "mission-plan" =>
       /\ Blank \notin {form.a.requirement, form.b.requirement}
       /\ <<>> \notin {form.a.outputs, form.b.outputs, form.outputs}

\* A form whose texts mean nothing else, whose Adapter the draft can name, whose
\* verifier is no shell and whose declared outputs are distinct.
Plain(form) ==
  /\ form.workspace = "git" /\ form.adapter \in DOMAIN Adapters \cup {None}
  /\ form.adapter # None => IsIdentifier(form.adapter) /\ IsIdentifier(Adapters[form.adapter].harness)
  /\ form.executable \notin Shells
  /\ {Unknown, Secret} \cap ({form.title, form.objective, form.ref} \cup Range(form.models)
       \cup {form.a.requirement, form.b.requirement}
       \cup Range(form.args) \cup Range(form.a.args) \cup Range(form.b.args)) = {}
  /\ \A o \in {form.outputs, form.a.outputs, form.b.outputs} : IsInjective(o)

Objective == <<"objective", 0>>
Constraint(i) == <<"constraint", i>>
Acceptance(c) == <<"acceptance", c>>

Verifier(form, args) == [executable |-> form.executable, args |-> args, timeoutMs |-> 30000]

\* explicitMissionPlanFields: a criterion of its own for either workstream.
PageCriteria(form) ==
  LET criterion(id, args) == [id |-> id, description |-> id, verifier |-> Verifier(form, args)]
  IN <<criterion("workstream-a", form.a.args), criterion("workstream-b", form.b.args),
       criterion("mission-outcome", form.args)>>

\* explicitMissionPlanFields: two workstreams and the join of both.
PagePlan(form) ==
  LET node(id, kind, stage, requirements, criterion, outputs) ==
        [id |-> id, kind |-> kind, title |-> id, stage |-> stage, requirements |-> requirements,
         criteria |-> <<criterion>>, outputs |-> outputs, scopes |-> <<"workspace">>]
      edge(from) == [from |-> from, to |-> "consolidate", relation |-> "join-input",
                     evidence |-> <<from>>]
  IN [nodes |->
        <<node("workstream-a", "task", "qoder-workstream",
               <<Constraint(1), Acceptance("workstream-a")>>, "workstream-a", form.a.outputs),
          node("workstream-b", "task", "claude-workstream",
               <<Constraint(2), Acceptance("workstream-b")>>, "workstream-b", form.b.outputs),
          node("consolidate", "join", "qoder-consolidation",
               <<Objective, Acceptance("workstream-a"), Acceptance("workstream-b"),
                 Acceptance("mission-outcome")>>, "mission-outcome", form.outputs)>>,
      edges |-> <<edge("workstream-a"), edge("workstream-b")>>]

\* submitMission: the body of the request.
Payload(form) ==
  LET planned == form.route = "mission-plan"
  IN [title |-> form.title, objective |-> form.objective, workspace |-> form.workspace,
      constraints |-> IF planned THEN <<form.a.requirement, form.b.requirement>> ELSE <<>>,
      context |-> None,
      verifier |-> IF planned THEN None ELSE Verifier(form, form.args),
      criteria |-> IF planned THEN PageCriteria(form) ELSE None,
      stages |-> RouteStages(form),
      plan |-> IF planned THEN PagePlan(form) ELSE None]

-----------------------------------------------------------------------------
(* The draft                                                               *)

\* parseVerifier.
VerifierStands(v) ==
  /\ v.executable \notin Shells \cup {Blank}
  /\ Blank \notin Range(v.args)
  /\ v.timeoutMs \in Nat \ {0}

\* parseAcceptanceCriteria: a single verifier stands for one criterion.
Criteria(q) ==
  IF q.criteria = None
    THEN <<[id |-> "mission-outcome", description |-> "the-objective", verifier |-> q.verifier]>>
    ELSE q.criteria

CriteriaStand(q) ==
  /\ (q.criteria = None) # (q.verifier = None)
  /\ q.criteria # <<>>
  /\ IsInjective(Column(Criteria(q), "id"))
  /\ \A c \in Range(Criteria(q)) :
       IsIdentifier(c.id) /\ c.description # Blank /\ VerifierStands(c.verifier)

\* parseStage, requirePermissionMode, requireBreakpoint.
StageStands(s) ==
  /\ IsIdentifier(s.stageId) /\ IsIdentifier(s.harness) /\ IsIdentifier(s.adapterId)
  /\ Blank \notin {s.providerWorkspaceRef, s.model, s.permissionMode, s.instruction}
  /\ s.injectionBudgetTokens \in Nat \ {0}
  /\ s.breakpoint \in {None, "mutable-tools"} /\ s.onFailure \in {None, "stop", "handoff"}
  /\ s.breakpoint # None => s.harness = "claude" /\ s.adapterId = None
  /\ s.adapterId = None => /\ s.harness \in Native
                           /\ s.permissionMode \in PermissionModes[s.harness] \cup {None}
                           /\ s.providerWorkspaceRef = None

\* Mutant: every stage hands off unless it says otherwise.
AlwaysHandoff(stages, i) == IF stages[i].onFailure # None THEN stages[i].onFailure ELSE "handoff"

\* createMissionDraft: a stage that does not say hands off to the next one.
OnFailure(stages, i) ==
  CASE stages[i].onFailure # None -> stages[i].onFailure
    [] i < Len(stages)            -> "handoff"
    [] OTHER                      -> "stop"

\* createMissionDraft: a stage of the Mission file.
Filed(s, onFailure) ==
  [s EXCEPT !.instruction = IF @ = None THEN "the-role" ELSE @, !.onFailure = onFailure]

\* createMissionDraft: the Mission file, without what has defaults.
Document(q) ==
  [title |-> q.title, objective |-> q.objective, workspace |-> q.workspace,
   constraints |-> Given(q.constraints), context |-> q.context, criteria |-> Criteria(q),
   stages |-> [i \in DOMAIN q.stages |-> Filed(q.stages[i], OnFailure(q.stages, i))],
   plan |-> q.plan]

RequirementIds(doc) ==
  {Objective} \cup {Constraint(i) : i \in DOMAIN doc.constraints}
              \cup {Acceptance(c.id) : c \in Range(doc.criteria)}

\* parsePlan: a node has requirements of the Contract and a stage to itself.
NodeStands(n, doc) ==
  /\ IsIdentifier(n.id) /\ n.title # Blank /\ n.kind \in NodeKinds
  /\ n.stage \in Range(Column(doc.stages, "stageId"))
  /\ n.requirements # <<>> /\ IsInjective(n.requirements)
  /\ Range(n.requirements) \subseteq RequirementIds(doc)
  /\ IsInjective(n.criteria) /\ Range(n.criteria) \subseteq Range(Column(doc.criteria, "id"))
  /\ IsInjective(n.outputs) /\ IsInjective(n.scopes)
  /\ Blank \notin Range(n.outputs) \cup Range(n.scopes)

\* parsePlan of the Mission file and of its snapshot.
GraphStands(plan, doc) ==
  LET ids == Column(plan.nodes, "id")
  IN /\ plan.nodes # <<>>
     /\ \A n \in Range(plan.nodes) : NodeStands(n, doc)
     /\ IsInjective(ids) /\ IsInjective(Column(plan.nodes, "stage"))
     /\ \A e \in Range(plan.edges) :
          /\ {e.from, e.to} \subseteq Range(ids) /\ e.from # e.to
          /\ e.relation \in Relations /\ Blank \notin Range(e.evidence)
     /\ IsInjective([i \in DOMAIN plan.edges |->
          <<plan.edges[i].from, plan.edges[i].to, plan.edges[i].relation>>])

\* parsePlan of the draft: the evidence of an edge is distinct, too.
DraftGraphStands(plan, doc) ==
  GraphStands(plan, doc) /\ \A e \in Range(plan.edges) : IsInjective(e.evidence)

\* assertNoCredentialMaterial, looksLikeCredentialValue.
HoldsSecret(doc) ==
  \/ Secret \in {doc.title, doc.objective} \cup Range(doc.constraints)
  \/ \E c \in Range(doc.criteria) : Secret \in Range(c.verifier.args) \cup {c.description}
  \/ \E s \in Range(doc.stages) : Secret \in {s.model, s.instruction, s.providerWorkspaceRef}

\* resolveContextPath: a variable is not expanded yet, and so a name inside.
DraftContextStands(context) ==
  context = None \/ {Blank, "outside"} \cap {context.source, context.snapshot} = {}

\* createMissionDraft throws unless.
DraftStands(q) ==
  /\ Blank \notin {q.title, q.objective, q.workspace} \cup Range(Given(q.constraints))
  /\ q.workspace # "relative"
  /\ DraftContextStands(q.context)
  /\ CriteriaStand(q)
  /\ Len(q.stages) \in 1..MaxRuntimeProfiles
  /\ \A s \in Range(q.stages) : StageStands(s)
  /\ IsInjective(Column(q.stages, "stageId"))
  /\ q.stages[Len(q.stages)].onFailure # "handoff"
  /\ q.plan # None => DraftGraphStands(q.plan, Document(q))
  /\ ~HoldsSecret(Document(q))

-----------------------------------------------------------------------------
(* The Mission file and its snapshot                                       *)

\* expandKnownVariables: of a path in the workspace, or of an argument.
Expand(t) == IF t = Known THEN "inside" ELSE t

\* loadMissionSpec: a criterion, its verifier's arguments expanded.
Expanded(c) ==
  LET args == c.verifier.args
  IN [c EXCEPT !.verifier.args = [a \in DOMAIN args |-> Expand(args[a])]]

\* loadMissionSpec: what the Mission file resolves to.
Resolved(doc) ==
  [doc EXCEPT
     !.criteria = [i \in DOMAIN doc.criteria |-> Expanded(doc.criteria[i])],
     !.context = IF @ = None THEN None ELSE [source   |-> Expand(@.source),
                                             snapshot |-> Expand(@.snapshot)]]

\* loadMissionSpec: the stages of attemptPlan.
SpecStageStands(s) ==
  /\ IsIdentifier(s.stageId) /\ IsIdentifier(s.harness) /\ IsIdentifier(s.adapterId)
  /\ Blank \notin {s.providerWorkspaceRef, s.model, s.permissionMode, s.instruction}
  /\ s.injectionBudgetTokens \in Nat \ {0} /\ s.onFailure \in {"stop", "handoff"}
  /\ s.breakpoint # None => s.harness = "claude" /\ s.adapterId = None
  /\ s.adapterId = None => s.harness \in Native /\ s.providerWorkspaceRef = None

\* What loadMissionSpec and restoreMissionSpecSnapshot both demand.
SpecStands(spec) ==
  /\ Blank \notin {spec.title, spec.objective} \cup Range(spec.constraints)
  /\ spec.context # None => {Blank, "outside"} \cap {spec.context.source, spec.context.snapshot} = {}
  /\ spec.criteria # <<>> /\ IsInjective(Column(spec.criteria, "id"))
  /\ spec.stages # <<>> /\ IsInjective(Column(spec.stages, "stageId"))
  /\ \A s \in Range(spec.stages) : SpecStageStands(s)
  /\ spec.stages[Len(spec.stages)].onFailure # "handoff"
  /\ spec.plan # None => GraphStands(spec.plan, spec)

\* loadMissionSpec throws unless: every variable is a known one, too.
Loads(doc) ==
  /\ \A c \in Range(doc.criteria) : Unknown \notin Range(c.verifier.args)
  /\ doc.context # None => Unknown \notin {doc.context.source, doc.context.snapshot}
  /\ SpecStands(Resolved(doc))

\* restoreMissionSpecSnapshot: each later operation opens the Mission so.
Restores(snapshot) == SpecStands(snapshot) /\ ~HoldsSecret(snapshot)

-----------------------------------------------------------------------------
(* The Mission                                                             *)

\* requirementsFromSpec: what each requirement says.
FirstContract(spec) ==
  [r \in RequirementIds(spec) |->
     CASE r = Objective         -> spec.objective
       [] r[1] = "constraint"   -> spec.constraints[r[2]]
       [] r[1] = "acceptance"   ->
            (CHOOSE c \in Range(spec.criteria) : c.id = r[2]).description]

\* create: an explicit Plan as it is, or the stages as a chain of fallbacks.  What
\* a node makes is verified by its own criteria, which may be none; what the join
\* makes, by all those of the Contract.
FirstNodes(spec) ==
  IF spec.plan = None
    THEN [s \in Range(Column(spec.stages, "stageId")) |->
            [kind |-> "task", requirements |-> RequirementIds(spec), scopes |-> {"workspace"},
             writes |-> {}, verified |-> TRUE]]
    ELSE [id \in Range(Column(spec.plan.nodes, "id")) |->
            LET n == CHOOSE n \in Range(spec.plan.nodes) : n.id = id
            IN [kind |-> n.kind, requirements |-> Range(n.requirements), scopes |-> Range(n.scopes),
                writes |-> {id}, verified |-> n.kind = "join" \/ n.criteria # <<>>]]

FirstEdges(spec) ==
  IF spec.plan = None
    THEN {<<spec.stages[i].stageId, spec.stages[i + 1].stageId>> : i \in 1..(Len(spec.stages) - 1)}
    ELSE {<<e.from, e.to>> : e \in Range(spec.plan.edges)}

\* assertExecutablePlanTerminalJoin.
TerminalJoin(spec) ==
  spec.plan # None =>
    LET joins == {n.id : n \in {x \in Range(spec.plan.nodes) : x.kind = "join"}}
    IN Cardinality(joins) = 1 /\ \A e \in Range(spec.plan.edges) : e.from \notin joins

\* createMissionPlanRevision, normalizeRefs: an edge has distinct evidence.
EvidenceStands(spec) == spec.plan # None => \A e \in Range(spec.plan.edges) : IsInjective(e.evidence)

\* create, createMissionSpecSnapshot, assertControlStateIsolation.
Creates(spec) ==
  /\ spec.workspace # "control"
  /\ TerminalJoin(spec)
  /\ ~HoldsSecret(spec)
  /\ PlanStands(FirstNodes(spec), FirstEdges(spec), FirstContract(spec))
  /\ EvidenceStands(spec)

\* A stage needs its Adapter, of its Harness, or its Runtime ready.
StageReady(s, ready) ==
  IF s.adapterId = None
    THEN s.harness \in ready
    ELSE /\ s.adapterId \in DOMAIN Adapters \cap ready
         /\ Adapters[s.adapterId].harness = s.harness

\* POST /api/v1/missions: the status of the answer, with these Runtimes and
\* Adapters ready.  A Mission without a Plan is started at once.
Created == {201, 202}
Answer(q, ready) ==
  CASE ~DraftStands(q)                 -> 400
    [] q.workspace = "plain"           -> 500   \* no Git repository
    [] \E s \in Range(q.stages) : ~StageReady(s, ready) -> 409
    [] ~Loads(Document(q))             -> 500   \* the draft stays in its file
    [] ~Creates(Resolved(Document(q))) -> 500
    [] q.plan = None                   -> 202
    [] OTHER                           -> 201
=============================================================================
