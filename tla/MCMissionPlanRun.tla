-------------------------- MODULE MCMissionPlanRun --------------------------
EXTENDS MissionPlanRun, TLC

MCAdapters == "local" :> [harness |-> "other", provider |-> FALSE]
           @@ "remote" :> [harness |-> "codex", provider |-> TRUE]
           @@ Scoped   :> [harness |-> "other", provider |-> FALSE]

Models == [codex |-> "m", qoder |-> "m", claude |-> "m"]
Workstream(text) == [requirement |-> text, outputs |-> <<"file-" \o text>>, args |-> <<"check">>]

Form(route, adapter) ==
  [route |-> route, adapter |-> adapter, ref |-> "ref", title |-> "t", objective |-> "x",
   workspace |-> "git", executable |-> "npm", args |-> <<"test">>, models |-> Models,
   gate |-> TRUE, a |-> Workstream("x"), b |-> Workstream("y"), outputs |-> <<"sum">>]

MCForms ==
  <<Form("mission-plan", None), Form("codex", None), Form("qoder", None), Form("claude", None),
    Form("codex-qoder", None), Form("codex-qoder-claude", None),
    Form("adapter", "local"), Form("adapter", "remote"), Form("adapter", "gone"),
    Form("adapter", Scoped),
    [Form("codex", None) EXCEPT !.executable = "bash"],
    [Form("qoder", None) EXCEPT !.args = <<Known>>],
    [Form("claude", None) EXCEPT !.args = <<Unknown>>],
    [Form("codex", None) EXCEPT !.objective = Secret],
    [Form("codex", None) EXCEPT !.workspace = "plain"],
    [Form("codex", None) EXCEPT !.workspace = "relative"],
    [Form("codex", None) EXCEPT !.workspace = "control"],
    [Form("mission-plan", None) EXCEPT !.outputs = <<"sum", "sum">>]>>

\* n2 reviews what n1 makes, and j joins both.  Constraint 2 may leave the
\* Contract, since n1 keeps another requirement.
Stage(id) ==
  [stageId |-> id, harness |-> "codex", adapterId |-> None, providerWorkspaceRef |-> None,
   model |-> None, permissionMode |-> None, injectionBudgetTokens |-> 1600,
   instruction |-> None, breakpoint |-> None, onFailure |-> "stop"]
Node(id, kind, requirements, scopes) ==
  [id |-> id, kind |-> kind, title |-> id, stage |-> id, requirements |-> requirements,
   criteria |-> <<"c">>, outputs |-> <<id>>, scopes |-> scopes]
Edge(a, b) == [from |-> a, to |-> b, relation |-> "depends-on", evidence |-> <<>>]

Graph ==
  [nodes |-> <<Node("n1", "task", <<Constraint(1), Constraint(2)>>, <<>>),
               Node("n2", "review", <<Objective>>, <<"payments">>),
               Node("j", "join", <<Constraint(1), Acceptance("c")>>, <<"payments">>)>>,
   edges |-> <<Edge("n1", "n2"), Edge("n1", "j"), Edge("n2", "j")>>]

Body ==
  [title |-> "t", objective |-> "x", workspace |-> "git", constraints |-> <<"x", "x">>,
   context |-> [source |-> Known, snapshot |-> "inside"], verifier |-> None,
   criteria |-> <<[id |-> "c", description |-> "x",
                   verifier |-> [executable |-> "npm", args |-> <<Known>>, timeoutMs |-> 1]]>>,
   stages |-> <<Stage("n1"), Stage("n2"), Stage("j")>>, plan |-> Graph]

With(edges) == [Body EXCEPT !.plan.edges = edges]
MCBodies ==
  <<Body,
    \* Constraint 3 without a node from the first.
    [Body EXCEPT !.constraints = <<"x", "x", "x">>],
    \* A review that nothing verifies, and a join that names no criterion.
    [Body EXCEPT !.plan.nodes[2].criteria = <<>>],
    [Body EXCEPT !.plan.nodes[3].criteria = <<>>],
    \* Refused by the draft: a repeated id, a hand-off of the last stage, a
    \* source outside, a gate of another Runtime, a repeated edge, two bases.
    [Body EXCEPT !.stages = <<Stage("n1"), Stage("n1")>>, !.plan = None],
    [Body EXCEPT !.stages[3].onFailure = "handoff"],
    [Body EXCEPT !.context.source = "outside"],
    [Body EXCEPT !.stages[1].breakpoint = "mutable-tools"],
    With(Append(Graph.edges, Edge("n1", "n2"))),
    [Body EXCEPT !.verifier = Body.criteria[1].verifier],
    \* Refused later: an unknown variable, a cycle, a join of one, an unfed
    \* review, two joins, a join that is not the last, none.
    [Body EXCEPT !.context.snapshot = Unknown],
    With(Append(Graph.edges, Edge("n2", "n1"))),
    With(<<Edge("n1", "n2"), Edge("n2", "j")>>),
    With(<<Edge("n1", "j"), Edge("n2", "j")>>),
    [Body EXCEPT !.plan.nodes[2].kind = "join"],
    With(<<Edge("n1", "j"), Edge("j", "n2")>>),
    [Body EXCEPT !.plan.nodes[3].kind = "task"]>>

MCRuntimes == {Native \cup {"local", "remote"}, {"codex", "qoder"}}

\* Nothing changed, an authority, either constraint, constraint 2 gone and
\* (one revision later) back, a requirement that no node has, and a verifier.
Texts(edit) == [texts |-> edit, scopes |-> {}, verifiers |-> FALSE]
MCEdits ==
  {Texts({}), [Texts({}) EXCEPT !.scopes = {"payments"}], Texts({<<Constraint(1), "z">>}),
   Texts({<<Constraint(2), Absent>>}), Texts({<<Constraint(2), "z">>}),
   Texts({<<Constraint(3), "z">>, <<Objective, "z">>}),
   [Texts({}) EXCEPT !.verifiers = TRUE]}
MCSpare == {Constraint(3)}
=============================================================================
