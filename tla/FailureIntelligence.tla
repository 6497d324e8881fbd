------------------------- MODULE FailureIntelligence -------------------------
(***************************************************************************)
(* Failure intelligence (failure-intelligence.ts): what a set of evidence  *)
(* says about why a Mission failed.  It is a pure function; its input is a *)
(* record of sets of evidence, each item with the identity it is kept      *)
(* under and the references it carries, and its result is a set of         *)
(* candidates, each named by its detector, its layer and its mechanism.    *)
(***************************************************************************)
EXTENDS Integers, FiniteSets

Unset == "unset"   \* an exit code that was not reported
NoDigest == -1     \* a content digest that was not recorded; the others are in Nat

\* A finding, and a signal of failure or success with the fingerprint it repeats
\* under and the one it contradicts under.
Finding(detector, layer, mechanism, status, support, counter) ==
  [id |-> <<detector, layer, mechanism>>, status |-> status, support |-> support,
   counter |-> counter]
Signal(fingerprint, against, layer, id) ==
  [fingerprint |-> fingerprint, against |-> against, layer |-> layer, id |-> id]
Ids(S) == {x.id : x \in S}

Rank(status) ==
  CASE status = "confirmed" -> 4 [] status = "observed" -> 3 [] status = "inferred" -> 2
    [] OTHER -> 1

-----------------------------------------------------------------------------
(* Signals                                                                 *)

ToolFailed(f) == f.isError = "yes" \/ f.phase = "failed" \/ f.exit \notin {Unset, "0"}
ToolSucceeded(f) == f.isError = "no" \/ f.exit = "0" \/ (f.phase = "completed" /\ ~ToolFailed(f))
ToolOutcome(f) == IF f.exit # Unset THEN f.exit ELSE IF f.isError = "yes" THEN "error" ELSE f.phase

FactLayer(f) ==
  CASE f.kind = "model_call" -> "model"
    [] f.kind \in {"tool_result", "test_run"} -> "tool"
    [] f.kind = "failure" -> CASE f.name = "model" -> "model" [] f.name = "tool" -> "tool"
                               [] f.name = "runtime" -> "harness" [] OTHER -> "unknown"

RuntimeSignal(f) ==
  CASE f.kind = "failure" ->
         Signal(<<"runtime", f.name>>, <<"runtime", f.name>>,
                IF FactLayer(f) = "unknown" THEN "harness" ELSE FactLayer(f), f.id)
    [] f.kind = "model_call" -> Signal(<<"model", f.phase>>, <<"model", "">>, "model", f.id)
    [] f.kind = "tool_result" ->
         Signal(<<"tool", f.name, ToolOutcome(f)>>, <<"tool", f.name>>, "tool", f.id)
    [] f.kind = "test_run" -> Signal(<<"test", f.exit>>, <<"test", "">>, "tool", f.id)

RuntimeFailed(f) ==
  CASE f.kind = "failure" -> TRUE [] f.kind = "tool_result" -> ToolFailed(f)
    [] OTHER -> f.phase = "failed"
RuntimeSucceeded(f) ==
  CASE f.kind = "failure" -> FALSE [] f.kind = "tool_result" -> ToolSucceeded(f)
    [] OTHER -> f.phase = "completed"

VerificationSignal(v) == Signal(<<"verification", v.key>>, <<"verification", v.key>>, "missionbraid", v.id)

GateTool(in, gate) ==
  IF \E q \in in.requests : q.gate = gate
    THEN (CHOOSE q \in in.requests : q.gate = gate).tool ELSE "unknown-tool"
ResultSignal(in, r) ==
  Signal(<<"tool", GateTool(in, r.gate), r.digest>>, <<"tool", GateTool(in, r.gate)>>, "tool", r.id)

Failures(in) ==
  {RuntimeSignal(f) : f \in {f \in in.facts : RuntimeFailed(f)}} \cup
  {VerificationSignal(v) : v \in {v \in in.verifications : v.status = "failed"}} \cup
  {ResultSignal(in, r) : r \in {r \in in.results : r.outcome = "failed"}}
Successes(in) ==
  {RuntimeSignal(f) : f \in {f \in in.facts : RuntimeSucceeded(f)}} \cup
  {VerificationSignal(v) : v \in {v \in in.verifications : v.status = "passed"}} \cup
  {ResultSignal(in, r) : r \in {r \in in.results : r.outcome # "failed"}}

-----------------------------------------------------------------------------
(* Detectors                                                               *)

NoDigests(i) == NoDigest \in {i.bound, i.current}
ContentDiffers(i) == ~NoDigests(i) /\ i.bound # i.current
SameWorkspace(i) == i.boundWorkspace = i.currentWorkspace

StaleContext(in) ==
  {Finding("stale-context", "context", i.fact, "inferred", {i.id},
           Ids({j \in in.freshness : j.fact = i.fact /\ ~ContentDiffers(j)
                                       /\ (SameWorkspace(j) \/ NoDigests(j))})) :
     i \in {i \in in.freshness : ContentDiffers(i) \/ (NoDigests(i) /\ ~SameWorkspace(i))}}

WorkspaceDivergence(in) ==
  {Finding("workspace-divergence", "environment", i.boundary, "observed", {i.id},
           Ids({j \in in.comparisons : j.boundary = i.boundary /\ j.expected = j.observed})) :
     i \in {i \in in.comparisons : i.expected # i.observed}}

VerificationFailures(in) ==
  {Finding("verification-failure", "missionbraid", v.key, "observed", {v.id},
           Ids({w \in in.verifications : w.key = v.key /\ w.status = "passed"})) :
     v \in {v \in in.verifications : v.status = "failed"}}

\* A denial that was released is observed; the wish to deny, alone, is unknown.
PermissionConflicts(in) ==
  {Finding("permission-conflict", "missionbraid", r.gate, "observed", {r.id, r.gate},
           Ids({s \in in.releases : s.gate = r.gate /\ s.decision # "reject"})) :
     r \in {r \in in.releases : r.decision = "reject"}} \cup
  {Finding("permission-conflict", "missionbraid", i.gate, "unknown", {i.id}, {}) :
     i \in {i \in in.intents : i.decision = "reject" /\ ~\E r \in in.releases : r.intent = i.id}}

ToolErrors(in) ==
  LET failedFacts == {f \in in.facts : \/ f.kind = "tool_result" /\ ToolFailed(f)
                                       \/ f.kind = "failure" /\ f.name = "tool"}
      toolOf(f) == IF f.kind = "tool_result" THEN f.name ELSE "unknown-tool"
      failedResults == {r \in in.results : r.outcome = "failed"}
      support(tool) == Ids({f \in failedFacts : toolOf(f) = tool}) \cup
                       Ids({r \in failedResults : GateTool(in, r.gate) = tool})
      counter(tool) == Ids({s \in Successes(in) : s.against = <<"tool", tool>>})
  IN {Finding("tool-error", "tool", tool, "observed", support(tool), counter(tool)) :
        tool \in {toolOf(f) : f \in failedFacts} \cup {GateTool(in, r.gate) : r \in failedResults}}

RepeatedFailures(in) ==
  LET group(p) == {s \in Failures(in) : s.fingerprint = p}
  IN {Finding("repeated-failure", (CHOOSE s \in group(p) : TRUE).layer, p, "inferred",
              Ids(group(p)),
              Ids({s \in Successes(in) : \E t \in group(p) : s.against = t.against})) :
        p \in {p \in {s.fingerprint : s \in Failures(in)} : Cardinality(Ids(group(p))) >= 2}}

RequestLoops(in) ==
  LET key(q) == <<q.attempt, q.tool, q.input>>
      group(k) == {q \in in.requests : key(q) = k}
  IN {Finding("loop", "model", k, "inferred", {q.gate : q \in group(k)},
              Ids({r \in in.results : r.outcome = "succeeded" /\ \E q \in group(k) : q.gate = r.gate})) :
        k \in {k \in {key(q) : q \in in.requests} : Cardinality(group(k)) >= 3}}

\* addFinding: the findings of one identity are one finding, at the highest of
\* their statuses, with the evidence of all.
Merged(S) ==
  LET same(i) == {f \in S : f.id = i}
  IN {[id |-> i,
       status |-> (CHOOSE f \in same(i) : \A g \in same(i) : Rank(g.status) <= Rank(f.status)).status,
       support |-> UNION {f.support : f \in same(i)},
       counter |-> UNION {f.counter : f \in same(i)}] : i \in Ids(S)}

Detected(in) ==
  Merged(StaleContext(in) \cup WorkspaceDivergence(in) \cup VerificationFailures(in) \cup
         PermissionConflicts(in) \cup ToolErrors(in) \cup RepeatedFailures(in) \cup RequestLoops(in))

\* A failure that only the verifier saw, or none at all, has no known mechanism.
Unattributed(in) ==
  IF \/ Detected(in) = {}
     \/ Failures(in) # {} /\ \A f \in Detected(in) : f.id[1] = "verification-failure"
    THEN {Finding("unattributed", "unknown", "none", "unknown", Ids(Failures(in)), {})} ELSE {}

Findings(in) == Detected(in) \cup Unattributed(in)

-----------------------------------------------------------------------------
(* Diagnostic outcomes, candidates and proposals                           *)

\* The one variable that a diagnostic branch of a candidate changes.
Variable(id) ==
  LET is(dimension, operation) == [dimension |-> dimension, operation |-> operation]
  IN CASE id[1] = "loop" -> is("model", "replace")
       [] id[1] = "repeated-failure" ->
            is(IF id[2] = "unknown" THEN "harness" ELSE id[2], "retry-with-alternative")
       [] id[1] = "stale-context" -> is("context", "refresh")
       [] id[1] = "permission-conflict" -> is("missionbraid", "expand")
       [] id[1] = "tool-error" -> is("tool", "replace")
       [] id[1] = "workspace-divergence" -> is("environment", "replace")
       [] id[1] = "verification-failure" -> is("missionbraid", "retry-with-alternative")
       [] OTHER -> is("missionbraid", "replace")

\* The outcomes that say something about a finding: of its variable, and on the
\* very checkpoint that the projection is bound to.
Applies(o, f, in) ==
  /\ o.candidate = f.id /\ o.variable = Variable(f.id)
  /\ in.checkpoint.complete /\ o.checkpoint = in.checkpoint.id

WithOutcomes(f, in) ==
  LET of(result) == {o \in in.outcomes : Applies(o, f, in) /\ o.result = result}
      confirmed == of("mechanism-confirmed")
  IN [f EXCEPT !.status = IF \E o \in confirmed : o.deterministic THEN "confirmed" ELSE @,
               !.support = @ \cup Ids(confirmed),
               !.counter = @ \cup Ids(of("mechanism-refuted"))]

Minimum(a, b) == IF a < b THEN a ELSE b
Maximum(a, b) == IF a < b THEN b ELSE a
StatusBase(status) ==
  CASE status = "confirmed" -> 100 [] status = "observed" -> 70 [] status = "inferred" -> 50
    [] OTHER -> 0

Score(status, supports, counters) ==
  Maximum(0, StatusBase(status) + Minimum(supports, 9) - Minimum(3 * counters, 18))

\* References of an item of evidence, itself included; an identity that no item
\* is registered under stands for itself.
Registered(in) ==
  in.facts \cup in.freshness \cup in.comparisons \cup in.verifications \cup in.requests \cup
  in.intents \cup in.releases \cup in.results \cup in.outcomes
Refs(in, ids) == ids \cup UNION {e.refs : e \in {e \in Registered(in) : e.id \in ids}}

Candidate(in, f) ==
  [id |-> f.id, status |-> f.status,
   score |-> Score(f.status, Cardinality(Refs(in, f.support)), Cardinality(Refs(in, f.counter))),
   refs |-> Refs(in, f.support)]

Candidates(in) == {Candidate(in, WithOutcomes(f, in)) : f \in Findings(in)}

\* compareCandidates, up to the order of candidates that are equal in both.
Above(c, d) == c.score > d.score \/ (c.score = d.score /\ Rank(c.status) > Rank(d.status))

\* The proposals, one for each candidate that is not unknown, are ready on a
\* complete checkpoint, unless they would widen a permission.
Ready(c, in) == c.status # "unknown" /\ in.checkpoint.complete /\ c.id[1] # "permission-conflict"
=============================================================================
