---------------------------- MODULE OutcomeStudio ----------------------------
(***************************************************************************)
(* The judgements of Outcome Studio as operators (outcome-studio.ts,       *)
(* mission-outcome-studio.ts): suites and thresholds, the evaluation of a  *)
(* branch, comparison, incident scenarios, receipts, CI results and the    *)
(* selection of a branch.  A content-addressed record stands for its       *)
(* identity: two records have one identity if and only if they are equal.  *)
(***************************************************************************)
EXTENDS Integers, Sequences, FiniteSets

CONSTANTS Criteria,  \* the Contract's acceptance criteria
          Required   \* trials that the regression suite declares

ASSUME StudioAssumption == Required \in Nat \ {0, 1} /\ IsFiniteSet(Criteria)

Statuses == {"passed", "failed", "unknown"}
NoThreshold == [minimum |-> 0, rate |-> 0]

-----------------------------------------------------------------------------
(* Suites                                                                  *)

\* normalizeThreshold: gte, a value in percent, and a minimum of known trials
\* within the declared ones.
WellFormedThreshold(t, trials) == t.rate \in 0..100 /\ t.minimum \in 1..trials

\* normalizeEvaluationCriterion.
WellFormedCriterion(c) ==
  /\ \E e \in c.evaluators : e.role = "authoritative"
  /\ \/ c.mode = "deterministic-control" /\ c.trials = 1 /\ c.threshold = NoThreshold
     \/ /\ c.mode = "stochastic-model" /\ c.trials >= 2
        /\ WellFormedThreshold(c.threshold, c.trials)

\* createEvaluationSuite: one well-formed criterion for each of the Contract's.
WellFormedSuite(suite) ==
  DOMAIN suite.criteria = Criteria /\ \A c \in Criteria : WellFormedCriterion(suite.criteria[c])

Audit(role, basis) == [role |-> role, basis |-> basis]

\* The suite that judges a Kernel receipt, and the one that an incident is rerun
\* under: every criterion is required, and every trial has to pass.
ContractSuite ==
  [version |-> "mission-contract-v1",
   criteria |-> [c \in Criteria |->
     [mode |-> "deterministic-control", trials |-> 1, threshold |-> NoThreshold,
      evaluators |-> {Audit("authoritative", "deterministic")}]]]
RegressionSuite ==
  [version |-> "mission-kernel-regression-v1",
   criteria |-> [c \in Criteria |->
     [mode |-> "stochastic-model", trials |-> Required,
      threshold |-> [minimum |-> Required, rate |-> 100],
      evaluators |-> {Audit("authoritative", "deterministic")}]]]

-----------------------------------------------------------------------------
(* Evaluation                                                              *)

\* Mutant: the pass rate is taken over the last trial only.
RateOfLast(threshold, trials) == IF trials[Len(trials)] = "passed" THEN "passed" ELSE "failed"

\* evaluateThreshold: the pass rate over all trials, once enough are known.
ThresholdStatus(threshold, trials) ==
  LET count(S) == Cardinality({i \in DOMAIN trials : trials[i] \in S})
  IN IF count({"passed", "failed"}) < threshold.minimum \/ trials = <<>> THEN "unknown"
     ELSE IF 100 * count({"passed"}) >= threshold.rate * Len(trials) THEN "passed" ELSE "failed"

\* aggregateStatuses.
Aggregate(S) ==
  IF S = {} THEN "unknown"
  ELSE IF "failed" \in S THEN "failed"
  ELSE IF S = {"passed"} THEN "passed" ELSE "unknown"

\* OutcomeStudioRegistry.#evaluateCriterion.  An advisory evaluator has no say,
\* and a model judge may not be authoritative (it throws, Evaluable).
CriterionStatus(c, trials, says) ==
  Aggregate({says[e] : e \in {x \in c.evaluators : x.role = "authoritative"}}
            \cup (IF c.mode = "stochastic-model"
                    THEN {ThresholdStatus(c.threshold, trials)} ELSE {}))
Evaluable(c) == \A e \in c.evaluators : e.role = "authoritative" => e.basis # "model-judge"

\* OutcomeStudioRegistry.evaluateBranch; trials[c] are the outcomes of
\* c, says[e] what the evaluator e found.
EvaluateBranch(suite, trials, says) ==
  [c \in Criteria |-> CriterionStatus(suite.criteria[c], trials[c], says)]

-----------------------------------------------------------------------------
(* Comparison, receipt, scenario, CI result, selection                     *)

\* compareContractBranches: at least two branches, judged under one suite.
Comparable(branches) ==
  /\ Cardinality({b.branch : b \in branches}) >= 2
  /\ \A a, b \in branches : a.suite = b.suite /\ (a.branch = b.branch => a = b)

\* outcomeEffectResolution.
Resolution(status) ==
  CASE status \in {"confirmed", "skipped", "failed"} -> "resolved"
    [] status \in {"ambiguous", "conflict"} -> "ambiguous"
    [] OTHER -> "blocking"

\* issueStudioOutcomeReceipt: verified if every criterion passed and every
\* Effect it is given is resolved.
StudioReceipt(branch, effects) ==
  [branch |-> branch.branch, suite |-> branch.suite, revision |-> branch.revision,
   criteria |-> branch.criteria,
   verified |-> /\ \A c \in Criteria : branch.criteria[c] = "passed"
                /\ \A s \in effects : Resolution(s) = "resolved"]

\* createIncidentScenario, normalizeIncidentExecutionPlan: what was expected, of
\* which revision and profile, and the suite it is to be rerun under.
Scenario(branch) ==
  [branch |-> branch.branch, suite |-> RegressionSuite, source |-> branch.revision,
   profile |-> branch.revision.profile, expected |-> branch.criteria]

\* verifyIncidentScenario, and what a rerun needs of the scenario's suite: one
\* trial count, and thresholds declared beforehand.
Executable(scenario) ==
  /\ WellFormedSuite(scenario.suite)
  /\ \A c, d \in Criteria : scenario.suite.criteria[c].trials = scenario.suite.criteria[d].trials
  /\ \A c \in Criteria : Evaluable(scenario.suite.criteria[c])
                         /\ scenario.suite.criteria[c].mode = "stochastic-model"

\* createOutcomeCiResult.
CiResult(scenario, receipt) ==
  LET matched == \A c \in Criteria : receipt.criteria[c] = scenario.expected[c]
      unknown == \E c \in Criteria : receipt.criteria[c] = "unknown"
  IN [scenario |-> scenario, receipt |-> receipt,
      regression |-> IF unknown THEN "inconclusive" ELSE IF matched THEN "retained" ELSE "returned",
      status |-> IF matched /\ receipt.verified THEN "passed" ELSE "failed"]

\* verifyOutcomeCiResult, enforceOutcomeCiResult: the exit code of a CI job.
CiConsistent(result) ==
  LET matched == \A c \in Criteria : result.receipt.criteria[c] = result.scenario.expected[c]
  IN result.status = "passed" => matched /\ result.regression = "retained"
ExitCode(result) == IF result.status = "passed" /\ result.regression = "retained" THEN 0 ELSE 1

\* selectVerifiedOutcomeBranch: of a comparison the branch is part of, under its
\* suite, verified, by a person or an outside authority.
Selectable(branches, receipt) ==
  /\ \E b \in branches : b.branch = receipt.branch /\ b.suite = receipt.suite
  /\ receipt.verified
=============================================================================
