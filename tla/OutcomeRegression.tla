-------------------------- MODULE OutcomeRegression --------------------------
(***************************************************************************)
(* Outcome Studio over the forks of a Mission (engine.ts,                  *)
(* mission-outcome-studio.ts): people save incident scenarios and select   *)
(* branches while reruns execute a scenario, one fork per trial, and judge *)
(* the outcomes.  Each takes a view of the log first and records what it   *)
(* concludes later, under a lease of its own.                              *)
(***************************************************************************)
EXTENDS ExecutionFork, OutcomeStudio

CONSTANTS Clients,    \* people who save a scenario or select a branch
          LookAfter,  \* bound: the events after which they take their view
          Old         \* the branch of an incident saved before

ASSUME RegressionAssumption == Trials = Required /\ Old \notin {Root, Shared} \cup Forks

VARIABLES
  verdict,  \* of each fork: what its verifiers said of each criterion
  studio,   \* what Outcome Studio has recorded in the log
  client,   \* what each client has read and not yet recorded
  trial     \* of each rerun: its scenario and its trials' views

regressionVars == <<vars, verdict, studio, client, trial>>

\* A run that did not verify a criterion counts as failed in a receipt.
Verdicts == [Criteria -> {"passed", "failed"}]
AllPassed == [c \in Criteria |-> "passed"]

-----------------------------------------------------------------------------
(* The view of a branch                                                    *)

\* createAgentRevision: the profile, and the profile and planner observations
\* that name no Attempt, those of every other fork among them.
Revision(h, b) ==
  [profile |-> IF b = Old THEN "source" ELSE "target", notes |-> Events(h, "selected")]

\* The branch's receipt; only a started Attempt has a binding.
ReceiptOf(h, b) == {i \in Events(h, "receipt") : h[i].branch = b}
Bound(h, b) == {i \in Events(h, "attempt.bound") : h[i].branch = b}
Evaluated(h) == {b \in Branches(h) : ReceiptOf(h, b) # {} /\ Bound(h, b) # {}}

\* evaluationFromReceipt, branchDimensions: the branch record of the view.
BranchView(h, b) ==
  [branch |-> b, suite |-> ContractSuite, revision |-> Revision(h, b),
   criteria |-> verdict[h[LastOf(ReceiptOf(h, b))].id]]

\* projectMissionEffects: those of the whole Mission.
EffectStatuses(h) == {EffectStatus(h, e) : e \in Effects(h)}

\* What the log holds of Outcome Studio.
Recorded(kind) == {i \in DOMAIN studio : studio[i].kind = kind}
Selections == {studio[i].content : i \in Recorded("selection")}
Note(kind, content) == studio' = Append(studio, [kind |-> kind, content |-> content])

RegressionInit ==
  /\ Init
  /\ verdict = [f \in Forks |-> AllPassed]
  /\ studio = <<[kind |-> "scenario",
                 content |-> Scenario([branch |-> Old, criteria |-> AllPassed,
                                       revision |-> Revision(<<>>, Old)])]>>
  /\ client = [k \in Clients |-> [step |-> "idle"]]
  /\ trial = [r \in Reruns |-> [scenario |-> 1, views |-> <<>>]]

-----------------------------------------------------------------------------
(* Saving and selecting                                                    *)

\* A client looks at the Studio when the log has something new; the page shows
\* the branch of the latest receipt.
Looks(k, b) ==
  /\ client[k].step = "idle" /\ b \in Evaluated(log)
  /\ Last(log).type \in LookAfter /\ LastOf(ReceiptOf(log, b)) = LastOf(Events(log, "receipt"))

\* saveOutcomeStudioScenario: the view, then the lease.  The page may send a
\* request twice (a second click, a second window).
ReadIncident(k, b) ==
  /\ Looks(k, b)
  /\ client' = [client EXCEPT ![k] = [step |-> "save", content |-> Scenario(BranchView(log, b)),
                                         requests |-> 2]]
  /\ UNCHANGED <<vars, verdict, studio, trial>>

Answer(k) ==
  LET left == client[k].requests - 1
  IN client' = [client EXCEPT ![k] = IF left = 0 THEN [step |-> "done"]
                                     ELSE [@ EXCEPT !.requests = left]]

\* Mutant: the scenarios saved before are read without the lease, with the view.
SaveAgain(k) ==
  /\ client[k].step = "save" /\ Answer(k)
  /\ IF Free THEN Note("scenario", client[k].content) ELSE UNCHANGED studio
  /\ UNCHANGED <<vars, verdict, trial>>

\* Under the lease; a scenario of the same content is not saved again.
SaveIncident(k) ==
  /\ client[k].step = "save" /\ Answer(k)
  /\ IF Free /\ \A i \in Recorded("scenario") : studio[i].content # client[k].content
       THEN Note("scenario", client[k].content) ELSE UNCHANGED studio
  /\ UNCHANGED <<vars, verdict, trial>>

\* selectOutcomeStudioBranch: the comparison with every other evaluated branch.
ReadComparison(k, b) ==
  LET branches == {BranchView(log, c) : c \in Evaluated(log)}
      receipt == StudioReceipt(BranchView(log, b), EffectStatuses(log))
  IN /\ Looks(k, b)
     /\ Comparable(branches) /\ Selectable(branches, receipt)
     /\ client' = [client EXCEPT ![k] = [step |-> "select",
                     content |-> [branch |-> b, among |-> branches, through |-> Len(log)]]]
     /\ UNCHANGED <<vars, verdict, studio, trial>>

\* The selection names the time it was made, so that none equals an earlier one.
SelectBranch(k) ==
  /\ client[k].step = "select"
  /\ client' = [client EXCEPT ![k] = [step |-> "done"]]
  /\ IF Free THEN Note("selection", client[k].content) ELSE UNCHANGED studio
  /\ UNCHANGED <<vars, verdict, trial>>

-----------------------------------------------------------------------------
(* Rerunning a scenario                                                    *)

\* The scenario is looked up before the rerun is recorded as started.
StartScenario(r) ==
  /\ StartRerun(r)
  /\ \E i \in Recorded("scenario") :
       Executable(studio[i].content) /\ trial' = [trial EXCEPT ![r].scenario = i]
  /\ UNCHANGED <<verdict, studio, client>>

\* A completed result has passed every verifier; a failed one may have too (the
\* process failed, or showed no tool at work).
Verify(r) ==
  /\ Continue(r)
  /\ \E v \in Verdicts :
       /\ run'[r].event # "runtime.failed" => v = AllPassed
       /\ verdict' = [verdict EXCEPT ![Own(r)] = v]
  /\ UNCHANGED <<studio, client, trial>>

\* outcomeStudio of the trial's branch, after its receipt.
ViewTrial(r) ==
  /\ Settle(r)
  /\ trial' = IF At(r, "settle") /\ run'[r].step # "failed"
                THEN [trial EXCEPT ![r].views = Append(@, BranchView(log', Branch(Own(r))))]
                ELSE trial
  /\ UNCHANGED <<verdict, studio, client>>

\* Mutant: the trials' revisions are not compared with each other.
AgreesOnProfile(r) ==
  LET scenario == studio[trial[r].scenario].content
  IN /\ scenario.profile = "source"
     /\ \A v \in Range(trial[r].views) :
          v.revision.profile # scenario.profile /\ v.revision # scenario.source

\* The trials used one revision, of another profile than the scenario's.
Agrees(r) ==
  LET scenario == studio[trial[r].scenario].content
  IN /\ scenario.profile = "source"
     /\ \A v, w \in Range(trial[r].views) : v.revision = w.revision
     /\ \A v \in Range(trial[r].views) :
          v.revision.profile # scenario.profile /\ v.revision # scenario.source

\* The runner of a criterion: the outcome of a trial is what the view of its
\* branch says.
Outcomes(views) == [c \in Criteria |-> [t \in DOMAIN views |-> views[t].criteria[c]]]

\* The evaluators: they pass if every trial left its evidence.
Audits(suite, views) ==
  [e \in UNION {suite.criteria[c].evaluators : c \in Criteria} |->
     IF Len(views) = Trials THEN "passed" ELSE "unknown"]

\* The branch of the last trial is the one that is evaluated.
Target(r) ==
  LET views == trial[r].views
      suite == studio[trial[r].scenario].content.suite
  IN [branch |-> Last(views).branch, suite |-> suite, revision |-> Last(views).revision,
      criteria |-> EvaluateBranch(suite, Outcomes(views), Audits(suite, views))]

\* rerunIncidentScenario: the receipt is issued with no Effects.
Judge(r) == CiResult(studio[trial[r].scenario].content, StudioReceipt(Target(r), {}))

\* verifyMissionOutcomeStudioRerun: each trial has a branch of its own, and the
\* result follows from the receipt.
RerunStands(r) ==
  LET branches == [t \in DOMAIN trial[r].views |-> trial[r].views[t].branch]
  IN IsInjective(branches) /\ CiConsistent(Judge(r))

\* The rerun and its CI result are recorded under one lease, or the checks throw.
Complete(r) ==
  /\ IF Agrees(r) /\ RerunStands(r)
       THEN /\ SaveRerun(r)
            /\ IF run'[r].step = "saved"
                 THEN Note("ci", [rerun |-> r, result |-> Judge(r)]) ELSE UNCHANGED studio
       ELSE At(r, "save") /\ Goto(r, "failed")
            /\ UNCHANGED <<log, journal, worktree, ran, holder, recovery, faults, studio>>
  /\ UNCHANGED <<verdict, client, trial>>

-----------------------------------------------------------------------------
\* The steps of a fork and its controllers that the Studio takes no part in.
ForkStep ==
  /\ \/ \E r \in Runs : \/ Resolve(r) \/ AcquireLease(r) \/ Prepare(r) \/ WriteJournal(r)
                        \/ Bridge(r) \/ Checkout(r) \/ RefuseRuntime(r) \/ DrainFails(r)
                        \/ IssueReceipt(r) \/ Crash(r)
     \/ ExpireLease \/ Resume
  /\ UNCHANGED <<verdict, studio, client, trial>>

RegressionNext ==
  \/ ForkStep
  \/ \E r \in Reruns : StartScenario(r) \/ ViewTrial(r) \/ (At(r, "save") /\ Complete(r))
  \/ \E r \in Runs : Verify(r)
  \/ \E k \in Clients : SaveIncident(k) \/ SelectBranch(k)
  \/ \E k \in Clients, b \in {Shared} \cup Forks : ReadIncident(k, b) \/ ReadComparison(k, b)

RegressionSpec == RegressionInit /\ [][RegressionNext]_regressionVars

-----------------------------------------------------------------------------
\* A rerun is recorded only with a receipt and a started Attempt for each of its
\* trials, all under one profile selection and one Agent Revision, although each
\* trial looks the selection up again, other runs add theirs, and every selection
\* in the log changes the revision of the views taken after it.
RerunIsWhole ==
  \A i \in Recorded("ci") :
    LET r == studio[i].content.rerun
    IN /\ \A t \in 1..Trials : BranchReceipts(<<r, t>>) # {} /\ <<r, t>> \in StartedAttempts(log)
       /\ \A f, g \in run[r].picks : f = g
       /\ \A s, t \in 1..Trials : trial[r].views[s].revision = trial[r].views[t].revision

\* A CI result that lets a job pass stands for a rerun in which the verifiers of
\* every trial passed every criterion, for a scenario that was recorded before,
\* and for another profile than the incident's.
PassedIsEveryTrial ==
  \A i \in Recorded("ci") :
    LET r == studio[i].content.rerun  result == studio[i].content.result
    IN ExitCode(result) = 0 =>
         /\ \A t \in 1..Trials, c \in Criteria : verdict[<<r, t>>][c] = "passed"
         /\ \E j \in 1..(i - 1) : studio[j].kind = "scenario" /\ studio[j].content = result.scenario
         /\ result.receipt.revision.profile # result.scenario.profile

\* A scenario is recorded once, whoever saves it and whatever is recorded between
\* the view and the lease.  A selected branch had, in the log it was compared in,
\* a receipt with every criterion passed while no Effect of the Mission was
\* open, and it still has that receipt.
RecordsStand ==
  /\ \A i, j \in Recorded("scenario") : studio[i].content = studio[j].content => i = j
  /\ \A s \in Selections :
       LET h == SubSeq(log, 1, s.through)
       IN /\ \A c \in Criteria : BranchView(log, s.branch).criteria[c] = "passed"
          /\ Unresolved(h) = {} /\ ReceiptOf(h, s.branch) = ReceiptOf(log, s.branch)
          /\ Cardinality(s.among) >= 2

\* product-requirements.md: "any required failed/unknown criterion or
\* blocking/ambiguous required Effect prevents a verified Receipt": a CI result
\* passes only on trials that the Kernel verified.
PassedIsVerified ==
  \A i \in Recorded("ci") :
    ExitCode(studio[i].content.result) = 0 =>
      \A t \in 1..Trials : \E j \in ReceiptOf(log, <<studio[i].content.rerun, t>>) :
        log[j].value = "verified"
=============================================================================
