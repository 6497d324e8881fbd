--------------------------- MODULE AdaptiveHandoff ---------------------------
(***************************************************************************)
(* How a direct Mission goes from one Runtime to the next (engine.ts): the *)
(* planner's choice among the stages that remain, the composite checkpoint *)
(* that carries the frontier of the work, the capsule the next Runtime is  *)
(* given, and the overrides users set, all against the Mission's log.      *)
(*                                                                         *)
(* MissionRun takes the appends of one Attempt one at a time; here those   *)
(* that nothing else reads in between are one step, and the detection of   *)
(* Runtimes, the capture of a checkpoint and the decision, which are       *)
(* separated by awaits, are steps of their own.  A lease may be lost at    *)
(* any moment.  The workspace is the number of edits made to it.           *)
(*                                                                         *)
(* An external Effect goes through the statuses it has in the log, one     *)
(* append after the other, and its request may be cut off between any two; *)
(* its target is the prompt one of ExternalEffect, where a POST is over    *)
(* with the request that sent it.                                          *)
(***************************************************************************)
EXTENDS ExecutionPlanner, Functions

CONSTANTS Controllers,   \* processes that execute commands of the Mission
          Plan,          \* stages: [harness, onFailure, gate, writes, hosted, budget]
          Effects,       \* external Effects of the Mission
          CapsuleSize,   \* tokens of a capsule that names no Effect
          Wished,        \* stages users ask for
          MaxAttempts,   \* bound on Attempts, of all the commands together
          MaxOverrides,  \* bound on the overrides users set
          MaxEdits       \* bound on the edits of the workspace

Stages == DOMAIN Plan
Override == [kind : {"set", "cleared"}, id : 1..MaxOverrides, stage : 0..Len(Plan)]

\* spec.ts: the last stage has nothing to hand off to.  A stage needs to write
\* the workspace or does not, and has a gate for its tools or has none.
ASSUME HandoffAssumption ==
  /\ None \notin Controllers \cup Effects \cup Nat \cup Classes \cup Override
  /\ None \notin {"intended", "dispatch_started", "executed", "confirmed", "failed",
                  "ambiguous"}
  /\ Effects \cap (Controllers \cup Nat) = {}
  /\ Plan # <<>> /\ Plan \in Seq(Range(Plan)) /\ Plan[Len(Plan)].onFailure # "handoff"
  /\ \A s \in Stages :
       /\ Plan[s].writes \subseteq {"workspace-write"} /\ Plan[s].gate \subseteq {"pre-tool-gate"}
       /\ Plan[s].hosted \in BOOLEAN /\ Plan[s].budget \in Nat \ {0}
  /\ \A n \in {CapsuleSize, MaxAttempts, MaxOverrides, MaxEdits} : n \in Nat
  /\ MaxAttempts >= Len(Plan)
  /\ Wished \subseteq Stages

VARIABLES
  attempts,   \* the Attempts of the log, in their order
  effects,    \* status of each external Effect in the log, or None
  overrides,  \* manual_override_set and _cleared events, in their order
  status,     \* status of the Mission
  workspace,  \* edits made to the working copy
  lease,      \* owner of the live workspace lease: a controller, or the request
              \* that coordinates an Effect
  at,         \* where each controller is
  clearing,   \* the override a user who clears has read, or None
  request,    \* where that request is
  applied     \* the Effects that their target has carried out

log == <<attempts, effects, overrides, status>>
remote == <<request, applied>>
vars == <<log, workspace, lease, at, clearing, remote>>

Steps == {"idle", "recover", "close", "execute", "detect", "compose", "decide",
          "stage", "prepare", "start", "prompt", "running", "finish", "save", "verify",
          "wait"}
Place == [step : Steps, index : 0..(Len(Plan) + 1), source : 0..Len(Plan),
          listed : SUBSET Stages]
Statuses == {"waiting", "running", "succeeded", "failed"}
EffectStatuses == {None, "intended", "dispatch_started", "executed", "confirmed", "failed",
                   "ambiguous"}
Composite == [work : 0..MaxEdits, effects : [Effects -> EffectStatuses]]

At(step, index, source, listed) ==
  [step |-> step, index |-> index, source |-> source, listed |-> listed]
Idle == At("idle", 0, 0, {})

Attempt ==
  [stage : Stages, started : BOOLEAN, before : 0..MaxEdits,
   \* the capsule's doNotRepeatEffectIds, Attempts for their workspace Effects
   capsule : SUBSET (Effects \cup 1..MaxAttempts),
   alive : BOOLEAN,
   check : {"none", "succeeded", "handed_off", "failed"}, after : 0..MaxEdits,
   effect : {"intended", "confirmed", "failed", "skipped"},
   finished : BOOLEAN, composite : Composite \cup {None}]

TypeOK ==
  /\ attempts \in Seq(Attempt) /\ Len(attempts) <= MaxAttempts
  /\ effects \in [Effects -> EffectStatuses]
  /\ overrides \in Seq(Override)
  /\ status \in Statuses
  /\ workspace \in 0..MaxEdits
  /\ lease \in Controllers \cup Effects \cup {None}
  /\ at \in [Controllers -> Place]
  /\ clearing \in 0..MaxOverrides
  /\ request \in {"none", "read", "sent", "accepted", "over"}
  /\ applied \subseteq Effects

Init ==
  /\ attempts = <<>>
  /\ effects = [e \in Effects |-> None]
  /\ overrides = <<>>
  /\ status = "running"
  /\ workspace = 0
  /\ lease = None
  /\ at = [c \in Controllers |-> Idle]
  /\ clearing = 0
  /\ request = "none"
  /\ applied = {}

-----------------------------------------------------------------------------
(* What the log says. *)

\* reconstructExecutionState: the checkpoints, oldest first; the newest is
\* the frontier.
Checkpointed == {a \in DOMAIN attempts : attempts[a].check # "none"}
Frontier == IF Checkpointed = {} THEN 0
            ELSE CHOOSE a \in Checkpointed : \A b \in Checkpointed : b <= a

\* nextStageIndex
Progressed(s) == \E a \in Checkpointed : /\ attempts[a].stage = s
                                         /\ attempts[a].check \in {"succeeded", "handed_off"}
NextStage ==
  IF \A s \in Stages : Progressed(s) THEN Len(Plan) + 1
  ELSE CHOOSE s \in Stages : ~Progressed(s) /\ \A t \in 1..(s - 1) : Progressed(t)

\* doNotRepeatEffectIds
Done == {e \in Effects : effects[e] \in {"confirmed", "ambiguous"}}
        \cup {a \in DOMAIN attempts : attempts[a].effect = "confirmed"}

\* Mutant: any event that clears ends the override in force.
ActiveOverrideAnyClear ==
  IF overrides = <<>> \/ overrides[Len(overrides)].kind = "cleared" THEN None
  ELSE overrides[Len(overrides)]

\* activeExecutionPlannerOverride: the stage asked for, None when there is
\* no override in force.
ActiveOverride ==
  LET upto[i \in 0..Len(overrides)] ==
        IF i = 0 THEN None
        ELSE IF overrides[i].kind = "set" THEN overrides[i]
        ELSE IF upto[i - 1] # None /\ upto[i - 1].id = overrides[i].id THEN None
        ELSE upto[i - 1]
  IN  upto[Len(overrides)]

\* Mutant: a composite is enough that has the workspace.
CoversWork(composite, a) ==
  /\ composite # None
  /\ composite.work = workspace
  /\ workspace = attempts[a].after

\* compositeCoversHandoffFrontier
Covers(composite, a) ==
  /\ composite # None
  /\ composite.work = workspace
  /\ workspace = attempts[a].after
  /\ composite.effects = effects

-----------------------------------------------------------------------------
(* What the planner is given. *)

Base == {"workspace-read", "command-execution"}

\* resolvedProfileCapabilities and adapterCapabilities: a hosted stage's are
\* those of its adapter's manifest.
Capabilities(s) == IF Plan[s].hosted THEN {"adapter"}
                   ELSE Base \cup Plan[s].writes \cup Plan[s].gate
AdapterOf(s) == [observe |-> "native", interrupt |-> "process-only",
                 preToolGate |-> IF Plan[s].gate # {} THEN "native" ELSE "unsupported"]

\* plannerRequirements, from the stage that failed, without its manifest
RequiredOf(source) ==
  Base \cup (IF Plan[source].hosted THEN {} ELSE Plan[source].writes) \cup Plan[source].gate
MinimumOf(source) ==
  IF Plan[source].gate = {} THEN [observe |-> "native", interrupt |-> "process-only"]
  ELSE [observe |-> "native", interrupt |-> "process-only", preToolGate |-> "native"]

\* plannerHandoffStates
StateOf == LET a == Frontier IN
  CASE a = 0 -> [outcome |-> "exact", workspace |-> "exact",
                 context |-> "exact", effects |-> "exact"]
    [] a # 0 /\ attempts[a].composite = None ->
         [outcome |-> "unavailable", workspace |-> "unavailable",
          context |-> "unavailable", effects |-> "unavailable"]
    [] OTHER ->
         [outcome |-> "exact", context |-> "summarized", effects |-> "exact",
          workspace |-> IF attempts[a].composite.work = attempts[a].after
                        THEN "exact" ELSE "blocking"]

\* plannerObservation: a probe of the version tells nothing else.
Observed == [freshness |-> "fresh", source |-> "local", quota |-> None, cost |-> None,
             latency |-> None, success |-> None]

\* createProfile: the id is a digest of what was just detected, new each
\* time, so any order of the candidates' ids may come out of it.
Candidate(s, ids, listed) ==
  [id |-> ids[s], stage |-> s, harness |-> Plan[s].harness, ready |-> s \in listed,
   capabilities |-> Capabilities(s), adapter |-> AdapterOf(s),
   window |-> None, budget |-> Plan[s].budget, states |-> StateOf,
   observation |-> Observed, repeats |-> {}]

\* The Profile in use is that of the Attempt at the frontier: 0 is no
\* candidate's id, nor is the id of an override whose stage is not among them.
Unresolved == Len(Plan) + 1
PlannerInput(from, source, listed, ids) ==
  LET remaining == {s \in Stages : s >= from}
      wanted == ActiveOverride
  IN  [candidates |-> {Candidate(s, ids, listed) : s \in remaining},
       required |-> RequiredOf(source), adapter |-> MinimumOf(source),
       allowed |-> {Plan[s].harness : s \in remaining \cup {source}},
       window |-> None, budget |-> None,
       states |-> [outcome |-> TRUE, workspace |-> TRUE, context |-> TRUE, effects |-> TRUE],
       current |-> IF Checkpointed = {} THEN None ELSE 0,
       frontier |-> effects,
       override |-> CASE wanted = None -> None
                      [] wanted # None /\ wanted.stage \in remaining -> ids[wanted.stage]
                      [] OTHER -> Unresolved]

Orders == {ids \in [Stages -> Stages] : IsInjective(ids)}

-----------------------------------------------------------------------------
(* The ends of a command. *)

Go(c, place) == at' = [at EXCEPT ![c] = place]
Release(c) == lease' = IF lease = c THEN None ELSE lease

\* An exception: the command fails and the Mission's status is left alone.
Throw(c) == Go(c, Idle) /\ Release(c) /\ UNCHANGED log

\* #setWaiting and the end of the command
Wait(c) ==
  /\ at[c].step = "wait" /\ lease = c
  /\ status' = "waiting"
  /\ Go(c, Idle) /\ Release(c)
  /\ UNCHANGED <<attempts, effects, overrides, workspace, clearing, remote>>

\* An append of a controller that lost its lease throws.
Fenced(c) ==
  /\ at[c].step # "idle" /\ lease # c
  /\ Throw(c)
  /\ UNCHANGED <<workspace, clearing, remote>>

Crash(c) ==
  /\ at[c].step # "idle"
  /\ Throw(c)
  /\ UNCHANGED <<workspace, clearing, remote>>

\* It expires; a request that coordinates an Effect ends with it, or by a crash.
LoseLease ==
  /\ lease # None /\ lease' = None
  /\ request' = "none"
  /\ UNCHANGED <<log, workspace, at, clearing, applied>>

-----------------------------------------------------------------------------
(* executeCommand with resume, and #closeDanglingAttempts.  A command starts
   only while the bound leaves room for every stage. *)

Resume(c) ==
  /\ at[c].step = "idle" /\ lease = None
  /\ Len(attempts) + Len(Plan) <= MaxAttempts
  /\ lease' = c /\ Go(c, At("recover", 0, 0, {}))
  /\ UNCHANGED <<log, workspace, clearing, remote>>

Open == {a \in DOMAIN attempts : ~attempts[a].finished}
Changed(a) == attempts[a].after # attempts[a].before

Recover(c) ==
  /\ at[c].step = "recover" /\ lease = c
  /\ \/ /\ Open = {}
        /\ Go(c, At("execute", 0, 0, {})) /\ UNCHANGED <<log, lease>>
     \/ \E a \in Open :
          \/ /\ attempts[a].alive \/ (attempts[a].check # "none" /\ attempts[a].after # workspace)
             /\ Throw(c)
          \/ /\ attempts[a].check # "none" /\ attempts[a].after = workspace
             /\ Go(c, At("close", 0, 0, {})) /\ UNCHANGED <<log, lease>>
          \/ /\ ~attempts[a].alive /\ attempts[a].check = "none"
             /\ attempts' = [attempts EXCEPT
                  ![a].after = workspace,
                  ![a].check = IF /\ workspace # attempts[a].before
                                  /\ Plan[attempts[a].stage].onFailure = "handoff"
                               THEN "handed_off" ELSE "failed"]
             /\ Go(c, At("close", 0, 0, {}))
             /\ UNCHANGED <<effects, overrides, status, lease>>
  /\ UNCHANGED <<workspace, clearing, remote>>

\* effect.status_changed and attempt.finished of the Attempt a controller
\* left open
Close(c) ==
  /\ at[c].step = "close" /\ lease = c
  /\ \E a \in Open :
       /\ attempts' = [attempts EXCEPT
            ![a].finished = TRUE,
            ![a].effect = CASE attempts[a].effect # "intended" -> attempts[a].effect
                            [] Changed(a) -> "confirmed"
                            [] OTHER -> "failed"]
       /\ Go(c, At(IF attempts[a].check = "handed_off" THEN "save" ELSE "execute", 0, 0, {}))
  /\ UNCHANGED <<effects, overrides, status, workspace, lease, clearing, remote>>

-----------------------------------------------------------------------------
(* #execute: where a command goes on, and #executeStage. *)

Execute(c) ==
  /\ at[c].step = "execute" /\ lease = c
  /\ LET next == NextStage
         boundary == Frontier
     IN CASE status = "succeeded" -> Go(c, Idle) /\ Release(c)
          [] status # "succeeded" /\ next > Len(Plan) ->
               Go(c, At("verify", 0, 0, {})) /\ UNCHANGED lease
          [] status # "succeeded" /\ next <= Len(Plan) /\ boundary # 0
               /\ attempts[boundary].check = "handed_off" ->
               Go(c, At("detect", next, attempts[boundary].stage, {})) /\ UNCHANGED lease
          [] OTHER -> Go(c, At("stage", next, 0, {})) /\ UNCHANGED lease
  /\ UNCHANGED <<log, workspace, clearing, remote>>

\* Mutant: the planner is given the stage that failed among the candidates.
StageAgain(c) ==
  /\ at[c].step = "stage" /\ lease = c
  /\ LET s == at[c].index IN
     \/ Go(c, At("prepare", s, 0, {}))
     \/ Go(c, IF Plan[s].onFailure = "handoff" THEN At("detect", s, s, {})
              ELSE At("wait", 0, 0, {}))
  /\ UNCHANGED <<attempts, effects, overrides, status, workspace, lease, clearing, remote>>

\* The Runtime of a stage no planner chose is detected: it is ready, and its
\* Profile is selected, or it is not.
Stage(c) ==
  /\ at[c].step = "stage" /\ lease = c
  /\ LET s == at[c].index IN
     \/ Go(c, At("prepare", s, 0, {}))
     \/ Go(c, IF Plan[s].onFailure = "handoff" THEN At("detect", s + 1, s, {})
              ELSE At("wait", 0, 0, {}))
  /\ UNCHANGED <<attempts, effects, overrides, status, workspace, lease, clearing, remote>>

\* projectCanonicalCapsule
Fits(s, carried) == CapsuleSize + Cardinality(carried) <= Plan[s].budget

Carried == IF Frontier = 0 THEN {} ELSE Done

\* The frontier is compared with the workspace and its composite, and the
\* capsule is fitted to the target's budget ...
Refused(s) ==
  LET a == Frontier IN
  /\ a # 0
  /\ \/ workspace # attempts[a].after
     \/ attempts[a].check = "handed_off" /\ attempts[a].composite = None
     \/ attempts[a].composite # None /\ attempts[a].composite.work # attempts[a].after
     \/ ~Fits(s, Carried)

\* ... and the Attempt is bound and its Effect recorded, in one batch.
Prepare(c) ==
  /\ at[c].step = "prepare" /\ lease = c
  /\ LET s == at[c].index
     IN \/ Refused(s) /\ Go(c, At("wait", 0, 0, {})) /\ UNCHANGED attempts
        \/ /\ ~Refused(s) /\ Len(attempts) < MaxAttempts
           /\ attempts' = Append(attempts,
                [stage |-> s, started |-> FALSE, before |-> workspace, capsule |-> Carried,
                 alive |-> FALSE, check |-> "none", after |-> workspace, effect |-> "intended",
                 finished |-> FALSE, composite |-> None])
           /\ Go(c, At("start", s, 0, {}))
  /\ UNCHANGED <<effects, overrides, status, workspace, lease, clearing, remote>>

Newest == Len(attempts)

Start(c) ==
  /\ at[c].step = "start" /\ lease = c
  /\ attempts' = [attempts EXCEPT ![Newest].started = TRUE]
  /\ status' = "running"
  /\ Go(c, At("prompt", at[c].index, 0, {}))
  /\ UNCHANGED <<effects, overrides, workspace, lease, clearing, remote>>

\* The prompt, with the Mission's Context as it is by now: within the
\* Profile's budget it is recorded and the Runtime started; above it, the
\* command throws and leaves the Attempt open.
Prompt(c) ==
  /\ at[c].step = "prompt" /\ lease = c
  /\ \/ /\ attempts' = [attempts EXCEPT ![Newest].alive = TRUE]
        /\ Go(c, At("running", at[c].index, 0, {}))
        /\ UNCHANGED <<effects, overrides, status, lease>>
     \/ Throw(c)
  /\ UNCHANGED <<workspace, clearing, remote>>

\* The Runtime ended: a checkpoint of what it left.  ok is false, too, when
\* the capsule was not acknowledged.
Checkpoint(c) ==
  /\ at[c].step = "running" /\ lease = c /\ ~attempts[Newest].alive
  /\ \E ok, aborted \in BOOLEAN :
       /\ ~(ok /\ aborted)
       /\ attempts' = [attempts EXCEPT
            ![Newest].after = workspace,
            ![Newest].check =
              CASE ok -> "succeeded"
                [] ~ok /\ ~aborted /\ Plan[at[c].index].onFailure = "handoff"
                   /\ workspace # attempts[Newest].before -> "handed_off"
                [] OTHER -> "failed"]
  /\ Go(c, At("finish", at[c].index, 0, {}))
  /\ UNCHANGED <<effects, overrides, status, workspace, lease, clearing, remote>>

Finish(c) ==
  /\ at[c].step = "finish" /\ lease = c
  /\ LET s == at[c].index
         check == attempts[Newest].check
     IN /\ attempts' = [attempts EXCEPT
             ![Newest].finished = TRUE,
             ![Newest].effect = CASE Changed(Newest) -> "confirmed"
                                  [] ~Changed(Newest) /\ check = "succeeded" -> "skipped"
                                  [] OTHER -> "failed"]
        /\ Go(c, CASE check = "succeeded" -> At("verify", 0, 0, {})
                   [] check = "handed_off" -> At("save", s + 1, s, {})
                   [] OTHER -> At("wait", 0, 0, {}))
  /\ UNCHANGED <<effects, overrides, status, workspace, lease, clearing, remote>>

-----------------------------------------------------------------------------
(* #persistHandoffCompositeCheckpoint, called with the workspace as the
   Attempt left it, or, at a recovery and before a decision, as it is. *)

Persist(a, work) ==
  attempts' = [attempts EXCEPT ![a].composite = [work |-> work, effects |-> effects]]

\* At the end of an Attempt (source # 0) and of its recovery
Save(c) ==
  /\ at[c].step = "save" /\ lease = c
  /\ LET a == Frontier
         work == IF at[c].source # 0 THEN attempts[a].after ELSE workspace
     IN \/ /\ attempts[a].started /\ work = attempts[a].after
           /\ Persist(a, work)
           /\ Go(c, IF at[c].source # 0 THEN [at[c] EXCEPT !.step = "detect"]
                    ELSE At("execute", 0, 0, {}))
           /\ UNCHANGED <<effects, overrides, status, lease>>
        \/ /\ ~attempts[a].started \/ work # attempts[a].after
           /\ Throw(c)
  /\ UNCHANGED <<workspace, clearing, remote>>

\* #planHandoff: the Runtimes of the remaining stages are detected, any of
\* which may be ready; this is awaited ...
Detect(c) ==
  /\ at[c].step = "detect"
  /\ \E listed \in SUBSET {s \in Stages : s >= at[c].index} :
       Go(c, [at[c] EXCEPT !.step = "compose", !.listed = listed])
  /\ UNCHANGED <<log, workspace, lease, clearing, remote>>

\* ... the composite of the frontier is brought up to date, which is too ...
Compose(c) ==
  /\ at[c].step = "compose" /\ lease = c
  /\ LET a == Frontier
         needed == a # 0 /\ attempts[a].check = "handed_off" /\ ~Covers(attempts[a].composite, a)
         whole == attempts[a].started /\ workspace = attempts[a].after
     IN \/ /\ needed /\ ~whole /\ Throw(c)
        \/ /\ needed /\ whole /\ Persist(a, workspace)
           /\ Go(c, [at[c] EXCEPT !.step = "decide"])
           /\ UNCHANGED <<effects, overrides, status, lease>>
        \/ /\ ~needed /\ Go(c, [at[c] EXCEPT !.step = "decide"])
           /\ UNCHANGED <<log, lease>>
  /\ UNCHANGED <<workspace, clearing, remote>>

\* ... and the decision and the Profile it selects are appended together.
Decide(c) ==
  /\ at[c].step = "decide" /\ lease = c
  /\ \E ids \in Orders :
       LET in == PlannerInput(at[c].index, at[c].source, at[c].listed, ids)
           binding == PlanExecution(in)
           chosen == {k.stage : k \in {d \in in.candidates : d.id = binding.profile}}
       IN \/ chosen = {} /\ Go(c, At("wait", 0, 0, {}))
          \/ \E s \in chosen : Go(c, At("prepare", s, 0, {}))
  /\ UNCHANGED <<attempts, effects, overrides, status, workspace, lease, clearing, remote>>

-----------------------------------------------------------------------------
(* #verifyAndReceipt: MissionRun and MissionStore say what a receipt holds. *)

Receipt(c) ==
  /\ at[c].step = "verify" /\ lease = c
  /\ \E passed \in BOOLEAN :
       status' = IF /\ passed
                    /\ \A e \in Effects : effects[e] \in {None, "confirmed", "failed"}
                    /\ \A a \in DOMAIN attempts : attempts[a].effect # "intended"
                 THEN "succeeded" ELSE "failed"
  /\ Go(c, Idle) /\ Release(c)
  /\ UNCHANGED <<attempts, effects, overrides, workspace, clearing, remote>>

-----------------------------------------------------------------------------
(* The world: Runtimes, users, and the requests that take the lease
   themselves. *)

RuntimeEnds ==
  /\ \E a \in DOMAIN attempts :
       attempts[a].alive /\ attempts' = [attempts EXCEPT ![a].alive = FALSE]
  /\ UNCHANGED <<effects, overrides, status, workspace, lease, at, clearing, remote>>

\* of an agent, or of a developer; before the first Attempt nobody looks
Edit ==
  /\ attempts # <<>> /\ workspace < MaxEdits /\ workspace' = workspace + 1
  /\ UNCHANGED <<log, lease, at, clearing, remote>>

\* setExecutionPlannerOverride
Set == {i \in DOMAIN overrides : overrides[i].kind = "set"}
SetOverride ==
  /\ lease = None /\ Cardinality(Set) < MaxOverrides
  /\ \E s \in Wished :
       overrides' = Append(overrides,
                           [kind |-> "set", id |-> Cardinality(Set) + 1, stage |-> s])
  /\ UNCHANGED <<attempts, effects, status, workspace, lease, at, clearing, remote>>

\* clearExecutionPlannerOverride reads the override in force, then waits for
\* the lease.
ReadActive ==
  /\ clearing = 0 /\ ActiveOverride # None
  /\ clearing' = ActiveOverride.id
  /\ UNCHANGED <<log, workspace, lease, at, remote>>

AppendClear ==
  /\ clearing # 0 /\ lease = None
  /\ overrides' = Append(overrides, [kind |-> "cleared", id |-> clearing, stage |-> 0])
  /\ clearing' = 0
  /\ UNCHANGED <<attempts, effects, status, workspace, lease, at, remote>>

(* coordinateExternalEffect: ExternalEffect has its controllers one by one.  *)

\* withLease, for an Effect of an Attempt in the log.
BeginCoordination(e) ==
  /\ lease = None /\ attempts # <<>>
  /\ lease' = e /\ request' = "read"
  /\ UNCHANGED <<log, workspace, at, clearing, applied>>

Coordinating(e, step) == lease = e /\ request = step

\* One append, and where it leaves the request.
Record(e, now, step) ==
  /\ effects' = [effects EXCEPT ![e] = now]
  /\ request' = step
  /\ UNCHANGED <<attempts, overrides, status, workspace, lease, at, clearing, applied>>

RecordIntended(e) ==
  /\ Coordinating(e, "read") /\ effects[e] = None
  /\ Record(e, "intended", "read")

\* #startDispatch
RecordDispatch(e) ==
  /\ Coordinating(e, "read") /\ effects[e] = "intended"
  /\ Record(e, "dispatch_started", "sent")

\* #reconcile: the target is asked, and the Effect dispatched again if it does
\* not have it.
Reconcile(e) ==
  /\ Coordinating(e, "read") /\ effects[e] \in {"dispatch_started", "executed", "ambiguous"}
  /\ \/ e \in applied /\ Record(e, "confirmed", "over")
     \/ e \notin applied /\ Record(e, "dispatch_started", "sent")
     \/ Record(e, "ambiguous", "over")

TargetApplies(e) ==
  /\ Coordinating(e, "sent") /\ applied' = applied \cup {e}
  /\ UNCHANGED <<log, workspace, lease, at, clearing, request>>

\* #dispatch: accepted, rejected, or no answer that tells.
RecordAnswer(e) ==
  /\ Coordinating(e, "sent")
  /\ \/ e \in applied /\ Record(e, "executed", "accepted")
     \/ e \notin applied /\ Record(e, "failed", "over")
     \/ Record(e, "ambiguous", "over")

RecordConfirmed(e) ==
  /\ Coordinating(e, "accepted")
  /\ Record(e, "confirmed", "over")

\* The outcome is there, by this request or already.
EndCoordination(e) ==
  /\ Coordinating(e, "over")
     \/ (Coordinating(e, "read") /\ effects[e] \in {"confirmed", "failed"})
  /\ lease' = None /\ request' = "none"
  /\ UNCHANGED <<log, workspace, at, clearing, applied>>

Coordination(e) ==
  \/ BeginCoordination(e) \/ RecordIntended(e) \/ RecordDispatch(e) \/ Reconcile(e)
  \/ TargetApplies(e) \/ RecordAnswer(e) \/ RecordConfirmed(e) \/ EndCoordination(e)

-----------------------------------------------------------------------------
Controller(c) ==
  \/ Recover(c) \/ Close(c) \/ Execute(c) \/ Stage(c) \/ Prepare(c) \/ Start(c)
  \/ Prompt(c) \/ Checkpoint(c) \/ Finish(c) \/ Save(c) \/ Detect(c) \/ Compose(c) \/ Decide(c)
  \/ Receipt(c) \/ Wait(c) \/ Fenced(c)

World ==
  \/ RuntimeEnds \/ Edit \/ SetOverride \/ ReadActive \/ AppendClear
  \/ \E e \in Effects : Coordination(e)

Next ==
  \/ \E c \in Controllers : Resume(c) \/ Crash(c) \/ Controller(c)
  \/ LoseLease
  \/ World

Spec == Init /\ [][Next]_vars

-----------------------------------------------------------------------------
(* Properties *)

\* An Effect whose coordination was cut off: the log has its dispatch, or that
\* it was executed, and not what came of it.
CutOff(e) == effects[e] \in {"dispatch_started", "executed"}

\* An Attempt that starts after a checkpoint goes on from the workspace it left.
\* Its capsule names what must not be done again: every Attempt so far that
\* changed the workspace and no other; every external Effect that its target
\* has carried out, but for one that was cut off and has not been reconciled;
\* and none that it has not, but for one that is called ambiguous.  And
\* when the checkpoint was handed off, its composite has the workspace it left
\* and the status of every external Effect, the cut off ones too, as they are
\* by then, though Effects were reconciled while the Mission waited.
HandoffCarriesFrontier ==
  [][\A c \in Controllers :
       (at[c].step = "prepare" /\ at'[c].step = "start" /\ Frontier # 0) =>
         LET a == Frontier
             capsule == attempts'[Newest'].capsule
         IN
         /\ workspace = attempts[a].after
         /\ capsule \ Effects = {b \in DOMAIN attempts : Changed(b)}
         /\ \A e \in applied : e \in capsule \/ CutOff(e)
         /\ \A e \in capsule \cap Effects : e \in applied \/ effects[e] = "ambiguous"
         /\ attempts[a].check = "handed_off" =>
              attempts[a].composite = [work |-> attempts[a].after, effects |-> effects]]_vars

\* The stage a decision was right to choose: one of those that remain, whose
\* Runtime was seen ready, that can do what the failed stage had to, and
\* whose frontier can be handed over.
Qualified(c) ==
  LET needed == Plan[at[c].source] IN
  {s \in at[c].index..Len(Plan) :
     /\ s \in at[c].listed
     /\ ~Plan[s].hosted
     /\ ~needed.hosted => needed.writes \subseteq Plan[s].writes
     /\ needed.gate \subseteq Plan[s].gate
     /\ Frontier # 0 => /\ attempts[Frontier].composite # None
                        /\ attempts[Frontier].composite.work = attempts[Frontier].after}

\* The override a user set last, unless that very one was cleared since
InForce ==
  {overrides[i].stage : i \in {j \in Set :
     \A k \in (j + 1)..Len(overrides) :
       overrides[k].kind = "cleared" /\ overrides[k].id # overrides[j].id}}

\* A decision takes a stage that qualifies, and none only when none does;
\* the stage of the override in force at that moment, if there is one, or
\* none at all, although overrides were set and cleared by users who had
\* read older ones.
DecisionIsRight ==
  [][\A c \in Controllers :
       (at[c].step = "decide" /\ at'[c].step \in {"prepare", "wait"}) =>
         LET right == IF InForce = {} THEN Qualified(c) ELSE Qualified(c) \cap InForce
         IN  IF at'[c].step = "wait" THEN right = {} ELSE at'[c].index \in right]_vars

\* How far a command has come: its recovery, then stage after stage of the
\* plan, then its end.
Order == [recover |-> 1, close |-> 2, execute |-> 4, save |-> 0, detect |-> 1, compose |-> 2,
          decide |-> 3, stage |-> 4, prepare |-> 5, start |-> 6, prompt |-> 7, running |-> 8, finish |-> 9]
Far(place) ==
  CASE place.step \in {"idle", "wait", "verify"} -> 10 * (Len(Plan) + 2)
    [] place.step = "save" /\ place.source = 0 -> 3
    [] OTHER -> 10 * place.index + Order[place.step]

\* A command only ever goes forward, whatever Runtimes come and go: it never
\* takes up a stage again that it has tried, so that it ends.
GoesForward ==
  [][\A c \in Controllers :
       (at[c].step # "idle" /\ at'[c] # at[c]) =>
         Far(at'[c]) > Far(at[c]) \/ at'[c].step = "idle"]_vars
=============================================================================
