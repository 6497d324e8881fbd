----------------------------- MODULE MissionRun -----------------------------
(***************************************************************************)
(* Execution of a direct Mission (engine.ts): stages tried one after the   *)
(* other, each an Attempt with a Runtime process of its own, recovery of   *)
(* the Attempt that an ended controller left open, and verification with   *)
(* its receipt.                                                            *)
(*                                                                         *)
(* A step is one durable append, or one act on a Runtime, so that a        *)
(* controller may end between any two of them while its Runtime lives on.  *)
(* Appends need the workspace lease (WorkspaceLease); starting a Runtime   *)
(* and giving it the prompt do not.  Time is abstract: a lease may expire  *)
(* at any moment, and that of a process that ended does so at once.  Of    *)
(* the Mission's statuses only "succeeded" is told apart.  A Runtime       *)
(* without its prompt does nothing.                                        *)
(***************************************************************************)
EXTENDS Naturals

CONSTANTS Controllers,  \* processes that execute commands of the Mission
          None,         \* no live lease
          Stages,       \* length of the Mission's attempt plan
          HandOff,      \* stages with onFailure: handoff
          MaxAttempts   \* bound on Attempts

ASSUME RunAssumption ==
  /\ None \notin Controllers
  /\ Stages \in Nat \ {0}
  /\ HandOff \subseteq 1..Stages
  /\ MaxAttempts \in Nat \ {0}

Attempts == 1..MaxAttempts
Developer == 0

VARIABLES
  planned,    \* Attempts in the Mission log are 1..planned
  stage,      \* attempt.plan: the stage of each
  before,     \* attempt.baseline: the workspace when it was bound
  pid,        \* runtime.process_started is in the log
  check,      \* status of its checkpoint, "none" before checkpoint.created
  after,      \* the workspace at that checkpoint
  effect,     \* status of its workspace Effect
  finished,   \* attempt.finished
  status,     \* status of the Mission: "succeeded", or "active" for the others
  receipt,    \* outcome of the newest receipt
  workspace,  \* who has changed the working copy: Attempts, the developer
  runtime,    \* the Runtime process of each Attempt
  lease,      \* owner of the live workspace lease
  at          \* where each controller is: its step, the Attempt it works on,
              \* the stage to try, the workspace as its verification began

attempt == <<planned, stage, before, pid, check, after, effect, finished>>
mission == <<status, receipt>>
vars == <<attempt, mission, workspace, runtime, lease, at>>

Steps == {"idle", "recover", "recoverEffect", "recoverFinish", "execute",
          "handoff", "stage", "planned", "bound", "started", "spawned",
          "recorded", "running", "checkpointed", "resolved", "failed",
          "verify", "verifying"}
Tree == SUBSET (Attempts \cup {Developer})
Place == [step : Steps, attempt : 0..MaxAttempts, stage : 0..(Stages + 1), checked : Tree]
At(step) == [step |-> step, attempt |-> 0, stage |-> 0, checked |-> {}]

TypeOK ==
  /\ planned \in 0..MaxAttempts
  /\ stage \in [Attempts -> 0..Stages]
  /\ before \in [Attempts -> Tree]
  /\ pid \in [Attempts -> BOOLEAN]
  /\ check \in [Attempts -> {"none", "succeeded", "handed_off", "failed"}]
  /\ after \in [Attempts -> Tree]
  /\ effect \in [Attempts -> {"none", "intended", "confirmed", "failed", "skipped"}]
  /\ finished \in [Attempts -> {"none", "succeeded", "failed", "abandoned"}]
  /\ status \in {"active", "succeeded"}
  /\ receipt \in {"none", "verified", "rejected"}
  /\ workspace \in Tree
  /\ runtime \in [Attempts -> {"none", "spawned", "prompted", "gone"}]
  /\ lease \in Controllers \cup {None}
  /\ at \in [Controllers -> Place]

Init ==
  /\ planned = 0
  /\ stage = [a \in Attempts |-> 0]
  /\ before = [a \in Attempts |-> {}]
  /\ pid = [a \in Attempts |-> FALSE]
  /\ check = [a \in Attempts |-> "none"]
  /\ after = [a \in Attempts |-> {}]
  /\ effect = [a \in Attempts |-> "none"]
  /\ finished = [a \in Attempts |-> "none"]
  /\ status = "active"
  /\ receipt = "none"
  /\ workspace = {}
  /\ runtime = [a \in Attempts |-> "none"]
  /\ lease = None
  /\ at = [c \in Controllers |-> At("idle")]

-----------------------------------------------------------------------------
(* What a controller reads from the log (reconstructExecutionState).       *)

Open == {a \in 1..planned : finished[a] = "none"}
Checkpointed == {a \in 1..planned : check[a] # "none"}
IsFrontier(a) == a \in Checkpointed /\ \A b \in Checkpointed : b <= a
HandedOff == \E a \in Checkpointed : IsFrontier(a) /\ check[a] = "handed_off"
Diverged == \E a \in Checkpointed : IsFrontier(a) /\ after[a] # workspace

Progressed(s) == \E a \in Checkpointed : stage[a] = s /\ check[a] \in {"succeeded", "handed_off"}
NextStageIndex ==
  CHOOSE s \in 1..(Stages + 1) :
    /\ s = Stages + 1 \/ ~Progressed(s)
    /\ \A t \in 1..(s - 1) : Progressed(t)

\* Mutant: only Effects of finished Attempts are looked at.
UnresolvedFinished == {a \in 1..planned : finished[a] # "none" /\ effect[a] = "intended"}

Unresolved == {a \in 1..planned : effect[a] = "intended"}

Alive == {a \in Attempts : runtime[a] \in {"spawned", "prompted"}}

-----------------------------------------------------------------------------
Holds(c, step) == lease = c /\ at[c].step = step
Own(c) == at[c].attempt
Goto(c, step) == at' = [at EXCEPT ![c].step = step] /\ UNCHANGED lease
GotoWith(c, step, a) == at' = [at EXCEPT ![c] = [At(step) EXCEPT !.attempt = a]] /\ UNCHANGED lease
GotoStage(c, step, s) == at' = [at EXCEPT ![c] = [At(step) EXCEPT !.stage = s]] /\ UNCHANGED lease
\* #withLease is over: normally or with an exception.
End(c) == at' = [at EXCEPT ![c] = At("idle")] /\ lease' = None

\* Mutant: a resumed Mission goes on without recovery.
AcquireWithoutRecovery(c) ==
  /\ at[c].step = "idle" /\ lease = None
  /\ lease' = c
  /\ \E step \in {"execute", "verify"} : at' = [at EXCEPT ![c] = At(step)]
  /\ UNCHANGED <<attempt, mission, workspace, runtime>>

\* executeCommand: resume recovers first, verify does not.
AcquireLease(c) ==
  /\ at[c].step = "idle" /\ lease = None
  /\ lease' = c
  /\ \E step \in {"recover", "verify"} : at' = [at EXCEPT ![c] = At(step)]
  /\ UNCHANGED <<attempt, mission, workspace, runtime>>

-----------------------------------------------------------------------------
(* #closeDanglingAttempts                                                  *)

\* The open Attempt gets the checkpoint it lacks, from the workspace as it is
\* now; one it has must still describe the workspace.
RecoverCheckpoint(c, a) ==
  \/ /\ check[a] = "none"
     /\ check' = [check EXCEPT ![a] =
          IF workspace # before[a] /\ stage[a] \in HandOff THEN "handed_off" ELSE "failed"]
     /\ after' = [after EXCEPT ![a] = workspace]
     /\ GotoWith(c, "recoverEffect", a)
  \/ /\ check[a] # "none"
     /\ IF workspace = after[a] THEN GotoWith(c, "recoverEffect", a) ELSE End(c)
     /\ UNCHANGED <<check, after>>

\* Mutant: nobody asks whether the recorded process still exists.
RecoverWithoutProbe(c) ==
  /\ Holds(c, "recover")
  /\ \/ /\ Open = {}
        /\ Goto(c, "execute") /\ UNCHANGED <<check, after>>
     \/ \E a \in Open : RecoverCheckpoint(c, a)
  /\ UNCHANGED <<planned, stage, before, pid, effect, finished, mission, workspace, runtime>>

\* Several open Attempts, or a recorded process that still exists, end the
\* command with an error.
Recover(c) ==
  /\ Holds(c, "recover")
  /\ IF Open = {}
       THEN Goto(c, "execute") /\ UNCHANGED <<check, after>>
       ELSE IF (\E a, b \in Open : a # b) \/ (\E a \in Open : pid[a] /\ a \in Alive)
         THEN End(c) /\ UNCHANGED <<check, after>>
         ELSE \E a \in Open : RecoverCheckpoint(c, a)
  /\ UNCHANGED <<planned, stage, before, pid, effect, finished, mission, workspace, runtime>>

Changed(a) == after[a] # before[a]

\* Mutant: the Runtime is gone, so its Effect has failed.
RecoverEffectFailed(c) ==
  /\ Holds(c, "recoverEffect")
  /\ effect' = [effect EXCEPT ![Own(c)] = IF @ = "intended" THEN "failed" ELSE @]
  /\ Goto(c, "recoverFinish")
  /\ UNCHANGED <<planned, stage, before, pid, check, after, finished, mission, workspace,
                 runtime>>

RecoverEffect(c) ==
  /\ Holds(c, "recoverEffect")
  /\ effect' = [effect EXCEPT ![Own(c)] =
        IF @ # "intended" THEN @ ELSE IF Changed(Own(c)) THEN "confirmed" ELSE "failed"]
  /\ Goto(c, "recoverFinish")
  /\ UNCHANGED <<planned, stage, before, pid, check, after, finished, mission, workspace,
                 runtime>>

\* The Composite Checkpoint of a handed-off Attempt is refused if the
\* workspace has moved on meanwhile.
RecoverFinish(c) ==
  /\ Holds(c, "recoverFinish")
  /\ finished' = [finished EXCEPT ![Own(c)] = "abandoned"]
  /\ IF HandedOff /\ Diverged THEN End(c) ELSE Goto(c, "execute")
  /\ UNCHANGED <<planned, stage, before, pid, check, after, effect, mission, workspace,
                 runtime>>

-----------------------------------------------------------------------------
(* #execute and #planHandoff                                               *)

\* The next stage is the first without a checkpoint that succeeded or was
\* handed off; past the last one there is only verification.
Execute(c) ==
  /\ Holds(c, "execute")
  /\ IF status = "succeeded"
       THEN End(c)
       ELSE GotoStage(c, IF NextStageIndex > Stages THEN "verify"
                         ELSE IF HandedOff THEN "handoff" ELSE "stage", NextStageIndex)
  /\ UNCHANGED <<attempt, mission, workspace, runtime>>

\* #setWaiting, and the command is over.
Wait(c) ==
  /\ status' = "active"
  /\ End(c)
  /\ UNCHANGED <<attempt, receipt, workspace, runtime>>

\* The planner selects any of the stages left, or none is eligible.
PlanHandoff(c) ==
  /\ Holds(c, "handoff")
  /\ IF HandedOff /\ Diverged
       THEN End(c) /\ UNCHANGED <<attempt, mission, workspace, runtime>>
       ELSE \/ \E s \in at[c].stage..Stages :
                 /\ GotoStage(c, "planned", s)
                 /\ UNCHANGED <<attempt, mission, workspace, runtime>>
            \/ Wait(c)

-----------------------------------------------------------------------------
(* #executeStage                                                           *)

DetectStage(c) ==
  /\ Holds(c, "stage")
  /\ \/ /\ Goto(c, "planned")
        /\ UNCHANGED <<attempt, mission, workspace, runtime>>
     \/ /\ at[c].stage \in HandOff
        /\ GotoStage(c, "handoff", at[c].stage + 1)
        /\ UNCHANGED <<attempt, mission, workspace, runtime>>
     \/ at[c].stage \notin HandOff /\ Wait(c)

\* The workspace must be as the last checkpoint left it, and a capsule for
\* the new Runtime must fit its budget; then binding, baseline, intended
\* Effect and plan are appended in one batch.
BindAttempt(c) ==
  /\ Holds(c, "planned")
  /\ \/ /\ ~Diverged
        /\ planned < MaxAttempts
        /\ planned' = planned + 1
        /\ stage' = [stage EXCEPT ![planned + 1] = at[c].stage]
        /\ before' = [before EXCEPT ![planned + 1] = workspace]
        /\ effect' = [effect EXCEPT ![planned + 1] = "intended"]
        /\ GotoWith(c, "bound", planned + 1)
        /\ UNCHANGED <<pid, check, after, finished, mission, workspace, runtime>>
     \/ Checkpointed # {} /\ Wait(c)

StartAttempt(c) ==
  /\ Holds(c, "bound")
  /\ status' = "active"
  /\ Goto(c, "started")
  /\ UNCHANGED <<attempt, receipt, workspace, runtime>>

\* runProcess: spawn, which may fail.
Spawn(c) ==
  /\ at[c].step = "started"
  /\ \/ runtime' = [runtime EXCEPT ![Own(c)] = "spawned"] /\ Goto(c, "spawned")
     \/ runtime' = [runtime EXCEPT ![Own(c)] = "gone"] /\ Goto(c, "running")
  /\ UNCHANGED <<attempt, mission, workspace>>

\* onStart: the prompt is withheld until the process is in the log.
RecordProcess(c) ==
  /\ Holds(c, "spawned")
  /\ pid' = [pid EXCEPT ![Own(c)] = TRUE]
  /\ Goto(c, "recorded")
  /\ UNCHANGED <<planned, stage, before, check, after, effect, finished, mission, workspace,
                 runtime>>

SendPrompt(c) ==
  /\ at[c].step = "recorded"
  /\ runtime' = [runtime EXCEPT ![Own(c)] = IF @ = "spawned" THEN "prompted" ELSE @]
  /\ Goto(c, "running")
  /\ UNCHANGED <<attempt, mission, workspace>>

\* The process is over.  It succeeded (acknowledgement included) or not; a
\* failure with changes is handed off unless the process was aborted.
FinishRuntime(c) ==
  /\ Holds(c, "running")
  /\ runtime[Own(c)] = "gone"
  /\ \E outcome \in {"succeeded", "handed_off", "failed"} :
       /\ outcome = "succeeded" => pid[Own(c)]
       /\ outcome = "handed_off" =>
            stage[Own(c)] \in HandOff /\ workspace # before[Own(c)]
       /\ check' = [check EXCEPT ![Own(c)] = outcome]
  /\ after' = [after EXCEPT ![Own(c)] = workspace]
  /\ Goto(c, "checkpointed")
  /\ UNCHANGED <<planned, stage, before, pid, effect, finished, mission, workspace, runtime>>

ResolveEffect(c) ==
  /\ Holds(c, "checkpointed")
  /\ effect' = [effect EXCEPT ![Own(c)] =
        IF Changed(Own(c)) THEN "confirmed"
        ELSE IF check[Own(c)] = "succeeded" THEN "skipped" ELSE "failed"]
  /\ Goto(c, "resolved")
  /\ UNCHANGED <<planned, stage, before, pid, check, after, finished, mission, workspace,
                 runtime>>

\* What follows an Attempt: verification, the next stage, or waiting.
AfterAttempt(c) ==
  CASE check[Own(c)] = "succeeded" -> GotoWith(c, "verify", 0)
    [] check[Own(c)] = "failed"    -> GotoWith(c, "failed", 0)
    [] OTHER -> IF Diverged THEN End(c) ELSE GotoStage(c, "handoff", stage[Own(c)] + 1)

FinishAttempt(c) ==
  /\ Holds(c, "resolved")
  /\ finished' = [finished EXCEPT ![Own(c)] =
        IF check[Own(c)] = "succeeded" THEN "succeeded" ELSE "failed"]
  /\ AfterAttempt(c)
  /\ UNCHANGED <<planned, stage, before, pid, check, after, effect, mission, workspace,
                 runtime>>

WaitAfterFailure(c) == Holds(c, "failed") /\ Wait(c)

-----------------------------------------------------------------------------
(* #verifyAndReceipt                                                       *)

BeginVerification(c) ==
  /\ Holds(c, "verify")
  /\ status' = "active"
  /\ at' = [at EXCEPT ![c] = [At("verifying") EXCEPT !.checked = workspace]]
  /\ UNCHANGED <<attempt, receipt, workspace, runtime, lease>>

\* The verifiers have passed or not; log read and receipt.issued without an
\* await between them, so that #assertReceipt accepts it.
IssueReceipt(c) ==
  /\ Holds(c, "verifying")
  /\ \E passed \in BOOLEAN :
       IF passed /\ Unresolved = {}
         THEN receipt' = "verified" /\ status' = "succeeded"
         ELSE receipt' = "rejected" /\ status' = "active"
  /\ End(c)
  /\ UNCHANGED <<attempt, workspace, runtime>>

-----------------------------------------------------------------------------
\* The command throws (a detection or an artifact fails, a prompt is over budget,
\* a verifier is aborted), or its process ends, by itself or since a renewal
\* throws.  Its Runtime may live on.
Crash(c) ==
  /\ at[c].step # "idle"
  /\ at' = [at EXCEPT ![c] = At("idle")]
  /\ lease' = IF lease = c THEN None ELSE lease
  /\ UNCHANGED <<attempt, mission, workspace, runtime>>

\* The holder was stopped or delayed for too long.  Its next append throws, but
\* the Runtime it is about to start comes before.
ExpireLease ==
  /\ lease # None
  /\ lease' = None
  /\ at' = [at EXCEPT ![lease] = IF @.step \in {"started", "recorded"} THEN @ ELSE At("idle")]
  /\ UNCHANGED <<attempt, mission, workspace, runtime>>

\* The Runtime of a, which may be killed at any time.
Write(a) ==
  /\ runtime[a] = "prompted"
  /\ workspace' = workspace \cup {a}
  /\ UNCHANGED <<attempt, mission, runtime, lease, at>>

Exit(a) ==
  /\ a \in Alive
  /\ runtime' = [runtime EXCEPT ![a] = "gone"]
  /\ UNCHANGED <<attempt, mission, workspace, lease, at>>

DeveloperEdits ==
  /\ workspace' = workspace \cup {Developer}
  /\ UNCHANGED <<attempt, mission, runtime, lease, at>>

Advance(c) ==
  \/ AcquireLease(c)
  \/ Recover(c) \/ RecoverEffect(c) \/ RecoverFinish(c)
  \/ Execute(c) \/ PlanHandoff(c)
  \/ DetectStage(c) \/ BindAttempt(c) \/ StartAttempt(c)
  \/ Spawn(c) \/ RecordProcess(c) \/ SendPrompt(c)
  \/ FinishRuntime(c) \/ ResolveEffect(c) \/ FinishAttempt(c) \/ WaitAfterFailure(c)
  \/ BeginVerification(c) \/ IssueReceipt(c)

Next ==
  \/ \E c \in Controllers : Advance(c) \/ Crash(c)
  \/ ExpireLease
  \/ \E a \in Attempts : Write(a) \/ Exit(a)
  \/ DeveloperEdits

Spec == Init /\ [][Next]_vars

-----------------------------------------------------------------------------
\* At most one Runtime works on the workspace, whatever controllers end, stall
\* or lose their lease around its start: the prompt is withheld until the
\* process is in the log, and recovery refuses while that process exists.
SingleWriter ==
  \A a, b \in Attempts : runtime[a] = "prompted" /\ runtime[b] = "prompted" => a = b

\* Recovery never meets two open Attempts (where it could only give up).
AtMostOneOpen == \A a, b \in Open : a = b

\* One Agent at a time, on the workspace and in the log (#closeDanglingAttempts).
OneAtATime == SingleWriter /\ AtMostOneOpen

\* A finished Attempt, which nobody recovers any more, has a checkpoint and
\* does not leave its Effect intended (it would bar every verified receipt);
\* and what its Agent changed is in the delta of that checkpoint, and disclosed
\* as a confirmed Effect, by the controller that ran it or by one that
\* recovered it.
FinishedIsDisclosed ==
  \A a \in 1..planned : finished[a] # "none" =>
    /\ check[a] # "none" /\ effect[a] # "intended"
    /\ a \in workspace => a \in after[a] \ before[a] /\ effect[a] = "confirmed"

\* A Mission succeeds only with no Agent at work, every Attempt checkpointed,
\* and no Agent has touched the workspace since its verification began: verify
\* alone recovers nothing and asks for no process.  (An Attempt may still be
\* open, if its controller ended between its Effect and attempt.finished.)
VerifiedIsQuiet ==
  [][status # "succeeded" /\ status' = "succeeded" =>
       /\ Checkpointed = 1..planned
       /\ \A a \in Attempts : runtime[a] # "prompted"
       /\ workspace \subseteq at[lease].checked \cup {Developer}]_vars

-----------------------------------------------------------------------------
\* engine.test.ts: "verifies immediately after the preferred Runtime succeeds
\* without starting a fallback": a later stage is tried only if the one before
\* has not succeeded, or a receipt has rejected it.
FallbackAfterFailure ==
  [][planned' # planned /\ receipt # "rejected" =>
       \A a \in Checkpointed : check[a] # "succeeded"]_vars
=============================================================================
