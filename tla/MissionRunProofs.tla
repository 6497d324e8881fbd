-------------------------- MODULE MissionRunProofs --------------------------
(***************************************************************************)
(* One Agent at a time, and what it did is disclosed: for every number of  *)
(* controllers, stages and Attempts, with controllers that end, stall or   *)
(* lose their lease between any two steps while their Runtimes live on.    *)
(*                                                                         *)
(* The strengthening has three parts: what the log says of an Attempt      *)
(* whatever its controller does (AttemptInv), what a controller that works *)
(* on an Attempt, with or without its lease, knows of it (WorkInv), and    *)
(* what the holder of the lease knows of the log (HolderInv).              *)
(*                                                                         *)
(* Then the page that shows such Missions (Workbench): what it displays,   *)
(* the detail at hand, the request under way and the log of a Mission are  *)
(* never behind one another, whatever overtakes what (BenchOrder), so that *)
(* a status that is displayed never goes back.                             *)
(***************************************************************************)
EXTENDS MissionRun, Workbench, WellFoundedInduction, TLAPS

\* Steps of a controller that has bound an Attempt, and of one that recovers.
Executing == {"bound", "started", "spawned", "recorded", "running", "checkpointed", "resolved"}
Recovering == {"recoverEffect", "recoverFinish"}

\* The prompt comes after the process is in the log, the checkpoint after the
\* process is over; a checkpoint has what the Agent wrote, and an Effect that
\* is resolved tells of it.
Recorded(a) ==
  /\ a > planned => check[a] = "none" /\ finished[a] = "none" /\ ~pid[a]
  /\ a <= planned /\ check[a] = "none" => effect[a] = "intended"
  /\ runtime[a] = "prompted" \/ a \in workspace => pid[a]
  /\ pid[a] /\ runtime[a] \in {"spawned", "prompted"} => check[a] = "none"
  /\ a \notin before[a]
  /\ finished[a] # "none" => check[a] # "none" /\ effect[a] # "intended"
  /\ check[a] # "none" /\ a \in workspace =>
       a \in after[a] /\ effect[a] \in {"intended", "confirmed"}
AttemptInv == \A a \in Attempts : Recorded(a)

\* A controller works on an Attempt that is in the log and nobody else's; its
\* process is recorded or not as its step says, also when the lease is lost.
Works(c) ==
  /\ at[c].step \in Executing \cup Recovering => Own(c) \in 1..planned
  /\ at[c].step \in {"bound", "started", "spawned"} => ~pid[Own(c)]
  /\ at[c].step = "recorded" => pid[Own(c)]
  /\ at[c].step \in {"stage", "planned"} => at[c].stage <= Stages
  /\ \A d \in Controllers :
       at[c].step \in Executing /\ at[d].step \in Executing /\ Own(c) = Own(d) => c = d
WorkInv == \A c \in Controllers : Works(c)

\* Under the lease no Attempt is open but the one at hand, and since the
\* verification began only an Agent without a checkpoint can have written.
Knows(c) ==
  /\ at[c].step \in {"execute", "handoff", "stage", "planned"} => Open = {}
  /\ at[c].step \in Executing \cup Recovering => Open \subseteq {Own(c)}
  /\ at[c].step \in {"bound", "started", "spawned"} => check[Own(c)] = "none"
  /\ at[c].step \in {"checkpointed", "resolved"} \cup Recovering => check[Own(c)] # "none"
  /\ at[c].step \in {"resolved", "recoverFinish"} => effect[Own(c)] # "intended"
  /\ at[c].step = "verifying" =>
       \A a \in workspace : a \in at[c].checked \/ a = Developer \/ check[a] = "none"
HolderInv == \A c \in Controllers : lease = c => Knows(c)

IInv == TypeOK /\ AtMostOneOpen /\ AttemptInv /\ WorkInv /\ HolderInv

-----------------------------------------------------------------------------
(* The stage to try next exists: a set of numbers has a least member.      *)

LEMMA LeastMember ==
  ASSUME NEW S \in SUBSET Nat, S # {}
  PROVE  \E m \in S : \A n \in S : m <= n
<1> DEFINE R == OpToRel(<, Nat)
<1>1. IsWellFoundedOn(R, Nat)
  BY NatLessThanWellFounded
<1>2. ASSUME NEW x \in Nat, NEW y \in Nat, x < y PROVE <<x, y>> \in R
  BY <1>2 DEF OpToRel
<1> HIDE DEF R
<1>3. PICK m \in S : \A n \in S : ~(<<n, m>> \in R)
  BY <1>1, WFMin
<1>4. \A n \in S : ~(n < m)
  BY <1>2, <1>3
<1> QED
  BY <1>4

LEMMA NextStageExists == NextStageIndex \in 1..(Stages + 1)
<1> DEFINE S == {s \in 1..(Stages + 1) : s = Stages + 1 \/ ~Progressed(s)}
<1>1. Stages \in Nat
  BY RunAssumption
<1>2. S \in SUBSET Nat /\ Stages + 1 \in S
  BY <1>1
<1>3. PICK m \in S : \A s \in S : m <= s
  BY <1>2, LeastMember
<1>4. ASSUME NEW t \in 1..(m - 1), ~Progressed(t) PROVE FALSE
  <2>1. t \in S /\ t < m
    BY <1>1, <1>4
  <2> QED
    BY <1>2, <1>3, <2>1
<1>5. \E s \in 1..(Stages + 1) :
        (s = Stages + 1 \/ ~Progressed(s)) /\ \A t \in 1..(s - 1) : Progressed(t)
  BY <1>3, <1>4
<1> QED
  BY <1>5 DEF NextStageIndex

-----------------------------------------------------------------------------
(* Where a controller goes.                                                *)

LEMMA Moves ==
  ASSUME TypeOK, NEW c \in Controllers, NEW step \in Steps
  PROVE  /\ Goto(c, step) =>
              /\ at' \in [Controllers -> Place] /\ lease' = lease
              /\ at'[c].step = step /\ at'[c].attempt = at[c].attempt /\ at'[c].stage = at[c].stage
              /\ \A d \in Controllers \ {c} : at'[d] = at[d]
         /\ \A a \in 0..MaxAttempts : GotoWith(c, step, a) =>
              /\ at' \in [Controllers -> Place] /\ lease' = lease
              /\ at'[c].step = step /\ at'[c].attempt = a
              /\ \A d \in Controllers \ {c} : at'[d] = at[d]
         /\ \A s \in 0..(Stages + 1) : GotoStage(c, step, s) =>
              /\ at' \in [Controllers -> Place] /\ lease' = lease
              /\ at'[c].step = step /\ at'[c].stage = s
              /\ \A d \in Controllers \ {c} : at'[d] = at[d]
         /\ End(c) =>
              /\ at' \in [Controllers -> Place] /\ lease' = None
              /\ at'[c].step = "idle"
              /\ \A d \in Controllers \ {c} : at'[d] = at[d]
<1>0. MaxAttempts \in Nat /\ Stages \in Nat /\ at \in [Controllers -> Place]
  BY RunAssumption DEF TypeOK
<1>1. \A s \in Steps : At(s) \in Place /\ At(s).step = s
  BY <1>0 DEF At, Place, Tree
<1>2. ASSUME Goto(c, step)
      PROVE  /\ at' \in [Controllers -> Place] /\ lease' = lease
             /\ at'[c].step = step /\ at'[c].attempt = at[c].attempt /\ at'[c].stage = at[c].stage
             /\ \A d \in Controllers \ {c} : at'[d] = at[d]
  BY <1>0, <1>2 DEF Goto, Place
<1>3. ASSUME NEW a \in 0..MaxAttempts, GotoWith(c, step, a)
      PROVE  /\ at' \in [Controllers -> Place] /\ lease' = lease
             /\ at'[c].step = step /\ at'[c].attempt = a
             /\ \A d \in Controllers \ {c} : at'[d] = at[d]
  <2>1. [At(step) EXCEPT !.attempt = a] \in Place
    BY <1>0 DEF At, Place, Tree
  <2>2. [At(step) EXCEPT !.attempt = a].step = step /\ [At(step) EXCEPT !.attempt = a].attempt = a
    BY DEF At
  <2> QED
    BY <1>0, <1>3, <2>1, <2>2 DEF GotoWith
<1>4. ASSUME NEW s \in 0..(Stages + 1), GotoStage(c, step, s)
      PROVE  /\ at' \in [Controllers -> Place] /\ lease' = lease
             /\ at'[c].step = step /\ at'[c].stage = s
             /\ \A d \in Controllers \ {c} : at'[d] = at[d]
  <2>1. [At(step) EXCEPT !.stage = s] \in Place
    BY <1>0 DEF At, Place, Tree
  <2>2. [At(step) EXCEPT !.stage = s].step = step /\ [At(step) EXCEPT !.stage = s].stage = s
    BY DEF At
  <2> QED
    BY <1>0, <1>4, <2>1, <2>2 DEF GotoStage
<1>5. ASSUME End(c)
      PROVE  /\ at' \in [Controllers -> Place] /\ lease' = None
             /\ at'[c].step = "idle"
             /\ \A d \in Controllers \ {c} : at'[d] = at[d]
  BY <1>0, <1>1, <1>5 DEF End, Steps
<1> QED
  BY <1>2, <1>3, <1>4, <1>5

-----------------------------------------------------------------------------
LEMMA InitInv == Init => IInv
<1> SUFFICES ASSUME Init PROVE IInv
  OBVIOUS
<1>0. MaxAttempts \in Nat /\ Stages \in Nat /\ None \notin Controllers
  BY RunAssumption
<1>1. At("idle") \in Place /\ At("idle").step = "idle"
  BY <1>0 DEF At, Place, Tree, Steps
<1>2. TypeOK
  BY <1>0, <1>1 DEF Init, TypeOK, Tree
<1>3. AttemptInv
  BY <1>0 DEF Init, AttemptInv, Recorded, Attempts
<1>4. AtMostOneOpen
  BY DEF Init, AtMostOneOpen, Open
<1>5. WorkInv /\ HolderInv
  BY <1>0, <1>1 DEF Init, WorkInv, Works, HolderInv, Knows, Executing, Recovering
<1> QED
  BY <1>2, <1>3, <1>4, <1>5 DEF IInv

-----------------------------------------------------------------------------
\* Steps that only move a controller: they start or end a command, choose a
\* stage, wait, or verify.
LEMMA QuietStep ==
  ASSUME IInv, UNCHANGED <<attempt, workspace, runtime>>, NEW c \in Controllers,
         at' \in [Controllers -> Place], lease' \in {lease, c, None},
         lease' = c => lease \in {c, None},
         \A d \in Controllers \ {c} : at'[d] = at[d],
         at'[c].step \in {"stage", "planned"} => at'[c].stage <= Stages,
         status' \in {"active", "succeeded"}, receipt' \in {"none", "verified", "rejected"},
         \/ at'[c].step \in {"idle", "recover", "verify", "failed"}
         \/ at'[c].step \in {"execute", "handoff", "stage", "planned"} /\ (lease' = c => Open = {})
         \/ at'[c].step = "verifying" /\ workspace \subseteq at'[c].checked
         \/ at'[c] = at[c] /\ lease' # c
         \/ at[c].step = "bound" /\ at'[c].step = "started" /\ Own(c)' = Own(c) /\ lease' = lease
  PROVE  IInv'
<1>0. lease' \in Controllers \cup {None}
  BY DEF IInv, TypeOK
<1>1. TypeOK'
  BY <1>0 DEF IInv, TypeOK, attempt
<1>2. AttemptInv' /\ AtMostOneOpen'
  BY DEF IInv, AttemptInv, Recorded, AtMostOneOpen, Open, attempt
<1>3. WorkInv'
  BY DEF IInv, WorkInv, Works, Executing, Recovering, Own, attempt
<1>4. HolderInv'
  <2> SUFFICES ASSUME NEW d \in Controllers, lease' = d PROVE Knows(d)'
    BY DEF HolderInv
  <2>1. CASE d # c
    <3>1. lease = d /\ at'[d] = at[d]
      BY RunAssumption, <2>1
    <3> QED
      BY <3>1 DEF IInv, HolderInv, Knows, Own, Open, attempt
  <2>2. CASE d = c
    BY <2>2 DEF IInv, HolderInv, Knows, Own, Open, attempt, Executing, Recovering
  <2> QED
    BY <2>1, <2>2
<1> QED
  BY <1>1, <1>2, <1>3, <1>4 DEF IInv

LEMMA QuietActions ==
  ASSUME IInv, NEW c \in Controllers,
         \/ AcquireLease(c) \/ Execute(c) \/ PlanHandoff(c) \/ DetectStage(c) \/ StartAttempt(c)
         \/ WaitAfterFailure(c) \/ BeginVerification(c) \/ IssueReceipt(c) \/ Crash(c)
  PROVE  IInv'
<1>0. /\ TypeOK /\ status \in {"active", "succeeded"} /\ receipt \in {"none", "verified", "rejected"}
      /\ Stages \in Nat /\ MaxAttempts \in Nat /\ None \notin Controllers
      /\ \A d \in Controllers : at[d] \in Place /\ at[d].stage \in 0..(Stages + 1)
  BY RunAssumption DEF IInv, TypeOK, Place
<1>1. \A step \in Steps : At(step) \in Place /\ At(step).step = step
  BY <1>0 DEF At, Place, Tree
<1>2. CASE AcquireLease(c)
  <2>1. PICK step \in {"recover", "verify"} : at' = [at EXCEPT ![c] = At(step)]
    BY <1>2 DEF AcquireLease
  <2>2. /\ at' \in [Controllers -> Place] /\ at'[c].step = step
        /\ \A d \in Controllers \ {c} : at'[d] = at[d]
    BY <1>0, <1>1, <2>1 DEF TypeOK, Steps
  <2> QED
    BY <1>0, <1>2, <2>2, QuietStep DEF AcquireLease, mission
<1>3. CASE Execute(c)
  <2>1. CASE status = "succeeded"
    BY <1>0, <1>3, <2>1, Moves, QuietStep DEF Execute, mission, Steps
  <2>2. CASE status # "succeeded"
    <3>1. PICK step \in {"verify", "handoff", "stage"} :
             GotoStage(c, step, NextStageIndex) /\ (step = "stage" => ~(NextStageIndex > Stages))
      BY <1>3, <2>2 DEF Execute
    <3>2. /\ at' \in [Controllers -> Place] /\ lease' = lease /\ at'[c].step = step
          /\ at'[c].stage = NextStageIndex
          /\ \A d \in Controllers \ {c} : at'[d] = at[d]
      BY <1>0, <3>1, NextStageExists, Moves DEF Steps
    <3>3. Open = {}
      BY <1>3 DEF Execute, Holds, IInv, HolderInv, Knows
    <3> QED
      BY <1>0, <1>3, <3>1, <3>2, <3>3, NextStageExists, QuietStep DEF Execute, mission
  <2> QED
    BY <2>1, <2>2
<1>4. ASSUME Wait(c) PROVE IInv'
  BY <1>0, <1>4, Moves, QuietStep DEF Wait, Steps
<1>5. CASE PlanHandoff(c)
  <2>1. CASE HandedOff /\ Diverged
    BY <1>0, <1>5, <2>1, Moves, QuietStep DEF PlanHandoff, mission, Steps
  <2>2. CASE \E s \in at[c].stage..Stages :
               GotoStage(c, "planned", s) /\ UNCHANGED <<attempt, mission, workspace, runtime>>
    <3>1. PICK s \in 0..(Stages + 1) : s <= Stages /\ GotoStage(c, "planned", s)
      BY <1>0, <2>2
    <3>2. /\ at' \in [Controllers -> Place] /\ lease' = lease /\ at'[c].step = "planned"
          /\ at'[c].stage <= Stages
          /\ \A d \in Controllers \ {c} : at'[d] = at[d]
      BY <1>0, <3>1, Moves DEF Steps
    <3>3. Open = {}
      BY <1>5 DEF PlanHandoff, Holds, IInv, HolderInv, Knows
    <3> QED
      BY <1>0, <2>2, <3>2, <3>3, QuietStep DEF mission
  <2> QED
    BY <1>4, <1>5, <2>1, <2>2 DEF PlanHandoff
<1>6. CASE DetectStage(c)
  <2>0. Open = {}
    BY <1>6 DEF DetectStage, Holds, IInv, HolderInv, Knows
  <2>1. CASE Goto(c, "planned") /\ UNCHANGED <<attempt, mission, workspace, runtime>>
    <3>1. /\ at' \in [Controllers -> Place] /\ lease' = lease /\ at'[c].step = "planned"
          /\ at'[c].stage = at[c].stage
          /\ \A d \in Controllers \ {c} : at'[d] = at[d]
      BY <1>0, <2>1, Moves DEF Steps
    <3>2. at[c].stage <= Stages
      BY <1>6 DEF DetectStage, Holds, IInv, WorkInv, Works
    <3> QED
      BY <1>0, <2>0, <2>1, <3>1, <3>2, QuietStep DEF mission
  <2>2. CASE /\ at[c].stage \in HandOff /\ GotoStage(c, "handoff", at[c].stage + 1)
             /\ UNCHANGED <<attempt, mission, workspace, runtime>>
    <3>1. at[c].stage + 1 \in 0..(Stages + 1)
      BY <1>0, <2>2, RunAssumption
    <3>2. /\ at' \in [Controllers -> Place] /\ lease' = lease /\ at'[c].step = "handoff"
          /\ \A d \in Controllers \ {c} : at'[d] = at[d]
      BY <1>0, <2>2, <3>1, Moves DEF Steps
    <3> QED
      BY <1>0, <2>0, <2>2, <3>2, QuietStep DEF mission
  <2> QED
    BY <1>4, <1>6, <2>1, <2>2 DEF DetectStage
<1>7. CASE StartAttempt(c)
  <2>1. /\ at' \in [Controllers -> Place] /\ lease' = lease /\ at'[c].step = "started"
        /\ at'[c].attempt = at[c].attempt
        /\ \A d \in Controllers \ {c} : at'[d] = at[d]
    BY <1>0, <1>7, Moves DEF StartAttempt, Steps
  <2> QED
    BY <1>0, <1>7, <2>1, QuietStep DEF StartAttempt, Holds, Own
<1>8. CASE WaitAfterFailure(c)
  BY <1>4, <1>8 DEF WaitAfterFailure
<1>9. CASE BeginVerification(c)
  <2>1. [At("verifying") EXCEPT !.checked = workspace] \in Place
    BY <1>0 DEF At, Place, TypeOK, Steps
  <2>2. /\ [At("verifying") EXCEPT !.checked = workspace].step = "verifying"
        /\ [At("verifying") EXCEPT !.checked = workspace].checked = workspace
    BY DEF At
  <2>3. /\ at' \in [Controllers -> Place] /\ at'[c].step = "verifying" /\ at'[c].checked = workspace
        /\ \A d \in Controllers \ {c} : at'[d] = at[d]
    BY <1>0, <1>9, <2>1, <2>2 DEF BeginVerification, TypeOK
  <2> QED
    BY <1>0, <1>9, <2>3, QuietStep DEF BeginVerification
<1>10. CASE IssueReceipt(c)
  <2>1. status' \in {"active", "succeeded"} /\ receipt' \in {"none", "verified", "rejected"}
    BY <1>10 DEF IssueReceipt
  <2>2. /\ at' \in [Controllers -> Place] /\ lease' = None /\ at'[c].step = "idle"
        /\ \A d \in Controllers \ {c} : at'[d] = at[d]
    BY <1>0, <1>10, Moves DEF IssueReceipt, Steps
  <2> QED
    BY <1>0, <1>10, <2>1, <2>2, QuietStep DEF IssueReceipt
<1>11. CASE Crash(c)
  <2>1. /\ at' \in [Controllers -> Place] /\ at'[c].step = "idle"
        /\ \A d \in Controllers \ {c} : at'[d] = at[d]
    BY <1>0, <1>1, <1>11 DEF Crash, TypeOK, Steps
  <2> QED
    BY <1>0, <1>11, <2>1, QuietStep DEF Crash, mission
<1> QED
  BY <1>2, <1>3, <1>5, <1>6, <1>7, <1>8, <1>9, <1>10, <1>11

LEMMA ExpireStep == ASSUME IInv, ExpireLease PROVE IInv'
<1>0. /\ TypeOK /\ lease \in Controllers /\ lease # None /\ lease' = None
      /\ At("idle") \in Place /\ At("idle").step = "idle"
  BY RunAssumption DEF IInv, TypeOK, ExpireLease, At, Place, Tree, Steps
<1>1. /\ at' \in [Controllers -> Place]
      /\ at'[lease].step = "idle" \/ at'[lease] = at[lease]
      /\ \A d \in Controllers \ {lease} : at'[d] = at[d]
  BY <1>0 DEF ExpireLease, TypeOK
<1> QED
  BY <1>0, <1>1, QuietStep DEF ExpireLease, mission, IInv, TypeOK

-----------------------------------------------------------------------------
\* Controllers other than the one that acts: they do not hold the lease, and
\* what they know of their Attempts stays true.
LEMMA Others ==
  ASSUME IInv, NEW c \in Controllers, lease = c, lease' \in {c, None},
         planned' \in Nat, planned' >= planned,
         \A d \in Controllers \ {c} : at'[d] = at[d],
         \A a \in Attempts : pid'[a] = pid[a] \/ (a = Own(c) /\ at[c].step \in Executing),
         Works(c)', lease' = c => Knows(c)'
  PROVE  WorkInv' /\ HolderInv'
<1>0. planned \in Nat /\ None \notin Controllers /\ planned <= MaxAttempts /\ MaxAttempts \in Nat
  BY RunAssumption DEF IInv, TypeOK
<1>1. ASSUME NEW d \in Controllers, d # c PROVE Works(d)'
  <2>1. at'[d] = at[d] /\ Own(d)' = Own(d)
    BY <1>1 DEF Own
  <2>2. Works(d)
    BY DEF IInv, WorkInv
  <2>3. at[d].step \in Executing \cup Recovering => Own(d) \in 1..planned' /\ Own(d) \in Attempts
    BY <1>0, <2>2 DEF Works, Attempts
  <2>4. at[d].step \in Executing => pid'[Own(d)] = pid[Own(d)]
    BY <1>1, <2>2, <2>3 DEF Works
  <2>5. \A e \in Controllers :
          at'[d].step \in Executing /\ at'[e].step \in Executing /\ Own(d)' = Own(e)' => d = e
    BY <1>1, <2>1, <2>2 DEF Works, Own
  <2> QED
    BY <2>1, <2>2, <2>3, <2>4, <2>5 DEF Works, Executing, Recovering, Own
<1>2. WorkInv'
  BY <1>1 DEF WorkInv
<1>3. HolderInv'
  BY <1>0 DEF HolderInv
<1> QED
  BY <1>2, <1>3

-----------------------------------------------------------------------------
\* Recovery (#closeDanglingAttempts).
LEMMA RecoverStep == ASSUME IInv, NEW c \in Controllers, Recover(c) PROVE IInv'
<1>0. /\ TypeOK /\ lease = c /\ at[c].step = "recover" /\ Open \subseteq 1..planned
      /\ MaxAttempts \in Nat /\ Stages \in Nat /\ None \notin Controllers
      /\ planned \in Nat /\ planned <= MaxAttempts
  BY RunAssumption DEF IInv, TypeOK, Recover, Holds, Open
<1>1. ASSUME End(c), UNCHANGED <<check, after>> PROVE IInv'
  <2>1. UNCHANGED <<attempt, workspace, runtime>>
    BY <1>1 DEF Recover, attempt
  <2> QED
    BY <1>0, <1>1, <2>1, Moves, QuietStep DEF Recover, mission, Steps, IInv, TypeOK
<1>2. CASE Open = {}
  <2>1. /\ UNCHANGED <<attempt, workspace, runtime>>
        /\ at' \in [Controllers -> Place] /\ lease' = lease /\ at'[c].step = "execute"
        /\ \A d \in Controllers \ {c} : at'[d] = at[d]
    BY <1>0, <1>2, Moves DEF Recover, attempt, Steps
  <2> QED
    BY <1>0, <1>2, <2>1, QuietStep DEF Recover, mission, IInv, TypeOK
<1>3. ASSUME NEW a \in Open, RecoverCheckpoint(c, a), ~(pid[a] /\ a \in Alive),
             \A b \in Open : b = a
      PROVE  IInv'
  <2>0. a \in Attempts /\ a \in 0..MaxAttempts /\ a \in 1..planned
    BY <1>0 DEF Attempts
  <2>1. CASE workspace # after[a] /\ check[a] # "none"
    BY <1>1, <1>3, <2>1 DEF RecoverCheckpoint
  <2>2. CASE ~(workspace # after[a] /\ check[a] # "none")
    <3>1. GotoWith(c, "recoverEffect", a)
      BY <1>3, <2>2 DEF RecoverCheckpoint
    <3>2. /\ at' \in [Controllers -> Place] /\ lease' = lease /\ at'[c].step = "recoverEffect"
          /\ Own(c)' = a
          /\ \A d \in Controllers \ {c} : at'[d] = at[d]
      BY <1>0, <2>0, <3>1, Moves DEF Steps, Own
    <3>3. /\ check' \in [Attempts -> {"none", "succeeded", "handed_off", "failed"}]
          /\ after' \in [Attempts -> Tree]
          /\ \A b \in Attempts \ {a} : check'[b] = check[b] /\ after'[b] = after[b]
          /\ check'[a] # "none" /\ (a \in workspace => a \in after'[a])
      BY <1>0, <1>3, <2>0 DEF TypeOK, RecoverCheckpoint, IInv, AttemptInv, Recorded
    <3>4. TypeOK'
      BY <1>0, <3>2, <3>3 DEF TypeOK, Recover, mission
    <3>5. AtMostOneOpen' /\ Open' = Open
      BY DEF Recover, IInv, AtMostOneOpen, Open
    <3>6. AttemptInv'
      BY <1>0, <1>3, <2>0, <3>3 DEF Recover, IInv, AttemptInv, Recorded, Alive, TypeOK
    <3>7. Works(c)' /\ Knows(c)'
      BY <1>3, <2>0, <3>2, <3>3, <3>5 DEF Recover, Works, Knows, Executing, Recovering
    <3>8. UNCHANGED <<planned, pid>>
      BY DEF Recover
    <3>9. WorkInv' /\ HolderInv'
      BY <1>0, <3>2, <3>7, <3>8, Others
    <3> QED
      BY <3>4, <3>5, <3>6, <3>9 DEF IInv
  <2> QED
    BY <2>1, <2>2
<1> QED
  BY <1>1, <1>2, <1>3 DEF Recover

LEMMA RecoverEffectStep == ASSUME IInv, NEW c \in Controllers, RecoverEffect(c) PROVE IInv'
<1> DEFINE a == Own(c)
<1>0. /\ TypeOK /\ lease = c /\ at[c].step = "recoverEffect" /\ a \in 1..planned /\ a \in Attempts
      /\ check[a] # "none" /\ Open \subseteq {a} /\ planned \in Nat
  BY RunAssumption
     DEF IInv, TypeOK, RecoverEffect, Holds, HolderInv, Knows, WorkInv, Works, Recovering, Attempts
<1>1. /\ at' \in [Controllers -> Place] /\ lease' = lease /\ at'[c].step = "recoverFinish"
      /\ Own(c)' = a
      /\ \A d \in Controllers \ {c} : at'[d] = at[d]
  BY <1>0, Moves DEF RecoverEffect, Steps, Own
<1>2. /\ effect' \in [Attempts -> {"none", "intended", "confirmed", "failed", "skipped"}]
      /\ \A b \in Attempts \ {a} : effect'[b] = effect[b]
      /\ effect'[a] # "intended" /\ (a \in workspace => effect'[a] = "confirmed")
  BY <1>0 DEF RecoverEffect, TypeOK, Changed, IInv, AttemptInv, Recorded
<1> HIDE DEF a
<1>3. TypeOK'
  BY <1>0, <1>1, <1>2 DEF TypeOK, RecoverEffect, mission
<1>4. AtMostOneOpen' /\ Open' = Open
  BY DEF RecoverEffect, IInv, AtMostOneOpen, Open
<1>5. AttemptInv'
  BY <1>0, <1>2 DEF RecoverEffect, IInv, AttemptInv, Recorded
<1>6. Works(c)' /\ Knows(c)'
  BY <1>0, <1>1, <1>2, <1>4 DEF RecoverEffect, Works, Knows, Executing, Recovering
<1>7. UNCHANGED <<planned, pid>>
  BY DEF RecoverEffect
<1>8. WorkInv' /\ HolderInv'
  BY <1>0, <1>1, <1>6, <1>7, Others
<1> QED
  BY <1>3, <1>4, <1>5, <1>8 DEF IInv

\* An Attempt is finished, by its controller or by one that recovers it.
LEMMA FinishStep ==
  ASSUME IInv, NEW c \in Controllers, RecoverFinish(c) \/ FinishAttempt(c)
  PROVE  IInv'
<1> DEFINE a == Own(c)
<1>0. /\ TypeOK /\ lease = c /\ at[c].step \in {"recoverFinish", "resolved"}
      /\ a \in 1..planned /\ a \in Attempts /\ check[a] # "none" /\ effect[a] # "intended"
      /\ Open \subseteq {a} /\ planned \in Nat /\ stage[a] + 1 \in 0..(Stages + 1)
      /\ planned <= MaxAttempts /\ MaxAttempts \in Nat /\ 0 \in 0..MaxAttempts
  BY RunAssumption
     DEF IInv, TypeOK, RecoverFinish, FinishAttempt, Holds, HolderInv, Knows, WorkInv, Works,
         Executing, Recovering, Attempts
<1>1. \/ End(c) \/ Goto(c, "execute") \/ GotoWith(c, "verify", 0) \/ GotoWith(c, "failed", 0)
      \/ GotoStage(c, "handoff", stage[a] + 1)
  BY <1>0 DEF RecoverFinish, FinishAttempt, AfterAttempt, TypeOK
<1>2. /\ at' \in [Controllers -> Place] /\ lease' \in {c, None}
      /\ at'[c].step \in {"idle", "execute", "verify", "failed", "handoff"}
      /\ \A d \in Controllers \ {c} : at'[d] = at[d]
  BY <1>0, <1>1, Moves DEF Steps
<1>3. /\ finished' \in [Attempts -> {"none", "succeeded", "failed", "abandoned"}]
      /\ \A b \in Attempts \ {a} : finished'[b] = finished[b]
      /\ finished'[a] # "none"
  BY <1>0 DEF RecoverFinish, FinishAttempt, TypeOK
<1>4. /\ UNCHANGED <<planned, stage, before, pid, check, after, effect, mission, workspace, runtime>>
  BY DEF RecoverFinish, FinishAttempt
<1> HIDE DEF a
<1>5. TypeOK'
  BY <1>0, <1>2, <1>3, <1>4 DEF TypeOK, mission
<1>6. AtMostOneOpen' /\ Open' = {}
  <2>1. ASSUME NEW b \in Open' PROVE FALSE
    BY <1>0, <1>3, <1>4, <2>1 DEF Open, Attempts
  <2> QED
    BY <2>1 DEF AtMostOneOpen
<1>7. AttemptInv'
  BY <1>0, <1>3, <1>4 DEF IInv, AttemptInv, Recorded
<1>8. Works(c)' /\ Knows(c)'
  BY <1>2, <1>6 DEF Works, Knows, Executing, Recovering
<1>9. WorkInv' /\ HolderInv'
  BY <1>0, <1>2, <1>4, <1>8, Others
<1> QED
  BY <1>5, <1>6, <1>7, <1>9 DEF IInv

-----------------------------------------------------------------------------
\* Execution (#executeStage).  A new Attempt is bound when no other is open.
LEMMA BindStep == ASSUME IInv, NEW c \in Controllers, BindAttempt(c) PROVE IInv'
<1>0. /\ TypeOK /\ lease = c /\ at[c].step = "planned" /\ Open = {}
      /\ MaxAttempts \in Nat /\ Stages \in Nat /\ None \notin Controllers
      /\ planned \in Nat /\ at[c].stage \in 0..Stages
  BY RunAssumption DEF IInv, TypeOK, BindAttempt, Holds, HolderInv, Knows, WorkInv, Works, Place
<1>1. CASE Wait(c)
  BY <1>0, <1>1, Moves, QuietStep DEF Wait, Steps, IInv, TypeOK
<1>2. ASSUME NEW a \in Attempts, a = planned + 1,
             planned' = a,
             stage' = [stage EXCEPT ![a] = at[c].stage],
             before' = [before EXCEPT ![a] = workspace],
             effect' = [effect EXCEPT ![a] = "intended"],
             GotoWith(c, "bound", a),
             UNCHANGED <<pid, check, after, finished, mission, workspace, runtime>>
      PROVE  IInv'
  <2>1. a \in Attempts /\ a \in 0..MaxAttempts /\ a \notin 1..planned
    BY <1>0, <1>2 DEF Attempts
  <2>2. /\ at' \in [Controllers -> Place] /\ lease' = lease /\ at'[c].step = "bound"
        /\ Own(c)' = a
        /\ \A d \in Controllers \ {c} : at'[d] = at[d]
    BY <1>0, <1>2, <2>1, Moves DEF Steps, Own
  <2>3. stage' \in [Attempts -> 0..Stages]
    BY <1>0, <1>2, <2>1 DEF TypeOK
  <2>4. TypeOK'
    BY <1>0, <1>2, <2>1, <2>2, <2>3 DEF TypeOK, mission
  <2>5. Open' \subseteq {a}
    BY <1>0, <1>2 DEF Open
  <2>6. check[a] = "none" /\ ~pid[a] /\ a \notin workspace
    BY <1>0, <1>2 DEF IInv, AttemptInv, Recorded
  <2>7. AttemptInv'
    <3>1. ASSUME NEW b \in Attempts, b # a PROVE Recorded(b)'
      BY <1>0, <1>2, <3>1 DEF IInv, AttemptInv, Recorded, TypeOK, Attempts
    <3>2. Recorded(a)'
      BY <1>0, <1>2, <2>6 DEF IInv, AttemptInv, Recorded, TypeOK
    <3> QED
      BY <3>1, <3>2 DEF AttemptInv
  <2>8. Works(c)' /\ Knows(c)'
    <3>1. ASSUME NEW d \in Controllers, d # c, at'[d].step \in Executing PROVE Own(d)' # a
      <4>1. Own(d) \in 1..planned /\ Own(d)' = Own(d)
        BY <2>2, <3>1 DEF IInv, WorkInv, Works, Own
      <4> QED
        BY <1>0, <1>2, <4>1
    <3>2. Works(c)'
      BY <1>0, <1>2, <2>2, <2>6, <3>1 DEF Works, Executing, Recovering
    <3>3. Knows(c)'
      BY <1>2, <2>2, <2>5, <2>6 DEF Knows, Executing, Recovering
    <3> QED
      BY <3>2, <3>3
  <2>9. WorkInv' /\ HolderInv'
    BY <1>0, <1>2, <2>2, <2>8, Others
  <2> QED
    BY <2>4, <2>5, <2>7, <2>9 DEF IInv, AtMostOneOpen
<1>3. CASE planned < MaxAttempts /\ ~Wait(c)
  <2>1. planned + 1 \in Attempts
    BY <1>0, <1>3 DEF Attempts
  <2> QED
    BY <1>2, <1>3, <2>1 DEF BindAttempt
<1> QED
  BY <1>1, <1>3 DEF BindAttempt

\* Starting a Runtime and sending its prompt are not appends: the controller
\* may have lost its lease.  Until its process is in the log a Runtime has no
\* prompt; when it is, recovery has not closed the Attempt.
LEMMA RuntimeStep == ASSUME IInv, NEW c \in Controllers, Spawn(c) \/ SendPrompt(c) PROVE IInv'
<1> DEFINE a == Own(c)
<1>0. /\ TypeOK /\ at[c].step \in {"started", "recorded"}
      /\ planned \in Nat /\ planned <= MaxAttempts /\ MaxAttempts \in Nat
      /\ a \in 1..planned /\ a \in Attempts
      /\ at[c].step = "started" => ~pid[a]
      /\ at[c].step = "recorded" => pid[a]
  BY RunAssumption DEF IInv, TypeOK, Spawn, SendPrompt, WorkInv, Works, Executing, Attempts
<1>1. PICK step \in {"spawned", "running"} : Goto(c, step) /\ (Spawn(c) \/ step = "running")
  BY DEF Spawn, SendPrompt
<1>2. /\ at' \in [Controllers -> Place] /\ lease' = lease /\ at'[c].step = step
      /\ Own(c)' = a
      /\ \A d \in Controllers \ {c} : at'[d] = at[d]
  BY <1>0, <1>1, Moves DEF Steps, Own
<1>3. /\ UNCHANGED <<attempt, mission, workspace>>
      /\ runtime' \in [Attempts -> {"none", "spawned", "prompted", "gone"}]
      /\ \A b \in Attempts \ {a} : runtime'[b] = runtime[b]
      /\ at[c].step = "started" => runtime'[a] # "prompted"
      /\ at[c].step = "recorded" /\ runtime'[a] \in {"spawned", "prompted"} =>
           runtime[a] \in {"spawned", "prompted"}
  BY <1>0 DEF Spawn, SendPrompt, TypeOK
<1>4. at'[c].step = "spawned" => at[c].step = "started"
  BY <1>1, <1>2 DEF Spawn, Goto, TypeOK
<1> HIDE DEF a
<1>5. TypeOK'
  BY <1>2, <1>3 DEF IInv, TypeOK, attempt, mission
<1>6. AtMostOneOpen' /\ Open' = Open
  BY <1>3 DEF IInv, AtMostOneOpen, Open, attempt
<1>7. AttemptInv'
  BY <1>0, <1>3 DEF IInv, AttemptInv, Recorded, attempt
<1>8. WorkInv'
  <2>1. ASSUME NEW d \in Controllers PROVE Own(d)' = Own(d) /\ (at'[d].step \in Executing => at[d].step \in Executing)
    BY <1>0, <1>2 DEF Own, Executing, a
  <2>2. ASSUME NEW d \in Controllers PROVE Works(d)'
    <3>1. CASE d = c
      BY <1>0, <1>2, <1>3, <1>4, <2>1, <3>1 DEF IInv, WorkInv, Works, attempt, Executing, Recovering, a
    <3>2. CASE d # c
      BY <1>2, <1>3, <2>1, <3>2 DEF IInv, WorkInv, Works, attempt
    <3> QED
      BY <3>1, <3>2
  <2> QED
    BY <2>2 DEF WorkInv
<1>9. HolderInv'
  <2> SUFFICES ASSUME NEW d \in Controllers, lease = d PROVE Knows(d)'
    BY <1>2 DEF HolderInv
  <2>1. CASE d = c
    BY <1>0, <1>2, <1>3, <1>4, <1>6, <2>1 DEF IInv, HolderInv, Knows, attempt, Executing, Recovering, a
  <2>2. CASE d # c
    BY <1>2, <1>3, <1>6, <2>2 DEF IInv, HolderInv, Knows, Own, attempt
  <2> QED
    BY <2>1, <2>2
<1> QED
  BY <1>5, <1>6, <1>7, <1>8, <1>9 DEF IInv

\* The process is recorded, its end, and what became of its Effect.
LEMMA ProcessStep ==
  ASSUME IInv, NEW c \in Controllers, RecordProcess(c) \/ FinishRuntime(c) \/ ResolveEffect(c)
  PROVE  IInv'
<1>0. PICK a \in Attempts :
        /\ TypeOK /\ lease = c /\ at[c].step \in {"spawned", "running", "checkpointed"}
        /\ a = Own(c) /\ a \in 1..planned /\ Open \subseteq {a} /\ planned \in Nat
        /\ at[c].step = "spawned" => check[a] = "none"
        /\ at[c].step = "checkpointed" => check[a] # "none"
  <2>1. /\ Own(c) \in 1..planned /\ planned \in Nat /\ planned <= MaxAttempts /\ MaxAttempts \in Nat
        /\ lease = c /\ at[c].step \in {"spawned", "running", "checkpointed"}
    BY RunAssumption
       DEF RecordProcess, FinishRuntime, ResolveEffect, Holds, IInv, TypeOK, WorkInv, Works, Executing
  <2> QED
    BY <2>1 DEF Attempts, IInv, HolderInv, Knows, Executing
<1>1. UNCHANGED <<planned, stage, before, finished, mission, workspace, runtime>>
  BY DEF RecordProcess, FinishRuntime, ResolveEffect
\* What each of the three does with the Attempt at hand.
<1> DEFINE Updates(step) ==
      /\ Goto(c, step) /\ Recorded(a)'
      /\ pid' \in [Attempts -> BOOLEAN]
      /\ check' \in [Attempts -> {"none", "succeeded", "handed_off", "failed"}]
      /\ after' \in [Attempts -> Tree]
      /\ effect' \in [Attempts -> {"none", "intended", "confirmed", "failed", "skipped"}]
      /\ \A b \in Attempts \ {a} :
           pid'[b] = pid[b] /\ check'[b] = check[b] /\ after'[b] = after[b] /\ effect'[b] = effect[b]
      /\ step = "recorded" => pid'[a]
      /\ step # "recorded" => check'[a] # "none"
      /\ step = "resolved" => effect'[a] # "intended"
<1>2. ASSUME RecordProcess(c) PROVE Updates("recorded")
  <2>1. pid' = [pid EXCEPT ![a] = TRUE] /\ check[a] = "none" /\ UNCHANGED <<check, after, effect>>
    BY <1>0, <1>2 DEF RecordProcess, Holds
  <2>2. Recorded(a)'
    BY <1>0, <1>1, <2>1 DEF IInv, TypeOK, AttemptInv, Recorded
  <2> QED
    BY <1>0, <1>2, <2>1, <2>2 DEF RecordProcess, TypeOK
<1>3. ASSUME FinishRuntime(c) PROVE Updates("checkpointed")
  <2>1. PICK outcome \in {"succeeded", "handed_off", "failed"} : check' = [check EXCEPT ![a] = outcome]
    BY <1>0, <1>3 DEF FinishRuntime
  <2>2. /\ after' = [after EXCEPT ![a] = workspace] /\ runtime[a] = "gone"
        /\ UNCHANGED <<pid, effect>> /\ Goto(c, "checkpointed")
    BY <1>0, <1>3 DEF FinishRuntime
  <2>3. Recorded(a)'
    <3>1. effect[a] \in {"intended", "confirmed"} \/ a \notin workspace \/ check[a] # "none"
      BY <1>0 DEF IInv, AttemptInv, Recorded
    <3>2. check'[a] # "none" /\ after'[a] = workspace /\ a <= planned
      BY <1>0, <2>1, <2>2 DEF TypeOK
    <3> QED
      BY <1>0, <1>1, <2>2, <3>1, <3>2 DEF IInv, TypeOK, AttemptInv, Recorded
  <2> QED
    BY <1>0, <2>1, <2>2, <2>3 DEF TypeOK
<1>4. ASSUME ResolveEffect(c) PROVE Updates("resolved")
  <2>1. /\ effect' = [effect EXCEPT ![a] =
              IF Changed(a) THEN "confirmed"
              ELSE IF check[a] = "succeeded" THEN "skipped" ELSE "failed"]
        /\ check[a] # "none" /\ UNCHANGED <<pid, check, after>> /\ Goto(c, "resolved")
    BY <1>0, <1>4 DEF ResolveEffect, Holds
  <2>2. a \in workspace => Changed(a)
    BY <1>0, <2>1 DEF IInv, AttemptInv, Recorded, Changed
  <2>3. Recorded(a)'
    BY <1>0, <1>1, <2>1, <2>2 DEF IInv, TypeOK, AttemptInv, Recorded
  <2> QED
    BY <1>0, <2>1, <2>3 DEF TypeOK
<1>5. PICK step \in {"recorded", "checkpointed", "resolved"} : Updates(step)
  BY <1>2, <1>3, <1>4
<1>6. /\ at' \in [Controllers -> Place] /\ lease' = lease /\ at'[c].step = step
      /\ Own(c)' = a
      /\ \A d \in Controllers \ {c} : at'[d] = at[d]
  BY <1>0, <1>5, Moves DEF Steps, Own
<1>7. TypeOK'
  BY <1>0, <1>1, <1>5, <1>6 DEF TypeOK, mission
<1>8. AtMostOneOpen' /\ Open' = Open
  BY <1>1 DEF IInv, AtMostOneOpen, Open
<1>9. AttemptInv'
  <2>1. ASSUME NEW b \in Attempts, b # a PROVE Recorded(b)'
    BY <1>1, <1>5, <2>1 DEF IInv, AttemptInv, Recorded
  <2> QED
    BY <1>5, <2>1 DEF AttemptInv
<1>10. Works(c)' /\ Knows(c)'
  <2>1. ASSUME NEW d \in Controllers, at'[d].step \in Executing, Own(d)' = a PROVE d = c
    BY <1>0, <1>6, <2>1 DEF IInv, WorkInv, Works, Own, Executing
  <2> QED
    BY <1>0, <1>1, <1>5, <1>6, <1>8, <2>1 DEF Works, Knows, Executing, Recovering
<1>11. WorkInv' /\ HolderInv'
  <2>1. \A b \in Attempts : pid'[b] = pid[b] \/ (b = Own(c) /\ at[c].step \in Executing)
    BY <1>0, <1>5 DEF Executing
  <2>2. planned' = planned
    BY <1>1
  <2> QED
    BY <1>0, <1>6, <1>10, <2>1, <2>2, Others
<1> QED
  BY <1>7, <1>8, <1>9, <1>11 DEF IInv

\* The Runtimes and the developer.  A Runtime that writes has its prompt, so
\* that its Attempt has no checkpoint yet.
LEMMA WorkspaceStep ==
  ASSUME IInv, DeveloperEdits \/ \E a \in Attempts : Write(a) \/ Exit(a)
  PROVE  IInv'
<1>0. TypeOK /\ UNCHANGED <<attempt, mission, lease, at>>
  BY DEF DeveloperEdits, Write, Exit, IInv
<1>1. /\ workspace \subseteq workspace' /\ workspace' \in Tree
      /\ runtime' \in [Attempts -> {"none", "spawned", "prompted", "gone"}]
      /\ \A b \in Attempts : runtime'[b] = runtime[b] \/ runtime'[b] = "gone"
  BY <1>0 DEF DeveloperEdits, Write, Exit, TypeOK, Tree
<1>2. \A b \in workspace' \ workspace :
        b = Developer \/ (b \in Attempts /\ runtime[b] = "prompted" /\ pid[b] /\ check[b] = "none")
  BY DEF DeveloperEdits, Write, Exit, IInv, AttemptInv, Recorded
<1>3. TypeOK'
  BY <1>0, <1>1 DEF TypeOK, attempt, mission
<1>4. AtMostOneOpen' /\ Open' = Open
  BY <1>0 DEF IInv, AtMostOneOpen, Open, attempt
<1>5. AttemptInv'
  BY <1>0, <1>1, <1>2 DEF IInv, AttemptInv, Recorded, attempt, Attempts, Developer
<1>6. WorkInv'
  BY <1>0 DEF IInv, WorkInv, Works, Own, attempt
<1>7. HolderInv'
  BY <1>0, <1>2, <1>4 DEF IInv, HolderInv, Knows, Own, attempt
<1> QED
  BY <1>3, <1>4, <1>5, <1>6, <1>7 DEF IInv

LEMMA InvStep == IInv /\ [Next]_vars => IInv'
<1> SUFFICES ASSUME IInv, [Next]_vars PROVE IInv'
  OBVIOUS
<1>1. ASSUME NEW c \in Controllers, Advance(c) \/ Crash(c) PROVE IInv'
  BY <1>1, QuietActions, RecoverStep, RecoverEffectStep, FinishStep, BindStep, RuntimeStep, ProcessStep
     DEF Advance
<1>2. CASE UNCHANGED vars
  BY <1>2 DEF vars, attempt, mission, IInv, TypeOK, AtMostOneOpen, Open, AttemptInv, Recorded,
     WorkInv, Works, HolderInv, Knows, Own
<1> QED
  BY <1>1, <1>2, ExpireStep, WorkspaceStep DEF Next

-----------------------------------------------------------------------------
LEMMA Invariant == Spec => []IInv
BY InitInv, InvStep, PTL DEF Spec

\* At most one Runtime has its prompt, and at most one Attempt is open,
\* whatever controllers end or lose their lease (#closeDanglingAttempts).
THEOREM OneAgentAtATime == Spec => []OneAtATime
<1>1. IInv => OneAtATime
  <2> SUFFICES ASSUME IInv PROVE SingleWriter
    BY DEF IInv, OneAtATime
  <2>1. ASSUME NEW a \in Attempts, runtime[a] = "prompted" PROVE a \in Open
    BY <2>1 DEF IInv, TypeOK, AttemptInv, Recorded, Attempts, Open
  <2> QED
    BY <2>1 DEF IInv, AtMostOneOpen, SingleWriter
<1> QED
  BY <1>1, Invariant, PTL

\* A finished Attempt has its checkpoint, no Effect left intended, and what
\* its Agent wrote is in the delta and a confirmed Effect.
THEOREM WorkIsDisclosed == Spec => []FinishedIsDisclosed
<1>1. IInv => FinishedIsDisclosed
  <2> SUFFICES ASSUME IInv, NEW a \in 1..planned, finished[a] # "none"
               PROVE  /\ check[a] # "none" /\ effect[a] # "intended"
                      /\ a \in workspace => a \in after[a] \ before[a] /\ effect[a] = "confirmed"
    BY DEF FinishedIsDisclosed
  <2>1. a \in Attempts
    BY RunAssumption DEF IInv, TypeOK, Attempts
  <2> QED
    BY <2>1 DEF IInv, AttemptInv, Recorded
<1> QED
  BY <1>1, Invariant, PTL

\* When a Mission succeeds every Attempt has its checkpoint, no Agent is at
\* work, and none has written since the verification began.
THEOREM SuccessIsQuiet == Spec => VerifiedIsQuiet
<1>1. IInv /\ [Next]_vars =>
        [status # "succeeded" /\ status' = "succeeded" =>
           /\ Checkpointed = 1..planned
           /\ \A a \in Attempts : runtime[a] # "prompted"
           /\ workspace \subseteq at[lease].checked \cup {Developer}]_vars
  <2> SUFFICES ASSUME IInv, Next, status # "succeeded", status' = "succeeded"
               PROVE  /\ Checkpointed = 1..planned
                      /\ \A a \in Attempts : runtime[a] # "prompted"
                      /\ workspace \subseteq at[lease].checked \cup {Developer}
    BY DEF vars, mission
  <2>1. PICK c \in Controllers : IssueReceipt(c)
    <3>1. ASSUME NEW c \in Controllers, Advance(c), ~IssueReceipt(c) PROVE FALSE
      BY <3>1 DEF Advance, AcquireLease, Recover, RecoverEffect, RecoverFinish, Execute, PlanHandoff,
         DetectStage, BindAttempt, StartAttempt, Spawn, RecordProcess, SendPrompt, FinishRuntime,
         ResolveEffect, FinishAttempt, WaitAfterFailure, BeginVerification, Wait, mission
    <3>2. ASSUME NEW c \in Controllers, Crash(c) PROVE FALSE
      BY <3>2 DEF Crash, mission
    <3>3. ~ExpireLease /\ ~DeveloperEdits /\ \A a \in Attempts : ~Write(a) /\ ~Exit(a)
      BY DEF ExpireLease, DeveloperEdits, Write, Exit, mission
    <3> QED
      BY <3>1, <3>2, <3>3 DEF Next
  <2>2. Unresolved = {} /\ lease = c /\ at[c].step = "verifying"
    BY <2>1 DEF IssueReceipt, Holds
  <2>3. \A a \in Attempts : a \in 1..planned => check[a] # "none"
    BY <2>2 DEF IInv, TypeOK, AttemptInv, Recorded, Unresolved
  <2>4. Checkpointed = 1..planned
    BY <2>3, RunAssumption DEF Checkpointed, IInv, TypeOK, Attempts
  <2>5. \A a \in Attempts : runtime[a] # "prompted"
    BY <2>3 DEF IInv, TypeOK, AttemptInv, Recorded, Attempts
  <2>6. ASSUME NEW a \in workspace, a # Developer PROVE a \in at[c].checked
    <3>1. a \in Attempts
      BY <2>6 DEF IInv, TypeOK, Tree
    <3>2. check[a] # "none"
      BY <2>3, <3>1 DEF IInv, TypeOK, AttemptInv, Recorded, Attempts
    <3> QED
      BY <2>2, <2>6, <3>2 DEF IInv, HolderInv, Knows
  <2> QED
    BY <2>2, <2>4, <2>5, <2>6
<1> QED
  BY <1>1, Invariant, PTL DEF Spec, VerifiedIsQuiet

-----------------------------------------------------------------------------
(* The page and the application that it talks to                          *)

\* What is kept between the page and the application: a request for a detail, a
\* detail, the request for the list, that of an action, and the stream.
Phases == {"none", "queued", "running", "completed", "failed", "interrupted"}
Entries == Missions \X Nat
Load == [mission : Missions, quiet : BOOLEAN,
         stage : {"asked", "status", "timeline", "answered", "failed"},
         status : Nat, seen : SUBSET Entries, phase : Phases]
Details == [mission : Missions, status : Nat, seen : SUBSET Entries, phase : Phases]
Caller == [kind : {"create", "init", "poll", "act", "refresh"}, mission : Missions \cup {Nothing}]
List == [stage : {"asked", "answered", "failed"}, created : SUBSET Missions, call : Caller]
Action == [kind : Kinds \cup {"create"}, mission : Missions,
           stage : {"asked", "created", "accepted", "failed"}]
Source == [mission : Missions, open : BOOLEAN, got : Nat]

KernelTyped ==
  /\ journal \in [Missions -> Seq({"pending"} \cup Outcomes)]
  /\ row \in [Missions -> {"none", "pending", "dispatching", "completed", "failed"}]
AppTyped ==
  /\ up \in {"up", "closing", "down"}
  /\ operations \in [Missions -> [kind : Kinds \cup {"none"}, phase : Phases]]
  /\ working \subseteq Kinds \X Missions
PageTyped ==
  /\ selected \in Missions \cup {Nothing}
  /\ \A d \in {detail, shown} : d = Nothing \/ d \in Details
LoadsTyped == loading \subseteq Load /\ \A r, s \in loading : r = s
FromCreate(call) == call.kind = "create" => call.mission \in Missions
ListTyped == listing = Nothing \/ (listing \in List /\ FromCreate(listing.call))
PostTyped == posting = Nothing \/ posting \in Action
StreamTyped == stream = Nothing \/ (stream \in Source /\ stream.got <= Last(stream.mission))
TimersTyped == rendering \in BOOLEAN /\ refreshing \in Missions \cup {Nothing}

BenchTyped ==
  KernelTyped /\ AppTyped /\ PageTyped /\ LoadsTyped /\ ListTyped /\ PostTyped /\ StreamTyped /\ TimersTyped

\* The answer to a request has the status in it.
Read(r) == r.stage \in {"status", "timeline", "answered"}

\* The pane, the detail at hand, a request under way and the log, each not behind
\* the one before it on the same Mission; and a Mission is created once.
ShownBehind ==
  detail # Nothing /\ shown # Nothing /\ shown.mission = detail.mission => shown.status <= detail.status
LogAhead ==
  /\ \A d \in {detail, shown} : d # Nothing => d.status <= Last(d.mission)
  /\ \A r \in loading : Read(r) => r.status <= Last(r.mission)
LoadAhead ==
  \A r \in loading, d \in {detail, shown} :
    Read(r) /\ d # Nothing /\ d.mission = r.mission => d.status <= r.status
CreatedOnce ==
  posting # Nothing /\ posting.kind = "create" /\ posting.stage = "asked" => Last(posting.mission) = 0

BenchOrder == ShownBehind /\ LogAhead /\ LoadAhead
BenchInv == BenchTyped /\ BenchOrder /\ CreatedOnce

-----------------------------------------------------------------------------
(* What the helpers leave behind.                                          *)

\* A step that shows nothing it did not show before, and reads no status.
Grows == \A m \in Missions : Last(m) <= Last(m)'
PaneKept(new, old) ==
  new = Nothing \/ (old # Nothing /\ new.mission = old.mission /\ new.status = old.status)
LoadsKept ==
  \A r \in loading' : Read(r) =>
    \E s \in loading : Read(s) /\ s.mission = r.mission /\ s.status = r.status
Quiet == Grows /\ PaneKept(detail', detail) /\ PaneKept(shown', shown) /\ LoadsKept

\* What a reload may do to the page.
Reloads ==
  /\ selected' \in Missions \cup {Nothing}
  /\ detail' \in {detail, Nothing} /\ shown' \in {shown, Nothing}
  /\ LoadsTyped' /\ LoadsKept
  /\ stream' = stream \/ (stream' \in Source /\ stream'.got = 0)

LEMMA QuietKeepsOrder ==
  ASSUME BenchTyped, BenchTyped', BenchOrder, Quiet PROVE BenchOrder'
<1> USE DEF Quiet, BenchOrder, PaneKept
<1>1. \A d \in {detail', shown'} : d # Nothing => d \in Details
  BY DEF BenchTyped, PageTyped
<1>2. \A d \in {detail, shown} : d # Nothing => d \in Details
  BY DEF BenchTyped, PageTyped
<1>3. \A m \in Missions : Last(m) \in Nat /\ Last(m)' \in Nat
  BY DEF BenchTyped, KernelTyped, Last
<1>4. loading \subseteq Load /\ loading' \subseteq Load
  BY DEF BenchTyped, LoadsTyped
<1>5. ShownBehind'
  BY <1>1, <1>2 DEF ShownBehind, Details
<1>6. \A d \in {detail', shown'} : d # Nothing => d.status <= Last(d.mission)'
  BY <1>1, <1>2, <1>3 DEF LogAhead, Grows, Details
<1>7. \A r \in loading' : Read(r) => r.status <= Last(r.mission)'
  BY <1>3, <1>4 DEF LogAhead, LoadsKept, Grows, Load
<1>8. LoadAhead'
  BY <1>1, <1>2, <1>4 DEF LoadAhead, LoadsKept, Details, Load
<1> QED
  BY <1>5, <1>6, <1>7, <1>8 DEF LogAhead, Last, Read

LEMMA LoadDetailReloads ==
  ASSUME LoadsTyped, NEW m \in Missions \cup {Nothing}, NEW quiet \in BOOLEAN, LoadDetail(m, quiet)
  PROVE  LoadsTyped' /\ LoadsKept /\ shown' \in {shown, Nothing}
<1>1. CASE m = Nothing \/ loading # {}
  BY <1>1 DEF LoadDetail, LoadsTyped, LoadsKept
<1>2. CASE m # Nothing /\ loading = {}
  <2> DEFINE new == [mission |-> m, quiet |-> quiet, stage |-> "asked",
                     status |-> 0, seen |-> {}, phase |-> "none"]
  <2>1. loading' = {new} /\ shown' \in {shown, Nothing}
    BY <1>2 DEF LoadDetail
  <2>2. new \in Load
    BY <1>2 DEF Load, Phases
  <2>3. ~Read(new)
    BY DEF Read
  <2> HIDE DEF new
  <2> QED
    BY <2>1, <2>2, <2>3 DEF LoadsTyped, LoadsKept
<1> QED
  BY <1>1, <1>2

LEMMA SelectReloads ==
  ASSUME LoadsTyped, NEW m \in Missions, SelectMission(m) PROVE Reloads
<1>1. LoadDetail(m, FALSE) /\ selected' = m /\ detail' = Nothing
  BY DEF SelectMission
<1>2. LoadsTyped' /\ LoadsKept /\ shown' \in {shown, Nothing}
  BY <1>1, LoadDetailReloads
<1>3. stream' \in Source /\ stream'.got = 0
  BY DEF SelectMission, Source
<1> QED
  BY <1>1, <1>2, <1>3 DEF Reloads

LEMMA AfterMissionsReloads ==
  ASSUME PageTyped, LoadsTyped, NEW call \in Caller, FromCreate(call),
         NEW sel \in {selected, Nothing}, NEW created \in SUBSET Missions,
         AfterMissions(call, sel, created)
  PROVE  Reloads
<1>1. CASE call.kind = "create"
  <2>1. call.mission \in Missions /\ SelectMission(call.mission)
    BY <1>1 DEF AfterMissions, FromCreate
  <2> QED
    BY <2>1, SelectReloads
<1>2. CASE call.kind # "create" /\ call.kind = "init" /\ sel = Nothing /\ created # {}
  <2>1. PICK m \in created : SelectMission(m)
    BY <1>2 DEF AfterMissions
  <2> QED
    BY <2>1, SelectReloads
<1>3. CASE call.kind # "create" /\ ~(call.kind = "init" /\ sel = Nothing /\ created # {})
  <2> DEFINE m == CASE call.kind = "poll" -> sel
                    [] call.kind = "act" -> call.mission
                    [] OTHER -> Nothing
  <2>1. /\ selected' = sel
        /\ detail' = IF sel = selected THEN detail ELSE Nothing
        /\ LoadDetail(m, TRUE)
        /\ UNCHANGED stream
    BY <1>3 DEF AfterMissions
  <2>2. sel \in Missions \cup {Nothing}
    BY DEF PageTyped
  <2>3. m \in Missions \cup {Nothing}
    BY <2>2 DEF Caller
  <2> HIDE DEF m
  <2>4. LoadsTyped' /\ LoadsKept /\ shown' \in {shown, Nothing}
    BY <2>1, <2>3, LoadDetailReloads
  <2> QED
    BY <2>1, <2>2, <2>4 DEF Reloads
<1> QED
  BY <1>1, <1>2, <1>3

LEMMA LoadMissionsReloads ==
  ASSUME PageTyped, LoadsTyped, ListTyped, NEW call \in Caller, FromCreate(call), LoadMissions(call)
  PROVE  Reloads /\ ListTyped'
<1>1. CASE listing = Nothing
  <2>1. [stage |-> "asked", created |-> {}, call |-> call] \in List
    BY DEF List
  <2>2. ListTyped'
    BY <1>1, <2>1 DEF LoadMissions, ListTyped, FromCreate
  <2> QED
    BY <1>1, <2>2 DEF LoadMissions, Reloads, PageTyped, page, LoadsTyped, LoadsKept
<1>2. CASE listing # Nothing
  <2>1. AfterMissions(call, selected, {}) /\ listing' = listing
    BY <1>2 DEF LoadMissions
  <2>2. Reloads
    BY <2>1, AfterMissionsReloads
  <2> QED
    BY <2>1, <2>2 DEF ListTyped
<1> QED
  BY <1>1, <1>2

LEMMA DrainTyped ==
  ASSUME NEW o \in [Missions -> [kind : Kinds \cup {"none"}, phase : Phases]],
         NEW r \in [Missions -> {"none", "pending", "dispatching", "completed", "failed"}],
         NEW w \in SUBSET (Kinds \X Missions), Drain(o, r, w)
  PROVE  /\ operations' \in [Missions -> [kind : Kinds \cup {"none"}, phase : Phases]]
         /\ row' \in [Missions -> {"none", "pending", "dispatching", "completed", "failed"}]
         /\ working' \subseteq Kinds \X Missions
<1> USE DEF Operation, Kinds, Phases
<1>1. CASE operations' = o /\ row' = r /\ working' = w
  BY <1>1
<1>2. CASE \E m \in Missions :
             /\ operations' = [o EXCEPT ![m] = Operation("command", "running")]
             /\ row' = [r EXCEPT ![m] = "dispatching"]
             /\ working' = w \cup {<<"command", m>>}
  <2> PICK m \in Missions :
             /\ operations' = [o EXCEPT ![m] = Operation("command", "running")]
             /\ row' = [r EXCEPT ![m] = "dispatching"]
             /\ working' = w \cup {<<"command", m>>}
    BY <1>2
  <2> QED
    OBVIOUS
<1> QED
  BY <1>1, <1>2 DEF Drain

\* A step of the page that only reloads.
LEMMA ReloadsKeep ==
  ASSUME BenchTyped, Reloads, UNCHANGED <<kernel, app>>,
         ListTyped', PostTyped', TimersTyped'
  PROVE  BenchTyped' /\ Quiet
<1>1. KernelTyped' /\ AppTyped'
  BY DEF BenchTyped, KernelTyped, AppTyped, kernel, app
<1>2. PageTyped'
  BY DEF BenchTyped, PageTyped, Reloads
<1>3. Grows
  BY DEF BenchTyped, KernelTyped, kernel, Grows, Last
<1>4. StreamTyped'
  BY DEF BenchTyped, StreamTyped, KernelTyped, Reloads, Source, kernel, Last
<1> QED
  BY <1>1, <1>2, <1>3, <1>4 DEF BenchTyped, Reloads, Quiet, PaneKept
\* A step of the application, or a click that asks it for something.
LEMMA ServedKeep ==
  ASSUME BenchTyped, UNCHANGED <<page, loading, live>>, Grows,
         KernelTyped', AppTyped', ListTyped', PostTyped'
  PROVE  BenchTyped' /\ Quiet
<1>1. PageTyped' /\ LoadsTyped' /\ TimersTyped'
  BY DEF BenchTyped, PageTyped, LoadsTyped, TimersTyped, page, live
<1>2. StreamTyped'
  <2>1. stream' = stream
    BY DEF live
  <2>2. CASE stream = Nothing
    BY <2>1, <2>2 DEF StreamTyped
  <2>3. CASE stream # Nothing
    <3>1. stream \in Source /\ stream.got <= Last(stream.mission)
      BY <2>3 DEF BenchTyped, StreamTyped
    <3>2. Last(stream.mission) <= Last(stream.mission)'
      BY <2>1, <3>1 DEF Grows, Source, Last
    <3>3. \A m \in Missions : Last(m) \in Nat /\ Last(m)' \in Nat
      BY DEF BenchTyped, KernelTyped, Last
    <3> QED
      BY <2>1, <3>1, <3>2, <3>3 DEF StreamTyped, Source, Last
  <2> QED
    BY <2>2, <2>3
<1>3. Quiet
  BY DEF Quiet, PaneKept, LoadsKept, page
<1> QED
  BY <1>1, <1>2, <1>3 DEF BenchTyped

\* A step in which requests and the stream fail.
LEMMA LostKeep ==
  ASSUME BenchTyped, UNCHANGED <<kernel, page>>, AppTyped',
         LoadsTyped', LoadsKept, ListTyped', PostTyped', TimersTyped',
         stream' \in {stream, [stream EXCEPT !.open = FALSE]}, stream = Nothing => stream' = Nothing
  PROVE  BenchTyped' /\ Quiet
<1>1. KernelTyped' /\ PageTyped'
  BY DEF BenchTyped, KernelTyped, PageTyped, kernel, page
<1>2. Grows
  BY DEF BenchTyped, KernelTyped, kernel, Grows, Last
<1>3. StreamTyped'
  BY DEF BenchTyped, StreamTyped, Source, kernel, Last
<1> QED
  BY <1>1, <1>2, <1>3 DEF BenchTyped, Quiet, PaneKept, page

LEMMA UntouchedTyped ==
  ASSUME BenchTyped
  PROVE  /\ UNCHANGED kernel => KernelTyped' /\ Grows
         /\ UNCHANGED app => AppTyped'
         /\ UNCHANGED listing => ListTyped'
         /\ UNCHANGED posting => PostTyped'
         /\ UNCHANGED <<rendering, refreshing>> => TimersTyped'
         /\ UNCHANGED loading => LoadsTyped' /\ LoadsKept
         /\ UNCHANGED journal => Grows
<1>1. UNCHANGED journal => Grows
  BY DEF BenchTyped, KernelTyped, Grows, Last
<1>2. UNCHANGED kernel => KernelTyped' /\ Grows
  BY <1>1 DEF BenchTyped, KernelTyped, kernel
<1>3. UNCHANGED app => AppTyped'
  BY DEF BenchTyped, AppTyped, app
<1>4. UNCHANGED loading => LoadsTyped' /\ LoadsKept
  BY DEF BenchTyped, LoadsTyped, LoadsKept
<1> QED
  BY <1>1, <1>2, <1>3, <1>4 DEF BenchTyped, ListTyped, PostTyped, TimersTyped

-----------------------------------------------------------------------------
(* The application                                                         *)

LEMMA ServerQuiet ==
  ASSUME BenchTyped, Supervise \/ Start \/ Closed \/ ServeMissions
  PROVE  BenchTyped' /\ Quiet
<1> USE UntouchedTyped
<1>1. CASE Supervise
  <2>1. Drain(operations, row, working) /\ UNCHANGED <<journal, up, page, listing, loading, posting, live>>
    BY <1>1 DEF Supervise
  <2>2. KernelTyped' /\ AppTyped'
    BY <2>1, DrainTyped DEF BenchTyped, KernelTyped, AppTyped
  <2> QED
    BY <2>1, <2>2, ServedKeep
<1>2. CASE Start
  <2>1. UNCHANGED <<kernel, operations, working, page, listing, loading, posting, live>> /\ up' = "up"
    BY <1>2 DEF Start
  <2>2. AppTyped'
    BY <2>1 DEF BenchTyped, AppTyped
  <2> QED
    BY <2>1, <2>2, ServedKeep
<1>3. CASE Closed
  <2>1. /\ UNCHANGED <<kernel, page, listing, loading, posting, live>>
        /\ up' = "down" /\ operations' = [m \in Missions |-> Idle] /\ working' = {}
    BY <1>3 DEF Closed
  <2>2. AppTyped'
    BY <2>1 DEF AppTyped, Idle, Phases
  <2> QED
    BY <2>1, <2>2, ServedKeep
<1>4. CASE ServeMissions
  <2>1. /\ UNCHANGED <<kernel, app, page, loading, posting, live>> /\ listing # Nothing
        /\ listing' = [listing EXCEPT !.stage = "answered", !.created = Created]
    BY <1>4 DEF ServeMissions
  <2>2. listing' \in List /\ listing'.call = listing.call
    BY <2>1 DEF BenchTyped, ListTyped, List, Created
  <2>3. ListTyped'
    BY <2>1, <2>2 DEF BenchTyped, ListTyped
  <2> QED
    BY <2>1, <2>3, ServedKeep
<1> QED
  BY <1>1, <1>2, <1>3, <1>4

LEMMA WorkQuiet ==
  ASSUME BenchTyped, NEW m \in Missions, Work(m) PROVE BenchTyped' /\ Quiet
<1>1. PICK outcome \in Outcomes : journal' = [journal EXCEPT ![m] = Append(@, outcome)]
  BY DEF Work
<1>2. UNCHANGED <<row, app, page, listing, loading, posting, live>>
  BY DEF Work
<1>3. KernelTyped'
  BY <1>1, <1>2 DEF BenchTyped, KernelTyped
<1>4. Grows
  <2> SUFFICES ASSUME NEW k \in Missions PROVE Len(journal[k]) <= Len(journal'[k])
    BY DEF Grows, Last
  <2>1. Len(Append(journal[m], outcome)) = Len(journal[m]) + 1 /\ Len(journal[k]) \in Nat
    BY DEF BenchTyped, KernelTyped
  <2> QED
    BY <1>1, <2>1 DEF BenchTyped, KernelTyped
<1> QED
  BY <1>2, <1>3, <1>4, UntouchedTyped, ServedKeep

LEMMA SettleQuiet ==
  ASSUME BenchTyped, NEW kind \in Kinds, NEW m \in Missions, Settle(kind, m)
  PROVE  BenchTyped' /\ Quiet
<1>1. PICK phase \in {"completed", "failed", "interrupted"} :
        \E s \in IF kind = "plan" THEN {row[m]}
                 ELSE CASE phase = "completed" -> {"completed", "failed"}
                        [] phase = "failed" -> {"dispatching"}
                        [] OTHER -> {"pending"} :
            Drain(IF operations[m] = Operation(kind, "running")
                    THEN [operations EXCEPT ![m] = Operation(kind, phase)] ELSE operations,
                  [row EXCEPT ![m] = s], working \ {<<kind, m>>})
  BY DEF Settle
<1>2. PICK s \in {row[m], "completed", "failed", "dispatching", "pending"} :
        Drain(IF operations[m] = Operation(kind, "running")
                THEN [operations EXCEPT ![m] = Operation(kind, phase)] ELSE operations,
              [row EXCEPT ![m] = s], working \ {<<kind, m>>})
  BY <1>1
<1>3. UNCHANGED <<journal, up, page, listing, loading, posting, live>>
  BY DEF Settle
<1> DEFINE o == IF operations[m] = Operation(kind, "running")
                  THEN [operations EXCEPT ![m] = Operation(kind, phase)] ELSE operations
           r == [row EXCEPT ![m] = s]
           w == working \ {<<kind, m>>}
<1>4. o \in [Missions -> [kind : Kinds \cup {"none"}, phase : Phases]]
  BY DEF BenchTyped, AppTyped, Operation, Phases
<1>5. r \in [Missions -> {"none", "pending", "dispatching", "completed", "failed"}]
  BY DEF BenchTyped, KernelTyped
<1>6. w \in SUBSET (Kinds \X Missions)
  BY DEF BenchTyped, AppTyped
<1>7. Drain(o, r, w)
  BY <1>2
<1> HIDE DEF o, r, w
<1>8. KernelTyped' /\ AppTyped'
  BY <1>3, <1>4, <1>5, <1>6, <1>7, DrainTyped DEF BenchTyped, KernelTyped, AppTyped
<1> QED
  BY <1>3, <1>8, UntouchedTyped, ServedKeep

LEMMA ServePostQuiet ==
  ASSUME BenchTyped, CreatedOnce, ServeCreate \/ ServeCommand \/ ServePlan
  PROVE  BenchTyped' /\ Quiet
<1> USE UntouchedTyped
<1>1. CASE ServeCreate
  <2>1. /\ posting # Nothing /\ posting.kind = "create" /\ posting.stage = "asked"
        /\ journal' = [journal EXCEPT ![posting.mission] = <<"pending">>]
        /\ posting' = [posting EXCEPT !.stage =
                         IF posting.mission \in Planned THEN "accepted" ELSE "created"]
        /\ UNCHANGED <<row, app, page, listing, loading, live>>
    BY <1>1 DEF ServeCreate
  <2>2. posting \in Action
    BY <2>1 DEF BenchTyped, PostTyped
  <2>3. KernelTyped' /\ PostTyped'
    <3>1. <<"pending">> \in Seq({"pending"} \cup Outcomes)
      OBVIOUS
    <3>2. KernelTyped'
      BY <2>1, <2>2, <3>1 DEF BenchTyped, KernelTyped
    <3>3. PostTyped'
      BY <2>1, <2>2 DEF PostTyped, Action
    <3> QED
      BY <3>2, <3>3
  <2>4. Grows
    <3>1. Last(posting.mission) = 0
      BY <2>1 DEF CreatedOnce
    <3>2. \A m \in Missions : m # posting.mission => journal'[m] = journal[m]
      BY <2>1 DEF BenchTyped, KernelTyped
    <3>3. \A m \in Missions : Len(journal[m]) \in Nat /\ Len(journal'[m]) \in Nat
      BY <2>3 DEF BenchTyped, KernelTyped
    <3> QED
      BY <3>1, <3>2, <3>3 DEF Grows, Last
  <2> QED
    BY <2>1, <2>3, <2>4, ServedKeep
<1>2. CASE ServeCommand
  <2>1. posting \in Action /\ UNCHANGED <<journal, up, page, listing, loading, live>>
    BY <1>2 DEF ServeCommand, BenchTyped, PostTyped
  <2> DEFINE o == [operations EXCEPT ![posting.mission] = Operation("command", "queued")]
             r == [row EXCEPT ![posting.mission] = "pending"]
  <2>2. \/ posting' = [posting EXCEPT !.stage = "accepted"] /\ Drain(o, r, working)
        \/ posting' = [posting EXCEPT !.stage = "failed"] /\ UNCHANGED <<operations, row, working>>
    BY <1>2 DEF ServeCommand
  <2>3. PostTyped'
    BY <2>1, <2>2 DEF PostTyped, Action
  <2>4. o \in [Missions -> [kind : Kinds \cup {"none"}, phase : Phases]]
    BY DEF BenchTyped, AppTyped, Operation, Phases, Kinds
  <2>5. r \in [Missions -> {"none", "pending", "dispatching", "completed", "failed"}]
    BY DEF BenchTyped, KernelTyped
  <2>6. working \in SUBSET (Kinds \X Missions)
    BY DEF BenchTyped, AppTyped
  <2> HIDE DEF o, r
  <2>7. KernelTyped' /\ AppTyped'
    BY <2>1, <2>2, <2>4, <2>5, <2>6, DrainTyped DEF BenchTyped, KernelTyped, AppTyped
  <2> QED
    BY <2>1, <2>3, <2>7, ServedKeep
<1>3. CASE ServePlan
  <2>1. posting \in Action /\ UNCHANGED <<kernel, up, page, listing, loading, live>>
    BY <1>3 DEF ServePlan, BenchTyped, PostTyped
  <2>2. posting' = [posting EXCEPT !.stage = "accepted"]
    BY <1>3 DEF ServePlan
  <2>3. \/ UNCHANGED <<operations, working>>
        \/ /\ operations' = [operations EXCEPT ![posting.mission] = Operation("plan", "running")]
           /\ working' = working \cup {<<"plan", posting.mission>>}
    BY <1>3 DEF ServePlan
  <2>4. PostTyped'
    BY <2>1, <2>2 DEF PostTyped, Action
  <2>5. AppTyped'
    BY <2>1, <2>3 DEF BenchTyped, AppTyped, Operation, Kinds, Phases, Action
  <2> QED
    BY <2>1, <2>4, <2>5, ServedKeep
<1> QED
  BY <1>1, <1>2, <1>3
-----------------------------------------------------------------------------
(* The page                                                                *)

LEMMA ReloadQuiet ==
  ASSUME BenchTyped,
         TakeMissions \/ Poll \/ LiveRefresh \/ Refresh \/ TakePost \/ \E m \in Missions : Select(m)
  PROVE  BenchTyped' /\ Quiet
<1> USE UntouchedTyped
<1>0. PageTyped /\ LoadsTyped /\ ListTyped /\ TimersTyped
  BY DEF BenchTyped
<1>1. CASE TakeMissions
  <2> DEFINE sel == IF listing.stage = "answered" /\ selected \notin listing.created
                      THEN Nothing ELSE selected
  <2>1. /\ AfterMissions(listing.call, sel, listing.created)
        /\ listing' = Nothing
        /\ UNCHANGED <<kernel, app, posting, rendering, refreshing>>
    BY <1>1 DEF TakeMissions
  <2>2. listing.call \in Caller /\ FromCreate(listing.call) /\ listing.created \in SUBSET Missions
    BY <1>0, <1>1 DEF TakeMissions, ListTyped, List
  <2>3. sel \in {selected, Nothing}
    OBVIOUS
  <2> HIDE DEF sel
  <2>4. Reloads
    BY <1>0, <2>1, <2>2, <2>3, AfterMissionsReloads
  <2>5. ListTyped'
    BY <2>1 DEF ListTyped
  <2> QED
    BY <2>1, <2>4, <2>5, ReloadsKeep
<1>2. CASE Poll
  <2>1. /\ LoadMissions(Call("poll", Nothing))
        /\ UNCHANGED <<kernel, app, posting, rendering, refreshing>>
    BY <1>2 DEF Poll
  <2>2. Call("poll", Nothing) \in Caller /\ FromCreate(Call("poll", Nothing))
    BY DEF Call, Caller, FromCreate
  <2>3. Reloads /\ ListTyped'
    BY <1>0, <2>1, <2>2, LoadMissionsReloads
  <2> QED
    BY <2>1, <2>3, ReloadsKeep
<1>3. CASE LiveRefresh
  <2>1. /\ refreshing \in Missions /\ refreshing' = Nothing
        /\ UNCHANGED <<kernel, app, selected, detail, listing, posting, stream, rendering>>
        /\ LoadDetail(refreshing, TRUE) \/ UNCHANGED <<loading, shown>>
    BY <1>0, <1>3 DEF LiveRefresh, TimersTyped
  <2>2. LoadsTyped' /\ LoadsKept /\ shown' \in {shown, Nothing}
    BY <1>0, <2>1, LoadDetailReloads
  <2>3. Reloads /\ TimersTyped'
    BY <1>0, <2>1, <2>2 DEF Reloads, PageTyped, TimersTyped
  <2> QED
    BY <2>1, <2>3, ReloadsKeep
<1>4. CASE Refresh
  <2> DEFINE new == [stage |-> "asked", created |-> {}, call |-> Call("refresh", Nothing)]
  <2>1. /\ LoadDetail(selected, FALSE)
        /\ UNCHANGED <<kernel, app, selected, detail, posting, live>>
        /\ listing' = listing \/ listing' = new
    BY <1>4 DEF Refresh
  <2>2. new \in List /\ FromCreate(new.call)
    BY DEF List, Call, Caller, FromCreate
  <2>3. ListTyped'
    BY <1>0, <2>1, <2>2 DEF ListTyped
  <2>4. LoadsTyped' /\ LoadsKept /\ shown' \in {shown, Nothing}
    BY <1>0, <2>1, LoadDetailReloads DEF PageTyped
  <2>5. Reloads
    BY <1>0, <2>1, <2>4 DEF Reloads, PageTyped, live
  <2>6. TimersTyped' /\ PostTyped'
    BY <2>1 DEF live
  <2> QED
    BY <2>1, <2>3, <2>5, <2>6, ReloadsKeep
<1>5. CASE TakePost
  <2>1. /\ posting \in Action /\ posting' = Nothing
        /\ UNCHANGED <<kernel, app, rendering, refreshing>>
    BY <1>5 DEF TakePost, BenchTyped, PostTyped
  <2>2. PostTyped'
    BY <2>1 DEF PostTyped
  <2>3. Reloads /\ ListTyped'
    <3>1. CASE posting.stage = "failed"
      <4>1. UNCHANGED <<page, listing, loading, stream>>
        BY <1>5, <3>1 DEF TakePost
      <4> QED
        BY <1>0, <4>1 DEF Reloads, PageTyped, page
    <3>2. CASE posting.stage # "failed" /\ posting.kind = "plan"
      <4>1. LoadDetail(posting.mission, TRUE) /\ UNCHANGED <<selected, detail, listing, stream>>
        BY <1>5, <3>2 DEF TakePost
      <4>2. posting.mission \in Missions
        BY <2>1 DEF Action
      <4>3. LoadsTyped' /\ LoadsKept /\ shown' \in {shown, Nothing}
        BY <1>0, <4>1, <4>2, LoadDetailReloads
      <4> QED
        BY <1>0, <4>1, <4>3 DEF Reloads, PageTyped
    <3>3. CASE posting.stage # "failed" /\ posting.kind # "plan"
      <4> DEFINE call == Call(IF posting.kind = "create" THEN "create" ELSE "act", posting.mission)
      <4>1. LoadMissions(call)
        BY <1>5, <3>3 DEF TakePost
      <4>2. call \in Caller /\ FromCreate(call)
        BY <2>1 DEF Call, Caller, FromCreate, Action
      <4> HIDE DEF call
      <4> QED
        BY <1>0, <4>1, <4>2, LoadMissionsReloads
    <3> QED
      BY <3>1, <3>2, <3>3
  <2> QED
    BY <2>1, <2>2, <2>3, ReloadsKeep
<1>6. CASE \E m \in Missions : Select(m)
  <2>1. PICK m \in Missions : Select(m)
    BY <1>6
  <2>2. SelectMission(m) /\ UNCHANGED <<kernel, app, listing, posting, rendering, refreshing>>
    BY <2>1 DEF Select
  <2>3. Reloads
    BY <1>0, <2>2, SelectReloads
  <2> QED
    BY <2>2, <2>3, ReloadsKeep
<1> QED
  BY <1>1, <1>2, <1>3, <1>4, <1>5, <1>6

LEMMA ActQuiet ==
  ASSUME BenchTyped, Act PROVE BenchTyped' /\ Quiet
<1>1. PICK kind \in Kinds \cup {"create"}, m \in Missions : Post(kind, m)
  <2>1. selected # Nothing => selected \in Missions
    BY DEF BenchTyped, PageTyped
  <2>2. shown # Nothing => shown.mission \in Missions
    BY DEF BenchTyped, PageTyped, Details
  <2> QED
    BY <2>1, <2>2 DEF Act, Kinds
<1>2. /\ posting' = [kind |-> kind, mission |-> m, stage |-> "asked"]
      /\ UNCHANGED <<kernel, app, page, listing, loading, live>>
  BY <1>1 DEF Post
<1>3. PostTyped'
  BY <1>2 DEF PostTyped, Action
<1> QED
  BY <1>2, <1>3, UntouchedTyped, ServedKeep

LEMMA StreamQuiet ==
  ASSUME BenchTyped, OpenStream \/ Deliver PROVE BenchTyped' /\ Quiet
<1> USE UntouchedTyped
<1>0. stream \in Source /\ stream.got <= Last(stream.mission) /\ Last(stream.mission) \in Nat
  BY DEF BenchTyped, StreamTyped, OpenStream, Deliver, Source, KernelTyped, Last
<1>1. CASE OpenStream
  <2>1. /\ stream' = [stream EXCEPT !.open = TRUE]
        /\ rendering' = TRUE
        /\ refreshing' = IF refreshing = Nothing THEN stream.mission ELSE refreshing
        /\ UNCHANGED <<kernel, app, page, listing, loading, posting>>
    BY <1>1 DEF OpenStream
  <2>2. StreamTyped'
    BY <1>0, <2>1 DEF StreamTyped, Source, kernel, Last
  <2>3. TimersTyped'
    BY <1>0, <2>1 DEF BenchTyped, TimersTyped, Source
  <2>4. PageTyped' /\ Quiet
    BY <2>1 DEF BenchTyped, PageTyped, Quiet, PaneKept, page
  <2> QED
    BY <2>1, <2>2, <2>3, <2>4 DEF BenchTyped
<1>2. CASE Deliver
  <2> DEFINE e == <<stream.mission, stream.got + 1>>
  <2>1. /\ stream' = [stream EXCEPT !.got = @ + 1] /\ stream.got < Last(stream.mission)
        /\ detail' = detail \/ (detail # Nothing /\ detail' = [detail EXCEPT !.seen = @ \cup {e}])
        /\ rendering' \in {rendering, TRUE}
        /\ UNCHANGED <<kernel, app, selected, shown, listing, loading, posting, refreshing>>
    BY <1>2 DEF Deliver
  <2>2. e \in Entries
    BY <1>0 DEF Entries, Source
  <2> HIDE DEF e
  <2>3. StreamTyped'
    BY <1>0, <2>1 DEF StreamTyped, Source, kernel, Last
  <2>4. TimersTyped'
    BY <2>1 DEF BenchTyped, TimersTyped
  <2>5. CASE detail' = detail
    <3>1. PageTyped' /\ Quiet
      BY <2>1, <2>5 DEF BenchTyped, PageTyped, Quiet, PaneKept
    <3> QED
      BY <2>1, <2>3, <2>4, <3>1 DEF BenchTyped
  <2>6. CASE detail # Nothing /\ detail' = [detail EXCEPT !.seen = @ \cup {e}]
    <3>1. detail \in Details
      BY <2>6 DEF BenchTyped, PageTyped
    <3>2. detail' \in Details /\ detail'.mission = detail.mission /\ detail'.status = detail.status
      BY <2>2, <2>6, <3>1 DEF Details
    <3>3. PageTyped' /\ Quiet
      BY <2>1, <2>6, <3>2 DEF BenchTyped, PageTyped, Quiet, PaneKept
    <3> QED
      BY <2>1, <2>3, <2>4, <3>3 DEF BenchTyped
  <2> QED
    BY <2>1, <2>5, <2>6
<1> QED
  BY <1>1, <1>2

-----------------------------------------------------------------------------
(* What goes wrong                                                         *)

LEMMA FailedTyped ==
  /\ \A r \in Load : Failed(r) \in Load /\ (Read(Failed(r)) => Failed(r) = r)
  /\ \A r \in List : Failed(r) \in List /\ Failed(r).call = r.call
  /\ \A r \in Action : Failed(r) \in Action
  /\ Failed(Nothing) = Nothing
BY DEF Failed, Unanswered, Load, List, Action, Read

LEMMA FaultQuiet ==
  ASSUME BenchTyped, Lose \/ Kill \/ Close \/ Refuse PROVE BenchTyped' /\ Quiet
<1> USE UntouchedTyped
<1>0. LoadsTyped /\ ListTyped /\ PostTyped /\ AppTyped /\ TimersTyped
  BY DEF BenchTyped
<1>1. CASE Lose
  <2>1. UNCHANGED <<kernel, app, page, refreshing>>
    BY <1>1 DEF Lose
  <2>2. CASE /\ listing # Nothing /\ listing' = [listing EXCEPT !.stage = "failed"]
             /\ UNCHANGED <<loading, posting, stream, rendering>>
    <3>1. ListTyped'
      BY <1>0, <2>2 DEF ListTyped, List, FromCreate
    <3> QED
      BY <2>1, <2>2, <3>1, LostKeep
  <2>3. CASE /\ \E r \in loading : loading' = (loading \ {r}) \cup {[r EXCEPT !.stage = "failed"]}
             /\ UNCHANGED <<listing, posting, stream, rendering>>
    <3>1. PICK r \in loading : loading' = (loading \ {r}) \cup {[r EXCEPT !.stage = "failed"]}
      BY <2>3
    <3>2. [r EXCEPT !.stage = "failed"] \in Load /\ ~Read([r EXCEPT !.stage = "failed"])
      BY <1>0 DEF LoadsTyped, Load, Read
    <3>3. LoadsTyped' /\ LoadsKept
      BY <1>0, <3>1, <3>2 DEF LoadsTyped, LoadsKept
    <3> QED
      BY <2>1, <2>3, <3>3, LostKeep
  <2>4. CASE /\ posting # Nothing /\ posting' = [posting EXCEPT !.stage = "failed"]
             /\ UNCHANGED <<listing, loading, stream, rendering>>
    <3>1. PostTyped'
      BY <1>0, <2>4 DEF PostTyped, Action
    <3> QED
      BY <2>1, <2>4, <3>1, LostKeep
  <2>5. CASE /\ stream # Nothing /\ stream' = [stream EXCEPT !.open = FALSE] /\ rendering' = TRUE
             /\ UNCHANGED <<listing, loading, posting>>
    <3>1. TimersTyped'
      BY <1>0, <2>1, <2>5 DEF TimersTyped
    <3> QED
      BY <2>1, <2>5, <3>1, LostKeep
  <2> QED
    BY <1>1, <2>2, <2>3, <2>4, <2>5 DEF Lose
<1>2. ASSUME StreamEnds, UNCHANGED refreshing
      PROVE  /\ stream' \in {stream, [stream EXCEPT !.open = FALSE]}
             /\ stream = Nothing => stream' = Nothing
             /\ TimersTyped'
  BY <1>0, <1>2 DEF StreamEnds, TimersTyped
<1>3. CASE Kill
  <2>1. /\ up' = "down" /\ operations' = [m \in Missions |-> Idle] /\ working' = {}
        /\ listing' = Failed(listing) /\ loading' = {Failed(r) : r \in loading}
        /\ posting' = Failed(posting) /\ StreamEnds
        /\ UNCHANGED <<kernel, page, refreshing>>
    BY <1>3 DEF Kill
  <2>2. AppTyped'
    BY <2>1 DEF AppTyped, Idle, Phases
  <2>3. ListTyped' /\ PostTyped'
    BY <1>0, <2>1, FailedTyped DEF ListTyped, PostTyped
  <2>4. LoadsTyped' /\ LoadsKept
    BY <1>0, <2>1, FailedTyped DEF LoadsTyped, LoadsKept
  <2> QED
    BY <1>2, <2>1, <2>2, <2>3, <2>4, LostKeep
<1>4. CASE Close
  <2>1. up' = "closing" /\ StreamEnds
        /\ UNCHANGED <<kernel, operations, working, page, listing, loading, posting, refreshing>>
    BY <1>4 DEF Close
  <2>2. AppTyped'
    BY <1>0, <2>1 DEF AppTyped
  <2> QED
    BY <1>2, <2>1, <2>2, LostKeep
<1>5. CASE Refuse
  <2>1. UNCHANGED <<kernel, app, page, live>>
    BY <1>5 DEF Refuse
  <2>2. CASE listing # Nothing /\ listing' = Failed(listing) /\ UNCHANGED <<loading, posting>>
    <3>1. ListTyped'
      BY <1>0, <2>2, FailedTyped DEF ListTyped
    <3> QED
      BY <2>1, <2>2, <3>1, LostKeep DEF live
  <2>3. CASE /\ \E r \in loading : r.stage = "asked" /\ loading' = (loading \ {r}) \cup {Failed(r)}
             /\ UNCHANGED <<listing, posting>>
    <3>1. PICK r \in loading : loading' = (loading \ {r}) \cup {Failed(r)}
      BY <2>3
    <3>2. LoadsTyped' /\ LoadsKept
      BY <1>0, <3>1, FailedTyped DEF LoadsTyped, LoadsKept
    <3> QED
      BY <2>1, <2>3, <3>2, LostKeep DEF live
  <2>4. CASE posting # Nothing /\ posting' = Failed(posting) /\ UNCHANGED <<listing, loading>>
    <3>1. PostTyped'
      BY <1>0, <2>4, FailedTyped DEF PostTyped
    <3> QED
      BY <2>1, <2>4, <3>1, LostKeep DEF live
  <2> QED
    BY <1>5, <2>2, <2>3, <2>4 DEF Refuse
<1> QED
  BY <1>1, <1>3, <1>4, <1>5
-----------------------------------------------------------------------------
(* Answers to a request for a detail, and what the pane displays of them   *)

StatusKept ==
  shown # Nothing /\ shown' # Nothing /\ shown.mission = shown'.mission => shown.status <= shown'.status

LEMMA ServeDetailKeeps ==
  ASSUME BenchTyped, BenchOrder, ServeDetail PROVE BenchTyped' /\ BenchOrder' /\ StatusKept
<1> DEFINE Served(r) ==
      CASE r.stage = "asked" -> [r EXCEPT !.stage = "status", !.status = Status(r.mission)]
        [] r.stage = "status" -> [r EXCEPT !.stage = "timeline", !.seen = Timeline(r.mission)]
        [] OTHER -> [r EXCEPT !.stage = "answered", !.phase = OperationView(r.mission, r.status)]
<1>1. PICK r \in loading :
        /\ r.stage \in {"asked", "status", "timeline"}
        /\ loading' = (loading \ {r}) \cup {Served(r)}
  BY DEF ServeDetail
<1>2. UNCHANGED <<kernel, app, page, listing, posting, live>>
  BY DEF ServeDetail
<1>3. r \in Load /\ r.mission \in Missions /\ \A s \in loading : s = r
  BY <1>1 DEF BenchTyped, LoadsTyped, Load
<1>4. Last(r.mission) \in Nat /\ Timeline(r.mission) \in SUBSET Entries
  BY <1>3 DEF BenchTyped, KernelTyped, Last, Timeline, Entries
<1>5. OperationView(r.mission, r.status) \in Phases
  BY <1>3 DEF BenchTyped, AppTyped, KernelTyped, OperationView, Phases
<1> DEFINE new == Served(r)
<1>6. /\ new \in Load /\ new.mission = r.mission /\ Read(new)
      /\ new.status = IF r.stage = "asked" THEN Last(r.mission) ELSE r.status
  <2>1. CASE r.stage = "asked"
    BY <1>3, <1>4, <2>1 DEF Load, Read, Status
  <2>2. CASE r.stage = "status"
    BY <1>3, <1>4, <2>2 DEF Load, Read
  <2>3. CASE r.stage = "timeline"
    BY <1>3, <1>5, <2>3 DEF Load, Read
  <2> QED
    BY <1>1, <2>1, <2>2, <2>3
<1>7. loading' = {new}
  BY <1>1, <1>3
<1> HIDE DEF Served, new
<1>8. BenchTyped'
  <2>1. LoadsTyped'
    BY <1>6, <1>7 DEF LoadsTyped
  <2> QED
    BY <1>2, <2>1, UntouchedTyped
       DEF BenchTyped, PageTyped, StreamTyped, TimersTyped, ListTyped, PostTyped, page, live, kernel, Last
<1>9. CASE r.stage = "asked"
  <2>1. new.status = Last(r.mission)
    BY <1>6, <1>9
  <2>2. LogAhead'
    BY <1>2, <1>4, <1>6, <1>7, <2>1 DEF BenchOrder, LogAhead, page, kernel, Last
  <2>3. LoadAhead'
    BY <1>2, <1>6, <1>7, <2>1 DEF BenchOrder, LogAhead, LoadAhead, page
  <2> QED
    BY <1>2, <1>8, <2>2, <2>3 DEF BenchOrder, ShownBehind, page, StatusKept, BenchTyped, PageTyped, Details
<1>10. CASE r.stage # "asked"
  <2>1. Read(r) /\ new.status = r.status
    BY <1>1, <1>6, <1>10 DEF Read
  <2>2. Quiet
    BY <1>1, <1>2, <1>6, <1>7, <2>1, UntouchedTyped DEF Quiet, PaneKept, LoadsKept, page
  <2> QED
    BY <1>2, <1>8, <2>2, QuietKeepsOrder DEF StatusKept, page, BenchTyped, PageTyped, Details
<1> QED
  BY <1>9, <1>10

LEMMA TakeDetailKeeps ==
  ASSUME BenchTyped, BenchOrder, TakeDetail PROVE BenchTyped' /\ BenchOrder' /\ StatusKept
<1>1. PICK r \in loading :
        /\ loading' = loading \ {r}
        /\ \/ /\ r.stage = "answered"
              /\ detail' = Detail(r.mission, r.status, r.seen, r.phase)
              /\ shown' = IF selected = r.mission THEN detail' ELSE shown
           \/ /\ r.stage = "failed"
              /\ shown' = IF ~r.quiet /\ selected = r.mission THEN Nothing ELSE shown
              /\ UNCHANGED detail
        /\ UNCHANGED <<kernel, app, selected, listing, posting, live>>
  BY DEF TakeDetail
<1>2. r \in Load /\ loading' = {}
  BY <1>1 DEF BenchTyped, LoadsTyped
<1> DEFINE new == Detail(r.mission, r.status, r.seen, r.phase)
<1>3. new \in Details /\ new.mission = r.mission /\ new.status = r.status
  BY <1>2 DEF Detail, Details, Load
<1> HIDE DEF new
<1>4. detail' \in {detail, new} /\ shown' \in {shown, new, Nothing}
  BY <1>1 DEF new
<1>5. BenchTyped'
  <2>1. LoadsTyped' /\ PageTyped'
    BY <1>1, <1>2, <1>3, <1>4 DEF BenchTyped, LoadsTyped, PageTyped
  <2> QED
    BY <1>1, <2>1, UntouchedTyped
       DEF BenchTyped, StreamTyped, TimersTyped, ListTyped, PostTyped, live, kernel, Last
<1>6. CASE r.stage = "answered" /\ detail' = new
  <2>1. Read(r)
    BY <1>6 DEF Read
  <2>2. shown' = new \/ shown' = shown
    BY <1>1, <1>6 DEF new
  <2>3. \A d \in {detail, shown} : d # Nothing => d \in Details
    BY DEF BenchTyped, PageTyped
  <2>4. r.status <= Last(r.mission) /\ r.status \in Nat
    BY <1>2, <2>1 DEF BenchOrder, LogAhead, Load
  <2>5. \A d \in {detail, shown} : d # Nothing /\ d.mission = r.mission => d.status <= r.status
    BY <2>1 DEF BenchOrder, LoadAhead
  <2>6. StatusKept
    BY <1>3, <2>2, <2>3, <2>5 DEF StatusKept, Details
  <2>7. ShownBehind'
    BY <1>3, <1>6, <2>2, <2>4, <2>5 DEF ShownBehind
  <2>8. LogAhead'
    BY <1>1, <1>2, <1>3, <1>6, <2>2, <2>4 DEF BenchOrder, LogAhead, kernel, Last
  <2>9. LoadAhead'
    BY <1>2 DEF LoadAhead
  <2> QED
    BY <1>5, <2>6, <2>7, <2>8, <2>9 DEF BenchOrder
<1>7. CASE r.stage = "failed" /\ detail' = detail
  <2>1. shown' \in {shown, Nothing}
    BY <1>1, <1>7
  <2>2. Quiet
    BY <1>1, <1>2, <1>7, <2>1, UntouchedTyped DEF Quiet, PaneKept, LoadsKept
  <2> QED
    BY <1>5, <2>1, <2>2, QuietKeepsOrder DEF StatusKept, BenchTyped, PageTyped, Details
<1> QED
  BY <1>1, <1>6, <1>7 DEF new

LEMMA LiveRenderKeeps ==
  ASSUME BenchTyped, BenchOrder, LiveRender PROVE BenchTyped' /\ BenchOrder' /\ StatusKept
<1>1. /\ rendering' = FALSE /\ shown' \in {shown, detail}
      /\ UNCHANGED <<kernel, app, selected, detail, listing, loading, posting, stream, refreshing>>
  BY DEF LiveRender
<1>2. BenchTyped'
  <2>1. PageTyped' /\ TimersTyped'
    BY <1>1 DEF BenchTyped, PageTyped, TimersTyped
  <2> QED
    BY <1>1, <2>1, UntouchedTyped DEF BenchTyped, StreamTyped, kernel, Last
<1>3. \A d \in {detail, shown} : d # Nothing => d \in Details
  BY DEF BenchTyped, PageTyped
<1>4. StatusKept
  BY <1>1, <1>3 DEF StatusKept, BenchOrder, ShownBehind, Details
<1>5. ShownBehind'
  BY <1>1, <1>3 DEF BenchOrder, ShownBehind, Details
<1>6. LogAhead' /\ LoadAhead'
  BY <1>1 DEF BenchOrder, LogAhead, LoadAhead, kernel, Last
<1> QED
  BY <1>2, <1>4, <1>5, <1>6 DEF BenchOrder

-----------------------------------------------------------------------------

\* A Mission whose creation is asked for has no entry until it is served.
LEMMA CreatedOnceStep ==
  ASSUME BenchTyped, CreatedOnce, BenchNext PROVE CreatedOnce'
<1>1. CASE journal' = journal /\ posting' = posting
  BY <1>1 DEF CreatedOnce, Last
<1>2. CASE /\ posting' = Nothing \/ posting' = posting \/ posting'.stage # "asked"
           /\ journal' = journal \/ posting' # posting
  BY <1>2 DEF CreatedOnce, Last
<1>3. ASSUME NEW m \in Missions, Work(m) PROVE CreatedOnce'
  <2>1. PICK outcome \in Outcomes : journal' = [journal EXCEPT ![m] = Append(@, outcome)]
    BY <1>3 DEF Work
  <2>2. Last(m) # 0 /\ posting' = posting
    BY <1>3 DEF Work
  <2>3. \A k \in Missions : k # m => Last(k)' = Last(k)
    BY <2>1 DEF BenchTyped, KernelTyped, Last
  <2> QED
    BY <2>2, <2>3 DEF CreatedOnce, BenchTyped, PostTyped, Action, Last
<1>4. CASE Act
  <2>1. CASE \E m \in Missions \ Created : Post("create", m)
    <3>1. PICK m \in Missions \ Created : Post("create", m)
      BY <2>1
    <3>2. journal' = journal /\ posting' = [kind |-> "create", mission |-> m, stage |-> "asked"]
      BY <3>1 DEF Post, kernel
    <3>3. Last(m) = 0
      BY DEF Created, BenchTyped, KernelTyped, Last
    <3> QED
      BY <3>2, <3>3 DEF CreatedOnce, Last
  <2>2. CASE \E kind \in Kinds, m \in Missions \cup {Nothing} : Post(kind, m)
    BY <2>2 DEF Post, CreatedOnce, Kinds
  <2>3. shown # Nothing => shown.mission \in Missions
    BY DEF BenchTyped, PageTyped, Details
  <2>4. selected \in Missions \cup {Nothing}
    BY DEF BenchTyped, PageTyped
  <2> QED
    BY <1>4, <2>1, <2>2, <2>3, <2>4 DEF Act, Kinds
<1>5. CASE ServeCreate \/ ServeCommand \/ ServePlan \/ TakePost
  <2>1. posting # Nothing /\ posting \in Action
    BY <1>5 DEF ServeCreate, ServeCommand, ServePlan, TakePost, BenchTyped, PostTyped
  <2>2. posting' = Nothing \/ \E outcome \in {"accepted", "created", "failed"} :
          posting' = [posting EXCEPT !.stage = outcome]
    BY <1>5 DEF ServeCreate, ServeCommand, ServePlan, TakePost
  <2> QED
    BY <2>1, <2>2 DEF CreatedOnce, Action
<1>6. CASE Lose \/ Kill \/ Refuse
  <2>1. journal' = journal
    BY <1>6 DEF Lose, Kill, Refuse, kernel
  <2>2. posting' = posting \/ posting' = Failed(posting) \/ (posting # Nothing /\ posting' = [posting EXCEPT !.stage = "failed"])
    BY <1>6 DEF Lose, Kill, Refuse
  <2>3. posting # Nothing => posting \in Action
    BY DEF BenchTyped, PostTyped
  <2> QED
    BY <2>1, <2>2, <2>3 DEF CreatedOnce, Failed, Unanswered, Action, Last
<1>7. CASE \/ Supervise \/ Start \/ Closed \/ ServeMissions \/ ServeDetail \/ Close
           \/ \E m \in Missions, kind \in Kinds : Settle(kind, m)
  <2>1. journal' = journal /\ posting' = posting
    BY <1>7 DEF Supervise, Start, Closed, ServeMissions, ServeDetail, Close, Settle, kernel
  <2> QED
    BY <1>1, <2>1
<1>8. CASE \/ TakeMissions \/ TakeDetail \/ OpenStream \/ Deliver \/ LiveRender \/ LiveRefresh \/ Poll \/ Refresh
           \/ \E m \in Missions : Select(m)
  <2>1. journal' = journal /\ posting' = posting
    BY <1>8 DEF TakeMissions, TakeDetail, OpenStream, Deliver, LiveRender, LiveRefresh, Poll, Refresh, Select, kernel
  <2> QED
    BY <1>1, <2>1
<1> QED
  BY <1>3, <1>4, <1>5, <1>6, <1>7, <1>8 DEF BenchNext, Server, Engine, Browser, Operator

LEMMA BenchStep ==
  ASSUME BenchInv, [BenchNext]_benchVars PROVE BenchInv' /\ StatusKept
<1> USE DEF BenchInv
<1>1. ASSUME BenchTyped', Quiet PROVE BenchTyped' /\ BenchOrder' /\ StatusKept
  BY <1>1, QuietKeepsOrder DEF Quiet, PaneKept, StatusKept, BenchTyped, PageTyped, Details
<1>2. CASE BenchNext
  <2>1. CreatedOnce'
    BY <1>2, CreatedOnceStep
  <2>2. CASE Supervise \/ Start \/ Closed \/ ServeMissions
    BY <1>1, <2>1, <2>2, ServerQuiet
  <2>3. CASE \E m \in Missions : Work(m)
    BY <1>1, <2>1, <2>3, WorkQuiet
  <2>4. CASE \E m \in Missions : \E kind \in Kinds : Settle(kind, m)
    BY <1>1, <2>1, <2>4, SettleQuiet
  <2>5. CASE ServeCreate \/ ServeCommand \/ ServePlan
    BY <1>1, <2>1, <2>5, ServePostQuiet
  <2>6. CASE TakeMissions \/ Poll \/ LiveRefresh \/ Refresh \/ TakePost \/ \E m \in Missions : Select(m)
    BY <1>1, <2>1, <2>6, ReloadQuiet
  <2>7. CASE Act
    BY <1>1, <2>1, <2>7, ActQuiet
  <2>8. CASE OpenStream \/ Deliver
    BY <1>1, <2>1, <2>8, StreamQuiet
  <2>9. CASE Lose \/ Kill \/ Close \/ Refuse
    BY <1>1, <2>1, <2>9, FaultQuiet
  <2>10. CASE ServeDetail
    BY <2>1, <2>10, ServeDetailKeeps
  <2>11. CASE TakeDetail
    BY <2>1, <2>11, TakeDetailKeeps
  <2>12. CASE LiveRender
    BY <2>1, <2>12, LiveRenderKeeps
  <2> QED
    BY <1>2, <2>2, <2>3, <2>4, <2>5, <2>6, <2>7, <2>8, <2>9, <2>10, <2>11, <2>12
       DEF BenchNext, Server, Engine, Browser, Operator
<1>3. CASE UNCHANGED benchVars
  <2>1. UNCHANGED <<kernel, app, page, listing, loading, posting, live>>
    BY <1>3 DEF benchVars
  <2>2. BenchTyped' /\ Quiet
    BY <2>1, UntouchedTyped, ServedKeep
  <2>3. CreatedOnce'
    BY <2>1 DEF CreatedOnce, kernel, Last
  <2> QED
    BY <1>1, <2>2, <2>3
<1> QED
  BY <1>2, <1>3

LEMMA BenchInitial == BenchInit => BenchInv
<1> SUFFICES ASSUME BenchInit PROVE BenchInv
  OBVIOUS
<1>1. KernelTyped
  <2>1. PICK opening \in Openings :
          journal = [m \in Missions |-> IF m \in opening THEN <<"pending">> ELSE <<>>]
    BY DEF BenchInit
  <2>2. <<"pending">> \in Seq({"pending"} \cup Outcomes) /\ <<>> \in Seq({"pending"} \cup Outcomes)
    OBVIOUS
  <2> QED
    BY <2>1, <2>2 DEF BenchInit, KernelTyped
<1>2. AppTyped /\ PageTyped /\ LoadsTyped /\ PostTyped /\ StreamTyped /\ TimersTyped
  BY DEF BenchInit, AppTyped, PageTyped, LoadsTyped, PostTyped, StreamTyped, TimersTyped, Idle, Phases
<1>3. ListTyped
  BY DEF BenchInit, ListTyped, List, Call, Caller, FromCreate
<1>4. BenchOrder /\ CreatedOnce
  BY DEF BenchInit, BenchOrder, ShownBehind, LogAhead, LoadAhead, CreatedOnce
<1> QED
  BY <1>1, <1>2, <1>3, <1>4 DEF BenchInv, BenchTyped

\* What the page and the application keep has its type, and the stream has
\* brought no entry that the log does not have.
THEOREM BenchTypesHold == BenchSpec => []BenchTypeOK
<1>1. BenchInv => BenchTypeOK
  <2> SUFFICES ASSUME BenchInv PROVE BenchTypeOK
    OBVIOUS
  <2>1. \A r \in loading : r.stage \in {"asked", "status", "timeline", "answered", "failed"}
    BY DEF BenchInv, BenchTyped, LoadsTyped, Load
  <2>2. \A d \in {detail, shown} : d = Nothing \/ d.mission \in Missions
    BY DEF BenchInv, BenchTyped, PageTyped, Details
  <2>3. listing = Nothing \/ listing.stage \in {"asked", "answered", "failed"}
    BY DEF BenchInv, BenchTyped, ListTyped, List
  <2>4. posting = Nothing \/ posting.stage \in {"asked", "created", "accepted", "failed"}
    BY DEF BenchInv, BenchTyped, PostTyped, Action
  <2>5. KernelTyped /\ AppTyped /\ TimersTyped /\ PageTyped
    BY DEF BenchInv, BenchTyped
  <2>6. stream = Nothing \/ stream.got <= Last(stream.mission)
    BY DEF BenchInv, BenchTyped, StreamTyped
  <2>7. /\ journal \in [Missions -> Seq({"pending"} \cup Outcomes)]
        /\ row \in [Missions -> {"none", "pending", "dispatching", "completed", "failed"}]
    BY <2>5 DEF KernelTyped
  <2>8. /\ up \in {"up", "closing", "down"}
        /\ operations \in [Missions -> [kind : Kinds \cup {"none"},
             phase : {"none", "queued", "running", "completed", "failed", "interrupted"}]]
        /\ working \subseteq Kinds \X Missions
    BY <2>5 DEF AppTyped, Phases
  <2>9. rendering \in BOOLEAN /\ {refreshing, selected} \subseteq Missions \cup {Nothing}
    BY <2>5 DEF TimersTyped, PageTyped
  <2> QED
    BY <2>1, <2>2, <2>3, <2>4, <2>6, <2>7, <2>8, <2>9 DEF BenchTypeOK
<1> QED
  BY <1>1, BenchInitial, BenchStep, PTL DEF BenchSpec

\* The status displayed of a Mission never goes back to an earlier one: answers
\* of several reloads are taken in the order they were read.
THEOREM DisplayNeverGoesBack == BenchSpec => StatusNeverGoesBack
<1>1. BenchInv /\ [BenchNext]_benchVars =>
        [shown # Nothing /\ shown' # Nothing /\ shown.mission = shown'.mission
           => shown.status <= shown'.status]_benchVars
  BY BenchStep DEF StatusKept
<1> QED
  BY <1>1, BenchInitial, BenchStep, PTL DEF BenchSpec, StatusNeverGoesBack
=============================================================================
