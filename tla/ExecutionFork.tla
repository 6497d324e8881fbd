---------------------------- MODULE ExecutionFork ----------------------------
(***************************************************************************)
(* Execution forks (execution-fork.ts, mission-execution-fork.ts,          *)
(* engine.ts): a child branch of a Mission, continued by a Runtime in a    *)
(* Git worktree of its own, and the reruns of Outcome Studio, which        *)
(* execute one fork per trial.                                             *)
(*                                                                         *)
(* An event of a fork is appended to a journal file first and then, under  *)
(* the workspace lease, projected into the Mission's log.  The two can     *)
(* fall apart: a controller may end, lose its lease or be refused between  *)
(* any two steps.  The Git worktree and the Runtime need no lease.         *)
(***************************************************************************)
EXTENDS MissionStore

CONSTANTS Reruns, Plain,  \* requests for a rerun, and for one fork
          Trials,         \* trials of a rerun
          Shared,         \* the child branch that every plain request names
          None,           \* no live lease
          MaxFaults       \* bound on ends, lost leases and failing calls

ASSUME ForkAssumption ==
  /\ Reruns \cap Plain = {}
  /\ Trials \in Nat \ {0}
  /\ MaxFaults \in Nat
  /\ None \notin Reruns \cup Plain
  /\ Root # Shared
  /\ {Root, Shared} \cap ((Reruns \cup Plain) \X (1..Trials)) = {}

Runs == Reruns \cup Plain
Forks == (Reruns \X (1..Trials)) \cup (Plain \X {1})
Branch(f) == IF f[1] \in Plain THEN Shared ELSE f

VARIABLES
  log,       \* the Mission's log (store.ts)
  journal,   \* of each fork: its evidence journal, a file
  worktree,  \* forks that have created their Git branch and worktree
  ran,       \* forks whose Runtime was started
  holder,    \* the run that holds the live workspace lease
  run,       \* where each run is
  recovery,  \* what resuming the Mission came to
  faults

vars == <<log, journal, worktree, ran, holder, run, recovery, faults>>

ForkEvents == {"fork.planned", "worktree.create-started", "worktree.created", "runtime.started",
               "runtime.completed", "runtime.failed",
               "receipt-input.ready", "fork.failed"}
Steps == {"start", "resolve", "resolved", "prepare", "write", "bridge", "checkout", "runtime",
          "receipt", "settle", "save", "saved", "done", "failed", "crashed"}
Over == {"saved", "done", "failed", "crashed"}

\* pick: the profile selection in use, named after the fork that detected it;
\* picks: those of the trials so far; event: the event being appended.
Place == [step : Steps, trial : 1..Trials, pick : Forks, picks : SUBSET Forks,
          event : ForkEvents]

\* What the log holds of forks, and the statuses that one reports of its Effect.
Reported == {"intended", "dispatch_started", "executed", "confirmed", "failed"}
LogEvent == [type : {"checkpoint", "selected", "fork", "branch.created", "effect",
                     "attempt.plan", "attempt.bound", "attempt.started", "attempt.finished",
                     "receipt", "rerun"},
             branch : {Root, Shared} \cup Forks, id : Forks \cup {Root},
             value : {"created", "selected", "active", "planned", "bound", "running",
                      "succeeded", "verified", "rejected", "started", "saved"}
                       \cup Reported \cup ForkEvents]

TypeOK ==
  /\ log \in Seq(LogEvent)
  /\ journal \in [Forks -> Seq(ForkEvents)]
  /\ worktree \subseteq Forks /\ ran \subseteq Forks
  /\ holder \in Runs \cup {None}
  /\ run \in [Runs -> Place]
  /\ recovery \in {"none", "clean", "refused"}
  /\ faults \in 0..MaxFaults

\* The Mission has a checkpoint that its forks start from.
Init ==
  /\ log = <<Event("checkpoint", Root, Root, "created")>>
  /\ journal = [f \in Forks |-> <<>>]
  /\ worktree = {} /\ ran = {}
  /\ holder = None
  /\ run = [r \in Runs |-> [step |-> IF r \in Reruns THEN "start" ELSE "resolve", trial |-> 1,
                            pick |-> <<r, 1>>, picks |-> {}, event |-> "fork.planned"]]
  /\ recovery = "none" /\ faults = 0

Own(r) == <<r, run[r].trial>>
At(r, step) == run[r].step = step
Goto(r, step) == run' = [run EXCEPT ![r].step = step]
WriteNext(r, event) == run' = [run EXCEPT ![r].step = "write", ![r].event = event]
Fault == faults < MaxFaults /\ faults' = faults + 1

\* Runs that hold nothing when they acquire; #withLease throws if another does.
Free == holder = None
\* What an exception out of executeFork leads to.
Thrown(r) == IF r \in Reruns THEN "settle" ELSE "failed"
Release(r) == holder' = IF holder = r THEN None ELSE holder
Throw(r) == Goto(r, Thrown(r)) /\ Release(r)

-----------------------------------------------------------------------------
(* executeFork before its lease                                            *)

\* rerunOutcomeStudioScenario: 'started', under a lease of its own.
StartRerun(r) ==
  /\ At(r, "start")
  /\ IF Free
       THEN log' = Append(log, Event("rerun", Root, Own(r), "started")) /\ Goto(r, "resolve")
       ELSE Goto(r, "failed") /\ UNCHANGED log
  /\ UNCHANGED <<journal, worktree, ran, holder, recovery, faults>>

\* The latest selection in the log, or a fresh detection, whose identity holds
\* the time of the detection.
Selected == Events(log, "selected")

\* The checkpoint must be one of this Mission, recorded with its Attempt, and the
\* child must be new.
Refused(r) == ~CheckpointEvidence(log, Root) \/ Branch(Own(r)) \in Branches(log)

Resolve(r) ==
  /\ At(r, "resolve")
  /\ IF Refused(r)
       THEN Goto(r, Thrown(r))
       ELSE run' = [run EXCEPT ![r].step = "resolved",
              ![r].pick = IF Selected = {} THEN Own(r) ELSE log[LastOf(Selected)].id]
  /\ UNCHANGED <<log, journal, worktree, ran, holder, recovery, faults>>

\* The lease, and the selection made before it was held.
AcquireLease(r) ==
  /\ At(r, "resolved")
  /\ IF Free
       THEN /\ holder' = r
            /\ log' = IF run[r].pick = Own(r)
                        THEN Append(log, Event("selected", Root, Own(r), "selected")) ELSE log
            /\ Goto(r, "prepare")
       ELSE Goto(r, Thrown(r)) /\ UNCHANGED <<log, holder>>
  /\ UNCHANGED <<journal, worktree, ran, recovery, faults>>

\* ExecutionForkService.execute before fork.planned: the Git branch and the
\* path are new.
Prepare(r) ==
  /\ At(r, "prepare")
  /\ IF \E f \in worktree : Branch(f) = Branch(Own(r))
       THEN Throw(r)
       ELSE WriteNext(r, "fork.planned") /\ UNCHANGED holder
  /\ UNCHANGED <<log, journal, worktree, ran, recovery, faults>>

-----------------------------------------------------------------------------
(* One event of a fork: journal, then Kernel                               *)

\* FileExecutionForkEvidenceJournal.append: fsync before it returns.
WriteJournal(r) ==
  /\ At(r, "write")
  /\ journal' = [journal EXCEPT ![Own(r)] = Append(@, run[r].event)]
  /\ Goto(r, "bridge")
  /\ UNCHANGED <<log, worktree, ran, holder, recovery, faults>>

\* projectExecutionForkEvent: the Kernel events of one event of fork f.
Projected(f, event) ==
  LET is(type, value) == Event(type, Branch(f), f, value)
      fork == is("fork", event)
  IN CASE event = "fork.planned" -> <<fork, is("branch.created", "active"),
                                      is("effect", "intended"), is("attempt.plan", "planned")>>
       [] event = "worktree.create-started" -> <<fork, is("effect", "dispatch_started")>>
       [] event = "runtime.started" -> <<fork, is("attempt.bound", "bound"),
                                         is("attempt.started", "running")>>
       [] event = "runtime.completed" -> <<fork, is("attempt.finished", "succeeded"),
                                           is("effect", "executed")>>
       [] event = "runtime.failed" -> <<fork, is("attempt.finished", "failed"),
                                        is("effect", "failed")>>
       [] event = "receipt-input.ready" -> <<fork, is("effect", "confirmed")>>
       [] OTHER -> <<fork>>

\* validateNextTransition: the event follows the last one that was bridged.
InOrder(f) == Len(journal[f]) = Cardinality(Of(log, "fork", f)) + 1

AfterBridge(r, event) ==
  CASE event = "fork.planned" -> WriteNext(r, "worktree.create-started") /\ UNCHANGED holder
    [] event = "worktree.create-started" -> Goto(r, "checkout") /\ UNCHANGED holder
    [] event = "worktree.created" -> WriteNext(r, "runtime.started") /\ UNCHANGED holder
    [] event = "runtime.started" -> Goto(r, "runtime") /\ UNCHANGED holder
    [] event = "runtime.completed" -> WriteNext(r, "receipt-input.ready") /\ UNCHANGED holder
    [] event \in {"runtime.failed", "receipt-input.ready"} ->
         Goto(r, "receipt") /\ UNCHANGED holder
    [] event = "fork.failed" -> Throw(r)

\* Mutant: a failure that could not be appended is appended again.
FailForkAgain(r, event) ==
  IF event = "fork.planned"
    THEN Throw(r) ELSE WriteNext(r, "fork.failed") /\ UNCHANGED holder

\* Nothing is planned as long as fork.planned is not in both, and the failure
\* of fork.failed itself is not retried.
FailFork(r, event) ==
  IF event \in {"fork.planned", "fork.failed"}
    THEN Throw(r) ELSE WriteNext(r, "fork.failed") /\ UNCHANGED holder

Bridge(r) ==
  LET f == Own(r)  event == run[r].event  batch == Projected(f, event)
  IN /\ At(r, "bridge")
     /\ IF holder = r /\ InOrder(f) /\ AcceptsAll(log, batch)
          THEN log' = log \o batch /\ AfterBridge(r, event)
          ELSE UNCHANGED log /\ FailFork(r, event)
     /\ UNCHANGED <<journal, worktree, ran, recovery, faults>>

-----------------------------------------------------------------------------
(* Worktree and Runtime                                                    *)

\* git worktree add -b, and the digest of what it checked out.
Checkout(r) ==
  /\ At(r, "checkout")
  /\ \/ /\ \A f \in worktree : Branch(f) # Branch(Own(r))
        /\ worktree' = worktree \cup {Own(r)}
        /\ WriteNext(r, "worktree.created") /\ UNCHANGED faults
     \/ /\ \E f \in worktree : Branch(f) = Branch(Own(r))
        /\ WriteNext(r, "fork.failed") /\ UNCHANGED <<worktree, faults>>
     \/ Fault /\ WriteNext(r, "fork.failed") /\ UNCHANGED worktree
  /\ UNCHANGED <<log, journal, ran, holder, recovery>>

\* The port before its Runtime: the Contract revision is put into the worktree,
\* and a Tool Gateway that could not be armed refuses to dispatch.
RefuseRuntime(r) ==
  /\ At(r, "runtime")
  /\ Fault /\ WriteNext(r, "fork.failed")
  /\ UNCHANGED <<log, journal, worktree, ran, holder, recovery>>

\* continueFromCheckpoint: a result, completed or failed, or an exception (also
\* when the source workspace has changed).  The evidence it appends meanwhile
\* takes the same two steps as any other event, and changes nothing else.
Continue(r) ==
  /\ At(r, "runtime")
  /\ ran' = ran \cup {Own(r)}
  /\ \/ WriteNext(r, "runtime.completed") /\ UNCHANGED faults
     \/ Fault /\ \E event \in {"runtime.failed", "fork.failed"} : WriteNext(r, event)
  /\ UNCHANGED <<log, journal, worktree, holder, recovery>>

-----------------------------------------------------------------------------
(* Receipts                                                                *)

\* After the service returned: the last decisions of the Tool Gateway are drained,
\* and if one cannot be there is no receipt.
DrainFails(r) ==
  /\ At(r, "receipt")
  /\ Fault /\ Throw(r)
  /\ UNCHANGED <<log, journal, worktree, ran, recovery>>

\* #issueExecutionForkReceipt: only after a completed result; appended, then
\* written to files, which may fail.
IssueReceipt(r) ==
  LET f == Own(r)
  IN /\ At(r, "receipt")
     /\ \/ /\ holder = r /\ Last(journal[f]) = "receipt-input.ready" /\ Unresolved(log) = {}
           /\ log' = Append(log, Event("receipt", Branch(f), f, "verified"))
           /\ \/ Goto(r, IF r \in Reruns THEN "settle" ELSE "done") /\ UNCHANGED faults
              \/ Fault /\ Goto(r, Thrown(r))
           /\ Release(r)
        \/ /\ ~(holder = r /\ Last(journal[f]) = "receipt-input.ready" /\ Unresolved(log) = {})
           /\ Throw(r) /\ UNCHANGED <<log, faults>>
     /\ UNCHANGED <<journal, worktree, ran, recovery>>

-----------------------------------------------------------------------------
(* Trials of a rerun                                                       *)

BranchReceipts(f) == {i \in Events(log, "receipt") : log[i].branch = Branch(f)}

\* The trial counts if its Attempt was started and its Runtime gave a result.
Counts(f) ==
  /\ Of(log, "attempt.started", f) # {}
  /\ Range(journal[f]) \cap {"runtime.completed", "runtime.failed"} # {}

AfterTrial(r) ==
  run' = IF ~Counts(Own(r)) THEN [run EXCEPT ![r].step = "failed"]
         ELSE IF run[r].trial = Trials
           THEN [run EXCEPT ![r].step = "save", ![r].picks = @ \cup {run[r].pick}]
           ELSE [run EXCEPT ![r].step = "resolve", ![r].trial = @ + 1,
                            ![r].picks = @ \cup {run[r].pick}]

\* Mutant: a failed trial is rejected without asking for its receipt.
SettleAlways(r) ==
  LET f == Own(r)
  IN /\ At(r, "settle")
     /\ IF Of(log, "fork", f) = {} \/ ~Free
          THEN Goto(r, "failed") /\ UNCHANGED log
          ELSE /\ log' = Append(log, Event("receipt", Branch(f), f, "rejected"))
               /\ AfterTrial(r)
     /\ UNCHANGED <<journal, worktree, ran, holder, recovery, faults>>

\* The fork returned, or threw: then its record is looked up in the Kernel, and
\* a branch without a receipt gets a rejected one, under a lease of its own.
Settle(r) ==
  LET f == Own(r)
  IN /\ At(r, "settle")
     /\ IF Of(log, "fork", f) = {} \/ (BranchReceipts(f) = {} /\ ~Free)
          THEN Goto(r, "failed") /\ UNCHANGED log
          ELSE /\ log' = IF BranchReceipts(f) # {} THEN log
                         ELSE Append(log, Event("receipt", Branch(f), f, "rejected"))
               /\ AfterTrial(r)
     /\ UNCHANGED <<journal, worktree, ran, holder, recovery, faults>>

\* The trials must have used one profile selection.
SaveRerun(r) ==
  /\ At(r, "save")
  /\ IF Free /\ Cardinality(run[r].picks) = 1
       THEN log' = Append(log, Event("rerun", Root, Own(r), "saved")) /\ Goto(r, "saved")
       ELSE Goto(r, "failed") /\ UNCHANGED log
  /\ UNCHANGED <<journal, worktree, ran, holder, recovery, faults>>

-----------------------------------------------------------------------------
Crash(r) ==
  /\ run[r].step \notin Over
  /\ Fault /\ Goto(r, "crashed") /\ Release(r)
  /\ UNCHANGED <<log, journal, worktree, ran, recovery>>

\* The holder was delayed for longer than its lease; it goes on until its next
\* append under the fence.
ExpireLease ==
  /\ holder # None
  /\ Fault /\ holder' = None
  /\ UNCHANGED <<log, journal, worktree, ran, run, recovery>>

\* #closeDanglingAttempts, after all else is over: the open Attempt of a fork has
\* an Effect of its own kind, which recovery does not find.
Resume ==
  /\ Free /\ recovery = "none" /\ \A r \in Runs : run[r].step \in Over
  /\ recovery' = IF OpenAttempts(log) = {} THEN "clean" ELSE "refused"
  /\ UNCHANGED <<log, journal, worktree, ran, holder, run, faults>>

Advance(r) ==
  \/ StartRerun(r) \/ Resolve(r) \/ AcquireLease(r) \/ Prepare(r)
  \/ WriteJournal(r) \/ Bridge(r) \/ Checkout(r) \/ RefuseRuntime(r) \/ Continue(r)
  \/ DrainFails(r) \/ IssueReceipt(r) \/ Settle(r) \/ SaveRerun(r)

Next == (\E r \in Runs : Advance(r) \/ Crash(r)) \/ ExpireLease \/ Resume

Spec == Init /\ [][Next]_vars

-----------------------------------------------------------------------------
\* What the Kernel knows of a fork is a prefix of its journal, at most two
\* events behind (the one the Kernel refused and the fork.failed that followed
\* it), whatever controllers end or lose their lease in between.
\* And nothing is checked out without a durable Effect that says so, no Runtime
\* continues a branch before its Attempt was started in the Kernel.
EvidenceLeads ==
  /\ \A f \in Forks :
       LET kernel == Of(log, "fork", f)
       IN /\ Len(journal[f]) - Cardinality(kernel) \in 0..2
          /\ \A i \in kernel :
               log[i].value = journal[f][Cardinality({j \in kernel : j <= i})]
  /\ \A f \in worktree : f \in Effects(log) /\ EffectStatus(log, f) # "intended"
  /\ \A f \in ran : f \in StartedAttempts(log)

\* A branch has at most one receipt, and a verified one stands for a finished
\* Attempt and for Effects that were all resolved when it was issued.
ReceiptsAreTrue ==
  \A i \in Events(log, "receipt") :
    /\ \A j \in Events(log, "receipt") : log[j].branch = log[i].branch => j = i
    /\ log[i].value = "verified" =>
         LET h == SubSeq(log, 1, i)
         IN /\ \A e \in Effects(h) : EffectStatus(h, e) \in {"confirmed", "failed"}
            /\ EffectStatus(h, log[i].id) = "confirmed"

\* While the Mission counts as succeeded no Attempt that was started is
\* unfinished, though other forks of it go on after its receipt.
SucceededIsQuiet ==
  Status(log) = "succeeded" => StartedAttempts(log) \cap OpenAttempts(log) = {}

\* A verified receipt, and the status it gives the Mission, claims nothing that
\* is open (store.ts, #assertReceipt, replay of 'receipt.issued').
ReceiptsHold == ReceiptsAreTrue /\ SucceededIsQuiet

\* product-requirements.md: "A restart must reconcile incomplete dispatch":
\* resuming the Mission is not refused for a fork that was left open.
RestartReconcilesForks == recovery # "refused"
=============================================================================
