--------------------------- MODULE MissionInsight ---------------------------
(***************************************************************************)
(* Failure intelligence of a Mission branch while the Mission goes on      *)
(* (mission-failure-intelligence.ts, engine.ts).  A reader takes the log   *)
(* first, the composite checkpoints of the branch when the Context graph   *)
(* has been built, and the execution forks last; meanwhile Attempts record *)
(* evidence, checkpoints are captured, and developers have diagnostic      *)
(* forks executed for candidates that they derived the same way.           *)
(***************************************************************************)
EXTENDS MissionStore, FailureIntelligence

CONSTANTS
  Histories,       \* what earlier Attempts of the branch may have recorded
  Observations,    \* what an Attempt may record beside context freshness
  Kinds,           \* kinds of Intervention that are asked for
  ContextFact,     \* the declared Context fact of the Mission
  Criteria,        \* acceptance criteria
  Readers, Askers, \* readers of the analysis, developers who ask for forks
  MaxObserved, MaxEdits, MaxCheckpoints, MaxForks

\* An event that is evidence of the root branch: only Request records a diagnostic
\* event, and only the run of a fork an event of another branch.
OfRoot(e) == e = Event(e.type, Root, e.id, e.value) /\ e.type # "diagnostic"

\* What a drain of the Tool Gateway adds to h: a request once, a decision or a result
\* of what was asked for.  A release, which is read but nowhere recorded, would be of
\* a decision as it was made.
InGateOrder(h, e) ==
  /\ e.type = "gate.requested" => Of(h, e.type, e.id) = {}
  /\ e.type \in {"gate.decided", "gate.result"} => Of(h, "gate.requested", e.id) # {}
  /\ e.type = "gate.released" =>
       \E i \in Of(h, "gate.decided", e.id) :
         i = e.value.intent /\ h[i].value.decision = e.value.decision

ASSUME InsightAssumption ==
  /\ \A n \in {MaxObserved, MaxEdits, MaxCheckpoints, MaxForks} : n \in Nat
  /\ Readers \cap Askers = {}
  /\ Root \notin Nat /\ IsFiniteSet(Criteria)
  /\ \A h \in Histories : h \in Seq(Range(h)) /\ \A i \in DOMAIN h : OfRoot(h[i])
  /\ \A h \in Histories : \A i \in DOMAIN h : InGateOrder(SubSeq(h, 1, i - 1), h[i])
  /\ \A e \in Observations : OfRoot(e)

Clients == Readers \cup Askers
Contents == 0..MaxEdits + 1
Digests == Contents \cup {NoDigest}

VARIABLES
  events,          \* the Mission's log (store.ts)
  checkpoints,  \* composite checkpoints of the branch: what the workspace held
  forks,        \* diagnostic forks, with the step each is at
  source,       \* the Context source, which is the content of the workspace
  cache,        \* the Context snapshot that Attempts are given
  client,       \* where each client is in a derivation, and what it read
  view,         \* the last analysis each reader was shown
  observed, edits

insightVars == <<events, checkpoints, forks, source, cache, client, view, observed, edits>>

NoView == [checkpoint |-> 0, report |-> {}, failed |-> FALSE]

Shown(r) == view[r].report

\* What a client wishes and what it is shown is for the values of the log to say.
Fork == [phase : {"requested", "planned", "finished", "receipted"}, checkpoint : Nat, kind : Kinds,
         before : Digests, after : Digests, read : Digests]
InsightTypeOK ==
  /\ events \in Seq(Range(events))
  /\ checkpoints \in Seq(Contents) /\ Len(checkpoints) <= MaxCheckpoints
  /\ forks \in Seq(Fork) /\ \A k \in DOMAIN forks : forks[k].checkpoint \in DOMAIN checkpoints
  /\ {source, cache} \subseteq Contents
  /\ client = [c \in Clients |->
       [step |-> client[c].step, through |-> client[c].through,
        checkpoint |-> client[c].checkpoint, wish |-> client[c].wish]]
  /\ \A c \in Clients :
       /\ client[c].step \in {"idle", "events", "checkpoint", "accepted"}
       /\ client[c].through \in 0..Len(events) /\ client[c].checkpoint \in 0..Len(checkpoints)
  /\ view = [r \in Readers |->
       [checkpoint |-> view[r].checkpoint, report |-> Shown(r), failed |-> view[r].failed]]
  /\ \A r \in Readers : view[r].checkpoint \in 0..Len(checkpoints) /\ view[r].failed \in BOOLEAN
  /\ observed \in 0..MaxObserved /\ edits \in 0..MaxEdits

\* readContextBinding: the snapshot or the source as the material that an Attempt is
\* given, and the source as it is, in a working copy with this content.
Reading(mode, content) ==
  [bound |-> IF mode = "cached" THEN cache ELSE content, current |-> content]

Idle == [step |-> "idle", through |-> 0, checkpoint |-> 0, wish |-> {}]

InsightInit ==
  /\ events \in Histories
  /\ checkpoints = <<>> /\ forks = <<>>
  /\ source = 1 /\ cache \in {0, 1}
  /\ client = [c \in Clients |-> Idle]
  /\ view = [r \in Readers |-> NoView]
  /\ observed = 0 /\ edits = 0

-----------------------------------------------------------------------------
(* Evidence of the branch in a prefix h of the log                         *)

\* branchScope: the events of the branch; a child branch's do not count.
Scope(h, type) == {i \in Events(h, type) : h[i].branch = Root}
At(i) == <<"event", i>>
Gate(g) == <<"gate", g>>

\* collectRuntimeFacts: only facts that the Runtime stated explicitly.
\* A fact's id is the place of its event here: facts that differ and share an id,
\* of which the code takes none, do not occur.
RuntimeFact(h, i) ==
  [id |-> At(i), refs |-> {<<"runtime", i>>, <<"artifact", i>>},
   kind |-> h[i].id.kind, name |-> h[i].id.name, isError |-> h[i].id.isError,
   exit |-> h[i].id.exit, phase |-> h[i].id.phase]

\* Mutant: a later fact of the branch replaces those before it.
LastRuntimeFact(h) ==
  {RuntimeFact(h, i) : i \in {i \in Scope(h, "fact") : \A j \in Scope(h, "fact") : j <= i}}

RuntimeFacts(h) == {RuntimeFact(h, i) : i \in {i \in Scope(h, "fact") : h[i].value = "explicit"}}

Freshness(h) ==
  {[id |-> At(i), refs |-> {<<"event", i>>, <<h[i].id, 0>>}, fact |-> h[i].id,
    bound |-> h[i].value.bound, current |-> h[i].value.current,
    boundWorkspace |-> h[i].value.bound, currentWorkspace |-> h[i].value.current] :
     i \in Scope(h, "context.freshness")}

\* The divergence that stopped an Attempt from starting, and the checkpoint of an
\* Attempt against the workspace that composite checkpoint number c captured later.
Comparison(id, refs, boundary, expected, found) ==
  [id |-> id, refs |-> refs, boundary |-> <<"boundary", boundary>>, expected |-> expected,
   observed |-> found]
Comparisons(h, c) ==
  {Comparison(At(i), {}, h[i].id, h[i].value.expected, h[i].value.observed) :
     i \in Scope(h, "workspace.diverged")} \cup
  IF c = 0 THEN {}
  ELSE {Comparison(<<"comparison", i>>, {At(i), <<"checkpoint", c>>}, i, h[i].value, checkpoints[c]) :
          i \in Scope(h, "checkpoint.created")}

\* collectVerifications: the last result of a criterion; a receipt's replaces
\* any that was not issued in one.
Verifications(h) ==
  LET receipts == Scope(h, "receipt")
      runs(k) == {i \in Scope(h, "verification.completed") : h[i].id = k}
      result(k, i, status) ==
        {[id |-> <<"verified", i>>, refs |-> {At(i)}, key |-> k, status |-> status]}
  IN UNION {LET i == LastOf(IF receipts = {} THEN runs(k) ELSE receipts)
            IN result(k, i, IF receipts = {} THEN h[i].value
                            ELSE IF h[i].value = "verified" THEN "passed" ELSE "failed") :
              k \in {k \in Criteria : receipts # {} \/ runs(k) # {}}}

Requests(h) ==
  {[id |-> Gate(h[i].id), refs |-> {<<"effect", h[i].id>>}, gate |-> Gate(h[i].id),
    attempt |-> Root, tool |-> h[i].value.tool, input |-> h[i].value.input] :
     i \in Scope(h, "gate.requested")}
Decided(h, type) ==
  {[id |-> At(i), refs |-> {Gate(h[i].id), <<"effect", h[i].id>>}, gate |-> Gate(h[i].id),
    decision |-> h[i].value.decision, intent |-> At(h[i].value.intent)] : i \in Scope(h, type)}
Results(h) ==
  {[id |-> At(i), refs |-> {Gate(h[i].id), <<"effect", h[i].id>>}, gate |-> Gate(h[i].id),
    outcome |-> h[i].value, digest |-> h[i].value] : i \in Scope(h, "gate.result")}

-----------------------------------------------------------------------------
(* Diagnostic forks as evidence                                            *)

\* validateVariableForIntervention
Allowed(kind) ==
  CASE kind = "context" -> {"context"} [] kind = "tool-result" -> {"tool"}
    [] kind = "permission-narrowing" -> {"missionbraid"}
    [] kind = "profile" -> {"model", "harness", "environment"}
    [] kind = "workspace" -> {"environment"} [] kind = "guidance" -> {"model", "context"}
Compatible(variable, kind) ==
  /\ variable.dimension \in Allowed(kind)
  /\ kind = "permission-narrowing" => variable.operation = "narrow"

\* The requests in h on the checkpoint of the projection whose fork is known.
Diagnosed(h, c) == {i \in Events(h, "diagnostic") : h[i].value.checkpoint = c /\ c # 0
                                                    /\ forks[h[i].id].phase # "requested"}
\* projectDiagnosticBranchOutcome throws, and with it the whole projection.
Throws(h, c) ==
  \E i \in Diagnosed(h, c) : ~Compatible(h[i].value.variable, forks[h[i].id].kind)

BranchReceipts(h, k) == {i \in Events(h, "receipt") : h[i].branch = k}
FirstOf(S) == CHOOSE i \in S : \A j \in S : i <= j
ReceiptOutcome(h, k) ==
  IF BranchReceipts(h, k) = {} THEN "none" ELSE h[FirstOf(BranchReceipts(h, k))].value

\* hasRequiredInterventionEvidence: the Runtime read the refreshed Context, and
\* it is not what the branch was bound to before.
ContextWasRead(f) == f.kind = "context" => f.read = f.after /\ f.before # f.after

\* Mutant: the evidence of the Intervention is not asked for.
OutcomeOfReceipt(h, k) ==
  LET f == forks[k]
  IN IF ~(f.phase \in {"finished", "receipted"}) THEN "inconclusive"
     ELSE CASE ReceiptOutcome(h, k) = "verified" -> "mechanism-confirmed"
            [] ReceiptOutcome(h, k) = "rejected" -> "mechanism-refuted"
            [] OTHER -> "inconclusive"

\* A fork that finished, the first receipt of its branch in h, and the evidence
\* that its Intervention took place.
Outcome(h, k) ==
  LET f == forks[k]
  IN IF ~(f.phase \in {"finished", "receipted"} /\ ContextWasRead(f)) THEN "inconclusive"
     ELSE CASE ReceiptOutcome(h, k) = "verified" -> "mechanism-confirmed"
            [] ReceiptOutcome(h, k) = "rejected" -> "mechanism-refuted"
            [] OTHER -> "inconclusive"

Outcomes(h, c) ==
  {[id |-> <<"outcome", i>>,
    refs |-> {<<"checkpoint", c>>, <<"fork", h[i].id>>} \cup
             {At(j) : j \in BranchReceipts(h, h[i].id)},
    candidate |-> h[i].value.candidate, variable |-> h[i].value.variable, checkpoint |-> c,
    deterministic |-> TRUE, result |-> Outcome(h, h[i].id)] : i \in Diagnosed(h, c)}

\* projectMissionFailureEvidence
Projection(h, c) ==
  [facts |-> RuntimeFacts(h), freshness |-> Freshness(h), comparisons |-> Comparisons(h, c),
   verifications |-> Verifications(h), requests |-> Requests(h),
   intents |-> Decided(h, "gate.decided"), releases |-> Decided(h, "gate.released"),
   results |-> Results(h), outcomes |-> Outcomes(h, c),
   checkpoint |-> [id |-> c, complete |-> c # 0]]

-----------------------------------------------------------------------------
(* What changes meanwhile                                                  *)

Record(e) == events' = Append(events, e)

\* An Attempt's evidence, that of its tools in the order of the Tool Gateway.
Observe ==
  /\ observed < MaxObserved /\ observed' = observed + 1
  /\ \/ \E e \in Observations : InGateOrder(events, e) /\ Record(e)
     \/ Record(Event("checkpoint.created", Root, Root, source))
     \/ Record(Event("context.freshness", Root, ContextFact, Reading("cached", source)))
  /\ UNCHANGED <<checkpoints, forks, source, cache, client, view, edits>>

\* The workspace is edited, or the snapshot is written again, by hand.
Edit ==
  /\ edits < MaxEdits /\ edits' = edits + 1
  /\ \/ source' = edits + 2 /\ UNCHANGED cache
     \/ cache' = source /\ cache # source /\ UNCHANGED source
  /\ UNCHANGED <<events, checkpoints, forks, client, view, observed>>

\* captureCompositeCheckpoint: of the workspace as it is now.
Capture ==
  /\ Len(checkpoints) < MaxCheckpoints
  /\ checkpoints' = Append(checkpoints, source)
  /\ UNCHANGED <<events, forks, source, cache, client, view, observed, edits>>

-----------------------------------------------------------------------------
(* failureIntelligence                                                     *)

\* compositeCheckpoints, by the time they were made.
NewestCheckpoint == Len(checkpoints)

\* A client holds what it has read.
GoOn(c, step, through, checkpoint, wish) ==
  client' = [client EXCEPT ![c] =
    [step |-> step, through |-> through, checkpoint |-> checkpoint, wish |-> wish]]

\* listEvents.  An asker has named the composite checkpoint it means before.
ReadEvents(c) ==
  /\ client[c].step = "idle"
  /\ c \in Askers => Len(forks) < MaxForks /\ checkpoints # <<>>
  /\ GoOn(c, "events", Len(events), NewestCheckpoint, {})
  /\ UNCHANGED <<events, checkpoints, forks, source, cache, view, observed, edits>>

\* The latest composite checkpoint of the branch, after the Context graph.
ReadCheckpoint(c) ==
  /\ client[c].step = "events" /\ c \in Readers
  /\ GoOn(c, "checkpoint", client[c].through, NewestCheckpoint, {})
  /\ UNCHANGED <<events, checkpoints, forks, source, cache, view, observed, edits>>

Prefix(c) == SubSeq(events, 1, client[c].through)

\* The forks, and what follows from all of it.
Show(r) ==
  LET h == Prefix(r)  c == client[r].checkpoint
  IN /\ client[r].step = "checkpoint"
     /\ client' = [client EXCEPT ![r] = Idle]
     /\ view' = [view EXCEPT ![r] =
          IF Throws(h, c) THEN [view[r] EXCEPT !.failed = TRUE]
          ELSE [checkpoint |-> c, report |-> Candidates(Projection(h, c)),
                failed |-> FALSE]]
     /\ UNCHANGED <<events, checkpoints, forks, source, cache, observed, edits>>

-----------------------------------------------------------------------------
(* executeFork for a diagnostic candidate                                  *)

Wish(candidate, kind, before, after) ==
  [candidate |-> candidate, kind |-> kind, before |-> before, after |-> after]
\* Of the digests that a request can carry, the ones of now; a request with others
\* is refused about stale Context, and makes a fork that fails otherwise.
Wishes(id) ==
  {Wish(id, k,
        IF k = "context" THEN Reading("cached", source).bound ELSE NoDigest,
        IF k = "context" THEN Reading("refreshed", source).current ELSE NoDigest) : k \in Kinds}

\* assertDiagnosticInterventionMatchesContext: about stale Context only.
MatchesContext(c, w) ==
  w.candidate[1] = "stale-context" =>
    /\ w.kind = "context" /\ w.candidate[3] = ContextFact
    /\ source = checkpoints[c]

\* The asker derives the analysis itself; its candidate must be ready on the
\* checkpoint it named, which is thus the latest one.
Ask(a) ==
  LET h == Prefix(a)  c == client[a].checkpoint  in == Projection(h, c)
  IN /\ client[a].step = "events"
     /\ \/ /\ ~Throws(h, c) /\ c = Len(checkpoints)
           /\ \E candidate \in Candidates(in) : \E w \in Wishes(candidate.id) :
                /\ Ready(candidate, in) /\ MatchesContext(c, w)
                /\ GoOn(a, "accepted", client[a].through, c, w)
        \/ client' = [client EXCEPT ![a] = Idle]
     /\ UNCHANGED <<events, checkpoints, forks, source, cache, view, observed, edits>>

\* Under the lease, which takes its time: the request, and a child branch.
Request(a) ==
  LET k == Len(forks) + 1  w == client[a].wish  c == client[a].checkpoint
  IN /\ client[a].step = "accepted" /\ Len(forks) < MaxForks
     /\ Record(Event("diagnostic", Root, k,
          [checkpoint |-> c, candidate |-> w.candidate, variable |-> Variable(w.candidate)]))
     /\ forks' = Append(forks, [phase |-> "requested", checkpoint |-> c, kind |-> w.kind,
                                before |-> w.before, after |-> w.after, read |-> NoDigest])
     /\ client' = [client EXCEPT ![a] = Idle]
     /\ UNCHANGED <<checkpoints, source, cache, view, observed, edits>>

\* fork.planned, the Runtime in a worktree of the checkpoint, and its receipt.
\* A Context fork reads the Context there, and fails if it is not the one that
\* the Intervention names.  A fork that fails shows as one that never finishes.
Advance(k) ==
  LET f == forks[k]
      context == Reading("refreshed", checkpoints[f.checkpoint])
      to(phase, read) == forks' = [forks EXCEPT ![k] = [f EXCEPT !.phase = phase, !.read = read]]
  IN /\ \/ f.phase = "requested" /\ to("planned", f.read) /\ UNCHANGED events
        \/ /\ f.phase = "planned" /\ UNCHANGED events
           /\ f.kind = "context" => f.after = context.current
           /\ to("finished", IF f.kind = "context" THEN context.bound ELSE f.read)
        \/ /\ f.phase = "finished" /\ to("receipted", f.read)
           /\ Record(Event("receipt", k, k, "verified"))
     /\ UNCHANGED <<checkpoints, source, cache, client, view, observed, edits>>

InsightNext ==
  \/ Observe \/ Edit \/ Capture
  \/ \E c \in Clients : ReadEvents(c)
  \/ \E r \in Readers : ReadCheckpoint(r) \/ Show(r)
  \/ \E a \in Askers : Ask(a) \/ Request(a)
  \/ \E k \in DOMAIN forks : Advance(k)

InsightSpec == InsightInit /\ [][InsightNext]_insightVars

-----------------------------------------------------------------------------
\* A candidate is shown as confirmed only if the log has a request for it on the
\* checkpoint that was read, and later a verified receipt of that fork's branch;
\* for stale Context, if the Runtime of the fork read what the checkpoint holds
\* and this is not what was cached when the fork was requested.  And it is shown
\* above all that is not confirmed, however much speaks against it.
ConfirmedIsEarned ==
  \A r \in Readers : \A c \in Shown(r) : c.status = "confirmed" =>
    /\ \E i \in Events(events, "diagnostic") :
         LET k == events[i].id
         IN /\ events[i].value.candidate = c.id /\ events[i].value.checkpoint = view[r].checkpoint
            /\ \E j \in BranchReceipts(events, k) : i < j /\ events[j].value = "verified"
            /\ c.id[1] = "stale-context" =>
                 forks[k].read = checkpoints[view[r].checkpoint] /\ forks[k].read # forks[k].before
    /\ \A d \in Shown(r) : d.status # "confirmed" => Above(c, d)

Durable == {"stale-context", "workspace-divergence", "tool-error", "permission-conflict", "loop"}

\* As long as the latest checkpoint is the same, a conclusion about the Context,
\* the workspace, a tool or a permission is never taken back or weakened by the
\* evidence that is added, however a reader's three reads fall.
ConclusionsStand ==
  [][\A r \in Readers :
       view'[r].checkpoint = view[r].checkpoint =>
         \A c \in Shown(r) : c.id[1] \in Durable =>
           \E d \in Shown(r)' : d.id = c.id /\ Rank(c.status) <= Rank(d.status)]_insightVars

\* product-requirements.md: "the original Branch remains inspectable": its
\* analysis can be read.
InsightStaysReadable == \A r \in Readers : ~view[r].failed
=============================================================================
