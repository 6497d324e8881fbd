-------------------------- MODULE CheckpointReplay --------------------------
(***************************************************************************)
(* Composite checkpoints and what is replayed from them                    *)
(* (composite-checkpoint.ts, checkpoint-replay.ts,                         *)
(* mission-checkpoint-replay.ts, model-only-resample.ts, engine.ts).       *)
(*                                                                         *)
(* A checkpoint freezes a prefix of the Mission's log and the external     *)
(* Effects at its end.  A request plays it back, replays recorded evidence *)
(* on a child branch, or lets a model continue it.  Each keeps a journal,  *)
(* a file with one line per event; a line is appended by reading the whole *)
(* file, checking it, and writing one more line, without a lock.  The      *)
(* identity of a playback is a hash of the checkpoint, so that all         *)
(* playbacks of a checkpoint share one journal.                            *)
(***************************************************************************)
EXTENDS MissionStore

CONSTANTS Playbacks, Cached, Counterfactuals,  \* the requests, by mode
          Child,      \* the branch that requests name
          Exact,      \* external Effects with scope, control and identity
          Vague,      \* external Effects without
          None,
          MaxOthers,  \* bound on the events of other holders of the lease
          MaxActive,  \* bound on the replays under way at a time
          MaxFaults   \* bound on ends, lost leases and lost artifacts

ASSUME ReplayAssumption ==
  /\ Playbacks \cap (Cached \cup Counterfactuals) = {} /\ Cached \cap Counterfactuals = {}
  /\ "playback" \notin Cached \cup Counterfactuals
  /\ Exact \cap Vague = {} /\ None # "capture"
  /\ MaxOthers \in Nat /\ MaxActive \in Nat /\ MaxFaults \in Nat

Branching == Cached \cup Counterfactuals
Requests == Playbacks \cup Branching
Mode(q) == IF q \in Playbacks THEN "playback"
           ELSE IF q \in Cached THEN "cached" ELSE "counterfactual"
\* replayId: of the checkpoint, and of the request with its own Intervention.
ReplayId(q) == IF q \in Playbacks THEN "playback" ELSE q
ReplayIds == {ReplayId(q) : q \in Requests}

VARIABLES
  log,         \* the Mission's log (store.ts)
  holder,      \* the workspace lease: "capture" or None
  seen,        \* the events that the capture under way has listed
  checkpoint,  \* the Composite Checkpoint, or None
  journal,     \* of each replay: the lines of its file
  request,     \* where each request is
  resamples,   \* of each request: how often its model was asked
  faults

vars == <<log, holder, seen, checkpoint, journal, request, resamples, faults>>

Lines == {"replay.planned", "source.referenced", "model.started", "model.evidence",
          "model.finished", "receipt-input.ready", "replay.completed", "replay.failed",
          "replay.unknown", "torn"}
Steps == {"ask", "project", "load", "write", "resample", "persist", "returned", "threw", "crashed"}
Terminal == {"completed", "failed", "unknown"}
Over == {"returned", "threw", "crashed"}
Idle == [step |-> "ask", event |-> None, value |-> "", read |-> 0, result |-> "none"]
Line(seq, type, value) == [seq |-> seq, type |-> type, value |-> value]

\* What the artifacts of a Runtime's lines hold.
Contents == {"a", "b", "redacted"}
EffectStatuses == {"dispatch_started", "confirmed", "ambiguous", "failed"}
LogEvent == [type : {"attempt", "effect", "line", "checkpoint", "branch.created", "replay"},
             branch : {Root, Child}, id : Requests \cup Exact \cup Vague \cup {Root},
             value : {"finished", "created", "active"} \cup EffectStatuses \cup Contents
                       \cup Terminal]
\* What a line says of the outcome, if it does.
LineValue == Terminal \cup {"", "rejected"}
JournalLine == [seq : Nat, type : Lines, value : LineValue]
Place == [step : Steps, event : Lines \cup {None}, value : LineValue, read : Nat,
          result : Terminal \cup {"none"}]

TypeOK ==
  /\ log \in Seq(LogEvent)
  /\ holder \in {"capture", None}
  /\ seen \in 0..Len(log)
  /\ checkpoint = None \/ checkpoint.through \in 0..Len(log)
  /\ journal \in [ReplayIds -> Seq(JournalLine)]
  /\ request \in [Requests -> Place]
  /\ resamples \in [Requests -> Nat]
  /\ faults \in 0..MaxFaults

\* The Mission has an Attempt that was started and has finished.
Init ==
  /\ log = <<Event("attempt", Root, Root, "finished")>>
  /\ holder = None /\ seen = 0 /\ checkpoint = None
  /\ journal = [i \in ReplayIds |-> <<>>]
  /\ request = [q \in Requests |-> Idle]
  /\ resamples = [q \in Requests |-> 0]
  /\ faults = 0

Fault == faults < MaxFaults /\ faults' = faults + 1

-----------------------------------------------------------------------------
(* The checkpoint                                                          *)

\* projectMissionEffects over the events h, of which the external ones are the
\* frontier of a checkpoint.
Frontier(h) == [e \in Effects(h) |-> EffectStatus(h, e)]

\* The lease, the Mission's events, a stopped Attempt, a clean workspace; then
\* contextGraph is awaited.
BeginCapture ==
  /\ checkpoint = None /\ holder = None
  /\ holder' = "capture" /\ seen' = Len(log)
  /\ UNCHANGED <<log, checkpoint, journal, request, resamples, faults>>

Append1(type, branch, id, value) == log' = Append(log, Event(type, branch, id, value))

\* createCompositeCheckpoint: the Effects are those of the events listed before, the
\* prefix ends at the present head.
Manifest(workspace) ==
  [through |-> Len(log), frontier |-> Frontier(SubSeq(log, 1, seen)), workspace |-> workspace]

EndCapture ==
  /\ holder' = None /\ seen' = 0
  /\ UNCHANGED <<journal, request, resamples, faults>>

\* Mutant: the checkpoint is appended without the fence.
CaptureUnfenced ==
  /\ seen > 0
  /\ checkpoint' = Manifest("restorable-artifact") /\ Append1("checkpoint", Root, Root, "created")
  /\ EndCapture

\* With the commit of a clean workspace, for forks and replays ...
Capture ==
  /\ seen > 0
  /\ IF holder = "capture"
       THEN checkpoint' = Manifest("restorable-artifact")
            /\ Append1("checkpoint", Root, Root, "created")
       ELSE UNCHANGED <<log, checkpoint>>
  /\ EndCapture

\* ... or with digests of it, for a Handoff.
CaptureForHandoff ==
  /\ seen > 0 /\ holder = "capture"
  /\ checkpoint' = Manifest("git-digest") /\ Append1("checkpoint", Root, Root, "created")
  /\ EndCapture

LoseLease ==
  /\ holder # None /\ Fault /\ holder' = None
  /\ UNCHANGED <<log, seen, checkpoint, journal, request, resamples>>

\* Another holder of the lease coordinates an external Effect ...
NextStatus(e) ==
  IF e \notin Effects(log) THEN IF e \in Vague THEN {"confirmed"} ELSE {"dispatch_started"}
  ELSE IF EffectStatus(log, e) = "dispatch_started" THEN {"confirmed", "ambiguous", "failed"} ELSE {}
Others == Events(log, "effect") \cup Events(log, "line")
OthersMay == holder = None /\ Cardinality(Others) < MaxOthers
CoordinateEffect ==
  /\ OthersMay
  /\ \E e \in Exact \cup Vague : \E status \in NextStatus(e) : Append1("effect", Root, e, status)
  /\ UNCHANGED <<holder, seen, checkpoint, journal, request, resamples, faults>>

\* ... or a Runtime's line is recorded, with an artifact that is named after its
\* content, so that equal lines have one; secrets are taken out of some.
RuntimeLine ==
  /\ OthersMay
  /\ \E content \in Contents : Append1("line", Root, Root, content)
  /\ UNCHANGED <<holder, seen, checkpoint, journal, request, resamples, faults>>

-----------------------------------------------------------------------------
(* Planning                                                                *)

Components == {"mission", "branch", "attempt", "contract", "profile", "event-prefix",
               "visible-context", "workspace", "permissions", "effect-frontier", "process",
               "native-session"}
\* workspaceComponent and the others: what a checkpoint can restore.
Disposition(component) ==
  CASE component = "workspace" ->
         IF checkpoint.workspace = "restorable-artifact" THEN "recoverable" ELSE "inspect-only"
    [] component \in {"effect-frontier", "process"} -> "inspect-only"
    [] component = "native-session" -> "unavailable"
    [] OTHER -> "portable"

\* assertCheckpointComplete: of all but the workspace and the native session.
Complete ==
  \A c \in Components \ {"workspace", "native-session"} : Disposition(c) # "unavailable"
\* assertExternalFrontierComplete.
FrontierComplete == DOMAIN checkpoint.frontier \cap Vague = {}
\* planCheckpointOperation: unresolved Effects block.
FrontierResolved ==
  \A e \in DOMAIN checkpoint.frontier : checkpoint.frontier[e] \notin UnresolvedStatuses

Confirmed == {e \in DOMAIN checkpoint.frontier : checkpoint.frontier[e] = "confirmed"}
\* confirmedEffectNoRepeatDecisions: what the engine passes.
Decisions == [e \in Confirmed |-> "inherit-no-repeat"]
\* assertExactConfirmedEffectDecisions.
DecisionsExact(decisions) == DOMAIN decisions = Confirmed

Planned(mode) ==
  /\ Complete
  /\ mode # "playback" =>
       /\ Disposition("workspace") = "recoverable" /\ FrontierComplete /\ FrontierResolved
       /\ DecisionsExact(Decisions)

\* The lines that were not redacted, with the names of their artifacts.
LinesIn(positions) ==
  {[seq |-> i, artifact |-> log[i].value] :
     i \in {j \in Events(log, "line") \cap positions : log[j].value # "redacted"}}

\* cachedReplaySourceFromMission, createCachedReplaySourceBundle: what a cached replay
\* gives again are those after the prefix.
SourceBundle ==
  [through |-> checkpoint.through, evidence |-> LinesIn(checkpoint.through + 1 .. Len(log))]
\* cachedContextFromMission, createCachedContextBundle: the context of a model are those
\* before it, an artifact of several lines once.
ContextBundle ==
  LET lines == LinesIn(1 .. checkpoint.through)
  IN [targets |-> lines,
      artifacts |-> {l \in lines : \A m \in lines : m.artifact = l.artifact => m.seq <= l.seq}]

\* normalizeCachedFutureEvidence.
FutureStands(bundle) ==
  /\ bundle.evidence # {}
  /\ \A l \in bundle.evidence :
       l.seq > bundle.through /\ \A m \in bundle.evidence : m.seq = l.seq => m = l
\* assertBundleMatchesCheckpoint.
OfCheckpoint(bundle) == bundle.through = checkpoint.through
\* validateHistoricalPrefix.
IsPrefixOfLog(history) == Len(history) = checkpoint.through /\ IsPrefix(history, log)
\* normalizeArtifactRefs, in assertArtifactsAvailable: some, and each named once.
NamedOnce(refs) == refs # {} /\ \A r, s \in refs : r.artifact = s.artifact => r = s
\* assertInterventionSourceDigest: a source that the Intervention names is one there is.
SourceNamed(targets, source) == source = None \/ source \in targets

\* The Intervention's replacement is an artifact that was stored for it.
Replacement(content) == [seq |-> 0, artifact |-> content]

\* validateHistoricalPrefix, or the bundle of the mode and its artifacts.
SourceAvailable(mode, source, replacement) ==
  CASE mode = "playback" -> IsPrefixOfLog(SubSeq(log, 1, checkpoint.through))
    [] mode = "cached" ->
         LET bundle == SourceBundle
         IN /\ FutureStands(bundle) /\ OfCheckpoint(bundle)
            /\ SourceNamed(bundle.evidence, source)
            /\ NamedOnce(bundle.evidence \cup {Replacement(replacement)})
    [] mode = "counterfactual" ->
         LET bundle == ContextBundle
         IN /\ NamedOnce(bundle.artifacts)
            /\ SourceNamed(bundle.targets, source)
            /\ NamedOnce(bundle.artifacts \cup {Replacement(replacement)})

Goto(q, step) ==
  request' = [request EXCEPT ![q] = IF step \in Over THEN [Idle EXCEPT !.step = step]
                                    ELSE [@ EXCEPT !.step = step]]
Active == {ReplayId(q) : q \in {r \in Requests : request[r].step \notin Over \cup {"ask"}}}
AppendLine(q, event, value) ==
  request' = [request EXCEPT ![q].step = "load", ![q].event = event, ![q].value = value]
Keep == UNCHANGED <<log, holder, seen, checkpoint>>

Ask(q) ==
  /\ request[q].step = "ask" /\ checkpoint # None
  /\ Cardinality(Active \cup {ReplayId(q)}) <= MaxActive
  /\ \/ /\ \E replacement \in {"a", "new"}, source \in {None} \cup LinesIn(DOMAIN log) :
            Goto(q, IF Planned(Mode(q)) /\ SourceAvailable(Mode(q), source, replacement)
                      THEN "project" ELSE "threw")
        /\ UNCHANGED faults
     \/ Mode(q) # "playback" /\ Fault /\ Goto(q, "threw")  \* an artifact is gone
  /\ Keep /\ UNCHANGED <<journal, resamples>>

-----------------------------------------------------------------------------
(* The journal                                                             *)

\* load, verifyReplayEventChain: numbers without a gap, and no partial line.
Readable(j) == \A i \in DOMAIN j : j[i].seq = i /\ j[i].type # "torn"

\* projectCheckpointReplay.
PhaseAfter ==
  [type \in Lines \ {"model.evidence", "receipt-input.ready", "torn"} |->
     CASE type = "replay.planned" -> "planned"
       [] type = "source.referenced" -> "source-validated"
       [] type = "model.started" -> "model-running"
       [] type = "model.finished" -> "model-finished"
       [] type = "replay.completed" -> "completed"
       [] type = "replay.failed" -> "failed"
       [] type = "replay.unknown" -> "unknown"]
\* The phase is what the last of the lines that set one has left.
Phase(j) ==
  LET setting == {i \in DOMAIN j : j[i].type \in DOMAIN PhaseAfter}
  IN IF setting = {} THEN "none" ELSE PhaseAfter[j[LastOf(setting)].type]
Has(j, type) == \E i \in DOMAIN j : j[i].type = type
Result(j) == j[CHOOSE i \in DOMAIN j : j[i].type = "model.finished"].value

\* allowedTransitions.
Allowed(mode, j) ==
  LET phase == Phase(j)  receipt == Has(j, "receipt-input.ready")
  IN CASE phase = "none" -> {"replay.planned"}
       [] phase = "planned" -> {"replay.failed",
            IF mode = "counterfactual" THEN "model.started" ELSE "source.referenced"}
       [] phase = "source-validated" -> {"replay.failed",
            IF mode = "cached" /\ ~receipt THEN "receipt-input.ready" ELSE "replay.completed"}
       [] phase = "model-running" ->
            {"model.evidence", "model.finished", "replay.failed", "replay.unknown"}
       [] phase = "model-finished" ->
            IF Result(j) = "failed" THEN {"replay.failed"}
            ELSE IF receipt THEN {"replay.completed", "replay.unknown", "replay.failed"}
            ELSE {"receipt-input.ready", "replay.failed"}
       [] OTHER -> {}

\* validateEventPayload: also that a receipt input leaves the outcome open.
PayloadStands(mode, event, value) ==
  /\ event = "source.referenced" => mode # "counterfactual"
  /\ event = "model.started" => mode = "counterfactual"
  /\ event = "receipt-input.ready" => value = "unknown"

\* verifyNextReplayTransition.
Follows(mode, j, event, value) ==
  /\ Phase(j) \notin Terminal
  /\ event \in Allowed(mode, j) /\ PayloadStands(mode, event, value)

\* receiptInput: what the child branch's receipt may start from.
ReceiptInput(mode) ==
  [outcome |-> "unknown",
   unresolved |-> {"verification", IF mode = "cached" THEN "referenced" ELSE "model-only"}]

\* playback.
ContinuePlayback(phase) ==
  IF phase = "planned" THEN "source.referenced" ELSE "replay.completed"
\* cachedReplay: one that finds its sources referenced adds its receipt input, also if
\* there is one.
ContinueCached(phase, last) ==
  CASE phase = "planned" -> "source.referenced"
    [] phase = "source-validated" /\ last # "receipt-input.ready" -> "receipt-input.ready"
    [] OTHER -> "replay.completed"
\* #finishCounterfactual.
FinishCounterfactual(j) ==
  CASE Result(j) = "failed" -> "replay.failed"
    [] Result(j) # "failed" /\ ~Has(j, "receipt-input.ready") -> "receipt-input.ready"
    [] OTHER -> IF Result(j) = "unknown" THEN "replay.unknown" ELSE "replay.completed"
\* Mutant: a model that was started and left no result is asked again.
ContinueResamples(j) ==
  CASE Phase(j) = "planned" -> "model.started"
    [] Phase(j) = "model-running" -> "resample"
    [] OTHER -> FinishCounterfactual(j)
\* counterfactualResample.
ContinueCounterfactual(j) ==
  CASE Phase(j) = "planned" -> "model.started"
    [] Phase(j) = "model-running" -> "replay.unknown"
    [] OTHER -> FinishCounterfactual(j)

\* How a call goes on from the record it has just projected.
Continue(q, j) ==
  CASE Phase(j) = "none" -> "replay.planned"
    [] Phase(j) \in Terminal -> "return"
    [] OTHER -> CASE Mode(q) = "playback" -> ContinuePlayback(Phase(j))
                  [] Mode(q) = "cached" -> ContinueCached(Phase(j), request[q].event)
                  [] OTHER -> ContinueCounterfactual(j)

Return(q, phase) ==
  request' = [request EXCEPT ![q].result = phase, ![q].event = None, ![q].value = "", ![q].read = 0,
                ![q].step = IF q \in Branching THEN "persist"
                            ELSE IF phase = "completed" THEN "returned" ELSE "threw"]

Project(q) ==
  LET j == journal[ReplayId(q)]  next == Continue(q, j)
  IN /\ request[q].step = "project"
     /\ CASE ~Readable(j) -> Goto(q, "threw")
          [] Readable(j) /\ next = "return" -> Return(q, Phase(j))
          [] Readable(j) /\ next = "resample" -> Goto(q, "resample")
          [] OTHER -> AppendLine(q, next, IF next = "receipt-input.ready"
                                            THEN ReceiptInput(Mode(q)).outcome ELSE "")
     /\ Keep /\ UNCHANGED <<journal, resamples, faults>>

\* FileCheckpointReplayJournal.#appendNow: load and verifyNextReplayTransition ...
Load(q) ==
  LET j == journal[ReplayId(q)]
  IN /\ request[q].step = "load"
     /\ IF Readable(j) /\ Follows(Mode(q), j, request[q].event, request[q].value)
          THEN request' = [request EXCEPT ![q].step = "write", ![q].read = Len(j)]
          ELSE Goto(q, "threw")
     /\ Keep /\ UNCHANGED <<journal, resamples, faults>>

\* ... then the line, at the end of whatever the file is by now, and fsync.
Write(q) ==
  LET line == Line(request[q].read + 1, request[q].event, request[q].value)
  IN /\ request[q].step = "write"
     /\ journal' = [journal EXCEPT ![ReplayId(q)] = Append(@, line)]
     /\ CASE line.type = "model.started" -> Goto(q, "resample")
          [] line.type = "model.evidence" -> AppendLine(q, "model.finished", request[q].value)
          [] line.type = "replay.failed" /\ line.value = "rejected" -> Goto(q, "threw")
          [] OTHER -> Goto(q, "project")
     /\ Keep /\ UNCHANGED <<resamples, faults>>

\* What the model-only port may answer: the output has a line of the model, or only
\* other lines, or one line twice, or none.
Answers == [status : {"completed", "failed", "unknown"},
            output : {"model", "other", "twice", "none"}, tools : BOOLEAN]
\* normalizeModelOnlyResult, assertNoProhibitedModelEvidence, and the artifacts of the
\* evidence, which must be some and be named once.
Rejected(a) ==
  \/ a.tools
  \/ a.output \in {"none", "twice"}
  \/ a.status = "completed" /\ a.output # "model"

\* The model is asked; an exception leaves the outcome unknown.
Resample(q) ==
  /\ request[q].step = "resample"
  /\ resamples' = [resamples EXCEPT ![q] = @ + 1]
  /\ \/ \E a \in Answers : IF Rejected(a) THEN AppendLine(q, "replay.failed", "rejected")
                            ELSE AppendLine(q, "model.evidence", a.status)
     \/ AppendLine(q, "replay.unknown", "")
  /\ Keep /\ UNCHANGED <<journal, faults>>

-----------------------------------------------------------------------------
(* The Kernel                                                              *)

Recorded(q) == {log[i].value : i \in Of(log, "replay", q)}

\* Mutant: what is recorded is that the replay was completed.
PersistCompleted(q) ==
  /\ request[q].step = "persist"
  /\ request' = [request EXCEPT ![q] = [Idle EXCEPT !.step = "returned", !.result = "completed"]]
  /\ log' = Append(log, Event("replay", Child, q, "completed"))
  /\ UNCHANGED <<holder, seen, checkpoint, journal, resamples, faults>>

\* replayKernelEvents: the record, with the child branch unless there is one of that
\* name.
KernelEvents(q, phase) ==
  (IF Child \in Branches(log) THEN <<>> ELSE <<Event("branch.created", Child, q, "active")>>)
  \o <<Event("replay", Child, q, phase)>>

\* #persistCheckpointReplay, unless somebody holds the lease just then.
Persist(q) ==
  LET phase == request[q].result
  IN /\ request[q].step = "persist"
     /\ \/ /\ request' = [request EXCEPT ![q] = [Idle EXCEPT !.step = "returned", !.result = phase]]
           /\ log' = IF phase \in Recorded(q) THEN log
                     ELSE log \o KernelEvents(q, phase)
           /\ UNCHANGED faults
        \/ Fault /\ Goto(q, "threw") /\ UNCHANGED log
     /\ UNCHANGED <<holder, seen, checkpoint, journal, resamples>>

\* The controller ends, perhaps with half a line written.
Crash(q) ==
  /\ request[q].step \notin Over \cup {"ask"}
  /\ Fault /\ Goto(q, "crashed")
  /\ \/ UNCHANGED journal
     \/ /\ request[q].step = "write"
        /\ journal' = [journal EXCEPT ![ReplayId(q)] = Append(@, Line(request[q].read + 1, "torn", ""))]
  /\ Keep /\ UNCHANGED resamples

\* The service is called once more with the same request.
Retry(q) ==
  /\ request[q].step = "crashed"
  /\ request' = [request EXCEPT ![q].step = "project", ![q].event = None]
  /\ Keep /\ UNCHANGED <<journal, resamples, faults>>

Replay(q) ==
  Ask(q) \/ Project(q) \/ Load(q) \/ Write(q) \/ Resample(q) \/ Persist(q) \/ Crash(q) \/ Retry(q)

Next ==
  \/ BeginCapture \/ Capture \/ CaptureForHandoff \/ LoseLease \/ CoordinateEffect \/ RuntimeLine
  \/ \E q \in Requests : Replay(q)

Spec == Init /\ [][Next]_vars

\* checkpointReplays, for the detail of any Mission: every file of the directory is
\* loaded.
Inspectable == \A i \in ReplayIds : Readable(journal[i])

-----------------------------------------------------------------------------
\* The checkpoint's Effects are those of the prefix it names, although the events
\* were listed, and contextGraph awaited, before the head was read.
FrontierIsWhole ==
  checkpoint # None => checkpoint.frontier = Frontier(SubSeq(log, 1, checkpoint.through))

\* A model is asked at most once for a replay, whatever ends in between, only after
\* its start is durable, and 'completed' stands for an answer.
AtMostOneResample ==
  \A q \in Counterfactuals :
    /\ resamples[q] <= 1
    /\ resamples[q] = 1 => Has(journal[q], "model.started")
    /\ Phase(journal[q]) = "completed" => resamples[q] = 1

\* What a request returned is the end of a chain of events its journal begins with,
\* also if playbacks of the same checkpoint overlap and spoil the rest of the file;
\* and what the Kernel records of a replay is the one end its journal has.
ReplaysAreTrue ==
  \A q \in Requests :
    LET j == journal[ReplayId(q)]
    IN /\ request[q].step = "returned" =>
            \E n \in DOMAIN j : Readable(SubSeq(j, 1, n)) /\ Phase(SubSeq(j, 1, n)) = request[q].result
       /\ Recorded(q) \subseteq {Phase(j)} \cap Terminal

\* roadmap.md: "an application restart can continue inspecting and operating both
\* Branches": the Mission's detail reads every journal, and fails if one cannot be
\* read.  Here no controller has ended.
ReplaysStayInspectable ==
  faults = 0 => Inspectable
=============================================================================
