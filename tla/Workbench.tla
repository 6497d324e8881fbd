------------------------------ MODULE Workbench ------------------------------
(***************************************************************************)
(* One page of the workbench (app-page.ts) and the application it talks to *)
(* (app.ts).  The page keeps the detail of the selected Mission fresh in   *)
(* three ways that overtake one another: a poll, an event stream, and the  *)
(* reloads after what the operator clicks.  The application answers from   *)
(* several reads that it awaits between, runs accepted commands and        *)
(* Mission Plans in the background, and may be stopped or killed and       *)
(* started again under the page.                                           *)
(*                                                                         *)
(* A journal entry is the status it leaves the Mission with.  The rows of  *)
(* the command outbox are one per Mission, its newest command; how several *)
(* processes share them is CommandDispatch.  A hidden page only skips its  *)
(* polls, so it is a page whose next poll is far away.                     *)
(***************************************************************************)
EXTENDS Naturals, Sequences, FiniteSets

CONSTANTS Missions,    \* Mission ids
          Planned,     \* those with an explicit Mission Plan
          Openings,    \* which Missions there may be when the page is opened
          Nothing,     \* null
          Outcomes,    \* the statuses that work leaves a Mission with
          MaxEntries,  \* bound: entries of one journal
          MaxClicks,   \* bound: what the operator does
          MaxFaults    \* bound: lost requests and streams, stops, kills, and
                       \* commands that throw

ASSUME WorkbenchAssumption ==
  /\ Planned \subseteq Missions
  /\ Openings \subseteq SUBSET Missions
  /\ Nothing \notin Missions

VARIABLES
  journal,     \* the Kernel's log of each Mission; empty until it is created
  row,         \* status of the newest command of each Mission
  up,          \* the application: "up", "closing" or "down"
  operations,  \* its operations map: what runs for a Mission, and the phase shown
  working,     \* <<kind, m>>: operations whose engine still works
  selected,    \* state.selectedMissionId
  detail,      \* state.detail
  shown,       \* what the detail pane displays
  listing,     \* the request for the Mission list (missionsLoading)
  loading,     \* the request for a detail (detailLoading), as a set
  posting,     \* the request of an operator's action
  stream,      \* the EventSource of the page
  rendering,   \* liveRenderTimer is set
  refreshing,  \* the Mission of liveDetailTimer
  clicks, faults

kernel == <<journal, row>>
app == <<up, operations, working>>
page == <<selected, detail, shown>>
live == <<stream, rendering, refreshing>>
counts == <<clicks, faults>>
benchVars == <<kernel, app, page, listing, loading, posting, live, counts>>

Last(m) == Len(journal[m])
Created == {m \in Missions : Last(m) > 0}
Kinds == {"command", "plan"}

Idle == [kind |-> "none", phase |-> "none"]
Operation(kind, phase) == [kind |-> kind, phase |-> phase]

\* What GET answers: the Mission's status as its first n entries leave it, the
\* timeline, and the phase of the operation view.
Detail(m, n, seen, phase) ==
  [mission |-> m, status |-> n, seen |-> seen, phase |-> phase]

\* status: how many entries the Mission has as the log stands.
Status(m) == Last(m)
\* timeline: its entries so far.
Timeline(m) == {<<m, i>> : i \in 1..Last(m)}

BenchTypeOK ==
  /\ journal \in [Missions -> Seq({"pending"} \cup Outcomes)]
  /\ row \in [Missions -> {"none", "pending", "dispatching", "completed", "failed"}]
  /\ up \in {"up", "closing", "down"}
  /\ operations \in [Missions -> [kind : Kinds \cup {"none"},
       phase : {"none", "queued", "running", "completed", "failed", "interrupted"}]]
  /\ working \subseteq Kinds \X Missions
  /\ selected \in Missions \cup {Nothing}
  /\ \A d \in {detail, shown} : d = Nothing \/ d.mission \in Missions
  /\ listing = Nothing \/ listing.stage \in {"asked", "answered", "failed"}
  /\ \A r \in loading : r.stage \in {"asked", "status", "timeline", "answered", "failed"}
  /\ posting = Nothing \/ posting.stage \in {"asked", "created", "accepted", "failed"}
  /\ stream = Nothing \/ stream.got <= Last(stream.mission)
  /\ rendering \in BOOLEAN
  /\ refreshing \in Missions \cup {Nothing}

-----------------------------------------------------------------------------
(* The application: what an operation looks like, and how commands run.    *)

\* operationView: what this process did last comes first, then the outbox row
\* as another process left it, then the status that n entries of the Mission leave.
OperationView(m, n) ==
  IF operations[m] # Idle THEN operations[m].phase
  ELSE CASE row[m] = "pending" -> "queued"
         [] row[m] = "dispatching" -> "interrupted"
         [] row[m] \in {"completed", "failed"} -> row[m]
         [] OTHER -> IF n > 0 /\ journal[m][n] \in {"running", "verifying"}
                       THEN "interrupted" ELSE "none"

\* drainCommands, over the operations o, rows r and engines at work w that the
\* step before it leaves: nothing while an operation runs or the application is
\* closing, otherwise launchCommand of one claimable command.  The heartbeat
\* renews the claim of an engine at work; any other claim may have expired.
Drain(o, r, w) ==
  LET pending == {m \in Missions : r[m] = "pending"}
      expired == {m \in Missions : r[m] = "dispatching" /\ <<"command", m>> \notin w}
      busy == up # "up" \/ \E m \in Missions : o[m].phase = "running"
  IN \/ /\ busy \/ pending = {}
        /\ operations' = o /\ row' = r /\ working' = w
     \/ /\ ~busy
        /\ \E m \in pending \cup expired :
             /\ operations' = [o EXCEPT ![m] = Operation("command", "running")]
             /\ row' = [r EXCEPT ![m] = "dispatching"]
             /\ working' = w \cup {<<"command", m>>}

\* The supervisor's timer.
Supervise ==
  /\ Drain(operations, row, working)
  /\ UNCHANGED <<journal, up, page, listing, loading, posting, live, counts>>

\* An engine at work commits an event.
Work(m) ==
  /\ \E kind \in Kinds : <<kind, m>> \in working
  /\ Last(m) \in 1..(MaxEntries - 1)
  /\ \E status \in Outcomes :
       journal' = [journal EXCEPT ![m] = Append(@, status)]
  /\ UNCHANGED <<row, app, page, listing, loading, posting, live, counts>>

Fault == faults < MaxFaults /\ faults' = faults + 1 /\ UNCHANGED clicks

\* executeCommand or executeMissionPlan ends, and with it the promise of
\* launchCommand or launchPlan: the outbox row is settled, the view ends if it is
\* still the one in the map, and the next command is drained.  A command whose
\* signal was aborted is pending again, and one that throws leaves its row.
Settle(kind, m) ==
  /\ <<kind, m>> \in working
  /\ \E phase \in {"completed", "failed", "interrupted"} :
       /\ phase = "interrupted" => up = "closing"
       /\ IF phase = "failed" THEN Fault ELSE UNCHANGED counts
       /\ \E s \in IF kind = "plan" THEN {row[m]}
                   ELSE CASE phase = "completed" -> {"completed", "failed"}
                          [] phase = "failed" -> {"dispatching"}
                          [] OTHER -> {"pending"} :
            Drain(IF operations[m] = Operation(kind, "running")
                    THEN [operations EXCEPT ![m] = Operation(kind, phase)] ELSE operations,
                  [row EXCEPT ![m] = s], working \ {<<kind, m>>})
  /\ UNCHANGED <<journal, up, page, listing, loading, posting, live>>

-----------------------------------------------------------------------------
(* What the page asks for.                                                 *)

\* Mutant: a load does not look at detailLoading.
LoadDetailAlways(m, quiet) ==
  IF m = Nothing \/ Cardinality(loading) > 1 THEN UNCHANGED <<loading, shown>>
  ELSE /\ loading' = loading \cup {[mission |-> m, quiet |-> quiet, stage |-> "asked",
                                    status |-> 0, seen |-> {}, phase |-> "none"]}
       /\ shown' = IF quiet THEN shown ELSE Nothing

\* loadDetail: one request at a time, for whichever Mission.
LoadDetail(m, quiet) ==
  IF m = Nothing \/ loading # {} THEN UNCHANGED <<loading, shown>>
  ELSE /\ loading' = {[mission |-> m, quiet |-> quiet, stage |-> "asked",
                       status |-> 0, seen |-> {}, phase |-> "none"]}
       /\ shown' = IF quiet THEN shown ELSE Nothing

\* selectMission, closeEventStream and openEventStream: the detail has just
\* been cleared, so that the stream starts at the first entry.
SelectMission(m) ==
  /\ selected' = m
  /\ detail' = Nothing
  /\ LoadDetail(m, FALSE)
  /\ stream' = [mission |-> m, open |-> FALSE, got |-> 0]

\* What a caller of loadMissions does when it returns, with sel selected: the
\* poll and runMissionAction load a detail, submitMission and the start of the
\* page select.
Call(kind, m) == [kind |-> kind, mission |-> m]
AfterMissions(call, sel, created) ==
  CASE call.kind = "create" -> SelectMission(call.mission)
    [] call.kind = "init" /\ sel = Nothing /\ created # {} ->
         \E m \in created : SelectMission(m)
    [] OTHER ->
         /\ selected' = sel
         /\ detail' = IF sel = selected THEN detail ELSE Nothing
         /\ LoadDetail(CASE call.kind = "poll" -> sel
                         [] call.kind = "act" -> call.mission
                         [] OTHER -> Nothing, TRUE)
         /\ UNCHANGED stream

\* loadMissions: one request at a time; a caller that finds one under way goes
\* on at once.
LoadMissions(call) ==
  IF listing = Nothing
    THEN /\ listing' = [stage |-> "asked", created |-> {}, call |-> call]
         /\ UNCHANGED <<page, loading, stream>>
    ELSE /\ AfterMissions(call, selected, {})
         /\ UNCHANGED listing

\* GET /api/v1/missions.
ServeMissions ==
  /\ listing # Nothing /\ listing.stage = "asked" /\ up = "up"
  /\ listing' = [listing EXCEPT !.stage = "answered", !.created = Created]
  /\ UNCHANGED <<kernel, app, page, loading, posting, live, counts>>

\* loadMissions continues.  A selected Mission that the list lacks is dropped;
\* its pane and its stream are left.  A failed request changes nothing.
TakeMissions ==
  /\ listing # Nothing /\ listing.stage \in {"answered", "failed"}
  /\ listing' = Nothing
  /\ AfterMissions(listing.call,
                   IF listing.stage = "answered" /\ selected \notin listing.created
                     THEN Nothing ELSE selected,
                   listing.created)
  /\ UNCHANGED <<kernel, app, posting, rendering, refreshing, counts>>

\* GET /api/v1/missions/:id reads the status, and after awaits the timeline,
\* and after more of them the operation, with the status it began with.
ServeDetail ==
  \E r \in loading :
    /\ \/ r.stage = "asked" /\ up = "up"
       \/ r.stage \in {"status", "timeline"} /\ up # "down"
    /\ LET m == r.mission
           next == CASE r.stage = "asked" -> [r EXCEPT !.stage = "status", !.status = Status(m)]
                     [] r.stage = "status" -> [r EXCEPT !.stage = "timeline", !.seen = Timeline(m)]
                     [] OTHER -> [r EXCEPT !.stage = "answered", !.phase = OperationView(m, r.status)]
       IN loading' = (loading \ {r}) \cup {next}
  /\ UNCHANGED <<kernel, app, page, listing, posting, live, counts>>

\* loadDetail continues: the answer replaces the detail whatever is selected,
\* and is displayed if its Mission is.  A failure blanks a pane that was not
\* loaded quietly.
TakeDetail ==
  \E r \in loading :
    /\ loading' = loading \ {r}
    /\ \/ /\ r.stage = "answered"
          /\ detail' = Detail(r.mission, r.status, r.seen, r.phase)
          /\ shown' = IF selected = r.mission THEN detail' ELSE shown
       \/ /\ r.stage = "failed"
          /\ shown' = IF ~r.quiet /\ selected = r.mission THEN Nothing ELSE shown
          /\ UNCHANGED detail
    /\ UNCHANGED <<kernel, app, selected, listing, posting, live, counts>>

\* Mutant: the poll asks for the list alone.
PollMissions ==
  /\ selected # Nothing
  /\ LoadMissions(Call("refresh", Nothing))
  /\ UNCHANGED <<kernel, app, posting, rendering, refreshing, counts>>

\* refreshSelectedMission, every 2.5 s.
Poll ==
  /\ selected # Nothing
  /\ LoadMissions(Call("poll", Nothing))
  /\ UNCHANGED <<kernel, app, posting, rendering, refreshing, counts>>

-----------------------------------------------------------------------------
(* The event stream and the two timers it sets.                            *)

\* The 'open' event, at the first connection and at each one that the browser
\* makes again with the last id it received.
OpenStream ==
  /\ stream # Nothing /\ ~stream.open /\ up = "up"
  /\ stream' = [stream EXCEPT !.open = TRUE]
  /\ rendering' = TRUE
  /\ refreshing' = IF refreshing = Nothing THEN stream.mission ELSE refreshing
  /\ UNCHANGED <<kernel, app, page, listing, loading, posting, counts>>

\* streamMissionEvents sends the next entry, and the page receives it: it joins
\* the detail at hand, unless one of its number is there.
Deliver ==
  /\ stream # Nothing /\ stream.open /\ stream.got < Last(stream.mission)
  /\ LET e == <<stream.mission, stream.got + 1>>
         known == detail # Nothing /\ \E s \in detail.seen : s[2] = e[2]
     IN /\ stream' = [stream EXCEPT !.got = @ + 1]
        /\ IF selected # stream.mission THEN UNCHANGED <<detail, rendering>>
           ELSE /\ detail' = IF detail = Nothing \/ known THEN detail
                             ELSE [detail EXCEPT !.seen = @ \cup {e}]
                /\ rendering' = TRUE
  /\ UNCHANGED <<kernel, app, selected, shown, listing, loading, posting, refreshing, counts>>

\* liveRenderTimer: the pane displays the detail at hand.
LiveRender ==
  /\ rendering
  /\ rendering' = FALSE
  /\ shown' = IF stream # Nothing /\ selected = stream.mission THEN detail ELSE shown
  /\ UNCHANGED <<kernel, app, selected, detail, listing, loading, posting, stream, refreshing, counts>>

\* liveDetailTimer: set again while a detail is being loaded.
LiveRefresh ==
  /\ refreshing # Nothing
  /\ selected = refreshing => loading = {}
  /\ refreshing' = Nothing
  /\ IF selected = refreshing THEN LoadDetail(refreshing, TRUE) ELSE UNCHANGED <<loading, shown>>
  /\ UNCHANGED <<kernel, app, selected, detail, listing, posting, stream, rendering, counts>>

-----------------------------------------------------------------------------
(* What the operator does.                                                 *)

Click == clicks < MaxClicks /\ clicks' = clicks + 1 /\ UNCHANGED faults

\* A click on the Mission list.
Select(m) ==
  /\ m \in Created
  /\ Click
  /\ SelectMission(m)
  /\ UNCHANGED <<kernel, app, listing, posting, rendering, refreshing>>

\* The refresh button beside the list.
Refresh ==
  /\ Click
  /\ listing' = IF listing # Nothing THEN listing
                ELSE [stage |-> "asked", created |-> {}, call |-> Call("refresh", Nothing)]
  /\ LoadDetail(selected, FALSE)
  /\ UNCHANGED <<kernel, app, selected, detail, posting, live>>

\* The buttons of the displayed detail.  Those of a Mission Plan are others.
Busy(d) == d.phase \in {"running", "queued"}
Interrupted(d) == d.phase \in {"failed", "interrupted"}
StatusOf(d) == journal[d.mission][d.status]
ResumeOffered(d) ==
  /\ ~Busy(d) /\ d.mission \notin Planned
  /\ Interrupted(d) \/ StatusOf(d) \in {"pending", "waiting"}
VerifyOffered(d) ==
  /\ ~Busy(d) /\ d.mission \notin Planned
  /\ StatusOf(d) \notin {"pending", "running"}
PlanOffered(d) == ~Busy(d) /\ d.mission \in Planned /\ StatusOf(d) # "succeeded"

Post(kind, m) ==
  /\ posting = Nothing
  /\ Click
  /\ posting' = [kind |-> kind, mission |-> m, stage |-> "asked"]
  /\ UNCHANGED <<kernel, app, page, listing, loading, live>>

\* runMissionAction acts on the selected Mission, the other buttons on the one
\* they were displayed with.  Bound: one action is under way at a time.
Act ==
  \/ /\ shown # Nothing /\ (ResumeOffered(shown) \/ VerifyOffered(shown))
     /\ selected # Nothing
     /\ Post("command", selected)
  \/ shown # Nothing /\ PlanOffered(shown) /\ Post("plan", shown.mission)
  \/ \E m \in Missions \ Created : Post("create", m)

\* POST of a new Mission: engine.create, and later its first command.
ServeCreate ==
  /\ posting # Nothing /\ posting.kind = "create" /\ posting.stage = "asked" /\ up = "up"
  /\ journal' = [journal EXCEPT ![posting.mission] = <<"pending">>]
  /\ posting' = [posting EXCEPT !.stage =
                   IF posting.mission \in Planned THEN "accepted" ELSE "created"]
  /\ UNCHANGED <<row, app, page, listing, loading, live, counts>>

\* acceptCommand, queueView and drainCommands.  An active command is refused,
\* and so is every command while the workspace is leased or the application
\* is closing.
ServeCommand ==
  /\ posting # Nothing
  /\ \/ posting.kind = "command" /\ posting.stage = "asked" /\ up = "up"
     \/ posting.kind = "create" /\ posting.stage = "created" /\ up # "down"
  /\ \/ /\ up = "up" /\ row[posting.mission] \notin {"pending", "dispatching"}
        /\ posting' = [posting EXCEPT !.stage = "accepted"]
        /\ Drain([operations EXCEPT ![posting.mission] = Operation("command", "queued")],
                 [row EXCEPT ![posting.mission] = "pending"], working)
     \/ /\ \/ up = "closing"
           \/ row[posting.mission] \in {"pending", "dispatching"}
           \/ \E op \in working : op[2] = posting.mission
        /\ posting' = [posting EXCEPT !.stage = "failed"]
        /\ UNCHANGED <<operations, row, working>>
  /\ UNCHANGED <<journal, up, page, listing, loading, live, counts>>

\* launchPlan: a plan that runs is not launched again.
ServePlan ==
  /\ posting # Nothing /\ posting.kind = "plan" /\ posting.stage = "asked" /\ up = "up"
  /\ posting' = [posting EXCEPT !.stage = "accepted"]
  /\ LET m == posting.mission IN
       IF <<"plan", m>> \in working
         THEN UNCHANGED <<operations, working>>
         ELSE /\ operations' = [operations EXCEPT ![m] = Operation("plan", "running")]
              /\ working' = working \cup {<<"plan", m>>}
  /\ UNCHANGED <<kernel, up, page, listing, loading, live, counts>>

\* The handler of the button continues.
TakePost ==
  /\ posting # Nothing /\ posting.stage \in {"accepted", "failed"}
  /\ posting' = Nothing
  /\ IF posting.stage = "failed" THEN UNCHANGED <<page, listing, loading, stream>>
     ELSE IF posting.kind = "plan"
       THEN LoadDetail(posting.mission, TRUE) /\ UNCHANGED <<selected, detail, listing, stream>>
       ELSE LoadMissions(Call(IF posting.kind = "create" THEN "create" ELSE "act", posting.mission))
  /\ UNCHANGED <<kernel, app, rendering, refreshing, counts>>

-----------------------------------------------------------------------------
(* What goes wrong.                                                        *)

Unanswered == {"asked", "status", "timeline", "created"}
Failed(request) ==
  IF request # Nothing /\ request.stage \in Unanswered
    THEN [request EXCEPT !.stage = "failed"] ELSE request

\* A request or its answer, or the stream, is lost.
Lose ==
  /\ Fault
  /\ \/ listing # Nothing /\ listing' = [listing EXCEPT !.stage = "failed"]
        /\ UNCHANGED <<loading, posting, stream, rendering>>
     \/ /\ \E r \in loading : loading' = (loading \ {r}) \cup {[r EXCEPT !.stage = "failed"]}
        /\ UNCHANGED <<listing, posting, stream, rendering>>
     \/ posting # Nothing /\ posting' = [posting EXCEPT !.stage = "failed"]
        /\ UNCHANGED <<listing, loading, stream, rendering>>
     \/ stream # Nothing /\ stream.open /\ stream' = [stream EXCEPT !.open = FALSE]
        /\ rendering' = TRUE
        /\ UNCHANGED <<listing, loading, posting>>
  /\ UNCHANGED <<kernel, app, page, refreshing>>

\* The 'error' event of a stream that the application ends or drops.
StreamEnds ==
  /\ stream' = IF stream = Nothing THEN stream ELSE [stream EXCEPT !.open = FALSE]
  /\ rendering' = (rendering \/ (stream # Nothing /\ stream.open))

\* The process is killed: claims stay, and everything in memory is gone.
Kill ==
  /\ up # "down"
  /\ Fault
  /\ up' = "down"
  /\ operations' = [m \in Missions |-> Idle]
  /\ working' = {}
  /\ listing' = Failed(listing)
  /\ loading' = {Failed(r) : r \in loading}
  /\ posting' = Failed(posting)
  /\ StreamEnds
  /\ UNCHANGED <<kernel, page, refreshing>>

\* close: what runs is aborted, streams end, no request is taken any more.
Close ==
  /\ up = "up"
  /\ Fault
  /\ up' = "closing"
  /\ StreamEnds
  /\ UNCHANGED <<kernel, operations, working, page, listing, loading, posting, refreshing>>

\* Its end: requests under way are answered, and the operations in the map have
\* settled.
Closed ==
  /\ up = "closing"
  /\ \A m \in Missions : operations[m].phase # "running"
  /\ posting # Nothing => posting.stage # "created"
  /\ \A r \in loading : r.stage \notin {"status", "timeline"}
  /\ up' = "down"
  /\ operations' = [m \in Missions |-> Idle]
  /\ working' = {}
  /\ UNCHANGED <<kernel, page, listing, loading, posting, live, counts>>

\* A request that nobody listens to fails.
Refuse ==
  /\ up # "up"
  /\ \/ listing # Nothing /\ listing.stage = "asked" /\ listing' = Failed(listing)
        /\ UNCHANGED <<loading, posting>>
     \/ /\ \E r \in loading : r.stage = "asked" /\ loading' = (loading \ {r}) \cup {Failed(r)}
        /\ UNCHANGED <<listing, posting>>
     \/ posting # Nothing /\ posting.stage = "asked" /\ posting' = Failed(posting)
        /\ UNCHANGED <<listing, loading>>
  /\ UNCHANGED <<kernel, app, page, live, counts>>

\* startMissionBraidApp.
Start ==
  /\ up = "down"
  /\ up' = "up"
  /\ UNCHANGED <<kernel, operations, working, page, listing, loading, posting, live, counts>>

-----------------------------------------------------------------------------

\* The page has just been opened.
BenchInit ==
  /\ \E opening \in Openings :
       journal = [m \in Missions |-> IF m \in opening THEN <<"pending">> ELSE <<>>]
  /\ row = [m \in Missions |-> "none"]
  /\ up = "up"
  /\ operations = [m \in Missions |-> Idle]
  /\ working = {}
  /\ selected = Nothing /\ detail = Nothing /\ shown = Nothing
  /\ listing = [stage |-> "asked", created |-> {}, call |-> Call("init", Nothing)]
  /\ loading = {} /\ posting = Nothing
  /\ stream = Nothing /\ rendering = FALSE /\ refreshing = Nothing
  /\ clicks = 0 /\ faults = 0

Operator == Refresh \/ Act \/ \E m \in Missions : Select(m)

\* What runs, or is answered, without anybody's will.
Server ==
  \/ Supervise \/ Start \/ Closed \/ Refuse
  \/ ServeMissions \/ ServeDetail \/ ServeCreate \/ ServeCommand \/ ServePlan

Engine == \E m \in Missions : Work(m) \/ \E kind \in Kinds : Settle(kind, m)
Browser == TakeMissions \/ TakeDetail \/ TakePost \/ OpenStream \/ Deliver \/ LiveRender \/ LiveRefresh

BenchNext == Server \/ Engine \/ Browser \/ Poll \/ Operator \/ Lose \/ Kill \/ Close

BenchSpec == BenchInit /\ [][BenchNext]_benchVars

\* Timers fire, requests are served or fail and their answers are taken, the
\* application is started again, and an aborted engine ends (RuntimeProcess).
\* The page does not stay hidden for ever.  Nothing is assumed of the operator,
\* or of an engine that nobody aborted.
Fairness ==
  /\ WF_benchVars(Poll) /\ WF_benchVars(LiveRender) /\ WF_benchVars(LiveRefresh)
  /\ WF_benchVars(ServeMissions) /\ WF_benchVars(TakeMissions)
  /\ WF_benchVars(ServeDetail) /\ WF_benchVars(TakeDetail)
  /\ WF_benchVars(ServeCreate) /\ WF_benchVars(ServeCommand) /\ WF_benchVars(ServePlan) /\ WF_benchVars(TakePost)
  /\ WF_benchVars(Refuse) /\ WF_benchVars(Start) /\ WF_benchVars(Closed)
  /\ \A kind \in Kinds, m \in Missions :
       WF_benchVars(up = "closing" /\ Settle(kind, m))

FairBenchSpec == BenchSpec /\ Fairness

-----------------------------------------------------------------------------

\* The pane shows the whole timeline of m, the status that it leaves, and what
\* the application says of the operation.
UpToDate(m) ==
  /\ shown # Nothing /\ shown.mission = m
  /\ shown.status = Last(m)
  /\ shown.seen = Timeline(m)
  /\ shown.phase = OperationView(m, Last(m))

\* A Mission that stays selected is in the end displayed as it is: whatever the
\* poll, the stream and the operator's reloads did to the pane, whichever answers
\* were torn, lost or of another Mission, and through a restart of the
\* application (app-page.ts:6540, app-page.ts:7195).
SelectedIsShown ==
  \A m \in Missions : <>[](selected = m) => <>[]UpToDate(m)

\* The status displayed of a Mission never goes back to an earlier one: answers
\* of several reloads are taken in the order they were read (app-page.ts:6541).
StatusNeverGoesBack ==
  [][ shown # Nothing /\ shown' # Nothing /\ shown.mission = shown'.mission
        => shown.status <= shown'.status ]_benchVars

\* Does not hold: the pane may show another Mission than the selected one, and
\* Resume and Verify then act on the Mission that is not shown (app-page.ts:6547,
\* app-page.ts:7175).
ShownIsSelected == shown # Nothing => shown.mission = selected

\* Does not hold: an entry that the stream brought is dropped by a detail that was
\* read before it, until the next reload (app-page.ts:6546).
EntriesStay ==
  [][ shown # Nothing /\ shown' # Nothing /\ shown.mission = shown'.mission
        => shown.seen \subseteq shown'.seen ]_benchVars
=============================================================================
