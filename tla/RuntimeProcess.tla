--------------------------- MODULE RuntimeProcess ---------------------------
(***************************************************************************)
(* One Runtime process under the controller: runProcess of                 *)
(* src/adapters/process-runner.ts with the adapters that call it (Claude's *)
(* compacts its output) and, for a stage, the engine's observer of its     *)
(* output.  The process may ignore SIGTERM, write whatever it likes on two *)
(* streams, leave its last line without an end, and leave a grandchild     *)
(* that keeps its output open; the observer may fail at any line.          *)
(*                                                                         *)
(* A line is known by its stream, its place there, its kind and, for a     *)
(* thinking-token line, its estimate.  emitted is the chain of promises    *)
(* that observe the lines one after the other: the first taken of them     *)
(* have been handed to the adapter's observer.                             *)
(***************************************************************************)
EXTENDS Integers, Sequences, SequencesExt

CONSTANTS
  Tasks,      \* the calls: adapter, whether it is a detection's probe, whether a capsule is to be acknowledged
  MaxLines,   \* bound: lines a process writes
  MaxErr,     \* bound: those of them on stderr
  Estimates,  \* token estimates of thinking-token lines
  Interval,   \* THINKING_TOKEN_SNAPSHOT_INTERVAL
  None

Streams == {"stdout", "stderr"}

Lines == [stream : Streams, at : Nat \ {0}, edited : BOOLEAN,
          kind : {"text", "tool", "ack", "thinking"}, est : Estimates \union {None}]

Results == [exit : {None, "zero", "failed"}, aborted : BOOLEAN, spawnError : BOOLEAN,
            startError : BOOLEAN, observerError : BOOLEAN, thrown : BOOLEAN]

ASSUME RuntimeAssumption ==
  /\ Tasks \subseteq [adapter : {"claude", "codex", "qoder"}, probe : BOOLEAN, capsule : BOOLEAN]
  /\ \A t \in Tasks : t.probe => ~t.capsule
  /\ MaxLines \in Nat /\ MaxErr \in Nat
  /\ Interval \in Nat \ {0} /\ Estimates \subseteq Nat
  /\ None \notin Nat \union Lines \union Results

VARIABLES
  task,         \* the call
  signal,       \* the request's abort signal
  child,        \* the process and how it ended
  held,         \* a grandchild keeps the output open
  edited,       \* the Agent has changed the workspace
  written,      \* per stream: the lines written
  open,         \* per stream: the last of them has no newline
  read,         \* per stream: how many of them were read
  ended,        \* per stream: finishStream has run
  run,          \* runProcess's own variables
  emitted,      \* the lines chained for observation
  taken,        \* how many of them the adapter has taken
  compactor,    \* the Claude adapter's compactor
  undelivered,  \* the lines the observation in course still has to deliver
  attempt,      \* the engine's account of the Attempt's output
  result

process == <<task, signal, child, held, edited, written, open>>
streams == <<read, ended, emitted>>
observer == <<taken, compactor, undelivered, attempt>>
processVars == <<process, streams, observer, run, result>>

(* The lines a process may write: what an observer of this task tells      *)
(* apart, and an Agent's work only after it has the prompt.                *)
Kinds(s) ==
  LET works == s = "stdout" /\ run.prompted /\ ~task.probe
  IN  (IF works /\ task.capsule THEN {<<"tool", None>>, <<"ack", None>>} ELSE {<<"text", None>>})
        \union (IF works /\ task.adapter = "claude" THEN {"thinking"} \X Estimates ELSE {})

Exited == child.state = "exited"
Running == child.state = "running"

(* The processes that are called for: a stage's, with or without a capsule *)
(* to acknowledge, or a detection's probe of the version.                  *)
ProcessInit ==
  /\ task \in Tasks
  /\ signal \in (IF task.probe THEN {FALSE} ELSE BOOLEAN)
  /\ child = [state |-> "none", exit |-> None]
  /\ held = FALSE /\ edited = FALSE
  /\ written = [s \in Streams |-> <<>>]
  /\ open = [s \in Streams |-> FALSE]
  /\ read = [s \in Streams |-> 0]
  /\ ended = [s \in Streams |-> FALSE]
  /\ run = [pid |-> FALSE, start |-> "none", reading |-> FALSE, prompted |-> FALSE,
            aborted |-> FALSE, terminating |-> FALSE, timer |-> FALSE, closed |-> FALSE,
            spawnError |-> FALSE, observerError |-> FALSE, over |-> FALSE]
  /\ emitted = <<>> /\ taken = 0 /\ undelivered = <<>>
  /\ compactor = [last |-> None, since |-> 0, pending |-> None, retained |-> 0, dropped |-> 0]
  /\ attempt = [lines |-> <<>>, ack |-> None, tool |-> None, unchanged |-> ~task.capsule]
  /\ result = None

(***************************************************************************)
(* runProcess                                                              *)
(***************************************************************************)

\* Mutant: a process that ignores SIGTERM is left alone.
TerminateOnce(r) ==
  IF r.terminating \/ r.closed \/ Exited THEN r ELSE [r EXCEPT !.terminating = TRUE]

(* terminate: SIGTERM once, and a timer for SIGKILL. *)
Terminate(r) ==
  IF r.terminating \/ r.closed \/ Exited THEN r
  ELSE [r EXCEPT !.terminating = TRUE, !.timer = TRUE]

ProcessResult(r) ==
  [exit |-> child.exit, aborted |-> r.aborted, spawnError |-> r.spawnError,
   startError |-> r.start = "failed", observerError |-> r.observerError, thrown |-> FALSE]

(* What runProcess does until the process exists: nothing under a signal   *)
(* that is aborted, a result when spawn throws, and a process without a    *)
(* pid when the system refuses it.                                         *)
Spawn ==
  /\ child.state = "none" /\ result = None
  /\ \/ /\ signal
        /\ result' = [ProcessResult(run) EXCEPT !.aborted = TRUE]
        /\ UNCHANGED <<child, run>>
     \/ /\ ~signal
        /\ result' = [ProcessResult(run) EXCEPT !.spawnError = TRUE]
        /\ UNCHANGED <<child, run>>
     \/ /\ ~signal
        /\ child' = [child EXCEPT !.state = "exited", !.exit = "failed"]
        /\ run' = [run EXCEPT !.spawnError = TRUE]
        /\ UNCHANGED result
     \/ /\ ~signal
        /\ child' = [child EXCEPT !.state = "running"]
        /\ run' = [run EXCEPT !.pid = TRUE]
        /\ UNCHANGED result
  /\ UNCHANGED <<task, signal, held, edited, written, open, streams, observer>>

(* onStart puts the pid on record, or throws.  A process without a pid and *)
(* a probe have nothing to record.                                         *)
Start ==
  /\ child.state # "none" /\ run.start = "none"
  /\ \/ run' = [run EXCEPT !.start = IF run.pid /\ ~task.probe THEN "recorded" ELSE "settled"]
     \/ /\ run.pid /\ ~task.probe
        /\ run' = Terminate([run EXCEPT !.start = "failed"])
  /\ UNCHANGED <<process, streams, observer, result>>

(* The prompt is withheld from a process that is not on record or is being *)
(* ended; the streams flow in any case.                                    *)
Resume ==
  /\ run.start # "none" /\ ~run.reading
  /\ run' = [run EXCEPT
       !.prompted = run.start # "failed" /\ ~run.terminating /\ ~run.closed /\ Running,
       !.reading = TRUE]
  /\ UNCHANGED <<process, streams, observer, result>>

(* The signal: a controller that pauses, a Tool Gateway that failed, a     *)
(* detection that timed out.                                               *)
Abort ==
  /\ ~signal /\ child.state # "none" /\ result = None
  /\ signal' = TRUE
  /\ run' = IF run.closed THEN run ELSE Terminate([run EXCEPT !.aborted = TRUE])
  /\ UNCHANGED <<task, child, held, edited, written, open, streams, observer, result>>

(* SIGTERM may end the process, which may also ignore it; the timer sends  *)
(* SIGKILL to one that is still there.                                     *)
End(exit) ==
  /\ child' = [child EXCEPT !.state = "exited", !.exit = exit]
  /\ held' \in BOOLEAN
  /\ UNCHANGED <<task, signal, edited, written, open, streams, observer, run, result>>

ObeyTerm == Running /\ run.terminating /\ End("failed")

KillTimer == Running /\ run.timer /\ ~run.closed /\ End("failed")

(* emitLine and observe: a line is chained unless an observation has       *)
(* already failed; those chained before are still observed.                *)
Emit(ls) == emitted' = IF run.observerError THEN emitted ELSE emitted \o ls

(* A chunk of a stream arrives: its lines are emitted, an unfinished one   *)
(* is kept.                                                                *)
Read(s) ==
  /\ run.reading /\ ~ended[s] /\ read[s] < Len(written[s])
  /\ read' = [read EXCEPT ![s] = @ + 1]
  /\ Emit(IF open[s] /\ read[s] + 1 = Len(written[s]) THEN <<>> ELSE <<written[s][read[s] + 1]>>)
  /\ UNCHANGED <<process, ended, observer, run, result>>

(* A stream ends once everyone who holds it is gone; what was kept of an   *)
(* unfinished line is emitted.                                             *)
FinishStream(s) ==
  /\ run.reading /\ ~ended[s] /\ Exited /\ ~held
  /\ read[s] = Len(written[s])
  /\ ended' = [ended EXCEPT ![s] = TRUE]
  /\ Emit(IF open[s] THEN <<Last(written[s])>> ELSE <<>>)
  /\ UNCHANGED <<process, read, observer, run, result>>

Close ==
  /\ ~run.closed /\ Exited /\ \A s \in Streams : ended[s]
  /\ run' = [run EXCEPT !.closed = TRUE, !.timer = FALSE]
  /\ UNCHANGED <<process, streams, observer, result>>

(***************************************************************************)
(* The adapter and the engine observe the output                           *)
(***************************************************************************)

Thinking(l) == l.kind = "thinking"

(* The Claude compactor's decision about a line: which lines it delivers   *)
(* now, and what it keeps.                                                 *)
Compact(c, l) ==
  LET pending == IF c.pending = None THEN 0 ELSE 1
      due == l.est - c.last >= Interval \/ c.since + 1 >= Interval
  IN  IF ~Thinking(l) THEN
        [out |-> IF c.pending = None THEN <<l>> ELSE <<c.pending, l>>,
         next |-> [c EXCEPT !.pending = None]]
      ELSE IF c.last = None THEN [out |-> <<l>>, next |-> c]
      ELSE [out |-> IF due THEN <<l>> ELSE <<>>,
            next |-> [c EXCEPT !.since = @ + 1, !.dropped = @ + pending,
                               !.pending = IF due THEN None ELSE l]]

(* The next link of the chain. *)
Observe ==
  /\ taken < Len(emitted) /\ undelivered = <<>>
  /\ taken' = taken + 1
  /\ LET l == emitted[taken + 1] IN
       IF task.adapter = "claude" /\ ~task.probe
         THEN LET c == Compact(compactor, l) IN undelivered' = c.out /\ compactor' = c.next
         ELSE undelivered' = <<l>> /\ UNCHANGED compactor
  /\ UNCHANGED <<process, streams, attempt, run, result>>

(* emit counts a line as retained before its observer has it. *)
Delivered(c, l) ==
  IF Thinking(l) THEN [c EXCEPT !.retained = @ + 1, !.last = l.est, !.since = 0]
  ELSE [c EXCEPT !.retained = @ + 1]

(* The engine's onOutput: the line is on record, and the first tool        *)
(* request and the acknowledgement are noted, the latter with whether the  *)
(* workspace was still as it had been.                                     *)
OnOutput(a, l) ==
  LET first == [a EXCEPT !.lines = Append(@, l),
                         !.tool = IF @ = None /\ l.kind = "tool" THEN l ELSE @]
  IN  IF l.kind = "ack" /\ a.ack = None
        THEN [first EXCEPT !.ack = l, !.unchanged = ~edited]
        ELSE first

Deliver ==
  /\ undelivered # <<>>
  /\ undelivered' = Tail(undelivered)
  /\ compactor' = Delivered(compactor, Head(undelivered))
  /\ attempt' = OnOutput(attempt, Head(undelivered))
  /\ result' = IF run.over THEN ProcessResult(run) ELSE result
  /\ UNCHANGED <<process, streams, taken, run>>

(* An observer that throws loses the line and the rest of its observation, *)
(* and has the process ended; after the process, the adapter's run throws. *)
ObserverFails ==
  /\ undelivered # <<>> /\ ~task.probe
  /\ undelivered' = <<>>
  /\ compactor' = [compactor EXCEPT !.retained = @ + 1]
  /\ IF run.over
       THEN result' = [ProcessResult(run) EXCEPT !.thrown = TRUE] /\ UNCHANGED run
       ELSE run' = Terminate([run EXCEPT !.observerError = TRUE]) /\ UNCHANGED result
  /\ UNCHANGED <<process, streams, taken, attempt>>

Drained == \A s \in Streams : ended[s]

\* Mutant: the line the compactor kept is not delivered.
FinalizeUnflushed ==
  /\ run.closed /\ run.start # "none" /\ Drained
  /\ taken = Len(emitted) /\ undelivered = <<>> /\ ~run.over
  /\ run' = [run EXCEPT !.over = TRUE]
  /\ result' = ProcessResult(run)
  /\ UNCHANGED <<process, streams, observer>>

(* finalize, once the start is settled, the streams have finished and the  *)
(* chain is empty; then the compactor's finish, which delivers the line it *)
(* kept.                                                                   *)
Finalize ==
  /\ run.closed /\ run.start # "none" /\ Drained
  /\ taken = Len(emitted) /\ undelivered = <<>> /\ ~run.over
  /\ run' = [run EXCEPT !.over = TRUE]
  /\ IF compactor.pending = None
       THEN result' = ProcessResult(run) /\ UNCHANGED <<undelivered, compactor>>
       ELSE /\ undelivered' = <<compactor.pending>>
            /\ compactor' = [compactor EXCEPT !.pending = None]
            /\ UNCHANGED result
  /\ UNCHANGED <<process, streams, taken, attempt>>

(***************************************************************************)
(* The process                                                             *)
(***************************************************************************)

MayWrite(s) ==
  /\ Len(written["stdout"]) + Len(written["stderr"]) < MaxLines
  /\ s = "stderr" => Len(written[s]) < MaxErr

Write(s) ==
  /\ Running \/ held
  /\ ~open[s] /\ MayWrite(s)
  /\ \E k \in Kinds(s), unfinished \in BOOLEAN :
       /\ written' = [written EXCEPT ![s] = Append(@,
            [stream |-> s, at |-> Len(@) + 1, edited |-> edited, kind |-> k[1], est |-> k[2]])]
       /\ open' = [open EXCEPT ![s] = unfinished]
  /\ UNCHANGED <<task, signal, child, held, edited, streams, observer, run, result>>

Edit ==
  /\ Running /\ run.prompted /\ task.capsule /\ ~edited
  /\ edited' = TRUE
  /\ UNCHANGED <<task, signal, child, held, written, open, streams, observer, run, result>>

Exit == Running /\ \E exit \in {"zero", "failed"} : End(exit)

ReleaseOutput ==
  /\ held
  /\ held' = FALSE
  /\ UNCHANGED <<task, signal, child, edited, written, open, streams, observer, run, result>>

Controller ==
  \/ Spawn \/ Start \/ Resume
  \/ \E s \in Streams : Read(s) \/ FinishStream(s)
  \/ Close \/ Observe \/ Deliver \/ ObserverFails \/ Finalize

ProcessNext ==
  \/ Controller \/ Abort \/ ObeyTerm \/ KillTimer
  \/ \E s \in Streams : Write(s)
  \/ Edit \/ Exit \/ ReleaseOutput

ProcessSpec == ProcessInit /\ [][ProcessNext]_processVars

(* Node runs what is ready, the system delivers signals, and a detection's *)
(* timer fires.  Nothing is assumed of a process that was not told to end, *)
(* of one that was told to by SIGTERM, of a grandchild, or of a user.      *)
FairSpec ==
  /\ ProcessSpec
  /\ WF_processVars(Spawn) /\ WF_processVars(Start) /\ WF_processVars(Resume)
  /\ \A s \in Streams : WF_processVars(Read(s)) /\ WF_processVars(FinishStream(s))
  /\ WF_processVars(Close) /\ WF_processVars(Observe) /\ WF_processVars(Deliver \/ ObserverFails) /\ WF_processVars(Finalize)
  /\ WF_processVars(KillTimer)
  /\ WF_processVars(task.probe /\ Abort)

(***************************************************************************)
(* What is made of the result                                              *)
(***************************************************************************)

(* processResultSucceeded: of a run that did not throw. *)
ProcessSucceeded ==
  /\ result # None /\ ~result.thrown
  /\ result.exit = "zero" /\ ~result.aborted
  /\ ~result.spawnError /\ ~result.startError /\ ~result.observerError

\* Mutant: an unchanged workspace counts before the order of the source.
OrderingBySnapshot(a) ==
  /\ a.ack # None
  /\ a.unchanged \/ (a.tool # None /\ a.ack.stream = a.tool.stream /\ a.ack.at < a.tool.at)

(* resolveCooperativeHandoffOrdering: the order of the source counts; the  *)
(* workspace only when no tool was requested.                              *)
OrderingAccepted(a) ==
  /\ a.ack # None
  /\ IF a.tool # None THEN a.ack.stream = a.tool.stream /\ a.ack.at < a.tool.at
     ELSE a.unchanged

AttemptSucceeded ==
  /\ ProcessSucceeded
  /\ task.capsule => OrderingAccepted(attempt)

ProcessTypeOK ==
  /\ task \in Tasks
  /\ signal \in BOOLEAN /\ held \in BOOLEAN /\ edited \in BOOLEAN
  /\ child \in [state : {"none", "running", "exited"}, exit : {None, "zero", "failed"}]
  /\ written \in [Streams -> Seq(Lines)] /\ read \in [Streams -> Nat]
  /\ open \in [Streams -> BOOLEAN] /\ ended \in [Streams -> BOOLEAN]
  /\ run \in [pid : BOOLEAN, start : {"none", "recorded", "settled", "failed"},
               reading : BOOLEAN, prompted : BOOLEAN, aborted : BOOLEAN,
               terminating : BOOLEAN, timer : BOOLEAN, closed : BOOLEAN,
               spawnError : BOOLEAN, observerError : BOOLEAN, over : BOOLEAN]
  /\ emitted \in Seq(Lines) /\ taken \in 0..Len(emitted) /\ undelivered \in Seq(Lines)
  /\ compactor \in [last : Nat \union {None}, since : Nat, pending : Lines \union {None},
                     retained : Nat, dropped : Nat]
  /\ attempt \in [lines : Seq(Lines), ack : Lines \union {None},
                   tool : Lines \union {None}, unchanged : BOOLEAN]
  /\ result \in Results \union {None}

Kept(i) ==
  \E j \in DOMAIN attempt.lines : attempt.lines[j] = emitted[i]

(* The lines of a stream are in its order, and none of them is there twice. *)
InOrder(lines) ==
  \A i, j \in DOMAIN lines :
    i < j /\ lines[i].stream = lines[j].stream => lines[i].at < lines[j].at

(* The result of a run that succeeded is complete: the pid was on record;  *)
(* every line of both streams was observed, an unfinished last one too;    *)
(* every line is on record, except thinking-token lines that a later one   *)
(* of the same burst stands for; and the counts the Attempt records add up.*)
SuccessIsComplete ==
  ProcessSucceeded =>
    /\ ~task.probe => run.start = "recorded"
    /\ \A s \in Streams : Range(written[s]) = {l \in Range(emitted) : l.stream = s}
    /\ \A i \in DOMAIN emitted :
         Kept(i) \/ \E j \in DOMAIN emitted :
                      j > i /\ Kept(j) /\ \A m \in i..j : Thinking(emitted[m])
    /\ InOrder(emitted)
    /\ InOrder(attempt.lines) /\ Range(attempt.lines) \subseteq Range(emitted)
    /\ task.adapter = "claude" /\ ~task.probe =>
         taken = compactor.retained + compactor.dropped

(* A result is the end: the process is gone and so is everyone who could   *)
(* write in its place, for whatever reason the run ended.  The engine      *)
(* takes its snapshot of the workspace and ends the Attempt on a result.   *)
ResultIsTheEnd ==
  result # None => ~Running /\ ~held

ResultsHold == SuccessIsComplete /\ ResultIsTheEnd

(* A handed-off stage succeeds only when its Agent acknowledged the        *)
(* capsule before it asked for any tool and, when it asked for none,       *)
(* before it changed the workspace.                                        *)
HandoffIsAcknowledged ==
  (task.capsule /\ AttemptSucceeded) =>
    \E i \in DOMAIN written["stdout"] :
      LET l == written["stdout"][i] IN
      /\ l.kind = "ack"
      /\ \A j \in 1..i : written["stdout"][j].kind # "tool"
      /\ (\A j \in DOMAIN written["stdout"] : written["stdout"][j].kind # "tool") => ~l.edited

(* A run that is aborted, whose start or output could not be recorded, or  *)
(* that is a probe comes to a result, whatever the process does, as long   *)
(* as no grandchild holds its output.                                      *)
MustEnd ==
  run.aborted \/ run.start = "failed" \/ run.observerError \/ (task.probe /\ child.state # "none")

RunsEnd == MustEnd ~> (result # None \/ held)
=============================================================================
