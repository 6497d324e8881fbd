------------------------------ MODULE ToolGate ------------------------------
(***************************************************************************)
(* The Tool Gateway of one Attempt: files that carry a tool request from   *)
(* Claude's pre-tool hook to the controller and a release back, a decision *)
(* of the developer in between, and the result (tool-gateway.ts,           *)
(* hook-bridge.ts, engine.ts #drainToolGateway).                           *)
(*                                                                         *)
(* Two drains of one controller interleave at their awaits: that of the    *)
(* 25 ms watcher, and the last one when the Runtime has ended.  Between    *)
(* two awaits a drain appends to the log one transaction at a time, each   *)
(* with a check of the fence: the lease can be lost, and the controller    *)
(* can end, between any two of them.  Record files are written once, under *)
(* a lock, and then never change.  A "modify" decision is an "approve"     *)
(* here: it releases the tool.                                             *)
(***************************************************************************)
EXTENDS Naturals, Sequences, FiniteSets

CONSTANT Gates  \* tool invocations that the hook's matcher covers

Decisions == {"approve", "reject"}
Intent == [gate : Gates, decision : Decisions]
Drains == {"watch", "final"}

VARIABLES requests,  \* request files
          intents,   \* decision intent files, oldest first (createdAt)
          release,   \* release[g]: the decision in g's release file
          results,   \* results[g]: the outcome in g's result file
          decided,   \* tool.gate.decided events in the Mission log
          moved,     \* decided intents whose effect.status_changed is there too
          effect,    \* effect[g]: status of g's Effect in the Mission log
          observed,  \* tool.gate.result events in the Mission log
          tool,      \* tool[g]: the invocation, as the hook and Claude see it
          runtime,   \* the Runtime is running
          stopped,   \* the watcher's signal
          fenced,    \* the controller has lost its lease
          crashed,   \* the controller has ended
          at,        \* where each drain is
          seen,      \* seen[d]: decided events that drain d has read
          pending,   \* pending[d]: requests without a release that it has read
          todo,      \* todo[d]: intents it has still to handle
          found,     \* found[d]: results that it has listed and still to append
          lock       \* lock[g]: the drain that has made the lock of g's release
                     \* file, a directory that nobody removes for it

files == <<requests, intents, release, results>>
log == <<decided, moved, effect, observed>>
engine == <<runtime, stopped, fenced, crashed>>
drain == <<at, seen, pending, todo, found, lock>>
vars == <<files, log, tool, engine, drain>>

TypeOK ==
  /\ requests \subseteq Gates
  /\ intents \in Seq(Intent)
  /\ release \in [Gates -> Decisions \cup {"none"}]
  /\ results \in [Gates -> {"none", "succeeded", "failed"}]
  /\ decided \subseteq Intent
  /\ moved \subseteq decided
  /\ effect \in [Gates -> {"none", "intended", "dispatch_started", "skipped",
                           "confirmed", "failed"}]
  /\ observed \subseteq Gates
  /\ tool \in [Gates -> {"idle", "waiting", "running", "ended", "denied"}]
  /\ {runtime, stopped, fenced, crashed} \subseteq BOOLEAN
  /\ at \in [Drains -> {"idle", "list", "record", "read", "decide", "effect", "release",
                       "store", "observe", "outcome", "over", "failed"}]
  /\ seen \in [Drains -> SUBSET Intent]
  /\ pending \in [Drains -> SUBSET Gates]
  /\ todo \in [Drains -> Seq(Intent)]
  /\ found \in [Drains -> SUBSET Gates]
  /\ lock \in [Gates -> Drains \cup {"none"}]

Init ==
  /\ requests = {}
  /\ intents = <<>>
  /\ release = [g \in Gates |-> "none"]
  /\ results = [g \in Gates |-> "none"]
  /\ decided = {}
  /\ moved = {}
  /\ effect = [g \in Gates |-> "none"]
  /\ observed = {}
  /\ tool = [g \in Gates |-> "idle"]
  /\ runtime = TRUE
  /\ stopped = FALSE
  /\ fenced = FALSE
  /\ crashed = FALSE
  /\ at = [d \in Drains |-> "idle"]
  /\ seen = [d \in Drains |-> {}]
  /\ pending = [d \in Drains |-> {}]
  /\ todo = [d \in Drains |-> <<>>]
  /\ found = [d \in Drains |-> {}]
  /\ lock = [g \in Gates |-> "none"]

-----------------------------------------------------------------------------
(* The hook processes and the developer.                                   *)

\* listPending: the requests without a release.
Unreleased == {g \in requests : release[g] = "none"}

\* findRequestByInvocation: an invocation is that of one request.
Matches(g) == {r \in requests : r = g}

\* listResults.
Listed == {g \in Gates : results[g] # "none"}

\* handleClaudeHook, PreToolUse: the request is written, then the hook polls.
WritePending(g) ==
  /\ runtime
  /\ tool[g] = "idle"
  /\ requests' = requests \cup {g}
  /\ tool' = [tool EXCEPT ![g] = "waiting"]
  /\ UNCHANGED <<intents, release, results, log, engine, drain>>

\* Mutant: any release lets the tool go.
ProceedOnAnyRelease(g) ==
  /\ runtime
  /\ tool[g] = "waiting"
  /\ release[g] # "none"
  /\ tool' = [tool EXCEPT ![g] = "running"]
  /\ UNCHANGED <<files, log, engine, drain>>

\* waitForRelease and releaseOutput.
Proceed(g) ==
  /\ runtime
  /\ tool[g] = "waiting"
  /\ release[g] # "none"
  /\ tool' = [tool EXCEPT ![g] = IF release[g] = "approve" THEN "running" ELSE "denied"]
  /\ UNCHANGED <<files, log, engine, drain>>

\* ToolGatewayTimeoutError, or any other error of the hook: denied closed.
TimeOut(g) ==
  /\ tool[g] = "waiting"
  /\ tool' = [tool EXCEPT ![g] = "denied"]
  /\ UNCHANGED <<files, log, engine, drain>>

\* The post-tool hook finds the request and writes the result (markResult), or
\* fails to.
MarkResult(g) ==
  /\ runtime
  /\ tool[g] = "running"
  /\ tool' = [tool EXCEPT ![g] = "ended"]
  /\ \/ /\ Cardinality(Matches(g)) = 1
        /\ \E r \in {"succeeded", "failed"} : results' = [results EXCEPT ![g] = r]
     \/ UNCHANGED results
  /\ UNCHANGED <<requests, intents, release, log, engine, drain>>

\* decideToolGate, #requireRequest: the gate is one of an Attempt of this Mission,
\* its request is there, and nothing else is asked; it may be released already.
Decidable(i) == i.gate \in requests

\* POST of a decision: a second, different one on a gate is a file of its own.
WriteDecisionIntent(i) ==
  /\ Decidable(i)
  /\ \A k \in DOMAIN intents : intents[k] # i
  /\ intents' = Append(intents, i)
  /\ UNCHANGED <<requests, release, results, log, tool, engine, drain>>

-----------------------------------------------------------------------------
(* #drainToolGateway.                                                      *)

\* Places between which a drain awaits nothing: the event loop is with it.
Appending == {"record", "effect", "observe", "outcome"}
HasTurn(d) == \A e \in Drains \ {d} : at[e] \notin Appending

Goto(d, step) == at' = [at EXCEPT ![d] = step]

\* listEvents: what the log has when the drain begins.
StartDrain(d) ==
  /\ at[d] = "idle" /\ ~crashed
  /\ IF d = "watch" THEN ~stopped ELSE ~runtime
  /\ Goto(d, "list")
  /\ seen' = [seen EXCEPT ![d] = decided]
  /\ UNCHANGED <<files, log, tool, engine, pending, todo, found, lock>>

\* A directory with more than maxEntries entries, locks and temporary files among
\* them, or a record that cannot be read: each of the three listings throws.
ListingFails(d) ==
  /\ at[d] \in {"list", "read"} \/ (at[d] = "decide" /\ todo[d] = <<>>)
  /\ Goto(d, "failed")
  /\ UNCHANGED <<files, log, tool, engine, seen, pending, todo, found, lock>>

\* listPending: the requests that have no release.
ListPending(d) ==
  /\ at[d] = "list"
  /\ pending' = [pending EXCEPT ![d] = Unreleased]
  /\ Goto(d, "record")
  /\ UNCHANGED <<files, log, tool, engine, seen, todo, found, lock>>

\* effect.recorded with tool.gate.requested, one transaction for each request
\* that is new.  Event ids are derived from gate ids, so that a repetition is a
\* replay, which the fence refuses like a first append: what the other drain has
\* appended since this one began is repeated.
RecordRequest(d) ==
  /\ at[d] = "record"
  /\ LET new == {g \in pending[d] : effect[g] = "none"}
     IN \/ /\ fenced /\ pending[d] # {}
           /\ Goto(d, "failed") /\ UNCHANGED effect
        \/ /\ ~fenced
           /\ \E g \in new : effect' = [effect EXCEPT ![g] = "intended"]
           /\ UNCHANGED at
        \/ /\ new = {}
           /\ Goto(d, "read") /\ UNCHANGED effect
  /\ UNCHANGED <<files, decided, moved, observed, tool, engine, seen, pending, todo, found, lock>>

\* readDecisionIntents.
ReadDecisionIntents(d) ==
  /\ at[d] = "read"
  /\ todo' = [todo EXCEPT ![d] = intents]
  /\ Goto(d, "decide")
  /\ UNCHANGED <<files, log, tool, engine, seen, pending, found, lock>>

\* The drain passes over an intent that it has seen decided, and over one whose
\* request is not among those listed, if that is released by now: else it throws.
PassOver(d) ==
  /\ at[d] = "decide" /\ todo[d] # <<>>
  /\ Head(todo[d]) \in seen[d] \/ Head(todo[d]).gate \notin pending[d]
  /\ IF Head(todo[d]) \in seen[d] \/ release[Head(todo[d]).gate] # "none"
       THEN todo' = [todo EXCEPT ![d] = Tail(@)] /\ UNCHANGED at
       ELSE Goto(d, "failed") /\ UNCHANGED todo
  /\ UNCHANGED <<files, log, tool, engine, seen, pending, found, lock>>

\* The next intent is new to the drain, and its request is pending.
IsPending(d) ==
  /\ at[d] = "decide" /\ todo[d] # <<>>
  /\ Head(todo[d]) \notin seen[d]
  /\ Head(todo[d]).gate \in pending[d]

StatusOf(decision) == IF decision = "reject" THEN "skipped" ELSE "dispatch_started"

\* tool.gate.decided: a replay when the other drain has appended it since this
\* one began.
Decide(d) ==
  /\ IsPending(d)
  /\ IF fenced
       THEN Goto(d, "failed") /\ UNCHANGED decided
       ELSE Goto(d, "effect") /\ decided' = decided \cup {Head(todo[d])}
  /\ UNCHANGED <<files, moved, effect, observed, tool, engine, seen, pending, todo, found, lock>>

\* Mutant: a refused append does not keep the drain from going on.
MoveUnfenced(d) ==
  /\ at[d] = "effect"
  /\ LET i == Head(todo[d])
     IN IF fenced
          THEN UNCHANGED <<moved, effect>>
          ELSE /\ moved' = moved \cup {i}
               /\ effect' = IF i \in moved THEN effect
                            ELSE [effect EXCEPT ![i.gate] = StatusOf(i.decision)]
  /\ Goto(d, "release")
  /\ UNCHANGED <<files, decided, observed, tool, engine, seen, pending, todo, found, lock>>

\* effect.status_changed on its account, a transaction of its own, and a replay
\* in the same case.
MoveEffect(d) ==
  /\ at[d] = "effect"
  /\ LET i == Head(todo[d])
     IN IF fenced
          THEN Goto(d, "failed") /\ UNCHANGED <<moved, effect>>
          ELSE /\ moved' = moved \cup {i}
               /\ effect' = IF i \in moved THEN effect
                            ELSE [effect EXCEPT ![i.gate] = StatusOf(i.decision)]
               /\ Goto(d, "release")
  /\ UNCHANGED <<files, decided, observed, tool, engine, seen, pending, todo, found, lock>>

\* acquireLock: one writer of the file at a time; another gives up after a second.
AcquireLock(d) ==
  /\ at[d] = "release"
  /\ LET g == Head(todo[d]).gate
     IN IF lock[g] = "none"
          THEN Goto(d, "store") /\ lock' = [lock EXCEPT ![g] = d]
          ELSE Goto(d, "failed") /\ UNCHANGED lock
  /\ UNCHANGED <<files, log, tool, engine, seen, pending, todo, found>>

\* The record is written to a temporary file and renamed; then the lock goes.
Store(d) ==
  LET i == Head(todo[d])
  IN /\ release' = [release EXCEPT ![i.gate] = i.decision]
     /\ todo' = [todo EXCEPT ![d] = Tail(@)]
     /\ Goto(d, "decide")
Unlock(d) == lock' = [lock EXCEPT ![Head(todo[d]).gate] = "none"]

\* Mutant: the newest decision replaces the release file.
WriteReleaseAgain(d) ==
  /\ at[d] = "store"
  /\ Store(d) /\ Unlock(d)
  /\ UNCHANGED <<requests, intents, results, log, tool, engine, seen, pending, found>>

\* Mutant: a controller that lost its lease does not release any more.
WriteReleaseFenced(d) ==
  /\ at[d] = "store" /\ Unlock(d)
  /\ IF release[Head(todo[d]).gate] \in {"none", Head(todo[d]).decision} /\ ~fenced
       THEN Store(d)
       ELSE Goto(d, "failed") /\ UNCHANGED <<release, todo>>
  /\ UNCHANGED <<requests, intents, results, log, tool, engine, seen, pending, found>>

\* writeRelease: a release of another decision is a conflict and throws.
WriteRelease(d) ==
  /\ at[d] = "store" /\ Unlock(d)
  /\ IF release[Head(todo[d]).gate] \in {"none", Head(todo[d]).decision}
       THEN Store(d)
       ELSE Goto(d, "failed") /\ UNCHANGED <<release, todo>>
  /\ UNCHANGED <<requests, intents, results, log, tool, engine, seen, pending, found>>

\* listResults: those that are not in the log.  The others are passed over, or
\* are replays.
ListResults(d) ==
  /\ at[d] = "decide" /\ todo[d] = <<>>
  /\ found' = [found EXCEPT ![d] = Listed \ observed]
  /\ Goto(d, "observe")
  /\ UNCHANGED <<files, log, tool, engine, seen, pending, todo, lock>>

\* tool.gate.result; a replay too is refused without the lease.
ObserveResult(d) ==
  /\ at[d] = "observe"
  /\ \/ /\ fenced /\ Listed # {}
        /\ Goto(d, "failed") /\ UNCHANGED observed
     \/ /\ ~fenced
        /\ \E g \in found[d] : observed' = observed \cup {g}
        /\ Goto(d, "outcome")
  /\ UNCHANGED <<files, decided, moved, effect, tool, engine, seen, pending, todo, found, lock>>

OutcomeOf(result) == IF result = "succeeded" THEN "confirmed" ELSE "failed"

\* effect.status_changed, for the result that has just been appended.
ConcludeEffect(d) ==
  /\ at[d] = "outcome"
  /\ \/ /\ fenced
        /\ Goto(d, "failed") /\ UNCHANGED <<effect, found>>
     \/ /\ ~fenced
        /\ \E g \in found[d] \cap observed :
             /\ effect' = [effect EXCEPT ![g] = OutcomeOf(results[g])]
             /\ found' = [found EXCEPT ![d] = @ \ {g}]
        /\ Goto(d, "observe")
  /\ UNCHANGED <<files, decided, moved, observed, tool, engine, seen, pending, todo, lock>>

\* The drain is over, and after the last one the watcher is told to stop.
EndDrain(d) ==
  /\ at[d] = "observe" /\ found[d] = {}
  /\ Goto(d, IF d = "watch" THEN "idle" ELSE "over")
  /\ stopped' = (stopped \/ d = "final")
  /\ seen' = [seen EXCEPT ![d] = {}]
  /\ pending' = [pending EXCEPT ![d] = {}]
  /\ UNCHANGED <<files, log, tool, runtime, fenced, crashed, todo, found, lock>>

-----------------------------------------------------------------------------
\* The Runtime ends, or is aborted (by a drain that failed, among others).
EndRuntime ==
  /\ runtime
  /\ runtime' = FALSE
  /\ UNCHANGED <<files, log, tool, stopped, fenced, crashed, drain>>

LoseLease ==
  /\ ~fenced
  /\ fenced' = TRUE
  /\ UNCHANGED <<files, log, tool, runtime, stopped, crashed, drain>>

\* The controller ends; its Runtime may survive it.
Crash ==
  /\ ~crashed
  /\ crashed' = TRUE
  /\ at' = [d \in Drains |-> "failed"]
  /\ UNCHANGED <<files, log, tool, runtime, stopped, fenced, seen, pending, todo, found, lock>>

Drain(d) ==
  \/ StartDrain(d) \/ ListingFails(d) \/ ListPending(d) \/ RecordRequest(d)
  \/ ReadDecisionIntents(d) \/ PassOver(d) \/ Decide(d) \/ MoveEffect(d)
  \/ AcquireLock(d) \/ WriteRelease(d)
  \/ ListResults(d) \/ ObserveResult(d) \/ ConcludeEffect(d) \/ EndDrain(d)

Next ==
  \/ \E g \in Gates : WritePending(g) \/ Proceed(g) \/ TimeOut(g) \/ MarkResult(g)
  \/ \E i \in Intent : WriteDecisionIntent(i)
  \/ \E d \in Drains : HasTurn(d) /\ Drain(d)
  \/ EndRuntime \/ LoseLease \/ Crash

Spec == Init /\ [][Next]_vars

-----------------------------------------------------------------------------
Decided(g) == {i \in decided : i.gate = g}

\* A decision is in the log, and the event by which it moves the Effect on as
\* well, before it is released, whichever drain, and whatever lease, it was
\* released by (tool-gateway.ts, PersistedKernelDecisionV1): a decision that was
\* cut off between its two events lets no tool go.
ReleasedIsDecided ==
  \A g \in Gates : release[g] # "none" =>
    /\ [gate |-> g, decision |-> release[g]] \in decided \cap moved
    /\ effect[g] \notin {"none", "intended"}

\* The release of a gate stands: neither a second decision nor the second
\* drain replaces it once the hook may have read it (writeRelease).
\* And while the Runtime runs, an outcome that is in the log stands: a decision
\* that comes after the release is not taken for a pending one, and a repeated
\* one not applied again.  (Once the Runtime has ended the last drain and the
\* watcher's overlap, and a stale pending list can overwrite it.)
DecisionsStand ==
  [][\A g \in Gates :
       /\ release[g] # "none" => release'[g] = release[g]
       /\ effect[g] \in {"confirmed", "failed"} /\ effect'[g] # effect[g] => ~runtime]_vars

\* With one decision on a gate: a tool whose Effect was skipped has not run.
SkippedIsBlocked ==
  \A g \in Gates : effect[g] = "skipped" /\ tool[g] \in {"running", "ended"} =>
    \E i, j \in Decided(g) : i # j

\* A release stands for what the log says, and so does a tool that was skipped
\* (writeRelease, handleClaudeHook).
ReleasesHold == ReleasedIsDecided /\ SkippedIsBlocked

\* A decided intent is not passed over.  Once it has moved its Effect on, its
\* gate is released, or a release of the gate is the next thing a drain does,
\* though two drains wait for one lock and either may give up, unless the
\* controller has ended.  Before that the drain that decided it is at its second
\* event; only a lease lost there, or the end of the controller, leaves it
\* decided without a release for good (a later drain takes it for handled).
DecidedIsReleased ==
  /\ \A i \in moved :
       \/ release[i.gate] # "none"
       \/ \E d \in Drains : at[d] \in {"release", "store"} /\ Head(todo[d]).gate = i.gate
       \/ crashed
  /\ \A i \in decided \ moved :
       \/ \E d \in Drains : at[d] = "effect" /\ Head(todo[d]) = i
       \/ fenced \/ crashed

-----------------------------------------------------------------------------
\* docs/product-requirements.md: "only an enforced Adapter gate may claim that
\* mutation was prevented": when the log says so of an enforced Effect (status
\* skipped, blocked-and-skipped), the tool has not been let go.
PreventedIsNotDispatched ==
  \A g \in Gates : effect[g] = "skipped" => tool[g] \notin {"running", "ended"}
=============================================================================
