--------------------------- MODULE ExternalEffect ---------------------------
(***************************************************************************)
(* Coordination of one external Effect (external-effect.ts) by successive  *)
(* controllers, each under the workspace lease (engine.ts,                 *)
(* coordinateExternalEffect).  Every transition of the Effect is appended  *)
(* under the fence; the POST to the target is not fenced.  The target and  *)
(* the network are the environment.                                        *)
(*                                                                         *)
(* The environment is "prompt" when a POST is over (applied or not) once   *)
(* its controller no longer waits for it, and no live controller loses its *)
(* lease.  A "hostile" one gives neither; targets must then recognise the  *)
(* idempotency key, as the repository's HTTP target does.                  *)
(***************************************************************************)
EXTENDS Naturals, FiniteSets

CONSTANTS Controllers,  \* processes that call coordinateExternalEffect
          None,         \* no live lease
          Lost,         \* the owner of the live lease is a process that ended
          MaxAttempts   \* bound on dispatch attempts

ASSUME EffectAssumption ==
  /\ {None, Lost} \cap Controllers = {}
  /\ None # Lost
  /\ MaxAttempts \in Nat \ {0}

VARIABLES network,      \* "prompt" or "hostile", never changes
          status,       \* newest effect.* transition in the Mission log
          attempts,     \* dispatchAttempts in the Mission log
          lease,        \* owner of the live workspace lease
          pc,           \* where each controller is
          tries,        \* the dispatchAttempts it has read, then its own attempt
          reply,        \* the answer of the target that it has not handled yet
          inFlight,     \* POSTs sent and not yet over, as <<controller, attempt>>
          sent,         \* number of POSTs so far
          applied       \* how often the target has carried out the Effect

log == <<status, attempts>>
remote == <<inFlight, sent, applied>>
vars == <<network, log, lease, pc, tries, reply, remote>>

Statuses == {"none", "intended", "dispatch_started", "executed",
             "confirmed", "failed", "ambiguous"}
Steps == {"idle", "acquired", "intend", "start", "post", "waiting", "executed",
          "reconcile", "lookup", "absent", "found", "unknown", "releasing"}

TypeOK ==
  /\ network \in {"prompt", "hostile"}
  /\ status \in Statuses
  /\ attempts \in 0..MaxAttempts
  /\ lease \in Controllers \cup {None, Lost}
  /\ pc \in [Controllers -> Steps]
  /\ tries \in [Controllers -> 0..MaxAttempts]
  /\ reply \in [Controllers -> {"none", "accepted", "rejected"}]
  /\ inFlight \subseteq Controllers \X (1..MaxAttempts)
  /\ sent \in Nat
  /\ applied \in Nat

Init ==
  /\ network \in {"prompt", "hostile"}
  /\ status = "none"
  /\ attempts = 0
  /\ lease = None
  /\ pc = [c \in Controllers |-> "idle"]
  /\ tries = [c \in Controllers |-> 0]
  /\ reply = [c \in Controllers |-> "none"]
  /\ inFlight = {}
  /\ sent = 0
  /\ applied = 0

Goto(c, step) == pc' = [pc EXCEPT ![c] = step]

-----------------------------------------------------------------------------
(* The controller.                                                         *)

AcquireLease(c) ==
  /\ pc[c] = "idle"
  /\ lease = None
  /\ lease' = c
  /\ Goto(c, "acquired")
  /\ UNCHANGED <<network, log, tries, reply, remote>>

\* Mutant: an unresolved dispatch is repeated without asking the target.
ResumeWithoutLookup(s) ==
  CASE s = "none" -> "intend"
    [] s \in {"intended", "dispatch_started", "executed", "ambiguous"} -> "start"
    [] s \in {"confirmed", "failed"} -> "releasing"

\* Where coordinate() goes on from the persisted status.
Resume(s) ==
  CASE s = "none" -> "intend"
    [] s = "intended" -> "start"
    [] s \in {"dispatch_started", "executed", "ambiguous"} -> "reconcile"
    [] s \in {"confirmed", "failed"} -> "releasing"

\* rebuildExternalEffectStateFromMissionEvents, then coordinate(): the log
\* is read once, under the lease.
Coordinate(c) ==
  /\ pc[c] = "acquired"
  /\ tries' = [tries EXCEPT ![c] = attempts]
  /\ Goto(c, Resume(status))
  /\ UNCHANGED <<network, log, lease, reply, remote>>

\* append(): under the fence the transition is durable and the controller
\* goes on; a stale fence throws out of coordinate().
AppendThen(c, s, step) ==
  IF lease = c
    THEN status' = s /\ Goto(c, step)
    ELSE Goto(c, "releasing") /\ UNCHANGED status

RecordIntended(c) ==
  /\ pc[c] = "intend"
  /\ AppendThen(c, "intended", "start")
  /\ UNCHANGED <<network, attempts, lease, tries, reply, remote>>

\* Mutant: the dispatch is sent although dispatch_started was refused.
DispatchUnfenced(c) ==
  /\ pc[c] = "start"
  /\ tries[c] < MaxAttempts
  /\ IF lease = c
       THEN status' = "dispatch_started" /\ attempts' = tries[c] + 1
       ELSE UNCHANGED log
  /\ tries' = [tries EXCEPT ![c] = @ + 1]
  /\ Goto(c, "post")
  /\ UNCHANGED <<network, lease, reply, remote>>

\* #startDispatch; no further attempt is made at the bound.
RecordDispatchStarted(c) ==
  /\ pc[c] = "start"
  /\ tries[c] < MaxAttempts
  /\ IF lease = c
       THEN /\ status' = "dispatch_started"
            /\ attempts' = IF tries[c] + 1 > attempts THEN tries[c] + 1 ELSE attempts
            /\ tries' = [tries EXCEPT ![c] = @ + 1]
            /\ Goto(c, "post")
       ELSE Goto(c, "releasing") /\ UNCHANGED <<log, tries>>
  /\ UNCHANGED <<network, lease, reply, remote>>

\* #dispatch calls the target, whoever holds the lease by then.
Post(c) ==
  /\ pc[c] = "post"
  /\ inFlight' = inFlight \cup {<<c, tries[c]>>}
  /\ sent' = sent + 1
  /\ Goto(c, "waiting")
  /\ UNCHANGED <<network, log, lease, tries, reply, applied>>

\* Mutant: the outcome is appended without a fence.
RecordRejectedUnfenced(c) ==
  /\ pc[c] = "waiting" /\ reply[c] = "rejected"
  /\ status' = "failed"
  /\ Goto(c, "releasing")
  /\ reply' = [reply EXCEPT ![c] = "none"]
  /\ UNCHANGED <<network, attempts, lease, tries, remote>>

RecordRejected(c) ==
  /\ pc[c] = "waiting" /\ reply[c] = "rejected"
  /\ AppendThen(c, "failed", "releasing")
  /\ reply' = [reply EXCEPT ![c] = "none"]
  /\ UNCHANGED <<network, attempts, lease, tries, remote>>

RecordExecuted(c) ==
  /\ pc[c] = "waiting" /\ reply[c] = "accepted"
  /\ AppendThen(c, "executed", "executed")
  /\ reply' = [reply EXCEPT ![c] = "none"]
  /\ UNCHANGED <<network, attempts, lease, tries, remote>>

\* effect.confirmed, after effect.executed or a lookup that found the Effect.
RecordConfirmed(c) ==
  /\ pc[c] \in {"executed", "found"}
  /\ AppendThen(c, "confirmed", "releasing")
  /\ UNCHANGED <<network, attempts, lease, tries, reply, remote>>

\* The POST throws, times out or is answered 5xx: the controller no longer
\* waits, and in a prompt environment the POST is over.
DispatchUnknown(c) ==
  /\ pc[c] = "waiting"
  /\ Goto(c, "unknown")
  /\ reply' = [reply EXCEPT ![c] = "none"]
  /\ inFlight' = IF network = "prompt" THEN inFlight \ ({c} \X Nat) ELSE inFlight
  /\ UNCHANGED <<network, log, lease, tries, sent, applied>>

RecordAmbiguous(c) ==
  /\ pc[c] = "unknown"
  /\ AppendThen(c, "ambiguous", "releasing")
  /\ UNCHANGED <<network, attempts, lease, tries, reply, remote>>

\* effect.reconcile_started and effect.reconciled_absent do not change the
\* status, but a stale fence refuses them too.
RecordReconciling(c) ==
  /\ \/ pc[c] = "reconcile" /\ Goto(c, IF lease = c THEN "lookup" ELSE "releasing")
     \/ pc[c] = "absent" /\ Goto(c, IF lease = c THEN "start" ELSE "releasing")
  /\ UNCHANGED <<network, log, lease, tries, reply, remote>>

\* Mutant: competing records at the target count as found.
LookupFindsAnything(c) ==
  /\ pc[c] = "lookup"
  /\ \/ Goto(c, "found")
     \/ applied = 0 /\ Goto(c, "absent")
     \/ Goto(c, "unknown")
  /\ UNCHANGED <<network, log, lease, tries, reply, remote>>

\* lookup by idempotency key; competing records and errors are ambiguous.
Lookup(c) ==
  /\ pc[c] = "lookup"
  /\ \/ applied = 1 /\ Goto(c, "found")
     \/ applied = 0 /\ Goto(c, "absent")
     \/ Goto(c, "unknown")
  /\ UNCHANGED <<network, log, lease, tries, reply, remote>>

ReleaseLease(c) ==
  /\ pc[c] = "releasing"
  /\ lease' = IF lease = c THEN None ELSE lease
  /\ Goto(c, "idle")
  /\ tries' = [tries EXCEPT ![c] = 0]
  /\ UNCHANGED <<network, log, reply, remote>>

-----------------------------------------------------------------------------
(* The environment.                                                        *)

Answer(r, a) ==
  reply' = IF pc[r[1]] = "waiting" /\ tries[r[1]] = r[2]
             THEN [reply EXCEPT ![r[1]] = a]
             ELSE reply

\* The target carries the Effect out, or knows the key and answers alike.
TargetAccepts(r) ==
  /\ r \in inFlight
  /\ inFlight' = inFlight \ {r}
  /\ \/ applied' = applied + 1
     \/ applied > 0 /\ UNCHANGED applied
  /\ Answer(r, "accepted")
  /\ UNCHANGED <<network, log, lease, pc, tries, sent>>

\* The target refuses this request, a repetition of an applied one included.
TargetRejects(r) ==
  /\ r \in inFlight
  /\ inFlight' = inFlight \ {r}
  /\ Answer(r, "rejected")
  /\ UNCHANGED <<network, log, lease, pc, tries, sent, applied>>

ExpireLease ==
  /\ lease = Lost \/ (lease # None /\ network = "hostile")
  /\ lease' = None
  /\ UNCHANGED <<network, log, pc, tries, reply, remote>>

\* The controller is killed; what it has sent may still arrive.
Crash(c) ==
  /\ pc[c] # "idle"
  /\ Goto(c, "idle")
  /\ lease' = IF lease = c THEN Lost ELSE lease
  /\ tries' = [tries EXCEPT ![c] = 0]
  /\ reply' = [reply EXCEPT ![c] = "none"]
  /\ inFlight' = IF network = "prompt" THEN inFlight \ ({c} \X Nat) ELSE inFlight
  /\ UNCHANGED <<network, log, sent, applied>>

-----------------------------------------------------------------------------
Control(c) ==
  \/ AcquireLease(c) \/ Coordinate(c) \/ RecordIntended(c)
  \/ RecordDispatchStarted(c) \/ Post(c) \/ RecordRejected(c)
  \/ RecordExecuted(c) \/ RecordConfirmed(c) \/ DispatchUnknown(c)
  \/ RecordAmbiguous(c) \/ RecordReconciling(c) \/ Lookup(c) \/ ReleaseLease(c)

Next ==
  \/ \E c \in Controllers : Control(c) \/ Crash(c)
  \/ \E r \in inFlight : TargetAccepts(r) \/ TargetRejects(r)
  \/ ExpireLease

Spec == Init /\ [][Next]_vars

-----------------------------------------------------------------------------
\* Every POST has a dispatch_started of its own in the log before it leaves,
\* even the POST of a controller that was suspended and has lost its lease
\* (#startDispatch awaits the durable append before #dispatch).
SendsAreRecorded ==
  /\ sent <= attempts
  /\ sent > 0 => status \notin {"none", "intended"}

\* A confirmed or failed Effect keeps that outcome and is dispatched no more,
\* even when the late answer of an older attempt reaches a controller that a
\* newer one has replaced.
OutcomeIsFinal ==
  [][(status \in {"confirmed", "failed"}) => UNCHANGED log]_vars

\* Query before retry: with no late POST and no lost lease, crashes anywhere
\* between intent and confirmation never make a target that ignores the
\* idempotency key carry the Effect out twice (coordinate, #reconcile).
AppliedAtMostOnce == network = "prompt" => applied <= 1

\* What the log claims of the target is so: it calls the Effect executed or
\* confirmed only when the target has carried it out, whoever sent the POST and
\* whichever lookup told; and, under the same conditions, a failed Effect has
\* left no trace there: the rejected attempt is the only one that could have
\* had an effect.
ClaimsAreTrue ==
  /\ status \in {"executed", "confirmed"} => applied >= 1
  /\ network = "prompt" /\ status = "failed" => applied = 0
=============================================================================
