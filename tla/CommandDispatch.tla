--------------------------- MODULE CommandDispatch ---------------------------
(***************************************************************************)
(* The durable command outbox of one Mission: acceptance, claims with a    *)
(* time to live, and execution under the workspace lease (store.ts,        *)
(* engine.ts, app.ts).  Every store transaction is one step, so that the   *)
(* processes interleave between the reads and the writes of one handler.   *)
(*                                                                         *)
(* Time is abstract: a lease or a claim may expire at any moment, and its  *)
(* row then reads as if nobody held it.  Owner ids are fresh for every     *)
(* lease, so "p holds the live lease" is the fence check of WorkspaceLease *)
(* for p.                                                                  *)
(***************************************************************************)
EXTENDS Naturals, Sequences, FiniteSets

CONSTANTS Apps,       \* `missionbraid app` processes: supervisor with heartbeat
          Directs,    \* run/resume/verify calls: claim once, never renew
          Commands,   \* command ids
          None,       \* no live lease, no live claim, no command in hand
          Lost        \* the owner of a live lease or claim is a process that ended

ASSUME DispatchAssumption ==
  /\ Apps \cap Directs = {}
  /\ {None, Lost} \cap (Apps \cup Directs) = {}
  /\ None \notin Commands
  /\ None # Lost

Procs == Apps \cup Directs
Holders == Procs \cup {None, Lost}

VARIABLES queue,      \* accepted commands, oldest first (accepted_at order)
          status,     \* mission_commands.status
          claim,      \* claim_owner while claim_until_ms > now
          lastEvent,  \* the command's newest Kernel event
          lease,      \* owner_id of the lease row while lease_until_ms > now
          pc,         \* where each process is in its handler
          cmd,        \* the command it handles
          aborted     \* its AbortSignal

rows == <<queue, status, claim, lastEvent>>
vars == <<rows, lease, pc, cmd, aborted>>

Terminal == {"completed", "failed"}
Statuses == {"none", "pending", "dispatching"} \cup Terminal
Active(c) == status[c] \in {"pending", "dispatching"}
\* Mutant: an expired claim is never taken over.
ClaimablePendingOnly(c) == status[c] = "pending"

Claimable(c) == status[c] = "pending" \/ (status[c] = "dispatching" /\ claim[c] = None)
Steps == {"idle", "posting", "accepting", "stored", "accepted",
          "claimed", "checked", "leased", "running", "releasing"}

TypeOK ==
  /\ queue \in Seq(Commands)
  /\ status \in [Commands -> Statuses]
  /\ claim \in [Commands -> Holders]
  /\ lastEvent \in [Commands -> Statuses \cup {"accepted"}]
  /\ lease \in Holders
  /\ pc \in [Procs -> Steps]
  /\ cmd \in [Procs -> Commands \cup {None}]
  /\ aborted \in [Procs -> BOOLEAN]

Init ==
  /\ queue = <<>>
  /\ status = [c \in Commands |-> "none"]
  /\ claim = [c \in Commands |-> None]
  /\ lastEvent = [c \in Commands |-> "none"]
  /\ lease = None
  /\ pc = [p \in Procs |-> "idle"]
  /\ cmd = [p \in Procs |-> None]
  /\ aborted = [p \in Procs |-> FALSE]

Goto(p, step) == pc' = [pc EXCEPT ![p] = step]
GoIdle(p) ==
  /\ Goto(p, "idle")
  /\ cmd' = [cmd EXCEPT ![p] = None]
  /\ aborted' = [aborted EXCEPT ![p] = FALSE]

-----------------------------------------------------------------------------
(* Acceptance.                                                             *)

\* listCommands: the rows there are.
Listed == {c \in Commands : status[c] # "none"}

\* Bound: a process posts only while a command id is left for it.
IdLeft == Cardinality({p \in Procs : pc[p] \in {"posting", "accepting"}})
            < Cardinality(Commands \ Listed)

\* The POST handler, and #submitAndExecute, look for an active command; the
\* handler answers 409 to one, a direct call takes it over.
Post(p) ==
  /\ pc[p] = "idle"
  /\ \/ /\ \A c \in Listed : ~Active(c)
        /\ IdLeft
        /\ Goto(p, "posting")
        /\ UNCHANGED cmd
     \/ /\ p \in Directs
        /\ \E c \in Listed :
             /\ Active(c)
             /\ Goto(p, "accepted")
             /\ cmd' = [cmd EXCEPT ![p] = c]
  /\ UNCHANGED <<rows, lease, aborted>>

\* MissionStore.acceptCommand: the command.accepted event with the pending row.
Accepted(c) ==
  /\ queue' = Append(queue, c)
  /\ status' = [status EXCEPT ![c] = "pending"]
  /\ lastEvent' = [lastEvent EXCEPT ![c] = "accepted"]

\* acceptCommand, under the lease: it makes an id, and expects the head it has
\* just read itself.
AcceptCommand(p) ==
  /\ pc[p] = "accepting"
  /\ IF lease = p
       THEN \E c \in Commands \ Listed :
              /\ Accepted(c)
              /\ cmd' = [cmd EXCEPT ![p] = c]
              /\ Goto(p, "stored")
       ELSE Goto(p, "releasing") /\ UNCHANGED <<queue, status, lastEvent, cmd>>
  /\ UNCHANGED <<claim, lease, aborted>>

-----------------------------------------------------------------------------
(* Claims.                                                                 *)

Claim(p, c) ==
  /\ status' = [status EXCEPT ![c] = "dispatching"]
  /\ claim' = [claim EXCEPT ![c] = p]
  /\ Goto(p, "claimed")
  /\ cmd' = [cmd EXCEPT ![p] = c]
  /\ UNCHANGED <<queue, lastEvent, lease, aborted>>

\* drainCommands: the supervisor claims the oldest claimable command.
ClaimNextCommand(p) ==
  /\ p \in Apps
  /\ pc[p] = "idle"
  /\ \E i \in DOMAIN queue :
       /\ Claimable(queue[i])
       /\ \A j \in 1..(i - 1) : ~Claimable(queue[j])
       /\ Claim(p, queue[i])

\* claimCommand: throws when somebody else claimed it first.
ClaimCommand(p) ==
  /\ pc[p] = "accepted"
  /\ \/ Claimable(cmd[p]) /\ Claim(p, cmd[p])
     \/ ~Claimable(cmd[p]) /\ GoIdle(p) /\ UNCHANGED <<rows, lease>>

-----------------------------------------------------------------------------
(* Execution: executeCommand, whose reads and writes are separate          *)
(* transactions.                                                           *)

\* getCommand: the status in the row, and not whose claim it is.
Row(c) == status[c]

\* It reads the row before it has the lease.
CheckCommand(p) ==
  /\ pc[p] = "claimed"
  /\ IF Row(cmd[p]) = "dispatching"
       THEN Goto(p, "checked") /\ UNCHANGED <<cmd, aborted>>
       ELSE GoIdle(p)
  /\ UNCHANGED <<rows, lease>>

\* #withLease; a live lease of another owner is a conflict.
AcquireLease(p) ==
  /\ pc[p] \in {"posting", "checked"}
  /\ \/ /\ lease = None
        /\ lease' = p
        /\ Goto(p, IF pc[p] = "posting" THEN "accepting" ELSE "leased")
        /\ UNCHANGED <<cmd, aborted>>
     \/ /\ lease # None
        /\ GoIdle(p)
        /\ UNCHANGED lease
  /\ UNCHANGED rows

\* Mutant: a settled command may be dispatched again.
RecordDispatchingAnyway(p) ==
  /\ pc[p] = "leased"
  /\ IF lease = p
       THEN /\ lastEvent' = [lastEvent EXCEPT ![cmd[p]] = "dispatching"]
            /\ Goto(p, "running")
       ELSE Goto(p, "releasing") /\ UNCHANGED lastEvent
  /\ UNCHANGED <<queue, status, claim, lease, cmd, aborted>>

\* recordCommandStatus(.., 'dispatching'): appends the event and leaves the
\* row's status and claim as they are; a settled command refuses.
RecordDispatching(p) ==
  /\ pc[p] = "leased"
  /\ IF lease = p /\ status[cmd[p]] \notin Terminal
       THEN /\ lastEvent' = [lastEvent EXCEPT ![cmd[p]] = "dispatching"]
            /\ Goto(p, "running")
       ELSE Goto(p, "releasing") /\ UNCHANGED lastEvent
  /\ UNCHANGED <<queue, status, claim, lease, cmd, aborted>>

\* What the ended run records: its outcome, or 'pending' when it was aborted.
Outcomes(p) == IF aborted[p] THEN {"pending"} ELSE Terminal

\* Mutant: the outcome is a plain update, with neither fence nor row checked.
RecordOutcomeUnfenced(p) ==
  /\ pc[p] = "running"
  /\ \E s \in Outcomes(p) :
       /\ status' = [status EXCEPT ![cmd[p]] = s]
       /\ claim' = [claim EXCEPT ![cmd[p]] = None]
       /\ lastEvent' = [lastEvent EXCEPT ![cmd[p]] = s]
  /\ Goto(p, "releasing")
  /\ UNCHANGED <<queue, lease, cmd, aborted>>

\* Mutant: the status event is appended and the outbox row is not updated.
RecordOutcomeEventOnly(p) ==
  /\ pc[p] = "running"
  /\ IF lease = p
       THEN \E s \in Outcomes(p) : lastEvent' = [lastEvent EXCEPT ![cmd[p]] = s]
       ELSE UNCHANGED lastEvent
  /\ Goto(p, "releasing")
  /\ UNCHANGED <<queue, status, claim, lease, cmd, aborted>>

\* recordCommandStatus at the end of the run, event and row in one
\* transaction; a stale fence or a settled command throws out of
\* executeCommand (or, settled alike, changes nothing).
RecordOutcome(p) ==
  /\ pc[p] = "running"
  /\ IF lease = p /\ status[cmd[p]] \notin Terminal
       THEN \E s \in Outcomes(p) :
              /\ status' = [status EXCEPT ![cmd[p]] = s]
              /\ claim' = [claim EXCEPT ![cmd[p]] = None]
              /\ lastEvent' = [lastEvent EXCEPT ![cmd[p]] = s]
       ELSE UNCHANGED <<status, claim, lastEvent>>
  /\ Goto(p, "releasing")
  /\ UNCHANGED <<queue, lease, cmd, aborted>>

\* The finally block of #withLease; a direct call goes on with the command
\* it has accepted.
ReleaseLease(p) ==
  /\ pc[p] \in {"stored", "releasing"}
  /\ lease' = IF lease = p THEN None ELSE lease
  /\ IF pc[p] = "stored" /\ p \in Directs
       THEN Goto(p, "accepted") /\ UNCHANGED <<cmd, aborted>>
       ELSE GoIdle(p)
  /\ UNCHANGED rows

-----------------------------------------------------------------------------
(* Interruptions.                                                          *)

\* The ten-second heartbeat finds its claim gone and aborts the run.
HeartbeatFails(p) ==
  /\ p \in Apps
  /\ pc[p] = "running" /\ ~aborted[p]
  /\ ~(status[cmd[p]] = "dispatching" /\ claim[cmd[p]] = p)
  /\ aborted' = [aborted EXCEPT ![p] = TRUE]
  /\ UNCHANGED <<rows, lease, pc, cmd>>

\* app.close(), or SIGINT to a direct run.
Abort(p) ==
  /\ pc[p] = "running" /\ ~aborted[p]
  /\ aborted' = [aborted EXCEPT ![p] = TRUE]
  /\ UNCHANGED <<rows, lease, pc, cmd>>

\* The process dies (a lease renewal that throws in its timer does that) and
\* a new one with new owner ids takes its place.
Crash(p) ==
  /\ GoIdle(p)
  /\ claim' = [c \in Commands |-> IF claim[c] = p THEN Lost ELSE claim[c]]
  /\ lease' = IF lease = p THEN Lost ELSE lease
  /\ UNCHANGED <<queue, status, lastEvent>>

ExpireLease ==
  /\ lease # None
  /\ lease' = None
  /\ UNCHANGED <<rows, pc, cmd, aborted>>

ExpireClaim(c) ==
  /\ claim[c] # None
  /\ claim' = [claim EXCEPT ![c] = None]
  /\ UNCHANGED <<queue, status, lastEvent, lease, pc, cmd, aborted>>

-----------------------------------------------------------------------------
Advance(p) ==
  \/ ClaimNextCommand(p) \/ ClaimCommand(p) \/ AcceptCommand(p)
  \/ CheckCommand(p) \/ AcquireLease(p)
  \/ RecordDispatching(p) \/ RecordOutcome(p) \/ ReleaseLease(p)

Next ==
  \/ \E p \in Procs :
       Advance(p) \/ Post(p) \/ HeartbeatFails(p) \/ Abort(p) \/ Crash(p)
  \/ ExpireLease
  \/ \E c \in Commands : ExpireClaim(c)

Spec == Init /\ [][Next]_vars

\* A claim that its supervisor renews, and what a healthy machine no longer
\* does: crash, abort, or let a renewed lease or claim expire.
Renewed(c) == \E p \in Apps : cmd[p] = c /\ claim[c] = p
Disruption ==
  \/ \E p \in Procs : Abort(p) \/ Crash(p)
  \/ ExpireLease /\ lease \in Procs
  \/ \E c \in Commands : ExpireClaim(c) /\ Renewed(c)

\* Processes keep running their event loops, timers fire, unrenewed leases
\* and claims run out, and disruptions end at some point.
FairSpec ==
  /\ Spec
  /\ \A p \in Procs : WF_vars(Advance(p))
  /\ WF_vars(ExpireLease /\ lease = Lost)
  /\ \A c \in Commands : WF_vars(ExpireClaim(c) /\ ~Renewed(c))
  /\ <>[][~Disruption]_vars

-----------------------------------------------------------------------------
\* Whoever can still write under the lease works for a command that is not
\* settled: a claim that expired, was re-claimed, completed and released
\* elsewhere never leads to a second execution (executeCommand checks the row
\* before the lease, recordCommandStatus again under it).
ExecutesUnsettled ==
  \A p \in Procs : pc[p] = "running" /\ lease = p => status[cmd[p]] \notin Terminal

\* A settled command keeps its outcome, in its row and in the event log,
\* whatever late runner, expired claim or crash follows.
SettledIsFinal ==
  [][\A c \in Commands : status[c] \in Terminal =>
        status'[c] = status[c] /\ lastEvent'[c] = lastEvent[c]]_vars

\* Row and log agree: the row is settled exactly when the newest event of
\* the command says so, with the same outcome, and it waits in the queue
\* exactly once from its command.accepted event on.
LedgerAgrees ==
  \A c \in Commands :
    /\ status[c] \in Terminal \/ lastEvent[c] \in Terminal => lastEvent[c] = status[c]
    /\ lastEvent[c] = "none" <=> status[c] = "none"
    /\ status[c] # "none" <=> \E i \in DOMAIN queue : queue[i] = c
    /\ \A i, j \in DOMAIN queue : queue[i] = queue[j] => i = j

\* The outbox and the log tell the same, and nobody who can still write works
\* against them (executeCommand, recordCommandStatus).
LedgerHolds == ExecutesUnsettled /\ LedgerAgrees

\* An accepted command is settled in the end (drainCommands, claim expiry).
AcceptedIsSettled ==
  \A c \in Commands : status[c] = "pending" ~> status[c] \in Terminal
=============================================================================
