----------------------------- MODULE StoreProofs -----------------------------
(***************************************************************************)
(* What the store promises its callers (store.ts): the workspace lease and *)
(* its fenced log, for every number of owners, every Ttl and every pause,  *)
(* and the command ledger, for all apps, direct calls and commands.  The   *)
(* two models share no variable.                                           *)
(*                                                                         *)
(* LeaseIInv is inductive; LogIsFenced, RecordedInOrder, NoEarlyTakeover   *)
(* and the refinement of FencedLog follow from it.                         *)
(*                                                                         *)
(* LedgerHolds is not inductive: it does not say that a process that       *)
(* handles a command handles one that was accepted, so that a 'dispatching'*)
(* event could be the first of a command without a row.  InHand says it.   *)
(***************************************************************************)
EXTENDS WorkspaceLease, CommandDispatch, TLAPS

\* The inductive invariant of the lease: see LeaseInv in WorkspaceLease.
LeaseIInv == LeaseTypeOK /\ LeaseInv

-----------------------------------------------------------------------------
\* What #assertFence tells the transaction that passes it.
LEMMA FencedIsHolder ==
  ASSUME LeaseIInv, NEW o \in Owners, Fenced(o), call[o] \in Calls \ {"acquire"}
  PROVE  /\ fence[o] \in Nat \ {0}
         /\ fence[o] = fencingToken
         /\ ownerId = o
         /\ \A p \in Owners \ {o} : fence[p] # fencingToken
BY DEF LeaseIInv, LeaseTypeOK, LeaseInv, FenceInv, Fenced

\* Fields of a logged write.
LEMMA EntryTyped ==
  ASSUME LeaseTypeOK, NEW i \in DOMAIN log
  PROVE  log[i].token \in Nat /\ log[i].owner \in Owners /\ log[i].recordedAt \in Nat
<1>1. log[i] \in Entry
  BY DEF LeaseTypeOK
<1> QED
  BY <1>1 DEF Entry

LEMMA LeaseInitInv == LeaseInit => LeaseIInv
BY LeaseAssumption
   DEF LeaseInit, LeaseIInv, LeaseTypeOK, LeaseInv, FenceInv, ClockInv, LogInv, LogIsFenced,
       RecordedInOrder, Calls

-----------------------------------------------------------------------------
\* Type correctness.
LEMMA LeaseTypeStep == LeaseTypeOK /\ [LeaseNext]_leaseVars => LeaseTypeOK'
<1> SUFFICES ASSUME LeaseTypeOK, [LeaseNext]_leaseVars PROVE LeaseTypeOK'
  OBVIOUS
<1> USE LeaseAssumption DEF LeaseTypeOK, Calls, Done, row
<1>1. CASE Tick
  BY <1>1 DEF Tick
<1>2. ASSUME NEW o \in Owners, NEW c \in Calls, Begin(o, c) PROVE LeaseTypeOK'
  BY <1>2 DEF Begin
<1>3. ASSUME NEW o \in Owners, AcquireWorkspaceLease(o) PROVE LeaseTypeOK'
  <2>1. CASE Extend(o)
    BY <1>3, <2>1 DEF AcquireWorkspaceLease, Extend
  <2>2. CASE Refuse(o)
    BY <1>3, <2>2 DEF AcquireWorkspaceLease, Refuse
  <2>3. CASE Grant(o)
    BY <1>3, <2>3 DEF AcquireWorkspaceLease, Grant
  <2> QED
    BY <1>3, <2>1, <2>2, <2>3 DEF AcquireWorkspaceLease
<1>4. ASSUME NEW o \in Owners, RenewWorkspaceLease(o) PROVE LeaseTypeOK'
  BY <1>4 DEF RenewWorkspaceLease
<1>5. ASSUME NEW o \in Owners, ReleaseWorkspaceLease(o) PROVE LeaseTypeOK'
  BY <1>5 DEF ReleaseWorkspaceLease
<1>6. ASSUME NEW o \in Owners, AppendEvents(o) PROVE LeaseTypeOK'
  <2>1. [token |-> fence[o], owner |-> o, recordedAt |-> now[o]] \in Entry
    BY DEF Entry
  <2>2. log' \in Seq(Entry)
    BY <1>6, <2>1 DEF AppendEvents
  <2> QED
    BY <1>6, <2>2 DEF AppendEvents
<1>7. ASSUME NEW o \in Owners, OwnerEnds(o) PROVE LeaseTypeOK'
  BY <1>7 DEF OwnerEnds
<1>8. CASE UNCHANGED leaseVars
  BY <1>8 DEF leaseVars
<1> QED
  BY <1>1, <1>2, <1>3, <1>4, <1>5, <1>6, <1>7, <1>8 DEF LeaseNext

-----------------------------------------------------------------------------
\* Each transaction keeps the invariant.  Acquire is the interesting one for
\* fences, append for the log.
LEMMA AcquireStep ==
  ASSUME LeaseIInv, LeaseTypeOK', NEW o \in Owners, AcquireWorkspaceLease(o)
  PROVE  LeaseInv'
<1>0. /\ log' = log /\ clock' = clock
      /\ fencingToken' \in {fencingToken, fencingToken + 1}
      /\ fencingToken' = fencingToken => ownerId' = ownerId
      /\ fencingToken \in Nat /\ fence \in [Owners -> Nat]
      /\ \A p \in Owners : p # o => fence'[p] = fence[p] /\ call'[p] = call[p] /\ now'[p] = now[p]
      /\ call'[o] = "none"
  BY DEF LeaseIInv, LeaseTypeOK, Done, row, AcquireWorkspaceLease, Extend, Refuse, Grant
<1>1. FenceInv'
  BY LeaseAssumption DEF LeaseIInv, LeaseTypeOK, LeaseInv, FenceInv, Calls, Done, row,
     AcquireWorkspaceLease, Extend, Refuse, Grant
<1>2. ClockInv'
  BY LeaseAssumption DEF LeaseIInv, LeaseTypeOK, LeaseInv, ClockInv, Calls, Done, row,
     AcquireWorkspaceLease, Extend, Refuse, Grant
<1>3. LogInv'
  <2>1. CASE fencingToken' = fencingToken
    BY <1>0, <2>1 DEF LeaseIInv, LeaseInv, LogInv
  <2>2. CASE fencingToken' = fencingToken + 1
    <3>1. \A p \in Owners : call'[p] = "append" => fence'[p] # fencingToken'
      <4> SUFFICES ASSUME NEW p \in Owners, p # o PROVE fence[p] # fencingToken + 1
        BY <1>0, <2>2
      <4>1. fence[p] <= fencingToken /\ fence[p] \in Nat
        BY <1>0 DEF LeaseIInv, LeaseInv, FenceInv
      <4> QED
        BY <1>0, <4>1
    <3>2. \A i \in DOMAIN log : log[i].token # fencingToken'
      <4> SUFFICES ASSUME NEW i \in DOMAIN log PROVE log[i].token # fencingToken + 1
        BY <2>2
      <4>1. log[i].token <= fencingToken /\ log[i].token \in Nat
        BY EntryTyped DEF LeaseIInv, LeaseInv, LogInv
      <4> QED
        BY <1>0, <4>1
    <3>3. \A i \in DOMAIN log : log[i].token <= fencingToken' /\ log[i].recordedAt <= clock'
      <4> SUFFICES ASSUME NEW i \in DOMAIN log
                   PROVE  log[i].token <= fencingToken + 1 /\ log[i].recordedAt <= clock
        BY <1>0, <2>2
      <4>1. log[i].token <= fencingToken /\ log[i].token \in Nat /\ log[i].recordedAt <= clock
        BY EntryTyped DEF LeaseIInv, LeaseInv, LogInv
      <4> QED
        BY <1>0, <4>1
    <3> QED
      BY <1>0, <3>1, <3>2, <3>3 DEF LogInv
  <2> QED
    BY <1>0, <2>1, <2>2
<1>4. LogIsFenced' /\ RecordedInOrder'
  BY <1>0 DEF LeaseIInv, LeaseInv, LogIsFenced, RecordedInOrder
<1> QED
  BY <1>1, <1>2, <1>3, <1>4 DEF LeaseInv

LEMMA AppendStep ==
  ASSUME LeaseIInv, LeaseTypeOK', NEW o \in Owners, AppendEvents(o)
  PROVE  LeaseInv'
<1> USE LeaseAssumption DEF LeaseIInv, LeaseTypeOK, Calls, Done, row, AppendEvents
<1>1. FenceInv'
  BY DEF LeaseInv, FenceInv
<1>2. ClockInv'
  BY DEF LeaseInv, ClockInv
<1>3. CASE ~Fenced(o)
  <2>1. log' = log
    BY <1>3
  <2>2. LogInv'
    BY <2>1 DEF LeaseInv, LogInv
  <2> QED
    BY <1>1, <1>2, <2>1, <2>2 DEF LeaseInv, LogIsFenced, RecordedInOrder
<1>4. CASE Fenced(o)
  <2> DEFINE e == [token |-> fence[o], owner |-> o, recordedAt |-> now[o]]
  <2>1. log' = Append(log, e) /\ e \in Entry
    BY <1>4 DEF Entry
  <2>2. /\ Len(log') = Len(log) + 1
        /\ \A i \in 1..Len(log) : log'[i] = log[i]
        /\ log'[Len(log) + 1] = e
        /\ DOMAIN log = 1..Len(log) /\ DOMAIN log' = 1..Len(log')
        /\ Len(log) \in Nat
    BY <2>1
  <2>3. /\ e.token = fencingToken /\ e.owner = ownerId /\ e.recordedAt <= clock
        /\ \A p \in Owners : p # o => fence[p] # fencingToken
        /\ \A i \in 1..Len(log) : log[i].token <= e.token /\ log[i].recordedAt <= e.recordedAt
        /\ \A i \in 1..Len(log) : log[i].token = e.token => log[i].owner = e.owner
    <3>1. /\ fence[o] = fencingToken /\ ownerId = o
          /\ \A p \in Owners : p # o => fence[p] # fencingToken
      BY <1>4, FencedIsHolder
    <3>2. e.token = fence[o] /\ e.owner = o /\ e.recordedAt = now[o]
      OBVIOUS
    <3>3. now[o] <= clock
      BY DEF LeaseInv, ClockInv
    <3> HIDE DEF e
    <3> QED
      BY <2>2, <3>1, <3>2, <3>3 DEF LeaseInv, LogInv
  <2> HIDE DEF e
  <2>4. LogInv'
    BY <2>2, <2>3 DEF LeaseInv, LogInv
  <2>5. LogIsFenced' /\ RecordedInOrder'
    BY <2>2, <2>3 DEF LeaseInv, LogIsFenced, RecordedInOrder
  <2> QED
    BY <1>1, <1>2, <2>4, <2>5 DEF LeaseInv
<1> QED
  BY <1>3, <1>4

LEMMA LeaseInvStep == LeaseIInv /\ [LeaseNext]_leaseVars => LeaseIInv'
<1> SUFFICES ASSUME LeaseIInv, [LeaseNext]_leaseVars PROVE LeaseInv'
  BY LeaseTypeStep DEF LeaseIInv
<1>0. LeaseTypeOK /\ LeaseTypeOK'
  BY LeaseTypeStep DEF LeaseIInv
<1> USE LeaseAssumption, <1>0 DEF LeaseIInv, LeaseInv, LeaseTypeOK, Calls, Done, row
<1>1. CASE Tick
  <2>1. FenceInv' /\ ClockInv'
    BY <1>1 DEF Tick, FenceInv, ClockInv
  <2>2. clock <= clock' /\ UNCHANGED <<row, fence, call, now, log>>
    BY <1>1 DEF Tick
  <2>3. LogInv'
    <3>1. \A i \in DOMAIN log : log[i].recordedAt <= clock'
      BY <2>2, EntryTyped DEF LogInv
    <3> QED
      BY <2>2, <3>1 DEF LogInv
  <2> QED
    BY <2>1, <2>2, <2>3 DEF LogIsFenced, RecordedInOrder
<1>2. ASSUME NEW o \in Owners, NEW c \in Calls, Begin(o, c) PROVE LeaseInv'
  <2>1. FenceInv' /\ ClockInv'
    BY <1>2 DEF Begin, FenceInv, ClockInv
  <2>2. LogInv'
    BY <1>2 DEF Begin, LogInv
  <2> QED
    BY <1>2, <2>1, <2>2 DEF Begin, LogIsFenced, RecordedInOrder
<1>3. ASSUME NEW o \in Owners, RenewWorkspaceLease(o) PROVE LeaseInv'
  <2>1. Fenced(o) => ownerId # NoOwner
    BY DEF Fenced
  <2>2. FenceInv'
    BY <1>3 DEF RenewWorkspaceLease, FenceInv
  <2>4. ClockInv'
    <3>1. /\ clock' = clock /\ ownerId' = ownerId
          /\ ownerId = NoOwner => leaseUntil' = leaseUntil
          /\ \A p \in Owners : now'[p] = now[p] \/ now'[p] = 0
      BY <1>3, <2>1 DEF RenewWorkspaceLease
    <3>2. \A p \in Owners : now'[p] <= clock
      <4> TAKE p \in Owners
      <4>1. now[p] \in Nat /\ now[p] <= clock /\ clock \in Nat
        BY DEF ClockInv
      <4>2. CASE now'[p] = now[p]
        BY <4>1, <4>2
      <4>3. CASE now'[p] = 0
        BY <4>1, <4>3
      <4> QED
        BY <3>1, <4>2, <4>3
    <3> QED
      BY <3>1, <3>2 DEF ClockInv
  <2>3. LogInv'
    BY <1>3 DEF RenewWorkspaceLease, LogInv
  <2> QED
    BY <1>3, <2>2, <2>3, <2>4 DEF RenewWorkspaceLease, LogIsFenced, RecordedInOrder
<1>4. ASSUME NEW o \in Owners, ReleaseWorkspaceLease(o) PROVE LeaseInv'
  <2>1. FenceInv' /\ ClockInv'
    BY <1>4 DEF ReleaseWorkspaceLease, FenceInv, ClockInv
  <2>2. LogInv'
    BY <1>4 DEF ReleaseWorkspaceLease, LogInv
  <2> QED
    BY <1>4, <2>1, <2>2 DEF ReleaseWorkspaceLease, LogIsFenced, RecordedInOrder
<1>5. ASSUME NEW o \in Owners, OwnerEnds(o) PROVE LeaseInv'
  <2>1. FenceInv' /\ ClockInv'
    BY <1>5 DEF OwnerEnds, FenceInv, ClockInv
  <2>2. LogInv'
    BY <1>5 DEF OwnerEnds, LogInv
  <2> QED
    BY <1>5, <2>1, <2>2 DEF OwnerEnds, LogIsFenced, RecordedInOrder
<1>6. CASE UNCHANGED leaseVars
  BY <1>6 DEF leaseVars, FenceInv, ClockInv, LogInv, LogIsFenced, RecordedInOrder
<1> QED
  BY <1>1, <1>2, <1>3, <1>4, <1>5, <1>6, AcquireStep, AppendStep DEF LeaseNext

-----------------------------------------------------------------------------
\* The invariant holds of every behaviour.
LEMMA LeaseInvariant == LeaseSpec => []LeaseIInv
BY LeaseInitInv, LeaseInvStep, PTL DEF LeaseSpec

\* The lease row, the fences, the calls in flight and the log are well typed.
THEOREM TypeCorrect == LeaseSpec => []LeaseTypeOK
BY LeaseInvariant, PTL DEF LeaseIInv

\* No write of an older grant follows a write of a newer one, and all writes
\* under one token have one author: appendEvents after a takeover is refused
\* however long its caller was paused.
THEOREM WritesAreFenced == LeaseSpec => []LogIsFenced
BY LeaseInvariant, PTL DEF LeaseIInv, LeaseInv

\* recorded_at never goes back along the log although it is read before the
\* write lock is taken.
THEOREM WritesAreInOrder == LeaseSpec => []RecordedInOrder
BY LeaseInvariant, PTL DEF LeaseIInv, LeaseInv

\* A lease changes hands only when the machine's clock has reached its end.
THEOREM NoTakeoverBeforeExpiry == LeaseSpec => NoEarlyTakeover
<1>1. LeaseIInv /\ [LeaseNext]_leaseVars => [ownerId' # ownerId => leaseUntil <= clock]_leaseVars
  <2> SUFFICES ASSUME LeaseIInv, LeaseNext, ownerId' # ownerId PROVE leaseUntil <= clock
    BY DEF leaseVars, row
  <2>1. PICK o \in Owners : AcquireWorkspaceLease(o) /\ Grant(o)
    BY DEF LeaseNext, Tick, Begin, AcquireWorkspaceLease, Extend, Refuse, RenewWorkspaceLease,
       ReleaseWorkspaceLease, AppendEvents, OwnerEnds, row
  <2>2. leaseUntil <= now[o] /\ now[o] <= clock
    BY <2>1 DEF Grant, Live, LeaseIInv, LeaseTypeOK, LeaseInv, ClockInv
  <2> QED
    BY <2>2 DEF LeaseIInv, LeaseTypeOK
<1> QED
  BY <1>1, LeaseInvariant, PTL DEF LeaseSpec, NoEarlyTakeover

-----------------------------------------------------------------------------
\* store.ts implements FencedLog: a grant is a new epoch, a fenced append is
\* a write of the holder no older than the log, everything else is invisible.
LEMMA RefinementStep == LeaseIInv /\ [LeaseNext]_leaseVars => [Fencing!FLNext]_(Fencing!flVars)
<1> SUFFICES ASSUME LeaseIInv, [LeaseNext]_leaseVars
             PROVE  Fencing!FLNext \/ UNCHANGED <<fencingToken, ownerId, log>>
  BY DEF Fencing!flVars
<1>1. ASSUME NEW o \in Owners, AcquireWorkspaceLease(o)
      PROVE  Fencing!FLNext \/ UNCHANGED <<fencingToken, ownerId, log>>
  <2>1. CASE Grant(o)
    BY <1>1, <2>1 DEF AcquireWorkspaceLease, Grant, Fencing!FLNext, Fencing!Grant
  <2>2. CASE Extend(o) \/ Refuse(o)
    BY <1>1, <2>2 DEF AcquireWorkspaceLease, Extend, Refuse, row
  <2> QED
    BY <1>1, <2>1, <2>2 DEF AcquireWorkspaceLease
<1>2. ASSUME NEW o \in Owners, AppendEvents(o)
      PROVE  Fencing!FLNext \/ UNCHANGED <<fencingToken, ownerId, log>>
  <2>1. CASE Fenced(o)
    <3>1. fence[o] = fencingToken /\ ownerId = o
      BY <2>1 DEF Fenced
    <3>2. now[o] \in 0..MaxClock
      BY LeaseAssumption DEF LeaseIInv, LeaseTypeOK, LeaseInv, ClockInv
    <3>3. \A i \in DOMAIN log : log[i].recordedAt <= now[o]
      BY <1>2, <3>1 DEF AppendEvents, LeaseIInv, LeaseInv, LogInv
    <3>4. Fencing!Write(now[o])
      BY <1>2, <2>1, <3>1, <3>3 DEF AppendEvents, row, Fencing!Write, Fencing!NotBefore
    <3> QED
      BY <3>2, <3>4 DEF Fencing!FLNext
  <2>2. CASE ~Fenced(o)
    BY <1>2, <2>2 DEF AppendEvents, row
  <2> QED
    BY <2>1, <2>2
<1> QED
  BY <1>1, <1>2 DEF LeaseNext, leaseVars, row, Tick, Begin, RenewWorkspaceLease,
     ReleaseWorkspaceLease, OwnerEnds

THEOREM Refinement == LeaseSpec => ImplementsFencedLog
<1>1. LeaseInit => Fencing!FLInit
  BY LeaseAssumption DEF LeaseInit, Fencing!FLInit
<1> QED
  BY <1>1, RefinementStep, LeaseInvariant, PTL DEF LeaseSpec, ImplementsFencedLog, Fencing!FLSpec

-----------------------------------------------------------------------------
\* Where a process has a command in hand that it may still write for.
Handling == {"stored", "accepted", "claimed", "checked", "leased", "running"}

\* A command in hand was accepted before (acceptCommand, claimCommand).
InHand == \A p \in Procs : pc[p] \in Handling => cmd[p] \in Commands /\ status[cmd[p]] # "none"

IInv == TypeOK /\ InHand /\ LedgerHolds

-----------------------------------------------------------------------------
\* Type correctness.
LEMMA InitInv == Init => IInv
<1> SUFFICES ASSUME Init PROVE IInv
  OBVIOUS
<1>1. TypeOK
  BY DEF Init, TypeOK, Holders, Statuses, Steps, Terminal
<1>2. InHand /\ ExecutesUnsettled /\ LedgerAgrees
  BY DEF Init, InHand, Handling, ExecutesUnsettled, LedgerAgrees, Terminal
<1> QED
  BY <1>1, <1>2 DEF IInv, LedgerHolds

LEMMA TypeStep == IInv /\ [Next]_vars => TypeOK'
<1> SUFFICES ASSUME IInv, [Next]_vars PROVE TypeOK'
  OBVIOUS
<1> USE DEF IInv, TypeOK, Holders, Statuses, Steps, Terminal, rows, Goto, GoIdle
<1>0. Listed \subseteq Commands
  BY DEF Listed
<1>1. ASSUME NEW p \in Procs, Post(p) PROVE TypeOK'
  BY <1>0, <1>1 DEF Post
<1>2. ASSUME NEW p \in Procs, AcceptCommand(p) PROVE TypeOK'
  <2>1. CASE lease = p
    <3>1. PICK c \in Commands \ Listed :
             Accepted(c) /\ cmd' = [cmd EXCEPT ![p] = c] /\ pc' = [pc EXCEPT ![p] = "stored"]
      BY <1>2, <2>1 DEF AcceptCommand
    <3>2. queue' \in Seq(Commands)
      BY <3>1 DEF Accepted
    <3> QED
      BY <1>2, <3>1, <3>2 DEF AcceptCommand, Accepted
  <2> QED
    BY <1>2, <2>1 DEF AcceptCommand
<1>3. ASSUME NEW p \in Procs, ClaimNextCommand(p) PROVE TypeOK'
  BY <1>3 DEF ClaimNextCommand, Claim
<1>4. ASSUME NEW p \in Procs, ClaimCommand(p) PROVE TypeOK'
  <2>1. cmd[p] \in Commands
    BY <1>4 DEF ClaimCommand, InHand, Handling
  <2> QED
    BY <1>4, <2>1 DEF ClaimCommand, Claim
<1>5. ASSUME NEW p \in Procs, CheckCommand(p) PROVE TypeOK'
  BY <1>5 DEF CheckCommand
<1>6. ASSUME NEW p \in Procs, AcquireLease(p) PROVE TypeOK'
  BY <1>6 DEF AcquireLease
<1>7. ASSUME NEW p \in Procs, RecordDispatching(p) PROVE TypeOK'
  BY <1>7 DEF RecordDispatching
<1>8. ASSUME NEW p \in Procs, RecordOutcome(p) PROVE TypeOK'
  BY <1>8 DEF RecordOutcome, Outcomes
<1>9. ASSUME NEW p \in Procs, ReleaseLease(p) PROVE TypeOK'
  BY <1>9 DEF ReleaseLease
<1>10. ASSUME NEW p \in Procs, HeartbeatFails(p) \/ Abort(p) PROVE TypeOK'
  BY <1>10 DEF HeartbeatFails, Abort
<1>11. ASSUME NEW p \in Procs, Crash(p) PROVE TypeOK'
  BY <1>11 DEF Crash
<1>12. CASE ExpireLease
  BY <1>12 DEF ExpireLease
<1>13. ASSUME NEW c \in Commands, ExpireClaim(c) PROVE TypeOK'
  BY <1>13 DEF ExpireClaim
<1>14. CASE UNCHANGED vars
  BY <1>14 DEF vars
<1> QED
  BY <1>1, <1>2, <1>3, <1>4, <1>5, <1>6, <1>7, <1>8, <1>9, <1>10, <1>11, <1>12, <1>13, <1>14
     DEF Next, Advance

-----------------------------------------------------------------------------
\* A process in hand of a command keeps one that was accepted: a row is never
\* removed (acceptCommand inserts it, everything else updates it).
LEMMA InHandStep == IInv /\ [Next]_vars => InHand'
<1> SUFFICES ASSUME IInv, [Next]_vars, NEW q \in Procs, pc'[q] \in Handling
             PROVE  cmd'[q] \in Commands /\ status'[cmd'[q]] # "none"
  BY DEF InHand
<1>0. Listed = {c \in Commands : status[c] # "none"}
  BY DEF Listed
<1> USE DEF IInv, TypeOK, InHand, Handling, rows, Goto, GoIdle
<1>1. ASSUME NEW p \in Procs, Post(p)
      PROVE  cmd'[q] \in Commands /\ status'[cmd'[q]] # "none"
  BY <1>0, <1>1 DEF Post
<1>2. ASSUME NEW p \in Procs, AcceptCommand(p)
      PROVE  cmd'[q] \in Commands /\ status'[cmd'[q]] # "none"
  BY <1>0, <1>2 DEF AcceptCommand, Accepted
<1>3. ASSUME NEW p \in Procs, NEW c \in Commands, Claim(p, c), status[c] # "none"
      PROVE  cmd'[q] \in Commands /\ status'[cmd'[q]] # "none"
  BY <1>3 DEF Claim
<1>4. ASSUME NEW p \in Procs, ClaimNextCommand(p)
      PROVE  cmd'[q] \in Commands /\ status'[cmd'[q]] # "none"
  <2>1. PICK i \in DOMAIN queue : Claimable(queue[i]) /\ Claim(p, queue[i])
    BY <1>4 DEF ClaimNextCommand
  <2> QED
    BY <1>3, <2>1 DEF Claimable
<1>5. ASSUME NEW p \in Procs, ClaimCommand(p)
      PROVE  cmd'[q] \in Commands /\ status'[cmd'[q]] # "none"
  <2>1. CASE Claim(p, cmd[p])
    BY <1>3, <1>5, <2>1 DEF ClaimCommand
  <2>2. CASE UNCHANGED rows /\ GoIdle(p)
    BY <2>2
  <2> QED
    BY <1>5, <2>1, <2>2 DEF ClaimCommand
<1>6. ASSUME NEW p \in Procs, CheckCommand(p) \/ AcquireLease(p) \/ RecordDispatching(p)
      PROVE  cmd'[q] \in Commands /\ status'[cmd'[q]] # "none"
  BY <1>6 DEF CheckCommand, AcquireLease, RecordDispatching
<1>7. ASSUME NEW p \in Procs, RecordOutcome(p)
      PROVE  cmd'[q] \in Commands /\ status'[cmd'[q]] # "none"
  BY <1>7 DEF RecordOutcome, Outcomes, Terminal
<1>8. ASSUME NEW p \in Procs, ReleaseLease(p) \/ HeartbeatFails(p) \/ Abort(p) \/ Crash(p)
      PROVE  cmd'[q] \in Commands /\ status'[cmd'[q]] # "none"
  BY <1>8 DEF ReleaseLease, HeartbeatFails, Abort, Crash
<1>9. CASE ExpireLease \/ \E c \in Commands : ExpireClaim(c)
  BY <1>9 DEF ExpireLease, ExpireClaim
<1>10. CASE UNCHANGED vars
  BY <1>10 DEF vars
<1> QED
  BY <1>1, <1>2, <1>4, <1>5, <1>6, <1>7, <1>8, <1>9, <1>10 DEF Next, Advance

-----------------------------------------------------------------------------
Accepts ==
  \E p \in Procs, c \in Commands \ Listed :
    lease = p /\ Accepted(c) /\ pc' = [pc EXCEPT ![p] = "stored"] /\ UNCHANGED lease
Claims == \E p \in Procs, c \in Commands : status[c] \in {"pending", "dispatching"} /\ Claim(p, c)
Dispatches ==
  \E p \in Procs : RecordDispatching(p) /\ cmd[p] \in Commands /\ status[cmd[p]] # "none"
Records ==
  \E p \in Procs : RecordOutcome(p) /\ cmd[p] \in Commands /\ status[cmd[p]] # "none"
LeavesAlone ==
  /\ UNCHANGED <<queue, status, lastEvent>>
  /\ \A p \in Procs : pc'[p] = "running" /\ lease' = p =>
                        pc[p] = "running" /\ lease = p /\ cmd'[p] = cmd[p]

\* What a step does to rows and log: it accepts a new command, claims one that
\* is not settled, appends 'dispatching' for one that is not settled, settles
\* or reopens one under the lease, or leaves them alone.
LEMMA LedgerStep ==
  ASSUME IInv, [Next]_vars
  PROVE  Accepts \/ Claims \/ Dispatches \/ Records \/ LeavesAlone
<1> USE DEF IInv, TypeOK, rows, Goto, GoIdle
<1>0. \A p \in Procs : p # None /\ p # Lost
  BY DispatchAssumption DEF Procs
<1>1. ASSUME NEW p \in Procs, Post(p) \/ CheckCommand(p) \/ AcquireLease(p) \/ ReleaseLease(p)
      PROVE  LeavesAlone
  BY <1>0, <1>1 DEF Post, CheckCommand, AcquireLease, ReleaseLease, LeavesAlone
<1>2. ASSUME NEW p \in Procs, HeartbeatFails(p) \/ Abort(p) \/ Crash(p)
      PROVE  LeavesAlone
  BY <1>0, <1>2 DEF HeartbeatFails, Abort, Crash, LeavesAlone
<1>3. CASE ExpireLease \/ (\E c \in Commands : ExpireClaim(c)) \/ UNCHANGED vars
  BY <1>0, <1>3 DEF ExpireLease, ExpireClaim, vars, LeavesAlone
<1>4. ASSUME NEW p \in Procs, AcceptCommand(p) PROVE Accepts \/ LeavesAlone
  BY <1>4 DEF AcceptCommand, Accepts, LeavesAlone
<1>5. ASSUME NEW p \in Procs, ClaimNextCommand(p) PROVE Claims
  <2>1. PICK i \in DOMAIN queue : Claimable(queue[i]) /\ Claim(p, queue[i])
    BY <1>5 DEF ClaimNextCommand
  <2> QED
    BY <2>1 DEF Claimable, Claims
<1>6. ASSUME NEW p \in Procs, ClaimCommand(p) PROVE Claims \/ LeavesAlone
  <2>1. cmd[p] \in Commands
    BY <1>6 DEF ClaimCommand, InHand, Handling
  <2>2. CASE Claimable(cmd[p]) /\ Claim(p, cmd[p])
    BY <2>1, <2>2 DEF Claimable, Claims
  <2>3. CASE GoIdle(p) /\ UNCHANGED <<rows, lease>>
    BY <2>3 DEF LeavesAlone
  <2> QED
    BY <1>6, <2>2, <2>3 DEF ClaimCommand
<1>7. ASSUME NEW p \in Procs, RecordDispatching(p) PROVE Dispatches
  BY <1>7 DEF RecordDispatching, InHand, Handling, Dispatches
<1>8. ASSUME NEW p \in Procs, RecordOutcome(p) PROVE Records
  BY <1>8 DEF RecordOutcome, InHand, Handling, Records
<1>9. Next \/ UNCHANGED vars
  OBVIOUS
<1> QED
  BY ONLY <1>1, <1>2, <1>3, <1>4, <1>5, <1>6, <1>7, <1>8, <1>9 DEF Next, Advance

-----------------------------------------------------------------------------
LEMMA ExecutesStep == IInv /\ [Next]_vars => ExecutesUnsettled'
<1> SUFFICES ASSUME IInv, [Next]_vars, NEW q \in Procs, pc'[q] = "running", lease' = q
             PROVE  status'[cmd'[q]] \notin Terminal
  BY DEF ExecutesUnsettled
<1>0. cmd'[q] \in Commands
  BY InHandStep DEF InHand, Handling
<1> USE <1>0 DEF IInv, TypeOK, LedgerHolds, ExecutesUnsettled, Terminal, Goto
<1>1. CASE Accepts
  BY <1>1 DEF Accepts
<1>2. CASE Claims
  BY <1>2 DEF Claims, Claim
<1>3. CASE Dispatches
  BY <1>3 DEF Dispatches, RecordDispatching
<1>4. CASE Records
  BY <1>4 DEF Records, RecordOutcome
<1>5. CASE LeavesAlone
  BY <1>5 DEF LeavesAlone
<1> QED
  BY <1>1, <1>2, <1>3, <1>4, <1>5, LedgerStep

\* Row and log.
LEMMA AgreesStep == IInv /\ [Next]_vars => LedgerAgrees'
<1> SUFFICES ASSUME IInv, [Next]_vars PROVE LedgerAgrees'
  OBVIOUS
<1> USE DEF IInv, TypeOK, LedgerHolds, Terminal, Statuses, Goto
<1>1. CASE Accepts
  <2>1. PICK c \in Commands \ Listed : Accepted(c)
    BY <1>1 DEF Accepts
  <2>2. status[c] = "none" /\ lastEvent[c] = "none"
    BY <2>1 DEF Listed, LedgerAgrees
  <2>3. /\ Len(queue) \in Nat /\ DOMAIN queue = 1..Len(queue)
        /\ DOMAIN queue' = 1..(Len(queue) + 1)
        /\ \A i \in 1..Len(queue) : queue'[i] = queue[i] /\ queue[i] # c
        /\ queue'[Len(queue) + 1] = c
    BY <2>1, <2>2 DEF Accepted, LedgerAgrees
  <2>4. /\ \A i, j \in DOMAIN queue' : queue'[i] = queue'[j] => i = j
    BY <2>3 DEF LedgerAgrees
  <2>5. ASSUME NEW d \in Commands
        PROVE  /\ status'[d] \in Terminal \/ lastEvent'[d] \in Terminal
                    => lastEvent'[d] = status'[d]
               /\ lastEvent'[d] = "none" <=> status'[d] = "none"
    BY <2>1, <2>2 DEF Accepted, LedgerAgrees
  <2>6. ASSUME NEW d \in Commands
        PROVE  status'[d] # "none" <=> \E i \in DOMAIN queue' : queue'[i] = d
    <3>1. CASE d = c
      <4>1. status'[d] = "pending"
        BY <2>1, <3>1 DEF Accepted
      <4>2. Len(queue) + 1 \in DOMAIN queue' /\ queue'[Len(queue) + 1] = d
        BY <2>3, <3>1
      <4> QED
        BY <4>1, <4>2
    <3>2. CASE d # c
      BY <2>1, <2>3, <3>2 DEF Accepted, LedgerAgrees
    <3> QED
      BY <3>1, <3>2
  <2> QED
    BY <2>4, <2>5, <2>6 DEF LedgerAgrees
<1>2. CASE Claims
  BY <1>2 DEF Claims, Claim, LedgerAgrees
<1>3. CASE Dispatches
  BY <1>3 DEF Dispatches, RecordDispatching, LedgerAgrees
<1>4. CASE Records
  BY <1>4 DEF Records, RecordOutcome, Outcomes, LedgerAgrees
<1>5. CASE LeavesAlone
  BY <1>5 DEF LeavesAlone, LedgerAgrees
<1> QED
  BY <1>1, <1>2, <1>3, <1>4, <1>5, LedgerStep

-----------------------------------------------------------------------------
LEMMA Invariant == Spec => []IInv
<1>1. IInv /\ [Next]_vars => IInv'
  BY TypeStep, InHandStep, ExecutesStep, AgreesStep DEF IInv, LedgerHolds
<1> QED
  BY InitInv, <1>1, PTL DEF Spec

\* The outbox rows and the event log agree on every command, each waits in the
\* queue once, and who can still write works for a command that is not settled
\* (acceptCommand, executeCommand, recordCommandStatus).
THEOREM LedgerIsTrue == Spec => []LedgerHolds
BY Invariant, PTL DEF IInv

\* A settled command keeps its outcome in row and log (recordCommandStatus
\* refuses what comes late, claims pass it by).
THEOREM SettledStays == Spec => SettledIsFinal
<1>1. IInv /\ [Next]_vars =>
        [\A c \in Commands : status[c] \in Terminal =>
            status'[c] = status[c] /\ lastEvent'[c] = lastEvent[c]]_vars
  <2> SUFFICES ASSUME IInv, [Next]_vars, NEW c \in Commands, status[c] \in Terminal
               PROVE  status'[c] = status[c] /\ lastEvent'[c] = lastEvent[c]
    OBVIOUS
  <2> USE DEF IInv, TypeOK, LedgerHolds, Terminal, Statuses, Goto
  <2>1. CASE Accepts
    BY <2>1 DEF Accepts, Accepted, Listed
  <2>2. CASE Claims
    BY <2>2 DEF Claims, Claim
  <2>3. CASE Dispatches
    BY <2>3 DEF Dispatches, RecordDispatching
  <2>4. CASE Records
    BY <2>4 DEF Records, RecordOutcome
  <2>5. CASE LeavesAlone
    BY <2>5 DEF LeavesAlone
  <2> QED
    BY <2>1, <2>2, <2>3, <2>4, <2>5, LedgerStep
<1> QED
  BY <1>1, Invariant, PTL DEF Spec, SettledIsFinal
=============================================================================
