--------------------------- MODULE WorkspaceLease ---------------------------
(***************************************************************************)
(* The lease row of one workspace and the writes it fences (store.ts).     *)
(*                                                                         *)
(* Every store call reads the wall clock BEFORE it waits for the SQLite    *)
(* write lock (BEGIN IMMEDIATE, busy_timeout 5 s), so the transaction      *)
(* decides with a timestamp that may be stale.  A call is therefore two    *)
(* steps here: Begin reads the clock, the named action is the transaction. *)
(* Owners are sequential clients: node:sqlite is synchronous and an owner  *)
(* id is a fresh UUID of one process (engine.ts, #withLease).              *)
(***************************************************************************)
EXTENDS Naturals, Sequences

CONSTANTS Owners,     \* lease owners
          NoOwner,    \* the workspace has no lease row yet
          Ttl,        \* LEASE_TTL_MS, in clock units
          MaxClock,   \* bound on the clock
          MaxToken,   \* no acquire begins at this token: bound on grants
          MaxLog      \* bound on the number of fenced writes

ASSUME LeaseAssumption ==
  /\ NoOwner \notin Owners
  /\ Ttl \in Nat \ {0}
  /\ MaxClock \in Nat
  /\ MaxToken \in Nat
  /\ MaxLog \in Nat

VARIABLES clock,         \* the machine's wall clock
          ownerId,       \* the three columns of the workspace_leases row
          fencingToken,
          leaseUntil,
          fence,         \* fence[o]: the token o was given, 0 if it holds none
          call,          \* call[o]: the store call o has begun
          now,           \* now[o]: the clock as that call read it
          log            \* fenced writes, in commit order

row == <<ownerId, fencingToken, leaseUntil>>
leaseVars == <<clock, row, fence, call, now, log>>

Calls == {"acquire", "renew", "release", "append"}
Entry == [token : Nat, owner : Owners, recordedAt : Nat]

LeaseTypeOK ==
  /\ clock \in Nat
  /\ ownerId \in Owners \cup {NoOwner}
  /\ fencingToken \in Nat
  /\ leaseUntil \in Nat
  /\ fence \in [Owners -> Nat]
  /\ call \in [Owners -> Calls \cup {"none"}]
  /\ now \in [Owners -> Nat]
  /\ log \in Seq(Entry)

LeaseInit ==
  /\ clock = 0
  /\ ownerId = NoOwner
  /\ fencingToken = 0
  /\ leaseUntil = 0
  /\ fence = [o \in Owners |-> 0]
  /\ call = [o \in Owners |-> "none"]
  /\ now = [o \in Owners |-> 0]
  /\ log = <<>>

-----------------------------------------------------------------------------
Tick ==
  /\ clock < MaxClock
  /\ clock' = clock + 1
  /\ UNCHANGED <<row, fence, call, now, log>>

\* const nowMs = this.#now(): the timestamp the transaction will use.  All
\* calls but acquire are made with the fence of an earlier acquire.
Begin(o, c) ==
  /\ call[o] = "none"
  /\ c = "acquire" <=> fence[o] = 0
  /\ c = "append" => Len(log) < MaxLog
  /\ c = "acquire" => fencingToken < MaxToken
  /\ call' = [call EXCEPT ![o] = c]
  /\ now' = [now EXCEPT ![o] = clock]
  /\ UNCHANGED <<clock, row, fence, log>>

\* The call returns or throws; its timestamp is forgotten.
Done(o) ==
  /\ call' = [call EXCEPT ![o] = "none"]
  /\ now' = [now EXCEPT ![o] = 0]

\* Mutant: a contender lets a lease die one unit before it ends.
LiveWithMargin(o) == leaseUntil > now[o] + 1

Live(o) == leaseUntil > now[o]

\* Mutant: a fence check that looks at the expiry and not at the identity.
FencedByExpiry(o) == Live(o)

\* #assertFence
Fenced(o) ==
  /\ ownerId = o
  /\ fencingToken = fence[o]
  /\ Live(o)

\* acquireWorkspaceLease: a live lease is extended for its owner and refused
\* to others; a dead one is replaced under the next token.
Extend(o) ==
  /\ Live(o) /\ ownerId = o
  /\ leaseUntil' = now[o] + Ttl
  /\ fence' = [fence EXCEPT ![o] = fencingToken]
  /\ UNCHANGED <<ownerId, fencingToken>>

Refuse(o) ==
  /\ Live(o) /\ ownerId # o
  /\ UNCHANGED <<row, fence>>

Grant(o) ==
  /\ ~Live(o)
  /\ ownerId' = o
  /\ fencingToken' = fencingToken + 1
  /\ leaseUntil' = now[o] + Ttl
  /\ fence' = [fence EXCEPT ![o] = fencingToken + 1]

AcquireWorkspaceLease(o) ==
  /\ call[o] = "acquire"
  /\ Extend(o) \/ Refuse(o) \/ Grant(o)
  /\ Done(o)
  /\ UNCHANGED <<clock, log>>

\* renewWorkspaceLease; a stale fence throws and changes nothing.
RenewWorkspaceLease(o) ==
  /\ call[o] = "renew"
  /\ leaseUntil' = IF Fenced(o) THEN now[o] + Ttl ELSE leaseUntil
  /\ Done(o)
  /\ UNCHANGED <<clock, ownerId, fencingToken, fence, log>>

\* Mutant: the row is deleted on release, so that tokens start again at 1.
ReleaseDeletesRow(o) ==
  /\ call[o] = "release"
  /\ IF Fenced(o)
       THEN ownerId' = NoOwner /\ fencingToken' = 0 /\ leaseUntil' = 0
       ELSE UNCHANGED row
  /\ fence' = [fence EXCEPT ![o] = 0]
  /\ Done(o)
  /\ UNCHANGED <<clock, log>>

\* Mutant: a lease is released by dating it back one Ttl.
ReleaseBackdates(o) ==
  /\ call[o] = "release"
  /\ leaseUntil' = IF Fenced(o) THEN now[o] - Ttl ELSE leaseUntil
  /\ fence' = [fence EXCEPT ![o] = 0]
  /\ Done(o)
  /\ UNCHANGED <<clock, ownerId, fencingToken, log>>

\* releaseWorkspaceLease, as the finally block of #withLease calls it: the
\* row keeps its token, a stale fence is swallowed, the owner forgets it.
ReleaseWorkspaceLease(o) ==
  /\ call[o] = "release"
  /\ leaseUntil' = IF Fenced(o) THEN 0 ELSE leaseUntil
  /\ fence' = [fence EXCEPT ![o] = 0]
  /\ Done(o)
  /\ UNCHANGED <<clock, ownerId, fencingToken, log>>

\* appendEvents (and acceptCommand, recordCommandStatus): the fence check
\* and the insert share one transaction; recorded_at is the stale clock.
AppendEvents(o) ==
  /\ call[o] = "append"
  /\ log' = IF Fenced(o)
            THEN Append(log, [token |-> fence[o], owner |-> o, recordedAt |-> now[o]])
            ELSE log
  /\ Done(o)
  /\ UNCHANGED <<clock, row, fence>>

\* The owner's process ends, before or after a transaction but not inside it.
OwnerEnds(o) ==
  /\ fence' = [fence EXCEPT ![o] = 0]
  /\ Done(o)
  /\ UNCHANGED <<clock, row, log>>

LeaseNext ==
  \/ Tick
  \/ \E o \in Owners :
        \/ \E c \in Calls : Begin(o, c)
        \/ AcquireWorkspaceLease(o)
        \/ RenewWorkspaceLease(o)
        \/ ReleaseWorkspaceLease(o)
        \/ AppendEvents(o)
        \/ OwnerEnds(o)

LeaseSpec == LeaseInit /\ [][LeaseNext]_leaseVars

-----------------------------------------------------------------------------
\* Once a write of a newer grant is in the log, no write of an older grant
\* ever follows it: a paused controller cannot append after its successor
\* (fencing tokens of appendEvents never decrease along the log).
LogIsFenced ==
  \A i, j \in DOMAIN log : i < j =>
    /\ log[i].token <= log[j].token
    /\ log[i].token = log[j].token => log[i].owner = log[j].owner

\* recorded_at follows log order although each writer read its clock before
\* waiting for the write lock.
RecordedInOrder ==
  \A i, j \in DOMAIN log : i < j => log[i].recordedAt <= log[j].recordedAt

\* A lease passes to another owner only at or after its lease_until: a stale
\* clock makes a contender more careful, never early (acquireWorkspaceLease).
NoEarlyTakeover ==
  [][ownerId' # ownerId => leaseUntil <= clock]_leaseVars

\* The abstract log: epochs and their holders, without clock or expiry.
Fencing == INSTANCE FencedLog
             WITH epoch <- fencingToken, holder <- ownerId,
                  Times <- 0..MaxClock

\* Every store transaction is a grant, a write of the current holder, or
\* invisible to the log's readers (store.ts implements FencedLog).
ImplementsFencedLog == Fencing!FLSpec

-----------------------------------------------------------------------------
\* Inductive strengthening: the row carries the newest token, a fence equal
\* to it belongs to its owner, and an append that can still commit was begun
\* after everything in the log.
FenceInv ==
  \A o \in Owners :
    /\ fence[o] <= fencingToken
    /\ fence[o] # 0 /\ fence[o] = fencingToken => ownerId = o
    /\ call[o] \in Calls \ {"acquire"} => fence[o] # 0

ClockInv ==
  /\ clock <= MaxClock
  /\ \A o \in Owners : now[o] <= clock
  /\ ownerId = NoOwner => leaseUntil = 0

LogInv ==
  \A i \in DOMAIN log :
    /\ log[i].token <= fencingToken
    /\ log[i].token = fencingToken => log[i].owner = ownerId
    /\ log[i].recordedAt <= clock
    /\ \A o \in Owners :
          call[o] = "append" /\ fence[o] = fencingToken => log[i].recordedAt <= now[o]

LeaseInv ==
  /\ FenceInv
  /\ ClockInv
  /\ LogInv
  /\ LogIsFenced
  /\ RecordedInOrder
=============================================================================
