---------------------- MODULE OutcomeRegressionProofs ----------------------
(***************************************************************************)
(* Proofs about ExecutionFork and OutcomeRegression, for every set of      *)
(* requests, clients and criteria and every number of trials: the journal  *)
(* of a fork is ahead of the Kernel and of the world, a verified receipt   *)
(* claims nothing that is open, a recorded rerun is whole and passes for   *)
(* every trial or not at all, and what was selected stands.                *)
(***************************************************************************)
EXTENDS OutcomeRegression, FiniteSetTheorems, WellFoundedInduction, TLAPS

-----------------------------------------------------------------------------
(* The inductive invariant.                                                *)

\* The Attempts or Effects that the log names in events of a type, and the number of
\* events of a fork that it holds.
Named(h, type) == {h[i].id : i \in Events(h, type)}
Bridged(h, f) == Cardinality(Of(h, "fork", f))

\* Every event but the checkpoint is about a fork, and an Effect has one of the
\* statuses that a fork reports.
LogInv ==
  \A i \in DOMAIN log :
    /\ log[i].type # "checkpoint" => log[i].id \in Forks
    /\ log[i].type = "effect" => log[i].value \in Reported

\* What the log says of a fork begins with its plan, and only one fork of a branch
\* gets that far.  Between its start and its end an Attempt has its Effect at
\* dispatch_started.
KernelInv ==
  \A f \in Forks :
    /\ Bridged(log, f) = 0 =>
         f \notin UNION {Named(log, t) : t \in {"effect", "attempt.plan", "attempt.started",
                                               "attempt.finished", "receipt"}}
    /\ Bridged(log, f) > 0 => Branch(f) \in Branches(log) /\ f \in Named(log, "attempt.plan")
    /\ f \in StartedAttempts(log) \ Named(log, "attempt.finished") =>
         f \in Effects(log) /\ EffectStatus(log, f) = "dispatch_started"
    /\ \A g \in Forks :
         Bridged(log, f) > 0 /\ Bridged(log, g) > 0 /\ Branch(f) = Branch(g) => f = g

\* Where a run is with the event of a fork that it appends.
Appending(r, event) == run[r].step \in {"write", "bridge"} /\ run[r].event = event

\* Where a run is, its fork's journal is ahead of the log by as much as its step
\* says; forks of later trials have none.
Writes(r) ==
  LET f == Own(r)  step == run[r].step  event == run[r].event
      ahead == Len(journal[f]) - Bridged(log, f)
  IN /\ r \in Plain => run[r].trial = 1 /\ step \notin {"start", "settle", "save", "saved"}
     /\ \A g \in Forks : g[1] = r /\ g[2] > run[r].trial => journal[g] = <<>>
     /\ step \in {"start", "resolve", "resolved", "prepare"} => journal[f] = <<>>
     /\ step \in {"write", "bridge"} => (event = "fork.planned" <=> Bridged(log, f) = 0)
     /\ step = "write" => ahead = 0 \/ (event = "fork.failed" /\ ahead = 1)
     /\ step = "bridge" =>
          /\ journal[f] # <<>> /\ Last(journal[f]) = event
          /\ ahead = 1 \/ (event = "fork.failed" /\ ahead = 2)
     /\ step \in {"checkout", "runtime", "receipt"} => ahead = 0 /\ Bridged(log, f) > 0

\* What the run has brought about is in the log, and what it is about to say is not.
Reports(r) ==
  LET f == Own(r)  step == run[r].step
      at(events) == \E event \in events : Appending(r, event)
      dispatched == \/ step \in {"checkout", "runtime"}
                    \/ at({"worktree.created", "runtime.started", "runtime.completed",
                           "runtime.failed"})
      unstarted == \/ step = "checkout"
                   \/ at({"worktree.create-started", "worktree.created", "runtime.started"})
  IN /\ dispatched => f \in Effects(log) /\ EffectStatus(log, f) = "dispatch_started"
     /\ unstarted => f \notin StartedAttempts(log)
     /\ step = "runtime" => f \in StartedAttempts(log)
     /\ at({"receipt-input.ready"}) => f \in Named(log, "attempt.finished")
     /\ step = "receipt" /\ Last(journal[f]) = "receipt-input.ready" =>
          f \in Effects(log) /\ EffectStatus(log, f) = "confirmed"
     /\ step \in {"write", "bridge", "checkout", "runtime", "receipt"} =>
          f \notin Named(log, "receipt")

\* A receipt is for the branch of a fork that the log knows.
ReceiptInv ==
  \A i \in Events(log, "receipt") :
    log[i].branch = Branch(log[i].id) /\ Bridged(log, log[i].id) > 0

IInv ==
  /\ TypeOK /\ LogInv /\ KernelInv /\ ReceiptInv
  /\ \A r \in Runs : Writes(r) /\ Reports(r)
  /\ EvidenceLeads /\ ReceiptsHold

-----------------------------------------------------------------------------
(* The log and what is read out of it, when events are appended.           *)

\* A bounded set of numbers has a greatest member: of the distances to the bound
\* one is least.
LEMMA LastIsMember ==
  ASSUME NEW n \in Nat, NEW S \in SUBSET (1..n), S # {}
  PROVE  LastOf(S) \in S /\ \A i \in S : i <= LastOf(S)
<1> DEFINE R == OpToRel(<, Nat)
           T == {k \in 0..n : n - k \in S}
<1>1. IsWellFoundedOn(R, Nat)
  BY NatLessThanWellFounded
<1>2. ASSUME NEW x \in Nat, NEW y \in Nat, x < y
      PROVE  <<x, y>> \in R
  BY <1>2 DEF OpToRel
<1> HIDE DEF R
<1>3. T \in SUBSET Nat /\ \A i \in S : n - i \in T
  OBVIOUS
<1>4. PICK m \in T : \A k \in T : ~(<<k, m>> \in R)
  BY <1>1, <1>3, WFMin
<1>5. m \in Nat /\ n - m \in S
  OBVIOUS
<1>6. \A k \in T : ~(k < m)
  BY <1>2, <1>3, <1>4, <1>5
<1>7. ASSUME NEW j \in S
      PROVE  j <= n - m
  <2>1. ~(n - j < m)
    BY <1>3, <1>6
  <2> QED BY <1>5, <2>1
<1> QED BY <1>5, <1>7 DEF LastOf

LEMMA LastIsGreatest ==
  ASSUME NEW n \in Nat, NEW S \in SUBSET (1..n), n \in S
  PROVE  LastOf(S) = n
<1>1. PICK l : l = LastOf(S)
  OBVIOUS
<1>2. l \in S /\ \A i \in S : i <= l
  BY <1>1, LastIsMember
<1>3. l \in 1..n /\ n <= l
  BY <1>2
<1> QED BY <1>1, <1>3

LEMMA Extended ==
  ASSUME NEW h \in Seq(LogEvent), NEW b \in Seq(LogEvent)
  PROVE  /\ h \o b \in Seq(LogEvent)
         /\ Len(h) \in Nat /\ Len(b) \in Nat /\ Len(h \o b) = Len(h) + Len(b)
         /\ DOMAIN h = 1..Len(h) /\ DOMAIN b = 1..Len(b)
         /\ DOMAIN (h \o b) = 1..(Len(h) + Len(b))
         /\ \A i \in 1..Len(h) : (h \o b)[i] = h[i]
         /\ \A i \in 1..Len(b) : (h \o b)[Len(h) + i] = b[i]
         /\ \A n \in 0..Len(h) : SubSeq(h \o b, 1, n) = SubSeq(h, 1, n)
  OBVIOUS

\* The events of a type are those of both.
LEMMA EventsGrow ==
  ASSUME NEW h \in Seq(LogEvent), NEW b \in Seq(LogEvent), NEW type
  PROVE  /\ Events(h \o b, type) = Events(h, type) \cup {Len(h) + i : i \in Events(b, type)}
         /\ Events(h, type) \subseteq 1..Len(h) /\ Events(b, type) \subseteq 1..Len(b)
<1> DEFINE k == h \o b
<1>1. /\ Len(h) \in Nat /\ Len(b) \in Nat
      /\ DOMAIN h = 1..Len(h) /\ DOMAIN b = 1..Len(b) /\ DOMAIN k = 1..(Len(h) + Len(b))
      /\ \A i \in 1..Len(h) : k[i] = h[i]
      /\ \A i \in 1..Len(b) : k[Len(h) + i] = b[i]
  BY Extended
<1> HIDE DEF k
<1>2. ASSUME NEW i \in Events(k, type), i \notin Events(h, type)
      PROVE  i \in {Len(h) + n : n \in Events(b, type)}
  <2>1. i \in 1..(Len(h) + Len(b)) /\ i \notin 1..Len(h)
    BY <1>1, <1>2 DEF Events
  <2>2. PICK n \in 1..Len(b) : i = Len(h) + n
    <3>1. i - Len(h) \in 1..Len(b) /\ i = Len(h) + (i - Len(h))
      BY <1>1, <2>1
    <3> QED BY <3>1
  <2> QED BY <1>1, <1>2, <2>2 DEF Events
<1>3. ASSUME NEW n \in Events(b, type)
      PROVE  Len(h) + n \in Events(k, type)
  BY <1>1 DEF Events
<1>4. Events(h, type) \subseteq Events(k, type)
  BY <1>1 DEF Events
<1> QED BY <1>1, <1>2, <1>3, <1>4 DEF Events, k

LEMMA ViewsGrow ==
  ASSUME NEW h \in Seq(LogEvent), NEW b \in Seq(LogEvent)
  PROVE  /\ \A type : Named(h \o b, type) = Named(h, type) \cup Named(b, type)
         /\ \A type, x : Of(h \o b, type, x)
                           = Of(h, type, x) \cup {Len(h) + i : i \in Of(b, type, x)}
         /\ Branches(h \o b)
              = Branches(h) \cup {b[i].branch : i \in Events(b, "branch.created")}
<1> DEFINE k == h \o b
<1>1. /\ \A i \in 1..Len(h) : k[i] = h[i]
      /\ \A i \in 1..Len(b) : k[Len(h) + i] = b[i]
  BY Extended
<1>2. ASSUME NEW type
      PROVE  /\ Events(k, type) = Events(h, type) \cup {Len(h) + i : i \in Events(b, type)}
             /\ \A i \in Events(h, type) : k[i] = h[i]
             /\ \A i \in Events(b, type) : k[Len(h) + i] = b[i]
  BY <1>1, EventsGrow
<1> HIDE DEF k
<1>3. ASSUME NEW type PROVE Named(k, type) = Named(h, type) \cup Named(b, type)
  BY <1>2 DEF Named
<1>4. ASSUME NEW type, NEW x
      PROVE  Of(k, type, x) = Of(h, type, x) \cup {Len(h) + i : i \in Of(b, type, x)}
  BY <1>2 DEF Of
<1>5. Branches(k) = Branches(h) \cup {b[i].branch : i \in Events(b, "branch.created")}
  BY <1>2 DEF Branches
<1> QED BY <1>3, <1>4, <1>5 DEF k

LEMMA NamedSets ==
  \A h : /\ Effects(h) = Named(h, "effect") /\ StartedAttempts(h) = Named(h, "attempt.started")
         /\ OpenAttempts(h) = Named(h, "attempt.plan") \ Named(h, "attempt.finished")
BY DEF Effects, StartedAttempts, OpenAttempts, Named

\* The batches of this system: no two events of a type, all about one fork, whose
\* own event comes first.
Batch(b, f) ==
  /\ b \in Seq(LogEvent)
  /\ \A i \in DOMAIN b : b[i].id = f
  /\ \A i, j \in DOMAIN b : b[i].type = b[j].type => i = j
  /\ Events(b, "fork") \in {{}, {1}}

\* The Effect of an event of a fork.
Told(event) ==
  CASE event = "fork.planned" -> {"intended"}
    [] event = "worktree.create-started" -> {"dispatch_started"}
    [] event = "runtime.completed" -> {"executed"}
    [] event = "runtime.failed" -> {"failed"}
    [] event = "receipt-input.ready" -> {"confirmed"}
    [] OTHER -> {}

\* What a batch says of an event of a fork.
Lone(f, given) == IF given THEN {f} ELSE {}
Tells(b, f, event) ==
  /\ Batch(b, f)
  /\ Events(b, "fork") = {1} /\ b[1].value = event /\ 1 \in DOMAIN b
  /\ \A i \in Events(b, "effect") : {b[i].value} = Told(event)
  /\ Named(b, "effect") = Lone(f, Told(event) # {})
  /\ Named(b, "attempt.plan") = Lone(f, event = "fork.planned")
  /\ Named(b, "attempt.started") = Lone(f, event = "runtime.started")
  /\ Named(b, "attempt.finished") = Lone(f, event \in {"runtime.completed", "runtime.failed"})
  /\ {b[i].branch : i \in Events(b, "branch.created")} = Lone(Branch(f), event = "fork.planned")
  /\ Events(b, "receipt") = {} /\ Named(b, "receipt") = {}

LEMMA ProjectedTells ==
  ASSUME NEW f \in Forks, NEW event \in ForkEvents, NEW b, b = Projected(f, event)
  PROVE  Tells(b, f, event)
<1> DEFINE is(type, value) == Event(type, Branch(f), f, value)
<1>0. /\ Branch(f) \in {Shared} \cup Forks /\ f \in Forks \cup {Root}
      /\ \A type, value : /\ is(type, value).type = type /\ is(type, value).id = f
                          /\ is(type, value).branch = Branch(f)
                          /\ is(type, value).value = value
  BY DEF Branch, Event
<1>1. /\ is("fork", event) \in LogEvent
      /\ \A value \in Reported : is("effect", value) \in LogEvent
      /\ \A pair \in {<<"branch.created", "active">>, <<"attempt.plan", "planned">>,
                      <<"attempt.bound", "bound">>, <<"attempt.started", "running">>,
                      <<"attempt.finished", "succeeded">>, <<"attempt.finished", "failed">>} :
           is(pair[1], pair[2]) \in LogEvent
  BY <1>0 DEF Event, LogEvent, Reported
<1>2. CASE event = "fork.planned"
  <2>1. b = <<is("fork", event), is("branch.created", "active"),
              is("effect", "intended"), is("attempt.plan", "planned")>>
    BY <1>2 DEF Projected
  <2> HIDE DEF is
  <2>2. /\ b[1] = is("fork", event)
        /\ b[2] = is("branch.created", "active")
        /\ b[3] = is("effect", "intended")
        /\ b[4] = is("attempt.plan", "planned")
    BY <2>1
  <2>3. b \in Seq(LogEvent) /\ DOMAIN b = 1..4
    BY <1>1, <2>1 DEF Reported
  <2> QED BY <1>0, <1>2, <2>2, <2>3 DEF Tells, Batch, Events, Named, Told, Lone
<1>3. CASE event = "worktree.create-started"
  <2>1. b = <<is("fork", event), is("effect", "dispatch_started")>>
    BY <1>3 DEF Projected
  <2> HIDE DEF is
  <2>2. /\ b[1] = is("fork", event)
        /\ b[2] = is("effect", "dispatch_started")
    BY <2>1
  <2>3. b \in Seq(LogEvent) /\ DOMAIN b = 1..2
    BY <1>1, <2>1 DEF Reported
  <2> QED BY <1>0, <1>3, <2>2, <2>3 DEF Tells, Batch, Events, Named, Told, Lone
<1>4. CASE event = "runtime.started"
  <2>1. b = <<is("fork", event), is("attempt.bound", "bound"),
              is("attempt.started", "running")>>
    BY <1>4 DEF Projected
  <2> HIDE DEF is
  <2>2. /\ b[1] = is("fork", event)
        /\ b[2] = is("attempt.bound", "bound")
        /\ b[3] = is("attempt.started", "running")
    BY <2>1
  <2>3. b \in Seq(LogEvent) /\ DOMAIN b = 1..3
    BY <1>1, <2>1 DEF Reported
  <2> QED BY <1>0, <1>4, <2>2, <2>3 DEF Tells, Batch, Events, Named, Told, Lone
<1>5. CASE event = "runtime.completed"
  <2>1. b = <<is("fork", event), is("attempt.finished", "succeeded"),
              is("effect", "executed")>>
    BY <1>5 DEF Projected
  <2> HIDE DEF is
  <2>2. /\ b[1] = is("fork", event)
        /\ b[2] = is("attempt.finished", "succeeded")
        /\ b[3] = is("effect", "executed")
    BY <2>1
  <2>3. b \in Seq(LogEvent) /\ DOMAIN b = 1..3
    BY <1>1, <2>1 DEF Reported
  <2> QED BY <1>0, <1>5, <2>2, <2>3 DEF Tells, Batch, Events, Named, Told, Lone
<1>6. CASE event = "runtime.failed"
  <2>1. b = <<is("fork", event), is("attempt.finished", "failed"),
              is("effect", "failed")>>
    BY <1>6 DEF Projected
  <2> HIDE DEF is
  <2>2. /\ b[1] = is("fork", event)
        /\ b[2] = is("attempt.finished", "failed")
        /\ b[3] = is("effect", "failed")
    BY <2>1
  <2>3. b \in Seq(LogEvent) /\ DOMAIN b = 1..3
    BY <1>1, <2>1 DEF Reported
  <2> QED BY <1>0, <1>6, <2>2, <2>3 DEF Tells, Batch, Events, Named, Told, Lone
<1>7. CASE event = "receipt-input.ready"
  <2>1. b = <<is("fork", event), is("effect", "confirmed")>>
    BY <1>7 DEF Projected
  <2> HIDE DEF is
  <2>2. /\ b[1] = is("fork", event)
        /\ b[2] = is("effect", "confirmed")
    BY <2>1
  <2>3. b \in Seq(LogEvent) /\ DOMAIN b = 1..2
    BY <1>1, <2>1 DEF Reported
  <2> QED BY <1>0, <1>7, <2>2, <2>3 DEF Tells, Batch, Events, Named, Told, Lone
<1>8. CASE event \in {"worktree.created", "fork.failed"}
  <2>1. b = <<is("fork", event)>>
    BY <1>8 DEF Projected
  <2> HIDE DEF is
  <2>2. b[1] = is("fork", event)
    BY <2>1
  <2>3. b \in Seq(LogEvent) /\ DOMAIN b = 1..1
    BY <1>1, <2>1
  <2> QED BY <1>0, <1>8, <2>2, <2>3 DEF Tells, Batch, Events, Named, Told, Lone
<1> QED BY <1>2, <1>3, <1>4, <1>5, <1>6, <1>7, <1>8 DEF ForkEvents

LEMMA BridgedIsNumber ==
  ASSUME NEW h \in Seq(LogEvent), NEW f
  PROVE  /\ IsFiniteSet(Of(h, "fork", f)) /\ Bridged(h, f) \in Nat
         /\ Bridged(h, f) = 0 <=> Of(h, "fork", f) = {}
<1>1. Of(h, "fork", f) \subseteq 1..Len(h) /\ Len(h) \in Nat
  BY DEF Of, Events
<1>2. IsFiniteSet(1..Len(h))
  BY <1>1, FS_Interval
<1>3. IsFiniteSet(Of(h, "fork", f))
  BY <1>1, <1>2, FS_Subset
<1> QED BY <1>3, FS_CardinalityType, FS_EmptySet DEF Bridged

LEMMA BridgedGrows ==
  ASSUME NEW h \in Seq(LogEvent), NEW b, NEW f, Batch(b, f)
  PROVE  /\ \A g : g # f \/ Events(b, "fork") = {} =>
              Of(h \o b, "fork", g) = Of(h, "fork", g) /\ Bridged(h \o b, g) = Bridged(h, g)
         /\ Events(b, "fork") = {1} =>
              /\ Of(h \o b, "fork", f) = Of(h, "fork", f) \cup {Len(h) + 1}
              /\ Bridged(h \o b, f) = Bridged(h, f) + 1
<1>1. b \in Seq(LogEvent)
  BY DEF Batch
<1>2. ASSUME NEW g, g # f \/ Events(b, "fork") = {}
      PROVE  Of(h \o b, "fork", g) = Of(h, "fork", g)
  <2>1. Of(b, "fork", g) = {}
    BY <1>2 DEF Of, Events, Batch
  <2>2. Of(h \o b, "fork", g) = Of(h, "fork", g) \cup {Len(h) + i : i \in Of(b, "fork", g)}
    BY <1>1, ViewsGrow
  <2> QED BY <2>1, <2>2
<1>3. ASSUME Events(b, "fork") = {1}
      PROVE  /\ Of(h \o b, "fork", f) = Of(h, "fork", f) \cup {Len(h) + 1}
             /\ Bridged(h \o b, f) = Bridged(h, f) + 1
  <2>1. Of(b, "fork", f) = {1}
    BY <1>3 DEF Of, Events, Batch
  <2>2. Of(h \o b, "fork", f) = Of(h, "fork", f) \cup {Len(h) + i : i \in Of(b, "fork", f)}
    BY <1>1, ViewsGrow
  <2>3. Of(h \o b, "fork", f) = Of(h, "fork", f) \cup {Len(h) + 1}
    BY <2>1, <2>2
  <2>4. Len(h) + 1 \notin Of(h, "fork", f)
    BY DEF Of, Events
  <2> QED BY <2>3, <2>4, BridgedIsNumber, FS_AddElement DEF Bridged
<1> QED BY <1>2, <1>3 DEF Bridged

\* The status of an Effect is the one that was reported last.
LEMMA EffectStatusGrows ==
  ASSUME NEW h \in Seq(LogEvent), NEW b, NEW f, Batch(b, f)
  PROVE  /\ \A x \in Effects(h) : x \notin Named(b, "effect") =>
              EffectStatus(h \o b, x) = EffectStatus(h, x)
         /\ \A i \in Events(b, "effect") : EffectStatus(h \o b, f) = b[i].value
<1>1. b \in Seq(LogEvent)
  BY DEF Batch
<1>2. /\ Len(h) \in Nat /\ Len(b) \in Nat
      /\ \A i \in 1..Len(h) : (h \o b)[i] = h[i]
      /\ \A i \in 1..Len(b) : (h \o b)[Len(h) + i] = b[i]
      /\ DOMAIN h = 1..Len(h) /\ DOMAIN b = 1..Len(b)
  BY <1>1, Extended
<1>3. ASSUME NEW x \in Effects(h), x \notin Named(b, "effect")
      PROVE  EffectStatus(h \o b, x) = EffectStatus(h, x)
  <2>1. Of(b, "effect", x) = {}
    BY <1>3 DEF Of, Named
  <2>2. Of(h \o b, "effect", x) = Of(h, "effect", x)
                                   \cup {Len(h) + i : i \in Of(b, "effect", x)}
    BY <1>1, ViewsGrow
  <2>3. Of(h \o b, "effect", x) = Of(h, "effect", x)
    BY <2>1, <2>2
  <2>4. Of(h, "effect", x) # {} /\ Of(h, "effect", x) \in SUBSET (1..Len(h))
    BY <1>2, <1>3 DEF Effects, Of, Events
  <2>5. LastOf(Of(h, "effect", x)) \in Of(h, "effect", x)
    BY <1>2, <2>4, LastIsMember
  <2>6. (h \o b)[LastOf(Of(h, "effect", x))] = h[LastOf(Of(h, "effect", x))]
    BY <1>2, <2>4, <2>5
  <2> QED BY <2>3, <2>6 DEF EffectStatus
<1>4. ASSUME NEW i \in Events(b, "effect")
      PROVE  EffectStatus(h \o b, f) = b[i].value
  <2>1. i \in 1..Len(b) /\ Of(b, "effect", f) = {i}
    BY <1>2, <1>4 DEF Of, Events, Batch
  <2>2. Of(h \o b, "effect", f) = Of(h, "effect", f)
                                   \cup {Len(h) + j : j \in Of(b, "effect", f)}
    BY <1>1, ViewsGrow
  <2>3. Of(h, "effect", f) \subseteq 1..Len(h)
    BY <1>2 DEF Of, Events
  <2>4. PICK n \in Nat : n = Len(h) + i
    BY <1>2, <2>1
  <2>5. PICK S : S = Of(h \o b, "effect", f)
    OBVIOUS
  <2>6. n \in S /\ S \in SUBSET (1..n)
    <3>1. S = Of(h, "effect", f) \cup {n}
      BY <2>1, <2>2, <2>4, <2>5
    <3>2. 1..Len(h) \subseteq 1..n /\ n \in 1..n
      BY <1>2, <2>1, <2>4
    <3> QED BY <2>3, <3>1, <3>2
  <2>7. LastOf(S) = n
    BY <2>6, LastIsGreatest
  <2> QED BY <1>2, <2>1, <2>4, <2>5, <2>7 DEF EffectStatus
<1> QED BY <1>3, <1>4

\* So is the status of the Mission.
LEMMA StatusGrows ==
  ASSUME NEW h \in Seq(LogEvent), NEW b, NEW f, Batch(b, f)
  PROVE  /\ Events(b, "attempt.started") = {} /\ Events(b, "receipt") = {} =>
              Status(h \o b) = Status(h)
         /\ Events(b, "attempt.started") # {} /\ Events(b, "receipt") = {} =>
              Status(h \o b) = "running"
         /\ \A i \in Events(b, "receipt") : Events(b, "attempt.started") = {} =>
              Status(h \o b) = IF b[i].value = "verified" THEN "succeeded" ELSE "failed"
<1> DEFINE S(k) == {i \in DOMAIN k : k[i].type \in StatusEvents}
           E == Events(b, "attempt.started")
           R == Events(b, "receipt")
<1>1. b \in Seq(LogEvent)
  BY DEF Batch
<1>2. /\ Len(h) \in Nat /\ Len(b) \in Nat
      /\ \A i \in 1..Len(h) : (h \o b)[i] = h[i]
      /\ \A i \in 1..Len(b) : (h \o b)[Len(h) + i] = b[i]
      /\ DOMAIN h = 1..Len(h) /\ DOMAIN b = 1..Len(b)
  BY <1>1, Extended
<1>3. \A k : S(k) = Events(k, "attempt.started") \cup Events(k, "receipt")
  BY DEF Events, StatusEvents
<1>4. /\ S(h \o b) = S(h) \cup {Len(h) + i : i \in S(b)}
      /\ S(h) \subseteq 1..Len(h) /\ S(b) \subseteq 1..Len(b)
  <2>1. \A type : /\ Events(h \o b, type) = Events(h, type) \cup {Len(h) + i : i \in Events(b, type)}
                  /\ Events(h, type) \subseteq 1..Len(h) /\ Events(b, type) \subseteq 1..Len(b)
    BY <1>1, EventsGrow
  <2> QED BY <1>3, <2>1
<1>5. ASSUME E = {}, R = {}
      PROVE  Status(h \o b) = Status(h)
  <2>1. S(h \o b) = S(h)
    BY <1>3, <1>4, <1>5
  <2>2. CASE S(h) = {}
    BY <2>1, <2>2 DEF Status
  <2>3. CASE S(h) # {}
    <3>1. S(h) \in SUBSET (1..Len(h))
      BY <1>4
    <3>2. LastOf(S(h)) \in S(h)
      <4> HIDE DEF S
      <4> QED BY <1>2, <2>3, <3>1, LastIsMember
    <3>3. (h \o b)[LastOf(S(h))] = h[LastOf(S(h))]
      BY <1>2, <3>1, <3>2
    <3> QED BY <2>1, <3>3 DEF Status
  <2> QED BY <2>2, <2>3
<1>6. ASSUME NEW i \in S(b), S(b) = {i}
      PROVE  Status(h \o b) = IF b[i].type = "attempt.started" THEN "running"
                             ELSE IF b[i].value = "verified" THEN "succeeded" ELSE "failed"
  <2>1. PICK n \in Nat : n = Len(h) + i
    BY <1>2, <1>4
  <2>2. PICK T : T = S(h \o b)
    OBVIOUS
  <2>3. n \in T /\ T \in SUBSET (1..n)
    <3> HIDE DEF S
    <3> QED BY <1>2, <1>4, <1>6, <2>1, <2>2
  <2>4. LastOf(T) = n
    <3> HIDE DEF S
    <3> QED BY <2>3, LastIsGreatest
  <2>5. (h \o b)[n] = b[i]
    BY <1>2, <1>4, <2>1
  <2> QED BY <2>2, <2>3, <2>4, <2>5 DEF Status
<1>7. \A i, j \in DOMAIN b : b[i].type = b[j].type => i = j
  BY DEF Batch
<1>8. ASSUME E # {}, R = {} PROVE Status(h \o b) = "running"
  <2>1. PICK i \in E : E = {i} /\ b[i].type = "attempt.started"
    BY <1>7, <1>8 DEF Events
  <2> QED BY <1>3, <1>6, <1>8, <2>1
<1>9. ASSUME NEW i \in R, E = {}
      PROVE  Status(h \o b) = IF b[i].value = "verified" THEN "succeeded" ELSE "failed"
  <2>1. R = {i} /\ b[i].type = "receipt"
    BY <1>7, <1>9 DEF Events
  <2> QED BY <1>3, <1>6, <1>9, <2>1
<1> QED BY <1>5, <1>8, <1>9

-----------------------------------------------------------------------------
(* What an append leaves of the invariant.                                 *)

\* What is said of the log alone.
LogHolds == LogInv /\ KernelInv /\ ReceiptInv /\ ReceiptsHold

\* The events that were there are there, and the prefixes.
LEMMA PrefixStays ==
  ASSUME log \in Seq(LogEvent), NEW b \in Seq(LogEvent), log' = log \o b
  PROVE  /\ log' \in Seq(LogEvent)
         /\ \A i \in DOMAIN log : i \in DOMAIN log' /\ log'[i] = log[i]
                                  /\ SubSeq(log', 1, i) = SubSeq(log, 1, i)
         /\ \A i \in DOMAIN log' \ DOMAIN log :
              \E n \in DOMAIN b : i = Len(log) + n /\ log'[i] = b[n]
<1>1. /\ log' \in Seq(LogEvent)
      /\ Len(log) \in Nat /\ Len(b) \in Nat
      /\ DOMAIN log = 1..Len(log) /\ DOMAIN b = 1..Len(b)
      /\ DOMAIN log' = 1..(Len(log) + Len(b))
      /\ \A i \in 1..Len(log) : log'[i] = log[i]
      /\ \A i \in 1..Len(b) : log'[Len(log) + i] = b[i]
      /\ \A n \in 0..Len(log) : SubSeq(log', 1, n) = SubSeq(log, 1, n)
  BY Extended
<1>2. ASSUME NEW i \in DOMAIN log' \ DOMAIN log
      PROVE  \E n \in DOMAIN b : i = Len(log) + n /\ log'[i] = b[n]
  <2>1. i - Len(log) \in 1..Len(b) /\ i = Len(log) + (i - Len(log))
    BY <1>1
  <2> QED BY <1>1, <2>1
<1>3. ASSUME NEW i \in DOMAIN log
      PROVE  i \in DOMAIN log' /\ log'[i] = log[i] /\ SubSeq(log', 1, i) = SubSeq(log, 1, i)
  BY <1>1
<1> QED BY <1>1, <1>2, <1>3

\* Every event that is appended is about a fork that the log knows when the batch is in.
LEMMA LogInvStep ==
  ASSUME log \in Seq(LogEvent), LogInv, NEW f \in Forks, NEW b, Batch(b, f), log' = log \o b,
         \A i \in Events(b, "effect") : b[i].value \in Reported
  PROVE  LogInv'
<1>1. b \in Seq(LogEvent) /\ \A i \in DOMAIN b : b[i].id = f
  BY DEF Batch
<1>2. ASSUME NEW i \in DOMAIN log'
      PROVE  /\ log'[i].type # "checkpoint" => log'[i].id \in Forks
             /\ log'[i].type = "effect" => log'[i].value \in Reported
  <2>1. CASE i \in DOMAIN log
    BY <1>1, <2>1, PrefixStays DEF LogInv
  <2>2. CASE i \notin DOMAIN log
    BY <1>1, <2>2, PrefixStays DEF Events
  <2> QED BY <2>1, <2>2
<1> QED BY <1>2 DEF LogInv

\* Receipts that were true are; and without a new one they are all.
LEMMA ReceiptsStay ==
  ASSUME log \in Seq(LogEvent), LogInv, ReceiptInv, ReceiptsAreTrue,
         NEW f \in Forks, NEW b, Batch(b, f), log' = log \o b
  PROVE  /\ \A i \in Events(log, "receipt") :
              /\ log'[i] = log[i] /\ SubSeq(log', 1, i) = SubSeq(log, 1, i)
              /\ log[i].branch = Branch(log[i].id) /\ Bridged(log', log[i].id) > 0
         /\ Events(b, "receipt") = {} => ReceiptInv' /\ ReceiptsAreTrue'
<1>1. b \in Seq(LogEvent) /\ Events(b, "fork") \in {{}, {1}}
  BY DEF Batch
<1>2. ASSUME NEW g, Bridged(log, g) > 0 PROVE Bridged(log', g) > 0
  <2>1. Bridged(log', g) \in {Bridged(log, g), Bridged(log, g) + 1}
    <3>1. CASE g # f \/ Events(b, "fork") = {}
      BY <3>1, BridgedGrows
    <3>2. CASE g = f /\ Events(b, "fork") = {1}
      BY <3>2, BridgedGrows
    <3> QED BY <1>1, <3>1, <3>2
  <2>2. Bridged(log, g) \in Nat
    BY BridgedIsNumber
  <2> QED BY <1>2, <2>1, <2>2
<1>3. ASSUME NEW i \in Events(log, "receipt")
      PROVE  /\ log'[i] = log[i] /\ SubSeq(log', 1, i) = SubSeq(log, 1, i)
             /\ log[i].branch = Branch(log[i].id) /\ Bridged(log', log[i].id) > 0
  BY <1>1, <1>2, PrefixStays DEF Events, ReceiptInv
<1>4. ASSUME Events(b, "receipt") = {}
      PROVE  ReceiptInv' /\ ReceiptsAreTrue'
  <2>1. Events(log', "receipt") = Events(log, "receipt")
    <3>1. Events(log', "receipt") = Events(log, "receipt")
                                    \cup {Len(log) + i : i \in Events(b, "receipt")}
      BY <1>1, EventsGrow
    <3> QED BY <1>4, <3>1
  <2>2. ReceiptInv'
    BY <1>3, <2>1 DEF ReceiptInv
  <2>3. ReceiptsAreTrue'
    BY <1>3, <2>1 DEF ReceiptsAreTrue
  <2> QED BY <2>2, <2>3
<1> QED BY <1>3, <1>4

\* A rerun, or a selection, is recorded.
LEMMA NoteStep ==
  ASSUME log \in Seq(LogEvent), LogHolds, NEW f \in Forks, NEW e \in LogEvent,
         e.id = f, e.type \in {"selected", "rerun"}, log' = Append(log, e)
  PROVE  /\ LogHolds'
         /\ \A type : type \notin {"selected", "rerun"} => Named(log', type) = Named(log, type)
         /\ \A g \in Forks : Of(log', "fork", g) = Of(log, "fork", g)
         /\ \A g \in Effects(log) : EffectStatus(log', g) = EffectStatus(log, g)
         /\ \A i \in DOMAIN log : log'[i] = log[i]
<1> DEFINE b == <<e>>
<1>1. b \in Seq(LogEvent) /\ DOMAIN b = {1} /\ b[1] = e
  OBVIOUS
<1>2. log' = log \o b
  OBVIOUS
<1> HIDE DEF b
<1>3. /\ Batch(b, f)
      /\ \A type : type \notin {"selected", "rerun"} =>
           Events(b, type) = {} /\ Named(b, type) = {}
  BY <1>1 DEF Batch, Events, Named
<1>4. \A type : type \notin {"selected", "rerun"} => Named(log', type) = Named(log, type)
  <2>1. \A type : Named(log', type) = Named(log, type) \cup Named(b, type)
    BY <1>1, <1>2, ViewsGrow
  <2> QED BY <1>3, <2>1
<1>5. \A g : Of(log', "fork", g) = Of(log, "fork", g) /\ Bridged(log', g) = Bridged(log, g)
  <2>1. Events(b, "fork") = {}
    BY <1>3
  <2> QED BY <1>2, <1>3, <2>1, BridgedGrows
<1>6. \A g \in Effects(log) : EffectStatus(log', g) = EffectStatus(log, g)
  BY <1>2, <1>3, EffectStatusGrows
<1>7. Branches(log') = Branches(log)
  <2>1. Branches(log') = Branches(log) \cup {b[i].branch : i \in Events(b, "branch.created")}
    BY <1>1, <1>2, ViewsGrow
  <2>2. Events(b, "branch.created") = {}
    BY <1>3
  <2> QED BY <2>1, <2>2
<1>8. LogInv'
  BY <1>2, <1>3, LogInvStep DEF LogHolds
<1>9. KernelInv'
  <2>1. UNION {Named(log', t) : t \in {"effect", "attempt.plan", "attempt.started",
                                      "attempt.finished", "receipt"}}
        = UNION {Named(log, t) : t \in {"effect", "attempt.plan", "attempt.started",
                                       "attempt.finished", "receipt"}}
    BY <1>4
  <2> QED BY <1>4, <1>5, <1>6, <1>7, <2>1, NamedSets DEF LogHolds, KernelInv
<1>10. ReceiptInv' /\ ReceiptsAreTrue'
  BY <1>2, <1>3, ReceiptsStay DEF LogHolds, ReceiptsHold
<1>11. SucceededIsQuiet'
  <2>1. Events(b, "attempt.started") = {} /\ Events(b, "receipt") = {}
    BY <1>3
  <2>2. Status(log') = Status(log)
    BY <1>2, <1>3, <2>1, StatusGrows
  <2> QED BY <1>4, <2>2, NamedSets DEF LogHolds, ReceiptsHold, SucceededIsQuiet
<1> QED BY <1>1, <1>2, <1>4, <1>5, <1>6, <1>8, <1>9, <1>10, <1>11, PrefixStays
      DEF LogHolds, ReceiptsHold

LEMMA StatusIsReported ==
  ASSUME log \in Seq(LogEvent), LogInv, NEW x \in Effects(log)
  PROVE  EffectStatus(log, x) \in Reported
<1>1. Of(log, "effect", x) # {} /\ Of(log, "effect", x) \in SUBSET (1..Len(log)) /\ Len(log) \in Nat
  BY DEF Effects, Of, Events
<1>2. LastOf(Of(log, "effect", x)) \in Of(log, "effect", x)
  BY <1>1, LastIsMember
<1> QED BY <1>2 DEF EffectStatus, Of, Events, LogInv

\* The branch of a fork gets its receipt.
LEMMA ReceiptStep ==
  ASSUME log \in Seq(LogEvent), LogHolds, NEW f \in Forks, NEW e \in LogEvent,
         e.type = "receipt", e.id = f, e.branch = Branch(f), log' = Append(log, e),
         BranchReceipts(f) = {}, Bridged(log, f) > 0,
         e.value = "verified" =>
           Unresolved(log) = {} /\ f \in Effects(log) /\ EffectStatus(log, f) = "confirmed"
  PROVE  /\ LogHolds'
         /\ \A type : type # "receipt" => Named(log', type) = Named(log, type)
         /\ Named(log', "receipt") = Named(log, "receipt") \cup {f}
         /\ \A g \in Forks : Of(log', "fork", g) = Of(log, "fork", g)
         /\ \A g \in Effects(log) : EffectStatus(log', g) = EffectStatus(log, g)
         /\ \A i \in DOMAIN log : log'[i] = log[i]
<1> DEFINE b == <<e>>
<1>1. b \in Seq(LogEvent) /\ DOMAIN b = {1} /\ b[1] = e
  OBVIOUS
<1>2. log' = log \o b
  OBVIOUS
<1> HIDE DEF b
<1>3. /\ Batch(b, f) /\ Events(b, "receipt") = {1} /\ Named(b, "receipt") = {f}
      /\ \A type : type # "receipt" => Events(b, type) = {} /\ Named(b, type) = {}
  BY <1>1 DEF Batch, Events, Named
<1>4. \A type : Named(log', type) = IF type = "receipt" THEN Named(log, type) \cup {f}
                                   ELSE Named(log, type)
  <2>1. \A type : Named(log', type) = Named(log, type) \cup Named(b, type)
    BY <1>1, <1>2, ViewsGrow
  <2> QED BY <1>3, <2>1
<1>5. \A g : Of(log', "fork", g) = Of(log, "fork", g) /\ Bridged(log', g) = Bridged(log, g)
  <2>1. Events(b, "fork") = {}
    BY <1>3
  <2> QED BY <1>2, <1>3, <2>1, BridgedGrows
<1>6. \A g \in Effects(log) : EffectStatus(log', g) = EffectStatus(log, g)
  <2>1. \A g : g \notin Named(b, "effect")
    BY <1>3
  <2> QED BY <1>2, <1>3, <2>1, EffectStatusGrows
<1>7. Branches(log') = Branches(log)
  <2>1. Branches(log') = Branches(log) \cup {b[i].branch : i \in Events(b, "branch.created")}
    BY <1>1, <1>2, ViewsGrow
  <2>2. Events(b, "branch.created") = {}
    BY <1>3
  <2> QED BY <2>1, <2>2
<1>8. LogInv'
  BY <1>2, <1>3, LogInvStep DEF LogHolds
<1>9. KernelInv'
  BY <1>4, <1>5, <1>6, <1>7, NamedSets DEF LogHolds, KernelInv
<1>10. /\ Len(log) \in Nat /\ Events(log', "receipt") = Events(log, "receipt") \cup {Len(log) + 1}
       /\ Len(log) + 1 \notin DOMAIN log /\ log'[Len(log) + 1] = e
       /\ SubSeq(log', 1, Len(log) + 1) = log'
  <2>1. Events(log', "receipt") = Events(log, "receipt")
                                  \cup {Len(log) + i : i \in Events(b, "receipt")}
    BY <1>1, <1>2, EventsGrow
  <2>2. Events(log', "receipt") = Events(log, "receipt") \cup {Len(log) + 1}
    BY <1>3, <2>1
  <2>3. SubSeq(Append(log, e), 1, Len(log) + 1) = Append(log, e)
    OBVIOUS
  <2>4. Len(log) \in Nat /\ Len(log) + 1 \notin DOMAIN log /\ Append(log, e)[Len(log) + 1] = e
    OBVIOUS
  <2> QED BY <2>2, <2>3, <2>4
<1>11. \A i \in Events(log, "receipt") :
         /\ log'[i] = log[i] /\ SubSeq(log', 1, i) = SubSeq(log, 1, i)
         /\ log[i].branch = Branch(log[i].id) /\ Bridged(log', log[i].id) > 0
  BY <1>2, <1>3, ReceiptsStay DEF LogHolds, ReceiptsHold
<1>12. ReceiptInv'
  BY <1>5, <1>10, <1>11 DEF ReceiptInv
<1>13. ASSUME e.value = "verified"
       PROVE  \A g \in Effects(log) : EffectStatus(log, g) \in {"confirmed", "failed"}
  BY <1>13, StatusIsReported DEF LogHolds, Unresolved, UnresolvedStatuses, Reported
<1>14. ReceiptsAreTrue'
  <2>1. ASSUME NEW i \in Events(log', "receipt"), NEW j \in Events(log', "receipt"),
               log'[j].branch = log'[i].branch
        PROVE  j = i
    <3>1. \A k \in Events(log, "receipt") : log'[k].branch # e.branch
      BY <1>11 DEF BranchReceipts
    <3>2. CASE i \in Events(log, "receipt") /\ j \in Events(log, "receipt")
      BY <1>11, <2>1, <3>2 DEF LogHolds, ReceiptsHold, ReceiptsAreTrue
    <3> QED BY <1>10, <2>1, <3>1, <3>2
  <2>2. ASSUME NEW i \in Events(log', "receipt"), log'[i].value = "verified"
        PROVE  LET h == SubSeq(log', 1, i)
               IN /\ \A x \in Effects(h) : EffectStatus(h, x) \in {"confirmed", "failed"}
                  /\ EffectStatus(h, log'[i].id) = "confirmed"
    <3>1. CASE i \in Events(log, "receipt")
      BY <1>11, <2>2, <3>1 DEF LogHolds, ReceiptsHold, ReceiptsAreTrue
    <3>2. CASE i = Len(log) + 1
      <4>1. Effects(log') = Effects(log)
        BY <1>4, NamedSets
      <4> QED BY <1>6, <1>10, <1>13, <2>2, <3>2, <4>1
    <3> QED BY <1>10, <3>1, <3>2
  <2> QED BY <2>1, <2>2 DEF ReceiptsAreTrue
<1>15. SucceededIsQuiet'
  <2>1. Status(log') = IF e.value = "verified" THEN "succeeded" ELSE "failed"
    BY <1>1, <1>2, <1>3, StatusGrows
  <2>2. StartedAttempts(log') = StartedAttempts(log) /\ OpenAttempts(log') = OpenAttempts(log)
    BY <1>4, NamedSets
  <2>3. ASSUME NEW g \in StartedAttempts(log) \cap OpenAttempts(log), e.value = "verified"
        PROVE  FALSE
    <3>1. g \in Forks /\ g \notin Named(log, "attempt.finished")
      BY NamedSets DEF LogHolds, LogInv, StartedAttempts, Events
    <3>2. g \in Effects(log) /\ EffectStatus(log, g) = "dispatch_started"
      BY <3>1 DEF LogHolds, KernelInv
    <3> QED BY <1>13, <2>3, <3>2
  <2> QED BY <2>1, <2>2, <2>3 DEF SucceededIsQuiet
<1> QED BY <1>1, <1>2, <1>4, <1>5, <1>6, <1>8, <1>9, <1>12, <1>14, <1>15, PrefixStays
      DEF LogHolds, ReceiptsHold

\* What bridging an event of a fork rests on: its plan comes first and to a new
\* branch, the Attempt is started under a dispatched Effect, and the end of the
\* Effect is that of the Attempt.
Bridgeable(f, event) ==
  /\ event = "fork.planned" <=> Bridged(log, f) = 0
  /\ event = "fork.planned" => Branch(f) \notin Branches(log)
  /\ event = "worktree.create-started" => f \notin StartedAttempts(log)
  /\ event = "runtime.started" => f \in Effects(log) /\ EffectStatus(log, f) = "dispatch_started"
  /\ event = "receipt-input.ready" => f \in Named(log, "attempt.finished")

LEMMA BridgeStep ==
  ASSUME log \in Seq(LogEvent), LogHolds, NEW f \in Forks, NEW event \in ForkEvents,
         Bridgeable(f, event), NEW b, Tells(b, f, event), log' = log \o b
  PROVE  /\ LogHolds'
         /\ Batch(b, f)
         /\ Bridged(log', f) = Bridged(log, f) + 1
         /\ Of(log', "fork", f) = Of(log, "fork", f) \cup {Len(log) + 1}
         /\ log'[Len(log) + 1].value = event
         /\ f \in StartedAttempts(log') <=> f \in StartedAttempts(log) \/ event = "runtime.started"
         /\ f \in Named(log', "attempt.finished") <=>
              \/ f \in Named(log, "attempt.finished")
              \/ event \in {"runtime.completed", "runtime.failed"}
         /\ Named(log', "receipt") = Named(log, "receipt")
         /\ f \in Effects(log') <=> f \in Effects(log) \/ Told(event) # {}
         /\ IF Told(event) = {} THEN f \in Effects(log) => EffectStatus(log', f) = EffectStatus(log, f)
            ELSE {EffectStatus(log', f)} = Told(event)
<1>1. /\ Events(b, "fork") = {1} /\ b[1].value = event /\ 1 \in DOMAIN b
      /\ \A i \in Events(b, "effect") : {b[i].value} = Told(event)
      /\ Named(b, "effect") = Lone(f, Told(event) # {})
      /\ Named(b, "attempt.plan") = Lone(f, event = "fork.planned")
      /\ Named(b, "attempt.started") = Lone(f, event = "runtime.started")
      /\ Named(b, "attempt.finished")
           = Lone(f, event \in {"runtime.completed", "runtime.failed"})
      /\ {b[i].branch : i \in Events(b, "branch.created")}
           = Lone(Branch(f), event = "fork.planned")
      /\ Events(b, "receipt") = {} /\ Named(b, "receipt") = {}
  BY DEF Tells
<1>2. Batch(b, f) /\ b \in Seq(LogEvent)
  BY DEF Tells, Batch
<1>3. \A type : Named(log', type) = Named(log, type) \cup Named(b, type)
  BY <1>1, <1>2, ViewsGrow
<1>4. /\ Bridged(log', f) = Bridged(log, f) + 1
      /\ Of(log', "fork", f) = Of(log, "fork", f) \cup {Len(log) + 1}
  BY <1>1, <1>2, BridgedGrows
<1>5. IF Told(event) = {} THEN f \in Effects(log) => EffectStatus(log', f) = EffectStatus(log, f)
      ELSE {EffectStatus(log', f)} = Told(event)
  <2>1. CASE Told(event) = {}
    <3>1. f \notin Named(b, "effect")
      BY <1>1, <2>1 DEF Lone
    <3> QED BY <1>1, <1>2, <2>1, <3>1, EffectStatusGrows
  <2>2. CASE Told(event) # {}
    <3>1. PICK i \in Events(b, "effect") : TRUE
      BY <1>1, <2>2 DEF Named, Lone
    <3>2. EffectStatus(log', f) = b[i].value
      BY <1>1, <1>2, EffectStatusGrows
    <3> QED BY <1>1, <2>2, <3>2
  <2> QED BY <2>1, <2>2
<1>6. log'[Len(log) + 1].value = event
  <2>1. log'[Len(log) + 1] = b[1] /\ Len(b) \in Nat
    BY <1>1, <1>2, Extended
  <2> QED BY <1>1, <2>1
<1>7. ASSUME NEW g, g # f
      PROVE  /\ \A type : g \in Named(log', type) <=> g \in Named(log, type)
             /\ Bridged(log', g) = Bridged(log, g)
             /\ g \in Effects(log) => EffectStatus(log', g) = EffectStatus(log, g)
  <2>1. \A type : g \notin Named(b, type)
    BY <1>2, <1>7 DEF Batch, Named, Events
  <2>2. \A type : g \in Named(log', type) <=> g \in Named(log, type)
    BY <1>3, <2>1
  <2>3. Bridged(log', g) = Bridged(log, g)
    BY <1>2, <1>7, BridgedGrows
  <2>4. g \in Effects(log) => EffectStatus(log', g) = EffectStatus(log, g)
    BY <1>2, <2>1, EffectStatusGrows
  <2> QED BY <2>2, <2>3, <2>4
<1>8. Branches(log') = Branches(log) \cup Lone(Branch(f), event = "fork.planned")
  BY <1>1, <1>2, ViewsGrow
<1>9. LogInv'
  <2>1. Told(event) \subseteq Reported
    BY DEF Told, Reported
  <2>2. \A i \in Events(b, "effect") : b[i].value \in Reported
    BY <1>1, <2>1
  <2> QED BY <1>2, <2>2, LogInvStep DEF LogHolds
<1>10. ReceiptInv' /\ ReceiptsAreTrue'
  BY <1>1, <1>2, ReceiptsStay DEF LogHolds, ReceiptsHold
<1>11. KernelInv'
  <2>1. \A g \in Forks : Bridged(log, g) \in Nat
    BY BridgedIsNumber
  <2>2. ASSUME NEW g \in Forks, Bridged(log', g) = 0
        PROVE  g \notin UNION {Named(log', t) : t \in {"effect", "attempt.plan", "attempt.started",
                                                      "attempt.finished", "receipt"}}
    <3>1. g # f
      BY <1>4, <2>1, <2>2
    <3> QED BY <1>7, <2>2, <3>1 DEF LogHolds, KernelInv
  <2>3. ASSUME NEW g \in Forks, Bridged(log', g) > 0
        PROVE  Branch(g) \in Branches(log') /\ g \in Named(log', "attempt.plan")
    <3>1. CASE g # f
      BY <1>3, <1>7, <1>8, <2>3, <3>1 DEF LogHolds, KernelInv
    <3>2. CASE g = f /\ event = "fork.planned"
      BY <1>1, <1>3, <1>8, <3>2 DEF Lone
    <3>3. CASE g = f /\ event # "fork.planned"
      BY <1>3, <1>8, <2>1, <3>3 DEF LogHolds, KernelInv, Bridgeable
    <3> QED BY <3>1, <3>2, <3>3
  <2>4. ASSUME NEW g \in Forks, g \in Named(log', "attempt.started") \ Named(log', "attempt.finished")
        PROVE  g \in Effects(log') /\ EffectStatus(log', g) = "dispatch_started"
    <3>1. CASE g # f
      BY <1>7, <2>4, <3>1, NamedSets DEF LogHolds, KernelInv
    <3>2. CASE g = f
      <4>1. event \notin {"runtime.completed", "runtime.failed"} /\ f \notin Named(log, "attempt.finished")
        BY <1>1, <1>3, <2>4, <3>2 DEF Lone
      <4>2. event \notin {"fork.planned", "worktree.create-started", "receipt-input.ready"}
        <5>1. event = "fork.planned" => f \notin Named(log, "attempt.started")
          BY DEF LogHolds, KernelInv, Bridgeable
        <5> QED BY <1>1, <1>3, <2>4, <3>2, <4>1, <5>1, NamedSets DEF Bridgeable, Lone
      <4>3. Told(event) = {}
        BY <4>1, <4>2 DEF Told
      <4>4. f \in Effects(log) /\ EffectStatus(log, f) = "dispatch_started"
        BY <1>1, <1>3, <2>4, <3>2, <4>1, NamedSets DEF LogHolds, KernelInv, Bridgeable, Lone
      <4> QED BY <1>3, <1>5, <3>2, <4>3, <4>4, NamedSets
    <3> QED BY <3>1, <3>2
  <2>5. ASSUME NEW g \in Forks, NEW k \in Forks, Branch(g) = Branch(k),
               Bridged(log', g) > 0, Bridged(log', k) > 0
        PROVE  g = k
    <3>1. CASE g # f /\ k # f
      BY <1>7, <2>5, <3>1 DEF LogHolds, KernelInv
    <3>2. ASSUME NEW x \in Forks, x # f, Branch(x) = Branch(f), Bridged(log', x) > 0
          PROVE  FALSE
      <4>1. Bridged(log, x) > 0 /\ Branch(f) \in Branches(log)
        BY <1>7, <3>2 DEF LogHolds, KernelInv
      <4>2. Bridged(log, f) > 0
        BY <2>1, <4>1 DEF Bridgeable
      <4> QED BY <3>2, <4>1, <4>2 DEF LogHolds, KernelInv
    <3> QED BY <2>5, <3>1, <3>2
  <2> QED BY <2>2, <2>3, <2>4, <2>5, NamedSets DEF KernelInv
<1>12. SucceededIsQuiet'
  <2>1. CASE event = "runtime.started"
    <3>1. Events(b, "attempt.started") # {}
      BY <1>1, <2>1 DEF Named, Lone
    <3>2. Status(log') = "running"
      BY <1>1, <1>2, <3>1, StatusGrows
    <3> QED BY <3>2 DEF SucceededIsQuiet
  <2>2. CASE event # "runtime.started"
    <3>1. Events(b, "attempt.started") = {}
      <4>1. Named(b, "attempt.started") = {}
        BY <1>1, <2>2 DEF Lone
      <4> QED BY <4>1 DEF Named
    <3>2. Status(log') = Status(log)
      BY <1>1, <1>2, <3>1, StatusGrows
    <3>3. Named(log', "attempt.started") = Named(log, "attempt.started")
      <4>1. Named(b, "attempt.started") = {}
        BY <1>1, <2>2 DEF Lone
      <4> QED BY <1>3, <4>1
    <3>4. f \in Named(log, "attempt.started") => event # "fork.planned"
      BY DEF LogHolds, KernelInv, Bridgeable
    <3>5. Named(log', "attempt.started") \cap (Named(log', "attempt.plan") \ Named(log', "attempt.finished"))
          \subseteq Named(log, "attempt.started") \cap (Named(log, "attempt.plan") \ Named(log, "attempt.finished"))
      BY <1>1, <1>3, <3>3, <3>4 DEF Lone
    <3> QED BY <3>2, <3>5, NamedSets DEF LogHolds, ReceiptsHold, SucceededIsQuiet
  <2> QED BY <2>1, <2>2
<1>13. LogHolds'
  BY <1>9, <1>10, <1>11, <1>12 DEF LogHolds, ReceiptsHold
<1>14. /\ f \in Named(log', "attempt.started")
            <=> f \in Named(log, "attempt.started") \/ event = "runtime.started"
       /\ f \in Named(log', "attempt.finished")
            <=> \/ f \in Named(log, "attempt.finished")
                \/ event \in {"runtime.completed", "runtime.failed"}
       /\ Named(log', "receipt") = Named(log, "receipt")
       /\ f \in Named(log', "effect") <=> f \in Named(log, "effect") \/ Told(event) # {}
  <2>1. \A type : /\ f \in Named(log', type) <=> f \in Named(log, type) \/ f \in Named(b, type)
                  /\ Named(b, type) = {} => Named(log', type) = Named(log, type)
    BY <1>3
  <2>2. /\ f \in Named(b, "attempt.started") <=> event = "runtime.started"
        /\ f \in Named(b, "attempt.finished") <=> event \in {"runtime.completed", "runtime.failed"}
        /\ f \in Named(b, "effect") <=> Told(event) # {}
    BY <1>1 DEF Lone
  <2>3. Named(b, "receipt") = {}
    BY <1>1
  <2> QED BY <2>1, <2>2, <2>3
<1>15. /\ f \in StartedAttempts(log') <=> f \in StartedAttempts(log) \/ event = "runtime.started"
       /\ f \in Effects(log') <=> f \in Effects(log) \/ Told(event) # {}
  BY <1>14, NamedSets
<1> QED BY <1>2, <1>4, <1>5, <1>6, <1>13, <1>14, <1>15

-----------------------------------------------------------------------------
(* What a step of one run leaves to the others.                            *)

\* What the log says of a fork stays, but for a receipt.
Unmoved(g) ==
  /\ Of(log', "fork", g) = Of(log, "fork", g)
  /\ \A type \in {"effect", "attempt.started", "attempt.finished"} :
       g \in Named(log', type) <=> g \in Named(log, type)
  /\ g \in Effects(log) => EffectStatus(log', g) = EffectStatus(log, g)
SameReceipt(g) == g \in Named(log', "receipt") <=> g \in Named(log, "receipt")

Extends == \A i \in DOMAIN log : i \in DOMAIN log' /\ log'[i] = log[i]

\* A step of run r is about its own fork.
Keeps(r) ==
  /\ Extends
  /\ \A g \in Forks \ {Own(r)} : Unmoved(g) /\ SameReceipt(g) /\ journal'[g] = journal[g]
  /\ \A q \in Runs \ {r} : run'[q] = run[q]

LEMMA OwnIsFork ==
  ASSUME TypeOK, NEW r \in Runs, Writes(r)
  PROVE  Own(r) \in Forks /\ Own(r)[1] = r /\ Own(r)[2] = run[r].trial
<1>1. run[r].trial \in 1..Trials /\ (r \in Plain => run[r].trial = 1) /\ r \in Reruns \cup Plain
  BY DEF TypeOK, Place, Runs, Writes
<1> QED BY <1>1 DEF Own, Forks

LEMMA UnmovedSays ==
  ASSUME NEW g, Unmoved(g)
  PROVE  /\ Bridged(log', g) = Bridged(log, g)
         /\ g \in StartedAttempts(log') <=> g \in StartedAttempts(log)
         /\ g \in Named(log', "attempt.finished") <=> g \in Named(log, "attempt.finished")
         /\ g \in Effects(log') <=> g \in Effects(log)
         /\ g \in Effects(log) => EffectStatus(log', g) = EffectStatus(log, g)
BY NamedSets DEF Unmoved, Bridged

LEMMA OthersKeep ==
  ASSUME TypeOK, NEW r \in Runs, Writes(r), Keeps(r),
         NEW q \in Runs \ {r}, Writes(q), Reports(q)
  PROVE  Writes(q)' /\ Reports(q)'
<1>1. Own(q) \in Forks /\ Own(q)[1] = q /\ Own(r) \in Forks /\ Own(r)[1] = r
  BY OwnIsFork
<1>2. \A g \in Forks : g[1] = q => Unmoved(g) /\ SameReceipt(g) /\ journal'[g] = journal[g]
  BY <1>1 DEF Keeps
<1>3. run'[q] = run[q] /\ Own(q)' = Own(q)
  BY DEF Keeps, Own
<1> DEFINE f == Own(q)
<1>4. Unmoved(f) /\ SameReceipt(f) /\ journal'[f] = journal[f]
  BY <1>1, <1>2
<1>5. /\ Bridged(log', f) = Bridged(log, f)
      /\ f \in StartedAttempts(log') <=> f \in StartedAttempts(log)
      /\ f \in Named(log', "attempt.finished") <=> f \in Named(log, "attempt.finished")
      /\ f \in Effects(log') <=> f \in Effects(log)
      /\ f \in Effects(log) => EffectStatus(log', f) = EffectStatus(log, f)
      /\ f \in Named(log', "receipt") <=> f \in Named(log, "receipt")
  BY <1>4, UnmovedSays DEF SameReceipt
<1>6. \A event : Appending(q, event)' <=> Appending(q, event)
  BY <1>3 DEF Appending
<1> HIDE DEF f
<1>7. Own(q) = f /\ Own(q)' = f
  BY <1>3 DEF f
<1>8. Writes(q)'
  BY <1>2, <1>3, <1>4, <1>5, <1>7 DEF Writes
<1>9. Reports(q)'
  BY <1>3, <1>4, <1>5, <1>6, <1>7 DEF Reports
<1> QED BY <1>8, <1>9

\* Where Goto and WriteNext take a run.
Moved(r, step, event) ==
  /\ run' \in [Runs -> Place]
  /\ run'[r].step = step /\ run'[r].event = event /\ run'[r].trial = run[r].trial
  /\ \A q \in Runs \ {r} : run'[q] = run[q]

LEMMA RunMoves ==
  ASSUME TypeOK, NEW r \in Runs
  PROVE  /\ \A step \in Steps : Goto(r, step) => Moved(r, step, run[r].event)
         /\ \A event \in ForkEvents : WriteNext(r, event) => Moved(r, "write", event)
<1>1. run \in [Runs -> Place] /\ run[r] \in Place
  BY DEF TypeOK
<1>2. ASSUME NEW step \in Steps, Goto(r, step)
      PROVE  Moved(r, step, run[r].event)
  <2>1. [run[r] EXCEPT !.step = step] \in Place
    BY <1>1 DEF Place
  <2>2. run' = [run EXCEPT ![r] = [run[r] EXCEPT !.step = step]]
    BY <1>1, <1>2 DEF Goto
  <2> QED BY <1>1, <2>1, <2>2 DEF Moved, Place
<1>3. ASSUME NEW event \in ForkEvents, WriteNext(r, event)
      PROVE  Moved(r, "write", event)
  <2>1. [run[r] EXCEPT !.step = "write", !.event = event] \in Place
    BY <1>1 DEF Place, Steps
  <2>2. run' = [run EXCEPT ![r] = [run[r] EXCEPT !.step = "write", !.event = event]]
    BY <1>1, <1>3 DEF WriteNext
  <2> QED BY <1>1, <2>1, <2>2 DEF Moved, Place
<1> QED BY <1>2, <1>3

LEMMA OwnStays ==
  ASSUME NEW r \in Runs, NEW step, NEW event, Moved(r, step, event)
  PROVE  Own(r)' = Own(r)
BY DEF Moved, Own

\* A run that is done with its fork promises nothing more of it.
LEMMA Leaves ==
  ASSUME NEW r \in Runs, Writes(r), NEW step, NEW event, Moved(r, step, event),
         step \in Over \cup {"settle", "save"}, UNCHANGED journal,
         r \in Plain => step \in {"done", "failed", "crashed"}
  PROVE  Writes(r)' /\ Reports(r)'
<1>1. \A e : ~Appending(r, e)'
  BY DEF Moved, Appending, Over
<1>2. Writes(r)'
  BY DEF Writes, Moved, Over
<1>3. Reports(r)'
  BY <1>1 DEF Reports, Moved, Over
<1> QED BY <1>2, <1>3

\* The place of a line among the first n.
LEMMA PositionIsBounded ==
  ASSUME NEW n \in Nat, NEW S \in SUBSET (1..n), NEW i \in S
  PROVE  Cardinality({j \in S : j <= i}) \in 1..Cardinality(S)
<1> DEFINE T == {j \in S : j <= i}
<1>1. IsFiniteSet(S)
  <2>1. IsFiniteSet(1..n)
    BY FS_Interval
  <2> QED BY <2>1, FS_Subset
<1>2. IsFiniteSet(T) /\ Cardinality(T) <= Cardinality(S)
  BY <1>1, FS_Subset
<1>3. i \in T
  OBVIOUS
<1>4. Cardinality(T) \in Nat /\ Cardinality(T) # 0 /\ Cardinality(S) \in Nat
  BY <1>1, <1>2, <1>3, FS_CardinalityType, FS_EmptySet
<1> QED BY <1>2, <1>4

\* The journal of a fork against the log.
Follows(f) ==
  LET kernel == Of(log, "fork", f)
  IN /\ Len(journal[f]) - Cardinality(kernel) \in 0..2
     /\ \A i \in kernel : log[i].value = journal[f][Cardinality({j \in kernel : j <= i})]

Checked == \A f \in worktree : f \in Effects(log) /\ EffectStatus(log, f) # "intended"
Started == \A f \in ran : f \in StartedAttempts(log)

LEMMA EvidenceParts == EvidenceLeads <=> (\A f \in Forks : Follows(f)) /\ Checked /\ Started
BY DEF EvidenceLeads, Follows, Checked, Started

LEMMA FollowsStays ==
  ASSUME NEW f, Follows(f), Unmoved(f), Extends, journal'[f] = journal[f]
  PROVE  Follows(f)'
<1>1. \A i \in Of(log, "fork", f) : log'[i] = log[i]
  BY DEF Of, Events, Extends
<1> QED BY <1>1 DEF Follows, Unmoved

\* A step of run r preserves the invariant, when it does for its own fork.
LEMMA StepHolds ==
  ASSUME IInv, NEW r \in Runs, NEW f, f = Own(r), TypeOK', LogHolds', Keeps(r),
         Follows(f)', Checked', Started', Writes(r)', Reports(r)'
  PROVE  IInv'
<1>1. ASSUME NEW q \in Runs PROVE Writes(q)' /\ Reports(q)'
  BY OthersKeep DEF IInv
<1>2. f \in Forks
  BY OwnIsFork DEF IInv
<1>3. ASSUME NEW g \in Forks PROVE Follows(g)'
  BY <1>2, FollowsStays, EvidenceParts DEF Keeps, IInv
<1>4. EvidenceLeads'
  BY <1>3 DEF EvidenceLeads, Follows, Checked, Started
<1> QED BY <1>1, <1>4 DEF IInv, LogHolds

\* A step that says nothing of a fork to the log.
LEMMA SilentLog ==
  ASSUME UNCHANGED log, LogHolds
  PROVE  LogHolds' /\ Extends /\ \A g : Unmoved(g) /\ SameReceipt(g)
<1>1. LogHolds'
  <2>1. LogInv'
    BY DEF LogHolds, LogInv
  <2>2. KernelInv'
    BY DEF LogHolds, KernelInv
  <2>3. ReceiptInv'
    BY DEF LogHolds, ReceiptInv
  <2>4. ReceiptsHold'
    BY DEF LogHolds, ReceiptsHold, ReceiptsAreTrue, SucceededIsQuiet
  <2> QED BY <2>1, <2>2, <2>3, <2>4 DEF LogHolds
<1> QED BY <1>1 DEF Extends, Unmoved, SameReceipt

LEMMA WorldStays ==
  ASSUME Checked, Started, \A g \in Forks : Unmoved(g), worktree \subseteq Forks,
         ran \subseteq Forks, UNCHANGED <<worktree, ran>>
  PROVE  Checked' /\ Started'
BY UnmovedSays DEF Checked, Started

\* A step of run r that says nothing new of a fork but, at most, a receipt of its own.
LEMMA QuietStep ==
  ASSUME IInv, NEW r \in Runs, TypeOK', LogHolds', Extends, UNCHANGED <<journal, worktree, ran>>,
         \A g \in Forks : Unmoved(g), \A g \in Forks \ {Own(r)} : SameReceipt(g),
         \A q \in Runs \ {r} : run'[q] = run[q], Writes(r)', Reports(r)'
  PROVE  IInv'
<1>1. PICK f : f = Own(r)
  OBVIOUS
<1>2. f \in Forks
  BY <1>1, OwnIsFork DEF IInv
<1>3. Follows(f)'
  BY <1>2, FollowsStays, EvidenceParts DEF IInv
<1>4. Keeps(r)
  BY DEF Keeps
<1>5. Checked' /\ Started'
  BY WorldStays, EvidenceParts DEF IInv, TypeOK
<1> QED BY <1>1, <1>3, <1>4, <1>5, StepHolds

LEMMA InvParts ==
  ASSUME IInv
  PROVE  /\ TypeOK /\ LogHolds /\ log \in Seq(LogEvent) /\ Checked /\ Started
         /\ \A f \in Forks : Follows(f)
         /\ \A r \in Runs : Writes(r) /\ Reports(r) /\ Own(r) \in Forks
BY EvidenceParts, OwnIsFork DEF IInv, LogHolds, TypeOK

LEMMA Bounds ==
  ASSUME TypeOK
  PROVE  /\ Fault => faults' \in 0..MaxFaults
         /\ \A r \in Runs : Release(r) => holder' \in Runs \cup {None}
<1>1. Fault => faults' \in 0..MaxFaults
  BY ForkAssumption DEF TypeOK, Fault
<1>2. ASSUME NEW r \in Runs, Release(r) PROVE holder' \in Runs \cup {None}
  BY <1>2 DEF TypeOK, Release
<1> QED BY <1>1, <1>2

LEMMA GoneStep ==
  ASSUME IInv, NEW r \in Runs, NEW step \in Over \cup {"settle", "save"}, Goto(r, step),
         r \in Plain => step \in {"done", "failed", "crashed"}, UNCHANGED journal
  PROVE  /\ Writes(r)' /\ Reports(r)' /\ run' \in [Runs -> Place]
         /\ \A q \in Runs \ {r} : run'[q] = run[q]
<1>1. TypeOK /\ Writes(r)
  BY InvParts
<1>2. step \in Steps
  BY DEF Steps, Over
<1>3. Moved(r, step, run[r].event)
  BY <1>1, <1>2, RunMoves
<1>4. Writes(r)' /\ Reports(r)'
  BY <1>1, <1>3, Leaves
<1> QED BY <1>3, <1>4 DEF Moved

LEMMA ThrownIsGone ==
  ASSUME NEW r \in Runs
  PROVE  /\ Thrown(r) \in Over \cup {"settle", "save"}
         /\ r \in Plain => Thrown(r) \in {"done", "failed", "crashed"}
BY ForkAssumption DEF Thrown, Over, Runs

\* A run leaves its fork, and nothing else changes but the lease.
LEMMA GoneHolds ==
  ASSUME IInv, NEW r \in Runs, NEW step \in Over \cup {"settle", "save"}, Goto(r, step),
         r \in Plain => step \in {"done", "failed", "crashed"},
         UNCHANGED <<log, journal, worktree, ran, recovery>>,
         UNCHANGED holder \/ Release(r), UNCHANGED faults \/ Fault
  PROVE  IInv'
<1>1. LogHolds' /\ Extends /\ \A g : Unmoved(g) /\ SameReceipt(g)
  BY InvParts, SilentLog
<1>2. /\ Writes(r)' /\ Reports(r)' /\ run' \in [Runs -> Place]
      /\ \A q \in Runs \ {r} : run'[q] = run[q]
  BY GoneStep
<1>3. TypeOK /\ holder' \in Runs \cup {None} /\ faults' \in 0..MaxFaults
  BY InvParts, Bounds DEF TypeOK
<1>4. TypeOK'
  BY <1>2, <1>3 DEF TypeOK
<1> QED BY <1>1, <1>2, <1>4, QuietStep

LEMMA ThrowHolds ==
  ASSUME IInv, NEW r \in Runs, Goto(r, Thrown(r)),
         UNCHANGED <<log, journal, worktree, ran, recovery>>,
         UNCHANGED holder \/ Release(r), UNCHANGED faults \/ Fault
  PROVE  IInv'
BY ThrownIsGone, GoneHolds

\* A run goes on with its fork, and nothing else changes but a count of faults.
LEMMA OnwardHolds ==
  ASSUME IInv, NEW r \in Runs, NEW step, NEW event, Moved(r, step, event),
         UNCHANGED <<log, journal, worktree, ran, recovery, holder>>,
         UNCHANGED faults \/ Fault, Writes(r)', Reports(r)'
  PROVE  IInv'
<1>1. LogHolds' /\ Extends /\ \A g : Unmoved(g) /\ SameReceipt(g)
  BY InvParts, SilentLog
<1>2. TypeOK /\ faults' \in 0..MaxFaults
  BY InvParts, Bounds DEF TypeOK
<1>3. TypeOK'
  BY <1>2 DEF TypeOK, Moved
<1>4. \A q \in Runs \ {r} : run'[q] = run[q]
  BY DEF Moved
<1> QED BY <1>1, <1>3, <1>4, QuietStep

-----------------------------------------------------------------------------
(* The steps that append nothing.                                          *)

LEMMA ResolveStep ==
  ASSUME IInv, NEW r \in Runs, Resolve(r)
  PROVE  IInv'
<1>1. At(r, "resolve") /\ UNCHANGED <<log, journal, worktree, ran, holder, recovery, faults>>
  BY DEF Resolve
<1>2. CASE Refused(r)
  <2>1. Goto(r, Thrown(r))
    BY <1>2 DEF Resolve
  <2> QED BY <1>1, <2>1, ThrowHolds
<1>3. CASE ~Refused(r)
  <2>1. PICK p : p = IF Selected = {} THEN Own(r) ELSE log[LastOf(Selected)].id
    OBVIOUS
  <2>2. run' = [run EXCEPT ![r].step = "resolved", ![r].pick = p]
    BY <1>3, <2>1 DEF Resolve
  <2>3. TypeOK /\ LogInv /\ log \in Seq(LogEvent) /\ Writes(r) /\ Own(r) \in Forks
    BY InvParts DEF LogHolds
  <2>4. p \in Forks
    <3>1. CASE Selected = {}
      BY <2>1, <2>3, <3>1
    <3>2. CASE Selected # {}
      <4>1. Selected \in SUBSET (1..Len(log)) /\ Len(log) \in Nat
        BY <2>3 DEF Selected, Events
      <4>2. LastOf(Selected) \in Selected
        BY <3>2, <4>1, LastIsMember
      <4> QED BY <2>1, <2>3, <3>2, <4>2 DEF Selected, Events, LogInv
    <3> QED BY <3>1, <3>2
  <2>5. run \in [Runs -> Place] /\ run[r] \in Place
    BY <2>3 DEF TypeOK
  <2>6. [run[r] EXCEPT !.step = "resolved", !.pick = p] \in Place
    BY <2>4, <2>5 DEF Place, Steps
  <2>7. run' = [run EXCEPT ![r] = [run[r] EXCEPT !.step = "resolved", !.pick = p]]
    BY <2>2, <2>5
  <2>8. Moved(r, "resolved", run[r].event)
    BY <2>5, <2>6, <2>7 DEF Moved, Place
  <2>9. Own(r)' = Own(r)
    BY <2>8, OwnStays
  <2>10. Writes(r)'
    BY <1>1, <2>3, <2>8, <2>9 DEF Writes, Moved, At
  <2>11. \A e : ~Appending(r, e)'
    BY <2>8 DEF Moved, Appending
  <2>12. Reports(r)'
    BY <2>8, <2>11 DEF Reports, Moved
  <2> QED BY <1>1, <2>8, <2>10, <2>12, OnwardHolds
<1> QED BY <1>2, <1>3

LEMMA PrepareStep ==
  ASSUME IInv, NEW r \in Runs, Prepare(r)
  PROVE  IInv'
<1>1. At(r, "prepare") /\ UNCHANGED <<log, journal, worktree, ran, recovery, faults>>
  BY DEF Prepare
<1>2. CASE Throw(r)
  BY <1>1, <1>2, ThrowHolds DEF Throw
<1>3. CASE WriteNext(r, "fork.planned") /\ UNCHANGED holder
  <2>1. TypeOK /\ LogHolds /\ log \in Seq(LogEvent) /\ Writes(r) /\ Own(r) \in Forks /\ Follows(Own(r))
    BY InvParts
  <2>2. "fork.planned" \in ForkEvents
    BY DEF ForkEvents
  <2>3. Moved(r, "write", "fork.planned")
    BY <1>3, <2>1, <2>2, RunMoves
  <2>4. Own(r)' = Own(r)
    BY <2>3, OwnStays
  <2>5. journal[Own(r)] = <<>>
    BY <1>1, <2>1 DEF Writes, At
  <2>6. Bridged(log, Own(r)) = 0
    <3>1. Bridged(log, Own(r)) \in Nat /\ Len(journal[Own(r)]) = 0
      BY <2>1, <2>5, BridgedIsNumber
    <3>2. Len(journal[Own(r)]) - Bridged(log, Own(r)) \in 0..2
      BY <2>1 DEF Follows, Bridged
    <3> QED BY <3>1, <3>2
  <2>7. Own(r) \notin Named(log, "receipt")
    BY <2>1, <2>6 DEF LogHolds, KernelInv
  <2>8. Writes(r)'
    BY <1>1, <2>1, <2>3, <2>4, <2>5, <2>6 DEF Writes, Moved
  <2>9. Reports(r)'
    BY <1>1, <2>3, <2>4, <2>7 DEF Reports, Moved, Appending
  <2> QED BY <1>1, <1>3, <2>3, <2>8, <2>9, OnwardHolds
<1> QED BY <1>2, <1>3 DEF Prepare

\* The failure of a fork that had begun is the next event of it.
LEMMA FailureIsNext ==
  ASSUME IInv, NEW r \in Runs, WriteNext(r, "fork.failed"), UNCHANGED <<log, journal>>,
         run[r].step \in {"checkout", "runtime"}
  PROVE  Moved(r, "write", "fork.failed") /\ Writes(r)' /\ Reports(r)'
<1>1. TypeOK /\ Writes(r) /\ Reports(r)
  BY InvParts
<1>2. "fork.failed" \in ForkEvents
  BY DEF ForkEvents
<1>3. Moved(r, "write", "fork.failed")
  BY <1>1, <1>2, RunMoves
<1>4. Own(r)' = Own(r)
  BY <1>3, OwnStays
<1>5. Writes(r)'
  BY <1>1, <1>3, <1>4 DEF Writes, Moved
<1>6. Reports(r)'
  BY <1>1, <1>3, <1>4 DEF Reports, Moved, Appending
<1> QED BY <1>3, <1>5, <1>6

LEMMA RefuseStep ==
  ASSUME IInv, NEW r \in Runs, RefuseRuntime(r)
  PROVE  IInv'
<1>1. /\ run[r].step = "runtime" /\ Fault /\ WriteNext(r, "fork.failed")
      /\ UNCHANGED <<log, journal, worktree, ran, holder, recovery>>
  BY DEF RefuseRuntime, At
<1> QED BY <1>1, FailureIsNext, OnwardHolds

LEMMA DrainStep ==
  ASSUME IInv, NEW r \in Runs, DrainFails(r)
  PROVE  IInv'
BY ThrowHolds DEF DrainFails, Throw

LEMMA CrashStep ==
  ASSUME IInv, NEW r \in Runs, Crash(r)
  PROVE  IInv'
BY GoneHolds DEF Crash, Over

LEMMA CheckoutStep ==
  ASSUME IInv, NEW r \in Runs, Checkout(r)
  PROVE  IInv'
<1>1. run[r].step = "checkout" /\ UNCHANGED <<log, journal, ran, holder, recovery>>
  BY DEF Checkout, At
<1>2. CASE WriteNext(r, "fork.failed") /\ UNCHANGED worktree /\ (UNCHANGED faults \/ Fault)
  BY <1>1, <1>2, FailureIsNext, OnwardHolds
<1>3. CASE WriteNext(r, "worktree.created") /\ worktree' = worktree \cup {Own(r)} /\ UNCHANGED faults
  <2>1. /\ TypeOK /\ LogHolds /\ Writes(r) /\ Reports(r) /\ Own(r) \in Forks
        /\ Checked /\ Started /\ Follows(Own(r))
    BY InvParts
  <2>2. "worktree.created" \in ForkEvents
    BY DEF ForkEvents
  <2>3. Moved(r, "write", "worktree.created")
    BY <1>3, <2>1, <2>2, RunMoves
  <2>4. Own(r)' = Own(r)
    BY <2>3, OwnStays
  <2>5. Writes(r)'
    BY <1>1, <2>1, <2>3, <2>4 DEF Writes, Moved
  <2>6. Reports(r)'
    BY <1>1, <2>1, <2>3, <2>4 DEF Reports, Moved, Appending
  <2>7. Own(r) \in Effects(log) /\ EffectStatus(log, Own(r)) = "dispatch_started"
    BY <1>1, <2>1 DEF Reports
  <2>8. Checked' /\ Started'
    BY <1>1, <1>3, <2>1, <2>7 DEF Checked, Started
  <2>9. LogHolds' /\ Extends /\ \A g : Unmoved(g) /\ SameReceipt(g)
    BY <1>1, <2>1, SilentLog
  <2>10. TypeOK'
    BY <1>1, <1>3, <2>1, <2>3 DEF TypeOK, Moved
  <2>11. Keeps(r)
    BY <1>1, <2>3, <2>9 DEF Keeps, Moved
  <2>12. PICK f : f = Own(r)
    OBVIOUS
  <2>13. Follows(f)'
    BY <1>1, <2>1, <2>9, <2>12, FollowsStays
  <2> QED BY <2>5, <2>6, <2>8, <2>9, <2>10, <2>11, <2>12, <2>13, StepHolds
<1> QED BY <1>2, <1>3 DEF Checkout

LEMMA ContinueStep ==
  ASSUME IInv, NEW r \in Runs, Continue(r)
  PROVE  IInv'
<1>1. /\ run[r].step = "runtime" /\ ran' = ran \cup {Own(r)}
      /\ UNCHANGED <<log, journal, worktree, holder, recovery>>
  BY DEF Continue, At
<1>2. PICK event \in {"runtime.completed", "runtime.failed", "fork.failed"} :
        WriteNext(r, event) /\ (UNCHANGED faults \/ Fault)
  BY DEF Continue
<1>3. /\ TypeOK /\ LogHolds /\ Writes(r) /\ Reports(r) /\ Own(r) \in Forks
      /\ Checked /\ Started /\ Follows(Own(r))
  BY InvParts
<1>4. event \in ForkEvents
  BY DEF ForkEvents
<1>5. Moved(r, "write", event)
  BY <1>2, <1>3, <1>4, RunMoves
<1>6. Own(r)' = Own(r)
  BY <1>5, OwnStays
<1>7. Writes(r)'
  BY <1>1, <1>3, <1>5, <1>6 DEF Writes, Moved
<1>8. Reports(r)'
  BY <1>1, <1>3, <1>5, <1>6 DEF Reports, Moved, Appending
<1>9. Checked' /\ Started'
  <2>1. Own(r) \in StartedAttempts(log)
    BY <1>1, <1>3 DEF Reports
  <2> QED BY <1>1, <1>3, <2>1 DEF Checked, Started
<1>10. LogHolds' /\ Extends /\ \A g : Unmoved(g) /\ SameReceipt(g)
  BY <1>1, <1>3, SilentLog
<1>11. TypeOK'
  BY <1>1, <1>2, <1>3, <1>5, Bounds DEF TypeOK, Moved
<1>12. Keeps(r)
  BY <1>1, <1>5, <1>10 DEF Keeps, Moved
<1>13. PICK f : f = Own(r)
  OBVIOUS
<1>14. Follows(f)'
  BY <1>1, <1>3, <1>10, <1>13, FollowsStays
<1> QED BY <1>7, <1>8, <1>9, <1>10, <1>11, <1>12, <1>13, <1>14, StepHolds

\* The invariant says nothing of the lease, of recovery or of the bound on faults.
LEMMA LeaseStep ==
  ASSUME IInv, UNCHANGED <<log, journal, worktree, ran, run>>, TypeOK'
  PROVE  IInv'
<1>1. LogHolds' /\ Extends /\ \A g : Unmoved(g) /\ SameReceipt(g)
  BY InvParts, SilentLog
<1>2. Checked' /\ Started' /\ (\A f \in Forks : Follows(f)')
  BY InvParts DEF Checked, Started, Follows
<1>3. \A r \in Runs : Writes(r)' /\ Reports(r)'
  BY InvParts DEF Writes, Reports, Own, Appending
<1>4. EvidenceLeads'
  BY <1>2 DEF EvidenceLeads, Follows, Checked, Started
<1> QED BY <1>1, <1>3, <1>4 DEF IInv, LogHolds

-----------------------------------------------------------------------------
(* The steps that append to the log or to a journal.                       *)

LEMMA AppendExtends ==
  ASSUME log \in Seq(LogEvent), NEW e, log' = Append(log, e)
  PROVE  Extends
BY DEF Extends

LEMMA Noted ==
  ASSUME IInv, NEW f \in Forks, NEW e, log' = Append(log, e),
         e \in {Event("selected", Root, f, "selected"), Event("rerun", Root, f, "started"),
                Event("rerun", Root, f, "saved")}
  PROVE  /\ LogHolds' /\ log' \in Seq(LogEvent) /\ Extends
         /\ \A g \in Forks : Unmoved(g) /\ SameReceipt(g)
<1>1. log \in Seq(LogEvent) /\ LogHolds
  BY InvParts
<1>2. e \in LogEvent /\ e.id = f /\ e.type \in {"selected", "rerun"}
  BY DEF Event, LogEvent
<1>3. /\ LogHolds'
      /\ \A type : type \notin {"selected", "rerun"} => Named(log', type) = Named(log, type)
      /\ \A g \in Forks : Of(log', "fork", g) = Of(log, "fork", g)
      /\ \A g \in Effects(log) : EffectStatus(log', g) = EffectStatus(log, g)
  BY <1>1, <1>2, NoteStep
<1>4. log' \in Seq(LogEvent) /\ Extends
  BY <1>1, <1>2, AppendExtends
<1> QED BY <1>3, <1>4 DEF Unmoved, SameReceipt

LEMMA StartRerunStep ==
  ASSUME IInv, NEW r \in Reruns, StartRerun(r)
  PROVE  IInv'
<1>1. /\ run[r].step = "start" /\ r \in Runs
      /\ UNCHANGED <<journal, worktree, ran, holder, recovery, faults>>
  BY DEF StartRerun, At, Runs
<1>2. CASE UNCHANGED log /\ Goto(r, "failed")
  BY <1>1, <1>2, GoneHolds DEF Over
<1>3. CASE log' = Append(log, Event("rerun", Root, Own(r), "started")) /\ Goto(r, "resolve")
  <2>1. TypeOK /\ Writes(r) /\ Own(r) \in Forks
    BY <1>1, InvParts
  <2>2. /\ LogHolds' /\ log' \in Seq(LogEvent) /\ Extends
        /\ \A g \in Forks : Unmoved(g) /\ SameReceipt(g)
    BY <1>3, <2>1, Noted
  <2>3. Moved(r, "resolve", run[r].event)
    BY <1>1, <1>3, <2>1, RunMoves DEF Steps
  <2>4. Own(r)' = Own(r)
    BY <1>1, <2>3, OwnStays
  <2>5. Writes(r)'
    BY <1>1, <2>1, <2>3, <2>4 DEF Writes, Moved
  <2>6. Reports(r)'
    BY <2>3 DEF Reports, Moved, Appending
  <2>7. TypeOK'
    BY <1>1, <2>1, <2>2, <2>3 DEF TypeOK, Moved
  <2>8. \A q \in Runs \ {r} : run'[q] = run[q]
    BY <2>3 DEF Moved
  <2> QED BY <1>1, <2>2, <2>5, <2>6, <2>7, <2>8, QuietStep
<1> QED BY <1>2, <1>3 DEF StartRerun

LEMMA AcquireStep ==
  ASSUME IInv, NEW r \in Runs, AcquireLease(r)
  PROVE  IInv'
<1>1. run[r].step = "resolved" /\ UNCHANGED <<journal, worktree, ran, recovery, faults>>
  BY DEF AcquireLease, At
<1>2. CASE Goto(r, Thrown(r)) /\ UNCHANGED <<log, holder>>
  BY <1>1, <1>2, ThrowHolds
<1>3. CASE /\ holder' = r /\ Goto(r, "prepare")
           /\ log' = IF run[r].pick = Own(r)
                       THEN Append(log, Event("selected", Root, Own(r), "selected")) ELSE log
  <2>1. TypeOK /\ LogHolds /\ log \in Seq(LogEvent) /\ Writes(r) /\ Own(r) \in Forks
    BY InvParts
  <2>2. /\ LogHolds' /\ log' \in Seq(LogEvent) /\ Extends
        /\ \A g \in Forks : Unmoved(g) /\ SameReceipt(g)
    <3>1. CASE UNCHANGED log
      BY <2>1, <3>1, SilentLog
    <3>2. CASE log' = Append(log, Event("selected", Root, Own(r), "selected"))
      BY <2>1, <3>2, Noted
    <3> QED BY <1>3, <3>1, <3>2
  <2>3. Moved(r, "prepare", run[r].event)
    BY <1>3, <2>1, RunMoves DEF Steps
  <2>4. Own(r)' = Own(r)
    BY <2>3, OwnStays
  <2>5. Writes(r)'
    BY <1>1, <2>1, <2>3, <2>4 DEF Writes, Moved
  <2>6. Reports(r)'
    BY <2>3 DEF Reports, Moved, Appending
  <2>7. TypeOK'
    BY <1>1, <1>3, <2>1, <2>2, <2>3 DEF TypeOK, Moved
  <2>8. \A q \in Runs \ {r} : run'[q] = run[q]
    BY <2>3 DEF Moved
  <2> QED BY <1>1, <2>2, <2>5, <2>6, <2>7, <2>8, QuietStep
<1> QED BY <1>2, <1>3 DEF AcquireLease

LEMMA SaveStep ==
  ASSUME IInv, NEW r \in Reruns, SaveRerun(r)
  PROVE  IInv'
<1>1. /\ r \in Runs /\ r \notin Plain
      /\ UNCHANGED <<journal, worktree, ran, holder, recovery, faults>>
  BY ForkAssumption DEF SaveRerun, Runs
<1>2. CASE UNCHANGED log /\ Goto(r, "failed")
  BY <1>1, <1>2, GoneHolds DEF Over
<1>3. CASE log' = Append(log, Event("rerun", Root, Own(r), "saved")) /\ Goto(r, "saved")
  <2>1. TypeOK /\ Own(r) \in Forks
    BY <1>1, InvParts
  <2>2. /\ LogHolds' /\ log' \in Seq(LogEvent) /\ Extends
        /\ \A g \in Forks : Unmoved(g) /\ SameReceipt(g)
    BY <1>3, <2>1, Noted
  <2>3. /\ Writes(r)' /\ Reports(r)' /\ run' \in [Runs -> Place]
        /\ \A q \in Runs \ {r} : run'[q] = run[q]
    BY <1>1, <1>3, GoneStep DEF Over
  <2>4. TypeOK'
    BY <1>1, <2>1, <2>2, <2>3 DEF TypeOK
  <2> QED BY <1>1, <2>2, <2>3, <2>4, QuietStep
<1> QED BY <1>2, <1>3 DEF SaveRerun

\* The journal takes one more event of a fork whose journal is at most one ahead.
LEMMA JournalStep ==
  ASSUME IInv, NEW r \in Runs, WriteJournal(r)
  PROVE  IInv'
<1>1. /\ run[r].step = "write" /\ Goto(r, "bridge")
      /\ journal' = [journal EXCEPT ![Own(r)] = Append(@, run[r].event)]
      /\ UNCHANGED <<log, worktree, ran, holder, recovery, faults>>
  BY DEF WriteJournal, At
<1>2. /\ TypeOK /\ LogHolds /\ log \in Seq(LogEvent) /\ Writes(r) /\ Reports(r)
      /\ Own(r) \in Forks /\ Checked /\ Started /\ Follows(Own(r))
  BY InvParts
<1>3. Moved(r, "bridge", run[r].event)
  BY <1>1, <1>2, RunMoves DEF Steps
<1>4. Own(r)' = Own(r)
  BY <1>3, OwnStays
<1>5. PICK f \in Forks : f = Own(r)
  BY <1>2
<1>6. PICK old \in Seq(ForkEvents), event \in ForkEvents : old = journal[f] /\ event = run[r].event
  BY <1>2 DEF TypeOK, Place
<1>7. /\ journal' \in [Forks -> Seq(ForkEvents)] /\ journal'[f] = Append(old, event)
      /\ \A g \in Forks \ {f} : journal'[g] = journal[g]
  BY <1>1, <1>2, <1>5, <1>6 DEF TypeOK
<1>8. /\ Len(old) \in Nat /\ Len(Append(old, event)) = Len(old) + 1
      /\ Append(old, event) # <<>> /\ Last(Append(old, event)) = event
      /\ \A n \in 1..Len(old) : Append(old, event)[n] = old[n]
  BY DEF Last
<1>9. Bridged(log, f) \in Nat
  BY <1>2, BridgedIsNumber
<1>10. /\ run[r].event = "fork.planned" <=> Bridged(log, f) = 0
       /\ \/ Len(old) - Bridged(log, f) = 0
          \/ run[r].event = "fork.failed" /\ Len(old) - Bridged(log, f) = 1
  BY <1>1, <1>2, <1>5, <1>6 DEF Writes
<1>11. Writes(r)'
  <2>1. \A g \in Forks : g[1] = r /\ g[2] > run[r].trial => journal'[g] = <<>>
    <3>1. run[r].trial \in Nat /\ f[2] = run[r].trial
      BY <1>2, <1>5, OwnIsFork DEF TypeOK, Place
    <3>2. \A g \in Forks : g[1] = r /\ g[2] > run[r].trial => journal[g] = <<>>
      BY <1>2 DEF Writes
    <3>3. \A g \in Forks : g[2] > run[r].trial => g # f
      BY <3>1
    <3> QED BY <1>7, <3>2, <3>3
  <2>2. r \in Plain => run'[r].trial = 1
    BY <1>2, <1>3 DEF Writes, Moved
  <2> QED BY <1>1, <1>3, <1>4, <1>5, <1>6, <1>7, <1>8, <1>9, <1>10, <2>1, <2>2 DEF Writes, Moved
<1>12. Reports(r)'
  <2>1. \A e : Appending(r, e)' <=> Appending(r, e)
    BY <1>1, <1>3 DEF Appending, Moved
  <2> QED BY <1>1, <1>2, <1>3, <1>4, <2>1 DEF Reports, Moved
<1>13. Follows(f)'
  <2>1. PICK kernel : kernel = Of(log, "fork", f)
    OBVIOUS
  <2>2. kernel \in SUBSET (1..Len(log)) /\ Len(log) \in Nat
    BY <1>2, <2>1 DEF Of, Events
  <2>3. Cardinality(kernel) = Bridged(log, f)
    BY <2>1 DEF Bridged
  <2>4. \A i \in kernel : Cardinality({j \in kernel : j <= i}) \in 1..Len(old)
    <3>1. \A i \in kernel : Cardinality({j \in kernel : j <= i}) \in 1..Cardinality(kernel)
      BY <2>2, PositionIsBounded
    <3>2. Bridged(log, f) <= Len(old)
      BY <1>8, <1>9, <1>10
    <3> QED BY <1>8, <1>9, <2>3, <3>1, <3>2
  <2>5. \A i \in kernel : log[i].value = old[Cardinality({j \in kernel : j <= i})]
    BY <1>2, <1>5, <1>6, <2>1 DEF Follows
  <2>6. \A i \in kernel :
          log[i].value = Append(old, event)[Cardinality({j \in kernel : j <= i})]
    BY <1>8, <2>4, <2>5
  <2>7. Len(Append(old, event)) - Cardinality(kernel) \in 0..2
    BY <1>8, <1>9, <1>10, <2>3
  <2>8. log' = log
    BY <1>1
  <2> QED BY <1>7, <2>1, <2>6, <2>7, <2>8 DEF Follows
<1>14. LogHolds' /\ Extends /\ \A g : Unmoved(g) /\ SameReceipt(g)
  BY <1>1, <1>2, SilentLog
<1>15. Checked' /\ Started'
  BY <1>1, <1>2 DEF Checked, Started
<1>16. TypeOK'
  BY <1>1, <1>2, <1>3, <1>7 DEF TypeOK, Moved
<1>17. Keeps(r)
  BY <1>3, <1>5, <1>7, <1>14 DEF Keeps, Moved
<1> QED BY <1>5, <1>11, <1>12, <1>13, <1>14, <1>15, <1>16, <1>17, StepHolds

\* A fork that the log knows has the only receipt of its branch.
LEMMA ReceiptIsOwn ==
  ASSUME IInv, NEW f \in Forks, Bridged(log, f) > 0, f \notin Named(log, "receipt")
  PROVE  BranchReceipts(f) = {}
<1>1. LogInv /\ KernelInv /\ ReceiptInv
  BY DEF IInv
<1>2. ASSUME NEW i \in BranchReceipts(f) PROVE FALSE
  <2>1. i \in Events(log, "receipt") /\ log[i].branch = Branch(f)
    BY DEF BranchReceipts
  <2>2. log[i].id \in Forks /\ Branch(log[i].id) = Branch(f) /\ Bridged(log, log[i].id) > 0
    BY <1>1, <2>1 DEF ReceiptInv, LogInv, Events
  <2>3. log[i].id = f
    BY <1>1, <2>2 DEF KernelInv
  <2> QED BY <2>1, <2>3 DEF Named
<1> QED BY <1>2

\* A run issues the receipt of its fork and leaves it.
LEMMA ReceiptIsGone ==
  ASSUME IInv, NEW r \in Runs, NEW f \in Forks, f = Own(r), NEW outcome \in {"verified", "rejected"},
         log' = Append(log, Event("receipt", Branch(f), f, outcome)),
         Bridged(log, f) > 0, BranchReceipts(f) = {},
         outcome = "verified" =>
           Unresolved(log) = {} /\ f \in Effects(log) /\ EffectStatus(log, f) = "confirmed"
  PROVE  /\ LogHolds' /\ log' \in Seq(LogEvent) /\ Extends
         /\ \A g \in Forks : Unmoved(g)
         /\ \A g \in Forks \ {Own(r)} : SameReceipt(g)
<1>1. log \in Seq(LogEvent) /\ LogHolds
  BY InvParts
<1>2. PICK e : e = Event("receipt", Branch(f), f, outcome)
  OBVIOUS
<1>3. /\ e \in LogEvent /\ e.type = "receipt" /\ e.id = f /\ e.branch = Branch(f)
      /\ e.value = outcome
  BY <1>2 DEF Event, LogEvent, Branch
<1>4. /\ LogHolds'
      /\ \A type : type # "receipt" => Named(log', type) = Named(log, type)
      /\ Named(log', "receipt") = Named(log, "receipt") \cup {f}
      /\ \A g \in Forks : Of(log', "fork", g) = Of(log, "fork", g)
      /\ \A g \in Effects(log) : EffectStatus(log', g) = EffectStatus(log, g)
  BY <1>1, <1>2, <1>3, ReceiptStep
<1>5. log' \in Seq(LogEvent) /\ Extends
  BY <1>1, <1>2, <1>3, AppendExtends
<1> QED BY <1>4, <1>5 DEF Unmoved, SameReceipt

LEMMA IssueStep ==
  ASSUME IInv, NEW r \in Runs, IssueReceipt(r)
  PROVE  IInv'
<1>1. run[r].step = "receipt" /\ UNCHANGED <<journal, worktree, ran, recovery>>
  BY DEF IssueReceipt, At
<1>2. CASE Throw(r) /\ UNCHANGED <<log, faults>>
  BY <1>1, <1>2, ThrowHolds DEF Throw
<1>3. ASSUME NEW f, f = Own(r), Last(journal[f]) = "receipt-input.ready", Unresolved(log) = {},
             log' = Append(log, Event("receipt", Branch(f), f, "verified")), Release(r),
             NEW step \in {IF r \in Reruns THEN "settle" ELSE "done", Thrown(r)}, Goto(r, step),
             UNCHANGED faults \/ Fault
      PROVE  IInv'
  <2>1. /\ TypeOK /\ LogHolds /\ log \in Seq(LogEvent) /\ Writes(r) /\ Reports(r)
        /\ f \in Forks
    BY <1>3, InvParts
  <2>2. /\ Bridged(log, f) > 0 /\ f \notin Named(log, "receipt")
        /\ f \in Effects(log) /\ EffectStatus(log, f) = "confirmed"
    BY <1>1, <1>3, <2>1 DEF Writes, Reports
  <2>3. BranchReceipts(f) = {}
    BY <2>1, <2>2, ReceiptIsOwn
  <2>4. /\ LogHolds' /\ log' \in Seq(LogEvent) /\ Extends
        /\ \A g \in Forks : Unmoved(g)
        /\ \A g \in Forks \ {Own(r)} : SameReceipt(g)
    BY <1>3, <2>1, <2>2, <2>3, ReceiptIsGone
  <2>5. /\ step \in Over \cup {"settle", "save"}
        /\ r \in Plain => step \in {"done", "failed", "crashed"}
    BY <1>3, ForkAssumption DEF Thrown, Over
  <2>6. /\ Writes(r)' /\ Reports(r)' /\ run' \in [Runs -> Place]
        /\ \A q \in Runs \ {r} : run'[q] = run[q]
    BY <1>1, <1>3, <2>5, GoneStep
  <2>7. TypeOK'
    BY <1>1, <1>3, <2>1, <2>4, <2>6, Bounds DEF TypeOK
  <2> QED BY <1>1, <2>4, <2>6, <2>7, QuietStep
<1> QED BY <1>2, <1>3 DEF IssueReceipt

\* The trial ends: the rerun fails, goes on to its next fork or is to be saved.
LEMMA AfterTrialStep ==
  ASSUME IInv, NEW r \in Reruns, AfterTrial(r), UNCHANGED journal
  PROVE  /\ Writes(r)' /\ Reports(r)' /\ run' \in [Runs -> Place]
         /\ \A q \in Runs \ {r} : run'[q] = run[q]
<1>1. TypeOK /\ r \in Runs /\ r \notin Plain /\ Writes(r)
  BY InvParts, ForkAssumption DEF Runs
<1>2. run \in [Runs -> Place] /\ run[r] \in Place /\ Trials \in Nat
  BY <1>1, ForkAssumption DEF TypeOK
<1>3. run[r].trial \in 1..Trials /\ run[r].pick \in Forks /\ run[r].picks \subseteq Forks
  BY <1>2 DEF Place
<1>4. CASE run' = [run EXCEPT ![r].step = "failed"]
  BY <1>1, <1>4, GoneStep DEF Goto, Over
<1>5. CASE run' = [run EXCEPT ![r].step = "save", ![r].picks = @ \cup {run[r].pick}]
  <2>1. [run[r] EXCEPT !.step = "save", !.picks = @ \cup {run[r].pick}] \in Place
    BY <1>2, <1>3 DEF Place, Steps
  <2>2. run' = [run EXCEPT ![r] = [run[r] EXCEPT !.step = "save", !.picks = @ \cup {run[r].pick}]]
    BY <1>2, <1>5
  <2>3. Moved(r, "save", run[r].event)
    BY <1>1, <1>2, <2>1, <2>2 DEF Moved, Place
  <2>4. Writes(r)' /\ Reports(r)'
    BY <1>1, <2>3, Leaves
  <2> QED BY <2>3, <2>4 DEF Moved
<1>6. CASE /\ run[r].trial # Trials
           /\ run' = [run EXCEPT ![r].step = "resolve", ![r].trial = @ + 1,
                                 ![r].picks = @ \cup {run[r].pick}]
  <2>1. PICK next : next = [run[r] EXCEPT !.step = "resolve", !.trial = @ + 1,
                                          !.picks = @ \cup {run[r].pick}]
    OBVIOUS
  <2>2. next \in Place /\ next.step = "resolve" /\ next.trial = run[r].trial + 1
    <3>1. run[r].trial + 1 \in 1..Trials
      BY <1>2, <1>3, <1>6
    <3>2. run[r].picks \cup {run[r].pick} \in SUBSET Forks
      BY <1>3
    <3> QED BY <1>2, <2>1, <3>1, <3>2 DEF Place, Steps
  <2>3. run' = [run EXCEPT ![r] = next]
    BY <1>2, <1>6, <2>1
  <2>4. run' \in [Runs -> Place] /\ run'[r] = next /\ \A q \in Runs \ {r} : run'[q] = run[q]
    BY <1>1, <1>2, <2>2, <2>3
  <2>5. \A g \in Forks : g[1] = r /\ g[2] > run[r].trial => journal'[g] = <<>>
    BY <1>1 DEF Writes
  <2>6. /\ Own(r)' \in Forks /\ Own(r)'[1] = r /\ Own(r)'[2] = run[r].trial + 1
        /\ run[r].trial + 1 > run[r].trial
    BY <1>3, <1>6, <1>2, <2>2, <2>4 DEF Own, Forks
  <2>7. journal'[Own(r)'] = <<>>
    BY <2>5, <2>6
  <2>8. \A g \in Forks : g[1] = r /\ g[2] > run'[r].trial => journal'[g] = <<>>
    BY <1>3, <2>2, <2>4, <2>5 DEF Forks
  <2>9. Writes(r)'
    BY <1>1, <2>2, <2>4, <2>7, <2>8 DEF Writes
  <2>10. Reports(r)'
    BY <2>2, <2>4 DEF Reports, Appending
  <2> QED BY <2>4, <2>9, <2>10
<1> QED BY <1>4, <1>5, <1>6 DEF AfterTrial

LEMMA SettleStep ==
  ASSUME IInv, NEW r \in Reruns, Settle(r)
  PROVE  IInv'
<1>1. /\ r \in Runs /\ r \notin Plain
      /\ UNCHANGED <<journal, worktree, ran, holder, recovery, faults>>
  BY ForkAssumption DEF Settle, Runs
<1>2. CASE Goto(r, "failed") /\ UNCHANGED log
  BY <1>1, <1>2, GoneHolds DEF Over
<1>3. ASSUME NEW f, f = Own(r), Of(log, "fork", f) # {}, AfterTrial(r),
             log' = IF BranchReceipts(f) # {} THEN log
                    ELSE Append(log, Event("receipt", Branch(f), f, "rejected"))
      PROVE  IInv'
  <2>1. TypeOK /\ LogHolds /\ log \in Seq(LogEvent) /\ f \in Forks
    BY <1>1, <1>3, InvParts
  <2>2. Bridged(log, f) > 0
    BY <1>3, <2>1, BridgedIsNumber
  <2>3. /\ LogHolds' /\ log' \in Seq(LogEvent) /\ Extends
        /\ \A g \in Forks : Unmoved(g)
        /\ \A g \in Forks \ {Own(r)} : SameReceipt(g)
    <3>1. CASE BranchReceipts(f) # {}
      BY <1>3, <2>1, <3>1, SilentLog
    <3>2. CASE BranchReceipts(f) = {}
      BY <1>1, <1>3, <2>1, <2>2, <3>2, ReceiptIsGone
    <3> QED BY <3>1, <3>2
  <2>4. /\ Writes(r)' /\ Reports(r)' /\ run' \in [Runs -> Place]
        /\ \A q \in Runs \ {r} : run'[q] = run[q]
    BY <1>1, <1>3, AfterTrialStep
  <2>5. TypeOK'
    BY <1>1, <2>1, <2>3, <2>4 DEF TypeOK
  <2> QED BY <1>1, <2>3, <2>4, <2>5, QuietStep
<1> QED BY <1>2, <1>3 DEF Settle

\* The Kernel accepts the plan of a fork only for a branch that it does not know.
LEMMA PlanIsNew ==
  ASSUME log \in Seq(LogEvent), NEW f \in Forks, AcceptsAll(log, Projected(f, "fork.planned"))
  PROVE  Branch(f) \notin Branches(log)
<1> DEFINE is(type, value) == Event(type, Branch(f), f, value)
<1>1. PICK b : b = Projected(f, "fork.planned")
  OBVIOUS
<1>2. b = <<is("fork", "fork.planned"), is("branch.created", "active"),
            is("effect", "intended"), is("attempt.plan", "planned")>>
  BY <1>1 DEF Projected
<1>3. 2 \in DOMAIN b /\ b[2] = is("branch.created", "active")
  BY <1>2
<1>4. b[2].type = "branch.created" /\ b[2].branch = Branch(f)
  BY <1>3 DEF Event
<1>5. PICK c : c = SubSeq(b, 1, 2 - 1)
  OBVIOUS
<1>6. Accepts(log \o c, b[2])
  BY <1>1, <1>3, <1>5 DEF AcceptsAll
<1>7. Branch(f) \notin Branches(log \o c)
  BY <1>4, <1>6 DEF Accepts, AcceptsBranch
<1>8. c \in Seq(LogEvent)
  <2>1. "fork.planned" \in ForkEvents
    BY DEF ForkEvents
  <2>2. b \in Seq(LogEvent)
    BY <1>1, <2>1, ProjectedTells DEF Tells, Batch
  <2>3. Len(b) = 4
    BY <1>2
  <2> HIDE DEF is
  <2> QED BY <1>5, <2>2, <2>3
<1>9. Branches(log) \subseteq Branches(log \o c)
  BY <1>8, ViewsGrow
<1> QED BY <1>7, <1>9

\* The journal of the fork and the log are equal after its last event is bridged.
LEMMA FollowsBridge ==
  ASSUME log \in Seq(LogEvent), NEW f, Follows(f), NEW event,
         Len(journal[f]) = Bridged(log, f) + 1, Last(journal[f]) = event,
         journal'[f] = journal[f], Extends,
         Of(log', "fork", f) = Of(log, "fork", f) \cup {Len(log) + 1},
         Bridged(log', f) = Bridged(log, f) + 1, log'[Len(log) + 1].value = event
  PROVE  Follows(f)'
<1>1. PICK kernel : kernel = Of(log, "fork", f)
  OBVIOUS
<1>2. PICK n \in Nat : n = Len(log)
  OBVIOUS
<1>3. kernel \in SUBSET (1..n) /\ Bridged(log, f) \in Nat /\ Bridged(log, f) = Cardinality(kernel)
  <2>1. kernel \in SUBSET (1..n)
    BY <1>1, <1>2 DEF Of, Events
  <2> QED BY <1>1, <2>1, BridgedIsNumber DEF Bridged
<1>4. PICK next : next = kernel \cup {n + 1}
  OBVIOUS
<1>5. Of(log', "fork", f) = next /\ Cardinality(next) = Cardinality(kernel) + 1
  BY <1>1, <1>2, <1>3, <1>4 DEF Bridged
<1>6. \A i \in kernel : {j \in next : j <= i} = {j \in kernel : j <= i}
  BY <1>2, <1>3, <1>4
<1>7. {j \in next : j <= n + 1} = next
  <2>1. \A j \in next : j <= n + 1
    BY <1>3, <1>4
  <2> QED BY <2>1
<1>8. \A i \in kernel : log'[i].value = journal'[f][Cardinality({j \in next : j <= i})]
  <2>1. \A i \in kernel : log'[i] = log[i]
    BY <1>1 DEF Extends, Of, Events
  <2>2. \A i \in kernel : log[i].value = journal[f][Cardinality({j \in kernel : j <= i})]
    BY <1>1 DEF Follows
  <2> QED BY <1>6, <2>1, <2>2
<1>9. log'[n + 1].value = journal'[f][Cardinality({j \in next : j <= n + 1})]
  <2>1. Len(journal[f]) = Cardinality(next)
    BY <1>3, <1>5
  <2> QED BY <1>2, <1>7, <2>1 DEF Last
<1>10. Len(journal'[f]) - Cardinality(next) \in 0..2
  BY <1>3, <1>5
<1>11. \A i \in next : log'[i].value = journal'[f][Cardinality({j \in next : j <= i})]
  BY <1>4, <1>8, <1>9
<1> QED BY <1>5, <1>10, <1>11 DEF Follows

\* Which event of its fork a run takes up after one, or where it goes.
LEMMA BridgedOn ==
  ASSUME TypeOK, NEW r \in Runs, NEW event \in ForkEvents, AfterBridge(r, event)
  PROVE  \/ event = "fork.planned" /\ Moved(r, "write", "worktree.create-started")
         \/ event = "worktree.create-started" /\ Moved(r, "checkout", run[r].event)
         \/ event = "worktree.created" /\ Moved(r, "write", "runtime.started")
         \/ event = "runtime.started" /\ Moved(r, "runtime", run[r].event)
         \/ event = "runtime.completed" /\ Moved(r, "write", "receipt-input.ready")
         \/ event \in {"runtime.failed", "receipt-input.ready"} /\ Moved(r, "receipt", run[r].event)
         \/ event = "fork.failed" /\ Goto(r, Thrown(r))
<1>1. /\ \A step \in {"checkout", "runtime", "receipt"} :
           Goto(r, step) => Moved(r, step, run[r].event)
      /\ \A e \in {"worktree.create-started", "runtime.started", "receipt-input.ready"} :
           WriteNext(r, e) => Moved(r, "write", e)
  BY RunMoves DEF Steps, ForkEvents
<1> QED BY <1>1 DEF AfterBridge, ForkEvents, Throw

\* An event that the Kernel did not take is followed by the failure of its fork.
LEMMA RefusedStep ==
  ASSUME IInv, NEW r \in Runs, run[r].step = "bridge", FailFork(r, run[r].event),
         UNCHANGED <<log, journal, worktree, ran, recovery, faults>>
  PROVE  IInv'
<1>1. CASE Throw(r)
  BY <1>1, ThrowHolds DEF Throw
<1>2. CASE /\ run[r].event \notin {"fork.planned", "fork.failed"}
           /\ WriteNext(r, "fork.failed") /\ UNCHANGED holder
  <2>1. /\ TypeOK /\ log \in Seq(LogEvent) /\ Writes(r) /\ Reports(r) /\ Own(r) \in Forks
    BY InvParts
  <2>2. "fork.failed" \in ForkEvents
    BY DEF ForkEvents
  <2>3. Moved(r, "write", "fork.failed")
    BY <1>2, <2>1, <2>2, RunMoves
  <2>4. Own(r)' = Own(r)
    BY <2>3, OwnStays
  <2>5. Writes(r)'
    BY <1>2, <2>1, <2>3, <2>4 DEF Writes, Moved
  <2>6. Reports(r)'
    BY <2>1, <2>3, <2>4 DEF Reports, Moved, Appending
  <2> QED BY <1>2, <2>3, <2>5, <2>6, OnwardHolds
<1> QED BY <1>1, <1>2 DEF FailFork

\* What the journal and the run say is what bridging rests on.
LEMMA BridgeIsAllowed ==
  ASSUME IInv, NEW r \in Runs, run[r].step = "bridge", NEW f, f = Own(r),
         NEW event, event = run[r].event, AcceptsAll(log, Projected(f, event))
  PROVE  Bridgeable(f, event)
<1>1. log \in Seq(LogEvent) /\ Writes(r) /\ Reports(r) /\ f \in Forks
  BY InvParts
<1>2. event = "fork.planned" <=> Bridged(log, f) = 0
  BY <1>1 DEF Writes
<1>3. event = "fork.planned" => Branch(f) \notin Branches(log)
  BY <1>1, PlanIsNew
<1>4. /\ event = "worktree.create-started" => f \notin StartedAttempts(log)
      /\ event = "runtime.started" => f \in Effects(log) /\ EffectStatus(log, f) = "dispatch_started"
      /\ event = "receipt-input.ready" => f \in Named(log, "attempt.finished")
  BY <1>1 DEF Reports, Appending
<1> QED BY <1>2, <1>3, <1>4 DEF Bridgeable

\* The run goes on after the bridged event as it does after the Effect and the Attempt
\* that the event has told.
LEMMA BridgedGoesOn ==
  ASSUME IInv, NEW r \in Runs, run[r].step = "bridge", NEW f \in Forks, f = Own(r),
         NEW event \in ForkEvents, event = run[r].event, AfterBridge(r, event), UNCHANGED journal,
         Len(journal[f]) = Bridged(log, f) + 1, Bridged(log', f) = Bridged(log, f) + 1,
         f \in StartedAttempts(log') <=> f \in StartedAttempts(log) \/ event = "runtime.started",
         f \in Named(log', "attempt.finished")
           <=> \/ f \in Named(log, "attempt.finished")
               \/ event \in {"runtime.completed", "runtime.failed"},
         Named(log', "receipt") = Named(log, "receipt"),
         f \in Effects(log') <=> f \in Effects(log) \/ Told(event) # {},
         IF Told(event) = {} THEN f \in Effects(log) => EffectStatus(log', f) = EffectStatus(log, f)
         ELSE {EffectStatus(log', f)} = Told(event)
  PROVE  /\ Writes(r)' /\ Reports(r)' /\ run' \in [Runs -> Place]
         /\ \A q \in Runs \ {r} : run'[q] = run[q]
<1>1. TypeOK /\ LogHolds /\ log \in Seq(LogEvent) /\ Writes(r) /\ Reports(r)
  BY InvParts
<1>2. Bridged(log, f) \in Nat /\ Len(journal[f]) - Bridged(log', f) = 0 /\ Bridged(log', f) > 0
  BY <1>1, BridgedIsNumber
<1>3. f \notin Named(log', "receipt")
  BY <1>1 DEF Reports
<1>4. CASE event = "fork.failed" /\ Goto(r, Thrown(r))
  BY <1>4, ThrownIsGone, GoneStep
<1>5. ASSUME NEW step \in {"write", "checkout", "runtime", "receipt"}, NEW next,
             Moved(r, step, next), step = "write" => next # "fork.planned"
      PROVE  Writes(r)'
  <2>1. Own(r)' = f
    BY <1>5, OwnStays
  <2> QED BY <1>1, <1>2, <1>5, <2>1 DEF Writes, Moved
<1>6. event = "fork.planned" => f \notin StartedAttempts(log)
  <2>1. event = "fork.planned" => Bridged(log, f) = 0
    BY <1>1 DEF Writes
  <2> QED BY <1>1, <2>1, NamedSets DEF LogHolds, KernelInv
<1>7. CASE event = "fork.planned" /\ Moved(r, "write", "worktree.create-started")
  <2>1. Own(r)' = f
    BY <1>7, OwnStays
  <2>2. Reports(r)'
    BY <1>3, <1>6, <1>7, <2>1 DEF Reports, Moved, Appending
  <2> QED BY <1>5, <1>7, <2>2 DEF Moved
<1>8. CASE event = "worktree.create-started" /\ Moved(r, "checkout", run[r].event)
  <2>1. Own(r)' = f
    BY <1>8, OwnStays
  <2>2. f \in Effects(log') /\ EffectStatus(log', f) = "dispatch_started"
    BY <1>8 DEF Told
  <2>3. f \notin StartedAttempts(log')
    BY <1>1, <1>8 DEF Reports, Appending
  <2>4. Reports(r)'
    BY <1>3, <1>8, <2>1, <2>2, <2>3 DEF Reports, Moved, Appending
  <2> QED BY <1>5, <1>8, <2>4 DEF Moved
<1>9. CASE event = "worktree.created" /\ Moved(r, "write", "runtime.started")
  <2>1. Own(r)' = f
    BY <1>9, OwnStays
  <2>2. f \in Effects(log) /\ EffectStatus(log, f) = "dispatch_started" /\ f \notin StartedAttempts(log)
    BY <1>1, <1>9 DEF Reports, Appending
  <2>3. /\ f \in Effects(log') /\ EffectStatus(log', f) = "dispatch_started"
        /\ f \notin StartedAttempts(log')
    BY <1>9, <2>2 DEF Told
  <2>4. Reports(r)'
    BY <1>3, <1>9, <2>1, <2>3 DEF Reports, Moved, Appending
  <2> QED BY <1>5, <1>9, <2>4 DEF Moved
<1>10. CASE event = "runtime.started" /\ Moved(r, "runtime", run[r].event)
  <2>1. Own(r)' = f
    BY <1>10, OwnStays
  <2>2. f \in Effects(log) /\ EffectStatus(log, f) = "dispatch_started"
    BY <1>1, <1>10 DEF Reports, Appending
  <2>3. /\ f \in Effects(log') /\ EffectStatus(log', f) = "dispatch_started"
        /\ f \in StartedAttempts(log')
    BY <1>10, <2>2 DEF Told
  <2>4. Reports(r)'
    BY <1>3, <1>10, <2>1, <2>3 DEF Reports, Moved, Appending
  <2> QED BY <1>5, <1>10, <2>4 DEF Moved
<1>11. CASE event = "runtime.completed" /\ Moved(r, "write", "receipt-input.ready")
  <2>1. Own(r)' = f /\ f \in Named(log', "attempt.finished")
    BY <1>11, OwnStays
  <2>2. Reports(r)'
    BY <1>3, <1>11, <2>1 DEF Reports, Moved, Appending
  <2> QED BY <1>5, <1>11, <2>2 DEF Moved
<1>12. CASE event \in {"runtime.failed", "receipt-input.ready"} /\ Moved(r, "receipt", run[r].event)
  <2>1. Own(r)' = f
    BY <1>12, OwnStays
  <2>2. Last(journal[f]) = event
    BY <1>1 DEF Writes
  <2>3. event = "receipt-input.ready" => f \in Effects(log') /\ EffectStatus(log', f) = "confirmed"
    BY DEF Told
  <2>4. Reports(r)'
    BY <1>3, <1>12, <2>1, <2>2, <2>3 DEF Reports, Moved, Appending
  <2> QED BY <1>5, <1>12, <2>4 DEF Moved
<1> QED BY <1>1, <1>4, <1>7, <1>8, <1>9, <1>10, <1>11, <1>12, BridgedOn

LEMMA BridgeHolds ==
  ASSUME IInv, NEW r \in Runs, Bridge(r)
  PROVE  IInv'
<1>1. run[r].step = "bridge" /\ UNCHANGED <<journal, worktree, ran, recovery, faults>>
  BY DEF Bridge, At
<1>2. /\ TypeOK /\ LogHolds /\ log \in Seq(LogEvent) /\ Writes(r) /\ Own(r) \in Forks
      /\ Checked /\ Started /\ Follows(Own(r))
  BY InvParts
<1>3. PICK f \in Forks, event \in ForkEvents : f = Own(r) /\ event = run[r].event
  BY <1>2 DEF TypeOK, Place
<1>4. PICK b : b = Projected(f, event)
  OBVIOUS
<1>5. CASE UNCHANGED log /\ FailFork(r, event)
  BY <1>1, <1>3, <1>5, RefusedStep
<1>6. CASE /\ InOrder(f) /\ AcceptsAll(log, b)
           /\ log' = log \o b /\ AfterBridge(r, event)
  <2>1. Tells(b, f, event) /\ Batch(b, f) /\ b \in Seq(LogEvent)
    BY <1>4, ProjectedTells DEF Tells, Batch
  <2>2. Bridgeable(f, event)
    BY <1>1, <1>3, <1>4, <1>6, BridgeIsAllowed
  <2>3. /\ LogHolds'
        /\ Bridged(log', f) = Bridged(log, f) + 1
        /\ Of(log', "fork", f) = Of(log, "fork", f) \cup {Len(log) + 1}
        /\ log'[Len(log) + 1].value = event
        /\ f \in StartedAttempts(log') <=> f \in StartedAttempts(log) \/ event = "runtime.started"
        /\ f \in Named(log', "attempt.finished") <=>
             \/ f \in Named(log, "attempt.finished")
             \/ event \in {"runtime.completed", "runtime.failed"}
        /\ Named(log', "receipt") = Named(log, "receipt")
        /\ f \in Effects(log') <=> f \in Effects(log) \/ Told(event) # {}
        /\ IF Told(event) = {}
             THEN f \in Effects(log) => EffectStatus(log', f) = EffectStatus(log, f)
             ELSE {EffectStatus(log', f)} = Told(event)
    BY <1>2, <1>6, <2>1, <2>2, BridgeStep
  <2>4. Len(journal[f]) = Bridged(log, f) + 1
    BY <1>6 DEF InOrder, Bridged
  <2>5. /\ Writes(r)' /\ Reports(r)' /\ run' \in [Runs -> Place]
        /\ \A q \in Runs \ {r} : run'[q] = run[q]
    BY <1>1, <1>3, <1>6, <2>3, <2>4, BridgedGoesOn
  <2>6. log' \in Seq(LogEvent) /\ Extends
    BY <1>2, <1>6, <2>1, PrefixStays DEF Extends
  <2>7. ASSUME NEW g \in Forks, g # f
        PROVE  Unmoved(g) /\ SameReceipt(g)
    <3>1. \A type : g \notin Named(b, type)
      BY <2>1, <2>7 DEF Batch, Named, Events
    <3>2. Of(log', "fork", g) = Of(log, "fork", g)
      BY <1>2, <1>6, <2>1, <2>7, BridgedGrows
    <3>3. \A type : Named(log', type) = Named(log, type) \cup Named(b, type)
      BY <1>2, <1>6, <2>1, ViewsGrow
    <3>4. g \in Effects(log) => EffectStatus(log', g) = EffectStatus(log, g)
      BY <1>2, <1>6, <2>1, <3>1, EffectStatusGrows
    <3> QED BY <3>1, <3>2, <3>3, <3>4 DEF Unmoved, SameReceipt
  <2>8. Keeps(r)
    BY <1>1, <1>3, <2>5, <2>6, <2>7 DEF Keeps
  <2>9. Follows(f)'
    <3>1. Last(journal[f]) = event
      BY <1>1, <1>2, <1>3 DEF Writes
    <3>2. journal'[f] = journal[f] /\ Follows(f)
      BY <1>1, <1>2, <1>3
    <3> QED BY <1>2, <2>3, <2>4, <2>6, <3>1, <3>2, FollowsBridge
  <2>10. Checked'
    <3>1. ASSUME NEW g \in worktree
          PROVE  g \in Effects(log') /\ EffectStatus(log', g) # "intended"
      <4>1. g \in Forks /\ g \in Effects(log) /\ EffectStatus(log, g) # "intended"
        BY <1>2 DEF TypeOK, Checked
      <4>2. CASE g # f
        BY <2>7, <4>1, <4>2, UnmovedSays
      <4>3. CASE g = f
        <5>1. event # "fork.planned"
          <6>1. Bridged(log, f) # 0
            BY <1>2, <4>1, <4>3, NamedSets DEF LogHolds, KernelInv
          <6> QED BY <2>2, <6>1 DEF Bridgeable
        <5>2. "intended" \notin Told(event)
          BY <5>1 DEF Told
        <5> QED BY <2>3, <4>1, <4>3, <5>2
      <4> QED BY <4>2, <4>3
    <3> QED BY <1>1, <3>1 DEF Checked
  <2>11. Started'
    <3>1. \A g \in ran : g \in Forks /\ g \in StartedAttempts(log)
      BY <1>2 DEF TypeOK, Started
    <3>2. \A g \in ran : g \in StartedAttempts(log')
      BY <2>3, <2>7, <3>1, UnmovedSays
    <3> QED BY <1>1, <3>2 DEF Started
  <2>12. TypeOK'
    <3>1. UNCHANGED holder \/ Release(r)
      BY <1>6 DEF AfterBridge, Throw, ForkEvents
    <3>2. holder' \in Runs \cup {None}
      BY <1>2, <3>1, Bounds DEF TypeOK
    <3> QED BY <1>1, <1>2, <2>5, <2>6, <3>2 DEF TypeOK
  <2> QED BY <1>3, <2>3, <2>5, <2>8, <2>9, <2>10, <2>11, <2>12, StepHolds
<1> QED BY <1>3, <1>4, <1>5, <1>6 DEF Bridge

-----------------------------------------------------------------------------
(* The specifications.                                                     *)

LEMMA InvInit == ASSUME Init PROVE IInv
<1> DEFINE first == Event("checkpoint", Root, Root, "created")
<1>1. /\ log = <<first>> /\ journal = [f \in Forks |-> <<>>] /\ worktree = {} /\ ran = {}
      /\ holder = None /\ recovery = "none" /\ faults = 0
  BY DEF Init
<1>2. first \in LogEvent /\ first.type = "checkpoint"
  BY DEF Event, LogEvent
<1> HIDE DEF first
<1>3. log \in Seq(LogEvent) /\ DOMAIN log = {1} /\ log[1] = first
  BY <1>1, <1>2
<1>4. /\ \A type \in {"fork", "effect", "attempt.plan", "attempt.started", "attempt.finished",
                      "receipt"} : Events(log, type) = {} /\ Named(log, type) = {}
      /\ \A f : Of(log, "fork", f) = {}
  BY <1>2, <1>3 DEF Events, Named, Of
<1>5. \A f : Bridged(log, f) = 0
  BY <1>4, FS_EmptySet DEF Bridged
<1>6. TypeOK
  <2>1. run \in [Runs -> Place]
    <3>1. \A r \in Runs : <<r, 1>> \in Forks /\ 1 \in 1..Trials
      BY ForkAssumption DEF Runs, Forks
    <3> QED BY <3>1 DEF Init, Place, Steps, ForkEvents
  <2> QED BY <1>1, <1>3, <2>1, ForkAssumption DEF TypeOK
<1>7. LogInv
  BY <1>2, <1>3 DEF LogInv
<1>8. KernelInv
  BY <1>4, <1>5, NamedSets DEF KernelInv
<1>9. ReceiptInv /\ ReceiptsAreTrue
  BY <1>4 DEF ReceiptInv, ReceiptsAreTrue
<1>10. SucceededIsQuiet
  BY <1>4, NamedSets DEF SucceededIsQuiet
<1>11. EvidenceLeads
  <2>1. \A f \in Forks : Len(journal[f]) - Cardinality(Of(log, "fork", f)) \in 0..2
    <3>1. Cardinality({}) = 0
      BY FS_EmptySet
    <3>2. \A f \in Forks : Len(journal[f]) = 0
      BY <1>1
    <3>3. \A f \in Forks : Cardinality(Of(log, "fork", f)) = 0
      BY <1>4, <3>1
    <3> QED BY <3>2, <3>3
  <2> QED BY <1>1, <1>4, <2>1 DEF EvidenceLeads
<1>12. ASSUME NEW r \in Runs PROVE Writes(r) /\ Reports(r)
  <2>1. /\ run[r].step = IF r \in Reruns THEN "start" ELSE "resolve"
        /\ run[r].trial = 1 /\ Own(r) \in Forks
    BY ForkAssumption DEF Init, Own, Runs, Forks
  <2>2. Writes(r)
    BY <1>1, <2>1, ForkAssumption DEF Writes
  <2>3. Reports(r)
    BY <2>1 DEF Reports, Appending
  <2> QED BY <2>2, <2>3
<1> QED BY <1>6, <1>7, <1>8, <1>9, <1>10, <1>11, <1>12 DEF IInv, ReceiptsHold

LEMMA InvKept == ASSUME IInv, UNCHANGED vars PROVE IInv'
<1>1. TypeOK'
  BY DEF IInv, TypeOK, vars
<1> QED BY <1>1, LeaseStep DEF vars

\* The steps of a run; only a rerun begins, settles and saves one.
LEMMA AdvanceStep ==
  ASSUME IInv, NEW r \in Runs, Advance(r) \/ Crash(r)
  PROVE  IInv'
<1>1. r \notin Reruns => run[r].step \notin {"start", "settle", "save"}
  BY InvParts DEF Runs, Writes
<1>2. CASE StartRerun(r) \/ Settle(r) \/ SaveRerun(r)
  <2>1. r \in Reruns
    BY <1>1, <1>2 DEF StartRerun, Settle, SaveRerun, At
  <2> QED BY <1>2, <2>1, StartRerunStep, SettleStep, SaveStep
<1> QED BY <1>2, ResolveStep, AcquireStep, PrepareStep, JournalStep, BridgeHolds, CheckoutStep,
           RefuseStep, ContinueStep, DrainStep, IssueStep, CrashStep DEF Advance

LEMMA LeaseSteps == ASSUME IInv, ExpireLease \/ Resume PROVE IInv'
<1>1. UNCHANGED <<log, journal, worktree, ran, run>>
  BY DEF ExpireLease, Resume
<1>2. TypeOK /\ TypeOK'
  BY Bounds DEF IInv, TypeOK, ExpireLease, Resume
<1> QED BY <1>1, <1>2, LeaseStep

\* Every step of a Mission's forks preserves the invariant.
THEOREM ForksHold == Spec => []IInv
<1>1. Init => IInv
  BY InvInit
<1>2. IInv /\ [Next]_vars => IInv'
  BY InvKept, AdvanceStep, LeaseSteps DEF Next
<1> QED BY <1>1, <1>2, PTL DEF Spec

LEMMA RegressionStep ==
  ASSUME IInv, RegressionNext
  PROVE  IInv'
<1>1. CASE ForkStep
  BY <1>1, ResolveStep, AcquireStep, PrepareStep, JournalStep, BridgeHolds, CheckoutStep,
     RefuseStep, DrainStep, IssueStep, CrashStep, LeaseSteps DEF ForkStep
<1>2. ASSUME NEW r \in Reruns, At(r, "save"), Complete(r)
      PROVE  IInv'
  <2>1. r \in Runs /\ r \notin Plain
    BY ForkAssumption DEF Runs
  <2>2. CASE SaveRerun(r)
    BY <2>2, SaveStep
  <2>3. CASE /\ Goto(r, "failed")
             /\ UNCHANGED <<log, journal, worktree, ran, holder, recovery, faults>>
    BY <2>1, <2>3, GoneHolds DEF Over
  <2> QED BY <1>2, <2>2, <2>3 DEF Complete
<1>3. CASE \E r \in Reruns : StartScenario(r) \/ ViewTrial(r)
  BY <1>3, StartRerunStep, SettleStep DEF StartScenario, ViewTrial
<1>4. CASE \E r \in Runs : Verify(r)
  BY <1>4, ContinueStep DEF Verify
<1>5. CASE \/ \E k \in Clients : SaveIncident(k) \/ SelectBranch(k)
           \/ \E k \in Clients, b \in {Shared} \cup Forks : ReadIncident(k, b) \/ ReadComparison(k, b)
  BY <1>5, InvKept DEF SaveIncident, SelectBranch, ReadIncident, ReadComparison
<1> QED BY <1>1, <1>2, <1>3, <1>4, <1>5 DEF RegressionNext

\* With Outcome Studio over the forks: what the Kernel knows of a fork is a prefix of its
\* journal, at most two events behind, and nothing is checked out or continued that the
\* log does not know of.
THEOREM StudioEvidence == RegressionSpec => []EvidenceLeads
<1>1. RegressionInit => IInv
  BY InvInit DEF RegressionInit
<1>2. IInv /\ [RegressionNext]_regressionVars => IInv'
  BY InvKept, RegressionStep DEF regressionVars
<1>3. IInv => EvidenceLeads
  BY DEF IInv
<1> QED BY <1>1, <1>2, <1>3, PTL DEF RegressionSpec

\* A branch has at most one receipt, a verified one claims no Effect that was open, and a
\* succeeded Mission has no started Attempt that is unfinished.
THEOREM StudioReceipts == RegressionSpec => []ReceiptsHold
<1>1. RegressionInit => IInv
  BY InvInit DEF RegressionInit
<1>2. IInv /\ [RegressionNext]_regressionVars => IInv'
  BY InvKept, RegressionStep DEF regressionVars
<1>3. IInv => ReceiptsHold
  BY DEF IInv
<1> QED BY <1>1, <1>2, <1>3, PTL DEF RegressionSpec

-----------------------------------------------------------------------------
(* The trials of a rerun.                                                  *)

View == [branch : {Root, Shared, Old} \cup Forks, suite : {ContractSuite},
         revision : [profile : {"source", "target"}, notes : SUBSET Nat], criteria : Verdicts]

StudioTypeOK ==
  /\ verdict \in [Forks -> Verdicts]
  /\ trial \in [Reruns -> [scenario : Nat, views : Seq(View)]]
  /\ \E S : studio \in Seq(S)

\* The trials that a rerun has behind it: as many views as trials, and of each a started
\* Attempt and a receipt of its branch.
Past(r) == IF run[r].step \in {"save", "saved"} THEN Trials ELSE run[r].trial - 1
Kept(r) ==
  /\ IsFiniteSet(run[r].picks)
  /\ run[r].step \notin {"failed", "crashed"} =>
       /\ Len(trial[r].views) = Past(r)
       /\ \A t \in 1..Past(r) :
            BranchReceipts(<<r, t>>) # {} /\ <<r, t>> \in StartedAttempts(log)

\* A recorded result is that of a rerun that stays as it was saved.
Result(i) ==
  LET r == studio[i].content.rerun
  IN /\ r \in Reruns /\ run[r].step = "saved"
     /\ \A f, g \in run[r].picks : f = g
     /\ \A s, t \in 1..Trials : trial[r].views[s].revision = trial[r].views[t].revision

TrialInv ==
  /\ IInv /\ StudioTypeOK
  /\ \A r \in Reruns : Kept(r)
  /\ \A i \in Recorded("ci") : Result(i)

\* A rerun that a step does not take into or out of its end.
Within(r) ==
  /\ run'[r].picks = run[r].picks /\ run'[r].trial = run[r].trial
  /\ \/ run'[r].step \in {"failed", "crashed"}
     \/ /\ run[r].step \notin {"save", "saved", "failed", "crashed"}
        /\ run'[r].step \notin {"save", "saved"}
     \/ run[r].step = "save" /\ run'[r].step = "saved"
Onward(r) == run'[r] = run[r] \/ (run[r].step # "saved" /\ Within(r))

\* What a step of a run other than the settling of a trial is to the reruns.
LEMMA RunsOnward ==
  ASSUME TypeOK, NEW q \in Runs,
         \/ StartRerun(q) \/ Resolve(q) \/ AcquireLease(q) \/ Prepare(q) \/ WriteJournal(q)
         \/ Bridge(q) \/ Checkout(q) \/ RefuseRuntime(q) \/ Continue(q) \/ DrainFails(q)
         \/ IssueReceipt(q) \/ SaveRerun(q) \/ Crash(q)
         \/ run[q].step \in {"settle", "save"} /\ Goto(q, "failed"),
         NEW r \in Runs
  PROVE  Onward(r)
<1>1. run \in [Runs -> Place] /\ run[q] \in Place
  BY DEF TypeOK
<1>2. ASSUME NEW step, Goto(q, step), NEW before, At(q, before), before # "saved",
             \/ step \in {"failed", "crashed"}
             \/ before \notin {"save", "failed", "crashed"} /\ step \notin {"save", "saved"}
             \/ before = "save" /\ step = "saved"
      PROVE  Onward(r)
  <2>1. run' = [run EXCEPT ![q] = [run[q] EXCEPT !.step = step]]
    BY <1>1, <1>2 DEF Goto
  <2>2. CASE r = q
    BY <1>1, <1>2, <2>1, <2>2 DEF Onward, Within, Place, At
  <2>3. CASE r # q
    BY <1>1, <2>1, <2>3 DEF Onward
  <2> QED BY <2>2, <2>3
<1>3. ASSUME NEW event, WriteNext(q, event),
             run[q].step \notin {"save", "saved", "failed", "crashed"}
      PROVE  Onward(r)
  <2>1. run' = [run EXCEPT ![q] = [run[q] EXCEPT !.step = "write", !.event = event]]
    BY <1>1, <1>3 DEF WriteNext
  <2>2. CASE r = q
    BY <1>1, <1>3, <2>1, <2>2 DEF Onward, Within, Place
  <2>3. CASE r # q
    BY <1>1, <2>1, <2>3 DEF Onward
  <2> QED BY <2>2, <2>3
<1>4. Thrown(q) \in {"settle", "failed"}
  BY DEF Thrown
<1>5. CASE StartRerun(q)
  BY <1>2, <1>5 DEF StartRerun
<1>6. CASE Resolve(q)
  <2>1. CASE Goto(q, Thrown(q))
    BY <1>2, <1>4, <1>6, <2>1 DEF Resolve
  <2>2. ASSUME NEW p, run' = [run EXCEPT ![q].step = "resolved", ![q].pick = p]
        PROVE  Onward(r)
    <3>1. run' = [run EXCEPT ![q] = [run[q] EXCEPT !.step = "resolved", !.pick = p]]
      BY <1>1, <2>2
    <3>2. run[q].step = "resolve"
      BY <1>6 DEF Resolve, At
    <3>3. CASE r = q
      BY <1>1, <3>1, <3>2, <3>3 DEF Onward, Within, Place
    <3>4. CASE r # q
      BY <1>1, <3>1, <3>4 DEF Onward
    <3> QED BY <3>3, <3>4
  <2> QED BY <1>6, <2>1, <2>2 DEF Resolve
<1>7. CASE AcquireLease(q)
  BY <1>2, <1>4, <1>7 DEF AcquireLease
<1>8. CASE Prepare(q)
  BY <1>2, <1>3, <1>4, <1>8 DEF Prepare, Throw, At
<1>9. CASE WriteJournal(q)
  BY <1>2, <1>9 DEF WriteJournal
<1>10. CASE Bridge(q)
  <2>1. At(q, "bridge") /\ run[q].event \in ForkEvents
    BY <1>1, <1>10 DEF Bridge, Place
  <2>2. CASE AfterBridge(q, run[q].event)
    <3>1. \/ \E step \in {"checkout", "runtime", "receipt", "settle", "failed"} : Goto(q, step)
          \/ \E event : WriteNext(q, event)
      BY <1>4, <2>1, <2>2 DEF AfterBridge, Throw, ForkEvents
    <3>2. ASSUME NEW step \in {"checkout", "runtime", "receipt", "settle", "failed"}, Goto(q, step)
          PROVE  Onward(r)
      BY <1>2, <2>1, <3>2
    <3> QED BY <1>3, <2>1, <3>1, <3>2 DEF At
  <2>3. CASE FailFork(q, run[q].event)
    BY <1>2, <1>3, <1>4, <2>1, <2>3 DEF FailFork, Throw, At
  <2> QED BY <1>10, <2>2, <2>3 DEF Bridge
<1>11. CASE Checkout(q) \/ RefuseRuntime(q) \/ Continue(q)
  BY <1>3, <1>11 DEF Checkout, RefuseRuntime, Continue, At
<1>12. CASE DrainFails(q)
  BY <1>2, <1>4, <1>12 DEF DrainFails, Throw
<1>13. CASE IssueReceipt(q)
  <2>1. At(q, "receipt") /\ \E step \in {"settle", "done", "failed"} : Goto(q, step)
    BY <1>4, <1>13 DEF IssueReceipt, Throw
  <2> QED BY <1>2, <2>1
<1>14. CASE SaveRerun(q)
  BY <1>2, <1>14 DEF SaveRerun
<1>15. CASE Crash(q)
  BY <1>2, <1>15 DEF Crash, Over, At
<1>16. CASE run[q].step \in {"settle", "save"} /\ Goto(q, "failed")
  BY <1>2, <1>16 DEF At
<1> QED BY <1>5, <1>6, <1>7, <1>8, <1>9, <1>10, <1>11, <1>12, <1>13, <1>14, <1>15, <1>16

\* The log only grows.
LEMMA LogExtends ==
  ASSUME IInv, RegressionNext
  PROVE  Extends
<1>1. TypeOK /\ log \in Seq(LogEvent)
  BY InvParts
<1>2. ASSUME UNCHANGED log PROVE Extends
  BY <1>2 DEF Extends
<1>3. ASSUME NEW e, log' = Append(log, e) PROVE Extends
  BY <1>1, <1>3, AppendExtends
<1>4. ASSUME NEW r \in Runs, Bridge(r) PROVE Extends
  <2>1. PICK f \in Forks, event \in ForkEvents : f = Own(r) /\ event = run[r].event
    BY <1>1, InvParts DEF TypeOK, Place
  <2>2. PICK b : b = Projected(f, event)
    OBVIOUS
  <2>3. b \in Seq(LogEvent)
    BY <2>2, ProjectedTells DEF Tells, Batch
  <2>4. CASE log' = log \o b
    BY <1>1, <2>3, <2>4, PrefixStays DEF Extends
  <2> QED BY <1>2, <1>4, <2>1, <2>2, <2>4 DEF Bridge
<1>5. ASSUME NEW r \in Runs, StartRerun(r) \/ AcquireLease(r) \/ IssueReceipt(r) \/ Settle(r) \/ SaveRerun(r)
      PROVE  Extends
  <2>1. UNCHANGED log \/ \E e : log' = Append(log, e)
    BY <1>5 DEF StartRerun, AcquireLease, IssueReceipt, Settle, SaveRerun
  <2> QED BY <1>2, <1>3, <2>1
<1>6. CASE ForkStep
  BY <1>2, <1>4, <1>5, <1>6 DEF ForkStep, Resolve, Prepare, WriteJournal, Checkout, RefuseRuntime,
     DrainFails, Crash, ExpireLease, Resume
<1>7. CASE \E r \in Reruns : StartScenario(r) \/ ViewTrial(r) \/ (At(r, "save") /\ Complete(r))
  BY <1>2, <1>5, <1>7 DEF StartScenario, ViewTrial, Complete, Runs
<1>8. CASE \E r \in Runs : Verify(r)
  BY <1>2, <1>8 DEF Verify, Continue
<1>9. CASE \/ \E k \in Clients : SaveIncident(k) \/ SelectBranch(k)
           \/ \E k \in Clients, b \in {Shared} \cup Forks : ReadIncident(k, b) \/ ReadComparison(k, b)
  BY <1>2, <1>9 DEF SaveIncident, SelectBranch, ReadIncident, ReadComparison, vars
<1> QED BY <1>6, <1>7, <1>8, <1>9 DEF RegressionNext

\* Receipts and starts are never taken back.
LEMMA PastStays ==
  ASSUME Extends, NEW f
  PROVE  /\ BranchReceipts(f) # {} => BranchReceipts(f)' # {}
         /\ f \in StartedAttempts(log) => f \in StartedAttempts(log')
<1>1. \A type : \A i \in Events(log, type) : i \in Events(log', type) /\ log'[i] = log[i]
  BY DEF Extends, Events
<1>2. \A i \in BranchReceipts(f) : i \in BranchReceipts(f)'
  BY <1>1 DEF BranchReceipts
<1> QED BY <1>1, <1>2 DEF StartedAttempts

LEMMA KeptStays ==
  ASSUME NEW r \in Reruns, Kept(r), Onward(r), Extends, trial'[r].views = trial[r].views
  PROVE  Kept(r)'
<1>1. \A t : /\ BranchReceipts(<<r, t>>) # {} => BranchReceipts(<<r, t>>)' # {}
             /\ <<r, t>> \in StartedAttempts(log) => <<r, t>> \in StartedAttempts(log')
  BY PastStays
<1>2. run'[r].picks = run[r].picks
  BY DEF Onward, Within
<1>3. run'[r].step \notin {"failed", "crashed"} =>
        run[r].step \notin {"failed", "crashed"} /\ Past(r)' = Past(r)
  BY DEF Onward, Within, Past
<1> QED BY <1>1, <1>2, <1>3 DEF Kept

LEMMA ResultStays ==
  ASSUME NEW i, Result(i), studio'[i] = studio[i],
         NEW r, r = studio[i].content.rerun, Onward(r), trial'[r].views = trial[r].views
  PROVE  Result(i)'
<1>1. r \in Reruns /\ run'[r] = run[r]
  BY DEF Result, Onward
<1> QED BY <1>1 DEF Result

LEMMA StudioGrows ==
  ASSUME NEW S, studio \in Seq(S), NEW e, studio' = Append(studio, e)
  PROVE  /\ studio' \in Seq(S \cup {e}) /\ Len(studio) + 1 \in Nat
         /\ \A i \in DOMAIN studio' : (i \in DOMAIN studio /\ studio'[i] = studio[i])
                                       \/ (i = Len(studio) + 1 /\ studio'[i] = e)
<1>1. studio \in Seq(S \cup {e})
  OBVIOUS
<1> QED BY <1>1

LEMMA WholeStays ==
  ASSUME TrialInv, IInv', Extends, \A r \in Reruns : Onward(r),
         verdict' \in [Forks -> Verdicts],
         trial' \in [Reruns -> [scenario : Nat, views : Seq(View)]],
         \A r \in Reruns : trial'[r].views = trial[r].views,
         UNCHANGED studio \/ \E kind, content : kind # "ci" /\ Note(kind, content)
  PROVE  TrialInv'
<1>1. PICK S : studio \in Seq(S)
  BY DEF TrialInv, StudioTypeOK
<1>2. /\ \E T : studio' \in Seq(T)
      /\ \A i \in Recorded("ci")' : i \in Recorded("ci") /\ studio'[i] = studio[i]
  <2>1. CASE UNCHANGED studio
    BY <1>1, <2>1 DEF Recorded
  <2>2. ASSUME NEW e, e.kind # "ci", studio' = Append(studio, e)
        PROVE  /\ \E T : studio' \in Seq(T)
               /\ \A i \in Recorded("ci")' : i \in Recorded("ci") /\ studio'[i] = studio[i]
    BY <1>1, <2>2, StudioGrows DEF Recorded
  <2> QED BY <2>1, <2>2 DEF Note
<1>3. StudioTypeOK'
  BY <1>2 DEF StudioTypeOK
<1>4. \A r \in Reruns : Kept(r)'
  BY KeptStays DEF TrialInv
<1>5. ASSUME NEW i \in Recorded("ci")' PROVE Result(i)'
  <2>1. i \in Recorded("ci") /\ Result(i) /\ studio'[i] = studio[i]
    BY <1>2 DEF TrialInv
  <2>2. PICK r : r = studio[i].content.rerun
    OBVIOUS
  <2>3. r \in Reruns
    BY <2>1, <2>2 DEF Result
  <2> QED BY <2>1, <2>2, <2>3, ResultStays
<1> QED BY <1>3, <1>4, <1>5 DEF TrialInv

\* The view of a branch that has a receipt.
LEMMA ViewIsView ==
  ASSUME IInv', verdict \in [Forks -> Verdicts], NEW f \in Forks, BranchReceipts(f)' # {}
  PROVE  BranchView(log', Branch(f)) \in View
<1>1. log' \in Seq(LogEvent) /\ LogInv'
  BY DEF IInv, TypeOK
<1>2. PICK R : R = ReceiptOf(log', Branch(f))
  OBVIOUS
<1>3. R # {} /\ R \in SUBSET (1..Len(log')) /\ Len(log') \in Nat
  BY <1>1, <1>2 DEF BranchReceipts, ReceiptOf, Events
<1>4. LastOf(R) \in R
  BY <1>3, LastIsMember
<1>5. log'[LastOf(R)].id \in Forks
  BY <1>1, <1>2, <1>4 DEF ReceiptOf, Events, LogInv
<1>6. verdict[log'[LastOf(R)].id] \in Verdicts
  BY <1>5
<1>7. Branch(f) \in {Root, Shared, Old} \cup Forks
  BY DEF Branch
<1>8. Revision(log', Branch(f)) \in [profile : {"source", "target"}, notes : SUBSET Nat]
  BY <1>1 DEF Revision, Events
<1> QED BY <1>2, <1>6, <1>7, <1>8 DEF BranchView, View

\* A trial that counts is one more behind.
LEMMA CountedStep ==
  ASSUME TrialInv, IInv', Extends, NEW r \in Reruns, ViewTrial(r), run'[r].step # "failed"
  PROVE  TrialInv'
<1>1. PICK f : f = Own(r)
  OBVIOUS
<1>2. /\ r \in Runs /\ TypeOK /\ log \in Seq(LogEvent) /\ f \in Forks /\ Kept(r)
      /\ run \in [Runs -> Place] /\ run[r] \in Place
      /\ StudioTypeOK
  BY <1>1, InvParts DEF TrialInv, Runs, TypeOK
<1>3. run[r].step = "settle" /\ ~(run' = [run EXCEPT ![r].step = "failed"])
  <2>1. run[r].step = "settle"
    BY DEF ViewTrial, Settle, At
  <2>2. ASSUME run' = [run EXCEPT ![r].step = "failed"] PROVE FALSE
    <3>1. run'[r] = [run[r] EXCEPT !.step = "failed"]
      BY <1>2, <2>2
    <3>2. run'[r].step = "failed"
      BY <1>2, <3>1 DEF Place
    <3> QED BY <3>2
  <2> QED BY <2>1, <2>2
<1>4. /\ AfterTrial(r) /\ UNCHANGED <<verdict, studio>>
      /\ log' = IF BranchReceipts(f) # {} THEN log
                ELSE Append(log, Event("receipt", Branch(f), f, "rejected"))
      /\ trial' = [trial EXCEPT ![r].views = Append(@, BranchView(log', Branch(f)))]
  BY <1>1, <1>3 DEF ViewTrial, Settle, Goto, At
<1>5. Counts(f) /\ f \in StartedAttempts(log)
  <2>1. Counts(f)
    BY <1>1, <1>3, <1>4 DEF AfterTrial
  <2>2. PICK i \in Events(log, "attempt.started") : log[i].id = f
    BY <2>1 DEF Counts, Of
  <2> QED BY <2>1, <2>2 DEF StartedAttempts
<1>6. BranchReceipts(f)' # {}
  <2>1. CASE BranchReceipts(f) # {}
    BY <2>1, PastStays
  <2>2. CASE BranchReceipts(f) = {}
    <3>1. PICK e : e = Event("receipt", Branch(f), f, "rejected")
      OBVIOUS
    <3>2. e.type = "receipt" /\ e.branch = Branch(f)
      BY <3>1 DEF Event
    <3>3. Len(log) + 1 \in DOMAIN log' /\ log'[Len(log) + 1] = e
      BY <1>2, <1>4, <2>2, <3>1
    <3> QED BY <3>2, <3>3 DEF BranchReceipts, Events
  <2> QED BY <2>1, <2>2
<1>7. PICK v \in View : v = BranchView(log', Branch(f))
  BY <1>2, <1>6, ViewIsView DEF StudioTypeOK
<1>8. /\ trial' \in [Reruns -> [scenario : Nat, views : Seq(View)]]
      /\ trial[r].views \in Seq(View) /\ trial'[r].views = Append(trial[r].views, v)
      /\ \A q \in Reruns \ {r} : trial'[q] = trial[q]
  <2>1. /\ trial \in [Reruns -> [scenario : Nat, views : Seq(View)]]
        /\ trial' = [trial EXCEPT ![r].views = Append(@, v)]
    BY <1>2, <1>4, <1>7 DEF StudioTypeOK
  <2>2. trial[r] \in [scenario : Nat, views : Seq(View)] /\ trial[r].views \in Seq(View)
    BY <2>1
  <2>3. PICK old \in Seq(View) : old = trial[r].views
    BY <2>2
  <2>4. PICK next \in Seq(View) : next = Append(old, v)
    <3>1. Append(old, v) \in Seq(View)
      OBVIOUS
    <3> QED BY <3>1
  <2>5. [trial[r] EXCEPT !.views = next] \in [scenario : Nat, views : Seq(View)]
    BY <2>2
  <2>6. trial' = [trial EXCEPT ![r] = [trial[r] EXCEPT !.views = next]]
    BY <2>1, <2>3, <2>4
  <2>7. trial'[r].views = next
    BY <2>1, <2>2, <2>6
  <2> QED BY <2>1, <2>3, <2>4, <2>5, <2>6, <2>7
<1>9. StudioTypeOK'
  BY <1>2, <1>4, <1>8 DEF StudioTypeOK
<1>10. /\ \A q \in Runs \ {r} : run'[q] = run[q]
       /\ run'[r].picks = run[r].picks \cup {run[r].pick}
       /\ \/ run[r].trial = Trials /\ run'[r].step = "save"
          \/ run'[r].step = "resolve" /\ run'[r].trial = run[r].trial + 1
  <2>1. CASE run' = [run EXCEPT ![r].step = "save", ![r].picks = @ \cup {run[r].pick}]
    BY <1>2, <1>3, <1>4, <2>1 DEF AfterTrial, Place
  <2>2. CASE run' = [run EXCEPT ![r].step = "resolve", ![r].trial = @ + 1,
                                ![r].picks = @ \cup {run[r].pick}]
    BY <1>2, <2>2 DEF Place
  <2> QED BY <1>3, <1>4, <2>1, <2>2 DEF AfterTrial
<1>11. run[r].trial \in 1..Trials /\ Trials \in Nat /\ f = <<r, run[r].trial>>
  BY <1>1, <1>2, ForkAssumption DEF Place, Own
<1>12. Past(r) = run[r].trial - 1 /\ Past(r)' = run[r].trial
  BY <1>3, <1>10, <1>11 DEF Past
<1>13. Kept(r)'
  <2>1. IsFiniteSet(run[r].picks \cup {run[r].pick})
    BY <1>2, FS_AddElement DEF Kept
  <2>2. /\ Len(trial[r].views) = run[r].trial - 1
        /\ \A t \in 1..(run[r].trial - 1) :
             BranchReceipts(<<r, t>>) # {} /\ <<r, t>> \in StartedAttempts(log)
    BY <1>2, <1>3, <1>12 DEF Kept
  <2>3. Len(trial'[r].views) = run[r].trial
    BY <1>8, <1>11, <2>2
  <2>4. \A t : /\ BranchReceipts(<<r, t>>) # {} => BranchReceipts(<<r, t>>)' # {}
               /\ <<r, t>> \in StartedAttempts(log) => <<r, t>> \in StartedAttempts(log')
    BY PastStays
  <2>5. ASSUME NEW t \in 1..run[r].trial
        PROVE  BranchReceipts(<<r, t>>)' # {} /\ <<r, t>> \in StartedAttempts(log')
    <3>1. CASE t = run[r].trial
      BY <1>5, <1>6, <1>11, <2>4, <3>1
    <3>2. CASE t # run[r].trial
      <4>1. t \in 1..(run[r].trial - 1)
        BY <1>11, <3>2
      <4> QED BY <2>2, <2>4, <4>1
    <3> QED BY <3>1, <3>2
  <2> QED BY <1>10, <1>12, <2>1, <2>3, <2>5 DEF Kept
<1>14. ASSUME NEW q \in Reruns, q # r PROVE Kept(q)'
  <2>1. Onward(q) /\ Kept(q) /\ trial'[q].views = trial[q].views
    BY <1>8, <1>10, <1>14 DEF Onward, TrialInv, Runs
  <2> QED BY <2>1, KeptStays
<1>15. ASSUME NEW i \in Recorded("ci")' PROVE Result(i)'
  <2>1. Result(i) /\ studio'[i] = studio[i]
    BY <1>4 DEF TrialInv, Recorded
  <2>2. PICK q : q = studio[i].content.rerun
    OBVIOUS
  <2>3. q \in Reruns /\ q # r
    BY <1>3, <2>1, <2>2 DEF Result
  <2>4. Onward(q) /\ trial'[q].views = trial[q].views
    BY <1>8, <1>10, <2>3 DEF Onward, Runs
  <2> QED BY <2>1, <2>2, <2>4, ResultStays
<1> QED BY <1>9, <1>13, <1>14, <1>15 DEF TrialInv

\* A rerun is recorded with one selection and one revision.
LEMMA SavedStep ==
  ASSUME TrialInv, IInv', Extends, NEW r \in Reruns, At(r, "save"), Agrees(r), SaveRerun(r),
         Goto(r, "saved"), UNCHANGED <<verdict, trial>>,
         NEW result, Note("ci", [rerun |-> r, result |-> result])
  PROVE  TrialInv'
<1>1. /\ r \in Runs /\ TypeOK /\ Kept(r) /\ run[r].step = "save"
      /\ run \in [Runs -> Place] /\ run[r] \in Place
  BY InvParts DEF TrialInv, Runs, TypeOK, At
<1>2. ASSUME NEW q \in Reruns PROVE Onward(q) /\ Kept(q)'
  <2>1. Onward(q)
    BY <1>1, RunsOnward DEF Runs
  <2> QED BY <2>1, KeptStays DEF TrialInv
<1>3. PICK S : studio \in Seq(S)
  BY DEF TrialInv, StudioTypeOK
<1>4. PICK e : e = [kind |-> "ci", content |-> [rerun |-> r, result |-> result]]
  OBVIOUS
<1>5. e.content.rerun = r /\ studio' = Append(studio, e)
  BY <1>4 DEF Note
<1>6. /\ studio' \in Seq(S \cup {e})
      /\ \A i \in DOMAIN studio' : (i \in DOMAIN studio /\ studio'[i] = studio[i]) \/ studio'[i] = e
  BY <1>3, <1>5, StudioGrows
<1>7. StudioTypeOK'
  BY <1>6 DEF StudioTypeOK, TrialInv
<1>8. run'[r].step = "saved" /\ run'[r].picks = run[r].picks
  BY <1>1 DEF Goto, Place
<1>9. \A f, g \in run[r].picks : f = g
  <2>1. IsFiniteSet(run[r].picks)
    BY <1>1 DEF Kept
  <2>2. Cardinality(run[r].picks) = 1
    <3>1. ~(run'[r].step = "failed")
      BY <1>8
    <3>2. ASSUME Goto(r, "failed") PROVE FALSE
      <4>1. run'[r].step = "failed"
        BY <1>1, <3>2 DEF Goto, Place
      <4> QED BY <3>1, <4>1
    <3> QED BY <3>2 DEF SaveRerun
  <2>3. PICK x : run[r].picks = {x}
    BY <2>1, <2>2, FS_Singleton
  <2> QED BY <2>3
<1>10. \A s, t \in 1..Trials : trial[r].views[s].revision = trial[r].views[t].revision
  <2>1. Len(trial[r].views) = Trials
    BY <1>1 DEF Kept, Past
  <2>2. DOMAIN trial[r].views = 1..Trials
    <3>1. trial[r].views \in Seq(View)
      BY DEF TrialInv, StudioTypeOK
    <3> QED BY <2>1, <3>1
  <2>3. \A v, w \in Range(trial[r].views) : v.revision = w.revision
    BY DEF Agrees
  <2> QED BY <2>2, <2>3 DEF Range
<1>11. ASSUME NEW i \in Recorded("ci")' PROVE Result(i)'
  <2>1. CASE i \in DOMAIN studio /\ studio'[i] = studio[i]
    <3>1. i \in Recorded("ci") /\ Result(i)
      BY <1>11, <2>1 DEF Recorded, TrialInv
    <3>2. PICK q : q = studio[i].content.rerun
      OBVIOUS
    <3>3. q \in Reruns
      BY <3>1, <3>2 DEF Result
    <3> QED BY <1>2, <2>1, <3>1, <3>2, <3>3, ResultStays
  <2>2. CASE studio'[i] = e
    BY <1>5, <1>8, <1>9, <1>10, <2>2 DEF Result
  <2> QED BY <1>6, <1>11, <2>1, <2>2 DEF Recorded
<1> QED BY <1>2, <1>7, <1>11 DEF TrialInv

LEMMA TrialStep ==
  ASSUME TrialInv, RegressionNext
  PROVE  TrialInv'
<1>1. IInv /\ IInv' /\ Extends /\ TypeOK
  BY RegressionStep, LogExtends, InvParts DEF TrialInv
<1>2. /\ verdict \in [Forks -> Verdicts]
      /\ trial \in [Reruns -> [scenario : Nat, views : Seq(View)]]
      /\ \E S : studio \in Seq(S)
  BY DEF TrialInv, StudioTypeOK
<1>3. ASSUME UNCHANGED <<verdict, trial>>, \A r \in Reruns : Onward(r),
             UNCHANGED studio \/ \E kind, content : kind # "ci" /\ Note(kind, content)
      PROVE  TrialInv'
  BY <1>1, <1>2, <1>3, WholeStays
<1>4. CASE ForkStep
  <2>1. \A r \in Reruns : Onward(r)
    <3>1. CASE ExpireLease \/ Resume
      BY <3>1 DEF ExpireLease, Resume, Onward
    <3>2. CASE \E q \in Runs : \/ Resolve(q) \/ AcquireLease(q) \/ Prepare(q) \/ WriteJournal(q)
                               \/ Bridge(q) \/ Checkout(q) \/ RefuseRuntime(q) \/ DrainFails(q)
                               \/ IssueReceipt(q) \/ Crash(q)
      BY <1>1, <3>2, RunsOnward DEF Runs
    <3> QED BY <1>4, <3>1, <3>2 DEF ForkStep
  <2> QED BY <1>3, <1>4, <2>1 DEF ForkStep
<1>5. ASSUME NEW q \in Reruns, StartScenario(q) PROVE TrialInv'
  <2>1. \A r \in Reruns : Onward(r)
    BY <1>1, <1>5, RunsOnward DEF StartScenario, Runs
  <2>2. PICK i \in Recorded("scenario") : trial' = [trial EXCEPT ![q].scenario = i]
    BY <1>5 DEF StartScenario
  <2>3. i \in Nat
    <3>1. PICK S : studio \in Seq(S)
      BY <1>2
    <3>2. DOMAIN studio = 1..Len(studio) /\ i \in DOMAIN studio
      BY <3>1, <2>2 DEF Recorded
    <3> QED BY <3>1, <3>2
  <2>4. /\ trial' \in [Reruns -> [scenario : Nat, views : Seq(View)]]
        /\ \A r \in Reruns : trial'[r].views = trial[r].views
    BY <1>2, <2>2, <2>3
  <2> QED BY <1>1, <1>2, <1>5, <2>1, <2>4, WholeStays DEF StartScenario
<1>6. ASSUME NEW q \in Reruns, ViewTrial(q) PROVE TrialInv'
  <2>1. CASE run'[q].step # "failed"
    BY <1>1, <1>6, <2>1, CountedStep
  <2>2. CASE run'[q].step = "failed"
    <3>1. run[q].step = "settle" /\ Goto(q, "failed")
      <4>1. q \in Runs /\ run \in [Runs -> Place] /\ run[q] \in Place
        BY <1>1 DEF Runs, TypeOK
      <4>2. run[q].step = "settle" /\ (Goto(q, "failed") \/ AfterTrial(q))
        BY <1>6 DEF ViewTrial, Settle, At
      <4>3. ASSUME NEW next, next # "failed", NEW p, NEW n,
                   \/ run' = [run EXCEPT ![q].step = next, ![q].picks = p]
                   \/ run' = [run EXCEPT ![q].step = next, ![q].trial = n, ![q].picks = p]
            PROVE  FALSE
        BY <2>2, <4>1, <4>3 DEF Place
      <4> QED BY <4>2, <4>3 DEF AfterTrial, Goto
    <3>2. \A r \in Reruns : Onward(r)
      BY <1>1, <3>1, RunsOnward DEF Runs
    <3>3. UNCHANGED <<verdict, trial, studio>>
      BY <1>6, <2>2 DEF ViewTrial
    <3> QED BY <1>3, <3>2, <3>3
  <2> QED BY <2>1, <2>2
<1>7. ASSUME NEW q \in Reruns, At(q, "save"), Complete(q) PROVE TrialInv'
  <2>1. q \in Runs /\ run \in [Runs -> Place] /\ run[q] \in Place /\ run[q].step = "save"
    BY <1>1, <1>7 DEF Runs, TypeOK, At
  <2>2. CASE Goto(q, "failed")
    <3>1. \A r \in Reruns : Onward(r)
      BY <1>1, <2>1, <2>2, RunsOnward DEF Runs
    <3>2. run'[q].step = "failed"
      BY <2>1, <2>2 DEF Goto, Place
    <3>3. UNCHANGED <<verdict, trial, studio>>
      BY <1>7, <3>2 DEF Complete
    <3> QED BY <1>3, <3>1, <3>3
  <2>3. CASE Agrees(q) /\ SaveRerun(q) /\ Goto(q, "saved")
    <3>1. run'[q].step = "saved"
      BY <2>1, <2>3 DEF Goto, Place
    <3>2. ASSUME Goto(q, "failed") PROVE FALSE
      <4>1. run'[q].step = "failed"
        BY <2>1, <3>2 DEF Goto, Place
      <4> QED BY <3>1, <4>1
    <3>3. Note("ci", [rerun |-> q, result |-> Judge(q)]) /\ UNCHANGED <<verdict, trial>>
      BY <1>7, <2>3, <3>1, <3>2 DEF Complete
    <3> QED BY <1>1, <1>7, <2>3, <3>3, SavedStep
  <2> QED BY <1>7, <2>2, <2>3 DEF Complete, SaveRerun
<1>8. ASSUME NEW q \in Runs, Verify(q) PROVE TrialInv'
  <2>1. \A r \in Reruns : Onward(r)
    BY <1>1, <1>8, RunsOnward DEF Verify, Runs
  <2>2. verdict' \in [Forks -> Verdicts]
    BY <1>2, <1>8 DEF Verify
  <2> QED BY <1>1, <1>2, <1>8, <2>1, <2>2, WholeStays DEF Verify
<1>9. CASE \/ \E k \in Clients : SaveIncident(k) \/ SelectBranch(k)
           \/ \E k \in Clients, b \in {Shared} \cup Forks : ReadIncident(k, b) \/ ReadComparison(k, b)
  <2>1. /\ UNCHANGED <<vars, verdict, trial>>
        /\ UNCHANGED studio \/ \E kind, content : kind # "ci" /\ Note(kind, content)
    BY <1>9 DEF SaveIncident, SelectBranch, ReadIncident, ReadComparison
  <2>2. \A r \in Reruns : Onward(r)
    BY <2>1 DEF vars, Onward
  <2> QED BY <1>3, <2>1, <2>2
<1> QED BY <1>4, <1>5, <1>6, <1>7, <1>8, <1>9 DEF RegressionNext

LEMMA TrialKept == ASSUME TrialInv, UNCHANGED regressionVars PROVE TrialInv'
<1>1. IInv'
  BY InvKept DEF TrialInv, regressionVars
<1>2. Extends /\ \A r \in Reruns : Onward(r)
  BY DEF regressionVars, vars, Extends, Onward
<1> QED BY <1>1, <1>2, WholeStays DEF TrialInv, StudioTypeOK, regressionVars

LEMMA TrialInit == ASSUME RegressionInit PROVE TrialInv
<1>1. IInv
  BY InvInit DEF RegressionInit
<1>2. StudioTypeOK
  <2>1. verdict \in [Forks -> Verdicts]
    BY DEF RegressionInit, Verdicts, AllPassed
  <2>2. trial \in [Reruns -> [scenario : Nat, views : Seq(View)]]
    BY DEF RegressionInit
  <2>3. \E S : studio \in Seq(S)
    <3>1. PICK e : studio = <<e>>
      BY DEF RegressionInit
    <3>2. studio \in Seq({e})
      BY <3>1
    <3> QED BY <3>2
  <2> QED BY <2>1, <2>2, <2>3 DEF StudioTypeOK
<1>3. ASSUME NEW r \in Reruns PROVE Kept(r)
  <2>1. run[r].step = "start" /\ run[r].trial = 1 /\ run[r].picks = {} /\ trial[r].views = <<>>
    BY DEF RegressionInit, Init, Runs
  <2>2. IsFiniteSet({})
    BY FS_EmptySet
  <2> QED BY <2>1, <2>2 DEF Kept, Past
<1>4. Recorded("ci") = {}
  <2>1. PICK e : studio = <<e>> /\ e.kind = "scenario"
    BY DEF RegressionInit
  <2> QED BY <2>1 DEF Recorded
<1> QED BY <1>1, <1>2, <1>3, <1>4 DEF TrialInv

\* A rerun is recorded only with a receipt and a started Attempt for each of its trials,
\* all under one profile selection and one Agent Revision.
THEOREM RecordedIsWhole == RegressionSpec => []RerunIsWhole
<1>1. RegressionInit => TrialInv
  BY TrialInit
<1>2. TrialInv /\ [RegressionNext]_regressionVars => TrialInv'
  BY TrialStep, TrialKept
<1>3. TrialInv => RerunIsWhole
  <2>1. ASSUME TrialInv, NEW i \in Recorded("ci") PROVE Result(i) /\ Kept(studio[i].content.rerun)
    BY <2>1 DEF TrialInv, Result
  <2>2. ASSUME NEW r, Kept(r), run[r].step = "saved", NEW t \in 1..Trials
        PROVE  BranchReceipts(<<r, t>>) # {} /\ <<r, t>> \in StartedAttempts(log)
    BY <2>2 DEF Kept, Past
  <2> QED BY <2>1, <2>2 DEF RerunIsWhole, Result
<1> QED BY <1>1, <1>2, <1>3, PTL DEF RegressionSpec

-----------------------------------------------------------------------------
(* What is judged and what is selected.                                    *)

\* The view of a trial says what the verifiers of its fork said.
Viewed(r) ==
  \A t \in 1..Trials :
    t \in DOMAIN trial[r].views => trial[r].views[t].criteria = verdict[<<r, t>>]

\* A CI result that lets a job pass, recorded at i.
Earned(i) ==
  LET r == studio[i].content.rerun  result == studio[i].content.result
  IN ExitCode(result) = 0 =>
       /\ \A t \in 1..Trials, c \in Criteria : verdict[<<r, t>>][c] = "passed"
       /\ \E j \in 1..(i - 1) : studio[j].kind = "scenario" /\ studio[j].content = result.scenario
       /\ result.receipt.revision.profile # result.scenario.profile

\* Every scenario is to be rerun under the regression suite, no two say the same, and a
\* rerun is of one of them.
ScenariosHold ==
  /\ \A i \in Recorded("scenario") : studio[i].content.suite = RegressionSuite
  /\ \A i, j \in Recorded("scenario") : studio[i].content = studio[j].content => i = j
  /\ \A r \in Reruns : trial[r].scenario \in Recorded("scenario")

\* A selection s, of the log as far as it was read.
Stands(s) ==
  LET R == ReceiptOf(log, s.branch)  h == SubSeq(log, 1, s.through)
  IN /\ R # {} /\ \A c \in Criteria : verdict[log[LastOf(R)].id][c] = "passed"
     /\ s.through \in 1..Len(log)
     /\ Unresolved(h) = {} /\ ReceiptOf(h, s.branch) = R
     /\ Cardinality(s.among) >= 2

\* What a client has in hand would be true if it were recorded now.
ClientsHold ==
  /\ DOMAIN client = Clients
  /\ \A k \in Clients :
       /\ client[k].step = "save" =>
            /\ "step" \in DOMAIN client[k] /\ "content" \in DOMAIN client[k]
            /\ client[k].content.suite = RegressionSuite
       /\ client[k].step = "select" => Stands(client[k].content)

JudgedInv ==
  /\ TrialInv /\ ScenariosHold /\ ClientsHold
  /\ \A r \in Reruns : Viewed(r)
  /\ \A i \in Recorded("ci") : Earned(i)
  /\ \A s \in Selections : Stands(s)

\* A verdict changes only while its fork's Runtime is at work.
LEMMA VerdictStays ==
  ASSUME verdict \in [Forks -> Verdicts], RegressionNext, NEW f \in Forks,
         \A q \in Runs : run[q].step = "runtime" => Own(q) # f
  PROVE  verdict'[f] = verdict[f]
<1>1. ASSUME NEW q \in Runs, Verify(q) PROVE verdict'[f] = verdict[f]
  <2>1. run[q].step = "runtime"
    BY <1>1 DEF Verify, Continue, At
  <2>2. PICK v : verdict' = [verdict EXCEPT ![Own(q)] = v]
    BY <1>1 DEF Verify
  <2> QED BY <2>1, <2>2
<1>2. ASSUME ~ \E q \in Runs : Verify(q) PROVE verdict' = verdict
  BY <1>2 DEF RegressionNext, ForkStep, StartScenario, ViewTrial, Complete, SaveIncident,
              SelectBranch, ReadIncident, ReadComparison
<1> QED BY <1>1, <1>2

\* The verdict on a fork that has its receipt, and on the trials behind a rerun.
LEMMA ReceivedStays ==
  ASSUME IInv, verdict \in [Forks -> Verdicts], RegressionNext,
         NEW i \in Events(log, "receipt")
  PROVE  log[i].id \in Forks /\ verdict'[log[i].id] = verdict[log[i].id]
<1>1. log[i].id \in Named(log, "receipt")
  BY DEF Named
<1>2. log[i].id \in Forks
  BY DEF IInv, LogInv, Events
<1>3. ASSUME NEW q \in Runs, run[q].step = "runtime" PROVE Own(q) # log[i].id
  BY <1>1, <1>3, InvParts DEF Reports
<1> QED BY <1>2, <1>3, VerdictStays

LEMMA TrialVerdictStays ==
  ASSUME verdict \in [Forks -> Verdicts], RegressionNext,
         NEW r \in Reruns, NEW t \in 1..Trials, run[r].step = "runtime" => run[r].trial # t
  PROVE  verdict'[<<r, t>>] = verdict[<<r, t>>]
<1>1. <<r, t>> \in Forks
  BY DEF Forks
<1>2. ASSUME NEW q \in Runs, run[q].step = "runtime" PROVE Own(q) # <<r, t>>
  <2>1. CASE q = r
    BY <1>2, <2>1 DEF Own
  <2>2. CASE q # r
    BY <2>2 DEF Own
  <2> QED BY <2>1, <2>2
<1> QED BY <1>1, <1>2, VerdictStays

\* The receipt of a branch is the one it had.
LEMMA ReceiptIsTheOne ==
  ASSUME IInv, IInv', Extends, NEW b, ReceiptOf(log, b) # {}
  PROVE  ReceiptOf(log', b) = ReceiptOf(log, b)
<1>1. \A i \in ReceiptOf(log, b) : i \in ReceiptOf(log', b)
  BY DEF Extends, ReceiptOf, Events
<1>2. ReceiptsAreTrue'
  BY DEF IInv, ReceiptsHold
<1>3. \A i, j \in ReceiptOf(log', b) : i = j
  BY <1>2 DEF ReceiptsAreTrue, ReceiptOf
<1> QED BY <1>1, <1>3

LEMMA PrefixesStay ==
  ASSUME log \in Seq(LogEvent), log' \in Seq(LogEvent), Extends, NEW n \in 1..Len(log)
  PROVE  n \in 1..Len(log') /\ SubSeq(log', 1, n) = SubSeq(log, 1, n)
<1>1. \A i \in 1..Len(log) : i \in 1..Len(log') /\ log'[i] = log[i]
  BY DEF Extends
<1>2. \A i \in 1..n : i \in 1..Len(log) /\ log'[i] = log[i]
  BY <1>1
<1>3. /\ SubSeq(log', 1, n) = [i \in 1..n |-> log'[i]]
      /\ SubSeq(log, 1, n) = [i \in 1..n |-> log[i]]
  <2>1. n \in Nat /\ Len(log) \in Nat /\ Len(log') \in Nat /\ n <= Len(log) /\ n <= Len(log')
    BY <1>1
  <2> QED BY <2>1
<1>4. [i \in 1..n |-> log'[i]] = [i \in 1..n |-> log[i]]
  BY <1>2
<1> QED BY <1>1, <1>3, <1>4

\* What stands goes on to stand.
LEMMA StandsStays ==
  ASSUME IInv, IInv', Extends, verdict \in [Forks -> Verdicts], RegressionNext,
         NEW s, Stands(s)
  PROVE  Stands(s)'
<1>1. /\ log \in Seq(LogEvent) /\ log' \in Seq(LogEvent)
  BY DEF IInv, TypeOK
<1>2. PICK b, n, R : b = s.branch /\ n = s.through /\ R = ReceiptOf(log, b)
  OBVIOUS
<1>3. R # {} /\ n \in 1..Len(log)
  BY <1>2 DEF Stands
<1>4. ReceiptOf(log', b) = R
  BY <1>2, <1>3, ReceiptIsTheOne
<1>5. n \in 1..Len(log') /\ SubSeq(log', 1, n) = SubSeq(log, 1, n)
  BY <1>1, <1>3, PrefixesStay
<1>6. LastOf(R) \in Events(log, "receipt")
  <2>1. R \in SUBSET (1..Len(log)) /\ Len(log) \in Nat
    BY <1>1, <1>2 DEF ReceiptOf, Events
  <2>2. LastOf(R) \in R
    BY <1>3, <2>1, LastIsMember
  <2> QED BY <1>2, <2>2 DEF ReceiptOf
<1>7. log'[LastOf(R)] = log[LastOf(R)]
  BY <1>6 DEF Extends, Events
<1>8. verdict'[log'[LastOf(R)].id] = verdict[log[LastOf(R)].id]
  BY <1>6, <1>7, ReceivedStays
<1> QED BY <1>2, <1>3, <1>4, <1>5, <1>8 DEF Stands

\* The branches that can be compared are finitely many.
LEMMA EvaluatedIsFinite ==
  ASSUME NEW h \in Seq(LogEvent)
  PROVE  IsFiniteSet(Evaluated(h))
<1>1. IsFiniteSet(Events(h, "receipt"))
  <2>1. Events(h, "receipt") \in SUBSET (1..Len(h)) /\ Len(h) \in Nat
    BY DEF Events
  <2>2. IsFiniteSet(1..Len(h))
    BY <2>1, FS_Interval
  <2> QED BY <2>1, <2>2, FS_Subset
<1>2. PICK B : B = {h[i].branch : i \in Events(h, "receipt")}
  OBVIOUS
<1>3. [i \in Events(h, "receipt") |-> h[i].branch] \in Surjection(Events(h, "receipt"), B)
  BY <1>2 DEF Surjection
<1>4. IsFiniteSet(B)
  BY <1>1, <1>3, FS_Surjection
<1>5. Evaluated(h) \in SUBSET B
  BY <1>2 DEF Evaluated, ReceiptOf
<1> QED BY <1>4, <1>5, FS_Subset

LEMMA ComparedAreTwo ==
  ASSUME NEW h \in Seq(LogEvent), NEW among, among = {BranchView(h, c) : c \in Evaluated(h)},
         Comparable(among)
  PROVE  Cardinality(among) >= 2
<1>1. [c \in Evaluated(h) |-> BranchView(h, c)] \in Surjection(Evaluated(h), among)
  BY DEF Surjection
<1>2. IsFiniteSet(among)
  BY <1>1, EvaluatedIsFinite, FS_Surjection
<1>3. PICK names : names = {b.branch : b \in among}
  OBVIOUS
<1>4. [b \in among |-> b.branch] \in Surjection(among, names)
  BY <1>3 DEF Surjection
<1>5. IsFiniteSet(names) /\ Cardinality(names) <= Cardinality(among)
  BY <1>2, <1>4, FS_Surjection
<1>6. Cardinality(names) >= 2
  BY <1>3 DEF Comparable
<1>7. Cardinality(names) \in Nat /\ Cardinality(among) \in Nat
  BY <1>2, <1>5, FS_CardinalityType
<1> QED BY <1>5, <1>6, <1>7

\* A comparison that lets a branch be selected makes a selection that stands.
LEMMA ComparisonStands ==
  ASSUME IInv, NEW k, NEW b, ReadComparison(k, b),
         NEW s, s = [branch |-> b, among |-> {BranchView(log, c) : c \in Evaluated(log)},
                     through |-> Len(log)]
  PROVE  Stands(s)
<1>1. log \in Seq(LogEvent)
  BY DEF IInv, TypeOK
<1>2. /\ b \in Evaluated(log) /\ s.branch = b /\ s.through = Len(log)
      /\ s.among = {BranchView(log, c) : c \in Evaluated(log)}
  BY DEF ReadComparison, Looks
<1>3. /\ Comparable(s.among)
      /\ StudioReceipt(BranchView(log, b), EffectStatuses(log)).verified
  BY <1>2 DEF ReadComparison, Selectable
<1>4. ReceiptOf(log, b) # {} /\ Len(log) \in 1..Len(log)
  <2>1. PICK i : i \in ReceiptOf(log, b)
    BY <1>2 DEF Evaluated
  <2>2. i \in 1..Len(log) /\ Len(log) \in Nat
    BY <1>1, <2>1 DEF ReceiptOf, Events
  <2> QED BY <2>1, <2>2
<1>5. SubSeq(log, 1, Len(log)) = log
  BY <1>1
<1>6. \A c \in Criteria : verdict[log[LastOf(ReceiptOf(log, b))].id][c] = "passed"
  BY <1>3 DEF StudioReceipt, BranchView
<1>7. Unresolved(log) = {}
  <2>1. ASSUME NEW e \in Effects(log), EffectStatus(log, e) \in UnresolvedStatuses PROVE FALSE
    <3>1. PICK x : x = EffectStatus(log, e)
      OBVIOUS
    <3>2. x \in EffectStatuses(log)
      BY <3>1 DEF EffectStatuses
    <3>3. Resolution(x) = "resolved"
      BY <1>3, <3>2 DEF StudioReceipt
    <3>4. Resolution(x) # "resolved"
      BY <2>1, <3>1 DEF Resolution, UnresolvedStatuses
    <3> QED BY <3>3, <3>4
  <2> QED BY <2>1 DEF Unresolved
<1>8. Cardinality(s.among) >= 2
  BY <1>1, <1>2, <1>3, ComparedAreTwo
<1> QED BY <1>2, <1>4, <1>5, <1>6, <1>7, <1>8 DEF Stands

\* A pass rate of a hundred percent is every trial.
LEMMA FullRate ==
  ASSUME NEW trials, DOMAIN trials = 1..Required, Len(trials) = Required,
         ThresholdStatus([minimum |-> Required, rate |-> 100], trials) = "passed"
  PROVE  \A t \in 1..Required : trials[t] = "passed"
<1>1. Required \in Nat /\ Required >= 1
  BY StudioAssumption
<1>2. PICK P : P = {i \in DOMAIN trials : trials[i] \in {"passed"}}
  OBVIOUS
<1>3. P \in SUBSET (1..Required) /\ IsFiniteSet(1..Required) /\ Cardinality(1..Required) = Required
  BY <1>1, <1>2, FS_Interval
<1>4. Cardinality(P) \in Nat /\ Cardinality(P) <= Required
  BY <1>3, FS_Subset, FS_CardinalityType
<1>5. 100 * Cardinality(P) >= 100 * Required
  BY <1>2 DEF ThresholdStatus
<1>6. Cardinality(P) = Required
  BY <1>1, <1>4, <1>5
<1>7. P = 1..Required
  BY <1>3, <1>6, FS_Subset
<1> QED BY <1>2, <1>7

LEMMA AggregatePassed ==
  ASSUME NEW S, Aggregate(S) = "passed"
  PROVE  S = {"passed"}
BY DEF Aggregate

\* Under the regression suite a criterion passes if every trial passed it.
LEMMA CriterionIsEveryTrial ==
  ASSUME NEW c \in Criteria, NEW trials, NEW says,
         DOMAIN trials = 1..Required, Len(trials) = Required,
         CriterionStatus(RegressionSuite.criteria[c], trials, says) = "passed"
  PROVE  \A t \in 1..Required : trials[t] = "passed"
<1>1. PICK x : x = RegressionSuite.criteria[c]
  OBVIOUS
<1>2. x.mode = "stochastic-model" /\ x.threshold = [minimum |-> Required, rate |-> 100]
  BY <1>1 DEF RegressionSuite
<1>3. ThresholdStatus(x.threshold, trials) \in
        {says[e] : e \in {y \in x.evaluators : y.role = "authoritative"}}
          \cup (IF x.mode = "stochastic-model" THEN {ThresholdStatus(x.threshold, trials)} ELSE {})
  BY <1>2
<1>4. ThresholdStatus(x.threshold, trials) = "passed"
  BY <1>1, <1>3, AggregatePassed DEF CriterionStatus
<1> QED BY <1>2, <1>4, FullRate

\* A judgement that lets a job pass is about every trial.
LEMMA JudgeIsEarned ==
  ASSUME TrialInv, ScenariosHold, NEW r \in Reruns, Viewed(r), run[r].step = "save", Agrees(r),
         NEW result, result = Judge(r), ExitCode(result) = 0
  PROVE  /\ \A t \in 1..Trials, c \in Criteria : verdict[<<r, t>>][c] = "passed"
         /\ trial[r].scenario \in Recorded("scenario")
         /\ result.scenario = studio[trial[r].scenario].content
         /\ result.receipt.revision.profile # result.scenario.profile
<1>1. PICK views, scenario, receipt, target :
        /\ views = trial[r].views /\ scenario = studio[trial[r].scenario].content
        /\ target = Target(r) /\ receipt = StudioReceipt(target, {})
  OBVIOUS
<1>2. views \in Seq(View) /\ Len(views) = Trials /\ Trials \in Nat /\ Trials # 0 /\ Trials = Required
  <2>1. views \in Seq(View)
    BY <1>1 DEF TrialInv, StudioTypeOK
  <2>2. Kept(r)
    BY DEF TrialInv
  <2>3. Len(views) = Trials
    BY <1>1, <2>2 DEF Kept, Past
  <2> QED BY <2>1, <2>3, ForkAssumption, RegressionAssumption
<1>3. DOMAIN views = 1..Trials /\ Last(views) = views[Trials] /\ views # <<>>
  BY <1>2 DEF Last
<1>4. trial[r].scenario \in Recorded("scenario") /\ scenario.suite = RegressionSuite
  BY <1>1 DEF ScenariosHold
<1>5. /\ target.revision = Last(views).revision
      /\ target.criteria = EvaluateBranch(scenario.suite, Outcomes(views), Audits(scenario.suite, views))
  BY <1>1 DEF Target
<1>6. /\ receipt.revision = target.revision /\ receipt.criteria = target.criteria
      /\ receipt.verified <=> \A c \in Criteria : target.criteria[c] = "passed"
  BY <1>1 DEF StudioReceipt
<1>7. result = CiResult(scenario, receipt)
  BY <1>1 DEF Judge
<1>8. /\ result.scenario = scenario /\ result.receipt = receipt
      /\ result.status = "passed" => receipt.verified
  BY <1>7 DEF CiResult
<1>9. receipt.verified
  BY <1>8 DEF ExitCode
<1>10. ASSUME NEW c \in Criteria, NEW t \in 1..Trials PROVE views[t].criteria[c] = "passed"
  <2>1. PICK says : says = Audits(scenario.suite, views)
    OBVIOUS
  <2>2. PICK trials : trials = [i \in 1..Trials |-> views[i].criteria[c]]
    OBVIOUS
  <2>3. Outcomes(views)[c] = trials
    BY <1>3, <2>2 DEF Outcomes
  <2>4. DOMAIN trials = 1..Required /\ Len(trials) = Required
    BY <1>2, <2>2
  <2>5. target.criteria[c] = CriterionStatus(RegressionSuite.criteria[c], trials, says)
    BY <1>4, <1>5, <2>1, <2>3 DEF EvaluateBranch
  <2>6. target.criteria[c] = "passed"
    BY <1>6, <1>9
  <2>7. CriterionStatus(RegressionSuite.criteria[c], trials, says) = "passed"
    BY <2>5, <2>6
  <2>8. \A i \in 1..Required : trials[i] = "passed"
    BY <2>4, <2>7, CriterionIsEveryTrial
  <2> QED BY <1>2, <2>2, <2>8
<1>11. ASSUME NEW c \in Criteria, NEW t \in 1..Trials PROVE verdict[<<r, t>>][c] = "passed"
  BY <1>1, <1>3, <1>10 DEF Viewed
<1>12. receipt.revision.profile # scenario.profile
  <2>1. Last(views) \in Range(views)
    BY <1>2, <1>3 DEF Range
  <2> QED BY <1>1, <1>5, <1>6, <2>1 DEF Agrees
<1> QED BY <1>1, <1>4, <1>8, <1>11, <1>12

\* The view that is added to a rerun says what the verifiers of the trial said.
LEMMA NewViewIsTrue ==
  ASSUME IInv', NEW f \in Forks, f[1] \in Reruns, BranchReceipts(f)' # {}
  PROVE  BranchView(log', Branch(f)).criteria = verdict[f]
<1>1. log' \in Seq(LogEvent) /\ ReceiptInv' /\ LogInv'
  BY DEF IInv, TypeOK
<1>2. Branch(f) = f
  BY ForkAssumption DEF Branch
<1>3. PICK R : R = ReceiptOf(log', f)
  OBVIOUS
<1>4. LastOf(R) \in R
  <2>1. R # {} /\ R \in SUBSET (1..Len(log')) /\ Len(log') \in Nat
    BY <1>1, <1>2, <1>3 DEF BranchReceipts, ReceiptOf, Events
  <2> QED BY <2>1, LastIsMember
<1>5. LastOf(R) \in Events(log', "receipt") /\ log'[LastOf(R)].branch = f
  BY <1>3, <1>4 DEF ReceiptOf
<1>6. PICK g : g = log'[LastOf(R)].id
  OBVIOUS
<1>7. g \in Forks /\ Branch(g) = f
  <2>1. g \in Forks
    BY <1>1, <1>5, <1>6 DEF LogInv, Events
  <2>2. Branch(g) = f
    BY <1>1, <1>5, <1>6 DEF ReceiptInv
  <2> QED BY <2>1, <2>2
<1>8. f # Shared
  BY ForkAssumption DEF Forks
<1>9. g = f
  BY <1>7, <1>8 DEF Branch
<1> QED BY <1>2, <1>3, <1>6, <1>9 DEF BranchView

\* What a step may record.
Adds(e) ==
  \/ e.kind = "scenario" /\ \E k \in Clients :
       /\ client[k].step = "save" /\ e.content = client[k].content
       /\ \A i \in Recorded("scenario") : studio[i].content # client[k].content
  \/ e.kind = "selection" /\ \E k \in Clients :
       client[k].step = "select" /\ e.content = client[k].content
  \/ e.kind = "ci" /\ \E r \in Reruns :
       run[r].step = "save" /\ Agrees(r) /\ e.content = [rerun |-> r, result |-> Judge(r)]

LEMMA StudioStep ==
  ASSUME RegressionNext
  PROVE  UNCHANGED studio \/ \E e : Adds(e) /\ studio' = Append(studio, e)
<1>1. CASE \/ ForkStep \/ \E r \in Reruns : StartScenario(r) \/ ViewTrial(r)
           \/ \E r \in Runs : Verify(r)
           \/ \E k \in Clients, b \in {Shared} \cup Forks : ReadIncident(k, b) \/ ReadComparison(k, b)
  BY <1>1 DEF ForkStep, StartScenario, ViewTrial, Verify, ReadIncident, ReadComparison
<1>2. ASSUME NEW r \in Reruns, At(r, "save"), Complete(r), ~UNCHANGED studio
      PROVE  \E e : Adds(e) /\ studio' = Append(studio, e)
  <2>1. Agrees(r) /\ Note("ci", [rerun |-> r, result |-> Judge(r)])
    BY <1>2 DEF Complete
  <2>2. PICK e : e = [kind |-> "ci", content |-> [rerun |-> r, result |-> Judge(r)]]
    OBVIOUS
  <2>3. Adds(e)
    BY <1>2, <2>1, <2>2 DEF Adds, At
  <2> QED BY <2>1, <2>2, <2>3 DEF Note
<1>3. ASSUME NEW k \in Clients, SaveIncident(k), ~UNCHANGED studio
      PROVE  \E e : Adds(e) /\ studio' = Append(studio, e)
  <2>1. PICK e : e = [kind |-> "scenario", content |-> client[k].content]
    OBVIOUS
  <2>2. /\ client[k].step = "save" /\ studio' = Append(studio, e)
        /\ \A i \in Recorded("scenario") : studio[i].content # client[k].content
    BY <1>3, <2>1 DEF SaveIncident, Note
  <2> QED BY <2>1, <2>2 DEF Adds
<1>4. ASSUME NEW k \in Clients, SelectBranch(k), ~UNCHANGED studio
      PROVE  \E e : Adds(e) /\ studio' = Append(studio, e)
  <2>1. PICK e : e = [kind |-> "selection", content |-> client[k].content]
    OBVIOUS
  <2>2. client[k].step = "select" /\ studio' = Append(studio, e)
    BY <1>4, <2>1 DEF SelectBranch, Note
  <2> QED BY <2>1, <2>2 DEF Adds
<1> QED BY <1>1, <1>2, <1>3, <1>4 DEF RegressionNext

\* What was recorded stays where it is, and one record may come after it.
LEMMA RecordsGrow ==
  ASSUME StudioTypeOK, RegressionNext
  PROVE  /\ \A i \in DOMAIN studio : i \in DOMAIN studio' /\ studio'[i] = studio[i]
         /\ \A i \in DOMAIN studio' \ DOMAIN studio :
              Adds(studio'[i]) /\ i = Len(studio) + 1
         /\ DOMAIN studio = 1..Len(studio) /\ Len(studio) \in Nat
<1>1. PICK S : studio \in Seq(S)
  BY DEF StudioTypeOK
<1>2. CASE UNCHANGED studio
  BY <1>1, <1>2
<1>3. ASSUME NEW e, Adds(e), studio' = Append(studio, e)
      PROVE  /\ \A i \in DOMAIN studio : i \in DOMAIN studio' /\ studio'[i] = studio[i]
             /\ \A i \in DOMAIN studio' \ DOMAIN studio : studio'[i] = e /\ i = Len(studio) + 1
  BY <1>1, <1>3
<1>4. DOMAIN studio = 1..Len(studio) /\ Len(studio) \in Nat
  BY <1>1
<1> QED BY <1>2, <1>3, <1>4, StudioStep

LEMMA ClientStep ==
  ASSUME DOMAIN client = Clients, RegressionNext, NEW k \in Clients
  PROVE  /\ DOMAIN client' = Clients
         /\ \/ client'[k] = client[k]
            \/ client'[k].step = "done"
            \/ client[k].step = "save" /\ \E n : client'[k] = [client[k] EXCEPT !.requests = n]
            \/ \E b : client'[k] = [step |-> "save", content |-> Scenario(BranchView(log, b)),
                                    requests |-> 2]
            \/ \E b, s : /\ ReadComparison(k, b)
                         /\ s = [branch |-> b, among |-> {BranchView(log, c) : c \in Evaluated(log)},
                                 through |-> Len(log)]
                         /\ client'[k] = [step |-> "select", content |-> s]
<1>1. CASE UNCHANGED client
  BY <1>1
<1>2. ASSUME NEW j \in Clients, SaveIncident(j)
      PROVE  /\ DOMAIN client' = Clients /\ \A i \in Clients \ {j} : client'[i] = client[i]
             /\ \/ client'[j].step = "done"
                \/ client[j].step = "save" /\ \E n : client'[j] = [client[j] EXCEPT !.requests = n]
  <2>1. client[j].step = "save" /\ Answer(j)
    BY <1>2 DEF SaveIncident
  <2>2. PICK x : /\ x = [step |-> "done"] \/ (\E n : x = [client[j] EXCEPT !.requests = n])
                 /\ client' = [client EXCEPT ![j] = x]
    BY <2>1 DEF Answer
  <2>3. client'[j] = x /\ DOMAIN client' = Clients /\ \A i \in Clients \ {j} : client'[i] = client[i]
    BY <2>2
  <2> QED BY <2>1, <2>2, <2>3
<1>3. ASSUME NEW j \in Clients, SelectBranch(j)
      PROVE  /\ DOMAIN client' = Clients /\ \A i \in Clients \ {j} : client'[i] = client[i]
             /\ client'[j].step = "done"
  BY <1>3 DEF SelectBranch
<1>4. ASSUME NEW j \in Clients, NEW b, ReadIncident(j, b)
      PROVE  /\ DOMAIN client' = Clients /\ \A i \in Clients \ {j} : client'[i] = client[i]
             /\ client'[j] = [step |-> "save", content |-> Scenario(BranchView(log, b)),
                              requests |-> 2]
  BY <1>4 DEF ReadIncident
<1>5. ASSUME NEW j \in Clients, NEW b, ReadComparison(j, b), NEW s,
             s = [branch |-> b, among |-> {BranchView(log, c) : c \in Evaluated(log)},
                  through |-> Len(log)]
      PROVE  /\ DOMAIN client' = Clients /\ \A i \in Clients \ {j} : client'[i] = client[i]
             /\ client'[j] = [step |-> "select", content |-> s]
  <2>1. client' = [client EXCEPT ![j] = [step |-> "select", content |-> s]]
    BY <1>5 DEF ReadComparison
  <2> QED BY <2>1
<1>6. CASE \/ ForkStep \/ \E r \in Runs : Verify(r)
           \/ \E r \in Reruns : StartScenario(r) \/ ViewTrial(r) \/ (At(r, "save") /\ Complete(r))
  <2>1. UNCHANGED client
    BY <1>6 DEF ForkStep, Verify, StartScenario, ViewTrial, Complete
  <2> QED BY <1>1, <2>1
<1>7. CASE \E j \in Clients : SaveIncident(j) \/ SelectBranch(j)
  <2>1. PICK j \in Clients : SaveIncident(j) \/ SelectBranch(j)
    BY <1>7
  <2>2. /\ DOMAIN client' = Clients /\ \A i \in Clients \ {j} : client'[i] = client[i]
        /\ \/ client'[j].step = "done"
           \/ client[j].step = "save" /\ \E n : client'[j] = [client[j] EXCEPT !.requests = n]
    BY <1>2, <1>3, <2>1
  <2>3. CASE j = k
    BY <2>2, <2>3
  <2>4. CASE j # k
    BY <2>2, <2>4
  <2> QED BY <2>3, <2>4
<1>8. CASE \E j \in Clients, b \in {Shared} \cup Forks : ReadIncident(j, b)
  BY <1>4, <1>8
<1>9. CASE \E j \in Clients, b \in {Shared} \cup Forks : ReadComparison(j, b)
  <2>1. PICK j \in Clients, b \in {Shared} \cup Forks : ReadComparison(j, b)
    BY <1>9
  <2>2. PICK s : s = [branch |-> b, among |-> {BranchView(log, c) : c \in Evaluated(log)},
                      through |-> Len(log)]
    OBVIOUS
  <2>3. /\ DOMAIN client' = Clients /\ \A i \in Clients \ {j} : client'[i] = client[i]
        /\ client'[j] = [step |-> "select", content |-> s]
    BY <1>5, <2>1, <2>2
  <2>4. CASE j = k
    BY <2>1, <2>2, <2>3, <2>4
  <2>5. CASE j # k
    BY <2>3, <2>5
  <2> QED BY <2>4, <2>5
<1> QED BY <1>6, <1>7, <1>8, <1>9 DEF RegressionNext

LEMMA ClientsStep ==
  ASSUME JudgedInv, IInv', Extends, RegressionNext
  PROVE  ClientsHold'
<1>1. /\ IInv /\ verdict \in [Forks -> Verdicts] /\ DOMAIN client = Clients
      /\ ClientsHold
  BY DEF JudgedInv, TrialInv, StudioTypeOK, ClientsHold
<1>2. ASSUME NEW k \in Clients, client'[k].step = "save"
      PROVE  /\ "step" \in DOMAIN client'[k] /\ "content" \in DOMAIN client'[k]
             /\ client'[k].content.suite = RegressionSuite
  <2>1. CASE client'[k] = client[k]
    BY <1>1, <1>2, <2>1 DEF ClientsHold
  <2>2. ASSUME NEW n, client[k].step = "save", client'[k] = [client[k] EXCEPT !.requests = n]
        PROVE  /\ "step" \in DOMAIN client'[k] /\ "content" \in DOMAIN client'[k]
               /\ client'[k].content.suite = RegressionSuite
    <3>1. /\ "step" \in DOMAIN client[k] /\ "content" \in DOMAIN client[k]
          /\ client[k].content.suite = RegressionSuite
      BY <1>1, <2>2 DEF ClientsHold
    <3>2. DOMAIN client'[k] = DOMAIN client[k] /\ client'[k].content = client[k].content
      BY <2>2, <3>1
    <3> QED BY <3>1, <3>2
  <2>3. ASSUME NEW b, client'[k] = [step |-> "save", content |-> Scenario(BranchView(log, b)),
                                    requests |-> 2]
        PROVE  /\ "step" \in DOMAIN client'[k] /\ "content" \in DOMAIN client'[k]
               /\ client'[k].content.suite = RegressionSuite
    BY <2>3 DEF Scenario
  <2>4. ASSUME NEW s, client'[k] = [step |-> "select", content |-> s]
        PROVE  FALSE
    BY <1>2, <2>4
  <2> QED BY <1>1, <1>2, <2>1, <2>2, <2>3, <2>4, ClientStep
<1>3. ASSUME NEW k \in Clients, client'[k].step = "select"
      PROVE  Stands(client[k].content)'
  <2>1. CASE client'[k] = client[k]
    <3>1. PICK s : s = client[k].content
      OBVIOUS
    <3>2. Stands(s)
      BY <1>1, <1>3, <2>1, <3>1 DEF ClientsHold
    <3>3. Stands(s)'
      BY <1>1, <3>2, StandsStays
    <3> QED BY <2>1, <3>1, <3>3 DEF Stands
  <2>2. ASSUME NEW n, client[k].step = "save", client'[k] = [client[k] EXCEPT !.requests = n]
        PROVE  FALSE
    <3>1. "step" \in DOMAIN client[k]
      BY <1>1, <2>2 DEF ClientsHold
    <3>2. client'[k].step = client[k].step
      BY <2>2, <3>1
    <3> QED BY <1>3, <2>2, <3>2
  <2>3. ASSUME NEW b, client'[k] = [step |-> "save", content |-> Scenario(BranchView(log, b)),
                                    requests |-> 2]
        PROVE  FALSE
    BY <1>3, <2>3
  <2>4. ASSUME NEW b, NEW s, ReadComparison(k, b), client'[k] = [step |-> "select", content |-> s],
               s = [branch |-> b, among |-> {BranchView(log, c) : c \in Evaluated(log)},
                    through |-> Len(log)]
        PROVE  Stands(client[k].content)'
    <3>1. Stands(s)
      BY <1>1, <2>4, ComparisonStands
    <3>2. Stands(s)'
      BY <1>1, <3>1, StandsStays
    <3>3. client'[k].content = s
      BY <2>4
    <3> QED BY <3>2, <3>3 DEF Stands
  <2> QED BY <1>1, <1>3, <2>1, <2>2, <2>3, <2>4, ClientStep
<1>4. DOMAIN client' = Clients
  <2>1. CASE Clients = {}
    <3>1. UNCHANGED client
      BY <2>1 DEF RegressionNext, ForkStep, Verify, StartScenario, ViewTrial, Complete
    <3> QED BY <1>1, <3>1
  <2>2. CASE Clients # {}
    BY <1>1, <2>2, ClientStep
  <2> QED BY <2>1, <2>2
<1> QED BY <1>2, <1>3, <1>4 DEF ClientsHold

\* A rerun keeps its scenario, or takes one that is recorded; its views stay, or one is added.
LEMMA TrialStays ==
  ASSUME StudioTypeOK, RegressionNext, NEW r \in Reruns
  PROVE  /\ trial'[r].scenario = trial[r].scenario \/ trial'[r].scenario \in Recorded("scenario")
         /\ \/ trial'[r].views = trial[r].views
            \/ /\ run[r].step = "settle" /\ run'[r].step # "failed" /\ ViewTrial(r)
               /\ trial'[r].views = Append(trial[r].views, BranchView(log', Branch(Own(r))))
<1>1. trial \in [Reruns -> [scenario : Nat, views : Seq(View)]]
  BY DEF StudioTypeOK
<1>2. CASE UNCHANGED trial
  BY <1>2
<1>3. ASSUME NEW q \in Reruns, StartScenario(q)
      PROVE  /\ trial'[r].scenario = trial[r].scenario \/ trial'[r].scenario \in Recorded("scenario")
             /\ trial'[r].views = trial[r].views
  <2>1. PICK i \in Recorded("scenario") : trial' = [trial EXCEPT ![q].scenario = i]
    BY <1>3 DEF StartScenario
  <2> QED BY <1>1, <2>1
<1>4. ASSUME NEW q \in Reruns, ViewTrial(q), ~UNCHANGED trial
      PROVE  /\ trial'[r].scenario = trial[r].scenario
             /\ \/ trial'[r].views = trial[r].views
                \/ /\ run[r].step = "settle" /\ run'[r].step # "failed" /\ ViewTrial(r)
                   /\ trial'[r].views = Append(trial[r].views, BranchView(log', Branch(Own(r))))
  <2>1. PICK v : v = BranchView(log', Branch(Own(q)))
    OBVIOUS
  <2>2. /\ run[q].step = "settle" /\ run'[q].step # "failed"
        /\ trial' = [trial EXCEPT ![q].views = Append(@, v)]
    BY <1>4, <2>1 DEF ViewTrial, At
  <2>3. CASE q = r
    BY <1>1, <1>4, <2>1, <2>2, <2>3
  <2>4. CASE q # r
    BY <1>1, <2>2, <2>4
  <2> QED BY <2>3, <2>4
<1>5. CASE \E q \in Reruns : StartScenario(q) \/ ViewTrial(q)
  BY <1>2, <1>3, <1>4, <1>5
<1>6. CASE ~ \E q \in Reruns : StartScenario(q) \/ ViewTrial(q)
  <2>1. UNCHANGED trial
    BY <1>6 DEF RegressionNext, ForkStep, Verify, Complete, SaveIncident, SelectBranch,
                ReadIncident, ReadComparison
  <2> QED BY <1>2, <2>1
<1> QED BY <1>5, <1>6

LEMMA ScenariosStep ==
  ASSUME JudgedInv, RegressionNext
  PROVE  ScenariosHold'
<1>1. StudioTypeOK /\ ScenariosHold /\ ClientsHold
  BY DEF JudgedInv, TrialInv
<1>2. /\ \A i \in DOMAIN studio : i \in DOMAIN studio' /\ studio'[i] = studio[i]
      /\ \A i \in DOMAIN studio' \ DOMAIN studio : Adds(studio'[i]) /\ i = Len(studio) + 1
  BY <1>1, RecordsGrow
<1>3. \A i \in Recorded("scenario") : i \in Recorded("scenario")' /\ studio'[i] = studio[i]
  BY <1>2 DEF Recorded
<1>4. ASSUME NEW i \in Recorded("scenario")', i \notin Recorded("scenario")
      PROVE  /\ i = Len(studio) + 1 /\ studio'[i].content.suite = RegressionSuite
             /\ \A j \in Recorded("scenario") : studio[j].content # studio'[i].content
  <2>1. i \in DOMAIN studio' \ DOMAIN studio /\ studio'[i].kind = "scenario"
    BY <1>2, <1>4 DEF Recorded
  <2>2. Adds(studio'[i]) /\ i = Len(studio) + 1
    BY <1>2, <2>1
  <2>3. PICK k \in Clients :
          /\ client[k].step = "save" /\ studio'[i].content = client[k].content
          /\ \A j \in Recorded("scenario") : studio[j].content # client[k].content
    BY <2>1, <2>2 DEF Adds
  <2>4. client[k].content.suite = RegressionSuite
    BY <1>1, <2>3 DEF ClientsHold
  <2> QED BY <2>2, <2>3, <2>4
<1>5. \A i \in Recorded("scenario")' : studio'[i].content.suite = RegressionSuite
  BY <1>1, <1>3, <1>4 DEF ScenariosHold
<1>6. ASSUME NEW i \in Recorded("scenario")', NEW j \in Recorded("scenario")',
             studio'[i].content = studio'[j].content
      PROVE  i = j
  <2>1. CASE i \in Recorded("scenario") /\ j \in Recorded("scenario")
    BY <1>1, <1>3, <1>6, <2>1 DEF ScenariosHold
  <2>2. CASE i \notin Recorded("scenario") /\ j \notin Recorded("scenario")
    BY <1>4, <2>2
  <2>3. CASE i \in Recorded("scenario") /\ j \notin Recorded("scenario")
    BY <1>3, <1>4, <1>6, <2>3
  <2>4. CASE i \notin Recorded("scenario") /\ j \in Recorded("scenario")
    BY <1>3, <1>4, <1>6, <2>4
  <2> QED BY <2>1, <2>2, <2>3, <2>4
<1>7. ASSUME NEW r \in Reruns PROVE trial'[r].scenario \in Recorded("scenario")'
  BY <1>1, <1>3, TrialStays DEF ScenariosHold
<1> QED BY <1>5, <1>6, <1>7 DEF ScenariosHold

LEMMA ViewedStep ==
  ASSUME JudgedInv, IInv', Extends, RegressionNext, NEW r \in Reruns
  PROVE  Viewed(r)'
<1>1. /\ IInv /\ StudioTypeOK /\ Viewed(r) /\ Kept(r) /\ verdict \in [Forks -> Verdicts]
      /\ run \in [Runs -> Place] /\ r \in Runs /\ Trials \in Nat
  BY ForkAssumption DEF JudgedInv, TrialInv, StudioTypeOK, IInv, TypeOK, Runs
<1>2. PICK views \in Seq(View) : views = trial[r].views
  BY <1>1 DEF StudioTypeOK
<1>3. DOMAIN views = 1..Len(views) /\ Len(views) \in Nat
  BY <1>2
<1>4. run[r].step \in {"runtime", "settle"} => Len(views) = run[r].trial - 1
  BY <1>1, <1>2 DEF Kept, Past
<1>5. run[r].trial \in 1..Trials
  BY <1>1 DEF Place
<1>6. ASSUME NEW t \in 1..Trials, t \in DOMAIN views
      PROVE  views[t].criteria = verdict'[<<r, t>>]
  <2>1. run[r].step = "runtime" => run[r].trial # t
    <3>1. ASSUME run[r].step = "runtime" PROVE run[r].trial # t
      <4>1. t <= run[r].trial - 1
        BY <1>3, <1>4, <1>6, <3>1
      <4> QED BY <1>5, <4>1
    <3> QED BY <3>1
  <2>2. verdict'[<<r, t>>] = verdict[<<r, t>>]
    BY <1>1, <2>1, TrialVerdictStays
  <2>3. views[t].criteria = verdict[<<r, t>>]
    BY <1>1, <1>2, <1>6 DEF Viewed
  <2> QED BY <2>2, <2>3
<1>7. CASE trial'[r].views = trial[r].views
  BY <1>2, <1>6, <1>7 DEF Viewed
<1>8. ASSUME run[r].step = "settle", run'[r].step # "failed", ViewTrial(r), NEW v,
             v = BranchView(log', Branch(Own(r))), trial'[r].views = Append(trial[r].views, v)
      PROVE  Viewed(r)'
  <2>1. PICK f : f = <<r, run[r].trial>>
    OBVIOUS
  <2>2. f \in Forks /\ f[1] \in Reruns /\ f = Own(r)
    BY <1>5, <2>1 DEF Forks, Own
  <2>3. TrialInv'
    BY <1>8, CountedStep DEF JudgedInv
  <2>4. Len(trial'[r].views) = run[r].trial
    BY <1>2, <1>4, <1>5, <1>8
  <2>5. BranchReceipts(f)' # {}
    <3>1. TrialInv /\ TrialInv' /\ UNCHANGED verdict
      BY <1>8, <2>3 DEF JudgedInv, ViewTrial
    <3>2. Kept(r)'
      BY <2>3 DEF TrialInv
    <3>3. CASE run'[r].step = "crashed"
      <4>1. Settle(r)
        BY <1>8 DEF ViewTrial
      <4>2. AfterTrial(r) \/ Goto(r, "failed")
        BY <4>1 DEF Settle
      <4>3. ASSUME NEW next, next # "crashed", NEW p, NEW n,
                   \/ run' = [run EXCEPT ![r].step = next]
                   \/ run' = [run EXCEPT ![r].step = next, ![r].picks = p]
                   \/ run' = [run EXCEPT ![r].step = next, ![r].trial = n, ![r].picks = p]
            PROVE  FALSE
        BY <1>1, <3>3, <4>3 DEF Place
      <4> QED BY <4>2, <4>3 DEF AfterTrial, Goto
    <3>4. CASE run'[r].step # "crashed"
      <4>1. Past(r)' = Len(trial'[r].views)
        BY <1>8, <3>2, <3>4 DEF Kept
      <4>2. run[r].trial \in 1..Past(r)'
        BY <1>5, <2>4, <4>1
      <4> QED BY <1>8, <2>1, <3>2, <3>4, <4>2 DEF Kept
    <3> QED BY <3>3, <3>4
  <2>6. v.criteria = verdict[f]
    BY <1>8, <2>2, <2>5, NewViewIsTrue
  <2>7. UNCHANGED verdict
    BY <1>8 DEF ViewTrial
  <2>8. ASSUME NEW t \in 1..Trials, t \in DOMAIN trial'[r].views
        PROVE  trial'[r].views[t].criteria = verdict'[<<r, t>>]
    <3>1. CASE t \in DOMAIN views
      <4>1. trial'[r].views[t] = views[t]
        BY <1>2, <1>8, <3>1
      <4> QED BY <1>6, <3>1, <4>1
    <3>2. CASE t \notin DOMAIN views
      <4>1. trial'[r].views[t] = v /\ t = Len(views) + 1
        BY <1>2, <1>8, <2>8, <3>2
      <4>2. t = run[r].trial
        BY <1>4, <1>5, <1>8, <4>1
      <4> QED BY <2>1, <2>6, <2>7, <4>1, <4>2
    <3> QED BY <3>1, <3>2
  <2> QED BY <2>8 DEF Viewed
<1> QED BY <1>1, <1>7, <1>8, TrialStays

LEMMA EarnedStep ==
  ASSUME JudgedInv, RegressionNext, NEW i \in Recorded("ci")'
  PROVE  Earned(i)'
<1>1. /\ StudioTypeOK /\ verdict \in [Forks -> Verdicts] /\ TrialInv /\ ScenariosHold
      /\ \A r \in Reruns : Viewed(r)
  BY DEF JudgedInv, TrialInv, StudioTypeOK
<1>2. /\ \A j \in DOMAIN studio : j \in DOMAIN studio' /\ studio'[j] = studio[j]
      /\ \A j \in DOMAIN studio' \ DOMAIN studio : Adds(studio'[j]) /\ j = Len(studio) + 1
      /\ DOMAIN studio = 1..Len(studio) /\ Len(studio) \in Nat
  BY <1>1, RecordsGrow
<1>3. PICK r, result : r = studio'[i].content.rerun /\ result = studio'[i].content.result
  OBVIOUS
<1>4. /\ r \in Reruns /\ run[r].step \in {"save", "saved"}
      /\ ExitCode(result) = 0 =>
           /\ \A t \in 1..Trials, c \in Criteria : verdict[<<r, t>>][c] = "passed"
           /\ \E j \in 1..(i - 1) : /\ j \in DOMAIN studio /\ studio[j].kind = "scenario"
                                    /\ studio[j].content = result.scenario
           /\ result.receipt.revision.profile # result.scenario.profile
  <2>1. CASE i \in DOMAIN studio
    <3>1. i \in Recorded("ci") /\ studio'[i] = studio[i]
      BY <1>2, <2>1 DEF Recorded
    <3>2. Result(i) /\ Earned(i)
      BY <3>1 DEF JudgedInv, TrialInv
    <3>3. \A j \in 1..(i - 1) : j \in DOMAIN studio
      BY <1>2, <2>1
    <3>4. r \in Reruns /\ run[r].step = "saved"
      BY <1>3, <3>1, <3>2 DEF Result
    <3> QED BY <1>3, <3>1, <3>2, <3>3, <3>4 DEF Earned
  <2>2. CASE i \notin DOMAIN studio
    <3>1. studio'[i].kind = "ci" /\ Adds(studio'[i]) /\ i = Len(studio) + 1
      BY <1>2, <2>2 DEF Recorded
    <3>2. PICK q \in Reruns : /\ run[q].step = "save" /\ Agrees(q)
                              /\ studio'[i].content = [rerun |-> q, result |-> Judge(q)]
      BY <3>1 DEF Adds
    <3>3. q = r /\ result = Judge(q)
      BY <1>3, <3>2
    <3>4. ASSUME ExitCode(result) = 0
          PROVE  /\ \A t \in 1..Trials, c \in Criteria : verdict[<<r, t>>][c] = "passed"
                 /\ trial[r].scenario \in Recorded("scenario")
                 /\ result.scenario = studio[trial[r].scenario].content
                 /\ result.receipt.revision.profile # result.scenario.profile
      BY <1>1, <3>2, <3>3, <3>4, JudgeIsEarned
    <3>5. \A j \in Recorded("scenario") :
            j \in 1..(i - 1) /\ j \in DOMAIN studio /\ studio[j].kind = "scenario"
      BY <1>2, <3>1 DEF Recorded
    <3> QED BY <3>2, <3>3, <3>4, <3>5
  <2> QED BY <2>1, <2>2
<1>5. \A t \in 1..Trials : verdict'[<<r, t>>] = verdict[<<r, t>>]
  BY <1>1, <1>4, TrialVerdictStays
<1> QED BY <1>2, <1>3, <1>4, <1>5 DEF Earned

LEMMA SelectionsStep ==
  ASSUME JudgedInv, IInv', Extends, RegressionNext, NEW s \in Selections'
  PROVE  Stands(s)'
<1>1. IInv /\ StudioTypeOK /\ verdict \in [Forks -> Verdicts] /\ ClientsHold
  BY DEF JudgedInv, TrialInv, StudioTypeOK
<1>2. /\ \A j \in DOMAIN studio : j \in DOMAIN studio' /\ studio'[j] = studio[j]
      /\ \A j \in DOMAIN studio' \ DOMAIN studio : Adds(studio'[j]) /\ j = Len(studio) + 1
  BY <1>1, RecordsGrow
<1>3. PICK i \in Recorded("selection")' : s = studio'[i].content
  BY DEF Selections
<1>4. Stands(s)
  <2>1. CASE i \in DOMAIN studio
    <3>1. s \in Selections
      BY <1>2, <1>3, <2>1 DEF Selections, Recorded
    <3> QED BY <3>1 DEF JudgedInv
  <2>2. CASE i \notin DOMAIN studio
    <3>1. studio'[i].kind = "selection" /\ Adds(studio'[i])
      BY <1>2, <1>3, <2>2 DEF Recorded
    <3>2. PICK k \in Clients : /\ client[k].step = "select"
                               /\ studio'[i].content = client[k].content
      BY <3>1 DEF Adds
    <3>3. s = client[k].content
      BY <1>3, <3>2
    <3> QED BY <1>1, <3>2, <3>3 DEF ClientsHold
  <2> QED BY <2>1, <2>2
<1> QED BY <1>1, <1>4, StandsStays

LEMMA JudgedStep == ASSUME JudgedInv, RegressionNext PROVE JudgedInv'
<1>1. TrialInv' /\ IInv' /\ Extends
  BY TrialStep, LogExtends DEF JudgedInv, TrialInv
<1> QED BY <1>1, ScenariosStep, ClientsStep, ViewedStep, EarnedStep, SelectionsStep DEF JudgedInv

LEMMA JudgedKept == ASSUME JudgedInv, UNCHANGED regressionVars PROVE JudgedInv'
<1>1. TrialInv'
  BY TrialKept DEF JudgedInv
<1>2. UNCHANGED <<log, run, verdict, studio, client, trial>>
  BY DEF regressionVars, vars
<1>3. /\ \A kind : Recorded(kind)' = Recorded(kind)
      /\ \A s : Stands(s)' <=> Stands(s)
      /\ Selections' = Selections
  BY <1>2 DEF Recorded, Stands, Selections
<1>4. ScenariosHold' /\ \A r \in Reruns : Viewed(r)'
  BY <1>2, <1>3 DEF JudgedInv, ScenariosHold, Viewed
<1>5. ClientsHold'
  BY <1>2 DEF JudgedInv, ClientsHold, Stands
<1>6. \A i \in Recorded("ci")' : Earned(i)'
  BY <1>2, <1>3 DEF JudgedInv, Earned
<1> QED BY <1>1, <1>3, <1>4, <1>5, <1>6 DEF JudgedInv

LEMMA JudgedInit == ASSUME RegressionInit PROVE JudgedInv
<1>1. TrialInv
  BY TrialInit
<1>2. PICK e, x : /\ studio = <<e>> /\ e = [kind |-> "scenario", content |-> x]
                  /\ x.suite = RegressionSuite
  <2>1. PICK b : studio = <<[kind |-> "scenario", content |-> Scenario(b)]>>
    BY DEF RegressionInit
  <2> QED BY <2>1 DEF Scenario
<1>3. DOMAIN studio = {1} /\ studio[1].kind = "scenario" /\ studio[1].content.suite = RegressionSuite
  BY <1>2
<1>4. Recorded("scenario") = {1} /\ Recorded("ci") = {} /\ Recorded("selection") = {}
  BY <1>3 DEF Recorded
<1>5. \A r \in Reruns : trial[r].scenario = 1 /\ trial[r].views = <<>>
  BY DEF RegressionInit
<1>6. ScenariosHold
  BY <1>3, <1>4, <1>5 DEF ScenariosHold
<1>7. ClientsHold
  BY DEF RegressionInit, ClientsHold
<1>8. \A r \in Reruns : Viewed(r)
  BY <1>5 DEF Viewed
<1> QED BY <1>1, <1>4, <1>6, <1>7, <1>8 DEF JudgedInv, Selections

LEMMA Judged == RegressionSpec => []JudgedInv
<1>1. RegressionInit => JudgedInv
  BY JudgedInit
<1>2. JudgedInv /\ [RegressionNext]_regressionVars => JudgedInv'
  BY JudgedStep, JudgedKept
<1> QED BY <1>1, <1>2, PTL DEF RegressionSpec

\* A CI result that lets a job pass stands for a rerun in which the verifiers of every
\* trial passed every criterion, for a scenario that was recorded before it, and for
\* another profile than the incident's (enforceOutcomeCiResult, evaluateThreshold).
THEOREM PassIsEarned == RegressionSpec => []PassedIsEveryTrial
<1>1. JudgedInv => PassedIsEveryTrial
  BY DEF JudgedInv, PassedIsEveryTrial, Earned
<1> QED BY <1>1, Judged, PTL

\* A scenario is recorded once, and a selected branch had, in the log it was compared in,
\* a receipt with every criterion passed while no Effect was open, and still has it
\* (saveOutcomeStudioScenario, selectVerifiedOutcomeBranch).
THEOREM RecordsAreTrue == RegressionSpec => []RecordsStand
<1>1. ASSUME JudgedInv, NEW s \in Selections
      PROVE  LET h == SubSeq(log, 1, s.through)
             IN /\ \A c \in Criteria : BranchView(log, s.branch).criteria[c] = "passed"
                /\ Unresolved(h) = {} /\ ReceiptOf(h, s.branch) = ReceiptOf(log, s.branch)
                /\ Cardinality(s.among) >= 2
  <2>1. Stands(s)
    BY <1>1 DEF JudgedInv
  <2>2. BranchView(log, s.branch).criteria = verdict[log[LastOf(ReceiptOf(log, s.branch))].id]
    BY DEF BranchView
  <2> QED BY <2>1, <2>2 DEF Stands
<1>2. JudgedInv => RecordsStand
  BY <1>1 DEF JudgedInv, ScenariosHold, RecordsStand
<1> QED BY <1>2, Judged, PTL
=============================================================================
