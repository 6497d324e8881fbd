----------------------- MODULE CheckpointReplayProofs -----------------------
(***************************************************************************)
(* Proofs about CheckpointReplay, for every set of requests: the frontier  *)
(* of a checkpoint is whole, a model is asked at most once for a replay,   *)
(* and what is returned and recorded of a replay is in its journal.        *)
(***************************************************************************)
EXTENDS CheckpointReplay, WellFoundedInduction, TLAPS

-----------------------------------------------------------------------------
(* The inductive invariant.                                                *)

\* A result is the end of a chain that the journal begins with.
Ends(j, phase) ==
  \E n \in DOMAIN j : Readable(SubSeq(j, 1, n)) /\ Phase(SubSeq(j, 1, n)) = phase

\* While the lease is held nobody records an Effect.
FrontierInv ==
  /\ holder = "capture" => Events(log, "effect") \subseteq 1..seen
  /\ FrontierIsWhole

\* A request has a line in hand that its journal takes, and what is to be recorded
\* of it, or was, is where its journal has come to an end.
Follow(q) ==
  LET r == request[q]
  IN /\ r.step \in {"load", "write"} => r.event \in Lines
     /\ q \in Branching /\ r.step = "write" => Follows(Mode(q), journal[q], r.event, r.value)
     /\ r.step = "persist" =>
          q \in Branching /\ r.result \in Terminal /\ Phase(journal[q]) = r.result
     /\ r.step \in {"persist", "returned"} => Ends(journal[ReplayId(q)], r.result)
     /\ Recorded(q) \subseteq {Phase(journal[ReplayId(q)])} \cap Terminal
     /\ Recorded(q) # {} => q \in Branching

\* The lines about a model's answer follow the one question, and this the line that
\* it is asked.
Asked(q) ==
  LET r == request[q]  j == journal[q]
  IN /\ resamples[q] \in {0, 1}
     /\ resamples[q] = 1 => Has(j, "model.started")
     /\ Has(j, "model.started") => Phase(j) \in {"model-running", "model-finished"} \cup Terminal
     /\ Phase(j) # "source-validated"
     /\ Phase(j) \in {"model-finished", "completed"} => resamples[q] = 1
     /\ r.step = "resample" => resamples[q] = 0 /\ Has(j, "model.started")
     /\ r.step \in {"load", "write"} /\ r.event \in {"model.evidence", "model.finished"} =>
          resamples[q] = 1

IInv ==
  /\ TypeOK
  /\ FrontierInv
  /\ \A q \in Requests : Follow(q)
  /\ \A q \in Counterfactuals : Asked(q)

-----------------------------------------------------------------------------
(* Sequences of events: the last of some, and what an append leaves.       *)

\* A bounded set of numbers has a greatest member: of the distances to the bound
\* one is least.
LEMMA LastIsMember ==
  ASSUME NEW n \in Nat, NEW S \in SUBSET (1..n), S # {}
  PROVE  LastOf(S) \in S /\ \A i \in S : i <= LastOf(S)
<1> DEFINE R == OpToRel(<, Nat)
           T == {k \in 0..n : n - k \in S}
<1>1. IsWellFoundedOn(R, Nat)
  BY NatLessThanWellFounded
<1>2. ASSUME NEW x \in Nat, NEW y \in Nat, x < y
      PROVE  <<x, y>> \in R
  BY <1>2 DEF OpToRel
<1> HIDE DEF R
<1>3. T \in SUBSET Nat /\ \A i \in S : n - i \in T
  OBVIOUS
<1>4. PICK m \in T : \A k \in T : ~(<<k, m>> \in R)
  BY <1>1, <1>3, WFMin
<1>5. m \in Nat /\ n - m \in S
  OBVIOUS
<1>6. \A k \in T : ~(k < m)
  BY <1>2, <1>3, <1>4, <1>5
<1>7. ASSUME NEW j \in S
      PROVE  j <= n - m
  <2>1. ~(n - j < m)
    BY <1>3, <1>6
  <2> QED BY <1>5, <2>1
<1> QED BY <1>5, <1>7 DEF LastOf

\* A sequence and one event more.
LEMMA Appended ==
  ASSUME NEW X, NEW h \in Seq(X), NEW e \in X
  PROVE  /\ Append(h, e) \in Seq(X)
         /\ Len(Append(h, e)) = Len(h) + 1
         /\ DOMAIN Append(h, e) = 1..(Len(h) + 1)
         /\ \A i \in 1..Len(h) : Append(h, e)[i] = h[i]
         /\ Append(h, e)[Len(h) + 1] = e
         /\ \A n \in 0..Len(h) : SubSeq(Append(h, e), 1, n) = SubSeq(h, 1, n)
  OBVIOUS

\* A prefix, event by event.
LEMMA Prefix ==
  ASSUME NEW X, NEW h \in Seq(X), NEW n \in 0..Len(h)
  PROVE  /\ SubSeq(h, 1, n) \in Seq(X)
         /\ DOMAIN SubSeq(h, 1, n) = 1..n
         /\ \A i \in 1..n : SubSeq(h, 1, n)[i] = h[i]
  OBVIOUS

\* The whole is a prefix of its own.
LEMMA Whole ==
  ASSUME NEW X, NEW h \in Seq(X)
  PROVE  SubSeq(h, 1, Len(h)) = h
  OBVIOUS

\* The external Effects of two logs with the same Effect events are the same.
LEMMA FrontierOfEvents ==
  ASSUME NEW X, NEW h \in Seq(X), NEW k \in Seq(X), NEW n \in Nat,
         DOMAIN h \subseteq 1..n, DOMAIN k \subseteq 1..n,
         Events(h, "effect") = Events(k, "effect"),
         \A i \in Events(h, "effect") : h[i] = k[i]
  PROVE  Frontier(h) = Frontier(k)
<1>1. Effects(h) = Effects(k)
  BY DEF Effects
<1>2. ASSUME NEW e \in Effects(h)
      PROVE  EffectStatus(h, e) = EffectStatus(k, e)
  <2>1. Of(h, "effect", e) = Of(k, "effect", e)
    BY DEF Of
  <2>2. Of(h, "effect", e) # {} /\ Of(h, "effect", e) \in SUBSET (1..n)
    BY DEF Effects, Of, Events
  <2>3. LastOf(Of(h, "effect", e)) \in Of(h, "effect", e)
    BY <2>2, LastIsMember
  <2>4. LastOf(Of(h, "effect", e)) \in Events(h, "effect")
    BY <2>3 DEF Of
  <2> QED BY <2>1, <2>4 DEF EffectStatus
<1> QED BY <1>1, <1>2 DEF Frontier

\* The phase of a journal with one line more.
LEMMA PhaseOfAppend ==
  ASSUME NEW j \in Seq(JournalLine), NEW l \in JournalLine
  PROVE  Phase(Append(j, l)) =
           IF l.type \in DOMAIN PhaseAfter THEN PhaseAfter[l.type] ELSE Phase(j)
<1> DEFINE k == Append(j, l)
           S(h) == {i \in DOMAIN h : h[i].type \in DOMAIN PhaseAfter}
<1>1. /\ DOMAIN j = 1..Len(j) /\ DOMAIN k = 1..(Len(j) + 1) /\ Len(j) \in Nat
      /\ \A i \in 1..Len(j) : k[i] = j[i]
      /\ k[Len(j) + 1] = l
  BY Appended
<1> HIDE DEF k
<1>2. CASE l.type \in DOMAIN PhaseAfter
  <2>1. Len(j) + 1 \in S(k) /\ S(k) \in SUBSET (1..(Len(j) + 1))
    BY <1>1, <1>2
  <2>2. LastOf(S(k)) = Len(j) + 1
    <3> HIDE DEF S
    <3>1. PICK n \in Nat : n = Len(j) + 1
      BY <1>1
    <3>2. S(k) # {} /\ S(k) \in SUBSET (1..n)
      BY <2>1, <3>1
    <3>3. LastOf(S(k)) \in S(k) /\ \A i \in S(k) : i <= LastOf(S(k))
      BY <3>2, LastIsMember
    <3> QED BY <1>1, <2>1, <3>3
  <2> QED BY <1>1, <1>2, <2>1, <2>2 DEF Phase, k
<1>3. CASE l.type \notin DOMAIN PhaseAfter
  <2>1. S(k) = S(j)
    BY <1>1, <1>3
  <2>2. CASE S(j) = {}
    BY <1>3, <2>1, <2>2 DEF Phase, k
  <2>3. CASE S(j) # {}
    <3>1. S(j) \in SUBSET (1..Len(j))
      BY <1>1
    <3>2. LastOf(S(j)) \in S(j)
      BY <1>1, <2>3, <3>1, LastIsMember
    <3>3. k[LastOf(S(j))] = j[LastOf(S(j))]
      BY <1>1, <3>2
    <3> QED BY <1>3, <2>1, <2>3, <3>3 DEF Phase, k
  <2> QED BY <2>2, <2>3
<1> QED BY <1>2, <1>3

LEMMA PhaseOfEmpty ==
  ASSUME NEW j, DOMAIN j = {}
  PROVE  Phase(j) = "none"
BY DEF Phase

\* What a journal has, it keeps.
LEMMA HasOfAppend ==
  ASSUME NEW j \in Seq(JournalLine), NEW l \in JournalLine, NEW type
  PROVE  Has(Append(j, l), type) <=> Has(j, type) \/ l.type = type
<1>1. /\ DOMAIN j = 1..Len(j) /\ DOMAIN Append(j, l) = 1..(Len(j) + 1) /\ Len(j) \in Nat
      /\ \A i \in 1..Len(j) : Append(j, l)[i] = j[i]
      /\ Append(j, l)[Len(j) + 1] = l
  BY Appended
<1> QED BY <1>1 DEF Has

LEMMA EndsOfAppend ==
  ASSUME NEW j \in Seq(JournalLine), NEW l \in JournalLine, NEW phase, Ends(j, phase)
  PROVE  Ends(Append(j, l), phase)
<1>1. PICK n \in DOMAIN j : Readable(SubSeq(j, 1, n)) /\ Phase(SubSeq(j, 1, n)) = phase
  BY DEF Ends
<1>2. n \in 0..Len(j) /\ n \in DOMAIN Append(j, l)
  BY Appended
<1>3. SubSeq(Append(j, l), 1, n) = SubSeq(j, 1, n)
  BY <1>2, Appended
<1> QED BY <1>1, <1>2, <1>3 DEF Ends

-----------------------------------------------------------------------------
(* The log.                                                                *)

\* Who may record what: an Effect nobody while a capture holds the lease, and the
\* end of a replay the request that has it in hand.
Permitted(e) ==
  /\ e.type = "effect" => holder # "capture"
  /\ e.type = "replay" =>
       e.id \in Requests /\ request[e.id].step = "persist" /\ e.value = request[e.id].result

\* The log grows by events that are permitted.
Grows ==
  /\ log' \in Seq(LogEvent) /\ Len(log) <= Len(log')
  /\ \A i \in 1..Len(log) : log'[i] = log[i]
  /\ \A n \in 0..Len(log) : SubSeq(log', 1, n) = SubSeq(log, 1, n)
  /\ \A i \in 1..Len(log') : i > Len(log) => Permitted(log'[i])

LEMMA Extended ==
  ASSUME NEW X, NEW h \in Seq(X), NEW k \in Seq(X)
  PROVE  /\ h \o k \in Seq(X)
         /\ Len(h \o k) = Len(h) + Len(k)
         /\ \A i \in 1..Len(h) : (h \o k)[i] = h[i]
         /\ \A i \in 1..Len(k) : (h \o k)[Len(h) + i] = k[i]
         /\ \A n \in 0..Len(h) : SubSeq(h \o k, 1, n) = SubSeq(h, 1, n)
  OBVIOUS

LEMMA GrowsBy ==
  ASSUME TypeOK, NEW k \in Seq(LogEvent), log' = log \o k,
         \A i \in 1..Len(k) : Permitted(k[i])
  PROVE  Grows
<1>1. log \in Seq(LogEvent)
  BY DEF TypeOK
<1>2. Len(log) \in Nat /\ Len(k) \in Nat
  BY <1>1
<1>3. ASSUME NEW i \in 1..Len(log'), i > Len(log)
      PROVE  Permitted(log'[i])
  <2>1. i - Len(log) \in 1..Len(k)
    BY <1>1, <1>2, <1>3, Extended
  <2>2. log'[Len(log) + (i - Len(log))] = k[i - Len(log)]
    BY <1>1, <2>1, Extended
  <2>3. Len(log) + (i - Len(log)) = i
    BY <1>2, <1>3
  <2> QED BY <2>1, <2>2, <2>3
<1> QED BY <1>1, <1>2, <1>3, Extended DEF Grows

LEMMA GrowsByOne ==
  ASSUME TypeOK, NEW e \in LogEvent, log' = Append(log, e), Permitted(e)
  PROVE  Grows
<1>1. log \in Seq(LogEvent)
  BY DEF TypeOK
<1>2. ASSUME NEW i \in 1..Len(log'), i > Len(log)
      PROVE  log'[i] = e
  BY <1>1, <1>2, Appended
<1> QED BY <1>1, <1>2, Appended DEF Grows

LEMMA GrowsByNone ==
  ASSUME TypeOK, UNCHANGED log
  PROVE  Grows
<1>1. log \in Seq(LogEvent)
  BY DEF TypeOK
<1>2. Len(log) \in Nat
  BY <1>1
<1> QED BY <1>1, <1>2 DEF Grows

LEMMA LogStep ==
  ASSUME TypeOK, \A q \in Requests : Follow(q), [Next]_vars
  PROVE  Grows
<1>1. CASE BeginCapture \/ LoseLease \/ UNCHANGED vars
  BY <1>1, GrowsByNone DEF BeginCapture, LoseLease, vars
<1>2. CASE Capture \/ CaptureForHandoff
  <2>1. Event("checkpoint", Root, Root, "created") \in LogEvent
    BY DEF Event, LogEvent
  <2>2. Permitted(Event("checkpoint", Root, Root, "created"))
    BY DEF Event, Permitted
  <2>3. UNCHANGED log \/ log' = Append(log, Event("checkpoint", Root, Root, "created"))
    BY <1>2 DEF Capture, CaptureForHandoff, Append1
  <2> QED BY <2>1, <2>2, <2>3, GrowsByOne, GrowsByNone
<1>3. CASE CoordinateEffect
  <2>1. PICK e \in Exact \cup Vague : \E status \in NextStatus(e) : Append1("effect", Root, e, status)
    BY <1>3 DEF CoordinateEffect
  <2>2. PICK status \in NextStatus(e) : Append1("effect", Root, e, status)
    BY <2>1
  <2>3. status \in EffectStatuses
    BY <2>2 DEF NextStatus, EffectStatuses
  <2>4. Event("effect", Root, e, status) \in LogEvent
    BY <2>1, <2>3 DEF Event, LogEvent
  <2>5. Permitted(Event("effect", Root, e, status))
    BY <1>3, ReplayAssumption DEF CoordinateEffect, OthersMay, Event, Permitted
  <2> QED BY <2>2, <2>4, <2>5, GrowsByOne DEF Append1
<1>4. CASE RuntimeLine
  <2>1. PICK content \in Contents : Append1("line", Root, Root, content)
    BY <1>4 DEF RuntimeLine
  <2>2. Event("line", Root, Root, content) \in LogEvent
    BY <2>1 DEF Event, LogEvent, Contents
  <2>3. Permitted(Event("line", Root, Root, content))
    BY DEF Event, Permitted
  <2> QED BY <2>1, <2>2, <2>3, GrowsByOne DEF Append1
<1>5. ASSUME NEW q \in Requests, Replay(q)
      PROVE  Grows
  <2>1. CASE ~Persist(q)
    BY <1>5, <2>1, GrowsByNone
      DEF Replay, Ask, Project, Load, Write, Resample, Crash, Retry, Keep
  <2>2. CASE Persist(q)
    <3> DEFINE phase == request[q].result
               created == Event("branch.created", Child, q, "active")
               ended == Event("replay", Child, q, phase)
    <3>1. request[q].step = "persist" /\ phase \in Terminal
      BY <2>2 DEF Persist, Follow
    <3>2. created \in LogEvent /\ ended \in LogEvent
      BY <3>1 DEF Event, LogEvent, Terminal
    <3>3. Permitted(created) /\ Permitted(ended)
      BY <3>1 DEF Event, Permitted
    <3> HIDE DEF created, ended
    <3>4. \/ UNCHANGED log
          \/ log' = log \o (<<created>> \o <<ended>>)
          \/ log' = log \o (<<>> \o <<ended>>)
      <4>1. UNCHANGED log \/ log' = log \o KernelEvents(q, phase)
        BY <2>2 DEF Persist
      <4>2. KernelEvents(q, phase) \in {<<created>> \o <<ended>>, <<>> \o <<ended>>}
        BY DEF KernelEvents, created, ended
      <4> HIDE DEF phase
      <4> QED BY <4>1, <4>2
    <3>5. ASSUME NEW k \in Seq(LogEvent), log' = log \o (k \o <<ended>>),
                 Len(k) <= 1, \A i \in 1..Len(k) : Permitted(k[i])
          PROVE  Grows
      <4>1. <<ended>> \in Seq(LogEvent) /\ Len(<<ended>>) = 1 /\ <<ended>>[1] = ended
        BY <3>2
      <4>2. k \o <<ended>> \in Seq(LogEvent)
        BY <4>1
      <4>3. ASSUME NEW i \in 1..Len(k \o <<ended>>)
            PROVE  Permitted((k \o <<ended>>)[i])
        BY <3>3, <3>5, <4>1, <4>3
      <4> QED BY <3>5, <4>2, <4>3, GrowsBy
    <3>6. <<created>> \in Seq(LogEvent) /\ Len(<<created>>) = 1 /\ <<created>>[1] = created
      BY <3>2
    <3>7. <<>> \in Seq(LogEvent) /\ Len(<<>>) = 0
      OBVIOUS
    <3>8. CASE log' = log \o (<<created>> \o <<ended>>)
      <4>1. PICK k \in Seq(LogEvent) : k = <<created>>
        BY <3>6
      <4>2. Len(k) <= 1 /\ \A i \in 1..Len(k) : Permitted(k[i])
        BY <3>3, <3>6, <4>1
      <4>3. log' = log \o (k \o <<ended>>)
        BY <3>8, <4>1
      <4> QED BY <3>5, <4>2, <4>3
    <3>9. CASE log' = log \o (<<>> \o <<ended>>)
      <4>1. PICK k \in Seq(LogEvent) : k = <<>>
        BY <3>7
      <4>2. Len(k) <= 1 /\ \A i \in 1..Len(k) : Permitted(k[i])
        BY <3>7, <4>1
      <4>3. log' = log \o (k \o <<ended>>)
        BY <3>9, <4>1
      <4> QED BY <3>5, <4>2, <4>3
    <3> QED BY <3>4, <3>8, <3>9, GrowsByNone
  <2> QED BY <2>1, <2>2
<1> QED BY <1>1, <1>2, <1>3, <1>4, <1>5 DEF Next

-----------------------------------------------------------------------------
(* The checkpoint.                                                         *)

LEMMA FrontierStep ==
  ASSUME TypeOK, FrontierInv, Grows, [Next]_vars
  PROVE  FrontierInv'
<1>1. log \in Seq(LogEvent) /\ DOMAIN log = 1..Len(log) /\ Len(log) \in Nat /\ seen \in 0..Len(log)
  BY DEF TypeOK
<1>2. ASSUME holder' = "capture"
      PROVE  Events(log', "effect") \subseteq 1..seen'
  <2>1. CASE BeginCapture
    BY <1>1, <2>1 DEF BeginCapture, Events
  <2>2. CASE ~BeginCapture
    <3>1. holder = "capture" /\ seen' = seen
      BY <1>2, <2>2, ReplayAssumption
        DEF Next, Capture, CaptureForHandoff, EndCapture, LoseLease, CoordinateEffect, RuntimeLine,
            Replay, Ask, Project, Load, Write, Resample, Persist, Crash, Retry, Keep, vars
    <3>2. ASSUME NEW i \in Events(log', "effect")
          PROVE  i \in Events(log, "effect")
      <4>1. i \in 1..Len(log') /\ log'[i].type = "effect"
        BY DEF Grows, Events
      <4>2. i <= Len(log)
        BY <1>1, <3>1, <4>1 DEF Grows, Permitted
      <4> QED BY <1>1, <4>1, <4>2 DEF Grows, Events
    <3> QED BY <3>1, <3>2 DEF FrontierInv
  <2> QED BY <2>1, <2>2
<1>3. CASE UNCHANGED checkpoint
  <2>1. checkpoint # None =>
          SubSeq(log', 1, checkpoint.through) = SubSeq(log, 1, checkpoint.through)
    BY <1>1 DEF TypeOK, Grows
  <2>2. FrontierIsWhole'
    BY <1>3, <2>1 DEF FrontierInv, FrontierIsWhole
  <2> QED BY <1>2, <2>2 DEF FrontierInv
<1>4. ASSUME NEW workspace, checkpoint' = Manifest(workspace), holder = "capture"
      PROVE  FrontierInv'
  <2> DEFINE h == SubSeq(log, 1, seen)
             k == SubSeq(log, 1, Len(log))
  <2>1. /\ h \in Seq(LogEvent) /\ DOMAIN h = 1..seen /\ \A i \in 1..seen : h[i] = log[i]
        /\ k \in Seq(LogEvent) /\ DOMAIN k = 1..Len(log) /\ \A i \in 1..Len(log) : k[i] = log[i]
    BY <1>1, Prefix
  <2> HIDE DEF h, k
  <2>2. Events(log, "effect") \subseteq 1..seen
    BY <1>4 DEF FrontierInv
  <2>3. Events(h, "effect") = Events(k, "effect")
    BY <1>1, <2>1, <2>2 DEF Events
  <2>4. \A i \in Events(h, "effect") : h[i] = k[i]
    BY <1>1, <2>1, <2>3 DEF Events
  <2>5. Frontier(h) = Frontier(k)
    BY <1>1, <2>1, <2>3, <2>4, FrontierOfEvents
  <2>6. SubSeq(log', 1, Len(log)) = k
    BY <1>1 DEF Grows, k
  <2>7. checkpoint'.frontier = Frontier(h) /\ checkpoint'.through = Len(log)
    BY <1>4 DEF Manifest, h
  <2>8. FrontierIsWhole'
    BY <2>5, <2>6, <2>7 DEF FrontierIsWhole
  <2> QED BY <1>2, <2>8 DEF FrontierInv
<1> QED BY <1>3, <1>4
      DEF Next, BeginCapture, Capture, CaptureForHandoff, EndCapture, LoseLease, CoordinateEffect,
          RuntimeLine, Replay, Ask, Project, Load, Write, Resample, Persist, Crash, Retry, Keep, vars

-----------------------------------------------------------------------------
(* The requests.                                                           *)

\* What a call appends of its own accord.
Proposed == Lines \ {"model.evidence", "model.finished", "torn"}

LEMMA NextLine ==
  ASSUME NEW q, NEW j
  PROVE  /\ Continue(q, j) \in Proposed \cup {"return"}
         /\ Continue(q, j) = "return" => Phase(j) \in Terminal
<1>1. ContinuePlayback(Phase(j)) \in Proposed
  BY DEF ContinuePlayback, Proposed, Lines
<1>2. ContinueCached(Phase(j), request[q].event) \in Proposed
  BY DEF ContinueCached, Proposed, Lines
<1>3. FinishCounterfactual(j) \in Proposed
  BY DEF FinishCounterfactual, Proposed, Lines
<1>4. ContinueCounterfactual(j) \in Proposed
  BY <1>3 DEF ContinueCounterfactual, Proposed, Lines
<1>5. "replay.planned" \in Proposed /\ "return" \notin Proposed
  BY DEF Proposed, Lines
<1>6. CASE Phase(j) = "none"
  BY <1>5, <1>6 DEF Continue, Terminal
<1>7. CASE Phase(j) \in Terminal
  BY <1>7 DEF Continue, Terminal
<1>8. CASE Phase(j) # "none" /\ Phase(j) \notin Terminal
  BY <1>1, <1>2, <1>4, <1>5, <1>8 DEF Continue
<1> QED BY <1>6, <1>7, <1>8

\* A replay of a branch has its journal to itself.
LEMMA OwnJournal ==
  ASSUME NEW q \in Branching, NEW r \in Requests, ReplayId(r) = ReplayId(q)
  PROVE  r = q /\ ReplayId(q) = q
BY ReplayAssumption DEF Branching, Requests, ReplayId

\* A line that is appended is the one in hand, or a part of it.
Appends(q, l) ==
  /\ request[q].step = "write" /\ l \in JournalLine
  /\ journal' = [journal EXCEPT ![ReplayId(q)] = Append(@, l)]
  /\ \/ l = Line(request[q].read + 1, request[q].event, request[q].value)
     \/ l.type = "torn"

\* The place that a request goes to.
Moves(q, place) == place \in Place /\ request' = [request EXCEPT ![q] = place]

LEMMA GoesTo ==
  ASSUME TypeOK, NEW q \in Requests, NEW step \in Steps, Goto(q, step)
  PROVE  \E place : /\ Moves(q, place) /\ place.step = step
                    /\ step \notin Over => place = [request[q] EXCEPT !.step = step]
<1>1. request[q] \in Place
  BY DEF TypeOK
<1>2. CASE step \in Over
  <2>1. [Idle EXCEPT !.step = step] \in Place
    BY DEF Idle, Place, LineValue
  <2>2. [Idle EXCEPT !.step = step].step = step
    BY DEF Idle
  <2> QED BY <1>2, <2>1, <2>2 DEF Goto, Moves
<1>3. CASE step \notin Over
  <2>1. [request[q] EXCEPT !.step = step] \in Place
    BY <1>1 DEF Place
  <2>2. [request[q] EXCEPT !.step = step].step = step
    BY <1>1 DEF Place
  <2> QED BY <1>3, <2>1, <2>2 DEF Goto, Moves
<1> QED BY <1>2, <1>3

LEMMA GoesToLoad ==
  ASSUME TypeOK, NEW q \in Requests, NEW event \in Lines, NEW value \in LineValue,
         AppendLine(q, event, value)
  PROVE  \E place : Moves(q, place) /\ place.step = "load" /\ place.event = event
<1> DEFINE place == [request[q] EXCEPT !.step = "load", !.event = event, !.value = value]
<1>1. request[q] \in Place
  BY DEF TypeOK
<1>2. place \in Place /\ place.step = "load" /\ place.event = event
  BY <1>1 DEF Place, Steps
<1>3. request' = [request EXCEPT ![q] = place]
  BY DEF AppendLine
<1> HIDE DEF place
<1> QED BY <1>2, <1>3 DEF Moves

(* What a step of a request comes to, for its place and its journal.       *)

Rests(q, place) ==  \* it begins, throws, or ends with its controller
  place.step \in {"project", "threw", "crashed"} /\ UNCHANGED <<journal, resamples>>
Proposes(q, place) ==
  /\ place.step = "load" /\ place.event \in Proposed
  /\ UNCHANGED <<journal, resamples>>
Loads(q, place) ==
  /\ request[q].step = "load"
  /\ place.step = "write" /\ place.event = request[q].event /\ place.value = request[q].value
  /\ Follows(Mode(q), journal[ReplayId(q)], request[q].event, request[q].value)
  /\ UNCHANGED <<journal, resamples>>
Returns(q, place) ==
  /\ Readable(journal[ReplayId(q)])
  /\ place.result = Phase(journal[ReplayId(q)]) /\ place.result \in Terminal
  /\ place.step = IF q \in Branching THEN "persist"
                  ELSE IF place.result = "completed" THEN "returned" ELSE "threw"
  /\ UNCHANGED <<journal, resamples>>
Records(q, place) ==
  /\ request[q].step = "persist"
  /\ place.step = "returned" /\ place.result = request[q].result
  /\ UNCHANGED <<journal, resamples>>
Writes(q, place) ==
  /\ UNCHANGED resamples
  /\ \E l : /\ Appends(q, l)
            /\ \/ l.type = "torn" /\ place.step = "crashed"
               \/ l.type = "model.started" /\ place.step = "resample"
               \/ l.type = "model.evidence" /\ place.step = "load" /\ place.event = "model.finished"
               \/ l.type \notin {"model.started", "model.evidence"} /\ place.step \in {"project", "threw"}
Samples(q, place) ==
  /\ request[q].step = "resample"
  /\ resamples' = [resamples EXCEPT ![q] = @ + 1]
  /\ place.step = "load" /\ place.event \in {"replay.failed", "replay.unknown", "model.evidence"}
  /\ UNCHANGED journal

StepOf(q, place) ==
  \/ Rests(q, place) \/ Proposes(q, place) \/ Loads(q, place) \/ Returns(q, place)
  \/ Records(q, place) \/ Writes(q, place) \/ Samples(q, place)

LEMMA ReplayStep ==
  ASSUME TypeOK, NEW q \in Requests, Follow(q), Replay(q)
  PROVE  \E place : Moves(q, place) /\ StepOf(q, place)
<1> DEFINE j == journal[ReplayId(q)]
<1>0. /\ request[q] \in Place /\ request \in [Requests -> Place]
      /\ journal \in [ReplayIds -> Seq(JournalLine)] /\ ReplayId(q) \in ReplayIds
      /\ j \in Seq(JournalLine)
  BY DEF TypeOK, ReplayIds
<1>1. CASE \E step \in {"project", "threw", "crashed"} :
             Goto(q, step) /\ UNCHANGED <<journal, resamples>>
  <2>1. PICK step \in {"project", "threw", "crashed"} :
          Goto(q, step) /\ UNCHANGED <<journal, resamples>>
    BY <1>1
  <2>2. step \in Steps
    BY DEF Steps
  <2> QED BY <2>1, <2>2, GoesTo DEF StepOf, Rests
<1>2. CASE Ask(q)
  BY <1>1, <1>2 DEF Ask
<1>3. CASE Project(q)
  <2>1. CASE ~Readable(j)
    BY <1>1, <1>3, <2>1 DEF Project
  <2>2. CASE Readable(j) /\ Continue(q, j) = "return"
    <3> DEFINE place == [request[q] EXCEPT !.result = Phase(j), !.event = None, !.value = "",
                           !.read = 0, !.step = IF q \in Branching THEN "persist"
                             ELSE IF Phase(j) = "completed" THEN "returned" ELSE "threw"]
    <3>1. Phase(j) \in Terminal
      BY <2>2, NextLine
    <3>2. request' = [request EXCEPT ![q] = place] /\ UNCHANGED <<journal, resamples>>
      BY <1>3, <2>2 DEF Project, Return
    <3>3. place \in Place
      BY <1>0, <3>1 DEF Place, LineValue, Steps
    <3>4. place.result = Phase(j) /\ place.step = IF q \in Branching THEN "persist"
                             ELSE IF Phase(j) = "completed" THEN "returned" ELSE "threw"
      BY <1>0 DEF Place
    <3> HIDE DEF place
    <3> QED BY <2>2, <3>1, <3>2, <3>3, <3>4 DEF Moves, StepOf, Returns
  <2>3. CASE Readable(j) /\ Continue(q, j) # "return"
    <3>1. Continue(q, j) \in Proposed /\ Continue(q, j) # "resample"
      BY <2>3, NextLine DEF Proposed, Lines
    <3>2. PICK value \in {"unknown", ""} : AppendLine(q, Continue(q, j), value)
      BY <1>3, <2>3, <3>1 DEF Project, ReceiptInput
    <3>3. Continue(q, j) \in Lines /\ value \in LineValue
      BY <3>1 DEF Proposed, LineValue, Terminal
    <3>4. \E place : Moves(q, place) /\ place.step = "load" /\ place.event = Continue(q, j)
      BY <3>2, <3>3, GoesToLoad
    <3> QED BY <1>3, <3>1, <3>4 DEF StepOf, Proposes, Project
  <2> QED BY <2>1, <2>2, <2>3
<1>4. CASE Load(q)
  <2>1. CASE ~(Readable(j) /\ Follows(Mode(q), j, request[q].event, request[q].value))
    BY <1>1, <1>4, <2>1 DEF Load
  <2>2. CASE Readable(j) /\ Follows(Mode(q), j, request[q].event, request[q].value)
    <3> DEFINE place == [request[q] EXCEPT !.step = "write", !.read = Len(j)]
    <3>1. request' = [request EXCEPT ![q] = place]
      BY <1>4, <2>2 DEF Load
    <3>2. Len(j) \in Nat
      BY <1>0
    <3>3. place \in Place /\ place.step = "write" /\ place.event = request[q].event
          /\ place.value = request[q].value
      BY <1>0, <3>2 DEF Place, Steps
    <3> HIDE DEF place
    <3> QED BY <1>4, <2>2, <3>1, <3>3 DEF Moves, StepOf, Loads, Load
  <2> QED BY <2>1, <2>2
<1>5. CASE Write(q)
  <2> DEFINE l == Line(request[q].read + 1, request[q].event, request[q].value)
  <2>1. l \in JournalLine /\ l.type = request[q].event /\ l.value = request[q].value
    BY <1>0, <1>5 DEF Write, Follow, Line, JournalLine, Place
  <2>2. Appends(q, l) /\ UNCHANGED resamples
    BY <1>5, <2>1 DEF Write, Appends
  <2>3. \/ l.type = "model.started" /\ Goto(q, "resample")
        \/ l.type = "model.evidence" /\ AppendLine(q, "model.finished", request[q].value)
        \/ l.type \notin {"model.started", "model.evidence"} /\ (Goto(q, "threw") \/ Goto(q, "project"))
    BY <1>5 DEF Write
  <2> HIDE DEF l
  <2>4. \E place : Moves(q, place) /\
          \/ l.type = "model.started" /\ place.step = "resample"
          \/ l.type = "model.evidence" /\ place.step = "load" /\ place.event = "model.finished"
          \/ l.type \notin {"model.started", "model.evidence"} /\ place.step \in {"project", "threw"}
    <3>1. CASE AppendLine(q, "model.finished", request[q].value) /\ l.type = "model.evidence"
      <4>1. "model.finished" \in Lines /\ request[q].value \in LineValue
        BY <1>0 DEF Lines, Place
      <4> QED BY <3>1, <4>1, GoesToLoad
    <3>2. ASSUME NEW step \in {"resample", "threw", "project"}, Goto(q, step)
          PROVE  \E place : Moves(q, place) /\ place.step = step
      <4>1. step \in Steps
        BY DEF Steps
      <4> QED BY <3>2, <4>1, GoesTo
    <3> QED BY <2>3, <3>1, <3>2
  <2> QED BY <2>2, <2>4 DEF StepOf, Writes
<1>6. CASE Resample(q)
  <2>1. PICK event \in {"replay.failed", "replay.unknown", "model.evidence"}, value \in LineValue :
          AppendLine(q, event, value)
    BY <1>6 DEF Resample, Answers, LineValue, Terminal
  <2>2. event \in Lines
    BY DEF Lines
  <2>3. PICK place : Moves(q, place) /\ place.step = "load" /\ place.event = event
    BY <2>1, <2>2, GoesToLoad
  <2>4. Samples(q, place)
    BY <1>6, <2>3 DEF Samples, Resample
  <2> QED BY <2>3, <2>4 DEF StepOf
<1>7. CASE Persist(q)
  <2>1. CASE Goto(q, "threw")
    BY <1>1, <1>7, <2>1 DEF Persist
  <2>2. CASE ~Goto(q, "threw")
    <3> DEFINE place == [Idle EXCEPT !.step = "returned", !.result = request[q].result]
    <3>1. request' = [request EXCEPT ![q] = place]
      BY <1>7, <2>2 DEF Persist
    <3>2. place \in Place /\ place.step = "returned" /\ place.result = request[q].result
      BY <1>0 DEF Idle, Place, Steps, LineValue
    <3> HIDE DEF place
    <3> QED BY <1>7, <3>1, <3>2 DEF Moves, StepOf, Records, Persist
  <2> QED BY <2>1, <2>2
<1>8. CASE Crash(q)
  <2>1. CASE UNCHANGED journal
    BY <1>1, <1>8, <2>1 DEF Crash
  <2>2. CASE ~UNCHANGED journal
    <3> DEFINE l == Line(request[q].read + 1, "torn", "")
    <3>1. l \in JournalLine /\ l.type = "torn"
      <4>1. request[q].read + 1 \in Nat
        BY <1>0 DEF Place
      <4>2. "torn" \in Lines /\ "" \in LineValue
        BY DEF Lines, LineValue
      <4> QED BY <4>1, <4>2 DEF Line, JournalLine
    <3>2. Appends(q, l) /\ UNCHANGED resamples
      BY <1>8, <2>2, <3>1 DEF Crash, Appends
    <3> HIDE DEF l
    <3>3. "crashed" \in Steps /\ Goto(q, "crashed")
      BY <1>8 DEF Crash, Steps
    <3> QED BY <3>1, <3>2, <3>3, GoesTo DEF StepOf, Writes
  <2> QED BY <2>1, <2>2
<1>9. CASE Retry(q)
  <2> DEFINE place == [request[q] EXCEPT !.step = "project", !.event = None]
  <2>1. request' = [request EXCEPT ![q] = place]
    BY <1>9 DEF Retry
  <2>2. place \in Place /\ place.step = "project"
    BY <1>0 DEF Place, Steps
  <2> HIDE DEF place
  <2> QED BY <1>9, <2>1, <2>2 DEF Moves, StepOf, Rests, Retry
<1> QED BY <1>2, <1>3, <1>4, <1>5, <1>6, <1>7, <1>8, <1>9 DEF Replay

LEMMA TypeStep ==
  ASSUME TypeOK, \A q \in Requests : Follow(q), Grows, [Next]_vars
  PROVE  TypeOK'
<1>1. log' \in Seq(LogEvent) /\ Len(log') \in Nat /\ Len(log) \in Nat /\ Len(log) <= Len(log')
  BY DEF Grows, TypeOK
<1>2. holder' \in {"capture", None}
  BY DEF TypeOK, Next, BeginCapture, Capture, CaptureForHandoff, EndCapture, LoseLease,
         CoordinateEffect, RuntimeLine, Replay, Ask, Project, Load, Write, Resample, Persist,
         Crash, Retry, Keep, vars
<1>3. seen' \in 0..Len(log')
  <2>1. seen' \in {seen, Len(log), 0}
    BY DEF Next, BeginCapture, Capture, CaptureForHandoff, EndCapture, LoseLease,
         CoordinateEffect, RuntimeLine, Replay, Ask, Project, Load, Write, Resample, Persist,
         Crash, Retry, Keep, vars
  <2> QED BY <1>1, <2>1 DEF TypeOK
<1>4. checkpoint' = None \/ checkpoint'.through \in 0..Len(log')
  <2>1. checkpoint' = checkpoint \/ \E workspace : checkpoint' = Manifest(workspace)
    BY DEF Next, BeginCapture, Capture, CaptureForHandoff, LoseLease,
         CoordinateEffect, RuntimeLine, Replay, Ask, Project, Load, Write, Resample, Persist,
         Crash, Retry, Keep, vars
  <2>2. \A workspace : Manifest(workspace).through = Len(log)
    BY DEF Manifest
  <2> QED BY <1>1, <2>1, <2>2 DEF TypeOK
<1>5. faults' \in 0..MaxFaults
  <2>1. faults' = faults \/ (faults < MaxFaults /\ faults' = faults + 1)
    BY DEF Next, BeginCapture, Capture, CaptureForHandoff, EndCapture, LoseLease, Fault,
         CoordinateEffect, RuntimeLine, Replay, Ask, Project, Load, Write, Resample, Persist,
         Crash, Retry, vars
  <2> QED BY <2>1, ReplayAssumption DEF TypeOK
<1>6. /\ journal' \in [ReplayIds -> Seq(JournalLine)]
      /\ request' \in [Requests -> Place]
      /\ resamples' \in [Requests -> Nat]
  <2>1. CASE UNCHANGED <<journal, request, resamples>>
    BY <2>1 DEF TypeOK
  <2>2. ASSUME NEW q \in Requests, Replay(q)
        PROVE  /\ journal' \in [ReplayIds -> Seq(JournalLine)]
               /\ request' \in [Requests -> Place]
               /\ resamples' \in [Requests -> Nat]
    <3>1. PICK place : Moves(q, place) /\ StepOf(q, place)
      BY <2>2, ReplayStep
    <3>2. request' \in [Requests -> Place]
      BY <3>1 DEF Moves, TypeOK
    <3>3. resamples' \in [Requests -> Nat]
      BY <3>1 DEF StepOf, Rests, Proposes, Loads, Returns, Records, Writes, Samples, TypeOK
    <3>4. UNCHANGED journal \/ \E l : Appends(q, l)
      BY <3>1 DEF StepOf, Rests, Proposes, Loads, Returns, Records, Writes, Samples
    <3>5. ASSUME NEW l, Appends(q, l)
          PROVE  journal' \in [ReplayIds -> Seq(JournalLine)]
      <4>1. ReplayId(q) \in ReplayIds /\ journal[ReplayId(q)] \in Seq(JournalLine)
        BY DEF ReplayIds, TypeOK
      <4>2. Append(journal[ReplayId(q)], l) \in Seq(JournalLine)
        BY <3>5, <4>1, Appended DEF Appends
      <4> QED BY <3>5, <4>1, <4>2 DEF Appends, TypeOK
    <3> QED BY <3>2, <3>3, <3>4, <3>5 DEF TypeOK
  <2> QED BY <2>1, <2>2 DEF Next, BeginCapture, Capture, CaptureForHandoff, EndCapture, LoseLease,
         CoordinateEffect, RuntimeLine, vars
<1> QED BY <1>1, <1>2, <1>3, <1>4, <1>5, <1>6 DEF TypeOK

-----------------------------------------------------------------------------
(* Journals and records.                                                   *)

\* What the log has of a replay by now is where its journal has come to an end.
LEMMA RecordedStep ==
  ASSUME TypeOK, Grows, NEW q \in Requests, Follow(q)
  PROVE  /\ Recorded(q)' \subseteq {Phase(journal[ReplayId(q)])} \cap Terminal
         /\ Recorded(q)' # {} => q \in Branching
<1> SUFFICES ASSUME NEW v \in Recorded(q)'
             PROVE  v = Phase(journal[ReplayId(q)]) /\ v \in Terminal /\ q \in Branching
  OBVIOUS
<1>1. PICK i \in DOMAIN log' : log'[i].type = "replay" /\ log'[i].id = q /\ log'[i].value = v
  BY DEF Recorded, Of, Events
<1>2. /\ i \in 1..Len(log') /\ DOMAIN log = 1..Len(log) /\ Len(log) \in Nat
  BY DEF Grows, TypeOK
<1>3. CASE i <= Len(log)
  <2>1. i \in DOMAIN log /\ log[i] = log'[i]
    BY <1>2, <1>3 DEF Grows
  <2>2. v \in Recorded(q)
    BY <1>1, <2>1 DEF Recorded, Of, Events
  <2> QED BY <2>2 DEF Follow
<1>4. CASE i > Len(log)
  <2>1. Permitted(log'[i])
    BY <1>2, <1>4 DEF Grows
  <2>2. request[q].step = "persist" /\ v = request[q].result
    BY <1>1, <2>1 DEF Permitted
  <2>3. ReplayId(q) = q
    BY <2>2, OwnJournal DEF Follow
  <2> QED BY <2>2, <2>3 DEF Follow
<1> QED BY <1>2, <1>3, <1>4

LEMMA FollowStep ==
  ASSUME TypeOK, TypeOK', \A q \in Requests : Follow(q), Grows, [Next]_vars
  PROVE  \A q \in Requests : Follow(q)'
<1> SUFFICES ASSUME NEW r \in Requests
             PROVE  Follow(r)'
  OBVIOUS
<1> DEFINE j == journal[ReplayId(r)]
<1>1. /\ Recorded(r)' \subseteq {Phase(j)} \cap Terminal
      /\ Recorded(r)' # {} => r \in Branching
  BY RecordedStep
<1>2. CASE UNCHANGED <<journal, request>>
  BY <1>1, <1>2 DEF Follow
<1>3. ASSUME NEW q \in Requests, Replay(q)
      PROVE  Follow(r)'
  <2>1. PICK place : Moves(q, place) /\ StepOf(q, place)
    BY <1>3, ReplayStep
  <2>2. request'[q] = place /\ \A p \in Requests \ {q} : request'[p] = request[p]
    BY <2>1 DEF Moves, TypeOK
  <2>3. /\ ReplayId(r) \in ReplayIds /\ j \in Seq(JournalLine)
        /\ r \in Branching => ReplayId(r) = r
    BY OwnJournal DEF ReplayIds, TypeOK
  <2>4. CASE r # q
    <3>1. journal'[ReplayId(r)] = j \/ (r \notin Branching /\ \E l \in JournalLine :
                                          journal'[ReplayId(r)] = Append(j, l))
      <4>1. CASE UNCHANGED journal
        BY <4>1
      <4>2. ASSUME NEW l, Appends(q, l)
            PROVE  journal'[ReplayId(r)] = j \/ (r \notin Branching /\ \E k \in JournalLine :
                                          journal'[ReplayId(r)] = Append(j, k))
        <5>1. CASE ReplayId(r) = ReplayId(q)
          <6>1. r \notin Branching
            BY <2>4, <5>1, OwnJournal
          <6> QED BY <2>3, <4>2, <5>1, <6>1 DEF Appends, TypeOK
        <5>2. CASE ReplayId(r) # ReplayId(q)
          BY <2>3, <4>2, <5>2 DEF Appends, TypeOK
        <5> QED BY <5>1, <5>2
      <4> QED BY <2>1, <4>1, <4>2
            DEF StepOf, Rests, Proposes, Loads, Returns, Records, Writes, Samples
    <3>2. request'[r] = request[r]
      BY <2>2, <2>4
    <3>3. CASE journal'[ReplayId(r)] = j
      BY <1>1, <2>3, <3>2, <3>3 DEF Follow
    <3>4. ASSUME r \notin Branching, NEW l \in JournalLine, journal'[ReplayId(r)] = Append(j, l)
          PROVE  Follow(r)'
      <4>1. \A phase : Ends(j, phase) => Ends(Append(j, l), phase)
        BY <2>3, EndsOfAppend
      <4>2. Recorded(r)' = {}
        BY <1>1, <3>4
      <4> HIDE DEF j
      <4> QED BY <3>2, <3>4, <4>1, <4>2 DEF Follow, j
    <3> QED BY <3>1, <3>3, <3>4
  <2>5. CASE r = q /\ UNCHANGED journal
    <3>1. CASE Rests(q, place) \/ Proposes(q, place) \/ Loads(q, place) \/ Samples(q, place)
      <4>1. /\ place.step \notin {"persist", "returned"}
            /\ place.step \in {"load", "write"} => place.event \in Lines
            /\ place.step = "write" => Follows(Mode(q), j, place.event, place.value)
        BY <2>5, <3>1 DEF Rests, Proposes, Loads, Samples, Follow, Proposed, Lines
      <4> QED BY <1>1, <2>2, <2>3, <2>5, <4>1 DEF Follow
    <3>2. CASE Returns(q, place)
      <4>1. place.step \in {"persist", "returned", "threw"}
            /\ place.result = Phase(j)
            /\ Phase(j) \in Terminal
            /\ (place.step = "persist" => q \in Branching)
        BY <2>5, <3>2 DEF Returns
      <4>2. Ends(j, Phase(j))
        <5>1. Len(j) \in Nat /\ DOMAIN j = 1..Len(j) /\ SubSeq(j, 1, Len(j)) = j
          BY <2>3, Whole
        <5>2. DOMAIN j # {}
          BY <4>1, PhaseOfEmpty DEF Terminal
        <5>3. Len(j) \in DOMAIN j
          BY <5>1, <5>2
        <5>4. Readable(j)
          BY <2>5, <3>2 DEF Returns
        <5> QED BY <5>1, <5>3, <5>4 DEF Ends
      <4>3. request'[r] = place /\ journal' = journal /\ (r \in Branching => journal[r] = j)
        BY <2>2, <2>3, <2>5
      <4>4. Recorded(r)' \subseteq {Phase(journal'[ReplayId(r)])} \cap Terminal
            /\ (Recorded(r)' # {} => r \in Branching)
        BY <1>1, <4>3
      <4>5. Ends(journal'[ReplayId(r)], place.result)
        BY <4>1, <4>2, <4>3
      <4>6. place.step = "persist" =>
              r \in Branching /\ place.result \in Terminal /\ Phase(journal'[r]) = place.result
        BY <2>5, <4>1, <4>3
      <4>7. place.step \notin {"load", "write"}
        BY <4>1
      <4> QED BY <4>3, <4>4, <4>5, <4>6, <4>7 DEF Follow
    <3>3. CASE Records(q, place)
      BY <1>1, <2>2, <2>3, <2>5, <3>3 DEF Follow, Records
    <3>4. ~Writes(q, place)
      <4>1. ASSUME NEW l, Appends(q, l)
            PROVE  FALSE
        <5>1. journal'[ReplayId(q)] = Append(j, l)
          BY <2>3, <2>5, <4>1 DEF Appends, TypeOK
        <5>2. Len(Append(j, l)) = Len(j) + 1 /\ Len(j) \in Nat
          BY <2>3, <4>1, Appended DEF Appends
        <5> QED BY <2>5, <5>1, <5>2
      <4> QED BY <4>1 DEF Writes
    <3> QED BY <2>1, <3>1, <3>2, <3>3, <3>4 DEF StepOf
  <2>6. CASE r = q /\ ~UNCHANGED journal
    <3>1. Writes(q, place)
      BY <2>1, <2>6 DEF StepOf, Rests, Proposes, Loads, Returns, Records, Samples
    <3>2. PICK l : /\ Appends(q, l)
                   /\ place.step \in {"crashed", "resample", "load", "project", "threw"}
                   /\ place.step = "load" => place.event = "model.finished"
      BY <3>1 DEF Writes
    <3>3. Recorded(r)' = {}
      <4>1. r \in Branching => Phase(j) \notin Terminal
        BY <2>3, <2>6, <3>2 DEF Appends, Follow, Follows
      <4> QED BY <1>1, <4>1
    <3> QED BY <2>2, <2>6, <3>2, <3>3 DEF Follow, Lines
  <2> QED BY <2>4, <2>5, <2>6
<1> QED BY <1>2, <1>3 DEF Next, BeginCapture, Capture, CaptureForHandoff, EndCapture, LoseLease,
         CoordinateEffect, RuntimeLine, vars

-----------------------------------------------------------------------------
(* The one question.                                                       *)

\* Where a counterfactual's journal is when it takes a line.
LEMMA CounterfactualLines ==
  ASSUME NEW j, NEW event, NEW value, Follows("counterfactual", j, event, value),
         Phase(j) # "source-validated"
  PROVE  /\ Phase(j) \notin Terminal
         /\ event # "source.referenced"
         /\ event = "replay.planned" => Phase(j) = "none"
         /\ event = "model.started" => Phase(j) = "planned"
         /\ event = "replay.completed" => Phase(j) = "model-finished"
<1>1. /\ Phase(j) \notin Terminal /\ event \in Allowed("counterfactual", j)
      /\ event # "source.referenced"
  BY DEF Follows, PayloadStands
<1>2. CASE Phase(j) = "none"
  BY <1>1, <1>2 DEF Allowed
<1>3. CASE Phase(j) = "planned"
  BY <1>1, <1>3 DEF Allowed
<1>4. CASE Phase(j) = "model-running"
  BY <1>1, <1>4 DEF Allowed
<1>5. CASE Phase(j) = "model-finished"
  BY <1>1, <1>5 DEF Allowed
<1>6. CASE Phase(j) \notin {"none", "planned", "model-running", "model-finished"}
  BY <1>1, <1>6 DEF Allowed
<1> QED BY <1>1, <1>2, <1>3, <1>4, <1>5, <1>6

LEMMA AskedStep ==
  ASSUME TypeOK, \A q \in Requests : Follow(q), \A q \in Counterfactuals : Asked(q), [Next]_vars
  PROVE  \A q \in Counterfactuals : Asked(q)'
<1> SUFFICES ASSUME NEW r \in Counterfactuals
             PROVE  Asked(r)'
  OBVIOUS
<1> DEFINE j == journal[r]
<1>1. r \in Requests /\ r \in Branching /\ Mode(r) = "counterfactual" /\ ReplayId(r) = r
  BY ReplayAssumption, OwnJournal DEF Requests, Branching, Mode, ReplayId
<1>2. j \in Seq(JournalLine) /\ r \in ReplayIds
  BY <1>1 DEF TypeOK, ReplayIds
<1>3. CASE UNCHANGED <<journal, request, resamples>>
  BY <1>3 DEF Asked
<1>4. ASSUME NEW q \in Requests, Replay(q)
      PROVE  Asked(r)'
  <2>1. PICK place : Moves(q, place) /\ StepOf(q, place)
    BY <1>4, ReplayStep
  <2>2. request'[q] = place /\ \A p \in Requests \ {q} : request'[p] = request[p]
    BY <2>1 DEF Moves, TypeOK
  <2>3. CASE r # q
    <3>1. ReplayId(q) # r
      BY <1>1, <2>3, OwnJournal
    <3>2. \A l : Appends(q, l) => journal'[r] = j
      BY <1>2, <3>1 DEF Appends, TypeOK
    <3>3. journal'[r] = j
      BY <2>1, <3>2 DEF StepOf, Rests, Proposes, Loads, Returns, Records, Writes, Samples
    <3>4. resamples'[r] = resamples[r]
      BY <1>1, <2>1, <2>3
        DEF StepOf, Rests, Proposes, Loads, Returns, Records, Writes, Samples, TypeOK
    <3> QED BY <1>1, <2>2, <2>3, <3>3, <3>4 DEF Asked
  <2>4. CASE r = q /\ (Rests(q, place) \/ Proposes(q, place) \/ Loads(q, place)
                         \/ Returns(q, place) \/ Records(q, place))
    <3>1. /\ UNCHANGED <<journal, resamples>> /\ place.step # "resample"
          /\ place.step \in {"load", "write"} /\ place.event \in {"model.evidence", "model.finished"} =>
               request[q].step \in {"load", "write"} /\ place.event = request[q].event
      BY <2>4 DEF Rests, Proposes, Loads, Returns, Records, Proposed
    <3> QED BY <2>2, <2>4, <3>1 DEF Asked
  <2>5. CASE r = q /\ Samples(q, place)
    <3>1. resamples[r] = 0 /\ Has(j, "model.started")
      BY <2>5 DEF Samples, Asked
    <3>2. resamples'[r] = 1
      BY <1>1, <2>5, <3>1 DEF Samples, TypeOK
    <3> QED BY <2>2, <2>5, <3>1, <3>2 DEF Samples, Asked
  <2>6. CASE r = q /\ Writes(q, place)
    <3>1. PICK l : /\ Appends(q, l)
                   /\ \/ l.type = "torn" /\ place.step = "crashed"
                      \/ l.type = "model.started" /\ place.step = "resample"
                      \/ l.type = "model.evidence" /\ place.step = "load" /\ place.event = "model.finished"
                      \/ l.type \notin {"model.started", "model.evidence"} /\ place.step \in {"project", "threw"}
      BY <2>6 DEF Writes
    <3>2. resamples' = resamples /\ request'[r] = place /\ journal'[r] = Append(j, l)
      BY <1>1, <1>2, <2>2, <2>6, <3>1 DEF Writes, Appends, TypeOK
    <3>3. l \in JournalLine /\ request[r].step = "write"
      BY <2>6, <3>1 DEF Appends
    <3>4. \A type : Has(Append(j, l), type) <=> Has(j, type) \/ l.type = type
      BY <1>2, <3>3, HasOfAppend
    <3>5. Phase(Append(j, l)) =
            IF l.type \in DOMAIN PhaseAfter THEN PhaseAfter[l.type] ELSE Phase(j)
      BY <1>2, <3>3, PhaseOfAppend
    <3>6. /\ Phase(j) \notin Terminal
          /\ l.type # "source.referenced"
          /\ l.type = "replay.planned" => Phase(j) = "none"
          /\ l.type = "model.started" => Phase(j) = "planned"
          /\ l.type = "replay.completed" => Phase(j) = "model-finished"
      <4>1. Follows("counterfactual", j, request[r].event, request[r].value)
        BY <1>1, <3>3 DEF Follow
      <4>2. Phase(j) # "source-validated"
        BY DEF Asked
      <4>3. l.type = request[r].event \/ l.type = "torn"
        BY <2>6, <3>1 DEF Appends, Line
      <4> QED BY <4>1, <4>2, <4>3, CounterfactualLines
    <3>7. l.type \in {"model.evidence", "model.finished"} => resamples[r] = 1
      BY <2>6, <3>1, <3>3 DEF Appends, Line, Asked
    <3>8. l.type \in Lines
      BY <3>3 DEF JournalLine
    <3> HIDE DEF j
    <3>9. CASE l.type \in {"torn", "model.evidence", "receipt-input.ready"}
      <4>1. Phase(Append(j, l)) = Phase(j) /\ (Has(Append(j, l), "model.started") <=> Has(j, "model.started"))
        BY <3>4, <3>5, <3>9 DEF PhaseAfter
      <4>2. place.step # "resample"
        BY <3>1, <3>9
      <4>3. place.step \in {"load", "write"} => resamples[r] = 1
        BY <3>1, <3>7
      <4> QED BY <3>2, <4>1, <4>2, <4>3 DEF Asked, j
    <3>10. CASE l.type = "replay.planned"
      <4>1. Phase(Append(j, l)) = "planned"
        BY <3>5, <3>8, <3>10 DEF PhaseAfter
      <4>2. ~Has(Append(j, l), "model.started") /\ resamples[r] = 0
        BY <3>4, <3>6, <3>10 DEF Asked, Terminal, j
      <4> QED BY <3>1, <3>2, <3>10, <4>1, <4>2 DEF Asked, Terminal
    <3>11. CASE l.type = "model.started"
      <4>1. Phase(Append(j, l)) = "model-running"
        BY <3>5, <3>8, <3>11 DEF PhaseAfter
      <4>2. Has(Append(j, l), "model.started") /\ resamples[r] = 0
        BY <3>4, <3>6, <3>11 DEF Asked, Terminal, j
      <4> QED BY <3>1, <3>2, <3>11, <4>1, <4>2 DEF Asked, Terminal
    <3>12. CASE l.type = "model.finished"
      <4>1. Phase(Append(j, l)) = "model-finished"
        BY <3>5, <3>8, <3>12 DEF PhaseAfter
      <4>2. Has(Append(j, l), "model.started") /\ resamples[r] = 1
        BY <3>4, <3>7, <3>12 DEF Asked, j
      <4> QED BY <3>1, <3>2, <3>12, <4>1, <4>2 DEF Asked, Terminal
    <3>13. CASE l.type \in {"replay.completed", "replay.failed", "replay.unknown"}
      <4>1. Phase(Append(j, l)) \in Terminal
            /\ (Phase(Append(j, l)) = "completed" <=> l.type = "replay.completed")
        BY <3>5, <3>8, <3>13 DEF PhaseAfter, Terminal
      <4>2. l.type = "replay.completed" => resamples[r] = 1
        BY <3>6 DEF Asked, j
      <4>3. /\ resamples[r] \in {0, 1}
            /\ resamples[r] = 1 => Has(Append(j, l), "model.started")
        BY <3>4 DEF Asked, j
      <4>4. place.step \in {"project", "threw"}
        BY <3>1, <3>13
      <4> QED BY <3>2, <4>1, <4>2, <4>3, <4>4 DEF Asked, Terminal
    <3> QED BY <3>6, <3>8, <3>9, <3>10, <3>11, <3>12, <3>13 DEF Lines
  <2> QED BY <2>1, <2>3, <2>4, <2>5, <2>6 DEF StepOf
<1> QED BY <1>3, <1>4 DEF Next, BeginCapture, Capture, CaptureForHandoff, EndCapture, LoseLease,
         CoordinateEffect, RuntimeLine, vars

-----------------------------------------------------------------------------
(* The theorems.                                                           *)

LEMMA Initially ==
  ASSUME Init
  PROVE  IInv
<1>1. log \in Seq(LogEvent) /\ Len(log) = 1 /\ DOMAIN log = {1} /\ log[1].type = "attempt"
  BY DEF Init, Event, LogEvent
<1>2. TypeOK
  <2>1. request \in [Requests -> Place]
    <3>1. Idle \in Place
      BY DEF Idle, Place, Steps, LineValue
    <3> QED BY <3>1 DEF Init
  <2>2. journal \in [ReplayIds -> Seq(JournalLine)]
    BY DEF Init
  <2>3. holder = None /\ seen \in 0..Len(log) /\ checkpoint = None
    BY <1>1 DEF Init
  <2>4. resamples \in [Requests -> Nat] /\ faults \in 0..MaxFaults
    BY ReplayAssumption DEF Init
  <2> QED BY <1>1, <2>1, <2>2, <2>3, <2>4 DEF TypeOK
<1>3. FrontierInv
  BY ReplayAssumption DEF Init, FrontierInv, FrontierIsWhole
<1>4. ASSUME NEW q \in Requests
      PROVE  Follow(q)
  <2>1. Recorded(q) = {}
    BY <1>1 DEF Recorded, Of, Events
  <2>2. request[q].step = "ask"
    BY DEF Init, Idle
  <2> QED BY <2>1, <2>2 DEF Follow
<1>5. ASSUME NEW q \in Counterfactuals
      PROVE  Asked(q)
  <2>1. q \in Requests /\ ReplayId(q) = q /\ q \in ReplayIds
    BY ReplayAssumption DEF Requests, Branching, ReplayId, ReplayIds
  <2>2. request[q].step = "ask" /\ resamples[q] = 0 /\ journal[q] = <<>>
    BY <2>1 DEF Init, Idle
  <2>3. Phase(journal[q]) = "none" /\ ~Has(journal[q], "model.started")
    BY <2>2, PhaseOfEmpty DEF Has
  <2> QED BY <2>2, <2>3 DEF Asked
<1> QED BY <1>2, <1>3, <1>4, <1>5 DEF IInv

LEMMA Inductive ==
  ASSUME IInv, [Next]_vars
  PROVE  IInv'
<1>1. TypeOK /\ FrontierInv /\ (\A q \in Requests : Follow(q)) /\ \A q \in Counterfactuals : Asked(q)
  BY DEF IInv
<1>2. Grows
  BY <1>1, LogStep
<1>3. TypeOK'
  BY <1>1, <1>2, TypeStep
<1>4. FrontierInv'
  BY <1>1, <1>2, FrontierStep
<1>5. \A q \in Requests : Follow(q)'
  BY <1>1, <1>2, <1>3, FollowStep
<1>6. \A q \in Counterfactuals : Asked(q)'
  BY <1>1, AskedStep
<1> QED BY <1>3, <1>4, <1>5, <1>6 DEF IInv

LEMMA Invariance == Spec => []IInv
<1>1. Init => IInv
  BY Initially
<1>2. IInv /\ [Next]_vars => IInv'
  BY Inductive
<1> QED BY <1>1, <1>2, PTL DEF Spec

\* A checkpoint's Effects are those of the prefix that it names, although they
\* were read before the head was (mission-composite-checkpoint.ts under the
\* lease of engine.ts).
THEOREM FrontierOfPrefix == Spec => []FrontierIsWhole
<1>1. IInv => FrontierIsWhole
  BY DEF IInv, FrontierInv
<1> QED BY <1>1, Invariance, PTL

\* A model is asked at most once for a replay, however often its controller ends
\* and the request is made again, only after the start is durable, and
\* 'completed' stands for an answer (checkpoint-replay.ts counterfactualResample).
THEOREM OneResample == Spec => []AtMostOneResample
<1>1. IInv => AtMostOneResample
  BY DEF IInv, Asked, AtMostOneResample
<1> QED BY <1>1, Invariance, PTL

\* What a request returned is the end of a chain that its journal begins with,
\* and what the Kernel has of a replay is the one end of its journal
\* (checkpoint-replay.ts #appendNow, engine.ts #persistCheckpointReplay).
THEOREM ReplayIsTrue == Spec => []ReplaysAreTrue
<1>1. IInv => ReplaysAreTrue
  BY DEF IInv, Follow, Ends, ReplaysAreTrue
<1> QED BY <1>1, Invariance, PTL
=============================================================================
