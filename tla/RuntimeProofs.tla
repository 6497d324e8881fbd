--------------------------- MODULE RuntimeProofs ---------------------------
(***************************************************************************)
(* Proofs about a Runtime at work.                                         *)
(*                                                                         *)
(* ToolGate, for every set of tool invocations: what the hook may read in  *)
(* a release file is what the Mission log says, a decision that is in the  *)
(* log is not lost between two drains, and neither it nor an outcome is    *)
(* replaced.                                                               *)
(*                                                                         *)
(* RuntimeProcess, for every set of calls and whatever the process writes: *)
(* a run that succeeded is complete, a result is the end of the process,   *)
(* and a handed-off stage succeeds only when its Agent acknowledged the    *)
(* capsule first.                                                          *)
(***************************************************************************)
EXTENDS ToolGate, RuntimeProcess, TLAPS


AsDecided(g, decision) == [gate |-> g, decision |-> decision]
Outcomes == {"confirmed", "failed"}

\* What the log and the files say of one gate.  A tool that was let go was
\* approved; its result comes after that, is its last, and the outcome in the
\* log after the result.  An Effect is skipped by a decision only.
Agrees(g) ==
  /\ release[g] # "none" => AsDecided(g, release[g]) \in moved
  /\ tool[g] \in {"running", "ended"} => release[g] = "approve"
  /\ results[g] # "none" => release[g] # "none" /\ tool[g] = "ended"
  /\ g \in observed => results[g] # "none"
  /\ effect[g] \in Outcomes => g \in observed /\ effect[g] = OutcomeOf(results[g])
  /\ effect[g] = "skipped" => AsDecided(g, "reject") \in moved

\* A decision whose second event is there has moved the Effect on.
GateInv ==
  /\ \A g \in Gates : Agrees(g)
  /\ \A i \in moved : effect[i.gate] \notin {"none", "intended"}

\* What a drain has in hand: it moves the Effect of what it has decided, it
\* releases what has moved its Effect, and it alone has the locks that it made,
\* one at a time.  What it has found is there.
Serves(d) ==
  /\ at[d] = "effect" =>
       todo[d] # <<>> /\ Head(todo[d]) \in decided /\ Head(todo[d]).gate \in pending[d]
  /\ at[d] \in {"release", "store"} => todo[d] # <<>> /\ Head(todo[d]) \in moved
  /\ \A g \in Gates : lock[g] = d =>
       crashed \/ (at[d] = "store" /\ Head(todo[d]).gate = g)
  /\ at[d] = "store" => lock[Head(todo[d]).gate] = d
  /\ \A g \in found[d] : results[g] # "none"

\* While the Runtime runs there is the watcher's drain only, and no request that
\* it holds for pending has an outcome yet.
WatchInv ==
  runtime =>
    /\ at["final"] \in {"idle", "failed"}
    /\ at["watch"] \in {"record", "read", "decide", "effect", "release", "store"} =>
         \A g \in pending["watch"] : effect[g] \notin Outcomes

IInv ==
  /\ TypeOK
  /\ GateInv
  /\ \A d \in Drains : Serves(d)
  /\ DecidedIsReleased
  /\ WatchInv

-----------------------------------------------------------------------------
(* Types.                                                                  *)

\* Taking the first intent off a drain's list leaves a list of intents.
LEMMA TakeOff ==
  ASSUME TypeOK, NEW d \in Drains, todo[d] # <<>>
  PROVE  /\ Head(todo[d]) \in Intent
         /\ Head(todo[d]).gate \in Gates
         /\ Head(todo[d]).decision \in Decisions
         /\ Tail(todo[d]) \in Seq(Intent)
<1>1. todo[d] \in Seq(Intent)
  BY DEF TypeOK
<1>2. Head(todo[d]) \in Intent /\ Tail(todo[d]) \in Seq(Intent)
  BY <1>1
<1> QED BY <1>2 DEF Intent

\* The variables keep their types: a drain that releases has an intent in hand.
LEMMA TypeStep ==
  ASSUME TypeOK, \A d \in Drains : Serves(d), [Next]_vars
  PROVE  TypeOK'
<1> DEFINE Statuses == {"none", "intended", "dispatch_started", "skipped",
                        "confirmed", "failed"}
           Places == {"idle", "list", "record", "read", "decide", "effect", "release",
                      "store", "observe", "outcome", "over", "failed"}
<1> USE DEF TypeOK, files, log, engine, drain, Goto
<1>1. ASSUME NEW g \in Gates, WritePending(g) \/ Proceed(g) \/ TimeOut(g) \/ MarkResult(g)
      PROVE  TypeOK'
  <2>1. CASE WritePending(g)
    BY <2>1 DEF WritePending
  <2>2. CASE Proceed(g)
    BY <2>2 DEF Proceed
  <2>3. CASE TimeOut(g)
    BY <2>3 DEF TimeOut
  <2>4. CASE MarkResult(g)
    <3>1. results' \in [Gates -> {"none", "succeeded", "failed"}]
      BY <2>4 DEF MarkResult
    <3>2. tool' \in [Gates -> {"idle", "waiting", "running", "ended", "denied"}]
      BY <2>4 DEF MarkResult
    <3> QED BY <2>4, <3>1, <3>2 DEF MarkResult
  <2> QED BY <1>1, <2>1, <2>2, <2>3, <2>4
<1>2. ASSUME NEW i \in Intent, WriteDecisionIntent(i)
      PROVE  TypeOK'
  BY <1>2 DEF WriteDecisionIntent
<1>3. ASSUME NEW d \in Drains, Drain(d)
      PROVE  TypeOK'
  <2>1. CASE StartDrain(d)
    BY <2>1 DEF StartDrain, Drains
  <2>2. CASE ListingFails(d)
    BY <2>2 DEF ListingFails
  <2>3. CASE ListPending(d)
    <3>1. Unreleased \subseteq Gates
      BY DEF Unreleased
    <3>2. pending' \in [Drains -> SUBSET Gates] /\ at' \in [Drains -> Places]
      BY <2>3, <3>1 DEF ListPending
    <3> QED BY <2>3, <3>2 DEF ListPending
  <2>10. CASE RecordRequest(d)
    <3>1. effect' \in [Gates -> Statuses]
      BY <2>10 DEF RecordRequest
    <3>2. at' \in [Drains -> Places]
      <4>1. Goto(d, "failed") \/ Goto(d, "read") \/ UNCHANGED at
        BY <2>10 DEF RecordRequest
      <4> QED BY <4>1
    <3> QED BY <2>10, <3>1, <3>2 DEF RecordRequest
  <2>4. CASE ReadDecisionIntents(d)
    BY <2>4 DEF ReadDecisionIntents
  <2>5. CASE PassOver(d)
    <3>1. Tail(todo[d]) \in Seq(Intent)
      BY <2>5, TakeOff DEF PassOver
    <3> QED BY <2>5, <3>1 DEF PassOver
  <2>6. CASE Decide(d)
    <3>1. Head(todo[d]) \in Intent
      BY <2>6, TakeOff DEF Decide, IsPending
    <3>2. at' \in [Drains -> Places]
      <4>1. Goto(d, "failed") \/ Goto(d, "effect")
        BY <2>6 DEF Decide
      <4> QED BY <4>1
    <3>3. decided' \subseteq Intent /\ moved' \subseteq decided'
      BY <2>6, <3>1 DEF Decide
    <3> QED BY <2>6, <3>2, <3>3 DEF Decide
  <2>11. CASE MoveEffect(d)
    <3>1. Head(todo[d]).gate \in Gates /\ Head(todo[d]) \in decided
      BY <2>11, TakeOff DEF MoveEffect, Serves
    <3>2. effect' \in [Gates -> Statuses]
      BY <2>11, <3>1 DEF MoveEffect, StatusOf
    <3>3. at' \in [Drains -> Places]
      <4>1. Goto(d, "failed") \/ Goto(d, "release")
        BY <2>11 DEF MoveEffect
      <4> QED BY <4>1
    <3>4. moved' \subseteq decided'
      BY <2>11, <3>1 DEF MoveEffect
    <3> QED BY <2>11, <3>2, <3>3, <3>4 DEF MoveEffect
  <2>7. CASE AcquireLock(d)
    <3>1. lock' \in [Gates -> Drains \cup {"none"}]
      BY <2>7 DEF AcquireLock
    <3>2. at' \in [Drains -> Places]
      <4>1. Goto(d, "store") \/ Goto(d, "failed")
        BY <2>7 DEF AcquireLock
      <4> QED BY <4>1
    <3> QED BY <2>7, <3>1, <3>2 DEF AcquireLock
  <2>8. CASE WriteRelease(d)
    <3>1. todo[d] # <<>>
      BY <2>8 DEF WriteRelease, Serves
    <3>2. lock' \in [Gates -> Drains \cup {"none"}]
      BY <2>8 DEF WriteRelease, Unlock
    <3>3. at' \in [Drains -> Places]
      <4>1. Goto(d, "decide") \/ Goto(d, "failed")
        BY <2>8 DEF WriteRelease, Store
      <4> QED BY <4>1
    <3>4. release' \in [Gates -> Decisions \cup {"none"}]
      BY <2>8, <3>1, TakeOff DEF WriteRelease, Store
    <3>5. todo' \in [Drains -> Seq(Intent)]
      BY <2>8, <3>1, TakeOff DEF WriteRelease, Store
    <3> QED BY <2>8, <3>2, <3>3, <3>4, <3>5 DEF WriteRelease, Store
  <2>9. CASE ListResults(d)
    <3>1. found' \in [Drains -> SUBSET Gates]
      BY <2>9 DEF ListResults, Listed
    <3> QED BY <2>9, <3>1 DEF ListResults
  <2>12. CASE ObserveResult(d)
    <3>1. observed' \subseteq Gates
      BY <2>12 DEF ObserveResult
    <3>2. at' \in [Drains -> Places]
      <4>1. Goto(d, "failed") \/ Goto(d, "outcome")
        BY <2>12 DEF ObserveResult
      <4> QED BY <4>1
    <3> QED BY <2>12, <3>1, <3>2 DEF ObserveResult
  <2>13. CASE ConcludeEffect(d)
    <3>1. effect' \in [Gates -> Statuses]
      BY <2>13 DEF ConcludeEffect, OutcomeOf
    <3>2. at' \in [Drains -> Places]
      <4>1. Goto(d, "failed") \/ Goto(d, "observe")
        BY <2>13 DEF ConcludeEffect
      <4> QED BY <4>1
    <3>3. found' \in [Drains -> SUBSET Gates]
      <4>1. UNCHANGED found \/ \E g \in Gates : found' = [found EXCEPT ![d] = @ \ {g}]
        BY <2>13 DEF ConcludeEffect
      <4>2. found \in [Drains -> SUBSET Gates]
        OBVIOUS
      <4>3. ASSUME NEW g \in Gates, found' = [found EXCEPT ![d] = @ \ {g}]
            PROVE  found' \in [Drains -> SUBSET Gates]
        <5>1. found[d] \ {g} \in SUBSET Gates
          BY <4>2
        <5> HIDE DEF TypeOK
        <5> QED BY <4>2, <4>3, <5>1
      <4> QED BY <4>1, <4>2, <4>3
    <3> QED BY <2>13, <3>1, <3>2, <3>3 DEF ConcludeEffect
  <2>14. CASE EndDrain(d)
    <3>1. at' \in [Drains -> Places]
      <4>1. Goto(d, "idle") \/ Goto(d, "over")
        BY <2>14 DEF EndDrain
      <4> QED BY <4>1
    <3>2. {runtime, stopped, fenced, crashed}' \subseteq BOOLEAN
      BY <2>14 DEF EndDrain
    <3>3. seen' \in [Drains -> SUBSET Intent] /\ pending' \in [Drains -> SUBSET Gates]
      BY <2>14 DEF EndDrain
    <3> QED BY <2>14, <3>1, <3>2, <3>3 DEF EndDrain
  <2> QED BY <1>3, <2>1, <2>2, <2>3, <2>4, <2>5, <2>6, <2>7, <2>8, <2>9, <2>10, <2>11, <2>12,
             <2>13, <2>14 DEF Drain
<1>4. CASE EndRuntime
  BY <1>4 DEF EndRuntime
<1>5. CASE LoseLease
  BY <1>5 DEF LoseLease
<1>6. CASE Crash
  BY <1>6 DEF Crash
<1>7. CASE UNCHANGED vars
  BY <1>7 DEF vars
<1> QED BY <1>1, <1>2, <1>3, <1>4, <1>5, <1>6, <1>7 DEF Next

-----------------------------------------------------------------------------
(* The log, the files and the tools agree.                                 *)

LEMMA GateStep ==
  ASSUME TypeOK, TypeOK', GateInv, \A d \in Drains : Serves(d), [Next]_vars
  PROVE  GateInv'
<1> USE DEF files, log, engine, drain
<1>1. ASSUME NEW g \in Gates, WritePending(g) \/ Proceed(g) \/ TimeOut(g) \/ MarkResult(g)
      PROVE  GateInv'
  <2>1. UNCHANGED <<release, decided, moved, effect, observed>>
    BY <1>1 DEF WritePending, Proceed, TimeOut, MarkResult
  <2>2. ASSUME NEW h \in Gates
        PROVE  Agrees(h)'
    <3>1. tool'[h] \in {"running", "ended"} => release[h] = "approve"
      BY <1>1 DEF WritePending, Proceed, TimeOut, MarkResult, GateInv, Agrees, TypeOK
    <3>2. results'[h] # "none" => release[h] # "none" /\ tool'[h] = "ended"
      <4>1. CASE MarkResult(g)
        BY <4>1 DEF MarkResult, GateInv, Agrees, TypeOK
      <4>2. CASE ~MarkResult(g)
        BY <1>1, <4>2 DEF WritePending, Proceed, TimeOut, GateInv, Agrees, TypeOK
      <4> QED BY <4>1, <4>2
    <3>3. results[h] # "none" => results'[h] = results[h]
      \* A tool runs once.
      <4>1. results[h] # "none" => tool[h] = "ended"
        BY DEF GateInv, Agrees
      <4> QED BY <1>1, <4>1 DEF WritePending, Proceed, TimeOut, MarkResult, TypeOK
    <3> QED BY <2>1, <3>1, <3>2, <3>3 DEF GateInv, Agrees, AsDecided
  <2> QED BY <2>1, <2>2 DEF GateInv
<1>2. ASSUME NEW i \in Intent, WriteDecisionIntent(i)
      PROVE  GateInv'
  BY <1>2 DEF WriteDecisionIntent, GateInv, Agrees, AsDecided
<1>3. ASSUME NEW d \in Drains, Drain(d)
      PROVE  GateInv'
  <2>1. CASE StartDrain(d) \/ ListingFails(d) \/ ReadDecisionIntents(d) \/ PassOver(d)
             \/ AcquireLock(d) \/ ListPending(d) \/ ListResults(d) \/ EndDrain(d) \/ Decide(d)
    <3>1. UNCHANGED <<files, moved, effect, observed, tool>>
      BY <2>1 DEF StartDrain, ListingFails, ReadDecisionIntents, PassOver, AcquireLock,
                  ListPending, ListResults, EndDrain, Decide
    <3> QED BY <3>1 DEF GateInv, Agrees, AsDecided
  <2>2. CASE RecordRequest(d)
    <3>1. UNCHANGED <<files, moved, observed, tool>>
      BY <2>2 DEF RecordRequest
    <3>2. \A h \in Gates : \/ effect'[h] = effect[h]
                           \/ effect[h] = "none" /\ effect'[h] = "intended"
      BY <2>2 DEF RecordRequest, TypeOK
    <3>3. ASSUME NEW h \in Gates
          PROVE  Agrees(h)'
      BY <3>1, <3>2 DEF GateInv, Agrees, AsDecided, Outcomes
    <3>4. ASSUME NEW i \in moved'
          PROVE  effect'[i.gate] \notin {"none", "intended"}
      BY <3>1, <3>2 DEF GateInv, TypeOK, Intent
    <3> QED BY <3>3, <3>4 DEF GateInv
  <2>3. CASE MoveEffect(d)
    <3>1. UNCHANGED <<files, observed, tool>>
      BY <2>3 DEF MoveEffect
    <3>2. CASE UNCHANGED <<moved, effect>>
      BY <3>1, <3>2 DEF GateInv, Agrees, AsDecided
    <3>3. CASE ~UNCHANGED <<moved, effect>>
      <4> DEFINE i == Head(todo[d])
      <4>1. i \in Intent /\ i.gate \in Gates /\ i.decision \in Decisions
        BY <2>3, TakeOff DEF MoveEffect, Serves
      <4>2. i = AsDecided(i.gate, i.decision)
        BY <4>1 DEF Intent, AsDecided
      <4>3. moved' = moved \cup {i}
        BY <2>3, <3>3 DEF MoveEffect
      <4>4. i \notin moved /\ effect' = [effect EXCEPT ![i.gate] = StatusOf(i.decision)]
        BY <2>3, <3>3 DEF MoveEffect
      <4> HIDE DEF i
      <4>5. ASSUME NEW h \in Gates
            PROVE  Agrees(h)'
        <5>1. CASE h = i.gate
          BY <3>1, <4>1, <4>2, <4>3, <4>4, <5>1
            DEF GateInv, Agrees, Outcomes, StatusOf, Decisions, TypeOK, AsDecided
        <5>2. CASE h # i.gate
          BY <3>1, <4>1, <4>3, <4>4, <5>2 DEF GateInv, Agrees, TypeOK, AsDecided
        <5> QED BY <5>1, <5>2
      <4>6. ASSUME NEW j \in moved'
            PROVE  effect'[j.gate] \notin {"none", "intended"}
        BY <4>1, <4>3, <4>4 DEF GateInv, TypeOK, StatusOf, Intent
      <4> QED BY <4>5, <4>6 DEF GateInv
    <3> QED BY <3>2, <3>3
  <2>4. CASE WriteRelease(d)
    <3> DEFINE i == Head(todo[d])
    <3>1. UNCHANGED <<results, moved, effect, observed, tool>>
      BY <2>4 DEF WriteRelease
    <3>2. todo[d] # <<>> /\ i \in moved
      BY <2>4 DEF WriteRelease, Serves
    <3>3. i \in Intent /\ i.gate \in Gates /\ i.decision \in Decisions
      BY <3>2, TakeOff
    <3>4. i = AsDecided(i.gate, i.decision)
      BY <3>3 DEF Intent, AsDecided
    <3>5. release' = release \/ (/\ release[i.gate] \in {"none", i.decision}
                                /\ release' = [release EXCEPT ![i.gate] = i.decision])
      BY <2>4 DEF WriteRelease, Store
    <3> HIDE DEF i
    <3>6. ASSUME NEW h \in Gates
          PROVE  Agrees(h)'
      <4>1. release'[h] = release[h] \/ (/\ release[h] = "none"
                                         /\ release'[h] \in Decisions
                                         /\ AsDecided(h, release'[h]) \in moved)
        BY <3>2, <3>3, <3>4, <3>5 DEF TypeOK
      <4>2. "none" \notin Decisions
        BY DEF Decisions
      <4> QED BY <3>1, <4>1, <4>2 DEF GateInv, Agrees, AsDecided
    <3> QED BY <3>1, <3>6 DEF GateInv
  <2>5. CASE ObserveResult(d)
    <3>1. UNCHANGED <<files, moved, effect, tool>>
      BY <2>5 DEF ObserveResult
    <3>2. ASSUME NEW h \in observed'
          PROVE  h \in observed \/ results[h] # "none"
      BY <2>5 DEF ObserveResult, Serves
    <3>3. observed \subseteq observed'
      BY <2>5 DEF ObserveResult
    <3> QED BY <3>1, <3>2, <3>3 DEF GateInv, Agrees, AsDecided
  <2>6. CASE ConcludeEffect(d)
    <3>1. UNCHANGED <<files, moved, observed, tool>>
      BY <2>6 DEF ConcludeEffect
    <3>2. ASSUME NEW h \in Gates
          PROVE  \/ effect'[h] = effect[h]
                 \/ /\ h \in observed
                    /\ effect'[h] = OutcomeOf(results[h])
                    /\ effect'[h] \in Outcomes
      <4>1. CASE UNCHANGED effect
        BY <4>1
      <4>2. ASSUME NEW g \in observed, effect' = [effect EXCEPT ![g] = OutcomeOf(results[g])]
            PROVE  effect'[h] = effect[h] \/ (h = g /\ effect'[h] = OutcomeOf(results[h]))
        BY <4>2 DEF TypeOK
      <4>3. OutcomeOf(results[h]) \in Outcomes
        BY DEF OutcomeOf, Outcomes
      <4> QED BY <2>6, <4>1, <4>2, <4>3 DEF ConcludeEffect
    <3>3. ASSUME NEW h \in Gates
          PROVE  Agrees(h)'
      <4>1. OutcomeOf(results[h])' = OutcomeOf(results[h])
        BY <3>1 DEF OutcomeOf
      <4>2. OutcomeOf(results[h]) # "skipped"
        BY DEF OutcomeOf
      <4>3. CASE effect'[h] = effect[h]
        BY <3>1, <4>1, <4>3 DEF GateInv, Agrees, AsDecided
      <4>4. CASE h \in observed /\ effect'[h] = OutcomeOf(results[h])
        BY <3>1, <4>1, <4>2, <4>4 DEF GateInv, Agrees, AsDecided
      <4> QED BY <3>2, <4>3, <4>4
    <3>4. ASSUME NEW i \in moved'
          PROVE  effect'[i.gate] \notin {"none", "intended"}
      <4>1. i \in moved /\ i.gate \in Gates
        BY <3>1, <3>4 DEF TypeOK, Intent
      <4>2. effect[i.gate] \notin {"none", "intended"}
        BY <4>1 DEF GateInv
      <4> QED BY <3>2, <4>1, <4>2 DEF Outcomes
    <3> QED BY <3>3, <3>4 DEF GateInv
  <2> QED BY <1>3, <2>1, <2>2, <2>3, <2>4, <2>5, <2>6 DEF Drain
<1>4. CASE EndRuntime \/ LoseLease \/ Crash \/ UNCHANGED vars
  <2>1. UNCHANGED <<files, log, tool>>
    BY <1>4 DEF EndRuntime, LoseLease, Crash, vars
  <2> QED BY <2>1 DEF GateInv, Agrees, AsDecided
<1> QED BY <1>1, <1>2, <1>3, <1>4 DEF Next

-----------------------------------------------------------------------------
(* What the drains have in hand.                                           *)

\* A drain leaves the other one's place, list and locks alone.
LEMMA DrainsApart ==
  ASSUME TypeOK, NEW d \in Drains, Serves(d), Drain(d), NEW e \in Drains, e # d
  PROVE  /\ at'[e] = at[e] /\ todo'[e] = todo[e] /\ pending'[e] = pending[e]
         /\ found'[e] = found[e] /\ results' = results
         /\ \A g \in Gates : lock'[g] = e <=> lock[g] = e
         /\ decided \subseteq decided' /\ moved \subseteq moved'
         /\ crashed' = crashed /\ runtime' = runtime
<1> USE DEF Goto, TypeOK, engine, drain, log, files
<1>1. CASE StartDrain(d) \/ ListingFails(d) \/ ListPending(d) \/ RecordRequest(d)
  BY <1>1 DEF StartDrain, ListingFails, ListPending, RecordRequest
<1>2. CASE ReadDecisionIntents(d) \/ PassOver(d)
  BY <1>2 DEF ReadDecisionIntents, PassOver
<1>3. CASE Decide(d) \/ MoveEffect(d)
  BY <1>3 DEF Decide, MoveEffect
<1>4. CASE AcquireLock(d)
  <2>1. \A g \in Gates : lock'[g] = lock[g] \/ (lock[g] = "none" /\ lock'[g] = d)
    BY <1>4 DEF AcquireLock
  <2>2. e # "none"
    BY DEF Drains
  <2>3. at'[e] = at[e]
    BY <1>4 DEF AcquireLock
  <2> QED BY <1>4, <2>1, <2>2, <2>3 DEF AcquireLock
<1>5. CASE WriteRelease(d)
  <2> DEFINE g == Head(todo[d]).gate
  <2>1. lock[g] = d /\ lock' = [lock EXCEPT ![g] = "none"]
    BY <1>5 DEF WriteRelease, Unlock, Serves
  <2>2. e # "none"
    BY DEF Drains
  <2>3. \A h \in Gates : lock'[h] = e <=> lock[h] = e
    BY <2>1, <2>2
  <2>4. at'[e] = at[e] /\ todo'[e] = todo[e]
    BY <1>5 DEF WriteRelease, Store
  <2> QED BY <1>5, <2>3, <2>4 DEF WriteRelease, Store
<1>6. CASE ListResults(d) \/ ObserveResult(d) \/ ConcludeEffect(d)
  BY <1>6 DEF ListResults, ObserveResult, ConcludeEffect
<1>7. CASE EndDrain(d)
  <2>1. at'[e] = at[e]
    BY <1>7 DEF EndDrain
  <2> QED BY <1>7, <2>1 DEF EndDrain
<1> QED BY <1>1, <1>2, <1>3, <1>4, <1>5, <1>6, <1>7 DEF Drain

\* A drain releases what it has decided, under a lock of its own.
LEMMA DrainStep ==
  ASSUME TypeOK, \A d \in Drains : Serves(d), [Next]_vars
  PROVE  \A d \in Drains : Serves(d)'
<1> USE DEF files, log, engine, drain, Goto
<1> SUFFICES ASSUME NEW e \in Drains
             PROVE  Serves(e)'
  OBVIOUS
<1>1. CASE \E g \in Gates : WritePending(g) \/ Proceed(g) \/ TimeOut(g) \/ MarkResult(g)
  <2>1. UNCHANGED <<at, todo, pending, found, lock, decided, moved, crashed>>
    BY <1>1 DEF WritePending, Proceed, TimeOut, MarkResult
  <2>2. \A g \in Gates : results[g] # "none" => results'[g] # "none"
    BY <1>1 DEF WritePending, Proceed, TimeOut, MarkResult, TypeOK
  <2> QED BY <2>1, <2>2 DEF Serves, TypeOK
<1>2. CASE \/ \E i \in Intent : WriteDecisionIntent(i)
           \/ EndRuntime \/ LoseLease \/ UNCHANGED vars
  <2>1. UNCHANGED <<at, todo, pending, found, lock, decided, moved, results, crashed>>
    BY <1>2 DEF WriteDecisionIntent, EndRuntime, LoseLease, vars
  <2> QED BY <2>1 DEF Serves
<1>3. CASE Crash
  BY <1>3 DEF Crash, Serves
<1>4. ASSUME NEW d \in Drains, Drain(d)
      PROVE  Serves(e)'
  <2>1. CASE e # d
    <3>1. /\ at'[e] = at[e] /\ todo'[e] = todo[e] /\ pending'[e] = pending[e]
          /\ found'[e] = found[e]
          /\ \A g \in Gates : lock'[g] = e <=> lock[g] = e
          /\ decided \subseteq decided' /\ moved \subseteq moved'
          /\ crashed' = crashed /\ results' = results
      BY <1>4, <2>1, DrainsApart
    <3>2. Serves(e)
      OBVIOUS
    <3>3. at[e] = "store" => Head(todo[e]).gate \in Gates
      BY <3>2, TakeOff DEF Serves
    <3> QED BY <3>1, <3>2, <3>3 DEF Serves
  <2>2. CASE e = d
    <3>1. CASE StartDrain(d) \/ ListingFails(d) \/ ListPending(d) \/ RecordRequest(d)
               \/ ReadDecisionIntents(d) \/ PassOver(d) \/ ObserveResult(d) \/ EndDrain(d)
      <4>1. at[d] \notin {"release", "store"} /\ at'[d] \notin {"effect", "release", "store"}
        BY <3>1 DEF StartDrain, ListingFails, ListPending, RecordRequest, ReadDecisionIntents,
                    PassOver, ObserveResult, EndDrain, TypeOK
      <4>2. UNCHANGED <<lock, crashed, found, results>>
        BY <3>1 DEF StartDrain, ListingFails, ListPending, RecordRequest, ReadDecisionIntents,
                    PassOver, ObserveResult, EndDrain
      <4> QED BY <2>2, <4>1, <4>2 DEF Serves
    <3>6. CASE ListResults(d) \/ ConcludeEffect(d)
      <4>1. at[d] \notin {"release", "store"} /\ at'[d] \notin {"effect", "release", "store"}
        BY <3>6 DEF ListResults, ConcludeEffect, TypeOK
      <4>2. UNCHANGED <<lock, crashed, results>>
        BY <3>6 DEF ListResults, ConcludeEffect
      <4>3. \A g \in found'[d] : results[g] # "none"
        BY <3>6 DEF ListResults, Listed, ConcludeEffect, Serves, TypeOK
      <4> QED BY <2>2, <4>1, <4>2, <4>3 DEF Serves
    <3>2. CASE Decide(d)
      BY <2>2, <3>2 DEF Decide, IsPending, Serves, TypeOK
    <3>5. CASE MoveEffect(d)
      BY <2>2, <3>5 DEF MoveEffect, Serves, TypeOK
    <3>3. CASE AcquireLock(d)
      <4> DEFINE g == Head(todo[d]).gate
      <4>1. /\ at[d] = "release" /\ UNCHANGED <<todo, moved, crashed, found, results>>
            /\ todo[d] # <<>> /\ Head(todo[d]) \in moved
        BY <3>3 DEF AcquireLock, Serves
      <4>2. g \in Gates
        BY <4>1, TakeOff
      <4>3. CASE at'[d] = "store" /\ lock' = [lock EXCEPT ![g] = d]
        BY <2>2, <4>1, <4>2, <4>3 DEF Serves, TypeOK
      <4>4. CASE at'[d] = "failed" /\ UNCHANGED lock
        BY <2>2, <4>1, <4>4 DEF Serves
      <4> QED BY <3>3, <4>3, <4>4 DEF AcquireLock, TypeOK
    <3>4. CASE WriteRelease(d)
      <4> DEFINE g == Head(todo[d]).gate
      <4>1. at'[d] \in {"decide", "failed"} /\ UNCHANGED <<crashed, found, results>>
        BY <3>4 DEF WriteRelease, Store, TypeOK
      <4>2. ASSUME NEW h \in Gates, lock'[h] = d
            PROVE  crashed
        <5>1. lock' = [lock EXCEPT ![g] = "none"] /\ d # "none"
          BY <3>4 DEF WriteRelease, Unlock, Drains
        <5>2. h # g /\ lock[h] = d
          BY <4>2, <5>1 DEF TypeOK
        <5> QED BY <5>2 DEF Serves
      <4> QED BY <2>2, <4>1, <4>2 DEF Serves
    <3> QED BY <1>4, <3>1, <3>2, <3>3, <3>4, <3>5, <3>6 DEF Drain
  <2> QED BY <2>1, <2>2
<1> QED BY <1>1, <1>2, <1>3, <1>4 DEF Next

\* Of two drains that want one release file one may give up: then the other has
\* made the lock, and writes the release that the log tells of.  A drain that is
\* between a decision's two events gives up without the lease only.
LEMMA ReleasedStep ==
  ASSUME TypeOK, TypeOK', \A d \in Drains : Serves(d), DecidedIsReleased, [Next]_vars
  PROVE  DecidedIsReleased'
<1> USE DEF files, log, engine, drain, Goto
<1> DEFINE Releases(d, g) == at[d] \in {"release", "store"} /\ Head(todo[d]).gate = g
           Moves(d, i) == at[d] = "effect" /\ Head(todo[d]) = i
<1>0. SUFFICES ASSUME ~crashed'
               PROVE  /\ \A i \in moved' : \/ release'[i.gate] # "none"
                                            \/ \E d \in Drains : Releases(d, i.gate)'
                      /\ \A i \in decided' \ moved' :
                           (\E d \in Drains : Moves(d, i)') \/ fenced'
  BY DEF DecidedIsReleased
<1>1. CASE \E g \in Gates : WritePending(g) \/ Proceed(g) \/ TimeOut(g) \/ MarkResult(g)
  <2>1. UNCHANGED <<at, todo, release, decided, moved, crashed, fenced>>
    BY <1>1 DEF WritePending, Proceed, TimeOut, MarkResult
  <2> QED BY <1>0, <2>1 DEF DecidedIsReleased
<1>2. CASE \/ \E j \in Intent : WriteDecisionIntent(j)
           \/ EndRuntime \/ LoseLease \/ UNCHANGED vars
  <2>1. UNCHANGED <<at, todo, release, decided, moved, crashed>> /\ (fenced => fenced')
    BY <1>2 DEF WriteDecisionIntent, EndRuntime, LoseLease, vars
  <2> QED BY <1>0, <2>1 DEF DecidedIsReleased
<1>3. CASE Crash
  BY <1>0, <1>3 DEF Crash
<1>4. ASSUME NEW d \in Drains, Drain(d)
      PROVE  /\ \A i \in moved' : \/ release'[i.gate] # "none"
                                  \/ \E e \in Drains : Releases(e, i.gate)'
             /\ \A i \in decided' \ moved' :
                  (\E e \in Drains : Moves(e, i)') \/ fenced'
  <2>1. UNCHANGED <<crashed, fenced>>
    BY <1>4 DEF Drain, StartDrain, ListingFails, ListPending, RecordRequest, ReadDecisionIntents,
       PassOver, Decide, MoveEffect, AcquireLock, WriteRelease, ListResults, ObserveResult,
       ConcludeEffect, EndDrain
  <2>2. ASSUME NEW i \in moved'
        PROVE  release'[i.gate] # "none" \/ \E e \in Drains : Releases(e, i.gate)'
    <3>1. i.gate \in Gates
      BY <2>2 DEF TypeOK, Intent
    <3>2. CASE i \in moved /\ release[i.gate] # "none"
      <4>1. CASE WriteRelease(d)
        <5>1. Head(todo[d]).gate \in Gates /\ Head(todo[d]).decision # "none"
          BY <4>1, TakeOff DEF WriteRelease, Serves, Decisions
        <5> QED BY <3>1, <3>2, <4>1, <5>1 DEF WriteRelease, Store, TypeOK
      <4>2. CASE ~WriteRelease(d)
        BY <1>4, <3>2, <4>2 DEF Drain, StartDrain, ListingFails, ListPending, RecordRequest,
           ReadDecisionIntents, PassOver, Decide, MoveEffect, AcquireLock, ListResults,
           ObserveResult, ConcludeEffect, EndDrain
      <4> QED BY <4>1, <4>2
    <3>3. ASSUME NEW e \in Drains, e # d, Releases(e, i.gate)
          PROVE  Releases(e, i.gate)'
      BY <1>4, <3>3, DrainsApart
    <3>4. ASSUME Releases(d, i.gate)
          PROVE  release'[i.gate] # "none" \/ \E e \in Drains : Releases(e, i.gate)'
      <4>1. CASE AcquireLock(d)
        <5>1. CASE lock[i.gate] = "none"
          <6>1. at'[d] = "store" /\ todo' = todo
            BY <3>4, <4>1, <5>1 DEF AcquireLock, TypeOK
          <6> QED BY <3>4, <6>1
        <5>2. CASE lock[i.gate] # "none"
          <6>1. PICK e \in Drains : lock[i.gate] = e
            BY <3>1, <5>2 DEF TypeOK
          <6>2. at[e] = "store" /\ Head(todo[e]).gate = i.gate
            BY <2>1, <1>0, <3>1, <6>1 DEF Serves
          <6>3. e # d
            BY <4>1, <6>2 DEF AcquireLock
          <6> QED BY <6>2, <6>3, <3>3
        <5> QED BY <5>1, <5>2
      <4>2. CASE WriteRelease(d)
        <5>1. Head(todo[d]).decision # "none"
          BY <4>2, TakeOff DEF WriteRelease, Serves, Decisions
        <5>2. release'[i.gate] # "none"
          BY <3>1, <3>4, <4>2, <5>1 DEF WriteRelease, Store, TypeOK
        <5> QED BY <5>2
      <4> QED BY <1>4, <3>4, <4>1, <4>2 DEF Drain, StartDrain, ListingFails, ListPending,
              RecordRequest, ReadDecisionIntents, PassOver, Decide, IsPending, MoveEffect,
              ListResults, ObserveResult, ConcludeEffect, EndDrain
    <3>5. CASE i \notin moved
      <4>1. MoveEffect(d)
        BY <1>4, <2>2, <3>5 DEF Drain, StartDrain, ListingFails, ListPending, RecordRequest,
           ReadDecisionIntents, PassOver, Decide, AcquireLock, WriteRelease, ListResults,
           ObserveResult, ConcludeEffect, EndDrain
      <4>2. at'[d] = "release" /\ todo' = todo /\ Head(todo[d]) = i
        BY <2>2, <3>5, <4>1 DEF MoveEffect, TypeOK
      <4> QED BY <4>2
    <3> QED BY <1>0, <2>1, <3>2, <3>3, <3>4, <3>5 DEF DecidedIsReleased
  <2>3. ASSUME NEW i \in decided' \ moved', ~fenced
        PROVE  \E e \in Drains : Moves(e, i)'
    <3>1. ASSUME NEW e \in Drains, e # d, Moves(e, i)
          PROVE  Moves(e, i)'
      BY <1>4, <3>1, DrainsApart
    <3>2. ~Moves(d, i)
      \* With the lease the second event is appended.
      BY <1>4, <2>3 DEF Drain, StartDrain, ListingFails, ListPending, RecordRequest,
         ReadDecisionIntents, PassOver, Decide, IsPending, MoveEffect, AcquireLock,
         WriteRelease, ListResults, ObserveResult, ConcludeEffect, EndDrain
    <3>3. CASE i \in decided
      <4>1. i \notin moved
        BY <1>4, <2>3, DrainsApart DEF Drain, StartDrain, ListingFails, ListPending, RecordRequest,
           ReadDecisionIntents, PassOver, Decide, MoveEffect, AcquireLock, WriteRelease,
           ListResults, ObserveResult, ConcludeEffect, EndDrain
      <4> QED BY <1>0, <2>1, <2>3, <3>1, <3>2, <3>3, <4>1 DEF DecidedIsReleased
    <3>4. CASE i \notin decided
      <4>1. Decide(d)
        BY <1>4, <2>3, <3>4 DEF Drain, StartDrain, ListingFails, ListPending, RecordRequest,
           ReadDecisionIntents, PassOver, MoveEffect, AcquireLock, WriteRelease, ListResults,
           ObserveResult, ConcludeEffect, EndDrain
      <4>2. at'[d] = "effect" /\ todo' = todo /\ Head(todo[d]) = i
        BY <2>3, <3>4, <4>1 DEF Decide, TypeOK
      <4> QED BY <4>2
    <3> QED BY <3>3, <3>4
  <2> QED BY <2>1, <2>2, <2>3
<1> QED BY <1>0, <1>1, <1>2, <1>3, <1>4 DEF Next

-----------------------------------------------------------------------------
(* The watcher while the Runtime runs.                                     *)

LEMMA WatchStep ==
  ASSUME TypeOK, GateInv, WatchInv, \A d \in Drains : Serves(d), [Next]_vars
  PROVE  WatchInv'
<1> USE DEF files, log, engine, drain, Goto
<1> SUFFICES ASSUME runtime'
             PROVE  /\ at'["final"] \in {"idle", "failed"}
                    /\ at'["watch"] \in {"record", "read", "decide", "effect", "release", "store"} =>
                         \A g \in pending'["watch"] : effect'[g] \notin Outcomes
  BY DEF WatchInv
<1>0. runtime
  BY DEF Next, WritePending, Proceed, TimeOut, MarkResult, WriteDecisionIntent, Drain,
         StartDrain, ListingFails, ListPending, RecordRequest, ReadDecisionIntents, PassOver,
         Decide, MoveEffect, AcquireLock, WriteRelease, ListResults, ObserveResult,
         ConcludeEffect, EndDrain, EndRuntime, LoseLease, Crash, vars
<1>1. CASE \/ \E g \in Gates : WritePending(g) \/ Proceed(g) \/ TimeOut(g) \/ MarkResult(g)
           \/ \E i \in Intent : WriteDecisionIntent(i)
           \/ LoseLease \/ UNCHANGED vars
  <2>1. UNCHANGED <<at, pending, effect>>
    BY <1>1 DEF WritePending, Proceed, TimeOut, MarkResult, WriteDecisionIntent, LoseLease, vars
  <2> QED BY <1>0, <2>1 DEF WatchInv
<1>2. CASE Crash
  BY <1>2 DEF Crash, Drains
<1>3. CASE Drain("final")
  \* The last drain waits for the end of the Runtime.
  BY <1>0, <1>3 DEF WatchInv, Drain, StartDrain, ListingFails, ListPending, RecordRequest,
     ReadDecisionIntents, PassOver, Decide, IsPending, MoveEffect, AcquireLock, WriteRelease,
     ListResults, ObserveResult, ConcludeEffect, EndDrain
<1>4. CASE Drain("watch")
  <2>1. at'["final"] = at["final"]
    BY <1>4, DrainsApart DEF Drains
  <2>2. CASE ListPending("watch")
    \* A request without a release has no result, and so no outcome.
    <3>1. pending'["watch"] = Unreleased /\ UNCHANGED effect
      BY <2>2 DEF ListPending, TypeOK, Drains
    <3>2. ASSUME NEW g \in Unreleased
          PROVE  effect[g] \notin Outcomes
      BY DEF Unreleased, GateInv, Agrees, TypeOK
    <3> QED BY <1>0, <2>1, <3>1, <3>2 DEF WatchInv
  <2>3. CASE RecordRequest("watch")
    <3>1. UNCHANGED pending /\ at["watch"] = "record"
      BY <2>3 DEF RecordRequest
    <3>2. ASSUME NEW g \in Gates
          PROVE  effect'[g] = effect[g] \/ effect'[g] = "intended"
      BY <2>3 DEF RecordRequest, TypeOK
    <3>3. pending["watch"] \subseteq Gates
      BY DEF TypeOK, Drains
    <3> QED BY <1>0, <2>1, <3>1, <3>2, <3>3 DEF WatchInv, Outcomes
  <2>4. CASE MoveEffect("watch")
    \* Whatever is decided of a pending request is not an outcome.
    <3>1. at["watch"] = "effect" /\ UNCHANGED pending
      BY <2>4 DEF MoveEffect
    <3>2. ASSUME NEW g \in pending["watch"]
          PROVE  effect'[g] \notin Outcomes
      <4>1. effect[g] \notin Outcomes /\ g \in Gates
        BY <1>0, <3>1 DEF WatchInv, TypeOK, Drains
      <4>2. effect'[g] = effect[g] \/ effect'[g] \in {"skipped", "dispatch_started"}
        BY <2>4, <4>1 DEF MoveEffect, StatusOf, TypeOK
      <4> QED BY <4>1, <4>2 DEF Outcomes
    <3> QED BY <1>0, <2>1, <3>1, <3>2 DEF WatchInv
  <2>5. CASE \/ StartDrain("watch") \/ ListingFails("watch") \/ ListResults("watch")
             \/ ObserveResult("watch") \/ ConcludeEffect("watch") \/ EndDrain("watch")
    <3>1. at'["watch"] \in {"list", "failed", "observe", "outcome", "idle"}
      BY <2>5 DEF StartDrain, ListingFails, ListResults, ObserveResult, ConcludeEffect, EndDrain,
         TypeOK, Drains
    <3> QED BY <1>0, <2>1, <3>1 DEF WatchInv
  <2>6. CASE ReadDecisionIntents("watch") \/ PassOver("watch") \/ AcquireLock("watch")
             \/ WriteRelease("watch") \/ Decide("watch")
    <3>1. UNCHANGED <<pending, effect>> /\ at["watch"] \in {"read", "decide", "release", "store"}
      BY <2>6 DEF ReadDecisionIntents, PassOver, AcquireLock, WriteRelease, Decide, IsPending
    <3> QED BY <1>0, <2>1, <3>1 DEF WatchInv
  <2> QED BY <1>4, <2>2, <2>3, <2>4, <2>5, <2>6 DEF Drain
<1>5. CASE EndRuntime
  BY <1>5 DEF EndRuntime
<1> QED BY <1>1, <1>2, <1>3, <1>4, <1>5 DEF Next, Drains

-----------------------------------------------------------------------------
(* The theorems.                                                           *)

LEMMA Initially ==
  ASSUME Init
  PROVE  IInv
<1>1. TypeOK
  <2>1. {runtime, stopped, fenced, crashed} \subseteq BOOLEAN
    BY DEF Init
  <2>2. intents \in Seq(Intent) /\ todo \in [Drains -> Seq(Intent)]
    BY DEF Init
  <2>3. /\ seen \in [Drains -> SUBSET Intent] /\ pending \in [Drains -> SUBSET Gates]
        /\ lock \in [Gates -> Drains \cup {"none"}]
        /\ release \in [Gates -> Decisions \cup {"none"}]
    BY DEF Init
  <2> QED BY <2>1, <2>2, <2>3 DEF Init, TypeOK
<1>2. GateInv /\ DecidedIsReleased /\ WatchInv
  BY DEF Init, GateInv, Agrees, Outcomes, DecidedIsReleased, WatchInv, Drains
<1>3. \A d \in Drains : Serves(d)
  BY DEF Init, Serves, Drains
<1> QED BY <1>1, <1>2, <1>3 DEF IInv

LEMMA Inductive ==
  ASSUME IInv, [Next]_vars
  PROVE  IInv'
<1>1. TypeOK /\ GateInv /\ (\A d \in Drains : Serves(d)) /\ DecidedIsReleased /\ WatchInv
  BY DEF IInv
<1>2. TypeOK'
  BY <1>1, TypeStep
<1>3. GateInv'
  BY <1>1, <1>2, GateStep
<1>4. \A d \in Drains : Serves(d)'
  BY <1>1, DrainStep
<1>5. DecidedIsReleased'
  BY <1>1, <1>2, ReleasedStep
<1>6. WatchInv'
  BY <1>1, WatchStep
<1> QED BY <1>2, <1>3, <1>4, <1>5, <1>6 DEF IInv

LEMMA Invariance == Spec => []IInv
<1>1. Init => IInv
  BY Initially
<1>2. IInv /\ [Next]_vars => IInv'
  BY Inductive
<1> QED BY <1>1, <1>2, PTL DEF Spec

\* What a release file says is in the Mission log, and has moved the Effect on;
\* and a tool whose Effect the log calls skipped is let go by a second decision
\* only (tool-gateway.ts writeRelease, hook-bridge.ts handleClaudeHook).
THEOREM ReleaseIsDecision == Spec => []ReleasesHold
<1>1. ASSUME IInv
      PROVE  ReleasesHold
  <2>1. ASSUME NEW g \in Gates, release[g] # "none"
        PROVE  /\ [gate |-> g, decision |-> release[g]] \in decided \cap moved
               /\ effect[g] \notin {"none", "intended"}
    <3>1. AsDecided(g, release[g]) \in decided \cap moved
      BY <1>1, <2>1 DEF IInv, GateInv, Agrees, TypeOK
    <3>2. AsDecided(g, release[g]).gate = g
      BY DEF AsDecided
    <3>3. effect[g] \notin {"none", "intended"}
      BY <1>1, <3>1, <3>2 DEF IInv, GateInv
    <3> QED BY <3>1, <3>3 DEF AsDecided
  <2>2. ASSUME NEW g \in Gates, effect[g] = "skipped", tool[g] \in {"running", "ended"}
        PROVE  \E i, j \in Decided(g) : i # j
    <3>1. AsDecided(g, "approve") \in decided /\ AsDecided(g, "reject") \in decided
      BY <1>1, <2>2 DEF IInv, GateInv, Agrees, TypeOK
    <3>2. AsDecided(g, "approve") # AsDecided(g, "reject")
      BY DEF AsDecided
    <3>3. AsDecided(g, "approve") \in Decided(g) /\ AsDecided(g, "reject") \in Decided(g)
      BY <3>1 DEF Decided, AsDecided
    <3> QED BY <3>2, <3>3
  <2> QED BY <2>1, <2>2 DEF ReleasesHold, ReleasedIsDecided, SkippedIsBlocked
<1> QED BY <1>1, Invariance, PTL

\* No decision whose two events are in the log is passed over: two drains that
\* want one release file do not both give up; and one that has its first event
\* only is at its second, or the lease or the controller is gone (engine.ts
\* #drainToolGateway, tool-gateway.ts #withRecordLock).
THEOREM DecisionIsReleased == Spec => []DecidedIsReleased
<1>1. IInv => DecidedIsReleased
  BY DEF IInv
<1> QED BY <1>1, Invariance, PTL

\* A release stands, and while the Runtime runs so does an outcome
\* (tool-gateway.ts writeRelease, engine.ts #drainToolGateway).
THEOREM ReleaseStands == Spec => DecisionsStand
<1> DEFINE Stands == \A g \in Gates :
             /\ release[g] # "none" => release'[g] = release[g]
             /\ effect[g] \in {"confirmed", "failed"} /\ effect'[g] # effect[g] => ~runtime
<1>1. ASSUME IInv, [Next]_vars
      PROVE  [Stands]_vars
  <2> USE DEF files, log, engine, drain, Goto
  <2>1. TypeOK /\ GateInv /\ (\A d \in Drains : Serves(d)) /\ WatchInv
    BY <1>1 DEF IInv
  <2> SUFFICES ASSUME NEW g \in Gates
               PROVE  /\ release[g] # "none" => release'[g] = release[g]
                      /\ effect[g] \in {"confirmed", "failed"} /\ effect'[g] # effect[g] => ~runtime
    OBVIOUS
  <2>2. CASE \A d \in Drains : ~Drain(d)
    BY <1>1, <2>2 DEF Next, WritePending, Proceed, TimeOut, MarkResult, WriteDecisionIntent,
       EndRuntime, LoseLease, Crash, vars
  <2>3. ASSUME NEW d \in Drains, Drain(d)
        PROVE  /\ release[g] # "none" => release'[g] = release[g]
               /\ effect[g] \in {"confirmed", "failed"} /\ effect'[g] # effect[g] => ~runtime
    <3>1. CASE StartDrain(d) \/ ListingFails(d) \/ ReadDecisionIntents(d) \/ PassOver(d)
               \/ AcquireLock(d) \/ ListPending(d) \/ Decide(d) \/ ListResults(d)
               \/ ObserveResult(d) \/ EndDrain(d)
      BY <3>1 DEF StartDrain, ListingFails, ReadDecisionIntents, PassOver, AcquireLock,
         ListPending, Decide, ListResults, ObserveResult, EndDrain
    <3>2. CASE RecordRequest(d)
      BY <2>1, <3>2 DEF RecordRequest, TypeOK
    <3>3. CASE MoveEffect(d)
      <4>1. release' = release /\ Head(todo[d]).gate \in pending[d] /\ at[d] = "effect"
        BY <2>1, <3>3 DEF MoveEffect, Serves
      <4>2. effect'[g] # effect[g] => g = Head(todo[d]).gate
        BY <2>1, <3>3 DEF MoveEffect, TypeOK
      <4>3. runtime => d = "watch"
        BY <2>1, <4>1 DEF WatchInv, Drains
      <4>4. runtime /\ g \in pending[d] => effect[g] \notin Outcomes
        BY <2>1, <4>1, <4>3 DEF WatchInv
      <4> QED BY <4>1, <4>2, <4>4 DEF Outcomes
    <3>4. CASE WriteRelease(d)
      <4>1. effect' = effect
        BY <3>4 DEF WriteRelease
      <4>2. Head(todo[d]).gate \in Gates
        BY <2>1, <3>4, TakeOff DEF WriteRelease, Serves
      <4>3. release[g] # "none" => release'[g] = release[g]
        BY <2>1, <3>4, <4>2 DEF WriteRelease, Store, TypeOK
      <4> QED BY <4>1, <4>3
    <3>5. CASE ConcludeEffect(d)
      <4>1. release' = release
        BY <3>5 DEF ConcludeEffect
      <4>2. effect[g] \in Outcomes => effect[g] = OutcomeOf(results[g])
        BY <2>1 DEF GateInv, Agrees
      <4>3. effect'[g] \in {effect[g], OutcomeOf(results[g])}
        BY <2>1, <3>5 DEF ConcludeEffect, TypeOK
      <4> QED BY <4>1, <4>2, <4>3 DEF Outcomes
    <3> QED BY <2>3, <3>1, <3>2, <3>3, <3>4, <3>5 DEF Drain
  <2> QED BY <2>2, <2>3
<1> QED BY <1>1, Invariance, PTL DEF Spec, DecisionsStand

(***************************************************************************)
(* RuntimeProcess                                                          *)
(***************************************************************************)

(* How far a run is: nothing before the process is there, no end of a      *)
(* stream before everyone who holds it is gone, and a result in the end.   *)
Stages ==
  /\ child.state = "none" =>
       run.start = "none" /\ ~run.reading /\ ~held /\ emitted = <<>> /\ undelivered = <<>>
  /\ child.state # "none" => run.pid \/ run.spawnError
  /\ run.start = "settled" => task.probe \/ ~run.pid
  /\ \A s \in Streams : ended[s] => run.reading /\ Exited /\ ~held /\ read[s] = Len(written[s])
  /\ run.closed => \A s \in Streams : ended[s]
  /\ run.over => /\ run.closed /\ run.start # "none" /\ taken = Len(emitted)
                 /\ compactor.pending = None /\ Len(undelivered) <= 1

(* A result says what runProcess found, and comes after its last step.     *)
Answers ==
  result # None =>
    \/ child.state = "none" /\ (result.aborted \/ result.spawnError)
    \/ /\ run.over /\ undelivered = <<>>
       /\ result = [ProcessResult(run) EXCEPT !.thrown = result.thrown]
       /\ result.thrown \in BOOLEAN

(* What is written of stream s has been read up to a line, but for an      *)
(* unfinished one at its end, which is emitted when the stream ends.       *)
Emits(s) == IF open[s] /\ ~ended[s] THEN Len(written[s]) - 1 ELSE Len(written[s])

(* A line is what its process wrote at its place; an acknowledgement and a *)
(* request of a tool are on stdout; once the workspace is edited it stays  *)
(* so.                                                                     *)
Writes ==
  /\ \A s \in Streams : \A i \in DOMAIN written[s] :
       LET l == written[s][i]
       IN /\ l.stream = s /\ l.at = i
          /\ l.kind \in {"tool", "ack"} => s = "stdout"
          /\ l.edited => edited
  /\ \A s \in Streams : (open[s] => written[s] # <<>>) /\ read[s] <= Len(written[s])

(* What is chained is what was read, in the order of its stream.           *)
Chain ==
  /\ \A i \in DOMAIN emitted :
       LET l == emitted[i]
       IN /\ l.at <= read[l.stream] /\ l.at <= Emits(l.stream)
          /\ written[l.stream][l.at] = l
  /\ InOrder(emitted)
  /\ ~run.observerError =>
       \A s \in Streams : \A k \in DOMAIN written[s] :
         k <= read[s] /\ k <= Emits(s) => written[s][k] \in Range(emitted)

(* The lines that the adapter has taken and is through with: the others it *)
(* has taken are those it still delivers, or the one the compactor keeps.  *)
Done == taken - Len(undelivered) - (IF compactor.pending = None THEN 0 ELSE 1)

InHand ==
  /\ compactor.last = None => compactor.pending = None
  /\ Done >= 0
  /\ compactor.pending # None =>
       task.adapter = "claude" /\ ~task.probe /\ undelivered = <<>> /\ compactor.pending = emitted[taken] /\ Thinking(emitted[taken])
  /\ \A k \in DOMAIN undelivered : undelivered[k] = emitted[taken - Len(undelivered) + k]

(* What is on record is of what the adapter is through with, in its order. *)
Recorded ==
  /\ \A i \in DOMAIN attempt.lines : \E p \in 1..Done : emitted[p] = attempt.lines[i]
  /\ InOrder(attempt.lines)

NoneLost == ~run.observerError /\ (result = None \/ ~result.thrown)

(* Unless an observer failed, what is taken is on record or in hand, or a  *)
(* later line of its burst is; and the compactor has counted it.           *)
Covered(i) ==
  \E j \in i..taken : (Kept(j) \/ j > Done) /\ (i = j \/ \A m \in i..j : Thinking(emitted[m]))
Complete ==
  NoneLost =>
    /\ \A i \in 1..taken : Covered(i)
    /\ compactor.retained + compactor.dropped = Done

(* The engine notes the first of a kind.                                   *)
IsFirst(lines, l, kind) ==
  IF l = None THEN \A i \in DOMAIN lines : lines[i].kind # kind
  ELSE /\ l.kind = kind
       /\ \E i \in DOMAIN lines : lines[i] = l /\ \A j \in 1..(i - 1) : lines[j].kind # kind
Noted ==
  /\ IsFirst(attempt.lines, attempt.ack, "ack") /\ IsFirst(attempt.lines, attempt.tool, "tool")
  /\ task.capsule /\ attempt.unchanged => attempt.ack # None /\ ~attempt.ack.edited

ProcessInv ==
  ProcessTypeOK /\ Stages /\ Answers /\ Writes /\ Chain /\ InHand /\ Recorded /\ Complete /\ Noted

-----------------------------------------------------------------------------
(* Types.                                                                  *)

LEMMA KindsAre ==
  ASSUME ProcessTypeOK, NEW s \in Streams, NEW k \in Kinds(s)
  PROVE  /\ k[1] \in {"text", "tool", "ack", "thinking"} /\ k[2] \in Estimates \union {None}
         /\ k[1] \in {"tool", "ack"} => s = "stdout"
<1>1. k \in {<<"tool", None>>, <<"ack", None>>, <<"text", None>>} \/ k \in {"thinking"} \X Estimates
  BY DEF Kinds
<1>2. k \in {<<"tool", None>>, <<"ack", None>>} => s = "stdout"
  BY DEF Kinds
<1> QED BY <1>1, <1>2

CompactorState == [last : Nat \union {None}, since : Nat, pending : Lines \union {None},
                   retained : Nat, dropped : Nat]

LEMMA CompactIs ==
  ASSUME compactor \in CompactorState, NEW l \in Lines
  PROVE  /\ Compact(compactor, l).out \in Seq(Lines)
         /\ Compact(compactor, l).next \in CompactorState
<1>1. PICK c : c = compactor
  OBVIOUS
<1>2. c \in CompactorState
  BY <1>1
<1>3. /\ c.last \in Nat \union {None} /\ c.since \in Nat /\ c.pending \in Lines \union {None}
      /\ c.retained \in Nat /\ c.dropped \in Nat
  BY <1>2 DEF CompactorState
<1>4. CASE ~Thinking(l)
  <2>1. Compact(compactor, l).next = [c EXCEPT !.pending = None]
    BY <1>1, <1>4 DEF Compact
  <2>2. Compact(compactor, l).out = IF c.pending = None THEN <<l>> ELSE <<c.pending, l>>
    BY <1>1, <1>4 DEF Compact
  <2>3. [c EXCEPT !.pending = None] \in CompactorState
    BY <1>2 DEF CompactorState
  <2>4. <<l>> \in Seq(Lines) /\ (c.pending # None => <<c.pending, l>> \in Seq(Lines))
    BY <1>3
  <2> QED BY <2>1, <2>2, <2>3, <2>4
<1>5. CASE Thinking(l) /\ c.last = None
  BY <1>1, <1>2, <1>5 DEF Compact
<1>6. CASE Thinking(l) /\ c.last # None
  <2>1. PICK due \in BOOLEAN : due = (l.est - c.last >= Interval \/ c.since + 1 >= Interval)
    OBVIOUS
  <2>2. PICK kept \in Nat : kept = IF c.pending = None THEN 0 ELSE 1
    OBVIOUS
  <2>3. PICK since, dropped, keeps : since = c.since + 1 /\ dropped = c.dropped + kept
                                       /\ keeps = IF due THEN None ELSE l
    OBVIOUS
  <2>4. since \in Nat /\ dropped \in Nat /\ keeps \in Lines \union {None}
    BY <1>3, <2>2, <2>3
  <2>5. Compact(compactor, l).out = IF due THEN <<l>> ELSE <<>>
    BY <1>1, <1>6, <2>1 DEF Compact
  <2>6. Compact(compactor, l).next =
             [c EXCEPT !.since = since, !.dropped = dropped, !.pending = keeps]
    BY <1>1, <1>6, <2>1, <2>2, <2>3 DEF Compact
  <2>7. [c EXCEPT !.since = since, !.dropped = dropped, !.pending = keeps] \in CompactorState
    BY <1>2, <2>4 DEF CompactorState
  <2> QED BY <2>5, <2>6, <2>7
<1> QED BY <1>4, <1>5, <1>6

RunState == [pid : BOOLEAN, start : {"none", "recorded", "settled", "failed"},
             reading : BOOLEAN, prompted : BOOLEAN, aborted : BOOLEAN,
             terminating : BOOLEAN, timer : BOOLEAN, closed : BOOLEAN,
             spawnError : BOOLEAN, observerError : BOOLEAN, over : BOOLEAN]

LEMMA TypesStay ==
  ASSUME ProcessTypeOK, Writes, ProcessNext
  PROVE  ProcessTypeOK'
<1> USE DEF RunState, CompactorState
<1>0. result' \in Results \union {None}
  <2>1. ASSUME NEW r \in RunState PROVE ProcessResult(r) \in Results
    BY DEF ProcessResult, Results, ProcessTypeOK
  <2>2. run \in RunState /\ [run EXCEPT !.over = TRUE] \in RunState
    BY DEF ProcessTypeOK
  <2>3. PICK r \in Results : r = ProcessResult(run)
    BY <2>1, <2>2
  <2>4. /\ [r EXCEPT !.aborted = TRUE] \in Results /\ [r EXCEPT !.spawnError = TRUE] \in Results
        /\ [r EXCEPT !.thrown = TRUE] \in Results
    BY DEF Results
  <2>5. \/ result' = result \/ result' = r \/ result' = [r EXCEPT !.aborted = TRUE]
        \/ result' = [r EXCEPT !.spawnError = TRUE] \/ result' = [r EXCEPT !.thrown = TRUE]
    BY <2>3 DEF ProcessNext, Controller, Spawn, Start, Resume, Abort, ObeyTerm, KillTimer, Exit, End, Read,
       FinishStream, Close, Observe, Deliver, ObserverFails, Finalize, Write, Edit, ReleaseOutput
  <2> QED BY <2>3, <2>4, <2>5 DEF ProcessTypeOK
<1>1. CASE Spawn
  BY <1>0, <1>1 DEF Spawn, ProcessTypeOK, streams, observer
<1>2. CASE Start
  <2>1. PICK r \in RunState : run' = r
    <3>1. [run EXCEPT !.start = IF run.pid /\ ~task.probe THEN "recorded" ELSE "settled"] \in RunState
      BY DEF ProcessTypeOK
    <3>2. [run EXCEPT !.start = "failed"] \in RunState
      BY DEF ProcessTypeOK
    <3>3. Terminate([run EXCEPT !.start = "failed"]) \in RunState
      BY <3>2 DEF Terminate
    <3> QED BY <1>2, <3>1, <3>3 DEF Start
  <2> QED BY <1>0, <1>2, <2>1 DEF Start, ProcessTypeOK, process, streams, observer
<1>3. CASE Resume
  <2>1. run' \in RunState
    BY <1>3 DEF Resume, ProcessTypeOK, Running
  <2> QED BY <1>0, <1>3, <2>1 DEF Resume, ProcessTypeOK, process, streams, observer
<1>4. CASE Abort
  <2>1. run' \in RunState
    <3>1. [run EXCEPT !.aborted = TRUE] \in RunState
      BY DEF ProcessTypeOK
    <3>2. Terminate([run EXCEPT !.aborted = TRUE]) \in RunState
      BY <3>1 DEF Terminate
    <3> QED BY <1>4, <3>2 DEF Abort, ProcessTypeOK
  <2> QED BY <1>0, <1>4, <2>1 DEF Abort, ProcessTypeOK, streams, observer
<1>5. CASE ObeyTerm \/ KillTimer \/ Exit
  BY <1>0, <1>5 DEF ObeyTerm, KillTimer, Exit, End, ProcessTypeOK, streams, observer
<1>6. CASE \E s \in Streams : Read(s)
  <2>1. PICK s \in Streams : Read(s)
    BY <1>6
  <2>2. written[s] \in Seq(Lines) /\ read[s] \in Nat /\ read[s] < Len(written[s])
    BY <2>1 DEF Read, ProcessTypeOK
  <2>3. written[s][read[s] + 1] \in Lines
    BY <2>2
  <2>4. emitted' \in Seq(Lines) /\ Len(emitted') >= Len(emitted)
    BY <2>1, <2>3 DEF Read, Emit, ProcessTypeOK
  <2> QED BY <2>1, <2>2, <2>4 DEF Read, ProcessTypeOK, process, observer
<1>7. CASE \E s \in Streams : FinishStream(s)
  <2>1. PICK s \in Streams : FinishStream(s)
    BY <1>7
  <2>2. open[s] => Last(written[s]) \in Lines
    <3>1. ASSUME open[s] PROVE written[s] \in Seq(Lines) /\ Len(written[s]) >= 1
      BY <3>1 DEF ProcessTypeOK, Writes
    <3> QED BY <3>1 DEF Last
  <2>3. (IF open[s] THEN <<Last(written[s])>> ELSE <<>>) \in Seq(Lines)
    BY <2>2
  <2>4. emitted' \in Seq(Lines) /\ Len(emitted') >= Len(emitted)
    BY <2>1, <2>3 DEF FinishStream, Emit, ProcessTypeOK
  <2>5. ended' \in [Streams -> BOOLEAN] /\ UNCHANGED <<process, read, observer, run>>
    BY <2>1 DEF FinishStream, ProcessTypeOK
  <2> QED BY <1>0, <2>4, <2>5 DEF ProcessTypeOK, process, observer
<1>8. CASE Close
  <2>1. run' \in RunState
    BY <1>8 DEF Close, ProcessTypeOK
  <2>2. UNCHANGED <<process, streams, observer>>
    BY <1>8 DEF Close
  <2> QED BY <1>0, <2>1, <2>2 DEF ProcessTypeOK, process, streams, observer
<1>9. CASE Observe
  <2>1. PICK l : l = emitted[taken + 1]
    OBVIOUS
  <2>2. l \in Lines /\ taken' = taken + 1 /\ taken' \in 0..Len(emitted)
    BY <1>9, <2>1 DEF Observe, ProcessTypeOK
  <2>3. undelivered' \in Seq(Lines) /\ compactor' \in CompactorState
    <3>1. compactor \in CompactorState
      BY DEF ProcessTypeOK
    <3>2. PICK c : c = Compact(compactor, l)
      OBVIOUS
    <3>3. c.out \in Seq(Lines) /\ c.next \in CompactorState
      <4> HIDE DEF CompactorState
      <4> QED BY <2>2, <3>1, <3>2, CompactIs
    <3>4. <<l>> \in Seq(Lines)
      BY <2>2
    <3>5. \/ undelivered' = c.out /\ compactor' = c.next
          \/ undelivered' = <<l>> /\ compactor' = compactor
      BY <1>9, <2>1, <3>2 DEF Observe
    <3> QED BY <3>1, <3>3, <3>4, <3>5
  <2> QED BY <1>0, <1>9, <2>2, <2>3 DEF Observe, ProcessTypeOK, process, streams
<1>10. CASE Deliver \/ ObserverFails
  <2>1. undelivered \in Seq(Lines) /\ undelivered # <<>>
    BY <1>10 DEF Deliver, ObserverFails, ProcessTypeOK
  <2>2. PICK l \in Lines : l = Head(undelivered)
    BY <2>1
  <2>3. Tail(undelivered) \in Seq(Lines)
    BY <2>1
  <2>4. Delivered(compactor, l) \in CompactorState
    <3>1. l.est \in Nat \union {None}
      BY RuntimeAssumption DEF Lines
    <3>2. PICK c \in CompactorState : c = compactor
      BY DEF ProcessTypeOK
    <3>3. PICK retained \in Nat : retained = c.retained + 1
      OBVIOUS
    <3>4. \/ Delivered(compactor, l) = [c EXCEPT !.retained = retained, !.last = l.est, !.since = 0]
          \/ Delivered(compactor, l) = [c EXCEPT !.retained = retained]
      BY <3>2, <3>3 DEF Delivered
    <3>5. [c EXCEPT !.retained = retained] \in CompactorState
      OBVIOUS
    <3>6. [c EXCEPT !.retained = retained, !.last = l.est, !.since = 0] \in CompactorState
      BY <3>1
    <3> QED BY <3>4, <3>5, <3>6
  <2>5. [compactor EXCEPT !.retained = @ + 1] \in CompactorState
    <3>1. PICK c \in CompactorState : c = compactor
      BY DEF ProcessTypeOK
    <3>2. PICK retained \in Nat : retained = c.retained + 1
      OBVIOUS
    <3>3. [c EXCEPT !.retained = retained] \in CompactorState
      OBVIOUS
    <3> QED BY <3>1, <3>2, <3>3
  <2>6. OnOutput(attempt, l) \in [lines : Seq(Lines), ack : Lines \union {None},
                                  tool : Lines \union {None}, unchanged : BOOLEAN]
    <3>1. PICK lines, request : /\ lines = Append(attempt.lines, l)
                                /\ request = IF attempt.tool = None /\ l.kind = "tool" THEN l ELSE attempt.tool
      OBVIOUS
    <3>2. lines \in Seq(Lines) /\ request \in Lines \union {None}
      BY <3>1 DEF ProcessTypeOK
    <3>3. PICK a : a = [attempt EXCEPT !.lines = lines, !.tool = request]
      OBVIOUS
    <3>4. a \in [lines : Seq(Lines), ack : Lines \union {None},
                 tool : Lines \union {None}, unchanged : BOOLEAN]
      BY <3>2, <3>3 DEF ProcessTypeOK
    <3>5. OnOutput(attempt, l) = a \/ OnOutput(attempt, l) = [a EXCEPT !.ack = l, !.unchanged = ~edited]
      BY <3>1, <3>3 DEF OnOutput
    <3> QED BY <3>4, <3>5
  <2>7. run' \in RunState
    <3>1. [run EXCEPT !.observerError = TRUE] \in RunState
      BY DEF ProcessTypeOK
    <3>2. Terminate([run EXCEPT !.observerError = TRUE]) \in RunState
      BY <3>1 DEF Terminate
    <3> QED BY <1>10, <3>2 DEF Deliver, ObserverFails, ProcessTypeOK
  <2>8. CASE Deliver
    BY <1>0, <2>2, <2>3, <2>4, <2>6, <2>8 DEF Deliver, ProcessTypeOK, process, streams
  <2>9. CASE ObserverFails
    BY <1>0, <2>5, <2>7, <2>9 DEF ObserverFails, ProcessTypeOK, process, streams
  <2> QED BY <1>0, <1>10, <2>8, <2>9
<1>11. CASE Finalize
  <2>1. run' \in RunState
    BY <1>11 DEF Finalize, ProcessTypeOK
  <2>2. undelivered' \in Seq(Lines) /\ compactor' \in CompactorState
    <3>1. compactor.pending # None => <<compactor.pending>> \in Seq(Lines)
      BY DEF ProcessTypeOK
    <3>2. [compactor EXCEPT !.pending = None] \in CompactorState
      BY DEF ProcessTypeOK
    <3>3. undelivered \in Seq(Lines) /\ compactor \in CompactorState
      BY DEF ProcessTypeOK
    <3> QED BY <1>11, <3>1, <3>2, <3>3 DEF Finalize
  <2> QED BY <1>0, <1>11, <2>1, <2>2 DEF Finalize, ProcessTypeOK, process, streams
<1>12. CASE \E s \in Streams : Write(s)
  <2>1. PICK s \in Streams : Write(s)
    BY <1>12
  <2>2. PICK k \in Kinds(s), unfinished \in BOOLEAN :
          /\ written' = [written EXCEPT ![s] = Append(@,
               [stream |-> s, at |-> Len(@) + 1, edited |-> edited, kind |-> k[1], est |-> k[2]])]
          /\ open' = [open EXCEPT ![s] = unfinished]
    BY <2>1 DEF Write
  <2>3. PICK l : l = [stream |-> s, at |-> Len(written[s]) + 1, edited |-> edited,
                      kind |-> k[1], est |-> k[2]]
    OBVIOUS
  <2>4. l \in Lines
    <3>1. Len(written[s]) + 1 \in Nat \ {0} /\ edited \in BOOLEAN
      BY DEF ProcessTypeOK
    <3> QED BY <2>3, <3>1, KindsAre DEF Lines
  <2>5. written' = [written EXCEPT ![s] = Append(written[s], l)]
    BY <2>2, <2>3
  <2>6. written' \in [Streams -> Seq(Lines)] /\ open' \in [Streams -> BOOLEAN]
    BY <2>2, <2>4, <2>5 DEF ProcessTypeOK
  <2> QED BY <2>1, <2>6 DEF Write, ProcessTypeOK, streams, observer
<1>13. CASE Edit
  BY <1>0, <1>13 DEF Edit, ProcessTypeOK, streams, observer
<1>14. CASE ReleaseOutput
  <2>1. held' \in BOOLEAN /\ UNCHANGED <<task, signal, child, edited, written, open>>
    BY <1>14 DEF ReleaseOutput
  <2>2. UNCHANGED <<read, ended, emitted, taken, compactor, undelivered, attempt, run>>
    BY <1>14 DEF ReleaseOutput, streams, observer
  <2> QED BY <1>0, <2>1, <2>2 DEF ProcessTypeOK
<1> QED BY <1>1, <1>2, <1>3, <1>4, <1>5, <1>6, <1>7, <1>8, <1>9, <1>10, <1>11, <1>12, <1>13, <1>14
       DEF ProcessNext, Controller

\* What ends a process leaves of its run: only the signal to it and the timer.
LEMMA TerminateKeeps ==
  ASSUME NEW r \in RunState
  PROVE  LET t == Terminate(r)
         IN /\ t \in RunState
            /\ t.pid = r.pid /\ t.start = r.start /\ t.reading = r.reading /\ t.closed = r.closed
            /\ t.spawnError = r.spawnError /\ t.observerError = r.observerError /\ t.over = r.over
            /\ t.aborted = r.aborted
BY DEF Terminate, RunState

-----------------------------------------------------------------------------
(* How far a run is.                                                       *)

\* What Stages and Answers read of a run: where a step leaves it, they stand.
LEMMA StagesStand ==
  ASSUME ProcessTypeOK, Stages,
         UNCHANGED <<task, child, written, read, ended, taken, emitted>>,
         compactor'.pending = compactor.pending,
         \/ undelivered' = undelivered
         \/ undelivered' \in Seq(Lines) /\ Len(undelivered') < Len(undelivered),
         held' = TRUE => held,
         run'.pid = run.pid, run'.start = run.start, run'.reading = run.reading,
         run'.closed = run.closed, run'.over = run.over, run.spawnError => run'.spawnError
  PROVE  Stages'
<1>1. undelivered = <<>> => undelivered' = <<>>
  BY DEF ProcessTypeOK
<1>2. Len(undelivered) <= 1 => Len(undelivered') <= 1
  BY DEF ProcessTypeOK
<1> QED BY <1>1, <1>2 DEF Stages, ProcessTypeOK, RunState, Exited

LEMMA StagesStay ==
  ASSUME ProcessTypeOK, Stages, Writes, InHand, ProcessNext
  PROVE  Stages'
<1>0. run \in RunState
  BY DEF ProcessTypeOK, RunState
<1>1. CASE Spawn
  <2>1. /\ run.start = "none" /\ ~run.reading /\ ~held /\ ~run.closed /\ ~run.over
        /\ emitted = <<>> /\ undelivered = <<>>
    BY <1>1 DEF Spawn, Stages, Exited, Streams
  <2>2. \A s \in Streams : ~ended[s]
    BY <1>1 DEF Spawn, Stages, Exited
  <2>3. /\ UNCHANGED <<held, ended, emitted, undelivered>> /\ run'.start = run.start /\ run'.reading = run.reading
        /\ run'.closed = run.closed /\ run'.over = run.over
        /\ child'.state # "none" => run'.pid \/ run'.spawnError
    BY <1>0, <1>1 DEF Spawn, streams, observer, RunState, ProcessTypeOK
  <2> QED BY <2>1, <2>2, <2>3 DEF Stages
<1>2. CASE Start
  <2>1. run'.start \in {"recorded", "settled", "failed"} /\ (run'.start = "settled" => task.probe \/ ~run.pid)
    <3>1. PICK r : r = [run EXCEPT !.start = "failed"]
      OBVIOUS
    <3>2. r \in RunState /\ r.start = "failed"
      BY <1>0, <3>1 DEF RunState
    <3>3. Terminate(r).start = "failed"
      BY <3>2, TerminateKeeps
    <3>4. run' = Terminate(r) \/ run' = [run EXCEPT !.start = IF run.pid /\ ~task.probe THEN "recorded" ELSE "settled"]
      BY <1>2, <3>1 DEF Start
    <3> QED BY <1>0, <3>3, <3>4 DEF RunState
  <2>2. /\ run'.pid = run.pid /\ run'.reading = run.reading /\ run'.closed = run.closed
        /\ run'.over = run.over /\ run'.spawnError = run.spawnError
    <3>1. [run EXCEPT !.start = "failed"] \in RunState
      BY <1>0 DEF RunState
    <3> QED BY <1>0, <1>2, <3>1, TerminateKeeps DEF Start, RunState
  <2>3. UNCHANGED <<task, child, held, written, read, ended, taken, emitted, compactor, undelivered>> /\ child.state # "none"
    BY <1>2 DEF Start, process, streams, observer
  <2> QED BY <2>1, <2>2, <2>3 DEF Stages, Exited
<1>3. CASE Resume
  <2>1. /\ run'.reading = TRUE /\ run'.pid = run.pid /\ run'.start = run.start
        /\ run'.closed = run.closed /\ run'.over = run.over /\ run'.spawnError = run.spawnError
    BY <1>0, <1>3 DEF Resume, RunState
  <2>2. /\ UNCHANGED <<task, child, held, written, read, ended, taken, emitted, compactor, undelivered>>
        /\ run.start # "none"
    BY <1>3 DEF Resume, process, streams, observer
  <2> QED BY <2>1, <2>2 DEF Stages, Exited
<1>4. CASE Abort
  <2>1. [run EXCEPT !.aborted = TRUE] \in RunState
    BY <1>0 DEF RunState
  <2>2. /\ run'.pid = run.pid /\ run'.start = run.start /\ run'.reading = run.reading
        /\ run'.closed = run.closed /\ run'.over = run.over /\ run'.spawnError = run.spawnError
    BY <1>0, <1>4, <2>1, TerminateKeeps DEF Abort, RunState
  <2> QED BY <1>4, <2>2, StagesStand DEF Abort, streams, observer, ProcessTypeOK
<1>5. CASE ObeyTerm \/ KillTimer \/ Exit
  <2>1. Running /\ child'.state = "exited" /\ UNCHANGED <<task, written, streams, observer, run>>
    BY <1>5 DEF ObeyTerm, KillTimer, Exit, End, ProcessTypeOK
  <2>2. \A s \in Streams : ~ended[s]
    BY <2>1 DEF Stages, Exited, Running
  <2> QED BY <2>1, <2>2 DEF Stages, Running, streams, observer
<1>6. CASE \E s \in Streams : Read(s)
  <2>1. PICK s \in Streams : Read(s)
    BY <1>6
  <2>2. /\ run.reading /\ ~ended[s] /\ UNCHANGED <<process, ended, observer, run>>
        /\ \A t \in Streams : t # s => read'[t] = read[t]
    BY <2>1 DEF Read, ProcessTypeOK
  <2>3. ~run.closed /\ ~run.over
    BY <2>2 DEF Stages
  <2> QED BY <2>2, <2>3 DEF Stages, process, observer, Exited
<1>7. CASE \E s \in Streams : FinishStream(s)
  <2>1. PICK s \in Streams : FinishStream(s)
    BY <1>7
  <2>2. /\ run.reading /\ Exited /\ ~held /\ read[s] = Len(written[s]) /\ ~ended[s]
        /\ UNCHANGED <<process, read, observer, run>>
        /\ \A t \in Streams : t # s => ended'[t] = ended[t]
    BY <2>1 DEF FinishStream, ProcessTypeOK
  <2>3. ~run.closed /\ ~run.over
    BY <2>2 DEF Stages
  <2> QED BY <2>2, <2>3 DEF Stages, process, observer, Exited
<1>8. CASE Close
  <2>1. /\ run'.closed = TRUE /\ run'.reading = run.reading /\ run'.pid = run.pid
        /\ run'.start = run.start /\ run'.over = run.over /\ run'.spawnError = run.spawnError
    BY <1>0, <1>8 DEF Close, RunState
  <2>2. /\ \A s \in Streams : ended[s]
        /\ UNCHANGED <<task, child, held, written, read, ended, taken, emitted, compactor, undelivered>>
    BY <1>8 DEF Close, process, streams, observer
  <2> QED BY <2>1, <2>2 DEF Stages, Exited
<1>9. CASE Observe
  <2>1. taken < Len(emitted) /\ UNCHANGED <<process, streams, run>>
    BY <1>9 DEF Observe
  <2>2. ~run.over /\ child.state # "none"
    BY <2>1 DEF Stages, ProcessTypeOK
  <2> QED BY <2>1, <2>2 DEF Stages, process, streams, Exited
<1>10. CASE Deliver
  <2>1. UNCHANGED <<process, streams, taken, run>> /\ compactor'.pending = compactor.pending
    BY <1>10 DEF Deliver, Delivered, ProcessTypeOK
  <2>2. undelivered' \in Seq(Lines) /\ Len(undelivered') < Len(undelivered)
    BY <1>10 DEF Deliver, ProcessTypeOK
  <2> QED BY <2>1, <2>2, StagesStand DEF process, streams
<1>11. CASE ObserverFails
  <2>1. UNCHANGED <<process, streams, taken>> /\ compactor'.pending = compactor.pending
    BY <1>11 DEF ObserverFails, ProcessTypeOK
  <2>4. undelivered' \in Seq(Lines) /\ Len(undelivered') < Len(undelivered)
    BY <1>11 DEF ObserverFails, ProcessTypeOK
  <2>2. [run EXCEPT !.observerError = TRUE] \in RunState
    BY <1>0 DEF RunState
  <2>3. /\ run'.pid = run.pid /\ run'.start = run.start /\ run'.reading = run.reading
        /\ run'.closed = run.closed /\ run'.over = run.over /\ run'.spawnError = run.spawnError
    BY <1>0, <1>11, <2>2, TerminateKeeps DEF ObserverFails, RunState
  <2> QED BY <2>1, <2>3, <2>4, StagesStand DEF process, streams
<1>12. CASE Finalize
  <2>1. /\ run'.over = TRUE /\ run'.closed = run.closed /\ run'.reading = run.reading
        /\ run'.pid = run.pid /\ run'.start = run.start /\ run'.spawnError = run.spawnError
    BY <1>0, <1>12 DEF Finalize, RunState
  <2>2. /\ UNCHANGED <<process, streams, taken>> /\ run.closed /\ run.start # "none" /\ taken = Len(emitted)
        /\ compactor'.pending = None /\ Len(undelivered') <= 1
    <3>1. /\ UNCHANGED <<process, streams, taken>> /\ run.closed /\ run.start # "none"
          /\ taken = Len(emitted) /\ undelivered = <<>>
          /\ \/ compactor.pending = None /\ UNCHANGED <<undelivered, compactor>>
             \/ undelivered' = <<compactor.pending>> /\ compactor' = [compactor EXCEPT !.pending = None]
      BY <1>12 DEF Finalize
    <3>2. [compactor EXCEPT !.pending = None].pending = None
      BY DEF ProcessTypeOK
    <3>3. compactor'.pending = None
      BY <3>1, <3>2
    <3>4. Len(undelivered') <= 1
      <4>1. undelivered' = <<>> \/ undelivered' = <<compactor.pending>>
        BY <3>1
      <4>2. Len(<<compactor.pending>>) = 1
        OBVIOUS
      <4>3. Len(<<>>) = 0
        OBVIOUS
      <4>4. CASE undelivered' = <<>>
        BY <4>3, <4>4
      <4>5. CASE undelivered' = <<compactor.pending>>
        BY <4>2, <4>5
      <4> QED BY <4>1, <4>4, <4>5
    <3> QED BY <3>1, <3>3, <3>4
  <2> QED BY <2>1, <2>2 DEF Stages, process, streams, Exited
<1>13. CASE \E s \in Streams : Write(s)
  <2>1. PICK s \in Streams : Write(s)
    BY <1>13
  <2>2. (Running \/ held) /\ UNCHANGED <<task, child, held, streams, observer, run>>
    BY <2>1 DEF Write
  <2>3. \A t \in Streams : ~ended[t]
    BY <2>2 DEF Stages, Running, Exited
  <2> QED BY <2>2, <2>3 DEF Stages, streams, observer, Exited
<1>14. CASE Edit
  BY <1>14, StagesStand DEF Edit, streams, observer, ProcessTypeOK
<1>15. CASE ReleaseOutput
  BY <1>15, StagesStand DEF ReleaseOutput, streams, observer, ProcessTypeOK
<1> QED BY <1>1, <1>2, <1>3, <1>4, <1>5, <1>6, <1>7, <1>8, <1>9, <1>10, <1>11, <1>12, <1>13, <1>14, <1>15
       DEF ProcessNext, Controller

LEMMA AnswersStay ==
  ASSUME ProcessTypeOK, Stages, Answers, InHand, ProcessNext
  PROVE  Answers'
<1>0. run \in RunState
  BY DEF ProcessTypeOK, RunState
\* A result that is there stands.
<1>1. CASE result # None
  <2>1. CASE child.state = "none"
    <3>1. /\ run.start = "none" /\ ~run.reading /\ ~held /\ emitted = <<>> /\ undelivered = <<>>
          /\ ~run.over
          /\ \A s \in Streams : ~ended[s]
      BY <2>1 DEF Stages, Exited
    <3>2. UNCHANGED <<result, child>>
      BY <1>1, <2>1, <3>1 DEF ProcessNext, Controller, Spawn, Start, Resume, Abort, ObeyTerm, KillTimer, Exit,
           Running, Read, FinishStream, Write, Edit, ReleaseOutput, process, Close, Streams, Observe,
           Deliver, ObserverFails, Finalize, ProcessTypeOK
    <3> QED BY <1>1, <2>1, <3>1, <3>2 DEF Answers
  <2>2. CASE /\ run.over /\ undelivered = <<>>
             /\ result = [ProcessResult(run) EXCEPT !.thrown = result.thrown]
             /\ result.thrown \in BOOLEAN
    <3>1. run.closed /\ Exited /\ run.reading /\ run.start # "none" /\ taken = Len(emitted)
      BY <2>2 DEF Stages, Streams
    <3>2. ~Spawn /\ ~Abort /\ ~ObserverFails /\ ~Deliver /\ ~Finalize /\ ~Close /\ ~Start /\ ~Resume
      BY <1>1, <2>2, <3>1 DEF Spawn, Abort, ObserverFails, Deliver, Finalize, Close, Start, Resume, Exited
    <3>3. ~ObeyTerm /\ ~KillTimer /\ ~Exit /\ ~Observe
      BY <2>2, <3>1 DEF ObeyTerm, KillTimer, Exit, Running, Exited, Observe, ProcessTypeOK
    <3>4. UNCHANGED <<result, undelivered, run, child>>
      <4>1. CASE \E s \in Streams : Read(s) \/ FinishStream(s) \/ Write(s)
        BY <4>1 DEF Read, FinishStream, Write, process, streams, observer
      <4>2. CASE Edit \/ ReleaseOutput
        BY <4>2 DEF Edit, ReleaseOutput, streams, observer
      <4> QED BY <3>2, <3>3, <4>1, <4>2 DEF ProcessNext, Controller
    <3> QED BY <2>2, <3>4 DEF Answers, ProcessResult
  <2> QED BY <1>1, <2>1, <2>2 DEF Answers
<1>2. CASE result = None /\ result' # None
  <2>1. CASE Spawn
    BY <1>2, <2>1 DEF Spawn, Answers, ProcessResult
  <2>2. CASE Deliver \/ ObserverFails
    <3>1. run.over
      BY <1>2, <2>2 DEF Deliver, ObserverFails
    <3>2. UNCHANGED <<run, child>> /\ undelivered \in Seq(Lines) /\ Len(undelivered) <= 1 /\ undelivered # <<>>
      BY <2>2, <3>1 DEF Deliver, ObserverFails, process, Stages, ProcessTypeOK
    <3>3. undelivered' = <<>>
      BY <2>2, <3>2 DEF Deliver, ObserverFails
    <3>4. result' = ProcessResult(run) \/ result' = [ProcessResult(run) EXCEPT !.thrown = TRUE]
      BY <2>2, <3>1 DEF Deliver, ObserverFails
    <3>5. ProcessResult(run)' = ProcessResult(run)
      BY <3>2 DEF ProcessResult
    <3>6. result' = [ProcessResult(run) EXCEPT !.thrown = result'.thrown] /\ result'.thrown \in BOOLEAN
      <4>1. CASE result' = ProcessResult(run)
        BY <4>1 DEF ProcessResult
      <4>2. CASE result' = [ProcessResult(run) EXCEPT !.thrown = TRUE]
        BY <4>2 DEF ProcessResult
      <4> QED BY <3>4, <4>1, <4>2
    <3> QED BY <3>1, <3>2, <3>3, <3>5, <3>6 DEF Answers
  <2>3. CASE Finalize
    <3>1. result' = ProcessResult(run) /\ undelivered' = <<>> /\ child' = child
      BY <1>2, <2>3 DEF Finalize, process
    <3>2. run' = [run EXCEPT !.over = TRUE]
      BY <2>3 DEF Finalize
    <3>3. run'.over /\ ProcessResult(run)' = ProcessResult(run)
      BY <1>0, <3>1, <3>2 DEF ProcessResult, RunState
    <3>4. result' = [ProcessResult(run) EXCEPT !.thrown = result'.thrown] /\ result'.thrown \in BOOLEAN
      BY <3>1 DEF ProcessResult
    <3> QED BY <3>1, <3>3, <3>4 DEF Answers
  <2>4. CASE ~(Spawn \/ Deliver \/ ObserverFails \/ Finalize)
    BY <1>2, <2>4 DEF ProcessNext, Controller, Start, Resume, Abort, ObeyTerm, KillTimer, Exit, End, Close, Observe,
       Read, FinishStream, Write, Edit, ReleaseOutput
  <2> QED BY <2>1, <2>2, <2>3, <2>4
<1>3. CASE result' = None
  BY <1>3 DEF Answers
<1> QED BY <1>1, <1>2, <1>3

\* Only an observer that fails while the process is there raises the flag.
LEMMA ErrorStays ==
  ASSUME ProcessTypeOK, ProcessNext
  PROVE  /\ run.observerError => run'.observerError
         /\ ~ObserverFails => run'.observerError = run.observerError
         /\ ObserverFails /\ ~run.over => run'.observerError
<1>0. run \in RunState
  BY DEF ProcessTypeOK, RunState
<1>1. CASE Start
  <2>1. PICK r : r = [run EXCEPT !.start = "failed"]
    OBVIOUS
  <2>2. r \in RunState /\ r.observerError = run.observerError
    BY <1>0, <2>1 DEF RunState
  <2>3. Terminate(r).observerError = run.observerError
    BY <2>2, TerminateKeeps
  <2>4. run' = Terminate(r) \/ run' = [run EXCEPT !.start = IF run.pid /\ ~task.probe THEN "recorded" ELSE "settled"]
    BY <1>1, <2>1 DEF Start
  <2>5. run'.observerError = run.observerError
    BY <1>0, <2>3, <2>4 DEF RunState
  <2>6. ~ObserverFails
    BY <1>1 DEF Start, ObserverFails, observer, process, ProcessTypeOK
  <2> QED BY <2>5, <2>6
<1>2. CASE Abort
  <2>1. [run EXCEPT !.aborted = TRUE] \in RunState
    BY <1>0 DEF RunState
  <2>2. run'.observerError = run.observerError
    BY <1>0, <1>2, <2>1, TerminateKeeps DEF Abort, RunState
  <2>3. ~ObserverFails
    BY <1>2 DEF Abort, ObserverFails, observer, process
  <2> QED BY <2>2, <2>3
<1>3. CASE ObserverFails
  <2>1. CASE run.over
    BY <1>3, <2>1 DEF ObserverFails
  <2>2. CASE ~run.over
    <3>1. PICK r : r = [run EXCEPT !.observerError = TRUE]
      OBVIOUS
    <3>2. r \in RunState /\ r.observerError
      BY <1>0, <3>1 DEF RunState
    <3>3. run' = Terminate(r)
      BY <1>3, <2>2, <3>1 DEF ObserverFails
    <3> QED BY <1>3, <3>2, <3>3, TerminateKeeps
  <2> QED BY <2>1, <2>2
<1>4. CASE ~(Start \/ Abort \/ ObserverFails)
  <2>1. CASE Spawn \/ Resume \/ Close \/ Finalize
    BY <1>0, <1>4, <2>1 DEF Spawn, Resume, Close, Finalize, RunState
  <2>2. CASE ~(Spawn \/ Resume \/ Close \/ Finalize)
    BY <1>4, <2>2 DEF ProcessNext, Controller, ObeyTerm, KillTimer, Exit, End, Edit, Observe, Deliver,
       Read, FinishStream, Write, ReleaseOutput
  <2> QED BY <1>4, <2>1, <2>2
<1> QED BY <1>1, <1>2, <1>3, <1>4

-----------------------------------------------------------------------------
(* The lines a process writes, and those that are chained.                 *)

LEMMA WritesStay ==
  ASSUME ProcessTypeOK, Writes, ProcessNext
  PROVE  Writes'
<1>1. CASE \E s \in Streams : Write(s)
  <2>1. PICK s \in Streams : Write(s)
    BY <1>1
  <2>2. PICK k \in Kinds(s), unfinished \in BOOLEAN :
          /\ written' = [written EXCEPT ![s] = Append(@,
               [stream |-> s, at |-> Len(@) + 1, edited |-> edited, kind |-> k[1], est |-> k[2]])]
          /\ open' = [open EXCEPT ![s] = unfinished]
    BY <2>1 DEF Write
  <2>3. PICK l : l = [stream |-> s, at |-> Len(written[s]) + 1, edited |-> edited,
                      kind |-> k[1], est |-> k[2]]
    OBVIOUS
  <2>4. /\ l.stream = s /\ l.at = Len(written[s]) + 1 /\ l.edited = edited
        /\ l.kind \in {"tool", "ack"} => s = "stdout"
    BY <2>3, KindsAre
  <2>5. /\ written \in [Streams -> Seq(Lines)] /\ open \in [Streams -> BOOLEAN] /\ read \in [Streams -> Nat]
        /\ edited \in BOOLEAN
    BY DEF ProcessTypeOK
  <2>6. /\ written'[s] = Append(written[s], l)
        /\ \A t \in Streams : t # s => written'[t] = written[t] /\ open'[t] = open[t]
    BY <2>2, <2>3, <2>5
  <2>7. edited' = edited /\ read' = read
    BY <2>1 DEF Write, streams
  <2>8. ASSUME NEW i \in DOMAIN written'[s]
        PROVE  LET m == written'[s][i]
               IN m.stream = s /\ m.at = i /\ (m.kind \in {"tool", "ack"} => s = "stdout") /\ (m.edited => edited)
    <3>1. written[s] \in Seq(Lines)
      BY <2>5
    <3>2. i \in 1..(Len(written[s]) + 1)
      BY <2>6, <2>8, <3>1
    <3>3. CASE i = Len(written[s]) + 1
      BY <2>4, <2>6, <3>1, <3>3
    <3>4. CASE i \in DOMAIN written[s]
      BY <2>6, <3>1, <3>4 DEF Writes
    <3> QED BY <3>1, <3>2, <3>3, <3>4
  <2>9. written'[s] # <<>> /\ read[s] <= Len(written'[s])
    <3>1. written[s] \in Seq(Lines) /\ read[s] \in Nat /\ read[s] <= Len(written[s])
      BY <2>5 DEF Writes
    <3>2. written'[s] # <<>> /\ Len(written'[s]) = Len(written[s]) + 1
      BY <2>6, <3>1
    <3> QED BY <3>1, <3>2
  <2> QED BY <2>6, <2>7, <2>8, <2>9 DEF Writes
<1>2. CASE Edit
  BY <1>2 DEF Edit, Writes, streams
<1>3. CASE \E s \in Streams : Read(s)
  <2>1. PICK s \in Streams : Read(s)
    BY <1>3
  <2>2. /\ UNCHANGED <<written, open, edited>> /\ read[s] < Len(written[s]) /\ read[s] \in Nat
        /\ read'[s] = read[s] + 1 /\ \A t \in Streams : t # s => read'[t] = read[t]
    BY <2>1 DEF Read, process, ProcessTypeOK
  <2>3. \A t \in Streams : read'[t] <= Len(written[t])
    <3>1. ASSUME NEW t \in Streams PROVE Len(written[t]) \in Nat /\ read[t] <= Len(written[t])
      BY DEF ProcessTypeOK, Writes
    <3> QED BY <2>2, <3>1
  <2> QED BY <2>2, <2>3 DEF Writes
<1>4. CASE ~\E s \in Streams : Read(s) \/ Write(s) \/ Edit
  <2>1. UNCHANGED <<written, open, edited, read>>
    BY <1>4 DEF ProcessNext, Controller, Spawn, Start, Resume, Abort, ObeyTerm, KillTimer, Exit, End,
       FinishStream, Close, Observe, Deliver, ObserverFails, Finalize, ReleaseOutput, process, streams, Streams
  <2> QED BY <2>1 DEF Writes
<1> QED BY <1>1, <1>2, <1>3, <1>4

\* How far stream s is chained.
Chained(s, k) == k <= read[s] /\ k <= Emits(s)

LEMMA EmitsIs ==
  ASSUME ProcessTypeOK, Writes, NEW s \in Streams
  PROVE  Emits(s) \in Nat /\ Len(written[s]) \in Nat /\ read[s] \in Nat
BY DEF Emits, ProcessTypeOK, Writes

\* The chain when it does not grow.
LEMMA ChainStands ==
  ASSUME ProcessTypeOK, Chain, UNCHANGED <<written, emitted>>, run.observerError => run'.observerError,
         \A t \in Streams, k \in Nat : Chained(t, k) => Chained(t, k)',
         ~run'.observerError => \A t \in Streams, k \in Nat : k \in DOMAIN written[t] /\ Chained(t, k)' => Chained(t, k)
  PROVE  Chain'
<1>1. ASSUME NEW i \in DOMAIN emitted
      PROVE  /\ Chained(emitted[i].stream, emitted[i].at)'
             /\ written[emitted[i].stream][emitted[i].at] = emitted[i]
  <2>1. emitted[i] \in Lines
    BY DEF ProcessTypeOK
  <2>2. emitted[i].stream \in Streams /\ emitted[i].at \in Nat
    BY <2>1 DEF Lines
  <2> QED BY <2>2 DEF Chain, Chained
<1>2. ASSUME ~run'.observerError, NEW s \in Streams, NEW k \in DOMAIN written[s], Chained(s, k)'
      PROVE  written[s][k] \in Range(emitted)
  <2>1. k \in Nat
    BY DEF ProcessTypeOK
  <2> QED BY <1>2, <2>1 DEF Chain, Chained
<1> QED BY <1>1, <1>2 DEF Chain, Chained, InOrder

\* The chain when it grows by the next line of a stream.
LEMMA ChainGrows ==
  ASSUME ProcessTypeOK, Writes, Chain, UNCHANGED <<written, run>>,
         NEW s \in Streams, NEW k \in DOMAIN written[s], emitted' = Append(emitted, written[s][k]),
         ~Chained(s, k), \A j \in Nat : Chained(s, j)' <=> j <= k,
         \A j \in Nat : Chained(s, j) <=> j <= k - 1,
         \A t \in Streams, j \in Nat : t # s => Chained(t, j)' = Chained(t, j)
  PROVE  Chain'
<1>1. PICK l : l = written[s][k]
  OBVIOUS
<1>2. l.stream = s /\ l.at = k /\ k \in Nat /\ l \in Lines
  BY <1>1 DEF Writes, ProcessTypeOK
<1>3. /\ emitted \in Seq(Lines) /\ Len(emitted) \in Nat /\ Len(emitted') = Len(emitted) + 1
      /\ emitted'[Len(emitted) + 1] = l /\ \A i \in DOMAIN emitted : emitted'[i] = emitted[i]
      /\ DOMAIN emitted' = 1..(Len(emitted) + 1) /\ DOMAIN emitted = 1..Len(emitted)
  BY <1>1, <1>2 DEF ProcessTypeOK
<1>4. ASSUME NEW i \in DOMAIN emitted
      PROVE  /\ emitted[i].stream \in Streams /\ emitted[i].at \in Nat
             /\ Chained(emitted[i].stream, emitted[i].at)
             /\ written[emitted[i].stream][emitted[i].at] = emitted[i]
  <2>1. emitted[i] \in Lines
    BY DEF ProcessTypeOK
  <2> QED BY <2>1 DEF Chain, Chained, Lines
<1>5. ASSUME NEW i \in DOMAIN emitted
      PROVE  /\ Chained(emitted[i].stream, emitted[i].at)'
             /\ emitted[i].stream = s => emitted[i].at < k
  BY <1>2, <1>4
<1>6. Chained(s, k)'
  BY <1>2
<1>7. InOrder(emitted')
  <2>1. ASSUME NEW i \in DOMAIN emitted', NEW j \in DOMAIN emitted', i < j,
               emitted'[i].stream = emitted'[j].stream
        PROVE  emitted'[i].at < emitted'[j].at
    <3>1. i \in DOMAIN emitted /\ emitted'[i] = emitted[i]
      BY <1>3, <2>1
    <3>2. CASE j \in DOMAIN emitted
      BY <1>3, <2>1, <3>1, <3>2 DEF Chain, InOrder
    <3>3. CASE j = Len(emitted) + 1
      BY <1>2, <1>3, <1>5, <2>1, <3>1, <3>3
    <3> QED BY <1>3, <3>2, <3>3
  <2> QED BY <2>1 DEF InOrder
<1>8. ASSUME NEW i \in DOMAIN emitted', NEW m, m = emitted'[i]
      PROVE  Chained(m.stream, m.at)' /\ written[m.stream][m.at] = m
  <2>1. CASE i \in DOMAIN emitted
    BY <1>3, <1>4, <1>5, <1>8, <2>1
  <2>2. CASE i = Len(emitted) + 1
    BY <1>1, <1>2, <1>3, <1>6, <1>8, <2>2
  <2> QED BY <1>3, <2>1, <2>2
<1>9. ASSUME ~run.observerError, NEW t \in Streams, NEW j \in DOMAIN written[t], Chained(t, j)'
      PROVE  written[t][j] \in Range(emitted')
  <2>1. j \in Nat
    BY DEF ProcessTypeOK
  <2>2. CASE t = s /\ j = k
    BY <1>1, <1>3, <2>2 DEF Range
  <2>3. CASE ~(t = s /\ j = k)
    <3>1. Chained(t, j)
      BY <1>2, <1>9, <2>1, <2>3
    <3>2. written[t][j] \in Range(emitted)
      BY <1>9, <3>1 DEF Chain, Chained
    <3> QED BY <1>3, <3>2 DEF Range
  <2> QED BY <2>2, <2>3
<1> QED BY <1>7, <1>8, <1>9 DEF Chain, Chained

LEMMA ChainStay ==
  ASSUME ProcessTypeOK, Stages, Writes, Chain, ProcessNext
  PROVE  Chain'
<1>1. CASE \E s \in Streams : Read(s)
  <2>1. PICK s \in Streams : Read(s)
    BY <1>1
  <2>2. /\ ~ended[s] /\ read[s] < Len(written[s]) /\ UNCHANGED <<written, open, ended, run>>
        /\ read' = [read EXCEPT ![s] = @ + 1]
        /\ Emit(IF open[s] /\ read[s] + 1 = Len(written[s]) THEN <<>> ELSE <<written[s][read[s] + 1]>>)
    BY <2>1 DEF Read, process
  <2>3. /\ read[s] \in Nat /\ Len(written[s]) \in Nat /\ read'[s] = read[s] + 1
        /\ written[s] \in Seq(Lines) /\ \A t \in Streams : t # s => read'[t] = read[t]
    BY <2>2 DEF ProcessTypeOK
  <2>4. /\ \A t \in Streams, j \in Nat : t # s => Chained(t, j)' = Chained(t, j)
        /\ \A t \in Streams, j \in Nat : Chained(t, j) => Chained(t, j)'
    BY <2>2, <2>3, EmitsIs DEF Chained, Emits
  <2>5. CASE open[s] /\ read[s] + 1 = Len(written[s])
    <3>1. emitted' = emitted
      BY <2>2, <2>5 DEF Emit, ProcessTypeOK
    <3>2. \A j \in Nat : Chained(s, j)' => Chained(s, j)
      BY <2>2, <2>3, <2>5 DEF Chained, Emits
    <3> QED BY <2>2, <2>4, <3>1, <3>2, ChainStands
  <2>6. CASE ~(open[s] /\ read[s] + 1 = Len(written[s])) /\ run.observerError
    <3>1. emitted' = emitted
      BY <2>2, <2>6 DEF Emit
    <3> QED BY <2>2, <2>4, <2>6, <3>1, ChainStands
  <2>7. CASE ~(open[s] /\ read[s] + 1 = Len(written[s])) /\ ~run.observerError
    <3>1. PICK k \in DOMAIN written[s] : k = read[s] + 1
      BY <2>2, <2>3
    <3>2. emitted' = Append(emitted, written[s][k])
      BY <2>2, <2>7, <3>1 DEF Emit, ProcessTypeOK
    <3>3. k <= Emits(s) /\ k \in Nat /\ Emits(s)' = Emits(s) /\ Emits(s) \in Nat
      BY <2>2, <2>3, <2>7, <3>1, EmitsIs DEF Emits
    <3>4. /\ ~Chained(s, k) /\ \A j \in Nat : Chained(s, j)' <=> j <= k
          /\ \A j \in Nat : Chained(s, j) <=> j <= k - 1
      BY <2>3, <3>1, <3>3 DEF Chained
    <3> QED BY <2>2, <2>4, <3>2, <3>4, ChainGrows
  <2> QED BY <2>5, <2>6, <2>7
<1>2. CASE \E s \in Streams : FinishStream(s)
  <2>1. PICK s \in Streams : FinishStream(s)
    BY <1>2
  <2>2. /\ ~ended[s] /\ read[s] = Len(written[s]) /\ UNCHANGED <<written, open, read, run>>
        /\ ended' = [ended EXCEPT ![s] = TRUE]
        /\ Emit(IF open[s] THEN <<Last(written[s])>> ELSE <<>>)
    BY <2>1 DEF FinishStream, process
  <2>3. /\ written[s] \in Seq(Lines) /\ Len(written[s]) \in Nat /\ ended'[s]
        /\ \A t \in Streams : t # s => ended'[t] = ended[t]
    BY <2>2 DEF ProcessTypeOK
  <2>4. /\ \A t \in Streams, j \in Nat : t # s => Chained(t, j)' = Chained(t, j)
        /\ \A t \in Streams, j \in Nat : Chained(t, j) => Chained(t, j)'
    BY <2>2, <2>3, EmitsIs DEF Chained, Emits
  <2>5. CASE ~open[s]
    <3>1. emitted' = emitted
      BY <2>2, <2>5 DEF Emit, ProcessTypeOK
    <3>2. \A j \in Nat : Chained(s, j)' => Chained(s, j)
      BY <2>2, <2>3, <2>5 DEF Chained, Emits
    <3> QED BY <2>2, <2>4, <3>1, <3>2, ChainStands
  <2>6. CASE open[s] /\ run.observerError
    <3>1. emitted' = emitted
      BY <2>2, <2>6 DEF Emit
    <3> QED BY <2>2, <2>4, <2>6, <3>1, ChainStands
  <2>7. CASE open[s] /\ ~run.observerError
    <3>1. PICK k \in DOMAIN written[s] : k = Len(written[s])
      BY <2>3, <2>7 DEF Writes
    <3>2. emitted' = Append(emitted, written[s][k])
      BY <2>2, <2>7, <3>1 DEF Emit, ProcessTypeOK, Last
    <3>3. k \in Nat /\ Emits(s) = k - 1 /\ Emits(s)' = k /\ read[s] = k
      BY <2>2, <2>3, <2>7, <3>1 DEF Emits
    <3>4. /\ ~Chained(s, k) /\ \A j \in Nat : Chained(s, j)' <=> j <= k
          /\ \A j \in Nat : Chained(s, j) <=> j <= k - 1
      BY <2>2, <3>3 DEF Chained
    <3> QED BY <2>2, <2>4, <3>2, <3>4, ChainGrows
  <2> QED BY <2>5, <2>6, <2>7
<1>3. CASE \E s \in Streams : Write(s)
  <2>1. PICK s \in Streams : Write(s)
    BY <1>3
  <2>1a. PICK k \in Kinds(s), unfinished \in BOOLEAN :
          /\ written' = [written EXCEPT ![s] = Append(@,
               [stream |-> s, at |-> Len(@) + 1, edited |-> edited, kind |-> k[1], est |-> k[2]])]
          /\ open' = [open EXCEPT ![s] = unfinished]
    BY <2>1 DEF Write
  <2>1b. PICK l : l = [stream |-> s, at |-> Len(written[s]) + 1, edited |-> edited,
                       kind |-> k[1], est |-> k[2]]
    OBVIOUS
  <2>2. written' = [written EXCEPT ![s] = Append(written[s], l)] /\ open' = [open EXCEPT ![s] = unfinished]
    BY <2>1a, <2>1b
  <2>3. /\ ~open[s] /\ (Running \/ held) /\ UNCHANGED <<read, ended, emitted, run>>
    BY <2>1 DEF Write, streams
  <2>4. ~ended[s]
    BY <2>3 DEF Stages, Running, Exited
  <2>5. /\ written \in [Streams -> Seq(Lines)] /\ written[s] \in Seq(Lines) /\ Len(written[s]) \in Nat
        /\ Len(written'[s]) = Len(written[s]) + 1 /\ \A m \in DOMAIN written[s] : written'[s][m] = written[s][m]
        /\ \A t \in Streams : t # s => written'[t] = written[t] /\ open'[t] = open[t]
        /\ read[s] \in Nat /\ read[s] <= Len(written[s])
    <3>1. written \in [Streams -> Seq(Lines)] /\ open \in [Streams -> BOOLEAN] /\ read[s] \in Nat
      BY DEF ProcessTypeOK
    <3>2. written[s] \in Seq(Lines) /\ read[s] <= Len(written[s])
      BY <3>1 DEF Writes
    <3>3. written'[s] = Append(written[s], l) /\ \A t \in Streams : t # s => written'[t] = written[t] /\ open'[t] = open[t]
      BY <2>2, <3>1
    <3>4. Len(Append(written[s], l)) = Len(written[s]) + 1 /\ \A m \in DOMAIN written[s] : Append(written[s], l)[m] = written[s][m]
      BY <3>2
    <3> QED BY <3>1, <3>2, <3>3, <3>4
  <2>6. /\ \A t \in Streams, j \in Nat : Chained(t, j)' <=> Chained(t, j)
    <3>1. ASSUME NEW j \in Nat PROVE Chained(s, j)' <=> Chained(s, j)
      BY <2>3, <2>4, <2>5 DEF Chained, Emits
    <3>2. ASSUME NEW t \in Streams, t # s, NEW j \in Nat PROVE Chained(t, j)' <=> Chained(t, j)
      BY <2>3, <2>5, <3>2 DEF Chained, Emits
    <3> QED BY <3>1, <3>2
  <2>7. ASSUME NEW t \in Streams, NEW j \in Nat, Chained(t, j)
        PROVE  j <= Len(written[t]) /\ written[t] \in Seq(Lines) /\ Len(written[t]) \in Nat
  BY <2>7 DEF Chained, ProcessTypeOK, Writes
  <2>8. ASSUME NEW i \in DOMAIN emitted
        PROVE  /\ Chained(emitted[i].stream, emitted[i].at)'
               /\ written'[emitted[i].stream][emitted[i].at] = emitted[i]
    <3>1. emitted[i] \in Lines
      BY DEF ProcessTypeOK
    <3>2. PICK t \in Streams, j \in Nat \ {0} : t = emitted[i].stream /\ j = emitted[i].at
      BY <3>1 DEF Lines
    <3>3. Chained(t, j) /\ written[t][j] = emitted[i]
      BY <3>2 DEF Chain, Chained
    <3>4. j \in DOMAIN written[t]
      BY <2>7, <3>2, <3>3
    <3>5. written'[t][j] = emitted[i]
      BY <2>5, <3>3, <3>4
    <3>6. Chained(t, j)'
      BY <2>6, <3>2, <3>3
    <3> QED BY <2>3, <3>2, <3>5, <3>6
  <2>9. ASSUME ~run.observerError, NEW t \in Streams, NEW j \in DOMAIN written'[t], Chained(t, j)'
        PROVE  written'[t][j] \in Range(emitted)
    <3>1. j \in Nat \ {0} /\ Chained(t, j)
      <4>1. written'[t] \in Seq(Lines \union {l})
        BY <2>2, <2>5
      <4>2. j \in Nat \ {0}
        BY <4>1, <2>9
      <4> QED BY <2>6, <2>9, <4>2
    <3>2. j \in DOMAIN written[t]
      BY <2>7, <3>1
    <3>3. written'[t][j] = written[t][j]
      BY <2>5, <3>2
    <3> QED BY <2>9, <3>1, <3>2, <3>3 DEF Chain, Chained
  <2> QED BY <2>3, <2>8, <2>9 DEF Chain, Chained, InOrder
<1>4. CASE ~\E s \in Streams : Read(s) \/ FinishStream(s) \/ Write(s)
  <2>1. UNCHANGED <<written, open, emitted, read>>
    BY <1>4 DEF ProcessNext, Controller, Spawn, Start, Resume, Abort, ObeyTerm, KillTimer, Exit, End, Edit,
       Close, Observe, Deliver, ObserverFails, Finalize, ReleaseOutput, process, streams, Streams
  <2>2. ended' = ended
    BY <1>4 DEF ProcessNext, Controller, Spawn, Start, Resume, Abort, ObeyTerm, KillTimer, Exit, End, Edit,
       Close, Observe, Deliver, ObserverFails, Finalize, ReleaseOutput, process, streams, Streams
  <2>3. run.observerError => run'.observerError
    BY ErrorStays
  <2>4. \A t \in Streams, k \in Nat : Chained(t, k)' = Chained(t, k)
    BY <2>1, <2>2 DEF Chained, Emits
  <2> QED BY <2>1, <2>3, <2>4, ChainStands
<1> QED BY <1>1, <1>2, <1>3, <1>4

-----------------------------------------------------------------------------
(* The lines in hand, those on record, and those that are left out.        *)

\* A longer chain and a more edited workspace change nothing of it.
LEMMA HandStands ==
  ASSUME ProcessTypeOK, InHand, Recorded, Complete, Noted, UNCHANGED <<task, observer>>,
         Len(emitted') >= Len(emitted), \A i \in DOMAIN emitted : emitted'[i] = emitted[i],
         emitted' \in Seq(Lines), NoneLost' => NoneLost
  PROVE  InHand' /\ Recorded' /\ Complete' /\ Noted'
<1>1. /\ UNCHANGED <<taken, compactor, undelivered, attempt>> /\ Done' = Done
      /\ taken \in Nat /\ Len(undelivered) \in Nat /\ Done \in Int /\ Done <= taken
      /\ \A i \in 1..taken : i \in DOMAIN emitted /\ emitted'[i] = emitted[i]
  BY DEF observer, Done, ProcessTypeOK
<1>2. InHand'
  <2>1. compactor.pending # None => taken \in 1..taken
    BY <1>1 DEF InHand, Done
  <2>2. \A k \in DOMAIN undelivered : taken - Len(undelivered) + k \in 1..taken
    <3>1. Done <= taken - Len(undelivered) /\ Done >= 0
      BY <1>1 DEF InHand, Done
    <3> QED BY <1>1, <3>1 DEF ProcessTypeOK
  <2> QED BY <1>1, <2>1, <2>2 DEF InHand, Thinking
<1>3. Recorded'
  <2>1. \A p \in 1..Done : p \in 1..taken
    BY <1>1
  <2> QED BY <1>1, <2>1 DEF Recorded
<1>4. \A i \in 1..taken : Covered(i) => Covered(i)'
  <2>1. ASSUME NEW i \in 1..taken, Covered(i) PROVE Covered(i)'
    <3>1. PICK j \in i..taken : (Kept(j) \/ j > Done) /\ (i = j \/ \A m \in i..j : Thinking(emitted[m]))
      BY <2>1 DEF Covered
    <3>2. Kept(j) => Kept(j)'
      BY <1>1 DEF Kept
    <3>3. \A m \in i..j : Thinking(emitted[m]) => Thinking(emitted'[m])
      BY <1>1
    <3>4. j \in i..taken' /\ (Kept(j)' \/ j > Done') /\ (i = j \/ \A m \in i..j : Thinking(emitted'[m]))
      BY <1>1, <3>1, <3>2, <3>3
    <3> QED BY <3>4 DEF Covered, Thinking
  <2> QED BY <2>1
<1>5. Complete'
  BY <1>1, <1>4 DEF Complete
<1>6. Noted'
  BY <1>1 DEF Noted, IsFirst
<1> QED BY <1>2, <1>3, <1>5, <1>6

\* What a line that is taken brings: the one that was kept is delivered before
\* it, or not at all, and the new one may be kept in its place.
LEMMA Taking ==
  ASSUME ProcessTypeOK, InHand, Observe, NEW l, l = emitted[taken + 1]
  PROVE  LET kept == compactor.pending  count == IF kept = None THEN 0 ELSE 1
         IN /\ l \in Lines /\ compactor'.retained = compactor.retained /\ compactor'.last = compactor.last
            /\ \/ /\ kept = None /\ undelivered' = <<l>>
                  /\ compactor'.pending = None /\ compactor'.dropped = compactor.dropped
               \/ /\ kept # None /\ ~Thinking(l) /\ undelivered' = <<kept, l>>
                  /\ compactor'.pending = None /\ compactor'.dropped = compactor.dropped
               \/ /\ Thinking(l) /\ compactor.last # None /\ compactor'.dropped = compactor.dropped + count
                  /\ \/ undelivered' = <<l>> /\ compactor'.pending = None
                     \/ undelivered' = <<>> /\ compactor'.pending = l
                        /\ task.adapter = "claude" /\ ~task.probe
<1>1. PICK c : c = compactor
  OBVIOUS
<1>2. c \in CompactorState /\ l \in Lines
  BY <1>1 DEF ProcessTypeOK, CompactorState, Observe
<1>3. CASE ~(task.adapter = "claude" /\ ~task.probe)
  <2>1. undelivered' = <<l>> /\ compactor' = compactor
    BY <1>3 DEF Observe
  <2>2. compactor.pending = None
    BY <1>3 DEF InHand
  <2> QED BY <1>2, <2>1, <2>2
<1>4. CASE task.adapter = "claude" /\ ~task.probe
  <2>1. undelivered' = Compact(c, l).out /\ compactor' = Compact(c, l).next
    BY <1>1, <1>4 DEF Observe
  <2>2. CASE ~Thinking(l)
    <3>1. Compact(c, l).next = [c EXCEPT !.pending = None]
      BY <2>2 DEF Compact
    <3>2. Compact(c, l).out = IF c.pending = None THEN <<l>> ELSE <<c.pending, l>>
      BY <2>2 DEF Compact
    <3>3. compactor'.retained = c.retained /\ compactor'.last = c.last /\ compactor'.pending = None
          /\ compactor'.dropped = c.dropped
      BY <1>2, <2>1, <3>1 DEF CompactorState
    <3> QED BY <1>1, <1>2, <2>1, <2>2, <3>2, <3>3
  <2>3. CASE Thinking(l) /\ c.last = None
    <3>1. Compact(c, l).next = c /\ Compact(c, l).out = <<l>>
      BY <2>3 DEF Compact
    <3>2. c.pending = None
      BY <1>1, <2>3 DEF InHand
    <3> QED BY <1>1, <1>2, <2>1, <3>1, <3>2
  <2>4. CASE Thinking(l) /\ c.last # None
    <3>1. PICK due \in BOOLEAN : due = (l.est - c.last >= Interval \/ c.since + 1 >= Interval)
      OBVIOUS
    <3>2. PICK count : count = IF c.pending = None THEN 0 ELSE 1
      OBVIOUS
    <3>3. PICK since, dropped, keeps : since = c.since + 1 /\ dropped = c.dropped + count
                                         /\ keeps = IF due THEN None ELSE l
      OBVIOUS
    <3>4. Compact(c, l).out = IF due THEN <<l>> ELSE <<>>
      BY <2>4, <3>1 DEF Compact
    <3>5. Compact(c, l).next = [c EXCEPT !.since = since, !.dropped = dropped, !.pending = keeps]
      BY <2>4, <3>1, <3>2, <3>3 DEF Compact
    <3>6. /\ compactor'.retained = c.retained /\ compactor'.last = c.last
          /\ compactor'.pending = keeps /\ compactor'.dropped = dropped
      BY <1>2, <2>1, <3>5 DEF CompactorState
    <3> QED BY <1>1, <1>2, <1>4, <2>1, <2>4, <3>2, <3>3, <3>4, <3>6
  <2> QED BY <2>2, <2>3, <2>4
<1> QED BY <1>3, <1>4

\* A line that is covered stays so when another one is taken.
LEMMA ObserveStep ==
  ASSUME ProcessTypeOK, InHand, Recorded, Complete, Noted, Observe
  PROVE  InHand' /\ Recorded' /\ Complete' /\ Noted'
<1>1. PICK l : l = emitted[taken + 1]
  OBVIOUS
<1>2. PICK kept : kept = compactor.pending
  OBVIOUS
<1>3. PICK count \in {0, 1} : count = IF kept = None THEN 0 ELSE 1
  OBVIOUS
<1>4. /\ l \in Lines /\ compactor'.retained = compactor.retained /\ compactor'.last = compactor.last
      /\ \/ /\ kept = None /\ undelivered' = <<l>>
            /\ compactor'.pending = None /\ compactor'.dropped = compactor.dropped
         \/ /\ kept # None /\ ~Thinking(l) /\ undelivered' = <<kept, l>>
            /\ compactor'.pending = None /\ compactor'.dropped = compactor.dropped
         \/ /\ Thinking(l) /\ compactor.last # None /\ compactor'.dropped = compactor.dropped + count
            /\ \/ undelivered' = <<l>> /\ compactor'.pending = None
               \/ undelivered' = <<>> /\ compactor'.pending = l
                  /\ task.adapter = "claude" /\ ~task.probe
  BY <1>1, <1>2, <1>3, Taking
<1>5. /\ taken < Len(emitted) /\ undelivered = <<>> /\ taken' = taken + 1
      /\ UNCHANGED <<task, emitted, attempt, run, result>>
  BY DEF Observe, process, streams
<1>6. /\ taken \in Nat /\ Len(emitted) \in Nat /\ emitted \in Seq(Lines) /\ None \notin Lines
      /\ compactor.retained \in Nat /\ compactor.dropped \in Nat
  BY RuntimeAssumption DEF ProcessTypeOK
<1>7. Len(<<>>) = 0 /\ Len(<<l>>) = 1 /\ Len(<<kept, l>>) = 2
  OBVIOUS
<1>8. Done = taken - count /\ Done >= 0 /\ (kept # None => kept = emitted[taken] /\ Thinking(emitted[taken]) /\ taken >= 1)
  BY <1>2, <1>3, <1>5, <1>6, <1>7 DEF Done, InHand
\* Either nothing is dropped, or the new line stands for the one that is.
<1>9. \/ Done' = Done /\ compactor'.dropped = compactor.dropped
      \/ Thinking(l) /\ Done' = taken /\ compactor'.dropped = compactor.dropped + count
  <2>1. CASE undelivered' = <<l>> /\ compactor'.pending = None
    <3>1. Done' = taken
      BY <1>5, <1>6, <1>7, <2>1 DEF Done
    <3> QED BY <1>2, <1>3, <1>4, <1>6, <1>7, <1>8, <2>1, <3>1
  <2>2. CASE undelivered' = <<kept, l>> /\ compactor'.pending = None /\ kept # None
    <3>1. Done' = taken - 1
      BY <1>5, <1>6, <1>7, <2>2 DEF Done
    <3> QED BY <1>3, <1>4, <1>6, <1>7, <1>8, <2>2, <3>1
  <2>3. CASE undelivered' = <<>> /\ compactor'.pending = l
    <3>1. Done' = taken
      BY <1>4, <1>5, <1>6, <1>7, <2>3 DEF Done
    <3> QED BY <1>3, <1>4, <1>6, <1>7, <1>8, <2>3, <3>1
  <2> QED BY <1>4, <2>1, <2>2, <2>3
<1>10. InHand'
  <2>1. compactor'.last = None => compactor'.pending = None
    BY <1>4, <1>2 DEF InHand
  <2>2. Done' >= 0
    BY <1>6, <1>8, <1>9
  <2>3. compactor'.pending # None =>
          /\ task'.adapter = "claude" /\ ~task'.probe /\ undelivered' = <<>>
          /\ compactor'.pending = emitted'[taken'] /\ Thinking(emitted'[taken'])
    BY <1>1, <1>4, <1>5
  <2>4. \A k \in DOMAIN undelivered' : undelivered'[k] = emitted'[taken' - Len(undelivered') + k]
    <3>1. CASE undelivered' = <<>>
      BY <3>1
    <3>2. CASE undelivered' = <<l>>
      BY <1>1, <1>5, <1>6, <1>7, <3>2
    <3>3. CASE undelivered' = <<kept, l>> /\ kept # None
      BY <1>1, <1>5, <1>6, <1>7, <1>8, <3>3
    <3> QED BY <1>4, <3>1, <3>2, <3>3
  <2> QED BY <2>1, <2>2, <2>3, <2>4 DEF InHand, Thinking
<1>11. Done' >= Done /\ Done' <= taken /\ Done \in Int /\ Done' \in Int
  BY <1>3, <1>6, <1>8, <1>9
<1>12. Recorded'
  BY <1>5, <1>11 DEF Recorded
<1>13. \A i \in 1..taken' : NoneLost => Covered(i)'
  <2>1. ASSUME NEW i \in 1..taken, NoneLost PROVE Covered(i)'
    <3>1. PICK j \in i..taken : (Kept(j) \/ j > Done) /\ (i = j \/ \A m \in i..j : Thinking(emitted[m]))
      BY <2>1 DEF Complete, Covered
    <3>2. CASE Kept(j) \/ j > Done'
      <4>1. j \in i..taken' /\ (Kept(j)' \/ j > Done') /\ (i = j \/ \A m \in i..j : Thinking(emitted'[m]))
        BY <1>5, <1>6, <3>1, <3>2 DEF Kept
      <4> QED BY <4>1 DEF Covered, Thinking
    \* The line that was kept is dropped: it is the last one, and both think.
    <3>3. CASE ~Kept(j) /\ ~(j > Done')
      <4>1. j > Done /\ Done' # Done
        BY <3>1, <3>3
      <4>2. Thinking(l) /\ Done' = taken /\ j = taken /\ kept # None
        BY <1>3, <1>6, <1>8, <1>9, <3>1, <4>1
      <4>3. taken' \in i..taken' /\ taken' > Done'
        BY <1>5, <1>6, <2>1, <4>2
      <4>4. \A m \in i..taken' : Thinking(emitted'[m])
        <5>1. ASSUME NEW m \in i..taken PROVE Thinking(emitted[m])
          BY <1>8, <3>1, <4>2
        <5>2. \A m \in i..taken' : m \in i..taken \/ m = taken + 1
          BY <1>5, <1>6, <2>1
        <5> QED BY <1>1, <1>5, <4>2, <5>1, <5>2
      <4> QED BY <4>3, <4>4 DEF Covered, Thinking
    <3> QED BY <3>2, <3>3
  <2>2. ASSUME NEW i \in 1..taken', i \notin 1..taken PROVE Covered(i)'
    <3>1. i = taken' /\ i \in i..taken' /\ i > Done'
      BY <1>5, <1>6, <1>11, <2>2
    <3> QED BY <3>1 DEF Covered
  <2>3. \A i \in 1..taken' : i \in 1..taken \/ i \notin 1..taken
    OBVIOUS
  <2> QED BY <2>1, <2>2, <2>3
<1>14. Complete'
  <2>1. NoneLost' = NoneLost
    BY <1>5 DEF NoneLost
  <2>2. compactor.retained + compactor.dropped = Done => compactor'.retained + compactor'.dropped = Done'
    BY <1>3, <1>4, <1>6, <1>8, <1>9
  <2> QED BY <1>13, <2>1, <2>2 DEF Complete
<1>15. Noted'
  BY <1>5 DEF Noted, IsFirst
<1> QED BY <1>10, <1>12, <1>14, <1>15

\* A note of the first of a kind, when a line is put on record.
LEMMA FirstStays ==
  ASSUME NEW lines \in Seq(Lines), NEW l \in Lines, NEW note \in Lines \union {None}, NEW kind,
         IsFirst(lines, note, kind), NEW noted, noted = IF note = None /\ l.kind = kind THEN l ELSE note
  PROVE  IsFirst(Append(lines, l), noted, kind)
<1>1. /\ Len(lines) \in Nat /\ DOMAIN lines = 1..Len(lines) /\ DOMAIN Append(lines, l) = 1..(Len(lines) + 1)
      /\ \A i \in 1..Len(lines) : Append(lines, l)[i] = lines[i]
      /\ Append(lines, l)[Len(lines) + 1] = l
  OBVIOUS
<1>2. None \notin Lines
  BY RuntimeAssumption
<1>3. CASE note # None
  <2>1. PICK i \in DOMAIN lines : lines[i] = note /\ \A j \in 1..(i - 1) : lines[j].kind # kind
    BY <1>3 DEF IsFirst
  <2>2. i \in DOMAIN Append(lines, l) /\ Append(lines, l)[i] = note
        /\ \A j \in 1..(i - 1) : Append(lines, l)[j].kind # kind
    BY <1>1, <2>1
  <2>3. noted = note /\ note.kind = kind
    BY <1>3 DEF IsFirst
  <2> QED BY <1>3, <2>2, <2>3 DEF IsFirst
<1>4. CASE note = None /\ l.kind = kind
  <2>1. \A i \in 1..Len(lines) : lines[i].kind # kind
    BY <1>1, <1>4 DEF IsFirst
  <2>2. /\ Len(lines) + 1 \in DOMAIN Append(lines, l)
        /\ \A j \in 1..(Len(lines) + 1 - 1) : Append(lines, l)[j].kind # kind
    BY <1>1, <2>1
  <2> QED BY <1>1, <1>2, <1>4, <2>2 DEF IsFirst
<1>5. CASE note = None /\ l.kind # kind
  <2>1. \A i \in 1..Len(lines) : lines[i].kind # kind
    BY <1>1, <1>5 DEF IsFirst
  <2>2. \A i \in 1..(Len(lines) + 1) : Append(lines, l)[i].kind # kind
    BY <1>1, <1>5, <2>1
  <2> QED BY <1>1, <1>5, <2>2 DEF IsFirst
<1> QED BY <1>3, <1>4, <1>5

\* A line of the chain is what its process wrote.
LEMMA EmittedIsWritten ==
  ASSUME ProcessTypeOK, Writes, Chain, NEW p \in DOMAIN emitted
  PROVE  LET l == emitted[p]
         IN /\ l \in Lines /\ l.stream \in Streams /\ l.at \in DOMAIN written[l.stream]
            /\ written[l.stream][l.at] = l
            /\ l.kind \in {"tool", "ack"} => l.stream = "stdout"
            /\ l.edited => edited
<1>1. PICK l : l = emitted[p]
  OBVIOUS
<1>2. l \in Lines /\ l.stream \in Streams /\ l.at \in Nat \ {0}
  <2>1. emitted \in Seq(Lines)
    BY DEF ProcessTypeOK
  <2>2. l \in Lines
    BY <1>1, <2>1
  <2> QED BY <2>2 DEF Lines
<1>3. PICK s \in Streams, i \in Nat \ {0} : s = l.stream /\ i = l.at
  BY <1>2
<1>4. i <= read[s] /\ written[s][i] = l
  BY <1>1, <1>3 DEF Chain
<1>5. written[s] \in Seq(Lines) /\ read[s] <= Len(written[s]) /\ read[s] \in Nat
  BY DEF ProcessTypeOK, Writes
<1>6. i \in DOMAIN written[s]
  BY <1>4, <1>5
<1>7. (l.kind \in {"tool", "ack"} => s = "stdout") /\ (l.edited => edited)
  BY <1>4, <1>6 DEF Writes
<1> QED BY <1>1, <1>2, <1>3, <1>4, <1>6, <1>7

\* While lines are in hand there is no result.
LEMMA InHandNoResult ==
  ASSUME ProcessTypeOK, Stages, Answers, undelivered # <<>> \/ (run.closed /\ ~run.over)
  PROVE  result = None
<1>1. child.state # "none"
  BY DEF Stages, Exited, Streams
<1> QED BY <1>1 DEF Answers

LEMMA DeliverStep ==
  ASSUME ProcessTypeOK, Stages, Answers, Writes, Chain, InHand, Recorded, Complete, Noted, Deliver
  PROVE  InHand' /\ Recorded' /\ Complete' /\ Noted'
<1>1. PICK l : l = Head(undelivered)
  OBVIOUS
<1>2. PICK d : d = Done
  OBVIOUS
<1>3. PICK lines : lines = attempt.lines
  OBVIOUS
<1>4. /\ undelivered \in Seq(Lines) /\ undelivered # <<>> /\ Len(undelivered) \in Nat \ {0}
      /\ undelivered' = Tail(undelivered) /\ Len(undelivered') = Len(undelivered) - 1
      /\ l \in Lines /\ l = undelivered[1]
      /\ \A k \in DOMAIN undelivered' : k + 1 \in DOMAIN undelivered /\ undelivered'[k] = undelivered[k + 1]
  BY <1>1 DEF Deliver, ProcessTypeOK
<1>5. /\ taken \in Nat /\ taken <= Len(emitted) /\ emitted \in Seq(Lines) /\ lines \in Seq(Lines)
      /\ compactor.retained \in Nat /\ compactor.dropped \in Nat
      /\ attempt.ack \in Lines \union {None} /\ attempt.tool \in Lines \union {None}
      /\ attempt.unchanged \in BOOLEAN /\ edited \in BOOLEAN /\ Len(emitted) \in Nat
  BY <1>3 DEF ProcessTypeOK
<1>6. UNCHANGED <<task, edited, emitted, taken, run>>
  BY DEF Deliver, process, streams
<1>7. /\ compactor.pending = None /\ compactor'.pending = None /\ compactor'.dropped = compactor.dropped
      /\ compactor'.retained = compactor.retained + 1
  <2>1. compactor.pending = None
    BY <1>4 DEF InHand
  <2>2. compactor \in CompactorState
    BY DEF ProcessTypeOK, CompactorState
  <2>3. compactor' = Delivered(compactor, l)
    BY <1>1 DEF Deliver
  <2>4. PICK c \in CompactorState : c = compactor
    BY <2>2
  <2>5. PICK r \in Nat : r = c.retained + 1
    BY DEF CompactorState
  <2>6. compactor' = [c EXCEPT !.retained = r, !.last = l.est, !.since = 0] \/ compactor' = [c EXCEPT !.retained = r]
    BY <2>3, <2>4, <2>5 DEF Delivered
  <2> QED BY <2>1, <2>4, <2>5, <2>6 DEF CompactorState
<1>8. d = taken - Len(undelivered) /\ Done' = d + 1 /\ d >= 0 /\ d \in Nat /\ d + 1 <= taken
  <2>1. Done = taken - Len(undelivered)
    BY <1>4, <1>5, <1>7 DEF Done
  <2>2. Done' = taken - (Len(undelivered) - 1)
    BY <1>4, <1>5, <1>6, <1>7 DEF Done
  <2>3. Done >= 0
    BY DEF InHand
  <2> QED BY <1>2, <1>4, <1>5, <2>1, <2>2, <2>3
<1>9. d + 1 \in DOMAIN emitted /\ l = emitted[d + 1]
  <2>1. undelivered[1] = emitted[taken - Len(undelivered) + 1]
    BY <1>4 DEF InHand
  <2> QED BY <1>4, <1>5, <1>8, <2>1
<1>10. /\ attempt'.lines = Append(lines, l)
       /\ attempt'.tool = IF attempt.tool = None /\ l.kind = "tool" THEN l ELSE attempt.tool
       /\ attempt'.ack = IF attempt.ack = None /\ l.kind = "ack" THEN l ELSE attempt.ack
       /\ attempt'.unchanged = IF attempt.ack = None /\ l.kind = "ack" THEN ~edited ELSE attempt.unchanged
  <2>1. attempt' = OnOutput(attempt, l)
    BY <1>1 DEF Deliver
  <2>2. PICK a : a = attempt
    OBVIOUS
  <2>3. a \in [lines : Seq(Lines), ack : Lines \union {None}, tool : Lines \union {None}, unchanged : BOOLEAN]
    BY <2>2 DEF ProcessTypeOK
  <2>4. PICK ls, t : /\ ls = Append(lines, l)
                     /\ t = IF a.tool = None /\ l.kind = "tool" THEN l ELSE a.tool
    OBVIOUS
  <2>5. PICK b : b = [a EXCEPT !.lines = ls, !.tool = t]
    OBVIOUS
  <2>6. attempt' = IF l.kind = "ack" /\ a.ack = None THEN [b EXCEPT !.ack = l, !.unchanged = ~edited] ELSE b
    BY <1>3, <2>1, <2>2, <2>4, <2>5 DEF OnOutput
  <2>7. b.lines = ls /\ b.tool = t /\ b.ack = a.ack /\ b.unchanged = a.unchanged
    BY <2>3, <2>5
  <2>8. CASE l.kind = "ack" /\ a.ack = None
    <3>1. attempt' = [b EXCEPT !.ack = l, !.unchanged = ~edited]
      BY <2>6, <2>8
    <3>2. attempt'.lines = ls /\ attempt'.tool = t /\ attempt'.ack = l /\ attempt'.unchanged = ~edited
      BY <2>3, <2>5, <3>1
    <3> QED BY <2>2, <2>4, <2>8, <3>2
  <2>9. CASE ~(l.kind = "ack" /\ a.ack = None)
    <3>1. attempt' = b
      BY <2>6, <2>9
    <3> QED BY <2>2, <2>4, <2>7, <2>9, <3>1
  <2> QED BY <2>8, <2>9
<1>11. /\ DOMAIN lines = 1..Len(lines) /\ Len(lines) \in Nat /\ DOMAIN attempt'.lines = 1..(Len(lines) + 1)
       /\ \A i \in 1..Len(lines) : attempt'.lines[i] = lines[i]
       /\ attempt'.lines[Len(lines) + 1] = l
  BY <1>4, <1>5, <1>10
<1>12. InHand'
  <2>1. ASSUME NEW k \in DOMAIN undelivered'
        PROVE  undelivered'[k] = emitted[taken - Len(undelivered') + k]
    <3>1. undelivered'[k] = undelivered[k + 1] /\ k + 1 \in DOMAIN undelivered /\ k \in Nat
      BY <1>4, <2>1
    <3>2. undelivered[k + 1] = emitted[taken - Len(undelivered) + (k + 1)]
      BY <3>1 DEF InHand
    <3> QED BY <1>4, <1>5, <3>1, <3>2
  <2>2. Done' >= 0
    BY <1>8
  <2> QED BY <1>6, <1>7, <2>1, <2>2 DEF InHand
<1>13. \A i \in DOMAIN lines : \E p \in 1..d : emitted[p] = lines[i]
  BY <1>2, <1>3 DEF Recorded
<1>14. Recorded'
  <2>1. ASSUME NEW i \in DOMAIN attempt'.lines
        PROVE  \E p \in 1..(d + 1) : emitted[p] = attempt'.lines[i]
    <3>1. CASE i = Len(lines) + 1
      BY <1>8, <1>9, <1>11, <3>1
    <3>2. CASE i \in 1..Len(lines)
      <4>1. PICK p \in 1..d : emitted[p] = lines[i]
        BY <1>11, <1>13, <3>2
      <4>2. p \in 1..(d + 1)
        BY <1>8
      <4> QED BY <1>11, <3>2, <4>1, <4>2
    <3> QED BY <1>11, <2>1, <3>1, <3>2
  <2>2. ASSUME NEW i \in DOMAIN attempt'.lines, NEW j \in DOMAIN attempt'.lines,
               i < j, attempt'.lines[i].stream = attempt'.lines[j].stream
        PROVE  attempt'.lines[i].at < attempt'.lines[j].at
    <3>1. i \in 1..Len(lines) /\ (j \in 1..Len(lines) \/ j = Len(lines) + 1)
      BY <1>11, <2>2
    <3>2. CASE j \in 1..Len(lines)
      <4>1. attempt'.lines[i] = lines[i] /\ attempt'.lines[j] = lines[j] /\ InOrder(lines)
        BY <1>3, <1>11, <3>1, <3>2 DEF Recorded
      <4> QED BY <1>11, <2>2, <3>1, <3>2, <4>1 DEF InOrder
    <3>3. CASE j = Len(lines) + 1
      <4>1. PICK p \in 1..d : emitted[p] = lines[i]
        BY <1>11, <1>13, <3>1
      <4>2. p \in DOMAIN emitted /\ p < d + 1
        BY <1>5, <1>8
      <4>3. attempt'.lines[i] = emitted[p] /\ attempt'.lines[j] = emitted[d + 1]
        BY <1>9, <1>11, <3>1, <3>3, <4>1
      <4>4. InOrder(emitted)
        BY DEF Chain
      <4> QED BY <1>9, <2>2, <4>2, <4>3, <4>4 DEF InOrder
    <3> QED BY <3>1, <3>2, <3>3
  <2> QED BY <1>6, <1>8, <2>1, <2>2 DEF Recorded, InOrder
<1>15. \A j : Kept(j) => Kept(j)'
  BY <1>3, <1>6, <1>11 DEF Kept
<1>16. ASSUME NEW j, j = d + 1 PROVE Kept(j)'
  <2>1. Len(lines) + 1 \in DOMAIN attempt'.lines /\ attempt'.lines[Len(lines) + 1] = emitted'[j]
    BY <1>6, <1>9, <1>11, <1>16
  <2> QED BY <2>1 DEF Kept
<1>17. ASSUME NEW i \in 1..taken, Covered(i) PROVE Covered(i)'
  <2>1. PICK j \in i..taken : (Kept(j) \/ j > d) /\ (i = j \/ \A m \in i..j : Thinking(emitted[m]))
    BY <1>2, <1>17 DEF Covered
  <2>2. Kept(j)' \/ j > Done'
    <3>1. CASE Kept(j)
      BY <1>15, <3>1
    <3>2. CASE j > d /\ j # d + 1
      BY <1>8, <2>1, <3>2
    <3>3. CASE j = d + 1
      BY <1>16, <3>3
    <3> QED BY <2>1, <3>1, <3>2, <3>3
  <2>3. j \in i..taken' /\ (i = j \/ \A m \in i..j : Thinking(emitted'[m]))
    BY <1>6, <2>1
  <2> QED BY <2>2, <2>3 DEF Covered, Thinking
<1>18. Complete'
  <2>1. NoneLost' => NoneLost
    BY <1>4, <1>6, InHandNoResult DEF NoneLost
  <2>2. compactor.retained + compactor.dropped = d => compactor'.retained + compactor'.dropped = Done'
    BY <1>5, <1>7, <1>8
  <2> QED BY <1>2, <1>6, <1>17, <2>1, <2>2 DEF Complete
<1>19. Noted'
  <2>1. IsFirst(attempt'.lines, attempt'.ack, "ack") /\ IsFirst(attempt'.lines, attempt'.tool, "tool")
    <3>1. IsFirst(lines, attempt.ack, "ack") /\ IsFirst(lines, attempt.tool, "tool")
      BY <1>3 DEF Noted
    <3>2. IsFirst(Append(lines, l), attempt'.ack, "ack")
      BY <1>4, <1>5, <1>10, <3>1, FirstStays
    <3>3. IsFirst(Append(lines, l), attempt'.tool, "tool")
      BY <1>4, <1>5, <1>10, <3>1, FirstStays
    <3> QED BY <1>10, <3>2, <3>3
  <2>2. task.capsule /\ attempt'.unchanged => attempt'.ack # None /\ ~attempt'.ack.edited
    <3>1. CASE attempt.ack = None /\ l.kind = "ack"
      <4>1. l.edited => edited
        BY <1>9, EmittedIsWritten
      <4>2. l # None
        BY <1>4, RuntimeAssumption
      <4> QED BY <1>10, <3>1, <4>1, <4>2
    <3>2. CASE ~(attempt.ack = None /\ l.kind = "ack")
      BY <1>10, <3>2 DEF Noted
    <3> QED BY <3>1, <3>2
  <2> QED BY <1>6, <2>1, <2>2 DEF Noted, IsFirst
<1> QED BY <1>12, <1>14, <1>18, <1>19

\* An observation that fails leaves its lines: none of them is missed.
LEMMA ObserverFailsStep ==
  ASSUME ProcessTypeOK, Stages, Answers, InHand, Recorded, Complete, Noted, ProcessNext, ObserverFails
  PROVE  InHand' /\ Recorded' /\ Complete' /\ Noted'
<1>1. /\ undelivered # <<>> /\ undelivered' = <<>> /\ compactor'.pending = compactor.pending
      /\ compactor'.last = compactor.last
      /\ UNCHANGED <<task, emitted, taken, attempt>>
  BY DEF ObserverFails, process, streams, ProcessTypeOK
<1>2. compactor.pending = None
  BY <1>1 DEF InHand
<1>3. taken \in Nat /\ Len(undelivered) \in Nat /\ Len(<<>>) = 0 /\ undelivered \in Seq(Lines)
  BY DEF ProcessTypeOK
<1>4. Done' = taken /\ Done <= taken /\ Done \in Int
  BY <1>1, <1>2, <1>3 DEF Done
<1>5. InHand'
  BY <1>1, <1>2, <1>3, <1>4 DEF InHand
<1>6. Recorded'
  BY <1>1, <1>3, <1>4 DEF Recorded
<1>7. ~NoneLost'
  <2>1. CASE run.over
    <3>1. result' = [ProcessResult(run) EXCEPT !.thrown = TRUE]
      BY <2>1 DEF ObserverFails
    <3>2. ProcessResult(run) \in Results
      BY DEF ProcessResult, Results, ProcessTypeOK
    <3>3. result' \in Results /\ result'.thrown
      BY <3>1, <3>2 DEF Results
    <3> QED BY <3>3, RuntimeAssumption DEF NoneLost
  <2>2. CASE ~run.over
    <3>1. run'.observerError
      BY <2>2, ErrorStays
    <3> QED BY <3>1 DEF NoneLost
  <2> QED BY <2>1, <2>2
<1>8. Noted'
  BY <1>1 DEF Noted, IsFirst
<1> QED BY <1>5, <1>6, <1>7, <1>8 DEF Complete

\* The line that the compactor kept is delivered in the end.
LEMMA FinalizeStep ==
  ASSUME ProcessTypeOK, Stages, Answers, InHand, Recorded, Complete, Noted, Finalize
  PROVE  InHand' /\ Recorded' /\ Complete' /\ Noted'
<1>1. result = None
  BY InHandNoResult DEF Finalize
<1>2. run'.observerError = run.observerError
  BY DEF Finalize, ProcessTypeOK
<1>3. NoneLost' => NoneLost
  BY <1>1, <1>2 DEF NoneLost
<1>4. CASE compactor.pending = None
  <2>1. UNCHANGED <<task, observer, emitted>> /\ emitted \in Seq(Lines)
    BY <1>4 DEF Finalize, observer, process, streams, ProcessTypeOK
  <2> QED BY <1>3, <2>1, HandStands
<1>5. CASE compactor.pending # None
  <2>1. PICK kept : kept = compactor.pending
    OBVIOUS
  <2>2. /\ undelivered = <<>> /\ undelivered' = <<kept>> /\ kept # None /\ kept = emitted[taken]
        /\ UNCHANGED <<task, emitted, taken, attempt>>
    BY <1>5, <2>1 DEF Finalize, InHand, process, streams
  <2>3. /\ compactor'.pending = None /\ compactor'.retained = compactor.retained
        /\ compactor'.dropped = compactor.dropped
    BY <1>5 DEF Finalize, ProcessTypeOK
  <2>4. taken \in Nat /\ Len(<<>>) = 0 /\ Len(<<kept>>) = 1
    BY DEF ProcessTypeOK
  <2>5. Done = taken - 1 /\ Done' = taken - 1
    BY <1>5, <2>2, <2>3, <2>4 DEF Done
  <2>6. InHand'
    <3>1. \A k \in DOMAIN undelivered' : undelivered'[k] = emitted'[taken' - Len(undelivered') + k]
      BY <2>2, <2>4
    <3> QED BY <2>3, <2>5, <3>1 DEF InHand
  <2>7. Recorded'
    BY <2>2, <2>5 DEF Recorded
  <2>8. \A i : Covered(i) => Covered(i)'
    <3>1. \A j : Kept(j)' = Kept(j)
      BY <2>2 DEF Kept
    <3> QED BY <2>2, <2>5, <3>1 DEF Covered, Thinking
  <2>9. Complete'
    BY <1>3, <2>2, <2>3, <2>5, <2>8 DEF Complete
  <2>10. Noted'
    BY <2>2 DEF Noted, IsFirst
  <2> QED BY <2>6, <2>7, <2>9, <2>10
<1> QED BY <1>4, <1>5

\* The chain only grows.
LEMMA ChainOnlyGrows ==
  ASSUME ProcessTypeOK, Writes, ProcessNext
  PROVE  /\ emitted' \in Seq(Lines) /\ Len(emitted') >= Len(emitted)
         /\ \A i \in DOMAIN emitted : emitted'[i] = emitted[i]
<1>1. emitted \in Seq(Lines)
  BY DEF ProcessTypeOK
<1>2. ASSUME NEW ls \in Seq(Lines), Emit(ls)
      PROVE  /\ emitted' \in Seq(Lines) /\ Len(emitted') >= Len(emitted)
             /\ \A i \in DOMAIN emitted : emitted'[i] = emitted[i]
  <2>1. emitted' = emitted \/ emitted' = emitted \o ls
    BY <1>2 DEF Emit
  <2>2. /\ emitted \o ls \in Seq(Lines) /\ Len(emitted \o ls) = Len(emitted) + Len(ls)
        /\ \A i \in DOMAIN emitted : (emitted \o ls)[i] = emitted[i]
    BY <1>1
  <2>3. Len(emitted) \in Nat /\ Len(ls) \in Nat
    BY <1>1
  <2>4. CASE emitted' = emitted
    BY <1>1, <2>3, <2>4
  <2>5. CASE emitted' = emitted \o ls
    BY <2>2, <2>3, <2>5
  <2> QED BY <2>1, <2>4, <2>5
<1>3. ASSUME NEW s \in Streams, Read(s)
      PROVE  \E ls \in Seq(Lines) : Emit(ls)
  <2>1. written[s] \in Seq(Lines) /\ read[s] \in Nat /\ read[s] < Len(written[s])
    BY <1>3 DEF Read, ProcessTypeOK
  <2>2. <<>> \in Seq(Lines) /\ <<written[s][read[s] + 1]>> \in Seq(Lines)
    BY <2>1
  <2>3. Emit(<<>>) \/ Emit(<<written[s][read[s] + 1]>>)
    BY <1>3 DEF Read
  <2> QED BY <2>2, <2>3
<1>4. ASSUME NEW s \in Streams, FinishStream(s)
      PROVE  \E ls \in Seq(Lines) : Emit(ls)
  <2>1. CASE open[s]
    <3>1. written[s] \in Seq(Lines) /\ Len(written[s]) >= 1
      BY <2>1 DEF ProcessTypeOK, Writes
    <3>2. <<Last(written[s])>> \in Seq(Lines)
      BY <3>1 DEF Last
    <3> QED BY <1>4, <2>1, <3>2 DEF FinishStream
  <2>2. CASE ~open[s]
    <3>1. <<>> \in Seq(Lines)
      OBVIOUS
    <3> QED BY <1>4, <2>2, <3>1 DEF FinishStream
  <2> QED BY <2>1, <2>2
<1>5. CASE \E s \in Streams : Read(s) \/ FinishStream(s)
  BY <1>2, <1>3, <1>4, <1>5
<1>6. CASE ~\E s \in Streams : Read(s) \/ FinishStream(s)
  <2>1. emitted' = emitted
    BY <1>6 DEF ProcessNext, Controller, Spawn, Start, Resume, Abort, ObeyTerm, KillTimer, Exit, End, Edit,
       Close, Observe, Deliver, ObserverFails, Finalize, ReleaseOutput, Write, process, streams, Streams
  <2> QED BY <1>1, <2>1
<1> QED BY <1>5, <1>6

LEMMA HandStays ==
  ASSUME ProcessInv, ProcessNext
  PROVE  InHand' /\ Recorded' /\ Complete' /\ Noted'
<1> USE DEF ProcessInv
<1>1. CASE Observe
  BY <1>1, ObserveStep
<1>2. CASE Deliver
  BY <1>2, DeliverStep
<1>3. CASE ObserverFails
  BY <1>3, ObserverFailsStep
<1>4. CASE Finalize
  BY <1>4, FinalizeStep
<1>5. CASE ~(Observe \/ Deliver \/ ObserverFails \/ Finalize)
  <2>1. UNCHANGED <<task, observer>>
    BY <1>5 DEF ProcessNext, Controller, Spawn, Start, Resume, Abort, ObeyTerm, KillTimer, Exit, End, Edit,
       Close, ReleaseOutput, Write, Read, FinishStream, process, observer, Streams
  <2>2. result' = result \/ result = None
    BY <1>5 DEF ProcessNext, Controller, Spawn, Start, Resume, Abort, ObeyTerm, KillTimer, Exit, End, Edit,
       Close, ReleaseOutput, Write, Read, FinishStream, Streams
  <2>3. run'.observerError = run.observerError
    BY <1>5, ErrorStays
  <2>4. NoneLost' => NoneLost
    BY <2>2, <2>3 DEF NoneLost
  <2> QED BY <2>1, <2>4, ChainOnlyGrows, HandStands
<1> QED BY <1>1, <1>2, <1>3, <1>4, <1>5

LEMMA ProcessInvInit == ProcessInit => ProcessInv
<1> SUFFICES ASSUME ProcessInit PROVE ProcessInv
  OBVIOUS
<1>1. ProcessTypeOK
  <2>1. task \in Tasks /\ signal \in BOOLEAN
    BY DEF ProcessInit
  <2>2. task.capsule \in BOOLEAN
    BY <2>1, RuntimeAssumption
  <2>3. written \in [Streams -> Seq(Lines)] /\ emitted \in Seq(Lines) /\ undelivered \in Seq(Lines)
        /\ attempt.lines \in Seq(Lines) /\ Len(emitted) = 0
    BY DEF ProcessInit
  <2>4. attempt = [lines |-> <<>>, ack |-> None, tool |-> None, unchanged |-> ~task.capsule]
    BY DEF ProcessInit
  <2>5. attempt \in [lines : Seq(Lines), ack : Lines \union {None}, tool : Lines \union {None}, unchanged : BOOLEAN]
    BY <2>3, <2>4
  <2>6. /\ written \in [Streams -> Seq(Lines)] /\ read \in [Streams -> Nat]
        /\ open \in [Streams -> BOOLEAN] /\ ended \in [Streams -> BOOLEAN]
        /\ taken \in 0..Len(emitted) /\ held \in BOOLEAN /\ edited \in BOOLEAN
    <3>1. /\ written = [s \in Streams |-> <<>>] /\ read = [s \in Streams |-> 0]
          /\ open = [s \in Streams |-> FALSE] /\ ended = [s \in Streams |-> FALSE]
          /\ taken = 0 /\ held = FALSE /\ edited = FALSE
      BY DEF ProcessInit
    <3>2. written \in [Streams -> Seq(Lines)]
      BY <2>3
    <3>3. read \in [Streams -> Nat] /\ open \in [Streams -> BOOLEAN] /\ ended \in [Streams -> BOOLEAN]
      BY <3>1
    <3>4. taken \in 0..Len(emitted)
      BY <2>3, <3>1
    <3> QED BY <3>1, <3>2, <3>3, <3>4
  <2>7. /\ child \in [state : {"none", "running", "exited"}, exit : {None, "zero", "failed"}]
        /\ run \in RunState /\ compactor \in CompactorState /\ result = None
    BY DEF ProcessInit, RunState, CompactorState
  <2> QED BY <2>1, <2>3, <2>5, <2>6, <2>7 DEF ProcessTypeOK, RunState, CompactorState
<1>2. Stages /\ Answers
  BY DEF ProcessInit, Stages, Answers
<1>3. Writes /\ Chain
  BY DEF ProcessInit, Writes, Chain, InOrder
<1>4. InHand /\ Recorded /\ Complete
  <2>1. Done = 0
    <3>1. taken = 0 /\ Len(undelivered) = 0 /\ compactor.pending = None
      BY DEF ProcessInit
    <3>2. PICK n : n = Len(undelivered)
      OBVIOUS
    <3>3. Done = taken - n - 0
      BY <3>1, <3>2 DEF Done
    <3> QED BY <3>1, <3>2, <3>3
  <2> QED BY <2>1 DEF ProcessInit, InHand, Recorded, Complete, InOrder
<1>5. Noted
  <2>1. attempt = [lines |-> <<>>, ack |-> None, tool |-> None, unchanged |-> ~task.capsule]
    BY DEF ProcessInit
  <2>2. attempt.lines = <<>> /\ attempt.ack = None /\ attempt.tool = None /\ attempt.unchanged = ~task.capsule
    BY <2>1
  <2>3. DOMAIN attempt.lines = {}
    BY <2>2
  <2> QED BY <2>2, <2>3 DEF Noted, IsFirst
<1> QED BY <1>1, <1>2, <1>3, <1>4, <1>5 DEF ProcessInv

THEOREM ProcessInvariant == ProcessSpec => []ProcessInv
<1>1. ProcessInv /\ [ProcessNext]_processVars => ProcessInv'
  <2> SUFFICES ASSUME ProcessInv, [ProcessNext]_processVars PROVE ProcessInv'
    OBVIOUS
  <2>1. CASE ProcessNext
    BY <2>1, TypesStay, StagesStay, AnswersStay, WritesStay, ChainStay, HandStays DEF ProcessInv
  <2>2. CASE UNCHANGED processVars
    <3>1. /\ UNCHANGED <<task, signal, child, held, edited, written, open, read, ended, emitted>>
          /\ UNCHANGED <<taken, compactor, undelivered, attempt, run, result>>
      BY <2>2 DEF processVars, process, streams, observer
    <3>2. (ProcessTypeOK /\ Stages /\ Answers /\ Writes)'
      BY <3>1 DEF ProcessInv, ProcessTypeOK, Stages, Answers, Writes, Exited, ProcessResult
    <3>3. Chain'
      BY <3>1 DEF ProcessInv, Chain, Emits, InOrder
    <3>4. (InHand /\ Recorded /\ Complete /\ Noted)'
      <4>1. NoneLost' = NoneLost /\ emitted \in Seq(Lines)
        BY <3>1 DEF NoneLost, ProcessInv, ProcessTypeOK
      <4> QED BY <3>1, <4>1, HandStands DEF ProcessInv, observer
    <3> QED BY <3>2, <3>3, <3>4 DEF ProcessInv
  <2> QED BY <2>1, <2>2
<1> QED BY <1>1, ProcessInvInit, PTL DEF ProcessSpec

\* What a run that succeeded is.
LEMMA Succeeded ==
  ASSUME ProcessInv, ProcessSucceeded
  PROVE  /\ run.over /\ run.closed /\ undelivered = <<>> /\ compactor.pending = None /\ taken = Len(emitted)
         /\ NoneLost /\ Done = taken /\ taken \in Nat /\ DOMAIN emitted = 1..taken
         /\ ~run.observerError /\ run.start \notin {"none", "failed"} /\ run.pid
<1>1. /\ run.over /\ undelivered = <<>>
      /\ result = [ProcessResult(run) EXCEPT !.thrown = result.thrown]
  BY DEF ProcessSucceeded, ProcessInv, Answers
<1>2. run \in RunState /\ emitted \in Seq(Lines) /\ taken \in Nat /\ DOMAIN emitted = 1..Len(emitted)
  BY DEF ProcessInv, ProcessTypeOK, RunState
<1>3. ~run.spawnError /\ ~run.observerError /\ run.start # "failed"
  <2>1. /\ result.spawnError = run.spawnError /\ result.observerError = run.observerError
        /\ result.startError = (run.start = "failed")
    BY <1>1 DEF ProcessResult
  <2> QED BY <2>1 DEF ProcessSucceeded
<1>4. run.closed /\ run.start # "none" /\ taken = Len(emitted) /\ compactor.pending = None
  BY <1>1 DEF ProcessInv, Stages
<1>5. child.state # "none"
  BY <1>4 DEF ProcessInv, Stages
<1>6. run.pid
  BY <1>3, <1>5 DEF ProcessInv, Stages
<1>7. Done = taken
  BY <1>1, <1>2, <1>4 DEF Done
<1> QED BY <1>1, <1>2, <1>3, <1>4, <1>6, <1>7 DEF NoneLost, ProcessSucceeded

\* Every line that was written was observed.
LEMMA EveryLine ==
  ASSUME ProcessInv, ProcessSucceeded, NEW s \in Streams
  PROVE  Range(written[s]) = {l \in Range(emitted) : l.stream = s}
<1>1. ended[s] /\ read[s] = Len(written[s]) /\ written[s] \in Seq(Lines) /\ ~run.observerError
  BY Succeeded DEF ProcessInv, ProcessTypeOK, Stages
<1>2. ASSUME NEW l \in Range(written[s])
      PROVE  l \in Range(emitted) /\ l.stream = s
  <2>1. PICK k \in DOMAIN written[s] : written[s][k] = l
    BY DEF Range
  <2>2. k <= read[s] /\ k <= Emits(s)
    BY <1>1 DEF Emits
  <2> QED BY <1>1, <2>1, <2>2 DEF ProcessInv, Chain, Writes
<1>3. ASSUME NEW l \in Range(emitted), l.stream = s
      PROVE  l \in Range(written[s])
  <2>1. PICK p \in DOMAIN emitted : emitted[p] = l
    BY DEF Range
  <2>2. l.at \in DOMAIN written[l.stream] /\ written[l.stream][l.at] = l
    BY <2>1, EmittedIsWritten DEF ProcessInv
  <2> QED BY <1>3, <2>2 DEF Range
<1> QED BY <1>2, <1>3

\* Every line but a thinking-token line is on record.
LEMMA OnRecord ==
  ASSUME ProcessInv, ProcessSucceeded, NEW i \in DOMAIN emitted
  PROVE  Kept(i) \/ \E j \in DOMAIN emitted : j > i /\ Kept(j) /\ \A m \in i..j : Thinking(emitted[m])
<1>1. i \in 1..taken /\ NoneLost /\ Done = taken /\ taken \in Nat /\ DOMAIN emitted = 1..taken
  BY Succeeded
<1>2. Covered(i)
  BY <1>1 DEF ProcessInv, Complete
<1>3. PICK j \in i..taken : (Kept(j) \/ j > Done) /\ (i = j \/ \A m \in i..j : Thinking(emitted[m]))
  BY <1>2 DEF Covered
<1>4. Kept(j) /\ j \in DOMAIN emitted
  BY <1>1, <1>3
<1>5. CASE i = j
  BY <1>4, <1>5
<1>6. CASE i # j
  BY <1>1, <1>3, <1>4, <1>6
<1> QED BY <1>5, <1>6

LEMMA InvImpliesResults == ProcessInv => ResultsHold
<1> SUFFICES ASSUME ProcessInv PROVE ResultsHold
  OBVIOUS
<1>1. SuccessIsComplete
  <2> SUFFICES ASSUME ProcessSucceeded
               PROVE  /\ ~task.probe => run.start = "recorded"
                      /\ InOrder(emitted) /\ InOrder(attempt.lines)
                      /\ Range(attempt.lines) \subseteq Range(emitted)
                      /\ taken = compactor.retained + compactor.dropped
    BY EveryLine, OnRecord DEF SuccessIsComplete
  <2>1. ~task.probe => run.start = "recorded"
    <3>1. run.start \in {"none", "recorded", "settled", "failed"}
      BY DEF ProcessInv, ProcessTypeOK
    <3> QED BY <3>1, Succeeded DEF ProcessInv, Stages
  <2>2. Range(attempt.lines) \subseteq Range(emitted)
    <3>1. ASSUME NEW i \in DOMAIN attempt.lines PROVE attempt.lines[i] \in Range(emitted)
      <4>1. PICK p \in 1..Done : emitted[p] = attempt.lines[i]
        BY DEF ProcessInv, Recorded
      <4> QED BY <4>1, Succeeded DEF Range
    <3> QED BY <3>1 DEF Range
  <2>3. taken = compactor.retained + compactor.dropped
    BY Succeeded DEF ProcessInv, Complete
  <2> QED BY <2>1, <2>2, <2>3 DEF ProcessInv, Chain, Recorded
<1>2. ResultIsTheEnd
  <2>1. ASSUME result # None PROVE ~Running /\ ~held
    <3>1. child.state = "none" \/ run.over
      BY <2>1 DEF ProcessInv, Answers
    <3> QED BY <3>1 DEF ProcessInv, Stages, Running, Exited, Streams
  <2> QED BY <2>1 DEF ResultIsTheEnd
<1> QED BY <1>1, <1>2 DEF ResultsHold

THEOREM RunsAreComplete == ProcessSpec => []ResultsHold
BY ProcessInvariant, InvImpliesResults, PTL

\* A line on record is what was written on its stream at its place.
LEMMA RecordedIsWritten ==
  ASSUME ProcessInv, NEW l, NEW i \in DOMAIN attempt.lines, attempt.lines[i] = l, l.kind \in {"tool", "ack"}
  PROVE  /\ l.stream = "stdout" /\ l.at \in Nat \ {0} /\ l.at \in DOMAIN written["stdout"]
         /\ written["stdout"][l.at] = l
<1>1. PICK p \in 1..Done : emitted[p] = l
  BY DEF ProcessInv, Recorded
<1>2. p \in DOMAIN emitted
  <2>1. /\ Done <= taken /\ Done \in Int /\ taken <= Len(emitted) /\ taken \in Nat
        /\ emitted \in Seq(Lines)
    BY DEF ProcessInv, ProcessTypeOK, Done
  <2> QED BY <2>1
<1>3. l \in Lines /\ l.stream = "stdout" /\ l.at \in DOMAIN written["stdout"] /\ written["stdout"][l.at] = l
  BY <1>1, <1>2, EmittedIsWritten DEF ProcessInv
<1> QED BY <1>3 DEF Lines

LEMMA InvImpliesHandoff == ProcessInv => HandoffIsAcknowledged
<1> SUFFICES ASSUME ProcessInv, task.capsule, AttemptSucceeded
             PROVE  \E i \in DOMAIN written["stdout"] :
                      LET l == written["stdout"][i] IN
                      /\ l.kind = "ack"
                      /\ \A j \in 1..i : written["stdout"][j].kind # "tool"
                      /\ (\A j \in DOMAIN written["stdout"] : written["stdout"][j].kind # "tool") => ~l.edited
  BY DEF HandoffIsAcknowledged
<1>1. ProcessSucceeded /\ OrderingAccepted(attempt)
  BY DEF AttemptSucceeded
<1>2. PICK ack : ack = attempt.ack
  OBVIOUS
<1>3. PICK request : request = attempt.tool
  OBVIOUS
<1>4. PICK lines : lines = attempt.lines
  OBVIOUS
<1>5. /\ ack # None /\ (request # None => ack.stream = request.stream /\ ack.at < request.at)
      /\ request = None => ~ack.edited
  BY <1>1, <1>2, <1>3 DEF OrderingAccepted, ProcessInv, Noted
<1>6. IsFirst(lines, ack, "ack") /\ IsFirst(lines, request, "tool")
  BY <1>2, <1>3, <1>4 DEF ProcessInv, Noted
<1>7. PICK a \in DOMAIN lines : lines[a] = ack /\ ack.kind = "ack"
  BY <1>5, <1>6 DEF IsFirst
<1>8. ack.at \in Nat \ {0} /\ ack.at \in DOMAIN written["stdout"] /\ written["stdout"][ack.at] = ack
  BY <1>4, <1>7, RecordedIsWritten
\* A request of a tool is on record, and the first of them is noted.
<1>9. ASSUME NEW j \in DOMAIN written["stdout"], written["stdout"][j].kind = "tool"
      PROVE  request # None /\ ack.at < j
  <2>1. PICK t : t = written["stdout"][j]
    OBVIOUS
  <2>2. t.stream = "stdout" /\ t.at = j /\ t.kind = "tool"
    BY <1>9, <2>1 DEF ProcessInv, Writes, Streams
  <2>3. t \in Range(written["stdout"]) /\ "stdout" \in Streams
    BY <2>1 DEF Range, Streams
  <2>4. t \in Range(emitted)
    BY <1>1, <2>3, EveryLine
  <2>5. PICK m \in DOMAIN emitted : emitted[m] = t
    BY <2>4 DEF Range
  <2>6. ~Thinking(t) /\ m \in Nat
    BY <1>1, <2>2, Succeeded DEF Thinking
  <2>7. Kept(m)
    <3>1. ASSUME NEW n \in DOMAIN emitted, n > m, \A k \in m..n : Thinking(emitted[k]) PROVE FALSE
      <4>1. m \in m..n
        BY <1>1, <3>1, Succeeded
      <4> QED BY <2>5, <2>6, <3>1, <4>1
    <3> QED BY <1>1, <3>1, OnRecord
  <2>8. PICK q \in DOMAIN lines : lines[q] = t
    BY <1>4, <2>5, <2>7 DEF Kept
  <2>9. request # None
    BY <1>6, <2>2, <2>8 DEF IsFirst
  <2>10. PICK f \in DOMAIN lines : /\ lines[f] = request /\ request.kind = "tool"
                                   /\ \A k \in 1..(f - 1) : lines[k].kind # "tool"
    BY <1>6, <2>9 DEF IsFirst
  <2>11. request.stream = "stdout" /\ request.at \in Nat
    BY <1>4, <2>10, RecordedIsWritten
  <2>12. j \in Nat
    BY DEF ProcessInv, ProcessTypeOK, Streams
  <2>13. request.at <= j
    <3>1. lines \in Seq(Lines) /\ DOMAIN lines = 1..Len(lines) /\ InOrder(lines)
      BY <1>4 DEF ProcessInv, ProcessTypeOK, Recorded
    <3>2. q \notin 1..(f - 1)
      BY <2>2, <2>8, <2>10
    <3>3. q = f \/ f < q
      BY <3>1, <3>2
    <3>4. CASE q = f
      BY <2>2, <2>8, <2>10, <2>11, <2>12, <3>4
    <3>5. CASE f < q
      <4>1. request.at < t.at
        BY <2>2, <2>8, <2>10, <2>11, <3>1, <3>5 DEF InOrder
      <4> QED BY <2>2, <2>11, <2>12, <4>1
    <3> QED BY <3>3, <3>4, <3>5
  <2> QED BY <1>5, <1>8, <2>9, <2>11, <2>13, <2>12
<1>10. \A j \in 1..ack.at : j \in DOMAIN written["stdout"]
  <2>1. written["stdout"] \in Seq(Lines)
    BY DEF ProcessInv, ProcessTypeOK, Streams
  <2> QED BY <1>8, <2>1
<1>11. \A j \in 1..ack.at : written["stdout"][j].kind # "tool"
  BY <1>8, <1>9, <1>10
<1>12. (\A j \in DOMAIN written["stdout"] : written["stdout"][j].kind # "tool") => ~ack.edited
  <2>1. CASE request = None
    BY <1>5, <2>1
  <2>2. CASE request # None
    <3>1. PICK f \in DOMAIN lines : lines[f] = request /\ request.kind = "tool"
      BY <1>6, <2>2 DEF IsFirst
    <3>2. request.at \in DOMAIN written["stdout"] /\ written["stdout"][request.at] = request
      BY <1>4, <3>1, RecordedIsWritten
    <3> QED BY <3>1, <3>2
  <2> QED BY <2>1, <2>2
<1> QED BY <1>7, <1>8, <1>11, <1>12

THEOREM HandoffsAreAcknowledged == ProcessSpec => []HandoffIsAcknowledged
BY ProcessInvariant, InvImpliesHandoff, PTL
=============================================================================
