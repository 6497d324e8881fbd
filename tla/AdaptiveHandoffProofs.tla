------------------------ MODULE AdaptiveHandoffProofs ------------------------
(***************************************************************************)
(* Which stage is next, what its Runtime is handed and that a command ends *)
(* are right for every plan, every number of controllers and every order   *)
(* of the Profiles' ids.                                                   *)
(*                                                                         *)
(* IInv is the type invariant and where a place lies in the plan.  The     *)
(* holder of the lease needs more (HolderCarries): an Effect changes under *)
(* a lease of its own only, so that from the frontier's composite to the   *)
(* prompt the Effects stay what the composite says of them.  That a        *)
(* capsule names what was done needs that the log is true of the targets   *)
(* (EffectsAreTrue), and of the Attempts once they are finished, which all *)
(* are when a stage is prepared (HolderFinds).  For the decision, the fold *)
(* over the recorded overrides is shown to be the last one set if nothing  *)
(* after it clears it, and the ranking of the planner to have a first      *)
(* candidate among the eligible ones.                                      *)
(***************************************************************************)
EXTENDS AdaptiveHandoff, FiniteSetTheorems, WellFoundedInduction, TLAPS

\* Where a place is in the plan.
Placed(place) ==
  /\ place.step \in {"recover", "close", "execute"} => place.index = 0
  /\ place.step \in {"stage", "prepare", "start", "prompt", "running", "finish"} =>
       place.index \in Stages
  /\ place.step \in {"detect", "compose", "decide"} =>
       place.index >= 1 /\ place.source \in Stages
  /\ place.step = "save" =>
       \/ place.source = 0 /\ place.index = 0
       \/ place.source \in Stages /\ place.index >= 1
PlacesHold == \A c \in Controllers : Placed(at[c])

\* The places of all controllers, with the type invariant.  The type invariant alone
\* does not bound the stage that a controller is at.
IInv == TypeOK /\ PlacesHold

\* A set of numbers that is not empty has a least one.
LEMMA LeastMember ==
  ASSUME NEW S \in SUBSET Nat, S # {}
  PROVE  \E m \in S : \A n \in S : m <= n
<1> DEFINE R == OpToRel(<, Nat)
<1>1. IsWellFoundedOn(R, Nat)
  BY NatLessThanWellFounded
<1>2. ASSUME NEW x \in Nat, NEW y \in Nat, x < y PROVE <<x, y>> \in R
  BY <1>2 DEF OpToRel
<1> HIDE DEF R
<1>3. PICK m \in S : \A n \in S : ~(<<n, m>> \in R)
  BY <1>1, WFMin
<1>4. \A n \in S : ~(n < m)
  BY <1>2, <1>3
<1> QED
  BY <1>4

\* The constants, as the proofs use them.
LEMMA PlanFacts ==
  /\ Stages = 1..Len(Plan) /\ Len(Plan) \in Nat \ {0}
  /\ MaxAttempts \in Nat /\ MaxOverrides \in Nat /\ MaxEdits \in Nat /\ CapsuleSize \in Nat
BY HandoffAssumption DEF Stages

LEMMA InitHolds == Init => IInv
<1> SUFFICES ASSUME Init PROVE IInv
  OBVIOUS
<1>1. TypeOK
  BY PlanFacts DEF Init, TypeOK, Idle, At, Place, Steps, EffectStatuses, Statuses
<1>2. PlacesHold
  BY DEF Init, PlacesHold, Placed, Idle, At
<1> QED
  BY <1>1, <1>2 DEF IInv

\* A number from 1 to the plan's length is a stage of it.
LEMMA StagesOfPlan == ASSUME NEW s \in Nat, s # 0, s <= Len(Plan) PROVE s \in Stages
BY PlanFacts

\* nextStageIndex: a stage of the plan or the one past its last.
LEMMA NextStageInPlan == NextStage \in 1..(Len(Plan) + 1)
<1>1. CASE \A s \in Stages : Progressed(s)
  BY <1>1, PlanFacts DEF NextStage
<1>2. CASE \E s \in Stages : ~Progressed(s)
  <2> DEFINE S == {s \in Stages : ~Progressed(s)}
  <2>1. S \in SUBSET Nat /\ S # {}
    BY <1>2, PlanFacts
  <2>2. PICK m \in S : \A n \in S : m <= n
    BY <2>1, LeastMember
  <2>3. m \in Stages /\ ~Progressed(m) /\ \A t \in 1..(m - 1) : Progressed(t)
    BY <2>2, PlanFacts
  <2>4. NextStage \in Stages
    BY <1>2, <2>3 DEF NextStage
  <2> QED
    BY <2>4, PlanFacts
<1> QED
  BY <1>1, <1>2

\* The frontier is the last checkpointed Attempt, 0 when there is none.
LEMMA FrontierIsCheckpoint ==
  ASSUME attempts \in Seq(Attempt)
  PROVE  /\ Frontier \in 0..Len(attempts)
         /\ Frontier = 0 <=> Checkpointed = {}
         /\ Frontier # 0 => Frontier \in Checkpointed
<1>1. CASE Checkpointed = {}
  BY <1>1 DEF Frontier
<1>2. CASE Checkpointed # {}
  <2> DEFINE S == {n \in 0..Len(attempts) : \A b \in Checkpointed : b <= n}
  <2>1. S \in SUBSET Nat /\ Len(attempts) \in S
    BY DEF Checkpointed
  <2>2. PICK m \in S : \A n \in S : m <= n
    BY <2>1, LeastMember
  <2>3. m \in Checkpointed
    <3>1. SUFFICES ASSUME m \notin Checkpointed PROVE FALSE
      OBVIOUS
    <3>2. m # 0
      BY <1>2, <2>2 DEF Checkpointed
    <3>3. m - 1 \in S
      BY <2>2, <3>1, <3>2 DEF Checkpointed
    <3> QED
      BY <2>2, <3>3, <3>2
  <2>4. Frontier \in Checkpointed
    BY <1>2, <2>2, <2>3 DEF Frontier
  <2> QED
    BY <1>2, <2>4 DEF Checkpointed
<1> QED
  BY <1>1, <1>2

-----------------------------------------------------------------------------
(* The override in force *)

\* In closed form, the override after the first n events: the last that was set, if it
\* was not cleared since.
SetUpTo(n) == {i \in 1..n : overrides[i].kind = "set"}
ActiveUpTo(n) ==
  IF SetUpTo(n) = {} THEN None
  ELSE LET j == CHOOSE j \in SetUpTo(n) : \A i \in SetUpTo(n) : i <= j
       IN IF \E k \in (j + 1)..n : overrides[k].id = overrides[j].id THEN None
          ELSE overrides[j]

\* Among the overrides set there is a last one.
LEMMA LastSet ==
  ASSUME overrides \in Seq(Override), NEW n \in 0..Len(overrides), SetUpTo(n) # {}
  PROVE  \E j \in SetUpTo(n) : \A i \in SetUpTo(n) : i <= j
<1> DEFINE S == {m \in 0..n : \A b \in SetUpTo(n) : b <= m}
<1>1. S \in SUBSET Nat /\ n \in S
  BY DEF SetUpTo
<1>2. PICK m \in S : \A k \in S : m <= k
  BY <1>1, LeastMember
<1>3. SUFFICES ASSUME m \notin SetUpTo(n) PROVE FALSE
  BY <1>2
<1>4. m # 0
  BY <1>2 DEF SetUpTo
<1>5. m - 1 \in S
  BY <1>2, <1>3, <1>4 DEF SetUpTo
<1> QED
  BY <1>2, <1>5, <1>4

\* One event more: a set override is in force, a clear ends the one it names.
LEMMA ActiveStep ==
  ASSUME overrides \in Seq(Override), NEW n \in 1..Len(overrides)
  PROVE  ActiveUpTo(n) =
           IF overrides[n].kind = "set" THEN overrides[n]
           ELSE IF ActiveUpTo(n - 1) # None /\ ActiveUpTo(n - 1).id = overrides[n].id THEN None
           ELSE ActiveUpTo(n - 1)
<1>1. /\ n \in Nat /\ n - 1 \in 0..Len(overrides) /\ overrides[n] \in Override
      /\ \A i \in 1..Len(overrides) : overrides[i] \in Override /\ overrides[i] # None
  BY HandoffAssumption
<1>2. CASE overrides[n].kind = "set"
  <2>1. n \in SetUpTo(n) /\ \A i \in SetUpTo(n) : i <= n
    BY <1>1, <1>2 DEF SetUpTo
  <2> DEFINE J == CHOOSE j \in SetUpTo(n) : \A i \in SetUpTo(n) : i <= j
  <2>2. J = n
    <3>1. J \in SetUpTo(n) /\ \A i \in SetUpTo(n) : i <= J
      BY <2>1
    <3> QED
      BY <2>1, <3>1 DEF SetUpTo
  <2>3. ActiveUpTo(n) = IF \E k \in (J + 1)..n : overrides[k].id = overrides[J].id THEN None
                        ELSE overrides[J]
    BY <2>1 DEF ActiveUpTo
  <2> HIDE DEF J
  <2> QED
    BY <1>1, <1>2, <2>2, <2>3
<1>3. CASE overrides[n].kind # "set"
  <2>1. SetUpTo(n) = SetUpTo(n - 1)
    BY <1>1, <1>3 DEF SetUpTo
  <2>2. CASE SetUpTo(n) = {}
    BY <1>3, <2>1, <2>2 DEF ActiveUpTo
  <2>3. CASE SetUpTo(n) # {}
    <3> DEFINE J == CHOOSE j \in SetUpTo(n) : \A i \in SetUpTo(n) : i <= j
    <3>1. J \in SetUpTo(n)
      BY <2>3, LastSet
    <3>2. ActiveUpTo(n) = IF \E k \in (J + 1)..n : overrides[k].id = overrides[J].id THEN None
                          ELSE overrides[J]
      BY <2>3 DEF ActiveUpTo
    <3>3. ActiveUpTo(n - 1) =
            IF \E k \in (J + 1)..(n - 1) : overrides[k].id = overrides[J].id THEN None
            ELSE overrides[J]
      BY <2>1, <2>3 DEF ActiveUpTo
    <3> HIDE DEF J
    <3>4. J \in 1..(n - 1) /\ overrides[J] # None
      BY <1>1, <2>1, <3>1 DEF SetUpTo
    <3>5. (\E k \in (J + 1)..n : overrides[k].id = overrides[J].id) <=>
            \/ \E k \in (J + 1)..(n - 1) : overrides[k].id = overrides[J].id
            \/ overrides[n].id = overrides[J].id
      BY <1>1, <3>4
    <3> QED
      BY <1>3, <3>2, <3>3, <3>4, <3>5
  <2> QED
    BY <2>2, <2>3
<1> QED
  BY <1>2, <1>3

\* The fold of activeStageOverride comes to the closed form.
LEMMA ActiveIsLast ==
  ASSUME overrides \in Seq(Override)
  PROVE  ActiveOverride = ActiveUpTo(Len(overrides))
<1> DEFINE
      L == Len(overrides)
      Rule(g, i) == IF i = 0 THEN None
                    ELSE IF overrides[i].kind = "set" THEN overrides[i]
                    ELSE IF g[i - 1] # None /\ g[i - 1].id = overrides[i].id THEN None
                    ELSE g[i - 1]
      G == [i \in 0..L |-> ActiveUpTo(i)]
      F == CHOOSE g : g = [i \in 0..L |-> Rule(g, i)]
<1>0. L \in Nat
  OBVIOUS
<1>1. G = [i \in 0..L |-> Rule(G, i)]
  <2>1. ActiveUpTo(0) = None
    BY DEF ActiveUpTo, SetUpTo
  <2>2. ASSUME NEW i \in 1..L PROVE ActiveUpTo(i) = Rule(G, i)
    BY <1>0, ActiveStep
  <2> QED
    BY <1>0, <2>1, <2>2
<1>2. F = [i \in 0..L |-> Rule(F, i)]
  <2> HIDE DEF G, Rule
  <2> QED
    BY <1>1
<1> HIDE DEF F
<1>3. \A i \in 0..L : F[i] = G[i]
  <2> DEFINE S == {i \in 0..L : F[i] # G[i]}
  <2>1. SUFFICES ASSUME S # {} PROVE FALSE
    OBVIOUS
  <2>2. PICK m \in S : \A k \in S : m <= k
    <3>1. S \in SUBSET Nat
      OBVIOUS
    <3> HIDE DEF S
    <3> QED
      BY <2>1, <3>1, LeastMember
  <2>3. m # 0
    BY <1>0, <1>1, <1>2, <2>2
  <2>4. F[m - 1] = G[m - 1]
    BY <1>0, <2>2, <2>3
  <2>5. F[m] = Rule(F, m) /\ G[m] = Rule(G, m)
    BY <1>1, <1>2
  <2> HIDE DEF G
  <2> QED
    BY <2>2, <2>3, <2>4, <2>5
<1>4. ActiveOverride = F[L]
  BY DEF ActiveOverride, F
<1> QED
  BY <1>0, <1>3, <1>4

-----------------------------------------------------------------------------
(* The type invariant *)

\* A controller that goes to a place of the plan.
LEMMA Moves ==
  ASSUME TypeOK, PlacesHold, NEW c \in Controllers, NEW place \in Place, Placed(place),
         Go(c, place)
  PROVE  at' \in [Controllers -> Place] /\ PlacesHold'
<1>1. at' \in [Controllers -> Place]
  BY DEF Go, TypeOK
<1>2. ASSUME NEW d \in Controllers PROVE Placed(at'[d])
  <2>1. at'[d] = IF d = c THEN place ELSE at[d]
    BY DEF Go, TypeOK
  <2> QED
    BY <2>1 DEF PlacesHold
<1> QED
  BY <1>1, <1>2 DEF PlacesHold, Placed

\* Places of a command that name no stage.
LEMMA EasyPlaces ==
  ASSUME NEW step \in {"idle", "recover", "close", "execute", "verify", "wait"}
  PROVE  At(step, 0, 0, {}) \in Place /\ Placed(At(step, 0, 0, {}))
BY PlanFacts DEF At, Place, Placed, Steps

\* Places at a stage.
LEMMA StagePlaces ==
  ASSUME NEW s \in Stages, NEW step \in {"stage", "prepare", "start", "prompt", "running", "finish"}
  PROVE  At(step, s, 0, {}) \in Place /\ Placed(At(step, s, 0, {}))
BY PlanFacts DEF At, Place, Placed, Steps

\* Places on the way from one stage to the next.
LEMMA NextPlaces ==
  ASSUME NEW s \in Stages, NEW i \in 1..(Len(Plan) + 1), NEW step \in {"detect", "save"}
  PROVE  At(step, i, s, {}) \in Place /\ Placed(At(step, i, s, {}))
BY PlanFacts DEF At, Place, Placed, Steps

\* A controller that throws loses its place and its lease, and nothing else changes.
LEMMA Throws ==
  ASSUME TypeOK, PlacesHold, NEW c \in Controllers, Throw(c),
         UNCHANGED <<workspace, clearing, remote>>
  PROVE  TypeOK' /\ PlacesHold'
<1>1. Idle \in Place /\ Placed(Idle)
  BY EasyPlaces DEF Idle
<1>2. at' \in [Controllers -> Place] /\ PlacesHold'
  BY <1>1, Moves DEF Throw
<1>3. lease' \in Controllers \cup Effects \cup {None}
  BY DEF Throw, Release, TypeOK
<1> QED
  BY <1>2, <1>3 DEF TypeOK, Throw, log, remote

\* One Attempt is changed, in what it is known to be.
LEMMA AttemptChanged ==
  ASSUME attempts \in Seq(Attempt), Len(attempts) <= MaxAttempts, NEW a \in Int, NEW r,
         a \in DOMAIN attempts => r \in Attempt, attempts' = [attempts EXCEPT ![a] = r]
  PROVE  attempts' \in Seq(Attempt) /\ Len(attempts') <= MaxAttempts
<1>1. attempts \in [1..Len(attempts) -> Attempt] /\ Len(attempts) \in Nat
  OBVIOUS
<1>2. attempts' \in [1..Len(attempts) -> Attempt]
  BY <1>1
<1>3. attempts' \in Seq(Attempt) /\ Len(attempts') = Len(attempts)
  BY <1>1, <1>2
<1> QED
  BY <1>3

\* What a capsule can carry.
LEMMA DoneTyped ==
  ASSUME TypeOK
  PROVE  Carried \in SUBSET (Effects \cup 1..MaxAttempts)
<1>1. Len(attempts) \in Nat /\ Len(attempts) <= MaxAttempts /\ DOMAIN attempts = 1..Len(attempts)
  BY DEF TypeOK
<1> QED
  BY <1>1, PlanFacts DEF Carried, Done

\* There are finitely many overrides set.
LEMMA FewSet ==
  ASSUME TypeOK
  PROVE  IsFiniteSet(Set) /\ Cardinality(Set) \in Nat
<1>1. IsFiniteSet(1..Len(overrides))
  BY FS_Interval DEF TypeOK
<1>2. Set \subseteq 1..Len(overrides)
  BY DEF Set, TypeOK
<1> QED
  BY <1>1, <1>2, FS_Subset, FS_CardinalityType

\* What is in force is a recorded override or nothing.
LEMMA OverrideTyped ==
  ASSUME TypeOK
  PROVE  ActiveOverride \in Override \cup {None}
<1>1. overrides \in Seq(Override) /\ Len(overrides) \in 0..Len(overrides)
  BY DEF TypeOK
<1>2. CASE SetUpTo(Len(overrides)) = {}
  BY <1>1, <1>2, ActiveIsLast DEF ActiveUpTo
<1>3. CASE SetUpTo(Len(overrides)) # {}
  <2> DEFINE n == Len(overrides)
             J == CHOOSE j \in SetUpTo(n) : \A i \in SetUpTo(n) : i <= j
  <2>1. J \in SetUpTo(n)
    BY <1>1, <1>3, LastSet
  <2>2. ActiveUpTo(n) \in {None, overrides[J]}
    BY <1>3 DEF ActiveUpTo
  <2>3. overrides[J] \in Override
    BY <1>1, <2>1 DEF SetUpTo
  <2> QED
    BY <1>1, <2>2, <2>3, ActiveIsLast
<1> QED
  BY <1>2, <1>3

\* An Effect that is not in the log has none of the statuses.
LEMMA StatusIsNoName ==
  None \notin {"intended", "dispatch_started", "executed", "confirmed", "failed", "ambiguous"}
BY HandoffAssumption

\* A request that coordinates an Effect changes that Effect's status under its own
\* lease, and nothing that a controller does.
LEMMA CoordinationStep ==
  ASSUME TypeOK, NEW e \in Effects, Coordination(e)
  PROVE  /\ UNCHANGED <<attempts, overrides, status, workspace, at, clearing>>
         /\ lease \in {e, None} /\ lease' \in {e, None}
         /\ effects' \in [Effects -> EffectStatuses]
         /\ request' \in {"none", "read", "sent", "accepted", "over"}
         /\ applied' \subseteq Effects
<1> USE DEF log, TypeOK, Coordinating
<1>1. CASE \E now \in EffectStatuses, step \in {"read", "sent", "accepted", "over"} :
             Coordinating(e, request) /\ Record(e, now, step)
  BY <1>1 DEF Record
<1>2. CASE RecordIntended(e) \/ RecordDispatch(e) \/ Reconcile(e) \/ RecordAnswer(e)
           \/ RecordConfirmed(e)
  BY <1>1, <1>2 DEF RecordIntended, RecordDispatch, Reconcile, RecordAnswer, RecordConfirmed,
     EffectStatuses
<1>3. CASE BeginCoordination(e) \/ TargetApplies(e) \/ EndCoordination(e)
  BY <1>3 DEF BeginCoordination, TargetApplies, EndCoordination
<1> QED
  BY <1>2, <1>3 DEF Coordination

\* Each step keeps the type invariant and the places.
LEMMA TypeHolds == IInv /\ [Next]_vars => IInv'
<1> SUFFICES ASSUME TypeOK, PlacesHold, [Next]_vars PROVE TypeOK' /\ PlacesHold'
  BY DEF IInv
<1> USE DEF log, remote
<1>0. /\ attempts \in Seq(Attempt) /\ Len(attempts) <= MaxAttempts /\ Len(attempts) \in Nat
      /\ \A a \in DOMAIN attempts : attempts[a] \in Attempt
      /\ workspace \in 0..MaxEdits
      /\ \A c \in Controllers : at[c] \in Place /\ Placed(at[c])
  BY DEF TypeOK, PlacesHold
<1>1. ASSUME NEW c \in Controllers, Resume(c) PROVE TypeOK' /\ PlacesHold'
  <2>1. at' \in [Controllers -> Place] /\ PlacesHold'
    BY <1>1, EasyPlaces, Moves DEF Resume
  <2> QED
    BY <1>1, <2>1 DEF Resume, TypeOK
<1>2. ASSUME NEW c \in Controllers, Crash(c) PROVE TypeOK' /\ PlacesHold'
  BY <1>2, Throws DEF Crash
<1>3. ASSUME NEW c \in Controllers, Recover(c) PROVE TypeOK' /\ PlacesHold'
  <2>1. CASE Throw(c)
    BY <1>3, <2>1, Throws DEF Recover
  <2>2. CASE ~Throw(c) /\ UNCHANGED <<log, lease>>
    <3>1. Go(c, At("execute", 0, 0, {})) \/ Go(c, At("close", 0, 0, {}))
      BY <1>3, <2>2 DEF Recover
    <3>2. at' \in [Controllers -> Place] /\ PlacesHold'
      BY <3>1, EasyPlaces, Moves
    <3> QED
      BY <1>3, <2>2, <3>2 DEF Recover, TypeOK
  <2>3. CASE ~Throw(c) /\ ~UNCHANGED <<log, lease>>
    <3>1. PICK a \in Open :
            /\ attempts' = [attempts EXCEPT
                  ![a].after = workspace,
                  ![a].check = IF /\ workspace # attempts[a].before
                                  /\ Plan[attempts[a].stage].onFailure = "handoff"
                               THEN "handed_off" ELSE "failed"]
            /\ Go(c, At("close", 0, 0, {}))
            /\ UNCHANGED <<effects, overrides, status, lease>>
      BY <1>3, <2>3 DEF Recover
    <3>2. at' \in [Controllers -> Place] /\ PlacesHold'
      BY <3>1, EasyPlaces, Moves
    <3>3. a \in DOMAIN attempts /\ attempts[a] \in Attempt
      BY <1>0, <3>1 DEF Open
    <3>4. PICK k \in {"handed_off", "failed"} :
            attempts' = [attempts EXCEPT ![a] = [attempts[a] EXCEPT !.after = workspace, !.check = k]]
      BY <3>1
    <3>5. [attempts[a] EXCEPT !.after = workspace, !.check = k] \in Attempt
      BY <1>0, <3>3 DEF Attempt
    <3>6. attempts' \in Seq(Attempt) /\ Len(attempts') <= MaxAttempts
      BY <1>0, <3>3, <3>4, <3>5, AttemptChanged
    <3> QED
      BY <1>3, <3>1, <3>2, <3>6 DEF Recover, TypeOK
  <2> QED
    BY <2>1, <2>2, <2>3
<1>4. ASSUME NEW c \in Controllers, Close(c) PROVE TypeOK' /\ PlacesHold'
  <2>1. PICK a \in Open :
       /\ attempts' = [attempts EXCEPT
            ![a].finished = TRUE,
            ![a].effect = CASE attempts[a].effect # "intended" -> attempts[a].effect
                            [] Changed(a) -> "confirmed"
                            [] OTHER -> "failed"]
       /\ Go(c, At(IF attempts[a].check = "handed_off" THEN "save" ELSE "execute", 0, 0, {}))
    BY <1>4 DEF Close
  <2>2. at' \in [Controllers -> Place] /\ PlacesHold'
    <3>1. CASE attempts[a].check = "handed_off"
      <4>1. At("save", 0, 0, {}) \in Place /\ Placed(At("save", 0, 0, {}))
        BY PlanFacts DEF At, Place, Placed, Steps
      <4> QED
        BY <2>1, <3>1, <4>1, Moves
    <3>2. CASE attempts[a].check # "handed_off"
      BY <2>1, <3>2, EasyPlaces, Moves
    <3> QED
      BY <3>1, <3>2
  <2>3. a \in DOMAIN attempts /\ attempts[a] \in Attempt
    BY <1>0, <2>1 DEF Open
  <2>4. PICK e : e = CASE attempts[a].effect # "intended" -> attempts[a].effect
                       [] Changed(a) -> "confirmed"
                       [] OTHER -> "failed"
    OBVIOUS
  <2>5. e \in {"intended", "confirmed", "failed", "skipped"}
    BY <2>3, <2>4 DEF Attempt
  <2>6. attempts' = [attempts EXCEPT ![a] = [attempts[a] EXCEPT !.finished = TRUE, !.effect = e]]
    <3>1. attempts' = [attempts EXCEPT ![a].finished = TRUE, ![a].effect = e]
      BY <2>1, <2>4, Zenon
    <3> QED
      BY <3>1
  <2>7. [attempts[a] EXCEPT !.finished = TRUE, !.effect = e] \in Attempt
    BY <2>3, <2>5 DEF Attempt
  <2>8. attempts' \in Seq(Attempt) /\ Len(attempts') <= MaxAttempts
    BY <1>0, <2>3, <2>6, <2>7, AttemptChanged
  <2> QED
    BY <1>4, <2>2, <2>8 DEF Close, TypeOK
<1>5. ASSUME NEW c \in Controllers, Execute(c) PROVE TypeOK' /\ PlacesHold'
  <2>1. PICK n \in 1..(Len(Plan) + 1) : n = NextStage
    BY NextStageInPlan
  <2>2. lease' \in Controllers \cup Effects \cup {None}
    BY <1>5 DEF Execute, Release, TypeOK
  <2>3. at' \in [Controllers -> Place] /\ PlacesHold'
    <3>1. CASE Go(c, Idle)
      BY <3>1, EasyPlaces, Moves DEF Idle
    <3>2. CASE Go(c, At("verify", 0, 0, {}))
      BY <3>2, EasyPlaces, Moves
    <3>3. CASE /\ Frontier # 0
               /\ Go(c, At("detect", n, attempts[Frontier].stage, {}))
      <4>1. attempts[Frontier].stage \in Stages
        BY <1>0, <3>3, FrontierIsCheckpoint DEF Attempt
      <4> QED
        BY <3>3, <4>1, NextPlaces, Moves
    <3>4. CASE /\ n <= Len(Plan)
               /\ Go(c, At("stage", n, 0, {}))
      <4>1. n \in Stages
        BY <3>4, PlanFacts
      <4> QED
        BY <3>4, <4>1, StagePlaces, Moves
    <3>5. \/ Go(c, Idle) \/ Go(c, At("verify", 0, 0, {}))
          \/ Frontier # 0 /\ Go(c, At("detect", n, attempts[Frontier].stage, {}))
          \/ n <= Len(Plan) /\ Go(c, At("stage", n, 0, {}))
      BY <1>5, <2>1, PlanFacts DEF Execute
    <3> QED
      BY <3>1, <3>2, <3>3, <3>4, <3>5
  <2> QED
    BY <1>5, <2>2, <2>3 DEF Execute, TypeOK
<1>6. ASSUME NEW c \in Controllers, Stage(c) PROVE TypeOK' /\ PlacesHold'
  <2>1. at[c].index \in Stages
    BY <1>0, <1>6 DEF Stage, Placed
  <2>2. at' \in [Controllers -> Place] /\ PlacesHold'
    <3>1. CASE Go(c, At("prepare", at[c].index, 0, {}))
      BY <2>1, <3>1, StagePlaces, Moves
    <3>2. CASE Go(c, At("detect", at[c].index + 1, at[c].index, {}))
      <4>1. at[c].index + 1 \in 1..(Len(Plan) + 1)
        BY <2>1, PlanFacts
      <4> QED
        BY <2>1, <3>2, <4>1, NextPlaces, Moves
    <3>3. CASE Go(c, At("wait", 0, 0, {}))
      BY <3>3, EasyPlaces, Moves
    <3> QED
      BY <1>6, <3>1, <3>2, <3>3 DEF Stage
  <2> QED
    BY <1>6, <2>2 DEF Stage, TypeOK
<1>7. ASSUME NEW c \in Controllers, Prepare(c) PROVE TypeOK' /\ PlacesHold'
  <2>1. at[c].index \in Stages
    BY <1>0, <1>7 DEF Prepare, Placed
  <2>2. at' \in [Controllers -> Place] /\ PlacesHold'
    <3>1. CASE Go(c, At("wait", 0, 0, {}))
      BY <3>1, EasyPlaces, Moves
    <3>2. CASE Go(c, At("start", at[c].index, 0, {}))
      BY <2>1, <3>2, StagePlaces, Moves
    <3> QED
      BY <1>7, <3>1, <3>2 DEF Prepare
  <2>3. attempts' \in Seq(Attempt) /\ Len(attempts') <= MaxAttempts
    <3>1. CASE UNCHANGED attempts
      BY <1>0, <3>1
    <3>2. CASE ~UNCHANGED attempts
      <4> DEFINE r == [stage |-> at[c].index, started |-> FALSE, before |-> workspace,
                       capsule |-> Carried, alive |-> FALSE, check |-> "none",
                       after |-> workspace, effect |-> "intended", finished |-> FALSE,
                       composite |-> None]
      <4>1. r \in Attempt
        BY <1>0, <2>1, DoneTyped DEF Attempt
      <4>2. attempts' = Append(attempts, r) /\ Len(attempts) < MaxAttempts
        BY <1>7, <3>2 DEF Prepare
      <4> HIDE DEF r
      <4> QED
        BY <1>0, <4>1, <4>2, PlanFacts
    <3> QED
      BY <3>1, <3>2
  <2> QED
    BY <1>7, <2>2, <2>3 DEF Prepare, TypeOK
<1>8. ASSUME NEW c \in Controllers, Start(c) PROVE TypeOK' /\ PlacesHold'
  <2>1. at[c].index \in Stages /\ Newest \in Int
    BY <1>0, <1>8 DEF Start, Placed, Newest
  <2>2. at' \in [Controllers -> Place] /\ PlacesHold'
    BY <1>8, <2>1, StagePlaces, Moves DEF Start
  <2>3. attempts' = [attempts EXCEPT ![Newest] = [attempts[Newest] EXCEPT !.started = TRUE]]
    BY <1>8 DEF Start
  <2>4. Newest \in DOMAIN attempts => [attempts[Newest] EXCEPT !.started = TRUE] \in Attempt
    BY <1>0 DEF Attempt
  <2>5. attempts' \in Seq(Attempt) /\ Len(attempts') <= MaxAttempts
    BY <1>0, <2>1, <2>3, <2>4, AttemptChanged
  <2> QED
    BY <1>8, <2>2, <2>5 DEF Start, TypeOK, Statuses
<1>9. ASSUME NEW c \in Controllers, Prompt(c) PROVE TypeOK' /\ PlacesHold'
  <2>1. CASE Throw(c)
    BY <1>9, <2>1, Throws DEF Prompt
  <2>2. CASE ~Throw(c)
    <3>1. at[c].index \in Stages /\ Newest \in Int
      BY <1>0, <1>9 DEF Prompt, Placed, Newest
    <3>2. at' \in [Controllers -> Place] /\ PlacesHold'
      BY <1>9, <2>2, <3>1, StagePlaces, Moves DEF Prompt
    <3>3. attempts' = [attempts EXCEPT ![Newest] = [attempts[Newest] EXCEPT !.alive = TRUE]]
      BY <1>9, <2>2 DEF Prompt
    <3>4. Newest \in DOMAIN attempts => [attempts[Newest] EXCEPT !.alive = TRUE] \in Attempt
      BY <1>0 DEF Attempt
    <3>5. attempts' \in Seq(Attempt) /\ Len(attempts') <= MaxAttempts
      BY <1>0, <3>1, <3>3, <3>4, AttemptChanged
    <3> QED
      BY <1>9, <2>2, <3>2, <3>5 DEF Prompt, TypeOK
  <2> QED
    BY <2>1, <2>2
<1>10. ASSUME NEW c \in Controllers, Checkpoint(c) PROVE TypeOK' /\ PlacesHold'
  <2>1. at[c].index \in Stages /\ Newest \in Int
    BY <1>0, <1>10 DEF Checkpoint, Placed, Newest
  <2>2. at' \in [Controllers -> Place] /\ PlacesHold'
    BY <1>10, <2>1, StagePlaces, Moves DEF Checkpoint
  <2>3. PICK ok \in BOOLEAN, aborted \in BOOLEAN :
          attempts' = [attempts EXCEPT
            ![Newest].after = workspace,
            ![Newest].check =
              CASE ok -> "succeeded"
                [] ~ok /\ ~aborted /\ Plan[at[c].index].onFailure = "handoff"
                   /\ workspace # attempts[Newest].before -> "handed_off"
                [] OTHER -> "failed"]
    BY <1>10 DEF Checkpoint
  <2>4. PICK k : k = CASE ok -> "succeeded"
                [] ~ok /\ ~aborted /\ Plan[at[c].index].onFailure = "handoff"
                   /\ workspace # attempts[Newest].before -> "handed_off"
                [] OTHER -> "failed"
    OBVIOUS
  <2>5. k \in {"succeeded", "handed_off", "failed"}
    BY <2>4
  <2>6. attempts' = [attempts EXCEPT ![Newest] =
                       [attempts[Newest] EXCEPT !.after = workspace, !.check = k]]
    BY <2>3, <2>4
  <2>7. Newest \in DOMAIN attempts =>
          [attempts[Newest] EXCEPT !.after = workspace, !.check = k] \in Attempt
    BY <1>0, <2>5 DEF Attempt
  <2>8. attempts' \in Seq(Attempt) /\ Len(attempts') <= MaxAttempts
    BY <1>0, <2>1, <2>6, <2>7, AttemptChanged
  <2> QED
    BY <1>10, <2>2, <2>8 DEF Checkpoint, TypeOK
<1>11. ASSUME NEW c \in Controllers, Finish(c) PROVE TypeOK' /\ PlacesHold'
  <2>1. at[c].index \in Stages /\ Newest \in Int
    BY <1>0, <1>11 DEF Finish, Placed, Newest
  <2>2. at' \in [Controllers -> Place] /\ PlacesHold'
    <3>1. CASE Go(c, At("verify", 0, 0, {})) \/ Go(c, At("wait", 0, 0, {}))
      BY <3>1, EasyPlaces, Moves
    <3>2. CASE Go(c, At("save", at[c].index + 1, at[c].index, {}))
      <4>1. at[c].index + 1 \in 1..(Len(Plan) + 1)
        BY <2>1, PlanFacts
      <4> QED
        BY <2>1, <3>2, <4>1, NextPlaces, Moves
    <3>3. \/ Go(c, At("verify", 0, 0, {})) \/ Go(c, At("wait", 0, 0, {}))
          \/ Go(c, At("save", at[c].index + 1, at[c].index, {}))
      BY <1>11 DEF Finish
    <3> QED
      BY <3>1, <3>2, <3>3
  <2>3. PICK e : e = CASE Changed(Newest) -> "confirmed"
                       [] ~Changed(Newest) /\ attempts[Newest].check = "succeeded" -> "skipped"
                       [] OTHER -> "failed"
    OBVIOUS
  <2>4. e \in {"confirmed", "skipped", "failed"}
    BY <2>3
  <2>5. attempts' = [attempts EXCEPT ![Newest] =
                       [attempts[Newest] EXCEPT !.finished = TRUE, !.effect = e]]
    BY <1>11, <2>3 DEF Finish
  <2>6. Newest \in DOMAIN attempts =>
          [attempts[Newest] EXCEPT !.finished = TRUE, !.effect = e] \in Attempt
    BY <1>0, <2>4 DEF Attempt
  <2>7. attempts' \in Seq(Attempt) /\ Len(attempts') <= MaxAttempts
    BY <1>0, <2>1, <2>5, <2>6, AttemptChanged
  <2> QED
    BY <1>11, <2>2, <2>7 DEF Finish, TypeOK
<1>12. ASSUME NEW c \in Controllers, Save(c) PROVE TypeOK' /\ PlacesHold'
  <2>1. CASE Throw(c)
    BY <1>12, <2>1, Throws DEF Save
  <2>2. CASE ~Throw(c)
    <3>1. PICK work :
            /\ attempts[Frontier].started /\ work = attempts[Frontier].after
            /\ Persist(Frontier, work)
            /\ Go(c, IF at[c].source # 0 THEN [at[c] EXCEPT !.step = "detect"]
                     ELSE At("execute", 0, 0, {}))
            /\ UNCHANGED <<effects, overrides, status, lease>>
      BY <1>12, <2>2 DEF Save
    <3>2. at' \in [Controllers -> Place] /\ PlacesHold'
      <4>1. CASE at[c].source # 0
        <5>1. [at[c] EXCEPT !.step = "detect"] \in Place /\ Placed([at[c] EXCEPT !.step = "detect"])
          BY <1>0, <1>12, <4>1 DEF Save, Placed, Place, Steps
        <5> QED
          BY <3>1, <4>1, <5>1, Moves
      <4>2. CASE at[c].source = 0
        BY <3>1, <4>2, EasyPlaces, Moves
      <4> QED
        BY <4>1, <4>2
    <3>3. Frontier \in Int
      BY <1>0, FrontierIsCheckpoint
    <3>4. attempts' = [attempts EXCEPT ![Frontier] =
            [attempts[Frontier] EXCEPT !.composite = [work |-> work, effects |-> effects]]]
      BY <3>1 DEF Persist
    <3>5. Frontier \in DOMAIN attempts =>
            [attempts[Frontier] EXCEPT !.composite = [work |-> work, effects |-> effects]] \in Attempt
      <4>1. Frontier \in DOMAIN attempts => work \in 0..MaxEdits
        BY <1>0, <3>1 DEF Attempt
      <4>2. Frontier \in DOMAIN attempts => [work |-> work, effects |-> effects] \in Composite
        BY <4>1 DEF Composite, TypeOK
      <4> QED
        BY <1>0, <4>2 DEF Attempt
    <3>6. attempts' \in Seq(Attempt) /\ Len(attempts') <= MaxAttempts
      BY <1>0, <3>3, <3>4, <3>5, AttemptChanged
    <3> QED
      BY <1>12, <3>1, <3>2, <3>6 DEF Save, TypeOK
  <2> QED
    BY <2>1, <2>2
<1>13. ASSUME NEW c \in Controllers, Detect(c) PROVE TypeOK' /\ PlacesHold'
  <2>1. PICK listed \in SUBSET {s \in Stages : s >= at[c].index} :
          Go(c, [at[c] EXCEPT !.step = "compose", !.listed = listed])
    BY <1>13 DEF Detect
  <2>2. /\ [at[c] EXCEPT !.step = "compose", !.listed = listed] \in Place
        /\ Placed([at[c] EXCEPT !.step = "compose", !.listed = listed])
    BY <1>0, <1>13 DEF Detect, Placed, Place, Steps
  <2>3. at' \in [Controllers -> Place] /\ PlacesHold'
    BY <2>1, <2>2, Moves
  <2> QED
    BY <1>13, <2>3 DEF Detect, TypeOK
<1>14. ASSUME NEW c \in Controllers, Compose(c) PROVE TypeOK' /\ PlacesHold'
  <2>1. CASE Throw(c)
    BY <1>14, <2>1, Throws DEF Compose
  <2>2. CASE ~Throw(c)
    <3>1. /\ Persist(Frontier, workspace) \/ UNCHANGED attempts
          /\ Go(c, [at[c] EXCEPT !.step = "decide"])
          /\ UNCHANGED <<effects, overrides, status, lease>>
      BY <1>14, <2>2 DEF Compose
    <3>2. at' \in [Controllers -> Place] /\ PlacesHold'
      <4>1. [at[c] EXCEPT !.step = "decide"] \in Place /\ Placed([at[c] EXCEPT !.step = "decide"])
        BY <1>0, <1>14 DEF Compose, Placed, Place, Steps
      <4> QED
        BY <3>1, <4>1, Moves
    <3>3. Frontier \in Int
      BY <1>0, FrontierIsCheckpoint
    <3>4. attempts' \in Seq(Attempt) /\ Len(attempts') <= MaxAttempts
      <4>1. CASE UNCHANGED attempts
        BY <1>0, <4>1
      <4>2. CASE Persist(Frontier, workspace)
        <5>1. attempts' = [attempts EXCEPT ![Frontier] =
                [attempts[Frontier] EXCEPT !.composite = [work |-> workspace, effects |-> effects]]]
          BY <4>2 DEF Persist
        <5>2. Frontier \in DOMAIN attempts =>
                [attempts[Frontier] EXCEPT !.composite = [work |-> workspace, effects |-> effects]]
                  \in Attempt
          BY <1>0 DEF Attempt, Composite, TypeOK
        <5> QED
          BY <1>0, <3>3, <5>1, <5>2, AttemptChanged
      <4> QED
        BY <3>1, <4>1, <4>2
    <3> QED
      BY <1>14, <3>1, <3>2, <3>4 DEF Compose, TypeOK
  <2> QED
    BY <2>1, <2>2
<1>15. ASSUME NEW c \in Controllers, Decide(c) PROVE TypeOK' /\ PlacesHold'
  <2>1. CASE Go(c, At("wait", 0, 0, {}))
    <3>1. at' \in [Controllers -> Place] /\ PlacesHold'
      BY <2>1, EasyPlaces, Moves
    <3> QED
      BY <1>15, <3>1 DEF Decide, TypeOK
  <2>2. CASE ~Go(c, At("wait", 0, 0, {}))
    <3>1. PICK ids \in Orders :
            \E d \in PlannerInput(at[c].index, at[c].source, at[c].listed, ids).candidates :
               Go(c, At("prepare", d.stage, 0, {}))
      BY <1>15, <2>2 DEF Decide
    <3>2. PICK s \in Stages : Go(c, At("prepare", s, 0, {}))
      BY <3>1 DEF PlannerInput, Candidate
    <3>3. at' \in [Controllers -> Place] /\ PlacesHold'
      BY <3>2, StagePlaces, Moves
    <3> QED
      BY <1>15, <3>3 DEF Decide, TypeOK
  <2> QED
    BY <2>1, <2>2
<1>16. ASSUME NEW c \in Controllers, Receipt(c) PROVE TypeOK' /\ PlacesHold'
  <2>1. at' \in [Controllers -> Place] /\ PlacesHold'
    BY <1>16, EasyPlaces, Moves DEF Receipt, Idle
  <2>2. lease' \in Controllers \cup Effects \cup {None} /\ status' \in Statuses
    BY <1>16 DEF Receipt, Release, TypeOK, Statuses
  <2> QED
    BY <1>16, <2>1, <2>2 DEF Receipt, TypeOK
<1>17. ASSUME NEW c \in Controllers, Wait(c) PROVE TypeOK' /\ PlacesHold'
  <2>1. at' \in [Controllers -> Place] /\ PlacesHold'
    BY <1>17, EasyPlaces, Moves DEF Wait, Idle
  <2>2. lease' \in Controllers \cup Effects \cup {None} /\ status' \in Statuses
    BY <1>17 DEF Wait, Release, TypeOK, Statuses
  <2> QED
    BY <1>17, <2>1, <2>2 DEF Wait, TypeOK
<1>18. ASSUME NEW c \in Controllers, Fenced(c) PROVE TypeOK' /\ PlacesHold'
  BY <1>18, Throws DEF Fenced
<1>19. ASSUME UNCHANGED at, TypeOK' PROVE TypeOK' /\ PlacesHold'
  BY <1>0, <1>19 DEF PlacesHold, Placed
<1>20. CASE LoseLease
  BY <1>19, <1>20 DEF LoseLease, TypeOK
<1>21. CASE RuntimeEnds
  <2>1. PICK a \in DOMAIN attempts : attempts' = [attempts EXCEPT ![a].alive = FALSE]
    BY <1>21 DEF RuntimeEnds
  <2>2. [attempts[a] EXCEPT !.alive = FALSE] \in Attempt
    BY <1>0 DEF Attempt
  <2>3. attempts' = [attempts EXCEPT ![a] = [attempts[a] EXCEPT !.alive = FALSE]]
    BY <2>1
  <2>4. attempts' \in Seq(Attempt) /\ Len(attempts') <= MaxAttempts
    BY <1>0, <2>2, <2>3, AttemptChanged
  <2> QED
    BY <1>19, <1>21, <2>4 DEF RuntimeEnds, TypeOK
<1>22. CASE Edit
  BY <1>19, <1>22, PlanFacts DEF Edit, TypeOK
<1>23. CASE SetOverride
  <2>1. PICK s \in Wished :
          overrides' = Append(overrides,
                              [kind |-> "set", id |-> Cardinality(Set) + 1, stage |-> s])
    BY <1>23 DEF SetOverride
  <2>2. Cardinality(Set) + 1 \in 1..MaxOverrides /\ s \in 0..Len(Plan)
    BY <1>23, FewSet, PlanFacts, HandoffAssumption DEF SetOverride
  <2>3. overrides' \in Seq(Override)
    BY <2>1, <2>2 DEF TypeOK, Override
  <2> QED
    BY <1>19, <1>23, <2>3 DEF SetOverride, TypeOK
<1>24. CASE ReadActive
  <2>1. clearing' \in 0..MaxOverrides
    BY <1>24, OverrideTyped, PlanFacts DEF ReadActive, Override
  <2> QED
    BY <1>19, <1>24, <2>1 DEF ReadActive, TypeOK
<1>25. CASE AppendClear
  <2>1. overrides' \in Seq(Override)
    BY <1>25, PlanFacts DEF AppendClear, TypeOK, Override
  <2> QED
    BY <1>19, <1>25, <2>1, PlanFacts DEF AppendClear, TypeOK
<1>26. ASSUME NEW e \in Effects, Coordination(e) PROVE TypeOK' /\ PlacesHold'
  BY <1>19, <1>26, CoordinationStep DEF TypeOK
<1>27. CASE UNCHANGED vars
  BY <1>19, <1>27 DEF vars, TypeOK
<1> QED
  BY <1>1, <1>2, <1>3, <1>4, <1>5, <1>6, <1>7, <1>8, <1>9, <1>10, <1>11, <1>12, <1>13, <1>14,
     <1>15, <1>16, <1>17, <1>18, <1>20, <1>21, <1>22, <1>23, <1>24, <1>25, <1>26, <1>27
     DEF Next, Controller, World

-----------------------------------------------------------------------------
(* What the next Runtime is handed *)

\* The composite of a frontier that was handed off has the Effects as they are.
EffectsCarried ==
  (Frontier # 0 /\ attempts[Frontier].check = "handed_off" /\ attempts[Frontier].composite # None)
    => attempts[Frontier].composite.effects = effects

\* A stage is tried without a decision only when nothing was handed off.
Carrying(c) ==
  /\ at[c].step = "stage" => Frontier = 0 \/ attempts[Frontier].check # "handed_off"
  /\ at[c].step \in {"decide", "prepare"} => EffectsCarried
HolderCarries == \A c \in Controllers : lease = c => Carrying(c)

\* At first nobody holds the lease.
LEMMA InitCarries == Init => HolderCarries
BY HandoffAssumption DEF Init, HolderCarries

\* The frontier stands as long as no Attempt is checked and its composite is left alone.
LEMMA FrontierStands ==
  ASSUME IInv, DOMAIN attempts' = DOMAIN attempts, effects' = effects,
         \A a \in DOMAIN attempts : /\ attempts'[a].check = attempts[a].check
                                   /\ attempts'[a].composite = attempts[a].composite
  PROVE  /\ Frontier' = Frontier /\ EffectsCarried' = EffectsCarried
         /\ Frontier # 0 => attempts'[Frontier].check = attempts[Frontier].check
<1>1. Checkpointed' = Checkpointed
  BY DEF Checkpointed
<1>2. Frontier' = Frontier
  BY <1>1 DEF Frontier
<1>3. Frontier # 0 => Frontier \in DOMAIN attempts
  BY FrontierIsCheckpoint DEF Checkpointed, IInv, TypeOK
<1> QED
  BY <1>2, <1>3 DEF EffectsCarried

\* Each step of the holder keeps it, and nobody else changes what it is about.
LEMMA CarryStep == IInv /\ HolderCarries /\ [Next]_vars => HolderCarries'
<1> SUFFICES ASSUME IInv, HolderCarries, [Next]_vars PROVE HolderCarries'
  OBVIOUS
<1> USE DEF log, remote
<1>0. /\ attempts \in Seq(Attempt) /\ Len(attempts) \in Nat /\ effects \in [Effects -> EffectStatuses]
      /\ \A a \in DOMAIN attempts : attempts[a] \in Attempt
      /\ at \in [Controllers -> Place] /\ None \notin Controllers
      /\ at' \in [Controllers -> Place]
  BY TypeHolds, HandoffAssumption DEF IInv, TypeOK
<1>1. ASSUME UNCHANGED <<attempts, effects>>,
             \A c \in Controllers : lease' = c =>
               \/ lease = c /\ at'[c] = at[c]
               \/ at'[c].step \notin {"stage", "decide", "prepare"}
      PROVE  HolderCarries'
  <2>1. Frontier' = Frontier /\ EffectsCarried' = EffectsCarried
    BY <1>1 DEF Frontier, Checkpointed, EffectsCarried
  <2> QED
    BY <1>1, <2>1 DEF HolderCarries, Carrying
<1>2. ASSUME NEW c \in Controllers, NEW place, lease = c, lease' \in {c, None}, Go(c, place),
             place.step \notin {"stage", "decide", "prepare"}
      PROVE  HolderCarries'
  BY <1>0, <1>2 DEF Go, HolderCarries, Carrying
<1>3. ASSUME NEW c \in Controllers, NEW place, lease # c, lease' = lease, Go(c, place),
             UNCHANGED <<attempts, effects>>
      PROVE  HolderCarries'
  BY <1>0, <1>1, <1>3 DEF Go
<1>4. ASSUME NEW c \in Controllers, Throw(c) PROVE HolderCarries'
  BY <1>0, <1>1, <1>4 DEF Throw, Go, Release, Idle, At
<1>5. ASSUME NEW c \in Controllers, Resume(c) PROVE HolderCarries'
  BY <1>0, <1>1, <1>5 DEF Resume, Go, At
<1>6. ASSUME NEW c \in Controllers, Crash(c) \/ Fenced(c) PROVE HolderCarries'
  BY <1>4, <1>6 DEF Crash, Fenced
<1>7. ASSUME NEW c \in Controllers, Recover(c) PROVE HolderCarries'
  <2>1. CASE Throw(c)
    BY <1>4, <2>1
  <2>2. CASE ~Throw(c)
    <3>1. PICK step \in {"execute", "close"} : Go(c, At(step, 0, 0, {})) /\ lease = c /\ lease' = lease
      BY <1>7, <2>2 DEF Recover
    <3> QED
      BY <1>2, <3>1 DEF At
  <2> QED
    BY <2>1, <2>2
<1>8. ASSUME NEW c \in Controllers, Close(c) PROVE HolderCarries'
  <2>1. PICK step \in {"execute", "save"} : Go(c, At(step, 0, 0, {})) /\ lease = c /\ lease' = lease
    BY <1>8 DEF Close
  <2> QED
    BY <1>2, <2>1 DEF At
<1>9. ASSUME NEW c \in Controllers, Execute(c) PROVE HolderCarries'
  <2>1. CASE Go(c, Idle) /\ Release(c)
    BY <1>2, <1>9, <2>1 DEF Execute, Release, Idle, At
  <2>2. CASE Go(c, At("verify", 0, 0, {})) /\ UNCHANGED lease
    BY <1>2, <1>9, <2>2 DEF Execute, At
  <2>3. CASE Go(c, At("detect", NextStage, attempts[Frontier].stage, {})) /\ UNCHANGED lease
    BY <1>2, <1>9, <2>3 DEF Execute, At
  <2>4. CASE /\ Frontier = 0 \/ attempts[Frontier].check # "handed_off"
             /\ Go(c, At("stage", NextStage, 0, {})) /\ UNCHANGED lease
    <3>1. Frontier' = Frontier /\ attempts' = attempts
      BY <1>9 DEF Execute, Frontier, Checkpointed
    <3>2. \A d \in Controllers : lease' = d => d = c
      BY <1>9, <2>4 DEF Execute
    <3>3. at'[c].step = "stage"
      BY <1>0, <2>4 DEF Go, At
    <3> QED
      BY <2>4, <3>1, <3>2, <3>3 DEF HolderCarries, Carrying
  <2>5. NextStage \in 1..(Len(Plan) + 1) /\ Len(Plan) \in Nat
    BY NextStageInPlan, PlanFacts
  <2> QED
    BY <1>9, <2>1, <2>2, <2>3, <2>4, <2>5 DEF Execute
<1>10. ASSUME NEW c \in Controllers, Stage(c) PROVE HolderCarries'
  <2>1. CASE Go(c, At("prepare", at[c].index, 0, {}))
    <3>1. Frontier' = Frontier /\ attempts' = attempts
      BY <1>10 DEF Stage, Frontier, Checkpointed
    <3>2. \A d \in Controllers : lease' = d => d = c
      BY <1>10 DEF Stage
    <3>3. at'[c].step = "prepare" /\ lease = c /\ at[c].step = "stage"
      BY <1>0, <1>10, <2>1 DEF Stage, Go, At
    <3>4. Frontier = 0 \/ attempts[Frontier].check # "handed_off"
      BY <3>3 DEF HolderCarries, Carrying
    <3> QED
      BY <3>1, <3>2, <3>3, <3>4 DEF HolderCarries, Carrying, EffectsCarried
  <2>2. CASE ~Go(c, At("prepare", at[c].index, 0, {}))
    <3>1. PICK place : place.step \in {"detect", "wait"} /\ Go(c, place)
      BY <1>10, <2>2 DEF Stage, At
    <3> QED
      BY <1>2, <1>10, <3>1 DEF Stage
  <2> QED
    BY <2>1, <2>2
<1>11. ASSUME NEW c \in Controllers, Prepare(c) PROVE HolderCarries'
  <2>1. PICK place : place.step \in {"start", "wait"} /\ Go(c, place) /\ lease = c /\ lease' = c
    BY <1>11 DEF Prepare, At
  <2> QED
    BY <1>2, <2>1
<1>12. ASSUME NEW c \in Controllers, Start(c) PROVE HolderCarries'
  BY <1>2, <1>12 DEF Start, At
<1>13. ASSUME NEW c \in Controllers, Prompt(c) PROVE HolderCarries'
  BY <1>2, <1>4, <1>13 DEF Prompt, At
<1>14. ASSUME NEW c \in Controllers, Checkpoint(c) PROVE HolderCarries'
  BY <1>2, <1>14 DEF Checkpoint, At
<1>15. ASSUME NEW c \in Controllers, Finish(c) PROVE HolderCarries'
  <2>1. PICK place : place.step \in {"verify", "save", "wait"} /\ Go(c, place) /\ lease = c /\ lease' = c
    BY <1>15 DEF Finish, At
  <2> QED
    BY <1>2, <2>1
<1>16. ASSUME NEW c \in Controllers, Save(c) PROVE HolderCarries'
  <2>1. CASE Throw(c)
    BY <1>4, <2>1
  <2>2. CASE ~Throw(c)
    <3>1. at[c] \in Place /\ lease = c /\ lease' = c
      BY <1>0, <1>16, <2>2 DEF Save
    <3>2. PICK place : place.step \in {"detect", "execute"} /\ Go(c, place)
      BY <1>16, <2>2, <3>1 DEF Save, Place, At
    <3> QED
      BY <1>2, <3>1, <3>2
  <2> QED
    BY <2>1, <2>2
<1>17. ASSUME NEW c \in Controllers, Detect(c) PROVE HolderCarries'
  <2>1. PICK listed : Go(c, [at[c] EXCEPT !.step = "compose", !.listed = listed])
    BY <1>17 DEF Detect
  <2>2. at'[c].step = "compose" /\ \A d \in Controllers \ {c} : at'[d] = at[d]
    BY <1>0, <2>1 DEF Go, Place
  <2> QED
    BY <1>1, <1>17, <2>2 DEF Detect
<1>18. ASSUME NEW c \in Controllers, Compose(c) PROVE HolderCarries'
  <2>1. CASE Throw(c)
    BY <1>4, <2>1
  <2>2. CASE ~Throw(c)
    <3> DEFINE a == Frontier
               needed == a # 0 /\ attempts[a].check = "handed_off" /\ ~Covers(attempts[a].composite, a)
    <3>1. /\ lease = c /\ lease' = c /\ effects' = effects
          /\ Go(c, [at[c] EXCEPT !.step = "decide"])
          /\ \/ needed /\ Persist(a, workspace)
             \/ ~needed /\ attempts' = attempts
      BY <1>18, <2>2 DEF Compose
    <3>2. a # 0 => a \in DOMAIN attempts
      BY <1>0, FrontierIsCheckpoint DEF Checkpointed
    <3>3. EffectsCarried'
      <4>1. CASE needed /\ Persist(a, workspace)
        <5>1. a \in DOMAIN attempts /\ attempts[a] \in Attempt
          BY <1>0, <3>2, <4>1
        <5>2. attempts' = [attempts EXCEPT ![a] =
                [attempts[a] EXCEPT !.composite = [work |-> workspace, effects |-> effects]]]
          BY <4>1 DEF Persist
        <5>3. /\ DOMAIN attempts' = DOMAIN attempts
              /\ attempts'[a].composite.effects = effects
              /\ \A b \in DOMAIN attempts : attempts'[b].check = attempts[b].check
          BY <5>1, <5>2, <1>0 DEF Attempt
        <5>4. Frontier' = a
          <6>1. Checkpointed' = Checkpointed
            BY <5>3 DEF Checkpointed
          <6> QED
            BY <6>1 DEF Frontier
        <5> QED
          BY <3>1, <5>3, <5>4 DEF EffectsCarried
      <4>2. CASE ~needed /\ attempts' = attempts
        <5>1. Frontier' = a
          BY <4>2 DEF Frontier, Checkpointed
        <5> QED
          BY <3>1, <4>2, <5>1 DEF EffectsCarried, Covers
      <4> QED
        BY <3>1, <4>1, <4>2
    <3>4. at'[c].step = "decide" /\ \A d \in Controllers : lease' = d => d = c
      BY <1>0, <3>1 DEF Go, Place
    <3> QED
      BY <3>3, <3>4 DEF HolderCarries, Carrying
  <2> QED
    BY <2>1, <2>2
<1>19. ASSUME NEW c \in Controllers, Decide(c) PROVE HolderCarries'
  <2>1. UNCHANGED <<attempts, effects>> /\ lease = c /\ lease' = c /\ at[c].step = "decide"
    BY <1>19 DEF Decide
  <2>2. Go(c, At("wait", 0, 0, {})) \/ \E s : Go(c, At("prepare", s, 0, {}))
    BY <1>19 DEF Decide
  <2>3. EffectsCarried' /\ at'[c].step \in {"wait", "prepare"}
    <3>1. EffectsCarried
      BY <2>1 DEF HolderCarries, Carrying
    <3>2. at'[c].step \in {"wait", "prepare"}
      BY <1>0, <2>2 DEF Go, At
    <3> QED
      BY <2>1, <3>1, <3>2 DEF EffectsCarried, Frontier, Checkpointed
  <2> QED
    BY <2>1, <2>3 DEF HolderCarries, Carrying
<1>20. ASSUME NEW c \in Controllers, Receipt(c) \/ Wait(c) PROVE HolderCarries'
  BY <1>2, <1>20 DEF Receipt, Wait, Idle, At, Release
<1>21. CASE LoseLease
  BY <1>0, <1>21 DEF LoseLease, HolderCarries
<1>22. CASE RuntimeEnds
  <2>1. PICK a \in DOMAIN attempts : attempts' = [attempts EXCEPT ![a].alive = FALSE]
    BY <1>22 DEF RuntimeEnds
  <2>2. /\ DOMAIN attempts' = DOMAIN attempts
        /\ \A b \in DOMAIN attempts : /\ attempts'[b].check = attempts[b].check
                                     /\ attempts'[b].composite = attempts[b].composite
    BY <1>0, <2>1 DEF Attempt
  <2>3. /\ Frontier' = Frontier /\ EffectsCarried' = EffectsCarried
        /\ Frontier # 0 => attempts'[Frontier].check = attempts[Frontier].check
    BY <1>22, <2>2, FrontierStands DEF RuntimeEnds
  <2> QED
    BY <1>22, <2>3 DEF RuntimeEnds, HolderCarries, Carrying
<1>23. CASE Edit \/ SetOverride \/ ReadActive \/ AppendClear
  BY <1>1, <1>23 DEF Edit, SetOverride, ReadActive, AppendClear
<1>24. ASSUME NEW e \in Effects, Coordination(e) PROVE HolderCarries'
  BY <1>0, <1>24, CoordinationStep, HandoffAssumption DEF HolderCarries, IInv
<1>25. CASE UNCHANGED vars
  BY <1>1, <1>25 DEF vars
<1> QED
  BY <1>5, <1>6, <1>7, <1>8, <1>9, <1>10, <1>11, <1>12, <1>13, <1>14, <1>15, <1>16, <1>17, <1>18,
     <1>19, <1>20, <1>21, <1>22, <1>23, <1>24, <1>25 DEF Next, Controller, World

-----------------------------------------------------------------------------
(* Whose step it is *)

\* A controller that goes somewhere is there, and the others stay.
LEMMA Went ==
  ASSUME TypeOK, NEW c \in Controllers, NEW place, Go(c, place)
  PROVE  at'[c] = place /\ \A d \in Controllers \ {c} : at'[d] = at[d]
BY DEF Go, TypeOK

\* A controller's place changes in its own steps only.
LEMMA OwnSteps ==
  ASSUME IInv, [Next]_vars, NEW c \in Controllers, at'[c] # at[c]
  PROVE  Resume(c) \/ Crash(c) \/ Controller(c)
<1> USE DEF log, remote
<1>1. ASSUME NEW d \in Controllers, \E place : Go(d, place) PROVE d = c
  BY <1>1, Went DEF IInv
<1>2. ASSUME NEW d \in Controllers, Resume(d) \/ Crash(d) PROVE d = c
  BY <1>1, <1>2 DEF Resume, Crash, Throw
<1>3. ASSUME NEW d \in Controllers, Controller(d) PROVE d = c
  <2>1. CASE Recover(d)
    <3>1. CASE Throw(d)
      BY <1>1, <3>1 DEF Throw
    <3>2. CASE ~Throw(d)
      BY <1>1, <2>1, <3>2 DEF Recover
    <3> QED
      BY <3>1, <3>2
  <2>2. CASE Close(d)
    BY <1>1, <2>2 DEF Close
  <2>3. CASE Execute(d)
    <3>1. \/ Go(d, Idle) \/ Go(d, At("verify", 0, 0, {}))
          \/ Go(d, At("detect", NextStage, attempts[Frontier].stage, {}))
          \/ Go(d, At("stage", NextStage, 0, {}))
      BY <2>3 DEF Execute
    <3> QED
      BY <1>1, <3>1
  <2>4. CASE Stage(d)
    BY <1>1, <2>4 DEF Stage
  <2>5. CASE Prepare(d)
    BY <1>1, <2>5 DEF Prepare
  <2>6. CASE Start(d)
    BY <1>1, <2>6 DEF Start
  <2>7. CASE Prompt(d)
    BY <1>1, <2>7 DEF Prompt, Throw
  <2>8. CASE Checkpoint(d)
    BY <1>1, <2>8 DEF Checkpoint
  <2>9. CASE Finish(d)
    BY <1>1, <2>9 DEF Finish
  <2>10. CASE Save(d)
    BY <1>1, <2>10 DEF Save, Throw
  <2>11. CASE Detect(d)
    BY <1>1, <2>11 DEF Detect
  <2>12. CASE Compose(d)
    BY <1>1, <2>12 DEF Compose, Throw
  <2>13. CASE Decide(d)
    <3>1. Go(d, At("wait", 0, 0, {})) \/ \E s : Go(d, At("prepare", s, 0, {}))
      BY <2>13 DEF Decide
    <3> QED
      BY <1>1, <3>1
  <2>14. CASE Receipt(d) \/ Wait(d) \/ Fenced(d)
    BY <1>1, <2>14 DEF Receipt, Wait, Fenced, Throw
  <2> QED
    BY <1>3, <2>1, <2>2, <2>3, <2>4, <2>5, <2>6, <2>7, <2>8, <2>9, <2>10, <2>11, <2>12, <2>13, <2>14
       DEF Controller
<1>4. ~(LoseLease \/ World \/ UNCHANGED vars)
  BY CoordinationStep DEF LoseLease, World, RuntimeEnds, Edit, SetOverride, ReadActive, AppendClear,
     IInv, vars
<1> QED
  BY <1>2, <1>3, <1>4 DEF Next

\* The disjuncts of a command's step, each with the place it comes from.
LEMMA PrepareStep ==
  ASSUME IInv, [Next]_vars, NEW c \in Controllers, at[c].step = "prepare", at'[c].step # "prepare"
  PROVE  at'[c].step = "idle" \/ Prepare(c)
<1>1. Resume(c) \/ Crash(c) \/ Controller(c)
  BY OwnSteps
<1>2. ASSUME Throw(c) PROVE at'[c].step = "idle"
  BY <1>2, Went DEF Throw, Idle, At, IInv
<1> QED
  BY <1>1, <1>2 DEF Resume, Crash, Controller, Recover, Close, Execute, Stage, Start, Prompt,
     Checkpoint, Finish, Save, Detect, Compose, Decide, Receipt, Wait, Fenced

-----------------------------------------------------------------------------
(* What the log says was done *)

\* The log is true of the targets, but for what was cut off or is ambiguous.
EffectsAreTrue ==
  /\ \A e \in applied : effects[e] \in {"dispatch_started", "executed", "confirmed", "ambiguous"}
  /\ \A e \in Effects : effects[e] \in {"executed", "confirmed"} => e \in applied
  /\ \A e \in Effects : lease = e =>
       /\ request = "sent" => effects[e] = "dispatch_started"
       /\ request = "accepted" => effects[e] = "executed"

LEMMA EffectsStep == IInv /\ EffectsAreTrue /\ [Next]_vars => EffectsAreTrue'
<1> SUFFICES ASSUME IInv, EffectsAreTrue, [Next]_vars PROVE EffectsAreTrue'
  OBVIOUS
<1> USE DEF log, remote
<1>0. effects \in [Effects -> EffectStatuses] /\ applied \subseteq Effects
      /\ Controllers \cap Effects = {} /\ None \notin Effects
  BY HandoffAssumption DEF IInv, TypeOK
<1>1. ASSUME UNCHANGED <<effects, applied, request>>,
             \A e \in Effects : lease' = e => lease = e
      PROVE  EffectsAreTrue'
  BY <1>1 DEF EffectsAreTrue
<1>2. ASSUME NEW c \in Controllers, Resume(c) \/ Crash(c) \/ Controller(c) PROVE EffectsAreTrue'
  <2>1. UNCHANGED <<effects, applied, request>> /\ lease' \in {lease, c, None}
    <3>1. ASSUME Throw(c) PROVE UNCHANGED effects /\ lease' \in {lease, c, None}
      BY <3>1 DEF Throw, Release
    <3>2. CASE Resume(c) \/ Crash(c) \/ Fenced(c) \/ Wait(c) \/ Receipt(c)
      BY <3>1, <3>2 DEF Resume, Crash, Fenced, Wait, Receipt, Release
    <3>3. CASE Recover(c) \/ Close(c) \/ Execute(c) \/ Stage(c) \/ Prepare(c) \/ Start(c)
      <4>1. CASE Execute(c)
        BY <4>1 DEF Execute, Release
      <4> QED
        BY <3>1, <3>3, <4>1 DEF Recover, Close, Stage, Prepare, Start
    <3>4. CASE \/ Prompt(c) \/ Checkpoint(c) \/ Finish(c) \/ Save(c) \/ Detect(c)
               \/ Compose(c) \/ Decide(c)
      BY <3>1, <3>4 DEF Prompt, Checkpoint, Finish, Save, Detect, Compose, Decide
    <3> QED
      BY <1>2, <3>2, <3>3, <3>4 DEF Controller
  <2> QED
    BY <1>0, <1>1, <2>1
<1>3. CASE LoseLease
  BY <1>0, <1>3 DEF LoseLease, EffectsAreTrue
<1>4. CASE RuntimeEnds \/ Edit \/ SetOverride \/ ReadActive \/ AppendClear \/ UNCHANGED vars
  BY <1>1, <1>4 DEF RuntimeEnds, Edit, SetOverride, ReadActive, AppendClear, vars
<1>5. ASSUME NEW e \in Effects, Coordination(e) PROVE EffectsAreTrue'
  <2>1. lease' \in {e, None} /\ (lease = e => /\ request = "sent" => effects[e] = "dispatch_started"
                                              /\ request = "accepted" => effects[e] = "executed")
    BY <1>5, CoordinationStep DEF EffectsAreTrue, IInv
  <2>2. ASSUME NEW now, NEW step, Coordinating(e, request), Record(e, now, step),
               e \in applied =>
                 now \in {"dispatch_started", "executed", "confirmed", "ambiguous"},
               now \in {"executed", "confirmed"} => e \in applied,
               step = "sent" => now = "dispatch_started",
               step = "accepted" => now = "executed"
        PROVE  EffectsAreTrue'
    BY <1>0, <2>2 DEF EffectsAreTrue, Record, Coordinating
  <2>3. e \in applied =>
          effects[e] \in {"dispatch_started", "executed", "confirmed", "ambiguous"}
    BY DEF EffectsAreTrue
  <2>4. effects[e] = "executed" => e \in applied
    BY DEF EffectsAreTrue
  <2>5. CASE RecordIntended(e)
    <3>1. e \notin applied
      BY <2>3, <2>5, StatusIsNoName DEF RecordIntended
    <3> QED
      BY <2>2, <2>5, <3>1 DEF RecordIntended, Coordinating
  <2>6. CASE RecordDispatch(e)
    BY <2>2, <2>3, <2>6 DEF RecordDispatch, Coordinating
  <2>7. CASE Reconcile(e)
    BY <2>2, <2>7 DEF Reconcile, Coordinating
  <2>8. CASE RecordAnswer(e)
    BY <2>2, <2>8 DEF RecordAnswer, Coordinating
  <2>9. CASE RecordConfirmed(e)
    BY <2>1, <2>2, <2>4, <2>9 DEF RecordConfirmed, Coordinating
  <2>10. CASE TargetApplies(e)
    BY <1>0, <2>1, <2>10 DEF TargetApplies, Coordinating, EffectsAreTrue
  <2>11. CASE BeginCoordination(e) \/ EndCoordination(e)
    BY <1>0, <2>11 DEF BeginCoordination, EndCoordination, EffectsAreTrue
  <2> QED
    BY <1>5, <2>5, <2>6, <2>7, <2>8, <2>9, <2>10, <2>11 DEF Coordination
<1> QED
  BY <1>2, <1>3, <1>4, <1>5 DEF Next, World

\* An Attempt that is finished is done when it changed the workspace; only the
\* newest may be unfinished.
Settled(r) ==
  IF r.finished THEN r.effect = "confirmed" <=> r.after # r.before ELSE r.effect = "intended"
AttemptsSettled ==
  \A a \in DOMAIN attempts : Settled(attempts[a]) /\ (a # Newest => attempts[a].finished)

\* The holder goes from stage to stage when all are finished, and runs the one it
\* has bound.
Between == {"execute", "save", "detect", "compose", "decide", "stage", "prepare"}
Attempting == {"start", "prompt", "running", "finish"}
Finds(c) ==
  /\ at[c].step \in Between => Open = {}
  /\ at[c].step \in Attempting => Newest \in Open
HolderFinds == \A c \in Controllers : lease = c => Finds(c)

LEMMA InitSettled == Init => EffectsAreTrue /\ AttemptsSettled /\ HolderFinds
<1>1. Init => EffectsAreTrue
  BY StatusIsNoName DEF Init, EffectsAreTrue
<1>2. Init => AttemptsSettled /\ HolderFinds
  BY HandoffAssumption DEF Init, AttemptsSettled, HolderFinds
<1> QED
  BY <1>1, <1>2

LEMMA SettledStep ==
  IInv /\ AttemptsSettled /\ HolderFinds /\ [Next]_vars => (AttemptsSettled /\ HolderFinds)'
<1> SUFFICES ASSUME IInv, AttemptsSettled, HolderFinds, [Next]_vars
             PROVE  AttemptsSettled' /\ HolderFinds'
  OBVIOUS
<1> USE DEF log, remote
<1>0. /\ attempts \in Seq(Attempt) /\ Len(attempts) \in Nat
      /\ \A a \in DOMAIN attempts : attempts[a] \in Attempt
      /\ at \in [Controllers -> Place] /\ at' \in [Controllers -> Place]
      /\ None \notin Controllers
  BY TypeHolds, HandoffAssumption DEF IInv, TypeOK
\* Nothing of an Attempt changes that is asked here, and each controller that
\* has the lease then had it and stays, or is at neither kind of place, or is
\* between stages when all are finished.
<1>1. ASSUME DOMAIN attempts' = DOMAIN attempts, Newest' = Newest,
             \A a \in DOMAIN attempts :
               /\ attempts'[a].finished = attempts[a].finished
               /\ attempts'[a].effect = attempts[a].effect
               /\ attempts'[a].before = attempts[a].before
               /\ attempts'[a].after = attempts[a].after,
             \A c \in Controllers : lease' = c =>
               \/ lease = c /\ (at'[c] = at[c] \/ {at[c].step, at'[c].step} \subseteq Attempting)
               \/ at'[c].step \notin Between \cup Attempting
               \/ Open = {} /\ at'[c].step \in Between
      PROVE  AttemptsSettled' /\ HolderFinds'
  <2>1. Open' = Open
    BY <1>1 DEF Open
  <2>2. AttemptsSettled'
    BY <1>1 DEF AttemptsSettled, Settled
  <2>3. Between \cap Attempting = {}
    BY DEF Between, Attempting
  <2> QED
    BY <1>1, <2>1, <2>2, <2>3 DEF HolderFinds, Finds
<1>2. ASSUME UNCHANGED attempts,
             \A c \in Controllers : lease' = c =>
               \/ lease = c /\ at'[c] = at[c]
               \/ at'[c].step \notin Between \cup Attempting
               \/ Open = {} /\ at'[c].step \in Between
      PROVE  AttemptsSettled' /\ HolderFinds'
  BY <1>1, <1>2 DEF Newest
<1>3. ASSUME NEW c \in Controllers, Throw(c) PROVE AttemptsSettled' /\ HolderFinds'
  BY <1>0, <1>2, <1>3 DEF Throw, Go, Release, Idle, At, Between, Attempting
<1>4. ASSUME NEW c \in Controllers, Resume(c) \/ Crash(c) \/ Fenced(c) \/ Wait(c) \/ Receipt(c)
      PROVE  AttemptsSettled' /\ HolderFinds'
  <2>1. CASE Resume(c)
    BY <1>0, <1>2, <2>1 DEF Resume, Go, At, Between, Attempting
  <2>2. CASE Wait(c) \/ Receipt(c)
    BY <1>0, <1>2, <2>2 DEF Wait, Receipt, Release, Go, Idle, At, Between, Attempting
  <2> QED
    BY <1>3, <1>4, <2>1, <2>2 DEF Crash, Fenced
\* A step of the holder between two stages that leaves the Attempts alone.
<1>5. ASSUME NEW c \in Controllers, UNCHANGED attempts, lease = c, lease' \in {c, None}, NEW place,
             Go(c, place),
             place.step \in Between => Open = {},
             place.step \notin Attempting
      PROVE  AttemptsSettled' /\ HolderFinds'
  <2>1. at'[c] = place
    BY <1>0, <1>5 DEF Go
  <2>2. \A d \in Controllers : lease' = d => d = c
    BY <1>0, <1>5
  <2> QED
    BY <1>2, <1>5, <2>1, <2>2
\* A step of the holder that leaves alone what is asked of the Attempts.
<1>6. ASSUME NEW c \in Controllers, lease = c, lease' = c, NEW a \in Int, NEW r,
             attempts' = [attempts EXCEPT ![a] = r],
             a \in DOMAIN attempts =>
               /\ r.finished = attempts[a].finished /\ r.effect = attempts[a].effect
               /\ r.before = attempts[a].before /\ r.after = attempts[a].after,
             \/ at[c].step \in Attempting /\ at'[c].step \in Attempting
             \/ at[c].step \in Between /\ at'[c].step \in Between
      PROVE  AttemptsSettled' /\ HolderFinds'
  <2>1. DOMAIN attempts' = DOMAIN attempts /\ Len(attempts') = Len(attempts)
    BY <1>0, <1>6
  <2>2. \A d \in Controllers : lease' = d => d = c
    BY <1>6
  <2>3. at[c].step \in Between => Open = {}
    BY <1>6 DEF HolderFinds, Finds
  <2>4. \A b \in DOMAIN attempts :
          /\ attempts'[b].finished = attempts[b].finished
          /\ attempts'[b].effect = attempts[b].effect
          /\ attempts'[b].before = attempts[b].before
          /\ attempts'[b].after = attempts[b].after
    BY <1>0, <1>6
  <2> QED
    BY <1>1, <1>6, <2>1, <2>2, <2>3, <2>4 DEF Newest
\* The unfinished Attempt is checked, or is finished.
<1>7. ASSUME NEW c \in Controllers, lease = c, lease' = c, NEW a \in Open, NEW r,
             attempts' = [attempts EXCEPT ![a] = r], Settled(r),
             at'[c].step \in Between => r.finished,
             at'[c].step \in Attempting => ~r.finished
      PROVE  AttemptsSettled' /\ HolderFinds'
  <2>1. a \in DOMAIN attempts /\ a = Newest
    BY <1>7 DEF Open, AttemptsSettled
  <2>2. /\ DOMAIN attempts' = DOMAIN attempts /\ Newest' = Newest
        /\ attempts'[a] = r
        /\ \A b \in DOMAIN attempts \ {a} : attempts'[b] = attempts[b]
    BY <1>0, <1>7, <2>1 DEF Newest
  <2>3. AttemptsSettled'
    BY <1>7, <2>1, <2>2 DEF AttemptsSettled
  <2>4. (r.finished => Open' = {}) /\ (~r.finished => Newest' \in Open')
    BY <2>1, <2>2, <2>3 DEF Open, AttemptsSettled
  <2>5. \A d \in Controllers : lease' = d => d = c
    BY <1>7
  <2> QED
    BY <1>7, <2>3, <2>4, <2>5 DEF HolderFinds, Finds
<1>8. ASSUME NEW c \in Controllers, Recover(c) PROVE AttemptsSettled' /\ HolderFinds'
  <2>1. CASE Throw(c)
    BY <1>3, <2>1
  <2>2. CASE ~Throw(c) /\ UNCHANGED attempts
    <3>1. \/ Open = {} /\ Go(c, At("execute", 0, 0, {}))
          \/ Go(c, At("close", 0, 0, {}))
      BY <1>8, <2>2 DEF Recover
    <3> QED
      BY <1>5, <1>8, <2>2, <3>1 DEF Recover, At, Between, Attempting
  <2>3. CASE ~Throw(c) /\ ~UNCHANGED attempts
    <3>1. PICK a \in Open, k \in {"handed_off", "failed"} :
            /\ attempts' = [attempts EXCEPT ![a] =
                 [attempts[a] EXCEPT !.after = workspace, !.check = k]]
            /\ Go(c, At("close", 0, 0, {})) /\ lease = c /\ lease' = c
      <4>1. PICK a \in Open :
              /\ attempts' = [attempts EXCEPT
                    ![a].after = workspace,
                    ![a].check = IF /\ workspace # attempts[a].before
                                    /\ Plan[attempts[a].stage].onFailure = "handoff"
                                 THEN "handed_off" ELSE "failed"]
              /\ Go(c, At("close", 0, 0, {}))
              /\ UNCHANGED lease
        BY <1>8, <2>3 DEF Recover
      <4>2. PICK k \in {"handed_off", "failed"} :
              attempts' = [attempts EXCEPT ![a] =
                 [attempts[a] EXCEPT !.after = workspace, !.check = k]]
        BY <4>1
      <4> QED
        BY <1>8, <4>1, <4>2 DEF Recover
    <3>2. at'[c].step = "close"
      BY <1>0, <3>1 DEF Go, At
    <3>3. a \in DOMAIN attempts /\ ~attempts[a].finished /\ attempts[a].effect = "intended"
      BY DEF Open, AttemptsSettled, Settled
    <3>4. Settled([attempts[a] EXCEPT !.after = workspace, !.check = k])
      BY <1>0, <3>3 DEF Settled, Attempt
    <3> QED
      BY <1>7, <3>1, <3>2, <3>4 DEF Between, Attempting
  <2> QED
    BY <2>1, <2>2, <2>3
<1>9. ASSUME NEW c \in Controllers, Close(c) PROVE AttemptsSettled' /\ HolderFinds'
  <2>1. PICK a \in Open :
       /\ attempts' = [attempts EXCEPT
            ![a].finished = TRUE,
            ![a].effect = CASE attempts[a].effect # "intended" -> attempts[a].effect
                            [] Changed(a) -> "confirmed"
                            [] OTHER -> "failed"]
       /\ Go(c, At(IF attempts[a].check = "handed_off" THEN "save" ELSE "execute", 0, 0, {}))
    BY <1>9 DEF Close
  <2>2. a \in DOMAIN attempts /\ ~attempts[a].finished /\ attempts[a].effect = "intended"
    BY DEF Open, AttemptsSettled, Settled
  <2>3. PICK e : e = IF Changed(a) THEN "confirmed" ELSE "failed"
    OBVIOUS
  <2>4. attempts' = [attempts EXCEPT ![a] = [attempts[a] EXCEPT !.finished = TRUE, !.effect = e]]
    <3>1. e = CASE attempts[a].effect # "intended" -> attempts[a].effect
                [] Changed(a) -> "confirmed"
                [] OTHER -> "failed"
      BY <2>2, <2>3
    <3>2. attempts' = [attempts EXCEPT ![a].finished = TRUE, ![a].effect = e]
      BY <2>1, <3>1, Zenon
    <3> QED
      BY <3>2
  <2>5. Settled([attempts[a] EXCEPT !.finished = TRUE, !.effect = e])
        /\ [attempts[a] EXCEPT !.finished = TRUE, !.effect = e].finished
    BY <1>0, <2>2, <2>3 DEF Settled, Attempt, Changed
  <2>6. at'[c].step \in Between /\ lease = c /\ lease' = c
    BY <1>0, <1>9, <2>1 DEF Close, Go, At, Between
  <2>7. Between \cap Attempting = {}
    BY DEF Between, Attempting
  <2> QED
    BY <1>7, <2>4, <2>5, <2>6, <2>7
<1>10. ASSUME NEW c \in Controllers, lease = c, at[c].step \in Between PROVE Open = {}
  BY <1>10 DEF HolderFinds, Finds
<1>11. ASSUME NEW c \in Controllers, Execute(c) PROVE AttemptsSettled' /\ HolderFinds'
  <2>1. lease = c /\ UNCHANGED attempts /\ Open = {}
    BY <1>10, <1>11 DEF Execute, Between
  <2>2. PICK place : Go(c, place) /\ place.step \in {"idle", "verify", "detect", "stage"}
    BY <1>11 DEF Execute, Idle, At
  <2>3. lease' \in {c, None}
    BY <1>11 DEF Execute, Release
  <2> QED
    BY <1>5, <2>1, <2>2, <2>3 DEF Between, Attempting
<1>12. ASSUME NEW c \in Controllers, Stage(c) PROVE AttemptsSettled' /\ HolderFinds'
  <2>1. lease = c /\ lease' = c /\ UNCHANGED attempts /\ Open = {}
    BY <1>10, <1>12 DEF Stage, Between
  <2>2. PICK place : Go(c, place) /\ place.step \in {"prepare", "detect", "wait"}
    BY <1>12 DEF Stage, At
  <2> QED
    BY <1>5, <2>1, <2>2 DEF Between, Attempting
<1>13. ASSUME NEW c \in Controllers, Prepare(c) PROVE AttemptsSettled' /\ HolderFinds'
  <2>1. lease = c /\ lease' = c /\ Open = {}
    BY <1>10, <1>13 DEF Prepare, Between
  <2>2. CASE UNCHANGED attempts /\ Go(c, At("wait", 0, 0, {}))
    BY <1>5, <2>1, <2>2 DEF At, Between, Attempting
  <2>3. CASE ~(UNCHANGED attempts /\ Go(c, At("wait", 0, 0, {})))
    <3>1. PICK r : /\ attempts' = Append(attempts, r)
                   /\ ~r.finished /\ r.effect = "intended"
                   /\ Go(c, At("start", at[c].index, 0, {}))
      BY <1>13, <2>3 DEF Prepare
    <3>2. /\ Newest' = Newest + 1 /\ Newest' \in DOMAIN attempts' /\ attempts'[Newest'] = r
          /\ \A a \in DOMAIN attempts' \ {Newest'} : a \in DOMAIN attempts /\ attempts'[a] = attempts[a]
      BY <1>0, <3>1 DEF Newest
    <3>3. AttemptsSettled'
      <4>1. \A a \in DOMAIN attempts : attempts[a].finished
        BY <2>1 DEF Open
      <4> QED
        BY <3>1, <3>2, <4>1 DEF AttemptsSettled, Settled
    <3>4. Newest' \in Open'
      BY <3>1, <3>2 DEF Open
    <3>5. at'[c].step = "start" /\ \A d \in Controllers : lease' = d => d = c
      BY <1>0, <2>1, <3>1 DEF Go, At
    <3> QED
      BY <3>3, <3>4, <3>5 DEF HolderFinds, Finds, Between, Attempting
  <2> QED
    BY <2>2, <2>3
<1>14. ASSUME NEW c \in Controllers, Start(c) PROVE AttemptsSettled' /\ HolderFinds'
  <2>1. attempts' = [attempts EXCEPT ![Newest] = [attempts[Newest] EXCEPT !.started = TRUE]]
    BY <1>14 DEF Start
  <2>2. Newest \in Int /\ lease = c /\ lease' = c /\ at[c].step \in Attempting
    BY <1>0, <1>14 DEF Start, Newest, Attempting
  <2>3. at'[c].step \in Attempting
    BY <1>0, <1>14 DEF Start, Go, At, Attempting
  <2>4. Newest \in DOMAIN attempts => attempts[Newest] \in Attempt
    BY <1>0
  <2> QED
    BY <1>6, <2>1, <2>2, <2>3, <2>4 DEF Attempt
<1>15. ASSUME NEW c \in Controllers, Prompt(c) PROVE AttemptsSettled' /\ HolderFinds'
  <2>1. CASE Throw(c)
    BY <1>3, <2>1
  <2>2. CASE ~Throw(c)
    <3>1. attempts' = [attempts EXCEPT ![Newest] = [attempts[Newest] EXCEPT !.alive = TRUE]]
      BY <1>15, <2>2 DEF Prompt
    <3>2. Newest \in Int /\ lease = c /\ lease' = c /\ at[c].step \in Attempting
      BY <1>0, <1>15, <2>2 DEF Prompt, Newest, Attempting
    <3>3. at'[c].step \in Attempting
      BY <1>0, <1>15, <2>2 DEF Prompt, Go, At, Attempting
    <3>4. Newest \in DOMAIN attempts => attempts[Newest] \in Attempt
      BY <1>0
    <3> QED
      BY <1>6, <3>1, <3>2, <3>3, <3>4 DEF Attempt
  <2> QED
    BY <2>1, <2>2
<1>16. ASSUME NEW c \in Controllers, Checkpoint(c) PROVE AttemptsSettled' /\ HolderFinds'
  <2>1. PICK k : attempts' = [attempts EXCEPT ![Newest] =
                   [attempts[Newest] EXCEPT !.after = workspace, !.check = k]]
    BY <1>16 DEF Checkpoint
  <2>2. lease = c /\ lease' = c /\ at[c].step \in Attempting /\ at'[c].step \in Attempting
    BY <1>0, <1>16 DEF Checkpoint, Go, At, Attempting
  <2>3. Newest \in Open
    BY <2>2 DEF HolderFinds, Finds
  <2>4. Newest \in DOMAIN attempts /\ ~attempts[Newest].finished
        /\ attempts[Newest].effect = "intended"
    BY <2>3 DEF Open, AttemptsSettled, Settled
  <2> DEFINE r == [attempts[Newest] EXCEPT !.after = workspace, !.check = k]
  <2>5. Settled(r) /\ ~r.finished
    BY <1>0, <2>4 DEF Settled, Attempt
  <2>6. at'[c].step \notin Between
    BY <2>2 DEF Between, Attempting
  <2> QED
    BY <1>7, <2>1, <2>2, <2>3, <2>5, <2>6
<1>17. ASSUME NEW c \in Controllers, Finish(c) PROVE AttemptsSettled' /\ HolderFinds'
  <2>1. PICK e : e = CASE Changed(Newest) -> "confirmed"
                       [] ~Changed(Newest) /\ attempts[Newest].check = "succeeded" -> "skipped"
                       [] OTHER -> "failed"
    OBVIOUS
  <2>2. attempts' = [attempts EXCEPT ![Newest] =
                       [attempts[Newest] EXCEPT !.finished = TRUE, !.effect = e]]
    BY <1>17, <2>1 DEF Finish
  <2>3. lease = c /\ lease' = c /\ at[c].step \in Attempting
    BY <1>17 DEF Finish, Attempting
  <2>4. at'[c].step \notin Attempting
    BY <1>0, <1>17 DEF Finish, Go, At, Attempting
  <2>5. Newest \in Open
    BY <2>3 DEF HolderFinds, Finds
  <2> DEFINE r == [attempts[Newest] EXCEPT !.finished = TRUE, !.effect = e]
  <2>6. e = "confirmed" <=> Changed(Newest)
    BY <2>1
  <2>7. Settled(r) /\ r.finished
    BY <1>0, <2>5, <2>6 DEF Settled, Attempt, Changed, Open
  <2> QED
    BY <1>7, <2>2, <2>3, <2>4, <2>5, <2>7
<1>18. ASSUME NEW c \in Controllers, Save(c) \/ Compose(c) PROVE AttemptsSettled' /\ HolderFinds'
  <2>1. CASE Throw(c)
    BY <1>3, <2>1
  <2>2. CASE ~Throw(c)
    <3>1. lease = c /\ lease' = c /\ at[c].step \in Between /\ at[c] \in Place
      BY <1>0, <1>18, <2>2 DEF Save, Compose, Between
    <3>2. PICK place : place.step \in {"detect", "execute", "decide"} /\ Go(c, place)
      BY <1>18, <2>2, <3>1 DEF Save, Compose, Place, At
    <3>3. at'[c].step \in Between
      BY <1>0, <3>2 DEF Go, Between
    <3>4. CASE UNCHANGED attempts
      BY <1>5, <1>10, <3>1, <3>2, <3>4 DEF Attempting
    <3>5. CASE ~UNCHANGED attempts
      <4>1. PICK work : attempts' = [attempts EXCEPT ![Frontier] =
                          [attempts[Frontier] EXCEPT !.composite = [work |-> work, effects |-> effects]]]
        BY <1>18, <2>2, <3>5 DEF Save, Compose, Persist
      <4>2. Frontier \in Int
        BY <1>0, FrontierIsCheckpoint
      <4> DEFINE r == [attempts[Frontier] EXCEPT !.composite = [work |-> work, effects |-> effects]]
      <4>3. Frontier \in DOMAIN attempts =>
              /\ r.finished = attempts[Frontier].finished /\ r.effect = attempts[Frontier].effect
              /\ r.before = attempts[Frontier].before /\ r.after = attempts[Frontier].after
        BY <1>0 DEF Attempt
      <4>4. attempts' = [attempts EXCEPT ![Frontier] = r]
        BY <4>1
      <4> HIDE DEF r
      <4> QED
        BY <1>6, <1>18, <3>1, <3>3, <4>2, <4>3, <4>4
    <3> QED
      BY <3>4, <3>5
  <2> QED
    BY <2>1, <2>2
<1>19. ASSUME NEW c \in Controllers, Detect(c) PROVE AttemptsSettled' /\ HolderFinds'
  <2>1. PICK listed : Go(c, [at[c] EXCEPT !.step = "compose", !.listed = listed])
    BY <1>19 DEF Detect
  <2>2. at'[c].step = "compose" /\ \A d \in Controllers \ {c} : at'[d] = at[d]
    BY <1>0, <2>1 DEF Go, Place
  <2>3. lease = c => Open = {}
    BY <1>10, <1>19 DEF Detect, Between
  <2> QED
    BY <1>2, <1>19, <2>2, <2>3 DEF Detect, Between
<1>20. ASSUME NEW c \in Controllers, Decide(c) PROVE AttemptsSettled' /\ HolderFinds'
  <2>1. lease = c /\ lease' = c /\ UNCHANGED attempts /\ Open = {}
    BY <1>10, <1>20 DEF Decide, Between
  <2>2. PICK place : Go(c, place) /\ place.step \in {"wait", "prepare"}
    <3>1. Go(c, At("wait", 0, 0, {})) \/ \E s : Go(c, At("prepare", s, 0, {}))
      BY <1>20 DEF Decide
    <3>2. At("wait", 0, 0, {}).step = "wait" /\ \A s : At("prepare", s, 0, {}).step = "prepare"
      BY DEF At
    <3> QED
      BY <3>1, <3>2
  <2> QED
    BY <1>5, <2>1, <2>2 DEF Between, Attempting
<1>21. CASE LoseLease
  BY <1>0, <1>2, <1>21 DEF LoseLease
<1>22. CASE RuntimeEnds
  <2>1. PICK a \in DOMAIN attempts : attempts' = [attempts EXCEPT ![a].alive = FALSE]
    BY <1>22 DEF RuntimeEnds
  <2>2. /\ DOMAIN attempts' = DOMAIN attempts /\ Newest' = Newest
        /\ \A b \in DOMAIN attempts :
             /\ attempts'[b].finished = attempts[b].finished
             /\ attempts'[b].effect = attempts[b].effect
             /\ attempts'[b].before = attempts[b].before
             /\ attempts'[b].after = attempts[b].after
    BY <1>0, <2>1 DEF Attempt, Newest
  <2> QED
    BY <1>1, <1>22, <2>2 DEF RuntimeEnds
<1>23. CASE Edit \/ SetOverride \/ ReadActive \/ AppendClear \/ UNCHANGED vars
  BY <1>2, <1>23 DEF Edit, SetOverride, ReadActive, AppendClear, vars
<1>24. ASSUME NEW e \in Effects, Coordination(e) PROVE AttemptsSettled' /\ HolderFinds'
  <2>1. UNCHANGED <<attempts, at>> /\ lease' \notin Controllers
    BY <1>0, <1>24, CoordinationStep, HandoffAssumption DEF IInv
  <2> QED
    BY <1>2, <2>1
<1> QED
  BY <1>4, <1>8, <1>9, <1>11, <1>12, <1>13, <1>14, <1>15, <1>16, <1>17, <1>18, <1>19, <1>20, <1>21,
     <1>22, <1>23, <1>24 DEF Next, Controller, World

\* HandoffCarriesFrontier, of one step.
LEMMA HandoffStep ==
  ASSUME IInv, HolderCarries, EffectsAreTrue, AttemptsSettled, HolderFinds, [Next]_vars,
         NEW c \in Controllers, at[c].step = "prepare", at'[c].step = "start", Frontier # 0
  PROVE  LET a == Frontier
             capsule == attempts'[Newest'].capsule
         IN
         /\ workspace = attempts[a].after
         /\ capsule \ Effects = {b \in DOMAIN attempts : Changed(b)}
         /\ \A e \in applied : e \in capsule \/ CutOff(e)
         /\ \A e \in capsule \cap Effects : e \in applied \/ effects[e] = "ambiguous"
         /\ attempts[a].check = "handed_off" =>
              attempts[a].composite = [work |-> attempts[a].after, effects |-> effects]
<1>1. Prepare(c)
  BY PrepareStep
<1>2. attempts \in Seq(Attempt) /\ Len(attempts) \in Nat /\ applied \subseteq Effects
      /\ DOMAIN attempts \subseteq Nat
  BY DEF IInv, TypeOK
<1>3. ~Go(c, At("wait", 0, 0, {}))
  BY Went DEF At, IInv
<1>4. PICK r : ~Refused(at[c].index) /\ attempts' = Append(attempts, r) /\ r.capsule = Carried
  BY <1>1, <1>3 DEF Prepare
<1>5. attempts'[Newest'].capsule = Done
  BY <1>2, <1>4 DEF Newest, Carried
<1>6. EffectsCarried /\ Open = {}
  BY <1>1 DEF Prepare, HolderCarries, Carrying, HolderFinds, Finds, Between
<1>7. ASSUME attempts[Frontier].check = "handed_off"
      PROVE  attempts[Frontier].composite = [work |-> attempts[Frontier].after, effects |-> effects]
  <2>1. Frontier \in DOMAIN attempts
    BY <1>2, FrontierIsCheckpoint DEF Checkpointed
  <2>2. attempts[Frontier].composite \in Composite
    <3>1. attempts[Frontier] \in Attempt
      BY <1>2, <2>1
    <3>2. attempts[Frontier].composite \in Composite \cup {None}
      BY <3>1 DEF Attempt
    <3>3. attempts[Frontier].composite # None
      BY <1>4, <1>7 DEF Refused
    <3> QED
      BY <3>2, <3>3
  <2>3. attempts[Frontier].composite.work = attempts[Frontier].after
    BY <1>4, <1>7 DEF Refused
  <2>4. attempts[Frontier].composite.effects = effects
    BY <1>4, <1>6, <1>7 DEF EffectsCarried, Refused
  <2> QED
    BY <2>2, <2>3, <2>4 DEF Composite
<1>8. Done \ Effects = {b \in DOMAIN attempts : Changed(b)}
  \* All are finished: the log calls done those that changed the workspace.
  <2>1. ASSUME NEW b \in DOMAIN attempts
        PROVE  b \notin Effects /\ (attempts[b].effect = "confirmed" <=> Changed(b))
    <3>1. attempts[b].finished
      BY <1>6 DEF Open
    <3> QED
      BY <1>2, <3>1, HandoffAssumption DEF AttemptsSettled, Settled, Changed
  <2> QED
    BY <2>1 DEF Done
<1>9. ASSUME NEW e \in applied PROVE e \in Done \/ CutOff(e)
  BY <1>2 DEF EffectsAreTrue, Done, CutOff
<1>10. ASSUME NEW e \in Done \cap Effects PROVE e \in applied \/ effects[e] = "ambiguous"
  BY <1>2, HandoffAssumption DEF EffectsAreTrue, Done
<1> QED
  BY <1>4, <1>5, <1>7, <1>8, <1>9, <1>10 DEF Refused

-----------------------------------------------------------------------------
(* Forward *)

\* How far the last places of a command are.
LEMMA LastOnes ==
  ASSUME NEW place, place.step \in {"idle", "wait", "verify"}
  PROVE  Far(place) = 10 * (Len(Plan) + 2)
BY DEF Far

\* Every other place is before them.
LEMMA OnTheWay ==
  ASSUME NEW place \in Place, place.step \notin {"idle", "wait", "verify"},
         ~(place.step = "save" /\ place.source = 0)
  PROVE  /\ Far(place) = 10 * place.index + Order[place.step]
         /\ Far(place) < 10 * (Len(Plan) + 2)
<1>1. place.step \in DOMAIN Order /\ Order[place.step] \in 0..9
  BY DEF Place, Steps, Order
<1>2. Far(place) = 10 * place.index + Order[place.step]
  BY DEF Far
<1>3. place.index \in 0..(Len(Plan) + 1)
  BY DEF Place
<1> QED
  BY <1>1, <1>2, <1>3, PlanFacts

\* A composite may be saved first, before a stage is known.
LEMMA Saving ==
  ASSUME NEW place \in Place, place.step = "save", place.source = 0
  PROVE  Far(place) = 3 /\ Far(place) < 10 * (Len(Plan) + 2)
BY PlanFacts DEF Far

\* GoesForward, of one step.
LEMMA ForwardStep ==
  ASSUME IInv, [Next]_vars, NEW c \in Controllers,
         at[c].step # "idle", at'[c] # at[c], at'[c].step # "idle"
  PROVE  Far(at'[c]) > Far(at[c])
<1> DEFINE i == at[c].index
<1>0. /\ TypeOK /\ at[c] \in Place /\ Placed(at[c]) /\ i \in 0..(Len(Plan) + 1)
      /\ at'[c] \in Place /\ Placed(at'[c]) /\ Len(Plan) \in Nat
  BY TypeHolds, PlanFacts DEF IInv, TypeOK, PlacesHold, Place
<1> DEFINE Way == {"recover", "close", "execute", "detect", "compose", "decide", "stage", "prepare",
                   "start", "prompt", "running", "finish"}
<1>a. \A s \in Way : at[c].step = s => Far(at[c]) = 10 * i + Order[s]
  BY <1>0, OnTheWay
<1>b. \A s \in Way : at'[c].step = s => Far(at'[c]) = 10 * at'[c].index + Order[s]
  BY <1>0, OnTheWay
<1>c. /\ at[c].step = "save" => Far(at[c]) = IF at[c].source = 0 THEN 3 ELSE 10 * i
      /\ at'[c].step = "save" => Far(at'[c]) = IF at'[c].source = 0 THEN 3 ELSE 10 * at'[c].index
  <2>1. ASSUME NEW place \in Place, place.step = "save"
        PROVE  Far(place) = IF place.source = 0 THEN 3 ELSE 10 * place.index
    <3>1. place.index \in Nat /\ Order[place.step] = 0
      BY <2>1, PlanFacts DEF Place, Order
    <3> QED
      BY <2>1, <3>1, OnTheWay, Saving
  <2> QED
    BY <1>0, <2>1
<1>d. /\ Order["recover"] = 1 /\ Order["close"] = 2 /\ Order["execute"] = 4
      /\ Order["detect"] = 1 /\ Order["compose"] = 2 /\ Order["decide"] = 3
      /\ Order["stage"] = 4 /\ Order["prepare"] = 5 /\ Order["start"] = 6
      /\ Order["prompt"] = 7 /\ Order["running"] = 8 /\ Order["finish"] = 9
  BY DEF Order
<1>e. at'[c].index \in Int /\ (at[c].step \in {"recover", "close", "execute"} => i = 0)
      /\ (at'[c].step \in {"recover", "close", "execute"} => at'[c].index = 0)
  BY <1>0 DEF Place, Placed
<1>1. ~Throw(c)
  BY <1>0, Went DEF Throw, Idle, At
<1>2. Controller(c) /\ ~Wait(c) /\ ~Fenced(c) /\ ~Receipt(c)
  <2>1. ~Wait(c) /\ ~Fenced(c) /\ ~Receipt(c)
    BY <1>0, <1>1, Went DEF Wait, Fenced, Receipt, Idle, At
  <2> QED
    BY <1>1, <2>1, OwnSteps DEF Resume, Crash
<1>3. ASSUME at'[c].step \in {"wait", "verify"}, at[c].step \notin {"wait", "verify"}
      PROVE  Far(at'[c]) > Far(at[c])
  <2>1. Far(at'[c]) = 10 * (Len(Plan) + 2)
    BY <1>3, LastOnes
  <2>2. Far(at[c]) < 10 * (Len(Plan) + 2) /\ Far(at[c]) \in Nat
    <3>1. CASE at[c].step = "save" /\ at[c].source = 0
      BY <1>0, <3>1, Saving
    <3>2. CASE ~(at[c].step = "save" /\ at[c].source = 0)
      <4>1. Order[at[c].step] \in Nat
        BY <1>0, <1>3 DEF Place, Steps, Order
      <4> QED
        BY <1>0, <1>3, <3>2, <4>1, OnTheWay
    <3> QED
      BY <3>1, <3>2
  <2> QED
    BY <1>0, <2>1, <2>2
<1>4. CASE Recover(c)
  <2>1. at[c].step = "recover" /\ \E step \in {"execute", "close"} : Go(c, At(step, 0, 0, {}))
    BY <1>1, <1>4 DEF Recover
  <2>2. at'[c].step \in {"execute", "close"}
    BY <1>0, <2>1, Went DEF At
  <2> QED
    BY <1>a, <1>b, <1>d, <1>e, <2>1, <2>2
<1>5. CASE Close(c)
  <2>1. /\ at[c].step = "close"
        /\ \/ Go(c, At("save", 0, 0, {})) \/ Go(c, At("execute", 0, 0, {}))
    BY <1>5 DEF Close
  <2>2. \/ at'[c].step = "save" /\ at'[c].source = 0
        \/ at'[c].step = "execute"
    BY <1>0, <2>1, Went DEF At
  <2> QED
    BY <1>a, <1>b, <1>c, <1>d, <1>e, <2>1, <2>2
<1>6. CASE Execute(c)
  <2>1. /\ at[c].step = "execute"
        /\ \/ Go(c, Idle) \/ Go(c, At("verify", 0, 0, {}))
           \/ Go(c, At("detect", NextStage, attempts[Frontier].stage, {}))
           \/ Go(c, At("stage", NextStage, 0, {}))
    BY <1>6 DEF Execute
  <2>2. \/ at'[c].step = "verify"
        \/ at'[c].step \in {"detect", "stage"} /\ at'[c].index = NextStage
    BY <1>0, <2>1, Went DEF At, Idle
  <2>3. CASE at'[c].step = "verify"
    BY <1>3, <2>1, <2>3
  <2>4. CASE at'[c].step \in {"detect", "stage"} /\ at'[c].index = NextStage
    <3>1. Far(at[c]) = 4
      BY <1>0, <1>a, <1>d, <1>e, <2>1
    <3>2. Far(at'[c]) = 10 * NextStage + 1 \/ Far(at'[c]) = 10 * NextStage + 4
      BY <1>0, <1>b, <1>d, <2>4
    <3> QED
      BY <3>1, <3>2, NextStageInPlan, <1>0
  <2> QED
    BY <2>2, <2>3, <2>4
<1>7. CASE Stage(c)
  <2>1. /\ at[c].step = "stage"
        /\ \/ Go(c, At("prepare", i, 0, {})) \/ Go(c, At("detect", i + 1, i, {}))
           \/ Go(c, At("wait", 0, 0, {}))
    BY <1>7 DEF Stage
  <2>2. \/ at'[c].step = "wait"
        \/ at'[c].step = "prepare" /\ at'[c].index = i
        \/ at'[c].step = "detect" /\ at'[c].index = i + 1
    BY <1>0, <2>1, Went DEF At
  <2>3. CASE at'[c].step = "wait"
    BY <1>3, <2>1, <2>3
  <2>4. CASE at'[c].step # "wait"
    <3>1. Far(at[c]) = 10 * i + 4
      BY <1>0, <1>a, <1>d, <2>1
    <3>2. Far(at'[c]) = 10 * i + 5 \/ Far(at'[c]) = 10 * (i + 1) + 1
      BY <1>0, <1>b, <1>d, <2>2, <2>4
    <3> QED
      BY <1>0, <3>1, <3>2
  <2> QED
    BY <2>3, <2>4
<1>8. CASE Prepare(c) \/ Start(c) \/ Prompt(c) \/ Checkpoint(c)
  <2>1. \/ at[c].step = "prepare" /\ Go(c, At("wait", 0, 0, {}))
        \/ at[c].step = "prepare" /\ Go(c, At("start", i, 0, {}))
        \/ at[c].step = "start" /\ Go(c, At("prompt", i, 0, {}))
        \/ at[c].step = "prompt" /\ Go(c, At("running", i, 0, {}))
        \/ at[c].step = "running" /\ Go(c, At("finish", i, 0, {}))
    BY <1>1, <1>8 DEF Prepare, Start, Prompt, Checkpoint
  <2>2. \/ at[c].step = "prepare" /\ at'[c].step = "wait"
        \/ /\ at'[c].index = i
           /\ \/ at[c].step = "prepare" /\ at'[c].step = "start"
              \/ at[c].step = "start" /\ at'[c].step = "prompt"
              \/ at[c].step = "prompt" /\ at'[c].step = "running"
              \/ at[c].step = "running" /\ at'[c].step = "finish"
    BY <1>0, <2>1, Went DEF At
  <2>3. CASE at'[c].step = "wait"
    BY <1>3, <2>2, <2>3
  <2>4. CASE at'[c].step # "wait"
    BY <1>0, <1>a, <1>b, <1>d, <2>2, <2>4
  <2> QED
    BY <2>3, <2>4
<1>9. CASE Finish(c)
  <2>1. /\ at[c].step = "finish"
        /\ \/ Go(c, At("verify", 0, 0, {})) \/ Go(c, At("wait", 0, 0, {}))
           \/ Go(c, At("save", i + 1, i, {}))
    BY <1>9 DEF Finish
  <2>2. \/ at'[c].step \in {"verify", "wait"}
        \/ at'[c].step = "save" /\ at'[c].index = i + 1 /\ at'[c].source = i
    BY <1>0, <2>1, Went DEF At
  <2>3. CASE at'[c].step \in {"verify", "wait"}
    BY <1>3, <2>1, <2>3
  <2>4. CASE at'[c].step = "save" /\ at'[c].index = i + 1 /\ at'[c].source = i
    <3>1. i \in 1..Len(Plan)
      BY <1>0, <2>1, PlanFacts DEF Placed
    <3> QED
      BY <1>a, <1>c, <1>d, <2>1, <2>4, <3>1
  <2> QED
    BY <2>2, <2>3, <2>4
<1>10. CASE Save(c)
  <2>1. /\ at[c].step = "save"
        /\ Go(c, IF at[c].source # 0 THEN [at[c] EXCEPT !.step = "detect"]
                 ELSE At("execute", 0, 0, {}))
    BY <1>1, <1>10 DEF Save
  <2>2. CASE at[c].source # 0
    <3>1. at'[c].step = "detect" /\ at'[c].index = i
      BY <1>0, <2>1, <2>2, Went DEF Place
    <3> QED
      BY <1>0, <1>b, <1>c, <1>d, <2>1, <2>2, <3>1
  <2>3. CASE at[c].source = 0
    <3>1. at'[c].step = "execute" /\ at'[c].index = 0
      BY <1>0, <2>1, <2>3, Went DEF At
    <3> QED
      BY <1>b, <1>c, <1>d, <2>1, <2>3, <3>1
  <2> QED
    BY <2>2, <2>3
<1>11. CASE Detect(c) \/ Compose(c)
  <2>1. \/ /\ at[c].step = "detect"
           /\ \E listed : Go(c, [at[c] EXCEPT !.step = "compose", !.listed = listed])
        \/ at[c].step = "compose" /\ Go(c, [at[c] EXCEPT !.step = "decide"])
    BY <1>1, <1>11 DEF Detect, Compose
  <2>2. /\ at'[c].index = i
        /\ \/ at[c].step = "detect" /\ at'[c].step = "compose"
           \/ at[c].step = "compose" /\ at'[c].step = "decide"
    <3>1. CASE at[c].step = "detect"
      <4>1. PICK listed : Go(c, [at[c] EXCEPT !.step = "compose", !.listed = listed])
        BY <2>1, <3>1
      <4> QED
        <5>1. at'[c] = [at[c] EXCEPT !.step = "compose", !.listed = listed]
          BY <1>0, <4>1, Went
        <5> QED
          BY <1>0, <3>1, <5>1 DEF Place
    <3>2. CASE at[c].step = "compose"
      BY <1>0, <2>1, <3>2, Went DEF Place
    <3> QED
      BY <2>1, <3>1, <3>2
  <2> QED
    BY <1>0, <1>a, <1>b, <1>d, <2>2
<1>12. CASE Decide(c)
  <2>1. at[c].step = "decide"
    BY <1>12 DEF Decide
  <2>2. CASE Go(c, At("wait", 0, 0, {}))
    BY <1>0, <1>3, <2>1, <2>2, Went DEF At
  <2>3. CASE ~Go(c, At("wait", 0, 0, {}))
    <3>1. PICK ids \in Orders :
            \E d \in PlannerInput(i, at[c].source, at[c].listed, ids).candidates :
               Go(c, At("prepare", d.stage, 0, {}))
      BY <1>12, <2>3 DEF Decide
    <3>2. PICK s \in Stages : s >= i /\ Go(c, At("prepare", s, 0, {}))
      BY <3>1 DEF PlannerInput, Candidate
    <3>3. at'[c].step = "prepare" /\ at'[c].index = s
      BY <1>0, <3>2, Went DEF At
    <3> QED
      BY <1>0, <1>a, <1>b, <1>d, <2>1, <3>2, <3>3, PlanFacts
  <2> QED
    BY <2>2, <2>3
<1> QED
  BY <1>2, <1>4, <1>5, <1>6, <1>7, <1>8, <1>9, <1>10, <1>11, <1>12 DEF Controller

-----------------------------------------------------------------------------
(* The decision *)

\* The stage in force, as the property states it, is that of the override the fold finds.
LEMMA InForceIsActive ==
  ASSUME TypeOK
  PROVE  InForce = IF ActiveOverride = None THEN {} ELSE {ActiveOverride.stage}
<1> DEFINE n == Len(overrides)
           Stands(j) == \A k \in (j + 1)..n : overrides[k].kind = "cleared" /\ overrides[k].id # overrides[j].id
<1>1. /\ overrides \in Seq(Override) /\ n \in Nat /\ DOMAIN overrides = 1..n
      /\ \A i \in 1..n : overrides[i].kind \in {"set", "cleared"} /\ overrides[i] # None
  <2>1. overrides \in Seq(Override)
    BY DEF TypeOK
  <2>2. \A i \in 1..n : overrides[i] \in Override
    BY <2>1
  <2>3. \A o \in Override : o # None /\ o.kind \in {"set", "cleared"}
    BY HandoffAssumption DEF Override
  <2> QED
    BY <2>1, <2>2, <2>3
<1>2. Set = SetUpTo(n) /\ ActiveOverride = ActiveUpTo(n)
  BY <1>1, ActiveIsLast DEF Set, SetUpTo
<1>3. InForce = {overrides[i].stage : i \in {j \in Set : Stands(j)}}
  BY DEF InForce
<1>4. CASE SetUpTo(n) = {}
  BY <1>2, <1>3, <1>4 DEF ActiveUpTo
<1>5. CASE SetUpTo(n) # {}
  <2> DEFINE J == CHOOSE j \in SetUpTo(n) : \A i \in SetUpTo(n) : i <= j
  <2>1. J \in SetUpTo(n) /\ \A i \in SetUpTo(n) : i <= J
    BY <1>1, <1>5, LastSet
  <2>2. ActiveUpTo(n) = IF \E k \in (J + 1)..n : overrides[k].id = overrides[J].id THEN None
                        ELSE overrides[J]
    BY <1>5 DEF ActiveUpTo
  <2> HIDE DEF J
  <2>3. J \in 1..n /\ overrides[J] # None
    BY <1>1, <2>1 DEF SetUpTo
  <2>4. \A k \in (J + 1)..n : overrides[k].kind = "cleared"
    BY <1>1, <2>1, <2>3 DEF SetUpTo
  <2>5. \A j \in Set : Stands(j) => j = J
    <3> SUFFICES ASSUME NEW j \in Set, Stands(j), j # J PROVE FALSE
      OBVIOUS
    <3>1. j \in 1..n /\ j < J
      BY <1>1, <1>2, <2>1, <2>3 DEF SetUpTo
    <3>2. J \in (j + 1)..n /\ overrides[J].kind = "set"
      BY <2>1, <2>3, <3>1 DEF SetUpTo
    <3> QED
      BY <3>2
  <2>6. Stands(J) <=> ActiveUpTo(n) # None
    BY <2>2, <2>3, <2>4
  <2> HIDE DEF Stands
  <2>7. CASE ActiveUpTo(n) = None
    BY <1>2, <1>3, <2>5, <2>6, <2>7
  <2>8. CASE ActiveUpTo(n) # None
    <3>1. {j \in Set : Stands(j)} = {J}
      BY <1>2, <2>1, <2>5, <2>6, <2>8
    <3> QED
      BY <1>2, <1>3, <2>2, <2>8, <3>1
  <2> QED
    BY <2>7, <2>8
<1> QED
  BY <1>4, <1>5

\* When a candidate is not rejected, without a window and a budget.
LEMMA NoRejection ==
  ASSUME NEW k, NEW in, in.window = None, in.budget = None
  PROVE  Rejections(k, in) = {} <=>
           /\ k.ready
           /\ ~(in.allowed # None /\ k.harness \notin in.allowed)
           /\ in.required \subseteq k.capabilities
           /\ \A a \in DOMAIN in.adapter : MeetsMinimum(k.adapter[a], in.adapter[a])
           /\ BlockingStates(k, in) = {}
           /\ Conflicts(k, in) = {}
<1>1. \A had, u, i : Lacking(None, had, u, i) = {}
  BY DEF Lacking
<1> QED
  BY <1>1 DEF Rejections, Reason

\* The adapter must do what the failed stage's did.
LEMMA MinimumMet ==
  ASSUME NEW s \in Stages, NEW source \in Stages, Plan[source].gate \subseteq Plan[s].gate
  PROVE  \A a \in DOMAIN MinimumOf(source) :
           /\ MeetsMinimum(AdapterOf(s)[a], MinimumOf(source)[a])
           /\ MinimumOf(source)[a] \in {"native", "cooperative", "process-only"}
<1>1. CASE Plan[source].gate = {}
  BY <1>1 DEF MinimumOf, AdapterOf, MeetsMinimum, Level
<1>2. CASE Plan[source].gate # {}
  <2>1. AdapterOf(s).preToolGate = "native"
    BY <1>2 DEF AdapterOf
  <2>2. MinimumOf(source) = [observe |-> "native", interrupt |-> "process-only", preToolGate |-> "native"]
    BY <1>2 DEF MinimumOf
  <2>3. AdapterOf(s).observe = "native" /\ AdapterOf(s).interrupt = "process-only"
    BY DEF AdapterOf
  <2> QED
    BY <2>1, <2>2, <2>3 DEF MeetsMinimum, Level
<1> QED
  BY <1>1, <1>2

\* A stage has the capabilities of the failed one: it is not hosted, and it may write and
\* gate what that one could.
LEMMA CapabilitiesMet ==
  ASSUME NEW s \in Stages, NEW source \in Stages
  PROVE  RequiredOf(source) \subseteq Capabilities(s) <=>
           /\ ~Plan[s].hosted
           /\ ~Plan[source].hosted => Plan[source].writes \subseteq Plan[s].writes
           /\ Plan[source].gate \subseteq Plan[s].gate
<1>1. \A t \in Stages : /\ Plan[t].writes \subseteq {"workspace-write"}
                       /\ Plan[t].gate \subseteq {"pre-tool-gate"} /\ Plan[t].hosted \in BOOLEAN
  BY HandoffAssumption
<1>2. CASE Plan[s].hosted
  <2>1. "workspace-read" \in RequiredOf(source) /\ "workspace-read" \notin Capabilities(s)
    BY <1>2 DEF RequiredOf, Capabilities, Base
  <2> QED
    BY <1>2, <2>1
<1>3. CASE ~Plan[s].hosted
  <2>1. Capabilities(s) = Base \cup Plan[s].writes \cup Plan[s].gate
    BY <1>3 DEF Capabilities
  <2>2. /\ "workspace-write" \notin Base \cup Plan[s].gate
        /\ "pre-tool-gate" \notin Base \cup Plan[s].writes
    BY <1>1 DEF Base
  <2>3. Plan[source].gate \subseteq Capabilities(s) <=> Plan[source].gate \subseteq Plan[s].gate
    BY <1>1, <2>1, <2>2
  <2>4. Plan[source].writes \subseteq Capabilities(s) <=> Plan[source].writes \subseteq Plan[s].writes
    BY <1>1, <2>1, <2>2
  <2>5. CASE Plan[source].hosted
    BY <1>3, <2>1, <2>3, <2>5 DEF RequiredOf
  <2>6. CASE ~Plan[source].hosted
    BY <1>3, <2>1, <2>3, <2>4, <2>6 DEF RequiredOf
  <2> QED
    BY <2>5, <2>6
<1> QED
  BY <1>2, <1>3

\* LeastMember, as Rank counts.
LEMMA LeastIs ==
  ASSUME NEW S \in SUBSET Nat, S # {}
  PROVE  \E m \in S : ~\E n \in S : n < m
BY LeastMember

\* What the planner is given for one controller, with these ids of Profiles.
Given(c, ids) == PlannerInput(at[c].index, at[c].source, at[c].listed, ids)
Offered(c, ids, s) == Candidate(s, ids, at[c].listed)
Remaining(c) == {s \in Stages : s >= at[c].index}

\* The candidates are the stages left, each with an id of its own.
LEMMA CandidatesGiven ==
  ASSUME NEW c \in Controllers, NEW ids \in Orders, IInv, at[c].step = "decide"
  PROVE  /\ Given(c, ids).candidates = {Offered(c, ids, s) : s \in Remaining(c)}
         /\ at[c].source \in Stages
         /\ \A s \in Stages : /\ ids[s] \in Nat \ {0} /\ ids[s] # None /\ ids[s] # Unresolved
                             /\ Offered(c, ids, s).id = ids[s] /\ Offered(c, ids, s).stage = s
         /\ \A s, t \in Stages : ids[s] = ids[t] => s = t
         /\ Unresolved # None
<1>1. Given(c, ids).candidates = {Offered(c, ids, s) : s \in Remaining(c)}
  BY DEF Given, Offered, Remaining, PlannerInput
<1>2. at[c].source \in Stages
  BY DEF IInv, PlacesHold, Placed
<1>3. \A s \in Stages : Offered(c, ids, s).id = ids[s] /\ Offered(c, ids, s).stage = s
  BY DEF Offered, Candidate
<1>4. ids \in [Stages -> Stages] /\ \A s, t \in Stages : ids[s] = ids[t] => s = t
  BY DEF Orders, IsInjective
<1>5. None \notin Nat
  BY HandoffAssumption
<1>6. Unresolved \in Nat /\ \A s \in Stages : ids[s] \in Nat \ {0} /\ ids[s] # Unresolved
  BY <1>4, PlanFacts DEF Unresolved
<1> QED
  BY <1>1, <1>2, <1>3, <1>4, <1>5, <1>6

\* No state blocks a candidate when the frontier's composite has the workspace as it is.
LEMMA StatesCarry ==
  ASSUME NEW c \in Controllers, NEW ids \in Orders, IInv, at[c].step = "decide",
         NEW s \in Stages
  PROVE  BlockingStates(Offered(c, ids, s), Given(c, ids)) = {} <=>
           (Frontier # 0 => /\ attempts[Frontier].composite # None
                            /\ attempts[Frontier].composite.work = attempts[Frontier].after)
<1> DEFINE k == Offered(c, ids, s)
           in == Given(c, ids)
<1>1. /\ DOMAIN in.states = {"outcome", "workspace", "context", "effects"}
      /\ \A x \in DOMAIN in.states : in.states[x] = TRUE
      /\ in.current = IF Checkpointed = {} THEN None ELSE 0
  BY DEF Given, PlannerInput
<1>2. k.states = StateOf /\ k.id = ids[s]
  BY DEF Offered, Candidate
<1>3. Frontier = 0 <=> Checkpointed = {}
  BY FrontierIsCheckpoint DEF IInv, TypeOK
<1>4. ids[s] # 0 /\ ids[s] # None /\ None # 0 /\ None \notin Classes
  BY CandidatesGiven, HandoffAssumption
<1> DEFINE Carries == Frontier # 0 => /\ attempts[Frontier].composite # None
                                     /\ attempts[Frontier].composite.work = attempts[Frontier].after
<1> SUFFICES BlockingStates(k, in) = {} <=> Carries
  OBVIOUS
<1> HIDE DEF k, in
<1>5. CASE Frontier = 0
  <2>1. \A x : Classification(k, in, x) = "exact"
    BY <1>1, <1>3, <1>5 DEF Classification
  <2> QED
    BY <1>5, <2>1 DEF BlockingStates
<1>6. CASE Frontier # 0
  <2>0. in.current \notin {None, k.id}
    BY <1>1, <1>2, <1>3, <1>4, <1>6
  <2>1. \A x : Classification(k, in, x) = IF StateOf[x] = None THEN "unavailable" ELSE StateOf[x]
    BY <1>2, <2>0 DEF Classification
  <2>2. CASE attempts[Frontier].composite = None
    <3>1. StateOf["workspace"] = "unavailable"
      BY <1>6, <2>2 DEF StateOf
    <3>2. "workspace" \in BlockingStates(k, in)
      BY <1>1, <2>1, <3>1 DEF BlockingStates
    <3> QED
      BY <1>6, <2>2, <3>2
  <2>3. CASE attempts[Frontier].composite # None
    <3>1. StateOf = [outcome |-> "exact", context |-> "summarized", effects |-> "exact",
                     workspace |-> IF attempts[Frontier].composite.work = attempts[Frontier].after
                                   THEN "exact" ELSE "blocking"]
      BY <1>6, <2>3 DEF StateOf
    <3>2. None \notin {"exact", "summarized", "blocking"}
      BY <1>4 DEF Classes
    <3>3. CASE attempts[Frontier].composite.work = attempts[Frontier].after
      <4>1. \A x \in DOMAIN in.states : Classification(k, in, x) \in {"exact", "summarized"}
        BY <1>1, <2>1, <3>1, <3>2, <3>3
      <4> QED
        BY <1>6, <2>3, <3>3, <4>1 DEF BlockingStates
    <3>4. CASE attempts[Frontier].composite.work # attempts[Frontier].after
      <4>1. Classification(k, in, "workspace") = "blocking"
        BY <2>1, <3>1, <3>2, <3>4
      <4>2. "workspace" \in BlockingStates(k, in)
        BY <1>1, <4>1 DEF BlockingStates
      <4> QED
        BY <1>6, <3>4, <4>2
    <3> QED
      BY <3>3, <3>4
  <2> QED
    BY <2>2, <2>3
<1> QED
  BY <1>5, <1>6

\* The planner's filter takes the stages that qualify.
LEMMA EligibleIsQualified ==
  ASSUME NEW c \in Controllers, NEW ids \in Orders, IInv, at[c].step = "decide"
  PROVE  Eligible(Given(c, ids)) = {Offered(c, ids, s) : s \in Qualified(c)}
<1> DEFINE in == Given(c, ids)
<1>1. /\ in.window = None /\ in.budget = None
      /\ in.required = RequiredOf(at[c].source) /\ in.adapter = MinimumOf(at[c].source)
      /\ in.allowed = {Plan[s].harness : s \in Remaining(c) \cup {at[c].source}}
  BY DEF Given, PlannerInput, Remaining
<1>2. at[c].source \in Stages /\ in.candidates = {Offered(c, ids, s) : s \in Remaining(c)}
  BY CandidatesGiven
<1>3. ASSUME NEW s \in Remaining(c)
      PROVE  Rejections(Offered(c, ids, s), in) = {} <=> s \in Qualified(c)
  <2> DEFINE k == Offered(c, ids, s)
  <2>1. /\ k.ready = (s \in at[c].listed) /\ k.harness = Plan[s].harness
        /\ k.capabilities = Capabilities(s) /\ k.adapter = AdapterOf(s) /\ k.repeats = {}
    BY DEF Offered, Candidate
  <2>2. s \in Stages /\ s >= at[c].index /\ s \in at[c].index..Len(Plan)
    BY PlanFacts DEF Remaining, IInv, TypeOK, Place
  <2>3. k.harness \in in.allowed
    BY <1>1, <2>1
  <2>4. Conflicts(k, in) = {}
    BY <2>1 DEF Conflicts
  <2>5. BlockingStates(k, in) = {} <=>
           (Frontier # 0 => /\ attempts[Frontier].composite # None
                            /\ attempts[Frontier].composite.work = attempts[Frontier].after)
    BY <2>2, StatesCarry
  <2> HIDE DEF k, in
  <2>6. Rejections(k, in) = {} <=>
          /\ s \in at[c].listed
          /\ RequiredOf(at[c].source) \subseteq Capabilities(s)
          /\ \A a \in DOMAIN MinimumOf(at[c].source) :
                MeetsMinimum(AdapterOf(s)[a], MinimumOf(at[c].source)[a])
          /\ BlockingStates(k, in) = {}
    <3>1. Rejections(k, in) = {} <=>
            /\ k.ready
            /\ ~(in.allowed # None /\ k.harness \notin in.allowed)
            /\ in.required \subseteq k.capabilities
            /\ \A a \in DOMAIN in.adapter : MeetsMinimum(k.adapter[a], in.adapter[a])
            /\ BlockingStates(k, in) = {}
            /\ Conflicts(k, in) = {}
      BY <1>1, NoRejection
    <3> QED
      BY <1>1, <2>1, <2>3, <2>4, <3>1
  <2>7. RequiredOf(at[c].source) \subseteq Capabilities(s) =>
          \A a \in DOMAIN MinimumOf(at[c].source) :
                MeetsMinimum(AdapterOf(s)[a], MinimumOf(at[c].source)[a])
    BY <1>2, <2>2, CapabilitiesMet, MinimumMet
  <2>8. Rejections(k, in) = {} <=>
          /\ s \in at[c].listed
          /\ RequiredOf(at[c].source) \subseteq Capabilities(s)
          /\ Frontier # 0 => /\ attempts[Frontier].composite # None
                             /\ attempts[Frontier].composite.work = attempts[Frontier].after
    BY <2>5, <2>6, <2>7
  <2>9. RequiredOf(at[c].source) \subseteq Capabilities(s) <=>
          /\ ~Plan[s].hosted
          /\ ~Plan[at[c].source].hosted => Plan[at[c].source].writes \subseteq Plan[s].writes
          /\ Plan[at[c].source].gate \subseteq Plan[s].gate
    BY <1>2, <2>2, CapabilitiesMet
  <2> QED
    BY <2>2, <2>8, <2>9 DEF Qualified, k
<1>4. Qualified(c) \subseteq Remaining(c)
  BY PlanFacts DEF Qualified, Remaining, IInv, TypeOK, Place
<1> HIDE DEF in
<1> QED
  BY <1>2, <1>3, <1>4 DEF Eligible, in

\* The input is one that planExecution accepts.
LEMMA InputIsValid ==
  ASSUME NEW c \in Controllers, NEW ids \in Orders, IInv, at[c].step = "decide"
  PROVE  ValidInput(Given(c, ids))
<1> DEFINE in == Given(c, ids)
<1>1. /\ in.window = None /\ in.budget = None /\ in.adapter = MinimumOf(at[c].source)
      /\ in.allowed = {Plan[s].harness : s \in Remaining(c) \cup {at[c].source}}
  BY DEF Given, PlannerInput, Remaining
<1>2. /\ at[c].source \in Stages /\ in.candidates = {Offered(c, ids, s) : s \in Remaining(c)}
      /\ Remaining(c) \subseteq Stages
  BY CandidatesGiven DEF Remaining
<1>3. \A a \in DOMAIN in.adapter : in.adapter[a] \in {"native", "cooperative", "process-only"}
  BY <1>1, <1>2, MinimumMet
<1>4. ASSUME NEW s \in Remaining(c) PROVE ValidCandidate(Offered(c, ids, s))
  <2>1. /\ Offered(c, ids, s).window = None /\ Offered(c, ids, s).budget = Plan[s].budget
        /\ Offered(c, ids, s).adapter = AdapterOf(s)
    BY DEF Offered, Candidate
  <2>2. Plan[s].budget \in Nat \ {0}
    BY <1>2, HandoffAssumption
  <2>3. \A a \in DOMAIN AdapterOf(s) : AdapterOf(s)[a] \in Fidelities
    BY DEF AdapterOf, Fidelities
  <2> QED
    BY <2>1, <2>2, <2>3 DEF ValidCandidate, Positive
<1>5. \A s, t \in Remaining(c) : Offered(c, ids, s).id = Offered(c, ids, t).id => s = t
  BY <1>2, CandidatesGiven
<1> HIDE DEF in
<1>6. ValidRequirements(in)
  BY <1>1, <1>3 DEF ValidRequirements, Positive
<1>7. ValidInput(in)
  BY <1>2, <1>4, <1>5, <1>6 DEF ValidInput
<1> QED
  BY <1>7 DEF in

\* No candidate is the Profile in use, and they differ in their ids only.
LEMMA LeastIsFirst ==
  ASSUME NEW c \in Controllers, NEW ids \in Orders, IInv, at[c].step = "decide",
         Qualified(c) # {}
  PROVE  \E s \in Qualified(c) : Rank(Given(c, ids))[Offered(c, ids, s)] = 1
<1> DEFINE in == Given(c, ids)
           N == {ids[s] : s \in Qualified(c)}
<1>1. Qualified(c) \subseteq Remaining(c) /\ Remaining(c) \subseteq Stages
  BY PlanFacts DEF Qualified, Remaining, IInv, TypeOK, Place
<1>2. \A s \in Stages : ids[s] \in Nat /\ Offered(c, ids, s).id = ids[s]
  BY CandidatesGiven
<1>3. N \in SUBSET Nat /\ N # {}
  BY <1>1, <1>2
<1>4. PICK m \in N : ~\E n \in N : n < m
  BY <1>3, LeastIs
<1>5. PICK s \in Qualified(c) : m = ids[s]
  BY <1>4
<1>6. Eligible(in) = {Offered(c, ids, t) : t \in Qualified(c)}
  BY EligibleIsQualified
<1>7. ASSUME NEW t \in Qualified(c)
      PROVE  ~Precedes(RankVector(Offered(c, ids, t), in), RankVector(Offered(c, ids, s), in))
  <2>1. Current(in) = {}
    <3>1. in.current \in {None, 0} /\ in.candidates = {Offered(c, ids, u) : u \in Remaining(c)}
      BY CandidatesGiven DEF Given, PlannerInput
    <3>2. \A u \in Remaining(c) : Offered(c, ids, u).id \notin {None, 0}
      BY <1>1, CandidatesGiven
    <3> HIDE DEF in
    <3> QED
      BY <3>1, <3>2 DEF Current
  <2>2. \A u \in Stages : RankVector(Offered(c, ids, u), in) =
           <<0, 0, 1, Unknown, Unknown, Unknown, Unknown, ids[u]>>
    <3> TAKE u \in Stages
    <3>1. Offered(c, ids, u).observation = Observed /\ Offered(c, ids, u).id = ids[u]
      BY DEF Offered, Candidate
    <3>2. Continuity(Offered(c, ids, u), in) = 0
      BY <2>1 DEF Continuity
    <3>3. /\ Observed.freshness = "fresh" /\ Observed.source = "local" /\ Observed.quota = None
          /\ Observed.cost = None /\ Observed.latency = None /\ Observed.success = None
      BY DEF Observed
    <3>4. Freshness["fresh"] = 0 /\ Source["local"] = 1
      BY DEF Freshness, Source
    <3> HIDE DEF in
    <3> QED
      BY <3>1, <3>2, <3>3, <3>4 DEF RankVector, Short, Amount
  <2>3. s \in Stages /\ t \in Stages /\ ids[s] \in Nat /\ ids[t] \in Nat /\ ~(ids[t] < ids[s])
    BY <1>1, <1>2, <1>4, <1>5
  <2>4. Unknown \in Nat
    BY DEF Unknown
  <2> DEFINE v == <<0, 0, 1, Unknown, Unknown, Unknown, Unknown, ids[t]>>
             w == <<0, 0, 1, Unknown, Unknown, Unknown, Unknown, ids[s]>>
  <2>5. DOMAIN v = 1..8 /\ \A i \in 1..8 : ~(v[i] < w[i])
    BY <2>3, <2>4
  <2>6. ~Precedes(v, w)
    BY <2>5 DEF Precedes
  <2> QED
    BY <2>2, <2>3, <2>6
<1>8. {d \in Eligible(in) : Precedes(RankVector(d, in), RankVector(Offered(c, ids, s), in))} = {}
  BY <1>6, <1>7
<1>9. Offered(c, ids, s) \in Eligible(in)
  BY <1>6
<1>10. Rank(in)[Offered(c, ids, s)] = 1 + Cardinality({})
  BY <1>8, <1>9 DEF Rank
<1> QED
  BY <1>10, FS_EmptySet

\* What is chosen: nothing when there is nothing right, and else one stage that is.
Right(c) == IF InForce = {} THEN Qualified(c) ELSE Qualified(c) \cap InForce
Chosen(c, ids) ==
  {k.stage : k \in {d \in Given(c, ids).candidates : d.id = PlanExecution(Given(c, ids)).profile}}

\* planExecution chooses a stage that is right, and none only when none is.
LEMMA ChosenIsRight ==
  ASSUME NEW c \in Controllers, NEW ids \in Orders, IInv, at[c].step = "decide"
  PROVE  Chosen(c, ids) \subseteq Right(c) /\ (Chosen(c, ids) = {} => Right(c) = {})
<1> DEFINE in == Given(c, ids)
           profile == PlanExecution(in).profile
<1>1. PlanExecution(in) = Bind(in)
  BY InputIsValid DEF PlanExecution
<1>2. /\ Qualified(c) \subseteq Remaining(c) /\ Remaining(c) \subseteq Stages
      /\ Eligible(in) = {Offered(c, ids, s) : s \in Qualified(c)}
  <2>1. Qualified(c) \subseteq Remaining(c) /\ Remaining(c) \subseteq Stages
    BY PlanFacts DEF Qualified, Remaining, IInv, TypeOK, Place
  <2> QED
    BY <2>1, EligibleIsQualified
<1>3. /\ in.candidates = {Offered(c, ids, s) : s \in Remaining(c)}
      /\ \A s \in Stages : /\ ids[s] # None /\ ids[s] # 0 /\ ids[s] # Unresolved
                          /\ Offered(c, ids, s).id = ids[s] /\ Offered(c, ids, s).stage = s
      /\ \A s, t \in Stages : ids[s] = ids[t] => s = t
      /\ Unresolved # None
  BY CandidatesGiven
<1>4. in.override = IF ActiveOverride = None THEN None
                    ELSE IF ActiveOverride.stage \in Remaining(c) THEN ids[ActiveOverride.stage]
                    ELSE Unresolved
  BY DEF Given, PlannerInput, Remaining
<1>5. InForce = IF ActiveOverride = None THEN {} ELSE {ActiveOverride.stage}
  BY InForceIsActive DEF IInv
<1>6. Current(in) = {}
  <2>1. in.current \in {None, 0}
    BY DEF Given, PlannerInput
  <2> HIDE DEF in
  <2> QED
    BY <1>2, <1>3, <2>1 DEF Current
<1>7. Chosen(c, ids) = {s \in Remaining(c) : ids[s] = profile}
  BY <1>2, <1>3 DEF Chosen
<1> HIDE DEF in
<1>8. \A reason : Blocked(reason).profile = None
  BY DEF Blocked
<1>9. \A k, reason : Bound(k, in, reason).profile = k.id
  BY DEF Bound
<1>10. ASSUME profile = None PROVE Chosen(c, ids) = {}
  BY <1>2, <1>3, <1>7, <1>10
<1>11. ASSUME NEW s \in Qualified(c), profile = Offered(c, ids, s).id PROVE Chosen(c, ids) = {s}
  BY <1>2, <1>3, <1>7, <1>11
<1>12. CASE ActiveOverride = None
  <2>1. in.override = None /\ Right(c) = Qualified(c)
    BY <1>4, <1>5, <1>12 DEF Right
  <2>2. profile = BindRanked(in).profile
    BY <1>1, <2>1 DEF Bind
  <2>3. CASE Qualified(c) = {}
    <3>1. profile = None
      BY <1>2, <1>6, <1>8, <2>2, <2>3 DEF BindRanked
    <3> QED
      BY <1>10, <2>1, <2>3, <3>1
  <2>4. CASE Qualified(c) # {}
    <3> DEFINE K == CHOOSE k \in Eligible(in) : Rank(in)[k] = 1
    <3>1. \E k \in Eligible(in) : Rank(in)[k] = 1
      BY <1>2, <2>4, LeastIsFirst DEF in
    <3>2. K \in Eligible(in)
      BY <3>1
    <3>3. profile = K.id
      BY <1>2, <1>6, <1>9, <2>2, <2>4 DEF BindRanked
    <3> HIDE DEF K
    <3>4. PICK s \in Qualified(c) : K = Offered(c, ids, s)
      BY <1>2, <3>2
    <3> QED
      BY <1>11, <2>1, <3>3, <3>4
  <2> QED
    BY <2>3, <2>4
<1>13. CASE ActiveOverride # None
  <2>1. Right(c) = Qualified(c) \cap {ActiveOverride.stage}
    BY <1>5, <1>13 DEF Right
  <2>2. in.override # None
    BY <1>2, <1>3, <1>4, <1>13
  <2>3. profile = BindOverride(in).profile
    BY <1>1, <2>2 DEF Bind
  <2> DEFINE requested == {k \in Eligible(in) : k.id = in.override}
  <2>4. requested = {Offered(c, ids, s) : s \in Right(c)}
    <3>1. \A s \in Qualified(c) : Offered(c, ids, s).id = in.override <=> s = ActiveOverride.stage
      BY <1>2, <1>3, <1>4, <1>13
    <3> QED
      BY <1>2, <2>1, <3>1
  <2>5. CASE Right(c) = {}
    <3>1. profile = None
      BY <1>8, <2>3, <2>4, <2>5 DEF BindOverride
    <3> QED
      BY <1>10, <2>5, <3>1
  <2>6. CASE Right(c) # {}
    <3> DEFINE K == CHOOSE k \in requested : TRUE
    <3>1. requested # {}
      BY <2>4, <2>6
    <3>2. K \in requested
      BY <3>1
    <3>3. profile = K.id
      BY <1>9, <2>3, <3>1 DEF BindOverride
    <3> HIDE DEF K, requested
    <3>4. PICK s \in Right(c) : K = Offered(c, ids, s)
      BY <2>4, <3>2
    <3>5. s \in Qualified(c)
      BY <2>1
    <3>6. Chosen(c, ids) = {s}
      BY <1>11, <3>3, <3>4, <3>5
    <3> QED
      BY <3>4, <3>6
  <2> QED
    BY <2>5, <2>6
<1> QED
  BY <1>12, <1>13

\* DecisionIsRight, of one step.
LEMMA DecisionStep ==
  ASSUME IInv, [Next]_vars, NEW c \in Controllers,
         at[c].step = "decide", at'[c].step \in {"prepare", "wait"}
  PROVE  IF at'[c].step = "wait" THEN Right(c) = {} ELSE at'[c].index \in Right(c)
<1>1. Decide(c)
  <2>1. Resume(c) \/ Crash(c) \/ Controller(c)
    BY OwnSteps
  <2>2. ~Throw(c)
    BY Went DEF Throw, Idle, At, IInv
  <2> QED
    BY <2>1, <2>2 DEF Resume, Crash, Controller, Recover, Close, Execute, Stage, Prepare, Start,
       Prompt, Checkpoint, Finish, Save, Detect, Compose, Receipt, Wait, Fenced
<1>2. PICK ids \in Orders :
        \/ Chosen(c, ids) = {} /\ Go(c, At("wait", 0, 0, {}))
        \/ \E s \in Chosen(c, ids) : Go(c, At("prepare", s, 0, {}))
  BY <1>1 DEF Decide, Chosen, Given
<1>3. Chosen(c, ids) \subseteq Right(c) /\ (Chosen(c, ids) = {} => Right(c) = {})
  BY ChosenIsRight
<1>4. CASE Chosen(c, ids) = {} /\ Go(c, At("wait", 0, 0, {}))
  <2>1. at'[c].step = "wait"
    BY <1>4, Went DEF At, IInv
  <2> QED
    BY <1>3, <1>4, <2>1
<1>5. CASE \E s \in Chosen(c, ids) : Go(c, At("prepare", s, 0, {}))
  <2>1. PICK s \in Chosen(c, ids) : Go(c, At("prepare", s, 0, {}))
    BY <1>5
  <2>2. at'[c].step = "prepare" /\ at'[c].index = s
    BY <2>1, Went DEF At, IInv
  <2> QED
    BY <1>3, <2>2
<1> QED
  BY <1>2, <1>4, <1>5
-----------------------------------------------------------------------------
(* Theorems *)

\* The invariant holds of every behaviour.
LEMMA Always == Spec => [](IInv /\ HolderCarries /\ EffectsAreTrue /\ AttemptsSettled /\ HolderFinds)
<1> DEFINE J == IInv /\ HolderCarries /\ EffectsAreTrue /\ AttemptsSettled /\ HolderFinds
<1>1. Init => J
  BY InitHolds, InitCarries, InitSettled
<1>2. J /\ [Next]_vars => J'
  BY TypeHolds, CarryStep, EffectsStep, SettledStep
<1> QED
  BY <1>1, <1>2, PTL DEF Spec

\* A place outside the plan, an Attempt at no stage or an override that is none is
\* never reached (engine.ts: #executeStage, #planHandoff).
THEOREM HandoffTypes == Spec => []TypeOK
<1>1. IInv => TypeOK
  BY DEF IInv
<1> QED
  BY <1>1, Always, PTL

\* For any plan, however Effects are coordinated and cut off, leases lost and
\* workspaces edited: the capsule of an Attempt names the Attempts that changed the
\* workspace and every Effect that was carried out, but for what was cut off, and
\* the composite of what was handed off has the workspace and the Effects as they
\* are (engine.ts: doNotRepeatEffectIds, projectCanonicalCapsule,
\* #persistHandoffCompositeCheckpoint).
THEOREM FrontierIsCarried == Spec => HandoffCarriesFrontier
<1>1. IInv /\ HolderCarries /\ EffectsAreTrue /\ AttemptsSettled /\ HolderFinds /\ [Next]_vars =>
        [\A c \in Controllers :
           (at[c].step = "prepare" /\ at'[c].step = "start" /\ Frontier # 0) =>
             LET a == Frontier
                 capsule == attempts'[Newest'].capsule
             IN
             /\ workspace = attempts[a].after
             /\ capsule \ Effects = {b \in DOMAIN attempts : Changed(b)}
             /\ \A e \in applied : e \in capsule \/ CutOff(e)
             /\ \A e \in capsule \cap Effects : e \in applied \/ effects[e] = "ambiguous"
             /\ attempts[a].check = "handed_off" =>
                  attempts[a].composite = [work |-> attempts[a].after, effects |-> effects]]_vars
  BY HandoffStep
<1> QED
  BY <1>1, Always, PTL DEF Spec, HandoffCarriesFrontier

\* For any plan and any order of the candidates' ids: the planner takes a stage that
\* qualifies, the one of the override in force if there is one, and none only when
\* there is none (execution-planner.ts: planExecution; engine.ts: #planHandoff).
THEOREM DecisionsAreRight == Spec => DecisionIsRight
<1>1. IInv /\ HolderCarries /\ [Next]_vars =>
        [\A c \in Controllers :
           (at[c].step = "decide" /\ at'[c].step \in {"prepare", "wait"}) =>
             LET right == IF InForce = {} THEN Qualified(c) ELSE Qualified(c) \cap InForce
             IN  IF at'[c].step = "wait" THEN right = {} ELSE at'[c].index \in right]_vars
  BY DecisionStep DEF Right
<1> QED
  BY <1>1, Always, PTL DEF Spec, DecisionIsRight

\* For any plan: a command never takes up again what it has been through, so it
\* makes at most 10 * (Len(Plan) + 2) steps (engine.ts: #execute).
THEOREM CommandsGoForward == Spec => GoesForward
<1>1. IInv /\ HolderCarries /\ [Next]_vars =>
        [\A c \in Controllers :
           (at[c].step # "idle" /\ at'[c] # at[c]) =>
             Far(at'[c]) > Far(at[c]) \/ at'[c].step = "idle"]_vars
  BY ForwardStep
<1> QED
  BY <1>1, Always, PTL DEF Spec, GoesForward
=============================================================================
