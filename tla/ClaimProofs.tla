----------------------------- MODULE ClaimProofs -----------------------------
(***************************************************************************)
(* What a Mission claims is so.                                            *)
(*                                                                         *)
(* Of an external Effect: what the log says of it is true, every POST is   *)
(* recorded before it leaves, and with a prompt network the Effect is      *)
(* applied at most once, for every set of controllers and every number of  *)
(* attempts, with crashes and lost leases anywhere.  The strengthening     *)
(* says what the properties leave out: what the holder of the lease knows  *)
(* of the log it has read (HolderInv), that a POST that has not left yet   *)
(* is counted already (PostInv), and what a controller that waits, or has  *)
(* been answered, knows of the target (AnswerInv, PromptInv).              *)
(*                                                                         *)
(* Of a failure: what a reader is shown as its confirmed cause was put to  *)
(* the test by a diagnostic fork that changed just that, and no other      *)
(* explanation is shown above it, for every log, every observation and any *)
(* number of readers and askers.  That takes two things: no detector says  *)
(* more than "observed", and no evidence against a confirmed candidate     *)
(* takes its score below that of one which is not (the first part), and    *)
(* what stands behind a confirmation is in the log before the reader takes *)
(* its prefix, and is never taken back (the second).                       *)
(*                                                                         *)
(* And what a reader was told of the Context, the workspace, a tool or a   *)
(* permission stands when it reads again: each detector of these finds     *)
(* with more evidence what it found with less, and a projection of a       *)
(* longer log, with forks that have gone on, is one of more evidence (the  *)
(* third part), so that a report stands in every prefix of the log from    *)
(* the one it was made of on (StandsInv).                                  *)
(***************************************************************************)
EXTENDS ExternalEffect, MissionInsight, FiniteSetTheorems, WellFoundedInduction, TLAPS

Final == {"confirmed", "failed"}

\* Where the holder of the lease may still append a transition.
Working == Steps \ {"idle", "acquired", "releasing"}

\* Nobody else has appended since the holder read the log (coordinate()).
HolderInv ==
  \A c \in Controllers : lease = c =>
    /\ pc[c] \notin {"idle", "acquired"} => tries[c] = attempts
    /\ pc[c] = "intend" => status = "none"
    /\ pc[c] \in Working => status \notin Final

\* Attempts that are recorded and whose POST has not left (#startDispatch).
Posting == {c \in Controllers : pc[c] = "post"}
PostInv ==
  /\ IsFiniteSet(Posting)
  /\ sent + Cardinality(Posting) <= attempts
  /\ \A c \in Posting : tries[c] > 0
  /\ attempts > 0 => status \notin {"none", "intended"}

\* An answer is that of a POST the controller waits for, and true.
AnswerInv ==
  /\ inFlight # {} \/ applied > 0 => sent > 0
  /\ \A c \in Controllers :
       /\ reply[c] # "none" => pc[c] = "waiting"
       /\ reply[c] = "accepted" \/ pc[c] \in {"executed", "found"} => applied > 0
  /\ status \in {"executed", "confirmed"} => applied > 0

\* With a prompt network one controller is active, its POST is the only one
\* under way, and it sends one only when the target has not applied any.
PromptInv ==
  network = "prompt" =>
    /\ \A c \in Controllers :
         /\ pc[c] # "idle" => lease = c
         /\ pc[c] \in {"intend", "start", "post", "absent"} => applied = 0
         /\ reply[c] = "rejected" => applied = 0
    /\ \A r \in inFlight :
         pc[r[1]] = "waiting" /\ tries[r[1]] = r[2] /\ reply[r[1]] = "none" /\ applied = 0
    /\ status = "failed" => applied = 0
    /\ applied <= 1

IInv == TypeOK /\ HolderInv /\ PostInv /\ AnswerInv /\ PromptInv

-----------------------------------------------------------------------------
LEMMA InitInv == Init => IInv
<1> SUFFICES ASSUME Init PROVE IInv
  OBVIOUS
<1>1. TypeOK
  BY EffectAssumption DEF Init, TypeOK, Statuses, Steps
<1>2. PostInv
  <2>1. Posting = {}
    BY DEF Init, Posting
  <2> QED
    BY <2>1, FS_EmptySet DEF Init, PostInv
<1>3. HolderInv /\ AnswerInv /\ PromptInv
  BY EffectAssumption DEF Init, HolderInv, AnswerInv, PromptInv, Working, Final
<1> QED
  BY <1>1, <1>2, <1>3 DEF IInv

\* Type correctness.
LEMMA TypeStep == IInv /\ [Next]_vars => TypeOK'
<1> SUFFICES ASSUME IInv, [Next]_vars PROVE TypeOK'
  OBVIOUS
<1> USE EffectAssumption DEF IInv, TypeOK, Statuses, Steps, log, remote, Goto, AppendThen
<1>1. ASSUME NEW c \in Controllers, AcquireLease(c) \/ ReleaseLease(c) \/ Crash(c) PROVE TypeOK'
  BY <1>1 DEF AcquireLease, ReleaseLease, Crash
<1>2. ASSUME NEW c \in Controllers, Coordinate(c) PROVE TypeOK'
  BY <1>2 DEF Coordinate, Resume
<1>3. ASSUME NEW c \in Controllers, RecordIntended(c) \/ RecordRejected(c) \/ RecordExecuted(c) PROVE TypeOK'
  BY <1>3 DEF RecordIntended, RecordRejected, RecordExecuted
<1>4. ASSUME NEW c \in Controllers, RecordConfirmed(c) \/ RecordAmbiguous(c) PROVE TypeOK'
  BY <1>4 DEF RecordConfirmed, RecordAmbiguous
<1>5. ASSUME NEW c \in Controllers, RecordDispatchStarted(c) PROVE TypeOK'
  BY <1>5 DEF RecordDispatchStarted
<1>6. ASSUME NEW c \in Controllers, Post(c) PROVE TypeOK'
  BY <1>6 DEF Post, PostInv, Posting
<1>7. ASSUME NEW c \in Controllers, DispatchUnknown(c) \/ RecordReconciling(c) \/ Lookup(c) PROVE TypeOK'
  BY <1>7 DEF DispatchUnknown, RecordReconciling, Lookup
<1>8. ASSUME NEW r \in inFlight, TargetAccepts(r) \/ TargetRejects(r) PROVE TypeOK'
  BY <1>8 DEF TargetAccepts, TargetRejects, Answer
<1>9. CASE ExpireLease \/ UNCHANGED vars
  BY <1>9 DEF ExpireLease, vars
<1> QED
  BY <1>1, <1>2, <1>3, <1>4, <1>5, <1>6, <1>7, <1>8, <1>9 DEF Next, Control

-----------------------------------------------------------------------------
\* The holder's view of the log: it is read under the lease, and nobody gets
\* back a lease it has lost without starting again (#withLease).
LEMMA HolderStep == IInv /\ [Next]_vars => HolderInv'
<1> SUFFICES ASSUME IInv, [Next]_vars PROVE HolderInv'
  OBVIOUS
<1>0. TypeOK' /\ \A c \in Controllers : c # None /\ c # Lost
  BY TypeStep, EffectAssumption
<1> USE <1>0 DEF IInv, TypeOK, HolderInv, Working, Final, Statuses, Steps, log, remote, Goto, AppendThen
<1>1. ASSUME NEW c \in Controllers, AcquireLease(c) \/ ReleaseLease(c) \/ Crash(c) PROVE HolderInv'
  BY <1>1 DEF AcquireLease, ReleaseLease, Crash
<1>2. ASSUME NEW c \in Controllers, Coordinate(c) PROVE HolderInv'
  BY <1>2 DEF Coordinate, Resume
<1>3. ASSUME NEW c \in Controllers, RecordIntended(c) \/ RecordRejected(c) \/ RecordExecuted(c) PROVE HolderInv'
  BY <1>3 DEF RecordIntended, RecordRejected, RecordExecuted
<1>4. ASSUME NEW c \in Controllers, RecordConfirmed(c) \/ RecordAmbiguous(c) PROVE HolderInv'
  BY <1>4 DEF RecordConfirmed, RecordAmbiguous
<1>5. ASSUME NEW c \in Controllers, RecordDispatchStarted(c) PROVE HolderInv'
  BY <1>5 DEF RecordDispatchStarted
<1>6. ASSUME NEW c \in Controllers, Post(c) PROVE HolderInv'
  BY <1>6 DEF Post
<1>7. ASSUME NEW c \in Controllers, DispatchUnknown(c) \/ RecordReconciling(c) \/ Lookup(c) PROVE HolderInv'
  BY <1>7 DEF DispatchUnknown, RecordReconciling, Lookup
<1>8. ASSUME NEW r \in inFlight, TargetAccepts(r) \/ TargetRejects(r) PROVE HolderInv'
  BY <1>8 DEF TargetAccepts, TargetRejects
<1>9. CASE ExpireLease \/ UNCHANGED vars
  BY <1>9 DEF ExpireLease, vars
<1> QED
  BY <1>1, <1>2, <1>3, <1>4, <1>5, <1>6, <1>7, <1>8, <1>9 DEF Next, Control

-----------------------------------------------------------------------------
\* Recorded attempts and POSTs.  An attempt of the holder is one more than the
\* log has, so that each of them is recorded once (#startDispatch).
LEMMA PostStep == IInv /\ [Next]_vars => PostInv'
<1> SUFFICES ASSUME IInv, [Next]_vars PROVE PostInv'
  OBVIOUS
<1>0. TypeOK' /\ IsFiniteSet(Posting) /\ Cardinality(Posting) \in Nat
  BY TypeStep, FS_CardinalityType DEF IInv, PostInv
<1>1. ASSUME NEW c \in Controllers, RecordDispatchStarted(c), lease = c PROVE PostInv'
  <2>1. c \notin Posting /\ Posting' = Posting \cup {c}
    BY <1>1 DEF IInv, TypeOK, RecordDispatchStarted, Posting, Goto
  <2>2. IsFiniteSet(Posting') /\ Cardinality(Posting') = Cardinality(Posting) + 1
    BY <1>0, <2>1, FS_AddElement
  <2>3. attempts' = attempts + 1 /\ sent' = sent /\ status' = "dispatch_started"
    BY <1>1 DEF IInv, TypeOK, HolderInv, RecordDispatchStarted, remote
  <2>4. \A d \in Posting' : tries'[d] > 0
    BY <1>1, <2>1 DEF RecordDispatchStarted, IInv, TypeOK, PostInv, Posting
  <2> QED
    BY <1>0, <2>2, <2>3, <2>4 DEF IInv, TypeOK, PostInv
<1>2. ASSUME NEW c \in Controllers, Post(c) PROVE PostInv'
  <2>1. c \in Posting /\ Posting' = Posting \ {c}
    BY <1>2 DEF IInv, TypeOK, Post, Posting, Goto
  <2>2. IsFiniteSet(Posting') /\ Cardinality(Posting') = Cardinality(Posting) - 1
    BY <1>0, <2>1, FS_RemoveElement
  <2>3. attempts' = attempts /\ sent' = sent + 1 /\ status' = status
    BY <1>2 DEF Post, log
  <2>4. \A d \in Posting' : tries'[d] > 0
    BY <1>2, <2>1 DEF Post, IInv, PostInv
  <2> QED
    BY <1>0, <2>2, <2>3, <2>4 DEF IInv, TypeOK, PostInv
<1>3. ASSUME NEW c \in Controllers, Crash(c) PROVE PostInv'
  <2>1. Posting' = Posting \ {c}
    BY <1>3 DEF IInv, TypeOK, Crash, Posting, Goto
  <2>2. IsFiniteSet(Posting') /\ Cardinality(Posting') <= Cardinality(Posting)
    BY <1>0, <2>1, FS_Subset
  <2>3. Cardinality(Posting') \in Nat
    BY <2>2, FS_CardinalityType
  <2>4. attempts' = attempts /\ sent' = sent /\ status' = status
    BY <1>3 DEF Crash, log
  <2>5. \A d \in Posting' : tries'[d] > 0
    BY <1>3, <2>1 DEF Crash, IInv, TypeOK, PostInv, Posting
  <2> QED
    BY <1>0, <2>2, <2>3, <2>4, <2>5 DEF IInv, TypeOK, PostInv
<1>4. ASSUME UNCHANGED <<sent, attempts>>, Posting' = Posting,
             \A c \in Posting : tries'[c] = tries[c],
             status' # status => status' \notin {"none", "intended"} \/ attempts = 0
      PROVE  PostInv'
  BY <1>4 DEF IInv, PostInv
<1> USE DEF IInv, TypeOK, HolderInv, Working, Statuses, Steps, log, remote, Goto, AppendThen, Posting
<1>5. ASSUME NEW c \in Controllers, RecordIntended(c) PROVE PostInv'
  <2>1. lease = c => attempts = 0
    BY <1>5 DEF RecordIntended, PostInv
  <2> QED
    BY <1>4, <1>5, <2>1 DEF RecordIntended
<1>6. ASSUME NEW c \in Controllers, RecordDispatchStarted(c), lease # c PROVE PostInv'
  BY <1>4, <1>6 DEF RecordDispatchStarted
<1>7. ASSUME NEW c \in Controllers, Coordinate(c) PROVE PostInv'
  BY <1>4, <1>7 DEF Coordinate, Resume
<1>8. ASSUME NEW c \in Controllers, AcquireLease(c) \/ ReleaseLease(c) PROVE PostInv'
  BY <1>4, <1>8 DEF AcquireLease, ReleaseLease
<1>9. ASSUME NEW c \in Controllers, RecordRejected(c) \/ RecordExecuted(c) PROVE PostInv'
  BY <1>4, <1>9 DEF RecordRejected, RecordExecuted
<1>10. ASSUME NEW c \in Controllers, RecordConfirmed(c) \/ RecordAmbiguous(c) PROVE PostInv'
  BY <1>4, <1>10 DEF RecordConfirmed, RecordAmbiguous
<1>11. ASSUME NEW c \in Controllers, DispatchUnknown(c) \/ RecordReconciling(c) \/ Lookup(c) PROVE PostInv'
  BY <1>4, <1>11 DEF DispatchUnknown, RecordReconciling, Lookup
<1>12. ASSUME NEW r \in inFlight, TargetAccepts(r) \/ TargetRejects(r) PROVE PostInv'
  BY <1>4, <1>12 DEF TargetAccepts, TargetRejects
<1>13. CASE ExpireLease \/ UNCHANGED vars
  BY <1>4, <1>13 DEF ExpireLease, vars
<1> QED
  BY <1>1, <1>2, <1>3, <1>5, <1>6, <1>7, <1>8, <1>9, <1>10, <1>11, <1>12, <1>13 DEF Next, Control

-----------------------------------------------------------------------------
\* What the answers and the lookups say of the target was so, and stays so.
LEMMA AnswerStep == IInv /\ [Next]_vars => AnswerInv'
<1> SUFFICES ASSUME IInv, [Next]_vars PROVE AnswerInv'
  OBVIOUS
<1> USE DEF IInv, TypeOK, AnswerInv, Statuses, Steps, log, remote, Goto, AppendThen
<1>1. ASSUME NEW c \in Controllers, AcquireLease(c) \/ ReleaseLease(c) \/ Crash(c) PROVE AnswerInv'
  BY <1>1 DEF AcquireLease, ReleaseLease, Crash
<1>2. ASSUME NEW c \in Controllers, Coordinate(c) PROVE AnswerInv'
  BY <1>2 DEF Coordinate, Resume
<1>3. ASSUME NEW c \in Controllers, RecordIntended(c) \/ RecordRejected(c) \/ RecordExecuted(c) PROVE AnswerInv'
  BY <1>3 DEF RecordIntended, RecordRejected, RecordExecuted
<1>4. ASSUME NEW c \in Controllers, RecordConfirmed(c) \/ RecordAmbiguous(c) PROVE AnswerInv'
  BY <1>4 DEF RecordConfirmed, RecordAmbiguous
<1>5. ASSUME NEW c \in Controllers, RecordDispatchStarted(c) PROVE AnswerInv'
  BY <1>5 DEF RecordDispatchStarted
<1>6. ASSUME NEW c \in Controllers, Post(c) PROVE AnswerInv'
  BY <1>6 DEF Post
<1>7. ASSUME NEW c \in Controllers, DispatchUnknown(c) \/ RecordReconciling(c) \/ Lookup(c) PROVE AnswerInv'
  BY <1>7 DEF DispatchUnknown, RecordReconciling, Lookup
<1>8. ASSUME NEW r \in inFlight, TargetAccepts(r) PROVE AnswerInv'
  <2>1. r[1] \in Controllers /\ applied' > 0 /\ sent > 0 /\ UNCHANGED <<pc, sent, status>>
    BY <1>8 DEF TargetAccepts
  <2>2. \A c \in Controllers : reply'[c] # "none" => pc[c] = "waiting"
    <3>1. CASE pc[r[1]] = "waiting" /\ tries[r[1]] = r[2]
      <4>1. reply' = [reply EXCEPT ![r[1]] = "accepted"]
        BY <1>8, <3>1 DEF TargetAccepts, Answer
      <4> QED
        BY <2>1, <3>1, <4>1
    <3>2. CASE ~(pc[r[1]] = "waiting" /\ tries[r[1]] = r[2])
      <4>1. reply' = reply
        BY <1>8, <3>2 DEF TargetAccepts, Answer
      <4> QED
        BY <4>1
    <3> QED
      BY <3>1, <3>2
  <2> QED
    BY <2>1, <2>2
<1>9. ASSUME NEW r \in inFlight, TargetRejects(r) PROVE AnswerInv'
  BY <1>9 DEF TargetRejects, Answer
<1>10. CASE ExpireLease \/ UNCHANGED vars
  BY <1>10 DEF ExpireLease, vars
<1> QED
  BY <1>1, <1>2, <1>3, <1>4, <1>5, <1>6, <1>7, <1>8, <1>9, <1>10 DEF Next, Control

\* The network does not change its kind.
LEMMA NetworkStays == [Next]_vars => UNCHANGED network
<1>1. ASSUME NEW c \in Controllers, Control(c) \/ Crash(c) PROVE UNCHANGED network
  BY <1>1 DEF Control, AcquireLease, Coordinate, RecordIntended, RecordDispatchStarted, Post,
     RecordRejected, RecordExecuted, RecordConfirmed, DispatchUnknown, RecordAmbiguous,
     RecordReconciling, Lookup, ReleaseLease, Crash
<1>2. ASSUME NEW r \in inFlight, TargetAccepts(r) \/ TargetRejects(r) PROVE UNCHANGED network
  BY <1>2 DEF TargetAccepts, TargetRejects
<1>3. CASE ExpireLease \/ UNCHANGED vars
  BY <1>3 DEF ExpireLease, vars
<1> QED
  BY <1>1, <1>2, <1>3 DEF Next

\* Query before retry, with a prompt network.
LEMMA PromptStep == IInv /\ [Next]_vars => PromptInv'
<1> SUFFICES ASSUME IInv, [Next]_vars, network = "prompt" PROVE PromptInv'
  BY NetworkStays DEF PromptInv
<1>0. /\ TypeOK'
      /\ \A c \in Controllers : c # None /\ c # Lost
      /\ \A r \in inFlight : r[1] \in Controllers /\ r[2] \in 1..MaxAttempts /\ r = <<r[1], r[2]>>
      /\ None # Lost /\ MaxAttempts \in Nat
  BY TypeStep, EffectAssumption DEF IInv, TypeOK
<1>a. \A r, s \in inFlight : r = s
  BY <1>0 DEF IInv, PromptInv
<1>b. applied > 0 => status \notin {"none", "intended"}
  <2>1. sent \in Nat /\ Cardinality(Posting) \in Nat /\ attempts \in Nat /\ sent + Cardinality(Posting) <= attempts
    BY <1>0, FS_CardinalityType DEF IInv, TypeOK, PostInv
  <2> QED
    BY <2>1 DEF IInv, AnswerInv, PostInv
<1>c. \A c \in Controllers : pc[c] # "idle" => \A r \in inFlight : r[1] = c /\ pc[c] = "waiting"
  BY <1>0 DEF IInv, PromptInv
<1> USE <1>0 DEF IInv, TypeOK, PromptInv, Statuses, Steps, log, remote, Goto, AppendThen
<1>1. ASSUME NEW c \in Controllers, AcquireLease(c) \/ ReleaseLease(c) PROVE PromptInv'
  BY <1>1 DEF AcquireLease, ReleaseLease
<1>2. ASSUME NEW c \in Controllers, Crash(c) PROVE PromptInv'
  <2>1. inFlight' = inFlight \ ({c} \X Nat)
    BY <1>2 DEF Crash
  <2>2. \A r \in inFlight' : r \in inFlight /\ r[1] # c
    BY <2>1
  <2>3. ASSUME NEW d \in Controllers
        PROVE  /\ pc'[d] # "idle" => lease' = d
               /\ pc'[d] \in {"intend", "start", "post", "absent"} => applied' = 0
               /\ reply'[d] = "rejected" => applied' = 0
    BY <1>2 DEF Crash
  <2> QED
    BY <1>2, <2>2, <2>3 DEF Crash
<1>3. ASSUME NEW c \in Controllers, Coordinate(c) PROVE PromptInv'
  BY <1>3, <1>b DEF Coordinate, Resume
<1>4. ASSUME NEW c \in Controllers, RecordIntended(c) \/ RecordExecuted(c) PROVE PromptInv'
  BY <1>4, <1>c DEF RecordIntended, RecordExecuted, AnswerInv
<1>5. ASSUME NEW c \in Controllers, RecordRejected(c) PROVE PromptInv'
  BY <1>5, <1>c DEF RecordRejected, AnswerInv
<1>6. ASSUME NEW c \in Controllers, RecordConfirmed(c) \/ RecordAmbiguous(c) PROVE PromptInv'
  BY <1>6, <1>c DEF RecordConfirmed, RecordAmbiguous
<1>7. ASSUME NEW c \in Controllers, RecordDispatchStarted(c) PROVE PromptInv'
  BY <1>7, <1>c DEF RecordDispatchStarted
<1>8. ASSUME NEW c \in Controllers, Post(c) PROVE PromptInv'
  <2>1. inFlight' = {<<c, tries[c]>>}
    BY <1>8, <1>c DEF Post
  <2> QED
    BY <1>8, <2>1 DEF Post, AnswerInv
<1>9. ASSUME NEW c \in Controllers, DispatchUnknown(c) PROVE PromptInv'
  <2>1. inFlight' = {}
    BY <1>9, <1>c DEF DispatchUnknown
  <2> QED
    BY <1>9, <2>1 DEF DispatchUnknown
<1>10. ASSUME NEW c \in Controllers, RecordReconciling(c) \/ Lookup(c) PROVE PromptInv'
  BY <1>10, <1>c DEF RecordReconciling, Lookup
<1>11. ASSUME NEW r \in inFlight, TargetAccepts(r) PROVE PromptInv'
  <2>1. inFlight' = {}
    BY <1>11, <1>a DEF TargetAccepts
  <2>2. status # "failed"
    BY DEF HolderInv, Working, Final
  <2>3. applied' = 1
    BY <1>11 DEF TargetAccepts
  <2>4. \A d \in Controllers : /\ pc[d] \notin {"intend", "start", "post", "absent"}
                               /\ reply'[d] # "rejected"
    BY <1>11, <1>c DEF TargetAccepts, Answer, AnswerInv
  <2> QED
    BY <1>11, <2>1, <2>2, <2>3, <2>4 DEF TargetAccepts
<1>12. ASSUME NEW r \in inFlight, TargetRejects(r) PROVE PromptInv'
  <2>1. inFlight' = {} /\ applied' = 0
    BY <1>12, <1>a DEF TargetRejects
  <2> QED
    BY <1>12, <2>1 DEF TargetRejects
<1>13. CASE ExpireLease \/ UNCHANGED vars
  BY <1>13 DEF ExpireLease, vars
<1> QED
  BY <1>1, <1>2, <1>3, <1>4, <1>5, <1>6, <1>7, <1>8, <1>9, <1>10, <1>11, <1>12, <1>13 DEF Next, Control

-----------------------------------------------------------------------------
LEMMA Invariant == Spec => []IInv
<1>1. IInv /\ [Next]_vars => IInv'
  BY TypeStep, HolderStep, PostStep, AnswerStep, PromptStep DEF IInv
<1> QED
  BY InitInv, <1>1, PTL DEF Spec

\* No POST leaves that the log does not count (#startDispatch, #dispatch).
THEOREM PostsAreRecorded == Spec => []SendsAreRecorded
<1>1. IInv => SendsAreRecorded
  <2> SUFFICES ASSUME IInv PROVE SendsAreRecorded
    OBVIOUS
  <2>1. sent \in Nat /\ attempts \in Nat /\ Cardinality(Posting) \in Nat
    BY FS_CardinalityType, EffectAssumption DEF IInv, TypeOK, PostInv
  <2> QED
    BY <2>1 DEF IInv, PostInv, SendsAreRecorded
<1> QED
  BY <1>1, Invariant, PTL

\* An Effect called executed or confirmed was applied; with a prompt network,
\* a failed one was not (coordinate, #reconcile).
THEOREM LogTellsTheTruth == Spec => []ClaimsAreTrue
<1>1. IInv => ClaimsAreTrue
  BY DEF IInv, TypeOK, AnswerInv, PromptInv, ClaimsAreTrue
<1> QED
  BY <1>1, Invariant, PTL

\* With a prompt network a crash between intent and confirmation never makes a
\* target that ignores the idempotency key apply the Effect twice.
THEOREM NoDoubleEffect == Spec => []AppliedAtMostOnce
<1>1. IInv => AppliedAtMostOnce
  BY DEF IInv, PromptInv, AppliedAtMostOnce
<1> QED
  BY <1>1, Invariant, PTL

\* No transition follows a confirmed or a failed Effect (the terminal statuses
\* of coordinate(), and the fence).
THEOREM OutcomeStays == Spec => OutcomeIsFinal
<1>1. IInv /\ [Next]_vars => [(status \in {"confirmed", "failed"}) => UNCHANGED log]_vars
  <2> SUFFICES ASSUME IInv, Next, status \in Final PROVE UNCHANGED log
    BY DEF Final
  <2>1. ASSUME NEW c \in Controllers, lease = c PROVE pc[c] \notin Working
    BY <2>1 DEF IInv, HolderInv
  <2> USE <2>1 DEF IInv, TypeOK, Working, Steps, AppendThen, log
  <2>2. ASSUME NEW c \in Controllers, RecordIntended(c) \/ RecordRejected(c) \/ RecordExecuted(c)
        PROVE  UNCHANGED log
    BY <2>2 DEF RecordIntended, RecordRejected, RecordExecuted
  <2>3. ASSUME NEW c \in Controllers, RecordConfirmed(c) \/ RecordAmbiguous(c) \/ RecordDispatchStarted(c)
        PROVE  UNCHANGED log
    BY <2>3 DEF RecordConfirmed, RecordAmbiguous, RecordDispatchStarted
  <2>4. ASSUME NEW c \in Controllers, \/ AcquireLease(c) \/ Coordinate(c) \/ Post(c) \/ DispatchUnknown(c)
                                      \/ RecordReconciling(c) \/ Lookup(c) \/ ReleaseLease(c) \/ Crash(c)
        PROVE  UNCHANGED log
    BY <2>4 DEF AcquireLease, Coordinate, Post, DispatchUnknown, RecordReconciling, Lookup, ReleaseLease, Crash
  <2>5. ASSUME NEW r \in inFlight, TargetAccepts(r) \/ TargetRejects(r) PROVE UNCHANGED log
    BY <2>5 DEF TargetAccepts, TargetRejects
  <2>6. CASE ExpireLease
    BY <2>6 DEF ExpireLease
  <2> QED
    BY <2>2, <2>3, <2>4, <2>5, <2>6 DEF Next, Control
<1> QED
  BY <1>1, Invariant, PTL DEF Spec, OutcomeIsFinal

------------------------------------------------------------------------------
(* What explains a failure, for any evidence                               *)

\* What is mapped from a finite set is finite.
LEMMA FiniteImage ==
  ASSUME NEW S, IsFiniteSet(S), NEW f, NEW T, T \subseteq {f[x] : x \in S}
  PROVE  IsFiniteSet(T)
<1> DEFINE U == {f[x] : x \in S}
           g == [x \in S |-> f[x]]
<1>1. g \in Surjection(S, U)
  BY DEF Surjection
<1>2. IsFiniteSet(U)
  <2> HIDE DEF g, U
  <2> QED
    BY <1>1, FS_Surjection
<1> HIDE DEF U
<1>3. T \in SUBSET U
  BY DEF U
<1> QED
  BY <1>2, <1>3, FS_Subset

\* The identities of finitely many items are finitely many.
LEMMA FiniteIds ==
  ASSUME NEW S, IsFiniteSet(S), NEW T, T \subseteq S
  PROVE  IsFiniteSet(Ids(T))
<1> DEFINE f == [x \in S |-> x.id]
<1>1. Ids(T) \subseteq {f[x] : x \in S}
  BY DEF Ids
<1> HIDE DEF f
<1> QED
  BY <1>1, FiniteImage

\* There is finite evidence, and each item refers to finitely many.
Evidence(in) ==
  /\ IsFiniteSet(in.facts) /\ IsFiniteSet(in.freshness) /\ IsFiniteSet(in.comparisons)
  /\ IsFiniteSet(in.verifications) /\ IsFiniteSet(in.requests) /\ IsFiniteSet(in.intents)
  /\ IsFiniteSet(in.releases) /\ IsFiniteSet(in.results) /\ IsFiniteSet(in.outcomes)
  /\ \A e \in Registered(in) : IsFiniteSet(e.refs)

\* So are the references of finitely many items.
LEMMA FiniteRefs ==
  ASSUME NEW in, Evidence(in), NEW ids, IsFiniteSet(ids)
  PROVE  IsFiniteSet(Refs(in, ids))
<1> DEFINE R == Registered(in)
           f == [e \in R |-> e.refs]
           S == {e.refs : e \in {e \in R : e.id \in ids}}
<1>1. IsFiniteSet(R)
  BY FS_Union DEF Evidence, Registered
<1>2. IsFiniteSet(S)
  <2>1. S \subseteq {f[x] : x \in R}
    OBVIOUS
  <2> HIDE DEF S, f, R
  <2> QED
    BY <1>1, <2>1, FiniteImage
<1>3. \A T \in S : IsFiniteSet(T)
  BY DEF Evidence
<1>4. Refs(in, ids) = ids \cup UNION S
  BY DEF Refs
<1> HIDE DEF S
<1>5. IsFiniteSet(UNION S)
  BY <1>2, <1>3, FS_UNION
<1> QED
  BY <1>4, <1>5, FS_Union

\* A finding is a conclusion from finite evidence; no detector confirms anything.
Sound(f) ==
  /\ f = [id |-> f.id, status |-> f.status, support |-> f.support, counter |-> f.counter]
  /\ f.status \in {"observed", "inferred", "unknown"}
  /\ IsFiniteSet(f.support) /\ IsFiniteSet(f.counter)
FewSound(S) == IsFiniteSet(S) /\ \A f \in S : Sound(f)

LEMMA SoundFinding ==
  ASSUME NEW detector, NEW layer, NEW mechanism, NEW grade \in {"observed", "inferred", "unknown"},
         NEW support, NEW counter, IsFiniteSet(support), IsFiniteSet(counter)
  PROVE  Sound(Finding(detector, layer, mechanism, grade, support, counter))
BY DEF Sound, Finding

\* A detector makes one finding for each item, or for some.
LEMMA FewMapped ==
  ASSUME NEW S, IsFiniteSet(S), NEW f, \A x \in S : Sound(f[x]), NEW D, D \subseteq {f[x] : x \in S}
  PROVE  FewSound(D)
<1>1. IsFiniteSet(D)
  BY FiniteImage
<1> QED
  BY <1>1 DEF FewSound

\* A finding about one item, against which some items of a kind speak.
LEMMA OneSupport ==
  ASSUME NEW detector, NEW layer, NEW mechanism, NEW grade \in {"observed", "inferred", "unknown"},
         NEW id, NEW S, IsFiniteSet(S), NEW T, T \subseteq S
  PROVE  Sound(Finding(detector, layer, mechanism, grade, {id}, Ids(T)))
<1>1. IsFiniteSet({id}) /\ IsFiniteSet(Ids(T))
  BY FS_Singleton, FiniteIds
<1> QED
  BY <1>1, SoundFinding

\* Each detector finds something sound, a finite number of times.
LEMMA FewStale ==
  ASSUME NEW in, Evidence(in) PROVE FewSound(StaleContext(in))
<1> DEFINE
      S == in.freshness
      counter(i) == {j \in S : j.fact = i.fact /\ ~ContentDiffers(j)
                                 /\ (SameWorkspace(j) \/ NoDigests(j))}
      f == [i \in S |-> Finding("stale-context", "context", i.fact, "inferred", {i.id}, Ids(counter(i)))]
<1>1. IsFiniteSet(S)
  BY DEF Evidence
<1>2. \A i \in S : Sound(f[i])
  BY <1>1, OneSupport
<1>3. StaleContext(in) \subseteq {f[x] : x \in S}
  BY DEF StaleContext
<1> HIDE DEF S, f
<1> QED
  BY <1>1, <1>2, <1>3, FewMapped

LEMMA FewDivergences ==
  ASSUME NEW in, Evidence(in) PROVE FewSound(WorkspaceDivergence(in))
<1> DEFINE
      S == in.comparisons
      counter(i) == {j \in S : j.boundary = i.boundary /\ j.expected = j.observed}
      f == [i \in S |-> Finding("workspace-divergence", "environment", i.boundary, "observed",
                                {i.id}, Ids(counter(i)))]
<1>1. IsFiniteSet(S)
  BY DEF Evidence
<1>2. \A i \in S : Sound(f[i])
  BY <1>1, OneSupport
<1>3. WorkspaceDivergence(in) \subseteq {f[x] : x \in S}
  BY DEF WorkspaceDivergence
<1> HIDE DEF S, f
<1> QED
  BY <1>1, <1>2, <1>3, FewMapped

LEMMA FewVerified ==
  ASSUME NEW in, Evidence(in) PROVE FewSound(VerificationFailures(in))
<1> DEFINE
      S == in.verifications
      counter(v) == {w \in S : w.key = v.key /\ w.status = "passed"}
      f == [v \in S |-> Finding("verification-failure", "missionbraid", v.key, "observed",
                                {v.id}, Ids(counter(v)))]
<1>1. IsFiniteSet(S)
  BY DEF Evidence
<1>2. \A v \in S : Sound(f[v])
  BY <1>1, OneSupport
<1>3. VerificationFailures(in) \subseteq {f[x] : x \in S}
  BY DEF VerificationFailures
<1> HIDE DEF S, f
<1> QED
  BY <1>1, <1>2, <1>3, FewMapped

LEMMA FewConflicts ==
  ASSUME NEW in, Evidence(in) PROVE FewSound(PermissionConflicts(in))
<1> DEFINE
      counter(r) == {s \in in.releases : s.gate = r.gate /\ s.decision # "reject"}
      f == [r \in in.releases |-> Finding("permission-conflict", "missionbraid", r.gate, "observed",
                                          {r.id, r.gate}, Ids(counter(r)))]
      g == [i \in in.intents |-> Finding("permission-conflict", "missionbraid", i.gate, "unknown",
                                         {i.id}, {})]
      S == {f[r] : r \in {r \in in.releases : r.decision = "reject"}}
      T == {g[i] : i \in {i \in in.intents : i.decision = "reject"
                                              /\ ~\E r \in in.releases : r.intent = i.id}}
<1>0. IsFiniteSet(in.releases) /\ IsFiniteSet(in.intents)
  BY DEF Evidence
<1>1. PermissionConflicts(in) = S \cup T
  BY DEF PermissionConflicts
<1>2. \A r \in in.releases : Sound(f[r])
  <2> TAKE r \in in.releases
  <2>1. IsFiniteSet(Ids(counter(r)))
    BY <1>0, FiniteIds
  <2>2. IsFiniteSet({r.id} \cup {r.gate})
    BY FS_Singleton, FS_Union
  <2>3. {r.id, r.gate} = {r.id} \cup {r.gate}
    OBVIOUS
  <2> HIDE DEF counter
  <2> QED
    BY <2>1, <2>2, <2>3, SoundFinding
<1>3. \A i \in in.intents : Sound(g[i])
  <2> TAKE i \in in.intents
  <2>1. IsFiniteSet({i.id}) /\ IsFiniteSet({})
    BY FS_Singleton, FS_EmptySet
  <2> QED
    BY <2>1, SoundFinding
<1>4. S \subseteq {f[x] : x \in in.releases} /\ T \subseteq {g[x] : x \in in.intents}
  OBVIOUS
<1> HIDE DEF f, g, S, T
<1>5. FewSound(S) /\ FewSound(T)
  BY <1>0, <1>2, <1>3, <1>4, FewMapped
<1>6. IsFiniteSet(S \cup T)
  BY <1>5, FS_Union DEF FewSound
<1> QED
  BY <1>1, <1>5, <1>6 DEF FewSound

\* Signals are those of facts, verifications and results.
LEMMA FewSignals ==
  ASSUME NEW in, Evidence(in) PROVE IsFiniteSet(Failures(in)) /\ IsFiniteSet(Successes(in))
<1> DEFINE
      f == [x \in in.facts |-> RuntimeSignal(x)]
      g == [x \in in.verifications |-> VerificationSignal(x)]
      h == [x \in in.results |-> ResultSignal(in, x)]
      A == {f[x] : x \in in.facts}
      B == {g[x] : x \in in.verifications}
      C == {h[x] : x \in in.results}
<1>1. Failures(in) \in SUBSET (A \cup (B \cup C)) /\ Successes(in) \in SUBSET (A \cup (B \cup C))
  BY DEF Failures, Successes
<1>2. IsFiniteSet(in.facts) /\ IsFiniteSet(in.verifications) /\ IsFiniteSet(in.results)
  BY DEF Evidence
<1>3. IsFiniteSet(A) /\ IsFiniteSet(B) /\ IsFiniteSet(C)
  <2> HIDE DEF f, g, h
  <2> QED
    BY <1>2, FiniteImage
<1> HIDE DEF A, B, C
<1>4. IsFiniteSet(A \cup (B \cup C))
  BY <1>3, FS_Union
<1> QED
  BY <1>1, <1>4, FS_Subset

LEMMA FewToolErrors ==
  ASSUME NEW in, Evidence(in) PROVE FewSound(ToolErrors(in))
<1> DEFINE
      failedFacts == {f \in in.facts : \/ f.kind = "tool_result" /\ ToolFailed(f)
                                       \/ f.kind = "failure" /\ f.name = "tool"}
      toolOf(f) == IF f.kind = "tool_result" THEN f.name ELSE "unknown-tool"
      failedResults == {r \in in.results : r.outcome = "failed"}
      support(tool) == Ids({f \in failedFacts : toolOf(f) = tool}) \cup
                       Ids({r \in failedResults : GateTool(in, r.gate) = tool})
      counter(tool) == Ids({s \in Successes(in) : s.against = <<"tool", tool>>})
      a == [x \in in.facts |-> toolOf(x)]
      b == [x \in in.results |-> GateTool(in, x.gate)]
      S == {a[x] : x \in in.facts} \cup {b[x] : x \in in.results}
      f == [tool \in S |-> Finding("tool-error", "tool", tool, "observed", support(tool), counter(tool))]
<1>1. IsFiniteSet(in.facts) /\ IsFiniteSet(in.results) /\ IsFiniteSet(Successes(in))
  BY FewSignals DEF Evidence
<1>2. IsFiniteSet(S)
  <2>1. IsFiniteSet({a[x] : x \in in.facts}) /\ IsFiniteSet({b[x] : x \in in.results})
    <3> HIDE DEF a, b
    <3> QED
      BY <1>1, FiniteImage
  <2> QED
    BY <2>1, FS_Union
<1>3. \A tool \in S : Sound(f[tool])
  <2> TAKE tool \in S
  <2>1. IsFiniteSet(Ids({x \in failedFacts : toolOf(x) = tool}))
    BY <1>1, FiniteIds
  <2>2. IsFiniteSet(Ids({r \in failedResults : GateTool(in, r.gate) = tool}))
    BY <1>1, FiniteIds
  <2>3. IsFiniteSet(support(tool))
    BY <2>1, <2>2, FS_Union
  <2>4. IsFiniteSet(counter(tool))
    BY <1>1, FiniteIds
  <2>5. f[tool] = Finding("tool-error", "tool", tool, "observed", support(tool), counter(tool))
    OBVIOUS
  <2> HIDE DEF f, support, counter
  <2> QED
    BY <2>3, <2>4, <2>5, SoundFinding
<1>4. ToolErrors(in) \subseteq {f[x] : x \in S}
  BY DEF ToolErrors
<1> HIDE DEF f, S
<1> QED
  BY <1>2, <1>3, <1>4, FewMapped

LEMMA FewRepeated ==
  ASSUME NEW in, Evidence(in) PROVE FewSound(RepeatedFailures(in))
<1> DEFINE
      group(p) == {s \in Failures(in) : s.fingerprint = p}
      counter(p) == {s \in Successes(in) : \E t \in group(p) : s.against = t.against}
      a == [s \in Failures(in) |-> s.fingerprint]
      S == {a[s] : s \in Failures(in)}
      f == [p \in S |-> Finding("repeated-failure", (CHOOSE s \in group(p) : TRUE).layer, p, "inferred",
                                Ids(group(p)), Ids(counter(p)))]
<1>1. IsFiniteSet(Failures(in)) /\ IsFiniteSet(Successes(in))
  BY FewSignals
<1>2. IsFiniteSet(S)
  <2> HIDE DEF a
  <2> QED
    BY <1>1, FiniteImage
<1>3. \A p \in S : Sound(f[p])
  <2> TAKE p \in S
  <2>1. IsFiniteSet(Ids(group(p))) /\ IsFiniteSet(Ids(counter(p)))
    BY <1>1, FiniteIds
  <2> HIDE DEF group, counter
  <2> QED
    BY <2>1, SoundFinding
<1>4. RepeatedFailures(in) \subseteq {f[x] : x \in S}
  BY DEF RepeatedFailures
<1> HIDE DEF f, S
<1> QED
  BY <1>2, <1>3, <1>4, FewMapped

LEMMA FewLoops ==
  ASSUME NEW in, Evidence(in) PROVE FewSound(RequestLoops(in))
<1> DEFINE
      key(q) == <<q.attempt, q.tool, q.input>>
      group(k) == {q \in in.requests : key(q) = k}
      g == [q \in in.requests |-> q.gate]
      counter(k) == {r \in in.results : r.outcome = "succeeded" /\ \E q \in group(k) : q.gate = r.gate}
      a == [q \in in.requests |-> key(q)]
      S == {a[q] : q \in in.requests}
      f == [k \in S |-> Finding("loop", "model", k, "inferred", {q.gate : q \in group(k)},
                                Ids(counter(k)))]
<1>1. IsFiniteSet(in.requests) /\ IsFiniteSet(in.results)
  BY DEF Evidence
<1>2. IsFiniteSet(S)
  <2> HIDE DEF a
  <2> QED
    BY <1>1, FiniteImage
<1>3. \A k \in S : Sound(f[k])
  <2> TAKE k \in S
  <2>1. IsFiniteSet(Ids(counter(k)))
    BY <1>1, FiniteIds
  <2>2. {q.gate : q \in group(k)} \subseteq {g[q] : q \in in.requests}
    OBVIOUS
  <2>3. IsFiniteSet({q.gate : q \in group(k)})
    <3> HIDE DEF g, group
    <3> QED
      BY <1>1, <2>2, FiniteImage
  <2> HIDE DEF group, counter
  <2> QED
    BY <2>1, <2>3, SoundFinding
<1>4. RequestLoops(in) \subseteq {f[x] : x \in S}
  BY DEF RequestLoops
<1> HIDE DEF f, S
<1> QED
  BY <1>2, <1>3, <1>4, FewMapped

\* addFinding: what is merged from sound findings is sound.
LEMMA MergedSound ==
  ASSUME NEW S, FewSound(S), NEW m \in Merged(S)
  PROVE  Sound(m)
<1> DEFINE same(i) == {f \in S : f.id = i}
           best(i) == CHOOSE f \in same(i) : \A g \in same(i) : Rank(g.status) <= Rank(f.status)
<1>1. PICK i \in Ids(S) :
        m = [id |-> i, status |-> best(i).status, support |-> UNION {f.support : f \in same(i)},
             counter |-> UNION {f.counter : f \in same(i)}]
  BY DEF Merged
<1>2. IsFiniteSet(same(i)) /\ same(i) # {} /\ \A f \in same(i) : Sound(f)
  <2>1. same(i) \in SUBSET S
    OBVIOUS
  <2>2. IsFiniteSet(same(i))
    BY <2>1, FS_Subset DEF FewSound
  <2> QED
    BY <1>1, <2>2 DEF Ids, FewSound
<1>3. best(i).status \in {"observed", "inferred", "unknown"}
  <2>1. \A f \in same(i) : \/ f.status = "observed" /\ Rank(f.status) = 3
                           \/ f.status = "inferred" /\ Rank(f.status) = 2
                           \/ f.status = "unknown" /\ Rank(f.status) = 1
    BY <1>2 DEF Sound, Rank
  <2>2. \E f \in same(i) : \A g \in same(i) : Rank(g.status) <= Rank(f.status)
    <3> HIDE DEF same
    <3>1. CASE \E f \in same(i) : f.status = "observed"
      BY <2>1, <3>1
    <3>2. CASE (\A f \in same(i) : f.status # "observed") /\ \E f \in same(i) : f.status = "inferred"
      BY <2>1, <3>2
    <3>3. CASE \A f \in same(i) : f.status = "unknown"
      BY <1>2, <2>1, <3>3
    <3> QED
      BY <2>1, <3>1, <3>2, <3>3
  <2>3. best(i) \in same(i)
    BY <2>2
  <2> QED
    BY <1>2, <2>3 DEF Sound
<1>4. IsFiniteSet(UNION {f.support : f \in same(i)})
  <2> DEFINE h == [f \in same(i) |-> f.support]
             T == {f.support : f \in same(i)}
  <2>1. T \subseteq {h[f] : f \in same(i)}
    OBVIOUS
  <2>2. \A t \in T : IsFiniteSet(t)
    BY <1>2 DEF Sound
  <2> HIDE DEF T, h, same
  <2>3. IsFiniteSet(T)
    BY <1>2, <2>1, FiniteImage
  <2>4. IsFiniteSet(UNION T)
    BY <2>2, <2>3, FS_UNION
  <2> QED
    BY <2>4 DEF T
<1>5. IsFiniteSet(UNION {f.counter : f \in same(i)})
  <2> DEFINE h == [f \in same(i) |-> f.counter]
             T == {f.counter : f \in same(i)}
  <2>1. T \subseteq {h[f] : f \in same(i)}
    OBVIOUS
  <2>2. \A t \in T : IsFiniteSet(t)
    BY <1>2 DEF Sound
  <2> HIDE DEF T, h, same
  <2>3. IsFiniteSet(T)
    BY <1>2, <2>1, FiniteImage
  <2>4. IsFiniteSet(UNION T)
    BY <2>2, <2>3, FS_UNION
  <2> QED
    BY <2>4 DEF T
<1> HIDE DEF same, best
<1> QED
  BY <1>1, <1>3, <1>4, <1>5 DEF Sound

\* What all detectors find.
Found(in) ==
  (StaleContext(in) \cup WorkspaceDivergence(in)) \cup
  ((VerificationFailures(in) \cup PermissionConflicts(in)) \cup
   (ToolErrors(in) \cup (RepeatedFailures(in) \cup RequestLoops(in))))

LEMMA DetectedIsMerged == \A in : Detected(in) = Merged(Found(in))
<1> TAKE in
<1>1. Found(in) = StaleContext(in) \cup WorkspaceDivergence(in) \cup VerificationFailures(in) \cup
                  PermissionConflicts(in) \cup ToolErrors(in) \cup RepeatedFailures(in) \cup RequestLoops(in)
  BY DEF Found
<1> QED
  BY <1>1 DEF Detected

LEMMA FewFound ==
  ASSUME NEW in, Evidence(in) PROVE FewSound(Found(in))
<1>1. \A S, T : FewSound(S) /\ FewSound(T) => FewSound(S \cup T)
  BY FS_Union DEF FewSound
<1>2. FewSound(StaleContext(in) \cup WorkspaceDivergence(in))
  BY <1>1, FewStale, FewDivergences
<1>3. FewSound(VerificationFailures(in) \cup PermissionConflicts(in))
  BY <1>1, FewVerified, FewConflicts
<1>4. FewSound(ToolErrors(in) \cup (RepeatedFailures(in) \cup RequestLoops(in)))
  BY <1>1, FewToolErrors, FewRepeated, FewLoops
<1> QED
  BY <1>1, <1>2, <1>3, <1>4 DEF Found

\* What all detectors find, and what none explains.
LEMMA FindingsSound ==
  ASSUME NEW in, Evidence(in), NEW f \in Findings(in)
  PROVE  Sound(f)
<1>1. CASE f \in Detected(in)
  BY <1>1, FewFound, DetectedIsMerged, MergedSound
<1>2. CASE f \in Unattributed(in)
  <2>1. IsFiniteSet(Ids(Failures(in))) /\ IsFiniteSet({})
    BY FewSignals, FiniteIds, FS_EmptySet
  <2> QED
    BY <1>2, <2>1, SoundFinding DEF Unattributed
<1> QED
  BY <1>1, <1>2 DEF Findings

\* A diagnostic outcome is the only thing that confirms a candidate.
LEMMA CandidateOf ==
  ASSUME NEW in, Evidence(in), NEW c \in Candidates(in)
  PROVE  /\ \/ c.status \in {"observed", "inferred", "unknown"}
            \/ /\ c.status = "confirmed" /\ in.checkpoint.complete
               /\ \E o \in in.outcomes : /\ o.candidate = c.id /\ o.checkpoint = in.checkpoint.id
                                         /\ o.result = "mechanism-confirmed"
         /\ \E n, m \in Nat : c.score = Score(c.status, n, m)
<1>1. PICK f \in Findings(in) : c = Candidate(in, WithOutcomes(f, in))
  BY DEF Candidates
<1>2. Sound(f)
  BY <1>1, FindingsSound
<1> DEFINE of(result) == {o \in in.outcomes : Applies(o, f, in) /\ o.result = result}
           grade == IF \E o \in of("mechanism-confirmed") : o.deterministic THEN "confirmed" ELSE f.status
           support == f.support \cup Ids(of("mechanism-confirmed"))
           counter == f.counter \cup Ids(of("mechanism-refuted"))
           w == [id |-> f.id, status |-> grade, support |-> support, counter |-> counter]
<1>3. WithOutcomes(f, in) = w
  <2>1. WithOutcomes(f, in) = [f EXCEPT !.status = grade, !.support = support, !.counter = counter]
    BY DEF WithOutcomes
  <2> HIDE DEF grade, support, counter
  <2> QED
    BY <1>2, <2>1 DEF Sound
<1>4. /\ c.id = f.id /\ c.status = grade
      /\ c.score = Score(grade, Cardinality(Refs(in, support)), Cardinality(Refs(in, counter)))
  <2> HIDE DEF grade, support, counter
  <2> QED
    BY <1>1, <1>3 DEF Candidate
<1>5. IsFiniteSet(support) /\ IsFiniteSet(counter)
  <2>1. IsFiniteSet(in.outcomes)
    BY DEF Evidence
  <2>2. IsFiniteSet(Ids(of("mechanism-confirmed"))) /\ IsFiniteSet(Ids(of("mechanism-refuted")))
    BY <2>1, FiniteIds
  <2> HIDE DEF of
  <2> QED
    BY <1>2, <2>2, FS_Union DEF Sound
<1>6. /\ Cardinality(Refs(in, support)) \in Nat
      /\ Cardinality(Refs(in, counter)) \in Nat
  <2> HIDE DEF support, counter
  <2> QED
    BY <1>5, FiniteRefs, FS_CardinalityType
<1>7. \/ grade \in {"observed", "inferred", "unknown"}
      \/ /\ grade = "confirmed" /\ in.checkpoint.complete
         /\ \E o \in in.outcomes : /\ o.candidate = f.id /\ o.checkpoint = in.checkpoint.id
                                   /\ o.result = "mechanism-confirmed"
  BY <1>2 DEF Sound, Applies
<1> HIDE DEF grade, support, counter
<1> QED
  BY <1>4, <1>6, <1>7

\* The least score of what is confirmed is 82, the highest of what is not is 79.
LEMMA ConfirmedAbove ==
  ASSUME NEW in, Evidence(in), NEW c \in Candidates(in), NEW d \in Candidates(in),
         c.status = "confirmed", d.status # "confirmed"
  PROVE  Above(c, d)
<1>1. PICK n \in Nat, m \in Nat : c.score = Score("confirmed", n, m)
  BY CandidateOf
<1>2. d.status \in {"observed", "inferred", "unknown"} /\ \E k, l \in Nat : d.score = Score(d.status, k, l)
  BY CandidateOf
<1>3. PICK k \in Nat, l \in Nat : d.score = Score(d.status, k, l)
  BY <1>2
<1>4. c.score >= 82
  BY <1>1 DEF Score, StatusBase, Minimum, Maximum
<1>5. StatusBase(d.status) \in {70, 50, 0}
  BY <1>2 DEF StatusBase
<1>6. d.score <= 79 /\ d.score \in Int
  BY <1>3, <1>5 DEF Score, Minimum, Maximum
<1>7. c.score \in Int
  BY <1>1 DEF Score, StatusBase, Minimum, Maximum
<1> QED
  BY <1>4, <1>6, <1>7 DEF Above

------------------------------------------------------------------------------
(* What more evidence leaves standing                                      *)

\* Each lasting conclusion of S is one of T, and no weaker there.
AsStrong(S, T) ==
  \A c \in S : c.id[1] \in Durable => \E d \in T : d.id = c.id /\ Rank(c.status) <= Rank(d.status)

LEMMA RankIsNat == \A grade : Rank(grade) \in 1..4
BY DEF Rank

LEMMA AsStrongItself == \A S : AsStrong(S, S)
BY RankIsNat DEF AsStrong

LEMMA AsStrongOnwards ==
  ASSUME NEW S, NEW T, NEW U, AsStrong(S, T), AsStrong(T, U)
  PROVE  AsStrong(S, U)
<1> SUFFICES ASSUME NEW c \in S, c.id[1] \in Durable
             PROVE  \E d \in U : d.id = c.id /\ Rank(c.status) <= Rank(d.status)
  BY DEF AsStrong
<1>1. PICK d \in T : d.id = c.id /\ Rank(c.status) <= Rank(d.status)
  BY DEF AsStrong
<1>2. PICK e \in U : e.id = d.id /\ Rank(d.status) <= Rank(e.status)
  BY <1>1 DEF AsStrong
<1> QED
  BY <1>1, <1>2, RankIsNat

LEMMA AsStrongTogether ==
  ASSUME NEW S, NEW T, NEW U, NEW V, AsStrong(S, T), AsStrong(U, V)
  PROVE  AsStrong(S \cup U, T \cup V)
BY DEF AsStrong

\* The evidence of b is that of a and more: what was known of a gate, and what a fork
\* confirmed, is known there too.
More(a, b) ==
  /\ a.facts \subseteq b.facts /\ a.freshness \subseteq b.freshness
  /\ a.comparisons \subseteq b.comparisons /\ a.requests \subseteq b.requests
  /\ a.intents \subseteq b.intents /\ a.releases \subseteq b.releases /\ a.results \subseteq b.results
  /\ a.checkpoint = b.checkpoint
  /\ \A r \in a.results : GateTool(a, r.gate) = GateTool(b, r.gate)
  /\ \A i \in a.intents : \A r \in b.releases :
       r.intent = i.id => r.gate = i.gate /\ r.decision = i.decision
  /\ \A o \in a.outcomes : o.deterministic /\ o.result = "mechanism-confirmed" =>
       \E p \in b.outcomes : /\ p.deterministic /\ p.result = "mechanism-confirmed"
                             /\ p.candidate = o.candidate /\ p.variable = o.variable
                             /\ p.checkpoint = o.checkpoint

\* What a detector of lasting conclusions has found it finds with more evidence.
LEMMA StaleStands ==
  ASSUME NEW a, NEW b, More(a, b) PROVE AsStrong(StaleContext(a), StaleContext(b))
<1> SUFFICES ASSUME NEW c \in StaleContext(a)
             PROVE  \E d \in StaleContext(b) : d.id = c.id /\ Rank(c.status) <= Rank(d.status)
  BY DEF AsStrong
<1> DEFINE counter(in, i) == Ids({j \in in.freshness : j.fact = i.fact /\ ~ContentDiffers(j)
                                                        /\ (SameWorkspace(j) \/ NoDigests(j))})
           f(in, i) == Finding("stale-context", "context", i.fact, "inferred", {i.id}, counter(in, i))
           stale(in) == {i \in in.freshness : ContentDiffers(i) \/ (NoDigests(i) /\ ~SameWorkspace(i))}
<1>1. \A in : StaleContext(in) = {f(in, i) : i \in stale(in)}
  BY DEF StaleContext
<1>2. stale(a) \subseteq stale(b)
  BY DEF More
<1>3. \A i : f(a, i).id = f(b, i).id /\ f(a, i).status = f(b, i).status
  BY DEF Finding
<1> HIDE DEF f, stale
<1>4. PICK i \in stale(a) : c = f(a, i)
  BY <1>1
<1>5. f(b, i) \in StaleContext(b)
  BY <1>1, <1>2
<1> QED
  BY <1>3, <1>4, <1>5, RankIsNat

LEMMA DivergenceStands ==
  ASSUME NEW a, NEW b, More(a, b) PROVE AsStrong(WorkspaceDivergence(a), WorkspaceDivergence(b))
<1> SUFFICES ASSUME NEW c \in WorkspaceDivergence(a)
             PROVE  \E d \in WorkspaceDivergence(b) : d.id = c.id /\ Rank(c.status) <= Rank(d.status)
  BY DEF AsStrong
<1> DEFINE counter(in, i) == Ids({j \in in.comparisons : j.boundary = i.boundary /\ j.expected = j.observed})
           f(in, i) == Finding("workspace-divergence", "environment", i.boundary, "observed", {i.id},
                               counter(in, i))
           diverged(in) == {i \in in.comparisons : i.expected # i.observed}
<1>1. \A in : WorkspaceDivergence(in) = {f(in, i) : i \in diverged(in)}
  BY DEF WorkspaceDivergence
<1>2. diverged(a) \subseteq diverged(b)
  BY DEF More
<1>3. \A i : f(a, i).id = f(b, i).id /\ f(a, i).status = f(b, i).status
  BY DEF Finding
<1> HIDE DEF f, diverged
<1>4. PICK i \in diverged(a) : c = f(a, i)
  BY <1>1
<1>5. f(b, i) \in WorkspaceDivergence(b)
  BY <1>1, <1>2
<1> QED
  BY <1>3, <1>4, <1>5, RankIsNat

\* The wish to deny becomes the denial that is released for it, of the same gate.
LEMMA ConflictStands ==
  ASSUME NEW a, NEW b, More(a, b) PROVE AsStrong(PermissionConflicts(a), PermissionConflicts(b))
<1> SUFFICES ASSUME NEW c \in PermissionConflicts(a)
             PROVE  \E d \in PermissionConflicts(b) : d.id = c.id /\ Rank(c.status) <= Rank(d.status)
  BY DEF AsStrong
<1> DEFINE counter(in, r) == Ids({s \in in.releases : s.gate = r.gate /\ s.decision # "reject"})
           f(in, r) == Finding("permission-conflict", "missionbraid", r.gate, "observed", {r.id, r.gate},
                               counter(in, r))
           g(i) == Finding("permission-conflict", "missionbraid", i.gate, "unknown", {i.id}, {})
           denied(in) == {r \in in.releases : r.decision = "reject"}
           wished(in) == {i \in in.intents : i.decision = "reject" /\ ~\E r \in in.releases : r.intent = i.id}
<1>1. \A in : PermissionConflicts(in) = {f(in, r) : r \in denied(in)} \cup {g(i) : i \in wished(in)}
  BY DEF PermissionConflicts
<1>2. denied(a) \subseteq denied(b)
  BY DEF More
<1>3. \A in, r : /\ f(in, r).id = <<"permission-conflict", "missionbraid", r.gate>>
                 /\ f(in, r).status = "observed"
                 /\ g(r).id = <<"permission-conflict", "missionbraid", r.gate>>
                 /\ g(r).status = "unknown"
  BY DEF Finding
<1>4. \A i \in wished(a) : i \in wished(b) \/ \E r \in denied(b) : r.gate = i.gate
  BY DEF More
<1>5. Rank("unknown") <= Rank("observed")
  BY DEF Rank
<1> HIDE DEF f, g, denied, wished
<1>6. ASSUME NEW r \in denied(a), c = f(a, r)
      PROVE  \E d \in PermissionConflicts(b) : d.id = c.id /\ Rank(c.status) <= Rank(d.status)
  <2>1. f(b, r) \in PermissionConflicts(b)
    BY <1>1, <1>2
  <2>2. f(b, r).id = c.id /\ f(b, r).status = c.status
    BY <1>3, <1>6
  <2> QED
    BY <2>1, <2>2, RankIsNat
<1>7. ASSUME NEW i \in wished(a), c = g(i)
      PROVE  \E d \in PermissionConflicts(b) : d.id = c.id /\ Rank(c.status) <= Rank(d.status)
  <2>1. CASE i \in wished(b)
    <3>1. g(i) \in PermissionConflicts(b)
      BY <1>1, <2>1
    <3> QED
      BY <1>7, <3>1, RankIsNat
  <2>2. CASE \E r \in denied(b) : r.gate = i.gate
    <3>1. PICK r \in denied(b) : r.gate = i.gate
      BY <2>2
    <3>2. f(b, r) \in PermissionConflicts(b)
      BY <1>1
    <3> QED
      BY <1>3, <1>5, <1>7, <3>1, <3>2
  <2> QED
    BY <1>4, <2>1, <2>2
<1> QED
  BY <1>1, <1>6, <1>7

LEMMA ToolErrorStands ==
  ASSUME NEW a, NEW b, More(a, b) PROVE AsStrong(ToolErrors(a), ToolErrors(b))
<1> SUFFICES ASSUME NEW c \in ToolErrors(a)
             PROVE  \E d \in ToolErrors(b) : d.id = c.id /\ Rank(c.status) <= Rank(d.status)
  BY DEF AsStrong
<1> DEFINE
      failedFacts(in) == {f \in in.facts : \/ f.kind = "tool_result" /\ ToolFailed(f)
                                           \/ f.kind = "failure" /\ f.name = "tool"}
      toolOf(f) == IF f.kind = "tool_result" THEN f.name ELSE "unknown-tool"
      failedResults(in) == {r \in in.results : r.outcome = "failed"}
      support(in, tool) == Ids({f \in failedFacts(in) : toolOf(f) = tool}) \cup
                           Ids({r \in failedResults(in) : GateTool(in, r.gate) = tool})
      counter(in, tool) == Ids({s \in Successes(in) : s.against = <<"tool", tool>>})
      tools(in) == {toolOf(f) : f \in failedFacts(in)} \cup {GateTool(in, r.gate) : r \in failedResults(in)}
      g(in, tool) == Finding("tool-error", "tool", tool, "observed", support(in, tool), counter(in, tool))
<1>1. \A in : ToolErrors(in) = {g(in, tool) : tool \in tools(in)}
  BY DEF ToolErrors
<1>2. tools(a) \subseteq tools(b)
  <2>1. failedFacts(a) \subseteq failedFacts(b) /\ failedResults(a) \subseteq failedResults(b)
    BY DEF More
  <2>2. \A r \in failedResults(a) : GateTool(a, r.gate) = GateTool(b, r.gate)
    BY DEF More
  <2> HIDE DEF failedFacts, failedResults, toolOf
  <2> QED
    BY <2>1, <2>2
<1>3. \A tool : g(a, tool).id = g(b, tool).id /\ g(a, tool).status = g(b, tool).status
  BY DEF Finding
<1> HIDE DEF g, tools
<1>4. PICK tool \in tools(a) : c = g(a, tool)
  BY <1>1
<1>5. g(b, tool) \in ToolErrors(b)
  BY <1>1, <1>2
<1> QED
  BY <1>3, <1>4, <1>5, RankIsNat

LEMMA LoopStands ==
  ASSUME NEW a, NEW b, More(a, b), Evidence(b) PROVE AsStrong(RequestLoops(a), RequestLoops(b))
<1> SUFFICES ASSUME NEW c \in RequestLoops(a)
             PROVE  \E d \in RequestLoops(b) : d.id = c.id /\ Rank(c.status) <= Rank(d.status)
  BY DEF AsStrong
<1> DEFINE
      key(q) == <<q.attempt, q.tool, q.input>>
      group(in, k) == {q \in in.requests : key(q) = k}
      counter(in, k) == Ids({r \in in.results : r.outcome = "succeeded" /\ \E q \in group(in, k) : q.gate = r.gate})
      loops(in) == {k \in {key(q) : q \in in.requests} : Cardinality(group(in, k)) >= 3}
      g(in, k) == Finding("loop", "model", k, "inferred", {q.gate : q \in group(in, k)}, counter(in, k))
<1>1. \A in : RequestLoops(in) = {g(in, k) : k \in loops(in)}
  BY DEF RequestLoops
<1>2. loops(a) \subseteq loops(b)
  <2> SUFFICES ASSUME NEW k \in loops(a) PROVE k \in loops(b)
    OBVIOUS
  <2>1. k \in {key(q) : q \in a.requests} /\ Cardinality(group(a, k)) >= 3
    OBVIOUS
  <2>2. a.requests \subseteq b.requests /\ IsFiniteSet(b.requests)
    BY DEF More, Evidence
  <2>3. k \in {key(q) : q \in b.requests}
    BY <2>1, <2>2
  <2>4. group(a, k) \in SUBSET group(b, k) /\ group(b, k) \in SUBSET b.requests
    BY <2>2
  <2> HIDE DEF group
  <2>5. IsFiniteSet(group(b, k))
    BY <2>2, <2>4, FS_Subset
  <2>6. /\ Cardinality(group(a, k)) <= Cardinality(group(b, k))
        /\ Cardinality(group(a, k)) \in Nat /\ Cardinality(group(b, k)) \in Nat
    BY <2>4, <2>5, FS_Subset, FS_CardinalityType
  <2> QED
    BY <2>1, <2>3, <2>6
<1>3. \A k : g(a, k).id = g(b, k).id /\ g(a, k).status = g(b, k).status
  BY DEF Finding
<1> HIDE DEF g, loops
<1>4. PICK k \in loops(a) : c = g(a, k)
  BY <1>1
<1>5. g(b, k) \in RequestLoops(b)
  BY <1>1, <1>2
<1> QED
  BY <1>3, <1>4, <1>5, RankIsNat

\* addFinding: of the findings of one identity, the best.
LEMMA MergedIsBest ==
  ASSUME NEW S, FewSound(S), NEW i \in Ids(S)
  PROVE  \E m \in Merged(S) :
           /\ m.id = i
           /\ \E f \in S : f.id = i /\ f.status = m.status
           /\ \A g \in S : g.id = i => Rank(g.status) <= Rank(m.status)
<1> DEFINE same == {f \in S : f.id = i}
           best == CHOOSE f \in same : \A g \in same : Rank(g.status) <= Rank(f.status)
           m == [id |-> i, status |-> best.status, support |-> UNION {f.support : f \in same},
                 counter |-> UNION {f.counter : f \in same}]
<1>1. m \in Merged(S)
  BY DEF Merged
<1>2. m.id = i /\ m.status = best.status
  OBVIOUS
<1>3. same # {} /\ \A f \in same : Sound(f)
  BY DEF FewSound, Ids
<1>4. \E f \in same : \A g \in same : Rank(g.status) <= Rank(f.status)
  <2>1. \A f \in same : \/ f.status = "observed" /\ Rank(f.status) = 3
                        \/ f.status = "inferred" /\ Rank(f.status) = 2
                        \/ f.status = "unknown" /\ Rank(f.status) = 1
    BY <1>3 DEF Sound, Rank
  <2> HIDE DEF same
  <2>2. CASE \E f \in same : f.status = "observed"
    BY <2>1, <2>2
  <2>3. CASE (\A f \in same : f.status # "observed") /\ \E f \in same : f.status = "inferred"
    BY <2>1, <2>3
  <2>4. CASE \A f \in same : f.status = "unknown"
    BY <1>3, <2>1, <2>4
  <2> QED
    BY <2>1, <2>2, <2>3, <2>4
<1>5. best \in same /\ \A g \in same : Rank(g.status) <= Rank(best.status)
  <2> HIDE DEF same
  <2> QED
    BY <1>4
<1> HIDE DEF m, best
<1> QED
  BY <1>1, <1>2, <1>5

\* Each merged finding is at the status of one that was merged.
LEMMA MergedFrom ==
  ASSUME NEW S, FewSound(S), NEW m \in Merged(S)
  PROVE  m.id \in Ids(S) /\ \E f \in S : f.id = m.id /\ f.status = m.status
<1> DEFINE same(i) == {f \in S : f.id = i}
           best(i) == CHOOSE f \in same(i) : \A g \in same(i) : Rank(g.status) <= Rank(f.status)
           w(i) == [id |-> i, status |-> best(i).status, support |-> UNION {f.support : f \in same(i)},
                    counter |-> UNION {f.counter : f \in same(i)}]
<1>1. PICK i \in Ids(S) : m = w(i)
  BY DEF Merged
<1>2. Merged(S) = {w(j) : j \in Ids(S)} /\ \A j : w(j).id = j
  BY DEF Merged
<1> HIDE DEF w
<1>3. m.id = i /\ \A x \in Merged(S), y \in Merged(S) : x.id = y.id => x = y
  BY <1>1, <1>2
<1>4. PICK x \in Merged(S) : x.id = i /\ \E f \in S : f.id = i /\ f.status = x.status
  BY MergedIsBest
<1> QED
  BY <1>2, <1>3, <1>4

LEMMA MergedStands ==
  ASSUME NEW S, NEW T, FewSound(S), FewSound(T), AsStrong(S, T)
  PROVE  AsStrong(Merged(S), Merged(T))
<1> SUFFICES ASSUME NEW m \in Merged(S), m.id[1] \in Durable
             PROVE  \E n \in Merged(T) : n.id = m.id /\ Rank(m.status) <= Rank(n.status)
  BY DEF AsStrong
<1>1. PICK f \in S : f.id = m.id /\ f.status = m.status
  BY MergedFrom
<1>2. PICK g \in T : g.id = f.id /\ Rank(f.status) <= Rank(g.status)
  BY <1>1 DEF AsStrong
<1>3. g.id \in Ids(T)
  BY DEF Ids
<1>4. PICK n \in Merged(T) : n.id = g.id /\ \A h \in T : h.id = g.id => Rank(h.status) <= Rank(n.status)
  BY <1>3, MergedIsBest
<1> QED
  BY <1>1, <1>2, <1>4, RankIsNat

\* The other detectors find nothing that lasts.
LEMMA OthersPass ==
  ASSUME NEW in
  PROVE  \A f \in VerificationFailures(in) \cup RepeatedFailures(in) \cup Unattributed(in) :
           f.id[1] \notin Durable
<1>1. \A l, m, s, u, v :
        /\ Finding("verification-failure", l, m, s, u, v).id[1] \notin Durable
        /\ Finding("repeated-failure", l, m, s, u, v).id[1] \notin Durable
        /\ Finding("unattributed", l, m, s, u, v).id[1] \notin Durable
  BY DEF Finding, Durable
<1>2. \A f \in VerificationFailures(in) : f.id[1] \notin Durable
  BY <1>1 DEF VerificationFailures
<1>3. \A f \in RepeatedFailures(in) : f.id[1] \notin Durable
  BY <1>1 DEF RepeatedFailures
<1>4. \A f \in Unattributed(in) : f.id[1] \notin Durable
  BY <1>1 DEF Unattributed
<1> QED
  BY <1>2, <1>3, <1>4

LEMMA FindingsStand ==
  ASSUME NEW a, NEW b, Evidence(a), Evidence(b), More(a, b)
  PROVE  AsStrong(Findings(a), Findings(b))
<1>1. AsStrong(StaleContext(a) \cup WorkspaceDivergence(a), StaleContext(b) \cup WorkspaceDivergence(b))
  BY StaleStands, DivergenceStands, AsStrongTogether
<1>2. AsStrong(VerificationFailures(a) \cup PermissionConflicts(a),
               VerificationFailures(b) \cup PermissionConflicts(b))
  <2>1. AsStrong(VerificationFailures(a), VerificationFailures(b))
    BY OthersPass DEF AsStrong
  <2> QED
    BY <2>1, ConflictStands, AsStrongTogether
<1>3. AsStrong(RepeatedFailures(a) \cup RequestLoops(a), RepeatedFailures(b) \cup RequestLoops(b))
  <2>1. AsStrong(RepeatedFailures(a), RepeatedFailures(b))
    BY OthersPass DEF AsStrong
  <2> QED
    BY <2>1, LoopStands, AsStrongTogether
<1>4. AsStrong(ToolErrors(a) \cup (RepeatedFailures(a) \cup RequestLoops(a)),
               ToolErrors(b) \cup (RepeatedFailures(b) \cup RequestLoops(b)))
  BY <1>3, ToolErrorStands, AsStrongTogether
<1>5. AsStrong(Found(a), Found(b))
  BY <1>1, <1>2, <1>4, AsStrongTogether DEF Found
<1>6. AsStrong(Detected(a), Detected(b))
  BY <1>5, FewFound, MergedStands, DetectedIsMerged
<1>7. AsStrong(Unattributed(a), Unattributed(b))
  BY OthersPass DEF AsStrong
<1> QED
  BY <1>6, <1>7, AsStrongTogether DEF Findings

\* What an outcome confirms of a finding.
Confirms(in, f) ==
  \E o \in in.outcomes : Applies(o, f, in) /\ o.result = "mechanism-confirmed" /\ o.deterministic

LEMMA CandidateIs ==
  ASSUME NEW in, Evidence(in), NEW f \in Findings(in)
  PROVE  /\ Candidate(in, WithOutcomes(f, in)).id = f.id
         /\ Candidate(in, WithOutcomes(f, in)).status = IF Confirms(in, f) THEN "confirmed" ELSE f.status
<1>1. Sound(f)
  BY FindingsSound
<1> DEFINE of(result) == {o \in in.outcomes : Applies(o, f, in) /\ o.result = result}
           grade == IF \E o \in of("mechanism-confirmed") : o.deterministic THEN "confirmed" ELSE f.status
           support == f.support \cup Ids(of("mechanism-confirmed"))
           counter == f.counter \cup Ids(of("mechanism-refuted"))
           w == WithOutcomes(f, in)
<1>2. w = [f EXCEPT !.status = grade, !.support = support, !.counter = counter]
  BY DEF WithOutcomes
<1>3. grade = IF Confirms(in, f) THEN "confirmed" ELSE f.status
  BY DEF Confirms
<1> HIDE DEF w, grade, support, counter
<1>4. w.id = f.id /\ w.status = grade
  BY <1>1, <1>2 DEF Sound
<1>5. Candidate(in, w).id = w.id /\ Candidate(in, w).status = w.status
  BY DEF Candidate
<1> QED
  BY <1>3, <1>4, <1>5 DEF w

\* More evidence takes back no lasting conclusion, and weakens none.
LEMMA CandidatesStand ==
  ASSUME NEW a, NEW b, Evidence(a), Evidence(b), More(a, b)
  PROVE  AsStrong(Candidates(a), Candidates(b))
<1> SUFFICES ASSUME NEW c \in Candidates(a), c.id[1] \in Durable
             PROVE  \E d \in Candidates(b) : d.id = c.id /\ Rank(c.status) <= Rank(d.status)
  BY DEF AsStrong
<1>1. PICK f \in Findings(a) : c = Candidate(a, WithOutcomes(f, a))
  BY DEF Candidates
<1>2. c.id = f.id /\ c.status = IF Confirms(a, f) THEN "confirmed" ELSE f.status
  BY <1>1, CandidateIs
<1>3. PICK g \in Findings(b) : g.id = f.id /\ Rank(f.status) <= Rank(g.status)
  BY <1>2, FindingsStand DEF AsStrong
<1> DEFINE d == Candidate(b, WithOutcomes(g, b))
<1>4. d \in Candidates(b)
  BY DEF Candidates
<1>5. d.id = g.id /\ d.status = IF Confirms(b, g) THEN "confirmed" ELSE g.status
  BY CandidateIs
<1>6. Confirms(a, f) => Confirms(b, g)
  <2> SUFFICES ASSUME Confirms(a, f) PROVE Confirms(b, g)
    OBVIOUS
  <2>1. PICK o \in a.outcomes : Applies(o, f, a) /\ o.result = "mechanism-confirmed" /\ o.deterministic
    BY DEF Confirms
  <2>2. PICK p \in b.outcomes : /\ p.deterministic /\ p.result = "mechanism-confirmed"
                                /\ p.candidate = o.candidate /\ p.variable = o.variable
                                /\ p.checkpoint = o.checkpoint
    BY <2>1 DEF More
  <2>3. Applies(p, g, b)
    <3>1. a.checkpoint = b.checkpoint
      BY DEF More
    <3>2. Variable(g.id) = Variable(f.id)
      BY <1>3
    <3> QED
      BY <1>3, <2>1, <2>2, <3>1, <3>2 DEF Applies
  <2> QED
    BY <2>2, <2>3 DEF Confirms
<1>7. \A s : Rank(s) <= Rank("confirmed")
  BY DEF Rank
<1> HIDE DEF d
<1>8. Rank(c.status) <= Rank(d.status)
  <2>1. CASE Confirms(b, g)
    BY <1>5, <1>7, <2>1
  <2>2. CASE ~Confirms(b, g)
    BY <1>2, <1>3, <1>5, <1>6, <2>2
  <2> QED
    BY <2>1, <2>2
<1> QED
  BY <1>2, <1>3, <1>4, <1>5, <1>8

------------------------------------------------------------------------------
(* What is shown while the Mission goes on                                 *)

Finished == {"finished", "receipted"}

\* A request names a fork that was there, with the checkpoint of its Intervention and,
\* about stale Context, the kind; what a fork's branch receives comes later.
Known(i) ==
  /\ events[i].type = "receipt" => events[i].branch = Root \/ events[i].branch \in DOMAIN forks
  /\ events[i].type = "diagnostic" =>
       /\ events[i].id \in DOMAIN forks
       /\ events[i].value.checkpoint = forks[events[i].id].checkpoint
       /\ events[i].value.candidate[1] = "stale-context" => forks[events[i].id].kind = "context"
       /\ \A j \in BranchReceipts(events, events[i].id) : i < j
EventInv == \A i \in DOMAIN events : Known(i)

\* A Context fork that finished has read what its checkpoint holds.
ForkInv ==
  \A k \in DOMAIN forks :
    forks[k].phase \in Finished /\ forks[k].kind = "context"
      => forks[k].read = checkpoints[forks[k].checkpoint]

\* A request on its way to the lease is of the right kind, on a checkpoint that exists.
AskInv ==
  \A a \in Clients : client[a].step = "accepted" =>
    /\ client[a].checkpoint \in DOMAIN checkpoints
    /\ client[a].wish.kind \in Kinds
    /\ client[a].wish.before \in Digests /\ client[a].wish.after \in Digests
    /\ client[a].wish.candidate[1] = "stale-context" => client[a].wish.kind = "context"

\* What stands behind a confirmed candidate, which no later step takes away.
Earned(c, checkpoint) ==
  \E i \in Events(events, "diagnostic") :
    LET k == events[i].id
    IN /\ events[i].value.candidate = c.id /\ events[i].value.checkpoint = checkpoint
       /\ k \in DOMAIN forks /\ forks[k].phase \in Finished /\ ContextWasRead(forks[k])
       /\ \E j \in BranchReceipts(events, k) : events[j].value = "verified"
ShownInv ==
  \A r \in Readers : \A c \in Shown(r) : c.status = "confirmed" =>
    /\ Earned(c, view[r].checkpoint)
    /\ \A d \in Shown(r) : d.status # "confirmed" => Above(c, d)

InsightIInv == InsightTypeOK /\ EventInv /\ ForkInv /\ AskInv /\ ShownInv

\* The projection is made of finitely many events.
LEMMA ProjectionIsEvidence ==
  ASSUME NEW X, NEW h \in Seq(X), NEW c
  PROVE  Evidence(Projection(h, c))
<1> DEFINE D == DOMAIN h
           in == Projection(h, c)
<1>0. IsFiniteSet(D)
  <2>1. D = 1..Len(h) /\ Len(h) \in Nat /\ 1 \in Int
    OBVIOUS
  <2>2. \A m, n \in Int : IsFiniteSet(m..n)
    BY FS_Interval
  <2> HIDE DEF D
  <2> QED
    BY <2>1, <2>2
<1>1. ASSUME NEW type PROVE Scope(h, type) \subseteq D /\ Events(h, type) \subseteq D
  BY DEF Scope, Events
<1>2. ASSUME NEW x, NEW y PROVE IsFiniteSet({x}) /\ IsFiniteSet({x, y})
  <2>1. IsFiniteSet({x}) /\ IsFiniteSet({y})
    BY FS_Singleton
  <2>2. IsFiniteSet({x} \cup {y})
    BY <2>1, FS_Union
  <2>3. {x, y} = {x} \cup {y}
    OBVIOUS
  <2> QED
    BY <2>1, <2>2, <2>3
<1>3. IsFiniteSet(RuntimeFacts(h)) /\ \A e \in RuntimeFacts(h) : IsFiniteSet(e.refs)
  <2> DEFINE f == [i \in D |-> RuntimeFact(h, i)]
  <2>1. RuntimeFacts(h) \subseteq {f[i] : i \in D}
    BY <1>1 DEF RuntimeFacts
  <2>2. \A i \in D : IsFiniteSet(f[i].refs)
    BY <1>2 DEF RuntimeFact
  <2> HIDE DEF f, D
  <2>3. IsFiniteSet(RuntimeFacts(h))
    BY <1>0, <2>1, FiniteImage
  <2> QED
    BY <2>1, <2>2, <2>3
<1>4. IsFiniteSet(Freshness(h)) /\ \A e \in Freshness(h) : IsFiniteSet(e.refs)
  <2> DEFINE F(i) == [id |-> At(i), refs |-> {<<"event", i>>, <<h[i].id, 0>>}, fact |-> h[i].id,
                      bound |-> h[i].value.bound, current |-> h[i].value.current,
                      boundWorkspace |-> h[i].value.bound, currentWorkspace |-> h[i].value.current]
             f == [i \in D |-> F(i)]
  <2>1. Freshness(h) \subseteq {f[i] : i \in D}
    BY <1>1 DEF Freshness
  <2>2. \A i \in D : IsFiniteSet(f[i].refs)
    BY <1>2
  <2> HIDE DEF f, D
  <2>3. IsFiniteSet(Freshness(h))
    BY <1>0, <2>1, FiniteImage
  <2> QED
    BY <2>1, <2>2, <2>3
<1>5. IsFiniteSet(Comparisons(h, c)) /\ \A e \in Comparisons(h, c) : IsFiniteSet(e.refs)
  <2> DEFINE f == [i \in D |-> Comparison(At(i), {}, h[i].id, h[i].value.expected, h[i].value.observed)]
             g == [i \in D |-> Comparison(<<"comparison", i>>, {At(i), <<"checkpoint", c>>}, i,
                                          h[i].value, checkpoints[c])]
             S == {f[i] : i \in D}
             T == {g[i] : i \in D}
  <2>1. Comparisons(h, c) \in SUBSET (S \cup T)
    BY <1>1 DEF Comparisons
  <2>2. \A i \in D : IsFiniteSet(f[i].refs) /\ IsFiniteSet(g[i].refs)
    BY <1>2, FS_EmptySet DEF Comparison
  <2> HIDE DEF f, g, D
  <2>3. IsFiniteSet(S) /\ IsFiniteSet(T)
    BY <1>0, FiniteImage
  <2>4. \A e \in S \cup T : IsFiniteSet(e.refs)
    BY <2>2
  <2> HIDE DEF S, T
  <2>5. IsFiniteSet(Comparisons(h, c))
    BY <2>1, <2>3, FS_Union, FS_Subset
  <2> QED
    BY <2>1, <2>4, <2>5
<1>6. IsFiniteSet(Verifications(h)) /\ \A e \in Verifications(h) : IsFiniteSet(e.refs)
  <2> DEFINE
        receipts == Scope(h, "receipt")
        runs(k) == {i \in Scope(h, "verification.completed") : h[i].id = k}
        last(k) == LastOf(IF receipts = {} THEN runs(k) ELSE receipts)
        grade(k) == IF receipts = {} THEN h[last(k)].value
                     ELSE IF h[last(k)].value = "verified" THEN "passed" ELSE "failed"
        f == [k \in Criteria |-> [id |-> <<"verified", last(k)>>, refs |-> {At(last(k))}, key |-> k,
                                  status |-> grade(k)]]
  <2>1. Verifications(h) \subseteq {f[k] : k \in Criteria}
    BY DEF Verifications
  <2>2. \A k \in Criteria : IsFiniteSet(f[k].refs)
    BY <1>2
  <2> HIDE DEF f
  <2>3. IsFiniteSet(Verifications(h))
    BY <2>1, FiniteImage, InsightAssumption
  <2> QED
    BY <2>1, <2>2, <2>3
<1>7. IsFiniteSet(Requests(h)) /\ \A e \in Requests(h) : IsFiniteSet(e.refs)
  <2> DEFINE f == [i \in D |-> [id |-> Gate(h[i].id), refs |-> {<<"effect", h[i].id>>}, gate |-> Gate(h[i].id),
                                attempt |-> Root, tool |-> h[i].value.tool, input |-> h[i].value.input]]
  <2>1. Requests(h) \subseteq {f[i] : i \in D}
    BY <1>1 DEF Requests
  <2>2. \A i \in D : IsFiniteSet(f[i].refs)
    BY <1>2
  <2> HIDE DEF f, D
  <2>3. IsFiniteSet(Requests(h))
    BY <1>0, <2>1, FiniteImage
  <2> QED
    BY <2>1, <2>2, <2>3
<1>8. ASSUME NEW type
      PROVE  IsFiniteSet(Decided(h, type)) /\ \A e \in Decided(h, type) : IsFiniteSet(e.refs)
  <2> DEFINE f == [i \in D |-> [id |-> At(i), refs |-> {Gate(h[i].id), <<"effect", h[i].id>>},
                                gate |-> Gate(h[i].id), decision |-> h[i].value.decision,
                                intent |-> At(h[i].value.intent)]]
  <2>1. Decided(h, type) \subseteq {f[i] : i \in D}
    BY <1>1 DEF Decided
  <2>2. \A i \in D : IsFiniteSet(f[i].refs)
    BY <1>2
  <2> HIDE DEF f, D
  <2>3. IsFiniteSet(Decided(h, type))
    BY <1>0, <2>1, FiniteImage
  <2> QED
    BY <2>1, <2>2, <2>3
<1>9. IsFiniteSet(Results(h)) /\ \A e \in Results(h) : IsFiniteSet(e.refs)
  <2> DEFINE f == [i \in D |-> [id |-> At(i), refs |-> {Gate(h[i].id), <<"effect", h[i].id>>},
                                gate |-> Gate(h[i].id), outcome |-> h[i].value, digest |-> h[i].value]]
  <2>1. Results(h) \subseteq {f[i] : i \in D}
    BY <1>1 DEF Results
  <2>2. \A i \in D : IsFiniteSet(f[i].refs)
    BY <1>2
  <2> HIDE DEF f, D
  <2>3. IsFiniteSet(Results(h))
    BY <1>0, <2>1, FiniteImage
  <2> QED
    BY <2>1, <2>2, <2>3
<1>10. IsFiniteSet(Outcomes(h, c)) /\ \A e \in Outcomes(h, c) : IsFiniteSet(e.refs)
  <2> DEFINE named(i) == {<<"checkpoint", c>>, <<"fork", h[i].id>>}
             told(i) == {At(j) : j \in BranchReceipts(h, h[i].id)}
             f == [i \in D |-> [id |-> <<"outcome", i>>, refs |-> named(i) \cup told(i),
                                candidate |-> h[i].value.candidate, variable |-> h[i].value.variable,
                                checkpoint |-> c, deterministic |-> TRUE,
                                result |-> Outcome(h, h[i].id)]]
  <2>1. Outcomes(h, c) \subseteq {f[i] : i \in D}
    BY <1>1 DEF Outcomes, Diagnosed
  <2>2. \A i \in D : IsFiniteSet(f[i].refs)
    <3> TAKE i \in D
    <3> DEFINE g == [j \in D |-> At(j)]
    <3>1. told(i) \subseteq {g[j] : j \in D}
      BY <1>1 DEF BranchReceipts
    <3>2. f[i].refs = named(i) \cup told(i)
      OBVIOUS
    <3>3. IsFiniteSet(named(i))
      BY <1>2
    <3> HIDE DEF f, g, D, named, told
    <3>4. IsFiniteSet(told(i))
      BY <1>0, <3>1, FiniteImage
    <3> QED
      BY <3>2, <3>3, <3>4, FS_Union
  <2> HIDE DEF f, D
  <2>3. IsFiniteSet(Outcomes(h, c))
    BY <1>0, <2>1, FiniteImage
  <2> QED
    BY <2>1, <2>2, <2>3
<1>11. /\ in.facts = RuntimeFacts(h) /\ in.freshness = Freshness(h)
       /\ in.comparisons = Comparisons(h, c) /\ in.verifications = Verifications(h)
       /\ in.requests = Requests(h) /\ in.intents = Decided(h, "gate.decided")
       /\ in.releases = Decided(h, "gate.released") /\ in.results = Results(h)
       /\ in.outcomes = Outcomes(h, c)
  BY DEF Projection
<1> HIDE DEF in
<1>12. /\ IsFiniteSet(in.facts) /\ IsFiniteSet(in.freshness) /\ IsFiniteSet(in.comparisons)
       /\ IsFiniteSet(in.verifications) /\ IsFiniteSet(in.requests) /\ IsFiniteSet(in.intents)
       /\ IsFiniteSet(in.releases) /\ IsFiniteSet(in.results) /\ IsFiniteSet(in.outcomes)
  BY <1>3, <1>4, <1>5, <1>6, <1>7, <1>8, <1>9, <1>10, <1>11
<1>13. ASSUME NEW e \in Registered(in) PROVE IsFiniteSet(e.refs)
  <2>1. CASE e \in in.facts \cup in.freshness \cup in.comparisons \cup in.verifications
    BY <1>3, <1>4, <1>5, <1>6, <1>11, <2>1
  <2>2. CASE e \in in.requests \cup in.intents \cup in.releases \cup in.results \cup in.outcomes
    BY <1>7, <1>8, <1>9, <1>10, <1>11, <2>2
  <2> QED
    BY <1>13, <2>1, <2>2 DEF Registered
<1> QED
  BY <1>12, <1>13 DEF Evidence, in

\* Of the receipts of a branch, one is the first.
LEMMA LeastMember ==
  ASSUME NEW S \in SUBSET Nat, S # {}
  PROVE  \E m \in S : \A n \in S : m <= n
<1> DEFINE R == OpToRel(<, Nat)
<1>1. IsWellFoundedOn(R, Nat)
  BY NatLessThanWellFounded
<1>2. ASSUME NEW x \in Nat, NEW y \in Nat, x < y PROVE <<x, y>> \in R
  BY <1>2 DEF OpToRel
<1> HIDE DEF R
<1>3. PICK m \in S : \A n \in S : ~(<<n, m>> \in R)
  BY <1>1, WFMin
<1>4. \A n \in S : ~(n < m)
  BY <1>2, <1>3
<1> QED
  BY <1>4

\* What an append leaves alone.
LEMMA Appended ==
  ASSUME NEW h, h \in Seq(Range(h)), NEW e, NEW g, g = Append(h, e)
  PROVE  /\ g \in Seq(Range(g))
         /\ Len(h) \in Nat /\ Len(g) = Len(h) + 1 /\ DOMAIN h = 1..Len(h) /\ DOMAIN g = 1..Len(g)
         /\ \A i \in DOMAIN h : i \in DOMAIN g /\ g[i] = h[i]
         /\ g[Len(g)] = e /\ Len(g) \notin DOMAIN h
<1> DEFINE X == Range(h)  Y == Range(h) \cup {e}
<1>1. \A i \in DOMAIN h : h[i] \in X
  BY DEF Range
<1> HIDE DEF X
<1>2. h \in Seq(X) /\ e \in Y /\ X \subseteq Y
  BY DEF X
<1> HIDE DEF Y
<1>3. h \in Seq(Y)
  BY <1>2
<1>4. g \in Seq(Y) /\ Len(g) = Len(h) + 1 /\ Len(h) \in Nat
  BY <1>2, <1>3
<1>5. \A i \in 1..Len(g) : g[i] = IF i <= Len(h) THEN h[i] ELSE e
  BY <1>2, <1>3
<1>6. DOMAIN h = 1..Len(h) /\ DOMAIN g = 1..Len(g)
  BY <1>3, <1>4
<1>7. g \in Seq(Range(g))
  <2>1. \A i \in 1..Len(g) : g[i] \in Range(g)
    BY <1>6 DEF Range
  <2> QED
    BY <1>4, <2>1
<1> QED
  BY <1>4, <1>5, <1>6, <1>7

\* What earlier Attempts have left names no fork.
LEMMA InitHolds == InsightInit => InsightIInv
<1> SUFFICES ASSUME InsightInit PROVE InsightIInv
  OBVIOUS
<1> USE DEF InsightInit
<1>1. events \in Seq(Range(events)) /\ \A i \in DOMAIN events : OfRoot(events[i])
  BY InsightAssumption
<1>2. InsightTypeOK
  <2>1. view = [r \in Readers |-> NoView] /\ \A r \in Readers : view[r] = NoView
    OBVIOUS
  <2>2. view = [r \in Readers |->
          [checkpoint |-> view[r].checkpoint, report |-> Shown(r), failed |-> view[r].failed]]
    BY <2>1 DEF NoView, Shown
  <2>3. \A c \in Clients : client[c] = Idle
    OBVIOUS
  <2>4. client = [c \in Clients |->
          [step |-> client[c].step, through |-> client[c].through,
           checkpoint |-> client[c].checkpoint, wish |-> client[c].wish]]
    BY <2>3 DEF Idle
  <2>5. Len(events) \in Nat
    BY <1>1
  <2>6. {source, cache} \subseteq Contents /\ observed \in 0..MaxObserved /\ edits \in 0..MaxEdits
    BY InsightAssumption DEF Contents
  <2>7. checkpoints \in Seq(Contents) /\ Len(checkpoints) = 0 /\ MaxCheckpoints \in Nat /\ forks \in Seq(Fork)
    BY InsightAssumption
  <2>8. \A c \in Clients :
          /\ client[c].step \in {"idle", "events", "checkpoint", "accepted"}
          /\ client[c].through \in 0..Len(events) /\ client[c].checkpoint \in 0..Len(checkpoints)
    BY <2>3, <2>5, <2>7 DEF Idle
  <2>9. \A r \in Readers : view[r].checkpoint \in 0..Len(checkpoints) /\ view[r].failed \in BOOLEAN
    <3>1. NoView.checkpoint = 0 /\ NoView.failed = FALSE
      BY DEF NoView
    <3>2. 0 \in 0..Len(checkpoints) /\ FALSE \in BOOLEAN
      BY <2>7
    <3> HIDE DEF InsightInit
    <3> QED
      BY <2>1, <3>1, <3>2, Zenon
  <2>10. \A k \in DOMAIN forks : forks[k].checkpoint \in DOMAIN checkpoints
    OBVIOUS
  <2> HIDE DEF InsightInit
  <2> QED
    BY <1>1, <2>2, <2>4, <2>6, <2>7, <2>8, <2>9, <2>10 DEF InsightTypeOK
<1>3. EventInv
  BY <1>1 DEF EventInv, Known, OfRoot, Event
<1>4. ForkInv /\ AskInv
  BY DEF ForkInv, AskInv, Idle
<1>5. ShownInv
  BY DEF ShownInv, Shown, NoView
<1> QED
  BY <1>2, <1>3, <1>4, <1>5 DEF InsightIInv

\* The type invariant in parts.
LogTypes == events \in Seq(Range(events))
CheckpointTypes == checkpoints \in Seq(Contents) /\ Len(checkpoints) <= MaxCheckpoints
ForkTypes == forks \in Seq(Fork) /\ \A k \in DOMAIN forks : forks[k].checkpoint \in DOMAIN checkpoints
ClientTypes ==
  /\ client = [c \in Clients |->
       [step |-> client[c].step, through |-> client[c].through,
        checkpoint |-> client[c].checkpoint, wish |-> client[c].wish]]
  /\ \A c \in Clients :
       /\ client[c].step \in {"idle", "events", "checkpoint", "accepted"}
       /\ client[c].through \in 0..Len(events) /\ client[c].checkpoint \in 0..Len(checkpoints)
ViewTypes ==
  /\ view = [r \in Readers |->
       [checkpoint |-> view[r].checkpoint, report |-> Shown(r), failed |-> view[r].failed]]
  /\ \A r \in Readers : view[r].checkpoint \in 0..Len(checkpoints) /\ view[r].failed \in BOOLEAN
CountTypes ==
  {source, cache} \subseteq Contents /\ observed \in 0..MaxObserved /\ edits \in 0..MaxEdits

\* What no step takes back: the log, the checkpoints, and of a fork all but its phase
\* and, until it has finished, what it has read.
LogGrows ==
  /\ Len(events) \in Nat /\ Len(events') \in Nat /\ Len(events) <= Len(events')
  /\ \A i \in DOMAIN events : i \in DOMAIN events' /\ events'[i] = events[i]
CheckpointsStay ==
  /\ Len(checkpoints) \in Nat /\ Len(checkpoints') \in Nat /\ Len(checkpoints) <= Len(checkpoints')
  /\ \A n \in DOMAIN checkpoints : n \in DOMAIN checkpoints' /\ checkpoints'[n] = checkpoints[n]
ForksGoOn ==
  \A k \in DOMAIN forks :
    /\ k \in DOMAIN forks' /\ forks'[k].checkpoint = forks[k].checkpoint
    /\ forks'[k].kind = forks[k].kind
    /\ forks'[k].before = forks[k].before /\ forks'[k].after = forks[k].after
    /\ forks[k].phase \in Finished => forks'[k].phase \in Finished /\ forks'[k].read = forks[k].read

LEMMA RecordGrows ==
  ASSUME LogTypes, NEW e, Record(e)
  PROVE  /\ LogTypes' /\ LogGrows /\ DOMAIN events' = 1..Len(events') /\ Len(events') \in DOMAIN events'
         /\ events'[Len(events')] = e /\ Len(events') = Len(events) + 1 /\ DOMAIN events = 1..Len(events)
         /\ \A i \in DOMAIN events' : i \in DOMAIN events \/ i = Len(events')
<1>1. events' = Append(events, e)
  BY DEF Record
<1>2. /\ LogTypes' /\ Len(events) \in Nat /\ Len(events') = Len(events) + 1
      /\ DOMAIN events = 1..Len(events) /\ DOMAIN events' = 1..Len(events')
      /\ \A i \in DOMAIN events : i \in DOMAIN events' /\ events'[i] = events[i]
      /\ events'[Len(events')] = e
  <2> DEFINE g == events'
  <2>1. g = Append(events, e)
    BY <1>1
  <2> HIDE DEF g
  <2>2. /\ g \in Seq(Range(g))
        /\ Len(events) \in Nat /\ Len(g) = Len(events) + 1
        /\ DOMAIN events = 1..Len(events) /\ DOMAIN g = 1..Len(g)
        /\ \A i \in DOMAIN events : i \in DOMAIN g /\ g[i] = events[i]
        /\ g[Len(g)] = e
    BY <2>1, Appended DEF LogTypes
  <2> QED
    BY <2>2 DEF g, LogTypes
<1> QED
  BY <1>2 DEF LogGrows

\* Frames: what is left alone keeps its part of the invariant while the rest goes on.
LEMMA SameLog ==
  ASSUME LogTypes, UNCHANGED events PROVE LogTypes' /\ LogGrows
<1>1. Len(events) \in Nat
  BY DEF LogTypes
<1> QED
  BY <1>1 DEF LogTypes, LogGrows, Range

LEMMA SameCheckpoints ==
  ASSUME CheckpointTypes, UNCHANGED checkpoints PROVE CheckpointTypes' /\ CheckpointsStay
<1>1. Len(checkpoints) \in Nat
  BY DEF CheckpointTypes
<1> QED
  BY <1>1 DEF CheckpointTypes, CheckpointsStay

LEMMA SameForks ==
  ASSUME ForkTypes, UNCHANGED forks, CheckpointsStay PROVE ForkTypes' /\ ForksGoOn
BY DEF ForkTypes, ForksGoOn, CheckpointsStay

LEMMA SameViews ==
  ASSUME ViewTypes, UNCHANGED view, CheckpointsStay PROVE ViewTypes'
<1>1. \A n \in 0..Len(checkpoints) : n \in 0..Len(checkpoints')
  BY DEF CheckpointsStay
<1> QED
  BY <1>1 DEF ViewTypes, Shown

LEMMA SameClients ==
  ASSUME ClientTypes, UNCHANGED client, LogGrows, CheckpointsStay PROVE ClientTypes'
<1>1. /\ \A n \in 0..Len(checkpoints) : n \in 0..Len(checkpoints')
      /\ \A n \in 0..Len(events) : n \in 0..Len(events')
  BY DEF CheckpointsStay, LogGrows
<1> QED
  BY <1>1 DEF ClientTypes

\* One client goes on to another step.
LEMMA ClientGoesOn ==
  ASSUME ClientTypes, LogGrows, CheckpointsStay, NEW c \in Clients,
         NEW s \in {"idle", "events", "checkpoint", "accepted"},
         NEW t \in 0..Len(events'), NEW n \in 0..Len(checkpoints'), NEW w,
         GoOn(c, s, t, n, w)
  PROVE  /\ ClientTypes'
         /\ client'[c].step = s /\ client'[c].through = t /\ client'[c].checkpoint = n
         /\ client'[c].wish = w
         /\ \A x \in Clients : x # c => client'[x] = client[x]
<1> DEFINE rec == [step |-> s, through |-> t, checkpoint |-> n, wish |-> w]
<1>1. /\ \A m \in 0..Len(checkpoints) : m \in 0..Len(checkpoints')
      /\ \A m \in 0..Len(events) : m \in 0..Len(events')
  BY DEF CheckpointsStay, LogGrows
<1>2. client' = [x \in Clients |-> IF x = c THEN rec ELSE client[x]]
  <2> HIDE DEF rec
  <2>1. client' = [client EXCEPT ![c] = rec] /\ DOMAIN client = Clients
    BY DEF ClientTypes, rec, GoOn
  <2> QED
    BY <2>1
<1>3. rec.step = s /\ rec.through = t /\ rec.checkpoint = n /\ rec.wish = w
  OBVIOUS
<1>4. rec = [step |-> rec.step, through |-> rec.through, checkpoint |-> rec.checkpoint, wish |-> rec.wish]
  OBVIOUS
<1> HIDE DEF rec
<1>5. client'[c] = rec /\ \A x \in Clients : x # c => client'[x] = client[x]
  BY <1>2
<1>6. \A x \in Clients :
        /\ client'[x] = [step |-> client'[x].step, through |-> client'[x].through,
                         checkpoint |-> client'[x].checkpoint, wish |-> client'[x].wish]
        /\ client'[x].step \in {"idle", "events", "checkpoint", "accepted"}
        /\ client'[x].through \in 0..Len(events') /\ client'[x].checkpoint \in 0..Len(checkpoints')
  <2> TAKE x \in Clients
  <2>1. CASE x = c
    BY <1>3, <1>4, <1>5, <2>1
  <2>2. CASE x # c
    BY <1>1, <1>5, <2>2 DEF ClientTypes
  <2> QED
    BY <2>1, <2>2
<1>7. client' = [x \in Clients |-> client'[x]]
  BY <1>2
<1>8. client' = [x \in Clients |->
        [step |-> client'[x].step, through |-> client'[x].through,
         checkpoint |-> client'[x].checkpoint, wish |-> client'[x].wish]]
  BY <1>6, <1>7
<1> QED
  BY <1>3, <1>5, <1>6, <1>8 DEF ClientTypes

Steady == LogGrows /\ CheckpointsStay /\ ForksGoOn

\* What is earned stays earned.
LEMMA EarnedStays ==
  ASSUME Steady, NEW c, NEW n, Earned(c, n)
  PROVE  Earned(c, n)'
<1>1. PICK i \in Events(events, "diagnostic") :
        /\ events[i].value.candidate = c.id /\ events[i].value.checkpoint = n
        /\ events[i].id \in DOMAIN forks /\ forks[events[i].id].phase \in Finished
        /\ ContextWasRead(forks[events[i].id])
        /\ \E j \in BranchReceipts(events, events[i].id) : events[j].value = "verified"
  BY DEF Earned
<1>2. i \in Events(events', "diagnostic") /\ events'[i] = events[i]
  BY DEF Steady, LogGrows, Events
<1> DEFINE k == events[i].id
<1>3. k \in DOMAIN forks' /\ forks'[k].phase \in Finished /\ ContextWasRead(forks'[k])
  BY <1>1 DEF Steady, ForksGoOn, ContextWasRead
<1>4. \E j \in BranchReceipts(events', k) : events'[j].value = "verified"
  BY <1>1 DEF Steady, LogGrows, BranchReceipts, Events
<1> QED
  BY <1>1, <1>2, <1>3, <1>4 DEF Earned

LEMMA ReaderKeeps ==
  ASSUME ShownInv, Steady, NEW r \in Readers,
         view'[r].report = view[r].report, view'[r].checkpoint = view[r].checkpoint,
         NEW c \in Shown(r)', c.status = "confirmed"
  PROVE  /\ Earned(c, view[r].checkpoint)'
         /\ \A d \in Shown(r)' : d.status # "confirmed" => Above(c, d)
<1>1. c \in Shown(r) /\ Shown(r)' = Shown(r)
  BY DEF Shown
<1>2. /\ Earned(c, view[r].checkpoint)
      /\ \A d \in Shown(r) : d.status # "confirmed" => Above(c, d)
  BY <1>1 DEF ShownInv
<1> DEFINE n == view[r].checkpoint
<1>3. \A m : Earned(c, m) => Earned(c, m)'
  BY EarnedStays
<1>4. n' = n
  OBVIOUS
<1> QED
  BY <1>1, <1>2, <1>3, <1>4

LEMMA SameReports ==
  ASSUME ShownInv, Steady, UNCHANGED view PROVE ShownInv'
<1> SUFFICES ASSUME NEW r \in Readers, NEW c \in Shown(r)', c.status = "confirmed"
             PROVE  /\ Earned(c, view[r].checkpoint)'
                    /\ \A d \in Shown(r)' : d.status # "confirmed" => Above(c, d)
  BY DEF ShownInv
<1> QED
  BY ReaderKeeps

LEMMA SameRequests ==
  ASSUME AskInv, UNCHANGED client, CheckpointsStay PROVE AskInv'
BY DEF AskInv, CheckpointsStay

LEMMA SameReadings ==
  ASSUME ForkInv, ForkTypes, UNCHANGED forks, CheckpointsStay PROVE ForkInv'
BY DEF ForkInv, ForkTypes, CheckpointsStay

LEMMA SameEvents ==
  ASSUME EventInv, UNCHANGED events, ForksGoOn PROVE EventInv'
<1> SUFFICES ASSUME NEW i \in DOMAIN events
             PROVE  Known(i)'
  BY DEF EventInv
<1>1. BranchReceipts(events, events[i].id)' = BranchReceipts(events, events[i].id)
  BY DEF BranchReceipts, Events
<1> QED
  BY <1>1 DEF EventInv, Known, ForksGoOn

\* What is recorded is no request, and of a branch that is known.
LEMMA EvidenceRecorded ==
  ASSUME LogTypes, EventInv, ForksGoOn, NEW e, Record(e), e.type # "diagnostic",
         e.type = "receipt" => e.branch = Root \/ e.branch \in DOMAIN forks
  PROVE  EventInv'
<1> DEFINE n == Len(events')
<1>1. /\ LogGrows /\ events'[n] = e /\ n = Len(events) + 1 /\ DOMAIN events = 1..Len(events)
      /\ DOMAIN events' = 1..n /\ \A i \in DOMAIN events' : i \in DOMAIN events \/ i = n
  BY RecordGrows
<1>2. Len(events) \in Nat
  BY <1>1 DEF LogGrows
<1>3. ASSUME NEW i \in DOMAIN events'
      PROVE  Known(i)'
  <2>1. CASE i \in DOMAIN events
    <3>1. events'[i] = events[i]
      BY <1>1, <2>1 DEF LogGrows
    <3>2. events[i].type = "diagnostic" => \A j \in BranchReceipts(events', events[i].id) : i < j
      <4> HAVE events[i].type = "diagnostic"
      <4> TAKE j \in BranchReceipts(events', events[i].id)
      <4>1. CASE j = n
        BY <1>1, <1>2, <2>1, <4>1
      <4>2. CASE j # n
        <5>1. j \in DOMAIN events /\ events'[j] = events[j]
          BY <1>1, <4>2 DEF BranchReceipts, Events, LogGrows
        <5>2. j \in BranchReceipts(events, events[i].id)
          BY <5>1 DEF BranchReceipts, Events
        <5> QED
          BY <2>1, <5>2 DEF EventInv, Known
      <4> QED
        BY <4>1, <4>2
    <3> QED
      BY <2>1, <3>1, <3>2 DEF EventInv, Known, ForksGoOn
  <2>2. CASE i = n
    BY <1>1, <2>2 DEF Known, ForksGoOn
  <2> QED
    BY <1>1, <1>3, <2>1, <2>2
<1> QED
  BY <1>3 DEF EventInv

Parts ==
  /\ LogTypes /\ CheckpointTypes /\ ForkTypes /\ ClientTypes /\ ViewTypes /\ CountTypes
  /\ EventInv /\ ForkInv /\ AskInv /\ ShownInv
LEMMA InParts == (InsightIInv <=> Parts) /\ (InsightIInv' <=> Parts')
BY DEF InsightIInv, Parts, InsightTypeOK, LogTypes, CheckpointTypes, ForkTypes, ClientTypes,
       ViewTypes, CountTypes

LEMMA ObserveStep == InsightIInv /\ Observe => InsightIInv' /\ Steady
<1> SUFFICES ASSUME Parts, Observe PROVE Parts' /\ Steady
  BY InParts
<1>1. LogTypes /\ CheckpointTypes /\ ForkTypes /\ ClientTypes /\ ViewTypes /\ CountTypes
      /\ EventInv /\ ForkInv /\ AskInv /\ ShownInv
  BY DEF Parts
<1>2. UNCHANGED <<checkpoints, forks, source, cache, client, view, edits>> /\ observed' \in 0..MaxObserved
  BY <1>1, InsightAssumption DEF Observe, CountTypes
<1>3. PICK e : Record(e) /\ e.type # "diagnostic" /\ e.branch = Root
  BY InsightAssumption DEF Observe, OfRoot, Event
<1>4. LogTypes' /\ LogGrows
  BY <1>1, <1>3, RecordGrows
<1>5. CheckpointTypes' /\ CheckpointsStay
  BY <1>1, <1>2, SameCheckpoints
<1>6. ForkTypes' /\ ForksGoOn /\ ForkInv'
  BY <1>1, <1>2, <1>5, SameForks, SameReadings
<1>7. ClientTypes' /\ ViewTypes' /\ AskInv'
  BY <1>1, <1>2, <1>4, <1>5, SameClients, SameViews, SameRequests
<1>8. ShownInv'
  BY <1>1, <1>2, <1>4, <1>5, <1>6, SameReports DEF Steady
<1>9. EventInv'
  BY <1>1, <1>3, <1>6, EvidenceRecorded
<1>10. CountTypes'
  BY <1>1, <1>2 DEF CountTypes
<1> QED
  BY <1>4, <1>5, <1>6, <1>7, <1>8, <1>9, <1>10 DEF Parts, Steady

LEMMA EditStep == InsightIInv /\ (Edit \/ UNCHANGED insightVars) => InsightIInv' /\ Steady
<1> SUFFICES ASSUME Parts, Edit \/ UNCHANGED insightVars PROVE Parts' /\ Steady
  BY InParts
<1>1. LogTypes /\ CheckpointTypes /\ ForkTypes /\ ClientTypes /\ ViewTypes /\ CountTypes
      /\ EventInv /\ ForkInv /\ AskInv /\ ShownInv
  BY DEF Parts
<1>2. UNCHANGED <<events, checkpoints, forks, client, view, observed>>
  BY DEF Edit, insightVars
<1>4. LogTypes' /\ LogGrows
  BY <1>1, <1>2, SameLog
<1>5. CheckpointTypes' /\ CheckpointsStay
  BY <1>1, <1>2, SameCheckpoints
<1>6. ForkTypes' /\ ForksGoOn /\ ForkInv'
  BY <1>1, <1>2, <1>5, SameForks, SameReadings
<1>7. ClientTypes' /\ ViewTypes' /\ AskInv'
  BY <1>1, <1>2, <1>4, <1>5, SameClients, SameViews, SameRequests
<1>8. ShownInv'
  BY <1>1, <1>2, <1>4, <1>5, <1>6, SameReports DEF Steady
<1>9. EventInv'
  BY <1>1, <1>2, <1>6, SameEvents
<1>10. CountTypes'
  <2>1. CASE Edit
    BY <1>1, <1>2, <2>1, InsightAssumption DEF CountTypes, Contents, Edit
  <2>2. CASE UNCHANGED insightVars
    BY <1>1, <2>2 DEF CountTypes, insightVars
  <2> QED
    BY <2>1, <2>2
<1> QED
  BY <1>4, <1>5, <1>6, <1>7, <1>8, <1>9, <1>10 DEF Parts, Steady

LEMMA CaptureStep == InsightIInv /\ Capture => InsightIInv' /\ Steady
<1> SUFFICES ASSUME Parts, Capture PROVE Parts' /\ Steady
  BY InParts
<1>1. LogTypes /\ CheckpointTypes /\ ForkTypes /\ ClientTypes /\ ViewTypes /\ CountTypes
      /\ EventInv /\ ForkInv /\ AskInv /\ ShownInv
  BY DEF Parts
<1>2. UNCHANGED <<events, forks, source, cache, client, view, observed, edits>>
  BY DEF Capture
<1>4. LogTypes' /\ LogGrows
  BY <1>1, <1>2, SameLog
<1>5. CheckpointTypes' /\ CheckpointsStay
  <2>1. /\ checkpoints \in Seq(Contents) /\ Len(checkpoints) < MaxCheckpoints /\ source \in Contents
        /\ checkpoints' = Append(checkpoints, source) /\ MaxCheckpoints \in Nat
    BY <1>1, InsightAssumption DEF Capture, CheckpointTypes, CountTypes
  <2> QED
    BY <2>1 DEF CheckpointTypes, CheckpointsStay
<1>6. ForkTypes' /\ ForksGoOn /\ ForkInv'
  BY <1>1, <1>2, <1>5, SameForks, SameReadings
<1>7. ClientTypes' /\ ViewTypes' /\ AskInv'
  BY <1>1, <1>2, <1>4, <1>5, SameClients, SameViews, SameRequests
<1>8. ShownInv'
  BY <1>1, <1>2, <1>4, <1>5, <1>6, SameReports DEF Steady
<1>9. EventInv'
  BY <1>1, <1>2, <1>6, SameEvents
<1>10. CountTypes'
  BY <1>1, <1>2 DEF CountTypes
<1> QED
  BY <1>4, <1>5, <1>6, <1>7, <1>8, <1>9, <1>10 DEF Parts, Steady

\* One client alone goes on, with a request only if it is one that can be made.
LEMMA ClientAlone ==
  ASSUME Parts, UNCHANGED <<events, checkpoints, forks, source, cache, observed, edits>>,
         NEW c \in Clients, NEW s \in {"idle", "events", "checkpoint", "accepted"},
         NEW t \in 0..Len(events), NEW n \in 0..Len(checkpoints), NEW w,
         GoOn(c, s, t, n, w),
         s = "accepted" =>
           /\ n # 0 /\ w.kind \in Kinds /\ w.before \in Digests /\ w.after \in Digests
           /\ w.candidate[1] = "stale-context" => w.kind = "context"
  PROVE  /\ LogTypes' /\ CheckpointTypes' /\ ForkTypes' /\ ClientTypes' /\ CountTypes'
         /\ EventInv' /\ ForkInv' /\ AskInv' /\ Steady
         /\ UNCHANGED view => Parts'
<1>1. LogTypes /\ CheckpointTypes /\ ForkTypes /\ ClientTypes /\ ViewTypes /\ CountTypes
      /\ EventInv /\ ForkInv /\ AskInv /\ ShownInv
  BY DEF Parts
<1>4. LogTypes' /\ LogGrows
  BY <1>1, SameLog
<1>5. CheckpointTypes' /\ CheckpointsStay /\ Len(checkpoints') = Len(checkpoints)
  BY <1>1, SameCheckpoints
<1>6. ForkTypes' /\ ForksGoOn /\ ForkInv'
  BY <1>1, <1>5, SameForks, SameReadings
<1>7. /\ ClientTypes'
      /\ client'[c].step = s /\ client'[c].through = t /\ client'[c].checkpoint = n
      /\ client'[c].wish = w
      /\ \A x \in Clients : x # c => client'[x] = client[x]
  <2>1. t \in 0..Len(events') /\ n \in 0..Len(checkpoints')
    OBVIOUS
  <2> QED
    BY <1>1, <1>4, <1>5, <2>1, ClientGoesOn
<1>8. AskInv'
  <2>1. n # 0 => n \in DOMAIN checkpoints
    BY <1>1 DEF CheckpointTypes
  <2>2. ASSUME NEW a \in Clients, client'[a].step = "accepted"
        PROVE  /\ client'[a].checkpoint \in DOMAIN checkpoints
               /\ client'[a].wish.kind \in Kinds
               /\ client'[a].wish.before \in Digests /\ client'[a].wish.after \in Digests
               /\ client'[a].wish.candidate[1] = "stale-context" => client'[a].wish.kind = "context"
    <3>1. CASE a = c
      BY <1>7, <2>1, <2>2, <3>1
    <3>2. CASE a # c
      BY <1>1, <1>7, <2>2, <3>2 DEF AskInv
    <3> QED
      BY <3>1, <3>2
  <2> QED
    BY <2>2 DEF AskInv
<1>9. EventInv'
  BY <1>1, <1>6, SameEvents
<1>10. CountTypes'
  BY <1>1 DEF CountTypes
<1>11. ASSUME UNCHANGED view PROVE ViewTypes' /\ ShownInv'
  BY <1>1, <1>4, <1>5, <1>6, <1>11, SameViews, SameReports DEF Steady
<1> QED
  BY <1>4, <1>5, <1>6, <1>7, <1>8, <1>9, <1>10, <1>11 DEF Parts, Steady

LEMMA ReadStep ==
  ASSUME InsightIInv, NEW c \in Clients, ReadEvents(c) \/ (c \in Readers /\ ReadCheckpoint(c))
  PROVE  InsightIInv' /\ Steady
<1>1. Parts
  BY InParts
<1>2. /\ UNCHANGED <<events, checkpoints, forks, source, cache, view, observed, edits>>
      /\ Len(events) \in 0..Len(events) /\ NewestCheckpoint \in 0..Len(checkpoints)
      /\ client[c].through \in 0..Len(events)
  BY <1>1 DEF ReadEvents, ReadCheckpoint, Parts, LogTypes, CheckpointTypes, ClientTypes, NewestCheckpoint
<1>3. PICK s \in {"events", "checkpoint"}, t \in 0..Len(events) : GoOn(c, s, t, NewestCheckpoint, {})
  BY <1>2 DEF ReadEvents, ReadCheckpoint
<1> QED
  BY <1>1, <1>2, <1>3, ClientAlone, InParts

\* What an asker takes to the lease is for a checkpoint that exists, and fits.
LEMMA AskStep == ASSUME InsightIInv, NEW a \in Askers, Ask(a) PROVE InsightIInv' /\ Steady
<1>1. Parts /\ a \in Clients
  BY InParts DEF Clients
<1> DEFINE rec == client[a]
           c == rec.checkpoint
           in == Projection(Prefix(a), c)
<1>3. /\ rec.through \in 0..Len(events) /\ c \in 0..Len(checkpoints)
      /\ UNCHANGED <<events, checkpoints, forks, source, cache, view, observed, edits>>
      /\ Len(events) \in Nat /\ Len(checkpoints) \in Nat
  BY <1>1 DEF Parts, ClientTypes, LogTypes, CheckpointTypes, Ask
<1>4. CASE client' = [client EXCEPT ![a] = Idle]
  <2>1. 0 \in 0..Len(events) /\ 0 \in 0..Len(checkpoints)
    BY <1>3
  <2>2. GoOn(a, "idle", 0, 0, {})
    BY <1>4 DEF GoOn, Idle
  <2> HIDE DEF rec
  <2> QED
    BY <1>1, <1>3, <2>1, <2>2, ClientAlone, InParts
<1>5. CASE \E candidate \in Candidates(in) : \E w \in Wishes(candidate.id) :
             /\ Ready(candidate, in) /\ MatchesContext(c, w)
             /\ GoOn(a, "accepted", rec.through, c, w)
  <2>0. PICK candidate \in Candidates(in) : \E w \in Wishes(candidate.id) :
             /\ Ready(candidate, in) /\ MatchesContext(c, w)
             /\ GoOn(a, "accepted", rec.through, c, w)
    BY <1>5
  <2>1. PICK w \in Wishes(candidate.id) :
             /\ Ready(candidate, in) /\ MatchesContext(c, w)
             /\ GoOn(a, "accepted", rec.through, c, w)
    BY <2>0
  <2>3. c # 0
    BY <2>1 DEF Ready, Projection
  <2>4. PICK k \in Kinds :
          w = Wish(candidate.id, k,
                   IF k = "context" THEN Reading("cached", source).bound ELSE NoDigest,
                   IF k = "context" THEN Reading("refreshed", source).current ELSE NoDigest)
    BY <2>1 DEF Wishes
  <2>5. cache \in Digests /\ source \in Digests /\ NoDigest \in Digests
    BY <1>1 DEF Parts, CountTypes, Digests
  <2>6. w.kind \in Kinds /\ w.before \in Digests /\ w.after \in Digests
    BY <2>4, <2>5 DEF Wish, Reading
  <2>7. w.candidate[1] = "stale-context" => w.kind = "context"
    BY <2>1 DEF MatchesContext
  <2> HIDE DEF rec, in
  <2> QED
    BY <1>1, <1>3, <2>1, <2>3, <2>6, <2>7, ClientAlone, InParts
<1> QED
  BY <1>4, <1>5 DEF Ask

\* The request is appended with its fork: no receipt of that branch is in the log yet.
LEMMA RequestStep == ASSUME InsightIInv, NEW a \in Askers, Request(a) PROVE InsightIInv' /\ Steady
<1> DEFINE k == Len(forks) + 1
           w == client[a].wish
           c == client[a].checkpoint
           value == [checkpoint |-> c, candidate |-> w.candidate, variable |-> Variable(w.candidate)]
           e == Event("diagnostic", Root, k, value)
           fork == [phase |-> "requested", checkpoint |-> c, kind |-> w.kind,
                    before |-> w.before, after |-> w.after, read |-> NoDigest]
           n == Len(events')
<1>1. /\ LogTypes /\ CheckpointTypes /\ ForkTypes /\ ClientTypes /\ ViewTypes /\ CountTypes
      /\ EventInv /\ ForkInv /\ AskInv /\ ShownInv /\ a \in Clients
  BY InParts DEF Parts, Clients
<1>2. /\ Record(e) /\ forks' = Append(forks, fork) /\ client' = [client EXCEPT ![a] = Idle]
      /\ client[a].step = "accepted" /\ UNCHANGED <<checkpoints, source, cache, view, observed, edits>>
  BY DEF Request
<1>3. /\ LogTypes' /\ LogGrows /\ DOMAIN events' = 1..n /\ DOMAIN events = 1..Len(events)
      /\ events'[n] = e /\ n = Len(events) + 1
      /\ \A i \in DOMAIN events' : i \in DOMAIN events \/ i = n
  <2> HIDE DEF e
  <2> QED
    BY <1>1, <1>2, RecordGrows
<1>4. CheckpointTypes' /\ CheckpointsStay
  BY <1>1, <1>2, SameCheckpoints
<1>5. /\ c \in DOMAIN checkpoints /\ c \in Nat /\ w.kind \in Kinds
      /\ w.before \in Digests /\ w.after \in Digests
      /\ w.candidate[1] = "stale-context" => w.kind = "context"
  BY <1>1, <1>2 DEF AskInv, CheckpointTypes
<1>6. /\ fork \in Fork /\ fork.checkpoint = c /\ fork.kind = w.kind /\ fork.phase = "requested"
  BY <1>5 DEF Fork, Digests
<1> HIDE DEF fork
<1>7. /\ Len(forks) \in Nat /\ k \notin DOMAIN forks /\ DOMAIN forks \subseteq Nat
      /\ forks' \in Seq(Fork) /\ DOMAIN forks' = DOMAIN forks \cup {k}
      /\ \A x \in DOMAIN forks : forks'[x] = forks[x]
      /\ forks'[k] = fork
  BY <1>1, <1>2, <1>6 DEF ForkTypes
<1> HIDE DEF k
<1>8. ForkTypes' /\ ForksGoOn
  BY <1>1, <1>4, <1>5, <1>6, <1>7 DEF ForkTypes, ForksGoOn, CheckpointsStay
<1>9. ForkInv'
  BY <1>1, <1>2, <1>6, <1>7 DEF ForkInv, Finished
<1>10. /\ ClientTypes' /\ client'[a].step = "idle"
       /\ \A x \in Clients : x # a => client'[x] = client[x]
  <2>1. 0 \in 0..Len(events') /\ 0 \in 0..Len(checkpoints')
    BY <1>3, <1>4 DEF LogGrows, CheckpointsStay
  <2>2. GoOn(a, "idle", 0, 0, {})
    BY <1>2 DEF GoOn, Idle
  <2> QED
    BY <1>1, <1>3, <1>4, <2>1, <2>2, ClientGoesOn
<1>11. AskInv'
  BY <1>1, <1>2, <1>10 DEF AskInv
<1>12. ViewTypes' /\ CountTypes'
  BY <1>1, <1>2, <1>4, SameViews DEF CountTypes
<1>13. ShownInv'
  BY <1>1, <1>2, <1>3, <1>4, <1>8, SameReports DEF Steady
<1>14. /\ e.type = "diagnostic" /\ e.id = k /\ e.value.checkpoint = c
       /\ e.value.candidate = w.candidate
  BY DEF Event
<1> HIDE DEF e, w, c
<1>15. \A i \in DOMAIN events : events'[i] = events[i] /\ i < n
  BY <1>3 DEF LogGrows
<1>16. ASSUME NEW i \in DOMAIN events'
       PROVE  Known(i)'
  <2>1. CASE i \in DOMAIN events
    <3>1. events[i].type = "diagnostic" => \A j \in BranchReceipts(events', events[i].id) : i < j
      <4> HAVE events[i].type = "diagnostic"
      <4> TAKE j \in BranchReceipts(events', events[i].id)
      <4>1. CASE j = n
        BY <1>15, <2>1, <4>1
      <4>2. CASE j # n
        <5>1. j \in DOMAIN events /\ events'[j] = events[j]
          BY <1>3, <1>15, <4>2 DEF BranchReceipts, Events
        <5>2. j \in BranchReceipts(events, events[i].id)
          BY <5>1 DEF BranchReceipts, Events
        <5> QED
          BY <2>1, <5>2, <1>1 DEF EventInv, Known
      <4> QED
        BY <4>1, <4>2
    <3> QED
      BY <1>1, <1>8, <1>15, <2>1, <3>1 DEF EventInv, Known, ForksGoOn
  <2>2. CASE i = n
    <3>1. BranchReceipts(events', k) = {}
      <4> SUFFICES ASSUME NEW j \in BranchReceipts(events', k) PROVE FALSE
        OBVIOUS
      <4>1. j \in DOMAIN events' /\ events'[j].type = "receipt" /\ events'[j].branch = k
        BY DEF BranchReceipts, Events
      <4>2. j \in DOMAIN events /\ events[j].type = "receipt" /\ events[j].branch = k
        BY <1>3, <1>14, <1>15, <4>1
      <4>3. k = Root \/ k \in DOMAIN forks
        BY <1>1, <4>2 DEF EventInv, Known
      <4> QED
        BY <1>7, <4>3, InsightAssumption DEF k
    <3>2. events'[i].type = "diagnostic" /\ events'[i].id = k /\ k \in DOMAIN forks'
      BY <1>3, <1>7, <1>14, <2>2
    <3>3. events'[i].value.checkpoint = forks'[k].checkpoint
      BY <1>3, <1>6, <1>7, <1>14, <2>2 DEF c
    <3>4. events'[i].value.candidate[1] = "stale-context" => forks'[k].kind = "context"
      BY <1>3, <1>5, <1>6, <1>7, <1>14, <2>2
    <3> QED
      BY <3>1, <3>2, <3>3, <3>4 DEF Known
  <2> QED
    BY <1>3, <1>16, <2>1, <2>2
<1>17. EventInv'
  BY <1>16 DEF EventInv
<1> QED
  BY <1>3, <1>4, <1>8, <1>9, <1>10, <1>11, <1>12, <1>13, <1>17, InParts DEF Parts, Steady

\* A fork that finishes has read the Context of its checkpoint, and its receipt comes last.
LEMMA AdvanceStep == ASSUME InsightIInv, NEW k \in DOMAIN forks, Advance(k) PROVE InsightIInv' /\ Steady
<1> DEFINE f == forks[k]
           context == Reading("refreshed", checkpoints[f.checkpoint])
<1>1. /\ LogTypes /\ CheckpointTypes /\ ForkTypes /\ ClientTypes /\ ViewTypes /\ CountTypes
      /\ EventInv /\ ForkInv /\ AskInv /\ ShownInv
  BY InParts DEF Parts
<1>2. UNCHANGED <<checkpoints, source, cache, client, view, observed, edits>>
  BY DEF Advance
<1>3. f \in Fork /\ checkpoints[f.checkpoint] \in Digests /\ f.checkpoint \in DOMAIN checkpoints
  BY <1>1 DEF ForkTypes, CheckpointTypes, Digests
<1>4. context.bound = checkpoints[f.checkpoint]
  BY DEF Reading
<1>5. \E p \in {"planned", "finished", "receipted"}, d \in Digests :
        /\ forks' = [forks EXCEPT ![k] = [f EXCEPT !.phase = p, !.read = d]]
        /\ f.phase \in Finished => p \in Finished /\ d = f.read
        /\ f.kind = "context" /\ p \in Finished =>
             d = checkpoints[f.checkpoint]
        /\ UNCHANGED events \/ Record(Event("receipt", k, k, "verified"))
  <2>1. CASE /\ f.phase = "requested"
             /\ forks' = [forks EXCEPT ![k] = [f EXCEPT !.phase = "planned", !.read = f.read]]
             /\ UNCHANGED events
    <3>1. f.read \in Digests
      BY <1>3 DEF Fork
    <3> QED
      BY <2>1, <3>1 DEF Finished
  <2>2. CASE /\ f.phase = "planned" /\ UNCHANGED events
             /\ forks' = [forks EXCEPT ![k] = [f EXCEPT !.phase = "finished",
                            !.read = IF f.kind = "context" THEN context.bound ELSE f.read]]
    <3> DEFINE d == IF f.kind = "context" THEN context.bound ELSE f.read
    <3>1. d \in Digests /\ (f.kind = "context" => d = checkpoints[f.checkpoint])
      BY <1>3, <1>4 DEF Fork
    <3>2. forks' = [forks EXCEPT ![k] = [f EXCEPT !.phase = "finished", !.read = d]]
      BY <2>2
    <3> HIDE DEF d
    <3> QED
      BY <2>2, <3>1, <3>2 DEF Finished
  <2>3. CASE /\ f.phase = "finished"
             /\ forks' = [forks EXCEPT ![k] = [f EXCEPT !.phase = "receipted", !.read = f.read]]
             /\ Record(Event("receipt", k, k, "verified"))
    <3>1. f.read \in Digests
      BY <1>3 DEF Fork
    <3>2. f.kind = "context" => f.read = checkpoints[f.checkpoint]
      BY <1>1, <2>3 DEF ForkInv, Finished
    <3> QED
      BY <2>3, <3>1, <3>2 DEF Finished
  <2> QED
    BY <2>1, <2>2, <2>3 DEF Advance
<1>6. PICK p \in {"planned", "finished", "receipted"}, d \in Digests :
        /\ forks' = [forks EXCEPT ![k] = [f EXCEPT !.phase = p, !.read = d]]
        /\ f.phase \in Finished => p \in Finished /\ d = f.read
        /\ f.kind = "context" /\ p \in Finished =>
             d = checkpoints[f.checkpoint]
        /\ UNCHANGED events \/ Record(Event("receipt", k, k, "verified"))
  BY <1>5
<1> DEFINE g == [f EXCEPT !.phase = p, !.read = d]
<1>7. /\ g \in Fork /\ g.phase = p /\ g.read = d /\ g.kind = f.kind /\ g.checkpoint = f.checkpoint
      /\ g.before = f.before /\ g.after = f.after
  BY <1>3 DEF Fork
<1>8. forks' = [forks EXCEPT ![k] = g]
  BY <1>6
<1> HIDE DEF g
<1>9. /\ forks' \in Seq(Fork) /\ DOMAIN forks' = DOMAIN forks /\ forks'[k] = g
      /\ \A x \in DOMAIN forks : x # k => forks'[x] = forks[x]
  BY <1>1, <1>7, <1>8 DEF ForkTypes
<1>10. CheckpointTypes' /\ CheckpointsStay
  BY <1>1, <1>2, SameCheckpoints
<1>11. ForkTypes' /\ ForksGoOn
  <2>1. ForkTypes'
    BY <1>1, <1>2, <1>3, <1>7, <1>9 DEF ForkTypes
  <2> QED
    BY <2>1, <1>6, <1>7, <1>9 DEF ForksGoOn
<1>12. ForkInv'
  <2> SUFFICES ASSUME NEW x \in DOMAIN forks', forks'[x].phase \in Finished, forks'[x].kind = "context"
               PROVE  forks'[x].read = checkpoints'[forks'[x].checkpoint]
    BY DEF ForkInv
  <2>1. CASE x = k
    BY <1>2, <1>6, <1>7, <1>9, <2>1
  <2>2. CASE x # k
    BY <1>1, <1>2, <1>9, <2>2 DEF ForkInv
  <2> QED
    BY <2>1, <2>2
<1>13. LogTypes' /\ LogGrows /\ EventInv'
  <2>1. CASE UNCHANGED events
    BY <1>1, <1>11, <2>1, SameLog, SameEvents
  <2>2. CASE Record(Event("receipt", k, k, "verified"))
    <3> DEFINE e == Event("receipt", k, k, "verified")
    <3>1. Record(e) /\ e.type = "receipt" /\ e.branch = k
      BY <2>2 DEF Event
    <3> HIDE DEF e
    <3> QED
      BY <1>1, <1>11, <3>1, RecordGrows, EvidenceRecorded
  <2> QED
    BY <1>6, <2>1, <2>2
<1>14. ClientTypes' /\ ViewTypes' /\ AskInv'
  BY <1>1, <1>2, <1>10, <1>13, SameClients, SameViews, SameRequests
<1>15. ShownInv'
  BY <1>1, <1>2, <1>10, <1>11, <1>13, SameReports DEF Steady
<1>16. CountTypes'
  BY <1>1, <1>2 DEF CountTypes
<1> QED
  BY <1>10, <1>11, <1>12, <1>13, <1>14, <1>15, <1>16, InParts DEF Parts, Steady

\* What a reader is shown as confirmed has a fork that finished behind it.
LEMMA ShownIsEarned ==
  ASSUME InsightIInv, NEW t \in 0..Len(events), NEW c \in 0..Len(checkpoints),
         NEW h, h = SubSeq(events, 1, t),
         NEW candidate \in Candidates(Projection(h, c)), candidate.status = "confirmed"
  PROVE  Earned(candidate, c)
<1> DEFINE in == Projection(h, c)
<1>1. LogTypes /\ EventInv
  BY InParts DEF Parts
<1>2. /\ h \in Seq(Range(events)) /\ DOMAIN h = 1..t /\ DOMAIN h \subseteq DOMAIN events /\ t \in Nat
      /\ \A i \in DOMAIN h : h[i] = events[i]
  BY <1>1 DEF LogTypes
<1>3. Evidence(in)
  BY <1>2, ProjectionIsEvidence
<1>4. /\ in.checkpoint.complete
      /\ \E o \in in.outcomes : /\ o.candidate = candidate.id /\ o.checkpoint = in.checkpoint.id
                                /\ o.result = "mechanism-confirmed"
  <2> HIDE DEF in
  <2>1. candidate \in Candidates(in)
    BY DEF in
  <2> QED
    BY <1>3, <2>1, CandidateOf
<1>5. PICK o \in Outcomes(h, c) : o.candidate = candidate.id /\ o.result = "mechanism-confirmed"
  BY <1>4 DEF Projection
<1>6. PICK i \in Diagnosed(h, c) : o.candidate = h[i].value.candidate /\ o.result = Outcome(h, h[i].id)
  <2> DEFINE of(i) ==
        [id |-> <<"outcome", i>>,
         refs |-> {<<"checkpoint", c>>, <<"fork", h[i].id>>} \cup {At(j) : j \in BranchReceipts(h, h[i].id)},
         candidate |-> h[i].value.candidate, variable |-> h[i].value.variable, checkpoint |-> c,
         deterministic |-> TRUE, result |-> Outcome(h, h[i].id)]
  <2>1. \A i : of(i).candidate = h[i].value.candidate /\ of(i).result = Outcome(h, h[i].id)
    OBVIOUS
  <2>2. Outcomes(h, c) = {of(i) : i \in Diagnosed(h, c)}
    BY DEF Outcomes
  <2> HIDE DEF of
  <2>3. PICK i \in Diagnosed(h, c) : o = of(i)
    BY <1>5, <2>2
  <2> QED
    BY <2>1, <2>3
<1> DEFINE k == h[i].id
<1>7. /\ i \in DOMAIN h /\ h[i].type = "diagnostic" /\ h[i].value.checkpoint = c
  BY <1>6 DEF Diagnosed, Events
<1>8. /\ i \in Events(events, "diagnostic") /\ events[i] = h[i] /\ k \in DOMAIN forks
  BY <1>1, <1>2, <1>7 DEF Events, EventInv, Known
<1>9. /\ forks[k].phase \in Finished /\ ContextWasRead(forks[k]) /\ ReceiptOutcome(h, k) = "verified"
  BY <1>5, <1>6 DEF Outcome, Finished
<1>10. \E j \in BranchReceipts(events, k) : events[j].value = "verified"
  <2> DEFINE S == BranchReceipts(h, k)
  <2>1. S # {} /\ h[FirstOf(S)].value = "verified"
    BY <1>9 DEF ReceiptOutcome
  <2>2. S \in SUBSET Nat
    BY <1>2 DEF BranchReceipts, Events
  <2>3. FirstOf(S) \in S
    <3> HIDE DEF S
    <3> QED
      BY <2>1, <2>2, LeastMember DEF FirstOf
  <2>4. S \subseteq BranchReceipts(events, k)
    BY <1>2 DEF BranchReceipts, Events
  <2>5. FirstOf(S) \in DOMAIN h
    BY <2>3 DEF BranchReceipts, Events
  <2> HIDE DEF S
  <2> QED
    BY <1>2, <2>1, <2>3, <2>4, <2>5
<1> QED
  BY <1>5, <1>6, <1>7, <1>8, <1>9, <1>10 DEF Earned

\* The reader's three reads fall apart, but the log and what is done of a fork only grow.
LEMMA ShowStep == ASSUME InsightIInv, NEW r \in Readers, Show(r) PROVE InsightIInv' /\ Steady
<1> DEFINE t == client[r].through
           c == client[r].checkpoint
           h == Prefix(r)
           report == Candidates(Projection(h, c))
<1>1. /\ Parts /\ r \in Clients
      /\ LogTypes /\ CheckpointTypes /\ ForkTypes /\ ClientTypes /\ ViewTypes /\ CountTypes
      /\ EventInv /\ ForkInv /\ AskInv /\ ShownInv
  BY InParts DEF Parts, Clients
<1>2. /\ client' = [client EXCEPT ![r] = Idle]
      /\ UNCHANGED <<events, checkpoints, forks, source, cache, observed, edits>>
      /\ view' = [view EXCEPT ![r] =
           IF Throws(h, c) THEN [view[r] EXCEPT !.failed = TRUE]
           ELSE [checkpoint |-> c, report |-> report, failed |-> FALSE]]
  BY DEF Show
<1>3. /\ t \in 0..Len(events) /\ c \in 0..Len(checkpoints)
      /\ 0 \in 0..Len(events) /\ 0 \in 0..Len(checkpoints)
  BY <1>1 DEF ClientTypes, LogTypes, CheckpointTypes
<1>4. /\ LogTypes' /\ CheckpointTypes' /\ ForkTypes' /\ ClientTypes' /\ CountTypes'
      /\ EventInv' /\ ForkInv' /\ AskInv' /\ Steady
  <2>1. GoOn(r, "idle", 0, 0, {})
    BY <1>2 DEF GoOn, Idle
  <2> QED
    BY <1>1, <1>2, <1>3, <2>1, ClientAlone
<1> DEFINE new == IF Throws(h, c) THEN [checkpoint |-> view[r].checkpoint, report |-> Shown(r), failed |-> TRUE]
                  ELSE [checkpoint |-> c, report |-> report, failed |-> FALSE]
<1>5. view' = [view EXCEPT ![r] = new]
  <2>1. view[r] = [checkpoint |-> view[r].checkpoint, report |-> Shown(r), failed |-> view[r].failed]
    BY <1>1 DEF ViewTypes
  <2>2. [view[r] EXCEPT !.failed = TRUE] =
          [checkpoint |-> view[r].checkpoint, report |-> Shown(r), failed |-> TRUE]
    <3> DEFINE n == view[r].checkpoint  b == view[r].failed  s == Shown(r)  v == view[r]
    <3>1. v = [checkpoint |-> n, report |-> s, failed |-> b]
      BY <2>1
    <3> HIDE DEF n, b, s, v
    <3>2. \A z : [v EXCEPT !.failed = z] = [checkpoint |-> n, report |-> s, failed |-> z]
      BY <3>1
    <3> QED
      BY <3>2 DEF n, s, v
  <2> HIDE DEF report, c, h
  <2> QED
    BY <1>2, <2>2
<1>6. /\ new = [checkpoint |-> new.checkpoint, report |-> new.report, failed |-> new.failed]
      /\ new.checkpoint \in 0..Len(checkpoints) /\ new.failed \in BOOLEAN
  <2> HIDE DEF report
  <2>1. CASE Throws(h, c)
    BY <1>1, <2>1 DEF ViewTypes
  <2>2. CASE ~Throws(h, c)
    BY <1>3, <2>2
  <2> QED
    BY <2>1, <2>2
<1>7. \/ new.checkpoint = view[r].checkpoint /\ new.report = Shown(r)
      \/ new.checkpoint = c /\ new.report = report
  <2> HIDE DEF report, h, c
  <2> QED
    OBVIOUS
<1> HIDE DEF new
<1>8. /\ view' = [x \in Readers |-> view'[x]] /\ view'[r] = new
      /\ \A x \in Readers : x # r => view'[x] = view[x]
  BY <1>1, <1>5 DEF ViewTypes
<1>9. ViewTypes'
  <2>1. \A x \in Readers :
          /\ view'[x] = [checkpoint |-> view'[x].checkpoint, report |-> view'[x].report, failed |-> view'[x].failed]
          /\ view'[x].checkpoint \in 0..Len(checkpoints) /\ view'[x].failed \in BOOLEAN
    <3> TAKE x \in Readers
    <3>1. CASE x = r
      BY <1>6, <1>8, <3>1
    <3>2. CASE x # r
      BY <1>1, <1>8, <3>2 DEF ViewTypes, Shown
    <3> QED
      BY <3>1, <3>2
  <2>2. view' = [x \in Readers |->
          [checkpoint |-> view'[x].checkpoint, report |-> view'[x].report, failed |-> view'[x].failed]]
    BY <1>8, <2>1
  <2> QED
    BY <1>2, <2>1, <2>2 DEF ViewTypes, Shown
<1>10. ShownInv'
  <2> SUFFICES ASSUME NEW x \in Readers, NEW m \in Shown(x)', m.status = "confirmed"
               PROVE  /\ Earned(m, view[x].checkpoint)'
                      /\ \A d \in Shown(x)' : d.status # "confirmed" => Above(m, d)
    BY DEF ShownInv
  <2>1. CASE x # r \/ (new.checkpoint = view[r].checkpoint /\ new.report = Shown(r))
    <3>1. view'[x].report = view[x].report /\ view'[x].checkpoint = view[x].checkpoint
      BY <1>8, <2>1 DEF Shown
    <3> QED
      BY <1>1, <1>4, <3>1, ReaderKeeps
  <2>2. CASE x = r /\ new.checkpoint = c /\ new.report = report
    <3>1. Shown(x)' = report /\ view'[x].checkpoint = c /\ h = SubSeq(events, 1, t)
      BY <1>8, <2>2 DEF Shown, Prefix
    <3>2. Evidence(Projection(h, c))
      <4>1. h \in Seq(Range(events))
        BY <1>1, <1>3, <3>1 DEF LogTypes
      <4> QED
        BY <4>1, ProjectionIsEvidence
    <3>3. Earned(m, c)
      <4> HIDE DEF h, c, t
      <4> QED
        BY <1>3, <3>1, ShownIsEarned
    <3>4. Earned(m, view[x].checkpoint)'
      BY <1>2, <3>1, <3>3 DEF Earned
    <3>5. \A d \in report : d.status # "confirmed" => Above(m, d)
      <4> HIDE DEF h, c
      <4> QED
        BY <3>1, <3>2, ConfirmedAbove
    <3> QED
      BY <3>1, <3>4, <3>5
  <2> QED
    BY <1>7, <2>1, <2>2
<1> QED
  BY <1>4, <1>9, <1>10, InParts DEF Parts

LEMMA InsightStep == InsightIInv /\ [InsightNext]_insightVars => InsightIInv' /\ Steady
BY ObserveStep, EditStep, CaptureStep, ReadStep, ShowStep, AskStep, RequestStep, AdvanceStep
   DEF InsightNext, Clients

LEMMA InsightHolds == InsightSpec => []InsightIInv
<1>1. InsightIInv /\ [InsightNext]_insightVars => InsightIInv'
  BY InsightStep
<1> QED
  BY <1>1, InitHolds, PTL DEF InsightSpec

\* failureIntelligence(), shown to any reader: a mechanism is confirmed by the receipt
\* of a fork that was requested for it before, on the checkpoint that was read, and for
\* stale Context by one that read other Context than the branch was bound to.
THEOREM ConfirmationIsEarned == InsightSpec => []ConfirmedIsEarned
<1>1. InsightIInv => ConfirmedIsEarned
  <2> SUFFICES ASSUME InsightIInv, NEW r \in Readers, NEW c \in Shown(r), c.status = "confirmed"
               PROVE  /\ \E i \in Events(events, "diagnostic") :
                           LET k == events[i].id
                           IN /\ events[i].value.candidate = c.id
                              /\ events[i].value.checkpoint = view[r].checkpoint
                              /\ \E j \in BranchReceipts(events, k) : i < j /\ events[j].value = "verified"
                              /\ c.id[1] = "stale-context" =>
                                   forks[k].read = checkpoints[view[r].checkpoint] /\ forks[k].read # forks[k].before
                      /\ \A d \in Shown(r) : d.status # "confirmed" => Above(c, d)
    BY DEF ConfirmedIsEarned
  <2>1. EventInv /\ ForkInv /\ ShownInv
    BY DEF InsightIInv
  <2>2. Earned(c, view[r].checkpoint) /\ \A d \in Shown(r) : d.status # "confirmed" => Above(c, d)
    BY <2>1 DEF ShownInv
  <2>3. PICK i \in Events(events, "diagnostic") :
          /\ events[i].value.candidate = c.id /\ events[i].value.checkpoint = view[r].checkpoint
          /\ events[i].id \in DOMAIN forks /\ forks[events[i].id].phase \in Finished
          /\ ContextWasRead(forks[events[i].id])
          /\ \E j \in BranchReceipts(events, events[i].id) : events[j].value = "verified"
    BY <2>2 DEF Earned
  <2> DEFINE k == events[i].id
  <2>4. /\ \A j \in BranchReceipts(events, k) : i < j
        /\ forks[k].checkpoint = view[r].checkpoint
        /\ c.id[1] = "stale-context" => forks[k].kind = "context"
    BY <2>1, <2>3 DEF EventInv, Known, Events
  <2>5. c.id[1] = "stale-context" =>
          forks[k].read = checkpoints[view[r].checkpoint] /\ forks[k].read # forks[k].before
    BY <2>1, <2>3, <2>4 DEF ForkInv, ContextWasRead
  <2> QED
    BY <2>2, <2>3, <2>4, <2>5
<1> QED
  BY <1>1, InsightHolds, PTL

------------------------------------------------------------------------------
(* What a longer log leaves standing                                       *)

GateTypes == {"gate.requested", "gate.decided", "gate.released", "gate.result"}

\* The order of the Tool Gateway in a log: event by event.
GateOrdered(h) ==
  \A i \in DOMAIN h :
    /\ h[i].type \in GateTypes => h[i].branch = Root
    /\ h[i].type = "gate.requested" =>
         \A j \in DOMAIN h : h[j].type = "gate.requested" /\ h[j].id = h[i].id => j = i
    /\ h[i].type \in {"gate.decided", "gate.result"} =>
         \E j \in DOMAIN h : j < i /\ h[j].type = "gate.requested" /\ h[j].id = h[i].id
    /\ h[i].type = "gate.released" =>
         \E j \in DOMAIN h : /\ j < i /\ h[j].type = "gate.decided" /\ h[j].id = h[i].id
                             /\ j = h[i].value.intent /\ h[j].value.decision = h[i].value.decision

\* g goes on where h ends.
Longer(h, g) ==
  /\ DOMAIN h \subseteq DOMAIN g /\ DOMAIN g \subseteq Nat
  /\ \A i \in DOMAIN h : g[i] = h[i] /\ \A j \in DOMAIN g \ DOMAIN h : i < j

LEMMA ScopeGrows ==
  ASSUME NEW h, NEW g, Longer(h, g), NEW type
  PROVE  Scope(h, type) \subseteq Scope(g, type) /\ \A i \in Scope(h, type) : i \in DOMAIN h /\ g[i] = h[i]
BY DEF Longer, Scope, Events

LEMMA FactsGrow ==
  ASSUME NEW h, NEW g, Longer(h, g) PROVE RuntimeFacts(h) \subseteq RuntimeFacts(g)
<1> DEFINE S(x) == {i \in Scope(x, "fact") : x[i].value = "explicit"}
<1>1. \A i \in S(h) : i \in S(g) /\ g[i] = h[i]
  BY ScopeGrows
<1>2. \A i \in S(h) : RuntimeFact(g, i) = RuntimeFact(h, i)
  BY <1>1 DEF RuntimeFact
<1>3. \A x : RuntimeFacts(x) = {RuntimeFact(x, i) : i \in S(x)}
  BY DEF RuntimeFacts
<1> HIDE DEF S
<1> QED
  BY <1>1, <1>2, <1>3

LEMMA FreshnessGrows ==
  ASSUME NEW h, NEW g, Longer(h, g) PROVE Freshness(h) \subseteq Freshness(g)
<1> DEFINE S(x) == Scope(x, "context.freshness")
           f(x, i) == [id |-> At(i), refs |-> {<<"event", i>>, <<x[i].id, 0>>}, fact |-> x[i].id,
                       bound |-> x[i].value.bound, current |-> x[i].value.current,
                       boundWorkspace |-> x[i].value.bound, currentWorkspace |-> x[i].value.current]
<1>1. \A i \in S(h) : i \in S(g) /\ g[i] = h[i]
  BY ScopeGrows
<1>2. \A i \in S(h) : f(g, i) = f(h, i)
  BY <1>1
<1>3. \A x : Freshness(x) = {f(x, i) : i \in S(x)}
  BY DEF Freshness
<1> HIDE DEF S, f
<1> QED
  BY <1>1, <1>2, <1>3

LEMMA RequestsGrow ==
  ASSUME NEW h, NEW g, Longer(h, g) PROVE Requests(h) \subseteq Requests(g)
<1> DEFINE S(x) == Scope(x, "gate.requested")
           f(x, i) == [id |-> Gate(x[i].id), refs |-> {<<"effect", x[i].id>>}, gate |-> Gate(x[i].id),
                       attempt |-> Root, tool |-> x[i].value.tool, input |-> x[i].value.input]
<1>1. \A i \in S(h) : i \in S(g) /\ g[i] = h[i]
  BY ScopeGrows
<1>2. \A i \in S(h) : f(g, i) = f(h, i)
  BY <1>1
<1>3. \A x : Requests(x) = {f(x, i) : i \in S(x)}
  BY DEF Requests
<1> HIDE DEF S, f
<1> QED
  BY <1>1, <1>2, <1>3

LEMMA DecidedGrows ==
  ASSUME NEW h, NEW g, Longer(h, g), NEW type PROVE Decided(h, type) \subseteq Decided(g, type)
<1> DEFINE S(x) == Scope(x, type)
           f(x, i) == [id |-> At(i), refs |-> {Gate(x[i].id), <<"effect", x[i].id>>}, gate |-> Gate(x[i].id),
                       decision |-> x[i].value.decision, intent |-> At(x[i].value.intent)]
<1>1. \A i \in S(h) : i \in S(g) /\ g[i] = h[i]
  BY ScopeGrows
<1>2. \A i \in S(h) : f(g, i) = f(h, i)
  BY <1>1
<1>3. \A x : Decided(x, type) = {f(x, i) : i \in S(x)}
  BY DEF Decided
<1> HIDE DEF S, f
<1> QED
  BY <1>1, <1>2, <1>3

LEMMA ResultsGrow ==
  ASSUME NEW h, NEW g, Longer(h, g) PROVE Results(h) \subseteq Results(g)
<1> DEFINE S(x) == Scope(x, "gate.result")
           f(x, i) == [id |-> At(i), refs |-> {Gate(x[i].id), <<"effect", x[i].id>>}, gate |-> Gate(x[i].id),
                       outcome |-> x[i].value, digest |-> x[i].value]
<1>1. \A i \in S(h) : i \in S(g) /\ g[i] = h[i]
  BY ScopeGrows
<1>2. \A i \in S(h) : f(g, i) = f(h, i)
  BY <1>1
<1>3. \A x : Results(x) = {f(x, i) : i \in S(x)}
  BY DEF Results
<1> HIDE DEF S, f
<1> QED
  BY <1>1, <1>2, <1>3

\* A checkpoint that was captured goes on saying what it said of the workspace.
LEMMA ComparisonsGrow ==
  ASSUME NEW h, NEW g, Longer(h, g), CheckpointsStay, NEW c, c = 0 \/ c \in DOMAIN checkpoints
  PROVE  Comparisons(h, c) \subseteq Comparisons(g, c)'
<1> DEFINE S(x) == Scope(x, "workspace.diverged")
           T(x) == Scope(x, "checkpoint.created")
           f(x, i) == Comparison(At(i), {}, x[i].id, x[i].value.expected, x[i].value.observed)
           k(x, i, y) == Comparison(<<"comparison", i>>, {At(i), <<"checkpoint", c>>}, i, x[i].value, y)
<1>1. /\ \A i \in S(h) : i \in S(g) /\ g[i] = h[i]
      /\ \A i \in T(h) : i \in T(g) /\ g[i] = h[i]
  BY ScopeGrows
<1>2. /\ \A i \in S(h) : f(g, i) = f(h, i)
      /\ \A i \in T(h) : \A y : k(g, i, y) = k(h, i, y)
  BY <1>1 DEF Comparison
<1>3. Comparisons(h, c) = {f(h, i) : i \in S(h)} \cup
                          IF c = 0 THEN {} ELSE {k(h, i, checkpoints[c]) : i \in T(h)}
  BY DEF Comparisons
<1>4. Comparisons(g, c)' = {f(g, i) : i \in S(g)} \cup
                           IF c = 0 THEN {} ELSE {k(g, i, checkpoints'[c]) : i \in T(g)}
  BY DEF Comparisons
<1>5. c # 0 => checkpoints'[c] = checkpoints[c]
  BY DEF CheckpointsStay
<1> HIDE DEF S, T, f, k
<1> QED
  BY <1>1, <1>2, <1>3, <1>4, <1>5

\* The tool of a gate that has a result is known from its one request.
LEMMA ToolIsKnown ==
  ASSUME NEW h, NEW g, Longer(h, g), GateOrdered(h), GateOrdered(g),
         NEW a, a.requests = Requests(h), NEW b, b.requests = Requests(g), NEW r \in Results(h)
  PROVE  GateTool(a, r.gate) = GateTool(b, r.gate)
<1> DEFINE f(x, i) == [id |-> Gate(x[i].id), refs |-> {<<"effect", x[i].id>>}, gate |-> Gate(x[i].id),
                       attempt |-> Root, tool |-> x[i].value.tool, input |-> x[i].value.input]
<1>1. \A x : Requests(x) = {f(x, i) : i \in Scope(x, "gate.requested")}
  BY DEF Requests
<1>2. \A x, i : f(x, i).gate = Gate(x[i].id)
  OBVIOUS
<1>3. PICK i \in Scope(h, "gate.result") : r.gate = Gate(h[i].id)
  <2> DEFINE k(j) == [id |-> At(j), refs |-> {Gate(h[j].id), <<"effect", h[j].id>>}, gate |-> Gate(h[j].id),
                      outcome |-> h[j].value, digest |-> h[j].value]
  <2>1. Results(h) = {k(j) : j \in Scope(h, "gate.result")} /\ \A j : k(j).gate = Gate(h[j].id)
    BY DEF Results
  <2> HIDE DEF k
  <2> QED
    BY <2>1
<1>4. PICK j \in DOMAIN h : h[j].type = "gate.requested" /\ h[j].id = h[i].id
  BY DEF Scope, Events, GateOrdered
<1>5. j \in Scope(h, "gate.requested") /\ j \in Scope(g, "gate.requested") /\ g[j] = h[j]
  <2>1. j \in Scope(h, "gate.requested")
    BY <1>4 DEF Scope, Events, GateOrdered, GateTypes
  <2> QED
    BY <2>1, ScopeGrows
<1>6. \A m \in Scope(g, "gate.requested") : Gate(g[m].id) = r.gate => m = j
  BY <1>3, <1>4, <1>5 DEF Gate, Scope, Events, GateOrdered
<1> DEFINE q == f(g, j)
<1>7. q \in Requests(h) /\ Requests(h) \subseteq Requests(g) /\ q.gate = r.gate
  <2>1. f(h, j) = f(g, j)
    BY <1>5
  <2> HIDE DEF f
  <2> QED
    BY <1>1, <1>2, <1>3, <1>4, <1>5, <2>1, RequestsGrow
<1> HIDE DEF f
<1>8. \A p \in Requests(g) : p.gate = r.gate => p = q
  BY <1>1, <1>2, <1>6
<1> HIDE DEF q
<1>9. \E p \in a.requests : p.gate = r.gate
  BY <1>7
<1>10. \E p \in b.requests : p.gate = r.gate
  BY <1>7
<1>11. (CHOOSE p \in a.requests : p.gate = r.gate) = q
  BY <1>7, <1>8
<1>12. (CHOOSE p \in b.requests : p.gate = r.gate) = q
  BY <1>7, <1>8
<1> QED
  BY <1>9, <1>10, <1>11, <1>12 DEF GateTool

\* What is released is what was decided.
LEMMA ReleasedAsDecided ==
  ASSUME NEW h, NEW g, Longer(h, g), GateOrdered(g),
         NEW i \in Decided(h, "gate.decided"), NEW r \in Decided(g, "gate.released"), r.intent = i.id
  PROVE  r.gate = i.gate /\ r.decision = i.decision
<1> DEFINE f(x, n) == [id |-> At(n), refs |-> {Gate(x[n].id), <<"effect", x[n].id>>}, gate |-> Gate(x[n].id),
                       decision |-> x[n].value.decision, intent |-> At(x[n].value.intent)]
<1>1. \A x, type : Decided(x, type) = {f(x, n) : n \in Scope(x, type)}
  BY DEF Decided
<1>2. \A x, n : /\ f(x, n).id = At(n) /\ f(x, n).gate = Gate(x[n].id)
                /\ f(x, n).decision = x[n].value.decision /\ f(x, n).intent = At(x[n].value.intent)
  OBVIOUS
<1> HIDE DEF f
<1>3. PICK n \in Scope(h, "gate.decided") : i = f(h, n)
  BY <1>1
<1>4. PICK m \in Scope(g, "gate.released") : r = f(g, m)
  BY <1>1
<1>5. n = g[m].value.intent
  <2>1. At(n) = At(g[m].value.intent)
    BY <1>2, <1>3, <1>4
  <2> QED
    BY <2>1 DEF At
<1>6. g[n] = h[n]
  BY ScopeGrows
<1>7. g[n].id = g[m].id /\ g[n].value.decision = g[m].value.decision
  BY <1>5 DEF Scope, Events, GateOrdered
<1> QED
  BY <1>2, <1>3, <1>4, <1>6, <1>7

\* The first receipt of a branch stays the first.
LEMMA FirstReceiptStays ==
  ASSUME NEW h, NEW g, Longer(h, g), NEW k, BranchReceipts(h, k) # {}
  PROVE  BranchReceipts(g, k) # {} /\ ReceiptOutcome(g, k) = ReceiptOutcome(h, k)
<1> DEFINE S == BranchReceipts(h, k)  T == BranchReceipts(g, k)
<1>1. /\ S \subseteq T /\ S \in SUBSET Nat /\ T \in SUBSET Nat
      /\ \A i \in S : g[i] = h[i] /\ \A j \in T \ S : i < j
  BY DEF BranchReceipts, Events, Longer
<1>2. S # {}
  OBVIOUS
<1>3. ReceiptOutcome(h, k) = h[FirstOf(S)].value /\ (T # {} => ReceiptOutcome(g, k) = g[FirstOf(T)].value)
  BY DEF ReceiptOutcome
<1> HIDE DEF S, T
<1>4. PICK m \in S : \A n \in S : m <= n
  BY <1>1, <1>2, LeastMember
<1>5. m \in T /\ \A n \in T : m <= n
  BY <1>1, <1>4
<1>6. FirstOf(S) = m /\ FirstOf(T) = m
  <2>1. \A x \in S : (\A n \in S : x <= n) => x = m
    BY <1>1, <1>4
  <2>2. \A x \in T : (\A n \in T : x <= n) => x = m
    BY <1>1, <1>5
  <2> QED
    BY <1>4, <1>5, <2>1, <2>2 DEF FirstOf
<1> QED
  BY <1>1, <1>3, <1>4, <1>5, <1>6 DEF T

\* What a fork has confirmed it goes on confirming.
LEMMA OutcomesStand ==
  ASSUME NEW h, NEW g, Longer(h, g), ForksGoOn, EventInv,
         \A i \in DOMAIN h : i \in DOMAIN events /\ events[i] = h[i],
         NEW c, NEW o \in Outcomes(h, c), o.result = "mechanism-confirmed"
  PROVE  \E p \in Outcomes(g, c)' :
           /\ p.deterministic /\ p.result = "mechanism-confirmed" /\ p.candidate = o.candidate
           /\ p.variable = o.variable /\ p.checkpoint = o.checkpoint
<1> DEFINE f(x, i, result) ==
      [id |-> <<"outcome", i>>,
       refs |-> {<<"checkpoint", c>>, <<"fork", x[i].id>>} \cup {At(j) : j \in BranchReceipts(x, x[i].id)},
       candidate |-> x[i].value.candidate, variable |-> x[i].value.variable, checkpoint |-> c,
       deterministic |-> TRUE, result |-> result]
<1>1. Outcomes(h, c) = {f(h, i, Outcome(h, h[i].id)) : i \in Diagnosed(h, c)}
  BY DEF Outcomes
<1>2. Outcomes(g, c)' = {f(g, i, Outcome(g, g[i].id)') : i \in Diagnosed(g, c)'}
  BY DEF Outcomes
<1>3. \A x, i, result :
        /\ f(x, i, result).candidate = x[i].value.candidate
        /\ f(x, i, result).variable = x[i].value.variable
        /\ f(x, i, result).checkpoint = c /\ f(x, i, result).deterministic = TRUE
        /\ f(x, i, result).result = result
  OBVIOUS
<1> HIDE DEF f
<1>4. PICK i \in Diagnosed(h, c) : o = f(h, i, Outcome(h, h[i].id))
  BY <1>1
<1> DEFINE k == h[i].id
<1>5. /\ i \in DOMAIN h /\ h[i].type = "diagnostic" /\ h[i].value.checkpoint = c /\ c # 0
      /\ i \in DOMAIN g /\ g[i] = h[i] /\ i \in DOMAIN events /\ events[i] = h[i]
  BY DEF Diagnosed, Events, Longer
<1>6. k \in DOMAIN forks
  BY <1>5 DEF EventInv, Known
<1>7. Outcome(h, k) = "mechanism-confirmed"
  BY <1>3, <1>4
<1>8. forks[k].phase \in Finished /\ ContextWasRead(forks[k]) /\ ReceiptOutcome(h, k) = "verified"
  BY <1>7 DEF Outcome, Finished
<1>9. forks'[k].phase \in Finished /\ ContextWasRead(forks'[k])
  BY <1>6, <1>8 DEF ForksGoOn, ContextWasRead
<1>10. ReceiptOutcome(g, k) = "verified"
  <2>1. BranchReceipts(h, k) # {}
    BY <1>8 DEF ReceiptOutcome
  <2> QED
    BY <1>8, <2>1, FirstReceiptStays
<1>11. i \in Diagnosed(g, c)'
  BY <1>5, <1>9 DEF Diagnosed, Events, Finished
<1>12. Outcome(g, k)' = "mechanism-confirmed"
  BY <1>9, <1>10 DEF Outcome, Finished
<1> DEFINE p == f(g, i, Outcome(g, g[i].id)')
<1>13. p \in Outcomes(g, c)'
  BY <1>2, <1>11
<1>14. /\ p.deterministic /\ p.result = "mechanism-confirmed" /\ p.candidate = o.candidate
       /\ p.variable = o.variable /\ p.checkpoint = o.checkpoint
  BY <1>3, <1>4, <1>5, <1>12
<1> QED
  BY <1>13, <1>14

\* A projection of more of the log, later, is one of more evidence.
LEMMA ProjectionGrows ==
  ASSUME NEW h, NEW g, Longer(h, g), GateOrdered(h), GateOrdered(g), Steady, EventInv,
         \A i \in DOMAIN h : i \in DOMAIN events /\ events[i] = h[i],
         NEW c, c = 0 \/ c \in DOMAIN checkpoints
  PROVE  More(Projection(h, c), Projection(g, c)')
<1> DEFINE a == Projection(h, c)  b == Projection(g, c)'
<1>1. /\ a.facts = RuntimeFacts(h) /\ a.freshness = Freshness(h) /\ a.comparisons = Comparisons(h, c)
      /\ a.requests = Requests(h) /\ a.intents = Decided(h, "gate.decided")
      /\ a.releases = Decided(h, "gate.released") /\ a.results = Results(h)
      /\ a.outcomes = Outcomes(h, c) /\ a.checkpoint = [id |-> c, complete |-> c # 0]
  BY DEF Projection
<1>2. /\ b.facts = RuntimeFacts(g) /\ b.freshness = Freshness(g) /\ b.comparisons = Comparisons(g, c)'
      /\ b.requests = Requests(g) /\ b.intents = Decided(g, "gate.decided")
      /\ b.releases = Decided(g, "gate.released") /\ b.results = Results(g)
      /\ b.outcomes = Outcomes(g, c)' /\ b.checkpoint = [id |-> c, complete |-> c # 0]
  BY DEF Projection
<1>3. CheckpointsStay /\ ForksGoOn
  BY DEF Steady
<1> HIDE DEF a, b
<1>4. /\ a.facts \subseteq b.facts /\ a.freshness \subseteq b.freshness
      /\ a.comparisons \subseteq b.comparisons /\ a.requests \subseteq b.requests
      /\ a.results \subseteq b.results /\ a.checkpoint = b.checkpoint
  BY <1>1, <1>2, <1>3, FactsGrow, FreshnessGrows, ComparisonsGrow, RequestsGrow, ResultsGrow
<1>5. a.intents \subseteq b.intents /\ a.releases \subseteq b.releases
  BY <1>1, <1>2, DecidedGrows
<1>6. \A r \in a.results : GateTool(a, r.gate) = GateTool(b, r.gate)
  BY <1>1, <1>2, ToolIsKnown
<1>7. \A i \in a.intents : \A r \in b.releases :
        r.intent = i.id => r.gate = i.gate /\ r.decision = i.decision
  BY <1>1, <1>2, ReleasedAsDecided
<1>8. \A o \in a.outcomes : o.deterministic /\ o.result = "mechanism-confirmed" =>
        \E p \in b.outcomes : /\ p.deterministic /\ p.result = "mechanism-confirmed"
                              /\ p.candidate = o.candidate /\ p.variable = o.variable
                              /\ p.checkpoint = o.checkpoint
  BY <1>1, <1>2, <1>3, OutcomesStand
<1>9. More(a, b)
  BY <1>4, <1>5, <1>6, <1>7, <1>8 DEF More
<1> QED
  BY <1>9 DEF a, b

\* A prefix of the log is in the order of the Tool Gateway, as the log is.
LEMMA PrefixIs ==
  ASSUME NEW X, NEW h \in Seq(X), NEW m \in 0..Len(h), NEW g, g = SubSeq(h, 1, m)
  PROVE  g \in Seq(X) /\ DOMAIN g = 1..m /\ Len(h) \in Nat /\ DOMAIN h = 1..Len(h)
         /\ \A i \in 1..m : i \in DOMAIN h /\ g[i] = h[i]
OBVIOUS

LEMMA PrefixOrdered ==
  ASSUME NEW X, NEW h \in Seq(X), GateOrdered(h), NEW m \in 0..Len(h)
  PROVE  GateOrdered(SubSeq(h, 1, m))
<1> DEFINE g == SubSeq(h, 1, m)
<1>1. g \in Seq(X) /\ DOMAIN g = 1..m /\ Len(h) \in Nat /\ DOMAIN h = 1..Len(h)
      /\ \A i \in 1..m : i \in DOMAIN h /\ g[i] = h[i]
  BY PrefixIs
<1>2. m \in Nat /\ \A i \in 1..m, j \in DOMAIN h : j < i => j \in 1..m
  BY <1>1
<1> HIDE DEF g
<1> SUFFICES GateOrdered(g)
  BY DEF g
<1> SUFFICES ASSUME NEW i \in DOMAIN g
             PROVE /\ g[i].type \in GateTypes => g[i].branch = Root
                   /\ g[i].type = "gate.requested" =>
                        \A j \in DOMAIN g : g[j].type = "gate.requested" /\ g[j].id = g[i].id => j = i
                   /\ g[i].type \in {"gate.decided", "gate.result"} =>
                        \E j \in DOMAIN g : j < i /\ g[j].type = "gate.requested" /\ g[j].id = g[i].id
                   /\ g[i].type = "gate.released" =>
                        \E j \in DOMAIN g : /\ j < i /\ g[j].type = "gate.decided" /\ g[j].id = g[i].id
                                            /\ j = g[i].value.intent /\ g[j].value.decision = g[i].value.decision
  BY DEF GateOrdered
<1>3. i \in DOMAIN h /\ g[i] = h[i]
  BY <1>1
<1>4. g[i].type \in GateTypes => g[i].branch = Root
  BY <1>3 DEF GateOrdered
<1>5. g[i].type = "gate.requested" =>
        \A j \in DOMAIN g : g[j].type = "gate.requested" /\ g[j].id = g[i].id => j = i
  BY <1>1, <1>3 DEF GateOrdered
<1>6. g[i].type \in {"gate.decided", "gate.result"} =>
        \E j \in DOMAIN g : j < i /\ g[j].type = "gate.requested" /\ g[j].id = g[i].id
  <2> HAVE g[i].type \in {"gate.decided", "gate.result"}
  <2>1. PICK j \in DOMAIN h : j < i /\ h[j].type = "gate.requested" /\ h[j].id = h[i].id
    BY <1>3 DEF GateOrdered
  <2> QED
    BY <1>1, <1>2, <1>3, <2>1
<1>7. g[i].type = "gate.released" =>
        \E j \in DOMAIN g : /\ j < i /\ g[j].type = "gate.decided" /\ g[j].id = g[i].id
                            /\ j = g[i].value.intent /\ g[j].value.decision = g[i].value.decision
  <2> HAVE g[i].type = "gate.released"
  <2>1. PICK j \in DOMAIN h : /\ j < i /\ h[j].type = "gate.decided" /\ h[j].id = h[i].id
                              /\ j = h[i].value.intent /\ h[j].value.decision = h[i].value.decision
    BY <1>3 DEF GateOrdered
  <2> QED
    BY <1>1, <1>2, <1>3, <2>1
<1> QED
  BY <1>4, <1>5, <1>6, <1>7

\* What earlier Attempts have left is in that order.
LEMMA HistoryOrdered == ASSUME NEW h \in Histories PROVE GateOrdered(h)
<1>1. /\ h \in Seq(Range(h)) /\ \A i \in DOMAIN h : OfRoot(h[i])
      /\ \A i \in DOMAIN h : InGateOrder(SubSeq(h, 1, i - 1), h[i])
  BY InsightAssumption
<1>2. ASSUME NEW i \in DOMAIN h
      PROVE  /\ i \in Nat /\ DOMAIN SubSeq(h, 1, i - 1) = 1..(i - 1) /\ DOMAIN h = 1..Len(h)
             /\ \A j \in 1..(i - 1) : j \in DOMAIN h /\ SubSeq(h, 1, i - 1)[j] = h[j]
  <2>1. i - 1 \in 0..Len(h) /\ i \in Nat
    BY <1>1
  <2> QED
    BY <1>1, <2>1, PrefixIs
<1>3. ASSUME NEW i \in DOMAIN h, NEW type, NEW id
      PROVE  Of(SubSeq(h, 1, i - 1), type, id) = {j \in DOMAIN h : j < i /\ h[j].type = type /\ h[j].id = id}
  <2> DEFINE g == SubSeq(h, 1, i - 1)
  <2>1. Len(h) \in Nat /\ DOMAIN h = 1..Len(h)
    BY <1>1
  <2>2. \A j : j \in 1..(i - 1) <=> j \in DOMAIN h /\ j < i
    BY <2>1
  <2>3. DOMAIN g = 1..(i - 1) /\ \A j \in 1..(i - 1) : g[j] = h[j]
    BY <1>2
  <2> HIDE DEF g
  <2>4. Of(g, type, id) = {j \in 1..(i - 1) : h[j].type = type /\ h[j].id = id}
    BY <2>3 DEF Of, Events
  <2>5. Of(g, type, id) = {j \in DOMAIN h : j < i /\ h[j].type = type /\ h[j].id = id}
    BY <2>2, <2>4
  <2> QED
    BY <2>5 DEF g
<1> SUFFICES ASSUME NEW i \in DOMAIN h
             PROVE /\ h[i].type \in GateTypes => h[i].branch = Root
                   /\ h[i].type = "gate.requested" =>
                        \A j \in DOMAIN h : h[j].type = "gate.requested" /\ h[j].id = h[i].id => j = i
                   /\ h[i].type \in {"gate.decided", "gate.result"} =>
                        \E j \in DOMAIN h : j < i /\ h[j].type = "gate.requested" /\ h[j].id = h[i].id
                   /\ h[i].type = "gate.released" =>
                        \E j \in DOMAIN h : /\ j < i /\ h[j].type = "gate.decided" /\ h[j].id = h[i].id
                                            /\ j = h[i].value.intent /\ h[j].value.decision = h[i].value.decision
  BY DEF GateOrdered
<1>4. h[i].branch = Root
  BY <1>1 DEF OfRoot, Event
<1>5. ASSUME NEW x \in DOMAIN h, NEW y \in DOMAIN h, x < y, h[x].type = "gate.requested",
             h[y].type = "gate.requested", h[x].id = h[y].id
      PROVE  FALSE
  <2>1. Of(SubSeq(h, 1, y - 1), "gate.requested", h[y].id) = {}
    BY <1>1, <1>5 DEF InGateOrder
  <2>2. x \in Of(SubSeq(h, 1, y - 1), "gate.requested", h[y].id)
    BY <1>3, <1>5
  <2> QED
    BY <2>1, <2>2
<1>6. h[i].type = "gate.requested" =>
        \A j \in DOMAIN h : h[j].type = "gate.requested" /\ h[j].id = h[i].id => j = i
  <2> SUFFICES ASSUME h[i].type = "gate.requested", NEW j \in DOMAIN h,
                      h[j].type = "gate.requested", h[j].id = h[i].id, j # i
               PROVE  FALSE
    OBVIOUS
  <2>1. i < j \/ j < i
    BY <1>2
  <2> QED
    BY <1>5, <2>1
<1>7. h[i].type \in {"gate.decided", "gate.result"} =>
        \E j \in DOMAIN h : j < i /\ h[j].type = "gate.requested" /\ h[j].id = h[i].id
  BY <1>1, <1>3 DEF InGateOrder
<1>8. h[i].type = "gate.released" =>
        \E j \in DOMAIN h : /\ j < i /\ h[j].type = "gate.decided" /\ h[j].id = h[i].id
                            /\ j = h[i].value.intent /\ h[j].value.decision = h[i].value.decision
  <2> HAVE h[i].type = "gate.released"
  <2>1. PICK j \in Of(SubSeq(h, 1, i - 1), "gate.decided", h[i].id) :
          j = h[i].value.intent /\ SubSeq(h, 1, i - 1)[j].value.decision = h[i].value.decision
    BY <1>1 DEF InGateOrder
  <2>2. j \in DOMAIN h /\ j < i /\ h[j].type = "gate.decided" /\ h[j].id = h[i].id
    BY <1>3
  <2>3. SubSeq(h, 1, i - 1)[j] = h[j]
    BY <1>2, <2>2
  <2> QED
    BY <2>1, <2>2, <2>3
<1> QED
  BY <1>4, <1>6, <1>7, <1>8

\* What the first n events of the log say, with the checkpoint that was read.
Conclusions(n, c) == Candidates(Projection(SubSeq(events, 1, n), c))

GateInv == GateOrdered(events)

\* A report stands in the log from where it was read on; a reader that is reading
\* again has read no less.
StandsFor(r) ==
  \E n \in 0..Len(events) :
    /\ client[r].step # "idle" => n <= client[r].through
    /\ \A m \in n..Len(events) : AsStrong(Shown(r), Conclusions(m, view[r].checkpoint))
StandsInv == \A r \in Readers : StandsFor(r)

\* A drain of the Tool Gateway goes on in its order; no other step adds to it.
LEMMA GateRecorded ==
  ASSUME LogTypes, GateInv, NEW e, Record(e), e.type \in GateTypes => e.branch = Root, InGateOrder(events, e)
  PROVE  GateInv'
<1> DEFINE n == Len(events')
<1>1. /\ LogGrows /\ n \in DOMAIN events' /\ events'[n] = e /\ n = Len(events) + 1
      /\ DOMAIN events = 1..Len(events) /\ DOMAIN events' = 1..n
      /\ \A i \in DOMAIN events' : i \in DOMAIN events \/ i = n
  BY RecordGrows
<1>2. /\ Len(events) \in Nat
      /\ \A i \in DOMAIN events : i \in DOMAIN events' /\ events'[i] = events[i] /\ i < n
  BY <1>1 DEF LogGrows
<1> HIDE DEF n
<1> SUFFICES ASSUME NEW i \in DOMAIN events'
             PROVE /\ events'[i].type \in GateTypes => events'[i].branch = Root
                   /\ events'[i].type = "gate.requested" =>
                        \A j \in DOMAIN events' :
                          events'[j].type = "gate.requested" /\ events'[j].id = events'[i].id => j = i
                   /\ events'[i].type \in {"gate.decided", "gate.result"} =>
                        \E j \in DOMAIN events' :
                          j < i /\ events'[j].type = "gate.requested" /\ events'[j].id = events'[i].id
                   /\ events'[i].type = "gate.released" =>
                        \E j \in DOMAIN events' :
                          /\ j < i /\ events'[j].type = "gate.decided" /\ events'[j].id = events'[i].id
                          /\ j = events'[i].value.intent
                          /\ events'[j].value.decision = events'[i].value.decision
  BY DEF GateInv, GateOrdered
<1>3. \A j \in DOMAIN events : ~(e.type = "gate.requested" /\ events[j].type = "gate.requested" /\ events[j].id = e.id)
  BY DEF InGateOrder, Of, Events
<1>4. CASE i \in DOMAIN events
  <2>1. events'[i] = events[i]
    BY <1>2, <1>4
  <2>2. events[i].type \in GateTypes => events[i].branch = Root
    BY <1>4 DEF GateInv, GateOrdered
  <2>3. events[i].type = "gate.requested" =>
          \A j \in DOMAIN events' :
            events'[j].type = "gate.requested" /\ events'[j].id = events[i].id => j = i
    <3> SUFFICES ASSUME events[i].type = "gate.requested", NEW j \in DOMAIN events',
                        events'[j].type = "gate.requested", events'[j].id = events[i].id
                 PROVE  j = i
      OBVIOUS
    <3>1. CASE j \in DOMAIN events
      BY <1>2, <1>4, <3>1 DEF GateInv, GateOrdered
    <3>2. CASE j = n
      BY <1>1, <1>3, <1>4, <3>2
    <3> QED
      BY <1>1, <3>1, <3>2
  <2>4. events[i].type \in {"gate.decided", "gate.result"} =>
          \E j \in DOMAIN events' : j < i /\ events'[j].type = "gate.requested" /\ events'[j].id = events[i].id
    <3> HAVE events[i].type \in {"gate.decided", "gate.result"}
    <3>1. PICK j \in DOMAIN events : j < i /\ events[j].type = "gate.requested" /\ events[j].id = events[i].id
      BY <1>4 DEF GateInv, GateOrdered
    <3> QED
      BY <1>2, <3>1
  <2>5. events[i].type = "gate.released" =>
          \E j \in DOMAIN events' :
            /\ j < i /\ events'[j].type = "gate.decided" /\ events'[j].id = events[i].id
            /\ j = events[i].value.intent /\ events'[j].value.decision = events[i].value.decision
    <3> HAVE events[i].type = "gate.released"
    <3>1. PICK j \in DOMAIN events :
            /\ j < i /\ events[j].type = "gate.decided" /\ events[j].id = events[i].id
            /\ j = events[i].value.intent /\ events[j].value.decision = events[i].value.decision
      BY <1>4 DEF GateInv, GateOrdered
    <3> QED
      BY <1>2, <3>1
  <2> QED
    BY <2>1, <2>2, <2>3, <2>4, <2>5
<1>5. CASE i = n
  <2>1. events'[i] = e
    BY <1>1, <1>5
  <2>2. e.type = "gate.requested" =>
          \A j \in DOMAIN events' : events'[j].type = "gate.requested" /\ events'[j].id = e.id => j = i
    BY <1>1, <1>2, <1>3, <1>5
  <2>3. e.type \in {"gate.decided", "gate.result"} =>
          \E j \in DOMAIN events' : j < i /\ events'[j].type = "gate.requested" /\ events'[j].id = e.id
    <3> HAVE e.type \in {"gate.decided", "gate.result"}
    <3>1. PICK j \in DOMAIN events : events[j].type = "gate.requested" /\ events[j].id = e.id
      BY DEF InGateOrder, Of, Events
    <3> QED
      BY <1>2, <1>5, <3>1
  <2>4. e.type = "gate.released" =>
          \E j \in DOMAIN events' :
            /\ j < i /\ events'[j].type = "gate.decided" /\ events'[j].id = e.id
            /\ j = e.value.intent /\ events'[j].value.decision = e.value.decision
    <3> HAVE e.type = "gate.released"
    <3>1. PICK j \in DOMAIN events :
            /\ events[j].type = "gate.decided" /\ events[j].id = e.id
            /\ j = e.value.intent /\ events[j].value.decision = e.value.decision
      BY DEF InGateOrder, Of, Events
    <3> QED
      BY <1>2, <1>5, <3>1
  <2> QED
    BY <2>1, <2>2, <2>3, <2>4
<1> QED
  BY <1>1, <1>4, <1>5

LEMMA GateStep == InsightIInv /\ GateInv /\ [InsightNext]_insightVars => GateInv'
<1> SUFFICES ASSUME InsightIInv, GateInv, [InsightNext]_insightVars PROVE GateInv'
  OBVIOUS
<1>0. LogTypes
  BY InParts DEF Parts
<1>1. ASSUME UNCHANGED events PROVE GateInv'
  BY <1>1 DEF GateInv, GateOrdered
<1>2. ASSUME NEW e, Record(e), e.type \notin GateTypes PROVE GateInv'
  BY <1>0, <1>2, GateRecorded DEF InGateOrder, GateTypes
<1>3. ASSUME NEW e \in Observations, InGateOrder(events, e), Record(e) PROVE GateInv'
  <2>1. e.branch = Root
    BY InsightAssumption DEF OfRoot, Event
  <2> QED
    BY <1>0, <1>3, <2>1, GateRecorded
<1>4. \A type, branch, id, value : Event(type, branch, id, value).type = type
  BY DEF Event
<1>5. CASE Observe
  <2>1. "checkpoint.created" \notin GateTypes /\ "context.freshness" \notin GateTypes
    BY DEF GateTypes
  <2> QED
    BY <1>2, <1>3, <1>4, <1>5, <2>1 DEF Observe
<1>6. ASSUME NEW a \in Askers, Request(a) PROVE GateInv'
  <2>1. "diagnostic" \notin GateTypes
    BY DEF GateTypes
  <2> QED
    BY <1>2, <1>4, <1>6, <2>1 DEF Request
<1>7. ASSUME NEW k \in DOMAIN forks, Advance(k) PROVE GateInv'
  <2>1. "receipt" \notin GateTypes
    BY DEF GateTypes
  <2> QED
    BY <1>1, <1>2, <1>4, <1>7, <2>1 DEF Advance
<1>8. CASE Edit \/ Capture \/ UNCHANGED insightVars
  BY <1>1, <1>8 DEF Edit, Capture, insightVars
<1>9. ASSUME NEW c \in Clients, ReadEvents(c) PROVE GateInv'
  BY <1>1, <1>9 DEF ReadEvents
<1>10. ASSUME NEW r \in Readers, ReadCheckpoint(r) \/ Show(r) PROVE GateInv'
  BY <1>1, <1>10 DEF ReadCheckpoint, Show
<1>11. ASSUME NEW a \in Askers, Ask(a) PROVE GateInv'
  BY <1>1, <1>11 DEF Ask
<1> QED
  BY <1>5, <1>6, <1>7, <1>8, <1>9, <1>10, <1>11 DEF InsightNext

LEMMA EvidenceThen ==
  ASSUME NEW X, NEW h \in Seq(X), NEW c
  PROVE  Evidence(Projection(h, c))'
<1>1. Evidence(Projection(h, c))
  BY ProjectionIsEvidence
<1> QED
  BY <1>1, PTL

\* What a prefix of the log says, a longer one says later too.
LEMMA LaterStands ==
  ASSUME LogTypes, LogTypes', CheckpointTypes, EventInv, GateInv, GateInv', Steady,
         NEW c \in 0..Len(checkpoints),
         NEW m \in 0..Len(events), NEW n \in 0..Len(events'), m <= n
  PROVE  AsStrong(Conclusions(m, c), Conclusions(n, c)')
<1>0. PICK h, g, k, X, Y : /\ h = SubSeq(events, 1, m) /\ g = SubSeq(k, 1, n) /\ k = events'
                           /\ X = Range(events) /\ Y = Range(events)'
  OBVIOUS
<1>1. /\ events \in Seq(X) /\ k \in Seq(Y) /\ GateOrdered(events) /\ GateOrdered(k)
  BY <1>0 DEF LogTypes, GateInv
<1>2. /\ h \in Seq(X) /\ DOMAIN h = 1..m /\ Len(events) \in Nat
      /\ \A i \in 1..m : i \in DOMAIN events /\ h[i] = events[i]
  BY <1>0, <1>1, PrefixIs
<1>3. /\ g \in Seq(Y) /\ DOMAIN g = 1..n /\ Len(k) \in Nat
      /\ \A i \in 1..n : i \in DOMAIN k /\ g[i] = k[i]
  BY <1>0, <1>1, PrefixIs
<1>4. GateOrdered(h)
  BY <1>0, <1>1, PrefixOrdered
<1>5. GateOrdered(g)
  BY <1>0, <1>1, PrefixOrdered
<1>6. Longer(h, g)
  <2>1. m \in Nat /\ n \in Nat
    BY <1>0, <1>2, <1>3
  <2>2. \A i \in 1..m : i \in 1..n /\ g[i] = h[i]
    BY <1>0, <1>2, <1>3, <2>1 DEF Steady, LogGrows
  <2> QED
    BY <1>2, <1>3, <2>1, <2>2 DEF Longer
<1>7. c = 0 \/ c \in DOMAIN checkpoints
  BY DEF CheckpointTypes
<1>8. More(Projection(h, c), Projection(g, c)')
  BY <1>2, <1>4, <1>5, <1>6, <1>7, ProjectionGrows
<1>9. Evidence(Projection(h, c))
  BY <1>2, ProjectionIsEvidence
<1>10. Evidence(Projection(g, c)')
  BY <1>3, EvidenceThen
<1>11. AsStrong(Candidates(Projection(h, c)), Candidates(Projection(g, c)'))
  BY <1>8, <1>9, <1>10, CandidatesStand
<1> QED
  BY <1>0, <1>11 DEF Conclusions

\* What a step does to a reader: it goes on reading, or it is shown what it has read.
Reads(r) ==
  /\ view'[r].report = view[r].report /\ view'[r].checkpoint = view[r].checkpoint
  /\ client'[r].step # "idle" =>
       \/ client[r].step # "idle" /\ client'[r].through = client[r].through
       \/ client'[r].through = Len(events')
IsShown(r) ==
  /\ client[r].step # "idle" /\ client'[r].step = "idle" /\ UNCHANGED events
  /\ view'[r].checkpoint = client[r].checkpoint
  /\ view'[r].report = Conclusions(client[r].through, client[r].checkpoint)

LEMMA ReaderMoves ==
  ASSUME InsightIInv, NEW r \in Readers, [InsightNext]_insightVars
  PROVE  Reads(r) \/ IsShown(r)
<1>1. r \in Clients /\ r \notin Askers /\ DOMAIN client = Clients /\ DOMAIN view = Readers
  BY InsightAssumption, InParts DEF Clients, Parts, ClientTypes, ViewTypes
<1>2. ASSUME view'[r] = view[r], client'[r] = client[r] PROVE Reads(r)
  BY <1>2 DEF Reads
<1>3. ASSUME NEW c, c # r, NEW w, client' = [client EXCEPT ![c] = w] PROVE client'[r] = client[r]
  BY <1>1, <1>3
<1>4. CASE Observe \/ Edit \/ Capture \/ UNCHANGED insightVars
  BY <1>2, <1>4 DEF Observe, Edit, Capture, insightVars
<1>5. ASSUME NEW k \in DOMAIN forks, Advance(k) PROVE Reads(r)
  BY <1>2, <1>5 DEF Advance
<1>6. ASSUME NEW a \in Askers, Ask(a) \/ Request(a) PROVE Reads(r)
  <2>1. view' = view /\ \E w : client' = [client EXCEPT ![a] = w]
    BY <1>6 DEF Ask, Request, GoOn
  <2> QED
    BY <1>1, <1>2, <1>3, <2>1
<1>7. ASSUME NEW c \in Clients, NEW s, NEW t, GoOn(c, s, t, NewestCheckpoint, {}),
             UNCHANGED <<events, view>>,
             t = Len(events) \/ (client[c].step # "idle" /\ t = client[c].through)
      PROVE  Reads(r)
  <2>1. CASE c = r
    <3> DEFINE w == [step |-> s, through |-> t, checkpoint |-> NewestCheckpoint, wish |-> {}]
    <3>1. client' = [client EXCEPT ![c] = w] /\ w.through = t
      BY <1>7 DEF GoOn
    <3> HIDE DEF w
    <3>2. client'[r].through = t
      BY <1>1, <2>1, <3>1
    <3> QED
      BY <1>7, <2>1, <3>2 DEF Reads
  <2>2. CASE c # r
    BY <1>2, <1>3, <1>7, <2>2 DEF GoOn
  <2> QED
    BY <2>1, <2>2
<1>8. ASSUME NEW c \in Clients, ReadEvents(c) PROVE Reads(r)
  BY <1>7, <1>8 DEF ReadEvents
<1>9. ASSUME NEW x \in Readers, ReadCheckpoint(x) PROVE Reads(r)
  <2>1. client[x].step # "idle" /\ GoOn(x, "checkpoint", client[x].through, NewestCheckpoint, {})
        /\ UNCHANGED <<events, view>> /\ x \in Clients
    BY <1>9 DEF ReadCheckpoint, Clients
  <2> QED
    BY <1>7, <2>1
<1>10. ASSUME NEW x \in Readers, Show(x), x # r PROVE Reads(r)
  <2>1. client' = [client EXCEPT ![x] = Idle] /\ \E w : view' = [view EXCEPT ![x] = w]
    BY <1>10 DEF Show
  <2>2. view'[r] = view[r]
    BY <1>1, <1>10, <2>1
  <2> QED
    BY <1>2, <1>3, <1>10, <2>1, <2>2
<1>11. ASSUME Show(r) PROVE Reads(r) \/ IsShown(r)
  <2> DEFINE t == client[r].through
             c == client[r].checkpoint
             report == Candidates(Projection(Prefix(r), c))
             fails == Throws(Prefix(r), c)
  <2>1. /\ client[r].step = "checkpoint" /\ client' = [client EXCEPT ![r] = Idle] /\ UNCHANGED events
        /\ view' = [view EXCEPT ![r] =
             IF fails THEN [view[r] EXCEPT !.failed = TRUE]
             ELSE [checkpoint |-> c, report |-> report, failed |-> FALSE]]
    BY <1>11 DEF Show
  <2>2. report = Conclusions(t, c)
    BY DEF Prefix, Conclusions
  <2>3. view[r] = [checkpoint |-> view[r].checkpoint, report |-> view[r].report, failed |-> view[r].failed]
    BY InParts DEF Parts, ViewTypes, Shown
  <2> HIDE DEF report, fails
  <2>4. client'[r].step = "idle"
    BY <1>1, <2>1 DEF Idle
  <2>5. CASE fails
    <3>1. view'[r] = [view[r] EXCEPT !.failed = TRUE]
      BY <1>1, <2>1, <2>5
    <3> DEFINE v == view[r]  n == v.checkpoint  p == v.report  b == v.failed
    <3>2. v = [checkpoint |-> n, report |-> p, failed |-> b] /\ view'[r] = [v EXCEPT !.failed = TRUE]
      BY <2>3, <3>1
    <3> HIDE DEF v, n, p, b
    <3>3. view'[r].report = p /\ view'[r].checkpoint = n
      BY <3>2
    <3> QED
      BY <2>4, <3>3 DEF Reads, v, n, p
  <2>6. CASE ~fails
    <3> HIDE DEF c, t
    <3>1. view'[r].checkpoint = c /\ view'[r].report = report
      BY <1>1, <2>1, <2>6
    <3> QED
      BY <2>1, <2>2, <2>4, <3>1 DEF IsShown, c, t
  <2> QED
    BY <2>5, <2>6
<1> QED
  BY <1>4, <1>5, <1>6, <1>8, <1>9, <1>10, <1>11, <1>2 DEF InsightNext

LEMMA StandsStep ==
  InsightIInv /\ GateInv /\ StandsInv /\ [InsightNext]_insightVars => StandsInv'
<1> SUFFICES ASSUME InsightIInv, GateInv, StandsInv, [InsightNext]_insightVars, NEW r \in Readers
             PROVE  StandsFor(r)'
  BY DEF StandsInv
<1>1. /\ LogTypes /\ LogTypes' /\ CheckpointTypes /\ EventInv /\ GateInv /\ GateInv' /\ Steady
      /\ ClientTypes /\ ViewTypes /\ ClientTypes'
  BY InsightStep, GateStep, InParts DEF Parts
<1>2. /\ Len(events) \in Nat /\ Len(events') \in Nat /\ Len(events) <= Len(events')
  BY <1>1 DEF Steady, LogGrows
<1>3. /\ r \in Clients /\ client[r].through \in 0..Len(events) /\ client[r].checkpoint \in 0..Len(checkpoints)
      /\ view[r].checkpoint \in 0..Len(checkpoints) /\ client'[r].through \in 0..Len(events')
  BY <1>1 DEF Clients, ClientTypes, ViewTypes
<1>4. ASSUME NEW c \in 0..Len(checkpoints), NEW S, NEW n \in 0..Len(events),
             \A m \in n..Len(events) : AsStrong(S, Conclusions(m, c))
      PROVE  \A m \in n..Len(events') : AsStrong(S, Conclusions(m, c)')
  <2> TAKE m \in n..Len(events')
  <2>1. PICK k \in n..Len(events) : k <= m /\ k \in 0..Len(events) /\ m \in 0..Len(events')
    <3>1. CASE m <= Len(events)
      BY <1>2, <3>1
    <3>2. CASE m > Len(events)
      BY <1>2, <3>2
    <3> QED
      BY <1>2, <3>1, <3>2
  <2>2. AsStrong(Conclusions(k, c), Conclusions(m, c)')
    BY <1>1, <2>1, LaterStands
  <2> QED
    BY <1>4, <2>1, <2>2, AsStrongOnwards
<1>5. CASE Reads(r)
  <2>1. PICK n \in 0..Len(events) :
          /\ client[r].step # "idle" => n <= client[r].through
          /\ \A m \in n..Len(events) : AsStrong(Shown(r), Conclusions(m, view[r].checkpoint))
    BY DEF StandsInv, StandsFor
  <2>2. PICK c : c = view[r].checkpoint
    OBVIOUS
  <2>3. \A m \in n..Len(events') : AsStrong(Shown(r), Conclusions(m, c)')
    BY <1>3, <1>4, <2>1, <2>2
  <2>4. view'[r].checkpoint = c /\ Shown(r)' = Shown(r)
    BY <1>5, <2>2 DEF Reads, Shown
  <2>5. \A m \in n..Len(events') : AsStrong(Shown(r), Conclusions(m, view[r].checkpoint))'
    BY <2>3, <2>4
  <2>6. client'[r].step # "idle" => n <= client'[r].through
    BY <1>2, <1>3, <1>5, <2>1 DEF Reads
  <2>7. n \in 0..Len(events')
    BY <1>2
  <2> QED
    BY <2>5, <2>6, <2>7 DEF StandsFor
<1>6. CASE IsShown(r)
  <2>1. PICK c, t : c = client[r].checkpoint /\ t = client[r].through
    OBVIOUS
  <2>2. /\ t \in 0..Len(events) /\ c \in 0..Len(checkpoints)
        /\ Shown(r)' = Conclusions(t, c) /\ view'[r].checkpoint = c /\ client'[r].step = "idle"
    BY <1>3, <1>6, <2>1 DEF IsShown, Shown
  <2>3. \A m \in t..Len(events') : AsStrong(Conclusions(t, c), Conclusions(m, c)')
    <3> TAKE m \in t..Len(events')
    <3>1. t <= m /\ m \in 0..Len(events')
      BY <1>2, <2>2
    <3> QED
      BY <1>1, <2>2, <3>1, LaterStands
  <2>4. \A m \in t..Len(events') : AsStrong(Shown(r), Conclusions(m, view[r].checkpoint))'
    BY <2>2, <2>3
  <2>5. t \in 0..Len(events')
    BY <1>2, <2>2
  <2> QED
    BY <2>2, <2>4, <2>5 DEF StandsFor
<1> QED
  BY <1>5, <1>6, ReaderMoves

LEMMA StandsHolds == InsightSpec => [](InsightIInv /\ GateInv /\ StandsInv)
<1>1. InsightInit => GateInv
  <2> SUFFICES ASSUME InsightInit PROVE GateInv
    OBVIOUS
  <2>1. events \in Histories
    BY DEF InsightInit
  <2> QED
    BY <2>1, HistoryOrdered DEF GateInv
<1>2. InsightInit => StandsInv
  <2> SUFFICES ASSUME InsightInit, NEW r \in Readers PROVE StandsFor(r)
    BY DEF StandsInv
  <2>1. Len(events) \in Nat
    BY InitHolds, InParts DEF Parts, LogTypes
  <2>2. client[r].step = "idle" /\ Shown(r) = {}
    BY DEF InsightInit, Idle, NoView, Shown, Clients
  <2>3. \A S : AsStrong({}, S)
    BY DEF AsStrong
  <2> QED
    BY <2>1, <2>2, <2>3 DEF StandsFor
<1>3. InsightIInv /\ GateInv /\ StandsInv /\ [InsightNext]_insightVars
        => InsightIInv' /\ GateInv' /\ StandsInv'
  BY InsightStep, GateStep, StandsStep
<1> QED
  BY <1>1, <1>2, <1>3, InitHolds, PTL DEF InsightSpec

\* failureIntelligence(), shown to any reader again: as long as it is about the same
\* checkpoint, no conclusion about the Context, the workspace, a tool or a permission is
\* taken back or weakened by what was recorded meanwhile, however the reads fall.
THEOREM ConclusionsAreKept == InsightSpec => ConclusionsStand
<1>1. ASSUME InsightIInv, StandsInv, [InsightNext]_insightVars, NEW r \in Readers,
             view'[r].checkpoint = view[r].checkpoint
      PROVE  AsStrong(Shown(r), Shown(r)')
  <2>1. CASE Reads(r)
    BY <2>1, AsStrongItself DEF Reads, Shown
  <2>2. CASE IsShown(r)
    <3>1. PICK n \in 0..Len(events) :
            /\ client[r].step # "idle" => n <= client[r].through
            /\ \A m \in n..Len(events) : AsStrong(Shown(r), Conclusions(m, view[r].checkpoint))
      BY <1>1 DEF StandsInv, StandsFor
    <3>2. client[r].through \in 0..Len(events) /\ Len(events) \in Nat
      BY <1>1, InParts DEF Parts, ClientTypes, LogTypes, Clients
    <3>3. client[r].through \in n..Len(events)
      BY <2>2, <3>1, <3>2 DEF IsShown
    <3>4. Shown(r)' = Conclusions(client[r].through, view[r].checkpoint)
      BY <1>1, <2>2 DEF IsShown, Shown
    <3> QED
      BY <3>1, <3>3, <3>4
  <2> QED
    BY <1>1, <2>1, <2>2, ReaderMoves
<1>2. InsightIInv /\ StandsInv /\ [InsightNext]_insightVars =>
        [\A r \in Readers :
           view'[r].checkpoint = view[r].checkpoint =>
             \A c \in Shown(r) : c.id[1] \in Durable =>
               \E d \in Shown(r)' : d.id = c.id /\ Rank(c.status) <= Rank(d.status)]_insightVars
  BY <1>1 DEF AsStrong
<1> QED
  BY <1>2, StandsHolds, PTL DEF InsightSpec, ConclusionsStand
==============================================================================
