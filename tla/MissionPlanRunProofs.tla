------------------------ MODULE MissionPlanRunProofs ------------------------
(***************************************************************************)
(* Proofs about MissionPlanRun, for every request, every Plan that may be  *)
(* made of one, every edit and any number of revisions and runs: what      *)
(* counts for a revision stands under it, a receipt is for the newest, and *)
(* what the page sends is served.                                          *)
(***************************************************************************)
EXTENDS MissionPlanRun, FiniteSetTheorems, TLAPS

-----------------------------------------------------------------------------
(* The inductive invariant.                                                *)

\* The nodes with an artifact for a revision, and those with one at all.
CompleteAt(rev) == {a.node : a \in OfRevision(Passed(artifacts), rev)}
Recorded == {a.node : a \in artifacts}

\* A created Plan has one join, of two inputs or more.
PlanInv ==
  /\ \E j \in Nodes : Plan[j].kind = "join" /\ \A n \in Nodes : Plan[n].kind = "join" => n = j
  /\ \A e \in Edges : e[1] \in Nodes /\ e[2] \in Nodes /\ e[1] # e[2]
  /\ Cardinality(Inputs(Edges, Join)) >= 2
  /\ \A n \in Nodes : Plan[n].verified \in BOOLEAN /\ {"requirements", "scopes"} \subseteq DOMAIN Plan[n]

\* What a requirement says to a node that no revision between i and j touches.
Keeps(i, j, n) ==
  (\A k \in (i + 1)..j : n \notin revisions[k].invalid) =>
    \A r \in revisions[j].owns[n] : revisions[i].content[r] = revisions[j].content[r]

\* A requirement without a node is one that a revision has found so, or that the
\* first Plan left out and that says what it said.
LeftOut(r) ==
  \/ \E k \in 1..Latest : r \in revisions[k].unplanned
  \/ /\ r \notin Owned(revisions[1])
     /\ revisions[1].content[r] = revisions[Latest].content[r]

\* A revision invalidates whatever is downstream of what it invalidates, and finds
\* reusable only what counted for the revision before it.
RevisionInv ==
  /\ Latest >= 1
  /\ \E S : revisions \in Seq(S)
  /\ \A n \in Nodes : revisions[Latest].owns[n] \subseteq Present(revisions[Latest].content)
  /\ revisions[1].reusable = {}
  /\ \A k \in 2..Latest :
       /\ \A e \in Edges : e[1] \in revisions[k].invalid => e[2] \in revisions[k].invalid
       /\ \A a \in revisions[k].reusable :
            a \in OfRevision(Passed(artifacts), k - 1) /\ a.node \notin revisions[k].invalid
  /\ \A j \in 1..Latest, i \in 1..Latest, n \in Nodes : i <= j => Keeps(i, j, n)
  /\ \A r \in Present(revisions[Latest].content) \ Owned(revisions[Latest]) : LeftOut(r)

ArtifactInv ==
  /\ IsFiniteSet(artifacts)
  /\ artifacts \subseteq [node : Nodes, rev : Nat, origin : Nat, passed : BOOLEAN]
  /\ \A a \in artifacts : a.origin >= 1
  /\ ArtifactsAreUnaffected /\ BuildsOnOlder

\* Where an Attempt is on its way to an artifact.
Live == {"detecting", "settled", "receipt"} \cup Bound

\* A node is started when what it builds on counts for the revision of the view, the
\* join when every work node does.
RunInv ==
  /\ DOMAIN step = Nodes
  /\ run \in {"none", "loop", "round", "join"} /\ view \in 0..Latest
  /\ run = "none" => view = 0
  /\ run \in {"none", "loop"} => \A n \in Nodes : step[n] \notin Live
  /\ run \in {"round", "join"} => view >= 1
  /\ \A n \in Nodes : step[n] \in Live =>
       Inputs(Edges, n) \subseteq CompleteAt(view) /\ (n = Join <=> run = "join")
  /\ run = "join" => Work \subseteq CompleteAt(view)
  /\ step[Join] = "receipt" => Join \in Recorded
  /\ ReusableIsAdopted
  /\ receipt.rev # 0 => Nodes \subseteq Recorded

\* Until a Mission with a Plan is made nothing is run or recorded.
Unstarted == artifacts = {} /\ run = "none" /\ view = 0 /\ receipt.rev = 0

IInv ==
  /\ ~Planned => Unstarted
  /\ Planned => PlanInv /\ RevisionInv /\ ArtifactInv /\ RunInv

-----------------------------------------------------------------------------
(* What a step leaves alone.                                               *)

LEMMA JoinIs ==
  ASSUME PlanInv
  PROVE  /\ Join \in Nodes /\ Plan[Join].kind = "join"
         /\ \A n \in Nodes : Plan[n].kind = "join" => n = Join
         /\ Work = Nodes \ {Join}
         /\ Inputs(Edges, Join) \subseteq Work
<1>1. /\ Join \in Nodes /\ Plan[Join].kind = "join"
      /\ \A n \in Nodes : Plan[n].kind = "join" => n = Join
  BY DEF PlanInv, Join
<1>2. Work = Nodes \ {Join}
  BY <1>1 DEF Work
<1> QED BY <1>1, <1>2 DEF PlanInv, Inputs

LEMMA PlanKept ==
  ASSUME UNCHANGED mission
  PROVE  /\ Plan' = Plan /\ Nodes' = Nodes /\ Edges' = Edges /\ Work' = Work /\ Join' = Join
         /\ PlanInv => PlanInv'
<1>1. Plan' = Plan /\ Nodes' = Nodes /\ Edges' = Edges
  BY DEF Plan, Nodes, Edges
<1>2. Work' = Work
  BY <1>1 DEF Work
<1>3. Join' = Join
  BY <1>1 DEF Join
<1> QED BY <1>1, <1>2, <1>3 DEF PlanInv

\* What counts for a revision, or is recorded at all, still is when artifacts are added.
LEMMA Counted ==
  ASSUME artifacts \subseteq artifacts'
  PROVE  /\ \A rev : CompleteAt(rev) \subseteq {a.node : a \in OfRevision(Passed(artifacts'), rev)}
         /\ Recorded \subseteq Recorded'
  BY DEF CompleteAt, Recorded, OfRevision, Passed

LEMMA RevisionsKept ==
  ASSUME UNCHANGED <<mission, revisions>>, artifacts \subseteq artifacts', RevisionInv
  PROVE  RevisionInv' /\ Latest' = Latest
<1>1. Latest' = Latest
  BY DEF Latest
<1>2. /\ Nodes' = Nodes /\ Edges' = Edges
      /\ \A v : Owned(v)' = Owned(v)
  BY PlanKept DEF Owned
<1>3. \A k, a : a \in OfRevision(Passed(artifacts), k) => a \in OfRevision(Passed(artifacts'), k)
  BY DEF OfRevision, Passed
<1>4. \A r : LeftOut(r) => LeftOut(r)'
  BY <1>1, <1>2 DEF LeftOut
<1>5. \A i, j, n : Keeps(i, j, n) => Keeps(i, j, n)'
  BY DEF Keeps
<1> QED BY <1>1, <1>2, <1>3, <1>4, <1>5 DEF RevisionInv

LEMMA ArtifactsKept ==
  ASSUME UNCHANGED <<mission, revisions, artifacts>>, ArtifactInv
  PROVE  ArtifactInv'
<1>1. Nodes' = Nodes /\ Edges' = Edges /\ Latest' = Latest
  BY PlanKept DEF Latest
<1> QED BY <1>1 DEF ArtifactInv, ArtifactsAreUnaffected, BuildsOnOlder

\* The steps of a run that brings nothing under way that was not.
LEMMA RunGoesOn ==
  ASSUME UNCHANGED <<mission, revisions, run, view, receipt>>, artifacts \subseteq artifacts',
         RunInv, DOMAIN step' = Nodes,
         \A n \in Nodes : step'[n] \in Live => step[n] \in Live,
         step'[Join] = "receipt" => Join \in Recorded'
  PROVE  RunInv'
<1>1. Latest' = Latest
  BY DEF Latest
<1>2. Nodes' = Nodes /\ Edges' = Edges /\ Work' = Work /\ Join' = Join
  BY PlanKept
<1>3. CompleteAt(view) \subseteq CompleteAt(view)' /\ Recorded \subseteq Recorded'
  BY Counted DEF CompleteAt
<1>4. ReusableIsAdopted => ReusableIsAdopted'
  BY <1>1 DEF ReusableIsAdopted
<1> QED BY <1>1, <1>2, <1>3, <1>4 DEF RunInv

\* A run that goes back to its loop, or ends.
LEMMA RunLoops ==
  ASSUME UNCHANGED <<mission, revisions, artifacts, receipt, view>>, RunInv,
         run # "none", run' = "loop",
         DOMAIN step' = Nodes, \A n \in Nodes : step'[n] \notin Live, Join \in Nodes
  PROVE  RunInv'
<1>1. Latest' = Latest /\ Nodes' = Nodes /\ Edges' = Edges /\ Work' = Work /\ Join' = Join
  BY PlanKept DEF Latest
<1>2. Recorded' = Recorded
  BY DEF Recorded
<1>3. ReusableIsAdopted => ReusableIsAdopted'
  BY <1>1 DEF ReusableIsAdopted
<1>4. step'[Join] # "receipt"
  BY DEF Live
<1> QED BY <1>1, <1>2, <1>3, <1>4 DEF RunInv

LEMMA RunOver ==
  ASSUME UNCHANGED <<mission, revisions>>, artifacts \subseteq artifacts', RunInv, EndRun,
         Latest \in Nat, receipt' = receipt \/ Nodes \subseteq Recorded, Join \in Nodes
  PROVE  RunInv'
<1>1. Latest' = Latest /\ Nodes' = Nodes /\ Edges' = Edges /\ Work' = Work /\ Join' = Join
  BY PlanKept DEF Latest
<1>2. Recorded \subseteq Recorded'
  BY Counted
<1>3. /\ run' = "none" /\ view' = 0 /\ DOMAIN step' = Nodes
      /\ \A n \in Nodes : step'[n] = "none"
  BY DEF EndRun, RunInv
<1>4. "none" \notin Live /\ "none" # "receipt"
  BY DEF Live, Bound
<1>5. ReusableIsAdopted'
  BY <1>3 DEF ReusableIsAdopted
<1> QED BY <1>1, <1>2, <1>3, <1>4, <1>5 DEF RunInv

LEMMA LatestIsNat == ASSUME RevisionInv PROVE Latest \in Nat /\ Latest >= 1 /\ DOMAIN revisions = 1..Latest
  BY DEF RevisionInv, Latest

\* What the other lemmas give for a step that leaves the log's Plan, revisions and
\* artifacts alone.
LEMMA OnlyRun ==
  ASSUME IInv, Planned, UNCHANGED <<creation, mission, revisions, artifacts>>,
         RunInv'
  PROVE  IInv'
<1>1. PlanInv' /\ RevisionInv' /\ ArtifactInv'
  BY PlanKept, RevisionsKept, ArtifactsKept DEF IInv
<1> QED BY <1>1 DEF IInv, Planned

-----------------------------------------------------------------------------
(* The Attempts of the nodes.                                              *)

LEMMA GotoStep ==
  ASSUME IInv, Planned, NEW n \in Nodes, NEW s, Goto(n, s), step[n] \in Live,
         s \in Live \ {"receipt"}
  PROVE  IInv'
<1>1. PlanInv /\ RunInv
  BY DEF IInv
<1>2. /\ UNCHANGED <<creation, mission, revisions, artifacts, receipt, run, view>>
      /\ step' = [step EXCEPT ![n] = s]
  BY DEF Goto, log
<1>3. DOMAIN step = Nodes
  BY <1>1 DEF RunInv
<1>4. /\ DOMAIN step' = Nodes
      /\ \A m \in Nodes : step'[m] \in Live => step[m] \in Live
      /\ step'[Join] = "receipt" => step[Join] = "receipt"
  BY <1>2, <1>3
<1>5. RunInv'
  BY <1>1, <1>2, <1>4, RunGoesOn, Counted DEF RunInv
<1> QED BY <1>2, <1>5, OnlyRun

LEMMA FinishStep ==
  ASSUME IInv, Planned, NEW n \in Nodes, NEW outcome \in {"failed", "abandoned"},
         Finish(n, outcome), step[n] \in Live
  PROVE  IInv'
<1>1. PlanInv /\ RunInv /\ RevisionInv
  BY DEF IInv
<1>2. UNCHANGED <<creation, mission, revisions, artifacts, receipt>>
  BY DEF Finish
<1>3. DOMAIN step = Nodes /\ Join \in Nodes /\ Latest \in Nat
  BY <1>1, JoinIs, LatestIsNat DEF RunInv
<1>4. outcome \notin Live /\ outcome # "receipt" /\ "none" \notin Live
  BY DEF Live, Bound
<1>5. CASE n # Join
  <2>1. step' = [step EXCEPT ![n] = outcome] /\ UNCHANGED <<run, view>>
    BY <1>5 DEF Finish
  <2>2. /\ DOMAIN step' = Nodes
        /\ \A m \in Nodes : step'[m] \in Live => step[m] \in Live
        /\ step'[Join] = "receipt" => step[Join] = "receipt"
    BY <1>3, <1>4, <2>1
  <2>3. RunInv'
    BY <1>1, <1>2, <2>1, <2>2, RunGoesOn, Counted DEF RunInv
  <2> QED BY <1>2, <2>3, OnlyRun
<1>6. CASE n = Join /\ outcome = "abandoned"
  <2>1. run' = "loop" /\ step' = [step EXCEPT ![n] = "none"] /\ UNCHANGED view
    BY <1>6 DEF Finish
  <2>2. run = "join"
    BY <1>1, <1>6 DEF RunInv
  <2>3. \A m \in Nodes : step[m] \in Live => m = Join
    BY <1>1, <2>2 DEF RunInv
  <2>4. DOMAIN step' = Nodes /\ \A m \in Nodes : step'[m] \notin Live
    BY <1>3, <1>4, <1>6, <2>1, <2>3
  <2>5. RunInv'
    BY <1>1, <1>2, <1>3, <2>1, <2>2, <2>4, RunLoops
  <2> QED BY <1>2, <2>5, OnlyRun
<1>7. CASE n = Join /\ outcome = "failed"
  <2>1. EndRun
    BY <1>7 DEF Finish
  <2>2. RunInv'
    BY <1>1, <1>2, <1>3, <2>1, RunOver
  <2> QED BY <1>2, <2>2, OnlyRun
<1> QED BY <1>5, <1>6, <1>7

\* The end of a run that leaves its Attempts, however it ends.
LEMMA EndStep ==
  ASSUME IInv, Planned, EndRun, UNCHANGED <<creation, mission, revisions, artifacts>>,
         receipt' = receipt \/ Nodes \subseteq Recorded
  PROVE  IInv'
<1>1. PlanInv /\ RunInv /\ RevisionInv
  BY DEF IInv
<1>2. RunInv'
  BY <1>1, JoinIs, LatestIsNat, RunOver
<1> QED BY <1>2, OnlyRun

LEMMA AttemptStep ==
  ASSUME IInv, Planned,
         \/ \E n \in Nodes : Attempt(n)
         \/ BindJoin \/ StartJoinRuntime \/ FinishJoinRuntime \/ FinishJoinVerification
  PROVE  IInv'
<1>1. Join \in Nodes /\ Work \subseteq Nodes
  BY JoinIs DEF IInv, Work
<1>2. {"detecting", "integrating", "running", "verifying", "sealing", "settled"}
        \subseteq Live \ {"receipt"}
  BY DEF Live, Bound
<1>3. ASSUME NEW n \in Nodes, NEW s, After(n, s), step[n] \in Live, s \in Live \ {"receipt"}
      PROVE  IInv'
  BY <1>3, GotoStep, FinishStep DEF After
<1>4. ASSUME NEW n \in Nodes, BindNode(n) PROVE IInv'
  <2>1. step[n] \in Live
    BY <1>2, <1>4 DEF BindNode
  <2>2. CASE Finish(n, "failed")
    BY <2>1, <2>2, FinishStep
  <2>3. CASE Goto(n, "running")
    BY <1>2, <2>1, <2>3, GotoStep
  <2>4. CASE EndRun /\ UNCHANGED <<creation, mission, revisions, artifacts, receipt>>
    BY <2>4, EndStep
  <2> QED BY <1>4, <2>2, <2>3, <2>4 DEF BindNode, StartNode
<1>5. ASSUME NEW n \in Nodes, FinishRuntime(n) \/ FinishVerification(n) PROVE IInv'
  BY <1>2, <1>3, <1>5 DEF FinishRuntime, FinishVerification
<1>6. ASSUME NEW n \in Nodes, Seal(n) PROVE IInv'
  <2>1. step[n] \in Live
    BY <1>2, <1>6 DEF Seal
  <2>2. Finish(n, "abandoned") \/ Finish(n, "failed") \/ Goto(n, "settled")
    BY <1>6 DEF Seal
  <2> QED BY <1>2, <2>1, <2>2, FinishStep, GotoStep
<1>7. CASE BindJoin \/ StartJoinRuntime
  <2>1. step[Join] \in Live
    BY <1>2, <1>7 DEF BindJoin, StartJoinRuntime
  <2>2. \/ Finish(Join, "abandoned") \/ Finish(Join, "failed")
        \/ Goto(Join, "integrating") \/ Goto(Join, "running")
    BY <1>7 DEF BindJoin, StartJoin, StartJoinRuntime
  <2> QED BY <1>1, <1>2, <2>1, <2>2, FinishStep, GotoStep
<1>8. CASE FinishJoinRuntime \/ FinishJoinVerification
  BY <1>1, <1>2, <1>3, <1>8 DEF FinishJoinRuntime, FinishJoinVerification
<1> QED BY <1>4, <1>5, <1>6, <1>7, <1>8 DEF Attempt

-----------------------------------------------------------------------------
(* The rounds of a run, and what they record.                              *)

\* Adopted artifacts stand, with what they build on, and are all that is reusable.
LEMMA Adopting ==
  ASSUME RevisionInv, ArtifactInv, UNCHANGED <<mission, revisions>>,
         artifacts' = artifacts \cup Adopted
  PROVE  ArtifactInv' /\ \A a \in revisions[Latest].reusable : [a EXCEPT !.rev = Latest] \in artifacts'
<1>1. Latest' = Latest /\ Nodes' = Nodes /\ Edges' = Edges /\ Latest \in Nat /\ Latest >= 1
  BY PlanKept, LatestIsNat DEF Latest
<1> DEFINE From == {b \in OfRevision(Passed(artifacts), Latest - 1) :
                      b.node \notin revisions[Latest].invalid}
<1>2. /\ From \subseteq artifacts
      /\ \A b \in From : b.rev = Latest - 1 /\ b.passed /\ b.node \notin revisions[Latest].invalid
  BY DEF OfRevision, Passed
<1>3. Adopted = {[b EXCEPT !.rev = Latest] : b \in From}
  BY DEF Adopted
<1>4. IsFiniteSet(artifacts')
  <2>1. IsFiniteSet(From)
    BY <1>2, FS_Subset DEF ArtifactInv
  <2>2. [b \in From |-> [b EXCEPT !.rev = Latest]] \in Surjection(From, Adopted)
    BY <1>3 DEF Surjection
  <2>3. IsFiniteSet(Adopted)
    BY <2>1, <2>2, FS_Surjection
  <2> QED BY <2>3, FS_Union DEF ArtifactInv
<1>5. ASSUME NEW a \in Adopted
      PROVE  \E b \in From : /\ a = [b EXCEPT !.rev = Latest] /\ a.node = b.node /\ a.rev = Latest
                            /\ a.origin = b.origin /\ a.passed = TRUE
                            /\ a \in [node : Nodes, rev : Nat, origin : Nat, passed : BOOLEAN]
  <2>1. PICK b \in From : a = [b EXCEPT !.rev = Latest]
    BY <1>3
  <2>2. b \in [node : Nodes, rev : Nat, origin : Nat, passed : BOOLEAN] /\ b.passed = TRUE
    BY <1>2 DEF ArtifactInv
  <2> QED BY <1>1, <2>1, <2>2
<1>6. ASSUME NEW b \in From
      PROVE  \E a \in Adopted :
               a.node = b.node /\ a.rev = Latest /\ a.origin = b.origin /\ a.passed = TRUE
  <2>1. b \in [node : Nodes, rev : Nat, origin : Nat, passed : BOOLEAN] /\ b.passed = TRUE
    BY <1>2 DEF ArtifactInv
  <2>2. PICK a : a = [b EXCEPT !.rev = Latest]
    OBVIOUS
  <2>3. a.node = b.node /\ a.rev = Latest /\ a.origin = b.origin /\ a.passed = TRUE
    BY <1>1, <2>1, <2>2
  <2>4. a \in Adopted
    BY <1>3, <2>2
  <2> QED BY <2>3, <2>4
<1> HIDE DEF From
<1>7. /\ artifacts' \subseteq [node : Nodes, rev : Nat, origin : Nat, passed : BOOLEAN]
      /\ \A a \in artifacts' : a.origin >= 1
  BY <1>2, <1>5 DEF ArtifactInv
<1>8. ArtifactsAreUnaffected'
  <2> SUFFICES ASSUME NEW a \in artifacts'
               PROVE  /\ a.origin <= a.rev /\ a.rev <= Latest
                      /\ \A k \in (a.origin + 1)..a.rev : a.node \notin revisions[k].invalid
    BY <1>1 DEF ArtifactsAreUnaffected
  <2>1. CASE a \in artifacts
    BY <2>1 DEF ArtifactInv, ArtifactsAreUnaffected
  <2>2. CASE a \in Adopted
    <3>1. PICK b \in From : a.node = b.node /\ a.rev = Latest /\ a.origin = b.origin
      BY <1>5, <2>2
    <3>2. /\ b.rev = Latest - 1 /\ b.origin <= b.rev /\ b.origin \in Nat
          /\ \A k \in (b.origin + 1)..b.rev : b.node \notin revisions[k].invalid
          /\ b.node \notin revisions[Latest].invalid
      BY <1>2 DEF ArtifactInv, ArtifactsAreUnaffected
    <3> QED BY <1>1, <3>1, <3>2
  <2> QED BY <2>1, <2>2
<1>9. BuildsOnOlder'
  <2> SUFFICES ASSUME NEW a \in artifacts', NEW e \in Edges, e[2] = a.node
               PROVE  \E b \in Passed(artifacts') : b.node = e[1] /\ b.rev = a.rev /\ b.origin <= a.origin
    BY <1>1 DEF BuildsOnOlder
  <2>1. CASE a \in artifacts
    BY <2>1 DEF ArtifactInv, BuildsOnOlder, Passed
  <2>2. CASE a \in Adopted
    <3>1. PICK b \in From : a.node = b.node /\ a.rev = Latest /\ a.origin = b.origin
      BY <1>5, <2>2
    <3>2. b \in artifacts /\ b.rev = Latest - 1 /\ b.node \notin revisions[Latest].invalid
      BY <1>2
    <3>3. PICK c \in Passed(artifacts) : c.node = e[1] /\ c.rev = b.rev /\ c.origin <= b.origin
      BY <3>1, <3>2 DEF ArtifactInv, BuildsOnOlder
    <3>4. Latest \in 2..Latest
      <4>1. b.origin >= 1 /\ b.origin <= b.rev /\ b.origin \in Nat
        BY <3>2 DEF ArtifactInv, ArtifactsAreUnaffected
      <4> QED BY <1>1, <3>2, <4>1
    <3>5. e[1] \notin revisions[Latest].invalid
      BY <3>1, <3>2, <3>4 DEF RevisionInv
    <3>6. c \in From
      BY <3>2, <3>3, <3>5 DEF From, OfRevision, Passed, ArtifactInv
    <3>7. PICK d \in Adopted : d.node = c.node /\ d.rev = Latest /\ d.origin = c.origin /\ d.passed = TRUE
      BY <1>6, <3>6
    <3>8. d \in Passed(artifacts')
      BY <3>7 DEF Passed
    <3> QED BY <3>1, <3>3, <3>7, <3>8
  <2> QED BY <2>1, <2>2
<1>10. ASSUME NEW a \in revisions[Latest].reusable
       PROVE  [a EXCEPT !.rev = Latest] \in artifacts'
  <2>1. Latest \in 2..Latest
    BY <1>1 DEF RevisionInv
  <2>2. a \in From
    BY <2>1 DEF RevisionInv, From
  <2> QED BY <1>3, <2>2
<1> QED BY <1>1, <1>4, <1>7, <1>8, <1>9, <1>10 DEF ArtifactInv

LEMMA RoundStep ==
  ASSUME IInv, Planned, NextRound
  PROVE  IInv'
<1>1. PlanInv /\ RevisionInv /\ ArtifactInv /\ RunInv /\ Join \in Nodes /\ Latest \in Nat /\ Latest >= 1
  BY JoinIs, LatestIsNat DEF IInv
<1>2. UNCHANGED <<creation, mission, revisions, receipt>> /\ run = "loop"
  BY DEF NextRound
<1>3. /\ Nodes' = Nodes /\ Edges' = Edges /\ Work' = Work /\ Join' = Join /\ PlanInv'
      /\ Latest' = Latest
  BY <1>1, <1>2, PlanKept DEF Latest
<1>4. CASE Unplanned # {}
  BY <1>2, <1>4, EndStep DEF NextRound
<1>5. CASE Unplanned = {}
  <2>1. artifacts' = artifacts \cup Adopted
    BY <1>5 DEF NextRound
  <2>2. /\ ArtifactInv' /\ artifacts \subseteq artifacts'
        /\ \A a \in revisions[Latest].reusable : [a EXCEPT !.rev = Latest] \in artifacts'
    BY <1>1, <1>2, <2>1, Adopting
  <2>3. RevisionInv'
    BY <1>1, <1>2, <2>2, RevisionsKept
  <2>4. Recorded \subseteq Recorded'
    BY <2>2, Counted
  <2>5. ASSUME NEW S, NEW as \in {"round", "join"}, Dispatch(S, as),
               \A n \in S : Inputs(Edges, n) \subseteq Complete(artifacts') /\ (n = Join <=> as = "join"),
               as = "join" => Work \subseteq Complete(artifacts')
        PROVE  RunInv'
    <3>1. run' = as /\ view' = Latest /\ step' = [n \in Nodes |-> IF n \in S THEN "detecting" ELSE "none"]
      BY <2>5 DEF Dispatch
    <3>2. CompleteAt(view)' = Complete(artifacts')
      BY <3>1 DEF CompleteAt, Complete
    <3>3. "none" \notin Live /\ "none" # "receipt" /\ "detecting" # "receipt"
      BY DEF Live, Bound
    <3>4. ReusableIsAdopted'
      BY <1>2, <1>3, <2>2, <3>1 DEF ReusableIsAdopted
    <3>5. receipt.rev # 0 => Nodes \subseteq Recorded'
      BY <1>1, <2>4 DEF RunInv
    <3>6. /\ DOMAIN step' = Nodes /\ step'[Join] # "receipt"
          /\ \A n \in Nodes : step'[n] \in Live => n \in S
      BY <1>1, <3>1, <3>3
    <3>7. /\ \A n \in Nodes : step'[n] \in Live =>
                Inputs(Edges, n) \subseteq CompleteAt(view)' /\ (n = Join <=> run' = "join")
          /\ run' = "join" => Work \subseteq CompleteAt(view)'
      <4>1. PICK c : c = Complete(artifacts')
        OBVIOUS
      <4>2. /\ \A n \in S : Inputs(Edges, n) \subseteq c /\ (n = Join <=> as = "join")
            /\ as = "join" => Work \subseteq c
        BY <2>5, <4>1
      <4>3. CompleteAt(view)' = c /\ run' = as
        BY <3>1, <3>2, <4>1
      <4> QED BY <3>6, <4>2, <4>3
    <3>8. run' \in {"round", "join"} /\ view' \in 0..Latest /\ view' >= 1
      <4>1. Latest \in 0..Latest /\ Latest >= 1
        BY <1>1
      <4> QED BY <3>1, <4>1
    <3> QED BY <1>2, <1>3, <3>4, <3>5, <3>6, <3>7, <3>8 DEF RunInv
  <2>6. ASSUME Work \subseteq Complete(artifacts'), Dispatch({Join}, "join") PROVE RunInv'
    BY <1>1, <2>5, <2>6, JoinIs
  <2>7. ASSUME Dispatch(Ready(artifacts'), "round") PROVE RunInv'
    <3>1. \A n \in Ready(artifacts') : Inputs(Edges, n) \subseteq Complete(artifacts') /\ n # Join
      BY <1>1, JoinIs DEF Ready
    <3> QED BY <2>5, <2>7, <3>1
  <2>8. ASSUME RefuseJoin PROVE RunInv'
    BY <1>1, <1>2, <2>2, <2>8, RunOver DEF RefuseJoin
  <2>9. RunInv'
    BY <1>5, <2>1, <2>6, <2>7, <2>8 DEF NextRound
  <2> QED BY <1>2, <1>3, <2>2, <2>3, <2>9 DEF IInv, Planned
<1> QED BY <1>4, <1>5

LEMMA RoundEnds ==
  ASSUME IInv, Planned, EndRound
  PROVE  IInv'
<1>1. PlanInv /\ RevisionInv /\ RunInv /\ Join \in Nodes
  BY JoinIs DEF IInv
<1>2. UNCHANGED <<creation, mission, revisions, artifacts, receipt>> /\ run = "round"
  BY DEF EndRound, log
<1>3. CASE EndRun
  BY <1>2, <1>3, EndStep
<1>4. CASE run' = "loop" /\ step' = [n \in DOMAIN step |-> "none"] /\ UNCHANGED view
  <2>1. DOMAIN step' = Nodes /\ \A n \in Nodes : step'[n] \notin Live
    BY <1>1, <1>4 DEF RunInv, Live, Bound
  <2>2. RunInv'
    BY <1>1, <1>2, <1>4, <2>1, RunLoops
  <2> QED BY <1>2, <2>2, OnlyRun
<1> QED BY <1>3, <1>4 DEF EndRound

LEMMA RecordStep ==
  ASSUME IInv, Planned, NEW n \in Nodes, RecordArtifact(n)
  PROVE  IInv'
<1>1. /\ PlanInv /\ RevisionInv /\ ArtifactInv /\ RunInv /\ Join \in Nodes
      /\ Latest \in Nat /\ Latest >= 1
  BY JoinIs, LatestIsNat DEF IInv
<1>2. UNCHANGED <<creation, mission, revisions, receipt, run, view>> /\ step[n] = "settled"
  BY DEF RecordArtifact
<1>3. /\ Nodes' = Nodes /\ Edges' = Edges /\ Join' = Join /\ PlanInv' /\ Latest' = Latest
  BY <1>1, <1>2, PlanKept DEF Latest
<1>4. "settled" \in Live
  BY DEF Live
<1>5. view \in 1..Latest
  <2>1. run \notin {"none", "loop"}
    BY <1>1, <1>2, <1>4 DEF RunInv
  <2> QED BY <1>1, <2>1 DEF RunInv
<1>6. PICK x : x = [node |-> n, rev |-> view, origin |-> view, passed |-> Plan[n].verified]
  OBVIOUS
<1>7. artifacts' = artifacts \cup {x}
  BY <1>6 DEF RecordArtifact
<1>8. /\ x.node = n /\ x.rev = view /\ x.origin = view
      /\ x \in [node : Nodes, rev : Nat, origin : Nat, passed : BOOLEAN]
  <2>1. view \in Nat /\ Plan[n].verified \in BOOLEAN
    BY <1>1, <1>5 DEF PlanInv
  <2> QED BY <1>6, <2>1
<1>9. ArtifactInv'
  <2>1. IsFiniteSet(artifacts')
    BY <1>1, <1>7, FS_AddElement DEF ArtifactInv
  <2>2. ArtifactsAreUnaffected'
    <3>1. ASSUME NEW k \in (x.origin + 1)..x.rev PROVE FALSE
      BY <1>5, <1>8
    <3>2. x.origin <= x.rev /\ x.rev <= Latest
      BY <1>1, <1>5, <1>8
    <3> QED BY <1>1, <1>2, <1>3, <1>7, <3>1, <3>2 DEF ArtifactInv, ArtifactsAreUnaffected
  <2>3. BuildsOnOlder'
    <3>1. ASSUME NEW e \in Edges, e[2] = n
          PROVE  \E b \in Passed(artifacts) : b.node = e[1] /\ b.rev = view /\ b.origin <= view
      <4>1. e[1] \in CompleteAt(view)
        BY <1>1, <1>2, <1>4, <3>1 DEF RunInv, Inputs
      <4>2. PICK b \in Passed(artifacts) : b.node = e[1] /\ b.rev = view
        BY <4>1 DEF CompleteAt, OfRevision
      <4> QED BY <1>1, <4>2 DEF ArtifactInv, ArtifactsAreUnaffected, Passed
    <3>2. Passed(artifacts) \subseteq Passed(artifacts')
      BY <1>7 DEF Passed
    <3> QED BY <1>1, <1>3, <1>7, <1>8, <3>1, <3>2 DEF ArtifactInv, BuildsOnOlder
  <2>4. /\ artifacts' \subseteq [node : Nodes, rev : Nat, origin : Nat, passed : BOOLEAN]
        /\ \A a \in artifacts' : a.origin >= 1
    <3>1. x.origin >= 1
      BY <1>1, <1>5, <1>8
    <3> QED BY <1>1, <1>7, <1>8, <3>1 DEF ArtifactInv
  <2> QED BY <1>3, <2>1, <2>2, <2>3, <2>4 DEF ArtifactInv
<1>10. RevisionInv'
  BY <1>1, <1>2, <1>7, RevisionsKept
<1>11. RunInv'
  <2>1. step' = [step EXCEPT ![n] = IF n = Join THEN "receipt" ELSE "done"] /\ DOMAIN step = Nodes
    BY <1>1 DEF RecordArtifact, RunInv
  <2>2. /\ DOMAIN step' = Nodes
        /\ \A m \in Nodes : step'[m] \in Live => step[m] \in Live
        /\ step'[Join] = "receipt" => step[Join] = "receipt" \/ n = Join
    BY <1>1, <1>2, <1>4, <2>1
  <2>3. step'[Join] = "receipt" => Join \in Recorded'
    <3>1. n \in Recorded' /\ Recorded \subseteq Recorded'
      BY <1>7, <1>8 DEF Recorded
    <3> QED BY <1>1, <2>2, <3>1 DEF RunInv
  <2> QED BY <1>1, <1>2, <1>7, <2>2, <2>3, RunGoesOn
<1> QED BY <1>2, <1>3, <1>9, <1>10, <1>11 DEF IInv, Planned

LEMMA ReceiptStep ==
  ASSUME IInv, Planned, IssueReceipt
  PROVE  IInv'
<1>1. PlanInv /\ RunInv /\ Join \in Nodes /\ Work = Nodes \ {Join}
  BY JoinIs DEF IInv
<1>2. run = "join" /\ Join \in Recorded
  <2>1. step[Join] = "receipt" /\ "receipt" \in Live
    BY DEF IssueReceipt, Live
  <2> QED BY <1>1, <2>1 DEF RunInv
<1>3. Work \subseteq Recorded
  <2>1. Work \subseteq CompleteAt(view)
    BY <1>1, <1>2 DEF RunInv
  <2> QED BY <2>1 DEF CompleteAt, Recorded, OfRevision, Passed
<1>4. Nodes \subseteq Recorded
  BY <1>1, <1>2, <1>3
<1> QED BY <1>4, EndStep DEF IssueReceipt

LEMMA StartStep ==
  ASSUME IInv, StartRun
  PROVE  IInv'
<1>1. Planned /\ RunInv /\ run = "none" /\ run' = "loop" /\ UNCHANGED <<creation, mission, revisions, artifacts, receipt, view, step>>
  BY DEF StartRun, IInv, log
<1>2. Latest' = Latest /\ Nodes' = Nodes /\ Edges' = Edges /\ Work' = Work /\ Join' = Join
  BY <1>1, PlanKept DEF Latest
<1>3. view = 0 /\ Recorded' = Recorded
  BY <1>1 DEF RunInv, Recorded
<1>4. ReusableIsAdopted'
  BY <1>1, <1>3 DEF ReusableIsAdopted
<1>5. RunInv'
  BY <1>1, <1>2, <1>3, <1>4 DEF RunInv
<1> QED BY <1>1, <1>5, OnlyRun

-----------------------------------------------------------------------------
(* Revisions.                                                              *)

LEMMA DownstreamIsClosed ==
  ASSUME NEW nodes, NEW edges, NEW D \in SUBSET DOMAIN nodes
  PROVE  /\ D \subseteq Downstream(nodes, edges, D)
         /\ \A e \in edges : e[1] \in Downstream(nodes, edges, D) /\ e[2] \in DOMAIN nodes =>
              e[2] \in Downstream(nodes, edges, D)
<1>1. D \subseteq Downstream(nodes, edges, D)
  BY DEF Downstream
<1>2. ASSUME NEW e \in edges, e[1] \in Downstream(nodes, edges, D), e[2] \in DOMAIN nodes
      PROVE  e[2] \in Downstream(nodes, edges, D)
  BY <1>2 DEF Downstream
<1> QED BY <1>1, <1>2

\* What is not found invalid is of the revision, and verified.
LEMMA ValidIsCurrent ==
  ASSUME NEW nodes, NEW edges, NEW rev, NEW direct,
         NEW a \in artifacts \ InvalidArtifacts(nodes, edges, artifacts, rev, direct)
  PROVE  a \in OfRevision(Passed(artifacts), rev)
<1>1. ASSUME a \notin OfRevision(Passed(artifacts), rev)
      PROVE  a \in InvalidArtifacts(nodes, edges, artifacts, rev, direct)
  <2> DEFINE present == {b \in artifacts : b.rev = rev}
             spoilt  == {b \in present : ~b.passed \/ b.node \in direct}
                        \cup (artifacts \ present)
  <2>1. a \in spoilt
    BY <1>1 DEF OfRevision, Passed
  <2>2. \A S \in {S \in SUBSET present :
                  \A b \in present :
                    Sources(b, nodes, edges, artifacts) \cap (spoilt \cup S) # {} =>
                      b \in spoilt \cup S} : a \in spoilt \cup S
    BY <2>1
  <2> QED BY <2>2 DEF InvalidArtifacts
<1> QED BY <1>1

\* What a revision says, compared with the one before it.
Revises(u, v) ==
  /\ DOMAIN v.content = DOMAIN u.content
  /\ v.owns = [n \in Nodes |-> {r \in u.owns[n] : v.content[r] # Absent}]
  /\ \A e \in Edges : e[1] \in v.invalid => e[2] \in v.invalid
  /\ \A n \in Nodes \ v.invalid : \A r \in u.owns[n] \cap DOMAIN u.content : u.content[r] = v.content[r]
  /\ \A r \in DOMAIN u.content \ Owned(u) : u.content[r] = v.content[r] \/ r \in v.unplanned
  /\ \A a \in v.reusable : a \in OfRevision(Passed(artifacts), Latest) /\ a.node \notin v.invalid

LEMMA RevisionIs ==
  ASSUME PlanInv, ReviseMissionContract
  PROVE  \E v : revisions' = Append(revisions, v) /\ Revises(revisions[Latest], v)
<1> DEFINE u == revisions[Latest]
           before == NodesOf(u.owns)
<1>1. PICK edit \in Edits :
        LET content == Edited(u.content, edit)
            owns == [n \in Nodes |-> {r \in u.owns[n] : content[r] # Absent}]
            found == Invalidation(before, Edges, u.content, content, edit.scopes, artifacts, Latest)
        IN revisions' = Append(revisions, [content |-> content, owns |-> owns,
             invalid |-> found.nodes, unplanned |-> found.unplanned, reusable |-> found.reusable])
  BY DEF ReviseMissionContract
<1> DEFINE content == Edited(u.content, edit)
           changed == ChangedRequirements(u.content, content)
           direct == Direct(before, changed, edit.scopes)
           found == Invalidation(before, Edges, u.content, content, edit.scopes, artifacts, Latest)
           v == [content |-> content, owns |-> [n \in Nodes |-> {r \in u.owns[n] : content[r] # Absent}],
                 invalid |-> found.nodes, unplanned |-> found.unplanned, reusable |-> found.reusable]
<1>2. revisions' = Append(revisions, v)
  BY <1>1
<1>3. DOMAIN content = DOMAIN u.content
  BY DEF Edited
<1>4. DOMAIN before = Nodes /\ \A n \in Nodes : before[n].requirements = u.owns[n]
  BY DEF NodesOf, PlanInv
<1>5. /\ found.nodes = Downstream(before, Edges, direct)
      /\ found.unplanned = changed \ UNION {before[n].requirements : n \in DOMAIN before}
      /\ found.reusable = {a \in artifacts \ InvalidArtifacts(before, Edges, artifacts, Latest, direct) :
                             a.node \notin found.nodes}
  BY DEF Invalidation
<1>6. UNION {before[n].requirements : n \in DOMAIN before} = Owned(u)
  BY <1>4 DEF Owned
<1>7. direct \subseteq Nodes /\ \A n \in Nodes \ direct : u.owns[n] \cap changed = {}
  BY <1>4 DEF Direct
<1>8. changed = {r \in DOMAIN u.content : u.content[r] # content[r]}
  BY DEF ChangedRequirements
<1>9. direct \subseteq found.nodes /\ \A e \in Edges : e[1] \in found.nodes => e[2] \in found.nodes
  <2>1. direct \in SUBSET DOMAIN before /\ \A e \in Edges : e[2] \in DOMAIN before
    BY <1>4, <1>7 DEF PlanInv
  <2>2. direct \subseteq Downstream(before, Edges, direct)
    BY <2>1, DownstreamIsClosed
  <2>3. \A e \in Edges : e[1] \in Downstream(before, Edges, direct) /\ e[2] \in DOMAIN before =>
          e[2] \in Downstream(before, Edges, direct)
    BY <2>1, DownstreamIsClosed
  <2> QED BY <1>5, <2>1, <2>2, <2>3
<1>10. \A a \in found.reusable : a \in OfRevision(Passed(artifacts), Latest) /\ a.node \notin found.nodes
  BY <1>5, ValidIsCurrent
<1> HIDE DEF content, changed, direct, found, before, u
<1>11. Revises(u, v)
  BY <1>3, <1>5, <1>6, <1>7, <1>8, <1>9, <1>10 DEF Revises
<1> QED BY <1>2, <1>11 DEF u

LEMMA ReviseStep ==
  ASSUME IInv, ReviseMissionContract
  PROVE  IInv'
<1>1. UNCHANGED <<creation, mission, artifacts, receipt, run, view, step>>
  BY DEF ReviseMissionContract
<1>2. CASE ~Planned
  BY <1>1, <1>2 DEF IInv, Planned, Unstarted
<1>3. CASE Planned
  <2>1. PlanInv /\ RevisionInv /\ ArtifactInv /\ RunInv /\ Latest \in Nat /\ Latest >= 1
    BY <1>3, LatestIsNat DEF IInv
  <2>2. PICK v : revisions' = Append(revisions, v) /\ Revises(revisions[Latest], v)
    BY <2>1, RevisionIs
  <2>3. PICK u : u = revisions[Latest]
    OBVIOUS
  <2>4. /\ Nodes' = Nodes /\ Edges' = Edges /\ Work' = Work /\ Join' = Join /\ PlanInv'
        /\ \A w : Owned(w)' = Owned(w)
    BY <1>1, <2>1, PlanKept DEF Owned
  <2>5. PICK S : revisions \in Seq(S)
    BY <2>1 DEF RevisionInv
  <2>6. /\ Latest' = Latest + 1 /\ revisions'[Latest + 1] = v
        /\ \A k \in 1..Latest : revisions'[k] = revisions[k]
        /\ revisions' \in Seq(S \cup {v})
    <3>1. revisions \in Seq(S \cup {v}) /\ v \in S \cup {v}
      BY <2>5
    <3> HIDE DEF Revises
    <3> QED BY <2>2, <3>1 DEF Latest
  <2>7. v.owns = [n \in Nodes |-> {r \in u.owns[n] : v.content[r] # Absent}]
    BY <2>2, <2>3 DEF Revises
  <2>8. /\ DOMAIN v.content = DOMAIN u.content
        /\ \A n \in Nodes : u.owns[n] \subseteq Present(u.content)
        /\ \A n \in Nodes : u.owns[n] \subseteq DOMAIN u.content
    BY <2>1, <2>2, <2>3 DEF Revises, RevisionInv, Present
  <2>9. \A n \in Nodes : v.owns[n] \subseteq Present(v.content) /\ v.owns[n] \subseteq u.owns[n]
    BY <2>7, <2>8 DEF Present
  <2>10. \A n \in Nodes \ v.invalid : \A r \in u.owns[n] : u.content[r] = v.content[r]
    BY <2>2, <2>3, <2>8 DEF Revises
  <2>11. ASSUME NEW k \in 2..(Latest + 1)
         PROVE  /\ \A e \in Edges : e[1] \in revisions'[k].invalid => e[2] \in revisions'[k].invalid
                /\ \A a \in revisions'[k].reusable :
                     a \in OfRevision(Passed(artifacts), k - 1) /\ a.node \notin revisions'[k].invalid
    <3>1. CASE k = Latest + 1
      <4>1. k - 1 = Latest /\ revisions'[k] = v
        BY <2>1, <2>6, <3>1
      <4> QED BY <2>2, <4>1 DEF Revises
    <3>2. CASE k # Latest + 1
      <4>1. k \in 2..Latest /\ revisions'[k] = revisions[k]
        BY <2>1, <2>6, <3>2
      <4> QED BY <2>1, <4>1 DEF RevisionInv
    <3> QED BY <3>1, <3>2
  <2>12. ASSUME NEW j \in 1..(Latest + 1), NEW i \in 1..(Latest + 1), NEW n \in Nodes, i <= j
         PROVE  Keeps(i, j, n)'
    <3> SUFFICES ASSUME \A k \in (i + 1)..j : n \notin revisions'[k].invalid,
                        NEW r \in revisions'[j].owns[n]
                 PROVE  revisions'[i].content[r] = revisions'[j].content[r]
      BY DEF Keeps
    <3>1. CASE i = j
      BY <3>1
    <3>2. CASE j # Latest + 1
      <4>1. /\ i \in 1..Latest /\ j \in 1..Latest
            /\ \A k \in (i + 1)..j : k \in 1..Latest
        BY <2>1, <2>12, <3>2
      <4>2. \A k \in (i + 1)..j : n \notin revisions[k].invalid
        BY <2>6, <4>1
      <4>3. Keeps(i, j, n)
        BY <2>1, <2>12, <4>1 DEF RevisionInv
      <4> QED BY <2>6, <4>1, <4>2, <4>3 DEF Keeps
    <3>3. CASE i # j /\ j = Latest + 1
      <4>1. /\ i \in 1..Latest /\ Latest \in 1..Latest /\ i <= Latest /\ j \in (i + 1)..j
            /\ \A k \in (i + 1)..Latest : k \in (i + 1)..j /\ k \in 1..Latest
        BY <2>1, <2>12, <3>3
      <4>2. \A k \in (i + 1)..Latest : n \notin revisions[k].invalid
        BY <2>6, <4>1
      <4>3. Keeps(i, Latest, n)
        BY <2>1, <4>1 DEF RevisionInv
      <4>4. n \notin v.invalid /\ r \in v.owns[n]
        BY <2>6, <3>3, <4>1
      <4>5. r \in u.owns[n] /\ u.content[r] = v.content[r]
        BY <2>9, <2>10, <4>4
      <4>6. revisions[i].content[r] = u.content[r]
        BY <2>3, <4>2, <4>3, <4>5 DEF Keeps
      <4> QED BY <2>6, <3>3, <4>1, <4>5, <4>6
    <3> QED BY <3>1, <3>2, <3>3
  <2>13. ASSUME NEW r \in Present(v.content) \ Owned(v)
         PROVE  LeftOut(r)'
    <3>1. r \in DOMAIN u.content /\ v.content[r] # Absent
      BY <2>8, <2>13 DEF Present
    <3>2. r \notin Owned(u)
      BY <2>7, <2>13, <3>1 DEF Owned
    <3>3. CASE r \in v.unplanned
      BY <2>1, <2>6, <3>3 DEF LeftOut
    <3>4. CASE u.content[r] = v.content[r]
      <4>1. LeftOut(r)
        BY <2>1, <2>3, <3>1, <3>2, <3>4 DEF RevisionInv, Present
      <4>2. CASE \E k \in 1..Latest : r \in revisions[k].unplanned
        BY <2>1, <2>6, <4>2 DEF LeftOut
      <4>3. CASE r \notin Owned(revisions[1]) /\ revisions[1].content[r] = revisions[Latest].content[r]
        <5>1. revisions'[1] = revisions[1]
          BY <2>1, <2>6
        <5> QED BY <2>3, <2>4, <2>6, <3>4, <4>3, <5>1 DEF LeftOut
      <4> QED BY <4>1, <4>2, <4>3 DEF LeftOut
    <3> QED BY <2>2, <2>3, <3>1, <3>2, <3>3, <3>4 DEF Revises
  <2>14. RevisionInv'
    <3>1. revisions'[1].reusable = {}
      BY <2>1, <2>6 DEF RevisionInv
    <3>2. Latest' >= 1 /\ \E T : revisions' \in Seq(T)
      BY <2>1, <2>6
    <3> QED BY <1>1, <2>4, <2>6, <2>9, <2>11, <2>12, <2>13, <3>1, <3>2 DEF RevisionInv
  <2>15. ArtifactInv'
    <3>1. ASSUME NEW a \in artifacts
          PROVE  /\ a.origin <= a.rev /\ a.rev <= Latest'
                 /\ \A k \in (a.origin + 1)..a.rev : a.node \notin revisions'[k].invalid
      <4>1. /\ a.origin <= a.rev /\ a.rev <= Latest /\ a.origin \in Nat /\ a.rev \in Nat
            /\ \A k \in (a.origin + 1)..a.rev : a.node \notin revisions[k].invalid
        BY <2>1 DEF ArtifactInv, ArtifactsAreUnaffected
      <4>2. \A k \in (a.origin + 1)..a.rev : k \in 1..Latest
        BY <2>1, <4>1
      <4> QED BY <2>1, <2>6, <4>1, <4>2
    <3> QED BY <1>1, <2>1, <2>4, <3>1 DEF ArtifactInv, ArtifactsAreUnaffected, BuildsOnOlder
  <2>16. RunInv'
    <3>1. view \in 0..Latest' /\ view # Latest'
      BY <2>1, <2>6 DEF RunInv
    <3>2. ReusableIsAdopted' /\ Recorded' = Recorded /\ CompleteAt(view)' = CompleteAt(view)
      BY <1>1, <3>1 DEF ReusableIsAdopted, Recorded, CompleteAt
    <3> QED BY <1>1, <2>1, <2>4, <3>1, <3>2 DEF RunInv
  <2> QED BY <1>1, <1>3, <2>4, <2>14, <2>15, <2>16 DEF IInv, Planned
<1> QED BY <1>2, <1>3

-----------------------------------------------------------------------------
(* The creation of the Mission.                                            *)

\* What an accepted Plan is: one join, of two inputs or more.
LEMMA PlanIsMade ==
  ASSUME NEW i \in DOMAIN Requests, NEW ready, Answer(Requests[i], ready) = 201,
         NEW spec, spec = Resolved(Document(Requests[i])),
         mission' = [nodes |-> FirstNodes(spec), edges |-> FirstEdges(spec)]
  PROVE  PlanInv' /\ NodesStand(FirstNodes(spec), FirstContract(spec))
<1> DEFINE q == Requests[i]
<1>1. q.plan # None /\ Creates(spec) /\ SpecStands(spec)
  BY DEF Answer, Loads
<1>2. spec.plan = q.plan
  BY DEF Resolved, Document
<1>3. PICK list : list = spec.plan.nodes
  OBVIOUS
<1>4. list \in Seq(Range(list))
  BY <1>1, <1>2, <1>3, PlanAssumption
<1>5. /\ PlanStands(FirstNodes(spec), FirstEdges(spec), FirstContract(spec))
      /\ TerminalJoin(spec) /\ IsInjective(Column(list, "id"))
  BY <1>1, <1>2, <1>3 DEF Creates, SpecStands, GraphStands
<1>6. PICK nodes : nodes = FirstNodes(spec)
  OBVIOUS
<1>7. PICK edges : edges = FirstEdges(spec)
  OBVIOUS
<1> DEFINE Of(id) == CHOOSE n \in Range(list) : n.id = id
           Made(n, id) == [kind |-> n.kind, requirements |-> Range(n.requirements),
                           scopes |-> Range(n.scopes), writes |-> {id},
                           verified |-> n.kind = "join" \/ n.criteria # <<>>]
<1>8. nodes = [id \in Range(Column(list, "id")) |-> Made(Of(id), id)]
  BY <1>1, <1>2, <1>3, <1>6 DEF FirstNodes
<1>9. Range(Column(list, "id")) = {n.id : n \in Range(list)}
  BY DEF Range, Column
<1>10. \A n, m \in Range(list) : n.id = m.id => n = m
  BY <1>5 DEF IsInjective, Range, Column
<1>11. ASSUME NEW n \in Range(list)
       PROVE  /\ n.id \in DOMAIN nodes /\ nodes[n.id].kind = n.kind
              /\ nodes[n.id].verified \in BOOLEAN /\ {"requirements", "scopes"} \subseteq DOMAIN nodes[n.id]
  <2>1. Of(n.id) = n
    BY <1>10
  <2>2. n.id \in Range(Column(list, "id"))
    BY <1>9
  <2>3. nodes[n.id] = Made(n, n.id)
    <3> HIDE DEF Of, Made
    <3> QED BY <1>8, <2>1, <2>2
  <2>4. n.id \in DOMAIN nodes
    <3> HIDE DEF Of, Made
    <3> QED BY <1>8, <2>2
  <2>5. (n.kind = "join" \/ n.criteria # <<>>) \in BOOLEAN
    OBVIOUS
  <2>6. Made(n, n.id).kind = n.kind /\ {"requirements", "scopes"} \subseteq DOMAIN Made(n, n.id)
    OBVIOUS
  <2>7. Made(n, n.id).verified \in BOOLEAN
    BY <2>5
  <2> HIDE DEF Of, Made
  <2> QED BY <2>3, <2>4, <2>6, <2>7
<1>12. ASSUME NEW id \in DOMAIN nodes PROVE \E n \in Range(list) : n.id = id
  <2>1. DOMAIN nodes = Range(Column(list, "id"))
    <3> HIDE DEF Of, Made
    <3> QED BY <1>8
  <2> QED BY <1>9, <2>1
<1> HIDE DEF Of, Made
<1>13. \E j \in DOMAIN nodes : nodes[j].kind = "join" /\ \A n \in DOMAIN nodes : nodes[n].kind = "join" => n = j
  <2> DEFINE joins == {n.id : n \in {x \in Range(list) : x.kind = "join"}}
  <2>1. Cardinality(joins) = 1
    BY <1>1, <1>2, <1>3, <1>5 DEF TerminalJoin
  <2>2. IsFiniteSet(joins)
    <3>1. IsFiniteSet(DOMAIN list)
      BY <1>4, FS_Interval
    <3>2. [k \in DOMAIN list |-> list[k].id] \in Surjection(DOMAIN list, DOMAIN nodes)
      <4>1. ASSUME NEW k \in DOMAIN list PROVE list[k].id \in DOMAIN nodes
        BY <1>11 DEF Range
      <4>2. ASSUME NEW id \in DOMAIN nodes PROVE \E k \in DOMAIN list : list[k].id = id
        BY <1>12 DEF Range
      <4> QED BY <4>1, <4>2 DEF Surjection
    <3>3. IsFiniteSet(DOMAIN nodes)
      BY <3>1, <3>2, FS_Surjection
    <3>4. joins \subseteq DOMAIN nodes
      <4>1. ASSUME NEW j \in joins PROVE j \in DOMAIN nodes
        <5>1. PICK m \in Range(list) : m.id = j
          BY <4>1
        <5>2. m.id \in DOMAIN nodes
          BY <1>11
        <5> QED BY <5>1, <5>2
      <4> QED BY <4>1
    <3> QED BY <3>3, <3>4, FS_Subset
  <2>3. PICK j : joins = {j}
    BY <2>1, <2>2, FS_Singleton
  <2>4. j \in DOMAIN nodes /\ nodes[j].kind = "join"
    <3>1. PICK m \in Range(list) : m.kind = "join" /\ m.id = j
      BY <2>3
    <3>2. m.id \in DOMAIN nodes /\ nodes[m.id].kind = m.kind
      BY <1>11
    <3> QED BY <3>1, <3>2
  <2>5. ASSUME NEW n \in DOMAIN nodes, nodes[n].kind = "join" PROVE n \in joins
    <3>1. PICK m \in Range(list) : m.id = n
      BY <1>12
    <3>2. nodes[m.id].kind = m.kind
      BY <1>11
    <3> QED BY <2>5, <3>1, <3>2
  <2> QED BY <2>3, <2>4, <2>5
<1>14. /\ \A e \in edges : e[1] \in DOMAIN nodes /\ e[2] \in DOMAIN nodes /\ e[1] # e[2]
       /\ \A n \in DOMAIN nodes : nodes[n].kind = "join" => Cardinality(Inputs(edges, n)) >= 2
       /\ NodesStand(nodes, FirstContract(spec))
  BY <1>5, <1>6, <1>7 DEF PlanStands, EdgesStand, ShapesStand
<1>15. ASSUME NEW n \in DOMAIN nodes
       PROVE  nodes[n].verified \in BOOLEAN /\ {"requirements", "scopes"} \subseteq DOMAIN nodes[n]
  <2>1. PICK m \in Range(list) : m.id = n
    BY <1>12
  <2>2. nodes[m.id].verified \in BOOLEAN /\ {"requirements", "scopes"} \subseteq DOMAIN nodes[m.id]
    BY <1>11
  <2> QED BY <2>1, <2>2
<1>16. Plan' = nodes /\ Nodes' = DOMAIN nodes /\ Edges' = edges
  BY <1>6, <1>7 DEF Plan, Nodes, Edges
<1>17. Join' \in DOMAIN nodes /\ nodes[Join'].kind = "join"
  <2>1. Join' = CHOOSE n \in DOMAIN nodes : nodes[n].kind = "join"
    BY <1>16 DEF Join
  <2> QED BY <1>13, <2>1
<1>18. Cardinality(Inputs(edges, Join')) >= 2
  BY <1>14, <1>17
<1>19. PlanInv'
  <2>1. Inputs(Edges, Join)' = Inputs(edges, Join')
    BY <1>16 DEF Inputs
  <2>2. \E j \in Nodes' : Plan'[j].kind = "join" /\ \A n \in Nodes' : Plan'[n].kind = "join" => n = j
    BY <1>13, <1>16
  <2>3. \A e \in Edges' : e[1] \in Nodes' /\ e[2] \in Nodes' /\ e[1] # e[2]
    BY <1>14, <1>16
  <2>4. ASSUME NEW n \in Nodes'
        PROVE  Plan'[n].verified \in BOOLEAN /\ {"requirements", "scopes"} \subseteq DOMAIN Plan'[n]
    <3>1. n \in DOMAIN nodes /\ Plan'[n] = nodes[n]
      BY <1>16
    <3>2. nodes[n].verified \in BOOLEAN /\ {"requirements", "scopes"} \subseteq DOMAIN nodes[n]
      BY <1>15, <3>1
    <3> QED BY <3>1, <3>2
  <2> QED BY <1>18, <2>1, <2>2, <2>3, <2>4 DEF PlanInv
<1> QED BY <1>6, <1>14, <1>19

LEMMA CreateStep ==
  ASSUME IInv, CreateMission
  PROVE  IInv'
<1>1. Unstarted /\ UNCHANGED <<artifacts, receipt, run, view>>
  BY DEF CreateMission, IInv, Exists, Created, Planned
<1>2. Unstarted'
  BY <1>1 DEF Unstarted
<1>3. CASE ~Planned'
  BY <1>2, <1>3 DEF IInv
<1>4. CASE Planned'
  <2>1. PICK i \in DOMAIN Requests, ready \in Runtimes :
          LET status == Answer(Requests[i], ready)
              spec   == Resolved(Document(Requests[i]))
              nodes  == FirstNodes(spec)
          IN /\ creation' = [request |-> i, status |-> status]
             /\ status \in Created =>
                  /\ mission' = [nodes |-> nodes, edges |-> FirstEdges(spec)]
                  /\ revisions' = <<[content |-> Contract(spec),
                                     owns |-> [n \in DOMAIN nodes |-> nodes[n].requirements],
                                     invalid |-> {}, unplanned |-> {}, reusable |-> {}]>>
                  /\ step' = [n \in DOMAIN nodes |-> "none"]
    BY DEF CreateMission
  <2>2. PICK spec : spec = Resolved(Document(Requests[i]))
    OBVIOUS
  <2>3. PICK nodes : nodes = FirstNodes(spec)
    OBVIOUS
  <2>4. Answer(Requests[i], ready) = 201 /\ Answer(Requests[i], ready) \in Created
    BY <1>4, <2>1 DEF Planned, Created
  <2>5. PICK v : v = [content |-> Contract(spec),
                      owns |-> [n \in DOMAIN nodes |-> nodes[n].requirements],
                      invalid |-> {}, unplanned |-> {}, reusable |-> {}]
    OBVIOUS
  <2>6. /\ mission' = [nodes |-> nodes, edges |-> FirstEdges(spec)]
        /\ revisions' = <<v>>
        /\ step' = [n \in DOMAIN nodes |-> "none"]
    BY <2>1, <2>2, <2>3, <2>4, <2>5
  <2>7. PlanInv' /\ NodesStand(nodes, FirstContract(spec))
    BY <2>2, <2>3, <2>4, <2>6, PlanIsMade
  <2>8. Nodes' = DOMAIN nodes /\ Plan' = nodes
    BY <2>6 DEF Nodes, Plan
  <2>9. /\ Latest' = 1 /\ revisions'[1] = v /\ revisions' \in Seq({v})
        /\ \A k \in 1..1 : k = 1
    BY <2>6 DEF Latest
  <2>10. /\ v.content = Contract(spec) /\ v.invalid = {} /\ v.unplanned = {} /\ v.reusable = {}
         /\ \A n \in DOMAIN nodes : v.owns[n] = nodes[n].requirements
    BY <2>5
  <2>11. \A n \in DOMAIN nodes : v.owns[n] \subseteq Present(v.content)
    <3>1. \A r \in Present(FirstContract(spec)) : r \in Present(Contract(spec))
      BY DEF Present, Contract, FirstContract
    <3> QED BY <2>7, <2>10, <3>1 DEF NodesStand
  <2>12. \A j \in 1..1, k \in 1..1, n \in DOMAIN nodes : Keeps(k, j, n)'
    BY <2>9 DEF Keeps
  <2>13. \A r \in Present(v.content) \ Owned(v)' : LeftOut(r)'
    BY <2>9 DEF LeftOut
  <2>14. RevisionInv'
    <3>1. \A k \in 2..Latest' : FALSE
      BY <2>9
    <3>2. Latest' >= 1 /\ \E S : revisions' \in Seq(S)
      BY <2>9
    <3>3. /\ \A n \in Nodes' : revisions'[Latest'].owns[n] \subseteq Present(revisions'[Latest'].content)
          /\ revisions'[1].reusable = {}
      BY <2>8, <2>9, <2>10, <2>11
    <3>4. \A r \in Present(revisions'[Latest'].content) \ Owned(revisions[Latest])' : LeftOut(r)'
      BY <2>9, <2>13
    <3>5. \A j \in 1..Latest', k \in 1..Latest', n \in Nodes' : k <= j => Keeps(k, j, n)'
      BY <2>8, <2>9, <2>12
    <3> QED BY <3>1, <3>2, <3>3, <3>4, <3>5 DEF RevisionInv
  <2>15. ArtifactInv'
    <3>1. artifacts' = {}
      BY <1>2 DEF Unstarted
    <3> QED BY <3>1, FS_EmptySet DEF ArtifactInv, ArtifactsAreUnaffected, BuildsOnOlder
  <2>16. RunInv'
    <3>1. run' = "none" /\ view' = 0 /\ receipt'.rev = 0
      BY <1>2 DEF Unstarted
    <3>2. /\ DOMAIN step' = Nodes' /\ \A n \in Nodes' : step'[n] = "none"
          /\ Join' \in Nodes' /\ view' \in 0..Latest'
      <4>1. Join' \in Nodes'
        BY <2>7 DEF PlanInv, Join
      <4> QED BY <2>6, <2>8, <2>9, <3>1, <4>1
    <3>3. "none" \notin Live /\ "none" # "receipt"
      BY DEF Live, Bound
    <3>4. ReusableIsAdopted'
      BY <3>1 DEF ReusableIsAdopted
    <3> QED BY <3>1, <3>2, <3>3, <3>4 DEF RunInv
  <2> QED BY <1>4, <2>7, <2>14, <2>15, <2>16 DEF IInv
<1> QED BY <1>3, <1>4

-----------------------------------------------------------------------------
(* Every step.                                                             *)

LEMMA RunIsPlanned ==
  ASSUME IInv, run # "none"
  PROVE  Planned
BY DEF IInv, Unstarted

LEMMA NextStep ==
  ASSUME IInv, [Next]_vars
  PROVE  IInv'
<1>1. CASE CreateMission
  BY <1>1, CreateStep
<1>2. CASE StartRun
  BY <1>2, StartStep
<1>3. CASE Advance
  <2>1. Planned
    BY <1>3, RunIsPlanned DEF Advance
  <2>2. CASE NextRound \/ EndRound
    BY <2>1, <2>2, RoundStep, RoundEnds
  <2>3. CASE \/ \E n \in Nodes : Attempt(n)
             \/ BindJoin \/ StartJoinRuntime \/ FinishJoinRuntime \/ FinishJoinVerification
    BY <2>1, <2>3, AttemptStep
  <2>4. CASE \E n \in Nodes : RecordArtifact(n)
    BY <2>1, <2>4, RecordStep
  <2>5. CASE IssueReceipt
    BY <2>1, <2>5, ReceiptStep
  <2> QED BY <1>3, <2>2, <2>3, <2>4, <2>5 DEF Advance
<1>4. CASE LoseRun
  <2>1. Planned
    BY <1>4, RunIsPlanned DEF LoseRun
  <2> QED BY <1>4, <2>1, EndStep DEF LoseRun
<1>5. CASE ReviseMissionContract
  BY <1>5, ReviseStep
<1>6. CASE UNCHANGED vars
  <2>1. UNCHANGED <<creation, mission, revisions, artifacts, receipt, run, view, step>>
    BY <1>6 DEF vars, log
  <2>2. CASE ~Planned
    BY <2>1, <2>2 DEF IInv, Planned, Unstarted
  <2>3. CASE Planned
    <3>1. RunInv
      BY <2>3 DEF IInv
    <3>2. DOMAIN step' = Nodes /\ (step'[Join] = "receipt" => Join \in Recorded')
      BY <2>1, <3>1 DEF RunInv, Recorded
    <3>3. RunInv'
      BY <2>1, <3>1, <3>2, RunGoesOn
    <3> QED BY <2>1, <2>3, <3>3, OnlyRun
  <2> QED BY <2>2, <2>3
<1> QED BY <1>1, <1>2, <1>3, <1>4, <1>5, <1>6 DEF Next

\* The invariant of every behaviour.
THEOREM PlanRunInvariant == Spec => []IInv
<1>1. Init => IInv
  BY DEF Init, IInv, Planned, Unstarted
<1>2. IInv /\ [Next]_vars => IInv'
  BY NextStep
<1> QED BY <1>1, <1>2, PTL DEF Spec

-----------------------------------------------------------------------------
(* What counts.                                                            *)

LEMMA JoinFed ==
  ASSUME PlanInv, ArtifactInv, RunInv, run = "join"
  PROVE  SourcesStand(Plan, JoinSources, view) /\ JoinBlocker = "none"
<1>1. Join \in Nodes /\ Inputs(Edges, Join) \subseteq CompleteAt(view)
  BY JoinIs DEF RunInv
<1>2. PICK sources : sources = JoinSources
  OBVIOUS
<1>3. PICK inputs : inputs = Inputs(Edges, Join)
  OBVIOUS
<1>4. sources = {a \in artifacts : a.passed /\ a.rev = view /\ a.node \in inputs}
  BY <1>2, <1>3 DEF JoinSources, OfRevision, Passed
<1>5. sources = Passed(sources) /\ SourcesStand(Plan, sources, view)
  BY <1>4 DEF Passed, SourcesStand, ArtifactInv, Nodes
<1>6. inputs \subseteq {a.node : a \in sources}
  BY <1>1, <1>3, <1>4 DEF CompleteAt, OfRevision, Passed
<1>7. IsFiniteSet(sources)
  BY <1>4, FS_Subset DEF ArtifactInv
<1>8. [a \in sources |-> a.node] \in Surjection(sources, inputs)
  BY <1>4, <1>6 DEF Surjection
<1>9. IsFiniteSet(inputs) /\ Cardinality(inputs) <= Cardinality(sources)
  BY <1>7, <1>8, FS_Surjection
<1>10. Cardinality(inputs) \in Nat /\ Cardinality(sources) \in Nat /\ Cardinality(inputs) >= 2
  BY <1>3, <1>7, <1>9, FS_CardinalityType DEF PlanInv
<1>11. ~(Cardinality(sources) < 2)
  BY <1>9, <1>10
<1>12. NodesOf(revisions[view].owns)[Join].scopes = Plan[Join].scopes
  <2>1. "scopes" \in DOMAIN Plan[Join]
    BY <1>1 DEF PlanInv
  <2> QED BY <1>1, <2>1 DEF NodesOf
<1>13. ConsolidationBlocker(NodesOf(revisions[view].owns), Edges, Join, sources, {}, Plan[Join].scopes) = "none"
  BY <1>3, <1>5, <1>6, <1>11, <1>12 DEF ConsolidationBlocker
<1> QED BY <1>2, <1>5, <1>13 DEF JoinBlocker

LEMMA Shown ==
  ASSUME PlanInv, RunInv
  PROVE  ShownIsTrue
<1>1. Work = Nodes \ {Join}
  BY JoinIs
<1>2. ASSUME NEW n \in Nodes, run = "none", NodeStatus(n) = "ready"
      PROVE  LET current == artifacts \cup Adopted
             IN \/ n \in Complete(current) \cup Ready(current)
                \/ n = Join /\ Inputs(Edges, Join) \subseteq Complete(artifacts)
  <2>1. OwnStatus(n) \in {"running", "succeeded", "failed", "unknown", "none"}
    BY DEF OwnStatus
  <2>2. OwnStatus(n) = "none"
    BY <1>2, <2>1 DEF NodeStatus
  <2>3. \A p \in Inputs(Edges, n) : OwnStatus(p) = "succeeded"
    BY <1>2, <2>2 DEF NodeStatus
  <2>4. n \notin Complete(artifacts) \cup Certified
    BY <2>2 DEF OwnStatus
  <2>5. Certified = {}
    BY <2>4 DEF Certified, RunInv, Recorded
  <2>6. \A p \in Inputs(Edges, n) : p \in Complete(artifacts)
    <3>1. ASSUME NEW p, OwnStatus(p) = "succeeded" PROVE p \in Complete(artifacts) \cup Certified
      BY <3>1 DEF OwnStatus
    <3> QED BY <2>3, <2>5, <3>1
  <2>7. \A S : Complete(artifacts) \subseteq Complete(artifacts \cup S)
    BY DEF Complete, OfRevision, Passed
  <2> QED BY <1>1, <2>6, <2>7 DEF Ready
<1>3. ASSUME NEW n \in Nodes, n \in Complete(artifacts)
      PROVE  NodeStatus(n) \in {"succeeded", "running"}
  <2>1. OwnStatus(n) \in {"succeeded", "running"}
    BY <1>3 DEF OwnStatus
  <2> QED BY <2>1 DEF NodeStatus
<1> QED BY <1>2, <1>3 DEF ShownIsTrue

\* What counts for a revision was made under requirements, and on artifacts, that no
\* revision since has touched; what a revision lets stand is kept, what is shown as
\* ready is started, and a join that is started is fed, however revisions, rounds,
\* late recordings and ends of runs are interleaved (mission-plan.ts,
\* analyzeSelectiveInvalidation; engine.ts, executeMissionPlan).
THEOREM ArtifactsStand == Spec => []ArtifactsHold
<1>1. IInv => ArtifactsHold
  BY JoinFed, Shown DEF IInv, ArtifactsHold, ArtifactInv, RunInv, JoinIsFed
<1> QED BY <1>1, PlanRunInvariant, PTL

-----------------------------------------------------------------------------
(* The receipt.                                                            *)

LEMMA OnlyReceiptIssues ==
  ASSUME [Next]_vars, receipt' # receipt
  PROVE  Advance /\ IssueReceipt
<1>1. ASSUME NEW n, NEW s, Goto(n, s) \/ Finish(n, s) PROVE FALSE
  BY <1>1 DEF Goto, Finish, log
<1>2. ASSUME NEW n, NEW s, After(n, s) PROVE FALSE
  BY <1>1, <1>2 DEF After
<1>3. ASSUME NEW n, Attempt(n) PROVE FALSE
  BY <1>1, <1>2, <1>3 DEF Attempt, BindNode, StartNode, FinishRuntime, FinishVerification, Seal
<1>4. ~BindJoin /\ ~StartJoinRuntime /\ ~FinishJoinRuntime /\ ~FinishJoinVerification
  BY <1>1, <1>2 DEF BindJoin, StartJoin, StartJoinRuntime, FinishJoinRuntime, FinishJoinVerification
<1>5. ~NextRound /\ ~EndRound /\ \A n : ~RecordArtifact(n)
  BY DEF NextRound, EndRound, RecordArtifact, log
<1>6. ~CreateMission /\ ~StartRun /\ ~LoseRun /\ ~ReviseMissionContract /\ ~UNCHANGED vars
  BY DEF CreateMission, StartRun, LoseRun, ReviseMissionContract, vars, log
<1> QED BY <1>3, <1>4, <1>5, <1>6 DEF Next, Advance

LEMMA ReceiptIs ==
  ASSUME IInv, [Next]_vars, receipt' # receipt
  PROVE  LET now == revisions[Latest] IN
         /\ receipt'.rev = Latest
         /\ Work \subseteq Complete(artifacts)
         /\ \A r \in Present(now.content) \ Owned(now) :
              r \notin Owned(revisions[1]) /\ revisions[1].content[r] = now.content[r]
         /\ \A e \in Edges : e[2] = Join => \E a \in receipt'.joined :
              /\ a.node = e[1]
              /\ \A r \in now.owns[e[1]] : revisions[a.origin].content[r] = now.content[r]
<1>1. Advance /\ IssueReceipt
  BY OnlyReceiptIssues
<1>2. Planned /\ PlanInv /\ RevisionInv /\ ArtifactInv /\ RunInv
  BY <1>1, RunIsPlanned DEF IInv, Advance
<1>3. /\ view = Latest /\ Unplanned = {} /\ step[Join] = "receipt"
      /\ receipt' = [rev |-> view, joined |-> JoinSources]
  BY <1>1 DEF IssueReceipt, BindsNewest
<1>4. PICK now : now = revisions[Latest]
  OBVIOUS
<1>5. Latest \in Nat /\ Latest >= 1 /\ DOMAIN revisions = 1..Latest
  BY <1>2, LatestIsNat
<1>6. ASSUME NEW r \in Present(now.content) \ Owned(now)
      PROVE  r \notin Owned(revisions[1]) /\ revisions[1].content[r] = now.content[r]
  <2>1. LeftOut(r)
    BY <1>2, <1>4 DEF RevisionInv
  <2>2. now.content[r] # Absent
    BY DEF Present
  <2>3. \A k \in 1..Latest : r \notin revisions[k].unplanned
    BY <1>3, <1>4, <1>5, <2>2 DEF Unplanned
  <2> QED BY <1>4, <2>1, <2>3 DEF LeftOut
<1>7. ASSUME NEW e \in Edges, e[2] = Join
      PROVE  \E a \in receipt'.joined :
               /\ a.node = e[1]
               /\ \A r \in now.owns[e[1]] : revisions[a.origin].content[r] = now.content[r]
  <2>1. run = "join" /\ e[1] \in Inputs(Edges, Join)
    <3>1. "receipt" \in Live /\ Join \in Nodes
      BY <1>2, JoinIs DEF Live
    <3> QED BY <1>2, <1>3, <1>7, <3>1 DEF RunInv, Inputs
  <2>2. e[1] \in CompleteAt(view) /\ e[1] \in Nodes
    BY <1>2, <2>1, JoinIs DEF RunInv, PlanInv
  <2>3. PICK a \in OfRevision(Passed(artifacts), view) : a.node = e[1]
    BY <2>2 DEF CompleteAt
  <2>4. a \in receipt'.joined
    BY <1>3, <2>1, <2>3 DEF JoinSources
  <2>5. a \in artifacts /\ a.rev = Latest
    BY <1>3, <2>3 DEF OfRevision, Passed
  <2>6. /\ a.origin \in 1..Latest /\ a.origin <= Latest
        /\ \A k \in (a.origin + 1)..Latest : e[1] \notin revisions[k].invalid
    <3>1. /\ a.origin \in Nat /\ a.origin >= 1 /\ a.origin <= a.rev
          /\ \A k \in (a.origin + 1)..a.rev : a.node \notin revisions[k].invalid
      BY <1>2, <2>5 DEF ArtifactInv, ArtifactsAreUnaffected
    <3> QED BY <1>5, <2>3, <2>5, <3>1
  <2>7. Keeps(a.origin, Latest, e[1])
    BY <1>2, <1>5, <2>2, <2>6 DEF RevisionInv
  <2> QED BY <1>4, <2>3, <2>4, <2>6, <2>7 DEF Keeps
<1>8. Work \subseteq Complete(artifacts)
  <2>1. "receipt" \in Live /\ Join \in Nodes
    BY <1>2, JoinIs DEF Live
  <2>2. run = "join"
    BY <1>2, <1>3, <2>1 DEF RunInv
  <2> QED BY <1>2, <1>3, <2>2 DEF RunInv, CompleteAt, Complete
<1> QED BY <1>3, <1>4, <1>6, <1>7, <1>8

\* A receipt that is issued is for the newest revision, has evidence for every work
\* node of the Plan, leaves no requirement that a revision has touched without a node,
\* and joins an artifact of every input of the join, made under requirements that say
\* what they say now, whatever criteria the nodes of the Plan name or leave out
\* (engine.ts, executeMissionPlan, #assertReceipt).
THEOREM ReceiptStands == Spec => ReceiptIsCurrent
<1>1. IInv /\ [Next]_vars =>
        [receipt' # receipt =>
           LET now == revisions[Latest] IN
           /\ receipt'.rev = Latest
           /\ Work \subseteq Complete(artifacts)
           /\ \A r \in Present(now.content) \ Owned(now) :
                r \notin Owned(revisions[1]) /\ revisions[1].content[r] = now.content[r]
           /\ \A e \in Edges : e[2] = Join => \E a \in receipt'.joined :
                /\ a.node = e[1]
                /\ \A r \in now.owns[e[1]] : revisions[a.origin].content[r] = now.content[r]]_vars
  BY ReceiptIs
<1> QED BY <1>1, PlanRunInvariant, PTL DEF Spec, ReceiptIsCurrent

-----------------------------------------------------------------------------
(* The stages of a form.                                                   *)

StageFields == {"stageId", "harness", "adapterId", "providerWorkspaceRef", "model", "permissionMode",
                "injectionBudgetTokens", "instruction", "breakpoint", "onFailure"}

\* A stage that the draft takes as it is and that leaves its successor to the draft.
PlainStage(s) ==
  /\ DOMAIN s = StageFields
  /\ StageStands(s) /\ s.onFailure = None
  /\ Secret \notin {s.model, s.instruction, s.providerWorkspaceRef}

\* What the mark of a field that is not given is not.
LEMMA NoneIsNoText == /\ None # "handoff" /\ None # Blank /\ None # Secret /\ None # "mutable-tools" /\ IsIdentifier(None)
BY MarkAssumption DEF IsIdentifier

\* A stage of the page, for a Runtime whose model is filled in, is plain.
LEMMA PlainPageStage ==
  ASSUME NEW form, PageSends(form), Plain(form),
         NEW harness \in Uses(form.route), NEW id, IsIdentifier(id),
         NEW instruction, instruction \notin {Blank, Secret}
  PROVE  /\ PlainStage(PageStage(form, id, harness, instruction))
         /\ PageStage(form, id, harness, instruction).stageId = id
<1> DEFINE s == PageStage(form, id, harness, instruction)
<1>1. Native = {"codex", "qoder", "claude"} /\ harness \in Native
  BY DEF Native, PermissionModes, Uses
<1>2. form.models[harness] \notin {Blank, Secret}
  <2>1. form.models[harness] # Blank
    BY DEF PageSends
  <2>2. harness \in DOMAIN form.models
    BY <1>1 DEF PageSends
  <2>3. form.models[harness] \in Range(form.models)
    BY <2>2 DEF Range
  <2> QED BY <2>1, <2>3 DEF Plain
<1>3. PICK mode : mode = [codex |-> "workspace-write", qoder |-> "bypass_permissions",
                          claude |-> "bypassPermissions"][harness]
  OBVIOUS
<1>4. mode \in PermissionModes[harness] /\ mode # Blank
  <2>1. CASE harness = "codex"
    <3>1. mode = "workspace-write" /\ PermissionModes[harness] = {"read-only", "workspace-write", "danger-full-access"}
      BY <1>3, <2>1 DEF PermissionModes
    <3> QED BY <3>1 DEF Blank
  <2>2. CASE harness = "qoder"
    <3>1. mode = "bypass_permissions" /\ "bypass_permissions" \in PermissionModes[harness]
      BY <1>3, <2>2 DEF PermissionModes
    <3> QED BY <3>1 DEF Blank
  <2>3. CASE harness = "claude"
    <3>1. mode = "bypassPermissions" /\ "bypassPermissions" \in PermissionModes[harness]
      BY <1>3, <2>3 DEF PermissionModes
    <3> QED BY <3>1 DEF Blank
  <2> QED BY <1>1, <2>1, <2>2, <2>3
<1>5. PICK point : point = IF harness = "claude" /\ form.gate THEN "mutable-tools" ELSE None
  OBVIOUS
<1>6. point \in {None, "mutable-tools"} /\ (point # None => harness = "claude")
  BY <1>5
<1>7. s = [stageId |-> id, harness |-> harness, adapterId |-> None, providerWorkspaceRef |-> None,
           model |-> form.models[harness], permissionMode |-> mode,
           injectionBudgetTokens |-> 1600, instruction |-> instruction, breakpoint |-> point,
           onFailure |-> None]
  BY <1>3, <1>5 DEF PageStage
<1>8. IsIdentifier(harness)
  BY <1>1 DEF IsIdentifier, Blank, Secret, Known, Unknown, Phrase, Scoped
<1> HIDE DEF s
<1>9. DOMAIN s = StageFields
  BY <1>7 DEF StageFields
<1>10. /\ s.stageId = id /\ s.harness = harness /\ s.adapterId = None /\ s.providerWorkspaceRef = None
       /\ s.model = form.models[harness] /\ s.permissionMode = mode
       /\ s.injectionBudgetTokens = 1600 /\ s.instruction = instruction /\ s.breakpoint = point
       /\ s.onFailure = None
  BY <1>7
<1>11. StageStands(s)
  BY <1>1, <1>2, <1>4, <1>6, <1>8, <1>10, NoneIsNoText DEF StageStands
<1> QED BY <1>2, <1>9, <1>10, <1>11, NoneIsNoText DEF PlainStage, s

\* So is the stage of an Adapter that the draft can name.
LEMMA PlainAdapterStage ==
  ASSUME NEW form, Plain(form), form.adapter \in DOMAIN Adapters, form.adapter # None
  PROVE  PlainStage(AdapterStage(form)) /\ AdapterStage(form).stageId = "adapter-primary"
<1> DEFINE s == AdapterStage(form)
<1>1. PICK ref : ref = IF form.ref = Blank THEN None ELSE form.ref
  OBVIOUS
<1>2. ref \notin {Blank, Secret}
  BY <1>1, NoneIsNoText DEF Plain
<1>3. s = [stageId |-> "adapter-primary", harness |-> Adapters[form.adapter].harness,
           adapterId |-> form.adapter, providerWorkspaceRef |-> ref,
           model |-> "default", permissionMode |-> "adapter-default",
           injectionBudgetTokens |-> 1600, instruction |-> None, breakpoint |-> None,
           onFailure |-> None]
  BY <1>1 DEF AdapterStage
<1>4. IsIdentifier(form.adapter) /\ IsIdentifier(Adapters[form.adapter].harness)
  BY DEF Plain
<1> HIDE DEF s
<1>5. DOMAIN s = StageFields
  BY <1>3 DEF StageFields
<1>6. /\ s.stageId = "adapter-primary" /\ s.harness = Adapters[form.adapter].harness
      /\ s.adapterId = form.adapter /\ s.providerWorkspaceRef = ref
      /\ s.model = "default" /\ s.permissionMode = "adapter-default"
      /\ s.injectionBudgetTokens = 1600 /\ s.instruction = None /\ s.breakpoint = None
      /\ s.onFailure = None
  BY <1>3
<1>7. /\ IsIdentifier("adapter-primary") /\ "default" \notin {Blank, Secret}
      /\ "adapter-default" # Blank
  BY DEF IsIdentifier, Blank, Secret, Known, Unknown, Phrase, Scoped
<1>8. StageStands(s)
  BY <1>2, <1>4, <1>6, <1>7, NoneIsNoText DEF StageStands
<1> QED BY <1>2, <1>5, <1>6, <1>7, <1>8, NoneIsNoText DEF PlainStage, s

\* Lists as they are written out.
LEMMA Tuples ==
  /\ \A a : DOMAIN <<a>> = 1..1 /\ Len(<<a>>) = 1 /\ \A i \in 1..1 : i = 1
  /\ \A a, b : DOMAIN <<a, b>> = 1..2 /\ Len(<<a, b>>) = 2 /\ \A i \in 1..2 : i = 1 \/ i = 2
  /\ \A a, b, c : /\ DOMAIN <<a, b, c>> = 1..3 /\ Len(<<a, b, c>>) = 3
                  /\ \A i \in 1..3 : i = 1 \/ i = 2 \/ i = 3
                  /\ <<a, b, c>>[1] = a /\ <<a, b, c>>[2] = b /\ <<a, b, c>>[3] = c
<1>1. \A a : DOMAIN <<a>> = 1..1 /\ Len(<<a>>) = 1
  OBVIOUS
<1>2. \A a, b : DOMAIN <<a, b>> = 1..2 /\ Len(<<a, b>>) = 2
  OBVIOUS
<1>3. \A a, b, c : /\ DOMAIN <<a, b, c>> = 1..3 /\ Len(<<a, b, c>>) = 3
                  /\ <<a, b, c>>[1] = a /\ <<a, b, c>>[2] = b /\ <<a, b, c>>[3] = c
  OBVIOUS
<1>4. /\ \A i \in 1..1 : i = 1
      /\ \A i \in 1..2 : i = 1 \/ i = 2
      /\ \A i \in 1..3 : i = 1 \/ i = 2 \/ i = 3
  OBVIOUS
<1> QED BY <1>1, <1>2, <1>3, <1>4

\* The stages of a route: up to three, plain, distinct, and three known ones for a Plan.
LEMMA RouteIs ==
  ASSUME NEW form, PageSends(form), Plain(form), NEW s, s = RouteStages(form)
  PROVE  /\ \E n \in 1..3 : DOMAIN s = 1..n /\ Len(s) = n
         /\ \A i \in DOMAIN s : PlainStage(s[i])
         /\ \A i, j \in DOMAIN s : s[i].stageId = s[j].stageId => i = j
         /\ form.route = "mission-plan" =>
              /\ DOMAIN s = 1..3 /\ s[1].stageId = "qoder-workstream"
              /\ s[2].stageId = "claude-workstream" /\ s[3].stageId = "qoder-consolidation"
<1> DEFINE stage(id, harness, instruction) == PageStage(form, id, harness, instruction)
           Whole(t, id) == PlainStage(t) /\ t.stageId = id
<1>1. IsIdentifier("codex-primary") /\ IsIdentifier("qoder-primary") /\ IsIdentifier("claude-primary")
      /\ IsIdentifier("qoder-continuation") /\ IsIdentifier("claude-continuation")
      /\ IsIdentifier("qoder-workstream") /\ IsIdentifier("claude-workstream")
      /\ IsIdentifier("qoder-consolidation")
  BY DEF IsIdentifier, Blank, Secret, Known, Unknown, Phrase, Scoped
<1>2. \A harness \in Uses(form.route) : \A id : IsIdentifier(id) => Whole(stage(id, harness, None), id)
  BY PlainPageStage, NoneIsNoText
<1> HIDE DEF stage, Whole
<1>3. CASE form.adapter # None
  <2>1. form.adapter \in DOMAIN Adapters
    BY <1>3 DEF Plain
  <2>2. s = <<AdapterStage(form)>> /\ form.route = "adapter"
    BY <1>3, <2>1 DEF RouteStages, PageSends
  <2>3. DOMAIN s = 1..1 /\ Len(s) = 1 /\ s[1] = AdapterStage(form) /\ \A i \in 1..1 : i = 1
    BY <2>2
  <2> QED BY <1>3, <2>1, <2>2, <2>3, PlainAdapterStage
<1>4. CASE form.adapter = None
  <2>1. form.adapter \notin DOMAIN Adapters
    BY <1>4, MarkAssumption
  <2>2. form.route \in Routes \ {"adapter"}
    BY <1>4 DEF PageSends
  <2>3. CASE form.route \in {"codex", "qoder", "claude"}
    <3>1. PICK id : IsIdentifier(id) /\ s = <<stage(id, form.route, None)>>
      BY <1>1, <2>1, <2>3 DEF RouteStages, stage
    <3>2. form.route \in Uses(form.route) /\ form.route # "mission-plan"
      BY <2>3 DEF Uses, Native, PermissionModes
    <3>3. DOMAIN s = 1..1 /\ Len(s) = 1 /\ \A i \in 1..1 : i = 1
      BY <3>1, Tuples
    <3>4. Whole(s[1], id)
      BY <1>2, <3>1, <3>2
    <3> QED BY <3>2, <3>3, <3>4 DEF Whole
  <2>4. CASE form.route = "codex-qoder"
    <3>1. s = <<stage("codex-primary", "codex", None), stage("qoder-continuation", "qoder", None)>>
      BY <2>1, <2>4 DEF RouteStages, stage
    <3>2. "codex" \in Uses(form.route) /\ "qoder" \in Uses(form.route)
      BY <2>4 DEF Uses, Native, PermissionModes
    <3>3. Whole(s[1], "codex-primary") /\ Whole(s[2], "qoder-continuation")
      BY <1>1, <1>2, <3>1, <3>2
    <3>4. DOMAIN s = 1..2 /\ Len(s) = 2 /\ \A i \in 1..2 : i = 1 \/ i = 2
      BY <3>1, Tuples
    <3> QED BY <2>4, <3>3, <3>4 DEF Whole
  <2>5. CASE form.route = "codex-qoder-claude"
    <3>1. s = <<stage("codex-primary", "codex", None), stage("qoder-continuation", "qoder", None),
                stage("claude-continuation", "claude", None)>>
      BY <2>1, <2>5 DEF RouteStages, stage
    <3>2. "codex" \in Uses(form.route) /\ "qoder" \in Uses(form.route) /\ "claude" \in Uses(form.route)
      BY <2>5 DEF Uses, Native, PermissionModes
    <3>3. Whole(s[1], "codex-primary") /\ Whole(s[2], "qoder-continuation")
          /\ Whole(s[3], "claude-continuation")
      BY <1>1, <1>2, <3>1, <3>2
    <3>4. DOMAIN s = 1..3 /\ Len(s) = 3 /\ \A i \in 1..3 : i = 1 \/ i = 2 \/ i = 3
      BY <3>1, Tuples
    <3> QED BY <2>5, <3>3, <3>4 DEF Whole
  <2>6. CASE form.route = "mission-plan"
    <3> DEFINE ra == form.a.requirement
               rb == form.b.requirement
    <3>1. s = <<stage("qoder-workstream", "qoder", ra), stage("claude-workstream", "claude", rb),
                stage("qoder-consolidation", "qoder", "integrate-both")>>
      BY <2>1, <2>6 DEF RouteStages, stage
    <3>2. "qoder" \in Uses(form.route) /\ "claude" \in Uses(form.route)
      BY <2>6 DEF Uses, Native, PermissionModes
    <3>3. ra \notin {Blank, Secret} /\ rb \notin {Blank, Secret} /\ "integrate-both" \notin {Blank, Secret}
      BY <2>6 DEF PageSends, Plain, Blank, Secret
    <3> HIDE DEF ra, rb
    <3>4. Whole(s[1], "qoder-workstream") /\ Whole(s[2], "claude-workstream")
          /\ Whole(s[3], "qoder-consolidation")
      <4>1. \A harness \in Uses(form.route) : \A id, text : IsIdentifier(id) /\ text \notin {Blank, Secret}
              => Whole(stage(id, harness, text), id)
        BY PlainPageStage DEF stage, Whole
      <4>2. Whole(stage("qoder-workstream", "qoder", ra), "qoder-workstream")
        <5>1. IsIdentifier("qoder-workstream") /\ "qoder" \in Uses(form.route) /\ ra \notin {Blank, Secret}
          BY <1>1, <3>2, <3>3
        <5> QED BY <4>1, <5>1
      <4>3. Whole(stage("claude-workstream", "claude", rb), "claude-workstream")
        <5>1. IsIdentifier("claude-workstream") /\ "claude" \in Uses(form.route) /\ rb \notin {Blank, Secret}
          BY <1>1, <3>2, <3>3
        <5> QED BY <4>1, <5>1
      <4>4. Whole(stage("qoder-consolidation", "qoder", "integrate-both"), "qoder-consolidation")
        <5>1. /\ IsIdentifier("qoder-consolidation") /\ "qoder" \in Uses(form.route)
              /\ "integrate-both" \notin {Blank, Secret}
          BY <1>1, <3>2, <3>3
        <5> QED BY <4>1, <5>1
      <4>5. /\ s[1] = stage("qoder-workstream", "qoder", ra)
            /\ s[2] = stage("claude-workstream", "claude", rb)
            /\ s[3] = stage("qoder-consolidation", "qoder", "integrate-both")
        BY <3>1
      <4> QED BY <4>2, <4>3, <4>4, <4>5
    <3>5. DOMAIN s = 1..3 /\ Len(s) = 3 /\ \A i \in 1..3 : i = 1 \/ i = 2 \/ i = 3
      BY <3>1, Tuples
    <3> QED BY <3>4, <3>5 DEF Whole
  <2> QED BY <2>2, <2>3, <2>4, <2>5, <2>6 DEF Routes
<1> QED BY <1>3, <1>4

-----------------------------------------------------------------------------
(* Its criteria, its Mission file and the Contract of it.                  *)

\* A criterion that the draft and the Mission file take.
PlainCriterion(c) ==
  /\ DOMAIN c = {"id", "description", "verifier"}
  /\ DOMAIN c.verifier = {"executable", "args", "timeoutMs"}
  /\ c.id \in {"workstream-a", "workstream-b", "mission-outcome"}
  /\ c.description \in {"the-objective", "workstream-a", "workstream-b", "mission-outcome"}
  /\ VerifierStands(c.verifier)
  /\ Unknown \notin Range(c.verifier.args) /\ Secret \notin Range(c.verifier.args)

\* The names that the page and the draft give are identifiers and no marks.
LEMMA NamesAreIdentifiers ==
  \A t \in {"the-objective", "workstream-a", "workstream-b", "mission-outcome", "consolidate",
           "qoder-workstream", "claude-workstream", "qoder-consolidation"} :
     IsIdentifier(t) /\ t # Blank /\ t # Secret
BY DEF IsIdentifier, Blank, Secret, Known, Unknown, Phrase, Scoped

\* A verifier of a plain form stands.
LEMMA PlainVerifier ==
  ASSUME NEW form, PageSends(form), Plain(form), NEW args \in {form.args, form.a.args, form.b.args}
  PROVE  LET v == Verifier(form, args)
         IN /\ DOMAIN v = {"executable", "args", "timeoutMs"} /\ VerifierStands(v)
            /\ Unknown \notin Range(v.args) /\ Secret \notin Range(v.args)
<1>1. PICK v : v = Verifier(form, args)
  OBVIOUS
<1>2. /\ DOMAIN v = {"executable", "args", "timeoutMs"}
      /\ v.executable = form.executable /\ v.args = args /\ v.timeoutMs = 30000
  BY <1>1 DEF Verifier
<1>3. form.executable \notin Shells \cup {Blank}
  BY DEF PageSends, Plain
<1>4. Blank \notin Range(args)
  BY DEF PageSends, Lines
<1>5. Unknown \notin Range(args) /\ Secret \notin Range(args)
  BY DEF Plain
<1>6. VerifierStands(v)
  BY <1>2, <1>3, <1>4 DEF VerifierStands
<1> QED BY <1>1, <1>2, <1>5, <1>6

\* The criteria that a request of the page comes to.
LEMMA CriteriaAre ==
  ASSUME NEW form, NEW c, c = Criteria(Payload(form)), PageCriteria(form) # None
  PROVE  /\ DOMAIN c = (IF form.route = "mission-plan" THEN 1..3 ELSE 1..1) /\ c # <<>>
         /\ \A i, j \in DOMAIN c : c[i].id = c[j].id => i = j
         /\ \A i \in DOMAIN c :
              /\ DOMAIN c[i] = {"id", "description", "verifier"}
              /\ c[i].description \in {"the-objective", "workstream-a", "workstream-b", "mission-outcome"}
         /\ form.route = "mission-plan" =>
              c[1].id = "workstream-a" /\ c[2].id = "workstream-b" /\ c[3].id = "mission-outcome"
         /\ PageSends(form) /\ Plain(form) => \A i \in DOMAIN c : PlainCriterion(c[i])
<1> DEFINE criterion(id, text, args) == [id |-> id, description |-> text, verifier |-> Verifier(form, args)]
<1>1. ASSUME PageSends(form), Plain(form), NEW args \in {form.args, form.a.args, form.b.args},
             NEW id \in {"workstream-a", "workstream-b", "mission-outcome"},
             NEW text \in {"the-objective", "workstream-a", "workstream-b", "mission-outcome"}
      PROVE  PlainCriterion(criterion(id, text, args))
  <2>1. PICK v : v = Verifier(form, args)
    OBVIOUS
  <2>2. /\ DOMAIN v = {"executable", "args", "timeoutMs"} /\ VerifierStands(v)
        /\ Unknown \notin Range(v.args) /\ Secret \notin Range(v.args)
    BY <1>1, <2>1, PlainVerifier
  <2>3. PICK d : d = [id |-> id, description |-> text, verifier |-> v]
    OBVIOUS
  <2>4. DOMAIN d = {"id", "description", "verifier"} /\ d.id = id /\ d.description = text /\ d.verifier = v
    BY <2>3
  <2>5. PlainCriterion(d)
    BY <1>1, <2>2, <2>4 DEF PlainCriterion
  <2> QED BY <2>1, <2>3, <2>5
<1>2. \A id, text, args : /\ DOMAIN criterion(id, text, args) = {"id", "description", "verifier"}
                         /\ criterion(id, text, args).id = id
                         /\ criterion(id, text, args).description = text
  OBVIOUS
<1>3. CASE form.route = "mission-plan"
  <2>1. c = PageCriteria(form)
    BY <1>3 DEF Criteria, Payload
  <2> DEFINE aa == form.a.args
             ba == form.b.args
  <2>2. c = <<criterion("workstream-a", "workstream-a", aa), criterion("workstream-b", "workstream-b", ba),
              criterion("mission-outcome", "mission-outcome", form.args)>>
    BY <2>1 DEF PageCriteria
  <2>3. aa \in {form.args, form.a.args, form.b.args} /\ ba \in {form.args, form.a.args, form.b.args}
    OBVIOUS
  <2> HIDE DEF criterion, aa, ba
  <2>4. DOMAIN c = 1..3 /\ \A i \in 1..3 : i = 1 \/ i = 2 \/ i = 3
    BY <2>2, Tuples
  <2>5. /\ c[1] = criterion("workstream-a", "workstream-a", aa)
        /\ c[2] = criterion("workstream-b", "workstream-b", ba)
        /\ c[3] = criterion("mission-outcome", "mission-outcome", form.args)
    BY <2>2
  <2>6. /\ c[1].id = "workstream-a" /\ c[2].id = "workstream-b" /\ c[3].id = "mission-outcome"
        /\ c[1].description = "workstream-a" /\ c[2].description = "workstream-b"
        /\ c[3].description = "mission-outcome"
        /\ \A i \in {1, 2, 3} : DOMAIN c[i] = {"id", "description", "verifier"}
    BY <1>2, <2>5
  <2>7. ASSUME PageSends(form), Plain(form)
        PROVE  PlainCriterion(c[1]) /\ PlainCriterion(c[2]) /\ PlainCriterion(c[3])
    BY <1>1, <2>3, <2>5, <2>7
  <2>8. c # <<>>
    BY <2>2
  <2> QED BY <1>3, <2>4, <2>6, <2>7, <2>8
<1>4. CASE form.route # "mission-plan"
  <2>1. c = <<criterion("mission-outcome", "the-objective", form.args)>>
    BY <1>4 DEF Criteria, Payload
  <2> HIDE DEF criterion
  <2>2. DOMAIN c = 1..1 /\ (\A i \in 1..1 : i = 1) /\ c # <<>>
    BY <2>1, Tuples
  <2>3. c[1] = criterion("mission-outcome", "the-objective", form.args)
    BY <2>1
  <2>4. /\ c[1].id = "mission-outcome" /\ c[1].description = "the-objective"
        /\ DOMAIN c[1] = {"id", "description", "verifier"}
    BY <1>2, <2>3
  <2>5. PageSends(form) /\ Plain(form) => PlainCriterion(c[1])
    BY <1>1, <2>3
  <2> QED BY <1>4, <2>2, <2>4, <2>5
<1> QED BY <1>3, <1>4

\* What the Mission file of a request of the page says, and what it resolves to.
LEMMA SpecIs ==
  ASSUME NEW form, NEW q, q = Payload(form), NEW doc, doc = Document(q),
         NEW spec, spec = Resolved(doc), Unmarked(form)
  PROVE  /\ doc.title = form.title /\ doc.objective = form.objective /\ doc.workspace = form.workspace
         /\ doc.context = None /\ doc.plan = q.plan /\ doc.criteria = Criteria(q)
         /\ form.route = "mission-plan" => doc.constraints = <<form.a.requirement, form.b.requirement>>
         /\ form.route # "mission-plan" => doc.constraints = <<>>
         /\ spec.title = doc.title /\ spec.objective = doc.objective /\ spec.workspace = doc.workspace
         /\ spec.context = None /\ spec.plan = doc.plan /\ spec.stages = doc.stages
         /\ spec.constraints = doc.constraints
<1> DEFINE stages == [i \in DOMAIN q.stages |-> Filed(q.stages[i], OnFailure(q.stages, i))]
           criteria == [i \in DOMAIN doc.criteria |-> Expanded(doc.criteria[i])]
<1>1. doc = [title |-> q.title, objective |-> q.objective, workspace |-> q.workspace,
             constraints |-> Given(q.constraints), context |-> q.context, criteria |-> Criteria(q),
             stages |-> stages, plan |-> q.plan]
  BY DEF Document
<1> HIDE DEF stages
<1>2. /\ q.title = form.title /\ q.objective = form.objective /\ q.workspace = form.workspace
      /\ q.context = None
      /\ q.constraints = (IF form.route = "mission-plan"
                          THEN <<form.a.requirement, form.b.requirement>> ELSE <<>>)
  BY DEF Payload
<1>3. Given(q.constraints) = q.constraints
  BY <1>2 DEF Given, Unmarked
<1>4. /\ doc.title = form.title /\ doc.objective = form.objective /\ doc.workspace = form.workspace
      /\ doc.context = None /\ doc.plan = q.plan /\ doc.criteria = Criteria(q)
      /\ doc.constraints = q.constraints /\ doc.stages = stages
  BY <1>1, <1>2, <1>3
<1>5. spec = [doc EXCEPT !.criteria = criteria,
                         !.context = IF @ = None THEN None
                                     ELSE [source   |-> Expand(@.source), snapshot |-> Expand(@.snapshot)]]
  BY DEF Resolved
<1> HIDE DEF criteria
<1>6. DOMAIN doc = {"title", "objective", "workspace", "constraints", "context", "criteria", "stages", "plan"}
  BY <1>1
<1>7. /\ spec.title = doc.title /\ spec.objective = doc.objective /\ spec.workspace = doc.workspace
      /\ spec.plan = doc.plan /\ spec.stages = doc.stages /\ spec.constraints = doc.constraints
      /\ spec.criteria = criteria /\ spec.context = None
  BY <1>4, <1>5, <1>6
<1> QED BY <1>2, <1>4, <1>7

\* Its stages are filed one by one, and its criteria expanded one by one.
LEMMA ListsAre ==
  ASSUME NEW form, NEW q, q = Payload(form), NEW doc, doc = Document(q),
         NEW spec, spec = Resolved(doc)
  PROVE  /\ DOMAIN doc.stages = DOMAIN q.stages
         /\ \A i \in DOMAIN q.stages : doc.stages[i] = Filed(q.stages[i], OnFailure(q.stages, i))
         /\ DOMAIN spec.criteria = DOMAIN doc.criteria
         /\ \A i \in DOMAIN doc.criteria : spec.criteria[i] = Expanded(doc.criteria[i])
<1> DEFINE stages == [i \in DOMAIN q.stages |-> Filed(q.stages[i], OnFailure(q.stages, i))]
           criteria == [i \in DOMAIN doc.criteria |-> Expanded(doc.criteria[i])]
<1>1. doc = [title |-> q.title, objective |-> q.objective, workspace |-> q.workspace,
             constraints |-> Given(q.constraints), context |-> q.context, criteria |-> Criteria(q),
             stages |-> stages, plan |-> q.plan]
  BY DEF Document
<1> HIDE DEF stages
<1>4. doc.stages = stages
  BY <1>1
<1>5. spec = [doc EXCEPT !.criteria = criteria,
                         !.context = IF @ = None THEN None
                                     ELSE [source   |-> Expand(@.source), snapshot |-> Expand(@.snapshot)]]
  BY DEF Resolved
<1> HIDE DEF criteria
<1>6. DOMAIN doc = {"title", "objective", "workspace", "constraints", "context", "criteria", "stages", "plan"}
  BY <1>1
<1>7. spec.criteria = criteria
  BY <1>5, <1>6
<1> QED BY <1>4, <1>7 DEF stages, criteria

\* A plain stage, as the draft files it, is one the Mission file takes.
LEMMA StageIsFiled ==
  ASSUME NEW s, PlainStage(s), NEW f \in {"stop", "handoff"},
         NEW t, t = Filed(s, f)
  PROVE  /\ SpecStageStands(t) /\ t.stageId = s.stageId /\ t.onFailure = f
         /\ Secret \notin {t.model, t.instruction, t.providerWorkspaceRef}
<1>1. /\ t.stageId = s.stageId /\ t.harness = s.harness /\ t.adapterId = s.adapterId
      /\ t.providerWorkspaceRef = s.providerWorkspaceRef /\ t.model = s.model
      /\ t.permissionMode = s.permissionMode /\ t.injectionBudgetTokens = s.injectionBudgetTokens
      /\ t.breakpoint = s.breakpoint /\ t.onFailure = f
      /\ t.instruction = (IF s.instruction = None THEN "the-role" ELSE s.instruction)
  BY DEF PlainStage, StageFields, Filed
<1>2. "the-role" # Blank /\ "the-role" # Secret
  BY DEF Blank, Secret
<1>3. StageStands(s) /\ Secret \notin {s.model, s.instruction, s.providerWorkspaceRef}
  BY DEF PlainStage
<1>4. t.instruction \notin {Blank, Secret}
  BY <1>1, <1>2, <1>3 DEF StageStands
<1>5. SpecStageStands(t)
  BY <1>1, <1>3, <1>4 DEF StageStands, SpecStageStands
<1> QED BY <1>1, <1>3, <1>4, <1>5

\* The stages of the Mission file.
LEMMA StagesAreFiled ==
  ASSUME NEW form, PageSends(form), Plain(form), NEW q, q = Payload(form), NEW t,
         DOMAIN t = DOMAIN q.stages,
         \A i \in DOMAIN q.stages : t[i] = Filed(q.stages[i], OnFailure(q.stages, i))
  PROVE  /\ \E n \in 1..3 : DOMAIN t = 1..n /\ Len(t) = n /\ t[n].onFailure = "stop"
         /\ \A i \in DOMAIN t : /\ SpecStageStands(t[i]) /\ t[i].stageId = q.stages[i].stageId
                               /\ Secret \notin {t[i].model, t[i].instruction, t[i].providerWorkspaceRef}
         /\ \A i, j \in DOMAIN t : t[i].stageId = t[j].stageId => i = j
<1>1. PICK s : s = q.stages
  OBVIOUS
<1>2. s = RouteStages(form)
  BY <1>1 DEF Payload
<1>3. /\ \A i \in DOMAIN s : PlainStage(s[i])
      /\ \A i, j \in DOMAIN s : s[i].stageId = s[j].stageId => i = j
  BY <1>2, RouteIs
<1>4. PICK n \in 1..3 : DOMAIN s = 1..n /\ Len(s) = n
  BY <1>2, RouteIs
<1>5. ASSUME NEW i \in 1..n
      PROVE  OnFailure(s, i) = (IF i < n THEN "handoff" ELSE "stop")
  <2>1. s[i].onFailure = None
    BY <1>3, <1>4 DEF PlainStage
  <2> QED BY <1>4, <2>1 DEF OnFailure
<1> DEFINE F(i) == OnFailure(s, i)
<1>6. /\ DOMAIN t = 1..n
      /\ \A i \in 1..n : t[i] = Filed(s[i], F(i))
  BY <1>1, <1>4
<1>7. /\ \A i \in 1..n : F(i) \in {"stop", "handoff"}
      /\ F(n) = "stop"
  <2>1. n \in 1..n /\ ~(n < n)
    OBVIOUS
  <2> QED BY <1>5, <2>1
<1> HIDE DEF F
<1>8. ASSUME NEW i \in 1..n
      PROVE  /\ SpecStageStands(t[i]) /\ t[i].stageId = s[i].stageId /\ t[i].onFailure = F(i)
             /\ Secret \notin {t[i].model, t[i].instruction, t[i].providerWorkspaceRef}
  <2>1. PlainStage(s[i]) /\ F(i) \in {"stop", "handoff"} /\ t[i] = Filed(s[i], F(i))
    BY <1>3, <1>4, <1>6, <1>7
  <2> QED BY <2>1, StageIsFiled
<1>9. Len(t) = n
  BY <1>6
<1> QED BY <1>1, <1>3, <1>4, <1>6, <1>7, <1>8, <1>9

\* The requirements of a Contract are those of its Mission file, and all of them are there.
LEMMA ContractIs ==
  ASSUME NEW spec, spec.objective # Absent,
         \A i \in DOMAIN spec.constraints : spec.constraints[i] # Absent,
         \A i \in DOMAIN spec.criteria : spec.criteria[i].description # Absent
  PROVE  /\ Present(FirstContract(spec)) = RequirementIds(spec)
         /\ Present(Contract(spec)) = RequirementIds(spec)
<1>1. ASSUME NEW r \in RequirementIds(spec) PROVE FirstContract(spec)[r] # Absent
  <2>1. FirstContract(spec)[r] =
          CASE r = Objective         -> spec.objective
            [] r[1] = "constraint"   -> spec.constraints[r[2]]
            [] r[1] = "acceptance"   ->
                 (CHOOSE c \in Range(spec.criteria) : c.id = r[2]).description
    BY DEF FirstContract
  <2>2. CASE r = Objective
    BY <2>1, <2>2 DEF Objective
  <2>3. CASE \E i \in DOMAIN spec.constraints : r = Constraint(i)
    <3>1. PICK i \in DOMAIN spec.constraints : r = <<"constraint", i>>
      BY <2>3 DEF Constraint
    <3>2. r # Objective /\ r[1] = "constraint" /\ r[2] = i
      BY <3>1 DEF Objective
    <3>3. FirstContract(spec)[r] = spec.constraints[i]
      BY <2>1, <3>2
    <3> QED BY <3>3
  <2>4. CASE \E c \in Range(spec.criteria) : r = Acceptance(c.id)
    <3>1. PICK c \in Range(spec.criteria) : r = <<"acceptance", c.id>>
      BY <2>4 DEF Acceptance
    <3>2. r # Objective /\ r[1] # "constraint" /\ r[1] = "acceptance" /\ r[2] = c.id
      BY <3>1 DEF Objective
    <3>3. PICK d : d = CHOOSE x \in Range(spec.criteria) : x.id = r[2]
      OBVIOUS
    <3>4. d \in Range(spec.criteria)
      BY <3>2, <3>3
    <3>5. FirstContract(spec)[r] = d.description
      BY <2>1, <3>2, <3>3
    <3> QED BY <3>4, <3>5 DEF Range
  <2> QED BY <2>2, <2>3, <2>4 DEF RequirementIds
<1>2. DOMAIN FirstContract(spec) = RequirementIds(spec)
  BY DEF FirstContract
<1>3. Present(FirstContract(spec)) = RequirementIds(spec)
  BY <1>1, <1>2 DEF Present
<1>4. /\ DOMAIN Contract(spec) = RequirementIds(spec) \cup Spare
      /\ \A r \in RequirementIds(spec) : Contract(spec)[r] = FirstContract(spec)[r]
      /\ \A r \in Spare \ RequirementIds(spec) : Contract(spec)[r] = Absent
  BY DEF Contract
<1> QED BY <1>1, <1>3, <1>4 DEF Present

-----------------------------------------------------------------------------
(* The Plan that the page draws up, and the chain of a Mission without one. *)

\* What the draft and the Mission file ask of the form of a Plan that the page draws.
PlanFits(form, doc) ==
  /\ Range(Column(doc.stages, "stageId")) = {"qoder-workstream", "claude-workstream", "qoder-consolidation"}
  /\ RequirementIds(doc) = {Objective, Constraint(1), Constraint(2), Acceptance("workstream-a"),
                            Acceptance("workstream-b"), Acceptance("mission-outcome")}
  /\ Range(Column(doc.criteria, "id")) = {"workstream-a", "workstream-b", "mission-outcome"}

\* The nodes and edges of the Plan that the page draws up, ...
LEMMA PlanDrawn ==
  ASSUME NEW form, NEW nodes, nodes = PagePlan(form).nodes, NEW edges, edges = PagePlan(form).edges
  PROVE  /\ DOMAIN nodes = 1..3 /\ nodes # <<>> /\ DOMAIN edges = 1..2
         /\ nodes[1] = [id |-> "workstream-a", kind |-> "task", title |-> "workstream-a",
                        stage |-> "qoder-workstream",
                        requirements |-> <<Constraint(1), Acceptance("workstream-a")>>,
                        criteria |-> <<"workstream-a">>, outputs |-> form.a.outputs,
                        scopes |-> <<"workspace">>]
         /\ nodes[2] = [id |-> "workstream-b", kind |-> "task", title |-> "workstream-b",
                        stage |-> "claude-workstream",
                        requirements |-> <<Constraint(2), Acceptance("workstream-b")>>,
                        criteria |-> <<"workstream-b">>, outputs |-> form.b.outputs,
                        scopes |-> <<"workspace">>]
         /\ nodes[3] = [id |-> "consolidate", kind |-> "join", title |-> "consolidate",
                        stage |-> "qoder-consolidation",
                        requirements |-> <<Objective, Acceptance("workstream-a"),
                                           Acceptance("workstream-b"), Acceptance("mission-outcome")>>,
                        criteria |-> <<"mission-outcome">>, outputs |-> form.outputs,
                        scopes |-> <<"workspace">>]
         /\ edges[1] = [from |-> "workstream-a", to |-> "consolidate", relation |-> "join-input",
                        evidence |-> <<"workstream-a">>]
         /\ edges[2] = [from |-> "workstream-b", to |-> "consolidate", relation |-> "join-input",
                        evidence |-> <<"workstream-b">>]
<1> DEFINE a == [id |-> "workstream-a", kind |-> "task", title |-> "workstream-a",
                 stage |-> "qoder-workstream",
                 requirements |-> <<Constraint(1), Acceptance("workstream-a")>>,
                 criteria |-> <<"workstream-a">>, outputs |-> form.a.outputs,
                 scopes |-> <<"workspace">>]
           b == [id |-> "workstream-b", kind |-> "task", title |-> "workstream-b",
                 stage |-> "claude-workstream",
                 requirements |-> <<Constraint(2), Acceptance("workstream-b")>>,
                 criteria |-> <<"workstream-b">>, outputs |-> form.b.outputs,
                 scopes |-> <<"workspace">>]
           c == [id |-> "consolidate", kind |-> "join", title |-> "consolidate",
                 stage |-> "qoder-consolidation",
                 requirements |-> <<Objective, Acceptance("workstream-a"),
                                    Acceptance("workstream-b"), Acceptance("mission-outcome")>>,
                 criteria |-> <<"mission-outcome">>, outputs |-> form.outputs,
                 scopes |-> <<"workspace">>]
           edge(from) == [from |-> from, to |-> "consolidate", relation |-> "join-input",
                          evidence |-> <<from>>]
<1>1. PagePlan(form) = [nodes |-> <<a, b, c>>, edges |-> <<edge("workstream-a"), edge("workstream-b")>>]
  BY DEF PagePlan
<1> HIDE DEF a, b, c, edge
<1>2. nodes = <<a, b, c>> /\ edges = <<edge("workstream-a"), edge("workstream-b")>>
  BY <1>1
<1>3. /\ DOMAIN nodes = 1..3 /\ nodes # <<>> /\ DOMAIN edges = 1..2
      /\ nodes[1] = a /\ nodes[2] = b /\ nodes[3] = c
      /\ edges[1] = edge("workstream-a") /\ edges[2] = edge("workstream-b")
  BY <1>2, Tuples
<1> QED BY <1>3 DEF a, b, c, edge

\* ... and what tells them apart.
LEMMA PlanShape ==
  ASSUME NEW form, NEW nodes, nodes = PagePlan(form).nodes, NEW edges, edges = PagePlan(form).edges
  PROVE  /\ DOMAIN nodes = 1..3 /\ nodes # <<>> /\ DOMAIN edges = 1..2
         /\ nodes[1].id = "workstream-a" /\ nodes[2].id = "workstream-b" /\ nodes[3].id = "consolidate"
         /\ nodes[1].stage = "qoder-workstream" /\ nodes[2].stage = "claude-workstream"
         /\ nodes[3].stage = "qoder-consolidation"
         /\ edges[1].from = "workstream-a" /\ edges[2].from = "workstream-b"
<1> DEFINE a == [id |-> "workstream-a", kind |-> "task", title |-> "workstream-a",
                 stage |-> "qoder-workstream",
                 requirements |-> <<Constraint(1), Acceptance("workstream-a")>>,
                 criteria |-> <<"workstream-a">>, outputs |-> form.a.outputs,
                 scopes |-> <<"workspace">>]
           b == [id |-> "workstream-b", kind |-> "task", title |-> "workstream-b",
                 stage |-> "claude-workstream",
                 requirements |-> <<Constraint(2), Acceptance("workstream-b")>>,
                 criteria |-> <<"workstream-b">>, outputs |-> form.b.outputs,
                 scopes |-> <<"workspace">>]
           c == [id |-> "consolidate", kind |-> "join", title |-> "consolidate",
                 stage |-> "qoder-consolidation",
                 requirements |-> <<Objective, Acceptance("workstream-a"),
                                    Acceptance("workstream-b"), Acceptance("mission-outcome")>>,
                 criteria |-> <<"mission-outcome">>, outputs |-> form.outputs,
                 scopes |-> <<"workspace">>]
           edge(from) == [from |-> from, to |-> "consolidate", relation |-> "join-input",
                          evidence |-> <<from>>]
<1>1. PagePlan(form) = [nodes |-> <<a, b, c>>, edges |-> <<edge("workstream-a"), edge("workstream-b")>>]
  BY DEF PagePlan
<1>0. /\ a.id = "workstream-a" /\ b.id = "workstream-b" /\ c.id = "consolidate"
      /\ a.stage = "qoder-workstream" /\ b.stage = "claude-workstream" /\ c.stage = "qoder-consolidation"
      /\ \A from : edge(from).from = from
  OBVIOUS
<1> HIDE DEF a, b, c, edge
<1>2. nodes = <<a, b, c>> /\ edges = <<edge("workstream-a"), edge("workstream-b")>>
  BY <1>1
<1>3. /\ DOMAIN nodes = 1..3 /\ nodes # <<>> /\ DOMAIN edges = 1..2
      /\ nodes[1] = a /\ nodes[2] = b /\ nodes[3] = c
      /\ edges[1] = edge("workstream-a") /\ edges[2] = edge("workstream-b")
  BY <1>2, Tuples
<1> QED BY <1>0, <1>3

\* The requirements of such a Plan are distinct.
LEMMA RequirementsDiffer ==
  LET A == Acceptance("workstream-a")
      B == Acceptance("workstream-b")
      M == Acceptance("mission-outcome")
  IN /\ Objective \notin {Constraint(1), Constraint(2), A, B, M}
     /\ Constraint(1) \notin {Constraint(2), A, B, M} /\ Constraint(2) \notin {A, B, M}
     /\ A # B /\ A # M /\ B # M
BY DEF Objective, Constraint, Acceptance

\* What short lists have in them, and when they are without repetition.
LEMMA Lists ==
  /\ \A x : IsInjective(<<x>>) /\ Range(<<x>>) = {x} /\ <<x>> # <<>>
  /\ \A x, y : /\ x # y => IsInjective(<<x, y>>)
              /\ Range(<<x, y>>) = {x, y} /\ <<x, y>> # <<>>
  /\ \A x, y, z : Range(<<x, y, z>>) = {x, y, z} /\ <<x, y, z>> # <<>>
  /\ \A x, y, z, w : /\ x \notin {y, z, w} /\ y \notin {z, w} /\ z # w => IsInjective(<<x, y, z, w>>)
                    /\ Range(<<x, y, z, w>>) = {x, y, z, w} /\ <<x, y, z, w>> # <<>>
<1>1. \A x : IsInjective(<<x>>) /\ Range(<<x>>) = {x} /\ <<x>> # <<>>
  BY DEF IsInjective, Range
<1>2. ASSUME NEW x, NEW y
      PROVE  /\ x # y => IsInjective(<<x, y>>)
             /\ Range(<<x, y>>) = {x, y} /\ <<x, y>> # <<>>
  BY DEF IsInjective, Range
<1>3. ASSUME NEW x, NEW y, NEW z PROVE Range(<<x, y, z>>) = {x, y, z} /\ <<x, y, z>> # <<>>
  BY DEF Range
<1>4. ASSUME NEW x, NEW y, NEW z, NEW w
      PROVE  /\ x \notin {y, z, w} /\ y \notin {z, w} /\ z # w => IsInjective(<<x, y, z, w>>)
             /\ Range(<<x, y, z, w>>) = {x, y, z, w} /\ <<x, y, z, w>> # <<>>
  <2>1. DOMAIN <<x, y, z, w>> = 1..4 /\ \A i \in 1..4 : i = 1 \/ i = 2 \/ i = 3 \/ i = 4
    OBVIOUS
  <2>2. /\ <<x, y, z, w>>[1] = x /\ <<x, y, z, w>>[2] = y
        /\ <<x, y, z, w>>[3] = z /\ <<x, y, z, w>>[4] = w
    OBVIOUS
  <2>3. PICK s : s = <<x, y, z, w>>
    OBVIOUS
  <2>4. DOMAIN s = 1..4 /\ s[1] = x /\ s[2] = y /\ s[3] = z /\ s[4] = w /\ s # <<>>
    BY <2>1, <2>2, <2>3
  <2>5. Range(s) = {x, y, z, w}
    BY <2>1, <2>4 DEF Range
  <2>6. x \notin {y, z, w} /\ y \notin {z, w} /\ z # w => IsInjective(s)
    BY <2>1, <2>4 DEF IsInjective
  <2> QED BY <2>3, <2>4, <2>5, <2>6
<1> QED BY <1>1, <1>2, <1>3, <1>4

\* A Plan that fits the draft stands in it, and in the Mission file.
LEMMA PlanIsDrafted ==
  ASSUME NEW form, PageSends(form), Plain(form), NEW doc, PlanFits(form, doc)
  PROVE  DraftGraphStands(PagePlan(form), doc)
<1>1. PICK plan : plan = PagePlan(form)
  OBVIOUS
<1>2. PICK nodes : nodes = PagePlan(form).nodes
  OBVIOUS
<1>3. PICK edges : edges = PagePlan(form).edges
  OBVIOUS
<1>4. /\ \A o \in {form.outputs, form.a.outputs, form.b.outputs} : IsInjective(o)
      /\ \A o \in {form.outputs, form.a.outputs, form.b.outputs} : Blank \notin Range(o)
  BY DEF Plain, PageSends, Lines
<1>5. ASSUME NEW n, IsIdentifier(n.id), n.title # Blank, n.kind \in NodeKinds,
             n.stage \in {"qoder-workstream", "claude-workstream", "qoder-consolidation"},
             n.requirements # <<>>, IsInjective(n.requirements),
             Range(n.requirements) \subseteq RequirementIds(doc),
             n.criteria \in {<<"workstream-a">>, <<"workstream-b">>, <<"mission-outcome">>},
             n.outputs \in {form.outputs, form.a.outputs, form.b.outputs}, n.scopes = <<"workspace">>
      PROVE  NodeStands(n, doc)
  <2>1. IsInjective(n.criteria) /\ Range(n.criteria) \subseteq Range(Column(doc.criteria, "id"))
    BY <1>5, Lists DEF PlanFits
  <2>2. IsInjective(n.scopes) /\ Range(n.scopes) = {"workspace"} /\ "workspace" # Blank
    BY <1>5, Lists DEF Blank
  <2>3. n.stage \in Range(Column(doc.stages, "stageId"))
    BY <1>5 DEF PlanFits
  <2> QED BY <1>4, <1>5, <2>1, <2>2, <2>3 DEF NodeStands
<1>6. /\ DOMAIN nodes = 1..3 /\ nodes # <<>> /\ DOMAIN edges = 1..2
      /\ nodes[1].id = "workstream-a" /\ nodes[2].id = "workstream-b" /\ nodes[3].id = "consolidate"
      /\ nodes[1].stage = "qoder-workstream" /\ nodes[2].stage = "claude-workstream"
      /\ nodes[3].stage = "qoder-consolidation"
  BY <1>2, <1>3, PlanShape
<1>7. NodeStands(nodes[1], doc)
  <2>1. PICK n : n = nodes[1]
    OBVIOUS
  <2>2. n = [id |-> "workstream-a", kind |-> "task", title |-> "workstream-a",
             stage |-> "qoder-workstream",
             requirements |-> <<Constraint(1), Acceptance("workstream-a")>>,
             criteria |-> <<"workstream-a">>, outputs |-> form.a.outputs,
             scopes |-> <<"workspace">>]
    BY <1>1, <1>2, <1>3, <2>1, PlanDrawn
  <2>3. IsInjective(n.requirements) /\ n.requirements # <<>>
        /\ Range(n.requirements) = {Constraint(1), Acceptance("workstream-a")}
    BY <2>2, Lists, RequirementsDiffer
  <2>4. Range(n.requirements) \subseteq RequirementIds(doc)
    BY <2>3 DEF PlanFits
  <2>5. IsIdentifier(n.id) /\ n.title # Blank /\ n.kind \in NodeKinds
    BY <2>2, NamesAreIdentifiers DEF NodeKinds
  <2> QED BY <1>5, <2>1, <2>2, <2>3, <2>4, <2>5
<1>8. NodeStands(nodes[2], doc)
  <2>1. PICK n : n = nodes[2]
    OBVIOUS
  <2>2. n = [id |-> "workstream-b", kind |-> "task", title |-> "workstream-b",
             stage |-> "claude-workstream",
             requirements |-> <<Constraint(2), Acceptance("workstream-b")>>,
             criteria |-> <<"workstream-b">>, outputs |-> form.b.outputs,
             scopes |-> <<"workspace">>]
    BY <1>1, <1>2, <1>3, <2>1, PlanDrawn
  <2>3. IsInjective(n.requirements) /\ n.requirements # <<>>
        /\ Range(n.requirements) = {Constraint(2), Acceptance("workstream-b")}
    BY <2>2, Lists, RequirementsDiffer
  <2>4. Range(n.requirements) \subseteq RequirementIds(doc)
    BY <2>3 DEF PlanFits
  <2>5. IsIdentifier(n.id) /\ n.title # Blank /\ n.kind \in NodeKinds
    BY <2>2, NamesAreIdentifiers DEF NodeKinds
  <2> QED BY <1>5, <2>1, <2>2, <2>3, <2>4, <2>5
<1>9. NodeStands(nodes[3], doc)
  <2>1. PICK n : n = nodes[3]
    OBVIOUS
  <2>2. n = [id |-> "consolidate", kind |-> "join", title |-> "consolidate",
             stage |-> "qoder-consolidation",
             requirements |-> <<Objective, Acceptance("workstream-a"),
                                Acceptance("workstream-b"), Acceptance("mission-outcome")>>,
             criteria |-> <<"mission-outcome">>, outputs |-> form.outputs,
             scopes |-> <<"workspace">>]
    BY <1>1, <1>2, <1>3, <2>1, PlanDrawn
  <2>3. IsInjective(n.requirements) /\ n.requirements # <<>>
        /\ Range(n.requirements) = {Objective, Acceptance("workstream-a"),
                                   Acceptance("workstream-b"), Acceptance("mission-outcome")}
    BY <2>2, Lists, RequirementsDiffer
  <2>4. Range(n.requirements) \subseteq RequirementIds(doc)
    BY <2>3 DEF PlanFits
  <2>5. IsIdentifier(n.id) /\ n.title # Blank /\ n.kind \in NodeKinds
    BY <2>2, NamesAreIdentifiers DEF NodeKinds
  <2> QED BY <1>5, <2>1, <2>2, <2>3, <2>4, <2>5
<1>10. /\ \A i \in 1..3 : i = 1 \/ i = 2 \/ i = 3
       /\ \A i \in 1..2 : i = 1 \/ i = 2
  OBVIOUS
<1>11. /\ \A n \in Range(nodes) : NodeStands(n, doc)
       /\ IsInjective(Column(nodes, "id")) /\ IsInjective(Column(nodes, "stage"))
       /\ {"workstream-a", "workstream-b", "consolidate"} \subseteq Range(Column(nodes, "id"))
  <2>1. \A n \in Range(nodes) : NodeStands(n, doc)
    BY <1>6, <1>7, <1>8, <1>9, <1>10 DEF Range
  <2>2. /\ DOMAIN Column(nodes, "id") = 1..3 /\ DOMAIN Column(nodes, "stage") = 1..3
        /\ \A i \in 1..3 : Column(nodes, "id")[i] = nodes[i].id /\ Column(nodes, "stage")[i] = nodes[i].stage
    BY <1>6 DEF Column
  <2>3. IsInjective(Column(nodes, "id")) /\ IsInjective(Column(nodes, "stage"))
    BY <1>6, <1>10, <2>2 DEF IsInjective
  <2>4. {"workstream-a", "workstream-b", "consolidate"} \subseteq Range(Column(nodes, "id"))
    BY <1>6, <2>2 DEF Range
  <2> QED BY <2>1, <2>3, <2>4
<1>12. /\ \A i \in 1..2 : /\ edges[i].from \in {"workstream-a", "workstream-b"} /\ edges[i].to = "consolidate"
                         /\ edges[i].relation = "join-input" /\ edges[i].evidence = <<edges[i].from>>
       /\ edges[1].from # edges[2].from
  <2>1. edges[1].from = "workstream-a" /\ edges[2].from = "workstream-b"
    BY <1>2, <1>3, PlanShape
  <2>2. edges[1].to = "consolidate" /\ edges[1].relation = "join-input" /\ edges[1].evidence = <<"workstream-a">>
    <3>1. PICK e : e = edges[1]
      OBVIOUS
    <3>2. e = [from |-> "workstream-a", to |-> "consolidate", relation |-> "join-input",
               evidence |-> <<"workstream-a">>]
      BY <1>3, <3>1, PlanDrawn
    <3>3. e.to = "consolidate" /\ e.relation = "join-input" /\ e.evidence = <<"workstream-a">>
      BY <3>2
    <3> QED BY <3>1, <3>3
  <2>3. edges[2].to = "consolidate" /\ edges[2].relation = "join-input" /\ edges[2].evidence = <<"workstream-b">>
    <3>1. PICK e : e = edges[2]
      OBVIOUS
    <3>2. e = [from |-> "workstream-b", to |-> "consolidate", relation |-> "join-input",
               evidence |-> <<"workstream-b">>]
      BY <1>3, <3>1, PlanDrawn
    <3>3. e.to = "consolidate" /\ e.relation = "join-input" /\ e.evidence = <<"workstream-b">>
      BY <3>2
    <3> QED BY <3>1, <3>3
  <2> QED BY <1>10, <2>1, <2>2, <2>3
<1>13. ASSUME NEW e \in Range(edges)
       PROVE  /\ {e.from, e.to} \subseteq Range(Column(nodes, "id")) /\ e.from # e.to
              /\ e.relation \in Relations /\ Blank \notin Range(e.evidence) /\ IsInjective(e.evidence)
  <2>1. PICK i \in 1..2 : e = edges[i]
    BY <1>6 DEF Range
  <2>2. /\ e.from \in {"workstream-a", "workstream-b"} /\ e.to = "consolidate"
        /\ e.relation = "join-input" /\ e.evidence = <<e.from>>
    BY <1>12, <2>1
  <2>3. IsInjective(e.evidence) /\ Range(e.evidence) = {e.from} /\ e.from # Blank
    BY <2>2, Lists, NamesAreIdentifiers
  <2> QED BY <1>11, <2>2, <2>3 DEF Relations
<1>14. IsInjective([i \in DOMAIN edges |-> <<edges[i].from, edges[i].to, edges[i].relation>>])
  <2>1. \A i, j \in 1..2 : edges[i].from = edges[j].from => i = j
    BY <1>10, <1>12
  <2> QED BY <1>6, <2>1 DEF IsInjective
<1> QED BY <1>1, <1>2, <1>3, <1>6, <1>11, <1>13, <1>14 DEF DraftGraphStands, GraphStands

\* The nodes and edges that the engine makes of that Plan.
LEMMA PlanNodes ==
  ASSUME NEW form, NEW spec, spec.plan = PagePlan(form), PagePlan(form) # None,
         NEW nodes, nodes = FirstNodes(spec), NEW edges, edges = FirstEdges(spec)
  PROVE  /\ DOMAIN nodes = {"workstream-a", "workstream-b", "consolidate"}
         /\ nodes["workstream-a"].requirements = {Constraint(1), Acceptance("workstream-a")}
         /\ nodes["workstream-b"].requirements = {Constraint(2), Acceptance("workstream-b")}
         /\ nodes["consolidate"].requirements = {Objective, Acceptance("workstream-a"),
                                Acceptance("workstream-b"), Acceptance("mission-outcome")}
         /\ \A n \in DOMAIN nodes : nodes[n].writes = {n}
         /\ nodes["workstream-a"].kind = "task" /\ nodes["workstream-b"].kind = "task"
         /\ edges = {<<"workstream-a", "consolidate">>, <<"workstream-b", "consolidate">>}
         /\ {n.id : n \in {x \in Range(spec.plan.nodes) : x.kind = "join"}} = {"consolidate"}
<1>1. PICK list : list = PagePlan(form).nodes
  OBVIOUS
<1>2. PICK links : links = PagePlan(form).edges
  OBVIOUS
<1> DEFINE Of(id) == CHOOSE n \in Range(list) : n.id = id
           Made(n, id) == [kind |-> n.kind, requirements |-> Range(n.requirements),
                           scopes |-> Range(n.scopes), writes |-> {id},
                           verified |-> n.kind = "join" \/ n.criteria # <<>>]
<1>3. nodes = [id \in Range(Column(list, "id")) |-> Made(Of(id), id)]
  BY <1>1 DEF FirstNodes
<1>4. /\ DOMAIN list = 1..3 /\ DOMAIN links = 1..2
      /\ list[1].id = "workstream-a" /\ list[2].id = "workstream-b" /\ list[3].id = "consolidate"
      /\ links[1].from = "workstream-a" /\ links[2].from = "workstream-b"
  BY <1>1, <1>2, PlanShape
<1>5. /\ \A i \in 1..3 : i = 1 \/ i = 2 \/ i = 3
      /\ \A i \in 1..2 : i = 1 \/ i = 2
  OBVIOUS
<1>6. Range(Column(list, "id")) = {"workstream-a", "workstream-b", "consolidate"}
  BY <1>4, <1>5 DEF Range, Column
<1>7. Range(list) = {list[1], list[2], list[3]}
  BY <1>4, <1>5 DEF Range
<1>8. Of("workstream-a") = list[1] /\ Of("workstream-b") = list[2] /\ Of("consolidate") = list[3]
  BY <1>4, <1>7
<1>9. list[1].requirements = <<Constraint(1), Acceptance("workstream-a")>> /\ list[1].kind = "task"
  <2>1. PICK n : n = list[1]
    OBVIOUS
  <2>2. n = [id |-> "workstream-a", kind |-> "task", title |-> "workstream-a",
             stage |-> "qoder-workstream",
             requirements |-> <<Constraint(1), Acceptance("workstream-a")>>,
             criteria |-> <<"workstream-a">>, outputs |-> form.a.outputs,
             scopes |-> <<"workspace">>]
    BY <1>1, <2>1, PlanDrawn
  <2> QED BY <2>1, <2>2
<1>10. list[2].requirements = <<Constraint(2), Acceptance("workstream-b")>> /\ list[2].kind = "task"
  <2>1. PICK n : n = list[2]
    OBVIOUS
  <2>2. n = [id |-> "workstream-b", kind |-> "task", title |-> "workstream-b",
             stage |-> "claude-workstream",
             requirements |-> <<Constraint(2), Acceptance("workstream-b")>>,
             criteria |-> <<"workstream-b">>, outputs |-> form.b.outputs,
             scopes |-> <<"workspace">>]
    BY <1>1, <2>1, PlanDrawn
  <2> QED BY <2>1, <2>2
<1>11. /\ list[3].requirements = <<Objective, Acceptance("workstream-a"),
                                   Acceptance("workstream-b"), Acceptance("mission-outcome")>>
       /\ list[3].kind = "join"
  <2>1. PICK n : n = list[3]
    OBVIOUS
  <2>2. n = [id |-> "consolidate", kind |-> "join", title |-> "consolidate",
             stage |-> "qoder-consolidation",
             requirements |-> <<Objective, Acceptance("workstream-a"),
                                Acceptance("workstream-b"), Acceptance("mission-outcome")>>,
             criteria |-> <<"mission-outcome">>, outputs |-> form.outputs,
             scopes |-> <<"workspace">>]
    BY <1>1, <2>1, PlanDrawn
  <2> QED BY <2>1, <2>2
<1>12. edges = {<<"workstream-a", "consolidate">>, <<"workstream-b", "consolidate">>}
  <2>1. links[1].to = "consolidate"
    <3>1. PICK e : e = links[1]
      OBVIOUS
    <3>2. e = [from |-> "workstream-a", to |-> "consolidate", relation |-> "join-input",
               evidence |-> <<"workstream-a">>]
      BY <1>2, <3>1, PlanDrawn
    <3> QED BY <3>1, <3>2
  <2>2. links[2].to = "consolidate"
    <3>1. PICK e : e = links[2]
      OBVIOUS
    <3>2. e = [from |-> "workstream-b", to |-> "consolidate", relation |-> "join-input",
               evidence |-> <<"workstream-b">>]
      BY <1>2, <3>1, PlanDrawn
    <3> QED BY <3>1, <3>2
  <2>3. edges = {<<e.from, e.to>> : e \in Range(links)}
    BY <1>2 DEF FirstEdges
  <2>4. Range(links) = {links[1], links[2]}
    BY <1>4, <1>5 DEF Range
  <2> QED BY <1>4, <2>1, <2>2, <2>3, <2>4
<1>13. /\ \A n, id : Made(n, id).writes = {id} /\ Made(n, id).kind = n.kind
       /\ \A n, id : Made(n, id).requirements = Range(n.requirements)
  OBVIOUS
<1> HIDE DEF Of, Made
<1>14. /\ DOMAIN nodes = {"workstream-a", "workstream-b", "consolidate"}
       /\ nodes["workstream-a"] = Made(list[1], "workstream-a")
       /\ nodes["workstream-b"] = Made(list[2], "workstream-b")
       /\ nodes["consolidate"] = Made(list[3], "consolidate")
  BY <1>3, <1>6, <1>8
<1>15. \A n \in DOMAIN nodes : nodes[n].writes = {n}
  BY <1>13, <1>14
<1>16. {n.id : n \in {x \in Range(list) : x.kind = "join"}} = {"consolidate"}
  <2>1. {x \in Range(list) : x.kind = "join"} = {list[3]}
    BY <1>7, <1>9, <1>10, <1>11
  <2> QED BY <1>4, <2>1
<1>17. Range(list[1].requirements) = {Constraint(1), Acceptance("workstream-a")}
  BY <1>9, Lists
<1>18. Range(list[2].requirements) = {Constraint(2), Acceptance("workstream-b")}
  BY <1>10, Lists
<1>19. Range(list[3].requirements) = {Objective, Acceptance("workstream-a"),
                                      Acceptance("workstream-b"), Acceptance("mission-outcome")}
  BY <1>11, Lists
<1> QED BY <1>1, <1>9, <1>10, <1>12, <1>13, <1>14, <1>15, <1>16, <1>17, <1>18, <1>19

\* The engine makes a Plan of it that stands, ends in its join and covers the Contract.
LEMMA PlanIsMadeUp ==
  ASSUME NEW form, NEW spec, spec.plan = PagePlan(form), PagePlan(form) # None,
         PlanFits(form, spec), Present(FirstContract(spec)) = RequirementIds(spec)
  PROVE  /\ PlanStands(FirstNodes(spec), FirstEdges(spec), FirstContract(spec)) /\ TerminalJoin(spec)
         /\ UNION {FirstNodes(spec)[n].requirements : n \in DOMAIN FirstNodes(spec)} = RequirementIds(spec)
<1>1. PICK nodes : nodes = FirstNodes(spec)
  OBVIOUS
<1>2. PICK edges : edges = FirstEdges(spec)
  OBVIOUS
<1> DEFINE a == "workstream-a"
           b == "workstream-b"
           c == "consolidate"
<1>3. /\ DOMAIN nodes = {a, b, c}
      /\ nodes[a].requirements = {Constraint(1), Acceptance("workstream-a")}
      /\ nodes[b].requirements = {Constraint(2), Acceptance("workstream-b")}
      /\ nodes[c].requirements = {Objective, Acceptance("workstream-a"),
                                  Acceptance("workstream-b"), Acceptance("mission-outcome")}
      /\ \A n \in DOMAIN nodes : nodes[n].writes = {n}
      /\ nodes[a].kind = "task" /\ nodes[b].kind = "task"
      /\ edges = {<<a, c>>, <<b, c>>}
      /\ {n.id : n \in {x \in Range(spec.plan.nodes) : x.kind = "join"}} = {c}
  BY <1>1, <1>2, PlanNodes
<1>4. a # b /\ a # c /\ b # c
  OBVIOUS
<1> HIDE DEF a, b, c
<1>5. RequirementIds(spec) = {Objective, Constraint(1), Constraint(2), Acceptance("workstream-a"),
                              Acceptance("workstream-b"), Acceptance("mission-outcome")}
  BY DEF PlanFits
<1>6. NodesStand(nodes, FirstContract(spec))
  BY <1>3, <1>5 DEF NodesStand
<1>7. Isolated(nodes)
  BY <1>3 DEF Isolated
<1>8. EdgesStand(nodes, edges)
  BY <1>3, <1>4 DEF EdgesStand
<1>9. Inputs(edges, a) = {} /\ Inputs(edges, b) = {} /\ Inputs(edges, c) = {a, b}
  <2>1. \A e \in edges : e[2] = c /\ e[1] \in {a, b}
    BY <1>3
  <2>2. <<a, c>> \in edges /\ <<b, c>> \in edges
    BY <1>3
  <2>3. Inputs(edges, a) = {} /\ Inputs(edges, b) = {}
    BY <1>4, <2>1 DEF Inputs
  <2>4. Inputs(edges, c) \subseteq {a, b}
    BY <2>1 DEF Inputs
  <2>5. \A n : <<n, c>> \in edges => n \in Inputs(edges, c)
    <3>1. \A n : <<n, c>>[1] = n /\ <<n, c>>[2] = c
      OBVIOUS
    <3> QED BY <3>1 DEF Inputs
  <2> QED BY <2>2, <2>3, <2>4, <2>5
<1>10. Acyclic(nodes, edges)
  <2>1. ASSUME NEW S, S \subseteq {a, b, c}, S # {} PROVE \E n \in S : Inputs(edges, n) \cap S = {}
    BY <1>9, <2>1
  <2> QED BY <1>3, <2>1 DEF Acyclic
<1>11. ShapesStand(nodes, edges)
  <2>1. Cardinality({a, b}) = 2
    <3>1. IsFiniteSet({a}) /\ Cardinality({a}) = 1
      BY FS_Singleton
    <3>2. Cardinality({a} \cup {b}) = 2
      BY <1>4, <3>1, FS_AddElement
    <3>3. {a} \cup {b} = {a, b}
      OBVIOUS
    <3> QED BY <3>2, <3>3
  <2>2. Cardinality(Inputs(edges, c)) >= 2 /\ Inputs(edges, c) # {}
    BY <1>9, <2>1
  <2> QED BY <1>3, <2>2 DEF ShapesStand
<1>12. TerminalJoin(spec)
  <2>1. \A e \in Range(spec.plan.edges) : e.from # c
    <3>1. PICK links : links = PagePlan(form).edges
      OBVIOUS
    <3>2. DOMAIN links = 1..2 /\ links[1].from = a /\ links[2].from = b /\ \A i \in 1..2 : i = 1 \/ i = 2
      BY <3>1, PlanShape DEF a, b
    <3> QED BY <1>4, <3>1, <3>2 DEF Range
  <2>2. Cardinality({c}) = 1
    BY FS_Singleton
  <2> QED BY <1>3, <2>1, <2>2 DEF TerminalJoin
<1>13. UNION {nodes[n].requirements : n \in DOMAIN nodes} = RequirementIds(spec)
  BY <1>3, <1>5
<1> QED BY <1>1, <1>2, <1>6, <1>7, <1>8, <1>10, <1>11, <1>12, <1>13 DEF PlanStands

\* A Mission without a Plan: its stages are a chain.
LEMMA ChainIsMadeUp ==
  ASSUME NEW spec, spec.plan = None, NEW n \in 1..3,
         DOMAIN spec.stages = 1..n, Len(spec.stages) = n,
         \A i, j \in 1..n : spec.stages[i].stageId = spec.stages[j].stageId => i = j,
         Present(FirstContract(spec)) = RequirementIds(spec)
  PROVE  PlanStands(FirstNodes(spec), FirstEdges(spec), FirstContract(spec)) /\ TerminalJoin(spec)
<1>1. PICK nodes : nodes = FirstNodes(spec)
  OBVIOUS
<1>2. PICK edges : edges = FirstEdges(spec)
  OBVIOUS
<1> DEFINE id(i) == spec.stages[i].stageId
<1>3. Range(Column(spec.stages, "stageId")) = {id(i) : i \in 1..n}
  BY DEF Range, Column
<1>4. nodes = [s \in {id(i) : i \in 1..n} |->
                 [kind |-> "task", requirements |-> RequirementIds(spec), scopes |-> {"workspace"},
                  writes |-> {}, verified |-> TRUE]]
  BY <1>1, <1>3 DEF FirstNodes
<1>5. edges = {<<id(i), id(i + 1)>> : i \in 1..(n - 1)}
  BY <1>2 DEF FirstEdges
<1>6. \A i, j \in 1..n : id(i) = id(j) => i = j
  OBVIOUS
<1> HIDE DEF id
<1>7. /\ DOMAIN nodes = {id(i) : i \in 1..n}
      /\ \A s \in DOMAIN nodes : /\ nodes[s].kind = "task" /\ nodes[s].writes = {}
                                /\ nodes[s].requirements = RequirementIds(spec)
  BY <1>4
<1>8. NodesStand(nodes, FirstContract(spec))
  <2>1. Objective \in RequirementIds(spec)
    BY DEF RequirementIds
  <2>2. id(1) \in DOMAIN nodes
    BY <1>7
  <2> QED BY <1>7, <2>1, <2>2 DEF NodesStand
<1>9. Isolated(nodes)
  BY <1>7 DEF Isolated
<1>10. \A i \in 1..(n - 1) : i \in 1..n /\ i + 1 \in 1..n /\ i # i + 1
  OBVIOUS
<1>11. EdgesStand(nodes, edges)
  <2>1. ASSUME NEW e \in edges PROVE {e[1], e[2]} \subseteq DOMAIN nodes /\ e[1] # e[2]
    <3>1. PICK i \in 1..(n - 1) : e = <<id(i), id(i + 1)>>
      BY <1>5
    <3> QED BY <1>6, <1>7, <1>10, <3>1
  <2> QED BY <2>1 DEF EdgesStand
<1>12. \A k \in 1..n : \A m \in Inputs(edges, id(k)) : \E i \in 1..n : m = id(i) /\ i + 1 = k
  <2>1. ASSUME NEW k \in 1..n, NEW m \in Inputs(edges, id(k))
        PROVE  \E i \in 1..n : m = id(i) /\ i + 1 = k
    <3>1. PICK e \in edges : e[2] = id(k) /\ m = e[1]
      BY <2>1 DEF Inputs
    <3>2. PICK i \in 1..(n - 1) : e = <<id(i), id(i + 1)>>
      BY <1>5, <3>1
    <3> QED BY <1>6, <1>10, <3>1, <3>2
  <2> QED BY <2>1
<1>13. Acyclic(nodes, edges)
  <2>1. ASSUME NEW S, S \subseteq DOMAIN nodes, S # {} PROVE \E s \in S : Inputs(edges, s) \cap S = {}
    <3>1. PICK k \in 1..n : id(k) \in S /\ \A i \in 1..n : id(i) \in S => k <= i
      <4>1. PICK i \in 1..n : id(i) \in S
        BY <1>7, <2>1
      <4>2. CASE 1 \in 1..n /\ id(1) \in S
        BY <4>2
      <4>3. CASE 2 \in 1..n /\ id(2) \in S /\ id(1) \notin S
        BY <4>3
      <4>4. CASE 3 \in 1..n /\ id(3) \in S /\ id(1) \notin S /\ id(2) \notin S
        BY <4>4
      <4>5. i = 1 \/ i = 2 \/ i = 3
        OBVIOUS
      <4> QED BY <4>1, <4>2, <4>3, <4>4, <4>5
    <3>2. ASSUME NEW m \in Inputs(edges, id(k)), m \in S PROVE FALSE
      BY <1>12, <3>1, <3>2
    <3> QED BY <3>1, <3>2
  <2> QED BY <2>1 DEF Acyclic
<1>14. ShapesStand(nodes, edges)
  BY <1>7 DEF ShapesStand
<1> QED BY <1>1, <1>2, <1>8, <1>9, <1>11, <1>13, <1>14 DEF PlanStands, TerminalJoin

\* The requirements and criteria of a Mission file, or what it resolves to, with a Plan.
LEMMA PlanIds ==
  ASSUME NEW d, NEW x, NEW y, d.constraints = <<x, y>>, DOMAIN d.criteria = 1..3,
         d.criteria[1].id = "workstream-a", d.criteria[2].id = "workstream-b",
         d.criteria[3].id = "mission-outcome"
  PROVE  /\ RequirementIds(d) = {Objective, Constraint(1), Constraint(2), Acceptance("workstream-a"),
                                 Acceptance("workstream-b"), Acceptance("mission-outcome")}
         /\ Range(Column(d.criteria, "id")) = {"workstream-a", "workstream-b", "mission-outcome"}
<1>1. PICK c : c = d.criteria
  OBVIOUS
<1>2. \A i \in 1..3 : i = 1 \/ i = 2 \/ i = 3
  OBVIOUS
<1>3. Range(c) = {c[1], c[2], c[3]}
  BY <1>1, <1>2 DEF Range
<1>4. {Acceptance(k.id) : k \in Range(c)} = {Acceptance(c[1].id), Acceptance(c[2].id), Acceptance(c[3].id)}
  BY <1>3
<1>5. {Constraint(i) : i \in DOMAIN d.constraints} = {Constraint(1), Constraint(2)}
  <2>1. DOMAIN d.constraints = {1, 2}
    BY Tuples
  <2> QED BY <2>1
<1>6. RequirementIds(d) = {Objective} \cup {Constraint(i) : i \in DOMAIN d.constraints}
                            \cup {Acceptance(k.id) : k \in Range(c)}
  BY <1>1 DEF RequirementIds
<1>7. Range(Column(c, "id")) = {"workstream-a", "workstream-b", "mission-outcome"}
  <2>1. DOMAIN Column(c, "id") = 1..3 /\ \A i \in 1..3 : Column(c, "id")[i] = c[i].id
    BY <1>1 DEF Column
  <2> QED BY <1>1, <1>2, <2>1 DEF Range
<1> QED BY <1>1, <1>4, <1>5, <1>6, <1>7

\* What the engine finds in the Mission file of a request, whatever its texts say.
LEMMA ContractOfForm ==
  ASSUME NEW i \in DOMAIN Forms, NEW q, q = Payload(Forms[i]), NEW spec, spec = Resolved(Document(q))
  PROVE  /\ Present(FirstContract(spec)) = RequirementIds(spec)
         /\ Present(Contract(spec)) = RequirementIds(spec)
         /\ DOMAIN spec.criteria = DOMAIN Criteria(q) /\ spec.criteria # <<>>
         /\ \A k \in DOMAIN spec.criteria :
              /\ spec.criteria[k] = Expanded(Criteria(q)[k])
              /\ spec.criteria[k].id = Criteria(q)[k].id
              /\ spec.criteria[k].description = Criteria(q)[k].description
         /\ Forms[i].route = "mission-plan" =>
              /\ RequirementIds(spec) = {Objective, Constraint(1), Constraint(2), Acceptance("workstream-a"),
                                 Acceptance("workstream-b"), Acceptance("mission-outcome")}
              /\ RequirementIds(Document(q)) = RequirementIds(spec)
              /\ Range(Column(spec.criteria, "id")) = {"workstream-a", "workstream-b", "mission-outcome"}
              /\ Range(Column(Document(q).criteria, "id")) = Range(Column(spec.criteria, "id"))
<1>1. PICK form : form = Forms[i]
  OBVIOUS
<1>2. PICK doc : doc = Document(q)
  OBVIOUS
<1>3. PICK c : c = Criteria(q)
  OBVIOUS
<1> DEFINE ra == form.a.requirement
           rb == form.b.requirement
<1>4. PageCriteria(form) # None /\ Absent \notin {form.objective, ra, rb}
  BY <1>1, FormAssumption DEF Unmarked
<1>5. /\ doc.objective = form.objective /\ doc.criteria = c
      /\ doc.constraints = (IF form.route = "mission-plan" THEN <<ra, rb>> ELSE <<>>)
      /\ spec.objective = doc.objective /\ spec.constraints = doc.constraints
      /\ DOMAIN spec.criteria = DOMAIN doc.criteria
      /\ \A k \in DOMAIN doc.criteria : spec.criteria[k] = Expanded(doc.criteria[k])
  <2>1. q = Payload(form) /\ doc = Document(q) /\ spec = Resolved(doc) /\ Unmarked(form)
    BY <1>1, <1>2, FormAssumption
  <2>2. doc.objective = form.objective
    BY <2>1, SpecIs
  <2>5. doc.criteria = Criteria(q)
    BY <2>1, SpecIs
  <2>6. spec.objective = doc.objective
    BY <2>1, SpecIs
  <2>7. spec.constraints = doc.constraints
    BY <2>1, SpecIs
  <2>3. /\ form.route = "mission-plan" => doc.constraints = <<ra, rb>>
        /\ form.route # "mission-plan" => doc.constraints = <<>>
    BY <2>1, SpecIs
  <2>4. /\ DOMAIN spec.criteria = DOMAIN doc.criteria
        /\ \A k \in DOMAIN doc.criteria : spec.criteria[k] = Expanded(doc.criteria[k])
    BY <2>1, ListsAre
  <2> QED BY <1>3, <2>2, <2>3, <2>4, <2>5, <2>6, <2>7
<1> HIDE DEF ra, rb
<1>6. /\ DOMAIN c = (IF form.route = "mission-plan" THEN 1..3 ELSE 1..1)
      /\ \A k \in DOMAIN c :
           /\ DOMAIN c[k] = {"id", "description", "verifier"}
           /\ c[k].description \in {"the-objective", "workstream-a", "workstream-b", "mission-outcome"}
      /\ form.route = "mission-plan" =>
           c[1].id = "workstream-a" /\ c[2].id = "workstream-b" /\ c[3].id = "mission-outcome"
  BY <1>1, <1>3, <1>4, CriteriaAre
<1>7. /\ DOMAIN spec.criteria = DOMAIN c
      /\ \A k \in DOMAIN c : spec.criteria[k] = Expanded(c[k])
  BY <1>5
<1>8. \A k \in DOMAIN c : spec.criteria[k].id = c[k].id /\ spec.criteria[k].description = c[k].description
  <2>1. \A x : DOMAIN x = {"id", "description", "verifier"}
                => Expanded(x).id = x.id /\ Expanded(x).description = x.description
    BY DEF Expanded
  <2> QED BY <1>6, <1>7, <2>1
<1>9. spec.criteria # <<>>
  <2>1. 1 \in DOMAIN spec.criteria
    BY <1>6, <1>7
  <2> QED BY <2>1
<1>10. \A k \in DOMAIN spec.constraints : spec.constraints[k] # Absent
  <2>1. \A x, y : \A k \in DOMAIN <<x, y>> : <<x, y>>[k] \in {x, y}
    OBVIOUS
  <2>2. DOMAIN <<>> = {}
    OBVIOUS
  <2> QED BY <1>4, <1>5, <2>1, <2>2
<1>11. \A k \in DOMAIN spec.criteria : spec.criteria[k].description # Absent
  BY <1>6, <1>7, <1>8, MarkAssumption
<1>12. /\ Present(FirstContract(spec)) = RequirementIds(spec)
       /\ Present(Contract(spec)) = RequirementIds(spec)
  BY <1>4, <1>5, <1>10, <1>11, ContractIs
<1>13. ASSUME form.route = "mission-plan"
       PROVE  /\ RequirementIds(spec) = {Objective, Constraint(1), Constraint(2), Acceptance("workstream-a"),
                                 Acceptance("workstream-b"), Acceptance("mission-outcome")}
              /\ RequirementIds(doc) = RequirementIds(spec)
              /\ Range(Column(spec.criteria, "id")) = {"workstream-a", "workstream-b", "mission-outcome"}
              /\ Range(Column(doc.criteria, "id")) = Range(Column(spec.criteria, "id"))
  <2>1. /\ DOMAIN c = 1..3 /\ spec.constraints = <<ra, rb>> /\ doc.constraints = <<ra, rb>>
        /\ c[1].id = "workstream-a" /\ c[2].id = "workstream-b" /\ c[3].id = "mission-outcome"
    BY <1>5, <1>6, <1>13
  <2>2. /\ DOMAIN spec.criteria = 1..3 /\ spec.criteria[1].id = "workstream-a"
        /\ spec.criteria[2].id = "workstream-b" /\ spec.criteria[3].id = "mission-outcome"
    BY <1>7, <1>8, <2>1
  <2>3. /\ DOMAIN doc.criteria = 1..3 /\ doc.criteria[1].id = "workstream-a"
        /\ doc.criteria[2].id = "workstream-b" /\ doc.criteria[3].id = "mission-outcome"
    BY <1>5, <2>1
  <2> QED BY <2>1, <2>2, <2>3, PlanIds
<1> QED BY <1>1, <1>2, <1>3, <1>7, <1>8, <1>9, <1>12, <1>13

-----------------------------------------------------------------------------
(* What a plain form comes to.                                             *)

\* The first requests are those of the forms.
LEMMA FormRequest ==
  ASSUME NEW i \in DOMAIN Forms
  PROVE  i \in DOMAIN Requests /\ Requests[i] = Payload(Forms[i]) /\ i # 0
<1>1. Forms \in Seq(Range(Forms)) /\ Bodies \in Seq(Range(Bodies))
  BY FormAssumption
<1>2. PICK f : f = [k \in DOMAIN Forms |-> Payload(Forms[k])]
  OBVIOUS
<1>3. PICK n \in Nat : DOMAIN Forms = 1..n
  BY <1>1
<1>4. DOMAIN f = 1..n /\ \A k \in 1..n : f[k] = Payload(Forms[k])
  BY <1>2, <1>3
<1>5. f \in Seq(Range(f)) /\ Len(f) = n
  <2>1. f = [k \in 1..n |-> f[k]]
    BY <1>2, <1>3
  <2>2. \A k \in 1..n : f[k] \in Range(f)
    BY <1>4 DEF Range
  <2>3. f \in [1..n -> Range(f)]
    BY <2>1, <2>2
  <2> QED BY <1>4, <2>3
<1>6. Requests = f \o Bodies
  BY <1>2 DEF Requests
<1>7. i \in 1..Len(f) /\ i # 0
  BY <1>3, <1>5
<1>8. i \in 1..(Len(f) + Len(Bodies))
  BY <1>1, <1>5, <1>7
<1>9. Requests[i] = f[i] /\ i \in DOMAIN Requests
  BY <1>1, <1>5, <1>6, <1>7, <1>8
<1> QED BY <1>4, <1>5, <1>7, <1>9

\* The Mission file of a plain form holds nothing that looks like a credential, nor
\* does what it resolves to.
LEMMA NothingSecret ==
  ASSUME NEW d, Secret \notin {d.title, d.objective}, 
         \A k \in DOMAIN d.constraints : d.constraints[k] # Secret,
         \A k \in DOMAIN d.criteria : /\ Secret \notin Range(d.criteria[k].verifier.args)
                                      /\ d.criteria[k].description # Secret,
         \A k \in DOMAIN d.stages :
            Secret \notin {d.stages[k].model, d.stages[k].instruction, d.stages[k].providerWorkspaceRef}
  PROVE  ~HoldsSecret(d)
<1>1. Secret \notin Range(d.constraints)
  BY DEF Range
<1>2. \A c \in Range(d.criteria) : Secret \notin Range(c.verifier.args) \cup {c.description}
  BY DEF Range
<1>3. \A s \in Range(d.stages) : Secret \notin {s.model, s.instruction, s.providerWorkspaceRef}
  BY DEF Range
<1> QED BY <1>1, <1>2, <1>3 DEF HoldsSecret

\* No credential comes in with what an argument is expanded to.
LEMMA ExpandedStands ==
  ASSUME NEW c, PlainCriterion(c)
  PROVE  /\ Secret \notin Range(Expanded(c).verifier.args)
         /\ Expanded(c).description = c.description
<1>1. PICK args : args = c.verifier.args
  OBVIOUS
<1>2. PICK long : long = [a \in DOMAIN args |-> Expand(args[a])]
  OBVIOUS
<1>3. PICK x : x = Expanded(c)
  OBVIOUS
<1>4. x = [c EXCEPT !.verifier.args = long]
  BY <1>1, <1>2, <1>3 DEF Expanded
<1>5. /\ DOMAIN c = {"id", "description", "verifier"}
      /\ DOMAIN c.verifier = {"executable", "args", "timeoutMs"}
      /\ Secret \notin Range(args)
  BY <1>1 DEF PlainCriterion
<1>6. x.description = c.description /\ x.verifier.args = long
  BY <1>4, <1>5
<1>7. Secret \notin Range(long)
  <2>1. \A a \in DOMAIN args : Expand(args[a]) # Secret
    BY <1>5 DEF Range, Expand, Secret
  <2> QED BY <1>2, <2>1 DEF Range
<1> QED BY <1>3, <1>6, <1>7

\* What the draft, the Mission file and the engine find in a plain form.
LEMMA PlainFiles ==
  ASSUME NEW i \in DOMAIN Forms, NEW form, form = Forms[i], Plain(form),
         NEW q, q = Payload(form), NEW doc, doc = Document(q), NEW spec, spec = Resolved(doc)
  PROVE  /\ \E n \in 1..3 : /\ DOMAIN q.stages = 1..n /\ Len(q.stages) = n
                            /\ DOMAIN doc.stages = 1..n /\ Len(doc.stages) = n
                            /\ doc.stages[n].onFailure = "stop"
         /\ \A k \in DOMAIN q.stages : PlainStage(q.stages[k])
         /\ \A k \in DOMAIN doc.stages : SpecStageStands(doc.stages[k])
         /\ \A j, k \in DOMAIN q.stages : q.stages[j].stageId = q.stages[k].stageId => j = k
         /\ \A j, k \in DOMAIN doc.stages : doc.stages[j].stageId = doc.stages[k].stageId => j = k
         /\ \A k \in DOMAIN doc.criteria : PlainCriterion(doc.criteria[k])
         /\ form.route = "mission-plan" => PlanFits(form, doc) /\ PlanFits(form, spec)
         /\ ~HoldsSecret(doc) /\ ~HoldsSecret(spec)
<1>1. PageSends(form) /\ Unmarked(form) /\ PageCriteria(form) # None
  BY FormAssumption DEF Unmarked
<1>2. PICK s : s = q.stages
  OBVIOUS
<1>3. s = RouteStages(form)
  BY <1>2 DEF Payload
<1>4. \A k \in DOMAIN s : PlainStage(s[k])
  BY <1>1, <1>3, RouteIs
<1>5. \A j, k \in DOMAIN s : s[j].stageId = s[k].stageId => j = k
  BY <1>1, <1>3, RouteIs
<1>6. form.route = "mission-plan" =>
        /\ DOMAIN s = 1..3 /\ s[1].stageId = "qoder-workstream"
        /\ s[2].stageId = "claude-workstream" /\ s[3].stageId = "qoder-consolidation"
  BY <1>1, <1>3, RouteIs
<1>7. PICK t : t = doc.stages
  OBVIOUS
<1>8. /\ DOMAIN t = DOMAIN q.stages
      /\ \A k \in DOMAIN q.stages : t[k] = Filed(q.stages[k], OnFailure(q.stages, k))
  BY <1>7, ListsAre
<1>9. \E n \in 1..3 : DOMAIN t = 1..n /\ Len(t) = n /\ t[n].onFailure = "stop"
  BY <1>1, <1>8, StagesAreFiled
<1>10. \A k \in DOMAIN t : /\ SpecStageStands(t[k]) /\ t[k].stageId = s[k].stageId
                           /\ Secret \notin {t[k].model, t[k].instruction, t[k].providerWorkspaceRef}
  BY <1>1, <1>2, <1>8, StagesAreFiled
<1>11. \A j, k \in DOMAIN t : t[j].stageId = t[k].stageId => j = k
  BY <1>1, <1>8, StagesAreFiled
<1>12. PICK n \in 1..3 : DOMAIN s = 1..n /\ Len(s) = n
  BY <1>1, <1>3, RouteIs
<1>13. PICK m \in 1..3 : DOMAIN t = 1..m /\ Len(t) = m /\ t[m].onFailure = "stop"
  BY <1>9
<1>14. m = n
  <2>1. 1..m = 1..n
    BY <1>2, <1>8, <1>12, <1>13
  <2> QED BY <2>1
<1>15. /\ DOMAIN spec.criteria = DOMAIN doc.criteria /\ doc.criteria = Criteria(q)
       /\ \A k \in DOMAIN doc.criteria : spec.criteria[k] = Expanded(doc.criteria[k])
  <2>1. doc.criteria = Criteria(q)
    BY <1>1, SpecIs
  <2>2. /\ DOMAIN spec.criteria = DOMAIN doc.criteria
        /\ \A k \in DOMAIN doc.criteria : spec.criteria[k] = Expanded(doc.criteria[k])
    BY ListsAre
  <2> QED BY <2>1, <2>2
<1>16. \A k \in DOMAIN doc.criteria : PlainCriterion(doc.criteria[k])
  <2>1. PICK c : c = Criteria(q)
    OBVIOUS
  <2>2. \A k \in DOMAIN c : PlainCriterion(c[k])
    BY <1>1, <2>1, CriteriaAre
  <2> QED BY <1>15, <2>1, <2>2
<1>17. /\ doc.title = form.title /\ doc.objective = form.objective
       /\ form.route = "mission-plan" => doc.constraints = <<form.a.requirement, form.b.requirement>>
       /\ form.route # "mission-plan" => doc.constraints = <<>>
  <2>1. doc.title = form.title
    BY <1>1, SpecIs
  <2>2. doc.objective = form.objective
    BY <1>1, SpecIs
  <2>3. /\ form.route = "mission-plan" => doc.constraints = <<form.a.requirement, form.b.requirement>>
        /\ form.route # "mission-plan" => doc.constraints = <<>>
    BY <1>1, SpecIs
  <2> QED BY <2>1, <2>2, <2>3
<1>18. spec.title = doc.title /\ spec.objective = doc.objective /\ spec.constraints = doc.constraints
       /\ spec.stages = doc.stages
  <2>1. spec.title = doc.title
    BY <1>1, SpecIs
  <2>2. spec.objective = doc.objective
    BY <1>1, SpecIs
  <2>3. spec.constraints = doc.constraints
    BY <1>1, SpecIs
  <2>4. spec.stages = doc.stages
    BY <1>1, SpecIs
  <2> QED BY <2>1, <2>2, <2>3, <2>4
<1>19. form.route = "mission-plan" => PlanFits(form, doc) /\ PlanFits(form, spec)
  <2> SUFFICES ASSUME form.route = "mission-plan" PROVE PlanFits(form, doc) /\ PlanFits(form, spec)
    OBVIOUS
  <2>1. Range(Column(t, "stageId")) = {"qoder-workstream", "claude-workstream", "qoder-consolidation"}
    <3>1. DOMAIN Column(t, "stageId") = 1..3 /\ \A k \in 1..3 : Column(t, "stageId")[k] = s[k].stageId
      BY <1>2, <1>6, <1>8, <1>10 DEF Column
    <3>2. \A k \in 1..3 : k = 1 \/ k = 2 \/ k = 3
      OBVIOUS
    <3> QED BY <1>6, <3>1, <3>2 DEF Range
  <2>2. /\ RequirementIds(spec) = {Objective, Constraint(1), Constraint(2), Acceptance("workstream-a"),
                                 Acceptance("workstream-b"), Acceptance("mission-outcome")}
        /\ RequirementIds(doc) = RequirementIds(spec)
        /\ Range(Column(spec.criteria, "id")) = {"workstream-a", "workstream-b", "mission-outcome"}
        /\ Range(Column(doc.criteria, "id")) = Range(Column(spec.criteria, "id"))
    BY ContractOfForm
  <2> QED BY <1>7, <1>18, <2>1, <2>2 DEF PlanFits
<1>20. \A k \in DOMAIN doc.constraints : doc.constraints[k] # Secret
  <2>1. \A x, y : \A k \in DOMAIN <<x, y>> : <<x, y>>[k] \in {x, y}
    OBVIOUS
  <2>2. DOMAIN <<>> = {}
    OBVIOUS
  <2>3. Secret \notin {form.a.requirement, form.b.requirement}
    BY DEF Plain
  <2> QED BY <1>17, <2>1, <2>2, <2>3
<1>21. Secret \notin {form.title, form.objective}
  BY DEF Plain
<1>22. \A k \in DOMAIN doc.criteria : /\ Secret \notin Range(doc.criteria[k].verifier.args)
                                      /\ doc.criteria[k].description # Secret
  BY <1>16, NamesAreIdentifiers DEF PlainCriterion
<1>23. \A k \in DOMAIN spec.criteria : /\ Secret \notin Range(spec.criteria[k].verifier.args)
                                       /\ spec.criteria[k].description # Secret
  BY <1>15, <1>16, <1>22, ExpandedStands
<1>24. ~HoldsSecret(doc)
  BY <1>7, <1>10, <1>17, <1>20, <1>21, <1>22, NothingSecret
<1>25. ~HoldsSecret(spec)
  BY <1>7, <1>10, <1>17, <1>18, <1>20, <1>21, <1>23, NothingSecret
<1> QED BY <1>2, <1>4, <1>5, <1>7, <1>10, <1>11, <1>12, <1>13, <1>14, <1>16, <1>19, <1>24, <1>25

\* The request of a plain form is a draft.
LEMMA PlainDraft ==
  ASSUME NEW i \in DOMAIN Forms, Plain(Forms[i])
  PROVE  DraftStands(Payload(Forms[i]))
<1>1. PICK form : form = Forms[i]
  OBVIOUS
<1>2. PICK q : q = Payload(form)
  OBVIOUS
<1>3. PICK doc : doc = Document(q)
  OBVIOUS
<1>4. PageSends(form) /\ Unmarked(form) /\ Plain(form)
  BY <1>1, FormAssumption
<1> DEFINE planned == form.route = "mission-plan"
           both == <<form.a.requirement, form.b.requirement>>
           criteria == PageCriteria(form)
           verifier == Verifier(form, form.args)
           plan == PagePlan(form)
<1>5. /\ q.title = form.title /\ q.objective = form.objective /\ q.workspace = form.workspace
      /\ q.constraints = (IF planned THEN both ELSE <<>>)
      /\ q.context = None /\ q.verifier = (IF planned THEN None ELSE verifier)
      /\ q.criteria = (IF planned THEN criteria ELSE None)
      /\ q.plan = (IF planned THEN plan ELSE None)
  BY <1>2 DEF Payload
<1>6. /\ both # None /\ criteria # None /\ verifier # None /\ None # <<>>
  BY <1>4, MarkAssumption DEF Unmarked
<1>7. Blank \notin {q.title, q.objective, q.workspace} \cup Range(Given(q.constraints))
  <2>1. Given(q.constraints) = q.constraints
    BY <1>5, <1>6 DEF Given
  <2>2. Blank \notin {q.title, q.objective, q.workspace}
    BY <1>4, <1>5 DEF PageSends
  <2>3. Range(both) = {form.a.requirement, form.b.requirement} /\ Range(<<>>) = {}
    BY Lists DEF Range
  <2>4. planned => Blank \notin {form.a.requirement, form.b.requirement}
    BY <1>4 DEF PageSends
  <2> QED BY <1>5, <2>1, <2>2, <2>3, <2>4
<1>8. q.workspace # "relative"
  BY <1>4, <1>5 DEF Plain
<1>9. DraftContextStands(q.context)
  BY <1>5 DEF DraftContextStands
<1>10. CriteriaStand(q)
  <2>1. PICK c : c = Criteria(q)
    OBVIOUS
  <2>2. c # <<>> /\ \A j, k \in DOMAIN c : c[j].id = c[k].id => j = k
    BY <1>2, <1>6, <2>1, CriteriaAre
  <2>3. \A k \in DOMAIN c : PlainCriterion(c[k])
    BY <1>2, <1>4, <1>6, <2>1, CriteriaAre
  <2>4. \A k \in DOMAIN c : /\ IsIdentifier(c[k].id) /\ c[k].description # Blank
                            /\ VerifierStands(c[k].verifier)
    BY <2>3, NamesAreIdentifiers DEF PlainCriterion
  <2>5. (q.criteria = None) # (q.verifier = None)
    BY <1>5, <1>6
  <2>6. q.criteria # <<>>
    BY <1>5, <1>6, <2>1, <2>2 DEF Criteria
  <2>7. IsInjective(Column(c, "id"))
    BY <2>2 DEF IsInjective, Column
  <2> QED BY <2>1, <2>4, <2>5, <2>6, <2>7 DEF CriteriaStand, Range
<1> HIDE DEF both, criteria, verifier, plan
<1>11. /\ \A k \in DOMAIN q.stages : PlainStage(q.stages[k])
       /\ \A j, k \in DOMAIN q.stages : q.stages[j].stageId = q.stages[k].stageId => j = k
  BY <1>1, <1>2, <1>3, <1>4, PlainFiles
<1>12. PICK n \in 1..3 : DOMAIN q.stages = 1..n /\ Len(q.stages) = n
  BY <1>1, <1>2, <1>3, <1>4, PlainFiles
<1>13. Len(q.stages) \in 1..MaxRuntimeProfiles
  BY <1>12 DEF MaxRuntimeProfiles
<1>14. \A s \in Range(q.stages) : StageStands(s)
  BY <1>11 DEF Range, PlainStage
<1>15. IsInjective(Column(q.stages, "stageId"))
  BY <1>11 DEF IsInjective, Column
<1>16. q.stages[Len(q.stages)].onFailure # "handoff"
  <2>1. n \in DOMAIN q.stages
    BY <1>12
  <2> QED BY <1>11, <1>12, <2>1, NoneIsNoText DEF PlainStage
<1>17. q.plan # None => DraftGraphStands(q.plan, doc)
  <2> SUFFICES ASSUME planned PROVE DraftGraphStands(PagePlan(form), doc)
    BY <1>5 DEF plan
  <2>1. PlanFits(form, doc)
    BY <1>1, <1>2, <1>3, <1>4, PlainFiles
  <2> QED BY <1>4, <2>1, PlanIsDrafted
<1>18. ~HoldsSecret(doc)
  BY <1>1, <1>2, <1>3, <1>4, PlainFiles
<1> QED BY <1>1, <1>2, <1>3, <1>7, <1>8, <1>9, <1>10, <1>13, <1>14, <1>15, <1>16, <1>17, <1>18 DEF DraftStands

\* The engine loads the Mission file of a plain form and makes the Mission.
LEMMA PlainMission ==
  ASSUME NEW i \in DOMAIN Forms, Plain(Forms[i])
  PROVE  Loads(Document(Payload(Forms[i]))) /\ Creates(Resolved(Document(Payload(Forms[i]))))
<1>1. PICK form : form = Forms[i]
  OBVIOUS
<1>2. PICK q : q = Payload(form)
  OBVIOUS
<1>3. PICK doc : doc = Document(q)
  OBVIOUS
<1>4. PICK spec : spec = Resolved(doc)
  OBVIOUS
<1>5. PageSends(form) /\ Unmarked(form) /\ Plain(form)
  BY <1>1, FormAssumption
<1>6. spec.context = None /\ doc.context = None
  <2>1. spec.context = None
    BY <1>2, <1>3, <1>4, <1>5, SpecIs
  <2>2. doc.context = None
    BY <1>2, <1>3, <1>4, <1>5, SpecIs
  <2> QED BY <2>1, <2>2
<1>7. spec.title = form.title /\ spec.objective = form.objective /\ spec.workspace = form.workspace
      /\ spec.constraints = doc.constraints
  <2>1. spec.title = form.title
    BY <1>2, <1>3, <1>4, <1>5, SpecIs
  <2>2. spec.objective = form.objective
    BY <1>2, <1>3, <1>4, <1>5, SpecIs
  <2>3. spec.workspace = form.workspace
    BY <1>2, <1>3, <1>4, <1>5, SpecIs
  <2>4. spec.constraints = doc.constraints
    BY <1>2, <1>3, <1>4, <1>5, SpecIs
  <2> QED BY <2>1, <2>2, <2>3, <2>4
<1>8. /\ form.route = "mission-plan" => doc.constraints = <<form.a.requirement, form.b.requirement>>
      /\ form.route # "mission-plan" => doc.constraints = <<>>
  BY <1>2, <1>3, <1>4, <1>5, SpecIs
<1>9. spec.plan = q.plan
  BY <1>2, <1>3, <1>4, <1>5, SpecIs
<1>10. spec.stages = doc.stages
  BY <1>2, <1>3, <1>4, <1>5, SpecIs
<1>11. q.plan = (IF form.route = "mission-plan" THEN PagePlan(form) ELSE None)
       /\ PagePlan(form) # None
  BY <1>2, <1>5 DEF Payload, Unmarked
<1>12. PICK n \in 1..3 : DOMAIN doc.stages = 1..n /\ Len(doc.stages) = n /\ doc.stages[n].onFailure = "stop"
  BY <1>1, <1>2, <1>3, <1>4, <1>5, PlainFiles
<1>13. /\ \A k \in DOMAIN doc.stages : SpecStageStands(doc.stages[k])
       /\ \A j, k \in DOMAIN doc.stages : doc.stages[j].stageId = doc.stages[k].stageId => j = k
  BY <1>1, <1>2, <1>3, <1>4, <1>5, PlainFiles
<1>14. /\ \A k \in DOMAIN doc.criteria : PlainCriterion(doc.criteria[k])
       /\ ~HoldsSecret(spec)
  BY <1>1, <1>2, <1>3, <1>4, <1>5, PlainFiles
<1>15. form.route = "mission-plan" => PlanFits(form, spec)
  BY <1>1, <1>2, <1>3, <1>4, <1>5, PlainFiles
<1>16. Present(FirstContract(spec)) = RequirementIds(spec)
  BY <1>1, <1>2, <1>3, <1>4, ContractOfForm
<1>17. spec.criteria # <<>> /\ IsInjective(Column(spec.criteria, "id"))
  <2>1. PICK c : c = Criteria(q)
    OBVIOUS
  <2>2. \A j, k \in DOMAIN c : c[j].id = c[k].id => j = k
    <3>1. PageCriteria(form) # None
      BY <1>5 DEF Unmarked
    <3> QED BY <1>2, <2>1, <3>1, CriteriaAre
  <2>3. /\ DOMAIN spec.criteria = DOMAIN c /\ spec.criteria # <<>>
        /\ \A k \in DOMAIN spec.criteria : spec.criteria[k].id = c[k].id
    BY <1>1, <1>2, <1>3, <1>4, <2>1, ContractOfForm
  <2> QED BY <2>2, <2>3 DEF IsInjective, Column
<1>18. spec.plan # None => DraftGraphStands(spec.plan, spec)
  BY <1>5, <1>9, <1>11, <1>15, PlanIsDrafted
<1>19. SpecStands(spec)
  <2>1. Blank \notin {spec.title, spec.objective} \cup Range(spec.constraints)
    <3>1. Range(<<form.a.requirement, form.b.requirement>>) = {form.a.requirement, form.b.requirement}
          /\ Range(<<>>) = {}
      BY Lists DEF Range
    <3>2. form.route = "mission-plan" => Blank \notin {form.a.requirement, form.b.requirement}
      BY <1>5 DEF PageSends
    <3>3. Blank \notin {spec.title, spec.objective}
      BY <1>5, <1>7 DEF PageSends
    <3> QED BY <1>7, <1>8, <3>1, <3>2, <3>3
  <2>2. /\ spec.stages # <<>> /\ spec.stages[Len(spec.stages)].onFailure # "handoff"
    <3>1. 1 \in DOMAIN doc.stages
      BY <1>12
    <3>2. doc.stages # <<>>
      BY <3>1
    <3> QED BY <1>10, <1>12, <3>2
  <2>3. IsInjective(Column(spec.stages, "stageId"))
    BY <1>10, <1>13 DEF IsInjective, Column
  <2>4. \A s \in Range(spec.stages) : SpecStageStands(s)
    BY <1>10, <1>13 DEF Range
  <2>5. spec.plan # None => GraphStands(spec.plan, spec)
    BY <1>18 DEF DraftGraphStands
  <2> QED BY <1>6, <1>17, <2>1, <2>2, <2>3, <2>4, <2>5 DEF SpecStands
<1>20. Loads(doc)
  <2>1. \A c \in Range(doc.criteria) : Unknown \notin Range(c.verifier.args)
    BY <1>14 DEF Range, PlainCriterion
  <2> QED BY <1>4, <1>6, <1>19, <2>1 DEF Loads
<1>21. spec.workspace # "control"
  BY <1>5, <1>7 DEF Plain
<1>22. EvidenceStands(spec)
  BY <1>18 DEF EvidenceStands, DraftGraphStands
<1>23. PlanStands(FirstNodes(spec), FirstEdges(spec), FirstContract(spec)) /\ TerminalJoin(spec)
  <2>1. CASE form.route = "mission-plan"
    BY <1>9, <1>11, <1>15, <1>16, <2>1, PlanIsMadeUp
  <2>2. CASE form.route # "mission-plan"
    <3>1. spec.plan = None /\ DOMAIN spec.stages = 1..n /\ Len(spec.stages) = n
      BY <1>9, <1>10, <1>11, <1>12, <2>2
    <3>2. \A j, k \in 1..n : spec.stages[j].stageId = spec.stages[k].stageId => j = k
      BY <1>10, <1>12, <1>13
    <3> QED BY <1>16, <3>1, <3>2, ChainIsMadeUp
  <2> QED BY <2>1, <2>2
<1>24. Creates(spec)
  BY <1>14, <1>21, <1>22, <1>23 DEF Creates
<1> QED BY <1>1, <1>2, <1>3, <1>4, <1>20, <1>24

\* The answer to the request of a form.
LEMMA FormAnswer ==
  ASSUME NEW i \in DOMAIN Forms, NEW ready
  PROVE  /\ Plain(Forms[i]) => Answer(Requests[i], ready) \in Created \cup {409}
         /\ Answer(Requests[i], ready) = 201 => Forms[i].route = "mission-plan"
<1>1. PICK q : q = Requests[i]
  OBVIOUS
<1>2. q = Payload(Forms[i])
  BY <1>1, FormRequest
<1>3. Answer(q, ready) = 201 => q.plan # None
  BY DEF Answer
<1>4. q.plan # None => Forms[i].route = "mission-plan"
  BY <1>2 DEF Payload
<1>5. ASSUME Plain(Forms[i]) PROVE Answer(q, ready) \in Created \cup {409}
  <2>1. DraftStands(q) /\ Loads(Document(q)) /\ Creates(Resolved(Document(q)))
    BY <1>2, <1>5, PlainDraft, PlainMission
  <2>2. q.workspace = "git"
    BY <1>2, <1>5 DEF Payload, Plain
  <2>3. q.workspace # "plain"
    BY <2>2
  <2> QED BY <2>1, <2>3 DEF Answer, Created
<1> QED BY <1>1, <1>3, <1>4, <1>5

\* The Plan that the page draws covers the Contract.
LEMMA PlanCovers ==
  ASSUME NEW i \in DOMAIN Forms, Forms[i].route = "mission-plan",
         NEW spec, spec = Resolved(Document(Payload(Forms[i]))), NEW nodes, nodes = FirstNodes(spec)
  PROVE  UNION {nodes[n].requirements : n \in DOMAIN nodes} = Present(Contract(spec))
<1>1. PICK form : form = Forms[i]
  OBVIOUS
<1>2. Unmarked(form) /\ PagePlan(form) # None
  BY <1>1, FormAssumption DEF Unmarked
<1>3. PICK q : q = Payload(form)
  OBVIOUS
<1>4. spec.plan = PagePlan(form)
  <2>1. spec.plan = q.plan
    BY <1>1, <1>2, <1>3, SpecIs
  <2> QED BY <1>1, <1>3, <2>1 DEF Payload
<1> DEFINE a == "workstream-a"
           b == "workstream-b"
           c == "consolidate"
<1>5. /\ DOMAIN nodes = {a, b, c}
      /\ nodes[a].requirements = {Constraint(1), Acceptance("workstream-a")}
      /\ nodes[b].requirements = {Constraint(2), Acceptance("workstream-b")}
      /\ nodes[c].requirements = {Objective, Acceptance("workstream-a"),
                                  Acceptance("workstream-b"), Acceptance("mission-outcome")}
  BY <1>2, <1>4, PlanNodes
<1> HIDE DEF a, b, c
<1>6. /\ Present(Contract(spec)) = RequirementIds(spec)
      /\ RequirementIds(spec) = {Objective, Constraint(1), Constraint(2), Acceptance("workstream-a"),
                                 Acceptance("workstream-b"), Acceptance("mission-outcome")}
  BY <1>1, <1>3, ContractOfForm
<1> QED BY <1>5, <1>6

-----------------------------------------------------------------------------
(* Forms are served.                                                       *)

\* Only a request makes the Mission, and only a revision adds to its revisions.
LEMMA OnlyMade ==
  ASSUME [Next]_vars
  PROVE  \/ CreateMission
         \/ /\ UNCHANGED <<creation, mission>>
            /\ UNCHANGED revisions \/ \E x : revisions' = Append(revisions, x)
<1>1. ASSUME NEW n, NEW s, Goto(n, s) \/ Finish(n, s) PROVE UNCHANGED <<creation, mission, revisions>>
  BY <1>1 DEF Goto, Finish, log
<1>2. ASSUME NEW n, NEW s, After(n, s) PROVE UNCHANGED <<creation, mission, revisions>>
  BY <1>1, <1>2 DEF After
<1>3. ASSUME NEW n, Attempt(n) PROVE UNCHANGED <<creation, mission, revisions>>
  BY <1>1, <1>2, <1>3 DEF Attempt, BindNode, StartNode, FinishRuntime, FinishVerification, Seal
<1>4. BindJoin \/ StartJoinRuntime \/ FinishJoinRuntime \/ FinishJoinVerification
        => UNCHANGED <<creation, mission, revisions>>
  BY <1>1, <1>2 DEF BindJoin, StartJoin, StartJoinRuntime, FinishJoinRuntime, FinishJoinVerification
<1>5. NextRound \/ EndRound \/ IssueReceipt \/ (\E n : RecordArtifact(n))
        => UNCHANGED <<creation, mission, revisions>>
  BY DEF NextRound, EndRound, RecordArtifact, IssueReceipt, log
<1>6. StartRun \/ LoseRun \/ UNCHANGED vars => UNCHANGED <<creation, mission, revisions>>
  BY DEF StartRun, LoseRun, vars, log
<1>7. ReviseMissionContract =>
        UNCHANGED <<creation, mission>> /\ \E x : revisions' = Append(revisions, x)
  BY DEF ReviseMissionContract
<1> QED BY <1>3, <1>4, <1>5, <1>6, <1>7 DEF Next, Advance

\* A step makes the Mission of a form as it must be, or leaves it as it was made.
LEMMA ServedStep ==
  ASSUME IInv, FormsAreServed, [Next]_vars
  PROVE  FormsAreServed'
<1>1. CASE CreateMission
  <2>1. PICK i \in DOMAIN Requests, ready \in Runtimes :
          LET status == Answer(Requests[i], ready)
              spec   == Resolved(Document(Requests[i]))
              nodes  == FirstNodes(spec)
          IN /\ creation' = [request |-> i, status |-> status]
             /\ status \in Created =>
                  /\ mission' = [nodes |-> nodes, edges |-> FirstEdges(spec)]
                  /\ revisions' = <<[content |-> Contract(spec),
                                     owns |-> [n \in DOMAIN nodes |-> nodes[n].requirements],
                                     invalid |-> {}, unplanned |-> {}, reusable |-> {}]>>
    BY <1>1 DEF CreateMission
  <2> SUFFICES ASSUME i \in DOMAIN Forms PROVE FormsAreServed'
    BY <2>1 DEF FormsAreServed
  <2>2. PICK status : status = Answer(Requests[i], ready)
    OBVIOUS
  <2>3. PICK spec : spec = Resolved(Document(Payload(Forms[i])))
    OBVIOUS
  <2>4. PICK nodes : nodes = FirstNodes(spec)
    OBVIOUS
  <2>5. Requests[i] = Payload(Forms[i])
    BY FormRequest
  <2>6. /\ Plain(Forms[i]) => status \in Created \cup {409}
        /\ status = 201 => Forms[i].route = "mission-plan"
    BY <2>2, FormAnswer
  <2>7. creation'.request = i /\ creation'.status = status
    BY <2>1, <2>2
  <2>8. ASSUME Planned' PROVE (Owned(revisions[1]) = Present(revisions[1].content))'
    <3>1. status = 201 /\ status \in Created
      BY <2>7, <2>8 DEF Planned, Created
    <3>2. PICK first : first = [content |-> Contract(spec),
                                owns |-> [n \in DOMAIN nodes |-> nodes[n].requirements],
                                invalid |-> {}, unplanned |-> {}, reusable |-> {}]
      OBVIOUS
    <3>3. mission' = [nodes |-> nodes, edges |-> FirstEdges(spec)] /\ revisions' = <<first>>
      BY <2>1, <2>2, <2>3, <2>4, <2>5, <3>1, <3>2
    <3>4. Nodes' = DOMAIN nodes /\ revisions'[1] = first
      BY <3>3 DEF Nodes, Plan
    <3>5. /\ first.content = Contract(spec)
          /\ \A n \in DOMAIN nodes : first.owns[n] = nodes[n].requirements
      BY <3>2
    <3>6. UNION {nodes[n].requirements : n \in DOMAIN nodes} = Present(Contract(spec))
      BY <2>3, <2>4, <2>6, <3>1, PlanCovers
    <3>7. Owned(revisions[1])' = UNION {first.owns[n] : n \in DOMAIN nodes}
      BY <3>4 DEF Owned
    <3> QED BY <3>4, <3>5, <3>6, <3>7
  <2> QED BY <2>6, <2>7, <2>8 DEF FormsAreServed
<1>2. CASE /\ UNCHANGED <<creation, mission>>
           /\ UNCHANGED revisions \/ \E x : revisions' = Append(revisions, x)
  <2>1. Nodes' = Nodes /\ Planned' = Planned
    BY <1>2 DEF Nodes, Plan, Planned
  <2>2. ASSUME Planned PROVE revisions'[1] = revisions[1]
    <3>1. Latest >= 1 /\ \E S : revisions \in Seq(S)
      BY <2>2 DEF IInv, RevisionInv
    <3>2. PICK S : revisions \in Seq(S)
      BY <3>1
    <3>3. ASSUME NEW x, revisions' = Append(revisions, x) PROVE revisions'[1] = revisions[1]
      BY <3>1, <3>2, <3>3 DEF Latest
    <3> QED BY <1>2, <3>3
  <2>3. ASSUME Planned PROVE Owned(revisions[1])' = Owned(revisions[1])
    BY <2>1, <2>2, <2>3 DEF Owned
  <2> QED BY <1>2, <2>1, <2>2, <2>3 DEF FormsAreServed
<1> QED BY <1>1, <1>2, OnlyMade

\* What the page sends is served whenever its texts are plain, the workspace is a
\* repository of its own and the Runtimes are ready, and the Plan the page draws up
\* covers the Contract the engine makes of it, for all forms (app-page.ts,
\* submitMission; mission-draft.ts; spec.ts; engine.ts, create).
THEOREM FormsServed == Spec => []FormsAreServed
<1>1. Init => FormsAreServed
  <2>1. 0 \notin DOMAIN Forms
    BY FormRequest
  <2> QED BY <2>1 DEF Init, FormsAreServed
<1>2. IInv /\ FormsAreServed /\ [Next]_vars => FormsAreServed'
  BY ServedStep
<1> QED BY <1>1, <1>2, PlanRunInvariant, PTL DEF Spec
=============================================================================
