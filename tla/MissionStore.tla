---------------------------- MODULE MissionStore ----------------------------
(***************************************************************************)
(* What the Kernel (store.ts) accepts into the log of one Mission and what *)
(* it reads out of it.  The log is a sequence of events; those that carry  *)
(* no state of the Kernel (runtime.observation) are accepted always.  The  *)
(* operators are over a log h, so that a module which owns the variable    *)
(* says when an append happens and under which fence.                      *)
(***************************************************************************)
EXTENDS Integers, Sequences, SequencesExt, FiniteSets

CONSTANT Root  \* the Mission's root branch

\* An event: its type, the branch and the Attempt or Effect it is about, and
\* the status or outcome it carries.
Event(type, branch, id, value) ==
  [type |-> type, branch |-> branch, id |-> id, value |-> value]

Events(h, type) == {i \in DOMAIN h : h[i].type = type}
\* listEvents and a filter.
Of(h, type, id) == {i \in Events(h, type) : h[i].id = id}

\* branchesFromEvents; the root is readable without its branch.created.
Branches(h) == {Root} \cup {h[i].branch : i \in Events(h, "branch.created")}

\* The Effects recorded, and the status last reported of one.
Effects(h) == {h[i].id : i \in Events(h, "effect")}
LastOf(S) == CHOOSE i \in S : \A j \in S : j <= i
EffectStatus(h, e) == h[LastOf(Of(h, "effect", e))].value
UnresolvedStatuses == {"intended", "dispatch_started", "executed", "ambiguous", "conflict"}
Unresolved(h) == {e \in Effects(h) : EffectStatus(h, e) \in UnresolvedStatuses}

\* #assertReceipt: a receipt discloses every recorded Effect, at the status it
\* has in the log that the receipt binds to, and a verified one no unresolved
\* Effect.  The receipt is built and appended without an await between, so that
\* the disclosure is what Unresolved says of h.
AcceptsReceipt(h, outcome) == outcome = "verified" => Unresolved(h) = {}

\* hasCheckpointEvidence: a checkpoint of the branch is recorded.
CheckpointEvidence(h, branch) == \E i \in Events(h, "checkpoint") : h[i].branch = branch

\* #assertBranchCreated: a child has a name of its own, and a parent with a
\* checkpoint; the children of this model are children of the root.
AcceptsBranch(h, e) == e.branch \notin Branches(h) /\ CheckpointEvidence(h, Root)

\* #requirePersistedBranch.
Persisted(h, e) == e.branch \in Branches(h)

\* #project: the checks on one event against the log before it.
Accepts(h, e) ==
  CASE e.type = "branch.created" -> AcceptsBranch(h, e)
    [] e.type \in {"attempt.bound", "attempt.started"} -> Persisted(h, e)
    [] e.type = "receipt" -> Persisted(h, e) /\ AcceptsReceipt(h, e.value)
    [] OTHER -> TRUE

\* appendEvents: the batch is accepted as a whole, each event against the log
\* that the ones before it leave.
AcceptsAll(h, batch) ==
  \A i \in DOMAIN batch : Accepts(h \o SubSeq(batch, 1, i - 1), batch[i])

\* #project: the events that set the Mission's status, and the status that the
\* last of them leaves.
StatusEvents == {"attempt.started", "receipt"}
Status(h) ==
  LET setting == {i \in DOMAIN h : h[i].type \in StatusEvents}
      e == h[LastOf(setting)]
  IN IF setting = {} THEN "pending"
     ELSE IF e.type = "attempt.started" THEN "running"
     ELSE IF e.value = "verified" THEN "succeeded" ELSE "failed"

\* Attempts planned and not finished, as reconstructExecutionState finds them.
OpenAttempts(h) ==
  {h[i].id : i \in Events(h, "attempt.plan")} \ {h[i].id : i \in Events(h, "attempt.finished")}
StartedAttempts(h) == {h[i].id : i \in Events(h, "attempt.started")}
=============================================================================
