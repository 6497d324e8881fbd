-------------------------- MODULE MCMissionInsight --------------------------
EXTENDS MissionInsight

Tool(name, isError, phase) ==
  Event("fact", Root, [kind |-> "tool_result", name |-> name, isError |-> isError,
                       exit |-> Unset, phase |-> phase], "explicit")
Failed(name) == Tool(name, "yes", "failed")
Worked(name) == Tool(name, "no", "completed")
Asked(gate) == Event("gate.requested", Root, gate, [tool |-> "write", input |-> "same"])
Denied(gate, intent) == Event("gate.decided", Root, gate, [decision |-> "reject", intent |-> intent])
Checked(status) == Event("verification.completed", Root, "c1", status)

\* Nothing; one tool that failed once and worked four times beside one that only
\* failed, and a rejection; a loop of requests, one of them denied.
MCHistories == {
  <<>>,
  <<Failed("a"), Worked("a"), Worked("a"), Worked("a"), Worked("a"), Failed("b"), Failed("b"),
    Failed("b"), Checked("failed"), Event("receipt", Root, Root, "rejected")>>,
  <<Asked(1), Asked(2), Asked(3), Denied(3, 4),
    Event("workspace.diverged", Root, 0, [expected |-> 0, observed |-> 1])>>}

MCObservations == {Failed("a"), Worked("a"), Event("receipt", Root, Root, "verified"),
                   Event("gate.result", Root, 1, "failed")}
MCKinds == {"context", "tool-result"}
MCCriteria == {"c1"}
=============================================================================
