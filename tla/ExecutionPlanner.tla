-------------------------- MODULE ExecutionPlanner --------------------------
(***************************************************************************)
(* The planner of Execution Profiles (src/execution-planner.ts): a pure    *)
(* function of the requirements of a stage, the candidate Profiles with    *)
(* what was observed of them, the Profile in use, the Effects already sent *)
(* and the Profile a user asked for.  It returns a Profile or a refusal.   *)
(*                                                                         *)
(* A candidate is a record                                                 *)
(*   [id, harness, ready, capabilities, adapter, window, budget, states,   *)
(*    observation, repeats]                                                *)
(* with adapter a function to Fidelities, window and budget numbers or     *)
(* None, states a function from state ids to Classes or None, and          *)
(* observation what its Harness told: how fresh and from where, and of     *)
(* quota and success the hundredths, of cost and latency the amount, each  *)
(* of these None when unknown.                                             *)
(***************************************************************************)
EXTENDS Naturals, Sequences, FiniteSets

CONSTANT None

Classes == {"exact", "rebound", "emulated", "summarized", "unavailable", "blocking"}
Fidelities == {"native", "cooperative", "process-only", "unsupported", "unknown"}

\* severity of weakestRequiredClassification and levels of
\* meetsMinimumFidelity
Severity == [exact |-> 0, rebound |-> 1, emulated |-> 2, summarized |-> 3,
             unavailable |-> 4, blocking |-> 5]
Level(fidelity) == CASE fidelity = "native" -> 3
                     [] fidelity = "cooperative" -> 2
                     [] fidelity = "process-only" -> 1
                     [] OTHER -> 0
MeetsMinimum(actual, minimum) == Level(actual) >= Level(minimum)

-----------------------------------------------------------------------------
(* classifyHandoff: what a candidate can take over.  No Profile in use, or
   this very one, means nothing has to be taken over. *)

DoNotRepeat(in) ==
  {e \in DOMAIN in.frontier : in.frontier[e] \in {"confirmed", "ambiguous"}}

Classification(c, in, s) ==
  IF in.current \in {None, c.id} THEN "exact"
  ELSE IF c.states[s] = None THEN "unavailable" ELSE c.states[s]

BlockingStates(c, in) ==
  {s \in DOMAIN in.states :
     in.states[s] /\ Classification(c, in, s) \in {"blocking", "unavailable"}}

Conflicts(c, in) == c.repeats \cap DoNotRepeat(in)

Overall(c, in) ==
  LET required == {Classification(c, in, s) : s \in {t \in DOMAIN in.states : in.states[t]}}
  IN  IF BlockingStates(c, in) # {} \/ Conflicts(c, in) # {} THEN "blocking"
      ELSE CHOOSE k \in required \cup {"exact"} :
             \A l \in required : Severity[k] >= Severity[l]

-----------------------------------------------------------------------------
(* filterCandidate: the reasons against a candidate. *)

Lacking(needed, had, unknown, insufficient) ==
  CASE needed = None -> {}
    [] needed # None /\ had = None -> {unknown}
    [] OTHER -> IF had < needed THEN {insufficient} ELSE {}

Reason(holds, code) == IF holds THEN {code} ELSE {}

Rejections(c, in) ==
  UNION {
    Reason(~c.ready, "PROFILE_NOT_READY"),
    Reason(in.allowed # None /\ c.harness \notin in.allowed, "HARNESS_NOT_ALLOWED"),
    Reason(~(in.required \subseteq c.capabilities), "PROFILE_CAPABILITY_MISSING"),
    Reason(\E a \in DOMAIN in.adapter : ~MeetsMinimum(c.adapter[a], in.adapter[a]),
           "ADAPTER_CAPABILITY_INSUFFICIENT"),
    Lacking(in.window, c.window, "CONTEXT_WINDOW_UNKNOWN", "CONTEXT_WINDOW_INSUFFICIENT"),
    Lacking(in.budget, c.budget, "INJECTION_BUDGET_UNKNOWN", "INJECTION_BUDGET_INSUFFICIENT"),
    Reason(BlockingStates(c, in) # {}, "HANDOFF_STATE_BLOCKING"),
    Reason(Conflicts(c, in) # {}, "EFFECT_REPLAY_BLOCKED")}

Eligible(in) == {c \in in.candidates : Rejections(c, in) = {}}

-----------------------------------------------------------------------------
(* rankCandidates: the rank vectors, in lexicographic order, the id last. *)

Current(in) == {c \in in.candidates : c.id = in.current}

Continuity(c, in) ==
  CASE Current(in) = {} -> 0
    [] c \in Current(in) -> 0
    [] OTHER -> IF \E k \in Current(in) : c.harness = k.harness THEN 1 ELSE 2

\* freshnessPenalty and sourcePenalty
Freshness == [fresh |-> 0, stale |-> 1, unknown |-> 2]
Source == [official |-> 0, local |-> 1, manual |-> 2, derived |-> 3, unknown |-> 4]

Unknown == 1000000  \* UNKNOWN_RANK_PENALTY, more than any known one
Short(ratio) == IF ratio = None THEN Unknown ELSE 100 - ratio
Amount(n) == IF n = None THEN Unknown ELSE n

RankVector(c, in) ==
  LET o == c.observation IN
  <<Continuity(c, in), Freshness[o.freshness], Source[o.source], Short(o.quota),
    Amount(o.cost), Amount(o.latency), Short(o.success), c.id>>

\* compareRankedCandidates: the first component that differs decides.
Precedes(v, w) ==
  \E i \in DOMAIN v : v[i] < w[i] /\ \A j \in 1..(i - 1) : v[j] = w[j]

Rank(in) ==
  [c \in Eligible(in) |->
     1 + Cardinality({d \in Eligible(in) : Precedes(RankVector(d, in), RankVector(c, in))})]

-----------------------------------------------------------------------------
(* bindCandidate: the Profile a user asked for, else the one in use, else
   the first in rank.  A request that cannot be met is never replaced. *)

Bound(c, in, reason) ==
  [status |-> "bound", profile |-> c.id, reason |-> reason,
   action |-> CASE in.current = None -> "start"
                [] in.current = c.id -> "continue"
                [] OTHER -> "handoff"]

Blocked(reason) ==
  [status |-> "blocked", profile |-> None, reason |-> reason, action |-> "blocked"]

BindOverride(in) ==
  LET requested == {c \in Eligible(in) : c.id = in.override}
  IN  IF requested = {} THEN Blocked("manual_override_rejected")
      ELSE Bound(CHOOSE c \in requested : TRUE, in, "manual_override")

BindRanked(in) ==
  LET kept == Current(in) \cap Eligible(in)
      rank == Rank(in)
  IN  CASE kept # {} -> Bound(CHOOSE c \in kept : TRUE, in, "keep_current")
        [] Eligible(in) = {} -> Blocked("no_eligible_profile")
        [] OTHER ->
             Bound(CHOOSE c \in Eligible(in) : rank[c] = 1, in,
                   CASE in.current = None -> "highest_ranked_eligible"
                     [] Current(in) = {} -> "current_missing_ranked_replacement"
                     [] OTHER -> "current_ineligible_ranked_replacement")

Bind(in) == IF in.override # None THEN BindOverride(in) ELSE BindRanked(in)

-----------------------------------------------------------------------------
(* extractInput: what the planner refuses to look at. *)

Positive(n) == n = None \/ n > 0

ValidRequirements(in) ==
  /\ in.allowed # {}
  /\ Positive(in.window) /\ Positive(in.budget)
  /\ \A a \in DOMAIN in.adapter : in.adapter[a] \in {"native", "cooperative", "process-only"}

ValidCandidate(c) ==
  /\ Positive(c.window) /\ Positive(c.budget)
  /\ \A a \in DOMAIN c.adapter : c.adapter[a] \in Fidelities

ValidInput(in) ==
  /\ ValidRequirements(in)
  /\ \A c \in in.candidates : ValidCandidate(c)
  /\ \A c, d \in in.candidates : c.id = d.id => c = d

\* planExecution, or a refusal that throws
PlanExecution(in) == IF ValidInput(in) THEN Bind(in) ELSE Blocked("invalid")
=============================================================================
