-------------------------------- MODULE Policy --------------------------------
(***************************************************************************)
(* The MCP server's commit policy (internal/policy): a decision on the     *)
(* backend's answer, or on the absence of one, and the whole gate that the *)
(* micro-commit handlers put in front of a commit: the analysis is asked   *)
(* for only when at least two agents have pending changes.                 *)
(***************************************************************************)
EXTENDS OverlapAnalysis

CONSTANTS
  RiskThreshold,    \* MCP_RISK_THRESHOLD
  BlockOnCritical   \* MCP_BLOCK_ON_CRITICAL

ASSUME PolicyAssumption == RiskThreshold \in Nat /\ BlockOnCritical \in BOOLEAN

\* Evaluate(nil): no analysis was made.
AllowByDefault == [allowed |-> TRUE, blockingFiles |-> {}, maxSeverity |-> "none"]

CriticalFiles(resp) ==
  IF BlockOnCritical THEN {o.path : o \in {x \in resp.overlaps : x.severity = "critical"}}
  ELSE {}

RiskyFiles(resp) == {r.path : r \in {x \in resp.fileRisks : x.riskScore > RiskThreshold}}

\* Mutant of Evaluate: the risk rule looks at the stability of the file.
EvaluateUnstable(resp) ==
  LET blocking == CriticalFiles(resp) \cup
                  {r.path : r \in {x \in resp.fileRisks : x.stabilityScore > RiskThreshold}}
  IN [allowed |-> blocking = {}, blockingFiles |-> blocking,
      maxSeverity |-> MaxSeverityOf(resp.overlaps)]

\* Mutant of Evaluate: only the overlaps that block count for the maximum.
EvaluateBlockingSeverity(resp) ==
  LET blocking == CriticalFiles(resp) \cup RiskyFiles(resp)
  IN [allowed |-> blocking = {}, blockingFiles |-> blocking,
      maxSeverity |-> MaxSeverityOf({o \in resp.overlaps : o.path \in blocking})]

Evaluate(resp) ==
  LET blocking == CriticalFiles(resp) \cup RiskyFiles(resp)
  IN [allowed       |-> blocking = {},
      blockingFiles |-> blocking,
      maxSeverity   |-> MaxSeverityOf(resp.overlaps)]

\* Mutant of NeedsAnalysis: a pair of agents is not compared.
NeedsAnalysisLate(cs) == Cardinality(DOMAIN cs) > 2

NeedsAnalysis(cs) == Cardinality(DOMAIN cs) >= 2

\* What the handlers decide on a changeset when the backend answers.
Decision(cs) == IF NeedsAnalysis(cs) THEN Evaluate(AnalyzeOverlaps(cs)) ELSE AllowByDefault
=============================================================================
