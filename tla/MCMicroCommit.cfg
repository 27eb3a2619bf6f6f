SPECIFICATION FairSpec
CONSTANTS
  a1 = a1
  a2 = a2
  p1 = p1
  p2 = p2
  q1 = q1
  q2 = q2
  Agents = {a1, a2}
  Disciplined = {a1}
  Proposals = {p1, p2, q1}
  Author <- MCAuthor
  Content <- MCContent
  Requests = {r1, r2, r3}
  None = None
  Paths = {"a.py"}
  Names = {"f"}
  CriticalWeight = 40
  HighWeight = 25
  MediumWeight = 15
  MaxRisk = 100
  BaseStability = 100
  RiskThreshold = 70
  BlockOnCritical = TRUE

INVARIANTS
  NothingDisciplinedLost
  CommittedOnce
  CommittedIsAnalysed
PROPERTIES
  EveryRequestAnswered
  OutdatedOnlyByArrivals
  ImplementsLedger
