SPECIFICATION AnalysisSpec
CONSTANTS
  Agents = {a1, a2, a3}
  Paths = {"a.py", "b.py", "src/auth.py"}
  Names = {"f", "g", "AuthService", "AuthService.login", "AuthService.logout", "AuthService.reset_password"}
  CriticalWeight = 40
  HighWeight = 25
  MediumWeight = 15
  MaxRisk = 100
  BaseStability = 100
  RiskThreshold = 70
  BlockOnCritical = TRUE
  Submissions <- MCSubmissions
INVARIANTS
  SeverityIsDistance
  WithdrawalNeverBlocks
  AllowedMeansDisjoint
  DecisionMatchesReport
