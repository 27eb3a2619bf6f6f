---------------------------- MODULE OverlapAnalysis ----------------------------
(***************************************************************************)
(* The backend's POST /analyze/overlaps: which symbols two agents both     *)
(* change, how close the changes are, and how risky every file is.         *)
(*                                                                         *)
(* A changeset maps each agent of its domain to the files it submits, and  *)
(* a file is a path and the list of symbols its parser finds there (empty  *)
(* when the language is unsupported or the parse fails).  An overlap is    *)
(* identified by the two symbol occurrences it is about, so two overlaps   *)
(* with equal attributes still count twice, as in the code's lists.        *)
(***************************************************************************)
EXTENDS Integers, FiniteSets, Sequences

CONSTANTS
  Agents,          \* agent identifiers
  Paths,           \* file paths
  Names,           \* (symbol name, symbol kind) keys
  CriticalWeight,  \* BACKEND_CRITICAL_WEIGHT
  HighWeight,      \* BACKEND_HIGH_WEIGHT
  MediumWeight,    \* BACKEND_MEDIUM_WEIGHT
  MaxRisk,         \* BACKEND_MAX_RISK
  BaseStability    \* BACKEND_BASE_STABILITY

ASSUME WeightAssumption ==
  /\ CriticalWeight \in Nat /\ HighWeight \in Nat /\ MediumWeight \in Nat
  /\ MaxRisk \in Nat /\ BaseStability \in Nat

AdjacentThreshold == 3
HotspotContributorThreshold == 3
HotspotRiskThreshold == 50

SeverityRank == [critical |-> 4, high |-> 3, medium |-> 2, low |-> 1, none |-> 0]

Symbols == {s \in [name : Names, start : Nat, end : Nat] : s.start <= s.end}
FileInputs == [path : Paths, symbols : Seq(Symbols)]
ChangeSets == UNION {[A -> Seq(FileInputs)] : A \in SUBSET Agents}
-----------------------------------------------------------------------------
(***************************************************************************)
(* Overlap detection.                                                      *)
(***************************************************************************)

\* Every symbol occurrence the parsers deliver: agent, file and position.
Occurrences(cs) ==
  UNION {UNION {{[agent |-> a, file |-> f, sym |-> i] :
                    i \in DOMAIN cs[a][f].symbols} :
                 f \in DOMAIN cs[a]} :
         a \in DOMAIN cs}

PathOf(cs, o) == cs[o.agent][o.file].path
SymbolOf(cs, o) == cs[o.agent][o.file].symbols[o.sym]

OverlapsLines(x, y) == x.start <= y.end /\ y.start <= x.end

Abs(n) == IF n < 0 THEN -n ELSE n

Gap(x, y) ==
  LET before == Abs(x.start - y.end)
      after  == Abs(y.start - x.end)
  IN IF before <= after THEN before ELSE after

\* Mutant of Classify: the adjacency bound is strict.
ClassifyStrict(x, y) ==
  IF OverlapsLines(x, y) THEN "critical"
  ELSE IF Gap(x, y) < AdjacentThreshold THEN "high" ELSE "medium"

Classify(x, y) ==
  IF OverlapsLines(x, y) THEN "critical"
  ELSE IF Gap(x, y) <= AdjacentThreshold THEN "high" ELSE "medium"

\* Two agents touch the same (path, name, kind).
SharedKey(cs, o, p) ==
  /\ o.agent # p.agent
  /\ PathOf(cs, o) = PathOf(cs, p)
  /\ SymbolOf(cs, o).name = SymbolOf(cs, p).name

DetectOverlaps(cs) ==
  {[between  |-> {pair[1], pair[2]},
    path     |-> PathOf(cs, pair[1]),
    severity |-> Classify(SymbolOf(cs, pair[1]), SymbolOf(cs, pair[2]))] :
      pair \in {q \in Occurrences(cs) \X Occurrences(cs) : SharedKey(cs, q[1], q[2])}}

AgentsOf(o) == {x.agent : x \in o.between}
-----------------------------------------------------------------------------
(***************************************************************************)
(* Risk scoring.                                                           *)
(***************************************************************************)

Tally(overlaps, sev) == Cardinality({o \in overlaps : o.severity = sev})

\* The sum of the weights of a file's overlaps.  No overlap is ever "low".
RawRisk(overlaps) ==
    CriticalWeight * Tally(overlaps, "critical")
  + HighWeight     * Tally(overlaps, "high")
  + MediumWeight   * Tally(overlaps, "medium")

Clamp(n) == IF n <= MaxRisk THEN n ELSE MaxRisk
Floor(n) == IF n >= 0 THEN n ELSE 0

MaxSeverityOf(overlaps) ==
  IF overlaps = {} THEN "none"
  ELSE (CHOOSE o \in overlaps :
          \A p \in overlaps : SeverityRank[p.severity] <= SeverityRank[o.severity]).severity

ScoreFile(path, overlaps, contributors) ==
  LET risk == Clamp(RawRisk(overlaps)) IN
  [path            |-> path,
   riskScore       |-> risk,
   stabilityScore  |-> Floor(BaseStability - RawRisk(overlaps)),
   overlapCount    |-> Cardinality(overlaps),
   contributors    |-> contributors,
   pairwiseCount   |-> Cardinality({AgentsOf(o) : o \in overlaps}),
   maxSeverity     |-> MaxSeverityOf(overlaps),
   isHotspot       |-> \/ Cardinality(contributors) >= HotspotContributorThreshold
                       \/ risk >= HotspotRiskThreshold]

TouchedBy(cs, path) == {a \in DOMAIN cs : \E f \in DOMAIN cs[a] : cs[a][f].path = path}

\* Files with overlaps, and files of two or more agents without any.
ScoredPaths(cs, overlaps) ==
  {path \in Paths : \/ \E o \in overlaps : o.path = path
                    \/ Cardinality(TouchedBy(cs, path)) >= 2}

ComputeFileRisks(overlaps, cs) ==
  {LET mine == {o \in overlaps : o.path = path} IN
   ScoreFile(path, mine, (UNION {AgentsOf(o) : o \in mine}) \cup TouchedBy(cs, path)) :
     path \in ScoredPaths(cs, overlaps)}

AnalyzeOverlaps(cs) ==
  LET overlaps == DetectOverlaps(cs) IN
  [overlaps |-> overlaps, fileRisks |-> ComputeFileRisks(overlaps, cs)]
=============================================================================
