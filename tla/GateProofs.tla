------------------------------- MODULE GateProofs -------------------------------
(***************************************************************************)
(* Analysis, policy and gate, proved for any agents, paths, symbols,       *)
(* submissions, weights, thresholds and requests, and for any set of       *)
(* disciplined agents.                                                     *)
(*                                                                         *)
(* First the lemmas about the operators of the analysis and the policy:    *)
(* what an overlap is, that everything counted is finite, and that fewer   *)
(* agents never mean more overlaps, more risk or more blocking.  Then what *)
(* they say of a VFS, where the invariant is that the VFS is a change set  *)
(* and the rest is about one state.  Then the gate, where of the policy it *)
(* is only used, for the verdicts, that a part of what passes passes.      *)
(***************************************************************************)
EXTENDS MicroCommit, Analysis, TLAPS, FiniteSetTheorems

\* The change sets the handlers make from a VFS: finitely many agents, lists of files.
WellTyped(cs) ==
  /\ IsFiniteSet(DOMAIN cs)
  /\ \A a \in DOMAIN cs : cs[a] \in Seq(FileInputs)

\* The change sets of some of the agents.
PartOf(less, cs) ==
  DOMAIN less \subseteq DOMAIN cs /\ \A a \in DOMAIN less : less[a] = cs[a]

Severities == {"critical", "high", "medium"}
-----------------------------------------------------------------------------
(***************************************************************************)
(* Finiteness.                                                             *)
(***************************************************************************)

\* The image of a finite set under a function is finite.
LEMMA FiniteImage ==
  ASSUME NEW f, IsFiniteSet(DOMAIN f)
  PROVE  IsFiniteSet({f[s] : s \in DOMAIN f})
<1> DEFINE T == {f[s] : s \in DOMAIN f}
<1>1. [s \in DOMAIN f |-> f[s]] \in Surjection(DOMAIN f, T)
  BY DEF Surjection
<1> HIDE DEF T
<1>2. IsFiniteSet(T)
  BY <1>1, FS_Surjection
<1> QED
  BY <1>2 DEF T

\* A part of a finite set has at most as many elements.
LEMMA FewerElements ==
  ASSUME NEW T, IsFiniteSet(T), NEW S \in SUBSET T
  PROVE  /\ IsFiniteSet(S)
         /\ Cardinality(S) \in Nat /\ Cardinality(T) \in Nat
         /\ Cardinality(S) <= Cardinality(T)
BY FS_Subset, FS_CardinalityType

\* Two different elements make a cardinality of two.
LEMMA TwoElements ==
  ASSUME NEW T, IsFiniteSet(T), NEW x \in T, NEW y \in T, x # y
  PROVE  Cardinality(T) >= 2
<1>1. IsFiniteSet({x}) /\ Cardinality({x}) = 1
  BY FS_Singleton
<1>2. Cardinality({x} \cup {y}) = 2
  BY <1>1, FS_AddElement
<1>3. {x} \cup {y} \in SUBSET T
  OBVIOUS
<1>4. Cardinality({x} \cup {y}) <= Cardinality(T) /\ Cardinality(T) \in Nat
  BY <1>3, FewerElements
<1> QED
  BY <1>2, <1>4

\* With two elements or more there are two different ones.
LEMMA TwoOfMany ==
  ASSUME NEW T, IsFiniteSet(T), Cardinality(T) >= 2
  PROVE  \E x, y \in T : x # y
<1>1. T # {}
  BY FS_EmptySet
<1>2. PICK x \in T : TRUE
  BY <1>1
<1>3. T # {x}
  BY FS_Singleton
<1> QED
  BY <1>2, <1>3
-----------------------------------------------------------------------------
(***************************************************************************)
(* Occurrences and overlaps.                                               *)
(***************************************************************************)

\* Where an occurrence comes from.
LEMMA OccurrenceIs ==
  ASSUME NEW cs, NEW o
  PROVE  o \in Occurrences(cs) <=>
           \E a \in DOMAIN cs : \E f \in DOMAIN cs[a] : \E i \in DOMAIN cs[a][f].symbols :
             o = [agent |-> a, file |-> f, sym |-> i]
BY DEF Occurrences

\* An occurrence names a file with a path and a symbol with a range of lines.
LEMMA OccurrenceType ==
  ASSUME NEW cs, WellTyped(cs), NEW o \in Occurrences(cs)
  PROVE  /\ o.agent \in DOMAIN cs /\ o.file \in DOMAIN cs[o.agent]
         /\ PathOf(cs, o) \in Paths
         /\ SymbolOf(cs, o) \in Symbols
<1>a. PICK a \in DOMAIN cs : \E f \in DOMAIN cs[a] : \E i \in DOMAIN cs[a][f].symbols :
        o = [agent |-> a, file |-> f, sym |-> i]
  BY OccurrenceIs
<1>b. PICK f \in DOMAIN cs[a] : \E i \in DOMAIN cs[a][f].symbols :
        o = [agent |-> a, file |-> f, sym |-> i]
  BY <1>a
<1>1. PICK i \in DOMAIN cs[a][f].symbols : o = [agent |-> a, file |-> f, sym |-> i]
  BY <1>b
<1>2. cs[a] \in Seq(FileInputs)
  BY DEF WellTyped
<1>3. cs[a][f] \in FileInputs
  BY <1>2
<1>4. cs[a][f].path \in Paths /\ cs[a][f].symbols \in Seq(Symbols)
  BY <1>3 DEF FileInputs
<1>5. cs[a][f].symbols[i] \in Symbols
  BY <1>4
<1>6. o.agent = a /\ o.file = f /\ o.sym = i
  BY <1>1
<1> QED
  BY <1>4, <1>5, <1>6 DEF PathOf, SymbolOf

\* There are finitely many occurrences.
LEMMA OccurrencesFinite ==
  ASSUME NEW cs, WellTyped(cs)
  PROVE  IsFiniteSet(Occurrences(cs))
<1> DEFINE OfFile(a, f) == {[agent |-> a, file |-> f, sym |-> i] : i \in DOMAIN cs[a][f].symbols}
           OfAgent(a) == UNION {OfFile(a, f) : f \in DOMAIN cs[a]}
<1>1. ASSUME NEW a \in DOMAIN cs, NEW f \in DOMAIN cs[a]
      PROVE  IsFiniteSet(OfFile(a, f))
  <2> DEFINE g == [i \in DOMAIN cs[a][f].symbols |-> [agent |-> a, file |-> f, sym |-> i]]
  <2>1. cs[a] \in Seq(FileInputs)
    BY DEF WellTyped
  <2>2. cs[a][f].symbols \in Seq(Symbols)
    <3>1. cs[a][f] \in FileInputs
      BY <2>1
    <3> QED
      BY <3>1 DEF FileInputs
  <2>3. PICK n \in Nat : DOMAIN cs[a][f].symbols = 1..n
    BY <2>2
  <2>4. IsFiniteSet(DOMAIN cs[a][f].symbols)
    <3>1. 1 \in Int /\ n \in Int
      OBVIOUS
    <3> QED
      BY <2>3, <3>1, FS_Interval
  <2>5. DOMAIN g = DOMAIN cs[a][f].symbols /\ OfFile(a, f) = {g[i] : i \in DOMAIN g}
    OBVIOUS
  <2> HIDE DEF g, OfFile
  <2> QED
    BY <2>4, <2>5, FiniteImage
<1>2. ASSUME NEW a \in DOMAIN cs
      PROVE  IsFiniteSet(OfAgent(a))
  <2> DEFINE g == [f \in DOMAIN cs[a] |-> OfFile(a, f)]
  <2>1. cs[a] \in Seq(FileInputs)
    BY DEF WellTyped
  <2>2. PICK n \in Nat : DOMAIN cs[a] = 1..n
    BY <2>1
  <2>3. IsFiniteSet(DOMAIN cs[a])
    <3>1. 1 \in Int /\ n \in Int
      OBVIOUS
    <3> QED
      BY <2>2, <3>1, FS_Interval
  <2>4. \A f \in DOMAIN cs[a] : IsFiniteSet(OfFile(a, f))
    BY <1>1
  <2> HIDE DEF OfFile
  <2>5. DOMAIN g = DOMAIN cs[a]
        /\ {OfFile(a, f) : f \in DOMAIN cs[a]} = {g[f] : f \in DOMAIN g}
    OBVIOUS
  <2> HIDE DEF g
  <2>6. IsFiniteSet({OfFile(a, f) : f \in DOMAIN cs[a]})
    BY <2>3, <2>5, FiniteImage
  <2>7. \A S \in {OfFile(a, f) : f \in DOMAIN cs[a]} : IsFiniteSet(S)
    BY <2>4
  <2> QED
    BY <2>6, <2>7, FS_UNION
<1>3. IsFiniteSet({OfAgent(a) : a \in DOMAIN cs})
  <2> DEFINE g == [a \in DOMAIN cs |-> OfAgent(a)]
  <2>1. IsFiniteSet(DOMAIN cs)
    BY DEF WellTyped
  <2> HIDE DEF OfAgent
  <2>2. DOMAIN g = DOMAIN cs /\ {OfAgent(a) : a \in DOMAIN cs} = {g[a] : a \in DOMAIN g}
    OBVIOUS
  <2> HIDE DEF g
  <2> QED
    BY <2>1, <2>2, FiniteImage
<1>4. IsFiniteSet(UNION {OfAgent(a) : a \in DOMAIN cs})
  <2> HIDE DEF OfAgent
  <2>1. \A S \in {OfAgent(a) : a \in DOMAIN cs} : IsFiniteSet(S)
    BY <1>2
  <2> QED
    BY <1>3, <2>1, FS_UNION
<1> QED
  BY <1>4 DEF Occurrences

\* The overlap of a pair of occurrences.
OverlapOf(cs, o, p) ==
  [between |-> {o, p}, path |-> PathOf(cs, o),
   severity |-> Classify(SymbolOf(cs, o), SymbolOf(cs, p))]

\* An overlap is one of two occurrences that share their key.
LEMMA OverlapIs ==
  ASSUME NEW cs, NEW x
  PROVE  x \in DetectOverlaps(cs) <=>
           \E o, p \in Occurrences(cs) : SharedKey(cs, o, p) /\ x = OverlapOf(cs, o, p)
<1> DEFINE Pairs == {q \in Occurrences(cs) \X Occurrences(cs) : SharedKey(cs, q[1], q[2])}
<1>1. DetectOverlaps(cs) = {OverlapOf(cs, pair[1], pair[2]) : pair \in Pairs}
  BY DEF DetectOverlaps, OverlapOf
<1>2. \A o, p \in Occurrences(cs) : SharedKey(cs, o, p) =>
        <<o, p>> \in Pairs /\ <<o, p>>[1] = o /\ <<o, p>>[2] = p
  OBVIOUS
<1>3. \A pair \in Pairs : /\ pair[1] \in Occurrences(cs) /\ pair[2] \in Occurrences(cs)
                         /\ SharedKey(cs, pair[1], pair[2])
  OBVIOUS
<1> HIDE DEF Pairs
<1>4. ASSUME x \in DetectOverlaps(cs)
      PROVE  \E o, p \in Occurrences(cs) : SharedKey(cs, o, p) /\ x = OverlapOf(cs, o, p)
  <2>1. PICK pair \in Pairs : x = OverlapOf(cs, pair[1], pair[2])
    BY <1>1, <1>4
  <2> QED
    BY <1>3, <2>1
<1>5. ASSUME NEW o \in Occurrences(cs), NEW p \in Occurrences(cs),
             SharedKey(cs, o, p), x = OverlapOf(cs, o, p)
      PROVE  x \in DetectOverlaps(cs)
  <2>1. <<o, p>> \in Pairs /\ x = OverlapOf(cs, <<o, p>>[1], <<o, p>>[2])
    BY <1>2, <1>5
  <2> QED
    BY <1>1, <2>1
<1> QED
  BY <1>4, <1>5

\* There are finitely many overlaps.
LEMMA OverlapsFinite ==
  ASSUME NEW cs, WellTyped(cs)
  PROVE  IsFiniteSet(DetectOverlaps(cs))
<1> DEFINE Pairs == {q \in Occurrences(cs) \X Occurrences(cs) : SharedKey(cs, q[1], q[2])}
           g == [pair \in Pairs |-> OverlapOf(cs, pair[1], pair[2])]
<1>1. IsFiniteSet(Occurrences(cs) \X Occurrences(cs))
  BY OccurrencesFinite, FS_Product
<1>2. Pairs \in SUBSET (Occurrences(cs) \X Occurrences(cs))
  OBVIOUS
<1>3. IsFiniteSet(Pairs)
  <2> HIDE DEF Pairs
  <2> QED
    BY <1>1, <1>2, FS_Subset
<1>4. DOMAIN g = Pairs /\ DetectOverlaps(cs) = {g[pair] : pair \in DOMAIN g}
  BY DEF DetectOverlaps, OverlapOf
<1> HIDE DEF g, Pairs
<1> QED
  BY <1>3, <1>4, FiniteImage

\* An overlap is between two agents, both with changes in its file, and has one of the
\* three severities.
LEMMA OverlapType ==
  ASSUME NEW cs, WellTyped(cs), NEW x \in DetectOverlaps(cs)
  PROVE  /\ x.path \in Paths /\ x.severity \in Severities
         /\ AgentsOf(x) \subseteq DOMAIN cs
         /\ \E a, b \in AgentsOf(x) : a # b
         /\ \A a \in AgentsOf(x) : \E f \in DOMAIN cs[a] : cs[a][f].path = x.path
<1>1. PICK o \in Occurrences(cs), p \in Occurrences(cs) :
        SharedKey(cs, o, p) /\ x = OverlapOf(cs, o, p)
  BY OverlapIs
<1>2. x.between = {o, p} /\ x.path = PathOf(cs, o) /\ x.path = PathOf(cs, p)
      /\ x.severity = Classify(SymbolOf(cs, o), SymbolOf(cs, p))
  BY <1>1 DEF OverlapOf, SharedKey
<1>3. /\ o.agent \in DOMAIN cs /\ o.file \in DOMAIN cs[o.agent] /\ PathOf(cs, o) \in Paths
      /\ p.agent \in DOMAIN cs /\ p.file \in DOMAIN cs[p.agent]
  BY OccurrenceType
<1>4. x.severity \in Severities
  BY <1>2 DEF Classify, Severities
<1>5. AgentsOf(x) = {o.agent, p.agent} /\ o.agent # p.agent
  BY <1>1, <1>2 DEF AgentsOf, SharedKey
<1>6. cs[o.agent][o.file].path = x.path /\ cs[p.agent][p.file].path = x.path
  BY <1>2 DEF PathOf
<1> QED
  BY <1>2, <1>3, <1>4, <1>5, <1>6
-----------------------------------------------------------------------------
(***************************************************************************)
(* The report.                                                             *)
(***************************************************************************)

\* The overlaps of one file, and its line in the report.
Mine(overlaps, path) == {o \in overlaps : o.path = path}

Contributors(cs, path) ==
  (UNION {AgentsOf(o) : o \in Mine(DetectOverlaps(cs), path)}) \cup TouchedBy(cs, path)

RiskOf(cs, path) ==
  ScoreFile(path, Mine(DetectOverlaps(cs), path), Contributors(cs, path))

\* A line of the report for every scored path.
LEMMA ReportIs ==
  ASSUME NEW cs
  PROVE  /\ AnalyzeOverlaps(cs).overlaps = DetectOverlaps(cs)
         /\ AnalyzeOverlaps(cs).fileRisks =
              {RiskOf(cs, path) : path \in ScoredPaths(cs, DetectOverlaps(cs))}
         /\ \A path : /\ RiskOf(cs, path).path = path
                      /\ RiskOf(cs, path).riskScore =
                           Clamp(RawRisk(Mine(DetectOverlaps(cs), path)))
<1>1. AnalyzeOverlaps(cs).overlaps = DetectOverlaps(cs)
      /\ AnalyzeOverlaps(cs).fileRisks = ComputeFileRisks(DetectOverlaps(cs), cs)
  BY DEF AnalyzeOverlaps
<1>2. ComputeFileRisks(DetectOverlaps(cs), cs) =
        {RiskOf(cs, path) : path \in ScoredPaths(cs, DetectOverlaps(cs))}
  BY DEF ComputeFileRisks, RiskOf, Mine, Contributors
<1>3. \A path : /\ RiskOf(cs, path).path = path
               /\ RiskOf(cs, path).riskScore = Clamp(RawRisk(Mine(DetectOverlaps(cs), path)))
  BY DEF RiskOf, ScoreFile
<1> QED
  BY <1>1, <1>2, <1>3

\* A weight times more is not less.
LEMMA ProductGrows ==
  ASSUME NEW w \in Nat, NEW i \in Nat, NEW j \in Nat, i <= j
  PROVE  w * i \in Nat /\ w * j \in Nat /\ w * i <= w * j
OBVIOUS

\* The risk of a set of overlaps is a number, and none without overlaps.
LEMMA RiskType ==
  ASSUME NEW S, IsFiniteSet(S)
  PROVE  RawRisk(S) \in Nat
<1>1. \A sev : Tally(S, sev) \in Nat
  <2> SUFFICES ASSUME NEW sev PROVE Tally(S, sev) \in Nat
    OBVIOUS
  <2>1. {o \in S : o.severity = sev} \in SUBSET S
    OBVIOUS
  <2> QED
    BY <2>1, FewerElements DEF Tally
<1> QED
  BY <1>1, WeightAssumption DEF RawRisk

LEMMA NoOverlapNoRisk ==
  ASSUME NEW S, S = {}
  PROVE  RawRisk(S) = 0
<1>1. \A sev : Tally(S, sev) = 0
  BY FS_EmptySet DEF Tally
<1> QED
  BY <1>1, WeightAssumption DEF RawRisk

\* Fewer overlaps are less risk.
LEMMA RiskGrows ==
  ASSUME NEW T, IsFiniteSet(T), NEW S \in SUBSET T
  PROVE  /\ RawRisk(S) \in Nat /\ RawRisk(T) \in Nat
         /\ RawRisk(S) <= RawRisk(T)
         /\ Clamp(RawRisk(S)) <= Clamp(RawRisk(T))
<1>1. \A sev : /\ Tally(S, sev) \in Nat /\ Tally(T, sev) \in Nat
              /\ Tally(S, sev) <= Tally(T, sev)
  <2> SUFFICES ASSUME NEW sev
               PROVE  /\ Tally(S, sev) \in Nat /\ Tally(T, sev) \in Nat
                      /\ Tally(S, sev) <= Tally(T, sev)
    OBVIOUS
  <2> DEFINE s == {o \in S : o.severity = sev}
             t == {o \in T : o.severity = sev}
  <2>1. IsFiniteSet(t) /\ s \in SUBSET t
    <3>1. t \in SUBSET T
      OBVIOUS
    <3> QED
      BY <3>1, FewerElements
  <2> HIDE DEF s, t
  <2>2. Cardinality(s) \in Nat /\ Cardinality(t) \in Nat /\ Cardinality(s) <= Cardinality(t)
    BY <2>1, FewerElements
  <2> QED
    BY <2>2 DEF s, t, Tally
<1>2. \A w \in Nat, sev \in Severities :
        /\ w * Tally(S, sev) \in Nat /\ w * Tally(T, sev) \in Nat
        /\ w * Tally(S, sev) <= w * Tally(T, sev)
  BY <1>1, ProductGrows
<1>3. /\ RawRisk(S) \in Nat /\ RawRisk(T) \in Nat
      /\ RawRisk(S) <= RawRisk(T)
  <2> DEFINE c(X) == CriticalWeight * Tally(X, "critical")
             h(X) == HighWeight * Tally(X, "high")
             m(X) == MediumWeight * Tally(X, "medium")
  <2>1. c(S) \in Nat /\ c(T) \in Nat /\ c(S) <= c(T)
    BY <1>2, WeightAssumption DEF Severities
  <2>2. h(S) \in Nat /\ h(T) \in Nat /\ h(S) <= h(T)
    BY <1>2, WeightAssumption DEF Severities
  <2>3. m(S) \in Nat /\ m(T) \in Nat /\ m(S) <= m(T)
    BY <1>2, WeightAssumption DEF Severities
  <2>4. RawRisk(S) = c(S) + h(S) + m(S) /\ RawRisk(T) = c(T) + h(T) + m(T)
    BY DEF RawRisk
  <2> HIDE DEF c, h, m
  <2> QED
    BY <2>1, <2>2, <2>3, <2>4
<1> QED
  BY <1>3, WeightAssumption DEF Clamp
-----------------------------------------------------------------------------
(***************************************************************************)
(* Fewer agents.                                                           *)
(***************************************************************************)

\* Some of the agents have no overlaps that all of them do not have.
LEMMA PartOverlaps ==
  ASSUME NEW cs, WellTyped(cs), NEW less, PartOf(less, cs)
  PROVE  /\ WellTyped(less)
         /\ DetectOverlaps(less) \subseteq DetectOverlaps(cs)
         /\ \A path : TouchedBy(less, path) \subseteq TouchedBy(cs, path)
         /\ NeedsAnalysis(less) => NeedsAnalysis(cs)
<1>1. /\ DOMAIN less \in SUBSET DOMAIN cs /\ IsFiniteSet(DOMAIN cs)
      /\ \A a \in DOMAIN less : less[a] = cs[a]
  BY DEF PartOf, WellTyped
<1>2. WellTyped(less)
  BY <1>1, FewerElements DEF WellTyped
<1>3. \A o \in Occurrences(less) : /\ o \in Occurrences(cs)
                                  /\ PathOf(less, o) = PathOf(cs, o)
                                  /\ SymbolOf(less, o) = SymbolOf(cs, o)
  <2> SUFFICES ASSUME NEW o \in Occurrences(less)
               PROVE  /\ o \in Occurrences(cs)
                      /\ PathOf(less, o) = PathOf(cs, o)
                      /\ SymbolOf(less, o) = SymbolOf(cs, o)
    OBVIOUS
  <2>1. o.agent \in DOMAIN less
    BY <1>2, OccurrenceType
  <2>2. o \in Occurrences(cs)
    <3>1. \E a \in DOMAIN cs : \E f \in DOMAIN cs[a] : \E i \in DOMAIN cs[a][f].symbols :
            o = [agent |-> a, file |-> f, sym |-> i]
      BY <1>1, OccurrenceIs
    <3> QED
      BY <3>1, OccurrenceIs
  <2> QED
    BY <1>1, <2>1, <2>2 DEF PathOf, SymbolOf
<1>4. DetectOverlaps(less) \subseteq DetectOverlaps(cs)
  <2> SUFFICES ASSUME NEW x \in DetectOverlaps(less)
               PROVE  x \in DetectOverlaps(cs)
    OBVIOUS
  <2>1. PICK o \in Occurrences(less), p \in Occurrences(less) :
          SharedKey(less, o, p) /\ x = OverlapOf(less, o, p)
    BY OverlapIs
  <2>2. SharedKey(cs, o, p) /\ x = OverlapOf(cs, o, p)
    BY <1>3, <2>1 DEF SharedKey, OverlapOf
  <2>3. o \in Occurrences(cs) /\ p \in Occurrences(cs)
    BY <1>3
  <2> QED
    BY <2>2, <2>3, OverlapIs
<1>5. \A path : TouchedBy(less, path) \subseteq TouchedBy(cs, path)
  BY <1>1 DEF TouchedBy
<1>6. NeedsAnalysis(less) => NeedsAnalysis(cs)
  <2>1. /\ Cardinality(DOMAIN less) \in Nat /\ Cardinality(DOMAIN cs) \in Nat
        /\ Cardinality(DOMAIN less) <= Cardinality(DOMAIN cs)
    <3> DEFINE T == DOMAIN cs
               S == DOMAIN less
    <3>1. IsFiniteSet(T) /\ S \in SUBSET T
      BY <1>1
    <3> HIDE DEF T, S
    <3>2. Cardinality(S) \in Nat /\ Cardinality(T) \in Nat /\ Cardinality(S) <= Cardinality(T)
      BY <3>1, FewerElements
    <3> QED
      BY <3>2 DEF T, S
  <2> QED
    BY <2>1 DEF NeedsAnalysis
<1> QED
  BY <1>2, <1>4, <1>5, <1>6

\* Each file of their report is in the report on all, with at least the same risk.
LEMMA PartRisks ==
  ASSUME NEW cs, WellTyped(cs), NEW less, PartOf(less, cs),
         NEW r \in AnalyzeOverlaps(less).fileRisks
  PROVE  \E s \in AnalyzeOverlaps(cs).fileRisks :
           /\ s.path = r.path /\ r.riskScore <= s.riskScore
           /\ r.riskScore \in Int /\ s.riskScore \in Int
<1>1. PICK path \in ScoredPaths(less, DetectOverlaps(less)) : r = RiskOf(less, path)
  BY ReportIs
<1>2. /\ DetectOverlaps(less) \subseteq DetectOverlaps(cs)
      /\ TouchedBy(less, path) \subseteq TouchedBy(cs, path)
  BY PartOverlaps
<1>3. IsFiniteSet(DetectOverlaps(cs)) /\ IsFiniteSet(TouchedBy(cs, path))
  <2>1. IsFiniteSet(DOMAIN cs) /\ TouchedBy(cs, path) \in SUBSET DOMAIN cs
    BY DEF WellTyped, TouchedBy
  <2> QED
    BY <2>1, OverlapsFinite, FewerElements
<1>4. path \in ScoredPaths(cs, DetectOverlaps(cs))
  <2>1. /\ Cardinality(TouchedBy(less, path)) \in Nat /\ Cardinality(TouchedBy(cs, path)) \in Nat
        /\ Cardinality(TouchedBy(less, path)) <= Cardinality(TouchedBy(cs, path))
    BY <1>2, <1>3, FewerElements
  <2> QED
    BY <1>2, <2>1 DEF ScoredPaths
<1> DEFINE S == Mine(DetectOverlaps(less), path)
           T == Mine(DetectOverlaps(cs), path)
<1>5. IsFiniteSet(T) /\ S \in SUBSET T
  <2>1. T \in SUBSET DetectOverlaps(cs) /\ S \in SUBSET T
    BY <1>2 DEF Mine
  <2> HIDE DEF T, S
  <2> QED
    BY <1>3, <2>1, FewerElements
<1>6. r.path = path /\ r.riskScore = Clamp(RawRisk(S))
      /\ RiskOf(cs, path).path = path /\ RiskOf(cs, path).riskScore = Clamp(RawRisk(T))
  BY <1>1, ReportIs
<1> HIDE DEF S, T
<1>7. /\ Clamp(RawRisk(S)) <= Clamp(RawRisk(T))
      /\ Clamp(RawRisk(S)) \in Int /\ Clamp(RawRisk(T)) \in Int
  BY <1>5, RiskGrows, WeightAssumption DEF Clamp
<1>8. RiskOf(cs, path) \in AnalyzeOverlaps(cs).fileRisks
  BY <1>4, ReportIs
<1> QED
  BY <1>6, <1>7, <1>8

\* The policy: what blocks some of the agents blocks all of them.
LEMMA PartIsAllowed ==
  ASSUME NEW cs, WellTyped(cs), NEW less, PartOf(less, cs), Decision(cs).allowed
  PROVE  Decision(less).allowed
<1>1. CASE ~NeedsAnalysis(less)
  BY <1>1 DEF Decision, AllowByDefault
<1>2. CASE NeedsAnalysis(less)
  <2> DEFINE all == AnalyzeOverlaps(cs)
             some == AnalyzeOverlaps(less)
  <2>1. NeedsAnalysis(cs)
    BY <1>2, PartOverlaps
  <2>2. CriticalFiles(all) \cup RiskyFiles(all) = {}
    BY <2>1 DEF Decision, Evaluate
  <2>3. some.overlaps \subseteq all.overlaps
    BY PartOverlaps, ReportIs
  <2>4. \A r \in some.fileRisks : \E s \in all.fileRisks :
          /\ r.riskScore <= s.riskScore
          /\ r.riskScore \in Int /\ s.riskScore \in Int
    BY PartRisks
  <2> HIDE DEF all, some
  <2>5. CriticalFiles(some) = {}
    BY <2>2, <2>3 DEF CriticalFiles
  <2>6. RiskyFiles(some) = {}
    <3>1. \A s \in all.fileRisks : ~(s.riskScore > RiskThreshold)
      BY <2>2 DEF RiskyFiles
    <3>2. \A r \in some.fileRisks : ~(r.riskScore > RiskThreshold)
      BY <2>4, <3>1, PolicyAssumption
    <3> QED
      BY <3>2 DEF RiskyFiles
  <2>7. Evaluate(some).allowed
    BY <2>5, <2>6 DEF Evaluate
  <2> QED
    BY <1>2, <2>7 DEF Decision, some
<1> QED
  BY <1>1, <1>2
-----------------------------------------------------------------------------
(***************************************************************************)
(* The VFS.                                                                *)
(***************************************************************************)

\* The inductive invariant.
AnalysisInv == WellTyped(changesets)

LEMMA AnalysisStarts == AnalysisInit => AnalysisInv
<1> SUFFICES ASSUME AnalysisInit PROVE AnalysisInv
  OBVIOUS
<1>1. DOMAIN changesets = {}
  BY DEF AnalysisInit
<1> QED
  BY <1>1, FS_EmptySet DEF AnalysisInv, WellTyped

LEMMA AnalysisContinues == AnalysisInv /\ [AnalysisNext]_changesets => AnalysisInv'
<1> SUFFICES ASSUME AnalysisInv, [AnalysisNext]_changesets
             PROVE  AnalysisInv'
  OBVIOUS
<1>0. IsFiniteSet(DOMAIN changesets) /\ \A a \in DOMAIN changesets : changesets[a] \in Seq(FileInputs)
  BY DEF AnalysisInv, WellTyped
<1>1. CASE UNCHANGED changesets
  BY <1>0, <1>1 DEF AnalysisInv, WellTyped
<1>2. ASSUME NEW a \in Agents, NEW files \in Submissions, Submit(a, files)
      PROVE  AnalysisInv'
  <2>1. DOMAIN changesets' = DOMAIN changesets \cup {a}
    BY <1>2 DEF Submit
  <2>2. \A b \in DOMAIN changesets' : changesets'[b] = IF b = a THEN files ELSE changesets[b]
    BY <1>2 DEF Submit
  <2>3. IsFiniteSet(DOMAIN changesets')
    BY <1>0, <2>1, FS_AddElement
  <2>4. files \in Seq(FileInputs)
    BY SubmissionAssumption
  <2>5. \A b \in DOMAIN changesets' : changesets'[b] \in Seq(FileInputs)
    BY <1>0, <2>1, <2>2, <2>4
  <2> QED
    BY <2>3, <2>5 DEF AnalysisInv, WellTyped
<1>3. ASSUME NEW a \in Agents, Withdraw(a)
      PROVE  AnalysisInv'
  <2>1. DOMAIN changesets' = DOMAIN changesets \ {a}
        /\ \A b \in DOMAIN changesets' : changesets'[b] = changesets[b]
    BY <1>3 DEF Withdraw, Without
  <2>2. IsFiniteSet(DOMAIN changesets')
    BY <1>0, <2>1, FS_RemoveElement
  <2> QED
    BY <1>0, <2>1, <2>2 DEF AnalysisInv, WellTyped
<1> QED
  BY <1>1, <1>2, <1>3 DEF AnalysisNext
-----------------------------------------------------------------------------
(***************************************************************************)
(* Lines.                                                                  *)
(***************************************************************************)

\* The number of lines between two ranges, found by enumeration, is none when they
\* overlap and the gap that the code computes from their ends otherwise.
LEMMA DistanceIs ==
  ASSUME NEW x \in Symbols, NEW y \in Symbols
  PROVE  /\ OverlapsLines(x, y) => Distance(x, y) = 0
         /\ ~OverlapsLines(x, y) => /\ Distance(x, y) = Gap(x, y)
                                    /\ Gap(x, y) \in Nat \ {0}
<1>1. /\ x.start \in Nat /\ x.end \in Nat /\ x.start <= x.end
      /\ y.start \in Nat /\ y.end \in Nat /\ y.start <= y.end
  BY DEF Symbols
<1> DEFINE Apart == {Abs(i - j) : i \in x.start..x.end, j \in y.start..y.end}
<1>2. \A d \in Nat : d \in Apart /\ (\A e \in Apart : d <= e) => Distance(x, y) = d
  <2> SUFFICES ASSUME NEW d \in Nat, d \in Apart, \A e \in Apart : d <= e
               PROVE  Distance(x, y) = d
    OBVIOUS
  <2>1. \A e \in Apart : e \in Int
    BY <1>1 DEF Abs
  <2>2. Distance(x, y) = Min(Apart)
    BY DEF Distance
  <2> HIDE DEF Apart
  <2>3. \A e \in Apart : (\A f \in Apart : e <= f) => e = d
    BY <2>1
  <2> QED
    BY <2>2, <2>3 DEF Min
<1>3. CASE OverlapsLines(x, y)
  <2>1. \E n : n \in x.start..x.end /\ n \in y.start..y.end
    <3>1. CASE x.start <= y.start
      BY <1>1, <1>3, <3>1 DEF OverlapsLines
    <3>2. CASE y.start <= x.start
      BY <1>1, <1>3, <3>2 DEF OverlapsLines
    <3> QED
      BY <1>1, <3>1, <3>2
  <2>2. PICK n : n \in x.start..x.end /\ n \in y.start..y.end
    BY <2>1
  <2>3. Abs(n - n) = 0
    BY <1>1, <2>2 DEF Abs
  <2>4. 0 \in Apart
    BY <2>2, <2>3
  <2>5. \A e \in Apart : 0 <= e
    BY <1>1 DEF Abs
  <2> QED
    BY <1>2, <1>3, <2>4, <2>5
<1>4. CASE x.end < y.start
  <2>1. Gap(x, y) = y.start - x.end /\ Gap(x, y) \in Nat \ {0}
    BY <1>1, <1>4 DEF Gap, Abs
  <2>2. y.start - x.end \in Apart
    <3>1. Abs(x.end - y.start) = y.start - x.end
      BY <1>1, <1>4 DEF Abs
    <3>2. x.end \in x.start..x.end /\ y.start \in y.start..y.end
      BY <1>1
    <3> QED
      BY <3>1, <3>2
  <2>3. \A e \in Apart : y.start - x.end <= e
    BY <1>1, <1>4 DEF Abs
  <2>4. ~OverlapsLines(x, y)
    BY <1>1, <1>4 DEF OverlapsLines
  <2>5. Distance(x, y) = Gap(x, y)
    BY <1>2, <2>1, <2>2, <2>3
  <2> QED
    BY <2>1, <2>4, <2>5
<1>5. CASE y.end < x.start
  <2>1. Gap(x, y) = x.start - y.end /\ Gap(x, y) \in Nat \ {0}
    BY <1>1, <1>5 DEF Gap, Abs
  <2>2. x.start - y.end \in Apart
    <3>1. Abs(x.start - y.end) = x.start - y.end
      BY <1>1, <1>5 DEF Abs
    <3>2. x.start \in x.start..x.end /\ y.end \in y.start..y.end
      BY <1>1
    <3> QED
      BY <3>1, <3>2
  <2>3. \A e \in Apart : x.start - y.end <= e
    BY <1>1, <1>5 DEF Abs
  <2>4. ~OverlapsLines(x, y)
    BY <1>1, <1>5 DEF OverlapsLines
  <2>5. Distance(x, y) = Gap(x, y)
    BY <1>2, <2>1, <2>2, <2>3
  <2> QED
    BY <2>1, <2>4, <2>5
<1> QED
  BY <1>1, <1>3, <1>4, <1>5 DEF OverlapsLines

\* The overlap of two occurrences does not depend on their order.
LEMMA OverlapIsSymmetric ==
  ASSUME NEW cs, WellTyped(cs), NEW o \in Occurrences(cs), NEW p \in Occurrences(cs),
         SharedKey(cs, o, p)
  PROVE  SharedKey(cs, p, o) /\ OverlapOf(cs, p, o) = OverlapOf(cs, o, p)
<1>1. SharedKey(cs, p, o) /\ PathOf(cs, p) = PathOf(cs, o)
  BY DEF SharedKey
<1>2. SymbolOf(cs, o) \in Symbols /\ SymbolOf(cs, p) \in Symbols
  BY OccurrenceType
<1>3. Classify(SymbolOf(cs, p), SymbolOf(cs, o)) = Classify(SymbolOf(cs, o), SymbolOf(cs, p))
  <2> SUFFICES ASSUME NEW x \in Symbols, NEW y \in Symbols
               PROVE  Classify(x, y) = Classify(y, x)
    BY <1>2
  <2>1. /\ x.start \in Nat /\ x.end \in Nat /\ y.start \in Nat /\ y.end \in Nat
    BY DEF Symbols
  <2>2. Gap(x, y) = Gap(y, x)
    BY <2>1 DEF Gap, Abs
  <2>3. OverlapsLines(x, y) <=> OverlapsLines(y, x)
    BY DEF OverlapsLines
  <2> QED
    BY <2>2, <2>3 DEF Classify
<1>4. {p, o} = {o, p}
  OBVIOUS
<1> QED
  BY <1>1, <1>3, <1>4 DEF OverlapOf

\* The severity of the overlap of two occurrences, in lines.
LEMMA SeverityOf ==
  ASSUME NEW cs, WellTyped(cs), NEW o \in Occurrences(cs), NEW p \in Occurrences(cs)
  PROVE  LET d == Distance(SymbolOf(cs, o), SymbolOf(cs, p))
         IN /\ OverlapOf(cs, o, p).severity =
                 IF d = 0 THEN "critical" ELSE IF d <= 3 THEN "high" ELSE "medium"
            /\ d \in Nat
<1>1. SymbolOf(cs, o) \in Symbols /\ SymbolOf(cs, p) \in Symbols
  BY OccurrenceType
<1>2. OverlapOf(cs, o, p).severity = Classify(SymbolOf(cs, o), SymbolOf(cs, p))
  BY DEF OverlapOf
<1> QED
  BY <1>1, <1>2, DistanceIs DEF Classify, AdjacentThreshold

LEMMA OneOverlapPerPair ==
  ASSUME AnalysisInv
  PROVE  SeverityIsDistance
<1> DEFINE cs == changesets
<1>0. WellTyped(cs)
  BY DEF AnalysisInv
<1> SUFFICES ASSUME NEW o \in Occurrences(changesets), NEW p \in Occurrences(changesets)
             PROVE  LET found == {x \in DetectOverlaps(changesets) : x.between = {o, p}}
                        d     == Distance(SymbolOf(changesets, o), SymbolOf(changesets, p))
                    IN IF SharedKey(changesets, o, p)
                       THEN \E x \in found :
                              /\ found = {x}
                              /\ x.severity = IF d = 0 THEN "critical"
                                              ELSE IF d <= 3 THEN "high" ELSE "medium"
                       ELSE found = {}
  BY DEF SeverityIsDistance
<1> DEFINE found == {x \in DetectOverlaps(cs) : x.between = {o, p}}
           d == Distance(SymbolOf(cs, o), SymbolOf(cs, p))
<1>1. ASSUME NEW x \in found
      PROVE  SharedKey(cs, o, p) /\ x = OverlapOf(cs, o, p)
  <2>1. PICK r \in Occurrences(cs), s \in Occurrences(cs) :
          SharedKey(cs, r, s) /\ x = OverlapOf(cs, r, s)
    BY OverlapIs
  <2>2. {r, s} = {o, p}
    BY <2>1 DEF OverlapOf
  <2>3. CASE r = o /\ s = p
    BY <2>1, <2>3
  <2>4. CASE r = p /\ s = o
    BY <1>0, <2>1, <2>4, OverlapIsSymmetric
  <2>5. r # s
    BY <2>1 DEF SharedKey
  <2> QED
    BY <2>2, <2>3, <2>4, <2>5
<1>2. CASE SharedKey(cs, o, p)
  <2>1. OverlapOf(cs, o, p) \in DetectOverlaps(cs)
    BY <1>2, OverlapIs
  <2>2. OverlapOf(cs, o, p) \in found
    BY <2>1 DEF OverlapOf
  <2>3. found = {OverlapOf(cs, o, p)}
    BY <1>1, <2>2
  <2>4. OverlapOf(cs, o, p).severity =
          IF d = 0 THEN "critical" ELSE IF d <= 3 THEN "high" ELSE "medium"
    BY <1>0, SeverityOf
  <2> QED
    BY <1>2, <2>2, <2>3, <2>4
<1>3. CASE ~SharedKey(cs, o, p)
  BY <1>1, <1>3
<1> QED
  BY <1>2, <1>3

\* For any submissions: one overlap for every pair of symbols of one key, whose severity
\* is a statement about their lines.
THEOREM SeverityTellsTheDistance == AnalysisSpec => []SeverityIsDistance
<1>1. AnalysisInit => AnalysisInv
  BY AnalysisStarts
<1>2. AnalysisInv /\ [AnalysisNext]_changesets => AnalysisInv'
  BY AnalysisContinues
<1>3. AnalysisInv => SeverityIsDistance
  BY OneOverlapPerPair
<1> QED
  BY <1>1, <1>2, <1>3, PTL DEF AnalysisSpec
-----------------------------------------------------------------------------
(***************************************************************************)
(* Decisions.                                                              *)
(***************************************************************************)

LEMMA LessIsBetter ==
  ASSUME AnalysisInv
  PROVE  WithdrawalNeverBlocks
<1> SUFFICES ASSUME NEW a \in DOMAIN changesets
             PROVE  LET less   == Without(changesets, a)
                        before == AnalyzeOverlaps(changesets).fileRisks
                    IN /\ \A r \in AnalyzeOverlaps(less).fileRisks :
                            \E s \in before : s.path = r.path /\ r.riskScore <= s.riskScore
                       /\ Decision(changesets).allowed => Decision(less).allowed
  BY DEF WithdrawalNeverBlocks
<1> DEFINE less == Without(changesets, a)
<1>1. WellTyped(changesets) /\ PartOf(less, changesets)
  BY DEF AnalysisInv, Without, PartOf
<1> HIDE DEF less
<1>2. \A r \in AnalyzeOverlaps(less).fileRisks :
        \E s \in AnalyzeOverlaps(changesets).fileRisks :
          s.path = r.path /\ r.riskScore <= s.riskScore
  BY <1>1, PartRisks
<1>3. Decision(changesets).allowed => Decision(less).allowed
  BY <1>1, PartIsAllowed
<1> QED
  BY <1>2, <1>3 DEF less

\* For any weights and thresholds: clearing an agent's entry raises no risk and blocks
\* nobody.
THEOREM WithdrawalsAreSafe == AnalysisSpec => []WithdrawalNeverBlocks
<1>1. AnalysisInit => AnalysisInv
  BY AnalysisStarts
<1>2. AnalysisInv /\ [AnalysisNext]_changesets => AnalysisInv'
  BY AnalysisContinues
<1>3. AnalysisInv => WithdrawalNeverBlocks
  BY LessIsBetter
<1> QED
  BY <1>1, <1>2, <1>3, PTL DEF AnalysisSpec

\* Two agents with changes are enough for the analysis to be asked.
LEMMA SharedKeysAreAnalyzed ==
  ASSUME NEW cs, WellTyped(cs), NEW x \in DetectOverlaps(cs)
  PROVE  NeedsAnalysis(cs)
<1>1. AgentsOf(x) \subseteq DOMAIN cs /\ \E a, b \in AgentsOf(x) : a # b
  BY OverlapType
<1>2. PICK a \in DOMAIN cs, b \in DOMAIN cs : a # b
  BY <1>1
<1>3. IsFiniteSet(DOMAIN cs)
  BY DEF WellTyped
<1> QED
  BY <1>2, <1>3, TwoElements DEF NeedsAnalysis

LEMMA AllowedSharesNoLine ==
  ASSUME AnalysisInv
  PROVE  AllowedMeansDisjoint
<1> DEFINE cs == changesets
<1> SUFFICES ASSUME BlockOnCritical, Decision(cs).allowed,
                    NEW o \in Occurrences(cs), NEW p \in Occurrences(cs), SharedKey(cs, o, p)
             PROVE  Distance(SymbolOf(cs, o), SymbolOf(cs, p)) > 0
  BY DEF AllowedMeansDisjoint
<1>0. WellTyped(cs)
  BY DEF AnalysisInv
<1> DEFINE x == OverlapOf(cs, o, p)
<1>1. x \in DetectOverlaps(cs)
  BY OverlapIs
<1>2. NeedsAnalysis(cs)
  BY <1>0, <1>1, SharedKeysAreAnalyzed
<1>3. CriticalFiles(AnalyzeOverlaps(cs)) = {}
  BY <1>2 DEF Decision, Evaluate
<1>4. x.severity # "critical"
  <2> HIDE DEF x
  <2>1. BlockOnCritical = TRUE
    BY PolicyAssumption
  <2>2. AnalyzeOverlaps(cs).overlaps = DetectOverlaps(cs)
    BY ReportIs
  <2>3. {z.path : z \in {y \in DetectOverlaps(cs) : y.severity = "critical"}} = {}
    BY <1>3, <2>1, <2>2 DEF CriticalFiles
  <2> QED
    BY <1>1, <2>3
<1>5. SymbolOf(cs, o) \in Symbols /\ SymbolOf(cs, p) \in Symbols
  BY <1>0, OccurrenceType
<1>6. ~OverlapsLines(SymbolOf(cs, o), SymbolOf(cs, p))
  BY <1>4 DEF OverlapOf, Classify
<1> QED
  BY <1>5, <1>6, DistanceIs

\* For any risk threshold: with block-on-critical, what is allowed shares no line.
THEOREM AllowedIsDisjoint == AnalysisSpec => []AllowedMeansDisjoint
<1>1. AnalysisInit => AnalysisInv
  BY AnalysisStarts
<1>2. AnalysisInv /\ [AnalysisNext]_changesets => AnalysisInv'
  BY AnalysisContinues
<1>3. AnalysisInv => AllowedMeansDisjoint
  BY AllowedSharesNoLine
<1> QED
  BY <1>1, <1>2, <1>3, PTL DEF AnalysisSpec
-----------------------------------------------------------------------------
(***************************************************************************)
(* The decision, the report and the tab.                                   *)
(***************************************************************************)

\* The maximum severity is that of an overlap, and none is worse.
LEMMA WorstSeverity ==
  ASSUME NEW S, S # {}, \A o \in S : o.severity \in Severities
  PROVE  /\ \E o \in S : MaxSeverityOf(S) = o.severity
         /\ MaxSeverityOf(S) \in Severities
         /\ \A o \in S : SeverityRank[o.severity] <= SeverityRank[MaxSeverityOf(S)]
<1> DEFINE Worst(o) == \A p \in S : SeverityRank[p.severity] <= SeverityRank[o.severity]
<1>1. /\ SeverityRank["critical"] = 4 /\ SeverityRank["high"] = 3 /\ SeverityRank["medium"] = 2
  BY DEF SeverityRank
<1>2. \E o \in S : Worst(o)
  <2>1. CASE \E o \in S : o.severity = "critical"
    BY <1>1, <2>1 DEF Severities
  <2>2. CASE (\E o \in S : o.severity = "high") /\ ~ \E o \in S : o.severity = "critical"
    BY <1>1, <2>2 DEF Severities
  <2>3. CASE ~ \E o \in S : o.severity \in {"critical", "high"}
    BY <1>1, <2>3 DEF Severities
  <2> QED
    BY <2>1, <2>2, <2>3
<1> DEFINE w == CHOOSE o \in S : Worst(o)
<1>3. w \in S /\ Worst(w)
  <2> HIDE DEF Worst
  <2> QED
    BY <1>2
<1>4. MaxSeverityOf(S) = w.severity
  BY DEF MaxSeverityOf
<1> HIDE DEF w
<1> QED
  BY <1>3, <1>4

\* Every file of an overlap is in the report, with its overlaps, for two contributors.
LEMMA OverlapIsReported ==
  ASSUME NEW cs, WellTyped(cs), NEW x \in DetectOverlaps(cs)
  PROVE  /\ RiskOf(cs, x.path) \in AnalyzeOverlaps(cs).fileRisks
         /\ RiskOf(cs, x.path).path = x.path
         /\ RiskOf(cs, x.path).pairwiseCount >= 1
         /\ Cardinality(RiskOf(cs, x.path).contributors) >= 2
<1> DEFINE path == x.path
           mine == Mine(DetectOverlaps(cs), path)
           pairs == {AgentsOf(o) : o \in mine}
           all == Contributors(cs, path)
<1>1. /\ path \in Paths /\ \E a, b \in AgentsOf(x) : a # b
  BY OverlapType
<1>2. path \in ScoredPaths(cs, DetectOverlaps(cs))
  BY <1>1 DEF ScoredPaths
<1>3. RiskOf(cs, path).pairwiseCount = Cardinality(pairs)
      /\ RiskOf(cs, path).contributors = all
  BY DEF RiskOf, ScoreFile
<1>4. x \in mine
  BY DEF Mine
<1>5. IsFiniteSet(pairs) /\ AgentsOf(x) \in pairs
  <2> DEFINE f == [o \in mine |-> AgentsOf(o)]
  <2>1. mine \in SUBSET DetectOverlaps(cs)
    BY DEF Mine
  <2>2. IsFiniteSet(mine)
    BY <2>1, OverlapsFinite, FewerElements
  <2>3. DOMAIN f = mine /\ pairs = {f[o] : o \in DOMAIN f}
    OBVIOUS
  <2>4. AgentsOf(x) \in pairs
    BY <1>4
  <2> HIDE DEF f, mine, pairs
  <2> QED
    BY <2>2, <2>3, <2>4, FiniteImage
<1>6. Cardinality(pairs) >= 1
  <2> HIDE DEF pairs
  <2>1. Cardinality(pairs) \in Nat /\ Cardinality(pairs) # 0
    BY <1>5, FS_CardinalityType, FS_EmptySet
  <2> QED
    BY <2>1
<1>7. IsFiniteSet(all)
  <2>1. \A o \in mine : AgentsOf(o) \subseteq DOMAIN cs
    BY OverlapType DEF Mine
  <2>2. all \in SUBSET DOMAIN cs
    <3>1. TouchedBy(cs, path) \subseteq DOMAIN cs
      BY DEF TouchedBy
    <3>2. UNION pairs \subseteq DOMAIN cs
      BY <2>1
    <3>3. all = (UNION pairs) \cup TouchedBy(cs, path)
      BY DEF Contributors
    <3> HIDE DEF all, pairs
    <3> QED
      BY <3>1, <3>2, <3>3
  <2>3. IsFiniteSet(DOMAIN cs)
    BY DEF WellTyped
  <2> HIDE DEF all
  <2> QED
    BY <2>2, <2>3, FewerElements
<1>8. \E a, b \in all : a # b
  BY <1>1, <1>4 DEF Contributors
<1>9. Cardinality(all) >= 2
  <2> HIDE DEF all
  <2> QED
    BY <1>7, <1>8, TwoElements
<1> QED
  BY <1>2, <1>3, <1>6, <1>9, ReportIs
\* A file with risk has an overlap.
LEMMA RiskComesFromOverlaps ==
  ASSUME NEW cs, WellTyped(cs), NEW r \in AnalyzeOverlaps(cs).fileRisks
  PROVE  /\ r = RiskOf(cs, r.path)
         /\ r.riskScore \in Nat
         /\ r.riskScore > 0 => \E x \in DetectOverlaps(cs) : x.path = r.path
<1>1. PICK path \in ScoredPaths(cs, DetectOverlaps(cs)) : r = RiskOf(cs, path)
  BY ReportIs
<1> DEFINE mine == Mine(DetectOverlaps(cs), path)
<1>2. r.path = path /\ r.riskScore = Clamp(RawRisk(mine))
  BY <1>1, ReportIs
<1>3. IsFiniteSet(mine)
  <2>1. mine \in SUBSET DetectOverlaps(cs)
    BY DEF Mine
  <2> HIDE DEF mine
  <2> QED
    BY <2>1, OverlapsFinite, FewerElements
<1>4. RawRisk(mine) \in Nat /\ (mine = {} => RawRisk(mine) = 0)
  <2> HIDE DEF mine
  <2> QED
    BY <1>3, RiskType, NoOverlapNoRisk
<1>5. r.riskScore \in Nat /\ (r.riskScore > 0 => mine # {})
  <2> HIDE DEF mine
  <2> QED
    BY <1>2, <1>4, WeightAssumption DEF Clamp
<1> QED
  BY <1>1, <1>2, <1>5 DEF Mine

\* Below two agents there is nothing to report, and an empty report allows.
LEMMA SkippedAnalysisAllows ==
  ASSUME NEW cs, WellTyped(cs)
  PROVE  Decision(cs) = Evaluate(AnalyzeOverlaps(cs))
<1>1. CASE NeedsAnalysis(cs)
  BY <1>1 DEF Decision
<1>2. CASE ~NeedsAnalysis(cs)
  <2>1. DetectOverlaps(cs) = {}
    BY <1>2, SharedKeysAreAnalyzed
  <2>2. ScoredPaths(cs, DetectOverlaps(cs)) = {}
    <3> SUFFICES ASSUME NEW path \in Paths, Cardinality(TouchedBy(cs, path)) >= 2
                 PROVE  FALSE
      BY <2>1 DEF ScoredPaths
    <3>1. IsFiniteSet(DOMAIN cs) /\ TouchedBy(cs, path) \in SUBSET DOMAIN cs
      BY DEF WellTyped, TouchedBy
    <3>2. /\ Cardinality(DOMAIN cs) \in Nat /\ Cardinality(TouchedBy(cs, path)) \in Nat
          /\ Cardinality(TouchedBy(cs, path)) <= Cardinality(DOMAIN cs)
      BY <3>1, FewerElements
    <3> QED
      BY <1>2, <3>2 DEF NeedsAnalysis
  <2> DEFINE resp == AnalyzeOverlaps(cs)
  <2>3. resp.overlaps = {} /\ resp.fileRisks = {}
    BY <2>1, <2>2, ReportIs
  <2> HIDE DEF resp
  <2>4. CriticalFiles(resp) = {} /\ RiskyFiles(resp) = {} /\ MaxSeverityOf(resp.overlaps) = "none"
    BY <2>3 DEF CriticalFiles, RiskyFiles, MaxSeverityOf
  <2>5. Evaluate(resp) = AllowByDefault
    BY <2>4 DEF Evaluate, AllowByDefault
  <2> QED
    BY <1>2, <2>5 DEF Decision, resp
<1> QED
  BY <1>1, <1>2

\* A blocking file has an overlap.
LEMMA BlockingFilesOverlap ==
  ASSUME NEW cs, WellTyped(cs), NEW path \in Evaluate(AnalyzeOverlaps(cs)).blockingFiles
  PROVE  /\ \E x \in DetectOverlaps(cs) : x.path = path
         /\ \/ \E x \in DetectOverlaps(cs) : x.path = path /\ x.severity = "critical"
            \/ \E r \in AnalyzeOverlaps(cs).fileRisks :
                 r.path = path /\ r.riskScore \in Nat /\ r.riskScore > RiskThreshold
<1> DEFINE resp == AnalyzeOverlaps(cs)
<1>1. resp.overlaps = DetectOverlaps(cs)
  BY ReportIs
<1>2. path \in CriticalFiles(resp) \cup RiskyFiles(resp)
  BY DEF Evaluate
<1> HIDE DEF resp
<1>3. CASE path \in CriticalFiles(resp)
  <2>1. \E x \in DetectOverlaps(cs) : x.path = path /\ x.severity = "critical"
    BY <1>1, <1>3 DEF CriticalFiles
  <2> QED
    BY <2>1
<1>4. CASE path \in RiskyFiles(resp)
  <2>1. PICK r \in resp.fileRisks : r.path = path /\ r.riskScore > RiskThreshold
    BY <1>4 DEF RiskyFiles
  <2>2. r \in AnalyzeOverlaps(cs).fileRisks
    BY DEF resp
  <2>3. r.riskScore \in Nat /\ (r.riskScore > 0 => \E x \in DetectOverlaps(cs) : x.path = r.path)
    BY <2>2, RiskComesFromOverlaps
  <2>4. r.riskScore > 0
    BY <2>1, <2>3, PolicyAssumption
  <2> QED
    BY <2>1, <2>2, <2>3, <2>4
<1> QED
  BY <1>2, <1>3, <1>4

\* The worst severity of the decision is the worst of the files'.
LEMMA SeverityOfDecision ==
  ASSUME NEW cs, WellTyped(cs)
  PROVE  SeverityRank[MaxSeverityOf(DetectOverlaps(cs))] =
           Max({0} \cup {SeverityRank[r.maxSeverity] : r \in AnalyzeOverlaps(cs).fileRisks})
<1> DEFINE D == DetectOverlaps(cs)
           F == AnalyzeOverlaps(cs).fileRisks
           Ranks == {0} \cup {SeverityRank[r.maxSeverity] : r \in F}
           top == SeverityRank[MaxSeverityOf(D)]
<1>1. /\ SeverityRank["critical"] = 4 /\ SeverityRank["high"] = 3 /\ SeverityRank["medium"] = 2
      /\ SeverityRank["none"] = 0
  BY DEF SeverityRank
<1>2. \A x \in D : x.severity \in Severities
  BY OverlapType
<1>3. \A path : /\ Mine(D, path) \subseteq D
               /\ RiskOf(cs, path).maxSeverity = MaxSeverityOf(Mine(D, path))
  BY DEF RiskOf, ScoreFile, Mine
<1>4. F = {RiskOf(cs, path) : path \in ScoredPaths(cs, D)}
  BY ReportIs
<1>5. top \in Nat
  <2>1. CASE D = {}
    BY <1>1, <2>1 DEF MaxSeverityOf
  <2>2. CASE D # {}
    <3>1. MaxSeverityOf(D) \in Severities
      BY <1>2, <2>2, WorstSeverity
    <3> QED
      BY <1>1, <3>1 DEF Severities
  <2> QED
    BY <2>1, <2>2
<1>6. \A path : /\ SeverityRank[MaxSeverityOf(Mine(D, path))] \in Nat
               /\ SeverityRank[MaxSeverityOf(Mine(D, path))] <= top
  <2> SUFFICES ASSUME NEW path
               PROVE  /\ SeverityRank[MaxSeverityOf(Mine(D, path))] \in Nat
                      /\ SeverityRank[MaxSeverityOf(Mine(D, path))] <= top
    OBVIOUS
  <2> DEFINE M == Mine(D, path)
  <2>0. M \subseteq D
    BY <1>3
  <2> HIDE DEF M, D
  <2>1. CASE M = {}
    BY <1>1, <1>5, <2>1 DEF MaxSeverityOf, M
  <2>2. CASE M # {}
    <3>1. PICK o \in M : MaxSeverityOf(M) = o.severity
      BY <1>2, <2>0, <2>2, WorstSeverity
    <3>2. D # {} /\ o \in D
      BY <2>0
    <3>3. SeverityRank[o.severity] <= SeverityRank[MaxSeverityOf(D)]
      BY <1>2, <3>2, WorstSeverity
    <3>4. SeverityRank[o.severity] \in Nat
      BY <1>1, <1>2, <3>2 DEF Severities
    <3> QED
      BY <3>1, <3>3, <3>4 DEF M
  <2> QED
    BY <2>1, <2>2
<1>7. \A n \in Ranks : n \in Nat /\ n <= top
  <2> HIDE DEF top, D
  <2>1. \A r \in F : SeverityRank[r.maxSeverity] \in Nat /\ SeverityRank[r.maxSeverity] <= top
    BY <1>3, <1>4, <1>6
  <2> QED
    BY <1>5, <2>1
<1>8. top \in Ranks
  <2>1. CASE D = {}
    BY <1>1, <2>1 DEF MaxSeverityOf
  <2>2. CASE D # {}
    <3>1. PICK x \in D : MaxSeverityOf(D) = x.severity
      BY <1>2, <2>2, WorstSeverity
    <3> DEFINE r == RiskOf(cs, x.path)
               M == Mine(D, x.path)
    <3>2. r \in F /\ r.maxSeverity = MaxSeverityOf(M)
      BY <1>3, OverlapIsReported
    <3>3. x \in M /\ M \subseteq D
      BY DEF Mine
    <3>4. SeverityRank[x.severity] <= SeverityRank[MaxSeverityOf(M)]
      <4> HIDE DEF M, D
      <4> QED
        BY <1>2, <3>3, WorstSeverity
    <3>5. SeverityRank[MaxSeverityOf(M)] \in Nat /\ SeverityRank[MaxSeverityOf(M)] <= top
      BY <1>6
    <3>6. SeverityRank[r.maxSeverity] = top
      <4> HIDE DEF M, D, r
      <4> QED
        BY <1>5, <3>1, <3>2, <3>4, <3>5 DEF top
    <3>7. SeverityRank[r.maxSeverity] \in Ranks
      <4> HIDE DEF r, F
      <4> QED
        BY <3>2
    <3> QED
      BY <3>6, <3>7
  <2> QED
    BY <2>1, <2>2
<1> HIDE DEF Ranks, top
<1>9. \A n \in Ranks : (\A k \in Ranks : n >= k) => n = top
  BY <1>5, <1>7, <1>8
<1>10. \A k \in Ranks : top >= k
  BY <1>5, <1>7
<1>11. Max(Ranks) = top
  BY <1>8, <1>9, <1>10 DEF Max
<1> QED
  BY <1>11 DEF Ranks, top
LEMMA StoryAgrees ==
  ASSUME AnalysisInv, RiskThreshold >= 69
  PROVE  DecisionMatchesReport
<1> DEFINE cs == changesets
           resp == AnalyzeOverlaps(cs)
           d == Decision(cs)
           shown == Results(resp)
<1>0. WellTyped(cs)
  BY DEF AnalysisInv
<1>1. d = Evaluate(resp)
  BY <1>0, SkippedAnalysisAllows
<1>2. resp.overlaps = DetectOverlaps(cs)
  BY ReportIs
<1>3. ASSUME NEW path \in d.blockingFiles
      PROVE  /\ \E r \in resp.fileRisks :
                  r.path = path /\ r.pairwiseCount >= 1 /\ Cardinality(r.contributors) >= 2
             /\ \/ \E o \in shown.overlaps : o.path = path /\ o.badge = "red"
                \/ \E f \in shown.files : f.path = path /\ f.bar = "red"
  <2>1. path \in Evaluate(AnalyzeOverlaps(cs)).blockingFiles
    BY <1>1, <1>3
  <2>2. /\ \E x \in DetectOverlaps(cs) : x.path = path
        /\ \/ \E x \in DetectOverlaps(cs) : x.path = path /\ x.severity = "critical"
           \/ \E r \in AnalyzeOverlaps(cs).fileRisks :
                r.path = path /\ r.riskScore \in Nat /\ r.riskScore > RiskThreshold
    <3> HIDE DEF d
    <3> QED
      BY <1>0, <2>1, BlockingFilesOverlap
  <2>3. \E r \in resp.fileRisks :
          r.path = path /\ r.pairwiseCount >= 1 /\ Cardinality(r.contributors) >= 2
    BY <1>0, <2>2, OverlapIsReported
  <2>4. CASE \E x \in DetectOverlaps(cs) : x.path = path /\ x.severity = "critical"
    <3>1. PICK x \in DetectOverlaps(cs) : x.path = path /\ x.severity = "critical"
      BY <2>4
    <3> DEFINE o == [path |-> x.path, between |-> x.between, badge |-> BadgeOf[x.severity]]
    <3>2. o.path = path /\ o.badge = "red"
      BY <3>1 DEF BadgeOf
    <3>3. o \in shown.overlaps
      BY <1>2 DEF Results
    <3> QED
      BY <2>3, <3>2, <3>3
  <2>5. CASE \E r \in resp.fileRisks :
               r.path = path /\ r.riskScore \in Nat /\ r.riskScore > RiskThreshold
    <3>1. PICK r \in resp.fileRisks :
            r.path = path /\ r.riskScore \in Nat /\ r.riskScore > RiskThreshold
      BY <2>5
    <3> DEFINE f == [path |-> r.path, hotspot |-> r.isHotspot, bar |-> BarOf(r.riskScore)]
    <3>2. BarOf(r.riskScore) = "red"
      <4>1. r.riskScore >= 70
        BY <3>1, PolicyAssumption
      <4> QED
        BY <4>1 DEF BarOf
    <3>3. f.path = path /\ f.bar = "red"
      BY <3>1, <3>2
    <3>4. f \in shown.files
      BY DEF Results
    <3> QED
      BY <2>3, <3>3, <3>4
  <2> QED
    BY <2>2, <2>4, <2>5
<1>4. SeverityRank[d.maxSeverity] =
        Max({0} \cup {SeverityRank[r.maxSeverity] : r \in resp.fileRisks})
  <2>1. d.maxSeverity = MaxSeverityOf(DetectOverlaps(cs))
    BY <1>1, <1>2 DEF Evaluate
  <2> QED
    BY <1>0, <2>1, SeverityOfDecision
<1>5. ASSUME MaxRisk = BaseStability, NEW r \in resp.fileRisks
      PROVE  r.riskScore + r.stabilityScore = MaxRisk
  <2> DEFINE raw == RawRisk(Mine(DetectOverlaps(cs), r.path))
  <2>1. r = RiskOf(cs, r.path)
    BY <1>0, RiskComesFromOverlaps
  <2>2. RiskOf(cs, r.path).riskScore = Clamp(raw)
        /\ RiskOf(cs, r.path).stabilityScore = Floor(BaseStability - raw)
    BY DEF RiskOf, ScoreFile
  <2>3. raw \in Nat
    <3>1. Mine(DetectOverlaps(cs), r.path) \in SUBSET DetectOverlaps(cs)
      BY DEF Mine
    <3> QED
      BY <1>0, <3>1, OverlapsFinite, FewerElements, RiskType
  <2>4. r.riskScore = Clamp(raw) /\ r.stabilityScore = Floor(BaseStability - raw)
    BY <2>1, <2>2
  <2> HIDE DEF raw, resp
  <2> QED
    BY <1>5, <2>3, <2>4, WeightAssumption DEF Clamp, Floor
<1> HIDE DEF resp, d, shown
<1>6. DecisionMatchesReport <=>
        /\ d = Evaluate(resp)
        /\ \A path \in d.blockingFiles :
             /\ \E r \in resp.fileRisks :
                  r.path = path /\ r.pairwiseCount >= 1 /\ Cardinality(r.contributors) >= 2
             /\ \/ \E o \in shown.overlaps : o.path = path /\ o.badge = "red"
                \/ \E f \in shown.files : f.path = path /\ f.bar = "red"
        /\ SeverityRank[d.maxSeverity] =
             Max({0} \cup {SeverityRank[r.maxSeverity] : r \in resp.fileRisks})
        /\ MaxRisk = BaseStability =>
             \A r \in resp.fileRisks : r.riskScore + r.stabilityScore = MaxRisk
  BY Zenon DEF DecisionMatchesReport, resp, d, shown
<1> QED
  BY <1>1, <1>3, <1>4, <1>5, <1>6

\* For any weights: the decision, the risk report and the tab tell one story, when the
\* policy blocks no file whose bar the tab does not draw in red (the bar is red from 70
\* on and the default threshold is 70).
THEOREM DecisionTellsTheStory ==
  ASSUME RiskThreshold >= 69
  PROVE  AnalysisSpec => []DecisionMatchesReport
<1>1. AnalysisInit => AnalysisInv
  BY AnalysisStarts
<1>2. AnalysisInv /\ [AnalysisNext]_changesets => AnalysisInv'
  BY AnalysisContinues
<1>3. AnalysisInv => DecisionMatchesReport
  BY StoryAgrees
<1> QED
  BY <1>1, <1>2, <1>3, PTL DEF AnalysisSpec
-----------------------------------------------------------------------------
(***************************************************************************)
(* The micro-commit gate.                                                  *)
(***************************************************************************)

\* The values every step is made of have the right types.
LEMMA Constructors ==
  /\ Nothing \in Snapshots
  /\ \A pc \in Answered \cup {"idle"} : Inactive(pc) \in RequestType
  /\ TypeOK => \A a \in Agents : Begun(a) \in RequestType
<1> USE GateAssumption DEF Snapshots, Optional
<1>1. Nothing \in Snapshots
  BY DEF Nothing
<1>2. \A pc \in Answered \cup {"idle"} : Inactive(pc) \in RequestType
  BY <1>1 DEF Inactive, RequestType
<1>3. TypeOK => \A a \in Agents : Begun(a) \in RequestType
  BY <1>1 DEF TypeOK, Begun, RequestType, Running
<1> QED
  BY <1>1, <1>2, <1>3

\* The initial state has the right types and satisfies the invariant.
LEMMA InitGateInv == Init => GateInv
<1> SUFFICES ASSUME Init PROVE GateInv
  OBVIOUS
<1> USE GateAssumption
<1>1. TypeOK
  BY Constructors DEF Init, TypeOK, Fates
<1>2. PendingInv
  BY DEF Init, PendingInv, Nothing
<1>3. RequestInv
  BY DEF Init, RequestInv, Inactive, Running
<1>4. CommitInv /\ CommittedOnce /\ NothingDisciplinedLost
  BY DEF Init, CommitInv, CommittedOnce, NothingDisciplinedLost, StoredUntilCommitted
<1> QED
  BY <1>1, <1>2, <1>3, <1>4 DEF GateInv

\* Retiring the entries of S keeps the type of fate.
LEMMA RetireType ==
  ASSUME NEW S, NEW how \in Fates, TypeOK, Retire(S, how)
  PROVE  fate' \in [Proposals -> Fates]
BY DEF Retire, TypeOK

\* The VFS calls of the other clients keep the types.
LEMMA ClientType ==
  ASSUME TypeOK,
         \/ \E a \in Agents : ProposeFiles(a) \/ ClearAgent(a)
         \/ ClearDemo
  PROVE  TypeOK'
<1> USE GateAssumption DEF Optional, Snapshots
<1>1. ASSUME NEW a \in Agents, ProposeFiles(a) PROVE TypeOK'
  BY <1>1 DEF ProposeFiles, TypeOK, Fates
<1>2. ASSUME NEW a \in Agents, ClearAgent(a) PROVE TypeOK'
  <2>1. fate' \in [Proposals -> Fates]
    BY <1>2, RetireType DEF ClearAgent, Fates
  <2> QED
    BY <1>2, <2>1 DEF ClearAgent, TypeOK
<1>3. ASSUME ClearDemo PROVE TypeOK'
  <2>1. fate' \in [Proposals -> Fates]
    BY <1>3, RetireType DEF ClearDemo, Fates
  <2> QED
    BY <1>3, <2>1, Constructors DEF ClearDemo, TypeOK
<1> QED
  BY <1>1, <1>2, <1>3

\* The steps of a request keep the types; a commit needs RequestInv to know that
\* there is something to commit.
LEMMA RequestStepType ==
  ASSUME TypeOK, RequestInv, NEW r \in Requests,
         \/ \E a \in Agents : RequestMicroCommit(r, a)
         \/ ReadChangeSets(r)
         \/ EvaluatePolicy(r)
         \/ AnalysisFails(r)
         \/ Commit(r)
         \/ ClearCommitted(r)
  PROVE  TypeOK'
<1>0. requests \in [Requests -> RequestType] /\ requests[r] \in RequestType
  BY DEF TypeOK
<1>1. ASSUME NEW a \in Agents, RequestMicroCommit(r, a) PROVE TypeOK'
  <2>1. requests' = [requests EXCEPT ![r] = Inactive("failed")]
          \/ requests' = [requests EXCEPT ![r] = Begun(a)]
    BY <1>1 DEF RequestMicroCommit, Answer
  <2>2. Inactive("failed") \in RequestType /\ Begun(a) \in RequestType
    BY Constructors DEF Answered
  <2> QED
    BY <1>0, <1>1, <2>1, <2>2 DEF RequestMicroCommit, TypeOK
<1>2. CASE ReadChangeSets(r)
  BY <1>0, <1>2 DEF ReadChangeSets, TypeOK, RequestType, Running
<1>3. CASE EvaluatePolicy(r)
  <2>1. requests' = [requests EXCEPT ![r].pc = "allowed"]
          \/ requests' = [requests EXCEPT ![r] = Inactive("blocked")]
    BY <1>3 DEF EvaluatePolicy, Goto, Answer
  <2>2. requests' \in [Requests -> RequestType]
    BY <1>0, <2>1, Constructors DEF Answered, RequestType, Running
  <2> QED
    BY <1>3, <2>2 DEF EvaluatePolicy, TypeOK
<1>4. CASE AnalysisFails(r)
  BY <1>0, <1>4, Constructors DEF AnalysisFails, Answer, Answered, TypeOK
<1>5. CASE Commit(r)
  <2>1. requests' \in [Requests -> RequestType]
    BY <1>0, <1>5 DEF Commit, Goto, RequestType, Running
  <2>2. commits' \subseteq CommitType
    BY <1>0, <1>5 DEF Commit, TypeOK, RequestInv, HoldsProposal, CommitType, RequestType, Running
  <2> QED
    BY <1>5, <2>1, <2>2 DEF Commit, TypeOK
<1>6. CASE ClearCommitted(r)
  <2>1. fate' \in [Proposals -> Fates]
    BY <1>6, RetireType DEF ClearCommitted, Fates
  <2>2. requests' \in [Requests -> RequestType]
    BY <1>0, <1>6, Constructors DEF ClearCommitted, Answer, Answered
  <2>3. pending' \in Snapshots
    BY <1>6, GateAssumption DEF ClearCommitted, TypeOK, Snapshots, Optional
  <2> QED
    BY <1>6, <2>1, <2>2, <2>3 DEF ClearCommitted, TypeOK
<1> QED
  BY <1>1, <1>2, <1>3, <1>4, <1>5, <1>6
-----------------------------------------------------------------------------
(***************************************************************************)
(* The invariant under the other clients of the VFS.                       *)
(***************************************************************************)

\* A call that changes only entries whose agents allow it, and clears nothing on
\* behalf of a commit, keeps every claim about requests and commits.
LEMMA ClientStep ==
  ASSUME GateInv, TypeOK', PendingInv',
         NEW S \in SUBSET Agents, \A a \in S : MayCall(a),
         \A a \in Agents \ S : pending'[a] = pending[a],
         \A p \in Proposals : fate'[p] = "cleared" <=> fate[p] = "cleared",
         requests' = requests, commits' = commits
  PROVE  GateInv'
<1> USE DEF GateInv
<1>1. RequestInv'
  <2> SUFFICES ASSUME NEW r \in Requests, requests[r].pc \in Running
               PROVE  HoldsProposal(r)'
    BY DEF RequestInv
  <2>1. requests[r].agent \in Disciplined => requests[r].agent \notin S
    BY DEF MayCall, InFlight
  <2>2. HoldsProposal(r)
    BY DEF RequestInv
  <2> QED
    BY <2>1, <2>2 DEF HoldsProposal, OnlyRequestOf, Committed
<1>2. CommitInv'
  <2> SUFFICES ASSUME NEW c \in commits
               PROVE  /\ Author[c.proposal] = c.agent
                      /\ c.agent \in Disciplined =>
                           /\ c.basis[c.agent] = c.proposal
                           /\ \/ fate'[c.proposal] = "cleared"
                              \/ \E r \in Requests : /\ requests[r].pc = "committed"
                                                     /\ requests[r].files = c.proposal
    BY DEF CommitInv
  <2>1. c.proposal \in Proposals
    BY DEF TypeOK, CommitType
  <2> QED
    BY <2>1 DEF CommitInv
<1>3. CommittedOnce'
  BY DEF CommittedOnce
<1>4. NothingDisciplinedLost'
  BY DEF NothingDisciplinedLost, StoredUntilCommitted, Committed
<1> QED
  BY <1>1, <1>2, <1>3, <1>4

\* Deleting the entries of S: no proposal of S stays pending.
LEMMA RetirePending ==
  ASSUME TypeOK, PendingInv, NEW S \in SUBSET Agents, NEW how \in Fates \ {"pending"},
         pending' \in Snapshots,
         \A a \in S : pending'[a] = None,
         \A a \in Agents \ S : pending'[a] = pending[a],
         Retire(S, how)
  PROVE  PendingInv'
<1> USE GateAssumption
<1>1. ASSUME NEW p \in Proposals PROVE fate'[p] = "pending" <=> pending'[Author[p]] = p
  <2>1. Author[p] \in Agents /\ p # None
    OBVIOUS
  <2>2. fate'[p] = IF Author[p] \in S /\ fate[p] = "pending" THEN how ELSE fate[p]
    BY DEF Retire
  <2>3. CASE Author[p] \in S
    BY <2>1, <2>2, <2>3
  <2>4. CASE Author[p] \notin S
    BY <2>1, <2>2, <2>4 DEF PendingInv
  <2> QED
    BY <2>3, <2>4
<1>2. ASSUME NEW a \in Agents, pending'[a] # None PROVE Author[pending'[a]] = a
  BY <1>2 DEF PendingInv
<1> QED
  BY <1>1, <1>2 DEF PendingInv

\* propose_files and register_push keep the invariant.
LEMMA ProposeInv ==
  ASSUME GateInv, NEW a \in Agents, ProposeFiles(a)
  PROVE  GateInv'
<1> USE GateAssumption
<1>1. TypeOK /\ PendingInv
  BY DEF GateInv
<1>2. PICK p \in Proposals :
        /\ Author[p] = a
        /\ fate[p] = "new"
        /\ pending' = [pending EXCEPT ![a] = p]
        /\ fate' = [q \in Proposals |->
                      IF q = p THEN "pending"
                      ELSE IF Author[q] = a /\ fate[q] = "pending" THEN "replaced"
                      ELSE fate[q]]
  BY DEF ProposeFiles
<1>3. pending'[a] = p /\ \A b \in Agents \ {a} : pending'[b] = pending[b]
  BY <1>1, <1>2 DEF TypeOK, Snapshots
<1>4. TypeOK'
  BY <1>1, ClientType
<1>5. PendingInv'
  <2>1. ASSUME NEW q \in Proposals PROVE fate'[q] = "pending" <=> pending'[Author[q]] = q
    <3>1. CASE Author[q] = a
      BY <1>2, <1>3, <3>1
    <3>2. CASE Author[q] # a
      BY <1>1, <1>2, <1>3, <3>2 DEF PendingInv
    <3> QED
      BY <3>1, <3>2
  <2>2. ASSUME NEW b \in Agents, pending'[b] # None PROVE Author[pending'[b]] = b
    BY <1>1, <1>2, <1>3, <2>2 DEF PendingInv
  <2> QED
    BY <2>1, <2>2 DEF PendingInv
<1>6. \A q \in Proposals : fate'[q] = "cleared" <=> fate[q] = "cleared"
  BY <1>2
<1>7. MayCall(a) /\ requests' = requests /\ commits' = commits
  BY DEF ProposeFiles
<1>8. {a} \in SUBSET Agents /\ \A b \in {a} : MayCall(b)
  BY <1>7
<1> QED
  BY <1>3, <1>4, <1>5, <1>6, <1>7, <1>8, ClientStep

\* clear_agent_state keeps the invariant.
LEMMA ClearAgentInv ==
  ASSUME GateInv, NEW a \in Agents, ClearAgent(a)
  PROVE  GateInv'
<1>1. TypeOK /\ PendingInv
  BY DEF GateInv
<1>2. TypeOK'
  BY <1>1, ClientType
<1>3. pending'[a] = None /\ \A b \in Agents \ {a} : pending'[b] = pending[b]
  BY <1>1 DEF ClearAgent, TypeOK, Snapshots
<1>4. PendingInv'
  <2>1. {a} \in SUBSET Agents /\ "discarded" \in Fates \ {"pending"}
    BY DEF Fates
  <2>2. pending' \in Snapshots /\ Retire({a}, "discarded")
    BY <1>2 DEF TypeOK, ClearAgent
  <2>3. \A b \in {a} : pending'[b] = None
    BY <1>3
  <2> QED
    BY <1>1, <1>3, <2>1, <2>2, <2>3, RetirePending
<1>5. \A p \in Proposals : fate'[p] = "cleared" <=> fate[p] = "cleared"
  BY <1>1 DEF ClearAgent, Retire
<1>6. MayCall(a) /\ requests' = requests /\ commits' = commits
  BY DEF ClearAgent
<1>7. {a} \in SUBSET Agents /\ \A b \in {a} : MayCall(b)
  BY <1>6
<1> QED
  BY <1>2, <1>3, <1>4, <1>5, <1>6, <1>7, ClientStep

\* clear_demo keeps the invariant.
LEMMA ClearDemoInv ==
  ASSUME GateInv, ClearDemo
  PROVE  GateInv'
<1>1. TypeOK /\ PendingInv
  BY DEF GateInv
<1>2. TypeOK'
  BY <1>1, ClientType
<1>3. \A b \in Agents : pending'[b] = None
  BY DEF ClearDemo, Nothing
<1>4. PendingInv'
  <2>1. Agents \in SUBSET Agents /\ "discarded" \in Fates \ {"pending"}
    BY DEF Fates
  <2>2. pending' \in Snapshots /\ Retire(Agents, "discarded")
    BY <1>2 DEF TypeOK, ClearDemo
  <2> QED
    BY <1>1, <1>3, <2>1, <2>2, RetirePending
<1>5. \A p \in Proposals : fate'[p] = "cleared" <=> fate[p] = "cleared"
  BY <1>1 DEF ClearDemo, Retire
<1>6. (\A a \in Agents : MayCall(a)) /\ requests' = requests /\ commits' = commits
  BY DEF ClearDemo
<1> QED
  BY <1>2, <1>3, <1>4, <1>5, <1>6, ClientStep
-----------------------------------------------------------------------------
(***************************************************************************)
(* The invariant under the steps of a request.                             *)
(***************************************************************************)

\* A step that only moves one request, which had not committed yet, keeps the
\* invariant if that request still holds its agent's proposal, or has answered.
LEMMA QuietStep ==
  ASSUME GateInv, TypeOK', NEW r \in Requests,
         UNCHANGED <<pending, commits, fate>>,
         requests[r].pc # "committed",
         \A s \in Requests \ {r} : requests'[s] = requests[s],
         requests'[r].pc \in Running => HoldsProposal(r)'
  PROVE  GateInv'
<1> USE DEF GateInv
<1>1. PendingInv' /\ CommittedOnce' /\ NothingDisciplinedLost'
  BY DEF PendingInv, CommittedOnce, NothingDisciplinedLost, StoredUntilCommitted, Committed
<1>2. RequestInv'
  <2> SUFFICES ASSUME NEW s \in Requests, requests'[s].pc \in Running, s # r
               PROVE  HoldsProposal(s)'
    BY DEF RequestInv
  <2>1. HoldsProposal(s) /\ requests'[s] = requests[s] /\ requests[s].pc \in Running
    BY DEF RequestInv
  <2>2. requests[s].agent \in Disciplined => OnlyRequestOf(s, requests[s].agent)'
    BY <2>1 DEF HoldsProposal, OnlyRequestOf
  <2> QED
    BY <2>1, <2>2 DEF HoldsProposal, Committed
<1>3. CommitInv'
  <2> SUFFICES ASSUME NEW c \in commits, c.agent \in Disciplined, fate[c.proposal] # "cleared"
               PROVE  \E s \in Requests : /\ requests'[s].pc = "committed"
                                          /\ requests'[s].files = c.proposal
    BY DEF CommitInv
  <2>1. PICK s \in Requests : requests[s].pc = "committed" /\ requests[s].files = c.proposal
    BY DEF CommitInv
  <2> QED
    BY <2>1
<1> QED
  BY <1>1, <1>2, <1>3

\* A step that moves request r changes no other request.
LEMMA OthersUnmoved ==
  ASSUME TypeOK, NEW r \in Requests, NEW v, requests' = [requests EXCEPT ![r] = v]
  PROVE  requests'[r] = v /\ \A s \in Requests \ {r} : requests'[s] = requests[s]
BY DEF TypeOK

\* Reading the agent's files: the discipline makes this its only request, and what
\* is pending in between two requests has not been committed.
LEMMA RequestMicroCommitInv ==
  ASSUME GateInv, NEW r \in Requests, NEW a \in Agents, RequestMicroCommit(r, a)
  PROVE  GateInv'
<1> USE GateAssumption
<1>1. TypeOK /\ PendingInv /\ RequestInv /\ CommitInv
  BY DEF GateInv
<1>2. TypeOK'
  BY <1>1, RequestStepType
<1>3. requests[r].pc = "idle" /\ MayCall(a) /\ UNCHANGED <<pending, commits, fate>>
  BY DEF RequestMicroCommit
<1>4. CASE pending[a] = None
  <2>1. requests' = [requests EXCEPT ![r] = Inactive("failed")]
    BY <1>4 DEF RequestMicroCommit, Answer
  <2>2. requests'[r] = Inactive("failed") /\ \A s \in Requests \ {r} : requests'[s] = requests[s]
    BY <1>1, <2>1, OthersUnmoved
  <2>3. requests'[r].pc \notin Running
    BY <2>2 DEF Inactive, Running
  <2> QED
    BY <1>2, <1>3, <2>2, <2>3, QuietStep
<1>5. CASE pending[a] # None
  <2>1. requests' = [requests EXCEPT ![r] = Begun(a)]
    BY <1>5 DEF RequestMicroCommit
  <2>2. requests'[r] = Begun(a) /\ \A s \in Requests \ {r} : requests'[s] = requests[s]
    BY <1>1, <2>1, OthersUnmoved
  <2>3. pending[a] \in Proposals /\ Author[pending[a]] = a /\ fate[pending[a]] = "pending"
    BY <1>1, <1>5 DEF TypeOK, Snapshots, Optional, PendingInv
  <2>4. a \in Disciplined => OnlyRequestOf(r, a)'
    BY <1>3, <2>2 DEF MayCall, InFlight, OnlyRequestOf
  <2>5. a \in Disciplined => ~Committed(pending[a])
    <3> SUFFICES ASSUME a \in Disciplined, NEW c \in commits, c.proposal = pending[a]
                 PROVE  FALSE
      BY DEF Committed
    <3>1. PICK s \in Requests : requests[s].pc = "committed" /\ requests[s].files = pending[a]
      BY <1>1, <2>3 DEF CommitInv
    <3>2. HoldsProposal(s)
      BY <1>1, <3>1 DEF RequestInv, Running
    <3>3. requests[s].agent = a
      BY <2>3, <3>1, <3>2 DEF HoldsProposal
    <3> QED
      BY <1>3, <3>1, <3>3 DEF MayCall, InFlight, Running
  <2>6. HoldsProposal(r)'
    BY <1>3, <2>2, <2>3, <2>4, <2>5 DEF HoldsProposal, Begun, Committed
  <2> QED
    BY <1>2, <1>3, <2>2, <2>6, QuietStep
<1> QED
  BY <1>4, <1>5

\* Reading all change sets: the agent's own entry is still what it read before.
LEMMA ReadChangeSetsInv ==
  ASSUME GateInv, NEW r \in Requests, ReadChangeSets(r)
  PROVE  GateInv'
<1>1. TypeOK /\ RequestInv
  BY DEF GateInv
<1>2. TypeOK'
  BY <1>1, RequestStepType
<1>3. requests[r].pc = "filesRead" /\ UNCHANGED <<pending, commits, fate>>
  BY DEF ReadChangeSets
<1>4. /\ \A s \in Requests \ {r} : requests'[s] = requests[s]
      /\ requests'[r].pc = "changesetsRead"
      /\ requests'[r].agent = requests[r].agent
      /\ requests'[r].files = requests[r].files
      /\ requests'[r].snapshot = pending
  BY <1>1 DEF ReadChangeSets, TypeOK, RequestType
<1>5. HoldsProposal(r)
  BY <1>1, <1>3 DEF RequestInv, Running
<1>6. HoldsProposal(r)'
  BY <1>3, <1>4, <1>5 DEF HoldsProposal, OnlyRequestOf, Committed, Running
<1> QED
  BY <1>2, <1>3, <1>4, <1>6, QuietStep

\* The verdict: the request goes on as it is, or is answered.
LEMMA EvaluatePolicyInv ==
  ASSUME GateInv, NEW r \in Requests, EvaluatePolicy(r) \/ AnalysisFails(r)
  PROVE  GateInv'
<1>1. TypeOK /\ RequestInv
  BY DEF GateInv
<1>2. TypeOK'
  BY <1>1, RequestStepType
<1>3. requests[r].pc = "changesetsRead" /\ UNCHANGED <<pending, commits, fate>>
  BY DEF EvaluatePolicy, AnalysisFails
<1>4. CASE Goto(r, "allowed")
  <2>1. /\ \A s \in Requests \ {r} : requests'[s] = requests[s]
        /\ requests'[r].pc = "allowed"
        /\ requests'[r].agent = requests[r].agent
        /\ requests'[r].files = requests[r].files
        /\ requests'[r].snapshot = requests[r].snapshot
    BY <1>1, <1>4 DEF Goto, TypeOK, RequestType
  <2>2. HoldsProposal(r)
    BY <1>1, <1>3 DEF RequestInv, Running
  <2>3. HoldsProposal(r)'
    BY <1>3, <2>1, <2>2 DEF HoldsProposal, OnlyRequestOf, Committed, Running
  <2> QED
    BY <1>2, <1>3, <2>1, <2>3, QuietStep
<1>5. ASSUME NEW with \in Answered, Answer(r, with) PROVE GateInv'
  <2>1. requests'[r] = Inactive(with) /\ \A s \in Requests \ {r} : requests'[s] = requests[s]
    BY <1>1, <1>5, OthersUnmoved DEF Answer
  <2>2. requests'[r].pc \notin Running
    BY <2>1 DEF Inactive, Running, Answered
  <2> QED
    BY <1>2, <1>3, <2>1, <2>2, QuietStep
<1> QED
  BY <1>4, <1>5 DEF EvaluatePolicy, AnalysisFails, Answered

\* The commit: nobody has committed this proposal before.
LEMMA CommitStepInv ==
  ASSUME GateInv, NEW r \in Requests, Commit(r)
  PROVE  GateInv'
<1> DEFINE a == requests[r].agent
           p == requests[r].files
           n == [request |-> r, agent |-> a, proposal |-> p, basis |-> requests[r].snapshot]
<1>1. TypeOK /\ PendingInv /\ RequestInv /\ CommitInv
  BY DEF GateInv
<1>2. TypeOK'
  BY <1>1, RequestStepType
<1>3. /\ requests[r].pc = "allowed" /\ pending' = pending /\ fate' = fate
      /\ commits' = commits \cup {n}
  BY DEF Commit
<1>4. /\ \A s \in Requests \ {r} : requests'[s] = requests[s]
      /\ requests'[r].pc = "committed"
      /\ requests'[r].agent = a /\ requests'[r].files = p
      /\ requests'[r].snapshot = requests[r].snapshot
  BY <1>1 DEF Commit, Goto, TypeOK, RequestType
<1>5. HoldsProposal(r)
  BY <1>1, <1>3 DEF RequestInv, Running
<1>6. PendingInv'
  BY <1>1, <1>3 DEF PendingInv
<1>7. \A q \in Proposals : Committed(q)' <=> Committed(q) \/ q = p
  <2>1. n.proposal = p
    OBVIOUS
  <2> HIDE DEF n
  <2>2. \A q : (\E c \in commits \cup {n} : c.proposal = q) <=> (\E c \in commits : c.proposal = q) \/ q = p
    BY <2>1
  <2> QED
    BY <1>3, <2>2 DEF Committed
<1>8. RequestInv'
  <2> SUFFICES ASSUME NEW s \in Requests, requests'[s].pc \in Running
               PROVE  HoldsProposal(s)'
    BY DEF RequestInv
  <2>1. CASE s = r
    BY <1>3, <1>4, <1>5, <1>7, <2>1 DEF HoldsProposal, OnlyRequestOf, Running
  <2>2. CASE s # r
    <3>1. HoldsProposal(s) /\ requests'[s] = requests[s]
      BY <1>1, <1>4, <2>2 DEF RequestInv
    <3>2. requests[s].agent \in Disciplined => requests[s].agent # a
      BY <1>3, <1>4, <1>5, <2>2, <3>1 DEF HoldsProposal, OnlyRequestOf, Running
    <3>3. requests[s].agent \in Disciplined => requests[s].files # p
      BY <1>5, <3>1, <3>2 DEF HoldsProposal
    <3> QED
      BY <1>3, <1>4, <1>7, <3>1, <3>2, <3>3 DEF HoldsProposal, OnlyRequestOf
  <2> QED
    BY <2>1, <2>2
<1>9. CommitInv'
  <2> SUFFICES ASSUME NEW c \in commits'
               PROVE  /\ Author[c.proposal] = c.agent
                      /\ c.agent \in Disciplined =>
                           /\ c.basis[c.agent] = c.proposal
                           /\ \/ fate'[c.proposal] = "cleared"
                              \/ \E s \in Requests : /\ requests'[s].pc = "committed"
                                                     /\ requests'[s].files = c.proposal
    BY DEF CommitInv
  <2>1. CASE c = n
    BY <1>3, <1>4, <1>5, <2>1 DEF HoldsProposal
  <2>2. CASE c \in commits
    <3> SUFFICES ASSUME c.agent \in Disciplined, fate[c.proposal] # "cleared"
                 PROVE  \E s \in Requests : /\ requests'[s].pc = "committed"
                                            /\ requests'[s].files = c.proposal
      BY <1>1, <1>3, <2>2 DEF CommitInv
    <3>1. PICK s \in Requests : requests[s].pc = "committed" /\ requests[s].files = c.proposal
      BY <1>1, <2>2 DEF CommitInv
    <3> QED
      BY <1>3, <1>4, <3>1
  <2> QED
    BY <1>3, <2>1, <2>2
<1>10. CommittedOnce'
  <2>1. a \in Disciplined => ~Committed(p)
    BY <1>3, <1>5 DEF HoldsProposal
  <2>2. Author[p] = a /\ \A c \in commits : Author[c.proposal] = c.agent
    BY <1>1, <1>5 DEF HoldsProposal, CommitInv
  <2>3. \A c \in commits : c.agent \in Disciplined => c.proposal # p
    BY <2>1, <2>2 DEF Committed
  <2>4. a \in Disciplined => \A c \in commits : c.proposal # p
    BY <2>1 DEF Committed
  <2>5. n.proposal = p /\ n.agent = a
    OBVIOUS
  <2> QED
    BY <1>3, <2>3, <2>4, <2>5 DEF CommittedOnce, GateInv
<1>11. NothingDisciplinedLost'
  BY <1>3, <1>7 DEF GateInv, NothingDisciplinedLost, StoredUntilCommitted
<1> QED
  BY <1>2, <1>6, <1>8, <1>9, <1>10, <1>11 DEF GateInv

\* The Clear: what it removes is what was committed.
LEMMA ClearCommittedInv ==
  ASSUME GateInv, NEW r \in Requests, ClearCommitted(r)
  PROVE  GateInv'
<1> USE GateAssumption
<1> DEFINE a == requests[r].agent
           p == requests[r].files
<1>1. TypeOK /\ PendingInv /\ RequestInv /\ CommitInv
  BY DEF GateInv
<1>2. TypeOK'
  BY <1>1, RequestStepType
<1>3. /\ requests[r].pc = "committed" /\ commits' = commits
      /\ pending' = [pending EXCEPT ![a] = None]
      /\ Retire({a}, "cleared")
  BY DEF ClearCommitted
<1>4. requests'[r] = Inactive("done") /\ \A s \in Requests \ {r} : requests'[s] = requests[s]
  BY <1>1, OthersUnmoved DEF ClearCommitted, Answer
<1>5. HoldsProposal(r)
  BY <1>1, <1>3 DEF RequestInv, Running
<1>6. a \in Agents /\ p \in Proposals /\ Author[p] = a
  BY <1>5 DEF HoldsProposal
<1>7. pending'[a] = None /\ \A b \in Agents \ {a} : pending'[b] = pending[b]
  BY <1>1, <1>3, <1>6 DEF TypeOK, Snapshots
<1>8. PendingInv'
  <2>1. {a} \in SUBSET Agents /\ "cleared" \in Fates \ {"pending"}
    BY <1>6 DEF Fates
  <2>2. pending' \in Snapshots
    BY <1>2 DEF TypeOK
  <2>3. \A b \in {a} : pending'[b] = None
    BY <1>7
  <2> QED
    BY <1>1, <1>3, <1>7, <2>1, <2>2, <2>3, RetirePending
<1>9. \A q \in Proposals :
        fate'[q] = IF Author[q] = a /\ fate[q] = "pending" THEN "cleared" ELSE fate[q]
  BY <1>3 DEF Retire
<1>10. requests'[r].pc \notin Running /\ requests'[r].pc # "committed"
  BY <1>4 DEF Inactive, Running
<1>11. RequestInv'
  <2> SUFFICES ASSUME NEW s \in Requests, requests'[s].pc \in Running
               PROVE  HoldsProposal(s)'
    BY DEF RequestInv
  <2>1. s # r /\ requests'[s] = requests[s] /\ HoldsProposal(s)
    BY <1>1, <1>4, <1>10 DEF RequestInv
  <2>2. requests[s].agent \in Disciplined => requests[s].agent # a
    BY <1>3, <2>1 DEF HoldsProposal, OnlyRequestOf, Running
  <2>3. requests[s].agent \in Disciplined => OnlyRequestOf(s, requests[s].agent)'
    BY <1>4, <1>10, <2>1 DEF HoldsProposal, OnlyRequestOf
  <2> QED
    BY <1>3, <1>7, <2>1, <2>2, <2>3 DEF HoldsProposal, Committed
<1>12. CommitInv'
  <2> SUFFICES ASSUME NEW c \in commits, c.agent \in Disciplined
               PROVE  \/ fate'[c.proposal] = "cleared"
                      \/ \E s \in Requests : /\ requests'[s].pc = "committed"
                                             /\ requests'[s].files = c.proposal
    BY <1>1, <1>3 DEF CommitInv
  <2>1. c.proposal \in Proposals
    BY <1>1 DEF TypeOK, CommitType
  <2>2. CASE fate[c.proposal] = "cleared"
    BY <1>9, <2>1, <2>2
  <2>3. ASSUME NEW s \in Requests, requests[s].pc = "committed", requests[s].files = c.proposal,
               s # r
        PROVE  \E t \in Requests : requests'[t].pc = "committed" /\ requests'[t].files = c.proposal
    BY <1>4, <2>3
  <2>4. CASE p = c.proposal
    <3>1. a = c.agent
      BY <1>1, <1>6, <2>4 DEF CommitInv
    <3>2. fate[p] = "pending"
      BY <1>1, <1>5, <1>6, <3>1 DEF HoldsProposal, PendingInv
    <3> QED
      BY <1>6, <1>9, <2>4, <3>2
  <2> QED
    BY <1>1, <2>2, <2>3, <2>4 DEF CommitInv
<1>13. CommittedOnce'
  BY <1>3 DEF GateInv, CommittedOnce
<1>14. NothingDisciplinedLost'
  <2> SUFFICES ASSUME NEW q \in Proposals, Author[q] \in Disciplined, fate'[q] = "cleared"
               PROVE  Committed(q)
    BY <1>3 DEF NothingDisciplinedLost, StoredUntilCommitted, Committed
  <2>1. CASE fate[q] = "cleared"
    BY <2>1 DEF GateInv, NothingDisciplinedLost, StoredUntilCommitted
  <2>2. CASE Author[q] = a /\ fate[q] = "pending"
    <3>1. q = p
      BY <1>1, <1>5, <2>2 DEF HoldsProposal, PendingInv
    <3> QED
      BY <1>3, <1>5, <2>2, <3>1 DEF HoldsProposal
  <2> QED
    BY <1>9, <2>1, <2>2
<1> QED
  BY <1>2, <1>8, <1>11, <1>12, <1>13, <1>14 DEF GateInv
-----------------------------------------------------------------------------
(***************************************************************************)
(* Theorems.                                                               *)
(***************************************************************************)

\* Every step of the gate keeps the invariant.
LEMMA NextGateInv == GateInv /\ [Next]_vars => GateInv'
<1> SUFFICES ASSUME GateInv, [Next]_vars PROVE GateInv'
  OBVIOUS
<1>1. CASE UNCHANGED vars
  BY <1>1 DEF vars, GateInv, TypeOK, PendingInv, RequestInv, HoldsProposal, OnlyRequestOf,
              CommitInv, CommittedOnce, NothingDisciplinedLost, StoredUntilCommitted, Committed
<1>2. ASSUME NEW a \in Agents, ProposeFiles(a) PROVE GateInv'
  BY <1>2, ProposeInv
<1>3. ASSUME NEW a \in Agents, ClearAgent(a) PROVE GateInv'
  BY <1>3, ClearAgentInv
<1>4. CASE ClearDemo
  BY <1>4, ClearDemoInv
<1>5. ASSUME NEW r \in Requests, NEW a \in Agents, RequestMicroCommit(r, a) PROVE GateInv'
  BY <1>5, RequestMicroCommitInv
<1>6. ASSUME NEW r \in Requests, ReadChangeSets(r) PROVE GateInv'
  BY <1>6, ReadChangeSetsInv
<1>7. ASSUME NEW r \in Requests, EvaluatePolicy(r) \/ AnalysisFails(r) PROVE GateInv'
  BY <1>7, EvaluatePolicyInv
<1>8. ASSUME NEW r \in Requests, Commit(r) PROVE GateInv'
  BY <1>8, CommitStepInv
<1>9. ASSUME NEW r \in Requests, ClearCommitted(r) PROVE GateInv'
  BY <1>9, ClearCommittedInv
<1> QED
  BY <1>1, <1>2, <1>3, <1>4, <1>5, <1>6, <1>7, <1>8, <1>9 DEF Next

\* The invariant holds in every reachable state.
THEOREM GateInvariant == Spec => []GateInv
<1>1. Init => GateInv
  BY InitGateInv
<1>2. GateInv /\ [Next]_vars => GateInv'
  BY NextGateInv
<1> QED
  BY <1>1, <1>2, PTL DEF Spec

\* Type correctness; in particular, every commit is of a real proposal.
THEOREM TypeCorrect == Spec => []TypeOK
<1>1. GateInv => TypeOK
  BY DEF GateInv
<1> QED
  BY <1>1, GateInvariant, PTL

\* What vfs.go:3-4 promises, for agents whose clients wait for a running request:
\* a micro-commit clears nothing that was not committed.
THEOREM DisciplinedAgentsLoseNothing == Spec => []NothingDisciplinedLost
<1>1. GateInv => NothingDisciplinedLost
  BY DEF GateInv
<1> QED
  BY <1>1, GateInvariant, PTL

\* No proposal of such an agent is committed by two requests.
THEOREM CommitsAreUnique == Spec => []CommittedOnce
<1>1. GateInv => CommittedOnce
  BY DEF GateInv
<1> QED
  BY <1>1, GateInvariant, PTL

\* The two reads of a request, under two locks, agree on such an agent's files.
THEOREM CommitsAreAnalysed == Spec => []CommittedIsAnalysed
<1>1. GateInv => CommittedIsAnalysed
  BY DEF GateInv, CommitInv, CommittedIsAnalysed
<1> QED
  BY <1>1, GateInvariant, PTL
-----------------------------------------------------------------------------
(***************************************************************************)
(* Verdicts.  A snapshot is copied whole and a verdict is about the        *)
(* snapshot, so what is left of it at the commit is part of what passed;   *)
(* a part of what passes passes.                                           *)
(***************************************************************************)

\* The agents with an entry in a snapshot.
Holders(snapshot) == {a \in Agents : snapshot[a] # None}

\* Only finitely many agents ever have entries, and an allowed request holds a snapshot
\* that passes.
VerdictInv ==
  /\ IsFiniteSet(Holders(pending))
  /\ \A r \in Requests :
       /\ IsFiniteSet(Holders(requests[r].snapshot))
       /\ requests[r].pc = "allowed" => Passes(requests[r].snapshot)

LEMMA NothingHeld ==
  /\ IsFiniteSet(Holders(Nothing))
  /\ \A pc : /\ Inactive(pc).snapshot = Nothing /\ Inactive(pc).pc = pc
  /\ \A a : Begun(a).snapshot = Nothing /\ Begun(a).pc = "filesRead"
<1>1. Holders(Nothing) = {}
  BY DEF Holders, Nothing
<1> QED
  BY <1>1, FS_EmptySet DEF Inactive, Begun

LEMMA VerdictStarts == Init => VerdictInv
BY NothingHeld DEF Init, VerdictInv

\* A step that adds at most one agent's entry to the VFS keeps it finite.
LEMMA FewHolders ==
  ASSUME TypeOK, VerdictInv, NEW a \in Agents,
         \A b \in Agents \ {a} : pending'[b] # None => pending[b] # None
  PROVE  IsFiniteSet(Holders(pending'))
<1> DEFINE T == Holders(pending) \cup {a}
           S == Holders(pending')
<1>1. IsFiniteSet(T)
  BY FS_AddElement DEF VerdictInv
<1>2. S \in SUBSET T
  BY DEF Holders
<1> HIDE DEF S, T
<1>3. IsFiniteSet(S)
  BY <1>1, <1>2, FS_Subset
<1> QED
  BY <1>3 DEF S

\* A step of one request, that ends with a finite snapshot, and allowed only if it passes.
LEMMA OneVerdict ==
  ASSUME TypeOK, VerdictInv, NEW r \in Requests,
         IsFiniteSet(Holders(pending')),
         \A q \in Requests \ {r} : requests'[q] = requests[q],
         IsFiniteSet(Holders(requests'[r].snapshot)),
         requests'[r].pc = "allowed" => Passes(requests'[r].snapshot)
  PROVE  VerdictInv'
<1> SUFFICES ASSUME NEW q \in Requests
             PROVE  /\ IsFiniteSet(Holders(requests'[q].snapshot))
                    /\ requests'[q].pc = "allowed" => Passes(requests'[q].snapshot)
  BY DEF VerdictInv, Holders, Passes, ChangeSetsOf
<1>1. CASE q = r
  BY <1>1
<1>2. CASE q # r
  BY <1>2 DEF VerdictInv
<1> QED
  BY <1>1, <1>2

LEMMA NextVerdict == GateInv /\ VerdictInv /\ [Next]_vars => VerdictInv'
<1> SUFFICES ASSUME GateInv, VerdictInv, [Next]_vars PROVE VerdictInv'
  OBVIOUS
<1>0. TypeOK
  BY DEF GateInv
<1>q. requests \in [Requests -> RequestType] /\ pending \in Snapshots
  BY <1>0 DEF TypeOK
<1>1. CASE UNCHANGED vars
  BY <1>1 DEF vars, VerdictInv, Holders, Passes, ChangeSetsOf
<1>2. ASSUME requests' = requests, IsFiniteSet(Holders(pending')) PROVE VerdictInv'
  BY <1>2 DEF VerdictInv, Holders, Passes, ChangeSetsOf
<1>3. ASSUME pending' = pending PROVE IsFiniteSet(Holders(pending'))
  BY <1>3 DEF VerdictInv
<1>4. ASSUME NEW a \in Agents, ProposeFiles(a) \/ ClearAgent(a) PROVE VerdictInv'
  <2>1. \A b \in Agents \ {a} : pending'[b] # None => pending[b] # None
    BY <1>q, <1>4 DEF ProposeFiles, ClearAgent, Snapshots
  <2>2. requests' = requests
    BY <1>4 DEF ProposeFiles, ClearAgent
  <2> QED
    BY <1>0, <1>2, <2>1, <2>2, FewHolders
<1>5. CASE ClearDemo
  BY <1>2, <1>5, NothingHeld DEF ClearDemo
<1>6. ASSUME NEW r \in Requests, NEW a \in Agents, RequestMicroCommit(r, a) PROVE VerdictInv'
  <2>1. requests'[r] \in {Inactive("failed"), Begun(a)} /\ pending' = pending
        /\ \A q \in Requests \ {r} : requests'[q] = requests[q]
    BY <1>q, <1>6 DEF RequestMicroCommit, Answer
  <2>2. IsFiniteSet(Holders(requests'[r].snapshot)) /\ requests'[r].pc # "allowed"
    BY <2>1, NothingHeld
  <2> QED
    BY <1>0, <1>3, <2>1, <2>2, OneVerdict
<1>7. ASSUME NEW r \in Requests, ReadChangeSets(r) PROVE VerdictInv'
  <2>1. /\ requests'[r].snapshot = pending /\ requests'[r].pc = "changesetsRead"
        /\ pending' = pending
        /\ \A q \in Requests \ {r} : requests'[q] = requests[q]
    BY <1>q, <1>7 DEF ReadChangeSets, RequestType
  <2>2. IsFiniteSet(Holders(pending))
    BY DEF VerdictInv
  <2> QED
    BY <1>0, <1>3, <2>1, <2>2, OneVerdict
<1>8. ASSUME NEW r \in Requests, NEW with \in Answered, Answer(r, with),
             IsFiniteSet(Holders(pending'))
      PROVE  VerdictInv'
  <2>1. requests'[r] = Inactive(with) /\ \A q \in Requests \ {r} : requests'[q] = requests[q]
    BY <1>q, <1>8 DEF Answer
  <2>2. IsFiniteSet(Holders(requests'[r].snapshot)) /\ requests'[r].pc # "allowed"
    BY <2>1, NothingHeld DEF Answered
  <2> QED
    BY <1>0, <1>8, <2>1, <2>2, OneVerdict
<1>9. ASSUME NEW r \in Requests, EvaluatePolicy(r) PROVE VerdictInv'
  <2>1. CASE Passes(requests[r].snapshot)
    <3>1. /\ requests'[r].snapshot = requests[r].snapshot /\ pending' = pending
          /\ \A q \in Requests \ {r} : requests'[q] = requests[q]
      BY <1>q, <1>9, <2>1 DEF EvaluatePolicy, Goto, RequestType
    <3>2. IsFiniteSet(Holders(requests[r].snapshot))
      BY DEF VerdictInv
    <3> QED
      BY <1>0, <1>3, <2>1, <3>1, <3>2, OneVerdict
  <2>2. CASE ~Passes(requests[r].snapshot)
    BY <1>3, <1>8, <1>9, <2>2 DEF EvaluatePolicy, Answered
  <2> QED
    BY <2>1, <2>2
<1>10. ASSUME NEW r \in Requests, AnalysisFails(r) PROVE VerdictInv'
  BY <1>3, <1>8, <1>10 DEF AnalysisFails, Answered
<1>11. ASSUME NEW r \in Requests, Commit(r) PROVE VerdictInv'
  <2>1. /\ requests'[r].snapshot = requests[r].snapshot /\ pending' = pending
        /\ requests'[r].pc = "committed"
        /\ \A q \in Requests \ {r} : requests'[q] = requests[q]
    BY <1>q, <1>11 DEF Commit, Goto, RequestType
  <2>2. IsFiniteSet(Holders(requests[r].snapshot))
    BY DEF VerdictInv
  <2> QED
    BY <1>0, <1>3, <2>1, <2>2, OneVerdict
<1>12. ASSUME NEW r \in Requests, ClearCommitted(r) PROVE VerdictInv'
  <2>1. requests[r].agent \in Agents
    BY <1>12 DEF ClearCommitted, GateInv, RequestInv, HoldsProposal, Running
  <2>2. \A b \in Agents \ {requests[r].agent} : pending'[b] # None => pending[b] # None
    BY <1>q, <1>12 DEF ClearCommitted, Snapshots
  <2>3. IsFiniteSet(Holders(pending'))
    BY <1>0, <2>1, <2>2, FewHolders
  <2> QED
    BY <1>8, <1>12, <2>3 DEF ClearCommitted, Answered
<1> QED
  BY <1>1, <1>4, <1>5, <1>6, <1>7, <1>9, <1>10, <1>11, <1>12 DEF Next

\* What the policy lets through, it lets through in part.
LEMMA PartPasses ==
  ASSUME NEW basis \in Snapshots, IsFiniteSet(Holders(basis)), Passes(basis),
         NEW left \in Snapshots, \A a \in Agents : left[a] # None => left[a] = basis[a]
  PROVE  Passes(left)
<1> DEFINE cs == ChangeSetsOf(basis)
           less == ChangeSetsOf(left)
<1>1. DOMAIN cs = Holders(basis) /\ \A a \in DOMAIN cs : cs[a] = Content[basis[a]]
  BY DEF ChangeSetsOf, Holders
<1>2. DOMAIN less = Holders(left) /\ \A a \in DOMAIN less : less[a] = Content[left[a]]
  BY DEF ChangeSetsOf, Holders
<1>3. \A a \in Holders(basis) : basis[a] \in Proposals
  BY DEF Holders, Snapshots, Optional
<1> HIDE DEF cs, less
<1>4. WellTyped(cs)
  BY <1>1, <1>3, GateAssumption DEF WellTyped
<1>5. PartOf(less, cs)
  BY <1>1, <1>2 DEF PartOf, Holders
<1>6. Decision(cs).allowed
  BY DEF Passes, cs
<1>7. Decision(less).allowed
  BY <1>4, <1>5, <1>6, PartIsAllowed
<1> QED
  BY <1>7 DEF Passes, less

LEMMA CommitsStillPass ==
  ASSUME GateInv, VerdictInv, [Next]_vars
  PROVE  \A c \in commits' \ commits :
           Passes([a \in Agents |-> IF pending[a] = c.basis[a] THEN pending[a] ELSE None])
<1>0. pending \in Snapshots /\ requests \in [Requests -> RequestType]
  BY DEF GateInv, TypeOK
<1> SUFFICES ASSUME NEW c \in commits' \ commits
             PROVE  Passes([a \in Agents |-> IF pending[a] = c.basis[a] THEN pending[a] ELSE None])
  OBVIOUS
<1>1. PICK r \in Requests : Commit(r)
  BY DEF Next, vars, ProposeFiles, ClearAgent, ClearDemo, RequestMicroCommit, ReadChangeSets,
         EvaluatePolicy, AnalysisFails, ClearCommitted
<1> DEFINE basis == requests[r].snapshot
           left == [a \in Agents |-> IF pending[a] = basis[a] THEN pending[a] ELSE None]
<1>2. c.basis = basis /\ requests[r].pc = "allowed"
  BY <1>1 DEF Commit
<1>3. basis \in Snapshots /\ IsFiniteSet(Holders(basis)) /\ Passes(basis)
  BY <1>0, <1>2 DEF VerdictInv, RequestType
<1>4. left \in Snapshots /\ \A a \in Agents : left[a] # None => left[a] = basis[a]
  BY <1>0 DEF Snapshots, Optional
<1> HIDE DEF basis, left
<1>5. Passes(left)
  BY <1>3, <1>4, PartPasses
<1> QED
  BY <1>2, <1>5 DEF left

\* For any number of requests, agents and clients, disciplined or not: a blocked set of
\* proposals is never committed because an entry was cleared or an analysis failed; what
\* can outdate a verdict is only a proposal that arrives after the snapshot.
THEOREM VerdictsAgeByArrivals == Spec => OutdatedOnlyByArrivals
<1>1. Init => VerdictInv
  BY VerdictStarts
<1>2. GateInv /\ VerdictInv /\ [Next]_vars => VerdictInv'
  BY NextVerdict
<1>3. GateInv /\ VerdictInv /\ [Next]_vars =>
        \A c \in commits' \ commits :
          Passes([a \in Agents |-> IF pending[a] = c.basis[a] THEN pending[a] ELSE None])
  BY CommitsStillPass
<1>4. (\A c \in commits' \ commits :
         Passes([a \in Agents |-> IF pending[a] = c.basis[a] THEN pending[a] ELSE None]))
      => [\A c \in commits' \ commits :
            Passes([a \in Agents |-> IF pending[a] = c.basis[a] THEN pending[a] ELSE None])]_vars
  OBVIOUS
<1> QED
  BY <1>1, <1>2, <1>3, <1>4, GateInvariant, PTL DEF Spec, OutdatedOnlyByArrivals
-----------------------------------------------------------------------------
(***************************************************************************)
(* The gate implements ProposalLedger for the proposals of the disciplined *)
(* agents: five steps under four locks look like one atomic commit.  The   *)
(* mapping lets a proposal leave the ledger when it is committed, so the   *)
(* Clear that follows must not be visible.  That it is not, and that each  *)
(* submission, withdrawal and commit finds the proposal in the status the  *)
(* ledger demands, is what GateInv is needed for.                          *)
(***************************************************************************)

\* The entries of the ledger, case by case.
LEMMA Entries ==
  ASSUME NEW f, NEW done \in BOOLEAN
  PROVE  /\ done => Entry(f, done) = "committed"
         /\ ~done /\ f = "new" => Entry(f, done) = "new"
         /\ ~done /\ f = "pending" => Entry(f, done) = "open"
         /\ ~done /\ f \in {"replaced", "discarded"} => Entry(f, done) = "withdrawn"
         /\ ~done /\ f = "cleared" => Entry(f, done) = "lost"
BY DEF Entry

\* An entry is open exactly when it is pending and not committed.
LEMMA OpenEntries ==
  ASSUME TypeOK, NEW p \in Tracked
  PROVE  LedgerStatus[p] = "open" <=> fate[p] = "pending" /\ ~Committed(p)
<1>1. fate[p] \in Fates /\ LedgerStatus[p] = Entry(fate[p], Committed(p))
  BY DEF TypeOK, Tracked, LedgerStatus
<1>2. Committed(p) \in BOOLEAN
  BY DEF Committed
<1> QED
  BY <1>1, <1>2 DEF Entry, Fates

\* Retiring the entries of S turns the open ones of S into withdrawn ones, when it is
\* not done on behalf of a commit; a committed entry is never touched.
LEMMA RetireWithdraws ==
  ASSUME TypeOK, NEW S \in SUBSET Agents, NEW how \in {"replaced", "discarded"},
         NEW p \in Tracked, commits' = commits,
         fate'[p] = IF Author[p] \in S /\ fate[p] = "pending" THEN how ELSE fate[p]
  PROVE  LedgerStatus'[p] = IF p \in Ledger!OpenOf(S) THEN "withdrawn" ELSE LedgerStatus[p]
<1>1. p \in Ledger!OpenOf(S) <=> Author[p] \in S /\ fate[p] = "pending" /\ ~Committed(p)
  BY OpenEntries DEF Ledger!OpenOf
<1>2. /\ LedgerStatus[p] = Entry(fate[p], Committed(p))
      /\ LedgerStatus'[p] = Entry(fate'[p], Committed(p))
  BY DEF LedgerStatus, Tracked, Committed
<1>3. Committed(p) \in BOOLEAN
  BY DEF Committed
<1> QED
  BY <1>1, <1>2, <1>3, Entries

\* What is new is not committed, and what a disciplined agent committed is gone or
\* about to be cleared.
LEMMA NewIsUncommitted ==
  ASSUME GateInv, NEW p \in Tracked, fate[p] = "new"
  PROVE  ~Committed(p)
<1> SUFFICES ASSUME NEW c \in commits, c.proposal = p PROVE FALSE
  BY DEF Committed
<1>1. c.agent \in Disciplined /\ Author[p] = c.agent
  BY DEF GateInv, CommitInv, Tracked
<1>2. PICK r \in Requests : requests[r].pc = "committed" /\ requests[r].files = p
  BY <1>1 DEF GateInv, CommitInv
<1>3. HoldsProposal(r)
  BY <1>2 DEF GateInv, RequestInv, Running
<1>4. pending[Author[p]] = p
  BY <1>1, <1>2, <1>3 DEF HoldsProposal
<1> QED
  BY <1>4 DEF GateInv, PendingInv, Tracked

\* An entry depends on nothing but its proposal's fate and whether it is committed.
LEMMA Unmoved ==
  ASSUME NEW p \in Tracked, fate'[p] = fate[p], Committed(p)' <=> Committed(p)
  PROVE  LedgerStatus'[p] = LedgerStatus[p]
<1>1. /\ LedgerStatus[p] = Entry(fate[p], Committed(p))
      /\ LedgerStatus'[p] = Entry(fate'[p], Committed(p)')
  BY DEF LedgerStatus, Tracked
<1>2. Committed(p)' \in BOOLEAN /\ Committed(p) \in BOOLEAN
  BY DEF Committed
<1>3. Committed(p)' = Committed(p)
  BY <1>2
<1> QED
  BY <1>1, <1>3

\* A step that leaves the tracked entries alone is invisible.
LEMMA Invisible ==
  ASSUME \A p \in Tracked : LedgerStatus'[p] = LedgerStatus[p]
  PROVE  LedgerStatus' = LedgerStatus
BY DEF LedgerStatus, Tracked

LEMMA ProposeFilesRefines ==
  ASSUME GateInv, NEW a \in Agents, ProposeFiles(a)
  PROVE  [Ledger!Next]_LedgerStatus
<1> USE GateAssumption
<1>1. PICK p \in Proposals :
        /\ Author[p] = a /\ fate[p] = "new" /\ commits' = commits
        /\ fate' = [q \in Proposals |->
                      IF q = p THEN "pending"
                      ELSE IF Author[q] = a /\ fate[q] = "pending" THEN "replaced"
                      ELSE fate[q]]
  BY DEF ProposeFiles
<1>2. CASE a \notin Disciplined
  <2>1. \A q \in Tracked : fate'[q] = fate[q] /\ (Committed(q)' <=> Committed(q))
    BY <1>1, <1>2 DEF Tracked, Committed
  <2> QED
    BY <2>1, Unmoved, Invisible
<1>3. CASE a \in Disciplined
  <2>1. p \in Tracked
    BY <1>1, <1>3 DEF Tracked
  <2>2. ~Committed(p) /\ ~Committed(p)'
    BY <1>1, <2>1, NewIsUncommitted DEF Committed
  <2>3. LedgerStatus[p] = "new" /\ LedgerStatus'[p] = "open"
    <3>1. fate[p] = "new" /\ fate'[p] = "pending"
      BY <1>1
    <3>2. /\ LedgerStatus[p] = Entry(fate[p], Committed(p))
          /\ LedgerStatus'[p] = Entry(fate'[p], Committed(p)')
      BY <2>1 DEF LedgerStatus, Tracked
    <3> QED
      BY <2>2, <3>1, <3>2 DEF Entry
  <2>4. ASSUME NEW q \in Tracked, q # p
        PROVE  LedgerStatus'[q] =
                 IF q \in Ledger!OpenOf({Author[p]}) THEN "withdrawn" ELSE LedgerStatus[q]
    <3>1. fate'[q] = IF Author[q] \in {a} /\ fate[q] = "pending" THEN "replaced" ELSE fate[q]
      BY <1>1, <2>4 DEF Tracked
    <3>2. Author[p] = a /\ commits' = commits
      BY <1>1
    <3>3. TypeOK /\ {a} \in SUBSET Agents
      BY DEF GateInv
    <3>4. LedgerStatus'[q] =
            IF q \in Ledger!OpenOf({a}) THEN "withdrawn" ELSE LedgerStatus[q]
      BY ONLY <3>1, <3>2, <3>3, <2>4, RetireWithdraws
    <3> QED
      BY <3>2, <3>4
  <2>5. LedgerStatus' = [q \in Tracked |->
            IF q = p THEN "open"
            ELSE IF q \in Ledger!OpenOf({Author[p]}) THEN "withdrawn" ELSE LedgerStatus[q]]
    BY <2>3, <2>4 DEF LedgerStatus, Tracked
  <2>6. Ledger!Submit(p)
    BY <2>3, <2>5 DEF Ledger!Submit
  <2> QED
    BY <2>1, <2>6 DEF Ledger!Next
<1> QED
  BY <1>2, <1>3

\* Clearing the entries of some agents withdraws those of the disciplined among them.
LEMMA ClearRefines ==
  ASSUME GateInv, NEW S \in SUBSET Agents, Retire(S, "discarded"), commits' = commits
  PROVE  [Ledger!Next]_LedgerStatus
<1>1. ASSUME NEW q \in Tracked
      PROVE  LedgerStatus'[q] =
               IF q \in Ledger!OpenOf(S \cap Disciplined) THEN "withdrawn" ELSE LedgerStatus[q]
  <2>1. fate'[q] = IF Author[q] \in S \cap Disciplined /\ fate[q] = "pending"
                   THEN "discarded" ELSE fate[q]
    BY DEF Retire, Tracked
  <2> QED
    BY <2>1, RetireWithdraws DEF GateInv
<1>2. LedgerStatus' = [q \in Tracked |->
          IF q \in Ledger!OpenOf(S \cap Disciplined) THEN "withdrawn" ELSE LedgerStatus[q]]
  BY <1>1 DEF LedgerStatus, Tracked
<1> QED
  BY <1>2 DEF Ledger!Next, Ledger!Withdraw

LEMMA CommitRefines ==
  ASSUME GateInv, NEW r \in Requests, Commit(r)
  PROVE  [Ledger!Next]_LedgerStatus
<1> DEFINE p == requests[r].files
<1>1. HoldsProposal(r) /\ requests[r].pc = "allowed"
  BY DEF Commit, GateInv, RequestInv, Running
<1>2. /\ fate' = fate
      /\ \A q \in Proposals : Committed(q)' <=> Committed(q) \/ q = p
  <2> DEFINE new == [request |-> r, agent |-> requests[r].agent, proposal |-> p,
                     basis |-> requests[r].snapshot]
  <2>1. fate' = fate /\ commits' = commits \cup {new}
    BY DEF Commit
  <2>2. new.proposal = p
    OBVIOUS
  <2>3. \A q : (\E c \in commits' : c.proposal = q) <=> (\E c \in commits : c.proposal = q) \/ q = p
    <3> HIDE DEF new
    <3> QED
      BY <2>1, <2>2
  <2> QED
    BY <2>1, <2>3 DEF Committed
<1>3. p \in Proposals /\ Author[p] = requests[r].agent
  BY <1>1 DEF HoldsProposal
<1>4. CASE p \notin Tracked
  <2>1. \A q \in Tracked : fate'[q] = fate[q] /\ (Committed(q)' <=> Committed(q))
    BY <1>2, <1>4 DEF Tracked
  <2> QED
    BY <2>1, Unmoved, Invisible
<1>5. CASE p \in Tracked
  <2>1. pending[Author[p]] = p /\ ~Committed(p)
    BY <1>1, <1>3, <1>5 DEF HoldsProposal, Tracked
  <2>2. fate[p] = "pending"
    BY <1>3, <2>1 DEF GateInv, PendingInv
  <2>3. LedgerStatus[p] = "open"
    BY <1>5, <2>1, <2>2, OpenEntries DEF GateInv
  <2>4. LedgerStatus'[p] = "committed"
    <3>1. LedgerStatus' = [q \in Tracked |-> Entry(fate'[q], Committed(q)')]
      BY DEF LedgerStatus, Tracked
    <3>2. \A q \in Tracked : q = p => Entry(fate'[q], Committed(q)') = "committed"
      BY <1>2 DEF Entry, Tracked
    <3> QED
      BY <1>5, <3>1, <3>2
  <2>5. \A q \in Tracked : q # p => LedgerStatus'[q] = LedgerStatus[q]
    BY <1>2, Unmoved DEF Tracked
  <2>6. LedgerStatus' = [LedgerStatus EXCEPT ![p] = "committed"]
    BY <2>4, <2>5 DEF LedgerStatus, Tracked
  <2> QED
    BY <1>5, <2>3, <2>6 DEF Ledger!Next, Ledger!Commit
<1> QED
  BY <1>4, <1>5

\* The Clear that ends a request only removes what is committed: nobody sees it.
LEMMA ClearCommittedRefines ==
  ASSUME GateInv, NEW r \in Requests, ClearCommitted(r)
  PROVE  LedgerStatus' = LedgerStatus
<1> DEFINE a == requests[r].agent
<1>1. HoldsProposal(r) /\ requests[r].pc = "committed"
  BY DEF ClearCommitted, GateInv, RequestInv, Running
<1> SUFFICES ASSUME NEW q \in Tracked
             PROVE  LedgerStatus'[q] = LedgerStatus[q]
  BY Invisible
<1>2. Committed(q)' <=> Committed(q)
  BY DEF ClearCommitted, Committed
<1>3. fate'[q] = IF Author[q] = a /\ fate[q] = "pending" THEN "cleared" ELSE fate[q]
  BY DEF ClearCommitted, Retire, Tracked
<1>4. CASE Author[q] = a /\ fate[q] = "pending"
  <2>1. pending[a] = q /\ pending[a] = requests[r].files
    BY <1>1, <1>4 DEF GateInv, PendingInv, HoldsProposal, Tracked
  <2>2. Committed(q)
    BY <1>1, <1>4, <2>1 DEF HoldsProposal, Tracked
  <2>3. /\ LedgerStatus[q] = Entry(fate[q], Committed(q))
        /\ LedgerStatus'[q] = Entry(fate'[q], Committed(q)')
    BY DEF LedgerStatus, Tracked
  <2> QED
    BY <1>2, <2>2, <2>3 DEF Entry
<1>5. CASE ~(Author[q] = a /\ fate[q] = "pending")
  BY <1>2, <1>3, <1>5, Unmoved
<1> QED
  BY <1>4, <1>5

\* Every step of the gate is a step of the ledger, or invisible in it.
LEMMA NextRefines ==
  ASSUME GateInv, [Next]_vars
  PROVE  [Ledger!Next]_LedgerStatus
<1>1. ASSUME fate' = fate, commits' = commits PROVE LedgerStatus' = LedgerStatus
  BY <1>1, Unmoved, Invisible DEF Committed
<1>2. CASE UNCHANGED vars
  BY <1>1, <1>2 DEF vars
<1>3. ASSUME NEW a \in Agents, ProposeFiles(a) PROVE [Ledger!Next]_LedgerStatus
  BY <1>3, ProposeFilesRefines
<1>4. ASSUME NEW a \in Agents, ClearAgent(a) PROVE [Ledger!Next]_LedgerStatus
  BY <1>4, ClearRefines DEF ClearAgent
<1>5. CASE ClearDemo
  BY <1>5, ClearRefines DEF ClearDemo
<1>6. ASSUME NEW r \in Requests,
             \/ \E a \in Agents : RequestMicroCommit(r, a)
             \/ ReadChangeSets(r)
             \/ EvaluatePolicy(r)
             \/ AnalysisFails(r)
      PROVE  [Ledger!Next]_LedgerStatus
  BY <1>1, <1>6 DEF RequestMicroCommit, ReadChangeSets, EvaluatePolicy, AnalysisFails
<1>7. ASSUME NEW r \in Requests, Commit(r) PROVE [Ledger!Next]_LedgerStatus
  BY <1>7, CommitRefines
<1>8. ASSUME NEW r \in Requests, ClearCommitted(r) PROVE [Ledger!Next]_LedgerStatus
  BY <1>8, ClearCommittedRefines
<1> QED
  BY <1>2, <1>3, <1>4, <1>5, <1>6, <1>7, <1>8 DEF Next

\* The VFS and its concurrent micro-commits implement the atomic ledger of the
\* proposals of all agents whose clients wait for their running requests.
THEOREM GateImplementsLedger == Spec => ImplementsLedger
<1>1. Init => Ledger!Init
  <2> SUFFICES ASSUME Init PROVE Ledger!Init
    OBVIOUS
  <2>1. \A p \in Tracked : fate[p] = "new" /\ ~Committed(p)
    BY DEF Init, Committed, Tracked
  <2>2. \A p \in Tracked : Entry(fate[p], Committed(p)) = "new"
    BY <2>1 DEF Entry
  <2> QED
    BY <2>2 DEF Ledger!Init, LedgerStatus
<1>2. GateInv /\ [Next]_vars => [Ledger!Next]_LedgerStatus
  BY NextRefines
<1> QED
  BY <1>1, <1>2, GateInvariant, PTL DEF Spec, ImplementsLedger, Ledger!Spec
=============================================================================
