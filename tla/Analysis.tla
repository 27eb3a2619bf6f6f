------------------------------- MODULE Analysis -------------------------------
(***************************************************************************)
(* The overlap analysis and the policy under the only inputs they ever     *)
(* see: the change sets of a VFS to which agents submit files and from     *)
(* which their entries are cleared.  The properties compare the pipeline   *)
(* (detect, score, evaluate) with what its documentation promises about    *)
(* lines, agents and decisions.                                            *)
(***************************************************************************)
EXTENDS Policy, FiniteSetsExt, Functions

CONSTANT Submissions   \* the file lists an agent may submit

ASSUME SubmissionAssumption == Submissions \subseteq Seq(FileInputs)

\* The two files that the backend panel's sample sends, as the Python parser sees them.
SamplePayload ==
  LET Symbol(n, first, last) == [name |-> n, start |-> first, end |-> last]
      Auth(symbols) == <<[path |-> "src/auth.py", symbols |-> symbols]>>
  IN {Auth(<<Symbol("AuthService", 1, 8), Symbol("AuthService.login", 2, 4),
             Symbol("AuthService.logout", 6, 8)>>),
      Auth(<<Symbol("AuthService", 1, 9), Symbol("AuthService.login", 2, 5),
             Symbol("AuthService.reset_password", 7, 9)>>)}

VARIABLE changesets    \* what ChangeSetsForAnalysis returns

AnalysisInit == changesets = [a \in {} |-> <<>>]

\* vfs.Propose: the agent's entry is replaced.
Submit(a, files) ==
  changesets' = [b \in DOMAIN changesets \cup {a} |->
                   IF b = a THEN files ELSE changesets[b]]

Without(cs, a) == [b \in DOMAIN cs \ {a} |-> cs[b]]

\* vfs.Clear.
Withdraw(a) ==
  /\ a \in DOMAIN changesets
  /\ changesets' = Without(changesets, a)

AnalysisNext ==
  \/ \E a \in Agents, files \in Submissions : Submit(a, files)
  \/ \E a \in Agents : Withdraw(a)

AnalysisSpec == AnalysisInit /\ [][AnalysisNext]_changesets
-----------------------------------------------------------------------------
(***************************************************************************)
(* Properties.                                                             *)
(***************************************************************************)

\* The number of lines between the closest lines of two symbols, by enumeration.
Distance(x, y) == Min({Abs(i - j) : i \in x.start..x.end, j \in y.start..y.end})

\* overlap_service.py's severity is a statement about lines: for any two symbols
\* of one key in the pending files of different agents there is exactly one
\* overlap, critical when they share a line, high when their closest lines are at
\* most 3 apart, and medium otherwise.
SeverityIsDistance ==
  \A o, p \in Occurrences(changesets) :
    LET found == {x \in DetectOverlaps(changesets) : x.between = {o, p}}
        d     == Distance(SymbolOf(changesets, o), SymbolOf(changesets, p))
    IN IF SharedKey(changesets, o, p)
       THEN \E x \in found :
              /\ found = {x}
              /\ x.severity = IF d = 0 THEN "critical" ELSE IF d <= 3 THEN "high" ELSE "medium"
       ELSE found = {}

\* Clearing an agent (after its commit, or by command) never makes things worse:
\* no file's risk rises, and a VFS that passes the policy still passes it.
WithdrawalNeverBlocks ==
  \A a \in DOMAIN changesets :
    LET less   == Without(changesets, a)
        before == AnalyzeOverlaps(changesets).fileRisks
    IN /\ \A r \in AnalyzeOverlaps(less).fileRisks :
            \E s \in before : s.path = r.path /\ r.riskScore <= s.riskScore
       /\ Decision(changesets).allowed => Decision(less).allowed

\* What the policy's block-on-critical rule is for: when a decision allows, no
\* line of one symbol of one file is claimed by two agents with pending changes.
AllowedMeansDisjoint ==
  BlockOnCritical /\ Decision(changesets).allowed =>
    \A o, p \in Occurrences(changesets) :
      SharedKey(changesets, o, p) =>
        Distance(SymbolOf(changesets, o), SymbolOf(changesets, p)) > 0

\* What the analysis tab of the backend panel draws for a report: a badge for every
\* overlap, and a bar for every file.
BadgeOf == [critical |-> "red", high |-> "orange", medium |-> "yellow"]

BarOf(risk) == IF risk >= 70 THEN "red" ELSE IF risk >= 40 THEN "orange" ELSE "green"

Results(resp) ==
  [overlaps |-> {[path |-> o.path, between |-> o.between, badge |-> BadgeOf[o.severity]]
                   : o \in resp.overlaps},
   files    |-> {[path |-> r.path, hotspot |-> r.isHotspot, bar |-> BarOf(r.riskScore)]
                   : r \in resp.fileRisks}]

\* The decision, the risk report and the tab tell one story.  Every blocking file is a
\* file of the report on which at least two agents overlap, and is drawn in red; the
\* decision's maximum severity is the worst of the files' maxima (computed twice, by
\* policy.go and by risk_engine.py); stability is the complement of risk, also where both
\* saturate (risk_engine.py "Stability is its complement"); and the analysis that the
\* handlers skip below two change sets would have decided the same.
DecisionMatchesReport ==
  LET resp  == AnalyzeOverlaps(changesets)
      d     == Decision(changesets)
      shown == Results(resp)
  IN /\ d = Evaluate(resp)
     /\ \A path \in d.blockingFiles :
          /\ \E r \in resp.fileRisks :
               r.path = path /\ r.pairwiseCount >= 1 /\ Cardinality(r.contributors) >= 2
          /\ \/ \E o \in shown.overlaps : o.path = path /\ o.badge = "red"
             \/ \E f \in shown.files : f.path = path /\ f.bar = "red"
     /\ SeverityRank[d.maxSeverity] =
          Max({0} \cup {SeverityRank[r.maxSeverity] : r \in resp.fileRisks})
     /\ MaxRisk = BaseStability =>
          \A r \in resp.fileRisks : r.riskScore + r.stabilityScore = MaxRisk
=============================================================================
