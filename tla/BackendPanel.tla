------------------------------- MODULE BackendPanel -------------------------------
(***************************************************************************)
(* The floating panel with the state of the analysis backend and a sample  *)
(* analysis.  Health checks start at an interval and on every click on     *)
(* Retry, and none waits for another: their answers arrive in any order.   *)
(***************************************************************************)
EXTENDS Naturals, FiniteSets, BackendProxy

CONSTANTS
  Checks,     \* health checks that can be under way at a time
  Outages     \* what becomes of a call while the backend is down

ASSUME BackendPanelAssumption == Outages \subseteq BackendOutcomes \ {"answered"}

VARIABLES
  up,         \* whether the backend answers
  checks,     \* every health check: idle, sent, or with its outcome
  analysis,   \* the same of the sample analyses
  panel       \* BackendPanel

backendVars == <<up, checks, analysis, panel>>

Fine == "none"    \* no error is shown
HealthState == {"checking", "ok", "error"}
CallStates == {"idle", "sent"} \cup BackendOutcomes

BackendInit ==
  /\ up \in BOOLEAN
  /\ checks = [k \in Checks |-> "idle"]
  /\ analysis = "idle"
  /\ panel = [open |-> FALSE, tab |-> "health", health |-> "checking", healthError |-> Fine,
              interval |-> FALSE, loading |-> FALSE, result |-> FALSE, error |-> Fine]
-----------------------------------------------------------------------------
\* The backend starts and stops at any time.
Toggle ==
  /\ up' = ~up
  /\ UNCHANGED <<checks, analysis, panel>>

\* The fate of a call is decided once, by the backend or by its absence.
Fate(outcome) == IF up THEN outcome = "answered" ELSE outcome \in Outages

DecideCheck(k) ==
  /\ checks[k] = "sent"
  /\ \E outcome \in BackendOutcomes : Fate(outcome) /\ checks' = [checks EXCEPT ![k] = outcome]
  /\ UNCHANGED <<up, analysis, panel>>

DecideAnalysis ==
  /\ analysis = "sent"
  /\ \E outcome \in BackendOutcomes : Fate(outcome) /\ analysis' = outcome
  /\ UNCHANGED <<up, checks, panel>>
-----------------------------------------------------------------------------
\* Mutant of checkHealth: the error of the last check stays.
checkHealthKeepError(k) ==
  /\ checks[k] = "idle"
  /\ checks' = [checks EXCEPT ![k] = "sent"]
  /\ panel' = [panel EXCEPT !.health = "checking", !.interval = TRUE]
  /\ UNCHANGED <<up, analysis>>

checkHealth(k) ==
  /\ checks[k] = "idle"
  /\ checks' = [checks EXCEPT ![k] = "sent"]
  /\ panel' = [panel EXCEPT !.health = "checking", !.healthError = Fine, !.interval = TRUE]
  /\ UNCHANGED <<up, analysis>>

\* The effect of the first render, and its interval from then on.
MountPanel(k) == ~panel.interval /\ checkHealth(k)
Tick(k) == panel.interval /\ checkHealth(k)

\* A click needs an open panel with its tab in front.
InFront(tab) == panel.open /\ panel.tab = tab
Retry(k) == panel.interval /\ InFront("health") /\ checkHealth(k)

Decided(call) == call \in BackendOutcomes
IsFailure(call) == Rejected(ProxyReply(call, 200))

CheckSucceeds(k) ==
  /\ Decided(checks[k]) /\ ~IsFailure(checks[k])
  /\ checks' = [checks EXCEPT ![k] = "idle"]
  /\ panel' = [panel EXCEPT !.health = "ok"]
  /\ UNCHANGED <<up, analysis>>

\* Mutant of CheckFails: only the dot changes.
CheckFailsSilently(k) ==
  /\ Decided(checks[k]) /\ IsFailure(checks[k])
  /\ checks' = [checks EXCEPT ![k] = "idle"]
  /\ panel' = [panel EXCEPT !.health = "error"]
  /\ UNCHANGED <<up, analysis>>

CheckFails(k) ==
  /\ Decided(checks[k]) /\ IsFailure(checks[k])
  /\ panel' = [panel EXCEPT !.health = "error", !.healthError = checks[k]]
  /\ checks' = [checks EXCEPT ![k] = "idle"]
  /\ UNCHANGED <<up, analysis>>
-----------------------------------------------------------------------------
\* The button is disabled while an analysis runs.
CanRun == InFront("analysis") /\ ~panel.loading

runAnalysis ==
  /\ CanRun
  /\ analysis' = "sent"
  /\ panel' = [panel EXCEPT !.loading = TRUE, !.error = Fine, !.result = FALSE]
  /\ UNCHANGED <<up, checks>>

\* The answer or the error, and the finally block.
AnalysisEnds ==
  /\ Decided(analysis)
  /\ analysis' = "idle"
  /\ panel' = [IF IsFailure(analysis) THEN [panel EXCEPT !.error = analysis]
               ELSE [panel EXCEPT !.result = TRUE] EXCEPT !.loading = FALSE]
  /\ UNCHANGED <<up, checks>>

ToggleOpen ==
  /\ panel' = [panel EXCEPT !.open = ~@]
  /\ UNCHANGED <<up, checks, analysis>>

ChooseTab ==
  /\ panel.open
  /\ \E tab \in {"health", "analysis"} : panel' = [panel EXCEPT !.tab = tab]
  /\ UNCHANGED <<up, checks, analysis>>

Settles(k) == DecideCheck(k) \/ CheckSucceeds(k) \/ CheckFails(k)
AnalysisProceeds == DecideAnalysis \/ AnalysisEnds

BackendNext ==
  \/ Toggle \/ AnalysisProceeds \/ runAnalysis \/ ToggleOpen \/ ChooseTab
  \/ \E k \in Checks : MountPanel(k) \/ Tick(k) \/ Retry(k) \/ Settles(k)

BackendSpec == BackendInit /\ [][BackendNext]_backendVars
-----------------------------------------------------------------------------
\* What the tabs show.
HealthTab == [dot |-> panel.health, message |-> panel.healthError]

AnalysisTab ==
  [button |-> IF panel.loading THEN "Running" ELSE "Run Sample", spinner |-> panel.loading,
   error |-> panel.error, results |-> panel.result,
   details |-> panel.error # Fine /\ ProxyReply(panel.error, 200).details]

BackendTypeOK ==
  /\ up \in BOOLEAN
  /\ checks \in [Checks -> CallStates]
  /\ analysis \in CallStates
  /\ panel \in [open : BOOLEAN, tab : {"health", "analysis"}, interval : BOOLEAN,
                health : HealthState, healthError : BackendOutcomes \cup {Fine},
                loading : BOOLEAN, result : BOOLEAN, error : BackendOutcomes \cup {Fine}]

\* The panel tells what is going on: a pulsing dot means that a check is under way (once
\* the first was made), a red one comes with its reason, and a spinning analysis really
\* runs, alone, with neither a result nor an error beside it.
PanelTellsTheTruth ==
  /\ HealthTab.dot = "checking" /\ panel.interval => \E k \in Checks : checks[k] # "idle"
  /\ HealthTab.dot = "error" => HealthTab.message # Fine
  /\ AnalysisTab.spinner <=> analysis # "idle"
  /\ Cardinality({x \in {"spinner", "error", "results"} :
       CASE x = "spinner" -> AnalysisTab.spinner
         [] x = "error" -> AnalysisTab.error # Fine
         [] x = "results" -> AnalysisTab.results}) <= 1

\* Late answers of overlapping checks may contradict newer ones, but not for ever: of a
\* backend that stays up no error is shown in the end, and of one that stays down the
\* panel is never again seen connected; and an analysis is always over some time.
HealthConverges ==
  /\ <>[]up => <>[](HealthTab.dot # "error" /\ HealthTab.message = Fine)
  /\ <>[]~up => <>[](HealthTab.dot # "ok")
  /\ []<>~AnalysisTab.spinner
=============================================================================
