--------------------------------- MODULE Site ---------------------------------
(***************************************************************************)
(* The pages a browser tab can show, the theme they share, and the timers  *)
(* of the landing page: a log that scrolls, numbers and headings that are  *)
(* scrambled until they settle, and a canvas drawn in the theme's colours. *)
(*                                                                         *)
(* Following a link unmounts one page and mounts the other; nothing of a   *)
(* page survives but what it forgot to stop.  Lines of the log are their   *)
(* indices; which of the characters are right while a text is scrambled is *)
(* left out.                                                               *)
(***************************************************************************)
EXTENDS Naturals, Sequences

CONSTANTS
  LogLength,      \* lines of the log
  Kept,           \* lines that stay when another one comes
  MaxIterations,  \* ticks after which a number settles
  TextLength,     \* characters of a heading
  MaxVisits,      \* how often the landing page is mounted
  None

ASSUME SiteAssumption ==
  /\ LogLength > 1 /\ Kept > 0 /\ MaxIterations > 0 /\ TextLength > 0 /\ MaxVisits > 0

VARIABLES
  page,      \* the path, and on /docs the section
  theme,     \* next-themes' choice, kept in the browser's storage
  mounted,   \* whether the effects of the page's first render have run
  landing,   \* what the landing page shows
  numbers    \* the ScrambleNumber of every visit to the landing page

siteVars == <<page, theme, mounted, landing, numbers>>

Sections == {"getting-started", "architecture", "mcp-tools", "dashboard-api", "configuration"}
Visits == 1..MaxVisits

Fresh == [lines |-> <<>>, current |-> 0, inView |-> FALSE, step |-> 0, canvas |-> None]

\* A number is off before its page is mounted, waits for its delay, then ticks until done.
Number(phase) == [phase |-> phase, ticks |-> 0]

SiteInit ==
  /\ page \in {[path |-> "/", section |-> None, visit |-> 1],
               [path |-> "/docs", section |-> "getting-started", visit |-> 0]}
  /\ theme = "light"
  /\ mounted = FALSE
  /\ landing = Fresh
  /\ numbers = [v \in Visits |-> Number("off")]

OnLanding == page.path = "/" /\ mounted
-----------------------------------------------------------------------------
\* The navigation bar of the landing, platform and docs pages; the dashboard has a link
\* back to the landing page only.
Links ==
  IF page.path = "/dashboard" THEN {"/"} ELSE {"/", "/platform", "/docs", "/dashboard"}

\* The cleanup of the effect clears the timeout, but not the interval it has started.
Unmounted(v) == IF numbers[v].phase = "waiting" THEN Number("off") ELSE numbers[v]

Mount(path) ==
  /\ page.visit < MaxVisits \/ path # "/"
  /\ page' = [path    |-> path,
              section |-> IF path = "/docs" THEN "getting-started" ELSE None,
              visit   |-> IF path = "/" THEN page.visit + 1 ELSE page.visit]
  /\ landing' = Fresh
  /\ mounted' = FALSE
  /\ UNCHANGED theme

Navigate ==
  \E path \in Links \ {page.path} : 
    Mount(path) /\ numbers' = [v \in Visits |-> Unmounted(v)]

\* A reload stops everything that runs in the tab; the theme is stored.
Reload == Mount(page.path) /\ numbers' = [v \in Visits |-> Number("off")]

\* Effects of the first render: the toggle appears, the log gets its first line, the
\* canvas is drawn, and the timers start.
RunEffects ==
  /\ ~mounted
  /\ mounted' = TRUE
  /\ IF page.path = "/"
     THEN /\ landing' = [landing EXCEPT !.lines = <<0>>, !.canvas = theme]
          /\ numbers' = [numbers EXCEPT ![page.visit] = Number("waiting")]
     ELSE UNCHANGED <<landing, numbers>>
  /\ UNCHANGED <<page, theme>>
-----------------------------------------------------------------------------
ChooseSection ==
  /\ page.path = "/docs"
  /\ \E s \in Sections : page' = [page EXCEPT !.section = s]
  /\ UNCHANGED <<theme, mounted, landing, numbers>>

ToggleTheme ==
  /\ mounted
  /\ theme' = IF theme = "dark" THEN "light" ELSE "dark"
  /\ UNCHANGED <<page, mounted, landing, numbers>>

\* The effect of the card, which depends on the theme.
Draw ==
  /\ OnLanding /\ landing.canvas # theme
  /\ landing' = [landing EXCEPT !.canvas = theme]
  /\ UNCHANGED <<page, theme, mounted, numbers>>
-----------------------------------------------------------------------------
Latest(lines, n) == SubSeq(lines, (IF Len(lines) > n THEN Len(lines) - n ELSE 0) + 1, Len(lines))

\* The interval of the log: at its end it starts again from an empty screen.
LogTick ==
  /\ OnLanding
  /\ LET next == landing.current + 1 IN
     landing' = IF next >= LogLength
                THEN [landing EXCEPT !.lines = <<>>, !.current = 0]
                ELSE [landing EXCEPT !.lines = Append(Latest(@, Kept), next), !.current = next]
  /\ UNCHANGED <<page, theme, mounted, numbers>>

\* The timeout of a number's delay, and the ticks of the interval it starts.
NumberStarts(v) ==
  /\ numbers[v].phase = "waiting"
  /\ numbers' = [numbers EXCEPT ![v] = Number("scrambling")]
  /\ UNCHANGED <<page, theme, mounted, landing>>

\* Mutant of NumberTick: the interval is not cleared at the end.
NumberTickOn(v) ==
  /\ numbers[v].phase = "scrambling"
  /\ numbers' = [numbers EXCEPT ![v].ticks = IF @ >= MaxIterations THEN 0 ELSE @ + 1]
  /\ UNCHANGED <<page, theme, mounted, landing>>

NumberTick(v) ==
  /\ numbers[v].phase = "scrambling"
  /\ numbers' = [numbers EXCEPT ![v] =
                   IF @.ticks >= MaxIterations THEN Number("done")
                   ELSE [@ EXCEPT !.ticks = @ + 1]]
  /\ UNCHANGED <<page, theme, mounted, landing>>

\* The heading is scrolled into view, by hand or by the link to /#about, once.
ScrollTo ==
  /\ OnLanding /\ ~landing.inView
  /\ landing' = [landing EXCEPT !.inView = TRUE]
  /\ UNCHANGED <<page, theme, mounted, numbers>>

\* Half a character at every tick, until the whole text is right.
TextTick ==
  /\ OnLanding /\ landing.inView /\ landing.step < 2 * TextLength
  /\ landing' = [landing EXCEPT !.step = @ + 1]
  /\ UNCHANGED <<page, theme, mounted, numbers>>

SiteNext ==
  \/ Navigate \/ Reload \/ RunEffects \/ ChooseSection \/ ToggleTheme \/ Draw
  \/ LogTick \/ ScrollTo \/ TextTick
  \/ \E v \in Visits : NumberStarts(v) \/ NumberTick(v)
-----------------------------------------------------------------------------
Settled ==
  /\ \E v \in Visits : v = page.visit /\ numbers[v].phase = "done"
  /\ landing.inView => landing.step = 2 * TextLength

\* metrics-card.tsx, about-section.tsx, dither-card.tsx: every number comes to rest, also
\* that of a landing page left while its interval was running, which no cleanup stops; a
\* landing page that stays shows its number, its heading, and its canvas in the theme's
\* colours, whenever the theme was toggled, the page reloaded or another one visited.
LandingSettles ==
  /\ <>[](\A v \in Visits : numbers[v].phase \in {"off", "done"})
  /\ <>[](page.path = "/") => <>[]Settled
  /\ []<>(page.path = "/" => landing.canvas = theme)
=============================================================================
