------------------------------- MODULE Sidebar -------------------------------
(***************************************************************************)
(* The sidebar of the component kit: SidebarProvider's state, which a      *)
(* parent may hold instead, the hook that tells whether the window is      *)
(* narrow, the listener of the keyboard shortcut with the values it has    *)
(* captured, and what Sidebar renders.                                     *)
(*                                                                         *)
(* React renders and runs the effects of a click, a key or a media change  *)
(* before the next event; only those of the first render may run later.    *)
(***************************************************************************)
EXTENDS Naturals

CONSTANT Undefined   \* a prop that is not given, a listener or a cookie that is not there

ASSUME SidebarAssumption == Undefined \notin BOOLEAN

VARIABLES
  narrow,   \* window.innerWidth < MOBILE_BREAKPOINT
  given,    \* the props: collapsible, open (or Undefined), whether onOpenChange is given
  sidebar,  \* the provider's state and how far its first effects are
  handler,  \* isMobile and open as handleKeyDown knows them
  cookie    \* sidebar:state

sidebarVars == <<narrow, given, sidebar, handler, cookie>>

SidebarInit ==
  /\ narrow \in BOOLEAN
  /\ given \in [collapsible : {"offcanvas", "icon", "none"}, open : BOOLEAN \cup {Undefined},
                onOpenChange : BOOLEAN]
  /\ sidebar \in [isMobile : {FALSE}, open : BOOLEAN, openMobile : {FALSE}, phase : {"rendered"}]
  /\ handler = Undefined
  /\ cookie = Undefined

IsOpen(props, state) == IF props.open = Undefined THEN state.open ELSE props.open

open == IsOpen(given, sidebar)

\* Mutant of Captured: toggleSidebar does not depend on isMobile.
CapturedOpen(props, state) ==
  IF handler # Undefined /\ handler.open = IsOpen(props, state) THEN handler
  ELSE [isMobile |-> state.isMobile, open |-> IsOpen(props, state)]

\* What the listener knows after the effects of a render.
Captured(props, state) == [isMobile |-> state.isMobile, open |-> IsOpen(props, state)]

\* A render and its effects.
Render(props, state) ==
  /\ given' = props
  /\ sidebar' = state
  /\ handler' = Captured(props, state)

\* The effects of the first render measure the window; another render follows.
Measure ==
  /\ sidebar.phase = "rendered"
  /\ handler' = Captured(given, sidebar)
  /\ sidebar' = [sidebar EXCEPT !.isMobile = narrow, !.phase = "measured"]
  /\ UNCHANGED <<narrow, given, cookie>>

SecondRender ==
  /\ sidebar.phase = "measured"
  /\ Render(given, [sidebar EXCEPT !.phase = "ready"])
  /\ UNCHANGED <<narrow, cookie>>
-----------------------------------------------------------------------------
\* The parent is told, if it wants to be, and sets the prop if it has given one; the
\* provider keeps the value otherwise.  The cookie is written in any case.
setOpen(value) ==
  /\ IF given.onOpenChange
     THEN Render([given EXCEPT !.open = IF @ = Undefined THEN Undefined ELSE value], [sidebar EXCEPT !.phase = "ready"])
     ELSE Render(given, [sidebar EXCEPT !.open = value, !.phase = "ready"])
  /\ cookie' = value
  /\ UNCHANGED narrow

setOpenMobile(value) ==
  /\ Render(given, [sidebar EXCEPT !.openMobile = value, !.phase = "ready"])
  /\ UNCHANGED <<narrow, cookie>>

toggleSidebar(known) ==
  IF known.isMobile THEN setOpenMobile(~sidebar.openMobile) ELSE setOpen(~known.open)

\* The trigger and the rail call what the last render has made.
Click ==
  /\ sidebar.phase = "ready"
  /\ toggleSidebar([isMobile |-> sidebar.isMobile, open |-> open])

Shortcut == handler # Undefined /\ toggleSidebar(handler)

\* Escape, the overlay or the button of the sheet.
CloseSheet ==
  /\ sidebar.isMobile /\ sidebar.openMobile /\ given.collapsible # "none"
  /\ setOpenMobile(FALSE)

Resize ==
  /\ narrow' = ~narrow
  /\ UNCHANGED <<given, sidebar, handler, cookie>>

\* The listener of the media query, which the first effects have added.
MediaChange ==
  /\ sidebar.phase # "rendered" /\ sidebar.isMobile # narrow
  /\ Render(given, [sidebar EXCEPT !.isMobile = narrow, !.phase = "ready"])
  /\ UNCHANGED <<narrow, cookie>>

SidebarNext ==
  Measure \/ SecondRender \/ Click \/ Shortcut \/ CloseSheet \/ Resize \/ MediaChange

SidebarSpec == SidebarInit /\ [][SidebarNext]_sidebarVars
-----------------------------------------------------------------------------
\* What Sidebar renders: all of it, its icons, a sheet over the page, or nothing.
Shown ==
  IF given.collapsible = "none" THEN "all"
  ELSE IF sidebar.isMobile THEN (IF sidebar.openMobile THEN "sheet" ELSE "nothing")
  ELSE IF open THEN "all"
  ELSE IF given.collapsible = "icon" THEN "icons" ELSE "nothing"

\* A button of the menu has a tooltip only where its text is not to be seen.
TooltipHidden == open \/ sidebar.isMobile

\* A parent that gives open also gives onOpenChange, and the other way round.
Wired == given.onOpenChange <=> given.open # Undefined

\* sidebar.tsx "Helper to toggle the sidebar", "This sets the cookie to keep the sidebar
\* state": once the first effects are over, the trigger, the rail and the shortcut change
\* what is on the screen, whichever way the window was resized since the listener was
\* added; on a wide screen the cookie then holds what was chosen, on a narrow one it keeps
\* what it held, and a button without a text has its tooltip.
TogglesWhatIsShown ==
  [][sidebar.phase = "ready" /\ Wired /\ given.collapsible # "none" /\ (Click \/ Shortcut) =>
       /\ Shown' # Shown
       /\ cookie' = IF sidebar.isMobile THEN cookie ELSE open'
       /\ Shown' = "icons" => ~TooltipHidden']_sidebarVars
=============================================================================
