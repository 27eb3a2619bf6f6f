------------------------------ MODULE FrontPages ------------------------------
(***************************************************************************)
(* The pages of the site, the editor and the panel of the test page, what  *)
(* is opened on the dashboard, and the stateful components of the kit.     *)
(* They share no state, and no page uses the kit's components yet, so that *)
(* each is explored alone: what is on trial never changes, and what is not *)
(* has one state.                                                          *)
(***************************************************************************)
EXTENDS Site, Toasts, Sidebar, Carousel, DashboardCards, GraphEditor, BackendPanel

VARIABLE subject

kitVars == <<toastVars, sidebarVars, carouselVars>>
testVars == <<graphVars, backendVars>>
vars == <<subject, siteVars, cardVars, kitVars, testVars>>

Init ==
  /\ subject \in {"site", "toasts", "sidebar", "carousel", "cards", "editor", "backend"}
  /\ SiteInit /\ ToastsInit /\ SidebarInit /\ CarouselInit /\ CardsInit
  /\ GraphInit /\ BackendInit
  /\ subject # "site" => page.path = "/docs"
  /\ subject # "sidebar" =>
       /\ ~narrow /\ sidebar.open
       /\ given = [collapsible |-> "offcanvas", open |-> Undefined, onOpenChange |-> FALSE]
  /\ subject # "carousel" => embla.slides = 1 /\ ~embla.loop
  /\ subject # "backend" => up

SiteStep(A) == subject = "site" /\ A /\ UNCHANGED <<subject, cardVars, kitVars, testVars>>
CardStep(A) == subject = "cards" /\ A /\ UNCHANGED <<subject, siteVars, kitVars, testVars>>
ToastStep(A) ==
  subject = "toasts" /\ A
  /\ UNCHANGED <<subject, siteVars, cardVars, sidebarVars, carouselVars, testVars>>
SidebarStep(A) ==
  subject = "sidebar" /\ A
  /\ UNCHANGED <<subject, siteVars, cardVars, toastVars, carouselVars, testVars>>
CarouselStep(A) ==
  subject = "carousel" /\ A
  /\ UNCHANGED <<subject, siteVars, cardVars, toastVars, sidebarVars, testVars>>
EditorStep(A) ==
  subject = "editor" /\ A /\ UNCHANGED <<subject, siteVars, cardVars, kitVars, backendVars>>
BackendStep(A) ==
  subject = "backend" /\ A /\ UNCHANGED <<subject, siteVars, cardVars, kitVars, graphVars>>

Next ==
  \/ SiteStep(SiteNext) \/ CardStep(CardsNext)
  \/ ToastStep(ToastsNext) \/ SidebarStep(SidebarNext) \/ CarouselStep(CarouselNext)
  \/ EditorStep(GraphNext) \/ BackendStep(BackendNext)

Spec == Init /\ [][Next]_vars

\* React runs its effects, timers and intervals fire, Radix closes a toast after its
\* duration, and a call of the backend ends: by its answer, or at the proxy's timeout.
Fairness ==
  /\ WF_vars(SiteStep(RunEffects)) /\ WF_vars(SiteStep(Draw))
  /\ WF_vars(SiteStep(LogTick)) /\ WF_vars(SiteStep(TextTick))
  /\ \A v \in Visits :
       WF_vars(SiteStep(NumberStarts(v))) /\ WF_vars(SiteStep(NumberTick(v)))
  /\ WF_vars(ToastStep(Listen))
  /\ \A i \in Ids : WF_vars(ToastStep(Close(i))) /\ WF_vars(ToastStep(Expire(i)))
  /\ WF_vars(BackendStep(\E k \in Checks : MountPanel(k) \/ Tick(k)))
  /\ \A k \in Checks : WF_vars(BackendStep(Settles(k)))
  /\ WF_vars(BackendStep(AnalysisProceeds))

FairSpec == Spec /\ Fairness
=============================================================================
