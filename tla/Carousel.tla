------------------------------- MODULE Carousel -------------------------------
(***************************************************************************)
(* The carousel of the component kit: Embla holds the slides and tells the *)
(* component, once its effect has subscribed, that another one is selected *)
(* or that it has started again; the component enables its two buttons.    *)
(***************************************************************************)
EXTENDS Naturals

CONSTANT MaxSlides

ASSUME CarouselAssumption == MaxSlides \in Nat \ {0}

VARIABLES
  embla,    \* its slides, the selected one, and whether it loops
  carousel  \* the component: whether it has the api and listens to it, and its two flags

carouselVars == <<embla, carousel>>

CarouselInit ==
  /\ embla \in [slides : 1..MaxSlides, selected : {1}, loop : BOOLEAN]
  /\ carousel = [api |-> FALSE, listening |-> FALSE, canScrollPrev |-> FALSE, canScrollNext |-> FALSE]

\* Embla stops at the ends, or goes round.
Target(e, next) ==
  CASE next /\ e.selected < e.slides    -> e.selected + 1
    [] ~next /\ e.selected > 1          -> e.selected - 1
    [] e.loop /\ next /\ e.selected = e.slides -> 1
    [] e.loop /\ ~next /\ e.selected = 1       -> e.slides
    [] OTHER                            -> e.selected

CanScroll(e, next) == Target(e, next) # e.selected

onSelect(e, c) ==
  [c EXCEPT !.canScrollPrev = CanScroll(e, FALSE), !.canScrollNext = CanScroll(e, TRUE)]

\* Embla emits an event after a change.
Emit(e) ==
  /\ embla' = e
  /\ carousel' = IF carousel.listening THEN onSelect(e, carousel) ELSE carousel

\* Mutant of ReInit: only 'select' is subscribed to.
ReInitUnheard ==
  \E n \in 1..MaxSlides :
    /\ embla' = [embla EXCEPT !.slides = n, !.selected = IF @ > n THEN n ELSE @]
    /\ UNCHANGED carousel

\* Slides come or go: Embla starts again where it was, or at its last slide.
ReInit ==
  \E n \in 1..MaxSlides : Emit([embla EXCEPT !.slides = n, !.selected = IF @ > n THEN n ELSE @])

GetApi ==
  /\ ~carousel.api
  /\ carousel' = [carousel EXCEPT !.api = TRUE]
  /\ UNCHANGED embla

\* The effect: the flags are set once, then with every event.
Subscribe ==
  /\ carousel.api /\ ~carousel.listening
  /\ carousel' = onSelect(embla, [carousel EXCEPT !.listening = TRUE])
  /\ UNCHANGED embla

Scroll(next) == CanScroll(embla, next) /\ Emit([embla EXCEPT !.selected = Target(embla, next)])

\* The arrow keys need the api only, a drag not even that.
KeyOrDrag == \E next \in BOOLEAN : Scroll(next)

Previous == carousel.canScrollPrev /\ Scroll(FALSE)

Next_ == carousel.canScrollNext /\ Scroll(TRUE)

CarouselNext == GetApi \/ Subscribe \/ ReInit \/ KeyOrDrag \/ Previous \/ Next_

CarouselSpec == CarouselInit /\ [][CarouselNext]_carouselVars
-----------------------------------------------------------------------------
\* carousel.tsx: a button is enabled exactly when Embla can go there, whatever was dragged
\* before the component listened and however many slides came or went since.
ButtonsTellTheTruth ==
  carousel.listening => carousel = onSelect(embla, carousel)
=============================================================================
