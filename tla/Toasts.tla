-------------------------------- MODULE Toasts --------------------------------
(***************************************************************************)
(* The notifications of the component kit: a store outside React, which    *)
(* any code may call, and the one Toaster, which copies the store when it  *)
(* is rendered and is told of changes only once its effect has run.        *)
(*                                                                         *)
(* A toast has an id, is open or not, and closing it on the screen may     *)
(* dismiss it: onOpenChange does, unless an update has replaced it.  What  *)
(* it says is left out.  A field of history tells whether it has ever been *)
(* dismissed.  Ids ascend and new toasts are put in front, so that the     *)
(* order of the store is that of the ids.                                  *)
(***************************************************************************)
EXTENDS Naturals, FiniteSets

CONSTANTS
  TOAST_LIMIT,
  MaxToasts     \* calls of toast()

ASSUME ToastAssumption == TOAST_LIMIT \in Nat \ {0} /\ MaxToasts \in Nat

VARIABLES
  memoryState,    \* the store's toasts
  count,          \* the last id given
  toastTimeouts,  \* the ids with a timeout that will remove them
  toaster         \* the Toaster: on the page, told of changes, and what it shows

toastVars == <<memoryState, count, toastTimeouts, toaster>>

Ids == 1..MaxToasts

ToastsInit ==
  /\ memoryState = {}
  /\ count = 0
  /\ toastTimeouts = {}
  /\ toaster = [mounted |-> FALSE, listening |-> FALSE, shown |-> {}]

\* The store changes, and whoever listens is told.
dispatch(toasts) ==
  /\ memoryState' = toasts
  /\ toaster' = IF toaster.listening THEN [toaster EXCEPT !.shown = toasts] ELSE toaster
-----------------------------------------------------------------------------
\* Mutant of genId: the ids are used again.
genIdAgain == (count % TOAST_LIMIT) + 1

\* The remainder by MAX_SAFE_INTEGER is out of reach.
genId == count + 1

\* The first TOAST_LIMIT of the store.
Newest(toasts) ==
  {t \in toasts : Cardinality({u \in toasts : u.id > t.id}) < TOAST_LIMIT}

toast ==
  /\ count < MaxToasts
  /\ count' = genId
  /\ dispatch(Newest(memoryState \cup
       {[id |-> genId, open |-> TRUE, closes |-> TRUE, dismissed |-> FALSE]}))
  /\ UNCHANGED toastTimeouts

\* Every prop of the toast can be given anew, if the store still has it, its timeout or not.
Updated(i, opened, closing) ==
  {IF t.id = i THEN [t EXCEPT !.open = opened, !.closes = closing] ELSE t : t \in memoryState}

update(i) ==
  /\ i <= count
  /\ \E opened, closing \in BOOLEAN : dispatch(Updated(i, opened, closing))
  /\ UNCHANGED <<count, toastTimeouts>>

Closed(ids) ==
  {IF t.id \in ids THEN [t EXCEPT !.open = FALSE, !.dismissed = TRUE] ELSE t : t \in memoryState}

\* A toast that has a timeout keeps it; one that has left the store gets one all the same.
Dismiss(ids) ==
  /\ toastTimeouts' = toastTimeouts \cup ids
  /\ dispatch(Closed(ids))
  /\ UNCHANGED count

dismiss(i) == i <= count /\ Dismiss({i})

dismissAll == Dismiss({t.id : t \in memoryState})

\* The toasts that can be dismissed on the screen.
Open(toasts) == {t.id : t \in {u \in toasts : u.open /\ u.closes}}

\* The user or its duration closes a toast on the screen.  What another onOpenChange than
\* that of toast() does is up to whoever gave it, and no step of the store.
Close(i) == toaster.mounted /\ i \in Open(toaster.shown) /\ Dismiss({i})

\* The timeout of a dismissed toast, even if an update has opened it again.
Expire(i) ==
  /\ i \in toastTimeouts
  /\ toastTimeouts' = toastTimeouts \ {i}
  /\ dispatch({t \in memoryState : t.id # i})
  /\ UNCHANGED count
-----------------------------------------------------------------------------
MountToaster ==
  /\ ~toaster.mounted
  /\ toaster' = [mounted |-> TRUE, listening |-> FALSE, shown |-> memoryState]
  /\ UNCHANGED <<memoryState, count, toastTimeouts>>

\* The effect; a change between the render and it has been missed.
Listen ==
  /\ toaster.mounted /\ ~toaster.listening
  /\ toaster' = [toaster EXCEPT !.listening = TRUE]
  /\ UNCHANGED <<memoryState, count, toastTimeouts>>

UnmountToaster ==
  /\ toaster.mounted
  /\ toaster' = [mounted |-> FALSE, listening |-> FALSE, shown |-> {}]
  /\ UNCHANGED <<memoryState, count, toastTimeouts>>

ToastsNext ==
  \/ toast \/ dismissAll \/ MountToaster \/ Listen \/ UnmountToaster
  \/ \E i \in Ids : update(i) \/ dismiss(i) \/ Close(i) \/ Expire(i)

ToastsSpec == ToastsInit /\ [][ToastsNext]_toastVars
-----------------------------------------------------------------------------
\* use-toast.ts: a timeout is pending for those toasts of the store that have been
\* dismissed, whatever updates do to them, and for no other, which would vanish under the
\* user's eyes.
DismissedAreTimed ==
  \A t \in memoryState : t.dismissed <=> t.id \in toastTimeouts

\* And no toast that closing dismisses stays open on the screen for ever, not even one that
\* was updated after its dismissal, or whose end the Toaster missed before it listened.
ToastsComeAndGo ==
  \A i \in Ids :
    [](DismissedAreTimed /\ (i \in Open(toaster.shown) => <>(i \notin Open(toaster.shown))))
=============================================================================
