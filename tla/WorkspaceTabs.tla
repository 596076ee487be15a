---------------------------- MODULE WorkspaceTabs ----------------------------
(***************************************************************************)
(* The tab bar of the main window: DraggableList                           *)
(* (component/draggable_list.rs) holding the open workspaces of            *)
(* WorkspaceSession (gui/workspace/top_session/), kept up to date by the   *)
(* subscription of gui/workspace/mod.rs to the coalescing refresh bus      *)
(* (event_bus/refresh_gui/), with the data context of                      *)
(* data_context/workspace/lifecycle.rs behind it.                          *)
(*                                                                         *)
(* The window runs on one thread: the subscription's three steps and the   *)
(* user's events never interleave with each other, but the data context    *)
(* changes between any two of them.  The handlers of a tab are closures    *)
(* made when it was drawn (`drawn`), and an event may still reach the      *)
(* closures of a drawing older than the list.                              *)
(***************************************************************************)
EXTENDS Integers, Sequences, FiniteSets, SequencesExt

CONSTANTS Tabs,         \* the workspaces that are ever opened, numbered
          NoTab,        \* no workspace
          MaxStatus     \* BOUND: statuses change while so many were ever opened

VARIABLES
  context,      \* the data context: the open workspaces, the selected one
  issued,       \* the workspaces opened so far: an identity is not reused
  changed,      \* the refresh channel holds a revision not yet seen
  phase,        \* of the subscription task: "idle", "seen" or "read"
  snapshot,     \* the copy of the context it has read
  view,         \* WorkspaceSession: sessions, selected_id, statuses
  items,        \* DraggableList's items (the highlight is left out)
  drag,         \* the tab under the pointer's drag, of the toolkit
  transition,   \* DraggableListState: the last reorder, or <<>>
  drawn,        \* the items whose closures are on screen
  selects,      \* the spawned selections, which run in order
  closes        \* the spawned closings, which run in any order

tabVars == <<context, issued, changed, phase, snapshot, view, items, drag, transition,
             drawn, selects, closes>>

Content == [open : Seq(Tabs), selected : Tabs \cup {NoTab},
            status : [Tabs -> BOOLEAN]]

Nothing == [open |-> <<>>, selected |-> NoTab, status |-> [t \in Tabs |-> FALSE]]

Elements(s) == {s[i] : i \in DOMAIN s}

Index(s, t) == CHOOSE i \in DOMAIN s : s[i] = t

Without(s, t) == RemoveAt(s, Index(s, t))

Smaller(m, n) == IF m < n THEN m ELSE n

(* The view subscribes first and reads the context next, so that nothing   *)
(* that happens in between is missed.                                      *)
Init ==
  /\ context = Nothing
  /\ issued = {}
  /\ changed = FALSE
  /\ phase = "seen"
  /\ snapshot = Nothing
  /\ view = Nothing
  /\ items = <<>>
  /\ drag = NoTab
  /\ transition = <<>>
  /\ drawn = <<>>
  /\ selects = <<>>
  /\ closes = {}

window == <<phase, snapshot, view, items, drag, transition, drawn>>

-----------------------------------------------------------------------------
(* The data context, on the application's threads.                         *)

(* Identities are never reused; the numbers follow the order of opening.   *)
OpenWorkspace(t) ==
  /\ t = Cardinality(issued) + 1
  /\ issued' = issued \cup {t}
  /\ context' = [context EXCEPT !.open = Append(@, t), !.selected = t]
  /\ changed' = TRUE
  /\ UNCHANGED <<window, selects, closes>>

StatusChanges(t) ==
  /\ t \in Elements(context.open)
  /\ ~context.status[t] /\ Cardinality(issued) <= MaxStatus
  /\ context' = [context EXCEPT !.status[t] = TRUE]
  /\ changed' = TRUE
  /\ UNCHANGED <<issued, window, selects, closes>>

(* The tab after the closed one is selected, or the last one.              *)
Closed(t) ==
  LET rest == Without(context.open, t)
      next == Smaller(Index(context.open, t), Len(rest))
  IN [context EXCEPT
        !.open = rest,
        !.selected = IF @ # t THEN @ ELSE IF rest = <<>> THEN NoTab ELSE rest[next],
        !.status[t] = FALSE]

CloseWorkspace(t) ==
  /\ t \in closes
  /\ closes' = closes \ {t}
  /\ IF t \in Elements(context.open)
     THEN context' = Closed(t) /\ changed' = TRUE
     ELSE UNCHANGED <<context, changed>>
  /\ UNCHANGED <<issued, window, selects>>

SelectWorkspace ==
  /\ selects # <<>>
  /\ selects' = Tail(selects)
  /\ LET t == Head(selects)
     IN IF t \in Elements(context.open) /\ context.selected # t
        THEN context' = [context EXCEPT !.selected = t] /\ changed' = TRUE
        ELSE UNCHANGED <<context, changed>>
  /\ UNCHANGED <<issued, window, closes>>

-----------------------------------------------------------------------------
(* The subscription: the revision is marked seen before the context is     *)
(* read, and the copy is applied last.                                     *)

SeeRevision ==
  /\ phase = "idle" /\ changed
  /\ changed' = FALSE
  /\ phase' = "seen"
  /\ UNCHANGED <<context, issued, snapshot, view, items, drag, transition, drawn,
                 selects, closes>>

ReadContext ==
  /\ phase = "seen"
  /\ snapshot' = context
  /\ phase' = "read"
  /\ UNCHANGED <<context, issued, changed, view, items, drag, transition, drawn,
                 selects, closes>>

(* Mutant: tabs are the same whatever their status.                        *)
SameTabsAnyStatus == view.open = snapshot.open /\ view.selected = snapshot.selected

SameTabs == view = snapshot

(* The list is emptied and filled in the context's order: what the user    *)
(* dragged is forgotten, and so is the drag's state.                       *)
ApplySnapshot ==
  /\ phase = "read"
  /\ phase' = "idle"
  /\ IF SameTabs
     THEN UNCHANGED <<view, items, transition>>
     ELSE /\ view' = snapshot
          /\ items' = snapshot.open
          /\ transition' = <<>>
  /\ snapshot' = Nothing
  /\ UNCHANGED <<context, issued, changed, drag, drawn, selects, closes>>

-----------------------------------------------------------------------------
(* The user's events, delivered to the closures drawn last.                *)

Calm == phase = "idle"

Render ==
  /\ Calm /\ drawn # items
  /\ drawn' = items
  /\ UNCHANGED <<context, issued, changed, phase, snapshot, view, items, drag, transition,
                 selects, closes>>

(* A click asks for the selection, unless the view already shows it.       *)
Activate(t) ==
  /\ Calm /\ t \in Elements(drawn)
  /\ t \in Elements(view.open) /\ view.selected # t
  /\ Len(selects) < 1
  /\ selects' = Append(selects, t)
  /\ UNCHANGED <<context, issued, changed, window, closes>>

CloseTab(t) ==
  /\ Calm /\ t \in Elements(drawn) /\ t \in Elements(view.open)
  /\ closes = {}
  /\ closes' = {t}
  /\ UNCHANGED <<context, issued, changed, window, selects>>

StartDrag(t) ==
  /\ Calm /\ drag = NoTab /\ t \in Elements(drawn)
  /\ drag' = t
  /\ transition' = <<>>
  /\ UNCHANGED <<context, issued, changed, phase, snapshot, view, items, drawn,
                 selects, closes>>

Moved(s, from, to) == InsertAt(RemoveAt(s, from), to, s[from])

(* Mutant: the tab drawn at a place is taken to be there still.            *)
AlwaysThere(index) == TRUE

(* The closure at `index` was drawn for this target: is it still there?    *)
StillThere(index) == index \in DOMAIN items /\ items[index] = drawn[index]

(* The pointer moves over the tab drawn at `index`, before or after its    *)
(* middle; `at` is the slot it points to, counted in the list as it is.    *)
DragMove(index, before) ==
  LET target == drawn[index]
      at     == IF before THEN index ELSE index + 1
      from   == Index(items, drag)
      to     == IF from < at THEN at - 1 ELSE at
  IN /\ Calm /\ drag # NoTab
     /\ drag # target
     /\ StillThere(index)
     /\ drag \in Elements(items)
     /\ at \notin {from, from + 1}
     /\ at <= Len(items) + 1
     /\ (transition # <<>> => transition[2] # to)
     /\ items' = Moved(items, from, to)
     /\ transition' = <<from, to>>
     /\ UNCHANGED <<context, issued, changed, phase, snapshot, view, drag, drawn, selects,
                    closes>>

(* The button goes up.  Every drawn tab hears of it, over itself or not,   *)
(* and clears the state of the list; out of the window nobody hears.       *)
Drop(heard) ==
  /\ Calm /\ drag # NoTab
  /\ drag' = NoTab
  /\ transition' = IF heard /\ drawn # <<>> THEN <<>> ELSE transition
  /\ UNCHANGED <<context, issued, changed, phase, snapshot, view, items, drawn, selects,
                 closes>>

(* Mutant: the tab next to the place that was left does not move.          *)
DisplacementOffByOne(index) ==
  IF transition = <<>> THEN 0
  ELSE LET from == transition[1]
           to   == transition[2]
       IN IF from < to /\ index \in from..(to - 1) THEN 1
          ELSE IF from > to /\ index \in to..(from - 1) THEN -1
          ELSE 0

(* How many slots the tab drawn at `index` starts away from its place when *)
(* the reorder is animated.                                                *)
Displacement(index) ==
  IF transition = <<>> THEN 0
  ELSE LET from == transition[1]
           to   == transition[2]
       IN IF from < to /\ index \in from..(to - 1) THEN 1
          ELSE IF from > to /\ index \in (to + 1)..from THEN -1
          ELSE 0

-----------------------------------------------------------------------------
Next ==
  \/ \E t \in Tabs : \/ OpenWorkspace(t) \/ StatusChanges(t) \/ CloseWorkspace(t)
                     \/ Activate(t) \/ CloseTab(t) \/ StartDrag(t)
  \/ SelectWorkspace
  \/ SeeRevision \/ ReadContext \/ ApplySnapshot
  \/ Render
  \/ \E index \in DOMAIN drawn, before \in BOOLEAN : DragMove(index, before)
  \/ \E heard \in BOOLEAN : Drop(heard)

Spec == Init /\ [][Next]_tabVars

-----------------------------------------------------------------------------
TypeOK ==
  /\ context \in Content /\ view \in Content /\ snapshot \in Content
  /\ changed \in BOOLEAN
  /\ phase \in {"idle", "seen", "read"}
  /\ items \in Seq(Tabs)
  /\ issued \subseteq Tabs
  /\ Cardinality(Elements(items)) = Len(items)
  /\ drag \in Tabs \cup {NoTab}
  /\ drawn \in Seq(Tabs)
  /\ closes \subseteq Tabs

(* Once the subscription has nothing left to see, the window shows what    *)
(* the data context holds: the same workspaces with the same statuses, the *)
(* same one selected, and a tab for each, in whatever order the user has   *)
(* dragged them.  A revision that arrives while one is being applied is    *)
(* seen again.                                                             *)
RestShowsTheContext ==
  phase = "idle" /\ ~changed =>
    /\ view = context
    /\ Elements(items) = Elements(context.open)

(* A reorder moves the dragged tab only, and puts it beside the tab the    *)
(* pointer is on, on the side the pointer is on, even when the event       *)
(* reaches a closure drawn before the last reorder.  The animation starts  *)
(* every other tab at the slot it had.                                     *)
DragFollowsThePointer ==
  [][ \A index \in DOMAIN drawn, before \in BOOLEAN :
        DragMove(index, before) =>
          LET place == Index(items', drawn[index])
          IN /\ Without(items', drag) = Without(items, drag)
             /\ Index(items', drag) = IF before THEN place - 1 ELSE place + 1
             /\ \A i \in DOMAIN items' :
                  items'[i] # drag => Index(items, items'[i]) = i + Displacement(i)' ]_tabVars
=============================================================================
