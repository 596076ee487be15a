------------------------------ MODULE MCWindow ------------------------------
(***************************************************************************)
(* The window, for model checking: the tab bar, the sidebar of the         *)
(* sessions, the terminal's buffer and frames, and, on inputs of their     *)
(* own, the selection and the scroll bar of the terminal and the colours   *)
(* of a theme. They share no state: a behaviour is of one of them, named   *)
(* by part, and the others stay in their initial states.                   *)
(***************************************************************************)
EXTENDS Integers, Sequences, SequencesExt

CONSTANTS
  Tabs, NoTab, MaxStatus,                         \* of WorkspaceTabs
  Profiles, Queries, MaxVersion, MaxWork,         \* SidebarSessions
  Texts, Blank, Rows, Scrollback, Tracked, MaxLines  \* TerminalBuffer

ASSUME TabsAssumption == Tabs \subseteq Nat /\ NoTab \notin Tabs /\ MaxStatus \in Nat
ASSUME SidebarAssumption ==
  Profiles \in Queries /\ MaxVersion \in Nat /\ MaxWork \in Nat \ {0}
ASSUME TerminalAssumption ==
  /\ Rows \in Nat \ {0} /\ Scrollback \in Nat /\ Tracked \in Nat \ {0} /\ MaxLines \in Nat
  /\ Texts \cap {"newline", "wrap", "up"} = {}

VARIABLES
  part,         \* the part that runs in this behaviour
  input,        \* what an operator is given, in a behaviour of its own
  context, issued, changed, phase, snapshot, view, items, drag, transition, drawn,
  selects, closes,
  stored, tunnels, sessions, failed, listed, menu, query, tasks, refreshes, behind,
  grid, saved, damage, current, first, stamps, frame, fresh, begun

Bar == INSTANCE WorkspaceTabs
Sidebar == INSTANCE SidebarSessions
Terminal == INSTANCE TerminalBuffer
Selection == INSTANCE TerminalSelection
Palette == INSTANCE ThemePalette

(* An empty line, one with a combining character that goes on in the next, *)
(* and one with a wide character.                                          *)
Char(w, s) == [width |-> w, style |-> s]
Lines == {[chars |-> <<>>, wrapped |-> FALSE],
          [chars |-> <<Char(1, 1), Char(0, 1), Char(1, 2)>>, wrapped |-> TRUE],
          [chars |-> <<Char(2, 1), Char(1, 1)>>, wrapped |-> FALSE]}

(* Views of two rows of a text of three: before it has scrolled, after, and*)
(* scrolled back.                                                          *)
Views(text) ==
  {[lines |-> SubSeq(text, v[1] - v[2] + 1, v[1] - v[2] + 2), history |-> v[1], offset |-> v[2]] :
     v \in {<<0, 0>>, <<1, 0>>, <<1, 1>>}}
Steps(text) == [frame : Views(text), point : (0..1) \X (0..3)]

(* A press and a release anywhere, or with a move between them.            *)
Drags ==
  (UNION {{<<s, t>> : s, t \in Steps(text)} : text \in [1..3 -> Lines]})
  \cup (UNION {{<<[s EXCEPT !.point = <<0, @[2]>>], [s EXCEPT !.point = <<@[1], 0>>], u>> :
                  s \in {s \in Steps(text) : s.frame.history = 1},
                  u \in {u \in Steps(text) : u.point[2] < 2}} : text \in [1..3 -> Lines]})
Clicks == [line : Lines, target : 0..4]
Bars == {b \in [history : 0..30, rows : 1..4, offset : 0..30] : b.offset <= b.history}

(* Themes with and without colours of the user's own, dark and light.      *)
Looks == [theme : Palette!Themes, accent : {10, 300, 500, 900}, font : {Palette!Unset, 500},
          background : {Palette!Unset, 0, 400, 600, 1000}, hover : {Palette!Unset, 500},
          selected : {Palette!Unset, 0, 500, 1000}, wallpaper : BOOLEAN, opacity : {0, 50}]

(* Text can be read on its background unless its colour is the user's own, *)
(* what is hovered is not taken for what is selected unless one of the two *)
(* is, and a selection in the terminal stands out in any case.             *)
Readable(look) ==
  LET applied == Palette!Applied(look) IN
  /\ look.font = Palette!Unset =>
       Palette!Distance(applied.foreground, applied.background) >= 400
  /\ look.hover = Palette!Unset /\ look.selected = Palette!Unset /\ ~Palette!SoftDefault(look) =>
       Palette!Distance(applied.hover, applied.selected) >= 80
  /\ Palette!Distance(Palette!TerminalSelection(look, applied),
                      Palette!WorkspaceBackground(look, applied)) >= 120

tabsState == <<context, issued, changed, phase, snapshot, view, items, drag,
               transition, drawn, selects, closes>>
sidebarState == <<stored, tunnels, sessions, failed, listed, menu, query, tasks,
                  refreshes, behind>>
terminalState == <<grid, saved, damage, current, first, stamps, frame, fresh, begun>>

-----------------------------------------------------------------------------
Init ==
  /\ part \in {"tabs", "sidebar", "terminal", "drag", "click", "bar", "colours"}
  /\ Bar!Init
  /\ Sidebar!Init
  /\ (part # "sidebar" => query = Profiles)
  /\ Terminal!Init
  /\ input \in CASE part = "drag" -> Drags
                  [] part = "click" -> Clicks
                  [] part = "bar" -> Bars
                  [] part = "colours" -> Looks
                  [] OTHER -> {<<>>}

BarSteps ==
  /\ part = "tabs" /\ Bar!Next
  /\ UNCHANGED <<part, input, sidebarState, terminalState>>

SidebarSteps ==
  /\ part = "sidebar" /\ Sidebar!Next
  /\ UNCHANGED <<part, input, tabsState, terminalState>>

TerminalSteps ==
  /\ part = "terminal" /\ Terminal!Next
  /\ UNCHANGED <<part, input, tabsState, sidebarState>>

Next == BarSteps \/ SidebarSteps \/ TerminalSteps

all == <<part, input, tabsState, sidebarState, terminalState>>

Spec == Init /\ [][Next]_all

-----------------------------------------------------------------------------
(* At rest the tab bar shows the workspaces of the data context, and the   *)
(* sidebar the profiles that are saved and the tunnels that are open, in   *)
(* whatever order what they asked for arrived (gui/workspace/mod.rs,       *)
(* gui/sidebar_session/core.rs).                                           *)
WindowShowsTheContext ==
  /\ part = "tabs" => Bar!TypeOK /\ Bar!RestShowsTheContext
  /\ part = "sidebar" => Sidebar!TypeOK /\ Sidebar!SidebarShowsTheProfiles

(* Whatever tab the pointer meets, with handlers drawn before the last     *)
(* reorder too, only the dragged one moves, and it moves there             *)
(* (component/draggable_list.rs).                                          *)
DragFollowsThePointer == Bar!DragFollowsThePointer

(* A frame is the screen, although most of it is taken from the one        *)
(* before, and the pages an agent reads are the history                    *)
(* (data_context/terminal/buffer.rs).                                      *)
TerminalIsShown == part = "terminal" =>
  Terminal!TypeOK /\ Terminal!FrameIsTheScreen /\ Terminal!PagesMakeTheHistory

(* What is copied is what was highlighted, a click is on a character, the  *)
(* thumb stays under the pointer, and colours can be told apart            *)
(* (gui/workspace/ssh, component/theme).                                   *)
PicturesAreTrue ==
  /\ part = "drag" => Selection!CopyIsTheHighlight(input)
  /\ part = "click" => Selection!ClickIsOnACharacter(input.line, input.target)
  /\ part = "bar" =>
       Selection!ThumbStaysUnderThePointer(input.history, input.rows, input.offset)
  /\ part = "colours" => Readable(input)
=============================================================================
