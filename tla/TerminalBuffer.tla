---------------------------- MODULE TerminalBuffer ----------------------------
(***************************************************************************)
(* The buffer of an SSH terminal (data_context/terminal/buffer.rs): output *)
(* is parsed into the grid of the terminal library, a frame is made of the *)
(* visible lines by reusing the lines of the last frame that the library   *)
(* does not report as damaged, and a program reads the whole history page  *)
(* by page.                                                                *)
(*                                                                         *)
(* The grid is external: of it there is what the code reads, the lines     *)
(* with their history, the cursor, the place the view is scrolled to and   *)
(* the damage since the last frame.  A line's text is one of Texts.        *)
(* Resizing, which reflows the grid and damages all of it, is left out.    *)
(***************************************************************************)
EXTENDS Integers, Sequences, FiniteSets

CONSTANTS Texts,        \* what a line can hold, beside being Blank
          Blank,        \* an empty line
          Rows,         \* the lines of the screen
          Scrollback,   \* MAX_SCROLLBACK_LINES
          Tracked,      \* MAX_TRACKED_LINE_METADATA
          MaxLines      \* BOUND: how many lines are begun

VARIABLES
  grid,         \* the library's grid: lines, cursor row, scrolled offset
  saved,        \* the main grid while the alternate screen is shown, or None
  damage,       \* the screen rows changed since the last frame, or All
  current,      \* current_line_number
  first,        \* first_tracked_line_number
  stamps,       \* line_timestamps
  frame,        \* the last frame, or None
  fresh,        \* nothing has changed since the last frame
  begun         \* when each line was begun: of the world, not of the code

bufferVars == <<grid, saved, damage, current, first, stamps, frame, fresh, begun>>

None == <<>>
All  == {0}     \* no row: TermDamage::Full

Smaller(m, n) == IF m < n THEN m ELSE n

EmptyLine == [text |-> Blank, wrapped |-> FALSE]
EmptyGrid == [lines |-> [i \in 1..Rows |-> EmptyLine], cursor |-> 1, offset |-> 0]

History(g) == Len(g.lines) - Rows

Init ==
  /\ grid = EmptyGrid
  /\ saved = None
  /\ damage = All
  /\ current = 1 /\ first = 1
  /\ stamps = <<>>
  /\ frame = None
  /\ fresh = FALSE
  /\ begun = <<>>

-----------------------------------------------------------------------------
(* The library: what one control does to the grid, and which rows of the   *)
(* screen it damages.                                                      *)

(* One row down; below the last row the screen scrolls, the oldest line is *)
(* given up when the history is full, and a scrolled view stays in place.  *)
Down(g, limit) ==
  IF g.cursor < Rows THEN [g EXCEPT !.cursor = @ + 1]
  ELSE LET all == Append(g.lines, EmptyLine)
       IN [g EXCEPT
             !.lines  = IF Len(all) > limit + Rows THEN Tail(all) ELSE all,
             !.offset = IF @ = 0 THEN 0 ELSE Smaller(@ + 1, limit)]

Here(g) == History(g) + g.cursor

AfterControl(g, control, limit) ==
  CASE control = "newline" -> Down(g, limit)
    [] control = "wrap"    -> Down([g EXCEPT !.lines[Here(g)].wrapped = TRUE], limit)
    [] control = "up"      -> [g EXCEPT !.cursor = IF @ > 1 THEN @ - 1 ELSE 1]
    [] control \in Texts   -> [g EXCEPT !.lines[Here(g)].text = control]

DamageOf(g, control) ==
  CASE control \in {"newline", "wrap"} ->
         IF g.cursor < Rows THEN {g.cursor, g.cursor + 1} ELSE All
    [] control = "up"    -> {g.cursor, g.cursor - 1} \ {0}
    [] control \in Texts -> {g.cursor}

Damaged(old, new) == IF All \in {old, new} THEN All ELSE old \cup new

Controls == Texts \cup {"newline", "wrap", "up"}

-----------------------------------------------------------------------------
(* process: the bytes reach the library first; then every newline among    *)
(* them is counted and stamped with the time, the oldest stamp making room *)
(* when too many are kept.  Nothing is counted for bytes that begin or end *)
(* on the alternate screen.  A piece of output is one control here; time   *)
(* is the number of lines begun so far.                                    *)

Now == Len(begun) + 1

Stamped(list, newline) ==
  LET started == IF list = <<>> THEN <<Now>> ELSE list
  IN IF newline THEN Append(started, Now) ELSE started

Count(newline) ==
  LET list == Stamped(stamps, newline)
      full == Len(list) > Tracked
  IN /\ stamps'  = IF full THEN Tail(list) ELSE list
     /\ first'   = IF full THEN first + 1 ELSE first
     /\ current' = IF newline THEN current + 1 ELSE current
     /\ begun'   = Stamped(begun, newline)

Process(control) ==
  /\ (control = "newline" => Len(begun) < MaxLines)
  /\ grid' = AfterControl(grid, control, IF saved = None THEN Scrollback ELSE 0)
  /\ damage' = Damaged(damage, DamageOf(grid, control))
  /\ IF saved = None
     THEN Count(control = "newline")
     ELSE UNCHANGED <<current, first, stamps, begun>>
  /\ fresh' = FALSE
  /\ UNCHANGED <<saved, frame>>

SwitchScreen ==
  /\ IF saved = None
     THEN saved' = grid /\ grid' = EmptyGrid
     ELSE saved' = None /\ grid' = saved
  /\ damage' = All
  /\ fresh' = FALSE
  /\ UNCHANGED <<current, first, stamps, frame, begun>>

(* scroll and scroll_to: the library keeps the offset within the history,  *)
(* and damages everything when the view has moved.                         *)
ScrollTo(offset) ==
  LET to == Smaller(offset, History(grid))
  IN /\ to # grid.offset
     /\ grid' = [grid EXCEPT !.offset = to]
     /\ damage' = All
     /\ fresh' = FALSE
     /\ UNCHANGED <<saved, current, first, stamps, frame, begun>>

-----------------------------------------------------------------------------
(* line_at_row: the text, and the number the line is given by counting     *)
(* from the cursor's, with its time if that number is still tracked.       *)
Line(index) ==
  LET number  == current + index - grid.offset - grid.cursor
      tracked == saved = None /\ number > 0 /\ number - first + 1 \in DOMAIN stamps
      line    == grid.lines[History(grid) - grid.offset + index]
  IN [text |-> line.text, wrapped |-> line.wrapped,
      number |-> IF tracked THEN number ELSE 0,
      time |-> IF tracked THEN stamps[number - first + 1] ELSE 0]

(* The damage the library reports is of the rows as they are shown.        *)
ShownDamage == {row + grid.offset : row \in damage} \cap 1..Rows

(* Mutant: full damage is taken for the empty report.                      *)
RebuildUnlessMoved ==
  \/ frame = None
  \/ frame.history # History(grid)
  \/ frame.offset # grid.offset

(* Damage of the whole screen is reported without its rows.                *)
RebuildAll ==
  \/ frame = None
  \/ frame.history # History(grid)
  \/ frame.offset # grid.offset
  \/ damage = All

Changed == IF RebuildAll THEN 1..Rows ELSE IF damage = All THEN {} ELSE ShownDamage

(* terminal_cursor: none while the view is scrolled back.                  *)
Cursor == IF grid.offset # 0 THEN 0 ELSE grid.cursor

MakeFrame ==
  /\ ~fresh
  /\ frame' = [lines   |-> [i \in 1..Rows |-> IF i \in Changed THEN Line(i)
                                              ELSE frame.lines[i]],
               history |-> History(grid),
               offset  |-> grid.offset,
               cursor  |-> Cursor]
  /\ damage' = {}
  /\ fresh' = TRUE
  /\ UNCHANGED <<grid, saved, current, first, stamps, begun>>

(* read_text: `limit` lines that end `offset` lines before the last one.   *)
Piece(line) == <<line.text>> \o (IF line.wrapped THEN <<>> ELSE <<"newline">>)

Joined(lines) ==
  LET join[n \in 0..Len(lines)] == IF n = 0 THEN <<>> ELSE join[n - 1] \o Piece(lines[n])
  IN join[Len(lines)]

Above(m, n) == IF m > n THEN m - n ELSE 0

(* Mutant: the page ends one line further up.                              *)
PageOffByOne(offset, limit) ==
  LET total == Len(grid.lines)
      at    == Smaller(offset, total)
      end   == Above(total - at, 1)
      start == Above(end, limit)
  IN [text |-> Joined(SubSeq(grid.lines, start + 1, end)),
      limit |-> end - start, offset |-> at, hasMore |-> start > 0]

(* The page ends above the line the offset counts to.                      *)
Page(offset, limit) ==
  LET total == Len(grid.lines)
      at    == Smaller(offset, total)
      end   == total - at
      start == Above(end, limit)
  IN [text |-> Joined(SubSeq(grid.lines, start + 1, end)),
      limit |-> end - start, offset |-> at, hasMore |-> start > 0]

-----------------------------------------------------------------------------
Next ==
  \/ \E control \in Controls : Process(control)
  \/ SwitchScreen
  \/ \E offset \in 0..Scrollback : ScrollTo(offset)
  \/ MakeFrame

Spec == Init /\ [][Next]_bufferVars

-----------------------------------------------------------------------------
TypeOK ==
  /\ Len(grid.lines) \in Rows..(Rows + Scrollback)
  /\ grid.cursor \in 1..Rows /\ grid.offset \in 0..History(grid)
  /\ Len(stamps) <= Tracked
  /\ frame # None => Len(frame.lines) = Rows

(* A new frame shows the text of the lines on the screen and the cursor,   *)
(* whatever lines of the last frame it reuses: a scroll of a full history, *)
(* which changes neither the size nor the offset, included.  A line shown  *)
(* with a number shows the time that line was begun, also when the oldest  *)
(* times have been given up.                                               *)
FrameIsTheScreen ==
  fresh =>
    /\ \A i \in 1..Rows : LET line == frame.lines[i]
                          IN /\ line.text = Line(i).text /\ line.wrapped = Line(i).wrapped
                             /\ line.number # 0 => line.time = begun[line.number]
    /\ frame.cursor = Cursor

(* A program that asks for page after page, each offset past the lines it  *)
(* was given, until there are no more, has read every line once: for any   *)
(* size of page.                                                           *)
PagesMakeTheHistory ==
  \A limit \in 1..(Rows + 1) :
    LET read[n \in 0..Len(grid.lines)] ==
          LET page == Page(n, limit)
          IN IF page.hasMore THEN read[n + page.limit] \o page.text ELSE page.text
    IN read[0] = Joined(grid.lines)
=============================================================================
