--------------------------- MODULE TerminalSelection ---------------------------
(***************************************************************************)
(* What the terminal view computes (gui/workspace/ssh/internal.rs): the    *)
(* text a drag of the mouse selects, the part of each line drawn as        *)
(* selected and the text copied, the character nearest to a click, and the *)
(* scroll bar.                                                             *)
(*                                                                         *)
(* A frame shows lines of the terminal from row `history - offset` on.  A  *)
(* line is a sequence of characters; of a character there is its width (0, *)
(* 1 or 2 columns) and its style.  A point is <<row, column>>, from 0.     *)
(* Fractions of the scroll bar's height are exact.                         *)
(***************************************************************************)
EXTENDS Integers, Sequences, SequencesExt

Nothing == <<>>         \* no selection, no origin

NewLine == [width |-> 0, style |-> 0]    \* in copied text

Above(m, n) == IF m > n THEN m - n ELSE 0

-----------------------------------------------------------------------------
(* Points and selections.                                                  *)

NotAfter(p, q) == p[1] < q[1] \/ (p[1] = q[1] /\ p[2] <= q[2])

From(selection) == IF NotAfter(selection.anchor, selection.head)
                   THEN selection.anchor ELSE selection.head
To(selection)   == IF NotAfter(selection.anchor, selection.head)
                   THEN selection.head ELSE selection.anchor

Covers(selection, point) ==
  NotAfter(From(selection), point) /\ NotAfter(point, To(selection))

StartRow(frame) == Above(frame.history, frame.offset)

BufferPoint(frame, point) == <<StartRow(frame) + point[1], point[2]>>

-----------------------------------------------------------------------------
(* A drag: the button goes down at a point, the first move to another      *)
(* point makes the selection, of the frame shown then, and each later move *)
(* changes its head.  A step is a frame and a point of the view.           *)

Begin(step) == [origin |-> BufferPoint(step.frame, step.point), selection |-> Nothing]

Extend(state, step) ==
  LET point == BufferPoint(step.frame, step.point)
  IN IF state.selection # Nothing
     THEN [state EXCEPT !.selection.head = point]
     ELSE IF state.origin = point THEN state
     ELSE [state EXCEPT !.selection = [anchor |-> state.origin, head |-> point,
                                       frame |-> step.frame]]

Dragged(steps) ==
  LET state[n \in 1..Len(steps)] ==
        IF n = 1 THEN Begin(steps[1]) ELSE Extend(state[n - 1], steps[n])
  IN state[Len(steps)].selection

-----------------------------------------------------------------------------
(* The column at which each character of a line starts.                    *)
Columns(line) ==
  LET at[i \in 1..(Len(line.chars) + 1)] ==
        IF i = 1 THEN 0 ELSE at[i - 1] + line.chars[i - 1].width
  IN at

Selected(line, row, selection, i) ==
  /\ selection # Nothing
  /\ row \in From(selection)[1]..To(selection)[1]
  /\ Covers(selection, <<row, Columns(line)[i]>>)

(* A character goes to the last fragment when it looks like it.            *)
Added(fragments, char, selected) ==
  IF /\ fragments # <<>>
     /\ Last(fragments).style = char.style
     /\ Last(fragments).selected = selected
  THEN [fragments EXCEPT ![Len(fragments)].chars = Append(@, char)]
  ELSE Append(fragments, [chars |-> <<char>>, style |-> char.style, selected |-> selected])

(* selected_fragments: the line cut where the style or the selection       *)
(* changes; a fragment is its characters and whether it is selected.       *)
Fragments(line, row, selection) ==
  LET made[n \in 0..Len(line.chars)] ==
        IF n = 0 THEN <<>>
        ELSE Added(made[n - 1], line.chars[n], Selected(line, row, selection, n))
  IN made[Len(line.chars)]

(* Mutant: the row of a line is counted in the view.                       *)
RowOfView(frame, index) == index

(* The row of a line is counted from the start of the terminal.            *)
RowOf(frame, index) == index + StartRow(frame)

(* selected_text: the lines of the selection's frame within its rows, with *)
(* a new line after each one but the last that does not continue in the    *)
(* next.                                                                   *)
SelectedText(selection) ==
  LET frame == selection.frame
      start == Above(From(selection)[1], StartRow(frame))
      end   == LET last == Above(To(selection)[1], StartRow(frame))
               IN IF last < Len(frame.lines) THEN last ELSE Len(frame.lines) - 1
      kept(line, row) ==
        [i \in DOMAIN line.chars |->
           IF Covers(selection, <<row, Columns(line)[i]>>) THEN <<line.chars[i]>> ELSE <<>>]
      piece(index) ==
        LET line == frame.lines[index + 1]
        IN FlattenSeq(kept(line, RowOf(frame, index)))
             \o (IF index < end /\ ~line.wrapped THEN <<NewLine>> ELSE <<>>)
  IN FlattenSeq([n \in 1..Above(end + 1, start) |-> piece(start + n - 1)])

(* nearest_character_column: the character a click falls on, or the last   *)
(* column of the line.                                                     *)
Nearest(line, target) ==
  LET hit == {i \in DOMAIN line.chars :
                /\ line.chars[i].width > 0
                /\ target < Columns(line)[i] + line.chars[i].width}
  IN IF hit = {} THEN Above(Columns(line)[Len(line.chars) + 1], 1)
     ELSE Columns(line)[CHOOSE i \in hit : \A j \in hit : i <= j]

-----------------------------------------------------------------------------
(* The scroll bar of a terminal of `history` lines above `rows` visible    *)
(* ones, scrolled back by `offset`.  Its length is divided into Unit       *)
(* parts; the thumb has at least 8 % of it.                                *)

Larger(m, n) == IF m > n THEN m ELSE n
Clamp(x, low, high) == IF x < low THEN low ELSE IF x > high THEN high ELSE x

Unit(history, rows) == 200 * (history + rows) * Larger(history, 1)

ThumbSize(history, rows) ==
  IF history = 0 THEN Unit(history, rows)
  ELSE 2 * history * Larger(100 * rows, 8 * (history + rows))

Free(history, rows) == Unit(history, rows) - ThumbSize(history, rows)

ThumbTop(history, rows, offset) ==
  IF history = 0 THEN 0
  ELSE (Above(history, offset) * Free(history, rows)) \div history

(* Mutant: the pointer is where the top of the thumb should be.            *)
ScrolledByThumbTop(history, rows, pointer) ==
  LET free  == Larger(Free(history, rows), 1)
      part  == Clamp(pointer, 0, free)
      lines == (2 * part * history + free) \div (2 * free)
  IN Above(history, lines)

(* The line the pointer stands for: the pointer is where the middle of the *)
(* thumb should be.  The nearest whole line is taken.                      *)
Scrolled(history, rows, pointer) ==
  LET free  == Larger(Free(history, rows), 1)
      part  == Clamp(pointer - ThumbSize(history, rows) \div 2, 0, free)
      lines == (2 * part * history + free) \div (2 * free)
  IN Above(history, lines)

-----------------------------------------------------------------------------
(* What is copied is what is drawn as selected in the frame the selection  *)
(* was made in, whichever way the mouse was dragged, through wide and      *)
(* combining characters and over wrapped lines, with a new line between    *)
(* lines of the selection that do not continue one another; and no         *)
(* character of a line is lost or drawn twice by cutting it into fragments.*)
CopyIsTheHighlight(steps) ==
  LET selection == Dragged(steps)
      frame == selection.frame
      row(i) == StartRow(frame) + i - 1
      drawn(i) == Fragments(frame.lines[i], row(i), selection)
      highlighted(i) ==
        [n \in DOMAIN drawn(i) |-> IF drawn(i)[n].selected THEN drawn(i)[n].chars ELSE <<>>]
      broken(i) == /\ i < Len(frame.lines) /\ ~frame.lines[i].wrapped
                   /\ From(selection)[1] <= row(i) /\ row(i) < To(selection)[1]
      copied(i) == FlattenSeq(highlighted(i)) \o (IF broken(i) THEN <<NewLine>> ELSE <<>>)
  IN selection # Nothing =>
       /\ \A i \in DOMAIN frame.lines :
            FlattenSeq([n \in DOMAIN drawn(i) |-> drawn(i)[n].chars]) = frame.lines[i].chars
       /\ SelectedText(selection) = FlattenSeq([i \in DOMAIN frame.lines |-> copied(i)])

(* A click answers a column within the line: the start of the character    *)
(* under it when there is one.                                             *)
ClickIsOnACharacter(line, target) ==
  LET column == Nearest(line, target)
      width  == Columns(line)[Len(line.chars) + 1]
      under(i) == /\ Columns(line)[i] <= target
                  /\ target < Columns(line)[i] + line.chars[i].width
  IN /\ width > 0 => column < width
     /\ \A i \in DOMAIN line.chars : under(i) => column = Columns(line)[i]

(* Pressing the middle of the thumb leaves the terminal where it is, the   *)
(* ends of the bar reach the first and the last line, and further down is  *)
(* never further back.                                                     *)
ThumbStaysUnderThePointer(history, rows, offset) ==
  LET middle == ThumbTop(history, rows, offset) + ThumbSize(history, rows) \div 2
      whole  == Unit(history, rows)
  IN /\ Scrolled(history, rows, middle) = offset
     /\ Scrolled(history, rows, 0) = history
     /\ history > 0 => Scrolled(history, rows, whole) = 0
     /\ \A k \in 0..9 : Scrolled(history, rows, (k * whole) \div 10)
                          >= Scrolled(history, rows, ((k + 1) * whole) \div 10)
=============================================================================
