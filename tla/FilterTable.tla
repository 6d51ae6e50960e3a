---------------------------- MODULE FilterTable ----------------------------
(***************************************************************************)
(* The table of BooksFilterViewController: one row for each grade, at most *)
(* one of them selected, tapping the selected row takes the selection      *)
(* back.  The controller keeps its own idea of the selected row next to    *)
(* the table's, and ticks the cells by hand; only rows on the screen have  *)
(* a cell, and a row that is scrolled into view gets a newly made one.     *)
(*                                                                         *)
(* UITableView is external: in a tap on a row it first deselects the row   *)
(* that was selected, unless it is the same (didDeselectRowAt), then       *)
(* selects the new one (didSelectRowAt); selectRow calls neither.          *)
(* A definition with an underscore in its name is a deliberately wrong     *)
(* variant of the one below it, which no specification uses: see README.   *)
(***************************************************************************)
EXTENDS Integers, Sequences

CONSTANTS
    Grades,         \* what Book.grade can be: a number, -1 when unreadable
    NoGrade,        \* nil
    Window          \* rows that fit on the screen

ASSUME FilterConstants ==
    /\ Grades \subseteq Int
    /\ NoGrade \notin Grades
    /\ Window \in Nat \ {0}

VARIABLES
    grades,         \* the rows
    initialGrade,   \* the controller's filterGrade: never changes after prepare
    previous,       \* the row of previouslySelectedIndexPath, 0 if nil
    selected,       \* the row of indexPathForSelectedRow, 0 if nil
    displayed,      \* rows that have a cell
    ticked,         \* rows whose cell has a checkmark
    appeared        \* viewDidAppear has run, the transition is over

table == <<grades, initialGrade, previous, selected, displayed, ticked, appeared>>

\* What can be on the screen at once: Window rows on end, or all if fewer.
Windows(n) ==
    IF n <= Window THEN {1 .. n} ELSE {k .. k + Window - 1 : k \in 1 .. n - Window + 1}

\* cellForRowAt ticks the row of the grade the filter was opened with.
CellTicked(row) == grades[row] = initialGrade

TableInit ==
    /\ grades = <<>>
    /\ initialGrade = NoGrade
    /\ previous = 0
    /\ selected = 0
    /\ displayed = {}
    /\ ticked = {}
    /\ appeared = FALSE

\* A new controller with its first cells.
Present(rows, grade) ==
    /\ grades' = rows
    /\ initialGrade' = grade
    /\ previous' = 0
    /\ selected' = 0
    /\ displayed' \in Windows(Len(rows))
    /\ 1 \in displayed' \/ rows = <<>>
    /\ ticked' = {row \in displayed' : rows[row] = grade}
    /\ appeared' = FALSE

\* viewDidAppear selects the row of the grade the filter was opened with, and
\* leaves the checkmarks.  It runs again when a swipe that would have dismissed
\* the sheet is taken back, whatever has been tapped since.
Appear ==
    /\ appeared' = TRUE
    /\ \/ \E row \in DOMAIN grades :
            /\ CellTicked(row)
            /\ previous' = row
            /\ selected' = row
       \/ /\ \A row \in DOMAIN grades : ~CellTicked(row)
          /\ UNCHANGED <<previous, selected>>
    /\ UNCHANGED <<grades, initialGrade, displayed, ticked>>

\* Variant of DidSelect that does not reset previouslySelectedIndexPath.
DidSelect_KeepsPrevious(row, marks) ==
    IF previous = row
    THEN selected' = 0 /\ ticked' = marks \ {row} /\ UNCHANGED previous
    ELSE selected' = row /\ ticked' = marks \cup {row} /\ previous' = row

\* Variant of DidSelect that turns the checkmark of the cell over.
DidSelect_Toggles(row, marks) ==
    /\ IF previous = row THEN previous' = 0 /\ selected' = 0
                         ELSE previous' = row /\ selected' = row
    /\ ticked' = IF row \in marks THEN marks \ {row} ELSE marks \cup {row}

\* didSelectRowAt, with the checkmarks that didDeselectRowAt left.
DidSelect(row, marks) ==
    IF previous = row
    THEN previous' = 0   /\ selected' = 0   /\ ticked' = marks \ {row}
    ELSE previous' = row /\ selected' = row /\ ticked' = marks \cup {row}

\* didDeselectRowAt: a row without a cell has no checkmark to take away.
DidDeselect(row) == ticked \ {row}

TapRow(row) ==
    /\ appeared
    /\ row \in displayed
    /\ DidSelect(row, IF selected \in {0, row} THEN ticked ELSE DidDeselect(selected))
    /\ UNCHANGED <<grades, initialGrade, displayed, appeared>>

\* Rows leave the screen, others get a cell.
Scroll ==
    /\ appeared
    /\ displayed' \in Windows(Len(grades))
    /\ ticked' = (ticked \cap displayed')
                   \cup {row \in displayed' \ displayed : CellTicked(row)}
    /\ UNCHANGED <<grades, initialGrade, previous, selected, appeared>>

\* What doneButtonTapped hands to gradeSelected.
ChosenGrade == IF selected = 0 THEN NoGrade ELSE grades[selected]

-----------------------------------------------------------------------------
\* The controller's idea of the selected row is the table's: otherwise a tap
\* would select a row that looks deselected, or take back what is not there.
SelectionInStep == previous = selected
=============================================================================
