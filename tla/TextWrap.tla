----------------------------- MODULE TextWrap -----------------------------
(***************************************************************************)
(* render_wrapped_lines_to: the message a user sees whose kernel refuses   *)
(* the application the game's memory, broken into rows for any terminal.   *)
(*                                                                         *)
(* A character is whitespace or not.  A row is the part of a line it was   *)
(* cut from: its characters are those at offsets from to to - 1 (insert_   *)
(* trimmed then drops the whitespace at both ends).  One step is one round *)
(* of a loop, so that what a round does not advance would show.            *)
(***************************************************************************)
EXTENDS Integers, Sequences, SequencesExt

CONSTANTS
    Texts,   \* vectors of lines, a line a sequence of characters
    Widths,  \* max_width
    Heights, \* max_height
    Chars,   \* characters
    Space    \* the whitespace among them

\* The one caller's lines are not empty (ProcessWatcher.cpp, k_perm_fail).
ASSUME TextsAssumption ==
    /\ Texts \subseteq Seq(Seq(Chars))
    /\ \A t \in Texts : \A l \in 1 .. Len(t) : t[l] # <<>>
ASSUME SizesAssumption == Widths \subseteq Nat /\ Heights \subseteq Nat

VARIABLES
    pc,     \* the loop that is running, or how it ended
    text, max_width, max_height,
    line,   \* itr: the lines not yet begun are 1 .. line
    last,   \* jtr_last
    jtr,
    old_size,
    rows    \* display_lines

vars == <<pc, text, max_width, max_height, line, last, jtr, old_size, rows>>
input == <<text, max_width, max_height>>

----------------------------------------------------------------------------

\* The end of the current line, and its character at an offset.
End == Len(text[line])
IsSpace(l, offset) == text[l][offset + 1] = Space

\* Mutant: one character more.
constrain_offset_wide(from, offset, end) ==
    IF offset + 1 > end - from THEN end ELSE from + offset + 1

constrain_offset(from, offset, end) ==
    IF offset > end - from THEN end ELSE from + offset

\* The last whitespace at or before jtr, in this row; else the end.
find_last_ws_from(from, at) ==
    LET spaces == {o \in from .. at : IsSpace(line, o)}
    IN  IF spaces = {} THEN End
        ELSE CHOOSE o \in spaces : \A p \in spaces : p <= o

\* Where a row ends that does not hold the rest of the line.
Break(from, at) ==
    LET gv == find_last_ws_from(from, at)
        after == IF gv # End THEN gv + 1 ELSE gv
    IN  IF after = End THEN at ELSE after

Row(from, to) == [line |-> line, from |-> from, to |-> to]

----------------------------------------------------------------------------

\* Mutant: a terminal of no width is not sent away.
InitAnyWidth ==
    /\ text \in Texts /\ max_width \in Widths /\ max_height \in Heights
    /\ pc = IF max_height = 0 THEN "done" ELSE "lines"
    /\ line = Len(text)
    /\ last = 0 /\ jtr = 0 /\ old_size = 0
    /\ rows = <<>>

Init ==
    /\ text \in Texts /\ max_width \in Widths /\ max_height \in Heights
    /\ pc = IF max_height = 0 \/ max_width = 0 THEN "done" ELSE "lines"
    /\ line = Len(text)
    /\ last = 0 /\ jtr = 0 /\ old_size = 0
    /\ rows = <<>>

\* The for loop, from the last line to the first.
NextLine ==
    /\ pc = "lines"
    /\ line > 0 /\ Len(rows) <= max_height
    /\ old_size' = Len(rows)
    /\ last' = 0
    /\ jtr' = constrain_offset(0, max_width, End)
    /\ pc' = "rows"
    /\ UNCHANGED <<input, line, rows>>

\* insert_trimmed asserts that the row is not empty.
Insert(from, to, then) ==
    IF from < to THEN rows' = Append(rows, Row(from, to)) /\ pc' = then
    ELSE rows' = rows /\ pc' = "aborted"

\* Mutant: the rows of a line are left in the order they were cut.
LastRowUnturned ==
    /\ pc = "rows" /\ jtr = End
    /\ rows' = Append(rows, Row(last, jtr))
    /\ pc' = IF last < jtr THEN "lines" ELSE "aborted"
    /\ line' = line - 1
    /\ UNCHANGED <<input, last, jtr, old_size>>

\* The rest of the line fits; the rows of this line are turned around.
LastRow ==
    /\ pc = "rows" /\ jtr = End
    /\ IF last < jtr
       THEN /\ rows' = SubSeq(rows, 1, old_size)
                       \o <<Row(last, jtr)>>
                       \o Reverse(SubSeq(rows, old_size + 1, Len(rows)))
            /\ pc' = "lines"
       ELSE rows' = rows /\ pc' = "aborted"
    /\ line' = line - 1
    /\ UNCHANGED <<input, last, jtr, old_size>>

\* Mutant: the next row begins where this one did.
BreakRowStuck ==
    /\ pc = "rows" /\ jtr # End
    /\ Insert(last, Break(last, jtr), "rows")
    /\ jtr' = constrain_offset(Break(last, jtr), max_width, End)
    /\ UNCHANGED <<input, line, last, old_size>>

\* Mutant: the end of the line is not looked at.
BreakRowUnbounded ==
    /\ pc = "rows" /\ jtr # End
    /\ Insert(last, Break(last, jtr), "rows")
    /\ last' = Break(last, jtr)
    /\ jtr' = last' + max_width
    /\ UNCHANGED <<input, line, old_size>>

BreakRow ==
    /\ pc = "rows" /\ jtr # End
    /\ Insert(last, Break(last, jtr), "rows")
    /\ last' = Break(last, jtr)
    /\ jtr' = constrain_offset(last', max_width, End)
    /\ UNCHANGED <<input, line, old_size>>

\* Mutant: one row less than there is room for.
CutShort ==
    /\ pc = "lines"
    /\ line = 0 \/ Len(rows) > max_height
    /\ rows' = SubSeq(Reverse(rows), 1,
                      constrain_offset(0, max_height - 1, Len(rows)))
    /\ pc' = "done"
    /\ UNCHANGED <<input, line, last, jtr, old_size>>

\* The rows are turned around, and the lowest cut that have no room.
Cut ==
    /\ pc = "lines"
    /\ line = 0 \/ Len(rows) > max_height
    /\ rows' = SubSeq(Reverse(rows), 1,
                      constrain_offset(0, max_height, Len(rows)))
    /\ pc' = "done"
    /\ UNCHANGED <<input, line, last, jtr, old_size>>

Next == NextLine \/ LastRow \/ BreakRow \/ Cut

Spec == Init /\ [][Next]_vars

----------------------------------------------------------------------------
(* What is to hold.                                                        *)

\* Every variable has its type; an iterator never leaves its line.
TypeOK ==
    /\ pc \in {"lines", "rows", "done", "aborted"}
    /\ text \in Texts /\ max_width \in Widths /\ max_height \in Heights
    /\ line \in 0 .. Len(text)
    /\ last \in Nat /\ jtr \in Nat /\ old_size \in 0 .. Len(rows)
    /\ pc = "rows" => line > 0 /\ last <= jtr /\ jtr <= End
    /\ rows \in Seq([line : 1 .. Len(text), from : Nat, to : Nat])

\* No assertion of the function or of its helpers fails, whatever the lines and
\* the terminal: no row is cut that has no character.
NoEmptyRow == pc # "aborted"

\* What is left of a row when its ends are trimmed fits the terminal, although
\* the row may take in the whitespace after its last column.
FitsWidth ==
    \A i \in 1 .. Len(rows) :
        \A o, p \in rows[i].from .. rows[i].to - 1 :
            ~IsSpace(rows[i].line, o) /\ ~IsSpace(rows[i].line, p) =>
                p - o < max_width

Follows(r, s) ==
    \/ s.line = r.line /\ s.from = r.to
    \/ s.line = r.line + 1 /\ s.from = 0 /\ r.to = Len(text[r.line])

\* What is shown is one part of the message, in order, with nothing left out
\* of it and nothing shown twice; it begins with the beginning of a line.
InOrder ==
    pc = "done" =>
        /\ \A i \in 1 .. Len(rows) - 1 : Follows(rows[i], rows[i + 1])
        /\ rows # <<>> => rows[1].from = 0

\* It fits the terminal, and is cut only where there is no room: as long as a
\* row is free, the whole message is shown.
WholeIfRoom ==
    pc = "done" =>
        /\ Len(rows) <= max_height
        /\ Len(rows) < max_height /\ max_width > 0 /\ text # <<>> =>
               /\ rows # <<>>
               /\ rows[1].line = 1
               /\ LET lowest == rows[Len(rows)]
                  IN  lowest.line = Len(text) /\ lowest.to = Len(text[lowest.line])

\* What the user reads of the message: nothing missing between two rows, and
\* nothing before the first or after the last while a row is free.
MessageShown == InOrder /\ WholeIfRoom

\* Every round of the inner loop takes something of the line, so that a resize
\* of the terminal never hangs the application.
Advances == [][pc = "rows" /\ pc' = "rows" => last < last']_vars

=============================================================================
