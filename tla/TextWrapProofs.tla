-------------------------- MODULE TextWrapProofs --------------------------
(***************************************************************************)
(* The wrapping of a message on any terminal: no assertion fails, every    *)
(* row fits the width, every round of the loop advances, and what is shown *)
(* is one part of the message in its order, cut only where there is no     *)
(* room, for lines and sizes of any length.                                *)
(***************************************************************************)
EXTENDS TextWrap, SequenceTheorems, WellFoundedInduction, TLAPS

\* The rows that fit a terminal of width w once their ends are trimmed.
Fits(t, w, r) ==
    \A o, p \in r.from .. r.to - 1 :
        t[r.line][o + 1] # Space /\ t[r.line][p + 1] # Space => p - o < w

FittingRows(t, w) ==
    {r \in [line : 1 .. Len(t), from : Nat, to : Nat] : Fits(t, w, r)}

\* What is true between two rounds: the row under the iterators has a
\* character and ends where the width or the line does.
WrapInv ==
    /\ pc \in {"lines", "rows", "done"}
    /\ text \in Texts /\ max_width \in Widths /\ max_height \in Heights
    /\ line \in 0 .. Len(text)
    /\ last \in Nat /\ jtr \in Nat
    /\ old_size \in 0 .. Len(rows) /\ old_size <= max_height
    /\ rows \in Seq(FittingRows(text, max_width))
    /\ pc # "done" => max_width > 0
    /\ pc = "rows" => /\ line > 0
                      /\ last < End
                      /\ jtr = constrain_offset(last, max_width, End)

\* Lines are sequences with at least one character.
LEMMA LineLength ==
    ASSUME NEW t \in Texts
    PROVE  /\ Len(t) \in Nat
           /\ \A l \in 1 .. Len(t) : Len(t[l]) \in Nat /\ Len(t[l]) > 0
<1>1. t \in Seq(Seq(Chars))
  BY TextsAssumption
<1>2. ASSUME NEW l \in 1 .. Len(t)
      PROVE  Len(t[l]) \in Nat /\ Len(t[l]) > 0
  <2>1. t[l] \in Seq(Chars) /\ t[l] # <<>>
    BY <1>1, TextsAssumption
  <2> QED BY <2>1
<1> QED BY <1>1, <1>2

\* constrain_offset stays in the line and goes no further than asked.
LEMMA ConstrainedRange ==
    ASSUME NEW from, NEW offset, NEW end,
           from \in Nat, offset \in Nat, end \in Nat, from <= end
    PROVE  /\ constrain_offset(from, offset, end) \in from .. end
           /\ constrain_offset(from, offset, end) <= from + offset
           /\ constrain_offset(from, offset, end) # end
                => constrain_offset(from, offset, end) = from + offset
BY DEF constrain_offset

\* The whitespace find_last_ws_from finds is one, and in the row.
LEMMA FoundSpace ==
    ASSUME NEW from \in Nat, NEW at \in Nat, find_last_ws_from(from, at) # End
    PROVE  /\ find_last_ws_from(from, at) \in from .. at
           /\ text[line][find_last_ws_from(from, at) + 1] = Space
<1> DEFINE spaces == {o \in from .. at : IsSpace(line, o)}
<1>1. spaces # {}
  BY DEF find_last_ws_from
<1>2. \E o \in spaces : \A p \in spaces : p <= o
  <2> DEFINE back == {at - o : o \in spaces}
  <2>1. back \subseteq Nat /\ back # {}
    BY <1>1
  <2>2. PICK least \in back : \A b \in back : ~(<<b, least>> \in OpToRel(<, Nat))
    BY <2>1, NatLessThanWellFounded, WFMin
  <2>3. \A b \in back : ~(b < least)
    BY <2>1, <2>2, Zenon DEF OpToRel
  <2>4. PICK o \in spaces : least = at - o
    BY <2>2
  <2>5. ASSUME NEW s \in spaces PROVE s <= o
    <3>1. ~(at - s < at - o)
      BY <2>3, <2>4
    <3> QED BY <3>1
  <2> QED BY <2>5
<1> QED BY <1>1, <1>2 DEF find_last_ws_from, IsSpace

\* A row that is broken off has a character, leaves one, and has no more than
\* the width's when the whitespace it is broken at is left out.
LEMMA BreakRange ==
    ASSUME NEW w, NEW from, NEW at, w \in Nat, from \in Nat, at \in Nat,
           from < at, at < End, at <= from + w, End \in Nat
    PROVE  /\ Break(from, at) \in Nat
           /\ from < Break(from, at) /\ Break(from, at) < End
           /\ \A o \in from .. Break(from, at) - 1 :
                  text[line][o + 1] # Space => o < from + w
<1> DEFINE gv == find_last_ws_from(from, at)
<1>1. CASE gv = End \/ gv + 1 = End
  <2>1. Break(from, at) = at
    BY <1>1 DEF Break
  <2> QED BY <2>1
<1>2. CASE gv # End /\ gv + 1 # End
  <2>1. gv \in from .. at /\ text[line][gv + 1] = Space
    BY <1>2, FoundSpace
  <2>2. Break(from, at) = gv + 1
    BY <1>2 DEF Break
  <2>3. gv \in Nat /\ gv + 1 < End
    BY <1>2, <2>1
  <2>4. ASSUME NEW o \in from .. gv, text[line][o + 1] # Space
        PROVE  o < from + w
    BY <2>1, <2>4
  <2> QED BY <2>1, <2>2, <2>3, <2>4
<1> QED BY <1>1, <1>2

\* Such a row fits.
LEMMA RowFits ==
    ASSUME NEW w, NEW from, NEW to, w \in Nat, from \in Nat, to \in Nat,
           line \in 1 .. Len(text),
           \A o \in from .. to - 1 : text[line][o + 1] # Space => o < from + w
    PROVE  Row(from, to) \in FittingRows(text, w)
<1>1. Row(from, to) \in [line : 1 .. Len(text), from : Nat, to : Nat]
  BY DEF Row
<1>2. ASSUME NEW o \in from .. to - 1, NEW p \in from .. to - 1,
             text[line][o + 1] # Space, text[line][p + 1] # Space
      PROVE  p - o < w
  <2>1. p < from + w /\ from <= o /\ o \in Int /\ p \in Int
    BY <1>2
  <2> QED BY <2>1
<1>3. Fits(text, w, Row(from, to))
  BY <1>2 DEF Fits, Row
<1> QED BY <1>1, <1>3 DEF FittingRows

\* What the steps do with sequences of rows.
LEMMA ReverseSeq ==
    ASSUME NEW S, NEW s \in Seq(S)
    PROVE  Reverse(s) \in Seq(S) /\ Len(Reverse(s)) = Len(s)
<1>1. Reverse(s) = [i \in 1 .. Len(s) |-> s[(Len(s) - i) + 1]]
  BY DEF Reverse
<1>2. \A i \in 1 .. Len(s) : s[(Len(s) - i) + 1] \in S
  OBVIOUS
<1>3. Reverse(s) \in [1 .. Len(s) -> S]
  BY <1>1, <1>2
<1> QED BY <1>3

LEMMA TurnedRows ==
    ASSUME NEW S, NEW s \in Seq(S), NEW r \in S, NEW n \in 0 .. Len(s)
    PROVE  /\ SubSeq(s, 1, n) \o <<r>> \o Reverse(SubSeq(s, n + 1, Len(s)))
                 \in Seq(S)
           /\ n <= Len(SubSeq(s, 1, n) \o <<r>>
                          \o Reverse(SubSeq(s, n + 1, Len(s))))
<1>1. SubSeq(s, 1, n) \in Seq(S) /\ Len(SubSeq(s, 1, n)) = n
  OBVIOUS
<1>2. SubSeq(s, n + 1, Len(s)) \in Seq(S)
  OBVIOUS
<1>3. PICK v \in Seq(S) : v = Reverse(SubSeq(s, n + 1, Len(s)))
  BY <1>2, ReverseSeq
<1>4. PICK u \in Seq(S) : u = SubSeq(s, 1, n) /\ Len(u) = n
  BY <1>1
<1>5. u \o <<r>> \o v \in Seq(S) /\ n <= Len(u \o <<r>> \o v)
  BY <1>4
<1> QED BY <1>3, <1>4, <1>5

LEMMA CutRows ==
    ASSUME NEW S, NEW s \in Seq(S), NEW h \in Nat
    PROVE  /\ SubSeq(Reverse(s), 1, constrain_offset(0, h, Len(s))) \in Seq(S)
           /\ \A n \in 0 .. Len(s) : n <= h =>
                  n <= Len(SubSeq(Reverse(s), 1, constrain_offset(0, h, Len(s))))
<1>1. Reverse(s) \in Seq(S) /\ Len(Reverse(s)) = Len(s)
  BY ReverseSeq
<1> DEFINE k == constrain_offset(0, h, Len(s))
<1>2. k \in 0 .. Len(s) /\ (k = h \/ k = Len(s))
  BY DEF constrain_offset
<1> HIDE DEF k
<1>3. PICK v \in Seq(S) : v = Reverse(s) /\ Len(v) = Len(s)
  BY <1>1
<1>4. SubSeq(v, 1, k) \in Seq(S) /\ Len(SubSeq(v, 1, k)) = k
  BY <1>2, <1>3
<1>5. SubSeq(Reverse(s), 1, constrain_offset(0, h, Len(s))) = SubSeq(v, 1, k)
  BY <1>3 DEF k
<1>6. \A n \in 0 .. Len(s) : n <= h => n <= k
  BY <1>2
<1> QED BY <1>4, <1>5, <1>6 DEF k

-----------------------------------------------------------------------------

LEMMA WrapInit == Init => WrapInv
<1> SUFFICES ASSUME Init PROVE WrapInv
  OBVIOUS
<1>1. Len(text) \in Nat /\ max_width \in Nat /\ max_height \in Nat
  BY LineLength, SizesAssumption DEF Init
<1>2. rows = <<>> /\ <<>> \in Seq(FittingRows(text, max_width))
  BY DEF Init
<1>3. Len(rows) = 0
  BY <1>2
<1> QED BY <1>1, <1>2, <1>3 DEF Init, WrapInv

\* The numbers the steps compute with.
LEMMA WrapNumbers ==
    ASSUME WrapInv
    PROVE  /\ Len(text) \in Nat /\ max_width \in Nat /\ max_height \in Nat
           /\ Len(rows) \in Nat
           /\ line > 0 => line \in 1 .. Len(text) /\ End \in Nat /\ End > 0
<1>1. /\ Len(text) \in Nat /\ max_width \in Nat /\ max_height \in Nat
      /\ line \in 0 .. Len(text) /\ Len(rows) \in Nat
  BY LineLength, SizesAssumption DEF WrapInv
<1>2. ASSUME line > 0 PROVE line \in 1 .. Len(text) /\ End \in Nat /\ End > 0
  <2>1. line \in 1 .. Len(text)
    BY <1>1, <1>2
  <2>2. Len(text[line]) \in Nat /\ Len(text[line]) > 0
    BY <2>1, LineLength DEF WrapInv
  <2> QED BY <2>1, <2>2 DEF End
<1> QED BY <1>1, <1>2

LEMMA WrapStep == WrapInv /\ [Next]_vars => WrapInv'
<1> SUFFICES ASSUME WrapInv, [Next]_vars PROVE WrapInv'
  OBVIOUS
<1>1. /\ Len(text) \in Nat /\ max_width \in Nat /\ max_height \in Nat
      /\ Len(rows) \in Nat
      /\ line > 0 => line \in 1 .. Len(text) /\ End \in Nat /\ End > 0
  BY WrapNumbers
<1>2. CASE NextLine
  <2>1. /\ End \in Nat /\ End > 0 /\ line' = line /\ text' = text
        /\ jtr' = constrain_offset(0, max_width, End)
    BY <1>1, <1>2 DEF NextLine, input
  <2>2. jtr' \in Nat
    BY <1>1, <2>1, ConstrainedRange
  <2>3. End' = End
    BY <2>1 DEF End
  <2>4. old_size' \in 0 .. Len(rows') /\ old_size' <= max_height'
    BY <1>1, <1>2 DEF NextLine, input
  <2> QED BY <1>1, <1>2, <2>1, <2>2, <2>3, <2>4 DEF NextLine, WrapInv, input
<1>3. CASE LastRow
  <2>1. /\ line \in 1 .. Len(text) /\ last < jtr /\ jtr = End
        /\ last \in Nat /\ End \in Nat
        /\ jtr = constrain_offset(last, max_width, End)
    BY <1>1, <1>3 DEF LastRow, WrapInv
  <2>2. jtr <= last + max_width
    BY <1>1, <2>1 DEF constrain_offset
  <2>3. \A o \in last .. jtr - 1 : text[line][o + 1] # Space => o < last + max_width
    <3>1. last \in Nat /\ jtr \in Nat /\ max_width \in Nat
      BY <1>1, <2>1
    <3>2. \A o \in last .. jtr - 1 : o < last + max_width
      BY <2>2, <3>1
    <3> QED BY <3>2, Zenon
  <2>4. Row(last, jtr) \in FittingRows(text, max_width)
    BY <1>1, <2>1, <2>3, RowFits DEF WrapInv
  <2>5. /\ rows' = SubSeq(rows, 1, old_size) \o <<Row(last, jtr)>>
                      \o Reverse(SubSeq(rows, old_size + 1, Len(rows)))
        /\ pc' = "lines" /\ line' = line - 1
        /\ UNCHANGED <<input, last, jtr, old_size>>
    BY <1>3, <2>1 DEF LastRow
  <2>6. rows' \in Seq(FittingRows(text, max_width)) /\ old_size <= Len(rows')
    BY <2>4, <2>5, TurnedRows DEF WrapInv
  <2>7. line' \in 0 .. Len(text) /\ old_size' \in 0 .. Len(rows')
    <3>1. line' = line - 1 /\ old_size' = old_size /\ old_size \in Nat
      BY <1>1, <2>5 DEF WrapInv
    <3>2. Len(rows') \in Nat
      BY <2>6
    <3>3. old_size' \in 0 .. Len(rows')
      BY <2>6, <3>1, <3>2
    <3>4. line' \in 0 .. Len(text)
      <4>1. line \in 1 .. Len(text) /\ Len(text) \in Nat
        BY <1>1, <2>1
      <4> QED BY <3>1, <4>1
    <3> QED BY <3>3, <3>4
  <2>8. max_width > 0
    BY <1>3 DEF WrapInv, LastRow
  <2> QED BY <2>5, <2>6, <2>7, <2>8 DEF WrapInv, input
<1>4. CASE BreakRow
  <2>1. /\ line \in 1 .. Len(text) /\ last \in Nat /\ last < End
        /\ End \in Nat /\ jtr # End /\ max_width > 0
        /\ jtr = constrain_offset(last, max_width, End)
    BY <1>1, <1>4 DEF BreakRow, WrapInv
  <2>2. jtr \in Nat /\ jtr < End /\ jtr = last + max_width /\ last < jtr
    BY <1>1, <2>1 DEF constrain_offset
  <2>3. /\ Break(last, jtr) \in Nat
        /\ last < Break(last, jtr) /\ Break(last, jtr) < End
        /\ \A o \in last .. Break(last, jtr) - 1 :
               text[line][o + 1] # Space => o < last + max_width
    <3>1. jtr <= last + max_width /\ max_width \in Nat
      BY <1>1, <2>1, <2>2
    <3> QED BY <2>1, <2>2, <3>1, BreakRange, Zenon
  <2>4. Row(last, Break(last, jtr)) \in FittingRows(text, max_width)
    BY <1>1, <2>1, <2>3, RowFits
  <2>5. rows' = Append(rows, Row(last, Break(last, jtr))) /\ pc' = "rows"
    BY <1>4, <2>3 DEF BreakRow, Insert
  <2>6. rows' \in Seq(FittingRows(text, max_width)) /\ old_size \in 0 .. Len(rows')
    BY <1>1, <2>4, <2>5 DEF WrapInv
  <2>7. /\ last' = Break(last, jtr)
        /\ jtr' = constrain_offset(last', max_width, End)
        /\ UNCHANGED <<input, line, old_size>>
    BY <1>4 DEF BreakRow
  <2>8. jtr' \in Nat
    BY <1>1, <2>1, <2>3, <2>7, ConstrainedRange
  <2>9. End' = End
    BY <2>7 DEF End, input
  <2> QED BY <2>1, <2>3, <2>5, <2>6, <2>7, <2>8, <2>9 DEF WrapInv, input
<1>5. CASE Cut
  <2>1. /\ rows' = SubSeq(Reverse(rows), 1,
                         constrain_offset(0, max_height, Len(rows)))
        /\ pc' = "done" /\ UNCHANGED <<input, line, last, jtr, old_size>>
    BY <1>5 DEF Cut
  <2>2. rows' \in Seq(FittingRows(text, max_width)) /\ old_size <= Len(rows')
    BY <1>1, <2>1, CutRows DEF WrapInv
  <2>3. old_size' \in 0 .. Len(rows')
    BY <2>1, <2>2 DEF WrapInv
  <2> QED BY <2>1, <2>2, <2>3 DEF WrapInv, input
<1>6. CASE UNCHANGED vars
  <2>1. End' = End
    BY <1>6 DEF End, vars, input
  <2> QED BY <1>6, <2>1 DEF vars, input, WrapInv
<1> QED BY <1>2, <1>3, <1>4, <1>5, <1>6 DEF Next

\* Every variable has its type and no iterator leaves its line, for texts of
\* any length.
THEOREM TypeCorrect == Spec => []TypeOK
<1>1. WrapInv => TypeOK
  <2> SUFFICES ASSUME WrapInv PROVE TypeOK
    OBVIOUS
  <2>1. rows \in Seq([line : 1 .. Len(text), from : Nat, to : Nat])
    <3> DEFINE R == [line : 1 .. Len(text), from : Nat, to : Nat]
    <3>1. FittingRows(text, max_width) \subseteq R
      BY DEF FittingRows
    <3>2. rows \in Seq(FittingRows(text, max_width))
      BY DEF WrapInv
    <3> HIDE DEF R
    <3>3. rows \in Seq(R)
      BY <3>1, <3>2
    <3> QED BY <3>3 DEF R
  <2>2. ASSUME pc = "rows" PROVE line > 0 /\ last <= jtr /\ jtr <= End
    <3>1. /\ last \in Nat /\ last < End /\ End \in Nat /\ max_width \in Nat
          /\ line > 0 /\ jtr = constrain_offset(last, max_width, End)
      BY <2>2, WrapNumbers DEF WrapInv
    <3> QED BY <3>1 DEF constrain_offset
  <2> QED BY <2>1, <2>2 DEF WrapInv, TypeOK
<1> QED BY WrapInit, WrapStep, <1>1, PTL DEF Spec

\* No assertion fails, for any message without an empty line and any terminal.
THEOREM NoEmptyRowHolds == Spec => []NoEmptyRow
<1>1. WrapInv => NoEmptyRow
  BY DEF WrapInv, NoEmptyRow
<1> QED BY WrapInit, WrapStep, <1>1, PTL DEF Spec

\* Every row fits the width of the terminal, whatever its lines are.
THEOREM FitsWidthHolds == Spec => []FitsWidth
<1>1. WrapInv => FitsWidth
  <2> SUFFICES ASSUME WrapInv, NEW i \in 1 .. Len(rows)
               PROVE  Fits(text, max_width, rows[i])
    BY DEF FitsWidth, Fits, IsSpace
  <2>1. rows[i] \in FittingRows(text, max_width)
    BY DEF WrapInv
  <2> QED BY <2>1 DEF FittingRows
<1> QED BY WrapInit, WrapStep, <1>1, PTL DEF Spec

\* The loop advances in every round.
THEOREM AdvancesHolds == Spec => Advances
<1>1. WrapInv /\ [Next]_vars => [pc = "rows" /\ pc' = "rows" => last < last']_vars
  <2> SUFFICES ASSUME WrapInv, Next, pc = "rows", pc' = "rows" PROVE last < last'
    BY DEF vars
  <2>1. BreakRow
    BY DEF Next, NextLine, LastRow, Cut
  <2>2. /\ Len(text) \in Nat /\ max_width \in Nat
        /\ line \in 1 .. Len(text) /\ End \in Nat
    BY <2>1, WrapNumbers DEF WrapInv, BreakRow
  <2>3. /\ last \in Nat /\ last < End /\ jtr # End /\ max_width > 0
        /\ jtr = constrain_offset(last, max_width, End)
    BY <2>1 DEF BreakRow, WrapInv
  <2>4. jtr \in Nat /\ jtr < End /\ jtr = last + max_width /\ last < jtr
    BY <2>2, <2>3 DEF constrain_offset
  <2>5. jtr <= last + max_width
    BY <2>2, <2>3, <2>4
  <2>6. last < Break(last, jtr)
    BY <2>2, <2>3, <2>4, <2>5, BreakRange, Zenon
  <2> QED BY <2>1, <2>6 DEF BreakRow
<1> QED BY WrapInit, WrapStep, <1>1, PTL DEF Spec, Advances

-----------------------------------------------------------------------------
(* The order of the rows.  Those of a line that is done stand from its last *)
(* to its first, the lines above them after them; those of the line that is *)
(* being cut from its first on.                                             *)

Joined(t, r, s) ==
    \/ s.line = r.line /\ s.from = r.to
    \/ s.line = r.line + 1 /\ s.from = 0 /\ r.to = Len(t[r.line])

\* The first m of rows s are all there is below line l of text t, in reverse.
Turned(t, s, m, l) ==
    /\ \A i \in 1 .. m - 1 : Joined(t, s[i + 1], s[i])
    /\ m = 0 => l = Len(t)
    /\ m > 0 => /\ s[1].line = Len(t) /\ s[1].to = Len(t[Len(t)])
                /\ s[m].line = l + 1 /\ s[m].from = 0

\* Those after them are line l as far as offset at.
Begun(s, m, l, at) ==
    /\ \A i \in m + 1 .. Len(s) : s[i].line = l
    /\ \A i \in m + 1 .. Len(s) - 1 : s[i + 1].from = s[i].to
    /\ IF Len(s) = m THEN at = 0 ELSE s[m + 1].from = 0 /\ s[Len(s)].to = at

OrderInv ==
    /\ pc = "lines" => Turned(text, rows, Len(rows), line)
    /\ pc = "rows" => /\ Turned(text, rows, old_size, line)
                      /\ Begun(rows, old_size, line, last)
    /\ InOrder /\ WholeIfRoom

\* What stands where after LastRow: u is the m rows of s below, row r, and the
\* other rows of s in reverse.
RowsTurned(u, s, r, m, n) ==
    /\ Len(u) = n + 1
    /\ \A i \in 1 .. m : u[i] = s[i]
    /\ u[m + 1] = r
    /\ \A i \in 1 .. n - m : u[(m + 1) + i] = s[(n + 1) - i]

\* And after Cut: c is the last k of the n rows of s in reverse.
RowsCut(c, s, k, n) ==
    /\ Len(c) = k
    /\ \A i \in 1 .. k : c[i] = s[(n + 1) - i]

LEMMA ReversedAt ==
    ASSUME NEW S, NEW s \in Seq(S), NEW i \in 1 .. Len(s)
    PROVE  Reverse(s)[i] = s[Len(s) - i + 1]
BY DEF Reverse

LEMMA PartAt ==
    ASSUME NEW S, NEW s \in Seq(S), NEW i \in Nat \ {0}, NEW j \in 0 .. Len(s),
           i <= j + 1, NEW k, k = (j - i) + 1
    PROVE  /\ SubSeq(s, i, j) \in Seq(S) /\ Len(SubSeq(s, i, j)) = k
           /\ \A p \in 1 .. k : SubSeq(s, i, j)[p] = s[(i + p) - 1]
<1>1. i \in Int /\ j \in Int /\ k \in Nat /\ Len(s) \in Nat
  OBVIOUS
<1>2. \A p \in i .. j : s[p] \in S
  <2> SUFFICES ASSUME NEW p \in i .. j PROVE s[p] \in S
    OBVIOUS
  <2>1. p \in 1 .. Len(s)
    BY <1>1
  <2> QED BY <2>1, ElementOfSeq
<1>3. /\ SubSeq(s, i, j) \in Seq(S)
      /\ Len(SubSeq(s, i, j)) = IF i <= j THEN j - i + 1 ELSE 0
      /\ \A p \in 1 .. j - i + 1 : SubSeq(s, i, j)[p] = s[i + p - 1]
  BY <1>1, <1>2, SubSeqProperties
<1>4. k = IF i <= j THEN j - i + 1 ELSE 0
  BY <1>1
<1>5. ASSUME NEW p \in 1 .. k PROVE SubSeq(s, i, j)[p] = s[(i + p) - 1]
  <2>1. p \in 1 .. j - i + 1 /\ (i + p) - 1 = i + p - 1
    BY <1>1
  <2> QED BY <1>3, <2>1, Zenon
<1> QED BY <1>3, <1>4, <1>5, Zenon

LEMMA TurnedAt ==
    ASSUME NEW S, NEW s \in Seq(S), NEW r \in S, NEW n \in Nat, n = Len(s),
           NEW m \in 0 .. n, NEW u,
           u = SubSeq(s, 1, m) \o <<r>> \o Reverse(SubSeq(s, m + 1, n))
    PROVE  RowsTurned(u, s, r, m, n)
<1>1. PICK k \in Nat : k = n - m
  <2>1. n - m \in Nat
    OBVIOUS
  <2> QED BY <2>1
<1>2. PICK a \in Seq(S) :
          a = SubSeq(s, 1, m) /\ Len(a) = m /\ \A i \in 1 .. m : a[i] = s[i]
  <2>1. 1 \in Nat \ {0} /\ m \in 0 .. Len(s) /\ 1 <= m + 1 /\ m = (m - 1) + 1
    OBVIOUS
  <2>2. /\ SubSeq(s, 1, m) \in Seq(S) /\ Len(SubSeq(s, 1, m)) = m
        /\ \A p \in 1 .. m : SubSeq(s, 1, m)[p] = s[(1 + p) - 1]
    BY <2>1, PartAt
  <2>3. \A p \in 1 .. m : (1 + p) - 1 = p
    OBVIOUS
  <2> QED BY <2>2, <2>3, Zenon
<1>3. PICK b \in Seq(S) :
          /\ b = SubSeq(s, m + 1, n) /\ Len(b) = k
          /\ \A i \in 1 .. k : b[i] = s[m + i]
  <2>1. /\ m + 1 \in Nat \ {0} /\ n \in 0 .. Len(s) /\ m + 1 <= n + 1
        /\ k = (n - (m + 1)) + 1
    BY <1>1
  <2>2. /\ SubSeq(s, m + 1, n) \in Seq(S) /\ Len(SubSeq(s, m + 1, n)) = k
        /\ \A p \in 1 .. k : SubSeq(s, m + 1, n)[p] = s[((m + 1) + p) - 1]
    BY <2>1, PartAt
  <2>3. ASSUME NEW p \in 1 .. k PROVE SubSeq(s, m + 1, n)[p] = s[m + p]
    <3>1. ((m + 1) + p) - 1 = m + p
      OBVIOUS
    <3> QED BY <2>2, <3>1, Zenon
  <2> QED BY <2>2, <2>3, Zenon
<1>4. PICK c \in Seq(S) :
          /\ c = Reverse(b) /\ Len(c) = k
          /\ \A i \in 1 .. k : c[i] = b[k - i + 1]
  <2>1. Reverse(b) \in Seq(S) /\ Len(Reverse(b)) = k
    BY <1>3, ReverseSeq
  <2>2. \A i \in 1 .. k : Reverse(b)[i] = b[k - i + 1]
    BY <1>3, ReversedAt
  <2> QED BY <2>1, <2>2, Zenon
<1>5. PICK d \in Seq(S) :
          /\ d = a \o <<r>> /\ Len(d) = m + 1 /\ d[m + 1] = r
          /\ \A i \in 1 .. m : d[i] = a[i]
  <2>1. a \o <<r>> = Append(a, r)
    BY AppendIsConcat
  <2>2. /\ Append(a, r) \in Seq(S) /\ Len(Append(a, r)) = m + 1
        /\ Append(a, r)[m + 1] = r
        /\ \A i \in 1 .. m : Append(a, r)[i] = a[i]
    BY <1>2, AppendProperties
  <2> QED BY <2>1, <2>2, Zenon
<1>6. PICK e \in Seq(S) :
          /\ e = d \o c /\ Len(e) = (m + 1) + k
          /\ \A i \in 1 .. m + 1 : e[i] = d[i]
          /\ \A i \in 1 .. k : e[(m + 1) + i] = c[i]
  <2>1. /\ d \o c \in Seq(S) /\ Len(d \o c) = (m + 1) + k
        /\ \A i \in 1 .. (m + 1) + k :
               (d \o c)[i] = IF i <= m + 1 THEN d[i] ELSE c[i - (m + 1)]
    <3>1. /\ d \o c \in Seq(S) /\ Len(d \o c) = Len(d) + Len(c)
          /\ \A i \in 1 .. Len(d) + Len(c) :
                 (d \o c)[i] = IF i <= Len(d) THEN d[i] ELSE c[i - Len(d)]
      BY ConcatProperties, Zenon
    <3>2. Len(d) = m + 1 /\ Len(c) = k
      BY <1>4, <1>5, Zenon
    <3> QED BY <3>1, <3>2
  <2>2. \A i \in 1 .. m + 1 : (d \o c)[i] = d[i]
    <3>1. \A i \in 1 .. m + 1 : i \in 1 .. (m + 1) + k /\ i <= m + 1
      OBVIOUS
    <3> QED BY <2>1, <3>1, Zenon
  <2>3. \A i \in 1 .. k : (d \o c)[(m + 1) + i] = c[i]
    <3>1. \A i \in 1 .. k : /\ (m + 1) + i \in 1 .. (m + 1) + k
                            /\ ~((m + 1) + i <= m + 1)
                            /\ ((m + 1) + i) - (m + 1) = i
      OBVIOUS
    <3> QED BY <2>1, <3>1, Zenon
  <2> QED BY <2>1, <2>2, <2>3, Zenon
<1>7. u = e
  <2>1. Reverse(SubSeq(s, m + 1, n)) = c
    BY <1>3, <1>4, Zenon
  <2>2. u = a \o <<r>> \o c
    BY <1>2, <2>1, Zenon
  <2> QED BY <1>5, <1>6, <2>2, Zenon
<1>8. ASSUME NEW i \in 1 .. k PROVE e[(m + 1) + i] = s[(n + 1) - i]
  <2>1. PICK j \in 1 .. k : j = k - i + 1 /\ m + j = (n + 1) - i
    <3>1. k - i + 1 \in 1 .. k /\ m + (k - i + 1) = (n + 1) - i
      BY <1>1
    <3> QED BY <3>1, Zenon
  <2>2. e[(m + 1) + i] = c[i] /\ c[i] = b[j]
    <3>1. e[(m + 1) + i] = c[i] /\ c[i] = b[k - i + 1]
      BY <1>4, <1>6, Zenon
    <3> QED BY <2>1, <3>1, Zenon
  <2>3. b[j] = s[m + j]
    BY <1>3, Zenon
  <2> QED BY <2>1, <2>2, <2>3, Zenon
<1>9. /\ Len(u) = n + 1
      /\ \A i \in 1 .. m : u[i] = s[i]
  <2>1. (m + 1) + k = n + 1 /\ \A i \in 1 .. m : i \in 1 .. m + 1
    BY <1>1
  <2> QED BY <1>2, <1>5, <1>6, <1>7, <2>1, Zenon
<1>10. u[m + 1] = r
  <2>1. m + 1 \in 1 .. m + 1
    OBVIOUS
  <2> QED BY <1>5, <1>6, <1>7, <2>1, Zenon
<1>11. \A i \in 1 .. n - m : u[(m + 1) + i] = s[(n + 1) - i]
  BY <1>1, <1>7, <1>8, Zenon
<1> QED BY <1>9, <1>10, <1>11 DEF RowsTurned

LEMMA CutAt ==
    ASSUME NEW S, NEW s \in Seq(S), NEW n \in Nat, n = Len(s), NEW h \in Nat, NEW c,
           c = SubSeq(Reverse(s), 1, constrain_offset(0, h, n))
    PROVE  \E k \in 0 .. n :
               k = (IF h > n THEN n ELSE h) /\ RowsCut(c, s, k, n)
<1>1. PICK v \in Seq(S) :
          v = Reverse(s) /\ Len(v) = n /\ \A i \in 1 .. n : v[i] = s[n - i + 1]
  BY ReverseSeq, ReversedAt
<1>2. PICK k \in 0 .. n : k = constrain_offset(0, h, n) /\ k = IF h > n THEN n ELSE h
  BY DEF constrain_offset
<1>3. c = SubSeq(v, 1, k)
  BY <1>1, <1>2, Zenon
<1>4. 1 \in Nat \ {0} /\ k \in 0 .. Len(v) /\ 1 <= k + 1 /\ k = (k - 1) + 1
  BY <1>1
<1>5. /\ c \in Seq(S) /\ Len(c) = k
      /\ \A i \in 1 .. k : c[i] = v[(1 + i) - 1]
  <2>1. /\ SubSeq(v, 1, k) \in Seq(S) /\ Len(SubSeq(v, 1, k)) = k
        /\ \A i \in 1 .. k : SubSeq(v, 1, k)[i] = v[(1 + i) - 1]
    BY <1>4, PartAt
  <2> QED BY <1>3, <2>1, Zenon
<1>6. ASSUME NEW i \in 1 .. k PROVE c[i] = s[(n + 1) - i]
  <2>1. (1 + i) - 1 = i /\ i \in 1 .. n /\ n - i + 1 = (n + 1) - i
    BY <1>2
  <2> QED BY <1>1, <1>5, <2>1
<1>7. RowsCut(c, s, k, n)
  BY <1>5, <1>6 DEF RowsCut
<1> QED BY <1>2, <1>7, Zenon

\* The last row of a line joins those below it, and the rows before it, turned
\* around, join it.
LEMMA TurnedTurns ==
    ASSUME NEW t, NEW s, NEW n \in Nat, n = Len(s), NEW m \in 0 .. n, NEW l \in Nat,
           NEW at, Turned(t, s, m, l), Begun(s, m, l, at), NEW r,
           r.line = l, r.from = at, r.to = Len(t[l]),
           NEW u, RowsTurned(u, s, r, m, n)
    PROVE  Turned(t, u, n + 1, l - 1)
<1> USE DEF RowsTurned
<1>1. ASSUME NEW i \in 1 .. n PROVE Joined(t, u[i + 1], u[i])
  <2>1. CASE i < m
    <3>1. i \in 1 .. m - 1 /\ i \in 1 .. m /\ i + 1 \in 1 .. m
      BY <2>1
    <3> QED BY <3>1 DEF Turned
  <2>2. CASE i = m
    <3>1. u[i] = s[m] /\ u[i + 1] = r /\ m > 0
      BY <2>2
    <3>2. s[m].line = l + 1 /\ s[m].from = 0
      BY <3>1 DEF Turned
    <3> QED BY <3>1, <3>2 DEF Joined
  <2>3. CASE i = m + 1
    <3>1. 1 \in 1 .. n - m /\ (m + 1) + 1 = i + 1 /\ (n + 1) - 1 = n /\ n # m
      BY <2>3
    <3>2. u[i + 1] = s[n] /\ u[i] = r
      BY <2>3, <3>1
    <3>3. s[n].line = l /\ s[n].to = at
      BY <3>1 DEF Begun
    <3> QED BY <3>2, <3>3 DEF Joined
  <2>4. CASE i > m + 1
    <3>1. PICK j \in 1 .. n - m :
              /\ i = (m + 1) + j /\ j + 1 \in 1 .. n - m
              /\ i + 1 = (m + 1) + (j + 1)
      <4>1. i - (m + 1) \in 1 .. n - m
        BY <2>4
      <4> QED BY <4>1
    <3>2. PICK q \in m + 1 .. n - 1 : q = (n + 1) - (j + 1) /\ q + 1 = (n + 1) - j
      <4>1. /\ (n + 1) - (j + 1) \in m + 1 .. n - 1
            /\ (n + 1) - (j + 1) + 1 = (n + 1) - j
        BY <3>1
      <4> QED BY <4>1
    <3>3. u[i] = s[q + 1] /\ u[i + 1] = s[q]
      BY <3>1, <3>2
    <3>4. s[q].line = l /\ s[q + 1].line = l /\ s[q + 1].from = s[q].to
      <4>1. q \in m + 1 .. n /\ q + 1 \in m + 1 .. n
        BY <3>2
      <4> QED BY <3>2, <4>1 DEF Begun
    <3> QED BY <3>3, <3>4 DEF Joined
  <2> QED BY <2>1, <2>2, <2>3, <2>4
<1>2. u[1].line = Len(t) /\ u[1].to = Len(t[Len(t)])
  <2>1. CASE m = 0
    BY <2>1 DEF Turned
  <2>2. CASE m > 0
    <3>1. 1 \in 1 .. m
      BY <2>2
    <3> QED BY <2>2, <3>1 DEF Turned
  <2> QED BY <2>1, <2>2
<1>3. u[n + 1].line = (l - 1) + 1 /\ u[n + 1].from = 0
  <2>1. CASE n = m
    BY <2>1 DEF Begun
  <2>2. CASE n # m
    <3>1. /\ n - m \in 1 .. n - m /\ (m + 1) + (n - m) = n + 1
          /\ (n + 1) - (n - m) = m + 1 /\ m + 1 \in m + 1 .. n
      BY <2>2
    <3>2. u[n + 1] = s[m + 1]
      BY <3>1
    <3>3. s[m + 1].line = l /\ s[m + 1].from = 0
      BY <2>2, <3>1 DEF Begun
    <3> QED BY <3>2, <3>3
  <2> QED BY <2>1, <2>2
<1>4. \A i \in 1 .. (n + 1) - 1 : i \in 1 .. n
  OBVIOUS
<1> QED BY <1>1, <1>2, <1>3, <1>4 DEF Turned

\* The shown rows c of text t, of which line l is the first not begun.
Shown(c, t, l, k) ==
    /\ \A i \in 1 .. k - 1 : Joined(t, c[i], c[i + 1])
    /\ k > 0 => c[1].from = 0 /\ c[1].line = l + 1

Complete(c, t, k) == c[k].line = Len(t) /\ c[k].to = Len(t[Len(t)])

\* The highest rows, turned around, follow each other from the beginning of a
\* line; when they are all the rows, the last of them ends the text.
LEMMA TurnedCut ==
    ASSUME NEW t, NEW s, NEW n \in Nat, n = Len(s), NEW l, Turned(t, s, n, l),
           NEW k \in 0 .. n, NEW c, RowsCut(c, s, k, n)
    PROVE  /\ Shown(c, t, l, k)
           /\ k = n /\ n > 0 => Complete(c, t, k)
<1> USE DEF RowsCut, Shown, Complete
<1>1. ASSUME NEW i \in 1 .. k - 1 PROVE Joined(t, c[i], c[i + 1])
  <2>1. PICK j \in 1 .. n - 1 : (n + 1) - i = j + 1 /\ (n + 1) - (i + 1) = j
    <3>1. /\ n - i \in 1 .. n - 1
          /\ (n + 1) - i = (n - i) + 1 /\ (n + 1) - (i + 1) = n - i
      OBVIOUS
    <3> QED BY <3>1
  <2>2. i \in 1 .. k /\ i + 1 \in 1 .. k
    OBVIOUS
  <2>3. c[i] = s[j + 1] /\ c[i + 1] = s[j]
    BY <2>1, <2>2
  <2> QED BY <2>3 DEF Turned
<1>2. ASSUME k > 0 PROVE c[1].from = 0 /\ c[1].line = l + 1
  <2>1. 1 \in 1 .. k /\ (n + 1) - 1 = n /\ n > 0
    BY <1>2
  <2>2. c[1] = s[n]
    BY <2>1
  <2> QED BY <2>1, <2>2 DEF Turned
<1>3. ASSUME k = n, n > 0
      PROVE  c[k].line = Len(t) /\ c[k].to = Len(t[Len(t)])
  <2>1. k \in 1 .. k /\ (n + 1) - k = 1
    BY <1>3
  <2>2. c[k] = s[1]
    BY <2>1
  <2> QED BY <1>3, <2>2 DEF Turned
<1> QED BY <1>1, <1>2, <1>3

\* A row more of the line that is being cut.
LEMMA BegunAppend ==
    ASSUME NEW S, NEW t, NEW s \in Seq(S), NEW m \in 0 .. Len(s), NEW l, NEW at,
           Turned(t, s, m, l), Begun(s, m, l, at),
           NEW r \in S, r.line = l, r.from = at, NEW to, r.to = to
    PROVE  /\ Turned(t, Append(s, r), m, l)
           /\ Begun(Append(s, r), m, l, to)
<1>1. PICK n \in Nat : n = Len(s)
  OBVIOUS
<1>2. PICK u \in Seq(S) : /\ u = Append(s, r) /\ Len(u) = n + 1 /\ u[n + 1] = r
                          /\ \A i \in 1 .. n : u[i] = s[i]
  <2>1. /\ Append(s, r) \in Seq(S) /\ Len(Append(s, r)) = n + 1
        /\ Append(s, r)[n + 1] = r
        /\ \A i \in 1 .. n : Append(s, r)[i] = s[i]
    BY <1>1, AppendProperties
  <2> QED BY <2>1, Zenon
<1>3. Turned(t, u, m, l)
  <2>1. ASSUME NEW i \in 1 .. m - 1 PROVE Joined(t, u[i + 1], u[i])
    <3>1. i \in 1 .. n /\ i + 1 \in 1 .. n
      BY <1>1
    <3> QED BY <1>2, <3>1 DEF Turned
  <2>2. ASSUME m > 0
        PROVE  /\ u[1].line = Len(t) /\ u[1].to = Len(t[Len(t)])
               /\ u[m].line = l + 1 /\ u[m].from = 0
    <3>1. 1 \in 1 .. n /\ m \in 1 .. n
      BY <1>1, <2>2
    <3> QED BY <1>2, <2>2, <3>1 DEF Turned
  <2>3. m = 0 => l = Len(t)
    BY DEF Turned
  <2> QED BY <2>1, <2>2, <2>3 DEF Turned
<1>4. Begun(u, m, l, to)
  <2>1. ASSUME NEW i \in m + 1 .. n + 1 PROVE u[i].line = l
    <3>1. CASE i = n + 1
      BY <1>2, <3>1
    <3>2. CASE i # n + 1
      <4>1. i \in 1 .. n /\ i \in m + 1 .. n
        BY <1>1, <3>2
      <4> QED BY <1>1, <1>2, <4>1 DEF Begun
    <3> QED BY <3>1, <3>2
  <2>2. ASSUME NEW i \in m + 1 .. (n + 1) - 1 PROVE u[i + 1].from = u[i].to
    <3>0. i \in 1 .. n
      BY <1>1
    <3>1. CASE i = n
      <4>1. u[i + 1] = r /\ u[i] = s[n] /\ n # m
        BY <1>2, <3>0, <3>1
      <4> QED BY <1>1, <4>1 DEF Begun
    <3>2. CASE i # n
      <4>1. i \in m + 1 .. n - 1 /\ i + 1 \in 1 .. n
        BY <1>1, <3>2
      <4>2. u[i + 1] = s[i + 1] /\ u[i] = s[i]
        BY <1>2, <3>0, <4>1
      <4> QED BY <1>1, <4>1, <4>2 DEF Begun
    <3> QED BY <3>1, <3>2
  <2>3. u[m + 1].from = 0
    <3>1. CASE n = m
      BY <1>1, <1>2, <3>1 DEF Begun
    <3>2. CASE n # m
      <4>1. m + 1 \in 1 .. n
        BY <1>1, <3>2
      <4> QED BY <1>1, <1>2, <3>2, <4>1 DEF Begun
    <3> QED BY <3>1, <3>2
  <2>4. n + 1 # m
    BY <1>1
  <2> QED BY <1>2, <2>1, <2>2, <2>3, <2>4 DEF Begun
<1> QED BY <1>2, <1>3, <1>4

LEMMA RowsTyped ==
    ASSUME WrapInv
    PROVE  rows \in Seq([line : 1 .. Len(text), from : Nat, to : Nat])
<1> DEFINE S == [line : 1 .. Len(text), from : Nat, to : Nat]
<1>1. rows \in Seq(FittingRows(text, max_width))
  BY DEF WrapInv
<1>2. FittingRows(text, max_width) \subseteq S
  BY DEF FittingRows
<1> HIDE DEF S
<1>3. \A i \in 1 .. Len(rows) : rows[i] \in S
  BY <1>1, <1>2, ElementOfSeq
<1>4. rows \in Seq(S)
  BY <1>1, <1>3
<1> QED BY <1>4 DEF S

LEMMA OrderInit == Init => OrderInv
<1> SUFFICES ASSUME Init PROVE OrderInv
  OBVIOUS
<1>1. /\ rows = <<>> /\ Len(rows) = 0 /\ line = Len(text) /\ max_height \in Nat
      /\ pc = "done" => max_height = 0 \/ max_width = 0
      /\ pc # "rows"
  BY SizesAssumption DEF Init
<1>2. Turned(text, rows, Len(rows), line)
  BY <1>1 DEF Turned
<1>3. InOrder
  BY <1>1 DEF InOrder
<1>4. WholeIfRoom
  BY <1>1 DEF WholeIfRoom
<1> QED BY <1>1, <1>2, <1>3, <1>4 DEF OrderInv

LEMMA OrderStep == WrapInv /\ OrderInv /\ [Next]_vars => OrderInv'
<1> SUFFICES ASSUME WrapInv, OrderInv, [Next]_vars PROVE OrderInv'
  OBVIOUS
<1> DEFINE S == [line : 1 .. Len(text), from : Nat, to : Nat]
<1>1. /\ Len(text) \in Nat /\ max_width \in Nat /\ max_height \in Nat
      /\ Len(rows) \in Nat
      /\ line > 0 => line \in 1 .. Len(text) /\ End \in Nat /\ End > 0
  BY WrapNumbers
<1>2. rows \in Seq(S)
  BY RowsTyped
<1> HIDE DEF S
<1>3. CASE NextLine
  <2>1. /\ pc = "lines" /\ pc' = "rows" /\ old_size' = Len(rows)
        /\ last' = 0 /\ rows' = rows /\ text' = text /\ line' = line
    BY <1>3 DEF NextLine, input
  <2>2. Turned(text, rows, Len(rows), line)
    BY <2>1 DEF OrderInv
  <2>3. Begun(rows, Len(rows), line, 0)
    BY <1>1 DEF Begun
  <2>4. Turned(text', rows', old_size', line') /\ Begun(rows', old_size', line', last')
    BY <2>1, <2>2, <2>3
  <2>5. InOrder' /\ WholeIfRoom'
    BY <2>1 DEF InOrder, WholeIfRoom
  <2>6. pc' # "lines"
    BY <2>1
  <2> QED BY <2>4, <2>5, <2>6 DEF OrderInv
<1>4. CASE LastRow
  <2>1. /\ pc = "rows" /\ line \in 1 .. Len(text) /\ jtr = End /\ last < jtr
        /\ last \in Nat /\ jtr \in Nat /\ old_size \in 0 .. Len(rows)
    BY <1>1, <1>4 DEF LastRow, WrapInv
  <2>2. /\ rows' = SubSeq(rows, 1, old_size) \o <<Row(last, jtr)>>
                      \o Reverse(SubSeq(rows, old_size + 1, Len(rows)))
        /\ pc' = "lines" /\ line' = line - 1 /\ text' = text
    BY <1>4, <2>1 DEF LastRow, input
  <2>3. /\ Row(last, jtr) \in S
        /\ Row(last, jtr).line = line /\ Row(last, jtr).from = last
        /\ Row(last, jtr).to = Len(text[line])
    BY <2>1 DEF Row, S, End
  <2>4. PICK r \in S :
            /\ r = Row(last, jtr) /\ r.line = line /\ r.from = last
            /\ r.to = Len(text[line])
    BY <2>3
  <2>5. PICK n \in Nat : n = Len(rows)
    BY <1>1
  <2>6. RowsTurned(rows', rows, r, old_size, n)
    <3>1. rows' = SubSeq(rows, 1, old_size) \o <<r>>
                     \o Reverse(SubSeq(rows, old_size + 1, n))
      BY <2>2, <2>4, <2>5
    <3>2. old_size \in 0 .. n
      BY <2>1, <2>5
    <3>3. PICK s \in Seq(S) : s = rows
      BY <1>2
    <3>4. PICK m \in 0 .. n : m = old_size
      BY <3>2
    <3>5. PICK u : u = rows'
      OBVIOUS
    <3>6. u = SubSeq(s, 1, m) \o <<r>> \o Reverse(SubSeq(s, m + 1, n)) /\ n = Len(s)
      BY <2>5, <3>1, <3>3, <3>4, <3>5, Zenon
    <3>7. RowsTurned(u, s, r, m, n)
      BY <3>6, TurnedAt
    <3> QED BY <3>3, <3>4, <3>5, <3>7, Zenon
  <2>7. Turned(text, rows, old_size, line) /\ Begun(rows, old_size, line, last)
    BY <2>1 DEF OrderInv
  <2>8. Turned(text, rows', n + 1, line - 1)
    <3>1. old_size \in 0 .. n /\ line \in Nat
      BY <1>1, <2>1, <2>5
    <3>2. PICK s, t, at, u : s = rows /\ t = text /\ at = last /\ u = rows'
      OBVIOUS
    <3>3. PICK m \in 0 .. n, l \in Nat : m = old_size /\ l = line
      BY <3>1
    <3>4. /\ n = Len(s) /\ Turned(t, s, m, l) /\ Begun(s, m, l, at)
          /\ r.line = l /\ r.from = at /\ r.to = Len(t[l])
      BY <2>4, <2>5, <2>7, <3>2, <3>3, Zenon
    <3>5. RowsTurned(u, s, r, m, n)
      BY <2>6, <3>2, <3>3, Zenon
    <3>6. Turned(t, u, n + 1, l - 1)
      BY <3>4, <3>5, TurnedTurns, Zenon
    <3> QED BY <3>2, <3>3, <3>6, Zenon
  <2>9. Turned(text', rows', Len(rows'), line')
    BY <2>2, <2>6, <2>8 DEF RowsTurned
  <2>10. InOrder' /\ WholeIfRoom' /\ pc' # "rows"
    BY <2>2 DEF InOrder, WholeIfRoom
  <2> QED BY <2>9, <2>10 DEF OrderInv
<1>5. CASE BreakRow
  <2>1. /\ pc = "rows" /\ line \in 1 .. Len(text) /\ last \in Nat /\ last < End
        /\ End \in Nat /\ jtr # End /\ max_width > 0
        /\ jtr = constrain_offset(last, max_width, End)
        /\ old_size \in 0 .. Len(rows)
    BY <1>1, <1>5 DEF BreakRow, WrapInv
  <2>2. /\ jtr \in Nat /\ jtr < End /\ last < jtr /\ jtr <= last + max_width
    BY <1>1, <2>1 DEF constrain_offset
  <2>3. Break(last, jtr) \in Nat /\ last < Break(last, jtr)
    BY <1>1, <2>1, <2>2, BreakRange, Zenon
  <2>4. /\ rows' = Append(rows, Row(last, Break(last, jtr))) /\ pc' = "rows"
        /\ last' = Break(last, jtr) /\ text' = text
        /\ UNCHANGED <<line, old_size>>
    BY <1>5, <2>3 DEF BreakRow, Insert, input
  <2>5. /\ Row(last, Break(last, jtr)) \in S
        /\ Row(last, Break(last, jtr)).line = line
        /\ Row(last, Break(last, jtr)).from = last
        /\ Row(last, Break(last, jtr)).to = Break(last, jtr)
    BY <2>1, <2>3 DEF Row, S
  <2>6. Turned(text, rows, old_size, line) /\ Begun(rows, old_size, line, last)
    BY <2>1 DEF OrderInv
  <2>7. Turned(text, rows', old_size, line) /\ Begun(rows', old_size, line, last')
    BY <1>2, <2>1, <2>4, <2>5, <2>6, BegunAppend
  <2>8. Turned(text', rows', old_size', line') /\ Begun(rows', old_size', line', last')
    BY <2>4, <2>7
  <2>9. InOrder' /\ WholeIfRoom' /\ pc' # "lines"
    BY <2>4 DEF InOrder, WholeIfRoom
  <2> QED BY <2>8, <2>9 DEF OrderInv
<1>6. CASE Cut
  <2>1. /\ pc = "lines"
        /\ line = 0 \/ Len(rows) > max_height
        /\ rows' = SubSeq(Reverse(rows), 1,
                         constrain_offset(0, max_height, Len(rows)))
        /\ pc' = "done" /\ text' = text
        /\ max_width' = max_width /\ max_height' = max_height
    BY <1>6 DEF Cut, input
  <2>2. PICK n \in Nat : n = Len(rows)
    BY <1>1
  <2>3. PICK k \in 0 .. n :
            k = (IF max_height > n THEN n ELSE max_height) /\ RowsCut(rows', rows, k, n)
    <3>1. PICK s \in Seq(S), h \in Nat : s = rows /\ h = max_height
      BY <1>1, <1>2
    <3>2. PICK c : c = rows'
      OBVIOUS
    <3>3. n = Len(s) /\ c = SubSeq(Reverse(s), 1, constrain_offset(0, h, n))
      BY <2>1, <2>2, <3>1, <3>2, Zenon
    <3>4. \E k \in 0 .. n :
              k = (IF h > n THEN n ELSE h) /\ RowsCut(c, s, k, n)
      BY <3>3, CutAt
    <3> QED BY <3>1, <3>2, <3>4, Zenon
  <2>4. Turned(text, rows, n, line)
    BY <1>6, <2>2 DEF Cut, OrderInv
  <2>5. /\ \A i \in 1 .. k - 1 : Joined(text, rows'[i], rows'[i + 1])
        /\ k > 0 => rows'[1].from = 0 /\ rows'[1].line = line + 1
        /\ k = n /\ n > 0 =>
               /\ rows'[k].line = Len(text)
               /\ rows'[k].to = Len(text[Len(text)])
    <3>1. PICK s, t, l, c : s = rows /\ t = text /\ l = line /\ c = rows'
      OBVIOUS
    <3>2. n = Len(s) /\ Turned(t, s, n, l) /\ RowsCut(c, s, k, n)
      BY <2>2, <2>3, <2>4, <3>1, Zenon
    <3>3. Shown(c, t, l, k) /\ (k = n /\ n > 0 => Complete(c, t, k))
      BY <3>2, TurnedCut, Zenon
    <3> QED BY <3>1, <3>3, Zenon DEF Shown, Complete
  <2>6. /\ rows' \in Seq(S) /\ Len(rows') = k
        /\ k = IF max_height > n THEN n ELSE max_height
    <3>1. rows' \in Seq(S)
      BY <1>1, <1>2, <2>1, CutRows
    <3> QED BY <2>3, <3>1 DEF RowsCut
  <2>7. InOrder'
    <3>1. \A i \in 1 .. Len(rows') - 1 : Joined(text', rows'[i], rows'[i + 1])
      BY <2>1, <2>6, <2>5
    <3>2. rows' # <<>> => rows'[1].from = 0
      <4>1. rows' # <<>> => k > 0
        BY <2>6
      <4> QED BY <2>5, <4>1
    <3> QED BY <3>1, <3>2 DEF InOrder, Follows, Joined
  <2>8. WholeIfRoom'
    <3>1. Len(rows') <= max_height
      BY <1>1, <2>6
    <3>2. ASSUME Len(rows') < max_height, text # <<>>
          PROVE  /\ rows' # <<>> /\ rows'[1].line = 1
                 /\ rows'[Len(rows')].line = Len(text)
                 /\ rows'[Len(rows')].to = Len(text[Len(text)])
      <4>1. k = n /\ line = 0
        BY <1>1, <2>1, <2>2, <2>6, <3>2
      <4>2. text \in Seq(Seq(Chars)) /\ Len(text) # 0
        <5>1. text \in Seq(Seq(Chars))
          BY TextsAssumption DEF WrapInv
        <5> QED BY <3>2, <5>1
      <4>3. n > 0
        BY <2>4, <4>1, <4>2 DEF Turned
      <4>4. rows' # <<>>
        BY <2>6, <4>1, <4>3
      <4> QED BY <2>6, <2>5, <4>1, <4>3, <4>4
    <3>3. Len(rows') < max_height /\ text # <<>> =>
              /\ rows' # <<>> /\ rows'[1].line = 1
              /\ rows'[Len(rows')].line = Len(text)
              /\ rows'[Len(rows')].to = Len(text[rows'[Len(rows')].line])
      BY <3>2
    <3> QED BY <2>1, <3>1, <3>3 DEF WholeIfRoom
  <2>9. pc' # "lines" /\ pc' # "rows"
    BY <2>1
  <2> QED BY <2>7, <2>8, <2>9 DEF OrderInv
<1>7. CASE UNCHANGED vars
  BY <1>7 DEF vars, input, OrderInv, Turned, Begun, Joined, InOrder, Follows,
     WholeIfRoom
<1> QED BY <1>3, <1>4, <1>5, <1>6, <1>7 DEF Next

\* What is shown is one part of the message, in order, with nothing left out of
\* it and nothing shown twice, and it is cut only where there is no room: as
\* long as a row is free, its first and its last character are shown, and so
\* all between; for messages and terminals of any size.
THEOREM MessageShownHolds == Spec => []MessageShown
<1>1. WrapInv /\ OrderInv => MessageShown
  BY DEF OrderInv, MessageShown
<1> QED BY WrapInit, WrapStep, OrderInit, OrderStep, <1>1, PTL DEF Spec

=============================================================================
