--------------------------- MODULE ItemViewProofs ---------------------------
(***************************************************************************)
(* An item and its line, whatever codes, entries and bytes there are: the  *)
(* types, that every line can be drawn, and what is shown of a weapon.     *)
(***************************************************************************)
EXTENDS ItemView, SequenceTheorems, WellFoundedInduction, TLAPS

-----------------------------------------------------------------------------
(* What render_line does with a line, turn by turn.                        *)

\* render_line as it is called for a frame.
Fresh == [phase |-> "reg", calls |-> <<k_plain>>, color_char |-> k_plain,
          target |-> <<>>, colors |-> <<>>]

\* The states of its loop, n turns of it from r on.
AfterTurns(after, r, pieces, n) ==
    after = [i \in 0 .. n |-> IF i = 0 THEN r ELSE Consume(after[i - 1], pieces[i])]

Run(run, r, pieces) ==
    /\ run[0] = r
    /\ \A i \in 1 .. Len(pieces) : run[i] = Consume(run[i - 1], pieces[i])

\* The loop has such states, for its turns are determined one by one: there is
\* no least number of turns for which it has none.
LEMMA TurnsExist ==
    ASSUME NEW r, NEW pieces, NEW n \in Nat
    PROVE  \E after : AfterTurns(after, r, pieces, n)
<1> DEFINE without == {k \in Nat : ~ \E after : AfterTurns(after, r, pieces, k)}
<1>1. SUFFICES ASSUME without # {} PROVE FALSE
  BY Zenon
<1>2. PICK least \in without : \A k \in without : ~(<<k, least>> \in OpToRel(<, Nat))
  BY <1>1, NatLessThanWellFounded, WFMin
<1>3. \A k \in without : ~(k < least)
  BY <1>2, Zenon DEF OpToRel
<1>4. least \in Nat /\ ~ \E after : AfterTurns(after, r, pieces, least)
  OBVIOUS
<1>5. least # 0
  <2>1. AfterTurns([i \in 0 .. 0 |-> r], r, pieces, 0)
    BY DEF AfterTurns
  <2> QED BY <1>4, <2>1
<1>6. least - 1 \in Nat /\ \E after : AfterTurns(after, r, pieces, least - 1)
  <2>1. least - 1 \in Nat /\ least - 1 < least
    BY <1>4, <1>5
  <2> QED BY <1>3, <2>1
<1>7. PICK before : AfterTurns(before, r, pieces, least - 1)
  BY <1>6
<1> HIDE DEF without
<1>8. /\ before[0] = r
      /\ \A i \in 1 .. least - 1 : before[i] = Consume(before[i - 1], pieces[i])
  BY <1>6, <1>7 DEF AfterTurns
<1> DEFINE next == [i \in 0 .. least |->
          IF i = least THEN Consume(before[i - 1], pieces[i]) ELSE before[i]]
<1>9. ASSUME NEW i \in 0 .. least
      PROVE  next[i] = IF i = 0 THEN r ELSE Consume(next[i - 1], pieces[i])
  <2>1. CASE i = 0
    BY <1>4, <1>5, <1>8, <2>1
  <2>2. CASE i # 0
    <3>1. i - 1 \in 0 .. least /\ i - 1 # least
      BY <1>4, <2>2
    <3>2. next[i - 1] = before[i - 1]
      BY <3>1
    <3>3. next[i] = Consume(before[i - 1], pieces[i])
      <4>1. CASE i = least
        BY <4>1
      <4>2. CASE i # least
        <5>1. i \in 1 .. least - 1
          BY <1>4, <2>2, <4>2
        <5> QED BY <1>8, <4>2, <5>1
      <4> QED BY <4>1, <4>2
    <3> QED BY <2>2, <3>2, <3>3
  <2> QED BY <2>1, <2>2
<1>10. next = [i \in 0 .. least |-> next[i]]
  OBVIOUS
<1> HIDE DEF next
<1>11. AfterTurns(next, r, pieces, least)
  BY <1>9, <1>10 DEF AfterTurns
<1> QED BY <1>4, <1>11

\* What render_line gives is the last state of its loop.
LEMMA RenderedByTurns ==
    ASSUME NEW pieces, Len(pieces) \in Nat
    PROVE  \E run : Run(run, Fresh, pieces) /\ render_line(pieces) = run[Len(pieces)]
<1> DEFINE run == CHOOSE after : AfterTurns(after, Fresh, pieces, Len(pieces))
<1>1. AfterTurns(run, Fresh, pieces, Len(pieces))
  BY TurnsExist, Zenon
<1>2. render_line(pieces) = run[Len(pieces)]
  BY Zenon DEF render_line, Fresh, AfterTurns
<1> HIDE DEF run
<1>3. Run(run, Fresh, pieces)
  BY <1>1 DEF Run, AfterTurns
<1> QED BY <1>2, <1>3

\* The states of render_line in which it takes a piece as text: calls it has
\* not returned from, and each cell written in a colour that there is.
Markup == {Open, Close, Colon, Backslash} \cup {<<c>> : c \in Palette}

States(phase, T) ==
    [phase : {phase}, calls : Seq(Palette), color_char : Palette,
     target : Seq(T), colors : Seq(Palette)]

Drawing(r) ==
    /\ \E T : r \in States("reg", T)
    /\ r.calls # <<>> /\ Len(r.colors) = Len(r.target)

\* Pieces that are drawn wherever they stand: they are read to their end, leave
\* render_line in the call it was in, and what is written of them is their
\* words, all but the markup.
Drawn(r, e, pieces) ==
    /\ Drawing(e)
    /\ e.calls = r.calls
    /\ Words(e.target) \ Markup = (Words(r.target) \cup Words(pieces)) \ Markup

WellFormed(pieces) ==
    /\ \E P : pieces \in Seq(P)
    /\ \A r, run : Drawing(r) /\ Run(run, r, pieces) => Drawn(r, run[Len(pieces)], pieces)

\* Words of sequences that are put together.
LEMMA WordsConcat ==
    ASSUME NEW P, NEW p \in Seq(P), NEW Q, NEW q \in Seq(Q)
    PROVE  /\ p \o q \in Seq(P \cup Q)
           /\ Len(p \o q) = Len(p) + Len(q)
           /\ \A i \in 1 .. Len(p) : (p \o q)[i] = p[i]
           /\ \A i \in 1 .. Len(q) : (p \o q)[Len(p) + i] = q[i]
           /\ Words(p \o q) = Words(p) \cup Words(q)
<1>1. PICK n \in Nat : n = Len(p)
  OBVIOUS
<1>2. PICK m \in Nat : m = Len(q)
  OBVIOUS
<1>3. p \in Seq(P \cup Q) /\ q \in Seq(P \cup Q)
  OBVIOUS
<1>4. PICK s \in Seq(P \cup Q) : s = p \o q
  BY <1>3, ConcatProperties
<1>5. /\ Len(s) = n + m
      /\ \A i \in 1 .. n : s[i] = p[i]
      /\ \A i \in 1 .. m : s[n + i] = q[i]
  BY <1>1, <1>2, <1>3, <1>4
<1>6. ASSUME NEW i \in 1 .. n + m PROVE s[i] \in Words(p) \cup Words(q)
  <2>1. CASE i \in 1 .. n
    BY <1>1, <1>5, <2>1 DEF Words
  <2>2. CASE i \notin 1 .. n
    <3>1. i - n \in 1 .. m /\ n + (i - n) = i
      BY <2>2
    <3>2. s[i] = q[i - n]
      BY <1>5, <3>1
    <3> QED BY <1>2, <3>1, <3>2 DEF Words
  <2> QED BY <2>1, <2>2
<1>7. ASSUME NEW i \in 1 .. n PROVE p[i] \in Words(s)
  <2>1. i \in 1 .. n + m
    OBVIOUS
  <2> QED BY <1>5, <2>1 DEF Words
<1>8. ASSUME NEW i \in 1 .. m PROVE q[i] \in Words(s)
  <2>1. n + i \in 1 .. n + m
    OBVIOUS
  <2> QED BY <1>5, <2>1 DEF Words
<1>9. Words(s) = Words(p) \cup Words(q)
  <2>1. Words(s) \subseteq Words(p) \cup Words(q)
    BY <1>5, <1>6 DEF Words
  <2>2. Words(p) \subseteq Words(s) /\ Words(q) \subseteq Words(s)
    BY <1>1, <1>2, <1>7, <1>8, Zenon DEF Words
  <2> QED BY <2>1, <2>2
<1> QED BY <1>1, <1>2, <1>4, <1>5, <1>9

LEMMA WordsAppend ==
    ASSUME NEW P, NEW p \in Seq(P), NEW w
    PROVE  /\ Append(p, w) \in Seq(P \cup {w})
           /\ Len(Append(p, w)) = Len(p) + 1
           /\ Words(Append(p, w)) = Words(p) \cup {w}
<1>1. PICK n \in Nat : n = Len(p)
  OBVIOUS
<1>2. p \in Seq(P \cup {w})
  OBVIOUS
<1>3. /\ Append(p, w) \in Seq(P \cup {w}) /\ Len(Append(p, w)) = n + 1
      /\ Append(p, w)[n + 1] = w
      /\ \A i \in 1 .. n : Append(p, w)[i] = p[i]
  BY <1>1, <1>2
<1>4. \A i \in 1 .. n + 1 : i \in 1 .. n \/ i = n + 1
  OBVIOUS
<1>5. \A i \in 1 .. n : i \in 1 .. n + 1
  OBVIOUS
<1>6. n + 1 \in 1 .. n + 1
  OBVIOUS
<1>7. Words(Append(p, w)) = Words(p) \cup {w}
  BY <1>1, <1>3, <1>4, <1>5, <1>6 DEF Words
<1> QED BY <1>1, <1>3, <1>7

\* What render_line does with two parts of a line it does with one after the
\* other.
Later(run, n, m) == [i \in 0 .. m |-> run[n + i]]

LEMMA RunSplit ==
    ASSUME NEW P, NEW p \in Seq(P), NEW Q, NEW q \in Seq(Q), NEW r, NEW run,
           Run(run, r, p \o q)
    PROVE  /\ Run(run, r, p)
           /\ Run(Later(run, Len(p), Len(q)), run[Len(p)], q)
           /\ run[Len(p \o q)] = Later(run, Len(p), Len(q))[Len(q)]
<1>1. PICK n \in Nat : n = Len(p)
  OBVIOUS
<1>2. PICK m \in Nat : m = Len(q)
  OBVIOUS
<1>3. PICK s : s = p \o q
  OBVIOUS
<1>4. /\ Len(s) = n + m
      /\ \A i \in 1 .. n : s[i] = p[i]
      /\ \A i \in 1 .. m : s[n + i] = q[i]
  BY <1>1, <1>2, <1>3, WordsConcat
<1>5. Run(run, r, s)
  BY <1>3
<1>6. /\ run[0] = r
      /\ \A i \in 1 .. n + m : run[i] = Consume(run[i - 1], s[i])
  BY <1>4, <1>5 DEF Run
<1>7. Run(run, r, p)
  <2>1. \A i \in 1 .. n : i \in 1 .. n + m
    OBVIOUS
  <2> QED BY <1>1, <1>4, <1>6, <2>1 DEF Run
<1> DEFINE later == Later(run, n, m)
<1>8. \A i \in 0 .. m : later[i] = run[n + i]
  BY DEF Later
<1>9. ASSUME NEW i \in 1 .. m PROVE later[i] = Consume(later[i - 1], q[i])
  <2>1. n + i \in 1 .. n + m /\ (n + i) - 1 = n + (i - 1) /\ i - 1 \in 0 .. m /\ i \in 0 .. m
    OBVIOUS
  <2>2. run[n + i] = Consume(run[n + (i - 1)], s[n + i])
    BY <1>6, <2>1
  <2> QED BY <1>4, <1>8, <2>1, <2>2
<1>10. later[0] = run[n] /\ later[m] = run[n + m]
  BY <1>8
<1> HIDE DEF later
<1>11. Run(later, run[n], q)
  BY <1>2, <1>9, <1>10 DEF Run
<1> QED BY <1>1, <1>2, <1>3, <1>4, <1>7, <1>10, <1>11 DEF later

\* Parts that are drawn wherever they stand make a line that is.
LEMMA WellFormedConcat ==
    ASSUME NEW p, NEW q, WellFormed(p), WellFormed(q)
    PROVE  WellFormed(p \o q)
<1>1. PICK P : p \in Seq(P)
  BY DEF WellFormed
<1>2. PICK Q : q \in Seq(Q)
  BY DEF WellFormed
<1>3. p \o q \in Seq(P \cup Q) /\ Words(p \o q) = Words(p) \cup Words(q)
  BY <1>1, <1>2, WordsConcat
<1>4. ASSUME NEW r, NEW run, Drawing(r), Run(run, r, p \o q)
      PROVE  Drawn(r, run[Len(p \o q)], p \o q)
  <2> DEFINE later == Later(run, Len(p), Len(q))
             middle == run[Len(p)]
             end == later[Len(q)]
  <2>1. Run(run, r, p) /\ Run(later, middle, q) /\ run[Len(p \o q)] = end
    BY <1>1, <1>2, <1>4, RunSplit
  <2>2. Drawn(r, middle, p)
    BY <1>4, <2>1 DEF WellFormed
  <2>3. Drawn(middle, end, q)
    BY <2>1, <2>2 DEF WellFormed, Drawn
  <2> HIDE DEF later, middle, end
  <2>4. Drawn(r, end, p \o q)
    BY <1>3, <2>2, <2>3, Zenon DEF Drawn
  <2> QED BY <2>1, <2>4
<1> QED BY <1>3, <1>4 DEF WellFormed

LEMMA WellFormedEmpty == WellFormed(<<>>)
<1>1. <<>> \in Seq({}) /\ Len(<<>>) = 0 /\ Words(<<>>) = {}
  BY DEF Words
<1>2. ASSUME NEW r, NEW run, Drawing(r), Run(run, r, <<>>)
      PROVE  Drawn(r, run[Len(<<>>)], <<>>)
  BY <1>1, <1>2 DEF Run, Drawn
<1> QED BY <1>1, <1>2 DEF WellFormed

LEMMA WellFormedWhen ==
    ASSUME NEW condition, NEW p, condition => WellFormed(p)
    PROVE  WellFormed(When(condition, p))
BY WellFormedEmpty DEF When

\* A piece written in the colour of the current call.
Writes(r, w, e) ==
    e = [r EXCEPT !.target = Append(@, w), !.colors = Append(@, Head(r.calls)),
                  !.phase = "reg"]

LEMMA Written ==
    ASSUME NEW r, NEW w, NEW e, Drawing(r), Writes(r, w, e)
    PROVE  /\ Drawing(e) /\ e.calls = r.calls
           /\ Words(e.target) = Words(r.target) \cup {w}
<1>1. PICK T : r \in States("reg", T)
  BY DEF Drawing
<1>2. PICK target \in Seq(T \cup {w}) :
          /\ target = Append(r.target, w) /\ Len(target) = Len(r.target) + 1
          /\ Words(target) = Words(r.target) \cup {w}
  <2>1. r.target \in Seq(T)
    BY <1>1 DEF States
  <2> QED BY <2>1, WordsAppend, Zenon
<1>3. PICK colors \in Seq(Palette) :
          colors = Append(r.colors, Head(r.calls)) /\ Len(colors) = Len(r.colors) + 1
  <2>1. r.colors \in Seq(Palette) /\ Head(r.calls) \in Palette
    BY <1>1 DEF Drawing, States
  <2> QED BY <2>1, AppendProperties, Zenon
<1>4. e = [r EXCEPT !.target = target, !.colors = colors, !.phase = "reg"]
  BY <1>2, <1>3, Zenon DEF Writes
<1>5. r \in States("reg", T \cup {w})
  BY <1>1 DEF States
<1>6. /\ e \in States("reg", T \cup {w})
      /\ e.calls = r.calls /\ e.target = target /\ e.colors = colors
  BY <1>4, <1>5 DEF States
<1>7. Drawing(e)
  BY <1>2, <1>3, <1>6 DEF Drawing
<1> QED BY <1>2, <1>6, <1>7

\* A word that is none of the three characters render_line looks for.
Plain(w) == w \notin {Backslash, Open, Close}

LEMMA WellFormedWord ==
    ASSUME NEW w, Plain(w)
    PROVE  WellFormed(<<w>>)
<1>1. <<w>> \in Seq({w}) /\ Len(<<w>>) = 1 /\ <<w>>[1] = w /\ Words(<<w>>) = {w}
  BY DEF Words
<1>2. ASSUME NEW r, NEW run, Drawing(r), Run(run, r, <<w>>)
      PROVE  Drawn(r, run[Len(<<w>>)], <<w>>)
  <2>1. run[1] = Consume(r, w)
    BY <1>1, <1>2 DEF Run
  <2>2. r.phase = "reg" /\ \E T : r \in States("reg", T)
    BY <1>2 DEF Drawing, States
  <2>3. Consume(r, w) = [r EXCEPT !.target = Append(@, w),
                                  !.colors = Append(@, Head(r.calls))]
    BY <2>2 DEF Consume, Plain
  <2>4. Writes(r, w, run[1])
    BY <2>1, <2>2, <2>3 DEF States, Writes
  <2>5. /\ Drawing(run[1]) /\ run[1].calls = r.calls
        /\ Words(run[1].target) = Words(r.target) \cup {w}
    BY <1>2, <2>4, Written, Zenon
  <2> QED BY <1>1, <2>5 DEF Drawn
<1> QED BY <1>1, <1>2 DEF WellFormed

\* A character that is written because it has been escaped.
LEMMA WellFormedEscaped ==
    ASSUME NEW w
    PROVE  WellFormed(Escaped(w))
<1>1. /\ Escaped(w) \in Seq({Backslash, w}) /\ Len(Escaped(w)) = 2
      /\ Escaped(w)[1] = Backslash /\ Escaped(w)[2] = w
      /\ Words(Escaped(w)) = {Backslash, w}
  BY DEF Words, Escaped
<1>2. ASSUME NEW r, NEW run, Drawing(r), Run(run, r, Escaped(w))
      PROVE  Drawn(r, run[Len(Escaped(w))], Escaped(w))
  <2>1. run[1] = Consume(r, Backslash) /\ run[2] = Consume(run[1], w)
    BY <1>1, <1>2 DEF Run
  <2>2. r.phase = "reg" /\ \E T : r \in States("reg", T)
    BY <1>2 DEF Drawing, States
  <2>3. run[1] = [r EXCEPT !.phase = "escaped"]
    BY <2>1, <2>2 DEF Consume
  <2>4. run[1].phase = "escaped"
    BY <2>2, <2>3 DEF States
  <2>5. run[2] = [run[1] EXCEPT !.target = Append(@, w),
                     !.colors = Append(@, Head(run[1].calls)), !.phase = "reg"]
    BY <2>1, <2>4 DEF Consume
  <2>6. Writes(r, w, run[2])
    BY <2>2, <2>3, <2>5 DEF States, Writes
  <2>7. /\ Drawing(run[2]) /\ run[2].calls = r.calls
        /\ Words(run[2].target) = Words(r.target) \cup {w}
    <3>1. \A e : Writes(r, w, e) => /\ Drawing(e) /\ e.calls = r.calls
                                    /\ Words(e.target) = Words(r.target) \cup {w}
      BY <1>2, Written, Zenon
    <3> QED BY <2>6, <3>1
  <2> QED BY <1>1, <2>7 DEF Drawn, Markup
<1> QED BY <1>1, <1>2 DEF WellFormed

\* A call of render_line and the return from it.
LEMMA Called ==
    ASSUME NEW S, NEW s \in Seq(S), NEW c \in S
    PROVE  /\ <<c>> \o s \in Seq(S) /\ <<c>> \o s # <<>>
           /\ Len(<<c>> \o s) = Len(s) + 1
           /\ Tail(<<c>> \o s) = s
<1>1. PICK one \in Seq(S) : one = <<c>> /\ Len(one) = 1
  <2>1. <<c>> \in Seq(S) /\ Len(<<c>>) = 1
    OBVIOUS
  <2> QED BY <2>1, Zenon
<1>2. PICK n \in Nat : n = Len(s)
  OBVIOUS
<1>3. PICK t \in Seq(S) :
          /\ t = one \o s /\ Len(t) = n + 1
          /\ \A i \in 1 .. n : t[i + 1] = s[i]
  <2>1. one \o s \in Seq(S) /\ Len(one \o s) = n + 1
    BY <1>1, <1>2, ConcatProperties
  <2>2. ASSUME NEW i \in 1 .. n PROVE (one \o s)[i + 1] = s[i]
    <3>1. i + 1 \in 1 .. 1 + n /\ ~(i + 1 <= 1) /\ (i + 1) - 1 = i
      OBVIOUS
    <3> QED BY <1>1, <1>2, <3>1, ConcatProperties
  <2> QED BY <2>1, <2>2
<1>4. t # <<>>
  BY <1>2, <1>3
<1>5. Tail(t) \in Seq(S) /\ Len(Tail(t)) = n /\ \A i \in 1 .. n : Tail(t)[i] = t[i + 1]
  BY <1>2, <1>3, <1>4
<1>6. Tail(t) = s
  BY <1>2, <1>3, <1>5
<1> QED BY <1>1, <1>2, <1>3, <1>4, <1>6

LEMMA WellFormedColored ==
    ASSUME NEW c \in Palette, NEW p, WellFormed(p)
    PROVE  WellFormed(Colored(c, p))
<1> DEFINE front == <<Open, <<c>>, Colon>>
           back == <<Close>>
<1>1. PICK P : p \in Seq(P)
  BY DEF WellFormed
<1>2. /\ front \in Seq({Open, <<c>>, Colon}) /\ Len(front) = 3
      /\ front[1] = Open /\ front[2] = <<c>> /\ front[3] = Colon
      /\ Words(front) = {Open, <<c>>, Colon}
  BY DEF Words
<1>3. /\ back \in Seq({Close}) /\ Len(back) = 1 /\ back[1] = Close
      /\ Words(back) = {Close}
  BY DEF Words
<1> HIDE DEF front, back
<1>4. PICK F : front \in Seq(F)
  BY <1>2, Zenon
<1>5. PICK C : back \in Seq(C)
  BY <1>3, Zenon
<1>6. PICK begun : begun = front \o p
  OBVIOUS
<1>7. PICK B : begun \in Seq(B) /\ Words(begun) = Words(front) \cup Words(p)
  BY <1>1, <1>4, <1>6, WordsConcat
<1>8. /\ begun \o back \in Seq(B \cup C)
       /\ Words(begun \o back) = Words(begun) \cup Words(back)
  <2>1. begun \in Seq(B)
    BY <1>7
  <2> QED BY <1>5, <2>1, WordsConcat
<1>9. Colored(c, p) = begun \o back
  BY <1>6 DEF Colored, front, back
<1>10. /\ Colored(c, p) \in Seq(B \cup C)
      /\ Words(Colored(c, p)) = Words(p) \cup {Open, <<c>>, Colon, Close}
  BY <1>2, <1>3, <1>9, <1>7, <1>8
<1>11. ASSUME NEW r, NEW run, Drawing(r), Run(run, r, Colored(c, p))
      PROVE  Drawn(r, run[Len(Colored(c, p))], Colored(c, p))
  <2>1. PICK inside, after, last, end :
            /\ Run(run, r, front) /\ inside = run[3]
            /\ Run(after, inside, p) /\ last = after[Len(p)]
            /\ end = Consume(last, Close) /\ end = run[Len(Colored(c, p))]
    <3>1. PICK ending :
              /\ Run(run, r, begun) /\ Run(ending, run[Len(begun)], back)
              /\ ending[Len(back)] = run[Len(begun \o back)]
      BY <1>9, <1>11, <1>5, <1>7, RunSplit
    <3>2. PICK after :
              /\ Run(run, r, front) /\ Run(after, run[Len(front)], p)
              /\ after[Len(p)] = run[Len(begun)]
      BY <1>1, <1>4, <1>6, <3>1, RunSplit
    <3>3. ending[1] = Consume(after[Len(p)], Close)
      BY <1>3, <3>1, <3>2 DEF Run
    <3> QED BY <1>2, <1>3, <1>9, <3>1, <3>2, <3>3
  <2>2. PICK T : r \in States("reg", T) /\ r.calls # <<>> /\ Len(r.colors) = Len(r.target)
    BY <1>11 DEF Drawing
  <2>3. PICK calls \in Seq(Palette) :
            /\ calls = <<c>> \o r.calls /\ calls # <<>>
            /\ Len(calls) = Len(r.calls) + 1 /\ Tail(calls) = r.calls
    <3>1. r.calls \in Seq(Palette)
      BY <2>2 DEF States
    <3> QED BY <3>1, Called, Zenon
  <2>4. inside = [r EXCEPT !.color_char = c, !.calls = calls]
    <3>1. /\ run[1] = Consume(r, Open) /\ run[2] = Consume(run[1], <<c>>)
          /\ inside = Consume(run[2], Colon)
      BY <1>2, <2>1 DEF Run
    <3>2. run[1] = [r EXCEPT !.phase = "choose_color"]
      BY <2>2, <3>1 DEF Consume, States, Open, Backslash
    <3>3. run[1] \in States("choose_color", T)
      BY <2>2, <3>2 DEF States
    <3>4. run[2] = [run[1] EXCEPT !.color_char = c, !.phase = "look_for_colon"]
      <4>1. run[1].phase = "choose_color"
        BY <3>3 DEF States
      <4> QED BY <3>1, <4>1 DEF Consume
    <3>5. run[2] = [r EXCEPT !.color_char = c, !.phase = "look_for_colon"]
      BY <2>2, <3>2, <3>4 DEF States
    <3>6. run[2] \in States("look_for_colon", T) /\ run[2].color_char = c
          /\ run[2].calls = r.calls
      BY <2>2, <3>5 DEF States
    <3>7. inside = [run[2] EXCEPT !.calls = <<c>> \o r.calls, !.phase = "reg"]
      <4>1. run[2].phase = "look_for_colon"
        BY <3>6 DEF States
      <4> QED BY <3>1, <3>6, <4>1 DEF Consume
    <3>8. inside = [run[2] EXCEPT !.calls = calls, !.phase = "reg"]
      BY <2>3, <3>7
    <3> QED BY <2>2, <3>5, <3>8 DEF States
  <2>5. /\ Drawing(inside) /\ inside.calls = calls
        /\ inside.target = r.target
    <3>1. inside \in States("reg", T) /\ inside.calls = calls
          /\ inside.target = r.target /\ inside.colors = r.colors
      BY <2>2, <2>4 DEF States
    <3> QED BY <2>2, <2>3, <3>1 DEF Drawing
  <2>6. /\ Drawing(last) /\ last.calls = calls
        /\ Words(last.target) \ Markup = (Words(r.target) \cup Words(p)) \ Markup
    BY <2>1, <2>5 DEF WellFormed, Drawn
  <2>7. PICK U : last \in States("reg", U) /\ Len(last.colors) = Len(last.target)
    BY <2>6 DEF Drawing
  <2>8. end = [last EXCEPT !.calls = r.calls]
    <3>1. Len(r.calls) \in Nat /\ Len(r.calls) # 0
      BY <2>2 DEF States
    <3>2. last.phase = "reg" /\ Len(last.calls) # 1
      BY <2>3, <2>6, <2>7, <3>1 DEF States
    <3>3. end = [last EXCEPT !.calls = Tail(last.calls)]
      BY <2>1, <3>2 DEF Consume, Close, Open, Backslash
    <3> QED BY <2>3, <2>6, <3>3
  <2>9. /\ Drawing(end) /\ end.calls = r.calls /\ end.target = last.target
    <3>1. r.calls \in Seq(Palette)
      BY <2>2 DEF States
    <3>2. end \in States("reg", U) /\ end.calls = r.calls
          /\ end.target = last.target /\ end.colors = last.colors
      BY <2>7, <2>8, <3>1 DEF States
    <3> QED BY <2>2, <2>7, <3>2 DEF Drawing
  <2>10. Words(end.target) \ Markup = (Words(r.target) \cup Words(Colored(c, p))) \ Markup
    <3>1. {Open, <<c>>, Colon, Close} \subseteq Markup
      BY DEF Markup
    <3> QED BY <1>10, <2>6, <2>9, <3>1
  <2> QED BY <2>1, <2>9, <2>10 DEF Drawn
<1> QED BY <1>10, <1>11 DEF WellFormed

-----------------------------------------------------------------------------
(* The inductive invariant: an object while it is read.                     *)

Classes == {"Weapon", "EsWeapon", "Frame", "Barrier", "Unit", "Mag", "Tech",
            "Tool", "Meseta", "TotallyUnknownItem"}

\* The members an object may have; the letters of a name are not looked at.
Objects(letters) ==
    [code : Codes \cup {NoValue}, kills : Word \cup {k_has_no_kill_counter},
     special : 0 .. k_demons, tekked : BOOLEAN, wrapped : BOOLEAN, grind : Byte,
     attributes : [Attributes -> -128 .. 127], count : Nat, top : -128 .. 127,
     letters : {letters}, slots : Byte, dfp : Byte, evp : Byte,
     levels : [1 .. 4 -> Byte], percentages : [1 .. 4 -> 0 .. 99],
     feeding : Int, quantity : Int, level : 0 .. 256, tech : 0 .. \h12]

Types ==
    /\ pc \in {"make", "code", "fields", "printed", "failed", "unread"}
    /\ inBank \in BOOLEAN
    /\ seen \in Seq(Codes)
    /\ todo \in Seq(Fields)
    /\ DOMAIN raw \subseteq Fields
    /\ \A f \in DOMAIN raw : raw[f] \in Widths[f]
    /\ item \in Objects(item.letters) /\ item.count <= 3

\* Where the loading is: the code is read twice and then a field at a time.
Place ==
    /\ pc = "make" => Len(seen) = 0
    /\ pc = "code" => Len(seen) = 1
    /\ pc \in {"fields", "printed", "failed"} => Len(seen) = 2 /\ item.code = seen[2]
    /\ Len(seen) <= 2
    /\ pc \in {"code", "fields", "printed"} => class \in Classes
    /\ pc \in {"make", "code"} => todo = <<>> /\ DOMAIN raw = {}
    /\ pc = "printed" => todo = <<>>

\* Every field of the class is read once.
Distinct(fields) ==
    \A i, j \in 1 .. Len(fields) : i # j => fields[i] # fields[j]

Pending ==
    /\ Distinct(todo)
    /\ Words(todo) \cap DOMAIN raw = {}
    /\ pc \in {"fields", "printed"} =>
           /\ class = "Weapon" =>
                  {"special", "grind", "attributes"} \subseteq Words(todo) \cup DOMAIN raw
           /\ Entries[item.code].counter <=> "kills" \in Words(todo) \cup DOMAIN raw

\* What the bytes of its attributes make of an object.
Gained(i, slots) ==
    GameWrites(slots) =>
        /\ i.top = 0
        /\ i.count = 0 <=> Percentages(slots) = {}
        /\ {<<"percent", a, i.attributes[a]>> :
               a \in {b \in Attributes : i.attributes[b] # 0}} = Percentages(slots)

\* The members are what the bytes say, or what the constructor gave them.
Agreeing ==
    /\ pc # "failed" /\ "special" \in DOMAIN raw =>
           /\ item.special = raw["special"] % 64
           /\ item.tekked <=> raw["special"] <= \h7F
           /\ item.wrapped <=> raw["special"] > \hBF \/ raw["special"] \in \h40 .. \h7F
    /\ "grind" \in DOMAIN raw => item.grind = raw["grind"]
    /\ item.kills = IF "kills" \in DOMAIN raw THEN raw["kills"]
                    ELSE k_has_no_kill_counter
    /\ IF "attributes" \in DOMAIN raw THEN Gained(item, raw["attributes"])
       ELSE item.count = 0 /\ item.top = 0 /\ \A a \in Attributes : item.attributes[a] = 0

Failing ==
    pc = "failed" =>
        \/ "special" \in DOMAIN raw /\ raw["special"] % 64 > k_demons
        \/ "tech" \in DOMAIN raw /\ raw["tech"] > \h12

ItemInv == Types /\ Place /\ Pending /\ Agreeing /\ Failing

\* One round of load_attributes' loop. What it leaves alone are the members
\* that are not the attributes.
Others(i) == <<i.code, i.kills, i.special, i.tekked, i.wrapped, i.grind>>

Wrote(i, k, id, percent) ==
    /\ Others(k) = Others(i)
    /\ k.count = i.count + IF id < 6 /\ percent # 0 THEN 1 ELSE 0
    /\ k.top = i.top \/ (id = 0 /\ k.top = percent)
    /\ \A a \in Attributes : k.attributes[a] = IF a = id THEN percent ELSE i.attributes[a]

LEMMA AttributeWritten ==
    ASSUME NEW letters, NEW i \in Objects(letters),
           NEW id \in Byte, NEW percent \in -128 .. 127
    PROVE  /\ WriteAttribute(i, id, percent) # {}
           /\ \A k \in WriteAttribute(i, id, percent) :
                  k \in Objects(letters) /\ Wrote(i, k, id, percent)
<1> DEFINE counted == [i EXCEPT !.count = @ + IF percent # 0 THEN 1 ELSE 0]
<1>1. /\ counted \in Objects(letters)
      /\ Others(counted) = Others(i)
      /\ counted.count = i.count + IF percent # 0 THEN 1 ELSE 0
      /\ counted.top = i.top /\ counted.attributes = i.attributes
  BY DEF Objects, Others
<1> HIDE DEF counted
<1>2. CASE id >= 6
  <2>1. WriteAttribute(i, id, percent) = {i}
    BY <1>2 DEF WriteAttribute
  <2>2. i \in Objects(letters) /\ i.count \in Nat
    BY DEF Objects
  <2>3. \A a \in Attributes : a # id
    BY <1>2 DEF Attributes
  <2> QED BY <1>2, <2>1, <2>2, <2>3 DEF Byte, Wrote
<1>3. CASE id = 0
  <2> DEFINE topped == [counted EXCEPT !.top = percent]
  <2>1. WriteAttribute(i, id, percent) = {counted, topped}
    BY <1>3 DEF WriteAttribute, counted
  <2>2. /\ topped \in Objects(letters)
        /\ Others(topped) = Others(counted)
        /\ topped.count = counted.count /\ topped.top = percent
        /\ topped.attributes = counted.attributes
    BY <1>1 DEF Objects, Others
  <2> HIDE DEF topped
  <2>3. \A a \in Attributes : a # id
    BY <1>3 DEF Attributes
  <2> QED BY <1>1, <1>3, <2>1, <2>2, <2>3 DEF Wrote
<1>4. CASE id \in 1 .. 5
  <2> DEFINE written == [counted EXCEPT !.attributes[id] = percent]
  <2>1. WriteAttribute(i, id, percent) = {written}
    BY <1>4 DEF WriteAttribute, counted
  <2>2. id \in Attributes
    BY <1>4 DEF Attributes
  <2>3. /\ written \in Objects(letters)
        /\ Others(written) = Others(counted)
        /\ written.count = counted.count /\ written.top = counted.top
        /\ written.attributes = [counted.attributes EXCEPT ![id] = percent]
    BY <1>1, <2>2 DEF Objects, Others
  <2>4. counted.attributes \in [Attributes -> -128 .. 127]
    BY <1>1 DEF Objects
  <2> HIDE DEF written
  <2>5. \A a \in Attributes :
            written.attributes[a] = IF a = id THEN percent ELSE i.attributes[a]
    BY <1>1, <2>2, <2>3, <2>4
  <2>6. /\ written \in Objects(letters) /\ Others(written) = Others(i)
        /\ written.count = i.count + IF id < 6 /\ percent # 0 THEN 1 ELSE 0
        /\ written.top = i.top
    BY <1>1, <1>4, <2>3
  <2> QED BY <2>1, <2>5, <2>6 DEF Wrote
<1> QED BY <1>2, <1>3, <1>4 DEF Byte

\* The loop as a whole, on an object that has no attributes yet.
LEMMA AttributesLoaded ==
    ASSUME NEW letters, NEW i \in Objects(letters), i.top = 0, i.count = 0,
           \A a \in Attributes : i.attributes[a] = 0,
           NEW slots \in Widths["attributes"]
    PROVE  /\ load_attributes(i, slots) # {}
           /\ \A k \in load_attributes(i, slots) :
                  /\ k \in Objects(letters) /\ k.count <= 3
                  /\ Others(k) = Others(i)
                  /\ Gained(k, slots)
<1>1. \A n \in 1 .. 3 : slots[n][1] \in Byte /\ slots[n][2] \in -128 .. 127
  BY DEF Widths
<1>2. PICK id1 \in Byte, p1 \in -128 .. 127 : id1 = slots[1][1] /\ p1 = slots[1][2]
  BY <1>1
<1>3. PICK id2 \in Byte, p2 \in -128 .. 127 : id2 = slots[2][1] /\ p2 = slots[2][2]
  BY <1>1
<1>4. PICK id3 \in Byte, p3 \in -128 .. 127 : id3 = slots[3][1] /\ p3 = slots[3][2]
  BY <1>1
<1>5. load_attributes(i, slots) =
          UNION { UNION { WriteAttribute(k, id3, p3) : k \in WriteAttribute(j, id2, p2) } :
                  j \in WriteAttribute(i, id1, p1) }
  BY <1>2, <1>3, <1>4 DEF load_attributes
<1>6. \A o \in Objects(letters), id \in Byte, p \in -128 .. 127 :
          /\ WriteAttribute(o, id, p) # {}
          /\ \A k \in WriteAttribute(o, id, p) :
                 k \in Objects(letters) /\ Wrote(o, k, id, p)
  BY AttributeWritten
<1>7. load_attributes(i, slots) # {}
  <2>1. PICK j \in WriteAttribute(i, id1, p1) : j \in Objects(letters)
    BY <1>6
  <2>2. PICK k \in WriteAttribute(j, id2, p2) : k \in Objects(letters)
    BY <1>6, <2>1
  <2>3. PICK z : z \in WriteAttribute(k, id3, p3)
    BY <1>6, <2>2
  <2> QED BY <1>5, <2>3
<1>8. ASSUME NEW z \in load_attributes(i, slots)
      PROVE  /\ z \in Objects(letters) /\ z.count <= 3
             /\ Others(z) = Others(i)
             /\ Gained(z, slots)
  <2>1. PICK j \in WriteAttribute(i, id1, p1) :
            \E k \in WriteAttribute(j, id2, p2) : z \in WriteAttribute(k, id3, p3)
    BY <1>5
  <2>2. PICK k \in WriteAttribute(j, id2, p2) : z \in WriteAttribute(k, id3, p3)
    BY <2>1
  <2>3. j \in Objects(letters) /\ Wrote(i, j, id1, p1)
    BY <1>6
  <2>4. k \in Objects(letters) /\ Wrote(j, k, id2, p2)
    BY <1>6, <2>3
  <2>5. z \in Objects(letters) /\ Wrote(k, z, id3, p3)
    BY <1>6, <2>2, <2>4
  <2>6. z.count <= 3
    BY <2>3, <2>4, <2>5 DEF Wrote
  <2>7. ASSUME GameWrites(slots)
        PROVE  /\ z.top = 0
               /\ z.count = 0 <=> Percentages(slots) = {}
               /\ {<<"percent", a, z.attributes[a]>> :
                      a \in {b \in Attributes : z.attributes[b] # 0}} = Percentages(slots)
    <3>1. /\ id1 \in Attributes => id1 # id2 /\ id1 # id3
          /\ id2 \in Attributes => id2 # id3
          /\ id1 = 0 => p1 = 0
          /\ id2 = 0 => p2 = 0
          /\ id3 = 0 => p3 = 0
      BY <1>2, <1>3, <1>4, <2>7 DEF GameWrites
    <3>2. z.top = 0
      BY <2>3, <2>4, <2>5, <3>1 DEF Wrote
    <3>3. /\ \A w \in Percentages(slots) :
                 \/ id1 \in Attributes /\ p1 # 0 /\ w = <<"percent", id1, p1>>
                 \/ id2 \in Attributes /\ p2 # 0 /\ w = <<"percent", id2, p2>>
                 \/ id3 \in Attributes /\ p3 # 0 /\ w = <<"percent", id3, p3>>
          /\ id1 \in Attributes /\ p1 # 0 => <<"percent", id1, p1>> \in Percentages(slots)
          /\ id2 \in Attributes /\ p2 # 0 => <<"percent", id2, p2>> \in Percentages(slots)
          /\ id3 \in Attributes /\ p3 # 0 => <<"percent", id3, p3>> \in Percentages(slots)
      BY <1>2, <1>3, <1>4 DEF Percentages
    <3>4. \A a \in Attributes :
              z.attributes[a] = IF a = id3 THEN p3 ELSE IF a = id2 THEN p2
                                ELSE IF a = id1 THEN p1 ELSE 0
      BY <2>3, <2>4, <2>5 DEF Wrote
    <3>5. \A a \in Attributes :
              z.attributes[a] # 0 => <<"percent", a, z.attributes[a]>> \in Percentages(slots)
      BY <3>3, <3>4
    <3>6. \A w \in Percentages(slots) :
              \E a \in Attributes : z.attributes[a] # 0 /\ w = <<"percent", a, z.attributes[a]>>
      BY <3>1, <3>3, <3>4
    <3>7. z.count = 0 <=> Percentages(slots) = {}
      <4>1. z.count = 0 <=> ~ \/ id1 < 6 /\ p1 # 0
                              \/ id2 < 6 /\ p2 # 0
                              \/ id3 < 6 /\ p3 # 0
        BY <2>3, <2>4, <2>5 DEF Wrote
      <4>2. \A id \in Byte : id \in Attributes <=> id < 6 /\ id # 0
        BY DEF Byte, Attributes
      <4> QED BY <3>1, <3>3, <4>1, <4>2
    <3> QED BY <3>2, <3>5, <3>6, <3>7
  <2> QED BY <2>3, <2>4, <2>5, <2>6, <2>7 DEF Wrote, Gained
<1> QED BY <1>7, <1>8

\* What reading a field makes of the object: what its bytes say, and nothing
\* else.
Changed(f, v, i, k) ==
    /\ k.code = i.code
    /\ IF f = "special"
       THEN /\ k.special = v % 64
            /\ k.tekked <=> v <= \h7F
            /\ k.wrapped <=> v > \hBF \/ v \in \h40 .. \h7F
       ELSE k.special = i.special /\ k.tekked = i.tekked /\ k.wrapped = i.wrapped
    /\ k.grind = IF f = "grind" THEN v ELSE i.grind
    /\ k.kills = IF f = "kills" THEN v ELSE i.kills
    /\ IF f = "attributes" THEN Gained(k, v)
       ELSE k.attributes = i.attributes /\ k.count = i.count /\ k.top = i.top

Rest(i) == <<i.code, i.kills, i.grind, i.attributes, i.count, i.top>>

ChangedObject(f, v, i, k) ==
    k \in Objects(k.letters) /\ k.count <= 3 /\ Changed(f, v, i, k)

\* The two numbers in a mag's stat.
Level(n) == (n \div 100) % 256
Percentage(n) == n % 100

LEMMA StatSplit ==
    ASSUME NEW n \in Word
    PROVE  Level(n) \in Byte /\ Percentage(n) \in 0 .. 99
<1>1. n \in 0 .. 65535
  BY DEF Word
<1>2. PICK h : h = n \div 100
  OBVIOUS
<1>3. h \in Int
  BY <1>1, <1>2
<1>4. h % 256 \in 0 .. 255 /\ n % 100 \in 0 .. 99
  BY <1>1, <1>3
<1> QED BY <1>2, <1>4 DEF Level, Percentage, Byte

LEMMA FieldLoaded ==
    ASSUME Types, NEW f \in Fields, NEW v \in Widths[f],
           f = "attributes" => /\ item.count = 0 /\ item.top = 0
                               /\ \A a \in Attributes : item.attributes[a] = 0
    PROVE  /\ \A k \in Loaded(f, v) : ChangedObject(f, v, item, k)
           /\ Loaded(f, v) = {} => \/ f = "special" /\ v % 64 > k_demons
                                   \/ f = "tech" /\ v > \h12
<1>1. PICK letters, i : i = item /\ i \in Objects(letters) /\ i.count <= 3
  BY DEF Types
<1>2. \A l, k : k \in Objects(l) => k \in Objects(k.letters)
  BY DEF Objects
<1>3. CASE f = "kills"
  <2> DEFINE k == [i EXCEPT !.kills = v]
  <2>1. v \in Word /\ Loaded(f, v) = {k}
    BY <1>1, <1>3 DEF Loaded, Widths
  <2>2. k \in Objects(letters) /\ k.count = i.count /\ Changed(f, v, i, k)
    BY <1>1, <1>3, <2>1 DEF Changed, Objects
  <2> HIDE DEF k
  <2> QED BY <1>1, <1>2, <2>1, <2>2 DEF ChangedObject
<1>4. CASE f = "grind"
  <2> DEFINE k == [i EXCEPT !.grind = v]
  <2>1. v \in Byte /\ Loaded(f, v) = {k}
    BY <1>1, <1>4 DEF Loaded, Widths
  <2>2. k \in Objects(letters) /\ k.count = i.count /\ Changed(f, v, i, k)
    BY <1>1, <1>4, <2>1 DEF Changed, Objects
  <2> HIDE DEF k
  <2> QED BY <1>1, <1>2, <2>1, <2>2 DEF ChangedObject
<1>5. CASE f = "slots"
  <2> DEFINE k == [i EXCEPT !.slots = v]
  <2>1. v \in Byte /\ Loaded(f, v) = {k}
    BY <1>1, <1>5 DEF Loaded, Widths
  <2>2. k \in Objects(letters) /\ k.count = i.count /\ Changed(f, v, i, k)
    BY <1>1, <1>5, <2>1 DEF Changed, Objects
  <2> HIDE DEF k
  <2> QED BY <1>1, <1>2, <2>1, <2>2 DEF ChangedObject
<1>6. CASE f = "evp"
  <2> DEFINE k == [i EXCEPT !.dfp = v]
  <2>1. v \in Byte /\ Loaded(f, v) = {k}
    BY <1>1, <1>6 DEF Loaded, load_def_stats, Widths
  <2>2. k \in Objects(letters) /\ k.count = i.count /\ Changed(f, v, i, k)
    BY <1>1, <1>6, <2>1 DEF Changed, Objects
  <2> HIDE DEF k
  <2> QED BY <1>1, <1>2, <2>1, <2>2 DEF ChangedObject
<1>7. CASE f = "dfp"
  <2> DEFINE k == [i EXCEPT !.evp = v]
  <2>1. v \in Byte /\ Loaded(f, v) = {k}
    BY <1>1, <1>7 DEF Loaded, load_def_stats, Widths
  <2>2. k \in Objects(letters) /\ k.count = i.count /\ Changed(f, v, i, k)
    BY <1>1, <1>7, <2>1 DEF Changed, Objects
  <2> HIDE DEF k
  <2> QED BY <1>1, <1>2, <2>1, <2>2 DEF ChangedObject
<1>8. CASE f = "timer"
  <2> DEFINE k == [i EXCEPT !.feeding = v]
  <2>1. v \in Int /\ Loaded(f, v) = {k}
    BY <1>1, <1>8 DEF Loaded, Widths
  <2>2. k \in Objects(letters) /\ k.count = i.count /\ Changed(f, v, i, k)
    BY <1>1, <1>8, <2>1 DEF Changed, Objects
  <2> HIDE DEF k
  <2> QED BY <1>1, <1>2, <2>1, <2>2 DEF ChangedObject
<1>9. CASE f = "quantity"
  <2> DEFINE k == [i EXCEPT !.quantity = v]
  <2>1. v \in Int /\ Loaded(f, v) = {k}
    BY <1>1, <1>9 DEF Loaded, Widths
  <2>2. k \in Objects(letters) /\ k.count = i.count /\ Changed(f, v, i, k)
    BY <1>1, <1>9, <2>1 DEF Changed, Objects
  <2> HIDE DEF k
  <2> QED BY <1>1, <1>2, <2>1, <2>2 DEF ChangedObject
<1>10. CASE f = "level"
  <2> DEFINE k == [i EXCEPT !.level = v + 1]
  <2>1. v + 1 \in 0 .. 256 /\ Loaded(f, v) = {k}
    BY <1>1, <1>10 DEF Loaded, load_level_and_type, Widths, Byte
  <2>2. k \in Objects(letters) /\ k.count = i.count /\ Changed(f, v, i, k)
    BY <1>1, <1>10, <2>1 DEF Changed, Objects
  <2> HIDE DEF k
  <2> QED BY <1>1, <1>2, <2>1, <2>2 DEF ChangedObject
<1>11. CASE f = "special"
  <2>1. PICK u \in 0 .. 255 : u = v
    BY <1>11 DEF Widths, Byte
  <2>2. u % 64 \in 0 .. 63
    OBVIOUS
  <2>3. CASE u % 64 > k_demons
    BY <1>11, <2>1, <2>3 DEF Loaded, load_special, to_weapon_special
  <2>4. CASE ~(u % 64 > k_demons)
    <3>1. PICK s \in 0 .. k_demons : s = u % 64
      BY <2>2, <2>4 DEF k_demons
    <3>2. PICK t \in BOOLEAN : t <=> u <= \h7F
      BY Zenon
    <3>3. PICK w \in BOOLEAN : w <=> u > \hBF \/ u \in \h40 .. \h7F
      BY Zenon
    <3> DEFINE k1 == [i EXCEPT !.special = s]
               k2 == [k1 EXCEPT !.tekked = t]
               k == [k2 EXCEPT !.wrapped = w]
    <3>4. Loaded(f, u) = {k}
      <4>1. to_weapon_special(u % 64) = {s}
        BY <2>4, <3>1 DEF to_weapon_special
      <4>2. t = (u <= \h7F) /\ w = (u > \hBF \/ u \in \h40 .. \h7F)
        BY <3>2, <3>3
      <4>3. load_special(u) =
                {[item EXCEPT !.special = x, !.tekked = u <= \h7F,
                              !.wrapped = u > \hBF \/ u \in \h40 .. \h7F] :
                    x \in to_weapon_special(u % 64)}
        BY DEF load_special
      <4>4. load_special(u) =
                {[item EXCEPT !.special = x, !.tekked = u <= \h7F,
                              !.wrapped = u > \hBF \/ u \in \h40 .. \h7F] : x \in {s}}
        BY <4>1, <4>3, Zenon
      <4>5. load_special(u) =
                {[item EXCEPT !.special = s, !.tekked = u <= \h7F,
                              !.wrapped = u > \hBF \/ u \in \h40 .. \h7F]}
        BY <4>4
      <4>6. load_special(u) = {[i EXCEPT !.special = s, !.tekked = t, !.wrapped = w]}
        BY <1>1, <4>2, <4>5
      <4>7. load_special(u) = {k}
        BY <4>6
      <4> QED BY <1>11, <2>1, <4>7 DEF Loaded
    <3>5. /\ k1 \in Objects(letters) /\ k1.special = s /\ k1.tekked = i.tekked
          /\ k1.wrapped = i.wrapped /\ Rest(k1) = Rest(i)
      BY <1>1 DEF Objects, Rest
    <3>6. /\ k2 \in Objects(letters) /\ k2.special = s /\ k2.tekked = t
          /\ k2.wrapped = i.wrapped /\ Rest(k2) = Rest(i)
      <4> HIDE DEF k1
      <4> QED BY <3>5 DEF Objects, Rest
    <3>7. /\ k \in Objects(letters) /\ k.special = s /\ k.tekked = t
          /\ k.wrapped = w /\ Rest(k) = Rest(i)
      <4> HIDE DEF k2
      <4> QED BY <3>6 DEF Objects, Rest
    <3> HIDE DEF k
    <3>8. Changed(f, u, i, k)
      BY <1>11, <3>1, <3>2, <3>3, <3>7 DEF Changed, Rest
    <3>9. k.count = i.count
      BY <3>7 DEF Rest
    <3> QED BY <1>1, <1>2, <2>1, <3>4, <3>7, <3>8, <3>9 DEF ChangedObject
  <2> QED BY <2>3, <2>4
<1>12. CASE f = "attributes"
  <2>1. Loaded(f, v) = load_attributes(item, v) /\ v \in Widths["attributes"]
    BY <1>12 DEF Loaded
  <2>2. /\ load_attributes(item, v) # {}
        /\ \A k \in load_attributes(item, v) :
               /\ k \in Objects(letters) /\ k.count <= 3
               /\ Others(k) = Others(item)
               /\ Gained(k, v)
    BY <1>1, <1>12, <2>1, AttributesLoaded
  <2>3. ASSUME NEW k \in load_attributes(item, v) PROVE ChangedObject(f, v, item, k)
    <3>1. k \in Objects(k.letters) /\ k.count <= 3 /\ Gained(k, v)
      BY <1>2, <2>2
    <3>2. /\ k.code = item.code /\ k.kills = item.kills /\ k.special = item.special
          /\ k.tekked = item.tekked /\ k.wrapped = item.wrapped /\ k.grind = item.grind
      BY <2>2 DEF Others
    <3> QED BY <1>12, <3>1, <3>2 DEF ChangedObject, Changed
  <2> QED BY <2>1, <2>2, <2>3
<1>13. CASE f = "name"
  <2>1. PICK l : l = SelectSeq(v, IsLetter)
    OBVIOUS
  <2> DEFINE k == [i EXCEPT !.letters = l]
  <2>2. Loaded(f, v) = {k}
    BY <1>1, <1>13, <2>1 DEF Loaded, parse_esrank_name
  <2>3. k \in Objects(l) /\ k.count = i.count /\ Changed(f, v, i, k)
    BY <1>1, <1>13 DEF Changed, Objects
  <2> HIDE DEF k
  <2> QED BY <1>1, <1>2, <2>2, <2>3 DEF ChangedObject
<1>14. CASE f = "stats"
  <2>1. v \in [1 .. 4 -> Word] /\ Loaded(f, v) = load_stats(v)
    BY <1>14 DEF Loaded, Widths
  <2>2. PICK levels \in [1 .. 4 -> Byte], percentages \in [1 .. 4 -> 0 .. 99] :
            /\ levels = [s \in 1 .. 4 |-> (v[s] \div 100) % 256]
            /\ percentages = [s \in 1 .. 4 |-> v[s] % 100]
    <3>1. \A n \in Word : Level(n) \in Byte /\ Percentage(n) \in 0 .. 99
      BY StatSplit
    <3>2. [s \in 1 .. 4 |-> Level(v[s])] \in [1 .. 4 -> Byte]
      BY <2>1, <3>1
    <3>3. [s \in 1 .. 4 |-> Percentage(v[s])] \in [1 .. 4 -> 0 .. 99]
      BY <2>1, <3>1
    <3> QED BY <3>2, <3>3 DEF Level, Percentage
  <2> DEFINE k1 == [i EXCEPT !.levels = levels]
             k == [k1 EXCEPT !.percentages = percentages]
  <2>3. Loaded(f, v) = {k}
    BY <1>1, <2>1, <2>2 DEF load_stats
  <2>4. k1 \in Objects(letters) /\ k1.count = i.count /\ Changed(f, v, i, k1)
    BY <1>1, <1>14 DEF Changed, Objects
  <2>5. k \in Objects(letters) /\ k.count = i.count /\ Changed(f, v, i, k)
    <3> HIDE DEF k1
    <3> QED BY <1>1, <1>14, <2>4 DEF Changed, Objects
  <2> HIDE DEF k, k1
  <2> QED BY <1>1, <1>2, <2>3, <2>5 DEF ChangedObject
<1>15. CASE f = "tech"
  <2>1. v \in Byte /\ Loaded(f, v) = {[i EXCEPT !.tech = t] : t \in get_tech_type(v)}
    BY <1>1, <1>15 DEF Loaded, load_level_and_type, Widths
  <2>2. CASE v > \h12
    BY <1>15, <2>1, <2>2 DEF get_tech_type
  <2>3. CASE ~(v > \h12)
    <3> DEFINE k == [i EXCEPT !.tech = v]
    <3>1. v \in 0 .. \h12 /\ Loaded(f, v) = {k}
      BY <2>1, <2>3 DEF get_tech_type, Byte
    <3>2. k \in Objects(letters) /\ k.count = i.count /\ Changed(f, v, i, k)
      BY <1>1, <1>15, <3>1 DEF Changed, Objects
    <3> HIDE DEF k
    <3> QED BY <1>1, <1>2, <3>1, <3>2 DEF ChangedObject
  <2> QED BY <2>2, <2>3
<1> QED BY <1>3, <1>4, <1>5, <1>6, <1>7, <1>8, <1>9, <1>10, <1>11, <1>12, <1>13,
           <1>14, <1>15 DEF Fields

-----------------------------------------------------------------------------
(* It holds at first and every step keeps it.                              *)

\* What a class reads: nothing twice, and never the kills.
LEMMA FieldsOfClass ==
    ASSUME NEW c \in Classes
    PROVE  /\ FieldsOf(c) \in Seq(Fields \ {"kills"})
           /\ Distinct(FieldsOf(c))
           /\ c = "Weapon" => Words(FieldsOf(c)) = {"special", "grind", "attributes"}
<1> DEFINE q == FieldsOf(c)
           AsStated == /\ q \in Seq(Fields \ {"kills"})
                       /\ Distinct(q)
                       /\ c = "Weapon" => Words(q) = {"special", "grind", "attributes"}
<1>1. Len(q) = 0 => Distinct(q)
  BY DEF Distinct
<1>2. Len(q) = 1 => Distinct(q)
  BY DEF Distinct
<1>3. Len(q) = 2 /\ q[1] # q[2] => Distinct(q)
  BY DEF Distinct
<1>4. Len(q) = 3 /\ q[1] # q[2] /\ q[1] # q[3] /\ q[2] # q[3] => Distinct(q)
  BY DEF Distinct
<1>5. ASSUME c = "Weapon" PROVE AsStated
  <2>1. q = <<"special", "grind", "attributes">>
    BY <1>5 DEF FieldsOf
  <2>2. q \in Seq(Fields \ {"kills"}) /\ Len(q) = 3
        /\ q[1] # q[2] /\ q[1] # q[3] /\ q[2] # q[3]
    BY <2>1 DEF Fields
  <2>3. Words(q) = {"special", "grind", "attributes"}
    BY <2>1 DEF Words
  <2> HIDE DEF q
  <2> QED BY <1>4, <2>2, <2>3
<1>6. ASSUME c = "EsWeapon" PROVE AsStated
  <2>1. q = <<"special", "grind", "name">>
    BY <1>6 DEF FieldsOf
  <2>2. q \in Seq(Fields \ {"kills"}) /\ Len(q) = 3
        /\ q[1] # q[2] /\ q[1] # q[3] /\ q[2] # q[3]
    BY <2>1 DEF Fields
  <2> HIDE DEF q
  <2> QED BY <1>6, <1>4, <2>2
<1>7. ASSUME c = "Frame" PROVE AsStated
  <2>1. q = <<"slots", "evp", "dfp">>
    BY <1>7 DEF FieldsOf
  <2>2. q \in Seq(Fields \ {"kills"}) /\ Len(q) = 3
        /\ q[1] # q[2] /\ q[1] # q[3] /\ q[2] # q[3]
    BY <2>1 DEF Fields
  <2> HIDE DEF q
  <2> QED BY <1>7, <1>4, <2>2
<1>8. ASSUME c = "Barrier" PROVE AsStated
  <2>1. q = <<"evp", "dfp">>
    BY <1>8 DEF FieldsOf
  <2>2. q \in Seq(Fields \ {"kills"}) /\ Len(q) = 2
        /\ q[1] # q[2]
    BY <2>1 DEF Fields
  <2> HIDE DEF q
  <2> QED BY <1>8, <1>3, <2>2
<1>9. ASSUME c = "Mag" /\ inBank PROVE AsStated
  <2>1. q = <<"stats">>
    BY <1>9 DEF FieldsOf
  <2>2. q \in Seq(Fields \ {"kills"}) /\ Len(q) = 1
    BY <2>1 DEF Fields
  <2> HIDE DEF q
  <2> QED BY <1>9, <1>2, <2>2
<1>10. ASSUME c = "Mag" /\ ~inBank PROVE AsStated
  <2>1. q = <<"stats", "timer">>
    BY <1>10 DEF FieldsOf
  <2>2. q \in Seq(Fields \ {"kills"}) /\ Len(q) = 2
        /\ q[1] # q[2]
    BY <2>1 DEF Fields
  <2> HIDE DEF q
  <2> QED BY <1>10, <1>3, <2>2
<1>11. ASSUME c = "Tech" PROVE AsStated
  <2>1. q = <<"level", "tech">>
    BY <1>11 DEF FieldsOf
  <2>2. q \in Seq(Fields \ {"kills"}) /\ Len(q) = 2
        /\ q[1] # q[2]
    BY <2>1 DEF Fields
  <2> HIDE DEF q
  <2> QED BY <1>11, <1>3, <2>2
<1>12. ASSUME c = "Tool" \/ c = "Meseta" PROVE AsStated
  <2>1. q = <<"quantity">>
    BY <1>12 DEF FieldsOf
  <2>2. q \in Seq(Fields \ {"kills"}) /\ Len(q) = 1
    BY <2>1 DEF Fields
  <2> HIDE DEF q
  <2> QED BY <1>12, <1>2, <2>2
<1>13. ASSUME c = "Unit" \/ c = "TotallyUnknownItem" PROVE AsStated
  <2>1. q = <<>>
    BY <1>13 DEF FieldsOf
  <2>2. q \in Seq(Fields \ {"kills"}) /\ Len(q) = 0
    BY <2>1 DEF Fields
  <2> HIDE DEF q
  <2> QED BY <1>13, <1>1, <2>2
<1> HIDE DEF q
<1>14. AsStated
  BY <1>5, <1>6, <1>7, <1>8, <1>9, <1>10, <1>11, <1>12, <1>13 DEF Classes
<1> QED BY <1>14 DEF q

LEMMA InitItem == Init => ItemInv
<1> SUFFICES ASSUME Init PROVE ItemInv
  OBVIOUS
<1>1. NewItem \in Objects(NoValue) /\ NewItem.letters = NoValue
  BY DEF NewItem, Objects, Byte, k_demons, Attributes
<1>2. item \in Objects(item.letters) /\ item.count = 0 /\ item.top = 0
      /\ item.kills = k_has_no_kill_counter
      /\ \A a \in Attributes : item.attributes[a] = 0
  <2>1. item = NewItem
    BY DEF Init
  <2>2. item \in Objects(item.letters)
    BY <1>1, <2>1
  <2> QED BY <2>1, <2>2 DEF NewItem
<1>3. DOMAIN raw = {} /\ Len(todo) = 0 /\ todo \in Seq(Fields) /\ Words(todo) = {}
  BY DEF Init, Words
<1>4. Len(seen) = 0 /\ seen \in Seq(Codes)
  BY DEF Init, NoValue
<1>5. Types
  BY <1>2, <1>3, <1>4 DEF Types, Init
<1>6. Place
  BY <1>3, <1>4 DEF Place, Init
<1>7. Pending
  BY <1>3 DEF Pending, Distinct, Init
<1>8. Agreeing /\ Failing
  BY <1>2, <1>3 DEF Agreeing, Failing, Init
<1> QED BY <1>5, <1>6, <1>7, <1>8 DEF ItemInv

LEMMA MakeItemInv ==
    ASSUME ItemInv, NEW code \in Codes, MakeItem(code)
    PROVE  ItemInv'
<1>1. make_item(code) \in Classes
  <2>1. code[2] \in 1 .. 3 => <<"Frame", "Barrier", "Unit">>[code[2]] \in Classes
    BY DEF Classes
  <2> QED BY <2>1 DEF make_item, Classes
<1>2. seen' \in Seq(Codes) /\ Len(seen') = 1
  BY DEF MakeItem
<1>3. pc = "make" /\ pc' = "code" /\ class' \in Classes
  BY <1>1 DEF MakeItem
<1>4. UNCHANGED <<inBank, todo, item, raw>>
  BY DEF MakeItem
<1>5. Types'
  BY <1>2, <1>3, <1>4 DEF ItemInv, Types
<1>6. Place'
  BY <1>2, <1>3, <1>4 DEF ItemInv, Place
<1>7. Pending'
  BY <1>3, <1>4 DEF ItemInv, Pending
<1>8. Agreeing' /\ Failing'
  BY <1>3, <1>4 DEF ItemInv, Agreeing, Failing
<1> QED BY <1>5, <1>6, <1>7, <1>8 DEF ItemInv

LEMMA ReadCodeInv ==
    ASSUME ItemInv, NEW code \in Codes, ReadCode(code)
    PROVE  ItemInv'
<1> DEFINE counter == IF Entries[code].counter THEN <<"kills">> ELSE <<>>
           fields == FieldsOf(class)
<1>1. /\ pc = "code" /\ pc' = "fields" /\ class \in Classes
      /\ seen' = Append(seen, code) /\ todo' = counter \o fields
      /\ DOMAIN raw = {}
      /\ UNCHANGED <<inBank, class, raw, line>>
  BY DEF ReadCode, ItemInv, Place
<1>2. /\ fields \in Seq(Fields \ {"kills"}) /\ Distinct(fields)
      /\ class = "Weapon" => Words(fields) = {"special", "grind", "attributes"}
  BY <1>1, FieldsOfClass
<1>3. PICK n \in Nat :
          /\ n = Len(fields) /\ "kills" \notin Words(fields)
          /\ \A i \in 1 .. n : fields[i] # "kills"
  BY <1>2 DEF Words
<1>4. PICK k \in Nat :
          /\ k = Len(counter) /\ counter \in Seq({"kills"})
          /\ Entries[code].counter => k = 1 /\ counter[1] = "kills"
                                      /\ Words(counter) = {"kills"}
          /\ ~Entries[code].counter => k = 0 /\ Words(counter) = {}
  <2>1. /\ <<"kills">> \in Seq({"kills"}) /\ Len(<<"kills">>) = 1
        /\ <<"kills">>[1] = "kills" /\ Words(<<"kills">>) = {"kills"}
    BY DEF Words
  <2>2. <<>> \in Seq({"kills"}) /\ Len(<<>>) = 0 /\ Words(<<>>) = {}
    BY DEF Words
  <2>3. CASE Entries[code].counter
    <3>1. counter = <<"kills">>
      BY <2>3
    <3> QED BY <2>1, <2>3, <3>1
  <2>4. CASE ~Entries[code].counter
    <3>1. counter = <<>>
      BY <2>4
    <3> QED BY <2>2, <2>4, <3>1
  <2> QED BY <2>3, <2>4
<1> HIDE DEF counter, fields
<1>5. PICK t : t = counter \o fields
  OBVIOUS
<1>6. /\ t \in Seq({"kills"} \cup (Fields \ {"kills"}))
      /\ Len(t) = k + n
      /\ \A i \in 1 .. k : t[i] = counter[i]
      /\ \A i \in 1 .. n : t[k + i] = fields[i]
      /\ Words(t) = Words(counter) \cup Words(fields)
  <2>1. PICK P : P = {"kills"} /\ counter \in Seq(P)
    BY <1>4
  <2>2. PICK Q : Q = Fields \ {"kills"} /\ fields \in Seq(Q)
    BY <1>2
  <2>3. counter \in Seq(P) /\ fields \in Seq(Q)
    BY <2>1, <2>2
  <2>4. /\ counter \o fields \in Seq(P \cup Q)
        /\ Len(counter \o fields) = Len(counter) + Len(fields)
        /\ \A i \in 1 .. Len(counter) : (counter \o fields)[i] = counter[i]
        /\ \A i \in 1 .. Len(fields) : (counter \o fields)[Len(counter) + i] = fields[i]
        /\ Words(counter \o fields) = Words(counter) \cup Words(fields)
    BY <2>3, WordsConcat
  <2> QED BY <1>3, <1>4, <1>5, <2>1, <2>2, <2>4, Zenon
<1>7. t \in Seq(Fields)
  <2>1. {"kills"} \cup (Fields \ {"kills"}) = Fields
    BY DEF Fields
  <2> QED BY <1>6, <2>1
<1>8. Distinct(t)
  <2>1. \A i, j \in 1 .. n : i # j => fields[i] # fields[j]
    BY <1>2, <1>3 DEF Distinct
  <2>2. CASE Entries[code].counter
    <3>1. Len(t) = 1 + n /\ t[1] = "kills" /\ \A i \in 1 .. n : t[1 + i] = fields[i]
      BY <1>4, <1>6, <2>2
    <3>2. \A i \in 2 .. 1 + n : i - 1 \in 1 .. n /\ 1 + (i - 1) = i
      OBVIOUS
    <3>3. \A i \in 2 .. 1 + n : t[i] = fields[i - 1] /\ i - 1 \in 1 .. n
      BY <3>1, <3>2
    <3>4. ASSUME NEW i \in 1 .. 1 + n, NEW j \in 1 .. 1 + n, i # j PROVE t[i] # t[j]
      <4>1. CASE i # 1 /\ j # 1
        <5>1. i \in 2 .. 1 + n /\ j \in 2 .. 1 + n /\ i - 1 # j - 1
          BY <3>4, <4>1
        <5> QED BY <2>1, <3>3, <5>1
      <4>2. CASE i = 1
        <5>1. j \in 2 .. 1 + n
          BY <3>4, <4>2
        <5> QED BY <1>3, <3>1, <3>3, <4>2, <5>1
      <4>3. CASE j = 1
        <5>1. i \in 2 .. 1 + n
          BY <3>4, <4>3
        <5> QED BY <1>3, <3>1, <3>3, <4>3, <5>1
      <4> QED BY <4>1, <4>2, <4>3
    <3> QED BY <3>1, <3>4 DEF Distinct
  <2>3. CASE ~Entries[code].counter
    <3>1. k = 0 /\ Len(t) = n /\ \A i \in 1 .. n : t[k + i] = fields[i]
      BY <1>4, <1>6, <2>3
    <3>2. \A i \in 1 .. n : t[i] = fields[i]
      BY <3>1
    <3> QED BY <2>1, <3>1, <3>2 DEF Distinct
  <2> QED BY <2>2, <2>3
<1>9. seen' \in Seq(Codes) /\ Len(seen') = 2 /\ seen'[2] = code
  <2>1. PICK s \in Seq(Codes) : s = seen /\ Len(s) = 1
    BY <1>1 DEF ItemInv, Types, Place
  <2>2. Append(s, code) \in Seq(Codes) /\ Len(Append(s, code)) = 2 /\ Append(s, code)[2] = code
    BY <2>1
  <2> QED BY <1>1, <2>1, <2>2
<1>10. /\ item' \in Objects(item'.letters) /\ item'.count <= 3 /\ item'.code = code
       /\ item'.kills = item.kills /\ item'.count = item.count /\ item'.top = item.top
       /\ item'.attributes = item.attributes
  <2>1. PICK letters, i : i = item /\ i \in Objects(letters) /\ i.count <= 3
    BY DEF ItemInv, Types
  <2> DEFINE coded == [i EXCEPT !.code = code]
  <2>2. item' = coded
    BY <2>1 DEF ReadCode
  <2>3. /\ coded \in Objects(letters) /\ coded.code = code /\ coded.letters = letters
        /\ coded.kills = i.kills /\ coded.count = i.count /\ coded.top = i.top
        /\ coded.attributes = i.attributes
    BY <2>1 DEF Objects
  <2> HIDE DEF coded
  <2> QED BY <2>1, <2>2, <2>3
<1>11. todo' = t
  BY <1>1, <1>5
<1>12. Types'
  BY <1>1, <1>7, <1>9, <1>10, <1>11 DEF ItemInv, Types
<1>13. Place'
  BY <1>1, <1>9, <1>10 DEF ItemInv, Place
<1>14. Pending'
  <2>1. DOMAIN raw' = {} /\ class' = class
    BY <1>1
  <2> QED BY <1>1, <1>2, <1>3, <1>4, <1>6, <1>8, <1>10, <1>11, <2>1 DEF Pending
<1>15. Agreeing' /\ Failing'
  BY <1>1, <1>10 DEF ItemInv, Agreeing, Failing
<1> QED BY <1>12, <1>13, <1>14, <1>15 DEF ItemInv

\* The next field to read is one that has not been read, and is not read again.
LEMMA Advanced ==
    ASSUME NEW S, NEW q \in Seq(S), q # <<>>, Distinct(q)
    PROVE  /\ Head(q) \in S /\ Tail(q) \in Seq(S) /\ Distinct(Tail(q))
           /\ Words(q) = {Head(q)} \cup Words(Tail(q))
           /\ Head(q) \notin Words(Tail(q))
<1>1. PICK n \in Nat : n + 1 = Len(q)
  <2>1. Len(q) \in Nat /\ Len(q) # 0
    OBVIOUS
  <2> QED BY <2>1
<1>2. /\ Tail(q) \in Seq(S) /\ Len(Tail(q)) = n
      /\ \A i \in 1 .. n : Tail(q)[i] = q[i + 1]
      /\ Head(q) = q[1] /\ Head(q) \in S
  BY <1>1
<1>3. \A i, j \in 1 .. n + 1 : i # j => q[i] # q[j]
  BY <1>1 DEF Distinct
<1>4. /\ 1 \in 1 .. n + 1
      /\ \A i \in 1 .. n : i + 1 \in 1 .. n + 1 /\ i + 1 # 1
      /\ \A i, j \in 1 .. n : i # j => i + 1 # j + 1
      /\ \A i \in 1 .. n + 1 : i # 1 => i - 1 \in 1 .. n /\ (i - 1) + 1 = i
  OBVIOUS
<1>5. Distinct(Tail(q))
  BY <1>2, <1>3, <1>4 DEF Distinct
<1>6. Head(q) \notin Words(Tail(q))
  BY <1>2, <1>3, <1>4 DEF Words
<1>7. Words(q) \subseteq {Head(q)} \cup Words(Tail(q))
  BY <1>1, <1>2, <1>4 DEF Words
<1>8. {Head(q)} \cup Words(Tail(q)) \subseteq Words(q)
  BY <1>1, <1>2, <1>4 DEF Words
<1> QED BY <1>2, <1>5, <1>6, <1>7, <1>8

LEMMA ReadFieldInv ==
    ASSUME ItemInv, todo # <<>>, NEW v \in Values[Head(todo)],
           ReadField(Head(todo), v)
    PROVE  ItemInv'
<1>1. PICK f : f = Head(todo)
  OBVIOUS
<1>2. /\ f \in Fields /\ Tail(todo) \in Seq(Fields) /\ Distinct(Tail(todo))
      /\ Words(todo) = {f} \cup Words(Tail(todo)) /\ f \notin Words(Tail(todo))
  <2>1. todo \in Seq(Fields) /\ Distinct(todo)
    BY DEF ItemInv, Types, Pending
  <2> QED BY <1>1, <2>1, Advanced
<1>3. v \in Widths[f]
  BY <1>1, <1>2, ValuesAssumption
<1>4. /\ pc = "fields"
      /\ raw' = [g \in DOMAIN raw \cup {f} |-> IF g = f THEN v ELSE raw[g]]
      /\ IF Loaded(f, v) = {} THEN pc' = "failed" /\ item' = item
                              ELSE pc' = pc /\ item' \in Loaded(f, v)
      /\ todo' = Tail(todo)
      /\ UNCHANGED <<inBank, class, seen, line>>
  BY <1>1 DEF ReadField
<1>5. /\ DOMAIN raw' = DOMAIN raw \cup {f} /\ raw'[f] = v
      /\ \A g \in DOMAIN raw : g # f => raw'[g] = raw[g]
  BY <1>4
<1>6. f \notin DOMAIN raw
  BY <1>2 DEF ItemInv, Pending
<1>7. f = "attributes" => /\ item.count = 0 /\ item.top = 0
                          /\ \A a \in Attributes : item.attributes[a] = 0
  BY <1>6 DEF ItemInv, Agreeing
<1>8. /\ \A k \in Loaded(f, v) : ChangedObject(f, v, item, k)
      /\ Loaded(f, v) = {} => \/ f = "special" /\ v % 64 > k_demons
                              \/ f = "tech" /\ v > \h12
  BY <1>2, <1>3, <1>7, FieldLoaded DEF ItemInv
<1>9. CASE Loaded(f, v) = {}
  <2>1. /\ pc' = "failed" /\ UNCHANGED item
        /\ \/ f = "special" /\ v % 64 > k_demons
           \/ f = "tech" /\ v > \h12
    BY <1>4, <1>8, <1>9
  <2>2. Types'
    BY <1>2, <1>3, <1>4, <1>5, <2>1 DEF ItemInv, Types
  <2>3. Place'
    BY <1>4, <2>1 DEF ItemInv, Place
  <2>4. Pending'
    BY <1>2, <1>4, <1>5, <2>1 DEF ItemInv, Pending
  <2>5. Agreeing'
    BY <1>5, <1>6, <2>1 DEF ItemInv, Agreeing
  <2>6. Failing'
    BY <1>5, <2>1 DEF Failing
  <2> QED BY <2>2, <2>3, <2>4, <2>5, <2>6 DEF ItemInv
<1>10. CASE Loaded(f, v) # {}
  <2>1. pc' = "fields" /\ ChangedObject(f, v, item, item')
    BY <1>4, <1>8, <1>10
  <2>2. Types'
    BY <1>2, <1>3, <1>4, <1>5, <2>1 DEF ItemInv, Types, ChangedObject
  <2>3. Place'
    BY <1>4, <2>1 DEF ItemInv, Place, ChangedObject, Changed
  <2>4. Pending'
    BY <1>2, <1>4, <1>5, <2>1 DEF ItemInv, Pending, ChangedObject, Changed
  <2>5. Agreeing'
    <3>1. pc # "failed" /\ Changed(f, v, item, item') /\ Agreeing
      BY <1>4, <2>1 DEF ItemInv, ChangedObject
    <3>2. "special" \in DOMAIN raw' =>
              /\ item'.special = raw'["special"] % 64
              /\ item'.tekked <=> raw'["special"] <= \h7F
              /\ item'.wrapped <=> raw'["special"] > \hBF \/ raw'["special"] \in \h40 .. \h7F
      <4>1. CASE f = "special"
        BY <1>5, <3>1, <4>1 DEF Changed
      <4>2. CASE f # "special"
        BY <1>5, <3>1, <4>2 DEF Changed, Agreeing
      <4> QED BY <4>1, <4>2
    <3>3. "grind" \in DOMAIN raw' => item'.grind = raw'["grind"]
      BY <1>5, <3>1 DEF Changed, Agreeing
    <3>4. item'.kills = IF "kills" \in DOMAIN raw' THEN raw'["kills"]
                        ELSE k_has_no_kill_counter
      BY <1>5, <3>1 DEF Changed, Agreeing
    <3>5. IF "attributes" \in DOMAIN raw' THEN Gained(item', raw'["attributes"])
          ELSE /\ item'.count = 0 /\ item'.top = 0
               /\ \A a \in Attributes : item'.attributes[a] = 0
      <4>1. CASE f = "attributes"
        BY <1>5, <3>1, <4>1 DEF Changed
      <4>2. CASE f # "attributes"
        <5>1. /\ item'.attributes = item.attributes /\ item'.count = item.count
              /\ item'.top = item.top
          BY <3>1, <4>2 DEF Changed
        <5>2. ASSUME NEW slots, Gained(item, slots) PROVE Gained(item', slots)
          BY <5>1, <5>2 DEF Gained
        <5> QED BY <1>5, <3>1, <4>2, <5>1, <5>2 DEF Agreeing
      <4> QED BY <4>1, <4>2
    <3> QED BY <3>2, <3>3, <3>4, <3>5 DEF Agreeing
  <2>6. Failing'
    BY <2>1 DEF Failing
  <2> QED BY <2>2, <2>3, <2>4, <2>5, <2>6 DEF ItemInv
<1> QED BY <1>9, <1>10

\* ItemInv is an invariant of the specification.
THEOREM ItemInvariant == Spec => []ItemInv
<1>1. Init => ItemInv
  BY InitItem
<1>2. ItemInv /\ [Next]_vars => ItemInv'
  <2> SUFFICES ASSUME ItemInv, [Next]_vars PROVE ItemInv'
    OBVIOUS
  <2>1. ASSUME NEW code \in Codes, MakeItem(code) PROVE ItemInv'
    BY <2>1, MakeItemInv
  <2>2. ASSUME NEW code \in Codes, ReadCode(code) PROVE ItemInv'
    BY <2>2, ReadCodeInv
  <2>3. ASSUME todo # <<>>, NEW v \in Values[Head(todo)], ReadField(Head(todo), v)
        PROVE  ItemInv'
    BY <2>3, ReadFieldInv
  <2>4. CASE ReadFails
    BY <2>4 DEF ReadFails, ItemInv, Types, Place, Pending, Agreeing, Failing
  <2>5. CASE UpdateItemString
    BY <2>5 DEF UpdateItemString, ItemInv, Types, Place, Pending, Agreeing, Failing
  <2>6. CASE UNCHANGED vars
    <3>1. UNCHANGED <<pc, inBank, class, seen, todo, item, raw>>
      BY <2>6 DEF vars
    <3>2. Types' /\ Place'
      BY <3>1 DEF ItemInv, Types, Place
    <3>3. Pending' /\ Failing'
      BY <3>1 DEF ItemInv, Pending, Failing
    <3>4. Agreeing'
      BY <3>1 DEF ItemInv, Agreeing
    <3> QED BY <3>2, <3>3, <3>4 DEF ItemInv
  <2> QED BY <2>1, <2>2, <2>3, <2>4, <2>5, <2>6 DEF Next
<1> QED BY <1>1, <1>2, PTL DEF Spec

\* Every variable has its type, whatever is read: the special and the technique
\* are ones the program knows, a mag's levels bytes, the number of attributes
\* at most three.
THEOREM TypeCorrect == Spec => []TypeOK
<1>1. ItemInv => TypeOK
  <2> SUFFICES ASSUME ItemInv PROVE TypeOK
    OBVIOUS
  <2>1. PICK letters, i : i = item /\ i \in Objects(letters) /\ i.count <= 3
    BY DEF ItemInv, Types
  <2>2. /\ i.special \in 0 .. k_demons /\ i.tech \in 0 .. \h12
        /\ i.level \in 0 .. 256 /\ i.top \in -128 .. 127
        /\ i.count \in Nat /\ i.levels \in [1 .. 4 -> Byte]
    BY <2>1 DEF Objects
  <2>3. DOMAIN i = DOMAIN NewItem
    BY <2>1 DEF Objects, NewItem
  <2>4. Len(seen) <= 2
    BY DEF ItemInv, Place
  <2> QED BY <2>1, <2>2, <2>3, <2>4 DEF ItemInv, Types, TypeOK, Byte
<1> QED BY <1>1, ItemInvariant, PTL

-----------------------------------------------------------------------------
(* What is printed can be drawn, and what it says.                          *)

\* The words that say something of a weapon.
Kinds == {"U", "W", "special", "grind", "kills", "percent"}
Facts(pieces) == {w \in Words(pieces) : w[1] \in Kinds}

Says(pieces, facts) == WellFormed(pieces) /\ Facts(pieces) = facts

LEMMA SaysConcat ==
    ASSUME NEW p, NEW q, NEW S, NEW T, Says(p, S), Says(q, T)
    PROVE  Says(p \o q, S \cup T)
<1>1. WellFormed(p \o q)
  BY WellFormedConcat DEF Says
<1>2. PICK P : p \in Seq(P)
  BY DEF Says, WellFormed
<1>3. PICK Q : q \in Seq(Q)
  BY DEF Says, WellFormed
<1>4. Words(p \o q) = Words(p) \cup Words(q)
  BY <1>2, <1>3, WordsConcat
<1> QED BY <1>1, <1>4 DEF Says, Facts

LEMMA SaysWhen ==
    ASSUME NEW condition, NEW p, NEW S, condition => Says(p, S)
    PROVE  Says(When(condition, p), IF condition THEN S ELSE {})
<1>1. Facts(<<>>) = {}
  BY DEF Facts, Words
<1> QED BY <1>1, WellFormedEmpty DEF Says, When

LEMMA SaysWord ==
    ASSUME NEW w, Plain(w)
    PROVE  Says(<<w>>, IF w[1] \in Kinds THEN {w} ELSE {})
<1>1. Words(<<w>>) = {w}
  BY DEF Words
<1> QED BY <1>1, WellFormedWord DEF Says, Facts

LEMMA SaysColored ==
    ASSUME NEW c \in Palette, NEW p, NEW S, Says(p, S)
    PROVE  Says(Colored(c, p), S)
<1>1. WellFormed(Colored(c, p))
  BY WellFormedColored DEF Says
<1>2. PICK P : p \in Seq(P)
  BY DEF Says, WellFormed
<1>3. PICK F, front :
          /\ front \in Seq(F)
          /\ front = <<Open, <<c>>, Colon>> /\ Words(front) = {Open, <<c>>, Colon}
  <2>1. /\ <<Open, <<c>>, Colon>> \in Seq({Open, <<c>>, Colon})
        /\ Words(<<Open, <<c>>, Colon>>) = {Open, <<c>>, Colon}
    BY DEF Words
  <2> QED BY <2>1, Zenon
<1>4. PICK C, back :
          back \in Seq(C) /\ back = <<Close>> /\ Words(back) = {Close}
  <2>1. <<Close>> \in Seq({Close}) /\ Words(<<Close>>) = {Close}
    BY DEF Words
  <2> QED BY <2>1, Zenon
<1>5. PICK begun : begun = front \o p
  OBVIOUS
<1>6. PICK B : begun \in Seq(B) /\ Words(begun) = Words(front) \cup Words(p)
  BY <1>2, <1>3, <1>5, WordsConcat
<1>7. Words(Colored(c, p)) = Words(p) \cup {Open, <<c>>, Colon, Close}
  <2>1. begun \in Seq(B)
    BY <1>6
  <2>2. Words(begun \o back) = Words(begun) \cup Words(back)
    BY <1>4, <2>1, WordsConcat
  <2>3. Colored(c, p) = begun \o back
    BY <1>3, <1>4, <1>5 DEF Colored
  <2> QED BY <1>3, <1>4, <1>6, <2>2, <2>3
<1>8. \A w \in {Open, <<c>>, Colon, Close} : w[1] \notin Kinds
  BY DEF Open, Colon, Close, Kinds, Palette, k_plain, k_tool, k_gold, k_rare,
         k_untekked, k_esrank, k_defense, k_interest, k_weapon, k_uber
<1> QED BY <1>1, <1>7, <1>8 DEF Says, Facts

LEMMA SaysEscaped ==
    ASSUME NEW w, w[1] \notin Kinds
    PROVE  Says(Escaped(w), {})
<1>1. Words(Escaped(w)) = {Backslash, w}
  BY DEF Escaped, Words
<1>2. Backslash[1] \notin Kinds
  BY DEF Backslash, Kinds
<1> QED BY <1>1, <1>2, WellFormedEscaped DEF Says, Facts

\* No word is a character render_line looks for.
LEMMA PlainWords ==
    /\ \A w : Len(w) # 1 => Plain(w)
    /\ \A s : s \notin {"\\", "[", "]"} => Plain(<<s>>)
<1>1. \A w : Len(w) # 1 => Plain(w)
  BY DEF Plain, Backslash, Open, Close
<1>2. ASSUME NEW s, s \notin {"\\", "[", "]"} PROVE Plain(<<s>>)
  <2>1. <<s>>[1] = s /\ Backslash[1] = "\\" /\ Open[1] = "[" /\ Close[1] = "]"
    BY DEF Backslash, Open, Close
  <2> QED BY <1>2, <2>1 DEF Plain
<1> QED BY <1>1, <1>2

\* Every colour that is chosen is one that there is.
LEMMA Colors ==
    /\ \A rarity \in {"uber", "rare", "interest", "common", "esrank"} :
           \A default \in Palette : interpret_rarity(rarity, default) \in Palette
    /\ \A special : interpret_special(special) \in Palette
    /\ \A val, hit : get_attribute_color(val, hit) \in Palette
    /\ \A tech \in 0 .. \h12 : \A level :
           get_tech_rarity(tech, level) \in {"uber", "rare", "interest", "common", "esrank"}
    /\ {k_plain, k_tool, k_gold, k_untekked, k_esrank, k_defense, k_weapon} \subseteq Palette
<1>1. {k_plain, k_tool, k_gold, k_rare, k_untekked, k_esrank, k_defense, k_interest,
       k_weapon, k_uber} = Palette
  BY DEF Palette
<1>2. \A rarity \in {"uber", "rare", "interest", "common", "esrank"} :
          \A default \in Palette : interpret_rarity(rarity, default) \in Palette
  BY <1>1 DEF interpret_rarity
<1>3. ASSUME NEW special PROVE interpret_special(special) \in Palette
  BY <1>1 DEF interpret_special
<1>4. ASSUME NEW val, NEW hit PROVE get_attribute_color(val, hit) \in Palette
  BY <1>1 DEF get_attribute_color
<1>5. ASSUME NEW tech \in 0 .. \h12, NEW level
      PROVE  get_tech_rarity(tech, level) \in {"uber", "rare", "interest", "common", "esrank"}
  <2>1. \/ tech \in {0, 1, 3, 4, 6, 7} \/ tech \in {2, 5, 8} \/ tech \in {9, \h12}
        \/ tech \in {\hA, \hB, \hC, \hD, \hF} \/ tech = \h10 \/ tech \in {\hE, \h11}
    OBVIOUS
  <2> QED BY <2>1 DEF get_tech_rarity
<1> QED BY <1>1, <1>2, <1>3, <1>4, <1>5

\* What the database knows of the code read.
LEMMA EntryKnown ==
    ASSUME item.code \in Codes
    PROVE  /\ entry.rarity \in {"uber", "rare", "interest", "common", "esrank"}
           /\ entry.name \in {"unknown", "plain", "escaped"}
           /\ entry.counter \in BOOLEAN
BY EntriesAssumption DEF entry

\* The name, whatever the class.
LEMMA NameSays ==
    ASSUME item.code \in Codes
    PROVE  /\ Says(print_name_min, {})
           /\ \A default \in Palette : Says(print_name(default), {})
<1> DEFINE tech == <<<<"tech", item.tech>>>>
           name == <<<<"name">>>>
           code == <<<<"code", item.code>>>>
           mark == Colored(k_untekked, <<<<"?">>>>)
<1>1. /\ Says(tech, {}) /\ Says(name, {}) /\ Says(code, {}) /\ Says(<<<<"?">>>>, {})
  <2>1. /\ Plain(<<"tech", item.tech>>) /\ Plain(<<"name">>)
        /\ Plain(<<"code", item.code>>) /\ Plain(<<"?">>)
    BY PlainWords
  <2>2. /\ <<"tech", item.tech>>[1] \notin Kinds /\ <<"name">>[1] \notin Kinds
        /\ <<"code", item.code>>[1] \notin Kinds /\ <<"?">>[1] \notin Kinds
    BY DEF Kinds
  <2> QED BY <2>1, <2>2, SaysWord, Zenon
<1>2. Says(mark, {})
  BY <1>1, Colors, SaysColored
<1>3. Says(Escaped(Backslash), {})
  <2>1. Backslash[1] \notin Kinds
    BY DEF Backslash, Kinds
  <2> QED BY <2>1, SaysEscaped
<1> HIDE DEF tech, name, code, mark
<1>4. PICK pair, whole, escaped :
          /\ pair = mark \o code /\ whole = pair \o mark
          /\ escaped = Escaped(Backslash) \o name
  OBVIOUS
<1>5. Says(pair, {}) /\ Says(escaped, {})
  <2>1. \A p, q : Says(p, {}) /\ Says(q, {}) => Says(p \o q, {} \cup {})
    BY SaysConcat
  <2> QED BY <1>1, <1>2, <1>3, <1>4, <2>1
<1>6. Says(whole, {})
  <2>1. \A p, q : Says(p, {}) /\ Says(q, {}) => Says(p \o q, {} \cup {})
    BY SaysConcat
  <2> QED BY <1>2, <1>4, <1>5, <2>1
<1>7. print_name_min \in {tech, name, escaped, whole}
  BY <1>4, EntryKnown DEF print_name_min, tech, name, code, mark
<1>8. Says(print_name_min, {})
  BY <1>1, <1>5, <1>6, <1>7
<1>9. ASSUME NEW default \in Palette PROVE Says(print_name(default), {})
  BY <1>8, EntryKnown, Colors, SaysColored DEF print_name
<1> QED BY <1>8, <1>9

\* The percentages an object's attributes are printed as.
Share(a) == IF item.attributes[a] # 0
            THEN {<<"percent", a, item.attributes[a]>>} ELSE {}
Shares == {<<"percent", a, item.attributes[a]>> :
               a \in {b \in Attributes : item.attributes[b] # 0}}

LEMMA PercentSays ==
    ASSUME NEW a \in Attributes
    PROVE  Says(Percent(a), {<<"percent", a, item.attributes[a]>>})
<1> DEFINE w == <<"percent", a, item.attributes[a]>>
<1>1. Plain(w)
  BY PlainWords
<1>2. w[1] \in Kinds
  BY DEF Kinds
<1>3. Says(<<w>>, {w})
  BY <1>1, <1>2, SaysWord, Zenon
<1> QED BY <1>3, Colors, SaysColored DEF Percent

LEMMA AttributesSay ==
    /\ Says(print_single_attribute, Shares)
    /\ Says(print_multiple_attributes, Shares)
<1>1. Shares = Share(1) \cup Share(2) \cup Share(3) \cup Share(4) \cup Share(5)
  <2>1. Attributes = {1, 2, 3, 4, 5}
    BY DEF Attributes
  <2> QED BY <2>1 DEF Shares, Share
<1>2. \A p, q, S, T : Says(p, S) /\ Says(q, T) => Says(p \o q, S \cup T)
  BY SaysConcat
<1>3. ASSUME NEW p, NEW q, NEW S, Says(p, S), Says(q, {})
      PROVE  Says(p \o q, S)
  <2>1. Says(p \o q, S \cup {}) /\ S \cup {} = S
    BY <1>2, <1>3
  <2> QED BY <2>1
<1>4. Says(print_single_attribute, Shares)
  <2> DEFINE letters == <<<<"letters of">>>>
             Single(a) == When(item.attributes[a] # 0, Percent(a) \o letters)
  <2>1. Says(letters, {})
    <3>1. Plain(<<"letters of">>) /\ <<"letters of">>[1] \notin Kinds
      BY PlainWords DEF Kinds
    <3> QED BY <3>1, SaysWord, Zenon
  <2> HIDE DEF letters
  <2>2. ASSUME NEW a \in Attributes PROVE Says(Single(a), Share(a))
    <3>1. Says(Percent(a) \o letters, {<<"percent", a, item.attributes[a]>>})
      BY <1>3, <2>1, PercentSays, Zenon
    <3> QED BY <3>1, SaysWhen, Zenon DEF Share
  <2> HIDE DEF Single
  <2>3. /\ Says(Single(1), Share(1)) /\ Says(Single(2), Share(2)) /\ Says(Single(3), Share(3))
        /\ Says(Single(4), Share(4)) /\ Says(Single(5), Share(5))
    BY <2>2 DEF Attributes
  <2>4. PICK p2, p3, p4, p5 :
            /\ p2 = Single(1) \o Single(2) /\ p3 = p2 \o Single(3)
            /\ p4 = p3 \o Single(4) /\ p5 = p4 \o Single(5)
    OBVIOUS
  <2>5. Says(p2, Share(1) \cup Share(2))
    BY <1>2, <2>3, <2>4
  <2>6. Says(p3, Share(1) \cup Share(2) \cup Share(3))
    BY <1>2, <2>3, <2>4, <2>5
  <2>7. Says(p4, Share(1) \cup Share(2) \cup Share(3) \cup Share(4))
    BY <1>2, <2>3, <2>4, <2>6
  <2>8. Says(p5, Shares)
    BY <1>1, <1>2, <2>3, <2>4, <2>7
  <2>9. print_single_attribute = p5
    BY <2>4, Zenon DEF print_single_attribute, Single, letters
  <2> QED BY <2>8, <2>9
<1>5. Says(print_multiple_attributes, Shares)
  <2> DEFINE none == <<<<" - ">>>>
             Place_(a) == IF item.attributes[a] # 0 THEN Percent(a) ELSE none
             Slash == Escaped(Backslash)
             before == Escaped(Open)
             after == Escaped(Close)
             hit == When(item.attributes[k_hit] # 0, Slash \o Place_(k_hit))
  <2>1. /\ Says(none, {}) /\ Says(Slash, {}) /\ Says(before, {}) /\ Says(after, {})
    <3>1. Plain(<<" - ">>) /\ <<" - ">>[1] \notin Kinds
      BY PlainWords DEF Kinds
    <3>2. Backslash[1] \notin Kinds /\ Open[1] \notin Kinds /\ Close[1] \notin Kinds
      BY DEF Backslash, Open, Close, Kinds
    <3>3. Says(none, {})
      BY <3>1, SaysWord, Zenon
    <3> QED BY <3>2, <3>3, SaysEscaped
  <2> HIDE DEF none, Slash, before, after
  <2>2. ASSUME NEW a \in Attributes PROVE Says(Place_(a), Share(a))
    BY <2>1, PercentSays, Zenon DEF Share
  <2>3. Says(hit, Share(5))
    <3>1. k_hit \in Attributes /\ k_hit = 5
      BY DEF Attributes, k_hit
    <3>2. Says(Slash \o Place_(5), Share(5))
      <4>1. Says(Slash \o Place_(5), {} \cup Share(5))
        BY <1>2, <2>1, <2>2, <3>1
      <4> QED BY <4>1
    <3> HIDE DEF Place_
    <3>3. Says(hit, IF item.attributes[5] # 0 THEN Share(5) ELSE {})
      BY <3>1, <3>2, SaysWhen
    <3> QED BY <3>3 DEF Share
  <2> HIDE DEF Place_, hit
  <2>4. /\ Says(Place_(1), Share(1)) /\ Says(Place_(2), Share(2))
        /\ Says(Place_(3), Share(3)) /\ Says(Place_(4), Share(4))
    BY <2>2 DEF Attributes
  <2>5. PICK p1, s1, p2, s2, p3, s3, p4, p5, p6 :
            /\ p1 = before \o Place_(1) /\ s1 = p1 \o Slash /\ p2 = s1 \o Place_(2)
            /\ s2 = p2 \o Slash /\ p3 = s2 \o Place_(3) /\ s3 = p3 \o Slash
            /\ p4 = s3 \o Place_(4) /\ p5 = p4 \o hit /\ p6 = p5 \o after
    OBVIOUS
  <2>6. Says(s1, Share(1))
    <3>1. Says(p1, {} \cup Share(1))
      BY <1>2, <2>1, <2>4, <2>5
    <3> QED BY <1>3, <2>1, <2>5, <3>1
  <2>7. Says(s2, Share(1) \cup Share(2))
    <3>1. Says(p2, Share(1) \cup Share(2))
      BY <1>2, <2>4, <2>5, <2>6
    <3> QED BY <1>3, <2>1, <2>5, <3>1
  <2>8. Says(s3, Share(1) \cup Share(2) \cup Share(3))
    <3>1. Says(p3, Share(1) \cup Share(2) \cup Share(3))
      BY <1>2, <2>4, <2>5, <2>7
    <3> QED BY <1>3, <2>1, <2>5, <3>1
  <2>9. Says(p4, Share(1) \cup Share(2) \cup Share(3) \cup Share(4))
    BY <1>2, <2>4, <2>5, <2>8
  <2>10. Says(p5, Shares)
    BY <1>1, <1>2, <2>3, <2>5, <2>9
  <2>11. Says(p6, Shares)
    BY <1>3, <2>1, <2>5, <2>10
  <2>12. print_multiple_attributes = p6
    BY <2>5, Zenon DEF print_multiple_attributes, Place_, hit, none, Slash, before, after
  <2> QED BY <2>11, <2>12
<1> QED BY <1>4, <1>5

\* What a weapon's line says: its parts, by the members they are printed from.
Marked == (~item.tekked \/ item.wrapped) /\ entry.rarity # "uber"
MarksSaid == IF Marked THEN (IF ~item.tekked THEN {<<"U">>} ELSE {})
                            \cup (IF item.wrapped THEN {<<"W">>} ELSE {})
             ELSE {}
SpecialSaid == IF item.special # 0 /\ ~is_rare_tier
               THEN {<<"special", item.special>>} ELSE {}
GrindSaid == IF item.grind # 0 THEN {<<"grind", item.grind>>} ELSE {}
KillsSaid == IF item.kills # k_has_no_kill_counter
             THEN {<<"kills", item.kills>>} ELSE {}
SharesSaid == IF AttrCount(item) >= 1 THEN Shares ELSE {}

LEMMA KillsSay == Says(print_kills, KillsSaid)
<1>1. Plain(<<"kills", item.kills>>) /\ <<"kills", item.kills>>[1] \in Kinds
  BY PlainWords DEF Kinds
<1>2. Says(<<<<"kills", item.kills>>>>, {<<"kills", item.kills>>})
  BY <1>1, SaysWord, Zenon
<1> QED BY <1>2, SaysWhen, Zenon DEF print_kills, KillsSaid

LEMMA GrindSays == Says(print_grind, GrindSaid)
<1>1. Plain(<<"grind", item.grind>>) /\ <<"grind", item.grind>>[1] \in Kinds
  BY PlainWords DEF Kinds
<1>2. Says(<<<<"grind", item.grind>>>>, {<<"grind", item.grind>>})
  BY <1>1, SaysWord, Zenon
<1> QED BY <1>2, SaysWhen, Zenon DEF print_grind, GrindSaid

LEMMA WeaponSays ==
    ASSUME item.code \in Codes, AttrCount(item) \in Int
    PROVE  Says(PrintWeapon,
                MarksSaid \cup SpecialSaid \cup GrindSaid \cup KillsSaid \cup SharesSaid)
<1> DEFINE untekked == When(~item.tekked, <<<<"U">>>>)
           wrapped == When(item.wrapped, <<<<"W">>>>)
           inside == Colored(k_untekked, untekked \o wrapped)
           before == Escaped(Open) \o inside
           marks == When(Marked, before \o Escaped(Close))
           word == <<<<"special", item.special>>>>
           special == When(item.special # 0 /\ ~is_rare_tier,
                           Colored(interpret_special(item.special), word))
           name == print_name(IF Marked THEN k_untekked ELSE k_weapon)
           single == When(AttrCount(item) = 1, print_single_attribute)
           multiple == When(AttrCount(item) > 1, print_multiple_attributes)
<1>1. \A p, q, S, T : Says(p, S) /\ Says(q, T) => Says(p \o q, S \cup T)
  BY SaysConcat
<1>2. Says(marks, MarksSaid)
  <2>1. /\ Says(<<<<"U">>>>, {<<"U">>}) /\ Says(<<<<"W">>>>, {<<"W">>})
    <3>1. /\ Plain(<<"U">>) /\ <<"U">>[1] \in Kinds
          /\ Plain(<<"W">>) /\ <<"W">>[1] \in Kinds
      BY PlainWords DEF Kinds
    <3> QED BY <3>1, SaysWord, Zenon
  <2>2. /\ Says(untekked, IF ~item.tekked THEN {<<"U">>} ELSE {})
        /\ Says(wrapped, IF item.wrapped THEN {<<"W">>} ELSE {})
    BY <2>1, SaysWhen, Zenon
  <2> HIDE DEF untekked, wrapped
  <2>3. PICK facts : facts = (IF ~item.tekked THEN {<<"U">>} ELSE {})
                             \cup (IF item.wrapped THEN {<<"W">>} ELSE {})
    OBVIOUS
  <2>4. Says(untekked \o wrapped, facts)
    BY <1>1, <2>2, <2>3, Zenon
  <2>5. Says(inside, facts)
    BY <2>4, Colors, SaysColored
  <2>6. Says(Escaped(Open), {}) /\ Says(Escaped(Close), {})
    <3>1. Open[1] \notin Kinds /\ Close[1] \notin Kinds
      BY DEF Open, Close, Kinds
    <3> QED BY <3>1, SaysEscaped
  <2> HIDE DEF inside
  <2>7. Says(before, facts)
    <3>1. Says(before, {} \cup facts)
      BY <1>1, <2>5, <2>6, Zenon
    <3> QED BY <3>1
  <2> HIDE DEF before
  <2>8. Says(before \o Escaped(Close), facts)
    <3>1. Says(before \o Escaped(Close), facts \cup {})
      BY <1>1, <2>6, <2>7, Zenon
    <3> QED BY <3>1
  <2>9. MarksSaid = IF Marked THEN facts ELSE {}
    BY <2>3, Zenon DEF MarksSaid
  <2> QED BY <2>8, <2>9, SaysWhen, Zenon
<1>3. Says(special, SpecialSaid)
  <2>1. Plain(<<"special", item.special>>) /\ <<"special", item.special>>[1] \in Kinds
    BY PlainWords DEF Kinds
  <2>2. Says(word, {<<"special", item.special>>})
    BY <2>1, SaysWord, Zenon
  <2> HIDE DEF word
  <2>3. Says(Colored(interpret_special(item.special), word), {<<"special", item.special>>})
    BY <2>2, Colors, SaysColored
  <2> QED BY <2>3, SaysWhen, Zenon DEF SpecialSaid
<1>4. Says(name, {})
  BY NameSays, Colors
<1>5. /\ Says(single, IF AttrCount(item) = 1 THEN Shares ELSE {})
      /\ Says(multiple, IF AttrCount(item) > 1 THEN Shares ELSE {})
  BY AttributesSay, SaysWhen, Zenon
<1> HIDE DEF marks, special, name, single, multiple
<1>6. PICK p1, p2, p3, p4, p5, p6 :
          /\ p1 = marks \o special /\ p2 = p1 \o name /\ p3 = p2 \o print_grind
          /\ p4 = p3 \o print_kills /\ p5 = p4 \o single /\ p6 = p5 \o multiple
  OBVIOUS
<1>7. Says(p1, MarksSaid \cup SpecialSaid)
  BY <1>1, <1>2, <1>3, <1>6
<1>8. Says(p2, MarksSaid \cup SpecialSaid)
  <2>1. Says(p2, (MarksSaid \cup SpecialSaid) \cup {})
    BY <1>1, <1>4, <1>6, <1>7
  <2> QED BY <2>1
<1>9. Says(p3, MarksSaid \cup SpecialSaid \cup GrindSaid)
  BY <1>1, <1>6, <1>8, GrindSays
<1>10. Says(p4, MarksSaid \cup SpecialSaid \cup GrindSaid \cup KillsSaid)
  BY <1>1, <1>6, <1>9, KillsSay
<1>11. PICK all : all = MarksSaid \cup SpecialSaid \cup GrindSaid \cup KillsSaid
  OBVIOUS
<1>12. Says(p6, (all \cup (IF AttrCount(item) = 1 THEN Shares ELSE {}))
                \cup (IF AttrCount(item) > 1 THEN Shares ELSE {}))
  <2>1. Says(p5, all \cup (IF AttrCount(item) = 1 THEN Shares ELSE {}))
    BY <1>1, <1>5, <1>6, <1>10, <1>11, Zenon
  <2> QED BY <1>1, <1>5, <1>6, <2>1, Zenon
<1>13. (all \cup (IF AttrCount(item) = 1 THEN Shares ELSE {}))
           \cup (IF AttrCount(item) > 1 THEN Shares ELSE {}) = all \cup SharesSaid
  <2>1. AttrCount(item) >= 1 <=> AttrCount(item) = 1 \/ AttrCount(item) > 1
    OBVIOUS
  <2> QED BY <2>1 DEF SharesSaid
<1>14. PrintWeapon = p6
  BY <1>6, Zenon DEF PrintWeapon, Marked, marks, before, inside, untekked, wrapped,
                     special, word, name, single, multiple
<1> QED BY <1>11, <1>12, <1>13, <1>14

\* The other classes' lines.
LEMMA DefencesDrawn == WellFormed(print_def_stats)
<1> DEFINE dfp_varies == entry.ranges \in {"dfp", "both"}
           evp_varies == entry.ranges \in {"evp", "both"}
           label == When(~evp_varies, <<<<"DFP ">>>>)
           value == <<<<"dfp", item.dfp>>>>
           dfp == When(dfp_varies, Colored(k_defense, label \o value))
           dash == When(dfp_varies /\ evp_varies, <<<<" - ">>>>)
           evp == When(evp_varies, Colored(k_tool, <<<<"evp", item.evp>>>>))
           p1 == Escaped(Open) \o dfp
           p2 == p1 \o dash
           p3 == p2 \o evp
           p4 == p3 \o Escaped(Close)
<1>1. \A p, q : WellFormed(p) /\ WellFormed(q) => WellFormed(p \o q)
  BY WellFormedConcat
<1>2. /\ WellFormed(<<<<"DFP ">>>>) /\ WellFormed(value)
      /\ WellFormed(<<<<" - ">>>>) /\ WellFormed(<<<<"evp", item.evp>>>>)
  <2>1. Plain(<<"dfp", item.dfp>>) /\ Plain(<<"evp", item.evp>>)
    BY PlainWords
  <2>2. Plain(<<"DFP ">>)
    BY PlainWords
  <2>3. Plain(<<" - ">>)
    BY PlainWords
  <2> QED BY <2>1, <2>2, <2>3, WellFormedWord, Zenon
<1> HIDE DEF value
<1>3. WellFormed(label) /\ WellFormed(dash)
  BY <1>2, WellFormedWhen, Zenon
<1> HIDE DEF label, dash
<1>4. WellFormed(dfp)
  <2>1. WellFormed(Colored(k_defense, label \o value))
    BY <1>1, <1>2, <1>3, Colors, WellFormedColored
  <2> QED BY <2>1, WellFormedWhen, Zenon
<1>5. WellFormed(evp)
  <2>1. WellFormed(Colored(k_tool, <<<<"evp", item.evp>>>>))
    BY <1>2, Colors, WellFormedColored
  <2> QED BY <2>1, WellFormedWhen, Zenon
<1> HIDE DEF dfp, evp
<1>6. WellFormed(p4)
  <2>1. WellFormed(p1)
    BY <1>1, <1>4, WellFormedEscaped, Zenon
  <2> HIDE DEF p1
  <2>2. WellFormed(p2)
    BY <1>1, <1>3, <2>1, Zenon
  <2> HIDE DEF p2
  <2>3. WellFormed(p3)
    BY <1>1, <1>5, <2>2, Zenon
  <2> HIDE DEF p3
  <2> QED BY <1>1, <2>3, WellFormedEscaped, Zenon
<1>7. WellFormed(When(dfp_varies \/ evp_varies, p4))
  BY <1>6, WellFormedWhen, Zenon
<1>8. print_def_stats = When(dfp_varies \/ evp_varies, p4)
  BY Zenon DEF print_def_stats, dfp, dash, evp, label, value
<1> QED BY <1>7, <1>8

LEMMA TechDrawn ==
    ASSUME item.code \in Codes, item.tech \in 0 .. \h12
    PROVE  WellFormed(PrintTech)
<1> DEFINE level == When(~tech_has_only_one_level(item.tech), <<<<"Lv", item.level>>>>)
           color == interpret_rarity(get_tech_rarity(item.tech, item.level), k_tool)
<1>1. WellFormed(<<<<"Lv", item.level>>>>)
  BY PlainWords, WellFormedWord
<1>2. WellFormed(level)
  BY <1>1, WellFormedWhen, Zenon
<1>3. color \in Palette
  BY Colors
<1> HIDE DEF level, color
<1>4. WellFormed(print_name_min \o level)
  BY <1>2, NameSays, WellFormedConcat DEF Says
<1>5. WellFormed(Colored(color, print_name_min \o level))
  BY <1>3, <1>4, WellFormedColored
<1> QED BY <1>5 DEF PrintTech, level, color

LEMMA EsWeaponDrawn ==
    ASSUME item.code \in Codes
    PROVE  WellFormed(PrintEsWeapon)
<1> DEFINE first == <<<<"letters", item.letters>>>>
           last == <<<<" ES">>>>
           letters == Colored(k_esrank, first \o last)
           p == letters \o print_name(k_esrank)
<1>1. WellFormed(first) /\ WellFormed(last)
  <2>1. Plain(<<"letters", item.letters>>)
    BY PlainWords
  <2>2. Plain(<<" ES">>)
    BY PlainWords
  <2> QED BY <2>1, <2>2, WellFormedWord, Zenon
<1> HIDE DEF first, last
<1>2. WellFormed(first \o last)
  BY <1>1, WellFormedConcat
<1>3. WellFormed(letters)
  BY <1>2, Colors, WellFormedColored
<1> HIDE DEF letters
<1>4. WellFormed(p)
  BY <1>3, NameSays, Colors, WellFormedConcat DEF Says
<1> HIDE DEF p
<1>5. WellFormed(p \o print_grind)
  BY <1>4, GrindSays, WellFormedConcat DEF Says
<1> QED BY <1>5 DEF PrintEsWeapon, p, letters, first, last

LEMMA MagDrawn ==
    ASSUME item.code \in Codes
    PROVE  WellFormed(PrintMag)
<1> DEFINE Sum == item.levels[1] + item.levels[2] + item.levels[3] + item.levels[4]
           ready == item.feeding = 0 /\ ~inBank
           Stat(s) == <<<<"stat", s, item.levels[s]>>>>
                      \o When(ready, <<<<"%", s, item.percentages[s]>>>>)
           level == <<<<"Lv", Sum>>>>
           fed == When(~inBank /\ item.feeding # 0, <<<<"feed in", item.feeding>>>>)
           now == When(ready, Colored(k_gold, <<<<"READY!">>>>))
           p1 == level \o print_name(k_plain)
           p2 == p1 \o fed
           p3 == p2 \o now
           p4 == p3 \o Escaped(Open)
           p5 == p4 \o Stat(1)
           p6 == p5 \o Stat(2)
           p7 == p6 \o Stat(3)
           p8 == p7 \o Stat(4)
<1>1. \A p, q : WellFormed(p) /\ WellFormed(q) => WellFormed(p \o q)
  BY WellFormedConcat
<1>2. ASSUME NEW s PROVE WellFormed(Stat(s))
  <2>1. Plain(<<"stat", s, item.levels[s]>>) /\ Plain(<<"%", s, item.percentages[s]>>)
    BY PlainWords
  <2>2. /\ WellFormed(<<<<"stat", s, item.levels[s]>>>>)
        /\ WellFormed(<<<<"%", s, item.percentages[s]>>>>)
    BY <2>1, WellFormedWord, Zenon
  <2>3. WellFormed(When(ready, <<<<"%", s, item.percentages[s]>>>>))
    BY <2>2, WellFormedWhen, Zenon
  <2> QED BY <1>1, <2>2, <2>3, Zenon
<1>3. WellFormed(level) /\ WellFormed(fed)
  <2> HIDE DEF Sum
  <2>1. Plain(<<"Lv", Sum>>)
    BY PlainWords
  <2>2. \A s, n : Plain(<<s, n>>)
    BY PlainWords
  <2>3. WellFormed(level) /\ WellFormed(<<<<"feed in", item.feeding>>>>)
    BY <2>1, <2>2, WellFormedWord, Zenon
  <2> QED BY <2>3, WellFormedWhen, Zenon
<1>4. WellFormed(now)
  <2>1. Plain(<<"READY!">>)
    BY PlainWords
  <2>2. WellFormed(<<<<"READY!">>>>)
    BY <2>1, WellFormedWord, Zenon
  <2>3. WellFormed(Colored(k_gold, <<<<"READY!">>>>))
    BY <2>2, Colors, WellFormedColored
  <2> QED BY <2>3, WellFormedWhen, Zenon
<1>5. PrintMag = p8 \o Escaped(Close)
  BY Zenon DEF PrintMag
<1>6. WellFormed(print_name(k_plain))
  BY NameSays, Colors DEF Says
<1>7. WellFormed(Escaped(Open)) /\ WellFormed(Escaped(Close))
  BY WellFormedEscaped
<1> HIDE DEF level, fed, now, Stat
<1>8. WellFormed(p2)
  <2>1. WellFormed(p1)
    BY <1>1, <1>3, <1>6, Zenon
  <2> QED BY <1>1, <1>3, <2>1, Zenon
<1> HIDE DEF p2
<1>9. WellFormed(p4)
  <2>1. WellFormed(p3)
    BY <1>1, <1>4, <1>8, Zenon
  <2> QED BY <1>1, <1>7, <2>1, Zenon
<1> HIDE DEF p4
<1>10. WellFormed(p6)
  <2>1. WellFormed(p5)
    BY <1>1, <1>2, <1>9, Zenon
  <2> QED BY <1>1, <1>2, <2>1, Zenon
<1> HIDE DEF p6
<1>11. WellFormed(p8)
  <2>1. WellFormed(p7)
    BY <1>1, <1>2, <1>10, Zenon
  <2> QED BY <1>1, <1>2, <2>1, Zenon
<1> HIDE DEF p8
<1> QED BY <1>1, <1>5, <1>7, <1>11, Zenon

\* Every line is drawn wherever it stands.
LEMMA LineDrawn ==
    ASSUME item.code \in Codes, item.tech \in 0 .. \h12, AttrCount(item) \in Int,
           class \in Classes
    PROVE  WellFormed(print_to)
<1>1. \A p, q : WellFormed(p) /\ WellFormed(q) => WellFormed(p \o q)
  BY WellFormedConcat
<1>2. \A default \in Palette : WellFormed(print_name(default))
  BY NameSays DEF Says
<1>3. WellFormed(print_name_min) /\ WellFormed(print_kills)
  BY NameSays, KillsSay DEF Says
<1>4. WellFormed(print_name(k_defense)) /\ WellFormed(print_name(k_tool))
  BY <1>2, Colors
<1>5. CASE class = "Weapon"
  BY <1>5, WeaponSays DEF print_to, Says
<1>6. CASE class = "EsWeapon"
  BY <1>6, EsWeaponDrawn DEF print_to
<1>7. CASE class = "Frame"
  <2> DEFINE p == print_name(k_defense) \o <<<<"slots", item.slots>>>>
  <2>1. WellFormed(<<<<"slots", item.slots>>>>)
    BY PlainWords, WellFormedWord
  <2>2. WellFormed(p)
    BY <1>1, <1>4, <2>1, Zenon
  <2>3. print_to = p \o print_def_stats
    BY <1>7 DEF print_to
  <2> HIDE DEF p
  <2> QED BY <1>1, <2>2, <2>3, DefencesDrawn, Zenon
<1>8. CASE class = "Barrier"
  BY <1>1, <1>4, <1>8, DefencesDrawn DEF print_to
<1>9. CASE class = "Unit"
  BY <1>1, <1>3, <1>4, <1>9 DEF print_to
<1>10. CASE class = "Mag"
  BY <1>10, MagDrawn DEF print_to
<1>11. CASE class = "Tool"
  <2> DEFINE times == When(item.quantity > 1, <<<<"x", item.quantity>>>>)
  <2>1. WellFormed(<<<<"x", item.quantity>>>>)
    BY PlainWords, WellFormedWord
  <2>2. WellFormed(times)
    BY <2>1, WellFormedWhen, Zenon
  <2>3. print_to = print_name(k_tool) \o times
    BY <1>11 DEF print_to
  <2> HIDE DEF times
  <2> QED BY <1>1, <1>4, <2>2, <2>3, Zenon
<1>12. CASE class = "Tech"
  BY <1>12, TechDrawn DEF print_to
<1>13. CASE class = "Meseta"
  <2>1. WellFormed(<<<<"Meseta", item.quantity>>>>)
    BY PlainWords, WellFormedWord
  <2>2. WellFormed(Colored(k_gold, <<<<"Meseta", item.quantity>>>>))
    BY <2>1, Colors, WellFormedColored
  <2> QED BY <1>13, <2>2 DEF print_to
<1>14. CASE class = "TotallyUnknownItem"
  <2> DEFINE p == <<<<"?">>>> \o print_name_min
  <2>1. Plain(<<"?">>)
    BY PlainWords
  <2>2. WellFormed(<<<<"?">>>>)
    BY <2>1, WellFormedWord, Zenon
  <2>3. WellFormed(p)
    BY <1>1, <1>3, <2>2, Zenon
  <2>4. print_to = Colored(k_untekked, p \o <<<<"?">>>>)
    BY <1>14 DEF print_to
  <2> HIDE DEF p
  <2>5. WellFormed(p \o <<<<"?">>>>)
    BY <1>1, <2>2, <2>3, Zenon
  <2> QED BY <2>4, <2>5, Colors, WellFormedColored
<1> QED BY <1>5, <1>6, <1>7, <1>8, <1>9, <1>10, <1>11, <1>12, <1>13, <1>14 DEF Classes

\* What render_line makes of a line that is drawn wherever it stands.
LEMMA Rendered ==
    ASSUME NEW pieces, WellFormed(pieces)
    PROVE  /\ render_line(pieces).phase = "reg" /\ render_line(pieces).calls = <<k_plain>>
           /\ Words(pieces) \ Markup = Words(render_line(pieces).target) \ Markup
           /\ \A i \in 1 .. Len(render_line(pieces).target) :
                  render_line(pieces).colors[i] \in Palette
<1>1. PICK P : pieces \in Seq(P)
  BY DEF WellFormed
<1>2. PICK run : Run(run, Fresh, pieces) /\ render_line(pieces) = run[Len(pieces)]
  <2>1. Len(pieces) \in Nat
    BY <1>1
  <2> QED BY <2>1, RenderedByTurns
<1>3. Drawing(Fresh)
  <2>1. k_plain \in Palette /\ <<k_plain>> \in Seq(Palette) /\ <<k_plain>> # <<>>
    BY DEF Palette
  <2>2. Fresh \in States("reg", {})
    BY <2>1 DEF Fresh, States
  <2> QED BY <2>1, <2>2 DEF Drawing, Fresh
<1>4. Drawn(Fresh, render_line(pieces), pieces)
  BY <1>2, <1>3 DEF WellFormed
<1>5. PICK r : r = render_line(pieces)
  OBVIOUS
<1>6. /\ Drawing(r) /\ r.calls = <<k_plain>>
      /\ Words(r.target) \ Markup = Words(pieces) \ Markup
  <2>1. Fresh.calls = <<k_plain>> /\ Words(Fresh.target) = {}
    BY DEF Fresh, Words
  <2> QED BY <1>4, <1>5, <2>1 DEF Drawn
<1>7. PICK T : r \in States("reg", T) /\ Len(r.colors) = Len(r.target)
  BY <1>6 DEF Drawing
<1>8. r.phase = "reg" /\ \A i \in 1 .. Len(r.target) : r.colors[i] \in Palette
  <2>1. r.phase = "reg" /\ r.colors \in Seq(Palette)
    BY <1>7 DEF States
  <2> QED BY <1>7, <2>1
<1> QED BY <1>5, <1>6, <1>8

\* The code an object has is the second that was read.
LEMMA CodeRead ==
    ASSUME ItemInv, pc \in {"fields", "printed", "failed"}
    PROVE  Len(seen) = 2 /\ item.code = seen[2] /\ item.code \in Codes
<1>1. PICK s \in Seq(Codes) : s = seen /\ Len(s) = 2 /\ item.code = s[2]
  BY DEF ItemInv, Types, Place
<1>2. 2 \in 1 .. Len(s)
  BY <1>1
<1>3. s[2] \in Codes
  BY <1>2, ElementOfSeq
<1> QED BY <1>1, <1>3

\* The number of attributes is the count, unless the highest byte is written.
LEMMA AttrCounted ==
    ASSUME NEW letters, NEW i \in Objects(letters)
    PROVE  AttrCount(i) \in Int /\ (i.top = 0 => AttrCount(i) = i.count)
<1>1. i.top \in Int /\ i.count \in Int
  BY DEF Objects
<1> QED BY <1>1, SMT DEF AttrCount

\* Whatever bytes an item was read with, its line can be drawn: no malformed
\* markup, every call returned from, no word lost, and no colour but those that
\* to_grid_color knows.
THEOREM LineRendersHolds == Spec => []LineRenders
<1>1. Init => LineRenders
  BY DEF Init, LineRenders
<1>2. ItemInv /\ LineRenders /\ [Next]_vars => LineRenders'
  <2> SUFFICES ASSUME ItemInv, LineRenders, [Next]_vars, pc' = "printed"
               PROVE  LineRenders'
    BY DEF LineRenders
  <2>1. CASE UpdateItemString
    <3>1. pc = "fields" /\ line' = print_to
      BY <2>1 DEF UpdateItemString
    <3>2. item.code \in Codes /\ class \in Classes
      BY <3>1, CodeRead DEF ItemInv, Place
    <3>3. item.tech \in 0 .. \h12 /\ AttrCount(item) \in Int
      BY AttrCounted DEF ItemInv, Types, Objects
    <3>4. WellFormed(line')
      BY <3>1, <3>2, <3>3, LineDrawn
    <3> QED BY <3>4, Rendered DEF LineRenders, Markup
  <2>2. CASE UNCHANGED vars
    BY <2>2 DEF vars, LineRenders
  <2>3. CASE UpdateItemString \/ UNCHANGED vars
    BY <2>1, <2>2, <2>3
  <2>4. ~(ReadFails \/ \E code \in Codes : MakeItem(code) \/ ReadCode(code))
    BY DEF ReadFails, MakeItem, ReadCode
  <2>5. \A v \in Values[Head(todo)] : ~ReadField(Head(todo), v)
    BY DEF ReadField
  <2> QED BY <2>3, <2>4, <2>5 DEF Next
<1> QED BY <1>1, <1>2, ItemInvariant, PTL DEF Spec

\* The marks of a special's byte, by its two high bits.
LEMMA Flags ==
    ASSUME NEW byte \in Byte
    PROVE  /\ Flag(128, byte, <<"U">>) = IF byte <= \h7F THEN {} ELSE {<<"U">>}
           /\ Flag(64, byte, <<"W">>) =
                  IF byte > \hBF \/ byte \in \h40 .. \h7F THEN {<<"W">>} ELSE {}
<1>1. PICK b \in 0 .. 255 : b = byte
  BY DEF Byte
<1>2. PICK q : q = b \div 128
  OBVIOUS
<1>3. PICK r : r = b \div 64
  OBVIOUS
<1>4. /\ b <= \h7F => q = 0
      /\ b > \h7F => q = 1
      /\ b \in 0 .. 63 => r = 0
      /\ b \in \h40 .. \h7F => r = 1
      /\ b \in \h80 .. \hBF => r = 2
      /\ b > \hBF => r = 3
  BY <1>2, <1>3
<1>5. /\ q % 2 = 1 <=> ~(b <= \h7F)
      /\ r % 2 = 1 <=> b > \hBF \/ b \in \h40 .. \h7F
  BY <1>4
<1> QED BY <1>1, <1>2, <1>3, <1>5, Zenon DEF Flag

\* A weapon's line says what its bytes do: the five kinds of words in turn.
LEMMA WeaponRead ==
    ASSUME ItemInv, pc = "fields", todo = <<>>, class = "Weapon", OneItem,
           GameWrites(raw["attributes"])
    PROVE  WeaponFacts =
               MarksSaid \cup SpecialSaid \cup GrindSaid \cup KillsSaid \cup SharesSaid
<1>1. {"special", "grind", "attributes"} \subseteq DOMAIN raw
  <2>1. Words(todo) = {}
    BY DEF Words
  <2> QED BY <2>1 DEF ItemInv, Pending
<1>2. item.code \in Codes /\ item.code = seen[1] /\ entry = Entries[seen[1]]
  BY CodeRead DEF OneItem, entry
<1>3. entry.counter <=> "kills" \in DOMAIN raw
  <2>1. Words(todo) = {}
    BY DEF Words
  <2> QED BY <2>1 DEF ItemInv, Pending, entry
<1>4. PICK special : special = raw["special"]
  OBVIOUS
<1>5. /\ special \in Byte /\ item.special = special % 64
      /\ item.tekked <=> special <= \h7F
      /\ item.wrapped <=> special > \hBF \/ special \in \h40 .. \h7F
  BY <1>1, <1>4 DEF ItemInv, Types, Agreeing, Widths
<1>6. IF entry.rarity = "uber" THEN MarksSaid = {}
      ELSE MarksSaid = Flag(128, special, <<"U">>) \cup Flag(64, special, <<"W">>)
  BY <1>5, Flags DEF MarksSaid, Marked
<1>7. SpecialSaid = {<<"special", s>> : s \in {special % 64} \
                        (IF entry.rarity \in {"uber", "rare"} THEN {special % 64} ELSE {0})}
  BY <1>5 DEF SpecialSaid, is_rare_tier
<1>8. GrindSaid = {<<"grind", g>> : g \in {raw["grind"]} \ {0}}
  BY <1>1 DEF ItemInv, Agreeing, GrindSaid
<1>9. KillsSaid = {<<"kills", k>> : k \in IF entry.counter THEN {raw["kills"]} ELSE {}}
  <2>1. CASE entry.counter
    <3>1. raw["kills"] \in Word /\ item.kills = raw["kills"]
      BY <1>3, <2>1 DEF ItemInv, Types, Agreeing, Widths
    <3>2. item.kills # k_has_no_kill_counter
      <4>1. \A k \in Word : k # -1
        BY DEF Word
      <4> QED BY <3>1, <4>1 DEF k_has_no_kill_counter
    <3> QED BY <2>1, <3>1, <3>2 DEF KillsSaid
  <2>2. CASE ~entry.counter
    <3>1. item.kills = k_has_no_kill_counter
      BY <1>3, <2>2 DEF ItemInv, Agreeing
    <3> QED BY <2>2, <3>1 DEF KillsSaid
  <2> QED BY <2>1, <2>2
<1>10. SharesSaid = Percentages(raw["attributes"])
  <2>1. Gained(item, raw["attributes"])
    BY <1>1 DEF ItemInv, Agreeing
  <2>2. /\ item.top = 0
        /\ item.count = 0 <=> Percentages(raw["attributes"]) = {}
        /\ Shares = Percentages(raw["attributes"])
    BY <2>1 DEF Gained, Shares
  <2>3. item.count \in Nat
    BY DEF ItemInv, Types, Objects
  <2>4. AttrCount(item) = item.count
    BY <2>2, AttrCounted DEF ItemInv, Types
  <2>5. PICK count \in Nat : count = AttrCount(item)
    BY <2>3, <2>4
  <2>6. CASE count = 0
    BY <2>2, <2>4, <2>5, <2>6 DEF SharesSaid
  <2>7. CASE count >= 1
    BY <2>2, <2>5, <2>7 DEF SharesSaid
  <2> QED BY <2>5, <2>6, <2>7
<1> QED BY <1>2, <1>4, <1>6, <1>7, <1>8, <1>9, <1>10 DEF WeaponFacts

\* What a user sees of a weapon that stands still while it is read is what its
\* bytes say, be its attributes one or several; and an item is seen unless its
\* special or its technique is none the program knows.
THEOREM WeaponShownHolds == Spec => []WeaponShown
<1>1. Init => WeaponShown
  BY DEF Init, WeaponShown
<1>2. ItemInv /\ WeaponShown /\ ItemInv' /\ [Next]_vars => WeaponShown'
  <2> SUFFICES ASSUME ItemInv, WeaponShown, ItemInv', [Next]_vars, pc' = "printed"
               PROVE  WeaponShown'
    <3>1. ItemInv' => (pc' = "failed" =>
                           \/ "special" \in DOMAIN raw' /\ raw'["special"] % 64 > 40
                           \/ "tech" \in DOMAIN raw' /\ raw'["tech"] > 18)
      BY DEF ItemInv, Failing, k_demons
    <3> QED BY <3>1 DEF WeaponShown
  <2>1. CASE UpdateItemString
    <3> SUFFICES ASSUME class' = "Weapon", OneItem', GameWrites(raw["attributes"])'
                 PROVE  {w \in Shown' : w[1] \in Kinds} = WeaponFacts'
      BY DEF WeaponShown, Kinds
    <3>1. /\ pc = "fields" /\ todo = <<>> /\ line' = print_to
          /\ UNCHANGED <<class, seen, raw>>
      BY <2>1 DEF UpdateItemString
    <3>2. class = "Weapon" /\ OneItem /\ GameWrites(raw["attributes"])
      BY <3>1 DEF OneItem, GameWrites
    <3>3. WeaponFacts' = WeaponFacts
      BY <3>1 DEF WeaponFacts, Percentages, Flag
    <3>4. Says(print_to, WeaponFacts)
      <4>1. item.code \in Codes /\ AttrCount(item) \in Int
        BY <3>1, CodeRead, AttrCounted DEF ItemInv, Types
      <4> QED BY <3>1, <3>2, <4>1, WeaponSays, WeaponRead DEF print_to
    <3>5. /\ Facts(line') = WeaponFacts
          /\ Words(line') \ Markup = Shown' \ Markup
      BY <3>1, <3>4, Rendered DEF Says, Shown
    <3>6. \A w \in Markup : w[1] \notin Kinds
      BY DEF Markup, Open, Colon, Close, Backslash, Kinds, Palette, k_plain, k_tool,
             k_gold, k_rare, k_untekked, k_esrank, k_defense, k_interest, k_weapon, k_uber
    <3> QED BY <3>3, <3>5, <3>6 DEF Facts
  <2>2. CASE UNCHANGED vars
    <3>1. UNCHANGED <<pc, class, seen, raw, line>>
      BY <2>2 DEF vars
    <3>2. UNCHANGED <<OneItem, Shown, WeaponFacts>>
      BY <3>1 DEF OneItem, Shown, WeaponFacts, Percentages, Flag
    <3>3. UNCHANGED GameWrites(raw["attributes"])
      BY <3>1 DEF GameWrites
    <3> QED BY <3>1, <3>2, <3>3 DEF WeaponShown
  <2>3. ~(ReadFails \/ \E code \in Codes : MakeItem(code) \/ ReadCode(code))
    BY DEF ReadFails, MakeItem, ReadCode
  <2>4. \A v \in Values[Head(todo)] : ~ReadField(Head(todo), v)
    BY DEF ReadField
  <2> QED BY <2>1, <2>2, <2>3, <2>4 DEF Next
<1> QED BY <1>1, <1>2, ItemInvariant, PTL DEF Spec

=============================================================================
