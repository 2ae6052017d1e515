-------------------------- MODULE FrameGridProofs --------------------------
(***************************************************************************)
(* Proofs about the frames of the grid, for windows of any sizes and any   *)
(* characters and colours.                                                 *)
(***************************************************************************)
EXTENDS FrameGrid, TLAPS

LEMMA TypeInit == Init => TypeOK
BY BlankAssumption DEF Init, TypeOK, Undrawn

LEMMA TypeStep == TypeOK /\ [Next]_vars => TypeOK'
<1> SUFFICES ASSUME TypeOK, [Next]_vars PROVE TypeOK'
  OBVIOUS
<1> USE DEF TypeOK, gridVars
<1>1. CASE ResizeWindow
  BY <1>1, BlankAssumption DEF ResizeWindow
<1>2. CASE UpdateSize
  BY <1>2 DEF UpdateSize
<1>3. CASE DoPrerender
  BY <1>3 DEF DoPrerender, Undrawn
<1>4. ASSUME NEW p \in Positions(size), NEW value \in Values, SetCell(p, value)
      PROVE  TypeOK'
  <2>1. /\ pressed' \in [Positions(size) -> BOOLEAN]
        /\ cell' \in [Positions(size) -> Values]
        /\ changed' \in [Positions(size) -> BOOLEAN]
    BY <1>4 DEF SetCell
  <2>2. DOMAIN drawn' \subseteq Positions(size) /\ \A q \in DOMAIN drawn' : drawn'[q] \in Values
    BY <1>4 DEF SetCell, Drawing
  <2> QED BY <1>4, <2>1, <2>2 DEF SetCell
<1>5. CASE FillUnpressedSpace
  BY <1>5, BlankAssumption DEF FillUnpressedSpace
<1>6. CASE Render
  BY <1>6 DEF Render
<1>7. CASE UNCHANGED vars
  BY <1>7 DEF vars
<1> QED BY <1>1, <1>2, <1>3, <1>4, <1>5, <1>6, <1>7 DEF Next

\* Types, and the agreement of the sizes while a frame is drawn.
THEOREM TypeCorrect == Spec => []TypeOK
BY TypeInit, TypeStep, PTL DEF Spec

-----------------------------------------------------------------------------

\* While a frame is drawn the pressed positions are the drawn ones and hold
\* what was drawn, and what differs from the frame before is marked.
FrameInv ==
    /\ phase = "draw" =>
         /\ \A p \in Positions(size) : pressed[p] <=> p \in DOMAIN drawn
         /\ \A p \in DOMAIN drawn : cell[p] = drawn[p]
         /\ UnpressedUnchanged
         /\ kept => \A p \in Positions(size) : changed[p] \/ cell[p] = before[p]
    /\ phase \in {"loop", "begin"} /\ kept => before = cell
    /\ FrameExact
    /\ ChangedSound

LEMMA FrameStep == TypeOK /\ FrameInv /\ [Next]_vars => FrameInv'
<1> SUFFICES ASSUME TypeOK, FrameInv, [Next]_vars PROVE FrameInv'
  OBVIOUS
<1> USE DEF FrameInv, UnpressedUnchanged, FrameExact, ChangedSound, gridVars
<1>1. CASE ResizeWindow
  BY <1>1 DEF ResizeWindow
<1>2. CASE UpdateSize
  BY <1>2 DEF UpdateSize
<1>3. CASE DoPrerender
  BY <1>3 DEF DoPrerender, Undrawn
<1>4. ASSUME NEW p \in Positions(size), NEW value \in Values, SetCell(p, value)
      PROVE  FrameInv'
  <2>1. /\ phase = "draw" /\ phase' = "draw"
        /\ UNCHANGED <<size, before, kept>>
        /\ DOMAIN drawn' = DOMAIN drawn \cup {p} /\ drawn'[p] = value
        /\ \A q \in DOMAIN drawn \ {p} : drawn'[q] = drawn[q]
    BY <1>4 DEF SetCell, Drawing
  <2>2. /\ cell'[p] = value /\ pressed'[p]
        /\ \A q \in Positions(size) \ {p} : /\ cell'[q] = cell[q]
                                            /\ pressed'[q] = pressed[q]
                                            /\ changed'[q] = changed[q]
        /\ changed'[p] \/ (cell'[p] = cell[p] /\ changed'[p] = changed[p])
    BY <1>4 DEF SetCell, TypeOK
  <2>3. DOMAIN drawn \subseteq Positions(size)
    BY <2>1 DEF TypeOK
  <2> QED BY <2>1, <2>2, <2>3
<1>5. CASE FillUnpressedSpace
  <2>1. /\ phase = "draw" /\ phase' = "filled" /\ UNCHANGED <<size, drawn, before, kept>>
        /\ cell' = [p \in Positions(size) |-> IF pressed[p] THEN cell[p] ELSE Blank]
        /\ \A p \in Positions(size) :
             changed'[p] = (changed[p] \/ (~pressed[p] /\ cell[p] # Blank))
    BY <1>5 DEF FillUnpressedSpace
  <2>2. DOMAIN drawn \subseteq Positions(size)
    BY <2>1 DEF TypeOK
  <2> QED BY <2>1, <2>2
<1>6. CASE Render
  BY <1>6 DEF Render
<1>7. CASE UNCHANGED vars
  BY <1>7 DEF vars
<1> QED BY <1>1, <1>2, <1>3, <1>4, <1>5, <1>6, <1>7 DEF Next

LEMMA FrameInit == Init => FrameInv
BY DEF Init, FrameInv, FrameExact, ChangedSound

\* A completed frame is what was drawn in it, and blanks.
THEOREM FrameCorrect == Spec => []FrameExact
<1>1. FrameInv => FrameExact
  BY DEF FrameInv
<1> QED BY <1>1, FrameInit, FrameStep, TypeCorrect, PTL DEF Spec

\* The assertion of fill_unpressed_space never fails.
THEOREM AssertionCorrect == Spec => []UnpressedUnchanged
<1>1. FrameInv => UnpressedUnchanged
  BY DEF FrameInv, UnpressedUnchanged
<1> QED BY <1>1, FrameInit, FrameStep, TypeCorrect, PTL DEF Spec

\* Where a cell is not marked, nothing has changed since the last frame.
THEOREM ChangedCorrect == Spec => []ChangedSound
<1>1. FrameInv => ChangedSound
  BY DEF FrameInv
<1> QED BY <1>1, FrameInit, FrameStep, TypeCorrect, PTL DEF Spec

\* What is rendered is the frame, whatever the window did before.
THEOREM ShownCorrect == Spec => FrameShown
<1>1. TypeOK /\ FrameInv /\ [Next]_vars
        => [phase = "filled" /\ phase' # phase =>
              \A p \in Positions(window) :
                terminal'[p] = IF p \in DOMAIN drawn THEN drawn[p] ELSE Blank]_vars
  <2> SUFFICES ASSUME TypeOK, FrameInv, Next, phase = "filled", phase' # phase
               PROVE  \A p \in Positions(window) :
                        terminal'[p] = IF p \in DOMAIN drawn THEN drawn[p] ELSE Blank
    OBVIOUS
  <2>1. Render
    BY DEF Next, ResizeWindow, UpdateSize, DoPrerender, SetCell, FillUnpressedSpace
  <2> QED BY <2>1 DEF Render, FrameInv, FrameExact, TypeOK
<1> QED BY <1>1, FrameInit, FrameStep, TypeCorrect, PTL DEF Spec, FrameShown

============================================================================
