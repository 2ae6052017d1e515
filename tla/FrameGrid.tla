----------------------------- MODULE FrameGrid -----------------------------
(***************************************************************************)
(* The character grid a state draws a frame into (CachedChangeGrid) and    *)
(* its transfer to the terminal (NCursesGrid::render), over many frames    *)
(* and changes of the window's size.                                       *)
(*                                                                         *)
(* Nothing is erased between frames: do_prerender clears two flags of each *)
(* cell, set_cell sets them, and fill_unpressed_space blanks the cells     *)
(* that were not drawn.  A character with its colours is one value here.   *)
(* m_num_changed is never read and left out.                               *)
(***************************************************************************)
EXTENDS Integers

CONSTANTS
    Windows, \* sizes of the terminal, <<width, height>>
    Values,  \* characters with colours
    Blank    \* a space in k_normal_colors

ASSUME WindowsAssumption == Windows \subseteq Nat \X Nat
ASSUME BlankAssumption == Blank \in Values

VARIABLES
    phase,    \* where do_render is; "loop" between frames
    window,   \* getmaxx(stdscr), getmaxy(stdscr)
    size,     \* the size of the grids
    cell,     \* m_character_grid and m_color_grid
    changed,  \* m_changed
    pressed,  \* m_pressed
    terminal, \* what the terminal shows
    drawn,    \* history: what has been drawn in this frame
    before,   \* history: cell, when the last frame was complete
    kept      \* history: the size has not changed since then

gridVars == <<size, cell, changed, pressed>>
vars == <<phase, window, gridVars, terminal, drawn, before, kept>>

----------------------------------------------------------------------------

\* The positions of a grid, and of a terminal, of a size.
Positions(s) == (0 .. s[1] - 1) \X (0 .. s[2] - 1)

Undrawn == {}

\* NCursesGrid::setup calls update_size on empty grids.
Init ==
    /\ phase = "loop"
    /\ window \in Windows
    /\ size = window
    /\ cell = [p \in Positions(size) |-> Blank]
    /\ changed = [p \in Positions(size) |-> TRUE]
    /\ pressed = [p \in Positions(size) |-> TRUE]
    /\ terminal = [p \in Positions(size) |-> Blank]
    /\ drawn = [p \in Undrawn |-> Blank]
    /\ before = cell
    /\ kept = FALSE

\* getch() resizes stdscr; ncurses keeps what still fits.
ResizeWindow ==
    /\ phase = "loop"
    /\ window' \in Windows \ {window}
    /\ terminal' = [p \in Positions(window') |->
                      IF p \in Positions(window) THEN terminal[p] ELSE Blank]
    /\ UNCHANGED <<phase, gridVars, drawn, before, kept>>

\* Mutant: a grid is forgotten.
UpdateSizeForgets ==
    /\ phase = "loop"
    /\ size' = window
    /\ cell' \in {c \in [Positions(window) -> Values] :
                    \A p \in Positions(window) :
                      c[p] = Blank \/ (p \in Positions(size) /\ c[p] = cell[p])}
    /\ changed' = [p \in Positions(window) |-> TRUE]
    /\ UNCHANGED pressed
    /\ kept' = (kept /\ window = size)
    /\ phase' = "begin"
    /\ UNCHANGED <<window, terminal, drawn, before>>

\* update_size is called in every iteration and returns false when the size is
\* the same.  Grid::set_size, of the library, sets new cells and may or may not
\* keep the old ones.
UpdateSize ==
    /\ phase = "loop"
    /\ IF window = size
       THEN UNCHANGED gridVars
       ELSE /\ size' = window
            /\ cell' \in {c \in [Positions(window) -> Values] :
                 \A p \in Positions(window) :
                   c[p] = Blank \/ (p \in Positions(size) /\ c[p] = cell[p])}
            /\ changed' = [p \in Positions(window) |-> TRUE]
            /\ pressed' = [p \in Positions(window) |-> TRUE]
    /\ kept' = (kept /\ window = size)
    /\ phase' = "begin"
    /\ UNCHANGED <<window, terminal, drawn, before>>

\* Mutant: m_changed is left as it is.
DoPrerenderKeepsChanged ==
    /\ phase = "begin"
    /\ pressed' = [p \in Positions(size) |-> FALSE]
    /\ drawn' = [p \in Undrawn |-> Blank]
    /\ phase' = "draw"
    /\ UNCHANGED <<window, size, cell, changed, terminal, before, kept>>

DoPrerender ==
    /\ phase = "begin"
    /\ pressed' = [p \in Positions(size) |-> FALSE]
    /\ changed' = [p \in Positions(size) |-> FALSE]
    /\ drawn' = [p \in Undrawn |-> Blank]
    /\ phase' = "draw"
    /\ UNCHANGED <<window, size, cell, terminal, before, kept>>

Drawing(p, value) ==
    drawn' = [q \in DOMAIN drawn \cup {p} |-> IF q = p THEN value ELSE drawn[q]]

\* Mutant: the early return comes first.
SetCellReturnsFirst(p, value) ==
    /\ phase = "draw"
    /\ IF cell[p] = value
       THEN UNCHANGED <<cell, changed, pressed>>
       ELSE /\ cell' = [cell EXCEPT ![p] = value]
            /\ changed' = [changed EXCEPT ![p] = TRUE]
            /\ pressed' = [pressed EXCEPT ![p] = TRUE]
    /\ Drawing(p, value)
    /\ UNCHANGED <<phase, window, size, terminal, before, kept>>

\* A position that is not in the grid throws: AppLoop has that no frame does it
\* but for one header.
SetCell(p, value) ==
    /\ phase = "draw"
    /\ pressed' = [pressed EXCEPT ![p] = TRUE]
    /\ IF cell[p] = value
       THEN UNCHANGED <<cell, changed>>
       ELSE /\ cell' = [cell EXCEPT ![p] = value]
            /\ changed' = [changed EXCEPT ![p] = TRUE]
    /\ Drawing(p, value)
    /\ UNCHANGED <<phase, window, size, terminal, before, kept>>

\* set_cell(x, y, ' ', k_normal_colors) at every position not pressed.
FillUnpressedSpace ==
    /\ phase = "draw"
    /\ cell' = [p \in Positions(size) |-> IF pressed[p] THEN cell[p] ELSE Blank]
    /\ changed' = [p \in Positions(size) |->
                     changed[p] \/ (~pressed[p] /\ cell[p] # Blank)]
    /\ pressed' = [p \in Positions(size) |-> TRUE]
    /\ phase' = "filled"
    /\ UNCHANGED <<window, size, terminal, drawn, before, kept>>

\* Mutant: only the cells that changed are written.
RenderChanged ==
    /\ phase = "filled"
    /\ terminal' = [p \in Positions(window) |->
                      IF changed[p] THEN cell[p] ELSE terminal[p]]
    /\ before' = cell
    /\ kept' = TRUE
    /\ phase' = "loop"
    /\ UNCHANGED <<window, gridVars, drawn>>

\* All cells are written, changed or not, at the positions of stdscr.
Render ==
    /\ phase = "filled"
    /\ terminal' = [p \in Positions(window) |-> cell[p]]
    /\ before' = cell
    /\ kept' = TRUE
    /\ phase' = "loop"
    /\ UNCHANGED <<window, gridVars, drawn>>

Next == \/ ResizeWindow
        \/ UpdateSize
        \/ DoPrerender
        \/ \E p \in Positions(size), value \in Values : SetCell(p, value)
        \/ FillUnpressedSpace
        \/ Render

Spec == Init /\ [][Next]_vars

----------------------------------------------------------------------------
(* Properties.                                                             *)

\* Every variable has a value of its type: the grids have one size, and while
\* a frame is drawn that is the window's, so render reads no cell there is not.
TypeOK ==
    /\ phase \in {"loop", "begin", "draw", "filled"}
    /\ window \in Windows /\ size \in Windows
    /\ phase # "loop" => size = window
    /\ cell \in [Positions(size) -> Values]
    /\ changed \in [Positions(size) -> BOOLEAN]
    /\ pressed \in [Positions(size) -> BOOLEAN]
    /\ terminal \in [Positions(window) -> Values]
    /\ DOMAIN drawn \subseteq Positions(size) \/ phase \in {"loop", "begin"}
    /\ \A p \in DOMAIN drawn : drawn[p] \in Values
    /\ kept \in BOOLEAN
    /\ kept => before \in [Positions(size) -> Values]

\* A completed frame has what was drawn last at each position and blanks
\* everywhere else: nothing of an earlier frame is left, although nothing is
\* erased and drawing what was there before writes nothing.
FrameExact ==
    phase = "filled" =>
        cell = [p \in Positions(size) |->
                  IF p \in DOMAIN drawn THEN drawn[p] ELSE Blank]

\* "assert(!m_changed(r))" (NCursesGrid.cpp:61): a position nobody drew at has
\* not changed.
UnpressedUnchanged ==
    phase = "draw" => \A p \in Positions(size) : changed[p] => pressed[p]

\* has_changed misses no change: where it is false, a frame shows what the one
\* before it did, if the grid has kept its size.  (After a resize it would: the
\* flags set by update_size are cleared by the next do_prerender.)
ChangedSound ==
    phase = "filled" /\ kept =>
        \A p \in Positions(size) : changed[p] \/ cell[p] = before[p]

\* Whatever happened to the window meanwhile, also if it has its old size again
\* and update_size sees nothing, the terminal shows the frame when it is
\* rendered, because all of it is written, changed or not.
FrameShown ==
    [][phase = "filled" /\ phase' # phase =>
         \A p \in Positions(window) :
           terminal'[p] = IF p \in DOMAIN drawn THEN drawn[p] ELSE Blank]_vars

============================================================================
