------------------------------ MODULE AppLoop ------------------------------
(***************************************************************************)
(* The main loop of the item reader (main.cpp) and the application states  *)
(* it drives: the process watcher, which searches for a PSOBB process, and *)
(* the three item views, each with the memory reader it was set up with.   *)
(*                                                                         *)
(* One iteration of the loop is a sequence of phases:                      *)
(*                                                                         *)
(*    tick -> [attach | update] -> events -> resize -> switch -> render    *)
(*                                                                         *)
(* The environment is the machine's process table, which may change        *)
(* between any two steps, the user at the keyboard, and the terminal.      *)
(* What the views read and show is the subject of module ViewList; here a  *)
(* read only succeeds, fails, or is refused.                               *)
(***************************************************************************)
EXTENDS Integers

CONSTANTS
    Pids,        \* process ids
    NoPid,       \* a null memory reader
    Sizes,       \* terminal sizes, each known by its width
    ShortHeader, \* length of "Searching for PSOBB process!"
    LongHeader   \* length of that with " (press escape to quit)"

ASSUME NoPidAssumption  == NoPid \notin Pids
ASSUME SizesAssumption  == Sizes \subseteq Nat
ASSUME HeaderAssumption == /\ ShortHeader \in Nat
                           /\ LongHeader \in Nat
                           /\ ShortHeader <= LongHeader

VARIABLES
    phase,         \* where the loop of main() is
    current,       \* state_ptr
    newState,      \* m_new_state of every state
    reader,        \* m_reader of every view
    attached,      \* the process of the last reader the watcher made
    hasPermission, \* the watcher's m_has_permission
    nodelay,       \* ncurses: getch() returns ERR when no key waits
    stdscr,        \* size of the ncurses window
    grid,          \* size of the character grid
    layout,        \* size each state was last told of by handle_resize
    errorWidth,    \* width the watcher's error lines were wrapped to
    status,        \* the process table
    calm           \* the environment has stopped changing

loopVars    == <<phase, current, newState>>
readerVars  == <<reader, attached, hasPermission>>
displayVars == <<nodelay, stdscr, grid, layout, errorWidth>>
envVars     == <<status, calm>>
vars == <<loopVars, readerVars, displayVars, envVars>>

----------------------------------------------------------------------------

Views  == {"inventory", "floor", "bank"}
States == Views \cup {"watcher"}
Phases == {"tick", "attach", "update", "events", "resize", "switch",
           "render", "quit", "terminated"}

\* "game": readable; "denied": listed by pgrep, but reading it needs a
\* permission; "foreign": the pid now names another user's process.
Statuses == {"absent", "game", "denied", "foreign"}

Ended == phase \in {"quit", "terminated"}

Secondly == {"inventory", "bank"}

UpdateStyle(s) ==
    IF s = "watcher" /\ ~hasPermission THEN "until_next_event"
                                       ELSE "continuous"

\* What `pgrep psobb` prints.
Listed == {p \in Pids : status[p] \in {"game", "denied"}}

\* The ways the reads of one load_addresses / load_items may come out.
ReadOutcomes(p) ==
    CASE status[p] = "absent"  -> {"error"}
      [] status[p] = "game"    -> IF calm THEN {"ok"} ELSE {"ok", "error"}
      [] OTHER                 -> {"denied"}

\* Position in TypeList<Inventory, Floor, Bank>, counted from the tail.
TypeId == [inventory |-> 2, floor |-> 1, bank |-> 0]

\* change_state_to_id: the id wraps around at both ends.
ViewOfId(id) ==
    LET wrapped == IF id < 0 THEN 2 ELSE IF id >= 3 THEN 0 ELSE id
    IN  CHOOSE v \in Views : TypeId[v] = wrapped

\* switch_state called on state s with target t.
SwitchState(pending, s, t) == [pending EXCEPT ![s] = t]

Init ==
    /\ phase = "render"
    /\ current = "watcher"
    /\ newState = [s \in States |-> "none"]
    /\ reader = [v \in Views |-> NoPid]
    /\ attached = NoPid
    /\ hasPermission = TRUE
    /\ nodelay = TRUE
    /\ stdscr \in Sizes
    /\ grid = stdscr
    /\ layout = [s \in States |-> IF s = "watcher" THEN stdscr ELSE 0]
    /\ errorWidth = 0
    /\ status \in [Pids -> Statuses]
    /\ calm = FALSE

----------------------------------------------------------------------------
(* Ticks.                                                                  *)

\* PsobbProcessWatcher::handle_tick up to make_process_reader.
SearchFinds(p) ==
    /\ phase = "tick" /\ current = "watcher"
    /\ Listed = {p}
    /\ attached' = p
    /\ phase' = "attach"
    /\ UNCHANGED <<current, newState, reader, hasPermission>>
    /\ UNCHANGED <<displayVars, envVars>>

\* No pid, several pids (not a number), or popen failed.
SearchFails ==
    /\ phase = "tick" /\ current = "watcher"
    /\ calm => \A p \in Pids : Listed # {p}
    /\ phase' = "events"
    /\ UNCHANGED <<current, newState, readerVars, displayVars, envVars>>

\* switch_state<BankViewState>().setup(reader), and what its update_item_list
\* does about a failure.
WatcherAttach ==
    /\ phase = "attach"
    /\ reader' = [reader EXCEPT !["bank"] = attached]
    /\ \E outcome \in ReadOutcomes(attached) :
         \/ /\ outcome = "ok"
            /\ newState' = SwitchState(newState, "watcher", "bank")
            /\ UNCHANGED <<hasPermission, errorWidth>>
         \/ /\ outcome = "error"
            /\ newState' = SwitchState(SwitchState(newState, "watcher", "bank"),
                                       "bank", "watcher")
            /\ UNCHANGED <<hasPermission, errorWidth>>
         \/ /\ outcome = "denied"
            /\ hasPermission' = FALSE
            /\ errorWidth' = layout["watcher"]
            /\ newState' = SwitchState(newState, "watcher", "watcher")
    /\ phase' = "events"
    /\ UNCHANGED <<current, attached, nodelay, stdscr, grid, layout, envVars>>

\* Mutant: a failure is caught and forgotten.
ViewTickSwallows ==
    /\ phase = "tick" /\ current \in Views
    /\ phase' = IF current \in Secondly THEN "update" ELSE "events"
    /\ UNCHANGED <<current, newState, readerVars, displayVars, envVars>>

\* ItemReaderBaseState::handle_tick: any failure falls back to the watcher.
ViewTick ==
    /\ phase = "tick" /\ current \in Views
    /\ \E outcome \in ReadOutcomes(reader[current]) :
         newState' = IF outcome = "ok"
                     THEN newState
                     ELSE SwitchState(newState, current, "watcher")
    /\ phase' = IF current \in Secondly THEN "update" ELSE "events"
    /\ UNCHANGED <<current, readerVars, displayVars, envVars>>

\* The rest of SecondlyUpdatingItemReader::handle_tick: once a second
\* update_item_list, which rethrows a PermissionError out of main().
SecondUpdate ==
    /\ phase = "update"
    /\ \/ phase' = "events" /\ UNCHANGED newState    \* not due
       \/ \E outcome \in ReadOutcomes(reader[current]) :
            \/ outcome = "ok" /\ phase' = "events" /\ UNCHANGED newState
            \/ /\ outcome = "error"
               /\ phase' = "events"
               /\ newState' = SwitchState(newState, current, "watcher")
            \/ outcome = "denied" /\ phase' = "terminated" /\ UNCHANGED newState
    /\ UNCHANGED <<current, readerVars, displayVars, envVars>>

----------------------------------------------------------------------------
(* Events.  In the continuous style main() handles events until getch()    *)
(* returns ERR; otherwise it handles the result of one getch().            *)

AfterEvent == IF UpdateStyle(current) = "continuous" THEN "events" ELSE "resize"

\* Escape throws QuitAppException in every state.
HandleEscape ==
    /\ phase = "events"
    /\ phase' = "quit"
    /\ UNCHANGED <<current, newState, readerVars, displayVars, envVars>>

\* Mutant: the view is switched to but not set up.
HandleArrowNoSetup(step) ==
    /\ phase = "events" /\ current \in Views
    /\ newState' = SwitchState(newState, current,
                               ViewOfId(TypeId[current] + step))
    /\ UNCHANGED <<phase, current, readerVars, displayVars, envVars>>

\* change_state_to_id(this_state_id() + step).setup(m_reader)
HandleArrow(step) ==
    /\ phase = "events" /\ current \in Views
    /\ LET target == ViewOfId(TypeId[current] + step) IN
         /\ reader' = [reader EXCEPT ![target] = reader[current]]
         /\ \E outcome \in ReadOutcomes(reader[current]) :
              /\ newState' =
                   IF outcome = "error"
                   THEN SwitchState(SwitchState(newState, current, target),
                                    target, "watcher")
                   ELSE SwitchState(newState, current, target)
              /\ phase' = IF outcome = "denied" THEN "terminated" ELSE "events"
    /\ UNCHANGED <<current, attached, hasPermission, displayVars, envVars>>

\* KEY_RESIZE: ncurses has given stdscr the terminal's new size.
HandleResizeKey(size) ==
    /\ phase = "events"
    /\ stdscr' = size
    /\ phase' = AfterEvent
    /\ UNCHANGED <<current, newState, readerVars, envVars>>
    /\ UNCHANGED <<nodelay, grid, layout, errorWidth>>

\* A key that moves no state (scrolling is in module ViewList).
HandleOtherKey ==
    /\ phase = "events"
    /\ phase' = AfterEvent
    /\ UNCHANGED <<current, newState, readerVars, displayVars, envVars>>

\* getch() returns ERR, which it does only when it does not block.
DrainEnd ==
    /\ phase = "events"
    /\ nodelay
    /\ phase' = "resize"
    /\ UNCHANGED <<current, newState, readerVars, displayVars, envVars>>

----------------------------------------------------------------------------
(* The end of an iteration.                                                *)

\* Mutant: the watcher does not wrap its message again.
HandleResizeNoWrap(s) ==
    layout' = [layout EXCEPT ![s] = grid'] /\ UNCHANGED errorWidth

\* handle_resize of state s; the watcher also wraps its message again.
HandleResize(s) ==
    /\ layout' = [layout EXCEPT ![s] = grid']
    /\ errorWidth' = IF s = "watcher" /\ ~hasPermission THEN grid'
                                                        ELSE errorWidth

\* if (ncgrid.update_size()) state_ptr->handle_resize(ncgrid)
UpdateSize ==
    /\ phase = "resize"
    /\ grid' = stdscr
    /\ IF grid # stdscr THEN HandleResize(current)
                        ELSE UNCHANGED <<layout, errorWidth>>
    /\ phase' = "switch"
    /\ UNCHANGED <<current, newState, readerVars, nodelay, stdscr, envVars>>

\* Mutants of the switch: without the test for a new state; with a copy of
\* m_new_state left behind; with getch() left as it was; without handle_resize.
EnterNewStateUnchecked ==
    /\ phase = "switch"
    /\ current' = newState[current]
    /\ newState' = SwitchState(newState, current, "none")
    /\ nodelay' = (UpdateStyle(current') = "continuous")
    /\ phase' = "render"
    /\ UNCHANGED <<readerVars, stdscr, grid, layout, errorWidth, envVars>>

EnterNewStateCopies ==
    /\ phase = "switch" /\ newState[current] # "none"
    /\ current' = newState[current]
    /\ nodelay' = (UpdateStyle(current') = "continuous")
    /\ UNCHANGED grid /\ HandleResize(current')
    /\ phase' = "render"
    /\ UNCHANGED <<newState, readerVars, stdscr, envVars>>

EnterNewStateKeepsInput ==
    /\ phase = "switch" /\ newState[current] # "none"
    /\ current' = newState[current]
    /\ newState' = SwitchState(newState, current, "none")
    /\ UNCHANGED grid /\ HandleResize(current')
    /\ phase' = "render"
    /\ UNCHANGED <<readerVars, nodelay, stdscr, envVars>>

EnterNewStateUnsized ==
    /\ phase = "switch" /\ newState[current] # "none"
    /\ current' = newState[current]
    /\ newState' = SwitchState(newState, current, "none")
    /\ nodelay' = (UpdateStyle(current') = "continuous")
    /\ phase' = "render"
    /\ UNCHANGED <<readerVars, stdscr, grid, layout, errorWidth, envVars>>

\* get_new_state() moves the pointer out; on_new_state sizes the new state
\* and sets the input mode its update style needs.
EnterNewState ==
    /\ phase = "switch"
    /\ newState[current] # "none"
    /\ current' = newState[current]
    /\ newState' = SwitchState(newState, current, "none")
    /\ nodelay' = (UpdateStyle(current') = "continuous")
    /\ UNCHANGED grid
    /\ HandleResize(current')
    /\ phase' = "render"
    /\ UNCHANGED <<readerVars, stdscr, envVars>>

KeepState ==
    /\ phase = "switch"
    /\ newState[current] = "none"
    /\ phase' = "render"
    /\ UNCHANGED <<current, newState, readerVars, displayVars, envVars>>

\* The header PsobbProcessWatcher::render_to selects.
HeaderLength(width) == IF width > LongHeader THEN ShortHeader ELSE LongHeader

\* render_string_centered throws when its string is longer than the line.
HeaderOverflows ==
    current = "watcher" /\ hasPermission /\ HeaderLength(stdscr) > stdscr

\* An error line may run over the width: assert(x < target.width()).
ErrorOverflows ==
    current = "watcher" /\ ~hasPermission /\ errorWidth > stdscr

\* The grid is read at every position of the window.
GridTooSmall == stdscr > grid

\* do_render
Render ==
    /\ phase = "render"
    /\ phase' = IF HeaderOverflows \/ ErrorOverflows \/ GridTooSmall
                THEN "terminated" ELSE "tick"
    /\ UNCHANGED <<current, newState, readerVars, displayVars, envVars>>

----------------------------------------------------------------------------
(* The environment.                                                        *)

\* A process starts, ends, loses its readability, or its pid is reused.
ProcessChange(p) ==
    /\ ~Ended /\ ~calm
    /\ \E s \in Statuses \ {status[p]} : status' = [status EXCEPT ![p] = s]
    /\ UNCHANGED <<loopVars, readerVars, displayVars, calm>>

\* From here on no process changes, and reading the game does not fail.
Settle ==
    /\ ~Ended /\ ~calm
    /\ calm' = TRUE
    /\ UNCHANGED <<loopVars, readerVars, displayVars, status>>

Terminated == Ended /\ UNCHANGED vars

User == \/ HandleEscape
        \/ \E step \in {-1, 1} : HandleArrow(step)
        \/ \E size \in Sizes : HandleResizeKey(size)
        \/ HandleOtherKey

Loop == \/ \E p \in Pids : SearchFinds(p)
        \/ SearchFails
        \/ WatcherAttach
        \/ ViewTick
        \/ SecondUpdate
        \/ DrainEnd
        \/ UpdateSize
        \/ EnterNewState
        \/ KeepState
        \/ Render

Environment == Settle \/ \E p \in Pids : ProcessChange(p)

Next == Loop \/ User \/ Environment \/ Terminated

Spec == Init /\ [][Next]_vars

\* The loop runs.  Weak fairness of DrainEnd, a part of Loop, says that the
\* input queue is empty at some time; strong fairness of LoseView that an
\* arrow key is not held down in every iteration after a read has failed.
LoseView == DrainEnd /\ newState[current] = "watcher"

FairSpec == Spec /\ WF_vars(Loop) /\ SF_vars(LoseView)

----------------------------------------------------------------------------
(* Properties.                                                             *)

\* Every variable has a value of its type.
TypeOK ==
    /\ phase \in Phases
    /\ current \in States
    /\ newState \in [States -> States \cup {"none"}]
    /\ reader \in [Views -> Pids \cup {NoPid}]
    /\ attached \in Pids \cup {NoPid}
    /\ hasPermission \in BOOLEAN
    /\ nodelay \in BOOLEAN
    /\ stdscr \in Sizes
    /\ grid \in Sizes
    /\ layout \in [States -> Sizes \cup {0}]
    /\ errorWidth \in Sizes \cup {0}
    /\ status \in [Pids -> Statuses]
    /\ calm \in BOOLEAN

\* Readers are handed from state to state by setup(), and a view keeps an old
\* one while it is parked.  A view on the screen always has one, and it reads
\* the process the watcher found last, whatever keys were pressed and however
\* often the connection was lost in between.
ReaderIsLatest ==
    current \in Views => reader[current] = attached /\ attached # NoPid

\* get_new_state() moves m_new_state out.  A parked state therefore never holds
\* a switch to another view: at most a fall-back to the watcher is left over
\* from a setup() that failed and was overtaken by another key.
ParkedSwitches ==
    \A s \in States \ {current} :
        newState[s] = "none" \/ (s \in Views /\ newState[s] = "watcher")

\* nodelay is set only by on_new_state, while the update style also depends on
\* m_has_permission, which a tick changes.  The draining loop of a continuous
\* state never blocks in getch(), and a state whose style is to wait for the
\* next event only polls in the iteration that is about to leave it.
InputMode ==
    phase = "events" =>
        /\ UpdateStyle(current) = "continuous" => nodelay
        /\ UpdateStyle(current) = "until_next_event" /\ nodelay =>
             newState[current] = "watcher"

\* The window changes under the program's feet in getch(), and sizes are copied
\* to the grid, to the state on the screen, and to the wrapped error message.
\* Whenever a frame is drawn all the copies agree, also for a view that was
\* parked when the size changed.
LayoutFresh ==
    phase = "render" =>
        /\ grid = stdscr
        /\ layout[current] = stdscr
        /\ current = "watcher" /\ ~hasPermission => errorWidth = stdscr

\* An exception leaves main() in two ways only: a view's setup() or its
\* once-a-second update is refused permission, or the search header does not
\* fit the terminal.  In particular no refusal in the watcher, no read error,
\* and no resizing of a view does.
CrashCause ==
    phase = "terminated" =>
        \/ current \in Views /\ status[attached] \in {"denied", "foreign"}
        \/ current = "watcher" /\ hasPermission /\ stdscr < LongHeader

\* "render_string_centered: given string may not be longer than the render
\* target" (AppStateDefs.cpp:57).  PsobbProcessWatcher::render_to is to select
\* a header that fits if there is one.
HeaderFits ==
    phase = "render" /\ ShortHeader <= stdscr => ~HeaderOverflows

\* The mapping to module Connection.
Conn == INSTANCE Connection WITH
    mode <- IF Ended THEN "closed"
            ELSE IF current = "watcher" THEN "searching" ELSE "attached",
    pid  <- IF current \in Views THEN reader[current] ELSE attached

\* The loop, with its states, parked readers and pending switches, implements
\* the connection: what is on the screen changes process only by way of a
\* search, and is the process of the last one.
ImplementsConnection == Conn!Spec

OneGame == calm /\ \E p \in Pids : Listed = {p} /\ status[p] = "game"
NoGame  == calm /\ \A p \in Pids : status[p] = "absent"

\* If one readable game runs for good, a view is shown for good, unless the
\* program has ended or permission was once refused (m_has_permission is
\* never set again, and from then on each search waits for a key).
FindsLiveProcess ==
    <>[]OneGame => <>[](current \in Views \/ Ended \/ ~hasPermission)

\* If no process is left for good, the program returns to the search for good,
\* although a failed read competes with the arrow keys for the one m_new_state.
LosesDeadProcess ==
    <>[]NoGame => <>[](current = "watcher" \/ Ended)

============================================================================
