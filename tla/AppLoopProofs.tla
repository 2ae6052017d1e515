--------------------------- MODULE AppLoopProofs ---------------------------
(***************************************************************************)
(* Proofs about the main loop, for every set of processes and of terminal  *)
(* sizes.  The safety properties of AppLoop follow from one inductive      *)
(* invariant, IInv; its parts are proved one after the other, each from    *)
(* those before it.                                                        *)
(***************************************************************************)
EXTENDS AppLoop, TLAPS

\* The id of a neighbour names a view.
LEMMA NeighbourIsView ==
    ASSUME NEW v \in Views, NEW step \in {-1, 1}
    PROVE  ViewOfId(TypeId[v] + step) \in Views
<1> DEFINE id      == TypeId[v] + step
           wrapped == IF id < 0 THEN 2 ELSE IF id >= 3 THEN 0 ELSE id
<1>1. TypeId[v] \in 0 .. 2
  BY DEF TypeId, Views
<1>2. wrapped \in 0 .. 2
  BY <1>1
<1>3. \E w \in Views : TypeId[w] = wrapped
  <2>1. CASE wrapped = 0
    BY <2>1, TypeId["bank"] = 0 DEF TypeId, Views
  <2>2. CASE wrapped = 1
    BY <2>2, TypeId["floor"] = 1 DEF TypeId, Views
  <2>3. CASE wrapped = 2
    BY <2>3, TypeId["inventory"] = 2 DEF TypeId, Views
  <2> QED BY <1>2, <2>1, <2>2, <2>3
<1> HIDE DEF wrapped
<1>4. (CHOOSE w \in Views : TypeId[w] = wrapped) \in Views
  BY <1>3
<1> QED BY <1>4 DEF wrapped, ViewOfId

-----------------------------------------------------------------------------
(* Types.                                                                  *)

LEMMA TypeInit == Init => TypeOK
BY DEF Init, TypeOK, States, Views, Phases

LEMMA TypeStep == TypeOK /\ [Next]_vars => TypeOK'
<1> SUFFICES ASSUME TypeOK, [Next]_vars PROVE TypeOK'
  OBVIOUS
<1> USE DEF TypeOK, Phases, States
<1>1. ASSUME NEW p \in Pids, SearchFinds(p) PROVE TypeOK'
  BY <1>1 DEF SearchFinds, displayVars, envVars
<1>2. CASE SearchFails
  BY <1>2 DEF SearchFails, readerVars, displayVars, envVars
<1>3. CASE WatcherAttach
  <2>1. newState' \in [States -> States \cup {"none"}]
    BY <1>3 DEF WatcherAttach, SwitchState, Views
  <2>2. /\ hasPermission' \in BOOLEAN
        /\ errorWidth' \in Sizes \cup {0}
    BY <1>3 DEF WatcherAttach
  <2>3. reader' \in [Views -> Pids \cup {NoPid}]
    BY <1>3 DEF WatcherAttach, Views
  <2> QED BY <1>3, <2>1, <2>2, <2>3 DEF WatcherAttach, envVars
<1>4. CASE ViewTick
  <2>1. newState' \in [States -> States \cup {"none"}]
    BY <1>4 DEF ViewTick, SwitchState
  <2> QED BY <1>4, <2>1 DEF ViewTick, readerVars, displayVars, envVars
<1>5. CASE SecondUpdate
  <2>1. newState' \in [States -> States \cup {"none"}]
    BY <1>5 DEF SecondUpdate, SwitchState
  <2> QED BY <1>5, <2>1 DEF SecondUpdate, readerVars, displayVars, envVars
<1>6. CASE HandleEscape
  BY <1>6 DEF HandleEscape, readerVars, displayVars, envVars
<1>7. ASSUME NEW step \in {-1, 1}, HandleArrow(step) PROVE TypeOK'
  <2> DEFINE target == ViewOfId(TypeId[current] + step)
  <2>1. target \in Views
    BY <1>7, NeighbourIsView DEF HandleArrow
  <2> HIDE DEF target
  <2>2. /\ reader' = [reader EXCEPT ![target] = reader[current]]
        /\ \E outcome \in ReadOutcomes(reader[current]) :
             newState' = IF outcome = "error"
                         THEN SwitchState(SwitchState(newState, current, target),
                                          target, "watcher")
                         ELSE SwitchState(newState, current, target)
        /\ phase' \in {"events", "terminated"}
    BY <1>7 DEF HandleArrow, target
  <2>3. newState' \in [States -> States \cup {"none"}]
    BY <2>1, <2>2 DEF SwitchState
  <2>4. reader' \in [Views -> Pids \cup {NoPid}]
    BY <1>7, <2>1, <2>2 DEF HandleArrow
  <2> QED BY <1>7, <2>2, <2>3, <2>4 DEF HandleArrow, displayVars, envVars
<1>8. ASSUME NEW size \in Sizes, HandleResizeKey(size) PROVE TypeOK'
  BY <1>8 DEF HandleResizeKey, AfterEvent, readerVars, envVars
<1>9. CASE HandleOtherKey
  BY <1>9 DEF HandleOtherKey, AfterEvent, readerVars, displayVars, envVars
<1>10. CASE DrainEnd
  BY <1>10 DEF DrainEnd, readerVars, displayVars, envVars
<1>11. CASE UpdateSize
  <2>1. layout' \in [States -> Sizes \cup {0}] /\ errorWidth' \in Sizes \cup {0}
    BY <1>11 DEF UpdateSize, HandleResize
  <2> QED BY <1>11, <2>1 DEF UpdateSize, readerVars, envVars
<1>12. CASE EnterNewState
  <2>1. current' \in States
    BY <1>12 DEF EnterNewState
  <2>2. newState' \in [States -> States \cup {"none"}]
    BY <1>12 DEF EnterNewState, SwitchState
  <2>3. layout' \in [States -> Sizes \cup {0}] /\ errorWidth' \in Sizes \cup {0}
    BY <1>12, <2>1 DEF EnterNewState, HandleResize
  <2> QED BY <1>12, <2>1, <2>2, <2>3 DEF EnterNewState, readerVars, envVars
<1>13. CASE KeepState
  BY <1>13 DEF KeepState, readerVars, displayVars, envVars
<1>14. CASE Render
  BY <1>14 DEF Render, readerVars, displayVars, envVars
<1>15. ASSUME NEW p \in Pids, ProcessChange(p) PROVE TypeOK'
  BY <1>15 DEF ProcessChange, loopVars, readerVars, displayVars
<1>16. CASE Settle
  BY <1>16 DEF Settle, loopVars, readerVars, displayVars
<1>17. CASE UNCHANGED vars
  BY <1>17 DEF vars, loopVars, readerVars, displayVars, envVars
<1> QED
  BY <1>1, <1>2, <1>3, <1>4, <1>5, <1>6, <1>7, <1>8, <1>9, <1>10, <1>11, <1>12,
     <1>13, <1>14, <1>15, <1>16, <1>17
  DEF Next, Loop, User, Environment, Terminated

\* Every reachable state of the loop is well typed.
THEOREM TypeCorrect == Spec => []TypeOK
BY TypeInit, TypeStep, PTL DEF Spec

-----------------------------------------------------------------------------
(* Which states hold a pending switch, and which reader each one would use. *)

\* ParkedSwitches is not inductive: nothing in it says that the state being
\* left holds no other switch, or that a tick starts with at most a fall-back.
SwitchInv ==
    /\ ParkedSwitches
    /\ phase \in {"tick", "attach", "update", "render"} =>
         newState[current] = "none"
         \/ (current \in Views /\ newState[current] = "watcher")
    /\ phase = "attach" => current = "watcher"
    /\ phase = "update" => current \in Views

\* ReaderIsLatest, for the view on the screen and for the one about to be.
ReaderInv ==
    /\ current \in Views =>
         reader[current] = attached /\ attached \in Pids
    /\ newState[current] \in Views =>
         reader[newState[current]] = attached /\ attached \in Pids
    /\ phase = "attach" => attached \in Pids

LEMMA SwitchStep == TypeOK /\ SwitchInv /\ [Next]_vars => SwitchInv'
<1> SUFFICES ASSUME TypeOK, SwitchInv, [Next]_vars PROVE SwitchInv'
  OBVIOUS
<1> USE DEF SwitchInv, ParkedSwitches, States, SwitchState
<1>a. newState \in [States -> States \cup {"none"}] /\ current \in States
  BY DEF TypeOK
<1>1. ASSUME NEW p \in Pids, SearchFinds(p) PROVE SwitchInv'
  BY <1>1 DEF SearchFinds
<1>2. CASE SearchFails
  BY <1>2 DEF SearchFails
<1>3. CASE WatcherAttach
  BY <1>3, <1>a DEF WatcherAttach, Views
<1>4. CASE ViewTick
  BY <1>4, <1>a DEF ViewTick
<1>5. CASE SecondUpdate
  BY <1>5, <1>a DEF SecondUpdate
<1>6. CASE HandleEscape
  BY <1>6 DEF HandleEscape
<1>7. ASSUME NEW step \in {-1, 1}, HandleArrow(step) PROVE SwitchInv'
  <2> DEFINE target == ViewOfId(TypeId[current] + step)
  <2>1. target \in Views
    BY <1>7, NeighbourIsView DEF HandleArrow
  <2> HIDE DEF target
  <2>2. /\ current' = current
        /\ \/ newState' = SwitchState(SwitchState(newState, current, target),
                                      target, "watcher")
           \/ newState' = SwitchState(newState, current, target)
        /\ phase' \in {"events", "terminated"}
    BY <1>7 DEF HandleArrow, target
  <2> QED BY <1>a, <2>1, <2>2
<1>8. ASSUME NEW size \in Sizes, HandleResizeKey(size) PROVE SwitchInv'
  BY <1>8 DEF HandleResizeKey, AfterEvent
<1>9. CASE HandleOtherKey
  BY <1>9 DEF HandleOtherKey, AfterEvent
<1>10. CASE DrainEnd
  BY <1>10 DEF DrainEnd
<1>11. CASE UpdateSize
  BY <1>11 DEF UpdateSize
<1>12. CASE EnterNewState
  BY <1>12, <1>a DEF EnterNewState, Views
<1>13. CASE KeepState
  BY <1>13 DEF KeepState
<1>14. CASE Render
  BY <1>14 DEF Render
<1>15. ASSUME NEW p \in Pids, ProcessChange(p) PROVE SwitchInv'
  BY <1>15 DEF ProcessChange, loopVars
<1>16. CASE Settle
  BY <1>16 DEF Settle, loopVars
<1>17. CASE UNCHANGED vars
  BY <1>17 DEF vars, loopVars
<1> QED
  BY <1>1, <1>2, <1>3, <1>4, <1>5, <1>6, <1>7, <1>8, <1>9, <1>10, <1>11, <1>12,
     <1>13, <1>14, <1>15, <1>16, <1>17
  DEF Next, Loop, User, Environment, Terminated

LEMMA ReaderStep ==
    TypeOK /\ SwitchInv /\ ReaderInv /\ [Next]_vars => ReaderInv'
<1> SUFFICES ASSUME TypeOK, SwitchInv, ReaderInv, [Next]_vars PROVE ReaderInv'
  OBVIOUS
<1> USE DEF ReaderInv
<1>a. /\ newState \in [States -> States \cup {"none"}]
      /\ reader \in [Views -> Pids \cup {NoPid}]
      /\ current \in States
      /\ Views \subseteq States /\ "watcher" \in States
      /\ "watcher" \notin Views /\ "none" \notin Views
  BY DEF TypeOK, States, Views
<1>1. ASSUME NEW p \in Pids, SearchFinds(p) PROVE ReaderInv'
  BY <1>1, <1>a DEF SearchFinds, SwitchInv
<1>2. CASE SearchFails
  BY <1>2 DEF SearchFails, readerVars
<1>3. CASE WatcherAttach
  <2>1. /\ current = "watcher" /\ current' = "watcher"
        /\ attached \in Pids /\ attached' = attached
        /\ newState'["watcher"] \in {"bank", "watcher"}
        /\ reader'["bank"] = attached
    BY <1>3, <1>a DEF WatcherAttach, SwitchInv, SwitchState, Views
  <2> QED BY <1>3, <1>a, <2>1 DEF WatcherAttach
<1>4. CASE ViewTick
  BY <1>4, <1>a DEF ViewTick, readerVars, SwitchState
<1>5. CASE SecondUpdate
  BY <1>5, <1>a DEF SecondUpdate, readerVars, SwitchState
<1>6. CASE HandleEscape
  BY <1>6 DEF HandleEscape, readerVars
<1>7. ASSUME NEW step \in {-1, 1}, HandleArrow(step) PROVE ReaderInv'
  <2> DEFINE target == ViewOfId(TypeId[current] + step)
  <2>1. target \in Views /\ current \in Views
    BY <1>7, NeighbourIsView DEF HandleArrow
  <2> HIDE DEF target
  <2>2. /\ current' = current /\ attached' = attached
        /\ reader' = [reader EXCEPT ![target] = reader[current]]
        /\ \/ newState' = SwitchState(SwitchState(newState, current, target),
                                      target, "watcher")
           \/ newState' = SwitchState(newState, current, target)
        /\ phase' \in {"events", "terminated"}
    BY <1>7 DEF HandleArrow, target
  <2>3. reader'[current] = attached /\ reader'[target] = attached
    BY <1>a, <2>1, <2>2
  <2>4. newState'[current] \in {target, "watcher"}
    BY <1>a, <2>1, <2>2 DEF SwitchState
  <2> QED BY <1>a, <2>1, <2>2, <2>3, <2>4
<1>8. ASSUME NEW size \in Sizes, HandleResizeKey(size) PROVE ReaderInv'
  BY <1>8 DEF HandleResizeKey, AfterEvent, readerVars
<1>9. CASE HandleOtherKey
  BY <1>9 DEF HandleOtherKey, AfterEvent, readerVars
<1>10. CASE DrainEnd
  BY <1>10 DEF DrainEnd, readerVars
<1>11. CASE UpdateSize
  BY <1>11 DEF UpdateSize, readerVars
<1>12. CASE EnterNewState
  <2>1. /\ current' = newState[current] /\ current' \in States
        /\ newState' = [newState EXCEPT ![current] = "none"]
        /\ reader' = reader /\ attached' = attached /\ phase' = "render"
    BY <1>12, <1>a DEF EnterNewState, SwitchState, readerVars
  <2>2. newState'[current'] \notin Views
    BY <1>a, <2>1 DEF SwitchInv, ParkedSwitches
  <2> QED BY <1>a, <2>1, <2>2
<1>13. CASE KeepState
  BY <1>13 DEF KeepState, readerVars
<1>14. CASE Render
  BY <1>14 DEF Render, readerVars
<1>15. ASSUME NEW p \in Pids, ProcessChange(p) PROVE ReaderInv'
  BY <1>15 DEF ProcessChange, loopVars, readerVars
<1>16. CASE Settle
  BY <1>16 DEF Settle, loopVars, readerVars
<1>17. CASE UNCHANGED vars
  BY <1>17 DEF vars, loopVars, readerVars
<1> QED
  BY <1>1, <1>2, <1>3, <1>4, <1>5, <1>6, <1>7, <1>8, <1>9, <1>10, <1>11, <1>12,
     <1>13, <1>14, <1>15, <1>16, <1>17
  DEF Next, Loop, User, Environment, Terminated

-----------------------------------------------------------------------------
(* Input mode, sizes, and the ways out of main().                          *)

\* InputMode for every phase: the style and nodelay disagree only from the
\* tick that is refused permission to the end of that iteration.
ModeInv ==
    /\ current \in Views \/ hasPermission => nodelay
    /\ current = "watcher" /\ ~hasPermission /\ nodelay =>
         /\ phase \in {"events", "resize", "switch", "quit", "terminated"}
         /\ newState["watcher"] = "watcher"

\* LayoutFresh for every phase: the copies agree with the grid, and the grid
\* with the window except between a getch() and the next update_size().
DisplayInv ==
    /\ layout[current] = grid
    /\ current = "watcher" /\ ~hasPermission => errorWidth = grid
    /\ phase \notin {"events", "resize", "quit", "terminated"} => grid = stdscr

LEMMA ModeStep ==
    TypeOK /\ SwitchInv /\ ModeInv /\ [Next]_vars => ModeInv'
<1> SUFFICES ASSUME TypeOK, SwitchInv, ModeInv, [Next]_vars PROVE ModeInv'
  OBVIOUS
<1> USE DEF ModeInv, SwitchState
<1>a. /\ newState \in [States -> States \cup {"none"}]
      /\ current \in States /\ hasPermission \in BOOLEAN /\ nodelay \in BOOLEAN
      /\ States = Views \cup {"watcher"} /\ "watcher" \notin Views
  BY DEF TypeOK, States, Views
<1>1. ASSUME NEW p \in Pids, SearchFinds(p) PROVE ModeInv'
  BY <1>1, <1>a DEF SearchFinds, displayVars, envVars, SwitchInv
<1>2. CASE SearchFails
  BY <1>2, <1>a DEF SearchFails, readerVars, displayVars, envVars, SwitchInv
<1>3. CASE WatcherAttach
  BY <1>3, <1>a DEF WatcherAttach, envVars, SwitchInv, ParkedSwitches, Views
<1>4. CASE ViewTick
  BY <1>4, <1>a DEF ViewTick, readerVars, displayVars, envVars, SwitchInv
<1>5. CASE SecondUpdate
  BY <1>5, <1>a DEF SecondUpdate, readerVars, displayVars, envVars, SwitchInv
<1>6. CASE HandleEscape
  BY <1>6 DEF HandleEscape, readerVars, displayVars, envVars
<1>7. ASSUME NEW step \in {-1, 1}, HandleArrow(step) PROVE ModeInv'
  BY <1>7, <1>a DEF HandleArrow, displayVars, envVars, SwitchInv
<1>8. ASSUME NEW size \in Sizes, HandleResizeKey(size) PROVE ModeInv'
  BY <1>8, <1>a
  DEF HandleResizeKey, AfterEvent, UpdateStyle, readerVars, envVars, SwitchInv
<1>9. CASE HandleOtherKey
  BY <1>9, <1>a
  DEF HandleOtherKey, AfterEvent, UpdateStyle, readerVars, displayVars, envVars, SwitchInv
<1>10. CASE DrainEnd
  BY <1>10 DEF DrainEnd, readerVars, displayVars, envVars
<1>11. CASE UpdateSize
  BY <1>11 DEF UpdateSize, HandleResize, readerVars, envVars
<1>12. CASE EnterNewState
  BY <1>12, <1>a
  DEF EnterNewState, HandleResize, UpdateStyle, readerVars, envVars, SwitchInv, ParkedSwitches, Views
<1>13. CASE KeepState
  BY <1>13, <1>a DEF KeepState, readerVars, displayVars, envVars, SwitchInv
<1>14. CASE Render
  BY <1>14, <1>a DEF Render, readerVars, displayVars, envVars, SwitchInv
<1>15. ASSUME NEW p \in Pids, ProcessChange(p) PROVE ModeInv'
  BY <1>15 DEF ProcessChange, Ended, loopVars, readerVars, displayVars
<1>16. CASE Settle
  BY <1>16 DEF Settle, Ended, loopVars, readerVars, displayVars
<1>17. CASE UNCHANGED vars
  BY <1>17 DEF vars, loopVars, readerVars, displayVars, envVars
<1> QED
  BY <1>1, <1>2, <1>3, <1>4, <1>5, <1>6, <1>7, <1>8, <1>9, <1>10, <1>11, <1>12,
     <1>13, <1>14, <1>15, <1>16, <1>17
  DEF Next, Loop, User, Environment, Terminated

LEMMA DisplayStep ==
    TypeOK /\ SwitchInv /\ DisplayInv /\ [Next]_vars => DisplayInv'
<1> SUFFICES ASSUME TypeOK, SwitchInv, DisplayInv, [Next]_vars PROVE DisplayInv'
  OBVIOUS
<1> USE DEF DisplayInv
<1>a. /\ layout \in [States -> Sizes \cup {0}]
      /\ newState \in [States -> States \cup {"none"}]
      /\ current \in States /\ "watcher" \in States /\ "none" \notin States
  BY DEF TypeOK, States, Views
<1>1. ASSUME NEW p \in Pids, SearchFinds(p) PROVE DisplayInv'
  BY <1>1 DEF SearchFinds, displayVars, envVars
<1>2. CASE SearchFails
  BY <1>2 DEF SearchFails, readerVars, displayVars, envVars
<1>3. CASE WatcherAttach
  BY <1>3, <1>a DEF WatcherAttach, envVars, SwitchInv
<1>4. CASE ViewTick
  BY <1>4 DEF ViewTick, readerVars, displayVars, envVars
<1>5. CASE SecondUpdate
  BY <1>5 DEF SecondUpdate, readerVars, displayVars, envVars
<1>6. CASE HandleEscape
  BY <1>6 DEF HandleEscape, readerVars, displayVars, envVars
<1>7. ASSUME NEW step \in {-1, 1}, HandleArrow(step) PROVE DisplayInv'
  BY <1>7 DEF HandleArrow, displayVars, envVars
<1>8. ASSUME NEW size \in Sizes, HandleResizeKey(size) PROVE DisplayInv'
  BY <1>8 DEF HandleResizeKey, AfterEvent, UpdateStyle, readerVars, envVars
<1>9. CASE HandleOtherKey
  BY <1>9
  DEF HandleOtherKey, AfterEvent, UpdateStyle, readerVars, displayVars, envVars
<1>10. CASE DrainEnd
  BY <1>10 DEF DrainEnd, readerVars, displayVars, envVars
<1>11. CASE UpdateSize
  BY <1>11, <1>a DEF UpdateSize, HandleResize, readerVars, envVars, SwitchInv
<1>12. CASE EnterNewState
  BY <1>12, <1>a
  DEF EnterNewState, HandleResize, UpdateStyle, readerVars, envVars, SwitchInv
<1>13. CASE KeepState
  BY <1>13 DEF KeepState, readerVars, displayVars, envVars
<1>14. CASE Render
  BY <1>14 DEF Render, readerVars, displayVars, envVars
<1>15. ASSUME NEW p \in Pids, ProcessChange(p) PROVE DisplayInv'
  BY <1>15 DEF ProcessChange, Ended, loopVars, readerVars, displayVars
<1>16. CASE Settle
  BY <1>16 DEF Settle, Ended, loopVars, readerVars, displayVars
<1>17. CASE UNCHANGED vars
  BY <1>17 DEF vars, loopVars, readerVars, displayVars, envVars
<1> QED
  BY <1>1, <1>2, <1>3, <1>4, <1>5, <1>6, <1>7, <1>8, <1>9, <1>10, <1>11, <1>12,
     <1>13, <1>14, <1>15, <1>16, <1>17
  DEF Next, Loop, User, Environment, Terminated

\* Once main() is left nothing changes, so CrashCause only has to be shown of
\* the steps that leave it, from what the invariant says before they do.
LEMMA CrashStep ==
    TypeOK /\ SwitchInv /\ ReaderInv /\ DisplayInv /\ CrashCause /\ [Next]_vars
    => CrashCause'
<1> SUFFICES ASSUME TypeOK, SwitchInv, ReaderInv, DisplayInv, CrashCause,
                    [Next]_vars
             PROVE  CrashCause'
  OBVIOUS
<1>a. /\ current \in States /\ status \in [Pids -> Statuses]
      /\ stdscr \in Nat /\ grid \in Nat /\ hasPermission \in BOOLEAN
  BY SizesAssumption DEF TypeOK
<1>b. ASSUME current \in Views, "denied" \in ReadOutcomes(reader[current])
      PROVE  status[attached] \in {"denied", "foreign"}
  BY <1>a, <1>b DEF ReaderInv, ReadOutcomes, Statuses
<1>1. CASE phase = "terminated"
  <2>1. /\ phase' = phase /\ current' = current /\ status' = status
        /\ attached' = attached /\ stdscr' = stdscr
        /\ hasPermission' = hasPermission
    BY <1>1 DEF Next, Loop, User, Environment, Terminated, SearchFinds,
       SearchFails, WatcherAttach, ViewTick, SecondUpdate, HandleEscape,
       HandleArrow, HandleResizeKey, HandleOtherKey, DrainEnd, UpdateSize,
       EnterNewState, KeepState, Render, ProcessChange, Settle, Ended, vars,
       loopVars, readerVars, displayVars, envVars
  <2> QED BY <1>1, <2>1 DEF CrashCause
<1>2. CASE phase # "terminated" /\ phase' = "terminated"
  <2>1. CASE SecondUpdate
    <3>1. "denied" \in ReadOutcomes(reader[current]) /\ current \in Views
      BY <1>2, <2>1 DEF SecondUpdate, SwitchInv
    <3> QED BY <1>b, <2>1, <3>1
            DEF SecondUpdate, CrashCause, readerVars, displayVars, envVars
  <2>2. ASSUME NEW step \in {-1, 1}, HandleArrow(step) PROVE CrashCause'
    <3>1. "denied" \in ReadOutcomes(reader[current]) /\ current \in Views
      BY <1>2, <2>2 DEF HandleArrow
    <3> QED BY <1>b, <2>2, <3>1
            DEF HandleArrow, CrashCause, displayVars, envVars
  <2>3. CASE Render
    <3>1. HeaderOverflows \/ ErrorOverflows \/ GridTooSmall
      BY <1>2, <2>3 DEF Render
    <3>2. ~ErrorOverflows /\ ~GridTooSmall
      BY <1>a, <2>3 DEF Render, ErrorOverflows, GridTooSmall, DisplayInv
    <3>3. current = "watcher" /\ hasPermission /\ stdscr < LongHeader
      BY <1>a, <3>1, <3>2, HeaderAssumption DEF HeaderOverflows, HeaderLength
    <3> QED BY <2>3, <3>3 DEF Render, CrashCause, readerVars, displayVars
  <2> QED
    BY <1>2, <2>1, <2>2, <2>3
    DEF Next, Loop, User, Environment, Terminated, SearchFinds, SearchFails,
        WatcherAttach, ViewTick, HandleEscape, HandleResizeKey, AfterEvent,
        HandleOtherKey, DrainEnd, UpdateSize, EnterNewState, KeepState,
        ProcessChange, Settle, vars, loopVars
<1> QED BY <1>1, <1>2 DEF CrashCause

-----------------------------------------------------------------------------
(* The invariant and what follows from it.                                 *)

IInv == /\ TypeOK
        /\ SwitchInv
        /\ ReaderInv
        /\ ModeInv
        /\ DisplayInv
        /\ CrashCause

\* The inductive invariant holds in every reachable state.
THEOREM Inductive == Spec => []IInv
<1>1. Init => IInv
  <2> SUFFICES ASSUME Init PROVE IInv
    OBVIOUS
  <2>1. TypeOK
    BY TypeInit
  <2>2. SwitchInv /\ ReaderInv /\ ModeInv /\ DisplayInv /\ CrashCause
    BY DEF Init, SwitchInv, ParkedSwitches, ReaderInv, ModeInv, DisplayInv,
           CrashCause, States, Views
  <2> QED BY <2>1, <2>2 DEF IInv
<1>2. IInv /\ [Next]_vars => IInv'
  BY TypeStep, SwitchStep, ReaderStep, ModeStep, DisplayStep, CrashStep DEF IInv
<1> QED BY <1>1, <1>2, PTL DEF Spec

\* A view on the screen reads the process the watcher found last.
THEOREM ReaderCorrect == Spec => []ReaderIsLatest
<1>1. IInv => ReaderIsLatest
  BY NoPidAssumption DEF IInv, ReaderInv, ReaderIsLatest
<1> QED BY <1>1, Inductive, PTL

\* A state that is not on the screen holds no switch but a fall-back.
THEOREM ParkedCorrect == Spec => []ParkedSwitches
<1>1. IInv => ParkedSwitches
  BY DEF IInv, SwitchInv
<1> QED BY <1>1, Inductive, PTL

\* A draining loop never blocks, and a waiting state does not go on polling.
THEOREM InputModeCorrect == Spec => []InputMode
<1>1. IInv => InputMode
  BY DEF IInv, TypeOK, ModeInv, InputMode, UpdateStyle, States
<1> QED BY <1>1, Inductive, PTL

\* Every frame is drawn with the same size everywhere.
THEOREM LayoutCorrect == Spec => []LayoutFresh
<1>1. IInv => LayoutFresh
  BY DEF IInv, DisplayInv, LayoutFresh
<1> QED BY <1>1, Inductive, PTL

\* Exceptions leave main() only for the two reasons CrashCause names.
THEOREM CrashCorrect == Spec => []CrashCause
<1>1. IInv => CrashCause
  BY DEF IInv
<1> QED BY <1>1, Inductive, PTL

-----------------------------------------------------------------------------
(* Refinement.                                                             *)

\* The mode and the process the mapping shows.
ShownMode == IF Ended THEN "closed"
             ELSE IF current = "watcher" THEN "searching" ELSE "attached"
ShownPid  == IF current \in Views THEN reader[current] ELSE attached

LEMMA ConnectionStep == IInv /\ [Next]_vars => [Conn!Next]_(Conn!vars)
<1> SUFFICES ASSUME IInv, [Next]_vars PROVE [Conn!Next]_(Conn!vars)
  OBVIOUS
<1>a. /\ TypeOK /\ SwitchInv /\ ReaderInv
      /\ newState \in [States -> States \cup {"none"}]
      /\ reader \in [Views -> Pids \cup {NoPid}]
      /\ current \in States
      /\ States = Views \cup {"watcher"} /\ "watcher" \notin Views
      /\ "none" \notin Views
  BY DEF IInv, TypeOK, States, Views
<1>b. ASSUME ShownMode' = ShownMode, ShownPid' = ShownPid
      PROVE  UNCHANGED Conn!vars
  BY <1>b DEF ShownMode, ShownPid, Conn!vars
<1>c. ASSUME ~Ended, Ended', ShownPid' = ShownPid PROVE Conn!Close
  BY <1>c DEF ShownMode, ShownPid, Conn!Close
<1>d. ASSUME UNCHANGED <<current, readerVars>>,
             Ended => UNCHANGED phase
      PROVE  [Conn!Next]_(Conn!vars)
  <2>1. ShownPid' = ShownPid
    BY <1>d DEF ShownPid, readerVars
  <2>2. CASE Ended' = Ended
    BY <1>b, <1>d, <2>1, <2>2 DEF ShownMode
  <2>3. CASE ~Ended /\ Ended'
    BY <1>c, <2>1, <2>3 DEF Conn!Next
  <2> QED BY <1>d, <2>2, <2>3 DEF Ended
<1>1. ASSUME NEW p \in Pids, SearchFinds(p) PROVE [Conn!Next]_(Conn!vars)
  <2>1. ~Ended /\ ~Ended' /\ current = "watcher" /\ current' = "watcher"
        /\ attached' = p
    BY <1>1 DEF SearchFinds, Ended
  <2> QED BY <1>a, <2>1 DEF Conn!Next, Conn!Find
<1>2. CASE WatcherAttach
  <2>1. ~Ended /\ ~Ended' /\ current = "watcher" /\ current' = "watcher"
        /\ attached' = attached
    BY <1>2, <1>a DEF WatcherAttach, SwitchInv, Ended
  <2>2. ShownMode' = ShownMode /\ ShownPid' = ShownPid
    BY <1>a, <2>1 DEF ShownMode, ShownPid
  <2> QED BY <1>b, <2>2
<1>3. ASSUME NEW step \in {-1, 1}, HandleArrow(step)
      PROVE  [Conn!Next]_(Conn!vars)
  <2> DEFINE target == ViewOfId(TypeId[current] + step)
  <2>1. target \in Views /\ current \in Views /\ current' = current
        /\ reader' = [reader EXCEPT ![target] = reader[current]]
    BY <1>3, NeighbourIsView DEF HandleArrow
  <2> HIDE DEF target
  <2>2. ShownPid' = ShownPid
    BY <1>a, <2>1 DEF ShownPid
  <2>3. ~Ended
    BY <1>3 DEF HandleArrow, Ended
  <2>4. CASE Ended'
    BY <1>c, <2>2, <2>3, <2>4 DEF Conn!Next
  <2>5. CASE ~Ended'
    BY <1>b, <2>1, <2>2, <2>3, <2>5 DEF ShownMode
  <2> QED BY <2>4, <2>5
<1>4. CASE EnterNewState
  <2>1. /\ ~Ended /\ ~Ended' /\ current' = newState[current]
        /\ current' \in States
        /\ reader' = reader /\ attached' = attached
    BY <1>4, <1>a DEF EnterNewState, readerVars, Ended
  <2>2. CASE current = "watcher" /\ current' \in Views
    BY <1>a, <2>1, <2>2, NoPidAssumption
    DEF ReaderInv, Conn!Next, Conn!Attach
  <2>3. CASE current \in Views /\ current' = "watcher"
    BY <1>a, <2>1, <2>3 DEF ReaderInv, Conn!Next, Conn!Lose
  <2>4. CASE current = "watcher" <=> current' = "watcher"
    <3>1. ShownMode' = ShownMode /\ ShownPid' = ShownPid
      BY <1>a, <2>1, <2>4 DEF ReaderInv, ShownMode, ShownPid
    <3> QED BY <1>b, <3>1
  <2> QED BY <1>a, <2>1, <2>2, <2>3, <2>4
<1>5. CASE \/ SearchFails \/ ViewTick \/ SecondUpdate \/ HandleEscape
           \/ (\E size \in Sizes : HandleResizeKey(size))
           \/ HandleOtherKey \/ DrainEnd \/ UpdateSize \/ KeepState \/ Render
           \/ (\E p \in Pids : ProcessChange(p)) \/ Settle \/ UNCHANGED vars
  <2>1. UNCHANGED <<current, readerVars>>
    BY <1>5 DEF SearchFails, ViewTick, SecondUpdate, HandleEscape,
       HandleResizeKey, HandleOtherKey, DrainEnd, UpdateSize, KeepState, Render,
       ProcessChange, Settle, vars, loopVars
  <2>2. Ended => UNCHANGED phase
    BY <1>5 DEF SearchFails, ViewTick, SecondUpdate, HandleEscape,
       HandleResizeKey, HandleOtherKey, DrainEnd, UpdateSize, KeepState, Render,
       ProcessChange, Settle, vars, loopVars, Ended
  <2> QED BY <1>d, <2>1, <2>2
<1> QED
  BY <1>1, <1>2, <1>3, <1>4, <1>5 DEF Next, Loop, User, Environment, Terminated

\* The loop implements the connection.
THEOREM ConnectionImplemented == Spec => ImplementsConnection
<1>1. Init => Conn!Init
  BY DEF Init, Conn!Init, Ended, Views
<1>2. IInv /\ [Next]_vars => [Conn!Next]_(Conn!vars)
  BY ConnectionStep
<1> QED BY <1>1, <1>2, Inductive, PTL DEF Spec, Conn!Spec, ImplementsConnection

=============================================================================
