-------------------------- MODULE ViewListProofs --------------------------
(***************************************************************************)
(* Proofs about the list of a view, for every set of address lists, every  *)
(* contents and every terminal height, with and without the once-a-second  *)
(* update.                                                                 *)
(***************************************************************************)
EXTENDS ViewList, TLAPS

\* What the game can list are sequences, so they have a length.
LEMMA ListLength == ASSUME NEW l \in Lists PROVE Len(l) \in Nat
BY ListsAssumption

\* A page is a natural number of lines.
LEMMA PageStepNat == ASSUME NEW h \in Heights PROVE PageStep(h) \in Nat
<1>1. h \in Nat
  BY HeightsAssumption
<1> QED BY <1>1 DEF PageStep

\* The clamps keep the place between -1 and one past the last line.
LEMMA ClampInRange ==
    ASSUME NEW n \in Nat, NEW position \in Int, -1 <= position
    PROVE  Clamp(n, position) \in -1 .. n
BY DEF Clamp

LEMMA ScrollInRange ==
    ASSUME NEW position \in Int, Len(shown.addrs) \in Nat
    PROVE  ScrollTo(position) \in -1 .. Len(shown.addrs)
BY DEF ScrollTo

-----------------------------------------------------------------------------

LEMMA TypeInit == Init => TypeOK
<1> SUFFICES ASSUME Init PROVE TypeOK
  OBVIOUS
<1>1. NoItems \in [addrs : Lists, content : Contents]
  BY ListsAssumption DEF Init, NoItems
<1>2. Len(shown.addrs) = 0
  BY DEF Init, NoItems
<1>3. offset \in -1 .. Len(shown.addrs)
  BY <1>2 DEF Init
<1> QED BY <1>1, <1>3, ListsAssumption DEF Init, TypeOK, OnScreen

\* The two outcomes of load_items keep the types.
LEMMA LoadTypes ==
    ASSUME TypeOK, LoadItems \/ LoadFails
    PROVE  /\ shown' \in [addrs : Lists, content : Contents]
           /\ offset' \in -1 .. Len(shown'.addrs)
           /\ ejecting' \in BOOLEAN
<1>1. CASE LoadItems
  <2>1. shown' \in [addrs : Lists, content : Contents] /\ shown'.addrs = pointers
    BY <1>1 DEF LoadItems, TypeOK
  <2>2. Len(pointers) \in Nat /\ offset \in Int /\ -1 <= offset
    BY ListLength DEF TypeOK
  <2>3. offset' \in -1 .. Len(pointers)
    BY <1>1, <2>2, ClampInRange DEF LoadItems
  <2> QED BY <1>1, <2>1, <2>3 DEF LoadItems, TypeOK
<1>2. CASE LoadFails
  BY <1>2 DEF LoadFails, TypeOK
<1> QED BY <1>1, <1>2

LEMMA TypeStep == TypeOK /\ [Next]_vars => TypeOK'
<1> SUFFICES ASSUME TypeOK, [Next]_vars PROVE TypeOK'
  OBVIOUS
<1>a. /\ Len(shown.addrs) \in Nat /\ Len(pointers) \in Nat
      /\ offset \in Int /\ -1 <= offset
      /\ pageStep \in Int
  BY ListLength, PageStepNat DEF TypeOK
<1> USE DEF TypeOK, OnScreen
<1>1. CASE Setup
  BY <1>1 DEF Setup, UpdateItemList, ReadAddresses, ReadFails, gameVars
<1>2. CASE SetupLoad
  BY <1>2, LoadTypes DEF SetupLoad, gameVars
<1>3. ASSUME NEW height \in Heights, Enter(height) PROVE TypeOK'
  BY <1>3 DEF Enter, gameVars
<1>4. CASE Tick
  <2>1. offset' \in -1 .. Len(shown.addrs) /\ shown' = shown
    BY <1>4, <1>a, ClampInRange DEF Tick
  <2>2. /\ pc' \in {"tickLoad", "update", "keys"} /\ pointers' \in Lists
        /\ ejecting' \in BOOLEAN /\ moved' \in BOOLEAN
    BY <1>4 DEF Tick, ReadAddresses, ReadFails, AfterTick
  <2> QED BY <1>4, <2>1, <2>2 DEF Tick, gameVars
<1>5. CASE TickLoad
  <2>1. LoadItems \/ LoadFails
    BY <1>5 DEF TickLoad
  <2>2. oldPointers' \in Lists /\ pc' \in {"update", "keys"}
    BY <1>5 DEF TickLoad, AfterTick
  <2> QED BY <1>5, <2>1, <2>2, LoadTypes DEF TickLoad, gameVars
<1>6. CASE Update
  BY <1>6 DEF Update, UpdateItemList, ReadAddresses, ReadFails, gameVars
<1>7. CASE NotDue
  BY <1>7 DEF NotDue, gameVars
<1>8. CASE UpdateLoad
  BY <1>8, LoadTypes DEF UpdateLoad, gameVars
<1>9. ASSUME NEW step \in {-1, 1, -pageStep, pageStep}, Scroll(step)
      PROVE  TypeOK'
  <2>1. offset' \in -1 .. Len(shown.addrs)
    BY <1>9, <1>a, ScrollInRange DEF Scroll
  <2> QED BY <1>9, <2>1 DEF Scroll, gameVars
<1>10. CASE Leave
  BY <1>10 DEF Leave, gameVars
<1>11. ASSUME NEW height \in Heights, Stay(height) PROVE TypeOK'
  BY <1>11 DEF Stay, gameVars
<1>12. CASE Render
  BY <1>12 DEF Render, gameVars
<1>13. CASE ItemsMove \/ ItemsChange \/ Settle
  BY <1>13 DEF ItemsMove, ItemsChange, Settle, viewVars
<1>14. CASE UNCHANGED vars
  BY <1>14 DEF vars, viewVars, gameVars
<1> QED
  BY <1>1, <1>2, <1>3, <1>4, <1>5, <1>6, <1>7, <1>8, <1>9, <1>10, <1>11, <1>12,
     <1>13, <1>14
  DEF Next, View, User, Game, Eject

\* Types, and the bounds of the place in the list.
THEOREM TypeCorrect == Spec => []TypeOK
BY TypeInit, TypeStep, PTL DEF Spec

-----------------------------------------------------------------------------

\* GhostNeedsFlip holds after a tick because before it, unless the list has
\* moved, what is shown, or about to be loaded, is the list.
GhostInv ==
    /\ pc \in {"enter", "render", "tick", "update", "keys"} /\ ~ejecting /\ ~moved
         => shown.addrs = list
    /\ pc \in {"setupLoad", "tickLoad", "updateLoad"} /\ ~moved
         => pointers = list
    /\ pc \in {"update", "keys"} /\ ~ejecting
         => shown.addrs = pointers \/ (moved /\ pointers = oldPointers)

LEMMA GhostStep == TypeOK /\ GhostInv /\ [Next]_vars => GhostInv'
<1> SUFFICES ASSUME TypeOK, GhostInv, [Next]_vars PROVE GhostInv'
  OBVIOUS
<1>a. moved \in BOOLEAN /\ ejecting \in BOOLEAN
  BY DEF TypeOK
<1> USE DEF GhostInv
<1>1. CASE Setup
  BY <1>1 DEF Setup, UpdateItemList, ReadAddresses, ReadFails, gameVars
<1>2. CASE SetupLoad
  BY <1>2 DEF SetupLoad, LoadItems, LoadFails, gameVars
<1>3. ASSUME NEW height \in Heights, Enter(height) PROVE GhostInv'
  BY <1>3 DEF Enter, gameVars
<1>4. CASE Tick
  <2>a. /\ shown' = shown /\ list' = list /\ oldPointers' = oldPointers
        /\ pc = "tick"
    BY <1>4 DEF Tick, gameVars
  <2>b. AfterTick \in {"update", "keys"}
    BY DEF AfterTick
  <2>1. CASE ReadFails /\ pc' = AfterTick
    BY <2>1, <2>a, <2>b DEF ReadFails
  <2>2. ASSUME NEW torn \in BOOLEAN, ReadAddresses(torn),
               pc' = "tickLoad", moved' = torn
        PROVE  GhostInv'
    BY <2>2, <2>a DEF ReadAddresses
  <2>3. ASSUME NEW torn \in BOOLEAN, ReadAddresses(torn),
               pointers' = oldPointers, pc' = AfterTick,
               moved' = (moved \/ torn), ejecting' = ejecting
        PROVE  GhostInv'
    <3>1. ~torn => pointers' = list
      BY <2>3 DEF ReadAddresses
    <3> QED BY <2>3, <3>1, <2>a, <2>b, <1>a
  <2>4. \/ ReadFails /\ pc' = AfterTick
        \/ \E torn \in BOOLEAN :
             /\ ReadAddresses(torn) /\ ejecting' = ejecting
             /\ \/ pc' = "tickLoad" /\ moved' = torn
                \/ /\ pointers' = oldPointers /\ pc' = AfterTick
                   /\ moved' = (moved \/ torn)
    BY <1>4 DEF Tick, Changed
  <2> QED BY <2>1, <2>2, <2>3, <2>4
<1>5. CASE TickLoad
  BY <1>5 DEF TickLoad, LoadItems, LoadFails, AfterTick, gameVars
<1>6. CASE Update
  BY <1>6 DEF Update, UpdateItemList, ReadAddresses, ReadFails, gameVars
<1>7. CASE NotDue
  BY <1>7 DEF NotDue, gameVars
<1>8. CASE UpdateLoad
  BY <1>8 DEF UpdateLoad, LoadItems, LoadFails, gameVars
<1>9. ASSUME NEW step \in {-1, 1, -pageStep, pageStep}, Scroll(step)
      PROVE  GhostInv'
  BY <1>9 DEF Scroll, gameVars
<1>10. CASE Leave
  BY <1>10 DEF Leave
<1>11. ASSUME NEW height \in Heights, Stay(height) PROVE GhostInv'
  BY <1>11 DEF Stay, gameVars
<1>12. CASE Render
  BY <1>12 DEF Render, gameVars
<1>13. CASE ItemsMove \/ ItemsChange \/ Settle
  BY <1>13 DEF ItemsMove, ItemsChange, Settle, viewVars
<1>14. CASE UNCHANGED vars
  BY <1>14 DEF vars, viewVars, gameVars
<1> QED
  BY <1>1, <1>2, <1>3, <1>4, <1>5, <1>6, <1>7, <1>8, <1>9, <1>10, <1>11, <1>12,
     <1>13, <1>14
  DEF Next, View, User, Game, Eject

\* Items that are not there are shown only after a list that went and came
\* back.
THEOREM GhostCorrect == Spec => []GhostNeedsFlip
<1>1. Init => GhostInv
  BY DEF Init, GhostInv
<1>2. GhostInv => GhostNeedsFlip
  BY DEF GhostInv, GhostNeedsFlip
<1> QED BY <1>1, <1>2, GhostStep, TypeCorrect, PTL DEF Spec

\* A reload keeps the place in the list as far as the list reaches.
THEOREM PlaceCorrect == Spec => ReloadKeepsPlace
<1>1. TypeOK /\ [Next]_vars
        => [pc # "keys" => offset' = Clamp(Len(shown'.addrs), offset)]_vars
  <2> SUFFICES ASSUME TypeOK, Next, pc # "keys"
               PROVE  offset' = Clamp(Len(shown'.addrs), offset)
    OBVIOUS
  <2>1. Len(shown.addrs) \in Nat /\ offset \in -1 .. Len(shown.addrs)
    BY ListLength DEF TypeOK
  <2>2. CASE offset' = offset /\ shown' = shown
    BY <2>1, <2>2 DEF Clamp
  <2>3. CASE LoadItems
    BY <2>3 DEF LoadItems
  <2>4. CASE Tick
    BY <2>1, <2>4 DEF Tick, Clamp
  <2> QED
    BY <2>2, <2>3, <2>4
    DEF Next, View, User, Game, Eject, Setup, SetupLoad, Enter, TickLoad,
        LoadFails, Update, UpdateItemList, NotDue, UpdateLoad, Scroll, Leave,
        Stay, Render, ItemsMove, ItemsChange, Settle, viewVars
<1> QED BY <1>1, TypeCorrect, PTL DEF Spec, ReloadKeepsPlace

============================================================================
