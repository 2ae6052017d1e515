----------------------------- MODULE ViewList -----------------------------
(***************************************************************************)
(* The list one item view keeps and shows (ItemReaderBaseState), against a *)
(* game whose items move and change while they are read.                   *)
(*                                                                         *)
(* A refresh is two reads: load_addresses, then load_items at those        *)
(* addresses.  The tick reloads the items only when the addresses differ   *)
(* from m_old_pointers; setup(), and in some views a once-a-second update, *)
(* reload them always.  Between the two reads, and between a reload and    *)
(* the next tick, the game goes on.  The first read is a dozen itself, and *)
(* may be torn by the game.                                                *)
(*                                                                         *)
(* The main loop around the view, and permissions, are in module AppLoop:  *)
(* here the view is on the screen or away, and a read works or fails.      *)
(***************************************************************************)
EXTENDS Integers, Sequences

CONSTANTS
    Addresses,  \* addresses of items in the game
    Lists,      \* the address lists load_addresses may come by
    Contents,   \* what the memory at the addresses may hold
    Heights     \* heights of the terminal

ASSUME ListsAssumption == Lists \subseteq Seq(Addresses) /\ <<>> \in Lists
ASSUME HeightsAssumption == Heights \subseteq Nat

VARIABLES
    pc,          \* where the view is in the main loop, or "away"
    pointers,    \* m_pointers
    oldPointers, \* m_old_pointers
    shown,       \* m_items and the m_item_strings made of them
    offset,      \* m_line_offset
    pageStep,    \* m_page_step
    ejecting,    \* m_new_state is the process watcher
    list,        \* game: the addresses this view is to show
    content,     \* game: what is at them
    secondly,    \* the view is a SecondlyUpdatingItemReader, and stays one
    moved,       \* history: list has changed since the last reload began to
                 \* read it, or a read of it was torn
    settled      \* the game has stopped changing

viewVars == <<pc, pointers, oldPointers, shown, offset, pageStep, ejecting>>
gameVars == <<list, content, settled, secondly>>
vars == <<viewVars, gameVars, moved>>

----------------------------------------------------------------------------

OnScreen == {"render", "tick", "tickLoad", "update", "updateLoad", "keys"}

NoItems == [addrs |-> <<>>, content |-> CHOOSE c \in Contents : TRUE]

\* Mutant: no clamp.
ClampNot(n, position) == position

\* update_item_strings: at most one past the last line.
Clamp(n, position) == IF n < position THEN n ELSE position

\* handle_resize
PageStep(height) == (height * 2) \div 5

\* Mutant: std::equal without the end of the second list.
ChangedPrefix(new, old) ==
    ~ \E n \in 0 .. Len(old) : new = SubSeq(old, 1, n)

\* The comparison of m_pointers with m_old_pointers.
Changed(new, old) == new # old

AfterTick == IF secondly THEN "update" ELSE "keys"

Init ==
    /\ pc = "away"
    /\ pointers = <<>> /\ oldPointers = <<>>
    /\ shown = NoItems
    /\ offset = 0 /\ pageStep = 0
    /\ ejecting = FALSE
    /\ secondly \in BOOLEAN
    /\ list \in Lists /\ content \in Contents
    /\ moved = FALSE /\ settled = FALSE

----------------------------------------------------------------------------
(* Reading.                                                                *)

\* load_addresses returns.  If the game moves items under its reads (module
\* ItemTable) what it read may be a list that never was.
ReadAddresses(torn) ==
    IF torn THEN ~settled /\ pointers' \in Lists ELSE pointers' = list

\* load_addresses throws, with whatever it had gathered by then in m_pointers.
ReadFails ==
    /\ ~settled
    /\ pointers' \in Lists
    /\ ejecting' = TRUE
    /\ UNCHANGED moved

\* Mutant: a reload goes back to the top.
LoadItemsFromTop ==
    /\ shown' = [addrs |-> pointers, content |-> content]
    /\ offset' = 0
    /\ UNCHANGED ejecting

\* m_items = load_items(*m_reader, m_pointers); update_item_strings();
LoadItems ==
    /\ shown' = [addrs |-> pointers, content |-> content]
    /\ offset' = Clamp(Len(pointers), offset)
    /\ UNCHANGED ejecting

\* load_items throws and its result is not assigned.
LoadFails == ~settled /\ ejecting' = TRUE /\ UNCHANGED <<shown, offset>>

\* Mutant: no reload when the addresses are the same.
UpdateItemListLazy(loading, failed) ==
    /\ oldPointers' = pointers
    /\ pointers' = list
    /\ moved' = FALSE
    /\ IF list = pointers THEN pc' \in failed ELSE pc' = loading
    /\ UNCHANGED <<shown, offset, ejecting, gameVars>>

\* update_item_list up to load_items: what to show is compared by the next
\* tick with the list before this one.
UpdateItemList(loading, failed) ==
    /\ oldPointers' = pointers
    /\ \/ /\ \E torn \in BOOLEAN : ReadAddresses(torn) /\ moved' = torn
          /\ pc' = loading
          /\ UNCHANGED ejecting
       \/ ReadFails /\ pc' \in failed
    /\ UNCHANGED <<shown, offset, gameVars>>

\* setup(), called by another state.  The switch to this view may then be
\* overtaken by another key, which leaves it away.
Setup ==
    /\ pc = "away"
    /\ UpdateItemList("setupLoad", {"away", "enter"})
    /\ UNCHANGED pageStep

SetupLoad ==
    /\ pc = "setupLoad"
    /\ LoadItems \/ LoadFails
    /\ pc' \in {"away", "enter"}
    /\ UNCHANGED <<pointers, oldPointers, pageStep, moved, gameVars>>

\* on_new_state
Enter(height) ==
    /\ pc = "enter"
    /\ pageStep' = PageStep(height)
    /\ pc' = "render"
    /\ UNCHANGED <<pointers, oldPointers, shown, offset, ejecting>>
    /\ UNCHANGED <<gameVars, moved>>

\* ItemReaderBaseState::handle_tick up to load_items.  Twice a second it
\* makes the strings anew, which clamps the offset.
Tick ==
    /\ pc = "tick"
    /\ offset' \in {offset, Clamp(Len(shown.addrs), offset)}
    /\ \/ \E torn \in BOOLEAN :
            /\ ReadAddresses(torn)
            /\ IF Changed(pointers', oldPointers)
               THEN pc' = "tickLoad" /\ moved' = torn
               ELSE pc' = AfterTick /\ moved' = (moved \/ torn)
            /\ UNCHANGED ejecting
       \/ ReadFails /\ pc' = AfterTick
    /\ UNCHANGED <<oldPointers, shown, pageStep, gameVars>>

TickLoad ==
    /\ pc = "tickLoad"
    /\ \/ LoadItems /\ oldPointers' = pointers
       \/ LoadFails /\ UNCHANGED oldPointers
    /\ pc' = AfterTick
    /\ UNCHANGED <<pointers, pageStep, moved, gameVars>>

\* SecondlyUpdatingItemReader::handle_tick, when a second has passed and when
\* it has not.
Update ==
    /\ pc = "update"
    /\ UpdateItemList("updateLoad", {"keys"})
    /\ UNCHANGED pageStep

NotDue ==
    /\ pc = "update"
    /\ pc' = "keys"
    /\ UNCHANGED <<pointers, oldPointers, shown, offset, pageStep, ejecting>>
    /\ UNCHANGED <<gameVars, moved>>

UpdateLoad ==
    /\ pc = "updateLoad"
    /\ LoadItems \/ LoadFails
    /\ pc' = "keys"
    /\ UNCHANGED <<pointers, oldPointers, pageStep, moved, gameVars>>

----------------------------------------------------------------------------
(* Keys, and the end of the iteration.                                     *)

\* The lambda scroll of handle_event.
ScrollTo(position) ==
    IF position < 0 THEN 0
    ELSE IF position >= Len(shown.addrs) THEN Len(shown.addrs) - 1
    ELSE position

Scroll(step) ==
    /\ pc = "keys"
    /\ offset' = ScrollTo(offset + step)
    /\ UNCHANGED <<pc, pointers, oldPointers, shown, pageStep, ejecting>>
    /\ UNCHANGED <<gameVars, moved>>

\* main() moves m_new_state out and the view is left: for the watcher after a
\* failure, or for another view after an arrow key, pending failure or not.
Leave ==
    /\ pc = "keys"
    /\ pc' = "away"
    /\ ejecting' = FALSE
    /\ UNCHANGED <<pointers, oldPointers, shown, offset, pageStep>>
    /\ UNCHANGED <<gameVars, moved>>

Eject == ejecting /\ Leave

\* No switch: the terminal may have been resized.
Stay(height) ==
    /\ pc = "keys"
    /\ ~ejecting
    /\ pageStep' \in {pageStep, PageStep(height)}
    /\ pc' = "render"
    /\ UNCHANGED <<pointers, oldPointers, shown, offset, ejecting>>
    /\ UNCHANGED <<gameVars, moved>>

\* render_item_list, from begin() + m_line_offset
Render ==
    /\ pc = "render"
    /\ pc' = "tick"
    /\ UNCHANGED <<pointers, oldPointers, shown, offset, pageStep, ejecting>>
    /\ UNCHANGED <<gameVars, moved>>

----------------------------------------------------------------------------
(* The game.                                                               *)

\* Items are picked up, dropped, banked, or reordered.
ItemsMove ==
    /\ ~settled
    /\ list' \in Lists \ {list}
    /\ moved' = TRUE
    /\ UNCHANGED <<viewVars, content, settled, secondly>>

\* An item changes where it is: a stack, kills, a mag's level.
ItemsChange ==
    /\ ~settled
    /\ content' \in Contents \ {content}
    /\ UNCHANGED <<viewVars, list, moved, settled, secondly>>

\* From here on nothing changes and reads work.
Settle ==
    /\ ~settled
    /\ settled' = TRUE
    /\ UNCHANGED <<viewVars, list, content, moved, secondly>>

View == \/ SetupLoad
        \/ \E height \in Heights : Enter(height) \/ Stay(height)
        \/ Tick \/ TickLoad
        \/ Update \/ NotDue \/ UpdateLoad
        \/ Eject
        \/ Render

User == \/ Setup
        \/ \E step \in {-1, 1, -pageStep, pageStep} : Scroll(step)
        \/ Leave

Game == ItemsMove \/ ItemsChange \/ Settle

Next == View \/ User \/ Game

Spec == Init /\ [][Next]_vars

\* The loop runs while the view is on the screen, and a second passes again
\* and again.
FairSpec == Spec /\ WF_vars(View) /\ SF_vars(Update)

----------------------------------------------------------------------------
(* Properties.                                                             *)

\* Every variable has a value of its type; m_line_offset is -1 at least and
\* never past the end of the list: render_item_list's begin() + m_line_offset
\* does not pass end(), whatever reloads and keys came before.
TypeOK ==
    /\ pc \in OnScreen \cup {"away", "setupLoad", "enter"}
    /\ pointers \in Lists /\ oldPointers \in Lists
    /\ shown \in [addrs : Lists, content : Contents]
    /\ offset \in -1 .. Len(shown.addrs)
    /\ pageStep \in {0} \cup {PageStep(h) : h \in Heights}
    /\ ejecting \in BOOLEAN /\ secondly \in BOOLEAN
    /\ list \in Lists /\ content \in Contents
    /\ moved \in BOOLEAN /\ settled \in BOOLEAN

\* After a tick and update in which nothing failed, the items shown are those
\* of the addresses just read - or the list went away and came back between a
\* reload and a tick: update_item_list leaves in m_old_pointers the list before
\* the one it loads, so a tick that finds that one again sees no change.  (A
\* torn reading of a list can do the same.)
GhostNeedsFlip ==
    pc = "keys" /\ ~ejecting =>
        shown.addrs = pointers \/ (moved /\ pointers = oldPointers)

\* A reload keeps the user's place in the list, as far as the list still
\* reaches; only a key moves it otherwise.
ReloadKeepsPlace ==
    [][pc # "keys" => offset' = Clamp(Len(shown'.addrs), offset)]_vars

\* The intention of scroll's clamp, "if (m_line_offset < 0) { m_line_offset =
\* 0; }" (ItemReaderBaseState.cpp:49): rendering starts at a line of the list
\* or at its end.
RenderStartsInList ==
    pc = "render" => offset \in 0 .. Len(shown.addrs)

\* If the game settles down and the view stays on the screen, a view with the
\* once-a-second update shows what is there, addresses and contents.  (The floor
\* view does not: a list masked as in GhostNeedsFlip, or a content that changed
\* in place, stays on it.)
CatchesUp ==
    secondly /\ <>[](settled /\ pc \in OnScreen) =>
        <>[](shown = [addrs |-> list, content |-> content])

============================================================================
