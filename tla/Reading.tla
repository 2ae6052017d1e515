------------------------------ MODULE Reading ------------------------------
(***************************************************************************)
(* What ItemReaderBaseState asks of any view's load_addresses and          *)
(* load_items, with the reads they are made of left out: the first gathers *)
(* the addresses that are due, the second makes one item of each address   *)
(* gathered, by what is there.  Only if the game changed something in the  *)
(* course of the refresh may it come by other addresses, or misread what   *)
(* is there; but the items are still those of the addresses gathered.      *)
(*                                                                         *)
(* Modules ItemTable and BankTable implement it; ViewList takes it for     *)
(* granted (ReadAddresses, LoadItems).                                     *)
(***************************************************************************)
EXTENDS Sequences, Functions

CONSTANT Addresses

VARIABLES
    phase,    \* how far the refresh has come
    due,      \* game: the addresses the view is to list, in their order
    content,  \* game: what is at each address
    pointers, \* m_pointers, gathered by load_addresses
    shown,    \* m_items, made by load_items
    torn      \* history: the game has changed since the refresh began

vars == <<phase, torn, pointers, shown, due, content>>

Init == phase = "idle" /\ pointers = <<>> /\ shown = {} /\ torn = TRUE

\* A refresh begins; which addresses are due depends on the view.
Begin ==
    /\ phase \in {"idle", "done"}
    /\ phase' = "gathering"
    /\ pointers' = <<>> /\ shown' = {}
    /\ torn' = FALSE
    /\ UNCHANGED content

\* load_addresses returns.
Gather ==
    /\ phase = "gathering"
    /\ phase' = "loading"
    /\ IF torn THEN pointers' \in Seq(Addresses) ELSE pointers' = due
    /\ UNCHANGED <<torn, shown, due, content>>

ItemsAt(addrs) == {[addr |-> a, content |-> content[a]] : a \in addrs}

\* load_items returns.
Load ==
    /\ phase = "loading"
    /\ phase' = "done"
    /\ {item.addr : item \in shown'} = Range(pointers)
    /\ torn \/ shown' = ItemsAt(Range(pointers))
    /\ UNCHANGED <<torn, pointers, due, content>>

\* A read throws, and neither the addresses nor the items are used.
GiveUp ==
    /\ phase \in {"gathering", "loading"}
    /\ phase' = "idle"
    /\ pointers' = <<>> /\ shown' = {}
    /\ UNCHANGED <<torn, due, content>>

\* The game changes what is due and what is there in whatever way.
Change == torn' = TRUE /\ UNCHANGED <<phase, pointers, shown>>

Next == Begin \/ Gather \/ Load \/ GiveUp \/ Change

Spec == Init /\ [][Next]_vars

============================================================================
