----------------------------- MODULE BankTable -----------------------------
(***************************************************************************)
(* One refresh of the bank view (update_bank_pointers, load_bank,          *)
(* BankViewState::load_items), read by read, against a game that goes on   *)
(* banking items, and opens and closes banks.                              *)
(*                                                                         *)
(* Unlike the item table, the bank is one block of memory: its items are   *)
(* at places counted off from its pointer, so moving them changes no       *)
(* address.  The pointer is read twice, for the items and for the Meseta.  *)
(* That make_item and load_from_bank each read the code is in ItemTable.   *)
(***************************************************************************)
EXTENDS Integers, Sequences, Functions

CONSTANTS
    Banks,    \* addresses a bank may be at
    NoBank,   \* a null bank pointer
    Codes,    \* item codes, in the order of Item::operator <
    Amounts,  \* of Meseta
    MaxCount  \* items a bank may say it has

ASSUME BanksAssumption == NoBank \notin Banks
ASSUME CodesAssumption == Codes \subseteq Nat
ASSUME CountAssumption == MaxCount \in Nat

VARIABLES
    \* the game
    bankPtr,  \* behind k_bank_ptr_addr
    bank,     \* the memory of each bank
    \* the refresh
    pc,        \* the next read
    ptr,       \* bank_ptr, of update_bank_pointers and then of load_bank
    addresses, \* the AddressList, m_pointers
    made,      \* the ItemList
    header,    \* the quantity in m_header_string
    \* histories since the refresh began
    quiet,     \* the game has changed nothing
    switched   \* the game has changed the bank pointer

gameVars == <<bankPtr, bank>>
readVars == <<ptr, addresses, made, header>>
historyVars == <<quiet, switched>>
vars == <<gameVars, pc, readVars, historyVars>>

----------------------------------------------------------------------------

Pointers == Banks \cup {NoBank}

BankMemory == [count : 0 .. MaxCount, meseta : Amounts,
               codes : [1 .. MaxCount -> Codes]]

Places == Banks \X (1 .. MaxCount)

\* A Meseta is not loaded by its code, which stays 0.
MesetaCode == 0

MesetaOf(b, amount) == [kind |-> "meseta", at |-> b, code |-> MesetaCode,
                        amount |-> amount]

ItemAt(place, c) == [kind |-> "item", at |-> place, code |-> c]

Init ==
    /\ bankPtr \in Pointers
    /\ bank \in [Banks -> BankMemory]
    /\ pc = "idle"
    /\ ptr = NoBank
    /\ addresses = <<>> /\ made = <<>>
    /\ header = 0
    /\ quiet = FALSE /\ switched = FALSE

----------------------------------------------------------------------------
(* The refresh.                                                            *)

\* Mutant: the callers leave m_pointers as it was.
StartUncleared ==
    /\ pc \in {"idle", "done"}
    /\ made' = <<>>
    /\ pc' = "ptr"
    /\ quiet' = TRUE /\ switched' = FALSE
    /\ UNCHANGED <<gameVars, ptr, addresses, header>>

\* update_bank_pointers returns early without clearing the list: its callers,
\* handle_tick and update_item_list, have.
Start ==
    /\ pc \in {"idle", "done"}
    /\ addresses' = <<>> /\ made' = <<>>
    /\ pc' = "ptr"
    /\ quiet' = TRUE /\ switched' = FALSE
    /\ UNCHANGED <<gameVars, ptr, header>>

ReadPtr ==
    /\ pc = "ptr"
    /\ ptr' = bankPtr
    /\ pc' = IF bankPtr = NoBank THEN "items" ELSE "count"
    /\ UNCHANGED <<gameVars, addresses, made, header, historyVars>>

\* Mutant: one place too few.
ReadCountShort ==
    /\ pc = "count"
    /\ addresses' = [k \in 1 .. bank[ptr].count - 1 |-> <<ptr, k>>]
    /\ pc' = "items"
    /\ UNCHANGED <<gameVars, ptr, made, header, historyVars>>

\* The places of the items are computed, and not read.
ReadCount ==
    /\ pc = "count"
    /\ addresses' = [k \in 1 .. bank[ptr].count |-> <<ptr, k>>]
    /\ pc' = "items"
    /\ UNCHANGED <<gameVars, ptr, made, header, historyVars>>

\* load_gen<&Item::load_from_bank>
ReadItem ==
    /\ pc = "items" /\ Len(made) < Len(addresses)
    /\ LET place == addresses[Len(made) + 1]
       IN  made' = Append(made, ItemAt(place, bank[place[1]].codes[place[2]]))
    /\ UNCHANGED <<gameVars, pc, ptr, addresses, header, historyVars>>

\* load_bank reads the pointer again.
ReadPtrAgain ==
    /\ pc = "items" /\ Len(made) = Len(addresses)
    /\ ptr' = bankPtr
    /\ pc' = IF bankPtr = NoBank THEN "arrange" ELSE "meseta"
    /\ UNCHANGED <<gameVars, addresses, made, header, historyVars>>

ReadMeseta ==
    /\ pc = "meseta"
    /\ made' = Append(made, MesetaOf(ptr, bank[ptr].meseta))
    /\ pc' = "arrange"
    /\ UNCHANGED <<gameVars, ptr, addresses, header, historyVars>>

\* Orders std::sort may leave: any in which no later item is less.
Orders(m) ==
    {p \in [1 .. m -> 1 .. m] : \A j \in 1 .. m : \E i \in 1 .. m : p[i] = j}

Sorted(list) ==
    \A i, j \in 1 .. Len(list) : i < j => list[i].code <= list[j].code

Sort == \E p \in Orders(Len(made)) :
          /\ made' = [k \in 1 .. Len(made) |-> made[p[k]]]
          /\ Sorted(made')

\* Mutant: the Meseta is counted.
ArrangeCountsMeseta ==
    /\ pc = "arrange"
    /\ Sort
    /\ header' = Len(made)
    /\ pc' = "done"
    /\ UNCHANGED <<gameVars, ptr, addresses, historyVars>>

\* The header line counts all items but one, the Meseta.
Arrange ==
    /\ pc = "arrange"
    /\ Sort
    /\ header' = Len(made) - 1
    /\ pc' = "done"
    /\ UNCHANGED <<gameVars, ptr, addresses, historyVars>>

\* Any read may throw; the view keeps the items it had.
Fail ==
    /\ pc \notin {"idle", "done", "arrange"}
    /\ pc' = "idle"
    /\ UNCHANGED <<gameVars, readVars, historyVars>>

----------------------------------------------------------------------------
(* The game.                                                               *)

GameStep == quiet' = FALSE /\ UNCHANGED <<pc, readVars>>

\* Another bank is opened, or the bank is closed.
SwitchBank ==
    /\ bankPtr' \in Pointers \ {bankPtr}
    /\ switched' = TRUE
    /\ UNCHANGED bank
    /\ GameStep

\* An item is put in at the end.
Deposit(c) ==
    /\ bankPtr # NoBank /\ bank[bankPtr].count < MaxCount
    /\ LET m == bank[bankPtr].count + 1
       IN  bank' = [bank EXCEPT ![bankPtr].count = m, ![bankPtr].codes[m] = c]
    /\ UNCHANGED <<bankPtr, switched>>
    /\ GameStep

\* An item is taken out and the others move up.
Withdraw(k) ==
    /\ bankPtr # NoBank /\ k <= bank[bankPtr].count
    /\ LET m == bank[bankPtr]
       IN  bank' = [bank EXCEPT
             ![bankPtr].count = m.count - 1,
             ![bankPtr].codes = [j \in 1 .. MaxCount |->
                 IF k <= j /\ j < m.count THEN m.codes[j + 1] ELSE m.codes[j]]]
    /\ UNCHANGED <<bankPtr, switched>>
    /\ GameStep

\* Meseta are put in or taken out.
MoveMeseta(amount) ==
    /\ bankPtr # NoBank
    /\ bank' = [bank EXCEPT ![bankPtr].meseta = amount]
    /\ UNCHANGED <<bankPtr, switched>>
    /\ GameStep

Refresh == \/ Start
           \/ ReadPtr \/ ReadCount
           \/ ReadItem
           \/ ReadPtrAgain \/ ReadMeseta
           \/ Arrange
           \/ Fail

Game == \/ SwitchBank
        \/ \E c \in Codes : Deposit(c)
        \/ \E k \in 1 .. MaxCount : Withdraw(k)
        \/ \E amount \in Amounts : MoveMeseta(amount)

Next == Refresh \/ Game

Spec == Init /\ [][Next]_vars

----------------------------------------------------------------------------
(* Properties.                                                             *)

MadeItems == [kind : {"item"}, at : Places, code : Codes]
Mesetas   == [kind : {"meseta"}, at : Banks, code : {MesetaCode},
              amount : Amounts]

\* Every variable has a value of its type; the list is never longer than the
\* bank and its Meseta, and the header shows no more items than a bank may
\* have.
TypeOK ==
    /\ bankPtr \in Pointers
    /\ bank \in [Banks -> BankMemory]
    /\ pc \in {"idle", "ptr", "count", "items", "meseta", "arrange", "done"}
    /\ ptr \in Pointers /\ (pc \in {"count", "meseta"} => ptr \in Banks)
    /\ addresses \in Seq(Places) /\ Len(addresses) <= MaxCount
    /\ made \in Seq(MadeItems \cup Mesetas)
    /\ pc \in {"items", "meseta"} => Len(made) <= Len(addresses)
    /\ Len(made) <= MaxCount + 1
    /\ header \in -1 .. MaxCount
    /\ quiet \in BOOLEAN /\ switched \in BOOLEAN

IsMeseta(item) == item.kind = "meseta"

BankOf(item) == IF IsMeseta(item) THEN item.at ELSE item.at[1]

\* The items of one bank are never shown with the Meseta of another, nor
\* without it, unless the bank was changed in the course of the refresh: the
\* two readings of the pointer, and the early return that leaves the list
\* alone, hide nothing else.
OneBank ==
    pc = "done" /\ ~switched =>
        \A k \in DOMAIN made : /\ BankOf(made[k]) = bankPtr
                               /\ \E j \in DOMAIN made : IsMeseta(made[j])

\* What a bank has to show.
Contents(b) == {ItemAt(<<b, k>>, bank[b].codes[k]) : k \in 1 .. bank[b].count}
               \cup {MesetaOf(b, bank[b].meseta)}

\* While the bank stands still the refresh lists each of its places once by its
\* code, and its Meseta, and the header says how many items there are.
QuietBank ==
    pc = "done" /\ quiet /\ bankPtr # NoBank =>
        /\ Range(made) = Contents(bankPtr)
        /\ Len(made) = bank[bankPtr].count + 1
        /\ header = bank[bankPtr].count
        /\ Sorted(made)

\* The mapping to module Reading, which leaves the Meseta out: load_bank adds it
\* by an address that load_addresses did not gather.
Phase == CASE pc = "idle"                          -> "idle"
           [] pc \in {"ptr", "count"}              -> "gathering"
           [] pc \in {"items", "meseta", "arrange"} -> "loading"
           [] pc = "done"                          -> "done"

Due == IF bankPtr = NoBank THEN <<>>
       ELSE [k \in 1 .. bank[bankPtr].count |-> <<bankPtr, k>>]

CodeAt(place) == bank[place[1]].codes[place[2]]

\* The items that load_gen made.
Loaded(list) == {item \in Range(list) : ~IsMeseta(item)}

Rd == INSTANCE Reading WITH
    Addresses <- Places,
    phase     <- Phase,
    due       <- Due,
    content   <- [place \in Places |-> CodeAt(place)],
    pointers  <- IF Phase \in {"loading", "done"} THEN addresses ELSE <<>>,
    shown     <- IF Phase = "done"
                 THEN {[addr |-> item.at, content |-> item.code] :
                         item \in Loaded(made)}
                 ELSE {},
    torn      <- ~quiet

\* The reads of the bank implement the two calls the view makes: a bank that
\* stands still is listed place by place, a null pointer as an empty list though
\* update_bank_pointers then returns early; and whatever the game does, the
\* items made are those of the places counted, none left out and none added by
\* the second reading of the pointer.
ImplementsReading == Rd!Spec

\* "there is always one item for meseta" (ItemReaderStates.cpp:56), which is
\* why the header counts one item less than the list has.
AlwaysMeseta == pc = "done" => \E k \in DOMAIN made : IsMeseta(made[k])

============================================================================
