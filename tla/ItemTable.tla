----------------------------- MODULE ItemTable -----------------------------
(***************************************************************************)
(* One refresh of the inventory or floor view, read by read                *)
(* (update_item_list_for_owner, load_gen, make_item, Item::load_from),     *)
(* against a game that goes on changing its item table.                    *)
(*                                                                         *)
(* The table is an array of pointers to items, the first count of which    *)
(* are in use.  Taking an item out moves the later pointers up and leaves  *)
(* the last one behind, so a reader with an old count meets it again; and  *)
(* the memory of an item that is gone may become that of a new one.        *)
(***************************************************************************)
EXTENDS Integers, Sequences, SequencesExt

CONSTANTS
    Items,    \* addresses of items in the game's memory
    Players,  \* indices of players
    NoOwner,  \* k_no_owner, of an item on the floor
    Me,       \* what k_player_index holds
    Codes,    \* item codes, in the order of Item::operator <
    MaxCount  \* length of the game's array

ASSUME PlayersAssumption == Me \in Players /\ NoOwner \notin Players
ASSUME CodesAssumption == Codes \subseteq Nat /\ Codes # {}
ASSUME CountAssumption == MaxCount \in Nat

VARIABLES
    \* the game
    count,     \* k_item_array_size
    slots,     \* the array behind k_item_ptr_to_array
    owner,     \* the owner of each item, at k_item_owner_offset
    code,      \* the code of each item, at k_item_code_offset
    \* the refresh
    pc,        \* the next read
    wanted,    \* owner_id
    n,         \* item_count as it was read
    raw,       \* rawptrs, in the order they are pushed
    next,      \* the position that is read next
    addresses, \* the AddressList, m_pointers
    class,     \* the code make_item chose the present item's class by
    made,      \* the ItemList
    \* histories since the refresh began
    quiet,     \* the game has changed nothing
    held,      \* the items that were the wanted owner's at some time
    rewritten  \* the items that became others

gameVars == <<count, slots, owner, code>>
readVars == <<wanted, n, raw, next, addresses, class, made>>
historyVars == <<quiet, held, rewritten>>
vars == <<gameVars, pc, readVars, historyVars>>

----------------------------------------------------------------------------

Owners == Players \cup {NoOwner}

InTable(item) == \E k \in 1 .. count : slots[k] = item

HeldNow(who) == {item \in Items : owner[item] = who}

Init ==
    /\ count = 0
    /\ slots \in [1 .. MaxCount -> Items]
    /\ owner \in [Items -> Owners]
    /\ code \in [Items -> Codes]
    /\ pc = "idle"
    /\ wanted = NoOwner
    /\ n = 0 /\ raw = <<>> /\ next = 1
    /\ addresses = <<>> /\ made = <<>>
    /\ class = CHOOSE c \in Codes : TRUE
    /\ quiet = FALSE /\ held = {} /\ rewritten = {}

----------------------------------------------------------------------------
(* The refresh.                                                            *)

\* update_inventory_pointers reads the player index, update_floor_pointers
\* asks for k_no_owner.
Start(who) ==
    /\ pc \in {"idle", "done"}
    /\ wanted' = who
    /\ pc' = "count"
    /\ n' = 0 /\ raw' = <<>> /\ next' = 1 /\ addresses' = <<>> /\ made' = <<>>
    /\ quiet' = TRUE /\ held' = HeldNow(who) /\ rewritten' = {}
    /\ UNCHANGED <<gameVars, class>>

ReadCount ==
    /\ pc = "count"
    /\ n' = count
    /\ pc' = IF count = 0 THEN "class" ELSE "array"
    /\ UNCHANGED <<gameVars, wanted, raw, next, addresses, class, made>>
    /\ UNCHANGED historyVars

\* Mutant: one pointer too few is copied.
ReadArrayShort ==
    /\ pc = "array"
    /\ raw' = [k \in 1 .. n - 1 |-> slots[n + 1 - k]]
    /\ pc' = "owner"
    /\ UNCHANGED <<gameVars, wanted, n, next, addresses, class, made>>
    /\ UNCHANGED historyVars

\* The pointers are pushed from the last to the first.
ReadArray ==
    /\ pc = "array"
    /\ raw' = [k \in 1 .. n |-> slots[n + 1 - k]]
    /\ pc' = "owner"
    /\ UNCHANGED <<gameVars, wanted, n, next, addresses, class, made>>
    /\ UNCHANGED historyVars

\* Mutant: the owner is not compared.
ReadOwnerOfAll ==
    /\ pc = "owner" /\ next <= n
    /\ addresses' = Append(addresses, raw[next])
    /\ next' = next + 1
    /\ UNCHANGED <<gameVars, pc, wanted, n, raw, class, made, historyVars>>

\* An address of another owner is set to k_no_address, and clean() drops it.
ReadOwner ==
    /\ pc = "owner" /\ next <= n
    /\ addresses' = IF owner[raw[next]] = wanted
                    THEN Append(addresses, raw[next]) ELSE addresses
    /\ next' = next + 1
    /\ UNCHANGED <<gameVars, pc, wanted, n, raw, class, made, historyVars>>

\* Mutant: the floor is not turned round.
OwnersReadAsTheyAre ==
    /\ pc = "owner" /\ next > n
    /\ next' = 1
    /\ pc' = "class"
    /\ UNCHANGED <<gameVars, wanted, n, raw, addresses, class, made, historyVars>>

\* FloorViewState::load_addresses turns its list round.
OwnersRead ==
    /\ pc = "owner" /\ next > n
    /\ addresses' = IF wanted = NoOwner THEN Reverse(addresses) ELSE addresses
    /\ next' = 1
    /\ pc' = "class"
    /\ UNCHANGED <<gameVars, wanted, n, raw, class, made, historyVars>>

\* make_item
ReadClass ==
    /\ pc = "class" /\ next <= Len(addresses)
    /\ class' = code[addresses[next]]
    /\ pc' = "code"
    /\ UNCHANGED <<gameVars, wanted, n, raw, next, addresses, made, historyVars>>

\* Mutant: the code is read from the list before the filter.
ReadCodeUnfiltered ==
    /\ pc = "code"
    /\ made' = Append(made, [addr  |-> addresses[next], class |-> class,
                             code  |-> code[raw[next]]])
    /\ next' = next + 1
    /\ pc' = "class"
    /\ UNCHANGED <<gameVars, wanted, n, raw, addresses, class, historyVars>>

\* Item::load_from
ReadCode ==
    /\ pc = "code"
    /\ made' = Append(made, [addr  |-> addresses[next], class |-> class,
                             code  |-> code[addresses[next]]])
    /\ next' = next + 1
    /\ pc' = "class"
    /\ UNCHANGED <<gameVars, wanted, n, raw, addresses, class, historyVars>>

\* Orders std::sort may leave: any in which no later item is less.
Orders(m) ==
    {p \in [1 .. m -> 1 .. m] : \A j \in 1 .. m : \E i \in 1 .. m : p[i] = j}

Sorted(list) ==
    \A i, j \in 1 .. Len(list) : i < j => list[i].code <= list[j].code

\* FloorViewState::load_items turns the items round, InventoryViewState's
\* sorts them.
Arrange ==
    /\ pc = "class" /\ next > Len(addresses)
    /\ \E p \in Orders(Len(made)) :
         /\ made' = [k \in 1 .. Len(made) |-> made[p[k]]]
         /\ IF wanted = NoOwner
            THEN \A k \in 1 .. Len(made) : p[k] = Len(made) + 1 - k
            ELSE Sorted(made')
    /\ pc' = "done"
    /\ UNCHANGED <<gameVars, wanted, n, raw, next, addresses, class, historyVars>>

\* Any read may throw; the view keeps the items it had.
Fail ==
    /\ pc \notin {"idle", "done"}
    /\ pc' = "idle"
    /\ UNCHANGED <<gameVars, readVars, historyVars>>

----------------------------------------------------------------------------
(* The game.                                                               *)

GameStep == /\ quiet' = FALSE
            /\ held' = held \cup {item \in Items : owner'[item] = wanted}
            /\ UNCHANGED <<pc, readVars>>

\* An item appears in memory that was free.
Appear(item, who, what) ==
    /\ count < MaxCount /\ ~InTable(item)
    /\ count' = count + 1
    /\ slots' = [slots EXCEPT ![count + 1] = item]
    /\ owner' = [owner EXCEPT ![item] = who]
    /\ code' = [code EXCEPT ![item] = what]
    /\ rewritten' = rewritten \cup {item}
    /\ GameStep

\* An item is used up, sold or banked.
Disappear(k) ==
    /\ k <= count
    /\ count' = count - 1
    /\ slots' = [j \in 1 .. MaxCount |->
                   IF k <= j /\ j < count THEN slots[j + 1] ELSE slots[j]]
    /\ UNCHANGED <<owner, code, rewritten>>
    /\ GameStep

\* An item is picked up, dropped or traded.
Transfer(item, who) ==
    /\ InTable(item) /\ owner[item] # who
    /\ owner' = [owner EXCEPT ![item] = who]
    /\ UNCHANGED <<count, slots, code, rewritten>>
    /\ GameStep

Refresh == \/ \E who \in {Me, NoOwner} : Start(who)
           \/ ReadCount \/ ReadArray
           \/ ReadOwner \/ OwnersRead
           \/ ReadClass \/ ReadCode
           \/ Arrange
           \/ Fail

Game == \/ \E item \in Items, who \in Owners, what \in Codes :
             Appear(item, who, what)
        \/ \E k \in 1 .. MaxCount : Disappear(k)
        \/ \E item \in Items, who \in Owners : Transfer(item, who)

Next == Refresh \/ Game

Spec == Init /\ [][Next]_vars

----------------------------------------------------------------------------
(* Properties.                                                             *)

MadeItems == [addr : Items, class : Codes, code : Codes]

\* Every variable has a value of its type.
TypeOK ==
    /\ count \in 0 .. MaxCount
    /\ slots \in [1 .. MaxCount -> Items]
    /\ owner \in [Items -> Owners]
    /\ code \in [Items -> Codes]
    /\ pc \in {"idle", "count", "array", "owner", "class", "code", "done"}
    /\ wanted \in Owners
    /\ n \in 0 .. MaxCount
    /\ raw \in Seq(Items) /\ (pc = "owner" => Len(raw) = n)
    /\ next \in Nat \ {0}
    /\ addresses \in Seq(Items)
    /\ (pc = "code" => next <= Len(addresses))
    /\ class \in Codes
    /\ made \in Seq(MadeItems)
    /\ quiet \in BOOLEAN
    /\ held \subseteq Items /\ rewritten \subseteq Items

\* "thou shall not read other player's inventories" (ItemReader.cpp:224): an
\* item is read only if it was the wanted owner's at some time during the
\* refresh, however the table changed between its reads.  (It may be another's
\* by the time it is shown.)
OnlyHeld == \A k \in DOMAIN made : made[k].addr \in held

\* make_item and load_from each read the code.  They disagree only about an
\* item that became another one during the refresh.
TornOnlyIfRewritten ==
    \A k \in DOMAIN made :
        made[k].class # made[k].code => made[k].addr \in rewritten

\* The positions of the table the view is to list.
OwnedAt == {k \in 1 .. count : owner[slots[k]] = wanted}

\* While the table stands still the refresh shows each of these positions once,
\* the floor from the last to the first and the inventory by code, although the
\* lists are turned round three times on the way.
QuietOrder ==
    pc = "done" /\ quiet =>
        \E place \in [1 .. Len(made) -> OwnedAt] :
            /\ \A k \in OwnedAt : \E i \in 1 .. Len(made) : place[i] = k
            /\ \A i \in 1 .. Len(made) : made[i].addr = slots[place[i]]
            /\ \A i, j \in 1 .. Len(made) :
                 i < j => IF wanted = NoOwner
                          THEN place[i] > place[j]
                          ELSE /\ place[i] # place[j]
                               /\ made[i].code <= made[j].code

\* The same positions in the order load_addresses is to gather them: the
\* floor's from the first to the last, the inventory's from the last.
Listing ==
    CHOOSE place \in [1 .. Cardinality(OwnedAt) -> OwnedAt] :
        \A i, j \in 1 .. Cardinality(OwnedAt) :
            i < j => IF wanted = NoOwner THEN place[i] < place[j]
                                         ELSE place[i] > place[j]

\* The mapping to module Reading.
Phase == CASE pc = "idle"                       -> "idle"
           [] pc \in {"count", "array", "owner"} -> "gathering"
           [] pc \in {"class", "code"}           -> "loading"
           [] pc = "done"                        -> "done"

Due == [i \in 1 .. Cardinality(OwnedAt) |-> slots[Listing[i]]]

Rd == INSTANCE Reading WITH
    Addresses <- Items,
    phase     <- Phase,
    due       <- Due,
    content   <- code,
    pointers  <- IF Phase \in {"loading", "done"} THEN addresses ELSE <<>>,
    shown     <- IF Phase = "done"
                 THEN {[addr |-> item.addr, content |-> item.code] :
                         item \in Range(made)}
                 ELSE {},
    torn      <- ~quiet

\* The reads implement the two calls the view makes: of a table that stands
\* still it gathers exactly what is due, in its order, and makes of it items of
\* their own codes; of one that changes, still one item of each address
\* gathered and of no other.
ImplementsReading == Rd!Spec

============================================================================
