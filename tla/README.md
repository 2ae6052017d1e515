# Verification of the PSOBB item reader

The program (`src/`) is a terminal application that finds a running PSOBB
client, reads its memory with `process_vm_readv`, and lists the items in the
player's inventory, in the bank and on the floor. It has one thread, and a second
that only builds a table; what makes it hard is everything around: the game writes the memory while it is
read, processes come and go, the terminal changes size, and keys arrive in any
order in the middle of a state change.

Its modules, from the outside in: `AppLoop` (with the abstract
`Connection`) models the main loop and the states it switches between, `ViewList` the list one
view keeps, `Reading` what the list asks of a reader, `ItemTable` and `BankTable` the reads that do it, `ItemView` one
item of it from its bytes to a line of the screen, `ItemDb` (with the tables in
`ItemCodes`) the database that names it, `TextWrap` the message broken into rows, and
`FrameGrid` the frames drawn of all this. All but `Connection`, `Reading` and `ItemCodes` have a
module of proofs, `...Proofs`. The
rest of this file is the inventory of the code, the correspondence of the models
to it, what is checked and proved, and the plan.

## Inventory

| part | state it keeps | operations | what is hard |
|---|---|---|---|
| Main loop (`main.cpp`) | the current state, the grid, the last time | tick, events, resize, switch, render | the order of the phases; two input modes; exceptions that leave it |
| Application states (`AppStateDefs`) | `m_new_state` of each state, the map of singletons | `switch_state`, `get_new_state`, centred and wrapped text | a switch asked for in one phase takes effect in a later one, and may be overwritten between |
| Process watcher (`ProcessWatcher`) | permission, error lines, last size | search with pgrep, attach, message | half-done attach, refusal, pid reuse, several matches |
| Item views (`ItemReaderBaseState`, `ItemReaderStates`) | reader, pointers, old pointers, items, lines, place in the list, page | setup, tick, once-a-second update, keys, render | stale lists, stale readers in parked views, bounds of the place |
| Item table reader (`ItemReader`) | none | load addresses and items of one owner or of the bank | a dozen reads of memory that changes between them |
| Item decoding (`Item`) | fields of an item | decode each class, print with colour markup | boundaries of codes, attributes, specials, names |
| Item database (`ItemDb`) | tables by item code, a once flag | look up names, rarities, defence ranges | built once, by a thread of its own or on first use; codes added only once; the byte order of codes |
| Process memory (`Defs`, `MemoryReader`) | pid of a reader | typed reads, endianness | short reads, errno, permission |
| Terminal grid (`NCursesGrid`) | characters, colours, changed and pressed flags | set cell, begin and fill a frame, resize | flags and sizes of four grids in step |

The parts interact by calls only. `main()` calls the current state; a state
calls `switch_state` and `setup` on another; a view calls the table reader,
which calls the memory reader and the item classes, which look up the database;
rendering calls the grid. Shared state is the map of singletons (a state keeps
everything while it is parked) and, outside the program, the game's memory and
the process table.

What makes each part correct: the loop never blocks while it should run, never
polls while it should wait, and is left only on purpose; a view on the screen
reads the process found last; a parked state asks for nothing but the watcher; a list shows
what is there, or the reason it does not is known; a place in a list is in the
list; the reader lists exactly the owner's items if the table stands still and
says nothing of other players' items; an item's line can be drawn whatever bytes it was read
from, and shows what they say if they are one item's; the database is handed out whole, and knows an
item by its kind; a message is shown in order and whole where there is room; a frame contains what was drawn in it and nothing else.

## Modules

### AppLoop

One action per handler of the loop, one value of `phase` per place where
`main()` may be:

    tick -> [attach | update] -> events -> resize -> switch -> render -> tick

| code | model |
|---|---|
| `state_ptr`, `m_new_state`, `m_reader` | `current`, `newState` (of every state), `reader` (of every view) |
| `m_has_permission`, `nodelay(stdscr, .)` | `hasPermission`, `nodelay` |
| `getmaxx(stdscr)`, the grid's size, the size last passed to `handle_resize`, the width the error was wrapped to | `stdscr`, `grid`, `layout`, `errorWidth` |
| `PsobbProcessWatcher::handle_tick` | `SearchFinds`, `SearchFails`, then `WatcherAttach`: the processes may change between pgrep and the first read |
| `ItemReaderBaseState::handle_tick` and the derived one | `ViewTick`, `SecondUpdate` |
| the draining `for` and the single `getch()` | `DrainEnd`, and the key actions with `AfterEvent` |
| `change_state_to_id(...).setup(m_reader)` | `HandleArrow` |
| `update_size`/`handle_resize`; `get_new_state`/`on_new_state`; `do_render` | `UpdateSize`; `EnterNewState`, `KeepState`; `Render` |

All the reads of one refresh are one step with an outcome: ok, error, or denied
(`PermissionError`). `attached` records the pid of the last reader the watcher
made; the code has it only inside that reader. The ids of the views come from
`TypeList::GetTypeId` of the `common` library, which is not in the repository:
they are taken to be the ids `change_state_to_id` expects. Each terminal size is
known by its width, the only dimension in which the program can fail here.

The environment may change any process at any time (start, end, refuse reads,
have its pid taken over), until it may `Settle`.

### Connection

The abstract specification: searching, attached to the process found last, or
closed. `AppLoop` implements it with
`mode` from the current state and `pid` from the reader of the view on the
screen (`ImplementsConnection`).

### ViewList

One view's `m_pointers`, `m_old_pointers`, `m_items` and `m_line_offset` against
a game list that moves. `load_addresses` and `load_items` are two steps, in
`setup()` (`Setup`, `SetupLoad`), in the tick (`Tick`, `TickLoad`) and in the
once-a-second update (`Update`, `UpdateLoad`); any read may fail until the game
settles. `m_items` is the record `shown`: the addresses it was loaded from and
the content found there; the printed lines are as many as the items. `moved` is a history
variable: the game's list has changed since the last reload began to read it, or
a read was torn. The variable `secondly` chooses once between the bank or inventory view and the
floor view. That `load_addresses` may return a list the game never had
(`ReadAddresses(TRUE)`) is what `ItemTable` shows; that it returns the game's list if nothing
changes under it (`ReadAddresses(FALSE)`) is what `Reading` promises and the tables implement.

### Reading

The abstract specification of `load_addresses` and `load_items`, the two virtual functions through which
`ItemReaderBaseState` knows its readers: a refresh begins, gathers the addresses that are due, loads one item
from each, or gives up. `due` and `content` belong to the game, which changes them in whatever way (`Change`); `torn`
says that it has done so since the refresh began. Then the addresses may be any, and what an item was read as is open,
but the items are still those of the addresses gathered. `shown` is a set: how often and in what order an
item is listed is `QuietOrder` and `QuietBank`.

Both `ItemTable` and `BankTable` implement it (`ImplementsReading` in each):

| Reading | ItemTable | BankTable |
|---|---|---|
| `phase` | gathering while it reads the count, the array and the owners; loading while it reads classes and codes | gathering while it reads the pointer and the count; loading until the list is arranged |
| `due` | the owner's pointers, on the floor from the first to the last, of the inventory from the last | the places of the bank pointed at, up to its count |
| `pointers`, `shown` | `addresses` once all are gathered; address and code of each item made, once all are | the same; the Meseta is no item of an address and is left out |
| `Gather` | `OwnersRead`; `ReadCount` of an empty table | `ReadPtr` without a bank, `ReadCount` |
| `Load` | `Arrange` | `Arrange` |
| `GiveUp`, `Change` | `Fail`, the game | `Fail`, the game |

### ItemTable

The inside of `load_addresses` and `load_items` for the inventory and the floor:
one action per read of memory.

| code | model |
|---|---|
| `update_inventory_pointers`, `update_floor_pointers` | `Start(who)` |
| reading `item_count`; `item_array` and `rawptrs` | `ReadCount`; `ReadArray` |
| each `item_owner_id`, with what `clean` will drop | `ReadOwner` |
| `std::reverse` of the floor's addresses | `OwnersRead` |
| `make_item`; `Item::load_from` | `ReadClass`; `ReadCode` |
| `std::sort`, `std::reverse` of the items | `Arrange` |
| an exception in any read | `Fail` |

The game (`Appear`, `Disappear`, `Transfer`) is external: the table is an array
whose later pointers move up when an item goes, the last one staying behind. An
item is known by its code; what else `load_from` reads has the same interleavings
as the code. `held`, `rewritten` and `quiet` are histories: the items the wanted owner
had at some time during the refresh, those that became other items, and whether
the game has changed nothing.

### BankTable

The same for the bank, whose items are at computed places behind one pointer, which
is read a second time for the Meseta: `ReadPtr`, `ReadCount`, `ReadItem`, `ReadPtrAgain`,
`ReadMeseta`, `Arrange`. `header` is the number in the header line. Class and code of
an item are read in one step here, for `ItemTable` has them apart. The game
moves items and Meseta in the bank pointed at, and switches or closes banks; a bank
that is closed keeps its memory.

### FrameGrid

The grids of `CachedChangeGrid`, with character and colour one value: `update_size`,
`do_prerender`, `set_cell`, `fill_unpressed_space` and `render` are an action each, in the
order of the loop, and the window may be resized between frames. `Grid::set_size` of the
library may keep or blank a cell that stays. `terminal` is what the terminal shows;
`drawn`, `before` and `kept` are histories. That no frame draws outside the grid, but for one
header, is `CrashCause` of `AppLoop`.

### ItemView

One item: `make_item` chooses a class by one read of the code (`MakeItem`), `load_from` or
`load_from_bank` reads the code again (`ReadCode`) and then the fields of that class one by one
(`ReadField`), `print_to` writes a line (`UpdateItemString`), and the operator `render_line` parses it as a
frame is drawn. What a read gives is any value the field has: of this item, of the
item it was before, or, as `process_vm_readv` may copy less than asked for without
setting `errno`, of none. A field is read once, so that three causes are one choice.

| code | model |
|---|---|
| `Item` and its classes | `class`, and the record `item` with the members of all of them |
| `m_attr_count`, with the byte in front of `m_attributes` | `item.count`, `item.top`, `AttrCount` |
| conversions that throw | `to_weapon_special`, `get_tech_type` give nothing; `pc` becomes "failed" |
| the text of a line | a sequence of pieces: markup characters, colour letters, words with their numbers |
| `render_line`'s recursion | the stack `calls` of the colours it was called with |
| `k_untekked` and the like | the same names; `Palette` is what `to_grid_color` accepts |

Wording and column widths are left out; `Widths` says what a field can hold by the type the code
reads it with. `raw` and `seen` are histories: the bytes and the codes read.

### ItemDb, ItemCodes

`ItemCodes` has the tables of `ItemDb.cpp` as sets of entries: key, rarity, kill counter and which of the
two defences vary, for every code of the source, written as families of types and
numbers. The families of one `add_` function are named after it (`RareTools` for `add_rare_tool`); a code it adds twice with the same
entry would be one entry here, which the source has nowhere. `ItemDb` builds them, one step per call of the constructor (`AddTable`), in whichever
thread is first in `std::call_once` (`CallOnce`, `Finish`): the one that is started for it
before `main()` or a reader (`Ask`, `Find`, `Return`). Without `MACRO_USE_MT_INITIALIZATION` there is no such
thread; both builds are initial states. A code is the four bytes
of memory; `prepare_code` reverses them as `revt` does and compares the result with the tables' keys.
`Clash` says that an assertion of `add_item_only_once` fails.

### TextWrap

`render_wrapped_lines_to`, one step per round of its loops: `NextLine` (the `for`, from the last line to the first),
`BreakRow` and `LastRow` (the `while (true)` and what follows it), `Cut` (the end). `line`, `last`, `jtr` are the iterators,
`rows` is `display_lines`, a row known by the part of the line it was cut from. A failed assertion of
`insert_trimmed` ends in "aborted". The vector's lines are not empty, as those of its one caller.

## Runs

| run | instance | question |
|---|---|---|
| `loop` | 2 processes, 1 size | types, readers, pending switches, input mode, refinement of Connection; a game that stays is found, a game that has gone is given up |
| `display` | 1 process, widths 27, 50, 51 | copies of the size agree in each frame; the header and a refused permission are the only causes of a crash |
| `narrow_header` | as `display` | violated: the header chosen does not fit although another does |
| `view_list` | 2 items, lists of up to 2, 2 contents, heights 2 and 6, both kinds of view | bounds of the place, stale items, place kept over reloads; when the game settles the list is right |
| `empty_scroll` | as `view_list` | violated: an empty list is scrolled to -1 |
| `item_table` | 2 items in a table of 2, 2 players, 2 codes | whose items are read, what may be torn, in order when quiet; refinement of Reading |
| `bank_table` | 2 banks of up to 2 items, 2 codes, 2 amounts | one bank at a time, exact when quiet; refinement of Reading |
| `no_bank` | as `bank_table` | violated: there is not always a Meseta |
| `frame_grid` | windows 1x1, 2x1, 1x2, 2x2, 3 values | frames hold what was drawn, the terminal shows it |
| `item_db` | the shipped tables; every code in them, those at the bounds of `is_esrank`, unknown ones; one reader and the thread that builds | one whole table, no code twice, the entry of the kind that was read; the reader is let go |
| `text_wrap` | one line of up to 7, two of up to 4, three of up to 2 characters; widths and heights 0 to 4 | rows fit, follow each other, are cut only for want of room; every round advances |
| `item_view` | 15 codes of every class and kind of entry, in any mixture; values on both sides of each comparison | the line can be drawn; it shows what a weapon's bytes say |

The bounds. Two processes are enough for one to be stale while the other is
found, for two matches of pgrep, and for a pid to be in each status; a third
adds no relation the properties mention. The widths are one shorter than both
headers, one between them, and one equal to the longer: both sides of each
comparison. Lists of up to two items of two addresses contain every case of
empty, shorter, longer, same length but different, and a list that goes and
comes back; height 2 makes a page of no lines and height 6 one of two. A table of
two items lets a pointer move up behind a reader and be met twice, and an item's
memory become another's; of two players one is not the wanted one. Two banks can be
switched between the two readings of the pointer. The windows grow and shrink in one
direction and in both, and one value besides the blank differs from what was
there before. The codes looked up are all there are entries for, and each first and last type of the
S-rank intervals with its neighbour. Lines of seven characters on four columns have every
place for a blank in two rows and a third begun, and heights below and above the rows of
each message. The values of a field in `item_view` are chosen by the comparisons it meets: specials at each mark and one past the last,
attributes with id 0, known ids with percentage 0, negative and high, an id past the last, two slots of one id; each technique and one
past the last; the sample entries are asserted to be those of `ItemCodes`. No counter is cut off: all state spaces are finite.
`ItemDb`, `TextWrap` and `ItemView` come to an end, so their runs do not check deadlock; that `ItemDb` does
not stop too early is `InstanceReturns`.

Mutants of the code stand next to the definitions they replace, marked as such;
each property is violated by one of them.

### Fairness

`AppLoop!FairSpec` has weak fairness of the loop's own steps: the program runs.
`DrainEnd` is one of them: an input queue empties at some time, since a loop
iteration takes at most a fraction of the time between two keys. The user's
actions and the environment have no fairness; a loop that waits in `getch()`
may wait for ever. Strong fairness of `LoseView` says that a user does not press
an arrow in every iteration after a failed read. It is needed: without it TLC
shows a run in which a held-down arrow key replaces every fall-back to the watcher and
passes the dead reader on from view to view. `ViewList!FairSpec` has weak
fairness of the loop's steps and strong fairness of `Update`: seconds pass. `ItemDb!FairSpec` has weak
fairness of each thread's steps inside `instance()`: the operating system runs a thread that can
run. What a reader asks for, and when, has none.

`FindsLiveProcess` excepts a program that was once refused permission: that
flag is never set back, and from then on the search waits for keys.

## What was found

- `PsobbProcessWatcher::render_to` chooses its header by an inverted test: on a
  terminal narrower than 51 columns `render_string_centered` throws, out of
  `main()` (`narrow_header`). `CrashCause` shows that no other display state does.
- A key on an empty list sets `m_line_offset` to -1, it stays -1 when items
  arrive, and rendering starts one before the first line (`empty_scroll`).
- Without a bank the list has no Meseta, although the comment that justifies
  `rv.size() - 1` says it always has, and the header shows -1 (`no_bank`).
- `add_uber_barrier` is bound to `add_item_only_once`, so the ranges of S-PARTS ver2.01 and FROM THE DEPTHS
  are given in the source and dropped: `RangesKnown` holds for all frames and barriers but these. (Nothing
  in the repository says otherwise than the arguments themselves.)
- `load_def_stats` reads each defence at the other's address, `print_def_stats` never prints the
  label `EVP` (its condition is that evp does not vary, inside the branch where it does), and an attribute
  id of 0 is written in front of `m_attributes`. The model has all three as the code has them. The third
  is harmless for what the game writes (0 over 0), and `LineRenders` holds
  for what it does not; a torn read can hide a weapon's percentages in that way.
- `render_wrapped_lines_to` is meant to fill from the last line up, and its loop stops once it has more rows than fit; the cut is then made at the bottom.
  On a low terminal neither the end of the message, which has the way out, nor always its
  beginning is shown: what `MessageShown` (`InOrder` and `WholeIfRoom`) promises is one part in order, and all if there is
  room. A line that ends in blanks may give a blank row.
- Properties that hold, but are weaker than one would like, say where the limits
  are: `CrashCause` (a refused permission under a view ends the program),
  `ParkedSwitches` (a parked view may hold a fall-back, which sends it to the
  watcher when next shown), `GhostNeedsFlip` (a list that flips back is not
  noticed; the floor view then shows it until the list changes again), `OnlyHeld` (an
  item shown may have gone to another player since its owner was read),
  `TornOnlyIfRewritten` and `OneBank` (what a refresh may mix up), `WeaponShown` (only for bytes of one item, as the game
  writes them), and `ChangedSound`, which is proved only (after a
  resize `has_changed` would not do; `render` does not use it, and `FrameShown` holds).

## Proofs

For any set of processes and sizes, and from the assumptions that `NoPid` is no
process, sizes are natural numbers and the short header is not longer than the
long one (`AppLoopProofs`):

- `TypeCorrect`: types are inductive by themselves.
- `Inductive`: `IInv`, the conjunction of five parts and the types. `SwitchInv` adds to
  `ParkedSwitches` that a tick begins with no pending switch but a fall-back:
  without it the watcher could find a new process while a switch to a view of the old one is pending.
  `ReaderInv` adds to `ReaderIsLatest` the view about to be shown. `ModeInv`
  says in which phases style and `nodelay` may disagree. `DisplayInv` says in which
  phases the grid may lag behind the window. `CrashCause` is inductive given these.
- `ReaderCorrect`, `ParkedCorrect`, `InputModeCorrect`, `LayoutCorrect`,
  `CrashCorrect`: each follows from `IInv`.
- `ConnectionImplemented`: initial states map to initial states, and under
  `IInv` every step maps to a step of Connection or to a stutter. The steps that
  matter are `EnterNewState` and `HandleArrow`.

For any lists of addresses, contents and heights (`ViewListProofs`):

- `TypeCorrect`, which includes the bounds of the place: each of the clamps of the code
  returns to -1 .. length, whatever was scrolled.
- `GhostCorrect`: `GhostInv` says that before a tick, unless the game's list has
  moved, what is shown (or about to be loaded) is that list; so a tick that sees
  no change and still shows something else needs a move.
- `PlaceCorrect`: the action property, from the types.

For any items, players, codes and table length, given that the wanted player is
one and `NoOwner` is none (`ItemTableProofs`):

- `OwnersCorrect`: `HeldInv` says that the wanted owner's items of the moment, and all that was
  gathered, are in `held`; each later read only follows gathered addresses.
- `ClassCorrect`: between the two readings of a code either it has not changed
  or the item is in `rewritten`.
- `QuietCorrect`: `QuietInv` says what has been gathered after each read of a table that stands
  still: after the owners of k pointers exactly those that pass, after all of them
  (`PassedAll`) what is owned, then the items made so far. Reversing and sorting are
  shown to keep elements (`ReverseProperties`, `ArrangeElements`).
- `OrderCorrect`: `PlaceInv` says that there is a place in the table for each address gathered, one
  for each position that is the owner's, and in which direction the places run after each read. One lemma for each
  thing done to a list says what it does to the places: `PlaceAdded` (an owner read), `PlaceInTable` (the pointers
  were read from the end), `PlaceReversed`. That a sort shows no position twice needs that a
  mapping of 1 .. m onto itself is one to one (`OrdersInjective`).
- `ReadingImplemented`: every step of a refresh maps to a step of `Reading` or to a stutter. Two steps matter.
  `GatherStep`: what has been gathered in the view's order is `Due`, which is chosen; so there must be only
  one such list. `DueGathered` rests on `RisingUnique` and `FallingUnique`: two listings of the same positions in one
  order are the same, as at the first place they differ, which the well-foundedness of the natural numbers gives, the smaller one would be missing from
  the other. `LoadStep`: the items made are those of the addresses
  gathered even while the game moves them about, for which `MadeInv` says that the k-th item was made of the k-th address;
  by their codes, if nothing changed, by `QuietInv`.

For any banks, codes and amounts (`BankTableProofs`):

- `OneBankCorrect`: while the pointer stays, all that is gathered is of the bank pointed
  at, and after the second reading a Meseta is among it; without a bank nothing is,
  for which the list must have been empty at the start (`FreshInv`).
- `QuietBankCorrect`: the items made so far are those of the first places.
- `ReadingImplemented`: `ReadInv` says, whatever the game does, that the items made are those of the places counted, in
  their order until they are sorted, and that the second reading of the pointer adds none; if nothing changed, that the
  places are due and the codes the bank's. The early return of a null pointer gathers what is due only because the list was
  cleared (`FreshInv`).

For any windows and values (`FrameGridProofs`):

- `FrameCorrect`, `AssertionCorrect`, `ChangedCorrect`, `ShownCorrect`, from `FrameInv`: while a frame is
  drawn the pressed positions are the drawn ones and hold what was drawn there, and
  what differs from the frame before is marked.

For any tables, codes and readers (`ItemDbProofs`):

- `ReverseTwice`, `PreparedIsKind`, `OrderIsCodeOrder`: what the byte arithmetic of codes makes of
  every word. The last says that codes whose class is below 0x80 (the game's are 0 to 4) compare by class, type
  and number without overflow; so `std::sort` has a strict order.
- `BuiltOnceHolds`: `BuildInv` ties each thread's place to the flag, above all that the table is
  complete when the flag says so.
- `LookupWholeHolds`: `AnswerInv` adds the readers' own variables; the rest is `PreparedIsKind`.
- `AddedOnceHolds`, `RangesKnownHolds`, of the shipped tables (the assumption is `Tables = ItemDbTables`), with any readers and codes, and
  with or without `add_ephinea`, for `k_is_ephinea` is never expanded. A table is put together of parts, one for each of its `add_` functions:
  `Part(T, class, F)` says that all types and numbers of the families F are bytes and that T has items of them only, each with a code of its own. Then two parts
  have a code in common only if they are of one class and their families share a type and a number (`SameCode`, `PartsApart`); that they do not (`~Share`) is
  shown for the families of each table one after the other (`PartsJoined`), and for the tables of one class (`FamiliesApart`).
  `ShippedDisjoint` follows, and with it no step fails an assertion (`AddedStep`, which holds of any disjoint tables). For the ranges, weapons, mags and
  tools are of another class and units of another type (`KindOfPart`), frames and barriers are added with ranges (`DefendedItem`), and the two
  of `UberBarriers` are the exceptions (`TablesKnown`).

For any message of lines that are not empty, any width and height (`TextWrapProofs`):

- `NoEmptyRowHolds`, `FitsWidthHolds`, `AdvancesHolds`, from `WrapInv`: a row begins before its line
  ends and `jtr` is where its columns end. That the last blank exists if there is any (`FoundSpace`) rests on
  the well-foundedness of the natural numbers, and a break is then past the beginning (`BreakRange`).
- `MessageShownHolds`, from `OrderInv` beside it, which has to describe three orders at once: rows of
  finished lines stand from the last line to the first, each line turned round (`Turned`); those of the line being
  cut stand as they are cut (`Begun`); after `Cut` they are in the order of the text. `TurnedTurns` shows that a
  finished line makes the first from the second, `TurnedCut` that what `Cut` leaves is the beginning of the
  whole, and the whole unless there are more rows than room.

For any codes, entries and bytes of the types the code reads (`ItemViewProofs`):

- `ItemInvariant`: `ItemInv` is types, where each step stands (`Place`), that every field of the class is read once and
  which are still to come (`Pending`), what the bytes read so far make of the object (`Agreeing`),
  and the two causes of a failure (`Failing`). `Pending` is needed because `load_attributes` counts on
  from what the object has: read twice, it would count the attributes twice. `load_attributes` is shown round by round (`AttributeWritten`, `AttributesLoaded`).
- `TypeCorrect`: the types, which are a part of it.
- `LineRendersHolds`: a property of pieces that survives being put together. `WellFormed(p)` says that
  `render_line`, in whatever call it meets p, reads to its end, is back in that call and has drawn
  all the words of p; `WellFormedConcat`, `WellFormedColored` and `WellFormedEscaped` follow the shape of
  the `print_` functions, and `LineDrawn` those of every class. `render_line` is a recursive function of the
  line: that it has the states its definition asks for (`TurnsExist`) is shown by the least number of turns for which it
  had none.
- `WeaponShownHolds`: `Says(p, S)` adds to `WellFormed` which facts are among the words of p, and is put
  together in the same way up to `WeaponSays`; `Agreeing` and `Pending` then make of the members the bytes (`WeaponRead`).

Model-checked only: liveness (`FindsLiveProcess`, `LosesDeadProcess`, `CatchesUp`, `InstanceReturns`), which rests on
fairness and ENABLED. All other properties of the passing runs are theorems.

## Not modelled

`AppStateChanger`, `MemoryRecorder`, `SimpleBlockReader` and the built-in test
reader are not used by the application. Of the database, the names and the numbers of the
defences are data no decision depends on; of a line, wording and widths of numbers. `setup_header_line`
pads a number and throws if it has more digits than the padding, which 30, 200 and the
255 of the item table do not reach unless more than 99 of the table's items are the player's. The arithmetic of the key codes (`to_event`)
is the choice of the key in `AppLoop`.
ncurses, the `common` library (not in the repository), pgrep, the kernel and the game are
environment.

## Plan

In this order; each module with its runs, then its proofs in a module of its own.

1. Composition: `ViewList` over an instance of `Reading` instead of its own `ReadAddresses` and `LoadItems`, so that
   what the tables are proved to promise is assumed by name; and `ViewList` on the screen of `AppLoop`.
2. The bounds of the drawing operations against `FrameGrid`, with the header line.
