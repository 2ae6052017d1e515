----------------------------- MODULE ItemView -----------------------------
(***************************************************************************)
(* One item from the game's memory to the screen: make_item chooses its    *)
(* class, load_from or load_from_bank reads its fields one by one, print_to *)
(* writes a line with colour markup, render_line parses that line.         *)
(*                                                                         *)
(* A field is read once.  What a read gives may be what the item held      *)
(* before the game rewrote it, a part of another item, or, if the kernel   *)
(* copied less than asked for and left errno alone, whatever was in the    *)
(* buffer: any value the field has.  A line is a sequence of pieces: the   *)
(* characters of the markup, the colour letters, and words, tuples of what *)
(* is written and the numbers in it.                                       *)
(***************************************************************************)
EXTENDS Integers, Sequences

CONSTANTS
    Codes,   \* item codes: class, type, number
    Entries, \* what the database has of each
    Values   \* what a read of each field may give

Fields == {"kills", "special", "grind", "attributes", "name", "slots", "evp",
           "dfp", "stats", "timer", "quantity", "level", "tech"}

\* What a field can hold: bytes, words, pairs of an id and a signed byte, groups
\* of five bits, and ints.
Byte == 0 .. 255
Word == 0 .. 65535
Widths ==
    [kills |-> Word, special |-> Byte, grind |-> Byte,
     attributes |-> [1 .. 3 -> Byte \X (-128 .. 127)],
     name |-> [1 .. 8 -> 0 .. 31], slots |-> Byte, evp |-> Byte, dfp |-> Byte,
     stats |-> [1 .. 4 -> Word], timer |-> Int, quantity |-> Int,
     level |-> Byte, tech |-> Byte]

ASSUME CodesAssumption == Codes \subseteq (0 .. 255) \X (0 .. 255) \X (0 .. 255)
ASSUME EntriesAssumption ==
    Entries \in [Codes -> [name : {"unknown", "plain", "escaped"},
                           rarity : {"uber", "rare", "interest", "common", "esrank"},
                           counter : BOOLEAN,
                           ranges : {"none", "fixed", "dfp", "evp", "both"}]]
ASSUME ValuesAssumption ==
    DOMAIN Values = Fields /\ \A f \in Fields : Values[f] \subseteq Widths[f]

VARIABLES
    pc,     \* the next step, or how it ended
    inBank, \* read by load_from_bank
    class,  \* of the object make_item made
    seen,   \* the code make_item read, and then the one load_from read
    todo,   \* the fields still to be read, in order
    item,   \* the object's members
    raw,    \* the bytes read, by field
    line    \* m_item_strings' line

vars == <<pc, inBank, class, seen, todo, item, raw, line>>

----------------------------------------------------------------------------
(* Loading.                                                                *)

is_esrank(code) == code[2] \in (\h70 .. \h88) \cup (\hA5 .. \hA9)

make_item(code) ==
    CASE code[1] = 0 -> IF is_esrank(code) THEN "EsWeapon" ELSE "Weapon"
      [] code[1] = 1 -> IF code[2] \in 1 .. 3
                        THEN <<"Frame", "Barrier", "Unit">>[code[2]]
                        ELSE "TotallyUnknownItem"
      [] code[1] = 2 -> "Mag"
      [] code[1] = 3 -> IF code[2] = 2 THEN "Tech" ELSE "Tool"
      [] code[1] = 4 -> "Meseta"
      [] OTHER       -> "TotallyUnknownItem"

\* The reads of each class's load_from_, in order.
FieldsOf(c) ==
    CASE c = "Weapon"   -> <<"special", "grind", "attributes">>
      [] c = "EsWeapon" -> <<"special", "grind", "name">>
      [] c = "Frame"    -> <<"slots", "evp", "dfp">>
      [] c = "Barrier"  -> <<"evp", "dfp">>
      [] c = "Mag"      -> IF inBank THEN <<"stats">> ELSE <<"stats", "timer">>
      [] c = "Tech"     -> <<"level", "tech">>
      [] c \in {"Tool", "Meseta"} -> <<"quantity">>
      [] OTHER          -> <<>>

NoValue == <<>>
k_has_no_kill_counter == -1
Attributes == 1 .. 5
k_hit == 5
k_demons == 40

\* The members as the constructors leave them.
NewItem ==
    [code |-> NoValue, kills |-> k_has_no_kill_counter, special |-> 0,
     tekked |-> TRUE, wrapped |-> FALSE, grind |-> 0,
     attributes |-> [a \in Attributes |-> 0], count |-> 0, top |-> 0,
     letters |-> NoValue, slots |-> 0, dfp |-> 0, evp |-> 0,
     levels |-> <<0, 0, 0, 0>>, percentages |-> <<0, 0, 0, 0>>,
     feeding |-> 0, quantity |-> 0, level |-> 0, tech |-> 0]

\* m_attr_count as an int, of its highest byte and the rest.
AttrCount(i) == i.top * \h1000000 + i.count

\* One round of load_attributes' loop: an id and a percentage.  m_attributes
\* begins at the id 1.  An id of 0 writes in front of it, where the compiler
\* puts the highest byte of m_attr_count; or the write is not seen.
WriteAttribute(i, id, percent) ==
    IF id >= 6 THEN {i}
    ELSE LET n == IF percent # 0 THEN 1 ELSE 0
             counted == [i EXCEPT !.count = @ + n]
         IN  IF id = 0 THEN {counted, [counted EXCEPT !.top = percent]}
             ELSE {[counted EXCEPT !.attributes[id] = percent]}

load_attributes(i, slots) ==
    UNION { UNION { WriteAttribute(k, slots[3][1], slots[3][2]) :
                    k \in WriteAttribute(j, slots[2][1], slots[2][2]) } :
            j \in WriteAttribute(i, slots[1][1], slots[1][2]) }

\* parse_esrank_name: of eight groups of five bits, those that are letters.
IsLetter(group) == group \in 1 .. 26

\* Mutant: the first code there is no special of is taken for one.
to_weapon_special_next(code) == IF code > k_demons + 1 THEN {} ELSE {code}

\* What the conversions give; none where they throw.
to_weapon_special(code) == IF code > k_demons THEN {} ELSE {code}
get_tech_type(code) == IF code > \h12 THEN {} ELSE {code}

\* The special's low bits, and the marks of its high ones.
load_special(v) ==
    {[item EXCEPT !.special = s, !.tekked = v <= \h7F,
                  !.wrapped = v > \hBF \/ v \in \h40 .. \h7F] :
        s \in to_weapon_special(v % 64)}

\* levels are bytes.
load_stats(v) ==
    {[item EXCEPT !.levels = [s \in 1 .. 4 |-> (v[s] \div 100) % 256],
                  !.percentages = [s \in 1 .. 4 |-> v[s] % 100]]}

\* Each defence is read at the other's address.
load_def_stats(f, v) ==
    {IF f = "evp" THEN [item EXCEPT !.dfp = v] ELSE [item EXCEPT !.evp = v]}

load_level_and_type(f, v) ==
    IF f = "level" THEN {[item EXCEPT !.level = v + 1]}
    ELSE {[item EXCEPT !.tech = t] : t \in get_tech_type(v)}

parse_esrank_name(v) == {[item EXCEPT !.letters = SelectSeq(v, IsLetter)]}

\* The objects a field's value may leave.
Loaded(f, v) ==
    CASE f = "kills" -> {[item EXCEPT !.kills = v]}
      [] f = "special" -> load_special(v)
      [] f = "grind" -> {[item EXCEPT !.grind = v]}
      [] f = "attributes" -> load_attributes(item, v)
      [] f = "name" -> parse_esrank_name(v)
      [] f = "slots" -> {[item EXCEPT !.slots = v]}
      [] f \in {"evp", "dfp"} -> load_def_stats(f, v)
      [] f = "stats" -> load_stats(v)
      [] f = "timer" -> {[item EXCEPT !.feeding = v]}
      [] f = "quantity" -> {[item EXCEPT !.quantity = v]}
      [] f \in {"level", "tech"} -> load_level_and_type(f, v)

Init ==
    /\ pc = "make" /\ inBank \in BOOLEAN
    /\ class = "none" /\ seen = NoValue /\ todo = <<>>
    /\ item = NewItem
    /\ raw = <<>>
    /\ line = <<>>

\* make_item, by the first read of the code.
MakeItem(code) ==
    /\ pc = "make"
    /\ class' = make_item(code)
    /\ seen' = <<code>>
    /\ pc' = "code"
    /\ UNCHANGED <<inBank, todo, item, raw, line>>

\* load_from and set_fullcode_and_kills, by the second.
ReadCode(code) ==
    /\ pc = "code"
    /\ seen' = Append(seen, code)
    /\ item' = [item EXCEPT !.code = code]
    /\ todo' = (IF Entries[code].counter THEN <<"kills">> ELSE <<>>)
               \o FieldsOf(class)
    /\ pc' = "fields"
    /\ UNCHANGED <<inBank, class, raw, line>>

ReadField(f, v) ==
    /\ pc = "fields"
    /\ raw' = [g \in DOMAIN raw \cup {f} |-> IF g = f THEN v ELSE raw[g]]
    /\ IF Loaded(f, v) = {} THEN pc' = "failed" /\ item' = item
                            ELSE pc' = pc /\ item' \in Loaded(f, v)
    /\ todo' = Tail(todo)
    /\ UNCHANGED <<inBank, class, seen, line>>

\* A read that throws, as a conversion that throws, ends the loading of the
\* whole list.
ReadFails ==
    /\ \/ pc \in {"make", "code"}
       \/ pc = "fields" /\ todo # <<>>
    /\ pc' = "unread"
    /\ UNCHANGED <<inBank, class, seen, todo, item, raw, line>>

----------------------------------------------------------------------------
(* Printing.                                                               *)

k_plain    == "a"
k_tool     == "b"
k_gold     == "c"
k_rare     == "d"
k_untekked == "e"
k_esrank   == "f"
k_defense  == "g"
k_interest == "h"
k_weapon   == "i"
k_uber     == "j"

\* The colours to_grid_color knows; k_uber is one of seven, by the place.
Palette == {k_plain, k_tool, k_gold, k_rare, k_untekked, k_esrank, k_defense,
            k_interest, k_weapon, k_uber}

Backslash == <<"\\">>
Open == <<"[">>
Close == <<"]">>
Colon == <<":">>

When(condition, pieces) == IF condition THEN pieces ELSE <<>>
Colored(c, pieces) == <<Open, <<c>>, Colon>> \o pieces \o <<Close>>
Escaped(piece) == <<Backslash, piece>>

interpret_rarity(rarity, default) ==
    CASE rarity = "common"   -> default
      [] rarity = "interest" -> k_interest
      [] rarity = "uber"     -> k_uber
      [] rarity = "rare"     -> k_rare
      [] rarity = "esrank"   -> k_esrank

interpret_special(special) ==
    CASE special \in 1 .. 4       -> k_tool
      [] special \in {13, 18}     -> k_untekked
      [] special \in {8, 39, 40}  -> k_defense
      [] special = 22             -> k_weapon
      [] special \in {14, 26}     -> k_esrank
      [] special \in {12, 30}     -> k_gold
      [] special \in {34, 38}     -> k_interest
      [] OTHER                    -> k_plain

get_attribute_color(val, hit) ==
    IF val < 0 THEN k_interest
    ELSE IF val > (IF hit THEN 35 ELSE 75) THEN k_esrank
    ELSE IF val > (IF hit THEN 1 ELSE 50) THEN k_rare
    ELSE k_plain

\* By the code of the technique.
get_tech_rarity(tech, level) ==
    LET common == IF level \in {15, 20} THEN "interest" ELSE "common"
    IN  CASE tech \in {0, 1, 3, 4, 6, 7} -> IF level = 30 THEN "rare" ELSE common
          [] tech \in {2, 5, 8} -> IF level \in {29, 30} THEN "rare" ELSE common
          [] tech \in {9, \h12} ->
               IF level \in {26, 27} THEN "interest"
               ELSE IF level \in {28, 29} THEN "rare"
               ELSE IF level = 30 THEN "uber" ELSE "common"
          [] tech \in {\hA, \hB, \hC, \hD, \hF} ->
               IF level = 30 THEN "interest" ELSE common
          [] tech = \h10 -> IF level \in {5, 7} THEN "interest" ELSE "common"
          [] tech \in {\hE, \h11} -> "interest"

tech_has_only_one_level(tech) == tech \in {\hE, \h11}

entry == Entries[item.code]
is_rare_tier == entry.rarity \in {"uber", "rare"}

\* A code the database does not know is written itself.  One name has a
\* backslash, that of the mag 0x43, which its entry escapes.
print_name_min ==
    CASE class = "Tech" -> <<<<"tech", item.tech>>>>
      [] class # "Tech" /\ entry.name = "plain" -> <<<<"name">>>>
      [] class # "Tech" /\ entry.name = "escaped" -> Escaped(Backslash) \o <<<<"name">>>>
      [] class # "Tech" /\ entry.name = "unknown" ->
           Colored(k_untekked, <<<<"?">>>>) \o <<<<"code", item.code>>>>
           \o Colored(k_untekked, <<<<"?">>>>)

print_name(default) ==
    Colored(interpret_rarity(entry.rarity, default), print_name_min)

print_kills ==
    When(item.kills # k_has_no_kill_counter, <<<<"kills", item.kills>>>>)
print_grind == When(item.grind # 0, <<<<"grind", item.grind>>>>)

Percent(a) ==
    Colored(get_attribute_color(item.attributes[a], a = k_hit),
            <<<<"percent", a, item.attributes[a]>>>>)

\* Every percentage there is, with its letters.
print_single_attribute ==
    LET Single(a) == When(item.attributes[a] # 0, Percent(a) \o <<<<"letters of">>>>)
    IN  Single(1) \o Single(2) \o Single(3) \o Single(4) \o Single(5)

\* Mutant: the row ends before the hit percentage, whatever that is.
print_multiple_unhit ==
    LET Place(a) == IF item.attributes[a] # 0 THEN Percent(a) ELSE <<<<" - ">>>>
        Slash == Escaped(Backslash)
    IN  Escaped(Open) \o Place(1) \o Slash \o Place(2) \o Slash \o Place(3)
        \o Slash \o Place(4) \o Escaped(Close)

\* Mutant: the slashes between are not escaped.
print_multiple_unescaped ==
    LET Place(a) == IF item.attributes[a] # 0 THEN Percent(a) ELSE <<<<" - ">>>>
    IN  Escaped(Open) \o Place(1) \o <<Backslash>> \o Place(2) \o <<Backslash>>
        \o Place(3) \o <<Backslash>> \o Place(4)
        \o When(item.attributes[k_hit] # 0, <<Backslash>> \o Place(k_hit))
        \o Escaped(Close)

print_multiple_attributes ==
    LET Place(a) == IF item.attributes[a] # 0 THEN Percent(a) ELSE <<<<" - ">>>>
        Slash == Escaped(Backslash)
    IN  Escaped(Open) \o Place(1) \o Slash \o Place(2) \o Slash \o Place(3)
        \o Slash \o Place(4)
        \o When(item.attributes[k_hit] # 0, Slash \o Place(k_hit))
        \o Escaped(Close)

PrintWeapon ==
    LET marked == (~item.tekked \/ item.wrapped) /\ entry.rarity # "uber"
    IN  When(marked,
             Escaped(Open)
             \o Colored(k_untekked, When(~item.tekked, <<<<"U">>>>)
                                    \o When(item.wrapped, <<<<"W">>>>))
             \o Escaped(Close))
        \o When(item.special # 0 /\ ~is_rare_tier,
                Colored(interpret_special(item.special),
                        <<<<"special", item.special>>>>))
        \o print_name(IF marked THEN k_untekked ELSE k_weapon)
        \o print_grind \o print_kills
        \o When(AttrCount(item) = 1, print_single_attribute)
        \o When(AttrCount(item) > 1, print_multiple_attributes)

PrintEsWeapon ==
    Colored(k_esrank, <<<<"letters", item.letters>>>> \o <<<<" ES">>>>)
    \o print_name(k_esrank) \o print_grind

\* A defence that varies is written above its least, before its most; the one
\* has a label if it varies alone, the other has none.
print_def_stats ==
    LET dfp_varies == entry.ranges \in {"dfp", "both"}
        evp_varies == entry.ranges \in {"evp", "both"}
    IN  When(dfp_varies \/ evp_varies,
             Escaped(Open)
             \o When(dfp_varies, Colored(k_defense,
                    When(~evp_varies, <<<<"DFP ">>>>) \o <<<<"dfp", item.dfp>>>>))
             \o When(dfp_varies /\ evp_varies, <<<<" - ">>>>)
             \o When(evp_varies, Colored(k_tool, <<<<"evp", item.evp>>>>))
             \o Escaped(Close))

PrintTech ==
    Colored(interpret_rarity(get_tech_rarity(item.tech, item.level), k_tool),
            print_name_min
            \o When(~tech_has_only_one_level(item.tech), <<<<"Lv", item.level>>>>))

PrintMag ==
    LET Sum == item.levels[1] + item.levels[2] + item.levels[3] + item.levels[4]
        ready == item.feeding = 0 /\ ~inBank
        Stat(s) == <<<<"stat", s, item.levels[s]>>>>
                   \o When(ready, <<<<"%", s, item.percentages[s]>>>>)
    IN  <<<<"Lv", Sum>>>> \o print_name(k_plain)
        \o When(~inBank /\ item.feeding # 0, <<<<"feed in", item.feeding>>>>)
        \o When(ready, Colored(k_gold, <<<<"READY!">>>>))
        \o Escaped(Open) \o Stat(1) \o Stat(2) \o Stat(3) \o Stat(4)
        \o Escaped(Close)

print_to ==
    CASE class = "Weapon"   -> PrintWeapon
      [] class = "EsWeapon" -> PrintEsWeapon
      [] class = "Frame"    -> print_name(k_defense) \o <<<<"slots", item.slots>>>>
                               \o print_def_stats
      [] class = "Barrier"  -> print_name(k_defense) \o print_def_stats
      [] class = "Unit"     -> print_name(k_defense) \o print_kills
      [] class = "Mag"      -> PrintMag
      [] class = "Tool"     -> print_name(k_tool)
                               \o When(item.quantity > 1, <<<<"x", item.quantity>>>>)
      [] class = "Tech"     -> PrintTech
      [] class = "Meseta"   -> Colored(k_gold, <<<<"Meseta", item.quantity>>>>)
      [] class = "TotallyUnknownItem" ->
           Colored(k_untekked, <<<<"?">>>> \o print_name_min \o <<<<"?">>>>)

UpdateItemString ==
    /\ pc = "fields" /\ todo = <<>>
    /\ line' = print_to
    /\ pc' = "printed"
    /\ UNCHANGED <<inBank, class, seen, todo, item, raw>>

Next ==
    \/ \E code \in Codes : MakeItem(code) \/ ReadCode(code)
    \/ todo # <<>> /\ \E v \in Values[Head(todo)] : ReadField(Head(todo), v)
    \/ ReadFails
    \/ UpdateItemString

Spec == Init /\ [][Next]_vars

----------------------------------------------------------------------------
(* Rendering: render_line, as render_item_list calls it for a frame.  The  *)
(* calls that have not returned are a stack of the colours they were given. *)

\* One turn of the loop.  A colour is one letter or digit; a word begins with
\* none that a colon follows.
Consume(r, c) ==
    CASE r.phase = "reg" ->
           IF c = Backslash THEN [r EXCEPT !.phase = "escaped"]
           ELSE IF c = Open THEN [r EXCEPT !.phase = "choose_color"]
           ELSE IF c = Close
           THEN IF Len(r.calls) = 1 THEN [r EXCEPT !.phase = "returned"]
                                    ELSE [r EXCEPT !.calls = Tail(@)]
           ELSE [r EXCEPT !.target = Append(@, c),
                          !.colors = Append(@, Head(r.calls))]
      [] r.phase = "choose_color" ->
           IF \E k \in Palette : c = <<k>>
           THEN [r EXCEPT !.color_char = c[1], !.phase = "look_for_colon"]
           ELSE [r EXCEPT !.phase = "error"]
      [] r.phase = "look_for_colon" ->
           IF c = Colon
           THEN [r EXCEPT !.calls = <<r.color_char>> \o @, !.phase = "reg"]
           ELSE [r EXCEPT !.phase = "error"]
      [] r.phase = "escaped" ->
           [r EXCEPT !.target = Append(@, c),
                     !.colors = Append(@, Head(r.calls)), !.phase = "reg"]
      [] r.phase \in {"returned", "error"} -> r

render_line(pieces) ==
    LET after[i \in 0 .. Len(pieces)] ==
            IF i = 0
            THEN [phase |-> "reg", calls |-> <<k_plain>>, color_char |-> k_plain,
                  target |-> <<>>, colors |-> <<>>]
            ELSE Consume(after[i - 1], pieces[i])
    IN  after[Len(pieces)]

----------------------------------------------------------------------------
(* What is to hold.                                                        *)

\* Every variable has its type.
TypeOK ==
    /\ pc \in {"make", "code", "fields", "printed", "failed", "unread"}
    /\ inBank \in BOOLEAN
    /\ seen \in Seq(Codes) /\ Len(seen) <= 2
    /\ DOMAIN item = DOMAIN NewItem /\ DOMAIN raw \subseteq Fields
    /\ item.special \in 0 .. k_demons /\ item.tech \in 0 .. \h12
    /\ item.level \in 0 .. 256 /\ item.top \in -128 .. 127
    /\ item.count \in 0 .. 3 /\ item.levels \in [1 .. 4 -> 0 .. 255]
    /\ todo \in Seq(Fields)

\* The words of a line: what is left of it without its markup.
Words(pieces) == {pieces[i] : i \in 1 .. Len(pieces)}
Shown == Words(render_line(line).target)

\* Whatever bytes an item's fields were read with, be they of several items or
\* of none, the line printed of it can be drawn: render_line meets no malformed
\* markup, which would throw while a frame is drawn, returns from every call it
\* made, drops no word at a bracket that was not meant for it, and hands
\* to_grid_color only colours it knows.
LineRenders ==
    pc = "printed" =>
        LET r == render_line(line)
            markup == {Open, Close, Colon, Backslash} \cup {<<c>> : c \in Palette}
        IN  /\ r.phase = "reg" /\ r.calls = <<k_plain>>
            /\ Words(line) \ markup = Words(r.target) \ markup
            /\ \A i \in 1 .. Len(r.target) : r.colors[i] \in Palette

\* What the item's bytes say, as the game writes them.
Percentages(slots) ==
    {<<"percent", slots[i][1], slots[i][2]>> :
        i \in {j \in 1 .. 3 : slots[j][1] \in Attributes /\ slots[j][2] # 0}}

\* The ids the game writes: no attribute twice, and none without an id but
\* empty slots.
GameWrites(slots) ==
    /\ \A i, j \in 1 .. 3 :
           i # j /\ slots[i][1] \in Attributes => slots[i][1] # slots[j][1]
    /\ \A i \in 1 .. 3 : slots[i][1] = 0 => slots[i][2] = 0

\* The bytes may be one item's, as they are if the game leaves it alone and no
\* read is short.
OneItem == Len(seen) = 2 => seen[1] = seen[2]

Flag(n, byte, word) == IF (byte \div n) % 2 = 1 THEN {word} ELSE {}

WeaponFacts ==
    LET known == Entries[seen[1]]
        marks == Flag(128, raw["special"], <<"U">>) \cup Flag(64, raw["special"], <<"W">>)
        special == raw["special"] % 64
    IN  (IF known.rarity = "uber" THEN {} ELSE marks)
        \cup {<<"special", s>> : s \in {special} \
                 (IF known.rarity \in {"uber", "rare"} THEN {special} ELSE {0})}
        \cup {<<"grind", g>> : g \in {raw["grind"]} \ {0}}
        \cup {<<"kills", k>> : k \in IF known.counter THEN {raw["kills"]} ELSE {}}
        \cup Percentages(raw["attributes"])

\* What a user sees of a weapon that stands still while it is read is what its
\* bytes say: its marks, special, grind and kills, and every percentage under
\* its own attribute, be it one or several; and an item is seen unless its
\* special or its technique is none the program knows.
WeaponShown ==
    /\ pc = "failed" =>
           \/ "special" \in DOMAIN raw /\ raw["special"] % 64 > 40
           \/ "tech" \in DOMAIN raw /\ raw["tech"] > 18
    /\ pc = "printed" /\ class = "Weapon" /\ OneItem
           /\ GameWrites(raw["attributes"]) =>
       {w \in Shown : w[1] \in {"U", "W", "special", "grind", "kills", "percent"}}
           = WeaponFacts

=============================================================================
