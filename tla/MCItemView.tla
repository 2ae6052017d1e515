---------------------------- MODULE MCItemView ----------------------------
(* Codes of every class and of every kind of entry, read in any mixture.   *)
EXTENDS ItemView, ItemCodes

E(rarity, counter, ranges) ==
    [name |-> "plain", rarity |-> rarity, counter |-> counter, ranges |-> ranges]
Unknown == [name |-> "unknown", rarity |-> "common", counter |-> FALSE,
            ranges |-> NoRanges]
Mag43 == [name |-> "escaped", rarity |-> "common", counter |-> FALSE,
          ranges |-> NoRanges]

Samples ==
    { <<<<0, 1, 0>>, E("common", FALSE, NoRanges)>>,
      <<<<0, 1, 5>>, E("rare", FALSE, NoRanges)>>,
      <<<<0, \h33, 0>>, E("uber", TRUE, NoRanges)>>,
      <<<<0, 250, 0>>, Unknown>>,
      <<<<0, \h70, 3>>, E("esrank", FALSE, NoRanges)>>,
      <<<<1, 1, 0>>, E("common", FALSE, "both")>>,
      <<<<1, 1, \h24>>, E("rare", FALSE, "dfp")>>,
      <<<<1, 1, \h57>>, E("rare", FALSE, "evp")>>,
      <<<<1, 2, \h18>>, E("uber", FALSE, NoRanges)>>,
      <<<<1, 3, \h4D>>, E("uber", TRUE, NoRanges)>>,
      <<<<2, \h43, 7>>, Mag43>>,
      <<<<3, 0, 0>>, E("common", FALSE, NoRanges)>>,
      <<<<3, 2, 29>>, Unknown>>, <<<<4, 0, 0>>, Unknown>>, <<<<5, 0, 0>>, Unknown>> }

SampleCodes == {s[1] : s \in Samples}
SampleEntries == [c \in SampleCodes |-> (CHOOSE s \in Samples : s[1] = c)[2]]

\* The samples are what the database has.
ASSUME SamplesAssumption ==
    \A s \in Samples :
        LET unnumbered == s[1][1] = 2 \/ is_esrank(s[1])
            key == Code(s[1][1], s[1][2], IF unnumbered THEN 0 ELSE s[1][3])
            found == {e \in UNION {ItemDbTables[i] : i \in 1 .. Len(ItemDbTables)} :
                         e.key = key}
        IN  IF s[2].name = "unknown" THEN found = {}
            ELSE found = {[key |-> key, rarity |-> s[2].rarity,
                           counter |-> s[2].counter, ranges |-> s[2].ranges]}

Slots == {<<0, 0>>, <<0, 40>>, <<0, -1>>, <<1, -1>>, <<1, 0>>, <<5, 40>>, <<6, 40>>}
SlotTriples == Slots \X Slots \X {<<0, 0>>, <<3, 60>>}

FieldValues ==
    [kills |-> {0},
     special |-> {0, 9, 41, \h40, \h80, \hBF, \hC0},
     grind |-> {0, 1},
     attributes |-> SlotTriples,
     name |-> {<<0, 0, 0, 0, 0, 0, 0, 0>>, <<1, 26, 0, 27, 31, 2, 2, 2>>},
     slots |-> {0, 1, 4},
     evp |-> {0, 3}, dfp |-> {0, 3},
     stats |-> {<<0, 99, 100, 20000>>, <<65535, 25600, 0, 0>>},
     timer |-> {-1, 0, 90, 91},
     quantity |-> 0 .. 2,
     level |-> {0, 6, 14, 29, 255},
     tech |-> 0 .. 19]

MCCodes == SampleCodes
MCEntries == SampleEntries
MCValues == FieldValues

===========================================================================
