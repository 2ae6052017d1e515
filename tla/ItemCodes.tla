----------------------------- MODULE ItemCodes -----------------------------
(***************************************************************************)
(* The tables of ItemDb.cpp: which item codes have a name, of what rarity, *)
(* whether the item counts kills, and which of its two defences vary.  The *)
(* names themselves are left out: that a code has an entry stands for its  *)
(* name.  A code is its three bytes, class, type and number, the class     *)
(* highest, as the tables write it.                                        *)
(***************************************************************************)
EXTENDS Integers, Sequences, FiniteSets

k_is_ephinea == TRUE

Code(class, type, number) == class * \h010000 + type * \h0100 + number
ClassOf(code) == code \div \h010000
TypeOf(code) == (code \div \h0100) % \h0100

\* What a table may say of the defences of an item.
NoRanges == "none"
Ranges == {NoRanges, "fixed", "dfp", "evp", "both"}
Rarities == {"uber", "rare", "interest", "common", "esrank"}
Entry == [key : Nat, rarity : Rarities, counter : BOOLEAN, ranges : Ranges]

\* add_item_only_once and add_def_only_once, bound to a rarity: every family
\* is a set of types and the numbers each of them has.
Items(class, rarity, families) ==
    UNION { { [key |-> Code(class, t, n), rarity |-> rarity,
               counter |-> FALSE, ranges |-> NoRanges] :
                  t \in family[1], n \in family[2] } : family \in families }

Counting(items) == { [i EXCEPT !.counter = TRUE] : i \in items }
Defences(items, ranges) == { [i EXCEPT !.ranges = ranges] : i \in items }

----------------------------------------------------------------------------

\* The families of each table, by the call that adds them.

CommonWeapons == { <<{0}, {0}>>, <<1 .. 9, 0 .. 4>>, <<\hA .. \hC, 0 .. 3>> }

RareWeapons ==
    { <<{1, 4, 5, 6}, 5 .. 8>>, <<{2, 8, 9}, 5 .. 7>>, <<{3}, 5 .. 9>>,
      <<{7}, 5 .. \hD>>, <<\hA .. \hC, 4 .. 7>>,
      <<{\hD, \h89, \h8B, \hAD, \hDE}, 0 .. 3>>,
      <<{\hE, \h14, \h8A, \hA2, \hE5} \cup (\hDF .. \hE1), 0 .. 2>>,
      <<{\hF, \h8C}, 0 .. 4>>, <<{\h10}, 0 .. 7>>,
      <<{\h11, \h15, \h20, \h22, \h2F, \h43, \h45, \h4E, \h56, \h6D, \h6E,
         \h8E, \hE3, \hE4, \hE8}, 0 .. 1>>,
      <<{\h12, \h13, \h21, \h31, \h44, \h4C, \h4D, \h6F, \h91, \h92, \hA0,
         \hA1, \hA3, \hA4, \hAA, \hAE, \hAF, \hE2, \hE6, \hE7}
        \cup (\h16 .. \h1C) \cup (\h23 .. \h2E) \cup (\h34 .. \h37)
        \cup (\h39 .. \h41) \cup (\h46 .. \h4A) \cup (\h4F .. \h55)
        \cup (\h57 .. \h59) \cup (\h5B .. \h6C) \cup (\h94 .. \h9A)
        \cup (\hB1 .. \hC7) \cup (\hC9 .. \hDD) \cup (\hE9 .. \hED), {0}>>,
      <<{\h30, \h42, \h4B}, {1}>>, <<{\h8F, \h90}, 0 .. 8>>,
      <<{\h93}, 0 .. 9>> }

UberWeapons ==
    { <<{\h30, \h32, \h38, \h42, \h4B, \h5A, \h8D, \hAC, \hB0, \hC8}
      \cup (\h1D .. \h1F) \cup (\h9B .. \h9F), {0}>> }

CountedWeapons == { <<{\h33, \hAB}, {0}>> }

AddWeapons ==
    Items(0, "common", CommonWeapons) \cup Items(0, "rare", RareWeapons)
    \cup Items(0, "uber", UberWeapons)
    \cup Counting(Items(0, "uber", CountedWeapons))

CommonUnits ==
    { <<{3}, {0, 1, 2, 4, 5, 6, 8, 9, \hA, \hC, \hD, \hE, \h10, \h11, \h12,
      \h14, \h15, \h16, \h18, \h19, \h1A, \h1C, \h1E, \h3F, \h64}
      \cup (\h21 .. \h31) \cup (\h33 .. \h3D)>> }

RareUnits ==
    { <<{3}, {3, 7, \hB, \hF, \h13, \h17, \h1B, \h1D, \h1F, \h20, \h32,
      \h3E, \h4E} \cup (\h40 .. \h4C) \cup (\h50 .. \h63)>> }

CountedUnits == { <<{3}, {\h4D, \h4F}>> }

AddUnits ==
    Items(1, "common", CommonUnits) \cup Items(1, "rare", RareUnits)
    \cup Counting(Items(1, "uber", CountedUnits))

CommonMags == { <<(0 .. \h27) \cup {\h42, \h43, \h52}, {0}>> }

InterestMags == { <<\h39 .. \h41, {0}>> }

RareMags == { <<(\h28 .. \h38) \cup (\h44 .. \h4C) \cup (\h4E .. \h51), {0}>> }

EphineaMags == { <<{\h4D}, {0}>> }

\* Mutant: the mag that add_ephinea adds is added here as well.
AddMagsTwice ==
    Items(2, "common", CommonMags) \cup Items(2, "interest", InterestMags)
    \cup Items(2, "rare", RareMags \cup EphineaMags)

AddMags ==
    Items(2, "common", CommonMags) \cup Items(2, "interest", InterestMags)
    \cup Items(2, "rare", RareMags)
    \cup (IF k_is_ephinea THEN {} ELSE Items(2, "rare", EphineaMags))

CommonTools ==
    { <<{0, 1, \hA}, 0 .. 2>>, <<{3, 4, 7, 8, \h1A}, {0}>>, <<{6}, 0 .. 1>>,
      <<{\hB}, {0, 1, 2, 5}>> }

InterestTools == { <<{5, 9}, {0}>>, <<{\hB}, {3, 4, 6}>> }

RareTools ==
    { <<{\hC}, 0 .. 5>>, <<{\hD}, 0 .. \h15>>,
      <<{\hE}, {0, 3} \cup (5 .. \h27)>>, <<{\hF, \h13}, {0}>>,
      <<{\h10}, {0, 2, 3, 4}>>, <<{\h11, \h15}, 0 .. 2>>,
      <<{\h12}, 0 .. \h13>>, <<{\h14, \h16}, 0 .. \hB>>, <<{\h17}, 0 .. 4>>,
      <<{\h18}, 0 .. \hF>>, <<{\h19}, 0 .. 3>> }

UberTools == { <<{\hE}, {1, 2, 4}>>, <<{\h10}, {1}>> }

AddTools ==
    Items(3, "common", CommonTools) \cup Items(3, "interest", InterestTools)
    \cup Items(3, "rare", RareTools) \cup Items(3, "uber", UberTools)

Esranks == { <<\h70 .. \h88, {0}>> }

AddEsranks == Items(0, "esrank", Esranks)

RareEphinea ==
    { <<{\h10}, {5, 6, 7, 8, \hA, \hB, \hC, \hE, \hF, \h15, \h16, \h17,
      \h19, \h1A, \h1B}>>, <<{\h16}, \hC .. \h14>>, <<{\h17}, 5 .. \hE>>,
      <<{\h18}, {\h10}>> }

UberEphinea == { <<{\h10}, {9, \hD, \h18, \h1C}>> }

AddEphinea ==
    Items(2, "rare", EphineaMags)
    \cup Items(3, "rare", RareEphinea) \cup Items(3, "uber", UberEphinea)

CommonFrames == { <<{1}, 0 .. \h17>> }

VaryingFrames ==
    { <<{1}, {\h23} \cup (\h18 .. \h1F) \cup (\h25 .. \h2B)
      \cup (\h2D .. \h34) \cup (\h37 .. \h3B) \cup (\h40 .. \h43)
      \cup (\h45 .. \h4C) \cup (\h50 .. \h54)>> }

DfpFrames == { <<{1}, {\h24, \h35, \h36, \h4D, \h4E, \h4F}>> }

EvpFrames == { <<{1}, {\h57}>> }

FixedFrames ==
    { <<{1}, {\h2C, \h44, \h55, \h56, \h58} \cup (\h20 .. \h22)
      \cup (\h3C .. \h3F)>> }

AddFrames ==
    Defences(Items(1, "common", CommonFrames), "both")
    \cup Defences(Items(1, "rare", VaryingFrames), "both")
    \cup Defences(Items(1, "rare", DfpFrames), "dfp")
    \cup Defences(Items(1, "rare", EvpFrames), "evp")
    \cup Defences(Items(1, "rare", FixedFrames), "fixed")

CommonBarriers == { <<{2}, (0 .. \h14) \cup {\h34} \cup (\h36 .. \h39)>> }

UberBarriers == { <<{2}, {\h18, \h90}>> }

FixedBarriers ==
    { <<{2}, {\h20, \h31, \h4F, \h52, \h73, \h7B, \h83, \h84, \h8B, \h8C,
      \h8E} \cup (\h2C .. \h2F) \cup (\h94 .. \h98) \cup (\h9A .. \hA5)>> }

VaryingBarriers ==
    { <<{2}, {\h19, \h30, \h32, \h33, \h35, \h50, \h51, \h8D, \h8F, \h99}
      \cup (\h15 .. \h17) \cup (\h1A .. \h1F) \cup (\h21 .. \h2B)
      \cup (\h3A .. \h4E) \cup (\h53 .. \h72) \cup (\h74 .. \h7A)
      \cup (\h7C .. \h82) \cup (\h85 .. \h8A) \cup (\h91 .. \h93)>> }

\* Mutant: add_rare_barrier is bound to add_item_only_once too.
AddBarriersRangeless ==
    Defences(Items(1, "common", CommonBarriers), "both")
    \cup Items(1, "uber", UberBarriers)
    \cup Defences(Items(1, "rare", FixedBarriers), "fixed")
    \cup Items(1, "rare", VaryingBarriers)

\* add_uber_barrier is bound to add_item_only_once: the ranges the two calls
\* give are dropped.
AddBarriers ==
    Defences(Items(1, "common", CommonBarriers), "both")
    \cup Items(1, "uber", UberBarriers)
    \cup Defences(Items(1, "rare", FixedBarriers), "fixed")
    \cup Defences(Items(1, "rare", VaryingBarriers), "both")

\* The constructor's calls, in their order.
ItemDbTables ==
    <<AddWeapons, AddUnits, AddMags, AddTools, AddEsranks>>
    \o (IF k_is_ephinea THEN <<AddEphinea>> ELSE <<>>)
    \o <<AddFrames, AddBarriers>>

=============================================================================
