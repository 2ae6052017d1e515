--------------------------- MODULE ItemDbProofs ---------------------------
(***************************************************************************)
(* The item database is built once and never read before it is complete,   *)
(* for any tables, any codes and any number of readers; the byte           *)
(* arithmetic of codes; and what the shipped tables promise.               *)
(***************************************************************************)
EXTENDS ItemDb, ItemCodes, TLAPS

Words == {w \in [1 .. 4 -> 0 .. 255] : w[4] = 0}

\* Reversing the bytes of a word twice gives it back: process_endian_u32 is
\* its own inverse.
THEOREM ReverseTwice ==
    ASSUME NEW w \in Words
    PROVE  process_endian_u32(process_endian_u32(w)) = <<w[1], w[2], w[3], w[4]>>
BY DEF process_endian_u32, revt32, revt16

\* The bytes of the reversed word, one by one.
LEMMA ReversedBytes ==
    ASSUME NEW a, NEW b, NEW c, NEW d
    PROVE  process_endian_u32(<<a, b, c, d>>) = <<d, c, b, a>>
BY DEF process_endian_u32, revt32, revt16

LEMMA WordBytes ==
    ASSUME NEW w \in Words
    PROVE  /\ w[1] \in 0 .. 255 /\ w[2] \in 0 .. 255 /\ w[3] \in 0 .. 255
           /\ w[4] = 0
           /\ w = <<w[1], w[2], w[3], w[4]>>
           /\ process_endian_u32(w) = <<w[4], w[3], w[2], w[1]>>
BY DEF Words, process_endian_u32, revt32, revt16

\* prepare_code makes of every code an item can be read with the number of its
\* kind in the tables: the bytes in the other order, without the third of a mag
\* or an S-rank weapon.
THEOREM PreparedIsKind ==
    ASSUME NEW w \in Words
    PROVE  prepare_code(w) = KindOf(w)
<1> DEFINE special == is_esrank(w) \/ w[1] = 2
<1>1. special <=> w[1] = 2 \/ w[2] \in (\h70 .. \h88) \cup (\hA5 .. \hA9)
  BY SMT DEF is_esrank
<1>2. CASE special
  <2>1. process_endian_u32(<<w[1], w[2], 0, 0>>) = <<0, 0, w[2], w[1]>>
    BY ReversedBytes
  <2>2. prepare_code(w) = Number(w[1], w[2], 0)
    BY <1>2, <2>1, SMT DEF prepare_code
  <2> QED BY <1>1, <1>2, <2>2, SMT DEF KindOf
<1>3. CASE ~special
  <2>1. prepare_code(w) = Number(w[1], w[2], w[3])
    BY <1>3, WordBytes, SMT DEF prepare_code
  <2> QED BY <1>1, <1>3, <2>1, SMT DEF KindOf
<1> QED BY <1>2, <1>3

\* Three bytes, the highest below 0x80, make a number of 23 bits.
LEMMA NumberInRange ==
    ASSUME NEW h, NEW m, NEW l,
           h \in 0 .. 127, m \in 0 .. 255, l \in 0 .. 255
    PROVE  Number(h, m, l) \in Nat /\ Number(h, m, l) < \h800000
<1>1. h \in Int /\ m \in Int /\ l \in Int /\ 0 <= h /\ h <= 127
      /\ 0 <= m /\ m <= 255 /\ 0 <= l /\ l <= 255
  BY SMT
<1> QED BY <1>1, SMT DEF Number

\* Such a code is sorted by its number.
LEMMA SmallOrderKey ==
    ASSUME NEW w \in Words, w[1] < 128
    PROVE  /\ OrderKey(w) = Number(w[1], w[2], w[3])
           /\ OrderKey(w) \in Nat /\ OrderKey(w) < \h800000
<1>1. w[1] \in 0 .. 127 /\ w[2] \in 0 .. 255 /\ w[3] \in 0 .. 255
  BY WordBytes, SMT
<1>2. PICK n \in Nat : n = Number(w[1], w[2], w[3]) /\ n < \h800000
  <2>1. /\ Number(w[1], w[2], w[3]) \in Nat
        /\ Number(w[1], w[2], w[3]) < \h800000
    BY ONLY <1>1, NumberInRange, SMT
  <2> QED BY <2>1, SMT
<1>3. process_endian_u32(w) = <<w[4], w[3], w[2], w[1]>>
  BY WordBytes, SMT
<1>4. OrderKey(w) = IF n >= \h800000 THEN n - \h1000000 ELSE n
  BY <1>2, <1>3, SMT DEF OrderKey
<1> QED BY <1>2, <1>4, SMT

\* Items of the classes the game has (below 0x80) are sorted by class, type and
\* number: the int subtraction of order_compare_to never overflows on them.
THEOREM OrderIsCodeOrder ==
    ASSUME NEW w \in Words, NEW v \in Words, w[1] < 128, v[1] < 128
    PROVE  OrderBefore(w, v) =
               {Number(w[1], w[2], w[3]) < Number(v[1], v[2], v[3])}
<1>1. OrderKey(w) = Number(w[1], w[2], w[3]) /\ OrderKey(v) = Number(v[1], v[2], v[3])
  BY SmallOrderKey, SMT
<1>2. /\ OrderKey(w) \in Nat /\ OrderKey(w) < \h800000
      /\ OrderKey(v) \in Nat /\ OrderKey(v) < \h800000
  BY SmallOrderKey, SMT
<1>3. /\ -(\h800000) <= OrderKey(w) - OrderKey(v)
      /\ OrderKey(w) - OrderKey(v) < \h800000
  BY <1>2, SMT
<1>4. (OrderKey(w) - OrderKey(v) < 0) = (OrderKey(w) < OrderKey(v))
  BY <1>2, SMT
<1>5. OrderBefore(w, v) = {OrderKey(w) - OrderKey(v) < 0}
  BY <1>3, SMT DEF OrderBefore
<1> QED BY <1>1, <1>4, <1>5, Zenon

-----------------------------------------------------------------------------
(* One builder, and nobody past call_once before the table is complete.    *)

\* Where the threads are, and how far the table is.
Control ==
    /\ pc \in [Threads -> {"idle", "instance", "build", "find", "found",
                          "ended", "aborted", "exited"}]
    /\ flag \in {"unset", "running", "done"}
    /\ built \in 0 .. Len(Tables)

\* BuiltOnce and what it rests on: the flag is only set by the thread that is in
\* the constructor, when the constructor is done.
BuildInv ==
    /\ Control
    /\ BuiltOnce
    /\ flag = "done" => built = Len(Tables)
    /\ \A r \in Readers : pc[r] = "found" => built = Len(Tables)

LEMMA TableCount == Len(Tables) \in Nat
BY TablesAssumption

LEMMA PassedPlace ==
    ASSUME NEW t \in Threads
    PROVE  /\ Passed(t) \in {"find", "ended"}
           /\ t # Starter => t \in Readers
BY DEF Passed, Threads

LEMMA BuildInit == Init => BuildInv
<1> SUFFICES ASSUME Init PROVE BuildInv
  OBVIOUS
<1>1. PICK eager \in BOOLEAN :
          pc = [t \in Threads |-> IF t # Starter THEN "idle"
                                  ELSE IF eager THEN "instance" ELSE "ended"]
  BY DEF Init
<1>2. Control
  BY <1>1, TableCount DEF Init, Control
<1>3. \A t \in Threads : pc[t] \in {"idle", "instance", "ended"}
  BY <1>1
<1>4. \A r \in Readers : r \in Threads
  BY DEF Threads
<1> QED BY <1>2, <1>3, <1>4 DEF Init, BuildInv, BuiltOnce

LEMMA BuildStep == BuildInv /\ [Next]_vars => BuildInv'
<1> SUFFICES ASSUME BuildInv, [Next]_vars PROVE BuildInv'
  OBVIOUS
<1> USE TableCount DEF BuildInv, Control, BuiltOnce
<1>0. \A r \in Readers : r \in Threads
  BY DEF Threads
<1>1. ASSUME NEW t \in Threads, CallOnce(t) PROVE BuildInv'
  <2>1. CASE flag = "unset"
    BY <1>0, <1>1, <2>1 DEF CallOnce, Goto
  <2>2. CASE flag = "done"
    BY <1>0, <1>1, <2>2, PassedPlace DEF CallOnce, Goto
  <2> QED BY <1>1, <2>1, <2>2 DEF CallOnce
<1>2. ASSUME NEW t \in Threads, AddTable(t) PROVE BuildInv'
  BY <1>0, <1>2 DEF AddTable, Goto
<1>3. ASSUME NEW t \in Threads, Finish(t) PROVE BuildInv'
  BY <1>0, <1>3, PassedPlace DEF Finish, Goto
<1>4. ASSUME NEW r \in Readers, Find(r) PROVE BuildInv'
  BY <1>0, <1>4 DEF Find, Goto
<1>5. ASSUME NEW r \in Readers, Return(r) PROVE BuildInv'
  BY <1>0, <1>5 DEF Return, Goto
<1>6. ASSUME NEW r \in Readers, Exit(r) PROVE BuildInv'
  BY <1>0, <1>6 DEF Exit, Goto
<1>7. ASSUME NEW r \in Readers, NEW w \in Fullcodes, NEW info \in BOOLEAN,
             Ask(r, w, info)
      PROVE  BuildInv'
  BY <1>0, <1>7 DEF Ask, Goto
<1>8. CASE UNCHANGED vars
  BY <1>8 DEF vars
<1> QED BY <1>1, <1>2, <1>3, <1>4, <1>5, <1>6, <1>7, <1>8 DEF Next, Step, Read

\* The constructor runs in one thread only, and no thread leaves call_once
\* before every table is in, for any tables and any number of readers.
THEOREM BuiltOnceHolds == Spec => []BuiltOnce
<1>1. BuildInv => BuiltOnce
  BY DEF BuildInv
<1> QED BY BuildInit, BuildStep, <1>1, PTL DEF Spec

-----------------------------------------------------------------------------

\* The parts of TypeOK that BuildInv leaves out.
Locals ==
    /\ DOMAIN asked = Readers /\ DOMAIN answer = Readers
    /\ inInfo \in [Readers -> BOOLEAN]
    /\ \A r \in Readers : /\ asked[r] = NoCode \/ asked[r] \in Fullcodes
                          /\ answer[r] \subseteq Built[Len(Tables)]
                          /\ pc[r] \in {"instance", "build", "find", "found",
                                       "aborted"} => asked[r] \in Fullcodes

\* What was found is the complete table's answer.
AnswerInv == BuildInv /\ Locals /\ LookupWhole

LEMMA WholeLookup ==
    ASSUME NEW w \in Fullcodes, NEW info \in BOOLEAN
    PROVE  /\ Lookup(Len(Tables), prepare_code(w), info) = Whole(w, info)
           /\ Whole(w, info) \subseteq Built[Len(Tables)]
<1>1. w \in Words
  BY FullcodesAssumption DEF Words
<1>2. prepare_code(w) = KindOf(w)
  BY <1>1, PreparedIsKind
<1> QED BY <1>2 DEF Lookup, Whole

LEMMA AnswerInit == Init => AnswerInv
<1> SUFFICES ASSUME Init PROVE Locals /\ LookupWhole
  BY BuildInit DEF AnswerInv
<1>1. \A r \in Readers : pc[r] = "idle"
  BY ReadersAssumption DEF Init, Threads
<1> QED BY <1>1 DEF Init, Locals, LookupWhole

LEMMA AnswerStep == AnswerInv /\ [Next]_vars => AnswerInv'
<1> SUFFICES ASSUME AnswerInv, [Next]_vars PROVE Locals' /\ LookupWhole'
  BY BuildStep DEF AnswerInv
<1> USE DEF AnswerInv, Locals, LookupWhole, BuildInv, Control
<1>0. \A r \in Readers : r \in Threads /\ r # Starter
  BY ReadersAssumption DEF Threads
<1>1. ASSUME NEW t \in Threads, CallOnce(t) PROVE Locals' /\ LookupWhole'
  BY <1>0, <1>1, PassedPlace DEF CallOnce, Goto
<1>2. ASSUME NEW t \in Threads, AddTable(t) PROVE Locals' /\ LookupWhole'
  BY <1>0, <1>2 DEF AddTable, Goto
<1>3. ASSUME NEW t \in Threads, Finish(t) PROVE Locals' /\ LookupWhole'
  BY <1>0, <1>3, PassedPlace DEF Finish, Goto
<1>4. ASSUME NEW r \in Readers, Find(r) PROVE Locals' /\ LookupWhole'
  <2>1. asked[r] \in Fullcodes /\ inInfo[r] \in BOOLEAN
    BY <1>4 DEF Find
  <2>2. built = Len(Tables)
    BY <1>4 DEF Find, BuiltOnce
  <2>3. /\ answer' = [answer EXCEPT ![r] = Whole(asked[r], inInfo[r])]
        /\ Whole(asked[r], inInfo[r]) \subseteq Built[Len(Tables)]
    BY <1>4, <2>1, <2>2, WholeLookup DEF Find
  <2> QED BY <1>0, <1>4, <2>1, <2>3 DEF Find, Goto
<1>5. ASSUME NEW r \in Readers, Return(r) PROVE Locals' /\ LookupWhole'
  BY <1>0, <1>5 DEF Return, Goto
<1>6. ASSUME NEW r \in Readers, Exit(r) PROVE Locals' /\ LookupWhole'
  BY <1>0, <1>6 DEF Exit, Goto
<1>7. ASSUME NEW r \in Readers, NEW w \in Fullcodes, NEW info \in BOOLEAN,
             Ask(r, w, info)
      PROVE  Locals' /\ LookupWhole'
  BY <1>0, <1>7 DEF Ask, Goto
<1>8. CASE UNCHANGED vars
  BY <1>8 DEF vars
<1> QED BY <1>1, <1>2, <1>3, <1>4, <1>5, <1>6, <1>7, <1>8 DEF Next, Step, Read

\* Every variable keeps its type.
THEOREM TypeCorrect == Spec => []TypeOK
<1>1. AnswerInv => TypeOK
  BY DEF AnswerInv, BuildInv, Control, Locals, TypeOK
<1> QED BY AnswerInit, AnswerStep, <1>1, PTL DEF Spec

\* A lookup answers what the complete tables say of the kind of item that was
\* read, for any tables and codes, whichever thread built them.
THEOREM LookupWholeHolds == Spec => []LookupWhole
<1>1. AnswerInv => LookupWhole
  BY DEF AnswerInv
<1> QED BY AnswerInit, AnswerStep, <1>1, PTL DEF Spec

-----------------------------------------------------------------------------

\* No code is in two tables, nor in two entries of one.
Disjoint == \A n \in 1 .. Len(Tables) : ~Clash[n]

LEMMA AddedInit == Init => AddedOnce
<1> SUFFICES ASSUME Init PROVE AddedOnce
  OBVIOUS
<1>1. PICK eager \in BOOLEAN :
          pc = [t \in Threads |-> IF t # Starter THEN "idle"
                                  ELSE IF eager THEN "instance" ELSE "ended"]
  BY DEF Init
<1> QED BY <1>1 DEF AddedOnce

\* Tables that are disjoint are added without a failed assertion.
LEMMA AddedStep ==
    ASSUME Disjoint PROVE BuildInv /\ AddedOnce /\ [Next]_vars => AddedOnce'
<1> SUFFICES ASSUME BuildInv, AddedOnce, [Next]_vars PROVE AddedOnce'
  OBVIOUS
<1> USE DEF AddedOnce, BuildInv, Control, Goto
<1>0. \A r \in Readers : r \in Threads
  BY DEF Threads
<1>1. ASSUME NEW t \in Threads, AddTable(t) PROVE AddedOnce'
  <2>1. built + 1 \in 1 .. Len(Tables)
    BY <1>1, TableCount DEF AddTable
  <2>2. ~Clash[built + 1]
    BY <2>1 DEF Disjoint
  <2> QED BY <1>1, <2>2 DEF AddTable
<1>2. ASSUME NEW t \in Threads, CallOnce(t) \/ Finish(t) PROVE AddedOnce'
  BY <1>2, PassedPlace DEF CallOnce, Finish
<1>3. ASSUME NEW r \in Readers, Find(r) \/ Return(r) \/ Exit(r) PROVE AddedOnce'
  BY <1>0, <1>3 DEF Find, Return, Exit
<1>4. ASSUME NEW r \in Readers, NEW w \in Fullcodes, NEW info \in BOOLEAN,
             Ask(r, w, info)
      PROVE  AddedOnce'
  BY <1>0, <1>4 DEF Ask
<1>5. CASE UNCHANGED vars
  BY <1>5 DEF vars
<1> QED BY <1>1, <1>2, <1>3, <1>4, <1>5 DEF Next, Step, Read

-----------------------------------------------------------------------------
(* The shipped tables.  A part of a table is what one of its add_ functions *)
(* adds for the families F: items of one class, each with its own code.     *)

Bytes == 0 .. 255

InBytes(F) == \A f \in F : f[1] \subseteq Bytes /\ f[2] \subseteq Bytes

Single(T) == \A e, o \in T : e.key = o.key => e = o

Within(T, class, F) ==
    \A e \in T : \E f \in F : \E t \in f[1], n \in f[2] : e.key = Code(class, t, n)

Part(T, class, F) == InBytes(F) /\ Single(T) /\ Within(T, class, F)

\* No code of the one is a code of the other.
Apart(T, U) == \A e \in T, o \in U : e.key # o.key

\* Families that have a type and a number in common.
Share(F, G) ==
    \E f \in F, g \in G : f[1] \cap g[1] # {} /\ f[2] \cap g[2] # {}

\* What add_item_only_once adds for the families F.
LEMMA ItemOf ==
    ASSUME NEW class, NEW rarity, NEW F, NEW e \in Items(class, rarity, F)
    PROVE  \E f \in F : \E t \in f[1], n \in f[2] :
               e = [key |-> Code(class, t, n), rarity |-> rarity,
                    counter |-> FALSE, ranges |-> NoRanges]
BY DEF Items

\* A code is its bytes.
LEMMA SameCode ==
    ASSUME NEW c \in Nat, NEW d \in Nat,
           NEW t \in Bytes, NEW n \in Bytes,
           NEW u \in Bytes, NEW m \in Bytes,
           Code(c, t, n) = Code(d, u, m)
    PROVE  c = d /\ t = u /\ n = m
<1>1. \A p, q \in Nat : 256 * p + n = 256 * q + m => p = q /\ n = m
  BY DEF Bytes
<1>2. \A p, q \in Nat : 256 * p + t = 256 * q + u => p = q /\ t = u
  BY DEF Bytes
<1>3. 256 * c + t \in Nat /\ 256 * d + u \in Nat
  BY DEF Bytes
<1>4. 256 * (256 * c + t) + n = 256 * (256 * d + u) + m
  BY DEF Code, Bytes
<1>5. 256 * c + t = 256 * d + u /\ n = m
  BY <1>1, <1>3, <1>4
<1> QED BY <1>2, <1>5

LEMMA ItemsPart ==
    ASSUME NEW class \in Nat, NEW rarity, NEW F, InBytes(F)
    PROVE  Part(Items(class, rarity, F), class, F)
<1>1. Within(Items(class, rarity, F), class, F)
  BY ItemOf DEF Within
<1>2. ASSUME NEW e \in Items(class, rarity, F), NEW o \in Items(class, rarity, F),
             e.key = o.key
      PROVE  e = o
  <2>1. PICK f \in F : \E t \in f[1], n \in f[2] :
               e = [key |-> Code(class, t, n), rarity |-> rarity,
                    counter |-> FALSE, ranges |-> NoRanges]
    BY ItemOf
  <2>2. PICK t \in f[1], n \in f[2] :
               e = [key |-> Code(class, t, n), rarity |-> rarity,
                    counter |-> FALSE, ranges |-> NoRanges]
    BY <2>1
  <2>3. PICK g \in F : \E u \in g[1], m \in g[2] :
               o = [key |-> Code(class, u, m), rarity |-> rarity,
                    counter |-> FALSE, ranges |-> NoRanges]
    BY ItemOf
  <2>4. PICK u \in g[1], m \in g[2] :
               o = [key |-> Code(class, u, m), rarity |-> rarity,
                    counter |-> FALSE, ranges |-> NoRanges]
    BY <2>3
  <2>5. Code(class, t, n) = Code(class, u, m)
    BY <1>2, <2>2, <2>4
  <2> QED BY <2>2, <2>4, <2>5
<1> QED BY <1>1, <1>2 DEF Part, Single

\* A kill counter, or a range, changes no code and makes no two items one.
LEMMA CountedPart ==
    ASSUME NEW class \in Nat, NEW rarity, NEW F, InBytes(F)
    PROVE  Part(Counting(Items(class, rarity, F)), class, F)
<1>1. Part(Items(class, rarity, F), class, F)
  BY ItemsPart
<1>2. \A e \in Counting(Items(class, rarity, F)) :
          \E i \in Items(class, rarity, F) :
              e = [i EXCEPT !.counter = TRUE] /\ e.key = i.key
  BY ItemOf DEF Counting
<1>3. Single(Counting(Items(class, rarity, F)))
  BY <1>1, <1>2 DEF Part, Single
<1>4. Within(Counting(Items(class, rarity, F)), class, F)
  BY <1>1, <1>2 DEF Part, Within
<1> QED BY <1>3, <1>4 DEF Part

LEMMA DefendedPart ==
    ASSUME NEW class \in Nat, NEW rarity, NEW F, InBytes(F), NEW ranges
    PROVE  Part(Defences(Items(class, rarity, F), ranges), class, F)
<1>1. Part(Items(class, rarity, F), class, F)
  BY ItemsPart
<1>2. \A e \in Defences(Items(class, rarity, F), ranges) :
          \E i \in Items(class, rarity, F) :
              e = [i EXCEPT !.ranges = ranges] /\ e.key = i.key
  BY ItemOf DEF Defences
<1>3. Single(Defences(Items(class, rarity, F), ranges))
  BY <1>1, <1>2 DEF Part, Single
<1>4. Within(Defences(Items(class, rarity, F), ranges), class, F)
  BY <1>1, <1>2 DEF Part, Within
<1> QED BY <1>3, <1>4 DEF Part

\* add_def_only_once gives ranges to every item it adds.
LEMMA DefendedItem ==
    ASSUME NEW class, NEW rarity, NEW F, NEW ranges,
           NEW e \in Defences(Items(class, rarity, F), ranges)
    PROVE  e.ranges = ranges
<1>1. PICK i \in Items(class, rarity, F) : e = [i EXCEPT !.ranges = ranges]
  BY DEF Defences
<1> QED BY <1>1, ItemOf

\* Parts of different classes, or of families without a common member, are
\* apart; those of one class are then one part.
LEMMA PartsApart ==
    ASSUME NEW T, NEW U, NEW c \in Nat, NEW d \in Nat, NEW F, NEW G,
           Part(T, c, F), Part(U, d, G), c # d \/ ~Share(F, G)
    PROVE  Apart(T, U)
<1> SUFFICES ASSUME NEW e \in T, NEW o \in U, e.key = o.key PROVE FALSE
  BY DEF Apart
<1>1. PICK f \in F : \E t \in f[1], n \in f[2] : e.key = Code(c, t, n)
  BY DEF Part, Within
<1>2. PICK t \in f[1], n \in f[2] : e.key = Code(c, t, n)
  BY <1>1
<1>3. PICK g \in G : \E u \in g[1], m \in g[2] : o.key = Code(d, u, m)
  BY DEF Part, Within
<1>4. PICK u \in g[1], m \in g[2] : o.key = Code(d, u, m)
  BY <1>3
<1>5. t \in Bytes /\ n \in Bytes /\ u \in Bytes /\ m \in Bytes
  BY DEF Part, InBytes
<1>6. Code(c, t, n) = Code(d, u, m)
  BY <1>2, <1>4
<1>7. c = d /\ t = u /\ n = m
  BY <1>5, <1>6, SameCode
<1> QED BY <1>7 DEF Share

LEMMA PartsJoined ==
    ASSUME NEW T, NEW U, NEW c \in Nat, NEW F, NEW G,
           Part(T, c, F), Part(U, c, G), ~Share(F, G)
    PROVE  Part(T \cup U, c, F \cup G)
<1>1. Apart(T, U)
  BY PartsApart
<1>2. Single(T \cup U)
  BY <1>1 DEF Part, Single, Apart
<1>3. Within(T \cup U, c, F \cup G)
  BY DEF Part, Within
<1> QED BY <1>2, <1>3 DEF Part, InBytes

\* The constructor makes no other calls, in either build.
LEMMA TableListed ==
    ASSUME NEW i \in 1 .. Len(ItemDbTables)
    PROVE  ItemDbTables[i] \in {AddWeapons, AddUnits, AddMags, AddTools,
                                AddEsranks, AddEphinea, AddFrames, AddBarriers}
<1>1. CASE k_is_ephinea
  BY <1>1 DEF ItemDbTables
<1>2. CASE ~k_is_ephinea
  BY <1>2 DEF ItemDbTables
<1> QED BY <1>1, <1>2

WeaponFamilies ==
    CommonWeapons \cup RareWeapons \cup UberWeapons
    \cup CountedWeapons

LEMMA WeaponsPart == Part(AddWeapons, 0, WeaponFamilies)
<1>1. /\ InBytes(CommonWeapons)
      /\ InBytes(RareWeapons)
      /\ InBytes(UberWeapons)
      /\ InBytes(CountedWeapons)
  BY DEF InBytes, Bytes, CommonWeapons, RareWeapons, UberWeapons, CountedWeapons
<1>2. /\ Part(Items(0, "common", CommonWeapons), 0, CommonWeapons)
      /\ Part(Items(0, "rare", RareWeapons), 0, RareWeapons)
      /\ Part(Items(0, "uber", UberWeapons), 0, UberWeapons)
      /\ Part(Counting(Items(0, "uber", CountedWeapons)), 0, CountedWeapons)
  BY <1>1, CountedPart, ItemsPart
<1>3. /\ ~Share(CommonWeapons, RareWeapons)
      /\ ~Share(CommonWeapons \cup RareWeapons, UberWeapons)
      /\ ~Share(CommonWeapons \cup RareWeapons \cup UberWeapons, CountedWeapons)
  BY DEF Share, CommonWeapons, RareWeapons, UberWeapons, CountedWeapons
<1> QED BY <1>2, <1>3, PartsJoined DEF AddWeapons, WeaponFamilies

UnitFamilies ==
    CommonUnits \cup RareUnits \cup CountedUnits

LEMMA UnitsPart == Part(AddUnits, 1, UnitFamilies)
<1>1. /\ InBytes(CommonUnits)
      /\ InBytes(RareUnits)
      /\ InBytes(CountedUnits)
  BY DEF InBytes, Bytes, CommonUnits, RareUnits, CountedUnits
<1>2. /\ Part(Items(1, "common", CommonUnits), 1, CommonUnits)
      /\ Part(Items(1, "rare", RareUnits), 1, RareUnits)
      /\ Part(Counting(Items(1, "uber", CountedUnits)), 1, CountedUnits)
  BY <1>1, CountedPart, ItemsPart
<1>3. /\ ~Share(CommonUnits, RareUnits)
      /\ ~Share(CommonUnits \cup RareUnits, CountedUnits)
  BY DEF Share, CommonUnits, RareUnits, CountedUnits
<1> QED BY <1>2, <1>3, PartsJoined DEF AddUnits, UnitFamilies

ToolFamilies ==
    CommonTools \cup InterestTools \cup RareTools
    \cup UberTools

LEMMA ToolsPart == Part(AddTools, 3, ToolFamilies)
<1>1. /\ InBytes(CommonTools)
      /\ InBytes(InterestTools)
      /\ InBytes(RareTools)
      /\ InBytes(UberTools)
  BY DEF InBytes, Bytes, CommonTools, InterestTools, RareTools, UberTools
<1>2. /\ Part(Items(3, "common", CommonTools), 3, CommonTools)
      /\ Part(Items(3, "interest", InterestTools), 3, InterestTools)
      /\ Part(Items(3, "rare", RareTools), 3, RareTools)
      /\ Part(Items(3, "uber", UberTools), 3, UberTools)
  BY <1>1, ItemsPart
<1>3. /\ ~Share(CommonTools, InterestTools)
      /\ ~Share(CommonTools \cup InterestTools, RareTools)
      /\ ~Share(CommonTools \cup InterestTools \cup RareTools, UberTools)
  BY DEF Share, CommonTools, InterestTools, RareTools, UberTools
<1> QED BY <1>2, <1>3, PartsJoined DEF AddTools, ToolFamilies

FrameFamilies ==
    CommonFrames \cup VaryingFrames \cup DfpFrames
    \cup EvpFrames \cup FixedFrames

LEMMA FramesPart == Part(AddFrames, 1, FrameFamilies)
<1>1. /\ InBytes(CommonFrames)
      /\ InBytes(VaryingFrames)
      /\ InBytes(DfpFrames)
      /\ InBytes(EvpFrames)
      /\ InBytes(FixedFrames)
  BY DEF InBytes, Bytes, CommonFrames, VaryingFrames, DfpFrames, EvpFrames, FixedFrames
<1>2. /\ Part(Defences(Items(1, "common", CommonFrames), "both"), 1, CommonFrames)
      /\ Part(Defences(Items(1, "rare", VaryingFrames), "both"), 1, VaryingFrames)
      /\ Part(Defences(Items(1, "rare", DfpFrames), "dfp"), 1, DfpFrames)
      /\ Part(Defences(Items(1, "rare", EvpFrames), "evp"), 1, EvpFrames)
      /\ Part(Defences(Items(1, "rare", FixedFrames), "fixed"), 1, FixedFrames)
  BY <1>1, DefendedPart
<1>3. /\ ~Share(CommonFrames, VaryingFrames)
      /\ ~Share(CommonFrames \cup VaryingFrames, DfpFrames)
      /\ ~Share(CommonFrames \cup VaryingFrames \cup DfpFrames, EvpFrames)
      /\ ~Share(CommonFrames \cup VaryingFrames \cup DfpFrames \cup EvpFrames, FixedFrames)
  BY DEF Share, CommonFrames, VaryingFrames, DfpFrames, EvpFrames, FixedFrames
<1> QED BY <1>2, <1>3, PartsJoined DEF AddFrames, FrameFamilies

BarrierFamilies ==
    CommonBarriers \cup UberBarriers \cup FixedBarriers
    \cup VaryingBarriers

LEMMA BarriersPart == Part(AddBarriers, 1, BarrierFamilies)
<1>1. /\ InBytes(CommonBarriers)
      /\ InBytes(UberBarriers)
      /\ InBytes(FixedBarriers)
      /\ InBytes(VaryingBarriers)
  BY DEF InBytes, Bytes, CommonBarriers, UberBarriers, FixedBarriers, VaryingBarriers
<1>2. /\ Part(Defences(Items(1, "common", CommonBarriers), "both"), 1, CommonBarriers)
      /\ Part(Items(1, "uber", UberBarriers), 1, UberBarriers)
      /\ Part(Defences(Items(1, "rare", FixedBarriers), "fixed"), 1, FixedBarriers)
      /\ Part(Defences(Items(1, "rare", VaryingBarriers), "both"), 1, VaryingBarriers)
  BY <1>1, DefendedPart, ItemsPart
<1>3. /\ ~Share(CommonBarriers, UberBarriers)
      /\ ~Share(CommonBarriers \cup UberBarriers, FixedBarriers)
      /\ ~Share(CommonBarriers \cup UberBarriers \cup FixedBarriers, VaryingBarriers)
  BY DEF Share, CommonBarriers, UberBarriers, FixedBarriers, VaryingBarriers
<1> QED BY <1>2, <1>3, PartsJoined DEF AddBarriers, BarrierFamilies

LEMMA EsranksPart == Part(AddEsranks, 0, Esranks)
<1>1. InBytes(Esranks)
  BY DEF InBytes, Bytes, Esranks
<1> QED BY <1>1, ItemsPart DEF AddEsranks

MagFamilies == CommonMags \cup InterestMags \cup RareMags

\* What add_mags adds in both builds, and the mag that is either its own or
\* add_ephinea's.
CommonToBuilds ==
    Items(2, "common", CommonMags) \cup Items(2, "interest", InterestMags)
    \cup Items(2, "rare", RareMags)
BuildsMag == Items(2, "rare", EphineaMags)

LEMMA MagsPart ==
    /\ Part(CommonToBuilds, 2, MagFamilies) /\ Part(BuildsMag, 2, EphineaMags)
    /\ ~Share(MagFamilies, EphineaMags)
    /\ AddMags = CommonToBuilds \cup (IF k_is_ephinea THEN {} ELSE BuildsMag)
<1>1. /\ InBytes(CommonMags) /\ InBytes(InterestMags)
      /\ InBytes(RareMags) /\ InBytes(EphineaMags)
  BY DEF InBytes, Bytes, CommonMags, InterestMags, RareMags, EphineaMags
<1>2. /\ Part(Items(2, "common", CommonMags), 2, CommonMags)
      /\ Part(Items(2, "interest", InterestMags), 2, InterestMags)
      /\ Part(Items(2, "rare", RareMags), 2, RareMags)
      /\ Part(BuildsMag, 2, EphineaMags)
  BY <1>1, ItemsPart DEF BuildsMag
<1>3. /\ ~Share(CommonMags, InterestMags)
      /\ ~Share(CommonMags \cup InterestMags, RareMags)
      /\ ~Share(MagFamilies, EphineaMags)
  BY DEF Share, MagFamilies, CommonMags, InterestMags, RareMags, EphineaMags
<1>4. Part(CommonToBuilds, 2, MagFamilies)
  BY <1>2, <1>3, PartsJoined DEF CommonToBuilds, MagFamilies
<1> QED BY <1>2, <1>3, <1>4 DEF AddMags, CommonToBuilds, BuildsMag

EphineaFamilies == RareEphinea \cup UberEphinea
EphineaTools == Items(3, "rare", RareEphinea) \cup Items(3, "uber", UberEphinea)

LEMMA EphineaPart ==
    /\ Part(EphineaTools, 3, EphineaFamilies)
    /\ AddEphinea = BuildsMag \cup EphineaTools
<1>1. InBytes(RareEphinea) /\ InBytes(UberEphinea)
  BY DEF InBytes, Bytes, RareEphinea, UberEphinea
<1>2. /\ Part(Items(3, "rare", RareEphinea), 3, RareEphinea)
      /\ Part(Items(3, "uber", UberEphinea), 3, UberEphinea)
  BY <1>1, ItemsPart
<1>3. ~Share(RareEphinea, UberEphinea)
  BY DEF Share, RareEphinea, UberEphinea
<1>4. Part(EphineaTools, 3, EphineaFamilies)
  BY <1>2, <1>3, PartsJoined DEF EphineaTools, EphineaFamilies
<1> QED BY <1>4 DEF AddEphinea, BuildsMag, EphineaTools

\* Tables of one class have other families.
LEMMA FamiliesApart ==
    /\ ~Share(WeaponFamilies, Esranks)
    /\ ~Share(UnitFamilies, FrameFamilies) /\ ~Share(UnitFamilies, BarrierFamilies)
    /\ ~Share(FrameFamilies, BarrierFamilies)
    /\ ~Share(ToolFamilies, EphineaFamilies)
<1>1. ~Share(WeaponFamilies, Esranks)
  BY DEF Share, WeaponFamilies, CommonWeapons, RareWeapons, UberWeapons,
         CountedWeapons, Esranks
<1>2. \A f \in UnitFamilies : f[1] = {3}
  BY DEF UnitFamilies, CommonUnits, RareUnits, CountedUnits
<1>3. \A f \in FrameFamilies : f[1] = {1}
  BY DEF FrameFamilies, CommonFrames, VaryingFrames, DfpFrames, EvpFrames, FixedFrames
<1>4. \A f \in BarrierFamilies : f[1] = {2}
  BY DEF BarrierFamilies, CommonBarriers, UberBarriers, FixedBarriers, VaryingBarriers
<1>5. ~Share(ToolFamilies, EphineaFamilies)
  BY DEF Share, ToolFamilies, CommonTools, InterestTools, RareTools, UberTools,
         EphineaFamilies, RareEphinea, UberEphinea
<1> QED BY <1>1, <1>2, <1>3, <1>4, <1>5 DEF Share

LEMMA TablesSingle == \A i \in 1 .. Len(ItemDbTables) : Single(ItemDbTables[i])
<1>1. /\ Single(AddWeapons) /\ Single(AddUnits) /\ Single(AddTools)
      /\ Single(AddEsranks) /\ Single(AddFrames) /\ Single(AddBarriers)
  BY WeaponsPart, UnitsPart, ToolsPart, EsranksPart, FramesPart, BarriersPart
     DEF Part
<1>2. Single(AddMags)
  <2>1. CASE k_is_ephinea
    BY <2>1, MagsPart DEF Part
  <2>2. CASE ~k_is_ephinea
    BY <2>2, MagsPart, PartsJoined DEF Part
  <2> QED BY <2>1, <2>2
<1>3. Single(AddEphinea)
  <2>1. Apart(BuildsMag, EphineaTools)
    BY MagsPart, EphineaPart, PartsApart
  <2>2. Single(BuildsMag) /\ Single(EphineaTools)
    BY MagsPart, EphineaPart DEF Part
  <2> QED BY <2>1, <2>2, EphineaPart DEF Single, Apart
<1> QED BY <1>1, <1>2, <1>3, TableListed

\* A table in one class is apart from every table in another.
LEMMA ClassesApart ==
    ASSUME NEW T, NEW U, NEW c \in Nat, NEW d \in Nat, c # d,
           NEW F, NEW G, Part(T, c, F), Part(U, d, G)
    PROVE  Apart(T, U) /\ Apart(U, T)
BY PartsApart

LEMMA TablesApart ==
    \A i, j \in 1 .. Len(ItemDbTables) :
        i < j => Apart(ItemDbTables[i], ItemDbTables[j])
<1>1. /\ Part(AddWeapons, 0, WeaponFamilies) /\ Part(AddEsranks, 0, Esranks)
      /\ Part(AddUnits, 1, UnitFamilies) /\ Part(AddFrames, 1, FrameFamilies)
      /\ Part(AddBarriers, 1, BarrierFamilies) /\ Part(AddTools, 3, ToolFamilies)
  BY WeaponsPart, UnitsPart, ToolsPart, EsranksPart, FramesPart, BarriersPart
<1>2. PICK G : Part(AddMags, 2, G)
  <2>1. CASE k_is_ephinea
    BY <2>1, MagsPart
  <2>2. CASE ~k_is_ephinea
    BY <2>2, MagsPart, PartsJoined
  <2> QED BY <2>1, <2>2
<1>3. \A T \in {AddWeapons, AddEsranks} :
          \A U \in {AddUnits, AddFrames, AddBarriers, AddMags, AddTools} :
              Apart(T, U) /\ Apart(U, T)
  BY <1>1, <1>2, ClassesApart
<1>4. \A T \in {AddUnits, AddFrames, AddBarriers} :
          \A U \in {AddMags, AddTools} : Apart(T, U) /\ Apart(U, T)
  BY <1>1, <1>2, ClassesApart
<1>5. Apart(AddMags, AddTools)
  BY <1>1, <1>2, ClassesApart
<1>6. /\ Apart(AddWeapons, AddEsranks) /\ Apart(AddUnits, AddFrames)
      /\ Apart(AddUnits, AddBarriers) /\ Apart(AddFrames, AddBarriers)
  BY <1>1, PartsApart, FamiliesApart
<1>7. \A T \in {AddWeapons, AddEsranks, AddUnits, AddFrames, AddBarriers, AddTools} :
          Apart(T, AddEphinea) /\ Apart(AddEphinea, T)
  <2> SUFFICES ASSUME NEW T \in {AddWeapons, AddEsranks, AddUnits, AddFrames,
                                 AddBarriers, AddTools}
               PROVE  /\ Apart(T, BuildsMag) /\ Apart(BuildsMag, T)
                      /\ Apart(T, EphineaTools) /\ Apart(EphineaTools, T)
    BY EphineaPart DEF Apart
  <2>1. Apart(T, BuildsMag) /\ Apart(BuildsMag, T)
    BY <1>1, MagsPart, ClassesApart
  <2>2. Apart(T, EphineaTools) /\ Apart(EphineaTools, T)
    <3>1. CASE T # AddTools
      BY <1>1, <3>1, EphineaPart, ClassesApart
    <3>2. Apart(AddTools, EphineaTools)
      BY <1>1, EphineaPart, PartsApart, FamiliesApart
    <3>3. Apart(EphineaTools, AddTools)
      BY <3>2 DEF Apart
    <3> QED BY <3>1, <3>2, <3>3
  <2> QED BY <2>1, <2>2
<1>8. CASE k_is_ephinea
  <2>1. Apart(AddMags, AddEphinea)
    <3>1. Apart(CommonToBuilds, BuildsMag)
      BY MagsPart, PartsApart
    <3>2. Apart(CommonToBuilds, EphineaTools)
      BY MagsPart, EphineaPart, ClassesApart
    <3> QED BY <1>8, <3>1, <3>2, MagsPart, EphineaPart DEF Apart
  <2>2. /\ Len(ItemDbTables) = 8
        /\ ItemDbTables[1] = AddWeapons
        /\ ItemDbTables[2] = AddUnits
        /\ ItemDbTables[3] = AddMags
        /\ ItemDbTables[4] = AddTools
        /\ ItemDbTables[5] = AddEsranks
        /\ ItemDbTables[6] = AddEphinea
        /\ ItemDbTables[7] = AddFrames
        /\ ItemDbTables[8] = AddBarriers
    BY <1>8 DEF ItemDbTables
  <2> QED BY <1>3, <1>4, <1>5, <1>6, <1>7, <2>1, <2>2
<1>9. CASE ~k_is_ephinea
  <2>1. /\ Len(ItemDbTables) = 7
        /\ ItemDbTables[1] = AddWeapons
        /\ ItemDbTables[2] = AddUnits
        /\ ItemDbTables[3] = AddMags
        /\ ItemDbTables[4] = AddTools
        /\ ItemDbTables[5] = AddEsranks
        /\ ItemDbTables[6] = AddFrames
        /\ ItemDbTables[7] = AddBarriers
    BY <1>9 DEF ItemDbTables
  <2> QED BY <1>3, <1>4, <1>5, <1>6, <2>1
<1> QED BY <1>8, <1>9

LEMMA ShippedDisjoint == ASSUME Tables = ItemDbTables PROVE Disjoint
<1> SUFFICES ASSUME NEW n \in 1 .. Len(Tables) PROVE ~Clash[n]
  BY DEF Disjoint
<1>1. ASSUME NEW e \in Tables[n], NEW o \in Built[n - 1], e.key = o.key
      PROVE  FALSE
  <2>1. PICK i \in 1 .. n - 1 : o \in Tables[i]
    BY TableCount DEF Built
  <2>2. Apart(Tables[i], Tables[n])
    BY TableCount, TablesApart
  <2> QED BY <1>1, <2>1, <2>2 DEF Apart
<1>2. ASSUME NEW e \in Tables[n], NEW o \in Tables[n], e # o, e.key = o.key
      PROVE  FALSE
  BY <1>2, TablesSingle DEF Single
<1> QED BY <1>1, <1>2 DEF Clash

\* No assertion of add_item_only_once or add_def_only_once fails for the tables
\* as they are shipped, with or without add_ephinea, whichever thread builds
\* them, for any readers and codes.
THEOREM AddedOnceHolds == ASSUME Tables = ItemDbTables PROVE Spec => []AddedOnce
<1>1. BuildInv /\ AddedOnce /\ [Next]_vars => BuildInv' /\ AddedOnce'
  BY ShippedDisjoint, AddedStep, BuildStep
<1> QED BY BuildInit, AddedInit, <1>1, PTL DEF Spec

\* A frame or a barrier, by its code.
Worn(e) == e.key \div \h0100 \in {\h0101, \h0102}

\* RangesKnown, of one entry.
Known(e) == Worn(e) => e.ranges # "none" \/ e.key \in {\h010218, \h010290}

\* Class and type are the upper bytes of a code.
LEMMA KindOfPart ==
    ASSUME NEW T, NEW class \in Nat, NEW F, Part(T, class, F), NEW e \in T
    PROVE  \E f \in F : \E t \in f[1] :
               t \in 0 .. 255 /\ e.key \div \h0100 = class * 256 + t
<1>1. PICK f \in F : \E t \in f[1], n \in f[2] : e.key = Code(class, t, n)
  BY DEF Part, Within
<1>2. PICK t \in f[1], n \in f[2] : e.key = Code(class, t, n)
  BY <1>1
<1>3. t \in 0 .. 255 /\ n \in 0 .. 255
  BY DEF Part, InBytes, Bytes
<1>4. \A q \in Nat : (256 * q + n) \div 256 = q
  BY <1>3
<1>5. Code(class, t, n) = 256 * (class * 256 + t) + n /\ class * 256 + t \in Nat
  BY <1>3 DEF Code
<1>6. Code(class, t, n) \div 256 = class * 256 + t
  BY <1>4, <1>5
<1>7. e.key \div \h0100 = class * 256 + t
  BY <1>2, <1>6
<1> QED BY <1>3, <1>7

\* Weapons, mags and tools are of other classes.
LEMMA OtherClass ==
    ASSUME NEW T, NEW class \in {0, 2, 3}, NEW F, Part(T, class, F)
    PROVE  \A e \in T : ~Worn(e)
BY KindOfPart DEF Worn

LEMMA TablesKnown ==
    \A table \in {AddWeapons, AddUnits, AddMags, AddTools, AddEsranks,
                  AddEphinea, AddFrames, AddBarriers} :
        \A e \in table : Known(e)
<1>1. /\ \A e \in AddWeapons : ~Worn(e)
      /\ \A e \in AddTools : ~Worn(e)
      /\ \A e \in AddEsranks : ~Worn(e)
  BY OtherClass, WeaponsPart, ToolsPart, EsranksPart
<1>2. /\ \A e \in AddMags : ~Worn(e)
      /\ \A e \in AddEphinea : ~Worn(e)
  <2>1. /\ \A e \in CommonToBuilds : ~Worn(e)
        /\ \A e \in BuildsMag : ~Worn(e)
        /\ \A e \in EphineaTools : ~Worn(e)
    BY OtherClass, MagsPart, EphineaPart
  <2> QED BY <2>1, MagsPart, EphineaPart
\* Units are of another type.
<1>3. ASSUME NEW e \in AddUnits PROVE ~Worn(e)
  <2>1. \A f \in UnitFamilies : f[1] = {3}
    BY DEF UnitFamilies, CommonUnits, RareUnits, CountedUnits
  <2>2. e.key \div \h0100 = 259
    BY <2>1, UnitsPart, KindOfPart
  <2> QED BY <2>2 DEF Worn
<1>4. \A e \in AddFrames : e.ranges # "none"
  BY DefendedItem DEF AddFrames
<1>5. \A e \in AddBarriers : e.ranges # "none" \/ e.key \in {\h010218, \h010290}
  <2>1. \A e \in Items(1, "uber", UberBarriers) : e.key \in {\h010218, \h010290}
    BY ItemOf DEF UberBarriers, Code
  <2> QED BY <2>1, DefendedItem DEF AddBarriers
<1> QED BY <1>1, <1>2, <1>3, <1>4, <1>5 DEF Known

\* Every frame and barrier of the shipped tables that has a name has its
\* defences, but for the two that add_uber_barrier adds, whichever thread
\* builds them, for any readers and codes and with or without add_ephinea.
THEOREM RangesKnownHolds ==
    ASSUME Tables = ItemDbTables PROVE Spec => []RangesKnown
<1>1. BuildInv => RangesKnown
  <2> SUFFICES ASSUME BuildInv, NEW e \in Built[built] PROVE Known(e)
    BY DEF RangesKnown, Known, Worn
  <2>1. built \in 0 .. Len(Tables)
    BY DEF BuildInv, Control
  <2>2. PICK i \in 1 .. built : e \in Tables[i]
    BY <2>1 DEF Built
  <2>3. i \in 1 .. Len(ItemDbTables) /\ e \in ItemDbTables[i]
    BY <2>1, <2>2, TableCount
  <2> QED BY <2>3, TableListed, TablesKnown
<1> QED BY BuildInit, BuildStep, <1>1, PTL DEF Spec

=============================================================================
