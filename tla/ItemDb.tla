------------------------------ MODULE ItemDb ------------------------------
(***************************************************************************)
(* The item database: one table that is built once, by whichever thread    *)
(* comes first to std::call_once, and looked up by the reader.  With       *)
(* MACRO_USE_MT_INITIALIZATION (proj/apir.pro) a thread that does nothing  *)
(* else is started for it before main; without it (Makefile) the first     *)
(* lookup builds the table.  Both builds are initial states.               *)
(*                                                                         *)
(* A word is the sequence of its bytes, the lowest first, as the game's    *)
(* memory holds it; the tables are keyed by a number.                      *)
(***************************************************************************)
EXTENDS Integers, Sequences

CONSTANTS
    Tables,    \* the entries each of the constructor's calls adds, in order
    Fullcodes, \* the codes items are read with
    Readers,   \* threads that look items up
    Starter    \* the detached thread that only builds

ASSUME TablesAssumption ==
    /\ Tables \in Seq(SUBSET [key : Nat, rarity : STRING, counter : BOOLEAN,
                              ranges : STRING])
    /\ Tables # <<>>
ASSUME FullcodesAssumption ==
    Fullcodes \subseteq {w \in [1 .. 4 -> 0 .. 255] : w[4] = 0}
ASSUME ReadersAssumption == Starter \notin Readers

VARIABLES
    pc,      \* what each thread does next
    flag,    \* the once_flag
    built,   \* the constructor's calls that have returned
    asked,   \* the code each reader asks for, as it was read
    inInfo,  \* whether it asks get_item_info or get_defense_item_info
    answer   \* the entry found, {} for k_unknown and before

NoCode == <<>> \* of a reader that asks nothing

vars == <<pc, flag, built, asked, inInfo, answer>>

Threads == Readers \cup {Starter}

----------------------------------------------------------------------------
(* Codes.                                                                  *)

\* The number of three bytes of a word.
Number(high, middle, low) == low + middle * \h0100 + high * \h010000

\* revt, at 16 and at 32 bits.
revt16(w) == <<w[2], w[1]>>
revt32(w) ==
    LET high == revt16(<<w[3], w[4]>>)
        low  == revt16(<<w[1], w[2]>>)
    IN  <<high[1], high[2], low[1], low[2]>>

\* process_endian_u32(u, k_big_endian), on a machine of the other order.
process_endian_u32(w) == revt32(w)

\* Mutant: the last of the first block of S-rank weapons is left out.
is_esrank_short(w) == w[2] \in \h70 .. \h87 \/ w[2] \in \hA5 .. \hA9

is_esrank(w) == w[2] \in \h70 .. \h88 \/ w[2] \in \hA5 .. \hA9

\* The number of a mag or of an S-rank weapon is no part of its kind.
prepare_code(w) ==
    LET kind == IF is_esrank(w) \/ w[1] = 2 THEN <<w[1], w[2], 0, 0>> ELSE w
        key  == process_endian_u32(kind)
    IN  Number(key[4], key[3], key[2])

\* The number an item of this code is sorted by, in units of 2^8 so that it
\* stays within TLC's integers: the fourth byte of a code is 0.
OrderKey(w) ==
    LET fc == process_endian_u32(w)
        u  == Number(fc[4], fc[3], fc[2])
    IN  IF u >= \h800000 THEN u - \h1000000 ELSE u

\* order_compare_to(rhs) < 0.  A difference that does not fit an int is
\* undefined: it wraps, or the compiler compares without subtracting.
OrderBefore(w, v) ==
    LET difference == OrderKey(w) - OrderKey(v)
        fits == -(\h800000) <= difference /\ difference < \h800000
    IN  IF fits THEN {difference < 0} ELSE BOOLEAN

----------------------------------------------------------------------------
(* The tables.                                                             *)

\* What the two maps hold after n of the constructor's calls.
Built == [n \in 0 .. Len(Tables) |-> UNION {Tables[i] : i \in 1 .. n}]

\* An assertion of add_item_only_once fails in the n-th call.
Clash == [n \in 1 .. Len(Tables) |->
             \E e \in Tables[n] :
                 \/ \E f \in Built[n - 1] : e.key = f.key
                 \/ \E f \in Tables[n] : e # f /\ e.key = f.key]

Lookup(n, key, info) ==
    {e \in Built[n] : e.key = key /\ (info \/ e.ranges # "none")}

----------------------------------------------------------------------------

Init ==
    /\ \E eager \in BOOLEAN :
           pc = [t \in Threads |-> IF t # Starter THEN "idle"
                                   ELSE IF eager THEN "instance" ELSE "ended"]
    /\ flag = "unset" /\ built = 0
    /\ asked = [r \in Readers |-> NoCode]
    /\ inInfo = [r \in Readers |-> TRUE]
    /\ answer = [r \in Readers |-> {}]

Passed(t) == IF t = Starter THEN "ended" ELSE "find"

Goto(t, step) == pc' = [pc EXCEPT ![t] = step]

\* get_item_info and get_defense_item_info, up to instance().
Ask(r, w, info) ==
    /\ pc[r] = "idle"
    /\ asked' = [asked EXCEPT ![r] = w]
    /\ inInfo' = [inInfo EXCEPT ![r] = info]
    /\ Goto(r, "instance")
    /\ UNCHANGED <<flag, built, answer>>

\* std::call_once.  While the flag says "running" the thread waits.
\* Mutant: the flag is set before the table is built.
CallOnceEarly(t) ==
    /\ pc[t] = "instance"
    /\ \/ /\ flag = "unset"
          /\ flag' = "done"
          /\ Goto(t, "build")
       \/ /\ flag = "done"
          /\ flag' = flag
          /\ Goto(t, Passed(t))
    /\ UNCHANGED <<built, asked, inInfo, answer>>

CallOnce(t) ==
    /\ pc[t] = "instance"
    /\ \/ /\ flag = "unset"
          /\ flag' = "running"
          /\ Goto(t, "build")
       \/ /\ flag = "done"
          /\ flag' = flag
          /\ Goto(t, Passed(t))
    /\ UNCHANGED <<built, asked, inInfo, answer>>

\* One of the add_ functions that ItemDb::ItemDb calls.
AddTable(t) ==
    /\ pc[t] = "build" /\ built < Len(Tables)
    /\ built' = built + 1
    /\ Goto(t, IF Clash[built + 1] THEN "aborted" ELSE "build")
    /\ UNCHANGED <<flag, asked, inInfo, answer>>

\* Mutant: nobody who waits is told.
FinishSilently(t) ==
    /\ pc[t] = "build" /\ built = Len(Tables)
    /\ Goto(t, Passed(t))
    /\ UNCHANGED <<flag, built, asked, inInfo, answer>>

\* Mutant: the constructor's end is counted as a call of its own.
FinishCounted(t) ==
    /\ pc[t] = "build" /\ built = Len(Tables)
    /\ flag' = "done" /\ built' = built + 1
    /\ Goto(t, Passed(t))
    /\ UNCHANGED <<asked, inInfo, answer>>

Finish(t) ==
    /\ pc[t] = "build" /\ built = Len(Tables)
    /\ flag' = "done"
    /\ Goto(t, Passed(t))
    /\ UNCHANGED <<built, asked, inInfo, answer>>

Find(r) ==
    /\ pc[r] = "find"
    /\ answer' = [answer EXCEPT ![r] =
                     Lookup(built, prepare_code(asked[r]), inInfo[r])]
    /\ Goto(r, "found")
    /\ UNCHANGED <<flag, built, asked, inInfo>>

\* The caller takes the answer.
Return(r) ==
    /\ pc[r] = "found"
    /\ asked' = [asked EXCEPT ![r] = NoCode]
    /\ inInfo' = [inInfo EXCEPT ![r] = TRUE]
    /\ answer' = [answer EXCEPT ![r] = {}]
    /\ Goto(r, "idle")
    /\ UNCHANGED <<flag, built>>

\* main returns, whatever the detached thread is doing.
Exit(r) ==
    /\ pc[r] = "idle"
    /\ Goto(r, "exited")
    /\ UNCHANGED <<flag, built, asked, inInfo, answer>>

Alive == \A r \in Readers : pc[r] # "exited"

Step(t) == Alive /\ (CallOnce(t) \/ AddTable(t) \/ Finish(t))

Read(r) ==
    \/ Find(r)
    \/ Return(r)
    \/ Exit(r)
    \/ \E w \in Fullcodes, info \in BOOLEAN : Ask(r, w, info)

Next ==
    \/ \E t \in Threads : Step(t)
    \/ Alive /\ \E r \in Readers : Read(r)

Spec == Init /\ [][Next]_vars

\* The operating system runs every thread that can run; what a reader asks
\* for, and when, is its own business.
FairSpec == Spec /\ \A t \in Threads : WF_vars(Step(t))

----------------------------------------------------------------------------
(* What is to hold.                                                        *)

\* Every variable has its type.
TypeOK ==
    /\ pc \in [Threads -> {"idle", "instance", "build", "find", "found",
                          "ended", "aborted", "exited"}]
    /\ flag \in {"unset", "running", "done"}
    /\ built \in 0 .. Len(Tables)
    /\ DOMAIN asked = Readers /\ DOMAIN answer = Readers
    /\ inInfo \in [Readers -> BOOLEAN]
    /\ \A r \in Readers : /\ asked[r] = NoCode \/ asked[r] \in Fullcodes
                          /\ answer[r] \subseteq Built[Len(Tables)]

\* The kind of item a code means, whatever order its bytes are read in: a mag
\* and an S-rank weapon (types 0x70 to 0x88 have entries) are told apart by
\* their type alone.
KindOf(w) ==
    LET unnumbered == w[1] = 2 \/ w[2] \in (\h70 .. \h88) \cup (\hA5 .. \hA9)
    IN  Number(w[1], w[2], IF unnumbered THEN 0 ELSE w[3])

\* The answer a complete database gives.
Whole(w, info) ==
    LET all == Built[Len(Tables)]
    IN  {e \in all : e.key = KindOf(w) /\ (info \/ e.ranges # "none")}

\* A reader that races the thread that builds the database is given the answer
\* of the complete one, whichever of the two built it: instance() returns when
\* every table is in, and prepare_code makes of the bytes the key the tables
\* use, so that no item with an entry is shown as unknown or as another.
LookupWhole ==
    \A r \in Readers :
        pc[r] = "found" => answer[r] = Whole(asked[r], inInfo[r])

\* The constructor runs once: two threads are never in it, none is in it once
\* the table is handed out, and none leaves call_once before all of it is in.
BuiltOnce ==
    /\ \A t, u \in Threads : pc[t] = "build" /\ pc[u] = "build" => t = u
    /\ \A t \in Threads : pc[t] = "build" => flag = "running"
    /\ \A r \in Readers : pc[r] = "find" => built = Len(Tables)

\* The assertions of add_item_only_once and add_def_only_once hold: no code is
\* added twice, by one table or by two.
AddedOnce == \A t \in Threads : pc[t] # "aborted"

\* A frame or a barrier (classes 0x0101 and 0x0102) that has a name also has
\* its defences, but for the two shields whose ranges the source gives and
\* add_uber_barrier drops, S-PARTS ver2.01 and the one of number 0x90.
RangesKnown ==
    flag = "done" =>
        \A e \in Built[built] :
            e.key \div \h0100 \in {\h0101, \h0102} =>
                e.ranges # "none" \/ e.key \in {\h010218, \h010290}

\* Whoever builds the database, instance() returns to every reader that calls
\* it: the thread that waits in call_once is let go.
InstanceReturns == \A r \in Readers : pc[r] = "instance" ~> pc[r] = "find"

=============================================================================
