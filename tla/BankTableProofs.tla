-------------------------- MODULE BankTableProofs --------------------------
(***************************************************************************)
(* Proofs about a refresh of the bank view, for any banks and contents.    *)
(***************************************************************************)
EXTENDS BankTable, TLAPS

\* Sorting keeps the elements and their number.
LEMMA SortElements ==
    ASSUME NEW S, made \in Seq(S), Sort
    PROVE  /\ made' \in Seq(S)
           /\ Len(made') = Len(made)
           /\ Range(made') = Range(made)
           /\ Sorted(made')
<1>1. PICK p \in Orders(Len(made)) :
        made' = [k \in 1 .. Len(made) |-> made[p[k]]] /\ Sorted(made')
  BY DEF Sort
<1>2. p \in [1 .. Len(made) -> 1 .. Len(made)]
      /\ \A j \in 1 .. Len(made) : \E k \in 1 .. Len(made) : p[k] = j
  BY DEF Orders
<1>3. made' \in Seq(S) /\ Len(made') = Len(made)
  BY <1>1, <1>2
<1>4. DOMAIN made = 1 .. Len(made) /\ DOMAIN made' = 1 .. Len(made)
  BY <1>1
<1>5. ASSUME NEW e PROVE e \in Range(made') <=> e \in Range(made)
  <2>1. ASSUME NEW k \in 1 .. Len(made), e = made'[k] PROVE e \in Range(made)
    BY <2>1, <1>1, <1>2, <1>4 DEF Range
  <2>2. ASSUME NEW j \in 1 .. Len(made), e = made[j] PROVE e \in Range(made')
    <3>1. PICK k \in 1 .. Len(made) : p[k] = j
      BY <1>2
    <3>2. made'[k] = e
      BY <2>2, <3>1, <1>1
    <3> QED BY <3>2, <1>4 DEF Range
  <2> QED BY <2>1, <2>2, <1>4 DEF Range
<1> QED BY <1>1, <1>3, <1>5

\* A Meseta and an item are told apart by their kinds.
LEMMA KindsDiffer ==
    /\ \A b, amount : IsMeseta(MesetaOf(b, amount)) /\ BankOf(MesetaOf(b, amount)) = b
    /\ \A place, c : ~IsMeseta(ItemAt(place, c)) /\ BankOf(ItemAt(place, c)) = place[1]
BY DEF IsMeseta, BankOf, MesetaOf, ItemAt

-----------------------------------------------------------------------------

\* A refresh starts from nothing.
FreshInv == /\ pc \in {"ptr", "count"} => made = <<>>
            /\ pc = "ptr" => addresses = <<>>

LEMMA FreshStep == FreshInv /\ [Next]_vars => FreshInv'
<1> SUFFICES ASSUME FreshInv, [Next]_vars PROVE FreshInv'
  OBVIOUS
<1> USE DEF FreshInv
<1>1. CASE Refresh
  BY <1>1
  DEF Refresh, Start, ReadPtr, ReadCount, ReadItem, ReadPtrAgain, ReadMeseta,
      Arrange, Fail
<1>2. CASE Game
  BY <1>2 DEF Game, SwitchBank, Deposit, Withdraw, MoveMeseta, GameStep, readVars
<1>3. CASE UNCHANGED vars
  BY <1>3 DEF vars, readVars
<1> QED BY <1>1, <1>2, <1>3 DEF Next

\* The types of what the game writes, and of what the refresh does.
GameTypes == bankPtr \in Pointers /\ bank \in [Banks -> BankMemory]

ListTypes ==
    /\ addresses \in Seq(Places) /\ Len(addresses) <= MaxCount
    /\ made \in Seq(MadeItems \cup Mesetas) /\ Len(made) <= MaxCount + 1
    /\ pc \in {"items", "meseta"} => Len(made) <= Len(addresses)
    /\ header \in -1 .. MaxCount

PcTypes ==
    /\ pc \in {"idle", "ptr", "count", "items", "meseta", "arrange", "done"}
    /\ ptr \in Pointers /\ (pc \in {"count", "meseta"} => ptr \in Banks)
    /\ quiet \in BOOLEAN /\ switched \in BOOLEAN

LEMMA TypeParts == TypeOK <=> GameTypes /\ ListTypes /\ PcTypes
BY DEF TypeOK, GameTypes, ListTypes, PcTypes

LEMMA TypeInit == Init => TypeOK
<1> SUFFICES ASSUME Init PROVE TypeOK
  OBVIOUS
<1>1. /\ addresses \in Seq(Places) /\ Len(addresses) = 0
      /\ made \in Seq(MadeItems \cup Mesetas) /\ Len(made) = 0
  BY DEF Init
<1>2. ListTypes
  BY <1>1, CountAssumption DEF Init, ListTypes
<1>3. GameTypes /\ PcTypes
  BY DEF Init, GameTypes, PcTypes, Pointers
<1> QED BY <1>2, <1>3, TypeParts

LEMMA GameTypesStep == TypeOK /\ [Next]_vars => GameTypes'
<1> SUFFICES ASSUME GameTypes, [Next]_vars PROVE GameTypes'
  BY TypeParts
<1> USE DEF GameTypes
<1>1. CASE Refresh
  BY <1>1
  DEF Refresh, Start, ReadPtr, ReadCount, ReadItem, ReadPtrAgain, ReadMeseta,
      Arrange, Fail, gameVars
<1>2. CASE SwitchBank
  BY <1>2 DEF SwitchBank
<1>3. ASSUME NEW c \in Codes, Deposit(c) PROVE GameTypes'
  <2> DEFINE m == bank[bankPtr]
             added == [m.codes EXCEPT ![m.count + 1] = c]
  <2>1. bankPtr \in Banks /\ m \in BankMemory /\ m.count < MaxCount
    BY <1>3 DEF Deposit, Pointers
  <2>2. /\ m.count + 1 \in 0 .. MaxCount /\ added \in [1 .. MaxCount -> Codes]
        /\ m.meseta \in Amounts
    BY <2>1, CountAssumption DEF BankMemory
  <2>3. /\ bank' = [bank EXCEPT ![bankPtr] =
                      [[m EXCEPT !.count = m.count + 1] EXCEPT !.codes = added]]
        /\ bankPtr' = bankPtr
    BY <1>3, <2>1 DEF Deposit, BankMemory
  <2>4. [[m EXCEPT !.count = m.count + 1] EXCEPT !.codes = added] \in BankMemory
    BY <2>1, <2>2 DEF BankMemory
  <2> HIDE DEF m, added
  <2> QED BY <2>3, <2>4
<1>4. ASSUME NEW k \in 1 .. MaxCount, Withdraw(k) PROVE GameTypes'
  <2> DEFINE m == bank[bankPtr]
             moved == [j \in 1 .. MaxCount |->
                 IF k <= j /\ j < m.count THEN m.codes[j + 1] ELSE m.codes[j]]
  <2>1. bankPtr \in Banks /\ m \in BankMemory /\ k <= m.count
    BY <1>4 DEF Withdraw, Pointers
  <2>2. /\ m.count \in 0 .. MaxCount /\ m.codes \in [1 .. MaxCount -> Codes]
        /\ m.meseta \in Amounts
    BY <2>1 DEF BankMemory
  <2>3. moved \in [1 .. MaxCount -> Codes]
    BY <2>2, CountAssumption
  <2>4. m.count - 1 \in 0 .. MaxCount
    BY <2>1, <2>2, CountAssumption
  <2>5. /\ bank' = [bank EXCEPT ![bankPtr] =
                      [[m EXCEPT !.count = m.count - 1] EXCEPT !.codes = moved]]
        /\ bankPtr' = bankPtr
    BY <1>4, <2>1 DEF Withdraw, BankMemory
  <2>6. [[m EXCEPT !.count = m.count - 1] EXCEPT !.codes = moved] \in BankMemory
    BY <2>1, <2>3, <2>4 DEF BankMemory
  <2> HIDE DEF m, moved
  <2> QED BY <2>5, <2>6
<1>5. ASSUME NEW amount \in Amounts, MoveMeseta(amount) PROVE GameTypes'
  BY <1>5 DEF MoveMeseta, Pointers, BankMemory
<1>6. CASE UNCHANGED vars
  BY <1>6 DEF vars, gameVars
<1> QED BY <1>1, <1>2, <1>3, <1>4, <1>5, <1>6 DEF Next, Game

LEMMA PcTypesStep == TypeOK /\ [Next]_vars => PcTypes'
<1> SUFFICES ASSUME GameTypes, PcTypes, [Next]_vars PROVE PcTypes'
  BY TypeParts
<1> USE DEF PcTypes, GameTypes, Pointers
<1>1. CASE Refresh
  BY <1>1
  DEF Refresh, Start, ReadPtr, ReadCount, ReadItem, ReadPtrAgain, ReadMeseta,
      Arrange, Fail, readVars, historyVars
<1>2. CASE Game
  BY <1>2 DEF Game, SwitchBank, Deposit, Withdraw, MoveMeseta, GameStep, readVars
<1>3. CASE UNCHANGED vars
  BY <1>3 DEF vars, readVars, historyVars
<1> QED BY <1>1, <1>2, <1>3 DEF Next

LEMMA ListTypesStep == TypeOK /\ FreshInv /\ [Next]_vars => ListTypes'
<1> SUFFICES ASSUME TypeOK, FreshInv, [Next]_vars PROVE ListTypes'
  OBVIOUS
<1>a. /\ Len(made) \in Nat /\ Len(addresses) \in Nat
      /\ addresses \in Seq(Places) /\ Len(addresses) <= MaxCount
      /\ made \in Seq(MadeItems \cup Mesetas) /\ Len(made) <= MaxCount + 1
      /\ pc \in {"items", "meseta"} => Len(made) <= Len(addresses)
      /\ header \in -1 .. MaxCount
  BY DEF TypeOK
<1>1. CASE Start
  <2>1. /\ addresses' \in Seq(Places) /\ Len(addresses') = 0
        /\ made' \in Seq(MadeItems \cup Mesetas) /\ Len(made') = 0
        /\ header' = header /\ pc' = "ptr"
    BY <1>1 DEF Start
  <2> QED BY <2>1, <1>a, CountAssumption DEF ListTypes
<1>2. CASE ReadPtr
  <2>1. Len(made) = 0 /\ UNCHANGED <<addresses, made, header>>
    BY <1>2 DEF ReadPtr, FreshInv
  <2> QED BY <2>1, <1>a DEF ListTypes
<1>3. CASE ReadCount
  <2>1. ptr \in Banks /\ bank[ptr].count \in 0 .. MaxCount
    BY <1>3 DEF ReadCount, TypeOK, BankMemory
  <2>2. addresses' \in Seq(Places) /\ Len(addresses') = bank[ptr].count
    BY <1>3, <2>1, CountAssumption DEF ReadCount, Places
  <2>3. Len(made) = 0 /\ UNCHANGED <<made, header>>
    BY <1>3 DEF ReadCount, FreshInv
  <2> QED BY <2>1, <2>2, <2>3, <1>a, CountAssumption DEF ListTypes
<1>4. CASE ReadItem
  <2> DEFINE place == addresses[Len(made) + 1]
             item  == ItemAt(place, bank[place[1]].codes[place[2]])
  <2>1. place \in Places
    BY <1>4, <1>a DEF ReadItem
  <2>2. item \in MadeItems
    BY <2>1 DEF ItemAt, MadeItems, TypeOK, Places, BankMemory
  <2>3. made' = Append(made, item) /\ pc = "items" /\ Len(made) < Len(addresses)
        /\ UNCHANGED <<pc, addresses, header>>
    BY <1>4 DEF ReadItem
  <2> HIDE DEF item
  <2>4. made' \in Seq(MadeItems \cup Mesetas) /\ Len(made') = Len(made) + 1
    BY <2>2, <2>3, <1>a
  <2> QED BY <2>3, <2>4, <1>a, CountAssumption DEF ListTypes
<1>5. CASE ReadPtrAgain
  BY <1>5, <1>a DEF ReadPtrAgain, ListTypes
<1>6. CASE ReadMeseta
  <2>1. MesetaOf(ptr, bank[ptr].meseta) \in Mesetas
    BY <1>6 DEF ReadMeseta, MesetaOf, Mesetas, TypeOK, BankMemory
  <2>2. /\ made' = Append(made, MesetaOf(ptr, bank[ptr].meseta))
        /\ Len(made) <= Len(addresses) /\ pc' = "arrange"
        /\ UNCHANGED <<addresses, header>>
    BY <1>6, <1>a DEF ReadMeseta
  <2>3. made' \in Seq(MadeItems \cup Mesetas) /\ Len(made') = Len(made) + 1
    BY <2>1, <2>2, <1>a
  <2> QED BY <2>2, <2>3, <1>a, CountAssumption DEF ListTypes
<1>7. CASE Arrange
  <2>1. made' \in Seq(MadeItems \cup Mesetas) /\ Len(made') = Len(made)
    BY <1>7, <1>a, SortElements DEF Arrange
  <2>2. header' = Len(made) - 1 /\ pc' = "done" /\ addresses' = addresses
    BY <1>7 DEF Arrange
  <2> QED BY <2>1, <2>2, <1>a, CountAssumption DEF ListTypes
<1>8. CASE Fail \/ Game \/ UNCHANGED vars
  <2>1. UNCHANGED readVars /\ pc' \in {pc, "idle"}
    BY <1>8
    DEF Fail, Game, SwitchBank, Deposit, Withdraw, MoveMeseta, GameStep, vars
  <2> QED BY <2>1, <1>a DEF ListTypes, readVars
<1> QED
  BY <1>1, <1>2, <1>3, <1>4, <1>5, <1>6, <1>7, <1>8 DEF Next, Refresh

\* Types; the list is never longer than a bank and its Meseta.
THEOREM TypeCorrect == Spec => []TypeOK
<1>1. Init => TypeOK /\ FreshInv
  BY TypeInit DEF Init, FreshInv
<1>2. TypeOK /\ FreshInv /\ [Next]_vars => TypeOK' /\ FreshInv'
  <2>1. GameTypes' /\ ListTypes' /\ PcTypes' => TypeOK'
    BY DEF TypeOK, GameTypes, ListTypes, PcTypes
  <2> QED BY <2>1, GameTypesStep, PcTypesStep, ListTypesStep, FreshStep
<1> QED BY <1>1, <1>2, PTL DEF Spec

-----------------------------------------------------------------------------

\* While the pointer stays, all that is gathered is of the bank it points at.
OneBankInv ==
    ~switched =>
        /\ pc \in {"count", "meseta"} => ptr = bankPtr
        /\ pc = "items" => \A k \in DOMAIN addresses : addresses[k][1] = bankPtr
        /\ pc \in {"items", "meseta", "arrange", "done"} =>
             \A item \in Range(made) : BankOf(item) = bankPtr
        /\ pc \in {"arrange", "done"} /\ bankPtr # NoBank =>
             \E item \in Range(made) : IsMeseta(item)

\* Appending adds one element.
LEMMA AppendRange ==
    ASSUME NEW S, NEW s \in Seq(S), NEW e
    PROVE  Range(Append(s, e)) = Range(s) \cup {e}
<1>1. /\ Len(Append(s, e)) = Len(s) + 1
      /\ \A k \in 1 .. Len(s) : Append(s, e)[k] = s[k]
      /\ Append(s, e)[Len(s) + 1] = e
      /\ DOMAIN s = 1 .. Len(s) /\ DOMAIN Append(s, e) = 1 .. Len(s) + 1
  OBVIOUS
<1> QED BY <1>1 DEF Range

LEMMA OneBankStep ==
    TypeOK /\ FreshInv /\ OneBankInv /\ [Next]_vars => OneBankInv'
<1> SUFFICES ASSUME TypeOK, FreshInv, OneBankInv, [Next]_vars, ~switched'
             PROVE  OneBankInv'
  BY DEF OneBankInv
<1>a. made \in Seq(MadeItems \cup Mesetas) /\ addresses \in Seq(Places)
  BY DEF TypeOK
<1>1. CASE Start
  BY <1>1 DEF Start, OneBankInv
<1>2. CASE ReadPtr
  <2>1. Range(made) = {} /\ DOMAIN addresses = {}
    BY <1>2 DEF ReadPtr, FreshInv, Range
  <2> QED BY <1>2, <2>1 DEF ReadPtr, OneBankInv, gameVars
<1>3. CASE ReadCount
  <2>1. Range(made) = {}
    BY <1>3 DEF ReadCount, FreshInv, Range
  <2>2. \A k \in DOMAIN addresses' : addresses'[k][1] = ptr
    BY <1>3 DEF ReadCount
  <2> QED BY <1>3, <2>1, <2>2 DEF ReadCount, OneBankInv, gameVars, historyVars
<1>4. CASE ReadItem
  <2> DEFINE place == addresses[Len(made) + 1]
             item  == ItemAt(place, bank[place[1]].codes[place[2]])
  <2>1. Len(made) + 1 \in DOMAIN addresses
    BY <1>4, <1>a DEF ReadItem
  <2>2. BankOf(item) = place[1]
    BY KindsDiffer
  <2>3. made' = Append(made, item)
    BY <1>4 DEF ReadItem
  <2> HIDE DEF item
  <2>4. Range(made') = Range(made) \cup {item}
    BY <2>3, <1>a, AppendRange
  <2> QED
    BY <1>4, <2>1, <2>2, <2>4 DEF ReadItem, OneBankInv, gameVars, historyVars
<1>5. CASE ReadPtrAgain
  BY <1>5 DEF ReadPtrAgain, OneBankInv, gameVars, historyVars
<1>6. CASE ReadMeseta
  <2> DEFINE item == MesetaOf(ptr, bank[ptr].meseta)
  <2>1. IsMeseta(item) /\ BankOf(item) = ptr
    BY KindsDiffer
  <2>2. made' = Append(made, item)
    BY <1>6 DEF ReadMeseta
  <2> HIDE DEF item
  <2>3. Range(made') = Range(made) \cup {item}
    BY <2>2, <1>a, AppendRange
  <2> QED BY <1>6, <2>1, <2>3 DEF ReadMeseta, OneBankInv, gameVars, historyVars
<1>7. CASE Arrange
  <2>1. Range(made') = Range(made)
    BY <1>7, <1>a, SortElements DEF Arrange
  <2> QED BY <1>7, <2>1 DEF Arrange, OneBankInv, gameVars, historyVars
<1>8. CASE Fail
  BY <1>8 DEF Fail, OneBankInv
<1>9. CASE Game
  <2>1. UNCHANGED <<pc, ptr, addresses, made, bankPtr, switched>>
    BY <1>9
    DEF Game, SwitchBank, Deposit, Withdraw, MoveMeseta, GameStep, readVars
  <2> QED BY <2>1 DEF OneBankInv
<1>10. CASE UNCHANGED vars
  BY <1>10 DEF vars, gameVars, readVars, historyVars, OneBankInv
<1> QED
  BY <1>1, <1>2, <1>3, <1>4, <1>5, <1>6, <1>7, <1>8, <1>9, <1>10 DEF Next, Refresh

\* Items and Meseta shown together are of one bank, unless the game changed the
\* bank between the two readings of its pointer.
THEOREM OneBankCorrect == Spec => []OneBank
<1>1. Init => FreshInv /\ OneBankInv
  BY DEF Init, FreshInv, OneBankInv
<1>2. TypeOK /\ OneBankInv => OneBank
  <2> SUFFICES ASSUME TypeOK, OneBankInv, pc = "done", ~switched,
                      NEW k \in DOMAIN made
               PROVE  /\ BankOf(made[k]) = bankPtr
                      /\ \E j \in DOMAIN made : IsMeseta(made[j])
    BY DEF OneBank
  <2>1. BankOf(made[k]) = bankPtr
    BY DEF OneBankInv, Range
  <2>2. made[k] \in MadeItems \cup Mesetas
    BY DEF TypeOK
  <2>3. BankOf(made[k]) \in Banks
    BY <2>2 DEF BankOf, IsMeseta, MadeItems, Mesetas, Places
  <2>4. bankPtr # NoBank
    BY <2>1, <2>3, BanksAssumption
  <2> QED BY <2>1, <2>4 DEF OneBankInv, Range
<1> QED BY <1>1, <1>2, FreshStep, OneBankStep, TypeCorrect, PTL DEF Spec

-----------------------------------------------------------------------------

\* The items made so far are those of the first places.
MadeSoFar(b) == /\ Len(made) <= bank[b].count
                /\ \A k \in 1 .. Len(made) :
                     made[k] = ItemAt(<<b, k>>, bank[b].codes[k])

\* In a bank that has stood still, what is gathered after each read.
QuietInv ==
    quiet =>
        /\ pc \in {"count", "items", "meseta"} => ptr = bankPtr
        /\ pc = "items" /\ ptr # NoBank =>
             /\ addresses = [k \in 1 .. bank[ptr].count |-> <<ptr, k>>]
             /\ MadeSoFar(ptr)
        /\ pc = "meseta" => MadeSoFar(ptr) /\ Len(made) = bank[ptr].count
        /\ pc = "arrange" /\ bankPtr # NoBank =>
             /\ Range(made) = Contents(bankPtr)
             /\ Len(made) = bank[bankPtr].count + 1
        /\ QuietBank

LEMMA QuietStep ==
    TypeOK /\ FreshInv /\ QuietInv /\ [Next]_vars => QuietInv'
<1> SUFFICES ASSUME TypeOK, FreshInv, QuietInv, [Next]_vars, quiet'
             PROVE  QuietInv'
  BY DEF QuietInv
<1>a. /\ made \in Seq(MadeItems \cup Mesetas) /\ addresses \in Seq(Places)
      /\ Len(made) \in Nat
  BY DEF TypeOK
<1>b. ASSUME ptr \in Banks PROVE bank[ptr].count \in Nat
  BY <1>b, CountAssumption DEF TypeOK, BankMemory
<1>1. CASE Start
  BY <1>1 DEF Start, QuietInv, QuietBank
<1>2. CASE ReadPtr
  BY <1>2, BanksAssumption DEF ReadPtr, QuietInv, QuietBank, gameVars
<1>3. CASE ReadCount
  <2>1. ptr \in Banks /\ made' = <<>>
    BY <1>3 DEF ReadCount, FreshInv, TypeOK
  <2>2. Len(made') = 0
    BY <2>1
  <2>3. MadeSoFar(ptr)'
    BY <1>3, <2>1, <2>2, <1>b DEF MadeSoFar, ReadCount, gameVars
  <2> QED
    BY <1>3, <2>3 DEF ReadCount, QuietInv, QuietBank, gameVars, historyVars
<1>4. CASE ReadItem
  <2> DEFINE place == addresses[Len(made) + 1]
             item  == ItemAt(place, bank[place[1]].codes[place[2]])
  <2>0. Len(made) + 1 \in 1 .. Len(addresses)
    BY <1>4, <1>a DEF ReadItem
  <2>1. place \in Places
    BY <2>0, <1>a
  <2>2. /\ pc = "items" /\ ptr = bankPtr /\ quiet
        /\ made' = Append(made, item)
        /\ UNCHANGED <<bankPtr, bank, pc, ptr, addresses, quiet>>
    BY <1>4 DEF ReadItem, QuietInv, gameVars, historyVars
  <2>3. CASE ptr = NoBank
    BY <2>2, <2>3 DEF QuietInv, QuietBank
  <2>4. CASE ptr # NoBank
    <3>1. /\ addresses = [k \in 1 .. bank[ptr].count |-> <<ptr, k>>]
          /\ MadeSoFar(ptr)
      BY <2>2, <2>4 DEF QuietInv
    <3>2. ptr \in Banks /\ bank[ptr].count \in Nat
      BY <2>4, <1>b DEF TypeOK, Pointers
    <3>3. Len(addresses) = bank[ptr].count
      BY <3>1, <3>2
    <3>4. place = <<ptr, Len(made) + 1>>
      BY <3>1, <3>3, <2>0
    <3>5. item = ItemAt(<<ptr, Len(made) + 1>>, bank[ptr].codes[Len(made) + 1])
      BY <3>4
    <3> HIDE DEF place, item
    <3>6. /\ Len(made') = Len(made) + 1
          /\ \A k \in 1 .. Len(made) : made'[k] = made[k]
          /\ made'[Len(made) + 1] = item
      BY <2>2, <1>a
    <3>7. \A k \in 1 .. Len(made') : k \in 1 .. Len(made) \/ k = Len(made) + 1
      BY <3>6, <1>a
    <3>8. \A k \in 1 .. Len(made') :
            made'[k] = ItemAt(<<ptr, k>>, bank[ptr].codes[k])
      BY <3>1, <3>5, <3>6, <3>7 DEF MadeSoFar
    <3>9. Len(made') <= bank[ptr].count
      BY <2>0, <3>3, <3>6
    <3>10. MadeSoFar(ptr)'
      BY <3>8, <3>9, <2>2 DEF MadeSoFar
    <3> QED BY <2>2, <3>1, <3>10 DEF QuietInv, QuietBank
  <2> QED BY <2>3, <2>4
<1>5. CASE ReadPtrAgain
  <2>1. /\ pc = "items" /\ Len(made) = Len(addresses) /\ ptr = bankPtr
        /\ ptr' = ptr /\ pc' = IF bankPtr = NoBank THEN "arrange" ELSE "meseta"
        /\ UNCHANGED <<bankPtr, bank, made, quiet>>
    BY <1>5 DEF ReadPtrAgain, QuietInv, gameVars, historyVars
  <2>2. CASE ptr = NoBank
    BY <2>1, <2>2 DEF QuietInv, QuietBank
  <2>3. CASE ptr # NoBank
    <3>1. /\ addresses = [k \in 1 .. bank[ptr].count |-> <<ptr, k>>]
          /\ MadeSoFar(ptr)
      BY <2>1, <2>3 DEF QuietInv
    <3>2. Len(made) = bank[ptr].count
      BY <2>1, <2>3, <3>1, <1>b DEF TypeOK, Pointers
    <3>3. MadeSoFar(ptr)' /\ Len(made)' = bank'[ptr'].count
      BY <2>1, <3>1, <3>2 DEF MadeSoFar
    <3> QED BY <2>1, <2>3, <3>3 DEF QuietInv, QuietBank
  <2> QED BY <2>2, <2>3
<1>6. CASE ReadMeseta
  <2> DEFINE item == MesetaOf(ptr, bank[ptr].meseta)
  <2>1. /\ pc = "meseta" /\ ptr = bankPtr /\ pc' = "arrange"
        /\ MadeSoFar(ptr) /\ Len(made) = bank[ptr].count
        /\ made' = Append(made, item)
        /\ UNCHANGED <<bankPtr, bank>>
    BY <1>6 DEF ReadMeseta, QuietInv, gameVars, historyVars
  <2>2. Range(made) = {ItemAt(<<ptr, k>>, bank[ptr].codes[k]) :
                         k \in 1 .. bank[ptr].count}
    <3>1. DOMAIN made = 1 .. bank[ptr].count
      BY <2>1, <1>a
    <3> QED BY <2>1, <3>1 DEF MadeSoFar, Range
  <2>3. Contents(ptr) = Range(made) \cup {item}
    BY <2>2 DEF Contents
  <2> HIDE DEF item
  <2>4. Range(made') = Range(made) \cup {item} /\ Len(made') = Len(made) + 1
    BY <2>1, <1>a, AppendRange
  <2>5. Contents(bankPtr)' = Contents(ptr)
    BY <2>1 DEF Contents
  <2> QED BY <2>1, <2>3, <2>4, <2>5 DEF QuietInv, QuietBank
<1>7. CASE Arrange
  <2>1. /\ Range(made') = Range(made) /\ Len(made') = Len(made) /\ Sorted(made')
    BY <1>7, <1>a, SortElements DEF Arrange
  <2>2. /\ pc = "arrange" /\ pc' = "done" /\ header' = Len(made) - 1 /\ quiet
        /\ UNCHANGED <<bankPtr, bank>>
    BY <1>7 DEF Arrange, gameVars, historyVars
  <2>3. CASE bankPtr = NoBank
    BY <2>2, <2>3 DEF QuietInv, QuietBank
  <2>4. CASE bankPtr # NoBank
    <3>1. /\ Range(made) = Contents(bankPtr)
          /\ Len(made) = bank[bankPtr].count + 1
      BY <2>2, <2>4 DEF QuietInv
    <3>2. bank[bankPtr].count \in Nat
      BY <2>4, CountAssumption DEF TypeOK, Pointers, BankMemory
    <3>3. Contents(bankPtr)' = Contents(bankPtr)
      BY <2>2 DEF Contents
    <3> QED BY <2>1, <2>2, <3>1, <3>2, <3>3 DEF QuietInv, QuietBank
  <2> QED BY <2>3, <2>4
<1>8. CASE Fail
  BY <1>8 DEF Fail, QuietInv, QuietBank
<1>9. CASE Game
  BY <1>9 DEF Game, SwitchBank, Deposit, Withdraw, MoveMeseta, GameStep
<1>10. CASE UNCHANGED vars
  BY <1>10
  DEF vars, gameVars, readVars, historyVars, QuietInv, QuietBank, MadeSoFar,
      Contents
<1> QED
  BY <1>1, <1>2, <1>3, <1>4, <1>5, <1>6, <1>7, <1>8, <1>9, <1>10 DEF Next, Refresh

\* While the bank stands still the refresh lists it exactly.
THEOREM QuietBankCorrect == Spec => []QuietBank
<1>1. Init => FreshInv /\ QuietInv
  BY DEF Init, FreshInv, QuietInv
<1>2. QuietInv => QuietBank
  BY DEF QuietInv, QuietBank
<1> QED BY <1>1, <1>2, FreshStep, QuietStep, TypeCorrect, PTL DEF Spec

-----------------------------------------------------------------------------
(* Refinement.                                                             *)

PlacesOf(items) == {item.at : item \in items}

\* Whatever the game does, the items made so far are those of the first places
\* counted, and then of all of them; they are as the bank has them if nothing
\* changed.
ReadInv ==
    /\ pc \in {"items", "meseta"} =>
         \A k \in 1 .. Len(made) : ~IsMeseta(made[k]) /\ made[k].at = addresses[k]
    /\ pc = "meseta" => Len(made) = Len(addresses)
    /\ pc = "arrange" => PlacesOf(Loaded(made)) = Range(addresses)
    /\ quiet /\ pc \in {"items", "meseta", "arrange"} =>
         /\ addresses = Due
         /\ \A item \in Loaded(made) : item.code = CodeAt(item.at)

\* An item made of each place counted.
LEMMA AllLoaded ==
    ASSUME NEW A, NEW B, NEW list \in Seq(A), NEW addrs \in Seq(B),
           Len(list) = Len(addrs),
           \A k \in 1 .. Len(list) : ~IsMeseta(list[k]) /\ list[k].at = addrs[k]
    PROVE  PlacesOf(Loaded(list)) = Range(addrs)
<1>1. DOMAIN list = 1 .. Len(list) /\ DOMAIN addrs = 1 .. Len(list)
  OBVIOUS
<1>2. Loaded(list) = Range(list)
  BY <1>1 DEF Loaded, Range
<1> QED BY <1>1, <1>2 DEF PlacesOf, Range

LEMMA ReadStep ==
    TypeOK /\ FreshInv /\ QuietInv /\ ReadInv /\ [Next]_vars => ReadInv'
<1> SUFFICES ASSUME TypeOK, FreshInv, QuietInv, ReadInv, [Next]_vars
             PROVE  ReadInv'
  OBVIOUS
<1>a. /\ made \in Seq(MadeItems \cup Mesetas) /\ addresses \in Seq(Places)
      /\ DOMAIN made = 1 .. Len(made) /\ Len(made) \in Nat
  BY DEF TypeOK
<1>1. CASE Start
  BY <1>1 DEF Start, ReadInv
<1>2. CASE ReadPtr
  <2>1. /\ made' = <<>> /\ addresses' = <<>> /\ pc' \in {"items", "count"}
        /\ pc' = "items" => Due' = <<>>
    BY <1>2 DEF ReadPtr, FreshInv, gameVars, Due
  <2>2. Loaded(made') = {} /\ Len(made') = 0
    BY <2>1 DEF Loaded, Range
  <2> QED BY <2>1, <2>2 DEF ReadInv
<1>3. CASE ReadCount
  <2>1. made' = <<>> /\ pc' = "items" /\ ptr \in Banks /\ UNCHANGED gameVars
    BY <1>3 DEF ReadCount, FreshInv, TypeOK
  <2>2. Loaded(made') = {} /\ Len(made') = 0
    BY <2>1 DEF Loaded, Range
  <2>3. quiet' => addresses' = Due'
    BY <1>3, <2>1, BanksAssumption
    DEF ReadCount, QuietInv, Due, gameVars, historyVars
  <2> QED BY <2>1, <2>2, <2>3 DEF ReadInv
<1>4. CASE ReadItem
  <2> DEFINE place == addresses[Len(made) + 1]
             item  == ItemAt(place, bank[place[1]].codes[place[2]])
  <2>1. /\ pc = "items" /\ made' = Append(made, item)
        /\ UNCHANGED <<gameVars, pc, addresses, quiet>>
    BY <1>4 DEF ReadItem, historyVars
  <2>2. ~IsMeseta(item) /\ item.at = place /\ item.code = CodeAt(place)
    BY KindsDiffer DEF ItemAt, CodeAt
  <2> HIDE DEF item
  <2>3. /\ Len(made') = Len(made) + 1
        /\ \A k \in 1 .. Len(made) : made'[k] = made[k]
        /\ made'[Len(made) + 1] = item
        /\ Range(made') = Range(made) \cup {item}
    BY <1>a, <2>1, AppendRange
  <2>4. \A k \in 1 .. Len(made') : k \in 1 .. Len(made) \/ k = Len(made) + 1
    BY <1>a, <2>3
  <2>5. \A k \in 1 .. Len(made') : ~IsMeseta(made'[k]) /\ made'[k].at = addresses[k]
    BY <2>1, <2>2, <2>3, <2>4 DEF ReadInv
  <2>6. Loaded(made') = Loaded(made) \cup {item}
    BY <2>2, <2>3 DEF Loaded
  <2>7. Due' = Due /\ \A p : CodeAt(p)' = CodeAt(p)
    BY <2>1 DEF gameVars, Due, CodeAt
  <2>8. quiet' => \A i \in Loaded(made') : i.code = CodeAt(i.at)
    BY <2>1, <2>2, <2>6 DEF ReadInv
  <2> QED BY <2>1, <2>5, <2>7, <2>8 DEF ReadInv, CodeAt, gameVars
<1>5. CASE ReadPtrAgain
  <2>1. /\ pc = "items" /\ Len(made) = Len(addresses)
        /\ pc' \in {"arrange", "meseta"}
        /\ UNCHANGED <<gameVars, addresses, made, quiet>>
    BY <1>5 DEF ReadPtrAgain, historyVars
  <2>2. PlacesOf(Loaded(made)) = Range(addresses)
    BY <1>a, <2>1, AllLoaded DEF ReadInv
  <2> QED
    BY <2>1, <2>2 DEF ReadInv, PlacesOf, Loaded, Range, Due, CodeAt, gameVars
<1>6. CASE ReadMeseta
  <2> DEFINE item == MesetaOf(ptr, bank[ptr].meseta)
  <2>1. /\ pc = "meseta" /\ pc' = "arrange" /\ made' = Append(made, item)
        /\ UNCHANGED <<gameVars, addresses, quiet>>
    BY <1>6 DEF ReadMeseta, historyVars
  <2>2. IsMeseta(item)
    BY KindsDiffer
  <2> HIDE DEF item
  <2>3. Range(made') = Range(made) \cup {item}
    BY <1>a, <2>1, AppendRange
  <2>4. Loaded(made') = Loaded(made)
    BY <2>2, <2>3 DEF Loaded
  <2>5. PlacesOf(Loaded(made)) = Range(addresses)
    BY <1>a, <2>1, AllLoaded DEF ReadInv
  <2> QED
    BY <2>1, <2>4, <2>5 DEF ReadInv, PlacesOf, Due, CodeAt, gameVars
<1>7. CASE Arrange \/ Fail
  BY <1>7 DEF Arrange, Fail, ReadInv
<1>8. CASE Game
  <2>1. quiet' = FALSE /\ UNCHANGED <<pc, addresses, made>>
    BY <1>8
    DEF Game, SwitchBank, Deposit, Withdraw, MoveMeseta, GameStep, readVars
  <2> QED BY <2>1 DEF ReadInv
<1>9. CASE UNCHANGED vars
  BY <1>9 DEF vars, gameVars, readVars, historyVars, ReadInv, Due, CodeAt
<1> QED
  BY <1>1, <1>2, <1>3, <1>4, <1>5, <1>6, <1>7, <1>8, <1>9 DEF Next, Refresh

\* What the mapping shows.
ShownPointers == IF Phase \in {"loading", "done"} THEN addresses ELSE <<>>
ItemsOf(items) == {[addr |-> item.at, content |-> item.code] : item \in items}
ShownItems == IF Phase = "done" THEN ItemsOf(Loaded(made)) ELSE {}
Content == [place \in Places |-> CodeAt(place)]

\* The places that have been counted are due, if nothing changed.
LEMMA GatherStep ==
    ASSUME TypeOK', ReadInv', Phase = "gathering", Phase' = "loading",
           UNCHANGED <<gameVars, quiet>>
    PROVE  Rd!Gather
<1>1. addresses' \in Seq(Places)
  BY DEF TypeOK
<1>2. ShownPointers' = addresses' /\ ShownItems = {} /\ ShownItems' = {}
  BY DEF ShownPointers, ShownItems
<1>3. Due' = Due /\ Content' = Content
  BY DEF gameVars, Due, Content, CodeAt
<1>4. ASSUME quiet PROVE addresses' = Due
  BY <1>3, <1>4 DEF ReadInv, Phase, TypeOK
<1> QED
  BY <1>1, <1>2, <1>3, <1>4
  DEF Rd!Gather, ShownPointers, ShownItems, ItemsOf, Content

\* The items that are sorted are those of the places counted; by their codes, if
\* nothing changed.
LEMMA LoadStep ==
    ASSUME TypeOK, ReadInv, Arrange
    PROVE  Rd!Load
<1>a. made \in Seq(MadeItems \cup Mesetas) /\ addresses \in Seq(Places)
  BY DEF TypeOK
<1>1. /\ pc = "arrange" /\ pc' = "done"
      /\ UNCHANGED <<gameVars, addresses, quiet>>
      /\ PlacesOf(Loaded(made)) = Range(addresses)
      /\ quiet => \A item \in Loaded(made) : item.code = CodeAt(item.at)
  BY DEF Arrange, ReadInv, historyVars
<1>2. Range(made') = Range(made)
  BY <1>a, SortElements DEF Arrange
<1>3. Loaded(made') = Loaded(made)
  BY <1>2 DEF Loaded
<1>4. Range(addresses) \subseteq Places
  BY <1>a DEF Range
<1>5. PICK items : items = Loaded(made)
  OBVIOUS
<1>6. {item.addr : item \in ItemsOf(items)} = Range(addresses)
  <2>1. ASSUME NEW r \in ItemsOf(items) PROVE \E item \in items : r.addr = item.at
    BY DEF ItemsOf
  <2>2. ASSUME NEW item \in items PROVE \E r \in ItemsOf(items) : r.addr = item.at
    <3>1. [addr |-> item.at, content |-> item.code] \in ItemsOf(items)
      BY DEF ItemsOf
    <3> QED BY <3>1
  <2>3. {r.addr : r \in ItemsOf(items)} = PlacesOf(items)
    BY <2>1, <2>2 DEF PlacesOf
  <2> QED BY <1>1, <1>5, <2>3
<1>7. ASSUME quiet
      PROVE  ItemsOf(items) = {[addr |-> a, content |-> Content[a]] :
                                 a \in Range(addresses)}
  <2>1. ASSUME NEW item \in items
        PROVE  item.at \in Range(addresses) /\ item.code = Content[item.at]
    BY <1>1, <1>4, <1>5, <1>7 DEF PlacesOf, Content
  <2>2. ASSUME NEW a \in Range(addresses)
        PROVE  \E item \in items : item.at = a /\ item.code = Content[a]
    <3>1. \E item \in items : item.at = a
      BY <1>1, <1>5 DEF PlacesOf
    <3> QED BY <2>1, <3>1
  <2> QED BY <2>1, <2>2 DEF ItemsOf
<1>8. /\ ShownPointers = addresses /\ ShownPointers' = addresses
      /\ ShownItems' = ItemsOf(items) /\ ShownItems = {}
      /\ Phase = "loading" /\ Phase' = "done"
  BY <1>1, <1>3, <1>5 DEF ShownPointers, ShownItems, Phase
<1>9. Due' = Due /\ Content' = Content
  BY <1>1 DEF gameVars, Due, Content, CodeAt
<1>10. quiet => ItemsOf(items) = Rd!ItemsAt(Range(addresses))
  BY <1>7 DEF Rd!ItemsAt, Content
<1>11. Rd!Range(addresses) = Range(addresses)
  BY DEF Rd!Range, Range
<1> QED
  BY <1>1, <1>6, <1>8, <1>9, <1>10, <1>11
  DEF Rd!Load, ShownPointers, ShownItems, ItemsOf, Content

LEMMA ReadingStep ==
    TypeOK /\ TypeOK' /\ ReadInv /\ ReadInv' /\ [Next]_vars => [Rd!Next]_(Rd!vars)
<1> SUFFICES ASSUME TypeOK, TypeOK', ReadInv, ReadInv', [Next]_vars
             PROVE  [Rd!Next]_(Rd!vars)
  OBVIOUS
<1>a. ASSUME UNCHANGED gameVars PROVE Due' = Due /\ Content' = Content
  BY <1>a DEF gameVars, Due, Content, CodeAt
<1>b. ASSUME Phase' = Phase, Phase # "done", UNCHANGED <<gameVars, quiet, addresses>>
      PROVE  UNCHANGED Rd!vars
  BY <1>a, <1>b DEF Rd!vars, Content
<1>1. CASE Start
  BY <1>1, <1>a DEF Start, Rd!Begin, Rd!Next, Phase, Content
<1>2. CASE ReadPtr \/ ReadCount
  <2>1. /\ Phase = "gathering" /\ UNCHANGED <<gameVars, quiet>>
        /\ \/ Phase' = "loading"
           \/ Phase' = "gathering" /\ UNCHANGED addresses
    BY <1>2 DEF ReadPtr, ReadCount, Phase, historyVars
  <2> QED BY <1>b, <2>1, GatherStep DEF Rd!Next
<1>3. CASE ReadItem \/ ReadPtrAgain \/ ReadMeseta
  BY <1>3, <1>b DEF ReadItem, ReadPtrAgain, ReadMeseta, Phase, historyVars
<1>4. CASE Arrange
  BY <1>4, LoadStep DEF Rd!Next
<1>5. CASE Fail
  <2>1. /\ Phase \in {"gathering", "loading"} /\ Phase' = "idle"
        /\ UNCHANGED <<gameVars, quiet>>
    BY <1>5 DEF Fail, Phase, TypeOK, historyVars
  <2> QED BY <1>a, <2>1 DEF Rd!Next, Rd!GiveUp, Content
<1>6. CASE Game
  <2>1. quiet' = FALSE /\ UNCHANGED <<pc, addresses, made>>
    BY <1>6
    DEF Game, SwitchBank, Deposit, Withdraw, MoveMeseta, GameStep, readVars
  <2> QED BY <2>1 DEF Rd!Next, Rd!Change, Phase
<1>7. CASE UNCHANGED vars
  <2>1. UNCHANGED <<gameVars, quiet, pc, addresses, made>>
    BY <1>7 DEF vars, readVars, historyVars
  <2> QED BY <1>a, <2>1 DEF Rd!vars, Phase, Content
<1> QED
  BY <1>1, <1>2, <1>3, <1>4, <1>5, <1>6, <1>7 DEF Next, Refresh

\* The reads of the bank, which may be opened, closed or filled between any two
\* of them, implement the two calls the view makes.
THEOREM ReadingImplemented == Spec => ImplementsReading
<1>1. Init => FreshInv /\ QuietInv /\ ReadInv
  BY DEF Init, FreshInv, QuietInv, ReadInv
<1>2. Init => Rd!Init
  BY DEF Init, Rd!Init, Phase
<1> QED
  BY <1>1, <1>2, FreshStep, QuietStep, ReadStep, ReadingStep, TypeCorrect, PTL
  DEF Spec, Rd!Spec, ImplementsReading

============================================================================
