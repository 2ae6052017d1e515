-------------------------- MODULE ItemTableProofs --------------------------
(***************************************************************************)
(* Proofs about one refresh, for every number of items, players and codes: *)
(* whose items it may read while the table changes, and that it is exact   *)
(* while the table stands still.                                           *)
(***************************************************************************)
EXTENDS ItemTable, SequenceTheorems, FiniteSetTheorems, WellFoundedInduction,
        TLAPS

\* Turning a sequence round keeps its type, length and elements.
LEMMA ReverseProperties ==
    ASSUME NEW S, NEW s \in Seq(S)
    PROVE  /\ Reverse(s) \in Seq(S)
           /\ Len(Reverse(s)) = Len(s)
           /\ Range(Reverse(s)) = Range(s)
<1>1. /\ Reverse(s) \in Seq(S) /\ Len(Reverse(s)) = Len(s)
      /\ DOMAIN s = 1 .. Len(s) /\ DOMAIN Reverse(s) = 1 .. Len(s)
  BY DEF Reverse
<1>2. ASSUME NEW k \in 1 .. Len(s)
      PROVE  /\ Len(s) - k + 1 \in 1 .. Len(s)
             /\ Reverse(s)[k] = s[Len(s) - k + 1]
             /\ Reverse(s)[Len(s) - k + 1] = s[k]
  BY DEF Reverse
<1>3. ASSUME NEW e PROVE e \in Range(s) <=> e \in Range(Reverse(s))
  BY <1>1, <1>2 DEF Range
<1> QED BY <1>1, <1>3

\* Appending adds one element.
LEMMA AppendRange ==
    ASSUME NEW S, NEW s \in Seq(S), NEW e \in S
    PROVE  Range(Append(s, e)) = Range(s) \cup {e}
<1>1. /\ Len(Append(s, e)) = Len(s) + 1
      /\ \A k \in 1 .. Len(s) : Append(s, e)[k] = s[k]
      /\ Append(s, e)[Len(s) + 1] = e
      /\ DOMAIN s = 1 .. Len(s) /\ DOMAIN Append(s, e) = 1 .. Len(s) + 1
  OBVIOUS
<1> QED BY <1>1 DEF Range

-----------------------------------------------------------------------------

LEMMA TypeInit == Init => TypeOK
<1> SUFFICES ASSUME Init PROVE TypeOK
  OBVIOUS
<1>1. class \in Codes
  BY CodesAssumption DEF Init
<1>2. raw \in Seq(Items) /\ addresses \in Seq(Items) /\ made \in Seq(MadeItems)
  BY DEF Init
<1>3. count \in 0 .. MaxCount /\ n \in 0 .. MaxCount /\ next \in Nat \ {0}
  BY CountAssumption DEF Init
<1>4. /\ pc = "idle" /\ wanted \in Owners
      /\ slots \in [1 .. MaxCount -> Items]
      /\ owner \in [Items -> Owners] /\ code \in [Items -> Codes]
  BY DEF Init, Owners
<1>5. quiet \in BOOLEAN /\ held \subseteq Items /\ rewritten \subseteq Items
  BY DEF Init
<1> QED BY <1>1, <1>2, <1>3, <1>4, <1>5 DEF TypeOK

\* A step of the game changes nothing the refresh has read.
LEMMA GameTypes ==
    ASSUME TypeOK, GameStep,
           count' \in 0 .. MaxCount,
           slots' \in [1 .. MaxCount -> Items],
           owner' \in [Items -> Owners], code' \in [Items -> Codes],
           rewritten' \subseteq Items
    PROVE  TypeOK'
<1>1. quiet' \in BOOLEAN /\ held' \subseteq Items
  BY DEF GameStep, TypeOK
<1>2. UNCHANGED <<pc, readVars>>
  BY DEF GameStep
<1> QED BY <1>1, <1>2 DEF TypeOK, readVars

LEMMA TypeStep == TypeOK /\ [Next]_vars => TypeOK'
<1> SUFFICES ASSUME TypeOK, [Next]_vars PROVE TypeOK'
  OBVIOUS
<1> USE DEF TypeOK
<1>1. ASSUME NEW who \in {Me, NoOwner}, Start(who) PROVE TypeOK'
  BY <1>1, PlayersAssumption, CountAssumption
  DEF Start, Owners, HeldNow, gameVars
<1>2. CASE ReadCount
  BY <1>2 DEF ReadCount, gameVars, historyVars
<1>3. CASE ReadArray
  <2>1. raw' \in Seq(Items) /\ Len(raw') = n
    BY <1>3, CountAssumption DEF ReadArray
  <2> QED BY <1>3, <2>1 DEF ReadArray, gameVars, historyVars
<1>4. CASE ReadOwner
  <2>1. addresses' \in Seq(Items)
    BY <1>4 DEF ReadOwner
  <2> QED BY <1>4, <2>1 DEF ReadOwner, gameVars, historyVars
<1>5. CASE OwnersRead
  <2>1. addresses' \in Seq(Items)
    BY <1>5, ReverseProperties DEF OwnersRead
  <2> QED BY <1>5, <2>1 DEF OwnersRead, gameVars, historyVars
<1>6. CASE ReadClass
  BY <1>6 DEF ReadClass, gameVars, historyVars
<1>7. CASE ReadCode
  <2>1. [addr |-> addresses[next], class |-> class,
         code |-> code[addresses[next]]] \in MadeItems
    BY <1>7 DEF ReadCode, MadeItems
  <2>2. made' \in Seq(MadeItems)
    BY <1>7, <2>1 DEF ReadCode
  <2>3. /\ pc' = "class" /\ next' = next + 1
        /\ UNCHANGED <<gameVars, wanted, n, raw, addresses, class, historyVars>>
    BY <1>7 DEF ReadCode
  <2> QED BY <2>2, <2>3 DEF gameVars, historyVars
<1>8. CASE Arrange
  <2>1. PICK p \in Orders(Len(made)) :
          made' = [k \in 1 .. Len(made) |-> made[p[k]]]
    BY <1>8 DEF Arrange
  <2>2. made' \in Seq(MadeItems)
    BY <2>1 DEF Orders
  <2>3. /\ pc' = "done"
        /\ UNCHANGED <<gameVars, wanted, n, raw, next, addresses, class, historyVars>>
    BY <1>8 DEF Arrange
  <2> QED BY <2>2, <2>3 DEF gameVars, historyVars
<1>9. CASE Fail
  BY <1>9 DEF Fail, gameVars, readVars, historyVars
<1>10. ASSUME NEW item \in Items, NEW who \in Owners, NEW what \in Codes,
              Appear(item, who, what)
       PROVE  TypeOK'
  <2>1. /\ count' \in 0 .. MaxCount
        /\ slots' \in [1 .. MaxCount -> Items]
        /\ owner' \in [Items -> Owners] /\ code' \in [Items -> Codes]
        /\ rewritten' \subseteq Items
    BY <1>10, CountAssumption DEF Appear
  <2>2. GameStep
    BY <1>10 DEF Appear
  <2> QED BY <2>1, <2>2, GameTypes
<1>11. ASSUME NEW k \in 1 .. MaxCount, Disappear(k) PROVE TypeOK'
  <2>1. slots' \in [1 .. MaxCount -> Items]
    BY <1>11, CountAssumption DEF Disappear
  <2>2. count' \in 0 .. MaxCount
    BY <1>11, CountAssumption DEF Disappear
  <2>3. GameStep /\ UNCHANGED <<owner, code, rewritten>>
    BY <1>11 DEF Disappear
  <2> QED BY <2>1, <2>2, <2>3, GameTypes
<1>12. ASSUME NEW item \in Items, NEW who \in Owners, Transfer(item, who)
       PROVE  TypeOK'
  BY <1>12 DEF Transfer, GameStep, readVars
<1>13. CASE UNCHANGED vars
  BY <1>13 DEF vars, gameVars, readVars, historyVars
<1> QED
  BY <1>1, <1>2, <1>3, <1>4, <1>5, <1>6, <1>7, <1>8, <1>9, <1>10, <1>11, <1>12,
     <1>13
  DEF Next, Refresh, Game

\* Types; the pointers copied are as many as were counted.
THEOREM TypeCorrect == Spec => []TypeOK
BY TypeInit, TypeStep, PTL DEF Spec

-----------------------------------------------------------------------------

\* What has been gathered was the wanted owner's, and so is what still may be.
HeldInv ==
    /\ pc # "idle" => HeldNow(wanted) \subseteq held
    /\ Range(addresses) \subseteq held
    /\ OnlyHeld

\* The class was chosen by the present code, unless the item became another.
ClassInv ==
    /\ pc = "code" => \/ class = code[addresses[next]]
                      \/ addresses[next] \in rewritten
    /\ TornOnlyIfRewritten

\* A refresh starts from nothing.
FreshInv ==
    pc \in {"count", "array", "owner"} =>
        made = <<>> /\ (pc # "owner" => addresses = <<>> /\ next = 1)

\* The items among the first k pointers that are the wanted owner's.
Passed(k) == {item \in Items : /\ \E j \in 1 .. k : raw[j] = item
                               /\ owner[item] = wanted}

\* The items the view is to list.
Owned == {item \in Items : InTable(item) /\ owner[item] = wanted}

\* While the table stands still the refresh misses nothing, adds nothing, and
\* decodes each item by its own code.
QuietComplete ==
    pc = "done" /\ quiet =>
        /\ {made[k].addr : k \in DOMAIN made} = Owned
        /\ \A k \in DOMAIN made : /\ made[k].class = code[made[k].addr]
                                  /\ made[k].code  = code[made[k].addr]

\* In a table that has stood still, what is gathered after each read.
QuietInv ==
    quiet =>
        /\ pc \in {"array", "owner"} => n = count
        /\ pc = "owner" => /\ raw = [k \in 1 .. n |-> slots[n + 1 - k]]
                           /\ next <= n + 1
                           /\ Range(addresses) = Passed(next - 1)
        /\ pc \in {"class", "code"} =>
             /\ Range(addresses) = Owned
             /\ Len(made) = next - 1 /\ next <= Len(addresses) + 1
             /\ \A k \in DOMAIN made :
                  /\ made[k].addr = addresses[k]
                  /\ made[k].class = code[addresses[k]]
                  /\ made[k].code = code[addresses[k]]
        /\ pc = "code" => class = code[addresses[next]]
        /\ QuietComplete

\* The elements of the items made, in any order, are those that were made.
LEMMA ArrangeElements ==
    ASSUME TypeOK, Arrange
    PROVE  /\ \A k \in DOMAIN made' : \E j \in DOMAIN made : made'[k] = made[j]
           /\ \A j \in DOMAIN made : \E k \in DOMAIN made' : made'[k] = made[j]
           /\ Len(made') = Len(made)
<1>1. PICK p \in Orders(Len(made)) :
        made' = [k \in 1 .. Len(made) |-> made[p[k]]]
  BY DEF Arrange
<1>2. made \in Seq(MadeItems)
  BY DEF TypeOK
<1>3. DOMAIN made = 1 .. Len(made) /\ DOMAIN made' = 1 .. Len(made)
  BY <1>1, <1>2
<1>4. p \in [1 .. Len(made) -> 1 .. Len(made)]
      /\ \A j \in 1 .. Len(made) : \E k \in 1 .. Len(made) : p[k] = j
  BY DEF Orders
<1>5. Len(made') = Len(made)
  BY <1>1, <1>2
<1> QED BY <1>1, <1>3, <1>4, <1>5

\* Making an item adds one record and leaves the others alone.
LEMMA ReadCodeMakes ==
    ASSUME TypeOK, ReadCode
    PROVE  /\ addresses[next] \in Items /\ next \in DOMAIN addresses
           /\ Len(made') = Len(made) + 1 /\ Len(made) \in Nat
           /\ DOMAIN made = 1 .. Len(made) /\ DOMAIN made' = 1 .. Len(made) + 1
           /\ \A k \in 1 .. Len(made) : made'[k] = made[k]
           /\ made'[Len(made) + 1] = [addr |-> addresses[next], class |-> class,
                                      code |-> code[addresses[next]]]
<1>1. /\ made' = Append(made, [addr |-> addresses[next], class |-> class,
                               code |-> code[addresses[next]]])
      /\ next \in 1 .. Len(addresses)
  BY DEF ReadCode, TypeOK
<1>2. made \in Seq(MadeItems) /\ addresses \in Seq(Items)
  BY DEF TypeOK
<1>3. addresses[next] \in Items /\ next \in DOMAIN addresses
  BY <1>1, <1>2
<1> QED BY <1>1, <1>2, <1>3

LEMMA HeldInit == Init => HeldInv
BY DEF Init, HeldInv, OnlyHeld, Range

LEMMA HeldStep == TypeOK /\ HeldInv /\ [Next]_vars => HeldInv'
<1> SUFFICES ASSUME TypeOK, HeldInv, [Next]_vars PROVE HeldInv'
  OBVIOUS
<1>a. made \in Seq(MadeItems) /\ addresses \in Seq(Items)
  BY DEF TypeOK
<1> USE DEF HeldInv, OnlyHeld, HeldNow
<1>1. ASSUME NEW who \in {Me, NoOwner}, Start(who) PROVE HeldInv'
  BY <1>1 DEF Start, gameVars, Range
<1>2. CASE ReadCount \/ ReadArray \/ ReadClass \/ Fail
  BY <1>2 DEF ReadCount, ReadArray, ReadClass, Fail, gameVars, readVars, historyVars
<1>3. CASE ReadOwner
  <2>1. /\ owner[raw[next]] = wanted => raw[next] \in HeldNow(wanted)
        /\ raw[next] \in Items /\ pc # "idle"
    BY <1>3 DEF ReadOwner, TypeOK
  <2>2. Range(addresses') \subseteq held
    BY <1>3, <1>a, <2>1, AppendRange DEF ReadOwner
  <2> QED BY <1>3, <2>2 DEF ReadOwner, gameVars, historyVars
<1>4. CASE OwnersRead
  <2>1. Range(addresses') = Range(addresses)
    BY <1>4, <1>a, ReverseProperties DEF OwnersRead
  <2> QED BY <1>4, <2>1 DEF OwnersRead, gameVars, historyVars
<1>5. CASE ReadCode
  <2>1. addresses[next] \in held
    BY <1>5, ReadCodeMakes DEF Range
  <2>2. \A k \in DOMAIN made' : made'[k].addr \in held
    BY <1>5, <2>1, ReadCodeMakes
  <2> QED BY <1>5, <2>2 DEF ReadCode, gameVars, historyVars
<1>6. CASE Arrange
  <2>1. \A k \in DOMAIN made' : made'[k].addr \in held
    BY <1>6, ArrangeElements
  <2> QED BY <1>6, <2>1 DEF Arrange, gameVars, historyVars
<1>7. ASSUME GameStep, Range(addresses) \subseteq held, OnlyHeld PROVE HeldInv'
  BY <1>7 DEF GameStep, readVars
<1>8. CASE Game
  BY <1>7, <1>8 DEF Game, Appear, Disappear, Transfer
<1>9. CASE UNCHANGED vars
  BY <1>9 DEF vars, gameVars, readVars, historyVars
<1> QED
  BY <1>1, <1>2, <1>3, <1>4, <1>5, <1>6, <1>8, <1>9 DEF Next, Refresh

\* A refresh reads no item that was never the wanted owner's meanwhile,
\* whatever the game does between its reads.
THEOREM OwnersCorrect == Spec => []OnlyHeld
<1>1. HeldInv => OnlyHeld
  BY DEF HeldInv
<1> QED BY <1>1, HeldInit, HeldStep, TypeCorrect, PTL DEF Spec

-----------------------------------------------------------------------------

LEMMA ClassStep == TypeOK /\ ClassInv /\ [Next]_vars => ClassInv'
<1> SUFFICES ASSUME TypeOK, ClassInv, [Next]_vars PROVE ClassInv'
  OBVIOUS
<1> USE DEF ClassInv, TornOnlyIfRewritten
<1>1. ASSUME NEW who \in {Me, NoOwner}, Start(who) PROVE ClassInv'
  BY <1>1 DEF Start, gameVars
<1>2. CASE ReadCount \/ ReadArray \/ ReadOwner \/ OwnersRead \/ Fail
  BY <1>2
  DEF ReadCount, ReadArray, ReadOwner, OwnersRead, Fail, gameVars, readVars,
      historyVars
<1>3. CASE ReadClass
  BY <1>3 DEF ReadClass, gameVars, historyVars
<1>4. CASE ReadCode
  <2>1. /\ pc' = "class" /\ rewritten' = rewritten
        /\ class = code[addresses[next]] \/ addresses[next] \in rewritten
    BY <1>4 DEF ReadCode, historyVars
  <2> QED BY <1>4, <2>1, ReadCodeMakes
<1>5. CASE Arrange
  <2>1. pc' = "done" /\ rewritten' = rewritten
    BY <1>5 DEF Arrange, historyVars
  <2> QED BY <1>5, <2>1, ArrangeElements
<1>6. ASSUME NEW item \in Items, NEW who \in Owners, NEW what \in Codes,
             Appear(item, who, what)
      PROVE  ClassInv'
  <2>1. /\ UNCHANGED <<pc, next, addresses, class, made>>
        /\ rewritten' = rewritten \cup {item}
        /\ \A other \in Items \ {item} : code'[other] = code[other]
    BY <1>6 DEF Appear, GameStep, readVars, TypeOK
  <2>2. pc = "code" => addresses[next] \in Items
    BY DEF TypeOK
  <2> QED BY <2>1, <2>2
<1>7. ASSUME NEW k \in 1 .. MaxCount, Disappear(k) PROVE ClassInv'
  BY <1>7 DEF Disappear, GameStep, readVars
<1>8. ASSUME NEW item \in Items, NEW who \in Owners, Transfer(item, who)
      PROVE  ClassInv'
  BY <1>8 DEF Transfer, GameStep, readVars
<1>9. CASE UNCHANGED vars
  BY <1>9 DEF vars, gameVars, readVars, historyVars
<1> QED
  BY <1>1, <1>2, <1>3, <1>4, <1>5, <1>6, <1>7, <1>8, <1>9 DEF Next, Refresh, Game

\* An item has a class that is not its code's only if it was made another item
\* in the course of the refresh.
THEOREM ClassCorrect == Spec => []TornOnlyIfRewritten
<1>1. Init => ClassInv
  BY DEF Init, ClassInv, TornOnlyIfRewritten
<1>2. ClassInv => TornOnlyIfRewritten
  BY DEF ClassInv
<1> QED BY <1>1, <1>2, ClassStep, TypeCorrect, PTL DEF Spec

-----------------------------------------------------------------------------

LEMMA FreshStep == FreshInv /\ [Next]_vars => FreshInv'
<1> SUFFICES ASSUME FreshInv, [Next]_vars PROVE FreshInv'
  OBVIOUS
<1> USE DEF FreshInv
<1>1. CASE Refresh
  BY <1>1
  DEF Refresh, Start, ReadCount, ReadArray, ReadOwner, OwnersRead, ReadClass,
      ReadCode, Arrange, Fail
<1>2. CASE Game
  BY <1>2 DEF Game, Appear, Disappear, Transfer, GameStep, readVars
<1>3. CASE UNCHANGED vars
  BY <1>3 DEF vars, readVars
<1> QED BY <1>1, <1>2, <1>3 DEF Next

\* With all the pointers looked at, in whatever order, what passed is what is
\* owned.
LEMMA PassedAll ==
    ASSUME TypeOK, n = count, raw = [k \in 1 .. n |-> slots[n + 1 - k]]
    PROVE  Passed(n) = Owned
<1>1. n \in Nat
  BY CountAssumption DEF TypeOK
<1>2. ASSUME NEW item \in Items
      PROVE  (\E j \in 1 .. n : raw[j] = item) <=> InTable(item)
  <2>1. ASSUME NEW j \in 1 .. n, raw[j] = item PROVE InTable(item)
    <3>1. n + 1 - j \in 1 .. count /\ slots[n + 1 - j] = item
      BY <2>1, <1>1
    <3> QED BY <3>1 DEF InTable
  <2>2. ASSUME NEW k \in 1 .. count, slots[k] = item
        PROVE  \E j \in 1 .. n : raw[j] = item
    <3>1. /\ n + 1 - k \in 1 .. n /\ n + 1 - (n + 1 - k) = k
      BY <1>1
    <3>2. raw[n + 1 - k] = item
      BY <2>2, <3>1
    <3> QED BY <3>1, <3>2
  <2> QED BY <2>1, <2>2 DEF InTable
<1> QED BY <1>2 DEF Passed, Owned

LEMMA QuietStep ==
    TypeOK /\ FreshInv /\ QuietInv /\ [Next]_vars => QuietInv'
<1> SUFFICES ASSUME TypeOK, FreshInv, QuietInv, [Next]_vars, quiet'
             PROVE  QuietInv'
  BY DEF QuietInv
<1>a. /\ made \in Seq(MadeItems) /\ addresses \in Seq(Items)
      /\ n \in Nat /\ next \in Nat \ {0} /\ count \in Nat
  BY CountAssumption DEF TypeOK
<1>1. ASSUME NEW who \in {Me, NoOwner}, Start(who) PROVE QuietInv'
  BY <1>1 DEF Start, QuietInv, QuietComplete
<1>2. CASE ReadCount
  <2>1. /\ pc' \in {"array", "class"} /\ n' = count
        /\ pc' = "class" => count = 0
        /\ addresses = <<>> /\ made = <<>> /\ next = 1
        /\ UNCHANGED <<count, slots, owner, wanted, next, addresses, made>>
    BY <1>2 DEF ReadCount, FreshInv, gameVars
  <2>2. pc' = "class" => Owned' = {} /\ Range(addresses') = {}
    BY <2>1 DEF Owned, InTable, Range
  <2>3. Len(made') = next' - 1 /\ next' <= Len(addresses') + 1 /\ DOMAIN made' = {}
    BY <2>1
  <2> QED BY <2>1, <2>2, <2>3 DEF QuietInv, QuietComplete
<1>3. CASE ReadArray
  <2>1. /\ pc' = "owner" /\ n' = n /\ next' = 1 /\ n = count /\ count' = count
        /\ slots' = slots /\ addresses' = <<>>
        /\ raw' = [k \in 1 .. n |-> slots[n + 1 - k]]
    BY <1>3 DEF ReadArray, FreshInv, QuietInv, gameVars, historyVars
  <2>2. Range(addresses') = Passed(next - 1)'
    BY <2>1 DEF Range, Passed
  <2> QED BY <2>1, <2>2, <1>a DEF QuietInv, QuietComplete
<1>4. CASE ReadOwner
  <2>1. /\ pc = "owner" /\ next <= n /\ pc' = "owner" /\ next' = next + 1
        /\ UNCHANGED <<count, slots, owner, wanted, n, raw>>
        /\ n = count /\ raw = [k \in 1 .. n |-> slots[n + 1 - k]]
        /\ Range(addresses) = Passed(next - 1)
    BY <1>4 DEF ReadOwner, QuietInv, gameVars, historyVars
  <2>2. raw[next] \in Items
    BY <2>1 DEF TypeOK
  <2>3. Passed(next) = Passed(next - 1) \cup {item \in {raw[next]} :
                                                owner[item] = wanted}
    <3>1. \A j : j \in 1 .. next <=> (j \in 1 .. next - 1 \/ j = next)
      BY <1>a
    <3> QED BY <2>2, <3>1 DEF Passed
  <2>4. Range(addresses') = Passed(next)
    <3>1. addresses' = IF owner[raw[next]] = wanted
                       THEN Append(addresses, raw[next]) ELSE addresses
      BY <1>4 DEF ReadOwner
    <3>2. Range(Append(addresses, raw[next])) = Range(addresses) \cup {raw[next]}
      BY <1>a, <2>2, AppendRange
    <3>3. CASE owner[raw[next]] = wanted
      <4>1. {item \in {raw[next]} : owner[item] = wanted} = {raw[next]}
        BY <3>3
      <4> QED BY <2>1, <2>3, <3>1, <3>2, <3>3, <4>1
    <3>4. CASE owner[raw[next]] # wanted
      <4>1. {item \in {raw[next]} : owner[item] = wanted} = {}
        BY <3>4
      <4> QED BY <2>1, <2>3, <3>1, <3>4, <4>1
    <3> QED BY <3>3, <3>4
  <2>5. Passed(next - 1)' = Passed(next)
    <3>1. next' - 1 = next
      BY <2>1, <1>a
    <3> QED BY <2>1, <3>1 DEF Passed
  <2> QED BY <2>1, <2>4, <2>5, <1>a DEF QuietInv, QuietComplete
<1>5. CASE OwnersRead
  <2>1. /\ pc = "owner" /\ next > n /\ pc' = "class" /\ next' = 1
        /\ n = count /\ raw = [k \in 1 .. n |-> slots[n + 1 - k]]
        /\ next <= n + 1 /\ Range(addresses) = Passed(next - 1)
        /\ made' = <<>>
        /\ UNCHANGED <<count, slots, owner, wanted>>
    BY <1>5 DEF OwnersRead, QuietInv, FreshInv, gameVars, historyVars
  <2>2. Range(addresses') = Range(addresses) /\ Len(addresses') \in Nat
    BY <1>5, <1>a, ReverseProperties DEF OwnersRead
  <2>3. next - 1 = n
    BY <2>1, <1>a
  <2>4. Range(addresses') = Owned /\ Owned' = Owned
    BY <2>1, <2>2, <2>3, PassedAll DEF Owned, InTable
  <2>5. Len(made') = next' - 1 /\ next' <= Len(addresses') + 1 /\ DOMAIN made' = {}
    BY <2>1, <2>2
  <2> QED BY <2>1, <2>4, <2>5 DEF QuietInv, QuietComplete
<1>6. CASE ReadClass
  BY <1>6
  DEF ReadClass, QuietInv, QuietComplete, Owned, InTable, gameVars, historyVars
<1>7. CASE ReadCode
  <2>1. /\ pc' = "class" /\ next' = next + 1
        /\ Range(addresses) = Owned
        /\ Len(made) = next - 1 /\ next <= Len(addresses)
        /\ class = code[addresses[next]]
        /\ \A k \in DOMAIN made : /\ made[k].addr = addresses[k]
                                  /\ made[k].class = code[addresses[k]]
                                  /\ made[k].code = code[addresses[k]]
        /\ UNCHANGED <<count, slots, owner, code, wanted, addresses>>
    BY <1>7 DEF ReadCode, QuietInv, TypeOK, gameVars, historyVars
  <2>2. Owned' = Owned
    BY <2>1 DEF Owned, InTable
  <2>3. \A k \in DOMAIN made' : /\ made'[k].addr = addresses[k]
                                /\ made'[k].class = code[addresses[k]]
                                /\ made'[k].code = code[addresses[k]]
    <3>1. \A k \in DOMAIN made' : k \in DOMAIN made \/ k = next
      BY <1>7, <2>1, <1>a, ReadCodeMakes
    <3>2. /\ \A k \in DOMAIN made : made'[k] = made[k]
          /\ made'[next] = [addr |-> addresses[next], class |-> class,
                            code |-> code[addresses[next]]]
      BY <1>7, <2>1, <1>a, ReadCodeMakes
    <3> QED BY <2>1, <3>1, <3>2
  <2>4. Len(made') = next' - 1 /\ next' <= Len(addresses') + 1
    BY <1>7, <2>1, <1>a, ReadCodeMakes
  <2> QED BY <2>1, <2>2, <2>3, <2>4 DEF QuietInv, QuietComplete
<1>8. CASE Arrange
  <2>1. /\ pc' = "done" /\ Range(addresses) = Owned
        /\ Len(made) = Len(addresses)
        /\ \A k \in DOMAIN made : /\ made[k].addr = addresses[k]
                                  /\ made[k].class = code[addresses[k]]
                                  /\ made[k].code = code[addresses[k]]
        /\ UNCHANGED <<count, slots, owner, code, wanted>>
    BY <1>8, <1>a DEF Arrange, QuietInv, gameVars, historyVars
  <2>2. Owned' = Owned
    BY <2>1 DEF Owned, InTable
  <2>3. DOMAIN made = DOMAIN addresses
    BY <2>1, <1>a
  <2>4. {made'[k].addr : k \in DOMAIN made'} = Range(addresses)
    BY <1>8, <2>1, <2>3, ArrangeElements DEF Range
  <2>5. \A k \in DOMAIN made' : /\ made'[k].class = code'[made'[k].addr]
                                /\ made'[k].code = code'[made'[k].addr]
    <3> TAKE k \in DOMAIN made'
    <3>1. PICK j \in DOMAIN made : made'[k] = made[j]
      BY <1>8, ArrangeElements
    <3> QED BY <2>1, <3>1
  <2> QED BY <2>1, <2>2, <2>4, <2>5 DEF QuietInv, QuietComplete
<1>9. CASE Fail
  BY <1>9 DEF Fail, QuietInv, QuietComplete
<1>10. CASE Game
  BY <1>10 DEF Game, Appear, Disappear, Transfer, GameStep
<1>11. CASE UNCHANGED vars
  BY <1>11
  DEF vars, gameVars, readVars, historyVars, QuietInv, QuietComplete, Owned,
      InTable, Passed
<1> QED
  BY <1>1, <1>2, <1>3, <1>4, <1>5, <1>6, <1>7, <1>8, <1>9, <1>10, <1>11
  DEF Next, Refresh

\* In a table that stands still the refresh finds all the owner's items and no
\* others, each by its own code.
THEOREM QuietCorrect == Spec => []QuietComplete
<1>1. Init => FreshInv /\ QuietInv
  BY DEF Init, FreshInv, QuietInv
<1>2. QuietInv => QuietComplete
  BY DEF QuietInv, QuietComplete
<1> QED BY <1>1, <1>2, FreshStep, QuietStep, TypeCorrect, PTL DEF Spec

-----------------------------------------------------------------------------
(* The order of the list.  A place says for each address of a list at which *)
(* of some positions of a table it was found.                               *)

Places(list, table, positions) ==
    {place \in [1 .. Len(list) -> positions] :
        /\ \A k \in positions : \E i \in 1 .. Len(list) : place[i] = k
        /\ \A i \in 1 .. Len(list) : list[i] = table[place[i]]}

Rising(place, m) == \A i, j \in 1 .. m : i < j => place[i] < place[j]
Falling(place, m) == \A i, j \in 1 .. m : i < j => place[i] > place[j]

\* The first k pointers that lead to an item of the wanted owner.
PassedAt(k) == {j \in 1 .. k : owner[raw[j]] = wanted}

\* The pointers are read from the last position of the table to the first; the
\* floor is turned round before its items are made and after.
PlaceInv ==
    quiet =>
        /\ pc = "owner" => \E place \in Places(addresses, raw, PassedAt(next - 1)) :
                               Rising(place, Len(addresses))
        /\ pc \in {"class", "code"} =>
               \E place \in Places(addresses, slots, OwnedAt) :
                   IF wanted = NoOwner THEN Rising(place, Len(addresses))
                                       ELSE Falling(place, Len(addresses))
        /\ QuietOrder


LEMMA PlaceAdded ==
    ASSUME NEW I, NEW list \in Seq(I), NEW table, NEW P, NEW k \in Nat,
           \A p \in P : p \in Nat /\ p < k,
           NEW place \in Places(list, table, P), Rising(place, Len(list)),
           NEW e \in I, e = table[k]
    PROVE  \E q \in Places(Append(list, e), table, P \cup {k}) :
               Rising(q, Len(Append(list, e)))
<1>1. PICK m \in Nat : m = Len(list)
  OBVIOUS
<1>2. PICK long \in Seq(I) :
          /\ long = Append(list, e) /\ Len(long) = m + 1 /\ long[m + 1] = e
          /\ \A i \in 1 .. m : long[i] = list[i]
  <2>1. /\ Append(list, e) \in Seq(I) /\ Len(Append(list, e)) = m + 1
        /\ Append(list, e)[m + 1] = e
        /\ \A i \in 1 .. m : Append(list, e)[i] = list[i]
    BY <1>1, AppendProperties
  <2> QED BY <2>1, Zenon
<1>3. /\ place \in [1 .. m -> P]
      /\ \A p \in P : \E i \in 1 .. m : place[i] = p
      /\ \A i \in 1 .. m : list[i] = table[place[i]]
      /\ \A i, j \in 1 .. m : i < j => place[i] < place[j]
  BY <1>1 DEF Places, Rising
<1> DEFINE q == [i \in 1 .. m + 1 |-> IF i = m + 1 THEN k ELSE place[i]]
<1>4. \A i \in 1 .. m + 1 : i # m + 1 => i \in 1 .. m
  OBVIOUS
<1>5. /\ q \in [1 .. m + 1 -> P \cup {k}]
      /\ m + 1 \in 1 .. m + 1 /\ q[m + 1] = k
      /\ \A i \in 1 .. m : i \in 1 .. m + 1 /\ q[i] = place[i] /\ q[i] \in P
  BY <1>3, <1>4
<1> HIDE DEF q
<1>6. \A p \in P \cup {k} : \E i \in 1 .. m + 1 : q[i] = p
  BY <1>3, <1>5
<1>7. \A i \in 1 .. m + 1 : long[i] = table[q[i]]
  BY <1>2, <1>3, <1>4, <1>5
<1>8. ASSUME NEW i \in 1 .. m + 1, NEW j \in 1 .. m + 1, i < j
      PROVE  q[i] < q[j]
  <2>1. i \in 1 .. m
    BY <1>8
  <2>2. CASE j = m + 1
    BY <1>5, <2>1, <2>2
  <2>3. CASE j # m + 1
    <3>1. j \in 1 .. m
      BY <1>4, <2>3
    <3> QED BY <1>3, <1>5, <1>8, <2>1, <3>1
  <2> QED BY <2>2, <2>3
<1>9. q \in Places(long, table, P \cup {k})
  BY <1>2, <1>5, <1>6, <1>7 DEF Places
<1>10. Rising(q, Len(long))
  BY <1>2, <1>8 DEF Rising
<1> QED BY <1>2, <1>9, <1>10

\* The positions P of one list are the positions Q of the other, which is the
\* first from its end.
Mirrored(from, P, table, Q, size) ==
    /\ P \subseteq 1 .. size /\ Q \subseteq 1 .. size
    /\ \A j \in 1 .. size : from[j] = table[size + 1 - j]
    /\ \A j \in 1 .. size : j \in P <=> size + 1 - j \in Q

\* A pointer that is read later is found earlier in the table.
LEMMA PlaceInTable ==
    ASSUME NEW list, NEW m \in Nat, m = Len(list), NEW size \in Nat,
           NEW from, NEW table, NEW P, NEW Q, Mirrored(from, P, table, Q, size),
           NEW place \in Places(list, from, P), Rising(place, m)
    PROVE  \E q \in Places(list, table, Q) : Falling(q, m)
<1>0. /\ P \subseteq 1 .. size /\ Q \subseteq 1 .. size
      /\ \A j \in 1 .. size : from[j] = table[size + 1 - j]
      /\ \A j \in 1 .. size : j \in P <=> size + 1 - j \in Q
  BY DEF Mirrored
<1>1. /\ place \in [1 .. m -> P]
      /\ \A p \in P : \E i \in 1 .. m : place[i] = p
      /\ \A i \in 1 .. m : list[i] = from[place[i]]
      /\ \A i, j \in 1 .. m : i < j => place[i] < place[j]
  BY DEF Places, Rising
<1> DEFINE q == [i \in 1 .. m |-> size + 1 - place[i]]
<1>2. \A i \in 1 .. m : place[i] \in P /\ place[i] \in 1 .. size /\ q[i] = size + 1 - place[i]
  BY <1>0, <1>1
<1>3. \A i \in 1 .. m : q[i] \in Q
  BY <1>0, <1>2
<1>4. q \in [1 .. m -> Q]
  BY <1>3
<1> HIDE DEF q
<1>5. ASSUME NEW k \in Q PROVE \E i \in 1 .. m : q[i] = k
  <2>1. size + 1 - k \in 1 .. size /\ size + 1 - (size + 1 - k) = k
    BY <1>0
  <2>2. size + 1 - k \in P
    BY <1>0, <2>1
  <2>3. PICK i \in 1 .. m : place[i] = size + 1 - k
    BY <1>1, <2>2
  <2>4. q[i] = k
    BY <1>2, <2>1, <2>3
  <2> QED BY <2>4
<1>6. ASSUME NEW i \in 1 .. m PROVE list[i] = table[q[i]]
  <2>1. /\ list[i] = from[place[i]] /\ place[i] \in 1 .. size
        /\ q[i] = size + 1 - place[i]
    BY <1>1, <1>2
  <2>2. from[place[i]] = table[size + 1 - place[i]]
    BY <1>0, <2>1
  <2> QED BY <2>1, <2>2
<1>7. \A i, j \in 1 .. m : i < j => q[i] > q[j]
  BY <1>1, <1>2
<1> QED BY <1>4, <1>5, <1>6, <1>7 DEF Places, Falling

\* Turning the list round turns its places round.
LEMMA PlaceReversed ==
    ASSUME NEW I, NEW list \in Seq(I), NEW table, NEW Q, Q \subseteq Nat,
           NEW place \in Places(list, table, Q), Falling(place, Len(list))
    PROVE  \E q \in Places(Reverse(list), table, Q) :
               Rising(q, Len(Reverse(list)))
<1>1. PICK m \in Nat : m = Len(list)
  OBVIOUS
<1>2. PICK back : /\ back = Reverse(list) /\ Len(back) = m
                  /\ \A i \in 1 .. m : back[i] = list[m - i + 1]
  <2>1. Len(Reverse(list)) = m /\ \A i \in 1 .. m : Reverse(list)[i] = list[m - i + 1]
    BY <1>1, ReverseProperties DEF Reverse
  <2> QED BY <2>1, Zenon
<1>3. /\ place \in [1 .. m -> Q]
      /\ \A p \in Q : \E i \in 1 .. m : place[i] = p
      /\ \A i \in 1 .. m : list[i] = table[place[i]]
      /\ \A i, j \in 1 .. m : i < j => place[i] > place[j]
  BY <1>1 DEF Places, Falling
<1>4. \A i \in 1 .. m : m - i + 1 \in 1 .. m /\ m - (m - i + 1) + 1 = i
  OBVIOUS
<1> DEFINE q == [i \in 1 .. m |-> place[m - i + 1]]
<1>5. q \in [1 .. m -> Q] /\ \A i \in 1 .. m : q[i] = place[m - i + 1]
  BY <1>3, <1>4
<1> HIDE DEF q
<1>6. ASSUME NEW k \in Q PROVE \E i \in 1 .. m : q[i] = k
  <2>1. PICK i \in 1 .. m : place[i] = k
    BY <1>3
  <2>2. m - i + 1 \in 1 .. m /\ q[m - i + 1] = k
    BY <1>4, <1>5, <2>1
  <2> QED BY <2>2
<1>7. \A i \in 1 .. m : back[i] = table[q[i]]
  BY <1>2, <1>3, <1>4, <1>5
<1>8. ASSUME NEW i \in 1 .. m, NEW j \in 1 .. m, i < j PROVE q[i] < q[j]
  <2>1. /\ m - j + 1 \in 1 .. m /\ m - i + 1 \in 1 .. m
        /\ m - j + 1 < m - i + 1
    BY <1>8
  <2>2. place[m - j + 1] > place[m - i + 1]
    BY <1>3, <2>1
  <2>3. place[m - j + 1] \in Nat /\ place[m - i + 1] \in Nat
    BY <1>3, <2>1
  <2> QED BY <1>5, <2>2, <2>3
<1>9. q \in Places(back, table, Q)
  BY <1>2, <1>5, <1>6, <1>7 DEF Places
<1>10. Rising(q, Len(back))
  BY <1>2, <1>8 DEF Rising
<1> QED BY <1>2, <1>9, <1>10

\* An order puts no two items at one place.
LEMMA OrdersInjective ==
    ASSUME NEW m \in Nat, NEW p \in Orders(m)
    PROVE  \A i, j \in 1 .. m : i # j => p[i] # p[j]
<1>1. p \in Surjection(1 .. m, 1 .. m)
  BY DEF Orders, Surjection
<1>2. IsFiniteSet(1 .. m)
  BY FS_Interval
<1>3. p \in Injection(1 .. m, 1 .. m)
  BY <1>1, <1>2, FS_SurjSameCardinalityImpliesInj
<1> QED BY <1>3 DEF Injection, IsInjective

LEMMA PlaceNone ==
    ASSUME NEW table
    PROVE  \E place \in Places(<<>>, table, {}) : Rising(place, 0) /\ Falling(place, 0)
<1>1. PICK place : place \in [1 .. 0 -> {}]
  <2>1. 1 .. 0 = {}
    OBVIOUS
  <2>2. [i \in 1 .. 0 |-> i] \in [1 .. 0 -> {}]
    BY <2>1
  <2> QED BY <2>2
<1>2. Len(<<>>) = 0 /\ \A i \in 1 .. 0 : FALSE
  OBVIOUS
<1>3. place \in Places(<<>>, table, {})
  BY <1>1, <1>2 DEF Places
<1>4. Rising(place, 0) /\ Falling(place, 0)
  BY <1>2 DEF Rising, Falling
<1> QED BY <1>3, <1>4

LEMMA PlaceStep ==
    TypeOK /\ FreshInv /\ QuietInv /\ PlaceInv /\ [Next]_vars => PlaceInv'
<1> SUFFICES ASSUME TypeOK, FreshInv, QuietInv, PlaceInv, [Next]_vars, quiet'
             PROVE  PlaceInv'
  BY DEF PlaceInv
<1>a. /\ made \in Seq(MadeItems) /\ addresses \in Seq(Items)
      /\ n \in Nat /\ next \in Nat \ {0} /\ count \in Nat
  BY CountAssumption DEF TypeOK
<1>b. DOMAIN made = 1 .. Len(made)
  BY <1>a
<1>1. ASSUME NEW who \in {Me, NoOwner}, Start(who) PROVE PlaceInv'
  BY <1>1 DEF Start, PlaceInv, QuietOrder
<1>2. CASE ReadCount
  <2>1. /\ pc' \in {"array", "class"}
        /\ pc' = "class" => count = 0
        /\ addresses' = <<>> /\ count' = count
    BY <1>2 DEF ReadCount, FreshInv, gameVars
  <2>2. ASSUME pc' = "class"
        PROVE  \E place \in Places(addresses', slots', OwnedAt') :
                   IF wanted' = NoOwner THEN Rising(place, Len(addresses'))
                                        ELSE Falling(place, Len(addresses'))
    <3>1. OwnedAt' = {} /\ Len(addresses') = 0
      BY <2>1, <2>2 DEF OwnedAt
    <3> QED BY <2>1, <3>1, PlaceNone
  <2>3. QuietOrder' /\ pc' # "owner" /\ (pc' \in {"class", "code"} => pc' = "class")
    BY <2>1 DEF QuietOrder
  <2> QED BY <2>2, <2>3, Zenon DEF PlaceInv
<1>3. CASE ReadArray
  <2>1. pc' = "owner" /\ addresses' = <<>> /\ next' = 1
    BY <1>3 DEF ReadArray, FreshInv
  <2>2. PassedAt(next - 1)' = {} /\ Len(addresses') = 0
    BY <2>1 DEF PassedAt
  <2>3. \E place \in Places(addresses', raw', PassedAt(next - 1)') :
            Rising(place, Len(addresses'))
    BY <2>1, <2>2, PlaceNone
  <2> QED BY <2>1, <2>3 DEF PlaceInv, QuietOrder
<1>4. CASE ReadOwner
  <2>1. /\ pc = "owner" /\ pc' = "owner" /\ next <= n /\ next' = next + 1
        /\ UNCHANGED <<owner, wanted, raw>> /\ quiet
    BY <1>4 DEF ReadOwner, gameVars, historyVars
  <2>2. raw[next] \in Items
    BY <2>1 DEF TypeOK
  <2>3. PICK place \in Places(addresses, raw, PassedAt(next - 1)) :
            Rising(place, Len(addresses))
    BY <2>1 DEF PlaceInv
  <2>4. PassedAt(next - 1)' = PassedAt(next)
    <3>1. next' - 1 = next
      BY <1>a, <2>1
    <3> QED BY <2>1, <3>1 DEF PassedAt
  <2>5. \A j : j \in 1 .. next <=> (j \in 1 .. next - 1 \/ j = next)
    BY <1>a
  <2>6. \E q \in Places(addresses', raw, PassedAt(next)) :
            Rising(q, Len(addresses'))
    <3>1. CASE owner[raw[next]] = wanted
      <4>1. PassedAt(next) = PassedAt(next - 1) \cup {next}
        BY <2>5, <3>1 DEF PassedAt
      <4>2. addresses' = Append(addresses, raw[next])
        BY <1>4, <3>1 DEF ReadOwner
      <4>3. next \in Nat /\ \A p \in PassedAt(next - 1) : p \in Nat /\ p < next
        BY <1>a DEF PassedAt
      <4>4. \E q \in Places(Append(addresses, raw[next]), raw,
                            PassedAt(next - 1) \cup {next}) :
                Rising(q, Len(Append(addresses, raw[next])))
        BY <1>a, <2>2, <2>3, <4>3, PlaceAdded
      <4> QED BY <4>1, <4>2, <4>4
    <3>2. CASE owner[raw[next]] # wanted
      <4>1. PassedAt(next) = PassedAt(next - 1)
        BY <2>5, <3>2 DEF PassedAt
      <4>2. addresses' = addresses
        BY <1>4, <3>2 DEF ReadOwner
      <4> QED BY <2>3, <4>1, <4>2
    <3> QED BY <3>1, <3>2
  <2> QED BY <2>1, <2>4, <2>6 DEF PlaceInv, QuietOrder
<1>5. CASE OwnersRead
  <2>1. /\ pc = "owner" /\ pc' = "class" /\ next > n /\ quiet
        /\ n = count /\ raw = [k \in 1 .. n |-> slots[n + 1 - k]]
        /\ next <= n + 1 /\ UNCHANGED <<count, slots, owner, wanted>>
    BY <1>5 DEF OwnersRead, QuietInv, gameVars, historyVars
  <2>2. next - 1 = n
    BY <1>a, <2>1
  <2>3. PICK place \in Places(addresses, raw, PassedAt(n)) :
            Rising(place, Len(addresses))
    BY <2>1, <2>2 DEF PlaceInv
  <2>4. /\ PassedAt(n) \subseteq 1 .. n /\ OwnedAt \subseteq 1 .. n
        /\ \A j \in 1 .. n : raw[j] = slots[n + 1 - j]
        /\ \A j \in 1 .. n : j \in PassedAt(n) <=> n + 1 - j \in OwnedAt
    BY <1>a, <2>1 DEF PassedAt, OwnedAt
  <2>5. PICK q \in Places(addresses, slots, OwnedAt) : Falling(q, Len(addresses))
    <3>1. Len(addresses) \in Nat /\ n \in Nat
      BY <1>a, <2>1
    <3>2. Mirrored(raw, PassedAt(n), slots, OwnedAt, n)
      BY <2>4 DEF Mirrored
    <3> QED BY <2>3, <3>1, <3>2, PlaceInTable
  <2>6. \E place_ \in Places(addresses', slots, OwnedAt) :
            IF wanted = NoOwner THEN Rising(place_, Len(addresses'))
                                ELSE Falling(place_, Len(addresses'))
    <3>1. CASE wanted = NoOwner
      <4>1. addresses' = Reverse(addresses) /\ OwnedAt \subseteq Nat
        BY <1>5, <3>1 DEF OwnersRead, OwnedAt
      <4>2. \E t \in Places(Reverse(addresses), slots, OwnedAt) :
                Rising(t, Len(Reverse(addresses)))
        BY <1>a, <2>5, <4>1, PlaceReversed
      <4> QED BY <3>1, <4>1, <4>2
    <3>2. CASE wanted # NoOwner
      <4>1. addresses' = addresses
        BY <1>5, <3>2 DEF OwnersRead
      <4> QED BY <2>5, <3>2, <4>1
    <3> QED BY <3>1, <3>2
  <2>7. OwnedAt' = OwnedAt
    BY <2>1 DEF OwnedAt
  <2> QED BY <2>1, <2>6, <2>7 DEF PlaceInv, QuietOrder
<1>6. CASE ReadClass \/ ReadCode
  <2>1. /\ pc \in {"class", "code"} /\ pc' \in {"class", "code"} /\ quiet
        /\ UNCHANGED <<count, slots, owner, wanted, addresses>>
    BY <1>6 DEF ReadClass, ReadCode, gameVars, historyVars
  <2>2. OwnedAt' = OwnedAt
    BY <2>1 DEF OwnedAt
  <2> QED BY <2>1, <2>2 DEF PlaceInv, QuietOrder
<1>7. CASE Arrange
  <2>1. /\ pc = "class" /\ pc' = "done" /\ next > Len(addresses) /\ quiet
        /\ UNCHANGED <<count, slots, owner, wanted>>
        /\ Len(made) = next - 1 /\ next <= Len(addresses) + 1
        /\ \A k \in DOMAIN made : made[k].addr = addresses[k]
    BY <1>7 DEF Arrange, QuietInv, gameVars, historyVars
  <2>2. PICK m \in Nat : m = Len(made) /\ m = Len(addresses)
    <3>1. Len(made) \in Nat /\ Len(made) = Len(addresses)
      BY <1>a, <2>1
    <3> QED BY <3>1
  <2>3. PICK place \in Places(addresses, slots, OwnedAt) :
            IF wanted = NoOwner THEN Rising(place, m) ELSE Falling(place, m)
    BY <2>1, <2>2 DEF PlaceInv
  <2>4. /\ place \in [1 .. m -> OwnedAt]
        /\ \A k \in OwnedAt : \E i \in 1 .. m : place[i] = k
        /\ \A i \in 1 .. m : addresses[i] = slots[place[i]]
    BY <2>2 DEF Places
  <2>5. PICK p \in Orders(m) :
            /\ made' = [k \in 1 .. m |-> made[p[k]]]
            /\ IF wanted = NoOwner THEN \A k \in 1 .. m : p[k] = m + 1 - k
               ELSE Sorted(made')
    BY <1>7, <2>2 DEF Arrange
  <2>6. /\ p \in [1 .. m -> 1 .. m]
        /\ \A j \in 1 .. m : \E i \in 1 .. m : p[i] = j
    BY DEF Orders
  <2>7. /\ Len(made') = m
        /\ \A i \in 1 .. m : made'[i] = made[p[i]] /\ p[i] \in 1 .. m
    BY <2>5, <2>6
  <2> DEFINE q == [i \in 1 .. m |-> place[p[i]]]
  <2>8. q \in [1 .. m -> OwnedAt] /\ \A i \in 1 .. m : q[i] = place[p[i]]
    BY <2>4, <2>6
  <2> HIDE DEF q
  <2>9. ASSUME NEW k \in OwnedAt PROVE \E i \in 1 .. m : q[i] = k
    <3>1. PICK j \in 1 .. m : place[j] = k
      BY <2>4
    <3>2. PICK i \in 1 .. m : p[i] = j
      BY <2>6
    <3> QED BY <2>8, <3>1, <3>2
  <2>10. ASSUME NEW i \in 1 .. m PROVE made'[i].addr = slots[q[i]]
    <3>1. p[i] \in DOMAIN made
      <4>1. DOMAIN made = 1 .. m
        BY <1>b, <2>2
      <4> QED BY <2>7, <4>1
    <3>2. made[p[i]].addr = addresses[p[i]]
      BY <2>1, <3>1
    <3>3. addresses[p[i]] = slots[place[p[i]]]
      BY <2>4, <2>7
    <3> QED BY <2>7, <2>8, <3>2, <3>3
  <2>11. ASSUME NEW i \in 1 .. m, NEW j \in 1 .. m, i < j
         PROVE  IF wanted = NoOwner
                THEN q[i] > q[j]
                ELSE q[i] # q[j] /\ made'[i].code <= made'[j].code
    <3>1. CASE wanted = NoOwner
      <4>1. p[i] = m + 1 - i /\ p[j] = m + 1 - j
        BY <2>5, <3>1
      <4>2. p[i] \in 1 .. m /\ p[j] \in 1 .. m /\ p[j] < p[i]
        BY <2>11, <2>7, <4>1
      <4>3. place[p[j]] < place[p[i]]
        BY <2>3, <3>1, <4>2 DEF Rising
      <4>4. place[p[j]] \in Nat /\ place[p[i]] \in Nat
        BY <2>4, <4>2 DEF OwnedAt
      <4> QED BY <2>8, <3>1, <4>3, <4>4
    <3>2. CASE wanted # NoOwner
      <4>1. i # j
        BY <2>11
      <4>2. p[i] # p[j] /\ p[i] \in 1 .. m /\ p[j] \in 1 .. m
        BY <2>7, <4>1, OrdersInjective
      <4>3. Falling(place, m)
        BY <2>3, <3>2
      <4>4. place[p[i]] # place[p[j]]
        <5>1. p[i] < p[j] \/ p[j] < p[i]
          BY <4>2
        <5>2. place[p[j]] \in Nat /\ place[p[i]] \in Nat
          BY <2>4, <4>2 DEF OwnedAt
        <5> QED BY <4>2, <4>3, <5>1, <5>2 DEF Falling
      <4>5. made'[i].code <= made'[j].code
        BY <2>5, <2>7, <2>11, <3>2 DEF Sorted
      <4> QED BY <2>8, <3>2, <4>4, <4>5
    <3> QED BY <3>1, <3>2
  <2>12. OwnedAt' = OwnedAt
    BY <2>1 DEF OwnedAt
  <2>13. \E place_ \in [1 .. Len(made') -> OwnedAt'] :
            /\ \A k \in OwnedAt' : \E i \in 1 .. Len(made') : place_[i] = k
            /\ \A i \in 1 .. Len(made') : made'[i].addr = slots'[place_[i]]
            /\ \A i, j \in 1 .. Len(made') :
                 i < j => IF wanted' = NoOwner
                          THEN place_[i] > place_[j]
                          ELSE /\ place_[i] # place_[j]
                               /\ made'[i].code <= made'[j].code
    BY <2>1, <2>7, <2>8, <2>9, <2>10, <2>11, <2>12
  <2> QED BY <2>1, <2>13 DEF PlaceInv, QuietOrder
<1>8. CASE Fail
  BY <1>8 DEF Fail, PlaceInv, QuietOrder
<1>9. CASE Game
  BY <1>9 DEF Game, Appear, Disappear, Transfer, GameStep
<1>10. CASE UNCHANGED vars
  BY <1>10
  DEF vars, gameVars, readVars, historyVars, PlaceInv, QuietOrder, OwnedAt,
      PassedAt
<1> QED
  BY <1>1, <1>2, <1>3, <1>4, <1>5, <1>6, <1>7, <1>8, <1>9, <1>10
  DEF Next, Refresh

\* ... and it lists every position of the table that holds one once, the floor
\* from the last to the first and the inventory by code.
THEOREM OrderCorrect == Spec => []QuietOrder
<1>1. Init => FreshInv /\ QuietInv /\ PlaceInv
  BY DEF Init, FreshInv, QuietInv, PlaceInv
<1>2. PlaceInv => QuietOrder
  BY DEF PlaceInv, QuietOrder
<1> QED BY <1>1, <1>2, FreshStep, QuietStep, PlaceStep, TypeCorrect, PTL DEF Spec

-----------------------------------------------------------------------------
(* Refinement.                                                             *)

\* Positions that are listed in rising order are listed in one way only.
LEMMA RisingUnique ==
    ASSUME NEW m \in Nat, NEW P, P \subseteq Nat,
           NEW f \in Surjection(1 .. m, P), Rising(f, m),
           NEW g \in Surjection(1 .. m, P), Rising(g, m)
    PROVE  f = g
<1> DEFINE apart == {i \in 1 .. m : f[i] # g[i]}
<1>1. SUFFICES ASSUME apart # {} PROVE FALSE
  BY DEF Surjection
<1>2. PICK i \in apart : \A j \in apart : i <= j
  <2>1. apart \subseteq Nat
    OBVIOUS
  <2>2. PICK i \in apart : \A j \in apart : ~(<<j, i>> \in OpToRel(<, Nat))
    BY <1>1, <2>1, NatLessThanWellFounded, WFMin
  <2>3. \A j \in apart : ~(j < i)
    BY <2>1, <2>2, Zenon DEF OpToRel
  <2> QED BY <2>1, <2>3
<1>3. /\ i \in 1 .. m /\ f[i] # g[i]
      /\ \A j \in 1 .. m : j < i => f[j] = g[j]
  BY <1>2
<1> HIDE DEF apart
<1>4. /\ \A j \in 1 .. m : f[j] \in P /\ f[j] \in Nat /\ g[j] \in P /\ g[j] \in Nat
      /\ \A k \in P : \E j \in 1 .. m : f[j] = k
      /\ \A k \in P : \E j \in 1 .. m : g[j] = k
  BY DEF Surjection
<1>5. ASSUME NEW j \in 1 .. m
      PROVE  /\ i < j => f[i] < f[j] /\ g[i] < g[j]
             /\ j < i \/ j = i \/ i < j
  BY <1>3 DEF Rising
<1>6. CASE f[i] < g[i]
  <2>1. PICK j \in 1 .. m : g[j] = f[i]
    BY <1>3, <1>4
  <2>2. j < i
    BY <1>3, <1>4, <1>5, <1>6, <2>1
  <2>3. f[j] = f[i] /\ f[j] < f[i]
    BY <1>3, <2>1, <2>2 DEF Rising
  <2> QED BY <1>3, <1>4, <2>3
<1>7. CASE g[i] < f[i]
  <2>1. PICK j \in 1 .. m : f[j] = g[i]
    BY <1>3, <1>4
  <2>2. j < i
    BY <1>3, <1>4, <1>5, <1>7, <2>1
  <2>3. g[j] = g[i] /\ g[j] < g[i]
    BY <1>3, <2>1, <2>2 DEF Rising
  <2> QED BY <1>3, <1>4, <2>3
<1> QED BY <1>3, <1>4, <1>6, <1>7

\* So are positions listed in falling order.
LEMMA FallingUnique ==
    ASSUME NEW m \in Nat, NEW P, P \subseteq Nat,
           NEW f \in Surjection(1 .. m, P), Falling(f, m),
           NEW g \in Surjection(1 .. m, P), Falling(g, m)
    PROVE  f = g
<1> DEFINE Back(h) == [i \in 1 .. m |-> h[m + 1 - i]]
<1>1. \A i \in 1 .. m : m + 1 - i \in 1 .. m /\ m + 1 - (m + 1 - i) = i
  OBVIOUS
<1>2. ASSUME NEW h \in Surjection(1 .. m, P), Falling(h, m)
      PROVE  Back(h) \in Surjection(1 .. m, P) /\ Rising(Back(h), m)
  <2>1. h \in [1 .. m -> P] /\ \A k \in P : \E i \in 1 .. m : h[i] = k
    BY DEF Surjection
  <2>2. PICK b : b = Back(h)
    OBVIOUS
  <2>3. b \in [1 .. m -> P] /\ \A i \in 1 .. m : b[i] = h[m + 1 - i]
    BY <1>1, <2>1, <2>2
  <2> HIDE DEF Back
  <2>4. ASSUME NEW k \in P PROVE \E i \in 1 .. m : b[i] = k
    <3>1. PICK i \in 1 .. m : h[i] = k
      BY <2>1
    <3>2. m + 1 - i \in 1 .. m /\ b[m + 1 - i] = k
      BY <1>1, <2>3, <3>1
    <3> QED BY <3>2
  <2>5. ASSUME NEW i \in 1 .. m, NEW j \in 1 .. m, i < j PROVE b[i] < b[j]
    <3>1. /\ m + 1 - i \in 1 .. m /\ m + 1 - j \in 1 .. m
          /\ m + 1 - j < m + 1 - i
      BY <2>5
    <3>2. h[m + 1 - j] > h[m + 1 - i]
      BY <1>2, <3>1 DEF Falling
    <3>3. h[m + 1 - j] \in Nat /\ h[m + 1 - i] \in Nat
      BY <2>1, <3>1
    <3> QED BY <2>3, <3>2, <3>3
  <2> QED BY <2>2, <2>3, <2>4, <2>5 DEF Surjection, Rising
<1>3. Back(f) = Back(g)
  <2> HIDE DEF Back
  <2> QED BY <1>2, RisingUnique
<1>4. ASSUME NEW i \in 1 .. m PROVE f[i] = g[i]
  <2>1. Back(f)[m + 1 - i] = f[i] /\ Back(g)[m + 1 - i] = g[i]
    BY <1>1
  <2> HIDE DEF Back
  <2> QED BY <1>3, <2>1
<1> QED BY <1>4 DEF Surjection

\* Positions in rising or falling order are all different.
LEMMA OrderedInjective ==
    ASSUME NEW m \in Nat, NEW P, P \subseteq Nat, NEW f \in [1 .. m -> P],
           Rising(f, m) \/ Falling(f, m)
    PROVE  f \in Injection(1 .. m, P)
<1>1. ASSUME NEW i \in 1 .. m, NEW j \in 1 .. m, i < j PROVE f[i] # f[j]
  <2>1. f[i] \in Nat /\ f[j] \in Nat
    OBVIOUS
  <2> QED BY <1>1, <2>1 DEF Rising, Falling
<1>2. ASSUME NEW i \in 1 .. m, NEW j \in 1 .. m, f[i] = f[j] PROVE i = j
  <2>1. i < j \/ j < i \/ i = j
    OBVIOUS
  <2> QED BY <1>1, <1>2, <2>1
<1> QED BY <1>2 DEF Injection, IsInjective

\* A list that goes over the owned positions in the order of the view is the
\* one that is due.
LEMMA DueGathered ==
    ASSUME TypeOK, NEW list \in Seq(Items),
           NEW place \in Places(list, slots, OwnedAt),
           IF wanted = NoOwner THEN Rising(place, Len(list))
                               ELSE Falling(place, Len(list))
    PROVE  list = Due
<1>1. PICK m \in Nat : m = Len(list)
  OBVIOUS
<1>2. PICK P : P = OwnedAt
  OBVIOUS
<1>3. P \subseteq Nat /\ 1 .. m = DOMAIN list
  BY <1>1, <1>2 DEF OwnedAt
<1>4. /\ place \in [1 .. m -> P]
      /\ \A i \in 1 .. m : list[i] = slots[place[i]]
      /\ place \in Surjection(1 .. m, P)
  BY <1>1, <1>2 DEF Places, Surjection
<1>5. IsFiniteSet(1 .. m) /\ Cardinality(1 .. m) = m
  BY FS_Interval
<1>6. place \in Injection(1 .. m, P)
  BY <1>1, <1>3, <1>4, OrderedInjective
<1>7. IsFiniteSet(P) /\ Cardinality(P) = m
  BY <1>4, <1>5, <1>6, FS_Surjection
<1> DEFINE Good(f) == \A i, j \in 1 .. m :
               i < j => IF wanted = NoOwner THEN f[i] < f[j] ELSE f[i] > f[j]
<1>8. Listing = CHOOSE f \in [1 .. m -> P] : Good(f)
  BY <1>2, <1>7 DEF Listing
<1>9. Good(place)
  BY <1>1 DEF Rising, Falling
<1>10. PICK f : f = Listing
  OBVIOUS
<1>11. f \in [1 .. m -> P] /\ Good(f)
  BY <1>4, <1>8, <1>9, <1>10
<1>12. IF wanted = NoOwner THEN Rising(f, m) ELSE Falling(f, m)
  BY <1>11 DEF Rising, Falling
<1>13. f \in Injection(1 .. m, P)
  BY <1>3, <1>11, <1>12, OrderedInjective
<1>14. f \in Surjection(1 .. m, P)
  BY <1>5, <1>7, <1>13, FS_Injection
<1>15. f = place
  <2>1. CASE wanted = NoOwner
    BY <1>1, <1>3, <1>4, <1>12, <1>14, <2>1, RisingUnique
  <2>2. CASE wanted # NoOwner
    BY <1>1, <1>3, <1>4, <1>12, <1>14, <2>2, FallingUnique
  <2> QED BY <2>1, <2>2
<1>16. Due = [i \in 1 .. m |-> slots[place[i]]]
  BY <1>2, <1>7, <1>10, <1>15 DEF Due
<1>17. list = [i \in 1 .. m |-> list[i]]
  BY <1>3
<1> QED BY <1>4, <1>16, <1>17

\* Whatever the game does, the items made so far are those of the first
\* addresses gathered.
MadeInv ==
    pc \in {"class", "code"} =>
        /\ Len(made) = next - 1 /\ next <= Len(addresses) + 1
        /\ \A k \in 1 .. Len(made) : made[k].addr = addresses[k]

LEMMA MadeStep == TypeOK /\ FreshInv /\ MadeInv /\ [Next]_vars => MadeInv'
<1> SUFFICES ASSUME TypeOK, FreshInv, MadeInv, [Next]_vars PROVE MadeInv'
  OBVIOUS
<1>a. /\ made \in Seq(MadeItems) /\ addresses \in Seq(Items)
      /\ next \in Nat \ {0}
  BY DEF TypeOK
<1>1. ASSUME NEW who \in {Me, NoOwner}, Start(who) PROVE MadeInv'
  BY <1>1 DEF Start, MadeInv
<1>2. CASE ReadCount
  <2>1. made' = <<>> /\ next' = 1 /\ addresses' = <<>>
    BY <1>2 DEF ReadCount, FreshInv
  <2> QED BY <2>1 DEF MadeInv
<1>3. CASE ReadArray \/ ReadOwner \/ Arrange \/ Fail
  BY <1>3 DEF ReadArray, ReadOwner, Arrange, Fail, MadeInv
<1>4. CASE OwnersRead
  <2>1. made' = <<>> /\ next' = 1
    BY <1>4 DEF OwnersRead, FreshInv
  <2>2. Len(addresses') \in Nat
    BY <1>4, <1>a, ReverseProperties DEF OwnersRead
  <2> QED BY <2>1, <2>2 DEF MadeInv
<1>5. CASE ReadClass
  BY <1>5 DEF ReadClass, MadeInv
<1>6. CASE ReadCode
  <2>1. /\ Len(made) = next - 1 /\ next' = next + 1 /\ addresses' = addresses
        /\ next <= Len(addresses)
        /\ \A k \in 1 .. Len(made) : made[k].addr = addresses[k]
    BY <1>6 DEF ReadCode, MadeInv, TypeOK
  <2>2. /\ \A k \in 1 .. Len(made') : k \in 1 .. Len(made) \/ k = next
        /\ \A k \in 1 .. Len(made) : made'[k] = made[k]
        /\ made'[next] = [addr |-> addresses[next], class |-> class,
                          code |-> code[addresses[next]]]
    BY <1>6, <1>a, <2>1, ReadCodeMakes
  <2>3. ASSUME NEW k \in 1 .. Len(made') PROVE made'[k].addr = addresses[k]
    <3>1. CASE k = next
      <4>1. made'[k] = [addr |-> addresses[next], class |-> class,
                        code |-> code[addresses[next]]]
        BY <2>2, <3>1
      <4> QED BY <3>1, <4>1
    <3>2. CASE k # next
      <4>1. k \in 1 .. Len(made) /\ made'[k] = made[k]
        BY <2>2, <3>2
      <4> QED BY <2>1, <4>1
    <3> QED BY <3>1, <3>2
  <2>4. Len(made') = next' - 1 /\ next' <= Len(addresses') + 1
    BY <1>6, <1>a, <2>1, ReadCodeMakes
  <2> QED BY <2>1, <2>3, <2>4 DEF MadeInv
<1>7. CASE Game
  BY <1>7 DEF Game, Appear, Disappear, Transfer, GameStep, readVars, MadeInv
<1>8. CASE UNCHANGED vars
  BY <1>8 DEF vars, readVars, MadeInv
<1> QED
  BY <1>1, <1>2, <1>3, <1>4, <1>5, <1>6, <1>7, <1>8 DEF Next, Refresh

\* What the mapping shows.
ShownPointers == IF Phase \in {"loading", "done"} THEN addresses ELSE <<>>
ItemsOf(list) == {[addr |-> item.addr, content |-> item.code] : item \in Range(list)}
ShownItems == IF Phase = "done" THEN ItemsOf(made) ELSE {}

\* The addresses a view gathers when it is done are due, if nothing changed.
LEMMA GatherStep ==
    ASSUME TypeOK, TypeOK', FreshInv, PlaceInv', Phase = "gathering",
           Phase' = "loading", UNCHANGED <<gameVars, wanted, quiet, made>>
    PROVE  Rd!Gather
<1>1. addresses' \in Seq(Items)
  BY DEF TypeOK
<1>2. ShownPointers' = addresses' /\ ShownItems = {} /\ ShownItems' = {}
  BY DEF ShownPointers, ShownItems
<1>3. Due' = Due
  BY DEF gameVars, Due, Listing, OwnedAt
<1>4. ASSUME quiet PROVE addresses' = Due
  <2>1. pc' \in {"class", "code"} /\ quiet'
    BY <1>4 DEF Phase, TypeOK
  <2>2. PICK list \in Seq(Items) : list = addresses'
    BY <1>1
  <2>3. OwnedAt' = OwnedAt /\ UNCHANGED <<slots, wanted>>
    BY DEF gameVars, OwnedAt
  <2>4. PICK place \in Places(list, slots, OwnedAt) :
            IF wanted = NoOwner THEN Rising(place, Len(list))
                                ELSE Falling(place, Len(list))
    BY <2>1, <2>2, <2>3 DEF PlaceInv
  <2>5. list = Due
    BY <2>4, DueGathered
  <2> QED BY <2>2, <2>5
<1> QED
  BY <1>1, <1>2, <1>3, <1>4 DEF Rd!Gather, ShownPointers, ShownItems, ItemsOf, gameVars

\* The items a view has made when it is done are those of the addresses it has
\* gathered; by their codes, if nothing changed.
LEMMA LoadStep ==
    ASSUME TypeOK, MadeInv, QuietInv, Arrange
    PROVE  Rd!Load
<1>a. made \in Seq(MadeItems) /\ addresses \in Seq(Items) /\ next \in Nat
  BY DEF TypeOK
<1>1. /\ pc = "class" /\ pc' = "done"
      /\ UNCHANGED <<gameVars, wanted, addresses, quiet>>
      /\ Len(made) = Len(addresses)
      /\ \A k \in 1 .. Len(made) : made[k].addr = addresses[k]
  BY <1>a DEF Arrange, MadeInv, historyVars
<1>2. DOMAIN made = 1 .. Len(made) /\ DOMAIN addresses = 1 .. Len(made)
  BY <1>a, <1>1
<1>3. Range(made') = Range(made)
  BY ArrangeElements DEF Range
<1>4. {item.addr : item \in ItemsOf(made')} = Range(addresses)
  <2>1. {item.addr : item \in ItemsOf(made')} = {item.addr : item \in Range(made)}
    <3>1. ASSUME NEW r \in ItemsOf(made')
          PROVE  \E item \in Range(made) : r.addr = item.addr
      BY <1>3 DEF ItemsOf
    <3>2. ASSUME NEW item \in Range(made)
          PROVE  \E r \in ItemsOf(made') : r.addr = item.addr
      <4>1. [addr |-> item.addr, content |-> item.code] \in ItemsOf(made')
        BY <1>3 DEF ItemsOf
      <4> QED BY <4>1
    <3> QED BY <3>1, <3>2
  <2>2. {item.addr : item \in Range(made)} = Range(addresses)
    BY <1>1, <1>2 DEF Range
  <2> QED BY <2>1, <2>2
<1>5. ASSUME quiet
      PROVE  ItemsOf(made') = {[addr |-> a, content |-> code[a]] : a \in Range(addresses)}
  <2>1. \A k \in DOMAIN made : /\ made[k].addr = addresses[k]
                               /\ made[k].code = code[addresses[k]]
    BY <1>1, <1>5 DEF QuietInv
  <2>2. ASSUME NEW item \in Range(made)
        PROVE  item.addr \in Range(addresses) /\ item.code = code[item.addr]
    BY <1>2, <2>1 DEF Range
  <2>3. ASSUME NEW a \in Range(addresses)
        PROVE  \E item \in Range(made) : item.addr = a /\ item.code = code[a]
    BY <1>2, <2>1 DEF Range
  <2>4. ItemsOf(made) = {[addr |-> a, content |-> code[a]] : a \in Range(addresses)}
    BY <2>2, <2>3 DEF ItemsOf
  <2> QED BY <1>3, <2>4 DEF ItemsOf
<1>6. /\ ShownPointers = addresses /\ ShownPointers' = addresses
      /\ ShownItems' = ItemsOf(made') /\ ShownItems = {}
      /\ Phase = "loading" /\ Phase' = "done"
  BY <1>1 DEF ShownPointers, ShownItems, Phase
<1>7. Due' = Due /\ code' = code
  BY <1>1 DEF gameVars, Due, Listing, OwnedAt
<1> QED
  BY <1>1, <1>4, <1>5, <1>6, <1>7
  DEF Rd!Load, Rd!ItemsAt, Rd!Range, Range, ShownPointers, ShownItems, ItemsOf

LEMMA ReadingStep ==
    /\ TypeOK /\ FreshInv /\ MadeInv /\ QuietInv /\ PlaceInv
    /\ TypeOK' /\ PlaceInv'
    /\ [Next]_vars
    => [Rd!Next]_(Rd!vars)
<1> SUFFICES ASSUME TypeOK, FreshInv, MadeInv, QuietInv, PlaceInv,
                    TypeOK', PlaceInv', [Next]_vars
             PROVE  [Rd!Next]_(Rd!vars)
  OBVIOUS
<1>a. ASSUME Phase' = Phase, UNCHANGED <<gameVars, wanted, quiet, addresses>>,
             Phase # "done"
      PROVE  UNCHANGED Rd!vars
  BY <1>a DEF Rd!vars, gameVars, Due, Listing, OwnedAt
<1>1. ASSUME NEW who \in {Me, NoOwner}, Start(who) PROVE Rd!Begin
  BY <1>1 DEF Start, Rd!Begin, Phase, gameVars
<1>2. CASE ReadCount
  <2>1. CASE count = 0
    <3>1. /\ Phase = "gathering" /\ Phase' = "loading"
          /\ UNCHANGED <<gameVars, wanted, quiet, made>>
      BY <1>2, <2>1 DEF ReadCount, Phase, historyVars
    <3> QED BY <3>1, GatherStep DEF Rd!Next
  <2>2. CASE count # 0
    BY <1>2, <2>2, <1>a DEF ReadCount, Phase, historyVars
  <2> QED BY <2>1, <2>2
<1>3. CASE ReadArray
  BY <1>3, <1>a DEF ReadArray, Phase, historyVars
<1>4. CASE ReadOwner
  <2>1. /\ Phase = "gathering" /\ Phase' = "gathering"
        /\ UNCHANGED <<gameVars, wanted, quiet>>
    BY <1>4 DEF ReadOwner, Phase, historyVars
  <2> QED BY <2>1 DEF Rd!vars, gameVars, Due, Listing, OwnedAt
<1>5. CASE OwnersRead
  <2>1. /\ Phase = "gathering" /\ Phase' = "loading"
        /\ UNCHANGED <<gameVars, wanted, quiet, made>>
    BY <1>5 DEF OwnersRead, Phase, historyVars
  <2> QED BY <2>1, GatherStep DEF Rd!Next
<1>6. CASE ReadClass \/ ReadCode
  BY <1>6, <1>a DEF ReadClass, ReadCode, Phase, historyVars
<1>7. CASE Arrange
  BY <1>7, LoadStep DEF Rd!Next
<1>8. CASE Fail
  <2>1. /\ Phase \in {"gathering", "loading"} /\ Phase' = "idle"
        /\ UNCHANGED <<gameVars, wanted, quiet>>
    BY <1>8 DEF Fail, Phase, TypeOK, readVars, historyVars
  <2>2. Due' = Due /\ code' = code
    BY <2>1 DEF gameVars, Due, Listing, OwnedAt
  <2> QED BY <2>1, <2>2 DEF Rd!Next, Rd!GiveUp
<1>9. CASE Game
  <2>1. quiet' = FALSE /\ UNCHANGED <<pc, addresses, made>>
    BY <1>9 DEF Game, Appear, Disappear, Transfer, GameStep, readVars
  <2> QED BY <2>1 DEF Rd!Next, Rd!Change, Phase
<1>10. CASE UNCHANGED vars
  BY <1>10
  DEF vars, gameVars, readVars, historyVars, Rd!vars, Phase, Due, Listing, OwnedAt
<1> QED
  BY <1>1, <1>2, <1>3, <1>4, <1>5, <1>6, <1>7, <1>8, <1>9, <1>10
  DEF Next, Refresh, Rd!Next

\* The dozen reads of a refresh, in a table that may change between any two of
\* them, implement the two calls the view makes.
THEOREM ReadingImplemented == Spec => ImplementsReading
<1>1. Init => FreshInv /\ MadeInv /\ QuietInv /\ PlaceInv
  BY DEF Init, FreshInv, MadeInv, QuietInv, PlaceInv
<1>2. Init => Rd!Init
  BY DEF Init, Rd!Init, Phase
<1> QED
  BY <1>1, <1>2, FreshStep, MadeStep, QuietStep, PlaceStep, ReadingStep,
     TypeCorrect, PTL
  DEF Spec, Rd!Spec, ImplementsReading

============================================================================
