------------------------- MODULE CategoryNamesProofs -------------------------
(***************************************************************************)
(* Proofs about CategoryNames, for any number of bits and any names.       *)
(***************************************************************************)
EXTENDS CategoryNames, TLAPS, FiniteSetTheorems, SequenceTheorems

USE CategoryAssumption

-----------------------------------------------------------------------------
(* The table is a sequence that is never longer than the user categories;  *)
(* nothing is looked up before the sink is destroyed.                      *)
TableOK ==
  /\ names \in Seq(Name \cup {NoName})
  /\ Len(names) <= MaxUserCategories

CacheOK ==
  /\ stage = "open" => DOMAIN built_names = {}
  /\ DOMAIN built_names \subseteq Looked

IInv == TableOK /\ UniqueNames /\ CacheOK /\ NamesCurrent

(* What storing a name does to the table, whether or not it has to grow. *)
LEMMA StoreEffect ==
  ASSUME TableOK, NEW i \in UserIndex, NEW name \in Name, Store(i, name)
  PROVE  /\ TableOK'
         /\ i < Len(names') /\ names'[i + 1] = name
         /\ \A k \in UserIndex \ {i} :
              /\ Registered(k)' <=> Registered(k)
              /\ Registered(k) => names'[k + 1] = names[k + 1]
<1> DEFINE n == IF i + 1 > Len(names) THEN i + 1 ELSE Len(names)
           tab == Resized(i + 1)
<1>1. i \in Nat /\ i + 1 \in Nat /\ i < MaxUserCategories
      /\ Len(names) \in Nat /\ n \in Nat /\ n <= MaxUserCategories
  BY LenProperties DEF TableOK, UserIndex
<1>2. tab = [k \in 1 .. n |-> IF k <= Len(names) THEN names[k] ELSE NoName]
  BY DEF Resized
<1>3. \A k \in 1 .. Len(names) : names[k] \in Name \cup {NoName}
  BY <1>1, ElementOfSeq DEF TableOK
<1>4. tab \in [1 .. n -> Name \cup {NoName}]
  BY <1>1, <1>2, <1>3
<1>5. names' = [tab EXCEPT ![i + 1] = name]
  BY DEF Store
<1>6. names' \in [1 .. n -> Name \cup {NoName}]
  BY <1>4, <1>5
<1>7. names' \in Seq(Name \cup {NoName}) /\ Len(names') = n
  <2>1. names' \in Seq(Name \cup {NoName})
    <3>1. \A S, f : \A m \in Nat : f \in [1 .. m -> S] => f \in Seq(S)
      BY SeqDef
    <3> HIDE DEF n
    <3> QED
      BY <1>1, <1>6, <3>1
  <2>2. Len(names') \in Nat /\ DOMAIN names' = 1 .. Len(names')
    BY <2>1, LenProperties
  <2>3. DOMAIN names' = 1 .. n
    BY <1>6
  <2>4. \A a, b \in Nat : 1 .. a = 1 .. b => a = b
    <3> SUFFICES ASSUME NEW a \in Nat, NEW b \in Nat, 1 .. a = 1 .. b, a # b
                 PROVE  FALSE
      OBVIOUS
    <3>1. (a \in 1 .. a <=> a \in 1 .. b) /\ (b \in 1 .. a <=> b \in 1 .. b)
      OBVIOUS
    <3> QED
      BY <3>1
  <2>5. 1 .. Len(names') = 1 .. n
    BY <2>2, <2>3
  <2>6. Len(names') = n
    BY <1>1, <2>2, <2>4, <2>5
  <2> QED
    BY <2>1, <2>6
<1>8. i + 1 \in 1 .. n
  BY <1>1
<1>9. names'[i + 1] = name
  BY <1>4, <1>5, <1>8
<1>10. ASSUME NEW k \in UserIndex \ {i}
       PROVE  /\ Registered(k)' <=> Registered(k)
              /\ Registered(k) => names'[k + 1] = names[k + 1]
  <2>1. k \in Nat /\ k + 1 # i + 1 /\ k + 1 \in Nat
    BY <1>1 DEF UserIndex
  <2>2. CASE k < Len(names)
    <3>1. k + 1 \in 1 .. n /\ k + 1 <= Len(names) /\ k < n
      BY <1>1, <2>1, <2>2
    <3>2. names'[k + 1] = tab[k + 1] /\ tab[k + 1] = names[k + 1]
      BY <1>2, <1>4, <1>5, <2>1, <3>1
    <3> QED
      BY <1>7, <2>2, <3>1, <3>2 DEF Registered
  <2>3. CASE ~(k < Len(names)) /\ k < n
    <3>1. k + 1 \in 1 .. n /\ ~(k + 1 <= Len(names))
      BY <1>1, <2>1, <2>3
    <3>2. names'[k + 1] = tab[k + 1] /\ tab[k + 1] = NoName
      BY <1>2, <1>4, <1>5, <2>1, <3>1
    <3> QED
      BY <2>3, <3>2 DEF Registered
  <2>4. CASE ~(k < Len(names)) /\ ~(k < n)
    BY <1>7, <2>4 DEF Registered
  <2> QED
    BY <2>2, <2>3, <2>4
<1> QED
  BY <1>1, <1>7, <1>9, <1>10 DEF TableOK

(* A flag that passes the checks is one bit, a user's. *)
LEMMA UserBit ==
  ASSUME NEW category \in Category, IsUserBit(category)
  PROVE  /\ BitToIndex(category) \in UserIndex
         /\ category = {BitToIndex(category)}
         /\ category # NoFlag
<1>1. IsFiniteSet(category)
  <2>1. 0 \in Int /\ NumCategories - 1 \in Int
    OBVIOUS
  <2>2. IsFiniteSet(Index)
    BY <2>1, FS_Interval DEF Index
  <2> QED
    BY <2>2, FS_Subset
<1>2. \E i : category = {i}
  BY <1>1, FS_Singleton DEF IsUserBit, IsOneBitSet
<1>3. BitToIndex(category) \in category /\ category = {BitToIndex(category)}
  BY <1>2 DEF BitToIndex
<1>4. BitToIndex(category) \in Index
  BY <1>3
<1>5. BitToIndex(category) < MaxUserCategories
  BY DEF IsUserBit
<1>6. BitToIndex(category) \in UserIndex
  BY <1>4, <1>5 DEF UserIndex, Index
<1> QED
  BY <1>3, <1>6 DEF NoFlag

(* A registration that succeeds stores a valid new name. *)
LEMMA NewNameUnique ==
  ASSUME TableOK, UniqueNames, NEW i \in UserIndex, NEW name \in Name,
         ~IsNameUsed(name), Store(i, name)
  PROVE  TableOK' /\ UniqueNames'
<1>1. /\ TableOK'
      /\ i < Len(names') /\ names'[i + 1] = name
      /\ \A k \in UserIndex \ {i} :
           /\ Registered(k)' <=> Registered(k)
           /\ Registered(k) => names'[k + 1] = names[k + 1]
  BY StoreEffect
<1>2. \A k \in UserIndex : Registered(k) => names[k + 1] # name
  <2> SUFFICES ASSUME NEW k \in UserIndex, Registered(k)
               PROVE  names[k + 1] # name
    OBVIOUS
  <2>1. k + 1 \in DOMAIN names
    BY LenProperties DEF TableOK, Registered, UserIndex
  <2> QED
    BY <2>1 DEF IsNameUsed
<1>3. ASSUME NEW k \in UserIndex, NEW j \in UserIndex,
             Registered(k)', Registered(j)', names'[k + 1] = names'[j + 1]
      PROVE  k = j
  <2>1. CASE k = i \/ j = i
    BY <1>1, <1>2, <1>3, <2>1
  <2>2. CASE k # i /\ j # i
    BY <1>1, <1>3, <2>2 DEF UniqueNames
  <2> QED
    BY <2>1, <2>2
<1> QED
  BY <1>1, <1>3 DEF UniqueNames, Registered

(* A refused registration leaves the table alone: where it is refused      *)
(* after the resize, the flag had a name and the resize did nothing.       *)
LEMMA RefusedSame ==
  ASSUME TableOK, NEW category \in Category, NEW name, NEW rename,
         MustRefuse(category, name, rename)
  PROVE  NamesRefused(category, name, rename) = names
<1>1. CASE IsNameValid(name) /\ ~IsNameUsed(name) /\ IsUserBit(category)
  <2> DEFINE i == BitToIndex(category)
  <2>1. i \in UserIndex /\ category # NoFlag
    BY <1>1, UserBit
  <2>2. Registered(i)
    BY <1>1, <2>1 DEF MustRefuse, MayName
  <2>3. i + 1 <= Len(names) /\ Len(names) \in Nat /\ i + 1 \in Nat
    BY <2>1, <2>2, LenProperties DEF Registered, TableOK, UserIndex
  <2>4. Resized(i + 1) = [k \in 1 .. Len(names) |-> names[k]]
    BY <2>3 DEF Resized
  <2>5. names = [k \in 1 .. Len(names) |-> names[k]]
    BY LenProperties DEF TableOK
  <2> QED
    BY <1>1, <2>4, <2>5 DEF NamesRefused
<1>2. CASE ~(IsNameValid(name) /\ ~IsNameUsed(name) /\ IsUserBit(category))
  BY <1>2 DEF NamesRefused
<1> QED
  BY <1>1, <1>2

LEMMA InitInv == Init => IInv
<1> SUFFICES ASSUME Init PROVE IInv
  OBVIOUS
<1>1. TableOK
  BY EmptySeq DEF Init, TableOK
<1>2. UniqueNames
  BY DEF Init, UniqueNames, Registered, UserIndex
<1>3. CacheOK /\ NamesCurrent
  BY DEF Init, CacheOK, NamesCurrent
<1> QED
  BY <1>1, <1>2, <1>3 DEF IInv

(* The cache is not looked at while names may change. *)
LEMMA CacheFrame ==
  ASSUME CacheOK, NamesCurrent, stage = "open", stage' \in {"open", "terminated"},
         UNCHANGED built_names
  PROVE  CacheOK' /\ NamesCurrent'
BY DEF CacheOK, NamesCurrent

(* What is joined depends on the names only. *)
LEMMA JoinedFrame ==
  ASSUME UNCHANGED names, NEW c
  PROVE  Joined(c)' = Joined(c)
<1>1. \A i : NameOf(i)' = NameOf(i)
  BY DEF NameOf
<1> QED
  BY <1>1 DEF Joined

LEMMA InvStep == IInv /\ [Next]_vars => IInv'
<1> SUFFICES ASSUME IInv, [Next]_vars PROVE IInv'
  OBVIOUS
<1> USE DEF IInv
<1>1. CASE UNCHANGED vars
  <2>1. TableOK' /\ UniqueNames' /\ CacheOK'
    BY <1>1 DEF vars, TableOK, UniqueNames, Registered, CacheOK
  <2>2. \A c : Joined(c)' = Joined(c)
    BY <1>1, JoinedFrame DEF vars
  <2>3. NamesCurrent'
    BY <1>1, <2>2 DEF vars, NamesCurrent
  <2> QED
    BY <2>1, <2>3
<1>2. ASSUME NEW name \in Name, NEW rename \in BOOLEAN, RegisterNext(name, rename)
      PROVE  IInv'
  <2>1. TableOK' /\ UniqueNames'
    <3>1. PICK i \in Free : Store(i, name)
      BY <1>2 DEF RegisterNext
    <3> QED
      BY <1>2, <3>1, NewNameUnique DEF RegisterNext, Free
  <2>2. CacheOK' /\ NamesCurrent'
    BY <1>2, CacheFrame DEF RegisterNext, MayRegister
  <2> QED
    BY <2>1, <2>2
<1>3. ASSUME NEW category \in Category, NEW name \in Name, NEW rename \in BOOLEAN,
             RegisterAt(category, name, rename)
      PROVE  IInv'
  <2>1. TableOK' /\ UniqueNames'
    BY <1>3, UserBit, NewNameUnique DEF RegisterAt
  <2>2. CacheOK' /\ NamesCurrent'
    BY <1>3, CacheFrame DEF RegisterAt, MayRegister
  <2> QED
    BY <2>1, <2>2
<1>4. ASSUME NEW category \in Category, NEW name \in Name, NEW rename \in BOOLEAN,
             Refuse(category, name, rename)
      PROVE  IInv'
  <2>1. UNCHANGED names
    BY <1>4, RefusedSame DEF Refuse
  <2>2. TableOK' /\ UniqueNames'
    BY <2>1 DEF TableOK, UniqueNames, Registered
  <2>3. CacheOK' /\ NamesCurrent'
    BY <1>4, CacheFrame DEF Refuse, MayRegister
  <2> QED
    BY <2>2, <2>3
<1>5. CASE WriteOut
  <2>1. TableOK' /\ UniqueNames' /\ CacheOK'
    BY <1>5 DEF WriteOut, TableOK, UniqueNames, Registered, CacheOK
  <2>2. NamesCurrent'
    BY <1>5 DEF WriteOut, CacheOK, NamesCurrent
  <2> QED
    BY <2>1, <2>2
<1>6. ASSUME NEW category \in Looked, GetJoinedCategoryNames(category)
      PROVE  IInv'
  <2> USE <1>6 DEF GetJoinedCategoryNames
  <2>1. TableOK' /\ UniqueNames'
    BY DEF TableOK, UniqueNames, Registered
  <2>2. CacheOK'
    BY DEF CacheOK
  <2>3. \A c : Joined(c)' = Joined(c)
    BY JoinedFrame
  <2>4. \A c \in DOMAIN built_names' :
          built_names'[c] = IF c = category THEN Joined(c) ELSE built_names[c]
    OBVIOUS
  <2>5. NamesCurrent'
    BY <2>3, <2>4 DEF NamesCurrent
  <2> QED
    BY <2>1, <2>2, <2>5
<1> QED
  BY <1>1, <1>2, <1>3, <1>4, <1>5, <1>6 DEF Next

LEMMA Invariance == Spec => []IInv
BY InitInv, InvStep, PTL DEF Spec

-----------------------------------------------------------------------------
(* The table never outgrows the user categories, and a flag that is handed  *)
(* out is one user bit.                                                    *)
THEOREM TypeCorrect == Spec => []TypeOK
<1>1. Init => TypeOK
  BY EmptySeq DEF Init, TypeOK, NoCall, Refused
<1>2. ASSUME TypeOK, IInv, IInv', [Next]_vars PROVE TypeOK'
  <2>1. names' \in Seq(Name \cup {NoName}) /\ Len(names') <= MaxUserCategories
        /\ DOMAIN built_names' \subseteq Looked
    BY <1>2 DEF IInv, TableOK, CacheOK
  <2> SUFFICES /\ stage' \in {"open", "writing", "terminated"}
               /\ by_handle' \in BOOLEAN
               /\ last'.result # Refused => \E i \in UserIndex : last'.result = {i}
    BY <2>1 DEF TypeOK
  <2>2. ASSUME NEW name \in Name, NEW rename \in BOOLEAN, RegisterNext(name, rename)
        PROVE  \E i \in UserIndex : last'.result = {i}
    <3>1. PICK k \in Free : last' = [category |-> NoFlag, name |-> name,
                                     rename |-> rename, result |-> {k}]
      BY <2>2 DEF RegisterNext, Returned
    <3> QED
      BY <3>1 DEF Free
  <2>3. ASSUME NEW category \in Category, NEW name \in Name,
               NEW rename \in BOOLEAN, RegisterAt(category, name, rename)
        PROVE  \E i \in UserIndex : last'.result = {i}
    <3>1. last' = [category |-> category, name |-> name, rename |-> rename,
                   result |-> category]
      BY <2>3 DEF RegisterAt, Returned
    <3> QED
      BY <2>3, <3>1, UserBit DEF RegisterAt
  <2>4. ASSUME NEW category \in Category, NEW name \in Name,
               NEW rename \in BOOLEAN, Refuse(category, name, rename)
        PROVE  last'.result = Refused /\ stage' \in {stage, "terminated"}
    BY <2>4 DEF Refuse, Returned
  <2>5. CASE UNCHANGED vars
    BY <1>2, <2>5 DEF vars, TypeOK
  <2>6. CASE Next
    BY <1>2, <2>2, <2>3, <2>4, <2>6
    DEF Next, TypeOK, RegisterNext, RegisterAt, Refuse, WriteOut, GetJoinedCategoryNames
  <2> QED
    BY <1>2, <2>5, <2>6
<1> QED
  BY <1>1, <1>2, Invariance, PTL DEF Spec

(* No two user categories ever have the same name, in any order of         *)
(* registrations, renames and refusals.                                    *)
THEOREM NamesStayUnique == Spec => []UniqueNames
<1>1. IInv => UniqueNames
  BY DEF IInv
<1> QED
  BY <1>1, Invariance, PTL

(* What is written of an event's categories is what they are called, the   *)
(* cache notwithstanding.                                                  *)
THEOREM CacheCurrent == Spec => []NamesCurrent
<1>1. IInv => NamesCurrent
  BY DEF IInv
<1> QED
  BY <1>1, Invariance, PTL

(* A category only changes its name by a successful call that names it and *)
(* allows renaming: nobody else's registration takes its flag.             *)
THEOREM RenamedOnRequest == Spec => OnlyRenamedOnRequest
<1> DEFINE Kept == \A i \in UserIndex : Registered(i) /\ names'[i + 1] # names[i + 1] =>
                     last'.category = {i} /\ last'.rename /\ last'.result = {i}
<1>1. ASSUME IInv, [Next]_vars PROVE [Kept]_vars
  <2> SUFFICES ASSUME NEW i \in UserIndex, Registered(i),
                      names'[i + 1] # names[i + 1], Next
               PROVE  /\ last'.category = {i}
                      /\ last'.rename
                      /\ last'.result = {i}
    BY <1>1 DEF vars
  <2>1. ASSUME NEW name \in Name, NEW rename \in BOOLEAN, RegisterNext(name, rename)
        PROVE  FALSE
    <3>1. PICK k \in Free : Store(k, name)
      BY <2>1 DEF RegisterNext
    <3>2. k # i /\ k \in UserIndex
      BY <3>1 DEF Free
    <3> QED
      BY <1>1, <3>1, <3>2, StoreEffect DEF IInv
  <2>2. ASSUME NEW category \in Category, NEW name \in Name,
               NEW rename \in BOOLEAN, RegisterAt(category, name, rename)
        PROVE  /\ last'.category = {i}
               /\ last'.rename
               /\ last'.result = {i}
    <3> DEFINE k == BitToIndex(category)
    <3>1. k \in UserIndex /\ category = {k} /\ Store(k, name)
      BY <2>2, UserBit DEF RegisterAt
    <3>2. k = i
      BY <1>1, <3>1, StoreEffect DEF IInv
    <3>3. rename
      BY <2>2, <3>2 DEF RegisterAt, MayName
    <3>4. last' = [category |-> category, name |-> name, rename |-> rename,
                   result |-> category]
      BY <2>2 DEF RegisterAt, Returned
    <3> QED
      BY <3>1, <3>2, <3>3, <3>4
  <2>3. ASSUME NEW category \in Category, NEW name \in Name,
               NEW rename \in BOOLEAN, Refuse(category, name, rename)
        PROVE  FALSE
    BY <1>1, <2>3, RefusedSame DEF Refuse, IInv
  <2>4. CASE WriteOut \/ \E category \in Looked : GetJoinedCategoryNames(category)
    BY <2>4 DEF WriteOut, GetJoinedCategoryNames
  <2> QED
    BY <2>1, <2>2, <2>3, <2>4 DEF Next
<1>2. Spec => [][Kept]_vars
  BY <1>1, Invariance, PTL DEF Spec
<1> QED
  BY <1>2 DEF OnlyRenamedOnRequest

(* A refused registration leaves the table as it was, although the code    *)
(* resizes it before its last check.                                       *)
THEOREM RefusalIsHarmless == Spec => RefusalChangesNothing
<1> DEFINE Same == last'.result = Refused => names' = names
<1>1. ASSUME IInv, [Next]_vars PROVE [Same]_vars
  <2> SUFFICES ASSUME last'.result = Refused, Next PROVE names' = names
    BY <1>1 DEF vars
  <2>1. ASSUME NEW name \in Name, NEW rename \in BOOLEAN, RegisterNext(name, rename)
        PROVE  FALSE
    <3>1. PICK k \in Free : last' = [category |-> NoFlag, name |-> name,
                                     rename |-> rename, result |-> {k}]
      BY <2>1 DEF RegisterNext, Returned
    <3> QED
      BY <3>1 DEF Refused, NoFlag
  <2>2. ASSUME NEW category \in Category, NEW name \in Name,
               NEW rename \in BOOLEAN, RegisterAt(category, name, rename)
        PROVE  FALSE
    <3>1. last' = [category |-> category, name |-> name, rename |-> rename,
                   result |-> category]
      BY <2>2 DEF RegisterAt, Returned
    <3>2. category # NoFlag
      BY <2>2, UserBit DEF RegisterAt
    <3> QED
      BY <3>1, <3>2 DEF Refused
  <2>3. ASSUME NEW category \in Category, NEW name \in Name,
               NEW rename \in BOOLEAN, Refuse(category, name, rename)
        PROVE  names' = names
    BY <1>1, <2>3, RefusedSame DEF Refuse, IInv
  <2>4. CASE WriteOut \/ \E category \in Looked : GetJoinedCategoryNames(category)
    BY <2>4 DEF WriteOut, GetJoinedCategoryNames
  <2> QED
    BY <2>1, <2>2, <2>3, <2>4 DEF Next
<1>2. Spec => [][Same]_vars
  BY <1>1, Invariance, PTL DEF Spec
<1> QED
  BY <1>2 DEF RefusalChangesNothing

(* A caller who leaves the choice to the map, with a good name, is refused *)
(* only when every user category has a name: gaps left by registrations of *)
(* higher flags are found.                                                 *)
THEOREM FlagsAreFound == Spec => FreeFlagFound
<1> DEFINE Justified ==
      (last' # last /\ last'.category = NoFlag /\ last'.result = Refused) =>
        \/ ~IsNameValid(last'.name) \/ IsNameUsed(last'.name)
        \/ \A i \in UserIndex : Registered(i)
<1>1. ASSUME [Next]_vars PROVE [Justified]_vars
  <2> SUFFICES ASSUME Next, last' # last, last'.category = NoFlag, last'.result = Refused
               PROVE  \/ ~IsNameValid(last'.name) \/ IsNameUsed(last'.name)
                      \/ \A i \in UserIndex : Registered(i)
    BY <1>1 DEF vars
  <2>1. ASSUME NEW name \in Name, NEW rename \in BOOLEAN, RegisterNext(name, rename)
        PROVE  FALSE
    <3>1. PICK k \in Free : last' = [category |-> NoFlag, name |-> name,
                                     rename |-> rename, result |-> {k}]
      BY <2>1 DEF RegisterNext, Returned
    <3> QED
      BY <3>1 DEF Refused, NoFlag
  <2>2. ASSUME NEW category \in Category, NEW name \in Name,
               NEW rename \in BOOLEAN, RegisterAt(category, name, rename)
        PROVE  FALSE
    <3>1. last'.category = category
      BY <2>2 DEF RegisterAt, Returned
    <3>2. category # NoFlag
      BY <2>2, UserBit DEF RegisterAt
    <3> QED
      BY <3>1, <3>2
  <2>3. ASSUME NEW category \in Category, NEW name \in Name,
               NEW rename \in BOOLEAN, Refuse(category, name, rename)
        PROVE  \/ ~IsNameValid(last'.name) \/ IsNameUsed(last'.name)
               \/ \A i \in UserIndex : Registered(i)
    <3>1. last'.category = category /\ last'.name = name /\ MustRefuse(category, name, rename)
      BY <2>3 DEF Refuse, Returned
    <3>2. category = NoFlag
      BY <3>1
    <3>3. ~IsUserBit(category)
      <4>1. Cardinality(NoFlag) # 1
        BY FS_EmptySet DEF NoFlag
      <4> QED
        BY <3>2, <4>1 DEF IsUserBit, IsOneBitSet
    <3>4. ~IsNameValid(name) \/ IsNameUsed(name) \/ Free = {}
      BY <3>1, <3>2, <3>3 DEF MustRefuse
    <3>5. Free = {} => \A i \in UserIndex : Registered(i)
      BY DEF Free
    <3> QED
      BY <3>1, <3>4, <3>5
  <2>4. CASE WriteOut \/ \E category \in Looked : GetJoinedCategoryNames(category)
    BY <2>4 DEF WriteOut, GetJoinedCategoryNames
  <2> QED
    BY <2>1, <2>2, <2>3, <2>4 DEF Next
<1>2. Spec => [][Justified]_vars
  BY <1>1, PTL DEF Spec
<1> QED
  BY <1>2 DEF FreeFlagFound
=============================================================================
