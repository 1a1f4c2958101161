---------------------------- MODULE CategoryNames ----------------------------
(***************************************************************************)
(* impl::write_out::category_name_map: the names of the categories of one  *)
(* file sink.  They are registered while the sink is in use and looked up  *)
(* while its destructor writes its events out.  A registration is atomic:  *)
(* file_sink::register_category_name holds the sink's mutex.               *)
(* A category_flag is the set of the indices of its bits.                  *)
(***************************************************************************)
EXTENDS Naturals, Sequences, FiniteSets

CONSTANTS
  Letter, Digit,        (* Characters isalpha, and only isalnum, accept.   *)
  Name,                 (* Names callers try to register.                  *)
  Category,             (* Flags callers pass, {} is category_flag_none.   *)
  Looked,               (* Flags of the events that are written out.       *)
  NumCategories,        (* Bits of a flag, 32.                             *)
  MaxUserCategories,    (* Bits callers may name, 30.                      *)
  ReservedName          (* The names of the other bits, by index.          *)

NoName == <<>>   (* The empty string. *)
NoFlag == {}     (* category_flag_none *)

Index == 0 .. NumCategories - 1
UserIndex == 0 .. MaxUserCategories - 1

ASSUME CategoryAssumption ==
  /\ NumCategories \in Nat /\ MaxUserCategories \in Nat
  /\ 0 < MaxUserCategories /\ MaxUserCategories <= NumCategories
  /\ Name \subseteq Seq(STRING)
  /\ Category \subseteq SUBSET Index /\ Looked \subseteq SUBSET Index
  /\ ReservedName \in [Index \ UserIndex -> Seq(STRING) \ {NoName}]

VARIABLES
  names,        (* The vector of names, index i at position i + 1.         *)
  built_names,  (* The cache: flags to joined names.                       *)
  stage,        (* "open", "writing" or "terminated".                      *)
  by_handle,    (* Is the sink a local one, used through a handle?         *)
  last          (* The last registration and what came of it.              *)

vars == <<names, built_names, stage, by_handle, last>>

Refused == NoFlag   (* The registration threw; no other one returns this. *)
NoCall == [category |-> NoFlag, name |-> NoName, rename |-> FALSE,
           result |-> Refused]

Init ==
  /\ names = <<>>
  /\ built_names = <<>>
  /\ stage = "open"
  /\ by_handle \in BOOLEAN
  /\ last = NoCall

-----------------------------------------------------------------------------
IsNameValid(name) ==
  /\ name # NoName
  /\ name[1] \in Letter
  /\ \A k \in 2 .. Len(name) : name[k] \in Letter \cup Digit \cup {"-", "_"}

MutantIsNameUsed(name) == \E k \in DOMAIN names : k > 1 /\ names[k] = name

IsNameUsed(name) == \E k \in DOMAIN names : names[k] = name

IsOneBitSet(category) == Cardinality(category) = 1

BitToIndex(category) == CHOOSE i \in category : category = {i}

Registered(i) == i < Len(names) /\ names[i + 1] # NoName

MutantIsUserBit(category) ==
  IsOneBitSet(category) /\ BitToIndex(category) <= MaxUserCategories

IsUserBit(category) ==
  IsOneBitSet(category) /\ BitToIndex(category) < MaxUserCategories

MutantMayName(i, rename) == TRUE

MayName(i, rename) == Registered(i) => rename

MutantFree == {i \in UserIndex : i >= Len(names)}

(* What the loop over the user categories takes, the least one first. *)
Free == {i \in UserIndex : ~Registered(i)}

(* names after resize(n) where that makes it longer. *)
Resized(n) ==
  [k \in 1 .. IF n > Len(names) THEN n ELSE Len(names) |->
     IF k <= Len(names) THEN names[k] ELSE NoName]

Store(i, name) == names' = [Resized(i + 1) EXCEPT ![i + 1] = name]

Returned(category, name, rename, result) ==
  last' = [category |-> category, name |-> name, rename |-> rename,
           result |-> result]

MutantMayRegister == stage # "terminated"

(* The sink is alive: calls on it do not race its destructor. *)
MayRegister == stage = "open"

(* category is category_flag_none. *)
RegisterNext(name, rename) ==
  /\ MayRegister
  /\ IsNameValid(name) /\ ~IsNameUsed(name)
  /\ \E i \in Free :
       /\ \A j \in Free : i <= j
       /\ Store(i, name)
       /\ Returned(NoFlag, name, rename, {i})
  /\ UNCHANGED <<built_names, stage, by_handle>>

RegisterAt(category, name, rename) ==
  /\ MayRegister
  /\ IsNameValid(name) /\ ~IsNameUsed(name)
  /\ IsUserBit(category)
  /\ MayName(BitToIndex(category), rename)
  /\ Store(BitToIndex(category), name)
  /\ Returned(category, name, rename, category)
  /\ UNCHANGED <<built_names, stage, by_handle>>

(* The names when the checks of register_category_name fail.  The last of  *)
(* them follows the resize.                                                *)
MutantNamesRefused(category, name, rename) ==
  IF IsOneBitSet(category) THEN Resized(BitToIndex(category) + 1) ELSE names

NamesRefused(category, name, rename) ==
  IF IsNameValid(name) /\ ~IsNameUsed(name) /\ IsUserBit(category)
  THEN Resized(BitToIndex(category) + 1)
  ELSE names

MustRefuse(category, name, rename) ==
  \/ ~IsNameValid(name)
  \/ IsNameUsed(name)
  \/ category = NoFlag /\ Free = {}
  \/ category # NoFlag /\ ~IsUserBit(category)
  \/ IsUserBit(category) /\ ~MayName(BitToIndex(category), rename)

(* The exception reaches the caller of output::register_category_name; the *)
(* function of a handle is noexcept and the process terminates.            *)
Refuse(category, name, rename) ==
  /\ MayRegister
  /\ MustRefuse(category, name, rename)
  /\ names' = NamesRefused(category, name, rename)
  /\ Returned(category, name, rename, Refused)
  /\ stage' = IF by_handle THEN "terminated" ELSE stage
  /\ UNCHANGED <<built_names, by_handle>>

(* ~file_sink: write_out_events. *)
WriteOut ==
  /\ stage = "open"
  /\ stage' = "writing"
  /\ UNCHANGED <<names, built_names, by_handle, last>>

NameOf(i) ==
  IF i \in DOMAIN ReservedName THEN ReservedName[i]
  ELSE IF i < Len(names) THEN names[i + 1] ELSE NoName

(* The names of a flag's bits; bits without one are skipped.  They are     *)
(* joined in the order of the bits, which is not kept here.                *)
Joined(category) ==
  [i \in {j \in category : NameOf(j) # NoName} |-> NameOf(i)]

(* The first lookup of a flag; later ones return the cached string. *)
GetJoinedCategoryNames(category) ==
  /\ stage = "writing"
  /\ category \notin DOMAIN built_names
  /\ built_names' = [c \in DOMAIN built_names \cup {category} |->
                       IF c = category THEN Joined(c) ELSE built_names[c]]
  /\ UNCHANGED <<names, stage, by_handle, last>>

Next ==
  \/ \E name \in Name, rename \in BOOLEAN : RegisterNext(name, rename)
  \/ \E category \in Category, name \in Name, rename \in BOOLEAN :
       \/ RegisterAt(category, name, rename)
       \/ Refuse(category, name, rename)
  \/ WriteOut
  \/ \E category \in Looked : GetJoinedCategoryNames(category)

Spec == Init /\ [][Next]_vars
-----------------------------------------------------------------------------
(* The table never grows past the user categories, which a loop over it    *)
(* and the flags handed out rely on; every flag handed out has one bit.    *)
TypeOK ==
  /\ names \in Seq(Name \cup {NoName})
  /\ Len(names) <= MaxUserCategories
  /\ DOMAIN built_names \subseteq Looked
  /\ stage \in {"open", "writing", "terminated"}
  /\ by_handle \in BOOLEAN
  /\ last.result # Refused => \E i \in UserIndex : last.result = {i}

(* "must be unique" (categories.hxx:39), across free flags, chosen flags   *)
(* and renames: no two user categories ever have the same name.            *)
UniqueNames ==
  \A i, j \in UserIndex :
    Registered(i) /\ Registered(j) /\ names[i + 1] = names[j + 1] => i = j

(* What the output says of an event's categories is what they are called:  *)
(* the cache, which a rename does not reset, is never out of date.  This   *)
(* rests on file_sink, which looks names up in its destructor only.        *)
NamesCurrent == \A c \in DOMAIN built_names : built_names[c] = Joined(c)

(* A category that a caller was handed keeps its name, whoever registers   *)
(* others, unless it is renamed by a call that names it and allows that.   *)
OnlyRenamedOnRequest ==
  [][\A i \in UserIndex : Registered(i) /\ names'[i + 1] # names[i + 1] =>
       last'.category = {i} /\ last'.rename /\ last'.result = {i}]_vars

(* A refused registration changes no category: the caller may go on as if  *)
(* it had not been made (register_category_name resizes the table before   *)
(* its last check).                                                        *)
RefusalChangesNothing ==
  [][last'.result = Refused => names' = names]_vars

(* A caller who leaves the choice to the map only runs out of flags when   *)
(* all user categories have a name, also those left out by explicit        *)
(* registrations of higher ones.                                           *)
FreeFlagFound ==
  [][(last' # last /\ last'.category = NoFlag /\ last'.result = Refused) =>
       \/ ~IsNameValid(last'.name) \/ IsNameUsed(last'.name)
       \/ \A i \in UserIndex : Registered(i)]_vars

(* categories.hxx:39 says that the name of a category "must be unique" and *)
(* that the registration throws otherwise: no two categories are written   *)
(* under one name, the reserved ones included.                             *)
DistinctNames ==
  \A i, j \in Index : NameOf(i) # NoName /\ NameOf(i) = NameOf(j) => i = j
=============================================================================
