---------------------------- MODULE StateStorage ----------------------------
(***************************************************************************)
(* The state variables of a contract: the slots emitVarDecl gives them,    *)
(* and the words that assignments through ExprEmitter and ExprValue read   *)
(* and write there.                                                        *)
(*                                                                         *)
(* A word has WordBytes bytes of ByteBits bits, for 32 of 8 in the code.   *)
(* An address is an offset from slot 0 or from a hash; hashes are free of  *)
(* collisions, so a hash is what was hashed, the slot and the key (0 for   *)
(* none).  A location is a variable and the steps from it: an index, the   *)
(* number of a member, or a key.  A number stands for its bits, a string   *)
(* for the sequence of its bytes.  Arrays of strings or structs are left   *)
(* out: the compiler divides by zero over them (getBitNum is 0).           *)
(***************************************************************************)
EXTENDS ContractTypes, FiniteSets

CONSTANTS
  WordBytes,      \* bytes in a word of the storage
  ByteBits,       \* bits in a byte
  MaxDepth,       \* how deep types nest
  Types,          \* of the things at each depth, the variables being at 0
  Contracts,      \* [vars: the types of the state variables, indexBits: the
                  \*  width of the type of every index]
  Keys,           \* of mappings: positive numbers
  Strings,        \* that are assigned
  Junk,           \* what a word of the stack may hold that nobody wrote
  MaxAssigns      \* assignments in a run

VARIABLES
  contract,
  layout,         \* the slot of each variable declared so far
  cursor,         \* StateVarAddrCursor
  storage,        \* the words written, by address
  held,           \* what was assigned last to each location
  dirty,          \* the locations whose string went over junk that shows
  last,           \* the last access: [loc, ok], ok if no index was refused
  assigns         \* how many assignments there were

storageVars == <<contract, layout, cursor, storage, held, dirty, last, assigns>>

WordBits == WordBytes * ByteBits

BitNum(t) == IF t.cat \in Scalars THEN t.bits ELSE WordBits

(* What is inside a type is of the types one deeper. *)
NestsIn(inner, t) ==
  \/ t.cat \in Scalars /\ t.bits \in 1 .. WordBits
  \/ t.cat = "string"
  \/ t.cat = "mapping" /\ t.value \in inner
  \/ /\ t.cat = "array" /\ t.len \in Nat
     /\ t.elem \in inner /\ t.elem.cat \notin {"string", "struct"}
  \/ t.cat = "struct" /\ t.elems \in Seq(inner)

ASSUME WordAssumption == WordBytes \in Nat \ {0} /\ ByteBits \in Nat \ {0}
ASSUME TypesAssumption ==
  /\ MaxDepth \in Nat
  /\ \A d \in 0 .. MaxDepth : \A t \in Types[d] :
       NestsIn(IF d = MaxDepth THEN {} ELSE Types[d + 1], t)
ASSUME ContractsAssumption ==
  \A c \in Contracts : c.vars \in Seq(Types[0]) /\ c.indexBits \in Nat
ASSUME ValuesAssumption ==
  Keys \subseteq Nat \ {0} /\ Keys # {} /\ Junk \subseteq Nat

AllTypes == UNION {Types[d] : d \in 0 .. MaxDepth}

----------------------------------------------------------------------------
(* The slots of a type. *)

Mapping(key, value) == [cat |-> "mapping", key |-> key, value |-> value]

PerSlot(t) == WordBits \div BitNum(t.elem)

ArraySlotsRoundedDown(t) == t.len \div PerSlot(t)   \* Mutation: the last, partial
                                                   \* slot is missing.
ArraySlots(t) == (t.len + PerSlot(t) - 1) \div PerSlot(t)

(* In bytes; of a struct the number of its slots. *)
StorageSize(t) ==
  LET size[u \in AllTypes] ==
        CASE u.cat = "struct" -> Total([i \in DOMAIN u.elems |-> size[u.elems[i]] \div 32])
          [] u.cat = "array" /\ u.len # Unsized -> 32 * ArraySlots(u)
          [] OTHER -> 32
  IN  size[t]

StoragePos(t, i) == Total([j \in 1 .. i - 1 |-> StorageSize(t.elems[j]) \div 32])

----------------------------------------------------------------------------
(* Words. *)

Slot(n)      == [base |-> <<>>, off |-> n]
Plus(at, n)  == [at EXCEPT !.off = @ + n]
Hash(at, k)  == [base |-> Append(at.base, <<at.off, k>>), off |-> 0]

WordOf(words, at) == IF at \in DOMAIN words THEN words[at] ELSE 0
Update(f, x, v)   == [y \in {x} \cup DOMAIN f |-> IF y = x THEN v ELSE f[y]]

Pow2(n) == LET pow[i \in 0 .. n] == IF i = 0 THEN 1 ELSE 2 * pow[i - 1] IN pow[n]

Bytes == 0 .. Pow2(ByteBits) - 1

(* Twice the length of a string that fits a word fits the last byte.       *)
ASSUME StringsAssumption ==
  2 * (WordBytes - 1) \in Bytes /\ Strings \subseteq Seq(Bytes)

Bit(w, i) == (w \div Pow2(i)) % 2
Or(x, y) ==
  LET or[i \in 0 .. WordBits] ==
        IF i = 0 THEN 0
        ELSE or[i - 1] + (IF Bit(x, i - 1) + Bit(y, i - 1) = 0 THEN 0 ELSE Pow2(i - 1))
  IN  or[WordBits]

ByteAt(w, i)  == (w \div Pow2(ByteBits * (WordBytes - i))) % Pow2(ByteBits)
Over(s, junk) ==
  LET byte(i) == IF i <= Len(s) THEN s[i] ELSE ByteAt(junk, i)
      word[i \in 0 .. WordBytes] ==
        IF i = 0 THEN 0 ELSE word[i - 1] * Pow2(ByteBits) + byte(i)
  IN  word[WordBytes]

----------------------------------------------------------------------------
(* The place an expression of a location denotes: an ExprValue.  Elements  *)
(* narrower than half a word share one; the remainder of the index becomes *)
(* its Shift.                                                              *)

NoShift == -1

(* The length is made as wide as the index. *)
OutOfBoundLate(i, length, bits) == i > length % Pow2(bits)   \* Mutation.
OutOfBound(i, length, bits) == i >= length % Pow2(bits)

Element(c, words, a, i) ==
  LET t      == a.type
      begin  == IF t.len = Unsized THEN Hash(a.at, 0) ELSE a.at
      length == IF t.len = Unsized THEN WordOf(words, a.at) ELSE t.len
      shared == PerSlot(t) # 1
  IN  [type  |-> t.elem,
       at    |-> Plus(begin, IF shared THEN i \div PerSlot(t) ELSE i),
       shift |-> IF shared THEN i % PerSlot(t) ELSE NoShift,
       ok    |-> a.ok /\ ~ OutOfBound(i, length, c.indexBits)]

Member(a, i) ==
  [type |-> a.type.elems[i], at |-> Plus(a.at, StoragePos(a.type, i)),
   shift |-> a.shift, ok |-> a.ok]

Entry(a, k) ==
  [type |-> a.type.value, at |-> Hash(a.at, k), shift |-> a.shift, ok |-> a.ok]

(* Where loc leads in contract c, with its variables in slots and words in *)
(* the storage.                                                            *)
Variable(c, slots, v) ==
  [type |-> c.vars[v], at |-> Slot(slots[v]), shift |-> NoShift, ok |-> TRUE]
Follow(c, words, a, i) ==
  CASE a.type.cat = "mapping" -> Entry(a, i)
    [] a.type.cat = "array"   -> Element(c, words, a, i)
    [] a.type.cat = "struct"  -> Member(a, i)
Place(c, slots, words, loc) ==
  LET place[n \in 1 .. Len(loc)] ==
        IF n = 1 THEN Variable(c, slots, loc[1])
                 ELSE Follow(c, words, place[n - 1], loc[n])
  IN  place[Len(loc)]

Access(loc) == Place(contract, layout, storage, loc)

----------------------------------------------------------------------------
(* ExprValue::load: the values that may be read. *)

LoadString(words, at) ==
  LET word    == WordOf(words, at)
      inline  == word % 2 = 0
      n       == IF inline THEN (word % Pow2(ByteBits)) \div 2 ELSE word \div 2
      Part(i) == IF inline THEN word
                 ELSE WordOf(words, Plus(Hash(at, 0), (i - 1) \div WordBytes))
  IN  [i \in 1 .. n |-> ByteAt(Part(i), ((i - 1) % WordBytes) + 1)]

(* The shift counts bits, and is made as wide as the value: one as large   *)
(* as the value's width leaves it undefined.                               *)
Loads(words, a) ==
  IF a.type.cat = "string" THEN {LoadString(words, a.at)}
  ELSE LET value == WordOf(words, a.at) % Pow2(a.type.bits)
           by    == a.shift % Pow2(a.type.bits)
       IN  IF a.shift = NoShift THEN {value}
           ELSE IF by >= a.type.bits THEN 0 .. Pow2(a.type.bits) - 1
           ELSE {value \div Pow2(by)}

(* ExprValue::store.  The mask keeps what lies above the element; what     *)
(* lies below it is cleared as well.                                       *)
\* Mutation: nothing is cleared.
StoreNumberOver(words, a, v) ==
  Update(words, a.at, IF a.shift = NoShift THEN v
                      ELSE Or(WordOf(words, a.at), v * Pow2(a.shift)))
StoreNumber(words, a, v) ==
  LET old  == WordOf(words, a.at)
      keep == old - (old % Pow2(a.type.bits + a.shift))
  IN  Update(words, a.at, IF a.shift = NoShift THEN v ELSE keep + v * Pow2(a.shift))

Inline(s) == Len(s) < WordBytes
LengthByte(s, junk)  == Or(ByteAt(junk, WordBytes), 2 * Len(s))
LengthShows(s, junk) == LengthByte(s, junk) # 2 * Len(s)

(* A long string lies where its slot hashes to. *)
StoreString(words, at, s, junk) ==
  IF Inline(s)
  THEN LET word == Over(s, junk)
           low  == word % Pow2(ByteBits)
       IN  Update(words, at, (word - low) + LengthByte(s, junk))
  ELSE LET count   == (Len(s) + WordBytes - 1) \div WordBytes
           data    == {Plus(Hash(at, 0), i) : i \in 0 .. count - 1}
           part(i) == SubSeq(s, i * WordBytes + 1, Len(s))
           put     == Update(words, at, 2 * Len(s) + 1)
       IN  [x \in DOMAIN put \cup data |-> IF x \in data THEN Over(part(x.off), junk)
                                                       ELSE put[x]]

Stores(words, a, v, junk) ==
  IF a.type.cat = "string" THEN StoreString(words, a.at, v, junk)
                           ELSE StoreNumber(words, a, v)

----------------------------------------------------------------------------
(* Locations: those inside every array, and those up to slack beyond. *)

Components(t, slack) ==
  CASE t.cat = "mapping" -> {[step |-> k, type |-> t.value] : k \in Keys}
    [] t.cat = "array"   -> {[step |-> i, type |-> t.elem] : i \in 0 .. t.len + slack - 1}
    [] t.cat = "struct"  -> {[step |-> i, type |-> t.elems[i]] : i \in DOMAIN t.elems}
    [] OTHER -> {}

(* The locations so many steps inside a variable, with their types. *)
Variables(c) == {[loc |-> <<v>>, type |-> c.vars[v]] : v \in DOMAIN c.vars}
Inside(outer, slack) ==
  UNION {{[loc |-> Append(x.loc, p.step), type |-> p.type] : p \in Components(x.type, slack)}
           : x \in outer}
Level(c, slack, n) ==
  LET level[i \in 0 .. n] == IF i = 0 THEN Variables(c) ELSE Inside(level[i - 1], slack)
  IN  level[n]

Found(c, slack)   == UNION {Level(c, slack, n) : n \in 0 .. MaxDepth}
Locations(slack, wanted) == {x.loc : x \in {y \in Found(contract, slack) : y.type.cat \in wanted}}

Leaf     == Scalars \cup {"string"}
Leaves   == Locations(0, Leaf)
Indexable(loc) == \A i \in 2 .. Len(loc) : loc[i] < Pow2(contract.indexBits)
Attempts == {loc \in Locations(1, Leaf) : Indexable(loc)}

Unassigned(t) == IF t.cat = "string" THEN <<>> ELSE 0
ValuesOf(t) == IF t.cat = "string" THEN Strings ELSE {1, Pow2(t.bits) - 1}

----------------------------------------------------------------------------

StorageInit ==
  /\ contract \in Contracts
  /\ layout = <<>>
  /\ cursor = 0
  /\ storage = <<>>
  /\ held = <<>>
  /\ dirty = {}
  /\ last = [loc |-> <<>>, ok |-> TRUE]
  /\ assigns = 0

Declared == Len(layout) = Len(contract.vars)

DeclareVar ==
  /\ ~ Declared
  /\ layout' = Append(layout, cursor)
  /\ cursor' = cursor + StorageSize(contract.vars[Len(layout) + 1]) \div 32
  /\ UNCHANGED <<contract, storage, held, dirty, last, assigns>>

Running == Declared /\ last.ok /\ assigns < MaxAssigns

(* What becomes of the ghosts when a value goes to a location. *)
Holding(h, loc, v) == Update(h, loc, v)
Soiled(d, loc, v, junk) ==
  IF Access(loc).type.cat = "string" /\ Inline(v) /\ LengthShows(v, junk)
  THEN d \cup {loc} ELSE d \ {loc}

(* loc = v *)
Assign(loc, v, junk) ==
  /\ Access(loc).ok
  /\ storage' = Stores(storage, Access(loc), v, junk)
  /\ held' = Holding(held, loc, v)
  /\ dirty' = Soiled(dirty, loc, v, junk)
  /\ last' = [loc |-> loc, ok |-> TRUE]
  /\ assigns' = assigns + 1
  /\ UNCHANGED <<contract, layout, cursor>>

(* An index is refused: the contract reverts. *)
OutOfBoundRevert(loc) ==
  /\ ~ Access(loc).ok
  /\ last' = [loc |-> loc, ok |-> FALSE]
  /\ UNCHANGED <<contract, layout, cursor, storage, held, dirty, assigns>>

(* (x, y) = (y, x): both are loaded before the first is stored. *)
\* Mutation: each is loaded when it is stored.
StoredInTurn(x, y, vx, vy, junk) ==
  Stores(Stores(storage, Access(x), vy, junk), Access(y), vy, junk)
StoredBoth(x, y, vx, vy, junk) ==
  Stores(Stores(storage, Access(x), vy, junk), Access(y), vx, junk)
Swap(x, y, junk) ==
  /\ x # y
  /\ Access(x).type = Access(y).type
  /\ Access(x).ok /\ Access(y).ok
  /\ \E vx \in Loads(storage, Access(x)), vy \in Loads(storage, Access(y)) :
       /\ storage' = StoredBoth(x, y, vx, vy, junk)
       /\ held' = Holding(Holding(held, x, vy), y, vx)
       /\ dirty' = Soiled(Soiled(dirty, x, vy, junk), y, vx, junk)
  /\ last' = [loc |-> y, ok |-> TRUE]
  /\ assigns' = assigns + 1
  /\ UNCHANGED <<contract, layout, cursor>>

(* An assignment of structs copies member by member; of members that are   *)
(* structs, arrays or mappings an assertion fails.                         *)
Copyable(t) == t.cat = "struct" /\ \A i \in DOMAIN t.elems : t.elems[i].cat \in Leaf

CopyMember(c, to, from, i, junk) ==
  LET v == CHOOSE u \in Loads(c.words, Member(Access(from), i)) : TRUE
  IN  [words |-> Stores(c.words, Member(Access(to), i), v, junk),
       held  |-> Holding(c.held, Append(to, i), v),
       dirty |-> Soiled(c.dirty, Append(to, i), v, junk)]
CopyMembers(to, from, junk) ==
  LET n == Len(Access(to).type.elems)
      copy[i \in 0 .. n] ==
        IF i = 0 THEN [words |-> storage, held |-> held, dirty |-> dirty]
                 ELSE CopyMember(copy[i - 1], to, from, i, junk)
  IN  copy[n]

CopyStruct(to, from, junk) ==
  /\ to # from
  /\ Access(to).type = Access(from).type
  /\ Copyable(Access(to).type)
  /\ Access(to).ok /\ Access(from).ok
  /\ LET copied == CopyMembers(to, from, junk)
     IN  storage' = copied.words /\ held' = copied.held /\ dirty' = copied.dirty
  /\ last' = [loc |-> to, ok |-> TRUE]
  /\ assigns' = assigns + 1
  /\ UNCHANGED <<contract, layout, cursor>>

StoppedStorage == /\ Declared
                  /\ ~ last.ok \/ assigns = MaxAssigns
                  /\ UNCHANGED storageVars

StorageNext ==
  \/ DeclareVar
  \/ Running /\ \E loc \in Attempts :
       \/ OutOfBoundRevert(loc)
       \/ \E v \in ValuesOf(Access(loc).type), junk \in Junk : Assign(loc, v, junk)
  \/ Running /\ \E x \in Leaves, y \in Leaves, junk \in Junk : Swap(x, y, junk)
  \/ Running /\ \E to \in Locations(0, {"struct"}), from \in Locations(0, {"struct"}),
                   junk \in Junk : CopyStruct(to, from, junk)
  \/ StoppedStorage

StorageSpec == StorageInit /\ [][StorageNext]_storageVars

----------------------------------------------------------------------------
(* What occupies storage on its own: leaves, and the slots of mappings and *)
(* dynamic arrays, which are hashed.                                       *)
Occupants == Locations(0, Leaf \cup {"mapping"})
               \cup {loc \in Locations(0, {"array"}) : Access(loc).type.len = Unsized}

Neighbours(l, m) ==     \* of one array, in one word by intention
  Front(l) = Front(m) /\ Access(l).shift # NoShift
Apart ==
  \A l, m \in Occupants :
    l = m \/ Access(l).at # Access(m).at \/ (Len(l) = Len(m) /\ Neighbours(l, m))

(* How many slots a type needs, its elements side by side. *)
Extent(t) ==
  LET extent[u \in AllTypes] ==
        CASE u.cat = "array" /\ u.len # Unsized ->
               IF PerSlot(u) # 1 THEN ArraySlots(u) ELSE u.len * extent[u.elem]
          [] u.cat = "struct" -> Total([i \in DOMAIN u.elems |-> extent[u.elems[i]]])
          [] OTHER -> 1
  IN  extent[t]

(* Types for which the code leaves less room than that: a struct, whose    *)
(* number of slots it takes for a number of bytes, and an array of fixed   *)
(* arrays, for whose elements it counts a slot each.                       *)
Short(t) == \/ t.cat = "struct" /\ Extent(t) > 0
            \/ t.cat = "array" /\ t.len # Unsized /\ Extent(t.elem) > 1
ShortBeforeOther(ts) ==
  \E j \in DOMAIN ts : Extent(ts[j]) > 0 /\ \E i \in 1 .. j - 1 : Short(ts[i])

Overlaps(t) ==
  LET overlaps[u \in AllTypes] ==
        CASE u.cat = "array"   -> /\ u.len # Unsized
                                  /\ overlaps[u.elem] \/ (u.len > 1 /\ Short(u))
          [] u.cat = "struct"  -> ShortBeforeOther(u.elems)
                                    \/ \E i \in DOMAIN u.elems : overlaps[u.elems[i]]
          [] u.cat = "mapping" -> overlaps[u.value]
          [] OTHER -> FALSE
  IN  overlaps[t]

(* No two variables, members, elements or entries share a slot, except     *)
(* that everything behind a struct, or behind an array of fixed arrays,    *)
(* overlaps with it, and the elements of such an array with one another.   *)
(* (CodeGenModule::emitVarDecl, Type::getStorageSize.)                     *)
SlotsAreApart ==
  Declared =>
    (Apart <=> /\ ~ ShortBeforeOther(contract.vars)
               /\ \A v \in DOMAIN contract.vars : ~ Overlaps(contract.vars[v]))

(* In a contract whose slots are apart every location that does not share  *)
(* a word reads what was assigned to it last, and nothing if nothing was,  *)
(* whatever has been assigned, exchanged or copied elsewhere; except for a *)
(* short string over a byte of the stack that leaves bits in its length,   *)
(* which reads as something else unless all its bytes are 0.               *)
(* (ExprValue::load and store.)                                            *)
ReadsLastAssigned ==
  Declared /\ Apart =>
    \A loc \in Leaves :
      LET a == Access(loc)
          wanted == IF loc \in DOMAIN held THEN held[loc] ELSE Unassigned(a.type)
          reads  == Loads(storage, a) = {wanted}
      IN  a.shift = NoShift => /\ loc \notin dirty => reads
                               /\ loc \in dirty /\ ToSet(wanted) \ {0} # {} => ~ reads

(* Of an array with several elements in a word, the element assigned last  *)
(* reads back if and only if its value survives being shifted left within  *)
(* its own width by its place in the word.                                 *)
(* (ExprEmitter::arrayIndexAccess, ExprValue::load and store.)             *)
PackedReadsBack ==
  (last.loc # <<>> /\ last.ok) =>
    LET a == IF last.loc \in Leaves THEN Access(last.loc) ELSE [shift |-> NoShift]
    IN  a.shift # NoShift =>
          ((Loads(storage, a) = {held[last.loc]})
             <=> /\ held[last.loc] * Pow2(a.shift) < Pow2(a.type.bits)
                 /\ a.shift % Pow2(a.type.bits) < a.type.bits)

(* An index beyond the end is always refused, also of an array of dynamic  *)
(* size, which nothing can lengthen; one inside is accepted if the length  *)
(* can be written in the type of the index.                                *)
(* (ExprEmitter::emitCheckArrayOutOfBound.)                                *)
IndexIsChecked ==
  (last.loc # <<>> /\ Apart) =>
    LET fits == \A loc \in Locations(0, {"array"}) :
                  Access(loc).type.len < Pow2(contract.indexBits)
    IN  /\ last.ok => last.loc \in Leaves \cup Locations(0, {"struct"})
        /\ ~ last.ok /\ last.loc \in Leaves => ~ fits
=============================================================================
