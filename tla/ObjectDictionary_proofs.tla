----------------------- MODULE ObjectDictionary_proofs -----------------------
(***************************************************************************)
(* Proofs about ObjectDictionary: for any number of dictionaries, buffers, *)
(* indices and names and lists of any length, no pointer leaves its own    *)
(* dictionary, and the dictionaries behave as values.                      *)
(***************************************************************************)
EXTENDS ObjectDictionary, SequenceTheorems, WellFoundedInduction, TLAPS

\* A list of entries, as a sequence.
LEMMA ListFacts ==
    ASSUME NEW list \in Lists
    PROVE  /\ list \in Seq(Entries)
           /\ Len(list) \in 0..MaxEntries
           /\ DOMAIN list = 1..Len(list) /\ DOMAIN list \subseteq Nat
           /\ \A i \in DOMAIN list : list[i] \in Entries
<1>1. PICK n \in 0..MaxEntries : list \in [1..n -> Entries]  BY DEF Lists
<1>2. n \in Nat  BY <1>1, BoundAssumption
<1>3. list \in Seq(Entries)  BY <1>1, <1>2
<1>4. Len(list) = n  BY <1>1, <1>2, <1>3
<1> QED BY <1>1, <1>2, <1>3, <1>4

\* A sequence of entries that is short enough is a list.
LEMMA ListsAre ==
    ASSUME NEW n \in 0..MaxEntries, NEW list \in [1..n -> Entries]
    PROVE  list \in Lists
  BY DEF Lists

\* The empty list is a list.
LEMMA EmptyList == <<>> \in Lists /\ DOMAIN <<>> = {} /\ Len(<<>>) = 0
<1>1. <<>> \in [1..0 -> Entries]  BY SMT
<1>2. 0 \in 0..MaxEntries  BY BoundAssumption
<1>3. <<>> \in Lists  BY <1>1, <1>2, ListsAre
<1>4. DOMAIN <<>> = {} /\ Len(<<>>) = 0  BY SMT
<1> QED BY <1>3, <1>4

\* A key of a list has a first position.
LEMMA FirstExists ==
    ASSUME NEW list \in Lists, NEW field, NEW key \in Keys(list, field)
    PROVE  \E i \in DOMAIN list :
               /\ list[i][field] = key
               /\ \A j \in DOMAIN list : list[j][field] = key => i <= j
<1> DEFINE Positions == {i \in DOMAIN list : list[i][field] = key}
<1>1. Positions # {}  BY DEF Keys
<1>2. Positions \subseteq Nat  BY ListFacts
<1>3. PICK i \in Positions : \A j \in Positions : ~(<<j, i>> \in OpToRel(<, Nat))
  <2> HIDE DEF Positions
  <2> QED BY <1>1, <1>2, WFMin, NatLessThanWellFounded
<1>4. \A j \in Positions : ~(j < i)  BY <1>2, <1>3 DEF OpToRel
<1>5. \A j \in Positions : i <= j
  <2> HIDE DEF Positions
  <2>1. i \in Nat /\ \A j \in Positions : j \in Nat  BY <1>2, <1>3
  <2> QED BY <1>4, <2>1
<1> QED BY <1>3, <1>5

\* What the maps of a list hold: the first position of every key.
LEMMA EmplacedFacts ==
    ASSUME NEW b, NEW list \in Lists, NEW field,
           NEW key \in Keys(list, field)
    PROVE  /\ Emplaced(b, list, field)[key].in = b
           /\ Emplaced(b, list, field)[key].at \in DOMAIN list
           /\ Emplaced(b, list, field)[key].at = Table!FirstWith(list, field, key)
<1> DEFINE first == CHOOSE i \in DOMAIN list :
                       /\ list[i][field] = key
                       /\ \A j \in DOMAIN list : list[j][field] = key => i <= j
<1>1. first \in DOMAIN list  BY FirstExists
<1>2. Emplaced(b, list, field)[key] = [in |-> b, at |-> first]  BY DEF Emplaced
<1>3. first = Table!FirstWith(list, field, key)  BY DEF Table!FirstWith
<1> QED BY <1>1, <1>2, <1>3

\* The keys of the maps.
LEMMA EmplacedDomain ==
    ASSUME NEW b, NEW list, NEW field
    PROVE  DOMAIN Emplaced(b, list, field) = Keys(list, field)
  BY DEF Emplaced

\* An empty list has no pointers.
LEMMA EmptyMaps ==
    ASSUME NEW b, NEW field
    PROVE  Emplaced(b, <<>>, field) = NoPointers /\ DOMAIN NoPointers = {}
<1>1. \A f : Keys(<<>>, f) = {}  BY EmptyList DEF Keys
<1>2. Emplaced(b, <<>>, field) = [key \in {} |-> key]  BY <1>1 DEF Emplaced
<1>3. NoPointers = [key \in {} |-> key]  BY <1>1 DEF Emplaced, NoPointers
<1> QED BY <1>2, <1>3

\* The keys of a list are indices or names.
LEMMA KeysAre ==
    ASSUME NEW list \in Lists
    PROVE  Keys(list, "index") \subseteq Indices /\ Keys(list, "name") \subseteq Names
  BY ListFacts DEF Keys, Entries

-----------------------------------------------------------------------------
(* One dictionary, and what a step leaves alone.                           *)

\* The pointers of a map are well-formed and lead into o's own vector.
OwnPointers(map, o) ==
    \A key \in DOMAIN map :
        map[key] \in Pointers /\ map[key].in = buffer[o] /\ Live(map[key])

\* The maps of o, as IInv has them.
MapsOK(o) ==
    /\ DOMAIN indexMap[o] \subseteq Indices /\ DOMAIN nameMap[o] \subseteq Names
    /\ OwnPointers(indexMap[o], o) /\ OwnPointers(nameMap[o], o)

Rebuilt(o) ==
    /\ indexMap[o] = Emplaced(buffer[o], Stored(o), "index")
    /\ nameMap[o] = Emplaced(buffer[o], Stored(o), "name")

\* The types without those of the maps.
PlainTypes ==
    /\ alive \subseteq Objects /\ spoiled \subseteq alive
    /\ heap \in [Buffers -> Lists]
    /\ allocated \subseteq Buffers
    /\ buffer \in [Objects -> Buffers \cup {NoBuffer}]
    /\ DOMAIN indexMap = Objects /\ DOMAIN nameMap = Objects

\* IInv, dictionary by dictionary.
LEMMA IInvParts ==
    IInv <=> /\ PlainTypes /\ BuffersOwned
             /\ \A o \in Objects : MapsOK(o) /\ (o \notin spoiled => Rebuilt(o))
<1> USE DEF IInv, TypeOK, MapsRebuilt, PointersAreOwn, PlainTypes, MapsOK, OwnPointers, Rebuilt
<1>1. ASSUME IInv
      PROVE  /\ PlainTypes /\ BuffersOwned
             /\ \A o \in Objects : MapsOK(o) /\ (o \notin spoiled => Rebuilt(o))
  BY <1>1
<1>2. ASSUME PlainTypes, BuffersOwned,
             \A o \in Objects : MapsOK(o) /\ (o \notin spoiled => Rebuilt(o))
      PROVE  IInv
  BY <1>2
<1> QED BY <1>1, <1>2

\* As one formula, so that it can be primed.
InvParts ==
    /\ PlainTypes /\ BuffersOwned
    /\ \A o \in Objects : MapsOK(o) /\ (o \notin spoiled => Rebuilt(o))

\* The same of the state after a step.
LEMMA IInvPartsNext == InvParts' => IInv'
<1>1. InvParts => IInv  BY IInvParts DEF InvParts
<1> QED BY <1>1, PTL

\* What an object stores is a list.
LEMMA StoredFacts ==
    ASSUME IInv, NEW o \in Objects
    PROVE  Stored(o) \in Lists
  BY EmptyList DEF Stored, IInv, TypeOK

\* The vector of q stays as it is.
KeepsVector(q) ==
    /\ buffer'[q] = buffer[q]
    /\ buffer[q] # NoBuffer => buffer[q] \in allocated' /\ heap'[buffer[q]] = heap[buffer[q]]

\* And so do its maps.
Untouched(q) ==
    KeepsVector(q) /\ indexMap'[q] = indexMap[q] /\ nameMap'[q] = nameMap[q]

\* A map whose pointers lead into a vector that stays finds what it found.
LEMMA KeptMap ==
    ASSUME IInv, NEW map, NEW q \in Objects, OwnPointers(map, q),
           NEW o, buffer'[o] = buffer[q],
           buffer[q] # NoBuffer =>
               buffer[q] \in allocated' /\ heap'[buffer[q]] = heap[buffer[q]]
    PROVE  /\ \A key \in DOMAIN map :
                /\ map[key] \in Pointers /\ map[key].in = buffer'[o]
                /\ map[key].in \in allocated' /\ map[key].at \in DOMAIN heap'[map[key].in]
                /\ heap'[map[key].in][map[key].at] = heap[map[key].in][map[key].at]
                /\ Live(map[key])
  BY BufferAssumption DEF OwnPointers, Live, IInv, TypeOK

\* A dictionary that is not touched has the same entries and finds the same.
LEMMA UntouchedFacts ==
    ASSUME IInv, NEW q \in Objects, Untouched(q)
    PROVE  /\ Stored(q)' = Stored(q)
           /\ Found(indexMap[q])' = Found(indexMap[q])
           /\ Found(nameMap[q])' = Found(nameMap[q])
           /\ MapsOK(q)'
           /\ q \notin spoiled => Rebuilt(q)'
<1>1. MapsOK(q) /\ (q \notin spoiled => Rebuilt(q))  BY IInvParts
<1>2. /\ buffer'[q] = buffer[q]
      /\ buffer[q] # NoBuffer => buffer[q] \in allocated' /\ heap'[buffer[q]] = heap[buffer[q]]
      /\ indexMap'[q] = indexMap[q] /\ nameMap'[q] = nameMap[q]
  BY DEF Untouched, KeepsVector
<1>3. Stored(q)' = Stored(q)  BY <1>2 DEF Stored
<1>4. \A key \in DOMAIN indexMap[q] :
        /\ indexMap[q][key] \in Pointers /\ indexMap[q][key].in = buffer'[q]
        /\ indexMap[q][key].in \in allocated'
        /\ indexMap[q][key].at \in DOMAIN heap'[indexMap[q][key].in]
        /\ heap'[indexMap[q][key].in][indexMap[q][key].at]
             = heap[indexMap[q][key].in][indexMap[q][key].at]
        /\ Live(indexMap[q][key])
  BY <1>1, <1>2, KeptMap DEF MapsOK
<1>5. \A key \in DOMAIN nameMap[q] :
        /\ nameMap[q][key] \in Pointers /\ nameMap[q][key].in = buffer'[q]
        /\ nameMap[q][key].in \in allocated'
        /\ nameMap[q][key].at \in DOMAIN heap'[nameMap[q][key].in]
        /\ heap'[nameMap[q][key].in][nameMap[q][key].at]
             = heap[nameMap[q][key].in][nameMap[q][key].at]
        /\ Live(nameMap[q][key])
  BY <1>1, <1>2, KeptMap DEF MapsOK
<1>6. Found(indexMap[q])' = Found(indexMap[q])  BY <1>2, <1>4 DEF Found, Live
<1>7. Found(nameMap[q])' = Found(nameMap[q])  BY <1>2, <1>5 DEF Found, Live
<1>8. MapsOK(q)'  BY <1>1, <1>2, <1>4, <1>5 DEF MapsOK, OwnPointers, Live
<1>9. q \notin spoiled => Rebuilt(q)'  BY <1>1, <1>2, <1>3 DEF Rebuilt
<1> QED BY <1>3, <1>6, <1>7, <1>8, <1>9

-----------------------------------------------------------------------------
(* Filling a vector and making its maps.                                   *)

\* The vector of o holds list, and is o's alone.
Holds(o, list) ==
    /\ heap' \in [Buffers -> Lists]
    /\ allocated' \subseteq Buffers
    /\ buffer' \in [Objects -> Buffers \cup {NoBuffer}]
    /\ Stored(o)' = list
    /\ buffer'[o] # NoBuffer => buffer'[o] \in allocated'
    /\ \A q \in Objects \ {o} :
         KeepsVector(q) /\ (buffer'[q] = buffer'[o] => buffer'[q] = NoBuffer)

\* Whichever way the vector is filled, it holds the list in a buffer of its own.
LEMMA FillsFacts ==
    ASSUME IInv, NEW o \in Objects, NEW list \in Lists, Fills(o, list)
    PROVE  Holds(o, list)
<1> USE DEF Holds, Stored, KeepsVector
<1>1. PlainTypes /\ BuffersOwned  BY IInvParts
<1>2. CASE list = <<>> /\ buffer[o] = NoBuffer /\ UNCHANGED <<heap, allocated, buffer>>
  BY <1>1, <1>2 DEF PlainTypes, BuffersOwned
<1>3. CASE /\ buffer[o] # NoBuffer
           /\ heap' = [heap EXCEPT ![buffer[o]] = list]
           /\ UNCHANGED <<allocated, buffer>>
  BY <1>1, <1>3 DEF PlainTypes, BuffersOwned
<1>4. ASSUME NEW b \in Buffers \ allocated, list # <<>>,
             heap' = [heap EXCEPT ![b] = list],
             allocated' = (allocated \ {buffer[o]}) \cup {b},
             buffer' = [buffer EXCEPT ![o] = b]
      PROVE  Holds(o, list)
  <2>1. b # NoBuffer /\ b \notin allocated  BY <1>4, BufferAssumption
  <2>2. \A q \in Objects \ {o} : KeepsVector(q)
    BY <1>1, <1>4, <2>1 DEF PlainTypes, BuffersOwned
  <2>3. \A q \in Objects \ {o} : buffer'[q] # b
    BY <1>1, <1>4, <2>1 DEF PlainTypes, BuffersOwned
  <2>4. /\ heap' \in [Buffers -> Lists] /\ allocated' \subseteq Buffers
        /\ buffer' \in [Objects -> Buffers \cup {NoBuffer}]
        /\ buffer'[o] = b /\ heap'[b] = list /\ b \in allocated'
    BY <1>1, <1>4 DEF PlainTypes
  <2> QED BY <2>1, <2>2, <2>3, <2>4
<1> QED BY <1>2, <1>3, <1>4 DEF Fills

\* Pointers to the elements of a list that is a part of the vector lead into it.
LEMMA MadeMap ==
    ASSUME NEW o \in Objects, NEW stored \in Lists, Holds(o, stored),
           NEW list \in Lists, DOMAIN list \subseteq DOMAIN stored,
           NEW field, NEW map, map = Emplaced(buffer'[o], list, field)
    PROVE  \A key \in DOMAIN map :
               /\ map[key] \in Pointers /\ map[key].in = buffer'[o]
               /\ map[key].in \in allocated' /\ map[key].at \in DOMAIN heap'[map[key].in]
<1> SUFFICES ASSUME NEW key \in DOMAIN map
             PROVE  /\ map[key] \in Pointers /\ map[key].in = buffer'[o]
                    /\ map[key].in \in allocated'
                    /\ map[key].at \in DOMAIN heap'[map[key].in]
  OBVIOUS
<1>1. key \in Keys(list, field)  BY EmplacedDomain
<1>2. map[key].in = buffer'[o] /\ map[key].at \in DOMAIN list  BY <1>1, EmplacedFacts
<1>3. map[key] \in Pointers
  <2>1. map[key] = [in |-> map[key].in, at |-> map[key].at]  BY <1>1 DEF Emplaced
  <2>2. map[key].at \in Nat  BY <1>2, ListFacts
  <2>3. buffer'[o] \in Buffers \cup {NoBuffer}  BY DEF Holds
  <2> QED BY <1>2, <2>1, <2>2, <2>3 DEF Pointers
<1>4. buffer'[o] # NoBuffer  BY <1>2, EmptyList DEF Holds, Stored
<1>5. stored = heap'[buffer'[o]]  BY <1>4 DEF Holds, Stored
<1> QED BY <1>2, <1>3, <1>4, <1>5 DEF Holds

\* After rebuild_lookup() the maps of o are in order.
LEMMA RebuildFacts ==
    ASSUME IInv, NEW o \in Objects, NEW list \in Lists, Holds(o, list), Rebuild(o, list)
    PROVE  MapsOK(o)' /\ Rebuilt(o)' /\ \A q \in Objects \ {o} : Untouched(q)
<1>1. DOMAIN indexMap = Objects /\ DOMAIN nameMap = Objects  BY DEF IInv, TypeOK
<1>2. /\ indexMap'[o] = Emplaced(buffer'[o], list, "index")
      /\ nameMap'[o] = Emplaced(buffer'[o], list, "name")
  BY <1>1 DEF Rebuild
<1>3. MapsOK(o)'
  <2>1. DOMAIN indexMap'[o] \subseteq Indices /\ DOMAIN nameMap'[o] \subseteq Names
    BY <1>2, EmplacedDomain, KeysAre
  <2>2. OwnPointers(indexMap[o], o)'  BY <1>2, MadeMap DEF OwnPointers, Live
  <2>3. OwnPointers(nameMap[o], o)'  BY <1>2, MadeMap DEF OwnPointers, Live
  <2> QED BY <2>1, <2>2, <2>3 DEF MapsOK
<1>4. Rebuilt(o)'  BY <1>2 DEF Rebuilt, Holds
<1>5. \A q \in Objects \ {o} : Untouched(q)  BY <1>1 DEF Rebuild, Untouched, Holds
<1> QED BY <1>3, <1>4, <1>5

\* The first elements of a list.
LEMMA PrefixFacts ==
    ASSUME NEW list \in Lists, NEW i \in 0..Len(list)
    PROVE  SubSeq(list, 1, i) \in Lists /\ DOMAIN SubSeq(list, 1, i) \subseteq DOMAIN list
<1>1. /\ list \in Seq(Entries) /\ Len(list) \in 0..MaxEntries
      /\ DOMAIN list = 1..Len(list)
  BY ListFacts
<1>2. /\ SubSeq(list, 1, i) \in Seq(Entries)
      /\ Len(SubSeq(list, 1, i)) = i
  BY <1>1, SMT
<1>3. SubSeq(list, 1, i) \in [1..i -> Entries]  BY <1>2, LenProperties
<1>4. i \in 0..MaxEntries /\ 1..i \subseteq 1..Len(list)  BY <1>1, BoundAssumption
<1> QED BY <1>1, <1>3, <1>4, ListsAre

\* A rebuild_lookup() that throws leaves a part of the pointers.
LEMMA RebuildThrowsFacts ==
    ASSUME IInv, NEW o \in Objects, NEW list \in Lists, Holds(o, list),
           RebuildThrows(o, list)
    PROVE  MapsOK(o)' /\ \A q \in Objects \ {o} : Untouched(q)
<1>1. DOMAIN indexMap = Objects /\ DOMAIN nameMap = Objects  BY DEF IInv, TypeOK
<1>2. PICK i \in 0..Len(list), n \in 0..Len(list) :
        /\ indexMap' = [indexMap EXCEPT
                           ![o] = Emplaced(buffer'[o], SubSeq(list, 1, i), "index")]
        /\ nameMap' = [nameMap EXCEPT
                           ![o] = Emplaced(buffer'[o], SubSeq(list, 1, n), "name")]
  BY DEF RebuildThrows
<1> DEFINE indices == SubSeq(list, 1, i)
           names == SubSeq(list, 1, n)
<1>3. /\ indices \in Lists /\ DOMAIN indices \subseteq DOMAIN list
      /\ names \in Lists /\ DOMAIN names \subseteq DOMAIN list
  BY PrefixFacts
<1>4. /\ indexMap'[o] = Emplaced(buffer'[o], indices, "index")
      /\ nameMap'[o] = Emplaced(buffer'[o], names, "name")
  BY <1>1, <1>2
<1> HIDE DEF indices, names
<1>5. DOMAIN indexMap'[o] \subseteq Indices /\ DOMAIN nameMap'[o] \subseteq Names
  BY <1>3, <1>4, EmplacedDomain, KeysAre
<1>6. OwnPointers(indexMap[o], o)'  BY <1>3, <1>4, MadeMap DEF OwnPointers, Live
<1>7. OwnPointers(nameMap[o], o)'  BY <1>3, <1>4, MadeMap DEF OwnPointers, Live
<1>8. \A q \in Objects \ {o} : Untouched(q)  BY <1>1, <1>2 DEF Untouched, Holds
<1> QED BY <1>5, <1>6, <1>7, <1>8 DEF MapsOK

-----------------------------------------------------------------------------
(* The operations preserve IInv.                                           *)

\* An object whose vector is replaced.
LEMMA ReplacedPreservesIInv ==
    ASSUME IInv, NEW o \in Objects, NEW list \in Lists, Holds(o, list),
           MapsOK(o)', \A q \in Objects \ {o} : Untouched(q),
           DOMAIN indexMap' = Objects, DOMAIN nameMap' = Objects,
           alive' = alive \cup {o}, spoiled' \subseteq alive',
           spoiled \subseteq spoiled' \cup {o},
           o \in spoiled' \/ Rebuilt(o)'
    PROVE  IInv'
<1>1. PlainTypes /\ BuffersOwned  BY IInvParts
<1>2. PlainTypes'  BY <1>1 DEF PlainTypes, Holds
<1>3. BuffersOwned'
  <2>1. \A q \in Objects : buffer'[q] # NoBuffer => buffer'[q] \in allocated'
    BY <1>1 DEF Holds, KeepsVector
  <2>2. \A q, r \in Objects : buffer'[q] = buffer'[r] /\ q # r => buffer'[q] = NoBuffer
    BY <1>1 DEF Holds, KeepsVector, BuffersOwned
  <2>3. \A q \in Objects \ alive' : buffer'[q] = NoBuffer
    BY <1>1 DEF Holds, KeepsVector, BuffersOwned
  <2> QED BY <2>1, <2>2, <2>3 DEF BuffersOwned
<1>4. \A q \in Objects : MapsOK(q)' /\ (q \notin spoiled' => Rebuilt(q)')
  BY UntouchedFacts
<1> QED BY <1>2, <1>3, <1>4, IInvPartsNext DEF InvParts

\* Every object has two maps.
LEMMA MapDomains ==
    ASSUME IInv, NEW o \in Objects, NEW list, Rebuild(o, list) \/ RebuildThrows(o, list)
    PROVE  DOMAIN indexMap' = Objects /\ DOMAIN nameMap' = Objects
  BY DEF IInv, TypeOK, Rebuild, RebuildThrows

\* The constructor from a list.
LEMMA ConstructPreservesIInv ==
    ASSUME IInv, NEW o \in Objects, Construct(o)
    PROVE  IInv'
<1>1. PICK list \in Lists : Fills(o, list) /\ Rebuild(o, list)  BY DEF Construct
<1>2. Holds(o, list)  BY <1>1, FillsFacts
<1>3. MapsOK(o)' /\ Rebuilt(o)' /\ \A q \in Objects \ {o} : Untouched(q)
  BY <1>1, <1>2, RebuildFacts
<1>4. alive' = alive \cup {o} /\ spoiled' = spoiled /\ spoiled \subseteq alive
  BY DEF Construct, IInv, TypeOK
<1> QED BY <1>1, <1>2, <1>3, <1>4, MapDomains, ReplacedPreservesIInv

\* The copies, which succeed.
LEMMA CopyPreservesIInv ==
    ASSUME IInv, NEW o \in Objects, NEW p \in Objects,
           CopyConstruct(o, p) \/ CopyAssign(o, p)
    PROVE  IInv'
<1>1. Fills(o, Stored(p)) /\ Rebuild(o, Stored(p))  BY DEF CopyConstruct, CopyAssign
<1>2. Stored(p) \in Lists  BY StoredFacts
<1>3. Holds(o, Stored(p))  BY <1>1, <1>2, FillsFacts
<1>4. MapsOK(o)' /\ Rebuilt(o)' /\ \A q \in Objects \ {o} : Untouched(q)
  BY <1>1, <1>2, <1>3, RebuildFacts
<1>5. /\ alive' = alive \cup {o} /\ spoiled' \subseteq alive'
      /\ spoiled \subseteq spoiled' \cup {o}
  BY DEF CopyConstruct, CopyAssign, IInv, TypeOK
<1> QED BY <1>1, <1>2, <1>3, <1>4, <1>5, MapDomains, ReplacedPreservesIInv

\* What a copy that throws leaves are entries, too, as many as before.
LEMMA MixedIsList ==
    ASSUME NEW old \in Lists, NEW new \in Lists, NEW n \in DOMAIN new, NEW named \in BOOLEAN
    PROVE  Mixed(old, new, n, named) \in Lists /\ DOMAIN Mixed(old, new, n, named) = DOMAIN old
<1>1. /\ Len(old) \in 0..MaxEntries /\ DOMAIN old = 1..Len(old) /\ Len(old) \in Nat
      /\ \A i \in DOMAIN old : old[i] \in Entries
  BY ListFacts, BoundAssumption
<1>2. /\ Len(new) \in Nat /\ DOMAIN new = 1..Len(new)
      /\ \A i \in DOMAIN new : new[i] \in Entries
  BY ListFacts, BoundAssumption
<1>3. \A i \in DOMAIN old : i <= n => i \in DOMAIN new  BY <1>1, <1>2
<1>4. \A e, f \in Entries : [index |-> e.index, name |-> f.name] \in Entries  BY DEF Entries
<1>5. \A i \in DOMAIN old : i < n => new[i] \in Entries  BY <1>1, <1>2, <1>3
<1>6. n \in DOMAIN old => [index |-> new[n].index,
                            name |-> IF named THEN new[n].name ELSE old[n].name] \in Entries
  BY <1>1, <1>2, <1>4
<1>7. Mixed(old, new, n, named) \in [1..Len(old) -> Entries]  BY <1>1, <1>5, <1>6 DEF Mixed
<1> QED BY <1>1, <1>7, ListsAre DEF Mixed

\* The copies that throw.
LEMMA CopyThrowsPreservesIInv ==
    ASSUME IInv, NEW o \in Objects, NEW p \in Objects, CopyAssignThrows(o, p)
    PROVE  IInv' /\ \A q \in Objects \ {o} : Untouched(q)
<1>1. Stored(p) \in Lists /\ Stored(o) \in Lists  BY StoredFacts
<1>2. PlainTypes /\ BuffersOwned /\ MapsOK(o)  BY IInvParts
<1>3. alive' = alive \cup {o} /\ spoiled' = spoiled \cup {o} /\ spoiled' \subseteq alive'
  BY <1>2 DEF CopyAssignThrows, PlainTypes
<1>4. CASE Fills(o, Stored(p)) /\ RebuildThrows(o, Stored(p))
  <2>1. Holds(o, Stored(p))  BY <1>1, <1>4, FillsFacts
  <2>2. MapsOK(o)' /\ \A q \in Objects \ {o} : Untouched(q)
    BY <1>1, <1>4, <2>1, RebuildThrowsFacts
  <2> QED BY <1>1, <1>3, <1>4, <2>1, <2>2, MapDomains, ReplacedPreservesIInv
<1>5. ASSUME NEW n \in DOMAIN Stored(p), NEW named \in BOOLEAN,
             buffer[o] # NoBuffer,
             heap' = [heap EXCEPT ![buffer[o]] = Mixed(@, Stored(p), n, named)],
             UNCHANGED <<allocated, buffer, indexMap, nameMap>>
      PROVE  IInv' /\ \A q \in Objects \ {o} : Untouched(q)
  <2> DEFINE list == Mixed(Stored(o), Stored(p), n, named)
  <2>1. list \in Lists /\ DOMAIN list = DOMAIN Stored(o)  BY <1>1, MixedIsList
  <2>2. heap' = [heap EXCEPT ![buffer[o]] = list]  BY <1>5 DEF Stored
  <2> HIDE DEF list
  <2>3. /\ heap' \in [Buffers -> Lists] /\ Stored(o)' = list
        /\ DOMAIN heap'[buffer[o]] = DOMAIN heap[buffer[o]]
    BY <1>2, <1>5, <2>1, <2>2 DEF PlainTypes, Stored
  <2>4. \A q \in Objects \ {o} :
           KeepsVector(q) /\ (buffer'[q] = buffer'[o] => buffer'[q] = NoBuffer)
    BY <1>2, <1>5, <2>2 DEF PlainTypes, BuffersOwned, KeepsVector
  <2>5. Holds(o, list)  BY <1>2, <1>5, <2>3, <2>4 DEF Holds, PlainTypes, BuffersOwned
  <2>6. MapsOK(o)'  BY <1>2, <1>5, <2>3 DEF MapsOK, OwnPointers, Live
  <2>7. \A q \in Objects \ {o} : Untouched(q)  BY <1>5, <2>4 DEF Untouched
  <2>8. DOMAIN indexMap' = Objects /\ DOMAIN nameMap' = Objects  BY <1>2, <1>5 DEF PlainTypes
  <2> QED BY <1>3, <2>1, <2>5, <2>6, <2>7, <2>8, ReplacedPreservesIInv
<1> QED BY <1>4, <1>5 DEF CopyAssignThrows

\* The moves.
LEMMA TakesOverFacts ==
    ASSUME IInv, NEW o \in Objects, NEW p \in Objects, o # p, TakesOver(o, p)
    PROVE  /\ Stored(o)' = Stored(p) /\ Stored(p)' = <<>>
           /\ Found(indexMap[o])' = Found(indexMap[p])
           /\ Found(nameMap[o])' = Found(nameMap[p])
           /\ indexMap'[p] = NoPointers /\ nameMap'[p] = NoPointers /\ buffer'[p] = NoBuffer
           /\ MapsOK(o)' /\ MapsOK(p)' /\ Rebuilt(p)'
           /\ p \notin spoiled => Rebuilt(o)'
           /\ \A q \in Objects \ {o, p} : Untouched(q)
<1>1. PlainTypes /\ BuffersOwned /\ MapsOK(p) /\ (p \notin spoiled => Rebuilt(p))
  BY IInvParts
<1>2. /\ buffer'[o] = buffer[p] /\ buffer'[p] = NoBuffer /\ heap' = heap
      /\ indexMap'[o] = indexMap[p] /\ indexMap'[p] = NoPointers
      /\ nameMap'[o] = nameMap[p] /\ nameMap'[p] = NoPointers
      /\ allocated' = allocated \ {buffer[o]}
  BY <1>1 DEF TakesOver, PlainTypes
<1>3. buffer[p] # NoBuffer => buffer[p] \in allocated' /\ heap'[buffer[p]] = heap[buffer[p]]
  BY <1>1, <1>2 DEF BuffersOwned
<1>4. Stored(o)' = Stored(p) /\ Stored(p)' = <<>>  BY <1>2 DEF Stored
<1>5. \A key \in DOMAIN indexMap[p] :
        /\ indexMap[p][key] \in Pointers /\ indexMap[p][key].in = buffer'[o]
        /\ indexMap[p][key].in \in allocated'
        /\ indexMap[p][key].at \in DOMAIN heap'[indexMap[p][key].in]
        /\ heap'[indexMap[p][key].in][indexMap[p][key].at]
             = heap[indexMap[p][key].in][indexMap[p][key].at]
        /\ Live(indexMap[p][key])
  BY <1>1, <1>2, <1>3, KeptMap DEF MapsOK
<1>6. \A key \in DOMAIN nameMap[p] :
        /\ nameMap[p][key] \in Pointers /\ nameMap[p][key].in = buffer'[o]
        /\ nameMap[p][key].in \in allocated'
        /\ nameMap[p][key].at \in DOMAIN heap'[nameMap[p][key].in]
        /\ heap'[nameMap[p][key].in][nameMap[p][key].at]
             = heap[nameMap[p][key].in][nameMap[p][key].at]
        /\ Live(nameMap[p][key])
  BY <1>1, <1>2, <1>3, KeptMap DEF MapsOK
<1>7. Found(indexMap[o])' = Found(indexMap[p])  BY <1>2, <1>5 DEF Found, Live
<1>8. Found(nameMap[o])' = Found(nameMap[p])  BY <1>2, <1>6 DEF Found, Live
<1>9. MapsOK(o)'  BY <1>1, <1>2, <1>5, <1>6 DEF MapsOK, OwnPointers, Live
<1>10. MapsOK(p)'  BY <1>2, EmptyMaps DEF MapsOK, OwnPointers
<1>11. Rebuilt(p)'  BY <1>2, <1>4, EmptyMaps DEF Rebuilt
<1>12. p \notin spoiled => Rebuilt(o)'  BY <1>1, <1>2, <1>4 DEF Rebuilt
<1>13. \A q \in Objects \ {o, p} : Untouched(q)
  BY <1>1, <1>2 DEF TakesOver, PlainTypes, BuffersOwned, Untouched, KeepsVector
<1> QED BY <1>2, <1>4, <1>7, <1>8, <1>9, <1>10, <1>11, <1>12, <1>13

\* The moves, seen by both objects.
LEMMA MovePreservesIInv ==
    ASSUME IInv, NEW o \in Objects, NEW p \in Objects,
           MoveConstruct(o, p) \/ MoveAssign(o, p)
    PROVE  IInv'
<1>1. PlainTypes /\ BuffersOwned  BY IInvParts
<1>2. o # p /\ p \in alive /\ TakesOver(o, p) /\ alive' = alive \cup {o}
  BY DEF MoveConstruct, MoveAssign
<1>3. /\ indexMap'[p] = NoPointers /\ nameMap'[p] = NoPointers /\ buffer'[p] = NoBuffer
      /\ MapsOK(o)' /\ MapsOK(p)' /\ Rebuilt(p)'
      /\ p \notin spoiled => Rebuilt(o)'
      /\ \A q \in Objects \ {o, p} : Untouched(q)
  BY <1>2, TakesOverFacts
<1>4. spoiled' = (spoiled \ {o, p}) \cup (IF p \in spoiled THEN {o} ELSE {})
  BY <1>2 DEF TakesOver
<1>5. PlainTypes'
  BY <1>1, <1>2, <1>4 DEF PlainTypes, TakesOver
<1>6. BuffersOwned'
  <2>1. buffer'[o] = buffer[p] /\ allocated' = allocated \ {buffer[o]}
    BY <1>1, <1>2 DEF TakesOver, PlainTypes
  <2>2. \A q \in Objects \ {o, p} : buffer'[q] = buffer[q]
    BY <1>3 DEF Untouched, KeepsVector
  <2> QED BY <1>1, <1>2, <1>3, <2>1, <2>2 DEF BuffersOwned
<1>7. \A q \in Objects \ {o, p} : MapsOK(q)' /\ (q \notin spoiled => Rebuilt(q)')
  BY <1>3, UntouchedFacts
<1>8. \A q \in Objects : MapsOK(q)' /\ (q \notin spoiled' => Rebuilt(q)')
  BY <1>3, <1>4, <1>7
<1> QED BY <1>5, <1>6, <1>8, IInvPartsNext DEF InvParts

\* The destructor.
LEMMA DestroyPreservesIInv ==
    ASSUME IInv, NEW o \in Objects, Destroy(o)
    PROVE  /\ IInv' /\ Stored(o)' = <<>>
           /\ \A q \in Objects \ {o} : Untouched(q)
<1>1. PlainTypes /\ BuffersOwned  BY IInvParts
<1>2. /\ buffer'[o] = NoBuffer /\ indexMap'[o] = NoPointers /\ nameMap'[o] = NoPointers
      /\ heap' = heap /\ allocated' = allocated \ {buffer[o]}
      /\ alive' = alive \ {o} /\ spoiled' = spoiled \ {o}
  BY <1>1 DEF Destroy, PlainTypes
<1>3. \A q \in Objects \ {o} : Untouched(q)
  BY <1>1 DEF Destroy, PlainTypes, BuffersOwned, Untouched, KeepsVector
<1>4. Stored(o)' = <<>>  BY <1>2 DEF Stored
<1>5. MapsOK(o)' /\ Rebuilt(o)'
  BY <1>2, <1>4, EmptyMaps DEF MapsOK, OwnPointers, Rebuilt
<1>6. PlainTypes'  BY <1>1 DEF PlainTypes, Destroy
<1>7. BuffersOwned'
  <2>1. \A q \in Objects \ {o} : buffer'[q] = buffer[q]  BY <1>3 DEF Untouched, KeepsVector
  <2> QED BY <1>1, <1>2, <2>1 DEF BuffersOwned
<1>8. \A q \in Objects : MapsOK(q)' /\ (q \notin spoiled' => Rebuilt(q)')
  BY <1>2, <1>3, <1>5, UntouchedFacts
<1> QED BY <1>3, <1>4, <1>6, <1>7, <1>8, IInvPartsNext DEF InvParts

\* No object exists.
LEMMA InitIInv == Init => IInv
<1> SUFFICES ASSUME Init PROVE IInv
  OBVIOUS
<1> USE DEF Init
<1>1. PlainTypes  BY EmptyList DEF PlainTypes
<1>2. BuffersOwned  BY DEF BuffersOwned
<1>3. \A o \in Objects : MapsOK(o)  BY EmptyMaps DEF MapsOK, OwnPointers
<1>4. \A o \in Objects : Rebuilt(o)  BY EmptyMaps DEF Rebuilt, Stored
<1> QED BY <1>1, <1>2, <1>3, <1>4, IInvParts

\* Every step preserves IInv.
LEMMA NextPreservesIInv == IInv /\ [Next]_vars => IInv'
<1> SUFFICES ASSUME IInv, [Next]_vars PROVE IInv'
  OBVIOUS
<1>1. CASE UNCHANGED vars
  <2>1. \A o \in Objects : Untouched(o)
    BY <1>1, IInvParts DEF vars, Untouched, KeepsVector, BuffersOwned
  <2>2. \A o \in Objects : MapsOK(o)' /\ (o \notin spoiled => Rebuilt(o)')
    BY <2>1, UntouchedFacts
  <2>3. PlainTypes' /\ BuffersOwned'
    BY <1>1, IInvParts DEF vars, PlainTypes, BuffersOwned
  <2> QED BY <1>1, <2>2, <2>3, IInvPartsNext DEF InvParts, vars
<1>2. ASSUME NEW o \in Objects, Construct(o) PROVE IInv'
  BY <1>2, ConstructPreservesIInv
<1>3. ASSUME NEW o \in Objects, Destroy(o) PROVE IInv'
  BY <1>3, DestroyPreservesIInv
<1>4. ASSUME NEW o \in Objects, NEW p \in Objects, CopyConstruct(o, p) \/ CopyAssign(o, p)
      PROVE  IInv'
  BY <1>4, CopyPreservesIInv
<1>5. ASSUME NEW o \in Objects, NEW p \in Objects, CopyAssignThrows(o, p) PROVE IInv'
  BY <1>5, CopyThrowsPreservesIInv
<1>6. ASSUME NEW o \in Objects, NEW p \in Objects, MoveConstruct(o, p) \/ MoveAssign(o, p)
      PROVE  IInv'
  BY <1>6, MovePreservesIInv
<1> QED BY <1>1, <1>2, <1>3, <1>4, <1>5, <1>6 DEF Next

\* Types, the ownership of the buffers and the contents of the maps agree, for any
\* number of dictionaries and lists of any length.
THEOREM DictionaryIInvHolds == Spec => []IInv
<1> QED BY InitIInv, NextPreservesIInv, PTL DEF Spec

\* PointersAreOwn: at() of an ObjectDictionary never follows a dangling pointer, nor one
\* into another dictionary, also after an assignment that threw.
THEOREM PointersOwn == Spec => []PointersAreOwn
<1>1. IInv => PointersAreOwn  BY DEF IInv
<1> QED BY <1>1, DictionaryIInvHolds, PTL

-----------------------------------------------------------------------------
(* ObjectDictionary implements EntryTable.                                 *)

\* What a dictionary finds that is not spoiled.
LooksUp ==
    \A o \in Objects \ spoiled :
        /\ Found(indexMap[o]) = Table!LookUp(Stored(o), "index")
        /\ Found(nameMap[o]) = Table!LookUp(Stored(o), "name")

\* The pointer to the first entry of a key leads to it.
LEMMA FoundIsFirst ==
    ASSUME IInv, NEW o \in Objects, NEW field,
           NEW map, map = Emplaced(buffer[o], Stored(o), field), OwnPointers(map, o)
    PROVE  Found(map) = Table!LookUp(Stored(o), field)
<1>1. Stored(o) \in Lists  BY StoredFacts
<1>2. DOMAIN map = Table!KeysOf(Stored(o), field)
  <2>1. DOMAIN map = Keys(Stored(o), field)  BY EmplacedDomain
  <2> QED BY <2>1 DEF Keys, Table!KeysOf
<1>3. ASSUME NEW key \in DOMAIN map
      PROVE  /\ Live(map[key])
             /\ heap[map[key].in][map[key].at]
                  = Stored(o)[Table!FirstWith(Stored(o), field, key)]
  <2>1. key \in Keys(Stored(o), field)  BY EmplacedDomain
  <2>2. map[key].at = Table!FirstWith(Stored(o), field, key)  BY <1>1, <2>1, EmplacedFacts
  <2>3. Live(map[key]) /\ map[key].in = buffer[o]  BY DEF OwnPointers
  <2>4. buffer[o] # NoBuffer  BY <2>3, BufferAssumption DEF Live, IInv, TypeOK
  <2> QED BY <2>2, <2>3, <2>4 DEF Stored
<1> QED BY <1>2, <1>3 DEF Found, Table!LookUp

\* IInv makes the look-ups those of the list.
LEMMA IInvLooksUp == IInv => LooksUp
  BY FoundIsFirst, IInvParts DEF LooksUp, MapsOK, Rebuilt

\* The same of the state after a step.
LEMMA LooksUpNext == IInv' => LooksUp'
  BY IInvLooksUp, PTL

\* No object exists, and no table.
LEMMA InitRefines == Init => Table!TableInit
<1> SUFFICES ASSUME Init PROVE Table!TableInit
  OBVIOUS
<1>1. IInv  BY InitIInv
<1>2. \A o \in Objects : Stored(o) = <<>>  BY DEF Init, Stored
<1>3. \A o \in Objects : /\ Found(indexMap[o]) = Table!LookUp(<<>>, "index")
                         /\ Found(nameMap[o]) = Table!LookUp(<<>>, "name")
  BY <1>1, <1>2, IInvLooksUp DEF LooksUp, Init
<1> QED BY <1>2, <1>3 DEF Init, Table!TableInit, Contents, IndexLookUps, NameLookUps

\* A dictionary that got a list, when the others are untouched.
LEMMA BecomesRefines ==
    ASSUME IInv, IInv', NEW o \in Objects, \A q \in Objects \ {o} : Untouched(q),
           NEW list, Stored(o)' = list, spoiled' = spoiled \ {o}
    PROVE  Table!Becomes(o, list)
<1>1. /\ Found(indexMap[o])' = Table!LookUp(list, "index")
      /\ Found(nameMap[o])' = Table!LookUp(list, "name")
  <2>1. /\ Found(indexMap[o])' = Table!LookUp(Stored(o)', "index")
        /\ Found(nameMap[o])' = Table!LookUp(Stored(o)', "name")
    BY LooksUpNext DEF LooksUp
  <2> QED BY <2>1
<1>2. \A q \in Objects \ {o} :
        /\ Stored(q)' = Stored(q)
        /\ Found(indexMap[q])' = Found(indexMap[q])
        /\ Found(nameMap[q])' = Found(nameMap[q])
  BY UntouchedFacts
<1>3. Contents' = [Contents EXCEPT ![o] = list]  BY <1>2 DEF Contents
<1>4. IndexLookUps' = [IndexLookUps EXCEPT ![o] = Table!LookUp(list, "index")]
  BY <1>1, <1>2 DEF IndexLookUps
<1>5. NameLookUps' = [NameLookUps EXCEPT ![o] = Table!LookUp(list, "name")]
  BY <1>1, <1>2 DEF NameLookUps
<1> QED BY <1>3, <1>4, <1>5 DEF Table!Becomes

\* A step of the tables, or one that does not show.
TableStep == [Table!TableNext]_Table!tableVars

\* The constructor from a list makes a table of that list.
LEMMA ConstructRefines ==
    ASSUME IInv, IInv', NEW o \in Objects, Construct(o)
    PROVE  TableStep
<1>1. PICK list \in Lists : Fills(o, list) /\ Rebuild(o, list)  BY DEF Construct
<1>2. Holds(o, list)  BY <1>1, FillsFacts
<1>3. \A q \in Objects \ {o} : Untouched(q)  BY <1>1, <1>2, RebuildFacts
<1>4. /\ o \notin alive /\ alive' = alive \cup {o} /\ spoiled' = spoiled \ {o}
  BY DEF Construct, IInv, TypeOK
<1>5. Stored(o)' = list /\ Contents'[o] = list  BY <1>2 DEF Holds, Contents
<1>6. Table!Becomes(o, list)  BY <1>3, <1>4, <1>5, BecomesRefines
<1>7. list \in Seq(Entries)  BY ListFacts
<1>8. Table!Construct(o)  BY <1>4, <1>5, <1>6, <1>7 DEF Table!Construct
<1> QED BY <1>8 DEF TableStep, Table!TableNext

\* The copies make a table of the source's list.
LEMMA CopyRefines ==
    ASSUME IInv, IInv', NEW o \in Objects, NEW p \in Objects,
           CopyConstruct(o, p) \/ CopyAssign(o, p)
    PROVE  TableStep
<1>1. Fills(o, Stored(p)) /\ Rebuild(o, Stored(p))  BY DEF CopyConstruct, CopyAssign
<1>2. Stored(p) \in Lists  BY StoredFacts
<1>3. Holds(o, Stored(p))  BY <1>1, <1>2, FillsFacts
<1>4. \A q \in Objects \ {o} : Untouched(q)  BY <1>1, <1>2, <1>3, RebuildFacts
<1>5. /\ p \in alive /\ o # p /\ alive' = alive \cup {o} /\ spoiled' = spoiled \ {o}
  BY DEF CopyConstruct, CopyAssign, IInv, TypeOK
<1>6. Stored(o)' = Contents[p]  BY <1>3 DEF Holds, Contents
<1>7. Table!Becomes(o, Contents[p])  BY <1>4, <1>5, <1>6, BecomesRefines
<1>8. Table!CopyOf(o, p)  BY <1>5, <1>7 DEF Table!CopyOf
<1> QED BY <1>8 DEF TableStep, Table!TableNext

\* The moves carry the table over, look-ups and all.
LEMMA MoveRefines ==
    ASSUME IInv, IInv', NEW o \in Objects, NEW p \in Objects,
           MoveConstruct(o, p) \/ MoveAssign(o, p)
    PROVE  TableStep
<1>1. /\ o # p /\ p \in alive /\ TakesOver(o, p) /\ alive' = alive \cup {o}
      /\ spoiled' = (spoiled \ {o, p}) \cup (IF p \in spoiled THEN {o} ELSE {})
  BY DEF MoveConstruct, MoveAssign, TakesOver
<1>2. /\ Stored(o)' = Stored(p) /\ Stored(p)' = <<>>
      /\ Found(indexMap[o])' = Found(indexMap[p])
      /\ Found(nameMap[o])' = Found(nameMap[p])
      /\ \A q \in Objects \ {o, p} : Untouched(q)
  BY <1>1, TakesOverFacts
<1>3. /\ Found(indexMap[p])' = Table!LookUp(<<>>, "index")
      /\ Found(nameMap[p])' = Table!LookUp(<<>>, "name")
  <2>1. p \notin spoiled'  BY <1>1
  <2>2. /\ Found(indexMap[p])' = Table!LookUp(Stored(p)', "index")
        /\ Found(nameMap[p])' = Table!LookUp(Stored(p)', "name")
    BY <2>1, LooksUpNext DEF LooksUp
  <2> QED BY <1>2, <2>2
<1>4. \A q \in Objects \ {o, p} :
        /\ Stored(q)' = Stored(q)
        /\ Found(indexMap[q])' = Found(indexMap[q])
        /\ Found(nameMap[q])' = Found(nameMap[q])
  BY <1>2, UntouchedFacts
<1>5. Contents' = [Contents EXCEPT ![o] = Contents[p], ![p] = <<>>]
  BY <1>1, <1>2, <1>4 DEF Contents
<1>6. IndexLookUps' = [IndexLookUps EXCEPT ![o] = IndexLookUps[p],
                                           ![p] = Table!LookUp(<<>>, "index")]
  BY <1>1, <1>2, <1>3, <1>4 DEF IndexLookUps
<1>7. NameLookUps' = [NameLookUps EXCEPT ![o] = NameLookUps[p],
                                         ![p] = Table!LookUp(<<>>, "name")]
  BY <1>1, <1>2, <1>3, <1>4 DEF NameLookUps
<1>8. Table!MoveOf(o, p)  BY <1>1, <1>5, <1>6, <1>7 DEF Table!MoveOf
<1> QED BY <1>8 DEF TableStep, Table!TableNext

\* An assignment that throws, and the destructor.
LEMMA SpoilAndDestroyRefine ==
    ASSUME IInv, IInv', NEW o \in Objects
    PROVE  /\ \A p \in Objects : CopyAssignThrows(o, p) => TableStep
           /\ Destroy(o) => TableStep
<1>1. ASSUME NEW p \in Objects, CopyAssignThrows(o, p) PROVE TableStep
  <2>1. \A q \in Objects \ {o} : Untouched(q)  BY <1>1, CopyThrowsPreservesIInv
  <2>2. o \in alive /\ alive' = alive /\ spoiled' = spoiled \cup {o}
    BY <1>1 DEF CopyAssignThrows
  <2>3. \A q \in Objects \ {o} :
          /\ Contents'[q] = Contents[q]
          /\ IndexLookUps'[q] = IndexLookUps[q]
          /\ NameLookUps'[q] = NameLookUps[q]
    BY <2>1, UntouchedFacts DEF Contents, IndexLookUps, NameLookUps
  <2>4. Table!Spoil(o)  BY <2>2, <2>3 DEF Table!Spoil
  <2> QED BY <2>4 DEF TableStep, Table!TableNext
<1>2. ASSUME Destroy(o) PROVE TableStep
  <2>1. Stored(o)' = <<>> /\ \A q \in Objects \ {o} : Untouched(q)
    BY <1>2, DestroyPreservesIInv
  <2>2. o \in alive /\ alive' = alive \ {o} /\ spoiled' = spoiled \ {o}
    BY <1>2 DEF Destroy
  <2>3. Table!Becomes(o, <<>>)  BY <2>1, <2>2, BecomesRefines
  <2>4. Table!Destroy(o)  BY <2>2, <2>3 DEF Table!Destroy
  <2> QED BY <2>4 DEF TableStep, Table!TableNext
<1> QED BY <1>1, <1>2

\* Every step is a step of the tables.
LEMMA NextRefines == IInv /\ IInv' /\ [Next]_vars => TableStep
<1> SUFFICES ASSUME IInv, IInv', [Next]_vars PROVE TableStep
  OBVIOUS
<1>1. CASE UNCHANGED vars
  <2>1. \A o \in Objects : Untouched(o)
    BY <1>1, IInvParts DEF vars, Untouched, KeepsVector, BuffersOwned
  <2>2. UNCHANGED <<Contents, IndexLookUps, NameLookUps>>
    BY <2>1, UntouchedFacts DEF Contents, IndexLookUps, NameLookUps
  <2> QED BY <1>1, <2>2 DEF TableStep, Table!tableVars, vars
<1>2. ASSUME NEW o \in Objects, Construct(o) \/ Destroy(o) PROVE TableStep
  BY <1>2, ConstructRefines, SpoilAndDestroyRefine
<1>3. ASSUME NEW o \in Objects, NEW p \in Objects,
             \/ CopyConstruct(o, p) \/ CopyAssign(o, p) \/ CopyAssignThrows(o, p)
             \/ MoveConstruct(o, p) \/ MoveAssign(o, p)
      PROVE  TableStep
  BY <1>3, CopyRefines, MoveRefines, SpoilAndDestroyRefine
<1> QED BY <1>1, <1>2, <1>3 DEF Next

\* ImplementsTable: copies, moves and failed assignments of an ObjectDictionary are those
\* of a plain value with a look-up by index and by name.
THEOREM TableImplemented == Spec => ImplementsTable
<1>1. Init => Table!TableInit  BY InitRefines
<1>2. IInv /\ IInv' /\ [Next]_vars => [Table!TableNext]_Table!tableVars
  BY NextRefines DEF TableStep
<1> QED BY <1>1, <1>2, DictionaryIInvHolds, PTL DEF Spec, ImplementsTable, Table!TableSpec
=============================================================================
