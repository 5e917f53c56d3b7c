--------------------------- MODULE ObjectDictionary ---------------------------
(***************************************************************************)
(* ObjectDictionary objects of a program: each owns the buffer of a vector *)
(* of entries and two maps of pointers into that buffer.  Entries are      *)
(* found through the pointers, so that every copy, move and failed         *)
(* assignment has to leave them inside a buffer that is still the object's *)
(* own.  The objects implement the plain values of EntryTable.             *)
(*                                                                         *)
(* Of an entry only its index and its name matter.  A memory allocation    *)
(* may fail wherever a copy makes one, and the assignment then throws.     *)
(***************************************************************************)
EXTENDS Naturals, Sequences

CONSTANTS
    Objects,    \* the dictionaries of a program
    Buffers,    \* places where a vector may put its elements
    NoBuffer,   \* what an empty vector may have instead
    Indices,    \* SDO indices
    Names,      \* names of entries
    MaxEntries  \* bound: entries a device reports

ASSUME BufferAssumption == NoBuffer \notin Buffers
ASSUME BoundAssumption == MaxEntries \in Nat

VARIABLES
    alive,      \* objects that exist
    heap,       \* the elements in each buffer
    allocated,  \* buffers that are in use
    buffer,     \* the buffer of each object's vector, sdo_entries_
    indexMap,   \* sdo_entries_by_index_ of each object
    nameMap,    \* sdo_entries_by_name_ of each object
    spoiled     \* history: objects whose last assignment threw

vars == <<alive, heap, allocated, buffer, indexMap, nameMap, spoiled>>

Entries == [index : Indices, name : Names]

\* What a device may report: also several entries with one index or one name.
Lists == UNION {[1..n -> Entries] : n \in 0..MaxEntries}

Stored(o) == IF buffer[o] = NoBuffer THEN <<>> ELSE heap[buffer[o]]

-----------------------------------------------------------------------------
(* Pointers, and the entries they lead to.                                 *)

Keys(list, field) == {list[i][field] : i \in DOMAIN list}

\* Mutant: operator[] instead of emplace(), so that the last entry of a key wins.
EmplacedLast(b, list, field) ==
    [key \in Keys(list, field) |->
        [in |-> b,
         at |-> CHOOSE i \in DOMAIN list :
                    /\ list[i][field] = key
                    /\ \A j \in DOMAIN list : list[j][field] = key => j <= i]]

\* The loop of rebuild_lookup(): emplace() keeps the first pointer of a key.
Emplaced(b, list, field) ==
    [key \in Keys(list, field) |->
        [in |-> b,
         at |-> CHOOSE i \in DOMAIN list :
                    /\ list[i][field] = key
                    /\ \A j \in DOMAIN list : list[j][field] = key => i <= j]]

NoPointers == Emplaced(NoBuffer, <<>>, "index")

Live(p) == p.in \in allocated /\ p.at \in DOMAIN heap[p.in]

\* at(): the entry behind the pointer of a key.
Garbage == [index |-> "garbage", name |-> "garbage"]
Found(map) == [key \in DOMAIN map |-> IF Live(map[key]) THEN heap[map[key].in][map[key].at]
                                      ELSE Garbage]

\* The value of each object, as EntryTable has it.
Contents == [o \in Objects |-> Stored(o)]
IndexLookUps == [o \in Objects |-> Found(indexMap[o])]
NameLookUps == [o \in Objects |-> Found(nameMap[o])]

Table == INSTANCE EntryTable WITH
    content <- Contents, byIndex <- IndexLookUps, byName <- NameLookUps

Init ==
    /\ alive = {}
    /\ heap = [b \in Buffers |-> <<>>]
    /\ allocated = {}
    /\ buffer = [o \in Objects |-> NoBuffer]
    /\ indexMap = [o \in Objects |-> NoPointers]
    /\ nameMap = [o \in Objects |-> NoPointers]
    /\ spoiled = {}

-----------------------------------------------------------------------------
(* The vector and the maps of one object.                                  *)

\* o's vector gets these elements: in its buffer, if it has one and they fit, or in
\* a new one, and the old one is freed.
Fills(o, list) ==
    \/ /\ list = <<>> /\ buffer[o] = NoBuffer
       /\ UNCHANGED <<heap, allocated, buffer>>
    \/ /\ buffer[o] # NoBuffer
       /\ heap' = [heap EXCEPT ![buffer[o]] = list]
       /\ UNCHANGED <<allocated, buffer>>
    \/ \E b \in Buffers \ allocated :
         /\ list # <<>>
         /\ heap' = [heap EXCEPT ![b] = list]
         /\ allocated' = (allocated \ {buffer[o]}) \cup {b}
         /\ buffer' = [buffer EXCEPT ![o] = b]

\* rebuild_lookup() of o, which has these elements now.
Rebuild(o, list) ==
    /\ indexMap' = [indexMap EXCEPT ![o] = Emplaced(buffer'[o], list, "index")]
    /\ nameMap' = [nameMap EXCEPT ![o] = Emplaced(buffer'[o], list, "name")]

\* rebuild_lookup() throws: both maps have been cleared, and a part of the pointers
\* are in them.
RebuildThrows(o, list) ==
    \E i, n \in 0..Len(list) :
        /\ n < Len(list) /\ i \in {n, n + 1}
        /\ indexMap' = [indexMap EXCEPT ![o] = Emplaced(buffer'[o], SubSeq(list, 1, i), "index")]
        /\ nameMap' = [nameMap EXCEPT ![o] = Emplaced(buffer'[o], SubSeq(list, 1, n), "name")]

-----------------------------------------------------------------------------
(* The operations.                                                         *)

Construct(o) ==
    /\ o \notin alive
    /\ \E list \in Lists : Fills(o, list) /\ Rebuild(o, list)
    /\ alive' = alive \cup {o}
    /\ UNCHANGED spoiled

CopyConstruct(o, p) ==
    /\ o \notin alive /\ p \in alive
    /\ Fills(o, Stored(p)) /\ Rebuild(o, Stored(p))
    /\ alive' = alive \cup {o}
    /\ UNCHANGED spoiled

\* Mutant: the copy assignment the compiler would generate copies the pointers.
CopyAssignDefaulted(o, p) ==
    /\ {o, p} \subseteq alive /\ o # p
    /\ Fills(o, Stored(p))
    /\ indexMap' = [indexMap EXCEPT ![o] = indexMap[p]]
    /\ nameMap' = [nameMap EXCEPT ![o] = nameMap[p]]
    /\ spoiled' = spoiled \ {o}
    /\ UNCHANGED alive

\* A self-assignment does nothing.
CopyAssign(o, p) ==
    /\ {o, p} \subseteq alive /\ o # p
    /\ Fills(o, Stored(p)) /\ Rebuild(o, Stored(p))
    /\ spoiled' = spoiled \ {o}
    /\ UNCHANGED alive

\* The elements of a vector while those of another are assigned to them: element n has got
\* its index, and perhaps its name; what follows the name in an entry is not modelled.
Mixed(old, new, n, named) ==
    [i \in DOMAIN old |->
        IF i < n THEN new[i]
        ELSE IF i = n THEN [index |-> new[i].index,
                            name |-> IF named THEN new[i].name ELSE old[i].name]
        ELSE old[i]]

\* The copy throws: within an element it assigns to an old one, or between two elements of
\* rebuild_lookup().
CopyAssignThrows(o, p) ==
    /\ {o, p} \subseteq alive /\ o # p
    /\ \/ \E n \in DOMAIN Stored(p) \cap 1..(Len(Stored(o)) + 1), named \in BOOLEAN :
            /\ buffer[o] # NoBuffer
            /\ heap' = [heap EXCEPT ![buffer[o]] = Mixed(@, Stored(p), n, named)]
            /\ UNCHANGED <<allocated, buffer, indexMap, nameMap>>
       \/ Fills(o, Stored(p)) /\ RebuildThrows(o, Stored(p))
    /\ spoiled' = spoiled \cup {o}
    /\ UNCHANGED alive

\* o takes the buffer and the maps of p and frees its own; p's are cleared.
TakesOver(o, p) ==
    /\ buffer' = [buffer EXCEPT ![o] = buffer[p], ![p] = NoBuffer]
    /\ allocated' = allocated \ {buffer[o]}
    /\ indexMap' = [indexMap EXCEPT ![o] = indexMap[p], ![p] = NoPointers]
    /\ nameMap' = [nameMap EXCEPT ![o] = nameMap[p], ![p] = NoPointers]
    /\ spoiled' = (spoiled \ {o, p}) \cup (IF p \in spoiled THEN {o} ELSE {})
    /\ UNCHANGED heap

MoveConstruct(o, p) ==
    /\ o \notin alive /\ p \in alive
    /\ TakesOver(o, p)
    /\ alive' = alive \cup {o}

\* Mutant: the maps of the source keep their pointers.
MoveAssignKeepsMaps(o, p) ==
    /\ {o, p} \subseteq alive /\ o # p
    /\ buffer' = [buffer EXCEPT ![o] = buffer[p], ![p] = NoBuffer]
    /\ allocated' = allocated \ {buffer[o]}
    /\ indexMap' = [indexMap EXCEPT ![o] = indexMap[p]]
    /\ nameMap' = [nameMap EXCEPT ![o] = nameMap[p]]
    /\ spoiled' = (spoiled \ {o, p}) \cup (IF p \in spoiled THEN {o} ELSE {})
    /\ UNCHANGED <<heap, alive>>

\* A self-assignment does nothing.
MoveAssign(o, p) ==
    /\ {o, p} \subseteq alive /\ o # p
    /\ TakesOver(o, p)
    /\ UNCHANGED alive

Destroy(o) ==
    /\ o \in alive
    /\ alive' = alive \ {o}
    /\ allocated' = allocated \ {buffer[o]}
    /\ buffer' = [buffer EXCEPT ![o] = NoBuffer]
    /\ indexMap' = [indexMap EXCEPT ![o] = NoPointers]
    /\ nameMap' = [nameMap EXCEPT ![o] = NoPointers]
    /\ spoiled' = spoiled \ {o}
    /\ UNCHANGED heap

Next ==
    \E o \in Objects :
        \/ Construct(o) \/ Destroy(o)
        \/ \E p \in Objects :
             \/ CopyConstruct(o, p) \/ CopyAssign(o, p) \/ CopyAssignThrows(o, p)
             \/ MoveConstruct(o, p) \/ MoveAssign(o, p)

Spec == Init /\ [][Next]_vars

-----------------------------------------------------------------------------
Pointers == [in : Buffers \cup {NoBuffer}, at : Nat]

\* Types; a vector never has more elements than a device reported.
TypeOK ==
    /\ alive \subseteq Objects /\ spoiled \subseteq alive
    /\ heap \in [Buffers -> Lists]
    /\ allocated \subseteq Buffers
    /\ buffer \in [Objects -> Buffers \cup {NoBuffer}]
    /\ DOMAIN indexMap = Objects /\ DOMAIN nameMap = Objects
    /\ \A o \in Objects :
         /\ DOMAIN indexMap[o] \subseteq Indices /\ DOMAIN nameMap[o] \subseteq Names
         /\ \A i \in DOMAIN indexMap[o] : indexMap[o][i] \in Pointers
         /\ \A n \in DOMAIN nameMap[o] : nameMap[o][n] \in Pointers

\* Every pointer of a dictionary is to an element of its own vector, also after an
\* assignment that threw half-way: at() never follows a dangling pointer, nor one into
\* another dictionary.
PointersAreOwn ==
    \A o \in Objects :
        /\ \A i \in DOMAIN indexMap[o] : indexMap[o][i].in = buffer[o] /\ Live(indexMap[o][i])
        /\ \A n \in DOMAIN nameMap[o] : nameMap[o][n].in = buffer[o] /\ Live(nameMap[o][n])

\* The dictionaries behave as values: at() yields the first entry of the list with that
\* index or name, no copy shares anything with its source, and nothing is found in a
\* dictionary that has been moved from.
ImplementsTable == Table!TableSpec

\* Every buffer in use belongs to exactly one dictionary.
BuffersOwned ==
    /\ \A o \in Objects : buffer[o] # NoBuffer => buffer[o] \in allocated
    /\ \A o, p \in Objects : buffer[o] = buffer[p] /\ o # p => buffer[o] = NoBuffer
    /\ \A o \in Objects \ alive : buffer[o] = NoBuffer

\* The maps are those rebuild_lookup() would make, unless an assignment threw.
MapsRebuilt ==
    \A o \in Objects \ spoiled :
        /\ indexMap[o] = Emplaced(buffer[o], Stored(o), "index")
        /\ nameMap[o] = Emplaced(buffer[o], Stored(o), "name")

\* Types, the ownership of the buffers and the contents of the maps agree.
IInv == TypeOK /\ BuffersOwned /\ MapsRebuilt /\ PointersAreOwn
=============================================================================
