----------------------------- MODULE EntryTable -----------------------------
(***************************************************************************)
(* What an ObjectDictionary promises: it is a value.  It has a list of     *)
(* entries, a look-up by index or name yields the first entry of the list  *)
(* with that index or name, a copy has the entries of its source, and a    *)
(* move leaves its source empty.  An assignment that throws leaves its     *)
(* target with any entries and look-ups, and every other object alone.     *)
(***************************************************************************)
EXTENDS Naturals, Sequences

CONSTANTS
    Objects,  \* the dictionaries of a program
    Entries   \* entries a device may report: records with an index and a name

VARIABLES
    alive,    \* objects that exist
    content,  \* the entries of each object
    byIndex,  \* what at(index) yields, for every index that has_index() knows
    byName,   \* what at(name) yields, for every name that has_name() knows
    spoiled   \* objects whose last assignment threw

tableVars == <<alive, content, byIndex, byName, spoiled>>

\* The position of the first entry whose field is key, and the keys there are.
FirstWith(list, field, key) ==
    CHOOSE i \in DOMAIN list :
        /\ list[i][field] = key
        /\ \A j \in DOMAIN list : list[j][field] = key => i <= j

KeysOf(list, field) == {list[i][field] : i \in DOMAIN list}

LookUp(list, field) == [key \in KeysOf(list, field) |-> list[FirstWith(list, field, key)]]

TableInit ==
    /\ alive = {}
    /\ content = [o \in Objects |-> <<>>]
    /\ byIndex = [o \in Objects |-> LookUp(<<>>, "index")]
    /\ byName = [o \in Objects |-> LookUp(<<>>, "name")]
    /\ spoiled = {}

\* Object o has exactly this list, and the look-ups of it.
Becomes(o, list) ==
    /\ content' = [content EXCEPT ![o] = list]
    /\ byIndex' = [byIndex EXCEPT ![o] = LookUp(list, "index")]
    /\ byName' = [byName EXCEPT ![o] = LookUp(list, "name")]
    /\ spoiled' = spoiled \ {o}

Construct(o) ==
    /\ o \notin alive
    /\ alive' = alive \cup {o}
    /\ content'[o] \in Seq(Entries)
    /\ Becomes(o, content'[o])

\* o = p, by copy; o is created or assigned to.
CopyOf(o, p) ==
    /\ p \in alive /\ o # p
    /\ alive' = alive \cup {o}
    /\ Becomes(o, content[p])

\* o = std::move(p): o takes over what p has, p is empty.
MoveOf(o, p) ==
    /\ p \in alive /\ o # p
    /\ alive' = alive \cup {o}
    /\ content' = [content EXCEPT ![o] = content[p], ![p] = <<>>]
    /\ byIndex' = [byIndex EXCEPT ![o] = byIndex[p], ![p] = LookUp(<<>>, "index")]
    /\ byName' = [byName EXCEPT ![o] = byName[p], ![p] = LookUp(<<>>, "name")]
    /\ spoiled' = (spoiled \ {o, p}) \cup (IF p \in spoiled THEN {o} ELSE {})

\* An assignment to o throws.
Spoil(o) ==
    /\ o \in alive
    /\ alive' = alive
    /\ spoiled' = spoiled \cup {o}
    /\ \A q \in Objects \ {o} :
         content'[q] = content[q] /\ byIndex'[q] = byIndex[q] /\ byName'[q] = byName[q]

Destroy(o) ==
    /\ o \in alive
    /\ alive' = alive \ {o}
    /\ Becomes(o, <<>>)

TableNext ==
    \E o \in Objects :
        \/ Construct(o) \/ Spoil(o) \/ Destroy(o)
        \/ \E p \in Objects : CopyOf(o, p) \/ MoveOf(o, p)

TableSpec == TableInit /\ [][TableNext]_tableVars
=============================================================================
