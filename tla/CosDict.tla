------------------------------ MODULE CosDict ------------------------------
(***************************************************************************)
(* CosDict: a hash table with linear probing that never removes an entry   *)
(* and doubles when three quarters are used; with the callbacks of a       *)
(* dictionary object, whose keys are name objects that it owns, or of the  *)
(* object cache, whose keys are numbers and whose values are retained.     *)
(***************************************************************************)
EXTENDS CosCapacity, FiniteSets, Sequences, FiniteSetsExt, Functions

CONSTANTS Keys,         \* the keys, as pointers: numbers, of which 0 is NULL
          NameOf,       \* the name of each key that is a name object
          NameHash,     \* the hash of each name
          Values,
          Hints,        \* the capacity hints
          CapacityMax,  \* the most entries that can be allocated
          ReplacedMax,  \* a bound on the entries that are overwritten
          Absent

VARIABLES dict,      \* its entries, capacity, count and callbacks, or Absent
          refs,      \* the references that the dictionary has to each key and value
          replaced,  \* those that were to entries which were overwritten
          iterator   \* its index and the keys it returned, or Absent

vars == <<dict, refs, replaced, iterator>>

NoEntry == [key |-> 0, value |-> Absent]

\* What a slot of the table may have, and the dictionaries of a capacity.
SlotRecords == {NoEntry} \cup [key : Keys \ {0}, value : Values]

Tables(capacity) == [entries : [0 .. capacity - 1 -> SlotRecords], capacity : {capacity},
                     count : Nat, callbacks : {"node", "cache"}]

(***************************************************************************)
(* Hashing and probing.                                                    *)
(***************************************************************************)
\* Without a hash callback the key is its own hash.
Hash(callbacks, key) == IF callbacks = "node" THEN NameHash[NameOf[key]] ELSE key

KeyEqual(callbacks, k1, k2) == IF callbacks = "node" THEN NameOf[k1] = NameOf[k2] ELSE k1 = k2

\* The first slot of a set at or behind the one of a hash, round and round.
FirstFrom(hash, capacity, slots) ==
  LET ahead == {s \in slots : s >= hash % capacity}
  IN  IF ahead # {} THEN Min(ahead) ELSE Min(slots)

Found(d, key) ==
  {s \in 0 .. d.capacity - 1 :
     d.entries[s].key = 0 \/ KeyEqual(d.callbacks, d.entries[s].key, key)}

\* cos_dict_find_entry_: the first slot that is empty or has the key. It is
\* looked for round and round while there is none.
FindEntry(d, key) == FirstFrom(Hash(d.callbacks, key), d.capacity, Found(d, key))

Ends(d, key) == Found(d, key) # {}

(***************************************************************************)
(* Creation and destruction.                                               *)
(***************************************************************************)
Objects == Keys \cup Values

Init == /\ dict = Absent
        /\ refs = [x \in Objects |-> 0]
        /\ replaced = [x \in Objects |-> 0]
        /\ iterator = Absent

Empty(capacity) == [s \in 0 .. capacity - 1 |-> NoEntry]

Create ==
  /\ dict = Absent
  /\ \E hint \in Hints, callbacks \in {"node", "cache"} :
       /\ RoundCapacity(hint) <= CapacityMax
       /\ dict' = [entries |-> Empty(RoundCapacity(hint)), capacity |-> RoundCapacity(hint),
                   count |-> 0, callbacks |-> callbacks]
  /\ UNCHANGED <<refs, replaced, iterator>>

\* How many references the entries are, by the callbacks that count them.
Entries(d, x) ==
  IF x = 0 THEN 0 ELSE
  Cardinality({s \in 0 .. d.capacity - 1 : d.entries[s].key # 0 /\ d.entries[s].value = x})
    + IF d.callbacks = "node" THEN Cardinality({s \in 0 .. d.capacity - 1 : d.entries[s].key = x}) ELSE 0

\* The references of a dictionary that is gone can only have been lost.
Destroy ==
  /\ dict # Absent
  /\ refs' = [x \in Objects |-> refs[x] - Entries(dict, x)]
  /\ dict' = Absent
  /\ iterator' = Absent
  /\ UNCHANGED replaced

(***************************************************************************)
(* Setting and getting.                                                    *)
(***************************************************************************)
\* Mutant: the table may become full.
IsCrowdedWhenOver(d) == d.count > d.capacity

IsCrowded(d) == d.count >= (d.capacity \div 4) * 3

Filled(d) == {s \in 0 .. d.capacity - 1 : d.entries[s].key # 0}

\* Mutant: the search begins where it began in the old table.
PutAgainAsBefore(d, e) ==
  [d EXCEPT !.entries[FirstFrom(Hash(d.callbacks, e.key) % (d.capacity \div 2), d.capacity,
                                Found(d, e.key))] = e]

PutAgain(d, e) == [d EXCEPT !.entries[FindEntry(d, e.key)] = e]

\* cos_dict_grow_: the entries are put into the new table in their old order.
Grown(d, capacity) ==
  LET copied[n \in 0 .. d.capacity] ==
        IF n = 0 THEN [d EXCEPT !.capacity = capacity, !.entries = Empty(capacity)]
        ELSE IF d.entries[n - 1].key = 0 THEN copied[n - 1]
        ELSE PutAgain(copied[n - 1], d.entries[n - 1])
  IN  copied[d.capacity]

\* The dictionary in which the key is set, if there is memory for it.
Roomy(d) ==
  IF IsCrowded(d)
  THEN {Grown(d, c) : c \in {RoundCapacity(d.capacity + 1)} \cap 1 .. CapacityMax}
  ELSE {d}

\* The references that a set takes over, or retains: to the value, and to the key
\* of a dictionary object.
Taken(d, key, value) == {value} \cup IF d.callbacks = "node" THEN {key} ELSE {}

IsNew(entry) == entry.key = 0

Put(d, key, value) ==
  LET s == FindEntry(d, key)
  IN  [d EXCEPT !.entries[s] = [key |-> key, value |-> value],
                !.count = d.count + IF IsNew(d.entries[s]) THEN 1 ELSE 0]

\* Setting a key that is there replaces its key and its value, and releases
\* neither of them.
Set(key, value) ==
  /\ dict # Absent /\ key # 0
  /\ \E d \in Roomy(dict) :
       /\ Ends(d, key)
       /\ LET old == d.entries[FindEntry(d, key)]
              overwritten == IF old.key = 0 THEN {} ELSE Taken(d, old.key, old.value)
          IN  /\ overwritten # {} => \A x \in Objects : replaced[x] < ReplacedMax
              /\ dict' = Put(d, key, value)
              /\ refs' = [x \in Objects |-> refs[x] + IF x \in Taken(d, key, value) THEN 1 ELSE 0]
              /\ replaced' = [x \in Objects |-> replaced[x] + IF x \in overwritten THEN 1 ELSE 0]
  /\ iterator' = Absent

\* A NULL key is refused; growing may fail.
SetFails(key) == dict # Absent /\ (key = 0 \/ IsCrowded(dict)) /\ UNCHANGED vars

\* The search for a key in a table that is full and does not have it.
SearchForever(key) == dict # Absent /\ key # 0 /\ ~Ends(dict, key)

\* cos_dict_get, through which the dictionary is seen as a map.
Get(d, key) == d.entries[FindEntry(d, key)].value

(***************************************************************************)
(* Iterating. Setting a key makes an iterator invalid.                     *)
(***************************************************************************)
IteratorInit ==
  /\ dict # Absent
  /\ iterator' = [index |-> 0, returned |-> <<>>]
  /\ UNCHANGED <<dict, refs, replaced>>

AfterReturned(s) == s + 1

IteratorNext ==
  /\ dict # Absent /\ iterator # Absent
  /\ LET rest == {s \in iterator.index .. dict.capacity - 1 : dict.entries[s].key # 0}
     IN  iterator' = IF rest = {} THEN [iterator EXCEPT !.index = dict.capacity]
                     ELSE [index |-> AfterReturned(Min(rest)),
                           returned |-> Append(iterator.returned, dict.entries[Min(rest)].key)]
  /\ UNCHANGED <<dict, refs, replaced>>

Next == \/ Create \/ Destroy
        \/ \E key \in Keys : SetFails(key) \/ \E value \in Values : Set(key, value)
        \/ IteratorInit \/ IteratorNext

Spec == Init /\ [][Next]_vars

(***************************************************************************)
(* Properties.                                                             *)
(***************************************************************************)
\* The count is the number of the entries, whose keys are different.
TypeOK ==
  dict # Absent =>
    /\ dict.count = Cardinality(Filled(dict))
    /\ \A s, t \in Filled(dict) :
         s # t => ~KeyEqual(dict.callbacks, dict.entries[s].key, dict.entries[t].key)

\* A search always ends: some entry stays empty, whatever is set, grown or not.
SearchesEnd == \A key \in Keys : ~SearchForever(key)

\* The dictionary has a reference to whatever is in it, for each time that it is,
\* and none but those of what was replaced.
RefsExact ==
  \A x \in Objects :
    refs[x] = replaced[x] + IF dict = Absent THEN 0 ELSE Entries(dict, x)

\* "If an object with the same object number is already cached, it is replaced
\* and released." (CosObjCache.h:60-61): nothing is kept of what was replaced.
ReplacedAreReleased == \A x \in Objects : replaced[x] = 0

\* An iterator that came to the end has returned every key, and none twice.
IteratesOverAll ==
  iterator # Absent =>
    /\ \A i, j \in DOMAIN iterator.returned : i # j => iterator.returned[i] # iterator.returned[j]
    /\ iterator.index = dict.capacity =>
         Range(iterator.returned) = {dict.entries[s].key : s \in Filled(dict)}

\* What is found by probing is a map (CosMap), across collisions and growth.
Names == {NameOf[k] : k \in Keys \ {0}}

KeyNamed == [n \in Names |-> CHOOSE k \in Keys \ {0} : NameOf[k] = n]

MapOf == INSTANCE CosMap WITH
  map <- IF dict = Absent THEN Absent
         ELSE [n \in Names |-> Get(dict, KeyNamed[n])]

IsMap == MapOf!Spec
=============================================================================
