------------------------------ MODULE IndexedBag ------------------------------
(***************************************************************************)
(* The O(1) sampling multiset of the identity pool (class IndexedBag of    *)
(* domain/pool.ts): the items in an array, the place of each in a map,     *)
(* and removal by moving the last item into the hole.                      *)
(***************************************************************************)
EXTENDS Integers, Sequences

Holds(bag, id) == id \in DOMAIN bag.at
Places(bag)    == 1..Len(bag.items)

BagAdd(bag, id) ==
  IF Holds(bag, id)
    THEN bag
    ELSE [items |-> Append(bag.items, id),
          at    |-> [x \in DOMAIN bag.at \cup {id} |->
                       IF x = id THEN Len(bag.items) + 1 ELSE bag.at[x]]]

\* Mutant: the moved item keeps its old place in the map.
BagRemoveStale(bag, id) ==
  IF ~Holds(bag, id)
    THEN bag
    ELSE [items |-> [i \in 1..(Len(bag.items) - 1) |->
                       IF i = bag.at[id] THEN bag.items[Len(bag.items)] ELSE bag.items[i]],
          at    |-> [x \in DOMAIN bag.at \ {id} |-> bag.at[x]]]

\* The last item takes the place of the removed one (its own, when the removed
\* item is the last), then the array shrinks and the removed id is forgotten.
BagRemove(bag, id) ==
  IF ~Holds(bag, id)
    THEN bag
    ELSE LET hole == bag.at[id]
             last == bag.items[Len(bag.items)]
         IN [items |-> [i \in 1..(Len(bag.items) - 1) |->
                          IF i = hole THEN last ELSE bag.items[i]],
             at    |-> [x \in DOMAIN bag.at \ {id} |->
                          IF x = last THEN hole ELSE bag.at[x]]]

\* What pickActive draws: any item.
Samples(bag) == {bag.items[i] : i \in Places(bag)}

\* The array and the map agree: the map's ids are the items, and each is where
\* the map says.  A sample is uniform because no id stands twice.
Consistent(bag) ==
  /\ \A i \in Places(bag) : bag.items[i] \in DOMAIN bag.at /\ bag.at[bag.items[i]] = i
  /\ \A x \in DOMAIN bag.at : bag.at[x] \in Places(bag) /\ bag.items[bag.at[x]] = x
=============================================================================
