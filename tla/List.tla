-------------------------------- MODULE List --------------------------------
(***************************************************************************)
(* lib/kernel/list.c: a struct list is the sequence of the elements linked *)
(* between its head and tail sentinels.  An element carries its own prev   *)
(* and next pointers, so it can be linked into one list at a time only.    *)
(***************************************************************************)
EXTENDS Naturals, Sequences, FiniteSets

elem_find(plist, obj_elem) == \E i \in 1 .. Len(plist) : plist[i] = obj_elem

list_empty(plist) == plist = << >>

list_append(plist, elem) == Append(plist, elem)

list_push(plist, elem) == << elem >> \o plist

\* list_pop returns the first element and unlinks it.
list_first(plist) == Head(plist)

list_pop(plist) == Tail(plist)

\* list_remove of each of a set of elements; the others keep their order.
list_remove(plist, elems) ==
    LET left == {i \in 1 .. Len(plist) : plist[i] \notin elems}
        nth(k) == CHOOSE i \in left : Cardinality({j \in left : j < i}) = k - 1
    IN  [k \in 1 .. Cardinality(left) |-> plist[nth(k)]]

\* No element is linked twice: what every list_insert_before relies on.
NoDup(plist) ==
    \A i, j \in 1 .. Len(plist) : plist[i] = plist[j] => i = j
=============================================================================
