------------------------------- MODULE SList -------------------------------
(***************************************************************************)
(* The intrusive linked list of slist.c, which every queue of the          *)
(* simulator is: the run queue of a CPU and its list of pending events.    *)
(*                                                                         *)
(* A list is the sequence of its elements from head to tail.  A compare    *)
(* callback is always the difference of one integer field of the two       *)
(* elements, so it is modelled by that field: key[e] for element e.        *)
(***************************************************************************)
EXTENDS Integers, SequencesExt

\* insert_slist: at the tail.
InsertSList(s, e) == Append(s, e)

\* insert_before_slist with the element at position i, which is one past the
\* end when the search ran off the list (cur = NULL): then at the tail.
InsertBefore(s, i, e) == InsertAt(s, i, e)

\* The elements the search of sorted_insert_slist walks past: an equal one too,
\* so the new element goes behind its equals.
Walked(ascending, key, x, e) ==
    IF ascending THEN key[x] <= key[e] ELSE key[x] >= key[e]

\* The same for sorted_insert_slist_front: the search stops at an equal
\* element, so the new one goes in front of its equals.
WalkedFront(ascending, key, x, e) ==
    IF ascending THEN key[x] < key[e] ELSE key[x] > key[e]

\* Where a search that walks past the elements of `walked` comes to rest.
Rest(s, walked) ==
    LET stops == {i \in 1..Len(s) : s[i] \notin walked}
    IN  IF stops = {} THEN Len(s) + 1 ELSE Min(stops)

SortedInsert(s, e, ascending, key) ==
    InsertBefore(s, Rest(s, {x \in ToSet(s) : Walked(ascending, key, x, e)}), e)

SortedInsertFront(s, e, ascending, key) ==
    InsertBefore(s, Rest(s, {x \in ToSet(s) : WalkedFront(ascending, key, x, e)}), e)

\* remove_slist of tail_slist.
RemoveTail(s) == Front(s)

=============================================================================
