------------------------------ MODULE MultiMap ------------------------------
(***************************************************************************)
(* multi_map.rs: two hash maps that share one heap item for every entry.   *)
(* The item is a box (k1, k2, v); map1 and map2 hold raw pointers to it,   *)
(* and their keys are pointers into it too, so that a look-up reads the    *)
(* key through the pointer. A map is a record of the pointers in map1, the *)
(* pointers in map2 and the boxes not yet freed, by their addresses.       *)
(***************************************************************************)
EXTENDS Integers

Items(m) == DOMAIN m.heap

(* MultiMap::new *)
Empty == [map1 |-> {}, map2 |-> {}, heap |-> [a \in {} |-> a]]

(* The pointers a look-up finds: it compares the keys they point at. *)
Find1(m, k) == {a \in m.map1 : m.heap[a].k1 = k}
Find2(m, k) == {a \in m.map2 : m.heap[a].k2 = k}

(* get1 and get2: the values found, one or none. *)
Get1(m, k) == {m.heap[a].v : a \in Find1(m, k)}
Get2(m, k) == {m.heap[a].v : a \in Find2(m, k)}

(* The boxes of A are dropped. *)
Free(m, A) == [a \in Items(m) \ A |-> m.heap[a]]

(* insert: refused if either key is there; else a new box, at a free address. *)
Insert(m, a, k1, k2, v) ==
  IF Find1(m, k1) # {} \/ Find2(m, k2) # {}
  THEN m
  ELSE [map1 |-> m.map1 \cup {a},
        map2 |-> m.map2 \cup {a},
        heap |-> [b \in Items(m) \cup {a} |->
                    IF b = a THEN [k1 |-> k1, k2 |-> k2, v |-> v] ELSE m.heap[b]]]

(* Variant: the pointer in the other map is left behind. *)
Remove1_OneMap(m, k) ==
  LET A == Find1(m, k) IN
  [map1 |-> m.map1 \ A, map2 |-> m.map2, heap |-> Free(m, A)]

(***************************************************************************)
(* remove1: the pointer is taken out of map1, the one in map2 is looked up *)
(* with the second key of its item, and the box is dropped at the end.     *)
(***************************************************************************)
Remove1(m, k) ==
  LET A == Find1(m, k) IN
  [map1 |-> m.map1 \ A,
   map2 |-> m.map2 \ UNION {Find2(m, m.heap[a].k2) : a \in A},
   heap |-> Free(m, A)]

(* remove2, the same the other way round. *)
Remove2(m, k) ==
  LET A == Find2(m, k) IN
  [map1 |-> m.map1 \ UNION {Find1(m, m.heap[a].k1) : a \in A},
   map2 |-> m.map2 \ A,
   heap |-> Free(m, A)]

(* drop: map1 is cleared, and the boxes that map2 points at are dropped. *)
Drop(m) == [map1 |-> {}, map2 |-> {}, heap |-> Free(m, m.map2)]

-----------------------------------------------------------------------------
(***************************************************************************)
(* Every pointer of both maps points at a box that is still there, and     *)
(* every box is in both maps: nothing is read or dropped after it is       *)
(* freed, and nothing is left over. Neither key is there twice.            *)
(***************************************************************************)
WellFormed(m) ==
  /\ m.map1 = Items(m) /\ m.map2 = Items(m)
  /\ \A a, b \in Items(m) :
       m.heap[a].k1 = m.heap[b].k1 \/ m.heap[a].k2 = m.heap[b].k2 => a = b

=============================================================================
