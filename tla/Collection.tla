----------------------------- MODULE Collection -----------------------------
(***************************************************************************)
(* The queue and the hash map of src/utils/collection.c, as sequences that *)
(* begin at the head of the list.  queue_push() adds at the head and       *)
(* queue_pop() takes from the tail, so that an index counts from the       *)
(* newest element.  The map is a queue of entries: put does not look for   *)
(* the key it is given, and a lookup compares only as many characters as   *)
(* the key that is asked for has.                                          *)
(*                                                                         *)
(* A null element or a failed allocation is not modelled.                  *)
(***************************************************************************)
EXTENDS Integers, Sequences, SequencesExt

queue_push(q, data) == <<data>> \o q

(* The oldest element, which queue_pop() takes, and the elements in the     *)
(* order in which it returns them one after the other.                     *)
queue_oldest(q) == Last(q)
queue_popped(q) == Reverse(q)

(* The index is the code's: it counts from 0. *)
queue_remove(q, index) == RemoveAt(q, index + 1)

hash_map_put(map, key) == queue_push(map, key)

(* The place of the entry a lookup finds, the first from the head whose    *)
(* key begins with the one that is asked for; 0 when there is none.         *)
hash_map_find(map, matching) ==
  LET places == {i \in DOMAIN map : map[i] \in matching}
  IN IF places = {} THEN 0
     ELSE CHOOSE i \in places : \A j \in places : i <= j

hash_map_remove(map, matching) ==
  LET i == hash_map_find(map, matching)
  IN IF i = 0 THEN map ELSE queue_remove(map, i - 1)
=============================================================================
