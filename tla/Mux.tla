-------------------------------- MODULE Mux ----------------------------------
(***************************************************************************)
(* The tree in which the bus layer keeps the callbacks of the program       *)
(* (bus/common/wlan_emu_bus_common.cpp): one node per part of a dotted name *)
(* with pointers to its first child, its next sibling and its parent.  A    *)
(* path is the sequence of the parts of a name.  The rows of tables, which  *)
(* the program has none of, are left out.                                   *)
(***************************************************************************)
EXTENDS Naturals, Sequences, SequencesExt

Null == 0
Root == 1
NoData == <<>>

Node(name, parent) ==
  [name |-> name, parent |-> parent, child |-> Null, next |-> Null,
   data |-> NoData]

(* A tree is a function from the addresses of its nodes. *)
EmptyTree == [n \in {Root} |-> Node("", Null)]

------------------------------------------------------------------------------
(* The node of the list from first that has this name. *)
Sibling(tree, first, name) ==
  LET from[n \in DOMAIN tree \cup {Null}] ==
        IF n = Null \/ tree[n].name = name THEN n ELSE from[tree[n].next]
  IN  from[first]

LastSibling(tree, first) ==
  LET from[n \in DOMAIN tree] ==
        IF tree[n].next = Null THEN n ELSE from[tree[n].next]
  IN  from[first]

(* A part that is not found ends the search of all that follow. *)
Below(tree, n, name) ==
  IF n = Null THEN Null ELSE Sibling(tree, tree[n].child, name)

retrieve_instance_elem_node(tree, path) ==
  LET at[k \in 0 .. Len(path)] ==
        IF k = 0 THEN Root ELSE Below(tree, at[k - 1], path[k])
  IN  at[Len(path)]

get_bus_cb_data_info(tree, path) ==
  LET n == retrieve_instance_elem_node(tree, path) IN
  IF n = Null THEN NoData ELSE tree[n].data

------------------------------------------------------------------------------
(* A new node that always becomes the first child loses the others. *)
AddNode_Bug(tree, parent, name) ==
  LET new == Max(DOMAIN tree) + 1
  IN  [at |-> new,
       tree |-> [n \in DOMAIN tree \cup {new} |->
                   IF n = new THEN Node(name, parent)
                   ELSE IF n = parent THEN [tree[n] EXCEPT !.child = new]
                   ELSE tree[n]]]

(* The new node is the only child, or comes after the last one. *)
AddNode(tree, parent, name) ==
  LET new   == Max(DOMAIN tree) + 1
      first == tree[parent].child
      grown == [n \in DOMAIN tree \cup {new} |->
                  IF n = new THEN Node(name, parent) ELSE tree[n]]
  IN  [at |-> new,
       tree |-> IF first = Null
                THEN [grown EXCEPT ![parent].child = new]
                ELSE [grown EXCEPT ![LastSibling(tree, first)].next = new]]

Descend(place, name) ==
  LET n == Below(place.tree, place.at, name) IN
  IF n # Null THEN [place EXCEPT !.at = n]
  ELSE AddNode(place.tree, place.at, name)

bus_insert_elem_node(tree, path, data) ==
  LET place[k \in 0 .. Len(path)] ==
        IF k = 0 THEN [tree |-> tree, at |-> Root]
        ELSE Descend(place[k - 1], path[k])
      end == place[Len(path)]
  IN  [end.tree EXCEPT ![end.at].data = data]

(* A node goes with all that is below it, and its list is closed.          *)
IsBelow(tree, top) ==
  LET below[n \in DOMAIN tree \cup {Null}] ==
        n # Null /\ (n = top \/ below[tree[n].parent])
  IN  {n \in DOMAIN tree : below[n]}

Unlinked(tree, old) ==
  [n \in DOMAIN tree \ IsBelow(tree, old) |->
     [tree[n] EXCEPT !.child = IF @ = old THEN tree[old].next ELSE @,
                     !.next  = IF @ = old THEN tree[old].next ELSE @]]

bus_table_remove_row(tree, path) ==
  LET n == retrieve_instance_elem_node(tree, path) IN
  IF n = Null THEN tree ELSE Unlinked(tree, n)
=============================================================================
