-------------------------------- MODULE Bus ----------------------------------
(***************************************************************************)
(* What the process does at its start to be reached over the bus: the      *)
(* elements of wlan_emu_t::bus_register_handlers() and the events of       *)
(* wlan_emu_ui_mgr_t::bus_init(), each kept twice, by rbus and in a tree of *)
(* callbacks (bus/rdkb/wlan_emu_bus.cpp).                                   *)
(***************************************************************************)
EXTENDS Mux

CONSTANTS
  ElementLists,  \* the lists of elements that a process may register
  Events,        \* the events it subscribes to, in order
  Faults,        \* what may fail, by name
  MaxFaults      \* bound: failures of a behaviour

ASSUME BusAssumption ==
  /\ ElementLists \subseteq Seq(Seq(STRING))
  /\ Events \in Seq(Seq(STRING))

VARIABLES
  pc,         \* where the main thread is
  elements,   \* the elements of this program
  tried,      \* how many of them were tried, or events subscribed to
  known,      \* the elements that rbus knows
  handlers,   \* the tree of their callbacks
  listening,  \* the events that rbus delivers
  subs,       \* the tree of their callbacks
  faults

treeVars == <<elements, known, handlers, listening, subs>>

BusInit ==
  /\ pc = "register"
  /\ elements \in ElementLists
  /\ tried = 0
  /\ known = {}
  /\ handlers = EmptyTree
  /\ listening = {}
  /\ subs = EmptyTree
  /\ faults = 0

May(fault) == fault \in Faults /\ faults < MaxFaults /\ faults' = faults + 1

------------------------------------------------------------------------------
(* Without either handle of the bus the process goes on, and nobody can     *)
(* reach it, or it hears of nobody.                                         *)
OpenFails ==
  /\ pc \in {"register", "subscribe"} /\ tried = 0
  /\ May("open")
  /\ pc' = IF pc = "register" THEN "subscribe" ELSE "idle"
  /\ UNCHANGED <<tried, treeVars>>

(* rbus knows an element before its callbacks are in the tree: a request    *)
(* that comes in between is answered with an error.                         *)
RegisterElement ==
  /\ pc = "register" /\ tried < Len(elements)
  /\ known' = known \cup {elements[tried + 1]}
  /\ pc' = "insert"
  /\ UNCHANGED <<elements, tried, handlers, listening, subs, faults>>

Tried(next) ==
  IF tried + 1 < Len(elements) THEN tried' = tried + 1 /\ pc' = "register"
  ELSE tried' = 0 /\ pc' = next

mux_bus_cb_registration ==
  /\ pc = "insert"
  /\ handlers' =
       bus_insert_elem_node(handlers, elements[tried + 1], elements[tried + 1])
  /\ Tried("subscribe")
  /\ UNCHANGED <<elements, known, listening, subs, faults>>

(* Only the result of the last element is returned. *)
RegisterFails ==
  /\ pc = "register" /\ tried < Len(elements)
  /\ May("register")
  /\ Tried("unregister")
  /\ UNCHANGED treeVars

RemoveAll(tree, paths) == FoldLeft(bus_table_remove_row, tree, paths)

(* bus_unreg_data_elements() keeps the callbacks when rbus refuses, and the *)
(* caller closes the bus all the same.                                      *)
Unregister ==
  /\ pc = "unregister"
  /\ handlers' \in {RemoveAll(handlers, elements), handlers}
  /\ known' = {}
  /\ pc' = "subscribe"
  /\ UNCHANGED <<elements, tried, listening, subs, faults>>

(* The callback is in the tree before the first event can come. *)
Heard(event) == subs' = bus_insert_elem_node(subs, event, event)

bus_event_subscribe ==
  /\ pc = "subscribe" /\ tried < Len(Events)
  /\ Heard(Events[tried + 1])
  /\ listening' = listening \cup {Events[tried + 1]}
  /\ tried' = tried + 1
  /\ pc' = IF tried' = Len(Events) THEN "get" ELSE pc
  /\ UNCHANGED <<elements, known, handlers, faults>>

(* The caller of m_ui_mgr.init() does not look at its result. *)
SubscribeFails ==
  /\ pc = "subscribe"
  /\ May("subscribe")
  /\ Heard(Events[tried + 1])
  /\ pc' = "idle"
  /\ UNCHANGED <<elements, tried, known, handlers, listening>>

BusStart ==
  \/ OpenFails \/ RegisterElement \/ mux_bus_cb_registration
  \/ RegisterFails \/ Unregister
  \/ bus_event_subscribe \/ SubscribeFails

------------------------------------------------------------------------------
(* A request or an event that rbus delivers finds the callbacks of its own  *)
(* name, whatever other names share its parts, and a request for an element *)
(* that was not registered finds none.                                      *)
Served ==
  LET all     == {elements[k] : k \in DOMAIN elements}
      pending == IF pc = "insert" THEN {elements[tried + 1]} ELSE {}
  IN
  /\ \A e \in all \ pending :
       known # {} => get_bus_cb_data_info(handlers, e) =
                       IF e \in known THEN e ELSE NoData
  /\ \A e \in listening : get_bus_cb_data_info(subs, e) = e
=============================================================================
