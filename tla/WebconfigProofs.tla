--------------------------- MODULE WebconfigProofs ---------------------------
(***************************************************************************)
(* Theorems about Webconfig, for every list of elements and events, every   *)
(* test case, every failure and whatever OneWifi publishes.                 *)
(***************************************************************************)
EXTENDS Webconfig, FiniteSetTheorems, WellFoundedInduction, TLAPS

MapStates == {"none", "live", "freed"}

(* A document in work, and its fields.                                      *)
Document(t) ==
  /\ t = [phase |-> t.phase, kind |-> t.kind, config |-> t.config,
          todo |-> t.todo]
  /\ t.phase \in {"free", "copy"}

(* A map is freed only while the document that brings another one is copied *)
(* and has not come to it yet.                                              *)
FreedIsReplaced ==
  \A v \in Vaps :
    acl[v] = "freed" =>
      thread # Idle /\ thread.phase = "copy" /\ v \in Replaced

AclInv ==
  /\ acl \in [Vaps -> MapStates]
  /\ thread = Idle \/ Document(thread)
  /\ FreedIsReplaced

(* Without freed maps the thread may be anywhere. *)
LEMMA NoneFreed ==
  ASSUME acl' \in [Vaps -> {"none", "live"}],
         thread' = Idle \/ Document(thread)'
  PROVE  AclInv'
BY DEF AclInv, FreedIsReplaced, MapStates, Document

LEMMA AclUnchanged ==
  ASSUME AclInv, UNCHANGED <<thread, acl>>
  PROVE  AclInv'
BY DEF AclInv, FreedIsReplaced, Document, Replaced

LEMMA AclInit == Init => AclInv
<1> SUFFICES ASSUME Init PROVE AclInv
  OBVIOUS
<1>1. acl = [v \in Vaps |-> "none"] /\ thread = Idle
  BY DEF Init
<1> QED BY <1>1 DEF AclInv, FreedIsReplaced, MapStates

(* bus_init() runs beside the thread of the bus.                            *)
LEMMA AclBusInit ==
  ASSUME AclInv, bus_init
  PROVE  AclInv'
<1>1. CASE UNCHANGED <<thread, acl>>
  BY <1>1, AclUnchanged
<1>2. CASE /\ thread' = thread
           /\ \/ acl' = [v \in Vaps |-> "none"]
              \/ acl' = [v \in Vaps |-> "live"]
  <2>1. acl' \in [Vaps -> {"none", "live"}]
    BY <1>2
  <2>2. thread' = Idle \/ Document(thread)'
    BY <1>2 DEF AclInv, Document
  <2> QED BY <2>1, <2>2, NoneFreed
<1> QED
  BY <1>1, <1>2 DEF bus_init, GetInit, webconfig_init, Store, GivesUp, cacheVars

LEMMA AclDecodes ==
  ASSUME AclInv, Decodes
  PROVE  AclInv'
<1>1. CASE UNCHANGED thread
  BY <1>1, AclUnchanged DEF Decodes
<1>2. CASE thread' = [phase  |-> "free", kind |-> Head(north).kind,
                      config |-> Head(north).config,
                      todo   |-> Copied(Head(north).kind)]
  <2>1. acl' \in [Vaps -> {"none", "live"}]
    BY DEF Decodes, AclInv, FreedIsReplaced, MapStates
  <2>2. Document(thread)'
    BY <1>2 DEF Document
  <2> QED BY <2>1, <2>2, NoneFreed
<1> QED BY <1>1, <1>2 DEF Decodes

LEMMA AclFrees ==
  ASSUME AclInv, Frees
  PROVE  AclInv'
<1>1. Document(thread) /\ thread.phase = "free"
  BY DEF Frees, AclInv, Idle
<1>2. thread' = [phase |-> "copy", kind |-> thread.kind,
                 config |-> thread.config, todo |-> thread.todo]
  BY <1>1 DEF Frees, Document
<1>3. Replaced' = Replaced
  BY <1>2 DEF Replaced
<1>4. \A v \in Vaps : acl'[v] = "freed" => v \in Replaced
  BY <1>1 DEF Frees, AclInv, FreedIsReplaced
<1>5. acl' \in [Vaps -> MapStates]
  BY DEF Frees, AclInv, MapStates
<1>6. Document(thread)' /\ thread' # Idle /\ thread'.phase = "copy"
  BY <1>2 DEF Document, Idle
<1> QED BY <1>3, <1>4, <1>5, <1>6 DEF AclInv, FreedIsReplaced

(* What is copied is taken off the list, and its map is alive again.        *)
LEMMA AclCopies ==
  ASSUME AclInv, cci_cache_update
  PROVE  AclInv'
<1>1. Document(thread) /\ thread.phase = "copy"
  BY DEF cci_cache_update, AclInv, Idle
<1>2. PICK p \in thread.todo :
        /\ acl' = IF p \in Replaced THEN [acl EXCEPT ![p] = "live"] ELSE acl
        /\ thread' = [thread EXCEPT !.todo = @ \ {p}]
  BY DEF cci_cache_update
<1>3. thread' = [phase |-> "copy", kind |-> thread.kind,
                 config |-> thread.config, todo |-> thread.todo \ {p}]
  BY <1>1, <1>2 DEF Document
<1>4. Replaced' = Replaced \ {p}
  BY <1>3 DEF Replaced
<1>5. acl' \in [Vaps -> MapStates]
  BY <1>2 DEF AclInv, MapStates
<1>6. \A v \in Vaps : acl'[v] = "freed" => acl[v] = "freed" /\ v # p
  BY <1>1, <1>2 DEF AclInv, FreedIsReplaced
<1>7. \A v \in Vaps : acl'[v] = "freed" => v \in Replaced'
  BY <1>4, <1>6 DEF AclInv, FreedIsReplaced
<1>8. Document(thread)' /\ thread' # Idle /\ thread'.phase = "copy"
  BY <1>3 DEF Document, Idle
<1> QED BY <1>5, <1>7, <1>8 DEF AclInv, FreedIsReplaced

(* The thread goes idle when nothing is left to copy.                       *)
LEMMA AclNotifies ==
  ASSUME AclInv, send_webconfig_ctrl_msg
  PROVE  AclInv'
<1>1. Replaced = {}
  BY DEF send_webconfig_ctrl_msg, Replaced
<1>2. acl' \in [Vaps -> {"none", "live"}]
  BY <1>1 DEF send_webconfig_ctrl_msg, AclInv, FreedIsReplaced, MapStates
<1>3. thread' = Idle
  BY DEF send_webconfig_ctrl_msg
<1> QED BY <1>2, <1>3, NoneFreed

LEMMA AclStep == AclInv /\ [Next]_vars => AclInv'
<1> SUFFICES ASSUME AclInv, [Next]_vars PROVE AclInv'
  OBVIOUS
<1>1. CASE BusStart /\ UNCHANGED <<gatewayVars, cacheVars, testVars>>
  BY <1>1, AclUnchanged DEF cacheVars
<1>2. CASE bus_init
  BY <1>2, AclBusInit
<1>3. CASE OneWifi
  BY <1>3, AclUnchanged DEF OneWifi, cacheVars
<1>4. CASE BusThread
  BY <1>4, AclDecodes, AclFrees, AclCopies, AclNotifies DEF BusThread
<1>5. CASE TestThread
  <2>1. CASE StartTest \/ ExecuteFails \/ ExecuteConfig \/ step_timeout \/ NextStep
    BY <2>1, AclUnchanged
    DEF StartTest, ExecuteFails, ExecuteConfig, step_timeout, NextStep, cacheVars
  <2>2. CASE ExecuteStation \/ Deliver
    BY <2>2, AclUnchanged DEF ExecuteStation, Deliver
  <2> QED BY <1>5, <2>1, <2>2 DEF TestThread
<1>6. CASE Finished \/ UNCHANGED vars
  BY <1>6, AclUnchanged DEF Finished, vars, cacheVars
<1> QED BY <1>1, <1>2, <1>3, <1>4, <1>5, <1>6 DEF Next

(* update_cci_subdoc_vap_data() and mac_filter_cci_cache_update() never     *)
(* leave a map of addresses in the cache that was freed, although bus_init() *)
(* fills the same cache on another thread.                                  *)
THEOREM MapsAreOwned == Spec => []AclOwned
<1>1. AclInv => AclOwned
  BY DEF AclInv, FreedIsReplaced, AclOwned
<1> QED BY <1>1, AclInit, AclStep, PTL DEF Spec

------------------------------------------------------------------------------
(* The types of what is on its way and of the cache.                        *)
Documents == {"dml", "wifi_config", "radio"} \cup Vaps
Versions == Nat \ {0}
Configuration == [Parts -> Versions]
Sent == [kind : Configs, config : Versions]
Published == [kind : Documents, config : Configuration]
InWork == [phase : {"free", "copy"}, kind : Documents, config : Configuration,
           todo : SUBSET Parts]

(* got is a configuration from GetInit to Store. *)
WebTypes ==
  /\ onewifi \in Configuration
  /\ newest \in Versions
  /\ south \in Seq(Sent)
  /\ north \in Seq(Published)
  /\ thread = Idle \/ thread \in InWork
  /\ got \in [Parts -> Nat]
  /\ pc \in {"init", "store"} => got \in Configuration
  /\ cache \in [Parts -> Nat]
  /\ dev \in Seq(Documents)

(* The length of the longest test case, and the mark of a station step,     *)
(* which no configuration has.                                              *)
Longest == Max({Len(p) : p \in Plans})

LEMMA LongestType ==
  /\ Longest \in Nat
  /\ \A p \in Plans : Len(p) <= Longest
<1> DEFINE L == {Len(p) : p \in Plans}
<1>1. \E x \in L : \A y \in L : x >= y
  <2>1. PICK longest \in Plans : \A p \in Plans : Len(p) <= Len(longest)
    BY WebconfigAssumption
  <2>2. \A p \in Plans : Len(p) \in Nat
    BY WebconfigAssumption
  <2> QED BY <2>1, <2>2
<1>2. Longest = CHOOSE x \in L : \A y \in L : x >= y
  BY DEF Longest, Max
<1>3. Longest \in L /\ \A y \in L : Longest >= y
  <2> HIDE DEF L
  <2> QED BY <1>1, <1>2
<1>4. \A p \in Plans : Len(p) \in Nat
  BY WebconfigAssumption
<1> QED BY <1>3, <1>4

LEMMA OverriddenType ==
  /\ MaxCases * Longest \in Nat
  /\ Overridden = MaxChanges + MaxCases * Longest + 1
  /\ Overridden \in Versions
<1>1. MaxCases * Longest \in Nat
  BY LongestType, WebconfigAssumption
<1>2. Overridden = MaxChanges + MaxCases * Longest + 1
  BY DEF Overridden, Longest
<1> QED BY <1>1, <1>2, WebconfigAssumption DEF Versions

LEMMA CoversParts ==
  \A kind \in Documents : Covers(kind) \subseteq Parts
BY DEF Documents, Vaps, Covers, Parts

(* A document is copied as a whole, or not at all by a cache without radios. *)
LEMMA CopiedIsCovered ==
  ASSUME NEW kind \in Documents
  PROVE  /\ Copied(kind) \subseteq Covers(kind)
         /\ cache["radio"] # 0 => Copied(kind) = Covers(kind)
         /\ Copied(kind) # Covers(kind) => Copied(kind) = {} /\ kind # "dml"
         /\ "radio" \in Copied(kind) => Copied(kind) = Covers(kind)
BY DEF Documents, Vaps, Copied, Covers, Parts, update_cci_subdoc_vap_data

LEMMA WithType ==
  ASSUME WebTypes, NEW kind, NEW n \in Versions
  PROVE  /\ With(kind, n) \in Configuration
         /\ \A p \in Parts : With(kind, n)[p] =
                               IF p \in Covers(kind) THEN n ELSE onewifi[p]
BY DEF WebTypes, With, Configuration

(* What the stations may write does not touch the radios.                   *)
LEMMA OverrideParts ==
  ASSUME NEW parts \in decode_user_ap_config
  PROVE  /\ parts \subseteq {"private", "private_security"}
         /\ plan[step] # "station_override" => parts = {}
<1>1. \A r \in update_vap_common_object : r.writes = {"private"}
  BY DEF update_vap_common_object
<1>2. \A r \in update_vap_security_object : r.writes \subseteq {"private_security"}
  BY DEF update_vap_security_object, RefusedSecurity
<1>3. CASE plan[step] # "station_override"
  BY <1>3 DEF decode_user_ap_config
<1>4. CASE plan[step] = "station_override"
  <2>1. PICK common \in update_vap_common_object,
             security \in update_vap_security_object :
          parts = common.writes \cup (IF common.ok THEN security.writes ELSE {})
    BY <1>4 DEF decode_user_ap_config
  <2> QED BY <1>1, <1>2, <1>4, <2>1
<1> QED BY <1>3, <1>4

LEMMA WebTypesInit == Init => WebTypes
<1> SUFFICES ASSUME Init PROVE WebTypes
  OBVIOUS
<1>1. Nothing \in [Parts -> Nat] /\ [p \in Parts |-> 1] \in Configuration
  BY DEF Nothing, Configuration, Versions
<1>2. pc = "register"
  BY DEF Init, BusInit
<1> QED BY <1>1, <1>2 DEF Init, WebTypes, Versions

LEMMA TypesUnchanged ==
  ASSUME WebTypes, UNCHANGED <<gatewayVars, cacheVars>>,
         pc' \notin {"init", "store"} \/ pc' = pc
  PROVE  WebTypes'
<1>1. UNCHANGED <<onewifi, newest, south, north, thread, got, cache, dev>>
  BY DEF gatewayVars, cacheVars
<1> QED BY <1>1 DEF WebTypes

LEMMA TypesBusInit ==
  ASSUME WebTypes, bus_init
  PROVE  WebTypes'
<1>1. UNCHANGED <<onewifi, newest, south, north>>
  BY DEF bus_init, gatewayVars
<1>2. CASE UNCHANGED cacheVars /\ pc' = "idle"
  BY <1>1, <1>2, TypesUnchanged DEF gatewayVars
<1>3. CASE /\ got' = onewifi
           /\ UNCHANGED <<thread, ready, cache, acl, dev, missed, faults>>
  <2>1. got' \in Configuration /\ got' \in [Parts -> Nat]
    BY <1>3 DEF WebTypes, Configuration, Versions
  <2> QED BY <1>1, <1>3, <2>1 DEF WebTypes
<1>4. CASE /\ pc = "init"
           /\ UNCHANGED <<thread, got, cache, dev, missed, faults>>
  BY <1>1, <1>4 DEF WebTypes
<1>5. CASE /\ cache' = got /\ got' = Nothing /\ pc' = "idle"
           /\ UNCHANGED <<thread, ready, dev, missed, faults>>
  <2>1. got' \in [Parts -> Nat]
    BY <1>5 DEF Nothing
  <2> QED BY <1>1, <1>5, <2>1 DEF WebTypes
<1> QED
  BY <1>2, <1>3, <1>4, <1>5
  DEF bus_init, GetInit, webconfig_init, Store, GivesUp

LEMMA AppendType ==
  ASSUME NEW S, NEW q \in Seq(S), NEW e \in S
  PROVE  /\ Append(q, e) \in Seq(S)
         /\ Len(Append(q, e)) = Len(q) + 1
         /\ \A i \in 1 .. Len(q) : Append(q, e)[i] = q[i]
         /\ Append(q, e)[Len(q) + 1] = e
OBVIOUS

LEMMA TailType ==
  ASSUME NEW S, NEW q \in Seq(S), q # <<>>
  PROVE  /\ Tail(q) \in Seq(S) /\ Head(q) \in S /\ Head(q) = q[1]
         /\ Len(q) \in Nat \ {0} /\ Len(Tail(q)) = Len(q) - 1
         /\ \A i \in 1 .. Len(Tail(q)) : Tail(q)[i] = q[i + 1]
OBVIOUS

LEMMA PublishesType ==
  ASSUME WebTypes, NEW kind \in Documents, NEW n \in Versions,
         Publishes(kind, With(kind, n))
  PROVE  onewifi' \in Configuration /\ north' \in Seq(Published)
<1> DEFINE c == With(kind, n)
<1>1. c \in Configuration
  BY WithType
<1>2. [kind |-> kind, config |-> c] \in Published
  BY <1>1 DEF Published
<1>3. /\ onewifi' = c
      /\ north' = north \/ north' = Append(north, [kind |-> kind, config |-> c])
  BY DEF Publishes
<1>4. north \in Seq(Published)
  BY DEF WebTypes
<1>5. Append(north, [kind |-> kind, config |-> c]) \in Seq(Published)
  BY <1>2, <1>4, AppendType
<1> QED BY <1>1, <1>3, <1>4, <1>5

LEMMA SouthHead ==
  ASSUME WebTypes, south # <<>>
  PROVE  /\ Head(south) \in Sent /\ Tail(south) \in Seq(Sent)
         /\ Head(south).kind \in Configs /\ Head(south).kind \in Documents
         /\ Head(south).config \in Versions
         /\ Head(south) = south[1]
<1>1. Head(south) \in Sent /\ Tail(south) \in Seq(Sent) /\ Head(south) = south[1]
  BY DEF WebTypes
<1> QED BY <1>1 DEF Sent, Configs, Documents, Vaps

LEMMA TypesOneWifi ==
  ASSUME WebTypes, OneWifi
  PROVE  WebTypes'
<1>1. UNCHANGED <<pc, thread, got, cache, dev>>
  BY DEF OneWifi, cacheVars
<1>2. CASE Applies
  <2>1. south' \in Seq(Sent) /\ newest' = newest
    BY <1>2, SouthHead DEF Applies
  <2>2. onewifi' \in Configuration /\ north' \in Seq(Published)
    BY <1>2, SouthHead, PublishesType DEF Applies
  <2> QED BY <1>1, <2>1, <2>2 DEF WebTypes
<1>3. CASE Rejects
  BY <1>1, <1>3, SouthHead DEF Rejects, WebTypes
<1>4. ASSUME NEW kind \in OwnChanges, Changes(kind) PROVE WebTypes'
  <2>1. newest' \in Versions /\ south' = south
    BY <1>4 DEF Changes, WebTypes, Versions
  <2>2. kind \in Documents
    BY WebconfigAssumption DEF Documents
  <2>3. onewifi' \in Configuration /\ north' \in Seq(Published)
    BY <1>4, <2>1, <2>2, PublishesType DEF Changes
  <2> QED BY <1>1, <2>1, <2>3 DEF WebTypes
<1> QED BY <1>2, <1>3, <1>4 DEF OneWifi

LEMMA NorthHead ==
  ASSUME WebTypes, north # <<>>
  PROVE  /\ Head(north) \in Published /\ Tail(north) \in Seq(Published)
         /\ Head(north).kind \in Documents /\ Head(north).config \in Configuration
         /\ Head(north) = north[1]
<1>1. Head(north) \in Published /\ Tail(north) \in Seq(Published)
      /\ Head(north) = north[1]
  BY DEF WebTypes
<1> QED BY <1>1 DEF Published

(* The document in work, and one that the thread takes up.                  *)
LEMMA WorkType ==
  ASSUME WebTypes, thread # Idle
  PROVE  /\ thread \in InWork
         /\ thread.phase \in {"free", "copy"} /\ thread.kind \in Documents
         /\ thread.config \in Configuration /\ thread.todo \subseteq Parts
         /\ thread = [phase |-> thread.phase, kind |-> thread.kind,
                      config |-> thread.config, todo |-> thread.todo]
BY DEF WebTypes, InWork

LEMMA NotIdle ==
  ASSUME NEW t, t \in InWork \/ t.phase \in {"free", "copy"}
  PROVE  t # Idle
BY DEF InWork, Idle

Taken == [phase |-> "free", kind |-> Head(north).kind,
          config |-> Head(north).config, todo |-> Copied(Head(north).kind)]

LEMMA TakenType ==
  ASSUME WebTypes, north # <<>>
  PROVE  Taken \in InWork
<1>1. Copied(Head(north).kind) \subseteq Parts
  BY NorthHead, CopiedIsCovered, CoversParts
<1> QED BY <1>1, NorthHead DEF Taken, InWork

LEMMA TypesThread ==
  ASSUME WebTypes, BusThread
  PROVE  WebTypes'
<1>1. UNCHANGED <<pc, onewifi, newest, south, got>>
  BY DEF BusThread
<1>2. CASE Decodes
  <2>1. cache' = cache /\ dev' = dev /\ north' \in Seq(Published)
    BY <1>2, NorthHead DEF Decodes
  <2>2. thread' = thread \/ thread' \in InWork
    BY <1>2, TakenType DEF Decodes, Taken
  <2> QED BY <1>1, <2>1, <2>2 DEF WebTypes
<1>3. CASE Frees
  <2>1. thread # Idle
    BY <1>3, NotIdle DEF Frees
  <2>2. thread' = [phase |-> "copy", kind |-> thread.kind,
                   config |-> thread.config, todo |-> thread.todo]
    BY <1>3, <2>1, WorkType DEF Frees
  <2>3. thread' \in InWork
    BY <2>1, <2>2, WorkType DEF InWork
  <2>4. UNCHANGED <<north, cache, dev>>
    BY <1>3 DEF Frees
  <2> QED BY <1>1, <2>3, <2>4 DEF WebTypes
<1>4. CASE cci_cache_update
  <2>1. thread # Idle
    BY <1>4, NotIdle DEF cci_cache_update
  <2>2. PICK p \in thread.todo :
          /\ cache' = [cache EXCEPT ![p] = thread.config[p]]
          /\ thread' = [thread EXCEPT !.todo = @ \ {p}]
    BY <1>4 DEF cci_cache_update
  <2>3. thread' = [phase |-> thread.phase, kind |-> thread.kind,
                   config |-> thread.config, todo |-> thread.todo \ {p}]
    BY <2>1, <2>2, WorkType
  <2>4. thread' \in InWork
    BY <2>1, <2>3, WorkType DEF InWork
  <2>5. thread.config[p] \in Nat
    BY <2>1, WorkType DEF Configuration, Versions
  <2>6. cache' \in [Parts -> Nat]
    BY <2>2, <2>5 DEF WebTypes
  <2>7. UNCHANGED <<north, dev>>
    BY <1>4 DEF cci_cache_update
  <2> QED BY <1>1, <2>4, <2>6, <2>7 DEF WebTypes
<1>5. CASE send_webconfig_ctrl_msg
  <2>1. thread.kind \in Documents
    BY <1>5, WorkType, NotIdle DEF send_webconfig_ctrl_msg
  <2>2. dev' \in Seq(Documents)
    <3>1. dev \in Seq(Documents)
      BY DEF WebTypes
    <3>2. Append(dev, thread.kind) \in Seq(Documents)
      BY <2>1, <3>1, AppendType
    <3> QED BY <1>5, <3>1, <3>2 DEF send_webconfig_ctrl_msg
  <2>3. thread' = Idle /\ UNCHANGED <<north, cache>>
    BY <1>5 DEF send_webconfig_ctrl_msg
  <2> QED BY <1>1, <2>2, <2>3 DEF WebTypes
<1> QED BY <1>2, <1>3, <1>4, <1>5 DEF BusThread

LEMMA TypesTest ==
  ASSUME WebTypes, TestThread
  PROVE  WebTypes'
<1>1. CASE StartTest \/ ExecuteFails \/ step_timeout \/ NextStep
  <2>1. pc' \notin {"init", "store"} \/ pc' = pc
    BY <1>1 DEF StartTest, ExecuteFails, step_timeout, NextStep
  <2>2. UNCHANGED <<gatewayVars, cacheVars>>
    BY <1>1 DEF StartTest, ExecuteFails, step_timeout, NextStep
  <2> QED BY <2>1, <2>2, TypesUnchanged
<1>2. CASE ExecuteConfig
  <2>1. newest' \in Versions
    BY <1>2 DEF ExecuteConfig, WebTypes, Versions
  <2>2. [kind |-> plan[step], config |-> newest'] \in Sent
    BY <1>2, <2>1 DEF ExecuteConfig, Sent
  <2>3. south' \in Seq(Sent)
    BY <1>2, <2>2 DEF ExecuteConfig, WebTypes
  <2>4. UNCHANGED <<pc, onewifi, north, thread, got, cache, dev>>
    BY <1>2 DEF ExecuteConfig, cacheVars
  <2> QED BY <2>1, <2>3, <2>4 DEF WebTypes
<1>3. CASE ExecuteStation
  <2>1. cache' \in [Parts -> Nat]
    BY <1>3, OverriddenType DEF ExecuteStation, WebTypes, Versions
  <2>2. pc' \notin {"init", "store"} \/ pc' = pc
    BY <1>3 DEF ExecuteStation
  <2>3. UNCHANGED <<onewifi, newest, south, north, thread, got, dev>>
    BY <1>3 DEF ExecuteStation, gatewayVars
  <2> QED BY <2>1, <2>2, <2>3 DEF WebTypes
<1>4. CASE Deliver
  <2>1. dev' \in Seq(Documents)
    BY <1>4 DEF Deliver, WebTypes
  <2>2. UNCHANGED <<pc, onewifi, newest, south, north, thread, got, cache>>
    BY <1>4 DEF Deliver, gatewayVars
  <2> QED BY <2>1, <2>2 DEF WebTypes
<1> QED BY <1>1, <1>2, <1>3, <1>4 DEF TestThread

LEMMA BusStartMoves ==
  ASSUME BusStart
  PROVE  /\ pc \in {"register", "insert", "unregister", "subscribe"}
         /\ pc' \in {"register", "insert", "unregister", "subscribe", "get", "idle"}
         /\ listening \subseteq listening'
<1>1. CASE OpenFails
  BY <1>1 DEF OpenFails, treeVars
<1>2. CASE RegisterElement
  BY <1>2 DEF RegisterElement
<1>3. CASE mux_bus_cb_registration
  BY <1>3 DEF mux_bus_cb_registration, Tried
<1>4. CASE RegisterFails
  BY <1>4 DEF RegisterFails, Tried, treeVars
<1>5. CASE Unregister
  BY <1>5 DEF Unregister
<1>6. CASE bus_event_subscribe
  BY <1>6 DEF bus_event_subscribe
<1>7. CASE SubscribeFails
  BY <1>7 DEF SubscribeFails
<1> QED BY <1>1, <1>2, <1>3, <1>4, <1>5, <1>6, <1>7 DEF BusStart

LEMMA WebTypesStep == WebTypes /\ [Next]_vars => WebTypes'
<1> SUFFICES ASSUME WebTypes, [Next]_vars PROVE WebTypes'
  OBVIOUS
<1>1. CASE BusStart /\ UNCHANGED <<gatewayVars, cacheVars, testVars>>
  BY <1>1, BusStartMoves, TypesUnchanged
<1>2. CASE Finished \/ UNCHANGED vars
  BY <1>2, TypesUnchanged DEF Finished, vars
<1> QED
  BY <1>1, <1>2, TypesBusInit, TypesOneWifi, TypesThread, TypesTest DEF Next

------------------------------------------------------------------------------
(* The cache follows OneWifi.  A document that comes between the            *)
(* subscription and the first configuration is not excluded by the code:    *)
(* bus_init() would then overwrite it with the older one.                   *)
NothingEarly == "early" \notin Faults

Booting == pc \notin {"idle", "test", "crashed"}

(* Until bus_init() is over nothing is on its way, and what it has asked    *)
(* for is what OneWifi still has.                                           *)
BootInv ==
  /\ Booting => /\ north = <<>> /\ south = <<>>
                /\ thread = Idle /\ cache = Nothing
  /\ pc \in {"init", "store"} => got = onewifi
  /\ pc \in {"get", "init", "store"} => Events[1] \in listening
  /\ pc \in {"unregister", "subscribe"} =>
       tried \in Nat /\ (tried > 0 => Events[1] \in listening)
  /\ pc = "unregister" => tried = 0

(* Nothing reaches the cache without the subscription. *)
HeardInv ==
  north # <<>> \/ thread # Idle \/ cache["radio"] # 0 => Events[1] \in listening

(* The last document on its way that brings a part brings the present       *)
(* configuration of it.                                                     *)
NorthInv ==
  \A p \in Parts : \A i \in 1 .. Len(north) :
    /\ p \in Covers(north[i].kind)
    /\ \A j \in i + 1 .. Len(north) : p \notin Covers(north[j].kind)
    => north[i].config[p] = onewifi[p]

Todo == IF thread = Idle THEN {} ELSE thread.todo
Awaited == {p \in Parts : \E i \in 1 .. Len(north) : p \in Covers(north[i].kind)}

TodoInv == \A p \in Todo \ Awaited : thread.config[p] = onewifi[p]

(* A part that is neither to be copied nor on its way is in the cache.      *)
CopiedInv ==
  ~missed /\ (cache["radio"] # 0 \/ "radio" \in Todo) =>
    \A p \in Parts \ (Todo \cup Awaited) : cache[p] \in {onewifi[p], Overridden}

CurrentInv == BootInv /\ HeardInv /\ NorthInv /\ TodoInv /\ CopiedInv

LEMMA CurrentInit == Init => CurrentInv
<1> SUFFICES ASSUME Init PROVE CurrentInv
  OBVIOUS
<1>1. /\ pc = "register" /\ north = <<>> /\ south = <<>> /\ thread = Idle
      /\ cache = Nothing
  BY DEF Init, BusInit
<1>2. cache["radio"] = 0
  BY <1>1 DEF Nothing, Parts
<1> QED
  BY <1>1, <1>2 DEF CurrentInv, BootInv, HeardInv, NorthInv, Todo, TodoInv, CopiedInv

(* What neither OneWifi nor the thread nor a step changes.                  *)
CurrentVars == <<onewifi, north, thread, cache, missed>>

LEMMA CurrentUnchanged ==
  ASSUME CurrentInv, BootInv', UNCHANGED CurrentVars, listening \subseteq listening'
  PROVE  CurrentInv'
BY DEF CurrentInv, CurrentVars, HeardInv, NorthInv, TodoInv, CopiedInv, Todo, Awaited

LEMMA BootUnchanged ==
  ASSUME BootInv, ~Booting, ~Booting'
  PROVE  BootInv'
BY DEF BootInv, Booting

(* The first event is heard before bus_init() asks for the configuration.   *)
LEMMA CurrentBusStart ==
  ASSUME CurrentInv, BusStart, UNCHANGED <<gatewayVars, cacheVars>>
  PROVE  CurrentInv'
<1>1. UNCHANGED <<onewifi, north, south, thread, cache, got, missed>>
  BY DEF gatewayVars, cacheVars
<1>2. Booting
  BY BusStartMoves DEF Booting
<1>3. /\ pc' \in {"unregister", "subscribe"} =>
           tried' \in Nat /\ (tried' > 0 => Events[1] \in listening')
      /\ pc' = "unregister" => tried' = 0
      /\ pc' = "get" => Events[1] \in listening'
  <2>1. CASE OpenFails
    BY <2>1 DEF OpenFails
  <2>2. CASE RegisterElement \/ mux_bus_cb_registration \/ RegisterFails
    BY <2>2 DEF RegisterElement, mux_bus_cb_registration, RegisterFails, Tried
  <2>3. CASE Unregister
    BY <2>3 DEF Unregister, CurrentInv, BootInv
  <2>4. CASE bus_event_subscribe
    <3>1. tried \in Nat /\ (tried > 0 => Events[1] \in listening)
      BY <2>4 DEF bus_event_subscribe, CurrentInv, BootInv
    <3>2. Events[1] \in listening'
      BY <2>4, <3>1 DEF bus_event_subscribe
    <3> QED BY <2>4, <3>1, <3>2 DEF bus_event_subscribe
  <2>5. CASE SubscribeFails
    BY <2>5 DEF SubscribeFails
  <2> QED
    BY <2>1, <2>2, <2>3, <2>4, <2>5 DEF BusStart
<1>4. pc' \notin {"init", "store"}
  BY BusStartMoves
<1>5. BootInv'
  BY <1>1, <1>2, <1>3, <1>4 DEF CurrentInv, BootInv, Booting
<1> QED
  BY <1>1, <1>5, BusStartMoves, CurrentUnchanged DEF CurrentVars

LEMMA CurrentBusInit ==
  ASSUME WebTypes, CurrentInv, bus_init
  PROVE  CurrentInv'
<1>1. UNCHANGED <<onewifi, north, south, listening, tried>>
  BY DEF bus_init, gatewayVars, treeVars
<1>2. Booting /\ pc \in {"get", "init", "store"}
  BY DEF bus_init, GetInit, webconfig_init, Store, Booting
<1>3. /\ north = <<>> /\ south = <<>> /\ thread = Idle /\ cache = Nothing
      /\ Events[1] \in listening
  BY <1>2 DEF CurrentInv, BootInv
<1>4. CASE UNCHANGED cacheVars /\ pc' = "idle"
  <2>1. BootInv'
    BY <1>4 DEF BootInv, Booting
  <2> QED BY <1>1, <1>4, <2>1, CurrentUnchanged DEF CurrentVars, cacheVars
<1>5. CASE /\ got' = onewifi /\ pc' = "init"
           /\ UNCHANGED <<thread, ready, cache, acl, dev, missed, faults>>
  <2>1. BootInv'
    BY <1>1, <1>3, <1>5 DEF BootInv, Booting
  <2> QED BY <1>1, <1>5, <2>1, CurrentUnchanged DEF CurrentVars
<1>6. CASE /\ pc = "init" /\ pc' = "store"
           /\ UNCHANGED <<thread, got, cache, dev, missed, faults>>
  <2>1. BootInv'
    BY <1>1, <1>3, <1>6 DEF CurrentInv, BootInv, Booting
  <2> QED BY <1>1, <1>6, <2>1, CurrentUnchanged DEF CurrentVars
<1>7. CASE /\ pc = "store" /\ cache' = got /\ got' = Nothing /\ pc' = "idle"
           /\ UNCHANGED <<thread, ready, dev, missed, faults>>
  <2>1. BootInv'
    BY <1>7 DEF BootInv, Booting
  <2>2. cache' = onewifi'
    BY <1>1, <1>7 DEF CurrentInv, BootInv
  <2>3. north' = <<>> /\ thread' = Idle /\ Events[1] \in listening'
    BY <1>1, <1>3, <1>7
  <2> QED
    BY <2>1, <2>2, <2>3 DEF CurrentInv, HeardInv, NorthInv, TodoInv, CopiedInv, Todo
<1> QED
  BY <1>4, <1>5, <1>6, <1>7
  DEF bus_init, GetInit, webconfig_init, Store, GivesUp

(* OneWifi publishes a document with the parts it has changed.              *)
LEMMA PublishesCurrent ==
  ASSUME WebTypes, CurrentInv, BootInv', NEW kind \in Documents, NEW n \in Versions,
         Publishes(kind, With(kind, n)),
         UNCHANGED <<thread, cache, missed, listening>>
  PROVE  CurrentInv'
<1>1. onewifi' = With(kind, n)
  BY DEF Publishes
<1>2. \A p \in Parts : onewifi'[p] = IF p \in Covers(kind) THEN n ELSE onewifi[p]
  BY <1>1, WithType
<1>3. Todo' = Todo
  BY DEF Todo
<1>4. CASE Events[1] \notin listening
  <2>1. north = <<>> /\ thread = Idle /\ cache["radio"] = 0
    BY <1>4 DEF CurrentInv, HeardInv
  <2>2. north' = <<>>
    BY <1>4, <2>1 DEF Publishes
  <2>3. Todo' = {}
    BY <1>3, <2>1 DEF Todo
  <2> QED
    BY <2>1, <2>2, <2>3 DEF CurrentInv, HeardInv, NorthInv, TodoInv, CopiedInv
<1>5. CASE Events[1] \in listening
  <2> DEFINE d == [kind |-> kind, config |-> With(kind, n)]
  <2>1. north' = Append(north, d)
    BY <1>5 DEF Publishes
  <2>2. d \in Published /\ d.kind = kind /\ d.config = onewifi'
    BY <1>1, WithType DEF Published
  <2> HIDE DEF d
  <2>3. /\ Len(north) \in Nat /\ Len(north') = Len(north) + 1
        /\ \A i \in 1 .. Len(north) : north'[i] = north[i]
        /\ north'[Len(north) + 1] = d
    BY <2>1, <2>2, AppendType DEF WebTypes
  <2>4. Awaited' = Awaited \cup (Parts \cap Covers(kind))
    <3>1. ASSUME NEW p \in Parts PROVE p \in Awaited' <=> p \in Awaited \/ p \in Covers(kind)
      BY <2>2, <2>3 DEF Awaited
    <3> QED BY <3>1 DEF Awaited
  <2>5. HeardInv'
    BY <1>5 DEF HeardInv
  <2>6. NorthInv'
    <3> SUFFICES ASSUME NEW p \in Parts, NEW i \in 1 .. Len(north'),
                        p \in Covers(north'[i].kind),
                        \A j \in i + 1 .. Len(north') : p \notin Covers(north'[j].kind)
                 PROVE  north'[i].config[p] = onewifi'[p]
      BY DEF NorthInv
    <3>1. CASE i = Len(north) + 1
      BY <2>2, <2>3, <3>1
    <3>2. CASE i # Len(north) + 1
      <4>1. i \in 1 .. Len(north) /\ north'[i] = north[i]
        BY <2>3, <3>2
      <4>2. p \notin Covers(kind)
        BY <2>2, <2>3, <4>1
      <4>3. \A j \in i + 1 .. Len(north) : p \notin Covers(north[j].kind)
        BY <2>3, <4>1
      <4>4. north[i].config[p] = onewifi[p]
        BY <4>1, <4>3 DEF CurrentInv, NorthInv
      <4> QED BY <1>2, <4>1, <4>2, <4>4
    <3> QED BY <3>1, <3>2
  <2>7. Todo \subseteq Parts
    BY WorkType DEF Todo
  <2>8. TodoInv'
    BY <1>2, <1>3, <2>4, <2>7 DEF CurrentInv, TodoInv
  <2>9. CopiedInv'
    BY <1>2, <1>3, <2>4 DEF CurrentInv, CopiedInv
  <2> QED BY <2>5, <2>6, <2>8, <2>9 DEF CurrentInv
<1> QED BY <1>4, <1>5

LEMMA CurrentOneWifi ==
  ASSUME NothingEarly, WebTypes, CurrentInv, OneWifi
  PROVE  CurrentInv'
<1>1. UNCHANGED <<pc, tried, listening, thread, cache, missed, got>>
  BY DEF OneWifi, cacheVars, treeVars
<1>2. CASE Applies
  <2>1. ~Booting /\ ~Booting'
    BY <1>1, <1>2 DEF Applies, CurrentInv, BootInv, Booting
  <2>2. BootInv'
    BY <2>1, BootUnchanged DEF CurrentInv
  <2>3. /\ Head(south).kind \in Documents /\ Head(south).config \in Versions
        /\ Publishes(Head(south).kind, With(Head(south).kind, Head(south).config))
    BY <1>2, SouthHead DEF Applies
  <2> QED BY <1>1, <2>2, <2>3, PublishesCurrent
<1>3. CASE Rejects
  <2>1. ~Booting /\ ~Booting'
    BY <1>1, <1>3 DEF Rejects, CurrentInv, BootInv, Booting
  <2>2. BootInv'
    BY <2>1, BootUnchanged DEF CurrentInv
  <2> QED BY <1>1, <1>3, <2>2, CurrentUnchanged DEF Rejects, CurrentVars
<1>4. ASSUME NEW kind \in OwnChanges, Changes(kind) PROVE CurrentInv'
  <2>1. ~Booting /\ ~Booting'
    BY <1>1, <1>4 DEF Changes, NothingEarly, Booting
  <2>2. BootInv'
    BY <2>1, BootUnchanged DEF CurrentInv
  <2>3. kind \in Documents
    BY WebconfigAssumption DEF Documents
  <2>4. newest' \in Versions
    BY <1>4 DEF Changes, WebTypes, Versions
  <2>5. Publishes(kind, With(kind, newest'))
    BY <1>4 DEF Changes
  <2> QED BY <1>1, <2>2, <2>3, <2>4, <2>5, PublishesCurrent
<1> QED BY <1>2, <1>3, <1>4 DEF OneWifi

LEMMA CurrentDecodes ==
  ASSUME WebTypes, CurrentInv, BootInv', Decodes, UNCHANGED <<onewifi, listening>>
  PROVE  CurrentInv'
<1>1. thread = Idle /\ north # <<>> /\ north' = Tail(north) /\ cache' = cache
  BY DEF Decodes
<1>2. /\ Len(north) \in Nat \ {0} /\ Len(north') = Len(north) - 1
      /\ \A i \in 1 .. Len(north') : north'[i] = north[i + 1]
      /\ Head(north) = north[1]
  BY <1>1, TailType DEF WebTypes
<1>3. Awaited = Awaited' \cup (Parts \cap Covers(north[1].kind))
  <2>1. ASSUME NEW p \in Parts
        PROVE  p \in Awaited <=> p \in Awaited' \/ p \in Covers(north[1].kind)
    <3>1. ASSUME NEW i \in 1 .. Len(north), p \in Covers(north[i].kind), i # 1
          PROVE  p \in Awaited'
      <4>1. i - 1 \in 1 .. Len(north') /\ north'[i - 1] = north[i]
        BY <1>2, <3>1
      <4> QED BY <3>1, <4>1 DEF Awaited
    <3>2. ASSUME NEW i \in 1 .. Len(north'), p \in Covers(north'[i].kind)
          PROVE  p \in Awaited
      <4>1. i + 1 \in 1 .. Len(north) /\ north'[i] = north[i + 1]
        BY <1>2, <3>2
      <4> QED BY <3>2, <4>1 DEF Awaited
    <3> QED BY <1>2, <3>1, <3>2 DEF Awaited
  <2> QED BY <2>1 DEF Awaited
<1>4. HeardInv'
  BY <1>1 DEF CurrentInv, HeardInv
<1>5. NorthInv'
  <2> SUFFICES ASSUME NEW p \in Parts, NEW i \in 1 .. Len(north'),
                      p \in Covers(north'[i].kind),
                      \A j \in i + 1 .. Len(north') : p \notin Covers(north'[j].kind)
               PROVE  north'[i].config[p] = onewifi'[p]
    BY DEF NorthInv
  <2>1. i + 1 \in 1 .. Len(north) /\ north'[i] = north[i + 1]
    BY <1>2
  <2>2. ASSUME NEW j \in (i + 1) + 1 .. Len(north) PROVE p \notin Covers(north[j].kind)
    <3>1. j - 1 \in i + 1 .. Len(north') /\ north'[j - 1] = north[j]
      BY <1>2
    <3> QED BY <3>1
  <2> QED BY <2>1, <2>2 DEF CurrentInv, NorthInv
<1>6. CASE thread' = thread /\ missed' = TRUE
  BY <1>1, <1>4, <1>5, <1>6 DEF CurrentInv, TodoInv, CopiedInv, Todo
<1>7. CASE thread' = Taken /\ missed' = missed
  <2>1. thread' # Idle /\ Todo' = Copied(Head(north).kind) /\ thread'.config = north[1].config
    BY <1>1, <1>2, <1>7, TakenType, NotIdle DEF Todo, Taken
  <2>2. Head(north).kind = north[1].kind /\ north[1].kind \in Documents
    BY <1>1, <1>2, NorthHead
  <2>3. Todo' \subseteq Parts /\ Todo' \subseteq Covers(north[1].kind)
    BY <2>1, <2>2, CopiedIsCovered, CoversParts
  <2>4. TodoInv'
    <3> SUFFICES ASSUME NEW p \in Todo' \ Awaited' PROVE thread'.config[p] = onewifi'[p]
      BY DEF TodoInv
    <3>1. p \in Parts /\ p \in Covers(north[1].kind)
      BY <2>3
    <3>2. ASSUME NEW j \in 1 + 1 .. Len(north) PROVE p \notin Covers(north[j].kind)
      <4>1. j - 1 \in 1 .. Len(north') /\ north'[j - 1] = north[j]
        BY <1>2
      <4> QED BY <3>1, <4>1 DEF Awaited
    <3>3. 1 \in 1 .. Len(north)
      BY <1>2
    <3>4. north[1].config[p] = onewifi[p]
      BY <3>1, <3>2, <3>3 DEF CurrentInv, NorthInv
    <3> QED BY <2>1, <3>4
  <2>5. CopiedInv'
    <3> SUFFICES ASSUME ~missed', cache'["radio"] # 0 \/ "radio" \in Todo',
                        NEW p \in Parts \ (Todo' \cup Awaited')
                 PROVE  cache'[p] \in {onewifi'[p], Overridden}
      BY DEF CopiedInv
    <3>1. Todo' = Covers(north[1].kind)
      BY <1>1, <2>1, <2>2, CopiedIsCovered
    <3>2. CASE north[1].kind = "dml"
      BY <3>1, <3>2 DEF Covers
    <3>3. CASE north[1].kind # "dml"
      <4>1. cache["radio"] # 0
        BY <1>1, <2>1, <2>2, <3>3 DEF Copied, update_cci_subdoc_vap_data, Vaps
      <4>2. Todo = {} /\ p \notin Awaited
        BY <1>1, <1>3, <3>1 DEF Todo
      <4> QED BY <1>1, <1>7, <4>1, <4>2 DEF CurrentInv, CopiedInv
    <3> QED BY <3>2, <3>3
  <2> QED BY <1>4, <1>5, <2>4, <2>5 DEF CurrentInv
<1> QED BY <1>6, <1>7 DEF Decodes, Taken

LEMMA CurrentThread ==
  ASSUME WebTypes, CurrentInv, BusThread
  PROVE  CurrentInv'
<1>1. UNCHANGED <<pc, tried, listening, onewifi, south, got>>
  BY DEF BusThread, treeVars
<1>2. thread # Idle \/ north # <<>>
  BY NotIdle DEF BusThread, Decodes, Frees, cci_cache_update, send_webconfig_ctrl_msg
<1>3. ~Booting /\ ~Booting'
  BY <1>1, <1>2 DEF CurrentInv, BootInv, Booting
<1>4. BootInv'
  BY <1>3, BootUnchanged DEF CurrentInv
<1>5. CASE Decodes
  BY <1>1, <1>4, <1>5, CurrentDecodes
<1>6. CASE Frees
  <2>1. thread # Idle
    BY <1>6, NotIdle DEF Frees
  <2>2. thread' = [phase |-> "copy", kind |-> thread.kind,
                   config |-> thread.config, todo |-> thread.todo]
    BY <1>6, <2>1, WorkType DEF Frees
  <2>3. thread' # Idle /\ thread'.config = thread.config /\ Todo' = Todo
    BY <2>1, <2>2, NotIdle DEF Todo
  <2>4. UNCHANGED <<north, cache, missed>>
    BY <1>6 DEF Frees
  <2> QED
    BY <1>1, <1>4, <2>1, <2>3, <2>4
    DEF CurrentInv, HeardInv, NorthInv, TodoInv, CopiedInv, Awaited
<1>7. CASE cci_cache_update
  <2>1. thread # Idle
    BY <1>7, NotIdle DEF cci_cache_update
  <2>2. PICK p \in thread.todo :
          /\ cache' = [cache EXCEPT ![p] = thread.config[p]]
          /\ thread' = [thread EXCEPT !.todo = @ \ {p}]
    BY <1>7 DEF cci_cache_update
  <2>3. thread' = [phase |-> thread.phase, kind |-> thread.kind,
                   config |-> thread.config, todo |-> thread.todo \ {p}]
    BY <2>1, <2>2, WorkType
  <2>4. thread' # Idle /\ thread'.config = thread.config /\ Todo' = Todo \ {p}
    BY <2>1, <2>3, WorkType, NotIdle DEF Todo
  <2>5. UNCHANGED <<north, missed>>
    BY <1>7 DEF cci_cache_update
  <2>6. Awaited' = Awaited
    BY <2>5 DEF Awaited
  <2>7. p \in Parts /\ p \in Todo
    BY <2>1, <2>2, WorkType DEF Todo
  <2>8. \A q \in Parts : cache'[q] = IF q = p THEN thread.config[p] ELSE cache[q]
    BY <2>2 DEF WebTypes
  <2>9. p \notin Awaited => thread.config[p] = onewifi[p]
    BY <2>7 DEF CurrentInv, TodoInv
  <2>10. HeardInv' /\ NorthInv'
    BY <1>1, <2>1, <2>5 DEF CurrentInv, HeardInv, NorthInv
  <2>11. TodoInv'
    BY <1>1, <2>4, <2>6 DEF CurrentInv, TodoInv
  <2>12. CopiedInv'
    <3> SUFFICES ASSUME ~missed, cache'["radio"] # 0 \/ "radio" \in Todo',
                        NEW q \in Parts \ (Todo' \cup Awaited)
                 PROVE  cache'[q] \in {onewifi[q], Overridden}
      BY <1>1, <2>5, <2>6 DEF CopiedInv
    <3>1. CASE q = p
      BY <2>8, <2>9, <3>1
    <3>2. CASE q # p
      <4>1. "radio" \in Parts
        BY DEF Parts
      <4>2. cache["radio"] # 0 \/ "radio" \in Todo
        BY <2>4, <2>7, <2>8, <4>1
      <4>3. q \in Parts \ (Todo \cup Awaited)
        BY <2>4, <3>2
      <4> QED BY <2>8, <3>2, <4>2, <4>3 DEF CurrentInv, CopiedInv
    <3> QED BY <3>1, <3>2
  <2> QED BY <1>4, <2>10, <2>11, <2>12 DEF CurrentInv
<1>8. CASE send_webconfig_ctrl_msg
  <2>1. thread' = Idle /\ thread.todo = {} /\ UNCHANGED <<north, cache, missed>>
    BY <1>8 DEF send_webconfig_ctrl_msg
  <2>2. Todo' = Todo
    BY <2>1 DEF Todo
  <2> QED
    BY <1>1, <1>4, <2>1, <2>2
    DEF CurrentInv, HeardInv, NorthInv, TodoInv, CopiedInv, Awaited, Todo
<1> QED BY <1>5, <1>6, <1>7, <1>8 DEF BusThread

LEMMA CurrentTest ==
  ASSUME WebTypes, CurrentInv, TestThread
  PROVE  CurrentInv'
<1>1. UNCHANGED listening
  BY DEF TestThread, treeVars
<1>2. ASSUME ~Booting, ~Booting', UNCHANGED CurrentVars PROVE CurrentInv'
  BY <1>1, <1>2, CurrentUnchanged, BootUnchanged DEF CurrentInv
<1>3. CASE StartTest \/ ExecuteFails \/ step_timeout \/ NextStep
  <2>1. ~Booting /\ ~Booting'
    BY <1>3
    DEF StartTest, ExecuteFails, step_timeout, NextStep, Requested, Booting
  <2>2. UNCHANGED CurrentVars
    BY <1>3
    DEF StartTest, ExecuteFails, step_timeout, NextStep, gatewayVars, cacheVars,
        CurrentVars
  <2> QED BY <1>2, <2>1, <2>2
<1>4. CASE ExecuteConfig
  BY <1>2, <1>4 DEF ExecuteConfig, Requested, Booting, cacheVars, CurrentVars
<1>5. CASE ExecuteStation
  <2>1. ~Booting /\ ~Booting'
    BY <1>5 DEF ExecuteStation, Requested, Booting
  <2>2. CASE UNCHANGED cache
    BY <1>2, <1>5, <2>1, <2>2 DEF ExecuteStation, gatewayVars, CurrentVars
  <2>3. CASE \E parts \in decode_user_ap_config :
               cache' = [p \in Parts |->
                           IF p \in parts THEN Overridden ELSE cache[p]]
    <3>1. PICK parts \in decode_user_ap_config :
               cache' = [p \in Parts |->
                           IF p \in parts THEN Overridden ELSE cache[p]]
      BY <2>3
    <3>2. cache'["radio"] = cache["radio"]
      BY <3>1, OverrideParts DEF Parts
    <3>3. UNCHANGED <<onewifi, north, thread, missed>>
      BY <1>5 DEF ExecuteStation, gatewayVars
    <3>4. BootInv'
      BY <2>1, BootUnchanged DEF CurrentInv
    <3>5. Todo' = Todo /\ Awaited' = Awaited
      BY <3>3 DEF Todo, Awaited
    <3>6. HeardInv' /\ NorthInv' /\ TodoInv'
      BY <1>1, <3>2, <3>3, <3>5 DEF CurrentInv, HeardInv, NorthInv, TodoInv
    <3>7. CopiedInv'
      BY <3>1, <3>2, <3>3, <3>5 DEF CurrentInv, CopiedInv
    <3> QED BY <3>4, <3>6, <3>7 DEF CurrentInv
  <2> QED BY <1>5, <2>2, <2>3 DEF ExecuteStation
<1>6. CASE Deliver
  <2>1. UNCHANGED <<pc, tried, south, got>> /\ UNCHANGED CurrentVars
    BY <1>6 DEF Deliver, TestThread, gatewayVars, CurrentVars
  <2>2. BootInv'
    BY <1>1, <2>1 DEF CurrentInv, BootInv, Booting, CurrentVars
  <2> QED BY <1>1, <2>1, <2>2, CurrentUnchanged
<1> QED BY <1>3, <1>4, <1>5, <1>6 DEF TestThread

LEMMA CurrentStep ==
  NothingEarly /\ WebTypes /\ CurrentInv /\ [Next]_vars => CurrentInv'
<1> SUFFICES ASSUME NothingEarly, WebTypes, CurrentInv, [Next]_vars
             PROVE  CurrentInv'
  OBVIOUS
<1>1. CASE BusStart /\ UNCHANGED <<gatewayVars, cacheVars, testVars>>
  BY <1>1, CurrentBusStart
<1>2. CASE Finished \/ UNCHANGED vars
  <2>1. /\ UNCHANGED <<pc, tried, listening, south, got>>
        /\ UNCHANGED CurrentVars
    BY <1>2 DEF Finished, vars, treeVars, gatewayVars, cacheVars, CurrentVars
  <2>2. BootInv'
    BY <2>1 DEF CurrentInv, BootInv, Booting, CurrentVars
  <2> QED BY <2>1, <2>2, CurrentUnchanged
<1> QED
  BY <1>1, <1>2, CurrentBusInit, CurrentOneWifi, CurrentThread, CurrentTest DEF Next

(* set_webconfig_cci_data(): once the documents on their way are copied,    *)
(* the cache holds the configuration of the gateway, whatever OneWifi has   *)
(* changed on its own and in whatever order the fields were written, as     *)
(* long as no document comes before the cache was filled.                   *)
THEOREM CacheFollows ==
  ASSUME NothingEarly
  PROVE  Spec => []CacheIsCurrent
<1>1. WebTypes /\ CurrentInv => CacheIsCurrent
  BY DEF CurrentInv, CopiedInv, CacheIsCurrent, Todo, Awaited
<1>2. NothingEarly /\ WebTypes /\ CurrentInv /\ [Next]_vars => (WebTypes /\ CurrentInv)'
  BY WebTypesStep, CurrentStep
<1>3. NothingEarly
  OBVIOUS
<1> QED BY <1>1, <1>2, <1>3, WebTypesInit, CurrentInit, PTL DEF Spec

------------------------------------------------------------------------------
(* A set of numbers has a least one, because the intervals below them are   *)
(* finite sets, and with a bound a greatest one.                            *)
LEMMA LeastNumber ==
  ASSUME NEW T \in SUBSET Nat, T # {}
  PROVE  \E x \in T : \A y \in T : x <= y
<1> DEFINE I == {0 .. x : x \in T}
<1>1. I \subseteq FiniteSubsetsOf(Nat) /\ I # {}
  <2>1. \A x \in T : IsFiniteSet(0 .. x)
    BY FS_Interval
  <2>2. \A x \in T : 0 .. x \in SUBSET Nat
    OBVIOUS
  <2> QED BY <2>1, <2>2 DEF FiniteSubsetsOf
<1>2. PICK i \in I : \A j \in I : <<j, i>> \notin StrictSubsetOrdering(Nat)
  <2> HIDE DEF I
  <2> QED BY <1>1, FS_StrictSubsetOrderingWellFounded, WFMin
<1>3. PICK x \in T : i = 0 .. x
  OBVIOUS
<1>4. ASSUME NEW y \in T PROVE x <= y
  <2>1. <<0 .. y, 0 .. x>> \notin StrictSubsetOrdering(Nat)
    BY <1>2, <1>3
  <2>2. x \in Nat /\ y \in Nat /\ 0 .. x \in SUBSET Nat /\ 0 .. y \in SUBSET Nat
    OBVIOUS
  <2>3. ~(0 .. y \subseteq 0 .. x /\ 0 .. y # 0 .. x)
    BY <2>1, <2>2 DEF StrictSubsetOrdering
  <2>4. y < x => 0 .. y \subseteq 0 .. x /\ x \in 0 .. x /\ x \notin 0 .. y
    BY <2>2
  <2> QED BY <2>2, <2>3, <2>4
<1> QED BY <1>4

LEMMA MaxOf ==
  ASSUME NEW n \in Nat, NEW S \in SUBSET (0 .. n), S # {}
  PROVE  Max(S) \in S /\ \A x \in S : x <= Max(S)
<1> DEFINE T == {n - x : x \in S}
<1>1. T \in SUBSET Nat /\ T # {}
  OBVIOUS
<1>2. PICK t \in T : \A u \in T : t <= u
  <2> HIDE DEF T
  <2> QED BY <1>1, LeastNumber
<1>3. PICK x \in S : t = n - x
  OBVIOUS
<1>4. \A y \in S : x >= y
  BY <1>2, <1>3
<1>5. Max(S) = CHOOSE z \in S : \A y \in S : z >= y
  BY DEF Max
<1>6. Max(S) \in S /\ \A y \in S : Max(S) >= y
  BY <1>4, <1>5
<1> QED BY <1>6

------------------------------------------------------------------------------
(* A station connects with what was sent.  step_frame_filter() compares the *)
(* kind of a document only, so that the steps must not configure what       *)
(* OneWifi changes on its own, and a step must not give up while its        *)
(* document is still on its way.                                            *)
OwnKinds == \A p \in Plans : \A k \in DOMAIN p : p[k] \notin OwnChanges
NothingLate == "late" \notin Faults

Tracked == {"radio", "private", "private_security"}

TestTypes ==
  /\ cases \in Nat
  /\ pc = "test" =>
       /\ plan \in Plans /\ step \in 1 .. Len(plan)
       /\ st \in {"request", "continue", "results", "abort"}
       /\ sent \in [1 .. Len(plan) -> Nat]
       /\ used \in [1 .. Len(plan) -> [Tracked -> Nat]]

LEMMA PlanType ==
  ASSUME NEW p \in Plans
  PROVE  /\ Len(p) \in Nat \ {0} /\ Len(p) <= Longest
         /\ DOMAIN p = 1 .. Len(p)
         /\ \A k \in 1 .. Len(p) : p[k] \in Configs \cup Stations
BY WebconfigAssumption, LongestType

LEMMA TestTypesInit == Init => TestTypes
BY DEF Init, BusInit, TestTypes

LEMMA TestTypesUnchanged ==
  ASSUME TestTypes, UNCHANGED testVars, pc' # "test" \/ pc' = pc
  PROVE  TestTypes'
BY DEF TestTypes, testVars

LEMMA UnusedType == Unused \in [Tracked -> Nat] /\ DOMAIN Unused = Tracked
                    /\ \A p \in Tracked : Unused[p] = 0
BY DEF Unused, Tracked

LEMMA TestTypesTest ==
  ASSUME WebTypes, TestTypes, TestThread
  PROVE  TestTypes'
<1>1. CASE StartTest
  <2>1. /\ pc' = "test" /\ cases' = cases + 1 /\ plan' \in Plans
        /\ step' = 1 /\ st' = "request"
        /\ sent' = [k \in DOMAIN plan' |-> 0]
        /\ used' = [k \in DOMAIN plan' |-> Unused]
    BY <1>1 DEF StartTest
  <2>2. DOMAIN plan' = 1 .. Len(plan') /\ 1 \in 1 .. Len(plan')
    BY <2>1, PlanType
  <2> QED BY <2>1, <2>2, UnusedType DEF TestTypes
<1>2. CASE ExecuteFails \/ step_timeout \/ Deliver
  BY <1>2 DEF ExecuteFails, step_timeout, Deliver, TestTypes, testVars
<1>3. CASE ExecuteConfig
  BY <1>3 DEF ExecuteConfig, Requested, TestTypes, WebTypes, Versions
<1>4. CASE ExecuteStation
  <2>1. cache' \in [Parts -> Nat]
    BY <1>4, TypesTest DEF WebTypes
  <2>2. update_sta_config(cache') \in [Tracked -> Nat]
    BY <2>1, UnusedType DEF update_sta_config, Tracked, Parts, Vaps
  <2>3. /\ pc = "test" /\ UNCHANGED <<plan, step, sent, cases>>
        /\ \/ used' = [used EXCEPT ![step] = update_sta_config(cache')]
              /\ st' = "results"
           \/ used' = used /\ pc' = "crashed"
    BY <1>4 DEF ExecuteStation, Requested
  <2> QED BY <2>2, <2>3 DEF TestTypes
<1>5. CASE NextStep
  <2>1. CASE st = "results" /\ step < Len(plan)
    <3>1. /\ pc = "test" /\ pc' = pc /\ step' = step + 1 /\ st' = "request"
          /\ UNCHANGED <<plan, sent, used, cases>>
      BY <1>5, <2>1 DEF NextStep
    <3> QED BY <2>1, <3>1, PlanType DEF TestTypes
  <2>2. CASE ~(st = "results" /\ step < Len(plan))
    BY <1>5, <2>2 DEF NextStep, TestTypes
  <2> QED BY <2>1, <2>2
<1> QED BY <1>1, <1>2, <1>3, <1>4, <1>5 DEF TestThread

LEMMA TestTypesStep == WebTypes /\ TestTypes /\ [Next]_vars => TestTypes'
<1> SUFFICES ASSUME WebTypes, TestTypes, [Next]_vars PROVE TestTypes'
  OBVIOUS
<1>1. CASE BusStart /\ UNCHANGED <<gatewayVars, cacheVars, testVars>>
  BY <1>1, BusStartMoves, TestTypesUnchanged
<1>2. CASE bus_init
  <2>1. UNCHANGED testVars /\ pc' # "test"
    BY <1>2 DEF bus_init, GetInit, webconfig_init, Store, GivesUp
  <2> QED BY <2>1, TestTypesUnchanged
<1>3. CASE OneWifi \/ BusThread
  BY <1>3, TestTypesUnchanged DEF OneWifi, BusThread
<1>4. CASE Finished \/ UNCHANGED vars
  BY <1>4, TestTypesUnchanged DEF Finished, vars
<1> QED BY <1>1, <1>2, <1>3, <1>4, TestTypesTest DEF Next

(* No configuration reaches the mark of the station steps: the changes of   *)
(* OneWifi and the steps of the tests are fewer.                            *)
CountInv ==
  /\ cases <= MaxCases
  /\ pc # "test" => newest <= MaxChanges + cases * Longest
  /\ pc = "test" =>
       /\ cases > 0
       /\ newest + Longest <= MaxChanges + cases * Longest
                              + (IF st = "request" THEN step - 1 ELSE step)

LEMMA CountBounds ==
  ASSUME TestTypes, WebTypes, CountInv
  PROVE  newest < Overridden
<1>1. cases \in Nat /\ cases <= MaxCases /\ MaxCases \in Nat /\ Longest \in Nat
  BY WebconfigAssumption, LongestType DEF TestTypes, CountInv
<1>2. cases * Longest <= MaxCases * Longest
  BY <1>1
<1>3. cases * Longest \in Nat /\ MaxCases * Longest \in Nat /\ newest \in Nat
      /\ MaxChanges \in Nat
  BY <1>1, WebconfigAssumption DEF WebTypes, Versions
<1>4. newest <= MaxChanges + cases * Longest
  <2>1. CASE pc = "test"
    <3>1. step \in 1 .. Len(plan) /\ Len(plan) \in Nat /\ Len(plan) <= Longest
      BY <2>1, PlanType DEF TestTypes
    <3> QED BY <1>1, <1>3, <2>1, <3>1 DEF CountInv
  <2>2. CASE pc # "test"
    BY <2>2 DEF CountInv
  <2> QED BY <2>1, <2>2
<1> QED BY <1>2, <1>3, <1>4, OverriddenType

LEMMA CountInit == Init => CountInv
<1> SUFFICES ASSUME Init PROVE CountInv
  OBVIOUS
<1>1. cases = 0 /\ newest = 1 /\ pc = "register"
  BY DEF Init, BusInit
<1> QED BY <1>1, WebconfigAssumption, LongestType DEF CountInv

LEMMA CountStep ==
  WebTypes /\ TestTypes /\ CountInv /\ [Next]_vars => CountInv'
<1> SUFFICES ASSUME WebTypes, TestTypes, CountInv, [Next]_vars
             PROVE  CountInv'
  OBVIOUS
<1> DEFINE L == Longest
<1>t. /\ L \in Nat /\ MaxCases \in Nat /\ MaxChanges \in Nat \ {0}
      /\ newest \in Nat \ {0} /\ cases \in Nat /\ cases * L \in Nat
  BY LongestType, WebconfigAssumption DEF WebTypes, TestTypes, Versions
<1>p. pc = "test" => step \in 1 .. Len(plan) /\ Len(plan) \in Nat /\ Len(plan) <= L
  BY PlanType DEF TestTypes
<1>a. newest <= MaxChanges + cases * L
  BY <1>t, <1>p DEF CountInv
<1> HIDE DEF L
<1>u. ASSUME UNCHANGED <<newest, cases, step, st>>, pc' = pc \/ pc' # "test"
      PROVE  CountInv'
  BY <1>a, <1>u DEF CountInv, L
<1>1. CASE BusStart /\ UNCHANGED <<gatewayVars, cacheVars, testVars>>
  BY <1>1, <1>u, BusStartMoves DEF gatewayVars, testVars
<1>2. CASE bus_init
  <2>1. pc' # "test" /\ UNCHANGED <<newest, cases, step, st>>
    BY <1>2 DEF bus_init, GetInit, webconfig_init, Store, GivesUp, gatewayVars, testVars
  <2> QED BY <1>u, <2>1
<1>3. CASE OneWifi
  <2>1. UNCHANGED <<pc, cases, step, st>>
    BY <1>3 DEF OneWifi, testVars
  <2>2. CASE UNCHANGED newest
    BY <1>u, <2>1, <2>2
  <2>3. CASE newest < MaxChanges /\ newest' = newest + 1
    <3>1. newest' <= MaxChanges
      BY <1>t, <2>3
    <3>2. cases > 0 => L <= cases * L
      BY <1>t
    <3>3. newest' \in Nat
      BY <1>t, <2>3
    <3> QED BY <1>t, <1>p, <2>1, <3>1, <3>2, <3>3 DEF CountInv, L
  <2> QED BY <1>3, <2>2, <2>3 DEF OneWifi, Applies, Rejects, Changes
<1>4. CASE BusThread
  BY <1>4, <1>u DEF BusThread, testVars
<1>5. CASE TestThread
  <2>1. CASE StartTest
    <3>1. /\ pc' = "test" /\ cases' = cases + 1 /\ cases < MaxCases /\ step' = 1
          /\ st' = "request" /\ newest' = newest
      BY <2>1 DEF StartTest, gatewayVars
    <3>2. (cases + 1) * L = cases * L + L
      BY <1>t
    <3> QED BY <1>t, <1>a, <3>1, <3>2 DEF CountInv, L
  <2>2. CASE ExecuteFails \/ step_timeout \/ ExecuteStation
    <3>1. /\ UNCHANGED <<newest, cases, step>> /\ pc = "test"
          /\ pc' \in {pc, "crashed"}
          /\ pc' = "test" => st' # "request"
      BY <2>2
      DEF ExecuteFails, step_timeout, ExecuteStation, Requested, gatewayVars
    <3> QED BY <1>t, <1>p, <1>a, <3>1 DEF CountInv, L
  <2>3. CASE ExecuteConfig
    <3>1. /\ UNCHANGED <<pc, cases, step>> /\ pc = "test" /\ st = "request"
          /\ st' = "continue" /\ newest' = newest + 1
      BY <2>3 DEF ExecuteConfig, Requested
    <3> QED BY <1>t, <1>p, <3>1 DEF CountInv, L
  <2>4. CASE Deliver
    <3>1. /\ UNCHANGED <<pc, newest, cases, step>>
          /\ st' = st \/ (st = "continue" /\ st' = "results")
      BY <2>4 DEF Deliver, gatewayVars
    <3> QED BY <1>t, <1>p, <3>1 DEF CountInv, L
  <2>5. CASE NextStep
    <3>1. UNCHANGED <<newest, cases>> /\ pc = "test" /\ st \in {"results", "abort"}
      BY <2>5 DEF NextStep, gatewayVars
    <3>2. CASE pc' = "idle"
      BY <1>a, <3>1, <3>2 DEF CountInv, L
    <3>3. CASE pc' = pc /\ step' = step + 1 /\ st' = "request"
      BY <1>t, <1>p, <3>1, <3>3 DEF CountInv, L
    <3> QED BY <2>5, <3>2, <3>3 DEF NextStep
  <2> QED BY <1>5, <2>1, <2>2, <2>3, <2>4, <2>5 DEF TestThread
<1>6. CASE Finished \/ UNCHANGED vars
  BY <1>6, <1>u DEF Finished, vars, gatewayVars, testVars
<1> QED BY <1>1, <1>2, <1>3, <1>4, <1>5, <1>6 DEF Next

(* Nothing is newer than the newest configuration.                          *)
Older(o, q, t, p, n) ==
  /\ o[p] <= n
  /\ \A i \in 1 .. Len(q) : q[i].config[p] <= n
  /\ t # Idle => t.config[p] <= n

BoundsInv ==
  /\ \A p \in Parts : /\ Older(onewifi, north, thread, p, newest)
                      /\ got[p] <= newest
                      /\ cache[p] <= newest \/ cache[p] = Overridden
  /\ \A i \in 1 .. Len(south) : south[i].config <= newest
  /\ pc = "test" => \A k \in 1 .. Len(plan) : sent[k] <= newest

(* A cache without radios has no networks either, and gets none.            *)
EmptyInv ==
  cache["radio"] = 0 /\ "radio" \notin Todo =>
    \A p \in Tracked : cache[p] = 0 /\ p \notin Todo

LEMMA BoundsInit == Init => BoundsInv /\ EmptyInv
<1> SUFFICES ASSUME Init PROVE BoundsInv /\ EmptyInv
  OBVIOUS
<1>1. /\ pc = "register" /\ north = <<>> /\ south = <<>> /\ thread = Idle
      /\ cache = Nothing /\ got = Nothing /\ newest = 1
      /\ onewifi = [p \in Parts |-> 1]
  BY DEF Init, BusInit
<1>2. \A p \in Parts : Nothing[p] = 0
  BY DEF Nothing
<1>3. Tracked \subseteq Parts
  BY DEF Tracked, Parts, Vaps
<1>4. \A p \in Parts : Older(onewifi, north, thread, p, newest)
  BY <1>1 DEF Older
<1> QED BY <1>1, <1>2, <1>3, <1>4 DEF BoundsInv, EmptyInv, Todo

(* What a document in the queue becomes.                                    *)
LEMMA PublishesQueue ==
  ASSUME WebTypes, NEW kind \in Documents, NEW n \in Versions,
         Publishes(kind, With(kind, n))
  PROVE  /\ \A p \in Parts : onewifi'[p] = IF p \in Covers(kind) THEN n ELSE onewifi[p]
         /\ \/ north' = north
            \/ /\ Len(north) \in Nat /\ Len(north') = Len(north) + 1
               /\ \A i \in 1 .. Len(north) : north'[i] = north[i]
               /\ north'[Len(north) + 1] = [kind |-> kind, config |-> onewifi']
<1>1. onewifi' = With(kind, n)
  BY DEF Publishes
<1>2. \A p \in Parts : onewifi'[p] = IF p \in Covers(kind) THEN n ELSE onewifi[p]
  BY <1>1, WithType
<1> DEFINE d == [kind |-> kind, config |-> onewifi']
<1>3. d \in Published
  BY <1>1, WithType DEF Published
<1>4. north' = north \/ north' = Append(north, d)
  BY <1>1 DEF Publishes
<1>5. north \in Seq(Published)
  BY DEF WebTypes
<1> HIDE DEF d
<1>6. Len(north) \in Nat
  BY <1>5
<1>7. CASE north' = Append(north, d)
  BY <1>2, <1>3, <1>5, <1>6, <1>7, AppendType DEF d
<1> QED BY <1>2, <1>4, <1>7

LEMMA DecodesQueue ==
  ASSUME WebTypes, Decodes
  PROVE  /\ thread = Idle /\ north # <<>> /\ UNCHANGED <<cache, dev>>
         /\ Len(north) \in Nat \ {0} /\ Len(north') = Len(north) - 1
         /\ \A i \in 1 .. Len(north') : north'[i] = north[i + 1]
         /\ north[1].kind \in Documents /\ north[1].config \in Configuration
         /\ \/ thread' = Idle
            \/ /\ thread' # Idle /\ Todo' = Copied(north[1].kind)
               /\ thread'.kind = north[1].kind /\ thread'.config = north[1].config
<1>1. thread = Idle /\ north # <<>> /\ north' = Tail(north) /\ UNCHANGED <<cache, dev>>
  BY DEF Decodes
<1>2. /\ Len(north) \in Nat \ {0} /\ Len(north') = Len(north) - 1
      /\ \A i \in 1 .. Len(north') : north'[i] = north[i + 1]
      /\ Head(north) = north[1]
  BY <1>1, TailType DEF WebTypes
<1>3. north[1].kind \in Documents /\ north[1].config \in Configuration
  BY <1>1, <1>2, NorthHead
<1>4. thread' = Idle \/ thread' = Taken
  BY <1>1 DEF Decodes, Taken
<1>5. Taken # Idle /\ Taken.kind = north[1].kind /\ Taken.config = north[1].config
      /\ Taken.todo = Copied(north[1].kind)
  BY <1>1, <1>2, TakenType, NotIdle DEF Taken
<1> QED BY <1>1, <1>2, <1>3, <1>4, <1>5 DEF Todo

LEMMA FreesKeeps ==
  ASSUME WebTypes, Frees
  PROVE  /\ thread # Idle /\ thread' # Idle
         /\ thread'.kind = thread.kind /\ thread'.config = thread.config
         /\ Todo' = Todo /\ UNCHANGED <<north, cache, dev>>
<1>1. thread # Idle
  BY NotIdle DEF Frees
<1>2. thread' = [phase |-> "copy", kind |-> thread.kind,
                 config |-> thread.config, todo |-> thread.todo]
  BY <1>1, WorkType DEF Frees
<1>3. thread' # Idle
  BY <1>2, NotIdle
<1> QED BY <1>1, <1>2, <1>3 DEF Todo, Frees

LEMMA CopiesOne ==
  ASSUME WebTypes, cci_cache_update
  PROVE  /\ thread # Idle /\ thread' # Idle
         /\ thread'.kind = thread.kind /\ thread'.config = thread.config
         /\ UNCHANGED <<north, dev>>
         /\ \E q \in Todo \cap Parts :
              /\ Todo' = Todo \ {q}
              /\ \A p \in Parts :
                   cache'[p] = IF p = q THEN thread.config[q] ELSE cache[p]
<1>1. thread # Idle
  BY NotIdle DEF cci_cache_update
<1>2. PICK q \in thread.todo :
        /\ cache' = [cache EXCEPT ![q] = thread.config[q]]
        /\ thread' = [thread EXCEPT !.todo = @ \ {q}]
  BY DEF cci_cache_update
<1>3. thread' = [phase |-> thread.phase, kind |-> thread.kind,
                 config |-> thread.config, todo |-> thread.todo \ {q}]
  BY <1>1, <1>2, WorkType
<1>4. thread' # Idle
  BY <1>1, <1>3, WorkType, NotIdle
<1>5. q \in Todo \cap Parts /\ Todo' = Todo \ {q}
  BY <1>1, <1>2, <1>3, <1>4, WorkType DEF Todo
<1>6. \A p \in Parts : cache'[p] = IF p = q THEN thread.config[q] ELSE cache[p]
  BY <1>2 DEF WebTypes
<1> QED BY <1>1, <1>3, <1>4, <1>5, <1>6 DEF cci_cache_update

LEMMA Notifies ==
  ASSUME WebTypes, send_webconfig_ctrl_msg
  PROVE  /\ thread # Idle /\ thread' = Idle /\ Todo = {} /\ Todo' = {}
         /\ UNCHANGED <<north, cache>>
         /\ Len(dev) \in Nat
         /\ \/ dev' = dev
            \/ /\ Len(dev') = Len(dev) + 1
               /\ \A i \in 1 .. Len(dev) : dev'[i] = dev[i]
               /\ dev'[Len(dev) + 1] = thread.kind
<1>1. thread # Idle /\ thread' = Idle /\ thread.todo = {} /\ UNCHANGED <<north, cache>>
  BY NotIdle DEF send_webconfig_ctrl_msg
<1>2. thread.kind \in Documents /\ dev \in Seq(Documents) /\ Len(dev) \in Nat
  BY <1>1, WorkType DEF WebTypes
<1>3. dev' = dev \/ dev' = Append(dev, thread.kind)
  BY DEF send_webconfig_ctrl_msg
<1>4. CASE dev' = Append(dev, thread.kind)
  BY <1>1, <1>2, <1>4, AppendType DEF Todo
<1> QED BY <1>1, <1>2, <1>3, <1>4 DEF Todo

LEMMA TrackedParts == Tracked \subseteq Parts /\ "radio" \in Tracked
BY DEF Tracked, Parts, Vaps

LEMMA Numbers ==
  ASSUME WebTypes, NEW p \in Parts
  PROVE  /\ onewifi[p] \in Nat /\ newest \in Nat /\ got[p] \in Nat /\ cache[p] \in Nat
         /\ \A i \in 1 .. Len(north) : north[i].config[p] \in Versions
         /\ thread # Idle => thread.config[p] \in Versions
<1>1. onewifi[p] \in Nat /\ newest \in Nat /\ got[p] \in Nat /\ cache[p] \in Nat
  BY DEF WebTypes, Configuration, Versions
<1>2. ASSUME NEW i \in 1 .. Len(north) PROVE north[i].config[p] \in Versions
  <2>1. north[i] \in Published
    BY DEF WebTypes
  <2> QED BY <2>1 DEF Published, Configuration
<1>3. thread # Idle => thread.config[p] \in Versions
  BY WorkType DEF Configuration
<1> QED BY <1>1, <1>2, <1>3

LEMMA SouthNumbers ==
  ASSUME WebTypes, NEW i \in 1 .. Len(south)
  PROVE  south[i].config \in Nat
<1>1. south[i] \in Sent
  BY DEF WebTypes
<1> QED BY <1>1 DEF Sent, Versions

LEMMA BoundsUnchanged ==
  ASSUME BoundsInv, UNCHANGED <<gatewayVars, thread, got, cache>>,
         pc' # "test" \/ UNCHANGED <<pc, plan, sent>>
  PROVE  BoundsInv'
<1>1. UNCHANGED <<onewifi, newest, south, north, thread, got, cache>>
  BY DEF gatewayVars
<1> QED BY <1>1 DEF BoundsInv, Older

LEMMA BoundsBusInit ==
  ASSUME WebTypes, BoundsInv, bus_init
  PROVE  BoundsInv'
<1>1. UNCHANGED <<onewifi, newest, south, north>> /\ pc' # "test"
  BY DEF bus_init, GetInit, webconfig_init, Store, GivesUp, gatewayVars
<1>2. thread' = thread
  BY DEF bus_init, GetInit, webconfig_init, Store, GivesUp, cacheVars
<1>3. \A p \in Parts :
        /\ got'[p] = got[p] \/ got'[p] = onewifi[p] \/ got'[p] = 0
        /\ cache'[p] = cache[p] \/ cache'[p] = got[p]
  BY DEF bus_init, GetInit, webconfig_init, Store, GivesUp, cacheVars, Nothing
<1>4. \A p \in Parts : got'[p] <= newest /\ (cache'[p] <= newest \/ cache'[p] = Overridden)
  BY <1>3, Numbers DEF BoundsInv, Older
<1> QED BY <1>1, <1>2, <1>4 DEF BoundsInv, Older

LEMMA BoundsOneWifi ==
  ASSUME WebTypes, TestTypes, BoundsInv, OneWifi
  PROVE  BoundsInv'
<1>1. UNCHANGED <<pc, thread, got, cache, plan, sent>>
  BY DEF OneWifi, cacheVars, testVars
<1>2. \A k \in 1 .. Len(plan) : pc = "test" => sent[k] \in Nat
  BY DEF TestTypes
<1>3. ASSUME NEW kind \in Documents, NEW n \in Versions, n <= newest',
             newest' \in Nat, newest <= newest', Publishes(kind, With(kind, n)),
             \A i \in 1 .. Len(south') : south'[i].config <= newest'
      PROVE  BoundsInv'
  <2>1. ASSUME NEW p \in Parts
        PROVE  /\ Older(onewifi', north', thread', p, newest')
               /\ got'[p] <= newest'
               /\ cache'[p] <= newest' \/ cache'[p] = Overridden
    <3>1. onewifi'[p] <= newest' /\ onewifi'[p] \in Nat
      <4>1. onewifi'[p] = n \/ onewifi'[p] = onewifi[p]
        BY <1>3, PublishesQueue
      <4>2. n \in Nat /\ onewifi[p] \in Nat /\ newest \in Nat /\ onewifi[p] <= newest
        BY Numbers DEF BoundsInv, Older, Versions
      <4> QED BY <1>3, <4>1, <4>2
    <3>2. ASSUME NEW i \in 1 .. Len(north') PROVE north'[i].config[p] <= newest'
      <4>1. CASE north' = north
        BY <1>3, <4>1, Numbers DEF BoundsInv, Older, Versions
      <4>2. CASE north' # north
        <5>1. /\ Len(north) \in Nat /\ Len(north') = Len(north) + 1
              /\ \A j \in 1 .. Len(north) : north'[j] = north[j]
              /\ north'[Len(north) + 1] = [kind |-> kind, config |-> onewifi']
          BY <1>3, <4>2, PublishesQueue
        <5>2. CASE i = Len(north) + 1
          BY <3>1, <5>1, <5>2
        <5>3. CASE i \in 1 .. Len(north)
          <6>1. north'[i].config[p] = north[i].config[p] /\ north[i].config[p] <= newest
                /\ north[i].config[p] \in Nat
            BY <5>1, <5>3, Numbers DEF BoundsInv, Older, Versions
          <6> QED BY <1>3, <6>1, Numbers
        <5> QED BY <5>1, <5>2, <5>3
      <4> QED BY <4>1, <4>2
    <3>3. thread' # Idle => thread'.config[p] <= newest'
      BY <1>1, <1>3, Numbers DEF BoundsInv, Older, Versions
    <3>4. got'[p] <= newest' /\ (cache'[p] <= newest' \/ cache'[p] = Overridden)
      BY <1>1, <1>3, Numbers DEF BoundsInv
    <3> QED BY <3>1, <3>2, <3>3, <3>4 DEF Older
  <2>2. pc' = "test" => \A k \in 1 .. Len(plan') : sent'[k] <= newest'
    BY <1>1, <1>2, <1>3 DEF BoundsInv, WebTypes, Versions
  <2> QED BY <1>3, <2>1, <2>2 DEF BoundsInv
<1>4. CASE Applies
  <2>1. /\ newest' = newest /\ newest \in Nat /\ south # <<>> /\ south' = Tail(south)
        /\ Publishes(Head(south).kind, With(Head(south).kind, Head(south).config))
    BY <1>4 DEF Applies, WebTypes, Versions
  <2>2. /\ Len(south) \in Nat \ {0} /\ Len(south') = Len(south) - 1
        /\ \A i \in 1 .. Len(south') : south'[i] = south[i + 1]
    BY <2>1, TailType DEF WebTypes
  <2>3. Head(south).config <= newest /\ \A i \in 1 .. Len(south') : south'[i].config <= newest'
    BY <2>1, <2>2, SouthHead DEF BoundsInv
  <2>4. Head(south).kind \in Documents /\ Head(south).config \in Versions
    BY <2>1, SouthHead
  <2>5. newest' \in Nat /\ newest <= newest' /\ Head(south).config <= newest'
    BY <2>1, <2>3
  <2> QED BY <1>3, <2>1, <2>3, <2>4, <2>5
<1>5. CASE Rejects
  <2>1. /\ UNCHANGED <<onewifi, newest, north>> /\ south # <<>> /\ south' = Tail(south)
    BY <1>5 DEF Rejects
  <2>2. /\ Len(south) \in Nat \ {0} /\ Len(south') = Len(south) - 1
        /\ \A i \in 1 .. Len(south') : south'[i] = south[i + 1]
    BY <2>1, TailType DEF WebTypes
  <2>3. \A i \in 1 .. Len(south') : south'[i].config <= newest'
    BY <2>1, <2>2 DEF BoundsInv
  <2> QED BY <1>1, <2>1, <2>3 DEF BoundsInv, Older
<1>6. ASSUME NEW kind \in OwnChanges, Changes(kind) PROVE BoundsInv'
  <2>1. kind \in Documents
    BY WebconfigAssumption DEF Documents
  <2>2. newest' = newest + 1 /\ newest' \in Versions /\ newest' \in Nat /\ newest <= newest'
    BY <1>6 DEF Changes, WebTypes, Versions
  <2>3. \A i \in 1 .. Len(south) : south[i].config \in Nat
    BY SouthNumbers
  <2>4. \A i \in 1 .. Len(south') : south'[i].config <= newest'
    BY <1>6, <2>2, <2>3 DEF Changes, BoundsInv, WebTypes, Versions
  <2> QED BY <1>3, <1>6, <2>1, <2>2, <2>4 DEF Changes
<1> QED BY <1>4, <1>5, <1>6 DEF OneWifi

LEMMA BoundsThread ==
  ASSUME WebTypes, BoundsInv, BusThread
  PROVE  BoundsInv'
<1>1. UNCHANGED <<pc, onewifi, newest, south, got, plan, sent>>
  BY DEF BusThread, testVars
<1>2. CASE Decodes
  <2>1. ASSUME NEW p \in Parts PROVE Older(onewifi', north', thread', p, newest')
    <3>1. \A i \in 1 .. Len(north') : north'[i].config[p] <= newest
      BY <1>2, DecodesQueue DEF BoundsInv, Older
    <3>2. 1 \in 1 .. Len(north)
      BY <1>2, DecodesQueue
    <3>3. thread' # Idle => thread'.config[p] <= newest
      BY <1>2, <3>2, DecodesQueue DEF BoundsInv, Older
    <3> QED BY <1>1, <3>1, <3>3 DEF BoundsInv, Older
  <2>2. cache' = cache
    BY <1>2, DecodesQueue
  <2> QED BY <1>1, <2>1, <2>2 DEF BoundsInv
<1>3. CASE Frees
  BY <1>1, <1>3, FreesKeeps DEF BoundsInv, Older
<1>4. CASE cci_cache_update
  BY <1>1, <1>4, CopiesOne DEF BoundsInv, Older
<1>5. CASE send_webconfig_ctrl_msg
  BY <1>1, <1>5, Notifies DEF BoundsInv, Older
<1> QED BY <1>2, <1>3, <1>4, <1>5 DEF BusThread

LEMMA BoundsTest ==
  ASSUME WebTypes, TestTypes, BoundsInv, TestThread
  PROVE  BoundsInv'
<1>1. CASE StartTest
  <2>1. UNCHANGED <<onewifi, newest, south, north, thread, got, cache>>
    BY <1>1 DEF StartTest, gatewayVars, cacheVars
  <2>2. \A k \in 1 .. Len(plan') : sent'[k] <= newest'
    BY <1>1, <2>1, PlanType DEF StartTest, WebTypes, Versions
  <2> QED BY <2>1, <2>2 DEF BoundsInv, Older
<1>2. CASE ExecuteFails \/ step_timeout \/ Deliver
  BY <1>2, BoundsUnchanged DEF ExecuteFails, step_timeout, Deliver, cacheVars
<1>3. CASE NextStep
  BY <1>3, BoundsUnchanged DEF NextStep, cacheVars
<1>4. CASE ExecuteConfig
  <2>1. /\ UNCHANGED <<pc, onewifi, north, thread, got, cache, plan>> /\ pc = "test"
        /\ newest' = newest + 1 /\ newest \in Nat
        /\ sent' = [sent EXCEPT ![step] = newest']
        /\ south' = Append(south, [kind |-> plan[step], config |-> newest'])
    BY <1>4 DEF ExecuteConfig, Requested, cacheVars, WebTypes, Versions
  <2>2. [kind |-> plan[step], config |-> newest'] \in Sent
    BY <1>4, <2>1 DEF ExecuteConfig, Sent, Versions
  <2>3. \A i \in 1 .. Len(south) : south[i].config \in Nat
    BY SouthNumbers
  <2>4. \A i \in 1 .. Len(south') : south'[i].config <= newest'
    <3>1. /\ Len(south) \in Nat /\ Len(south') = Len(south) + 1
          /\ \A i \in 1 .. Len(south) : south'[i] = south[i]
          /\ south'[Len(south) + 1] = [kind |-> plan[step], config |-> newest']
      BY <2>1, <2>2, AppendType DEF WebTypes
    <3> QED BY <2>1, <2>3, <3>1 DEF BoundsInv
  <2>5. \A k \in 1 .. Len(plan) : sent'[k] <= newest'
    BY <2>1 DEF BoundsInv, TestTypes
  <2>6. ASSUME NEW p \in Parts
        PROVE  /\ Older(onewifi', north', thread', p, newest')
               /\ got'[p] <= newest'
               /\ cache'[p] <= newest' \/ cache'[p] = Overridden
    BY <2>1, Numbers DEF BoundsInv, Older, Versions
  <2> QED BY <2>1, <2>4, <2>5, <2>6 DEF BoundsInv
<1>5. CASE ExecuteStation
  <2>1. UNCHANGED <<onewifi, newest, south, north, thread, got, plan, sent>>
        /\ pc = "test"
    BY <1>5 DEF ExecuteStation, Requested, gatewayVars
  <2>2. \A p \in Parts : cache'[p] = cache[p] \/ cache'[p] = Overridden
    BY <1>5 DEF ExecuteStation
  <2> QED BY <2>1, <2>2 DEF BoundsInv, Older
<1> QED BY <1>1, <1>2, <1>3, <1>4, <1>5 DEF TestThread

LEMMA BoundsStep ==
  WebTypes /\ TestTypes /\ BoundsInv /\ [Next]_vars => BoundsInv'
<1> SUFFICES ASSUME WebTypes, TestTypes, BoundsInv, [Next]_vars
             PROVE  BoundsInv'
  OBVIOUS
<1>1. CASE BusStart /\ UNCHANGED <<gatewayVars, cacheVars, testVars>>
  BY <1>1, BusStartMoves, BoundsUnchanged DEF cacheVars
<1>2. CASE Finished \/ UNCHANGED vars
  BY <1>2, BoundsUnchanged DEF Finished, vars, cacheVars, testVars
<1> QED
  BY <1>1, <1>2, BoundsBusInit, BoundsOneWifi, BoundsThread, BoundsTest DEF Next

LEMMA EmptyStep == WebTypes /\ EmptyInv /\ [Next]_vars => EmptyInv'
<1> SUFFICES ASSUME WebTypes, EmptyInv, [Next]_vars PROVE EmptyInv'
  OBVIOUS
<1>u. ASSUME UNCHANGED <<thread, cache>> PROVE EmptyInv'
  BY <1>u DEF EmptyInv, Todo
<1>1. CASE BusStart /\ UNCHANGED <<gatewayVars, cacheVars, testVars>>
  BY <1>1, <1>u DEF cacheVars
<1>2. CASE bus_init
  <2>1. CASE UNCHANGED <<thread, cache>>
    BY <1>u, <2>1
  <2>2. CASE pc = "store" /\ cache' = got
    <3>1. cache'["radio"] # 0
      BY <2>2, TrackedParts DEF WebTypes, Configuration, Versions
    <3> QED BY <3>1 DEF EmptyInv
  <2> QED
    BY <1>2, <2>1, <2>2
    DEF bus_init, GetInit, webconfig_init, Store, GivesUp, cacheVars
<1>3. CASE OneWifi
  BY <1>3, <1>u DEF OneWifi, cacheVars
<1>4. CASE BusThread
  <2>1. CASE Decodes
    <3>1. CASE thread' = Idle
      BY <1>u, <2>1, <3>1, DecodesQueue
    <3>2. CASE thread' # Idle
      <4>1. Todo' = Copied(north[1].kind) /\ north[1].kind \in Documents
            /\ cache' = cache /\ Todo = {}
        BY <2>1, <3>2, DecodesQueue DEF Todo
      <4>2. cache["radio"] = 0 /\ "radio" \notin Copied(north[1].kind) =>
              Copied(north[1].kind) \cap Tracked = {}
        BY <4>1 DEF Copied, Documents, Vaps, Tracked, Parts
      <4> QED BY <4>1, <4>2 DEF EmptyInv
    <3> QED BY <3>1, <3>2
  <2>2. CASE Frees
    BY <2>2, FreesKeeps DEF EmptyInv
  <2>3. CASE cci_cache_update
    <3>1. PICK q \in Todo \cap Parts :
            /\ Todo' = Todo \ {q}
            /\ \A p \in Parts :
                 cache'[p] = IF p = q THEN thread.config[q] ELSE cache[p]
      BY <2>3, CopiesOne
    <3>2. CASE q = "radio"
      <4>1. cache'["radio"] # 0
        BY <2>3, <3>1, <3>2, TrackedParts, CopiesOne, Numbers DEF Versions
      <4> QED BY <4>1 DEF EmptyInv
    <3>3. CASE q # "radio"
      BY <3>1, <3>3, TrackedParts DEF EmptyInv
    <3> QED BY <3>2, <3>3
  <2>4. CASE send_webconfig_ctrl_msg
    BY <2>4, Notifies DEF EmptyInv
  <2> QED BY <1>4, <2>1, <2>2, <2>3, <2>4 DEF BusThread
<1>5. CASE TestThread
  <2>1. CASE StartTest \/ ExecuteFails \/ ExecuteConfig \/ step_timeout \/ NextStep
    BY <1>u, <2>1
    DEF StartTest, ExecuteFails, ExecuteConfig, step_timeout, NextStep, cacheVars
  <2>2. CASE Deliver
    BY <1>u, <2>2 DEF Deliver
  <2>3. CASE ExecuteStation
    <3>1. CASE UNCHANGED cache
      BY <1>u, <2>3, <3>1 DEF ExecuteStation
    <3>2. CASE get_cci_vap_info
      <4>1. PICK parts \in decode_user_ap_config :
              cache' = [p \in Parts |->
                          IF p \in parts THEN Overridden ELSE cache[p]]
        BY <2>3, <3>2 DEF ExecuteStation
      <4>2. cache'["radio"] = cache["radio"]
        BY <4>1, OverrideParts, TrackedParts
      <4> QED BY <3>2, <4>2 DEF get_cci_vap_info, EmptyInv
    <3> QED BY <2>3, <3>1, <3>2 DEF ExecuteStation
  <2> QED BY <1>5, <2>1, <2>2, <2>3 DEF TestThread
<1>6. CASE Finished \/ UNCHANGED vars
  BY <1>6, <1>u DEF Finished, vars, cacheVars
<1> QED BY <1>1, <1>2, <1>3, <1>4, <1>5, <1>6 DEF Next

------------------------------------------------------------------------------
(* One document of a step is on its way at a time, and only while the step  *)
(* waits for it.                                                            *)
Waiting == pc = "test" /\ st = "continue"
ForeignNorth == {i \in 1 .. Len(north) : north[i].kind \notin OwnChanges}
ForeignWork == thread # Idle /\ thread.kind \notin OwnChanges
ForeignDev == {i \in 1 .. Len(dev) : dev[i] \notin OwnChanges}

FlightInv ==
  /\ ~Waiting => /\ south = <<>> /\ ForeignNorth = {}
                 /\ ~ForeignWork /\ ForeignDev = {}
  /\ Waiting => plan[step] \in Configs
  /\ south # <<>> =>
       /\ ForeignNorth = {} /\ ~ForeignWork /\ ForeignDev = {}
       /\ Len(south) = 1 /\ south[1].kind = plan[step]
       /\ south[1].config = sent[step]
  /\ ForeignNorth # {} => ~ForeignWork /\ ForeignDev = {}
  /\ ForeignWork => ForeignDev = {} /\ thread.kind = plan[step]
  /\ \A i \in ForeignNorth : north[i].kind = plan[step]
  /\ \A i, j \in ForeignNorth : i = j
  /\ \A i, j \in ForeignDev : i = j

LEMMA FlightInit == Init => FlightInv
<1> SUFFICES ASSUME Init PROVE FlightInv
  OBVIOUS
<1>1. /\ pc = "register" /\ north = <<>> /\ south = <<>> /\ thread = Idle
      /\ dev = <<>>
  BY DEF Init, BusInit
<1> QED
  BY <1>1 DEF FlightInv, Waiting, ForeignNorth, ForeignWork, ForeignDev

LEMMA FlightUnchanged ==
  ASSUME FlightInv, UNCHANGED <<south, north, thread, dev>>,
         UNCHANGED <<pc, st, plan, step, sent>> \/ (~Waiting /\ ~Waiting')
  PROVE  FlightInv'
<1>1. UNCHANGED <<ForeignNorth, ForeignWork, ForeignDev>>
  BY DEF ForeignNorth, ForeignWork, ForeignDev
<1> QED BY <1>1 DEF FlightInv, Waiting

LEMMA FlightOneWifi ==
  ASSUME WebTypes, FlightInv, OneWifi
  PROVE  FlightInv'
<1>1. UNCHANGED <<pc, st, plan, step, sent, thread, dev>>
  BY DEF OneWifi, cacheVars, testVars
<1>2. UNCHANGED <<Waiting, ForeignWork, ForeignDev>>
  BY <1>1 DEF Waiting, ForeignWork, ForeignDev
<1>3. CASE Applies \/ Rejects
  <2>1. south # <<>> /\ south' = Tail(south)
    BY <1>3 DEF Applies, Rejects
  <2>2. Waiting /\ ForeignNorth = {} /\ ~ForeignWork /\ ForeignDev = {}
        /\ Len(south) = 1 /\ south[1].kind = plan[step]
    BY <2>1 DEF FlightInv
  <2>3. south' = <<>>
    BY <2>1, <2>2 DEF WebTypes
  <2>4. CASE north' = north
    BY <1>1, <1>2, <2>2, <2>3, <2>4 DEF FlightInv, ForeignNorth
  <2>5. CASE north' # north
    <3>1. Applies
      BY <1>3, <2>5 DEF Rejects
    <3>2. /\ Len(north) \in Nat /\ Len(north') = Len(north) + 1
          /\ \A i \in 1 .. Len(north) : north'[i] = north[i]
          /\ north'[Len(north) + 1] = [kind |-> plan[step], config |-> onewifi']
      BY <2>1, <2>2, <2>5, <3>1, SouthHead, PublishesQueue DEF Applies
    <3>3. ForeignNorth' \subseteq {Len(north) + 1}
      BY <2>2, <3>2 DEF ForeignNorth
    <3>4. \A i \in ForeignNorth' : north'[i].kind = plan[step]
      BY <3>2, <3>3
    <3> QED BY <1>1, <1>2, <2>2, <2>3, <3>3, <3>4 DEF FlightInv
  <2> QED BY <2>4, <2>5
<1>4. ASSUME NEW kind \in OwnChanges, Changes(kind) PROVE FlightInv'
  <2>1. kind \in Documents /\ newest' \in Versions /\ south' = south
    BY <1>4, WebconfigAssumption DEF Changes, WebTypes, Versions, Documents
  <2>2. \/ north' = north
        \/ /\ Len(north) \in Nat /\ Len(north') = Len(north) + 1
           /\ \A i \in 1 .. Len(north) : north'[i] = north[i]
           /\ north'[Len(north) + 1] = [kind |-> kind, config |-> onewifi']
    BY <1>4, <2>1, PublishesQueue DEF Changes
  <2>3. ForeignNorth' = ForeignNorth /\ \A i \in ForeignNorth : north'[i] = north[i]
    BY <2>2 DEF ForeignNorth
  <2> QED BY <1>1, <1>2, <2>1, <2>3 DEF FlightInv
<1> QED BY <1>3, <1>4 DEF OneWifi

LEMMA FlightThread ==
  ASSUME WebTypes, FlightInv, BusThread
  PROVE  FlightInv'
<1>1. UNCHANGED <<pc, st, plan, step, sent, south>>
  BY DEF BusThread, testVars
<1>2. UNCHANGED Waiting
  BY <1>1 DEF Waiting
<1>3. CASE Decodes
  <2>1. /\ thread = Idle /\ dev' = dev
        /\ Len(north) \in Nat \ {0} /\ Len(north') = Len(north) - 1
        /\ \A i \in 1 .. Len(north') : north'[i] = north[i + 1]
    BY <1>3, DecodesQueue
  <2>2. ForeignDev' = ForeignDev /\ ~ForeignWork
    BY <2>1 DEF ForeignDev, ForeignWork
  <2>3. \A i \in ForeignNorth' : i + 1 \in ForeignNorth /\ north'[i] = north[i + 1]
    BY <2>1 DEF ForeignNorth
  <2>4. \A i, j \in ForeignNorth' : i = j
    <3> SUFFICES ASSUME NEW i \in ForeignNorth', NEW j \in ForeignNorth' PROVE i = j
      OBVIOUS
    <3>1. i + 1 = j + 1
      BY <2>3 DEF FlightInv
    <3>2. i \in Nat /\ j \in Nat
      BY DEF ForeignNorth
    <3> QED BY <3>1, <3>2
  <2>5. ForeignWork' => 1 \in ForeignNorth /\ thread'.kind = plan[step]
    <3>1. ForeignWork' => 1 \in ForeignNorth /\ thread'.kind = north[1].kind
      BY <1>3, <2>1, DecodesQueue DEF ForeignWork, ForeignNorth
    <3> QED BY <3>1 DEF FlightInv
  <2>6. ForeignWork' => ForeignNorth' = {}
    <3> SUFFICES ASSUME ForeignWork', NEW i \in ForeignNorth' PROVE FALSE
      OBVIOUS
    <3>1. i + 1 = 1
      BY <2>3, <2>5 DEF FlightInv
    <3>2. i \in 1 .. Len(north')
      BY DEF ForeignNorth
    <3> QED BY <2>1, <3>1, <3>2
  <2> QED
    BY <1>1, <1>2, <2>2, <2>3, <2>4, <2>5, <2>6 DEF FlightInv
<1>4. CASE Frees \/ cci_cache_update
  <2>1. UNCHANGED <<north, dev>> /\ thread # Idle /\ thread' # Idle
        /\ thread'.kind = thread.kind
    BY <1>4, FreesKeeps, CopiesOne
  <2>2. UNCHANGED <<ForeignNorth, ForeignWork, ForeignDev>>
    BY <2>1 DEF ForeignNorth, ForeignWork, ForeignDev
  <2> QED BY <1>1, <1>2, <2>1, <2>2 DEF FlightInv
<1>5. CASE send_webconfig_ctrl_msg
  <2>1. /\ thread # Idle /\ thread' = Idle /\ UNCHANGED north
        /\ Len(dev) \in Nat
        /\ \/ dev' = dev
           \/ /\ Len(dev') = Len(dev) + 1
              /\ \A i \in 1 .. Len(dev) : dev'[i] = dev[i]
              /\ dev'[Len(dev) + 1] = thread.kind
    BY <1>5, Notifies
  <2>2. ForeignNorth' = ForeignNorth /\ ~ForeignWork'
    BY <2>1 DEF ForeignNorth, ForeignWork
  <2>3. CASE ~ForeignWork
    <3>1. ForeignDev' = ForeignDev
      BY <2>1, <2>3 DEF ForeignDev, ForeignWork
    <3> QED BY <1>1, <1>2, <2>1, <2>2, <3>1 DEF FlightInv
  <2>4. CASE ForeignWork
    <3>1. ForeignDev = {} /\ ForeignNorth = {} /\ south = <<>> /\ Waiting
      BY <2>4 DEF FlightInv
    <3>2. ForeignDev' \subseteq {Len(dev) + 1}
      BY <2>1, <3>1 DEF ForeignDev
    <3> QED BY <1>1, <1>2, <2>2, <3>1, <3>2 DEF FlightInv
  <2> QED BY <2>3, <2>4
<1> QED BY <1>3, <1>4, <1>5 DEF BusThread

LEMMA DeliverQueue ==
  ASSUME WebTypes, Deliver
  PROVE  /\ Len(dev) \in Nat \ {0} /\ Len(dev') = Len(dev) - 1
         /\ \A i \in 1 .. Len(dev') : dev'[i] = dev[i + 1]
         /\ Head(dev) = dev[1]
<1>1. dev # <<>> /\ dev' = Tail(dev)
  BY DEF Deliver
<1> QED BY <1>1, TailType DEF WebTypes

LEMMA FlightTest ==
  ASSUME OwnKinds, NothingLate, WebTypes, TestTypes, FlightInv, TestThread
  PROVE  FlightInv'
<1>1. CASE StartTest \/ ExecuteFails \/ NextStep
  <2>1. UNCHANGED <<south, north, thread, dev>> /\ ~Waiting /\ ~Waiting'
    BY <1>1
    DEF StartTest, ExecuteFails, NextStep, Requested, Waiting, gatewayVars, cacheVars
  <2> QED BY <2>1, FlightUnchanged
<1>2. CASE ExecuteStation
  <2>1. UNCHANGED <<south, north, thread, dev>> /\ ~Waiting /\ ~Waiting'
    BY <1>2 DEF ExecuteStation, Requested, Waiting, gatewayVars
  <2> QED BY <2>1, FlightUnchanged
<1>3. CASE ExecuteConfig
  <2>1. /\ UNCHANGED <<pc, north, thread, dev, plan, step>> /\ pc = "test"
        /\ ~Waiting /\ plan[step] \in Configs
        /\ sent' = [sent EXCEPT ![step] = newest']
        /\ south' = Append(south, [kind |-> plan[step], config |-> newest'])
    BY <1>3 DEF ExecuteConfig, Requested, Waiting, cacheVars
  <2>2. south = <<>> /\ ForeignNorth = {} /\ ~ForeignWork /\ ForeignDev = {}
    BY <2>1 DEF FlightInv
  <2>3. ForeignNorth' = {} /\ ~ForeignWork' /\ ForeignDev' = {}
    BY <2>1, <2>2 DEF ForeignNorth, ForeignWork, ForeignDev
  <2>4. sent'[step] = newest'
    BY <2>1 DEF TestTypes
  <2>5. Waiting'
    BY <1>3, <2>1 DEF ExecuteConfig, Waiting
  <2>6. Len(south') = 1 /\ south'[1] = [kind |-> plan[step], config |-> newest']
    BY <2>1, <2>2
  <2> QED BY <2>1, <2>3, <2>4, <2>5, <2>6 DEF FlightInv
<1>4. CASE Deliver
  <2>1. UNCHANGED <<pc, south, north, thread, plan, step, sent>>
    BY <1>4 DEF Deliver, gatewayVars
  <2>2. UNCHANGED <<ForeignNorth, ForeignWork>>
    BY <2>1 DEF ForeignNorth, ForeignWork
  <2>3. \A i \in ForeignDev' : i + 1 \in ForeignDev /\ i \in Nat \ {0}
    BY <1>4, DeliverQueue DEF ForeignDev
  <2>4. \A i, j \in ForeignDev' : i = j
    <3> SUFFICES ASSUME NEW i \in ForeignDev', NEW j \in ForeignDev' PROVE i = j
      OBVIOUS
    <3>1. i + 1 = j + 1 /\ i \in Nat /\ j \in Nat
      BY <2>3 DEF FlightInv
    <3> QED BY <3>1
  <2>5. ForeignDev = {} => ForeignDev' = {}
    BY <2>3
  <2>6. CASE st' = st
    BY <2>1, <2>2, <2>4, <2>5, <2>6 DEF FlightInv, Waiting
  <2>7. CASE st' # st
    <3>1. /\ pc = "test" /\ st = "continue" /\ st' = "results"
          /\ Head(dev) = plan[step]
      BY <1>4, <2>7 DEF Deliver
    <3>2. plan[step] \notin OwnChanges
      BY <3>1, PlanType DEF TestTypes, OwnKinds
    <3>3. 1 \in ForeignDev
      BY <1>4, <3>1, <3>2, DeliverQueue DEF ForeignDev
    <3>4. ForeignDev' = {}
      <4> SUFFICES ASSUME NEW i \in ForeignDev' PROVE FALSE
        OBVIOUS
      <4>1. i + 1 = 1 /\ i \in Nat \ {0}
        BY <2>3, <3>3 DEF FlightInv
      <4> QED BY <4>1
    <3>5. south = <<>> /\ ForeignNorth = {} /\ ~ForeignWork
      BY <3>3 DEF FlightInv
    <3>6. ~Waiting'
      BY <3>1 DEF Waiting
    <3> QED BY <2>1, <2>2, <3>4, <3>5, <3>6 DEF FlightInv
  <2> QED BY <2>6, <2>7
<1>5. CASE step_timeout
  <2>1. /\ UNCHANGED <<south, north, thread, dev, pc, plan, step, sent>>
        /\ Waiting
        /\ south = <<>> /\ north = <<>> /\ thread = Idle /\ dev = <<>>
    BY <1>5 DEF step_timeout, NothingLate, Quiet, Waiting, gatewayVars, cacheVars
  <2>2. ForeignNorth' = {} /\ ~ForeignWork' /\ ForeignDev' = {} /\ south' = <<>>
    BY <2>1 DEF ForeignNorth, ForeignWork, ForeignDev
  <2> QED BY <2>1, <2>2 DEF FlightInv
<1> QED BY <1>1, <1>2, <1>3, <1>4, <1>5 DEF TestThread

LEMMA FlightStep ==
  /\ OwnKinds /\ NothingLate /\ WebTypes /\ TestTypes
  /\ FlightInv /\ [Next]_vars
  => FlightInv'
<1> SUFFICES ASSUME OwnKinds, NothingLate, WebTypes, TestTypes, FlightInv,
                    [Next]_vars
             PROVE  FlightInv'
  OBVIOUS
<1>1. CASE BusStart /\ UNCHANGED <<gatewayVars, cacheVars, testVars>>
  <2>1. UNCHANGED <<south, north, thread, dev>> /\ ~Waiting /\ ~Waiting'
    BY <1>1, BusStartMoves DEF Waiting, gatewayVars, cacheVars
  <2> QED BY <2>1, FlightUnchanged
<1>2. CASE bus_init
  <2>1. UNCHANGED <<south, north, thread, dev>> /\ ~Waiting /\ ~Waiting'
    BY <1>2
    DEF bus_init, GetInit, webconfig_init, Store, GivesUp, Waiting, gatewayVars,
        cacheVars
  <2> QED BY <2>1, FlightUnchanged
<1>3. CASE Finished \/ UNCHANGED vars
  BY <1>3, FlightUnchanged DEF Finished, vars, gatewayVars, cacheVars, testVars
<1> QED
  BY <1>1, <1>2, <1>3, FlightOneWifi, FlightThread, FlightTest DEF Next

------------------------------------------------------------------------------
(* Once the document of a step has gone through, nothing older comes, and   *)
(* the cache has it until a station step writes over it.                    *)
NewerFrom(o, q, i, p, n) ==
  o[p] >= n /\ \A k \in i .. Len(q) : q[k].config[p] >= n

Newer(o, q, t, p, n) ==
  NewerFrom(o, q, 1, p, n) /\ (t # Idle => t.config[p] >= n)

FreshIn(c, p, n) == c[p] = 0 \/ c[p] \in n .. Overridden - 1

LandedSteps == {j \in 1 .. step : j < step \/ st = "results" \/ ForeignDev # {}}
OverrideSteps ==
  {k \in 1 .. step : plan[k] = "station_override" /\ (k < step \/ st = "results")}

SentInv == Waiting => \A j \in 1 .. step : sent[j] <= sent[step]

LandedInv ==
  pc = "test" =>
    \A p \in Tracked : \A j \in 1 .. step :
      plan[j] \in Configs /\ p \in Covers(plan[j]) =>
        /\ j \in LandedSteps \/ ForeignWork =>
             Newer(onewifi, north, thread, p, sent[j])
        /\ j \in LandedSteps /\ (\A k \in OverrideSteps : k > j => p = "radio") =>
             FreshIn(cache, p, sent[j])
        /\ ForeignWork /\ j = step /\ p \notin Todo => FreshIn(cache, p, sent[j])
        /\ \A i \in ForeignNorth : NewerFrom(onewifi, north, i, p, sent[j])

(* What has gone through stays newer when OneWifi publishes what is newer   *)
(* or is about another part.                                                *)
LEMMA NewerPublishes ==
  ASSUME WebTypes, NEW kind \in Documents, NEW m \in Versions,
         Publishes(kind, With(kind, m)),
         NEW p \in Parts, NEW n \in Nat, NEW i \in Nat \ {0},
         p \in Covers(kind) => n <= m,
         NewerFrom(onewifi, north, i, p, n)
  PROVE  NewerFrom(onewifi', north', i, p, n)
<1>1. onewifi'[p] >= n
  <2>1. onewifi'[p] = IF p \in Covers(kind) THEN m ELSE onewifi[p]
    BY PublishesQueue
  <2> QED BY <2>1, Numbers DEF NewerFrom, Versions
<1>2. ASSUME NEW k \in i .. Len(north') PROVE north'[k].config[p] >= n
  <2>1. CASE north' = north
    BY <2>1 DEF NewerFrom
  <2>2. CASE north' # north
    <3>1. /\ Len(north) \in Nat /\ Len(north') = Len(north) + 1
          /\ \A j \in 1 .. Len(north) : north'[j] = north[j]
          /\ north'[Len(north) + 1] = [kind |-> kind, config |-> onewifi']
      BY <2>2, PublishesQueue
    <3>2. CASE k = Len(north) + 1
      BY <1>1, <3>1, <3>2
    <3>3. CASE k # Len(north) + 1
      <4>1. k \in i .. Len(north) /\ k \in 1 .. Len(north)
        BY <3>1, <3>3
      <4> QED BY <3>1, <4>1 DEF NewerFrom
    <3> QED BY <3>2, <3>3
  <2> QED BY <2>1, <2>2
<1> QED BY <1>1, <1>2 DEF NewerFrom

LEMMA SentType ==
  ASSUME TestTypes, pc = "test", NEW j \in 1 .. step
  PROVE  sent[j] \in Nat /\ j \in 1 .. Len(plan) /\ j \in Nat /\ step \in Nat
<1>1. step \in 1 .. Len(plan) /\ Len(plan) \in Nat
  BY PlanType DEF TestTypes
<1> QED BY <1>1 DEF TestTypes

LEMMA LandedOneWifi ==
  ASSUME WebTypes, TestTypes, BoundsInv, FlightInv, SentInv, LandedInv, OneWifi
  PROVE  LandedInv'
<1>1. UNCHANGED <<pc, st, plan, step, sent, thread, cache, dev>>
  BY DEF OneWifi, cacheVars, testVars
<1>2. UNCHANGED <<LandedSteps, OverrideSteps, ForeignWork, Todo>>
  BY <1>1 DEF LandedSteps, OverrideSteps, ForeignWork, ForeignDev, Todo
<1> SUFFICES ASSUME pc = "test", NEW p \in Tracked, NEW j \in 1 .. step,
                    plan[j] \in Configs, p \in Covers(plan[j])
             PROVE  /\ j \in LandedSteps \/ ForeignWork =>
                         Newer(onewifi', north', thread, p, sent[j])
                    /\ \A i \in ForeignNorth' :
                         NewerFrom(onewifi', north', i, p, sent[j])
  BY <1>1, <1>2 DEF LandedInv
<1>3. sent[j] \in Nat /\ p \in Parts /\ sent[j] <= newest
  BY SentType, TrackedParts DEF BoundsInv
<1>4. /\ j \in LandedSteps \/ ForeignWork => Newer(onewifi, north, thread, p, sent[j])
      /\ \A i \in ForeignNorth : NewerFrom(onewifi, north, i, p, sent[j])
  BY DEF LandedInv
<1>5. ASSUME NEW kind \in Documents, NEW m \in Versions,
             Publishes(kind, With(kind, m)), p \in Covers(kind) => sent[j] <= m
      PROVE  /\ j \in LandedSteps \/ ForeignWork =>
                  Newer(onewifi', north', thread, p, sent[j])
             /\ \A i \in ForeignNorth : NewerFrom(onewifi', north', i, p, sent[j])
  <2>1. ASSUME NEW i \in Nat \ {0}, NewerFrom(onewifi, north, i, p, sent[j])
        PROVE  NewerFrom(onewifi', north', i, p, sent[j])
    BY <1>3, <1>5, <2>1, NewerPublishes
  <2>2. \A i \in ForeignNorth : i \in Nat \ {0}
    BY DEF ForeignNorth
  <2> QED BY <1>4, <2>1, <2>2 DEF Newer
<1>6. CASE Applies
  <2>1. south # <<>>
    BY <1>6 DEF Applies
  <2>2. /\ Waiting /\ ForeignNorth = {} /\ Len(south) = 1
        /\ Head(south).kind = plan[step] /\ Head(south).config = sent[step]
    BY <2>1, SouthHead DEF FlightInv
  <2>3. sent[j] <= sent[step]
    BY <2>2 DEF SentInv
  <2>4. /\ Publishes(plan[step], With(plan[step], sent[step]))
        /\ plan[step] \in Documents /\ sent[step] \in Versions
    BY <1>6, <2>1, <2>2, SouthHead DEF Applies
  <2>5. j \in LandedSteps \/ ForeignWork =>
          Newer(onewifi', north', thread, p, sent[j])
    BY <1>5, <2>3, <2>4
  <2>6. onewifi'[p] >= sent[j]
    <3>1. onewifi'[p] = IF p \in Covers(plan[step]) THEN sent[step] ELSE onewifi[p]
      BY <1>3, <2>4, PublishesQueue
    <3>2. CASE p \in Covers(plan[step])
      BY <1>3, <2>3, <2>4, <3>1, <3>2 DEF Versions
    <3>3. CASE p \notin Covers(plan[step])
      <4>1. j < step
        BY <3>3, SentType
      <4>2. j \in LandedSteps
        BY <4>1 DEF LandedSteps
      <4> QED BY <1>4, <3>1, <3>3, <4>2 DEF Newer, NewerFrom
    <3> QED BY <3>2, <3>3
  <2>7. ASSUME NEW i \in ForeignNorth'
        PROVE  NewerFrom(onewifi', north', i, p, sent[j])
    <3>1. north' # north
      BY <2>2 DEF ForeignNorth
    <3>2. /\ Len(north) \in Nat /\ Len(north') = Len(north) + 1
          /\ \A k \in 1 .. Len(north) : north'[k] = north[k]
          /\ north'[Len(north) + 1] = [kind |-> plan[step], config |-> onewifi']
      BY <2>4, <3>1, PublishesQueue
    <3>3. i = Len(north) + 1
      BY <2>2, <3>2 DEF ForeignNorth
    <3>4. \A k \in i .. Len(north') : k = Len(north) + 1
      BY <3>2, <3>3
    <3> QED BY <2>6, <3>2, <3>4 DEF NewerFrom
  <2> QED BY <2>5, <2>7
<1>7. CASE Rejects
  <2>1. UNCHANGED <<onewifi, north>>
    BY <1>7 DEF Rejects
  <2>2. ForeignNorth' = ForeignNorth
    BY <2>1 DEF ForeignNorth
  <2> QED BY <1>4, <2>1, <2>2
<1>8. ASSUME NEW kind \in OwnChanges, Changes(kind)
      PROVE  /\ j \in LandedSteps \/ ForeignWork =>
                  Newer(onewifi', north', thread, p, sent[j])
             /\ \A i \in ForeignNorth' : NewerFrom(onewifi', north', i, p, sent[j])
  <2>1. kind \in Documents /\ newest' \in Versions
    BY <1>8, WebconfigAssumption DEF Changes, WebTypes, Versions, Documents
  <2>2. Publishes(kind, With(kind, newest'))
    BY <1>8 DEF Changes
  <2>3. sent[j] <= newest'
    BY <1>3, <1>8 DEF Changes, WebTypes, Versions
  <2>4. \/ north' = north
        \/ /\ Len(north) \in Nat /\ Len(north') = Len(north) + 1
           /\ \A i \in 1 .. Len(north) : north'[i] = north[i]
           /\ north'[Len(north) + 1] = [kind |-> kind, config |-> onewifi']
    BY <2>1, <2>2, PublishesQueue
  <2>5. ForeignNorth' = ForeignNorth
    BY <2>4 DEF ForeignNorth
  <2> QED BY <1>5, <2>1, <2>2, <2>3, <2>5
<1> QED BY <1>6, <1>7, <1>8 DEF OneWifi

LEMMA LandedThread ==
  ASSUME WebTypes, TestTypes, BoundsInv, EmptyInv, CountInv, FlightInv, LandedInv,
         BusThread
  PROVE  LandedInv'
<1>1. UNCHANGED <<pc, st, plan, step, sent, onewifi>>
  BY DEF BusThread, testVars
<1> SUFFICES ASSUME pc = "test", NEW p \in Tracked, NEW j \in 1 .. step,
                    plan[j] \in Configs, p \in Covers(plan[j])
             PROVE  /\ j \in LandedSteps' \/ ForeignWork' =>
                         Newer(onewifi, north', thread', p, sent[j])
                    /\ /\ j \in LandedSteps'
                       /\ \A k \in OverrideSteps' : k > j => p = "radio"
                       => FreshIn(cache', p, sent[j])
                    /\ ForeignWork' /\ j = step /\ p \notin Todo' =>
                         FreshIn(cache', p, sent[j])
                    /\ \A i \in ForeignNorth' :
                         NewerFrom(onewifi, north', i, p, sent[j])
  BY <1>1 DEF LandedInv
<1>2. OverrideSteps' = OverrideSteps
  BY <1>1 DEF OverrideSteps
<1>3. sent[j] \in Nat /\ p \in Parts
  BY SentType, TrackedParts
<1> DEFINE Reached == Newer(onewifi, north, thread, p, sent[j])
           NoOverride == \A k \in OverrideSteps : k > j => p = "radio"
<1>4. /\ j \in LandedSteps \/ ForeignWork => Reached
      /\ j \in LandedSteps /\ NoOverride => FreshIn(cache, p, sent[j])
      /\ ForeignWork /\ j = step /\ p \notin Todo => FreshIn(cache, p, sent[j])
      /\ \A i \in ForeignNorth : NewerFrom(onewifi, north, i, p, sent[j])
  BY DEF LandedInv
<1>5. CASE Decodes
  <2>1. /\ thread = Idle /\ UNCHANGED <<cache, dev>>
        /\ Len(north) \in Nat \ {0} /\ Len(north') = Len(north) - 1
        /\ \A i \in 1 .. Len(north') : north'[i] = north[i + 1]
        /\ north[1].kind \in Documents
        /\ \/ thread' = Idle
           \/ /\ thread' # Idle /\ Todo' = Copied(north[1].kind)
              /\ thread'.kind = north[1].kind /\ thread'.config = north[1].config
    BY <1>5, DecodesQueue
  <2>2. LandedSteps' = LandedSteps
    BY <1>1, <2>1 DEF LandedSteps, ForeignDev
  <2>3. ASSUME NEW i \in Nat \ {0}, NewerFrom(onewifi, north, i + 1, p, sent[j])
        PROVE  NewerFrom(onewifi, north', i, p, sent[j])
    <3>1. ASSUME NEW k \in i .. Len(north') PROVE north'[k].config[p] >= sent[j]
      <4>1. k + 1 \in i + 1 .. Len(north) /\ north'[k] = north[k + 1]
        BY <2>1
      <4> QED BY <2>3, <4>1 DEF NewerFrom
    <3> QED BY <2>3, <3>1 DEF NewerFrom
  <2>4. ASSUME NewerFrom(onewifi, north, 1, p, sent[j])
        PROVE  Newer(onewifi, north', thread', p, sent[j])
    <3>1. 1 \in 1 .. Len(north) /\ 1 + 1 \in Nat
      BY <2>1
    <3>2. NewerFrom(onewifi, north, 1 + 1, p, sent[j])
      BY <2>4 DEF NewerFrom
    <3>3. NewerFrom(onewifi, north', 1, p, sent[j])
      BY <2>3, <3>2
    <3>4. thread' # Idle => thread'.config[p] >= sent[j]
      BY <2>1, <2>4, <3>1 DEF NewerFrom
    <3> QED BY <3>3, <3>4 DEF Newer
  <2>5. ForeignWork' => 1 \in ForeignNorth /\ thread' # Idle
    BY <2>1 DEF ForeignWork, ForeignNorth
  <2>6. j \in LandedSteps' \/ ForeignWork' =>
          Newer(onewifi, north', thread', p, sent[j])
    BY <1>4, <2>2, <2>4, <2>5 DEF Newer
  <2>7. ASSUME ForeignWork', j = step, p \notin Todo'
        PROVE  FreshIn(cache', p, sent[j])
    <3>1. north[1].kind = plan[step] /\ Todo' = Copied(north[1].kind)
      BY <2>1, <2>5, <2>7 DEF FlightInv
    <3>2. p \in Covers(north[1].kind)
      BY <2>7, <3>1
    <3>3. cache["radio"] = 0
      BY <2>1, <2>7, <3>1, <3>2, CopiedIsCovered
    <3>4. Todo = {}
      BY <2>1 DEF Todo
    <3>5. cache[p] = 0
      BY <3>3, <3>4 DEF EmptyInv
    <3> QED BY <2>1, <3>5 DEF FreshIn
  <2>8. ASSUME NEW i \in ForeignNorth'
        PROVE  NewerFrom(onewifi, north', i, p, sent[j])
    <3>1. i \in Nat \ {0} /\ i + 1 \in ForeignNorth
      BY <2>1 DEF ForeignNorth
    <3> QED BY <1>4, <2>3, <3>1
  <2> QED BY <1>2, <1>4, <2>1, <2>2, <2>6, <2>7, <2>8
<1>6. CASE Frees
  <2>1. /\ UNCHANGED <<north, cache, dev, Todo>> /\ thread # Idle /\ thread' # Idle
        /\ thread'.kind = thread.kind /\ thread'.config = thread.config
    BY <1>6, FreesKeeps
  <2>2. UNCHANGED <<LandedSteps, ForeignWork, ForeignNorth>>
    BY <1>1, <2>1 DEF LandedSteps, ForeignWork, ForeignNorth, ForeignDev
  <2> QED BY <1>2, <1>4, <2>1, <2>2 DEF Newer
<1>7. CASE cci_cache_update
  <2>1. /\ UNCHANGED <<north, dev>> /\ thread # Idle /\ thread' # Idle
        /\ thread'.kind = thread.kind /\ thread'.config = thread.config
    BY <1>7, CopiesOne
  <2>2. PICK q \in Todo \cap Parts :
          /\ Todo' = Todo \ {q}
          /\ \A r \in Parts :
               cache'[r] = IF r = q THEN thread.config[q] ELSE cache[r]
    BY <1>7, CopiesOne
  <2>3. UNCHANGED <<LandedSteps, ForeignWork, ForeignNorth>>
    BY <1>1, <2>1 DEF LandedSteps, ForeignWork, ForeignNorth, ForeignDev
  <2>4. Reached => Newer(onewifi, north', thread', p, sent[j])
    BY <2>1 DEF Newer
  <2>5. Reached /\ p = q => FreshIn(cache', p, sent[j])
    <3>1. thread.config[p] \in Nat /\ thread.config[p] <= newest /\ newest \in Nat
      BY <1>3, <2>1, Numbers DEF BoundsInv, Older, Versions
    <3>2. newest < Overridden /\ Overridden \in Nat
      BY CountBounds, OverriddenType DEF Versions
    <3>3. Reached => thread.config[p] >= sent[j]
      BY <2>1 DEF Newer
    <3>4. p = q => cache'[p] = thread.config[p]
      BY <1>3, <2>2
    <3> QED BY <1>3, <3>1, <3>2, <3>3, <3>4 DEF FreshIn
  <2>6. p # q => cache'[p] = cache[p] /\ (p \notin Todo' => p \notin Todo)
    BY <1>3, <2>2
  <2>7. p # q /\ FreshIn(cache, p, sent[j]) => FreshIn(cache', p, sent[j])
    BY <2>6 DEF FreshIn
  <2>8. j \in LandedSteps' /\ NoOverride => FreshIn(cache', p, sent[j])
    BY <1>4, <2>3, <2>5, <2>7
  <2>9. ForeignWork' /\ j = step /\ p \notin Todo' => FreshIn(cache', p, sent[j])
    BY <1>4, <2>3, <2>5, <2>6, <2>7
  <2>10. \A i \in ForeignNorth' : NewerFrom(onewifi, north', i, p, sent[j])
    BY <1>4, <2>1, <2>3
  <2>11. j \in LandedSteps' \/ ForeignWork' =>
           Newer(onewifi, north', thread', p, sent[j])
    BY <1>4, <2>3, <2>4
  <2> QED BY <1>2, <2>8, <2>9, <2>10, <2>11
<1>8. CASE send_webconfig_ctrl_msg
  <2>1. /\ thread # Idle /\ thread' = Idle /\ Todo = {} /\ UNCHANGED <<north, cache>>
        /\ Len(dev) \in Nat
        /\ \/ dev' = dev
           \/ /\ Len(dev') = Len(dev) + 1
              /\ \A i \in 1 .. Len(dev) : dev'[i] = dev[i]
              /\ dev'[Len(dev) + 1] = thread.kind
    BY <1>8, Notifies
  <2>2. ForeignNorth' = ForeignNorth /\ ~ForeignWork'
    BY <2>1 DEF ForeignNorth, ForeignWork
  <2>3. j \in LandedSteps' => j \in LandedSteps \/ (ForeignWork /\ j = step)
    <3>1. ForeignDev' # {} => ForeignDev # {} \/ ForeignWork
      BY <2>1 DEF ForeignDev, ForeignWork
    <3>2. ~(j < step) => j = step
      BY SentType
    <3> QED BY <1>1, <3>1, <3>2 DEF LandedSteps
  <2>4. Reached => Newer(onewifi, north', thread', p, sent[j])
    BY <2>1 DEF Newer
  <2> QED BY <1>2, <1>4, <2>1, <2>2, <2>3, <2>4
<1> QED BY <1>5, <1>6, <1>7, <1>8 DEF BusThread

(* A step that leaves the documents and the cache alone, and lands none.    *)
LEMMA LandedKept ==
  ASSUME LandedInv, UNCHANGED <<onewifi, north, thread, cache, pc, plan>>,
         NEW p \in Tracked, NEW j \in 1 .. step,
         pc = "test", plan[j] \in Configs, p \in Covers(plan[j]),
         j \in LandedSteps' => j \in LandedSteps,
         \A k \in OverrideSteps : k \in OverrideSteps' \/ k <= j,
         sent'[j] = sent[j], j = step' => j = step
  PROVE  /\ j \in LandedSteps' \/ ForeignWork' =>
              Newer(onewifi', north', thread', p, sent'[j])
         /\ /\ j \in LandedSteps'
            /\ \A k \in OverrideSteps' : k > j => p = "radio"
            => FreshIn(cache', p, sent'[j])
         /\ ForeignWork' /\ j = step' /\ p \notin Todo' => FreshIn(cache', p, sent'[j])
         /\ \A i \in ForeignNorth' : NewerFrom(onewifi', north', i, p, sent'[j])
<1>1. UNCHANGED <<ForeignWork, ForeignNorth, Todo>>
  BY DEF ForeignWork, ForeignNorth, Todo
<1>2. j \in LandedSteps /\ (\A k \in OverrideSteps : k > j => p = "radio") =>
        FreshIn(cache, p, sent[j])
  BY DEF LandedInv
<1>3. (\A k \in OverrideSteps' : k > j => p = "radio")
      => (\A k \in OverrideSteps : k > j => p = "radio")
  <2>1. \A k \in OverrideSteps : k > j => ~(k <= j)
    BY DEF OverrideSteps
  <2> QED BY <2>1
<1>4. /\ j \in LandedSteps \/ ForeignWork =>
           Newer(onewifi, north, thread, p, sent[j])
      /\ ForeignWork /\ j = step /\ p \notin Todo => FreshIn(cache, p, sent[j])
      /\ \A i \in ForeignNorth : NewerFrom(onewifi, north, i, p, sent[j])
  BY DEF LandedInv
<1> QED BY <1>1, <1>2, <1>3, <1>4

LEMMA StepNumbers ==
  ASSUME TestTypes, pc = "test"
  PROVE  /\ step \in Nat \ {0} /\ Len(plan) \in Nat /\ step <= Len(plan)
         /\ plan[step] \in Configs \cup Stations
BY PlanType DEF TestTypes

LEMMA LandedTest ==
  ASSUME WebTypes, TestTypes, BoundsInv, CountInv, FlightInv, LandedInv,
         OwnKinds, TestThread
  PROVE  LandedInv'
<1>1. CASE StartTest
  <2>1. ~Waiting /\ pc' = "test" /\ step' = 1 /\ st' = "request"
        /\ UNCHANGED <<north, thread, dev>>
    BY <1>1 DEF StartTest, Waiting, gatewayVars, cacheVars
  <2>2. ForeignNorth = {} /\ ~ForeignWork /\ ForeignDev = {}
    BY <2>1 DEF FlightInv
  <2>3. ForeignNorth' = {} /\ ~ForeignWork' /\ ForeignDev' = {}
    BY <2>1, <2>2 DEF ForeignNorth, ForeignWork, ForeignDev
  <2>4. LandedSteps' = {}
    BY <2>1, <2>3 DEF LandedSteps
  <2> QED BY <2>3, <2>4 DEF LandedInv
<1>2. CASE ExecuteFails \/ step_timeout
  <2>1. /\ UNCHANGED <<onewifi, north, thread, cache, dev, pc, plan, step, sent>>
        /\ pc = "test" /\ st' # "results" /\ st # "results"
    BY <1>2 DEF ExecuteFails, step_timeout, Requested, gatewayVars, cacheVars
  <2>2. LandedSteps' = LandedSteps /\ OverrideSteps' = OverrideSteps
    BY <2>1 DEF LandedSteps, OverrideSteps, ForeignDev
  <2> QED BY <2>1, <2>2, LandedKept DEF LandedInv
<1>3. CASE Deliver
  <2>1. /\ UNCHANGED <<onewifi, north, thread, cache, pc, plan, step, sent>>
    BY <1>3 DEF Deliver, gatewayVars
  <2>2. ForeignDev = {} => ForeignDev' = {}
    BY <1>3, DeliverQueue DEF ForeignDev
  <2>3. CASE pc = "test"
    <3>1. /\ LandedSteps' \subseteq LandedSteps
          /\ OverrideSteps' = OverrideSteps
      <4>1. CASE st' = st
        BY <2>1, <2>2, <4>1 DEF LandedSteps, OverrideSteps
      <4>2. CASE st' # st
        <5>1. /\ st = "continue" /\ st' = "results" /\ Head(dev) = plan[step]
          BY <1>3, <4>2 DEF Deliver
        <5>2. plan[step] \notin OwnChanges /\ plan[step] \in Configs
          BY <2>3, <5>1, PlanType DEF TestTypes, OwnKinds, FlightInv, Waiting
        <5>3. ForeignDev # {}
          <6>1. 1 \in ForeignDev
            BY <1>3, <5>1, <5>2, DeliverQueue DEF ForeignDev
          <6> QED BY <6>1
        <5>4. LandedSteps = 1 .. step
          BY <5>3 DEF LandedSteps
        <5>5. plan[step] # "station_override"
          BY <5>2 DEF Configs
        <5>6. \A k \in 1 .. step : plan[k] = "station_override" => k < step
          BY <2>3, <5>5, StepNumbers
        <5>7. OverrideSteps' = OverrideSteps
          BY <2>1, <5>6 DEF OverrideSteps
        <5>8. LandedSteps' \subseteq 1 .. step
          BY <2>1 DEF LandedSteps
        <5> QED BY <5>4, <5>7, <5>8
      <4> QED BY <4>1, <4>2
    <3> QED BY <2>1, <2>3, <3>1, LandedKept DEF LandedInv
  <2>4. CASE pc # "test"
    BY <2>1, <2>4 DEF LandedInv
  <2> QED BY <2>3, <2>4
<1>4. CASE ExecuteConfig
  <2>1. /\ UNCHANGED <<onewifi, north, thread, cache, dev, pc, plan, step>>
        /\ pc = "test" /\ st = "request" /\ st' = "continue"
        /\ sent' = [sent EXCEPT ![step] = newest']
    BY <1>4 DEF ExecuteConfig, Requested, cacheVars
  <2>2. ForeignNorth = {} /\ ~ForeignWork /\ ForeignDev = {}
    BY <2>1 DEF FlightInv, Waiting
  <2>3. ForeignNorth' = {} /\ ~ForeignWork' /\ ForeignDev' = {}
    BY <2>1, <2>2 DEF ForeignNorth, ForeignWork, ForeignDev
  <2>4. LandedSteps' = LandedSteps /\ OverrideSteps' = OverrideSteps
    BY <2>1, <2>2, <2>3 DEF LandedSteps, OverrideSteps
  <2>5. \A j \in LandedSteps : j \in 1 .. step /\ j < step
    BY <2>1, <2>2 DEF LandedSteps
  <2>6. \A j \in LandedSteps : sent'[j] = sent[j]
    BY <2>1, <2>5, SentType DEF TestTypes
  <2>7. ASSUME NEW p \in Tracked, NEW j \in 1 .. step,
               plan[j] \in Configs, p \in Covers(plan[j]), j \in LandedSteps
        PROVE  /\ Newer(onewifi, north, thread, p, sent[j])
               /\ (\A k \in OverrideSteps : k > j => p = "radio") =>
                    FreshIn(cache, p, sent[j])
    BY <2>1, <2>7 DEF LandedInv
  <2> QED BY <2>1, <2>3, <2>4, <2>6, <2>7 DEF LandedInv
<1>5. CASE ExecuteStation
  <2>1. CASE pc' = "crashed"
    BY <2>1 DEF LandedInv
  <2>2. CASE pc' # "crashed"
    <3>1. /\ UNCHANGED <<onewifi, north, thread, dev, pc, plan, step, sent>>
          /\ pc = "test" /\ st = "request" /\ st' = "results"
          /\ plan[step] \in Stations
      BY <1>5, <2>2 DEF ExecuteStation, Requested, gatewayVars
    <3>2. PICK parts \in decode_user_ap_config :
            cache' = [p \in Parts |-> IF p \in parts THEN Overridden ELSE cache[p]]
      BY <1>5, <2>2 DEF ExecuteStation
    <3>3. ForeignNorth = {} /\ ~ForeignWork /\ ForeignDev = {}
      BY <3>1 DEF FlightInv, Waiting
    <3>4. ForeignNorth' = {} /\ ~ForeignWork'
      BY <3>1, <3>3 DEF ForeignNorth, ForeignWork
    <3> SUFFICES ASSUME NEW p \in Tracked, NEW j \in 1 .. step,
                        plan[j] \in Configs, p \in Covers(plan[j]),
                        j \in LandedSteps'
                 PROVE  /\ Newer(onewifi, north, thread, p, sent[j])
                        /\ (\A k \in OverrideSteps' : k > j => p = "radio")
                           => FreshIn(cache', p, sent[j])
      BY <3>1, <3>4 DEF LandedInv
    <3>5. step \in Nat \ {0} /\ j \in Nat
      BY <3>1, StepNumbers
    <3>6. j # step
      BY <3>1 DEF Configs, Stations
    <3>7. j < step /\ j \in LandedSteps
      BY <3>5, <3>6 DEF LandedSteps
    <3>8. /\ Newer(onewifi, north, thread, p, sent[j])
          /\ (\A k \in OverrideSteps : k > j => p = "radio") => FreshIn(cache, p, sent[j])
      BY <3>1, <3>7 DEF LandedInv
    <3>9. OverrideSteps \subseteq OverrideSteps'
      BY <3>1 DEF OverrideSteps
    <3>10. ASSUME \A k \in OverrideSteps' : k > j => p = "radio"
           PROVE  cache'[p] = cache[p]
      <4>1. p \in Parts
        BY TrackedParts
      <4>2. CASE plan[step] = "station_override"
        <5>1. step \in OverrideSteps' /\ step > j
          BY <3>1, <3>5, <3>7, <4>2 DEF OverrideSteps
        <5>2. p = "radio"
          BY <3>10, <5>1
        <5> QED BY <3>2, <4>1, <5>2, OverrideParts
      <4>3. CASE plan[step] # "station_override"
        BY <3>2, <4>1, <4>3, OverrideParts
      <4> QED BY <4>2, <4>3
    <3> QED BY <3>8, <3>9, <3>10 DEF FreshIn
  <2> QED BY <2>1, <2>2
<1>6. CASE NextStep
  <2>1. CASE pc' # "test"
    BY <2>1 DEF LandedInv
  <2>2. CASE pc' = "test"
    <3>1. /\ UNCHANGED <<onewifi, north, thread, cache, dev, pc, plan, sent>>
          /\ pc = "test" /\ st = "results" /\ st' = "request" /\ step' = step + 1
      BY <1>6, <2>2 DEF NextStep, gatewayVars, cacheVars
    <3>2. ForeignNorth = {} /\ ~ForeignWork /\ ForeignDev = {}
      BY <3>1 DEF FlightInv, Waiting
    <3>3. ForeignNorth' = {} /\ ~ForeignWork' /\ ForeignDev' = {}
      BY <3>1, <3>2 DEF ForeignNorth, ForeignWork, ForeignDev
    <3>4. step \in Nat \ {0}
      BY <3>1, StepNumbers
    <3>5. LandedSteps' = 1 .. step /\ LandedSteps = 1 .. step
      BY <3>1, <3>3, <3>4 DEF LandedSteps
    <3>6. OverrideSteps' = OverrideSteps
      BY <3>1, <3>4 DEF OverrideSteps
    <3>7. ASSUME NEW p \in Tracked, NEW j \in 1 .. step,
                 plan[j] \in Configs, p \in Covers(plan[j])
          PROVE  /\ Newer(onewifi, north, thread, p, sent[j])
                 /\ (\A k \in OverrideSteps : k > j => p = "radio") =>
                      FreshIn(cache, p, sent[j])
      <4>1. j \in LandedSteps
        BY <3>5
      <4> QED BY <3>1, <3>7, <4>1 DEF LandedInv
    <3> QED BY <3>1, <3>3, <3>5, <3>6, <3>7 DEF LandedInv
  <2> QED BY <2>1, <2>2
<1> QED BY <1>1, <1>2, <1>3, <1>4, <1>5, <1>6 DEF TestThread

LEMMA LandedInit == Init => LandedInv /\ SentInv
BY DEF Init, BusInit, LandedInv, SentInv, Waiting

LEMMA LandedUnchanged ==
  ASSUME LandedInv, pc' # "test"
         \/ UNCHANGED <<onewifi, north, thread, cache, dev, pc, st, plan, step, sent>>
  PROVE  LandedInv'
<1>1. CASE pc' # "test"
  BY <1>1 DEF LandedInv
<1>2. CASE UNCHANGED <<onewifi, north, thread, cache, dev, pc, st, plan, step, sent>>
  <2>1. UNCHANGED <<LandedSteps, OverrideSteps, ForeignNorth, ForeignWork, Todo>>
    BY <1>2 DEF LandedSteps, OverrideSteps, ForeignNorth, ForeignWork, ForeignDev, Todo
  <2> QED BY <1>2, <2>1 DEF LandedInv
<1> QED BY <1>1, <1>2

LEMMA SentTest ==
  ASSUME WebTypes, TestTypes, BoundsInv, SentInv, TestThread
  PROVE  SentInv'
<1>1. CASE ExecuteConfig
  <2>1. /\ UNCHANGED <<pc, plan, step>> /\ pc = "test"
        /\ newest' = newest + 1 /\ newest \in Nat
        /\ sent' = [sent EXCEPT ![step] = newest']
    BY <1>1 DEF ExecuteConfig, Requested, WebTypes, Versions
  <2>2. step \in 1 .. Len(plan) /\ \A j \in 1 .. step : j \in 1 .. Len(plan)
    BY <2>1, StepNumbers, SentType
  <2>3. sent'[step] = newest'
    BY <2>1, <2>2 DEF TestTypes
  <2>4. ASSUME NEW j \in 1 .. step PROVE sent'[j] <= newest'
    <3>1. j \in 1 .. Len(plan) /\ sent[j] \in Nat /\ sent[j] <= newest
      BY <2>1, <2>2, SentType DEF BoundsInv
    <3>2. sent'[j] = sent[j] \/ sent'[j] = newest'
      BY <2>1, <3>1 DEF TestTypes
    <3> QED BY <2>1, <3>1, <3>2
  <2> QED BY <2>1, <2>3, <2>4 DEF SentInv
<1>2. CASE Deliver \/ step_timeout
  BY <1>2 DEF Deliver, step_timeout, SentInv, Waiting
<1>3. CASE StartTest \/ ExecuteFails \/ ExecuteStation \/ NextStep
  <2>1. ~Waiting'
    BY <1>3 DEF StartTest, ExecuteFails, ExecuteStation, NextStep, Requested, Waiting
  <2> QED BY <2>1 DEF SentInv
<1> QED BY <1>1, <1>2, <1>3 DEF TestThread

LEMMA LandedStep ==
  /\ WebTypes /\ TestTypes /\ BoundsInv /\ EmptyInv /\ CountInv /\ FlightInv
  /\ SentInv /\ LandedInv /\ OwnKinds /\ [Next]_vars
  => SentInv' /\ LandedInv'
<1> SUFFICES ASSUME WebTypes, TestTypes, BoundsInv, EmptyInv, CountInv, FlightInv,
                    SentInv, LandedInv, OwnKinds, [Next]_vars
             PROVE  SentInv' /\ LandedInv'
  OBVIOUS
<1>u. ASSUME pc' # "test" \/ UNCHANGED <<pc, st, plan, step, sent>> PROVE SentInv'
  BY <1>u DEF SentInv, Waiting
<1>1. CASE BusStart /\ UNCHANGED <<gatewayVars, cacheVars, testVars>>
  BY <1>1, <1>u, BusStartMoves, LandedUnchanged
<1>2. CASE bus_init
  <2>1. pc' # "test"
    BY <1>2 DEF bus_init, GetInit, webconfig_init, Store, GivesUp
  <2> QED BY <1>u, <2>1, LandedUnchanged
<1>3. CASE OneWifi
  BY <1>3, <1>u, LandedOneWifi DEF OneWifi, testVars
<1>4. CASE BusThread
  BY <1>4, <1>u, LandedThread DEF BusThread, testVars
<1>5. CASE TestThread
  BY <1>5, SentTest, LandedTest
<1>6. CASE Finished \/ UNCHANGED vars
  BY <1>6, <1>u, LandedUnchanged
  DEF Finished, vars, gatewayVars, cacheVars, testVars
<1> QED BY <1>1, <1>2, <1>3, <1>4, <1>5, <1>6 DEF Next

------------------------------------------------------------------------------
(* A station has connected in an earlier step, or in this one.              *)
UsedInv ==
  pc = "test" =>
    \A k \in 1 .. Len(plan) : \A p \in Tracked :
      used[k][p] # 0 => k < step \/ (k = step /\ st = "results")

StationInv == UsedInv /\ StationConfig

EarlierWriters(k, p) == {j \in 1 .. k - 1 : p \in Writers(plan[j])}

LEMMA LastWriter ==
  ASSUME NEW k \in Nat, NEW S \in SUBSET (1 .. k - 1), S # {}
  PROVE  Max(S) \in S /\ \A j \in S : j <= Max(S)
<1>1. S \in SUBSET (0 .. k)
  OBVIOUS
<1> QED BY <1>1, MaxOf

(* A step that connects no station and sends nothing.                       *)
LEMMA StationUnchanged ==
  ASSUME StationConfig, UNCHANGED <<plan, sent, used>>
  PROVE  StationConfig'
BY DEF StationConfig

LEMMA StationExecutesConfig ==
  ASSUME TestTypes, StationInv, ExecuteConfig
  PROVE  StationInv'
<1>1. /\ UNCHANGED <<pc, plan, used, step>> /\ pc = "test" /\ st = "request"
      /\ sent' = [sent EXCEPT ![step] = newest']
  BY DEF ExecuteConfig, Requested
<1>2. UsedInv'
  BY <1>1 DEF StationInv, UsedInv
<1>3. StationConfig'
  <2> SUFFICES ASSUME NEW k \in DOMAIN used, NEW p \in DOMAIN Unused,
                      used[k][p] # 0, plan[k] = "station",
                      EarlierWriters(k, p) # {},
                      plan[Max(EarlierWriters(k, p))] \in Configs
               PROVE  used[k][p] \in
                        sent'[Max(EarlierWriters(k, p))] .. Overridden - 1
    BY <1>1 DEF StationConfig, EarlierWriters
  <2>0. PICK last : last = Max(EarlierWriters(k, p))
    OBVIOUS
  <2>1. k \in 1 .. Len(plan) /\ p \in Tracked
    BY <1>1, UnusedType DEF TestTypes
  <2>2. k < step /\ k \in Nat
    BY <1>1, <2>1 DEF StationInv, UsedInv
  <2>3. last \in EarlierWriters(k, p)
    <3>1. EarlierWriters(k, p) \in SUBSET (1 .. k - 1)
      BY DEF EarlierWriters
    <3> QED BY <2>0, <2>2, <3>1, LastWriter
  <2>4. last \in 1 .. k - 1
    BY <2>3 DEF EarlierWriters
  <2>5. used[k][p] \in sent[last] .. Overridden - 1
    BY <2>0 DEF StationInv, StationConfig, EarlierWriters
  <2>6. sent'[last] = sent[last]
    <3>1. step \in Nat /\ step <= Len(plan) /\ Len(plan) \in Nat
      BY <1>1, StepNumbers
    <3>2. last \in 1 .. Len(plan) /\ last # step
      BY <2>2, <2>4, <3>1
    <3> QED BY <1>1, <3>2 DEF TestTypes
  <2> QED BY <2>0, <2>5, <2>6
<1> QED BY <1>2, <1>3 DEF StationInv

LEMMA StationConnects ==
  ASSUME WebTypes, TestTypes, LandedInv, StationInv, ExecuteStation
  PROVE  StationInv'
<1>1. CASE pc' = "crashed"
  <2>1. UNCHANGED <<plan, sent, used>>
    BY <1>1 DEF ExecuteStation, Requested
  <2> QED BY <1>1, <2>1, StationUnchanged DEF StationInv, UsedInv
<1>2. CASE pc' # "crashed"
  <2>1. /\ UNCHANGED <<pc, plan, sent, step>> /\ pc = "test" /\ st = "request"
        /\ used' = [used EXCEPT ![step] = update_sta_config(cache')]
        /\ st' = "results"
    BY <1>2 DEF ExecuteStation, Requested
  <2>2. PICK parts \in decode_user_ap_config :
          cache' = [p \in Parts |-> IF p \in parts THEN Overridden ELSE cache[p]]
    BY <1>2 DEF ExecuteStation
  <2>3. step \in 1 .. Len(plan) /\ step \in Nat \ {0} /\ DOMAIN used = 1 .. Len(plan)
        /\ DOMAIN used' = 1 .. Len(plan)
    BY <2>1 DEF TestTypes
  <2>4. \A k \in 1 .. Len(plan) : k # step => used'[k] = used[k]
    BY <2>1, <2>3
  <2>5. \A p \in Tracked : used'[step][p] = cache'[p]
    BY <2>1, <2>3, UnusedType DEF update_sta_config
  <2>6. UsedInv'
    BY <2>1, <2>4 DEF StationInv, UsedInv
  <2>7. StationConfig'
    <3> SUFFICES ASSUME NEW k \in 1 .. Len(plan), NEW p \in Tracked,
                        used'[k][p] # 0, plan[k] = "station",
                        EarlierWriters(k, p) # {},
                        plan[Max(EarlierWriters(k, p))] \in Configs
                 PROVE  used'[k][p] \in
                          sent[Max(EarlierWriters(k, p))] .. Overridden - 1
      BY <2>1, <2>3, UnusedType DEF StationConfig, EarlierWriters
    <3> DEFINE last == Max(EarlierWriters(k, p))
    <3>1. CASE k # step
      <4>1. used'[k] = used[k] /\ k \in DOMAIN used /\ p \in DOMAIN Unused
        BY <2>3, <2>4, <3>1, UnusedType
      <4> QED BY <4>1 DEF StationInv, StationConfig, EarlierWriters
    <3>2. CASE k = step
      <4>1. last \in EarlierWriters(k, p) /\ \A j \in EarlierWriters(k, p) : j <= last
        <5>1. EarlierWriters(k, p) \in SUBSET (1 .. k - 1) /\ k \in Nat
          BY DEF EarlierWriters
        <5> QED BY <5>1, LastWriter
      <4>2. last \in 1 .. step - 1 /\ p \in Writers(plan[last])
        BY <3>2, <4>1 DEF EarlierWriters
      <4>3. last \in 1 .. step /\ last < step
        BY <2>3, <4>2
      <4>4. p \in Covers(plan[last])
        BY <4>2 DEF Writers
      <4>5. last \in LandedSteps
        BY <4>3 DEF LandedSteps
      <4>6. ASSUME NEW n \in OverrideSteps, n > last PROVE p = "radio"
        <5>1. n \in 1 .. step /\ plan[n] = "station_override" /\ n < step
          BY <2>1 DEF OverrideSteps
        <5>2. CASE p # "radio"
          <6>1. p \in Writers(plan[n])
            BY <5>1, <5>2 DEF Writers, Tracked, Configs
          <6>2. n \in EarlierWriters(k, p)
            BY <2>3, <3>2, <5>1, <6>1 DEF EarlierWriters
          <6>3. n <= last /\ n \in Nat /\ last \in Nat
            BY <4>1, <4>2, <5>1, <6>2
          <6> QED BY <4>6, <6>3
        <5> QED BY <5>2
      <4>7. FreshIn(cache, p, sent[last])
        BY <2>1, <4>3, <4>4, <4>5, <4>6 DEF LandedInv
      <4>8. cache'[p] = cache[p]
        <5>1. parts = {} /\ p \in Parts
          BY <2>2, <3>2, OverrideParts, TrackedParts
        <5> QED BY <2>2, <5>1
      <4>9. used'[k][p] = cache[p] /\ cache[p] # 0
        BY <2>5, <3>2, <4>8
      <4> QED BY <4>7, <4>9 DEF FreshIn
    <3> QED BY <3>1, <3>2
  <2> QED BY <2>6, <2>7 DEF StationInv
<1> QED BY <1>1, <1>2

LEMMA StationStep ==
  /\ WebTypes /\ TestTypes /\ LandedInv /\ StationInv /\ [Next]_vars
  => StationInv'
<1> SUFFICES ASSUME WebTypes, TestTypes, LandedInv, StationInv, [Next]_vars
             PROVE  StationInv'
  OBVIOUS
<1>u. ASSUME UNCHANGED <<plan, sent, used>>,
             pc' # "test" \/ UNCHANGED <<pc, st, step>>
      PROVE  StationInv'
  BY <1>u, StationUnchanged DEF StationInv, UsedInv
<1>1. CASE BusStart /\ UNCHANGED <<gatewayVars, cacheVars, testVars>>
  BY <1>1, <1>u, BusStartMoves DEF testVars
<1>2. CASE bus_init
  BY <1>2, <1>u
  DEF bus_init, GetInit, webconfig_init, Store, GivesUp, testVars
<1>3. CASE OneWifi \/ BusThread
  BY <1>3, <1>u DEF OneWifi, BusThread, testVars
<1>4. CASE TestThread
  <2>1. CASE StartTest
    <3>1. \A k \in DOMAIN used' : \A p \in Tracked : used'[k][p] = 0
      BY <2>1, UnusedType DEF StartTest
    <3>2. DOMAIN used' = 1 .. Len(plan')
      BY <2>1, PlanType DEF StartTest
    <3>3. StationConfig'
      BY <3>1, UnusedType DEF StationConfig
    <3> QED BY <3>1, <3>2, <3>3 DEF StationInv, UsedInv
  <2>2. CASE ExecuteFails \/ step_timeout \/ Deliver
    <3>1. UNCHANGED <<pc, plan, sent, used, step>>
          /\ (pc = "test" => st' = st \/ st # "results")
      BY <2>2 DEF ExecuteFails, step_timeout, Deliver, Requested
    <3> QED BY <3>1, StationUnchanged DEF StationInv, UsedInv
  <2>3. CASE ExecuteConfig
    BY <2>3, StationExecutesConfig
  <2>4. CASE ExecuteStation
    BY <2>4, StationConnects
  <2>5. CASE NextStep
    <3>1. CASE pc' = "test"
      <4>1. UNCHANGED <<pc, plan, sent, used>> /\ step' = step + 1 /\ pc = "test"
        BY <2>5, <3>1 DEF NextStep
      <4>2. step \in Nat
        BY <4>1, StepNumbers
      <4> QED BY <4>1, <4>2, StationUnchanged DEF StationInv, UsedInv
    <3>2. CASE pc' # "test"
      <4>1. used' = <<>>
        BY <2>5, <3>2 DEF NextStep
      <4> QED BY <3>2, <4>1 DEF StationInv, UsedInv, StationConfig
    <3> QED BY <3>1, <3>2
  <2> QED BY <1>4, <2>1, <2>2, <2>3, <2>4, <2>5 DEF TestThread
<1>5. CASE Finished \/ UNCHANGED vars
  BY <1>5, <1>u DEF Finished, vars, testVars
<1> QED BY <1>1, <1>2, <1>3, <1>4, <1>5 DEF Next

(* decode_step_sta_management_config(): a station connects with what the    *)
(* last step before it has sent for that part, or with something newer,     *)
(* although the steps and the thread of the bus share the cache without a   *)
(* lock, as long as the steps and OneWifi do not configure the same parts   *)
(* and no step gives up while its document is on its way.                   *)
THEOREM StationsAreCurrent ==
  ASSUME OwnKinds, NothingLate
  PROVE  Spec => []StationConfig
<1> DEFINE Inv == /\ WebTypes /\ TestTypes /\ CountInv /\ BoundsInv /\ EmptyInv
                  /\ FlightInv /\ SentInv /\ LandedInv /\ StationInv
<1>1. OwnKinds /\ NothingLate
  OBVIOUS
<1>2. Init => Inv
  <2>1. Init => StationInv
    BY DEF Init, BusInit, StationInv, UsedInv, StationConfig
  <2> QED
    BY <2>1, WebTypesInit, TestTypesInit, CountInit, BoundsInit, FlightInit,
       LandedInit
<1>3. Inv /\ [Next]_vars => Inv'
  <2> SUFFICES ASSUME Inv, [Next]_vars PROVE Inv'
    OBVIOUS
  <2>1. WebTypes' /\ TestTypes'
    BY WebTypesStep, TestTypesStep
  <2>2. CountInv' /\ BoundsInv' /\ EmptyInv'
    BY CountStep, BoundsStep, EmptyStep
  <2>3. FlightInv'
    BY <1>1, FlightStep
  <2>4. SentInv' /\ LandedInv'
    BY <1>1, LandedStep
  <2>5. StationInv'
    BY StationStep
  <2> QED BY <2>1, <2>2, <2>3, <2>4, <2>5
<1>4. Inv => StationConfig
  BY DEF StationInv
<1> HIDE DEF Inv
<1> QED BY <1>2, <1>3, <1>4, PTL DEF Spec
=============================================================================
