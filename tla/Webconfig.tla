------------------------------ MODULE Webconfig ------------------------------
(***************************************************************************)
(* The configuration of the gateway as the tests see it: OneWifi publishes  *)
(* documents, the thread of the bus decodes them into the cache of the user *)
(* interface manager and then writes a message to the device of the        *)
(* emulator; the steps that configure radios and networks wait for that    *)
(* message, and the steps that connect stations read the cache.            *)
(*                                                                         *)
(* A configuration is a number, larger when it is newer; Overridden is what *)
(* a station step writes into the cache for itself.                        *)
(***************************************************************************)
EXTENDS Bus

CONSTANTS
  Plans,       \* test cases: sequences of kinds of steps
  OwnChanges,  \* kinds of documents OneWifi publishes of its own accord
  Start,       \* the element that starts a test
  Time,        \* bound: the seconds a step waits for its document
  MaxCases,    \* bound: test cases
  MaxChanges   \* bound: configurations before OneWifi makes none of its own

VARIABLES
  onewifi,  \* the configuration of the gateway, part by part
  newest,   \* history: the newest configuration anybody has made
  south,    \* documents on their way to OneWifi
  north,    \* documents on their way to the process
  thread,   \* the thread of the bus, with the document it works on
  ready,    \* webconfig_init() was called
  got,      \* the document that bus_init() asked for
  cache,    \* m_webconfig_data, part by part
  acl,      \* the maps of filtered addresses that the cache points to
  dev,      \* messages in the device
  missed,   \* history: a document was forgotten
  plan, step, st, cnt,
  sent,     \* history: the configuration each step sent
  used,     \* history: the configuration each step connected with
  cases

gatewayVars == <<onewifi, newest, south, north>>
cacheVars   == <<thread, ready, got, cache, acl, dev, missed>>
testVars    == <<plan, step, st, cnt, sent, used, cases>>
vars == <<pc, tried, treeVars, faults, gatewayVars, cacheVars, testVars>>

------------------------------------------------------------------------------
(* The parts of the configuration.  A network has a common part and its     *)
(* security, which a station step may override one without the other.      *)
Vaps  == {"private", "mesh"}
Parts == {"radio", "global"} \cup Vaps \cup {"private_security"}

(* The parts that a document brings. *)
Covers(kind) ==
  CASE kind = "dml"     -> Parts
    [] kind = "private" -> {"private", "private_security"}
    [] OTHER            -> {IF kind = "wifi_config" THEN "global" ELSE kind}

Configs == {"radio", "private", "mesh"}
Stations == {"station", "station_override"}
Overridden == MaxChanges + MaxCases * Max({Len(p) : p \in Plans}) + 1
Nothing == [p \in Parts |-> 0]

ASSUME WebconfigAssumption ==
  /\ Len(Events) \in Nat \ {0}
  /\ OwnChanges \subseteq {"dml", "wifi_config", "radio"} \cup Vaps
  /\ Plans \subseteq Seq(Configs \cup Stations)
  /\ \E longest \in Plans : \A p \in Plans : Len(p) <= Len(longest)
  /\ \A p \in Plans : Len(p) > 0
  /\ MaxCases \in Nat /\ MaxChanges \in Nat \ {0}

Idle == [phase |-> "idle"]

Init ==
  /\ BusInit
  /\ onewifi = [p \in Parts |-> 1]
  /\ newest = 1
  /\ south = <<>> /\ north = <<>>
  /\ thread = Idle
  /\ ready = FALSE /\ got = Nothing
  /\ cache = Nothing
  /\ acl = [v \in Vaps |-> "none"]
  /\ dev = <<>> /\ missed = FALSE
  /\ plan = <<>> /\ step = 0 /\ st = "none" /\ cnt = 0
  /\ sent = <<>> /\ used = <<>>
  /\ cases = 0

------------------------------------------------------------------------------
(* OneWifi.                                                                *)
With(kind, n) == [p \in Parts |-> IF p \in Covers(kind) THEN n ELSE onewifi[p]]

(* rbus delivers nothing before the subscription. *)
Publishes(kind, config) ==
  /\ onewifi' = config
  /\ north' = IF Events[1] \in listening
              THEN Append(north, [kind |-> kind, config |-> config]) ELSE north

Applies ==
  /\ south # <<>>
  /\ Publishes(Head(south).kind, With(Head(south).kind, Head(south).config))
  /\ south' = Tail(south)
  /\ UNCHANGED <<newest, faults>>

Rejects ==
  /\ south # <<>>
  /\ May("reject")
  /\ south' = Tail(south)
  /\ UNCHANGED <<onewifi, newest, north>>

Changes(kind) ==
  /\ newest < MaxChanges
  /\ pc \in {"idle", "test"} \/ "early" \in Faults
  /\ newest' = newest + 1
  /\ Publishes(kind, With(kind, newest'))
  /\ UNCHANGED <<south, faults>>

OneWifi ==
  /\ Applies \/ Rejects \/ \E kind \in OwnChanges : Changes(kind)
  /\ UNCHANGED <<pc, tried, treeVars, cacheVars, testVars>>

------------------------------------------------------------------------------
(* wlan_emu_ui_mgr_t::bus_init() after the subscriptions.  Its result is    *)
(* ignored: the process runs with whatever cache it has.                    *)
GivesUp(fault) ==
  /\ May(fault)
  /\ pc' = "idle"
  /\ UNCHANGED cacheVars

GetInit ==
  /\ pc = "get"
  /\ \/ /\ got' = onewifi
        /\ pc' = "init"
        /\ UNCHANGED <<thread, ready, cache, acl, dev, missed, faults>>
     \/ GivesUp("get")

webconfig_init ==
  /\ pc = "init"
  /\ \/ /\ ready' = TRUE
        /\ acl' = [v \in Vaps |-> "none"]
        /\ pc' = "store"
        /\ UNCHANGED <<thread, got, cache, dev, missed, faults>>
     \/ GivesUp("init")

Store ==
  /\ pc = "store"
  /\ \/ /\ cache' = got
        /\ acl' = [v \in Vaps |-> "live"]
        /\ got' = Nothing
        /\ pc' = "idle"
        /\ UNCHANGED <<thread, ready, dev, missed, faults>>
     \/ GivesUp("store")

bus_init ==
  /\ GetInit \/ webconfig_init \/ Store
  /\ UNCHANGED <<tried, treeVars, gatewayVars, testVars>>

------------------------------------------------------------------------------
(* The thread of the bus: set_webconfig_cci_data().  The loops over the     *)
(* radios copy nothing while the cache has no number of radios; a dml       *)
(* document brings the number itself.                                       *)
update_cci_subdoc_vap_data(kind) ==
  IF kind = "private" THEN {"private", "private_security"}
  ELSE Vaps \cap {kind}

(* A cache that misses a part of the document of everything. *)
Copied_Bug(kind) ==
  IF kind = "dml" THEN {"radio"} \cup Vaps \cup {"private_security"}
  ELSE IF kind = "wifi_config" THEN {"global"}
  ELSE IF cache["radio"] = 0 THEN {}
  ELSE IF kind = "radio" THEN {"radio"}
  ELSE update_cci_subdoc_vap_data(kind)

Copied(kind) ==
  IF kind = "dml" THEN Parts
  ELSE IF kind = "wifi_config" THEN {"global"}
  ELSE IF cache["radio"] = 0 THEN {}
  ELSE IF kind = "radio" THEN {"radio"}
  ELSE update_cci_subdoc_vap_data(kind)

(* A document that is no string or cannot be decoded is forgotten. *)
Decodes ==
  /\ thread = Idle /\ north # <<>>
  /\ north' = Tail(north)
  /\ \/ /\ ready
        /\ thread' = [phase  |-> "free", kind |-> Head(north).kind,
                      config |-> Head(north).config,
                      todo   |-> Copied(Head(north).kind)]
        /\ UNCHANGED <<missed, faults>>
     \/ /\ \/ ~ready /\ UNCHANGED faults
           \/ May("decode")
        /\ missed' = TRUE
        /\ UNCHANGED thread
  /\ UNCHANGED <<cache, acl, dev>>

(* mac_filter_cci_vap_cache_update() and mac_filter_cci_cache_update(): the *)
(* documents that bring maps of addresses free those of the cache first.    *)
Replaced == Vaps \cap thread.todo \cap (IF thread.kind = "dml" THEN Vaps
                                        ELSE {"mesh"})
Frees ==
  /\ thread.phase = "free"
  /\ acl' = [v \in Vaps |->
               IF v \in Replaced /\ acl[v] # "none" THEN "freed" ELSE acl[v]]
  /\ thread' = [thread EXCEPT !.phase = "copy"]
  /\ UNCHANGED <<north, cache, dev, missed, faults>>

(* A copy that keeps the map that was freed. *)
cci_cache_update_Bug ==
  /\ thread.phase = "copy"
  /\ \E p \in thread.todo :
       /\ cache' = [cache EXCEPT ![p] = thread.config[p]]
       /\ thread' = [thread EXCEPT !.todo = @ \ {p}]
  /\ UNCHANGED <<north, acl, dev, missed, faults>>

(* The copies are made without a lock, in an order that the compiler        *)
(* chooses, while the test thread may read.                                 *)
cci_cache_update ==
  /\ thread.phase = "copy"
  /\ \E p \in thread.todo :
       /\ cache' = [cache EXCEPT ![p] = thread.config[p]]
       /\ acl' = IF p \in Replaced THEN [acl EXCEPT ![p] = "live"] ELSE acl
       /\ thread' = [thread EXCEPT !.todo = @ \ {p}]
  /\ UNCHANGED <<north, dev, missed, faults>>

send_webconfig_ctrl_msg ==
  /\ thread.phase = "copy" /\ thread.todo = {}
  /\ thread' = Idle
  /\ \/ dev' = Append(dev, thread.kind) /\ UNCHANGED faults
     \/ May("write") /\ UNCHANGED dev
  /\ UNCHANGED <<north, cache, acl, missed>>

BusThread ==
  /\ pc # "crashed"
  /\ Decodes \/ Frees \/ cci_cache_update \/ send_webconfig_ctrl_msg
  /\ UNCHANGED <<pc, tried, treeVars, onewifi, newest, south, ready, got, testVars>>

------------------------------------------------------------------------------
(* The test thread.  A test can be asked for over the bus only.            *)
Unused == [p \in {"radio", "private", "private_security"} |-> 0]

Asked == Start \in known /\ get_bus_cb_data_info(handlers, Start) # NoData

StartTest ==
  /\ pc = "idle" /\ cases < MaxCases
  /\ Asked
  /\ pc' = "test"
  /\ cases' = cases + 1
  /\ plan' \in Plans
  /\ step' = 1 /\ st' = "request" /\ cnt' = 0
  /\ sent' = [k \in DOMAIN plan' |-> 0]
  /\ used' = [k \in DOMAIN plan' |-> Unused]
  /\ UNCHANGED <<faults, gatewayVars, cacheVars>>

Requested == pc = "test" /\ st = "request"

(* The file cannot be read, or bus_send() fails. *)
ExecuteFails ==
  /\ Requested
  /\ \/ May("file")
     \/ plan[step] \in Configs /\ May("send")
  /\ st' = "abort"
  /\ UNCHANGED <<pc, gatewayVars, cacheVars, plan, step, cnt, sent, used, cases>>

(* test_step_param_radio and test_step_param_vap. *)
ExecuteConfig ==
  /\ Requested /\ plan[step] \in Configs
  /\ newest' = newest + 1
  /\ south' = Append(south, [kind |-> plan[step], config |-> newest'])
  /\ sent' = [sent EXCEPT ![step] = newest']
  /\ st' = "continue"
  /\ UNCHANGED <<pc, faults, onewifi, north, cacheVars, plan, step, cnt, used,
                 cases>>

(* The two decoders write each value as they come to it, and stop at the     *)
(* first one that is not allowed.                                          *)
update_vap_common_object ==
  {[ok |-> o, writes |-> {"private"}] : o \in BOOLEAN}
RefusedSecurity == [ok : {FALSE}, writes : {{}, {"private_security"}}]
update_vap_security_object ==
  RefusedSecurity \cup [ok : {TRUE}, writes : {{"private_security"}}]

(* decode_user_ap_config() lets them write into the cache itself.          *)
decode_user_ap_config ==
  IF plan[step] # "station_override" THEN {{}}
  ELSE {common.writes \cup (IF common.ok THEN security.writes ELSE {}) :
          common \in update_vap_common_object,
          security \in update_vap_security_object}

(* What the station takes over from the network and its radio.             *)
update_sta_config(config) == [p \in DOMAIN Unused |-> config[p]]

(* Without radios no name of a network is known. *)
get_cci_vap_info == cache["radio"] # 0

(* decode_step_sta_management_config(): nobody looks at the result of the   *)
(* decoders, and a network that is not found is a null pointer.            *)
ExecuteStation ==
  /\ Requested /\ plan[step] \in Stations
  /\ \/ /\ get_cci_vap_info
        /\ \E parts \in decode_user_ap_config :
             cache' = [p \in Parts |->
                         IF p \in parts THEN Overridden ELSE cache[p]]
        /\ used' = [used EXCEPT ![step] = update_sta_config(cache')]
        /\ st' = "results"
        /\ UNCHANGED pc
     \/ /\ ~get_cci_vap_info
        /\ pc' = "crashed"
        /\ UNCHANGED <<cache, used, st>>
  /\ UNCHANGED <<faults, gatewayVars, thread, ready, got, acl, dev, missed, plan,
                 step, cnt, sent, cases>>

(* A filter that takes the document of another step. *)
Deliver_Bug ==
  /\ pc # "crashed" /\ dev # <<>>
  /\ dev' = Tail(dev)
  /\ st' = IF pc = "test" /\ st = "continue" /\ ready THEN "results" ELSE st
  /\ UNCHANGED <<pc, faults, gatewayVars, thread, ready, got, cache, acl, missed,
                 plan, step, cnt, sent, used, cases>>

(* step_frame_filter(): only the kind of the document is compared, and it   *)
(* is known only when the decoders are.  Without a test a message is lost.  *)
Deliver ==
  /\ pc # "crashed" /\ dev # <<>>
  /\ dev' = Tail(dev)
  /\ st' = IF pc = "test" /\ st = "continue" /\ ready /\ Head(dev) = plan[step]
           THEN "results" ELSE st
  /\ UNCHANGED <<pc, faults, gatewayVars, thread, ready, got, cache, acl, missed,
                 plan, step, cnt, sent, used, cases>>

Quiet == south = <<>> /\ north = <<>> /\ thread = Idle /\ dev = <<>>

(* The time-outs are long enough for OneWifi and the device, or not. *)
step_timeout ==
  /\ pc = "test" /\ st = "continue"
  /\ Quiet \/ "late" \in Faults
  /\ cnt' = cnt + 1
  /\ st' = IF cnt' < Time THEN "continue" ELSE "abort"
  /\ UNCHANGED <<pc, faults, gatewayVars, cacheVars, plan, step, sent, used,
                 cases>>

NextStep ==
  /\ pc = "test" /\ st \in {"results", "abort"}
  /\ IF st = "results" /\ step < Len(plan)
     THEN step' = step + 1 /\ st' = "request" /\ UNCHANGED <<pc, plan, sent, used>>
     ELSE /\ pc' = "idle" /\ step' = 0 /\ st' = "none"
          /\ plan' = <<>> /\ sent' = <<>> /\ used' = <<>>
  /\ cnt' = 0
  /\ UNCHANGED <<faults, gatewayVars, cacheVars, cases>>

TestThread ==
  /\ \/ StartTest \/ ExecuteFails \/ ExecuteConfig \/ ExecuteStation
     \/ Deliver \/ step_timeout \/ NextStep
  /\ UNCHANGED <<tried, treeVars>>

(* Nobody can or will start another test. *)
Finished ==
  /\ \/ pc = "crashed"
     \/ pc = "idle" /\ Quiet /\ (cases = MaxCases \/ ~Asked)
  /\ UNCHANGED vars

Next ==
  \/ BusStart /\ UNCHANGED <<gatewayVars, cacheVars, testVars>>
  \/ bus_init \/ OneWifi \/ BusThread \/ TestThread \/ Finished

Spec == Init /\ [][Next]_vars

------------------------------------------------------------------------------
(* When no document is on its way, the cache is the configuration of the    *)
(* gateway, but for what a station step has written over it, unless a       *)
(* document could not be decoded.                                           *)
CacheIsCurrent ==
  /\ pc \in {"idle", "test"}
  /\ cache["radio"] # 0 /\ ~missed
  /\ north = <<>> /\ thread = Idle
  => \A p \in Parts : cache[p] \in {onewifi[p], Overridden}

(* A station connects with a configuration that is not older than the last  *)
(* one that an earlier step of the same test has sent for that part, unless *)
(* a station step in between has overridden it.                             *)
Writers(kind) ==
  IF kind \in Configs THEN Covers(kind) \cap DOMAIN Unused
  ELSE IF kind = "station_override" THEN {"private", "private_security"} ELSE {}

StationConfig ==
  \A k \in DOMAIN used : \A p \in DOMAIN Unused :
    LET earlier == {j \in 1 .. k - 1 : p \in Writers(plan[j])}
        last    == Max(earlier)
    IN  /\ used[k][p] # 0
        /\ plan[k] = "station"
        /\ earlier # {}
        /\ plan[last] \in Configs
        => used[k][p] \in sent[last] .. Overridden - 1

(* The cache never keeps a map of addresses that was freed, once the thread *)
(* has finished its document.                                               *)
AclOwned == thread = Idle => \A v \in Vaps : acl[v] # "freed"
=============================================================================
