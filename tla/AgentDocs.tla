----------------------------- MODULE AgentDocs -----------------------------
(***************************************************************************)
(* The JSON documents between the gateway and the external agent, as pure  *)
(* functions: the configuration of a step (written by the gateway's steps, *)
(* read by decode_step_param() of the agent), the status (written by the   *)
(* agent's test thread, read by decode_external_agent_test_status()), and  *)
(* the capability of an agent with the discovery that asks for it.         *)
(* ExtTest takes for granted that a document says at the reader what it    *)
(* said at the writer; here that is checked.                               *)
(*                                                                         *)
(* An object is a function from its keys to typed values; an array whose   *)
(* order matters is a sequence.  Texts are abstract: empty, or one that    *)
(* stands for itself; cJSON adds nothing for a null text.                  *)
(***************************************************************************)
EXTENDS Collection, FiniteSets, TLC

Null == "(null)"
Nothing == [key \in {} |-> Null]

Item(key, type, value) == key :> [is |-> type, v |-> value]
AddString(key, text) == IF text = Null THEN Nothing ELSE Item(key, "string", text)
AddNumber(key, number) == Item(key, "number", number)
AddBool(key, bool) == Item(key, "bool", bool)
AddObject(key, object) == Item(key, "object", object)
AddArray(key, array) == Item(key, "array", array)

(* The decode_param_* macros: the key is there with the type that is asked  *)
(* for, and a text is not empty.                                           *)
Typed(doc, key, type) == key \in DOMAIN doc /\ doc[key].is = type
Strings(doc, keys) ==
  \A key \in keys : Typed(doc, key, "string") /\ doc[key].v # ""
Numbers(doc, keys) == \A key \in keys : Typed(doc, key, "number")
Bools(doc, keys) == \A key \in keys : Typed(doc, key, "bool")

------------------------------------------------------------------------------
(* The tables of wlan_common_utils.h, enumeration to text. *)
mfp_config == [disabled |-> "Disabled", optional |-> "Optional",
               required |-> "Required"]
client_model == [iphone |-> "Iphone", pixel |-> "Pixel", android |-> "Android",
                 ios |-> "iOS", windows |-> "Windows"]
secu_mode ==
  [none |-> "None", wep_64 |-> "WEP64", wep_128 |-> "WEP128",
   wpa_personal |-> "WPA-Personal", wpa2_personal |-> "WPA2-Personal",
   wpa_wpa2_personal |-> "WPA-WPA2-Personal",
   wpa_enterprise |-> "WPA-Enterprise", wpa2_enterprise |-> "WPA2-Enterprise",
   wpa_wpa2_enterprise |-> "WPA-WPA2-Enterprise",
   wpa3_personal |-> "WPA3-Personal",
   wpa3_transition |-> "WPA3-Personal-Transition",
   wpa3_enterprise |-> "WPA3-Enterprise", enhanced_open |-> "Enhanced-Open"]
encryption == [none |-> "None", tkip |-> "TKIP", aes |-> "AES",
               aes_tkip |-> "AES+TKIP", aes_gcmp256 |-> "AES+GCMP256",
               gcmp256 |-> "GCMP256"]

get_string(table, enum) == IF enum \in DOMAIN table THEN table[enum] ELSE Null
get_enum(table, text) ==
  IF \E enum \in DOMAIN table : table[enum] = text
  THEN CHOOSE enum \in DOMAIN table : table[enum] = text
  ELSE "-1"

(* The frames of a capture: a bit per operation, and one per message type   *)
(* that has such a bit.  The bits are or-ed, so the order does not matter.  *)
FrameOps ==
  [Beacon |-> "start_ap", ProbeResponse |-> "prb_resp",
   ProbeRequest |-> "prb_req", AssociationResponse |-> "assoc_resp",
   AssociationRequest |-> "assoc_req", Authentication |-> "auth",
   Deauthentication |-> "deauth", Disassociation |-> "disassoc",
   Eapol |-> "eapol", ReassociationRequest |-> "reassoc_req",
   ReassociationResponse |-> "reassoc_resp", Action |-> "action"]
FrameTypes == DOMAIN FrameOps

decode_pcap_frame_type(names) ==
  LET frames == names \ {"Beacon"}
      beacon == names \cap {"Beacon"}
  IN [msg_type |-> {"cfg80211" : name \in beacon} \cup
                   {"frm80211" : name \in frames},
      cfg80211_ops |-> {FrameOps[name] : name \in beacon},
      frm80211_ops |-> {FrameOps[name] : name \in frames}]

encode_pcap_frame_type(request) ==
  {name \in FrameTypes :
     IF name = "Beacon"
     THEN "cfg80211" \in request.msg_type /\
          FrameOps[name] \in request.cfg80211_ops
     ELSE "frm80211" \in request.msg_type /\
          FrameOps[name] \in request.frm80211_ops}

------------------------------------------------------------------------------
(* The gateway writes the configuration of a step. *)
EncodeCommon(step, name) ==
  AddString("SubDocName", name) @@ AddNumber("StepNumber", step.step_number)
  @@ AddBool("Fork", step.fork) @@ AddString("TestCaseID", step.test_case_id)
  @@ AddString("TestCaseName", step.test_case_name)

EncodeSecurity(step) ==
  AddString("SecurityMode", get_string(secu_mode, step.mode))
  @@ AddString("MFPConfig", get_string(mfp_config, step.mfp))
  @@ AddString("EncryptionMethod", get_string(encryption, step.encr))
  @@ AddBool("Wpa3_transition_disabled", step.wpa3_transition_disable)
  @@ AddString("Passphrase", step.key)

EncodeCapture(step) ==
  AddBool("TestCapture", step.capture_frames)
  @@ IF step.capture_frames
     THEN AddArray("TestCaptureFrame",
                   encode_pcap_frame_type(step.frame_request))
     ELSE Nothing

encode_external_sta_management_subdoc(step) ==
  EncodeCommon(step, "ExternalStationManagement")
  @@ AddString("StationType", get_string(client_model, step.sta_type))
  @@ AddString("StationName", step.sta_name)
  @@ AddNumber("TestDuration", step.duration)
  @@ AddString("CustomStationMac", step.custom_mac)
  @@ AddObject("WifiVapConfig",
               AddString("VapName", step.ap_vap_name)
               @@ AddNumber("RadioIndex", step.radio_index)
               @@ AddString("SSID", step.ssid) @@ AddString("BSSID", step.bssid)
               @@ AddObject("Security", EncodeSecurity(step)))
  @@ EncodeCapture(step)
  @@ AddObject("RadioOperatingParams", AddNumber("Channel", step.channel))

encode_external_eth_lan_client_subdoc(step) ==
  EncodeCommon(step, "EthernetLanClient")
  @@ AddString("EthInterfaceName", step.interface_name)
  @@ AddString("EthIpAddress", step.ip_address)
  @@ AddString("EthMacAddress", step.interface_mac)
  @@ AddNumber("Duration", step.duration)

(* The keys of iperf carry the role, "Client" or "Server".  The command is  *)
(* the one of the test case with the addresses appended to it, "long" when  *)
(* the two need more than the 127 characters the agent keeps.              *)
iperf_operation_type_start == 1
iperf_operation_type_stop == 2

IperfKeys ==
  [Client |-> [name |-> "ExternalIperfClient", op |-> "IperfClientOperation",
               cmd |-> "IperfClientCmd", stop |-> "StopClientStepNumber"],
   Server |-> [name |-> "ExternalIperfServer", op |-> "IperfServerOperation",
               cmd |-> "IperfServerCmd", stop |-> "StopServerStepNumber"]]

encode_external_iperf_subdoc(step) ==
  LET keys == IperfKeys[step.role]
  IN EncodeCommon(step, keys.name)
     @@ AddNumber(keys.op, step.input_operation)
     @@ IF step.input_operation = iperf_operation_type_stop
        THEN AddNumber(keys.stop, step.stop_step_number)
        ELSE AddString(keys.cmd, step.cmd_options)
             @@ AddString("InputLogFileName", step.input_filename)
             @@ AddNumber("InterfaceType", step.interface_type)

Encode(step) ==
  CASE step.class = "sta"   -> encode_external_sta_management_subdoc(step)
    [] step.class = "eth"   -> encode_external_eth_lan_client_subdoc(step)
    [] step.class = "iperf" -> encode_external_iperf_subdoc(step)

------------------------------------------------------------------------------
(* The agent reads it.  An answer of 400 is Refused; a document of another  *)
(* name is accepted and leaves the pointer to the step uninitialised.      *)
Refused == [class |-> "refused"]
Garbage == [class |-> "garbage"]
NoFrames == decode_pcap_frame_type({})

copy_cmd(text) == IF text = "long" THEN "cut" ELSE text

DecodeCapture(doc) ==
  IF Bools(doc, {"TestCapture"}) /\ doc["TestCapture"].v
  THEN [capture_frames |-> TRUE,
        frame_request |->
          decode_pcap_frame_type(IF "TestCaptureFrame" \in DOMAIN doc
                                 THEN doc["TestCaptureFrame"].v ELSE {})]
  ELSE [capture_frames |-> FALSE, frame_request |-> NoFrames]

CommonIsValid(doc) ==
  /\ Numbers(doc, {"StepNumber"})
  /\ Strings(doc, {"TestCaseName", "TestCaseID"})
  /\ Bools(doc, {"Fork"})

decode_step_param_common(doc) ==
  [step_number |-> doc["StepNumber"].v, fork |-> doc["Fork"].v,
   test_case_id |-> doc["TestCaseID"].v,
   test_case_name |-> doc["TestCaseName"].v] @@ DecodeCapture(doc)

StaIsValid(doc) ==
  /\ Strings(doc, {"StationType", "StationName", "CustomStationMac"})
  /\ Numbers(doc, {"TestDuration"})
  /\ Typed(doc, "WifiVapConfig", "object")
  /\ LET vap == doc["WifiVapConfig"].v
     IN /\ Strings(vap, {"VapName", "SSID", "BSSID"})
        /\ Numbers(vap, {"RadioIndex"})
        /\ Typed(vap, "Security", "object")
        /\ Strings(vap["Security"].v, {"SecurityMode", "MFPConfig",
                                       "EncryptionMethod", "Passphrase"})
        /\ Bools(vap["Security"].v, {"Wpa3_transition_disabled"})
  /\ Typed(doc, "RadioOperatingParams", "object")
  /\ Numbers(doc["RadioOperatingParams"].v, {"Channel"})

DecodeSta(doc) ==
  LET vap == doc["WifiVapConfig"].v
      sec == vap["Security"].v
  IN [class |-> "sta",
      sta_type |-> get_enum(client_model, doc["StationType"].v),
      sta_name |-> doc["StationName"].v, duration |-> doc["TestDuration"].v,
      custom_mac |-> doc["CustomStationMac"].v,
      ap_vap_name |-> vap["VapName"].v, radio_index |-> vap["RadioIndex"].v,
      ssid |-> vap["SSID"].v, bssid |-> vap["BSSID"].v,
      mode |-> get_enum(secu_mode, sec["SecurityMode"].v),
      mfp |-> get_enum(mfp_config, sec["MFPConfig"].v),
      encr |-> get_enum(encryption, sec["EncryptionMethod"].v),
      wpa3_transition_disable |-> sec["Wpa3_transition_disabled"].v,
      key |-> sec["Passphrase"].v,
      channel |-> doc["RadioOperatingParams"].v["Channel"].v]

EthIsValid(doc) ==
  /\ Strings(doc, {"EthInterfaceName", "EthIpAddress", "EthMacAddress"})
  /\ Numbers(doc, {"Duration"})

DecodeEth(doc) ==
  [class |-> "eth", interface_name |-> doc["EthInterfaceName"].v,
   ip_address |-> doc["EthIpAddress"].v,
   interface_mac |-> doc["EthMacAddress"].v, duration |-> doc["Duration"].v]

IperfIsValid(doc, keys) ==
  /\ Numbers(doc, {keys.op})
  /\ \/ /\ doc[keys.op].v = iperf_operation_type_start
        /\ Strings(doc, {keys.cmd, "InputLogFileName"})
        /\ Numbers(doc, {"InterfaceType"})
     \/ /\ doc[keys.op].v = iperf_operation_type_stop
        /\ Numbers(doc, {keys.stop})

DecodeIperf(doc, role) ==
  LET keys == IperfKeys[role]
  IN [class |-> "iperf", role |-> role, input_operation |-> doc[keys.op].v]
     @@ IF doc[keys.op].v = iperf_operation_type_stop
        THEN [stop_step_number |-> doc[keys.stop].v]
        ELSE [cmd_options |-> copy_cmd(doc[keys.cmd].v),
              input_filename |-> doc["InputLogFileName"].v,
              interface_type |-> doc["InterfaceType"].v]

(* Each class decodes what is common first, then its own part. *)
DecodeClass(doc, valid, own) ==
  IF CommonIsValid(doc) /\ valid THEN decode_step_param_common(doc) @@ own
  ELSE Refused

decode_step_param(doc) ==
  IF ~Strings(doc, {"SubDocName"}) THEN Refused
  ELSE LET name == doc["SubDocName"].v
           iperf(role) == DecodeClass(doc, IperfIsValid(doc, IperfKeys[role]),
                                      DecodeIperf(doc, role))
       IN CASE name = "ExternalStationManagement" ->
                 DecodeClass(doc, StaIsValid(doc), DecodeSta(doc))
            [] name = "ExternalIperfServer" -> iperf("Server")
            [] name = "ExternalIperfClient" -> iperf("Client")
            [] name = "EthernetLanClient" ->
                 DecodeClass(doc, EthIsValid(doc), DecodeEth(doc))
            [] OTHER -> Garbage

------------------------------------------------------------------------------
(* The status.  The states have one table for each direction. *)
agent_state_to_str == [idle |-> "idle", ready |-> "ready",
                       running |-> "running", complete |-> "complete",
                       fail |-> "fail"]
step_state_to_str == [none |-> "none", wait |-> "wait", request |-> "request",
                      start |-> "start", results |-> "results",
                      continue |-> "continue", abort |-> "abort"]

agent_state_as_string(state) ==
  IF state \in DOMAIN agent_state_to_str THEN agent_state_to_str[state]
  ELSE "Unknown"
agent_state_as_enum(text) ==
  IF get_enum(agent_state_to_str, text) = "-1" THEN "invalid"
  ELSE get_enum(agent_state_to_str, text)

step_state_as_string(state) ==
  IF state \in DOMAIN step_state_to_str THEN step_state_to_str[state]
  ELSE "Unknown"
step_state_as_enum(text) ==
  IF get_enum(step_state_to_str, text) = "-1" THEN "none"
  ELSE get_enum(step_state_to_str, text)

(* The result files are listed at every status of a step with results, the  *)
(* private data by stations and Ethernet clients only.                     *)
update_step_status_json_Bug(step) ==
  AddNumber("StepNumber", step.step_number)
  @@ AddString("StepStatus", step_state_as_string(step.state))
  @@ (IF step.private = Nothing THEN Nothing
      ELSE AddObject("StepPrivateData", step.private))
  @@ IF step.result_files # <<>> THEN AddArray("ResultFiles", step.result_files)
     ELSE Nothing

update_step_status_json(step) ==
  AddNumber("StepNumber", step.step_number)
  @@ AddString("StepStatus", step_state_as_string(step.state))
  @@ (IF step.private = Nothing THEN Nothing
      ELSE AddObject("StepPrivateData", step.private))
  @@ IF step.state = "results" THEN AddArray("ResultFiles", step.result_files)
     ELSE Nothing

(* The status the test thread composes once a second. *)
agent_step_status_json(report) ==
  AddString("ExternalAgentHostName", report.name)
  @@ AddNumber("ExternalAgentStepCount", Len(report.steps))
  @@ AddArray("ExternalAgentStepStatus",
              [i \in DOMAIN report.steps |->
                 update_step_status_json(report.steps[i])])
  @@ AddString("ExternalAgentStatus", agent_state_as_string(report.state))

StepStatusIsValid(doc) ==
  /\ Numbers(doc, {"StepNumber"})
  /\ Strings(doc, {"StepStatus"})
  /\ step_state_as_enum(doc["StepStatus"].v) = "results" =>
       Typed(doc, "ResultFiles", "array")

DecodeStepStatus(doc) ==
  LET state == step_state_as_enum(doc["StepStatus"].v)
  IN [step_number |-> doc["StepNumber"].v, state |-> state,
      result_files |-> IF state = "results" THEN doc["ResultFiles"].v ELSE <<>>,
      private |-> IF "StepPrivateData" \in DOMAIN doc
                  THEN doc["StepPrivateData"].v ELSE Nothing]

(* The gateway reads it; before the first status it is an empty text, which *)
(* is no JSON.                                                             *)
NoStatus == [state |-> "undecoded"]

decode_external_agent_test_status(doc) ==
  IF /\ Strings(doc, {"ExternalAgentHostName", "ExternalAgentStatus"})
     /\ Numbers(doc, {"ExternalAgentStepCount"})
     /\ Typed(doc, "ExternalAgentStepStatus", "array")
     /\ \A i \in DOMAIN doc["ExternalAgentStepStatus"].v :
          StepStatusIsValid(doc["ExternalAgentStepStatus"].v[i])
  THEN [name |-> doc["ExternalAgentHostName"].v,
        step_count |-> doc["ExternalAgentStepCount"].v,
        state |-> agent_state_as_enum(doc["ExternalAgentStatus"].v),
        steps |-> [i \in DOMAIN doc["ExternalAgentStepStatus"].v |->
                     DecodeStepStatus(doc["ExternalAgentStepStatus"].v[i])]]
  ELSE NoStatus

------------------------------------------------------------------------------
(* The capability of an agent: its clients, the stations before the        *)
(* Ethernet interfaces, each list in the order of its queue.               *)
interface_type_ethernet == 1
interface_type_wifi == 2

EncodeClient(client, type) ==
  AddString("ExternalClientMAC", client.mac)
  @@ AddString("ExternalClientIntfName", client.name)
  @@ AddNumber("ExternalClientIntType", type)
  @@ IF type = interface_type_ethernet
     THEN AddString("ExternalClientIpAddress", client.ip) ELSE Nothing

EncodeClients_Bug(agent) ==
  [i \in DOMAIN agent.eths |->
     EncodeClient(agent.eths[i], interface_type_ethernet)]
  \o [i \in DOMAIN agent.clients |->
        EncodeClient(agent.clients[i], interface_type_wifi)]

EncodeClients(agent) ==
  [i \in DOMAIN agent.clients |->
     EncodeClient(agent.clients[i], interface_type_wifi)]
  \o [i \in DOMAIN agent.eths |->
        EncodeClient(agent.eths[i], interface_type_ethernet)]

encode_external_agent_capability(agent) ==
  AddString("SubDocName", "Agent Capability")
  @@ AddString("ExternalAgentHostName", agent.name)
  @@ AddNumber("ExternalClientCount", Len(agent.clients))
  @@ AddArray("ExternalClientCapability", EncodeClients(agent))

(* The gateway stops at the first client it cannot read and keeps those     *)
(* before it; each is pushed at the head.                                  *)
ClientIsValid(doc) ==
  /\ Numbers(doc, {"ExternalClientIntType"})
  /\ LET type == doc["ExternalClientIntType"].v
     IN /\ type \in {interface_type_ethernet, interface_type_wifi} =>
             Strings(doc, {"ExternalClientMAC", "ExternalClientIntfName"})
        /\ type = interface_type_ethernet =>
             Strings(doc, {"ExternalClientIpAddress"})

DecodeClient(doc) ==
  [mac |-> doc["ExternalClientMAC"].v, name |-> doc["ExternalClientIntfName"].v,
   ip |-> IF "ExternalClientIpAddress" \in DOMAIN doc
          THEN doc["ExternalClientIpAddress"].v ELSE ""]

Readable(docs) ==
  LET bad == {i \in DOMAIN docs : ~ClientIsValid(docs[i])}
  IN IF bad = {} THEN docs
     ELSE SubSeq(docs, 1, (CHOOSE i \in bad : \A j \in bad : i <= j) - 1)

Decoded(docs, type) ==
  LET own == SelectSeq(Readable(docs),
                       LAMBDA doc : doc["ExternalClientIntType"].v = type)
  IN queue_popped([i \in DOMAIN own |-> DecodeClient(own[i])])

NoClients == [clients |-> <<>>, eths |-> <<>>]

decode_external_agent_capability(doc) ==
  IF /\ Strings(doc, {"SubDocName", "ExternalAgentHostName"})
     /\ Numbers(doc, {"ExternalClientCount"})
     /\ Typed(doc, "ExternalClientCapability", "array")
  THEN LET docs == doc["ExternalClientCapability"].v
       IN [clients |-> Decoded(docs, interface_type_wifi),
           eths |-> Decoded(docs, interface_type_ethernet)]
  ELSE NoClients

------------------------------------------------------------------------------
(* The discovery.  A parameter of the host table is a text, a value of      *)
(* another type, or an error of the bus; hosts that cannot be read are      *)
(* skipped, and whether one is active is asked but not used.               *)
Text(value) == [type |-> "string", v |-> value]
OtherType == [type |-> "other"]
BusError == [type |-> "error"]
AgentNames == {"ots_ext_agent", "ots_ext_agent_2"}

get_external_agent_details(host) ==
  /\ host.Layer1Interface.type = "string"
  /\ host.Active.type # "error"
  /\ host.HostName.type = "string" /\ host.HostName.v \in AgentNames
  /\ host.PhysAddress.type = "string"
  /\ host.IPAddress.type = "string"

get_external_agent_info(hosts) ==
  LET agents == SelectSeq(hosts, LAMBDA host : get_external_agent_details(host)
                                               /\ host.IPAddress.v # "")
  IN queue_popped([i \in DOMAIN agents |->
                     [mac |-> agents[i].PhysAddress.v,
                      ip |-> agents[i].IPAddress.v]])

(* web is what answers at each address.  The text of the answers is not     *)
(* cleared between two agents, and the parser reads its first document.    *)
get_external_agent_capabilities(map, web) ==
  LET answers(i) == {j \in 1 .. i : map[j].ip \in DOMAIN web}
      first(i) == CHOOSE j \in answers(i) : \A k \in answers(i) : j <= k
  IN [i \in DOMAIN map |->
        map[i] @@ IF i \in answers(i)
                  THEN decode_external_agent_capability(web[map[first(i)].ip])
                  ELSE NoClients]

(* The agent that has a client with this address; 0 when there is none. *)
get_ext_agent(agents, mac) ==
  hash_map_find(agents, {agent \in ToSet(agents) :
                           \E client \in ToSet(agent.clients) :
                             client.mac = mac})

------------------------------------------------------------------------------
(* What is written for TLC: a step of each class with every value of each   *)
(* two of its parameters, the enumerations with a value that is not in      *)
(* their table, and every set of frames.                                   *)
Varied(step, values) ==
  UNION {{[[step EXCEPT ![f] = v] EXCEPT ![g] = w] :
            v \in values[f], w \in values[g]} :
         f \in DOMAIN values, g \in DOMAIN values}

Texts == {"", "text"}
CommonStep == [step_number |-> 1, fork |-> FALSE, test_case_id |-> "text",
               test_case_name |-> "text", capture_frames |-> FALSE,
               frame_request |-> NoFrames]
CommonValues == [step_number |-> 0 .. 2, fork |-> BOOLEAN,
                 test_case_id |-> Texts, test_case_name |-> Texts]

StaDefault ==
  [class |-> "sta", sta_type |-> "pixel", sta_name |-> "text", duration |-> 5,
   custom_mac |-> "text", ap_vap_name |-> "text", radio_index |-> 0,
   ssid |-> "text", bssid |-> "text", mode |-> "wpa2_personal",
   mfp |-> "disabled", encr |-> "aes", wpa3_transition_disable |-> FALSE,
   key |-> "text", channel |-> 6] @@ CommonStep
Enums == [sta_type |-> client_model, mode |-> secu_mode, mfp |-> mfp_config,
          encr |-> encryption]
StaTexts == {"sta_name", "ap_vap_name", "ssid", "key"}
StaValues ==
  [f \in DOMAIN Enums |-> DOMAIN Enums[f] \cup {"other"}]
  @@ [f \in StaTexts |-> Texts] @@ CommonValues
  @@ [radio_index |-> {-1, 0, 1}, wpa3_transition_disable |-> BOOLEAN]
StaSteps ==
  Varied(StaDefault, StaValues) \cup
  {[StaDefault EXCEPT !.capture_frames = TRUE,
                      !.frame_request = decode_pcap_frame_type(names)] :
     names \in SUBSET FrameTypes}

EthSteps ==
  Varied([class |-> "eth", interface_name |-> "text", ip_address |-> "text",
          interface_mac |-> "text", duration |-> 5] @@ CommonStep,
         [interface_name |-> Texts, ip_address |-> Texts] @@ CommonValues)

IperfSteps ==
  UNION {Varied([class |-> "iperf", role |-> role,
                 input_operation |-> iperf_operation_type_start,
                 cmd_options |-> "text", input_filename |-> "text",
                 interface_type |-> 1] @@ CommonStep,
                [cmd_options |-> {"text", "long"}, input_filename |-> Texts,
                 interface_type |-> 1 .. 2] @@ CommonValues) \cup
         Varied([class |-> "iperf", role |-> role,
                 input_operation |-> iperf_operation_type_stop,
                 stop_step_number |-> 1] @@ CommonStep,
                [stop_step_number |-> 0 .. 1] @@ CommonValues) :
         role \in DOMAIN IperfKeys}

(* A parameter the agent cannot be told: a text that is empty, or a value   *)
(* of an enumeration that is not in its table.                             *)
Untold(step) ==
  \E f \in DOMAIN step :
    \/ f \in DOMAIN Enums /\ step[f] \notin DOMAIN Enums[f]
    \/ /\ f \in StaTexts \cup {"test_case_id", "test_case_name",
                               "interface_name", "ip_address",
                               "input_filename"}
       /\ step[f] = ""

(* Where a step is told, with the command of iperf cut to what fits. *)
StepArrives(step) ==
  decode_step_param(Encode(step)) =
    IF Untold(step) THEN Refused
    ELSE IF "cmd_options" \in DOMAIN step
    THEN [step EXCEPT !.cmd_options = copy_cmd(@)] ELSE step

StepReports ==
  [step_number : {1}, state : DOMAIN step_state_to_str,
   result_files : {<<>>, <<"a", "b">>},
   private : {Nothing, AddString("InterfaceName", "text")}]
AgentReports ==
  [name : {"ots_ext_agent"}, state : DOMAIN agent_state_to_str,
   steps : {<<>>} \cup [1 .. 2 -> StepReports]]

StatusArrives(report) ==
  decode_external_agent_test_status(agent_step_status_json(report)) =
    [name |-> report.name, step_count |-> Len(report.steps),
     state |-> report.state,
     steps |-> [i \in DOMAIN report.steps |->
                  IF report.steps[i].state = "results" THEN report.steps[i]
                  ELSE [report.steps[i] EXCEPT !.result_files = <<>>]]]

(* What the gateway asks for is what the agent runs: a step arrives with    *)
(* the same class and the same parameters or is refused, and it is refused  *)
(* only when a text is empty (the key of an open network is one) or a       *)
(* security setting is not in the tables; of a command of iperf the agent   *)
(* keeps 127 characters.  And what the agent reports is what the gateway    *)
(* reads: its state, every step in its place with its state and private     *)
(* data, and the files of exactly the steps that have results, also when    *)
(* there are none; before the first report there is no status.             *)
DocumentsAgree ==
  /\ \A step \in StaSteps \cup EthSteps \cup IperfSteps : StepArrives(step)
  /\ \A report \in AgentReports : StatusArrives(report)
  /\ decode_external_agent_test_status(Nothing) = NoStatus

AgentHost ==
  [Layer1Interface |-> Text("Ethernet"), Active |-> OtherType,
   HostName |-> Text("ots_ext_agent"), PhysAddress |-> Text("agent"),
   IPAddress |-> Text("ip")]
Laptop == [AgentHost EXCEPT !.HostName = Text("laptop"),
                            !.PhysAddress = Text("laptop")]
Damaged == {[AgentHost EXCEPT ![f] = answer] :
              f \in DOMAIN AgentHost, answer \in {OtherType, BusError}}
           \cup {[AgentHost EXCEPT !.IPAddress = Text("")]}
HostTables == {<<>>} \cup UNION {{<<h>>, <<h, Laptop>>, <<Laptop, h>>} :
                                   h \in {AgentHost, Laptop} \cup Damaged}
IsAgent(host) ==
  host \in {[AgentHost EXCEPT !.Active = answer] :
              answer \in {Text("true"), OtherType}}

Client(mac, ip) == [mac |-> mac, name |-> "text", ip |-> ip]
Agents ==
  [name : {"ots_ext_agent"},
   clients : {<<>>, <<Client("a", ""), Client("b", "")>>},
   eths : {<<>>} \cup {<<Client("c", ip), Client("d", ip2)>> :
                         ip \in Texts, ip2 \in Texts}]

(* With one agent in the network, wherever the table of the hosts has it    *)
(* and whatever else it has, the gateway knows that agent and no other, has *)
(* all its stations, also when one of its Ethernet interfaces has no        *)
(* address, and finds the agent again by the address of each station.      *)
DiscoveryAgrees ==
  \A hosts \in HostTables, agent \in Agents :
    LET known == get_external_agent_capabilities(
                   get_external_agent_info(hosts),
                   "ip" :> encode_external_agent_capability(agent))
    IN /\ Len(known) = Cardinality({i \in DOMAIN hosts : IsAgent(hosts[i])})
       /\ \A i \in DOMAIN known :
            /\ known[i].mac = "agent"
            /\ ToSet(known[i].clients) = ToSet(agent.clients)
            /\ (\A eth \in ToSet(agent.eths) : eth.ip # "") =>
                 ToSet(known[i].eths) = ToSet(agent.eths)
            /\ \A client \in ToSet(agent.clients) :
                 get_ext_agent(known, client.mac) = i
=============================================================================
