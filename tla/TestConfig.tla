----------------------------- MODULE TestConfig -----------------------------
(***************************************************************************)
(* How the user interface manager decodes a test configuration: which      *)
(* class of step an entry becomes, what an entry must hold to be accepted, *)
(* and which test a coverage entry names.                                  *)
(*                                                                         *)
(* An entry is a JSON object.  The objects and lists inside it are         *)
(* flattened: e.json gives the value of every key that is there, at        *)
(* whatever depth it is looked up, and of a list the value that its worst  *)
(* item has.  Of a value the decoders tell apart                           *)
(*                                                                         *)
(*   "absent"  the key is not there                                        *)
(*   "text"    a text that means something to the decoder                  *)
(*   "other"   a text that means nothing to it: no known word, or a number *)
(*             that is out of range                                        *)
(*   "stop"    the word Stop of Operation                                  *)
(*   "empty"   the empty text                                              *)
(*   "number", "beyond"  a number, a number that is out of range           *)
(*   "true", "false", "object", "list"                                     *)
(*                                                                         *)
(* A decoder answers "ok", "err" (RETURN_ERR) or "crash" (it reads through *)
(* a null pointer).                                                        *)
(***************************************************************************)
EXTENDS Integers, Sequences, SequencesExt

Texts == {"text", "other", "stop", "empty"}
Numbers == {"number", "beyond"}
Booleans == {"true", "false"}
Values == {"absent", "object", "list"} \cup Texts \cup Numbers \cup Booleans

Value(e, k) == IF k \in DOMAIN e.json THEN e.json[k] ELSE "absent"
Has(e, k)   == Value(e, k) # "absent"

(* The checks of a decoder run in order and the first that fails decides.  *)
(* (The set makes TLC evaluate the checks once.)                            *)
FirstFailure(checks) ==
  LET failed == {n \in DOMAIN checks : checks[n] # "ok"}
  IN IF failed = {} THEN "ok"
     ELSE checks[CHOOSE n \in failed : \A m \in failed : n <= m]
InOrder(checks) == CHOOSE r \in {FirstFailure(c) : c \in {checks}} : TRUE

Check(holds) == IF holds THEN "ok" ELSE "err"
When(holds, check) == IF holds THEN check ELSE "ok"

(* The macros of wlan_emu_cjson.h. *)
decode_param_string(e, k)  == Check(Value(e, k) \in Texts \ {"empty"})
decode_param_integer(e, k) == Check(Value(e, k) \in Numbers)
decode_param_bool(e, k)    == Check(Value(e, k) \in Booleans)

(* A key that must be there and whose text is compared or converted         *)
(* without a look at its type: of anything but a text valuestring is NULL.  *)
Unchecked(e, k, holds) ==
  CASE ~Has(e, k) -> "err"
    [] Has(e, k) /\ Value(e, k) \notin Texts -> "crash"
    [] OTHER -> Check(holds)

(* atoi() of anything but a numeral is zero, which is in every range. *)
Index(e, k) == Unchecked(e, k, Value(e, k) # "other")

(* A word that a class knows. *)
Word_Bug(e, k) ==
  IF Value(e, k) \notin Texts THEN "crash" ELSE Check(Value(e, k) = "text")
Word(e, k) == Unchecked(e, k, Value(e, k) = "text")

(* update_json_param_string(), update_json_param_integer() *)
IsText(e, k)   == Value(e, k) \in Texts \ {"empty"}
IsNumber(e, k) == Value(e, k) \in Numbers

(* Every item of the list k, if it is there, has a text under the key item. *)
Items(e, k, item) == When(Value(e, k) = "list", decode_param_string(e, item))

(* cJSON_ArrayForEach over the frames of k, each decoded by                 *)
(* decode_pcap_frame_type().                                                *)
FrameTypes(e, k, item) ==
  When(Value(e, k) = "list",
       IF Value(e, item) \in Texts THEN Check(Value(e, item) = "text")
       ELSE "crash")

------------------------------------------------------------------------------
(* iperf options.  An option is "server" (-s), "client" (-c with an address *)
(* that resolves), "serverOnly", "clientOnly" (those that set a flag),      *)
(* "free" (those that do neither) or "invalid".                             *)
Options == {"server", "client", "serverOnly", "clientOnly", "free", "invalid"}
Roles == {"server", "client"}

validate_iperf_optionsLast_Bug(options) ==
  LET role == SelectSeq(options, LAMBDA o : o \in Roles)
  IN /\ "invalid" \notin ToSet(options)
     /\ role # <<>> =>
          \/ Last(role) = "server" /\ "clientOnly" \notin ToSet(options)
          \/ Last(role) = "client" /\ "serverOnly" \notin ToSet(options)

(* One turn of the loop over getopt_long(). *)
Option(a, o) ==
  LET role == IF o \in Roles THEN o ELSE a.role
      flags == a.flags \cup ({o} \cap {"serverOnly", "clientOnly"})
  IN [role |-> role, flags |-> flags,
      ok |-> /\ a.ok
             /\ o # "invalid"
             /\ o \in Roles => a.role \in {"none", o}
             /\ role = "client" => "serverOnly" \notin flags
             /\ role = "server" => "clientOnly" \notin flags]

NoOption == [role |-> "none", flags |-> {}, ok |-> TRUE]
Scan(options) ==
  LET scan[n \in 0 .. Len(options)] ==
        IF n = 0 THEN NoOption ELSE Option(scan[n - 1], options[n])
  IN scan

validate_iperf_options(options) == Scan(options)[Len(options)].ok

------------------------------------------------------------------------------
(* The decoders of the classes of steps, in the order of the source.  Where *)
(* a class takes either a stop or a start, stop tells which it became.      *)
decode_step_common_config(e) ==
  InOrder(<<decode_param_string(e, "StepNumber"),
            When(Value(e, "TestCapture") = "true",
                 FrameTypes(e, "TestCaptureFrame", "FrameType"))>>)

decode_step_packet_generator_config(e) ==
  InOrder(<<Check(Value(e, "VapName") \in Texts),
            decode_param_integer(e, "Interval"),
            decode_param_integer(e, "Iteration"),
            Check(Value(e, "ManagementFrameList") = "list"),
            Items(e, "ManagementFrameList", "PcapLocation")>>)

decode_step_station_management_config(e) ==
  InOrder(<<decode_param_string(e, "StationManagement"),
            When(Value(e, "StationPrototypes") = "true",
                 InOrder(<<FrameTypes(e, "StationPrototypeFrames", "FrameType"),
                           Items(e, "StationPrototypeFrames",
                                 "PcapLocation")>>))>>)

(* The log to follow is a path; "other" is a text without a slash. *)
decode_step_log_redirect(e) ==
  InOrder(<<Check(Value(e, "RedirectLogs") # "other"),
            Check(IsText(e, "RedirectLogs") \/
                  IsText(e, "StopLogStepNumber"))>>)

decode_step_get_pattern_files(e) ==
  InOrder(<<decode_param_string(e, "Location"),
            decode_param_string(e, "FilePattern"),
            decode_param_bool(e, "DeleteFiles")>>)

decode_step_iperf_server(e) ==
  CASE IsNumber(e, "StopServerStepNumber") -> "ok"
    [] ~IsNumber(e, "StopServerStepNumber") ->
         InOrder(<<decode_param_integer(e, "ServerInterfaceStepNumber"),
                   decode_param_string(e, "ServerLogResultName"),
                   decode_param_string(e, "ServerIperfOptions"),
                   Check(validate_iperf_options(e.options))>>)

decode_step_iperf_client(e) ==
  CASE IsNumber(e, "StopClientStepNumber") -> "ok"
    [] ~IsNumber(e, "StopClientStepNumber") ->
         InOrder(<<decode_param_integer(e, "ClientInterfaceStepNumber"),
                   decode_param_integer(e, "ServerStepNumber"),
                   Check(Has(e, "ClientOptions")),
                   decode_param_string(e, "ClientLogResultName"),
                   decode_param_string(e, "ClientIperfOptions"),
                   Check(validate_iperf_options(e.options))>>)

decode_step_configure_eth_client(e) ==
  InOrder(<<Check(Value(e, "ConfigureEthernetClient") = "true"),
            decode_param_integer(e, "TestDuration")>>)

decode_step_configure_upgrade_or_reboot(e) ==
  InOrder(<<decode_param_bool(e, "is_logging_enabled"),
            When(Value(e, "is_logging_enabled") = "true",
                 InOrder(<<Check(Value(e, "logging_step_numbers") = "list"),
                           decode_param_integer(e, "step_numbers")>>))>>)

decode_step_get_file(e) ==
  InOrder(<<decode_param_string(e, "SourceFilename"),
            decode_param_string(e, "ToDestinationFilename"),
            decode_param_bool(e, "DeleteSourceFile")>>)

(* The range of the radio is checked with (x < 0) && (x >= MAX_NUM_RADIOS). *)
decode_step_mgmt_frame_capture(e) ==
  InOrder(<<decode_param_integer(e, "MgmtFrameCaptureRadioIndex"),
            decode_param_integer(e, "Duration")>>)

decode_stats_get_common_params(e) ==
  InOrder(<<IF Has(e, "Operation")
            THEN Check(Value(e, "Operation") \in {"text", "stop"})
            ELSE Unchecked(e, "Duration", TRUE),
            IF Value(e, "Operation") = "stop"
            THEN Unchecked(e, "StopLogStepNumber", TRUE)
            ELSE decode_param_bool(e, "StatResponseType")>>)

(* All five of GetStatsType, and all five of SetStatsType. *)
StatsTypes == {"RadioChannelStats", "NeighborStats", "AssociatedDeviceStats",
               "RadioDiagnosticStats", "RadioTemperatureStats"}
StatsIndex(e) ==
  Index(e, IF e.stats = "AssociatedDeviceStats" THEN "VapIndex"
           ELSE "RadioIndex")

decode_step_stats_get(e) ==
  InOrder(<<StatsIndex(e),
            decode_stats_get_common_params(e),
            When(e.stats \in {"RadioChannelStats", "NeighborStats"},
                 Word(e, "ScanMode"))>>)

decode_stats_set_common_params(e) ==
  InOrder(<<Check(Has(e, "StatsConfiguration")),
            When(Value(e, "StatsConfiguration") = "list",
                 Unchecked(e, "StatsDuration", TRUE)),
            Items(e, "StatsConfiguration", "InputFile")>>)

decode_step_stats_set(e) ==
  InOrder(<<StatsIndex(e), decode_stats_set_common_params(e)>>)

decode_step_gateway_performance(e) ==
  InOrder(<<decode_param_string(e, "PerformanceResultName"),
            decode_param_integer(e, "Interval"),
            decode_param_integer(e, "Iteration"),
            decode_param_string(e, "TopCmdOptions"),
            Word(e, "TopCmdOptions"),
            Items(e, "ProcessNameList", "ProcessName")>>)

------------------------------------------------------------------------------
(* The key that makes an entry a step, in the order they are looked for, and *)
(* the class it stands for (step_param_type_t).                              *)
StepKeys ==
  <<"RadioConfiguration", "VapConfiguration", "StationManagement", "Command",
    "DmlSubDoc", "DmlResetConfiguration", "LogOperation", "GetStatsType",
    "SetStatsType", "GetFile", "MgmtFrameCaptureRadioIndex",
    "GetPatternFiles", "WaitTimeInSeconds", "OneWiFiSubdoc",
    "GatewayPerformance", "PacketGenerator", "IperfServerOptions",
    "IperfClientOptions", "ConfigureEthernetClient", "UpgradeOrReboot">>

ParamTypes ==
  <<"radio", "vap", "station_management", "command", "dml_subdoc",
    "dml_reset", "log_redirection", "stats_get", "stats_set", "get_file",
    "mgmt_frame_capture", "get_pattern_files", "timed_wait",
    "config_onewifi", "gateway_performance", "packet_generator",
    "config_iperf_server", "config_iperf_client", "ethernet_lan_interface",
    "upgrade_or_reboot">>

(* The keys whose own value is all that the decoder of the class reads, and *)
(* DmlSubDoc, of which it reads nothing.                                   *)
decode_step_radio_config(e)     == decode_param_string(e, "RadioConfiguration")
decode_step_vap_config(e)       == decode_param_string(e, "VapConfiguration")
decode_step_command_config(e)   == decode_param_string(e, "Command")
decode_step_dml_reset_config(e) ==
  decode_param_string(e, "DmlResetConfiguration")
decode_step_dmlsubdoc_config(e) == "ok"
decode_step_timed_wait(e)       == decode_param_integer(e, "WaitTimeInSeconds")
decode_step_config_onewifi(e)   == decode_param_string(e, "OneWiFiSubdoc")

DecodeAs(type, e) ==
  CASE type = "radio"               -> decode_step_radio_config(e)
    [] type = "vap"                 -> decode_step_vap_config(e)
    [] type = "station_management"  -> decode_step_station_management_config(e)
    [] type = "command"             -> decode_step_command_config(e)
    [] type = "dml_subdoc"          -> decode_step_dmlsubdoc_config(e)
    [] type = "dml_reset"           -> decode_step_dml_reset_config(e)
    [] type = "log_redirection"     -> decode_step_log_redirect(e)
    [] type = "stats_get"           -> decode_step_stats_get(e)
    [] type = "stats_set"           -> decode_step_stats_set(e)
    [] type = "get_file"            -> decode_step_get_file(e)
    [] type = "mgmt_frame_capture"  -> decode_step_mgmt_frame_capture(e)
    [] type = "get_pattern_files"   -> decode_step_get_pattern_files(e)
    [] type = "timed_wait"          -> decode_step_timed_wait(e)
    [] type = "config_onewifi"      -> decode_step_config_onewifi(e)
    [] type = "gateway_performance" -> decode_step_gateway_performance(e)
    [] type = "packet_generator"    -> decode_step_packet_generator_config(e)
    [] type = "config_iperf_server" -> decode_step_iperf_server(e)
    [] type = "config_iperf_client" -> decode_step_iperf_client(e)
    [] type = "ethernet_lan_interface" -> decode_step_configure_eth_client(e)
    [] type = "upgrade_or_reboot"   ->
         decode_step_configure_upgrade_or_reboot(e)

(* A key makes the entry a step unless it names statistics that the manager *)
(* does not know, whereupon the keys after it are looked for.               *)
StatsKeys == {"GetStatsType", "SetStatsType"}
Selects(e, k) == Has(e, k) /\ (k \in StatsKeys => Value(e, k) # "other")

(* The class of an entry, zero if none of the keys is there. *)
TypeIndex(e) == SelectInSeq(StepKeys, LAMBDA k : Selects(e, k))
ParamType(e) ==
  IF TypeIndex(e) = 0 THEN "none" ELSE ParamTypes[TypeIndex(e)]

decode_step_param_config(e) ==
  IF TypeIndex(e) = 0 THEN "err"
  ELSE InOrder(<<When(StepKeys[TypeIndex(e)] \in StatsKeys,
                      decode_param_string(e, StepKeys[TypeIndex(e)])),
                 DecodeAs(ParamType(e), e)>>)

DecodeStep(e) ==
  InOrder(<<decode_step_param_config(e), decode_step_common_config(e)>>)

(* An entry that became a step which stops an earlier one. *)
IsStop(e) ==
  CASE ParamType(e) = "log_redirection"     -> IsText(e, "StopLogStepNumber")
    [] ParamType(e) = "config_iperf_server" ->
         IsNumber(e, "StopServerStepNumber")
    [] ParamType(e) = "config_iperf_client" ->
         IsNumber(e, "StopClientStepNumber")
    [] ParamType(e) = "stats_get"           -> Value(e, "Operation") = "stop"
    [] OTHER -> FALSE

------------------------------------------------------------------------------
(* A coverage entry names its test by the path of keys that leads to the    *)
(* steps.  At every object the first key that is there is followed.         *)
Names(category) ==
  CASE category = 1 -> <<"Radio", "NetworkServiceConfiguration",
                         "ClientConnection">>
    [] category = 2 -> <<"ConnectionAdmission", "AccessControl",
                         "StatsManager", "SteeringManager", "Optimization",
                         "GreyListing", "ActivePassiveMeasurements", "Whix",
                         "Blaster", "Motion", "FingerPrinting", "TR-181",
                         "Webconfig", "Webpa">>
    [] category = 3 -> <<"StatsGet", "StatsSet">>

Inner(name) ==
  CASE name = "NetworkServiceConfiguration" -> <<"Private", "Public",
                                                 "Managed", "Mesh">>
    [] name = "Public"           -> <<"XfinityOpen", "XfinitySecure">>
    [] name = "Managed"          -> <<"Xhs", "LnfEnterprise", "LnfSecure">>
    [] name = "Mesh"             -> <<"MeshBackhaul", "MeshClient">>
    [] name = "ClientConnection" -> <<"Authentication", "RealClient">>
    [] OTHER -> <<>>

FirstOf(c, names) ==
  LET i == SelectInSeq(names, LAMBDA n : n \in c.keys)
  IN IF i = 0 THEN "none" ELSE names[i]

(* From a name to the name below it; "null" is where the configuration is   *)
(* used although no branch has allocated it.                                *)
Below(c, name) ==
  IF Inner(name) = <<>> THEN name
  ELSE LET n == FirstOf(c, Inner(name))
       IN IF n = "none" /\ name = "ClientConnection" THEN "null" ELSE n

(* The path is at most three keys long. *)
decode_coverage_config(c) ==
  Below(c, Below(c, FirstOf(c, Names(c.category))))
=============================================================================
