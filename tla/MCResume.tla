------------------------------ MODULE MCResume ------------------------------
(***************************************************************************)
(* Test configurations for Resume.  Those of one step are a good entry of  *)
(* every class and all that differ from it in the value of one key; those  *)
(* of several steps are chosen for restarts, logs and files; those without *)
(* a valid path are for the decoders of the coverages.                     *)
(***************************************************************************)
EXTENDS Resume

(* The entry number n whose keys have the values v and no other is there. *)
EntryOf(v, n) ==
  [json |-> v,
   options |-> <<"server", "free">>, stats |-> "RadioChannelStats",
   num |-> n, stop |-> 0, logs |-> {}, at |-> "here", name |-> n]

Some(texts, numbers, truths, lists) ==
  [k \in texts \cup numbers \cup truths \cup lists |->
     IF k \in texts THEN "text" ELSE IF k \in numbers THEN "number"
     ELSE IF k \in truths THEN "true" ELSE "list"]

Text(names) == Some({"StepNumber"} \cup names, {}, {}, {})

(* A good set of keys for every class, for some of them two. *)
Good ==
  {Text({"RadioConfiguration"}), Text({"VapConfiguration"}),
   Text({"Command"}), Text({"DmlSubDoc"}), Text({"DmlResetConfiguration"}),
   Text({"OneWiFiSubdoc"}),
   Some({"StepNumber", "StationManagement", "FrameType", "PcapLocation"}, {},
        {"StationPrototypes", "TestCapture"},
        {"StationPrototypeFrames", "TestCaptureFrame"}),
   Text({"LogOperation", "RedirectLogs"}),
   Some({"StepNumber", "GetStatsType", "RadioIndex", "ScanMode", "Duration"},
        {}, {"StatResponseType"}, {}),
   Some({"StepNumber", "SetStatsType", "RadioIndex", "StatsDuration",
         "InputFile"}, {}, {}, {"StatsConfiguration"}),
   Some({"StepNumber", "SourceFilename", "ToDestinationFilename"}, {},
        {"GetFile", "DeleteSourceFile"}, {}),
   Some({"StepNumber"}, {"MgmtFrameCaptureRadioIndex", "Duration"}, {}, {}),
   Some({"StepNumber", "Location", "FilePattern"}, {},
        {"GetPatternFiles", "DeleteFiles"}, {}),
   Some({"StepNumber"}, {"WaitTimeInSeconds"}, {}, {}),
   Some({"StepNumber", "PerformanceResultName", "TopCmdOptions",
         "ProcessName"}, {"Interval", "Iteration"}, {"GatewayPerformance"},
        {"ProcessNameList"}),
   Some({"StepNumber", "VapName", "PcapLocation"},
        {"Interval", "Iteration"}, {"PacketGenerator"},
        {"ManagementFrameList"}),
   Some({"StepNumber", "ServerLogResultName", "ServerIperfOptions"},
        {"ServerInterfaceStepNumber"}, {"IperfServerOptions"}, {}),
   Some({"StepNumber", "ClientLogResultName", "ClientIperfOptions"},
        {"ClientInterfaceStepNumber", "ServerStepNumber"},
        {"IperfClientOptions"}, {"ClientOptions"}),
   Some({"StepNumber"}, {"TestDuration"}, {"ConfigureEthernetClient"}, {}),
   Some({"StepNumber"}, {"step_numbers"},
        {"UpgradeOrReboot", "is_logging_enabled"}, {"logging_step_numbers"})}

(* Keys whose value is used without a look at its type, once it is there:   *)
(* anything but a text ends the process (README, section 6).                *)
TextOnly == {"RadioIndex", "VapIndex", "ScanMode", "Duration",
             "StatsDuration", "StopLogStepNumber"}
Defects(v, k) ==
  IF k = "FrameType" THEN Texts
  ELSE IF k \in TextOnly /\ v[k] = "text" THEN Texts \cup {"absent"}
  ELSE Values

WithDefects(v) ==
  UNION {{[v EXCEPT ![k] = d] : d \in Defects(v, k)} : k \in DOMAIN v}
OneDefect == UNION {WithDefects(v) : v \in Good}

IperfOptions == UNION {[1 .. n -> Options] : n \in 1 .. 3}
IsIperf(v) == "IperfServerOptions" \in DOMAIN v
IsStats(v) == "GetStatsType" \in DOMAIN v

Case(steps) == [category |-> 1, keys |-> {"Radio"}, named |-> TRUE,
                steps |-> steps]
Plan(steps) == <<Case(steps)>>

Wait(n) == EntryOf(Some({"StepNumber"}, {"WaitTimeInSeconds"}, {}, {}), n)

(* A reboot cannot be the last step (README, section 6). *)
Alone(v) ==
  IF "UpgradeOrReboot" \in DOMAIN v THEN Plan(<<EntryOf(v, 1), Wait(2)>>)
  ELSE Plan(<<EntryOf(v, 1)>>)
OneStep == {Alone(v) : v \in OneDefect}
Iperf ==
  {Plan(<<[EntryOf(v, 1) EXCEPT !.options = o]>>) :
     v \in {g \in Good : IsIperf(g)}, o \in IperfOptions}
OtherStats ==
  {Plan(<<[EntryOf(v, 1) EXCEPT !.stats = t]>>) :
     v \in {g \in Good : IsStats(g)}, t \in StatsTypes}

------------------------------------------------------------------------------
(* Several steps. *)
Radio(n) == EntryOf(Text({"RadioConfiguration"}), n)
Set(n)   == EntryOf(Some({"StepNumber", "SetStatsType", "RadioIndex",
                          "StatsDuration", "InputFile"}, {}, {},
                         {"StatsConfiguration"}), n)
Log(n)   == EntryOf(Text({"LogOperation", "RedirectLogs"}), n)
Stop(n, s) ==
  [EntryOf(Text({"LogOperation", "StopLogStepNumber"}), n) EXCEPT !.stop = s]
Reboot(n, l) ==
  [EntryOf(Some({"StepNumber"}, {"step_numbers"},
                {"UpgradeOrReboot", "is_logging_enabled"},
                {"logging_step_numbers"}), n) EXCEPT !.logs = l]
Upgrade(n) ==
  EntryOf([k \in {"StepNumber", "UpgradeOrReboot", "is_logging_enabled"} |->
             IF k = "is_logging_enabled" THEN "false" ELSE "text"], n)

Several ==
  {Plan(<<Log(1), Wait(2), Reboot(3, {1}), Set(4), Stop(5, 1)>>),
   Plan(<<Log(1), Log(2), Reboot(3, {1, 2}), Wait(4), Stop(5, 1),
          Upgrade(6), Radio(7)>>),
   Plan(<<Radio(1), Reboot(2, {}), Wait(3), Reboot(4, {}), Set(5)>>),
   Plan(<<Log(1), Reboot(3, {1}), Wait(4), Reboot(5, {1}), Stop(7, 1)>>),
   Plan(<<Log(2), Wait(3), Stop(4, 2), Upgrade(5), Wait(8)>>),
   Plan(<<Wait(1), Stop(2, 7), Wait(3)>>),
   Plan(<<Wait(1), Reboot(2, {9}), Wait(3)>>),
   <<Case(<<Radio(1), Set(2)>>), Case(<<Radio(3), Wait(4)>>)>>,
   <<Case(<<Log(1), Stop(2, 1)>>),
     [Case(<<Wait(3)>>) EXCEPT !.named = FALSE], Case(<<Wait(4)>>)>>}

(* Paths of coverage entries, with and without an end. *)
Paths(category) ==
  CASE category = 1 ->
         {{"Radio"}, {"NetworkServiceConfiguration", "Private"},
          {"NetworkServiceConfiguration", "Public", "XfinitySecure"},
          {"NetworkServiceConfiguration", "Public"},
          {"NetworkServiceConfiguration", "Managed", "Xhs"},
          {"NetworkServiceConfiguration", "Mesh", "MeshClient"},
          {"NetworkServiceConfiguration"}, {},
          {"ClientConnection", "RealClient"}}
    [] category = 2 -> {{n} : n \in ToSet(Names(2))} \cup {{}}
    [] category = 3 -> {{"StatsGet"}, {"StatsSet"}, {}}

Coverages ==
  {<<[category |-> p[1], keys |-> p[2], named |-> TRUE,
      steps |-> <<Wait(1)>>]>> :
     p \in UNION {{c} \X Paths(c) : c \in 1 .. 3}}

MCPlans == OneStep \cup Iperf \cup OtherStats \cup Several \cup Coverages

(* The theorems hold for these plans, too. *)
ASSUME PlansAreCovered == OneSource /\ Resumable /\ SelfContained
=============================================================================
