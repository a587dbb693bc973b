------------------------------- MODULE Resume -------------------------------
(***************************************************************************)
(* A test configuration from its download to the report: it is decoded     *)
(* (TestConfig), the files its steps name are fetched, its steps run, and  *)
(* a step of class upgrade_or_reboot saves how far the test has come,      *)
(* restarts the device, and lets the next process go on from there.        *)
(*                                                                         *)
(* All of it is the work of one thread at a time: the main thread up to    *)
(* start_test(), then the thread of the test, for which the main thread    *)
(* waits.  Steps run one after the other; forked steps, signals and the    *)
(* reports are the subject of StepEngine and CciControl.                   *)
(***************************************************************************)
EXTENDS TestConfig, FiniteSets

CONSTANTS
  Plans,        \* configurations the controller may hand out
  Faults,       \* what may fail besides, of FaultKinds
  MaxRequests,  \* bound: requests for the configuration
  MaxFaults,    \* bound: failures
  MaxBoots      \* bound: restarts

(* The configuration, a file, a step or a pause; "resume" is the            *)
(* configuration of a request that is resumed.                              *)
FaultKinds == {"config", "resume", "file", "step", "pause"}

(* A plan is a sequence of cases, and a case has a sequence of steps. *)
ASSUME PlansAssumption ==
  \A p \in Plans :
    /\ p \in Seq(ToSet(p))
    /\ \A c \in 1 .. Len(p) :
         /\ p[c].steps \in Seq(ToSet(p[c].steps))
         /\ \A e \in ToSet(p[c].steps) :
              e.num \in Nat /\ e.options \in Seq(Options)

ASSUME ResumeAssumption ==
  /\ Faults \subseteq FaultKinds
  /\ MaxRequests \in Nat \ {0}
  /\ MaxFaults \in Nat
  /\ MaxBoots \in Nat

(* A configuration is a sequence of coverage entries, each with the numbers *)
(* of category, the keys of its path, whether it has a TestCaseId, and the  *)
(* entries of its steps.  Of a step num is the number in StepNumber, stop   *)
(* the number in StopLogStepNumber, logs the logging_step_numbers, and at   *)
(* and name are the directory and the base name of the file it names.       *)

VARIABLES
  plan,      \* the configuration on the server
  pc,        \* "wait", "request", "fetch", "run", "end", "down" or "crashed"
  queue,     \* test_cov_cases_q from its head, each case the set of its steps,
             \* which are in the order of the configuration
  last,      \* last_executed_step_num
  paused,    \* paused_logging_steps
  saved,     \* CCI_TEST_REBOOT_STEP_CONFIG_JSON, NoFile if it is not there
  disk,      \* the files fetched: the base names, each with its directory
  case, i,   \* the case that runs, and the place from which its steps are left
  logs,      \* the numbers of the steps whose log is being followed
  resumed,   \* the request goes on with an earlier process's
  runs,      \* history: how often each entry was executed in this request
  ran,       \* history: numbers of the steps this process has executed
  listed,    \* history: numbers that a pause has listed in this request
  verdict,   \* history: the last report
  requests, faults, boots

decodeVars == <<queue, last, paused>>
fileVars == <<saved, disk>>
runVars == <<case, i, logs>>
historyVars == <<runs, ran, listed, verdict>>
boundVars == <<requests, faults, boots>>
vars == <<plan, pc, decodeVars, fileVars, runVars, resumed, historyVars,
          boundVars>>

NoFile == [last |-> 0, logs |-> {}]

(* The entries of a plan, as pairs of the case and the place in it. *)
Entries(p) == UNION {{c} \X (1 .. Len(p[c].steps)) : c \in 1 .. Len(p)}
Entry(x) == plan[x[1]].steps[x[2]]
NotRun(p) == [x \in Entries(p) |-> 0]

Init ==
  /\ plan \in Plans
  /\ pc = "wait"
  /\ queue = <<>>
  /\ last = 0
  /\ paused = {}
  /\ saved = NoFile
  /\ disk = {}
  /\ case = 1 /\ i = 1
  /\ logs = {}
  /\ resumed = FALSE
  /\ runs = NotRun(plan)
  /\ ran = {} /\ listed = {}
  /\ verdict = "none"
  /\ requests = 0 /\ faults = 0 /\ boots = 0

Fails(kind) ==
  /\ kind \in Faults
  /\ faults < MaxFaults
  /\ faults' = faults + 1

------------------------------------------------------------------------------
(* The controller asks for its configuration to be run, once more. *)
Request ==
  /\ pc = "wait"
  /\ requests < MaxRequests
  /\ requests' = requests + 1
  /\ resumed' = FALSE
  /\ runs' = NotRun(plan)
  /\ ran' = {} /\ listed' = {}
  /\ verdict' = "none"
  /\ case' = 1 /\ i' = 1
  /\ pc' = "request"
  /\ UNCHANGED <<plan, decodeVars, fileVars, logs, faults, boots>>

(* check_reboot_step_config(): a step that the processes before this one    *)
(* have come past is skipped, unless its log was paused.                    *)
check_reboot_step_configPaused_Bug(l, e) ==
  /\ decode_param_string(e, "StepNumber") = "ok"
  /\ e.num # 0
  /\ e.num > l
check_reboot_step_config_Bug(l, e) ==
  /\ decode_param_string(e, "StepNumber") = "ok"
  /\ e.num # 0
  /\ e.num >= l \/ e.num \in paused
check_reboot_step_config(l, e) ==
  /\ decode_param_string(e, "StepNumber") = "ok"
  /\ e.num # 0
  /\ e.num > l \/ e.num \in paused

(* The entries of case c that decode_step_config() does not skip. *)
Kept(l, c) ==
  {x \in {c} \X (1 .. Len(plan[c].steps)) :
     l = 0 \/ check_reboot_step_config(l, Entry(x))}

(* The first that is not accepted decides. *)
DecodeSteps(kept) ==
  LET refused == {x \in kept : DecodeStep(Entry(x)) # "ok"}
      first == {x \in refused : \A y \in refused : x[2] <= y[2]}
  IN IF first = {} THEN "ok"
     ELSE CHOOSE r \in {DecodeStep(Entry(x)) : x \in first} : TRUE

(* decode_coverage_1_config() and its siblings, of case c: the test it      *)
(* names, its steps, its TestCaseId.  "null" is decoded without any steps   *)
(* and crashes when the TestCaseId is to be stored.                         *)
DecodeCase(l, c) ==
  CASE decode_coverage_config(plan[c]) = "none" -> "err"
    [] decode_coverage_config(plan[c]) = "null" -> "crash"
    [] OTHER -> InOrder(<<DecodeSteps(Kept(l, c)), Check(plan[c].named)>>)

(* The number is forgotten when the steps of a case have been decoded. *)
LastAfter_Bug(l, c) == l
LastAfter(l, c) ==
  IF decode_coverage_config(plan[c]) \notin {"none", "null"} /\
     DecodeSteps(Kept(l, c)) = "ok"
  THEN 0 ELSE l

(* One turn of the loop of decode_json_config(): an accepted case goes to   *)
(* the head of the queue.                                                   *)
Decode ==
  /\ pc = "request"
  /\ case <= Len(plan)
  /\ DecodeCase(last, case) = "ok"
  /\ queue' = <<Kept(last, case)>> \o queue
  /\ last' = LastAfter(last, case)
  /\ case' = case + 1
  /\ UNCHANGED <<plan, pc, paused, fileVars, i, logs, resumed, historyVars,
                 boundVars>>

(* The first that is not accepted ends the loop; the cases before it stay   *)
(* in the queue.                                                            *)
DecodeFails ==
  /\ pc = "request"
  /\ case <= Len(plan)
  /\ \E r \in {DecodeCase(last, case)} \ {"ok"} :
       IF r = "crash" THEN pc' = "crashed" /\ UNCHANGED verdict
       ELSE pc' = "end" /\ verdict' = "failure"
  /\ last' = LastAfter(last, case)
  /\ UNCHANGED <<plan, queue, paused, fileVars, runVars, resumed, runs, ran,
                 listed, boundVars>>

Decoded ==
  /\ pc = "request"
  /\ case > Len(plan)
  /\ pc' = "fetch"
  /\ UNCHANGED <<plan, decodeVars, fileVars, runVars, resumed, historyVars,
                 boundVars>>

(* The configuration itself cannot be fetched: nothing is decoded. *)
ConfigMissing ==
  /\ pc = "request"
  /\ case = 1 /\ queue = <<>>
  /\ Fails(IF last = 0 THEN "config" ELSE "resume")
  /\ pc' = "end"
  /\ verdict' = "failure"
  /\ UNCHANGED <<plan, decodeVars, fileVars, runVars, resumed, runs, ran,
                 listed, requests, boots>>

------------------------------------------------------------------------------
(* download_step_param_config(): the classes whose file is fetched. *)
FetchedTypes_Bug ==
  {"radio", "vap", "dml_reset", "station_management", "config_onewifi",
   "packet_generator"}
FetchedTypes ==
  {"radio", "vap", "dml_reset", "station_management", "stats_set",
   "config_onewifi", "packet_generator"}

HasFile(x) == ParamType(Entry(x)) \in FetchedTypes

(* download_test_files(): the cases from the head of the queue, in each the *)
(* steps from the head of theirs; both heads are the last of the            *)
(* configuration.  A case without steps ends it.                            *)
Reached == {c \in 1 .. Len(queue) : \A d \in 1 .. c : queue[d] # {}}
NothingToRun == queue = <<>> \/ Reached # 1 .. Len(queue)
Fetched == {x \in UNION {queue[c] : c \in Reached} : HasFile(x)}
FetchedAfter(y, x) == y[1] < x[1] \/ (y[1] = x[1] /\ y[2] < x[2])

(* download_file() stores a file under its base name, whatever directory it *)
(* comes from: of two files of one name the later stays.                    *)
Replaces(y, x) == Entry(y).name = Entry(x).name /\ FetchedAfter(y, x)
Stored(steps) ==
  {f \in disk : \A x \in steps : f[1] # Entry(x).name} \cup
  {<<Entry(x).name, Entry(x).at>> :
     x \in {x \in steps : \A y \in steps : ~Replaces(y, x)}}

Fetch ==
  /\ pc = "fetch"
  /\ ~NothingToRun
  /\ disk' = Stored(Fetched)
  /\ case' = 1 /\ i' = 1
  /\ logs' = {}
  /\ pc' = "run"
  /\ UNCHANGED <<plan, decodeVars, saved, resumed, historyVars, boundVars>>

FetchFails ==
  /\ pc = "fetch"
  /\ \/ NothingToRun /\ disk' = Stored(Fetched) /\ UNCHANGED faults
     \/ /\ Fails("file")
        /\ \E x \in Fetched :
             disk' = Stored({y \in Fetched : FetchedAfter(x, y)})
  /\ pc' = "end"
  /\ verdict' = "failure"
  /\ UNCHANGED <<plan, decodeVars, saved, runVars, resumed, runs, ran,
                 listed, requests, boots>>

------------------------------------------------------------------------------
(* start_test(): the cases from the head of the queue, in each the steps in *)
(* the order of the configuration.                                          *)
(* The step whose turn it is. *)
Left == {x \in queue[case] : i <= x[2]}
Turn ==
  IF pc = "run" /\ case <= Len(queue)
  THEN {x \in Left : \A y \in Left : x[2] <= y[2]} ELSE {}

StepNumbers(c) == {Entry(x).num : x \in queue[c]}

Executed(x) ==
  /\ runs' = [runs EXCEPT ![x] = @ + 1]
  /\ ran' = ran \cup {Entry(x).num}

NextStep(x) ==
  IF \E y \in queue[case] : x[2] < y[2]
  THEN case' = case /\ i' = x[2] + 1
  ELSE case' = case + 1 /\ i' = 1

(* The step has results. *)
Passes(x, after) ==
  /\ Executed(x)
  /\ NextStep(x)
  /\ logs' = after
  /\ UNCHANGED <<plan, pc, decodeVars, fileVars, resumed, listed, verdict,
                 boundVars>>

(* The step aborts, and the test with it. *)
Aborts(x) ==
  /\ Executed(x)
  /\ pc' = "end"
  /\ verdict' = "failure"
  /\ UNCHANGED <<plan, decodeVars, fileVars, runVars, resumed, listed,
                 requests, boots>>

IsReboot(x) == ParamType(Entry(x)) = "upgrade_or_reboot"
IsLogStop(x) == ParamType(Entry(x)) = "log_redirection" /\ IsStop(Entry(x))
IsLogStart(x) == ParamType(Entry(x)) = "log_redirection" /\ ~IsStop(Entry(x))

Step(x) ==
  /\ ~IsReboot(x) /\ ~IsLogStop(x)
  /\ Passes(x, IF IsLogStart(x) THEN logs \cup {Entry(x).num}
            ELSE logs)

StepAborts(x) ==
  /\ ~IsReboot(x)
  /\ Fails("step")
  /\ Aborts(x)

(* A log is stopped through the step that started it, which is looked for   *)
(* among the steps of this case.                                            *)
LogStop(x) ==
  /\ IsLogStop(x)
  /\ Entry(x).stop \in StepNumbers(case)
  /\ Passes(x, logs \ {Entry(x).stop})

LogStopAborts(x) ==
  /\ IsLogStop(x)
  /\ Entry(x).stop \notin StepNumbers(case)
  /\ UNCHANGED faults
  /\ Aborts(x)

Listed(x) ==
  IF Value(Entry(x), "is_logging_enabled") = "true" THEN Entry(x).logs ELSE {}

(* step_execute() of upgrade_or_reboot: the logs that are listed are        *)
(* stopped and uploaded, and the test is saved with the number of this step *)
(* as the last; then the queue is uploaded and emptied, the pause is        *)
(* reported, and the device restarts.                                       *)
Pause(x) ==
  /\ IsReboot(x)
  /\ boots < MaxBoots
  /\ Listed(x) \subseteq StepNumbers(case)
  /\ Executed(x)
  /\ saved' = [last |-> Entry(x).num, logs |-> Listed(x)]
  /\ listed' = listed \cup Listed(x)
  /\ queue' = <<>>
  /\ verdict' = "pause"
  /\ pc' = "down"
  /\ UNCHANGED <<plan, last, paused, disk, runVars, resumed, boundVars>>

(* A number that is no step of the case aborts before anything is saved.    *)
PauseAborts(x) ==
  /\ IsReboot(x)
  /\ ~ (Listed(x) \subseteq StepNumbers(case))
  /\ UNCHANGED faults
  /\ Aborts(x)

(* The report of the pause cannot be posted: the file stays. *)
PauseFails(x) ==
  /\ IsReboot(x)
  /\ Listed(x) \subseteq StepNumbers(case)
  /\ Fails("pause")
  /\ Executed(x)
  /\ saved' = [last |-> Entry(x).num, logs |-> Listed(x)]
  /\ queue' = <<>>
  /\ pc' = "end"
  /\ verdict' = "failure"
  /\ UNCHANGED <<plan, last, paused, disk, runVars, resumed, listed,
                 requests, boots>>

Completes ==
  /\ pc = "run"
  /\ case > Len(queue)
  /\ pc' = "end"
  /\ verdict' = "complete"
  /\ UNCHANGED <<plan, decodeVars, fileVars, runVars, resumed, runs, ran,
                 listed, boundVars>>

(* upload_results() empties the queue and the outcome is reported. *)
Report ==
  /\ pc = "end"
  /\ queue' = <<>>
  /\ pc' = "wait"
  /\ UNCHANGED <<plan, last, paused, fileVars, runVars, resumed, historyVars,
                 boundVars>>

------------------------------------------------------------------------------
(* A new process; /tmp, where the fetched files are, is empty.  init()      *)
(* reads the file of the pause (decode_reboot_case_json()), removes it and  *)
(* has the request resumed.                                                 *)
Boot ==
  /\ pc = "down"
  /\ boots' = boots + 1
  /\ last' = saved.last
  /\ paused' = saved.logs
  /\ saved' = NoFile
  /\ queue' = <<>>
  /\ disk' = {}
  /\ logs' = {}
  /\ case' = 1 /\ i' = 1
  /\ ran' = {}
  /\ resumed' = TRUE
  /\ pc' = "request"
  /\ UNCHANGED <<plan, runs, listed, verdict, requests, faults>>

(* Nothing more is asked for, or the process is gone. *)
Terminated ==
  /\ \/ pc = "wait" /\ requests = MaxRequests
     \/ pc = "crashed"
     \/ pc = "run" /\ boots = MaxBoots
  /\ UNCHANGED vars

Work ==
  \/ Decode \/ DecodeFails \/ Decoded \/ ConfigMissing \/ Fetch \/ FetchFails
  \/ \E x \in Turn : \/ Step(x) \/ StepAborts(x)
                      \/ LogStop(x) \/ LogStopAborts(x)
                      \/ Pause(x) \/ PauseAborts(x) \/ PauseFails(x)
  \/ Completes \/ Report \/ Boot

Next == Request \/ Work \/ Terminated

Spec == Init /\ [][Next]_vars /\ WF_vars(Work)

------------------------------------------------------------------------------
(* What the theorems ask of the configurations.                             *)
(* Files of one name come from one directory.                               *)
FileOf(p, x) ==
  <<p[x[1]].steps[x[2]].name, p[x[1]].steps[x[2]].at>>
IsInput(p, x) == ParamType(p[x[1]].steps[x[2]]) \in FetchedTypes

OneSource ==
  \A p \in Plans : \A x, y \in Entries(p) :
    IsInput(p, x) /\ IsInput(p, y) /\ FileOf(p, x)[1] = FileOf(p, y)[1] =>
      FileOf(p, x) = FileOf(p, y)

(* Configurations that can be resumed: a test with a restart is the only    *)
(* case, the numbers of its steps are above zero, those before a restart    *)
(* are lower and those behind it higher, and what a restart lists are logs  *)
(* started before it.                                                       *)
StepOf(p, x) == p[x[1]].steps[x[2]]
Restarts(p, x) == ParamType(StepOf(p, x)) = "upgrade_or_reboot"
StartsLog(p, x) ==
  ParamType(StepOf(p, x)) = "log_redirection" /\ ~IsStop(StepOf(p, x))
Lists(p, x) ==
  IF Value(StepOf(p, x), "is_logging_enabled") = "true"
  THEN StepOf(p, x).logs ELSE {}

Resumable ==
  \A p \in Plans : \A r \in Entries(p) : Restarts(p, r) =>
    /\ Len(p) = 1
    /\ \A x \in Entries(p) :
         /\ StepOf(p, x).num > 0
         /\ x[2] < r[2] => StepOf(p, x).num < StepOf(p, r).num
         /\ r[2] < x[2] => StepOf(p, r).num < StepOf(p, x).num
         /\ StepOf(p, x).num \in Lists(p, r) => x[2] < r[2] /\ StartsLog(p, x)

(* Configurations whose restarts leave nothing behind that is needed: a     *)
(* step follows each, and the logs that the steps behind it stop or list    *)
(* are listed by it or started behind it.                                   *)
Carried(p, r, n) ==
  n \in Lists(p, r) \/ \E y \in Entries(p) : r[2] < y[2] /\ StepOf(p, y).num = n

StopsLog(p, x) ==
  ParamType(StepOf(p, x)) = "log_redirection" /\ IsStop(StepOf(p, x))

SelfContained ==
  \A p \in Plans : \A r \in Entries(p) : Restarts(p, r) =>
    /\ \E x \in Entries(p) : r[2] < x[2]
    /\ \A x \in Entries(p) : r[2] < x[2] =>
         /\ StopsLog(p, x) => Carried(p, r, StepOf(p, x).stop)
         /\ Restarts(p, x) => \A n \in Lists(p, x) : Carried(p, r, n)

------------------------------------------------------------------------------
(* What the classes of steps use when they run, read from their             *)
(* step_execute() and not from the decoders.                                *)
ReadsFile(x) ==
  ParamType(Entry(x)) \in {"radio", "vap", "dml_reset", "station_management",
                           "stats_set", "config_onewifi", "packet_generator"}

Opposed == {{"server", "client"}, {"server", "clientOnly"},
            {"client", "serverOnly"}}
Consistent(options) ==
  /\ "invalid" \notin ToSet(options)
  /\ \A pair \in Opposed : ~ (pair \subseteq ToSet(options))

(* The keys a class reads, with the values it can work with. *)
Needs(e) ==
  CASE ParamType(e) \in {"stats_get", "stats_set"} ->
         {<<IF e.stats = "AssociatedDeviceStats" THEN "VapIndex"
            ELSE "RadioIndex", {"text", "stop", "empty"}>>}
         \cup (IF ParamType(e) = "stats_get" /\
                  e.stats \in {"RadioChannelStats", "NeighborStats"}
               THEN {<<"ScanMode", {"text"}>>} ELSE {})
    [] ParamType(e) = "log_redirection" /\ ~IsStop(e) ->
         {<<"RedirectLogs", {"text", "stop"}>>}
    [] ParamType(e) = "get_pattern_files" ->
         {<<"FilePattern", Texts \ {"empty"}>>}
    [] ParamType(e) = "gateway_performance" ->
         {<<"Interval", Numbers>>, <<"Iteration", Numbers>>,
          <<"TopCmdOptions", {"text"}>>}
    [] ParamType(e) = "ethernet_lan_interface" -> {<<"TestDuration", Numbers>>}
    [] ParamType(e) = "get_file" ->
         {<<"SourceFilename", Texts \ {"empty"}>>}
    [] OTHER -> {}

StartsIperf(e) ==
  ParamType(e) \in {"config_iperf_server", "config_iperf_client"} /\ ~IsStop(e)

(* wlan_emu_ui_mgr.cpp:1955, 593: a step that was accepted has all that its *)
(* class uses when it runs, and an iperf command has one role and only      *)
(* options of that role, in whatever order they are given.                  *)
AcceptedIsRunnable ==
  \A c \in 1 .. Len(queue) : \A x \in queue[c] :
     /\ \A need \in Needs(Entry(x)) : Value(Entry(x), need[1]) \in need[2]
     /\ StartsIperf(Entry(x)) => Consistent(Entry(x).options)

(* wlan_emu_ui_mgr.cpp:3171, 3237: the file that a step reads is the one    *)
(* its configuration names, fetched by this process.                        *)
InputIsOwn ==
  \A x \in Turn :
    ReadsFile(x) => <<Entry(x).name, Entry(x).at>> \in disk

(* wlan_emu_ui_mgr.cpp:2510: of the steps that were executed before a       *)
(* restart only those are executed again whose log was paused.              *)
OnlyLogsRunAgain ==
  \A x \in Entries(plan) : runs[x] > 1 => Entry(x).num \in listed

(* wlan_emu_ui_mgr.cpp:2534: complete is reported when every step has been  *)
(* executed, by whichever process.                                          *)
CompleteMeansExecuted ==
  verdict = "complete" => \A x \in Entries(plan) : runs[x] > 0

(* wlan_emu_ui_mgr.cpp:2510: when the first step after the reboot runs, the *)
(* logs that the reboot paused are followed again.                          *)
LogsAreResumed ==
  \A x \in Turn :
    resumed /\ Entry(x).num \notin paused => paused \subseteq ran

(* wlan_emu_test_param_upgrade_or_reboot.cpp:96: a restart alone fails no   *)
(* request.                                                                 *)
RestartIsHarmless ==
  resumed /\ faults = 0 => verdict # "failure"

(* wlan_emu_ui_mgr.cpp:3736: every request ends, over all its restarts. *)
Ends == pc = "request" ~> pc = "wait"
=============================================================================
