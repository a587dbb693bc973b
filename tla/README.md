# TLA+ models of OneWifiTestSuite

OneWifiTestSuite drives OneWifi, the Wi-Fi component of RDK-B gateways, through
test cases.  A controller (the "TDA") hands the gateway a test configuration;
the suite downloads it, runs its steps against OneWifi, the drivers and emulated
or remote clients, and reports the results.  This directory holds TLA+ models of
the program, the TLC configurations that check them, and proofs of the
properties that matter most.

1. [Inventory](#1-inventory)
2. [The models and the code](#2-the-models-and-the-code)
3. [What the runs check](#3-what-the-runs-check)
4. [Fairness](#4-fairness)
5. [What is proved](#5-what-is-proved)
6. [Disagreements between the code and what it says of itself](#6-disagreements)
7. [What is not modelled](#7-what-is-not-modelled)
8. [Plan](#8-plan)

Paths in this file are relative to `src/`, the root of the repository.

## 1. Inventory

| Component | Source | State | Operations | Interacts through |
|---|---|---|---|---|
| Main control loop | `src/gateway_cci/wlan_emu.cpp` | `m_state` (wait, request, start, results, abort), `dml_state` shown on the bus | `run`, `update_state_io_wait_done`, `start_test`, `abort_test`, bus handlers | calls into the user interface manager; datagrams from it |
| User interface manager | `src/ui/wlan_emu_ui_mgr.cpp` | one socket per signal, the queue of decoded test cases, the error code, log offsets, reboot file | `analyze_request`, `decode_*`, `upload_*`, `cci_report_*`, `io_wait`, heartbeat thread | signals to the loop; HTTP to the controller; OneWifi's bus |
| Test execution engine | `src/tests/wlan_emu_tests.cpp` | `test_state`, `timeout_count` of each step, `pending_steps`, `current_test_step`, `m_results` | `test_function`, `run`, `start`, `stop`, `push_msg`, `pop_msg` | the message manager, signals to the control loop |
| Messages | `src/messages/*` | `m_tests`, the buffer of the handler thread | `subscribe`, `unsubscribe`, `queue_msg`, `send_ctrl_msg`, handler thread | the device `/dev/rdkfmac_dev` |
| Test steps | `src/tests/wlan_emu_test_param_*.cpp` | what a step waits for, threads and subscriptions it left behind | `step_execute`, `step_timeout`, `step_frame_filter`, `step_remove` | files, commands, OneWifi's bus, stations |
| Test configuration | `src/ui/wlan_emu_ui_mgr.cpp` (`decode_*`, `download_*`) | the decoded entries, the files fetched, the number of the last executed step, the logs that were paused | decode a coverage and its steps, fetch files, save and resume | the controller's server, the file of a reboot step |
| Configuration of the gateway | `src/ui/wlan_emu_ui_mgr.cpp` (`bus_init`, `cci_cache_update`, `webconfig_*`) | `m_webconfig_data`, a cache of what OneWifi last published | fill it at the start, follow the documents, tell the test of each | OneWifi's documents; the steps that configure and connect |
| Stations | `src/sta/*` | the pool of devices, the stations by key, remote clients | `add_sta`, `remove_sta`, reconnect, disconnect | drivers, the external agent |
| External agent | `src/external_agent_cci/*`, `src/common/wlan_emu_ext_agent_interface.cpp` | agent state, the steps it was told to run, the result files | HTTP requests of the gateway, main thread, test thread, message handler | the gateway |
| Collections | `src/utils/collection.c` | queue and hash map | push, pop, peek, put, get, remove | every other component, without locks |
| Bus | `src/bus/*` | elements and events, each in rbus and in a tree of callbacks | open, register, unregister, subscribe, get, set | rbus |
| Utilities, command line, web pages, scripts | `src/common`, `src/cli`, `src/webui` and the rest | none of the core logic | | |

How they meet: a write to `Device.WiFi.Tests.Start` makes the bus thread send a
datagram to the control loop.  The loop asks the user interface manager to
download and decode the configuration into a queue of test cases, each a queue
of steps; decoding ends with another datagram.  For each case the loop creates a
test thread and joins it.  The test thread triggers a step by writing a control
message to the device; the handler thread reads it back, with everything the
drivers and OneWifi send, and pushes it to the subscribed test.  The end of a
test is again a datagram, upon which the loop uploads and reports.

Some steps reach further.  A step that configures a radio or a network sends a
document to OneWifi and waits for the notification that its own process writes
to the device when OneWifi publishes the result; the same document updates the
cache from which a station step takes the network it joins.  Steps of external
clients command an agent, a second program of the repository, over HTTP and poll
its status each second.  A step that reboots leaves a file behind from which the
next process goes on.

What is hard in each, and what makes it correct:

- **Control loop and user interface manager.**  Requests overlap with a test
  that is being decoded, run or reported.  The signals of phases arrive in a
  fixed priority and not in the order they were sent.  Any of the downloads,
  uploads and posts may fail in the middle.  A step may restart the device.
  *Correct when* every request is answered once and truthfully, a status that
  permits a new request means that nothing runs, nothing of one request is left
  for the next, and a pause that was reported can be resumed.
- **Test execution engine and messages.**  Three threads and those of
  asynchronous steps write the states of steps; the trigger of a step makes a
  round trip through a device; whichever step is current when it returns is the
  one executed; forked steps overlap with serial ones.  *Correct when* each step
  is executed once, a serial step runs alone, a test is done only when all steps
  have finished, stops at the first failure, ends, and leaves no subscription.
- **Test steps.**  Each class writes `test_state` in up to four functions that
  different threads call.  *Correct when* no result is overwritten and a step
  that stops another one has stopped it.
- **Test configuration.**  Twenty classes of entries, each decoded in its own
  order; a request that goes on after a restart with the same document.
  *Correct when* what is accepted can run, a step runs with its own files, and a
  restart neither loses nor repeats a step.
- **Configuration of the gateway.**  The thread of the bus fills a cache that the
  test thread reads; notifications name a kind of document and not the step that
  asked for it.  *Correct when* the cache is what OneWifi published last, and a
  station joins with what the steps before it have set.
- **Stations.**  Devices are taken from a pool in two phases with failures
  between them, and found again by a key compared by prefix.  *Correct when* a
  device has one owner and every device that failed or was removed is free.
- **External agent.**  State is polled over HTTP, late or repeated answers belong
  to earlier tests; a start may come before the last test is cleaned up.
  *Correct when* an answer is used for the test it is about, the agent works for
  the present test only, and a finished step is delivered.
- **Collections.**  No lock; the prefix comparison of keys.  *Correct when* a
  queue is first-in-first-out and a map gives back what was put under a key.
- **Bus.**  Names share their parts, and rbus and the tree of callbacks change one
  after the other.  *Correct when* what rbus delivers finds its own callbacks.

The behaviours that are hard to test are listed at their lines in `PROJECT.json`
under `hazards`, with the properties that would notice them going wrong.

## 2. The models and the code

| Module | Models | Uses |
|---|---|---|
| `StepKinds` | what the virtual functions of each class of step may do to its state | |
| `StepEngine` | one test case: test thread, handler thread, main thread in `start()`, workers of steps | `StepKinds`, `SerialTest` |
| `SerialTest` | abstract: what a test case without forked steps promises | |
| `MCStepEngine` | constants for TLC | `StepEngine` |
| `StepEngineProofs` | theorems about `StepEngine`: types, exclusion, subscription | `StepEngine` |
| `StepOrderProofs` | theorems about `StepEngine`: executions, verdicts, stops, refinement of `SerialTest` | `StepEngineProofs` |
| `CciControl` | the control loop with requests, signals, queue of cases, uploads, reports, reboot | `TestSession` |
| `TestSession` | abstract: what the process promises to a controller that waits for answers, its fairness included | |
| `MCCciControl` | constants for TLC | `CciControl` |
| `CciControlProofs` | theorems about `CciControl`: types, its safety properties, the safety of `TestSession` | `CciControl` |
| `Collection` | queue and hash map of `collection.c`, as operators | |
| `StaStep` | the station management step on simulated and real clients, with the pool of devices | `StepKinds`, `Collection` |
| `MCStaStep`, `StaStepProofs` | constants for TLC; theorems about `StaStep` | `StaStep` |
| `ExtAgent` | the external agent: server, main thread, test thread, handler, device | `Collection` |
| `ExtTest` | the steps of the gateway that run on the agent, composed with it | `ExtAgent` |
| `AgentDocs` | the documents between the two, as operators: steps, status, capability, and the discovery of agents | `Collection` |
| `MCExtTest`, `ExtTestProofs` | constants for TLC; theorems about `ExtTest` | `ExtTest`, `AgentDocs` |
| `TestConfig` | the decoders of coverages, steps and iperf options, as operators | |
| `Resume` | a configuration from its download over restarts to its report | `TestConfig` |
| `MCResume`, `ResumeProofs` | constants for TLC; theorems about `Resume` | `Resume` |
| `Mux` | the tree of callbacks of the bus, as operators | |
| `Bus` | registration, unregistration and subscription at the start | `Mux` |
| `Webconfig` | OneWifi's documents, the cache, the steps that configure and connect | `Bus` |
| `MCWebconfig`, `WebconfigProofs` | constants for TLC; theorems about `Webconfig` | `Webconfig` |
| `BusProofs` | theorems about the tree of `Mux` and the start of `Bus` | `Webconfig` |

`StepEngine` is one execution of one test case, which `CciControl` sees as one
action, `RunCase`; what ties them is the outcome (`verdict` there, `Outcomes`
here) and `Ends`, which says that `start()` returns from its join.  That
`start()` need not return when a trigger is lost is in section 6.

`StaStep`, `ExtTest`, `Resume` and `Webconfig` each keep of the engine what their
steps can tell: that a step begins when no step before it holds the test, that
waiting steps have their time-out called every second, and that a failure ends
the test.

Definitions whose name ends in `_Bug` are defects an edit of the code could
introduce, placed before the definition they would replace.  Nothing uses them;
substituting one shows that a property notices.

### StepEngine

| State | Code |
|---|---|
| `plan` | the decoded `test_step_params_t`: class, `fork`, and the step that a stop step names |
| `st`, `cnt` | `test_state` and `timeout_count` of each step |
| `pend` | the bits of `pending_steps`, an `int` of `Width` bits |
| `cur` | `current_test_step` and the local `step` of `test_function` |
| `pc`, `ti` | where `test_function` is, and the step its time-out loop is at |
| `sub` | the test is in `m_tests` of the message manager |
| `main` | where the main thread is in `start()`: before `subscribe`, in the join, back |
| `dev`, `last` | messages in `/dev/rdkfmac_dev`; the handler's buffer |
| `res` | `m_results` |
| `worker` | the detached thread of a step, or its bus subscription |
| `verdict` | `test_done` or `test_fail` was called |
| `nexec`, `lost` | history: calls of `step_execute`; a trigger did not reach the test |
| `frames`, `faults` | counters of the environment |

The test thread holds `m_lock` while it works, and no other thread takes it: the
lock orders nothing and is not modelled.  What the other threads can come
between is modelled action by action: `Trigger` (write `tstart`, state start),
`WakeDrain`/`DrainEnd` around the loop over `m_results`, one action per message
in it (`ExecutePlain`, `ExecuteLogStop`, `ExecuteStatsStop`, `ExecuteAsync`,
`ExecuteAsyncAgain`, `Frame`), `WakeResults` and `WakeAbort`, and `WakeTimeout`
followed by one action per step of the time-out loop (`TickPass`, `TickTimeout`,
`TickEnd`).  `step_execute` and `step_timeout` of a synchronous step are one
action, as only the test thread writes the state of such a step.  Those of an
asynchronous one are split where its worker can write in between: `ExecuteAsync`
starts the worker, `Park` makes the last write; `TickAsyncRead` reads the state,
`TickAsyncWrite` writes it, `TickAsyncCheck` looks at it again.  `Deliver` is the
handler thread, `DeliverStale` its treatment of a failed read, `Subscribe` and
`Join` the main thread, `WorkerStep` a worker, `EnvFrame` OneWifi and the drivers.

The classes of steps are grouped by how their state evolves, in `StepKinds`;
files, commands and bus calls are the sets of outcomes they can have.  A plan is
what the decoder leaves: a stop step names an earlier step of a class that it
stops, or a number no step has.  A stop step of statistics builds the
subscription it cancels from its own configuration; the plans are those in which
that agrees with the step it names (the other case is listed as a hazard).

The deadline of the time-out: `t_start` is zero at first and is not moved when a
message arrives, so that a time-out may be found at any moment the test thread
waits with nothing in `m_results`.  `timeout_count` is compared with
`ExecutionTime` only, hence the cap at `Time + 1`.

`get_next_pending_step` searches from a forked step with an unsigned counter
compared with `>= 0`; it ends only at an unfinished step.  The model lets it go
to `spin` when there is none.

### CciControl

| State | Code |
|---|---|
| `m_state`, `dml_state` | the state the loop acts on; the status on the bus |
| `sig`, `bound` | datagrams waiting in the socket of each signal; sockets are open |
| `pc`, `i`, `count` | where the loop is; the case `start_test` is at and the number it counted |
| `cases` | `test_cov_cases_q` from its head |
| `list` | `res_output_file_fp` is open |
| `url`, `local` | `tda_url`, `is_local_host_enabled` |
| `file`, `reboot` | the URL kept in the file of a reboot step; `reboot_test_executed` |
| `alive` | the process has not crashed |
| `setter` | the property whose `set_cci_handler` has passed the check of the status and not returned |
| `due`, `verdict`, `report` | history: a start is not answered; what became of it, `"lost"` when it came before the sockets were open; the last report |
| `starts`, `faults`, `resets` | counters of the environment |

| Action | Code |
|---|---|
| `SetAdmitted`, then `SetUrl` or `SetStart` | `set_cci_handler`, on the thread of the bus: it reads the status once, and acts later |
| `IoPrep`, `ReadSignal`, `SelectFails` | `io_prep`, `io_wait` and `update_state_io_wait_done`; the first readable descriptor in the order of the enumeration |
| `Idle` | states none and wait of the switch |
| `AgentUnavailable`, `ClassifyUrl`, `AnalyzeOK`, `AnalyzeFails` | `analyze_request` and the signal that says how it ended; a localhost URL is replaced in place by its path |
| `Analyzed`, `Refused` | the writes of the status that follow that signal |
| `StartNothing`, `StartTests`, `RunCase`, `CaseMissing`, `TestsEnded` | `start_test` with one test case at a time |
| `RebootStep`, `Reboot`, `RebootFails` | the step `upgrade_or_reboot`, which uploads, empties the queue and reports a pause on the test thread |
| `Results`, `Abort` | `upload_results` and the rest of these states up to the report |
| `ReportComplete`, `Completed`, `ReportFailure`, `Failed` | `cci_report_complete_to_tda`, `cci_report_failure_to_tda`, and the writes of the status that follow them |
| `Reset`, `Boot` | a restart; `init()` of the next process |

Test cases are pushed at the head of the queue, so the last decoded runs first.
Nothing empties the queue before a request is decoded into it, and
`upload_results` deletes every case whether it has run or not.  `test_case_name`
is not initialised by the constructor: what a fresh one holds is `HeapNames`,
empty on zeroed memory and possibly garbage on memory that was used.  Reading
through the null pointer that `queue_peek` may return, and a write to a closed
`FILE`, set `alive` to FALSE (the latter may, as the behaviour is undefined).

### StaStep and Collection

`Collection` has the queue and the hash map of `collection.c` as operators on
sequences that begin at the head of the list.  A map is a queue of entries, put
does not look for the key, and a look-up finds the first entry whose key begins
with the one asked for: `hash_map_find` is the least place of those that match.

| State | Code |
|---|---|
| `plan`, `st`, `cnt` | the decoded configuration, `test_state` and `timeout_count` of each step |
| `prof` | the profile of the signal pattern that is played, and its counter |
| `clients` | `connected_client_info_q`: the device of each client, whether it is associated, whether a disconnection was sent, whether it was removed |
| `busy` | the devices of the pool whose status is in use |
| `map` | `m_sta_map`, newest first; a key is the number of the step and of the device |
| `clean` | history: no `add_sta()` failed, no names collided, no reconnecting step was removed early |
| `cases`, `frames`, `faults` | counters of the environment |

`add_sta()` has two loops.  `PrepareFails` is the first one failing, because
no device is free (`NoneFree`) or one cannot be prepared (`ConfigureFails`): what
was marked as busy stays so and no client is added.  `ExecuteInternal` is both loops,
with a client that does not connect left out.  `TimeoutEnds` and
`TimeoutInternal` are `step_timeout()` at and before the end of the step: the
signal pattern, the interval at which associated clients are disconnected, and
the loop in which every client writes the state.  `Deauth`, `RemoveOnFrame` and
`Joined` are `step_frame_filter()`.  `RemoveStep` is the destructor,
`ExecuteReal` and `TimeoutReal` the branch of real clients.
`RemoveClients` is the loop over the clients of a step, in the order of the code:
from the newest at the end of a step, from the oldest in `step_remove()`; where
names begin each other the order decides what is left.  All run on the test
thread, each as one action.  The timer after which a radio reconnects is
nondeterminism: a client that was disconnected may join at any time.

### ExtAgent and ExtTest

| State of `ExtAgent` | Code |
|---|---|
| `up`, `m_state`, `sigs` | the process; the state of its main thread; signals that were not read |
| `obj`, `thr` | `ext_emu_test_obj`; where the test thread is, `over` after its last signal |
| `msgs`, `own`, `dangling` | `m_test_msg_q`; the object is in `m_tests`; deleted objects that are |
| `asteps`, `json` | `test_steps_q`; the text of the last status |
| `abusy`, `linked` | interfaces in use; interfaces that are associated |
| `dev`, `hdlrs` | what the device holds; running message handlers |
| `files`, `cleaning` | the result files; a failed thread has still to empty their directory |
| `ended` | history: steps that had results, with their case |
| `events`, `faults` | counters of the environment |

| State of `ExtTest` | Code |
|---|---|
| `case`, `pc` | the test case; what the test thread of the gateway does |
| `gst`, `gcnt`, `gip`, `keyed` | state, `timeout_count`, `is_ip_assigned` of each step; it has the address of an interface |
| `cliBusy`, `ethBusy` | the clients and the Ethernet interface in use |
| `fresh` | steps the agent has reported since they were polled, for `Patient` |

The main thread of the agent is `ext_emu_state_machine`, which takes the signal
of the lowest index and deletes the test object at idle and at fail.  The
handler is `queue_msg` and `Close`, the test thread `TestStarts`, `process_msg`,
`TestTicks`, `TestReports` and `TestCleans`; status and signal are written one
after the other, and the directory of results is emptied after the signal.
`agent_start`, `agent_stop` and `agent_endpoint_testconfig` are the requests;
the actions of the gateway take them as conjuncts, so that a request and its
answer are one step which may fail at either end (`StartFailed`, `StopSent`,
`NotPosted`, `Fails`).  `BeginSta`, `BeginEth` and `BeginIperf` begin a step,
`GetStatus` and `PostConfig` are the rest of its beginning, `step_timeout` polls,
downloads and takes over, `SendStop` is the stop after a failed Ethernet step,
`step_remove` ends the case.

Two constants say what is assumed of the environment.  `DeviceKeeps` is whether
the driver, which is not in the repository, keeps what is written while nobody
reads.  `Patient` is what the gateway is slow enough for: with `"tick"` the
agent has settled and has reported before a step is polled again (both periods
are a second), and its main thread has taken the signals of one second before the
next; with `"case"` it has settled before the next case begins.  `WithoutThread`
are the cases in which the agent could not create its thread: it keeps the test
object and answers as if the test ran.

`AgentDocs` is about what `ExtTest` takes for granted, that a document says at
its reader what it said at its writer.  A document is a function from keys to
typed values.  There is one encoder and one decoder for each class of step
(`Encode` of the gateway, `decode_step_param` of the agent), for the status
(`agent_step_status_json`, `decode_external_agent_test_status`), and for the
capability (`encode_external_agent_capability`,
`decode_external_agent_capability`), with the tables of `wlan_common_utils.h`
between enumerations and texts.  `get_external_agent_info` is the search of the
table of hosts, `get_external_agent_capabilities` the question to each agent, and
`get_ext_agent` the look-up by the address of a client.

### TestConfig and Resume

`TestConfig` has one operator for each decoder of a step, in the order of its
checks, with the answers `"ok"`, `"err"` and `"crash"` (a null pointer is
followed, as where `valuestring` of a number is compared).  An entry is a
function from the keys it has to the kind of their value; `ParamType` is the
chain that picks the class, and `decode_coverage_config` the one that picks the
test from the path of a coverage.

| State of `Resume` | Code |
|---|---|
| `plan` | the configuration on the server |
| `pc`, `case`, `i` | the phase of the request; the case and the step that are decoded or run |
| `queue` | `test_cov_cases_q` from its head, each case the set of its entries, which are in the order of the configuration |
| `last`, `paused` | `last_executed_step_num`, `paused_logging_steps` |
| `saved` | the file of the reboot step |
| `disk` | the files fetched, by base name, with the directory they came from |
| `logs` | the logs that are being followed |
| `runs`, `ran`, `listed`, `verdict` | history: how often each step ran; the steps of this process; the logs ever paused; the last report |
| `resumed`, `requests`, `faults`, `boots` | the request goes on with an earlier process's; counters |

`Decode`, `DecodeFails` and `Decoded` are the loop over the coverages with
`check_reboot_step_config` inside; `Fetch` and `FetchFails` the download of the
files, which keeps what was fetched before a failure; `Step`, `LogStop` and the actions of failing steps run the case; `Pause`
saves how far the test has come and restarts, `PauseAborts` and `PauseFails` are
its errors; `Boot` is the next process.  What the theorems ask of configurations
(`OneSource`, `Resumable`, `SelfContained`) is defined in `Resume`, and
`PlansAreCovered` has TLC evaluate it on the configurations of the run.  `CciControl` has the same request with
its signals and reports and without its contents.

### Mux, Bus and Webconfig

`Mux` is the tree of callbacks, with the pointers to child, sibling and parent;
`Bus` is what a process does at its start, `Webconfig` what goes on afterwards.

| State | Code |
|---|---|
| `pc`, `elements`, `tried` | where the main thread is; the elements of the program; how many were tried |
| `known`, `handlers` | the elements rbus knows; the tree of their callbacks |
| `listening`, `subs` | the events rbus delivers; the tree of their callbacks |
| `onewifi`, `south`, `north` | the configuration of the gateway, part by part; documents on their way there and back |
| `thread` | the thread of the bus with its document, or `Idle` |
| `ready`, `got`, `cache` | `webconfig_init()` was called; the document that `bus_init()` asked for; `m_webconfig_data` |
| `acl` | the maps of filtered addresses to which the cache points: none, live, freed |
| `dev` | the messages of `send_webconfig_ctrl_msg()` in the device |
| `plan`, `step`, `st`, `cnt` | the test case, its current step, `test_state`, `timeout_count` |
| `newest`, `missed`, `sent`, `used` | history: the newest configuration; a document was forgotten; what each step sent and what it joined with |

A configuration is a number for each part, larger when newer; `Overridden` is
what a station step writes into the cache for itself.  `bus_init` is three
actions any of which may fail; its result is ignored, as in the code.  The
thread of the bus decodes (`Decodes`), frees maps (`Frees`), copies part by part
without a lock (`cci_cache_update`), and writes to the device.  A document reaches
the process only when it listens to the first of its events.  The test thread
sends documents (`ExecuteConfig`), waits for a notification of their kind
(`Deliver`, `step_timeout`) or takes a network over (`ExecuteStation`).
`OwnChanges` are the documents OneWifi publishes without having been asked.

## 3. What the runs check

Runs that must pass:

| Run | Configuration | Shows |
|---|---|---|
| `step_serial` | 3 serial steps of the synchronous classes, one message of the environment | each is executed once, the test ends, and it implements `SerialTest`: steps in order, a stop at the first failure |
| `step_faults` | 2 steps of every class, workers included, forked or not, one failure of the device (4.8 million states) | a serial step runs alone, no subscription is left |
| `step_mixed` | 3 synchronous steps, forked or not (4.2 million states) | done means executed and finished, the search for the next step returns |
| `step_stops` | 3 serial steps that start logs and subscriptions and stop them, one failure of the device (319 thousand states) | a stop step that succeeded has stopped what it names; a failure has a step to show for it |
| `cci_session` | 3 requests of a controller that waits, one case each (5 thousand states) | implements `TestSession`, under fairness of the loop: one report per request, in the end, unless the request came before the sockets were open; complete is reported only of a test that passed |
| `cci_overlap` | 3 requests that may overlap, up to 2 cases of 2 coverages, every download, upload and report may fail (921 thousand states) | idle can be trusted, analysed cases are in the queue, a quiet loop is clean, running ends |
| `cci_reboot` | 2 requests, every outcome, used heap, a failure of `select`, a restart (628 thousand states) | a pause that was reported is saved; a crash has one of three causes |
| `sta_step` | 2 cases of 2 station steps of 6 configurations, 3 devices, 2 frames and a failure (89 thousand states) | a station is on a busy device of its own, a removal takes its own station, an ended step has none left, only the listed causes leak a device, every case ends |
| `ext_test` | 3 cases of 2 steps on the agent in 4 combinations, one failure (2.0 million states) | results are those of the case, the agent works for this case only and deletes ended tests only, a finished step is delivered, every case ends; what is asked for is what arrives, what is reported is what is read, and the one agent in the network is known with its stations |
| `resume` | 1,129 configurations, each asked for twice, two failures, up to 4 restarts (27 thousand states) | what is accepted can run, with its own files; complete means executed; a restart repeats logs only, resumes them, and fails nothing; requests end |
| `webconfig` | the start of the process with every failure of it, 2 cases of up to 3 steps, changes of OneWifi (2.2 million states) | a delivery finds its callbacks, the cache follows the gateway, a station joins with what was set, no freed map stays |

`find_lost_trigger`, which must find a violation, is described in section 6.

Bounds.

- `N = 3` steps: the search for the next step, a step that waits behind a forked
  one and the step after it are three; a stop step, what it names and a step
  between them are three.  Where `N = 2` the question is about a step and the one
  after it (`step_faults`, `sta_step`, `ext_test`), and workers, clients or an
  agent multiply states.
- `Time = 2` ticks: a step survives one time-out and ends at the next.
- `Width = 4` bits: more than there are steps, as 32 is in any real test case.
  `Width = N` is the boundary; see section 6.
- `MaxFrames = 1` in the engine: one notification that may come at any moment,
  before the step it belongs to, while it waits, or after it.  In `step_stops`
  messages have no taker and none is sent.  In `sta_step` two frames are a
  deauthentication and what follows it.
- `MaxFaults = 1`: one lost trigger, read, request or operation; two in `resume`,
  where the second may hit the process after a restart.
- `MaxCases = 2`, `MaxQueue = 3` of the loop: the cases of one request and one
  left over by another.  `MaxStarts = 3`: one request that is running, one that
  overlaps it and one that finds what both left.  Two coverages: signals of
  different priority.  `MaxCases = 2` elsewhere: a case and what it left to the
  next; 3 in `ext_test`, where the status of a test that failed may outlast the
  one after it.
- `Base = 2`, `NDevices = 3` in `sta_step`: the names 1 and 10 are both devices,
  so that one key begins with another, as the decimal 1 and 10 do in a pool of
  more than ten.
- One interface and four clients in `ext_test`: a second station finds none free
  on the agent although the gateway has a client for it.  The combinations have
  each kind of step, with and without "Fork" where that matters; a fifth, a forked
  Ethernet step and a station, was checked with `MaxCases = 2` (1.3 million states).
  Two events: a station
  joins and is thrown out.
- `DocumentsArrive` and `AgentsAreKnown` are about no variable; they are evaluated
  in the initial states of `ext_test`.  Their inputs: for each class of step every
  value of each two of its parameters, all values of the enumerations and one that
  is in no table, all 4096 sets of frames; reports of up to two steps in every
  state; tables of up to two hosts of which one may be damaged in one place, and
  agents with up to two clients of each kind.  A decoder treats its keys one by
  one, so that two that go wrong together are enough to see their order.
- `MCPlans` of `Resume`: a good entry of every class, all that differ from it in
  the value of one key (every check of every decoder fails once), all sequences
  of up to three kinds of iperf options, every path of a coverage, and nine
  configurations with restarts, logs and several cases.
- `MCElements`, `MCEvents`: names that share their first part, one that begins
  with all of another, in both orders.  `MaxChanges = 2`: one change besides the
  initial configuration; those of the steps are not bounded by it.
- `CHECK_DEADLOCK FALSE` in `cci_reboot` only: a process that crashed and may not
  be restarted again stops.  Elsewhere a deadlock is an error; the end of a test
  is an explicit action (`Terminated`, `Finished`, `Over`).

What a run leaves out is a constant, not a change of the model; what happens when
that constant is widened is said in section 6.

## 4. Fairness

`StepEngine` assumes weak fairness of the test thread, of the handler thread
while there is a message to read (`Deliver`), of the main thread, and of the
thread of a performance log: all are threads that the scheduler runs, and the
commands they run return.  Nothing is assumed of the environment: no frame or
notification has to come, no log thread or bus event has to write, no fault has
to happen or to stop.  That the time-out of a step comes follows from the
fairness of the test thread: with `m_results` empty, `pthread_cond_timedwait`
returns within a second.

`CciControl` assumes weak fairness of the loop while the process is alive.  Nobody
has to ask for a test, to set a URL, or to start the device again.  Weak fairness
of a choice between outcomes never forces the good one, so that no liveness
property rests on downloads or uploads that succeed.  `TestSession` states weak
fairness of its own steps `Open`, `Decide` and `Answer`, and `ImplementsSession`
that the loop keeps it: what is asked is answered.  A controller that waits only
repeats a request that was lost.

`StaStep` assumes weak fairness of the test thread (`Progress`: executing,
time-outs, removal, the next case); no frame has to arrive.  `ExtTest` assumes it
of each thread on its own: the gateway's test thread, and of the agent the main
thread, the handler, the test thread and its waiting for a second (`Second`);
stations need not join, and a request that fails is an outcome of the gateway's
step.  `Resume` assumes it of the thread that works on the request, restarts
included, as the code restarts the device itself; nobody has to make a request.
`Webconfig` states safety only: OneWifi need not answer.

## 5. What is proved

The eight modules `*Proofs` are checked by TLAPS and hold for every value of the
constants that meets the assumptions named in the modules (`NAssumption`,
`KindsAssumption`, `AgentAssumption`, `PlansAssumption`, `BusAssumption`, ...: numbers
of things are natural numbers, kinds are kinds, a configuration is a sequence of cases) and in
the theorem.  The types of the engine and the loop are proved and no property of
a run; every other state property here is also checked by one.

| Theorem | States | Assumes besides |
|---|---|---|
| `TypeCorrect` | `TypeOK` of `StepEngine` | |
| `SerialStepsRunAlone` | `SerialExclusive` | |
| `NoSubscriptionLeft` | `NoDanglingSubscription` | `N < Width` |
| `FailureHasCause` | `FailHasCause` | no step logs performance |
| `DoneIsExecuted` | `DoneMeansExecuted` | `N < Width`; `StopsExecuted`: no stop of statistics, or no forked step |
| `DoneIsFinished`, `SearchTerminates` | `DoneMeansFinished`, `SearchReturns` | `N < Width`; `Synchronous`: no step has a worker |
| `TriggersExecuteOnce` | `ExecutedAtMostOnce` | no forked step, no failing read |
| `StopsStop` | `StopStops` | `N < Width`, no forked step, no performance log |
| `SerialTestImplemented` | `ImplementsSerialTest` | `N < Width`, no forked step, no failing read, `Synchronous` |
| `ControlTypeCorrect` | `TypeOK` of `CciControl` | |
| `IdleIsTrusted` | `IdleMeansNoTests` | |
| `QuietLoopIsClean` | `QuietIsClean` | every test thread can be created (`"silent"` is no outcome) |
| `AnalysedCasesAreQueued` | `AnalysedIsQueued` | `select` does not fail, no case reboots |
| `CrashesHaveCause` | `CrashHasCause` | |
| `PauseIsSaved` | `PausedIsSaved` | |
| `SessionKept` | the safety half of `ImplementsSession`, `Session!Safe` | `OneByOne`: a controller that waits, one case per request, no reboot, `select` does not fail |
| `DevicesAreOwn`, `RemovalsAreOwn`, `EndedStepsAreDisconnected`, `NothingIsLeaked` | `StationsOnBusyDevices`, `RemovalIsOwn`, `EndedIsDisconnected`, `NothingLeaked` | |
| `OnlyEndedTestsAreDeleted` | `DeletesOnlyEnded` of `ExtTest` | |
| `AgentIsOnThisCase` | `OnlyThisCase` | `Drops`, `Arrives`, `Patience`: the device forgets what nobody reads, no answer and no stop is lost, a case begins on a settled agent |
| `ResultsAreOfThisCase` | `ResultsAreOwn` | the same; `Ticks`: both sides keep the period of a second; `OneStart`: a case has one step at most that starts the agent |
| `WhatIsFinishedIsDelivered` | `FinishedIsDelivered` | `Drops`, `Patience`, `Ticks`, `OneStart` |
| `AcceptedStepsAreRunnable` | `AcceptedIsRunnable` of `Resume` | |
| `InputsAreOwn` | `InputIsOwn` | `OneSource`: files of one name come from one directory |
| `OnlyLogsAreRepeated`, `LogsComeFirst` | `OnlyLogsRunAgain`, `LogsAreResumed` | `Resumable`: a test that restarts is the only case, its numbers are in order, a restart lists logs that were started |
| `CompleteIsExecuted` | `CompleteMeansExecuted` | `Resumable`; the configuration of a resumed request can be fetched |
| `RestartsAreHarmless` | `RestartIsHarmless` | `Resumable`, `SelfContained`: a step follows each restart, and what is stopped or listed behind it was listed by it or started behind it |
| `InsertFinds` | what `bus_insert_elem_node` does to every lookup in the tree of `Mux` | |
| `CallbacksAreServed` | `Served` of `Bus` | |
| `MapsAreOwned` | `AclOwned` of `Webconfig` | |
| `CacheFollows` | `CacheIsCurrent` | `NothingEarly`: no document comes before the cache was filled |
| `StationsAreCurrent` | `StationConfig` | `OwnKinds`, `NothingLate`: steps and OneWifi configure different parts, no step gives up while its document is on its way |

Every hypothesis is needed: section 6 says, for each, what the code does without
it.  The passing runs meet the hypotheses of the theorems about what they check.
There are two exceptions.  Of the hypotheses of `WhatIsFinishedIsDelivered` only
`Ticks` is known to be needed; the others are those of the invariants it shares
with the theorem above it, and TLC finds no violation without them in two steps and
three cases.  Two of the four test cases of `ext_test` start the agent twice, so
that this run checks more than the two theorems with `OneStart` say; the violation
of `ResultsAreOwn` that section 6 names has three steps.

None of the invariants is inductive as it stands.

- **Types.**  `TypeInv` of the engine is `TypeOK` with `AsyncPoint`: between the
  read and the check of a time-out `ti` is a step, and the step that is parked or
  written to is asynchronous, where alone `ParkStates` and `TimeoutWrite` have
  values.  That `cur` stays a step is the lemma `CyclicStep`, with `AdvanceType`.
  `TypeInv` of the loop is `TypeOK` with `CasePoint`: while cases run `i >= 1`,
  without which the update of case `i` could leave the type of the queue.
- **Serial steps run alone.**  `SerialInv` adds `ParksCurrent`: a step between the
  read and the write of its time-out is forked or the current one.  The worker may
  end the step in that gap; the write then puts a step into progress that
  `SerialExclusive` alone no longer knows to be current.  Leaving the current step
  is safe because `GivesWay` of a serial step means that it has results.
- **No subscription is left.**  The test thread and `start()` do not wait for each
  other.  What orders them is the trigger: `SubInv` says, with `Unstarted`, that
  before the subscription nothing is in `res`, every step is in request or start
  without a worker, every bit is pending and the thread is at `loop` or `tick`,
  from where it cannot end.  `N < Width` is what makes every bit pending at first.
- **Idle can be trusted.**  The status becomes idle in state wait, entered on the
  signal `results`.  `IdleInv` adds that in this state no analysis or done signal
  is left (`NoTestsLeft`), which is the order of `FirstReadable`, and that the
  status is not idle when `start_test` is about to run or a reboot step pauses.
  The signal of an analysis is sent before the status leaves idle
  (`src/gateway_cci/wlan_emu.cpp:121`, `:124`); at that place of the loop, and
  nowhere else, the invariant lets the two be there together.
- **A quiet loop is clean.**  `CleanInv`: where the loop waits or begins something
  new, anything dirty (`Dirty`: the queue is not empty, the list is open or the
  status is running) has a signal on its way that leads to an upload or to tests
  (`TestsAhead`); during the tests there is at least one case and those that ended
  have signalled; during the reports the queue is empty and the list closed.
- **Analysed cases are queued, crashes have a cause.**  `QueueInv`: while an analysis
  signal waits or `start_test` is next, the queue is not empty and the list open;
  no such signal waits while results are uploaded and reported, since it would
  have been read before; during the tests the queue has as many cases as were
  counted.  A failing `select` and a reboot step break it (`QueueStep` excludes
  them), and a restart restores it.  `CrashInv` therefore holds it, with `RanInv`
  (with the list closed no case in the queue has run), as long as `select` has not
  failed and there is no file of a reboot step, which stays until the next start
  (`Disturbed`).  Then the only write through a null `FILE` that is left is the
  upload of cases that never ran, one of which got a name from the heap.
- **Only ended tests are deleted.**  The main thread of the agent deletes the
  object at the signals idle and fail, and only the end of a test thread sends
  them.  `DeletionInv`: a live thread has an object and no last signal is on its
  way; a last signal means that the object is there and its thread is over; both
  last signals are never there together, so that none is left over for the next
  object.  It holds with every fault and a gateway that waits for nothing.
- **Maps are owned.**  `bus_init()` and the thread of the bus write the cache side
  by side.  `AclInv`: the thread is idle or has a well-formed document, and a map
  that is freed is one the document in work will still replace
  (`FreedIsReplaced`).  Installing the cache or emptying it in between only makes
  maps live or absent (`NoneFreed`).

- **Verdicts of a test.**  `ExecutedInv` and `DoneInv`: a step past start has been
  executed, so has one with a running worker or one between the halves of an
  asynchronous execution, and a bit of `pending_steps` is only cleared after it;
  test_done() finds no bit.  `FinishedInv` (no workers): a step that waits is the
  current one, a step that has results and a bit is the current one and the
  time-out loop has not passed it; this is what `get_next_pending_step` needs to
  find a step.  `FailInv`: an abort that was found stays, since only the thread of
  a performance log writes anything else.
- **One trigger at a time.**  `OnceInv` with `OneTrigger`: at most one trigger is in
  the device or in `m_results` together, and then the current step is in start and
  was not executed.
- **Stops stop.**  `PassedInv`: without forked steps the queue is passed once, so
  steps behind the current one have no worker and nothing starts what was stopped.
- **A serial test.**  `SerialTestInv` joins the three; each action is a step of
  `SerialTest` under the mapping of states to phases, or a stutter.
- **A pause is saved.**  `PausedInv`: the file is written before the report, and a
  case that runs came with a URL.
- **A session.**  `SessionInv`: at most one signal is ahead (`PlaceOK`), the verdict
  agrees with it and with the place of the loop (`VerdictOK`), the queue holds
  the one case of the request once it is analysed (`QueueOK`), and a request that
  was lost has left nothing behind (`LostOK`).  With `TurnOK`, a start that passed
  the check of the status finds no other that is not answered.
- **Stations.**  `StaInv`.  `PoolInv`: stations in the map are on different, busy
  devices, and those of one step that are not removed are the clients that say so
  (`Together`).  `QueueInv`: the clients of a step are in falling order of their
  devices (`FallingNames`); a name that begins another is shorter and therefore
  lower, and the loop from the highest down finds each client's own station
  although it compares beginnings (lemmas `RemoveOne`, `Removal`).  `CleanInv`: as
  long as none of the three causes has happened, what is busy is some client's.
- **The agent works for this case.**  `CountInv` and `LiveInv`: there is one
  handler, and it is there as long as the test thread is.  `SettledInv`: when the
  steps of a case were removed and the agent is loaded, a stop is on its way behind
  every command (`StopInv`); commands, steps and messages are of the present case
  unless that is so (`CaseInv`).
- **Results are of this case.**  `step_timeout()` finds a step in the status by its
  number, which steps of other cases have too.  `Base` joins what holds of each side:
  the invariants above, where the gateway is in its case (`Asked`, `Stopped`:
  `PlaceInv`, `AskedInv`), that a status with results names jobs that ended
  (`EndedInv`), and, with `Ticks`, that a thread that goes on has left its main
  thread in a state of a test that goes on (`ReadyInv`).  `Coupled` joins the two
  sides: a stop is on its way only when the case stops (`StopsInv`); a test that is
  reported as running has steps (`RunningInv`), among them the one that started the
  agent (`FirstInv`; `OneStart` is needed here); a thread that was stopped before it
  reported leaves a status without steps (`LeakInv`).  Therefore a status the gateway
  looks at is of this case (`OwnInv`), and a case begins with no last signal that
  could end its test (`IdleInv`).
- **What is finished is delivered.**  The invariant is about behaviours in which
  nothing has failed yet (`faults = 0`; a failure is not taken back, `FaultsGrow`).
  While the case goes on, the directory of the results is emptied only for a test
  that has reported its failure, which lists an abort (`TroubleInv`, `FailInv`);
  hence what a status lists has its file (`FilesInv`).  A status the gateway has not
  seen is one of a test that runs, or of such a failure (`StateInv`), and a test that
  was stopped before this case has ended nothing of it (`OverInv`).  Without the
  excuse for a listed abort the proof fails, and TLC violates the property.
- **Restarts.**  `RestartInv`: a request that goes on does so behind a restart of its
  configuration, with what that one listed.  `AgainInv` and `DoneInv` count
  executions against the numbers of steps: those up to the last one are executed,
  those behind it are not, all others are in the queue (`Covered`).  `LogsInv`:
  paused logs were started again or come first.  `HarmlessInv`: as long as nothing
  fails, what was accepted once is accepted again.  `InputInv`: while steps run the
  files of all of them are there.  `AcceptedInv` with `Scanned`: what the loop over
  iperf options knows after each of them.
- **The cache follows.**  `CurrentInv`: the last document on its way that brings a
  part brings the present one (`NorthInv`), a part that is neither to be copied nor
  on its way is in the cache (`CopiedInv`).  `StationsAreCurrent` adds that what a
  step has sent before it got its results is in the cache, in work, or on its way
  in an order that leaves the newest last (`FlightInv`, `BoundsInv`, `SentInv`,
  `LandedInv`).

- **Callbacks are served.**  What has to be known of the tree is its `Shape`: a node
  comes after its parent, `child` is the first and `next` the following node with
  the same parent (`Linked`), and siblings have different names (`Named`).  The
  loops over lists are recursive functions: each has just one solution, which is
  the node of that name (`SearchFinds`, `BelowIs`) or the last one of the list
  (`EndIsLast`).  `AddNode` keeps the shape (`GrownShape`); the places on the way
  down of an insertion are a chain from the root (`DescentIsChain`); two chains
  that end at one node have the same parts (`ChainsDiffer`); and a lookup that
  found a node before finds it after (`OldWalk`).  From these follows
  `InsertFinds`, and `BusInv` counts which names were inserted: all that rbus knows
  but the one that is being registered (`Pending`), as long as elements are
  registered or rbus knows any, since a failed removal may leave anything behind.

Each of these strengthened invariants was checked with TLC, as an invariant of
the runs, before it was proved.  The proof that a step preserves an invariant has
one step for each action.

What a recursive function computes is proved from a well-founded order: a finite
set of natural numbers has a least element (`LeastNumber`), so that a first place
at which a loop would go wrong is a contradiction.  The library's induction
theorems take an operator as a parameter and cannot be used with the installed
provers.

Only model-checked:

- liveness (`Ends` of the engine, `StaStep`, `ExtTest` and `Resume`; `RunningEnds`;
  of `ImplementsSession`, that every request is answered), which TLAPS does not
  support;
- `DocumentsArrive` and `AgentsAreKnown`, which are about texts and sequences and
  not about behaviours: TLC evaluates them on the inputs of section 3.

## 6. Disagreements

One run violates what a log line and the structure of the code say;
`PROJECT.json` quotes the lines.  `find_lost_trigger`: `start()` creates the test
thread before it subscribes the test.  A trigger that is read back in between
reaches no test: the step stays in start, where no time-out is called, and the
join never returns.

Others need no run to be seen, or are seen by changing a constant of a passing
run, which keeps them out by that constant.

The engine:

- The thread of `gateway_performance` writes its result to `test_state`;
  `step_execute` or `step_timeout` of the test thread then writes the waiting
  state over it, and nothing writes again
  (`src/tests/wlan_emu_test_param_gateway_performance.cpp:251`, `:266`): `Ends`,
  with such a step in `step_serial`.
- `Width = N`: with as many steps as `pending_steps` has bits, the shift that
  builds the mask is undefined; no bit may be set, and the test is done after its
  first step (`DoneMeansFinished`, `step_mixed`).
- `Forks <- ForkOrNot` in `step_serial`: two forked steps may share the trigger;
  the step that was skipped stays in start forever (`Ends`).  The header calls
  such steps "running in parallel" (`src/inc/wlan_emu_test_params.h:59`).
- `MaxFaults = 1` in `step_serial`: a failed read delivers the trigger a second
  time and executes the step again (`ExecutedAtMostOnce`, `ImplementsSerialTest`).
- Forked steps of the asynchronous classes in `step_mixed`: the search for the
  next step never returns when a worker finishes the last step between the test
  of the pending bits and the search (`SearchReturns`,
  `src/tests/wlan_emu_tests.cpp:108`); and a test fails whose steps all recovered
  (`FailHasCause`, in `step_stops` with performance logs).
- Statistics classes in `step_serial`: the abort that the handler of a bus event
  writes is overwritten by the time-out (`ImplementsSerialTest`,
  `src/tests/wlan_emu_test_param_stats_get.cpp:292`).

The control loop:

- A configuration of several cases sends one done signal for each.  The first of
  them uploads every case; one that is left makes the loop upload, and report as
  complete, the cases a later request had put in the queue before it was given up
  (`src/ui/wlan_emu_ui_mgr.cpp:3841`).  For the same reason two cases in
  `cci_session` report complete although the second failed, with a second report
  after it (`ImplementsSession`).
- A second start that came during the analysis of the first and fails leaves the
  status at failure while the tests of the first run, and the status is what
  refuses starts (`src/gateway_cci/wlan_emu.cpp:129`, `:399`).  Nor does the check
  hold what it found: a start or a URL that passed it may arrive while tests run.
- The loop signals the end of an analysis before it writes the status (`:121`,
  `:124`): in between, the bus shows a status of idle for a test that is about to
  run, and accepts another start.
- A start before the first `io_wait()` is sent to a descriptor that is not open:
  the caller is told of success and the request is lost
  (`src/ui/wlan_emu_ui_mgr.cpp:4678`).  `TestSession` has this as `"lost"`; every
  later start is answered.
- The three causes of a crash that `CrashHasCause` allows.  A case that never ran,
  with garbage for a name, is written to a list of files that is closed: memory
  from `new` need not be zero.  A reboot step that fails after it emptied the queue
  makes `start_test` read through the null pointer of `queue_peek`
  (`src/gateway_cci/wlan_emu.cpp:211`).  After a failing `select()` the queue is
  uploaded and the list closed while the signal of an analysis still waits: it
  starts the cases of a later request that was refused, which then write to it.
  Without any one of the three excuses TLC finds the crash in
  `cci_reboot`.
- `Outcomes <- EveryOutcome` in `cci_overlap`: a thread that cannot be created
  leaves its cases in the queue (`QuietIsClean`, `:222`) and the status running
  (`RunningEnds`).
- A localhost URL is rewritten to its path when it is analysed: another start
  without a new URL takes the path for a remote address and fails
  (`src/ui/wlan_emu_ui_mgr.cpp:3645-3660`); `CciControl` has this in `ClassifyUrl`
  and `Fetchable`.

Configurations and restarts, in `resume`:

- `Faults` with `"resume"`: the number of the last executed step outlives a
  resumed request that cannot be fetched, and a later request for the same
  configuration skips its first steps (`CompleteMeansExecuted`).
- Two cases of which the first reboots: the number is forgotten after the first
  case is decoded, and the steps of the second are executed again
  (`OnlyLogsRunAgain`).
- A reboot in the second case when nothing of the other is left to run, a reboot
  as the last step, a stop after the reboot of a log that was not listed, or
  numbers of steps that do not ascend: the resumed request is refused or fails
  (`RestartIsHarmless`).
- Two files of the same base name in different directories: a step runs with the
  file of another (`InputIsOwn`).
- A `ClientConnection` without a child decodes no case, and a number where
  `RadioIndex`, `VapIndex`, `Duration`, `ScanMode`, `StatsDuration` or
  `StopLogStepNumber` is expected as a text, or a frame of a capture without its
  type, is read through a null pointer (`Ends`).  `MCResume` leaves these values
  out (`TextOnly`).

Stations and the external agent:

- `wait_connection` is commented with "Dont go to next step until station is
  connected." (`src/tests/wlan_emu_test_param_sta_management.cpp:1051`); with
  several clients the loop ends with the state that the last one wrote.
- A station is said not to support the WPA3 transition mode, for which WPA3 is set
  instead (`:95-97`); the next line copies the mode of the access point over it.
- The end of an association is logged as a disconnection and sent with the state
  connected (`src/external_agent_cci/wlan_ext_emu.cpp:937`, `:940`): the agent
  asks for a new address when a station was thrown out.
- `Faults = {"answer"}` or `{"stop"}` in `ext_test`: a start that failed for the
  gateway only, or a stop that was lost, leaves the agent with the last case
  (`OnlyThisCase`).  `Faults = {"device"}` or `DeviceKeeps = TRUE`: a step that
  was never delivered is waited for without an end (`Ends`).
- `Faults = {"unset"}` in `ext_test`: `http_post_file()` does not write
  `status_code` when it fails, and its result is ignored
  (`src/src/sta/wlan_emu_ext_sta_mgr.cpp:234`, `:362`): a configuration that was
  lost is taken for posted when the stack happens to hold 200.  The agent is ready
  without a step, and a step that does not fork is waited for without an end
  (`Ends`).  `ResultsAreOwn`, `OnlyThisCase`, `DeletesOnlyEnded` and
  `FinishedIsDelivered` still hold.
- `Plans <- StartedTwice` with `N = 3`, `Time = 3` and the failure `"execute"` in
  `ext_test`: a forked iperf step fails on the agent, and a later step starts the
  agent again.  The first step is no longer in the status: when its time is over
  it has results before it is looked for
  (`src/tests/wlan_emu_test_param_sta_management.cpp:729`), the loop stops behind
  the last element, which is then read, and the gateway may take results that no
  step has had (`ResultsAreOwn`).
- When the agent cannot create its test thread it keeps the object and answers
  that the test was started; a later poll may find the results of the case before
  (`WithoutThread` excuses this in `ResultsAreOwn`).
- A main thread of the agent that needs more than a second for its signals: the
  status of the next test begins with the failure of the last, and a step that
  finished is not delivered (`FinishedIsDelivered`, in the third case; `"tick"` of
  `Patient` keeps it out).
- `Patient = {"tick"}`: a next case that begins at once meets the test object of
  the last one, and its start starts nothing (`OnlyThisCase`).
  `Patient = {"case"}`: a poll between the signal of an end and the status finds
  the results emptied (`FinishedIsDelivered`).  Either of the two makes the gateway
  take results of another case (`ResultsAreOwn`), and so do the failures `"answer"`
  and `"stop"`, and `DeviceKeeps = TRUE` with two failures.
- A later step that the agent cannot execute ends the whole test there: a step that
  had finished, and was not asked for yet, is then reported as aborted
  (`FinishedIsDelivered` excuses a status that lists an abort).

Documents between the gateway and the agent, in `AgentDocs`:

- The text of the answers is not cleared between two agents
  (`src/common/wlan_emu_ext_agent_interface.cpp:611`): with two agents the second
  gets the clients of the first.  `AgentsAreKnown` says this of one agent only.
- The agent keeps 127 characters of the command of an iperf step, and runs what is
  left of it (`copy_cmd` in `DocumentsArrive`).
- A station step on an open network has no passphrase, and an empty text is
  refused by the agent's decoder: the start fails (`Untold`).
- What the gateway reads of a status before there is one is no document
  (`NoStatus`); a capability stops at the first client that cannot be read, so
  that an Ethernet interface without an address hides those behind it.

The configuration of the gateway, in `webconfig`:

- `Faults` with `"early"`: a document that comes between the subscription and the
  copy of the whole configuration is overwritten by the older one
  (`CacheIsCurrent`, `src/ui/wlan_emu_ui_mgr.cpp:5547`).
- `Faults` with `"late"`, or `OwnChanges` with `"radio"` or `"private"`: a step
  takes a notification of its kind that belongs to an earlier step, or to nobody,
  and the station after it joins with an old configuration (`StationConfig`).
- The result of the initialisation is ignored: a station step with an empty cache
  follows a null pointer (`src/gateway_cci/wlan_emu.cpp:623`); `crashed` is a
  state of the run.
- The overrides of a station step are written to the cache that all steps share
  and stay there (`src/tests/wlan_emu_test_param_sta_management.cpp:269`), which
  is what `Overridden` excuses in two properties; and the common part and the
  security of a network that a station takes over need not be of one document.

## 7. What is not modelled

- The headers `nl80211.h` and `nl80211_copy.h`, 15 thousand lines, declare an
  interface of the kernel: most lines of the repository that no definition maps.
  The parsing of messages from the drivers, the decoding of frames, the building
  of frames a station sends and the captures decide which outcome of an action is
  taken, and every outcome is tried.
- The message manager's list of tests and the queue of results are used by three
  threads without a lock (`src/messages/wlan_emu_msg_mgr.cpp:48`,
  `src/utils/collection.c:40`).  What a torn list does is undefined; the models
  take each operation on a list as one step.
- The heartbeat thread.  It posts from the same file as the reports of the main
  thread (`src/ui/wlan_emu_ui_mgr.cpp:4595`), and a signal of the test thread
  (`src/tests/wlan_emu_tests.cpp:231`) that comes while it posts is lost, as it
  waits without a condition to test.
- A test case without steps, whose thread ends without a signal
  (`src/tests/wlan_emu_tests.cpp:189`): the download of files refuses it first.
- Statistics that are set (`src/tests/wlan_emu_test_param_stats_set.cpp:1352`
  schedules published instances) and the packet generator
  (`src/tests/wlan_emu_test_param_packet_generator.cpp:613`, `:633`): their shape
  is the one of the asynchronous classes, their state the file that is published.
- The thread of `gateway_performance` (`:234`) is detached and not cancelled when
  its step is deleted after a failure; what it then reads is undefined.
- Subdocuments whose kind is not known (`src/ui/wlan_emu_ui_mgr.cpp:4850`), which
  are logged; the result of `sendto()` for signals, which is ignored
  (`:4678`): a lost signal is not in `CciControl`.
- Tables of the bus and their rows, methods, publishing, the conversion of
  values, and a lock that is released before the node it guards is used
  (`src/bus/rdkb/wlan_emu_bus.cpp:380`); the empty variants for other platforms.
- Real stations beyond their time-out, and groups of clients.
- rbus, curl, the kernel driver and its patches, scripts, the command line and
  the web pages: external, without core logic of the suite, or without state.
- Memory that a removed test may still own, and destructors, except where the
  models show that something is left running.

## 8. Plan

Written: the step engine, the control loop, the station step with its pool and
collections, the external agent with its documents, decoders and restarts, the bus with the cache
of the gateway's configuration; theorems about all of them.

Left, in this order:

1. `StatsSet`: the schedule of published instances of reference data; counters at
   zero and at their duration.  To prove: no instance is published after its end.
2. The packet generator as a class of `StepKinds`, its thread racing with the
   parking write.
3. Heartbeat and message handler: the shared file of posts; the condition variable.
4. The rows of the tables of the bus, and conversions of values.
5. Real and group clients, and frame captures.

Theorems to add: `WhatIsFinishedIsDelivered` with fewer hypotheses, `ResultsAreOwn`
for test cases whose later starts all come after the earlier steps have results;
then theorems about what the list above adds.
