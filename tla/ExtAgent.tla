------------------------------ MODULE ExtAgent ------------------------------
(***************************************************************************)
(* The external agent (src/external_agent_cci): a device in the home       *)
(* network that plays stations, Ethernet clients and iperf for the         *)
(* gateway.  Its threads are                                               *)
(*   the HTTP server, which the gateway commands (agent_start(),           *)
(*     agent_stop(), the test configuration, the status),                  *)
(*   the main thread, ext_emu_state_machine(), which changes the state at  *)
(*     the signals of the test thread and deletes the test object,         *)
(*   the message handler, between a start and the close message, which     *)
(*     carries what is written to /dev/rdkfmac_dev to the subscribed test, *)
(*   the test thread of wlan_ext_emu_tests_t.                              *)
(* Every call that writes to the character device is read back by the      *)
(* handler, so the device is a queue of messages.  The driver is not in    *)
(* the repository: whether it keeps what is written while no handler has   *)
(* it open is the constant DeviceKeeps.                                    *)
(*                                                                         *)
(* A test thread that has sent its last signal counts as ended, although   *)
(* it has still to release its lock.  Captured frames are left out.        *)
(***************************************************************************)
EXTENDS Collection, FiniteSets

CONSTANTS
  N,            \* the steps of a test case that run on the agent
  Plans,        \* the test cases: the kind of each step, with or without "Fork"
  Time,         \* the duration of a step in seconds
  NDevs,        \* get_sta_info_count(): the interfaces of the agent
  MaxCases,     \* bound: test cases of the gateway
  MaxEvents,    \* bound: stations that come or go
  MaxFaults,    \* bound: failures
  Faults,       \* the failures that may happen
  DeviceKeeps   \* the driver keeps what nobody reads

Steps == 0 .. N - 1
Devs == 0 .. NDevs - 1
Kinds == {"sta", "eth", "iperf", "iperf_stop"}
AgentStates == {"idle", "ready", "running", "complete", "fail"}
AgentStepStates == {"continue", "wait", "results", "abort"}

ASSUME AgentAssumption ==
  /\ N \in Nat \ {0}
  /\ Plans \subseteq [Steps -> [kind : Kinds, fork : BOOLEAN]]
  /\ Time \in Nat \ {0}
  /\ NDevs \in Nat
  /\ MaxCases \in Nat \ {0}
  /\ MaxEvents \in Nat
  /\ MaxFaults \in Nat
  /\ Faults \subseteq
       {"http", "answer", "unset", "stop", "execute", "thread", "device"}
  /\ DeviceKeeps \in BOOLEAN

VARIABLES
  plan,      \* the test case
  up,        \* the process runs
  m_state,   \* ext_agent_test_state_t of the main thread
  sigs,      \* the signal sockets with a datagram that was not read
  obj,       \* ext_emu_test_obj # NULL
  thr,       \* the test thread of the last object
  msgs,      \* m_test_msg_q, oldest first
  own,       \* the test object is in m_tests
  dangling,  \* objects in m_tests that were deleted
  asteps,    \* test_steps_q, oldest first
  json,      \* agent_step_status_json_str
  abusy,     \* the interfaces whose status is sta_state_in_use
  dev,       \* what /dev/rdkfmac_dev holds
  hdlrs,     \* running message handlers
  linked,    \* the interfaces that are associated to the access point
  files,     \* the steps with a result file in /tmp/cci_res
  cleaning,  \* a failed test thread has still to empty /tmp/cci_res
  events,    \* stations that came or went
  faults,    \* failures
  ended      \* history: the steps that had results, with their case

testVars == <<obj, thr, msgs, own, dangling, asteps>>
deviceVars == <<dev, hdlrs>>
worldVars == <<plan, up, events>>
resultVars == <<files, cleaning, ended>>
stationVars == <<abusy, linked>>
agentVars == <<testVars, deviceVars, worldVars, resultVars, stationVars,
               m_state, sigs, json>>

None == NDevs                       \* a step without an interface
Jobs == [num : Steps, case : 1 .. MaxCases]
AgentSteps == [job : Jobs, st : AgentStepStates, cnt : 0 .. Time,
               dev : 0 .. NDevs, mapped : BOOLEAN, assoc : BOOLEAN,
               ip : BOOLEAN]
Messages == [type : {"stop", "close"}] \cup [type : {"data"}, job : Jobs]
            \cup [type : {"joined", "deauth", "connected"}, dev : Devs]
Empty == [state |-> "empty", steps |-> <<>>]
Reports == [job : Jobs, st : AgentStepStates, ip : BOOLEAN]

(* init() of the agent: the state is idle, the status is an empty string.  *)
AgentInit ==
  /\ plan \in Plans
  /\ up = TRUE
  /\ m_state = "idle"
  /\ sigs = {}
  /\ obj = FALSE
  /\ thr = "none"
  /\ msgs = <<>>
  /\ own = FALSE
  /\ dangling = 0
  /\ asteps = <<>>
  /\ json = Empty
  /\ abusy = {}
  /\ dev = <<>>
  /\ hdlrs = 0
  /\ linked = {}
  /\ files = {}
  /\ cleaning = FALSE
  /\ events = 0
  /\ faults = 0
  /\ ended = {}

Fault(kind) ==
  /\ kind \in Faults
  /\ faults < MaxFaults
  /\ faults' = faults + 1
NoFault == faults' = faults

------------------------------------------------------------------------------
(* A write to the device.  Without a handler nobody has it open for long.  *)
Written(m) == IF hdlrs > 0 \/ DeviceKeeps THEN Append(dev, m) ELSE dev

(* A signal is a datagram, unless the state is already the one it asks for. *)
Signalled(sig) == IF m_state = sig THEN sigs ELSE sigs \cup {sig}

(* Main thread: the signal of the lowest index becomes the state; at idle   *)
(* and at fail the test object is deleted and the handler is told to close. *)
SignalIndex(sig) ==
  CASE sig = "idle"     -> 0
    [] sig = "ready"    -> 1
    [] sig = "running"  -> 2
    [] sig = "complete" -> 3
    [] sig = "fail"     -> 4

DeletingStates_Bug == {"idle", "fail", "complete"}
DeletingStates == {"idle", "fail"}

ext_emu_state_machine ==
  /\ up
  /\ \E sig \in sigs :
       /\ \A other \in sigs : SignalIndex(sig) <= SignalIndex(other)
       /\ sigs' = sigs \ {sig}
       /\ m_state' = sig
       /\ IF sig \in DeletingStates /\ obj
          THEN /\ obj' = FALSE
               /\ own' = FALSE
               /\ dangling' = dangling + (IF own THEN 1 ELSE 0)
               /\ msgs' = <<>>
               /\ dev' = Written([type |-> "close"])
          ELSE UNCHANGED <<obj, own, dangling, msgs, dev>>
  /\ UNCHANGED <<thr, asteps, hdlrs, json, worldVars, resultVars, stationVars,
                 faults>>

(* Message handler: a message is copied to every subscribed test, also to   *)
(* one that failed and was deleted; the access to its freed lock goes       *)
(* unnoticed or ends the process.  At close the handler empties the         *)
(* directory of the results.                                               *)
queue_msg ==
  /\ dev' = Tail(dev)
  /\ up' \in {TRUE, dangling = 0}
  /\ msgs' = IF own THEN Append(msgs, Head(dev)) ELSE msgs
  /\ UNCHANGED <<hdlrs, files>>

Close ==
  /\ dev' = IF hdlrs > 1 \/ DeviceKeeps THEN Tail(dev) ELSE <<>>
  /\ hdlrs' = hdlrs - 1
  /\ files' = {}
  /\ UNCHANGED <<up, msgs>>

HandlerReads ==
  /\ up
  /\ hdlrs > 0
  /\ dev # <<>>
  /\ IF Head(dev).type = "close" THEN Close ELSE queue_msg
  /\ UNCHANGED <<obj, thr, own, dangling, asteps, plan, events, cleaning,
                 ended, stationVars, m_state, sigs, json, faults>>

------------------------------------------------------------------------------
(* Test thread.  It begins with the ready signal. *)
TestStarts ==
  /\ up
  /\ thr = "start"
  /\ thr' = "run"
  /\ sigs' = Signalled("ready")
  /\ UNCHANGED <<obj, msgs, own, dangling, asteps, deviceVars, worldVars,
                 resultVars, stationVars, m_state, json, faults>>

FreeDevs == Devs \ abusy
find_first_free_dev == CHOOSE d \in FreeDevs : \A e \in FreeDevs : d <= e

Is(s, kind) == plan[s].kind = kind
ForkState(s) == IF plan[s].fork THEN "wait" ELSE "continue"

NewStep(job, st, d) ==
  [job |-> job, st |-> st, cnt |-> 0, dev |-> d, mapped |-> d # None,
   assoc |-> FALSE, ip |-> FALSE]

(* A step that fails to execute holds no interface. *)
ExecuteFails(job) ==
  /\ \/ Is(job.num, "sta") /\ FreeDevs = {} /\ NoFault
     \/ Fault("execute")
  /\ asteps' = Append(asteps, NewStep(job, "abort", None))
  /\ UNCHANGED <<abusy, files, ended>>

(* add_sta(): the interface is taken, an address is yet to come. *)
add_sta(job) ==
  /\ Is(job.num, "sta")
  /\ FreeDevs # {}
  /\ asteps' = Append(asteps, NewStep(job, "continue", find_first_free_dev))
  /\ abusy' = abusy \cup {find_first_free_dev}
  /\ NoFault
  /\ UNCHANGED <<files, ended>>

(* The Ethernet client and iperf name their result file at once. *)
ExecutePlain(job) ==
  /\ Is(job.num, "eth") \/ Is(job.num, "iperf")
  /\ asteps' = Append(asteps, NewStep(job, ForkState(job.num), None))
  /\ files' = files \cup {job}
  /\ NoFault
  /\ UNCHANGED <<abusy, ended>>

(* iperf_stop ends the iperf step before it; when the agent does not have   *)
(* that step it kills every iperf3.                                        *)
ToStop(job) ==
  {i \in DOMAIN asteps : /\ Is(asteps[i].job.num, "iperf")
                         /\ asteps[i].job.num < job.num}

ExecuteStop(job) ==
  /\ Is(job.num, "iperf_stop")
  /\ asteps' = Append([i \in DOMAIN asteps |->
                         IF i \in ToStop(job)
                         THEN [asteps[i] EXCEPT !.st = "results"]
                         ELSE asteps[i]],
                      NewStep(job, "results", None))
  /\ ended' = ended \cup {job} \cup {asteps[i].job : i \in ToStop(job)}
  /\ NoFault
  /\ UNCHANGED <<abusy, files>>

wlan_ext_step_execute(job) ==
  \/ ExecuteFails(job)
  \/ add_sta(job)
  \/ ExecutePlain(job)
  \/ ExecuteStop(job)

(* remove_sta(): the step of a station that is not associated, or that was  *)
(* thrown out in between, frees nothing.                                   *)
remove_sta(devs) == abusy \ devs

Held == {step.dev : step \in {t \in ToSet(asteps) : t.assoc /\ t.mapped}}
StepDevs == {step.dev : step \in ToSet(asteps)}

(* test_stop() and the end of the thread: the steps are removed, the test   *)
(* unsubscribes, and messages that are still queued are never read.        *)
test_stop ==
  /\ abusy' = remove_sta(Held)
  /\ linked' = linked \ Held
  /\ asteps' = <<>>
  /\ own' = FALSE
  /\ msgs' = <<>>
  /\ sigs' = Signalled("idle")
  /\ thr' = "over"
  /\ UNCHANGED <<obj, dangling, files, ended, faults>>

Open(step) == step.st \in {"continue", "wait"}
Of(d) == {i \in DOMAIN asteps : Open(asteps[i]) /\ asteps[i].dev = d}

(* wlan_ext_step_frame_filter() of the station steps: the frames that tell  *)
(* that a station joined or was thrown out reach every step with its        *)
(* address, the notification of the driver the oldest one only.            *)
Joined(d) ==
  /\ asteps' = [i \in DOMAIN asteps |->
                  IF i \in Of(d) THEN [asteps[i] EXCEPT !.assoc = TRUE]
                  ELSE asteps[i]]
  /\ NoFault
  /\ UNCHANGED abusy

Deauth(d) ==
  LET leaving == {i \in Of(d) : asteps[i].assoc}
  IN /\ asteps' = [i \in DOMAIN asteps |->
                     IF i \in leaving
                     THEN [asteps[i] EXCEPT !.assoc = FALSE, !.mapped = FALSE]
                     ELSE asteps[i]]
     /\ abusy' = remove_sta({d : i \in {j \in leaving : asteps[j].mapped}})
     /\ NoFault

(* udhcpc: an address, no address, or no lease, which ends the step. *)
Connected(d) ==
  /\ IF Of(d) = {} THEN UNCHANGED asteps /\ NoFault
     ELSE LET i == CHOOSE j \in Of(d) : \A k \in Of(d) : j <= k
          IN \/ asteps' = [asteps EXCEPT ![i].ip = TRUE] /\ NoFault
             \/ asteps' = asteps /\ Fault("execute")
             \/ /\ ~asteps[i].ip
                /\ asteps' = [asteps EXCEPT ![i].st = "abort"]
                /\ Fault("execute")
  /\ UNCHANGED abusy

wlan_ext_step_frame_filter(m) ==
  /\ \/ m.type = "joined" /\ Joined(m.dev)
     \/ m.type = "deauth" /\ Deauth(m.dev)
     \/ m.type = "connected" /\ Connected(m.dev)
  /\ UNCHANGED <<files, ended>>

(* process_msg() of the oldest message. *)
process_msg ==
  /\ up
  /\ thr = "run"
  /\ msgs # <<>>
  /\ LET m == Head(msgs)
     IN \/ /\ m.type = "stop"
           /\ test_stop
        \/ /\ \/ m.type = "data" /\ wlan_ext_step_execute(m.job)
              \/ wlan_ext_step_frame_filter(m)
           /\ msgs' = Tail(msgs)
           /\ UNCHANGED <<sigs, obj, thr, own, dangling, linked>>
  /\ UNCHANGED <<worldVars, deviceVars, cleaning, m_state, json>>

------------------------------------------------------------------------------
(* Once a second, when there are no messages: wlan_ext_step_timeout() of    *)
(* each step that is not done.  over holds the iperf steps whose process    *)
(* has ended; it does so within Time.                                      *)
wlan_ext_step_timeout(step, over) ==
  LET cnt == step.cnt + 1
      st == IF cnt >= Time \/ step.job \in over THEN "results"
            ELSE IF Is(step.job.num, "sta") /\ ~step.ip THEN "continue"
            ELSE ForkState(step.job.num)
  IN IF Open(step) THEN [step EXCEPT !.cnt = cnt, !.st = st] ELSE step

IperfJobs == {asteps[i].job : i \in {j \in DOMAIN asteps :
                                        Is(asteps[j].job.num, "iperf")}}

(* The Ethernet client reports its address with its first status. *)
wlan_ext_step_status_update(steps) ==
  [i \in DOMAIN steps |->
     [job |-> steps[i].job, st |-> steps[i].st,
      ip |-> steps[i].ip \/ Is(steps[i].job.num, "eth")]]

(* An aborted step ends the test: the steps after it have no timeout, none  *)
(* is removed, and the test stays subscribed.                              *)
FirstAbort(steps) == SelectInSeq(steps, LAMBDA step : step.st = "abort")

TestFails(steps) ==
  /\ FirstAbort(steps) # 0
  /\ json' = [state |-> "fail",
              steps |-> wlan_ext_step_status_update(
                          SubSeq(steps, 1, FirstAbort(steps)))]
  /\ sigs' = Signalled("fail")
  /\ thr' = "over"
  /\ cleaning' = TRUE
  /\ asteps' = <<>>
  /\ UNCHANGED ended

Completed(steps) == {i \in DOMAIN steps : steps[i].st = "results"}

TestGoesOn(steps) ==
  /\ FirstAbort(steps) = 0
  /\ asteps' = steps
  /\ ended' = ended \cup {steps[i].job : i \in Completed(steps)}
  /\ sigs' = IF steps = <<>> THEN sigs
             ELSE Signalled(IF Completed(steps) = DOMAIN steps
                            THEN "complete" ELSE "running")
  /\ thr' = "report"
  /\ UNCHANGED <<json, cleaning>>

TestTicks ==
  /\ up
  /\ thr = "run"
  /\ msgs = <<>>
  /\ \E over \in SUBSET IperfJobs :
       LET steps == [i \in DOMAIN asteps |->
                       wlan_ext_step_timeout(asteps[i], over)]
       IN TestFails(steps) \/ TestGoesOn(steps)
  /\ UNCHANGED <<obj, msgs, own, dangling, deviceVars, worldVars, files, abusy,
                 linked, m_state, faults>>

(* The status is written after the signal, with the state the main thread   *)
(* is in by then.                                                          *)
TestReports ==
  /\ up
  /\ thr = "report"
  /\ thr' = "run"
  /\ json' = [state |-> m_state, steps |-> wlan_ext_step_status_update(asteps)]
  /\ UNCHANGED <<obj, msgs, own, dangling, asteps, deviceVars, worldVars,
                 resultVars, stationVars, m_state, sigs, faults>>

(* A failed test thread empties the directory after its signal. *)
TestCleans ==
  /\ up
  /\ cleaning
  /\ cleaning' = FALSE
  /\ files' = {}
  /\ UNCHANGED <<testVars, deviceVars, worldVars, ended, stationVars, m_state,
                 sigs, json, faults>>

------------------------------------------------------------------------------
(* Stations join and are thrown out.  The test is told of both by frames,   *)
(* and of both by sta_connection_status() with                             *)
(* wlan_emu_ext_wifi_sta_state_connected.                                  *)
Heard(frame, d) ==
  dev' = IF hdlrs = 0 THEN dev
         ELSE dev \o <<[type |-> frame, dev |-> d],
                       [type |-> "connected", dev |-> d]>>

sta_connection_status(d) ==
  /\ up
  /\ events < MaxEvents
  /\ events' = events + 1
  /\ \/ d \in abusy \ linked /\ linked' = linked \cup {d} /\ Heard("joined", d)
     \/ d \in linked /\ linked' = linked \ {d} /\ Heard("deauth", d)
  /\ UNCHANGED <<testVars, plan, up, hdlrs, resultVars, abusy, m_state, sigs,
                 json, faults>>

------------------------------------------------------------------------------
(* The requests of the gateway.                                             *)

(* The constructor of the test object.  When its thread cannot be created   *)
(* the object remains, and does not subscribe.                             *)
NewTest(started) ==
  /\ obj' = TRUE
  /\ msgs' = <<>>
  /\ asteps' = <<>>
  /\ thr' = IF started THEN "start" ELSE "none"
  /\ own' = started
  /\ UNCHANGED dangling

(* agent_start() answers that it is started whenever there is a test        *)
(* object, also when its test has ended.                                   *)
agent_start(started) ==
  /\ IF obj THEN started /\ UNCHANGED <<testVars, hdlrs>>
     ELSE NewTest(started) /\ hdlrs' = hdlrs + 1
  /\ UNCHANGED <<dev, worldVars, resultVars, stationVars, m_state, sigs, json>>

(* The stop command is ignored before the first status. *)
agent_stop_Bug ==
  /\ json' = [state |-> "idle", steps |-> <<>>]
  /\ UNCHANGED <<testVars, deviceVars, worldVars, resultVars, stationVars,
                 m_state, sigs>>

agent_stop ==
  /\ IF json = Empty THEN UNCHANGED <<dev, json>>
     ELSE /\ dev' = Written([type |-> "stop"])
          /\ json' = [state |-> "idle", steps |-> <<>>]
  /\ UNCHANGED <<testVars, hdlrs, worldVars, resultVars, stationVars, m_state,
                 sigs>>

(* agent_endpoint_testconfig(): the answer does not depend on whether the   *)
(* step could be written to the device.                                    *)
agent_endpoint_testconfig(job, written) ==
  /\ dev' = IF written THEN Written([type |-> "data", job |-> job]) ELSE dev
  /\ UNCHANGED <<testVars, hdlrs, worldVars, resultVars, stationVars, m_state,
                 sigs, json>>

(* A result file that is there is sent. *)
agent_endpoint_results(job) == job \in files

AgentUnchanged == UNCHANGED agentVars

TestThread == TestStarts \/ process_msg \/ TestReports \/ TestCleans

(* Nothing is under way that takes no time. *)
Quiet ==
  /\ sigs = {}
  /\ dev = <<>> \/ hdlrs = 0
  /\ msgs = <<>> \/ thr \in {"none", "over"}
  /\ thr # "start"
  /\ ~cleaning
=============================================================================
