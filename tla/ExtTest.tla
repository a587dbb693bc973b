------------------------------ MODULE ExtTest ------------------------------
(***************************************************************************)
(* The gateway's side of the steps that run on an external agent           *)
(* (test_step_param_sta_management with an external client,                *)
(* test_step_param_eth_lan_client, test_step_param_iperf_client,           *)
(* wlan_emu_ext_sta_mgr_t, wlan_emu_ext_agent_interface_t), composed with  *)
(* one agent.  The gateway's test thread begins the steps in turn, polls   *)
(* the status of the agent once a second for each step that is not done,   *)
(* downloads the result files and removes the steps when all are done or   *)
(* one is aborted.  A request is a call that may fail at either end.       *)
(*                                                                         *)
(* Patient names what a second is long enough for: with "tick" the agent    *)
(* has settled and has reported before a step is polled again, and its     *)
(* main thread has taken the signals of one tick before the next; with     *)
(* "case" the agent has settled before the next test case begins.          *)
(***************************************************************************)
EXTENDS ExtAgent

CONSTANTS
  NClients,     \* the clients in the capabilities of the agent
  Patient       \* of "tick" and "case"

ASSUME GatewayAssumption ==
  /\ NClients \in Nat
  /\ Patient \subseteq {"tick", "case"}

external_sta_grace_timeout == 3

VARIABLES
  case,      \* the test case
  pc,        \* what the test thread does
  gst,       \* test_state of each step
  gcnt,      \* its timeout_count
  gip,       \* its is_ip_assigned
  keyed,     \* the steps with the address of an interface of the agent
  cliBusy,   \* the clients whose status is sta_state_in_use
  ethBusy,   \* the Ethernet interface is in use
  fresh      \* the steps the agent has reported since their last poll

gatewayVars == <<case, pc, gst, gcnt, gip, keyed, cliBusy, ethBusy, fresh>>
vars == <<agentVars, faults, gatewayVars>>

Clients == 0 .. NClients - 1
GatewayStates == {"pending"} \cup AgentStepStates
Testing == [at |-> "test", step |-> 0]
At(where, s) == [at |-> where, step |-> s]

GatewayInit ==
  /\ case = 1
  /\ pc = Testing
  /\ gst = [s \in Steps |-> "pending"]
  /\ gcnt = [s \in Steps |-> 0]
  /\ gip = [s \in Steps |-> FALSE]
  /\ keyed = {}
  /\ cliBusy = {}
  /\ ethBusy = FALSE
  /\ fresh = {}

Init == AgentInit /\ GatewayInit

Job(s) == [num |-> s, case |-> case]
Stations == {s \in Steps : Is(s, "sta")}
Ethernets == {s \in Steps : Is(s, "eth")}

(* The request is lost, or there is no agent any more. *)
Unanswered == AgentUnchanged /\ (IF up THEN Fault("http") ELSE NoFault)

Becomes(s, st) == gst' = [gst EXCEPT ![s] = st]

Waits(s, ip) ==
  Becomes(s, IF plan[s].fork /\ (ip \/ s \notin Stations \cup Ethernets)
             THEN "wait" ELSE "continue")

------------------------------------------------------------------------------
(* send_external_agent_start_command(), send_external_agent_stop_command(). *)
StartSent == up /\ agent_start(TRUE) /\ NoFault
StartFailed ==
  \/ Unanswered
  \/ up /\ agent_start(TRUE) /\ Fault("answer")
  \/ up /\ agent_start(FALSE) /\ Fault("thread")

StopSent ==
  \/ up /\ agent_stop /\ NoFault
  \/ ~up /\ AgentUnchanged /\ NoFault
  \/ AgentUnchanged /\ Fault("stop")

Turn(s) ==
  /\ pc = Testing
  /\ gst[s] = "pending"
  /\ \A e \in Steps : gst[e] # "abort"
  /\ \A e \in Steps : e < s => gst[e] \in {"wait", "results"}

(* add_sta() takes the first free client and starts the agent; a client it  *)
(* took stays in use when that fails.                                      *)
BeginSta(s) ==
  /\ Turn(s)
  /\ s \in Stations
  /\ \/ /\ cliBusy = Clients
        /\ Becomes(s, "abort")
        /\ AgentUnchanged /\ NoFault
        /\ UNCHANGED <<cliBusy, pc>>
     \/ /\ cliBusy # Clients
        /\ LET free == Clients \ cliBusy
           IN cliBusy' = cliBusy \cup {CHOOSE c \in free :
                                          \A d \in free : c <= d}
        /\ \/ StartSent /\ pc' = At("status", s) /\ UNCHANGED gst
           \/ StartFailed /\ Becomes(s, "abort") /\ UNCHANGED pc
  /\ UNCHANGED <<case, gcnt, gip, keyed, ethBusy, fresh>>

(* The Ethernet step has its interface, and its key, before the agent is    *)
(* asked.                                                                  *)
BeginEth(s) ==
  /\ Turn(s)
  /\ s \in Ethernets
  /\ \/ /\ ethBusy
        /\ Becomes(s, "abort")
        /\ AgentUnchanged /\ NoFault
        /\ UNCHANGED <<ethBusy, keyed, pc>>
     \/ /\ ~ethBusy
        /\ ethBusy' = TRUE
        /\ keyed' = keyed \cup {s}
        /\ \/ StartSent /\ pc' = At("status", s) /\ UNCHANGED gst
           \/ StartFailed /\ Becomes(s, "abort") /\ UNCHANGED pc
  /\ UNCHANGED <<case, gcnt, gip, cliBusy, fresh>>

(* iperf runs on the interface of an earlier step, which must have an       *)
(* address; the agent is started already.                                  *)
Interfaces(s) == {e \in keyed : e < s /\ gip[e]}

BeginIperf(s) ==
  /\ Turn(s)
  /\ s \notin Stations \cup Ethernets
  /\ \/ Interfaces(s) = {} /\ Becomes(s, "abort") /\ UNCHANGED pc
     \/ Interfaces(s) # {} /\ pc' = At("config", s) /\ UNCHANGED gst
  /\ AgentUnchanged /\ NoFault
  /\ UNCHANGED <<case, gcnt, gip, keyed, cliBusy, ethBusy, fresh>>

(* A failure after the start is followed by a stop for Ethernet only. *)
Fails(s) ==
  /\ Becomes(s, "abort")
  /\ pc' = IF s \in Ethernets THEN At("stop", s) ELSE Testing

(* An empty status cannot be decoded. *)
GetStatus(s) ==
  /\ pc = At("status", s)
  /\ \/ /\ up /\ json # Empty
        /\ pc' = At("config", s)
        /\ AgentUnchanged /\ NoFault /\ UNCHANGED gst
     \/ /\ up /\ json = Empty
        /\ Fails(s)
        /\ AgentUnchanged /\ NoFault
     \/ Unanswered /\ Fails(s)
  /\ UNCHANGED <<case, gcnt, gip, keyed, cliBusy, ethBusy, fresh>>

(* The file is posted and status_code is 200.  Without an answer            *)
(* http_post_file() does not write it, which add_sta() does not notice, and *)
(* a stack that has this value from an earlier request is believed.         *)
Posted(s) ==
  \/ up /\ agent_endpoint_testconfig(Job(s), TRUE) /\ NoFault
  \/ up /\ agent_endpoint_testconfig(Job(s), FALSE) /\ Fault("device")
  \/ AgentUnchanged /\ Fault("unset")

(* http_post_file() fails, which may be after the agent has the file. *)
NotPosted(s) ==
  \/ Unanswered
  \/ up /\ agent_endpoint_testconfig(Job(s), TRUE) /\ Fault("answer")

(* The client of an external station is always the first of the agent. *)
PostConfig(s) ==
  /\ pc = At("config", s)
  /\ \/ /\ Posted(s)
        /\ pc' = Testing
        /\ Waits(s, gip[s])
        /\ keyed' = IF s \in Stations THEN keyed \cup {s} ELSE keyed
        /\ cliBusy' = IF s \in Stations THEN cliBusy \cup {0} ELSE cliBusy
        /\ fresh' = fresh \ {s}
     \/ /\ NotPosted(s)
        /\ Fails(s)
        /\ UNCHANGED <<keyed, cliBusy, fresh>>
  /\ UNCHANGED <<case, gcnt, gip, ethBusy>>

SendStop(s) ==
  /\ pc = At("stop", s)
  /\ StopSent
  /\ pc' = Testing
  /\ UNCHANGED <<case, gst, gcnt, gip, keyed, cliBusy, ethBusy, fresh>>

------------------------------------------------------------------------------
(* step_timeout().  The status tells of a step by its number; the case it   *)
(* belongs to is not told.                                                 *)
ListedAnyCase_Bug(s) == IF json.steps = <<>> THEN 0 ELSE 1
Listed(s) == SelectInSeq(json.steps, LAMBDA step : step.job.num = s)

Overtime(s, cnt) ==
  /\ json.state = "running"
  /\ \/ s \in Stations /\ Time + external_sta_grace_timeout <= cnt
     \/ s \in Ethernets /\ Time + external_sta_grace_timeout = cnt

(* download_external_agent_result_files() of the files the step is listed   *)
(* with; the one of iperf_stop is not asked for.                           *)
Downloaded(i) ==
  LET step == json.steps[i]
  IN plan[step.job.num].kind \in {"eth", "iperf"} =>
       agent_endpoint_results(step.job)

Delivers(s, i, st) ==
  \/ Downloaded(i) /\ Becomes(s, st) /\ NoFault
  \/ ~Downloaded(i) /\ Becomes(s, "abort") /\ NoFault
  \/ Becomes(s, "abort") /\ Fault("http")

(* A status without the step is read behind its end when the time is over. *)
OverTime(s) ==
  IF Listed(s) = 0 THEN gst' \in {[gst EXCEPT ![s] = "results"],
                                  [gst EXCEPT ![s] = "abort"]} /\ NoFault
  ELSE Delivers(s, Listed(s), json.steps[Listed(s)].st)

TakesOver(s, i) ==
  LET st == json.steps[i].st
  IN \/ st = "results" /\ Delivers(s, i, "results")
     \/ st = "abort" /\ Becomes(s, "abort") /\ NoFault
     \/ st \in {"continue", "wait"} /\ Waits(s, gip'[s]) /\ NoFault

IdleAtThree_Bug(s, cnt) == FALSE
IdleAtThree(s, cnt) == cnt = 3 /\ json.state = "idle"

Polled(s) ==
  LET cnt == gcnt[s] + 1
      i == Listed(s)
      gives_up == \/ IdleAtThree(s, cnt)
                  \/ json.state = "fail" /\ ~Overtime(s, cnt)
  IN /\ gcnt' = [gcnt EXCEPT ![s] =
                   IF cnt <= Time + external_sta_grace_timeout THEN cnt
                   ELSE Time + external_sta_grace_timeout + 1]
     /\ gip' = IF gives_up \/ i = 0 THEN gip
               ELSE [gip EXCEPT ![s] = gip[s] \/ json.steps[i].ip]
     /\ IF gives_up THEN Becomes(s, "abort") /\ NoFault
        ELSE IF Overtime(s, cnt) THEN OverTime(s)
        ELSE IF i = 0 THEN Waits(s, gip[s]) /\ NoFault
        ELSE TakesOver(s, i)
     /\ pc' = IF json.state = "fail" /\ s \in Ethernets
                 /\ ~IdleAtThree(s, cnt) /\ gst'[s] = "abort"
              THEN At("stop", s) ELSE pc

Settled == "tick" \in Patient => Quiet \/ ~up

step_timeout(s) ==
  /\ pc = Testing
  /\ gst[s] \in {"continue", "wait"}
  /\ \A e \in Steps : gst[e] # "abort"
  /\ Settled
  /\ "tick" \in Patient => s \in fresh \/ thr \in {"none", "over"} \/ ~up
  /\ \/ up /\ json # Empty /\ Polled(s)
     \/ /\ up /\ json = Empty
        /\ Becomes(s, "abort") /\ NoFault
        /\ UNCHANGED <<gcnt, gip, pc>>
     \/ Unanswered /\ Becomes(s, "abort") /\ UNCHANGED <<gcnt, gip, pc>>
  /\ AgentUnchanged
  /\ fresh' = fresh \ {s}
  /\ UNCHANGED <<case, keyed, cliBusy, ethBusy>>

------------------------------------------------------------------------------
(* The test ends; each step with a key stops the agent.  remove_sta()       *)
(* compares the addresses of the clients with the text of the key and       *)
(* frees none, remove_eth_intf() frees the interface.                      *)
TestEnds ==
  /\ pc = Testing
  /\ \/ \E s \in Steps : gst[s] = "abort"
     \/ \A s \in Steps : gst[s] = "results"
  /\ pc' = At("remove", 0)
  /\ AgentUnchanged /\ NoFault
  /\ UNCHANGED <<case, gst, gcnt, gip, keyed, cliBusy, ethBusy, fresh>>

remove_eth_intf(s) == ethBusy' = (ethBusy /\ s \notin keyed \cap Ethernets)

step_remove(s) ==
  /\ pc = At("remove", s)
  /\ IF s \in keyed THEN StopSent ELSE AgentUnchanged /\ NoFault
  /\ remove_eth_intf(s)
  /\ pc' = IF s + 1 \in Steps THEN At("remove", s + 1) ELSE At("over", 0)
  /\ UNCHANGED <<case, gst, gcnt, gip, keyed, cliBusy, fresh>>

NextCase ==
  /\ pc = At("over", 0)
  /\ case < MaxCases
  /\ "case" \in Patient => Quiet \/ ~up
  /\ case' = case + 1
  /\ pc' = Testing
  /\ gst' = [s \in Steps |-> "pending"]
  /\ gcnt' = [s \in Steps |-> 0]
  /\ gip' = [s \in Steps |-> FALSE]
  /\ keyed' = {}
  /\ fresh' = {}
  /\ AgentUnchanged /\ NoFault
  /\ UNCHANGED <<cliBusy, ethBusy>>

Over ==
  /\ pc = At("over", 0)
  /\ case = MaxCases
  /\ UNCHANGED vars

Gateway ==
  \/ \E s \in Steps :
       \/ BeginSta(s) \/ BeginEth(s) \/ BeginIperf(s)
       \/ GetStatus(s) \/ PostConfig(s) \/ SendStop(s)
       \/ step_timeout(s) \/ step_remove(s)
  \/ TestEnds
  \/ NextCase

Second ==
  /\ "tick" \in Patient => sigs = {}
  /\ TestTicks
  /\ UNCHANGED gatewayVars
Main == ext_emu_state_machine /\ UNCHANGED gatewayVars
Handler == HandlerReads /\ UNCHANGED gatewayVars
Thread ==
  /\ TestThread
  /\ fresh' = IF thr = "report" /\ thr' = "run" THEN Steps ELSE fresh
  /\ UNCHANGED <<case, pc, gst, gcnt, gip, keyed, cliBusy, ethBusy>>
Events == (\E d \in Devs : sta_connection_status(d)) /\ UNCHANGED gatewayVars

Next == Gateway \/ Second \/ Main \/ Handler \/ Thread \/ Events \/ Over

Spec ==
  /\ Init /\ [][Next]_vars
  /\ WF_vars(Gateway) /\ WF_vars(Second)
  /\ WF_vars(Main) /\ WF_vars(Handler) /\ WF_vars(Thread)

------------------------------------------------------------------------------
(* The results the gateway takes for a step are those of this test case,    *)
(* although the status of the agent tells steps by their number only and    *)
(* the same agent has run the same numbers before.  The exception is an     *)
(* agent whose test thread could not be created: it keeps the object,      *)
(* answers that it is started, and its last status is that of another test. *)
WithoutThread == obj /\ thr = "none"

ResultsAreOwn ==
  WithoutThread \/ \A s \in Steps : gst[s] = "results" => Job(s) \in ended

(* The main thread of the agent deletes a test object only when its thread  *)
(* has sent its last signal.                                               *)
DeletesOnlyEnded == [][obj /\ ~obj' => thr = "over"]_vars

(* A step the agent has finished is not spoiled on its way to the gateway   *)
(* by the agent emptying its directory or dropping its status: it is        *)
(* aborted only after a failure, or when the agent reports a step that it   *)
(* could not execute, which fails the test.                                *)
FinishedIsDelivered ==
  [][\A s \in Steps :
       /\ gst[s] \in {"continue", "wait"} /\ gst'[s] = "abort"
       /\ Job(s) \in ended
       => \/ faults' > 0 \/ ~up
          \/ \E i \in DOMAIN json.steps : json.steps[i].st = "abort"]_vars

(* An agent that is up works on the steps of the present test case only. *)
OnlyThisCase ==
  up => \A i \in DOMAIN asteps : asteps[i].job.case = case

(* Every test case of the gateway comes to its end. *)
Ends == <>(pc = At("over", 0) /\ case = MaxCases)
=============================================================================
