------------------------------- MODULE StaStep ------------------------------
(***************************************************************************)
(* The station management step (test_step_param_sta_management) on         *)
(* simulated and on real clients, and the pool of simulated devices it     *)
(* takes them from (wlan_emu_sim_sta_mgr_t).                               *)
(*                                                                         *)
(* The pool lives as long as the program; test cases come one after the    *)
(* other.  All of a step's functions run on the test thread, so each is    *)
(* one action.  Of the engine (StepEngine) only the order is kept here: a  *)
(* step is executed when no step before it holds the test, step_timeout()  *)
(* and the frames reach the steps that wait, and the steps are removed     *)
(* when all have results or one aborted.                                   *)
(*                                                                         *)
(* Addresses, bridges and signal levels are left out, and with them the    *)
(* heart beats and the timer after which the radio is asked to reconnect:  *)
(* a client that was disconnected may join again at any time.              *)
(***************************************************************************)
EXTENDS StepKinds, Collection, FiniteSets

CONSTANTS
  N,         \* the number of steps of a test case
  Configs,   \* the station configurations its steps are drawn from
  NDevices,  \* m_sta_info_count, the length of the pool
  Base,      \* the base in which the number of a device is written (10)
  MaxCases,  \* bound: test cases
  MaxFrames, \* bound: frames of the clients in a test case
  MaxFaults  \* bound: failed operations

Steps == 0 .. N - 1
Devices == 0 .. NDevices - 1

(* What decode_step_sta_management_config() and decode_step_common_config() *)
(* leave in the step.  pattern is the list of durations of SignalPattern.  *)
Config == [conn : {"internal", "real"}, clients : Nat, fork : BOOLEAN,
           waits : BOOLEAN, capture : BOOLEAN, time : Nat,
           reconnect : BOOLEAN, interval : Nat, pattern : Seq(Nat)]

ASSUME StaAssumption ==
  /\ N \in Nat \ {0}
  /\ NDevices \in Nat
  /\ Base \in Nat \ {0, 1}
  /\ NDevices <= Base * Base    \* a name has at most two digits
  /\ MaxCases \in Nat \ {0}
  /\ MaxFrames \in Nat
  /\ MaxFaults \in Nat
  /\ Configs \subseteq Config

VARIABLES
  plan,     \* the configuration of each step
  st,       \* test_state of each step, "removed" once it is deleted
  cnt,      \* timeout_count
  prof,     \* the profile of SignalPattern that is played, and its counter
  clients,  \* connected_client_info_q of each step
  busy,     \* the devices whose status is sta_state_in_use
  map,      \* m_sta_map: the keys of the stations, newest first
  cases,    \* test cases begun
  frames,   \* frames in this test case
  faults,   \* failed operations
  clean     \* history: none of the known causes of a leak happened

vars == <<plan, st, cnt, prof, clients, busy, map, cases, frames, faults,
          clean>>
poolVars == <<busy, map>>

CountCap(s) == plan[s].time + 1
Clients == [dev : Devices, assoc : BOOLEAN, sent : BOOLEAN, gone : BOOLEAN]
Keys == [num : Steps, dev : Devices]

NewStates  == [s \in Steps |-> "request"]
NewCounts  == [s \in Steps |-> 0]
NewProfs   == [s \in Steps |-> [at |-> 1, counter |-> 0]]
NewClients == [s \in Steps |-> <<>>]

(* init() of the manager: every interface with a name is a free device. *)
Init ==
  /\ plan \in [Steps -> Configs]
  /\ st = NewStates
  /\ cnt = NewCounts
  /\ prof = NewProfs
  /\ clients = NewClients
  /\ frames = 0
  /\ busy = {}
  /\ map = <<>>
  /\ cases = 1
  /\ faults = 0
  /\ clean = TRUE

------------------------------------------------------------------------------
(* The keys "%d-%d" of test_id, which is the number of the step, and device *)
(* position.  The first number ends at the dash; of the second the key that *)
(* is asked for may be a proper beginning.                                  *)
Begins(d, e) == d = e \/ (d # 0 /\ e \div Base = d)

Matching(k) == {e \in Keys : e.num = k.num /\ Begins(k.dev, e.dev)}

Found(m, k) == hash_map_find(m, Matching(k))
HasStation(m, k) == Found(m, k) # 0

remove_staByStep_Bug(m, k) == hash_map_remove(m, {e \in Keys : e.num = k.num})

(* remove_sta() of the client with key k, on m_sta_map. *)
remove_sta(m, k) == hash_map_remove(m, Matching(k))

Key(s, c) == [num |-> s, dev |-> c.dev]

(* A loop over clients that removes the stations of some of them. *)
RemoveClients(s, q, whom) ==
  LET after[n \in 0 .. Len(q)] ==
        IF n = 0 THEN map
        ELSE IF q[n] \in whom THEN remove_sta(after[n - 1], Key(s, q[n]))
        ELSE after[n - 1]
  IN after[Len(q)]

Associated(q) == {c \in ToSet(q) : c.assoc}

(* The device of every station that was removed is free again. *)
SetStations(m) ==
  /\ map' = m
  /\ busy' = busy \ {e.dev : e \in ToSet(map) \ ToSet(m)}

Gone(q) == [i \in DOMAIN q |-> [q[i] EXCEPT !.gone = TRUE]]

(* Two clients of a step with names of which one begins the other. *)
Collide(S) == \E d, e \in S : d # e /\ Begins(d, e)

------------------------------------------------------------------------------
(* A step is executed when the steps before it let the test go on. *)
Turn(s) ==
  /\ st[s] = "request"
  /\ \A t \in Steps : t < s => st[t] \in {"wait", "results"}

Fault == faults < MaxFaults /\ faults' = faults + 1

Aborts(s) == st' = [st EXCEPT ![s] = "abort"]

(* step_execute() when the configuration cannot be decoded, or when the     *)
(* request for a real client cannot be posted.                             *)
ExecuteFails(s) ==
  /\ Turn(s)
  /\ Fault
  /\ Aborts(s)
  /\ UNCHANGED <<plan, cnt, prof, clients, poolVars, cases, frames, clean>>

(* The post-condition of step_execute() once the clients are there: a       *)
(* simulated client without a capture has its results at once, and then    *)
(* the list of stations is written and uploaded.                           *)
Executed(s) ==
  \/ /\ st' = [st EXCEPT ![s] =
                  IF plan[s].conn = "real" \/ plan[s].capture
                    THEN "continue" ELSE "results"]
     /\ UNCHANGED faults
  \/ Fault /\ Aborts(s)

ExecuteReal(s) ==
  /\ Turn(s)
  /\ plan[s].conn = "real"
  /\ Executed(s)
  /\ UNCHANGED <<plan, cnt, prof, clients, poolVars, cases, frames, clean>>

Free == Devices \ busy

FirstFreeIgnoresBusy_Bug(k) == 0 .. k - 1

(* What find_first_free_dev() returns in k calls, each marked as busy. *)
FirstFree(k) ==
  CHOOSE S \in SUBSET Free :
    Cardinality(S) = k /\ \A d \in S, e \in Free \ S : d < e

(* A device cannot be prepared: the driver refuses it, or a frame of the    *)
(* prototypes cannot be found or sent.                                     *)
ConfigureFails(s) ==
  /\ \E k \in 1 .. plan[s].clients :
       k <= Cardinality(Free) /\ busy' = busy \cup FirstFree(k)
  /\ Fault

NoneFree(s) ==
  /\ plan[s].clients > Cardinality(Free)
  /\ busy' = Devices
  /\ UNCHANGED faults

(* add_sta(), first loop: a device is marked before anything is done to it, *)
(* and when the loop fails what was marked so far stays marked and no      *)
(* client was added.                                                       *)
PrepareFails(s) ==
  /\ Turn(s)
  /\ plan[s].conn = "internal"
  /\ ConfigureFails(s) \/ NoneFree(s)
  /\ Aborts(s)
  /\ clean' = FALSE
  /\ UNCHANGED <<plan, cnt, prof, clients, map, cases, frames>>

Descending(S) ==
  CHOOSE q \in [1 .. Cardinality(S) -> S] :
    \A i, j \in DOMAIN q : i < j => q[i] > q[j]

NewClient(d) == [dev |-> d, assoc |-> TRUE, sent |-> FALSE, gone |-> FALSE]

AddedTo(m, s, S) ==
  [i \in DOMAIN Descending(S) |-> [num |-> s, dev |-> Descending(S)[i]]] \o m

(* add_sta(), second loop: a client that does not connect is left out, and  *)
(* its device stays marked.                                                *)
ExecuteInternal(s) ==
  /\ Turn(s)
  /\ plan[s].conn = "internal"
  /\ plan[s].clients <= Cardinality(Free)
  /\ LET S == FirstFree(plan[s].clients) IN
       \E C \in SUBSET S :
         /\ C # S => faults < MaxFaults
         /\ busy' = busy \cup S
         /\ map' = AddedTo(map, s, C)
         /\ clients' = [clients EXCEPT ![s] =
              [i \in DOMAIN Descending(C) |-> NewClient(Descending(C)[i])]]
         /\ clean' = (clean /\ C = S /\ ~Collide(S))
         /\ IF C = S THEN Executed(s)
            ELSE /\ faults' = faults + 1
                 /\ st' = [st EXCEPT ![s] =
                             IF plan[s].capture THEN "continue" ELSE "results"]
  /\ UNCHANGED <<plan, cnt, prof, cases, frames>>

------------------------------------------------------------------------------
CountUpSerial_Bug(s) ==
  IF st[s] = "continue" /\ cnt[s] < CountCap(s) THEN cnt[s] + 1 ELSE cnt[s]

CountUp(s) == IF cnt[s] < CountCap(s) THEN cnt[s] + 1 ELSE cnt[s]

Running(s) ==
  /\ st[s] \in Waiting
  /\ \A t \in Steps : st[t] # "abort"

(* step_timeout_real_sta(): past its time a step is left as it is. *)
TimeoutReal(s) ==
  /\ Running(s)
  /\ plan[s].conn = "real"
  /\ cnt' = [cnt EXCEPT ![s] = CountUp(s)]
  /\ st' = [st EXCEPT ![s] =
              IF CountUp(s) = plan[s].time THEN "results"
              ELSE IF plan[s].time > CountUp(s) THEN "continue" ELSE @]
  /\ UNCHANGED <<plan, prof, clients, poolVars, cases, frames, faults, clean>>

TimeIsUp(s) == plan[s].time = CountUp(s)

(* The profile after one more second: at its duration the next one, in the  *)
(* order of the list, is played.                                           *)
Played(s) ==
  LET p == prof[s] IN
  IF p.at > Len(plan[s].pattern) THEN p
  ELSE IF p.counter + 1 >= plan[s].pattern[p.at]
         THEN [at |-> p.at + 1, counter |-> 0]
         ELSE [p EXCEPT !.counter = @ + 1]

PatternEnds(s) ==
  /\ prof[s].at <= Len(plan[s].pattern)
  /\ Played(s).at > Len(plan[s].pattern)

RemovedAllAssociated_Bug(s, q) ==
  /\ SetStations(RemoveClients(s, q, Associated(q)))
  /\ clients' = [clients EXCEPT ![s] = Gone(q)]
  /\ st' = [st EXCEPT ![s] = "results"]

(* Every client of the step is removed, the newest first, whatever it is    *)
(* associated.                                                             *)
RemovedAll(s, q) ==
  /\ SetStations(RemoveClients(s, q, ToSet(q)))
  /\ clients' = [clients EXCEPT ![s] = Gone(q)]
  /\ st' = [st EXCEPT ![s] = "results"]

TimeoutEnds(s) ==
  /\ Running(s)
  /\ plan[s].conn = "internal"
  /\ cnt' = [cnt EXCEPT ![s] = CountUp(s)]
  /\ TimeIsUp(s)
  /\ RemovedAll(s, clients[s])
  /\ UNCHANGED <<plan, prof, cases, frames, faults, clean>>

Interval(s) ==
  /\ plan[s].reconnect
  /\ plan[s].interval > 0
  /\ CountUp(s) % plan[s].interval = 0

(* Every reconnect_interval seconds the associated clients are disconnected *)
(* to see them come back; disconnect_sta() leaves the device and the entry *)
(* where they are.                                                         *)
Disconnected(s, q, ok) ==
  [i \in DOMAIN q |->
     IF q[i].assoc
       THEN [q[i] EXCEPT !.assoc = FALSE,
                         !.sent = @ \/ (ok /\ HasStation(map, Key(s, q[i])))]
       ELSE q[i]]

AfterInterval(s, ok) ==
  IF Interval(s) THEN Disconnected(s, clients[s], ok) ELSE clients[s]

(* What the loop over the clients leaves: each client writes the state, and *)
(* the loop ends with the oldest.                                          *)
WaitState(s, q) ==
  IF q = <<>> THEN st[s]
  ELSE IF plan[s].fork
    THEN IF plan[s].waits /\ ~queue_oldest(q).assoc THEN "continue" ELSE "wait"
  ELSE IF plan[s].time > CountUp(s) THEN "continue" ELSE st[s]

TimeoutInternal(s) ==
  /\ Running(s)
  /\ plan[s].conn = "internal"
  /\ cnt' = [cnt EXCEPT ![s] = CountUp(s)]
  /\ ~TimeIsUp(s)
  /\ \E ok \in BOOLEAN :
       /\ IF ok THEN UNCHANGED faults ELSE Interval(s) /\ Fault
       /\ LET q == AfterInterval(s, ok) IN
          \/ /\ PatternEnds(s)
             /\ RemovedAll(s, q)
          \/ /\ ~PatternEnds(s)
             /\ clients' = [clients EXCEPT ![s] = q]
             /\ st' = [st EXCEPT ![s] = WaitState(s, q)]
             /\ UNCHANGED poolVars
  /\ prof' = [prof EXCEPT ![s] = Played(s)]
  /\ UNCHANGED <<plan, cases, frames, clean>>

------------------------------------------------------------------------------
(* step_frame_filter() on a frame of client i of a step that waits.  The    *)
(* first deauthentication only disconnects; a disassociation, or a second  *)
(* one, removes the station unless it is to reconnect.                     *)
FrameOf(s, i) ==
  /\ Running(s)
  /\ frames < MaxFrames
  /\ frames' = frames + 1
  /\ i \in DOMAIN clients[s]

Deauth(s, i) ==
  /\ FrameOf(s, i)
  /\ ~clients[s][i].sent
  /\ clients' = [clients EXCEPT ![s][i].sent = TRUE]
  /\ UNCHANGED <<plan, st, cnt, prof, poolVars, cases, faults, clean>>

Left(s, c) ==
  [c EXCEPT !.assoc = FALSE, !.gone = TRUE,
            !.sent = @ \/ HasStation(map, Key(s, c))]

RemoveOnFrame(s, i) ==
  /\ FrameOf(s, i)
  /\ ~plan[s].reconnect
  /\ clients[s][i].assoc
  /\ clients' = [clients EXCEPT ![s][i] = Left(s, @)]
  /\ SetStations(remove_sta(map, Key(s, clients[s][i])))
  /\ UNCHANGED <<plan, st, cnt, prof, cases, faults, clean>>

(* The third message of a key exchange, or an association response where    *)
(* there is no security; only the first clears is_disconnection_sent.      *)
Joined(s, i) ==
  /\ FrameOf(s, i)
  /\ \E sent \in {FALSE, clients[s][i].sent} :
       clients' = [clients EXCEPT ![s][i] =
                     [@ EXCEPT !.assoc = TRUE, !.sent = sent]]
  /\ UNCHANGED <<plan, st, cnt, prof, poolVars, cases, faults, clean>>

------------------------------------------------------------------------------
CaseOver ==
  \/ \A s \in Steps : st[s] \in {"results", "removed"}
  \/ \E s \in Steps : st[s] = "abort"
  \/ \E s \in Steps : st[s] = "removed"

step_removeInverted_Bug(s) ==
  SetStations(RemoveClients(s, clients[s],
                ToSet(clients[s]) \ Associated(clients[s])))

(* step_remove(): the clients are popped, the oldest first, and only those  *)
(* that are associated are removed from the pool.                          *)
step_remove(s) ==
  SetStations(RemoveClients(s, queue_popped(clients[s]),
                Associated(clients[s])))

RemoveStep(s) ==
  /\ CaseOver
  /\ st[s] # "removed"
  /\ \A t \in Steps : t < s => st[t] = "removed"
  /\ step_remove(s)
  /\ st' = [st EXCEPT ![s] = "removed"]
  /\ clients' = [clients EXCEPT ![s] = <<>>]
  /\ clean' = (clean /\ ~(plan[s].reconnect /\ st[s] \in Waiting))
  /\ UNCHANGED <<plan, cnt, prof, cases, frames, faults>>

AllRemoved == \A s \in Steps : st[s] = "removed"

(* The next test case, on the pool that this one left. *)
NextCase ==
  /\ AllRemoved
  /\ cases < MaxCases
  /\ cases' = cases + 1
  /\ plan' \in [Steps -> Configs]
  /\ st' = NewStates
  /\ cnt' = NewCounts
  /\ prof' = NewProfs
  /\ clients' = NewClients
  /\ frames' = 0
  /\ UNCHANGED <<poolVars, faults, clean>>

Finished == AllRemoved /\ cases = MaxCases /\ UNCHANGED vars

Execute(s) ==
  ExecuteFails(s) \/ ExecuteReal(s) \/ PrepareFails(s) \/ ExecuteInternal(s)
Timeout(s) == TimeoutReal(s) \/ TimeoutEnds(s) \/ TimeoutInternal(s)
Frame(s) ==
  \E i \in 1 .. NDevices : Deauth(s, i) \/ RemoveOnFrame(s, i) \/ Joined(s, i)

(* What the test thread and the control loop do of their own. *)
Progress ==
  \/ \E s \in Steps : Execute(s) \/ Timeout(s) \/ RemoveStep(s)
  \/ NextCase

Next == Progress \/ (\E s \in Steps : Frame(s)) \/ Finished

(* The test thread and the control loop go on; no frame has to arrive. *)
Fairness == WF_vars(Progress)

Spec == Init /\ [][Next]_vars /\ Fairness
------------------------------------------------------------------------------
(* Every station of m_sta_map is on a device of its own that is marked as   *)
(* in use: find_first_free_dev() never gives away a device a station is on. *)
StationsOnBusyDevices ==
  /\ \A i \in DOMAIN map : map[i].dev \in busy
  /\ \A i, j \in DOMAIN map : i # j => map[i].dev # map[j].dev

(* While the names of the clients of a step do not collide, remove_sta()    *)
(* takes the station it was called for and no other, whichever step, timer *)
(* or frame asked: a client has its station until it is removed, and not   *)
(* after.                                                                  *)
RemovalIsOwn ==
  \A s \in Steps :
    LET q == clients[s] IN
    ~Collide({q[i].dev : i \in DOMAIN q}) =>
      \A i \in DOMAIN q : q[i].gone <=> Key(s, q[i]) \notin ToSet(map)

(* A step that ended by its time or its signal pattern has left none of its *)
(* stations behind, associated or not.                                     *)
EndedIsDisconnected ==
  \A s \in Steps :
    /\ st[s] = "results"
    /\ plan[s].conn = "internal"
    /\ plan[s].capture
    => \A i \in DOMAIN clients[s] :
         clients[s][i].gone /\ Key(s, clients[s][i]) \notin ToSet(map)

(* As long as no add_sta() failed, no names collided and no step that       *)
(* reconnects was removed before its end, a test case gives back every     *)
(* device it took when its steps are removed, whatever else failed.        *)
NothingLeaked == AllRemoved /\ clean => map = <<>> /\ busy = {}

(* Every test case comes to an end, and all its steps are removed. *)
Ends == <>(AllRemoved /\ cases = MaxCases)
=============================================================================
