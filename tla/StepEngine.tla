------------------------------ MODULE StepEngine -----------------------------
(***************************************************************************)
(* The execution of one test case: wlan_emu_tests_t (src/tests/            *)
(* wlan_emu_tests.cpp) with the message manager that feeds it.             *)
(*                                                                         *)
(* Three threads and the workers of steps run here:                        *)
(*   - the test thread, test_function(): triggers a step, waits for        *)
(*     messages or one second, lets the steps time out, picks the next;    *)
(*   - the message handler thread: reads /dev/rdkfmac_dev and pushes each  *)
(*     message to the subscribed test;                                     *)
(*   - the main thread, start(): creates the test thread, subscribes the   *)
(*     test, joins;                                                        *)
(*   - the worker of an asynchronous step: its detached thread, or the     *)
(*     handler of the bus event it subscribed to.                          *)
(* A step is triggered by a tstart message that the test thread writes to  *)
(* the device and reads back through the handler; whatever step is current *)
(* when it is read back is the one that is executed.                       *)
(*                                                                         *)
(* The test thread works under m_lock, which no other thread takes: it is  *)
(* not modelled.  Steps are numbered 0..N-1 by step_seq_num.               *)
(***************************************************************************)
EXTENDS StepKinds, Integers, Sequences, FiniteSets

CONSTANTS
  N,          \* the number of steps of the test case
  Kinds,      \* the classes its steps are drawn from
  Forks,      \* the values of "Fork" its steps may have
  Time,       \* the ExecutionTime of a step, in ticks of POLL_PERIOD
  Width,      \* the number of bits of pending_steps (32 in the code)
  MaxFrames,  \* bound: messages from OneWifi and the drivers
  MaxFaults   \* bound: failed operations on the device

ASSUME NAssumption     == N \in Nat \ {0}
ASSUME KindsAssumption == Kinds \subseteq StepClasses
ASSUME ForksAssumption == Forks \subseteq BOOLEAN
ASSUME BoundAssumption == /\ Time \in Nat
                          /\ Width \in Nat \ {0}
                          /\ MaxFrames \in Nat
                          /\ MaxFaults \in Nat

Steps == 0 .. N - 1

VARIABLES
  plan,     \* the decoded test case: class, fork and stop target of each step
  st,       \* test_state of each step
  cnt,      \* timeout_count of each step
  pend,     \* pending_steps, as the set of its bits
  cur,      \* current_test_step and the local `step' of test_function
  pc,       \* where the test thread is
  ti,       \* the step that the time-out loop is at
  sub,      \* the test is in m_tests of the message manager
  main,     \* where the main thread is in start()
  dev,      \* messages written to /dev/rdkfmac_dev and not yet read
  last,     \* the message the handler's buffer holds
  res,      \* m_results, the messages pushed to the test
  worker,   \* the detached thread or the bus subscription of each step
  verdict,  \* what test_done() or test_fail() signalled
  nexec,    \* history: the calls of step_execute() on each step
  lost,     \* history: a tstart did not reach the test
  frames,   \* messages of the environment so far
  faults    \* failed operations so far

planVars    == <<plan>>
stepVars    == <<st, cnt, worker, nexec>>
threadVars  == <<pend, cur, pc, ti, verdict>>
channelVars == <<sub, dev, last, res, lost>>
boundVars   == <<frames, faults>>
vars == <<planVars, stepVars, threadVars, channelVars, boundVars, main>>

Messages == {"tstart", "tstop", "webconfig", "other"}
NoTarget == N

(* timeout_count is only compared with ExecutionTime: all counts above it   *)
(* are one.                                                                 *)
CountCap == Time + 1
CountUp(n) == IF n < CountCap THEN n + 1 ELSE n

(* A test case as decode_step_config() leaves it.  A stop step names an     *)
(* earlier step of the class it stops, or a number that no step has; that   *)
(* of statistics repeats the data and the radio of the step it names, from  *)
(* which it builds the subscription to cancel.                              *)
Stopped(k) == IF k = "log_stop" THEN {"log_start"}
                                ELSE {"stats_start", "stats_timer"}
Plans ==
  {p \in [Steps -> [kind : Kinds, fork : Forks, target : 0 .. N]] :
     \A s \in Steps :
       \/ p[s].target = NoTarget
       \/ /\ p[s].kind \in Stops
          /\ p[s].target < s
          /\ p[p[s].target].kind \in Stopped(p[s].kind)}

Kind(s) == plan[s].kind
Fork(s) == plan[s].fork
Target(s) == plan[s].target

TypeOK ==
  /\ plan \in Plans
  /\ st \in [Steps -> StepStates]
  /\ cnt \in [Steps -> 0 .. CountCap]
  /\ pend \subseteq 0 .. Width - 1
  /\ cur \in Steps
  /\ pc \in {"loop", "drain", "parking", "tick", "ticking", "checking",
             "spin", "exited"}
  /\ ti \in 0 .. N
  /\ sub \in BOOLEAN
  /\ main \in {"create", "join", "joined"}
  /\ dev \in Seq(Messages)
  /\ last \in Messages \cup {"none"}
  /\ res \in Seq(Messages)
  /\ worker \in [Steps -> {"none", "running", "done"}]
  /\ verdict \in {"none", "done", "fail"}
  /\ nexec \in [Steps -> Nat]
  /\ lost \in BOOLEAN
  /\ frames \in 0 .. MaxFrames
  /\ faults \in 0 .. MaxFaults

------------------------------------------------------------------------------
(* Definitions whose name ends in _Bug are defects that an edit of the code  *)
(* could introduce.  No definition uses them: the sensitivity runs put one  *)
(* in the place of the definition it is named after, to see that the        *)
(* properties notice.                                                       *)
AllPending_Bug == IF N < Width THEN {0 .. N - 2} ELSE {Steps}

(* pending_steps = (1 << step_total) - 1, on an int of Width bits.  A shift *)
(* by Width or more is undefined: the processors the program is built for  *)
(* reduce the distance modulo Width, or shift every bit out.               *)
AllPending ==
  IF N < Width THEN {Steps}
               ELSE {0 .. (N % Width) - 1, 0 .. Width - 1}

ClearedKeepsOne_Bug(p, s) == {p \cap {s}}
ClearedNext_Bug(p, s) == {p \ {s + 1}}

(* clear_pending_step(): pending_steps &= ~(1 << step_seq_num). *)
Cleared(p, s) ==
  IF s < Width THEN {p \ {s}} ELSE {p \ {s % Width}, p}

Init ==
  /\ plan \in Plans
  /\ st = [s \in Steps |-> "request"]
  /\ cnt = [s \in Steps |-> 0]
  /\ pend \in AllPending
  /\ cur = 0
  /\ pc = "loop"
  /\ ti = 0
  /\ sub = FALSE
  /\ main = "create"
  /\ dev = <<>>
  /\ last = "none"
  /\ res = <<>>
  /\ worker = [s \in Steps |-> "none"]
  /\ verdict = "none"
  /\ nexec = [s \in Steps |-> 0]
  /\ lost = FALSE
  /\ frames = 0
  /\ faults = 0

------------------------------------------------------------------------------
(* send_ctrl_msg(): open and write may fail, which is only logged. *)
Send(m) ==
  \/ /\ dev' = Append(dev, m)
     /\ UNCHANGED <<lost, faults>>
  \/ /\ faults < MaxFaults
     /\ faults' = faults + 1
     /\ lost' = (lost \/ m = "tstart")
     /\ UNCHANGED dev

Stop_Bug(v) ==
  /\ Send("tstop")
  /\ verdict' = v
  /\ pc' = "exited"
  /\ UNCHANGED <<sub, cur>>

(* stop(), then test_done() or test_fail(), then pthread_exit(). *)
Stop(v) ==
  /\ Send("tstop")
  /\ sub' = FALSE
  /\ verdict' = v
  /\ pc' = "exited"
  /\ UNCHANGED cur

Continue(where) ==
  /\ pc' = where
  /\ UNCHANGED <<verdict, sub, dev, lost, faults>>

NextStepBackwards_Bug(s) == (s + N - 1) % N

(* The step after s in the queue; the first one follows the last one. *)
NextStep(s) == (s + 1) % N

(* t is the first step after s, in cyclic order and s itself last, whose    *)
(* state is not results.                                                    *)
NextUnfinished(s, t, state) ==
  \E i \in 1 .. N :
    /\ t = (s + i) % N
    /\ state[t] # "results"
    /\ \A j \in 1 .. i - 1 : state[(s + j) % N] = "results"

(* get_next_pending_step() and what test_function does with its answer.    *)
(* The search of a forked step counts down an unsigned int `>= 0' and has  *)
(* no other end than an unfinished step: without one it never returns.     *)
Advance(state, pending) ==
  \/ /\ pending = {}
     /\ Stop("done")
  \/ /\ pending # {}
     /\ ~Fork(cur)
     /\ cur' = NextStep(cur)
     /\ Continue("loop")
  \/ /\ pending # {}
     /\ Fork(cur)
     /\ NextUnfinished(cur, cur', state)
     /\ Continue("loop")
  \/ /\ pending # {}
     /\ Fork(cur)
     /\ \A s \in Steps : state[s] = "results"
     /\ Continue("spin")
     /\ UNCHANGED cur

------------------------------------------------------------------------------
(* The top of the loop: a step in state request becomes the current one,   *)
(* its tstart is sent and its state is start, in this order.               *)
Trigger ==
  /\ pc = "loop"
  /\ st[cur] = "request"
  /\ Send("tstart")
  /\ st' = [st EXCEPT ![cur] = "start"]
  /\ UNCHANGED <<plan, cnt, worker, nexec, pend, cur, pc, ti, verdict,
                 sub, last, res, frames, main>>

(* test_wait() returned 0, or m_results is not empty.  A condition variable *)
(* may also wake without a cause; then pop_msg() finds nothing.            *)
WakeDrain ==
  /\ pc = "loop"
  /\ st[cur] \in InProgress
  /\ res # <<>>
  /\ pc' = "drain"
  /\ UNCHANGED <<plan, stepVars, pend, cur, ti, verdict, channelVars,
                 boundVars, main>>

WakeResults_Bug ==
  /\ pc = "loop"
  /\ st[cur] = "results"
  /\ pend' \in Cleared(pend, cur)
  /\ \/ pend' = {} /\ Stop("done")
     \/ pend' # {} /\ Stop("fail")
  /\ UNCHANGED <<plan, stepVars, ti, last, res, frames, main>>

WakeResults ==
  /\ pc = "loop"
  /\ st[cur] = "results"
  /\ pend' \in Cleared(pend, cur)
  /\ Advance(st, pend')
  /\ UNCHANGED <<plan, stepVars, ti, last, res, frames, main>>

WakeAbort ==
  /\ pc = "loop"
  /\ st[cur] = "abort"
  /\ Stop("fail")
  /\ UNCHANGED <<plan, stepVars, pend, ti, last, res, frames, main>>

(* ETIMEDOUT with nothing in m_results.  t_start is zero until the first    *)
(* time-out, so the first deadline has always passed, and later ones are    *)
(* counted from the previous time-out: any moment may be one.               *)
WakeTimeout ==
  /\ pc = "loop"
  /\ st[cur] # "request"
  /\ res = <<>>
  /\ pc' = "tick"
  /\ ti' = 0
  /\ UNCHANGED <<plan, stepVars, pend, cur, verdict, channelVars, boundVars,
                 main>>

------------------------------------------------------------------------------
Pop_Bug == pc = "drain" /\ res # <<>> /\ UNCHANGED res

(* The loop that pops every message and gives it to run(). *)
Pop == pc = "drain" /\ res # <<>> /\ res' = Tail(res)

DrainEnd ==
  /\ pc = "drain"
  /\ res = <<>>
  /\ pc' = "loop"
  /\ UNCHANGED <<plan, stepVars, pend, cur, ti, verdict, channelVars,
                 boundVars, main>>

CountExecution == nexec' = [nexec EXCEPT ![cur] = @ + 1]

(* tstart: step_execute() of the step that is current now; an error makes  *)
(* its state abort.                                                        *)
ExecutePlain ==
  /\ Pop
  /\ Head(res) = "tstart"
  /\ Kind(cur) \in Plain
  /\ \E o \in ExecuteOutcomes(Kind(cur)) :
        st' = [st EXCEPT ![cur] = IF o.ok THEN o.state ELSE "abort"]
  /\ CountExecution
  /\ UNCHANGED <<plan, cnt, worker, threadVars, sub, dev, last, lost,
                 boundVars, main>>

StoppedWorker_Bug(s) == [worker EXCEPT ![cur] = "done"]

(* The thread is cancelled, or the bus told to unsubscribe, of step s. *)
StoppedWorker(s) ==
  [worker EXCEPT ![s] = IF @ = "running" THEN "done" ELSE @]

(* The stop of a log cancels the thread and closes what it reads; then the  *)
(* log is uploaded, which may fail.                                         *)
ExecuteLogStop ==
  /\ Pop
  /\ Head(res) = "tstart"
  /\ Kind(cur) = "log_stop"
  /\ \/ /\ Target(cur) = NoTarget
        /\ st' = [st EXCEPT ![cur] = "abort"]
        /\ UNCHANGED worker
     \/ /\ Target(cur) # NoTarget
        /\ worker' = StoppedWorker(Target(cur))
        /\ \E o \in {Ended, Failed} : st' = [st EXCEPT ![cur] = o.state]
  /\ CountExecution
  /\ UNCHANGED <<plan, cnt, threadVars, sub, dev, last, lost, boundVars, main>>

(* The stop of statistics also ends the step it names, or makes it abort    *)
(* when the bus refuses to unsubscribe.                                     *)
ExecuteStatsStop ==
  /\ Pop
  /\ Head(res) = "tstart"
  /\ Kind(cur) = "stats_stop"
  /\ \/ /\ st' = [st EXCEPT ![cur] = "abort"]
        /\ UNCHANGED worker
     \/ /\ Target(cur) # NoTarget
        /\ st' = [st EXCEPT ![cur] = "abort", ![Target(cur)] = "abort"]
        /\ UNCHANGED worker
     \/ /\ Target(cur) # NoTarget
        /\ st' = [st EXCEPT ![cur] = "results", ![Target(cur)] = "results"]
        /\ worker' = StoppedWorker(Target(cur))
  /\ CountExecution
  /\ UNCHANGED <<plan, cnt, threadVars, sub, dev, last, lost, boundVars, main>>

(* An asynchronous step starts its thread, or subscribes, and only then     *)
(* writes the state the step is parked in.  A thread that cannot be         *)
(* detached is an error that leaves it running.                             *)
ExecuteAsync ==
  /\ Pop
  /\ Head(res) = "tstart"
  /\ Kind(cur) \in Async
  /\ Starts(Kind(cur), st[cur])
  /\ \/ /\ worker' = [worker EXCEPT ![cur] = "running"]
        /\ pc' = "parking"
        /\ UNCHANGED st
     \/ /\ Threaded(Kind(cur))
        /\ worker' = [worker EXCEPT ![cur] = "running"]
        /\ st' = [st EXCEPT ![cur] = "abort"]
        /\ UNCHANGED pc
     \/ /\ st' = [st EXCEPT ![cur] = "abort"]
        /\ UNCHANGED <<worker, pc>>
  /\ CountExecution
  /\ UNCHANGED <<plan, cnt, pend, cur, ti, verdict, sub, dev, last, lost,
                 boundVars, main>>

(* gateway_performance parks a step that it does not start, log_redirect    *)
(* refuses it.                                                              *)
ExecuteAsyncAgain ==
  /\ Pop
  /\ Head(res) = "tstart"
  /\ Kind(cur) \in Async
  /\ ~Starts(Kind(cur), st[cur])
  /\ st' = [st EXCEPT ![cur] =
              IF Kind(cur) = "performance" THEN Parked(Fork(cur)) ELSE "abort"]
  /\ CountExecution
  /\ UNCHANGED <<plan, cnt, worker, threadVars, sub, dev, last, lost,
                 boundVars, main>>

Park ==
  /\ pc = "parking"
  /\ \E p \in ParkStates(Kind(cur), Fork(cur)) : st' = [st EXCEPT ![cur] = p]
  /\ pc' = "drain"
  /\ UNCHANGED <<plan, cnt, worker, nexec, pend, cur, ti, verdict,
                 channelVars, boundVars, main>>

(* Any other message: the first pending step, in the order of the queue,    *)
(* that waits and whose step_frame_filter() handles it.                     *)
Takers(m) ==
  {s \in pend \cap Steps : st[s] \in Waiting /\ FrameHandled(Kind(s), m)}

Frame ==
  /\ Pop
  /\ Head(res) # "tstart"
  /\ LET takers == Takers(Head(res)) IN
       \/ takers = {} /\ UNCHANGED st
       \/ \E s \in takers :
            /\ \A t \in takers : s <= t
            /\ st' = [st EXCEPT ![s] = "results"]
  /\ UNCHANGED <<plan, cnt, worker, nexec, threadVars, sub, dev, last, lost,
                 boundVars, main>>

------------------------------------------------------------------------------
(* ETIMEDOUT: for every step in the order of the queue, step_timeout() if   *)
(* it waits, then what its state asks for.                                  *)
Check(s, state) ==
  \/ /\ state[s] = "abort"
     /\ Stop("fail")
     /\ UNCHANGED <<pend, ti>>
  \/ /\ state[s] # "abort"
     /\ IF state[s] = "results" THEN pend' \in Cleared(pend, s)
                                ELSE UNCHANGED pend
     /\ ti' = ti + 1
     /\ Continue("tick")
     /\ UNCHANGED cur

TickPass ==
  /\ pc = "tick"
  /\ ti < N
  /\ st[ti] \notin Waiting
  /\ Check(ti, st)
  /\ UNCHANGED <<plan, stepVars, last, res, frames, main>>

TickTimeout ==
  /\ pc = "tick"
  /\ ti < N
  /\ st[ti] \in Waiting
  /\ Kind(ti) \notin Async
  /\ LET n == IF Counts(Kind(ti)) THEN CountUp(cnt[ti]) ELSE cnt[ti] IN
       /\ cnt' = [cnt EXCEPT ![ti] = n]
       /\ st' = [st EXCEPT ![ti] = TimeoutState(Kind(ti), @, n, Time)]
  /\ Check(ti, st')
  /\ UNCHANGED <<plan, worker, nexec, last, res, frames, main>>

(* The time-out of an asynchronous step: test_state is read, and then       *)
(* written, while the worker of the step may write it too.                  *)
TickAsyncRead ==
  /\ pc = "tick"
  /\ ti < N
  /\ st[ti] \in Waiting
  /\ Kind(ti) \in Async
  /\ cnt' = [cnt EXCEPT ![ti] = IF Counts(Kind(ti)) THEN CountUp(@) ELSE @]
  /\ pc' = "ticking"
  /\ UNCHANGED <<plan, st, worker, nexec, pend, cur, ti, verdict, channelVars,
                 boundVars, main>>

(* A statistics timer that expires unsubscribes first, and ends the step    *)
(* whether the bus agreed or not.                                           *)
TickAsyncWrite ==
  /\ pc = "ticking"
  /\ LET next == TimeoutWrite(Kind(ti), Fork(ti), cnt[ti], Time) IN
       /\ st' = [st EXCEPT ![ti] = next]
       /\ \/ UNCHANGED worker
          \/ /\ Kind(ti) = "stats_timer" /\ next = "results"
             /\ worker' = [worker EXCEPT ![ti] = "done"]
  /\ pc' = "checking"
  /\ UNCHANGED <<plan, cnt, nexec, pend, cur, ti, verdict, channelVars,
                 boundVars, main>>

TickAsyncCheck ==
  /\ pc = "checking"
  /\ Check(ti, st)
  /\ UNCHANGED <<plan, stepVars, last, res, frames, main>>

GivesWayOnlyForked_Bug(s) == Fork(s) /\ st[s] # "continue"
GivesWayAnyFork_Bug(s) == st[s] # "continue"

(* The end of the time-out: a step that has its results, or a forked step   *)
(* that does not continue, gives way to the next one.                       *)
GivesWay(s) == st[s] = "results" \/ (Fork(s) /\ st[s] # "continue")

TickEnd ==
  /\ pc = "tick"
  /\ ti = N
  /\ ti' = 0
  /\ \/ GivesWay(cur) /\ Advance(st, pend)
     \/ ~GivesWay(cur) /\ Continue("loop") /\ UNCHANGED cur
  /\ UNCHANGED <<plan, stepVars, pend, last, res, frames, main>>

------------------------------------------------------------------------------
(* The handler thread reads a message and gives a copy to each subscribed   *)
(* test; the reader's buffer keeps it.                                      *)
Push(m) ==
  IF sub THEN res' = Append(res, m) /\ UNCHANGED lost
         ELSE lost' = (lost \/ m = "tstart") /\ UNCHANGED res

Deliver ==
  /\ dev # <<>>
  /\ last' = Head(dev)
  /\ dev' = Tail(dev)
  /\ Push(Head(dev))
  /\ UNCHANGED <<plan, stepVars, threadVars, sub, boundVars, main>>

(* `nbytes = read(..) == 0' is true for end of file only: after a failed    *)
(* read the buffer is handled again.                                        *)
DeliverStale ==
  /\ faults < MaxFaults
  /\ faults' = faults + 1
  /\ dev # <<>>
  /\ last # "none"
  /\ Push(last)
  /\ UNCHANGED <<plan, stepVars, threadVars, sub, dev, last, frames, main>>

(* start(), on the main thread: the test thread already runs. *)
Subscribe ==
  /\ main = "create"
  /\ sub' = TRUE
  /\ main' = "join"
  /\ UNCHANGED <<plan, stepVars, threadVars, dev, last, res, lost, boundVars>>

Join ==
  /\ main = "join"
  /\ pc = "exited"
  /\ main' = "joined"
  /\ UNCHANGED <<plan, stepVars, threadVars, channelVars, boundVars>>

(* The worker of a step.  The thread of a performance log ends with its     *)
(* write, the one of a log may also end without a word; the handler of a    *)
(* bus event is called again for the next event.                            *)
WorkerStep(s) ==
  /\ worker[s] = "running"
  /\ \/ /\ \E end \in WorkerWrites(Kind(s)) : st' = [st EXCEPT ![s] = end]
        /\ worker' = [worker EXCEPT ![s] =
                         IF Threaded(Kind(s)) THEN "done" ELSE @]
     \/ /\ Kind(s) = "log_start"
        /\ worker' = [worker EXCEPT ![s] = "done"]
        /\ UNCHANGED st
  /\ UNCHANGED <<plan, cnt, nexec, threadVars, channelVars, boundVars, main>>

(* OneWifi's notifications and the frames of the drivers. *)
EnvFrame ==
  /\ frames < MaxFrames
  /\ frames' = frames + 1
  /\ \E m \in {"webconfig", "other"} : dev' = Append(dev, m)
  /\ UNCHANGED <<plan, stepVars, threadVars, sub, last, res, lost, faults,
                 main>>

(* The test is over and nothing is left to read. *)
Terminated ==
  /\ main = "joined"
  /\ dev = <<>>
  /\ UNCHANGED vars

(* get_next_pending_step() does not return. *)
Spin == pc = "spin" /\ UNCHANGED vars

TestThread ==
  \/ Trigger \/ WakeDrain \/ WakeResults \/ WakeAbort \/ WakeTimeout
  \/ DrainEnd \/ ExecutePlain \/ ExecuteLogStop \/ ExecuteStatsStop
  \/ ExecuteAsync \/ ExecuteAsyncAgain \/ Park \/ Frame
  \/ TickPass \/ TickTimeout \/ TickAsyncRead \/ TickAsyncWrite
  \/ TickAsyncCheck \/ TickEnd

MainThread == Subscribe \/ Join

Next ==
  \/ TestThread
  \/ MainThread
  \/ Deliver
  \/ DeliverStale
  \/ EnvFrame
  \/ \E s \in Steps : WorkerStep(s)
  \/ Terminated
  \/ Spin

Spec == Init /\ [][Next]_vars

(* Every thread of the program keeps running; the device, the bus and the   *)
(* commands that a step runs answer, and a performance log ends.  But no    *)
(* message has to come, and no other worker has to write.                   *)
Fairness ==
  /\ WF_vars(TestThread)
  /\ WF_vars(Deliver)
  /\ WF_vars(MainThread)
  /\ \A s \in Steps : WF_vars(Kind(s) = "performance" /\ WorkerStep(s))

FairSpec == Spec /\ Fairness

------------------------------------------------------------------------------
(* Properties.                                                             *)

(* A step that is not forked is in progress only while it is the current   *)
(* step: nothing that the other threads or a failing device do makes the   *)
(* test thread leave a serial step behind and run another beside it.       *)
SerialExclusive ==
  \A s \in Steps : ~Fork(s) /\ st[s] \in InProgress => s = cur

(* When the test thread is over, the message manager no longer holds the   *)
(* test: stop() runs after start() has subscribed it, although the two     *)
(* threads do not wait for each other.                                     *)
NoDanglingSubscription == pc = "exited" => main # "create" /\ ~sub

(* test_fail() is only called with a step in state abort to show for it.   *)
FailHasCause == verdict = "fail" => \E s \in Steps : st[s] = "abort"

(* test_done() is only called when every step ended with its results.      *)
DoneMeansFinished ==
  verdict = "done" => \A s \in Steps : st[s] = "results"

(* test_done() is only called when step_execute() ran on every step: no    *)
(* step is taken for finished because another one consumed its trigger.    *)
DoneMeansExecuted ==
  verdict = "done" => \A s \in Steps : nexec[s] > 0

(* The trigger of a step executes that step, and step_execute() runs once. *)
ExecutedAtMostOnce == \A s \in Steps : nexec[s] <= 1

(* A stop step that has its results has stopped what it names: the log is  *)
(* not written, and no event of the bus is handled, after it.              *)
StopStops ==
  \A s \in Steps :
    Kind(s) \in Stops /\ st[s] = "results" /\ Target(s) # NoTarget
      => worker[Target(s)] # "running"

(* The search for the next pending step always finds one or ends the test. *)
SearchReturns == pc # "spin"

(* The test ends, unless a trigger was lost on its way. *)
Ends == <>(lost \/ pc = "exited")

(* A step whose trigger was sent is executed, or the test ends. *)
TriggerExecutes ==
  \A s \in Steps : st[s] = "start" ~> (nexec[s] > 0 \/ pc = "exited")

(* A test without forked steps implements SerialTest. *)
Phase(state) ==
  CASE state = "request"      -> "todo"
    [] state \in InProgress   -> "active"
    [] state = "results"      -> "finished"
    [] state = "abort"        -> "failed"

Serial == INSTANCE SerialTest
            WITH phase <- [s \in Steps |-> Phase(st[s])], outcome <- verdict

ImplementsSerialTest == Serial!Spec
=============================================================================
