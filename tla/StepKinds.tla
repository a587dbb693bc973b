------------------------------ MODULE StepKinds ------------------------------
(***************************************************************************)
(* What the virtual functions of a test step (test_step_params_t in        *)
(* inc/wlan_emu_test_params.h) may do to the step: step_execute(),         *)
(* step_timeout() and step_frame_filter() of the step classes of           *)
(* src/tests/wlan_emu_test_param_*.cpp.  Files, the bus and the commands   *)
(* that a step runs are the environment: each of their outcomes is one     *)
(* element of a set of outcomes.                                           *)
(***************************************************************************)
EXTENDS Naturals

(* The states of wlan_emu_tests_state_t that a step goes through. *)
StepStates == {"request", "start", "wait", "continue", "results", "abort"}

(* The states in which a step waits for something: test_function calls     *)
(* step_timeout() and run() offers messages only to these.                 *)
Waiting == {"wait", "continue"}

(* A step whose tstart was sent and that has not reached an end state.     *)
InProgress == Waiting \cup {"start"}

(* The classes of steps, by how their state evolves:                       *)
(*   command     command, get_file, get_pattern_files, dml_reset,          *)
(*               dml_subdoc: all the work is done in step_execute()        *)
(*   webconfig   radio, vap, config_onewifi: a subdocument is sent and the *)
(*               step ends when OneWifi's notification of it arrives       *)
(*   timed_wait  timed_wait                                                *)
(*   capture     mgmt_frame_capture                                        *)
(* and the ones that leave something behind which writes the step's        *)
(* test_state on a thread of its own, with the steps that stop it:         *)
(*   performance gateway_performance: a detached thread does the work      *)
(*   log_start, log_stop                log_redirect: a detached thread    *)
(*   stats_start, stats_timer, stats_stop  stats_get: a bus subscription   *)
Plain == {"command", "webconfig", "timed_wait", "capture"}
Async == {"performance", "log_start", "stats_start", "stats_timer"}
Stops == {"log_stop", "stats_stop"}
StepClasses == Plain \cup Async \cup Stops

------------------------------------------------------------------------------
(* What a call leaves behind: the step's test_state and the return value.  *)
Outcome(state, ok) == [state |-> state, ok |-> ok]
Failed == Outcome("abort", FALSE)
Ended  == Outcome("results", TRUE)

(* step_execute() of the synchronous steps.  A command writes continue     *)
(* first; only the failures that forget to write abort leave it.           *)
ExecuteCommand         == {Ended, Failed, Outcome("continue", FALSE)}
ExecuteGetFile         == {Ended, Failed}
ExecuteGetPatternFiles == {Ended, Failed}
ExecuteDmlSubdoc       == {Ended, Failed}
(* A reset that ended before the last subdocument aborts and returns OK.   *)
ExecuteDmlReset        == {Ended, Failed, Outcome("abort", TRUE)}

(* step_execute() of the configuration steps: the subdocument goes to the  *)
(* bus, or the test only asks for the current configuration.               *)
ExecuteRadio         == {Outcome("continue", TRUE), Ended, Failed}
ExecuteVap           == {Outcome("continue", TRUE), Ended, Failed}
ExecuteConfigOneWifi == {Outcome("continue", TRUE), Failed}

ExecuteTimedWait == {Outcome("continue", TRUE)}

(* A capture of no duration ends at once; one that was not asked to        *)
(* capture frames fails.                                                   *)
ExecuteCapture == {Outcome("continue", TRUE), Ended, Failed}

(* The outcomes of step_execute() on a plain step. *)
ExecuteOutcomes(k) ==
  CASE k = "command"    -> ExecuteCommand \cup ExecuteGetFile
                             \cup ExecuteGetPatternFiles
                             \cup ExecuteDmlSubdoc \cup ExecuteDmlReset
    [] k = "webconfig"  -> ExecuteRadio \cup ExecuteVap
                             \cup ExecuteConfigOneWifi
    [] k = "timed_wait" -> ExecuteTimedWait
    [] k = "capture"    -> ExecuteCapture

------------------------------------------------------------------------------
(* step_timeout() of the plain and the stop steps, called once a second on  *)
(* every step in state wait or continue.  n is timeout_count after its      *)
(* increment and time is execution_time.                                   *)
TimeoutCommand                   == "abort"
TimeoutWebconfig(n, time)        == IF time > n THEN "continue" ELSE "abort"
TimeoutTimedWait(n, time, state) == IF n >= time THEN "results" ELSE state
TimeoutCapture(n, time, state)   == IF n = time THEN "results" ELSE state

TimeoutState(k, state, n, time) ==
  CASE k = "command"    -> TimeoutCommand
    [] k = "webconfig"  -> TimeoutWebconfig(n, time)
    [] k = "timed_wait" -> TimeoutTimedWait(n, time, state)
    [] k = "capture"    -> TimeoutCapture(n, time, state)
    [] k \in Stops      -> "results"

(* The classes whose step_timeout() increments timeout_count. *)
Counts(k) == k \in {"webconfig", "timed_wait", "capture", "stats_timer"}

------------------------------------------------------------------------------
(* The asynchronous steps.  gateway_performance and log_redirect start     *)
(* their thread only in state start; stats_get subscribes in any state.    *)
Starts(k, state) == k \in {"stats_start", "stats_timer"} \/ state = "start"

(* The steps that start a detached thread. *)
Threaded(k) == k \in {"performance", "log_start"}

(* gateway_performance parks a step whose thread works: a forked step      *)
(* waits and lets the next step run, a serial one continues.               *)
Parked(fork) == IF fork THEN "wait" ELSE "continue"

(* The last write of step_execute() after the thread was started, or the   *)
(* subscription made; stats_get can still fail to name its output file.    *)
ParkStates(k, fork) ==
  CASE k = "performance" -> {Parked(fork)}
    [] k = "log_start"   -> {"continue"}
    [] k = "stats_start" -> {"wait", "abort"}
    [] k = "stats_timer" -> {"continue", "abort"}

(* The write that ends step_timeout() on a step that was seen waiting.     *)
TimeoutWrite(k, fork, n, time) ==
  CASE k = "performance" -> Parked(fork)
    [] k = "log_start"   -> "results"
    [] k = "stats_start" -> "results"
    [] k = "stats_timer" -> IF n = time THEN "results" ELSE "continue"

(* What the thread, or the handler of the bus event, writes to test_state: *)
(* performance_log ends with a result, the log thread and the handler only *)
(* write when they fail.                                                   *)
WorkerWrites(k) ==
  IF k = "performance" THEN {"results", "abort"} ELSE {"abort"}

------------------------------------------------------------------------------
(* step_frame_filter(): only the configuration steps change state on a     *)
(* message, the notification of their own subdocument; whatever else is    *)
(* captured or refused leaves every step as it is.                         *)
FrameHandled(k, msg) == k = "webconfig" /\ msg = "webconfig"
=============================================================================
