----------------------------- MODULE CciControl ------------------------------
(***************************************************************************)
(* The control loop of the cci process, wlan_emu_t::run(): a request to    *)
(* start arrives on the bus, the configuration is downloaded and decoded,  *)
(* its test cases run one after the other, and the results are uploaded    *)
(* and reported to the TDA, the server that drives the tests.  The loop    *)
(* hears of each phase through a datagram socket per signal, some of them  *)
(* written by the loop itself, and the bus library calls the property      *)
(* handlers on a thread of its own at any time.                            *)
(*                                                                         *)
(* One execution of a test case, which is StepEngine, is one action here.  *)
(***************************************************************************)
EXTENDS Naturals, Sequences, FiniteSets

CONSTANTS
  Coverages,    \* the coverage categories, which the done signals carry
  Outcomes,     \* how a test case may end: it passes, fails, reboots the
                \* device, or is never heard of
  HeapNames,    \* what a fresh test_case_name may hold: empty or garbage
  Patient,      \* the controller starts a test when the last was answered
  MaxCases,     \* bound: test cases of one configuration
  MaxQueue,     \* bound: test cases in the queue
  MaxStarts,    \* bound: requests that are accepted
  MaxFaults,    \* bound: failures of select()
  MaxResets     \* bound: restarts of the process that no step asked for

ASSUME CoveragesAssumption == /\ Coverages # {}
                              /\ Coverages \subseteq 1 .. 5
ASSUME OutcomesAssumption  ==
  Outcomes \subseteq {"pass", "fail", "reboot", "silent"}
ASSUME HeapAssumption      == HeapNames \subseteq {"empty", "garbage"}
ASSUME PatientAssumption   == Patient \in BOOLEAN
ASSUME BoundAssumption     ==
  {MaxCases, MaxQueue, MaxStarts, MaxFaults, MaxResets} \subseteq Nat

VARIABLES
  m_state,    \* the state the loop acts on
  dml_state,  \* Device.WiFi.Tests.Status
  sig,        \* the datagrams in the socket of each signal
  bound,      \* the sockets are open and bound
  pc,         \* where the loop is between two calls to io_wait()
  i,          \* the case that start_test() is at
  count,      \* the cases it found in the queue when it began
  cases,      \* test_cov_cases_q from its head: coverage and name of each
  list,       \* res_output_file_fp is open
  url,        \* tda_url
  local,      \* is_local_host_enabled
  file,       \* the URL in the file of a reboot step, which a reboot keeps
  reboot,     \* reboot_test_executed
  alive,      \* the process has not crashed
  due,        \* history: a start was signalled and not yet answered
  verdict,    \* history: what became of the last start
  report,     \* history: the last report to the TDA
  starts,     \* requests accepted so far
  faults,     \* failures of select() so far
  resets,     \* restarts so far
  setter      \* the property whose set_cci_handler() has passed the check
              \* of the status and not returned

stateVars   == <<m_state, dml_state, pc, i, count>>
signalVars  == <<sig, bound, reboot>>
queueVars   == <<cases, list>>
urlVars     == <<url, local, file>>
historyVars == <<due, verdict, report>>
boundVars   == <<starts, faults, resets>>
otherVars   == <<alive, historyVars, boundVars>>
vars == <<stateVars, signalVars, queueVars, urlVars, otherVars, setter>>

(* The signals in the order of wlan_emu_sig_type_t: io_wait() answers with  *)
(* the first that has a datagram.                                           *)
SignalOrder_Bug == <<"input", "results", "coverage_1", "coverage_2",
                     "coverage_3", "coverage_4", "coverage_5", "fail",
                     "analysis">>
SignalOrder == <<"input", "analysis", "coverage_1", "coverage_2", "coverage_3",
                 "coverage_4", "coverage_5", "results", "fail">>
Signals == {SignalOrder[k] : k \in 1 .. 9}
CoverageSignals == {SignalOrder[k] : k \in 3 .. 7}

(* signal_test_done(coverage) *)
DoneSignal(coverage) == SignalOrder[coverage + 2]

(* A case gets its name when start_test() makes its test object. *)
Cases == [coverage : 1 .. 5, name : {"set", "empty", "garbage"}]

TypeOK ==
  /\ m_state \in {"none", "wait", "request", "start", "results", "abort"}
  /\ dml_state \in {"idle", "running", "complete_success", "complete_failure"}
  /\ sig \in [Signals -> Nat]
  /\ bound \in BOOLEAN
  /\ pc \in {"wait", "select", "switch", "analyze", "analyzed", "refused",
             "testing", "complete", "completed", "failure", "failed",
             "pausing", "down"}
  /\ i \in Nat
  /\ count \in Nat
  /\ cases \in Seq(Cases)
  /\ list \in BOOLEAN
  /\ url \in {"none", "remote", "localhost", "path"}
  /\ local \in BOOLEAN
  /\ file \in {"none", "remote", "localhost", "path"}
  /\ reboot \in BOOLEAN
  /\ alive \in BOOLEAN
  /\ due \in BOOLEAN
  /\ verdict \in {"asked", "lost", "passed", "failed"}
  /\ report \in {"none", "complete", "fail", "pause"}
  /\ starts \in 0 .. MaxStarts
  /\ faults \in 0 .. MaxFaults
  /\ resets \in 0 .. MaxResets
  /\ setter \in {"none", "url", "start"}

(* init() has succeeded and run() enters the loop with the state of the     *)
(* constructor.                                                             *)
Init ==
  /\ m_state = "none"
  /\ dml_state = "idle"
  /\ sig = [s \in Signals |-> 0]
  /\ bound = FALSE
  /\ pc = "switch"
  /\ i = 0
  /\ count = 0
  /\ cases = <<>>
  /\ list = FALSE
  /\ reboot = FALSE
  /\ url = "none"
  /\ local = FALSE
  /\ file = "none"
  /\ alive = TRUE
  /\ due = FALSE
  /\ verdict = "asked"
  /\ report = "none"
  /\ starts = 0
  /\ faults = 0
  /\ resets = 0
  /\ setter = "none"

------------------------------------------------------------------------------
(* Definitions whose name ends in _Bug are defects that an edit of the code  *)
(* could introduce; no definition uses them.                                *)

(* The bus thread: set_cci_handler().                                       *)

(* send_signal(): one datagram to the socket of the signal *)
Signal(s) == [sig EXCEPT ![s] = @ + 1]

SetAccepted == dml_state # "running"

(* It refuses every property while the status is running, which it reads    *)
(* once, before it does anything: the loop may run tests by then.  A        *)
(* patient controller repeats a start only when nobody has heard of it.     *)
SetAdmitted(property) ==
  /\ setter = "none"
  /\ SetAccepted
  /\ property = "start" => /\ starts < MaxStarts
                           /\ Patient => ~due \/ verdict = "lost"
  /\ setter' = property
  /\ starts' = IF property = "start" THEN starts + 1 ELSE starts
  /\ UNCHANGED <<stateVars, signalVars, queueVars, urlVars, alive, historyVars,
                 faults, resets>>

(* The value of TestConfigURL is copied into tda_url. *)
SetUrl(u) ==
  /\ setter = "url"
  /\ setter' = "none"
  /\ url' = u
  /\ UNCHANGED <<stateVars, signalVars, queueVars, local, file, otherVars>>

(* Start: signal_input().  Before the first io_wait() the descriptor is 0   *)
(* and the datagram goes nowhere, but the caller is told of success.        *)
SetStart ==
  /\ setter = "start"
  /\ setter' = "none"
  /\ sig' = IF bound THEN Signal("input") ELSE sig
  /\ due' = TRUE
  /\ verdict' = IF bound THEN "asked" ELSE "lost"
  /\ UNCHANGED <<stateVars, bound, reboot, queueVars, urlVars, alive, report,
                 boundVars>>

------------------------------------------------------------------------------
(* io_wait()                                                                *)

(* io_prep() opens what is not open, and a resumed request signals itself.  *)
IoPrep ==
  /\ pc = "wait"
  /\ bound' = TRUE
  /\ reboot' = FALSE
  /\ sig' = IF reboot THEN Signal("input") ELSE sig
  /\ due' = (due \/ reboot)
  /\ verdict' = IF reboot THEN "asked" ELSE verdict
  /\ pc' = "select"
  /\ UNCHANGED <<m_state, dml_state, i, count, queueVars, urlVars, alive,
                 report, boundVars>>

(* The descriptors are searched in the order of the enumeration. *)
FirstReadable_Bug(k) ==
  /\ sig[SignalOrder[k]] > 0
  /\ \A l \in k + 1 .. 9 : sig[SignalOrder[l]] = 0
FirstReadable(k) ==
  /\ sig[SignalOrder[k]] > 0
  /\ \A l \in 1 .. k - 1 : sig[SignalOrder[l]] = 0

(* update_state_io_wait_done() *)
StateAfter(s) ==
  CASE s = "fail"               -> "abort"
    [] s = "input"              -> "request"
    [] s = "analysis"           -> "start"
    [] s \in CoverageSignals    -> "results"
    [] s = "results"            -> "wait"

(* One datagram is read from one descriptor. *)
ReadSignal ==
  /\ pc = "select"
  /\ \E k \in 1 .. 9 :
       /\ FirstReadable(k)
       /\ sig' = [sig EXCEPT ![SignalOrder[k]] = @ - 1]
       /\ m_state' = StateAfter(SignalOrder[k])
  /\ pc' = "switch"
  /\ UNCHANGED <<dml_state, i, count, bound, reboot, queueVars, urlVars,
                 otherVars>>

(* select() fails: io_wait() answers wlan_emu_sig_type_max, which aborts. *)
SelectFails ==
  /\ pc = "select"
  /\ faults < MaxFaults
  /\ faults' = faults + 1
  /\ m_state' = "abort"
  /\ pc' = "switch"
  /\ UNCHANGED <<dml_state, i, count, signalVars, queueVars, urlVars, alive,
                 historyVars, starts, resets>>

(* State none is in no case of the switch; wait sets the status. *)
Idle ==
  /\ pc = "switch"
  /\ m_state \in {"none", "wait"}
  /\ dml_state' = IF m_state = "wait" THEN "idle" ELSE dml_state
  /\ pc' = "wait"
  /\ UNCHANGED <<m_state, i, count, signalVars, queueVars, urlVars, otherVars>>

------------------------------------------------------------------------------
(* State request: analyze_request()                                         *)

(* The request is given up: its failure is signalled to the loop itself,    *)
(* and then shown in the status.                                            *)
RequestFailed_Bug ==
  /\ pc' = "refused"
  /\ verdict' = "failed"
  /\ UNCHANGED <<m_state, dml_state, i, count, sig, bound, reboot, alive, due,
                 report, boundVars>>
RequestFailed ==
  /\ sig' = Signal("fail")
  /\ pc' = "refused"
  /\ verdict' = "failed"
  /\ UNCHANGED <<m_state, dml_state, i, count, bound, reboot, alive, due,
                 report, boundVars>>

Refused ==
  /\ pc = "refused"
  /\ dml_state' = "complete_failure"
  /\ pc' = "wait"
  /\ UNCHANGED <<m_state, i, count, signalVars, queueVars, urlVars, otherVars>>

(* An iperf test asks the external agent for its capabilities first. *)
AgentUnavailable ==
  /\ pc = "switch"
  /\ m_state = "request"
  /\ RequestFailed
  /\ UNCHANGED <<queueVars, urlVars>>

(* A URL on localhost is replaced, in tda_url itself, by the path in it. *)
ClassifyUrl ==
  /\ pc = "switch"
  /\ m_state = "request"
  /\ local' = (url = "localhost")
  /\ url' = IF url = "localhost" THEN "path" ELSE url
  /\ pc' = "analyze"
  /\ UNCHANGED <<m_state, dml_state, i, count, signalVars, queueVars, file,
                 otherVars>>

(* A local configuration is copied, a remote one is fetched by curl. *)
Fetchable == url = IF local THEN "path" ELSE "remote"

(* The cases of one configuration, none of which was started: new leaves    *)
(* test_case_name as the heap has it.                                       *)
Decoded == UNION {[1 .. n -> [coverage : Coverages, name : HeapNames]] :
                     n \in 0 .. MaxCases}

(* queue_push() puts a case at the head; nothing empties the queue first.   *)
Push(new) ==
  /\ Len(new) + Len(cases) <= MaxQueue
  /\ cases' = new \o cases

(* The configuration is decoded, every file it names is downloaded, the     *)
(* list of the result files is open, and the loop signals itself.           *)
AnalyzeOK_Bug ==
  /\ pc = "analyze"
  /\ Fetchable
  /\ \E new \in Decoded : Push(new)
  /\ cases' # <<>>
  /\ sig' = Signal("analysis")
  /\ pc' = "analyzed"
  /\ UNCHANGED <<m_state, dml_state, i, count, bound, reboot, list, urlVars,
                 otherVars>>
AnalyzeOK ==
  /\ pc = "analyze"
  /\ Fetchable
  /\ \E new \in Decoded : Push(new)
  /\ cases' # <<>>
  /\ list' = TRUE
  /\ sig' = Signal("analysis")
  /\ pc' = "analyzed"
  /\ UNCHANGED <<m_state, dml_state, i, count, bound, reboot, urlVars,
                 otherVars>>

(* The status follows the signal: in between the bus still shows what was   *)
(* there before, and accepts another start.                                 *)
Analyzed ==
  /\ pc = "analyzed"
  /\ dml_state' = "running"
  /\ pc' = "wait"
  /\ UNCHANGED <<m_state, i, count, signalVars, queueVars, urlVars, otherVars>>

(* It fails before, while or after the cases are pushed: what was pushed    *)
(* stays in the queue.                                                      *)
AnalyzeFails ==
  /\ pc = "analyze"
  /\ \E new \in Decoded :
       /\ Fetchable \/ new = <<>>
       /\ Push(new)
  /\ RequestFailed
  /\ UNCHANGED <<list, urlVars>>

------------------------------------------------------------------------------
(* State start: start_test()                                                *)

StartNothing ==
  /\ pc = "switch"
  /\ m_state = "start"
  /\ cases = <<>>
  /\ RequestFailed
  /\ UNCHANGED <<queueVars, urlVars>>

StartTests ==
  /\ pc = "switch"
  /\ m_state = "start"
  /\ cases # <<>>
  /\ i' = 1
  /\ count' = Len(cases)
  /\ pc' = "testing"
  /\ UNCHANGED <<m_state, dml_state, signalVars, queueVars, urlVars,
                 otherVars>>

(* A write to the list may crash, if there is one, unless it is safe.       *)
SafeIf(safe) == alive' \in IF safe THEN {TRUE} ELSE BOOLEAN

Named(case) == [coverage |-> case.coverage, name |-> "set"]

CaseRuns == pc = "testing" /\ i <= count /\ i <= Len(cases)

(* A test case runs to its end: start() joins its thread, which has         *)
(* signalled the outcome by then, unless it could not be created.  A step   *)
(* may write to the list of result files.                                   *)
RunCase(outcome) ==
  /\ CaseRuns
  /\ outcome # "reboot"
  /\ cases' = [cases EXCEPT ![i] = Named(@)]
  /\ sig' = CASE outcome = "pass"   -> Signal(DoneSignal(cases[i].coverage))
              [] outcome = "fail"   -> Signal("fail")
              [] outcome = "silent" -> sig
  /\ verdict' = IF outcome = "pass" /\ verdict # "failed"
                THEN "passed" ELSE "failed"
  /\ SafeIf(list)
  /\ i' = i + 1
  /\ UNCHANGED <<m_state, dml_state, pc, count, bound, reboot, list, urlVars,
                 due, report, boundVars>>

(* The queue is shorter than it was: queue_peek() answers NULL, and the     *)
(* next statement reads through it.                                         *)
CaseMissing ==
  /\ pc = "testing"
  /\ i <= count
  /\ i > Len(cases)
  /\ alive' = FALSE
  /\ UNCHANGED <<stateVars, signalVars, queueVars, urlVars, historyVars,
                 boundVars>>

TestsEnded ==
  /\ pc = "testing"
  /\ i > count
  /\ m_state' = "wait"
  /\ dml_state' = "running"
  /\ i' = 0
  /\ count' = 0
  /\ pc' = "wait"
  /\ UNCHANGED <<signalVars, queueVars, urlVars, otherVars>>

------------------------------------------------------------------------------
(* States results and abort: upload_results() and the reports               *)

(* Every case is taken from the queue, whether it has run or not; one that  *)
(* has a name is added to the list, where a closed list is a null FILE.     *)
UploadCases_Bug(unnamed) ==
  /\ cases' = <<>>
  /\ list' = list
  /\ SafeIf(list \/ unnamed)
UploadCasesKeeps_Bug(unnamed) ==
  /\ cases' = cases
  /\ list' = FALSE
  /\ SafeIf(list \/ unnamed)
UploadCases(unnamed) ==
  /\ cases' = <<>>
  /\ list' = FALSE
  /\ SafeIf(list \/ unnamed)

NoneIsNamed == \A k \in 1 .. Len(cases) : cases[k].name = "empty"

(* Whether upload_results() succeeds: not without a case, and each of its   *)
(* files is sent by https_post_file(), which may fail.                     *)
Uploads == IF cases = <<>> THEN {FALSE} ELSE BOOLEAN

Results ==
  /\ pc = "switch"
  /\ m_state = "results"
  /\ \E uploaded \in Uploads : pc' = IF uploaded THEN "complete" ELSE "failure"
  /\ UploadCases(NoneIsNamed)
  /\ UNCHANGED <<m_state, dml_state, i, count, signalVars, urlVars,
                 historyVars, boundVars>>

(* The outcome of the upload does not matter to an abort. *)
Abort ==
  /\ pc = "switch"
  /\ m_state = "abort"
  /\ pc' = "failure"
  /\ UploadCases(NoneIsNamed)
  /\ UNCHANGED <<m_state, dml_state, i, count, signalVars, urlVars,
                 historyVars, boundVars>>

(* signal_uploaded_test_results(), then cci_report_complete_to_tda() *)
ReportComplete ==
  /\ pc = "complete"
  /\ sig' = Signal("results")
  /\ report' = "complete"
  /\ due' = FALSE
  /\ pc' = "completed"
  /\ UNCHANGED <<m_state, dml_state, i, count, bound, reboot, queueVars,
                 urlVars, alive, verdict, boundVars>>

(* Whether cci_post_result_to_tda() succeeds; a report that stays on this   *)
(* host is not posted.                                                     *)
Posts == IF local THEN {TRUE} ELSE BOOLEAN

(* cci_report_failure_to_tda(), which frees the queue unless it cannot post *)
(* the report.                                                              *)
ReportFailure ==
  /\ pc = "failure"
  /\ report' = "fail"
  /\ due' = FALSE
  /\ \E posted \in Posts : cases' = IF posted THEN <<>> ELSE cases
  /\ pc' = "failed"
  /\ UNCHANGED <<m_state, dml_state, i, count, signalVars, list, urlVars,
                 alive, verdict, boundVars>>

(* The status follows the report. *)
Completed ==
  /\ pc = "completed"
  /\ dml_state' = "complete_success"
  /\ pc' = "wait"
  /\ UNCHANGED <<m_state, i, count, signalVars, queueVars, urlVars, otherVars>>

Failed_Bug ==
  /\ pc = "failed"
  /\ m_state' = "wait"
  /\ pc' = "wait"
  /\ UNCHANGED <<dml_state, i, count, signalVars, queueVars, urlVars,
                 otherVars>>
Failed ==
  /\ pc = "failed"
  /\ m_state' = "wait"
  /\ dml_state' = "complete_failure"
  /\ pc' = "wait"
  /\ UNCHANGED <<i, count, signalVars, queueVars, urlVars, otherVars>>

------------------------------------------------------------------------------
(* A reboot step: upgrade_or_reboot, on the test thread, while start_test() *)
(* waits for it                                                             *)

(* The step saves the request to a file and uploads the results so far,     *)
(* which empties the queue, the running case included.                      *)
RebootStep_Bug ==
  /\ "reboot" \in Outcomes
  /\ CaseRuns
  /\ UploadCases(FALSE)
  /\ pc' = "pausing"
  /\ UNCHANGED <<m_state, dml_state, i, count, signalVars, urlVars,
                 historyVars, boundVars>>
RebootStep ==
  /\ "reboot" \in Outcomes
  /\ CaseRuns
  /\ file' = IF local THEN "localhost" ELSE url
  /\ UploadCases(FALSE)
  /\ pc' = "pausing"
  /\ UNCHANGED <<m_state, dml_state, i, count, signalVars, url, local,
                 historyVars, boundVars>>

(* The pause is reported and the device goes down. *)
Reboot ==
  /\ pc = "pausing"
  /\ report' = "pause"
  /\ pc' = "down"
  /\ UNCHANGED <<m_state, dml_state, i, count, signalVars, queueVars, urlVars,
                 alive, due, verdict, boundVars>>

(* The report or reboot() fails.  The test fails, with a configuration that *)
(* was deleted; the file stays.                                             *)
RebootFails ==
  /\ pc = "pausing"
  /\ sig' = Signal("fail")
  /\ verdict' = "failed"
  /\ report' \in {report, "pause"}
  /\ alive' \in BOOLEAN
  /\ i' = i + 1
  /\ pc' = "testing"
  /\ UNCHANGED <<m_state, dml_state, count, bound, reboot, queueVars, urlVars,
                 due, boundVars>>

(* The device or the process is restarted for another reason, which may     *)
(* follow a crash.                                                          *)
Reset ==
  /\ pc # "down"
  /\ resets < MaxResets
  /\ resets' = resets + 1
  /\ pc' = "down"
  /\ UNCHANGED <<m_state, dml_state, i, count, signalVars, queueVars, urlVars,
                 alive, historyVars, starts, faults>>

(* wlan_emu_t::init() of the next process: a request that was saved is      *)
(* decoded, its resumption is reported, and the file is removed.  When one  *)
(* of these fails the process ends and the file stays, for the next one.    *)
Boot ==
  /\ pc = "down"
  /\ m_state' = "none"
  /\ dml_state' = "idle"
  /\ sig' = [s \in Signals |-> 0]
  /\ bound' = FALSE
  /\ pc' = "switch"
  /\ i' = 0
  /\ count' = 0
  /\ cases' = <<>>
  /\ list' = FALSE
  /\ reboot' = (file # "none")
  /\ url' = file
  /\ local' = (file = "localhost")
  /\ file' = "none"
  /\ alive' = TRUE
  /\ due' = FALSE
  /\ report' = "none"
  /\ setter' = "none"
  /\ UNCHANGED <<verdict, boundVars>>

------------------------------------------------------------------------------
Loop ==
  \/ IoPrep \/ ReadSignal \/ Idle
  \/ AgentUnavailable \/ ClassifyUrl \/ AnalyzeOK \/ AnalyzeFails
  \/ Analyzed \/ Refused
  \/ StartNothing \/ StartTests \/ CaseMissing \/ TestsEnded
  \/ \E o \in Outcomes : RunCase(o)
  \/ RebootStep \/ Reboot \/ RebootFails
  \/ Results \/ Abort
  \/ ReportComplete \/ ReportFailure \/ Completed \/ Failed

Bus ==
  /\ pc # "down"
  /\ \/ \E property \in {"url", "start"} : SetAdmitted(property)
     \/ SetStart
     \/ \E u \in {"remote", "localhost"} : SetUrl(u)

(* The loop is one thread, and what it does leaves the other alone. *)
LoopThread == alive /\ Loop /\ UNCHANGED setter

Next ==
  \/ LoopThread
  \/ alive /\ Bus
  \/ alive /\ SelectFails /\ UNCHANGED setter
  \/ Reset /\ UNCHANGED setter
  \/ Boot

Spec == Init /\ [][Next]_vars

(* The loop is a thread that the scheduler runs.  Nobody has to ask for a   *)
(* test, and nothing says that the device comes up again.                   *)
FairSpec == Spec /\ WF_vars(LoopThread)

------------------------------------------------------------------------------
(* Properties                                                               *)

(* The process crashes for a known reason only, whatever the heap held:     *)
(* select() failed, a case has tried to reboot the device, or results are   *)
(* uploaded with the list closed while the queue has the cases of a request *)
(* that failed, none of which has run and one of which got a name from the  *)
(* heap.  Steps never write to a closed list, start_test() finds the cases  *)
(* that it counted, and no case that has run is uploaded to a closed list.  *)
Unstarted == \A k \in 1 .. Len(cases) : cases[k].name # "set"

CrashHasCause ==
  [][alive /\ ~alive' =>
       \/ faults > 0
       \/ file # "none"
       \/ /\ pc = "switch" /\ m_state \in {"results", "abort"}
          /\ ~list /\ Unstarted /\ ~NoneIsNamed]_vars

(* A status of idle, as the bus shows it: no test case is running, none     *)
(* that has run is still waiting for its signal to be read, and one that    *)
(* was analysed and is about to run is hidden by it for one moment only,    *)
(* between the signal of the analysis and the write of the status.          *)
(* It rests on the order in which io_wait() searches the descriptors.       *)
IdleMeansNoTests ==
  dml_state = "idle" /\ pc # "down" =>
     /\ pc # "testing"
     /\ sig["analysis"] > 0 => pc = "analyzed"
     /\ \A s \in CoverageSignals : sig[s] = 0

(* start_test() is never called with an empty queue: nothing can take the   *)
(* cases away between the signal of analyze_request() and its reading.      *)
AnalysedIsQueued == pc = "switch" /\ m_state = "start" => cases # <<>>

(* When no signal is left to be read, the loop has cleaned up behind itself *)
(* whatever happened: the queue is empty, so that the next request runs its *)
(* own cases only, the list is closed and the status is not running.        *)
QuietIsClean ==
  pc = "select" /\ (\A s \in Signals : sig[s] = 0) =>
     /\ cases = <<>>
     /\ ~list
     /\ dml_state # "running"

(* The status does not stay running, which would refuse every further       *)
(* start; a device that goes down and a crash report nothing.               *)
RunningEnds ==
  dml_state = "running" ~> dml_state # "running" \/ pc = "down" \/ ~alive

(* A pause that was reported to the TDA can be resumed: when the device is  *)
(* down after it, the request has been saved.                               *)
PausedIsSaved == pc = "down" /\ report = "pause" => file # "none"

(* A controller that waits for the answers gets what TestSession promises:  *)
(* one report for each request, sooner or later, unless the request came    *)
(* before the sockets of the signals were open.                             *)
Session == INSTANCE TestSession WITH Reports <- {"none"}, open <- bound,
             asked <- due, result <- verdict, answer <- report
ImplementsSession == Session!Spec
==============================================================================
