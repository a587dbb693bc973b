-------------------------- MODULE CciControlProofs ---------------------------
(***************************************************************************)
(* Theorems about CciControl, for every number of requests, test cases,    *)
(* coverage categories, failures and restarts: its types, its queues, what *)
(* can crash it, what a paused request leaves behind, and that a           *)
(* controller which waits for the answers gets no other report than        *)
(* TestSession allows.                                                     *)
(***************************************************************************)
EXTENDS CciControl, TLAPS

(* The names of the signals, and of those that a finished test case sends. *)
LEMMA SignalNames ==
  /\ Signals = {"input", "analysis", "coverage_1", "coverage_2", "coverage_3",
                "coverage_4", "coverage_5", "results", "fail"}
  /\ CoverageSignals = {"coverage_1", "coverage_2", "coverage_3",
                        "coverage_4", "coverage_5"}
  /\ \A k \in 1 .. 9 : SignalOrder[k] \in Signals
  /\ \A coverage \in 1 .. 5 : DoneSignal(coverage) \in CoverageSignals
<1>1. /\ SignalOrder[1] = "input" /\ SignalOrder[2] = "analysis"
      /\ SignalOrder[3] = "coverage_1" /\ SignalOrder[4] = "coverage_2"
      /\ SignalOrder[5] = "coverage_3" /\ SignalOrder[6] = "coverage_4"
      /\ SignalOrder[7] = "coverage_5" /\ SignalOrder[8] = "results"
      /\ SignalOrder[9] = "fail"
  BY DEF SignalOrder
<1>2. /\ 1 .. 9 = {1, 2, 3, 4, 5, 6, 7, 8, 9}
      /\ 3 .. 7 = {3, 4, 5, 6, 7}
  OBVIOUS
<1>3. \A coverage \in 1 .. 5 : coverage + 2 \in 3 .. 7
  OBVIOUS
<1>4. Signals = {"input", "analysis", "coverage_1", "coverage_2",
                 "coverage_3", "coverage_4", "coverage_5", "results", "fail"}
  BY <1>1, <1>2 DEF Signals
<1>5. CoverageSignals = {"coverage_1", "coverage_2", "coverage_3",
                         "coverage_4", "coverage_5"}
  BY <1>1, <1>2 DEF CoverageSignals
<1>6. \A k \in 1 .. 9 : SignalOrder[k] \in Signals
  BY DEF Signals
<1>7. \A coverage \in 1 .. 5 : DoneSignal(coverage) \in CoverageSignals
  BY <1>3 DEF DoneSignal, CoverageSignals
<1> QED BY <1>4, <1>5, <1>6, <1>7

LEMMA SendType ==
  ASSUME TypeOK, NEW s \in Signals
  PROVE  /\ Signal(s) \in [Signals -> Nat]
         /\ Signal(s)[s] > 0
         /\ \A t \in Signals : /\ t # s => Signal(s)[t] = sig[t]
                               /\ sig[t] > 0 => Signal(s)[t] > 0
BY DEF TypeOK, Signal

(* The states that io_wait() leads to, each from its own signals.           *)
LEMMA StateAfterFacts ==
  ASSUME NEW s \in Signals
  PROVE  /\ StateAfter(s) \in {"wait", "request", "start", "results", "abort"}
         /\ StateAfter(s) = "wait" <=> s = "results"
         /\ StateAfter(s) = "request" <=> s = "input"
         /\ StateAfter(s) = "start" <=> s = "analysis"
         /\ StateAfter(s) = "abort" <=> s = "fail"
BY SignalNames DEF StateAfter

(* What io_wait() has found out when it reads a signal: those before it in  *)
(* the enumeration have nothing to be read.                                 *)
LEMMA ReadFacts ==
  ASSUME TypeOK, ReadSignal
  PROVE  \E s \in Signals :
           /\ sig[s] > 0
           /\ sig' = [sig EXCEPT ![s] = @ - 1]
           /\ m_state' = StateAfter(s)
           /\ s \notin {"input", "analysis"} => sig["analysis"] = 0
           /\ s \in {"results", "fail"} =>
                \A t \in CoverageSignals : sig[t] = 0
<1>1. PICK k \in 1 .. 9 : /\ FirstReadable(k)
                          /\ sig' = [sig EXCEPT ![SignalOrder[k]] = @ - 1]
                          /\ m_state' = StateAfter(SignalOrder[k])
  BY DEF ReadSignal
<1> DEFINE s == SignalOrder[k]
<1>2. SignalOrder[1] = "input" /\ SignalOrder[2] = "analysis"
  BY DEF SignalOrder
<1>3. s \notin {"input", "analysis"} => sig["analysis"] = 0
  <2> SUFFICES ASSUME s \notin {"input", "analysis"}
               PROVE  sig["analysis"] = 0
    OBVIOUS
  <2>1. k # 1 /\ k # 2
    BY <1>2
  <2> QED BY <1>1, <1>2, <2>1 DEF FirstReadable
<1>4. s \in {"results", "fail"} => \A t \in CoverageSignals : sig[t] = 0
  <2> SUFFICES ASSUME s \in {"results", "fail"}, NEW t \in CoverageSignals
               PROVE  sig[t] = 0
    OBVIOUS
  <2>1. PICK l \in 3 .. 7 : t = SignalOrder[l]
    BY DEF CoverageSignals
  <2>2. k \notin 1 .. 7
    <3>1. \A n \in 3 .. 7 : SignalOrder[n] \in CoverageSignals
      BY DEF CoverageSignals
    <3>2. s \notin CoverageSignals
      BY SignalNames
    <3>3. k \notin 3 .. 7
      BY <3>1, <3>2
    <3>4. k # 1 /\ k # 2
      BY <1>2
    <3> QED BY <3>3, <3>4
  <2> QED BY <1>1, <2>1, <2>2 DEF FirstReadable
<1>5. s \in Signals
  BY SignalNames
<1> HIDE DEF s
<1> QED
  <2>1. sig[s] > 0 /\ sig' = [sig EXCEPT ![s] = @ - 1]
        /\ m_state' = StateAfter(s)
    BY <1>1 DEF FirstReadable, s
  <2> WITNESS s \in Signals
  <2> QED BY <2>1, <1>3, <1>4

------------------------------------------------------------------------------
(* Type correctness, in three parts.  That start_test() counts from the     *)
(* first case is what keeps the type of the queue.                          *)
FlagsOK ==
  /\ bound \in BOOLEAN
  /\ list \in BOOLEAN
  /\ local \in BOOLEAN
  /\ reboot \in BOOLEAN
  /\ alive \in BOOLEAN
  /\ due \in BOOLEAN

StatesOK ==
  /\ m_state \in {"none", "wait", "request", "start", "results", "abort"}
  /\ dml_state \in {"idle", "running", "complete_success", "complete_failure"}
  /\ pc \in {"wait", "select", "switch", "analyze", "analyzed", "refused",
             "testing", "complete", "completed", "failure", "failed",
             "pausing", "down"}
  /\ url \in {"none", "remote", "localhost", "path"}
  /\ file \in {"none", "remote", "localhost", "path"}
  /\ verdict \in {"asked", "lost", "passed", "failed"}
  /\ report \in {"none", "complete", "fail", "pause"}

DataOK ==
  /\ sig \in [Signals -> Nat]
  /\ i \in Nat
  /\ count \in Nat
  /\ cases \in Seq(Cases)
  /\ starts \in 0 .. MaxStarts
  /\ faults \in 0 .. MaxFaults
  /\ resets \in 0 .. MaxResets

SetterOK == setter \in {"none", "url", "start"}

CasePoint == pc \in {"testing", "pausing"} => i >= 1

TypeInv == TypeOK /\ CasePoint

LEMMA TypeParts == TypeOK <=> FlagsOK /\ StatesOK /\ DataOK /\ SetterOK
BY DEF TypeOK, FlagsOK, StatesOK, DataOK, SetterOK

LEMMA CaseType ==
  ASSUME NEW q \in Seq(Cases), NEW k \in 1 .. Len(q)
  PROVE  /\ q[k].coverage \in 1 .. 5
         /\ [q EXCEPT ![k] = Named(@)] \in Seq(Cases)
         /\ Len([q EXCEPT ![k] = Named(@)]) = Len(q)
<1>1. q[k] \in Cases
  OBVIOUS
<1>2. q[k].coverage \in 1 .. 5
  BY <1>1 DEF Cases
<1>3. Named(q[k]) \in Cases
  BY <1>2 DEF Cases, Named
<1> QED BY <1>2, <1>3

LEMMA DecodedType ==
  ASSUME NEW new \in Decoded PROVE new \in Seq(Cases)
<1>1. PICK n \in 0 .. MaxCases :
        new \in [1 .. n -> [coverage : Coverages, name : HeapNames]]
  BY DEF Decoded
<1>2. [coverage : Coverages, name : HeapNames] \subseteq Cases
  BY CoveragesAssumption, HeapAssumption DEF Cases
<1>3. n \in Nat
  BY BoundAssumption
<1> QED BY <1>1, <1>2, <1>3

LEMMA PushType ==
  ASSUME TypeOK, NEW new \in Decoded, Push(new)
  PROVE  cases' \in Seq(Cases)
BY DecodedType DEF TypeOK, Push

LEMMA TypeInit == Init => TypeInv
<1> SUFFICES ASSUME Init PROVE TypeInv
  OBVIOUS
<1>1. FlagsOK
  BY DEF Init, FlagsOK
<1>2. StatesOK
  BY DEF Init, StatesOK
<1>3. DataOK
  BY BoundAssumption DEF Init, DataOK
<1>4. SetterOK /\ CasePoint
  BY DEF Init, SetterOK, CasePoint
<1> QED BY <1>1, <1>2, <1>3, <1>4, TypeParts DEF TypeInv

LEMMA FlagsStep == FlagsOK /\ [Next]_vars => FlagsOK'
<1> SUFFICES ASSUME FlagsOK, [Next]_vars PROVE FlagsOK'
  OBVIOUS
<1>1. CASE IoPrep
  BY <1>1 DEF FlagsOK, IoPrep, queueVars, urlVars
<1>2. CASE ReadSignal
  BY <1>2 DEF FlagsOK, ReadSignal, queueVars, urlVars, otherVars, historyVars
<1>3. CASE SelectFails
  BY <1>3 DEF FlagsOK, SelectFails, signalVars, queueVars, urlVars,
      historyVars
<1>4. CASE Idle
  BY <1>4 DEF FlagsOK, Idle, signalVars, queueVars, urlVars, otherVars,
      historyVars
<1>5. CASE AgentUnavailable
  BY <1>5 DEF FlagsOK, AgentUnavailable, RequestFailed, queueVars, urlVars
<1>6. CASE ClassifyUrl
  BY <1>6 DEF FlagsOK, ClassifyUrl, signalVars, queueVars, otherVars,
      historyVars
<1>7. CASE AnalyzeOK
  BY <1>7 DEF FlagsOK, AnalyzeOK, urlVars, otherVars, historyVars
<1>8. CASE AnalyzeFails
  BY <1>8 DEF FlagsOK, AnalyzeFails, RequestFailed, urlVars
<1>9. CASE StartNothing
  BY <1>9 DEF FlagsOK, StartNothing, RequestFailed, queueVars, urlVars
<1>10. CASE StartTests
  BY <1>10 DEF FlagsOK, StartTests, signalVars, queueVars, urlVars, otherVars,
      historyVars
<1>11. CASE \E o \in Outcomes : RunCase(o)
  BY <1>11 DEF FlagsOK, RunCase, CaseRuns, SafeIf, urlVars
<1>12. CASE CaseMissing
  BY <1>12 DEF FlagsOK, CaseMissing, signalVars, queueVars, urlVars,
      historyVars
<1>13. CASE TestsEnded
  BY <1>13 DEF FlagsOK, TestsEnded, signalVars, queueVars, urlVars, otherVars,
      historyVars
<1>14. CASE RebootStep
  BY <1>14 DEF FlagsOK, RebootStep, CaseRuns, UploadCases, SafeIf, signalVars,
      historyVars
<1>15. CASE Reboot
  BY <1>15 DEF FlagsOK, Reboot, signalVars, queueVars, urlVars
<1>16. CASE RebootFails
  BY <1>16 DEF FlagsOK, RebootFails, queueVars, urlVars
<1>17. CASE Results
  BY <1>17 DEF FlagsOK, Results, UploadCases, SafeIf, signalVars, urlVars,
      historyVars
<1>18. CASE Abort
  BY <1>18 DEF FlagsOK, Abort, UploadCases, SafeIf, signalVars, urlVars,
      historyVars
<1>19. CASE ReportComplete
  BY <1>19 DEF FlagsOK, ReportComplete, queueVars, urlVars
<1>20. CASE ReportFailure
  BY <1>20 DEF FlagsOK, ReportFailure, signalVars, urlVars
<1>21. CASE Completed
  BY <1>21 DEF FlagsOK, Completed, signalVars, queueVars, urlVars, otherVars,
      historyVars
<1>22. CASE Failed
  BY <1>22 DEF FlagsOK, Failed, signalVars, queueVars, urlVars, otherVars,
      historyVars
<1>23. CASE SetStart
  BY <1>23 DEF FlagsOK, SetStart, queueVars, urlVars
<1>24. CASE \E u \in {"remote", "localhost"} : SetUrl(u)
  BY <1>24 DEF FlagsOK, SetUrl, signalVars, queueVars, otherVars, historyVars
<1>25. CASE Reset
  BY <1>25 DEF FlagsOK, Reset, signalVars, queueVars, urlVars, historyVars
<1>26. CASE Boot
  BY <1>26 DEF FlagsOK, Boot
<1>27. CASE UNCHANGED vars
  BY <1>27 DEF FlagsOK, vars, signalVars, queueVars, urlVars, otherVars,
      historyVars
<1>28. CASE Analyzed
  BY <1>28 DEF FlagsOK, Analyzed, signalVars, queueVars, urlVars, otherVars,
      historyVars
<1>29. CASE Refused
  BY <1>29 DEF FlagsOK, Refused, signalVars, queueVars, urlVars, otherVars,
      historyVars
<1>30. CASE \E property \in {"url", "start"} : SetAdmitted(property)
  BY <1>30 DEF FlagsOK, SetAdmitted, signalVars, queueVars, urlVars,
      historyVars
<1> QED
  BY <1>1, <1>2, <1>3, <1>4, <1>5, <1>6, <1>7, <1>8, <1>9, <1>10, <1>11,
      <1>12, <1>13, <1>14, <1>15, <1>16, <1>17, <1>18, <1>19, <1>20, <1>21,
      <1>22, <1>23, <1>24, <1>25, <1>26, <1>27, <1>28, <1>29,
      <1>30 DEF Next, LoopThread, Loop, Bus

LEMMA StatesStep == TypeOK /\ [Next]_vars => StatesOK'
<1> SUFFICES ASSUME TypeOK, StatesOK, [Next]_vars PROVE StatesOK'
  BY TypeParts
<1>1. CASE IoPrep
  BY <1>1 DEF StatesOK, IoPrep, urlVars
<1>2. CASE ReadSignal
  <2>1. PICK s \in Signals : m_state' = StateAfter(s)
    BY <1>2, ReadFacts
  <2>2. m_state' \in {"wait", "request", "start", "results", "abort"}
    BY <2>1, StateAfterFacts
  <2> QED BY <1>2, <2>2 DEF StatesOK, ReadSignal, queueVars, urlVars,
                            otherVars, historyVars, boundVars
<1>3. CASE SelectFails
  BY <1>3 DEF StatesOK, SelectFails, urlVars, historyVars
<1>4. CASE Idle
  BY <1>4 DEF StatesOK, Idle, urlVars, otherVars, historyVars
<1>5. CASE AgentUnavailable
  BY <1>5 DEF StatesOK, AgentUnavailable, RequestFailed, urlVars
<1>6. CASE ClassifyUrl
  BY <1>6 DEF StatesOK, ClassifyUrl, otherVars, historyVars
<1>7. CASE AnalyzeOK
  BY <1>7 DEF StatesOK, AnalyzeOK, urlVars, otherVars, historyVars
<1>8. CASE AnalyzeFails
  BY <1>8 DEF StatesOK, AnalyzeFails, RequestFailed, urlVars
<1>9. CASE StartNothing
  BY <1>9 DEF StatesOK, StartNothing, RequestFailed, urlVars
<1>10. CASE StartTests
  BY <1>10 DEF StatesOK, StartTests, urlVars, otherVars, historyVars
<1>11. CASE \E o \in Outcomes : RunCase(o)
  BY <1>11 DEF StatesOK, RunCase, CaseRuns, SafeIf, urlVars
<1>12. CASE CaseMissing
  BY <1>12 DEF StatesOK, CaseMissing, stateVars, urlVars, historyVars
<1>13. CASE TestsEnded
  BY <1>13 DEF StatesOK, TestsEnded, urlVars, otherVars, historyVars
<1>14. CASE RebootStep
  BY <1>14 DEF StatesOK, RebootStep, CaseRuns, UploadCases, SafeIf,
      historyVars
<1>15. CASE Reboot
  BY <1>15 DEF StatesOK, Reboot, urlVars
<1>16. CASE RebootFails
  BY <1>16 DEF StatesOK, RebootFails, urlVars
<1>17. CASE Results
  BY <1>17 DEF StatesOK, Results, UploadCases, SafeIf, urlVars, historyVars
<1>18. CASE Abort
  BY <1>18 DEF StatesOK, Abort, UploadCases, SafeIf, urlVars, historyVars
<1>19. CASE ReportComplete
  BY <1>19 DEF StatesOK, ReportComplete, urlVars
<1>20. CASE ReportFailure
  BY <1>20 DEF StatesOK, ReportFailure, urlVars
<1>21. CASE Completed
  BY <1>21 DEF StatesOK, Completed, urlVars, otherVars, historyVars
<1>22. CASE Failed
  BY <1>22 DEF StatesOK, Failed, urlVars, otherVars, historyVars
<1>23. CASE SetStart
  BY <1>23 DEF StatesOK, SetStart, stateVars, urlVars
<1>24. CASE \E u \in {"remote", "localhost"} : SetUrl(u)
  BY <1>24 DEF StatesOK, SetUrl, stateVars, otherVars, historyVars
<1>25. CASE Reset
  BY <1>25 DEF StatesOK, Reset, urlVars, historyVars
<1>26. CASE Boot
  BY <1>26 DEF StatesOK, Boot
<1>27. CASE UNCHANGED vars
  BY <1>27 DEF StatesOK, vars, stateVars, urlVars, otherVars, historyVars
<1>28. CASE Analyzed
  BY <1>28 DEF StatesOK, Analyzed, urlVars, otherVars, historyVars
<1>29. CASE Refused
  BY <1>29 DEF StatesOK, Refused, urlVars, otherVars, historyVars
<1>30. CASE \E property \in {"url", "start"} : SetAdmitted(property)
  BY <1>30 DEF StatesOK, SetAdmitted, stateVars, urlVars, historyVars
<1> QED
  BY <1>1, <1>2, <1>3, <1>4, <1>5, <1>6, <1>7, <1>8, <1>9, <1>10, <1>11,
      <1>12, <1>13, <1>14, <1>15, <1>16, <1>17, <1>18, <1>19, <1>20, <1>21,
      <1>22, <1>23, <1>24, <1>25, <1>26, <1>27, <1>28, <1>29,
      <1>30 DEF Next, LoopThread, Loop, Bus

LEMMA DataStep == TypeInv /\ [Next]_vars => DataOK'
<1> SUFFICES ASSUME TypeOK, DataOK, CasePoint, [Next]_vars PROVE DataOK'
  BY TypeParts DEF TypeInv
<1> USE DEF DataOK, CasePoint
<1>1. CASE IoPrep
  BY <1>1, SendType, SignalNames DEF IoPrep, queueVars, boundVars
<1>2. CASE ReadSignal
  <2>1. PICK s \in Signals : sig[s] > 0 /\ sig' = [sig EXCEPT ![s] = @ - 1]
    BY <1>2, ReadFacts
  <2>2. sig' \in [Signals -> Nat]
    BY <2>1
  <2> QED BY <1>2, <2>2 DEF ReadSignal, queueVars, otherVars, boundVars
<1>3. CASE SelectFails
  BY <1>3, BoundAssumption DEF SelectFails, signalVars, queueVars
<1>4. CASE Idle
  BY <1>4 DEF Idle, signalVars, queueVars, otherVars, boundVars
<1>5. CASE AgentUnavailable
  BY <1>5, SendType, SignalNames DEF AgentUnavailable, RequestFailed,
      queueVars, boundVars
<1>6. CASE ClassifyUrl
  BY <1>6 DEF ClassifyUrl, signalVars, queueVars, otherVars, boundVars
<1>7. CASE AnalyzeOK
  <2>1. cases' \in Seq(Cases)
    BY <1>7, PushType DEF AnalyzeOK
  <2> QED BY <1>7, <2>1, SendType, SignalNames DEF AnalyzeOK, otherVars,
                                                   boundVars
<1>8. CASE AnalyzeFails
  <2>1. cases' \in Seq(Cases)
    BY <1>8, PushType DEF AnalyzeFails
  <2> QED BY <1>8, <2>1, SendType, SignalNames DEF AnalyzeFails,
                                                   RequestFailed, boundVars
<1>9. CASE StartNothing
  BY <1>9, SendType, SignalNames DEF StartNothing, RequestFailed, queueVars,
      boundVars
<1>10. CASE StartTests
  BY <1>10 DEF StartTests, signalVars, queueVars, otherVars, boundVars
<1>11. CASE \E o \in Outcomes : RunCase(o)
  <2>1. PICK o \in Outcomes : RunCase(o)
    BY <1>11
  <2>2. i \in 1 .. Len(cases)
    BY <2>1 DEF RunCase, CaseRuns
  <2>3. cases' \in Seq(Cases)
    BY <2>1, <2>2, CaseType DEF RunCase
  <2>4. DoneSignal(cases[i].coverage) \in Signals
    BY <2>2, CaseType, SignalNames
  <2>5. o \in {"pass", "fail", "silent"}
    BY <2>1, OutcomesAssumption DEF RunCase
  <2>6. sig' \in [Signals -> Nat]
    BY <2>1, <2>4, <2>5, SendType, SignalNames DEF RunCase
  <2>7. i' \in Nat /\ UNCHANGED <<count, starts, faults, resets>>
    BY <2>1 DEF RunCase, boundVars
  <2> QED BY <2>3, <2>6, <2>7
<1>12. CASE CaseMissing
  BY <1>12 DEF CaseMissing, stateVars, signalVars, queueVars, boundVars
<1>13. CASE TestsEnded
  BY <1>13 DEF TestsEnded, signalVars, queueVars, otherVars, boundVars
<1>14. CASE RebootStep
  BY <1>14 DEF RebootStep, CaseRuns, UploadCases, SafeIf, signalVars,
      boundVars
<1>15. CASE Reboot
  BY <1>15 DEF Reboot, signalVars, queueVars, boundVars
<1>16. CASE RebootFails
  BY <1>16, SendType, SignalNames DEF RebootFails, queueVars, boundVars
<1>17. CASE Results
  BY <1>17 DEF Results, UploadCases, SafeIf, signalVars, boundVars
<1>18. CASE Abort
  BY <1>18 DEF Abort, UploadCases, SafeIf, signalVars, boundVars
<1>19. CASE ReportComplete
  BY <1>19, SendType, SignalNames DEF ReportComplete, queueVars, boundVars
<1>20. CASE ReportFailure
  <2>1. cases' = <<>> \/ cases' = cases
    BY <1>20, Zenon DEF ReportFailure
  <2>2. <<>> \in Seq(Cases)
    OBVIOUS
  <2>3. cases' \in Seq(Cases)
    BY <2>1, <2>2
  <2> QED BY <1>20, <2>3 DEF ReportFailure, signalVars, boundVars
<1>21. CASE Completed
  BY <1>21 DEF Completed, signalVars, queueVars, otherVars, boundVars
<1>22. CASE Failed
  BY <1>22 DEF Failed, signalVars, queueVars, otherVars, boundVars
<1>23. CASE SetStart
  <2>1. sig' \in [Signals -> Nat]
    BY <1>23, SendType, SignalNames DEF SetStart
  <2> QED BY <1>23, <2>1 DEF SetStart, stateVars, queueVars, boundVars
<1>24. CASE \E u \in {"remote", "localhost"} : SetUrl(u)
  BY <1>24 DEF SetUrl, stateVars, signalVars, queueVars, otherVars, boundVars
<1>25. CASE Reset
  BY <1>25, BoundAssumption DEF Reset, signalVars, queueVars
<1>26. CASE Boot
  BY <1>26 DEF Boot, boundVars
<1>27. CASE UNCHANGED vars
  BY <1>27 DEF vars, stateVars, signalVars, queueVars, otherVars, boundVars
<1>28. CASE Analyzed
  BY <1>28 DEF Analyzed, signalVars, queueVars, otherVars, boundVars
<1>29. CASE Refused
  BY <1>29 DEF Refused, signalVars, queueVars, otherVars, boundVars
<1>30. CASE \E property \in {"url", "start"} : SetAdmitted(property)
  <2>1. starts' \in 0 .. MaxStarts
    BY <1>30, BoundAssumption DEF SetAdmitted
  <2> QED BY <1>30, <2>1 DEF SetAdmitted, stateVars, signalVars, queueVars
<1> QED
  BY <1>1, <1>2, <1>3, <1>4, <1>5, <1>6, <1>7, <1>8, <1>9, <1>10, <1>11,
      <1>12, <1>13, <1>14, <1>15, <1>16, <1>17, <1>18, <1>19, <1>20, <1>21,
      <1>22, <1>23, <1>24, <1>25, <1>26, <1>27, <1>28, <1>29,
      <1>30 DEF Next, LoopThread, Loop, Bus

LEMMA CasePointStep == TypeInv /\ [Next]_vars => CasePoint'
<1> SUFFICES ASSUME DataOK, CasePoint, [Next]_vars PROVE CasePoint'
  BY TypeParts DEF TypeInv
<1> USE DEF DataOK, CasePoint
<1>1. CASE IoPrep
  BY <1>1 DEF IoPrep
<1>2. CASE ReadSignal
  BY <1>2 DEF ReadSignal
<1>3. CASE SelectFails
  BY <1>3 DEF SelectFails
<1>4. CASE Idle
  BY <1>4 DEF Idle
<1>5. CASE AgentUnavailable
  BY <1>5 DEF AgentUnavailable, RequestFailed
<1>6. CASE ClassifyUrl
  BY <1>6 DEF ClassifyUrl
<1>7. CASE AnalyzeOK
  BY <1>7 DEF AnalyzeOK
<1>8. CASE AnalyzeFails
  BY <1>8 DEF AnalyzeFails, RequestFailed
<1>9. CASE StartNothing
  BY <1>9 DEF StartNothing, RequestFailed
<1>10. CASE StartTests
  BY <1>10 DEF StartTests
<1>11. CASE \E o \in Outcomes : RunCase(o)
  BY <1>11 DEF RunCase, CaseRuns, SafeIf
<1>12. CASE CaseMissing
  BY <1>12 DEF CaseMissing, stateVars
<1>13. CASE TestsEnded
  BY <1>13 DEF TestsEnded
<1>14. CASE RebootStep
  BY <1>14 DEF RebootStep, CaseRuns, UploadCases, SafeIf
<1>15. CASE Reboot
  BY <1>15 DEF Reboot
<1>16. CASE RebootFails
  BY <1>16 DEF RebootFails
<1>17. CASE Results
  BY <1>17 DEF Results, UploadCases, SafeIf
<1>18. CASE Abort
  BY <1>18 DEF Abort, UploadCases, SafeIf
<1>19. CASE ReportComplete
  BY <1>19 DEF ReportComplete
<1>20. CASE ReportFailure
  BY <1>20 DEF ReportFailure
<1>21. CASE Completed
  BY <1>21 DEF Completed
<1>22. CASE Failed
  BY <1>22 DEF Failed
<1>23. CASE SetStart
  BY <1>23 DEF SetStart, stateVars
<1>24. CASE \E u \in {"remote", "localhost"} : SetUrl(u)
  BY <1>24 DEF SetUrl, stateVars
<1>25. CASE Reset
  BY <1>25 DEF Reset
<1>26. CASE Boot
  BY <1>26 DEF Boot
<1>27. CASE UNCHANGED vars
  BY <1>27 DEF vars, stateVars
<1>28. CASE Analyzed
  BY <1>28 DEF Analyzed, signalVars, queueVars
<1>29. CASE Refused
  BY <1>29 DEF Refused, signalVars, queueVars
<1>30. CASE \E property \in {"url", "start"} : SetAdmitted(property)
  BY <1>30 DEF SetAdmitted, stateVars, signalVars, queueVars
<1> QED
  BY <1>1, <1>2, <1>3, <1>4, <1>5, <1>6, <1>7, <1>8, <1>9, <1>10, <1>11,
      <1>12, <1>13, <1>14, <1>15, <1>16, <1>17, <1>18, <1>19, <1>20, <1>21,
      <1>22, <1>23, <1>24, <1>25, <1>26, <1>27, <1>28, <1>29,
      <1>30 DEF Next, LoopThread, Loop, Bus

LEMMA TypeStep == TypeInv /\ [Next]_vars => TypeInv'
<1> SUFFICES ASSUME TypeInv, [Next]_vars PROVE TypeInv'
  OBVIOUS
<1>1. FlagsOK'
  BY FlagsStep, TypeParts DEF TypeInv
<1>2. StatesOK'
  BY StatesStep DEF TypeInv
<1>3. DataOK'
  BY DataStep
<1>4. SetterOK'
  <2>1. SetterOK
    BY TypeParts DEF TypeInv
  <2>2. setter' \in {setter, "none", "url", "start"}
    BY DEF Next, LoopThread, Bus, SetAdmitted, SetUrl, SetStart, Boot, vars
  <2> QED BY <2>1, <2>2 DEF SetterOK
<1>5. TypeOK'
  BY <1>1, <1>2, <1>3, <1>4 DEF TypeOK, FlagsOK, StatesOK, DataOK, SetterOK
<1> QED BY <1>5, CasePointStep DEF TypeInv

LEMMA TypeInvariant == Spec => []TypeInv
BY TypeInit, TypeStep, PTL DEF Spec

(* Every variable keeps its type: no signal is read that was not sent, and  *)
(* start_test() looks at cases of the queue only.                           *)
THEOREM ControlTypeCorrect == Spec => []TypeOK
BY TypeInvariant, PTL DEF TypeInv

------------------------------------------------------------------------------
(* A status of idle can be trusted.  The loop becomes idle in state wait,   *)
(* which it enters from the signal that is read after those of an analysis  *)
(* and of finished cases; every step that makes test cases run has left     *)
(* idle before, or leaves it right after the signal of an analysis.         *)
NoCaseEnded == \A s \in CoverageSignals : sig[s] = 0

NoTestsLeft == sig["analysis"] = 0 /\ NoCaseEnded

IdleInv ==
  /\ dml_state = "idle" /\ pc # "down" =>
       /\ pc # "testing"
       /\ pc # "analyzed" => sig["analysis"] = 0
       /\ NoCaseEnded
  /\ pc = "switch" /\ m_state = "wait" => NoTestsLeft
  /\ pc = "switch" /\ m_state = "start" => dml_state # "idle"
  /\ pc = "pausing" => dml_state # "idle"

LEMMA IdleInit == Init => IdleInv
BY SignalNames DEF Init, IdleInv, NoTestsLeft, NoCaseEnded

(* A datagram for the request or for a failure leaves no tests behind.      *)
LEMMA NoTestsKept ==
  ASSUME TypeOK, NEW s \in Signals \ CoverageSignals, sig' = Signal(s)
  PROVE  /\ NoCaseEnded => NoCaseEnded'
         /\ s # "analysis" /\ sig["analysis"] = 0 => sig'["analysis"] = 0
BY SendType, SignalNames DEF NoCaseEnded

LEMMA IdleStep == TypeInv /\ IdleInv /\ [Next]_vars => IdleInv'
<1> SUFFICES ASSUME TypeInv, IdleInv, [Next]_vars PROVE IdleInv'
  OBVIOUS
<1>0. TypeOK
  BY DEF TypeInv
<1> USE DEF IdleInv, NoTestsLeft, NoCaseEnded
<1>1. CASE IoPrep
  BY <1>1, <1>0, SignalNames, NoTestsKept DEF IoPrep
<1>2. CASE ReadSignal
  <2>1. PICK s \in Signals :
          /\ sig[s] > 0
          /\ sig' = [sig EXCEPT ![s] = @ - 1]
          /\ m_state' = StateAfter(s)
          /\ s \notin {"input", "analysis"} => sig["analysis"] = 0
          /\ s \in {"results", "fail"} =>
               \A t \in CoverageSignals : sig[t] = 0
    BY <1>2, <1>0, ReadFacts
  <2>2. UNCHANGED dml_state /\ pc = "select" /\ pc' = "switch"
    BY <1>2 DEF ReadSignal
  <2>3. \A t \in Signals : sig[t] = 0 => sig'[t] = 0
    BY <2>1
  <2>4. m_state' = "wait" => s = "results"
    BY <2>1, StateAfterFacts
  <2>5. m_state' = "start" => s = "analysis"
    BY <2>1, StateAfterFacts
  <2>6. m_state' = "wait" => NoTestsLeft'
    BY <2>1, <2>3, <2>4, SignalNames
  <2>7. m_state' = "start" => dml_state # "idle"
    BY <2>1, <2>2, <2>5
  <2>8. dml_state = "idle" => NoTestsLeft'
    BY <2>2, <2>3, SignalNames
  <2> QED BY <2>2, <2>6, <2>7, <2>8
<1>3. CASE SelectFails
  BY <1>3 DEF SelectFails, signalVars
<1>4. CASE Idle
  BY <1>4 DEF Idle, signalVars
<1>5. CASE AgentUnavailable
  BY <1>5, <1>0, SignalNames, NoTestsKept DEF AgentUnavailable, RequestFailed
<1>6. CASE ClassifyUrl
  BY <1>6 DEF ClassifyUrl, signalVars
<1>7. CASE AnalyzeOK
  BY <1>7, <1>0, SignalNames, NoTestsKept DEF AnalyzeOK
<1>8. CASE AnalyzeFails
  BY <1>8, <1>0, SignalNames, NoTestsKept DEF AnalyzeFails, RequestFailed
<1>9. CASE StartNothing
  BY <1>9, <1>0, SignalNames, NoTestsKept DEF StartNothing, RequestFailed
<1>10. CASE StartTests
  BY <1>10 DEF StartTests, signalVars
<1>11. CASE \E o \in Outcomes : RunCase(o)
  BY <1>11 DEF RunCase, CaseRuns, SafeIf
<1>12. CASE CaseMissing
  BY <1>12 DEF CaseMissing, stateVars, signalVars
<1>13. CASE TestsEnded
  BY <1>13 DEF TestsEnded, signalVars
<1>14. CASE RebootStep
  BY <1>14 DEF RebootStep, CaseRuns, UploadCases, SafeIf, signalVars
<1>15. CASE Reboot
  BY <1>15 DEF Reboot, signalVars
<1>16. CASE RebootFails
  BY <1>16, <1>0, SignalNames, NoTestsKept DEF RebootFails
<1>17. CASE Results
  BY <1>17 DEF Results, UploadCases, SafeIf, signalVars
<1>18. CASE Abort
  BY <1>18 DEF Abort, UploadCases, SafeIf, signalVars
<1>19. CASE ReportComplete
  BY <1>19, <1>0, SignalNames, NoTestsKept DEF ReportComplete
<1>20. CASE ReportFailure
  BY <1>20 DEF ReportFailure, signalVars
<1>21. CASE Completed
  BY <1>21 DEF Completed, signalVars
<1>22. CASE Failed
  BY <1>22 DEF Failed, signalVars
<1>23. CASE SetStart
  BY <1>23, <1>0, SignalNames, NoTestsKept DEF SetStart, stateVars
<1>24. CASE \E u \in {"remote", "localhost"} : SetUrl(u)
  BY <1>24 DEF SetUrl, stateVars, signalVars
<1>25. CASE Reset
  BY <1>25 DEF Reset, signalVars
<1>26. CASE Boot
  BY <1>26, SignalNames DEF Boot
<1>27. CASE UNCHANGED vars
  BY <1>27 DEF vars, stateVars, signalVars
<1>28. CASE Analyzed
  BY <1>28 DEF Analyzed, signalVars, queueVars
<1>29. CASE Refused
  BY <1>29 DEF Refused, signalVars, queueVars
<1>30. CASE \E property \in {"url", "start"} : SetAdmitted(property)
  BY <1>30 DEF SetAdmitted, stateVars, signalVars, queueVars
<1> QED
  BY <1>1, <1>2, <1>3, <1>4, <1>5, <1>6, <1>7, <1>8, <1>9, <1>10, <1>11,
      <1>12, <1>13, <1>14, <1>15, <1>16, <1>17, <1>18, <1>19, <1>20, <1>21,
      <1>22, <1>23, <1>24, <1>25, <1>26, <1>27, <1>28, <1>29,
      <1>30 DEF Next, LoopThread, Loop, Bus

(* A status of idle means that no test case runs or has a signal unread,    *)
(* and that none is about to run, but for the moment in which an analysis   *)
(* was signalled and the status is not yet written: the order in which      *)
(* io_wait() looks at the signals guarantees it, with any failures and      *)
(* restarts.                                                                *)
THEOREM IdleIsTrusted == Spec => []IdleMeansNoTests
<1>1. IdleInv => IdleMeansNoTests
  BY DEF IdleInv, NoCaseEnded, IdleMeansNoTests
<1> QED BY <1>1, IdleInit, IdleStep, TypeInvariant, PTL DEF Spec

------------------------------------------------------------------------------
(* A quiet loop is clean.  Whatever is left of a request, its cases, its    *)
(* list or the running status, a signal is on its way to the loop that will *)
(* clear it; a test whose thread is not created is the exception, since it  *)
(* signals nothing.                                                         *)
Dirty == cases # <<>> \/ list \/ dml_state = "running"

TestsAhead == \E s \in Signals \ {"input", "results"} : sig[s] > 0

CleanInv ==
  /\ pc \in {"wait", "select", "analyze", "refused"} /\ Dirty => TestsAhead
  /\ pc = "analyzed" => TestsAhead
  /\ pc = "switch" /\ m_state \in {"none", "wait", "request"} /\ Dirty
       => TestsAhead
  /\ pc = "testing" => count >= 1 /\ (i > 1 => TestsAhead)
  /\ pc = "pausing" => count >= 1
  /\ pc \in {"complete", "completed", "failure", "failed"} =>
       cases = <<>> /\ ~list

LEMMA CleanInit == Init => CleanInv
BY DEF Init, CleanInv, Dirty

LEMMA AheadSent ==
  ASSUME TypeOK, NEW s \in Signals, sig' = Signal(s)
  PROVE  /\ TestsAhead => TestsAhead'
         /\ s \notin {"input", "results"} => TestsAhead'
BY SendType DEF TestsAhead

LEMMA CleanStep ==
  ASSUME "silent" \notin Outcomes
  PROVE  TypeInv /\ CleanInv /\ [Next]_vars => CleanInv'
<1> SUFFICES ASSUME TypeInv, CleanInv, [Next]_vars PROVE CleanInv'
  OBVIOUS
<1>0. TypeOK /\ CasePoint
  BY DEF TypeInv
<1> USE DEF CleanInv
<1>1. CASE IoPrep
  BY <1>1, <1>0, AheadSent, SignalNames DEF Dirty, TestsAhead, IoPrep,
      queueVars
<1>2. CASE ReadSignal
  <2>1. PICK s \in Signals : /\ sig' = [sig EXCEPT ![s] = @ - 1]
                             /\ m_state' = StateAfter(s)
    BY <1>2, <1>0, ReadFacts
  <2>2. ASSUME m_state' \in {"none", "wait", "request"}, Dirty
        PROVE  TestsAhead'
    <3>1. PICK t \in Signals \ {"input", "results"} : sig[t] > 0
      BY <1>2, <2>2 DEF ReadSignal, TestsAhead
    <3>2. s \in {"input", "results"}
      BY <2>1, <2>2, StateAfterFacts
    <3>3. sig'[t] > 0
      BY <1>0, <2>1, <3>1, <3>2 DEF TypeOK
    <3> QED BY <3>1, <3>3 DEF TestsAhead
  <2> QED BY <1>2, <2>2 DEF Dirty, ReadSignal, queueVars
<1>3. CASE SelectFails
  BY <1>3 DEF Dirty, TestsAhead, SelectFails, signalVars, queueVars
<1>4. CASE Idle
  BY <1>4 DEF Dirty, TestsAhead, Idle, signalVars, queueVars
<1>5. CASE AgentUnavailable
  BY <1>5, <1>0, AheadSent, SignalNames DEF Dirty, TestsAhead,
      AgentUnavailable, RequestFailed, queueVars
<1>6. CASE ClassifyUrl
  BY <1>6 DEF Dirty, TestsAhead, ClassifyUrl, signalVars, queueVars
<1>7. CASE AnalyzeOK
  BY <1>7, <1>0, AheadSent, SignalNames DEF Dirty, TestsAhead, AnalyzeOK
<1>8. CASE AnalyzeFails
  BY <1>8, <1>0, AheadSent, SignalNames DEF Dirty, TestsAhead, AnalyzeFails,
      RequestFailed
<1>9. CASE StartNothing
  BY <1>9, <1>0, AheadSent, SignalNames DEF Dirty, TestsAhead, StartNothing,
      RequestFailed, queueVars
<1>10. CASE StartTests
  <2>1. Len(cases) >= 1
    BY <1>10, <1>0 DEF StartTests, TypeOK
  <2> QED BY <1>10, <2>1 DEF StartTests
<1>11. CASE \E o \in Outcomes : RunCase(o)
  <2>1. PICK o \in Outcomes : RunCase(o)
    BY <1>11
  <2>2. i \in 1 .. Len(cases) /\ pc = "testing"
    BY <1>0, <2>1 DEF RunCase, CaseRuns, TypeOK, CasePoint
  <2>3. DoneSignal(cases[i].coverage) \in CoverageSignals
    BY <1>0, <2>2, CaseType, SignalNames DEF TypeOK
  <2>4. \E s \in CoverageSignals \cup {"fail"} : sig' = Signal(s)
    BY <2>1, <2>3, OutcomesAssumption DEF RunCase
  <2>5. TestsAhead'
    BY <1>0, <2>4, AheadSent, SignalNames
  <2> QED BY <2>1, <2>2, <2>5 DEF RunCase
<1>12. CASE CaseMissing
  BY <1>12 DEF Dirty, TestsAhead, CaseMissing, stateVars, signalVars,
      queueVars
<1>13. CASE TestsEnded
  <2>1. TestsAhead
    BY <1>13, <1>0 DEF TestsEnded, TypeOK
  <2> QED BY <1>13, <2>1 DEF TestsEnded, TestsAhead, signalVars
<1>14. CASE RebootStep
  BY <1>14 DEF Dirty, TestsAhead, RebootStep, CaseRuns, UploadCases, SafeIf,
      signalVars
<1>15. CASE Reboot
  BY <1>15 DEF Dirty, TestsAhead, Reboot, signalVars, queueVars
<1>16. CASE RebootFails
  <2>1. TestsAhead'
    BY <1>16, <1>0, AheadSent, SignalNames DEF RebootFails
  <2> QED BY <1>16, <2>1 DEF RebootFails
<1>17. CASE Results
  BY <1>17 DEF Dirty, TestsAhead, Results, UploadCases, SafeIf, signalVars
<1>18. CASE Abort
  BY <1>18 DEF Dirty, TestsAhead, Abort, UploadCases, SafeIf, signalVars
<1>19. CASE ReportComplete
  BY <1>19, <1>0, AheadSent, SignalNames DEF Dirty, TestsAhead,
      ReportComplete, queueVars
<1>20. CASE ReportFailure
  <2>1. cases' = <<>>
    BY <1>20, Zenon DEF ReportFailure
  <2> QED BY <1>20, <2>1 DEF ReportFailure
<1>21. CASE Completed
  BY <1>21 DEF Dirty, TestsAhead, Completed, signalVars, queueVars
<1>22. CASE Failed
  BY <1>22 DEF Dirty, TestsAhead, Failed, signalVars, queueVars
<1>23. CASE SetStart
  BY <1>23, <1>0, AheadSent, SignalNames DEF Dirty, TestsAhead, SetStart,
      stateVars, queueVars
<1>24. CASE \E u \in {"remote", "localhost"} : SetUrl(u)
  BY <1>24 DEF Dirty, TestsAhead, SetUrl, stateVars, signalVars, queueVars
<1>25. CASE Reset
  BY <1>25 DEF Dirty, TestsAhead, Reset, signalVars, queueVars
<1>26. CASE Boot
  BY <1>26 DEF Dirty, TestsAhead, Boot
<1>27. CASE UNCHANGED vars
  BY <1>27 DEF Dirty, TestsAhead, vars, stateVars, signalVars, queueVars
<1>28. CASE Analyzed
  BY <1>28 DEF Dirty, TestsAhead, Analyzed, signalVars, queueVars
<1>29. CASE Refused
  BY <1>29 DEF Dirty, TestsAhead, Refused, signalVars, queueVars
<1>30. CASE \E property \in {"url", "start"} : SetAdmitted(property)
  BY <1>30 DEF Dirty, TestsAhead, SetAdmitted, stateVars, signalVars,
      queueVars
<1> QED
  BY <1>1, <1>2, <1>3, <1>4, <1>5, <1>6, <1>7, <1>8, <1>9, <1>10, <1>11,
      <1>12, <1>13, <1>14, <1>15, <1>16, <1>17, <1>18, <1>19, <1>20, <1>21,
      <1>22, <1>23, <1>24, <1>25, <1>26, <1>27, <1>28, <1>29,
      <1>30 DEF Next, LoopThread, Loop, Bus

(* When no signal is left to be read the queue is empty, the list closed    *)
(* and the status not running, however requests overlapped and whichever    *)
(* of their steps failed, unless a test thread could not be created.        *)
THEOREM QuietLoopIsClean ==
  ASSUME "silent" \notin Outcomes
  PROVE  Spec => []QuietIsClean
<1>1. TypeInv /\ CleanInv /\ [Next]_vars => CleanInv'
  BY CleanStep
<1>2. TypeInv /\ CleanInv => QuietIsClean
  BY DEF CleanInv, Dirty, TestsAhead, QuietIsClean
<1> QED BY <1>1, <1>2, CleanInit, TypeInvariant, PTL DEF Spec

------------------------------------------------------------------------------
(* What was analysed is in the queue, with the list open, until its tests   *)
(* have run.  Reading the signals of an analysis before those of finished   *)
(* cases and failures is what keeps an upload from coming in between; a     *)
(* failing select() and a reboot step do come in between.                   *)
QueueInv ==
  /\ sig["analysis"] > 0 => cases # <<>> /\ list
  /\ pc = "switch" /\ m_state = "start" => cases # <<>> /\ list
  /\ pc = "switch" /\ m_state \in {"results", "abort"} => sig["analysis"] = 0
  /\ pc \in {"complete", "completed", "failure", "failed"} =>
       sig["analysis"] = 0
  /\ pc = "testing" => list /\ count = Len(cases)
  /\ pc # "pausing"

LEMMA QueueInit == Init => QueueInv
BY SignalNames DEF Init, QueueInv

LEMMA AnalysisKept ==
  ASSUME TypeOK, NEW s \in Signals \ {"analysis"}, sig' = Signal(s)
  PROVE  sig'["analysis"] = sig["analysis"]
BY SendType, SignalNames

LEMMA QueueStep ==
  ASSUME TypeInv, QueueInv, [Next]_vars, ~SelectFails, ~RebootStep
  PROVE  QueueInv'
<1>0. TypeOK /\ CasePoint
  BY DEF TypeInv
<1> USE DEF QueueInv
<1>1. CASE IoPrep
  BY <1>1, <1>0, AnalysisKept, SignalNames DEF IoPrep, queueVars
<1>2. CASE ReadSignal
  <2>1. PICK s \in Signals :
          /\ sig[s] > 0
          /\ sig' = [sig EXCEPT ![s] = @ - 1]
          /\ m_state' = StateAfter(s)
          /\ s \notin {"input", "analysis"} => sig["analysis"] = 0
    BY <1>2, <1>0, ReadFacts
  <2>2. sig'["analysis"] > 0 => sig["analysis"] > 0
    BY <1>0, <2>1, SignalNames DEF TypeOK
  <2>3. m_state' = "start" => sig["analysis"] > 0
    BY <2>1, StateAfterFacts
  <2>4. m_state' \in {"results", "abort"} => sig'["analysis"] = 0
    BY <1>0, <2>1, SignalNames, StateAfterFacts DEF TypeOK
  <2> QED BY <1>2, <2>2, <2>3, <2>4 DEF ReadSignal, queueVars
<1>4. CASE Idle
  BY <1>4 DEF Idle, signalVars, queueVars
<1>5. CASE AgentUnavailable
  BY <1>5, <1>0, AnalysisKept, SignalNames DEF AgentUnavailable,
      RequestFailed, queueVars
<1>6. CASE ClassifyUrl
  BY <1>6 DEF ClassifyUrl, signalVars, queueVars
<1>7. CASE AnalyzeOK
  BY <1>7 DEF AnalyzeOK
<1>8. CASE AnalyzeFails
  <2>1. cases # <<>> => cases' # <<>>
    <3>1. PICK new \in Decoded : cases' = new \o cases
      BY <1>8 DEF AnalyzeFails, Push
    <3>2. new \in Seq(Cases) /\ cases \in Seq(Cases)
      BY <1>0, <3>1, DecodedType DEF TypeOK
    <3> QED BY <3>1, <3>2
  <2> QED BY <1>8, <1>0, <2>1, AnalysisKept, SignalNames DEF AnalyzeFails,
                                                         RequestFailed
<1>9. CASE StartNothing
  BY <1>9, <1>0, AnalysisKept, SignalNames DEF StartNothing, RequestFailed,
      queueVars
<1>10. CASE StartTests
  BY <1>10 DEF StartTests, signalVars, queueVars
<1>11. CASE \E o \in Outcomes : RunCase(o)
  <2>1. PICK o \in Outcomes : RunCase(o)
    BY <1>11
  <2>2. i \in 1 .. Len(cases) /\ pc = "testing"
    BY <1>0, <2>1 DEF RunCase, CaseRuns, TypeOK, CasePoint
  <2>3. DoneSignal(cases[i].coverage) \in CoverageSignals
    BY <1>0, <2>2, CaseType, SignalNames DEF TypeOK
  <2>4. sig'["analysis"] = sig["analysis"]
    BY <1>0, <2>1, <2>3, OutcomesAssumption, SendType, SignalNames DEF RunCase
  <2>5. Len(cases') = Len(cases)
    BY <1>0, <2>1, <2>2, CaseType DEF RunCase, TypeOK
  <2>6. cases' # <<>>
    BY <2>2, <2>5
  <2> QED BY <2>1, <2>2, <2>4, <2>5, <2>6 DEF RunCase
<1>12. CASE CaseMissing
  BY <1>12 DEF CaseMissing, stateVars, signalVars, queueVars
<1>13. CASE TestsEnded
  BY <1>13 DEF TestsEnded, signalVars, queueVars
<1>15. CASE Reboot
  BY <1>15 DEF Reboot, signalVars, queueVars
<1>16. CASE RebootFails
  BY <1>16 DEF RebootFails, queueVars
<1>17. CASE Results
  BY <1>17 DEF Results, UploadCases, SafeIf, signalVars
<1>18. CASE Abort
  BY <1>18 DEF Abort, UploadCases, SafeIf, signalVars
<1>19. CASE ReportComplete
  BY <1>19, <1>0, AnalysisKept, SignalNames DEF ReportComplete, queueVars
<1>20. CASE ReportFailure
  <2>1. UNCHANGED <<sig, list, m_state>> /\ pc = "failure" /\ pc' = "failed"
    BY <1>20 DEF ReportFailure, signalVars
  <2> QED BY <2>1
<1>21. CASE Completed
  BY <1>21 DEF Completed, signalVars, queueVars
<1>22. CASE Failed
  BY <1>22 DEF Failed, signalVars, queueVars
<1>23. CASE SetStart
  BY <1>23, <1>0, AnalysisKept, SignalNames DEF SetStart, stateVars, queueVars
<1>24. CASE \E u \in {"remote", "localhost"} : SetUrl(u)
  BY <1>24 DEF SetUrl, stateVars, signalVars, queueVars
<1>25. CASE Reset
  BY <1>25 DEF Reset, signalVars, queueVars
<1>26. CASE Boot
  BY <1>26, SignalNames DEF Boot
<1>27. CASE UNCHANGED vars
  BY <1>27 DEF vars, stateVars, signalVars, queueVars
<1>28. CASE Analyzed
  BY <1>28 DEF Analyzed, signalVars, queueVars
<1>29. CASE Refused
  BY <1>29 DEF Refused, signalVars, queueVars
<1>30. CASE \E property \in {"url", "start"} : SetAdmitted(property)
  BY <1>30 DEF SetAdmitted, stateVars, signalVars, queueVars
<1> QED
  BY <1>1, <1>2, <1>4, <1>5, <1>6, <1>7, <1>8, <1>9, <1>10, <1>11, <1>12,
      <1>13, <1>15, <1>16, <1>17, <1>18, <1>19, <1>20, <1>21, <1>22, <1>23,
      <1>24, <1>25, <1>26, <1>27, <1>28, <1>29, <1>30
     DEF Next, LoopThread, Loop, Bus

(* start_test() finds the cases of an analysed request in the queue, when   *)
(* select() does not fail and no test case reboots the device.              *)
THEOREM AnalysedCasesAreQueued ==
  ASSUME MaxFaults = 0, "reboot" \notin Outcomes
  PROVE  Spec => []AnalysedIsQueued
<1>1. TypeInv /\ QueueInv /\ [Next]_vars => QueueInv'
  <2> SUFFICES ASSUME TypeInv, QueueInv, [Next]_vars PROVE QueueInv'
    OBVIOUS
  <2>1. ~SelectFails
    BY DEF SelectFails, TypeInv, TypeOK
  <2>2. ~RebootStep
    BY DEF RebootStep
  <2> QED BY <2>1, <2>2, QueueStep
<1>2. QueueInv => AnalysedIsQueued
  BY DEF QueueInv, AnalysedIsQueued
<1> QED BY <1>1, <1>2, QueueInit, TypeInvariant, PTL DEF Spec

------------------------------------------------------------------------------
(* A pause is saved.  The step writes tda_url to its file before it reports *)
(* the pause, and a case that runs came with a URL; the file goes away when *)
(* the next process has started, which has reported nothing yet.            *)
PausedInv ==
  /\ report = "pause" => file # "none"
  /\ pc = "pausing" => file # "none"
  /\ cases # <<>> => url # "none"

LEMMA PausedInit == Init => PausedInv
BY DEF Init, PausedInv

LEMMA PausedStep == TypeInv /\ PausedInv /\ [Next]_vars => PausedInv'
<1> SUFFICES ASSUME TypeInv, PausedInv, [Next]_vars PROVE PausedInv'
  OBVIOUS
<1>t. cases \in Seq(Cases) /\ i \in Nat /\ (pc = "testing" => i >= 1)
  BY DEF TypeInv, TypeOK, CasePoint
<1>r. ASSUME CaseRuns PROVE cases # <<>>
  BY <1>t, <1>r DEF CaseRuns
<1> USE DEF PausedInv
<1>1. CASE \/ IoPrep \/ ReadSignal \/ SelectFails \/ Idle
           \/ AgentUnavailable \/ StartNothing \/ StartTests
           \/ CaseMissing \/ TestsEnded \/ Analyzed \/ Refused
  BY <1>1 DEF Analyzed, Refused, IoPrep, ReadSignal, SelectFails, Idle,
       AgentUnavailable,
       RequestFailed, StartNothing, StartTests, CaseMissing, TestsEnded,
       stateVars, signalVars, queueVars, urlVars, otherVars, historyVars
<1>2. CASE ClassifyUrl
  BY <1>2 DEF ClassifyUrl, queueVars, otherVars, historyVars
<1>3. CASE AnalyzeOK \/ AnalyzeFails
  <2>1. cases' # <<>> => cases # <<>> \/ Fetchable
    <3>1. ASSUME AnalyzeFails, ~Fetchable PROVE cases' = cases
      <4>1. cases' = <<>> \o cases
        BY <3>1 DEF AnalyzeFails, Push
      <4> QED BY <4>1, <1>t
    <3> QED BY <1>3, <3>1 DEF AnalyzeOK
  <2>2. Fetchable => url # "none"
    BY DEF Fetchable
  <2>3. UNCHANGED <<url, file, report>> /\ pc' # "pausing"
    BY <1>3 DEF AnalyzeOK, AnalyzeFails, RequestFailed, urlVars, otherVars,
                historyVars
  <2> QED BY <2>1, <2>2, <2>3
<1>4. ASSUME NEW o \in Outcomes, RunCase(o) PROVE PausedInv'
  BY <1>4, <1>r DEF RunCase, CaseRuns, urlVars
<1>5. CASE RebootStep
  BY <1>5, <1>r DEF RebootStep, UploadCases, historyVars
<1>6. CASE Reboot \/ RebootFails
  BY <1>6 DEF Reboot, RebootFails, queueVars, urlVars
<1>7. CASE Results \/ Abort
  BY <1>7 DEF Results, Abort, UploadCases, urlVars, historyVars
<1>8. CASE ReportComplete \/ ReportFailure \/ Completed \/ Failed
  BY <1>8 DEF ReportComplete, ReportFailure, Completed, Failed, queueVars,
              urlVars, otherVars, historyVars
<1>9. CASE \/ SetStart \/ Reset \/ UNCHANGED vars
           \/ \E property \in {"url", "start"} : SetAdmitted(property)
  BY <1>9 DEF SetStart, SetAdmitted, Reset, vars, stateVars, queueVars,
              urlVars, otherVars, historyVars
<1>10. ASSUME NEW u \in {"remote", "localhost"}, SetUrl(u) PROVE PausedInv'
  BY <1>10 DEF SetUrl, stateVars, queueVars, otherVars, historyVars
<1>11. CASE Boot
  BY <1>11 DEF Boot
<1> QED BY <1>1, <1>2, <1>3, <1>4, <1>5, <1>6, <1>7, <1>8, <1>9, <1>10,
           <1>11 DEF Next, LoopThread, Loop, Bus

(* A pause that was reported to the TDA can be resumed: whatever the step,  *)
(* the bus, select() and further restarts do, the request is in the file    *)
(* when the device is down after it.                                        *)
THEOREM PauseIsSaved == Spec => []PausedIsSaved
<1>1. PausedInv => PausedIsSaved
  BY DEF PausedInv, PausedIsSaved
<1> QED BY <1>1, PausedInit, PausedStep, TypeInvariant, PTL DEF Spec

------------------------------------------------------------------------------
(* Crashes.  While select() has not failed and no case has tried to reboot  *)
(* the device, cases run with the list open and none is missing; and while  *)
(* the list is closed no case in the queue has run.                         *)
RanInv == ~list => Unstarted

Undisturbed == faults = 0 /\ file = "none"

CrashInv == Undisturbed => QueueInv /\ RanInv

LEMMA RanStep ==
  ASSUME TypeInv, QueueInv, RanInv, [Next]_vars
  PROVE  RanInv'
<1>0. cases \in Seq(Cases)
  BY DEF TypeInv, TypeOK
<1> USE DEF RanInv
<1>1. CASE \/ IoPrep \/ ReadSignal \/ SelectFails \/ Idle \/ AgentUnavailable
           \/ ClassifyUrl \/ Analyzed \/ Refused \/ StartNothing \/ StartTests
           \/ CaseMissing \/ TestsEnded \/ Reboot \/ RebootFails
           \/ ReportComplete \/ Completed \/ Failed \/ SetStart \/ Reset
           \/ \E u \in {"remote", "localhost"} : SetUrl(u)
           \/ \E property \in {"url", "start"} : SetAdmitted(property)
           \/ UNCHANGED vars
  <2>1. UNCHANGED <<cases, list>>
    BY <1>1 DEF IoPrep, ReadSignal, SelectFails, Idle, AgentUnavailable,
         RequestFailed, ClassifyUrl, Analyzed, Refused, StartNothing,
         StartTests, CaseMissing, TestsEnded, Reboot, RebootFails,
         ReportComplete, Completed, Failed, SetStart, Reset, SetUrl,
         SetAdmitted, queueVars, vars
  <2> QED BY <2>1 DEF Unstarted
<1>2. CASE AnalyzeOK
  BY <1>2 DEF AnalyzeOK
<1>3. CASE AnalyzeFails
  <2>1. ASSUME ~list', NEW k \in 1 .. Len(cases')
        PROVE  cases'[k].name # "set"
    <3>1. PICK new \in Decoded : cases' = new \o cases
      BY <1>3 DEF AnalyzeFails, Push
    <3>2. PICK n \in 0 .. MaxCases :
            new \in [1 .. n -> [coverage : Coverages, name : HeapNames]]
      BY DEF Decoded
    <3>3. \A l \in 1 .. Len(new) : new[l].name # "set"
      <4>1. Len(new) = n
        BY <3>2, BoundAssumption
      <4>2. \A l \in 1 .. n : new[l].name \in HeapNames
        BY <3>2
      <4> QED BY <4>1, <4>2, HeapAssumption
    <3>4. \A l \in 1 .. Len(cases) : cases[l].name # "set"
      BY <1>3, <2>1 DEF AnalyzeFails, Unstarted
    <3>5. new \in Seq(Cases)
      BY DecodedType
    <3> QED BY <1>0, <2>1, <3>1, <3>3, <3>4, <3>5
  <2> QED BY <1>3, <2>1 DEF Unstarted
<1>4. CASE \E o \in Outcomes : RunCase(o)
  BY <1>4 DEF RunCase, CaseRuns, QueueInv
<1>5. CASE RebootStep \/ Results \/ Abort \/ Boot
  <2>1. cases' = <<>>
    BY <1>5 DEF RebootStep, Results, Abort, UploadCases, Boot
  <2> QED BY <2>1 DEF Unstarted
<1>6. CASE ReportFailure
  <2>1. (cases' = <<>> \/ cases' = cases) /\ list' = list
    BY <1>6, Zenon DEF ReportFailure
  <2> QED BY <2>1 DEF Unstarted
<1> QED BY <1>1, <1>2, <1>3, <1>4, <1>5, <1>6 DEF Next, LoopThread, Loop, Bus

(* A failure of select() is counted, and a reboot step leaves its file, for *)
(* as long as the process lives.                                            *)
LEMMA Disturbed ==
  ASSUME TypeInv, PausedInv, [Next]_vars, Undisturbed'
  PROVE  Boot \/ (Undisturbed /\ ~SelectFails /\ ~RebootStep)
<1>t. cases \in Seq(Cases) /\ i \in Nat /\ (pc = "testing" => i >= 1)
      /\ faults \in Nat /\ faults' = 0 /\ file' = "none"
  BY BoundAssumption DEF TypeInv, TypeOK, CasePoint, Undisturbed
<1> SUFFICES ASSUME ~Boot PROVE Undisturbed /\ ~SelectFails /\ ~RebootStep
  OBVIOUS
<1>1. ~SelectFails
  BY <1>t DEF SelectFails
<1>2. ~RebootStep
  <2> SUFFICES ASSUME RebootStep PROVE FALSE
    OBVIOUS
  <2>1. cases # <<>>
    BY <1>t DEF RebootStep, CaseRuns
  <2> QED BY <1>t, <2>1 DEF RebootStep, PausedInv
<1>3. UNCHANGED <<faults, file>>
  BY <1>1, <1>2 DEF Next, LoopThread, Loop, Bus, IoPrep, ReadSignal, Idle,
       AgentUnavailable, RequestFailed, ClassifyUrl, AnalyzeOK, AnalyzeFails,
       Analyzed, Refused, StartNothing, StartTests, CaseMissing, TestsEnded,
       RunCase, Reboot, RebootFails, Results, Abort, ReportComplete,
       ReportFailure, Completed, Failed, SetStart, SetUrl, SetAdmitted, Reset,
       urlVars, otherVars, boundVars, vars
<1> QED BY <1>t, <1>1, <1>2, <1>3 DEF Undisturbed

LEMMA CrashStep ==
  TypeInv /\ PausedInv /\ CrashInv /\ [Next]_vars => CrashInv'
<1> SUFFICES ASSUME TypeInv, PausedInv, CrashInv, [Next]_vars, Undisturbed'
             PROVE  QueueInv' /\ RanInv'
  BY DEF CrashInv
<1>1. CASE Boot
  <2>1. QueueInv'
    BY <1>1, SignalNames DEF Boot, QueueInv
  <2>2. cases' = <<>>
    BY <1>1 DEF Boot
  <2> QED BY <2>1, <2>2 DEF RanInv, Unstarted
<1>2. CASE Undisturbed /\ ~SelectFails /\ ~RebootStep
  BY <1>2, QueueStep, RanStep DEF CrashInv
<1> QED BY <1>1, <1>2, Disturbed

LEMMA CrashCause ==
  ASSUME TypeInv, CrashInv, [Next]_vars, alive, ~alive'
  PROVE  \/ faults > 0
         \/ file # "none"
         \/ /\ pc = "switch" /\ m_state \in {"results", "abort"}
            /\ ~list /\ Unstarted /\ ~NoneIsNamed
<1>t. faults \in Nat /\ i \in Nat /\ count \in Nat /\ list \in BOOLEAN
  BY BoundAssumption DEF TypeInv, TypeOK
<1> SUFFICES ASSUME QueueInv, RanInv
             PROVE  /\ pc = "switch" /\ m_state \in {"results", "abort"}
                    /\ ~list /\ Unstarted /\ ~NoneIsNamed
  BY <1>t DEF CrashInv, Undisturbed
<1>1. \/ CaseMissing \/ RebootStep \/ RebootFails \/ Results \/ Abort
      \/ \E o \in Outcomes : RunCase(o)
  BY DEF Next, LoopThread, Loop, Bus, IoPrep, ReadSignal, SelectFails, Idle,
       AgentUnavailable, RequestFailed, ClassifyUrl, AnalyzeOK, AnalyzeFails,
       Analyzed, Refused, StartNothing, StartTests, TestsEnded, Reboot,
       ReportComplete, ReportFailure, Completed, Failed, SetStart, SetUrl,
       SetAdmitted, Reset, Boot, otherVars, vars
<1>2. ~CaseMissing /\ ~RebootFails
  BY <1>t DEF CaseMissing, RebootFails, QueueInv
<1>3. ~RebootStep /\ ~\E o \in Outcomes : RunCase(o)
  BY DEF RebootStep, RunCase, CaseRuns, UploadCases, SafeIf, QueueInv
<1>4. ~(list \/ NoneIsNamed)
  <2> SUFFICES ASSUME list \/ NoneIsNamed PROVE FALSE
    OBVIOUS
  <2>1. alive' \in {TRUE}
    BY <1>1, <1>2, <1>3, Zenon DEF Results, Abort, UploadCases, SafeIf
  <2> QED BY <2>1
<1> QED BY <1>1, <1>2, <1>3, <1>4 DEF Results, Abort, RanInv

(* The process crashes only when select() has failed, when a case has tried *)
(* to reboot the device, or when a request that failed left cases with a    *)
(* name from the heap and the list closed: with any heap, any failures, and *)
(* restarts at any time.                                                    *)
THEOREM CrashesHaveCause == Spec => CrashHasCause
<1>1. Init => CrashInv
  <2>1. Init => QueueInv
    BY QueueInit
  <2>2. Init => RanInv
    BY DEF Init, RanInv, Unstarted
  <2> QED BY <2>1, <2>2 DEF CrashInv
<1>2. TypeInv /\ CrashInv /\ [Next]_vars
        => [alive /\ ~alive' =>
              \/ faults > 0
              \/ file # "none"
              \/ /\ pc = "switch" /\ m_state \in {"results", "abort"}
                 /\ ~list /\ Unstarted /\ ~NoneIsNamed]_vars
  BY CrashCause
<1> QED BY <1>1, <1>2, PausedInit, PausedStep, CrashStep, TypeInvariant, PTL
        DEF Spec, CrashHasCause

------------------------------------------------------------------------------
(* A session.  When the controller waits for the answers, a configuration   *)
(* has one test case, select() does not fail and nothing restarts the       *)
(* device, a request is in one place at a time: in one signal ahead of the  *)
(* loop, or in the state that the loop is in.                               *)

OneByOne ==
  /\ Patient
  /\ "reboot" \notin Outcomes
  /\ MaxCases <= 1
  /\ MaxFaults = 0
  /\ MaxResets = 0

Ahead == Signals \ {"results"}
NoneAhead == \A s \in Ahead : sig[s] = 0
OneAhead ==
  /\ \A s \in Ahead : sig[s] <= 1
  /\ \A s, t \in Ahead : sig[s] > 0 /\ sig[t] > 0 => s = t

(* The loop holds a request that is not decided yet, one that passed, one   *)
(* that failed, or one whose failure it is about to report.                 *)
Asking ==
  \/ pc = "analyze"
  \/ pc = "switch" /\ m_state \in {"request", "start"}
  \/ pc = "testing" /\ i <= count
Passing == pc = "complete" \/ (pc = "switch" /\ m_state = "results")
Failing == pc = "switch" /\ m_state = "abort"

PlaceOK ==
  /\ OneAhead
  /\ Asking \/ Passing \/ Failing \/ pc = "failure" => NoneAhead /\ due
  /\ ~NoneAhead \/ pc = "testing" => due

VerdictOK ==
  /\ sig["input"] > 0 \/ sig["analysis"] > 0 \/ Asking => verdict = "asked"
  /\ (\E s \in CoverageSignals : sig[s] > 0) \/ Passing => verdict = "passed"
  /\ sig["fail"] > 0 \/ Failing => verdict = "failed"
  /\ pc = "failure" \/ (pc = "testing" /\ i > count) =>
       verdict \in {"passed", "failed"}

(* The queue holds the case of the request, once it was analysed. *)
QueueOK ==
  /\ Len(cases) <= 1
  /\ cases # <<>> => /\ due
                     /\ \/ verdict # "asked" \/ sig["analysis"] > 0
                        \/ pc = "switch" /\ m_state = "start"
                        \/ pc = "testing"
  /\ pc \in {"complete", "failure"} => cases = <<>>
  /\ pc = "testing" => count <= 1

(* A request that came too early has left nothing behind. *)
Resting ==
  /\ NoneAhead /\ cases = <<>>
  /\ ~Asking /\ ~Passing /\ ~Failing
  /\ pc \notin {"testing", "failure"}
LostOK == verdict = "lost" => Resting

SessionInv ==
  /\ ~reboot /\ pc \notin {"pausing", "down"}
  /\ PlaceOK
  /\ VerdictOK
  /\ QueueOK
  /\ LostOK

(* The controller does not start a test before the last was answered.       *)
TurnOK == setter = "start" => ~due \/ verdict = "lost"

LEMMA AheadNames ==
  /\ Ahead = {"input", "analysis", "fail"} \cup CoverageSignals
  /\ {"input", "analysis", "fail"} \cap CoverageSignals = {}
  /\ "results" \notin CoverageSignals
BY SignalNames DEF Ahead

LEMMA SessionInit == Init => SessionInv
<1> SUFFICES ASSUME Init PROVE SessionInv
  OBVIOUS
<1>1. \A s \in Signals : sig[s] = 0
  BY DEF Init
<1>2. NoneAhead /\ OneAhead
  BY <1>1 DEF NoneAhead, OneAhead, Ahead
<1>3. ~Asking /\ ~Passing /\ ~Failing
  BY DEF Init, Asking, Passing, Failing
<1>4. PlaceOK
  BY <1>2, <1>3 DEF PlaceOK, Init
<1>5. VerdictOK
  BY <1>1, <1>3, SignalNames DEF VerdictOK, Init
<1>6. QueueOK /\ LostOK
  BY DEF QueueOK, LostOK, Init
<1> QED BY <1>4, <1>5, <1>6 DEF SessionInv, Init

(* The loop, or the controller, sends one signal when none is ahead. *)
LEMMA SendAhead ==
  ASSUME TypeOK, NoneAhead, NEW s \in Ahead, sig' = Signal(s)
  PROVE  /\ OneAhead' /\ ~NoneAhead'
         /\ sig'[s] = 1
         /\ \A t \in Ahead : t # s => sig'[t] = 0
<1>1. s \in Signals /\ \A t \in Ahead : t \in Signals
  BY DEF Ahead
<1>2. sig'[s] = 1 /\ \A t \in Ahead : t # s => sig'[t] = 0
  BY <1>1 DEF TypeOK, Signal, NoneAhead
<1> QED BY <1>2 DEF OneAhead, NoneAhead

(* The request is given up. *)
LEMMA FailedSession ==
  ASSUME TypeOK, SessionInv, NoneAhead, due, RequestFailed, Len(cases') <= 1
  PROVE  SessionInv'
<1>1. /\ OneAhead' /\ ~NoneAhead' /\ sig'["fail"] = 1
      /\ \A t \in Ahead : t # "fail" => sig'[t] = 0
  BY SendAhead, AheadNames DEF RequestFailed
<1>2. ~Asking' /\ ~Passing' /\ ~Failing' /\ pc' = "refused"
  BY DEF RequestFailed, Asking, Passing, Failing
<1>3. PlaceOK'
  BY <1>1, <1>2 DEF PlaceOK, RequestFailed
<1>4. VerdictOK'
  <2>1. sig'["input"] = 0 /\ sig'["analysis"] = 0
    BY <1>1, AheadNames
  <2>2. \A t \in CoverageSignals : sig'[t] = 0
    BY <1>1, AheadNames
  <2>3. verdict' = "failed"
    BY DEF RequestFailed
  <2> QED BY <1>2, <2>1, <2>2, <2>3 DEF VerdictOK
<1>5. QueueOK' /\ LostOK'
  BY <1>2 DEF QueueOK, LostOK, RequestFailed
<1> QED BY <1>2, <1>3, <1>4, <1>5 DEF SessionInv, RequestFailed

(* A step that leaves the signals, the verdict and the queue alone, and     *)
(* leads to a place of the loop that holds no request.                      *)
LEMMA RestSession ==
  ASSUME SessionInv, UNCHANGED <<sig, verdict, cases, due, reboot>>,
         pc' \in {"wait", "select", "switch", "completed", "failed"},
         pc' = "switch" => m_state' \in {"none", "wait"},
         pc = "testing" => i > count,
         ~(pc = "switch" /\ m_state = "start")
  PROVE  SessionInv'
<1>1. ~Asking' /\ ~Passing' /\ ~Failing'
  BY DEF Asking, Passing, Failing
<1>2. PlaceOK'
  BY <1>1 DEF SessionInv, PlaceOK, OneAhead, NoneAhead
<1>3. VerdictOK'
  BY <1>1 DEF SessionInv, VerdictOK
<1>4. QueueOK'
  BY DEF SessionInv, QueueOK, VerdictOK
<1>5. LostOK'
  BY <1>1 DEF SessionInv, LostOK, Resting, NoneAhead
<1> QED BY <1>2, <1>3, <1>4, <1>5 DEF SessionInv

LEMMA ReadSession == ASSUME TypeOK, SessionInv, ReadSignal PROVE SessionInv'
<1>0. pc = "select" /\ pc' = "switch"
      /\ UNCHANGED <<i, count, cases, due, verdict, reboot>>
  BY DEF ReadSignal, queueVars, otherVars, historyVars
<1>1. PICK s \in Signals : /\ sig[s] > 0
                           /\ sig' = [sig EXCEPT ![s] = @ - 1]
                           /\ m_state' = StateAfter(s)
  BY ReadFacts
<1>t. sig \in [Signals -> Nat]
  BY DEF TypeOK
<1>p. OneAhead /\ (~NoneAhead => due) /\ VerdictOK /\ QueueOK /\ LostOK
  BY DEF SessionInv, PlaceOK
<1>n. /\ Ahead \subseteq Signals
      /\ "input" \in Ahead /\ "analysis" \in Ahead /\ "fail" \in Ahead
      /\ CoverageSignals \subseteq Ahead
  BY AheadNames, SignalNames
<1>2. CASE s = "results"
  <2>1. m_state' = "wait"
    BY <1>1, <1>2, StateAfterFacts
  <2>2. \A t \in Ahead : sig'[t] = sig[t]
    BY <1>1, <1>2, <1>t DEF Ahead
  <2>3. ~Asking' /\ ~Passing' /\ ~Failing'
    BY <1>0, <2>1 DEF Asking, Passing, Failing
  <2>4. PlaceOK'
    BY <1>0, <1>p, <2>2, <2>3 DEF PlaceOK, OneAhead, NoneAhead
  <2>5. VerdictOK'
    BY <1>0, <1>p, <1>n, <2>2, <2>3 DEF VerdictOK
  <2>6. QueueOK'
    BY <1>0, <1>p, <1>n, <2>2 DEF QueueOK
  <2>7. LostOK'
    BY <1>0, <1>p, <2>2, <2>3 DEF LostOK, Resting, NoneAhead
  <2> QED BY <1>0, <2>4, <2>5, <2>6, <2>7 DEF SessionInv
<1>3. CASE s # "results"
  <2>1. s \in Ahead /\ due
    BY <1>1, <1>3, <1>p DEF Ahead, NoneAhead
  <2>2. \A t \in Ahead : sig'[t] = 0
    <3>1. sig[s] = 1
      BY <1>1, <1>t, <1>p, <2>1 DEF OneAhead
    <3>2. \A t \in Ahead : t # s => sig[t] = 0
      BY <1>1, <1>t, <1>n, <1>p, <2>1 DEF OneAhead
    <3> QED BY <1>1, <1>t, <1>n, <3>1, <3>2
  <2>3. PlaceOK'
    BY <1>0, <2>1, <2>2 DEF PlaceOK, OneAhead, NoneAhead
  <2>l. LostOK'
    BY <1>0, <1>1, <1>p, <2>1 DEF LostOK, Resting, NoneAhead
  <2>4. CASE s \in {"input", "analysis"}
    <3>1. verdict = "asked" /\ m_state' \in {"request", "start"}
      BY <1>1, <1>p, <2>4, StateAfterFacts DEF VerdictOK
    <3>2. ~Passing' /\ ~Failing'
      BY <1>0, <3>1 DEF Passing, Failing
    <3>3. VerdictOK'
      BY <1>0, <1>n, <2>2, <3>1, <3>2 DEF VerdictOK
    <3>4. s = "input" => sig["analysis"] = 0
      BY <1>1, <1>t, <1>n, <1>p DEF OneAhead
    <3>5. s = "analysis" => m_state' = "start"
      BY <1>1, StateAfterFacts
    <3>6. QueueOK'
      BY <1>0, <1>p, <2>4, <3>1, <3>4, <3>5 DEF QueueOK
    <3> QED BY <1>0, <2>3, <2>l, <3>3, <3>6 DEF SessionInv
  <2>5. CASE s \in CoverageSignals
    <3>1. verdict = "passed"
      BY <1>1, <1>p, <2>5 DEF VerdictOK
    <3>2. m_state' = "results"
      BY <1>1, <2>5, SignalNames, StateAfterFacts
    <3>3. ~Asking' /\ ~Failing'
      BY <1>0, <3>2 DEF Asking, Failing
    <3>4. VerdictOK'
      BY <1>0, <1>n, <2>2, <3>1, <3>3 DEF VerdictOK
    <3>5. QueueOK'
      BY <1>0, <1>p, <3>1 DEF QueueOK
    <3> QED BY <1>0, <2>3, <2>l, <3>4, <3>5 DEF SessionInv
  <2>6. CASE s = "fail"
    <3>1. verdict = "failed"
      BY <1>1, <1>p, <2>6 DEF VerdictOK
    <3>2. m_state' = "abort"
      BY <1>1, <2>6, StateAfterFacts
    <3>3. ~Asking' /\ ~Passing'
      BY <1>0, <3>2 DEF Asking, Passing
    <3>4. VerdictOK'
      BY <1>0, <1>n, <2>2, <3>1, <3>3 DEF VerdictOK
    <3>5. QueueOK'
      BY <1>0, <1>p, <3>1 DEF QueueOK
    <3> QED BY <1>0, <2>3, <2>l, <3>4, <3>5 DEF SessionInv
  <2> QED BY <2>1, <2>4, <2>5, <2>6, AheadNames
<1> QED BY <1>2, <1>3

(* The test case of the request runs. *)
LEMMA RunSession ==
  ASSUME OneByOne, TypeInv, SessionInv, NEW o \in Outcomes, RunCase(o)
  PROVE  /\ SessionInv'
         /\ due /\ verdict = "asked"
         /\ verdict' \in {"passed", "failed"}
<1>t. /\ cases \in Seq(Cases) /\ i \in Nat /\ count \in Nat /\ i >= 1
      /\ TypeOK
  BY DEF TypeInv, TypeOK, CasePoint, RunCase, CaseRuns
<1>0. /\ pc = "testing" /\ pc' = "testing" /\ i <= count /\ i' = i + 1
      /\ i \in 1 .. Len(cases)
      /\ UNCHANGED <<count, due, reboot>>
      /\ cases' = [cases EXCEPT ![i] = Named(@)]
  BY <1>t DEF RunCase, CaseRuns
<1>1. Asking /\ NoneAhead /\ due /\ verdict = "asked" /\ count <= 1
  BY <1>0 DEF Asking, SessionInv, PlaceOK, VerdictOK, QueueOK
<1>2. Len(cases') = Len(cases)
  BY <1>0, <1>t, CaseType
<1>3. ~Asking' /\ ~Passing' /\ ~Failing'
  BY <1>0, <1>1, <1>t DEF Asking, Passing, Failing
<1>4. verdict' = IF o = "pass" THEN "passed" ELSE "failed"
  BY <1>1 DEF RunCase
<1>5. QueueOK' /\ LostOK'
  BY <1>0, <1>1, <1>2, <1>4 DEF SessionInv, QueueOK, LostOK
<1>6. CASE o = "pass"
  <2> DEFINE s == DoneSignal(cases[i].coverage)
  <2>1. s \in CoverageSignals /\ s \in Ahead
    BY <1>0, <1>t, CaseType, SignalNames, AheadNames
  <2>2. sig' = Signal(s)
    BY <1>6 DEF RunCase
  <2> HIDE DEF s
  <2>3. /\ OneAhead' /\ ~NoneAhead'
        /\ \A t \in Ahead : t # s => sig'[t] = 0
    BY <1>1, <1>t, <2>1, <2>2, SendAhead
  <2>4. sig'["input"] = 0 /\ sig'["analysis"] = 0 /\ sig'["fail"] = 0
    BY <2>1, <2>3, AheadNames
  <2>5. PlaceOK'
    BY <1>0, <1>1, <1>3, <2>3 DEF PlaceOK
  <2>6. VerdictOK'
    BY <1>3, <1>4, <1>6, <2>4 DEF VerdictOK
  <2> QED BY <1>0, <1>1, <1>4, <1>5, <2>5, <2>6 DEF SessionInv
<1>7. CASE o = "fail"
  <2>1. sig' = Signal("fail") /\ "fail" \in Ahead
    BY <1>7, AheadNames DEF RunCase
  <2>2. /\ OneAhead' /\ ~NoneAhead'
        /\ \A t \in Ahead : t # "fail" => sig'[t] = 0
    BY <1>1, <1>t, <2>1, SendAhead
  <2>3. /\ sig'["input"] = 0 /\ sig'["analysis"] = 0
        /\ \A t \in CoverageSignals : sig'[t] = 0
    BY <2>2, AheadNames
  <2>4. PlaceOK'
    BY <1>0, <1>1, <1>3, <2>2 DEF PlaceOK
  <2>5. VerdictOK'
    BY <1>3, <1>4, <1>7, <2>3 DEF VerdictOK
  <2> QED BY <1>0, <1>1, <1>4, <1>5, <2>4, <2>5 DEF SessionInv
<1>8. CASE o = "silent"
  <2>1. sig' = sig
    BY <1>8 DEF RunCase
  <2>2. PlaceOK'
    BY <1>0, <1>1, <1>3, <2>1 DEF SessionInv, PlaceOK, OneAhead, NoneAhead
  <2>3. VerdictOK'
    <3>1. /\ sig'["input"] = 0 /\ sig'["analysis"] = 0
          /\ \A t \in CoverageSignals : sig'[t] = 0
      BY <1>1, <2>1, AheadNames DEF NoneAhead
    <3>2. verdict' = "failed"
      BY <1>4, <1>8
    <3> QED BY <1>3, <3>1, <3>2 DEF VerdictOK
  <2> QED BY <1>0, <1>1, <1>4, <1>5, <1>8, <2>2, <2>3 DEF SessionInv
<1> QED BY <1>6, <1>7, <1>8, OutcomesAssumption DEF OneByOne

LEMMA AnalyzeSession ==
  ASSUME OneByOne, TypeInv, SessionInv, AnalyzeOK \/ AnalyzeFails
  PROVE  SessionInv'
<1>0. /\ TypeOK /\ pc = "analyze" /\ Asking /\ NoneAhead /\ due
      /\ verdict = "asked"
  BY DEF TypeInv, AnalyzeOK, AnalyzeFails, Asking, SessionInv, PlaceOK,
         VerdictOK
<1>1. cases = <<>>
  BY <1>0, AheadNames DEF SessionInv, QueueOK, NoneAhead
<1>2. PICK new \in Decoded : Push(new)
  BY DEF AnalyzeOK, AnalyzeFails
<1>3. Len(cases') <= 1 /\ cases' \in Seq(Cases)
  <2>1. PICK n \in 0 .. MaxCases :
          new \in [1 .. n -> [coverage : Coverages, name : HeapNames]]
    BY DEF Decoded
  <2>2. n \in Nat /\ n <= 1
    BY BoundAssumption DEF OneByOne
  <2>3. new \in Seq(Cases)
    BY DecodedType
  <2>4. Len(new) <= 1
    BY <2>1, <2>2
  <2>5. cases' = new
    BY <1>1, <1>2, <2>3 DEF Push
  <2> QED BY <2>3, <2>4, <2>5
<1>4. CASE AnalyzeOK
  <2>1. /\ pc' = "analyzed" /\ sig' = Signal("analysis")
        /\ UNCHANGED <<due, verdict, reboot>>
    BY <1>4 DEF AnalyzeOK, otherVars, historyVars
  <2>2. /\ OneAhead' /\ ~NoneAhead' /\ sig'["analysis"] = 1
        /\ \A t \in Ahead : t # "analysis" => sig'[t] = 0
    BY <1>0, <2>1, SendAhead, AheadNames
  <2>3. sig'["fail"] = 0 /\ \A t \in CoverageSignals : sig'[t] = 0
    BY <2>2, AheadNames
  <2>4. ~Asking' /\ ~Passing' /\ ~Failing'
    BY <2>1 DEF Asking, Passing, Failing
  <2>5. PlaceOK'
    BY <1>0, <2>1, <2>2, <2>4 DEF PlaceOK
  <2>6. VerdictOK'
    BY <1>0, <2>1, <2>3, <2>4 DEF VerdictOK
  <2>7. QueueOK' /\ LostOK'
    BY <1>0, <1>3, <2>1, <2>2 DEF QueueOK, LostOK
  <2> QED BY <2>1, <2>5, <2>6, <2>7 DEF SessionInv
<1>5. CASE AnalyzeFails
  BY <1>0, <1>3, <1>5, FailedSession DEF AnalyzeFails
<1> QED BY <1>4, <1>5

LEMMA AskSession ==
  ASSUME OneByOne, TypeInv, SessionInv, TurnOK, SetStart
  PROVE  /\ SessionInv'
         /\ ~due \/ verdict = "lost"
         /\ due' = TRUE /\ UNCHANGED <<bound, report>>
         /\ verdict' = IF bound THEN "asked" ELSE "lost"
<1>0. /\ TypeOK /\ (~due \/ verdict = "lost")
      /\ due' = TRUE /\ verdict' = IF bound THEN "asked" ELSE "lost"
      /\ UNCHANGED <<m_state, pc, i, count, cases, reboot, bound, report>>
  BY DEF TypeInv, SetStart, TurnOK, stateVars, queueVars
<1>1. Resting
  <2>1. CASE ~due
    BY <2>1 DEF Resting, SessionInv, PlaceOK, QueueOK
  <2> QED BY <1>0, <2>1 DEF SessionInv, LostOK
<1>2. ~Asking' /\ ~Passing' /\ ~Failing'
  BY <1>0, <1>1 DEF Resting, Asking, Passing, Failing
<1>3. QueueOK'
  BY <1>0, <1>1 DEF QueueOK, Resting
<1>4. CASE bound
  <2>1. sig' = Signal("input") /\ verdict' = "asked"
    BY <1>0, <1>4 DEF SetStart
  <2>2. OneAhead' /\ \A t \in Ahead : t # "input" => sig'[t] = 0
    BY <1>0, <1>1, <2>1, SendAhead, AheadNames DEF Resting
  <2>3. sig'["fail"] = 0 /\ \A t \in CoverageSignals : sig'[t] = 0
    BY <2>2, AheadNames
  <2>4. PlaceOK'
    BY <1>0, <1>1, <1>2, <2>2 DEF PlaceOK, Resting
  <2>5. VerdictOK'
    BY <1>0, <1>1, <1>2, <2>1, <2>3 DEF VerdictOK, Resting
  <2>6. LostOK'
    BY <2>1 DEF LostOK
  <2> QED BY <1>0, <1>3, <2>4, <2>5, <2>6 DEF SessionInv
<1>5. CASE ~bound
  <2>1. sig' = sig
    BY <1>5 DEF SetStart
  <2>2. /\ NoneAhead' /\ OneAhead'
        /\ sig'["input"] = 0 /\ sig'["analysis"] = 0 /\ sig'["fail"] = 0
        /\ \A t \in CoverageSignals : sig'[t] = 0
    <3>1. \A t \in Ahead : sig'[t] = 0
      BY <1>1, <2>1 DEF Resting, NoneAhead
    <3>2. NoneAhead' /\ OneAhead'
      BY <3>1 DEF NoneAhead, OneAhead
    <3> QED BY <3>1, <3>2, AheadNames
  <2>3. PlaceOK'
    BY <1>0, <1>1, <1>2, <2>2 DEF PlaceOK, Resting
  <2>4. VerdictOK'
    BY <1>0, <1>1, <1>2, <2>2 DEF VerdictOK, Resting
  <2>5. LostOK'
    BY <1>0, <1>1, <1>2, <2>2 DEF LostOK, Resting
  <2> QED BY <1>0, <1>3, <2>3, <2>4, <2>5 DEF SessionInv
<1> QED BY <1>0, <1>4, <1>5

(* The reports. *)
LEMMA ReportSession ==
  ASSUME TypeInv, SessionInv,
         Results \/ Abort \/ ReportComplete \/ ReportFailure
  PROVE  SessionInv'
<1>t. TypeOK
  BY DEF TypeInv
<1>0. NoneAhead /\ OneAhead /\ due
  BY DEF SessionInv, PlaceOK, Passing, Failing, Results, Abort,
         ReportComplete, ReportFailure
<1>1. ~Asking'
  BY DEF Asking, Results, Abort, ReportComplete, ReportFailure
<1>2. cases' = <<>>
  BY DEF Results, Abort, UploadCases, ReportComplete, ReportFailure,
         queueVars, SessionInv, QueueOK
<1>3. QueueOK'
  <2>1. pc' # "testing"
    BY DEF Results, Abort, ReportComplete, ReportFailure
  <2> QED BY <1>2, <2>1 DEF QueueOK
<1>4. CASE Results \/ Abort
  <2>1. /\ UNCHANGED <<sig, verdict, due, reboot>>
        /\ pc' \in {"complete", "failure"} /\ ~Failing'
        /\ Passing' => Passing
        /\ verdict \in {"passed", "failed"}
    BY <1>4 DEF Results, Abort, signalVars, historyVars, Passing, Failing,
         SessionInv, VerdictOK
  <2>2. PlaceOK'
    BY <1>0, <1>1, <2>1 DEF PlaceOK, OneAhead, NoneAhead
  <2>3. /\ sig'["input"] = 0 /\ sig'["analysis"] = 0 /\ sig'["fail"] = 0
        /\ \A t \in CoverageSignals : sig'[t] = 0
    BY <1>0, <2>1, AheadNames DEF NoneAhead
  <2>4. VerdictOK'
    BY <1>1, <2>1, <2>3 DEF VerdictOK, SessionInv
  <2>5. LostOK'
    BY <2>1 DEF LostOK
  <2> QED BY <1>3, <2>1, <2>2, <2>4, <2>5 DEF SessionInv
<1>5. CASE ReportComplete \/ ReportFailure
  <2>1. /\ pc' \in {"completed", "failed"} /\ UNCHANGED <<verdict, reboot>>
        /\ ~Passing' /\ ~Failing'
    BY <1>5 DEF ReportComplete, ReportFailure, signalVars, Passing, Failing
  <2>2. \A t \in Ahead : sig'[t] = 0
    <3>1. \A t \in Ahead : t \in Signals /\ t # "results"
      BY DEF Ahead
    <3>2. sig' = sig \/ sig' = Signal("results")
      BY <1>5 DEF ReportComplete, ReportFailure, signalVars
    <3> QED BY <1>0, <1>t, <3>1, <3>2 DEF TypeOK, Signal, NoneAhead
  <2>3. /\ sig'["input"] = 0 /\ sig'["analysis"] = 0 /\ sig'["fail"] = 0
        /\ \A t \in CoverageSignals : sig'[t] = 0
    BY <2>2, AheadNames
  <2>4. PlaceOK'
    BY <1>1, <2>1, <2>2 DEF PlaceOK, OneAhead, NoneAhead
  <2>5. VerdictOK'
    BY <1>1, <2>1, <2>3 DEF VerdictOK
  <2>6. LostOK'
    <3>1. verdict \in {"passed", "failed"}
      BY <1>5 DEF ReportComplete, ReportFailure, Passing, SessionInv, VerdictOK
    <3> QED BY <2>1, <3>1 DEF LostOK
  <2> QED BY <1>3, <2>1, <2>4, <2>5, <2>6 DEF SessionInv
<1> QED BY <1>4, <1>5

(* The steps of TestSession, in terms of the loop. *)
LoopStep ==
  [Session!Open \/ Session!Decide \/ Session!Answer]_(Session!svars)

LEMMA SessionStutter ==
  ASSUME UNCHANGED <<bound, due, verdict, report>> PROVE LoopStep
BY DEF LoopStep, Session!svars

LEMMA SessionDecide ==
  ASSUME due, verdict = "asked", verdict' \in {"passed", "failed"},
         UNCHANGED <<bound, due, report>>
  PROVE  LoopStep
<1>1. Session!Decide
  BY Zenon DEF Session!Decide
<1> QED BY <1>1 DEF LoopStep

LEMMA SessionLoop ==
  ASSUME OneByOne, TypeInv, SessionInv, Loop
  PROVE  SessionInv' /\ LoopStep
<1>t. TypeOK /\ i \in Nat /\ count \in Nat
  BY DEF TypeInv, TypeOK
<1>1. CASE IoPrep
  <2>1. /\ UNCHANGED <<sig, verdict, cases, due, reboot, report>>
        /\ pc' = "select" /\ pc = "wait" /\ bound' = TRUE
    <3>1. /\ ~reboot
          /\ sig' = IF reboot THEN Signal("input") ELSE sig
          /\ due' = (due \/ reboot)
          /\ verdict' = IF reboot THEN "asked" ELSE verdict
          /\ reboot' = FALSE
      BY <1>1 DEF IoPrep, SessionInv
    <3>2. due' = due
      <4>1. due \in BOOLEAN /\ reboot \in BOOLEAN
        BY <1>t DEF TypeOK
      <4> QED BY <3>1, <4>1
    <3>3. reboot' = reboot
      <4>1. reboot \in BOOLEAN
        BY <1>t DEF TypeOK
      <4> QED BY <3>1, <4>1
    <3> QED BY <1>1, <3>1, <3>2, <3>3 DEF IoPrep, queueVars
  <2>2. SessionInv'
    BY <2>1, RestSession
  <2>3. CASE bound
    BY <1>t, <2>1, <2>2, <2>3, SessionStutter DEF TypeOK
  <2>4. CASE ~bound
    <3>1. Session!Open
      BY <2>1, <2>4, Zenon DEF Session!Open
    <3> QED BY <2>2, <3>1 DEF LoopStep
  <2> QED BY <2>3, <2>4
<1>2. CASE ReadSignal
  BY <1>2, <1>t, ReadSession, SessionStutter
     DEF ReadSignal, otherVars, historyVars
<1>3. CASE Idle
  BY <1>3, RestSession, SessionStutter
     DEF Idle, signalVars, queueVars, otherVars, historyVars
<1>4. CASE AgentUnavailable \/ StartNothing
  <2>1. Asking /\ RequestFailed /\ cases' = cases
    BY <1>4 DEF AgentUnavailable, StartNothing, Asking, queueVars
  <2>2. NoneAhead /\ due /\ verdict = "asked" /\ Len(cases') <= 1
    BY <2>1 DEF SessionInv, PlaceOK, VerdictOK, QueueOK
  <2> QED BY <1>t, <2>1, <2>2, FailedSession, SessionDecide DEF RequestFailed
<1>5. CASE ClassifyUrl
  <2>1. UNCHANGED <<sig, verdict, cases, due, reboot, report, bound>>
        /\ pc' = "analyze"
    BY <1>5 DEF ClassifyUrl, signalVars, queueVars, otherVars, historyVars
  <2>2. Asking /\ NoneAhead /\ due /\ verdict = "asked"
    BY <1>5 DEF ClassifyUrl, Asking, SessionInv, PlaceOK, VerdictOK
  <2>3. ~Passing' /\ ~Failing'
    BY <2>1 DEF Passing, Failing
  <2>4. cases = <<>>
    BY <1>5, <2>2, AheadNames
       DEF ClassifyUrl, SessionInv, QueueOK, NoneAhead
  <2>5. PlaceOK'
    BY <2>1, <2>2 DEF SessionInv, PlaceOK, OneAhead, NoneAhead
  <2>6. VerdictOK'
    BY <2>1, <2>2, <2>3 DEF SessionInv, VerdictOK
  <2>7. QueueOK' /\ LostOK'
    BY <2>1, <2>2, <2>4 DEF QueueOK, LostOK
  <2> QED BY <2>1, <2>5, <2>6, <2>7, SessionStutter DEF SessionInv
<1>6. CASE AnalyzeOK
  BY <1>6, AnalyzeSession, SessionStutter DEF AnalyzeOK, otherVars, historyVars
<1>7. CASE AnalyzeFails
  <2>1. due /\ verdict = "asked"
    BY <1>7 DEF AnalyzeFails, Asking, SessionInv, PlaceOK, VerdictOK
  <2> QED BY <1>7, <2>1, AnalyzeSession, SessionDecide
          DEF AnalyzeFails, RequestFailed
<1>8. CASE StartTests
  <2>1. UNCHANGED <<sig, verdict, cases, due, reboot, report, bound>>
        /\ pc' = "testing" /\ i' = 1 /\ count' = Len(cases)
        /\ cases # <<>>
    BY <1>8 DEF StartTests, signalVars, queueVars, otherVars, historyVars
  <2>2. Asking /\ NoneAhead /\ due /\ verdict = "asked" /\ Len(cases) <= 1
    BY <1>8 DEF StartTests, Asking, SessionInv, PlaceOK, VerdictOK, QueueOK
  <2>3. ~Passing' /\ ~Failing' /\ Len(cases) >= 1
    <3>1. cases \in Seq(Cases)
      BY <1>t DEF TypeOK
    <3> QED BY <2>1, <3>1 DEF Passing, Failing
  <2>4. PlaceOK'
    BY <2>1, <2>2 DEF SessionInv, PlaceOK, OneAhead, NoneAhead
  <2>5. VerdictOK'
    BY <2>1, <2>2, <2>3 DEF SessionInv, VerdictOK
  <2>6. QueueOK' /\ LostOK'
    BY <2>1, <2>2 DEF QueueOK, LostOK
  <2> QED BY <2>1, <2>4, <2>5, <2>6, SessionStutter DEF SessionInv
<1>9. CASE CaseMissing
  <2>1. UNCHANGED <<sig, m_state, pc, i, count, verdict, cases, due, reboot,
                    report, bound>>
    BY <1>9 DEF CaseMissing, stateVars, signalVars, queueVars, historyVars
  <2>2. PlaceOK'
    BY <2>1 DEF SessionInv, PlaceOK, OneAhead, NoneAhead, Asking, Passing,
                Failing
  <2>3. VerdictOK'
    BY <2>1 DEF SessionInv, VerdictOK, Asking, Passing, Failing
  <2>4. QueueOK' /\ LostOK'
    BY <2>1 DEF SessionInv, QueueOK, LostOK, Resting, NoneAhead, Asking,
                Passing, Failing
  <2> QED BY <2>1, <2>2, <2>3, <2>4, SessionStutter DEF SessionInv
<1>10. CASE TestsEnded
  BY <1>10, RestSession, SessionStutter, <1>t
     DEF TestsEnded, signalVars, queueVars, otherVars, historyVars
<1>11. ASSUME NEW o \in Outcomes, RunCase(o) PROVE SessionInv' /\ LoopStep
  BY <1>11, RunSession, SessionDecide DEF RunCase
<1>12. ~(RebootStep \/ Reboot \/ RebootFails)
  BY DEF RebootStep, Reboot, RebootFails, OneByOne, SessionInv
<1>13. CASE Results \/ Abort
  BY <1>13, ReportSession, SessionStutter
     DEF Results, Abort, signalVars, historyVars
<1>14. CASE ReportComplete
  <2>1. due /\ verdict = "passed"
    BY <1>14 DEF ReportComplete, SessionInv, PlaceOK, VerdictOK, Passing
  <2>2. Session!Answer
    BY <1>14, <2>1, Zenon DEF ReportComplete, Session!Answer
  <2> QED BY <1>14, <2>2, ReportSession DEF LoopStep
<1>15. CASE ReportFailure
  <2>1. due /\ verdict \in {"passed", "failed"}
    BY <1>15 DEF ReportFailure, SessionInv, PlaceOK, VerdictOK
  <2>2. report' \in IF verdict = "passed"
                    THEN {"complete", "fail"} ELSE {"fail"}
    BY <1>15 DEF ReportFailure
  <2>3. Session!Answer
    BY <1>15, <2>1, <2>2, Zenon DEF ReportFailure, signalVars, Session!Answer
  <2> QED BY <1>15, <2>3, ReportSession DEF LoopStep
<1>16. CASE Completed \/ Failed \/ Analyzed \/ Refused
  BY <1>16, RestSession, SessionStutter
     DEF Completed, Failed, Analyzed, Refused, signalVars, queueVars,
         otherVars, historyVars
<1> QED BY <1>1, <1>2, <1>3, <1>4, <1>5, <1>6, <1>7, <1>8, <1>9, <1>10,
           <1>11, <1>12, <1>13, <1>14, <1>15, <1>16 DEF Loop

LEMMA SessionNext ==
  ASSUME OneByOne, TypeInv, SessionInv, TurnOK, [Next]_vars
  PROVE  SessionInv' /\ TurnOK' /\ [Session!Next]_(Session!svars)
<1>1. CASE LoopThread
  <2>1. SessionInv' /\ LoopStep /\ setter' = setter
    BY <1>1, SessionLoop DEF LoopThread
  <2>2. TurnOK'
    <3>1. CASE Session!Open
      BY <2>1, <3>1, Zenon DEF TurnOK, Session!Open
    <3>2. CASE Session!Decide
      BY <2>1, <3>2 DEF TurnOK, Session!Decide
    <3>3. CASE Session!Answer
      BY <2>1, <3>3 DEF TurnOK, Session!Answer
    <3>4. CASE UNCHANGED Session!svars
      BY <2>1, <3>4 DEF TurnOK, Session!svars
    <3> QED BY <2>1, <3>1, <3>2, <3>3, <3>4 DEF LoopStep
  <2> QED BY <2>1, <2>2 DEF LoopStep, Session!Next
<1>2. CASE SetStart
  <2>1. /\ SessionInv' /\ (~due \/ verdict = "lost")
        /\ due' = TRUE /\ UNCHANGED <<bound, report>>
        /\ verdict' = IF bound THEN "asked" ELSE "lost"
    BY <1>2, AskSession
  <2>2. Session!Ask
    BY <2>1, Zenon DEF Session!Ask
  <2>3. TurnOK'
    BY <1>2 DEF TurnOK, SetStart
  <2> QED BY <2>1, <2>2, <2>3 DEF Session!Next
<1>3. CASE \/ UNCHANGED vars
           \/ \E u \in {"remote", "localhost"} : SetUrl(u)
           \/ \E property \in {"url", "start"} : SetAdmitted(property)
  <2>1. UNCHANGED <<sig, m_state, pc, i, count, verdict, cases, due, reboot,
                    report, bound>>
    BY <1>3 DEF SetUrl, SetAdmitted, vars, stateVars, signalVars, queueVars,
                otherVars, historyVars
  <2>2. PlaceOK'
    BY <2>1 DEF SessionInv, PlaceOK, OneAhead, NoneAhead, Asking, Passing,
                Failing
  <2>3. VerdictOK'
    BY <2>1 DEF SessionInv, VerdictOK, Asking, Passing, Failing
  <2>4. QueueOK' /\ LostOK'
    BY <2>1 DEF SessionInv, QueueOK, LostOK, Resting, NoneAhead, Asking,
                Passing, Failing
  <2>5. TurnOK'
    BY <1>3, <2>1 DEF TurnOK, OneByOne, SetUrl, SetAdmitted, vars
  <2>6. UNCHANGED Session!svars
    BY <2>1 DEF Session!svars
  <2> QED BY <2>1, <2>2, <2>3, <2>4, <2>5, <2>6 DEF SessionInv
<1>4. ~(SelectFails \/ Reset \/ Boot)
  BY DEF SelectFails, Reset, Boot, OneByOne, SessionInv, TypeInv, TypeOK
<1> QED BY <1>1, <1>2, <1>3, <1>4 DEF Next, Bus

(* A controller that starts one test at a time, each of one test case, gets *)
(* one report for each start, and "complete" is said only of a case that    *)
(* passed: whatever the case, its coverage, the agent, the downloads and    *)
(* the upload do, and whenever the bus hands the properties over.  That the *)
(* report comes in the end is left to the run.                              *)
THEOREM SessionKept ==
  ASSUME OneByOne
  PROVE  Spec => Session!Safe
<1>1. Init => TypeInv /\ SessionInv /\ TurnOK
  BY TypeInit, SessionInit DEF Init, TurnOK
<1>2. Init => Session!Init
  BY DEF Init, Session!Init
<1>3. TypeInv /\ SessionInv /\ TurnOK /\ [Next]_vars
        => /\ TypeInv' /\ SessionInv' /\ TurnOK'
           /\ [Session!Next]_(Session!svars)
  BY TypeStep, SessionNext
<1> QED BY <1>1, <1>2, <1>3, PTL DEF Spec, Session!Safe
==============================================================================
