--------------------------- MODULE StepOrderProofs ---------------------------
(***************************************************************************)
(* Theorems about StepEngine: which steps are executed, how often, what    *)
(* test_done() and test_fail() stand for, and that a test case without     *)
(* forked steps implements SerialTest.  Each theorem names the classes of  *)
(* steps it is about; none depends on the number of steps, on the values   *)
(* of ExecutionTime or on the number of messages.                          *)
(***************************************************************************)
EXTENDS StepEngineProofs

(* With fewer steps than bits, the shifts are exact. *)
LEMMA AllPendingExact ==
  ASSUME N < Width, NEW p \in AllPending PROVE p = Steps
BY DEF AllPending

LEMMA ClearedExact ==
  ASSUME N < Width, NEW p, NEW s \in Steps, NEW q \in Cleared(p, s)
  PROVE  q = p \ {s}
BY NAssumption, BoundAssumption DEF Cleared, Steps

------------------------------------------------------------------------------
(* What one step of the program may do.  The test thread, as long as it    *)
(* runs, either goes on or stops with a verdict that it has a reason for.  *)

LEMMA ThreadRuns ==
  ASSUME TestThread PROVE pc \notin {"exited", "spin"}
BY DEF TestThread, Trigger, WakeDrain, WakeResults, WakeAbort, WakeTimeout,
       DrainEnd, ExecutePlain, ExecuteLogStop, ExecuteStatsStop,
       ExecuteAsync, ExecuteAsyncAgain, Park, Frame, Pop, TickPass,
       TickTimeout, TickAsyncRead, TickAsyncWrite, TickAsyncCheck, TickEnd

GoesOn == verdict' = verdict /\ pc' # "exited"
EndsDone == pc' = "exited" /\ verdict' = "done" /\ pend' = {}
EndsFailed ==
  /\ pc' = "exited"
  /\ verdict' = "fail"
  /\ \E s \in Steps : st'[s] = "abort"

LEMMA ThreadVerdict ==
  ASSUME TypeInv, TestThread
  PROVE  GoesOn \/ EndsDone \/ EndsFailed
<1> USE DEF GoesOn, EndsDone, EndsFailed
<1>t. cur \in Steps /\ ti \in 0 .. N
  BY DEF TypeInv, TypeOK
<1>c. ASSUME NEW state, ti < N, Check(ti, state), st' = state
      PROVE  GoesOn \/ EndsFailed
  <2>1. ti \in Steps
    BY <1>c, <1>t, NAssumption DEF Steps
  <2> QED BY <1>c, <2>1 DEF Check, Stop, Continue
<1>a. ASSUME NEW p, Advance(st, p), pend' = p
      PROVE  GoesOn \/ EndsDone
  BY <1>a DEF Advance, Stop, Continue
<1>1. CASE Trigger \/ WakeDrain \/ WakeTimeout \/ DrainEnd
  BY <1>1 DEF Trigger, WakeDrain, WakeTimeout, DrainEnd
<1>2. CASE WakeResults
  BY <1>2, <1>a DEF WakeResults
<1>3. CASE WakeAbort
  BY <1>3, <1>t DEF WakeAbort, Stop, stepVars
<1>4. CASE \/ ExecutePlain \/ ExecuteLogStop \/ ExecuteStatsStop
           \/ ExecuteAsync \/ ExecuteAsyncAgain \/ Park \/ Frame
  BY <1>4 DEF ExecutePlain, ExecuteLogStop, ExecuteStatsStop, ExecuteAsync,
              ExecuteAsyncAgain, Park, Frame, Pop, threadVars
<1>5. CASE TickPass
  BY <1>5, <1>c DEF TickPass, stepVars
<1>6. CASE TickTimeout
  BY <1>6, <1>c DEF TickTimeout
<1>7. CASE TickAsyncRead \/ TickAsyncWrite
  BY <1>7 DEF TickAsyncRead, TickAsyncWrite
<1>8. CASE TickAsyncCheck
  BY <1>8, <1>c DEF TickAsyncCheck, TypeInv, AsyncPoint, stepVars
<1>9. CASE TickEnd
  <2>1. CASE Advance(st, pend)
    BY <1>9, <2>1, <1>a DEF TickEnd
  <2>2. CASE Continue("loop")
    BY <2>2 DEF Continue
  <2> QED BY <1>9, <2>1, <2>2 DEF TickEnd
<1> QED BY <1>1, <1>2, <1>3, <1>4, <1>5, <1>6, <1>7, <1>8, <1>9 DEF TestThread

(* The bits of pending_steps are cleared of steps that have their results. *)
LEMMA ThreadPending ==
  ASSUME TypeInv, N < Width, TestThread
  PROVE  \/ pend' = pend
         \/ \E s \in Steps : pend' = pend \ {s} /\ st'[s] = "results"
<1>t. cur \in Steps /\ ti \in 0 .. N
  BY DEF TypeInv, TypeOK
<1>c. ASSUME NEW state, ti < N, Check(ti, state), st' = state
      PROVE  \/ pend' = pend
             \/ \E s \in Steps : pend' = pend \ {s} /\ st'[s] = "results"
  <2>1. ti \in Steps
    BY <1>c, <1>t, NAssumption DEF Steps
  <2> QED BY <1>c, <2>1, ClearedExact DEF Check
<1>1. CASE \/ Trigger \/ WakeDrain \/ WakeTimeout \/ DrainEnd \/ WakeAbort
           \/ TickAsyncRead \/ TickAsyncWrite \/ TickEnd
  BY <1>1 DEF Trigger, WakeDrain, WakeTimeout, DrainEnd, WakeAbort,
              TickAsyncRead, TickAsyncWrite, TickEnd
<1>2. CASE WakeResults
  BY <1>2, <1>t, ClearedExact DEF WakeResults, stepVars
<1>3. CASE \/ ExecutePlain \/ ExecuteLogStop \/ ExecuteStatsStop
           \/ ExecuteAsync \/ ExecuteAsyncAgain \/ Park \/ Frame
  BY <1>3 DEF ExecutePlain, ExecuteLogStop, ExecuteStatsStop, ExecuteAsync,
              ExecuteAsyncAgain, Park, Frame, threadVars
<1>4. CASE TickPass
  BY <1>4, <1>c DEF TickPass, stepVars
<1>5. CASE TickTimeout
  BY <1>5, <1>c DEF TickTimeout
<1>6. CASE TickAsyncCheck
  BY <1>6, <1>c DEF TickAsyncCheck, TypeInv, AsyncPoint, stepVars
<1> QED BY <1>1, <1>2, <1>3, <1>4, <1>5, <1>6 DEF TestThread

(* The other threads leave the test thread where it is. *)
LEMMA OthersThread ==
  ASSUME \/ MainThread \/ Deliver \/ DeliverStale \/ EnvFrame
         \/ \E s \in Steps : WorkerStep(s)
         \/ UNCHANGED vars
  PROVE  /\ UNCHANGED threadVars
         /\ UNCHANGED nexec
         /\ UNCHANGED plan
BY DEF MainThread, Subscribe, Join, Deliver, DeliverStale, EnvFrame,
       WorkerStep, vars, stepVars, planVars, threadVars

LEMMA OthersStates ==
  ASSUME MainThread \/ Deliver \/ DeliverStale \/ EnvFrame \/ UNCHANGED vars
  PROVE  UNCHANGED stepVars
BY DEF MainThread, Subscribe, Join, Deliver, DeliverStale, EnvFrame,
       vars, stepVars

LEMMA NextCases ==
  ASSUME [Next]_vars
  PROVE  \/ TestThread
         \/ MainThread \/ Deliver \/ DeliverStale \/ EnvFrame
         \/ \E s \in Steps : WorkerStep(s)
         \/ UNCHANGED vars
BY DEF Next, Terminated, Spin

------------------------------------------------------------------------------
(* test_fail() has a cause.  Only the thread of a performance log writes   *)
(* anything but abort: without it an abort that was found stays.           *)

FailInv ==
  /\ TypeInv
  /\ verdict # "none" => pc = "exited"
  /\ FailHasCause

LEMMA WorkerAborts ==
  ASSUME TypeInv, "performance" \notin Kinds, NEW s \in Steps, WorkerStep(s)
  PROVE  st' = st \/ st' = [st EXCEPT ![s] = "abort"]
<1>1. Kind(s) # "performance"
  BY DEF TypeInv, TypeOK, Plans, Kind
<1> QED BY <1>1 DEF WorkerStep, WorkerWrites

LEMMA FailStep ==
  ASSUME "performance" \notin Kinds, FailInv, [Next]_vars
  PROVE  FailInv'
<1> USE DEF FailInv, FailHasCause
<1>0. TypeInv'
  BY TypeStep
<1>1. CASE TestThread
  BY <1>0, <1>1, ThreadRuns, ThreadVerdict DEF GoesOn, EndsDone, EndsFailed
<1>2. CASE MainThread \/ Deliver \/ DeliverStale \/ EnvFrame \/ UNCHANGED vars
  BY <1>0, <1>2, OthersThread, OthersStates DEF threadVars, stepVars
<1>3. ASSUME NEW s \in Steps, WorkerStep(s) PROVE FailInv'
  <2>1. UNCHANGED <<pc, verdict>>
    BY <1>3, OthersThread DEF threadVars
  <2>2. \A t \in Steps : st[t] = "abort" => st'[t] = "abort"
    BY <1>3, WorkerAborts DEF TypeInv, TypeOK
  <2> QED BY <1>0, <2>1, <2>2
<1> QED BY <1>1, <1>2, <1>3, NextCases

(* test_fail() is only called with a step in state abort to show for it,    *)
(* and that step keeps it: in every test case with forked steps, workers    *)
(* and failing operations, as long as it logs no performance.               *)
THEOREM FailureHasCause ==
  ASSUME "performance" \notin Kinds
  PROVE  Spec => []FailHasCause
<1>1. Init => FailInv
  BY TypeInit DEF Init, FailInv, FailHasCause
<1>2. FailInv /\ [Next]_vars => FailInv'
  BY FailStep
<1>3. FailInv => FailHasCause
  BY DEF FailInv
<1> QED BY <1>1, <1>2, <1>3, PTL DEF Spec

------------------------------------------------------------------------------
(* test_done() after every execution.  A bit of pending_steps is cleared   *)
(* when a step has its results, and a step has them only after             *)
(* step_execute() has run on it, unless a stop of statistics writes them:  *)
(* the step it names comes earlier in the queue, and has been executed if  *)
(* no step is forked.                                                      *)

StopsExecuted == "stats_stop" \notin Kinds \/ Forks \subseteq {FALSE}

ExecutedInv ==
  /\ TypeInv
  /\ \A s \in Steps : st[s] \notin {"request", "start"} => nexec[s] > 0
  /\ \A s \in Steps : worker[s] = "running" => nexec[s] > 0
  /\ Forks \subseteq {FALSE} => \A s \in Steps : s < cur => nexec[s] > 0
  /\ pc = "parking" => nexec[cur] > 0
  /\ pc = "ticking" => nexec[ti] > 0

DoneInv ==
  /\ ExecutedInv
  /\ \A s \in Steps : s \notin pend => nexec[s] > 0
  /\ verdict = "done" => pend = {}

(* step_execute() is called on the current step, or not at all. *)
Executes ==
  \/ ExecutePlain \/ ExecuteLogStop \/ ExecuteStatsStop
  \/ ExecuteAsync \/ ExecuteAsyncAgain

LEMMA ThreadCounts ==
  ASSUME TestThread
  PROVE  \/ ~Executes /\ nexec' = nexec
         \/ Executes /\ nexec' = [nexec EXCEPT ![cur] = @ + 1]
<1>1. CASE Executes
  BY <1>1 DEF Executes, ExecutePlain, ExecuteLogStop, ExecuteStatsStop,
              ExecuteAsync, ExecuteAsyncAgain, CountExecution
<1>2. CASE ~Executes
  <2>1. nexec' = nexec
    BY <1>2 DEF Executes, TestThread, Trigger, WakeDrain, WakeResults,
         WakeAbort, WakeTimeout, DrainEnd, Park, Frame, TickPass,
         TickTimeout, TickAsyncRead, TickAsyncWrite, TickAsyncCheck,
         TickEnd, stepVars
  <2> QED BY <1>2, <2>1
<1> QED BY <1>1, <1>2

LEMMA NeverUnexecuted ==
  ASSUME TypeInv, TestThread \/ UNCHANGED nexec,
         NEW s \in Steps, nexec[s] > 0
  PROVE  nexec'[s] > 0
<1>t. nexec \in [Steps -> Nat] /\ cur \in Steps
  BY DEF TypeInv, TypeOK
<1>1. CASE nexec' = nexec
  BY <1>1
<1>2. CASE nexec' = [nexec EXCEPT ![cur] = @ + 1]
  BY <1>2, <1>t
<1> QED BY <1>1, <1>2, ThreadCounts

(* Where the current step goes: a serial step is left for the next one. *)
LEMMA ThreadMoves ==
  ASSUME TypeInv, TestThread
  PROVE  \/ cur' = cur
         \/ /\ (pc = "loop" /\ st[cur] = "results") \/ pc = "tick"
            /\ st' = st
            /\ st[cur] = "results" \/ Fork(cur)
            /\ Fork(cur) \/ cur' = NextStep(cur)
<1>1. CASE WakeResults
  BY <1>1 DEF WakeResults, Advance, Stop, stepVars
<1>2. CASE TickEnd
  BY <1>2 DEF TickEnd, Advance, Stop, stepVars, GivesWay
<1> QED BY <1>1, <1>2 DEF TestThread, Trigger, WakeDrain, WakeAbort,
      WakeTimeout, DrainEnd, ExecutePlain, ExecuteLogStop, ExecuteStatsStop,
      ExecuteAsync, ExecuteAsyncAgain, Park, Frame, TickPass, TickTimeout,
      TickAsyncRead, TickAsyncWrite, TickAsyncCheck, Check, Stop, threadVars

LEMMA NextStepIs ==
  ASSUME NEW s \in Steps
  PROVE  /\ NextStep(s) \in Steps
         /\ s < N - 1 => NextStep(s) = s + 1
         /\ s = N - 1 => NextStep(s) = 0
BY NAssumption DEF NextStep, Steps

(* Only the execution of an asynchronous step leaves something running. *)
LEMMA ThreadWorkers ==
  ASSUME TypeInv, TestThread, NEW s \in Steps,
         worker'[s] = "running", worker[s] # "running"
  PROVE  ExecuteAsync /\ s = cur
BY DEF TypeInv, TypeOK, TestThread, Trigger, WakeDrain, WakeResults,
       WakeAbort, WakeTimeout, DrainEnd, ExecutePlain, ExecuteLogStop,
       ExecuteStatsStop, ExecuteAsync, ExecuteAsyncAgain, Park, Frame,
       TickPass, TickTimeout, TickAsyncRead, TickAsyncWrite,
       TickAsyncCheck, TickEnd, stepVars, StoppedWorker

(* The target of a stop step comes before it in the queue. *)
LEMMA TargetEarlier ==
  ASSUME plan \in Plans, NEW s \in Steps, Target(s) # NoTarget
  PROVE  /\ Target(s) \in Steps
         /\ Target(s) < s
         /\ Kind(s) \in Stops
         /\ Kind(Target(s)) \in Stopped(Kind(s))
BY KindType DEF Plans, Target, Kind

(* Without forked steps in the configuration no step is forked. *)
LEMMA AllSerial ==
  ASSUME plan \in Plans, Forks \subseteq {FALSE}, NEW s \in Steps
  PROVE  ~Fork(s)
<1>1. plan[s].fork \in Forks
  BY DEF Plans
<1>2. plan[s].fork = FALSE
  BY <1>1
<1> QED BY <1>2 DEF Fork

LEMMA ExecutedInit == Init => ExecutedInv
<1> SUFFICES ASSUME Init PROVE ExecutedInv
  OBVIOUS
<1>1. \A s \in Steps : ~(s < cur)
  BY DEF Init, Steps
<1> QED BY <1>1, TypeInit DEF Init, ExecutedInv

(* Each step of the test thread writes test_state of one step, which has    *)
(* been executed or whose tstart was sent.                                  *)
LEMMA ThreadStates ==
  ASSUME StopsExecuted, ExecutedInv, TestThread, NEW s \in Steps,
         st'[s] # st[s], st'[s] \notin {"request", "start"}
  PROVE  nexec'[s] > 0
<1> USE DEF ExecutedInv
<1>t. /\ TypeInv /\ cur \in Steps /\ st \in [Steps -> StepStates]
      /\ nexec \in [Steps -> Nat] /\ plan \in Plans /\ ti \in 0 .. N
  BY DEF TypeInv, TypeOK
<1>1. CASE s = cur /\ Executes
  <2>1. nexec' = [nexec EXCEPT ![cur] = @ + 1]
    BY <1>1, ThreadCounts
  <2> QED BY <1>1, <1>t, <2>1
<1>2. CASE nexec[s] > 0
  BY <1>2, <1>t, NeverUnexecuted
<1>3. CASE s # cur /\ Executes
  <2>1. ExecuteStatsStop /\ Target(cur) # NoTarget /\ s = Target(cur)
    BY <1>3, <1>t DEF Executes, ExecutePlain, ExecuteLogStop,
         ExecuteStatsStop, ExecuteAsync, ExecuteAsyncAgain
  <2>2. Kind(cur) = "stats_stop" /\ s < cur
    BY <1>t, <2>1, TargetEarlier DEF ExecuteStatsStop
  <2>3. Forks \subseteq {FALSE}
    BY <1>t, <2>2 DEF StopsExecuted, Plans, Kind
  <2> QED BY <1>2, <2>2, <2>3
<1>4. CASE ~Executes /\ nexec[s] = 0
  <2>1. st[s] \notin Waiting
    BY <1>4 DEF Waiting
  <2>2. CASE Trigger
    BY <1>t, <2>2 DEF Trigger
  <2>3. CASE Park
    BY <1>4, <1>t, <2>3 DEF Park
  <2>4. CASE Frame
    BY <1>t, <2>1, <2>4 DEF Frame, Takers
  <2>5. CASE TickTimeout
    BY <1>t, <2>1, <2>5 DEF TickTimeout
  <2>6. CASE TickAsyncWrite
    BY <1>4, <1>t, <2>6 DEF TickAsyncWrite
  <2>7. CASE \/ WakeDrain \/ WakeResults \/ WakeAbort \/ WakeTimeout
             \/ DrainEnd \/ TickPass \/ TickAsyncRead \/ TickAsyncCheck
             \/ TickEnd
    BY <2>7 DEF WakeDrain, WakeResults, WakeAbort, WakeTimeout, DrainEnd,
         TickPass, TickAsyncRead, TickAsyncCheck, TickEnd, stepVars
  <2> QED BY <1>4, <2>2, <2>3, <2>4, <2>5, <2>6, <2>7 DEF Executes, TestThread
<1> QED BY <1>1, <1>2, <1>3, <1>4, <1>t

LEMMA ExecutedThread ==
  ASSUME StopsExecuted, ExecutedInv, TestThread
  PROVE  ExecutedInv'
<1> USE DEF ExecutedInv
<1>t. /\ TypeInv /\ cur \in Steps /\ st \in [Steps -> StepStates]
      /\ nexec \in [Steps -> Nat] /\ plan \in Plans /\ ti \in 0 .. N
      /\ worker \in [Steps -> {"none", "running", "done"}]
      /\ plan' = plan
  BY DEF TypeInv, TypeOK, TestThread, Trigger, WakeDrain, WakeResults,
         WakeAbort, WakeTimeout, DrainEnd, ExecutePlain, ExecuteLogStop,
         ExecuteStatsStop, ExecuteAsync, ExecuteAsyncAgain, Park, Frame,
         TickPass, TickTimeout, TickAsyncRead, TickAsyncWrite,
         TickAsyncCheck, TickEnd
<1>m. \A s \in Steps : nexec[s] > 0 => nexec'[s] > 0
  BY <1>t, NeverUnexecuted
<1>0. TypeInv' /\ TypeOK'
  BY TypeStep DEF Next, TypeInv
<1>1. \A s \in Steps : st'[s] \notin {"request", "start"} => nexec'[s] > 0
  BY <1>m, ThreadStates
<1>x. Executes => nexec'[cur] > 0
  BY <1>t, ThreadCounts
<1>3. \A s \in Steps : worker'[s] = "running" => nexec'[s] > 0
  BY <1>m, <1>x, <1>t, ThreadWorkers DEF Executes
<1>4. Forks \subseteq {FALSE} => \A s \in Steps : s < cur' => nexec'[s] > 0
  <2> SUFFICES ASSUME Forks \subseteq {FALSE}
               PROVE  \A s \in Steps : s < cur' => nexec'[s] > 0
    OBVIOUS
  <2>1. CASE cur' = cur
    BY <1>m, <2>1
  <2>2. CASE st[cur] = "results" /\ cur' = NextStep(cur)
    <3>1. nexec[cur] > 0
      BY <1>t, <2>2
    <3>2. \A s \in Steps : s < cur' => s <= cur
      BY <1>t, <2>2, NextStepIs, NAssumption DEF Steps
    <3>3. \A s \in Steps : s <= cur => s = cur \/ s < cur
      BY <1>t, NAssumption DEF Steps
    <3> QED BY <1>m, <3>1, <3>2, <3>3
  <2> QED BY <1>t, <2>1, <2>2, ThreadMoves, AllSerial
<1>5. pc' = "parking" => nexec'[cur'] > 0
  <2>1. pc' = "parking" => ExecuteAsync /\ cur' = cur
    BY DEF TestThread, Trigger, WakeDrain, WakeResults,
         WakeAbort, WakeTimeout, DrainEnd, ExecutePlain, ExecuteLogStop,
         ExecuteStatsStop, ExecuteAsync, ExecuteAsyncAgain, Park, Frame,
         TickPass, TickTimeout, TickAsyncRead, TickAsyncWrite,
         TickAsyncCheck, TickEnd, Pop, Check, Advance, Stop, Continue,
         threadVars
  <2> QED BY <1>x, <2>1 DEF Executes
<1>6. pc' = "ticking" => nexec'[ti'] > 0
  <2>1. pc' = "ticking" => TickAsyncRead
    BY DEF TestThread, Trigger, WakeDrain, WakeResults,
         WakeAbort, WakeTimeout, DrainEnd, ExecutePlain, ExecuteLogStop,
         ExecuteStatsStop, ExecuteAsync, ExecuteAsyncAgain, Park, Frame,
         TickPass, TickTimeout, TickAsyncRead, TickAsyncWrite,
         TickAsyncCheck, TickEnd, Pop, Check, Advance, Stop, Continue,
         threadVars
  <2>2. ASSUME TickAsyncRead PROVE nexec'[ti'] > 0
    <3>1. ti \in Steps /\ st[ti] \notin {"request", "start"} /\ ti' = ti
      BY <1>t, <2>2, NAssumption DEF TickAsyncRead, Steps, Waiting
    <3> QED BY <1>m, <3>1
  <2> QED BY <2>1, <2>2
<1> QED BY <1>0, <1>1, <1>3, <1>4, <1>5, <1>6

LEMMA ExecutedStep ==
  ASSUME StopsExecuted, ExecutedInv, [Next]_vars
  PROVE  ExecutedInv'
<1> USE DEF ExecutedInv
<1>0. TypeInv'
  BY TypeStep
<1>1. CASE MainThread \/ Deliver \/ DeliverStale \/ EnvFrame \/ UNCHANGED vars
  BY <1>0, <1>1, OthersThread, OthersStates DEF threadVars, stepVars
<1>2. ASSUME NEW s \in Steps, WorkerStep(s) PROVE ExecutedInv'
  <2>1. UNCHANGED <<pend, pc, cur, ti, verdict, nexec>>
    BY <1>2, OthersThread DEF threadVars
  <2>2. \A t \in Steps : /\ t # s => st'[t] = st[t]
                         /\ worker'[t] = "running" => worker[t] = "running"
    BY <1>2 DEF WorkerStep, TypeInv, TypeOK
  <2>3. nexec[s] > 0
    BY <1>2 DEF WorkerStep
  <2> QED BY <1>0, <2>1, <2>2, <2>3
<1> QED BY <1>1, <1>2, ExecutedThread, NextCases

LEMMA DoneStep ==
  ASSUME N < Width, StopsExecuted, DoneInv, [Next]_vars
  PROVE  DoneInv'
<1> USE DEF DoneInv
<1>0. ExecutedInv' /\ ExecutedInv /\ TypeInv
  BY ExecutedStep DEF ExecutedInv
<1>1. CASE TestThread
  <2>1. \A s \in Steps : s \notin pend' => nexec'[s] > 0
    <3>1. \A s \in Steps : st'[s] = "results" => nexec'[s] > 0
      BY <1>0 DEF ExecutedInv
    <3>2. \A s \in Steps : nexec[s] > 0 => nexec'[s] > 0
      BY <1>0, <1>1, NeverUnexecuted
    <3> QED BY <1>0, <1>1, <3>1, <3>2, ThreadPending
  <2>2. verdict' = "done" => pend' = {}
    <3>1. verdict # "done" \/ pend' = {}
      BY <1>0, <1>1, ThreadPending
    <3> QED BY <1>0, <1>1, <3>1, ThreadVerdict DEF GoesOn, EndsDone, EndsFailed
  <2> QED BY <1>0, <2>1, <2>2
<1>2. CASE UNCHANGED threadVars /\ UNCHANGED nexec
  BY <1>0, <1>2 DEF threadVars
<1> QED BY <1>1, <1>2, OthersThread, NextCases

(* test_done() is only called when step_execute() has run on every step:    *)
(* with forked steps, with triggers that were lost or read twice, with      *)
(* workers that write the state of their steps at any time.                 *)
THEOREM DoneIsExecuted ==
  ASSUME N < Width, StopsExecuted
  PROVE  Spec => []DoneMeansExecuted
<1>1. Init => DoneInv
  <2>1. Init => pend = Steps
    BY AllPendingExact DEF Init
  <2> QED BY <2>1, ExecutedInit DEF Init, DoneInv
<1>2. DoneInv /\ [Next]_vars => DoneInv'
  BY DoneStep
<1>3. DoneInv => DoneMeansExecuted
  BY DEF DoneInv, DoneMeansExecuted
<1> QED BY <1>1, <1>2, <1>3, PTL DEF Spec

------------------------------------------------------------------------------
(* Test cases whose steps do all their work on the test thread.  A step    *)
(* that is not the current one does not wait for anything, and a step that *)
(* has its results is the current one or no longer pending: its bit is     *)
(* cleared where it is seen, in the time-out loop or on the way out of the *)
(* current step.                                                           *)

Synchronous == Kinds \cap Async = {}

FinishedInv ==
  /\ TypeInv
  /\ pend \subseteq Steps
  /\ \A s \in Steps : s \notin pend => st[s] = "results"
  /\ \A s \in Steps : worker[s] = "none" /\ st[s] # "wait"
  /\ \A s \in Steps : s # cur => st[s] # "continue"
  /\ \A s \in Steps : st[s] = "results" /\ s \in pend
                        => s = cur /\ (pc = "tick" => ti <= cur)
  /\ pc = "drain" => cur \in pend
  /\ pc \in {"loop", "drain", "tick", "exited"}
  /\ verdict = "done" => pend = {}

LEMMA SynchronousKinds ==
  ASSUME Synchronous, plan \in Plans, NEW s \in Steps
  PROVE  /\ Kind(s) \in Plain \cup Stops
         /\ Kind(s) \notin Async
         /\ Target(s) = NoTarget
<1>1. \A t \in Steps : Kind(t) \in Kinds
  BY DEF Plans, Kind
<1>2. \A t \in Steps : Kind(t) \notin Async
  BY <1>1 DEF Synchronous
<1>3. Kind(s) \in StepClasses
  BY KindType
<1>4. ASSUME Target(s) # NoTarget PROVE FALSE
  <2>1. Target(s) \in Steps /\ Kind(Target(s)) \in Stopped(Kind(s))
    BY <1>4, TargetEarlier
  <2> QED BY <1>2, <2>1 DEF Stopped, Async
<1> QED BY <1>2, <1>3, <1>4 DEF StepClasses

LEMMA TimeoutEndsOrWaits ==
  ASSUME NEW k \in Plain \cup Stops, NEW n, NEW time
  PROVE  TimeoutState(k, "continue", n, time) \in {"continue", "results", "abort"}
BY DEF Plain, Stops, TimeoutState, TimeoutCommand, TimeoutWebconfig,
       TimeoutTimedWait, TimeoutCapture

LEMMA FinishedInit == ASSUME N < Width, Init PROVE FinishedInv
<1>1. pend = Steps
  BY AllPendingExact DEF Init
<1> QED BY <1>1, TypeInit DEF Init, FinishedInv

(* step_execute() on the current step of a synchronous test case. *)
LEMMA SynchronousExecute ==
  ASSUME Synchronous, FinishedInv, Executes
  PROVE  /\ \E state \in {"continue", "results", "abort"} :
              st' = [st EXCEPT ![cur] = state]
         /\ pc = "drain"
         /\ UNCHANGED <<threadVars, worker>>
<1>t. plan \in Plans /\ cur \in Steps
  BY DEF FinishedInv, TypeInv, TypeOK
<1>k. Kind(cur) \notin Async /\ Target(cur) = NoTarget
  BY <1>t, SynchronousKinds
<1>1. CASE ExecutePlain
  <2>1. PICK o \in ExecuteOutcomes(Kind(cur)) :
          st' = [st EXCEPT ![cur] = IF o.ok THEN o.state ELSE "abort"]
    BY <1>1 DEF ExecutePlain
  <2>2. o.state \in {"continue", "results", "abort"}
    BY <1>1, <2>1, ExecuteOutcomeType DEF ExecutePlain
  <2> QED BY <1>1, <2>1, <2>2 DEF ExecutePlain, Pop
<1>2. CASE ExecuteLogStop \/ ExecuteStatsStop
  BY <1>2, <1>k DEF ExecuteLogStop, ExecuteStatsStop, Pop
<1> QED BY <1>1, <1>2, <1>k DEF Executes, ExecuteAsync, ExecuteAsyncAgain

LEMMA FinishedThread ==
  ASSUME N < Width, Synchronous, FinishedInv, TestThread
  PROVE  FinishedInv'
<1> USE DEF FinishedInv
<1>t. /\ TypeInv /\ cur \in Steps /\ st \in [Steps -> StepStates]
      /\ plan \in Plans /\ ti \in 0 .. N
  BY DEF TypeInv, TypeOK
<1>0. TypeInv'
  BY TypeStep DEF Next
<1>d. verdict' = "done" => pend' = {}
  <2>1. verdict # "done" \/ pend' = {}
    BY <1>t, ThreadPending
  <2> QED BY <1>t, <2>1, ThreadVerdict DEF GoesOn, EndsDone, EndsFailed
<1>1. CASE Trigger
  BY <1>0, <1>1, <1>t DEF Trigger
<1>2. CASE WakeDrain
  <2>1. cur \in pend
    BY <1>2, <1>t DEF WakeDrain, InProgress, Waiting
  <2> QED BY <1>0, <1>2, <2>1 DEF WakeDrain, stepVars
<1>3. CASE WakeTimeout
  BY <1>0, <1>3, <1>t, NAssumption DEF WakeTimeout, stepVars, Steps
<1>4. CASE DrainEnd
  BY <1>0, <1>4 DEF DrainEnd, stepVars
<1>5. CASE WakeAbort
  BY <1>0, <1>5, <1>d DEF WakeAbort, Stop, stepVars
<1>6. CASE WakeResults
  <2>1. pend' = pend \ {cur} /\ st' = st /\ worker' = worker
    BY <1>6, <1>t, ClearedExact DEF WakeResults, stepVars
  <2>2. pc' \in {"loop", "exited"}
    <3>1. (\A s \in Steps : st[s] = "results") => pend' = {}
      BY <2>1
    <3> QED BY <1>6, <3>1 DEF WakeResults, Advance, Stop, Continue
  <2>3. st[cur] = "results"
    BY <1>6 DEF WakeResults
  <2> QED BY <1>0, <1>d, <1>t, <2>1, <2>2, <2>3
<1>7. CASE Executes
  <2>1. PICK state \in {"continue", "results", "abort"} :
          st' = [st EXCEPT ![cur] = state]
    BY <1>7, SynchronousExecute
  <2>2. pc = "drain" /\ UNCHANGED <<pend, cur, pc, ti, verdict, worker>>
    BY <1>7, SynchronousExecute DEF threadVars
  <2> QED BY <1>0, <1>t, <2>1, <2>2
<1>8. CASE Park \/ TickAsyncRead \/ TickAsyncWrite \/ TickAsyncCheck
  <2>1. TickAsyncRead => ti \in Steps
    BY <1>t, NAssumption DEF TickAsyncRead, Steps
  <2>2. ~TickAsyncRead
    BY <1>t, <2>1, SynchronousKinds DEF TickAsyncRead
  <2> QED BY <1>8, <2>2 DEF Park, TickAsyncWrite, TickAsyncCheck
<1>9. CASE Frame
  <2>1. pc = "drain" /\ UNCHANGED <<pend, cur, pc, ti, verdict, worker>>
    BY <1>9 DEF Frame, Pop, threadVars
  <2>2. st' = st \/ st' = [st EXCEPT ![cur] = "results"]
    BY <1>9 DEF Frame, Takers, Waiting
  <2> QED BY <1>0, <1>t, <2>1, <2>2
<1>10. CASE TickPass
  <2>1. ti \in Steps /\ st' = st /\ worker' = worker /\ cur' = cur
    BY <1>10, <1>t, NAssumption DEF TickPass, Check, Stop, stepVars, Steps
  <2>2. CASE Stop("fail") /\ UNCHANGED pend
    BY <1>0, <1>d, <2>1, <2>2 DEF Stop
  <2>3. CASE /\ st[ti] = "results" /\ pend' = pend \ {ti}
             /\ ti' = ti + 1 /\ pc' = "tick" /\ verdict' = verdict
    <3>1. \A s \in Steps : s \in pend' /\ st[s] = "results" => s = cur /\ ti + 1 <= cur
      BY <1>10, <1>t, <2>1, <2>3 DEF TickPass, Steps
    <3> QED BY <1>0, <1>d, <2>1, <2>3, <3>1
  <2>4. CASE /\ st[ti] # "results" /\ pend' = pend
             /\ ti' = ti + 1 /\ pc' = "tick" /\ verdict' = verdict
    <3>1. \A s \in Steps : s \in pend' /\ st[s] = "results" => s = cur /\ ti + 1 <= cur
      BY <1>10, <1>t, <2>1, <2>4 DEF TickPass, Steps
    <3> QED BY <1>0, <1>d, <2>1, <2>4, <3>1
  <2> QED BY <1>10, <2>1, <2>2, <2>3, <2>4, ClearedExact
          DEF TickPass, Check, Continue
<1>11. CASE TickTimeout
  <2>1. ti \in Steps /\ ti = cur /\ st[ti] = "continue"
    BY <1>11, <1>t, NAssumption DEF TickTimeout, Steps, Waiting
  <2>2. PICK state \in {"continue", "results", "abort"} :
          st' = [st EXCEPT ![cur] = state]
    <3>1. PICK n : st' = [st EXCEPT ![ti] =
                            TimeoutState(Kind(ti), st[ti], n, Time)]
      BY <1>11 DEF TickTimeout
    <3>2. TimeoutState(Kind(ti), "continue", n, Time)
            \in {"continue", "results", "abort"}
      BY <1>t, <2>1, SynchronousKinds, TimeoutEndsOrWaits
    <3> QED BY <2>1, <3>1, <3>2
  <2>3. worker' = worker /\ cur' = cur
    BY <1>11 DEF TickTimeout, Check, Stop
  <2>4. CASE Stop("fail") /\ UNCHANGED pend /\ state = "abort"
    BY <1>0, <1>d, <1>t, <2>1, <2>2, <2>3, <2>4 DEF Stop
  <2>5. CASE /\ pend' = (IF state = "results" THEN pend \ {cur} ELSE pend)
             /\ pc' = "tick" /\ verdict' = verdict
    BY <1>0, <1>d, <1>t, <2>1, <2>2, <2>3, <2>5
  <2> QED BY <1>11, <1>t, <2>1, <2>2, <2>4, <2>5, ClearedExact
          DEF TickTimeout, Check, Continue
<1>12. CASE TickEnd
  <2>1. st' = st /\ worker' = worker /\ pend' = pend
    BY <1>12 DEF TickEnd, stepVars
  <2>2. \A s \in Steps : st[s] = "results" => s \notin pend
    BY <1>12, <1>t DEF TickEnd, Steps
  <2>3. CASE GivesWay(cur) /\ Advance(st, pend)
    <3>1. st[cur] # "continue"
      BY <2>3 DEF GivesWay
    <3>2. pc' \in {"loop", "exited"}
      BY <2>2, <2>3 DEF Advance, Stop, Continue
    <3> QED BY <1>0, <1>d, <1>t, <2>1, <2>2, <3>1, <3>2
  <2>4. CASE Continue("loop") /\ UNCHANGED cur
    BY <1>0, <1>d, <1>t, <2>1, <2>2, <2>4 DEF Continue
  <2> QED BY <1>12, <2>3, <2>4 DEF TickEnd
<1> QED BY <1>1, <1>2, <1>3, <1>4, <1>5, <1>6, <1>7, <1>8, <1>9, <1>10,
           <1>11, <1>12 DEF TestThread, Executes

LEMMA FinishedStep ==
  ASSUME N < Width, Synchronous, FinishedInv, [Next]_vars
  PROVE  FinishedInv'
<1> USE DEF FinishedInv
<1>0. TypeInv'
  BY TypeStep
<1>1. CASE MainThread \/ Deliver \/ DeliverStale \/ EnvFrame \/ UNCHANGED vars
  BY <1>0, <1>1, OthersThread, OthersStates DEF threadVars, stepVars
<1>2. ASSUME NEW s \in Steps, WorkerStep(s) PROVE FALSE
  BY <1>2 DEF WorkerStep
<1> QED BY <1>1, <1>2, FinishedThread, NextCases

(* When no step has a worker, test_done() is only called with the results   *)
(* of every step, and they stay: forked steps, lost triggers and triggers   *)
(* that were read twice included.                                           *)
THEOREM DoneIsFinished ==
  ASSUME N < Width, Synchronous
  PROVE  Spec => []DoneMeansFinished
<1>1. Init => FinishedInv
  BY FinishedInit
<1>2. FinishedInv /\ [Next]_vars => FinishedInv'
  BY FinishedStep
<1>3. FinishedInv => DoneMeansFinished
  BY DEF FinishedInv, DoneMeansFinished
<1> QED BY <1>1, <1>2, <1>3, PTL DEF Spec

(* Nor does the search for the next pending step, whose loop has no other   *)
(* end, ever run without one to find.                                       *)
THEOREM SearchTerminates ==
  ASSUME N < Width, Synchronous
  PROVE  Spec => []SearchReturns
<1>1. Init => FinishedInv
  BY FinishedInit
<1>2. FinishedInv /\ [Next]_vars => FinishedInv'
  BY FinishedStep
<1>3. FinishedInv => SearchReturns
  BY DEF FinishedInv, SearchReturns
<1> QED BY <1>1, <1>2, <1>3, PTL DEF Spec

------------------------------------------------------------------------------
(* One trigger, one execution.  A serial step is left with its results     *)
(* only, and has none before its trigger was read: so the device and       *)
(* m_results hold at most one tstart between them, and it is the one of    *)
(* the current step.                                                       *)

Triggered(q) == \E i \in 1 .. Len(q) : q[i] = "tstart"
AtMostOne(q) ==
  \A i, j \in 1 .. Len(q) : q[i] = "tstart" /\ q[j] = "tstart" => i = j

OneTrigger ==
  /\ AtMostOne(dev) /\ AtMostOne(res)
  /\ ~(Triggered(dev) /\ Triggered(res))
  /\ Triggered(dev) \/ Triggered(res) => st[cur] = "start" /\ nexec[cur] = 0

OnceInv ==
  /\ ExecutedInv
  /\ OneTrigger
  /\ \A s \in Steps : st[s] = "request" => nexec[s] = 0
  /\ ExecutedAtMostOnce

LEMMA TriggeredAppend ==
  ASSUME NEW q \in Seq(Messages), NEW m \in Messages
  PROVE  /\ Triggered(Append(q, m)) => Triggered(q) \/ m = "tstart"
         /\ m # "tstart" /\ AtMostOne(q) => AtMostOne(Append(q, m))
         /\ ~Triggered(q) => AtMostOne(Append(q, m))
BY DEF Triggered, AtMostOne

LEMMA TriggeredTail ==
  ASSUME NEW q \in Seq(Messages), q # <<>>
  PROVE  /\ Head(q) = "tstart" => Triggered(q)
         /\ Triggered(Tail(q)) => Triggered(q)
         /\ AtMostOne(q) => AtMostOne(Tail(q))
         /\ AtMostOne(q) /\ Head(q) = "tstart" => ~Triggered(Tail(q))
BY DEF Triggered, AtMostOne

(* What the test thread does to the channels. *)
Sends(m) == dev' = dev \/ dev' = Append(dev, m)
Pops == res # <<>> /\ res' = Tail(res)

LEMMA ThreadChannels ==
  ASSUME TestThread
  PROVE  \/ Executes /\ dev' = dev /\ Pops /\ Head(res) = "tstart"
         \/ Frame /\ dev' = dev /\ Pops
         \/ Trigger /\ Sends("tstart") /\ res' = res
         \/ ~Executes /\ ~Trigger /\ Sends("tstop") /\ res' = res
<1> USE DEF Sends, Pops
<1>1. CASE Executes
  BY <1>1 DEF Executes, ExecutePlain, ExecuteLogStop, ExecuteStatsStop,
              ExecuteAsync, ExecuteAsyncAgain, Pop
<1>2. CASE Frame
  BY <1>2 DEF Frame, Pop
<1>3. CASE Trigger
  BY <1>3 DEF Trigger, Send
<1>4. CASE ~Executes /\ ~Trigger /\ ~Frame
  <2>1. Sends("tstop") /\ res' = res
    BY <1>4 DEF Executes, TestThread, WakeDrain, WakeResults, WakeAbort,
         WakeTimeout, DrainEnd, Park, TickPass, TickTimeout, TickAsyncRead,
         TickAsyncWrite, TickAsyncCheck, TickEnd, channelVars, Check,
         Advance, Stop, Continue, Send
  <2> QED BY <1>4, <2>1
<1> QED BY <1>1, <1>2, <1>3, <1>4

(* Only Trigger starts a step, and only from state request. *)
LEMMA ThreadStarts ==
  ASSUME ExecutedInv, TestThread, NEW s \in Steps
  PROVE  /\ st'[s] = "request" => st[s] = "request"
         /\ st'[s] = "start" /\ st[s] # "start" =>
              Trigger /\ s = cur /\ st[s] = "request"
<1>t. /\ TypeInv /\ st \in [Steps -> StepStates] /\ cur \in Steps
      /\ ti \in 0 .. N /\ plan \in Plans
  BY DEF ExecutedInv, TypeInv, TypeOK
<1> DEFINE After == {"wait", "continue", "results", "abort"}
<1>1. CASE Trigger
  BY <1>1, <1>t DEF Trigger
<1>2. ASSUME ~Trigger PROVE st'[s] = st[s] \/ st'[s] \in After
  <2>1. CASE ExecutePlain
    <3>1. PICK o \in ExecuteOutcomes(Kind(cur)) :
            st' = [st EXCEPT ![cur] = IF o.ok THEN o.state ELSE "abort"]
      BY <2>1 DEF ExecutePlain
    <3>2. o.state \in After
      BY <2>1, <3>1, ExecuteOutcomeType DEF ExecutePlain
    <3> QED BY <1>t, <3>1, <3>2
  <2>2. CASE ExecuteLogStop \/ ExecuteStatsStop
    BY <1>t, <2>2, OutcomeStates DEF ExecuteLogStop, ExecuteStatsStop
  <2>3. CASE ExecuteAsync \/ ExecuteAsyncAgain
    BY <1>t, <2>3 DEF ExecuteAsync, ExecuteAsyncAgain, Parked
  <2>4. CASE Park
    BY <1>t, <2>4
       DEF Park, TypeInv, AsyncPoint, ParkStates, Parked, Async
  <2>5. CASE Frame
    BY <1>t, <2>5 DEF Frame, Takers
  <2>6. CASE TickTimeout
    <3>1. ti \in Steps /\ st[ti] \in Waiting /\ Kind(ti) \in Plain \cup Stops
      BY <1>t, <2>6, NAssumption, KindType DEF TickTimeout, Steps, StepClasses
    <3>2. PICK n : st' = [st EXCEPT ![ti] =
                            TimeoutState(Kind(ti), st[ti], n, Time)]
      BY <2>6 DEF TickTimeout
    <3>3. TimeoutState(Kind(ti), st[ti], n, Time) \in After
      BY <3>1 DEF Waiting, Plain, Stops, TimeoutState, TimeoutCommand,
                  TimeoutWebconfig, TimeoutTimedWait, TimeoutCapture
    <3> QED BY <1>t, <3>2, <3>3
  <2>7. CASE TickAsyncWrite
    BY <1>t, <2>7
       DEF TickAsyncWrite, TypeInv, AsyncPoint, TimeoutWrite, Parked, Async
  <2> QED BY <1>2, <2>1, <2>2, <2>3, <2>4, <2>5, <2>6, <2>7
      DEF TestThread, WakeDrain, WakeResults, WakeAbort, WakeTimeout,
          DrainEnd, TickPass, TickAsyncRead, TickAsyncCheck, TickEnd, stepVars
<1> QED BY <1>1, <1>2

LEMMA OnceInit == Init => OnceInv
BY ExecutedInit DEF Init, OnceInv, OneTrigger, ExecutedAtMostOnce,
                    Triggered, AtMostOne

LEMMA OnceThread ==
  ASSUME Forks \subseteq {FALSE}, OnceInv, TestThread
  PROVE  OnceInv'
<1>t. /\ TypeInv /\ st \in [Steps -> StepStates] /\ cur \in Steps
      /\ dev \in Seq(Messages) /\ res \in Seq(Messages) /\ plan \in Plans
      /\ nexec \in [Steps -> Nat]
  BY DEF OnceInv, ExecutedInv, TypeInv, TypeOK
<1>i. /\ ExecutedInv /\ OneTrigger /\ ExecutedAtMostOnce
      /\ \A s \in Steps : st[s] = "request" => nexec[s] = 0
  BY DEF OnceInv
<1>0. ExecutedInv'
  BY <1>i, ExecutedStep DEF Next, StopsExecuted
<1>x. ASSUME Executes
      PROVE  /\ nexec[cur] = 0
             /\ nexec' = [nexec EXCEPT ![cur] = 1]
             /\ ~Triggered(dev') /\ ~Triggered(res') /\ AtMostOne(res')
             /\ dev' = dev
  <2>1. dev' = dev /\ Pops /\ Head(res) = "tstart"
    BY <1>x, ThreadChannels DEF Executes, Trigger, ExecutePlain, Frame, Pop,
         ExecuteLogStop, ExecuteStatsStop, ExecuteAsync, ExecuteAsyncAgain
  <2>2. Triggered(res) /\ ~Triggered(Tail(res)) /\ AtMostOne(Tail(res))
    BY <1>i, <1>t, <2>1, TriggeredTail DEF Pops, OneTrigger
  <2>3. nexec[cur] = 0
    BY <1>i, <2>2 DEF OneTrigger
  <2> QED BY <1>i, <1>x, <1>t, <2>1, <2>2, <2>3, ThreadCounts
          DEF OneTrigger, Pops
<1>1. \A s \in Steps : st'[s] = "request" => nexec'[s] = 0
  <2> SUFFICES ASSUME NEW s \in Steps, st'[s] = "request"
               PROVE  nexec'[s] = 0
    OBVIOUS
  <2>1. st[s] = "request" /\ nexec[s] = 0
    BY <1>i, ThreadStarts
  <2>2. CASE Executes
    <3>1. st[cur] = "start"
      BY <1>x, <2>2, <1>i, <1>t, ThreadChannels, TriggeredTail
         DEF OneTrigger, Pops, Executes, Trigger, ExecutePlain, Frame, Pop,
             ExecuteLogStop, ExecuteStatsStop, ExecuteAsync, ExecuteAsyncAgain
    <3> QED BY <1>x, <1>t, <2>1, <2>2, <3>1
  <2> QED BY <2>1, <2>2, ThreadCounts
<1>2. ExecutedAtMostOnce'
  <2>1. \A s \in Steps : nexec'[s] <= 1
    BY <1>i, <1>t, <1>x, ThreadCounts DEF ExecutedAtMostOnce
  <2> QED BY <2>1 DEF ExecutedAtMostOnce
<1>3. OneTrigger'
  <2>1. CASE Executes
    BY <1>i, <1>x, <2>1 DEF OneTrigger
  <2>2. CASE Trigger
    <3>1. st[cur] = "request" /\ cur' = cur /\ nexec' = nexec /\ st'[cur] = "start"
      BY <1>t, <2>2 DEF Trigger
    <3>2. nexec[cur] = 0 /\ ~Triggered(dev) /\ ~Triggered(res)
      BY <1>i, <1>t, <3>1 DEF OneTrigger
    <3>3. Sends("tstart") /\ res' = res
      BY <2>2 DEF Trigger, Send, Sends
    <3>4. AtMostOne(dev')
      BY <1>i, <1>t, <3>2, <3>3, TriggeredAppend DEF Sends, OneTrigger, Messages
    <3> QED BY <1>i, <3>1, <3>2, <3>3, <3>4 DEF OneTrigger
  <2>3. CASE ~Executes /\ ~Trigger
    <3>1. \/ Pops /\ dev' = dev
          \/ Sends("tstop") /\ res' = res
      BY <2>3, ThreadChannels
    <3>2. /\ Triggered(dev') => Triggered(dev)
          /\ Triggered(res') => Triggered(res)
          /\ AtMostOne(dev') /\ AtMostOne(res')
      <4>1. /\ dev \in Seq(Messages) /\ res \in Seq(Messages)
            /\ AtMostOne(dev) /\ AtMostOne(res)
        BY <1>i, <1>t DEF OneTrigger
      <4>2. "tstop" \in Messages /\ "tstop" # "tstart"
        BY DEF Messages
      <4>3. /\ Triggered(Append(dev, "tstop")) => Triggered(dev)
            /\ AtMostOne(Append(dev, "tstop"))
        BY <4>1, <4>2, TriggeredAppend
      <4>4. CASE Pops /\ dev' = dev
        BY <4>1, <4>4, TriggeredTail DEF Pops
      <4>5. CASE Sends("tstop") /\ res' = res
        BY <4>1, <4>3, <4>5 DEF Sends
      <4> QED BY <3>1, <4>4, <4>5
    <3>3. ASSUME Triggered(dev) \/ Triggered(res)
          PROVE  st'[cur'] = "start" /\ nexec'[cur'] = 0
      <4>1. st[cur] = "start" /\ nexec[cur] = 0
        BY <1>i, <3>3 DEF OneTrigger
      <4>2. cur' = cur
        BY <1>t, <4>1, ThreadMoves, AllSerial
      <4>3. nexec' = nexec
        BY <2>3, ThreadCounts
      <4>4. st'[cur] \in {"request", "start"} \/ st'[cur] = st[cur]
        <5>1. ~(nexec'[cur] > 0)
          BY <4>1, <4>3
        <5>2. StopsExecuted
          BY DEF StopsExecuted
        <5> QED BY <1>i, <1>t, <5>1, <5>2, ThreadStates
      <4>5. st'[cur] = "start"
        BY <1>i, <1>t, <4>1, <4>4, ThreadStarts
      <4> QED BY <4>1, <4>2, <4>3, <4>5
    <3> QED BY <1>i, <3>2, <3>3 DEF OneTrigger
  <2> QED BY <2>1, <2>2, <2>3
<1> QED BY <1>0, <1>1, <1>2, <1>3 DEF OnceInv

LEMMA WorkerStates ==
  ASSUME ExecutedInv, NEW s \in Steps, WorkerStep(s)
  PROVE  /\ nexec[s] > 0
         /\ \A t \in Steps : \/ st'[t] = st[t]
                             \/ t = s /\ st'[t] \in {"results", "abort"}
BY WorkerWritesType DEF ExecutedInv, TypeInv, TypeOK, WorkerStep

LEMMA OnceStep ==
  ASSUME Forks \subseteq {FALSE}, MaxFaults = 0, OnceInv, [Next]_vars
  PROVE  OnceInv'
<1>t. /\ TypeInv /\ st \in [Steps -> StepStates] /\ cur \in Steps
      /\ dev \in Seq(Messages) /\ res \in Seq(Messages) /\ plan \in Plans
      /\ nexec \in [Steps -> Nat]
  BY DEF OnceInv, ExecutedInv, TypeInv, TypeOK
<1>i. /\ ExecutedInv /\ OneTrigger /\ ExecutedAtMostOnce
      /\ \A s \in Steps : st[s] = "request" => nexec[s] = 0
  BY DEF OnceInv
<1>0. ExecutedInv'
  BY <1>i, ExecutedStep DEF StopsExecuted
<1>1. CASE TestThread
  BY <1>1, OnceThread
<1>2. CASE MainThread \/ Deliver \/ EnvFrame \/ UNCHANGED vars
  <2>1. UNCHANGED <<st, nexec, cur>>
    BY <1>2, OthersThread, OthersStates DEF threadVars, stepVars
  <2>2. /\ AtMostOne(dev') /\ AtMostOne(res')
        /\ ~(Triggered(dev') /\ Triggered(res'))
        /\ Triggered(dev') \/ Triggered(res') => Triggered(dev) \/ Triggered(res)
    <3>1. CASE Deliver
      <4>1. dev # <<>> /\ dev' = Tail(dev) /\ Head(dev) \in Messages
        BY <1>t, <3>1 DEF Deliver
      <4>2. res' = res \/ res' = Append(res, Head(dev))
        BY <3>1 DEF Deliver, Push
      <4>3. CASE Head(dev) = "tstart"
        BY <1>i, <1>t, <4>1, <4>2, <4>3, TriggeredTail, TriggeredAppend
           DEF OneTrigger
      <4>4. CASE Head(dev) # "tstart"
        BY <1>i, <1>t, <4>1, <4>2, <4>4, TriggeredTail, TriggeredAppend
           DEF OneTrigger
      <4> QED BY <4>3, <4>4
    <3>2. CASE EnvFrame
      BY <1>i, <1>t, <3>2, TriggeredAppend DEF EnvFrame, OneTrigger, Messages
    <3>3. CASE MainThread \/ UNCHANGED vars
      BY <1>i, <3>3 DEF OneTrigger, MainThread, Subscribe, Join, vars,
                        channelVars
    <3> QED BY <1>2, <3>1, <3>2, <3>3
  <2> QED BY <1>0, <1>i, <2>1, <2>2 DEF OnceInv, OneTrigger, ExecutedAtMostOnce
<1>3. ~DeliverStale
  BY DEF DeliverStale, TypeInv, TypeOK, OnceInv, ExecutedInv
<1>4. ASSUME NEW s \in Steps, WorkerStep(s) PROVE OnceInv'
  <2>1. UNCHANGED <<dev, res, nexec, cur>>
    BY <1>4 DEF WorkerStep, threadVars, channelVars
  <2>2. /\ nexec[s] > 0
        /\ \A t \in Steps : \/ st'[t] = st[t]
                            \/ t = s /\ st'[t] \in {"results", "abort"}
    BY <1>4, <1>i, WorkerStates
  <2>3. nexec[cur] = 0 => st'[cur] = st[cur]
    BY <1>t, <2>2
  <2>4. OneTrigger'
    BY <1>i, <2>1, <2>3 DEF OneTrigger
  <2> QED BY <1>0, <1>i, <2>1, <2>2, <2>4 DEF OnceInv, ExecutedAtMostOnce
<1> QED BY <1>1, <1>2, <1>3, <1>4, NextCases

(* In a test case without forked steps, whatever their classes, the trigger *)
(* of a step executes that step and no other, and step_execute() runs once, *)
(* unless the device is read twice.                                         *)
THEOREM TriggersExecuteOnce ==
  ASSUME Forks \subseteq {FALSE}, MaxFaults = 0
  PROVE  Spec => []ExecutedAtMostOnce
<1>1. Init => OnceInv
  BY OnceInit
<1>2. OnceInv /\ [Next]_vars => OnceInv'
  BY OnceStep
<1>3. OnceInv => ExecutedAtMostOnce
  BY DEF OnceInv
<1> QED BY <1>1, <1>2, <1>3, PTL DEF Spec

------------------------------------------------------------------------------
(* A stop step stops for good.  Without forked steps the queue is passed   *)
(* once, from its first step to its last: what is behind the current step  *)
(* is no longer pending, what is ahead has not begun.  A performance log   *)
(* may end its step after the time-out loop has passed it; its bit then    *)
(* stays and the queue is passed again.                                    *)

PassedInv ==
  /\ TypeInv
  /\ pend \subseteq Steps
  /\ \A s \in Steps : s < cur => s \notin pend
  /\ \A s \in Steps : s > cur => st[s] = "request" /\ worker[s] = "none"
  /\ pc = "tick" /\ ti > cur /\ st[cur] = "results" => cur \notin pend
  /\ pc \in {"ticking", "checking"} => ti <= cur
  /\ \A s \in Steps : Kind(s) \in Stops => st[s] \notin Waiting
  /\ StopStops

LEMMA PassedInit == ASSUME N < Width, Init PROVE PassedInv
<1>1. pend = Steps
  BY AllPendingExact DEF Init
<1>2. \A s \in Steps : ~(s < cur)
  BY DEF Init, Steps
<1> QED BY <1>1, <1>2, TypeInit DEF Init, PassedInv, StopStops, Waiting

LEMMA ThreadPlan == ASSUME TestThread PROVE plan' = plan
BY DEF TestThread, Trigger, WakeDrain, WakeResults, WakeAbort, WakeTimeout,
       DrainEnd, ExecutePlain, ExecuteLogStop, ExecuteStatsStop,
       ExecuteAsync, ExecuteAsyncAgain, Park, Frame, TickPass, TickTimeout,
       TickAsyncRead, TickAsyncWrite, TickAsyncCheck, TickEnd

(* What the test thread writes to the state of a stop step. *)
LEMMA ThreadStops ==
  ASSUME TypeInv, \A s \in Steps : Kind(s) \in Stops => st[s] \notin Waiting,
         TestThread, NEW s \in Steps, Kind(s) \in Stops, st'[s] # st[s]
  PROVE  /\ s = cur
         /\ st'[s] \in {"start", "results", "abort"}
         /\ st'[s] = "results" /\ Target(s) # NoTarget
              => worker' = StoppedWorker(Target(s))
<1>t. /\ st \in [Steps -> StepStates] /\ cur \in Steps
      /\ plan \in Plans /\ ti \in 0 .. N
  BY DEF TypeInv, TypeOK
<1>k. Kind(s) \notin Plain /\ Kind(s) \notin Async
  BY DEF Plain, Async, Stops
<1>1. CASE Trigger
  BY <1>1, <1>t DEF Trigger
<1>2. CASE ExecuteLogStop
  BY <1>2, <1>t, OutcomeStates DEF ExecuteLogStop
<1>3. CASE ExecuteStatsStop
  <2>1. Target(cur) # NoTarget => Kind(Target(cur)) \notin Stops
    BY <1>t, TargetEarlier DEF Stopped, Stops
  <2> QED BY <1>3, <1>t, <2>1 DEF ExecuteStatsStop
<1>4. CASE ExecutePlain \/ ExecuteAsync \/ ExecuteAsyncAgain \/ Park
  BY <1>4, <1>t, <1>k
     DEF ExecutePlain, ExecuteAsync, ExecuteAsyncAgain, Park, TypeInv, AsyncPoint
<1>5. CASE Frame
  BY <1>5, <1>t DEF Frame, Takers
<1>6. CASE TickTimeout
  <2>1. st[s] \notin Waiting
    OBVIOUS
  <2> QED BY <1>6, <1>t, <2>1 DEF TickTimeout
<1>7. CASE TickAsyncWrite
  BY <1>7, <1>t, <1>k DEF TickAsyncWrite, TypeInv, AsyncPoint
<1> QED BY <1>1, <1>2, <1>3, <1>4, <1>5, <1>6, <1>7
        DEF TestThread, WakeDrain, WakeResults, WakeAbort, WakeTimeout,
            DrainEnd, TickPass, TickAsyncRead, TickAsyncCheck, TickEnd, stepVars

(* The steps ahead of the current one do not begin. *)
LEMMA AheadThread ==
  ASSUME PassedInv, TestThread, NEW s \in Steps, s > cur
  PROVE  st'[s] = "request" /\ worker'[s] = "none"
<1>t. /\ TypeInv /\ st \in [Steps -> StepStates] /\ cur \in Steps
      /\ plan \in Plans /\ ti \in 0 .. N
      /\ worker \in [Steps -> {"none", "running", "done"}]
      /\ st[s] = "request" /\ worker[s] = "none" /\ s # cur /\ Steps \subseteq Nat
  BY NAssumption DEF PassedInv, TypeInv, TypeOK, Steps
<1>1. CASE \/ Trigger \/ ExecutePlain \/ ExecuteAsync
           \/ ExecuteAsyncAgain \/ Park
  BY <1>1, <1>t DEF Trigger, ExecutePlain, ExecuteAsync, ExecuteAsyncAgain,
       Park, stepVars
<1>2. CASE ExecuteLogStop \/ ExecuteStatsStop
  <2>1. Target(cur) # NoTarget => Target(cur) # s
    BY <1>t, TargetEarlier
  <2> QED BY <1>2, <1>t, <2>1 DEF ExecuteLogStop, ExecuteStatsStop, StoppedWorker
<1>3. CASE Frame \/ TickTimeout
  BY <1>3, <1>t DEF Frame, Takers, Waiting, TickTimeout
<1>4. CASE TickAsyncWrite
  BY <1>4, <1>t DEF TickAsyncWrite, PassedInv
<1> QED BY <1>1, <1>2, <1>3, <1>4, <1>t
        DEF TestThread, WakeDrain, WakeResults, WakeAbort, WakeTimeout,
            DrainEnd, TickPass, TickAsyncRead, TickAsyncCheck, TickEnd, stepVars

LEMMA PassedThread ==
  ASSUME N < Width, Forks \subseteq {FALSE}, "performance" \notin Kinds,
         PassedInv, TestThread
  PROVE  PassedInv'
<1>t. /\ TypeInv /\ st \in [Steps -> StepStates] /\ cur \in Steps
      /\ plan \in Plans /\ ti \in 0 .. N /\ Steps \subseteq Nat
      /\ worker \in [Steps -> {"none", "running", "done"}]
  BY NAssumption DEF PassedInv, TypeInv, TypeOK, Steps
<1>0. TypeInv' /\ cur' \in Steps /\ plan' = plan
  <2>1. TypeInv'
    BY <1>t, TypeStep DEF Next
  <2> QED BY <2>1, ThreadPlan DEF TypeInv, TypeOK
<1>i. /\ pend \subseteq Steps
      /\ \A s \in Steps : s < cur => s \notin pend
      /\ pc = "tick" /\ ti > cur /\ st[cur] = "results" => cur \notin pend
      /\ pc \in {"ticking", "checking"} => ti <= cur
      /\ \A s \in Steps : Kind(s) \in Stops => st[s] \notin Waiting
      /\ \A s \in Steps : s > cur => st[s] = "request"
      /\ StopStops
  BY DEF PassedInv
<1>1. pend' \subseteq Steps /\ pend' \subseteq pend
  BY <1>i, <1>t, ThreadPending
<1>3. ASSUME cur' # cur
      PROVE  /\ cur' = cur + 1
             /\ cur \notin pend'
             /\ st' = st
             /\ pc' \notin {"tick", "ticking", "checking"}
  <2>1. /\ cur' = NextStep(cur) /\ st' = st
        /\ (pc = "loop" /\ st[cur] = "results") \/ pc = "tick"
        /\ st[cur] = "results"
    BY <1>t, <1>3, ThreadMoves, AllSerial
  <2>2. \/ WakeResults /\ Advance(st, pend')
        \/ TickEnd /\ Advance(st, pend) /\ pend' = pend
    BY <1>3 DEF TestThread, Trigger, WakeDrain, WakeAbort, WakeResults,
      WakeTimeout, DrainEnd, ExecutePlain, ExecuteLogStop, ExecuteStatsStop,
      ExecuteAsync, ExecuteAsyncAgain, Park, Frame, TickPass, TickTimeout,
      TickAsyncRead, TickAsyncWrite, TickAsyncCheck, TickEnd, Check, Stop,
      threadVars
  <2>3. cur \notin pend'
    <3>1. CASE WakeResults
      BY <1>t, <3>1, ClearedExact DEF WakeResults
    <3>2. CASE TickEnd /\ pend' = pend
      <4>1. pc = "tick" /\ ti > cur
        BY <1>t, <3>2 DEF TickEnd, Steps
      <4> QED BY <1>i, <2>1, <3>2, <4>1
    <3> QED BY <2>2, <3>1, <3>2
  <2>4. pend' # {} /\ pc' = "loop"
    BY <1>3, <2>2 DEF Advance, Stop, Continue
  <2>5. cur # N - 1
    <3>1. cur = N - 1 => \A s \in Steps : s < cur \/ s = cur
      BY <1>t DEF Steps
    <3> QED BY <1>i, <1>1, <2>3, <2>4, <3>1
  <2>6. cur' = cur + 1
    BY <1>t, <2>1, <2>5, NextStepIs, NAssumption DEF Steps
  <2> QED BY <2>1, <2>3, <2>4, <2>6
<1>4. /\ \A s \in Steps : s < cur' => s \notin pend'
      /\ \A s \in Steps : s > cur' => st'[s] = "request" /\ worker'[s] = "none"
  <2>1. CASE cur' = cur
    BY <1>i, <1>1, <2>1, AheadThread
  <2>2. CASE cur' # cur
    <3>1. \A s \in Steps : s < cur' => s < cur \/ s = cur
      BY <1>3, <1>t, <2>2
    <3>2. \A s \in Steps : s > cur' => s > cur
      BY <1>3, <1>t, <2>2
    <3> QED BY <1>i, <1>1, <1>3, <2>2, <3>1, <3>2, AheadThread
  <2> QED BY <2>1, <2>2
<1>5. \A s \in Steps : Kind(s) \in Stops => st'[s] \notin Waiting
  BY <1>i, <1>t, ThreadStops DEF Waiting
<1>6. StopStops'
  <2> SUFFICES ASSUME NEW s \in Steps, Kind(s) \in Stops, st'[s] = "results",
                      Target(s) # NoTarget
               PROVE  worker'[Target(s)] # "running"
    BY <1>0 DEF StopStops, Kind, Target
  <2>1. Target(s) \in Steps /\ Target(s) < s
    BY <1>t, TargetEarlier
  <2>2. CASE st[s] = "results"
    <3>1. worker[Target(s)] # "running"
      BY <1>i, <2>2 DEF StopStops
    <3>2. Target(s) # cur
      BY <1>i, <1>t, <2>1, <2>2
    <3> QED BY <1>t, <2>1, <3>1, <3>2, ThreadWorkers
  <2>3. CASE st[s] # "results"
    <3>1. worker' = StoppedWorker(Target(s))
      BY <1>i, <1>t, <2>3, ThreadStops
    <3> QED BY <1>t, <2>1, <3>1 DEF StoppedWorker
  <2> QED BY <2>2, <2>3
<1>7. pc' \in {"ticking", "checking"} => ti' <= cur'
  <2>1. TickAsyncRead => ti <= cur /\ ti' = ti /\ cur' = cur
    <3>1. ASSUME TickAsyncRead PROVE ti <= cur
      <4>1. ti \in Steps /\ st[ti] # "request"
        BY <1>t, <3>1, NAssumption DEF TickAsyncRead, Steps, Waiting
      <4> QED BY <1>i, <1>t, <4>1
    <3> QED BY <3>1 DEF TickAsyncRead
  <2>2. TickAsyncWrite => ti <= cur /\ ti' = ti /\ cur' = cur
    BY <1>i DEF TickAsyncWrite
  <2>3. pc' \in {"ticking", "checking"} => TickAsyncRead \/ TickAsyncWrite
    BY DEF TestThread, Trigger, WakeDrain, WakeAbort, WakeResults,
      WakeTimeout, DrainEnd, ExecutePlain, ExecuteLogStop, ExecuteStatsStop,
      ExecuteAsync, ExecuteAsyncAgain, Park, Frame, TickPass, TickTimeout,
      TickAsyncRead, TickAsyncWrite, TickAsyncCheck, TickEnd, Check, Stop,
      Continue, Advance, Pop, threadVars
  <2> QED BY <2>1, <2>2, <2>3
<1>8. pc' = "tick" /\ ti' > cur' /\ st'[cur'] = "results" => cur' \notin pend'
  <2> SUFFICES ASSUME pc' = "tick", ti' > cur', st'[cur'] = "results"
               PROVE  cur' \notin pend'
    OBVIOUS
  <2>0. cur' = cur
    BY <1>3
  <2>1. CASE WakeTimeout
    BY <1>0, <1>t, <2>1 DEF WakeTimeout
  <2>2. ASSUME NEW state, Check(ti, state), st' = state, ti < N,
               \/ st' = st
               \/ ti <= cur /\ \A s \in Steps : s # ti => st'[s] = st[s],
               pc = "tick" \/ ti <= cur
        PROVE  cur' \notin pend'
    <3>1. /\ ti' = ti + 1 /\ ti \in Steps
          /\ st'[ti] = "results" => pend' = pend \ {ti}
          /\ st'[ti] # "results" => pend' = pend
      BY <1>t, <2>2, ClearedExact, NAssumption DEF Check, Stop, Continue, Steps
    <3>2. CASE ti = cur
      BY <2>0, <3>1, <3>2
    <3>3. CASE ti # cur
      <4>1. ti > cur
        BY <1>t, <2>0, <3>1, <3>3
      <4> QED BY <1>1, <1>i, <1>t, <2>0, <2>2, <4>1
    <3> QED BY <3>2, <3>3
  <2>3. CASE TickPass
    BY <2>3, <2>2 DEF TickPass, stepVars
  <2>4. CASE TickTimeout
    <3>1. ti \in Steps /\ st[ti] # "request"
      BY <1>t, <2>4, NAssumption DEF TickTimeout, Steps, Waiting
    <3>2. ti <= cur /\ \A s \in Steps : s # ti => st'[s] = st[s]
      BY <1>i, <1>t, <2>4, <3>1 DEF TickTimeout
    <3> QED BY <2>2, <2>4, <3>2 DEF TickTimeout
  <2>5. CASE TickAsyncCheck
    BY <1>i, <1>t, <2>2, <2>5 DEF TickAsyncCheck, stepVars, TypeInv, AsyncPoint
  <2>6. WakeTimeout \/ TickPass \/ TickTimeout \/ TickAsyncCheck
    BY DEF TestThread, Trigger, WakeDrain, WakeAbort, WakeResults,
      DrainEnd, ExecutePlain, ExecuteLogStop, ExecuteStatsStop,
      ExecuteAsync, ExecuteAsyncAgain, Park, Frame,
      TickAsyncRead, TickAsyncWrite, TickEnd, Stop,
      Continue, Advance, Pop, threadVars
  <2> QED BY <2>1, <2>3, <2>4, <2>5, <2>6
<1>9. \A s \in Steps : Kind(s)' = Kind(s)
  BY <1>0 DEF Kind
<1> QED BY <1>0, <1>1, <1>4, <1>5, <1>6, <1>7, <1>8, <1>9 DEF PassedInv, Kind

LEMMA PassedStep ==
  ASSUME N < Width, Forks \subseteq {FALSE}, "performance" \notin Kinds,
         PassedInv, [Next]_vars
  PROVE  PassedInv'
<1>0. TypeInv /\ TypeInv' /\ StopStops
  BY TypeStep DEF PassedInv
<1>1. CASE MainThread \/ Deliver \/ DeliverStale \/ EnvFrame \/ UNCHANGED vars
  BY <1>0, <1>1, OthersThread, OthersStates
     DEF threadVars, stepVars, PassedInv, StopStops, Kind, Target
<1>2. ASSUME NEW s \in Steps, WorkerStep(s) PROVE PassedInv'
  <2>1. UNCHANGED <<plan, pend, pc, cur, ti>>
    BY <1>2, OthersThread DEF threadVars
  <2>2. worker[s] = "running" /\ (st' = st \/ st' = [st EXCEPT ![s] = "abort"])
    BY <1>0, <1>2, WorkerAborts DEF WorkerStep
  <2>3. \A t \in Steps : t # s => worker'[t] = worker[t] /\ st'[t] = st[t]
    BY <1>0, <1>2, <2>2 DEF WorkerStep, TypeInv, TypeOK
  <2>4. \A t \in Steps : st'[t] = st[t] \/ st'[t] = "abort"
    BY <1>0, <2>2 DEF TypeInv, TypeOK
  <2>5. StopStops'
    <3>1. \A t \in Steps : Kind(t)' = Kind(t) /\ Target(t)' = Target(t)
      BY <2>1 DEF Kind, Target
    <3>2. plan \in Plans
      BY <1>0 DEF TypeInv, TypeOK
    <3>3. \A t \in Steps : Target(t) # NoTarget => Target(t) \in Steps
      BY <3>2, TargetEarlier
    <3>4. \A t \in Steps : st'[t] = "results" => st[t] = "results"
      BY <2>4
    <3>5. \A t \in Steps : worker[t] # "running" => worker'[t] # "running"
      BY <2>2, <2>3
    <3> QED BY <1>0, <3>1, <3>3, <3>4, <3>5 DEF StopStops
  <2>6. /\ \A t \in Steps : t > cur => st'[t] = "request" /\ worker'[t] = "none"
        /\ st'[cur] = "results" => st[cur] = "results"
        /\ \A t \in Steps : Kind(t) \in Stops => st'[t] \notin Waiting
    <3>1. \A t \in Steps : t > cur => t # s
      BY <2>2 DEF PassedInv
    <3>2. cur \in Steps
      BY <1>0 DEF TypeInv, TypeOK
    <3>3. "abort" \notin Waiting
      BY DEF Waiting
    <3> QED BY <2>3, <2>4, <3>1, <3>2, <3>3 DEF PassedInv
  <2> QED BY <1>0, <2>1, <2>5, <2>6 DEF PassedInv, Kind
<1> QED BY <1>1, <1>2, PassedThread, NextCases

(* In a test case without forked steps and performance logs, a stop step    *)
(* that has its results has stopped the thread, or the subscription, of the *)
(* step it names, and nothing starts it again: whatever the device, the bus *)
(* and the workers do.                                                      *)
THEOREM StopsStop ==
  ASSUME N < Width, Forks \subseteq {FALSE}, "performance" \notin Kinds
  PROVE  Spec => []StopStops
<1>1. Init => PassedInv
  BY PassedInit
<1>2. PassedInv /\ [Next]_vars => PassedInv'
  BY PassedStep
<1>3. PassedInv => StopStops
  BY DEF PassedInv
<1> QED BY <1>1, <1>2, <1>3, PTL DEF Spec

------------------------------------------------------------------------------
(* A synchronous test case without forked steps implements SerialTest.     *)

SerialTestInv ==
  /\ FinishedInv
  /\ OnceInv
  /\ PassedInv
  /\ pc # "exited" => verdict = "none"

Phases == [s \in Steps |-> Phase(st[s])]

LEMMA PhaseIs ==
  /\ Phase("request") = "todo"
  /\ Phase("start") = "active" /\ Phase("continue") = "active"
  /\ Phase("results") = "finished"
  /\ Phase("abort") = "failed"
BY DEF Phase, InProgress, Waiting

LEMMA PhasesUpdate ==
  ASSUME st \in [Steps -> StepStates], NEW s \in Steps, NEW state,
         st' = [st EXCEPT ![s] = state]
  PROVE  Phases' = [Phases EXCEPT ![s] = Phase(state)]
BY DEF Phases

(* The steps of SerialTest, in terms of the program. *)
LEMMA SerialBegin ==
  ASSUME NEW s \in Steps, verdict = "none", Phases[s] = "todo",
         \A t \in Steps : t < s => Phases[t] = "finished",
         Phases' = [Phases EXCEPT ![s] = "active"], verdict' = verdict
  PROVE  Serial!Next
<1>1. \A t \in 0 .. s - 1 : t \in Steps /\ t < s
  BY NAssumption DEF Steps
<1>2. Serial!Begin(s)
  BY <1>1 DEF Serial!Begin, Phases
<1> QED BY <1>2 DEF Serial!Next, Serial!AllSteps, Steps

LEMMA SerialFinish ==
  ASSUME NEW s \in Steps, verdict = "none", Phases[s] = "active",
         Phases' = [Phases EXCEPT ![s] = "finished"], verdict' = verdict
  PROVE  Serial!Next
<1>1. Serial!Finish(s)
  BY DEF Serial!Finish, Phases
<1> QED BY <1>1 DEF Serial!Next, Serial!AllSteps, Steps

LEMMA SerialFail ==
  ASSUME NEW s \in Steps, verdict = "none", Phases[s] = "active",
         Phases' = [Phases EXCEPT ![s] = "failed"],
         verdict' \in {"none", "fail"}
  PROVE  Serial!Next
<1>1. Serial!Fail(s)
  BY DEF Serial!Fail, Phases
<1> QED BY <1>1 DEF Serial!Next, Serial!AllSteps, Steps

LEMMA SerialDone ==
  ASSUME verdict = "none", \A s \in Steps : Phases[s] = "finished",
         verdict' = "done", Phases' = Phases
  PROVE  Serial!Next
<1>1. Serial!DeclareDone
  BY DEF Serial!DeclareDone, Phases, Serial!AllSteps, Steps
<1> QED BY <1>1 DEF Serial!Next

LEMMA SerialFailed ==
  ASSUME verdict = "none", \E s \in Steps : Phases[s] = "failed",
         verdict' = "fail", Phases' = Phases
  PROVE  Serial!Next
<1>1. Serial!DeclareFailed
  BY DEF Serial!DeclareFailed, Phases, Serial!AllSteps, Steps
<1> QED BY <1>1 DEF Serial!Next

LEMMA SerialStutter ==
  ASSUME Phases' = Phases, verdict' = verdict
  PROVE  UNCHANGED Serial!svars
BY DEF Serial!svars, Phases

(* The state of the current step is rewritten while it is in progress. *)
LEMMA SerialWrite ==
  ASSUME st \in [Steps -> StepStates], verdict = "none", NEW s \in Steps,
         st[s] \in {"start", "continue"},
         NEW state \in {"continue", "results", "abort"},
         st' = [st EXCEPT ![s] = state],
         verdict' = "none" \/ (state = "abort" /\ verdict' = "fail")
  PROVE  [Serial!Next]_(Serial!svars)
<1>1. Phases' = [Phases EXCEPT ![s] = Phase(state)] /\ Phases[s] = "active"
  BY PhasesUpdate, PhaseIs DEF Phases
<1>2. CASE state = "continue"
  <2>1. Phases' = Phases
    BY <1>1, <1>2, PhaseIs DEF Phases
  <2> QED BY <1>2, <2>1, SerialStutter
<1>3. CASE state = "results"
  BY <1>1, <1>3, PhaseIs, SerialFinish
<1>4. CASE state = "abort"
  BY <1>1, <1>4, PhaseIs, SerialFail
<1> QED BY <1>2, <1>3, <1>4

LEMMA SerialThread ==
  ASSUME N < Width, Forks \subseteq {FALSE}, Synchronous, SerialTestInv,
         TestThread
  PROVE  [Serial!Next]_(Serial!svars)
<1>t. /\ TypeInv /\ st \in [Steps -> StepStates] /\ cur \in Steps
      /\ ti \in 0 .. N /\ plan \in Plans /\ res \in Seq(Messages)
      /\ verdict = "none"
  BY ThreadRuns DEF SerialTestInv, PassedInv, TypeInv, TypeOK
<1>i. FinishedInv /\ OnceInv /\ PassedInv
  BY DEF SerialTestInv
<1>0. FinishedInv'
  BY <1>i, FinishedThread
<1>v. \/ verdict' = verdict
      \/ verdict' = "done" /\ pend' = {}
      \/ verdict' = "fail" /\ \E s \in Steps : st'[s] = "abort"
  BY <1>t, ThreadVerdict DEF GoesOn, EndsDone, EndsFailed
<1>1. CASE st' = st
  <2>1. Phases' = Phases
    BY <1>1 DEF Phases
  <2>2. CASE verdict' = verdict
    BY <2>1, <2>2, SerialStutter
  <2>3. CASE verdict' = "done" /\ pend' = {}
    <3>1. \A s \in Steps : Phases[s] = "finished"
      BY <1>0, <1>1, <2>3, PhaseIs DEF FinishedInv, Phases
    <3> QED BY <1>t, <2>1, <2>3, <3>1, SerialDone
  <2>4. CASE verdict' = "fail" /\ \E s \in Steps : st'[s] = "abort"
    <3>1. \E s \in Steps : Phases[s] = "failed"
      BY <1>1, <2>4, PhaseIs DEF Phases
    <3> QED BY <1>t, <2>1, <2>4, <3>1, SerialFailed
  <2> QED BY <1>v, <2>2, <2>3, <2>4
<1>2. CASE Trigger
  <2>1. st[cur] = "request" /\ st' = [st EXCEPT ![cur] = "start"]
        /\ verdict' = verdict
    BY <1>2 DEF Trigger
  <2>2. \A t \in Steps : t < cur => Phases[t] = "finished"
    BY <1>i, PhaseIs DEF PassedInv, FinishedInv, Phases
  <2>3. Phases[cur] = "todo" /\ Phases' = [Phases EXCEPT ![cur] = "active"]
    BY <1>t, <2>1, PhasesUpdate, PhaseIs DEF Phases
  <2> QED BY <1>t, <2>1, <2>2, <2>3, SerialBegin
<1>3. CASE Executes
  <2>1. PICK state \in {"continue", "results", "abort"} :
          st' = [st EXCEPT ![cur] = state]
    BY <1>i, <1>3, SynchronousExecute
  <2>2. verdict' = verdict
    BY <1>i, <1>3, SynchronousExecute DEF threadVars
  <2>3. Pops /\ Head(res) = "tstart"
    BY <1>3, ThreadChannels DEF Executes, Trigger, ExecutePlain, Frame, Pop,
         ExecuteLogStop, ExecuteStatsStop, ExecuteAsync, ExecuteAsyncAgain
  <2>4. st[cur] = "start"
    BY <1>i, <1>t, <2>3, TriggeredTail DEF OnceInv, OneTrigger, Pops
  <2>5. verdict' = "none"
    BY <1>t, <2>2
  <2> QED BY <1>t, <2>1, <2>4, <2>5, SerialWrite
<1>4. CASE Frame
  <2>1. verdict' = verdict
    BY <1>4 DEF Frame, threadVars
  <2>2. \/ st' = st
        \/ \E s \in Steps : /\ st[s] \in Waiting
                            /\ st' = [st EXCEPT ![s] = "results"]
    BY <1>4 DEF Frame, Takers
  <2>3. \A s \in Steps : st[s] \in Waiting => st[s] = "continue"
    BY <1>i DEF FinishedInv, Waiting
  <2>4. verdict' = "none"
    BY <1>t, <2>1
  <2>5. ASSUME NEW s \in Steps, st[s] \in Waiting,
               st' = [st EXCEPT ![s] = "results"]
        PROVE  [Serial!Next]_(Serial!svars)
    BY <1>t, <2>3, <2>4, <2>5, SerialWrite
  <2> QED BY <1>1, <2>2, <2>5
<1>5. CASE TickTimeout
  <2>1. ti \in Steps /\ st[ti] = "continue" /\ Kind(ti) \in Plain \cup Stops
    <3>1. ti \in Steps /\ st[ti] \in Waiting
      BY <1>5, <1>t, NAssumption DEF TickTimeout, Steps
    <3> QED BY <1>i, <1>t, <3>1, SynchronousKinds DEF FinishedInv, Waiting
  <2>2. PICK n : st' = [st EXCEPT ![ti] =
                          TimeoutState(Kind(ti), st[ti], n, Time)]
    BY <1>5 DEF TickTimeout
  <2>3. PICK state \in {"continue", "results", "abort"} :
          st' = [st EXCEPT ![ti] = state]
    BY <2>1, <2>2, TimeoutEndsOrWaits
  <2>4. verdict' = "none" \/ (state = "abort" /\ verdict' = "fail")
    BY <1>5, <1>t, <2>1, <2>3 DEF TickTimeout, Check, Stop, Continue
  <2> QED BY <1>t, <2>1, <2>3, <2>4, SerialWrite
<1>6. ~(Park \/ TickAsyncWrite)
  BY <1>i DEF FinishedInv, Park, TickAsyncWrite
<1> QED BY <1>1, <1>2, <1>3, <1>4, <1>5, <1>6
        DEF TestThread, Executes, WakeDrain, WakeResults, WakeAbort,
            WakeTimeout, DrainEnd, TickPass, TickAsyncRead, TickAsyncCheck,
            TickEnd, stepVars

LEMMA SerialTestStep ==
  ASSUME N < Width, Forks \subseteq {FALSE}, MaxFaults = 0, Synchronous,
         SerialTestInv, [Next]_vars
  PROVE  SerialTestInv' /\ [Serial!Next]_(Serial!svars)
<1>i. FinishedInv /\ OnceInv /\ PassedInv /\ TypeInv
  BY DEF SerialTestInv, PassedInv
<1>p. "performance" \notin Kinds
  BY DEF Synchronous, Async
<1>1. FinishedInv' /\ OnceInv' /\ PassedInv'
  BY <1>i, <1>p, FinishedStep, OnceStep, PassedStep
<1>2. CASE TestThread
  <2>1. pc' # "exited" => verdict' = "none"
    BY <1>2, <1>i, ThreadRuns, ThreadVerdict
       DEF SerialTestInv, GoesOn, EndsDone, EndsFailed
  <2> QED BY <1>1, <1>2, <2>1, SerialThread DEF SerialTestInv
<1>3. CASE MainThread \/ Deliver \/ DeliverStale \/ EnvFrame \/ UNCHANGED vars
  <2>1. UNCHANGED <<st, pc, verdict>>
    BY <1>3, OthersThread, OthersStates DEF threadVars, stepVars
  <2>2. Phases' = Phases
    BY <2>1 DEF Phases
  <2> QED BY <1>1, <2>1, <2>2, SerialStutter DEF SerialTestInv
<1>4. ASSUME NEW s \in Steps, WorkerStep(s) PROVE FALSE
  BY <1>i, <1>4 DEF WorkerStep, FinishedInv
<1> QED BY <1>2, <1>3, <1>4, NextCases

(* A test case whose steps are neither forked nor asynchronous implements   *)
(* SerialTest: the queue is executed in its order, each step begun when     *)
(* every earlier one has its results, and the verdict is that of the steps; *)
(* whatever the order of messages, time-outs and triggers on the device.    *)
THEOREM SerialTestImplemented ==
  ASSUME N < Width, Forks \subseteq {FALSE}, MaxFaults = 0, Synchronous
  PROVE  Spec => ImplementsSerialTest
<1>1. Init => SerialTestInv
  <2> SUFFICES ASSUME Init PROVE SerialTestInv
    OBVIOUS
  <2>1. OnceInv
    BY OnceInit
  <2> QED BY <2>1, FinishedInit, PassedInit DEF Init, SerialTestInv
<1>2. Init => Serial!Init
  BY PhaseIs DEF Init, Serial!Init, Serial!AllSteps, Steps
<1>3. SerialTestInv /\ [Next]_vars
        => SerialTestInv' /\ [Serial!Next]_(Serial!svars)
  BY SerialTestStep
<1> QED BY <1>1, <1>2, <1>3, PTL DEF Spec, ImplementsSerialTest, Serial!Spec
=============================================================================
