-------------------------- MODULE StepEngineProofs ---------------------------
(***************************************************************************)
(* Theorems about StepEngine, for every number of steps, every test case,  *)
(* every width of pending_steps and every bound.                           *)
(***************************************************************************)
EXTENDS StepEngine, TLAPS

(* The states that step_execute() and step_timeout() leave are states. *)
LEMMA TimeoutStateType ==
  ASSUME NEW k \in Plain \cup Stops, NEW state \in StepStates,
         NEW n, NEW time
  PROVE  TimeoutState(k, state, n, time) \in StepStates
BY DEF Plain, Stops, StepStates, TimeoutState, TimeoutCommand,
       TimeoutWebconfig, TimeoutTimedWait, TimeoutCapture

LEMMA OutcomeStates ==
  /\ \A state, ok : Outcome(state, ok).state = state
  /\ Ended.state = "results"
  /\ Failed.state = "abort"
BY DEF Ended, Failed, Outcome

LEMMA ExecuteOutcomeType ==
  ASSUME NEW k \in Plain, NEW o \in ExecuteOutcomes(k)
  PROVE  o.state \in {"continue", "results", "abort"}
<1>1. \/ o \in ExecuteCommand \/ o \in ExecuteGetFile
      \/ o \in ExecuteGetPatternFiles \/ o \in ExecuteDmlSubdoc
      \/ o \in ExecuteDmlReset \/ o \in ExecuteRadio \/ o \in ExecuteVap
      \/ o \in ExecuteConfigOneWifi \/ o \in ExecuteTimedWait
      \/ o \in ExecuteCapture
  BY DEF Plain, ExecuteOutcomes
<1>2. \/ o = Ended \/ o = Failed
      \/ \E state \in {"continue", "abort"}, ok \in BOOLEAN :
            o = Outcome(state, ok)
  BY <1>1 DEF ExecuteCommand, ExecuteGetFile, ExecuteGetPatternFiles,
       ExecuteDmlSubdoc, ExecuteDmlReset, ExecuteRadio, ExecuteVap,
       ExecuteConfigOneWifi, ExecuteTimedWait, ExecuteCapture
<1> QED BY <1>2, OutcomeStates

LEMMA ParkStatesType ==
  ASSUME NEW k \in Async, NEW fork
  PROVE  ParkStates(k, fork) \subseteq StepStates
BY DEF Async, ParkStates, Parked, StepStates

LEMMA TimeoutWriteType ==
  ASSUME NEW k \in Async, NEW fork, NEW n, NEW time
  PROVE  TimeoutWrite(k, fork, n, time) \in StepStates
BY DEF Async, TimeoutWrite, Parked, StepStates

LEMMA WorkerWritesType ==
  ASSUME NEW k PROVE WorkerWrites(k) \subseteq {"results", "abort"}
BY DEF WorkerWrites

LEMMA WaitingType ==
  Waiting \subseteq InProgress /\ InProgress \subseteq StepStates
BY DEF Waiting, InProgress, StepStates

(* A saturated count stays in its range. *)
LEMMA CountUpType ==
  ASSUME NEW n \in 0 .. CountCap PROVE CountUp(n) \in 0 .. CountCap
BY BoundAssumption DEF CountUp, CountCap

(* Successors in the cyclic order of the steps are steps. *)
LEMMA CyclicStep ==
  ASSUME NEW s \in Steps, NEW i \in Nat
  PROVE  (s + i) % N \in Steps
BY NAssumption DEF Steps

LEMMA AllPendingType ==
  ASSUME NEW p \in AllPending
  PROVE  p \subseteq 0 .. Width - 1
<1>1. CASE N < Width
  BY <1>1, NAssumption, BoundAssumption DEF AllPending, Steps
<1>2. CASE ~(N < Width)
  <2>1. N % Width \in 0 .. Width - 1
    BY NAssumption, BoundAssumption
  <2> QED BY <1>2, <2>1, BoundAssumption DEF AllPending
<1> QED BY <1>1, <1>2

LEMMA ClearedType ==
  ASSUME NEW p, NEW s \in Steps, NEW q \in Cleared(p, s)
  PROVE  q \subseteq p
BY DEF Cleared

------------------------------------------------------------------------------
(* The parts of a step of the test thread: what each leaves well typed.    *)

ChannelOK ==
  /\ dev \in Seq(Messages)
  /\ lost \in BOOLEAN
  /\ faults \in 0 .. MaxFaults

ControlOK ==
  /\ cur \in Steps
  /\ sub \in BOOLEAN
  /\ verdict \in {"none", "done", "fail"}
  /\ ChannelOK

LEMMA SendType ==
  ASSUME ChannelOK, NEW m \in Messages, Send(m)
  PROVE  ChannelOK'
<1>1. CASE dev' = Append(dev, m) /\ UNCHANGED <<lost, faults>>
  BY <1>1 DEF ChannelOK
<1>2. CASE /\ faults < MaxFaults
           /\ faults' = faults + 1
           /\ lost' = (lost \/ m = "tstart")
           /\ UNCHANGED dev
  <2>1. faults' \in 0 .. MaxFaults
    BY <1>2, BoundAssumption DEF ChannelOK
  <2>2. lost' \in BOOLEAN
    BY <1>2, Zenon DEF ChannelOK
  <2> QED BY <1>2, <2>1, <2>2 DEF ChannelOK
<1> QED BY <1>1, <1>2 DEF Send

LEMMA StopType ==
  ASSUME ControlOK, NEW v \in {"done", "fail"}, Stop(v)
  PROVE  ControlOK' /\ pc' = "exited"
<1>1. ChannelOK'
  BY SendType DEF Stop, ControlOK, Messages
<1> QED BY <1>1 DEF Stop, ControlOK

LEMMA ContinueType ==
  ASSUME ControlOK, NEW where, Continue(where), cur' \in Steps
  PROVE  ControlOK' /\ pc' = where
BY DEF Continue, ControlOK, ChannelOK

LEMMA AdvanceType ==
  ASSUME ControlOK, NEW state, NEW pending, Advance(state, pending)
  PROVE  ControlOK' /\ pc' \in {"loop", "spin", "exited"}
<1>1. CASE Stop("done")
  BY <1>1, StopType
<1>2. CASE cur' = NextStep(cur) /\ Continue("loop")
  <2>1. cur' \in Steps
    BY <1>2, CyclicStep DEF NextStep, ControlOK
  <2> QED BY <1>2, <2>1, ContinueType
<1>3. CASE NextUnfinished(cur, cur', state) /\ Continue("loop")
  <2>1. cur' \in Steps
    BY <1>3, CyclicStep, NAssumption DEF NextUnfinished, ControlOK
  <2> QED BY <1>3, <2>1, ContinueType
<1>4. CASE Continue("spin") /\ UNCHANGED cur
  <2>1. cur' \in Steps
    BY <1>4 DEF ControlOK
  <2> QED BY <1>4, <2>1, ContinueType
<1> QED BY <1>1, <1>2, <1>3, <1>4 DEF Advance

LEMMA CheckType ==
  ASSUME ControlOK, pend \subseteq 0 .. Width - 1, ti \in 0 .. N - 1,
         NEW state, Check(ti, state)
  PROVE  /\ ControlOK'
         /\ pc' \in {"tick", "exited"}
         /\ pend' \subseteq 0 .. Width - 1
         /\ ti' \in 0 .. N
<1>1. CASE Stop("fail") /\ UNCHANGED <<pend, ti>>
  BY <1>1, StopType, NAssumption
<1>2. CASE /\ IF state[ti] = "results" THEN pend' \in Cleared(pend, ti)
                                       ELSE UNCHANGED pend
           /\ ti' = ti + 1
           /\ Continue("tick")
           /\ UNCHANGED cur
  <2>1. pend' \subseteq 0 .. Width - 1
    BY <1>2, ClearedType DEF Steps
  <2>2. ti' \in 0 .. N
    BY <1>2, NAssumption
  <2>3. ControlOK' /\ pc' = "tick"
    BY <1>2, ContinueType DEF ControlOK
  <2> QED BY <2>1, <2>2, <2>3
<1> QED BY <1>1, <1>2 DEF Check

------------------------------------------------------------------------------
(* Type correctness.  It needs to know that the time-out loop is at a step *)
(* while it is between the read and the check of one, and that the step    *)
(* which is parked, or written to after a read, is an asynchronous one.    *)

AsyncPoint ==
  /\ pc \in {"ticking", "checking"} => ti < N
  /\ pc = "parking" => Kind(cur) \in Async
  /\ pc = "ticking" => Kind(ti) \in Async

TypeInv == TypeOK /\ AsyncPoint

LEMMA TypeControl == ASSUME TypeOK PROVE ControlOK
BY DEF TypeOK, ControlOK, ChannelOK

LEMMA TypeInit == Init => TypeInv
<1> SUFFICES ASSUME Init PROVE TypeInv
  OBVIOUS
<1>1. pend \subseteq 0 .. Width - 1
  BY AllPendingType DEF Init
<1>2. cur \in Steps /\ ti \in 0 .. N
  BY NAssumption DEF Init, Steps
<1>3. frames \in 0 .. MaxFrames /\ faults \in 0 .. MaxFaults
  BY BoundAssumption DEF Init
<1>4. dev \in Seq(Messages) /\ res \in Seq(Messages)
  BY DEF Init
<1>5. st \in [Steps -> StepStates]
  BY DEF Init, StepStates
<1> QED BY <1>1, <1>2, <1>3, <1>4, <1>5
        DEF Init, TypeInv, TypeOK, AsyncPoint, Kind

(* The class of a step is one of the classes, and its target a step. *)
LEMMA KindType ==
  ASSUME plan \in Plans, NEW s \in Steps
  PROVE  /\ Kind(s) \in StepClasses
         /\ Target(s) # NoTarget => Target(s) \in Steps
<1>1. plan[s].kind \in Kinds /\ plan[s].target \in 0 .. N
  BY DEF Plans
<1> QED BY <1>1, KindsAssumption, NAssumption
        DEF Kind, Target, Steps, NoTarget

LEMMA StoppedWorkerType ==
  ASSUME TypeOK, NEW s
  PROVE  StoppedWorker(s) \in [Steps -> {"none", "running", "done"}]
BY DEF TypeOK, StoppedWorker

LEMMA TypeDrain ==
  ASSUME TypeInv,
         \/ ExecutePlain \/ ExecuteLogStop \/ ExecuteStatsStop
         \/ ExecuteAsync \/ ExecuteAsyncAgain \/ Park \/ Frame
  PROVE  TypeInv'
<1> USE DEF TypeInv, TypeOK
<1>0. ASSUME Pop PROVE res' \in Seq(Messages) /\ pc = "drain"
  BY <1>0 DEF Pop
<1>1. ASSUME CountExecution PROVE nexec' \in [Steps -> Nat]
  BY <1>1 DEF CountExecution
<1>2. CASE ExecutePlain
  <2>1. PICK o \in ExecuteOutcomes(Kind(cur)) :
          st' = [st EXCEPT ![cur] = IF o.ok THEN o.state ELSE "abort"]
    BY <1>2 DEF ExecutePlain
  <2>2. o.state \in StepStates
    BY <1>2, <2>1, ExecuteOutcomeType DEF ExecutePlain, StepStates
  <2>3. st' \in [Steps -> StepStates]
    BY <2>1, <2>2 DEF StepStates
  <2> QED BY <1>0, <1>1, <1>2, <2>3
      DEF ExecutePlain, threadVars, boundVars, AsyncPoint, Kind
<1>3. CASE ExecuteLogStop
  <2>1. st' \in [Steps -> StepStates]
    <3>1. \E x \in {"abort", "results"} : st' = [st EXCEPT ![cur] = x]
      BY <1>3, OutcomeStates DEF ExecuteLogStop
    <3> QED BY <3>1 DEF StepStates
  <2>2. worker' \in [Steps -> {"none", "running", "done"}]
    BY <1>3, StoppedWorkerType DEF ExecuteLogStop
  <2>3. res' \in Seq(Messages) /\ nexec' \in [Steps -> Nat]
    BY <1>0, <1>1, <1>3 DEF ExecuteLogStop
  <2>4. /\ UNCHANGED <<plan, cnt, pend, cur, ti, main, sub, dev, last, lost>>
        /\ UNCHANGED <<verdict, frames, faults>>
        /\ pc = "drain" /\ pc' = "drain"
    BY <1>0, <1>3 DEF ExecuteLogStop, threadVars, boundVars
  <2> QED BY <2>1, <2>2, <2>3, <2>4 DEF AsyncPoint
<1>4. CASE ExecuteStatsStop
  <2>1. st' \in [Steps -> StepStates]
    BY <1>4 DEF ExecuteStatsStop, StepStates
  <2>2. worker' \in [Steps -> {"none", "running", "done"}]
    BY <1>4, StoppedWorkerType DEF ExecuteStatsStop
  <2> QED BY <1>0, <1>1, <1>4, <2>1, <2>2
      DEF ExecuteStatsStop, threadVars, boundVars, AsyncPoint, Kind
<1>5. CASE ExecuteAsync
  <2>1. st' \in [Steps -> StepStates]
    BY <1>5 DEF ExecuteAsync, StepStates
  <2>2. worker' \in [Steps -> {"none", "running", "done"}]
    BY <1>5 DEF ExecuteAsync
  <2>3. pc' \in {"drain", "parking"}
    BY <1>5 DEF ExecuteAsync, Pop
  <2> QED BY <1>0, <1>1, <1>5, <2>1, <2>2, <2>3
      DEF ExecuteAsync, boundVars, AsyncPoint, Kind
<1>6. CASE ExecuteAsyncAgain
  <2>1. st' \in [Steps -> StepStates]
    BY <1>6 DEF ExecuteAsyncAgain, Parked, StepStates
  <2> QED BY <1>0, <1>1, <1>6, <2>1
      DEF ExecuteAsyncAgain, threadVars, boundVars, AsyncPoint, Kind
<1>7. CASE Park
  <2>1. st' \in [Steps -> StepStates]
    BY <1>7, ParkStatesType DEF Park, AsyncPoint
  <2> QED BY <1>7, <2>1 DEF Park, channelVars, boundVars, AsyncPoint, Kind
<1>8. CASE Frame
  <2>1. st' \in [Steps -> StepStates]
    BY <1>8 DEF Frame, Takers, StepStates
  <2> QED BY <1>0, <1>8, <2>1 DEF Frame, threadVars, boundVars, AsyncPoint, Kind
<1> QED BY <1>2, <1>3, <1>4, <1>5, <1>6, <1>7, <1>8

LEMMA TypeLoop ==
  ASSUME TypeInv,
         \/ Trigger \/ WakeDrain \/ WakeResults \/ WakeAbort \/ WakeTimeout
         \/ DrainEnd
  PROVE  TypeInv'
<1> USE DEF TypeInv, TypeOK
<1>0. ControlOK
  BY TypeControl
<1>1. CASE Trigger
  <2>1. ChannelOK'
    BY <1>0, <1>1, SendType DEF Trigger, ControlOK, Messages
  <2>2. st' \in [Steps -> StepStates]
    BY <1>1 DEF Trigger, StepStates
  <2> QED BY <1>1, <2>1, <2>2 DEF Trigger, ChannelOK, AsyncPoint, Kind
<1>2. CASE WakeDrain
  BY <1>2 DEF WakeDrain, stepVars, channelVars, boundVars, AsyncPoint, Kind
<1>3. CASE WakeResults
  <2>1. ControlOK' /\ pc' \in {"loop", "spin", "exited"}
    BY <1>0, <1>3, AdvanceType DEF WakeResults
  <2>2. pend' \subseteq 0 .. Width - 1
    BY <1>3, ClearedType DEF WakeResults
  <2> QED BY <1>3, <2>1, <2>2
      DEF WakeResults, ControlOK, ChannelOK, stepVars, AsyncPoint, Kind
<1>4. CASE WakeAbort
  <2>1. ControlOK' /\ pc' = "exited"
    BY <1>0, <1>4, StopType DEF WakeAbort
  <2> QED BY <1>4, <2>1
      DEF WakeAbort, ControlOK, ChannelOK, stepVars, AsyncPoint, Kind
<1>5. CASE WakeTimeout
  BY <1>5, NAssumption
     DEF WakeTimeout, stepVars, channelVars, boundVars, AsyncPoint, Kind
<1>6. CASE DrainEnd
  BY <1>6 DEF DrainEnd, stepVars, channelVars, boundVars, AsyncPoint, Kind
<1> QED BY <1>1, <1>2, <1>3, <1>4, <1>5, <1>6

LEMMA TypeTick ==
  ASSUME TypeInv,
         \/ TickPass \/ TickTimeout \/ TickAsyncRead \/ TickAsyncWrite
         \/ TickAsyncCheck \/ TickEnd
  PROVE  TypeInv'
<1> USE DEF TypeInv, TypeOK
<1>0. ControlOK
  BY TypeControl
<1>a. ASSUME ti < N PROVE ti \in 0 .. N - 1 /\ ti \in Steps
  BY <1>a, NAssumption DEF Steps
<1>1. CASE TickPass
  <2>1. /\ ControlOK' /\ pc' \in {"tick", "exited"}
        /\ pend' \subseteq 0 .. Width - 1 /\ ti' \in 0 .. N
    BY <1>0, <1>a, <1>1, CheckType DEF TickPass
  <2> QED BY <1>1, <2>1
      DEF TickPass, ControlOK, ChannelOK, stepVars, AsyncPoint, Kind
<1>2. CASE TickTimeout
  <2>1. /\ ControlOK' /\ pc' \in {"tick", "exited"}
        /\ pend' \subseteq 0 .. Width - 1 /\ ti' \in 0 .. N
    BY <1>0, <1>a, <1>2, CheckType DEF TickTimeout
  <2>2. PICK n : /\ n = IF Counts(Kind(ti)) THEN CountUp(cnt[ti]) ELSE cnt[ti]
                 /\ cnt' = [cnt EXCEPT ![ti] = n]
                 /\ st' = [st EXCEPT ![ti] =
                             TimeoutState(Kind(ti), @, n, Time)]
    BY <1>2 DEF TickTimeout
  <2>3. n \in 0 .. CountCap
    BY <1>a, <1>2, <2>2, CountUpType DEF TickTimeout
  <2>4. st' \in [Steps -> StepStates]
    <3>1. Kind(ti) \in Plain \cup Stops
      BY <1>a, <1>2, KindType DEF TickTimeout, StepClasses
    <3>2. TimeoutState(Kind(ti), st[ti], n, Time) \in StepStates
      BY <1>a, <1>2, <3>1, TimeoutStateType DEF TickTimeout
    <3> QED BY <2>2, <3>2
  <2>5. cnt' \in [Steps -> 0 .. CountCap]
    BY <2>2, <2>3
  <2> QED BY <1>2, <2>1, <2>4, <2>5
      DEF TickTimeout, ControlOK, ChannelOK, AsyncPoint, Kind
<1>3. CASE TickAsyncRead
  <2>1. cnt' \in [Steps -> 0 .. CountCap]
    BY <1>3, CountUpType DEF TickAsyncRead
  <2> QED BY <1>3, <2>1
      DEF TickAsyncRead, stepVars, channelVars, boundVars, AsyncPoint, Kind
<1>4. CASE TickAsyncWrite
  <2>1. st' \in [Steps -> StepStates]
    BY <1>4, TimeoutWriteType DEF TickAsyncWrite, AsyncPoint
  <2>2. worker' \in [Steps -> {"none", "running", "done"}]
    BY <1>4 DEF TickAsyncWrite
  <2> QED BY <1>4, <2>1, <2>2
      DEF TickAsyncWrite, channelVars, boundVars, AsyncPoint, Kind
<1>5. CASE TickAsyncCheck
  <2>1. ti < N
    BY <1>5 DEF TickAsyncCheck, AsyncPoint, Kind
  <2>2. /\ ControlOK' /\ pc' \in {"tick", "exited"}
        /\ pend' \subseteq 0 .. Width - 1 /\ ti' \in 0 .. N
    BY <1>0, <1>a, <1>5, <2>1, CheckType DEF TickAsyncCheck
  <2> QED BY <1>5, <2>2
      DEF TickAsyncCheck, ControlOK, ChannelOK, stepVars, AsyncPoint, Kind
<1>6. CASE TickEnd
  <2>1. ControlOK' /\ pc' \in {"loop", "spin", "exited"}
    <3>1. CASE Advance(st, pend)
      BY <1>0, <3>1, AdvanceType
    <3>2. CASE Continue("loop") /\ UNCHANGED cur
      BY <1>0, <3>2, ContinueType
    <3> QED BY <1>6, <3>1, <3>2 DEF TickEnd
  <2>2. ti' \in 0 .. N
    BY <1>6, NAssumption DEF TickEnd
  <2> QED BY <1>6, <2>1, <2>2
      DEF TickEnd, ControlOK, ChannelOK, stepVars, AsyncPoint, Kind
<1> QED BY <1>1, <1>2, <1>3, <1>4, <1>5, <1>6

LEMMA TypeOthers ==
  ASSUME TypeInv,
         \/ Deliver \/ DeliverStale \/ Subscribe \/ Join \/ EnvFrame
         \/ \E s \in Steps : WorkerStep(s)
  PROVE  TypeInv'
<1> USE DEF TypeInv, TypeOK
<1>1. ASSUME NEW m \in Messages, Push(m)
      PROVE  res' \in Seq(Messages) /\ lost' \in BOOLEAN
  <2>1. CASE sub
    <3>1. res' = Append(res, m) /\ lost' = lost
      BY <1>1, <2>1 DEF Push
    <3>2. lost' \in BOOLEAN
      BY <3>1, Zenon
    <3> QED BY <3>1, <3>2
  <2>2. CASE ~sub
    <3>1. lost' = (lost \/ m = "tstart") /\ UNCHANGED res
      BY <1>1, <2>2 DEF Push
    <3>2. lost' \in BOOLEAN
      BY <3>1, Zenon
    <3> QED BY <3>1, <3>2
  <2> QED BY <2>1, <2>2
<1>2. CASE Deliver
  <2>1. Head(dev) \in Messages /\ dev' \in Seq(Messages)
    BY <1>2 DEF Deliver
  <2>2. res' \in Seq(Messages) /\ lost' \in BOOLEAN
    BY <1>1, <1>2, <2>1 DEF Deliver
  <2> QED BY <1>2, <2>1, <2>2
      DEF Deliver, stepVars, threadVars, boundVars, AsyncPoint, Kind
<1>3. CASE DeliverStale
  <2>1. last \in Messages
    BY <1>3 DEF DeliverStale
  <2>2. res' \in Seq(Messages) /\ lost' \in BOOLEAN
    BY <1>1, <1>3, <2>1 DEF DeliverStale
  <2>3. faults' \in 0 .. MaxFaults
    BY <1>3, BoundAssumption DEF DeliverStale
  <2> QED BY <1>3, <2>2, <2>3
      DEF DeliverStale, stepVars, threadVars, AsyncPoint, Kind
<1>4. CASE Subscribe
  BY <1>4 DEF Subscribe, stepVars, threadVars, boundVars, AsyncPoint, Kind
<1>5. CASE Join
  BY <1>5 DEF Join, stepVars, threadVars, channelVars, boundVars, AsyncPoint,
              Kind
<1>6. CASE EnvFrame
  <2>1. dev' \in Seq(Messages)
    BY <1>6 DEF EnvFrame, Messages
  <2>2. frames' \in 0 .. MaxFrames
    BY <1>6, BoundAssumption DEF EnvFrame
  <2> QED BY <1>6, <2>1, <2>2
      DEF EnvFrame, stepVars, threadVars, AsyncPoint, Kind
<1>7. ASSUME NEW s \in Steps, WorkerStep(s) PROVE TypeInv'
  <2>1. st' \in [Steps -> StepStates]
    <3>1. st' = st \/ \E x \in {"results", "abort"} : st' = [st EXCEPT ![s] = x]
      BY <1>7, WorkerWritesType DEF WorkerStep
    <3> QED BY <3>1 DEF StepStates
  <2>2. worker' \in [Steps -> {"none", "running", "done"}]
    BY <1>7 DEF WorkerStep
  <2> QED BY <1>7, <2>1, <2>2
      DEF WorkerStep, threadVars, channelVars, boundVars, AsyncPoint, Kind
<1> QED BY <1>2, <1>3, <1>4, <1>5, <1>6, <1>7

LEMMA TypeStep == TypeInv /\ [Next]_vars => TypeInv'
<1> SUFFICES ASSUME TypeInv, [Next]_vars PROVE TypeInv'
  OBVIOUS
<1>1. CASE UNCHANGED vars
  BY <1>1 DEF TypeInv, TypeOK, AsyncPoint, Kind, vars, planVars, stepVars,
              threadVars, channelVars, boundVars
<1> QED BY <1>1, TypeLoop, TypeDrain, TypeTick, TypeOthers
        DEF Next, TestThread, MainThread, Terminated, Spin

(* Every variable keeps its type: the test thread never follows the queue   *)
(* of steps out of its bounds, whatever the order of messages and time-outs *)
(* and whatever pending_steps holds.                                        *)
THEOREM TypeCorrect == Spec => []TypeOK
<1>1. Init => TypeInv
  BY TypeInit
<1>2. TypeInv /\ [Next]_vars => TypeInv'
  BY TypeStep
<1>3. TypeInv => TypeOK
  BY DEF TypeInv
<1> QED BY <1>1, <1>2, <1>3, PTL DEF Spec

------------------------------------------------------------------------------
(* Serial steps run alone.  The write that ends the time-out of a step     *)
(* with a thread comes after its read, so the invariant must know that the *)
(* step it is about to park is still the current one or is forked.         *)

ParksCurrent == pc = "ticking" => ti \in Steps /\ (Fork(ti) \/ ti = cur)

SerialInv == TypeInv /\ SerialExclusive /\ ParksCurrent

(* As long as the current step stays current, and no other serial step is   *)
(* put in progress, serial steps run alone.                                 *)
LEMMA StaysExclusive ==
  ASSUME SerialExclusive, plan' = plan, cur' = cur,
         \A s \in Steps : s # cur /\ ~Fork(s) /\ st'[s] \in InProgress
                            => st[s] \in InProgress
  PROVE  SerialExclusive'
BY DEF SerialExclusive, Fork

(* The current step may be left when it has its results or is forked. *)
LEMMA LeavesExclusive ==
  ASSUME SerialExclusive, plan' = plan, st' = st, cur \in Steps,
         st[cur] = "results" \/ Fork(cur)
  PROVE  SerialExclusive'
BY DEF SerialExclusive, Fork, InProgress, Waiting

LEMMA SerialInit == Init => SerialInv
<1> SUFFICES ASSUME Init PROVE SerialInv
  OBVIOUS
<1>1. SerialExclusive
  BY DEF Init, SerialExclusive, InProgress, Waiting
<1> QED BY <1>1, TypeInit DEF SerialInv, ParksCurrent, Init

LEMMA SerialStep == SerialInv /\ [Next]_vars => SerialInv'
<1> SUFFICES ASSUME SerialInv, [Next]_vars PROVE SerialInv'
  OBVIOUS
<1>0. TypeInv' /\ TypeOK /\ SerialExclusive /\ ParksCurrent
  BY TypeStep DEF SerialInv, TypeInv
<1> SUFFICES SerialExclusive' /\ ParksCurrent'
  BY <1>0 DEF SerialInv
<1>t. /\ cur \in Steps
      /\ st \in [Steps -> StepStates]
  BY <1>0 DEF TypeOK
<1>1. CASE UNCHANGED vars
  BY <1>0, <1>1, StaysExclusive
     DEF vars, planVars, stepVars, threadVars, ParksCurrent, Fork
<1>2. CASE Trigger
  BY <1>0, <1>2, <1>t, StaysExclusive DEF Trigger, ParksCurrent
<1>3. CASE WakeDrain \/ WakeTimeout \/ DrainEnd
  BY <1>0, <1>3, StaysExclusive
     DEF WakeDrain, WakeTimeout, DrainEnd, stepVars, ParksCurrent
<1>4. CASE WakeResults
  <2>1. SerialExclusive'
    BY <1>0, <1>4, <1>t, LeavesExclusive DEF WakeResults, stepVars
  <2>2. pc' # "ticking"
    BY <1>4 DEF WakeResults, Advance, Stop, Continue
  <2> QED BY <2>1, <2>2 DEF ParksCurrent
<1>5. CASE WakeAbort
  BY <1>0, <1>5, StaysExclusive DEF WakeAbort, Stop, stepVars, ParksCurrent
<1>e. "results" \notin InProgress /\ "abort" \notin InProgress
  BY DEF InProgress, Waiting
<1>6. CASE ExecutePlain \/ ExecuteLogStop \/ ExecuteAsyncAgain
  <2>1. \A s \in Steps : s # cur => st'[s] = st[s]
    BY <1>6, <1>t DEF ExecutePlain, ExecuteLogStop, ExecuteAsyncAgain
  <2>2. pc' # "ticking" /\ cur' = cur /\ plan' = plan
    BY <1>6 DEF ExecutePlain, ExecuteLogStop, ExecuteAsyncAgain, Pop,
                threadVars
  <2> QED BY <1>0, <2>1, <2>2, StaysExclusive DEF ParksCurrent
<1>7. CASE ExecuteStatsStop
  <2>1. \A s \in Steps : s # cur => st'[s] \in {st[s], "results", "abort"}
    BY <1>7, <1>t DEF ExecuteStatsStop
  <2>2. pc' # "ticking" /\ cur' = cur /\ plan' = plan
    BY <1>7 DEF ExecuteStatsStop, Pop, threadVars
  <2> QED BY <1>0, <1>e, <2>1, <2>2, StaysExclusive DEF ParksCurrent
<1>8. CASE ExecuteAsync
  <2>1. \A s \in Steps : s # cur => st'[s] = st[s]
    BY <1>8, <1>t DEF ExecuteAsync
  <2>2. pc' # "ticking" /\ cur' = cur /\ plan' = plan
    BY <1>8 DEF ExecuteAsync, Pop
  <2> QED BY <1>0, <2>1, <2>2, StaysExclusive DEF ParksCurrent
<1>9. CASE Park
  <2>1. \A s \in Steps : s # cur => st'[s] = st[s]
    BY <1>9, <1>t DEF Park
  <2>2. pc' # "ticking" /\ cur' = cur /\ plan' = plan
    BY <1>9 DEF Park
  <2> QED BY <1>0, <2>1, <2>2, StaysExclusive DEF ParksCurrent
<1>10. CASE Frame
  <2>1. \A s \in Steps : st'[s] = st[s] \/ st'[s] = "results"
    BY <1>10, <1>t DEF Frame, Takers
  <2>2. pc' # "ticking" /\ cur' = cur /\ plan' = plan
    BY <1>10 DEF Frame, Pop, threadVars
  <2> QED BY <1>0, <1>e, <2>1, <2>2, StaysExclusive DEF ParksCurrent
<1>11. CASE TickPass \/ TickAsyncCheck
  <2>1. pc' # "ticking" /\ cur' = cur /\ st' = st /\ plan' = plan
    BY <1>11 DEF TickPass, TickAsyncCheck, Check, Stop, Continue, stepVars
  <2> QED BY <1>0, <2>1, StaysExclusive DEF ParksCurrent
<1>12. CASE TickTimeout
  <2>1. pc' # "ticking" /\ cur' = cur /\ plan' = plan
    BY <1>12 DEF TickTimeout, Check, Stop, Continue
  <2>2. \A s \in Steps : s = ti \/ st'[s] = st[s]
    BY <1>12, <1>t DEF TickTimeout
  <2>3. st[ti] \in InProgress
    BY <1>12, WaitingType DEF TickTimeout
  <2> QED BY <1>0, <2>1, <2>2, <2>3, StaysExclusive DEF ParksCurrent
<1>13. CASE TickAsyncRead
  <2>1. ti \in Steps
    BY <1>0, <1>13, NAssumption DEF TickAsyncRead, TypeOK, Steps
  <2>2. Fork(ti) \/ ti = cur
    BY <1>0, <1>13, <2>1, WaitingType DEF TickAsyncRead, SerialExclusive
  <2> QED BY <1>0, <1>13, <2>1, <2>2, StaysExclusive
      DEF TickAsyncRead, stepVars, ParksCurrent, Fork
<1>14. CASE TickAsyncWrite
  <2>1. pc' # "ticking" /\ cur' = cur /\ plan' = plan
    BY <1>14 DEF TickAsyncWrite
  <2>2. \A s \in Steps : s = ti \/ st'[s] = st[s]
    BY <1>14, <1>t DEF TickAsyncWrite
  <2>3. Fork(ti) \/ ti = cur
    BY <1>0, <1>14 DEF ParksCurrent, TickAsyncWrite
  <2> QED BY <1>0, <2>1, <2>2, <2>3, StaysExclusive DEF ParksCurrent
<1>15. CASE TickEnd
  <2>1. pc' # "ticking" /\ st' = st /\ plan' = plan
    BY <1>15 DEF TickEnd, Advance, Stop, Continue, stepVars
  <2>2. SerialExclusive'
    <3>1. CASE GivesWay(cur)
      BY <1>0, <1>t, <2>1, <3>1, LeavesExclusive DEF GivesWay
    <3>2. CASE cur' = cur
      BY <1>0, <2>1, <3>2, StaysExclusive
    <3> QED BY <1>15, <3>1, <3>2 DEF TickEnd
  <2> QED BY <2>1, <2>2 DEF ParksCurrent
<1>16. CASE Deliver \/ DeliverStale \/ Subscribe \/ Join \/ EnvFrame
  BY <1>0, <1>16, StaysExclusive
     DEF Deliver, DeliverStale, Subscribe, Join, EnvFrame, stepVars,
         threadVars, ParksCurrent, Fork
<1>17. ASSUME NEW h \in Steps, WorkerStep(h)
       PROVE  SerialExclusive' /\ ParksCurrent'
  <2>1. \A s \in Steps : st'[s] = st[s] \/ st'[s] \in {"results", "abort"}
    BY <1>17, <1>t, WorkerWritesType DEF WorkerStep
  <2> QED BY <1>0, <1>e, <1>17, <2>1, StaysExclusive
      DEF WorkerStep, threadVars, ParksCurrent, Fork
<1> QED BY <1>1, <1>2, <1>3, <1>4, <1>5, <1>6, <1>7, <1>8, <1>9, <1>10,
           <1>11, <1>12, <1>13, <1>14, <1>15, <1>16, <1>17
        DEF Next, TestThread, MainThread, Terminated, Spin

(* In every test case, with any mixture of forked steps, threads and faults *)
(* of the device, a step that is not forked is in progress only while       *)
(* get_current_step() returns it.                                           *)
THEOREM SerialStepsRunAlone == Spec => []SerialExclusive
<1>1. Init => SerialInv
  BY SerialInit
<1>2. SerialInv /\ [Next]_vars => SerialInv'
  BY SerialStep
<1>3. SerialInv => SerialExclusive
  BY DEF SerialInv
<1> QED BY <1>1, <1>2, <1>3, PTL DEF Spec

------------------------------------------------------------------------------
(* The subscription.  start() creates the test thread first and subscribes *)
(* the test after, and nothing orders the subscription before stop().  But *)
(* until the test is subscribed no message reaches it, so no step gets past *)
(* state start, no pending bit is cleared and the thread cannot end.       *)

Unstarted ==
  /\ ~sub
  /\ res = <<>>
  /\ pc \in {"loop", "tick"}
  /\ \A s \in Steps : st[s] \in {"request", "start"} /\ worker[s] = "none"
  /\ pend = Steps

SubInv ==
  /\ TypeInv
  /\ main = "create" => Unstarted
  /\ pc = "exited" => ~sub

LEMMA SubInit == ASSUME N < Width, Init PROVE SubInv
<1>1. pend = Steps
  BY DEF Init, AllPending
<1> QED BY <1>1, TypeInit DEF Init, SubInv, Unstarted

(* Before the subscription, the test thread neither ends nor gets a step on. *)
LEMMA UnstartedThread ==
  ASSUME TypeInv, Unstarted, TestThread
  PROVE  Unstarted'
<1> USE DEF Unstarted
<1>t. cur \in Steps /\ st \in [Steps -> StepStates] /\ Steps # {}
  BY DEF TypeInv, TypeOK
<1>1. CASE Trigger
  BY <1>1, <1>t DEF Trigger
<1>2. CASE WakeTimeout
  BY <1>2 DEF WakeTimeout, stepVars, channelVars
<1>3. CASE TickPass
  <2>1. ti \in Steps
    BY <1>3, NAssumption DEF TickPass, TypeInv, TypeOK, Steps
  <2>2. st[ti] # "abort" /\ st[ti] # "results"
    BY <2>1
  <2> QED BY <1>3, <2>2 DEF TickPass, Check, Continue, stepVars
<1>4. CASE TickEnd
  <2>1. CASE Advance(st, pend)
    <3>1. st[cur] # "results"
      BY <1>t
    <3> QED BY <1>4, <1>t, <2>1, <3>1
        DEF TickEnd, Advance, Continue, stepVars
  <2>2. CASE Continue("loop")
    BY <1>4, <2>2 DEF TickEnd, Continue, stepVars
  <2> QED BY <1>4, <2>1, <2>2 DEF TickEnd
<1>5. ~(WakeDrain \/ WakeResults \/ WakeAbort)
  BY <1>t DEF WakeDrain, WakeResults, WakeAbort
<1>6. ~(\/ DrainEnd \/ ExecutePlain \/ ExecuteLogStop \/ ExecuteStatsStop
        \/ ExecuteAsync \/ ExecuteAsyncAgain \/ Park \/ Frame)
  BY DEF DrainEnd, ExecutePlain, ExecuteLogStop, ExecuteStatsStop,
         ExecuteAsync, ExecuteAsyncAgain, Park, Frame, Pop
<1>7. ~(TickTimeout \/ TickAsyncRead)
  <2>1. ti \in 0 .. N
    BY DEF TypeInv, TypeOK
  <2>2. ti < N => st[ti] \notin Waiting
    BY <2>1, NAssumption DEF Steps, Waiting
  <2> QED BY <2>2 DEF TickTimeout, TickAsyncRead
<1>8. ~(TickAsyncWrite \/ TickAsyncCheck)
  BY DEF TickAsyncWrite, TickAsyncCheck
<1> QED BY <1>1, <1>2, <1>3, <1>4, <1>5, <1>6, <1>7, <1>8 DEF TestThread

(* The test thread unsubscribes whenever it ends, and does nothing after. *)
LEMMA ThreadUnsubscribes ==
  ASSUME TestThread
  PROVE  /\ main' = main
         /\ pc' = "exited" => ~sub'
<1> USE DEF Stop, Continue, Advance, Check
<1>1. CASE Trigger \/ WakeDrain \/ WakeTimeout \/ DrainEnd
  BY <1>1 DEF Trigger, WakeDrain, WakeTimeout, DrainEnd
<1>2. CASE WakeResults \/ WakeAbort
  BY <1>2 DEF WakeResults, WakeAbort
<1>3. CASE \/ ExecutePlain \/ ExecuteLogStop \/ ExecuteStatsStop
           \/ ExecuteAsync \/ ExecuteAsyncAgain \/ Park \/ Frame
  BY <1>3 DEF ExecutePlain, ExecuteLogStop, ExecuteStatsStop, ExecuteAsync,
              ExecuteAsyncAgain, Park, Frame, Pop, threadVars
<1>4. CASE TickPass \/ TickTimeout \/ TickAsyncCheck
  BY <1>4 DEF TickPass, TickTimeout, TickAsyncCheck
<1>5. CASE TickAsyncRead \/ TickAsyncWrite \/ TickEnd
  BY <1>5 DEF TickAsyncRead, TickAsyncWrite, TickEnd
<1> QED BY <1>1, <1>2, <1>3, <1>4, <1>5 DEF TestThread

LEMMA SubStep == SubInv /\ [Next]_vars => SubInv'
<1> SUFFICES ASSUME SubInv, [Next]_vars PROVE SubInv'
  OBVIOUS
<1>0. TypeInv /\ TypeInv'
  BY TypeStep DEF SubInv
<1>1. CASE UNCHANGED vars
  BY <1>0, <1>1 DEF SubInv, Unstarted, vars, stepVars, threadVars, channelVars
<1>2. CASE TestThread
  BY <1>0, <1>2, UnstartedThread, ThreadUnsubscribes DEF SubInv
<1>3. CASE Deliver \/ DeliverStale \/ EnvFrame
  BY <1>0, <1>3 DEF SubInv, Unstarted, Deliver, DeliverStale, EnvFrame, Push,
                    stepVars, threadVars
<1>4. CASE Subscribe
  BY <1>0, <1>4 DEF SubInv, Unstarted, Subscribe, threadVars
<1>5. CASE Join
  BY <1>0, <1>5 DEF SubInv, Join, threadVars, channelVars
<1>6. ASSUME NEW s \in Steps, WorkerStep(s) PROVE SubInv'
  BY <1>0, <1>6 DEF SubInv, Unstarted, WorkerStep, threadVars, channelVars
<1> QED BY <1>1, <1>2, <1>3, <1>4, <1>5, <1>6
        DEF Next, MainThread, Terminated, Spin

(* With fewer steps than pending_steps has bits, the end of the test thread *)
(* never overtakes start(): the message manager is not left with a test     *)
(* that is over.                                                            *)
THEOREM NoSubscriptionLeft ==
  ASSUME N < Width
  PROVE  Spec => []NoDanglingSubscription
<1>1. Init => SubInv
  BY SubInit
<1>2. SubInv /\ [Next]_vars => SubInv'
  BY SubStep
<1>3. SubInv => NoDanglingSubscription
  BY DEF SubInv, Unstarted, NoDanglingSubscription
<1> QED BY <1>1, <1>2, <1>3, PTL DEF Spec
=============================================================================
