--------------------------- MODULE ExtTestProofs -----------------------------
(***************************************************************************)
(* Theorems about ExtTest, for every number of steps, clients, interfaces,  *)
(* test cases and failures.  That only ended tests are deleted holds with   *)
(* every kind of failure and a gateway that need not be patient; that the   *)
(* agent works on the present test case only needs a gateway that lets the  *)
(* agent settle between two cases, and no lost answer or stop request.      *)
(* That the results the gateway takes are of this case, and that a step the *)
(* agent has finished is delivered, need the period of a second on both     *)
(* sides, too, and a case with one step at most that starts the agent.      *)
(***************************************************************************)
EXTENDS ExtTest, FiniteSetTheorems, SequenceTheorems, WellFoundedInduction, TLAPS

LastSignals == sigs \cap DeletingStates

(* A thread that has not ended has an object and has sent no last signal,   *)
(* and of the two last signals there is one at most: when the object is     *)
(* deleted none is left that could delete the next one.                    *)
DeletionInv ==
  /\ thr \in {"start", "run", "report"} => obj /\ LastSignals = {}
  /\ LastSignals # {} => obj /\ thr = "over"
  /\ ~ (DeletingStates \subseteq sigs)

objVars == <<obj, thr, sigs>>

LEMMA ObjUnchanged ==
  ASSUME DeletionInv, UNCHANGED objVars
  PROVE  DeletionInv'
BY DEF DeletionInv, objVars, LastSignals

LEMMA DeletionInit == Init => DeletionInv
BY DEF Init, AgentInit, DeletionInv, LastSignals, DeletingStates

(* agent_start() makes an object only when there is none, and then no last  *)
(* signal is on its way.                                                   *)
LEMMA StartKeepsObject ==
  ASSUME DeletionInv, NEW started, agent_start(started)
  PROVE  DeletionInv' /\ (obj => obj')
<1>1. CASE obj
  BY <1>1, ObjUnchanged DEF agent_start, NewTest, testVars, objVars
<1>2. CASE ~obj
  <2>1. LastSignals = {} /\ sigs' = sigs
    BY <1>2 DEF agent_start, NewTest, DeletionInv
  <2>2. obj' /\ thr' \in {"start", "none"}
    BY <1>2 DEF agent_start, NewTest
  <2> QED BY <1>2, <2>1, <2>2 DEF DeletionInv, LastSignals
<1> QED BY <1>1, <1>2

(* Of the gateway's requests only the start changes what is looked at here. *)
LEMMA GatewayKeepsObject ==
  ASSUME DeletionInv, Gateway
  PROVE  DeletionInv' /\ (obj => obj')
<1>1. CASE AgentUnchanged \/ agent_stop
           \/ \E job, written : agent_endpoint_testconfig(job, written)
  <2>1. UNCHANGED objVars
    BY <1>1 DEF AgentUnchanged, agentVars, agent_stop,
                agent_endpoint_testconfig, testVars, objVars
  <2> QED BY <2>1, ObjUnchanged DEF objVars
<1>2. CASE \E started : agent_start(started)
  BY <1>2, StartKeepsObject
<1>3. ASSUME NEW s \in Steps, BeginSta(s) \/ BeginEth(s) \/ BeginIperf(s)
      PROVE  AgentUnchanged \/ \E started : agent_start(started)
  BY <1>3 DEF BeginSta, BeginEth, BeginIperf, StartSent, StartFailed, Unanswered
<1>4. ASSUME NEW s \in Steps, GetStatus(s) \/ SendStop(s) \/ step_remove(s)
      PROVE  AgentUnchanged \/ agent_stop
  BY <1>4 DEF GetStatus, SendStop, step_remove, StopSent, Unanswered
<1>5. ASSUME NEW s \in Steps, PostConfig(s)
      PROVE  AgentUnchanged
             \/ \E job, written : agent_endpoint_testconfig(job, written)
  BY <1>5 DEF PostConfig, Posted, NotPosted, Unanswered
<1>6. ASSUME (\E s \in Steps : step_timeout(s)) \/ TestEnds \/ NextCase
      PROVE  AgentUnchanged
  BY <1>6 DEF step_timeout, TestEnds, NextCase
<1> QED BY <1>1, <1>2, <1>3, <1>4, <1>5, <1>6 DEF Gateway

(* The main thread: a last signal is one of a thread that has ended, and it *)
(* takes the object and the only last signal with it.                      *)
LEMMA MainDeletesEnded ==
  ASSUME DeletionInv, ext_emu_state_machine
  PROVE  DeletionInv' /\ (obj /\ ~obj' => thr = "over")
<1>1. PICK sig \in sigs :
        /\ sigs' = sigs \ {sig}
        /\ IF sig \in DeletingStates /\ obj THEN obj' = FALSE
           ELSE UNCHANGED obj
  BY DEF ext_emu_state_machine
<1>2. thr' = thr
  BY DEF ext_emu_state_machine
<1>3. CASE sig \in DeletingStates
  <2>1. obj /\ thr = "over" /\ ~obj'
    BY <1>1, <1>3 DEF DeletionInv, LastSignals
  <2>2. LastSignals' = {}
    BY <1>1, <1>3 DEF DeletionInv, LastSignals, DeletingStates
  <2>3. DeletionInv'
    BY <1>2, <2>1, <2>2 DEF DeletionInv, LastSignals, DeletingStates
  <2> QED BY <2>1, <2>3
<1>4. CASE sig \notin DeletingStates
  <2>1. LastSignals' = LastSignals /\ obj' = obj
    BY <1>1, <1>4 DEF LastSignals
  <2> QED BY <1>1, <1>2, <2>1 DEF DeletionInv, LastSignals
<1> QED BY <1>3, <1>4

(* What a running thread of a test sends: one last signal when it ends.     *)
LEMMA LastSignalIsSent ==
  ASSUME DeletionInv, thr = "run", obj' = obj, thr' = "over",
         NEW sig \in DeletingStates, sigs' = Signalled(sig)
  PROVE  DeletionInv'
<1>1. obj /\ LastSignals = {}
  BY DEF DeletionInv
<1>2. LastSignals' \subseteq {sig}
  BY <1>1 DEF LastSignals, Signalled
<1>3. ~ (DeletingStates \subseteq sigs')
  BY <1>2 DEF LastSignals, DeletingStates
<1> QED BY <1>1, <1>3 DEF DeletionInv, LastSignals

LEMMA OtherSignalIsSent ==
  ASSUME DeletionInv, thr \in {"start", "run"}, obj' = obj,
         thr' \in {"run", "report"},
         NEW sig, sig \notin DeletingStates, sigs' \in {sigs, Signalled(sig)}
  PROVE  DeletionInv'
<1>1. obj /\ LastSignals = {}
  BY DEF DeletionInv
<1>2. LastSignals' = {}
  BY <1>1 DEF LastSignals, Signalled
<1> QED BY <1>1, <1>2 DEF DeletionInv, LastSignals, DeletingStates

LEMMA ThreadKeepsObject ==
  ASSUME DeletionInv, TestThread \/ TestTicks
  PROVE  DeletionInv' /\ obj' = obj
<1>1. CASE TestStarts
  <2>1. thr = "start" /\ thr' = "run" /\ obj' = obj
        /\ sigs' = Signalled("ready")
    BY <1>1 DEF TestStarts
  <2> QED BY <2>1, OtherSignalIsSent DEF DeletingStates
<1>2. CASE process_msg
  <2>1. CASE test_stop
    <3>1. thr = "run" /\ thr' = "over" /\ obj' = obj
          /\ sigs' = Signalled("idle")
      BY <1>2, <2>1 DEF process_msg, test_stop
    <3> QED BY <3>1, LastSignalIsSent DEF DeletingStates
  <2>2. CASE UNCHANGED <<sigs, obj, thr, own, dangling, linked>>
    BY <2>2, ObjUnchanged DEF objVars
  <2> QED BY <1>2, <2>1, <2>2 DEF process_msg
<1>3. CASE TestReports
  BY <1>3 DEF TestReports, DeletionInv, LastSignals
<1>4. CASE TestCleans
  BY <1>4, ObjUnchanged DEF TestCleans, testVars, objVars
<1>5. CASE TestTicks
  <2>1. thr = "run" /\ obj' = obj
    BY <1>5 DEF TestTicks
  <2>2. PICK steps : TestFails(steps) \/ TestGoesOn(steps)
    BY <1>5 DEF TestTicks
  <2>3. CASE TestFails(steps)
    <3>1. thr' = "over" /\ sigs' = Signalled("fail")
      BY <2>3 DEF TestFails
    <3> QED BY <2>1, <3>1, LastSignalIsSent DEF DeletingStates
  <2>4. CASE TestGoesOn(steps)
    <3>1. /\ thr' = "report"
          /\ \/ sigs' \in {sigs, Signalled("complete")}
             \/ sigs' \in {sigs, Signalled("running")}
      BY <2>4 DEF TestGoesOn
    <3> QED BY <2>1, <3>1, OtherSignalIsSent DEF DeletingStates
  <2> QED BY <2>2, <2>3, <2>4, <2>1
<1> QED BY <1>1, <1>2, <1>3, <1>4, <1>5 DEF TestThread

LEMMA DeletionStep ==
  ASSUME DeletionInv, [Next]_vars
  PROVE  DeletionInv' /\ (obj /\ ~obj' => thr = "over")
<1>1. CASE Gateway
  BY <1>1, GatewayKeepsObject
<1>2. CASE Main
  BY <1>2, MainDeletesEnded DEF Main
<1>3. CASE Second \/ Thread
  BY <1>3, ThreadKeepsObject DEF Second, Thread
<1>4. CASE Handler
  BY <1>4, ObjUnchanged DEF Handler, HandlerReads, objVars
<1>5. CASE Events
  BY <1>5, ObjUnchanged DEF Events, sta_connection_status, testVars, objVars
<1>6. CASE Over \/ UNCHANGED vars
  BY <1>6, ObjUnchanged DEF Over, vars, agentVars, testVars, objVars
<1> QED BY <1>1, <1>2, <1>3, <1>4, <1>5, <1>6 DEF Next

(* ext_emu_state_machine() deletes a test object only when its thread has   *)
(* sent its last signal, however requests, signals and failures interleave. *)
THEOREM OnlyEndedTestsAreDeleted == Spec => DeletesOnlyEnded
<1>1. DeletionInv /\ [Next]_vars => DeletionInv'
  BY DeletionStep
<1>2. DeletionInv /\ [Next]_vars => [obj /\ ~obj' => thr = "over"]_vars
  BY DeletionStep
<1> QED BY <1>1, <1>2, DeletionInit, PTL DEF Spec, DeletesOnlyEnded

------------------------------------------------------------------------------
(* Sequences of messages: what is appended, what is taken from the front,   *)
(* and where the commands to stop and to close are.                         *)
LEMMA AppendType ==
  ASSUME NEW S, NEW q \in Seq(S), NEW e \in S
  PROVE  /\ Append(q, e) \in Seq(S)
         /\ DOMAIN Append(q, e) = DOMAIN q \cup {Len(q) + 1}
         /\ DOMAIN q = 1 .. Len(q) /\ Len(q) \in Nat
         /\ \A i \in DOMAIN q : Append(q, e)[i] = q[i]
         /\ Append(q, e)[Len(q) + 1] = e
         /\ Append(q, e) # <<>>
<1>1. Append(q, e) \in Seq(S) /\ Len(Append(q, e)) = Len(q) + 1 /\ Len(q) \in Nat
  OBVIOUS
<1>2. DOMAIN Append(q, e) = 1 .. Len(q) + 1 /\ DOMAIN q = 1 .. Len(q)
  OBVIOUS
<1>3. 1 .. Len(q) + 1 = 1 .. Len(q) \cup {Len(q) + 1}
  BY <1>1
<1>4. /\ \A i \in 1 .. Len(q) : Append(q, e)[i] = q[i]
      /\ Append(q, e)[Len(q) + 1] = e
  OBVIOUS
<1>5. Append(q, e) # <<>>
  BY <1>1
<1> QED BY <1>1, <1>2, <1>3, <1>4, <1>5

LEMMA TailType ==
  ASSUME NEW S, NEW q \in Seq(S), q # <<>>
  PROVE  /\ Tail(q) \in Seq(S) /\ Head(q) \in S /\ Head(q) = q[1]
         /\ DOMAIN q = 1 .. Len(q) /\ Len(q) \in Nat \ {0}
         /\ DOMAIN Tail(q) = 1 .. Len(q) - 1
         /\ \A i \in DOMAIN Tail(q) : Tail(q)[i] = q[i + 1]
<1>1. /\ Tail(q) \in Seq(S) /\ Head(q) \in S /\ Head(q) = q[1]
      /\ Len(q) \in Nat \ {0} /\ Len(Tail(q)) = Len(q) - 1
      /\ \A i \in 1 .. Len(Tail(q)) : Tail(q)[i] = q[i + 1]
  OBVIOUS
<1>2. DOMAIN q = 1 .. Len(q) /\ DOMAIN Tail(q) = 1 .. Len(Tail(q))
  BY <1>1
<1> QED BY <1>1, <1>2

Places(q, type) == {i \in DOMAIN q : q[i].type = type}

LEMMA AppendAt ==
  ASSUME NEW q \in Seq(Messages), NEW m \in Messages, NEW type
  PROVE  Places(Append(q, m), type)
         = IF m.type = type THEN Places(q, type) \cup {Len(q) + 1}
           ELSE Places(q, type)
<1>1. /\ DOMAIN Append(q, m) = DOMAIN q \cup {Len(q) + 1}
      /\ DOMAIN q = 1 .. Len(q) /\ Len(q) \in Nat
      /\ \A i \in DOMAIN q : Append(q, m)[i] = q[i]
      /\ Append(q, m)[Len(q) + 1] = m
  BY AppendType
<1>2. Len(q) + 1 \notin DOMAIN q
  BY <1>1
<1> QED BY <1>1, <1>2 DEF Places

LEMMA TailAt ==
  ASSUME NEW q \in Seq(Messages), q # <<>>, NEW type, NEW i \in Nat
  PROVE  i \in Places(Tail(q), type) <=> i # 0 /\ i + 1 \in Places(q, type)
<1>1. /\ DOMAIN q = 1 .. Len(q) /\ Len(q) \in Nat \ {0}
      /\ DOMAIN Tail(q) = 1 .. Len(q) - 1
      /\ \A j \in DOMAIN Tail(q) : Tail(q)[j] = q[j + 1]
  BY TailType
<1>2. i \in DOMAIN Tail(q) <=> i # 0 /\ i + 1 \in DOMAIN q
  BY <1>1
<1> QED BY <1>1, <1>2 DEF Places

LEMMA AtType ==
  ASSUME NEW q \in Seq(Messages), NEW type
  PROVE  Places(q, type) \in SUBSET (Nat \ {0}) /\ IsFiniteSet(Places(q, type))
<1>1. DOMAIN q = 1 .. Len(q) /\ Len(q) \in Nat
  OBVIOUS
<1>2. IsFiniteSet(1 .. Len(q))
  BY <1>1, FS_Interval
<1>3. Places(q, type) \in SUBSET (1 .. Len(q))
  BY <1>1 DEF Places
<1>4. IsFiniteSet(Places(q, type))
  BY <1>2, <1>3, FS_Subset
<1>5. 1 .. Len(q) \subseteq Nat \ {0}
  BY <1>1
<1> QED BY <1>3, <1>4, <1>5

(* The close messages are as many as the handlers that have still to end.   *)
LEMMA AppendCount ==
  ASSUME NEW q \in Seq(Messages), NEW m \in Messages, NEW type
  PROVE  Cardinality(Places(Append(q, m), type))
         = Cardinality(Places(q, type)) + (IF m.type = type THEN 1 ELSE 0)
<1>1. IsFiniteSet(Places(q, type)) /\ Cardinality(Places(q, type)) \in Nat
  BY AtType, FS_CardinalityType
<1>2. Len(q) + 1 \notin Places(q, type)
  BY AppendType DEF Places
<1>3. Cardinality(Places(q, type) \cup {Len(q) + 1}) = Cardinality(Places(q, type)) + 1
  BY <1>1, <1>2, FS_AddElement
<1>4. Places(Append(q, m), type)
      = IF m.type = type THEN Places(q, type) \cup {Len(q) + 1}
        ELSE Places(q, type)
  BY AppendAt
<1>5. CASE m.type = type
  BY <1>3, <1>4, <1>5
<1>6. CASE m.type # type
  BY <1>1, <1>4, <1>6
<1> QED BY <1>5, <1>6

LEMMA TailCount ==
  ASSUME NEW q \in Seq(Messages), q # <<>>, NEW type
  PROVE  Cardinality(Places(Tail(q), type))
         = Cardinality(Places(q, type)) - (IF Head(q).type = type THEN 1 ELSE 0)
<1> DEFINE A == Places(q, type)
           B == Places(Tail(q), type)
           f == [i \in B |-> i + 1]
<1>0. Tail(q) \in Seq(Messages) /\ 1 \in DOMAIN q /\ Head(q) = q[1]
  BY TailType
<1>1. /\ A \in SUBSET (Nat \ {0}) /\ IsFiniteSet(A)
      /\ B \in SUBSET (Nat \ {0}) /\ IsFiniteSet(B)
  BY <1>0, AtType
<1>2. \A i \in Nat : i \in B <=> i # 0 /\ i + 1 \in A
  BY TailAt
<1>3. f \in Bijection(B, A \ {1})
  <2>1. f \in [B -> A \ {1}]
    BY <1>1, <1>2
  <2>2. \A i, j \in B : f[i] = f[j] => i = j
    BY <1>1
  <2>3. \A k \in A \ {1} : \E i \in B : f[i] = k
    <3> SUFFICES ASSUME NEW k \in A \ {1} PROVE k - 1 \in B /\ f[k - 1] = k
      OBVIOUS
    <3>1. k - 1 \in Nat /\ k - 1 # 0 /\ (k - 1) + 1 = k
      BY <1>1
    <3> QED BY <1>2, <3>1
  <2> QED BY <2>1, <2>2, <2>3 DEF Bijection, Injection, Surjection, IsInjective
<1>4. Cardinality(B) = Cardinality(A \ {1})
  <2>1. ExistsBijection(B, A \ {1})
    BY <1>3 DEF ExistsBijection
  <2> QED BY <1>1, <2>1, FS_Bijection
<1>5. Cardinality(A \ {1}) = IF 1 \in A THEN Cardinality(A) - 1 ELSE Cardinality(A)
  BY <1>1, FS_RemoveElement
<1>6. 1 \in A <=> Head(q).type = type
  BY <1>0 DEF Places
<1>7. Cardinality(A) \in Nat
  BY <1>1, FS_CardinalityType
<1> QED BY <1>4, <1>5, <1>6, <1>7

------------------------------------------------------------------------------
(* The types of what the messages carry.  An interface a step takes is one  *)
(* of the agent, because a set of numbers has a least element.              *)
LEMMA LeastNumber ==
  ASSUME NEW T \in SUBSET Nat, T # {}
  PROVE  \E x \in T : \A y \in T : x <= y
<1> DEFINE I == {0 .. x : x \in T}
<1>1. I \subseteq FiniteSubsetsOf(Nat) /\ I # {}
  <2>1. \A x \in T : IsFiniteSet(0 .. x)
    BY FS_Interval
  <2>2. \A x \in T : 0 .. x \in SUBSET Nat
    OBVIOUS
  <2> QED BY <2>1, <2>2 DEF FiniteSubsetsOf
<1>2. PICK i \in I : \A j \in I : <<j, i>> \notin StrictSubsetOrdering(Nat)
  <2> HIDE DEF I
  <2> QED BY <1>1, FS_StrictSubsetOrderingWellFounded, WFMin
<1>3. PICK x \in T : i = 0 .. x
  OBVIOUS
<1>4. ASSUME NEW y \in T PROVE x <= y
  <2>1. <<0 .. y, 0 .. x>> \notin StrictSubsetOrdering(Nat)
    BY <1>2, <1>3
  <2>2. x \in Nat /\ y \in Nat /\ 0 .. x \in SUBSET Nat /\ 0 .. y \in SUBSET Nat
    OBVIOUS
  <2>3. ~(0 .. y \subseteq 0 .. x /\ 0 .. y # 0 .. x)
    BY <2>1, <2>2 DEF StrictSubsetOrdering
  <2>4. y < x => 0 .. y \subseteq 0 .. x /\ x \in 0 .. x /\ x \notin 0 .. y
    BY <2>2
  <2> QED BY <2>2, <2>3, <2>4
<1> QED BY <1>4

StepRecords ==
  [job : Jobs, st : AgentStepStates, cnt : Nat, dev : 0 .. NDevs,
   mapped : BOOLEAN, assoc : BOOLEAN, ip : BOOLEAN]

WireTypes ==
  /\ dev \in Seq(Messages) /\ msgs \in Seq(Messages)
  /\ asteps \in Seq(StepRecords)
  /\ hdlrs \in Nat
  /\ m_state \in AgentStates /\ sigs \in SUBSET AgentStates
  /\ case \in 1 .. MaxCases
  /\ keyed \in SUBSET Steps

LEMMA WireTypesInit == Init => WireTypes
<1>1. 1 \in 1 .. MaxCases
  BY AgentAssumption
<1> QED BY <1>1 DEF Init, AgentInit, GatewayInit, WireTypes, AgentStates

LEMMA FreeDev ==
  ASSUME FreeDevs # {}
  PROVE  find_first_free_dev \in 0 .. NDevs
<1>1. FreeDevs \in SUBSET Nat /\ FreeDevs \subseteq 0 .. NDevs
  BY AgentAssumption DEF FreeDevs, Devs
<1>2. \E d \in FreeDevs : \A e \in FreeDevs : d <= e
  BY <1>1, LeastNumber
<1> QED BY <1>1, <1>2 DEF find_first_free_dev

LEMMA NewStepType ==
  ASSUME NEW job \in Jobs, NEW st \in AgentStepStates, NEW d \in 0 .. NDevs
  PROVE  NewStep(job, st, d) \in StepRecords /\ NewStep(job, st, d).job = job
         /\ NewStep(job, st, d).st = st
BY DEF NewStep, StepRecords

LEMMA Commands ==
  ASSUME NEW m \in Messages
  PROVE  m.type = "data" => m.job \in Jobs
BY DEF Messages

LEMMA WrittenType ==
  ASSUME WireTypes, NEW m \in Messages
  PROVE  Written(m) \in {dev, Append(dev, m)} /\ Written(m) \in Seq(Messages)
BY AppendType DEF WireTypes, Written

(* A change of the steps in place: none comes or goes, and each remains the *)
(* step of its job.                                                        *)
SameJobs(steps, others) ==
  /\ steps \in Seq(StepRecords)
  /\ DOMAIN steps = DOMAIN others
  /\ \A i \in DOMAIN others : steps[i].job = others[i].job

LEMMA MappedSteps ==
  ASSUME asteps \in Seq(StepRecords), NEW f,
         f = [i \in DOMAIN asteps |-> f[i]],
         \A i \in DOMAIN asteps : f[i] \in StepRecords /\ f[i].job = asteps[i].job
  PROVE  SameJobs(f, asteps)
<1>1. DOMAIN asteps = 1 .. Len(asteps) /\ Len(asteps) \in Nat
  OBVIOUS
<1>2. f \in Seq(StepRecords)
  BY <1>1
<1>3. DOMAIN f = DOMAIN asteps
  OBVIOUS
<1> QED BY <1>2, <1>3 DEF SameJobs

LEMMA SameSteps ==
  ASSUME WireTypes
  PROVE  SameJobs(asteps, asteps)
BY DEF WireTypes, SameJobs

(* What the test thread does to its steps: a configuration adds one, frames *)
(* and time-outs change them in place.                                     *)
LEMMA ExceptType ==
  ASSUME NEW step \in StepRecords
  PROVE  /\ \A st \in AgentStepStates :
              LET t == [step EXCEPT !.st = st]
              IN t \in StepRecords /\ t.job = step.job /\ t.st = st
         /\ LET t == [step EXCEPT !.assoc = TRUE]
            IN t \in StepRecords /\ t.job = step.job /\ t.st = step.st
         /\ LET t == [step EXCEPT !.assoc = FALSE, !.mapped = FALSE]
            IN t \in StepRecords /\ t.job = step.job /\ t.st = step.st
         /\ LET t == [step EXCEPT !.ip = TRUE]
            IN t \in StepRecords /\ t.job = step.job /\ t.st = step.st
         /\ \A cnt \in Nat, st \in AgentStepStates :
              LET t == [step EXCEPT !.cnt = cnt, !.st = st]
              IN t \in StepRecords /\ t.job = step.job /\ t.st = st
BY DEF StepRecords

LEMMA ExecuteEffect ==
  ASSUME WireTypes, NEW job \in Jobs, wlan_ext_step_execute(job)
  PROVE  \E steps, e : /\ SameJobs(steps, asteps)
                       /\ e \in StepRecords /\ e.job = job
                       /\ asteps' = Append(steps, e)
<1>1. /\ None \in 0 .. NDevs
      /\ {"abort", "continue", "results", "wait"} \subseteq AgentStepStates
      /\ ForkState(job.num) \in AgentStepStates
  BY AgentAssumption DEF None, AgentStepStates, ForkState
<1>2. SameJobs(asteps, asteps)
  BY SameSteps
<1>3. CASE ExecuteFails(job)
  <2>1. asteps' = Append(asteps, NewStep(job, "abort", None))
    BY <1>3 DEF ExecuteFails
  <2> QED BY <1>1, <1>2, <2>1, NewStepType
<1>4. CASE add_sta(job)
  <2>1. asteps' = Append(asteps, NewStep(job, "continue", find_first_free_dev))
        /\ find_first_free_dev \in 0 .. NDevs
    BY <1>4, FreeDev DEF add_sta
  <2> QED BY <1>1, <1>2, <2>1, NewStepType
<1>5. CASE ExecutePlain(job)
  <2>1. asteps' = Append(asteps, NewStep(job, ForkState(job.num), None))
    BY <1>5 DEF ExecutePlain
  <2> QED BY <1>1, <1>2, <2>1, NewStepType
<1>6. CASE ExecuteStop(job)
  <2> DEFINE f == [i \in DOMAIN asteps |->
                     IF i \in ToStop(job)
                     THEN [asteps[i] EXCEPT !.st = "results"] ELSE asteps[i]]
  <2>1. asteps' = Append(f, NewStep(job, "results", None))
    BY <1>6 DEF ExecuteStop
  <2>2. asteps \in Seq(StepRecords)
    BY DEF WireTypes
  <2>3. \A i \in DOMAIN asteps : asteps[i] \in StepRecords
    BY <2>2
  <2>4. \A i \in DOMAIN asteps : f[i] \in StepRecords /\ f[i].job = asteps[i].job
    BY <1>1, <2>3, ExceptType
  <2>5. f = [i \in DOMAIN asteps |-> f[i]]
    OBVIOUS
  <2>6. SameJobs(f, asteps)
    <3> HIDE DEF f
    <3> QED BY <2>2, <2>4, <2>5, MappedSteps
  <2> HIDE DEF f
  <2> QED BY <1>1, <2>1, <2>6, NewStepType
<1> QED BY <1>3, <1>4, <1>5, <1>6 DEF wlan_ext_step_execute

LEMMA FrameEffect ==
  ASSUME WireTypes, NEW m \in Messages, wlan_ext_step_frame_filter(m)
  PROVE  SameJobs(asteps', asteps)
<1>1. asteps \in Seq(StepRecords) /\ \A i \in DOMAIN asteps : asteps[i] \in StepRecords
  BY DEF WireTypes
<1>2. SameJobs(asteps, asteps)
  BY SameSteps
<1>3. ASSUME NEW d, Joined(d) PROVE SameJobs(asteps', asteps)
  <2> DEFINE f == [i \in DOMAIN asteps |->
                     IF i \in Of(d) THEN [asteps[i] EXCEPT !.assoc = TRUE]
                     ELSE asteps[i]]
  <2>1. asteps' = f
    BY <1>3 DEF Joined
  <2>2. \A i \in DOMAIN asteps : f[i] \in StepRecords /\ f[i].job = asteps[i].job
    BY <1>1, ExceptType
  <2>3. f = [i \in DOMAIN asteps |-> f[i]]
    OBVIOUS
  <2> HIDE DEF f
  <2> QED BY <1>1, <2>1, <2>2, <2>3, MappedSteps
<1>4. ASSUME NEW d, Deauth(d) PROVE SameJobs(asteps', asteps)
  <2> DEFINE leaving == {i \in Of(d) : asteps[i].assoc}
             f == [i \in DOMAIN asteps |->
                     IF i \in leaving
                     THEN [asteps[i] EXCEPT !.assoc = FALSE, !.mapped = FALSE]
                     ELSE asteps[i]]
  <2>1. asteps' = f
    BY <1>4 DEF Deauth
  <2>2. \A i \in DOMAIN asteps : f[i] \in StepRecords /\ f[i].job = asteps[i].job
    BY <1>1, ExceptType
  <2>3. f = [i \in DOMAIN asteps |-> f[i]]
    OBVIOUS
  <2> HIDE DEF f
  <2> QED BY <1>1, <2>1, <2>2, <2>3, MappedSteps
<1>5. ASSUME NEW d, Connected(d) PROVE SameJobs(asteps', asteps)
  <2>1. CASE asteps' = asteps
    BY <1>2, <2>1
  <2>2. CASE asteps' # asteps
    <3>1. PICK i : \/ asteps' = [asteps EXCEPT ![i].ip = TRUE]
                   \/ asteps' = [asteps EXCEPT ![i].st = "abort"]
      BY <1>5, <2>2 DEF Connected
    <3> DEFINE t == IF asteps' = [asteps EXCEPT ![i].ip = TRUE]
                    THEN [asteps[i] EXCEPT !.ip = TRUE]
                    ELSE [asteps[i] EXCEPT !.st = "abort"]
               f == [j \in DOMAIN asteps |-> IF j = i THEN t ELSE asteps[j]]
    <3>2. asteps' = f
      BY <3>1
    <3>3. i \in DOMAIN asteps => t \in StepRecords /\ t.job = asteps[i].job
      BY <1>1, ExceptType DEF AgentStepStates
    <3>4. \A j \in DOMAIN asteps : f[j] \in StepRecords /\ f[j].job = asteps[j].job
      <4> HIDE DEF t
      <4> QED BY <1>1, <3>3
    <3>5. f = [j \in DOMAIN asteps |-> f[j]]
      OBVIOUS
    <3> HIDE DEF f
    <3> QED BY <1>1, <3>2, <3>4, <3>5, MappedSteps
  <2> QED BY <2>1, <2>2
<1> QED BY <1>3, <1>4, <1>5 DEF wlan_ext_step_frame_filter

LEMMA TimeoutEffect ==
  ASSUME WireTypes, NEW over
  PROVE  SameJobs([i \in DOMAIN asteps |->
                     wlan_ext_step_timeout(asteps[i], over)], asteps)
<1> DEFINE f == [i \in DOMAIN asteps |-> wlan_ext_step_timeout(asteps[i], over)]
<1>1. asteps \in Seq(StepRecords) /\ \A i \in DOMAIN asteps : asteps[i] \in StepRecords
  BY DEF WireTypes
<1>2. ASSUME NEW step \in StepRecords
      PROVE  LET t == wlan_ext_step_timeout(step, over)
             IN t \in StepRecords /\ t.job = step.job
  <2> DEFINE cnt == step.cnt + 1
             st == IF cnt >= Time \/ step.job \in over THEN "results"
                   ELSE IF Is(step.job.num, "sta") /\ ~step.ip THEN "continue"
                   ELSE ForkState(step.job.num)
  <2>1. cnt \in Nat
    BY DEF StepRecords
  <2>2. st \in AgentStepStates
    BY DEF AgentStepStates, ForkState
  <2>3. wlan_ext_step_timeout(step, over)
        = IF Open(step) THEN [step EXCEPT !.cnt = cnt, !.st = st] ELSE step
    BY DEF wlan_ext_step_timeout
  <2> HIDE DEF cnt, st
  <2>4. [step EXCEPT !.cnt = cnt, !.st = st] \in StepRecords
        /\ [step EXCEPT !.cnt = cnt, !.st = st].job = step.job
    BY <2>1, <2>2 DEF StepRecords
  <2> QED BY <2>3, <2>4
<1>3. \A i \in DOMAIN asteps : f[i] \in StepRecords /\ f[i].job = asteps[i].job
  BY <1>1, <1>2
<1>4. f = [i \in DOMAIN asteps |-> f[i]]
  OBVIOUS
<1>5. SameJobs(f, asteps)
  <2> HIDE DEF f
  <2> QED BY <1>1, <1>3, <1>4, MappedSteps
<1> QED BY <1>5

------------------------------------------------------------------------------
(* What one step does to the messages, the steps and the signals.           *)
WireTypesPart ==
  /\ dev \in Seq(Messages) /\ msgs \in Seq(Messages)
  /\ asteps \in Seq(StepRecords)
  /\ hdlrs \in Nat
  /\ m_state \in AgentStates /\ sigs \in SUBSET AgentStates

LEMMA SignalledType ==
  ASSUME WireTypes, NEW sig \in AgentStates
  PROVE  Signalled(sig) \in SUBSET AgentStates
BY DEF WireTypes, Signalled

(* The calls of the gateway, and what it does to its own part.              *)
Calls ==
  \/ AgentUnchanged
  \/ agent_stop
  \/ \E started \in BOOLEAN : agent_start(started)
  \/ \E s \in Steps, written \in BOOLEAN :
       agent_endpoint_testconfig(Job(s), written)

LEMMA GatewayCalls ==
  ASSUME WireTypes, Gateway
  PROVE  Calls /\ case' \in 1 .. MaxCases /\ keyed' \in SUBSET Steps
<1>1. case \in 1 .. MaxCases /\ keyed \in SUBSET Steps
  BY DEF WireTypes
<1>2. ASSUME NEW s \in Steps, BeginSta(s) \/ BeginEth(s) \/ BeginIperf(s)
      PROVE  Calls /\ case' = case /\ keyed' \in {keyed, keyed \cup {s}}
  BY <1>2 DEF BeginSta, BeginEth, BeginIperf, StartSent, StartFailed, Unanswered,
              Calls
<1>3. ASSUME NEW s \in Steps,
             GetStatus(s) \/ SendStop(s) \/ step_remove(s) \/ step_timeout(s)
      PROVE  Calls /\ case' = case /\ keyed' = keyed
  BY <1>3 DEF GetStatus, SendStop, step_remove, step_timeout, StopSent,
              Unanswered, Calls
<1>4. ASSUME NEW s \in Steps, PostConfig(s)
      PROVE  Calls /\ case' = case /\ keyed' \in {keyed, keyed \cup {s}}
  BY <1>4 DEF PostConfig, Posted, NotPosted, Unanswered, Calls
<1>5. ASSUME TestEnds
      PROVE  Calls /\ case' = case /\ keyed' = keyed
  BY <1>5 DEF TestEnds, Calls
<1>6. ASSUME NextCase
      PROVE  Calls /\ case' = case + 1 /\ case < MaxCases /\ keyed' = {}
  BY <1>6 DEF NextCase, Calls
<1>7. case < MaxCases => case + 1 \in 1 .. MaxCases
  BY <1>1, AgentAssumption
<1> QED BY <1>1, <1>2, <1>3, <1>4, <1>5, <1>6, <1>7 DEF Gateway

LEMMA JobType ==
  ASSUME WireTypes, NEW s \in Steps
  PROVE  Job(s) \in Jobs /\ Job(s).case = case
BY DEF WireTypes, Job, Jobs

LEMMA Commanded ==
  /\ [type |-> "stop"] \in Messages /\ [type |-> "close"] \in Messages
  /\ \A job \in Jobs : [type |-> "data", job |-> job] \in Messages
  /\ \A d \in Devs : /\ [type |-> "joined", dev |-> d] \in Messages
                     /\ [type |-> "deauth", dev |-> d] \in Messages
                     /\ [type |-> "connected", dev |-> d] \in Messages
BY DEF Messages

LEMMA CallTypes ==
  ASSUME WireTypes, Calls
  PROVE  WireTypesPart'
<1>1. CASE AgentUnchanged
  BY <1>1 DEF AgentUnchanged, agentVars, testVars, deviceVars, WireTypes,
              WireTypesPart
<1>2. CASE agent_stop
  <2>1. dev' \in {dev, Written([type |-> "stop"])}
        /\ UNCHANGED <<msgs, asteps, hdlrs, m_state, sigs>>
    BY <1>2 DEF agent_stop, testVars
  <2>2. Written([type |-> "stop"]) \in Seq(Messages)
    BY Commanded, WrittenType
  <2> QED BY <2>1, <2>2 DEF WireTypes, WireTypesPart
<1>3. ASSUME NEW started \in BOOLEAN, agent_start(started) PROVE WireTypesPart'
  <2>1. /\ dev' = dev /\ m_state' = m_state /\ sigs' = sigs
        /\ msgs' \in {msgs, <<>>} /\ asteps' \in {asteps, <<>>}
        /\ hdlrs' \in {hdlrs, hdlrs + 1}
    BY <1>3 DEF agent_start, NewTest, testVars
  <2>2. <<>> \in Seq(Messages) /\ <<>> \in Seq(StepRecords)
    OBVIOUS
  <2>3. hdlrs' \in Nat
    BY <2>1 DEF WireTypes
  <2>4. msgs' \in Seq(Messages) /\ asteps' \in Seq(StepRecords)
    BY <2>1, <2>2 DEF WireTypes
  <2> QED BY <2>1, <2>3, <2>4 DEF WireTypes, WireTypesPart
<1>4. ASSUME NEW s \in Steps, NEW written \in BOOLEAN,
             agent_endpoint_testconfig(Job(s), written)
      PROVE  WireTypesPart'
  <2>1. dev' \in {dev, Written([type |-> "data", job |-> Job(s)])}
        /\ UNCHANGED <<msgs, asteps, hdlrs, m_state, sigs>>
    BY <1>4 DEF agent_endpoint_testconfig, testVars
  <2>2. Written([type |-> "data", job |-> Job(s)]) \in Seq(Messages)
    BY Commanded, JobType, WrittenType
  <2> QED BY <2>1, <2>2 DEF WireTypes, WireTypesPart
<1> QED BY <1>1, <1>2, <1>3, <1>4 DEF Calls

LEMMA ThreadTypes ==
  ASSUME WireTypes, TestThread \/ TestTicks
  PROVE  WireTypesPart'
<1>0. AgentStates = {"idle", "ready", "running", "complete", "fail"}
      /\ <<>> \in Seq(Messages) /\ <<>> \in Seq(StepRecords)
  BY DEF AgentStates
<1>1. CASE TestStarts
  <2>1. sigs' = Signalled("ready") /\ UNCHANGED <<dev, msgs, asteps, hdlrs, m_state>>
    BY <1>1 DEF TestStarts, deviceVars
  <2> QED BY <1>0, <2>1, SignalledType DEF WireTypes, WireTypesPart
<1>2. CASE process_msg
  <2>1. msgs # <<>> /\ UNCHANGED <<dev, hdlrs, m_state>>
    BY <1>2 DEF process_msg, deviceVars
  <2>2. Head(msgs) \in Messages /\ Tail(msgs) \in Seq(Messages)
    BY <2>1, TailType DEF WireTypes
  <2>3. CASE test_stop
    <3>1. msgs' = <<>> /\ asteps' = <<>> /\ sigs' = Signalled("idle")
      BY <2>3 DEF test_stop
    <3> QED BY <1>0, <2>1, <3>1, SignalledType DEF WireTypes, WireTypesPart
  <2>4. CASE /\ \/ /\ Head(msgs).type = "data"
                   /\ wlan_ext_step_execute(Head(msgs).job)
                \/ wlan_ext_step_frame_filter(Head(msgs))
             /\ msgs' = Tail(msgs)
             /\ sigs' = sigs
    <3>1. asteps' \in Seq(StepRecords)
      <4>1. CASE wlan_ext_step_frame_filter(Head(msgs))
        BY <2>2, <4>1, FrameEffect DEF SameJobs
      <4>2. CASE Head(msgs).type = "data" /\ wlan_ext_step_execute(Head(msgs).job)
        <5>1. Head(msgs).job \in Jobs
          BY <2>2, <4>2, Commands
        <5>2. PICK steps, e : /\ SameJobs(steps, asteps)
                              /\ e \in StepRecords
                              /\ asteps' = Append(steps, e)
          BY <4>2, <5>1, ExecuteEffect
        <5>3. steps \in Seq(StepRecords)
          BY <5>2 DEF SameJobs
        <5> QED BY <5>2, <5>3, AppendType
      <4> QED BY <2>4, <4>1, <4>2
    <3> QED BY <2>1, <2>2, <2>4, <3>1 DEF WireTypes, WireTypesPart
  <2> QED BY <1>2, <2>3, <2>4 DEF process_msg
<1>3. CASE TestReports \/ TestCleans
  BY <1>3 DEF TestReports, TestCleans, testVars, deviceVars, WireTypes,
              WireTypesPart
<1>4. CASE TestTicks
  <2>1. UNCHANGED <<dev, msgs, hdlrs, m_state>>
    BY <1>4 DEF TestTicks, deviceVars
  <2>2. PICK over : LET steps == [i \in DOMAIN asteps |->
                                    wlan_ext_step_timeout(asteps[i], over)]
                    IN TestFails(steps) \/ TestGoesOn(steps)
    BY <1>4 DEF TestTicks
  <2> DEFINE steps == [i \in DOMAIN asteps |->
                         wlan_ext_step_timeout(asteps[i], over)]
  <2>3. SameJobs(steps, asteps)
    BY TimeoutEffect
  <2> HIDE DEF steps
  <2>4. CASE TestFails(steps)
    <3>1. asteps' = <<>> /\ sigs' = Signalled("fail")
      BY <2>4 DEF TestFails
    <3> QED BY <1>0, <2>1, <3>1, SignalledType DEF WireTypes, WireTypesPart
  <2>5. CASE TestGoesOn(steps)
    <3>1. asteps' = steps /\ sigs' \in {sigs, Signalled("complete"), Signalled("running")}
      BY <2>5 DEF TestGoesOn
    <3>2. asteps' \in Seq(StepRecords)
      BY <2>3, <3>1 DEF SameJobs
    <3> QED BY <1>0, <2>1, <3>1, <3>2, SignalledType DEF WireTypes, WireTypesPart
  <2> QED BY <2>2, <2>4, <2>5 DEF steps
<1> QED BY <1>1, <1>2, <1>3, <1>4 DEF TestThread

LEMMA HeardType ==
  ASSUME WireTypes, NEW d \in Devs, NEW frame \in {"joined", "deauth"},
         Heard(frame, d)
  PROVE  LET m == [type |-> frame, dev |-> d]
             n == [type |-> "connected", dev |-> d]
         IN /\ m \in Messages /\ n \in Messages
            /\ Append(dev, m) \in Seq(Messages)
            /\ dev' \in {dev, Append(Append(dev, m), n)}
            /\ hdlrs = 0 => dev' = dev
<1> DEFINE m == [type |-> frame, dev |-> d]
           n == [type |-> "connected", dev |-> d]
<1>1. m \in Messages /\ n \in Messages
  BY Commanded
<1>2. dev \in Seq(Messages)
  BY DEF WireTypes
<1>3. dev' = IF hdlrs = 0 THEN dev ELSE dev \o <<m, n>>
  BY DEF Heard
<1> HIDE DEF m, n
<1>4. dev \o <<m, n>> = Append(Append(dev, m), n)
  BY <1>1, <1>2
<1>5. Append(dev, m) \in Seq(Messages)
  BY <1>1, <1>2
<1>6. /\ m \in Messages /\ n \in Messages
      /\ Append(dev, m) \in Seq(Messages)
      /\ dev' \in {dev, Append(Append(dev, m), n)}
      /\ hdlrs = 0 => dev' = dev
  BY <1>1, <1>3, <1>4, <1>5
<1> QED BY <1>6 DEF m, n

LEMMA WireTypesStep ==
  ASSUME WireTypes, [Next]_vars
  PROVE  WireTypes'
<1>0. WireTypes' <=> WireTypesPart' /\ case' \in 1 .. MaxCases /\ keyed' \in SUBSET Steps
  BY DEF WireTypes, WireTypesPart
<1>1. CASE Gateway
  BY <1>0, <1>1, GatewayCalls, CallTypes
<1>2. UNCHANGED <<case, keyed>> => case' \in 1 .. MaxCases /\ keyed' \in SUBSET Steps
  BY DEF WireTypes
<1>3. CASE Second \/ Thread
  BY <1>0, <1>2, <1>3, ThreadTypes DEF Second, Thread, gatewayVars
<1>4. CASE Main
  <2>1. ext_emu_state_machine /\ UNCHANGED <<case, keyed>>
    BY <1>4 DEF Main, gatewayVars
  <2>2. PICK sig \in sigs : sigs' = sigs \ {sig} /\ m_state' = sig
    BY <2>1 DEF ext_emu_state_machine
  <2>3. /\ dev' \in {dev, Written([type |-> "close"])}
        /\ msgs' \in {msgs, <<>>}
        /\ UNCHANGED <<asteps, hdlrs>>
    BY <2>1 DEF ext_emu_state_machine
  <2>4. Written([type |-> "close"]) \in Seq(Messages) /\ <<>> \in Seq(Messages)
    BY Commanded, WrittenType
  <2>5. WireTypesPart'
    BY <2>2, <2>3, <2>4 DEF WireTypes, WireTypesPart
  <2> QED BY <1>0, <1>2, <2>1, <2>5
<1>5. CASE Handler
  <2>1. HandlerReads /\ UNCHANGED <<case, keyed>>
    BY <1>5 DEF Handler, gatewayVars
  <2>2. dev # <<>> /\ hdlrs > 0 /\ UNCHANGED <<asteps, m_state, sigs>>
    BY <2>1 DEF HandlerReads
  <2>3. Head(dev) \in Messages /\ Tail(dev) \in Seq(Messages)
        /\ <<>> \in Seq(Messages) /\ Append(msgs, Head(dev)) \in Seq(Messages)
    BY <2>2, TailType, AppendType DEF WireTypes
  <2>4. /\ dev' \in {Tail(dev), <<>>}
        /\ msgs' \in {msgs, Append(msgs, Head(dev))}
        /\ hdlrs' \in {hdlrs, hdlrs - 1}
    BY <2>1 DEF HandlerReads, queue_msg, Close
  <2>5. hdlrs' \in Nat /\ dev' \in Seq(Messages) /\ msgs' \in Seq(Messages)
    <3>1. hdlrs \in Nat /\ msgs \in Seq(Messages)
      BY DEF WireTypes
    <3>2. hdlrs' \in Nat
      BY <2>2, <2>4, <3>1
    <3>3. dev' \in Seq(Messages) /\ msgs' \in Seq(Messages)
      BY <2>3, <2>4, <3>1
    <3> QED BY <3>2, <3>3
  <2>6. WireTypesPart'
    BY <2>2, <2>5 DEF WireTypes, WireTypesPart
  <2> QED BY <1>0, <1>2, <2>1, <2>6
<1>6. CASE Events
  <2>1. PICK d \in Devs : sta_connection_status(d)
    BY <1>6 DEF Events
  <2>2. UNCHANGED <<msgs, asteps, hdlrs, m_state, sigs, case, keyed>>
    BY <1>6, <2>1 DEF Events, sta_connection_status, testVars, gatewayVars
  <2>3. Heard("joined", d) \/ Heard("deauth", d)
    BY <2>1 DEF sta_connection_status
  <2>4. dev' \in Seq(Messages)
    <3>1. PICK frame \in {"joined", "deauth"} : Heard(frame, d)
      BY <2>3
    <3> DEFINE m == [type |-> frame, dev |-> d]
               n == [type |-> "connected", dev |-> d]
    <3>2. /\ n \in Messages /\ Append(dev, m) \in Seq(Messages)
          /\ dev' \in {dev, Append(Append(dev, m), n)}
      BY <3>1, HeardType
    <3>3. dev \in Seq(Messages)
      BY DEF WireTypes
    <3> HIDE DEF m, n
    <3>4. Append(Append(dev, m), n) \in Seq(Messages)
      BY <3>2, AppendType
    <3> QED BY <3>2, <3>3, <3>4
  <2>5. WireTypesPart'
    BY <2>2, <2>4 DEF WireTypes, WireTypesPart
  <2> QED BY <1>0, <1>2, <2>2, <2>5
<1>7. CASE Over \/ UNCHANGED vars
  <2>1. UNCHANGED <<dev, msgs, asteps, hdlrs, m_state, sigs, case, keyed>>
    BY <1>7 DEF Over, vars, agentVars, testVars, deviceVars, gatewayVars
  <2> QED BY <2>1 DEF WireTypes
<1> QED BY <1>1, <1>3, <1>4, <1>5, <1>6, <1>7 DEF Next

------------------------------------------------------------------------------
(* Every object has a handler, which ends when it reads the close message   *)
(* that was written when the object was deleted.  So the handler of a test  *)
(* that runs does not end, and what is written for the test arrives.        *)
Drops == DeviceKeeps = FALSE

CountInv ==
  /\ hdlrs = Cardinality(Places(dev, "close")) + (IF obj THEN 1 ELSE 0)
  /\ hdlrs = 0 => dev = <<>>

Live == thr \in {"start", "run", "report"}

LiveInv ==
  /\ Live => own
  /\ ~Live => asteps = <<>>

LEMMA WrittenCount ==
  ASSUME Drops, WireTypes, CountInv,
         NEW m \in Messages, m.type # "close",
         dev' \in {dev, Written(m)}, UNCHANGED <<hdlrs, obj>>
  PROVE  CountInv'
<1>1. CASE dev' = dev
  BY <1>1 DEF CountInv
<1>2. CASE dev' # dev
  <2>1. dev' = Append(dev, m) /\ hdlrs > 0
    BY <1>2 DEF Written, Drops
  <2>2. Cardinality(Places(dev', "close")) = Cardinality(Places(dev, "close")) + 0
    BY <2>1, AppendCount DEF WireTypes
  <2>3. Cardinality(Places(dev, "close")) \in Nat
    BY AtType, FS_CardinalityType DEF WireTypes
  <2>4. hdlrs' # 0
    BY <2>1 DEF WireTypes
  <2> QED BY <2>2, <2>3, <2>4 DEF CountInv
<1> QED BY <1>1, <1>2

LEMMA CountStep ==
  ASSUME Drops, WireTypes, CountInv, [Next]_vars
  PROVE  CountInv'
<1>0. /\ dev \in Seq(Messages) /\ hdlrs \in Nat
      /\ Cardinality(Places(dev, "close")) \in Nat
  BY AtType, FS_CardinalityType DEF WireTypes
<1>1. CASE Gateway
  <2>1. Calls
    BY <1>1, GatewayCalls
  <2>2. CASE AgentUnchanged
    BY <2>2 DEF AgentUnchanged, agentVars, testVars, deviceVars, CountInv
  <2>3. CASE agent_stop
    <3>1. dev' \in {dev, Written([type |-> "stop"])} /\ UNCHANGED <<hdlrs, obj>>
      BY <2>3 DEF agent_stop, testVars
    <3> QED BY <3>1, Commanded, WrittenCount
  <2>4. ASSUME NEW started \in BOOLEAN, agent_start(started) PROVE CountInv'
    <3>1. CASE obj
      BY <2>4, <3>1 DEF agent_start, NewTest, testVars, CountInv
    <3>2. CASE ~obj
      <4>1. dev' = dev /\ hdlrs' = hdlrs + 1 /\ obj'
        BY <2>4, <3>2 DEF agent_start, NewTest
      <4> QED BY <1>0, <3>2, <4>1 DEF CountInv
    <3> QED BY <3>1, <3>2
  <2>5. ASSUME NEW s \in Steps, NEW written \in BOOLEAN,
               agent_endpoint_testconfig(Job(s), written)
        PROVE  CountInv'
    <3> DEFINE m == [type |-> "data", job |-> Job(s)]
    <3>1. dev' \in {dev, Written(m)} /\ UNCHANGED <<hdlrs, obj>>
      BY <2>5 DEF agent_endpoint_testconfig, testVars
    <3>2. m \in Messages /\ m.type # "close"
      BY Commanded, JobType
    <3> HIDE DEF m
    <3> QED BY <3>1, <3>2, WrittenCount
  <2> QED BY <2>1, <2>2, <2>3, <2>4, <2>5 DEF Calls
<1>2. CASE Second \/ Thread
  <2>1. UNCHANGED <<dev, hdlrs, obj>>
    BY <1>2, ThreadKeepsObject
       DEF Second, Thread, TestThread, TestTicks, TestStarts, process_msg,
           test_stop, TestReports, TestCleans, testVars, deviceVars
  <2> QED BY <2>1 DEF CountInv
<1>3. CASE Main
  <2>1. ext_emu_state_machine /\ hdlrs' = hdlrs
    BY <1>3 DEF Main, ext_emu_state_machine
  <2>2. CASE UNCHANGED <<obj, dev>>
    BY <2>1, <2>2 DEF CountInv
  <2>3. CASE obj /\ obj' = FALSE /\ dev' = Written([type |-> "close"])
    <3>1. hdlrs > 0
      BY <1>0, <2>3 DEF CountInv
    <3>2. dev' = Append(dev, [type |-> "close"])
      BY <2>3, <3>1 DEF Written
    <3>3. Cardinality(Places(dev', "close")) = Cardinality(Places(dev, "close")) + 1
      BY <1>0, <3>2, Commanded, AppendCount
    <3> QED BY <1>0, <2>1, <2>3, <3>1, <3>3 DEF CountInv
  <2> QED BY <2>1, <2>2, <2>3 DEF ext_emu_state_machine
<1>4. CASE Handler
  <2>1. HandlerReads /\ dev # <<>> /\ hdlrs > 0 /\ obj' = obj
    BY <1>4 DEF Handler, HandlerReads
  <2>2. Cardinality(Places(Tail(dev), "close"))
        = Cardinality(Places(dev, "close"))
          - (IF Head(dev).type = "close" THEN 1 ELSE 0)
    BY <1>0, <2>1, TailCount
  <2>3. CASE Head(dev).type # "close"
    <3>1. dev' = Tail(dev) /\ hdlrs' = hdlrs
      BY <2>1, <2>3 DEF HandlerReads, queue_msg
    <3> QED BY <1>0, <2>1, <2>2, <2>3, <3>1 DEF CountInv
  <2>4. CASE Head(dev).type = "close"
    <3>1. /\ hdlrs' = hdlrs - 1
          /\ dev' = IF hdlrs > 1 THEN Tail(dev) ELSE <<>>
      BY <2>1, <2>4 DEF HandlerReads, Close, Drops
    <3>2. CASE hdlrs > 1
      BY <1>0, <2>1, <2>2, <2>4, <3>1, <3>2 DEF CountInv
    <3>3. CASE ~(hdlrs > 1)
      <4>1. 1 \in Places(dev, "close")
        BY <1>0, <2>1, <2>4, TailType DEF Places
      <4>2. Cardinality(Places(dev, "close")) # 0
        BY <1>0, <4>1, AtType, FS_EmptySet
      <4>3. ~obj
        BY <1>0, <2>1, <3>3, <4>2 DEF CountInv
      <4>4. dev' = <<>> /\ hdlrs' = 0
        BY <1>0, <2>1, <3>1, <3>3
      <4>5. Places(<<>>, "close") = {}
        BY DEF Places
      <4>6. Cardinality(Places(dev', "close")) = 0
        BY <4>4, <4>5, FS_EmptySet
      <4> QED BY <2>1, <4>3, <4>4, <4>6 DEF CountInv
    <3> QED BY <3>2, <3>3
  <2> QED BY <2>3, <2>4
<1>5. CASE Events
  <2>1. PICK d \in Devs : sta_connection_status(d)
    BY <1>5 DEF Events
  <2>2. UNCHANGED <<hdlrs, obj>>
    BY <2>1 DEF sta_connection_status, testVars
  <2>3. PICK frame \in {"joined", "deauth"} : Heard(frame, d)
    BY <2>1 DEF sta_connection_status
  <2> DEFINE m == [type |-> frame, dev |-> d]
             n == [type |-> "connected", dev |-> d]
  <2>4. /\ m \in Messages /\ n \in Messages
        /\ Append(dev, m) \in Seq(Messages)
        /\ dev' \in {dev, Append(Append(dev, m), n)}
        /\ hdlrs = 0 => dev' = dev
    BY <2>3, HeardType
  <2>5. m.type # "close" /\ n.type # "close"
    OBVIOUS
  <2> HIDE DEF m, n
  <2>6. Cardinality(Places(Append(dev, m), "close"))
        = Cardinality(Places(dev, "close")) + 0
    BY <1>0, <2>4, <2>5, AppendCount
  <2>7. Cardinality(Places(Append(Append(dev, m), n), "close"))
        = Cardinality(Places(Append(dev, m), "close")) + 0
    BY <2>4, <2>5, AppendCount
  <2>8. Cardinality(Places(dev', "close")) = Cardinality(Places(dev, "close"))
    <3>1. CASE dev' = dev
      BY <3>1
    <3>2. CASE dev' = Append(Append(dev, m), n)
      BY <1>0, <2>6, <2>7, <3>2
    <3> QED BY <2>4, <3>1, <3>2
  <2>9. hdlrs' = 0 => dev' = <<>>
    BY <2>2, <2>4 DEF CountInv
  <2> QED BY <2>2, <2>8, <2>9 DEF CountInv
<1>6. CASE Over \/ UNCHANGED vars
  BY <1>6 DEF Over, vars, agentVars, testVars, deviceVars, CountInv
<1> QED BY <1>1, <1>2, <1>3, <1>4, <1>5, <1>6 DEF Next

LEMMA LiveStep ==
  ASSUME DeletionInv, WireTypes, LiveInv, [Next]_vars
  PROVE  LiveInv'
<1>1. CASE Gateway
  <2>1. Calls
    BY <1>1, GatewayCalls
  <2>2. ASSUME UNCHANGED <<thr, own, asteps>> PROVE LiveInv'
    BY <2>2 DEF LiveInv, Live
  <2>3. ASSUME NEW started \in BOOLEAN, agent_start(started) PROVE LiveInv'
    <3>1. CASE obj
      BY <2>2, <2>3, <3>1 DEF agent_start, NewTest, testVars
    <3>2. CASE ~obj
      BY <2>3, <3>2 DEF agent_start, NewTest, LiveInv, Live
    <3> QED BY <3>1, <3>2
  <2> QED BY <2>1, <2>2, <2>3
       DEF Calls, AgentUnchanged, agentVars, testVars, agent_stop,
           agent_endpoint_testconfig
<1>2. CASE Main
  <2>1. ext_emu_state_machine
    BY <1>2 DEF Main
  <2>2. UNCHANGED <<thr, asteps>>
    BY <2>1 DEF ext_emu_state_machine
  <2>3. Live => own' = own
    <3>1. SUFFICES ASSUME Live PROVE own' = own
      OBVIOUS
    <3>2. LastSignals = {}
      BY <3>1 DEF Live, DeletionInv
    <3> QED BY <2>1, <3>2 DEF ext_emu_state_machine, LastSignals
  <2> QED BY <2>2, <2>3 DEF LiveInv, Live
<1>3. CASE Thread \/ Second
  <2>1. CASE TestStarts
    BY <2>1 DEF TestStarts, LiveInv, Live
  <2>2. CASE process_msg
    <3>1. thr = "run"
      BY <2>2 DEF process_msg
    <3>2. CASE test_stop
      BY <3>2 DEF test_stop, LiveInv, Live
    <3>3. CASE UNCHANGED <<sigs, obj, thr, own, dangling, linked>>
      BY <3>1, <3>3 DEF LiveInv, Live
    <3> QED BY <2>2, <3>2, <3>3 DEF process_msg
  <2>3. CASE TestReports
    BY <2>3 DEF TestReports, LiveInv, Live
  <2>4. CASE TestCleans
    BY <2>4 DEF TestCleans, testVars, LiveInv, Live
  <2>5. CASE TestTicks
    <3>1. thr = "run" /\ own' = own
      BY <2>5 DEF TestTicks
    <3>2. (thr' = "over" /\ asteps' = <<>>) \/ thr' = "report"
      BY <2>5 DEF TestTicks, TestFails, TestGoesOn
    <3> QED BY <3>1, <3>2 DEF LiveInv, Live
  <2> QED BY <1>3, <2>1, <2>2, <2>3, <2>4, <2>5 DEF Thread, Second, TestThread
<1>4. CASE Handler \/ Events \/ Over \/ UNCHANGED vars
  <2>1. UNCHANGED <<thr, own, asteps>>
    BY <1>4 DEF Handler, HandlerReads, Events, sta_connection_status, Over, vars,
                agentVars, testVars
  <2> QED BY <2>1 DEF LiveInv, Live
<1> QED BY <1>1, <1>2, <1>3, <1>4 DEF Next

------------------------------------------------------------------------------
(* A stop with no configuration behind it remains one when messages that    *)
(* configure nothing follow, and until it is read.                         *)
StopLast(q) ==
  \E k \in Places(q, "stop") : \A i \in Places(q, "data") : i < k

CaseIn(q, c) == \A i \in Places(q, "data") : q[i].job.case = c

LEMMA StopAppend ==
  ASSUME NEW q \in Seq(Messages), NEW m \in Messages, m.type # "data",
         StopLast(q) \/ m.type = "stop"
  PROVE  StopLast(Append(q, m))
<1>1. Places(Append(q, m), "data") = Places(q, "data")
  BY AppendAt
<1>2. CASE m.type = "stop"
  <2>1. Len(q) + 1 \in Places(Append(q, m), "stop")
    BY <1>2, AppendAt
  <2>2. \A i \in Places(q, "data") : i < Len(q) + 1
    BY AppendType DEF Places
  <2> QED BY <1>1, <2>1, <2>2 DEF StopLast
<1>3. CASE m.type # "stop"
  <2>1. Places(Append(q, m), "stop") = Places(q, "stop")
    BY <1>3, AppendAt
  <2> QED BY <1>1, <1>3, <2>1 DEF StopLast
<1> QED BY <1>2, <1>3

LEMMA StopTail ==
  ASSUME NEW q \in Seq(Messages), q # <<>>, StopLast(q)
  PROVE  \/ StopLast(Tail(q))
         \/ Head(q).type = "stop" /\ Places(Tail(q), "data") = {}
<1>1. PICK k \in Places(q, "stop") : \A i \in Places(q, "data") : i < k
  BY DEF StopLast
<1>2. /\ Places(q, "stop") \subseteq Nat \ {0}
      /\ Places(Tail(q), "data") \subseteq Nat \ {0}
  BY AtType, TailType
<1>3. \A i \in Places(Tail(q), "data") : i + 1 \in Places(q, "data")
  BY <1>2, TailAt
<1>4. CASE k = 1
  <2>1. Places(Tail(q), "data") = {}
    BY <1>1, <1>2, <1>3, <1>4
  <2>2. Head(q).type = "stop"
    BY <1>1, <1>4, TailType DEF Places
  <2> QED BY <2>1, <2>2
<1>5. CASE k # 1
  <2>1. k - 1 \in Nat /\ k - 1 # 0 /\ (k - 1) + 1 = k
    BY <1>2, <1>5
  <2>2. k - 1 \in Places(Tail(q), "stop")
    BY <1>1, <2>1, TailAt
  <2>3. \A i \in Places(Tail(q), "data") : i < k - 1
    BY <1>1, <1>2, <1>3
  <2> QED BY <2>2, <2>3 DEF StopLast
<1> QED BY <1>4, <1>5

LEMMA CaseAppend ==
  ASSUME NEW q \in Seq(Messages), NEW m \in Messages, NEW c, CaseIn(q, c),
         m.type = "data" => m.job.case = c
  PROVE  CaseIn(Append(q, m), c)
<1>1. Places(Append(q, m), "data") \subseteq Places(q, "data") \cup {Len(q) + 1}
  BY AppendAt
<1>2. /\ \A i \in Places(q, "data") : Append(q, m)[i] = q[i]
      /\ Append(q, m)[Len(q) + 1] = m
  BY AppendType DEF Places
<1>3. Len(q) + 1 \in Places(Append(q, m), "data") => m.type = "data"
  BY <1>2 DEF Places
<1> QED BY <1>1, <1>2, <1>3 DEF CaseIn

LEMMA CaseTail ==
  ASSUME NEW q \in Seq(Messages), q # <<>>, NEW c, CaseIn(q, c)
  PROVE  /\ CaseIn(Tail(q), c)
         /\ Head(q).type = "data" => Head(q).job.case = c
         /\ Head(q).type = "data" => Places(q, "data") # {}
         /\ Places(Tail(q), "data") # {} => Places(q, "data") # {}
<1>1. Places(Tail(q), "data") \subseteq Nat
  BY AtType, TailType
<1>2. \A i \in Places(Tail(q), "data") :
        i + 1 \in Places(q, "data") /\ Tail(q)[i] = q[i + 1]
  BY <1>1, TailAt, TailType DEF Places
<1>3. Head(q) = q[1] /\ 1 \in DOMAIN q
  BY TailType
<1> QED BY <1>2, <1>3 DEF CaseIn, Places

------------------------------------------------------------------------------
(* Nothing of a case is left when the next one begins.  What was sent to    *)
(* the agent is of the present case; the case that sent something has a     *)
(* step with a key and an agent that has reported, so that its removal      *)
(* sends a stop that is not ignored; and until that stop is read it is      *)
(* behind everything that was sent.  When the agent has settled it was read. *)
Loaded ==
  asteps # <<>> \/ Places(msgs, "data") # {} \/ Places(dev, "data") # {}

Stopping == StopLast(dev) \/ (StopLast(msgs) /\ Places(dev, "data") = {})

Removed ==
  \/ pc.at = "remove" /\ \E k \in keyed : k < pc.step
  \/ pc.at = "over" /\ keyed # {}

KeyInv ==
  /\ pc.at = "status" => pc.step \in Stations \cup keyed
  /\ pc.at = "config" => json # Empty /\ (pc.step \in Stations \/ keyed # {})
  /\ (\E s \in Steps : gip[s]) => json # Empty

LoadInv ==
  up /\ (Places(dev, "data") # {} \/ (Live /\ Loaded))
    => keyed # {} /\ json # Empty

StopInv == up /\ Removed /\ Live /\ Loaded => Stopping

CaseInv ==
  up => /\ \A i \in DOMAIN asteps : asteps[i].job.case = case
        /\ CaseIn(dev, case)
        /\ Live => CaseIn(msgs, case)

(* What a step of the agent keeps.  A step after which the process has      *)
(* ended keeps nothing.                                                    *)
Kept ==
  up' => /\ up
         /\ case' = case
         /\ json = json' \/ json' # Empty
         /\ Places(dev, "data")' # {} => Places(dev, "data") # {}
         /\ Live' /\ Loaded' => Live /\ Loaded
         /\ Live' /\ Loaded' /\ Stopping => Stopping'
         /\ CaseInv'

LEMMA EmptyState ==
  ASSUME NEW state \in AgentStates, NEW steps
  PROVE  [state |-> state, steps |-> steps] # Empty
<1>1. [state |-> state, steps |-> steps].state # "empty"
  BY DEF AgentStates
<1>2. Empty.state = "empty"
  BY DEF Empty
<1> QED BY <1>1, <1>2

LEMMA SameJobsCase ==
  ASSUME WireTypes, CaseInv, up, NEW steps, SameJobs(steps, asteps)
  PROVE  /\ \A i \in DOMAIN steps : steps[i].job.case = case
         /\ steps # <<>> => asteps # <<>>
<1>1. asteps = <<>> => DOMAIN steps = {}
  BY DEF SameJobs
<1>2. steps \in Seq(StepRecords)
  BY DEF SameJobs
<1>3. DOMAIN steps = {} => steps = <<>>
  BY <1>2
<1> QED BY <1>1, <1>3 DEF SameJobs, CaseInv

LEMMA ThreadKeeps ==
  ASSUME WireTypes, CaseInv, Thread \/ Second
  PROVE  Kept
<1>0. up /\ up' = up /\ case' = case /\ UNCHANGED dev
  BY DEF Thread, Second, TestThread, TestTicks, TestStarts, process_msg,
         TestReports, TestCleans, worldVars, deviceVars, gatewayVars
<1>1. CASE TestStarts \/ TestReports \/ TestCleans
  <2>1. UNCHANGED <<msgs, asteps>> /\ Live' = Live
    BY <1>1 DEF TestStarts, TestReports, TestCleans, testVars, Live
  <2>2. json' = json \/ json' # Empty
    <3>1. CASE TestReports
      BY <3>1, EmptyState DEF TestReports, WireTypes
    <3>2. CASE TestStarts \/ TestCleans
      BY <3>2 DEF TestStarts, TestCleans
    <3> QED BY <1>1, <3>1, <3>2
  <2> QED BY <1>0, <2>1, <2>2 DEF Kept, Loaded, Stopping, CaseInv
<1>2. CASE process_msg
  <2>1. msgs # <<>> /\ thr = "run" /\ json' = json /\ msgs \in Seq(Messages)
    BY <1>2 DEF process_msg, WireTypes
  <2>2. CASE test_stop
    <3>1. ~Live' /\ asteps' = <<>>
      BY <2>2 DEF test_stop, Live
    <3> QED BY <1>0, <2>1, <3>1 DEF Kept, CaseInv
  <2>3. CASE /\ \/ /\ Head(msgs).type = "data"
                   /\ wlan_ext_step_execute(Head(msgs).job)
                \/ wlan_ext_step_frame_filter(Head(msgs))
             /\ msgs' = Tail(msgs)
             /\ thr' = thr
    <3>1. Live /\ Live'
      BY <2>1, <2>3 DEF Live
    <3>2. /\ CaseIn(Tail(msgs), case)
          /\ Head(msgs).type = "data" => Head(msgs).job.case = case
          /\ Head(msgs).type = "data" => Places(msgs, "data") # {}
          /\ Places(Tail(msgs), "data") # {} => Places(msgs, "data") # {}
      BY <1>0, <2>1, <3>1, CaseTail DEF CaseInv
    <3>3. StopLast(msgs) => StopLast(Tail(msgs))
      <4>1. Head(msgs).type # "stop"
        BY <2>3 DEF wlan_ext_step_frame_filter
      <4> QED BY <2>1, <4>1, StopTail
    <3>4. Head(msgs) \in Messages
      BY <2>1, TailType
    <3>5. CASE wlan_ext_step_frame_filter(Head(msgs))
      <4>1. SameJobs(asteps', asteps)
        BY <3>4, <3>5, FrameEffect
      <4>2. /\ \A i \in DOMAIN asteps' : asteps'[i].job.case = case
            /\ asteps' # <<>> => asteps # <<>>
        BY <1>0, <4>1, SameJobsCase
      <4> QED BY <1>0, <2>1, <2>3, <3>1, <3>2, <3>3, <4>2
           DEF Kept, Loaded, Stopping, CaseInv
    <3>6. CASE Head(msgs).type = "data" /\ wlan_ext_step_execute(Head(msgs).job)
      <4>1. PICK steps, e : /\ SameJobs(steps, asteps)
                            /\ e \in StepRecords /\ e.job = Head(msgs).job
                            /\ asteps' = Append(steps, e)
        BY <3>4, <3>6, ExecuteEffect, Commands
      <4>2. \A i \in DOMAIN steps : steps[i].job.case = case
        BY <1>0, <4>1, SameJobsCase
      <4>3. /\ DOMAIN asteps' = DOMAIN steps \cup {Len(steps) + 1}
            /\ \A i \in DOMAIN steps : asteps'[i] = steps[i]
            /\ asteps'[Len(steps) + 1] = e
        BY <4>1, AppendType DEF SameJobs
      <4>4. \A i \in DOMAIN asteps' : asteps'[i].job.case = case
        BY <3>2, <3>6, <4>1, <4>2, <4>3
      <4> QED BY <1>0, <2>1, <2>3, <3>1, <3>2, <3>3, <3>6, <4>4
           DEF Kept, Loaded, Stopping, CaseInv
    <3> QED BY <2>3, <3>5, <3>6
  <2> QED BY <1>2, <2>2, <2>3 DEF process_msg
<1>3. CASE TestTicks
  <2>1. thr = "run" /\ msgs' = msgs
    BY <1>3 DEF TestTicks
  <2>2. PICK over : LET steps == [i \in DOMAIN asteps |->
                                    wlan_ext_step_timeout(asteps[i], over)]
                    IN TestFails(steps) \/ TestGoesOn(steps)
    BY <1>3 DEF TestTicks
  <2> DEFINE steps == [i \in DOMAIN asteps |->
                         wlan_ext_step_timeout(asteps[i], over)]
  <2>3. SameJobs(steps, asteps)
    BY TimeoutEffect
  <2> HIDE DEF steps
  <2>4. CASE TestFails(steps)
    <3>1. ~Live' /\ asteps' = <<>>
      BY <2>4 DEF TestFails, Live
    <3>2. json' # Empty
      BY <2>4, EmptyState DEF TestFails, AgentStates
    <3> QED BY <1>0, <3>1, <3>2 DEF Kept, CaseInv
  <2>5. CASE TestGoesOn(steps)
    <3>1. asteps' = steps /\ json' = json /\ Live /\ Live'
      BY <2>1, <2>5 DEF TestGoesOn, Live
    <3>2. /\ \A i \in DOMAIN asteps' : asteps'[i].job.case = case
          /\ asteps' # <<>> => asteps # <<>>
      BY <1>0, <2>3, <3>1, SameJobsCase
    <3> QED BY <1>0, <2>1, <3>1, <3>2 DEF Kept, Loaded, Stopping, CaseInv
  <2> QED BY <2>2, <2>4, <2>5 DEF steps
<1> QED BY <1>1, <1>2, <1>3 DEF Thread, Second, TestThread

LEMMA MainKeeps ==
  ASSUME WireTypes, DeletionInv, CaseInv, Main
  PROVE  Kept
<1>1. /\ ext_emu_state_machine /\ up
      /\ UNCHANGED <<up, case, json, thr, asteps>>
  BY DEF Main, ext_emu_state_machine, worldVars, gatewayVars
<1>2. CASE UNCHANGED <<msgs, dev>>
  BY <1>1, <1>2 DEF Kept, Live, Loaded, Stopping, CaseInv
<1>3. CASE ~Live
  <2>1. dev' \in {dev, Written([type |-> "close"])}
    BY <1>1 DEF ext_emu_state_machine
  <2>2. dev' \in {dev, Append(dev, [type |-> "close"])}
    BY <2>1, Commanded, WrittenType
  <2>3. Places(dev', "data") = Places(dev, "data") /\ CaseIn(dev', case)
    <3>1. dev \in Seq(Messages) /\ CaseIn(dev, case)
      BY <1>1 DEF WireTypes, CaseInv
    <3>2. Places(Append(dev, [type |-> "close"]), "data") = Places(dev, "data")
      BY <3>1, Commanded, AppendAt
    <3>3. CaseIn(Append(dev, [type |-> "close"]), case)
      BY <3>1, Commanded, CaseAppend
    <3> QED BY <2>2, <3>1, <3>2, <3>3
  <2> QED BY <1>1, <1>3, <2>3 DEF Kept, Live, CaseInv
<1>4. Live => UNCHANGED <<msgs, dev>>
  <2>1. Live => LastSignals = {}
    BY DEF DeletionInv, Live
  <2> QED BY <1>1, <2>1 DEF ext_emu_state_machine, LastSignals
<1> QED BY <1>2, <1>3, <1>4

LEMMA HandlerKeeps ==
  ASSUME Drops, WireTypes, DeletionInv, CountInv, LiveInv, CaseInv, Handler
  PROVE  Kept
<1> SUFFICES ASSUME up' PROVE Kept
  BY DEF Kept
<1>1. /\ HandlerReads /\ up /\ hdlrs > 0 /\ dev # <<>>
      /\ UNCHANGED <<case, json, thr, asteps>> /\ Live' = Live
  BY DEF Handler, HandlerReads, gatewayVars, Live
<1>2. /\ dev \in Seq(Messages) /\ msgs \in Seq(Messages) /\ hdlrs \in Nat
      /\ Head(dev) \in Messages
  BY <1>1, TailType DEF WireTypes
<1>3. /\ CaseIn(Tail(dev), case)
      /\ Head(dev).type = "data" => Head(dev).job.case = case
      /\ Head(dev).type = "data" => Places(dev, "data") # {}
      /\ Places(Tail(dev), "data") # {} => Places(dev, "data") # {}
  BY <1>1, <1>2, CaseTail DEF CaseInv
<1>4. StopLast(dev) => \/ StopLast(Tail(dev))
                       \/ Head(dev).type = "stop" /\ Places(Tail(dev), "data") = {}
  BY <1>1, <1>2, StopTail
<1>5. CASE Head(dev).type # "close"
  <2>1. /\ dev' = Tail(dev)
        /\ msgs' = IF own THEN Append(msgs, Head(dev)) ELSE msgs
    BY <1>1, <1>5 DEF HandlerReads, queue_msg
  <2>2. CASE ~Live
    BY <1>1, <1>3, <2>1, <2>2 DEF Kept, CaseInv
  <2>3. CASE Live
    <3>1. msgs' = Append(msgs, Head(dev))
      BY <2>1, <2>3 DEF LiveInv
    <3>2. CaseIn(msgs', case)
      BY <1>1, <1>2, <1>3, <2>3, <3>1, CaseAppend DEF CaseInv
    <3>3. Places(msgs', "data") # {}
          => Places(msgs, "data") # {} \/ Places(dev, "data") # {}
      BY <1>2, <1>3, <3>1, AppendAt
    <3>4. ASSUME Stopping
          PROVE  StopLast(dev') \/ (StopLast(msgs') /\ Places(dev', "data") = {})
      <4>1. CASE StopLast(dev)
        BY <1>2, <1>4, <2>1, <3>1, <4>1, StopAppend
      <4>2. CASE StopLast(msgs) /\ Places(dev, "data") = {}
        BY <1>2, <1>3, <2>1, <3>1, <4>2, StopAppend
      <4> QED BY <3>4, <4>1, <4>2 DEF Stopping
    <3> QED BY <1>1, <1>3, <2>1, <2>3, <3>2, <3>3, <3>4
         DEF Kept, Loaded, Stopping, CaseInv
  <2> QED BY <2>2, <2>3
<1>6. CASE Head(dev).type = "close"
  <2>1. /\ msgs' = msgs
        /\ dev' = IF hdlrs > 1 THEN Tail(dev) ELSE <<>>
    BY <1>1, <1>6 DEF HandlerReads, Close, Drops
  <2>2. Live => hdlrs > 1
    <3>1. Live => obj
      BY DEF Live, DeletionInv
    <3>2. 1 \in Places(dev, "close")
      BY <1>1, <1>2, <1>6, TailType DEF Places
    <3>3. /\ Cardinality(Places(dev, "close")) \in Nat
          /\ Cardinality(Places(dev, "close")) # 0
      BY <1>2, <3>2, AtType, FS_EmptySet, FS_CardinalityType
    <3> QED BY <1>2, <3>1, <3>3 DEF CountInv
  <2>3. Places(<<>>, "data") = {} /\ CaseIn(<<>>, case)
    BY DEF Places, CaseIn
  <2>4. CaseIn(dev', case) /\ (Places(dev', "data") # {} => Places(dev, "data") # {})
    BY <1>3, <2>1, <2>3
  <2>5. CASE ~Live
    BY <1>1, <2>1, <2>4, <2>5 DEF Kept, CaseInv
  <2>6. CASE Live
    <3>1. dev' = Tail(dev)
      BY <2>1, <2>2, <2>6
    <3>2. Stopping => StopLast(dev') \/ (StopLast(msgs') /\ Places(dev', "data") = {})
      BY <1>3, <1>4, <1>6, <2>1, <3>1 DEF Stopping
    <3> QED BY <1>1, <2>1, <2>4, <2>6, <3>2 DEF Kept, Loaded, Stopping, CaseInv
  <2> QED BY <2>5, <2>6
<1> QED BY <1>5, <1>6

LEMMA EventsKeep ==
  ASSUME WireTypes, CaseInv, Events
  PROVE  Kept
<1>1. PICK d \in Devs : sta_connection_status(d)
  BY DEF Events
<1>2. up /\ UNCHANGED <<msgs, asteps, thr, json, up, case>>
  BY <1>1 DEF Events, sta_connection_status, testVars, gatewayVars
<1>3. PICK frame \in {"joined", "deauth"} : Heard(frame, d)
  BY <1>1 DEF sta_connection_status
<1> DEFINE m == [type |-> frame, dev |-> d]
           n == [type |-> "connected", dev |-> d]
<1>4. /\ m \in Messages /\ n \in Messages /\ m.type # "data" /\ n.type # "data"
      /\ Append(dev, m) \in Seq(Messages)
      /\ dev' \in {dev, Append(Append(dev, m), n)}
  BY <1>3, HeardType
<1> HIDE DEF m, n
<1>5. dev \in Seq(Messages) /\ CaseIn(dev, case)
  BY <1>2 DEF WireTypes, CaseInv
<1>6. /\ Places(Append(dev, m), "data") = Places(dev, "data")
      /\ StopLast(dev) => StopLast(Append(dev, m))
      /\ CaseIn(Append(dev, m), case)
  BY <1>4, <1>5, AppendAt, StopAppend, CaseAppend
<1> DEFINE dev2 == Append(Append(dev, m), n)
<1>7. /\ Places(dev2, "data") = Places(dev, "data")
      /\ StopLast(dev) => StopLast(dev2)
      /\ CaseIn(dev2, case)
  BY <1>4, <1>6, AppendAt, StopAppend, CaseAppend
<1>8. /\ Places(dev', "data") = Places(dev, "data")
      /\ StopLast(dev) => StopLast(dev')
      /\ CaseIn(dev', case)
  BY <1>4, <1>5, <1>7
<1> QED BY <1>2, <1>8 DEF Kept, Live, Loaded, Stopping, CaseInv

SettledInv == KeyInv /\ LoadInv /\ StopInv /\ CaseInv

(* The agent's steps leave the gateway's part alone. *)
LEMMA AgentKeepsSettled ==
  ASSUME SettledInv, Kept, up' \/ json' = json,
         UNCHANGED <<pc, keyed, gip, plan>>
  PROVE  SettledInv'
<1>1. json # Empty => json' # Empty
  BY DEF Kept
<1>2. Stations' = Stations
  BY DEF Stations, Is
<1>3. KeyInv'
  BY <1>1, <1>2 DEF SettledInv, KeyInv
<1>4. LoadInv'
  BY <1>1 DEF SettledInv, Kept, LoadInv
<1>5. Removed' = Removed
  BY DEF Removed
<1>6. StopInv'
  BY <1>5 DEF SettledInv, Kept, StopInv
<1>7. CaseInv'
  BY DEF Kept, CaseInv
<1> QED BY <1>3, <1>4, <1>6, <1>7 DEF SettledInv

(* A call that writes nothing: a start at most, which begins with nothing.  *)
Called ==
  /\ UNCHANGED <<dev, json, up, plan>>
  /\ Live' /\ Loaded' => (Live /\ Loaded) \/ Places(dev, "data") # {}
  /\ case' = case => CaseInv'

LEMMA StartCalled ==
  ASSUME CaseInv, AgentUnchanged \/ \E started \in BOOLEAN : agent_start(started)
  PROVE  Called
<1>1. CASE UNCHANGED <<dev, json, up, plan, thr, msgs, asteps>>
  BY <1>1 DEF Called, Live, Loaded, CaseInv
<1>2. ASSUME NEW started \in BOOLEAN, agent_start(started) PROVE Called
  <2>1. UNCHANGED <<dev, json, up, plan>>
    BY <1>2 DEF agent_start, NewTest, worldVars
  <2>2. CASE obj
    BY <1>1, <1>2, <2>1, <2>2 DEF agent_start, NewTest, testVars
  <2>3. CASE ~obj
    <3>1. msgs' = <<>> /\ asteps' = <<>>
      BY <1>2, <2>3 DEF agent_start, NewTest
    <3>2. Places(<<>>, "data") = {} /\ CaseIn(<<>>, case)
      BY DEF Places, CaseIn
    <3>3. Loaded' => Places(dev, "data") # {}
      BY <2>1, <3>1, <3>2 DEF Loaded
    <3>4. case' = case => CaseInv'
      BY <2>1, <3>1, <3>2 DEF CaseInv
    <3> QED BY <2>1, <3>3, <3>4 DEF Called
  <2> QED BY <2>2, <2>3
<1>3. AgentUnchanged => UNCHANGED <<dev, json, up, plan, thr, msgs, asteps>>
  BY DEF AgentUnchanged, agentVars, testVars, deviceVars, worldVars
<1> QED BY <1>1, <1>2, <1>3

(* After such a call only what the gateway does of its own is left. *)
LEMMA CalledSettled ==
  ASSUME SettledInv, Called, case' = case, keyed \subseteq keyed',
         KeyInv', ~Removed'
  PROVE  SettledInv'
<1>1. LoadInv'
  <2>1. up = up' /\ json' = json /\ dev' = dev
    BY DEF Called
  <2>2. up /\ ((Live' /\ Loaded') \/ Places(dev, "data") # {})
        => keyed # {} /\ json # Empty
    BY DEF SettledInv, LoadInv, Called
  <2> QED BY <2>1, <2>2 DEF LoadInv
<1>2. StopInv'
  BY DEF StopInv
<1> QED BY <1>1, <1>2 DEF SettledInv, Called

LEMMA Phases ==
  ASSUME NEW where, NEW s
  PROVE  /\ At(where, s).at = where /\ At(where, s).step = s
         /\ Testing.at = "test"
BY DEF At, Testing

LEMMA BeginSettled ==
  ASSUME WireTypes, SettledInv, NEW s \in Steps,
         BeginSta(s) \/ BeginEth(s) \/ BeginIperf(s)
  PROVE  SettledInv'
<1>1. /\ case' = case /\ gip' = gip /\ pc = Testing
      /\ keyed' \in {keyed, keyed \cup {s}}
  BY DEF BeginSta, BeginEth, BeginIperf, Turn
<1>2. AgentUnchanged \/ \E started \in BOOLEAN : agent_start(started)
  BY DEF BeginSta, BeginEth, BeginIperf, StartSent, StartFailed, Unanswered
<1>3. Called
  BY <1>2, StartCalled DEF SettledInv
<1>4. Stations' = Stations /\ json' = json
  BY <1>3 DEF Called, Stations, Is
<1>5. \/ pc' = pc
      \/ pc' = At("status", s) /\ s \in Stations \cup keyed'
      \/ pc' = At("config", s) /\ keyed # {} /\ json # Empty
  <2>1. CASE BeginSta(s) \/ BeginEth(s)
    BY <2>1 DEF BeginSta, BeginEth
  <2>2. CASE BeginIperf(s)
    <3>1. Interfaces(s) # {} => keyed # {} /\ json # Empty
      BY DEF Interfaces, SettledInv, KeyInv, WireTypes
    <3> QED BY <2>2, <3>1 DEF BeginIperf
  <2> QED BY <2>1, <2>2
<1>6. KeyInv' /\ ~Removed'
  BY <1>1, <1>4, <1>5, Phases DEF SettledInv, KeyInv, Removed
<1> QED BY <1>1, <1>3, <1>6, CalledSettled

LEMMA AskSettled ==
  ASSUME WireTypes, SettledInv, NEW s \in Steps,
         GetStatus(s) \/ step_timeout(s) \/ TestEnds
  PROVE  SettledInv'
<1>1. AgentUnchanged /\ case' = case /\ keyed' = keyed
  BY DEF GetStatus, step_timeout, TestEnds, Unanswered
<1>2. Called
  BY <1>1, StartCalled DEF SettledInv
<1>3. Stations' = Stations /\ json' = json
  BY <1>2 DEF Called, Stations, Is
<1>4. CASE GetStatus(s)
  <2>1. gip' = gip /\ pc = At("status", s)
    BY <1>4 DEF GetStatus
  <2>2. s \in Stations \cup keyed
    BY <2>1, Phases DEF SettledInv, KeyInv
  <2>3. \/ pc' = At("config", s) /\ json # Empty
        \/ pc' \in {At("stop", s), Testing}
    BY <1>4 DEF GetStatus, Fails
  <2>4. KeyInv' /\ ~Removed'
    BY <1>1, <1>3, <2>1, <2>2, <2>3, Phases DEF SettledInv, KeyInv, Removed
  <2> QED BY <1>1, <1>2, <2>4, CalledSettled
<1>5. CASE step_timeout(s)
  <2>1. pc = Testing /\ pc' \in {pc, At("stop", s)}
    BY <1>5 DEF step_timeout, Polled
  <2>2. gip' = gip \/ json # Empty
    BY <1>5 DEF step_timeout
  <2>3. KeyInv' /\ ~Removed'
    BY <1>1, <1>3, <2>1, <2>2, Phases DEF SettledInv, KeyInv, Removed
  <2> QED BY <1>1, <1>2, <2>3, CalledSettled
<1>6. CASE TestEnds
  <2>1. gip' = gip /\ pc' = At("remove", 0)
    BY <1>6 DEF TestEnds
  <2>2. \A k \in keyed : ~(k < 0)
    BY AgentAssumption DEF WireTypes, Steps
  <2>3. KeyInv' /\ ~Removed'
    BY <1>1, <1>3, <2>1, <2>2, Phases DEF SettledInv, KeyInv, Removed
  <2> QED BY <1>1, <1>2, <2>3, CalledSettled
<1> QED BY <1>4, <1>5, <1>6

(* No answer to a configuration and no stop request is lost: by a step, and *)
(* by none.                                                                *)
NoneLost == ~Fault("answer") /\ ~Fault("stop")
Arrives == "answer" \notin Faults /\ "stop" \notin Faults

LEMMA ArrivesLosesNone == Arrives => NoneLost
BY DEF Arrives, NoneLost, Fault

LEMMA ConfigSettled ==
  ASSUME NoneLost, WireTypes, SettledInv, NEW s \in Steps, PostConfig(s)
  PROVE  SettledInv'
<1>1. pc = At("config", s) /\ case' = case /\ gip' = gip
  BY DEF PostConfig
<1>2. json # Empty /\ (s \in Stations \/ keyed # {})
  BY <1>1, Phases DEF SettledInv, KeyInv
<1>3. CASE /\ AgentUnchanged
           /\ Fails(s) \/ pc' = Testing
           /\ keyed' \in {keyed, keyed \cup {s}}
  <2>1. Called
    BY <1>3, StartCalled DEF SettledInv
  <2>2. Stations' = Stations /\ json' = json
    BY <2>1 DEF Called, Stations, Is
  <2>3. pc' \in {At("stop", s), Testing}
    BY <1>3 DEF Fails
  <2>4. KeyInv' /\ ~Removed'
    BY <1>1, <1>3, <2>2, <2>3, Phases DEF SettledInv, KeyInv, Removed
  <2> QED BY <1>1, <1>3, <2>1, <2>4, CalledSettled
<1>4. CASE /\ \E written \in BOOLEAN : agent_endpoint_testconfig(Job(s), written)
           /\ pc' = Testing
           /\ keyed' = IF s \in Stations THEN keyed \cup {s} ELSE keyed
  <2> DEFINE m == [type |-> "data", job |-> Job(s)]
  <2>1. /\ dev' \in {dev, Written(m)}
        /\ UNCHANGED <<json, up, plan, thr, msgs, asteps>>
    BY <1>4 DEF agent_endpoint_testconfig, testVars, worldVars
  <2>2. m \in Messages /\ m.job.case = case
    BY Commanded, JobType
  <2> HIDE DEF m
  <2>3. dev' \in {dev, Append(dev, m)} /\ dev \in Seq(Messages)
    BY <2>1, <2>2, WrittenType DEF WireTypes
  <2>4. keyed' # {}
    BY <1>2, <1>4
  <2>5. Stations' = Stations
    BY <2>1 DEF Stations, Is
  <2>6. KeyInv' /\ ~Removed'
    BY <1>1, <1>2, <1>4, <2>1, Phases DEF KeyInv, Removed
  <2>7. LoadInv' /\ StopInv'
    BY <1>2, <2>1, <2>4, <2>6 DEF LoadInv, StopInv
  <2>8. up => CaseIn(dev', case)
    BY <2>2, <2>3, CaseAppend DEF SettledInv, CaseInv
  <2>9. CaseInv'
    BY <1>1, <2>1, <2>8 DEF SettledInv, CaseInv, Live
  <2> QED BY <2>6, <2>7, <2>9 DEF SettledInv
<1>5. ~Fault("answer")
  BY DEF NoneLost
<1>6. CASE /\ Posted(s)
           /\ pc' = Testing
           /\ keyed' = IF s \in Stations THEN keyed \cup {s} ELSE keyed
  BY <1>3, <1>4, <1>6 DEF Posted
<1>7. CASE NotPosted(s) /\ Fails(s) /\ keyed' = keyed
  BY <1>3, <1>5, <1>7 DEF NotPosted, Unanswered
<1> QED BY <1>6, <1>7 DEF PostConfig

(* A stop request reaches an agent that runs a test, and is not ignored     *)
(* when there is something to stop.                                        *)
LEMMA StopWritten ==
  ASSUME Drops, NoneLost, WireTypes, DeletionInv, CountInv, SettledInv, StopSent,
         case' = case
  PROVE  /\ json' = json \/ json' # Empty
         /\ UNCHANGED <<up, plan>> /\ Live' = Live /\ Loaded' = Loaded
         /\ Places(dev', "data") = Places(dev, "data")
         /\ CaseInv'
         /\ up /\ Live /\ Loaded => Stopping'
         /\ up /\ Live /\ Loaded /\ Stopping => Stopping'
<1>1. ~Fault("stop")
  BY DEF NoneLost
<1>2. CASE ~up /\ AgentUnchanged
  <2>1. UNCHANGED <<json, up, plan, thr, msgs, asteps, dev>>
    BY <1>2 DEF AgentUnchanged, agentVars, testVars, deviceVars, worldVars
  <2> QED BY <1>2, <2>1 DEF Live, Loaded, CaseInv
<1>3. CASE up /\ agent_stop
  <2>1. /\ UNCHANGED <<up, plan, thr, msgs, asteps>>
        /\ IF json = Empty THEN UNCHANGED <<dev, json>>
           ELSE /\ dev' = Written([type |-> "stop"])
                /\ json' = [state |-> "idle", steps |-> <<>>]
    BY <1>3 DEF agent_stop, testVars, worldVars
  <2> DEFINE m == [type |-> "stop"]
  <2>2. m \in Messages /\ m.type = "stop"
    BY Commanded
  <2>3. dev \in Seq(Messages) /\ CaseIn(dev, case)
    BY <1>3 DEF WireTypes, SettledInv, CaseInv
  <2>4. dev' \in {dev, Append(dev, m)}
    BY <2>1, <2>2, WrittenType
  <2>5. /\ Places(Append(dev, m), "data") = Places(dev, "data")
        /\ StopLast(Append(dev, m))
        /\ CaseIn(Append(dev, m), case)
    BY <2>2, <2>3, AppendAt, StopAppend, CaseAppend
  <2>6. ASSUME Live, Loaded PROVE dev' = Append(dev, m)
    <3>1. json # Empty
      BY <1>3, <2>6 DEF SettledInv, LoadInv
    <3>2. obj /\ hdlrs # 0
      <4>1. obj
        BY <2>6 DEF Live, DeletionInv
      <4>2. Cardinality(Places(dev, "close")) \in Nat
        BY <2>3, AtType, FS_CardinalityType
      <4> QED BY <4>1, <4>2 DEF CountInv
    <3>3. hdlrs > 0
      BY <3>2 DEF WireTypes
    <3> QED BY <2>1, <3>1, <3>3 DEF Written
  <2>7. json' = json \/ json' # Empty
    BY <2>1, EmptyState DEF AgentStates
  <2> HIDE DEF m
  <2>8. Places(dev', "data") = Places(dev, "data") /\ CaseIn(dev', case)
    BY <2>3, <2>4, <2>5
  <2>9. Live' = Live /\ Loaded' = Loaded
    BY <2>1, <2>8 DEF Live, Loaded
  <2>10. CaseInv'
    BY <2>1, <2>8, <2>9 DEF SettledInv, CaseInv, Live
  <2>11. Live /\ Loaded => Stopping'
    BY <2>5, <2>6 DEF Stopping
  <2> QED BY <2>1, <2>7, <2>8, <2>9, <2>10, <2>11
<1> QED BY <1>1, <1>2, <1>3 DEF StopSent

LEMMA StopSettled ==
  ASSUME Drops, NoneLost, WireTypes, DeletionInv, CountInv, SettledInv,
         NEW s \in Steps, SendStop(s) \/ step_remove(s)
  PROVE  SettledInv'
<1>1. case' = case /\ keyed' = keyed /\ gip' = gip
  BY DEF SendStop, step_remove
<1>2. pc'.at \in {"test", "remove", "over"}
  BY Phases DEF SendStop, step_remove
<1>3. CASE StopSent
  <2>1. /\ json' = json \/ json' # Empty
        /\ UNCHANGED <<up, plan>> /\ Live' = Live /\ Loaded' = Loaded
        /\ Places(dev', "data") = Places(dev, "data")
        /\ CaseInv'
        /\ up /\ Live /\ Loaded => Stopping'
    BY <1>1, <1>3, StopWritten
  <2>2. KeyInv'
    BY <1>1, <1>2, <2>1 DEF SettledInv, KeyInv
  <2>3. LoadInv'
    BY <1>1, <2>1 DEF SettledInv, LoadInv
  <2>4. StopInv'
    BY <2>1 DEF StopInv
  <2> QED BY <2>1, <2>2, <2>3, <2>4 DEF SettledInv
<1>4. CASE step_remove(s) /\ s \notin keyed
  <2>1. UNCHANGED <<json, up, plan, thr, msgs, asteps, dev>>
    BY <1>4 DEF step_remove, AgentUnchanged, agentVars, testVars, deviceVars,
                worldVars
  <2>2. /\ pc = At("remove", s)
        /\ pc' = IF s + 1 \in Steps THEN At("remove", s + 1) ELSE At("over", 0)
    BY <1>4 DEF step_remove
  <2>3. \A k \in keyed : k < s + 1 \/ s + 1 \notin Steps => k < s
    BY <1>4, AgentAssumption DEF WireTypes, Steps
  <2>4. Removed' => Removed
    BY <1>1, <2>2, <2>3, Phases DEF Removed
  <2>5. KeyInv'
    BY <1>1, <1>2, <2>1 DEF SettledInv, KeyInv
  <2>6. LoadInv' /\ StopInv' /\ CaseInv'
    BY <1>1, <2>1, <2>4
       DEF SettledInv, LoadInv, StopInv, CaseInv, Live, Loaded, Stopping
  <2> QED BY <2>5, <2>6 DEF SettledInv
<1> QED BY <1>3, <1>4 DEF SendStop, step_remove

(* A new case begins with an agent that has settled: the stop was read.     *)
LEMMA NextCaseEmpty ==
  ASSUME "case" \in Patient, CountInv, LiveInv, SettledInv, NextCase, up
  PROVE  dev = <<>> /\ asteps = <<>> /\ (Live => ~Loaded /\ msgs = <<>>)
<1>1. Quiet /\ pc = At("over", 0)
  BY DEF NextCase
<1>2. dev = <<>> /\ (Live => msgs = <<>>)
  BY <1>1 DEF Quiet, CountInv, Live
<1>3. Places(<<>>, "data") = {} /\ ~StopLast(<<>>)
  BY DEF Places, StopLast
<1>4. ASSUME Live PROVE ~Loaded
  <2>1. ~Stopping
    BY <1>2, <1>3, <1>4 DEF Stopping
  <2>2. Loaded => Removed
    BY <1>1, <1>4, Phases DEF SettledInv, LoadInv, Removed
  <2> QED BY <1>4, <2>1, <2>2 DEF SettledInv, StopInv
<1>5. asteps = <<>>
  BY <1>4 DEF Loaded, LiveInv
<1> QED BY <1>2, <1>4, <1>5

LEMMA NextCaseSettled ==
  ASSUME "case" \in Patient, WireTypes, CountInv, LiveInv, SettledInv, NextCase
  PROVE  SettledInv'
<1>1. /\ UNCHANGED <<json, up, plan, thr, msgs, asteps, dev>>
      /\ pc = At("over", 0) /\ pc' = Testing /\ keyed' = {}
      /\ gip' = [s \in Steps |-> FALSE]
  BY DEF NextCase, AgentUnchanged, agentVars, testVars, deviceVars, worldVars
<1>2. KeyInv' /\ StopInv'
  BY <1>1, Phases DEF KeyInv, StopInv, Removed
<1>3. Live' = Live /\ Loaded' = Loaded
  BY <1>1 DEF Live, Loaded
<1>4. up => dev = <<>> /\ asteps = <<>> /\ (Live => ~Loaded /\ msgs = <<>>)
  BY NextCaseEmpty
<1>5. Places(<<>>, "data") = {} /\ \A c : CaseIn(<<>>, c)
  BY DEF Places, CaseIn
<1>6. LoadInv'
  BY <1>1, <1>3, <1>4, <1>5 DEF LoadInv
<1>7. CaseInv'
  <2> SUFFICES ASSUME up'
               PROVE  /\ asteps' = <<>>
                      /\ CaseIn(dev', case')
                      /\ Live' => CaseIn(msgs', case')
    BY DEF CaseInv
  <2> QED BY <1>1, <1>3, <1>4, <1>5
<1> QED BY <1>2, <1>6, <1>7 DEF SettledInv

Patience == "case" \in Patient

LEMMA SettledStep ==
  ASSUME Drops, NoneLost, Patience, WireTypes, DeletionInv, CountInv, LiveInv,
         SettledInv, [Next]_vars
  PROVE  SettledInv'
<1>1. CASE Gateway
  <2>1. ASSUME NEW s \in Steps,
               \/ BeginSta(s) \/ BeginEth(s) \/ BeginIperf(s)
               \/ GetStatus(s) \/ step_timeout(s)
        PROVE  SettledInv'
    BY <2>1, BeginSettled, AskSettled
  <2>2. ASSUME NEW s \in Steps, PostConfig(s) \/ SendStop(s) \/ step_remove(s)
        PROVE  SettledInv'
    BY <2>2, ConfigSettled, StopSettled
  <2>3. CASE TestEnds
    <3>1. 0 \in Steps
      BY AgentAssumption DEF Steps
    <3> QED BY <2>3, <3>1, AskSettled
  <2>4. CASE NextCase
    BY <2>4, NextCaseSettled DEF Patience
  <2> QED BY <1>1, <2>1, <2>2, <2>3, <2>4 DEF Gateway
<1>2. CASE Second \/ Thread \/ Main \/ Handler \/ Events
  <2>1. Kept
    BY <1>2, ThreadKeeps, MainKeeps, HandlerKeeps, EventsKeep DEF SettledInv
  <2>2. UNCHANGED <<pc, keyed, gip, plan>>
    BY <1>2 DEF Second, Thread, Main, Handler, Events, TestThread, TestTicks,
                TestStarts, process_msg, TestReports, TestCleans,
                ext_emu_state_machine, HandlerReads, sta_connection_status,
                worldVars, gatewayVars
  <2>3. up' \/ json' = json
    BY <1>2 DEF Second, Thread, Main, Handler, Events, TestThread, TestTicks,
                TestStarts, process_msg, TestReports, TestCleans,
                ext_emu_state_machine, HandlerReads, sta_connection_status,
                worldVars
  <2> QED BY <2>1, <2>2, <2>3, AgentKeepsSettled
<1>3. CASE Over \/ UNCHANGED vars
  <2>1. UNCHANGED <<json, up, plan, thr, msgs, asteps, dev, case, pc, keyed, gip>>
    BY <1>3 DEF Over, vars, agentVars, testVars, deviceVars, worldVars,
                gatewayVars
  <2>2. Stations' = Stations
    BY <2>1 DEF Stations, Is
  <2> QED BY <2>1, <2>2 DEF SettledInv, KeyInv, LoadInv, StopInv, CaseInv, Live,
                            Loaded, Stopping, Removed
<1> QED BY <1>1, <1>2, <1>3 DEF Next

LEMMA SettledInit == Init => CountInv /\ LiveInv /\ SettledInv
<1> SUFFICES ASSUME Init PROVE CountInv /\ LiveInv /\ SettledInv
  OBVIOUS
<1>1. /\ dev = <<>> /\ msgs = <<>> /\ asteps = <<>> /\ hdlrs = 0 /\ obj = FALSE
      /\ thr = "none" /\ pc = Testing /\ gip = [s \in Steps |-> FALSE]
  BY DEF Init, AgentInit, GatewayInit
<1>2. \A type : Places(<<>>, type) = {}
  BY DEF Places
<1>3. \A c : CaseIn(<<>>, c)
  BY <1>2 DEF CaseIn
<1>4. CountInv
  BY <1>1, <1>2, FS_EmptySet DEF CountInv
<1>5. LiveInv /\ KeyInv /\ StopInv /\ LoadInv
  BY <1>1, <1>2, Phases DEF LiveInv, Live, KeyInv, StopInv, Removed, LoadInv
<1>6. CaseInv
  BY <1>1, <1>3 DEF CaseInv
<1> QED BY <1>4, <1>5, <1>6 DEF SettledInv

(* The agent works on the steps of the present test case only: for every    *)
(* test case, any number of cases, failures of requests, of threads and of  *)
(* the execution of steps, and a process that may end.  The gateway lets    *)
(* the agent settle before it begins a case, the driver keeps nothing       *)
(* nobody reads, and no answer and no stop request is lost.                 *)
THEOREM AgentIsOnThisCase ==
  ASSUME Drops, Arrives, Patience
  PROVE  Spec => []OnlyThisCase
<1> DEFINE Inv == WireTypes /\ DeletionInv /\ CountInv /\ LiveInv /\ SettledInv
<1>1. Init => Inv
  BY WireTypesInit, DeletionInit, SettledInit
<1>2. Inv /\ [Next]_vars => Inv'
  BY ArrivesLosesNone, WireTypesStep, DeletionStep, CountStep, LiveStep, SettledStep
<1>3. Inv => OnlyThisCase
  BY DEF SettledInv, CaseInv, OnlyThisCase
<1> QED BY <1>1, <1>2, <1>3, PTL DEF Spec

------------------------------------------------------------------------------
(* The results are those of this case.  Of what the hypotheses say, the     *)
(* first is that each side keeps the period of a second; the other, that    *)
(* one step at most of a test case starts the agent.                        *)
Ticks == "tick" \in Patient

OneStart ==
  \A p \in Plans : \A s, t \in Steps :
    p[s].kind \in {"sta", "eth"} /\ p[t].kind \in {"sta", "eth"} => s = t

Starters == Stations \cup Ethernets

OwnTypes ==
  /\ plan \in Plans
  /\ DOMAIN gst = Steps
  /\ DOMAIN gip = Steps
  /\ json.steps \in Seq(Reports)

(* The first element of a sequence that passes a test. *)
LEMMA FirstOf ==
  ASSUME NEW n \in Nat, NEW I \in SUBSET (1 .. n), I # {}
  PROVE  Min(I) \in I
<1>1. I \in SUBSET Nat
  OBVIOUS
<1>2. \E x \in I : \A y \in I : x <= y
  BY <1>1, LeastNumber
<1> QED BY <1>2 DEF Min

LEMMA ListedFinds ==
  ASSUME json.steps \in Seq(Reports), NEW s
  PROVE  /\ Listed(s) # 0 => /\ Listed(s) \in DOMAIN json.steps
                             /\ json.steps[Listed(s)].job.num = s
         /\ Listed(s) = 0 => \A i \in DOMAIN json.steps : json.steps[i].job.num # s
<1> DEFINE I == {i \in 1 .. Len(json.steps) : json.steps[i].job.num = s}
<1>1. Listed(s) = IF I # {} THEN Min(I) ELSE 0
  BY DEF Listed, SelectInSeq
<1>2. Len(json.steps) \in Nat /\ DOMAIN json.steps = 1 .. Len(json.steps)
  OBVIOUS
<1>3. I # {} => Min(I) \in I
  BY <1>2, FirstOf
<1>4. 0 \notin I
  BY <1>2
<1> QED BY <1>1, <1>2, <1>3, <1>4

LEMMA FirstAbortFinds ==
  ASSUME NEW steps \in Seq(StepRecords), FirstAbort(steps) # 0
  PROVE  FirstAbort(steps) \in DOMAIN steps /\ steps[FirstAbort(steps)].st = "abort"
<1> DEFINE I == {i \in 1 .. Len(steps) : steps[i].st = "abort"}
<1>1. FirstAbort(steps) = IF I # {} THEN Min(I) ELSE 0
  BY DEF FirstAbort, SelectInSeq
<1>2. Len(steps) \in Nat /\ DOMAIN steps = 1 .. Len(steps)
  OBVIOUS
<1>3. I # {} => Min(I) \in I
  BY <1>2, FirstOf
<1> QED BY <1>1, <1>2, <1>3

LEMMA Reported ==
  ASSUME NEW steps \in Seq(StepRecords)
  PROVE  LET report == wlan_ext_step_status_update(steps)
         IN /\ report \in Seq(Reports)
            /\ DOMAIN report = DOMAIN steps
            /\ \A i \in DOMAIN steps : /\ report[i].job = steps[i].job
                                       /\ report[i].st = steps[i].st
<1> DEFINE r(i) == [job |-> steps[i].job, st |-> steps[i].st,
                    ip |-> steps[i].ip \/ Is(steps[i].job.num, "eth")]
<1>1. Len(steps) \in Nat /\ DOMAIN steps = 1 .. Len(steps)
  OBVIOUS
<1>2. wlan_ext_step_status_update(steps) = [i \in DOMAIN steps |-> r(i)]
  BY DEF wlan_ext_step_status_update
<1>3. ASSUME NEW i \in DOMAIN steps
      PROVE  r(i) \in Reports /\ r(i).job = steps[i].job /\ r(i).st = steps[i].st
  <2>1. steps[i] \in StepRecords
    BY <1>3
  <2>2. steps[i].job \in Jobs /\ steps[i].st \in AgentStepStates
    BY <2>1 DEF StepRecords
  <2>3. (steps[i].ip \/ Is(steps[i].job.num, "eth")) \in BOOLEAN
    OBVIOUS
  <2> QED BY <2>2, <2>3 DEF Reports
<1> HIDE DEF r
<1>4. [i \in DOMAIN steps |-> r(i)] \in Seq(Reports)
  BY <1>1, <1>3
<1> QED BY <1>2, <1>3, <1>4

(* What a test that fails reports is the steps up to the one that aborted.  *)
LEMMA FailureReported ==
  ASSUME NEW steps \in Seq(StepRecords), TestFails(steps)
  PROVE  /\ json'.state = "fail"
         /\ json'.steps \in Seq(Reports)
         /\ \A i \in DOMAIN json'.steps :
              i \in DOMAIN steps /\ json'.steps[i].job = steps[i].job
         /\ \E i \in DOMAIN json'.steps : json'.steps[i].st = "abort"
         /\ steps # <<>>
<1> DEFINE k == FirstAbort(steps)
           part == SubSeq(steps, 1, k)
<1>1. /\ k \in DOMAIN steps /\ steps[k].st = "abort"
      /\ json' = [state |-> "fail", steps |-> wlan_ext_step_status_update(part)]
  BY FirstAbortFinds DEF TestFails
<1>2. Len(steps) \in Nat /\ DOMAIN steps = 1 .. Len(steps)
  OBVIOUS
<1>3. k \in 1 .. Len(steps) /\ steps # <<>>
  BY <1>1, <1>2
<1> HIDE DEF k
<1>4. \A i \in 1 .. k : steps[i] \in StepRecords
  BY <1>2, <1>3
<1>5. /\ part \in Seq(StepRecords) /\ Len(part) = k
      /\ \A i \in 1 .. k : part[i] = steps[i]
  <2>1. /\ SubSeq(steps, 1, k) \in Seq(StepRecords)
        /\ Len(SubSeq(steps, 1, k)) = IF 1 <= k THEN k - 1 + 1 ELSE 0
        /\ \A i \in 1 .. k - 1 + 1 : SubSeq(steps, 1, k)[i] = steps[1 + i - 1]
    BY <1>3, <1>4, SubSeqProperties
  <2> QED BY <1>3, <2>1
<1> HIDE DEF part
<1>6. DOMAIN part = 1 .. k
  BY <1>5
<1>7. 1 .. k \subseteq DOMAIN steps /\ k \in 1 .. k
  BY <1>2, <1>3
<1> QED BY <1>1, <1>3, <1>5, <1>6, <1>7, Reported

LEMMA PlanStays ==
  ASSUME [Next]_vars
  PROVE  /\ plan' = plan
         /\ Stations' = Stations /\ Ethernets' = Ethernets /\ Starters' = Starters
<1>1. CASE Gateway
  <2>1. AgentUnchanged \/ agent_stop \/ (\E started : agent_start(started))
        \/ \E job, written : agent_endpoint_testconfig(job, written)
    BY <1>1 DEF Gateway, BeginSta, BeginEth, BeginIperf, StartSent, StartFailed,
                Unanswered, GetStatus, SendStop, step_remove, StopSent, PostConfig,
                Posted, NotPosted, step_timeout, TestEnds, NextCase
  <2>2. plan' = plan
    BY <2>1 DEF AgentUnchanged, agentVars, worldVars, agent_stop, agent_start,
                agent_endpoint_testconfig
  <2> QED BY <2>2 DEF Starters, Stations, Ethernets, Is
<1>2. CASE Second \/ Main \/ Handler \/ Thread \/ Events \/ Over \/ UNCHANGED vars
  <2>1. plan' = plan
    BY <1>2 DEF Second, TestTicks, Main, ext_emu_state_machine, Handler,
                HandlerReads, Thread, TestThread, TestStarts, process_msg,
                TestReports, TestCleans, Events, sta_connection_status, Over,
                vars, agentVars, worldVars
  <2> QED BY <2>1 DEF Starters, Stations, Ethernets, Is
<1> QED BY <1>1, <1>2 DEF Next

LEMMA PolledTypes ==
  ASSUME OwnTypes, NEW s \in Steps, step_timeout(s)
  PROVE  DOMAIN gst' = Steps /\ DOMAIN gip' = Steps
<1>1. CASE UNCHANGED gip /\ Becomes(s, "abort")
  BY <1>1 DEF Becomes, OwnTypes
<1>2. CASE Polled(s)
  <2>1. DOMAIN gip' = Steps
    BY <1>2 DEF Polled, OwnTypes
  <2>2. \/ \E st : Becomes(s, st)
        \/ gst' \in {[gst EXCEPT ![s] = "results"], [gst EXCEPT ![s] = "abort"]}
    BY <1>2 DEF Polled, OverTime, TakesOver, Delivers, Waits
  <2>3. DOMAIN gst' = Steps
    BY <2>2 DEF Becomes, OwnTypes
  <2> QED BY <2>1, <2>3
<1> QED BY <1>1, <1>2 DEF step_timeout

LEMMA OwnTypesStep ==
  ASSUME WireTypes, OwnTypes, [Next]_vars
  PROVE  OwnTypes'
<1>0. plan' \in Plans
  BY PlanStays DEF OwnTypes
<1>1. CASE Gateway
  <2>1. json'.steps \in Seq(Reports)
    <3>1. Calls
      BY <1>1, GatewayCalls
    <3>2. json' = json \/ json' = [state |-> "idle", steps |-> <<>>]
      BY <3>1 DEF Calls, AgentUnchanged, agentVars, agent_stop, agent_start,
                  agent_endpoint_testconfig
    <3>3. json' = json \/ json'.steps = <<>>
      BY <3>2
    <3>4. <<>> \in Seq(Reports)
      OBVIOUS
    <3>5. CASE json' = json
      BY <3>5 DEF OwnTypes
    <3>6. CASE json'.steps = <<>>
      BY <3>4, <3>6
    <3> QED BY <3>3, <3>5, <3>6
  <2>2. ASSUME NEW s \in Steps, BeginSta(s) \/ BeginEth(s) \/ BeginIperf(s)
               \/ GetStatus(s) \/ PostConfig(s)
        PROVE  gip' = gip /\ DOMAIN gst' = Steps
    BY <2>2 DEF BeginSta, BeginEth, BeginIperf, GetStatus, PostConfig, Fails,
                Waits, Becomes, OwnTypes
  <2>3. ASSUME NEW s \in Steps, SendStop(s) \/ step_remove(s)
        PROVE  gip' = gip /\ gst' = gst
    BY <2>3 DEF SendStop, step_remove
  <2>4. TestEnds => gip' = gip /\ gst' = gst
    BY DEF TestEnds
  <2>5. NextCase => DOMAIN gip' = Steps /\ DOMAIN gst' = Steps
    BY DEF NextCase
  <2> QED BY <1>0, <1>1, <2>1, <2>2, <2>3, <2>4, <2>5, PolledTypes
       DEF Gateway, OwnTypes
<1>2. CASE Second \/ Main \/ Handler \/ Thread \/ Events \/ Over \/ UNCHANGED vars
  <2>1. gst' = gst /\ gip' = gip
    BY <1>2 DEF Second, Main, Handler, Thread, Events, Over, vars, gatewayVars
  <2>2. CASE json' = json
    BY <1>0, <2>1, <2>2 DEF OwnTypes
  <2>3. CASE TestReports
    <3>1. json'.steps = wlan_ext_step_status_update(asteps)
      BY <2>3 DEF TestReports
    <3>2. json'.steps \in Seq(Reports)
      BY <3>1, Reported DEF WireTypes
    <3> QED BY <1>0, <2>1, <3>2 DEF OwnTypes
  <2>4. CASE TestTicks
    <3>1. PICK over : LET steps == [i \in DOMAIN asteps |->
                                      wlan_ext_step_timeout(asteps[i], over)]
                      IN TestFails(steps) \/ TestGoesOn(steps)
      BY <2>4 DEF TestTicks
    <3> DEFINE steps == [i \in DOMAIN asteps |->
                           wlan_ext_step_timeout(asteps[i], over)]
    <3>2. steps \in Seq(StepRecords)
      BY TimeoutEffect DEF SameJobs
    <3> HIDE DEF steps
    <3>3. CASE TestFails(steps)
      BY <1>0, <2>1, <3>2, <3>3, FailureReported DEF OwnTypes
    <3>4. CASE TestGoesOn(steps)
      BY <2>2, <3>4 DEF TestGoesOn
    <3> QED BY <3>1, <3>3, <3>4 DEF steps
  <2> QED BY <1>2, <2>2, <2>3, <2>4
       DEF Second, Main, ext_emu_state_machine, Handler, HandlerReads, Thread,
           TestThread, TestStarts, process_msg, TestCleans, Events,
           sta_connection_status, Over, vars, agentVars
<1> QED BY <1>1, <1>2 DEF Next

------------------------------------------------------------------------------
(* The place of the gateway in its test case: whether it has asked the      *)
(* agent for a test, and whether the case stops.                           *)
Asked ==
  \E s \in Starters :
    gst[s] # "pending" \/ (pc.at \in {"status", "config"} /\ pc.step = s)

Stopped ==
  \/ pc.at \in {"stop", "remove", "over"}
  \/ \E e \in Steps : gst[e] = "abort"

PlaceInv ==
  /\ pc.at \in {"status", "config"} => \A e \in Steps : gst[e] # "abort"
  /\ pc.at = "status" => pc.step \in Starters
  /\ pc.at = "config" => pc.step \in Starters \/ \E e \in Starters : gip[e]
  /\ pc.at = "stop" => pc.step \in Ethernets /\ gst[pc.step] = "abort"

AskedInv ==
  /\ keyed \subseteq Starters
  /\ \/ keyed # {}
     \/ pc.at \in {"status", "config"}
     \/ \E e \in Steps : gip[e] \/ gst[e] \in {"continue", "wait", "results"}
     => Asked

GateVars == <<plan, pc, gst, gip, keyed>>

LEMMA GateUnchanged ==
  ASSUME UNCHANGED GateVars
  PROVE  /\ Asked' = Asked /\ Stopped' = Stopped /\ Starters' = Starters
         /\ PlaceInv' = PlaceInv /\ AskedInv' = AskedInv
BY DEF GateVars, Asked, Stopped, PlaceInv, AskedInv, Starters, Stations,
       Ethernets, Is

LEMMA AgentLeavesGate ==
  ASSUME Second \/ Main \/ Handler \/ Thread \/ Events \/ Over \/ UNCHANGED vars
  PROVE  UNCHANGED GateVars /\ UNCHANGED case
<1>1. [Next]_vars
  BY DEF Next
<1> QED BY <1>1, PlanStays
     DEF Second, Main, Handler, Thread, Events, Over, vars, gatewayVars, GateVars

(* The agent is asked once: a starter that begins is the only one. *)
LEMMA BeginsOnce ==
  ASSUME OneStart, OwnTypes, NEW s \in Starters, Turn(s)
  PROVE  ~Asked /\ ~Stopped
<1>1. pc.at = "test" /\ gst[s] = "pending" /\ \A e \in Steps : gst[e] # "abort"
  BY Phases DEF Turn
<1>2. ASSUME NEW t \in Starters PROVE t = s
  <2>1. s \in Steps /\ t \in Steps
    BY DEF Starters, Stations, Ethernets
  <2>2. plan[s].kind \in {"sta", "eth"} /\ plan[t].kind \in {"sta", "eth"}
    BY DEF Starters, Stations, Ethernets, Is
  <2> QED BY <2>1, <2>2 DEF OneStart, OwnTypes
<1> QED BY <1>1, <1>2 DEF Asked, Stopped

(* Which steps of the gateway move the test thread within the case.         *)
LEMMA AskedStays ==
  ASSUME OwnTypes, PlaceInv, AskedInv, [Next]_vars, ~NextCase, Asked
  PROVE  Asked'
<1>0. Starters' = Starters /\ Starters \subseteq Steps
  BY PlanStays DEF Starters, Stations, Ethernets
<1>1. PICK t \in Starters :
        gst[t] # "pending" \/ (pc.at \in {"status", "config"} /\ pc.step = t)
  BY DEF Asked
<1>2. ASSUME gst'[t] # "pending" PROVE Asked'
  BY <1>0, <1>2 DEF Asked
<1>3. ASSUME NEW s \in Steps, NEW st, Becomes(s, st), st # "pending",
             gst[t] # "pending" \/ s = t
      PROVE  Asked'
  <2>1. gst'[t] # "pending"
    BY <1>0, <1>3 DEF Becomes, OwnTypes
  <2> QED BY <1>2, <2>1
<1>4. ASSUME gst' = gst, pc = Testing \/ pc' = pc \/ pc.at \in {"stop", "remove", "over"}
      PROVE  Asked'
  BY <1>0, <1>1, <1>4, Phases DEF Asked
<1>5. ASSUME NEW s \in Steps, BeginSta(s) \/ BeginEth(s) \/ BeginIperf(s)
      PROVE  Asked'
  <2>1. pc = Testing
    BY <1>5 DEF BeginSta, BeginEth, BeginIperf, Turn
  <2>2. gst' = gst \/ Becomes(s, "abort")
    BY <1>5 DEF BeginSta, BeginEth, BeginIperf
  <2> QED BY <1>1, <1>3, <1>4, <2>1, <2>2, Phases
<1>6. ASSUME NEW s \in Steps, GetStatus(s) \/ PostConfig(s)
      PROVE  Asked'
  <2>1. pc.step = s
    BY <1>6, Phases DEF GetStatus, PostConfig
  <2>2. CASE gst' = gst /\ pc' = At("config", s)
    BY <1>0, <1>1, <2>1, <2>2, Phases DEF Asked
  <2>3. CASE Fails(s)
    BY <1>1, <1>3, <2>1, <2>3 DEF Fails
  <2>4. CASE Waits(s, gip[s])
    BY <1>1, <1>3, <2>1, <2>4 DEF Waits
  <2> QED BY <1>6, <2>2, <2>3, <2>4 DEF GetStatus, PostConfig
<1>7. ASSUME NEW s \in Steps, SendStop(s) \/ step_remove(s)
      PROVE  Asked'
  <2>1. gst' = gst /\ pc.at \in {"stop", "remove"}
    BY <1>7, Phases DEF SendStop, step_remove
  <2> QED BY <1>4, <2>1
<1>8. TestEnds => Asked'
  <2> SUFFICES ASSUME TestEnds PROVE Asked'
    OBVIOUS
  <2>1. gst' = gst /\ pc = Testing
    BY DEF TestEnds
  <2> QED BY <1>4, <2>1
<1>9. ASSUME NEW s \in Steps, step_timeout(s)
      PROVE  Asked'
  <2>1. pc.at = "test" /\ pc = Testing
    BY <1>9, Phases DEF step_timeout
  <2>2. \/ Becomes(s, "abort") \/ Becomes(s, "wait") \/ Becomes(s, "continue")
        \/ Becomes(s, "results")
        \/ \E i \in {Listed(s)} : i # 0 /\ Becomes(s, json.steps[i].st)
    BY <1>9 DEF step_timeout, Polled, OverTime, TakesOver, Delivers, Waits, Becomes
  <2>3. Listed(s) # 0 => json.steps[Listed(s)].st # "pending"
    <3>1. Listed(s) # 0 => json.steps[Listed(s)] \in Reports
      BY ListedFinds DEF OwnTypes
    <3> QED BY <3>1 DEF Reports, AgentStepStates
  <2>4. gst[t] # "pending"
    BY <1>1, <2>1
  <2> QED BY <1>3, <2>2, <2>3, <2>4
<1>10. CASE Second \/ Main \/ Handler \/ Thread \/ Events \/ Over \/ UNCHANGED vars
  BY <1>10, AgentLeavesGate, GateUnchanged
<1> QED BY <1>5, <1>6, <1>7, <1>8, <1>9, <1>10 DEF Next, Gateway

(* The steps of the gateway that neither begin nor end anything. *)
LEMMA GateStep ==
  ASSUME OneStart, WireTypes, OwnTypes, PlaceInv, AskedInv, [Next]_vars
  PROVE  PlaceInv' /\ AskedInv'
<1>0. /\ Starters' = Starters /\ Stations' = Stations /\ Ethernets' = Ethernets
      /\ Starters \subseteq Steps /\ Stations \subseteq Starters
      /\ Ethernets \subseteq Starters
  BY PlanStays DEF Starters, Stations, Ethernets
<1>1. CASE Second \/ Main \/ Handler \/ Thread \/ Events \/ Over \/ UNCHANGED vars
  BY <1>1, AgentLeavesGate, GateUnchanged
<1>2. ASSUME NEW s \in Steps, BeginSta(s) \/ BeginEth(s)
      PROVE  PlaceInv' /\ AskedInv'
  <2>1. /\ pc = Testing /\ (\A e \in Steps : gst[e] # "abort") /\ gip' = gip
        /\ s \in Starters /\ keyed' \in {keyed, keyed \cup {s}}
    BY <1>2 DEF BeginSta, BeginEth, Turn, Starters
  <2>2. \/ pc' = pc /\ Becomes(s, "abort")
        \/ pc' = At("status", s) /\ gst' = gst
    BY <1>2 DEF BeginSta, BeginEth
  <2>3. PlaceInv'
    BY <1>0, <2>1, <2>2, Phases DEF PlaceInv
  <2>4. Asked'
    <3>1. CASE Becomes(s, "abort")
      <4>1. gst'[s] = "abort"
        BY <3>1 DEF Becomes, OwnTypes
      <4> QED BY <1>0, <2>1, <4>1 DEF Asked
    <3>2. CASE pc' = At("status", s)
      BY <1>0, <2>1, <3>2, Phases DEF Asked
    <3> QED BY <2>2, <3>1, <3>2
  <2> QED BY <1>0, <2>1, <2>3, <2>4 DEF AskedInv
<1>3. ASSUME NEW s \in Steps, BeginIperf(s)
      PROVE  PlaceInv' /\ AskedInv'
  <2>1. /\ pc = Testing /\ (\A e \in Steps : gst[e] # "abort") /\ gip' = gip
        /\ keyed' = keyed
    BY <1>3 DEF BeginIperf, Turn
  <2>2. \/ pc' = pc /\ Becomes(s, "abort")
        \/ pc' = At("config", s) /\ gst' = gst /\ Interfaces(s) # {}
    BY <1>3 DEF BeginIperf
  <2>3. Interfaces(s) # {} => Asked /\ \E e \in Starters : gip[e]
    BY DEF Interfaces, AskedInv
  <2>4. PlaceInv'
    BY <1>0, <2>1, <2>2, <2>3, Phases DEF PlaceInv
  <2>5. Asked => Asked'
    BY <1>3, AskedStays, Phases DEF Next, Gateway, NextCase, BeginIperf, Turn
  <2>6. \A e \in Steps : gst'[e] = gst[e] \/ gst'[e] = "abort"
    BY <2>2 DEF Becomes, OwnTypes
  <2>7. AskedInv'
    BY <1>0, <2>1, <2>2, <2>3, <2>5, <2>6, Phases DEF AskedInv
  <2> QED BY <2>4, <2>7
<1>4. ASSUME NEW s \in Steps, GetStatus(s) \/ PostConfig(s)
      PROVE  PlaceInv' /\ AskedInv'
  <2>1. /\ pc = At("status", s) \/ pc = At("config", s)
        /\ gip' = gip /\ Asked
        /\ keyed' = keyed \/ (s \in Starters /\ keyed' = keyed \cup {s})
    BY <1>0, <1>4, Phases DEF GetStatus, PostConfig, AskedInv
  <2>2. \/ pc = At("status", s) /\ pc' = At("config", s) /\ gst' = gst
        \/ Fails(s)
        \/ pc' = Testing
    BY <1>4 DEF GetStatus, PostConfig
  <2>3. Asked'
    BY <1>4, <2>1, AskedStays, Phases DEF Next, Gateway, NextCase
  <2>4. AskedInv'
    BY <1>0, <2>1, <2>3 DEF AskedInv
  <2>5. Fails(s) => /\ pc' = Testing \/ (s \in Ethernets /\ pc' = At("stop", s))
                    /\ gst'[s] = "abort"
    BY DEF Fails, Becomes, OwnTypes
  <2>6. PlaceInv'
    BY <1>0, <2>1, <2>2, <2>5, Phases DEF PlaceInv
  <2> QED BY <2>4, <2>6
<1>5. ASSUME NEW s \in Steps, SendStop(s) \/ step_remove(s)
      PROVE  PlaceInv' /\ AskedInv'
  <2>1. /\ gst' = gst /\ gip' = gip /\ keyed' = keyed
        /\ pc'.at \in {"test", "remove", "over"}
    BY <1>5, Phases DEF SendStop, step_remove
  <2>2. Asked => Asked'
    BY <1>5, AskedStays, Phases DEF Next, Gateway, NextCase, SendStop, step_remove
  <2> QED BY <1>0, <2>1, <2>2 DEF PlaceInv, AskedInv
<1>6. CASE TestEnds
  <2>1. gst' = gst /\ gip' = gip /\ keyed' = keyed /\ pc'.at = "remove"
    BY <1>6, Phases DEF TestEnds
  <2>2. Asked => Asked'
    BY <1>6, AskedStays, Phases DEF Next, Gateway, NextCase, TestEnds
  <2> QED BY <1>0, <2>1, <2>2 DEF PlaceInv, AskedInv
<1>7. ASSUME NEW s \in Steps, step_timeout(s)
      PROVE  PlaceInv' /\ AskedInv'
  <2>1. /\ pc = Testing /\ gst[s] \in {"continue", "wait"} /\ keyed' = keyed
    BY <1>7 DEF step_timeout
  <2>2. Asked'
    <3>1. Asked
      BY <2>1 DEF AskedInv
    <3> QED BY <1>7, <2>1, <3>1, AskedStays, Phases DEF Next, Gateway, NextCase
  <2>3. pc' = Testing \/ (pc' = At("stop", s) /\ s \in Ethernets /\ gst'[s] = "abort")
    BY <1>7, <2>1 DEF step_timeout, Polled
  <2>4. PlaceInv'
    BY <1>0, <2>3, Phases DEF PlaceInv
  <2> QED BY <1>0, <2>1, <2>2, <2>4 DEF AskedInv
<1>8. CASE NextCase
  <2>1. /\ pc' = Testing /\ keyed' = {}
        /\ gst' = [e \in Steps |-> "pending"] /\ gip' = [e \in Steps |-> FALSE]
    BY <1>8 DEF NextCase
  <2> QED BY <1>0, <2>1, Phases DEF PlaceInv, AskedInv
<1> QED BY <1>1, <1>2, <1>3, <1>4, <1>5, <1>6, <1>7, <1>8 DEF Next, Gateway

------------------------------------------------------------------------------
(* What has results had them of the agent: the history of the jobs that     *)
(* ended has every step that is said to have results, unless a test failed. *)
EndedIn(steps, jobs) ==
  \A i \in DOMAIN steps : steps[i].st = "results" => steps[i].job \in jobs

EndedInv ==
  /\ EndedIn(asteps, ended)
  /\ json.state = "fail" \/ EndedIn(json.steps, ended)

LEMMA EndedAppend ==
  ASSUME NEW steps \in Seq(StepRecords), NEW e \in StepRecords, NEW jobs,
         EndedIn(steps, jobs), e.st = "results" => e.job \in jobs
  PROVE  EndedIn(Append(steps, e), jobs)
<1>1. /\ DOMAIN Append(steps, e) = DOMAIN steps \cup {Len(steps) + 1}
      /\ \A i \in DOMAIN steps : Append(steps, e)[i] = steps[i]
      /\ Append(steps, e)[Len(steps) + 1] = e
  BY AppendType
<1> QED BY <1>1 DEF EndedIn

LEMMA ExecuteEnds ==
  ASSUME WireTypes, EndedIn(asteps, ended), NEW job \in Jobs,
         wlan_ext_step_execute(job)
  PROVE  EndedIn(asteps', ended') /\ ended \subseteq ended'
<1>0. /\ {"abort", "continue", "results", "wait"} \subseteq AgentStepStates
      /\ ForkState(job.num) \in {"wait", "continue"}
  BY DEF AgentStepStates, ForkState
<1>1. None \in 0 .. NDevs
  BY AgentAssumption DEF None
<1>2. asteps \in Seq(StepRecords)
  BY DEF WireTypes
<1>3. ASSUME NEW st \in AgentStepStates, NEW d \in 0 .. NDevs, st # "results",
             asteps' = Append(asteps, NewStep(job, st, d)), ended' = ended
      PROVE  EndedIn(asteps', ended')
  BY <1>2, <1>3, NewStepType, EndedAppend
<1>4. CASE ExecuteFails(job)
  BY <1>0, <1>1, <1>3, <1>4 DEF ExecuteFails
<1>5. CASE add_sta(job)
  <2>1. find_first_free_dev \in 0 .. NDevs
    BY <1>5, FreeDev DEF add_sta
  <2> QED BY <1>0, <1>3, <1>5, <2>1 DEF add_sta
<1>6. CASE ExecutePlain(job)
  BY <1>0, <1>1, <1>3, <1>6 DEF ExecutePlain
<1>7. CASE ExecuteStop(job)
  <2> DEFINE f == [i \in DOMAIN asteps |->
                     IF i \in ToStop(job)
                     THEN [asteps[i] EXCEPT !.st = "results"] ELSE asteps[i]]
             jobs == ended \cup {job} \cup {asteps[i].job : i \in ToStop(job)}
  <2>1. asteps' = Append(f, NewStep(job, "results", None)) /\ ended' = jobs
    BY <1>7 DEF ExecuteStop
  <2>2. \A i \in DOMAIN asteps : asteps[i] \in StepRecords
    BY <1>2
  <2>3. \A i \in DOMAIN asteps : f[i] \in StepRecords /\ f[i].job = asteps[i].job
    BY <1>0, <2>2, ExceptType
  <2>4. SameJobs(f, asteps)
    <3>1. f = [i \in DOMAIN asteps |-> f[i]]
      OBVIOUS
    <3> HIDE DEF f
    <3> QED BY <1>2, <2>3, <3>1, MappedSteps
  <2>5. EndedIn(f, jobs)
    <3> SUFFICES ASSUME NEW i \in DOMAIN asteps, f[i].st = "results"
                 PROVE  f[i].job \in jobs
      BY DEF EndedIn
    <3>1. CASE i \in ToStop(job)
      BY <2>3, <3>1
    <3>2. CASE i \notin ToStop(job)
      BY <3>2 DEF EndedIn
    <3> QED BY <3>1, <3>2
  <2>6. NewStep(job, "results", None) \in StepRecords
        /\ NewStep(job, "results", None).job = job
    BY <1>0, <1>1, NewStepType
  <2>7. job \in jobs /\ ended \subseteq jobs
    OBVIOUS
  <2> HIDE DEF f, jobs
  <2> QED BY <2>1, <2>4, <2>5, <2>6, <2>7, EndedAppend DEF SameJobs
<1>8. ended \subseteq ended'
  BY DEF wlan_ext_step_execute, ExecuteFails, add_sta, ExecutePlain, ExecuteStop
<1> QED BY <1>4, <1>5, <1>6, <1>7, <1>8 DEF wlan_ext_step_execute

LEMMA FrameEnds ==
  ASSUME WireTypes, EndedIn(asteps, ended), NEW m \in Messages,
         wlan_ext_step_frame_filter(m)
  PROVE  EndedIn(asteps', ended') /\ ended' = ended
<1>1. asteps \in Seq(StepRecords) /\ \A i \in DOMAIN asteps : asteps[i] \in StepRecords
  BY DEF WireTypes
<1>2. SameJobs(asteps', asteps) /\ ended' = ended
  BY FrameEffect DEF wlan_ext_step_frame_filter
<1>3. ASSUME NEW i \in DOMAIN asteps, asteps'[i].st = "results"
      PROVE  asteps[i].st = "results"
  <2>1. asteps[i] \in StepRecords
    BY <1>1
  <2>2. CASE m.type = "joined" /\ Joined(m.dev)
    BY <1>3, <2>1, <2>2, ExceptType DEF Joined
  <2>3. CASE m.type = "deauth" /\ Deauth(m.dev)
    BY <1>3, <2>1, <2>3, ExceptType DEF Deauth
  <2>4. CASE m.type = "connected" /\ Connected(m.dev)
    <3>1. CASE asteps' = asteps
      BY <1>3, <3>1
    <3>2. CASE asteps' # asteps
      <4>1. PICK k : \/ asteps' = [asteps EXCEPT ![k].ip = TRUE]
                     \/ asteps' = [asteps EXCEPT ![k].st = "abort"]
        BY <2>4, <3>2 DEF Connected
      <4> DEFINE t == IF asteps' = [asteps EXCEPT ![k].ip = TRUE]
                      THEN [asteps[k] EXCEPT !.ip = TRUE]
                      ELSE [asteps[k] EXCEPT !.st = "abort"]
      <4>2. asteps'[i] = IF i = k THEN t ELSE asteps[i]
        BY <4>1
      <4>3. /\ [asteps[i] EXCEPT !.ip = TRUE].st = asteps[i].st
            /\ [asteps[i] EXCEPT !.st = "abort"].st = "abort"
        BY <2>1 DEF StepRecords
      <4>4. i = k => t.st \in {asteps[i].st, "abort"}
        BY <4>3
      <4> HIDE DEF t
      <4> QED BY <1>3, <4>2, <4>4
    <3> QED BY <3>1, <3>2
  <2> QED BY <2>2, <2>3, <2>4 DEF wlan_ext_step_frame_filter
<1> QED BY <1>2, <1>3 DEF EndedIn, SameJobs

LEMMA EndedStep ==
  ASSUME WireTypes, EndedInv, [Next]_vars
  PROVE  EndedInv' /\ ended \subseteq ended'
<1>1. CASE UNCHANGED <<asteps, ended, json>>
  BY <1>1 DEF EndedInv
<1>2. CASE Gateway
  <2>1. Calls
    BY <1>2, GatewayCalls
  <2>2. ended' = ended
    BY <2>1 DEF Calls, AgentUnchanged, agentVars, agent_stop, agent_start,
                agent_endpoint_testconfig, resultVars
  <2>3. asteps' = asteps \/ asteps' = <<>>
    BY <2>1 DEF Calls, AgentUnchanged, agentVars, agent_stop, agent_start,
                agent_endpoint_testconfig, testVars, NewTest
  <2>4. json' = json \/ json' = [state |-> "idle", steps |-> <<>>]
    BY <2>1 DEF Calls, AgentUnchanged, agentVars, agent_stop, agent_start,
                agent_endpoint_testconfig
  <2>5. json' = json \/ json'.steps = <<>>
    BY <2>4
  <2>6. \A S : EndedIn(<<>>, S)
    BY DEF EndedIn
  <2> QED BY <2>2, <2>3, <2>5, <2>6 DEF EndedInv
<1>3. CASE TestReports
  <2>1. /\ ended' = ended /\ asteps' = asteps
        /\ json'.steps = wlan_ext_step_status_update(asteps)
    BY <1>3 DEF TestReports, resultVars
  <2>2. EndedIn(json'.steps, ended)
    BY <2>1, Reported DEF WireTypes, EndedInv, EndedIn
  <2> QED BY <2>1, <2>2 DEF EndedInv
<1>4. CASE process_msg
  <2>1. msgs # <<>> /\ json' = json /\ Head(msgs) \in Messages
    BY <1>4, TailType DEF process_msg, WireTypes
  <2>2. CASE test_stop
    <3>1. asteps' = <<>> /\ ended' = ended
      BY <2>2 DEF test_stop
    <3> QED BY <2>1, <3>1 DEF EndedInv, EndedIn
  <2>3. CASE Head(msgs).type = "data" /\ wlan_ext_step_execute(Head(msgs).job)
    <3>1. EndedIn(asteps', ended') /\ ended \subseteq ended'
      BY <2>1, <2>3, Commands, ExecuteEnds DEF EndedInv
    <3> QED BY <2>1, <3>1 DEF EndedInv, EndedIn
  <2>4. CASE wlan_ext_step_frame_filter(Head(msgs))
    <3>1. EndedIn(asteps', ended') /\ ended' = ended
      BY <2>1, <2>4, FrameEnds DEF EndedInv
    <3> QED BY <2>1, <3>1 DEF EndedInv
  <2> QED BY <1>4, <2>2, <2>3, <2>4 DEF process_msg
<1>5. CASE TestTicks
  <2>1. PICK over : LET steps == [i \in DOMAIN asteps |->
                                    wlan_ext_step_timeout(asteps[i], over)]
                    IN TestFails(steps) \/ TestGoesOn(steps)
    BY <1>5 DEF TestTicks
  <2> DEFINE steps == [i \in DOMAIN asteps |->
                         wlan_ext_step_timeout(asteps[i], over)]
  <2>2. steps \in Seq(StepRecords)
    BY TimeoutEffect DEF SameJobs
  <2> HIDE DEF steps
  <2>3. CASE TestFails(steps)
    <3>1. asteps' = <<>> /\ ended' = ended
      BY <2>3 DEF TestFails
    <3> QED BY <2>2, <2>3, <3>1, FailureReported DEF EndedInv, EndedIn
  <2>4. CASE TestGoesOn(steps)
    <3>1. /\ asteps' = steps /\ json' = json
          /\ ended' = ended \cup {steps[i].job : i \in Completed(steps)}
      BY <2>4 DEF TestGoesOn
    <3>2. EndedIn(steps, ended')
      BY <3>1 DEF EndedIn, Completed
    <3> QED BY <3>1, <3>2 DEF EndedInv, EndedIn
  <2> QED BY <2>1, <2>3, <2>4 DEF steps
<1> QED BY <1>1, <1>2, <1>3, <1>4, <1>5
     DEF Next, Second, Main, ext_emu_state_machine, Handler, HandlerReads, Thread,
         TestThread, TestStarts, TestCleans, Events, sta_connection_status, Over,
         vars, agentVars, testVars, resultVars

------------------------------------------------------------------------------
(* The agent between two ticks.  Once the ready signal of a thread was      *)
(* taken the main thread is at a state of its test, and the states it can   *)
(* be in are those a thread that goes on has signalled.                    *)
Good == {"ready", "running", "complete"}

ReadyInv ==
  /\ thr = "run" => "ready" \in sigs \/ m_state \in Good
  /\ thr = "report" => "ready" \notin sigs /\ m_state \in Good

(* What the main thread does to a test that has not ended. *)
LEMMA MainOfLive ==
  ASSUME WireTypes, DeletionInv, Main
  PROVE  /\ UNCHANGED <<up, thr, asteps, json, fresh>>
         /\ \/ UNCHANGED <<obj, msgs, dev>>
            \/ ~Live /\ obj /\ LastSignals' = {} /\ ~obj'
         /\ \E sig \in sigs : /\ sigs' = sigs \ {sig} /\ m_state' = sig
                              /\ \A other \in sigs :
                                   SignalIndex(sig) <= SignalIndex(other)
                              /\ Live => sig \in Good
         /\ sigs # {}
<1>1. /\ ext_emu_state_machine
      /\ UNCHANGED <<up, thr, asteps, json, fresh>>
  BY DEF Main, ext_emu_state_machine, worldVars, gatewayVars
<1>2. PICK sig \in sigs :
        /\ sigs' = sigs \ {sig} /\ m_state' = sig
        /\ \A other \in sigs : SignalIndex(sig) <= SignalIndex(other)
        /\ IF sig \in DeletingStates /\ obj
           THEN obj' = FALSE
           ELSE UNCHANGED <<obj, msgs, dev>>
  BY <1>1 DEF ext_emu_state_machine
<1>3. Live => sig \in Good
  BY DEF WireTypes, DeletionInv, LastSignals, Live, AgentStates, DeletingStates, Good
<1>4. sig \in DeletingStates /\ obj => ~Live /\ LastSignals' = {}
  BY <1>2 DEF DeletionInv, LastSignals, Live, DeletingStates
<1> QED BY <1>1, <1>2, <1>3, <1>4

(* A tick comes when the signals of the one before were taken. *)
LEMMA TickIsGood ==
  ASSUME Ticks, ReadyInv, Second
  PROVE  sigs = {} /\ thr = "run" /\ m_state \in Good
BY DEF Ticks, ReadyInv, Second, TestTicks

LEMMA ReadyStep ==
  ASSUME Ticks, WireTypes, DeletionInv, ReadyInv, [Next]_vars
  PROVE  ReadyInv'
<1>1. CASE UNCHANGED <<thr, sigs, m_state>>
  BY <1>1 DEF ReadyInv
<1>2. CASE TestStarts
  BY <1>2 DEF TestStarts, Signalled, ReadyInv, Good
<1>3. CASE process_msg
  <2>1. CASE test_stop
    BY <2>1 DEF test_stop, ReadyInv
  <2> QED BY <1>1, <1>3, <2>1 DEF process_msg
<1>4. CASE TestReports
  BY <1>4 DEF TestReports, ReadyInv
<1>5. CASE Second
  <2>1. sigs = {} /\ thr = "run" /\ m_state \in Good
    BY <1>5, TickIsGood
  <2>2. m_state' = m_state /\ (thr' = "over" \/
          (thr' = "report" /\ sigs' \in {sigs, Signalled("complete"),
                                         Signalled("running")}))
    BY <1>5 DEF Second, TestTicks, TestFails, TestGoesOn
  <2> QED BY <2>1, <2>2 DEF ReadyInv, Signalled
<1>6. CASE Main
  <2>1. PICK sig \in sigs : /\ sigs' = sigs \ {sig} /\ m_state' = sig
                            /\ Live => sig \in Good
    BY <1>6, MainOfLive
  <2>2. thr' = thr
    BY <1>6, MainOfLive
  <2> QED BY <2>1, <2>2 DEF ReadyInv, Live
<1>7. CASE Gateway
  <2>1. Calls
    BY <1>7, GatewayCalls
  <2>2. CASE AgentUnchanged \/ agent_stop
             \/ \E s \in Steps, written \in BOOLEAN :
                  agent_endpoint_testconfig(Job(s), written)
    BY <1>1, <2>2 DEF AgentUnchanged, agentVars, agent_stop, testVars,
                      agent_endpoint_testconfig
  <2>3. ASSUME NEW started \in BOOLEAN, agent_start(started) PROVE ReadyInv'
    <3>1. UNCHANGED <<sigs, m_state>> /\ (thr' = thr \/ thr' \in {"start", "none"})
      BY <2>3 DEF agent_start, NewTest, testVars
    <3> QED BY <3>1 DEF ReadyInv
  <2> QED BY <2>1, <2>2, <2>3 DEF Calls
<1> QED BY <1>1, <1>2, <1>3, <1>4, <1>5, <1>6, <1>7
     DEF Next, Thread, TestThread, TestCleans, testVars, Handler, HandlerReads,
         Events, sta_connection_status, Over, vars, agentVars

------------------------------------------------------------------------------
(* What the gateway and the agent know of each other.  A stop is on its way *)
(* only when the test case stops (StopsInv), so that the test of a case     *)
(* goes on until then; a state that is reported as running is one of steps  *)
(* of this test (RunningInv), the first of which started the agent          *)
(* (FirstInv).  A thread that was stopped before it has reported leaves a   *)
(* status without steps (LeakInv).  Therefore a status the gateway looks at *)
(* is of this case (OwnInv), and a case begins with no last signal that     *)
(* could end its test (IdleInv).                                           *)
StopIn == Places(dev, "stop") # {} \/ (Live /\ Places(msgs, "stop") # {})

StopsInv == up /\ StopIn => Stopped /\ Asked

RunningInv ==
  Live /\ \/ "running" \in sigs
          \/ thr # "start" /\ m_state = "running" /\ "ready" \notin sigs
  => asteps # <<>>

Bare == json.steps = <<>> /\ json.state # "running"

LeakInv ==
  /\ up /\ StopIn /\ (thr = "start" \/ (thr = "run" /\ "ready" \in sigs)) => Bare
  /\ up /\ obj /\ thr = "over" /\ LastSignals = {} => Bare

HasStarter == \E i \in DOMAIN asteps : asteps[i].job.num \in Starters
JsonStarter == \E i \in DOMAIN json.steps : json.steps[i].job.num \in Starters

OwnJson ==
  /\ \A i \in DOMAIN json.steps : json.steps[i].job.case = case
  /\ json.state = "running" => JsonStarter

OwnInv ==
  up /\ ~Stopped /\ (fresh # {} \/ (thr = "over" /\ (obj \/ Asked))) => OwnJson

IdleInv ==
  up /\ ~Asked /\ ~Stopped
    => LastSignals = {} /\ (~obj => sigs = {} /\ fresh = {})

NoneInv == up /\ thr = "none" /\ Asked /\ ~Stopped => obj

Others(q) == \E i \in Places(q, "data") : q[i].job.num \notin Starters

Begun ==
  \/ asteps # <<>>
  \/ fresh # {} /\ JsonStarter
  \/ Others(dev) \/ Others(msgs)
  \/ \E e \in Starters : gip[e]

FirstInv == up /\ Live /\ Begun => HasStarter

Coupled ==
  /\ StopsInv /\ RunningInv /\ LeakInv /\ OwnInv /\ IdleInv /\ NoneInv /\ FirstInv

Base ==
  /\ WireTypes /\ OwnTypes /\ DeletionInv /\ CountInv /\ LiveInv /\ SettledInv
  /\ PlaceInv /\ AskedInv /\ EndedInv /\ ReadyInv

(* The commands of two queues, when one message passes on. *)
LEMMA StopAndOthersAppend ==
  ASSUME NEW q \in Seq(Messages), NEW m \in Messages
  PROVE  /\ Places(Append(q, m), "stop") # {}
            => Places(q, "stop") # {} \/ m.type = "stop"
         /\ Others(Append(q, m))
            => Others(q) \/ (m.type = "data" /\ m.job.num \notin Starters)
<1>1. /\ Places(Append(q, m), "data")
         = IF m.type = "data" THEN Places(q, "data") \cup {Len(q) + 1}
           ELSE Places(q, "data")
      /\ Places(Append(q, m), "stop")
         = IF m.type = "stop" THEN Places(q, "stop") \cup {Len(q) + 1}
           ELSE Places(q, "stop")
  BY AppendAt
<1>2. /\ \A i \in Places(q, "data") : Append(q, m)[i] = q[i]
      /\ Append(q, m)[Len(q) + 1] = m
  BY AppendType DEF Places
<1> QED BY <1>1, <1>2 DEF Others

LEMMA StopAndOthersTail ==
  ASSUME NEW q \in Seq(Messages), q # <<>>
  PROVE  /\ Places(Tail(q), "stop") # {} => Places(q, "stop") # {}
         /\ Others(Tail(q)) => Others(q)
         /\ Head(q).type = "stop" => Places(q, "stop") # {}
         /\ Head(q).type = "data" /\ Head(q).job.num \notin Starters => Others(q)
<1>1. /\ Places(Tail(q), "data") \subseteq Nat
      /\ Places(Tail(q), "stop") \subseteq Nat
  BY AtType, TailType
<1>2. /\ \A i \in Places(Tail(q), "data") :
           i + 1 \in Places(q, "data") /\ Tail(q)[i] = q[i + 1]
      /\ \A i \in Places(Tail(q), "stop") : i + 1 \in Places(q, "stop")
  BY <1>1, TailAt, TailType DEF Places
<1>3. Head(q) = q[1] /\ 1 \in DOMAIN q
  BY TailType
<1> QED BY <1>2, <1>3 DEF Others, Places

LEMMA NoCommands ==
  Places(<<>>, "stop") = {} /\ Places(<<>>, "data") = {} /\ ~Others(<<>>)
BY DEF Places, Others

(* Steps that move messages only. *)
LEMMA MessagesMove ==
  ASSUME Coupled, up' => up,
         UNCHANGED <<thr, sigs, m_state, asteps, json, obj, fresh, case>>,
         UNCHANGED GateVars,
         up' /\ StopIn' => StopIn,
         up' /\ Live /\ (Others(dev') \/ Others(msgs')) => Others(dev) \/ Others(msgs)
  PROVE  Coupled'
<1>1. Asked' = Asked /\ Stopped' = Stopped /\ Starters' = Starters
  BY GateUnchanged
<1>2. gip' = gip /\ Live' = Live /\ LastSignals' = LastSignals /\ Bare' = Bare
      /\ JsonStarter' = JsonStarter /\ HasStarter' = HasStarter
      /\ OwnJson' = OwnJson
  BY <1>1 DEF GateVars, Live, LastSignals, Bare, JsonStarter, HasStarter, OwnJson
<1>3. Others(dev)' = Others(dev') /\ Others(msgs)' = Others(msgs')
  BY <1>1 DEF Others
<1>4. StopsInv'
  BY <1>1 DEF Coupled, StopsInv
<1>5. RunningInv'
  BY <1>2 DEF Coupled, RunningInv
<1>6. LeakInv'
  BY <1>2 DEF Coupled, LeakInv
<1>7. OwnInv' /\ IdleInv' /\ NoneInv'
  BY <1>1, <1>2 DEF Coupled, OwnInv, IdleInv, NoneInv
<1>8. FirstInv'
  <2>1. up' /\ Live /\ Begun' => Begun
    BY <1>1, <1>2, <1>3 DEF Begun
  <2> QED BY <1>2, <2>1 DEF Coupled, FirstInv
<1> QED BY <1>4, <1>5, <1>6, <1>7, <1>8 DEF Coupled

LEMMA HandlerCoupled ==
  ASSUME Drops, Base, Coupled, Handler
  PROVE  Coupled'
<1>1. /\ HandlerReads /\ up /\ dev # <<>> /\ hdlrs > 0
      /\ UNCHANGED <<thr, sigs, m_state, asteps, json, obj, fresh, case>>
  BY DEF Handler, HandlerReads, gatewayVars
<1>2. UNCHANGED GateVars
  BY AgentLeavesGate
<1>3. dev \in Seq(Messages) /\ msgs \in Seq(Messages) /\ Head(dev) \in Messages
  BY <1>1, TailType DEF Base, WireTypes
<1>4. /\ dev' = Tail(dev) \/ dev' = <<>>
      /\ msgs' = msgs \/ msgs' = Append(msgs, Head(dev))
  BY <1>1 DEF HandlerReads, Close, queue_msg
<1>5. /\ Places(dev', "stop") # {} => Places(dev, "stop") # {}
      /\ Others(dev') => Others(dev)
      /\ Head(dev).type = "stop" => Places(dev, "stop") # {}
      /\ Head(dev).type = "data" /\ Head(dev).job.num \notin Starters => Others(dev)
  BY <1>1, <1>3, <1>4, StopAndOthersTail, NoCommands
<1>6. /\ Places(msgs', "stop") # {}
         => Places(msgs, "stop") # {} \/ Head(dev).type = "stop"
      /\ Others(msgs') => Others(msgs) \/ (Head(dev).type = "data"
                                           /\ Head(dev).job.num \notin Starters)
  BY <1>3, <1>4, StopAndOthersAppend
<1>7. StopIn' => StopIn
  BY <1>1, <1>5, <1>6 DEF StopIn, Live
<1>8. Others(dev') \/ Others(msgs') => Others(dev) \/ Others(msgs)
  BY <1>5, <1>6
<1> QED BY <1>1, <1>2, <1>7, <1>8, MessagesMove

LEMMA EventsCoupled ==
  ASSUME Base, Coupled, Events
  PROVE  Coupled'
<1>1. PICK d \in Devs : sta_connection_status(d)
  BY DEF Events
<1>2. UNCHANGED <<up, msgs, thr, sigs, m_state, asteps, json, obj, fresh, case>>
  BY <1>1 DEF Events, sta_connection_status, testVars, gatewayVars
<1>3. UNCHANGED GateVars
  BY AgentLeavesGate
<1>4. PICK frame \in {"joined", "deauth"} : Heard(frame, d)
  BY <1>1 DEF sta_connection_status
<1> DEFINE m == [type |-> frame, dev |-> d]
           n == [type |-> "connected", dev |-> d]
<1>5. /\ m \in Messages /\ n \in Messages
      /\ m.type \notin {"data", "stop"} /\ n.type \notin {"data", "stop"}
      /\ Append(dev, m) \in Seq(Messages) /\ dev \in Seq(Messages)
      /\ dev' = dev \/ dev' = Append(Append(dev, m), n)
  BY <1>4, HeardType DEF Base, WireTypes
<1> HIDE DEF m, n
<1>6. /\ Places(Append(dev, m), "stop") # {} => Places(dev, "stop") # {}
      /\ Others(Append(dev, m)) => Others(dev)
  BY <1>5, StopAndOthersAppend
<1> DEFINE dev2 == Append(Append(dev, m), n)
<1>7. /\ Places(dev2, "stop") # {} => Places(dev, "stop") # {}
      /\ Others(dev2) => Others(dev)
  <2>1. /\ Places(dev2, "stop") # {} => Places(Append(dev, m), "stop") # {}
        /\ Others(dev2) => Others(Append(dev, m))
    BY <1>5, StopAndOthersAppend
  <2> QED BY <1>6, <2>1
<1> HIDE DEF dev2
<1>8. /\ Places(dev', "stop") # {} => Places(dev, "stop") # {}
      /\ Others(dev') => Others(dev)
  <2>1. dev' = dev \/ dev' = dev2
    BY <1>5 DEF dev2
  <2> QED BY <1>7, <2>1
<1>9. StopIn' => StopIn
  BY <1>2, <1>8 DEF StopIn, Live
<1> QED BY <1>2, <1>3, <1>8, <1>9, MessagesMove

LEMMA MainCoupled ==
  ASSUME Base, Coupled, Main
  PROVE  Coupled'
<1>1. /\ UNCHANGED <<up, thr, asteps, json, fresh, case>> /\ UNCHANGED GateVars
      /\ UNCHANGED <<obj, msgs, dev>> \/ (~Live /\ obj /\ LastSignals' = {} /\ ~obj')
      /\ sigs # {} /\ up
  BY MainOfLive, AgentLeavesGate DEF Base, Main, ext_emu_state_machine
<1>2. PICK sig \in sigs : /\ sigs' = sigs \ {sig} /\ m_state' = sig
                          /\ \A other \in sigs :
                               SignalIndex(sig) <= SignalIndex(other)
                          /\ Live => sig \in Good
  BY MainOfLive DEF Base
<1>3. /\ Asked' = Asked /\ Stopped' = Stopped /\ Starters' = Starters
      /\ gip' = gip /\ Live' = Live /\ Bare' = Bare /\ JsonStarter' = JsonStarter
      /\ HasStarter' = HasStarter /\ OwnJson' = OwnJson
  BY <1>1, GateUnchanged
     DEF GateVars, Live, Bare, JsonStarter, HasStarter, OwnJson
<1>4. StopIn' => StopIn
  <2>1. CASE UNCHANGED <<msgs, dev>>
    BY <1>3, <2>1 DEF StopIn
  <2>2. CASE ~Live
    <3>1. dev' = dev \/ dev' = Written([type |-> "close"])
      BY DEF Main, ext_emu_state_machine
    <3>2. dev' = dev \/ dev' = Append(dev, [type |-> "close"])
      BY <3>1, Commanded, WrittenType DEF Base
    <3>3. Places(dev', "stop") # {} => Places(dev, "stop") # {}
      BY <3>2, Commanded, StopAndOthersAppend DEF Base, WireTypes
    <3> QED BY <1>3, <2>2, <3>3 DEF StopIn
  <2> QED BY <1>1, <2>1, <2>2
<1>5. StopsInv'
  BY <1>1, <1>3, <1>4 DEF Coupled, StopsInv
<1>6. RunningInv'
  <2>1. SUFFICES ASSUME Live, \/ "running" \in sigs'
                              \/ /\ thr # "start" /\ m_state' = "running"
                                 /\ "ready" \notin sigs'
                 PROVE  asteps # <<>>
    BY <1>1, <1>3 DEF RunningInv
  <2>2. "running" \in sigs
    BY <1>2, <2>1
  <2> QED BY <2>1, <2>2 DEF Coupled, RunningInv
<1>7. LeakInv'
  <2>1. up' /\ StopIn' /\ (thr' = "start" \/ (thr' = "run" /\ "ready" \in sigs'))
        => Bare'
    BY <1>1, <1>2, <1>3, <1>4 DEF Coupled, LeakInv
  <2>2. ASSUME up', obj', thr' = "over", LastSignals' = {} PROVE Bare'
    <3>1. LastSignals = {}
      <4>1. obj' = obj /\ LastSignals \subseteq {sig}
        BY <1>1, <1>2, <2>2 DEF LastSignals
      <4>2. sig \notin DeletingStates
        BY <1>1, <1>2, <2>2, MainOfLive, MainDeletesEnded
           DEF Base, Main, ext_emu_state_machine, DeletionInv, LastSignals
      <4> QED BY <4>1, <4>2 DEF LastSignals
    <3> QED BY <1>1, <1>3, <2>2, <3>1 DEF Coupled, LeakInv
  <2> QED BY <2>1, <2>2 DEF LeakInv
<1>8. OwnInv'
  <2>1. obj' => obj
    BY <1>1
  <2> QED BY <1>1, <1>3, <2>1 DEF Coupled, OwnInv
<1>9. IdleInv' /\ NoneInv'
  <2>1. ASSUME up, ~Asked, ~Stopped PROVE LastSignals' = {} /\ obj'
    <3>1. LastSignals = {} /\ obj
      BY <1>1, <2>1 DEF Coupled, IdleInv
    <3>2. sig \notin DeletingStates
      BY <1>2, <3>1 DEF LastSignals
    <3>3. obj' = obj
      BY <1>2, <3>2, <3>1, DeletionStep DEF Main, Base, ext_emu_state_machine
    <3>4. LastSignals' = {}
      BY <1>2, <3>1 DEF LastSignals
    <3> QED BY <3>1, <3>3, <3>4
  <2>2. thr = "none" /\ obj => obj'
    BY <1>1, DeletionStep DEF Base, Next
  <2> QED BY <1>1, <1>3, <2>1, <2>2 DEF Coupled, IdleInv, NoneInv
<1>10. FirstInv'
  <2>1. Live /\ Begun' => Begun
    BY <1>1, <1>3 DEF Begun, Others
  <2> QED BY <1>1, <1>3, <2>1 DEF Coupled, FirstInv
<1> QED BY <1>5, <1>6, <1>7, <1>8, <1>9, <1>10 DEF Coupled

(* The test thread. *)
LEMMA StartsCoupled ==
  ASSUME Base, Coupled, Thread, TestStarts
  PROVE  Coupled'
<1>1. /\ thr = "start" /\ thr' = "run" /\ sigs' = Signalled("ready") /\ obj /\ up
      /\ UNCHANGED <<up, msgs, dev, m_state, asteps, json, obj, fresh>>
  BY DEF TestStarts, Thread, deviceVars, worldVars, Base, DeletionInv
<1>2. /\ Asked' = Asked /\ Stopped' = Stopped /\ Starters' = Starters
      /\ gip' = gip /\ case' = case
  BY AgentLeavesGate, GateUnchanged DEF GateVars
<1>3. /\ Live /\ Live' /\ LastSignals' = LastSignals /\ Bare' = Bare
      /\ JsonStarter' = JsonStarter /\ HasStarter' = HasStarter
      /\ OwnJson' = OwnJson /\ StopIn' = StopIn
  BY <1>1, <1>2 DEF Live, LastSignals, Bare, JsonStarter, HasStarter, OwnJson,
                    StopIn, Signalled, DeletingStates
<1>4. StopsInv'
  BY <1>1, <1>2, <1>3 DEF Coupled, StopsInv
<1>5. RunningInv'
  BY <1>1, <1>3 DEF Coupled, RunningInv, Signalled
<1>6. LeakInv'
  BY <1>1, <1>3 DEF Coupled, LeakInv
<1>7. OwnInv' /\ IdleInv' /\ NoneInv'
  BY <1>1, <1>2, <1>3 DEF Coupled, OwnInv, IdleInv, NoneInv
<1>8. FirstInv'
  <2>1. Begun' = Begun
    BY <1>1, <1>2, <1>3 DEF Begun, Others
  <2> QED BY <1>1, <1>3, <2>1 DEF Coupled, FirstInv
<1> QED BY <1>4, <1>5, <1>6, <1>7, <1>8 DEF Coupled

(* A stop that is read: a thread whose last signal is not needed, since the *)
(* main thread is at idle still, has its ready signal on its way.          *)
LEMMA StopCoupled ==
  ASSUME Base, Coupled, Thread, process_msg, Head(msgs).type = "stop", test_stop
  PROVE  Coupled'
<1>1. /\ thr = "run" /\ thr' = "over" /\ sigs' = Signalled("idle") /\ up /\ obj
      /\ msgs # <<>> /\ msgs' = <<>> /\ asteps' = <<>>
      /\ UNCHANGED <<up, dev, m_state, json, obj, fresh>>
  BY DEF process_msg, test_stop, Thread, deviceVars, worldVars, Base, DeletionInv
<1>2. /\ Asked' = Asked /\ Stopped' = Stopped
  BY AgentLeavesGate, GateUnchanged
<1>3. StopIn
  BY <1>1, StopAndOthersTail DEF Base, WireTypes, StopIn, Live
<1>4. Stopped /\ Asked
  BY <1>1, <1>3 DEF Coupled, StopsInv
<1>5. ASSUME LastSignals' = {} PROVE Bare'
  <2>1. m_state = "idle"
    BY <1>1, <1>5 DEF LastSignals, Signalled, DeletingStates
  <2>2. "ready" \in sigs
    BY <1>1, <2>1 DEF Base, ReadyInv, Good
  <2> QED BY <1>1, <1>3, <2>2 DEF Coupled, LeakInv, Bare
<1>6. LeakInv'
  BY <1>1, <1>5 DEF LeakInv
<1> QED BY <1>1, <1>2, <1>4, <1>6
     DEF Coupled, StopsInv, RunningInv, OwnInv, IdleInv, NoneInv, FirstInv, Live

LEMMA StarterKept ==
  ASSUME NEW steps, NEW others, SameJobs(steps, others),
         \E i \in DOMAIN others : others[i].job.num \in Starters
  PROVE  \E i \in DOMAIN steps : steps[i].job.num \in Starters
BY DEF SameJobs

(* A configuration or a frame that is read. *)
LEMMA MessageEffect ==
  ASSUME Base, process_msg, UNCHANGED thr
  PROVE  /\ asteps # <<>> => asteps' # <<>>
         /\ asteps' # <<>> => asteps # <<>> \/ Head(msgs).type = "data"
         /\ HasStarter => \E i \in DOMAIN asteps' : asteps'[i].job.num \in Starters
         /\ Head(msgs).type = "data" /\ Head(msgs).job.num \in Starters
            => \E i \in DOMAIN asteps' : asteps'[i].job.num \in Starters
         /\ msgs' = Tail(msgs) /\ sigs' = sigs /\ obj' = obj
<1>1. /\ \/ Head(msgs).type = "data" /\ wlan_ext_step_execute(Head(msgs).job)
         \/ wlan_ext_step_frame_filter(Head(msgs))
      /\ msgs' = Tail(msgs) /\ sigs' = sigs /\ obj' = obj
  BY DEF process_msg, test_stop
<1>2. Head(msgs) \in Messages /\ WireTypes /\ asteps \in Seq(StepRecords)
  BY TailType DEF process_msg, Base, WireTypes
<1>3. CASE wlan_ext_step_frame_filter(Head(msgs))
  <2>1. SameJobs(asteps', asteps)
    BY <1>2, <1>3, FrameEffect
  <2>2. asteps' # <<>> <=> asteps # <<>>
    <3>1. asteps' \in Seq(StepRecords) /\ DOMAIN asteps' = DOMAIN asteps
      BY <2>1 DEF SameJobs
    <3> QED BY <1>2, <3>1
  <2>3. Head(msgs).type # "data"
    BY <1>3 DEF wlan_ext_step_frame_filter
  <2> QED BY <1>1, <2>1, <2>2, <2>3, StarterKept DEF HasStarter
<1>4. CASE Head(msgs).type = "data" /\ wlan_ext_step_execute(Head(msgs).job)
  <2>1. PICK steps, e : /\ SameJobs(steps, asteps)
                        /\ e \in StepRecords /\ e.job = Head(msgs).job
                        /\ asteps' = Append(steps, e)
    BY <1>2, <1>4, Commands, ExecuteEffect
  <2>2. /\ DOMAIN asteps' = DOMAIN steps \cup {Len(steps) + 1}
        /\ \A i \in DOMAIN steps : asteps'[i] = steps[i]
        /\ asteps'[Len(steps) + 1] = e
        /\ asteps' # <<>>
    BY <2>1, AppendType DEF SameJobs
  <2>3. HasStarter => \E i \in DOMAIN steps : steps[i].job.num \in Starters
    BY <2>1, StarterKept DEF HasStarter
  <2> QED BY <1>1, <1>4, <2>1, <2>2, <2>3
<1> QED BY <1>1, <1>3, <1>4

LEMMA MessageCoupled ==
  ASSUME Base, Coupled, Thread, process_msg, UNCHANGED thr
  PROVE  Coupled'
<1>1. /\ thr = "run" /\ up /\ obj /\ msgs # <<>> /\ msgs' = Tail(msgs)
      /\ UNCHANGED <<up, thr, sigs, dev, m_state, json, obj, fresh>>
  BY MessageEffect DEF process_msg, Thread, deviceVars, worldVars, Base, DeletionInv
<1>2. /\ Asked' = Asked /\ Stopped' = Stopped /\ Starters' = Starters
      /\ gip' = gip /\ case' = case
  BY AgentLeavesGate, GateUnchanged DEF GateVars
<1>3. /\ Live /\ Live' /\ LastSignals' = LastSignals /\ Bare' = Bare
      /\ JsonStarter' = JsonStarter /\ OwnJson' = OwnJson
  BY <1>1, <1>2 DEF Live, LastSignals, Bare, JsonStarter, OwnJson
<1>4. /\ Places(msgs', "stop") # {} => Places(msgs, "stop") # {}
      /\ Others(msgs') => Others(msgs)
      /\ Head(msgs).type = "data" /\ Head(msgs).job.num \notin Starters => Others(msgs)
  BY <1>1, StopAndOthersTail DEF Base, WireTypes
<1>5. StopIn' => StopIn
  BY <1>1, <1>3, <1>4 DEF StopIn
<1>6. StopsInv' /\ LeakInv'
  BY <1>1, <1>2, <1>3, <1>5 DEF Coupled, StopsInv, LeakInv
<1>7. RunningInv'
  BY <1>1, <1>3, MessageEffect DEF Coupled, RunningInv
<1>8. OwnInv' /\ IdleInv' /\ NoneInv'
  BY <1>1, <1>2, <1>3 DEF Coupled, OwnInv, IdleInv, NoneInv
<1>9. FirstInv'
  <2>1. HasStarter' = \E i \in DOMAIN asteps' : asteps'[i].job.num \in Starters
    BY <1>2 DEF HasStarter
  <2>2. Others(dev)' = Others(dev') /\ Others(msgs)' = Others(msgs')
    BY <1>2 DEF Others
  <2>3. Begun' => Begun \/ (Head(msgs).type = "data"
                            /\ Head(msgs).job.num \in Starters)
    BY <1>1, <1>2, <1>3, <1>4, <2>2, MessageEffect DEF Begun
  <2> QED BY <1>1, <1>3, <2>1, <2>3, MessageEffect DEF Coupled, FirstInv
<1> QED BY <1>6, <1>7, <1>8, <1>9 DEF Coupled

LEMMA ReportsCoupled ==
  ASSUME Base, Coupled, Thread, TestReports
  PROVE  Coupled'
<1>1. /\ thr = "report" /\ thr' = "run" /\ up /\ obj
      /\ json' = [state |-> m_state, steps |-> wlan_ext_step_status_update(asteps)]
      /\ UNCHANGED <<up, msgs, dev, sigs, m_state, asteps, obj>>
  BY DEF TestReports, deviceVars, worldVars, Base, DeletionInv
<1>2. /\ Asked' = Asked /\ Stopped' = Stopped /\ Starters' = Starters
      /\ gip' = gip /\ case' = case
  BY AgentLeavesGate, GateUnchanged DEF GateVars
<1>3. /\ Live /\ Live' /\ LastSignals' = LastSignals /\ HasStarter' = HasStarter
      /\ StopIn' = StopIn
  BY <1>1, <1>2 DEF Live, LastSignals, HasStarter, StopIn
<1>4. /\ json'.state = m_state /\ DOMAIN json'.steps = DOMAIN asteps
      /\ \A i \in DOMAIN asteps : json'.steps[i].job = asteps[i].job
  BY <1>1, Reported DEF Base, WireTypes
<1>5. JsonStarter' = HasStarter
  BY <1>2, <1>4 DEF JsonStarter, HasStarter
<1>6. "ready" \notin sigs
  BY <1>1 DEF Base, ReadyInv
<1>7. OwnJson'
  <2>1. \A i \in DOMAIN asteps : asteps[i].job.case = case
    BY <1>1 DEF Base, SettledInv, CaseInv
  <2>2. m_state = "running" => HasStarter
    <3>1. m_state = "running" => asteps # <<>>
      BY <1>1, <1>3, <1>6 DEF Coupled, RunningInv
    <3> QED BY <1>1, <1>3, <3>1 DEF Coupled, FirstInv, Begun
  <2> QED BY <1>2, <1>4, <1>5, <2>1, <2>2 DEF OwnJson
<1>8. StopsInv' /\ RunningInv' /\ LeakInv'
  BY <1>1, <1>2, <1>3, <1>6 DEF Coupled, StopsInv, RunningInv, LeakInv
<1>9. OwnInv' /\ IdleInv' /\ NoneInv'
  BY <1>1, <1>2, <1>3, <1>7 DEF Coupled, OwnInv, IdleInv, NoneInv
<1>10. FirstInv'
  <2>1. Begun' => Begun \/ HasStarter
    BY <1>1, <1>2, <1>5 DEF Begun, Others
  <2> QED BY <1>1, <1>3, <2>1 DEF Coupled, FirstInv
<1> QED BY <1>8, <1>9, <1>10 DEF Coupled

LEMMA TickCoupled ==
  ASSUME Ticks, Base, Coupled, Second
  PROVE  Coupled'
<1>1. /\ sigs = {} /\ thr = "run" /\ m_state \in Good /\ up /\ obj
      /\ UNCHANGED <<up, msgs, dev, m_state, obj, fresh>>
  BY TickIsGood DEF Base, Second, TestTicks, deviceVars, worldVars, gatewayVars,
                    DeletionInv
<1>2. /\ Asked' = Asked /\ Stopped' = Stopped /\ Starters' = Starters
      /\ gip' = gip /\ case' = case
  BY AgentLeavesGate, GateUnchanged DEF GateVars
<1>3. PICK over : LET steps == [i \in DOMAIN asteps |->
                                  wlan_ext_step_timeout(asteps[i], over)]
                  IN TestFails(steps) \/ TestGoesOn(steps)
  BY DEF Second, TestTicks
<1> DEFINE steps == [i \in DOMAIN asteps |-> wlan_ext_step_timeout(asteps[i], over)]
<1>4. SameJobs(steps, asteps) /\ steps \in Seq(StepRecords)
  BY TimeoutEffect DEF SameJobs, Base
<1>5. asteps \in Seq(StepRecords)
  BY DEF Base, WireTypes
<1> HIDE DEF steps
<1>6. steps # <<>> <=> asteps # <<>>
  BY <1>4, <1>5 DEF SameJobs
<1>7. Live
  BY <1>1 DEF Live
<1>8. CASE TestFails(steps)
  <2>1. /\ thr' = "over" /\ sigs' = Signalled("fail") /\ asteps' = <<>>
        /\ json'.state = "fail"
        /\ \A i \in DOMAIN json'.steps :
             i \in DOMAIN steps /\ json'.steps[i].job = steps[i].job
        /\ steps # <<>>
    BY <1>4, <1>8, FailureReported DEF TestFails
  <2>2. LastSignals' # {}
    BY <1>1, <2>1 DEF LastSignals, Signalled, DeletingStates, Good
  <2>3. Asked
    <3>1. keyed # {}
      BY <1>1, <1>6, <1>7, <2>1 DEF Base, SettledInv, LoadInv, Loaded
    <3> QED BY <3>1 DEF Base, AskedInv
  <2>4. OwnJson'
    <3>1. \A i \in DOMAIN steps : steps[i].job.case = case
      BY <1>1, <1>4 DEF Base, SettledInv, CaseInv, SameJobs
    <3> QED BY <1>2, <2>1, <3>1 DEF OwnJson
  <2>5. ~Live'
    BY <2>1 DEF Live
  <2>6. StopIn' => StopIn
    BY <1>1, <2>5 DEF StopIn
  <2>7. StopsInv'
    BY <1>1, <1>2, <2>6 DEF Coupled, StopsInv
  <2> QED BY <1>1, <1>2, <2>1, <2>2, <2>3, <2>4, <2>5, <2>7
       DEF Coupled, RunningInv, LeakInv, OwnInv, IdleInv, NoneInv, FirstInv
<1>9. CASE TestGoesOn(steps)
  <2>1. /\ thr' = "report" /\ asteps' = steps /\ json' = json
        /\ sigs' = sigs \/ (steps # <<>> /\ sigs' \in {Signalled("complete"),
                                                       Signalled("running")})
    BY <1>9 DEF TestGoesOn
  <2>2. sigs' \subseteq {"complete", "running"} /\ ("running" \in sigs' => steps # <<>>)
    BY <1>1, <2>1 DEF Signalled
  <2>3. /\ Live' /\ LastSignals' = {} /\ JsonStarter' = JsonStarter
        /\ OwnJson' = OwnJson
    BY <1>2, <2>1, <2>2 DEF Live, LastSignals, DeletingStates, JsonStarter, OwnJson
  <2>4. StopIn' => StopIn
    BY <1>1, <1>7, <2>3 DEF StopIn
  <2>5. StopsInv'
    BY <1>1, <1>2, <2>4 DEF Coupled, StopsInv
  <2>6. RunningInv'
    <3>1. m_state = "running" => asteps # <<>>
      BY <1>1, <1>7 DEF Coupled, RunningInv
    <3> QED BY <1>1, <1>6, <2>1, <2>2, <3>1 DEF RunningInv
  <2>7. LeakInv' /\ OwnInv' /\ IdleInv' /\ NoneInv'
    BY <1>1, <1>2, <2>1, <2>3 DEF Coupled, LeakInv, OwnInv, IdleInv, NoneInv
  <2>8. FirstInv'
    <3>1. Begun' => Begun
      BY <1>1, <1>2, <1>6, <2>1, <2>3 DEF Begun, Others
    <3>2. HasStarter => HasStarter'
      BY <1>2, <1>4, <2>1, StarterKept DEF HasStarter
    <3> QED BY <1>1, <1>7, <3>1, <3>2 DEF Coupled, FirstInv
  <2> QED BY <2>5, <2>6, <2>7, <2>8 DEF Coupled
<1> QED BY <1>3, <1>8, <1>9 DEF steps

LEMMA ThreadCoupled ==
  ASSUME Base, Coupled, Thread
  PROVE  Coupled'
<1>1. CASE process_msg
  <2>1. CASE UNCHANGED thr
    BY <1>1, <2>1, MessageCoupled
  <2>2. CASE Head(msgs).type = "stop" /\ test_stop
    BY <1>1, <2>2, StopCoupled
  <2> QED BY <1>1, <2>1, <2>2 DEF process_msg
<1>2. CASE TestCleans
  <2>1. UNCHANGED <<up, thr, sigs, m_state, asteps, json, obj, msgs, dev, case>>
    BY <1>2 DEF TestCleans, Thread, testVars, deviceVars, worldVars
  <2>2. fresh' = fresh
    BY <2>1 DEF Thread
  <2>3. UNCHANGED GateVars
    BY AgentLeavesGate
  <2>4. StopIn' => StopIn
    BY <2>1 DEF StopIn, Live
  <2> QED BY <2>1, <2>2, <2>3, <2>4, MessagesMove
<1> QED BY <1>1, <1>2, StartsCoupled, ReportsCoupled DEF Thread, TestThread

(* The gateway.  A step that begins with the start of the agent finds it    *)
(* without a test, or with one no stop was sent to.                        *)
LEMMA BeginCoupled ==
  ASSUME OneStart, Base, Coupled, NEW s \in Steps, BeginSta(s) \/ BeginEth(s)
  PROVE  Coupled'
<1>1. /\ Turn(s) /\ s \in Starters /\ fresh' = fresh /\ case' = case /\ gip' = gip
  BY DEF BeginSta, BeginEth, Starters
<1>2. ~Asked /\ ~Stopped
  BY <1>1, BeginsOnce DEF Base
<1>3. [Next]_vars /\ Starters' = Starters
  BY PlanStays DEF Next, Gateway
<1>4. Asked'
  <2>1. \/ pc' = At("status", s)
        \/ Becomes(s, "abort")
    BY DEF BeginSta, BeginEth
  <2>2. Becomes(s, "abort") => gst'[s] = "abort"
    BY DEF Becomes, Base, OwnTypes
  <2> QED BY <1>1, <1>3, <2>1, <2>2, Phases DEF Asked
<1>5. \/ AgentUnchanged /\ Becomes(s, "abort")
      \/ \E started \in BOOLEAN :
           agent_start(started) /\ up /\ (Becomes(s, "abort") \/ started)
  BY DEF BeginSta, BeginEth, StartSent, StartFailed, Unanswered
<1>6. Becomes(s, "abort") => Stopped'
  <2>1. Becomes(s, "abort") => gst'[s] = "abort"
    BY DEF Becomes, Base, OwnTypes
  <2> QED BY <2>1 DEF Stopped
<1>7. up => ~StopIn
  BY <1>2 DEF Coupled, StopsInv
<1>8. ASSUME UNCHANGED <<up, thr, sigs, m_state, asteps, json, obj, msgs, dev>>,
             obj \/ Stopped'
      PROVE  Coupled'
  <2>1. /\ Live' = Live /\ LastSignals' = LastSignals /\ Bare' = Bare
        /\ JsonStarter' = JsonStarter /\ HasStarter' = HasStarter
        /\ OwnJson' = OwnJson /\ StopIn' = StopIn
    BY <1>1, <1>3, <1>8 DEF Live, LastSignals, Bare, JsonStarter, HasStarter,
                            OwnJson, StopIn
  <2>2. StopsInv' /\ RunningInv' /\ LeakInv'
    BY <1>7, <1>8, <2>1 DEF Coupled, StopsInv, RunningInv, LeakInv
  <2>3. OwnInv' /\ IdleInv' /\ NoneInv'
    BY <1>1, <1>2, <1>4, <1>8, <2>1 DEF Coupled, OwnInv, IdleInv, NoneInv
  <2>4. FirstInv'
    <3>1. Begun' = Begun
      BY <1>1, <1>3, <1>8, <2>1 DEF Begun, Others
    <3> QED BY <1>8, <2>1, <3>1 DEF Coupled, FirstInv
  <2> QED BY <2>2, <2>3, <2>4 DEF Coupled
<1>9. CASE AgentUnchanged /\ Becomes(s, "abort")
  <2>1. UNCHANGED <<up, thr, sigs, m_state, asteps, json, obj, msgs, dev>>
    BY <1>9 DEF AgentUnchanged, agentVars, testVars, deviceVars, worldVars
  <2> QED BY <1>6, <1>8, <1>9, <2>1
<1>10. ASSUME NEW started \in BOOLEAN, agent_start(started), up
       PROVE  Coupled'
  <2>1. UNCHANGED <<up, sigs, m_state, json, dev>>
    BY <1>10 DEF agent_start, worldVars
  <2>2. CASE obj
    <3>1. UNCHANGED <<thr, asteps, obj, msgs>>
      BY <1>10, <2>2 DEF agent_start, NewTest, testVars
    <3> QED BY <1>8, <2>1, <2>2, <3>1
  <2>3. CASE ~obj
    <3>1. obj' /\ thr' \in {"start", "none"} /\ msgs' = <<>> /\ asteps' = <<>>
      BY <1>10, <2>3 DEF agent_start, NewTest
    <3>2. sigs' = {} /\ fresh' = {}
      BY <1>1, <1>2, <1>10, <2>1, <2>3 DEF Coupled, IdleInv
    <3>3. ~StopIn'
      BY <1>7, <1>10, <2>1, <3>1, NoCommands DEF StopIn
    <3>4. ~Begun'
      <4>1. Places(dev, "data") = {}
        BY <1>2, <1>10 DEF Base, SettledInv, LoadInv, AskedInv
      <4>2. \A e \in Starters : ~gip[e]
        BY <1>2 DEF Base, AskedInv, Starters, Stations, Ethernets
      <4>3. ~Others(msgs)'
        BY <3>1, NoCommands DEF Others
      <4>4. ~Others(dev)'
        BY <2>1, <4>1 DEF Others
      <4> QED BY <1>1, <1>3, <3>1, <3>2, <4>2, <4>3, <4>4 DEF Begun
    <3>5. LastSignals' = {}
      BY <3>2 DEF LastSignals
    <3> QED BY <1>4, <2>1, <3>1, <3>2, <3>3, <3>4, <3>5
         DEF Coupled, StopsInv, RunningInv, LeakInv, OwnInv, IdleInv, NoneInv,
             FirstInv, Live
  <2> QED BY <2>2, <2>3
<1> QED BY <1>5, <1>9, <1>10

(* The steps of the gateway within a case that asked the agent already, or  *)
(* that leave it alone.                                                    *)
LEMMA WithinCoupled ==
  ASSUME Base, Coupled, ~Stopped, Asked' => Asked, Asked => Asked', case' = case,
         UNCHANGED <<up, thr, sigs, m_state, asteps, json, obj, msgs>>,
         fresh' = fresh \/ (Asked /\ (fresh' # {} => fresh # {})),
         Starters' = Starters,
         Places(dev', "stop") # {} => Places(dev, "stop") # {},
         up /\ Live /\ (Others(dev') \/ \E e \in Starters : gip'[e])
           => Begun \/ HasStarter
  PROVE  Coupled'
<1>1. /\ Live' = Live /\ LastSignals' = LastSignals /\ Bare' = Bare
      /\ JsonStarter' = JsonStarter /\ HasStarter' = HasStarter
      /\ OwnJson' = OwnJson
  BY DEF Live, LastSignals, Bare, JsonStarter, HasStarter, OwnJson
<1>2. StopIn' => StopIn
  BY <1>1 DEF StopIn
<1>3. StopsInv' /\ RunningInv' /\ LeakInv'
  BY <1>1, <1>2 DEF Coupled, StopsInv, RunningInv, LeakInv
<1>4. OwnInv' /\ IdleInv' /\ NoneInv'
  BY <1>1 DEF Coupled, OwnInv, IdleInv, NoneInv
<1>5. FirstInv'
  <2>1. Others(dev)' = Others(dev') /\ Others(msgs)' = Others(msgs)
    BY DEF Others
  <2>2. up /\ Live /\ Begun' => Begun \/ HasStarter
    BY <1>1, <2>1 DEF Begun
  <2> QED BY <1>1, <2>2 DEF Coupled, FirstInv
<1> QED BY <1>3, <1>4, <1>5 DEF Coupled

LEMMA IperfCoupled ==
  ASSUME Base, Coupled, NEW s \in Steps, BeginIperf(s)
  PROVE  Coupled'
<1>1. /\ AgentUnchanged /\ UNCHANGED <<case, fresh, gip>> /\ pc = Testing
      /\ \A e \in Steps : gst[e] # "abort"
      /\ s \notin Starters
      /\ \/ pc' = pc /\ Becomes(s, "abort")
         \/ pc' = At("config", s) /\ gst' = gst
  BY DEF BeginIperf, Turn, Starters
<1>2. UNCHANGED <<up, thr, sigs, m_state, asteps, json, obj, msgs, dev>>
  BY <1>1 DEF AgentUnchanged, agentVars, testVars, deviceVars, worldVars
<1>3. [Next]_vars /\ ~NextCase
  BY <1>1, Phases DEF Next, Gateway, NextCase
<1>4. Starters' = Starters /\ Starters \subseteq Steps
  BY <1>3, PlanStays DEF Starters, Stations, Ethernets
<1>5. ~Stopped
  BY <1>1, Phases DEF Stopped
<1>6. Asked => Asked'
  BY <1>3, AskedStays DEF Base
<1>7. Asked' => Asked
  <2>1. \A e \in Starters : gst'[e] = gst[e]
    BY <1>1, <1>4 DEF Becomes, Base, OwnTypes
  <2>2. \A e \in Starters : ~(pc'.at \in {"status", "config"} /\ pc'.step = e)
    BY <1>1, Phases
  <2> QED BY <1>4, <2>1, <2>2 DEF Asked
<1>8. (Others(dev') \/ \E e \in Starters : gip'[e]) => Begun
  BY <1>1, <1>2, <1>4 DEF Begun
<1> QED BY <1>1, <1>2, <1>4, <1>5, <1>6, <1>7, <1>8, WithinCoupled

LEMMA StatusCoupled ==
  ASSUME Base, Coupled, NEW s \in Steps, GetStatus(s)
  PROVE  Coupled'
<1>1. AgentUnchanged /\ UNCHANGED <<case, fresh, gip>> /\ pc.at = "status"
  BY Phases DEF GetStatus, Unanswered
<1>2. UNCHANGED <<up, thr, sigs, m_state, asteps, json, obj, msgs, dev>>
  BY <1>1 DEF AgentUnchanged, agentVars, testVars, deviceVars, worldVars
<1>3. [Next]_vars /\ ~NextCase
  BY <1>1, Phases DEF Next, Gateway, NextCase
<1>4. Starters' = Starters
  BY <1>3, PlanStays
<1>5. Asked /\ ~Stopped
  BY <1>1 DEF Base, AskedInv, PlaceInv, Stopped
<1>6. Asked'
  BY <1>3, <1>5, AskedStays DEF Base
<1>7. (Others(dev') \/ \E e \in Starters : gip'[e]) => Begun
  BY <1>1, <1>2, <1>4 DEF Begun
<1> QED BY <1>1, <1>2, <1>4, <1>5, <1>6, <1>7, WithinCoupled

(* A configuration that is not the one of a starter is sent when some       *)
(* starter has reported.                                                   *)
LEMMA ConfigCoupled ==
  ASSUME Base, Coupled, NEW s \in Steps, PostConfig(s)
  PROVE  Coupled'
<1>1. /\ pc = At("config", s) /\ pc.at = "config" /\ pc.step = s
      /\ UNCHANGED <<case, gip>> /\ fresh' \subseteq fresh
  BY Phases DEF PostConfig
<1> DEFINE m == [type |-> "data", job |-> Job(s)]
<1>2. \/ AgentUnchanged
      \/ \E written \in BOOLEAN : agent_endpoint_testconfig(Job(s), written)
  BY DEF PostConfig, Posted, NotPosted, Unanswered
<1>3. UNCHANGED <<up, thr, sigs, m_state, asteps, json, obj, msgs>>
      /\ dev' \in {dev, Written(m)}
  BY <1>2 DEF AgentUnchanged, agentVars, testVars, deviceVars, worldVars,
              agent_endpoint_testconfig
<1>4. m \in Messages /\ m.type = "data" /\ m.job.num = s /\ dev \in Seq(Messages)
  BY Commanded, JobType DEF Base, WireTypes, Job
<1> HIDE DEF m
<1>5. dev' = dev \/ dev' = Append(dev, m)
  BY <1>3, <1>4, WrittenType DEF Base
<1>6. [Next]_vars /\ ~NextCase
  BY <1>1, Phases DEF Next, Gateway, NextCase
<1>7. Starters' = Starters
  BY <1>6, PlanStays
<1>8. Asked /\ ~Stopped
  BY <1>1 DEF Base, AskedInv, PlaceInv, Stopped
<1>9. Asked'
  BY <1>6, <1>8, AskedStays DEF Base
<1>10. /\ Places(dev', "stop") # {} => Places(dev, "stop") # {}
       /\ Others(dev') => Others(dev) \/ s \notin Starters
  BY <1>4, <1>5, StopAndOthersAppend
<1>11. s \notin Starters => \E e \in Starters : gip[e]
  BY <1>1 DEF Base, PlaceInv
<1>12. (Others(dev') \/ \E e \in Starters : gip'[e]) => Begun
  BY <1>1, <1>10, <1>11 DEF Begun
<1> QED BY <1>1, <1>3, <1>7, <1>8, <1>9, <1>10, <1>12, WithinCoupled

(* An address is read from the status of a thread that has reported. *)
LEMMA PollCoupled ==
  ASSUME Ticks, Base, Coupled, NEW s \in Steps, step_timeout(s)
  PROVE  Coupled'
<1>1. /\ AgentUnchanged /\ case' = case /\ pc = Testing /\ pc.at = "test"
      /\ gst[s] \in {"continue", "wait"} /\ (\A e \in Steps : gst[e] # "abort")
      /\ fresh' \subseteq fresh
      /\ s \in fresh \/ thr \in {"none", "over"} \/ ~up
  BY Phases DEF step_timeout, Unanswered, Ticks
<1>2. UNCHANGED <<up, thr, sigs, m_state, asteps, json, obj, msgs, dev>>
  BY <1>1 DEF AgentUnchanged, agentVars, testVars, deviceVars, worldVars
<1>3. [Next]_vars /\ ~NextCase
  BY <1>1, Phases DEF Next, Gateway, NextCase
<1>4. Starters' = Starters /\ Starters \subseteq Steps
  BY <1>3, PlanStays DEF Starters, Stations, Ethernets
<1>5. Asked /\ ~Stopped
  BY <1>1 DEF Base, AskedInv, Stopped
<1>6. Asked'
  BY <1>3, <1>5, AskedStays DEF Base
<1>7. ASSUME up, Live, NEW e \in Starters, gip'[e] PROVE Begun
  <2>1. CASE gip[e]
    BY <2>1 DEF Begun
  <2>2. CASE ~gip[e]
    <3>1. e = s /\ Listed(s) # 0
      BY <1>4, <1>7, <2>2 DEF step_timeout, Polled, Base, OwnTypes
    <3>2. JsonStarter
      BY <1>7, <3>1, ListedFinds DEF JsonStarter, Base, OwnTypes
    <3>3. fresh # {}
      BY <1>1, <1>7 DEF Live
    <3> QED BY <3>2, <3>3 DEF Begun
  <2> QED BY <2>1, <2>2
<1>8. up /\ Live /\ (Others(dev') \/ \E e \in Starters : gip'[e]) => Begun
  BY <1>2, <1>7 DEF Begun
<1> QED BY <1>1, <1>2, <1>4, <1>5, <1>6, <1>8, WithinCoupled

(* A stop: the status it leaves lists no step. *)
LEMMA StopsCoupled ==
  ASSUME Drops, NoneLost, Base, Coupled, NEW s \in Steps,
         SendStop(s) \/ step_remove(s) \/ TestEnds
  PROVE  Coupled'
<1>1. /\ UNCHANGED <<case, fresh, gip, gst>>
  BY DEF SendStop, step_remove, TestEnds
<1>2. /\ [Next]_vars /\ ~NextCase
  BY Phases DEF SendStop, step_remove, TestEnds, Next, Gateway, NextCase
<1>3. Starters' = Starters /\ Ethernets \subseteq Starters
  BY <1>2, PlanStays DEF Starters
<1>4. Stopped'
  <2>1. CASE SendStop(s)
    <3>1. pc.at = "stop"
      BY <2>1, Phases DEF SendStop
    <3>2. gst[pc.step] = "abort" /\ pc.step \in Steps
      BY <3>1 DEF Base, PlaceInv, Ethernets
    <3> QED BY <1>1, <3>2 DEF Stopped
  <2>2. CASE step_remove(s) \/ TestEnds
    BY <2>2, Phases DEF step_remove, TestEnds, Stopped
  <2> QED BY <2>1, <2>2
<1>5. Asked => Asked'
  BY <1>2, AskedStays DEF Base
<1>6. \/ AgentUnchanged
      \/ up /\ agent_stop /\ Asked
  <2>1. SendStop(s) => Asked
    <3>1. SendStop(s) => pc.at = "stop"
      BY Phases DEF SendStop
    <3> QED BY <1>3, <3>1 DEF Base, PlaceInv, Asked
  <2>2. s \in keyed => Asked
    BY DEF Base, AskedInv
  <2> QED BY <2>1, <2>2 DEF SendStop, step_remove, TestEnds, StopSent, NoneLost
<1>7. CASE AgentUnchanged
  <2>1. UNCHANGED <<up, thr, sigs, m_state, asteps, json, obj, msgs, dev>>
    BY <1>7 DEF AgentUnchanged, agentVars, testVars, deviceVars, worldVars
  <2>2. /\ Live' = Live /\ LastSignals' = LastSignals /\ Bare' = Bare
        /\ JsonStarter' = JsonStarter /\ HasStarter' = HasStarter
        /\ StopIn' = StopIn
    BY <1>1, <1>3, <2>1 DEF Live, LastSignals, Bare, JsonStarter, HasStarter, StopIn
  <2>3. Begun' = Begun
    BY <1>1, <1>3, <2>1, <2>2 DEF Begun, Others
  <2> QED BY <1>4, <1>5, <2>1, <2>2, <2>3
       DEF Coupled, StopsInv, RunningInv, LeakInv, OwnInv, IdleInv, NoneInv, FirstInv
<1>8. CASE up /\ agent_stop /\ Asked
  <2> DEFINE m == [type |-> "stop"]
  <2>1. /\ UNCHANGED <<up, thr, sigs, m_state, asteps, obj, msgs>>
        /\ \/ UNCHANGED <<dev, json>> /\ json = Empty
           \/ dev' = Written(m) /\ json' = [state |-> "idle", steps |-> <<>>]
    BY <1>8 DEF agent_stop, testVars, worldVars
  <2>2. m \in Messages /\ m.type = "stop" /\ dev \in Seq(Messages)
    BY Commanded DEF Base, WireTypes
  <2> HIDE DEF m
  <2>3. dev' = dev \/ dev' = Append(dev, m)
    BY <2>1, <2>2, WrittenType DEF Base
  <2>4. json'.steps = <<>> /\ json'.state # "running"
    BY <2>1 DEF Empty
  <2>5. Bare' /\ ~JsonStarter'
    BY <2>4 DEF Bare, JsonStarter
  <2>6. Others(dev') => Others(dev)
    BY <2>2, <2>3, StopAndOthersAppend
  <2>7. Live' = Live /\ HasStarter' = HasStarter
    BY <1>3, <2>1 DEF Live, HasStarter
  <2>8. Begun' => Begun
    BY <1>1, <1>3, <2>1, <2>5, <2>6 DEF Begun, Others
  <2> QED BY <1>4, <1>5, <1>8, <2>1, <2>5, <2>7, <2>8
       DEF Coupled, StopsInv, RunningInv, LeakInv, OwnInv, IdleInv, NoneInv, FirstInv
<1> QED BY <1>6, <1>7, <1>8

(* A new case: the agent has settled, so that a test whose thread has ended *)
(* and that is not deleted has left a status without steps.                *)
LEMMA NextCaseCoupled ==
  ASSUME Patience, Base, Coupled, NextCase
  PROVE  Coupled'
<1>1. /\ UNCHANGED <<up, thr, sigs, m_state, asteps, json, obj, msgs, dev>>
      /\ pc' = Testing /\ fresh' = {} /\ pc.at = "over"
      /\ gst' = [s \in Steps |-> "pending"] /\ gip' = [s \in Steps |-> FALSE]
  BY Phases DEF NextCase, AgentUnchanged, agentVars, testVars, deviceVars, worldVars
<1>2. Starters' = Starters /\ Starters \subseteq Steps
  BY PlanStays DEF Next, Gateway, Starters, Stations, Ethernets
<1>3. ~Asked' /\ ~Stopped'
  BY <1>1, <1>2, Phases DEF Asked, Stopped
<1>4. up => /\ sigs = {} /\ dev = <<>> /\ (Live => asteps = <<>> /\ msgs = <<>>)
            /\ thr # "start"
  <2> SUFFICES ASSUME up
               PROVE  /\ sigs = {} /\ dev = <<>> /\ thr # "start"
                      /\ Live => asteps = <<>> /\ msgs = <<>>
    OBVIOUS
  <2>1. Quiet
    BY DEF NextCase, Patience
  <2>2. sigs = {} /\ dev = <<>> /\ thr # "start" /\ (Live => msgs = <<>>)
    BY <2>1 DEF Quiet, Base, CountInv, Live
  <2>3. Live => asteps = <<>>
    BY <2>2, NextCaseEmpty DEF Base, Patience
  <2> QED BY <2>2, <2>3
<1>5. /\ Live' = Live /\ LastSignals' = LastSignals /\ Bare' = Bare
  BY <1>1 DEF Live, LastSignals, Bare
<1>6. up => ~StopIn'
  BY <1>1, <1>4, <1>5, NoCommands DEF StopIn
<1>7. up /\ Live => ~Begun'
  <2>1. ASSUME up, Live PROVE ~Others(dev)' /\ ~Others(msgs)'
    BY <1>1, <1>4, <2>1, NoCommands DEF Others
  <2> QED BY <1>1, <1>2, <1>4, <2>1 DEF Begun
<1>8. up /\ thr = "over" /\ obj => OwnJson'
  <2>1. up /\ thr = "over" /\ obj => Bare
    BY <1>4 DEF Coupled, LeakInv, LastSignals
  <2> QED BY <1>1, <2>1 DEF Bare, OwnJson
<1>9. RunningInv'
  BY <1>1, <1>5 DEF Coupled, RunningInv
<1>10. StopsInv' /\ LeakInv'
  BY <1>1, <1>4, <1>5, <1>6 DEF Coupled, StopsInv, LeakInv
<1>11. OwnInv' /\ NoneInv'
  BY <1>1, <1>3, <1>8 DEF OwnInv, NoneInv
<1>12. IdleInv'
  BY <1>1, <1>4 DEF IdleInv, LastSignals
<1>13. FirstInv'
  BY <1>1, <1>5, <1>7 DEF FirstInv
<1> QED BY <1>9, <1>10, <1>11, <1>12, <1>13 DEF Coupled

LEMMA CoupledStep ==
  ASSUME Drops, NoneLost, Patience, Ticks, OneStart, Base, Coupled, [Next]_vars
  PROVE  Coupled'
<1>1. CASE Gateway
  <2>1. ASSUME NEW s \in Steps, BeginSta(s) \/ BeginEth(s) PROVE Coupled'
    BY <2>1, BeginCoupled
  <2>2. ASSUME NEW s \in Steps, BeginIperf(s) \/ GetStatus(s) \/ PostConfig(s)
        PROVE  Coupled'
    BY <2>2, IperfCoupled, StatusCoupled, ConfigCoupled
  <2>3. ASSUME NEW s \in Steps, SendStop(s) \/ step_remove(s) PROVE Coupled'
    BY <2>3, StopsCoupled
  <2>4. ASSUME NEW s \in Steps, step_timeout(s) PROVE Coupled'
    BY <2>4, PollCoupled
  <2>5. TestEnds => Coupled'
    <3>1. 0 \in Steps
      BY AgentAssumption DEF Steps
    <3> QED BY <3>1, StopsCoupled
  <2>6. NextCase => Coupled'
    BY NextCaseCoupled
  <2> QED BY <1>1, <2>1, <2>2, <2>3, <2>4, <2>5, <2>6 DEF Gateway
<1>2. CASE Second
  BY <1>2, TickCoupled
<1>3. CASE Thread
  BY <1>3, ThreadCoupled
<1>4. CASE Main
  BY <1>4, MainCoupled
<1>5. CASE Handler
  BY <1>5, HandlerCoupled
<1>6. CASE Events
  BY <1>6, EventsCoupled
<1>7. CASE Over \/ UNCHANGED vars
  <2>1. UNCHANGED <<up, thr, sigs, m_state, asteps, json, obj, msgs, dev, fresh>>
    BY <1>7 DEF Over, vars, agentVars, testVars, deviceVars, worldVars, gatewayVars
  <2>2. UNCHANGED GateVars /\ case' = case
    BY <1>7, AgentLeavesGate
  <2>3. StopIn' => StopIn
    BY <2>1 DEF StopIn, Live
  <2> QED BY <2>1, <2>2, <2>3, MessagesMove
<1> QED BY <1>1, <1>2, <1>3, <1>4, <1>5, <1>6, <1>7 DEF Next

(* A poll: what says that the step has results is a status of this case, of *)
(* a test that did not fail, and lists the step.                           *)
LEMMA PollIsOwn ==
  ASSUME Ticks, OneStart, Base, Coupled, ~WithoutThread, NEW s \in Steps,
         step_timeout(s), gst'[s] = "results"
  PROVE  Job(s) \in ended
<1>1. /\ up /\ Polled(s) /\ pc.at = "test"
      /\ gst[s] \in {"continue", "wait"} /\ (\A e \in Steps : gst[e] # "abort")
      /\ s \in fresh \/ thr \in {"none", "over"}
  <2>1. Becomes(s, "abort") => gst'[s] = "abort"
    BY DEF Becomes, Base, OwnTypes
  <2> QED BY <2>1, Phases DEF step_timeout, Ticks
<1>2. Asked /\ ~Stopped
  BY <1>1 DEF Base, AskedInv, Stopped
<1>3. OwnJson
  <2>1. thr # "none"
    BY <1>1, <1>2 DEF Coupled, NoneInv, WithoutThread
  <2> QED BY <1>1, <1>2, <2>1 DEF Coupled, OwnInv
<1>4. \A st : Becomes(s, st) => gst'[s] = st
  BY DEF Becomes, Base, OwnTypes
<1>5. json.state # "fail" /\ Listed(s) # 0 /\ json.steps[Listed(s)].st = "results"
  <2> DEFINE cnt == gcnt[s] + 1
  <2>1. CASE Overtime(s, cnt)
    <3>1. json.state = "running" /\ s \in Starters
      BY <2>1 DEF Overtime, Starters
    <3>2. Listed(s) # 0
      <4>1. PICK i \in DOMAIN json.steps : json.steps[i].job.num \in Starters
        BY <1>3, <3>1 DEF OwnJson, JsonStarter
      <4>2. json.steps[i].job.num = s
        <5>1. /\ plan[s].kind \in {"sta", "eth"}
              /\ plan[json.steps[i].job.num].kind \in {"sta", "eth"}
              /\ json.steps[i].job.num \in Steps
          BY <3>1, <4>1 DEF Starters, Stations, Ethernets, Is
        <5> QED BY <5>1 DEF OneStart, Base, OwnTypes
      <4> QED BY <4>1, <4>2, ListedFinds DEF Base, OwnTypes
    <3>3. ~(json.state = "idle")
      BY <3>1
    <3>4. OverTime(s)
      BY <1>1, <2>1, <3>3 DEF Polled, IdleAtThree, Overtime
    <3>5. Delivers(s, Listed(s), json.steps[Listed(s)].st)
      BY <3>2, <3>4 DEF OverTime
    <3>6. json.steps[Listed(s)].st = "results"
      BY <1>4, <3>5 DEF Delivers
    <3> QED BY <3>1, <3>2, <3>6
  <2>2. CASE ~Overtime(s, cnt)
    <3>1. ~Becomes(s, "abort")
      BY <1>4
    <3>2. ~IdleAtThree(s, cnt) /\ json.state # "fail"
      BY <1>1, <2>2, <3>1 DEF Polled
    <3>3. ~Waits(s, gip[s]) /\ ~Waits(s, gip'[s])
      BY <1>4 DEF Waits
    <3>4. Listed(s) # 0 /\ TakesOver(s, Listed(s))
      BY <1>1, <2>2, <3>2, <3>3 DEF Polled
    <3>5. json.steps[Listed(s)].st = "results"
      BY <3>1, <3>3, <3>4 DEF TakesOver
    <3> QED BY <3>2, <3>4, <3>5
  <2> QED BY <2>1, <2>2
<1>6. Listed(s) \in DOMAIN json.steps /\ json.steps[Listed(s)].job.num = s
  BY <1>5, ListedFinds DEF Base, OwnTypes
<1>7. json.steps[Listed(s)].job \in ended
  BY <1>5, <1>6 DEF Base, EndedInv, EndedIn
<1>8. json.steps[Listed(s)].job = Job(s)
  <2>1. json.steps[Listed(s)] \in Reports
    BY <1>6 DEF Base, OwnTypes
  <2>2. json.steps[Listed(s)].job \in Jobs /\ json.steps[Listed(s)].job.case = case
    BY <1>3, <1>6, <2>1 DEF Reports, OwnJson
  <2> QED BY <1>6, <2>2 DEF Jobs, Job
<1> QED BY <1>7, <1>8

(* Only a poll gives a step its results; an object without a thread stays.  *)
LEMMA OwnResultsStep ==
  ASSUME Ticks, OneStart, Base, Coupled, ResultsAreOwn, [Next]_vars
  PROVE  ResultsAreOwn'
<1>1. ended \subseteq ended'
  BY EndedStep DEF Base
<1>2. WithoutThread => WithoutThread'
  <2> SUFFICES ASSUME WithoutThread PROVE WithoutThread'
    OBVIOUS
  <2>1. obj /\ obj'
    BY DeletionStep DEF Base, WithoutThread
  <2>2. thr' = "none"
    <3>1. CASE Gateway
      <4>1. Calls
        BY <3>1, GatewayCalls DEF Base
      <4> QED BY <2>1, <4>1 DEF Calls, AgentUnchanged, agentVars, testVars,
                 agent_stop, agent_start, NewTest, agent_endpoint_testconfig,
                 WithoutThread
    <3> QED BY <3>1 DEF WithoutThread, Next, Second, TestTicks, Main,
               ext_emu_state_machine, Handler, HandlerReads, Thread, TestThread,
               TestStarts, process_msg, TestReports, TestCleans, testVars, Events,
               sta_connection_status, Over, vars, agentVars
  <2> QED BY <2>1, <2>2 DEF WithoutThread
<1>3. ASSUME ~WithoutThread, NEW s \in Steps, gst'[s] = "results",
             gst[s] = "results", case' = case
      PROVE  Job(s)' \in ended'
  BY <1>1, <1>3 DEF ResultsAreOwn, Job
<1>4. ASSUME ~WithoutThread, NEW s \in Steps, gst'[s] = "results",
             gst[s] # "results"
      PROVE  Job(s)' \in ended'
  <2>1. step_timeout(s)
    <3>1. ASSUME NEW e \in Steps, NEW st, Becomes(e, st)
          PROVE  gst'[s] = IF e = s THEN st ELSE gst[s]
      BY <3>1 DEF Becomes, Base, OwnTypes
    <3>2. ASSUME NEW e \in Steps, BeginSta(e) \/ BeginEth(e) \/ BeginIperf(e)
          PROVE  FALSE
      BY <1>4, <3>1, <3>2 DEF BeginSta, BeginEth, BeginIperf
    <3>3. ASSUME NEW e \in Steps, GetStatus(e) \/ PostConfig(e)
          PROVE  FALSE
      BY <1>4, <3>1, <3>3 DEF GetStatus, PostConfig, Fails, Waits
    <3>4. ASSUME NEW e \in Steps, SendStop(e) \/ step_remove(e)
          PROVE  FALSE
      BY <1>4, <3>4 DEF SendStop, step_remove
    <3>5. ~TestEnds /\ ~NextCase
      BY <1>4 DEF TestEnds, NextCase
    <3>6. ASSUME NEW e \in Steps, step_timeout(e) PROVE e = s
      <4>1. \/ \E st : Becomes(e, st)
            \/ gst' \in {[gst EXCEPT ![e] = "results"], [gst EXCEPT ![e] = "abort"]}
        BY <3>6 DEF step_timeout, Polled, OverTime, TakesOver, Delivers, Waits
      <4>2. \E st : Becomes(e, st)
        BY <4>1 DEF Becomes
      <4> QED BY <1>4, <3>1, <4>2
    <3>7. Gateway
      <4>1. gst' # gst
        BY <1>4
      <4> QED BY <4>1 DEF Next, Second, Main, Handler, Thread, Events, Over, vars,
                          gatewayVars
    <3> QED BY <3>2, <3>3, <3>4, <3>5, <3>6, <3>7 DEF Gateway
  <2>2. case' = case
    BY <2>1 DEF step_timeout
  <2>3. Job(s) \in ended
    BY <1>4, <2>1, PollIsOwn
  <2> QED BY <1>1, <2>2, <2>3 DEF Job
<1>5. ASSUME NEW s \in Steps, gst'[s] = "results" PROVE case' = case
  <2>1. ~NextCase
    BY <1>5 DEF NextCase
  <2> QED BY <2>1 DEF Next, Gateway, BeginSta, BeginEth, BeginIperf, GetStatus,
                      PostConfig, SendStop, step_timeout, step_remove, TestEnds,
                      Second, Main, Handler, Thread, Events, Over, vars, gatewayVars
<1>6. CASE WithoutThread
  BY <1>2, <1>6 DEF ResultsAreOwn
<1>7. CASE ~WithoutThread
  BY <1>3, <1>4, <1>5, <1>7 DEF ResultsAreOwn
<1> QED BY <1>6, <1>7

LEMMA BaseStep ==
  ASSUME Drops, NoneLost, Patience, Ticks, OneStart, Base, [Next]_vars
  PROVE  Base'
BY WireTypesStep, OwnTypesStep, DeletionStep, CountStep, LiveStep, SettledStep,
   GateStep, EndedStep, ReadyStep DEF Base

LEMMA OwnInit ==
  ASSUME Init
  PROVE  Base /\ Coupled /\ ResultsAreOwn
<1>1. /\ dev = <<>> /\ msgs = <<>> /\ asteps = <<>> /\ obj = FALSE /\ sigs = {}
      /\ thr = "none" /\ pc = Testing /\ json = Empty /\ m_state = "idle"
      /\ plan \in Plans /\ keyed = {} /\ fresh = {}
      /\ gip = [s \in Steps |-> FALSE] /\ gst = [s \in Steps |-> "pending"]
  BY DEF Init, AgentInit, GatewayInit
<1>2. Starters \subseteq Steps
  BY DEF Starters, Stations, Ethernets
<1>3. json.steps = <<>> /\ json.state = "empty" /\ <<>> \in Seq(Reports)
  BY <1>1 DEF Empty
<1>4. OwnTypes
  BY <1>1, <1>3 DEF OwnTypes
<1>5. ~Asked /\ ~Stopped
  BY <1>1, <1>2, Phases DEF Asked, Stopped
<1>6. PlaceInv /\ AskedInv
  BY <1>1, Phases DEF PlaceInv, AskedInv
<1>7. EndedInv /\ ReadyInv
  BY <1>1, <1>3 DEF EndedInv, EndedIn, ReadyInv
<1>8. Base
  BY <1>4, <1>6, <1>7, WireTypesInit, DeletionInit, SettledInit DEF Base
<1>9. ~StopIn /\ ~Live /\ LastSignals = {}
  BY <1>1, NoCommands DEF StopIn, Live, LastSignals
<1>10. Coupled
  BY <1>1, <1>5, <1>9 DEF Coupled, StopsInv, RunningInv, LeakInv, OwnInv, IdleInv,
                          NoneInv, FirstInv
<1>11. ResultsAreOwn
  BY <1>1 DEF ResultsAreOwn
<1> QED BY <1>8, <1>10, <1>11

(* The results the gateway takes for a step are those of this test case,    *)
(* although step_timeout() finds a step in the status by its number only:   *)
(* for every number of steps and cases, failures of requests, of threads,   *)
(* of the device and of the execution of steps, and an agent that may end.  *)
(* Both sides keep the period of a second, the agent settles between two    *)
(* cases, no answer and no stop request is lost, and a case has one step at *)
(* most that starts the agent.                                             *)
THEOREM ResultsAreOfThisCase ==
  ASSUME Drops, Arrives, Patience, Ticks, OneStart
  PROVE  Spec => []ResultsAreOwn
<1> DEFINE Inv == Base /\ Coupled /\ ResultsAreOwn
<1>1. Init => Inv
  BY OwnInit
<1>2. Inv /\ [Next]_vars => Inv'
  <2> SUFFICES ASSUME Inv, [Next]_vars PROVE Inv'
    OBVIOUS
  <2> QED BY ArrivesLosesNone, BaseStep, CoupledStep, OwnResultsStep
<1> QED BY <1>1, <1>2, PTL DEF Spec

------------------------------------------------------------------------------
(* What a step has ended with reaches the gateway, unless something failed. *)
(* As long as nothing failed and the case goes on (Calm), the directory of  *)
(* the results is emptied for a test only that has reported its failure     *)
(* (TroubleInv), so that what a status lists has its file (FilesInv); a     *)
(* status the gateway has not seen is one of a test that runs (StateInv),   *)
(* and a test that was stopped before this case has ended nothing of it     *)
(* (OverInv).                                                              *)
Calm == up /\ faults = 0 /\ ~Stopped

PendingInv == pc.at \in {"status", "config"} => gst[pc.step] = "pending"

AnsweredInv ==
  (\E s \in Steps : gst[s] \in {"continue", "wait"}) => json # Empty

FailInv ==
  json.state = "fail" => \E i \in DOMAIN json.steps : json.steps[i].st = "abort"

PastInv == \A job \in ended : job.case \in Nat /\ job.case <= case

NoThreadInv == faults = 0 /\ thr = "none" => ~obj

Plain ==
  /\ faults \in Nat
  /\ PendingInv /\ AnsweredInv /\ FailInv /\ PastInv /\ NoThreadInv

Trouble == Places(dev, "close") # {} \/ cleaning \/ LastSignals # {}

TroubleInv == Calm /\ Trouble => json.state = "fail" /\ thr = "over" /\ Asked

WithFile(job) == Is(job.num, "eth") \/ Is(job.num, "iperf") => job \in files
WithFiles(steps) == \A i \in DOMAIN steps : WithFile(steps[i].job)

FilesInv ==
  Calm => /\ Live => WithFiles(asteps)
          /\ fresh # {} /\ json.state # "fail" => WithFiles(json.steps)

StateInv == Calm /\ fresh # {} => json.state \in Good \cup {"fail"}

NoneEnded == \A job \in ended : job.case # case

OverInv ==
  Calm /\ thr = "over" /\ (obj \/ Asked) => json.state = "fail" \/ NoneEnded

Delivery == TroubleInv /\ FilesInv /\ StateInv /\ OverInv

(* The part that holds with failures.  A step of the gateway: what it does  *)
(* to its steps, and to the agent.                                         *)
LEMMA JsonIsWritten ==
  ASSUME WireTypes, [Next]_vars
  PROVE  json # Empty => json' # Empty
<1> SUFFICES ASSUME json # Empty, json' # json PROVE json' # Empty
  OBVIOUS
<1>1. \E st \in AgentStates : \E steps : json' = [state |-> st, steps |-> steps]
  <2>1. CASE Gateway
    <3>1. Calls
      BY <2>1, GatewayCalls
    <3>2. json' = [state |-> "idle", steps |-> <<>>]
      BY <3>1 DEF Calls, AgentUnchanged, agentVars, agent_stop, agent_start,
                  agent_endpoint_testconfig
    <3> QED BY <3>2 DEF AgentStates
  <2>2. CASE TestReports
    BY <2>2 DEF TestReports, WireTypes
  <2>3. CASE TestTicks
    <3>1. PICK steps : TestFails(steps) \/ TestGoesOn(steps)
      BY <2>3 DEF TestTicks
    <3>2. TestFails(steps)
      BY <3>1 DEF TestGoesOn
    <3> QED BY <3>2 DEF TestFails, AgentStates
  <2> QED BY <2>1, <2>2, <2>3
       DEF Next, Second, Main, ext_emu_state_machine, Handler, HandlerReads, Thread,
           TestThread, TestStarts, process_msg, TestCleans, Events,
           sta_connection_status, Over, vars, agentVars
<1> QED BY <1>1, EmptyState

LEMMA FaultsGrow ==
  ASSUME faults \in Nat, [Next]_vars
  PROVE  faults' \in Nat /\ (faults' = 0 => faults = 0 /\ NoFault)
<1>1. \A kind : Fault(kind) => faults' = faults + 1
  BY DEF Fault
<1>2. NoFault <=> faults' = faults
  BY DEF NoFault
<1>3. faults' = faults \/ faults' = faults + 1
  <2>1. CASE Gateway
    BY <1>1, <1>2, <2>1
       DEF Gateway, BeginSta, BeginEth, BeginIperf, StartSent, StartFailed,
           Unanswered, GetStatus, PostConfig, Posted, NotPosted, SendStop, StopSent,
           step_timeout, Polled, OverTime, TakesOver, Delivers, step_remove,
           TestEnds, NextCase
  <2>2. CASE Second \/ Main \/ Handler \/ Events \/ Over \/ UNCHANGED vars
    BY <2>2 DEF Second, TestTicks, Main, ext_emu_state_machine, Handler,
                HandlerReads, Events, sta_connection_status, Over, vars
  <2>3. CASE Thread
    <3>1. CASE process_msg
      BY <1>1, <1>2, <3>1
         DEF process_msg, test_stop, wlan_ext_step_execute, ExecuteFails, add_sta,
             ExecutePlain, ExecuteStop, wlan_ext_step_frame_filter, Joined, Deauth,
             Connected
    <3> QED BY <2>3, <3>1 DEF Thread, TestThread, TestStarts, TestReports, TestCleans
  <2> QED BY <2>1, <2>2, <2>3 DEF Next
<1> QED BY <1>2, <1>3

(* What ends now is of the present case. *)
LEMMA EndedNow ==
  ASSUME Base, [Next]_vars, NEW job \in ended', job \notin ended
  PROVE  job.case = case /\ ~NextCase
<1>1. CASE process_msg
  <2>1. up /\ thr = "run" /\ msgs # <<>> /\ WireTypes /\ CaseInv
    BY <1>1 DEF process_msg, Base, SettledInv
  <2>2. Head(msgs).type = "data" /\ ExecuteStop(Head(msgs).job)
    BY <1>1 DEF process_msg, test_stop, wlan_ext_step_execute, ExecuteFails, add_sta,
                ExecutePlain, wlan_ext_step_frame_filter
  <2>3. Head(msgs) = msgs[1] /\ 1 \in DOMAIN msgs
    BY <2>1, TailType DEF WireTypes
  <2>4. Head(msgs).job.case = case
    BY <2>1, <2>2, <2>3 DEF CaseInv, CaseIn, Places, Live
  <2>5. \A i \in DOMAIN asteps : asteps[i].job.case = case
    BY <2>1 DEF CaseInv
  <2>6. ToStop(Head(msgs).job) \subseteq DOMAIN asteps
    BY DEF ToStop
  <2>7. job = Head(msgs).job \/ \E i \in ToStop(Head(msgs).job) : job = asteps[i].job
    BY <2>2 DEF ExecuteStop
  <2>8. ~NextCase
    BY <1>1, <2>2 DEF NextCase, AgentUnchanged, agentVars, resultVars
  <2> QED BY <2>4, <2>5, <2>6, <2>7, <2>8
<1>2. CASE TestTicks
  <2>1. PICK over : LET steps == [i \in DOMAIN asteps |->
                                    wlan_ext_step_timeout(asteps[i], over)]
                    IN TestFails(steps) \/ TestGoesOn(steps)
    BY <1>2 DEF TestTicks
  <2> DEFINE steps == [i \in DOMAIN asteps |->
                         wlan_ext_step_timeout(asteps[i], over)]
  <2>2. SameJobs(steps, asteps) /\ WireTypes /\ CaseInv /\ up
    BY <1>2, TimeoutEffect DEF Base, SettledInv, TestTicks
  <2> HIDE DEF steps
  <2>3. \A i \in DOMAIN steps : steps[i].job.case = case
    BY <2>2, SameJobsCase DEF SameJobs
  <2>4. TestGoesOn(steps)
    BY <2>1 DEF TestFails, steps
  <2>5. \E i \in DOMAIN steps : job = steps[i].job
    BY <2>4 DEF TestGoesOn, Completed
  <2>6. ~NextCase
    BY DEF NextCase, AgentUnchanged, agentVars, resultVars
  <2> QED BY <2>3, <2>5, <2>6
<1>3. ~Gateway
  <2>1. Gateway => Calls
    BY GatewayCalls DEF Base
  <2>2. Calls => ended' = ended
    BY DEF Calls, AgentUnchanged, agentVars, agent_stop, agent_start,
           agent_endpoint_testconfig, resultVars
  <2> QED BY <2>1, <2>2
<1> QED BY <1>1, <1>2, <1>3
     DEF Next, Second, Main, ext_emu_state_machine, Handler, HandlerReads, Thread,
         TestThread, TestStarts, TestReports, TestCleans, Events,
         sta_connection_status, Over, vars, agentVars, resultVars

(* A step that is continued or waited for is taken back by a poll only.     *)
LEMMA PendingIsAsked ==
  ASSUME Base, PendingInv, [Next]_vars, NEW s \in Steps,
         gst[s] \in {"continue", "wait"}, gst'[s] \notin {"continue", "wait", "pending"}
  PROVE  step_timeout(s)
<1>1. ASSUME NEW e \in Steps, NEW st, Becomes(e, st)
      PROVE  gst'[s] = IF e = s THEN st ELSE gst[s]
  BY <1>1 DEF Becomes, Base, OwnTypes
<1>2. ASSUME NEW e \in Steps, BeginSta(e) \/ BeginEth(e) \/ BeginIperf(e)
      PROVE  FALSE
  <2>1. gst[e] = "pending" /\ (gst' = gst \/ Becomes(e, "abort"))
    BY <1>2 DEF BeginSta, BeginEth, BeginIperf, Turn
  <2> QED BY <1>1, <2>1
<1>3. ASSUME NEW e \in Steps, GetStatus(e) \/ PostConfig(e)
      PROVE  FALSE
  <2>1. pc.at \in {"status", "config"} /\ pc.step = e
    BY <1>3, Phases DEF GetStatus, PostConfig
  <2>2. e # s
    BY <2>1 DEF PendingInv
  <2>3. gst' = gst \/ \E st : Becomes(e, st)
    BY <1>3 DEF GetStatus, PostConfig, Fails, Waits
  <2> QED BY <1>1, <2>2, <2>3
<1>4. ASSUME NEW e \in Steps, SendStop(e) \/ step_remove(e)
      PROVE  FALSE
  BY <1>4 DEF SendStop, step_remove
<1>5. ~TestEnds /\ ~NextCase
  BY DEF TestEnds, NextCase
<1>6. ASSUME NEW e \in Steps, step_timeout(e) PROVE e = s
  <2>1. \/ \E st : Becomes(e, st)
        \/ gst' \in {[gst EXCEPT ![e] = "results"], [gst EXCEPT ![e] = "abort"]}
    BY <1>6 DEF step_timeout, Polled, OverTime, TakesOver, Delivers, Waits
  <2>2. \E st : Becomes(e, st)
    BY <2>1 DEF Becomes
  <2> QED BY <1>1, <2>2
<1>7. Gateway
  BY DEF Next, Second, Main, Handler, Thread, Events, Over, vars, gatewayVars
<1> QED BY <1>2, <1>3, <1>4, <1>5, <1>6, <1>7 DEF Gateway

LEMMA PlainStep ==
  ASSUME Base, Ticks, Plain, [Next]_vars
  PROVE  Plain'
<1>1. faults' \in Nat /\ (faults' = 0 => faults = 0 /\ NoFault)
  BY FaultsGrow DEF Plain
<1>2. PendingInv'
  <2>1. CASE Gateway
    <3>1. ASSUME NEW s \in Steps, BeginSta(s) \/ BeginEth(s) \/ BeginIperf(s)
          PROVE  PendingInv'
      <4>1. /\ pc = Testing /\ gst[s] = "pending"
            /\ pc' = pc \/ (gst' = gst /\ pc' \in {At("status", s), At("config", s)})
        BY <3>1 DEF BeginSta, BeginEth, BeginIperf, Turn
      <4> QED BY <4>1, Phases DEF PendingInv
    <3>2. ASSUME NEW s \in Steps, GetStatus(s) PROVE PendingInv'
      <4>1. /\ pc = At("status", s)
            /\ \/ pc' = At("config", s) /\ gst' = gst
               \/ pc' \in {Testing, At("stop", s)}
        BY <3>2 DEF GetStatus, Fails
      <4> QED BY <4>1, Phases DEF Plain, PendingInv
    <3>3. ASSUME NEW s \in Steps,
                 PostConfig(s) \/ SendStop(s) \/ step_remove(s) \/ step_timeout(s)
          PROVE  PendingInv'
      <4>1. \/ pc' \in {Testing, At("stop", s)}
            \/ \E e : pc' \in {At("remove", e), At("over", e)}
        BY <3>3 DEF PostConfig, Fails, SendStop, step_remove, step_timeout, Polled
      <4> QED BY <4>1, Phases DEF PendingInv
    <3>4. TestEnds \/ NextCase => pc' = At("remove", 0) \/ pc' = Testing
      BY DEF TestEnds, NextCase
    <3> QED BY <2>1, <3>1, <3>2, <3>3, <3>4, Phases DEF Gateway, PendingInv
  <2>2. CASE UNCHANGED <<pc, gst>>
    BY <2>2 DEF Plain, PendingInv
  <2> QED BY <2>1, <2>2, AgentLeavesGate DEF Next, GateVars
<1>3. AnsweredInv'
  <2>1. ASSUME NEW s \in Steps, gst'[s] \in {"continue", "wait"}, json = Empty
        PROVE  FALSE
    <3>1. gst[s] \notin {"continue", "wait"}
      BY <2>1 DEF Plain, AnsweredInv
    <3>2. pc.at # "config"
      BY <2>1 DEF Base, SettledInv, KeyInv
    <3>3. \A e \in Steps : gst[e] \notin {"continue", "wait"}
      BY <2>1 DEF Plain, AnsweredInv
    <3>4. ASSUME NEW e \in Steps, NEW st, Becomes(e, st)
          PROVE  gst'[s] = IF e = s THEN st ELSE gst[s]
      BY <3>4 DEF Becomes, Base, OwnTypes
    <3>5. ASSUME NEW e \in Steps, BeginSta(e) \/ BeginEth(e) \/ BeginIperf(e)
          PROVE  FALSE
      BY <2>1, <3>1, <3>4, <3>5 DEF BeginSta, BeginEth, BeginIperf
    <3>6. ASSUME NEW e \in Steps, GetStatus(e) PROVE FALSE
      BY <2>1, <3>1, <3>4, <3>6 DEF GetStatus, Fails
    <3>7. ASSUME NEW e \in Steps, PostConfig(e) PROVE FALSE
      BY <3>2, <3>7, Phases DEF PostConfig
    <3>8. ASSUME NEW e \in Steps, SendStop(e) \/ step_remove(e) PROVE FALSE
      BY <2>1, <3>1, <3>8 DEF SendStop, step_remove
    <3>9. ASSUME NEW e \in Steps, step_timeout(e) PROVE FALSE
      BY <3>3, <3>9 DEF step_timeout
    <3>10. ~TestEnds /\ ~NextCase
      BY <2>1, <3>1 DEF TestEnds, NextCase
    <3>11. Gateway
      BY <2>1, <3>1 DEF Next, Second, Main, Handler, Thread, Events, Over, vars,
                        gatewayVars
    <3> QED BY <3>5, <3>6, <3>7, <3>8, <3>9, <3>10, <3>11 DEF Gateway
  <2>2. json # Empty => json' # Empty
    BY JsonIsWritten DEF Base
  <2> QED BY <2>1, <2>2 DEF AnsweredInv
<1>4. FailInv'
  <2>1. CASE UNCHANGED json
    BY <2>1 DEF Plain, FailInv
  <2>2. CASE Gateway
    <3>1. Calls
      BY <2>2, GatewayCalls DEF Base
    <3>2. json' = json \/ json' = [state |-> "idle", steps |-> <<>>]
      BY <3>1 DEF Calls, AgentUnchanged, agentVars, agent_stop, agent_start,
                  agent_endpoint_testconfig
    <3>3. json' = json \/ json'.state = "idle"
      BY <3>2
    <3> QED BY <2>1, <3>3 DEF FailInv
  <2>3. CASE TestReports
    <3>1. json'.state = m_state /\ m_state \in Good
      BY <2>3 DEF TestReports, Base, ReadyInv
    <3> QED BY <3>1 DEF FailInv, Good
  <2>4. CASE TestTicks
    <3>1. PICK over : LET steps == [i \in DOMAIN asteps |->
                                      wlan_ext_step_timeout(asteps[i], over)]
                      IN TestFails(steps) \/ TestGoesOn(steps)
      BY <2>4 DEF TestTicks
    <3> DEFINE steps == [i \in DOMAIN asteps |->
                           wlan_ext_step_timeout(asteps[i], over)]
    <3>2. steps \in Seq(StepRecords)
      BY TimeoutEffect DEF SameJobs, Base
    <3> HIDE DEF steps
    <3>3. CASE TestFails(steps)
      BY <3>2, <3>3, FailureReported DEF FailInv
    <3>4. CASE TestGoesOn(steps)
      BY <2>1, <3>4 DEF TestGoesOn
    <3> QED BY <3>1, <3>3, <3>4 DEF steps
  <2> QED BY <2>1, <2>2, <2>3, <2>4
       DEF Next, Second, Main, ext_emu_state_machine, Handler, HandlerReads, Thread,
           TestThread, TestStarts, process_msg, TestCleans, Events,
           sta_connection_status, Over, vars, agentVars
<1>5. PastInv'
  <2>1. case \in Nat /\ (case' = case \/ (NextCase /\ case' = case + 1))
    <3>1. case \in Nat
      BY AgentAssumption DEF Base, WireTypes
    <3>2. Gateway => case' = case \/ (NextCase /\ case' = case + 1)
      BY DEF Gateway, BeginSta, BeginEth, BeginIperf, GetStatus, PostConfig, SendStop,
             step_timeout, step_remove, TestEnds, NextCase
    <3> QED BY <3>1, <3>2, AgentLeavesGate DEF Next
  <2>2. \A job \in ended' : job \in ended \/ (job.case = case /\ ~NextCase)
    BY EndedNow
  <2>3. \A job \in ended : job.case \in Nat /\ job.case <= case
    BY DEF Plain, PastInv
  <2> QED BY <2>1, <2>2, <2>3 DEF PastInv
<1>6. NoThreadInv'
  <2> SUFFICES ASSUME faults' = 0, thr' = "none", obj' PROVE FALSE
    BY DEF NoThreadInv
  <2>1. faults = 0 /\ NoFault
    BY <1>1
  <2>2. \A kind : ~Fault(kind)
    BY <2>1 DEF Fault
  <2>3. CASE UNCHANGED <<thr, obj>>
    BY <2>1, <2>3 DEF Plain, NoThreadInv
  <2>4. CASE obj /\ UNCHANGED thr
    BY <2>1, <2>4 DEF Plain, NoThreadInv
  <2>5. CASE Gateway
    <3>1. \/ AgentUnchanged \/ agent_stop \/ agent_start(TRUE)
          \/ \E job, written : agent_endpoint_testconfig(job, written)
      BY <2>2, <2>5 DEF Gateway, BeginSta, BeginEth, BeginIperf, StartSent,
           StartFailed, Unanswered, GetStatus, PostConfig, Posted, NotPosted,
           SendStop, StopSent, step_timeout, step_remove, TestEnds, NextCase
    <3>2. UNCHANGED <<thr, obj>> \/ thr' = "start"
      BY <3>1 DEF AgentUnchanged, agentVars, testVars, agent_stop, agent_start,
                  NewTest, agent_endpoint_testconfig
    <3> QED BY <2>3, <3>2
  <2>6. CASE Second \/ Thread
    <3>1. UNCHANGED <<thr, obj>> \/ thr' \in {"run", "report", "over"}
      BY <2>6 DEF Second, TestTicks, TestFails, TestGoesOn, Thread, TestThread,
           TestStarts, process_msg, test_stop, TestReports, TestCleans, testVars
    <3> QED BY <2>3, <3>1
  <2>7. CASE Main
    <3>1. UNCHANGED thr /\ (UNCHANGED obj \/ obj)
      BY <2>7 DEF Main, ext_emu_state_machine
    <3> QED BY <2>3, <2>4, <3>1
  <2> QED BY <2>3, <2>5, <2>6, <2>7
       DEF Next, Handler, HandlerReads, Events, sta_connection_status, testVars,
           Over, vars, agentVars
<1> QED BY <1>1, <1>2, <1>3, <1>4, <1>5, <1>6 DEF Plain

(* The part that holds while nothing fails.  A case that stops goes on      *)
(* stopping until the next one.                                            *)
LEMMA CalmBefore ==
  ASSUME Base, Plain, [Next]_vars, Calm'
  PROVE  up /\ faults = 0 /\ NoFault /\ (Calm \/ NextCase)
<1>1. faults = 0 /\ NoFault
  BY FaultsGrow DEF Plain, Calm
<1>2. up
  <2>1. Gateway => up' = up
    <3>1. Gateway => Calls
      BY GatewayCalls DEF Base
    <3>2. Calls => up' = up
      BY DEF Calls, AgentUnchanged, agentVars, agent_stop, agent_start,
             agent_endpoint_testconfig, worldVars
    <3> QED BY <3>1, <3>2
  <2> QED BY <2>1 DEF Calm, Next, Second, TestTicks, Main, ext_emu_state_machine,
       Handler, HandlerReads, Thread, TestThread, TestStarts, process_msg,
       TestReports, TestCleans, Events, sta_connection_status, Over, vars, agentVars,
       worldVars
<1>3. ASSUME Stopped, ~NextCase PROVE FALSE
  <2>1. ~Stopped'
    BY DEF Calm
  <2>2. CASE UNCHANGED GateVars
    BY <1>3, <2>1, <2>2, GateUnchanged
  <2>3. ASSUME NEW s \in Steps, SendStop(s) PROVE FALSE
    <3>1. pc.at = "stop" /\ gst' = gst
      BY <2>3, Phases DEF SendStop
    <3>2. pc.step \in Steps /\ gst[pc.step] = "abort"
      BY <3>1 DEF Base, PlaceInv, Ethernets
    <3> QED BY <2>1, <3>1, <3>2 DEF Stopped
  <2>4. ASSUME NEW s \in Steps, step_remove(s) PROVE FALSE
    BY <2>1, <2>4, Phases DEF step_remove, Stopped
  <2>5. ~TestEnds
    BY <2>1, Phases DEF TestEnds, Stopped
  <2>6. ASSUME NEW s \in Steps, BeginSta(s) \/ BeginEth(s) \/ BeginIperf(s)
                                \/ step_timeout(s)
        PROVE  FALSE
    BY <1>3, <2>6, Phases
       DEF BeginSta, BeginEth, BeginIperf, Turn, step_timeout, Stopped
  <2>7. ASSUME NEW s \in Steps, GetStatus(s) \/ PostConfig(s) PROVE FALSE
    <3>1. pc.at \in {"status", "config"}
      BY <2>7, Phases DEF GetStatus, PostConfig
    <3> QED BY <1>3, <3>1 DEF Base, PlaceInv, Stopped
  <2>8. ~Gateway
    BY <1>3, <2>3, <2>4, <2>5, <2>6, <2>7 DEF Gateway
  <2> QED BY <2>2, <2>8, AgentLeavesGate DEF Next
<1> QED BY <1>1, <1>2, <1>3 DEF Calm

(* A step that changes neither the test nor its status. *)
LEMMA DeliveryKept ==
  ASSUME Calm, Delivery, UNCHANGED <<thr, json, ended, case, asteps, plan>>,
         Asked => Asked', Asked' => Asked \/ obj, obj' => obj,
         fresh' # {} => fresh # {},
         files \subseteq files' \/ Trouble,
         Trouble' => Trouble
  PROVE  Delivery'
<1>1. Live' = Live
  BY DEF Live
<1>2. TroubleInv'
  BY DEF Delivery, TroubleInv
<1>3. FilesInv'
  <2>1. CASE Trouble
    BY <1>1, <2>1 DEF Delivery, TroubleInv, FilesInv, Live
  <2>2. CASE files \subseteq files'
    <3>1. \A job : WithFile(job) => WithFile(job)'
      BY <2>2 DEF WithFile, Is
    <3>2. \A steps : WithFiles(steps) => \A i \in DOMAIN steps : WithFile(steps[i].job)'
      BY <3>1 DEF WithFiles
    <3>3. WithFiles(asteps)' = \A i \in DOMAIN asteps : WithFile(asteps[i].job)'
      BY DEF WithFiles, WithFile, Is
    <3>4. WithFiles(json.steps)' = \A i \in DOMAIN json.steps :
                                     WithFile(json.steps[i].job)'
      BY DEF WithFiles, WithFile, Is
    <3> QED BY <1>1, <3>2, <3>3, <3>4 DEF Delivery, FilesInv
  <2> QED BY <2>1, <2>2
<1>4. StateInv'
  BY DEF Delivery, StateInv
<1>5. OverInv'
  BY DEF Delivery, OverInv, NoneEnded
<1> QED BY <1>2, <1>3, <1>4, <1>5 DEF Delivery

(* The messages to close, when one message comes or goes. *)
LEMMA CloseMoves ==
  ASSUME NEW q \in Seq(Messages)
  PROVE  /\ Places(<<>>, "close") = {}
         /\ \A m \in Messages : Places(Append(q, m), "close") # {}
              => Places(q, "close") # {} \/ m.type = "close"
         /\ q # <<>> => /\ Places(Tail(q), "close") # {} => Places(q, "close") # {}
                        /\ Head(q).type = "close" => Places(q, "close") # {}
<1>1. Places(<<>>, "close") = {}
  BY DEF Places
<1>2. ASSUME NEW m \in Messages, Places(Append(q, m), "close") # {}
      PROVE  Places(q, "close") # {} \/ m.type = "close"
  BY <1>2, AppendAt
<1>3. ASSUME q # <<>>
      PROVE  /\ Places(Tail(q), "close") # {} => Places(q, "close") # {}
             /\ Head(q).type = "close" => Places(q, "close") # {}
  <2>1. Places(Tail(q), "close") \subseteq Nat
    BY <1>3, AtType, TailType
  <2>2. \A i \in Places(Tail(q), "close") : i + 1 \in Places(q, "close")
    BY <1>3, <2>1, TailAt
  <2>3. Head(q) = q[1] /\ 1 \in DOMAIN q
    BY <1>3, TailType
  <2> QED BY <2>2, <2>3 DEF Places
<1> QED BY <1>1, <1>2, <1>3

(* The gateway: its requests do not touch the test, save the first one, at  *)
(* which the agent has none, or one of an earlier case.                    *)
LEMMA BeginDelivers ==
  ASSUME OneStart, Base, Coupled, Plain, Delivery, Calm, Calm', NEW s \in Steps,
         BeginSta(s) \/ BeginEth(s)
  PROVE  Delivery'
<1>1. [Next]_vars
  BY DEF Next, Gateway
<1>2. /\ Turn(s) /\ s \in Starters /\ fresh' = fresh /\ case' = case
      /\ plan' = plan /\ NoFault
  BY <1>1, PlanStays, CalmBefore DEF BeginSta, BeginEth, Starters
<1>3. ~Asked
  BY <1>2, BeginsOnce DEF Base
<1>4. ~Becomes(s, "abort")
  <2>1. Becomes(s, "abort") => gst'[s] = "abort"
    BY DEF Becomes, Base, OwnTypes
  <2> QED BY <2>1 DEF Calm, Stopped
<1>5. agent_start(TRUE)
  BY <1>4 DEF BeginSta, BeginEth, StartSent
<1>6. UNCHANGED <<dev, sigs, json, ended, files, cleaning>>
  BY <1>5 DEF agent_start, resultVars
<1>7. Trouble' = Trouble /\ ~Trouble
  BY <1>3, <1>6 DEF Trouble, LastSignals, Delivery, TroubleInv
<1>8. CASE obj
  <2>1. UNCHANGED <<thr, asteps, obj>>
    BY <1>5, <1>8 DEF agent_start, testVars
  <2> QED BY <1>2, <1>3, <1>6, <1>7, <1>8, <2>1, DeliveryKept
<1>9. CASE ~obj
  <2>1. thr' = "start" /\ asteps' = <<>>
    BY <1>5, <1>9 DEF agent_start, NewTest
  <2>2. fresh' = {}
    BY <1>2, <1>3, <1>9 DEF Coupled, IdleInv, Calm
  <2>3. WithFiles(asteps)'
    BY <2>1 DEF WithFiles
  <2> QED BY <1>7, <2>1, <2>2, <2>3
       DEF Delivery, TroubleInv, FilesInv, StateInv, OverInv
<1> QED BY <1>8, <1>9

LEMMA RequestsDeliver ==
  ASSUME Base, Coupled, Plain, Delivery, Calm, Calm', NEW s \in Steps,
         BeginIperf(s) \/ GetStatus(s) \/ PostConfig(s) \/ step_timeout(s)
  PROVE  Delivery'
<1>1. [Next]_vars /\ ~NextCase
  BY Phases DEF Next, Gateway, NextCase, BeginIperf, Turn, GetStatus, PostConfig,
                step_timeout
<1>2. case' = case /\ plan' = plan /\ (fresh' # {} => fresh # {}) /\ NoFault
  BY <1>1, PlanStays, CalmBefore
     DEF BeginIperf, GetStatus, PostConfig, step_timeout
<1>3. Asked
  <2>1. CASE BeginIperf(s)
    <3>1. Interfaces(s) # {}
      <4>1. Becomes(s, "abort") => gst'[s] = "abort"
        BY DEF Becomes, Base, OwnTypes
      <4> QED BY <2>1, <4>1 DEF BeginIperf, Calm, Stopped
    <3> QED BY <3>1 DEF Interfaces, Base, AskedInv
  <2>2. CASE GetStatus(s) \/ PostConfig(s)
    BY <2>2, Phases DEF GetStatus, PostConfig, Base, AskedInv
  <2>3. CASE step_timeout(s)
    BY <2>3 DEF step_timeout, Base, AskedInv
  <2> QED BY <2>1, <2>2, <2>3
<1>4. Asked'
  BY <1>1, <1>3, AskedStays DEF Base
<1>5. \/ AgentUnchanged
      \/ \E written \in BOOLEAN : agent_endpoint_testconfig(Job(s), written)
  BY DEF BeginIperf, GetStatus, PostConfig, step_timeout, Unanswered, Posted, NotPosted
<1> DEFINE m == [type |-> "data", job |-> Job(s)]
<1>6. /\ UNCHANGED <<thr, obj, sigs, asteps, json, ended, files, cleaning>>
      /\ dev' \in {dev, Written(m)}
  BY <1>5 DEF AgentUnchanged, agentVars, testVars, deviceVars, resultVars,
              agent_endpoint_testconfig
<1>7. m \in Messages /\ m.type # "close" /\ dev \in Seq(Messages)
  BY Commanded, JobType DEF Base, WireTypes
<1> HIDE DEF m
<1>8. dev' = dev \/ dev' = Append(dev, m)
  BY <1>6, <1>7, WrittenType DEF Base
<1>9. Places(dev', "close") # {} => Places(dev, "close") # {}
  BY <1>7, <1>8, CloseMoves
<1>10. Trouble' => Trouble
  BY <1>6, <1>9 DEF Trouble, LastSignals
<1> QED BY <1>2, <1>3, <1>4, <1>6, <1>10, DeliveryKept

(* A new case: the agent has settled, and nothing ended that is of it.      *)
LEMMA NextCaseDelivers ==
  ASSUME Patience, Base, Plain, NextCase, up
  PROVE  Delivery'
<1>1. Quiet /\ dev = <<>> /\ asteps = <<>>
  BY NextCaseEmpty DEF NextCase, Base, Patience
<1>2. /\ UNCHANGED <<dev, sigs, cleaning, asteps, ended>>
      /\ case' = case + 1 /\ fresh' = {}
  BY DEF NextCase, AgentUnchanged, agentVars, testVars, deviceVars, resultVars
<1>3. ~Trouble'
  BY <1>1, <1>2 DEF Trouble, Places, LastSignals, Quiet
<1>4. WithFiles(asteps)'
  BY <1>1, <1>2 DEF WithFiles
<1>5. NoneEnded'
  <2>1. case \in Nat
    BY AgentAssumption DEF Base, WireTypes
  <2>2. \A job \in ended : job.case \in Nat /\ job.case <= case
    BY DEF Plain, PastInv
  <2> QED BY <1>2, <2>1, <2>2 DEF NoneEnded
<1> QED BY <1>2, <1>3, <1>4, <1>5
     DEF Delivery, TroubleInv, FilesInv, StateInv, OverInv

(* The main thread, the handler and the stations. *)
LEMMA OthersDeliver ==
  ASSUME Base, Plain, Delivery, Calm, Main \/ Handler \/ Events
  PROVE  Delivery'
<1>1. [Next]_vars /\ UNCHANGED GateVars /\ case' = case
  BY AgentLeavesGate DEF Next
<1>2. Asked' = Asked /\ plan' = plan
  BY <1>1, GateUnchanged DEF GateVars
<1>3. dev \in Seq(Messages)
  BY DEF Base, WireTypes
<1>4. UNCHANGED <<thr, json, ended, asteps, cleaning, fresh>>
  BY DEF Main, ext_emu_state_machine, Handler, HandlerReads, Events,
         sta_connection_status, testVars, resultVars, gatewayVars
<1>5. CASE Main
  <2>1. /\ files' = files /\ (obj' => obj)
        /\ \/ dev' = dev \/ LastSignals # {}
        /\ LastSignals' \subseteq LastSignals
    BY <1>5 DEF Main, ext_emu_state_machine, resultVars, LastSignals
  <2>2. Trouble' => Trouble
    BY <1>4, <2>1 DEF Trouble
  <2> QED BY <1>1, <1>2, <1>4, <2>1, <2>2, DeliveryKept
<1>6. CASE Handler
  <2>1. /\ obj' = obj /\ sigs' = sigs /\ dev # <<>>
        /\ dev' = Tail(dev) \/ dev' = <<>>
        /\ files' = files \/ Head(dev).type = "close"
    BY <1>6 DEF Handler, HandlerReads, queue_msg, Close
  <2>2. /\ Places(dev', "close") # {} => Places(dev, "close") # {}
        /\ Head(dev).type = "close" => Places(dev, "close") # {}
    BY <1>3, <2>1, CloseMoves
  <2>3. (Trouble' => Trouble) /\ (files' = files \/ Trouble)
    BY <1>4, <2>1, <2>2 DEF Trouble, LastSignals
  <2> QED BY <1>1, <1>2, <1>4, <2>1, <2>3, DeliveryKept
<1>7. CASE Events
  <2>1. PICK d \in Devs : sta_connection_status(d)
    BY <1>7 DEF Events
  <2>2. UNCHANGED <<obj, sigs, files>>
    BY <2>1 DEF sta_connection_status, testVars, resultVars
  <2>3. PICK frame \in {"joined", "deauth"} : Heard(frame, d)
    BY <2>1 DEF sta_connection_status
  <2> DEFINE m == [type |-> frame, dev |-> d]
             n == [type |-> "connected", dev |-> d]
  <2>4. /\ m \in Messages /\ n \in Messages
        /\ m.type # "close" /\ n.type # "close"
        /\ Append(dev, m) \in Seq(Messages)
        /\ dev' = dev \/ dev' = Append(Append(dev, m), n)
    BY <2>3, HeardType DEF Base
  <2> HIDE DEF m, n
  <2>5. Places(dev', "close") # {} => Places(dev, "close") # {}
    <3>1. Places(Append(dev, m), "close") # {} => Places(dev, "close") # {}
      BY <1>3, <2>4, CloseMoves
    <3>2. Places(Append(Append(dev, m), n), "close") # {}
          => Places(Append(dev, m), "close") # {}
      BY <2>4, CloseMoves
    <3> QED BY <2>4, <3>1, <3>2
  <2>6. Trouble' => Trouble
    BY <1>4, <2>2, <2>5 DEF Trouble, LastSignals
  <2> QED BY <1>1, <1>2, <1>4, <2>2, <2>6, DeliveryKept
<1> QED BY <1>5, <1>6, <1>7

(* The test thread.  A step that names a result file does so when it begins *)
(* to be executed, and what empties the directory comes after the test.    *)
LEMMA MessageDelivers ==
  ASSUME Base, Coupled, Plain, Delivery, Calm, Calm', Thread, process_msg
  PROVE  Delivery'
<1>1. /\ thr = "run" /\ Live /\ msgs # <<>> /\ WireTypes
      /\ UNCHANGED <<dev, cleaning, json, plan>>
      /\ UNCHANGED GateVars /\ UNCHANGED case
  BY AgentLeavesGate
     DEF process_msg, deviceVars, worldVars, Live, Base
<1>2. Head(msgs).type # "stop"
  <2>1. Head(msgs).type = "stop" => StopIn
    BY <1>1, StopAndOthersTail DEF WireTypes, StopIn
  <2> QED BY <2>1 DEF Coupled, StopsInv, Calm
<1>3. /\ \/ Head(msgs).type = "data" /\ wlan_ext_step_execute(Head(msgs).job)
         \/ wlan_ext_step_frame_filter(Head(msgs))
      /\ UNCHANGED <<sigs, obj, thr>>
  BY <1>2 DEF process_msg
<1>4. fresh' = fresh
  BY <1>1, <1>3 DEF Thread
<1>5. ~Trouble /\ ~Trouble'
  <2>1. Trouble' = Trouble
    BY <1>1, <1>3 DEF Trouble, LastSignals
  <2> QED BY <1>1, <2>1 DEF Delivery, TroubleInv
<1>6. Head(msgs) \in Messages
  BY <1>1, TailType DEF WireTypes
<1>7. files \subseteq files'
  BY <1>3 DEF wlan_ext_step_execute, ExecuteFails, add_sta, ExecutePlain, ExecuteStop,
              wlan_ext_step_frame_filter
<1>8. \A job : WithFile(job) => WithFile(job)'
  BY <1>1, <1>7 DEF WithFile, Is
<1>9. WithFiles(asteps)
  BY <1>1 DEF Delivery, FilesInv
<1>10. WithFiles(asteps)'
  <2>1. CASE wlan_ext_step_frame_filter(Head(msgs))
    <3>1. SameJobs(asteps', asteps)
      BY <1>1, <1>6, <2>1, FrameEffect
    <3> QED BY <1>8, <1>9, <3>1 DEF WithFiles, SameJobs
  <2>2. CASE Head(msgs).type = "data" /\ wlan_ext_step_execute(Head(msgs).job)
    <3>1. PICK job \in Jobs : job = Head(msgs).job
      BY <1>6, <2>2, Commands
    <3>2. WithFile(job)'
      <4>1. \A kind : ~Fault(kind)
        <5>1. NoFault /\ faults \in Nat
          BY CalmBefore DEF Next, Plain
        <5> QED BY <5>1 DEF Fault, NoFault
      <4>2. Is(job.num, "sta") \/ Is(job.num, "iperf_stop") \/ job \in files'
        BY <2>2, <3>1, <4>1 DEF wlan_ext_step_execute, ExecuteFails, add_sta,
                                ExecutePlain, ExecuteStop
      <4> QED BY <1>1, <4>2 DEF WithFile, Is
    <3>3. PICK steps, e : /\ SameJobs(steps, asteps)
                          /\ e \in StepRecords /\ e.job = job
                          /\ asteps' = Append(steps, e)
      BY <1>1, <2>2, <3>1, ExecuteEffect
    <3>4. /\ DOMAIN asteps' = DOMAIN steps \cup {Len(steps) + 1}
          /\ \A i \in DOMAIN steps : asteps'[i] = steps[i]
          /\ asteps'[Len(steps) + 1] = e
      BY <3>3, AppendType DEF SameJobs
    <3>5. \A i \in DOMAIN steps : WithFile(steps[i].job)'
      BY <1>8, <1>9, <3>3 DEF WithFiles, SameJobs
    <3> QED BY <3>2, <3>3, <3>4, <3>5 DEF WithFiles, WithFile, Is
  <2> QED BY <1>3, <2>1, <2>2
<1>11. WithFiles(json.steps) => WithFiles(json.steps)'
  BY <1>1, <1>8 DEF WithFiles
<1>12. FilesInv' /\ StateInv'
  BY <1>1, <1>4, <1>10, <1>11 DEF Delivery, FilesInv, StateInv
<1> QED BY <1>1, <1>3, <1>5, <1>12 DEF Delivery, TroubleInv, OverInv

LEMMA ThreadDelivers ==
  ASSUME Base, Coupled, Plain, Delivery, Calm, Calm', Thread
  PROVE  Delivery'
<1>1. [Next]_vars /\ UNCHANGED GateVars /\ case' = case /\ plan' = plan
  BY AgentLeavesGate DEF Next, GateVars
<1>2. Asked' = Asked
  BY <1>1, GateUnchanged
<1>3. CASE TestStarts
  <2>1. /\ UNCHANGED <<obj, dev, files, cleaning, json, asteps, ended, fresh>>
        /\ thr = "start" /\ thr' = "run" /\ Live /\ Live'
        /\ sigs' \subseteq sigs \cup {"ready"}
    BY <1>3 DEF TestStarts, deviceVars, resultVars, Thread, Signalled, Live
  <2>2. ~Trouble
    BY <2>1 DEF Delivery, TroubleInv
  <2>3. ~Trouble'
    BY <2>1, <2>2 DEF Trouble, LastSignals, DeletingStates
  <2>4. FilesInv' /\ StateInv'
    BY <1>1, <2>1
       DEF Delivery, FilesInv, StateInv, WithFiles, WithFile, Is
  <2> QED BY <2>1, <2>3, <2>4 DEF Delivery, TroubleInv, OverInv
<1>4. CASE TestReports
  <2>1. /\ UNCHANGED <<obj, dev, files, cleaning, sigs, asteps, ended>>
        /\ thr = "report" /\ thr' = "run" /\ Live
        /\ json' = [state |-> m_state, steps |-> wlan_ext_step_status_update(asteps)]
    BY <1>4 DEF TestReports, deviceVars, resultVars, Live
  <2>2. ~Trouble'
    <3>1. Trouble' = Trouble
      BY <2>1 DEF Trouble, LastSignals
    <3> QED BY <2>1, <3>1 DEF Delivery, TroubleInv
  <2>3. WithFiles(asteps) /\ json'.state \in Good
    BY <2>1 DEF Delivery, FilesInv, Base, ReadyInv
  <2>4. WithFiles(asteps)'
    BY <1>1, <2>1, <2>3 DEF WithFiles, WithFile, Is
  <2>5. WithFiles(json.steps)'
    <3>1. /\ DOMAIN json'.steps = DOMAIN asteps
          /\ \A i \in DOMAIN asteps : json'.steps[i].job = asteps[i].job
      BY <2>1, Reported DEF Base, WireTypes
    <3> QED BY <2>1, <2>4, <3>1 DEF WithFiles
  <2> QED BY <2>1, <2>2, <2>3, <2>4, <2>5
       DEF Delivery, TroubleInv, FilesInv, StateInv, OverInv
<1>5. CASE TestCleans
  <2>1. UNCHANGED <<obj, thr, dev, sigs, json, asteps, ended, fresh>> /\ cleaning
    BY <1>5 DEF TestCleans, testVars, deviceVars, Thread
  <2>2. Trouble
    BY <2>1 DEF Trouble
  <2> QED BY <1>1, <1>2, <2>1, <2>2, DeliveryKept
<1> QED BY <1>3, <1>4, <1>5, MessageDelivers DEF Thread, TestThread

LEMMA TickDelivers ==
  ASSUME Ticks, Base, Coupled, Plain, Delivery, Calm, Calm', Second
  PROVE  Delivery'
<1>1. /\ sigs = {} /\ thr = "run" /\ m_state \in Good /\ up /\ Live
      /\ UNCHANGED <<m_state, obj, fresh, dev, files>>
      /\ UNCHANGED GateVars /\ case' = case /\ plan' = plan
  BY TickIsGood, AgentLeavesGate
     DEF Base, Second, TestTicks, deviceVars, gatewayVars, Live, GateVars
<1>2. Asked' = Asked
  BY <1>1, GateUnchanged
<1>3. PICK over : LET steps == [i \in DOMAIN asteps |->
                                  wlan_ext_step_timeout(asteps[i], over)]
                  IN TestFails(steps) \/ TestGoesOn(steps)
  BY DEF Second, TestTicks
<1> DEFINE steps == [i \in DOMAIN asteps |-> wlan_ext_step_timeout(asteps[i], over)]
<1>4. SameJobs(steps, asteps) /\ steps \in Seq(StepRecords)
  BY TimeoutEffect DEF SameJobs, Base
<1>5. asteps \in Seq(StepRecords)
  BY DEF Base, WireTypes
<1> HIDE DEF steps
<1>6. ~Trouble
  BY <1>1 DEF Delivery, TroubleInv
<1>7. CASE TestFails(steps)
  <2>1. /\ thr' = "over" /\ asteps' = <<>> /\ json'.state = "fail" /\ steps # <<>>
    BY <1>4, <1>7, FailureReported DEF TestFails
  <2>2. Asked
    <3>1. asteps # <<>>
      BY <1>4, <1>5, <2>1 DEF SameJobs
    <3>2. keyed # {}
      BY <1>1, <3>1 DEF Base, SettledInv, LoadInv, Loaded
    <3> QED BY <3>2 DEF Base, AskedInv
  <2> QED BY <1>2, <2>1, <2>2
       DEF Delivery, TroubleInv, FilesInv, StateInv, OverInv, Live
<1>8. CASE TestGoesOn(steps)
  <2>1. /\ thr' = "report" /\ asteps' = steps /\ json' = json /\ cleaning' = cleaning
        /\ sigs' \subseteq {"complete", "running"}
    BY <1>1, <1>8 DEF TestGoesOn, Signalled
  <2>2. ~Trouble'
    BY <1>1, <1>6, <2>1 DEF Trouble, LastSignals, DeletingStates
  <2>3. WithFiles(asteps)'
    <3>1. WithFiles(asteps)
      BY <1>1 DEF Delivery, FilesInv
    <3> QED BY <1>1, <1>4, <2>1, <3>1 DEF WithFiles, WithFile, Is, SameJobs
  <2>4. WithFiles(json.steps)' = WithFiles(json.steps)
    BY <1>1, <2>1 DEF WithFiles, WithFile, Is
  <2> QED BY <1>1, <2>1, <2>2, <2>3, <2>4
       DEF Delivery, TroubleInv, FilesInv, StateInv, OverInv
<1> QED BY <1>3, <1>7, <1>8 DEF steps

LEMMA DeliveryStep ==
  ASSUME Patience, Ticks, OneStart, Base, Coupled, Plain, Delivery, [Next]_vars
  PROVE  Delivery'
<1> SUFFICES ASSUME Calm' PROVE Delivery'
  BY DEF Delivery, TroubleInv, FilesInv, StateInv, OverInv
<1>1. up /\ (Calm \/ NextCase)
  BY CalmBefore
<1>2. CASE NextCase
  BY <1>1, <1>2, NextCaseDelivers
<1>3. CASE Calm /\ ~NextCase
  <2>1. CASE Gateway
    <3>1. ASSUME NEW s \in Steps, SendStop(s) \/ step_remove(s) \/ TestEnds
          PROVE  FALSE
      <4>1. Stopped'
        <5>1. CASE SendStop(s)
          BY <1>3, <5>1, Phases DEF SendStop, Calm, Stopped
        <5>2. CASE step_remove(s) \/ TestEnds
          BY <5>2, Phases DEF step_remove, TestEnds, Stopped
        <5> QED BY <3>1, <5>1, <5>2
      <4> QED BY <4>1 DEF Calm
    <3>2. 0 \in Steps
      BY AgentAssumption DEF Steps
    <3> QED BY <1>3, <2>1, <3>1, <3>2, BeginDelivers, RequestsDeliver DEF Gateway
  <2>2. CASE Main \/ Handler \/ Events
    BY <1>3, <2>2, OthersDeliver
  <2>3. CASE Thread
    BY <1>3, <2>3, ThreadDelivers
  <2>4. CASE Second
    BY <1>3, <2>4, TickDelivers
  <2>5. CASE Over \/ UNCHANGED vars
    <3>1. UNCHANGED <<thr, json, ended, case, asteps, plan, obj, fresh, files, dev,
                      cleaning, sigs>>
      BY <2>5 DEF Over, vars, agentVars, testVars, deviceVars, worldVars,
                  resultVars, gatewayVars
    <3>2. Asked' = Asked
      BY <2>5, AgentLeavesGate, GateUnchanged
    <3>3. Trouble' = Trouble
      BY <3>1 DEF Trouble, LastSignals
    <3> QED BY <1>3, <3>1, <3>2, <3>3, DeliveryKept
  <2> QED BY <2>1, <2>2, <2>3, <2>4, <2>5 DEF Next
<1> QED BY <1>1, <1>2, <1>3

(* A poll of an agent that runs, when nothing failed and no aborted step is *)
(* listed: a step that has ended is not aborted.                           *)
LEMMA PollDelivers ==
  ASSUME Ticks, OneStart, Base, Coupled, Plain, Delivery, NEW s \in Steps,
         step_timeout(s), gst'[s] = "abort", Job(s) \in ended,
         up, faults' = 0, \A i \in DOMAIN json.steps : json.steps[i].st # "abort"
  PROVE  FALSE
<1>1. /\ pc.at = "test" /\ gst[s] \in {"continue", "wait"}
      /\ \A e \in Steps : gst[e] # "abort"
      /\ s \in fresh \/ thr \in {"none", "over"}
  BY Phases DEF step_timeout, Ticks
<1>2. faults = 0 /\ \A kind : ~Fault(kind)
  <2>1. faults = 0 /\ NoFault
    BY FaultsGrow DEF Plain, Next, Gateway
  <2> QED BY <2>1 DEF NoFault, Fault
<1>3. Asked /\ ~Stopped /\ Calm
  BY <1>1, <1>2 DEF Base, AskedInv, Stopped, Calm
<1>4. Polled(s)
  <2>1. json # Empty
    BY <1>1 DEF Plain, AnsweredInv
  <2> QED BY <1>2, <2>1 DEF step_timeout, Unanswered
<1>5. json.state # "fail"
  BY DEF Plain, FailInv
<1>6. thr \notin {"none", "over"}
  <2>1. thr # "none"
    BY <1>2, <1>3 DEF Coupled, NoneInv, Plain, NoThreadInv
  <2>2. thr # "over"
    <3>1. Job(s).case = case
      BY DEF Job
    <3> QED BY <1>3, <1>5, <3>1 DEF Delivery, OverInv, NoneEnded
  <2> QED BY <2>1, <2>2
<1>7. /\ fresh # {} /\ json.state \in Good /\ WithFiles(json.steps) /\ OwnJson
  BY <1>1, <1>3, <1>5, <1>6
     DEF Delivery, StateInv, FilesInv, Coupled, OwnInv
<1>8. \A st : Becomes(s, st) => st = "abort"
  BY DEF Becomes, Base, OwnTypes
<1>9. Listed(s) # 0 => Listed(s) \in DOMAIN json.steps
  BY ListedFinds DEF Base, OwnTypes
<1>10. ASSUME NEW st, Listed(s) # 0, st # "abort" PROVE ~Delivers(s, Listed(s), st)
  <2>1. Downloaded(Listed(s))
    BY <1>7, <1>9, <1>10 DEF Downloaded, agent_endpoint_results, WithFiles, WithFile, Is
  <2> QED BY <1>2, <1>8, <1>10, <2>1 DEF Delivers
<1> DEFINE cnt == gcnt[s] + 1
<1>11. ~IdleAtThree(s, cnt)
  BY <1>7 DEF IdleAtThree, Good
<1>12. CASE Overtime(s, cnt)
  <2>1. json.state = "running" /\ s \in Starters
    BY <1>12 DEF Overtime, Starters
  <2>2. Listed(s) # 0
    <3>1. PICK i \in DOMAIN json.steps : json.steps[i].job.num \in Starters
      BY <1>7, <2>1 DEF OwnJson, JsonStarter
    <3>2. json.steps[i].job.num = s
      <4>1. /\ plan[s].kind \in {"sta", "eth"}
            /\ plan[json.steps[i].job.num].kind \in {"sta", "eth"}
            /\ json.steps[i].job.num \in Steps
        BY <2>1, <3>1 DEF Starters, Stations, Ethernets, Is
      <4> QED BY <4>1 DEF OneStart, Base, OwnTypes
    <3> QED BY <3>1, <3>2, ListedFinds DEF Base, OwnTypes
  <2>3. OverTime(s)
    BY <1>4, <1>5, <1>11, <1>12 DEF Polled
  <2>4. Delivers(s, Listed(s), json.steps[Listed(s)].st)
    BY <2>2, <2>3 DEF OverTime
  <2> QED BY <1>9, <1>10, <2>2, <2>4
<1>13. CASE ~Overtime(s, cnt)
  <2>1. ~Waits(s, gip[s]) /\ ~Waits(s, gip'[s])
    BY <1>8 DEF Waits
  <2>2. Listed(s) # 0 /\ TakesOver(s, Listed(s))
    BY <1>4, <1>5, <1>11, <1>13, <2>1 DEF Polled
  <2>3. json.steps[Listed(s)].st # "abort"
    BY <1>9, <2>2
  <2> QED BY <1>10, <2>1, <2>2, <2>3 DEF TakesOver
<1> QED BY <1>12, <1>13

LEMMA DeliveryInit ==
  ASSUME Init
  PROVE  Plain /\ Delivery
<1>1. /\ dev = <<>> /\ asteps = <<>> /\ obj = FALSE /\ sigs = {} /\ cleaning = FALSE
      /\ thr = "none" /\ pc = Testing /\ json = Empty /\ fresh = {} /\ faults = 0
      /\ gst = [s \in Steps |-> "pending"] /\ ended = {}
  BY DEF Init, AgentInit, GatewayInit
<1>2. json.state = "empty"
  BY <1>1 DEF Empty
<1>3. Plain
  BY <1>1, <1>2, Phases
     DEF Plain, PendingInv, AnsweredInv, FailInv, PastInv, NoThreadInv
<1>4. ~Trouble
  BY <1>1 DEF Trouble, Places, LastSignals
<1> QED BY <1>1, <1>3, <1>4
     DEF Delivery, TroubleInv, FilesInv, StateInv, OverInv, Live

(* What the agent has finished reaches the gateway, although it empties the *)
(* directory of the results and drops its status on its own: a step of the  *)
(* present case that ended is aborted only after a failure, when the agent  *)
(* is gone, or when it reports a step it aborted itself.  The hypotheses    *)
(* are those of the theorem before, less the one about failures.           *)
THEOREM WhatIsFinishedIsDelivered ==
  ASSUME Drops, Patience, Ticks, OneStart
  PROVE  Spec => FinishedIsDelivered
<1> DEFINE Sound == Base /\ Coupled /\ Plain /\ Delivery
           Inv == faults \in Nat /\ (faults = 0 => Sound)
           Spared == \A s \in Steps :
                       /\ gst[s] \in {"continue", "wait"} /\ gst'[s] = "abort"
                       /\ Job(s) \in ended
                       => \/ faults' > 0 \/ ~up
                          \/ \E i \in DOMAIN json.steps : json.steps[i].st = "abort"
<1>1. Init => Inv
  BY OwnInit, DeliveryInit DEF Plain
<1>2. ASSUME Inv, [Next]_vars, faults' = 0
      PROVE  Sound /\ NoneLost
  <2>1. faults = 0 /\ NoFault
    BY <1>2, FaultsGrow
  <2> QED BY <1>2, <2>1 DEF NoneLost, NoFault, Fault
<1>3. Inv /\ [Next]_vars => Inv'
  <2> SUFFICES ASSUME Inv, [Next]_vars PROVE Inv'
    OBVIOUS
  <2>1. faults' \in Nat
    BY FaultsGrow
  <2>2. ASSUME faults' = 0 PROVE Sound'
    <3>1. Sound /\ NoneLost
      BY <1>2, <2>2
    <3> QED BY <3>1, BaseStep, CoupledStep, PlainStep, DeliveryStep
  <2> QED BY <2>1, <2>2
<1>4. Inv /\ [Next]_vars => [Spared]_vars
  <2> SUFFICES ASSUME Inv, [Next]_vars, NEW s \in Steps,
                      gst[s] \in {"continue", "wait"}, gst'[s] = "abort",
                      Job(s) \in ended, ~(faults' > 0), up,
                      \A i \in DOMAIN json.steps : json.steps[i].st # "abort"
               PROVE  FALSE
    OBVIOUS
  <2>1. faults' = 0 /\ Sound
    <3>1. faults' \in Nat
      BY FaultsGrow
    <3> QED BY <1>2, <3>1
  <2>2. step_timeout(s)
    BY <2>1, PendingIsAsked DEF Plain
  <2> QED BY <2>1, <2>2, PollDelivers
<1> QED BY <1>1, <1>3, <1>4, PTL DEF Spec, FinishedIsDelivered
=============================================================================
