---------------------------- MODULE ResumeProofs ----------------------------
(***************************************************************************)
(* Theorems about Resume, for configurations of any length and any content *)
(* and every number of requests, failures and restarts.                    *)
(***************************************************************************)
EXTENDS Resume, FiniteSetTheorems, WellFoundedInduction, TLAPS

(* A set of numbers has a least one, because the intervals below them are   *)
(* finite sets.                                                             *)
LEMMA LeastNumber ==
  ASSUME NEW T \in SUBSET Nat, T # {}
  PROVE  \E x \in T : \A y \in T : x <= y
<1> DEFINE I == {0 .. x : x \in T}
<1>1. I \subseteq FiniteSubsetsOf(Nat) /\ I # {}
  <2>1. \A x \in T : IsFiniteSet(0 .. x)
    BY FS_Interval
  <2>2. \A x \in T : 0 .. x \in SUBSET Nat
    OBVIOUS
  <2> QED BY <2>1, <2>2 DEF FiniteSubsetsOf
<1>2. PICK k \in I : \A j \in I : <<j, k>> \notin StrictSubsetOrdering(Nat)
  <2> HIDE DEF I
  <2> QED BY <1>1, FS_StrictSubsetOrderingWellFounded, WFMin
<1>3. PICK x \in T : k = 0 .. x
  OBVIOUS
<1>4. ASSUME NEW y \in T PROVE x <= y
  <2>1. <<0 .. y, 0 .. x>> \notin StrictSubsetOrdering(Nat)
    BY <1>2, <1>3
  <2>2. x \in Nat /\ y \in Nat /\ 0 .. x \in SUBSET Nat /\ 0 .. y \in SUBSET Nat
    OBVIOUS
  <2>3. ~(0 .. y \subseteq 0 .. x /\ 0 .. y # 0 .. x)
    BY <2>1, <2>2 DEF StrictSubsetOrdering
  <2>4. y < x => 0 .. y \subseteq 0 .. x /\ x \in 0 .. x /\ x \notin 0 .. y
    BY <2>2
  <2> QED BY <2>2, <2>3, <2>4
<1> QED BY <1>4

------------------------------------------------------------------------------
(* The entries of a plan, its queue and the step whose turn it is.          *)
LEMMA EntryType ==
  ASSUME plan \in Plans, NEW x \in Entries(plan)
  PROVE  /\ x = <<x[1], x[2]>>
         /\ Len(plan) \in Nat /\ x[1] \in 1 .. Len(plan)
         /\ Len(plan[x[1]].steps) \in Nat
         /\ x[2] \in 1 .. Len(plan[x[1]].steps)
         /\ Entry(x).num \in Nat
<1>1. plan \in Seq(ToSet(plan))
  BY PlansAssumption
<1>2. PICK c \in 1 .. Len(plan) : x \in {c} \X (1 .. Len(plan[c].steps))
  BY DEF Entries
<1>3. x[1] = c /\ x = <<x[1], x[2]>> /\ x[2] \in 1 .. Len(plan[c].steps)
  BY <1>2
<1>4. plan[c].steps \in Seq(ToSet(plan[c].steps))
  BY PlansAssumption
<1>5. plan[c].steps[x[2]] \in ToSet(plan[c].steps)
  BY <1>3, <1>4 DEF ToSet
<1>6. plan[c].steps[x[2]].num \in Nat
  BY <1>5, PlansAssumption
<1> QED BY <1>1, <1>3, <1>4, <1>6 DEF Entry

(* The entries of the case at place c of the queue: the cases come in the   *)
(* reverse of their order.                                                  *)
QueueOrder(q) ==
  \A c \in 1 .. Len(q) : \A x \in q[c] : x[1] = Len(q) + 1 - c

(* What the queue and the place in it are in the phases of a request.       *)
ResumeTypes ==
  /\ plan \in Plans
  /\ queue \in Seq(SUBSET Entries(plan))
  /\ QueueOrder(queue)
  /\ case \in Nat \ {0}
  /\ i \in Nat \ {0}
  /\ last \in Nat
  /\ saved.last \in Nat
  /\ runs \in [Entries(plan) -> Nat]
  /\ pc \in {"wait", "down"} => queue = <<>>
  /\ pc = "request" => case = Len(queue) + 1 /\ case <= Len(plan) + 1
  /\ pc \in {"fetch", "run"} => Len(queue) = Len(plan)

LEMMA KeptType ==
  ASSUME ResumeTypes, pc = "request", case <= Len(plan), NEW l
  PROVE  /\ Kept(l, case) \in SUBSET Entries(plan)
         /\ \A x \in Kept(l, case) : x[1] = case
<1>1. plan \in Seq(ToSet(plan))
  BY PlansAssumption DEF ResumeTypes
<1>2. case \in 1 .. Len(plan)
  BY <1>1 DEF ResumeTypes
<1> QED BY <1>2 DEF Kept, Entries

LEMMA TurnType ==
  ASSUME ResumeTypes, NEW x \in Turn
  PROVE  /\ pc = "run" /\ case \in 1 .. Len(queue)
         /\ x \in queue[case] /\ i <= x[2]
         /\ \A y \in queue[case] : i <= y[2] => x[2] <= y[2]
         /\ x \in Entries(plan)
         /\ Len(queue) \in Nat /\ x[2] \in Nat \ {0}
         /\ x[1] = Len(queue) + 1 - case
<1>1. pc = "run" /\ case <= Len(queue)
  BY DEF Turn
<1>2. x \in Left /\ \A y \in Left : x[2] <= y[2]
  BY <1>1 DEF Turn
<1>3. case \in 1 .. Len(queue) /\ Len(queue) \in Nat
  BY <1>1 DEF ResumeTypes
<1>4. x \in queue[case] /\ i <= x[2]
  BY <1>2 DEF Left
<1>5. queue[case] \in SUBSET Entries(plan)
  BY <1>3 DEF ResumeTypes
<1>6. x \in Entries(plan) /\ plan \in Plans
  BY <1>4, <1>5 DEF ResumeTypes
<1>7. x[2] \in Nat \ {0}
  BY <1>6, EntryType
<1>8. x[1] = Len(queue) + 1 - case
  BY <1>3, <1>4 DEF ResumeTypes, QueueOrder
<1>9. \A y \in queue[case] : i <= y[2] => x[2] <= y[2]
  BY <1>2 DEF Left
<1> QED BY <1>1, <1>3, <1>4, <1>6, <1>7, <1>8, <1>9

(* What a step does to the test: it goes on, it ends, or it is paused.      *)
Advances(x) ==
  /\ Executed(x) /\ NextStep(x)
  /\ ~IsReboot(x)
  /\ UNCHANGED <<plan, pc, decodeVars, fileVars, resumed, listed, verdict,
                 boundVars>>

Stops(x) ==
  /\ Executed(x)
  /\ pc' = "end" /\ verdict' = "failure"
  /\ \/ faults' = faults + 1
     \/ faults' = faults /\ IsLogStop(x) /\ Entry(x).stop \notin StepNumbers(case)
     \/ /\ faults' = faults /\ IsReboot(x)
        /\ ~ (Listed(x) \subseteq StepNumbers(case))
  /\ UNCHANGED <<plan, decodeVars, fileVars, runVars, resumed, listed,
                 requests, boots>>

StepActions(x) ==
  Step(x) \/ StepAborts(x) \/ LogStop(x) \/ LogStopAborts(x) \/
  Pause(x) \/ PauseAborts(x) \/ PauseFails(x)

LEMMA StepOutcome ==
  ASSUME NEW x, StepActions(x)
  PROVE  Advances(x) \/ Stops(x) \/ Pause(x) \/ PauseFails(x)
<1>1. CASE Step(x)
  BY <1>1 DEF Step, Passes, Advances
<1>2. CASE LogStop(x)
  BY <1>2 DEF LogStop, IsLogStop, IsReboot, Passes, Advances
<1>3. CASE StepAborts(x)
  BY <1>3 DEF StepAborts, Fails, Aborts, Stops
<1>4. CASE LogStopAborts(x)
  BY <1>4 DEF LogStopAborts, Aborts, Stops
<1>5. CASE PauseAborts(x)
  BY <1>5 DEF PauseAborts, Aborts, Stops
<1> QED BY <1>1, <1>2, <1>3, <1>4, <1>5 DEF StepActions

(* The next place is behind the step.                                       *)
LEMMA NextPlace ==
  ASSUME ResumeTypes, NEW x \in Turn, Advances(x)
  PROVE  /\ case' \in Nat \ {0} /\ i' \in Nat \ {0}
         /\ \/ case' = case /\ i' = x[2] + 1
            \/ case' = case + 1 /\ i' = 1
         /\ case' = case + 1 => \A y \in queue[case] : y[2] <= x[2]
<1>1. x[2] \in Nat /\ case \in Nat \ {0} /\ case \in 1 .. Len(queue)
  BY TurnType DEF ResumeTypes
<1>2. \A y \in queue[case] : y[2] \in Nat
  BY <1>1, EntryType DEF ResumeTypes
<1> QED BY <1>1, <1>2 DEF Advances, NextStep

LEMMA RunsType ==
  ASSUME ResumeTypes, NEW x \in Turn, Executed(x)
  PROVE  /\ runs' \in [Entries(plan) -> Nat]
         /\ runs'[x] = runs[x] + 1
         /\ \A y \in Entries(plan) : y # x => runs'[y] = runs[y]
<1>1. x \in Entries(plan) /\ runs \in [Entries(plan) -> Nat]
  BY TurnType DEF ResumeTypes
<1>2. runs' = [runs EXCEPT ![x] = @ + 1]
  BY DEF Executed
<1> QED BY <1>1, <1>2

------------------------------------------------------------------------------
(* Every step keeps the types.                                              *)
LEMMA ResumeTypesInit == Init => ResumeTypes
<1> SUFFICES ASSUME Init PROVE ResumeTypes
  OBVIOUS
<1>1. plan \in Plans /\ queue = <<>> /\ case = 1 /\ i = 1 /\ last = 0
      /\ saved.last = 0 /\ runs = NotRun(plan) /\ pc = "wait"
  BY DEF Init, NoFile
<1>2. runs \in [Entries(plan) -> Nat]
  BY <1>1 DEF NotRun
<1>3. queue \in Seq(SUBSET Entries(plan)) /\ QueueOrder(queue)
  BY <1>1 DEF QueueOrder
<1> QED BY <1>1, <1>2, <1>3 DEF ResumeTypes

LEMMA ResumeTypesUnchanged ==
  ASSUME ResumeTypes, plan' = plan, queue' = queue, case' = case, i' = i,
         last' = last, saved' = saved, runs' = runs,
         pc' = pc \/ pc' \in {"end", "crashed"}
  PROVE  ResumeTypes'
BY DEF ResumeTypes, QueueOrder, Entries

LEMMA ResumeTypesDecode ==
  ASSUME ResumeTypes, Decode
  PROVE  ResumeTypes'
<1> DEFINE K == Kept(last, case)
<1>1. pc = "request" /\ case <= Len(plan) /\ pc' = pc /\ plan' = plan
      /\ queue' = <<K>> \o queue /\ last' = LastAfter(last, case)
      /\ case' = case + 1 /\ i' = i /\ saved' = saved /\ runs' = runs
  BY DEF Decode, fileVars, historyVars
<1>2. K \in SUBSET Entries(plan) /\ \A x \in K : x[1] = case
  BY <1>1, KeptType
<1>3. queue \in Seq(SUBSET Entries(plan)) /\ case = Len(queue) + 1
      /\ case \in Nat \ {0} /\ last \in Nat /\ Len(queue) \in Nat
  BY <1>1 DEF ResumeTypes
<1>4. LastAfter(last, case) \in Nat
  BY <1>3 DEF LastAfter
<1> HIDE DEF K
<1>5. /\ queue' \in Seq(SUBSET Entries(plan)) /\ Len(queue') = Len(queue) + 1
      /\ queue'[1] = K
      /\ \A c \in 2 .. Len(queue) + 1 : queue'[c] = queue[c - 1]
  BY <1>1, <1>2, <1>3
<1>6. QueueOrder(queue)'
  <2> SUFFICES ASSUME NEW c \in 1 .. Len(queue'), NEW x \in queue'[c]
               PROVE  x[1] = Len(queue') + 1 - c
    BY DEF QueueOrder
  <2>1. CASE c = 1
    BY <2>1, <1>2, <1>3, <1>5
  <2>2. CASE c # 1
    <3>1. c \in 2 .. Len(queue) + 1 /\ c - 1 \in 1 .. Len(queue)
      BY <2>2, <1>3, <1>5
    <3>2. x \in queue[c - 1]
      BY <3>1, <1>5
    <3>3. x[1] = Len(queue) + 1 - (c - 1)
      BY <3>1, <3>2 DEF ResumeTypes, QueueOrder
    <3> QED BY <3>1, <3>3, <1>3, <1>5
  <2> QED BY <2>1, <2>2
<1>7. Entries(plan)' = Entries(plan)
  BY <1>1 DEF Entries
<1>8. case' \in Nat \ {0} /\ case' = Len(queue') + 1 /\ case' <= Len(plan') + 1
  <2>1. Len(plan) \in Nat
    BY PlansAssumption DEF ResumeTypes
  <2> QED BY <2>1, <1>1, <1>3, <1>5
<1> QED BY <1>1, <1>4, <1>5, <1>6, <1>7, <1>8 DEF ResumeTypes

(* The queue is emptied, or the request is begun.                           *)
LEMMA ResumeTypesEmptied ==
  ASSUME ResumeTypes, plan' = plan, queue' = <<>>, case' \in Nat \ {0},
         i' \in Nat \ {0}, last' \in Nat, saved'.last \in Nat,
         runs' \in [Entries(plan) -> Nat],
         pc' = "request" => case' = 1,
         pc' \notin {"fetch", "run"}
  PROVE  ResumeTypes'
<1>1. Entries(plan)' = Entries(plan)
  BY DEF Entries
<1>2. queue' \in Seq(SUBSET Entries(plan)) /\ QueueOrder(queue)'
  BY DEF QueueOrder
<1>3. Len(plan) \in Nat
  BY PlansAssumption DEF ResumeTypes
<1> QED BY <1>1, <1>2, <1>3 DEF ResumeTypes

LEMMA ResumeTypesTurn ==
  ASSUME ResumeTypes, NEW x \in Turn, StepActions(x)
  PROVE  ResumeTypes'
<1>1. Entry(x).num \in Nat
  BY TurnType, EntryType DEF ResumeTypes
<1>2. CASE Advances(x)
  <2>1. /\ plan' = plan /\ queue' = queue /\ last' = last /\ saved' = saved
        /\ pc' = pc
    BY <1>2 DEF Advances, decodeVars, fileVars
  <2>2. case' \in Nat \ {0} /\ i' \in Nat \ {0}
    BY <1>2, NextPlace
  <2>3. runs' \in [Entries(plan) -> Nat]
    BY <1>2, RunsType DEF Advances
  <2>4. pc = "run"
    BY TurnType
  <2> QED BY <2>1, <2>2, <2>3, <2>4 DEF ResumeTypes, QueueOrder, Entries
<1>3. CASE Stops(x)
  <2>1. /\ plan' = plan /\ queue' = queue /\ last' = last /\ saved' = saved
        /\ pc' = "end" /\ case' = case /\ i' = i
    BY <1>3 DEF Stops, decodeVars, fileVars, runVars
  <2>2. runs' \in [Entries(plan) -> Nat]
    BY <1>3, RunsType DEF Stops
  <2> QED BY <2>1, <2>2 DEF ResumeTypes, QueueOrder, Entries
<1>4. CASE Pause(x)
  <2>1. /\ plan' = plan /\ queue' = <<>> /\ last' = last /\ pc' = "down"
        /\ saved'.last = Entry(x).num /\ case' = case /\ i' = i
    BY <1>4 DEF Pause, runVars
  <2>2. runs' \in [Entries(plan) -> Nat]
    BY <1>4, RunsType DEF Pause
  <2>3. case \in Nat \ {0} /\ i \in Nat \ {0} /\ last \in Nat
    BY DEF ResumeTypes
  <2> QED BY <2>1, <2>2, <2>3, <1>1, ResumeTypesEmptied
<1>5. CASE PauseFails(x)
  <2>1. /\ plan' = plan /\ queue' = <<>> /\ last' = last /\ pc' = "end"
        /\ saved'.last = Entry(x).num /\ case' = case /\ i' = i
    BY <1>5 DEF PauseFails, runVars
  <2>2. runs' \in [Entries(plan) -> Nat]
    BY <1>5, RunsType DEF PauseFails
  <2>3. case \in Nat \ {0} /\ i \in Nat \ {0} /\ last \in Nat
    BY DEF ResumeTypes
  <2> QED BY <2>1, <2>2, <2>3, <1>1, ResumeTypesEmptied
<1> QED BY <1>2, <1>3, <1>4, <1>5, StepOutcome

LEMMA ResumeTypesStep ==
  ASSUME ResumeTypes, [Next]_vars
  PROVE  ResumeTypes'
<1>0. /\ case \in Nat \ {0} /\ i \in Nat \ {0} /\ last \in Nat
      /\ saved.last \in Nat /\ runs \in [Entries(plan) -> Nat]
  BY DEF ResumeTypes
<1>1. CASE Request
  <2>1. /\ plan' = plan /\ queue' = queue /\ queue = <<>> /\ last' = last
        /\ saved' = saved /\ pc' = "request" /\ case' = 1 /\ i' = 1
        /\ runs' = NotRun(plan)
    BY <1>1 DEF Request, ResumeTypes, decodeVars, fileVars
  <2>2. runs' \in [Entries(plan) -> Nat]
    BY <2>1 DEF NotRun
  <2> QED BY <2>1, <2>2, <1>0, ResumeTypesEmptied
<1>2. CASE Decode
  BY <1>2, ResumeTypesDecode
<1>3. CASE DecodeFails
  <2>1. /\ plan' = plan /\ queue' = queue /\ last' = LastAfter(last, case)
        /\ saved' = saved /\ pc' \in {"crashed", "end"} /\ case' = case
        /\ i' = i /\ runs' = runs
    BY <1>3 DEF DecodeFails, runVars, fileVars
  <2>2. last' \in Nat
    BY <2>1, <1>0 DEF LastAfter
  <2> QED BY <2>1, <2>2 DEF ResumeTypes, QueueOrder, Entries
<1>4. CASE Decoded
  <2>1. /\ plan' = plan /\ queue' = queue /\ last' = last
        /\ saved' = saved /\ pc = "request" /\ pc' = "fetch" /\ case' = case
        /\ i' = i /\ runs' = runs /\ case > Len(plan)
    BY <1>4 DEF Decoded, decodeVars, runVars, fileVars, historyVars
  <2>2. Len(plan) \in Nat /\ Len(queue) \in Nat
    BY PlansAssumption DEF ResumeTypes
  <2>3. Len(queue) = Len(plan)
    BY <2>1, <2>2 DEF ResumeTypes
  <2> QED BY <2>1, <2>3 DEF ResumeTypes, QueueOrder, Entries
<1>5. CASE ConfigMissing
  BY <1>5, ResumeTypesUnchanged
    DEF ConfigMissing, decodeVars, runVars, fileVars
<1>6. CASE Fetch
  <2>1. /\ plan' = plan /\ queue' = queue /\ last' = last
        /\ saved' = saved /\ pc = "fetch" /\ pc' = "run" /\ case' = 1
        /\ i' = 1 /\ runs' = runs
    BY <1>6 DEF Fetch, decodeVars, historyVars
  <2> QED BY <2>1 DEF ResumeTypes, QueueOrder, Entries
<1>7. CASE FetchFails
  BY <1>7, ResumeTypesUnchanged DEF FetchFails, decodeVars, runVars
<1>8. ASSUME NEW x \in Turn, StepActions(x) PROVE ResumeTypes'
  BY <1>8, ResumeTypesTurn
<1>9. CASE Completes
  BY <1>9, ResumeTypesUnchanged DEF Completes, decodeVars, runVars, fileVars
<1>10. CASE Report
  <2>1. /\ plan' = plan /\ queue' = <<>> /\ last' = last
        /\ saved' = saved /\ pc' = "wait" /\ case' = case /\ i' = i
        /\ runs' = runs
    BY <1>10 DEF Report, fileVars, runVars, historyVars
  <2> QED BY <2>1, <1>0, ResumeTypesEmptied
<1>11. CASE Boot
  <2>1. /\ plan' = plan /\ queue' = <<>> /\ last' = saved.last
        /\ saved' = NoFile /\ pc' = "request" /\ case' = 1 /\ i' = 1
        /\ runs' = runs
    BY <1>11 DEF Boot
  <2>2. saved'.last \in Nat
    BY <2>1 DEF NoFile
  <2> QED BY <2>1, <2>2, <1>0, ResumeTypesEmptied
<1>12. CASE UNCHANGED vars
  BY <1>12, ResumeTypesUnchanged
    DEF vars, decodeVars, fileVars, runVars, historyVars
<1> QED BY <1>1, <1>2, <1>3, <1>4, <1>5, <1>6, <1>7, <1>8, <1>9, <1>10,
           <1>11, <1>12 DEF Next, Work, StepActions, Terminated

LEMMA ResumeTypesAlways == Spec => []ResumeTypes
<1> QED BY ResumeTypesInit, ResumeTypesStep, PTL DEF Spec

------------------------------------------------------------------------------
(* While the steps run, the files of all of them are there.                 *)
InputInv ==
  pc = "run" =>
    \A c \in 1 .. Len(queue) : \A x \in queue[c] :
      HasFile(x) => FileOf(plan, x) \in disk

(* Of the files of one name one is fetched last.                            *)
LEMMA LastFetched ==
  ASSUME plan \in Plans, NEW F \in SUBSET Entries(plan), NEW x \in F
  PROVE  \E y \in F : /\ Entry(y).name = Entry(x).name
                      /\ \A z \in F : ~Replaces(z, y)
<1> DEFINE Same == {y \in F : Entry(y).name = Entry(x).name}
           Cases == {y[1] : y \in Same}
<1>1. \A y \in Same : y[1] \in Nat /\ y[2] \in Nat
  BY EntryType
<1>2. Cases \in SUBSET Nat /\ Cases # {}
  BY <1>1
<1>3. PICK c \in Cases : \A d \in Cases : c <= d
  <2> HIDE DEF Cases
  <2> QED BY <1>2, LeastNumber
<1> DEFINE Places == {y[2] : y \in {z \in Same : z[1] = c}}
<1>4. Places \in SUBSET Nat /\ Places # {}
  BY <1>1, <1>3
<1>5. PICK k \in Places : \A l \in Places : k <= l
  <2> HIDE DEF Places
  <2> QED BY <1>4, LeastNumber
<1>6. PICK y \in Same : y[1] = c /\ y[2] = k
  BY <1>5
<1>7. ASSUME NEW z \in F, Replaces(z, y) PROVE FALSE
  <2>1. z \in Same
    BY <1>7 DEF Replaces
  <2>2. c <= z[1] /\ (z[1] = c => k <= z[2])
    BY <2>1, <1>3, <1>5
  <2>3. z[1] \in Nat /\ z[2] \in Nat /\ y[1] \in Nat /\ y[2] \in Nat
    BY <2>1, <1>1
  <2> QED BY <1>6, <1>7, <2>2, <2>3 DEF Replaces, FetchedAfter
<1> QED BY <1>7

LEMMA InputFetch ==
  ASSUME OneSource, ResumeTypes, Fetch
  PROVE  InputInv'
<1>1. ~NothingToRun /\ disk' = Stored(Fetched) /\ plan' = plan /\ queue' = queue
  BY DEF Fetch, decodeVars
<1>2. Reached = 1 .. Len(queue)
  BY <1>1 DEF NothingToRun
<1>3. \A c \in 1 .. Len(queue) : queue[c] \in SUBSET Entries(plan)
  BY DEF ResumeTypes
<1>4. Fetched \in SUBSET Entries(plan)
  BY <1>2, <1>3 DEF Fetched
<1> SUFFICES ASSUME NEW c \in 1 .. Len(queue), NEW x \in queue[c], HasFile(x)
             PROVE  FileOf(plan, x) \in disk'
  BY <1>1 DEF InputInv, HasFile, Entry
<1>5. x \in Fetched /\ plan \in Plans
  BY <1>2 DEF Fetched, ResumeTypes
<1>6. PICK y \in Fetched : /\ Entry(y).name = Entry(x).name
                           /\ \A z \in Fetched : ~Replaces(z, y)
  BY <1>4, <1>5, LastFetched
<1>7. <<Entry(y).name, Entry(y).at>> \in disk'
  BY <1>1, <1>6 DEF Stored
<1>8. x \in Entries(plan) /\ y \in Entries(plan) /\ HasFile(y)
  BY <1>4, <1>5, <1>6 DEF Fetched
<1>9. IsInput(plan, x) /\ IsInput(plan, y)
  BY <1>8 DEF HasFile, IsInput, Entry
<1>10. FileOf(plan, x)[1] = FileOf(plan, y)[1]
  BY <1>6 DEF FileOf, Entry
<1>11. FileOf(plan, x) = FileOf(plan, y)
  BY <1>5, <1>8, <1>9, <1>10 DEF OneSource
<1> QED BY <1>7, <1>11 DEF FileOf, Entry

LEMMA InputStep ==
  ASSUME OneSource, ResumeTypes, InputInv, [Next]_vars
  PROVE  InputInv'
<1>1. CASE pc' # "run"
  BY <1>1 DEF InputInv
<1>2. CASE Fetch
  BY <1>2, InputFetch
<1>3. CASE UNCHANGED <<pc, plan, queue, disk>>
  BY <1>3 DEF InputInv, HasFile, Entry, FileOf
<1>4. ASSUME NEW x \in Turn, StepActions(x)
      PROVE  UNCHANGED <<pc, plan, queue, disk>> \/ pc' # "run"
  BY <1>4, StepOutcome
    DEF Advances, Stops, Pause, PauseFails, decodeVars, fileVars
<1>5. Request \/ DecodeFails \/ Decoded \/ ConfigMissing \/ FetchFails
      \/ Completes \/ Report \/ Boot => pc' # "run"
  BY DEF Request, DecodeFails, Decoded, ConfigMissing, FetchFails, Completes,
         Report, Boot
<1>6. Decode => pc' # "run"
  BY DEF Decode
<1>7. UNCHANGED vars => UNCHANGED <<pc, plan, queue, disk>>
  BY DEF vars, decodeVars, fileVars
<1> QED BY <1>1, <1>2, <1>3, <1>4, <1>5, <1>6, <1>7
        DEF Next, Work, StepActions, Terminated

(* wlan_emu_ui_mgr.cpp:3171, 3237: a step reads the file its configuration  *)
(* names, fetched by this process, in every configuration whose files of    *)
(* one name come from one directory.                                        *)
THEOREM InputsAreOwn ==
  ASSUME OneSource
  PROVE  Spec => []InputIsOwn
<1>1. Init => InputInv
  BY DEF Init, InputInv
<1>2. ResumeTypes /\ InputInv /\ [Next]_vars => InputInv'
  BY InputStep
<1>3. ResumeTypes /\ InputInv => InputIsOwn
  <2> SUFFICES ASSUME ResumeTypes, InputInv, NEW x \in Turn, ReadsFile(x)
               PROVE  <<Entry(x).name, Entry(x).at>> \in disk
    BY DEF InputIsOwn
  <2>1. pc = "run" /\ case \in 1 .. Len(queue) /\ x \in queue[case]
    BY TurnType
  <2>2. HasFile(x)
    BY DEF ReadsFile, HasFile, FetchedTypes
  <2>3. FileOf(plan, x) \in disk
    BY <2>1, <2>2 DEF InputInv
  <2> QED BY <2>3 DEF FileOf, Entry
<1> QED BY <1>1, <1>2, <1>3, ResumeTypesAlways, PTL DEF Spec

------------------------------------------------------------------------------
(* A step of the queue that has not been executed by this process.          *)
Pending(c, x) ==
  \/ pc \in {"request", "fetch"}
  \/ pc = "run" /\ (case < c \/ (case = c /\ i <= x[2]))

(* What a process goes on with is what a restart has left to it.            *)
Resumes == resumed /\ pc \in {"request", "fetch", "run"}
Restarted(r) ==
  /\ IsReboot(r) /\ paused = Listed(r)
  /\ IF pc = "request" /\ case = 1 THEN last = Entry(r).num
     ELSE queue[1] = Kept(Entry(r).num, 1)

RestartInv ==
  /\ Resumes => \E r \in Entries(plan) : Restarted(r)
  /\ pc = "down" =>
       \E r \in Entries(plan) :
         IsReboot(r) /\ saved = [last |-> Entry(r).num, logs |-> Listed(r)]

(* What has been executed when a process begins, and when a step is next.   *)
AgainInv ==
  /\ OnlyLogsRunAgain
  /\ pc = "request" /\ ~resumed => \A x \in Entries(plan) : runs[x] = 0
  /\ Resumes => paused \subseteq listed
  /\ Resumes /\ pc = "request" /\ case = 1 =>
       \A x \in Entries(plan) : runs[x] > 0 => Entry(x).num <= last
  /\ pc = "down" =>
       /\ saved.logs \subseteq listed
       /\ \A x \in Entries(plan) : runs[x] > 0 => Entry(x).num <= saved.last
  /\ \A c \in 1 .. Len(queue) : \A x \in queue[c] : Pending(c, x) =>
       /\ runs[x] > 0 => Entry(x).num \in listed
       /\ IsReboot(x) => \A y \in Entries(plan) : runs[y] > 0 => y[2] < x[2]

(* What was decoded was accepted.                                           *)
Accepted(c) ==
  /\ decode_coverage_config(plan[c]) \notin {"none", "null"}
  /\ plan[c].named
  /\ \A x \in Entries(plan) : x[1] = c => DecodeStep(Entry(x)) = "ok"

AcceptedInv ==
  \A c \in 1 .. Len(queue) : \A x \in queue[c] : DecodeStep(Entry(x)) = "ok"

(* The number of the last step is forgotten, and every step was executed or *)
(* will be.                                                                 *)
Covered(x) ==
  LET c == Len(queue) + 1 - x[1]
  IN runs[x] > 0 \/ (x \in queue[c] /\ Pending(c, x))

DoneInv ==
  /\ last # 0 => pc = "request" /\ resumed /\ case = 1
  /\ pc \in {"request", "fetch", "run"} =>
       \A c \in 1 .. Len(queue) : Accepted(c)
  /\ pc = "down" \/ Resumes => \A c \in 1 .. Len(plan) : Accepted(c)
  /\ pc \in {"request", "fetch", "run"} =>
       \A x \in Entries(plan) : x[1] <= Len(queue) => Covered(x)
  /\ Resumes /\ pc = "request" /\ case = 1 =>
       \A x \in Entries(plan) : Entry(x).num <= last => runs[x] > 0
  /\ pc = "down" =>
       \A x \in Entries(plan) : Entry(x).num <= saved.last => runs[x] > 0
  /\ CompleteMeansExecuted

(* The logs that were paused have been started again, or come first.        *)
AcceptedNumbers ==
  {Entry(x).num : x \in {x \in Entries(plan) : DecodeStep(Entry(x)) = "ok"}}

LogsInv ==
  /\ pc = "down" => saved.logs \subseteq AcceptedNumbers
  /\ Resumes => paused \subseteq AcceptedNumbers
  /\ Resumes /\ ~(pc = "request" /\ case = 1) =>
       \A n \in paused :
         n \in ran \/ \E x \in queue[1] : Entry(x).num = n /\ Pending(1, x)

LEMMA SamePlan ==
  ASSUME plan' = plan
  PROVE  /\ Entries(plan)' = Entries(plan)
         /\ \A x : /\ Entry(x)' = Entry(x) /\ IsReboot(x)' = IsReboot(x)
                   /\ Listed(x)' = Listed(x)
         /\ \A c : Accepted(c)' = Accepted(c)
         /\ paused' = paused => \A l, c : Kept(l, c)' = Kept(l, c)
<1>1. Entries(plan)' = Entries(plan)
  BY DEF Entries
<1>2. \A x : Entry(x)' = Entry(x)
  BY DEF Entry
<1>3. \A x : IsReboot(x)' = IsReboot(x) /\ Listed(x)' = Listed(x)
  BY <1>2 DEF IsReboot, Listed
<1>4. \A c : Accepted(c)' = Accepted(c)
  BY <1>1, <1>2 DEF Accepted
<1>5. paused' = paused => \A l, c : Kept(l, c)' = Kept(l, c)
  BY <1>2 DEF Kept, check_reboot_step_config
<1> QED BY <1>1, <1>2, <1>3, <1>4, <1>5

(* What Resumable says of the plan and a restart in it.                     *)
LEMMA RestartAt ==
  ASSUME Resumable, plan \in Plans, NEW r \in Entries(plan), IsReboot(r)
  PROVE  /\ Len(plan) = 1
         /\ \A x \in Entries(plan) :
              /\ x[1] = 1 /\ Entry(x).num > 0
              /\ x[2] < r[2] => Entry(x).num < Entry(r).num
              /\ r[2] < x[2] => Entry(r).num < Entry(x).num
              /\ x[2] = r[2] => x = r
              /\ Entry(x).num \in Listed(r) => x[2] < r[2] /\ IsLogStart(x)
<1>1. \A x : StepOf(plan, x) = Entry(x)
  BY DEF StepOf, Entry
<1>2. Restarts(plan, r) /\ Lists(plan, r) = Listed(r)
  BY <1>1 DEF Restarts, IsReboot, Lists, Listed
<1>3. \A x : StartsLog(plan, x) = IsLogStart(x)
  BY <1>1 DEF StartsLog, IsLogStart
<1>4. Len(plan) = 1
  BY <1>2 DEF Resumable
<1>5. \A x \in Entries(plan) : x[1] = 1 /\ (x[2] = r[2] => x = r)
  BY <1>4, EntryType
<1>6. \A x \in Entries(plan) :
        /\ Entry(x).num > 0
        /\ x[2] < r[2] => Entry(x).num < Entry(r).num
        /\ r[2] < x[2] => Entry(r).num < Entry(x).num
        /\ Entry(x).num \in Listed(r) => x[2] < r[2] /\ IsLogStart(x)
  BY <1>1, <1>2, <1>3 DEF Resumable
<1> QED BY <1>4, <1>5, <1>6

LEMMA RestartInit == Init => RestartInv
BY DEF Init, RestartInv, Resumes

LEMMA RestartStep ==
  ASSUME Resumable, ResumeTypes, RestartInv, [Next]_vars
  PROVE  RestartInv'
<1>0. plan \in Plans
  BY DEF ResumeTypes
<1>1. CASE ~Resumes' /\ pc' # "down"
  BY <1>1 DEF RestartInv
<1>2. CASE UNCHANGED <<plan, pc, queue, last, paused, saved, case, resumed>>
  <2>1. /\ Entries(plan)' = Entries(plan)
        /\ \A x : Entry(x)' = Entry(x) /\ IsReboot(x)' = IsReboot(x)
                  /\ Listed(x)' = Listed(x)
        /\ \A l, c : Kept(l, c)' = Kept(l, c)
    BY <1>2, SamePlan
  <2> QED BY <1>2, <2>1 DEF RestartInv, Resumes, Restarted
<1>3. ASSUME Resumes, Resumes', plan' = plan, paused' = paused, pc' # "down",
             ~(pc = "request" /\ case = 1), ~(pc' = "request" /\ case' = 1),
             queue' = queue
      PROVE  RestartInv'
  <2>1. PICK r \in Entries(plan) : Restarted(r)
    BY <1>3 DEF RestartInv
  <2>2. /\ Entries(plan)' = Entries(plan) /\ Entry(r)' = Entry(r)
        /\ IsReboot(r)' = IsReboot(r) /\ Listed(r)' = Listed(r)
        /\ Kept(Entry(r).num, 1)' = Kept(Entry(r).num, 1)
    BY <1>3, SamePlan
  <2>3. Restarted(r)'
    BY <1>3, <2>1, <2>2 DEF Restarted
  <2> QED BY <1>3, <2>2, <2>3 DEF RestartInv
<1>4. CASE Decode
  <2>1. /\ pc = "request" /\ pc' = "request" /\ case <= Len(plan)
        /\ queue' = <<Kept(last, case)>> \o queue /\ case' = case + 1
        /\ plan' = plan /\ paused' = paused /\ resumed' = resumed
    BY <1>4 DEF Decode
  <2>2. case \in Nat \ {0} /\ queue \in Seq(SUBSET Entries(plan))
    BY DEF ResumeTypes
  <2>3. CASE ~resumed
    BY <2>1, <2>3 DEF RestartInv, Resumes
  <2>4. CASE resumed
    <3>1. PICK r \in Entries(plan) : Restarted(r)
      BY <2>1, <2>4 DEF RestartInv, Resumes
    <3>2. Len(plan) = 1
      BY <3>1, <1>0, RestartAt DEF Restarted
    <3>3. case = 1
      BY <3>2, <2>1, <2>2
    <3>4. queue'[1] = Kept(last, 1)
      BY <2>1, <2>2, <3>3
    <3>5. last = Entry(r).num /\ IsReboot(r) /\ paused = Listed(r)
      BY <3>1, <3>3, <2>1 DEF Restarted
    <3>6. /\ Entries(plan)' = Entries(plan) /\ Entry(r)' = Entry(r)
          /\ IsReboot(r)' = IsReboot(r) /\ Listed(r)' = Listed(r)
          /\ Kept(Entry(r).num, 1)' = Kept(Entry(r).num, 1)
      BY <2>1, SamePlan
    <3>7. Restarted(r)'
      BY <2>1, <3>3, <3>4, <3>5, <3>6 DEF Restarted
    <3> QED BY <2>1, <3>6, <3>7 DEF RestartInv
  <2> QED BY <2>3, <2>4
<1>5. CASE Decoded
  <2>1. /\ pc = "request" /\ pc' = "fetch" /\ case > Len(plan)
        /\ UNCHANGED <<plan, queue, paused, case, resumed>>
    BY <1>5 DEF Decoded, decodeVars, runVars
  <2>2. CASE ~resumed
    BY <2>1, <2>2 DEF RestartInv, Resumes
  <2>3. CASE resumed
    <3>1. PICK r \in Entries(plan) : Restarted(r)
      BY <2>1, <2>3 DEF RestartInv, Resumes
    <3>2. Len(plan) = 1
      BY <3>1, <1>0, RestartAt DEF Restarted
    <3> QED BY <2>1, <2>3, <3>2, <1>3 DEF Resumes
  <2> QED BY <2>2, <2>3
<1>6. CASE Fetch
  <2>1. /\ pc = "fetch" /\ pc' = "run"
        /\ UNCHANGED <<plan, queue, paused, resumed>>
    BY <1>6 DEF Fetch, decodeVars
  <2> QED BY <2>1, <1>1, <1>3 DEF Resumes
<1>7. ASSUME NEW x \in Turn, StepActions(x) PROVE RestartInv'
  <2>1. pc = "run" /\ x \in Entries(plan)
    BY TurnType
  <2>2. CASE Advances(x)
    <3>1. UNCHANGED <<plan, pc, queue, paused, resumed>>
      BY <2>2 DEF Advances, decodeVars
    <3> QED BY <2>1, <3>1, <1>1, <1>3 DEF Resumes
  <2>3. CASE Pause(x)
    <3>1. /\ pc' = "down" /\ plan' = plan /\ IsReboot(x)
          /\ saved' = [last |-> Entry(x).num, logs |-> Listed(x)]
      BY <2>3 DEF Pause
    <3>2. /\ Entries(plan)' = Entries(plan) /\ Entry(x)' = Entry(x)
          /\ IsReboot(x)' = IsReboot(x) /\ Listed(x)' = Listed(x)
      BY <3>1, SamePlan
    <3> QED BY <2>1, <3>1, <3>2 DEF RestartInv, Resumes
  <2>4. Stops(x) \/ PauseFails(x) => pc' = "end"
    BY DEF Stops, PauseFails
  <2> QED BY <1>1, <1>7, <2>2, <2>3, <2>4, StepOutcome DEF Resumes
<1>8. CASE Boot
  <2>1. /\ pc = "down" /\ pc' = "request" /\ plan' = plan /\ case' = 1
        /\ last' = saved.last /\ paused' = saved.logs
    BY <1>8 DEF Boot
  <2>2. PICK r \in Entries(plan) :
          IsReboot(r) /\ saved = [last |-> Entry(r).num, logs |-> Listed(r)]
    BY <2>1 DEF RestartInv
  <2>3. /\ Entries(plan)' = Entries(plan) /\ Entry(r)' = Entry(r)
        /\ IsReboot(r)' = IsReboot(r) /\ Listed(r)' = Listed(r)
    BY <2>1, SamePlan
  <2>4. Restarted(r)'
    BY <2>1, <2>2, <2>3 DEF Restarted
  <2> QED BY <2>1, <2>3, <2>4 DEF RestartInv
<1>9. Request => ~Resumes' /\ pc' # "down"
  BY DEF Request, Resumes
<1>10. DecodeFails \/ ConfigMissing \/ FetchFails \/ Completes \/ Report
       => ~Resumes' /\ pc' # "down"
  BY DEF DecodeFails, ConfigMissing, FetchFails, Completes, Report, Resumes
<1>11. UNCHANGED vars =>
         UNCHANGED <<plan, pc, queue, last, paused, saved, case, resumed>>
  BY DEF vars, decodeVars, fileVars, runVars
<1> QED BY <1>1, <1>2, <1>4, <1>5, <1>6, <1>7, <1>8, <1>9, <1>10, <1>11
        DEF Next, Work, StepActions, Terminated

------------------------------------------------------------------------------
LEMMA AgainOver ==
  ASSUME OnlyLogsRunAgain', pc' \in {"wait", "end", "crashed"}
  PROVE  AgainInv'
BY DEF AgainInv, Resumes, Pending

(* The next step has run before only if its log was paused.                 *)
LEMMA AgainExecuted ==
  ASSUME ResumeTypes, AgainInv, NEW x \in Turn, Executed(x), plan' = plan,
         listed \subseteq listed'
  PROVE  OnlyLogsRunAgain'
<1>1. /\ Entries(plan)' = Entries(plan) /\ \A y : Entry(y)' = Entry(y)
  BY SamePlan
<1>2. x \in Entries(plan) /\ Pending(case, x) /\ case \in 1 .. Len(queue)
      /\ x \in queue[case]
  BY TurnType DEF Pending
<1>3. runs[x] > 0 => Entry(x).num \in listed
  BY <1>2 DEF AgainInv
<1>4. /\ runs'[x] = runs[x] + 1 /\ runs[x] \in Nat
      /\ \A y \in Entries(plan) : y # x => runs'[y] = runs[y]
  BY <1>2, RunsType DEF ResumeTypes
<1>5. ASSUME NEW y \in Entries(plan), runs'[y] > 1
      PROVE  Entry(y).num \in listed'
  BY <1>3, <1>4, <1>5 DEF AgainInv, OnlyLogsRunAgain
<1> QED BY <1>1, <1>5 DEF OnlyLogsRunAgain

(* What a process keeps of a resumed test has not run, or is a log; and a   *)
(* restart among it is behind all that has run.                             *)
LEMMA AgainKept ==
  ASSUME Resumable, ResumeTypes, RestartInv, AgainInv, pc = "request",
         case <= Len(plan), NEW x \in Kept(last, case)
  PROVE  /\ runs[x] > 0 => Entry(x).num \in listed
         /\ IsReboot(x) => \A y \in Entries(plan) : runs[y] > 0 => y[2] < x[2]
<1>0. /\ plan \in Plans /\ x \in Entries(plan) /\ case \in Nat \ {0}
  BY KeptType DEF ResumeTypes
<1>1. CASE ~resumed
  BY <1>0, <1>1 DEF AgainInv
<1>2. CASE resumed
  <2>1. PICK r \in Entries(plan) : Restarted(r)
    BY <1>2 DEF RestartInv, Resumes
  <2>2. Len(plan) = 1 /\ IsReboot(r) /\ paused = Listed(r)
    BY <1>0, <2>1, RestartAt DEF Restarted
  <2>3. case = 1
    BY <2>2, <1>0
  <2>4. last = Entry(r).num /\ Entry(r).num > 0
    BY <1>0, <2>1, <2>2, <2>3, RestartAt DEF Restarted
  <2>5. Entry(x).num > last \/ Entry(x).num \in paused
    BY <2>4 DEF Kept, check_reboot_step_config
  <2>6. \A y \in Entries(plan) :
          runs[y] > 0 => Entry(y).num <= last /\ Entry(y).num \in Nat
    BY <1>0, <1>2, <2>3, EntryType DEF AgainInv, Resumes
  <2>7. Entry(x).num \in Nat /\ last \in Nat
    BY <1>0, EntryType DEF ResumeTypes
  <2>8. runs[x] > 0 => Entry(x).num \in listed
    BY <1>0, <1>2, <2>5, <2>6, <2>7 DEF AgainInv, Resumes
  <2>9. ASSUME IsReboot(x), NEW y \in Entries(plan), runs[y] > 0
        PROVE  y[2] < x[2]
    <3>1. Entry(x).num \notin paused
      BY <1>0, <2>2, <2>9, RestartAt DEF IsLogStart, IsReboot
    <3>2. Entry(y).num < Entry(x).num
      BY <3>1, <2>5, <2>6, <2>7, <2>9
    <3>3. /\ x[2] < y[2] => Entry(x).num < Entry(y).num
          /\ y[2] = x[2] => y = x
      BY <1>0, <2>9, RestartAt
    <3>4. x[2] \in Nat /\ y[2] \in Nat /\ Entry(y).num \in Nat
      BY <1>0, EntryType
    <3> QED BY <3>2, <3>3, <3>4, <2>7
  <2> QED BY <2>8, <2>9
<1> QED BY <1>1, <1>2

LEMMA AgainDecode ==
  ASSUME Resumable, ResumeTypes, RestartInv, AgainInv, Decode
  PROVE  AgainInv'
<1>1. /\ pc = "request" /\ pc' = "request" /\ case <= Len(plan)
      /\ queue' = <<Kept(last, case)>> \o queue /\ case' = case + 1
      /\ plan' = plan /\ paused' = paused /\ resumed' = resumed
      /\ runs' = runs /\ listed' = listed
  BY DEF Decode, historyVars
<1>2. case \in Nat \ {0} /\ queue \in Seq(SUBSET Entries(plan))
      /\ Len(queue) \in Nat
  BY DEF ResumeTypes
<1>3. /\ Len(queue') = Len(queue) + 1 /\ queue'[1] = Kept(last, case)
      /\ \A c \in 2 .. Len(queue) + 1 : queue'[c] = queue[c - 1]
  BY <1>1, <1>2
<1>4. /\ Entries(plan)' = Entries(plan)
      /\ \A x : Entry(x)' = Entry(x) /\ IsReboot(x)' = IsReboot(x)
  BY <1>1, SamePlan
<1>5. ASSUME NEW c \in 1 .. Len(queue'), NEW x \in queue'[c]
      PROVE  /\ runs[x] > 0 => Entry(x).num \in listed
             /\ IsReboot(x) =>
                  \A y \in Entries(plan) : runs[y] > 0 => y[2] < x[2]
  <2>1. CASE c = 1
    BY <2>1, <1>1, <1>3, AgainKept
  <2>2. CASE c # 1
    <3>1. c - 1 \in 1 .. Len(queue) /\ x \in queue[c - 1]
      BY <2>2, <1>2, <1>3
    <3>2. Pending(c - 1, x)
      BY <1>1 DEF Pending
    <3> QED BY <3>1, <3>2 DEF AgainInv
  <2> QED BY <2>1, <2>2
<1>6. OnlyLogsRunAgain'
  BY <1>1, <1>4 DEF OnlyLogsRunAgain, AgainInv
<1>7. pc' = "request" /\ ~resumed' => \A x \in Entries(plan)' : runs'[x] = 0
  BY <1>1, <1>4 DEF AgainInv
<1>8. Resumes' => paused' \subseteq listed'
  BY <1>1 DEF AgainInv, Resumes
<1>9. case' # 1 /\ pc' # "down"
  BY <1>1, <1>2
<1>10. \A c \in 1 .. Len(queue') : \A x \in queue'[c] :
         /\ runs'[x] > 0 => Entry(x)'.num \in listed'
         /\ IsReboot(x)' =>
              \A y \in Entries(plan)' : runs'[y] > 0 => y[2] < x[2]
  BY <1>1, <1>4, <1>5
<1> QED BY <1>6, <1>7, <1>8, <1>9, <1>10 DEF AgainInv

(* Nothing runs, and what is pending was.                                   *)
LEMMA AgainPhase ==
  ASSUME AgainInv, plan' = plan, queue' = queue, runs' = runs,
         listed' = listed, paused' = paused, resumed' = resumed, last' = last,
         saved' = saved, case' = case \/ pc' # "request", pc' # "down" \/ pc = "down",
         pc' = "request" => pc = "request", Resumes' => Resumes,
         \A c, x : Pending(c, x)' => Pending(c, x)
  PROVE  AgainInv'
<1>1. /\ Entries(plan)' = Entries(plan)
      /\ \A x : Entry(x)' = Entry(x) /\ IsReboot(x)' = IsReboot(x)
  BY SamePlan
<1>2. OnlyLogsRunAgain'
  BY <1>1 DEF OnlyLogsRunAgain, AgainInv
<1>3. \A c \in 1 .. Len(queue') : \A x \in queue'[c] : Pending(c, x)' =>
        /\ runs'[x] > 0 => Entry(x)'.num \in listed'
        /\ IsReboot(x)' => \A y \in Entries(plan)' : runs'[y] > 0 => y[2] < x[2]
  BY <1>1 DEF AgainInv
<1> QED BY <1>1, <1>2, <1>3 DEF AgainInv

(* After a step those pending are behind it.                                *)
LEMMA PendingNext ==
  ASSUME ResumeTypes, NEW x \in Turn, Advances(x),
         NEW c \in 1 .. Len(queue), NEW y \in queue[c], Pending(c, y)'
  PROVE  /\ Pending(c, y) /\ y # x
         /\ c = case => x[2] < y[2]
<1>1. /\ pc = "run" /\ pc' = "run" /\ case \in 1 .. Len(queue)
      /\ x[2] \in Nat \ {0} /\ i <= x[2] /\ x[1] = Len(queue) + 1 - case
      /\ Len(queue) \in Nat /\ i \in Nat
  BY TurnType DEF Advances, ResumeTypes
<1>2. y[1] = Len(queue) + 1 - c
  BY DEF ResumeTypes, QueueOrder
<1>3. y \in Entries(plan) /\ plan \in Plans
  BY DEF ResumeTypes
<1>4. y[2] \in Nat
  BY <1>3, EntryType
<1>5. case' < c \/ (case' = c /\ i' <= y[2])
  BY <1>1 DEF Pending
<1>6. CASE case' = case /\ i' = x[2] + 1
  <2>1. c = case => x[2] < y[2]
    BY <1>1, <1>4, <1>5, <1>6
  <2>2. case < c \/ (case = c /\ i <= y[2])
    BY <1>1, <1>4, <1>5, <1>6
  <2>3. y # x
    BY <1>1, <1>2, <1>4, <2>1, <2>2
  <2> QED BY <1>1, <2>1, <2>2, <2>3 DEF Pending
<1>7. CASE case' = case + 1 /\ i' = 1
  <2>1. case < c
    BY <1>1, <1>5, <1>7
  <2>2. y # x
    BY <1>1, <1>2, <2>1
  <2> QED BY <1>1, <2>1, <2>2 DEF Pending
<1> QED BY <1>6, <1>7, NextPlace

LEMMA AgainAdvances ==
  ASSUME Resumable, ResumeTypes, AgainInv, NEW x \in Turn, Advances(x)
  PROVE  AgainInv'
<1>1. /\ pc = "run" /\ pc' = "run" /\ plan' = plan /\ queue' = queue
      /\ listed' = listed /\ paused' = paused /\ resumed' = resumed
      /\ Executed(x) /\ x \in queue[case] /\ case \in 1 .. Len(queue)
      /\ x[2] \in Nat
  BY TurnType DEF Advances, decodeVars
<1>2. /\ Entries(plan)' = Entries(plan)
      /\ \A y : Entry(y)' = Entry(y) /\ IsReboot(y)' = IsReboot(y)
  BY <1>1, SamePlan
<1>3. OnlyLogsRunAgain'
  BY <1>1, AgainExecuted
<1>4. \A y \in Entries(plan) : y # x => runs'[y] = runs[y]
  BY <1>1, RunsType
<1>5. ASSUME NEW c \in 1 .. Len(queue), NEW y \in queue[c], Pending(c, y)'
      PROVE  /\ runs'[y] > 0 => Entry(y).num \in listed
             /\ IsReboot(y) =>
                  \A z \in Entries(plan) : runs'[z] > 0 => z[2] < y[2]
  <2>1. Pending(c, y) /\ y # x /\ (c = case => x[2] < y[2])
    BY <1>5, PendingNext
  <2>2. y \in Entries(plan) /\ plan \in Plans
    BY DEF ResumeTypes
  <2>3. runs'[y] > 0 => Entry(y).num \in listed
    BY <2>1, <2>2, <1>4 DEF AgainInv
  <2>4. ASSUME IsReboot(y), NEW z \in Entries(plan), runs'[z] > 0
        PROVE  z[2] < y[2]
    <3>1. CASE z # x
      BY <3>1, <2>1, <2>4, <1>4 DEF AgainInv
    <3>2. CASE z = x
      <4>1. Len(plan) = 1
        BY <2>2, <2>4, RestartAt
      <4>2. Len(queue) = 1
        BY <1>1, <4>1 DEF ResumeTypes
      <4>3. c = case
        BY <4>2, <1>1
      <4> QED BY <3>2, <4>3, <2>1
    <3> QED BY <3>1, <3>2
  <2> QED BY <2>3, <2>4
<1>6. \A c \in 1 .. Len(queue') : \A y \in queue'[c] : Pending(c, y)' =>
        /\ runs'[y] > 0 => Entry(y)'.num \in listed'
        /\ IsReboot(y)' =>
             \A z \in Entries(plan)' : runs'[z] > 0 => z[2] < y[2]
  BY <1>1, <1>2, <1>5
<1>7. Resumes' => paused' \subseteq listed'
  BY <1>1 DEF AgainInv, Resumes
<1> QED BY <1>1, <1>3, <1>6, <1>7 DEF AgainInv

LEMMA AgainPause ==
  ASSUME Resumable, ResumeTypes, AgainInv, NEW x \in Turn, Pause(x)
  PROVE  AgainInv'
<1>1. /\ pc = "run" /\ pc' = "down" /\ plan' = plan /\ queue' = <<>>
      /\ IsReboot(x) /\ Executed(x) /\ listed' = listed \cup Listed(x)
      /\ saved' = [last |-> Entry(x).num, logs |-> Listed(x)]
  BY TurnType DEF Pause
<1>2. /\ Entries(plan)' = Entries(plan) /\ \A y : Entry(y)' = Entry(y)
  BY <1>1, SamePlan
<1>3. OnlyLogsRunAgain'
  BY <1>1, AgainExecuted
<1>4. /\ x \in Entries(plan) /\ plan \in Plans /\ case \in 1 .. Len(queue)
      /\ x \in queue[case] /\ Pending(case, x)
  BY TurnType DEF ResumeTypes, Pending
<1>5. \A y \in Entries(plan) : runs[y] > 0 => y[2] < x[2]
  BY <1>1, <1>4 DEF AgainInv
<1>6. \A y \in Entries(plan) : y # x => runs'[y] = runs[y]
  BY <1>1, RunsType
<1>7. ASSUME NEW y \in Entries(plan), runs'[y] > 0
      PROVE  Entry(y).num <= Entry(x).num
  <2>1. Entry(y).num \in Nat /\ Entry(x).num \in Nat
    BY <1>4, EntryType
  <2>2. y # x => y[2] < x[2]
    BY <1>5, <1>6, <1>7
  <2>3. y # x => Entry(y).num < Entry(x).num
    BY <2>2, <1>1, <1>4, RestartAt
  <2> QED BY <2>1, <2>3
<1>8. /\ saved'.logs \subseteq listed'
      /\ \A y \in Entries(plan)' : runs'[y] > 0 => Entry(y)'.num <= saved'.last
  BY <1>1, <1>2, <1>7
<1>9. Len(queue') = 0 /\ ~Resumes'
  BY <1>1 DEF Resumes
<1> QED BY <1>1, <1>3, <1>8, <1>9 DEF AgainInv

LEMMA AgainStep ==
  ASSUME Resumable, ResumeTypes, RestartInv, AgainInv, [Next]_vars
  PROVE  AgainInv'
<1>0. OnlyLogsRunAgain
  BY DEF AgainInv
<1>1. CASE /\ pc' \in {"wait", "end", "crashed"}
           /\ plan' = plan /\ runs' = runs /\ listed' = listed
  <2>1. Entries(plan)' = Entries(plan) /\ \A x : Entry(x)' = Entry(x)
    BY <1>1, SamePlan
  <2>2. OnlyLogsRunAgain'
    BY <1>0, <1>1, <2>1 DEF OnlyLogsRunAgain
  <2> QED BY <1>1, <2>2, AgainOver
<1>2. CASE Request
  <2>1. /\ pc = "wait" /\ pc' = "request" /\ plan' = plan /\ queue' = queue
        /\ resumed' = FALSE /\ runs' = NotRun(plan)
    BY <1>2 DEF Request, decodeVars
  <2>2. Entries(plan)' = Entries(plan) /\ \A x \in Entries(plan) : runs'[x] = 0
    BY <2>1, SamePlan DEF NotRun
  <2>3. Len(queue') = 0
    BY <2>1 DEF ResumeTypes
  <2>4. OnlyLogsRunAgain'
    BY <2>2 DEF OnlyLogsRunAgain
  <2> QED BY <2>1, <2>2, <2>3, <2>4 DEF AgainInv, Resumes
<1>3. CASE Decode
  BY <1>3, AgainDecode
<1>4. CASE Decoded
  BY <1>4, AgainPhase
    DEF Decoded, decodeVars, fileVars, runVars, historyVars, Resumes, Pending
<1>5. CASE Fetch
  <2>1. /\ pc = "fetch" /\ pc' = "run" /\ plan' = plan /\ queue' = queue
        /\ runs' = runs /\ listed' = listed /\ paused' = paused
        /\ resumed' = resumed /\ last' = last /\ saved' = saved
    BY <1>5 DEF Fetch, decodeVars, historyVars
  <2>2. Resumes' => Resumes
    BY <2>1 DEF Resumes
  <2>3. \A c, x : Pending(c, x)' => Pending(c, x)
    BY <2>1 DEF Pending
  <2> QED BY <2>1, <2>2, <2>3, AgainPhase
<1>6. ASSUME NEW x \in Turn, StepActions(x) PROVE AgainInv'
  <2>1. ASSUME Stops(x) \/ PauseFails(x) PROVE AgainInv'
    <3>1. pc' = "end" /\ Executed(x) /\ plan' = plan /\ listed' = listed
      BY <2>1 DEF Stops, PauseFails
    <3> QED BY <3>1, AgainExecuted, AgainOver
  <2> QED BY <1>6, <2>1, AgainAdvances, AgainPause, StepOutcome
<1>7. CASE Boot
  <2>1. /\ pc = "down" /\ pc' = "request" /\ plan' = plan /\ queue' = <<>>
        /\ resumed' = TRUE /\ runs' = runs /\ listed' = listed
        /\ last' = saved.last /\ paused' = saved.logs
    BY <1>7 DEF Boot
  <2>2. Entries(plan)' = Entries(plan) /\ \A x : Entry(x)' = Entry(x)
    BY <2>1, SamePlan
  <2>3. Len(queue') = 0
    BY <2>1
  <2>4. OnlyLogsRunAgain'
    BY <1>0, <2>1, <2>2 DEF OnlyLogsRunAgain
  <2> QED BY <2>1, <2>2, <2>3, <2>4 DEF AgainInv, Resumes
<1>8. CASE UNCHANGED vars
  BY <1>8, AgainPhase
    DEF vars, decodeVars, fileVars, runVars, historyVars, Resumes, Pending
<1>9. DecodeFails \/ ConfigMissing \/ FetchFails \/ Completes \/ Report =>
        /\ pc' \in {"wait", "end", "crashed"}
        /\ plan' = plan /\ runs' = runs /\ listed' = listed
  BY DEF DecodeFails, ConfigMissing, FetchFails, Completes, Report, historyVars
<1> QED BY <1>1, <1>2, <1>3, <1>4, <1>5, <1>6, <1>7, <1>8, <1>9
        DEF Next, Work, StepActions, Terminated

(* wlan_emu_ui_mgr.cpp:2510: over any number of restarts, of the steps that *)
(* were executed before a restart only those are executed again whose log   *)
(* was paused, in every configuration that can be resumed.                  *)
THEOREM OnlyLogsAreRepeated ==
  ASSUME Resumable
  PROVE  Spec => []OnlyLogsRunAgain
<1>1. Init => AgainInv
  <2> SUFFICES ASSUME Init PROVE AgainInv
    OBVIOUS
  <2>1. pc = "wait" /\ queue = <<>> /\ runs = NotRun(plan)
    BY DEF Init
  <2>2. OnlyLogsRunAgain
    BY <2>1 DEF OnlyLogsRunAgain, NotRun
  <2> QED BY <2>1, <2>2 DEF AgainInv, Resumes
<1>2. ResumeTypes /\ RestartInv /\ [Next]_vars => RestartInv'
  BY RestartStep
<1>3. ResumeTypes /\ RestartInv /\ AgainInv /\ [Next]_vars => AgainInv'
  BY AgainStep
<1>4. AgainInv => OnlyLogsRunAgain
  BY DEF AgainInv
<1> QED BY <1>1, <1>2, <1>3, <1>4, RestartInit, ResumeTypesAlways, PTL DEF Spec

------------------------------------------------------------------------------
(* What the decoders accept.                                                *)
LEMMA InOrderAccepts ==
  ASSUME NEW s, DOMAIN s \subseteq Nat
  PROVE  InOrder(s) = "ok" <=> \A n \in DOMAIN s : s[n] = "ok"
<1> DEFINE failed == {n \in DOMAIN s : s[n] # "ok"}
<1>1. InOrder(s) = FirstFailure(s)
  BY DEF InOrder
<1>2. FirstFailure(s) =
        IF failed = {} THEN "ok"
        ELSE s[CHOOSE n \in failed : \A m \in failed : n <= m]
  BY DEF FirstFailure
<1>3. failed \in SUBSET Nat
  OBVIOUS
<1>4. failed # {} => \E n \in failed : \A m \in failed : n <= m
  <2> HIDE DEF failed
  <2> QED BY <1>3, LeastNumber
<1>5. failed # {} =>
        s[CHOOSE n \in failed : \A m \in failed : n <= m] # "ok"
  BY <1>4
<1>6. failed = {} <=> \A n \in DOMAIN s : s[n] = "ok"
  OBVIOUS
<1> HIDE DEF failed
<1> QED BY <1>1, <1>2, <1>5, <1>6

LEMMA InOrderOfTwo ==
  ASSUME NEW a, NEW b
  PROVE  InOrder(<<a, b>>) = "ok" <=> a = "ok" /\ b = "ok"
<1> DEFINE s == <<a, b>>
<1>1. DOMAIN s = {1, 2} /\ s[1] = a /\ s[2] = b
  OBVIOUS
<1> HIDE DEF s
<1>2. InOrder(s) = "ok" <=> a = "ok" /\ b = "ok"
  BY <1>1, InOrderAccepts
<1> QED BY <1>2 DEF s

LEMMA DecodeStepsAccept ==
  ASSUME plan \in Plans, NEW K \in SUBSET Entries(plan)
  PROVE  DecodeSteps(K) = "ok" <=> \A x \in K : DecodeStep(Entry(x)) = "ok"
<1> DEFINE refused == {x \in K : DecodeStep(Entry(x)) # "ok"}
           first == {x \in refused : \A y \in refused : x[2] <= y[2]}
           answers == {DecodeStep(Entry(x)) : x \in first}
<1>1. DecodeSteps(K) =
        IF first = {} THEN "ok" ELSE CHOOSE r \in answers : TRUE
  BY DEF DecodeSteps
<1>2. refused # {} => first # {}
  <2> SUFFICES ASSUME refused # {} PROVE first # {}
    OBVIOUS
  <2> DEFINE Places == {x[2] : x \in refused}
  <2>1. Places \in SUBSET Nat /\ Places # {}
    BY EntryType
  <2>2. PICK k \in Places : \A l \in Places : k <= l
    <3> HIDE DEF Places
    <3> QED BY <2>1, LeastNumber
  <2>3. PICK x \in refused : x[2] = k
    BY <2>2
  <2>4. x \in first
    BY <2>2, <2>3
  <2> QED BY <2>4
<1>3. first # {} => (CHOOSE r \in answers : TRUE) \in answers
  OBVIOUS
<1>4. \A r \in answers : r # "ok"
  OBVIOUS
<1>5. refused = {} <=> \A x \in K : DecodeStep(Entry(x)) = "ok"
  OBVIOUS
<1>6. refused = {} => first = {}
  OBVIOUS
<1> HIDE DEF refused, first, answers
<1> QED BY <1>1, <1>2, <1>3, <1>4, <1>5, <1>6

(* A step that is accepted has its number.                                  *)
LEMMA AcceptedHasNumber ==
  ASSUME NEW e, DecodeStep(e) = "ok"
  PROVE  decode_param_string(e, "StepNumber") = "ok"
<1>1. decode_step_common_config(e) = "ok"
  BY InOrderOfTwo DEF DecodeStep
<1> QED BY <1>1, InOrderOfTwo DEF decode_step_common_config

LEMMA DecodeCaseAccepts ==
  ASSUME plan \in Plans, NEW c \in 1 .. Len(plan), NEW l
  PROVE  /\ DecodeCase(l, c) = "ok" <=>
              /\ decode_coverage_config(plan[c]) \notin {"none", "null"}
              /\ plan[c].named
              /\ \A x \in Kept(l, c) : DecodeStep(Entry(x)) = "ok"
         /\ DecodeCase(l, c) = "ok" => LastAfter(l, c) = 0
<1> DEFINE N == decode_coverage_config(plan[c])
           K == Kept(l, c)
<1>1. K \in SUBSET Entries(plan)
  BY DEF Kept, Entries
<1>2. DecodeSteps(K) = "ok" <=> \A x \in K : DecodeStep(Entry(x)) = "ok"
  BY <1>1, DecodeStepsAccept
<1>3. Check(plan[c].named) = "ok" <=> plan[c].named
  BY DEF Check
<1>4. InOrder(<<DecodeSteps(K), Check(plan[c].named)>>) = "ok" <=>
        DecodeSteps(K) = "ok" /\ Check(plan[c].named) = "ok"
  BY InOrderOfTwo
<1>5. DecodeCase(l, c) =
        CASE N = "none" -> "err"
          [] N = "null" -> "crash"
          [] OTHER -> InOrder(<<DecodeSteps(K), Check(plan[c].named)>>)
  BY DEF DecodeCase
<1>6. LastAfter(l, c) =
        IF N \notin {"none", "null"} /\ DecodeSteps(K) = "ok" THEN 0 ELSE l
  BY DEF LastAfter
<1> HIDE DEF N, K
<1>7. DecodeCase(l, c) = "ok" <=>
        /\ N \notin {"none", "null"}
        /\ DecodeSteps(K) = "ok" /\ Check(plan[c].named) = "ok"
  BY <1>4, <1>5
<1>8. DecodeCase(l, c) = "ok" <=>
        /\ N \notin {"none", "null"} /\ plan[c].named
        /\ \A x \in K : DecodeStep(Entry(x)) = "ok"
  BY <1>2, <1>3, <1>7
<1>9. DecodeCase(l, c) = "ok" => LastAfter(l, c) = 0
  BY <1>6, <1>7
<1> QED BY <1>8, <1>9 DEF N, K

(* A case that is decoded from its beginning is accepted as a whole, and a  *)
(* case that is accepted as a whole is accepted when it is resumed.         *)
LEMMA AcceptedCase ==
  ASSUME plan \in Plans, NEW c \in 1 .. Len(plan), NEW l
  PROVE  /\ Accepted(c) => DecodeCase(l, c) = "ok"
         /\ DecodeCase(0, c) = "ok" => Accepted(c)
<1>1. /\ \A x \in Kept(l, c) : x \in Entries(plan) /\ x[1] = c
      /\ \A x \in Entries(plan) : x[1] = c => x \in Kept(0, c)
  <2>1. \A x \in Kept(l, c) : x \in Entries(plan) /\ x[1] = c
    BY DEF Kept, Entries
  <2>2. ASSUME NEW x \in Entries(plan), x[1] = c PROVE x \in Kept(0, c)
    <3>1. x = <<x[1], x[2]>> /\ x[2] \in 1 .. Len(plan[c].steps)
      BY <2>2, EntryType
    <3>2. x \in {c} \X (1 .. Len(plan[c].steps))
      BY <2>2, <3>1
    <3> QED BY <3>2 DEF Kept
  <2> QED BY <2>1, <2>2
<1> QED BY <1>1, DecodeCaseAccepts DEF Accepted

------------------------------------------------------------------------------
LEMMA DoneDecode ==
  ASSUME Resumable, ResumeTypes, RestartInv, DoneInv, Decode
  PROVE  DoneInv'
<1>1. /\ pc = "request" /\ pc' = "request" /\ case <= Len(plan)
      /\ DecodeCase(last, case) = "ok"
      /\ queue' = <<Kept(last, case)>> \o queue /\ case' = case + 1
      /\ last' = LastAfter(last, case)
      /\ plan' = plan /\ paused' = paused /\ resumed' = resumed
      /\ runs' = runs /\ verdict' = verdict
  BY DEF Decode, historyVars
<1>2. /\ case \in Nat \ {0} /\ queue \in Seq(SUBSET Entries(plan))
      /\ Len(queue) \in Nat /\ case = Len(queue) + 1 /\ plan \in Plans
  BY <1>1 DEF ResumeTypes
<1>3. Len(plan) \in Nat /\ case \in 1 .. Len(plan)
  BY <1>1, <1>2, PlansAssumption
<1>4. /\ Len(queue') = Len(queue) + 1 /\ queue'[1] = Kept(last, case)
      /\ \A c \in 2 .. Len(queue) + 1 : queue'[c] = queue[c - 1]
  BY <1>1, <1>2
<1>5. /\ Entries(plan)' = Entries(plan)
      /\ \A x : Entry(x)' = Entry(x)
      /\ \A c : Accepted(c)' = Accepted(c)
  BY <1>1, SamePlan
<1>6. last' = 0
  BY <1>1, <1>2, <1>3, DecodeCaseAccepts
<1>7. Resumes => \A c \in 1 .. Len(plan) : Accepted(c)
  BY DEF DoneInv
<1>8. Accepted(case)
  <2>1. CASE last = 0
    BY <2>1, <1>1, <1>2, <1>3, AcceptedCase
  <2>2. CASE last # 0
    BY <2>2, <1>1, <1>3, <1>7 DEF DoneInv, Resumes
  <2> QED BY <2>1, <2>2
<1>9. \A c \in 1 .. Len(queue') : Accepted(c)
  <2>1. \A c \in 1 .. Len(queue) : Accepted(c)
    BY <1>1 DEF DoneInv
  <2>2. ASSUME NEW c \in 1 .. Len(queue') PROVE c = case \/ c \in 1 .. Len(queue)
    BY <1>2, <1>4
  <2> QED BY <1>8, <2>1, <2>2
<1>10. ASSUME NEW x \in Entries(plan), x[1] <= Len(queue')
       PROVE  \/ runs[x] > 0
              \/ x \in queue'[Len(queue') + 1 - x[1]]
  <2>1. x[1] \in 1 .. Len(plan) /\ Entry(x).num \in Nat /\ x = <<x[1], x[2]>>
        /\ x[2] \in 1 .. Len(plan[x[1]].steps)
    BY <1>2, EntryType
  <2>2. CASE x[1] <= Len(queue)
    <3> DEFINE c == Len(queue) + 1 - x[1]
    <3>1. runs[x] > 0 \/ x \in queue[c]
      BY <2>2, <1>1 DEF DoneInv, Covered
    <3>2. c + 1 \in 2 .. Len(queue) + 1 /\ (c + 1) - 1 = c
          /\ Len(queue') + 1 - x[1] = c + 1
      BY <2>1, <2>2, <1>2, <1>4
    <3> HIDE DEF c
    <3>3. queue'[c + 1] = queue[c]
      BY <3>2, <1>4
    <3> QED BY <3>1, <3>2, <3>3
  <2>3. CASE x[1] = case
    <3>1. x \in {case} \X (1 .. Len(plan[case].steps))
      BY <2>1, <2>3
    <3>2. Len(queue') + 1 - x[1] = 1
      BY <2>3, <1>2, <1>4
    <3>3. CASE last = 0
      <4>1. x \in Kept(last, case)
        BY <3>1, <3>3 DEF Kept
      <4> QED BY <4>1, <3>2, <1>4
    <3>4. CASE last # 0
      <4>1. Resumes /\ case = 1
        BY <3>4, <1>1 DEF DoneInv, Resumes
      <4>2. PICK r \in Entries(plan) : Restarted(r)
        BY <4>1 DEF RestartInv
      <4>3. Entry(x).num > 0
        BY <4>2, <1>2, RestartAt DEF Restarted
      <4>4. decode_param_string(Entry(x), "StepNumber") = "ok"
        BY <1>8, <2>3, AcceptedHasNumber DEF Accepted
      <4>5. Entry(x).num > last => x \in Kept(last, case)
        BY <3>1, <2>1, <4>3, <4>4 DEF Kept, check_reboot_step_config
      <4>6. Entry(x).num <= last => runs[x] > 0
        BY <4>1, <1>1 DEF DoneInv
      <4>7. last \in Nat
        BY DEF ResumeTypes
      <4>8. x \in Kept(last, case) \/ runs[x] > 0
        BY <4>5, <4>6, <4>7, <2>1
      <4> QED BY <4>8, <3>2, <1>4
    <3> QED BY <3>3, <3>4
  <2>4. x[1] <= Len(queue) \/ x[1] = case
    BY <1>2, <1>3, <1>4, <1>10, <2>1
  <2> QED BY <2>2, <2>3, <2>4
<1>11. \A x \in Entries(plan)' : x[1] <= Len(queue') => Covered(x)'
  BY <1>1, <1>5, <1>10 DEF Covered, Pending
<1>12. CompleteMeansExecuted'
  BY <1>1, <1>5 DEF CompleteMeansExecuted, DoneInv
<1>13. Resumes' => \A c \in 1 .. Len(plan)' : Accepted(c)'
  BY <1>1, <1>5, <1>7 DEF Resumes
<1>14. case' # 1
  BY <1>1, <1>2
<1>15. \A c \in 1 .. Len(queue') : Accepted(c)'
  BY <1>5, <1>9
<1> QED BY <1>1, <1>6, <1>11, <1>12, <1>13, <1>14, <1>15 DEF DoneInv

(* Nothing runs, and what was pending is.                                   *)
LEMMA DonePhase ==
  ASSUME DoneInv, plan' = plan, queue' = queue, runs' = runs, last' = last,
         verdict' = verdict, saved' = saved,
         last = 0 \/ UNCHANGED <<pc, resumed, case>>,
         pc' \in {"request", "fetch", "run"} => pc \in {"request", "fetch", "run"},
         pc' = "down" => pc = "down", Resumes' => Resumes,
         Resumes' /\ pc' = "request" /\ case' = 1 => pc = "request" /\ case = 1,
         \A c, x : c \in 1 .. Len(queue) /\ Pending(c, x) /\ x \in queue[c] /\
           pc' \in {"request", "fetch", "run"} => Pending(c, x)',
         Len(queue) \in Nat, \A x \in Entries(plan) : x[1] \in Nat \ {0}
  PROVE  DoneInv'
<1>1. /\ Entries(plan)' = Entries(plan)
      /\ \A x : Entry(x)' = Entry(x)
      /\ \A c : Accepted(c)' = Accepted(c)
  BY SamePlan
<1>2. CompleteMeansExecuted'
  BY <1>1 DEF CompleteMeansExecuted, DoneInv
<1>3. last' # 0 => pc' = "request" /\ resumed' /\ case' = 1
  BY DEF DoneInv
<1>4. ASSUME pc' \in {"request", "fetch", "run"}, NEW x \in Entries(plan),
             x[1] <= Len(queue)
      PROVE  Covered(x)'
  <2> DEFINE c == Len(queue) + 1 - x[1]
  <2>1. c \in 1 .. Len(queue)
    BY <1>4
  <2>2. runs[x] > 0 \/ (x \in queue[c] /\ Pending(c, x))
    BY <1>4 DEF DoneInv, Covered
  <2>3. runs[x] > 0 \/ (x \in queue[c] /\ Pending(c, x)')
    BY <1>4, <2>1, <2>2
  <2> QED BY <2>3 DEF Covered
<1>5. pc' \in {"request", "fetch", "run"} =>
        \A c \in 1 .. Len(queue)' : Accepted(c)'
  BY <1>1 DEF DoneInv
<1>6. pc' = "down" \/ Resumes' => \A c \in 1 .. Len(plan)' : Accepted(c)'
  BY <1>1 DEF DoneInv
<1>7. Resumes' /\ pc' = "request" /\ case' = 1 =>
        \A x \in Entries(plan)' : Entry(x)'.num <= last' => runs'[x] > 0
  BY <1>1 DEF DoneInv, Resumes
<1>8. pc' = "down" =>
        \A x \in Entries(plan)' : Entry(x)'.num <= saved'.last => runs'[x] > 0
  BY <1>1 DEF DoneInv
<1>9. pc' \in {"request", "fetch", "run"} =>
        \A x \in Entries(plan)' : x[1] <= Len(queue') => Covered(x)'
  BY <1>1, <1>4
<1> QED BY <1>2, <1>3, <1>5, <1>6, <1>7, <1>8, <1>9 DEF DoneInv

(* The step that was executed is the only one that is no longer pending.    *)
LEMMA StillPending ==
  ASSUME ResumeTypes, NEW x \in Turn, Advances(x),
         NEW c \in 1 .. Len(queue), NEW y \in queue[c], Pending(c, y), y # x
  PROVE  Pending(c, y)'
<1>1. /\ pc = "run" /\ pc' = "run" /\ case \in 1 .. Len(queue)
      /\ x[2] \in Nat \ {0} /\ i <= x[2] /\ x[1] = Len(queue) + 1 - case
      /\ Len(queue) \in Nat /\ i \in Nat /\ x \in Entries(plan)
      /\ \A z \in queue[case] : i <= z[2] => x[2] <= z[2]
  BY TurnType DEF Advances, ResumeTypes
<1>2. y[1] = Len(queue) + 1 - c /\ y \in Entries(plan) /\ plan \in Plans
  BY DEF ResumeTypes, QueueOrder
<1>3. y[2] \in Nat \ {0} /\ y = <<y[1], y[2]>> /\ x = <<x[1], x[2]>>
  BY <1>1, <1>2, EntryType
<1>4. case < c \/ (case = c /\ i <= y[2])
  BY <1>1 DEF Pending
<1>5. case = c => x[2] < y[2]
  BY <1>1, <1>2, <1>3, <1>4
<1>6. CASE case' = case /\ i' = x[2] + 1
  BY <1>1, <1>3, <1>4, <1>5, <1>6 DEF Pending
<1>7. CASE case' = case + 1 /\ i' = 1 /\ \A z \in queue[case] : z[2] <= x[2]
  <2>1. case < c
    BY <1>1, <1>3, <1>4, <1>5, <1>7
  <2> QED BY <1>1, <1>3, <1>7, <2>1 DEF Pending
<1>9. \/ case' = case /\ i' = x[2] + 1
      \/ case' = case + 1 /\ i' = 1 /\ \A z \in queue[case] : z[2] <= x[2]
  BY NextPlace
<1> QED BY <1>6, <1>7, <1>9

LEMMA DoneAdvances ==
  ASSUME Resumable, ResumeTypes, DoneInv, NEW x \in Turn, Advances(x)
  PROVE  DoneInv'
<1>1. /\ pc = "run" /\ pc' = "run" /\ plan' = plan /\ queue' = queue
      /\ last' = last /\ resumed' = resumed /\ verdict' = verdict
      /\ Executed(x) /\ x \in Entries(plan)
  BY TurnType DEF Advances, decodeVars
<1>2. /\ Entries(plan)' = Entries(plan)
      /\ \A y : Entry(y)' = Entry(y)
      /\ \A c : Accepted(c)' = Accepted(c)
  BY <1>1, SamePlan
<1>3. /\ runs'[x] = runs[x] + 1 /\ runs[x] \in Nat
      /\ \A y \in Entries(plan) : y # x => runs'[y] = runs[y]
  BY <1>1, RunsType DEF ResumeTypes
<1>4. \A y \in Entries(plan) : runs[y] > 0 => runs'[y] > 0
  BY <1>3
<1>5. CompleteMeansExecuted'
  BY <1>1, <1>2, <1>4 DEF CompleteMeansExecuted, DoneInv
<1>6. ASSUME NEW y \in Entries(plan), y[1] <= Len(queue)
      PROVE  Covered(y)'
  <2>1. PICK c \in 1 .. Len(queue) : c = Len(queue) + 1 - y[1]
    <3>1. y[1] \in 1 .. Len(plan) /\ Len(plan) \in Nat /\ Len(queue) \in Nat
      BY EntryType DEF ResumeTypes
    <3> QED BY <1>6, <3>1
  <2>2. runs[y] > 0 \/ (y \in queue[c] /\ Pending(c, y))
    BY <1>1, <1>6, <2>1 DEF DoneInv, Covered
  <2>3. CASE y = x
    BY <2>3, <1>3 DEF Covered
  <2>4. CASE y # x /\ y \in queue[c] /\ Pending(c, y)
    <3>1. Pending(c, y)'
      BY <2>1, <2>4, StillPending
    <3> QED BY <3>1, <2>1, <2>4, <1>1 DEF Covered
  <2>5. CASE runs[y] > 0
    BY <2>5, <1>4 DEF Covered
  <2> QED BY <2>2, <2>3, <2>4, <2>5
<1>7. last' = 0
  BY <1>1 DEF DoneInv
<1>8. /\ \A c \in 1 .. Len(queue)' : Accepted(c)'
      /\ Resumes' => \A c \in 1 .. Len(plan)' : Accepted(c)'
  BY <1>1, <1>2 DEF DoneInv, Resumes
<1>9. \A y \in Entries(plan)' : y[1] <= Len(queue') => Covered(y)'
  BY <1>1, <1>2, <1>6
<1> QED BY <1>1, <1>5, <1>7, <1>8, <1>9 DEF DoneInv

(* A restart has every step before it behind it.                            *)
LEMMA DonePause ==
  ASSUME Resumable, ResumeTypes, DoneInv, NEW x \in Turn, Pause(x)
  PROVE  DoneInv'
<1>1. /\ pc = "run" /\ pc' = "down" /\ plan' = plan /\ queue' = <<>>
      /\ last' = last /\ verdict' = "pause"
      /\ Executed(x) /\ x \in Entries(plan) /\ IsReboot(x)
      /\ saved' = [last |-> Entry(x).num, logs |-> Listed(x)]
  BY TurnType DEF Pause
<1>2. /\ Entries(plan)' = Entries(plan)
      /\ \A y : Entry(y)' = Entry(y)
      /\ \A c : Accepted(c)' = Accepted(c)
  BY <1>1, SamePlan
<1>3. /\ runs'[x] = runs[x] + 1 /\ runs[x] \in Nat
      /\ \A y \in Entries(plan) : y # x => runs'[y] = runs[y]
  BY <1>1, RunsType DEF ResumeTypes
<1>4. /\ plan \in Plans /\ Len(plan) = 1 /\ Len(queue) = 1 /\ case = 1
      /\ i <= x[2] /\ i \in Nat
      /\ \A z \in queue[1] : i <= z[2] => x[2] <= z[2]
  <2>1. Len(plan) = 1 /\ plan \in Plans
    BY <1>1, RestartAt DEF ResumeTypes
  <2>2. Len(queue) = 1 /\ i \in Nat
    BY <2>1, <1>1 DEF ResumeTypes
  <2>3. case \in 1 .. Len(queue) /\ i <= x[2]
        /\ \A z \in queue[case] : i <= z[2] => x[2] <= z[2]
    BY TurnType
  <2> QED BY <2>1, <2>2, <2>3
<1>5. ASSUME NEW y \in Entries(plan), Entry(y).num <= Entry(x).num
      PROVE  runs'[y] > 0
  <2>1. y[1] = 1 /\ (x[2] < y[2] => Entry(x).num < Entry(y).num)
        /\ (y[2] = x[2] => y = x)
    BY <1>1, <1>4, RestartAt
  <2>2. /\ Entry(x).num \in Nat /\ Entry(y).num \in Nat
        /\ x[2] \in Nat /\ y[2] \in Nat
    BY <1>1, <1>4, EntryType
  <2>3. Len(queue) + 1 - y[1] = 1 /\ y[1] <= Len(queue)
    BY <1>4, <2>1
  <2>4. runs[y] > 0 \/ (y \in queue[1] /\ Pending(1, y))
    BY <1>1, <2>3 DEF DoneInv, Covered
  <2>5. CASE y \in queue[1] /\ Pending(1, y)
    <3>1. i <= y[2]
      BY <2>5, <1>1, <1>4 DEF Pending
    <3>2. x[2] <= y[2]
      BY <2>5, <3>1, <1>4
    <3>3. y = x
      BY <1>5, <2>1, <2>2, <3>2
    <3> QED BY <3>3, <1>3
  <2>6. CASE runs[y] > 0 /\ y # x
    BY <2>6, <1>3
  <2>7. CASE y = x
    BY <2>7, <1>3
  <2> QED BY <2>4, <2>5, <2>6, <2>7
<1>6. CompleteMeansExecuted' /\ last' = 0
  BY <1>1 DEF CompleteMeansExecuted, DoneInv
<1>7. \A c \in 1 .. Len(plan)' : Accepted(c)'
  BY <1>1, <1>2, <1>4 DEF DoneInv
<1>8. \A y \in Entries(plan)' : Entry(y)'.num <= saved'.last => runs'[y] > 0
  BY <1>1, <1>2, <1>5
<1> QED BY <1>1, <1>6, <1>7, <1>8 DEF DoneInv, Resumes

(* What ends a request other than its completion.                           *)
LEMMA DoneOver ==
  ASSUME last' = 0, verdict' # "complete",
         pc' \in {"wait", "end", "crashed"}
  PROVE  DoneInv'
BY DEF DoneInv, Resumes, CompleteMeansExecuted

(* A test that is resumed is decoded as it was.                             *)
LEMMA LastIsForgotten ==
  ASSUME Resumable, ResumeTypes, RestartInv, DoneInv, DecodeFails
  PROVE  last' = 0
<1>1. /\ pc = "request" /\ case <= Len(plan) /\ last' = LastAfter(last, case)
      /\ DecodeCase(last, case) # "ok"
  BY DEF DecodeFails
<1>2. case \in 1 .. Len(plan) /\ plan \in Plans
  BY <1>1, PlansAssumption DEF ResumeTypes
<1>3. CASE last = 0
  BY <1>1, <1>3 DEF LastAfter
<1>4. CASE last # 0
  <2>1. Accepted(case)
    BY <1>1, <1>2, <1>4 DEF DoneInv, Resumes
  <2> QED BY <1>1, <1>2, <2>1, AcceptedCase
<1> QED BY <1>3, <1>4

LEMMA DoneStep ==
  ASSUME Resumable, ResumeTypes, RestartInv, DoneInv, [Next]_vars,
         "resume" \notin Faults \/ faults' # faults + 1
  PROVE  DoneInv'
<1>0. /\ plan \in Plans /\ Len(queue) \in Nat
      /\ \A x \in Entries(plan) : x[1] \in Nat \ {0}
      /\ \A x \in Entries(plan) : x[1] \in 1 .. Len(plan)
  BY EntryType DEF ResumeTypes
<1>1. CASE Request
  <2>1. /\ pc' = "request" /\ queue' = queue /\ queue = <<>> /\ last' = last
        /\ last = 0 /\ resumed' = FALSE /\ verdict' = "none" /\ plan' = plan
    BY <1>1 DEF Request, ResumeTypes, decodeVars, DoneInv
  <2>2. CompleteMeansExecuted' /\ ~Resumes'
    BY <2>1 DEF CompleteMeansExecuted, Resumes
  <2>3. \A x \in Entries(plan)' : ~(x[1] <= Len(queue'))
    BY <1>0, <2>1, SamePlan
  <2>4. \A c \in 1 .. Len(queue)' : Accepted(c)'
    BY <2>1
  <2> QED BY <2>1, <2>2, <2>3, <2>4 DEF DoneInv
<1>2. CASE Decode
  BY <1>2, DoneDecode
<1>3. CASE DecodeFails
  <2>1. CASE verdict' # "complete"
    <3>1. pc' \in {"end", "crashed"}
      BY <1>3 DEF DecodeFails
    <3> QED BY <1>3, <2>1, <3>1, LastIsForgotten, DoneOver
  <2>2. CASE verdict' = "complete"
    <3>1. /\ pc' \in {"end", "crashed"} /\ verdict' = verdict
          /\ plan' = plan /\ runs' = runs
      BY <1>3, <2>2 DEF DecodeFails
    <3>2. CompleteMeansExecuted'
      BY <3>1, SamePlan DEF CompleteMeansExecuted, DoneInv
    <3> QED BY <1>3, <3>1, <3>2, LastIsForgotten DEF DoneInv, Resumes
  <2> QED BY <2>1, <2>2
<1>4. CASE Decoded
  <2>1. /\ pc = "request" /\ pc' = "fetch" /\ case > Len(plan)
        /\ UNCHANGED <<plan, queue, last, saved, case, resumed, runs, verdict>>
    BY <1>4 DEF Decoded, decodeVars, fileVars, runVars, historyVars
  <2>2. last = 0
    <3>1. CASE last # 0
      <4>1. Resumes /\ case = 1
        BY <2>1, <3>1 DEF DoneInv, Resumes
      <4>2. PICK r \in Entries(plan) : Restarted(r)
        BY <4>1 DEF RestartInv
      <4>3. Len(plan) = 1
        BY <4>2, <1>0, RestartAt DEF Restarted
      <4> QED BY <2>1, <4>1, <4>3
    <3> QED BY <3>1
  <2>3. \A c, x : Pending(c, x)'
    BY <2>1 DEF Pending
  <2>4. Resumes' => Resumes
    BY <2>1 DEF Resumes
  <2> QED BY <1>0, <2>1, <2>2, <2>3, <2>4, DonePhase
<1>5. CASE ConfigMissing
  <2>1. pc' = "end" /\ verdict' = "failure" /\ last' = last /\ last = 0
    BY <1>5 DEF ConfigMissing, Fails, decodeVars
  <2> QED BY <2>1, DoneOver
<1>6. CASE Fetch
  <2>1. /\ pc = "fetch" /\ pc' = "run" /\ case' = 1 /\ i' = 1
        /\ UNCHANGED <<plan, queue, last, saved, resumed, runs, verdict>>
    BY <1>6 DEF Fetch, decodeVars, historyVars
  <2>2. last = 0
    BY <2>1 DEF DoneInv
  <2>3. ASSUME NEW c \in 1 .. Len(queue), NEW x \in queue[c]
        PROVE  Pending(c, x)'
    <3>1. x \in Entries(plan)
      BY DEF ResumeTypes
    <3>2. x[2] \in Nat \ {0}
      BY <1>0, <3>1, EntryType
    <3> QED BY <1>0, <2>1, <3>2 DEF Pending
  <2>4. Resumes' => Resumes
    BY <2>1 DEF Resumes
  <2> QED BY <1>0, <2>1, <2>2, <2>3, <2>4, DonePhase
<1>7. CASE FetchFails
  <2>1. pc = "fetch" /\ pc' = "end" /\ verdict' = "failure" /\ last' = last
    BY <1>7 DEF FetchFails, decodeVars
  <2> QED BY <2>1, DoneOver DEF DoneInv
<1>8. ASSUME NEW x \in Turn, StepActions(x) PROVE DoneInv'
  <2>1. ASSUME Stops(x) \/ PauseFails(x) PROVE DoneInv'
    <3>1. pc' = "end" /\ verdict' = "failure" /\ last' = last
      BY <2>1 DEF Stops, PauseFails, decodeVars
    <3>2. last = 0
      BY TurnType DEF DoneInv
    <3> QED BY <3>1, <3>2, DoneOver
  <2> QED BY <1>8, <2>1, DoneAdvances, DonePause, StepOutcome
<1>9. CASE Completes
  <2>1. /\ pc = "run" /\ case > Len(queue) /\ pc' = "end" /\ last' = last
        /\ plan' = plan /\ runs' = runs
    BY <1>9 DEF Completes, decodeVars
  <2>2. last = 0 /\ Len(queue) = Len(plan) /\ case \in Nat
    BY <2>1 DEF DoneInv, ResumeTypes
  <2>3. ASSUME NEW x \in Entries(plan) PROVE runs[x] > 0
    <3>1. PICK c \in 1 .. Len(queue) : c = Len(queue) + 1 - x[1]
      BY <1>0, <2>2
    <3>2. ~Pending(c, x)
      BY <1>0, <2>1, <2>2 DEF Pending
    <3>3. x[1] <= Len(queue)
      BY <1>0, <2>2
    <3> QED BY <2>1, <3>1, <3>2, <3>3 DEF DoneInv, Covered
  <2>4. CompleteMeansExecuted'
    BY <2>1, <2>3, SamePlan DEF CompleteMeansExecuted
  <2> QED BY <2>1, <2>2, <2>4 DEF DoneInv, Resumes
<1>10. CASE Report
  <2>1. /\ pc = "end" /\ pc' = "wait" /\ last' = last /\ plan' = plan
        /\ runs' = runs /\ verdict' = verdict
    BY <1>10 DEF Report, historyVars
  <2>2. CompleteMeansExecuted' /\ last = 0
    BY <2>1, SamePlan DEF CompleteMeansExecuted, DoneInv
  <2> QED BY <2>1, <2>2 DEF DoneInv, Resumes
<1>11. CASE Boot
  <2>1. /\ pc = "down" /\ pc' = "request" /\ queue' = <<>> /\ plan' = plan
        /\ last' = saved.last /\ resumed' = TRUE /\ case' = 1
        /\ runs' = runs /\ verdict' = verdict
    BY <1>11 DEF Boot
  <2>2. /\ Entries(plan)' = Entries(plan) /\ \A x : Entry(x)' = Entry(x)
        /\ \A c : Accepted(c)' = Accepted(c)
    BY <2>1, SamePlan
  <2>3. CompleteMeansExecuted'
    BY <2>1, <2>2 DEF CompleteMeansExecuted, DoneInv
  <2>4. \A x \in Entries(plan)' : ~(x[1] <= Len(queue'))
    BY <1>0, <2>1, <2>2
  <2>5. \A c \in 1 .. Len(plan)' : Accepted(c)'
    BY <2>1, <2>2 DEF DoneInv
  <2>6. \A x \in Entries(plan)' : Entry(x)'.num <= last' => runs'[x] > 0
    BY <2>1, <2>2 DEF DoneInv
  <2>7. \A c \in 1 .. Len(queue)' : Accepted(c)'
    BY <2>1
  <2> QED BY <2>1, <2>3, <2>4, <2>5, <2>6, <2>7 DEF DoneInv
<1>12. CASE UNCHANGED vars
  BY <1>0, <1>12, DonePhase
    DEF vars, decodeVars, fileVars, runVars, historyVars, Resumes, Pending
<1> QED BY <1>1, <1>2, <1>3, <1>4, <1>5, <1>6, <1>7, <1>8, <1>9, <1>10,
           <1>11, <1>12 DEF Next, Work, StepActions, Terminated

(* wlan_emu_ui_mgr.cpp:2534: what is reported complete was executed as a    *)
(* whole, over any number of restarts, in every configuration that can be   *)
(* resumed, as long as a resumed configuration can be fetched.              *)
THEOREM CompleteIsExecuted ==
  ASSUME Resumable, "resume" \notin Faults
  PROVE  Spec => []CompleteMeansExecuted
<1>1. Init => DoneInv
  BY DEF Init, DoneInv, Resumes, CompleteMeansExecuted
<1>2. ResumeTypes /\ RestartInv /\ [Next]_vars => RestartInv'
  BY RestartStep
<1>3. ResumeTypes /\ RestartInv /\ DoneInv /\ [Next]_vars => DoneInv'
  BY DoneStep
<1>4. DoneInv => CompleteMeansExecuted
  BY DEF DoneInv
<1> QED BY <1>1, <1>2, <1>3, <1>4, RestartInit, ResumeTypesAlways, PTL DEF Spec

------------------------------------------------------------------------------
LEMMA AcceptedStep ==
  ASSUME ResumeTypes, AcceptedInv, [Next]_vars
  PROVE  AcceptedInv'
<1>1. CASE plan' = plan /\ (queue' = queue \/ queue' = <<>>)
  BY <1>1, SamePlan DEF AcceptedInv
<1>2. CASE Decode
  <2>1. /\ pc = "request" /\ case <= Len(plan)
        /\ DecodeCase(last, case) = "ok"
        /\ queue' = <<Kept(last, case)>> \o queue /\ plan' = plan
    BY <1>2 DEF Decode
  <2>2. /\ case \in 1 .. Len(plan) /\ plan \in Plans
        /\ queue \in Seq(SUBSET Entries(plan))
    BY <2>1, PlansAssumption DEF ResumeTypes
  <2>3. \A x \in Kept(last, case) : DecodeStep(Entry(x)) = "ok"
    BY <2>1, <2>2, DecodeCaseAccepts
  <2>4. /\ Len(queue') = Len(queue) + 1 /\ queue'[1] = Kept(last, case)
        /\ \A c \in 2 .. Len(queue) + 1 : queue'[c] = queue[c - 1]
    BY <2>1, <2>2
  <2>5. ASSUME NEW c \in 1 .. Len(queue'), NEW x \in queue'[c]
        PROVE  DecodeStep(Entry(x)) = "ok"
    <3>1. CASE c = 1
      BY <2>3, <2>4, <3>1
    <3>2. CASE c # 1
      <4>1. c - 1 \in 1 .. Len(queue) /\ x \in queue[c - 1]
        BY <2>2, <2>4, <3>2
      <4> QED BY <4>1 DEF AcceptedInv
    <3> QED BY <3>1, <3>2
  <2> QED BY <2>1, <2>5, SamePlan DEF AcceptedInv
<1>3. ASSUME NEW x \in Turn, StepActions(x)
      PROVE  plan' = plan /\ (queue' = queue \/ queue' = <<>>)
  BY <1>3, StepOutcome DEF Advances, Stops, Pause, PauseFails, decodeVars
<1>4. Request \/ DecodeFails \/ Decoded \/ ConfigMissing \/ Fetch \/ FetchFails
      \/ Completes \/ Report \/ Boot \/ UNCHANGED vars =>
        plan' = plan /\ (queue' = queue \/ queue' = <<>>)
  BY DEF Request, DecodeFails, Decoded, ConfigMissing, Fetch, FetchFails,
         Completes, Report, Boot, vars, decodeVars
<1> QED BY <1>1, <1>2, <1>3, <1>4 DEF Next, Work, StepActions, Terminated

(* Nothing runs, and what was pending is.                                   *)
LEMMA LogsPhase ==
  ASSUME LogsInv, plan' = plan, queue' = queue, paused' = paused, ran' = ran,
         saved' = saved, pc' = "down" => pc = "down", Resumes' => Resumes,
         Resumes' /\ ~(pc' = "request" /\ case' = 1) =>
           ~(pc = "request" /\ case = 1),
         Resumes' => \A x \in queue[1] : Pending(1, x) => Pending(1, x)'
  PROVE  LogsInv'
<1>1. AcceptedNumbers' = AcceptedNumbers /\ \A x : Entry(x)' = Entry(x)
  BY SamePlan DEF AcceptedNumbers
<1>2. ASSUME Resumes', ~(pc' = "request" /\ case' = 1), NEW n \in paused
      PROVE  \/ n \in ran
             \/ \E x \in queue[1] : Entry(x).num = n /\ Pending(1, x)'
  <2>1. \/ n \in ran
        \/ \E x \in queue[1] : Entry(x).num = n /\ Pending(1, x)
    BY <1>2 DEF LogsInv
  <2> QED BY <1>2, <2>1
<1>3. /\ pc' = "down" => saved'.logs \subseteq AcceptedNumbers'
      /\ Resumes' => paused' \subseteq AcceptedNumbers'
  BY <1>1 DEF LogsInv
<1>4. Resumes' /\ ~(pc' = "request" /\ case' = 1) =>
        \A n \in paused' :
          \/ n \in ran'
          \/ \E x \in queue'[1] : Entry(x)'.num = n /\ Pending(1, x)'
  BY <1>1, <1>2
<1> QED BY <1>3, <1>4 DEF LogsInv

LEMMA LogsStep ==
  ASSUME Resumable, ResumeTypes, RestartInv, AcceptedInv, LogsInv, [Next]_vars
  PROVE  LogsInv'
<1>0. /\ plan \in Plans /\ Len(queue) \in Nat /\ case \in Nat \ {0}
      /\ Len(plan) \in Nat
  BY PlansAssumption DEF ResumeTypes
<1>1. CASE ~Resumes' /\ pc' # "down"
  BY <1>1 DEF LogsInv
<1>2. ASSUME Resumes
      PROVE  \E r \in Entries(plan) : Restarted(r) /\ Len(plan) = 1
  <2>1. PICK r \in Entries(plan) : Restarted(r)
    BY <1>2 DEF RestartInv
  <2> QED BY <1>0, <2>1, RestartAt DEF Restarted
<1>3. CASE Decode
  <2>1. /\ pc = "request" /\ pc' = "request" /\ case <= Len(plan)
        /\ queue' = <<Kept(last, case)>> \o queue /\ case' = case + 1
        /\ plan' = plan /\ paused' = paused /\ resumed' = resumed
    BY <1>3 DEF Decode
  <2>2. CASE ~resumed
    BY <1>1, <2>1, <2>2 DEF Resumes
  <2>3. CASE resumed
    <3>1. Resumes
      BY <2>1, <2>3 DEF Resumes
    <3>2. PICK r \in Entries(plan) : Restarted(r) /\ Len(plan) = 1
      BY <1>2, <3>1
    <3>3. case = 1
      BY <1>0, <2>1, <3>2
    <3>4. queue'[1] = Kept(last, 1)
      BY <2>1, <3>3 DEF ResumeTypes
    <3>5. /\ AcceptedNumbers' = AcceptedNumbers
          /\ \A x : Entry(x)' = Entry(x)
      BY <2>1, SamePlan DEF AcceptedNumbers
    <3>6. ASSUME NEW n \in paused
          PROVE  \E x \in queue'[1] : Entry(x).num = n /\ Pending(1, x)'
      <4>1. PICK x \in Entries(plan) :
              DecodeStep(Entry(x)) = "ok" /\ Entry(x).num = n
        BY <3>1 DEF LogsInv, AcceptedNumbers
      <4>2. Entry(x).num > 0 /\ x[1] = 1
        BY <1>0, <3>2, RestartAt DEF Restarted
      <4>3. Entry(x).num # 0
        BY <1>0, <4>2, EntryType
      <4>4. decode_param_string(Entry(x), "StepNumber") = "ok"
        BY <4>1, AcceptedHasNumber
      <4>5. x = <<x[1], x[2]>> /\ x[2] \in 1 .. Len(plan[x[1]].steps)
        BY <1>0, EntryType
      <4>6. x \in {1} \X (1 .. Len(plan[1].steps))
        BY <4>2, <4>5
      <4>7. x \in Kept(last, 1)
        BY <4>1, <4>3, <4>4, <4>6 DEF Kept, check_reboot_step_config
      <4> QED BY <2>1, <3>4, <4>1, <4>7 DEF Pending
    <3>7. /\ pc' # "down"
          /\ Resumes' => paused' \subseteq AcceptedNumbers'
      BY <2>1, <3>1, <3>5 DEF LogsInv
    <3>8. \A n \in paused' :
            \E x \in queue'[1] : Entry(x)'.num = n /\ Pending(1, x)'
      BY <2>1, <3>5, <3>6
    <3> QED BY <3>7, <3>8 DEF LogsInv
  <2> QED BY <2>2, <2>3
<1>4. CASE Decoded
  <2>1. /\ pc = "request" /\ pc' = "fetch" /\ case > Len(plan)
        /\ UNCHANGED <<plan, queue, paused, saved, resumed, ran>>
    BY <1>4 DEF Decoded, decodeVars, fileVars, historyVars
  <2>2. Resumes' => Resumes
    BY <2>1 DEF Resumes
  <2>3. Resumes => case # 1
    BY <1>0, <1>2, <2>1
  <2>4. \A x : Pending(1, x)'
    BY <2>1 DEF Pending
  <2> QED BY <2>1, <2>2, <2>3, <2>4, LogsPhase
<1>5. CASE Fetch
  <2>1. /\ pc = "fetch" /\ pc' = "run" /\ case' = 1 /\ i' = 1
        /\ UNCHANGED <<plan, queue, paused, saved, resumed, ran>>
        /\ ~NothingToRun
    BY <1>5 DEF Fetch, decodeVars, historyVars
  <2>2. Resumes' => Resumes
    BY <2>1 DEF Resumes
  <2>3. ASSUME NEW x \in queue[1] PROVE Pending(1, x)'
    <3>1. 1 \in 1 .. Len(queue)
      BY <1>0, <2>1 DEF NothingToRun, ResumeTypes
    <3>2. x \in Entries(plan)
      BY <3>1 DEF ResumeTypes
    <3>3. x[2] \in Nat \ {0}
      BY <1>0, <3>2, EntryType
    <3> QED BY <2>1, <3>3 DEF Pending
  <2> QED BY <2>1, <2>2, <2>3, LogsPhase
<1>6. ASSUME NEW x \in Turn, Advances(x) PROVE LogsInv'
  <2>1. /\ pc = "run" /\ pc' = "run" /\ plan' = plan /\ queue' = queue
        /\ paused' = paused /\ resumed' = resumed
        /\ ran' = ran \cup {Entry(x).num} /\ case \in 1 .. Len(queue)
    BY <1>6, TurnType DEF Advances, decodeVars, Executed
  <2>2. CASE ~resumed
    BY <1>1, <2>1, <2>2 DEF Resumes
  <2>3. CASE resumed
    <3>1. Resumes /\ 1 \in 1 .. Len(queue)
      BY <1>0, <2>1, <2>3 DEF Resumes
    <3>2. AcceptedNumbers' = AcceptedNumbers /\ \A y : Entry(y)' = Entry(y)
      BY <2>1, SamePlan DEF AcceptedNumbers
    <3>3. ASSUME NEW n \in paused
          PROVE  \/ n \in ran'
                 \/ \E y \in queue[1] : Entry(y).num = n /\ Pending(1, y)'
      <4>1. CASE n \in ran
        BY <2>1, <4>1
      <4>2. ASSUME NEW y \in queue[1], Entry(y).num = n, Pending(1, y)
            PROVE  \/ n \in ran'
                   \/ Pending(1, y)'
        <5>1. CASE y = x
          BY <2>1, <4>2, <5>1
        <5>2. CASE y # x
          BY <1>6, <3>1, <4>2, <5>2, StillPending
        <5> QED BY <5>1, <5>2
      <4>3. \/ n \in ran
            \/ \E y \in queue[1] : Entry(y).num = n /\ Pending(1, y)
        BY <2>1, <3>1 DEF LogsInv
      <4> QED BY <4>1, <4>2, <4>3
    <3>4. /\ pc' # "down" /\ paused' \subseteq AcceptedNumbers'
      BY <2>1, <3>1, <3>2 DEF LogsInv
    <3>5. \A n \in paused' :
            \/ n \in ran'
            \/ \E y \in queue'[1] : Entry(y)'.num = n /\ Pending(1, y)'
      BY <2>1, <3>2, <3>3
    <3> QED BY <3>4, <3>5 DEF LogsInv
  <2> QED BY <2>2, <2>3
<1>7. ASSUME NEW x \in Turn, Pause(x) PROVE LogsInv'
  <2>1. /\ pc' = "down" /\ plan' = plan
        /\ saved' = [last |-> Entry(x).num, logs |-> Listed(x)]
        /\ Listed(x) \subseteq StepNumbers(case)
    BY <1>7 DEF Pause
  <2>2. case \in 1 .. Len(queue)
    BY TurnType
  <2>3. StepNumbers(case) \subseteq AcceptedNumbers
    BY <2>2 DEF StepNumbers, AcceptedNumbers, AcceptedInv, ResumeTypes
  <2>4. AcceptedNumbers' = AcceptedNumbers
    BY <2>1, SamePlan DEF AcceptedNumbers
  <2> QED BY <2>1, <2>3, <2>4 DEF LogsInv, Resumes
<1>8. ASSUME NEW x \in Turn, StepActions(x) PROVE LogsInv'
  <2>1. Stops(x) \/ PauseFails(x) => ~Resumes' /\ pc' # "down"
    BY DEF Stops, PauseFails, Resumes
  <2> QED BY <1>1, <1>6, <1>7, <1>8, <2>1, StepOutcome
<1>9. CASE Boot
  <2>1. /\ pc = "down" /\ pc' = "request" /\ plan' = plan /\ case' = 1
        /\ paused' = saved.logs
    BY <1>9 DEF Boot
  <2>2. AcceptedNumbers' = AcceptedNumbers
    BY <2>1, SamePlan DEF AcceptedNumbers
  <2> QED BY <2>1, <2>2 DEF LogsInv
<1>10. CASE UNCHANGED vars
  <2>1. /\ UNCHANGED <<plan, pc, queue, paused, saved, case, i, resumed, ran>>
    BY <1>10 DEF vars, decodeVars, fileVars, runVars, historyVars
  <2>2. (Resumes' <=> Resumes) /\ \A x : Pending(1, x)' <=> Pending(1, x)
    BY <2>1 DEF Resumes, Pending
  <2> QED BY <2>1, <2>2, LogsPhase
<1>11. Request => ~Resumes' /\ pc' # "down"
  BY DEF Request, Resumes
<1>12. DecodeFails \/ ConfigMissing \/ FetchFails \/ Completes \/ Report
       => ~Resumes' /\ pc' # "down"
  BY DEF DecodeFails, ConfigMissing, FetchFails, Completes, Report, Resumes
<1> QED BY <1>1, <1>3, <1>4, <1>5, <1>8, <1>9, <1>10, <1>11, <1>12
        DEF Next, Work, StepActions, Terminated

(* wlan_emu_ui_mgr.cpp:2510: a process that goes on with a test follows the *)
(* logs that were paused before it executes any other step, in every        *)
(* configuration that can be resumed.                                       *)
THEOREM LogsComeFirst ==
  ASSUME Resumable
  PROVE  Spec => []LogsAreResumed
<1>1. Init => AcceptedInv /\ LogsInv
  BY DEF Init, AcceptedInv, LogsInv, Resumes
<1>2. ResumeTypes /\ RestartInv /\ [Next]_vars => RestartInv'
  BY RestartStep
<1>3. ResumeTypes /\ AcceptedInv /\ [Next]_vars => AcceptedInv'
  BY AcceptedStep
<1>4. ResumeTypes /\ RestartInv /\ AcceptedInv /\ LogsInv /\ [Next]_vars
      => LogsInv'
  BY LogsStep
<1>5. ResumeTypes /\ RestartInv /\ LogsInv => LogsAreResumed
  <2> SUFFICES ASSUME ResumeTypes, RestartInv, LogsInv, NEW x \in Turn,
                      resumed, Entry(x).num \notin paused, NEW n \in paused,
                      n \notin ran
               PROVE  FALSE
    BY DEF LogsAreResumed
  <2>1. /\ pc = "run" /\ case \in 1 .. Len(queue) /\ x \in queue[case]
        /\ \A y \in queue[case] : i <= y[2] => x[2] <= y[2]
        /\ x \in Entries(plan) /\ plan \in Plans
    BY TurnType DEF ResumeTypes
  <2>2. Resumes
    BY <2>1 DEF Resumes
  <2>3. PICK r \in Entries(plan) : Restarted(r)
    BY <2>2 DEF RestartInv
  <2>4. IsReboot(r) /\ paused = Listed(r) /\ queue[1] = Kept(Entry(r).num, 1)
    BY <2>1, <2>3 DEF Restarted
  <2>5. Len(queue) = 1 /\ case = 1
    <3>1. Len(plan) = 1
      BY <2>1, <2>4, RestartAt
    <3> QED BY <2>1, <3>1 DEF ResumeTypes
  <2>6. PICK y \in queue[1] : Entry(y).num = n /\ Pending(1, y)
    BY <2>1, <2>2 DEF LogsInv
  <2>7. y \in Entries(plan)
    BY <2>5 DEF ResumeTypes
  <2>8. x[2] <= y[2]
    BY <2>1, <2>5, <2>6 DEF Pending
  <2>9. y[2] < r[2]
    BY <2>1, <2>4, <2>6, <2>7, RestartAt
  <2>10. /\ x[2] \in Nat /\ y[2] \in Nat /\ r[2] \in Nat
         /\ Entry(x).num \in Nat /\ Entry(r).num \in Nat
    BY <2>1, <2>7, EntryType
  <2>11. Entry(r).num > 0 /\ (x[2] < r[2] => Entry(x).num < Entry(r).num)
    BY <2>1, <2>4, RestartAt
  <2>12. Entry(x).num > Entry(r).num
    BY <2>1, <2>4, <2>5, <2>10, <2>11 DEF Kept, check_reboot_step_config
  <2> QED BY <2>8, <2>9, <2>10, <2>11, <2>12
<1> QED BY <1>1, <1>2, <1>3, <1>4, <1>5, RestartInit, ResumeTypesAlways, PTL
        DEF Spec

------------------------------------------------------------------------------
(* As long as nothing fails, no restart is followed by a failure.           *)
HarmlessInv ==
  /\ faults \in Nat
  /\ faults = 0 => DoneInv
  /\ faults = 0 /\ (resumed \/ pc = "down") => verdict # "failure"

(* A step behind the restart is kept, and a log that the restart listed.    *)
LEMMA KeptBehind ==
  ASSUME Resumable, plan \in Plans, Accepted(1), NEW r \in Entries(plan),
         IsReboot(r), NEW y \in Entries(plan),
         Entry(y).num \in paused \/ r[2] < y[2]
  PROVE  y \in Kept(Entry(r).num, 1)
<1>1. y[1] = 1 /\ Entry(y).num > 0 /\ (r[2] < y[2] => Entry(r).num < Entry(y).num)
  BY RestartAt
<1>2. /\ y = <<y[1], y[2]>> /\ y[2] \in 1 .. Len(plan[y[1]].steps)
      /\ Entry(y).num \in Nat /\ Entry(r).num \in Nat
  BY EntryType
<1>3. y \in {1} \X (1 .. Len(plan[1].steps))
  BY <1>1, <1>2
<1>4. decode_param_string(Entry(y), "StepNumber") = "ok"
  BY <1>1, AcceptedHasNumber DEF Accepted
<1>5. Entry(y).num # 0 /\ (Entry(y).num > Entry(r).num \/ Entry(y).num \in paused)
  BY <1>1, <1>2
<1> QED BY <1>3, <1>4, <1>5 DEF Kept, check_reboot_step_config

(* What is there when a resumed test fetches its files or runs.             *)
LEMMA ResumedQueue ==
  ASSUME Resumable, SelfContained, ResumeTypes, RestartInv, LogsInv, DoneInv,
         Resumes, pc \in {"fetch", "run"}
  PROVE  \E r \in Entries(plan) :
           /\ IsReboot(r) /\ paused = Listed(r)
           /\ Len(queue) = 1 /\ queue[1] = Kept(Entry(r).num, 1)
           /\ queue[1] # {}
           /\ \A n : Carried(plan, r, n) => n \in StepNumbers(1)
           /\ \A x \in queue[1] : IsLogStop(x) \/ IsReboot(x) => r[2] < x[2]
<1>1. plan \in Plans /\ queue \in Seq(SUBSET Entries(plan))
  BY DEF ResumeTypes
<1>2. PICK r \in Entries(plan) : Restarted(r)
  BY DEF RestartInv
<1>3. IsReboot(r) /\ paused = Listed(r) /\ queue[1] = Kept(Entry(r).num, 1)
  BY <1>2 DEF Restarted
<1>4. Len(plan) = 1 /\ Len(queue) = 1
  BY <1>1, <1>3, RestartAt DEF ResumeTypes
<1>5. Accepted(1)
  BY <1>4 DEF DoneInv
<1>6. \A x : StepOf(plan, x) = Entry(x)
  BY DEF StepOf, Entry
<1>7. Lists(plan, r) = Listed(r) /\ Restarts(plan, r)
  BY <1>3, <1>6 DEF Lists, Listed, Restarts, IsReboot
<1>8. queue[1] # {}
  <2>1. PICK x \in Entries(plan) : r[2] < x[2]
    BY <1>1, <1>7 DEF SelfContained
  <2>2. x \in Kept(Entry(r).num, 1)
    BY <1>1, <1>3, <1>5, <2>1, KeptBehind
  <2> QED BY <1>3, <2>2
<1>9. ASSUME NEW n, Carried(plan, r, n) PROVE n \in StepNumbers(1)
  <2>1. CASE n \in Listed(r)
    <3>1. PICK y \in Entries(plan) : Entry(y).num = n
      BY <1>3, <2>1 DEF LogsInv, AcceptedNumbers
    <3>2. y \in Kept(Entry(r).num, 1)
      BY <1>1, <1>3, <1>5, <2>1, <3>1, KeptBehind
    <3> QED BY <1>3, <3>1, <3>2 DEF StepNumbers
  <2>2. CASE \E y \in Entries(plan) : r[2] < y[2] /\ StepOf(plan, y).num = n
    <3>1. PICK y \in Entries(plan) : r[2] < y[2] /\ Entry(y).num = n
      BY <1>6, <2>2
    <3>2. y \in Kept(Entry(r).num, 1)
      BY <1>1, <1>3, <1>5, <3>1, KeptBehind
    <3> QED BY <1>3, <3>1, <3>2 DEF StepNumbers
  <2> QED BY <1>7, <1>9, <2>1, <2>2 DEF Carried
<1>10. ASSUME NEW x \in queue[1], IsLogStop(x) \/ IsReboot(x)
       PROVE  r[2] < x[2]
  <2>1. x \in Entries(plan)
    BY <1>1, <1>4
  <2>2. Entry(r).num > 0
    BY <1>1, <1>3, RestartAt
  <2>3. Entry(x).num \notin paused
    BY <1>1, <1>3, <1>10, <2>1, RestartAt
      DEF IsLogStart, IsLogStop, IsReboot
  <2>4. /\ x[2] \in Nat /\ r[2] \in Nat
        /\ Entry(x).num \in Nat /\ Entry(r).num \in Nat
    BY <1>1, <2>1, EntryType
  <2>5. Entry(x).num > Entry(r).num
    BY <1>3, <2>2, <2>3, <2>4 DEF Kept, check_reboot_step_config
  <2>6. /\ x[2] < r[2] => Entry(x).num < Entry(r).num
        /\ x[2] = r[2] => x = r
    BY <1>1, <1>3, <2>1, RestartAt
  <2> QED BY <2>4, <2>5, <2>6
<1> QED BY <1>3, <1>4, <1>8, <1>9, <1>10

(* Of a resumed test no step aborts by itself.                              *)
LEMMA ResumedGoesOn ==
  ASSUME Resumable, SelfContained, ResumeTypes, RestartInv, LogsInv, DoneInv,
         resumed, faults \in Nat, NEW x \in Turn, Stops(x)
  PROVE  faults' = faults + 1
<1>1. /\ pc = "run" /\ case \in 1 .. Len(queue) /\ x \in queue[case]
      /\ x \in Entries(plan) /\ plan \in Plans
  BY TurnType DEF ResumeTypes
<1>2. Resumes
  BY <1>1 DEF Resumes
<1>3. PICK r \in Entries(plan) :
        /\ IsReboot(r) /\ Len(queue) = 1
        /\ \A n : Carried(plan, r, n) => n \in StepNumbers(1)
        /\ \A y \in queue[1] : IsLogStop(y) \/ IsReboot(y) => r[2] < y[2]
  BY <1>1, <1>2, ResumedQueue
<1>4. case = 1
  BY <1>1, <1>3
<1>5. \A y : StepOf(plan, y) = Entry(y)
  BY DEF StepOf, Entry
<1>6. /\ Restarts(plan, r) /\ Lists(plan, x) = Listed(x)
      /\ IsReboot(x) => Restarts(plan, x)
      /\ IsLogStop(x) => StopsLog(plan, x)
  BY <1>3, <1>5 DEF Lists, Listed, Restarts, IsReboot, IsLogStop, StopsLog
<1>7. CASE IsLogStop(x) /\ Entry(x).stop \notin StepNumbers(case)
  <2>1. r[2] < x[2]
    BY <1>1, <1>3, <1>4, <1>7
  <2>2. Carried(plan, r, Entry(x).stop)
    BY <1>1, <1>5, <1>6, <1>7, <2>1 DEF SelfContained
  <2> QED BY <1>3, <1>4, <1>7, <2>2
<1>8. CASE IsReboot(x) /\ ~ (Listed(x) \subseteq StepNumbers(case))
  <2>1. r[2] < x[2]
    BY <1>1, <1>3, <1>4, <1>8
  <2>2. \A n \in Listed(x) : Carried(plan, r, n)
    BY <1>1, <1>6, <1>8, <2>1 DEF SelfContained
  <2> QED BY <1>3, <1>4, <1>8, <2>2
<1> QED BY <1>7, <1>8 DEF Stops

LEMMA HarmlessStep ==
  ASSUME Resumable, SelfContained, ResumeTypes, RestartInv, LogsInv,
         HarmlessInv, [Next]_vars
  PROVE  HarmlessInv'
<1>0. faults \in Nat /\ plan \in Plans /\ case \in Nat \ {0} /\ Len(plan) \in Nat
  BY PlansAssumption DEF HarmlessInv, ResumeTypes
<1>1. CASE faults' = faults + 1
  BY <1>0, <1>1 DEF HarmlessInv
<1>2. ASSUME faults' = faults, faults = 0
      PROVE  DoneInv /\ DoneInv'
  BY <1>0, <1>2, DoneStep DEF HarmlessInv
<1>3. ASSUME faults' = faults,
             faults = 0 => ((resumed' \/ pc' = "down") => verdict' # "failure")
      PROVE  HarmlessInv'
  BY <1>0, <1>2, <1>3 DEF HarmlessInv
<1>4. CASE /\ faults' = faults /\ verdict' = verdict /\ resumed' = resumed
           /\ pc' # "down" \/ pc = "down"
  BY <1>3, <1>4 DEF HarmlessInv
<1>5. CASE Request
  BY <1>3, <1>5 DEF Request
<1>6. CASE DecodeFails
  <2>1. /\ pc = "request" /\ case <= Len(plan) /\ pc' \in {"crashed", "end"}
        /\ DecodeCase(last, case) # "ok"
        /\ faults' = faults /\ resumed' = resumed
    BY <1>6 DEF DecodeFails, boundVars
  <2>2. ASSUME resumed, faults = 0 PROVE FALSE
    <3>1. Accepted(case)
      BY <1>0, <1>2, <2>1, <2>2 DEF DoneInv, Resumes
    <3>2. case \in 1 .. Len(plan)
      BY <1>0, <2>1
    <3> QED BY <1>0, <2>1, <3>1, <3>2, AcceptedCase
  <2> QED BY <1>3, <2>1, <2>2
<1>7. CASE FetchFails
  <2>1. /\ pc = "fetch" /\ pc' = "end" /\ resumed' = resumed
        /\ (NothingToRun /\ faults' = faults) \/ faults' = faults + 1
    BY <1>7 DEF FetchFails, Fails
  <2>2. ASSUME resumed, faults = 0, faults' = faults, NothingToRun PROVE FALSE
    <3>1. Resumes /\ DoneInv
      BY <1>2, <2>1, <2>2 DEF Resumes
    <3>2. Len(queue) = 1 /\ queue[1] # {}
      BY <2>1, <3>1, ResumedQueue
    <3>3. Reached = 1 .. 1
      BY <3>2 DEF Reached
    <3>4. queue # <<>>
      BY <3>2
    <3> QED BY <2>2, <3>2, <3>3, <3>4 DEF NothingToRun
  <2> QED BY <1>1, <1>3, <2>1, <2>2
<1>8. ASSUME NEW x \in Turn, StepActions(x) PROVE HarmlessInv'
  <2>1. CASE Advances(x)
    BY <1>4, <2>1, TurnType DEF Advances, boundVars
  <2>2. CASE Stops(x)
    <3>1. /\ pc' = "end" /\ resumed' = resumed
          /\ faults' = faults \/ faults' = faults + 1
      BY <2>2 DEF Stops
    <3>2. ASSUME resumed, faults = 0, faults' = faults PROVE FALSE
      <4>1. faults' = faults + 1
        BY <1>0, <1>2, <2>2, <3>2, ResumedGoesOn
      <4> QED BY <1>0, <3>2, <4>1
    <3> QED BY <1>1, <1>3, <3>1, <3>2
  <2>3. CASE Pause(x)
    BY <1>3, <2>3 DEF Pause, boundVars
  <2>4. CASE PauseFails(x)
    BY <1>1, <2>4 DEF PauseFails, Fails
  <2> QED BY <1>8, <2>1, <2>2, <2>3, <2>4, StepOutcome
<1>9. CASE Completes
  BY <1>3, <1>9 DEF Completes, boundVars
<1>10. CASE Boot
  BY <1>3, <1>10 DEF Boot, HarmlessInv
<1>11. ConfigMissing => faults' = faults + 1
  BY DEF ConfigMissing, Fails
<1>12. Decode \/ Decoded \/ Fetch \/ Report \/ UNCHANGED vars =>
         /\ faults' = faults /\ verdict' = verdict /\ resumed' = resumed
         /\ pc' # "down" \/ pc = "down"
  BY DEF Decode, Decoded, Fetch, Report, vars, boundVars, historyVars
<1> QED BY <1>1, <1>4, <1>5, <1>6, <1>7, <1>8, <1>9, <1>10, <1>11, <1>12
        DEF Next, Work, StepActions, Terminated

(* wlan_emu_test_param_upgrade_or_reboot.cpp:96: as long as nothing else    *)
(* fails, no request that is resumed after a restart is reported as failed, *)
(* in every configuration that can be resumed and whose restarts leave      *)
(* nothing behind that is needed.                                           *)
THEOREM RestartsAreHarmless ==
  ASSUME Resumable, SelfContained
  PROVE  Spec => []RestartIsHarmless
<1>1. Init => AcceptedInv /\ LogsInv /\ HarmlessInv
  BY DEF Init, AcceptedInv, LogsInv, HarmlessInv, DoneInv, Resumes,
         CompleteMeansExecuted
<1>2. ResumeTypes /\ RestartInv /\ [Next]_vars => RestartInv'
  BY RestartStep
<1>3. ResumeTypes /\ AcceptedInv /\ [Next]_vars => AcceptedInv'
  BY AcceptedStep
<1>4. ResumeTypes /\ RestartInv /\ AcceptedInv /\ LogsInv /\ [Next]_vars
      => LogsInv'
  BY LogsStep
<1>5. ResumeTypes /\ RestartInv /\ LogsInv /\ HarmlessInv /\ [Next]_vars
      => HarmlessInv'
  BY HarmlessStep
<1>6. HarmlessInv => RestartIsHarmless
  BY DEF HarmlessInv, RestartIsHarmless
<1> QED BY <1>1, <1>2, <1>3, <1>4, <1>5, <1>6, RestartInit,
           ResumeTypesAlways, PTL DEF Spec

------------------------------------------------------------------------------
(* The options of an iperf command are scanned one after the other.         *)
IsScan(f, options, k) ==
  f = [n \in 0 .. k |->
         IF n = 0 THEN NoOption ELSE Option(f[n - 1], options[n])]

LEMMA ScanExists ==
  ASSUME NEW options, NEW l \in Nat
  PROVE  \E f : IsScan(f, options, l)
<1> DEFINE Missing == {k \in Nat : ~ \E f : IsScan(f, options, k)}
<1> SUFFICES Missing = {}
  OBVIOUS
<1> SUFFICES ASSUME Missing # {} PROVE FALSE
  OBVIOUS
<1>1. PICK k \in Missing : \A j \in Missing : k <= j
  <2>1. Missing \in SUBSET Nat
    OBVIOUS
  <2> HIDE DEF Missing
  <2> QED BY <2>1, LeastNumber
<1>2. k # 0
  <2> DEFINE f == [n \in 0 .. 0 |-> NoOption]
  <2>1. IsScan(f, options, 0)
    BY DEF IsScan
  <2> QED BY <2>1, <1>1
<1>3. k - 1 \in Nat /\ k - 1 \notin Missing
  BY <1>1, <1>2
<1>4. PICK f : IsScan(f, options, k - 1)
  BY <1>3
<1> DEFINE g == [n \in 0 .. k |->
                   IF n = k THEN Option(f[k - 1], options[k]) ELSE f[n]]
<1>5. ASSUME NEW n \in 0 .. k
      PROVE  g[n] = IF n = 0 THEN NoOption ELSE Option(g[n - 1], options[n])
  <2>1. CASE n = k
    <3>1. k - 1 \in 0 .. k /\ k - 1 # k
      BY <1>3
    <3>2. g[k - 1] = f[k - 1]
      BY <3>1
    <3> QED BY <1>2, <2>1, <3>2
  <2>2. CASE n # k
    <3>1. n \in 0 .. k - 1
      BY <1>3, <2>2
    <3>2. f[n] = IF n = 0 THEN NoOption ELSE Option(f[n - 1], options[n])
      BY <1>4, <3>1 DEF IsScan
    <3>3. n # 0 => n - 1 \in 0 .. k /\ n - 1 # k
      BY <1>3, <3>1
    <3>4. g[n] = f[n] /\ (n # 0 => g[n - 1] = f[n - 1])
      BY <2>2, <3>3
    <3> QED BY <3>2, <3>4
  <2> QED BY <2>1, <2>2
<1>6. g = [n \in 0 .. k |-> g[n]]
  OBVIOUS
<1> HIDE DEF g
<1>7. IsScan(g, options, k)
  BY <1>5, <1>6 DEF IsScan
<1> QED BY <1>1, <1>7

LEMMA ScanIs ==
  ASSUME NEW options, Len(options) \in Nat
  PROVE  /\ Scan(options)[0] = NoOption
         /\ \A n \in 1 .. Len(options) :
              Scan(options)[n] = Option(Scan(options)[n - 1], options[n])
<1>1. PICK f : IsScan(f, options, Len(options))
  BY ScanExists
<1>2. IsScan(Scan(options), options, Len(options))
  BY <1>1 DEF IsScan, Scan
<1>3. \A n \in 0 .. Len(options) :
        Scan(options)[n] =
          IF n = 0 THEN NoOption
          ELSE Option(Scan(options)[n - 1], options[n])
  BY <1>2 DEF IsScan
<1> QED BY <1>3

(* What is known of the options that a scan has accepted.                   *)
Seen(options, n) == {options[m] : m \in 1 .. n}
Scanned(options, a, n) ==
  a.ok =>
    /\ "invalid" \notin Seen(options, n)
    /\ Seen(options, n) \cap Roles \subseteq {a.role}
    /\ a.flags = Seen(options, n) \cap {"serverOnly", "clientOnly"}
    /\ a.role = "client" => "serverOnly" \notin a.flags
    /\ a.role = "server" => "clientOnly" \notin a.flags

LEMMA ScannedOption ==
  ASSUME NEW options, NEW n \in Nat, NEW a, Scanned(options, a, n)
  PROVE  Scanned(options, Option(a, options[n + 1]), n + 1)
<1> DEFINE o == options[n + 1]
           b == Option(a, o)
           S == Seen(options, n)
<1>1. Seen(options, n + 1) = S \cup {o}
  BY DEF Seen
<1> SUFFICES ASSUME b.ok
             PROVE  /\ "invalid" \notin S \cup {o}
                    /\ (S \cup {o}) \cap Roles \subseteq {b.role}
                    /\ b.flags = (S \cup {o}) \cap {"serverOnly", "clientOnly"}
                    /\ b.role = "client" => "serverOnly" \notin b.flags
                    /\ b.role = "server" => "clientOnly" \notin b.flags
  BY <1>1 DEF Scanned
<1>2. /\ b.role = (IF o \in Roles THEN o ELSE a.role)
      /\ b.flags = a.flags \cup ({o} \cap {"serverOnly", "clientOnly"})
      /\ a.ok /\ o # "invalid"
      /\ o \in Roles => a.role \in {"none", o}
      /\ b.role = "client" => "serverOnly" \notin b.flags
      /\ b.role = "server" => "clientOnly" \notin b.flags
  BY DEF Option
<1>3. /\ "invalid" \notin S
      /\ S \cap Roles \subseteq {a.role}
      /\ a.flags = S \cap {"serverOnly", "clientOnly"}
  BY <1>2 DEF Scanned
<1> HIDE DEF o, b, S
<1>4. "none" \notin Roles
  BY DEF Roles
<1>5. (S \cup {o}) \cap Roles \subseteq {b.role}
  BY <1>2, <1>3, <1>4
<1>6. b.flags = (S \cup {o}) \cap {"serverOnly", "clientOnly"}
  BY <1>2, <1>3
<1> QED BY <1>2, <1>3, <1>5, <1>6

(* A command whose options are accepted has one role and its options only.  *)
LEMMA IperfConsistent ==
  ASSUME NEW options \in Seq(Options), validate_iperf_options(options)
  PROVE  Consistent(options)
<1> DEFINE l == Len(options)
           s == Scan(options)
           Wrong == {n \in 0 .. l : ~Scanned(options, s[n], n)}
<1>1. l \in Nat
  OBVIOUS
<1>2. Scanned(options, s[l], l)
  <2> SUFFICES ASSUME Wrong # {} PROVE FALSE
    BY <1>1
  <2>1. PICK n \in Wrong : \A m \in Wrong : n <= m
    <3>1. Wrong \in SUBSET Nat
      BY <1>1
    <3> HIDE DEF Wrong
    <3> QED BY <3>1, LeastNumber
  <2>2. CASE n = 0
    <3>1. s[0] = NoOption /\ Seen(options, 0) = {}
      BY ScanIs DEF Seen
    <3>2. Scanned(options, NoOption, 0)
      BY <3>1 DEF Scanned, NoOption
    <3> QED BY <2>1, <2>2, <3>1, <3>2
  <2>3. CASE n # 0
    <3>1. n \in 1 .. l /\ n - 1 \in 0 .. l /\ n - 1 \in Nat /\ (n - 1) + 1 = n
      BY <1>1, <2>3
    <3>2. n - 1 \notin Wrong
      BY <2>1, <3>1
    <3>3. Scanned(options, s[n - 1], n - 1)
      BY <3>1, <3>2
    <3>4. Scanned(options, Option(s[n - 1], options[n]), n)
      BY <3>1, <3>3, ScannedOption
    <3>5. s[n] = Option(s[n - 1], options[n])
      BY <3>1, ScanIs
    <3> QED BY <2>1, <3>4, <3>5
  <2> QED BY <2>2, <2>3
<1>3. s[l].ok
  BY DEF validate_iperf_options
<1>4. ToSet(options) = Seen(options, l)
  BY DEF ToSet, Seen
<1> HIDE DEF l, s
<1>5. /\ "invalid" \notin Seen(options, l)
      /\ Seen(options, l) \cap Roles \subseteq {s[l].role}
      /\ s[l].flags = Seen(options, l) \cap {"serverOnly", "clientOnly"}
      /\ s[l].role = "client" => "serverOnly" \notin s[l].flags
      /\ s[l].role = "server" => "clientOnly" \notin s[l].flags
  BY <1>2, <1>3 DEF Scanned
<1>6. ~ ({"server", "client"} \subseteq Seen(options, l))
  BY <1>5 DEF Roles
<1>7. ~ ({"server", "clientOnly"} \subseteq Seen(options, l))
  BY <1>5 DEF Roles
<1>8. ~ ({"client", "serverOnly"} \subseteq Seen(options, l))
  BY <1>5 DEF Roles
<1> QED BY <1>4, <1>5, <1>6, <1>7, <1>8 DEF Consistent, Opposed

------------------------------------------------------------------------------
(* An entry that is accepted is accepted by the decoder of its class.       *)
LEMMA AcceptedByClass ==
  ASSUME NEW e, DecodeStep(e) = "ok"
  PROVE  DecodeAs(ParamType(e), e) = "ok"
<1>1. decode_step_param_config(e) = "ok"
  BY InOrderOfTwo DEF DecodeStep
<1>2. decode_step_param_config(e) =
        IF TypeIndex(e) = 0 THEN "err"
        ELSE InOrder(<<When(StepKeys[TypeIndex(e)] \in StatsKeys,
                            decode_param_string(e, StepKeys[TypeIndex(e)])),
                       DecodeAs(ParamType(e), e)>>)
  BY DEF decode_step_param_config
<1> QED BY <1>1, <1>2, InOrderOfTwo

LEMMA UncheckedAccepts ==
  ASSUME NEW e, NEW k, NEW holds, Unchecked(e, k, holds) = "ok"
  PROVE  Value(e, k) \in Texts /\ holds
BY DEF Unchecked, Has, Check

LEMMA StatsNeeds ==
  ASSUME NEW e, DecodeStep(e) = "ok",
         ParamType(e) \in {"stats_get", "stats_set"}, NEW need \in Needs(e)
  PROVE  Value(e, need[1]) \in need[2]
<1> DEFINE k == IF e.stats = "AssociatedDeviceStats" THEN "VapIndex"
                ELSE "RadioIndex"
<1>1. StatsIndex(e) = "ok"
  <2>1. CASE ParamType(e) = "stats_get"
    <3>1. decode_step_stats_get(e) = "ok"
      BY <2>1, AcceptedByClass DEF DecodeAs
    <3> DEFINE s == <<StatsIndex(e), decode_stats_get_common_params(e),
                      When(e.stats \in {"RadioChannelStats", "NeighborStats"},
                           Word(e, "ScanMode"))>>
    <3>2. DOMAIN s = {1, 2, 3} /\ s[1] = StatsIndex(e)
      OBVIOUS
    <3>3. InOrder(s) = "ok"
      BY <3>1 DEF decode_step_stats_get
    <3> HIDE DEF s
    <3> QED BY <3>2, <3>3, InOrderAccepts
  <2>2. CASE ParamType(e) = "stats_set"
    <3>1. decode_step_stats_set(e) = "ok"
      BY <2>2, AcceptedByClass DEF DecodeAs
    <3> QED BY <3>1, InOrderOfTwo DEF decode_step_stats_set
  <2> QED BY <2>1, <2>2
<1>2. Value(e, k) \in Texts /\ Value(e, k) # "other"
  BY <1>1, UncheckedAccepts DEF StatsIndex, Index
<1>3. CASE need = <<k, {"text", "stop", "empty"}>>
  BY <1>2, <1>3 DEF Texts
<1>4. CASE /\ ParamType(e) = "stats_get"
           /\ e.stats \in {"RadioChannelStats", "NeighborStats"}
           /\ need = <<"ScanMode", {"text"}>>
  <2>1. decode_step_stats_get(e) = "ok"
    BY <1>4, AcceptedByClass DEF DecodeAs
  <2> DEFINE s == <<StatsIndex(e), decode_stats_get_common_params(e),
                    When(e.stats \in {"RadioChannelStats", "NeighborStats"},
                         Word(e, "ScanMode"))>>
  <2>2. /\ DOMAIN s = {1, 2, 3}
        /\ s[3] = When(e.stats \in {"RadioChannelStats", "NeighborStats"},
                       Word(e, "ScanMode"))
    OBVIOUS
  <2>3. InOrder(s) = "ok"
    BY <2>1 DEF decode_step_stats_get
  <2> HIDE DEF s
  <2>4. When(e.stats \in {"RadioChannelStats", "NeighborStats"},
             Word(e, "ScanMode")) = "ok"
    BY <2>2, <2>3, InOrderAccepts
  <2>5. Word(e, "ScanMode") = "ok"
    BY <1>4, <2>4 DEF When
  <2> QED BY <1>4, <2>5, UncheckedAccepts DEF Word
<1>5. Needs(e) =
        {<<k, {"text", "stop", "empty"}>>}
        \cup (IF ParamType(e) = "stats_get" /\
                 e.stats \in {"RadioChannelStats", "NeighborStats"}
              THEN {<<"ScanMode", {"text"}>>} ELSE {})
  BY DEF Needs
<1> HIDE DEF k
<1> QED BY <1>3, <1>4, <1>5

LEMMA LogNeeds ==
  ASSUME NEW e, DecodeStep(e) = "ok", ParamType(e) = "log_redirection",
         ~IsStop(e)
  PROVE  Value(e, "RedirectLogs") \in {"text", "stop"}
<1>1. decode_step_log_redirect(e) = "ok"
  BY AcceptedByClass DEF DecodeAs
<1>2. /\ Value(e, "RedirectLogs") # "other"
      /\ IsText(e, "RedirectLogs") \/ IsText(e, "StopLogStepNumber")
  BY <1>1, InOrderOfTwo DEF decode_step_log_redirect, Check
<1>3. ~IsText(e, "StopLogStepNumber")
  BY DEF IsStop
<1> QED BY <1>2, <1>3 DEF IsText, Texts

LEMMA PerformanceNeeds ==
  ASSUME NEW e, DecodeStep(e) = "ok", ParamType(e) = "gateway_performance"
  PROVE  /\ Value(e, "Interval") \in Numbers
         /\ Value(e, "Iteration") \in Numbers
         /\ Value(e, "TopCmdOptions") = "text"
<1> DEFINE s == <<decode_param_string(e, "PerformanceResultName"),
                  decode_param_integer(e, "Interval"),
                  decode_param_integer(e, "Iteration"),
                  decode_param_string(e, "TopCmdOptions"),
                  Word(e, "TopCmdOptions"),
                  Items(e, "ProcessNameList", "ProcessName")>>
<1>1. decode_step_gateway_performance(e) = "ok"
  BY AcceptedByClass DEF DecodeAs
<1>2. InOrder(s) = "ok"
  BY <1>1 DEF decode_step_gateway_performance
<1>3. /\ DOMAIN s = 1 .. 6
      /\ s[2] = decode_param_integer(e, "Interval")
      /\ s[3] = decode_param_integer(e, "Iteration")
      /\ s[5] = Word(e, "TopCmdOptions")
  OBVIOUS
<1> HIDE DEF s
<1>4. \A n \in 1 .. 6 : s[n] = "ok"
  BY <1>2, <1>3, InOrderAccepts
<1>5. /\ decode_param_integer(e, "Interval") = "ok"
      /\ decode_param_integer(e, "Iteration") = "ok"
      /\ Word(e, "TopCmdOptions") = "ok"
  BY <1>3, <1>4
<1>6. Value(e, "TopCmdOptions") = "text"
  BY <1>5, UncheckedAccepts DEF Word
<1> QED BY <1>5, <1>6 DEF decode_param_integer, Check

(* The two classes whose needed key is the one that their decoder checks    *)
(* first or second of three.                                                *)
LEMMA FileNeeds ==
  ASSUME NEW e, DecodeStep(e) = "ok"
  PROVE  /\ ParamType(e) = "get_pattern_files" =>
              Value(e, "FilePattern") \in Texts \ {"empty"}
         /\ ParamType(e) = "get_file" =>
              Value(e, "SourceFilename") \in Texts \ {"empty"}
<1>1. CASE ParamType(e) = "get_pattern_files"
  <2> DEFINE s == <<decode_param_string(e, "Location"),
                    decode_param_string(e, "FilePattern"),
                    decode_param_bool(e, "DeleteFiles")>>
  <2>1. decode_step_get_pattern_files(e) = "ok"
    BY <1>1, AcceptedByClass DEF DecodeAs
  <2>2. InOrder(s) = "ok"
    BY <2>1 DEF decode_step_get_pattern_files
  <2>3. DOMAIN s = {1, 2, 3} /\ s[2] = decode_param_string(e, "FilePattern")
    OBVIOUS
  <2> HIDE DEF s
  <2>4. decode_param_string(e, "FilePattern") = "ok"
    BY <2>2, <2>3, InOrderAccepts
  <2> QED BY <1>1, <2>4 DEF decode_param_string, Check
<1>2. CASE ParamType(e) = "get_file"
  <2> DEFINE s == <<decode_param_string(e, "SourceFilename"),
                    decode_param_string(e, "ToDestinationFilename"),
                    decode_param_bool(e, "DeleteSourceFile")>>
  <2>1. decode_step_get_file(e) = "ok"
    BY <1>2, AcceptedByClass DEF DecodeAs
  <2>2. InOrder(s) = "ok"
    BY <2>1 DEF decode_step_get_file
  <2>3. DOMAIN s = {1, 2, 3} /\ s[1] = decode_param_string(e, "SourceFilename")
    OBVIOUS
  <2> HIDE DEF s
  <2>4. decode_param_string(e, "SourceFilename") = "ok"
    BY <2>2, <2>3, InOrderAccepts
  <2> QED BY <1>2, <2>4 DEF decode_param_string, Check
<1> QED BY <1>1, <1>2

LEMMA EthernetNeeds ==
  ASSUME NEW e, DecodeStep(e) = "ok", ParamType(e) = "ethernet_lan_interface"
  PROVE  Value(e, "TestDuration") \in Numbers
<1>1. decode_step_configure_eth_client(e) = "ok"
  BY AcceptedByClass DEF DecodeAs
<1>2. decode_param_integer(e, "TestDuration") = "ok"
  BY <1>1, InOrderOfTwo DEF decode_step_configure_eth_client
<1> QED BY <1>2 DEF decode_param_integer, Check

(* An accepted step has what its class reads.                               *)
LEMMA AcceptedNeeds ==
  ASSUME NEW e, DecodeStep(e) = "ok", NEW need \in Needs(e)
  PROVE  Value(e, need[1]) \in need[2]
<1>1. CASE ParamType(e) \in {"stats_get", "stats_set"}
  BY <1>1, StatsNeeds
<1>2. CASE ParamType(e) = "log_redirection" /\ ~IsStop(e)
  <2>1. need = <<"RedirectLogs", {"text", "stop"}>>
    BY <1>2 DEF Needs
  <2> QED BY <1>2, <2>1, LogNeeds
<1>3. CASE ParamType(e) = "get_pattern_files"
  <2>1. need = <<"FilePattern", Texts \ {"empty"}>>
    BY <1>3 DEF Needs
  <2> QED BY <1>3, <2>1, FileNeeds
<1>4. CASE ParamType(e) = "gateway_performance"
  <2>1. need \in {<<"Interval", Numbers>>, <<"Iteration", Numbers>>,
                  <<"TopCmdOptions", {"text"}>>}
    BY <1>4 DEF Needs
  <2> QED BY <1>4, <2>1, PerformanceNeeds
<1>5. CASE ParamType(e) = "ethernet_lan_interface"
  <2>1. need = <<"TestDuration", Numbers>>
    BY <1>5 DEF Needs
  <2> QED BY <1>5, <2>1, EthernetNeeds
<1>6. CASE ParamType(e) = "get_file"
  <2>1. need = <<"SourceFilename", Texts \ {"empty"}>>
    BY <1>6 DEF Needs
  <2> QED BY <1>6, <2>1, FileNeeds
<1> QED BY <1>1, <1>2, <1>3, <1>4, <1>5, <1>6 DEF Needs

(* An accepted start of iperf has one role, and no options but of it.       *)
LEMMA AcceptedIperf ==
  ASSUME NEW e, DecodeStep(e) = "ok", StartsIperf(e),
         e.options \in Seq(Options)
  PROVE  Consistent(e.options)
<1>1. CASE ParamType(e) = "config_iperf_server"
  <2> DEFINE s == <<decode_param_integer(e, "ServerInterfaceStepNumber"),
                    decode_param_string(e, "ServerLogResultName"),
                    decode_param_string(e, "ServerIperfOptions"),
                    Check(validate_iperf_options(e.options))>>
  <2>1. decode_step_iperf_server(e) = "ok"
    BY <1>1, AcceptedByClass DEF DecodeAs
  <2>2. ~IsNumber(e, "StopServerStepNumber")
    BY <1>1 DEF StartsIperf, IsStop
  <2>3. InOrder(s) = "ok"
    BY <2>1, <2>2 DEF decode_step_iperf_server
  <2>4. DOMAIN s = 1 .. 4 /\ s[4] = Check(validate_iperf_options(e.options))
    OBVIOUS
  <2> HIDE DEF s
  <2>5. Check(validate_iperf_options(e.options)) = "ok"
    BY <2>3, <2>4, InOrderAccepts
  <2> QED BY <2>5, IperfConsistent DEF Check
<1>2. CASE ParamType(e) = "config_iperf_client"
  <2> DEFINE s == <<decode_param_integer(e, "ClientInterfaceStepNumber"),
                    decode_param_integer(e, "ServerStepNumber"),
                    Check(Has(e, "ClientOptions")),
                    decode_param_string(e, "ClientLogResultName"),
                    decode_param_string(e, "ClientIperfOptions"),
                    Check(validate_iperf_options(e.options))>>
  <2>1. decode_step_iperf_client(e) = "ok"
    BY <1>2, AcceptedByClass DEF DecodeAs
  <2>2. ~IsNumber(e, "StopClientStepNumber")
    BY <1>2 DEF StartsIperf, IsStop
  <2>3. InOrder(s) = "ok"
    BY <2>1, <2>2 DEF decode_step_iperf_client
  <2>4. DOMAIN s = 1 .. 6 /\ s[6] = Check(validate_iperf_options(e.options))
    OBVIOUS
  <2> HIDE DEF s
  <2>5. Check(validate_iperf_options(e.options)) = "ok"
    BY <2>3, <2>4, InOrderAccepts
  <2> QED BY <2>5, IperfConsistent DEF Check
<1> QED BY <1>1, <1>2 DEF StartsIperf

(* wlan_emu_ui_mgr.cpp:1955, 593: every step of the queue has all that its  *)
(* class uses when it runs, and an iperf command has one role and only      *)
(* options of that role, whatever is in the configuration.                  *)
THEOREM AcceptedStepsAreRunnable == Spec => []AcceptedIsRunnable
<1>1. Init => AcceptedInv
  BY DEF Init, AcceptedInv
<1>2. ResumeTypes /\ AcceptedInv /\ [Next]_vars => AcceptedInv'
  BY AcceptedStep
<1>3. ResumeTypes /\ AcceptedInv => AcceptedIsRunnable
  <2> SUFFICES ASSUME ResumeTypes, AcceptedInv,
                      NEW c \in 1 .. Len(queue), NEW x \in queue[c]
               PROVE  /\ \A need \in Needs(Entry(x)) :
                           Value(Entry(x), need[1]) \in need[2]
                      /\ StartsIperf(Entry(x)) => Consistent(Entry(x).options)
    BY DEF AcceptedIsRunnable
  <2>1. DecodeStep(Entry(x)) = "ok"
    BY DEF AcceptedInv
  <2>2. x \in Entries(plan) /\ plan \in Plans
    BY DEF ResumeTypes
  <2>3. /\ x[1] \in 1 .. Len(plan)
        /\ x[2] \in 1 .. Len(plan[x[1]].steps)
    BY <2>2, EntryType
  <2>4. plan[x[1]].steps \in Seq(ToSet(plan[x[1]].steps))
    BY <2>2, <2>3, PlansAssumption
  <2>5. Entry(x) \in ToSet(plan[x[1]].steps)
    BY <2>3, <2>4 DEF ToSet, Entry
  <2>6. Entry(x).options \in Seq(Options)
    BY <2>2, <2>3, <2>5, PlansAssumption
  <2> QED BY <2>1, <2>6, AcceptedNeeds, AcceptedIperf
<1> QED BY <1>1, <1>2, <1>3, ResumeTypesAlways, PTL DEF Spec
=============================================================================
