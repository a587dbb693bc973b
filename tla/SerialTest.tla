----------------------------- MODULE SerialTest ------------------------------
(***************************************************************************)
(* What a test case without forked steps promises: its steps are begun in  *)
(* the order in which they were written, each when every earlier one has   *)
(* finished; the test is done when all of them have, and has failed when   *)
(* one has.  Neither messages, nor the device, nor time-outs appear here.  *)
(***************************************************************************)
EXTENDS Naturals

CONSTANT N    \* the number of steps

VARIABLES
  phase,    \* of each step: todo, active, finished or failed
  outcome   \* of the test: none, done or fail

svars == <<phase, outcome>>
AllSteps == 0 .. N - 1

TypeOK ==
  /\ phase \in [AllSteps -> {"todo", "active", "finished", "failed"}]
  /\ outcome \in {"none", "done", "fail"}

Init ==
  /\ phase = [s \in AllSteps |-> "todo"]
  /\ outcome = "none"

Begin(s) ==
  /\ outcome = "none"
  /\ phase[s] = "todo"
  /\ \A t \in 0 .. s - 1 : phase[t] = "finished"
  /\ phase' = [phase EXCEPT ![s] = "active"]
  /\ UNCHANGED outcome

Finish(s) ==
  /\ outcome = "none"
  /\ phase[s] = "active"
  /\ phase' = [phase EXCEPT ![s] = "finished"]
  /\ UNCHANGED outcome

(* A step fails; the test may fail at once or find out later. *)
Fail(s) ==
  /\ outcome = "none"
  /\ phase[s] = "active"
  /\ phase' = [phase EXCEPT ![s] = "failed"]
  /\ outcome' \in {"none", "fail"}

DeclareDone ==
  /\ outcome = "none"
  /\ \A s \in AllSteps : phase[s] = "finished"
  /\ outcome' = "done"
  /\ UNCHANGED phase

DeclareFailed ==
  /\ outcome = "none"
  /\ \E s \in AllSteps : phase[s] = "failed"
  /\ outcome' = "fail"
  /\ UNCHANGED phase

Next ==
  \/ \E s \in AllSteps : Begin(s) \/ Finish(s) \/ Fail(s)
  \/ DeclareDone
  \/ DeclareFailed

Spec == Init /\ [][Next]_svars
==============================================================================
