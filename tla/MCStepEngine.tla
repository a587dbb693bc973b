---------------------------- MODULE MCStepEngine -----------------------------
(***************************************************************************)
(* Constants with which TLC checks StepEngine.                             *)
(***************************************************************************)
EXTENDS StepEngine

(* The classes whose test_state only the test thread writes. *)
PlainKinds == Plain

(* The asynchronous classes and what stops them, beside a synchronous one. *)
AsyncKinds == {"command"} \cup Async \cup Stops

(* The classes that leave something running for a later step to stop. *)
StoppableKinds == AsyncKinds \ {"performance"}


NoFork == {FALSE}
ForkOrNot == {TRUE, FALSE}
=============================================================================
