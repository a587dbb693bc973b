---------------------------- MODULE MCCciControl -----------------------------
(***************************************************************************)
(* Constants with which TLC checks CciControl.                             *)
(***************************************************************************)
EXTENDS CciControl

OneCoverage == {1}
TwoCoverages == {1, 3}

PassOrFail == {"pass", "fail"}
EveryOutcome == {"pass", "fail", "reboot", "silent"}

ZeroedHeap == {"empty"}
UsedHeap == {"empty", "garbage"}
=============================================================================
