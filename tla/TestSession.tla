----------------------------- MODULE TestSession -----------------------------
(***************************************************************************)
(* What the cci process promises to a controller that waits for the answer *)
(* to one request before it makes the next: once the process listens,      *)
(* every request is answered by one report, sooner or later, and           *)
(* "complete" is reported only of a test that passed.  A request that came *)
(* before is lost, and may be repeated.                                    *)
(***************************************************************************)
CONSTANT Reports    \* what the last report may be before the first request

VARIABLES
  open,     \* the process listens
  asked,    \* a request waits for its report
  result,   \* what became of it
  answer    \* the last report

svars == <<open, asked, result, answer>>

Init ==
  /\ open = FALSE
  /\ asked = FALSE
  /\ result = "asked"
  /\ answer \in Reports

Open ==
  /\ ~open
  /\ open' = TRUE
  /\ UNCHANGED <<asked, result, answer>>

Ask ==
  /\ ~asked \/ result = "lost"
  /\ asked' = TRUE
  /\ result' = IF open THEN "asked" ELSE "lost"
  /\ UNCHANGED <<open, answer>>

Decide ==
  /\ asked
  /\ result = "asked"
  /\ result' \in {"passed", "failed"}
  /\ UNCHANGED <<open, asked, answer>>

(* The report of a test that passed says so, or that its results were not  *)
(* uploaded.                                                               *)
Answer ==
  /\ asked
  /\ result \in {"passed", "failed"}
  /\ answer' \in IF result = "passed" THEN {"complete", "fail"} ELSE {"fail"}
  /\ asked' = FALSE
  /\ UNCHANGED <<open, result>>

Next == Open \/ Ask \/ Decide \/ Answer

(* What a session never does. *)
Safe == Init /\ [][Next]_svars

(* Nobody has to ask; what was asked is decided and answered. *)
Spec == Safe /\ WF_svars(Open) /\ WF_svars(Decide) /\ WF_svars(Answer)
==============================================================================
