---------------------------- MODULE MCWebconfig ------------------------------
(***************************************************************************)
(* Constants with which TLC checks Webconfig.                              *)
(***************************************************************************)
EXTENDS Webconfig

MCStart == <<"Tests", "Start">>

(* Names that share their first parts, one that another one begins with,   *)
(* and the order in which they come.                                        *)
MCElements ==
  {<<<<"Tests", "Url">>, MCStart, <<"Tests", "Status">>>>,
   <<MCStart, <<"Start">>, <<"Tests">>>>,
   <<<<"Start", "Tests">>, <<"Tests", "Start", "Url">>, MCStart>>}
MCEvents == <<<<"WebConfig", "North">>, <<"WebConfig", "Init">>>>

Kinds == {"radio", "private", "station", "station_override"}
MCPlans ==
  {p \in UNION {[1 .. n -> Kinds] : n \in 1 .. 3} :
     p[Len(p)] \in {"private", "station"}}
=============================================================================
