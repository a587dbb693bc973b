----------------------------- MODULE MCStaStep -----------------------------
(* Station configurations for TLC: a single client and a pair, that end by   *)
(* their time, by a signal pattern or at once, with and without "Fork",     *)
(* wait_connection and auto_reconnect, and a real client.                   *)
EXTENDS StaStep

Simulated ==
  [conn |-> "internal", clients |-> 1, fork |-> FALSE, waits |-> FALSE,
   capture |-> TRUE, time |-> 2, reconnect |-> FALSE, interval |-> 0,
   pattern |-> <<>>]

StaConfigs ==
  {[Simulated EXCEPT !.clients = 2],
   [Simulated EXCEPT !.capture = FALSE],
   [Simulated EXCEPT !.clients = 2, !.fork = TRUE, !.waits = TRUE],
   [Simulated EXCEPT !.fork = TRUE, !.reconnect = TRUE, !.interval = 1],
   [Simulated EXCEPT !.fork = TRUE, !.pattern = <<1, 1>>, !.time = 3],
   [Simulated EXCEPT !.conn = "real", !.clients = 0]}
=============================================================================
