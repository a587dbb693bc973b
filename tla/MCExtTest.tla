----------------------------- MODULE MCExtTest -----------------------------
(* Test cases for TLC: each kind of step on the agent, with and without     *)
(* "Fork"; the run also evaluates what AgentDocs says of the documents.    *)
EXTENDS ExtTest, AgentDocs

Plain(k) == [kind |-> k, fork |-> FALSE]
Forked(k) == [kind |-> k, fork |-> TRUE]

TwoSteps ==
  {<<Forked("sta"), Forked("iperf")>>, <<Plain("sta"), Plain("eth")>>,
   <<Forked("eth"), Plain("iperf_stop")>>, <<Forked("sta"), Forked("sta")>>}

(* A forked iperf step, and after it one that starts the agent again: for N = 3,
   Time = 3 and the failures "execute" (README, section 6). *)
StartedTwice ==
  {[s \in Steps |->
      <<Forked("eth"), Forked("iperf"), Plain("sta")>>[s + 1]]}

TestCases == {[s \in Steps |-> plans[s + 1]] : plans \in TwoSteps}

(* DocumentsAgree of AgentDocs: what the gateway asks for is what the agent *)
(* runs, and what the agent reports is what the gateway reads.  It is about *)
(* no variable, so it is evaluated in the initial states only.             *)
DocumentsArrive == Init => DocumentsAgree

(* DiscoveryAgrees of AgentDocs: of one agent in the network the gateway    *)
(* knows, whatever the table of the hosts has, that agent with all its      *)
(* stations.  It too is evaluated in the initial states only.              *)
AgentsAreKnown == Init => DiscoveryAgrees
=============================================================================
