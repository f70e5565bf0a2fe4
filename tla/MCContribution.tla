--------------------------- MODULE MCContribution ---------------------------
EXTENDS Contribution

Serving(s) ==
  [id |-> s, status |-> "online", scheduler |-> "available", bootstrap |-> "other",
   pipelineReady |-> "yes", routingReady |-> "yes", nodesActive |-> "yes",
   needMoreNodes |-> FALSE, pipelines |-> TRUE, lacking |-> FALSE]

(* A serving swarm, one whose routes are taken, one that lost a peer and one  *)
(* that loads; the other swarms serve.                                        *)
MCEntries ==
  LET one == CHOOSE s \in Swarms : TRUE
  IN {Serving(s) : s \in Swarms} \cup
     {[Serving(one) EXCEPT !.scheduler = "waiting", !.routingReady = "no"],
      [Serving(one) EXCEPT !.bootstrap = "failed_capacity"],
      [Serving(one) EXCEPT !.pipelineReady = "no"]}

(* A worker runs, loads and serves, dies or stops. *)
MCReports ==
  {w \in UNION {Says(s) : s \in Swarms} :
     w.kind # "starting" /\ w.stage \in {"none", "loading-weights", "ready"}}
==============================================================================
