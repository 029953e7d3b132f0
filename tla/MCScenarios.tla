----------------------------- MODULE MCScenarios -----------------------------
(* Runs of SyncNodes over several small scenarios.  A scenario only withholds  *)
(* steps of the users: everything the nodes, the radio and the faults may do   *)
(* is left as it is, and so is the fairness.                                   *)
EXTENDS MCSyncNodes

CONSTANT Scenarios

VARIABLE scenario

\* Callbacks and calls of one node at once, over a radio that carries one frame.
Overlapping == INSTANCE SyncNodes WITH MaxBusy <- 2, AirSlots <- 1, SyncPage <- 2

\* The post is too large for a frame.
Large == INSTANCE SyncNodes WITH Oversize <- {p}

\* Who creates what; a calls request_sync once, at any time, except in publish:
\*   post, large   a thread and a post, by either node
\*   overlap   the same, but only b publishes
\*   publish   as in post, and nobody calls request_sync
\*   each      a thread at each node: both need repair
\*   answers   two threads at b: its answer has two pages
\*   pages     two threads at a: its inventory has two pages
Authored ==
    CASE scenario = "each"    -> {<<a, t>>, <<b, u>>}
      [] scenario = "answers" -> {<<b, t>>, <<b, u>>}
      [] scenario = "pages"   -> {<<a, t>>, <<a, u>>}
      [] OTHER -> Node \X {t, p}

\* What users create in a step.
News == {x \in Node \X Object : x[2] \in store'[x[1]] /\ New(x[2])}

Withheld ==
    \/ ~(News \subseteq Authored)
    \/ scenario = "publish" /\ \E n \in Node : app'[n].op = "inventory"
    \/ scenario = "overlap" /\ News # {} /\ outbox'[a] # outbox[a]

ScenarioInit == Init /\ scenario \in Scenarios

ScenarioNext ==
    /\ \/ scenario = "overlap" /\ Overlapping!Next
       \/ scenario = "large" /\ Large!Next
       \/ scenario \notin {"overlap", "large"} /\ Next
    /\ ~Withheld
    /\ UNCHANGED scenario

ScenarioSpec == ScenarioInit /\ [][ScenarioNext]_<<vars, scenario>>
FairScenarioSpec == ScenarioSpec /\ Fairness
==============================================================================
