--------------------------- MODULE AgentWorkflows ---------------------------
(***************************************************************************)
(* agent-workflows at work, seen six ways: the executor that walks a      *)
(* workflow's graph; the agents of one pipeline, with the image they need  *)
(* and the record of its steps; the roles and child processes that are     *)
(* dispatched outside a pipeline; a role between two rebuilds of the       *)
(* image; plans that are kept and executed later; and the lanes of two     *)
(* processes with the rows that show them.                                 *)
(***************************************************************************)
EXTENDS GraphExecution, AgentRuns, WorkLanes

VARIABLE seen
vars == <<seen, graphVars, agentVars, laneVars>>
Sees(part) == seen = part

\* The parts that are not seen stay in one of their initial states.
Init ==
  /\ seen \in {"graph", "pipeline", "children", "rebuilds", "plans", "lanes"}
  /\ AgentInit /\ (seen \in {"graph", "plans", "lanes"} => image.there)
  /\ LanesInit /\ source = CHOOSE s \in Sources : TRUE
  /\ GraphInit /\ (~Sees("graph") => wf = CHOOSE w \in Workflows : TRUE)
Walks == Sees("graph") /\ GraphNext /\ UNCHANGED <<seen, agentVars, laneVars>>
Next ==
  \/ Walks
  \/ Sees("pipeline") /\ (Using({"config"}) \/ PipelineNext) /\ UNCHANGED <<seen, graphVars, laneVars>>
  \/ Sees("children") /\ (Using({"config"}) \/ RoleNext \/ ChildNext) /\ UNCHANGED <<seen, graphVars, laneVars>>
  \/ Sees("rebuilds") /\ (Using(Rebuilds) \/ RoleNext) /\ UNCHANGED <<seen, graphVars, laneVars>>
  \/ Sees("plans") /\ Planning /\ UNCHANGED <<seen, graphVars, agentVars>>
  \/ Sees("lanes") /\ Processing /\ UNCHANGED <<seen, graphVars, agentVars>>

\* In the graph every handler and hook answers, and every continuation runs.
Spec == Init /\ [][Next]_vars /\ WF_vars(Walks) /\ AgentFairness

\* A failure in the graph reaches its root, and nothing goes on behind it.
NothingIsSwallowed == GraphTypeOK /\ NothingOutlivesItsNode /\ FailuresReachTheRoot

\* The executor's call returns, also for needs in a cycle and for refs in a cycle.
GraphReturns == Sees("graph") => Returns

\* Whoever called the executor, a pipeline, a role or a build gets an answer.
EveryCallEnds == GraphReturns /\ CallsEnd
=============================================================================
