------------------------ MODULE MCDeploymentPipeline ------------------------
EXTENDS DeploymentPipeline, TLC

Symmetry == Permutations(Deployments)

(* Two deployments, or a deployment and a rendering.                       *)
MCLoads ==
  {[executions |-> Deployments, timeouts |-> 1]}
    \cup {[executions |-> {d} \cup Renders, timeouts |-> 2] : d \in Deployments}

(* Without timeouts, only another request overwrites the path.             *)
MCOverwrite == {[executions |-> Execution, timeouts |-> 0]}
=============================================================================
