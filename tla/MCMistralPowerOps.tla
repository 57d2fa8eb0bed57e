-------------------------- MODULE MCMistralPowerOps ---------------------------
(***************************************************************************)
(* MistralPowerOps for model checking.                                     *)
(***************************************************************************)
EXTENDS MistralPowerOps, TLC

\* Executions are interchangeable, and so are servers.
Symmetry == Permutations(Execs) \cup Permutations(Servers)

\* The inputs of an execution that has ended are not read any more, except
\* for the workflow that a successful one carried out.
LiveInputs ==
  [e \in Execs |->
     CASE Running(e)        -> <<wf[e], policy[e]>>
       [] pc[e] = "SUCCESS" -> <<wf[e], "ended">>
       [] OTHER             -> <<"ended", "ended">>]

View == <<owner, LiveInputs, pc, step, stable, history, cloud>>
=============================================================================
