--------------------------- MODULE MasakariRecovery ---------------------------
(***************************************************************************)
(* The host failure recovery of Masakari with the Ironic fence.            *)
(*                                                                         *)
(* The flow is set in etc/kolla/config/masakari/masakari-engine.conf: the  *)
(* compute service is disabled, ironic_fence powers the host off and must  *)
(* see it off, then the instances are prepared and evacuated.  The engine  *)
(* that receives notifications and runs the flow is Masakari's own; the    *)
(* fence is the repository's IronicFenceTask.  It does not know the Redis  *)
(* lock of the planned workflows.                                          *)
(***************************************************************************)
EXTENDS Naturals, Cloud

CONSTANTS
  FenceAttempts,   \* polls of the fence
  StableOff        \* stable_off_observations

ASSUME FenceAttemptsAssumption == FenceAttempts \in Nat \ {0}
ASSUME StableOffAssumption     == StableOff \in Nat /\ StableOff >= 2

VARIABLES
  flow,      \* the task of the recovery flow
  fpolls,    \* polls that the fence has made
  fstable    \* consecutive observations of "power off"

recovery == <<flow, fpolls, fstable>>

\* "ironic_fence" reads the node, "fence_send" sends the power off and
\* "fence_poll" waits for it.
FlowTasks == {"disable_compute_service", "ironic_fence", "fence_send",
              "fence_poll", "prepare", "evacuate"}

Recovering == flow \in FlowTasks

RecoveryTypeOK ==
  /\ flow \in FlowTasks \cup {"none", "finished", "error"}
  /\ fpolls \in Nat
  /\ fstable \in Nat

RecoveryInit ==
  /\ flow = "none"
  /\ fpolls = 0
  /\ fstable = 0

Flow(t) ==
  /\ flow' = t
  /\ fpolls' = 0
  /\ fstable' = 0

\* A failure notification is accepted, unless the host is on maintenance;
\* Masakari puts the host on maintenance itself before it runs the flow.
Notified ==
  /\ flow \in {"none", "finished"}
  /\ ~maintenance
  /\ maintenance' = TRUE
  /\ Flow("disable_compute_service")
  /\ UNCHANGED <<node, nova, servers, late>>

\* The engine takes a notification that ended in error up again.
Retried ==
  /\ flow = "error"
  /\ Flow("disable_compute_service")
  /\ UNCHANGED cloud

\* A task of the flow raises: nothing is reverted that would touch the host,
\* in particular the power stays as it is.
FlowFails ==
  /\ CallsMayFail
  /\ Recovering
  /\ Flow("error")
  /\ UNCHANGED cloud

DisableComputeService ==
  /\ flow = "disable_compute_service"
  /\ nova' = [nova EXCEPT !.status = "disabled"]
  /\ Flow("ironic_fence")
  /\ UNCHANGED <<node, maintenance, servers, late>>

\* IronicFenceTask.execute, up to the request: the exact node, a conflicting
\* target, and whether a power off must be sent.
FenceReads ==
  /\ flow = "ironic_fence"
  /\ Flow(IF "ironic" \notin Mapped \/ FenceConflict(node) THEN "error"
          ELSE IF FenceMustSend(node) THEN "fence_send" ELSE "fence_poll")
  /\ UNCHANGED cloud

\* set_node_power_state "power off"; Ironic refuses it on a busy node.
FenceSends ==
  /\ flow = "fence_send"
  /\ IF NodeAccepts
     THEN /\ node' = NodeWithTarget("power off")
          /\ \E r \in Replies : Flow(IF r = "ok" THEN "fence_poll" ELSE "error")
     ELSE Flow("error") /\ UNCHANGED node
  /\ UNCHANGED <<nova, maintenance, servers, late>>

\* Mutant: the attempts are not counted.
FencePollsForEver ==
  /\ flow = "fence_poll"
  /\ LET v == PollFence(node, fstable, FALSE, StableOff)
     IN  IF v = "again"
         THEN /\ fstable' = StableAfter(node, "power off", fstable)
              /\ UNCHANGED <<flow, fpolls>>
         ELSE Flow(IF v = "ok" THEN "prepare" ELSE "error")
  /\ UNCHANGED cloud

\* One poll of IronicFenceTask.execute.
FencePolls ==
  /\ flow = "fence_poll"
  /\ LET v == PollFence(node, fstable, fpolls + 1 = FenceAttempts, StableOff)
     IN  IF v = "again"
         THEN /\ fpolls' = fpolls + 1
              /\ fstable' = StableAfter(node, "power off", fstable)
              /\ UNCHANGED flow
         ELSE Flow(IF v = "ok" THEN "prepare" ELSE "error")
  /\ UNCHANGED cloud

PrepareInstances ==
  /\ flow = "prepare"
  /\ Flow("evacuate")
  /\ UNCHANGED cloud

\* The servers of the host are rebuilt on other hosts.
EvacuateInstances ==
  /\ flow = "evacuate"
  /\ servers' = [s \in Servers |-> IF s \in OnHost THEN "AWAY" ELSE servers[s]]
  /\ Flow("finished")
  /\ UNCHANGED <<node, nova, maintenance, late>>

FlowStep ==
  \/ FlowFails \/ DisableComputeService \/ FenceReads \/ FenceSends
  \/ FencePolls \/ PrepareInstances \/ EvacuateInstances

RecoveryStep == Notified \/ Retried \/ FlowStep
=============================================================================
