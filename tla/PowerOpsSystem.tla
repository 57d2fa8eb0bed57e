---------------------------- MODULE PowerOpsSystem ----------------------------
(***************************************************************************)
(* Planned workflows and failure recovery on the same host.                *)
(*                                                                         *)
(* Mistral and Masakari share the services of module Cloud and nothing     *)
(* else: the Redis lock only excludes planned workflows from each other.   *)
(* What keeps the two apart is Masakari's maintenance flag, which a planned*)
(* workflow sets before it touches the host, and the power state itself.   *)
(***************************************************************************)
EXTENDS MistralPowerOps, MasakariRecovery

VARIABLE
  powerOn   \* history: a power on was pending since the fence began to count
            \* observations of "power off"

system == <<mistral, cloud, recovery, powerOn>>

SystemTypeOK == TypeOK /\ RecoveryTypeOK /\ powerOn \in BOOLEAN

SystemInit == Init /\ RecoveryInit /\ powerOn = FALSE

\* The history variable starts anew whenever the fence does: with a flow, and
\* with every observation of a host that is not off.
Remember ==
  powerOn' = \/ node'.target_power_state = "power on"
             \/ powerOn /\ (fstable' # 0 \/ flow' \in {"prepare", "evacuate"})

SystemNext ==
  /\ \/ MistralStep /\ UNCHANGED recovery
     \/ RecoveryStep /\ UNCHANGED mistral
     \/ CloudStep /\ UNCHANGED <<mistral, recovery>>
  /\ Remember

\* Besides what Mistral and Redis do, Masakari goes on with a started flow.
SystemFairness ==
  /\ WF_system(FlowStep /\ UNCHANGED mistral /\ Remember)
  /\ \A e \in Execs : WF_system(ExecStep(e) /\ UNCHANGED recovery /\ Remember)

SystemSpec == SystemInit /\ [][SystemNext]_system /\ SystemFairness

-----------------------------------------------------------------------------
(***************************************************************************)
(* Properties.                                                             *)
(***************************************************************************)

\* Instances are prepared and evacuated only from a host that is off and not
\* about to be switched on, also when a planned workflow switched it on while
\* the fence was waiting.  Excepted is a power on that was pending after the
\* first of the observations that confirmed the fence: as long as the host is
\* still off neither the fence nor the evacuation would notice.
EvacuationIsFenced ==
  flow \in {"prepare", "evacuate"} /\ ~powerOn =>
    /\ node.power_state = "power off"
    /\ node.target_power_state # "power on"

\* A planned workflow hides its host from new failures: between draining the
\* host and returning it, the only recovery that may start is the retry of one
\* that ended in error.  Masakari looks at the maintenance flag when a failure
\* is notified, not when it takes the notification up again; a recovery that
\* failed before the planned work began may therefore run in its midst.
PlannedWorkHidesHost ==
  [][~Recovering /\ Recovering' =>
       \/ Retried
       \/ \A e \in Execs :
            pc[e] \in AwayFromService /\ trusted[e] =>
              wf[e] = "power_on_and_return"]_system

\* Every recovery comes to an end: the fence polls a bounded number of times.
RecoveryEnds == Recovering ~> ~Recovering
=============================================================================
