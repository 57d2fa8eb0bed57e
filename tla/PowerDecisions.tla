---------------------------- MODULE PowerDecisions ----------------------------
(***************************************************************************)
(* What PowerOperations and IronicFenceTask decide from what they read, as *)
(* operators without state.  A node is a record with the fields the code   *)
(* reads; NoTarget stands for a target_power_state that is absent.         *)
(***************************************************************************)
EXTENDS Naturals

NoTarget == "no target"

PowerStates == {"power on", "power off"}

\* The targets that the workbook and the fence ask for.
PowerTargets == {"power on", "power off", "soft power off"}

Policies == {"require_empty", "live_migrate", "stop"}

Pending(n) == n.target_power_state # NoTarget

\* The target that is sent to Ironic: a soft request has a name of its own.
EffectiveTarget(target, soft) ==
  IF soft /\ target = "power off" THEN "soft power off" ELSE target

-----------------------------------------------------------------------------
(***************************************************************************)
(* request_power                                                           *)
(***************************************************************************)

\* Nothing to do, a conflict, or a request to send.
RequestPower(n, target, soft) ==
  CASE \/ n.power_state = target
       \/ n.target_power_state = EffectiveTarget(target, soft) -> "done"
    [] n.power_state # target /\ Pending(n)
       /\ n.target_power_state # EffectiveTarget(target, soft) -> "conflict"
    [] OTHER -> "set"

-----------------------------------------------------------------------------
(***************************************************************************)
(* One poll of wait_power and of the fence: "error" ends the task, "ok" is *)
(* its success, "again" sleeps and polls again.                            *)
(***************************************************************************)

CompatiblePending(target) ==
  IF target = "power off" THEN {target, "soft power off"} ELSE {target}

StableAfter(n, target, stable) ==
  IF n.power_state = target THEN stable + 1 ELSE 0

\* Mutant: a node that has the target pending counts as having reached it.
PollAcceptsPending(n, target, stable, last, needed) ==
  CASE n.last_error -> "error"
    [] n.target_power_state = target -> "ok"
    [] OTHER -> IF StableAfter(n, target, stable) >= needed THEN "ok"
                ELSE IF last THEN "error" ELSE "again"

\* last: this is the last attempt; needed: the stable observations required.
PollPower(n, target, stable, last, needed) ==
  CASE n.last_error -> "error"
    [] /\ ~n.last_error /\ Pending(n)
       /\ n.target_power_state \notin CompatiblePending(target)
       /\ n.power_state # target -> "error"
    [] OTHER -> IF StableAfter(n, target, stable) >= needed THEN "ok"
                ELSE IF last THEN "error" ELSE "again"

\* IronicFenceTask accepts only its own, hard, power off as pending.
FenceConflict(n) ==
  /\ Pending(n)
  /\ n.target_power_state # "power off"
  /\ n.power_state # "power off"

FenceMustSend(n) ==
  /\ n.power_state # "power off"
  /\ n.target_power_state # "power off"

\* Mutant: the fence is confirmed once Ironic has accepted the power off.
PollFenceAcceptsPending(n, stable, last, needed) ==
  CASE n.last_error \/ FenceConflict(n) -> "error"
    [] n.target_power_state = "power off" -> "ok"
    [] OTHER -> IF StableAfter(n, "power off", stable) >= needed THEN "ok"
                ELSE IF last THEN "error" ELSE "again"

PollFence(n, stable, last, needed) ==
  CASE n.last_error \/ FenceConflict(n) -> "error"
    [] OTHER -> IF StableAfter(n, "power off", stable) >= needed THEN "ok"
                ELSE IF last THEN "error" ELSE "again"

-----------------------------------------------------------------------------
(***************************************************************************)
(* Servers.  statuses is the set of the statuses of the servers that Nova  *)
(* reports on the host.                                                    *)
(***************************************************************************)

\* One poll of drain_host for the policies that wait.
PollDrain(policy, statuses, last) ==
  LET drained == IF policy = "stop" THEN statuses \subseteq {"SHUTOFF"}
                                    ELSE statuses = {}
  IN  CASE drained -> "ok"
        [] ~drained /\ "ERROR" \in statuses -> "error"
        [] OTHER -> IF last THEN "error" ELSE "again"

\* Mutant: allow_shutoff is not looked at, servers in any status may stay.
AssertAllowsAny(policy, statuses) == policy = "stop" \/ statuses = {}

\* assert_host_empty, with allow_shutoff for the policy "stop".
AssertHostEmpty(policy, statuses) ==
  \/ statuses = {}
  \/ policy = "stop" /\ statuses \subseteq {"SHUTOFF"}

\* verify_host_return.  The workbook's actions require no network agent.
VerifyHostReturn(n, state, checked) ==
  /\ checked
  /\ n.power_state = "power on"
  /\ state = "up"
=============================================================================
