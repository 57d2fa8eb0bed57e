------------------------------- MODULE Workbook -------------------------------
(***************************************************************************)
(* The three mutating workflows of the Mistral workbook power_ops          *)
(* (src/mistral/workbooks/power-ops.yaml) as data: which task the engine   *)
(* runs after a task that succeeded and after a task that failed.  Tasks   *)
(* keep the names of the workbook.  The fourth workflow, host_power_status,*)
(* has one read-only task and takes no lock.                               *)
(***************************************************************************)

Workflows == {"planned_power_off", "planned_reboot", "power_on_and_return"}

\* The tasks of the failure path.  Each runs whatever became of the one
\* before it ("on-complete").
FailureTasks == {"fail_safe_host", "audit_failure", "release_lock_error"}

\* The tasks whose action talks to Redis.
LockTasks == {"acquire_lock", "refresh_lock", "release_lock",
              "release_lock_error"}

\* The tasks an execution may only run while it owns the lock of its host.
ProtectedTasks ==
  {"resolve", "maintenance_on", "nova_disable", "drain_instances",
   "refresh_lock", "assert_host_safe", "request_off", "wait_off",
   "request_on", "wait_on", "wait_nova", "verify_host_return",
   "nova_enable", "maintenance_off", "audit_success",
   "fail_safe_host", "audit_failure"}

Tasks == ProtectedTasks \cup {"acquire_lock", "release_lock",
                              "release_lock_error"}

Finished == {"SUCCESS", "ERROR"}

-----------------------------------------------------------------------------
\* on-success of the tasks that every workflow follows in the same way, and
\* on-complete of the failure path.  "fail" is the engine command that ends
\* the workflow in ERROR.
CommonSuccessor ==
  [acquire_lock       |-> "resolve",
   maintenance_on     |-> "nova_disable",
   nova_disable       |-> "drain_instances",
   drain_instances    |-> "refresh_lock",
   refresh_lock       |-> "assert_host_safe",
   assert_host_safe   |-> "request_off",
   request_off        |-> "wait_off",
   request_on         |-> "wait_on",
   wait_on            |-> "wait_nova",
   wait_nova          |-> "verify_host_return",
   verify_host_return |-> "nova_enable",
   nova_enable        |-> "maintenance_off",
   maintenance_off    |-> "audit_success",
   audit_success      |-> "release_lock",
   release_lock       |-> "SUCCESS",
   fail_safe_host     |-> "audit_failure",
   audit_failure      |-> "release_lock_error",
   release_lock_error |-> "ERROR"]

\* Mutant: the workflow goes on without setting the Masakari maintenance.
AfterResolveWithoutMaintenance(w) ==
  IF w = "power_on_and_return" THEN "request_on" ELSE "nova_disable"

\* Mutant: the workflow goes on with a task that it does not have.
AfterWaitOffUndefined(w) ==
  IF w = "planned_power_off" THEN "audit_success" ELSE "power_on"

\* The workflows part in two places: power_on_and_return does not take the
\* host out of service first, planned_power_off does not power it on again.
AfterResolve(w) ==
  IF w = "power_on_and_return" THEN "request_on" ELSE "maintenance_on"

AfterWaitOff(w) ==
  IF w = "planned_power_off" THEN "audit_success" ELSE "request_on"

\* Mutant: the fail-safe task is retried on error instead of being followed
\* by the audit whatever happens.
OnErrorRetriesFailSafe(t) ==
  CASE t \in {"acquire_lock", "release_lock"}           -> "ERROR"
    [] t \in {"audit_failure", "release_lock_error"}    -> CommonSuccessor[t]
    [] OTHER                                            -> "fail_safe_host"

\* The task that the engine runs when t succeeded in workflow w.
OnSuccess(w, t) ==
  CASE t = "resolve"  -> AfterResolve(w)
    [] t = "wait_off" -> AfterWaitOff(w)
    [] OTHER          -> CommonSuccessor[t]

\* The task that the engine runs when t failed, the same in every workflow.
\* release_lock has no handler: its error ends the workflow in ERROR.
OnError(t) ==
  CASE t \in {"acquire_lock", "release_lock"} -> "ERROR"
    [] t \in FailureTasks                     -> CommonSuccessor[t]
    [] OTHER                                  -> "fail_safe_host"
=============================================================================
