--------------------------- MODULE MistralPowerOps ----------------------------
(***************************************************************************)
(* The planned power workflows of Mistral on one compute host.             *)
(*                                                                         *)
(* Each execution runs the tasks of its workflow (module Workbook) one at  *)
(* a time; the action of a task reads and changes the services of module   *)
(* Cloud, one API call that matters at a time, and can fail before or      *)
(* after it took effect.  Executions exclude each other with the Redis     *)
(* lock.  Time is left to module HostLease: here a lease may expire at any *)
(* moment, and the executions that this can have disturbed are no longer   *)
(* trusted.                                                                *)
(***************************************************************************)
EXTENDS Naturals, Workbook, Cloud

CONSTANTS
  Execs,           \* workflow executions
  NoOne,           \* the owner of an absent lock
  DrainAttempts,   \* polls of drain_instances
  PowerAttempts,   \* polls of wait_off, wait_on and wait_nova
  Stable,          \* stable_observations
  LeaseMayLapse    \* the lock of a running execution may be lost

ASSUME ExecsAssumption    == NoOne \notin Execs
ASSUME AttemptsAssumption == DrainAttempts \in Nat \ {0}
                             /\ PowerAttempts \in Nat \ {0}
ASSUME StableAssumption   == Stable \in Nat /\ Stable >= 2
ASSUME LapseAssumption    == LeaseMayLapse \in BOOLEAN

VARIABLES
  owner,     \* the value of the Redis key of the host
  wf,        \* the workflow of each execution
  policy,    \* its input instance_policy
  pc,        \* its task
  step,      \* the calls (or polls) its task has made
  stable,    \* consecutive observations of the wanted power state
  last,      \* history: the execution that took the lock most recently
  trusted,   \* history: no lease has lapsed since the execution started
  safe       \* history: its fail_safe_host succeeded

engine == <<wf, policy, pc, step, stable>>
history == <<last, trusted, safe>>
mistral == <<owner, engine, history>>

Running(e) == pc[e] \in Tasks

MistralTypeOK ==
  /\ owner \in Execs \cup {NoOne}
  /\ wf \in [Execs -> Workflows]
  /\ policy \in [Execs -> Policies]
  /\ pc \in [Execs -> Tasks \cup Finished \cup {"idle"}]
  /\ step \in [Execs -> Nat]
  /\ stable \in [Execs -> Nat]
  /\ last \in Execs \cup {NoOne}
  /\ trusted \in [Execs -> BOOLEAN]
  /\ safe \in [Execs -> BOOLEAN]

MistralInit ==
  /\ owner = NoOne
  /\ wf = [e \in Execs |-> "planned_power_off"]
  /\ policy = [e \in Execs |-> "require_empty"]
  /\ pc = [e \in Execs |-> "idle"]
  /\ step = [e \in Execs |-> 0]
  /\ stable = [e \in Execs |-> 0]
  /\ last = NoOne
  /\ trusted = [e \in Execs |-> FALSE]
  /\ safe = [e \in Execs |-> FALSE]

-----------------------------------------------------------------------------
(***************************************************************************)
(* The engine.                                                             *)
(***************************************************************************)

\* The task of e ends with outcome r and the engine starts the next one.
EndTask(e, r) ==
  /\ pc' = [pc EXCEPT ![e] = IF r = "ok" THEN OnSuccess(wf[e], pc[e])
                                         ELSE OnError(pc[e])]
  /\ step' = [step EXCEPT ![e] = 0]
  /\ stable' = [stable EXCEPT ![e] = 0]
  /\ UNCHANGED <<wf, policy>>

\* The task of e goes on with its next call.
NextCall(e) ==
  /\ step' = [step EXCEPT ![e] = @ + 1]
  /\ UNCHANGED <<wf, policy, pc, stable>>

\* An operator starts a workflow.  An execution whose lock nobody can take
\* for its own any more stands for a new one, with an id of its own.
Start(e) ==
  /\ pc[e] \in Finished \cup {"idle"}
  /\ owner # e
  /\ \E w \in Workflows, p \in Policies :
       /\ w = "power_on_and_return" => p = "require_empty"
       /\ wf' = [wf EXCEPT ![e] = w]
       /\ policy' = [policy EXCEPT ![e] = p]
  /\ pc' = [pc EXCEPT ![e] = "acquire_lock"]
  /\ trusted' = [trusted EXCEPT ![e] =
                   \A f \in Execs : Running(f) => trusted[f]]
  /\ safe' = [safe EXCEPT ![e] = FALSE]
  /\ last' = IF last = e THEN NoOne ELSE last
  /\ UNCHANGED <<owner, step, stable, cloud>>

\* A task fails before it changed anything: an API or Redis is out of reach,
\* a lookup raises, or the executor is gone.
TaskFails(e) ==
  /\ CallsMayFail
  /\ Running(e)
  /\ EndTask(e, "error")
  /\ UNCHANGED <<owner, history, cloud>>

-----------------------------------------------------------------------------
(***************************************************************************)
(* The lock.                                                               *)
(***************************************************************************)

\* Mutant: SET without NX takes the lock of another execution.
AcquireAnyLock(e) ==
  /\ pc[e] = "acquire_lock"
  /\ owner' = e
  /\ last' = e
  /\ \E r \in Replies : EndTask(e, r)
  /\ UNCHANGED <<trusted, safe, cloud>>

\* acquire_host_lock: SET NX PX; the answer of a SET that worked may be lost.
AcquireHostLock(e) ==
  /\ pc[e] = "acquire_lock"
  /\ \/ /\ owner = NoOne
        /\ owner' = e
        /\ last' = e
        /\ \E r \in Replies : EndTask(e, r)
     \/ /\ owner # NoOne
        /\ EndTask(e, "error")
        /\ UNCHANGED <<owner, last>>
  /\ UNCHANGED <<trusted, safe, cloud>>

\* refresh_host_lock: an error when the lock is not this execution's.
RefreshHostLock(e) ==
  /\ pc[e] = "refresh_lock"
  /\ \E r \in Replies : EndTask(e, IF owner = e THEN r ELSE "error")
  /\ UNCHANGED <<owner, history, cloud>>

\* Mutant: the lock is deleted without asking whose it is.
ReleaseAnyLock(e) ==
  /\ pc[e] \in {"release_lock", "release_lock_error"}
  /\ owner' = NoOne
  /\ \E r \in Replies : EndTask(e, r)
  /\ UNCHANGED <<history, cloud>>

\* release_host_lock: deletes the lock only of this execution.
ReleaseHostLock(e) ==
  /\ pc[e] \in {"release_lock", "release_lock_error"}
  /\ owner' = IF owner = e THEN NoOne ELSE owner
  /\ \E r \in Replies : EndTask(e, IF owner = e THEN r ELSE "error")
  /\ UNCHANGED <<history, cloud>>

\* The time to live of a lock whose execution does not act any more is over.
OrphanExpires ==
  /\ owner \in Execs
  /\ ~Running(owner)
  /\ owner' = NoOne
  /\ UNCHANGED <<engine, history, cloud>>

\* The lock of an execution that is still acting is lost: its time to live is
\* over, or a Sentinel failover promoted a replica that never had it.
LeaseLapses ==
  /\ LeaseMayLapse
  /\ owner \in Execs
  /\ Running(owner)
  /\ owner' = NoOne
  /\ trusted' = [e \in Execs |-> FALSE]
  /\ UNCHANGED <<engine, last, safe, cloud>>

-----------------------------------------------------------------------------
(***************************************************************************)
(* The tasks that take the host out of service and drain it.               *)
(***************************************************************************)

\* resolve_host: exactly one Nova service, Ironic node and Masakari host.
ResolveHost(e) ==
  /\ pc[e] = "resolve"
  /\ EndTask(e, IF Lookups \subseteq Mapped THEN "ok" ELSE "error")
  /\ UNCHANGED <<owner, history, cloud>>

\* Mutant: enabled arrives as the text "false", which is true.
SetMaintenanceAlwaysOn(e) ==
  /\ pc[e] \in {"maintenance_on", "maintenance_off"}
  /\ maintenance' = TRUE
  /\ \E r \in Replies : EndTask(e, r)
  /\ UNCHANGED <<owner, history, node, nova, servers, late>>

\* set_masakari_maintenance
SetMasakariMaintenance(e) ==
  /\ pc[e] \in {"maintenance_on", "maintenance_off"}
  /\ IF "masakari" \in Mapped
     THEN /\ maintenance' = (pc[e] = "maintenance_on")
          /\ \E r \in Replies : EndTask(e, r)
     ELSE EndTask(e, "error") /\ UNCHANGED maintenance
  /\ UNCHANGED <<owner, history, node, nova, servers, late>>

NovaWithStatus(e) ==
  [nova EXCEPT !.status = IF pc[e] = "nova_enable" THEN "enabled" ELSE "disabled"]

\* set_nova_service
SetNovaService(e) ==
  /\ pc[e] \in {"nova_disable", "nova_enable"}
  /\ IF "nova" \in Mapped
     THEN /\ nova' = NovaWithStatus(e)
          /\ \E r \in Replies : EndTask(e, r)
     ELSE EndTask(e, "error") /\ UNCHANGED nova
  /\ UNCHANGED <<owner, history, node, maintenance, servers, late>>

\* drain_host, up to its first poll: list the servers and tell each of them
\* to leave or to stop.  A request that Nova refuses ends the task with the
\* servers before it already told.
DrainHost(e) ==
  /\ pc[e] = "drain_instances" /\ step[e] = 0
  /\ \/ /\ policy[e] = "require_empty"
        /\ EndTask(e, IF ServersOnHost = {} THEN "ok" ELSE "error")
        /\ UNCHANGED servers
     \/ /\ policy[e] # "require_empty"
        /\ \E S \in SUBSET Commandable(policy[e]) :
             /\ servers' = Commanded(policy[e], S)
             /\ \/ S = OnHost /\ NextCall(e)
                \/ /\ CallsMayFail \/ Commandable(policy[e]) # OnHost
                   /\ EndTask(e, "error")
  /\ UNCHANGED <<owner, history, node, nova, maintenance, late>>

\* One outcome of a poll: go on polling, or end the task.
Polled(e, verdict) ==
  IF verdict = "again" THEN NextCall(e) ELSE EndTask(e, verdict)

\* A poll of drain_host.
PollDrained(e) ==
  /\ pc[e] = "drain_instances" /\ step[e] > 0
  /\ Polled(e, PollDrain(policy[e], ServersOnHost, step[e] = DrainAttempts))
  /\ UNCHANGED <<owner, history, cloud>>

\* assert_host_empty
AssertHostSafe(e) ==
  /\ pc[e] = "assert_host_safe"
  /\ IF AssertHostEmpty(policy[e], ServersOnHost)
     THEN EndTask(e, "ok") /\ late' = {}
     ELSE EndTask(e, "error") /\ UNCHANGED late
  /\ UNCHANGED <<owner, history, node, nova, maintenance, servers>>

-----------------------------------------------------------------------------
(***************************************************************************)
(* The tasks that switch the power.                                        *)
(***************************************************************************)

Target(t) == IF t \in {"request_off", "wait_off"} THEN "power off" ELSE "power on"

Soft(t) == t = "request_off"

\* request_power, the read: decide what to do with the node as it is now.
ReadBeforePower(e) ==
  /\ pc[e] \in {"request_off", "request_on"} /\ step[e] = 0
  /\ LET d == RequestPower(node, Target(pc[e]), Soft(pc[e]))
     IN  IF "ironic" \notin Mapped \/ d = "conflict" THEN EndTask(e, "error")
         ELSE IF d = "done" THEN EndTask(e, "ok")
         ELSE NextCall(e)
  /\ UNCHANGED <<owner, history, cloud>>

\* request_power, the call: Ironic takes the target on, unless it has taken
\* on another one since the read.
SetNodePowerState(e) ==
  /\ pc[e] \in {"request_off", "request_on"} /\ step[e] = 1
  /\ IF NodeAccepts
     THEN /\ node' = NodeWithTarget(EffectiveTarget(Target(pc[e]), Soft(pc[e])))
          /\ \E r \in Replies : EndTask(e, r)
     ELSE EndTask(e, "error") /\ UNCHANGED node
  /\ UNCHANGED <<owner, history, nova, maintenance, servers, late>>

\* A poll of wait_power.
WaitPower(e) ==
  /\ pc[e] \in {"wait_off", "wait_on"}
  /\ LET v == IF "ironic" \notin Mapped THEN "error"
              ELSE PollPower(node, Target(pc[e]), stable[e],
                             step[e] + 1 = PowerAttempts, Stable)
     IN  IF v = "again"
         THEN /\ step' = [step EXCEPT ![e] = @ + 1]
              /\ stable' = [stable EXCEPT ![e] =
                              StableAfter(node, Target(pc[e]), stable[e])]
              /\ UNCHANGED <<wf, policy, pc>>
         ELSE EndTask(e, v)
  /\ UNCHANGED <<owner, history, cloud>>

-----------------------------------------------------------------------------
(***************************************************************************)
(* The tasks that return the host, and the failure path.                   *)
(***************************************************************************)

\* A poll of wait_nova_service.
WaitNovaService(e) ==
  /\ pc[e] = "wait_nova"
  /\ Polled(e, IF "nova" \notin Mapped THEN "error"
               ELSE IF nova.state = "up" THEN "ok"
               ELSE IF step[e] + 1 = PowerAttempts THEN "error" ELSE "again")
  /\ UNCHANGED <<owner, history, cloud>>

\* verify_host_return, with stale_domains_checked as the operator gave it.
VerifyReturn(e) ==
  /\ pc[e] = "verify_host_return"
  /\ \E checked \in BOOLEAN :
       EndTask(e, IF /\ {"nova", "ironic"} \subseteq Mapped
                     /\ VerifyHostReturn(node, nova.state, checked)
                  THEN "ok" ELSE "error")
  /\ UNCHANGED <<owner, history, cloud>>

\* audit_event only logs.
AuditEvent(e) ==
  /\ pc[e] \in {"audit_success", "audit_failure"}
  /\ EndTask(e, "ok")
  /\ UNCHANGED <<owner, history, cloud>>

\* fail_safe_host, its first half: disable the Nova service.
FailSafeNova(e) ==
  /\ pc[e] = "fail_safe_host" /\ step[e] = 0
  /\ IF "nova" \in Mapped
     THEN /\ nova' = [nova EXCEPT !.status = "disabled"]
          /\ \/ NextCall(e)
             \/ CallsMayFail /\ EndTask(e, "error")
     ELSE EndTask(e, "error") /\ UNCHANGED nova
  /\ UNCHANGED <<owner, history, node, maintenance, servers, late>>

\* Mutant: the second half reports success without setting the maintenance.
FailSafeWithoutMaintenance(e) ==
  /\ pc[e] = "fail_safe_host" /\ step[e] = 1
  /\ EndTask(e, "ok")
  /\ safe' = [safe EXCEPT ![e] = TRUE]
  /\ UNCHANGED <<owner, last, trusted, cloud>>

\* fail_safe_host, its second half: set the Masakari maintenance.
FailSafeMaintenance(e) ==
  /\ pc[e] = "fail_safe_host" /\ step[e] = 1
  /\ IF "masakari" \in Mapped
     THEN /\ maintenance' = TRUE
          /\ \E r \in Replies :
               /\ EndTask(e, r)
               /\ safe' = [safe EXCEPT ![e] = r = "ok"]
     ELSE EndTask(e, "error") /\ UNCHANGED <<maintenance, safe>>
  /\ UNCHANGED <<owner, last, trusted, node, nova, servers, late>>

-----------------------------------------------------------------------------

ExecStep(e) ==
  \/ AcquireHostLock(e) \/ RefreshHostLock(e) \/ ReleaseHostLock(e)
  \/ ResolveHost(e) \/ SetMasakariMaintenance(e) \/ SetNovaService(e)
  \/ DrainHost(e) \/ PollDrained(e) \/ AssertHostSafe(e)
  \/ ReadBeforePower(e) \/ SetNodePowerState(e) \/ WaitPower(e)
  \/ WaitNovaService(e) \/ VerifyReturn(e) \/ AuditEvent(e)
  \/ FailSafeNova(e) \/ FailSafeMaintenance(e)
  \/ TaskFails(e)

MistralStep ==
  \/ OrphanExpires \/ LeaseLapses
  \/ \E e \in Execs : Start(e) \/ ExecStep(e)

vars == <<mistral, cloud>>

Init == CloudInit /\ MistralInit

Next == MistralStep \/ (CloudStep /\ UNCHANGED mistral)

\* Mistral goes on with every execution, and Redis expires keys.
Fairness == WF_vars(OrphanExpires) /\ \A e \in Execs : WF_vars(ExecStep(e))

Spec == Init /\ [][Next]_vars /\ Fairness

TypeOK == CloudTypeOK /\ MistralTypeOK

-----------------------------------------------------------------------------
(***************************************************************************)
(* Properties.                                                             *)
(***************************************************************************)

\* As long as no lease has lapsed, at most one execution acts on the host.
MutualExclusion ==
  \A e, f \in Execs :
    /\ pc[e] \in ProtectedTasks /\ trusted[e]
    /\ pc[f] \in ProtectedTasks /\ trusted[f]
    => e = f

\* Between draining the host and returning it, a planned workflow has the
\* scheduler and Masakari kept away from it.
AwayFromService ==
  {"drain_instances", "refresh_lock", "assert_host_safe", "request_off",
   "wait_off", "request_on", "wait_on", "wait_nova", "verify_host_return",
   "nova_enable"}

PlannedOutOfService ==
  \A e \in Execs :
    /\ pc[e] \in AwayFromService
    /\ wf[e] # "power_on_and_return"
    /\ trusted[e]
    => OutOfService

\* The power off of a planned workflow reaches no guest that was running when
\* assert_host_safe looked: whoever runs now came or was started after that.
\* This holds even for executions that lost their lease.
PowerOffSparesGuests ==
  \A e \in Execs : pc[e] = "request_off" => RunningHere \subseteq late

\* An execution that failed and whose fail_safe_host went through leaves the
\* host disabled and on maintenance until the next execution takes the lock.
FailureLeavesHostOut ==
  \A e \in Execs :
    safe[e] /\ trusted[e] /\ last = e => OutOfService

\* planned_reboot puts the host back only when it is on with nothing pending,
\* however earlier executions left the node.
RebootReturnsPoweredHost ==
  \A e \in Execs :
    /\ wf[e] = "planned_reboot"
    /\ pc[e] \in {"wait_nova", "verify_host_return", "nova_enable",
                  "maintenance_off", "audit_success"}
    /\ trusted[e]
    => node.power_state = "power on" /\ ~Pending(node)

\* A finished workflow did what it is for: the host that was powered off is
\* out of service, the one that was returned is back in service.
SuccessMeansDone ==
  \A e \in Execs :
    pc[e] = "SUCCESS" /\ trusted[e] /\ last = e =>
      IF wf[e] = "planned_power_off" THEN OutOfService
      ELSE nova.status = "enabled" /\ ~maintenance

\* To the executions that no lapse has touched, acquire_lock gives an abstract lock:
\* it changes hands only while none of them acts on the host.
Lock == INSTANCE HostLock
          WITH MayLapse <- LeaseMayLapse,
               acting <- {e \in Execs : pc[e] \in ProtectedTasks /\ trusted[e]}

ImplementsHostLock == Lock!Spec

\* Nobody but its owner takes a lock away: a lock disappears in a step of its
\* owner, or by expiring, when no execution moves.
OwnerSafe ==
  [][\A f \in Execs :
       owner = f /\ owner' # f => pc' = pc \/ pc'[f] # pc[f]]_vars

\* An execution that ended in error leaves the host disabled and on
\* maintenance, whatever the error was.
ErrorLeavesHostOut ==
  \A e \in Execs :
    pc[e] = "ERROR" /\ trusted[e] /\ last = e => OutOfService

\* A host on which scheduling is about to be enabled is on and stays on.
ReturnsPoweredHost ==
  \A e \in Execs :
    pc[e] = "nova_enable" /\ trusted[e] =>
      node.power_state = "power on" /\ ~Pending(node)

\* Every execution ends: all waits are bounded and no error path loops.
ExecutionEnds == \A e \in Execs : Running(e) ~> ~Running(e)
=============================================================================
