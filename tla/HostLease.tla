------------------------------ MODULE HostLease -------------------------------
(***************************************************************************)
(* The host operation lock of the planned power workflows, with time.      *)
(*                                                                         *)
(* Every planned workflow takes the Redis key powerops:host:<host> with    *)
(* SET NX PX, renews it once and deletes it at the end.  Nothing renews it *)
(* while a task polls, so the key is a lease: it protects the host only as *)
(* long as the tasks between two renewals fit into its time to live.  This *)
(* module keeps of a task only its Redis command, its outcome and the time *)
(* it takes, and asks whether two executions can ever act on the same host *)
(* at the same time.                                                       *)
(***************************************************************************)
EXTENDS Integers, Workbook

CONSTANTS
  Execs,    \* workflow executions (the lock owner is the execution id)
  NoOne,    \* the owner of an absent key
  TTL,      \* time to live of the key, in units of time
  Budget    \* Budget[t]: the longest time that task t takes

ASSUME NoOneAssumption  == NoOne \notin Execs
ASSUME TTLAssumption    == TTL \in Nat \ {0}
ASSUME BudgetAssumption == Budget \in [Tasks -> Nat]

VARIABLES
  key,      \* the Redis key: its owner and what is left of its TTL
  wf,       \* the workflow of each execution
  pc,       \* the task that each execution is running
  result,   \* "none" until the command of the task ran, then its outcome
  elapsed   \* the time each execution has spent in its task

vars == <<key, wf, pc, result, elapsed>>

Running(e) == pc[e] \in Tasks

Absent == [owner |-> NoOne, ttl |-> 0]

TypeOK ==
  /\ key \in [owner : Execs \cup {NoOne}, ttl : -1 .. TTL]
  /\ wf \in [Execs -> Workflows]
  /\ pc \in [Execs -> Tasks \cup Finished \cup {"idle", "LOST"}]
  /\ result \in [Execs -> {"none", "ok", "error"}]
  /\ elapsed \in [Execs -> Nat]

Init ==
  /\ key = Absent
  /\ wf \in [Execs -> Workflows]
  /\ pc = [e \in Execs |-> "idle"]
  /\ result = [e \in Execs |-> "none"]
  /\ elapsed = [e \in Execs |-> 0]

-----------------------------------------------------------------------------
(***************************************************************************)
(* The Redis commands of RedisHostLock.  Each is one atomic command or one *)
(* script, applied to the key; the value is the key afterwards and the     *)
(* truth value that the action tests.                                      *)
(***************************************************************************)

\* Mutant: SET without NX overwrites the key of another execution.
AcquireWithoutNX(e) == [key |-> [owner |-> e, ttl |-> TTL], ok |-> TRUE]

\* Mutant: the milliseconds of the TTL are given to Redis as seconds.
AcquireTooLong(e) ==
  IF key.owner = NoOne
  THEN [key |-> [owner |-> e, ttl |-> 1000 * TTL], ok |-> TRUE]
  ELSE [key |-> key, ok |-> FALSE]

\* Mutant: SET without PX makes a key that never expires.
AcquireWithoutPX(e) ==
  IF key.owner = NoOne
  THEN [key |-> [owner |-> e, ttl |-> -1], ok |-> TRUE]
  ELSE [key |-> key, ok |-> FALSE]

\* Mutant: the refresh checks the owner and leaves the TTL alone.
RefreshKeepsTtl(e) == [key |-> key, ok |-> key.owner = e]

\* SET key owner NX PX ttl_ms
Acquire(e) ==
  IF key.owner = NoOne
  THEN [key |-> [owner |-> e, ttl |-> TTL], ok |-> TRUE]
  ELSE [key |-> key, ok |-> FALSE]

\* REFRESH_SCRIPT: PEXPIRE only if the key still has this owner.
Refresh(e) ==
  IF key.owner = e
  THEN [key |-> [owner |-> e, ttl |-> TTL], ok |-> TRUE]
  ELSE [key |-> key, ok |-> FALSE]

\* RELEASE_SCRIPT: DEL only if the key still has this owner.
Release(e) ==
  IF key.owner = e
  THEN [key |-> Absent, ok |-> TRUE]
  ELSE [key |-> key, ok |-> FALSE]

Command(e) ==
  CASE pc[e] = "acquire_lock" -> Acquire(e)
    [] pc[e] = "refresh_lock" -> Refresh(e)
    [] OTHER                  -> Release(e)

-----------------------------------------------------------------------------
(***************************************************************************)
(* The steps of an execution.                                              *)
(***************************************************************************)

\* A workflow is started: its first task is acquire_lock.
Start(e) ==
  /\ pc[e] = "idle"
  /\ pc' = [pc EXCEPT ![e] = "acquire_lock"]
  /\ UNCHANGED <<key, wf, result, elapsed>>

\* The command of a lock task reaches Redis.  A command that returned false
\* is an error of the task; the answer of one that was applied may be lost.
LockCommand(e) ==
  /\ pc[e] \in LockTasks
  /\ result[e] = "none"
  /\ key' = Command(e).key
  /\ \E r \in {"ok", "error"} :
       /\ r = "ok" => Command(e).ok
       /\ result' = [result EXCEPT ![e] = r]
  /\ UNCHANGED <<wf, pc, elapsed>>

\* The command never reaches Redis, and the task fails.
LockCommandLost(e) ==
  /\ pc[e] \in LockTasks
  /\ result[e] = "none"
  /\ result' = [result EXCEPT ![e] = "error"]
  /\ UNCHANGED <<key, wf, pc, elapsed>>

\* Any other task comes to its outcome.
Work(e) ==
  /\ pc[e] \in Tasks \ LockTasks
  /\ result[e] = "none"
  /\ \E r \in {"ok", "error"} : result' = [result EXCEPT ![e] = r]
  /\ UNCHANGED <<key, wf, pc, elapsed>>

\* Mutant: a failed task pauses the workflow.
AdvancePausesOnError(e) ==
  /\ Running(e)
  /\ result[e] = "ok"
  /\ pc' = [pc EXCEPT ![e] = OnSuccess(wf[e], pc[e])]
  /\ result' = [result EXCEPT ![e] = "none"]
  /\ elapsed' = [elapsed EXCEPT ![e] = 0]
  /\ UNCHANGED <<key, wf>>

\* The engine receives the outcome of a task and starts the next one.
Advance(e) ==
  /\ Running(e)
  /\ result[e] # "none"
  /\ pc' = [pc EXCEPT ![e] = IF result[e] = "ok" THEN OnSuccess(wf[e], pc[e])
                                                 ELSE OnError(pc[e])]
  /\ result' = [result EXCEPT ![e] = "none"]
  /\ elapsed' = [elapsed EXCEPT ![e] = 0]
  /\ UNCHANGED <<key, wf>>

\* The engine or the executor goes away for good in the middle of a task.
Crash(e) ==
  /\ Running(e)
  /\ pc' = [pc EXCEPT ![e] = "LOST"]
  /\ result' = [result EXCEPT ![e] = "none"]
  /\ elapsed' = [elapsed EXCEPT ![e] = 0]
  /\ UNCHANGED <<key, wf>>

\* One unit of time passes.  No task outlasts its budget; Redis drops the key
\* when nothing is left of its time to live, and a key without one stays.
Tick ==
  /\ key.ttl > 0 \/ \E e \in Execs : Running(e)
  /\ \A e \in Execs : Running(e) => elapsed[e] < Budget[pc[e]]
  /\ elapsed' = [e \in Execs |-> IF Running(e) THEN elapsed[e] + 1
                                               ELSE elapsed[e]]
  /\ key' = IF key.ttl = 1 THEN Absent
            ELSE IF key.ttl > 1 THEN [key EXCEPT !.ttl = key.ttl - 1]
            ELSE key
  /\ UNCHANGED <<wf, pc, result>>

ExecStep(e) == LockCommand(e) \/ LockCommandLost(e) \/ Work(e) \/ Advance(e)

Next ==
  \/ Tick
  \/ \E e \in Execs : Start(e) \/ ExecStep(e) \/ Crash(e)

\* Mistral goes on with an execution that has not crashed, and time passes.
Fairness == WF_vars(Tick) /\ \A e \in Execs : WF_vars(ExecStep(e))

Spec == Init /\ [][Next]_vars /\ Fairness

-----------------------------------------------------------------------------
(***************************************************************************)
(* When the lease is long enough.                                          *)
(***************************************************************************)

\* need[w][t] bounds the time from the start of task t to the moment when the
\* lease is renewed or given back, whatever fails on the way.
BoundsNeed(need) ==
  /\ need \in [Workflows -> [Tasks -> Nat]]
  /\ \A w \in Workflows :
       /\ \A t \in ProtectedTasks \cup {"acquire_lock"} :
            LET u == OnError(t) IN
            IF u \in Tasks THEN need[w][t] >= Budget[t] + need[w][u]
                           ELSE need[w][t] >= Budget[t]
       /\ \A t \in (ProtectedTasks \cup {"acquire_lock"}) \ {"refresh_lock"} :
            need[w][t] >= Budget[t] + need[w][OnSuccess(w, t)]
       /\ \A t \in {"release_lock", "release_lock_error"} :
            need[w][t] >= Budget[t]

\* A fresh lease outlasts everything up to the renewal, and a renewed one
\* everything that follows it.
LeaseCovers(need) ==
  /\ BoundsNeed(need)
  /\ \A w \in Workflows :
       /\ TTL > need[w]["acquire_lock"]
       /\ TTL > Budget["refresh_lock"] + need[w]["fail_safe_host"]
       /\ TTL > Budget["refresh_lock"] + need[w]["assert_host_safe"]

\* The same condition in terms of the tasks alone: the way out of service up to the
\* renewal or to a failure, the power off, and the return, which may still fail.
FailTime ==
  Budget["fail_safe_host"] + Budget["audit_failure"] + Budget["release_lock_error"]

OutTime ==
  Budget["maintenance_on"] + Budget["nova_disable"] + Budget["drain_instances"]
    + Budget["refresh_lock"]

OffTime == Budget["assert_host_safe"] + Budget["request_off"] + Budget["wait_off"]

ReturnTime ==
  Budget["request_on"] + Budget["wait_on"] + Budget["wait_nova"]
    + Budget["verify_host_return"] + Budget["nova_enable"] + Budget["maintenance_off"]
    + Budget["audit_success"] + Budget["release_lock"] + FailTime

LeaseFits ==
  /\ TTL > Budget["acquire_lock"] + Budget["resolve"] + OutTime + FailTime
  /\ TTL > Budget["acquire_lock"] + Budget["resolve"] + ReturnTime
  /\ TTL > Budget["refresh_lock"] + OffTime + ReturnTime

-----------------------------------------------------------------------------
(***************************************************************************)
(* Properties.                                                             *)
(***************************************************************************)

\* Two executions never act on the same host at the same time: at most one
\* is in a task that the lock of acquire_lock protects.
MutualExclusion ==
  \A e, f \in Execs :
    pc[e] \in ProtectedTasks /\ pc[f] \in ProtectedTasks => e = f

\* An execution that acts on the host owns the key, so refresh_lock never
\* finds that the ownership was lost.
HolderOwnsKey == \A e \in Execs : pc[e] \in ProtectedTasks => key.owner = e

\* The key with its time to live is a lock that never lapses: whatever crashes and
\* whichever answers are lost, it changes hands only while nobody acts.
Lock == INSTANCE HostLock
          WITH owner <- key.owner, MayLapse <- FALSE,
               acting <- {e \in Execs : pc[e] \in ProtectedTasks}

ImplementsHostLock == Lock!Spec

\* Every started execution comes to an end, whatever fails on the way.
ExecutionEnds ==
  \A e \in Execs : Running(e) ~> ~Running(e)

\* A lock is always given back: by its owner, or by its time to live when the
\* owner crashed or never learned that it had the lock.
LockEventuallyFree ==
  \A e \in Execs : key.owner = e ~> key.owner # e
=============================================================================
