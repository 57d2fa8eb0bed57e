--------------------------- MODULE HostLeaseProofs ----------------------------
(***************************************************************************)
(* Proofs about the host operation lease, for any number of executions,    *)
(* any time to live and any budgets of the tasks.                          *)
(*                                                                         *)
(* MutualExclusion is not inductive: that nobody else is in a protected    *)
(* task follows from owning the key, and that the key has not expired from *)
(* the time that is left of it.  The invariant LeaseOutlasts adds both: an *)
(* execution that holds the lease owns the key, and the key has more time  *)
(* left than the execution needs until it renews or releases it.           *)
(***************************************************************************)
EXTENDS HostLease, TLAPS

\* The transitions of the workbook stay among its tasks.
LEMMA WorkbookTypes ==
  /\ \A w \in Workflows, t \in Tasks : OnSuccess(w, t) \in Tasks \cup Finished
  /\ \A t \in Tasks : OnError(t) \in Tasks \cup Finished
BY DEF OnSuccess, OnError, Tasks, ProtectedTasks, Finished, Workflows,
       CommonSuccessor, AfterResolve, AfterWaitOff, FailureTasks

\* What a Redis command of the lock leaves behind is a key of the right type.
LEMMA CommandType ==
  ASSUME TypeOK, NEW e \in Execs
  PROVE  /\ Command(e).key \in [owner : Execs \cup {NoOne}, ttl : -1 .. TTL]
         /\ Command(e).ok \in BOOLEAN
BY TTLAssumption
   DEF Command, Acquire, Refresh, Release, Absent, TypeOK

\* Every state of the lease model is well typed: the workbook never sends an
\* execution to a task that does not exist, and the TTL stays in its range.
THEOREM TypeCorrect == Spec => []TypeOK
<1>1. Init => TypeOK
  BY TTLAssumption DEF Init, TypeOK, Absent, Finished
<1>2. TypeOK /\ [Next]_vars => TypeOK'
  <2> SUFFICES ASSUME TypeOK, [Next]_vars PROVE TypeOK'
    OBVIOUS
  <2>1. CASE Tick
    BY <2>1, TTLAssumption DEF Tick, TypeOK, Absent, Running
  <2>2. ASSUME NEW e \in Execs, Start(e) PROVE TypeOK'
    BY <2>2 DEF Start, TypeOK, Tasks
  <2>3. ASSUME NEW e \in Execs, LockCommand(e) PROVE TypeOK'
    <3>1. key' \in [owner : Execs \cup {NoOne}, ttl : -1 .. TTL]
      BY <2>3, CommandType DEF LockCommand
    <3> QED
      BY <2>3, <3>1 DEF LockCommand, TypeOK
  <2>4. ASSUME NEW e \in Execs, LockCommandLost(e) PROVE TypeOK'
    BY <2>4 DEF LockCommandLost, TypeOK
  <2>5. ASSUME NEW e \in Execs, Work(e) PROVE TypeOK'
    BY <2>5 DEF Work, TypeOK
  <2>6. ASSUME NEW e \in Execs, Advance(e) PROVE TypeOK'
    <3>1. OnSuccess(wf[e], pc[e]) \in Tasks \cup Finished
      BY <2>6, WorkbookTypes DEF Advance, Running, TypeOK
    <3>2. OnError(pc[e]) \in Tasks \cup Finished
      BY <2>6, WorkbookTypes DEF Advance, Running, TypeOK
    <3> QED
      BY <2>6, <3>1, <3>2 DEF Advance, TypeOK
  <2>7. ASSUME NEW e \in Execs, Crash(e) PROVE TypeOK'
    BY <2>7 DEF Crash, TypeOK
  <2>8. CASE UNCHANGED vars
    BY <2>8 DEF vars, TypeOK
  <2> QED
    BY <2>1, <2>2, <2>3, <2>4, <2>5, <2>6, <2>7, <2>8 DEF Next, ExecStep
<1> QED
  BY <1>1, <1>2, PTL DEF Spec

-----------------------------------------------------------------------------
(***************************************************************************)
(* The lease invariant.                                                    *)
(***************************************************************************)

\* The execution has the lease and has not given it back.
Holds(e) ==
  \/ pc[e] \in ProtectedTasks
  \/ pc[e] = "acquire_lock" /\ result[e] = "ok"
  \/ pc[e] \in {"release_lock", "release_lock_error"} /\ result[e] = "none"

\* The time that the execution may still take before it renews or releases.
Outstanding(need, e) ==
  CASE pc[e] = "refresh_lock" /\ result[e] = "ok"
         -> Budget["refresh_lock"] + need[wf[e]]["assert_host_safe"]
    [] pc[e] = "refresh_lock" /\ result[e] = "error"
         -> Budget["refresh_lock"] + need[wf[e]]["fail_safe_host"]
    [] OTHER -> need[wf[e]][pc[e]]

LeaseOutlasts(need) ==
  \A e \in Execs :
    /\ ~Running(e) => elapsed[e] = 0 /\ result[e] = "none"
    /\ Running(e) => elapsed[e] <= Budget[pc[e]]
    /\ Holds(e) => /\ key.owner = e
                   /\ key.ttl > Outstanding(need, e) - elapsed[e]

\* The successors of the protected tasks, and what they need.
LEMMA NeedOfSuccessor ==
  ASSUME NEW need, LeaseCovers(need), NEW w \in Workflows,
         NEW t \in ProtectedTasks \cup {"acquire_lock"}
  PROVE  /\ need[w][t] \in Nat
         /\ need[w][t] >= Budget[t]
         /\ OnSuccess(w, t) \in ProtectedTasks \cup {"release_lock", "release_lock_error"}
         /\ t # "acquire_lock" =>
              OnError(t) \in ProtectedTasks \cup {"release_lock_error"}
         /\ t # "refresh_lock" =>
              need[w][t] >= Budget[t] + need[w][OnSuccess(w, t)]
         /\ t # "acquire_lock" =>
              need[w][t] >= Budget[t] + need[w][OnError(t)]
<1>1. /\ t \in Tasks
      /\ Budget[t] \in Nat
      /\ \A u \in Tasks : need[w][u] \in Nat
  BY BudgetAssumption DEF LeaseCovers, BoundsNeed, Tasks
<1>2. OnSuccess(w, t) \in ProtectedTasks \cup {"release_lock", "release_lock_error"}
  BY DEF OnSuccess, ProtectedTasks, CommonSuccessor, AfterResolve,
         AfterWaitOff, Workflows
<1>3. t # "acquire_lock" =>
        OnError(t) \in ProtectedTasks \cup {"release_lock_error"}
  BY DEF OnError, ProtectedTasks, CommonSuccessor, FailureTasks
<1>4. t # "refresh_lock" =>
        need[w][t] >= Budget[t] + need[w][OnSuccess(w, t)]
  BY DEF LeaseCovers, BoundsNeed
<1>5. t # "acquire_lock" =>
        need[w][t] >= Budget[t] + need[w][OnError(t)]
  BY <1>3 DEF LeaseCovers, BoundsNeed, Tasks
<1>6. need[w][t] >= Budget[t]
  <2>1. CASE t = "refresh_lock"
    <3>1. OnError(t) \in Tasks
      BY <2>1, <1>3 DEF Tasks
    <3>2. need[w][OnError(t)] \in Nat /\ t # "acquire_lock"
      BY <2>1, <3>1, <1>1
    <3> QED
      BY <3>2, <1>1, <1>5
  <2>2. CASE t # "refresh_lock"
    <3>1. OnSuccess(w, t) \in Tasks
      BY <1>2 DEF Tasks
    <3> QED
      BY <2>2, <3>1, <1>1, <1>4
  <2> QED
    BY <2>1, <2>2
<1> QED
  BY <1>1, <1>2, <1>3, <1>4, <1>5, <1>6

\* Another execution's command leaves the key of the holder alone.
LEMMA CommandSparesHolder ==
  ASSUME TypeOK, NEW e \in Execs, NEW f \in Execs, e # f, key.owner = e
  PROVE  Command(f).key = key
<1>1. key.owner # NoOne /\ key.owner # f
  BY NoOneAssumption
<1> QED
  BY <1>1 DEF Command, Acquire, Refresh, Release

\* The lease of an execution always outlasts what the execution still has to
\* do before it renews or releases it, provided that the settings cover it.
THEOREM LeaseOutlastsWork ==
  ASSUME NEW need, LeaseCovers(need)
  PROVE  Spec => []LeaseOutlasts(need)
<1> DEFINE Inv == TypeOK /\ LeaseOutlasts(need)
<1>1. Init => LeaseOutlasts(need)
  BY DEF Init, LeaseOutlasts, Holds, Running, Tasks, ProtectedTasks
<1>2. Inv /\ [Next]_vars => LeaseOutlasts(need)'
  <2> SUFFICES ASSUME Inv, [Next]_vars, NEW e \in Execs
               PROVE  /\ ~Running(e)' => elapsed'[e] = 0 /\ result'[e] = "none"
                      /\ Running(e)' => elapsed'[e] <= Budget[pc'[e]]
                      /\ Holds(e)' =>
                           /\ key'.owner = e
                           /\ key'.ttl > Outstanding(need, e)' - elapsed'[e]
    BY DEF LeaseOutlasts
  <2> USE DEF Inv
  <2>1. CASE UNCHANGED vars
    BY <2>1 DEF vars, LeaseOutlasts, Holds, Running, Outstanding
  <2>2. CASE Tick
    <3>1. Running(e) => elapsed'[e] = elapsed[e] + 1 /\ elapsed[e] < Budget[pc[e]]
      BY <2>2 DEF Tick, TypeOK
    <3>2. Running(e)' => elapsed'[e] <= Budget[pc'[e]]
      BY <3>1, <2>2, BudgetAssumption DEF Tick, TypeOK, Running
    <3>3. ASSUME Holds(e)
          PROVE  key'.owner = e /\ key'.ttl > Outstanding(need, e) - elapsed'[e]
      <4>1. Running(e)
        BY <3>3 DEF Holds, Running, Tasks
      <4>2. Budget[pc[e]] \in Nat /\ elapsed[e] \in Nat /\ key.ttl \in Int
        BY <4>1, BudgetAssumption DEF TypeOK, Running
      <4>3. Outstanding(need, e) \in Nat /\ Outstanding(need, e) >= Budget[pc[e]]
        <5>1. wf[e] \in Workflows /\ pc[e] \in Tasks
          BY <4>1 DEF TypeOK, Running
        <5>2. CASE pc[e] \in ProtectedTasks \cup {"acquire_lock"}
          <6>1. /\ need[wf[e]][pc[e]] \in Nat
                /\ need[wf[e]][pc[e]] >= Budget[pc[e]]
            BY <5>1, <5>2, NeedOfSuccessor
          <6>2. /\ need[wf[e]]["assert_host_safe"] \in Nat
                /\ need[wf[e]]["fail_safe_host"] \in Nat
            BY <5>1 DEF LeaseCovers, BoundsNeed, Tasks, ProtectedTasks
          <6> QED
            BY <6>1, <6>2, <4>2 DEF Outstanding
        <5>3. CASE pc[e] \in {"release_lock", "release_lock_error"}
          BY <5>1, <5>3, <4>2 DEF Outstanding, LeaseCovers, BoundsNeed
        <5> QED
          BY <5>1, <5>2, <5>3 DEF Tasks
      <4>4. key.owner = e /\ key.ttl > Outstanding(need, e) - elapsed[e]
        BY <3>3 DEF LeaseOutlasts
      <4>5. key.ttl > 1
        BY <4>1, <4>2, <4>3, <4>4, <3>1
      <4>6. key'.owner = e /\ key'.ttl = key.ttl - 1
        BY <4>4, <4>5, <2>2 DEF Tick, TypeOK
      <4> QED
        BY <4>1, <4>2, <4>3, <4>4, <4>6, <3>1
    <3>4. ~Running(e)' => elapsed'[e] = 0 /\ result'[e] = "none"
      BY <2>2 DEF Tick, TypeOK, Running, LeaseOutlasts
    <3> QED
      BY <3>2, <3>3, <3>4, <2>2 DEF Tick, Holds, Outstanding
  <2>3. ASSUME NEW f \in Execs, f # e,
               Start(f) \/ ExecStep(f) \/ Crash(f)
        PROVE  /\ ~Running(e)' => elapsed'[e] = 0 /\ result'[e] = "none"
               /\ Running(e)' => elapsed'[e] <= Budget[pc'[e]]
               /\ Holds(e)' =>
                    /\ key'.owner = e
                    /\ key'.ttl > Outstanding(need, e)' - elapsed'[e]
    <3>1. /\ pc'[e] = pc[e] /\ result'[e] = result[e]
          /\ elapsed'[e] = elapsed[e] /\ wf'[e] = wf[e]
      BY <2>3 DEF Start, ExecStep, LockCommand, LockCommandLost, Work,
                  Advance, Crash, TypeOK
    <3>2. key.owner = e => key' = key
      <4>1. CASE LockCommand(f)
        BY <4>1, <2>3, CommandSparesHolder DEF LockCommand
      <4> QED
        BY <4>1, <2>3 DEF Start, ExecStep, LockCommandLost, Work, Advance, Crash
    <3> QED
      BY <3>1, <3>2 DEF LeaseOutlasts, Holds, Running, Outstanding
  <2> DEFINE Goal == /\ ~Running(e)' => elapsed'[e] = 0 /\ result'[e] = "none"
                     /\ Running(e)' => elapsed'[e] <= Budget[pc'[e]]
                     /\ Holds(e)' =>
                          /\ key'.owner = e
                          /\ key'.ttl > Outstanding(need, e)' - elapsed'[e]
  <2>4. CASE Start(e)
    <3>1. pc'[e] = "acquire_lock" /\ result'[e] = "none" /\ elapsed'[e] = 0
      BY <2>4 DEF Start, TypeOK, LeaseOutlasts, Running, Tasks, ProtectedTasks
    <3>2. ~Holds(e)' /\ Running(e)'
      BY <3>1 DEF Holds, Running, Tasks, ProtectedTasks
    <3>3. elapsed'[e] <= Budget[pc'[e]]
      BY <3>1, BudgetAssumption DEF Tasks
    <3> QED
      BY <3>2, <3>3
  <2>5. CASE LockCommand(e)
    <3>1. /\ pc'[e] = pc[e] /\ elapsed'[e] = elapsed[e] /\ wf'[e] = wf[e]
          /\ pc[e] \in LockTasks /\ result[e] = "none"
          /\ key' = Command(e).key
          /\ result'[e] \in {"ok", "error"}
          /\ result'[e] = "ok" => Command(e).ok
      BY <2>5 DEF LockCommand, TypeOK
    <3>2. Running(e) /\ Running(e)' /\ elapsed'[e] <= Budget[pc'[e]]
      BY <3>1 DEF Running, Tasks, LockTasks, LeaseOutlasts, ProtectedTasks
    <3>3. /\ wf[e] \in Workflows
          /\ elapsed[e] \in Nat
      BY DEF TypeOK
    <3>4. CASE pc[e] = "acquire_lock"
      <4>1. result'[e] = "ok" => key' = [owner |-> e, ttl |-> TTL]
        BY <3>1, <3>4 DEF Command, Acquire
      <4>2. Outstanding(need, e)' = need[wf[e]]["acquire_lock"]
        BY <3>1, <3>4 DEF Outstanding
      <4>3. /\ need[wf[e]]["acquire_lock"] \in Nat
            /\ TTL > need[wf[e]]["acquire_lock"]
        BY <3>3 DEF LeaseCovers, BoundsNeed, Tasks
      <4>4. result'[e] = "ok" => key'.ttl > Outstanding(need, e)' - elapsed'[e]
        BY <4>1, <4>2, <4>3, <3>1, <3>3, TTLAssumption
      <4> QED
        BY <3>1, <3>2, <3>4, <4>1, <4>4 DEF Holds, ProtectedTasks
    <3>5. CASE pc[e] = "refresh_lock"
      <4>1. key.owner = e
        BY <3>5 DEF LeaseOutlasts, Holds, ProtectedTasks
      <4>2. key' = [owner |-> e, ttl |-> TTL]
        BY <3>1, <3>5, <4>1 DEF Command, Refresh
      <4>3. /\ need[wf[e]]["assert_host_safe"] \in Nat
            /\ need[wf[e]]["fail_safe_host"] \in Nat
            /\ TTL > Budget["refresh_lock"] + need[wf[e]]["fail_safe_host"]
            /\ TTL > Budget["refresh_lock"] + need[wf[e]]["assert_host_safe"]
        BY <3>3 DEF LeaseCovers, BoundsNeed, Tasks, ProtectedTasks
      <4>4. Budget["refresh_lock"] \in Nat
        BY BudgetAssumption DEF Tasks, ProtectedTasks
      <4>5. \/ Outstanding(need, e)' =
                 Budget["refresh_lock"] + need[wf[e]]["assert_host_safe"]
            \/ Outstanding(need, e)' =
                 Budget["refresh_lock"] + need[wf[e]]["fail_safe_host"]
        BY <3>1, <3>5 DEF Outstanding
      <4>6. key'.ttl > Outstanding(need, e)' - elapsed'[e]
        BY <4>2, <4>3, <4>4, <4>5, <3>1, <3>3, TTLAssumption
      <4> QED
        BY <3>2, <4>2, <4>6
    <3>6. CASE pc[e] \in {"release_lock", "release_lock_error"}
      BY <3>1, <3>2, <3>6 DEF Holds, ProtectedTasks
    <3> QED
      BY <3>1, <3>4, <3>5, <3>6 DEF LockTasks
  <2>6. CASE LockCommandLost(e) \/ Work(e)
    <3>1. /\ pc'[e] = pc[e] /\ elapsed'[e] = elapsed[e] /\ wf'[e] = wf[e]
          /\ pc[e] \in Tasks /\ result[e] = "none"
          /\ key' = key
          /\ result'[e] \in {"ok", "error"}
          /\ pc[e] \in LockTasks => result'[e] = "error"
      BY <2>6 DEF LockCommandLost, Work, TypeOK, LockTasks, Tasks,
                  ProtectedTasks
    <3>2. Running(e) /\ Running(e)' /\ elapsed'[e] <= Budget[pc'[e]]
      BY <3>1 DEF Running, LeaseOutlasts
    <3>3. Holds(e)' => Holds(e) /\ pc[e] \in ProtectedTasks
      BY <3>1 DEF Holds, LockTasks
    <3>4. ASSUME Holds(e)'
          PROVE  key'.ttl > Outstanding(need, e)' - elapsed'[e]
      <4>1. /\ key.ttl \in Int /\ elapsed[e] \in Nat /\ wf[e] \in Workflows
        BY DEF TypeOK
      <4>2. /\ key.ttl > need[wf[e]][pc[e]] - elapsed[e]
        BY <3>1, <3>3, <3>4 DEF LeaseOutlasts, Outstanding
      <4>3. CASE pc[e] = "refresh_lock"
        <5>1. Outstanding(need, e)' =
                Budget["refresh_lock"] + need[wf[e]]["fail_safe_host"]
          BY <3>1, <4>3 DEF Outstanding, LockTasks
        <5>2. need[wf[e]]["refresh_lock"] >=
                Budget["refresh_lock"] + need[wf[e]][OnError("refresh_lock")]
          BY <4>1, NeedOfSuccessor DEF ProtectedTasks
        <5>3. OnError("refresh_lock") = "fail_safe_host"
          BY DEF OnError, FailureTasks
        <5>4. /\ need[wf[e]]["refresh_lock"] \in Nat
              /\ need[wf[e]]["fail_safe_host"] \in Nat
              /\ Budget["refresh_lock"] \in Nat
          BY <4>1, BudgetAssumption
             DEF LeaseCovers, BoundsNeed, Tasks, ProtectedTasks
        <5> QED
          BY <3>1, <4>1, <4>2, <4>3, <5>1, <5>2, <5>3, <5>4
      <4>4. CASE pc[e] # "refresh_lock"
        <5>1. Outstanding(need, e)' = need[wf[e]][pc[e]]
          BY <3>1, <4>4 DEF Outstanding
        <5> QED
          BY <5>1, <4>2, <3>1
      <4> QED
        BY <4>3, <4>4
    <3> QED
      BY <3>1, <3>2, <3>3, <3>4 DEF LeaseOutlasts
  <2>7. CASE Advance(e)
    <3>1. /\ Running(e) /\ result[e] \in {"ok", "error"}
          /\ pc'[e] = IF result[e] = "ok" THEN OnSuccess(wf[e], pc[e])
                                          ELSE OnError(pc[e])
          /\ result'[e] = "none" /\ elapsed'[e] = 0
          /\ wf'[e] = wf[e] /\ key' = key
      BY <2>7 DEF Advance, TypeOK
    <3>2. Running(e)' => elapsed'[e] <= Budget[pc'[e]]
      BY <3>1, BudgetAssumption DEF Running
    <3>3. /\ wf[e] \in Workflows /\ pc[e] \in Tasks /\ elapsed[e] \in Nat
          /\ key.ttl \in Int /\ Budget[pc[e]] \in Nat
          /\ elapsed[e] <= Budget[pc[e]]
      BY <3>1, BudgetAssumption DEF TypeOK, Running, LeaseOutlasts
    <3>4. ASSUME Holds(e)'
          PROVE  key'.owner = e /\ key'.ttl > Outstanding(need, e)' - elapsed'[e]
      <4>1. pc'[e] \in ProtectedTasks \cup {"release_lock", "release_lock_error"}
        BY <3>1, <3>4 DEF Holds
      <4>2. pc[e] \in ProtectedTasks \cup {"acquire_lock"}
        BY <3>1, <3>3, <4>1 DEF Tasks, ProtectedTasks, OnSuccess, OnError,
                                CommonSuccessor, FailureTasks
      <4>3. pc[e] = "acquire_lock" => result[e] = "ok"
        <5>1. OnError("acquire_lock") = "ERROR"
          BY DEF OnError, FailureTasks
        <5> QED
          BY <3>1, <4>1, <5>1 DEF ProtectedTasks
      <4>4. key.owner = e /\ key.ttl > Outstanding(need, e) - elapsed[e]
        BY <4>2, <4>3 DEF LeaseOutlasts, Holds
      <4>5. need[wf[e]][pc'[e]] \in Nat
        BY <3>3, <4>1 DEF LeaseCovers, BoundsNeed, Tasks
      <4>6. Outstanding(need, e)' = need[wf[e]][pc'[e]]
        BY <3>1 DEF Outstanding
      <4>7. Outstanding(need, e) >= Budget[pc[e]] + need[wf[e]][pc'[e]]
        <5>1. CASE pc[e] = "refresh_lock"
          <6>1. /\ OnSuccess(wf[e], "refresh_lock") = "assert_host_safe"
                /\ OnError("refresh_lock") = "fail_safe_host"
            BY DEF OnSuccess, OnError, CommonSuccessor, FailureTasks
          <6>2. CASE result[e] = "ok"
            BY <5>1, <6>1, <6>2, <3>1, <3>3, <4>5 DEF Outstanding
          <6>3. CASE result[e] = "error"
            BY <5>1, <6>1, <6>3, <3>1, <3>3, <4>5 DEF Outstanding
          <6> QED
            BY <6>2, <6>3, <3>1
        <5>2. CASE pc[e] # "refresh_lock"
          <6>1. Outstanding(need, e) = need[wf[e]][pc[e]]
            BY <5>2 DEF Outstanding
          <6>2. need[wf[e]][pc[e]] >= Budget[pc[e]] + need[wf[e]][pc'[e]]
            BY <3>1, <3>3, <4>2, <4>3, <5>2, NeedOfSuccessor
          <6> QED
            BY <6>1, <6>2
        <5> QED
          BY <5>1, <5>2
      <4>8. Outstanding(need, e) \in Nat
        <5>1. /\ need[wf[e]][pc[e]] \in Nat
              /\ need[wf[e]]["assert_host_safe"] \in Nat
              /\ need[wf[e]]["fail_safe_host"] \in Nat
          BY <3>3 DEF LeaseCovers, BoundsNeed, Tasks, ProtectedTasks
        <5> QED
          BY <5>1, <3>3 DEF Outstanding
      <4> QED
        BY <3>1, <3>3, <4>4, <4>5, <4>6, <4>7, <4>8
    <3> QED
      BY <3>1, <3>2, <3>4
  <2>8. CASE Crash(e)
    BY <2>8 DEF Crash, TypeOK, Holds, Running, Tasks, ProtectedTasks
  <2> QED
    BY <2>1, <2>2, <2>3, <2>4, <2>5, <2>6, <2>7, <2>8 DEF Next, ExecStep
<1> QED
  BY <1>1, <1>2, TypeCorrect, PTL DEF Spec

\* An execution in a protected task owns the key of its host, as refresh_lock
\* and release_lock check, whenever the settings cover the work.
THEOREM HolderOwns ==
  ASSUME NEW need, LeaseCovers(need)
  PROVE  Spec => []HolderOwnsKey
<1>1. LeaseOutlasts(need) => HolderOwnsKey
  BY DEF LeaseOutlasts, HolderOwnsKey, Holds
<1> QED
  BY <1>1, LeaseOutlastsWork, PTL

\* Two executions never act on the same host at the same time, whenever the
\* settings cover the work between two renewals of the lease.
THEOREM LeaseMutualExclusion ==
  ASSUME NEW need, LeaseCovers(need)
  PROVE  Spec => []MutualExclusion
<1>1. HolderOwnsKey => MutualExclusion
  BY DEF HolderOwnsKey, MutualExclusion
<1> QED
  BY <1>1, HolderOwns, PTL
-----------------------------------------------------------------------------
(***************************************************************************)
(* The key is a lock.                                                      *)
(***************************************************************************)

\* The executions that act on the host.
Acting == {e \in Execs : pc[e] \in ProtectedTasks}

\* Only acquire_lock gives the key of nobody to an execution, and no command but that
\* of its owner changes it.
LEMMA CommandOwner ==
  ASSUME TypeOK, NEW e \in Execs, pc[e] \in LockTasks
  PROVE  \/ Command(e).key.owner = key.owner
         \/ /\ key.owner = NoOne /\ Command(e).key.owner = e
         \/ /\ key.owner = e /\ Command(e).key.owner = NoOne
            /\ pc[e] \in {"release_lock", "release_lock_error"}
BY DEF Command, Acquire, Refresh, Release, Absent, LockTasks, TypeOK

\* A step of the lease in which whoever acts owns the key, before and after it, is a
\* step of the abstract lock or leaves it as it is.
LEMMA LeaseStepIsLockStep ==
  ASSUME TypeOK, HolderOwnsKey, HolderOwnsKey', [Next]_vars
  PROVE  [Lock!Next]_<<key.owner, Acting>>
<1> USE DEF Lock!Next
<1>1. \A e \in Acting : key.owner = e
  BY DEF Acting, HolderOwnsKey
<1>2. CASE UNCHANGED vars
  BY <1>2 DEF vars, Acting
<1>3. CASE Tick
  <2>1. Acting' = Acting
    BY <1>3 DEF Tick, Acting
  <2>2. CASE key'.owner = key.owner
    BY <2>1, <2>2
  <2>3. CASE key'.owner # key.owner
    <3>1. key'.owner = NoOne
      BY <1>3, <2>3 DEF Tick, Absent, TypeOK
    <3>2. Acting = {}
      BY <3>1, <2>1, NoOneAssumption DEF Acting, HolderOwnsKey
    <3> QED
      BY <2>1, <3>1, <3>2 DEF Lock!GiveBack, Acting
  <2> QED
    BY <2>2, <2>3
<1>4. ASSUME NEW e \in Execs, LockCommand(e)
      PROVE  [Lock!Next]_<<key.owner, Acting>>
  <2>1. Acting' = Acting /\ pc[e] \in LockTasks
    BY <1>4 DEF LockCommand, Acting
  <2>2. key'.owner = Command(e).key.owner
    BY <1>4 DEF LockCommand
  <2>3. CASE key.owner = NoOne /\ key'.owner = e
    <3>1. Acting = {}
      BY <1>1, <2>3, NoOneAssumption DEF Acting
    <3>2. Lock!Acquire(e)
      BY <2>1, <2>3, <3>1 DEF Lock!Acquire, Acting
    <3> QED
      BY <3>2
  <2>4. CASE /\ key.owner = e /\ key'.owner = NoOne
             /\ pc[e] \in {"release_lock", "release_lock_error"}
    <3>1. Acting = {}
      BY <1>1, <2>4 DEF Acting, ProtectedTasks
    <3>2. Lock!GiveBack
      BY <2>1, <2>4, <3>1 DEF Lock!GiveBack, Acting
    <3> QED
      BY <3>2
  <2>5. CASE key'.owner = key.owner
    BY <2>1, <2>5
  <2> QED
    BY <2>1, <2>2, <2>3, <2>4, <2>5, CommandOwner
<1>5. ASSUME NEW e \in Execs, Start(e) \/ LockCommandLost(e) \/ Work(e) \/ Advance(e)
                                \/ Crash(e)
      PROVE  [Lock!Next]_<<key.owner, Acting>>
  <2>1. /\ key' = key
        /\ \A f \in Execs \ {e} : pc'[f] = pc[f]
    BY <1>5 DEF Start, LockCommandLost, Work, Advance, Crash, TypeOK
  <2>2. CASE e \in Acting'
    <3>1. key.owner = e /\ key'.owner = e
      BY <2>1, <2>2 DEF HolderOwnsKey, Acting
    <3>2. Acting' = {e}
      BY <2>2, <3>1 DEF HolderOwnsKey, Acting
    <3>3. Lock!Enter(e)
      BY <3>1, <3>2 DEF Lock!Enter, Acting
    <3> QED
      BY <3>3
  <2>3. CASE e \notin Acting'
    <3>1. CASE e \in Acting
      <4>1. Acting = {e}
        BY <1>1, <3>1
      <4>2. Acting' = {}
        BY <2>1, <2>3, <4>1 DEF Acting
      <4>3. Lock!Leave
        BY <2>1, <4>2 DEF Lock!Leave, Acting
      <4> QED
        BY <4>3
    <3>2. CASE e \notin Acting
      <4>1. Acting' = Acting
        BY <2>1, <2>3, <3>2 DEF Acting
      <4> QED
        BY <2>1, <4>1
    <3> QED
      BY <3>1, <3>2
  <2> QED
    BY <2>2, <2>3
<1> QED
  BY <1>2, <1>3, <1>4, <1>5 DEF Next, ExecStep

\* As long as the settings cover the work, the key with its time to live is a lock that
\* nobody loses: it is taken only when it is free, only its owner acts on the host, and
\* it is free again only when nobody acts.
THEOREM LeaseImplementsLock ==
  ASSUME NEW need, LeaseCovers(need)
  PROVE  Spec => ImplementsHostLock
<1>1. Init => Lock!Init
  BY DEF Init, Lock!Init, Absent, ProtectedTasks
<1>2. TypeOK /\ HolderOwnsKey /\ HolderOwnsKey' /\ [Next]_vars
        => [Lock!Next]_<<key.owner, Acting>>
  BY LeaseStepIsLockStep
<1>3. Spec => []TypeOK /\ []HolderOwnsKey
  BY TypeCorrect, HolderOwns, PTL
<1> QED
  BY <1>1, <1>2, <1>3, PTL DEF Spec, ImplementsHostLock, Lock!Spec, Acting
-----------------------------------------------------------------------------
(***************************************************************************)
(* Settings that fit.                                                      *)
(***************************************************************************)

\* The time from the start of a task to the renewal or the release, on the longest of
\* the paths that the workbook has from there: the time of the task and what follows it.
Need(w, t) ==
  LET error    == Budget["release_lock_error"]
      failed   == Budget["audit_failure"] + error
      unsafe   == Budget["fail_safe_host"] + failed
      refresh  == Budget["refresh_lock"] + unsafe
      drain    == Budget["drain_instances"] + refresh
      disable  == Budget["nova_disable"] + drain
      out      == Budget["maintenance_on"] + disable
      success  == Budget["audit_success"] + (Budget["release_lock"] + unsafe)
      back     == Budget["maintenance_off"] + success
      enable   == Budget["nova_enable"] + back
      verify   == Budget["verify_host_return"] + enable
      nova     == Budget["wait_nova"] + verify
      on       == Budget["wait_on"] + nova
      return   == Budget["request_on"] + on
      off      == Budget["wait_off"] + return
      request  == Budget["request_off"] + off
      safe     == Budget["assert_host_safe"] + request
      resolve  == Budget["resolve"] + (IF w = "power_on_and_return" THEN return ELSE out)
  IN  CASE t = "acquire_lock"       -> Budget["acquire_lock"] + resolve
        [] t = "resolve"            -> resolve
        [] t = "maintenance_on"     -> out
        [] t = "nova_disable"       -> disable
        [] t = "drain_instances"    -> drain
        [] t = "refresh_lock"       -> refresh
        [] t = "assert_host_safe"   -> safe
        [] t = "request_off"        -> request
        [] t = "wait_off"           -> off
        [] t = "request_on"         -> return
        [] t = "wait_on"            -> on
        [] t = "wait_nova"          -> nova
        [] t = "verify_host_return" -> verify
        [] t = "nova_enable"        -> enable
        [] t = "maintenance_off"    -> back
        [] t = "audit_success"      -> success
        [] t = "fail_safe_host"     -> unsafe
        [] t = "audit_failure"      -> failed
        [] OTHER                    -> Budget[t]

\* What a task needs is its own time and what the next one needs.
LEMMA NeedEquations ==
  ASSUME NEW w
  PROVE  /\ Need(w, "release_lock_error") = Budget["release_lock_error"]
         /\ Need(w, "release_lock") = Budget["release_lock"]
         /\ Need(w, "audit_failure") = Budget["audit_failure"] + Need(w, "release_lock_error")
         /\ Need(w, "fail_safe_host") = Budget["fail_safe_host"] + Need(w, "audit_failure")
         /\ Need(w, "refresh_lock") = Budget["refresh_lock"] + Need(w, "fail_safe_host")
         /\ Need(w, "drain_instances") = Budget["drain_instances"] + Need(w, "refresh_lock")
         /\ Need(w, "nova_disable") = Budget["nova_disable"] + Need(w, "drain_instances")
         /\ Need(w, "maintenance_on") = Budget["maintenance_on"] + Need(w, "nova_disable")
         /\ Need(w, "audit_success") =
              Budget["audit_success"] + (Budget["release_lock"] + Need(w, "fail_safe_host"))
         /\ Need(w, "maintenance_off") = Budget["maintenance_off"] + Need(w, "audit_success")
         /\ Need(w, "nova_enable") = Budget["nova_enable"] + Need(w, "maintenance_off")
         /\ Need(w, "verify_host_return") =
              Budget["verify_host_return"] + Need(w, "nova_enable")
         /\ Need(w, "wait_nova") = Budget["wait_nova"] + Need(w, "verify_host_return")
         /\ Need(w, "wait_on") = Budget["wait_on"] + Need(w, "wait_nova")
         /\ Need(w, "request_on") = Budget["request_on"] + Need(w, "wait_on")
         /\ Need(w, "wait_off") = Budget["wait_off"] + Need(w, "request_on")
         /\ Need(w, "request_off") = Budget["request_off"] + Need(w, "wait_off")
         /\ Need(w, "assert_host_safe") =
              Budget["assert_host_safe"] + Need(w, "request_off")
         /\ Need(w, "resolve") =
              Budget["resolve"] + Need(w, AfterResolve(w))
         /\ Need(w, "acquire_lock") = Budget["acquire_lock"] + Need(w, "resolve")
BY DEF Need, AfterResolve
\* When the tasks fit into the lease, these times are the bounds that the theorems above
\* take as given.
LEMMA FittingLeaseCovers ==
  ASSUME LeaseFits
  PROVE  \E need : LeaseCovers(need)
<1> DEFINE need == [w \in Workflows |-> [t \in Tasks |-> Need(w, t)]]
<1> DEFINE Bounded(w, t, u) == Need(w, t) >= Budget[t] + Need(w, u)
<1>1. \A t \in Tasks : Budget[t] \in Nat
  BY BudgetAssumption
<1>2. ASSUME NEW w \in Workflows
      PROVE  /\ \A t \in Tasks : Need(w, t) \in Nat /\ Need(w, t) >= Budget[t]
             /\ \A t \in ProtectedTasks : Bounded(w, t, OnError(t))
             /\ \A t \in (ProtectedTasks \cup {"acquire_lock"}) \ {"refresh_lock"} :
                  Bounded(w, t, OnSuccess(w, t))
             /\ TTL > Need(w, "acquire_lock")
             /\ TTL > Budget["refresh_lock"] + Need(w, "fail_safe_host")
             /\ TTL > Budget["refresh_lock"] + Need(w, "assert_host_safe")
  <2>1. /\ AfterResolve(w) \in {"request_on", "maintenance_on"}
        /\ AfterWaitOff(w) \in {"request_on", "audit_success"}
        /\ AfterResolve(w) = IF w = "power_on_and_return" THEN "request_on"
                                                          ELSE "maintenance_on"
    BY DEF AfterResolve, AfterWaitOff
  <2>2. /\ Need(w, "release_lock_error") \in Nat
        /\ Need(w, "release_lock") \in Nat
        /\ Need(w, "audit_failure") \in Nat
        /\ Need(w, "fail_safe_host") \in Nat
        /\ Need(w, "fail_safe_host") = FailTime
    BY <1>1, NeedEquations DEF Tasks, ProtectedTasks, FailTime
  <2>3. /\ Need(w, "refresh_lock") \in Nat
        /\ Need(w, "drain_instances") \in Nat
        /\ Need(w, "nova_disable") \in Nat
        /\ Need(w, "maintenance_on") \in Nat
        /\ Need(w, "maintenance_on") = OutTime + FailTime
    BY <1>1, <2>2, NeedEquations DEF Tasks, ProtectedTasks, OutTime
  <2>4. /\ Need(w, "audit_success") \in Nat
        /\ Need(w, "maintenance_off") \in Nat
        /\ Need(w, "nova_enable") \in Nat
        /\ Need(w, "verify_host_return") \in Nat
        /\ Need(w, "wait_nova") \in Nat
        /\ Need(w, "wait_on") \in Nat
        /\ Need(w, "request_on") \in Nat
        /\ Need(w, "request_on") = ReturnTime
        /\ Need(w, "request_on") >= Need(w, "audit_success")
    <3>1. /\ Need(w, "audit_success") \in Nat
          /\ Need(w, "maintenance_off") \in Nat
          /\ Need(w, "nova_enable") \in Nat
          /\ Need(w, "verify_host_return") \in Nat
      BY <1>1, <2>2, NeedEquations DEF Tasks, ProtectedTasks
    <3>2. /\ Need(w, "wait_nova") \in Nat
          /\ Need(w, "wait_on") \in Nat
          /\ Need(w, "request_on") \in Nat
      BY <1>1, <3>1, NeedEquations DEF Tasks, ProtectedTasks
    <3>3. Need(w, "verify_host_return") =
            Budget["verify_host_return"] + Budget["nova_enable"]
              + Budget["maintenance_off"] + Budget["audit_success"]
              + Budget["release_lock"] + FailTime
      BY <1>1, <2>2, <3>1, NeedEquations DEF Tasks, ProtectedTasks
    <3>4. Need(w, "request_on") =
            Budget["request_on"] + Budget["wait_on"] + Budget["wait_nova"]
              + Need(w, "verify_host_return")
      BY <1>1, <3>1, <3>2, NeedEquations DEF Tasks, ProtectedTasks
    <3>5. Need(w, "request_on") = ReturnTime
      BY <1>1, <2>2, <3>1, <3>3, <3>4 DEF Tasks, ProtectedTasks, ReturnTime
    <3>6. Need(w, "verify_host_return") >= Need(w, "audit_success")
      BY <1>1, <3>1, NeedEquations DEF Tasks, ProtectedTasks
    <3>7. Need(w, "request_on") >= Need(w, "audit_success")
      BY <1>1, <3>1, <3>2, <3>4, <3>6 DEF Tasks, ProtectedTasks
    <3> QED
      BY <3>1, <3>2, <3>5, <3>7
  <2>5. /\ Need(w, "wait_off") \in Nat
        /\ Need(w, "request_off") \in Nat
        /\ Need(w, "assert_host_safe") \in Nat
        /\ Need(w, "assert_host_safe") = OffTime + ReturnTime
    BY <1>1, <2>4, NeedEquations DEF Tasks, ProtectedTasks, OffTime
  <2>6. /\ Need(w, "resolve") \in Nat
        /\ Need(w, "acquire_lock") \in Nat
        /\ TTL > Need(w, "acquire_lock")
    BY <1>1, <2>1, <2>2, <2>3, <2>4, NeedEquations, TTLAssumption
       DEF Tasks, ProtectedTasks, LeaseFits, OutTime, FailTime, ReturnTime
  <2>7. /\ TTL > Budget["refresh_lock"] + Need(w, "fail_safe_host")
        /\ TTL > Budget["refresh_lock"] + Need(w, "assert_host_safe")
    <3>1. /\ OutTime >= Budget["refresh_lock"]
          /\ OutTime \in Nat /\ OffTime \in Nat /\ ReturnTime \in Nat
      BY <1>1, <2>4 DEF Tasks, ProtectedTasks, OutTime, OffTime
    <3>2. TTL > Budget["refresh_lock"] + FailTime
      BY <1>1, <2>2, <3>1, TTLAssumption DEF LeaseFits, Tasks, ProtectedTasks
    <3>3. TTL > Budget["refresh_lock"] + (OffTime + ReturnTime)
      BY <1>1, <3>1, TTLAssumption DEF LeaseFits, Tasks, ProtectedTasks
    <3> QED
      BY <2>2, <2>5, <3>2, <3>3
  <2>8. \A t \in Tasks : Need(w, t) \in Nat /\ Need(w, t) >= Budget[t]
    BY <1>1, <2>1, <2>2, <2>3, <2>4, <2>5, <2>6, NeedEquations DEF Tasks, ProtectedTasks
  <2>9. \A t \in ProtectedTasks \ FailureTasks :
          t # "resolve" => Need(w, t) >= Budget[t] + Need(w, "fail_safe_host")
    BY <1>1, <2>2, <2>3, <2>4, <2>5, NeedEquations
       DEF Tasks, ProtectedTasks, FailureTasks
  <2>10. Need(w, "resolve") >= Budget["resolve"] + Need(w, "fail_safe_host")
    BY <1>1, <2>1, <2>2, <2>3, <2>4, <2>6, NeedEquations DEF Tasks, ProtectedTasks
  <2>11. \A t \in ProtectedTasks : Bounded(w, t, OnError(t))
    <3>1. ASSUME NEW t \in ProtectedTasks PROVE Bounded(w, t, OnError(t))
      <4>1. CASE t \in FailureTasks
        BY <4>1, <1>1, <2>2, NeedEquations
           DEF OnError, FailureTasks, CommonSuccessor, Tasks, ProtectedTasks
      <4>2. CASE t \notin FailureTasks
        <5>1. OnError(t) = "fail_safe_host"
          BY <4>2 DEF OnError, ProtectedTasks
        <5> QED
          BY <4>2, <5>1, <2>9, <2>10
      <4> QED
        BY <4>1, <4>2
    <3> QED
      BY <3>1
  <2>12. ASSUME NEW t \in (ProtectedTasks \cup {"acquire_lock"}) \ {"refresh_lock"}
         PROVE  Bounded(w, t, OnSuccess(w, t))
    <3>1. CASE t = "resolve"
      BY <3>1, <1>1, <2>6, NeedEquations DEF OnSuccess, Tasks, ProtectedTasks
    <3>2. CASE t = "wait_off"
      BY <3>2, <1>1, <2>1, <2>4, <2>5, NeedEquations
         DEF OnSuccess, Tasks, ProtectedTasks
    <3>3. CASE t = "audit_success"
      BY <3>3, <1>1, <2>2, <2>4, NeedEquations
         DEF OnSuccess, CommonSuccessor, Tasks, ProtectedTasks
    <3>4. CASE t \notin {"resolve", "wait_off", "audit_success"}
      <4>1. OnSuccess(w, t) = CommonSuccessor[t]
        BY <3>4 DEF OnSuccess
      <4>2. Need(w, t) = Budget[t] + Need(w, CommonSuccessor[t])
        BY <3>4, NeedEquations DEF CommonSuccessor, ProtectedTasks
      <4>3. Need(w, t) \in Nat
        BY <2>8 DEF Tasks
      <4> QED
        BY <4>1, <4>2, <4>3
    <3> QED
      BY <3>1, <3>2, <3>3, <3>4
  <2> QED
    BY <2>6, <2>7, <2>8, <2>11, <2>12
<1>3. LeaseCovers(need)
  <2>1. need \in [Workflows -> [Tasks -> Nat]]
    BY <1>2
  <2>2. \A w \in Workflows, t \in Tasks : need[w][t] = Need(w, t)
    OBVIOUS
  <2>3. /\ \A w \in Workflows, t \in Tasks : OnSuccess(w, t) \in Tasks \cup Finished
        /\ \A t \in ProtectedTasks : OnError(t) \in Tasks
        /\ OnError("acquire_lock") \notin Tasks
    BY WorkbookTypes DEF OnError, FailureTasks, CommonSuccessor, Tasks, ProtectedTasks
  <2>4. ASSUME NEW w \in Workflows, NEW t \in ProtectedTasks \cup {"acquire_lock"}
        PROVE  IF OnError(t) \in Tasks
               THEN need[w][t] >= Budget[t] + need[w][OnError(t)]
               ELSE need[w][t] >= Budget[t]
    BY <1>2, <2>2, <2>3 DEF Tasks
  <2>5. ASSUME NEW w \in Workflows,
               NEW t \in (ProtectedTasks \cup {"acquire_lock"}) \ {"refresh_lock"}
        PROVE  need[w][t] >= Budget[t] + need[w][OnSuccess(w, t)]
    <3>1. OnSuccess(w, t) \in Tasks
      BY DEF OnSuccess, CommonSuccessor, AfterResolve, AfterWaitOff, Tasks,
             ProtectedTasks, Workflows
    <3> QED
      BY <1>2, <2>2, <3>1 DEF Tasks
  <2>6. \A w \in Workflows, t \in {"release_lock", "release_lock_error"} :
          need[w][t] >= Budget[t]
    BY <1>2, <2>2 DEF Tasks
  <2>7. BoundsNeed(need)
    BY <2>1, <2>4, <2>5, <2>6 DEF BoundsNeed
  <2>8. \A w \in Workflows :
          /\ TTL > need[w]["acquire_lock"]
          /\ TTL > Budget["refresh_lock"] + need[w]["fail_safe_host"]
          /\ TTL > Budget["refresh_lock"] + need[w]["assert_host_safe"]
    BY <1>2, <2>2 DEF Tasks, ProtectedTasks
  <2> QED
    BY <2>7, <2>8 DEF LeaseCovers
<1> QED
  BY <1>3

\* No two executions ever act on the same host, and the key with its time to live is a
\* lock that never lapses, whenever the tasks fit into the lease.
THEOREM FittingLeaseExcludes ==
  ASSUME LeaseFits
  PROVE  Spec => []MutualExclusion /\ ImplementsHostLock
<1>1. PICK need : LeaseCovers(need)
  BY FittingLeaseCovers
<1>2. Spec => []MutualExclusion
  BY <1>1, LeaseMutualExclusion
<1>3. Spec => ImplementsHostLock
  BY <1>1, LeaseImplementsLock
<1> QED
  BY <1>2, <1>3, PTL
=============================================================================
