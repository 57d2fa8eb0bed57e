---------------------------- MODULE MistralProofs -----------------------------
(***************************************************************************)
(* Proofs about the planned power workflows, for any executions, servers,  *)
(* numbers of polls and any pattern of failing calls and lapsing leases.   *)
(***************************************************************************)
EXTENDS MistralPowerOps, TLAPS

-----------------------------------------------------------------------------
(***************************************************************************)
(* Types.                                                                  *)
(***************************************************************************)

\* The transitions of the workbook stay among its tasks.
LEMMA WorkbookTypes ==
  /\ \A w \in Workflows, t \in Tasks : OnSuccess(w, t) \in Tasks \cup Finished
  /\ \A t \in Tasks : OnError(t) \in Tasks \cup Finished
BY DEF OnSuccess, OnError, Tasks, ProtectedTasks, Finished, Workflows,
       CommonSuccessor, AfterResolve, AfterWaitOff, FailureTasks

\* The end of a task and the next call of a task keep the engine's types.
LEMMA EngineTypes ==
  ASSUME MistralTypeOK, NEW e \in Execs, pc[e] \in Tasks,
         \/ \E r \in {"ok", "error"} : EndTask(e, r)
         \/ NextCall(e)
  PROVE  /\ wf' \in [Execs -> Workflows]
         /\ policy' \in [Execs -> Policies]
         /\ pc' \in [Execs -> Tasks \cup Finished \cup {"idle"}]
         /\ step' \in [Execs -> Nat]
         /\ stable' \in [Execs -> Nat]
<1>1. ASSUME NEW r \in {"ok", "error"}, EndTask(e, r)
      PROVE  /\ wf' \in [Execs -> Workflows]
             /\ policy' \in [Execs -> Policies]
             /\ pc' \in [Execs -> Tasks \cup Finished \cup {"idle"}]
             /\ step' \in [Execs -> Nat]
             /\ stable' \in [Execs -> Nat]
  <2>1. /\ OnSuccess(wf[e], pc[e]) \in Tasks \cup Finished
        /\ OnError(pc[e]) \in Tasks \cup Finished
    BY WorkbookTypes DEF MistralTypeOK
  <2> QED
    BY <1>1, <2>1 DEF EndTask, MistralTypeOK
<1>2. CASE NextCall(e)
  BY <1>2 DEF NextCall, MistralTypeOK
<1> QED
  BY <1>1, <1>2

\* What the cloud does by itself keeps its types, and it changes neither the
\* status of the Nova service nor the maintenance flag.
LEMMA CloudKeeps ==
  ASSUME CloudTypeOK, CloudStep
  PROVE  /\ CloudTypeOK'
         /\ nova'.status = nova.status
         /\ maintenance' = maintenance
<1> USE DEF CloudTypeOK
<1>1. CASE PowerSettles
  BY <1>1 DEF PowerSettles, Pending, PowerStates, PowerTargets, NoTarget
<1>2. CASE PowerFails
  BY <1>2 DEF PowerFails, Pending, PowerStates, PowerTargets, NoTarget
<1>3. CASE NovaReports
  BY <1>3 DEF NovaReports
<1>4. ASSUME NEW s \in Servers,
             Schedule(s) \/ Land(s) \/ TenantStarts(s) \/ StopEnds(s)
               \/ MigrationEnds(s)
      PROVE  /\ CloudTypeOK'
             /\ nova'.status = nova.status
             /\ maintenance' = maintenance
  <2>1. PICK st \in ServerStates : ServerBecomes(s, st)
    BY <1>4 DEF Schedule, Land, TenantStarts, StopEnds, MigrationEnds,
                ServerStates
  <2> QED
    BY <2>1 DEF ServerBecomes
<1> QED
  BY <1>1, <1>2, <1>3, <1>4 DEF CloudStep

\* Every step of the planned workflows keeps the types.
LEMMA TypeStep == TypeOK /\ [Next]_vars => TypeOK'
<1> SUFFICES ASSUME TypeOK, [Next]_vars PROVE TypeOK'
  OBVIOUS
<1> USE DEF TypeOK
<1>1. CASE UNCHANGED vars
  BY <1>1 DEF vars, mistral, cloud, engine, history, CloudTypeOK,
              MistralTypeOK
<1>2. CASE CloudStep /\ UNCHANGED mistral
  BY <1>2, CloudKeeps DEF mistral, engine, history, MistralTypeOK
<1>3. CASE OrphanExpires \/ LeaseLapses
  BY <1>3 DEF OrphanExpires, LeaseLapses, cloud, engine, history,
              CloudTypeOK, MistralTypeOK
<1>4. ASSUME NEW e \in Execs, Start(e) PROVE TypeOK'
  BY <1>4 DEF Start, cloud, CloudTypeOK, MistralTypeOK, Tasks
<1>5. ASSUME NEW e \in Execs, ExecStep(e) PROVE TypeOK'
  <2>1. pc[e] \in Tasks
    BY <1>5 DEF ExecStep, AcquireHostLock, RefreshHostLock, ReleaseHostLock,
         ResolveHost, SetMasakariMaintenance, SetNovaService, DrainHost,
         PollDrained, AssertHostSafe, ReadBeforePower, SetNodePowerState,
         WaitPower, WaitNovaService, VerifyReturn, AuditEvent, FailSafeNova,
         FailSafeMaintenance, TaskFails, Running, Tasks, ProtectedTasks
  <2>2. CASE AcquireHostLock(e)
    <3>1. \E r \in {"ok", "error"} : EndTask(e, r)
      BY <2>2 DEF AcquireHostLock, Replies
    <3>2. CloudTypeOK'
      BY <2>2 DEF AcquireHostLock, cloud, CloudTypeOK
    <3> QED
      BY <2>1, <2>2, <3>1, <3>2, EngineTypes
         DEF AcquireHostLock, MistralTypeOK
  <2>3. CASE RefreshHostLock(e) \/ ReleaseHostLock(e) \/ TaskFails(e)
             \/ ResolveHost(e) \/ VerifyReturn(e) \/ AuditEvent(e)
    <3>1. \E r \in {"ok", "error"} : EndTask(e, r)
      BY <2>3 DEF RefreshHostLock, ReleaseHostLock, TaskFails, ResolveHost,
                  VerifyReturn, AuditEvent, Replies
    <3>2. UNCHANGED <<cloud, history>> /\ owner' \in {owner, NoOne}
      BY <2>3 DEF RefreshHostLock, ReleaseHostLock, TaskFails, ResolveHost,
                  VerifyReturn, AuditEvent
    <3> QED
      BY <2>1, <3>1, <3>2, EngineTypes
         DEF cloud, history, CloudTypeOK, MistralTypeOK
  <2>4. CASE PollDrained(e) \/ ReadBeforePower(e) \/ WaitNovaService(e)
    <3>1. \/ \E r \in {"ok", "error"} : EndTask(e, r)
          \/ NextCall(e)
      BY <2>4 DEF PollDrained, ReadBeforePower, WaitNovaService, Polled,
                  PollDrain, RequestPower
    <3>2. UNCHANGED <<cloud, history, owner>>
      BY <2>4 DEF PollDrained, ReadBeforePower, WaitNovaService
    <3> QED
      BY <2>1, <3>1, <3>2, EngineTypes
         DEF cloud, history, CloudTypeOK, MistralTypeOK
  <2>5. CASE SetMasakariMaintenance(e)
    <3>1. \E r \in {"ok", "error"} : EndTask(e, r)
      BY <2>5 DEF SetMasakariMaintenance, Replies
    <3>2. /\ UNCHANGED <<owner, history, node, nova, servers, late>>
          /\ maintenance' \in BOOLEAN
      BY <2>5 DEF SetMasakariMaintenance, CloudTypeOK
    <3> QED
      BY <2>1, <3>1, <3>2, EngineTypes DEF history, CloudTypeOK, MistralTypeOK
  <2>6. CASE SetNovaService(e)
    <3>1. \E r \in {"ok", "error"} : EndTask(e, r)
      BY <2>6 DEF SetNovaService, Replies
    <3>2. UNCHANGED <<owner, history, node, maintenance, servers, late>>
      BY <2>6 DEF SetNovaService
    <3>3. nova' \in [status : {"enabled", "disabled"}, state : {"up", "down"}]
      BY <2>6 DEF SetNovaService, NovaWithStatus, CloudTypeOK
    <3> QED
      BY <2>1, <3>1, <3>2, <3>3, EngineTypes
         DEF history, CloudTypeOK, MistralTypeOK
  <2>7. CASE DrainHost(e)
    <3>1. \/ \E r \in {"ok", "error"} : EndTask(e, r)
          \/ NextCall(e)
      BY <2>7 DEF DrainHost
    <3>2. UNCHANGED <<owner, history, node, nova, maintenance, late>>
      BY <2>7 DEF DrainHost
    <3>3. servers' \in [Servers -> ServerStates]
      BY <2>7 DEF DrainHost, Commanded, ServerStates, CloudTypeOK
    <3> QED
      BY <2>1, <3>1, <3>2, <3>3, EngineTypes
         DEF history, CloudTypeOK, MistralTypeOK
  <2>8. CASE AssertHostSafe(e)
    <3>1. \E r \in {"ok", "error"} : EndTask(e, r)
      BY <2>8 DEF AssertHostSafe
    <3>2. /\ UNCHANGED <<owner, history, node, nova, maintenance, servers>>
          /\ late' \subseteq Servers
      BY <2>8 DEF AssertHostSafe, CloudTypeOK
    <3> QED
      BY <2>1, <3>1, <3>2, EngineTypes DEF history, CloudTypeOK, MistralTypeOK
  <2>9. CASE SetNodePowerState(e)
    <3>1. \E r \in {"ok", "error"} : EndTask(e, r)
      BY <2>9 DEF SetNodePowerState, Replies
    <3>2. UNCHANGED <<owner, history, nova, maintenance, servers, late>>
      BY <2>9 DEF SetNodePowerState
    <3>3. node' \in [power_state : PowerStates,
                     target_power_state : PowerTargets \cup {NoTarget},
                     last_error : BOOLEAN]
      <4>1. EffectiveTarget(Target(pc[e]), Soft(pc[e])) \in PowerTargets
        BY DEF EffectiveTarget, Target, Soft, PowerTargets
      <4> QED
        BY <2>9, <4>1 DEF SetNodePowerState, NodeWithTarget, CloudTypeOK
    <3> QED
      BY <2>1, <3>1, <3>2, <3>3, EngineTypes
         DEF history, CloudTypeOK, MistralTypeOK
  <2>10. CASE WaitPower(e)
    <3> DEFINE v == IF "ironic" \notin Mapped THEN "error"
                    ELSE PollPower(node, Target(pc[e]), stable[e],
                                   step[e] + 1 = PowerAttempts, Stable)
    <3>1. v \in {"ok", "error", "again"}
      BY DEF PollPower
    <3>2. UNCHANGED <<owner, history, cloud>>
      BY <2>10 DEF WaitPower
    <3>3. CASE v = "again"
      <4>1. StableAfter(node, Target(pc[e]), stable[e]) \in Nat
        BY DEF StableAfter, MistralTypeOK
      <4>2. /\ step' \in [Execs -> Nat]
            /\ stable' \in [Execs -> Nat]
            /\ UNCHANGED <<wf, policy, pc>>
        BY <2>10, <3>3, <4>1 DEF WaitPower, MistralTypeOK
      <4> QED
        BY <3>2, <4>2 DEF cloud, history, CloudTypeOK, MistralTypeOK
    <3>4. CASE v # "again"
      <4>1. \E r \in {"ok", "error"} : EndTask(e, r)
        BY <2>10, <3>1, <3>4 DEF WaitPower
      <4> QED
        BY <2>1, <3>2, <4>1, EngineTypes
           DEF cloud, history, CloudTypeOK, MistralTypeOK
    <3> QED
      BY <3>3, <3>4
  <2>11. CASE FailSafeNova(e)
    <3>1. \/ \E r \in {"ok", "error"} : EndTask(e, r)
          \/ NextCall(e)
      BY <2>11 DEF FailSafeNova
    <3>2. /\ UNCHANGED <<owner, history, node, maintenance, servers, late>>
          /\ nova' \in [status : {"enabled", "disabled"},
                        state : {"up", "down"}]
      BY <2>11 DEF FailSafeNova, CloudTypeOK
    <3> QED
      BY <2>1, <3>1, <3>2, EngineTypes DEF history, CloudTypeOK, MistralTypeOK
  <2>12. CASE FailSafeMaintenance(e)
    <3>1. \E r \in {"ok", "error"} : EndTask(e, r)
      BY <2>12 DEF FailSafeMaintenance, Replies
    <3>2. /\ UNCHANGED <<owner, last, trusted, node, nova, servers, late>>
          /\ maintenance' \in BOOLEAN
          /\ safe' \in [Execs -> BOOLEAN]
      BY <2>12 DEF FailSafeMaintenance, CloudTypeOK, MistralTypeOK
    <3> QED
      BY <2>1, <3>1, <3>2, EngineTypes DEF CloudTypeOK, MistralTypeOK
  <2> QED
    BY <1>5, <2>2, <2>3, <2>4, <2>5, <2>6, <2>7, <2>8, <2>9, <2>10, <2>11,
       <2>12 DEF ExecStep
<1> QED
  BY <1>1, <1>2, <1>3, <1>4, <1>5 DEF Next, MistralStep

\* The initial states are well typed.
LEMMA TypeInit == Init => TypeOK
<1>1. CloudInit => CloudTypeOK
  <2> SUFFICES ASSUME CloudInit PROVE CloudTypeOK
    OBVIOUS
  <2>1. node \in [power_state : PowerStates,
                  target_power_state : PowerTargets \cup {NoTarget},
                  last_error : BOOLEAN]
    BY DEF CloudInit, PowerStates
  <2>2. servers \in [Servers -> ServerStates]
    BY DEF CloudInit, ServerStates
  <2> QED
    BY <2>1, <2>2 DEF CloudInit, CloudTypeOK
<1>2. MistralInit => MistralTypeOK
  BY DEF MistralInit, MistralTypeOK, Workflows, Policies
<1> QED
  BY <1>1, <1>2 DEF Init, TypeOK

\* Every state of the planned workflows is well typed: the workbook and its
\* actions only ever lead to tasks and cloud states that exist.
THEOREM TypeCorrect == Spec => []TypeOK
<1>1. Init => TypeOK
  BY TypeInit
<1>2. TypeOK /\ [Next]_vars => TypeOK'
  BY TypeStep
<1> QED
  BY <1>1, <1>2, PTL DEF Spec

-----------------------------------------------------------------------------
(***************************************************************************)
(* The lock.                                                               *)
(***************************************************************************)

\* A step of a task of e that leaves the lock alone.  The execution stays in
\* its task or goes to one that the workbook names.
InnerStep(e) ==
  /\ pc[e] \in Tasks
  /\ pc'[e] \in {pc[e], OnSuccess(wf[e], pc[e]), OnError(pc[e])}
  /\ pc[e] = "acquire_lock" => pc'[e] = OnError(pc[e])
  /\ \A f \in Execs \ {e} : pc'[f] = pc[f] /\ step'[f] = step[f]
  /\ UNCHANGED <<owner, wf, last, trusted>>

\* Every step of a running execution other than taking and giving back the
\* lock is an inner step.
LEMMA InnerSteps ==
  ASSUME TypeOK, NEW e \in Execs, ExecStep(e),
         ~AcquireHostLock(e), ~ReleaseHostLock(e)
  PROVE  InnerStep(e)
<1> USE DEF TypeOK
<1>1. ASSUME NEW r, EndTask(e, r), UNCHANGED <<owner, last, trusted>>,
             pc[e] \in Tasks, pc[e] = "acquire_lock" => r # "ok"
      PROVE  InnerStep(e)
  BY <1>1 DEF EndTask, InnerStep, MistralTypeOK
<1>2. ASSUME NextCall(e), UNCHANGED <<owner, last, trusted>>,
             pc[e] \in Tasks, pc[e] # "acquire_lock"
      PROVE  InnerStep(e)
  BY <1>2 DEF NextCall, InnerStep, MistralTypeOK
<1>3. CASE TaskFails(e)
  BY <1>3, <1>1 DEF TaskFails, Running, history
<1>4. CASE RefreshHostLock(e)
  <2>1. pc[e] \in Tasks /\ pc[e] # "acquire_lock"
    BY <1>4 DEF RefreshHostLock, Tasks, ProtectedTasks
  <2> QED
    BY <1>4, <1>1, <2>1 DEF RefreshHostLock, history
<1>5. CASE ResolveHost(e) \/ VerifyReturn(e) \/ AuditEvent(e)
  <2>1. pc[e] \in Tasks /\ pc[e] # "acquire_lock"
    BY <1>5 DEF ResolveHost, VerifyReturn, AuditEvent, Tasks, ProtectedTasks
  <2>2. UNCHANGED <<owner, last, trusted>>
    BY <1>5 DEF ResolveHost, VerifyReturn, AuditEvent, history
  <2>3. \E r \in {"ok", "error"} : EndTask(e, r)
    BY <1>5 DEF ResolveHost, VerifyReturn, AuditEvent
  <2> QED
    BY <1>1, <2>1, <2>2, <2>3
<1>6. CASE SetMasakariMaintenance(e) \/ SetNovaService(e) \/ AssertHostSafe(e)
           \/ SetNodePowerState(e) \/ FailSafeMaintenance(e)
  <2>1. pc[e] \in Tasks /\ pc[e] # "acquire_lock"
    BY <1>6 DEF SetMasakariMaintenance, SetNovaService, AssertHostSafe,
                SetNodePowerState, FailSafeMaintenance, Tasks, ProtectedTasks
  <2>2. UNCHANGED <<owner, last, trusted>>
    BY <1>6 DEF SetMasakariMaintenance, SetNovaService, AssertHostSafe,
                SetNodePowerState, FailSafeMaintenance, history
  <2>3. \E r \in {"ok", "error"} : EndTask(e, r)
    BY <1>6 DEF SetMasakariMaintenance, SetNovaService, AssertHostSafe,
                SetNodePowerState, FailSafeMaintenance, Replies
  <2> QED
    BY <1>1, <2>1, <2>2, <2>3
<1>7. CASE DrainHost(e) \/ PollDrained(e) \/ ReadBeforePower(e)
           \/ WaitNovaService(e) \/ FailSafeNova(e)
  <2>1. pc[e] \in Tasks /\ pc[e] # "acquire_lock"
    BY <1>7 DEF DrainHost, PollDrained, ReadBeforePower, WaitNovaService,
                FailSafeNova, Tasks, ProtectedTasks
  <2>2. UNCHANGED <<owner, last, trusted>>
    BY <1>7 DEF DrainHost, PollDrained, ReadBeforePower, WaitNovaService,
                FailSafeNova, history
  <2>3. NextCall(e) \/ \E r : EndTask(e, r)
    BY <1>7 DEF DrainHost, PollDrained, ReadBeforePower, WaitNovaService,
                FailSafeNova, Polled
  <2> QED
    BY <1>1, <1>2, <2>1, <2>2, <2>3
<1>8. CASE WaitPower(e)
  <2>1. pc[e] \in Tasks /\ pc[e] # "acquire_lock"
    BY <1>8 DEF WaitPower, Tasks, ProtectedTasks
  <2>2. UNCHANGED <<owner, last, trusted>>
    BY <1>8 DEF WaitPower, history
  <2>3. \/ /\ UNCHANGED <<wf, pc>>
           /\ step' = [step EXCEPT ![e] = @ + 1]
        \/ \E r : EndTask(e, r)
    BY <1>8 DEF WaitPower
  <2>4. CASE UNCHANGED <<wf, pc>> /\ step' = [step EXCEPT ![e] = @ + 1]
    BY <2>1, <2>2, <2>4 DEF InnerStep, MistralTypeOK
  <2> QED
    BY <1>1, <2>1, <2>2, <2>3, <2>4
<1> QED
  BY <1>3, <1>4, <1>5, <1>6, <1>7, <1>8 DEF ExecStep

\* A protected task is entered from a protected task or from acquire_lock,
\* and from acquire_lock only when it succeeded.
LEMMA EnteredProtected ==
  ASSUME NEW w \in Workflows, NEW t \in Tasks
  PROVE  /\ OnSuccess(w, t) \in ProtectedTasks
              => t \in ProtectedTasks \cup {"acquire_lock"}
         /\ OnError(t) \in ProtectedTasks => t \in ProtectedTasks
BY DEF OnSuccess, OnError, Tasks, ProtectedTasks, Workflows, CommonSuccessor,
       AfterResolve, AfterWaitOff, FailureTasks

\* Whoever is trusted shares the host only with trusted executions, and a
\* trusted execution in a protected task owns the lock and took it last.
TrustInv ==
  \A e, f \in Execs : trusted[e] /\ Running(f) => trusted[f]

LockInv ==
  \A e \in Execs :
    pc[e] \in ProtectedTasks /\ trusted[e] => owner = e /\ last = e

\* Every step of the planned workflows keeps both.
LEMMA LockStep ==
  TypeOK /\ TrustInv /\ LockInv /\ [Next]_vars => TrustInv' /\ LockInv'
<1> DEFINE Inv == TrustInv /\ LockInv
<1> SUFFICES ASSUME TypeOK, Inv, [Next]_vars PROVE Inv'
  OBVIOUS
<1> USE DEF TypeOK
<1>1. CASE UNCHANGED mistral
  BY <1>1 DEF mistral, engine, history, TrustInv, LockInv, Running
<1>2. CASE OrphanExpires
  <2>1. ~Running(owner) /\ UNCHANGED <<engine, history>>
    BY <1>2 DEF OrphanExpires
  <2>2. \A e \in Execs : ~(pc[e] \in ProtectedTasks /\ trusted[e])
    BY <2>1 DEF LockInv, Running, Tasks
  <2> QED
    BY <2>1, <2>2 DEF engine, history, TrustInv, LockInv, Running
<1>3. CASE LeaseLapses
  BY <1>3 DEF LeaseLapses, TrustInv, LockInv
<1>4. ASSUME NEW e \in Execs, Start(e) PROVE Inv'
  <2>1. /\ pc' = [pc EXCEPT ![e] = "acquire_lock"]
        /\ trusted' = [trusted EXCEPT ![e] =
                         \A f \in Execs : Running(f) => trusted[f]]
        /\ owner' = owner
        /\ last' = IF last = e THEN NoOne ELSE last
        /\ ~Running(e)
    BY <1>4 DEF Start, Running, Tasks, ProtectedTasks, Finished
  <2>2. TrustInv'
    BY <2>1 DEF TrustInv, Running, Tasks, MistralTypeOK
  <2>3. LockInv'
    BY <2>1 DEF LockInv, ProtectedTasks, MistralTypeOK
  <2> QED
    BY <2>2, <2>3
<1>5. ASSUME NEW e \in Execs, AcquireHostLock(e) PROVE Inv'
  <2>1. /\ pc[e] = "acquire_lock" /\ Running(e)
        /\ trusted' = trusted
        /\ \A f \in Execs \ {e} : pc'[f] = pc[f]
    BY <1>5 DEF AcquireHostLock, EndTask, Running, Tasks, MistralTypeOK
  <2>2. TrustInv'
    BY <2>1 DEF TrustInv, Running
  <2>3. CASE owner = NoOne
    <3>1. owner' = e /\ last' = e
      BY <1>5, <2>3 DEF AcquireHostLock
    <3>2. \A f \in Execs : ~(pc[f] \in ProtectedTasks /\ trusted[f])
      BY <2>3, ExecsAssumption DEF LockInv
    <3> QED
      BY <2>1, <2>2, <3>1, <3>2 DEF LockInv
  <2>4. CASE owner # NoOne
    <3>1. /\ UNCHANGED <<owner, last>>
          /\ pc'[e] = OnError("acquire_lock")
      BY <1>5, <2>4, <2>1 DEF AcquireHostLock, EndTask, MistralTypeOK
    <3>2. pc'[e] \notin ProtectedTasks
      <4>1. "acquire_lock" \in Tasks /\ "acquire_lock" \notin ProtectedTasks
        BY DEF Tasks, ProtectedTasks
      <4>2. OnError("acquire_lock") \in ProtectedTasks
              => "acquire_lock" \in ProtectedTasks
        BY <4>1, EnteredProtected DEF MistralTypeOK
      <4> QED
        BY <3>1, <4>1, <4>2
    <3> QED
      BY <2>1, <2>2, <3>1, <3>2 DEF LockInv
  <2> QED
    BY <2>3, <2>4
<1>6. ASSUME NEW e \in Execs, ReleaseHostLock(e) PROVE Inv'
  <2>1. /\ pc[e] \in {"release_lock", "release_lock_error"} /\ Running(e)
        /\ UNCHANGED <<trusted, last>>
        /\ \A f \in Execs \ {e} : pc'[f] = pc[f]
        /\ owner' = IF owner = e THEN NoOne ELSE owner
        /\ pc'[e] \in {OnSuccess(wf[e], pc[e]), OnError(pc[e])}
    BY <1>6 DEF ReleaseHostLock, EndTask, Running, Tasks, MistralTypeOK,
                history
  <2>2. TrustInv'
    BY <2>1 DEF TrustInv, Running
  <2>3. pc'[e] \notin ProtectedTasks
    BY <2>1, EnteredProtected DEF MistralTypeOK, ProtectedTasks, Tasks
  <2>4. LockInv'
    BY <2>1, <2>3 DEF LockInv
  <2> QED
    BY <2>2, <2>4
<1>7. ASSUME NEW e \in Execs, InnerStep(e) PROVE Inv'
  <2>1. TrustInv'
    BY <1>7 DEF InnerStep, TrustInv, Running
  <2>2. pc'[e] \in ProtectedTasks => pc[e] \in ProtectedTasks
    BY <1>7, EnteredProtected DEF InnerStep, MistralTypeOK
  <2> QED
    BY <1>7, <2>1, <2>2 DEF InnerStep, LockInv
<1> QED
  BY <1>1, <1>2, <1>3, <1>4, <1>5, <1>6, <1>7, InnerSteps
     DEF Next, MistralStep, vars

\* The lock invariant holds in every state.
LEMMA LockInvariant == Spec => [](TrustInv /\ LockInv)
<1> DEFINE Inv == TrustInv /\ LockInv
<1>1. Init => Inv
  BY DEF Init, MistralInit, TrustInv, LockInv
<1>2. TypeOK /\ Inv /\ [Next]_vars => Inv'
  BY LockStep
<1> QED
  BY <1>1, <1>2, TypeCorrect, PTL DEF Spec

\* As long as no lease lapses, the Redis lock keeps the executions of planned
\* workflows apart, whatever calls fail and however often they are retried.
THEOREM PlannedMutualExclusion == Spec => []MutualExclusion
<1>1. LockInv => MutualExclusion
  BY DEF LockInv, MutualExclusion
<1> QED
  BY <1>1, LockInvariant, PTL

\* The executions that act on the host and that no lapse has touched.
Acting == {e \in Execs : pc[e] \in ProtectedTasks /\ trusted[e]}

\* A step of the planned workflows is a step of the abstract lock, or leaves it as it is.
LEMMA PlannedStepIsLockStep ==
  ASSUME TypeOK, LockInv, LockInv', [Next]_vars
  PROVE  [Lock!Next]_<<owner, Acting>>
<1> USE DEF TypeOK, Lock!Next
<1>1. \A e \in Acting : owner = e
  BY DEF Acting, LockInv
<1>2. CASE UNCHANGED mistral
  BY <1>2 DEF mistral, engine, history, Acting
<1>3. CASE OrphanExpires
  <2>1. Acting = {}
    BY <1>1, <1>3 DEF OrphanExpires, Acting, Running, Tasks
  <2>2. Acting' = Acting /\ owner' = NoOne
    BY <1>3 DEF OrphanExpires, engine, history, Acting
  <2>3. Lock!GiveBack
    BY <2>1, <2>2 DEF Lock!GiveBack, Acting
  <2> QED
    BY <2>3
<1>4. CASE LeaseLapses
  <2>1. LeaseMayLapse /\ owner' = NoOne /\ Acting' = {}
    BY <1>4 DEF LeaseLapses, Acting
  <2>2. Lock!Lapse
    BY <2>1 DEF Lock!Lapse, Acting
  <2> QED
    BY <2>2
<1>5. ASSUME NEW e \in Execs, Start(e) PROVE [Lock!Next]_<<owner, Acting>>
  <2>1. /\ pc' = [pc EXCEPT ![e] = "acquire_lock"]
        /\ \A f \in Execs \ {e} : trusted'[f] = trusted[f]
        /\ owner' = owner
        /\ pc[e] \notin ProtectedTasks
    BY <1>5 DEF Start, ProtectedTasks, Finished, MistralTypeOK
  <2>2. Acting' = Acting
    BY <2>1 DEF Acting, ProtectedTasks, MistralTypeOK
  <2> QED
    BY <2>1, <2>2
<1>6. ASSUME NEW e \in Execs, AcquireHostLock(e) PROVE [Lock!Next]_<<owner, Acting>>
  <2>1. /\ pc[e] = "acquire_lock" /\ trusted' = trusted
        /\ \A f \in Execs \ {e} : pc'[f] = pc[f]
    BY <1>6 DEF AcquireHostLock, EndTask, MistralTypeOK
  <2>2. CASE owner = NoOne
    <3>1. Acting = {} /\ owner' = e
      BY <1>1, <1>6, <2>2, ExecsAssumption DEF AcquireHostLock, Acting
    <3>2. Acting' \in {{}, {e}}
      BY <2>1, <3>1 DEF Acting
    <3>3. Lock!Acquire(e)
      BY <2>2, <3>1, <3>2 DEF Lock!Acquire, Acting
    <3> QED
      BY <3>3
  <2>3. CASE owner # NoOne
    <3>1. owner' = owner /\ pc'[e] = OnError("acquire_lock")
      BY <1>6, <2>1, <2>3 DEF AcquireHostLock, EndTask, MistralTypeOK
    <3>2. pc[e] \notin ProtectedTasks /\ pc'[e] \notin ProtectedTasks
      BY <2>1, <3>1 DEF OnError, FailureTasks, ProtectedTasks
    <3>3. Acting' = Acting
      BY <2>1, <3>2 DEF Acting
    <3> QED
      BY <3>1, <3>3
  <2> QED
    BY <2>2, <2>3
<1>7. ASSUME NEW e \in Execs, ReleaseHostLock(e) PROVE [Lock!Next]_<<owner, Acting>>
  <2>1. /\ pc[e] \in {"release_lock", "release_lock_error"} /\ trusted' = trusted
        /\ \A f \in Execs \ {e} : pc'[f] = pc[f]
        /\ owner' = IF owner = e THEN NoOne ELSE owner
        /\ pc'[e] \in {OnSuccess(wf[e], pc[e]), OnError(pc[e])}
    BY <1>7 DEF ReleaseHostLock, EndTask, MistralTypeOK, history
  <2>2. pc[e] \notin ProtectedTasks /\ pc'[e] \notin ProtectedTasks
    BY <2>1, EnteredProtected DEF MistralTypeOK, ProtectedTasks, Tasks
  <2>3. Acting' = Acting
    BY <2>1, <2>2 DEF Acting
  <2>4. CASE owner = e
    <3>1. Acting = {}
      BY <1>1, <2>2, <2>4 DEF Acting
    <3>2. Lock!GiveBack
      BY <2>1, <2>3, <2>4, <3>1 DEF Lock!GiveBack, Acting
    <3> QED
      BY <3>2
  <2> QED
    BY <2>1, <2>3, <2>4
<1>8. ASSUME NEW e \in Execs, InnerStep(e) PROVE [Lock!Next]_<<owner, Acting>>
  <2>1. /\ \A f \in Execs \ {e} : pc'[f] = pc[f]
        /\ UNCHANGED <<owner, trusted>>
        /\ pc'[e] \in ProtectedTasks => pc[e] \in ProtectedTasks
    BY <1>8, EnteredProtected DEF InnerStep, MistralTypeOK
  <2>2. CASE e \in Acting /\ e \notin Acting'
    <3>1. Acting = {e}
      BY <1>1, <2>2
    <3>2. Acting' = {}
      BY <2>1, <2>2, <3>1 DEF Acting
    <3>3. Lock!Leave
      BY <2>1, <3>2 DEF Lock!Leave, Acting
    <3> QED
      BY <3>3
  <2>3. CASE ~(e \in Acting /\ e \notin Acting')
    <3>1. Acting' = Acting
      BY <2>1, <2>3 DEF Acting
    <3> QED
      BY <2>1, <3>1
  <2> QED
    BY <2>2, <2>3
<1> QED
  BY <1>2, <1>3, <1>4, <1>5, <1>6, <1>7, <1>8, InnerSteps DEF Next, MistralStep, vars

\* Whatever calls fail and whenever leases lapse, the executions that no lapse has
\* touched have a lock that is taken only when it is free, under which only its owner
\* acts, and that is free again only when none of them acts.
THEOREM PlannedWorkHasLock == Spec => ImplementsHostLock
<1>1. Init => Lock!Init
  BY DEF Init, MistralInit, Lock!Init, ProtectedTasks
<1>2. TypeOK /\ LockInv /\ LockInv' /\ [Next]_vars => [Lock!Next]_<<owner, Acting>>
  BY PlannedStepIsLockStep
<1> QED
  BY <1>1, <1>2, TypeCorrect, LockInvariant, PTL
     DEF Spec, ImplementsHostLock, Lock!Spec, Acting

\* The lock of an execution is taken away only by a step of that execution or
\* by its expiry, even among executions that lost their lease: the refresh
\* and release scripts compare the owner first.
THEOREM LockIsOwnerSafe == Spec => OwnerSafe
<1> DEFINE Safe == \A f \in Execs :
                     owner = f /\ owner' # f => pc' = pc \/ pc'[f] # pc[f]
<1>1. TypeOK /\ [Next]_vars => [Safe]_vars
  <2> SUFFICES ASSUME TypeOK, Next, NEW f \in Execs, owner = f, owner' # f
               PROVE  pc' = pc \/ pc'[f] # pc[f]
    OBVIOUS
  <2> USE DEF TypeOK
  <2>1. CASE CloudStep /\ UNCHANGED mistral
    BY <2>1 DEF mistral
  <2>2. CASE OrphanExpires \/ LeaseLapses
    BY <2>2 DEF OrphanExpires, LeaseLapses, engine
  <2>3. ASSUME NEW e \in Execs, Start(e) PROVE FALSE
    BY <2>3 DEF Start
  <2>4. ASSUME NEW e \in Execs, AcquireHostLock(e) PROVE FALSE
    BY <2>4, ExecsAssumption DEF AcquireHostLock
  <2>5. ASSUME NEW e \in Execs, ReleaseHostLock(e) PROVE pc'[f] # pc[f]
    <3>1. e = f
      BY <2>5 DEF ReleaseHostLock
    <3>2. pc'[f] \in {OnSuccess(wf[f], pc[f]), OnError(pc[f])}
      BY <2>5, <3>1 DEF ReleaseHostLock, EndTask, MistralTypeOK
    <3>3. CASE pc[f] = "release_lock"
      BY <3>2, <3>3 DEF OnSuccess, OnError, CommonSuccessor, FailureTasks
    <3>4. CASE pc[f] = "release_lock_error"
      BY <3>2, <3>4 DEF OnSuccess, OnError, CommonSuccessor, FailureTasks
    <3> QED
      BY <2>5, <3>1, <3>3, <3>4 DEF ReleaseHostLock
  <2>6. ASSUME NEW e \in Execs, InnerStep(e) PROVE FALSE
    BY <2>6 DEF InnerStep
  <2> QED
    BY <2>1, <2>2, <2>3, <2>4, <2>5, <2>6, InnerSteps DEF Next, MistralStep
<1> QED
  BY <1>1, TypeCorrect, PTL DEF Spec, OwnerSafe

-----------------------------------------------------------------------------
(***************************************************************************)
(* Guests.                                                                 *)
(***************************************************************************)

\* When a power off is about to be requested, every server that has not come
\* or been started since the last safe observation is elsewhere or stopped.
\* An ERROR server would do for the property, but not for the induction: a
\* server in ERROR can still be told to stop.
GuestInv ==
  \A e \in Execs : pc[e] = "request_off" =>
    \A s \in Servers \ late : servers[s] \in {"AWAY", "SCHEDULED", "SHUTOFF"}

\* request_off is entered only by the success of assert_host_safe.
LEMMA EnteredRequestOff ==
  ASSUME NEW w \in Workflows, NEW t \in Tasks
  PROVE  /\ OnSuccess(w, t) = "request_off" => t = "assert_host_safe"
         /\ OnError(t) # "request_off"
BY DEF OnSuccess, OnError, Tasks, ProtectedTasks, Workflows, CommonSuccessor,
       AfterResolve, AfterWaitOff, FailureTasks

\* assert_host_empty passes only when all servers on the host are stopped.
LEMMA AssertMeansStopped ==
  ASSUME CloudTypeOK, NEW p, AssertHostEmpty(p, ServersOnHost)
  PROVE  \A s \in Servers : servers[s] \in {"AWAY", "SCHEDULED", "SHUTOFF"}
<1> SUFFICES ASSUME NEW s \in Servers, servers[s] \notin {"AWAY", "SCHEDULED"}
             PROVE  servers[s] = "SHUTOFF"
  OBVIOUS
<1>1. s \in OnHost
  BY DEF OnHost
<1>2. StatusOf(s) \in ServersOnHost
  BY <1>1 DEF ServersOnHost
<1>3. StatusOf(s) = "SHUTOFF"
  BY <1>2 DEF AssertHostEmpty
<1> QED
  BY <1>3 DEF StatusOf

\* A cloud step makes no server run without remembering it as late.
LEMMA CloudRemembers ==
  ASSUME CloudTypeOK, CloudStep,
         \A s \in Servers \ late : servers[s] \in {"AWAY", "SCHEDULED", "SHUTOFF"}
  PROVE  \A s \in Servers \ late' :
           servers'[s] \in {"AWAY", "SCHEDULED", "SHUTOFF"}
<1>1. CASE PowerSettles \/ PowerFails \/ NovaReports
  BY <1>1 DEF PowerSettles, PowerFails, NovaReports
<1>2. ASSUME NEW t \in Servers,
             Schedule(t) \/ Land(t) \/ TenantStarts(t) \/ StopEnds(t)
               \/ MigrationEnds(t)
      PROVE  \A s \in Servers \ late' :
               servers'[s] \in {"AWAY", "SCHEDULED", "SHUTOFF"}
  <2>1. PICK st \in ServerStates :
          /\ ServerBecomes(t, st)
          /\ st = "ERROR" => t \in late
          /\ st \in {"AWAY", "SCHEDULED", "SHUTOFF", "ACTIVE", "ERROR"}
    BY <1>2 DEF Schedule, Land, TenantStarts, StopEnds, MigrationEnds,
                ServerStates
  <2> QED
    BY <2>1 DEF ServerBecomes, CloudTypeOK
<1> QED
  BY <1>1, <1>2 DEF CloudStep

\* Every step of the planned workflows keeps the strengthened invariant.
LEMMA GuestStep == TypeOK /\ GuestInv /\ [Next]_vars => GuestInv'
<1> SUFFICES ASSUME TypeOK, GuestInv, [Next]_vars PROVE GuestInv'
  OBVIOUS
<1> USE DEF TypeOK
<1>1. CASE UNCHANGED vars
  BY <1>1 DEF vars, mistral, cloud, engine, GuestInv
<1>2. CASE CloudStep /\ UNCHANGED mistral
  BY <1>2, CloudRemembers DEF mistral, engine, GuestInv
<1>3. CASE OrphanExpires \/ LeaseLapses
  BY <1>3 DEF OrphanExpires, LeaseLapses, cloud, engine, GuestInv
<1>4. ASSUME NEW e \in Execs, Start(e) PROVE GuestInv'
  BY <1>4 DEF Start, cloud, GuestInv, MistralTypeOK
<1>5. ASSUME NEW e \in Execs, AssertHostSafe(e) PROVE GuestInv'
  <2>1. CASE AssertHostEmpty(policy[e], ServersOnHost)
    <3>1. \A s \in Servers : servers[s] \in {"AWAY", "SCHEDULED", "SHUTOFF"}
      BY <2>1, AssertMeansStopped
    <3> QED
      BY <1>5, <3>1 DEF AssertHostSafe, GuestInv
  <2>2. CASE ~AssertHostEmpty(policy[e], ServersOnHost)
    <3>1. /\ UNCHANGED <<servers, late>>
          /\ pc' = [pc EXCEPT ![e] = OnError(pc[e])]
          /\ pc[e] \in Tasks
      BY <1>5, <2>2 DEF AssertHostSafe, EndTask, Tasks, ProtectedTasks
    <3>2. OnError(pc[e]) # "request_off"
      BY <3>1, EnteredRequestOff DEF MistralTypeOK
    <3> QED
      BY <3>1, <3>2 DEF GuestInv, MistralTypeOK
  <2> QED
    BY <2>1, <2>2
<1>6. ASSUME NEW e \in Execs, ExecStep(e), ~AssertHostSafe(e)
      PROVE  GuestInv'
  <2>1. /\ pc'[e] \in {pc[e], OnSuccess(wf[e], pc[e]), OnError(pc[e])}
        /\ pc[e] \in Tasks
        /\ \A f \in Execs \ {e} : pc'[f] = pc[f]
    <3>1. CASE AcquireHostLock(e)
      BY <3>1 DEF AcquireHostLock, EndTask, Tasks, MistralTypeOK
    <3>2. CASE ReleaseHostLock(e)
      BY <3>2 DEF ReleaseHostLock, EndTask, Tasks, MistralTypeOK
    <3> QED
      BY <1>6, <3>1, <3>2, InnerSteps DEF InnerStep
  <2>2. late' = late
    BY <1>6 DEF ExecStep, AcquireHostLock, RefreshHostLock, ReleaseHostLock,
         ResolveHost, SetMasakariMaintenance, SetNovaService, DrainHost,
         PollDrained, ReadBeforePower, SetNodePowerState, WaitPower,
         WaitNovaService, VerifyReturn, AuditEvent, FailSafeNova,
         FailSafeMaintenance, TaskFails, cloud
  <2>3. CASE DrainHost(e)
    <3>1. /\ pc[e] = "drain_instances"
          /\ \/ UNCHANGED servers
             \/ \E S \in SUBSET Commandable(policy[e]) :
                  servers' = Commanded(policy[e], S)
      BY <2>3 DEF DrainHost
    <3>2. \A s \in Servers :
            servers[s] \in {"AWAY", "SCHEDULED", "SHUTOFF"}
              => servers'[s] = servers[s]
      BY <3>1 DEF Commandable, Commanded, OnHost
    <3>3. pc'[e] # "request_off"
      BY <2>1, <3>1, EnteredRequestOff DEF MistralTypeOK
    <3> QED
      BY <2>1, <2>2, <3>2, <3>3 DEF GuestInv
  <2>4. CASE ~DrainHost(e)
    <3>1. servers' = servers
      BY <1>6, <2>4 DEF ExecStep, AcquireHostLock, RefreshHostLock,
           ReleaseHostLock, ResolveHost, SetMasakariMaintenance,
           SetNovaService, PollDrained, ReadBeforePower, SetNodePowerState,
           WaitPower, WaitNovaService, VerifyReturn, AuditEvent,
           FailSafeNova, FailSafeMaintenance, TaskFails, cloud
    <3>2. CASE pc[e] = "assert_host_safe"
      <4>1. TaskFails(e)
        BY <1>6, <3>2 DEF ExecStep, AcquireHostLock, RefreshHostLock,
           ReleaseHostLock, ResolveHost, SetMasakariMaintenance, DrainHost,
           SetNovaService, PollDrained, ReadBeforePower, SetNodePowerState,
           WaitPower, WaitNovaService, VerifyReturn, AuditEvent,
           FailSafeNova, FailSafeMaintenance
      <4>2. pc'[e] = OnError(pc[e])
        BY <4>1 DEF TaskFails, EndTask, MistralTypeOK
      <4>3. pc'[e] # "request_off"
        BY <2>1, <4>2, EnteredRequestOff DEF MistralTypeOK
      <4> QED
        BY <2>1, <2>2, <3>1, <4>3 DEF GuestInv
    <3>3. CASE pc[e] # "assert_host_safe"
      <4>1. pc'[e] = "request_off" => pc[e] = "request_off"
        BY <2>1, <3>3, EnteredRequestOff DEF MistralTypeOK
      <4> QED
        BY <2>1, <2>2, <3>1, <4>1 DEF GuestInv
    <3> QED
      BY <3>2, <3>3
  <2> QED
    BY <2>3, <2>4
<1> QED
  BY <1>1, <1>2, <1>3, <1>4, <1>5, <1>6 DEF Next, MistralStep

\* The power off of a planned workflow reaches no guest that was running when
\* assert_host_safe looked, with or without a valid lease.
THEOREM PowerOffSparesSeenGuests == Spec => []PowerOffSparesGuests
<1>1. Init => GuestInv
  BY DEF Init, MistralInit, GuestInv
<1>2. TypeOK /\ GuestInv /\ [Next]_vars => GuestInv'
  BY GuestStep
<1>3. TypeOK /\ GuestInv => PowerOffSparesGuests
  BY DEF TypeOK, CloudTypeOK, GuestInv, PowerOffSparesGuests, RunningHere
<1> QED
  BY <1>1, <1>2, <1>3, TypeCorrect, PTL DEF Spec

-----------------------------------------------------------------------------
(***************************************************************************)
(* When the host is out of service, which the planned workflows leave to   *)
(* the scheduler and to Masakari, and that it stays so after a failure.    *)
(* By the lock invariant only the execution that holds the host touches    *)
(* its service flags.                                                      *)
(***************************************************************************)

Flags == <<nova.status, maintenance>>

\* The steps that write the flags.
FlagStep(e) ==
  \/ SetMasakariMaintenance(e) \/ SetNovaService(e)
  \/ FailSafeNova(e) \/ FailSafeMaintenance(e)

\* What every step of a running execution has in common.
LEMMA ExecSteps ==
  ASSUME TypeOK, NEW e \in Execs, ExecStep(e)
  PROVE  /\ pc[e] \in Tasks
         /\ pc'[e] \in {pc[e], OnSuccess(wf[e], pc[e]), OnError(pc[e])}
         /\ \A f \in Execs \ {e} : pc'[f] = pc[f] /\ step'[f] = step[f]
         /\ UNCHANGED <<wf, trusted>>
         /\ last' \in {last, e}
<1> USE DEF TypeOK
<1>1. CASE AcquireHostLock(e)
  BY <1>1 DEF AcquireHostLock, EndTask, Tasks, MistralTypeOK
<1>2. CASE ReleaseHostLock(e)
  BY <1>2 DEF ReleaseHostLock, EndTask, Tasks, MistralTypeOK, history
<1> QED
  BY <1>1, <1>2, InnerSteps DEF InnerStep

\* Every other step of an execution leaves the flags alone, and so does every
\* step but FailSafeMaintenance the memory of a fail-safe that went through.
LEMMA OtherSteps ==
  ASSUME NEW e \in Execs, ExecStep(e)
  PROVE  /\ ~FlagStep(e) => UNCHANGED Flags
         /\ ~FailSafeMaintenance(e) => UNCHANGED safe
<1>1. ASSUME ~FlagStep(e) PROVE UNCHANGED <<nova, maintenance>>
  BY <1>1 DEF ExecStep, FlagStep, AcquireHostLock, RefreshHostLock,
       ReleaseHostLock, ResolveHost, DrainHost, PollDrained, AssertHostSafe,
       ReadBeforePower, SetNodePowerState, WaitPower, WaitNovaService,
       VerifyReturn, AuditEvent, TaskFails, cloud
<1>2. ASSUME ~FailSafeMaintenance(e) PROVE UNCHANGED safe
  BY <1>2 DEF ExecStep, AcquireHostLock, RefreshHostLock, ReleaseHostLock,
       ResolveHost, SetMasakariMaintenance, SetNovaService, DrainHost,
       PollDrained, AssertHostSafe, ReadBeforePower, SetNodePowerState,
       WaitPower, WaitNovaService, VerifyReturn, AuditEvent, FailSafeNova,
       TaskFails, history
<1> QED
  BY <1>1, <1>2 DEF Flags

\* Only an execution in a protected task writes the flags.
LEMMA FlagStepsProtected ==
  ASSUME NEW e \in Execs, FlagStep(e)
  PROVE  pc[e] \in ProtectedTasks
BY DEF FlagStep, SetMasakariMaintenance, SetNovaService, FailSafeNova,
       FailSafeMaintenance, ProtectedTasks

\* While a trusted execution is the last one that took the lock, no other
\* execution writes the flags.
LEMMA OthersKeepFlags ==
  ASSUME TypeOK, TrustInv, LockInv, NEW e \in Execs, NEW f \in Execs, e # f,
         trusted[e], last = e, ExecStep(f)
  PROVE  UNCHANGED Flags
<1>1. trusted[f]
  BY ExecSteps DEF TrustInv, Running
<1>2. pc[f] \notin ProtectedTasks
  BY <1>1 DEF LockInv
<1> QED
  BY <1>2, FlagStepsProtected, OtherSteps

-----------------------------------------------------------------------------
(***************************************************************************)
(* Out of service while the host is worked on.                             *)
(***************************************************************************)

\* The strengthening: the maintenance flag is already set when nova_disable
\* runs.
OutInv ==
  \A e \in Execs :
    wf[e] # "power_on_and_return" /\ trusted[e] =>
      /\ pc[e] = "nova_disable" => maintenance
      /\ pc[e] \in AwayFromService => OutOfService

\* How planned workflows come to work on the host.
LEMMA EnteredAway ==
  ASSUME NEW w \in Workflows, w # "power_on_and_return", NEW t \in Tasks
  PROVE  /\ OnSuccess(w, t) \in AwayFromService
              => t \in AwayFromService \cup {"nova_disable"}
         /\ OnSuccess(w, t) = "nova_disable" => t = "maintenance_on"
         /\ OnError(t) \notin AwayFromService \cup {"nova_disable"}
BY DEF OnSuccess, OnError, Tasks, ProtectedTasks, Workflows, CommonSuccessor,
       AfterResolve, AfterWaitOff, FailureTasks, AwayFromService

\* All of these tasks are under the protection of the lock.
LEMMA AwayIsProtected ==
  AwayFromService \cup {"nova_disable"} \subseteq ProtectedTasks
BY DEF AwayFromService, ProtectedTasks

\* What a step of the execution itself does to its part of the invariant.
LEMMA OutOwnStep ==
  ASSUME TypeOK, OutInv, NEW e \in Execs, ExecStep(e),
         wf[e] # "power_on_and_return", trusted[e]
  PROVE  /\ pc'[e] = "nova_disable" => maintenance'
         /\ pc'[e] \in AwayFromService => OutOfService'
<1> USE DEF TypeOK
<1>1. /\ pc[e] \in Tasks
      /\ wf[e] \in Workflows
      /\ pc'[e] \in {pc[e], OnSuccess(wf[e], pc[e]), OnError(pc[e])}
  BY ExecSteps DEF MistralTypeOK
<1>2. CASE SetMasakariMaintenance(e)
  <2>1. pc[e] \in {"maintenance_on", "maintenance_off"}
    BY <1>2 DEF SetMasakariMaintenance
  <2>2. pc'[e] \notin AwayFromService
    BY <1>1, <2>1, EnteredAway DEF AwayFromService
  <2>3. ASSUME pc'[e] = "nova_disable" PROVE maintenance'
    <3>1. pc[e] = "maintenance_on" /\ pc'[e] # OnError(pc[e])
      BY <1>1, <2>1, <2>3, EnteredAway
    <3>2. "masakari" \in Mapped
      BY <1>2, <3>1 DEF SetMasakariMaintenance, EndTask, MistralTypeOK
    <3> QED
      BY <1>2, <3>1, <3>2 DEF SetMasakariMaintenance
  <2> QED
    BY <2>2, <2>3
<1>3. CASE SetNovaService(e)
  <2>1. pc[e] \in {"nova_disable", "nova_enable"} /\ maintenance' = maintenance
    BY <1>3 DEF SetNovaService
  <2>2. pc'[e] \in {OnSuccess(wf[e], pc[e]), OnError(pc[e])}
    BY <1>3 DEF SetNovaService, EndTask, MistralTypeOK
  <2>3. pc'[e] # "nova_disable"
    BY <1>1, <2>1, <2>2, EnteredAway
  <2>4. CASE pc[e] = "nova_enable"
    <3>1. OnSuccess(wf[e], "nova_enable") = "maintenance_off"
      BY DEF OnSuccess, CommonSuccessor
    <3> QED
      BY <1>1, <2>2, <2>3, <2>4, <3>1, EnteredAway DEF AwayFromService
  <2>5. ASSUME pc[e] = "nova_disable", pc'[e] \in AwayFromService
        PROVE  OutOfService'
    <3>1. pc'[e] # OnError(pc[e])
      BY <1>1, <2>5, EnteredAway
    <3>2. "nova" \in Mapped
      BY <1>3, <3>1 DEF SetNovaService, EndTask, MistralTypeOK
    <3>3. nova'.status = "disabled"
      BY <1>3, <2>5, <3>2 DEF SetNovaService, NovaWithStatus, CloudTypeOK
    <3>4. maintenance
      BY <2>5 DEF OutInv
    <3> QED
      BY <2>1, <3>3, <3>4 DEF OutOfService
  <2> QED
    BY <2>1, <2>3, <2>4, <2>5
<1>4. CASE FailSafeNova(e) \/ FailSafeMaintenance(e)
  <2>1. pc[e] = "fail_safe_host"
    BY <1>4 DEF FailSafeNova, FailSafeMaintenance
  <2>2. pc'[e] \in {"fail_safe_host", "audit_failure"}
    BY <1>1, <2>1 DEF OnSuccess, OnError, CommonSuccessor, FailureTasks
  <2> QED
    BY <2>2 DEF AwayFromService
<1>5. CASE ~FlagStep(e)
  <2>1. nova'.status = nova.status /\ maintenance' = maintenance
    BY <1>5, OtherSteps DEF Flags
  <2>2. ASSUME pc'[e] = "nova_disable" PROVE pc[e] = "nova_disable"
    <3>1. CASE pc[e] = "maintenance_on"
      <4>1. TaskFails(e)
        BY <1>5, <3>1 DEF ExecStep, FlagStep, AcquireHostLock, RefreshHostLock,
             ReleaseHostLock, ResolveHost, DrainHost, PollDrained,
             AssertHostSafe, ReadBeforePower, SetNodePowerState, WaitPower,
             WaitNovaService, VerifyReturn, AuditEvent
      <4>2. pc'[e] = OnError(pc[e])
        BY <4>1 DEF TaskFails, EndTask, MistralTypeOK
      <4> QED
        BY <1>1, <2>2, <4>2, EnteredAway
    <3> QED
      BY <1>1, <2>2, <3>1, EnteredAway
  <2>3. ASSUME pc'[e] \in AwayFromService PROVE pc[e] \in AwayFromService
    <3>1. CASE pc[e] = "nova_disable"
      <4>1. TaskFails(e)
        BY <1>5, <3>1 DEF ExecStep, FlagStep, AcquireHostLock, RefreshHostLock,
             ReleaseHostLock, ResolveHost, DrainHost, PollDrained,
             AssertHostSafe, ReadBeforePower, SetNodePowerState, WaitPower,
             WaitNovaService, VerifyReturn, AuditEvent
      <4>2. pc'[e] = OnError(pc[e])
        BY <4>1 DEF TaskFails, EndTask, MistralTypeOK
      <4> QED
        BY <1>1, <2>3, <4>2, EnteredAway
    <3> QED
      BY <1>1, <2>3, <3>1, EnteredAway
  <2> QED
    BY <2>1, <2>2, <2>3 DEF OutInv, OutOfService
<1> QED
  BY <1>2, <1>3, <1>4, <1>5 DEF FlagStep

\* Every step of the planned workflows keeps the strengthened invariant.
LEMMA OutStep ==
  TypeOK /\ TrustInv /\ LockInv /\ OutInv /\ [Next]_vars => OutInv'
<1> SUFFICES ASSUME TypeOK, TrustInv, LockInv, OutInv, [Next]_vars
             PROVE  OutInv'
  OBVIOUS
<1> USE DEF TypeOK
<1>1. CASE UNCHANGED vars
  BY <1>1 DEF vars, mistral, cloud, engine, history, OutInv, OutOfService
<1>2. CASE CloudStep /\ UNCHANGED mistral
  BY <1>2, CloudKeeps DEF mistral, engine, history, OutInv, OutOfService
<1>3. CASE OrphanExpires \/ LeaseLapses
  BY <1>3 DEF OrphanExpires, LeaseLapses, cloud, engine, history, OutInv,
              OutOfService
<1>4. ASSUME NEW e \in Execs, Start(e) PROVE OutInv'
  BY <1>4 DEF Start, cloud, OutInv, OutOfService, AwayFromService,
              MistralTypeOK
<1>5. ASSUME NEW e \in Execs, ExecStep(e) PROVE OutInv'
  <2> SUFFICES ASSUME NEW f \in Execs,
                      wf'[f] # "power_on_and_return", trusted'[f]
               PROVE  /\ pc'[f] = "nova_disable" => maintenance'
                      /\ pc'[f] \in AwayFromService => OutOfService'
    BY DEF OutInv
  <2>1. wf[f] # "power_on_and_return" /\ trusted[f]
    BY <1>5, ExecSteps
  <2>2. CASE f = e
    BY <1>5, <2>1, <2>2, OutOwnStep
  <2>3. CASE f # e
    <3>1. pc'[f] = pc[f]
      BY <1>5, <2>3, ExecSteps
    <3>2. ASSUME pc[f] \in AwayFromService \cup {"nova_disable"}
          PROVE  UNCHANGED Flags
      <4>1. last = f
        BY <2>1, <3>2, AwayIsProtected DEF LockInv
      <4> QED
        BY <1>5, <2>1, <2>3, <4>1, OthersKeepFlags
    <3> QED
      BY <2>1, <3>1, <3>2 DEF OutInv, OutOfService, Flags
  <2> QED
    BY <2>2, <2>3
<1> QED
  BY <1>1, <1>2, <1>3, <1>4, <1>5 DEF Next, MistralStep

\* From the drain to the return of a host, planned_power_off and
\* planned_reboot have the Nova service disabled and the Masakari maintenance
\* set, whichever calls fail and whatever other executions try.
THEOREM PlannedWorkIsOutOfService == Spec => []PlannedOutOfService
<1>1. Init => OutInv
  BY DEF Init, MistralInit, OutInv
<1>2. TypeOK /\ TrustInv /\ LockInv /\ OutInv /\ [Next]_vars => OutInv'
  BY OutStep
<1>3. OutInv => PlannedOutOfService
  BY DEF OutInv, PlannedOutOfService
<1> QED
  BY <1>1, <1>2, <1>3, TypeCorrect, LockInvariant, PTL DEF Spec

-----------------------------------------------------------------------------
(***************************************************************************)
(* Out of service after a failure.                                         *)
(***************************************************************************)

\* The strengthening: only an execution at the end of its failure path has a
\* fail-safe behind it, and between the two halves of its own fail-safe the
\* Nova service stays disabled.
FailInv ==
  \A e \in Execs :
    /\ safe[e] => pc[e] \in {"audit_failure", "release_lock_error", "ERROR"}
    /\ pc[e] = "fail_safe_host" /\ step[e] # 0 /\ trusted[e]
         => nova.status = "disabled"
    /\ safe[e] /\ trusted[e] /\ last = e => OutOfService

\* fail_safe_host is entered at its first call, and goes on only after the
\* call that disables the service.
LEMMA FailSafeEntered ==
  ASSUME TypeOK, NEW e \in Execs, ExecStep(e), pc'[e] = "fail_safe_host"
  PROVE  step'[e] = 0 \/ (FailSafeNova(e) /\ nova'.status = "disabled")
<1> USE DEF TypeOK
<1>1. ASSUME NEW r, EndTask(e, r) PROVE step'[e] = 0
  BY <1>1 DEF EndTask, MistralTypeOK
<1>2. CASE FailSafeNova(e)
  <2>1. CASE "nova" \in Mapped
    BY <1>2, <2>1 DEF FailSafeNova, CloudTypeOK
  <2>2. CASE "nova" \notin Mapped
    BY <1>1, <1>2, <2>2 DEF FailSafeNova
  <2> QED
    BY <1>2, <2>1, <2>2
<1>3. CASE DrainHost(e) \/ PollDrained(e) \/ ReadBeforePower(e)
           \/ WaitNovaService(e) \/ WaitPower(e)
  <2>1. pc[e] # "fail_safe_host"
    BY <1>3 DEF DrainHost, PollDrained, ReadBeforePower, WaitNovaService,
                WaitPower
  <2>2. \/ \E r : EndTask(e, r)
        \/ pc' = pc
    BY <1>3 DEF DrainHost, PollDrained, ReadBeforePower, WaitNovaService,
                WaitPower, Polled, NextCall
  <2> QED
    BY <1>1, <2>1, <2>2
<1>4. CASE \/ AcquireHostLock(e) \/ RefreshHostLock(e) \/ ReleaseHostLock(e)
           \/ ResolveHost(e) \/ SetMasakariMaintenance(e) \/ SetNovaService(e)
           \/ AssertHostSafe(e) \/ SetNodePowerState(e) \/ VerifyReturn(e)
           \/ AuditEvent(e) \/ FailSafeMaintenance(e) \/ TaskFails(e)
  <2>1. \E r : EndTask(e, r)
    BY <1>4 DEF AcquireHostLock, RefreshHostLock, ReleaseHostLock, ResolveHost,
         SetMasakariMaintenance, SetNovaService, AssertHostSafe,
         SetNodePowerState, VerifyReturn, AuditEvent, FailSafeMaintenance,
         TaskFails
  <2> QED
    BY <1>1, <2>1
<1> QED
  BY <1>2, <1>3, <1>4 DEF ExecStep

\* A step of the execution itself keeps its part of the invariant.
LEMMA FailOwnStep ==
  ASSUME TypeOK, FailInv, NEW e \in Execs, ExecStep(e)
  PROVE  /\ safe'[e] => pc'[e] \in {"audit_failure", "release_lock_error",
                                     "ERROR"}
         /\ pc'[e] = "fail_safe_host" /\ step'[e] # 0 => nova'.status = "disabled"
         /\ safe'[e] /\ trusted[e] /\ last' = e => OutOfService'
<1> USE DEF TypeOK
<1>1. /\ pc[e] \in Tasks
      /\ pc'[e] \in {pc[e], OnSuccess(wf[e], pc[e]), OnError(pc[e])}
      /\ last' \in {last, e}
  BY ExecSteps
<1>2. pc'[e] = "fail_safe_host" /\ step'[e] # 0 => nova'.status = "disabled"
  BY FailSafeEntered
<1>3. CASE FailSafeMaintenance(e)
  <2>1. pc[e] = "fail_safe_host" /\ step[e] = 1 /\ ~safe[e] /\ last' = last
    BY <1>3 DEF FailSafeMaintenance, FailInv
  <2>2. CASE safe'[e]
    <3>1. "masakari" \in Mapped
      BY <1>3, <2>1, <2>2 DEF FailSafeMaintenance
    <3>2. /\ EndTask(e, "ok")
          /\ maintenance' = TRUE
          /\ nova' = nova
      BY <1>3, <2>2, <3>1 DEF FailSafeMaintenance, MistralTypeOK
    <3>3. pc'[e] = "audit_failure"
      BY <2>1, <3>2 DEF EndTask, OnSuccess, CommonSuccessor, MistralTypeOK
    <3>4. trusted[e] => nova.status = "disabled"
      BY <2>1 DEF FailInv
    <3> QED
      BY <1>2, <3>2, <3>3, <3>4 DEF OutOfService
  <2> QED
    BY <1>2, <2>2
<1>4. CASE ~FailSafeMaintenance(e)
  <2>1. safe' = safe
    BY <1>4, OtherSteps
  <2>2. CASE safe[e]
    <3>1. pc[e] \in {"audit_failure", "release_lock_error"}
      BY <1>1, <2>2 DEF FailInv, Tasks, ProtectedTasks
    <3>2. pc'[e] \in {"audit_failure", "release_lock_error", "ERROR"}
      BY <1>1, <3>1 DEF OnSuccess, OnError, CommonSuccessor, FailureTasks
    <3>3. ~FlagStep(e) /\ last' = last
      <4>1. ~AcquireHostLock(e) /\ ~FlagStep(e)
        BY <3>1 DEF FlagStep, SetMasakariMaintenance, SetNovaService,
                    FailSafeNova, FailSafeMaintenance, AcquireHostLock
      <4>2. last' = last
        <5>1. CASE ReleaseHostLock(e)
          BY <5>1 DEF ReleaseHostLock, history
        <5> QED
          BY <4>1, <5>1, InnerSteps DEF InnerStep
      <4> QED
        BY <4>1, <4>2
    <3>4. UNCHANGED Flags
      BY <3>3, OtherSteps
    <3> QED
      BY <1>2, <2>1, <2>2, <3>2, <3>3, <3>4
         DEF FailInv, OutOfService, Flags
  <2>3. CASE ~safe[e]
    BY <1>2, <2>1, <2>3
  <2> QED
    BY <2>2, <2>3
<1> QED
  BY <1>3, <1>4

\* After a failure whose fail_safe_host went through, the host stays disabled
\* and on maintenance until the next execution takes the lock.
THEOREM FailureKeepsHostOut == Spec => []FailureLeavesHostOut
<1>1. Init => FailInv
  BY DEF Init, MistralInit, FailInv
<1>2. TypeOK /\ TrustInv /\ LockInv /\ FailInv /\ [Next]_vars => FailInv'
  <2> SUFFICES ASSUME TypeOK, TrustInv, LockInv, FailInv, [Next]_vars
               PROVE  FailInv'
    OBVIOUS
  <2> USE DEF TypeOK
  <2>1. CASE UNCHANGED vars
    BY <2>1 DEF vars, mistral, cloud, engine, history, FailInv, OutOfService
  <2>2. CASE CloudStep /\ UNCHANGED mistral
    BY <2>2, CloudKeeps DEF mistral, engine, history, FailInv, OutOfService
  <2>3. CASE OrphanExpires \/ LeaseLapses
    BY <2>3 DEF OrphanExpires, LeaseLapses, cloud, engine, history, FailInv,
                OutOfService
  <2>4. ASSUME NEW e \in Execs, Start(e) PROVE FailInv'
    <3>1. /\ pc' = [pc EXCEPT ![e] = "acquire_lock"]
          /\ safe' = [safe EXCEPT ![e] = FALSE]
          /\ last' = IF last = e THEN NoOne ELSE last
          /\ \A f \in Execs \ {e} : trusted'[f] = trusted[f]
          /\ UNCHANGED <<step, nova, maintenance>>
      BY <2>4 DEF Start, cloud, MistralTypeOK
    <3> QED
      BY <3>1, ExecsAssumption DEF FailInv, OutOfService, MistralTypeOK
  <2>5. ASSUME NEW e \in Execs, ExecStep(e) PROVE FailInv'
    <3> SUFFICES ASSUME NEW f \in Execs
                 PROVE  /\ safe'[f] => pc'[f] \in {"audit_failure",
                                            "release_lock_error", "ERROR"}
                        /\ pc'[f] = "fail_safe_host" /\ step'[f] # 0
                             /\ trusted'[f] => nova'.status = "disabled"
                        /\ safe'[f] /\ trusted'[f] /\ last' = f
                             => OutOfService'
      BY DEF FailInv
    <3>1. trusted'[f] = trusted[f]
      BY <2>5, ExecSteps
    <3>2. CASE f = e
      BY <2>5, <3>1, <3>2, FailOwnStep
    <3>3. CASE f # e
      <4>1. /\ pc'[f] = pc[f] /\ step'[f] = step[f]
            /\ last' = f => last = f
        BY <2>5, <3>3, ExecSteps
      <4>2. safe'[f] = safe[f]
        <5>1. CASE FailSafeMaintenance(e)
          BY <3>3, <5>1 DEF FailSafeMaintenance, MistralTypeOK
        <5> QED
          BY <2>5, <5>1, OtherSteps
      <4>3. pc[f] = "fail_safe_host" /\ trusted[f] => last = f
        BY DEF LockInv, ProtectedTasks
      <4>4. trusted[f] /\ last = f => UNCHANGED Flags
        BY <2>5, <3>3, OthersKeepFlags
      <4> QED
        BY <3>1, <4>1, <4>2, <4>3, <4>4 DEF FailInv, OutOfService, Flags
    <3> QED
      BY <3>2, <3>3
  <2> QED
    BY <2>1, <2>2, <2>3, <2>4, <2>5 DEF Next, MistralStep
<1>3. FailInv => FailureLeavesHostOut
  BY DEF FailInv, FailureLeavesHostOut
<1> QED
  BY <1>1, <1>2, <1>3, TypeCorrect, LockInvariant, PTL DEF Spec

-----------------------------------------------------------------------------
(***************************************************************************)
(* What a workflow that succeeded leaves behind.                           *)
(***************************************************************************)

\* The tasks that return a host, which planned_power_off does not have.
ReturnTasks ==
  {"request_on", "wait_on", "wait_nova", "verify_host_return", "nova_enable",
   "maintenance_off"}

\* The strengthening follows the flags along the last tasks of a workflow: a
\* host is enabled from maintenance_off on, and off maintenance after it.
DoneFor(e) ==
  IF wf[e] = "planned_power_off"
  THEN /\ pc[e] \notin ReturnTasks
       /\ pc[e] \in {"audit_success", "release_lock", "SUCCESS"} => OutOfService
  ELSE /\ pc[e] \in {"maintenance_off", "audit_success", "release_lock",
                     "SUCCESS"} => nova.status = "enabled"
       /\ pc[e] \in {"audit_success", "release_lock", "SUCCESS"}
            => ~maintenance

DoneInv == \A e \in Execs : trusted[e] /\ last = e => DoneFor(e)

\* How the last tasks of a workflow are reached: never by an error.
LEMMA EnteredDone ==
  ASSUME NEW w \in Workflows, NEW t \in Tasks
  PROVE  /\ OnError(t) \notin ReturnTasks \cup {"audit_success", "release_lock",
                                                "SUCCESS"}
         /\ OnSuccess(w, t) = "maintenance_off" => t = "nova_enable"
         /\ OnSuccess(w, t) = "audit_success" =>
              \/ t = "maintenance_off"
              \/ t = "wait_off" /\ w = "planned_power_off"
         /\ OnSuccess(w, t) = "release_lock" => t = "audit_success"
         /\ OnSuccess(w, t) = "SUCCESS" => t = "release_lock"
         /\ w = "planned_power_off" /\ OnSuccess(w, t) \in ReturnTasks
              => t \in ReturnTasks
BY DEF OnSuccess, OnError, Tasks, ProtectedTasks, Workflows, CommonSuccessor,
       AfterResolve, AfterWaitOff, FailureTasks, ReturnTasks

\* A task that writes a flag ends without writing it only by failing.
LEMMA FlagTaskFails ==
  ASSUME TypeOK, NEW e \in Execs, ExecStep(e), ~FlagStep(e),
         pc[e] \in {"maintenance_on", "nova_disable", "nova_enable",
                    "maintenance_off"}
  PROVE  pc'[e] = OnError(pc[e])
<1>1. TaskFails(e)
  BY DEF ExecStep, FlagStep, AcquireHostLock, RefreshHostLock,
         ReleaseHostLock, ResolveHost, DrainHost, PollDrained, AssertHostSafe,
         ReadBeforePower, SetNodePowerState, WaitPower, WaitNovaService,
         VerifyReturn, AuditEvent
<1> QED
  BY <1>1 DEF TaskFails, EndTask, TypeOK, MistralTypeOK

\* A step of the execution itself keeps its part of the invariant.
LEMMA DoneOwnStep ==
  ASSUME TypeOK, OutInv, DoneInv, NEW e \in Execs, ExecStep(e),
         trusted[e], last' = e
  PROVE  DoneFor(e)'
<1> USE DEF TypeOK
<1>1. /\ pc[e] \in Tasks
      /\ wf[e] \in Workflows
      /\ pc'[e] \in {pc[e], OnSuccess(wf[e], pc[e]), OnError(pc[e])}
      /\ wf' = wf
  BY ExecSteps DEF MistralTypeOK
<1>2. CASE AcquireHostLock(e)
  <2>1. pc'[e] \in {"resolve", "ERROR"}
    <3>1. pc[e] = "acquire_lock"
      BY <1>2 DEF AcquireHostLock
    <3>2. pc'[e] \in {OnSuccess(wf[e], "acquire_lock"), OnError("acquire_lock")}
      BY <1>2, <3>1 DEF AcquireHostLock, EndTask, MistralTypeOK
    <3> QED
      BY <3>2 DEF OnSuccess, OnError, CommonSuccessor
  <2> QED
    BY <2>1 DEF DoneFor, ReturnTasks
<1> SUFFICES ASSUME ~AcquireHostLock(e) PROVE DoneFor(e)'
  BY <1>2
<1>3. DoneFor(e)
  <2>1. last' = last
    BY InnerSteps DEF InnerStep, ReleaseHostLock, history
  <2> QED
    BY <2>1 DEF DoneInv
<1>4. pc'[e] \in ReturnTasks /\ wf[e] = "planned_power_off"
        => pc[e] \in ReturnTasks
  BY <1>1, EnteredDone
<1>5. CASE SetMasakariMaintenance(e)
  <2>1. /\ pc[e] \in {"maintenance_on", "maintenance_off"}
        /\ nova' = nova
        /\ pc'[e] \in {OnSuccess(wf[e], pc[e]), OnError(pc[e])}
    BY <1>5 DEF SetMasakariMaintenance, EndTask, MistralTypeOK
  <2>2. CASE pc'[e] \in ReturnTasks \cup {"audit_success", "release_lock",
                                          "SUCCESS"}
    <3>1. pc'[e] = OnSuccess(wf[e], pc[e]) /\ pc'[e] # OnError(pc[e])
      BY <1>1, <2>1, <2>2, EnteredDone
    <3>2. pc[e] = "maintenance_off" /\ pc'[e] = "audit_success"
      BY <2>1, <2>2, <3>1 DEF OnSuccess, CommonSuccessor, ReturnTasks
    <3>3. "masakari" \in Mapped
      BY <1>5, <3>1 DEF SetMasakariMaintenance, EndTask, MistralTypeOK
    <3>4. maintenance' = FALSE
      BY <1>5, <3>2, <3>3 DEF SetMasakariMaintenance
    <3>5. wf[e] # "planned_power_off"
      BY <1>3, <3>2 DEF DoneFor, ReturnTasks
    <3> QED
      BY <1>1, <1>3, <2>1, <3>2, <3>4, <3>5 DEF DoneFor
  <2> QED
    BY <2>2 DEF DoneFor, ReturnTasks
<1>6. CASE SetNovaService(e)
  <2>1. /\ pc[e] \in {"nova_disable", "nova_enable"}
        /\ pc'[e] \in {OnSuccess(wf[e], pc[e]), OnError(pc[e])}
    BY <1>6 DEF SetNovaService, EndTask, MistralTypeOK
  <2>2. CASE pc'[e] \in ReturnTasks \cup {"audit_success", "release_lock",
                                          "SUCCESS"}
    <3>1. pc'[e] = OnSuccess(wf[e], pc[e]) /\ pc'[e] # OnError(pc[e])
      BY <1>1, <2>1, <2>2, EnteredDone
    <3>2. pc[e] = "nova_enable" /\ pc'[e] = "maintenance_off"
      BY <2>1, <2>2, <3>1 DEF OnSuccess, CommonSuccessor, ReturnTasks
    <3>3. "nova" \in Mapped
      BY <1>6, <3>1 DEF SetNovaService, EndTask, MistralTypeOK
    <3>4. nova'.status = "enabled"
      BY <1>6, <3>2, <3>3 DEF SetNovaService, NovaWithStatus, CloudTypeOK
    <3>5. wf[e] # "planned_power_off"
      BY <1>3, <3>2 DEF DoneFor, ReturnTasks
    <3> QED
      BY <1>1, <3>2, <3>4, <3>5 DEF DoneFor
  <2> QED
    BY <2>2 DEF DoneFor, ReturnTasks
<1>7. CASE FailSafeNova(e) \/ FailSafeMaintenance(e)
  <2>1. pc[e] = "fail_safe_host"
    BY <1>7 DEF FailSafeNova, FailSafeMaintenance
  <2>2. pc'[e] \in {"fail_safe_host", "audit_failure"}
    BY <1>1, <2>1 DEF OnSuccess, OnError, CommonSuccessor, FailureTasks
  <2> QED
    BY <2>2 DEF DoneFor, ReturnTasks
<1>8. CASE ~FlagStep(e)
  <2>1. nova'.status = nova.status /\ maintenance' = maintenance
    BY <1>8, OtherSteps DEF Flags
  <2>2. pc'[e] = "maintenance_off" => pc[e] = "maintenance_off"
    BY <1>1, <1>8, EnteredDone, FlagTaskFails DEF ReturnTasks
  <2>3. pc'[e] = "audit_success" =>
          \/ pc[e] = "audit_success"
          \/ pc[e] = "wait_off" /\ wf[e] = "planned_power_off"
    BY <1>1, <1>8, EnteredDone, FlagTaskFails
  <2>4. pc'[e] \in {"release_lock", "SUCCESS"} =>
          pc[e] \in {"audit_success", "release_lock", "SUCCESS"}
    BY <1>1, EnteredDone
  <2>5. wf[e] = "planned_power_off" /\ pc[e] = "wait_off" => OutOfService
    BY DEF OutInv, AwayFromService
  <2>6. CASE wf[e] = "planned_power_off"
    BY <1>1, <1>3, <1>4, <2>1, <2>3, <2>4, <2>5, <2>6 DEF DoneFor, OutOfService
  <2>7. CASE wf[e] # "planned_power_off"
    BY <1>1, <1>3, <2>1, <2>2, <2>3, <2>4, <2>7 DEF DoneFor
  <2> QED
    BY <2>6, <2>7
<1> QED
  BY <1>5, <1>6, <1>7, <1>8 DEF FlagStep

\* A workflow that succeeded did what it is for, until the next one takes the
\* lock: planned_power_off leaves the host out of service, the others leave
\* it enabled and off maintenance.
THEOREM SuccessKeepsItsPromise == Spec => []SuccessMeansDone
<1>1. Init => OutInv /\ DoneInv
  BY DEF Init, MistralInit, OutInv, DoneInv
<1>2. TypeOK /\ TrustInv /\ LockInv /\ OutInv /\ DoneInv /\ [Next]_vars
        => DoneInv'
  <2> SUFFICES ASSUME TypeOK, TrustInv, LockInv, OutInv, DoneInv, [Next]_vars,
                      NEW e \in Execs, trusted'[e], last' = e
               PROVE  DoneFor(e)'
    BY DEF DoneInv
  <2> USE DEF TypeOK
  <2>1. CASE UNCHANGED vars
    BY <2>1 DEF vars, mistral, cloud, engine, history, DoneInv, DoneFor,
                OutOfService
  <2>2. CASE CloudStep /\ UNCHANGED mistral
    BY <2>2, CloudKeeps DEF mistral, engine, history, DoneInv, DoneFor,
                            OutOfService
  <2>3. CASE OrphanExpires \/ LeaseLapses
    BY <2>3 DEF OrphanExpires, LeaseLapses, cloud, engine, history, DoneInv,
                DoneFor, OutOfService
  <2>4. ASSUME NEW f \in Execs, Start(f) PROVE DoneFor(e)'
    <3>1. /\ pc' = [pc EXCEPT ![f] = "acquire_lock"]
          /\ last' = IF last = f THEN NoOne ELSE last
          /\ \A g \in Execs \ {f} : trusted'[g] = trusted[g] /\ wf'[g] = wf[g]
          /\ UNCHANGED <<nova, maintenance>>
      BY <2>4 DEF Start, cloud, MistralTypeOK
    <3>2. e # f /\ last = e
      BY <3>1, ExecsAssumption
    <3>3. pc'[e] = pc[e] /\ wf'[e] = wf[e] /\ trusted[e]
      BY <3>1, <3>2 DEF MistralTypeOK
    <3> QED
      BY <3>1, <3>2, <3>3 DEF DoneInv, DoneFor, OutOfService
  <2>5. ASSUME NEW f \in Execs, ExecStep(f) PROVE DoneFor(e)'
    <3>1. trusted[e]
      BY <2>5, ExecSteps
    <3>2. CASE f = e
      BY <2>5, <3>1, <3>2, DoneOwnStep
    <3>3. CASE f # e
      <4>1. pc'[e] = pc[e] /\ wf'[e] = wf[e] /\ last = e
        BY <2>5, <3>3, ExecSteps
      <4>2. UNCHANGED Flags
        BY <2>5, <3>1, <3>3, <4>1, OthersKeepFlags
      <4> QED
        BY <3>1, <4>1, <4>2 DEF DoneInv, DoneFor, OutOfService, Flags
    <3> QED
      BY <3>2, <3>3
  <2> QED
    BY <2>1, <2>2, <2>3, <2>4, <2>5 DEF Next, MistralStep
<1>3. DoneInv => SuccessMeansDone
  BY DEF DoneInv, DoneFor, SuccessMeansDone
<1> QED
  BY <1>1, <1>2, <1>3, OutStep, TypeCorrect, LockInvariant, PTL DEF Spec

-----------------------------------------------------------------------------
(***************************************************************************)
(* A rebooted host is on when it is returned.                              *)
(***************************************************************************)

IsOff == node.power_state = "power off"

OnAndIdle == node.power_state = "power on" /\ ~Pending(node)

RebootReturns ==
  {"wait_nova", "verify_host_return", "nova_enable", "maintenance_off",
   "audit_success"}

\* The strengthening follows the node along the reboot.  wait_off saw the
\* host off, so a later "power on" is one that nothing is pending after; the
\* request sees through the targets that other executions left behind.
RebootFor(e) ==
  /\ pc[e] = "request_on" => IsOff \/ OnAndIdle
  /\ pc[e] = "request_on" /\ step[e] # 0 => IsOff /\ ~Pending(node)
  /\ pc[e] = "wait_on" =>
       \/ OnAndIdle
       \/ IsOff /\ node.target_power_state \in {NoTarget, "power on"}
  /\ pc[e] \in RebootReturns => OnAndIdle

RebootInv ==
  \A e \in Execs : wf[e] = "planned_reboot" /\ trusted[e] => RebootFor(e)

\* How planned_reboot comes to its second half.
LEMMA EnteredReboot ==
  ASSUME NEW t \in Tasks
  PROVE  /\ OnError(t) \notin {"request_on", "wait_on"} \cup RebootReturns
         /\ OnSuccess("planned_reboot", t) = "request_on" => t = "wait_off"
         /\ OnSuccess("planned_reboot", t) = "wait_on" => t = "request_on"
         /\ OnSuccess("planned_reboot", t) \in RebootReturns
              => t \in RebootReturns \cup {"wait_on"}
BY DEF OnSuccess, OnError, Tasks, ProtectedTasks, CommonSuccessor,
       AfterResolve, AfterWaitOff, FailureTasks, RebootReturns

\* What Ironic does by itself keeps an execution's part of the invariant: it
\* carries a target out or gives it up, and takes none on.
LEMMA CloudKeepsReboot ==
  ASSUME CloudTypeOK, CloudStep, NEW e \in Execs, RebootFor(e),
         pc'[e] = pc[e], step'[e] = step[e]
  PROVE  RebootFor(e)'
<1> USE DEF CloudTypeOK, PowerStates, PowerTargets, NoTarget, Pending
<1>1. CASE PowerSettles
  <2>1. /\ Pending(node) /\ ~Pending(node)'
        /\ node'.target_power_state = NoTarget
        /\ node'.power_state \in {"power on", "power off"}
        /\ IsOff /\ node.target_power_state \in {NoTarget, "power off"} => IsOff'
    BY <1>1 DEF PowerSettles, IsOff
  <2> QED
    BY <2>1 DEF RebootFor, IsOff, OnAndIdle
<1>2. CASE PowerFails
  <2>1. /\ Pending(node) /\ ~Pending(node)'
        /\ node'.target_power_state = NoTarget
        /\ node'.power_state = node.power_state
    BY <1>2 DEF PowerFails
  <2> QED
    BY <2>1 DEF RebootFor, IsOff, OnAndIdle
<1>3. CASE node' = node
  BY <1>3 DEF RebootFor, IsOff, OnAndIdle
<1>4. NovaReports => node' = node
  BY DEF NovaReports
<1>5. ASSUME NEW s \in Servers,
             Schedule(s) \/ Land(s) \/ TenantStarts(s) \/ StopEnds(s)
               \/ MigrationEnds(s)
      PROVE  node' = node
  BY <1>5 DEF Schedule, Land, TenantStarts, StopEnds, MigrationEnds,
              ServerBecomes
<1> QED
  BY <1>1, <1>2, <1>3, <1>4, <1>5 DEF CloudStep

\* Only request_power writes the node, and the tasks that wait for the power
\* or request it go on only in their own steps.
LEMMA OtherPowerSteps ==
  ASSUME TypeOK, NEW e \in Execs, ExecStep(e), ~SetNodePowerState(e)
  PROVE  /\ node' = node
         /\ pc[e] \in {"wait_off", "request_on", "wait_on"}
              /\ ~ReadBeforePower(e) /\ ~WaitPower(e)
              => pc'[e] = OnError(pc[e])
<1>1. node' = node
  BY DEF ExecStep, AcquireHostLock, RefreshHostLock, ReleaseHostLock,
         ResolveHost, SetMasakariMaintenance, SetNovaService, DrainHost,
         PollDrained, AssertHostSafe, ReadBeforePower, WaitPower,
         WaitNovaService, VerifyReturn, AuditEvent, FailSafeNova,
         FailSafeMaintenance, TaskFails, cloud
<1>2. ASSUME pc[e] \in {"wait_off", "request_on", "wait_on"},
             ~ReadBeforePower(e), ~WaitPower(e)
      PROVE  pc'[e] = OnError(pc[e])
  <2>1. TaskFails(e)
    BY <1>2 DEF ExecStep, AcquireHostLock, RefreshHostLock, ReleaseHostLock,
         ResolveHost, SetMasakariMaintenance, SetNovaService, DrainHost,
         PollDrained, AssertHostSafe, WaitNovaService, VerifyReturn,
         AuditEvent, FailSafeNova, FailSafeMaintenance
  <2> QED
    BY <2>1 DEF TaskFails, EndTask, TypeOK, MistralTypeOK
<1> QED
  BY <1>1, <1>2

\* A step of the execution itself keeps its part of the invariant.
LEMMA RebootOwnStep ==
  ASSUME TypeOK, NEW e \in Execs, ExecStep(e), wf[e] = "planned_reboot",
         RebootFor(e)
  PROVE  RebootFor(e)'
<1> USE DEF TypeOK
<1> DEFINE Half == {"request_on", "wait_on"} \cup RebootReturns
<1>1. /\ pc[e] \in Tasks
      /\ pc'[e] \in {pc[e], OnSuccess("planned_reboot", pc[e]), OnError(pc[e])}
  BY ExecSteps
<1>2. pc'[e] = OnError(pc[e]) => pc'[e] \notin Half
  BY <1>1, EnteredReboot
<1>3. pc'[e] \notin Half => RebootFor(e)'
  BY DEF RebootFor
<1>4. /\ node.power_state \in PowerStates
      /\ node.target_power_state \in PowerTargets \cup {NoTarget}
  BY DEF CloudTypeOK
<1>5. CASE SetNodePowerState(e)
  <2>1. /\ pc[e] \in {"request_off", "request_on"} /\ step[e] = 1
        /\ pc'[e] \in {OnSuccess("planned_reboot", pc[e]), OnError(pc[e])}
    BY <1>5 DEF SetNodePowerState, EndTask, MistralTypeOK
  <2>2. CASE pc'[e] \in Half
    <3>1. pc[e] = "request_on" /\ pc'[e] = "wait_on"
      BY <1>1, <1>2, <2>1, <2>2, EnteredReboot
         DEF RebootReturns, OnSuccess, CommonSuccessor
    <3>2. IsOff /\ ~Pending(node)
      BY <2>1, <3>1 DEF RebootFor
    <3>3. node' = NodeWithTarget("power on")
      BY <1>5, <3>1, <3>2 DEF SetNodePowerState, NodeAccepts, EffectiveTarget,
                               Target, Soft
    <3>4. IsOff' /\ node'.target_power_state = "power on"
      BY <3>2, <3>3 DEF NodeWithTarget, IsOff, CloudTypeOK
    <3> QED
      BY <3>1, <3>4 DEF RebootFor, RebootReturns
  <2> QED
    BY <1>3, <2>2
<1>6. CASE ReadBeforePower(e)
  <2>1. /\ pc[e] \in {"request_off", "request_on"} /\ step[e] = 0
        /\ node' = node
    BY <1>6 DEF ReadBeforePower, cloud
  <2>2. CASE pc[e] = "request_off"
    <3>1. pc'[e] \notin Half
      BY <1>1, <1>2, <2>2 DEF OnSuccess, CommonSuccessor, RebootReturns
    <3> QED
      BY <1>3, <3>1
  <2>3. CASE pc[e] = "request_on"
    <3> DEFINE d == RequestPower(node, "power on", FALSE)
    <3>1. /\ d = "set" => IsOff /\ ~Pending(node)
          /\ d = "done" => \/ node.power_state = "power on"
                           \/ node.target_power_state = "power on"
          /\ d \in {"done", "conflict", "set"}
      BY <1>4 DEF RequestPower, EffectiveTarget, IsOff, PowerStates
    <3>2. \/ EndTask(e, "error")
          \/ d = "done" /\ EndTask(e, "ok")
          \/ d = "set" /\ NextCall(e)
      BY <1>6, <2>3, <3>1 DEF ReadBeforePower, Target, Soft
    <3>3. CASE EndTask(e, "error")
      <4>1. pc'[e] = OnError(pc[e])
        BY <3>3 DEF EndTask, MistralTypeOK
      <4> QED
        BY <1>2, <1>3, <4>1
    <3>4. CASE d = "done" /\ EndTask(e, "ok")
      <4>1. pc'[e] = "wait_on"
        <5>1. OnSuccess(wf[e], "request_on") = "wait_on"
          BY DEF OnSuccess, CommonSuccessor
        <5> QED
          BY <2>3, <3>4, <5>1 DEF EndTask, MistralTypeOK
      <4>2. IsOff \/ OnAndIdle
        BY <2>3 DEF RebootFor
      <4>3. \/ OnAndIdle
            \/ IsOff /\ node.target_power_state = "power on"
        BY <3>1, <3>4, <4>2 DEF IsOff, OnAndIdle
      <4> QED
        BY <2>1, <4>1, <4>3 DEF RebootFor, RebootReturns, IsOff, OnAndIdle,
                                Pending
    <3>5. CASE d = "set" /\ NextCall(e)
      <4>1. pc' = pc
        BY <3>5 DEF NextCall
      <4> QED
        BY <2>1, <2>3, <3>1, <3>5, <4>1 DEF RebootFor, RebootReturns, IsOff,
                                            OnAndIdle, Pending
    <3> QED
      BY <3>2, <3>3, <3>4, <3>5
  <2> QED
    BY <2>1, <2>2, <2>3
<1>7. CASE WaitPower(e)
  <2> DEFINE v == PollPower(node, Target(pc[e]), stable[e],
                            step[e] + 1 = PowerAttempts, Stable)
  <2>1. pc[e] \in {"wait_off", "wait_on"} /\ node' = node
    BY <1>7 DEF WaitPower, cloud
  <2>2. v = "ok" => node.power_state = Target(pc[e])
    BY StableAssumption DEF PollPower, StableAfter
  <2>3. \/ pc'[e] = pc[e]
        \/ pc'[e] = OnError(pc[e])
        \/ v = "ok" /\ pc'[e] = OnSuccess("planned_reboot", pc[e])
                    /\ step'[e] = 0
    <3>1. v \in {"ok", "error", "again"}
      BY DEF PollPower
    <3> QED
      BY <1>7, <3>1 DEF WaitPower, EndTask, MistralTypeOK
  <2>4. CASE pc'[e] = pc[e]
    BY <2>1, <2>4 DEF RebootFor, RebootReturns, IsOff, OnAndIdle, Pending
  <2>5. CASE v = "ok" /\ pc'[e] = OnSuccess("planned_reboot", pc[e])
                      /\ step'[e] = 0
    <3>1. CASE pc[e] = "wait_off"
      <4>1. pc'[e] = "request_on" /\ IsOff
        BY <2>2, <2>5, <3>1 DEF OnSuccess, AfterWaitOff, Target, IsOff
      <4> QED
        BY <2>1, <2>5, <4>1 DEF RebootFor, RebootReturns, IsOff
    <3>2. CASE pc[e] = "wait_on"
      <4>1. pc'[e] = "wait_nova" /\ node.power_state = "power on"
        <5>1. OnSuccess("planned_reboot", "wait_on") = "wait_nova"
          BY DEF OnSuccess, CommonSuccessor
        <5> QED
          BY <2>2, <2>5, <3>2, <5>1 DEF Target
      <4>2. OnAndIdle
        BY <3>2, <4>1 DEF RebootFor, IsOff
      <4> QED
        BY <2>1, <4>1, <4>2 DEF RebootFor, OnAndIdle, Pending
    <3> QED
      BY <2>1, <3>1, <3>2
  <2> QED
    BY <1>2, <1>3, <2>3, <2>4, <2>5
<1>8. CASE ~SetNodePowerState(e) /\ ~ReadBeforePower(e) /\ ~WaitPower(e)
  <2>1. /\ node' = node
        /\ pc[e] \in {"wait_off", "request_on", "wait_on"}
             => pc'[e] \notin Half
    BY <1>2, <1>8, OtherPowerSteps
  <2>2. pc'[e] \in Half => pc[e] \in RebootReturns /\ pc'[e] \in RebootReturns
    BY <1>1, <1>2, <2>1, EnteredReboot
  <2>3. RebootReturns \cap {"request_on", "wait_on"} = {}
    BY DEF RebootReturns
  <2> QED
    BY <1>3, <2>1, <2>2, <2>3 DEF RebootFor, OnAndIdle, Pending
<1> QED
  BY <1>5, <1>6, <1>7, <1>8

\* planned_reboot puts the host back only when it is on with nothing pending,
\* however earlier executions left the node: what wait_off saw, and what
\* request_on finds or sets, leaves no power off that could still be carried
\* out.
THEOREM RebootedHostIsOn == Spec => []RebootReturnsPoweredHost
<1>1. Init => RebootInv
  BY DEF Init, MistralInit, RebootInv
<1>2. TypeOK /\ TrustInv /\ LockInv /\ RebootInv /\ [Next]_vars => RebootInv'
  <2> SUFFICES ASSUME TypeOK, TrustInv, LockInv, RebootInv, [Next]_vars,
                      NEW e \in Execs, wf'[e] = "planned_reboot", trusted'[e]
               PROVE  RebootFor(e)'
    BY DEF RebootInv
  <2> USE DEF TypeOK
  <2>1. CASE UNCHANGED vars
    BY <2>1 DEF vars, mistral, cloud, engine, history, RebootInv, RebootFor,
                IsOff, OnAndIdle, Pending
  <2>2. CASE CloudStep /\ UNCHANGED mistral
    <3>1. RebootFor(e) /\ pc'[e] = pc[e] /\ step'[e] = step[e]
      BY <2>2 DEF mistral, engine, history, RebootInv
    <3> QED
      BY <2>2, <3>1, CloudKeepsReboot
  <2>3. CASE OrphanExpires
    BY <2>3 DEF OrphanExpires, cloud, engine, history, RebootInv, RebootFor,
                IsOff, OnAndIdle, Pending
  <2>4. CASE LeaseLapses
    BY <2>4 DEF LeaseLapses
  <2>5. ASSUME NEW f \in Execs, Start(f) PROVE RebootFor(e)'
    <3>1. /\ pc' = [pc EXCEPT ![f] = "acquire_lock"]
          /\ \A g \in Execs \ {f} : trusted'[g] = trusted[g] /\ wf'[g] = wf[g]
          /\ UNCHANGED <<node, step>>
      BY <2>5 DEF Start, cloud, MistralTypeOK
    <3>2. CASE f = e
      BY <3>1, <3>2 DEF RebootFor, RebootReturns, MistralTypeOK
    <3>3. CASE f # e
      BY <3>1, <3>3 DEF RebootInv, RebootFor, IsOff, OnAndIdle, Pending,
                        MistralTypeOK
    <3> QED
      BY <3>2, <3>3
  <2>6. ASSUME NEW f \in Execs, ExecStep(f) PROVE RebootFor(e)'
    <3>1. RebootFor(e) /\ trusted[e] /\ wf[e] = "planned_reboot"
      BY <2>6, ExecSteps DEF RebootInv
    <3>2. CASE f = e
      BY <2>6, <3>1, <3>2, RebootOwnStep
    <3>3. CASE f # e
      <4>1. pc'[e] = pc[e] /\ step'[e] = step[e]
        BY <2>6, <3>3, ExecSteps
      <4>2. CASE pc[e] \in {"request_on", "wait_on"} \cup RebootReturns
        <5>1. last = e
          BY <3>1, <4>2 DEF LockInv, ProtectedTasks, RebootReturns
        <5>2. trusted[f]
          BY <2>6, <3>1, ExecSteps DEF TrustInv, Running
        <5>3. ~SetNodePowerState(f)
          BY <3>3, <5>1, <5>2 DEF LockInv, SetNodePowerState, ProtectedTasks
        <5>4. node' = node
          BY <2>6, <5>3, OtherPowerSteps
        <5> QED
          BY <3>1, <4>1, <5>4 DEF RebootFor, IsOff, OnAndIdle, Pending
      <4> QED
        BY <4>1, <4>2 DEF RebootFor
    <3> QED
      BY <3>2, <3>3
  <2> QED
    BY <2>1, <2>2, <2>3, <2>4, <2>5, <2>6 DEF Next, MistralStep
<1>3. RebootInv => RebootReturnsPoweredHost
  BY DEF RebootInv, RebootFor, RebootReturns, OnAndIdle,
         RebootReturnsPoweredHost
<1> QED
  BY <1>1, <1>2, <1>3, TypeCorrect, LockInvariant, PTL DEF Spec
=============================================================================
