----------------------------- MODULE SystemProofs -----------------------------
(***************************************************************************)
(* Proofs about planned workflows and failure recovery on the same host.   *)
(* The steps of Mistral and of the cloud are those of MistralProofs; what  *)
(* is new is that a recovery, which knows nothing of the lock, changes the *)
(* same services at any moment.                                            *)
(***************************************************************************)
EXTENDS PowerOpsSystem, MistralProofs

-----------------------------------------------------------------------------
(***************************************************************************)
(* Types.                                                                  *)
(***************************************************************************)

\* A task of the flow ends in a task of the flow or in one of its ends.
LEMMA FlowTypes ==
  ASSUME NEW t \in FlowTasks \cup {"none", "finished", "error"}, Flow(t)
  PROVE  RecoveryTypeOK'
BY DEF Flow, RecoveryTypeOK

\* The observations of the fence are counted in numbers, and a count other
\* than zero means that the host was seen off.
LEMMA StableCounts ==
  ASSUME NEW n, NEW k \in Nat
  PROVE  /\ StableAfter(n, "power off", k) \in Nat
         /\ StableAfter(n, "power off", k) # 0 => n.power_state = "power off"
<1>1. k + 1 \in Nat
  OBVIOUS
<1> QED
  BY <1>1, Zenon DEF StableAfter

\* A recovery keeps the types, its own and those of the cloud.
LEMMA RecoveryKeepsTypes ==
  ASSUME CloudTypeOK, RecoveryTypeOK, RecoveryStep
  PROVE  CloudTypeOK' /\ RecoveryTypeOK'
<1> USE DEF CloudTypeOK, FlowTasks
<1>1. CASE Notified
  BY <1>1, FlowTypes DEF Notified
<1>2. CASE Retried \/ FlowFails \/ PrepareInstances
  BY <1>2, FlowTypes DEF Retried, FlowFails, PrepareInstances, cloud
<1>3. CASE DisableComputeService
  BY <1>3, FlowTypes DEF DisableComputeService
<1>4. CASE FenceReads
  <2>1. \E t \in {"error", "fence_send", "fence_poll"} : Flow(t)
    BY <1>4 DEF FenceReads
  <2> QED
    BY <1>4, <2>1, FlowTypes DEF FenceReads, cloud
<1>5. CASE FenceSends
  <2>1. \E t \in {"error", "fence_poll"} : Flow(t)
    BY <1>5 DEF FenceSends
  <2>2. node' \in [power_state : PowerStates,
                   target_power_state : PowerTargets \cup {NoTarget},
                   last_error : BOOLEAN]
    BY <1>5 DEF FenceSends, NodeWithTarget, PowerTargets
  <2> QED
    BY <1>5, <2>1, <2>2, FlowTypes DEF FenceSends
<1>6. CASE FencePolls
  <2>1. \/ \E t \in {"error", "prepare"} : Flow(t)
        \/ /\ fpolls' = fpolls + 1
           /\ fstable' = StableAfter(node, "power off", fstable)
           /\ UNCHANGED flow
    BY <1>6 DEF FencePolls
  <2>2. StableAfter(node, "power off", fstable) \in Nat
    BY StableCounts DEF RecoveryTypeOK
  <2>3. CASE \E t \in {"error", "prepare"} : Flow(t)
    BY <1>6, <2>3, FlowTypes DEF FencePolls, cloud
  <2>4. CASE /\ fpolls' = fpolls + 1
             /\ fstable' = StableAfter(node, "power off", fstable)
             /\ UNCHANGED flow
    <3>1. fpolls + 1 \in Nat
      BY DEF RecoveryTypeOK
    <3>2. RecoveryTypeOK'
      BY <2>2, <2>4, <3>1, Zenon DEF RecoveryTypeOK
    <3> QED
      BY <1>6, <3>2 DEF FencePolls, cloud
  <2> QED
    BY <2>1, <2>3, <2>4
<1>7. CASE EvacuateInstances
  <2>1. servers' \in [Servers -> ServerStates]
    BY <1>7 DEF EvacuateInstances, ServerStates
  <2> QED
    BY <1>7, <2>1, FlowTypes DEF EvacuateInstances
<1> QED
  BY <1>1, <1>2, <1>3, <1>4, <1>5, <1>6, <1>7 DEF RecoveryStep, FlowStep

\* Every step of the system that is not a recovery's is one of Mistral or of
\* the cloud and leaves the recovery alone.
LEMMA SystemSteps ==
  ASSUME [SystemNext]_system
  PROVE  \/ [Next]_vars /\ UNCHANGED recovery
         \/ RecoveryStep /\ UNCHANGED mistral
BY DEF SystemNext, system, Next, vars

\* Every state of planned workflows and recovery together is well typed.
THEOREM SystemTypeCorrect == SystemSpec => []SystemTypeOK
<1>1. SystemInit => SystemTypeOK
  <2>1. RecoveryInit => RecoveryTypeOK
    BY DEF RecoveryInit, RecoveryTypeOK
  <2> QED
    BY <2>1, TypeInit DEF SystemInit, SystemTypeOK
<1>2. SystemTypeOK /\ [SystemNext]_system => SystemTypeOK'
  <2> SUFFICES ASSUME SystemTypeOK, [SystemNext]_system PROVE SystemTypeOK'
    OBVIOUS
  <2>1. powerOn' \in BOOLEAN
    BY DEF SystemNext, Remember, system, SystemTypeOK
  <2>2. CASE [Next]_vars /\ UNCHANGED recovery
    <3>1. TypeOK'
      BY <2>2, TypeStep DEF SystemTypeOK
    <3> QED
      BY <2>1, <2>2, <3>1 DEF SystemTypeOK, recovery, RecoveryTypeOK
  <2>3. CASE RecoveryStep /\ UNCHANGED mistral
    <3>1. CloudTypeOK' /\ RecoveryTypeOK'
      BY <2>3, RecoveryKeepsTypes DEF SystemTypeOK, TypeOK
    <3>2. MistralTypeOK'
      BY <2>3 DEF SystemTypeOK, TypeOK, MistralTypeOK, mistral, engine, history
    <3> QED
      BY <2>1, <3>1, <3>2 DEF SystemTypeOK, TypeOK
  <2> QED
    BY <2>2, <2>3, SystemSteps
<1> QED
  BY <1>1, <1>2, PTL DEF SystemSpec

-----------------------------------------------------------------------------
(***************************************************************************)
(* The fence.                                                              *)
(***************************************************************************)

\* The strengthening: without a power on since the fence began to count none
\* is pending, and one observation of "power off" is enough for the host to
\* stay off.
FenceInv ==
  ~powerOn =>
    /\ node.target_power_state # "power on"
    /\ (flow = "fence_poll" /\ fstable # 0) \/ flow \in {"prepare", "evacuate"}
         => IsOff

\* A host that is off and has no power on pending stays off in any step of
\* the cloud and of Mistral.
LEMMA OffStaysOff ==
  ASSUME TypeOK, [Next]_vars, IsOff, node.target_power_state # "power on"
  PROVE  IsOff'
<1> USE DEF TypeOK, CloudTypeOK, PowerStates, IsOff
<1>1. CASE UNCHANGED vars
  BY <1>1 DEF vars, cloud
<1>2. CASE PowerSettles \/ PowerFails
  BY <1>2 DEF PowerSettles, PowerFails
<1>3. CASE NovaReports
  BY <1>3 DEF NovaReports
<1>4. ASSUME NEW s \in Servers,
             Schedule(s) \/ Land(s) \/ TenantStarts(s) \/ StopEnds(s)
               \/ MigrationEnds(s)
      PROVE  IsOff'
  BY <1>4 DEF Schedule, Land, TenantStarts, StopEnds, MigrationEnds,
              ServerBecomes
<1>5. CASE OrphanExpires \/ LeaseLapses
  BY <1>5 DEF OrphanExpires, LeaseLapses, cloud
<1>6. ASSUME NEW e \in Execs, Start(e) PROVE IsOff'
  BY <1>6 DEF Start, cloud
<1>7. ASSUME NEW e \in Execs, SetNodePowerState(e) PROVE IsOff'
  BY <1>7 DEF SetNodePowerState, NodeWithTarget
<1>8. ASSUME NEW e \in Execs, ExecStep(e), ~SetNodePowerState(e) PROVE IsOff'
  BY <1>8, OtherPowerSteps
<1> QED
  BY <1>1, <1>2, <1>3, <1>4, <1>5, <1>6, <1>7, <1>8
     DEF Next, MistralStep, CloudStep

\* A step of the recovery comes to the states that must be off only by seeing
\* the host off.
LEMMA FenceOwnStep ==
  ASSUME CloudTypeOK, RecoveryTypeOK, RecoveryStep, FenceInv, ~powerOn
  PROVE  (flow' = "fence_poll" /\ fstable' # 0) \/ flow' \in {"prepare", "evacuate"}
           => IsOff'
<1>1. CASE FenceSends
  BY <1>1 DEF FenceSends, Flow
<1>2. CASE FencePolls
  <2> DEFINE v == PollFence(node, fstable, fpolls + 1 = FenceAttempts, StableOff)
  <2>1. StableAfter(node, "power off", fstable) # 0 => IsOff
    BY StableCounts DEF RecoveryTypeOK, IsOff
  <2>2. v = "ok" => IsOff
    <3>1. v = "ok" => StableAfter(node, "power off", fstable) >= StableOff
      BY DEF PollFence
    <3>2. ~(0 >= StableOff)
      BY StableOffAssumption
    <3> QED
      BY <2>1, <3>1, <3>2
  <2>3. node' = node
    BY <1>2 DEF FencePolls, cloud
  <2> QED
    BY <1>2, <2>1, <2>2, <2>3 DEF FencePolls, Flow, IsOff
<1>3. CASE PrepareInstances \/ EvacuateInstances
  BY <1>3 DEF PrepareInstances, EvacuateInstances, Flow, FenceInv, IsOff, cloud
<1>4. CASE Notified \/ Retried \/ FlowFails \/ DisableComputeService \/ FenceReads
  BY <1>4 DEF Notified, Retried, FlowFails, DisableComputeService, FenceReads,
              Flow
<1> QED
  BY <1>1, <1>2, <1>3, <1>4 DEF RecoveryStep, FlowStep

\* The history variable is reset only while the fence has counted nothing.
LEMMA PowerOnReset ==
  ASSUME [SystemNext]_system, powerOn, ~powerOn'
  PROVE  fstable' = 0 /\ flow' \notin {"prepare", "evacuate"}
BY DEF SystemNext, Remember, system

\* Instances are prepared and evacuated only from a host that is off and not
\* about to be switched on, unless a power on was pending after the first of
\* the observations that confirmed the fence: otherwise, whatever Mistral and
\* Ironic do, one observation of "power off" stays true.
THEOREM EvacuationFenced == SystemSpec => []EvacuationIsFenced
<1>1. SystemInit => FenceInv
  <2>1. CloudInit => node.target_power_state # "power on"
    <3> SUFFICES ASSUME CloudInit PROVE node.target_power_state # "power on"
      OBVIOUS
    <3>1. node = [power_state |-> "power on", target_power_state |-> NoTarget,
                  last_error |-> FALSE]
      BY DEF CloudInit
    <3>2. node.target_power_state = NoTarget
      BY <3>1
    <3> QED
      BY <3>2 DEF NoTarget
  <2> QED
    BY <2>1 DEF SystemInit, Init, RecoveryInit, FenceInv
<1>2. SystemTypeOK /\ FenceInv /\ [SystemNext]_system => FenceInv'
  <2> SUFFICES ASSUME SystemTypeOK, FenceInv, [SystemNext]_system, ~powerOn'
               PROVE  FenceInv'
    BY DEF FenceInv
  <2> USE DEF SystemTypeOK, TypeOK
  <2>1. node'.target_power_state # "power on"
    <3>1. CASE UNCHANGED system
      BY <3>1 DEF system, cloud, FenceInv
    <3>2. CASE SystemNext
      BY <3>2 DEF SystemNext, Remember
    <3> QED
      BY <3>1, <3>2
  <2>2. CASE powerOn
    BY <2>1, <2>2, PowerOnReset DEF FenceInv
  <2>3. CASE ~powerOn
    <3>1. CASE [Next]_vars /\ UNCHANGED recovery
      <4>1. IsOff => IsOff'
        BY <2>3, <3>1, OffStaysOff DEF FenceInv
      <4> QED
        BY <2>1, <2>3, <3>1, <4>1 DEF FenceInv, recovery
    <3>2. CASE RecoveryStep
      BY <2>1, <2>3, <3>2, FenceOwnStep DEF FenceInv
    <3> QED
      BY <3>1, <3>2, SystemSteps
  <2> QED
    BY <2>2, <2>3
<1>3. FenceInv => EvacuationIsFenced
  BY DEF FenceInv, EvacuationIsFenced, IsOff
<1> QED
  BY <1>1, <1>2, <1>3, SystemTypeCorrect, PTL DEF SystemSpec

-----------------------------------------------------------------------------
(***************************************************************************)
(* Planned workflows beside a recovery.                                    *)
(***************************************************************************)

\* A recovery only ever takes the host out of service, and a guest off it.
LEMMA RecoveryTakesOut ==
  ASSUME CloudTypeOK, RecoveryStep
  PROVE  /\ maintenance => maintenance'
         /\ OutOfService => OutOfService'
         /\ late' = late
         /\ \A s \in Servers : servers'[s] \in {servers[s], "AWAY"}
<1> USE DEF OutOfService, CloudTypeOK
<1>1. CASE Notified
  BY <1>1 DEF Notified
<1>2. CASE DisableComputeService
  BY <1>2 DEF DisableComputeService
<1>3. CASE EvacuateInstances
  BY <1>3 DEF EvacuateInstances
<1>4. CASE Retried \/ FlowFails \/ FenceReads \/ FencePolls \/ PrepareInstances
  BY <1>4 DEF Retried, FlowFails, FenceReads, FencePolls, PrepareInstances,
              cloud
<1>5. CASE FenceSends
  BY <1>5 DEF FenceSends
<1> QED
  BY <1>1, <1>2, <1>3, <1>4, <1>5 DEF RecoveryStep, FlowStep

\* What MistralProofs shows of planned workflows alone.
PlannedInv == TrustInv /\ LockInv /\ OutInv /\ GuestInv

\* It stays true whenever a recovery strikes.
LEMMA PlannedInvariant == SystemSpec => []PlannedInv
<1>1. SystemInit => PlannedInv
  BY DEF SystemInit, Init, MistralInit, PlannedInv, TrustInv, LockInv, OutInv,
         GuestInv
<1>2. SystemTypeOK /\ PlannedInv /\ [SystemNext]_system => PlannedInv'
  <2> SUFFICES ASSUME SystemTypeOK, PlannedInv, [SystemNext]_system
               PROVE  PlannedInv'
    OBVIOUS
  <2>1. CASE [Next]_vars
    BY <2>1, LockStep, OutStep, GuestStep DEF SystemTypeOK, PlannedInv
  <2>2. CASE RecoveryStep /\ UNCHANGED mistral
    <3>1. /\ maintenance => maintenance'
          /\ OutOfService => OutOfService'
          /\ late' = late
          /\ \A s \in Servers : servers'[s] \in {servers[s], "AWAY"}
      BY <2>2, RecoveryTakesOut DEF SystemTypeOK, TypeOK
    <3>2. UNCHANGED <<owner, last, trusted, pc, wf>>
      BY <2>2 DEF mistral, engine, history
    <3>3. TrustInv' /\ LockInv'
      BY <3>2 DEF PlannedInv, TrustInv, LockInv, Running
    <3>4. OutInv'
      BY <3>1, <3>2 DEF PlannedInv, OutInv
    <3>5. GuestInv'
      BY <3>1, <3>2 DEF PlannedInv, GuestInv
    <3> QED
      BY <3>3, <3>4, <3>5 DEF PlannedInv
  <2> QED
    BY <2>1, <2>2, SystemSteps
<1> QED
  BY <1>1, <1>2, SystemTypeCorrect, PTL DEF SystemSpec

\* Whenever a recovery strikes and whatever it does, planned workflows still
\* exclude each other, keep the host out of service while they work on it and
\* power off no guest that assert_host_safe saw running.
THEOREM PlannedWorkWithstandsRecovery ==
  SystemSpec => [](MutualExclusion /\ PlannedOutOfService /\ PowerOffSparesGuests)
<1>1. SystemTypeOK /\ PlannedInv
        => MutualExclusion /\ PlannedOutOfService /\ PowerOffSparesGuests
  <2> SUFFICES ASSUME SystemTypeOK, PlannedInv
               PROVE  MutualExclusion /\ PlannedOutOfService
                        /\ PowerOffSparesGuests
    OBVIOUS
  <2>1. MutualExclusion
    BY DEF PlannedInv, LockInv, MutualExclusion
  <2>2. PlannedOutOfService
    BY DEF PlannedInv, OutInv, PlannedOutOfService
  <2>3. PowerOffSparesGuests
    BY DEF SystemTypeOK, TypeOK, CloudTypeOK, PlannedInv, GuestInv,
           PowerOffSparesGuests, RunningHere
  <2> QED
    BY <2>1, <2>2, <2>3
<1> QED
  BY <1>1, SystemTypeCorrect, PlannedInvariant, PTL

\* Recovery works on the host without the lock, and still leaves planned workflows the
\* abstract lock that they have without it: none of its steps moves the lock or an execution.
THEOREM LockWithstandsRecovery == SystemSpec => ImplementsHostLock
<1>1. SystemInit => Lock!Init
  BY DEF SystemInit, Init, MistralInit, Lock!Init, ProtectedTasks
<1>2. SystemTypeOK /\ PlannedInv /\ PlannedInv' /\ [SystemNext]_system
        => [Lock!Next]_<<owner, Acting>>
  <2> SUFFICES ASSUME SystemTypeOK, PlannedInv, PlannedInv', [SystemNext]_system
               PROVE  [Lock!Next]_<<owner, Acting>>
    OBVIOUS
  <2>1. CASE [Next]_vars
    BY <2>1, PlannedStepIsLockStep DEF SystemTypeOK, PlannedInv
  <2>2. CASE RecoveryStep /\ UNCHANGED mistral
    BY <2>2 DEF mistral, engine, history, Acting
  <2> QED
    BY <2>1, <2>2, SystemSteps
<1> QED
  BY <1>1, <1>2, SystemTypeCorrect, PlannedInvariant, PTL
     DEF SystemSpec, ImplementsHostLock, Lock!Spec, Acting

\* A planned workflow hides its host from new failures: between draining the
\* host and returning it no recovery starts but the retry of one that ended in
\* error, because Masakari drops the notification of a host on maintenance.  A
\* retry does not look at the flag, and is excepted.
THEOREM PlannedWorkHidden == SystemSpec => PlannedWorkHidesHost
<1> DEFINE Hides == ~Recovering /\ Recovering' =>
                      \/ Retried
                      \/ \A e \in Execs :
                           pc[e] \in AwayFromService /\ trusted[e] =>
                             wf[e] = "power_on_and_return"
<1>1. PlannedInv /\ [SystemNext]_system => [Hides]_system
  <2> SUFFICES ASSUME PlannedInv, SystemNext, ~Recovering, ~Retried,
                      Recovering', NEW e \in Execs, pc[e] \in AwayFromService,
                      trusted[e], wf[e] # "power_on_and_return"
               PROVE  FALSE
    OBVIOUS
  <2>1. RecoveryStep
    BY DEF SystemNext, recovery, Recovering
  <2>2. Notified
    BY <2>1 DEF RecoveryStep, FlowStep, FlowFails,
         DisableComputeService, FenceReads, FenceSends, FencePolls,
         PrepareInstances, EvacuateInstances, Recovering, FlowTasks
  <2>3. maintenance
    BY DEF PlannedInv, OutInv, OutOfService
  <2> QED
    BY <2>2, <2>3 DEF Notified
<1> QED
  BY <1>1, PlannedInvariant, PTL DEF SystemSpec, PlannedWorkHidesHost
=============================================================================
